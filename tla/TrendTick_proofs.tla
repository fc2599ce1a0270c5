-------------------------- MODULE TrendTick_proofs --------------------------
(***************************************************************************)
(* What TLAPS proves of TrendTick, for every watchlist, cap, percentage,   *)
(* day length and number of faults that its assumptions allow.             *)
(***************************************************************************)
EXTENDS TrendTick, TLAPS, FiniteSetTheorems

-----------------------------------------------------------------------------
(* Types. *)

\* A buy that is sent is a positive whole number of dollars.
LEMMA NotionalType ==
  ASSUME NEW a \in [equity : Nat, cash : Int], ~Dust(Notional(a))
  PROVE  Notional(a) \in Nat \ {0}
<1>1. Target(a) \in Int
  BY TrendTickAssumption DEF Target
<1>2. Spendable(a) \in Int
  BY TrendTickAssumption DEF Spendable
<1>. QED
  BY <1>1, <1>2, TrendTickAssumption DEF Notional, Dust

LEMMA WatchlistType ==
  /\ Len(Watchlist) \in Nat \ {0}
  /\ \A i \in 1 .. Len(Watchlist) : Watchlist[i] \in Symbols
BY TrendTickAssumption

LEMMA ConstantTypes ==
  /\ MaxFaults \in Nat
  /\ 0 \in Days
BY TrendTickAssumption, KillSwitchAssumption DEF Days

\* Only these steps move the broker's side.
LEMMA BrokerTypeStep ==
  ASSUME BrokerTypeOK, LocalsTypeOK, [Next]_vars
  PROVE  BrokerTypeOK'
<1>. USE DEF BrokerTypeOK
<1>1. ASSUME UNCHANGED brokerVars PROVE BrokerTypeOK'
  BY <1>1 DEF brokerVars
<1>2. CASE SweepOne
  BY <1>1, <1>2 DEF SweepOne, Closable, Held, AcceptClose
<1>3. CASE ClosePosition
  BY <1>1, <1>3 DEF ClosePosition, Closable, Held, AcceptClose
<1>4. ASSUME ~Dust(Notional(acct)), pc = "submit_buy", AcceptBuy(Symbol, Notional(acct))
      PROVE  BrokerTypeOK'
  <2>1. Symbol \in Symbols
    BY <1>4, WatchlistType DEF Symbol, LocalsTypeOK
  <2>2. Notional(acct) \in Nat
    BY <1>4, NotionalType DEF LocalsTypeOK
  <2>. QED
    BY <1>4, <2>1, <2>2 DEF AcceptBuy
<1>5. CASE BuyAccepted
  BY <1>4, <1>5 DEF BuyAccepted
<1>6. CASE BuyReplyLost
  BY <1>4, <1>6 DEF BuyReplyLost
<1>7. CASE Broker
  <2>1. CASE OthersTrade
    <3>1. PICK o \in OthersBooks : /\ others' = o /\ cash' = cash + others.taken - o.taken
                                  /\ reserved' = reserved + o.working - others.working
      BY <2>1 DEF OthersTrade
    <3>2. o \in [taken : Int, working : Nat] /\ others \in [taken : Int, working : Nat]
      BY BrokerAssumption
    <3>. QED
      BY <2>1, <3>1, <3>2 DEF OthersTrade
  <2>. QED
    BY <1>7, <2>1 DEF Broker, FillBuy, LapseBuy, FillClose, MarketMoves
<1>. QED
  BY <1>1, <1>2, <1>3, <1>5, <1>6, <1>7
  DEF Next, Tick, Outside, vars, StartTick, GetAccount, GetAnchor, StoreAnchor,
      CheckDrawdown, ListPositions, StorePaused, GetPositions, HistoryMissing,
      ReconcileHeld, ReconcileFlat, AssessNews, SkipBuy, BuyRefused, RecordTick, AbortTick

LEMMA AgeType ==
  /\ \A x \in 0 .. KeyHours : Age(x) \in 0 .. KeyHours
  /\ \A k \in [equity : Nat, ttl : 0 .. KeyHours] :
       AgeAnchor(k) \in [equity : Nat, ttl : 0 .. KeyHours]
BY KillSwitchAssumption DEF Age, AgeAnchor, NoAnchor

LEMMA ClockType ==
  ASSUME day \in Days, hour \in Hours, HourPasses
  PROVE  day' \in Days /\ hour' \in Hours
BY KillSwitchAssumption DEF HourPasses, Days, Hours

LEMMA SwitchTypeStep ==
  ASSUME KillSwitchTypeOK, LocalsTypeOK, [Next]_vars
  PROVE  KillSwitchTypeOK'
<1>1. ASSUME UNCHANGED switchVars PROVE KillSwitchTypeOK'
  BY <1>1 DEF KillSwitchTypeOK, switchVars
<1>2. CASE StoreAnchor
  BY <1>2, KillSwitchAssumption
  DEF StoreAnchor, SetAnchor, KillSwitchTypeOK, LocalsTypeOK
<1>3. CASE StorePaused
  BY <1>3, KillSwitchAssumption
  DEF StorePaused, SetPaused, KillSwitchTypeOK, LocalsTypeOK
<1>4. CASE HourPasses
  <2>1. day \in Days /\ hour \in Hours
    BY DEF KillSwitchTypeOK
  <2>2. day' \in Days /\ hour' \in Hours
    BY <1>4, <2>1, ClockType
  <2>3. \A d \in Days : paused[d] \in 0 .. KeyHours
    BY DEF KillSwitchTypeOK
  <2>4. \A d \in Days : anchor[d] \in [equity : Nat, ttl : 0 .. KeyHours]
    BY DEF KillSwitchTypeOK
  <2>. QED
    BY <1>4, <2>2, <2>3, <2>4, AgeType DEF HourPasses, KillSwitchTypeOK
<1>. QED
  BY <1>1, <1>2, <1>3, <1>4
  DEF Next, Tick, Outside, vars, StartTick, GetAccount, GetAnchor, CheckDrawdown,
      ListPositions, SweepOne, GetPositions, HistoryMissing, ReconcileHeld,
      ReconcileFlat, ClosePosition, AssessNews, SkipBuy, BuyAccepted, BuyRefused,
      BuyReplyLost, RecordTick, AbortTick, loopFrame

LEMMA LocalsTypeStep ==
  ASSUME BrokerTypeOK, KillSwitchTypeOK, LocalsTypeOK, [Next]_vars
  PROVE  LocalsTypeOK'
<1>. USE DEF LocalsTypeOK, Calls
<1>1. CASE StartTick
  BY <1>1 DEF StartTick
<1>2. CASE GetAccount
  BY <1>2, BrokerAssumption DEF GetAccount, BrokerTypeOK
<1>3. CASE GetAnchor
  BY <1>3 DEF GetAnchor, KillSwitchTypeOK
<1>4. CASE StoreAnchor
  BY <1>4 DEF StoreAnchor
<1>5. CASE CheckDrawdown
  BY <1>5 DEF CheckDrawdown
<1>6. CASE ListPositions
  BY <1>6 DEF ListPositions, Held
<1>7. CASE SweepOne
  BY <1>7, ConstantTypes DEF SweepOne, Fault
<1>8. CASE StorePaused
  BY <1>8 DEF StorePaused
<1>9. CASE GetPositions
  BY <1>9, WatchlistType DEF GetPositions, Held
<1>10. CASE HistoryMissing
  BY <1>10, WatchlistType, ConstantTypes DEF HistoryMissing, FinishSymbol, Fault, loopFrame
<1>11. CASE ReconcileHeld
  BY <1>11, WatchlistType DEF ReconcileHeld, FinishSymbol, loopFrame
<1>12. CASE ReconcileFlat
  BY <1>12, WatchlistType DEF ReconcileFlat, FinishSymbol, loopFrame
<1>13. CASE ClosePosition
  BY <1>13, WatchlistType, ConstantTypes DEF ClosePosition, Fault, FinishSymbol, loopFrame
<1>14. CASE AssessNews
  BY <1>14, WatchlistType, ConstantTypes DEF AssessNews, FinishSymbol, Fault, loopFrame
<1>15. CASE SkipBuy
  BY <1>15, WatchlistType DEF SkipBuy, FinishSymbol, loopFrame
<1>16. CASE BuyAccepted
  BY <1>16, WatchlistType DEF BuyAccepted, Symbol, FinishSymbol, loopFrame
<1>17. CASE BuyRefused
  BY <1>17, WatchlistType, ConstantTypes DEF BuyRefused, FinishSymbol, Fault, loopFrame
<1>18. CASE BuyReplyLost
  BY <1>18, WatchlistType, ConstantTypes DEF BuyReplyLost, FinishSymbol, Fault, loopFrame
<1>19. CASE RecordTick
  BY <1>19, WatchlistType, ConstantTypes DEF RecordTick, EndTick, NoAccount
<1>20. CASE AbortTick
  BY <1>20, WatchlistType, ConstantTypes DEF AbortTick, EndTick, Fault, NoAccount
<1>21. CASE Outside \/ UNCHANGED vars
  BY <1>21 DEF Outside, tickVars, vars
<1>. QED
  BY <1>1, <1>2, <1>3, <1>4, <1>5, <1>6, <1>7, <1>8, <1>9, <1>10, <1>11, <1>12, <1>13,
     <1>14, <1>15, <1>16, <1>17, <1>18, <1>19, <1>20, <1>21
  DEF Next, Tick

LEMMA FlagTypeStep ==
  ASSUME ddPaused \in BOOLEAN, [Next]_vars
  PROVE  ddPaused' \in BOOLEAN
<1>1. CASE ddPaused' = ddPaused
  BY <1>1
<1>2. CASE CheckDrawdown
  <2>1. IsPaused(tickDay) \in BOOLEAN
    BY DEF IsPaused
  <2>2. ddPaused' = IsPaused(tickDay)
    BY <1>2 DEF CheckDrawdown
  <2>. QED
    BY <2>1, <2>2, Zenon
<1>3. CASE ddPaused' = TRUE
  BY <1>3
<1>4. CASE ddPaused' = FALSE
  BY <1>4
<1>. QED
  BY <1>1, <1>2, <1>3, <1>4
  DEF Next, Tick, Outside, vars, tickVars, loopFrame, EndTick, StartTick, GetAccount,
      GetAnchor, StoreAnchor, ListPositions, SweepOne, StorePaused, GetPositions,
      HistoryMissing, ReconcileHeld, ReconcileFlat, ClosePosition, AssessNews, SkipBuy,
      BuyAccepted, BuyRefused, BuyReplyLost, RecordTick, AbortTick

LEMMA TypeInit ==
  ASSUME Init
  PROVE  TypeOK
<1>1. BrokerTypeOK
  BY BrokerAssumption DEF Init, BrokerInit, BrokerTypeOK
<1>2. KillSwitchTypeOK
  BY KillSwitchAssumption
  DEF Init, KillSwitchInit, KillSwitchTypeOK, Days, Hours, NoAnchor
<1>3. LocalsTypeOK
  BY ConstantTypes, WatchlistType DEF Init, LocalsTypeOK, NoAccount, Calls
<1>. QED
  BY <1>1, <1>2, <1>3, Zenon DEF Init, TypeOK

\* TypeOK is inductive: every state of every behaviour is well typed, and the
\* loop index is within the watchlist exactly while the loop runs.
THEOREM Typing == Spec => []TypeOK
<1>1. Init => TypeOK
  BY TypeInit
<1>2. TypeOK /\ [Next]_vars => TypeOK'
  BY BrokerTypeStep, SwitchTypeStep, LocalsTypeStep, FlagTypeStep, Zenon DEF TypeOK
<1>. QED
  BY <1>1, <1>2, PTL DEF Spec

-----------------------------------------------------------------------------
(* The pause: no entry while it is up. *)

LEMMA PauseKeysInit == Init => PauseKeys
BY KillSwitchAssumption DEF Init, KillSwitchInit, PauseKeys, IsPaused, Days

\* An hour that stays within the day takes no live flag of today away.
LEMMA HourKeepsPause ==
  ASSUME KillSwitchTypeOK, PauseKeys, HourPasses
  PROVE  /\ \A d \in Days : IsPaused(d)' => IsPaused(d)
         /\ day' >= day
         /\ IsPaused(day)' => paused'[day'] + hour' >= KeyHours
         /\ day' = day /\ IsPaused(day) => IsPaused(day)'
<1>1. day \in Days /\ hour \in Hours /\ day' \in Days
  BY ClockType DEF KillSwitchTypeOK
<1>2. \A d \in Days : paused[d] \in 0 .. KeyHours
  BY DEF KillSwitchTypeOK
<1>3. \A d \in Days : paused'[d] = Age(paused[d])
  BY DEF HourPasses
<1>4. \A d \in Days : IsPaused(d)' => IsPaused(d)
  BY <1>2, <1>3, KillSwitchAssumption DEF IsPaused, Age
<1>5. day' >= day
  BY <1>1 DEF HourPasses, Days
<1>6. CASE day' = day
  <2>1. hour' = hour + 1 /\ hour + 1 < HoursPerDay
    BY <1>1, <1>6, KillSwitchAssumption DEF HourPasses, Days
  <2>2. IsPaused(day) => paused[day] + hour >= KeyHours
    BY DEF PauseKeys
  <2>3. IsPaused(day) => paused[day] > 1
    BY <1>1, <1>2, <2>1, <2>2, KillSwitchAssumption DEF IsPaused, Hours
  <2>. QED
    BY <1>1, <1>2, <1>3, <1>4, <1>5, <1>6, <2>1, <2>2, <2>3, KillSwitchAssumption
    DEF IsPaused, Age, Hours
<1>7. CASE day' # day
  <2>1. day' = day + 1
    BY <1>7 DEF HourPasses
  <2>2. ~IsPaused(day')
    BY <1>1, <2>1 DEF PauseKeys, Days
  <2>. QED
    BY <1>1, <1>4, <1>5, <1>7, <2>2 DEF IsPaused
<1>. QED
  BY <1>6, <1>7

LEMMA PauseKeysStep ==
  ASSUME TypeOK, PauseKeys, [Next]_vars
  PROVE  PauseKeys'
<1>. USE DEF PauseKeys
<1>1. /\ day \in Days /\ tickDay \in Days
      /\ \A d \in Days : paused[d] \in 0 .. KeyHours
  BY DEF TypeOK, KillSwitchTypeOK, LocalsTypeOK
<1>2. CASE GetAnchor
  BY <1>1, <1>2 DEF GetAnchor, IsPaused, switchVars, Days
<1>3. CASE StorePaused
  <2>1. \A d \in Days : IsPaused(d)' => d = tickDay \/ IsPaused(d)
    BY <1>3 DEF StorePaused, SetPaused, IsPaused, TypeOK, KillSwitchTypeOK
  <2>2. day = tickDay => paused'[day] = KeyHours
    BY <1>1, <1>3 DEF StorePaused, SetPaused, TypeOK, KillSwitchTypeOK
  <2>3. day # tickDay => paused'[day] = paused[day]
    BY <1>1, <1>3 DEF StorePaused, SetPaused, TypeOK, KillSwitchTypeOK
  <2>4. hour \in Nat
    BY KillSwitchAssumption DEF TypeOK, KillSwitchTypeOK, Hours
  <2>5. IsPaused(day)' => paused'[day'] + hour' >= KeyHours
    BY <1>3, <2>2, <2>3, <2>4, KillSwitchAssumption DEF StorePaused, IsPaused
  <2>. QED
    BY <1>1, <1>3, <2>1, <2>5 DEF StorePaused, Days
<1>4. CASE RecordTick \/ AbortTick
  BY <1>1, <1>4
  DEF RecordTick, AbortTick, EndTick, IsPaused, switchVars, Days
<1>5. CASE HourPasses /\ UNCHANGED <<brokerVars, tickVars, faults, swept>>
  <2>1. tickDay' = tickDay /\ pc' = pc
    BY <1>5 DEF tickVars
  <2>2. day' \in Days
    BY <1>5, ClockType DEF TypeOK, KillSwitchTypeOK
  <2>. QED
    BY <1>1, <1>5, <2>1, <2>2, HourKeepsPause DEF TypeOK, Days
<1>6. ASSUME UNCHANGED <<tickDay, day, hour, paused>>,
             pc \in {"idle", "get_account", "get_anchor"} =>
               pc' \in {"idle", "get_account", "get_anchor"}
      PROVE  PauseKeys'
  BY <1>6 DEF IsPaused
<1>7. CASE StartTick \/ GetAccount
  BY <1>6, <1>7 DEF StartTick, GetAccount, switchVars
<1>8. CASE Broker /\ UNCHANGED <<switchVars, tickVars, faults, swept>>
  BY <1>6, <1>8 DEF switchVars, tickVars
<1>9. CASE UNCHANGED vars
  BY <1>6, <1>9 DEF vars, switchVars, tickVars
<1>10. ASSUME UNCHANGED <<tickDay, switchVars>>, pc \notin {"idle", "get_account", "get_anchor"}
       PROVE  PauseKeys'
  BY <1>6, <1>10 DEF switchVars
<1>11. CASE StoreAnchor
  BY <1>6, <1>11 DEF StoreAnchor
<1>. QED
  BY <1>2, <1>3, <1>4, <1>5, <1>7, <1>8, <1>9, <1>10, <1>11
  DEF Next, Tick, Outside, CheckDrawdown, ListPositions, SweepOne, GetPositions,
      HistoryMissing, ReconcileHeld, ReconcileFlat, ClosePosition, AssessNews, SkipBuy,
      BuyAccepted, BuyRefused, BuyReplyLost, loopFrame

LEMMA PauseFlagInit == Init => PauseFlag
BY DEF Init, PauseFlag, Decided, InLoop

Undecided == {"idle", "get_account", "get_anchor", "set_anchor", "is_paused"}

\* Where the tick stands says whether check() has decided.
LEMMA WhereDecided ==
  ASSUME LocalsTypeOK
  PROVE  Decided <=> pc \notin Undecided
BY DEF LocalsTypeOK, Calls, Decided, InLoop, Undecided

\* The clock may take flags away, and a tick puts none up but the one it copies.
LEMMA PauseFlagStep ==
  ASSUME TypeOK, PauseKeys, PauseFlag, [Next]_vars
  PROVE  PauseFlag'
<1>1. Decided <=> pc \notin Undecided
  BY WhereDecided DEF TypeOK
<1>2. Decided' <=> pc' \notin Undecided
  <2>1. LocalsTypeOK'
    BY LocalsTypeStep DEF TypeOK
  <2>. QED
    BY <2>1 DEF LocalsTypeOK, Calls, Decided, InLoop, Undecided
<1>3. ASSUME UNCHANGED <<ddPaused, tickDay>>, pc \notin Undecided,
             IsPaused(tickDay)' => IsPaused(tickDay),
             pc' \in {"assess", "submit_buy"} => pc \in {"assess", "submit_buy"} \/ ~ddPaused
      PROVE  PauseFlag'
  BY <1>1, <1>3, Zenon DEF PauseFlag
<1>4. ASSUME pc' \in Undecided PROVE PauseFlag'
  BY <1>2, <1>4 DEF PauseFlag, Undecided
<1>5. ASSUME UNCHANGED <<switchVars, ddPaused, tickDay>>, pc \notin Undecided,
             pc' \in {"assess", "submit_buy"} => pc \in {"assess", "submit_buy"} \/ ~ddPaused
      PROVE  PauseFlag'
  <2>1. IsPaused(tickDay)' => IsPaused(tickDay)
    BY <1>5 DEF IsPaused, switchVars
  <2>. QED
    BY <1>3, <1>5, <2>1
<1>6. CASE CheckDrawdown
  <2>1. IsPaused(tickDay)' <=> IsPaused(tickDay)
    BY <1>6 DEF CheckDrawdown, switchVars, IsPaused
  <2>2. ddPaused' = IsPaused(tickDay)
    BY <1>6 DEF CheckDrawdown
  <2>3. pc' \notin {"assess", "submit_buy"}
    BY <1>6 DEF CheckDrawdown
  <2>. QED
    BY <2>1, <2>2, <2>3, Zenon DEF PauseFlag
<1>7. CASE StorePaused
  BY <1>7 DEF StorePaused, PauseFlag
<1>8. CASE StartTick \/ GetAccount \/ GetAnchor \/ StoreAnchor \/ RecordTick \/ AbortTick
  BY <1>4, <1>8
  DEF StartTick, GetAccount, GetAnchor, StoreAnchor, RecordTick, AbortTick, EndTick, Undecided
<1>9. CASE ListPositions \/ SweepOne \/ GetPositions
  BY <1>5, <1>9 DEF ListPositions, SweepOne, GetPositions, Undecided
<1>10. CASE ReconcileFlat
  BY <1>5, <1>10 DEF ReconcileFlat, WantLong, loopFrame, FinishSymbol, Undecided
<1>11. CASE HistoryMissing \/ ReconcileHeld \/ ClosePosition \/ AssessNews \/ SkipBuy
              \/ BuyAccepted \/ BuyRefused \/ BuyReplyLost
  BY <1>5, <1>11
  DEF HistoryMissing, ReconcileHeld, ClosePosition, AssessNews, SkipBuy, BuyAccepted,
      BuyRefused, BuyReplyLost, loopFrame, FinishSymbol, Undecided
<1>12. CASE HourPasses /\ UNCHANGED <<brokerVars, tickVars, faults, swept>>
  <2>1. IsPaused(tickDay)' => IsPaused(tickDay)
    <3>1. tickDay' = tickDay /\ tickDay \in Days
      BY <1>12 DEF tickVars, TypeOK, LocalsTypeOK
    <3>2. \A d \in Days : IsPaused(d)' => IsPaused(d)
      BY <1>12, HourKeepsPause DEF TypeOK
    <3>. QED
      BY <3>1, <3>2 DEF IsPaused
  <2>. QED
    BY <1>3, <1>4, <1>12, <2>1 DEF tickVars
<1>13. CASE UNCHANGED <<switchVars, tickVars>>
  BY <1>4, <1>5, <1>13 DEF tickVars
<1>. QED
  BY <1>6, <1>7, <1>8, <1>9, <1>10, <1>11, <1>12, <1>13
  DEF Next, Tick, Outside, vars

\* Working dollars appear in one way: run_tick sends a buy.
LEMMA OnlyEntriesBuy ==
  ASSUME BrokerTypeOK, LocalsTypeOK, Next, NEW s \in Symbols, buys'[s] > buys[s]
  PROVE  BuyAccepted \/ BuyReplyLost
<1>1. buys[s] \in Nat
  BY DEF BrokerTypeOK
<1>2. ASSUME buys' = buys PROVE FALSE
  BY <1>1, <1>2
<1>3. ASSUME Broker PROVE FALSE
  BY <1>1, <1>2, <1>3 DEF Broker, FillBuy, LapseBuy, FillClose, MarketMoves, OthersTrade, BrokerTypeOK
<1>. QED
  BY <1>2, <1>3
  DEF Next, Tick, Outside, brokerVars, StartTick, GetAccount, GetAnchor, StoreAnchor,
      CheckDrawdown, ListPositions, SweepOne, AcceptClose, StorePaused, GetPositions,
      HistoryMissing, ReconcileHeld, ReconcileFlat, ClosePosition, AssessNews, SkipBuy,
      BuyRefused, RecordTick, AbortTick

\* While the day's pause flag is up, no buy is sent: neither for the day whose
\* drawdown the tick checked nor for the day it has become in the meantime.
THEOREM NoEntry == Spec => NoEntryWhilePaused
<1>. DEFINE IInv == TypeOK /\ PauseKeys /\ PauseFlag
<1>1. Init => PauseKeys /\ PauseFlag
  BY PauseKeysInit, PauseFlagInit
<1>2. TypeOK /\ PauseKeys /\ PauseFlag /\ [Next]_vars => (PauseKeys /\ PauseFlag)'
  BY PauseKeysStep, PauseFlagStep
<1>3. IInv /\ [Next]_vars =>
        [\A s \in Symbols : buys'[s] > buys[s] => ~IsPaused(day) /\ ~IsPaused(tickDay)]_vars
  <2>. SUFFICES ASSUME IInv, Next, NEW s \in Symbols, buys'[s] > buys[s]
                PROVE  ~IsPaused(day) /\ ~IsPaused(tickDay)
    OBVIOUS
  <2>1. BuyAccepted \/ BuyReplyLost
    BY OnlyEntriesBuy DEF TypeOK
  <2>2. pc = "submit_buy"
    BY <2>1 DEF BuyAccepted, BuyReplyLost
  <2>3. ~IsPaused(tickDay)
    <3>1. ~ddPaused /\ Decided
      BY <2>2 DEF PauseFlag, TypeOK, LocalsTypeOK, Decided, InLoop
    <3>. QED
      BY <3>1, Zenon DEF PauseFlag
  <2>4. IsPaused(day) => day = tickDay
    BY <2>2 DEF PauseKeys, TypeOK, KillSwitchTypeOK, LocalsTypeOK, Days
  <2>. QED
    BY <2>3, <2>4
<1>. QED
  BY <1>1, <1>2, <1>3, Typing, PTL DEF Spec, NoEntryWhilePaused

-----------------------------------------------------------------------------
(* The liquidation: every flag follows one that ended. *)

LEMMA SweepRecordInit == Init => SweepRecord
BY DEF Init, KillSwitchInit, SweepRecord, PausedMeansSwept, IsPaused, InLoop

\* Only StorePaused raises a flag, and it is reached through the sweep.
LEMMA PausedSweptStep ==
  ASSUME TypeOK, PauseKeys, SweepRecord, [Next]_vars
  PROVE  PausedMeansSwept'
<1>1. ASSUME swept \subseteq swept', \A d \in Days : IsPaused(d)' => IsPaused(d)
      PROVE  PausedMeansSwept'
  BY <1>1 DEF SweepRecord, PausedMeansSwept
<1>2. ASSUME swept \subseteq swept', UNCHANGED switchVars
      PROVE  PausedMeansSwept'
  BY <1>1, <1>2 DEF switchVars, IsPaused
<1>3. CASE StorePaused
  <2>1. \A d \in Days : IsPaused(d)' => d = tickDay \/ IsPaused(d)
    BY <1>3 DEF StorePaused, SetPaused, IsPaused, TypeOK, KillSwitchTypeOK
  <2>. QED
    BY <1>3, <2>1 DEF StorePaused, SweepRecord, PausedMeansSwept
<1>4. CASE StoreAnchor
  BY <1>1, <1>4 DEF StoreAnchor, IsPaused
<1>5. CASE HourPasses /\ UNCHANGED <<brokerVars, tickVars, faults, swept>>
  BY <1>1, <1>5, HourKeepsPause DEF TypeOK
<1>. QED
  BY <1>2, <1>3, <1>4, <1>5
  DEF Next, Tick, Outside, vars, StartTick, GetAccount, GetAnchor, CheckDrawdown,
      ListPositions, SweepOne, GetPositions, HistoryMissing, ReconcileHeld,
      ReconcileFlat, ClosePosition, AssessNews, SkipBuy, BuyAccepted, BuyRefused,
      BuyReplyLost, RecordTick, AbortTick, loopFrame

\* From check() to the end of the tick, and while it trips.
AfterCheck == InLoop \/ pc = "get_positions"

LEMMA WhereAfterCheck ==
  ASSUME LocalsTypeOK
  PROVE  AfterCheck <=> pc \in {"get_positions", "get_history", "close_position",
                                "assess", "submit_buy"}
BY DEF LocalsTypeOK, Calls, AfterCheck, InLoop

LEMMA SweepRecordStep ==
  ASSUME TypeOK, PauseKeys, SweepRecord, [Next]_vars
  PROVE  SweepRecord'
<1>. DEFINE Seen == AfterCheck /\ Breached(ref, acct.equity) => ddPaused /\ tickDay \in swept
<1>1. PausedMeansSwept'
  BY PausedSweptStep
<1>2. Seen /\ (pc = "set_paused" => tickDay \in swept)
  BY Zenon DEF SweepRecord, AfterCheck
<1>3. AfterCheck <=> pc \in {"get_positions", "get_history", "close_position",
                             "assess", "submit_buy"}
  BY WhereAfterCheck DEF TypeOK
<1>4. AfterCheck' <=> pc' \in {"get_positions", "get_history", "close_position",
                               "assess", "submit_buy"}
  <2>1. LocalsTypeOK'
    BY LocalsTypeStep DEF TypeOK
  <2>. QED
    BY <2>1 DEF LocalsTypeOK, Calls, AfterCheck, InLoop
<1>5. ASSUME Seen', pc' = "set_paused" => tickDay' \in swept'
      PROVE  SweepRecord'
  BY <1>1, <1>5, Zenon DEF SweepRecord, AfterCheck
<1>6. ASSUME ~AfterCheck', pc' # "set_paused" PROVE SweepRecord'
  BY <1>5, <1>6
<1>7. ASSUME UNCHANGED <<ref, acct, ddPaused, tickDay, swept>>, AfterCheck' => AfterCheck,
             pc' = "set_paused" => pc = "set_paused"
      PROVE  SweepRecord'
  <2>1. Seen'
    BY <1>2, <1>7, Zenon DEF Breached
  <2>2. pc' = "set_paused" => tickDay' \in swept'
    BY <1>2, <1>7
  <2>. QED
    BY <1>5, <2>1, <2>2
<1>8. CASE StartTick \/ GetAccount \/ GetAnchor \/ StoreAnchor \/ RecordTick \/ AbortTick
  BY <1>4, <1>6, <1>8
  DEF StartTick, GetAccount, GetAnchor, StoreAnchor, RecordTick, AbortTick, EndTick
<1>9. CASE CheckDrawdown
  <2>1. pc' # "set_paused"
    BY <1>9 DEF CheckDrawdown
  <2>2. ASSUME AfterCheck', Breached(ref, acct.equity) PROVE ddPaused' /\ tickDay \in swept
    <3>1. IsPaused(tickDay)
      BY <1>4, <1>9, <2>2 DEF CheckDrawdown
    <3>2. ddPaused' = IsPaused(tickDay)
      BY <1>9 DEF CheckDrawdown
    <3>3. tickDay \in swept
      BY <3>1 DEF SweepRecord, PausedMeansSwept, TypeOK, LocalsTypeOK
    <3>. QED
      BY <3>1, <3>2, <3>3, Zenon
  <2>3. ref' = ref /\ acct' = acct /\ swept' = swept /\ tickDay' = tickDay
    BY <1>9 DEF CheckDrawdown
  <2>. QED
    BY <1>5, <2>1, <2>2, <2>3, Zenon DEF Breached
<1>10. CASE ListPositions \/ SweepOne
  <2>1. ~AfterCheck'
    BY <1>4, <1>10 DEF ListPositions, SweepOne
  <2>2. pc' = "set_paused" => tickDay' \in swept'
    BY <1>10 DEF ListPositions, SweepOne
  <2>. QED
    BY <1>5, <2>1, <2>2
<1>11. CASE StorePaused
  <2>1. pc' # "set_paused" /\ ddPaused' /\ tickDay' \in swept'
    BY <1>2, <1>11 DEF StorePaused
  <2>. QED
    BY <1>5, <2>1
<1>12. CASE GetPositions
  BY <1>3, <1>4, <1>7, <1>12 DEF GetPositions
<1>13. ASSUME pc \in {"get_history", "close_position", "assess", "submit_buy"},
              UNCHANGED loopFrame, pc' # "set_paused"
       PROVE  SweepRecord'
  BY <1>3, <1>7, <1>13 DEF loopFrame
<1>14. CASE HistoryMissing \/ ReconcileHeld \/ ReconcileFlat \/ ClosePosition \/ AssessNews
              \/ SkipBuy \/ BuyAccepted \/ BuyRefused \/ BuyReplyLost
  BY <1>13, <1>14
  DEF HistoryMissing, ReconcileHeld, ReconcileFlat, ClosePosition, AssessNews, SkipBuy,
      BuyAccepted, BuyRefused, BuyReplyLost, FinishSymbol
<1>15. CASE UNCHANGED <<tickVars, swept>>
  BY <1>7, <1>15 DEF tickVars, AfterCheck, InLoop
<1>. QED
  BY <1>8, <1>9, <1>10, <1>11, <1>12, <1>14, <1>15
  DEF Next, Tick, Outside, vars

\* The flag is written last: a day marked as paused is a day on which the
\* liquidation came to its end, whatever crashed or failed in between.
THEOREM PauseAfterSweep == Spec => []PausedMeansSwept
<1>1. Init => PauseKeys /\ SweepRecord
  BY PauseKeysInit, SweepRecordInit
<1>2. TypeOK /\ PauseKeys /\ SweepRecord /\ [Next]_vars => (PauseKeys /\ SweepRecord)'
  BY PauseKeysStep, SweepRecordStep
<1>3. SweepRecord => PausedMeansSwept
  BY DEF SweepRecord
<1>. QED
  BY <1>1, <1>2, <1>3, Typing, PTL DEF Spec

\* A tick that saw a breach comes to its entries only after the liquidation
\* and with its copy of the flag up.
THEOREM BreachIsNotTraded == Spec => []BreachStopsEntries
<1>1. Init => PauseKeys /\ SweepRecord
  BY PauseKeysInit, SweepRecordInit
<1>2. TypeOK /\ PauseKeys /\ SweepRecord /\ [Next]_vars => (PauseKeys /\ SweepRecord)'
  BY PauseKeysStep, SweepRecordStep
<1>3. SweepRecord => BreachStopsEntries
  BY Zenon DEF SweepRecord, BreachStopsEntries
<1>. QED
  BY <1>1, <1>2, <1>3, Typing, PTL DEF Spec

-----------------------------------------------------------------------------
(* The anchor: the first equity a tick saw on a day is that day's reference. *)

LEMMA AnchorKeysInit == Init => AnchorKeys
BY KillSwitchAssumption DEF Init, KillSwitchInit, AnchorKeys, HasAnchor, NoAnchor, Days

LEMMA AnchorType ==
  ASSUME KillSwitchTypeOK
  PROVE  \A d \in Days : anchor[d].equity \in Nat /\ anchor[d].ttl \in 0 .. KeyHours
BY DEF KillSwitchTypeOK

\* The same as for the flag: before midnight, today's anchor has hours left.
LEMMA HourKeepsAnchor ==
  ASSUME KillSwitchTypeOK, AnchorKeys, HourPasses
  PROVE  /\ \A d \in Days : HasAnchor(d)' => HasAnchor(d)
         /\ HasAnchor(day)' => anchor'[day'].ttl + hour' >= KeyHours
         /\ day' = day /\ HasAnchor(day) => HasAnchor(day)' /\ anchor'[day].equity = anchor[day].equity
<1>1. day \in Days /\ hour \in Hours /\ day' \in Days
  BY ClockType DEF KillSwitchTypeOK
<1>2. \A d \in Days : anchor[d].ttl \in 0 .. KeyHours
  BY AnchorType
<1>3. \A d \in Days : /\ anchor[d].ttl <= 1 => anchor'[d].ttl = 0
                      /\ anchor[d].ttl > 1 => anchor'[d].ttl = anchor[d].ttl - 1
                      /\ anchor[d].ttl > 1 => anchor'[d].equity = anchor[d].equity
  BY DEF HourPasses, AgeAnchor, NoAnchor, KillSwitchTypeOK
<1>4. \A d \in Days : HasAnchor(d)' => HasAnchor(d)
  BY <1>2, <1>3, KillSwitchAssumption DEF HasAnchor
<1>5. CASE day' = day
  <2>1. hour' = hour + 1 /\ hour + 1 < HoursPerDay
    BY <1>1, <1>5, KillSwitchAssumption DEF HourPasses, Days
  <2>2. HasAnchor(day) => anchor[day].ttl + hour >= KeyHours
    BY DEF AnchorKeys
  <2>3. HasAnchor(day) => anchor[day].ttl > 1
    BY <1>1, <1>2, <2>1, <2>2, KillSwitchAssumption DEF HasAnchor, Hours
  <2>4. HasAnchor(day) => HasAnchor(day)' /\ anchor'[day].equity = anchor[day].equity
    BY <1>1, <1>2, <1>3, <1>5, <2>3, KillSwitchAssumption DEF HasAnchor
  <2>5. HasAnchor(day)' => anchor'[day'].ttl + hour' >= KeyHours
    BY <1>1, <1>2, <1>3, <1>4, <1>5, <2>1, <2>2, <2>3, KillSwitchAssumption
    DEF HasAnchor, Hours
  <2>. QED
    BY <1>4, <2>4, <2>5
<1>6. CASE day' # day
  <2>1. day' = day + 1
    BY <1>6 DEF HourPasses
  <2>2. ~HasAnchor(day')
    BY <1>1, <2>1 DEF AnchorKeys, Days
  <2>. QED
    BY <1>1, <1>4, <1>6, <2>2 DEF HasAnchor
<1>. QED
  BY <1>5, <1>6

LEMMA HourKeepsDay ==
  ASSUME day \in Days, HourPasses
  PROVE  day' >= day
BY DEF HourPasses, Days

LEMMA AnchorKeysStep ==
  ASSUME TypeOK, PauseKeys, AnchorKeys, [Next]_vars
  PROVE  AnchorKeys'
<1>. USE DEF AnchorKeys
<1>1. day \in Days /\ tickDay \in Days /\ hour \in Nat
  BY KillSwitchAssumption DEF TypeOK, KillSwitchTypeOK, LocalsTypeOK, Hours
<1>2. CASE GetAnchor
  BY <1>2 DEF GetAnchor, HasAnchor, switchVars
<1>3. CASE StoreAnchor
  <2>1. \A d \in Days : HasAnchor(d)' => d = tickDay \/ HasAnchor(d)
    BY <1>3 DEF StoreAnchor, SetAnchor, HasAnchor, TypeOK, KillSwitchTypeOK
  <2>2. day = tickDay => anchor'[day].ttl = KeyHours
    BY <1>1, <1>3 DEF StoreAnchor, SetAnchor, TypeOK, KillSwitchTypeOK
  <2>3. day # tickDay => anchor'[day].ttl = anchor[day].ttl
    BY <1>1, <1>3 DEF StoreAnchor, SetAnchor, TypeOK, KillSwitchTypeOK
  <2>4. HasAnchor(day)' => anchor'[day'].ttl + hour' >= KeyHours
    BY <1>1, <1>3, <2>2, <2>3, KillSwitchAssumption DEF StoreAnchor, HasAnchor
  <2>5. \A d \in Days : HasAnchor(d)' => d <= day'
    BY <1>3, <2>1 DEF StoreAnchor, PauseKeys
  <2>6. pc' # "set_anchor"
    BY <1>3 DEF StoreAnchor
  <2>. QED
    BY <2>4, <2>5, <2>6
<1>4. CASE HourPasses /\ UNCHANGED <<brokerVars, tickVars, faults, swept>>
  <2>1. \A d \in Days : HasAnchor(d)' => d <= day'
    <3>1. day' >= day /\ day' \in Days
      BY <1>1, <1>4, HourKeepsDay, ClockType DEF TypeOK, KillSwitchTypeOK
    <3>2. \A d \in Days : HasAnchor(d)' => HasAnchor(d)
      BY <1>4, HourKeepsAnchor DEF TypeOK
    <3>. QED
      BY <1>1, <3>1, <3>2 DEF Days
  <2>2. HasAnchor(day)' => anchor'[day'].ttl + hour' >= KeyHours
    BY <1>4, HourKeepsAnchor DEF TypeOK
  <2>3. (pc = "set_anchor" => ~HasAnchor(tickDay))'
    <3>1. tickDay' = tickDay /\ pc' = pc
      BY <1>4 DEF tickVars
    <3>2. HasAnchor(tickDay)' => HasAnchor(tickDay)
      BY <1>1, <1>4, <3>1, HourKeepsAnchor DEF TypeOK, HasAnchor
    <3>. QED
      BY <3>1, <3>2
  <2>. QED
    BY <2>1, <2>2, <2>3
<1>5. ASSUME UNCHANGED <<day, hour, anchor>>, pc' # "set_anchor" \/ UNCHANGED <<pc, tickDay>>
      PROVE  AnchorKeys'
  BY <1>5 DEF HasAnchor
<1>. QED
  BY <1>2, <1>3, <1>4, <1>5
  DEF Next, Tick, Outside, vars, switchVars, tickVars, StartTick, GetAccount,
      CheckDrawdown, ListPositions, SweepOne, StorePaused, GetPositions, HistoryMissing,
      ReconcileHeld, ReconcileFlat, ClosePosition, AssessNews, SkipBuy, BuyAccepted,
      BuyRefused, BuyReplyLost, RecordTick, AbortTick, EndTick, FinishSymbol, loopFrame

\* Until midnight, nothing moves the equity the drawdown is measured from.
THEOREM AnchorIsStable == Spec => AnchorStable
<1>1. Init => PauseKeys /\ AnchorKeys
  BY PauseKeysInit, AnchorKeysInit
<1>2. TypeOK /\ PauseKeys /\ AnchorKeys /\ [Next]_vars => (PauseKeys /\ AnchorKeys)'
  BY PauseKeysStep, AnchorKeysStep
<1>3. TypeOK /\ PauseKeys /\ AnchorKeys /\ [Next]_vars =>
        [\A d \in Days : d = day /\ d = day' /\ HasAnchor(d) =>
           HasAnchor(d)' /\ anchor'[d].equity = anchor[d].equity]_vars
  <2>. SUFFICES ASSUME TypeOK, PauseKeys, AnchorKeys, Next,
                       day \in Days, day' = day, HasAnchor(day)
                PROVE  anchor'[day].ttl > 0 /\ anchor'[day].equity = anchor[day].equity
    BY Zenon DEF HasAnchor
  <2>1. CASE anchor' = anchor
    BY <2>1 DEF HasAnchor
  <2>2. CASE StoreAnchor
    <3>1. day # tickDay
      BY <2>2 DEF StoreAnchor, AnchorKeys
    <3>2. anchor'[day] = anchor[day]
      BY <2>2, <3>1 DEF StoreAnchor, SetAnchor, TypeOK, KillSwitchTypeOK
    <3>. QED
      BY <3>2 DEF HasAnchor
  <2>3. CASE HourPasses
    BY <2>3, HourKeepsAnchor DEF TypeOK, HasAnchor
  <2>. QED
    BY <2>1, <2>2, <2>3
    DEF Next, Tick, Outside, switchVars, StartTick, GetAccount, GetAnchor, CheckDrawdown,
        ListPositions, SweepOne, StorePaused, GetPositions, HistoryMissing, ReconcileHeld,
        ReconcileFlat, ClosePosition, AssessNews, SkipBuy, BuyAccepted, BuyRefused,
        BuyReplyLost, RecordTick, AbortTick, loopFrame
<1>. QED
  BY <1>1, <1>2, <1>3, Typing, PTL DEF Spec, AnchorStable

-----------------------------------------------------------------------------
(* The book: what each step does to it. *)

LEMMA BookFinite ==
  ASSUME BrokerTypeOK
  PROVE  Book \subseteq Symbols /\ IsFiniteSet(Book) /\ Cardinality(Book) \in Nat
<1>1. Book \subseteq Symbols
  BY DEF Book, Held, Working
<1>. QED
  BY <1>1, BrokerAssumption, FS_Subset, FS_CardinalityType

LEMMA BookFrame ==
  ASSUME UNCHANGED <<spent, buys>>
  PROVE  Book' = Book /\ Working' = Working
BY DEF Book, Held, Working

LEMMA OneLess ==
  ASSUME NEW U, NEW S \in SUBSET U, NEW T \in SUBSET U, NEW s, s \notin T,
         \A x \in U : x # s => (x \in T <=> x \in S)
  PROVE  T = S \ {s}
OBVIOUS

\* A fill moves a symbol within the book, a lapse or a close takes it out.
LEMMA BookShrinks ==
  ASSUME BrokerTypeOK, Broker
  PROVE  /\ Working' \subseteq Working
         /\ Book' = Book \/ \E s \in Symbols : s \in Book /\ Book' = Book \ {s}
<1>. USE DEF BrokerTypeOK, Book, Held, Working
<1>1. CASE MarketMoves \/ OthersTrade
  BY <1>1 DEF MarketMoves, OthersTrade
<1>2. ASSUME NEW s \in Symbols, FillBuy(s)
      PROVE  Working' \subseteq Working /\ Book' = Book
  <2>1. Working' \subseteq Working
    BY <1>2 DEF FillBuy
  <2>2. Book' = Book
    BY <1>2 DEF FillBuy
  <2>. QED
    BY <2>1, <2>2
<1>3. ASSUME NEW s \in Symbols, LapseBuy(s)
      PROVE  Working' \subseteq Working /\ (Book' = Book \/ (s \in Book /\ Book' = Book \ {s}))
  <2>1. Working' \subseteq Working
    BY <1>3 DEF LapseBuy
  <2>2. s \in Held => Book' = Book
    BY <1>3 DEF LapseBuy
  <2>3. s \notin Held => s \in Book /\ Book' = Book \ {s}
    <3>. SUFFICES ASSUME s \notin Held PROVE s \in Book /\ Book' = Book \ {s}
      OBVIOUS
    <3>1. s \in Book
      BY <1>3 DEF LapseBuy
    <3>2. /\ buys'[s] = 0 /\ spent' = spent
          /\ \A x \in Symbols : x # s => buys'[x] = buys[x]
      BY <1>3 DEF LapseBuy
    <3>3. s \notin Book'
      BY <3>2
    <3>4. \A x \in Symbols : x # s => (x \in Book' <=> x \in Book)
      BY <3>2
    <3>5. Book \in SUBSET Symbols /\ Book' \in SUBSET Symbols
      OBVIOUS
    <3>. HIDE DEF Book
    <3>. QED
      BY <3>1, <3>3, <3>4, <3>5, OneLess
  <2>. QED
    BY <2>1, <2>2, <2>3
<1>4. ASSUME NEW s \in Symbols, FillClose(s)
      PROVE  Working' \subseteq Working /\ (Book' = Book \/ (s \in Book /\ Book' = Book \ {s}))
  <2>1. Working' \subseteq Working
    BY <1>4 DEF FillClose
  <2>2. s \in Working \/ s \notin Held => Book' = Book
    BY <1>4 DEF FillClose
  <2>3. s \notin Working /\ s \in Held => s \in Book /\ Book' = Book \ {s}
    <3>. SUFFICES ASSUME s \notin Working /\ s \in Held PROVE s \in Book /\ Book' = Book \ {s}
      OBVIOUS
    <3>1. s \in Book
      BY <1>4 DEF FillClose
    <3>2. /\ spent'[s] = 0 /\ buys' = buys
          /\ \A x \in Symbols : x # s => spent'[x] = spent[x]
      BY <1>4 DEF FillClose
    <3>3. s \notin Book'
      BY <3>2
    <3>4. \A x \in Symbols : x # s => (x \in Book' <=> x \in Book)
      BY <3>2
    <3>5. Book \in SUBSET Symbols /\ Book' \in SUBSET Symbols
      OBVIOUS
    <3>. HIDE DEF Book
    <3>. QED
      BY <3>1, <3>3, <3>4, <3>5, OneLess
  <2>. QED
    BY <2>1, <2>2, <2>3
<1>. QED
  BY <1>1, <1>2, <1>3, <1>4 DEF Broker

LEMMA BookGrows ==
  ASSUME BrokerTypeOK, NEW s \in Symbols, NEW n \in Nat \ {0}, AcceptBuy(s, n)
  PROVE  Book' = Book \cup {s}
BY DEF AcceptBuy, BrokerTypeOK, Book, Held, Working

\* A step of the program that is not a buy leaves the book as it is.
LEMMA BookStep ==
  ASSUME BrokerTypeOK, LocalsTypeOK, [Next]_vars
  PROVE  \/ BuyAccepted \/ BuyReplyLost
         \/ Broker /\ UNCHANGED <<switchVars, tickVars, faults, swept>>
         \/ UNCHANGED <<spent, buys>>
BY DEF Next, Tick, Outside, vars, brokerVars, StartTick, GetAccount, GetAnchor, StoreAnchor,
       CheckDrawdown, ListPositions, SweepOne, AcceptClose, StorePaused, GetPositions,
       HistoryMissing, ReconcileHeld, ReconcileFlat, ClosePosition, AssessNews, SkipBuy,
       BuyRefused, RecordTick, AbortTick

\* A candidate that comes to its order is a symbol the account knows nothing
\* of, the slot it takes is free, and the book then has it.
LEMMA EntryTakesSlot ==
  ASSUME TypeOK, SlotLedger, BuyAccepted \/ BuyReplyLost
  PROVE  /\ Symbol \in Symbols \ openSyms
         /\ Symbol \notin Book
         /\ Book \subseteq openSyms
         /\ IsFiniteSet(openSyms)
         /\ Cardinality(openSyms) < MaxOpenPositions
         /\ Book' = Book \cup {Symbol}
<1>1. pc = "submit_buy" /\ ~Dust(Notional(acct)) /\ AcceptBuy(Symbol, Notional(acct))
  BY DEF BuyAccepted, BuyReplyLost
<1>2. idx \in 1 .. Len(Watchlist) /\ InLoop
  BY <1>1, WatchlistType DEF TypeOK, LocalsTypeOK, InLoop
<1>3. Symbol \in Symbols
  BY <1>2, WatchlistType DEF Symbol
<1>4. Symbol \notin Passed
  BY <1>2, TrendTickAssumption DEF Symbol, Passed
<1>5. /\ SlotFree /\ Symbol \notin positions
      /\ Book \subseteq openSyms /\ openSyms \subseteq positions \cup Passed
  BY <1>1, <1>2 DEF SlotLedger
<1>6. Notional(acct) \in Nat \ {0}
  BY <1>1, NotionalType DEF TypeOK, LocalsTypeOK
<1>7. Book' = Book \cup {Symbol}
  BY <1>1, <1>3, <1>6, BookGrows DEF TypeOK
<1>8. IsFiniteSet(openSyms)
  BY BrokerAssumption, FS_Subset DEF TypeOK, LocalsTypeOK
<1>. QED
  BY <1>3, <1>4, <1>5, <1>7, <1>8 DEF SlotFree

LEMMA SmallerBookFits ==
  ASSUME TypeOK, CapRespected, Book' \subseteq Book
  PROVE  CapRespected'
<1>1. IsFiniteSet(Book) /\ Cardinality(Book) \in Nat
  BY BookFinite DEF TypeOK
<1>2. Cardinality(Book') <= Cardinality(Book) /\ Cardinality(Book') \in Nat
  BY <1>1, FS_Subset, FS_CardinalityType
<1>. QED
  BY <1>1, <1>2, TrendTickAssumption DEF CapRespected

LEMMA EntryFits ==
  ASSUME TypeOK, SlotLedger, BuyAccepted \/ BuyReplyLost
  PROVE  CapRespected'
<1>1. /\ Symbol \notin Book /\ Book \subseteq openSyms /\ IsFiniteSet(openSyms)
      /\ Cardinality(openSyms) < MaxOpenPositions /\ Book' = Book \cup {Symbol}
  BY EntryTakesSlot
<1>2. /\ Cardinality(Book) <= Cardinality(openSyms)
      /\ Cardinality(openSyms) \in Nat /\ Cardinality(Book) \in Nat /\ IsFiniteSet(Book)
  BY <1>1, FS_Subset, FS_CardinalityType
<1>3. Cardinality(Book') = Cardinality(Book) + 1
  BY <1>1, <1>2, FS_AddElement
<1>. QED
  BY <1>1, <1>2, <1>3, TrendTickAssumption DEF CapRespected

LEMMA SlotLedgerInit == Init => SlotLedger
<1>. SUFFICES ASSUME Init PROVE SlotLedger
  OBVIOUS
<1>1. Book = {} /\ Working = {}
  BY DEF Init, BrokerInit, Book, Held, Working
<1>2. CapRespected
  BY <1>1, FS_EmptySet, TrendTickAssumption DEF CapRespected
<1>. QED
  BY <1>1, <1>2 DEF Init, SlotLedger, InLoop

\* The four parts a step has to keep.
BeforePositions == {"get_account", "get_anchor", "set_anchor", "is_paused", "list_positions",
                    "sweep", "set_paused", "get_positions"}
Chosen == pc \in {"assess", "submit_buy"}
Covered == Book \subseteq openSyms /\ openSyms \subseteq positions \cup Passed

LEMMA SlotLedgerParts ==
  SlotLedger <=> /\ pc \in BeforePositions => Working = {}
                 /\ InLoop => Covered
                 /\ Chosen => SlotFree /\ Symbol \notin positions
                 /\ CapRespected
BY DEF SlotLedger, BeforePositions, Covered, Chosen

\* The symbol the loop leaves is one it has passed.
LEMMA FinishPasses ==
  ASSUME LocalsTypeOK, InLoop, FinishSymbol
  PROVE  /\ ~Chosen' /\ pc' \notin BeforePositions
         /\ InLoop' => Passed' = Passed \cup {Symbol}
<1>1. idx \in 1 .. Len(Watchlist) /\ Len(Watchlist) \in Nat
  BY WatchlistType DEF LocalsTypeOK, InLoop
<1>2. InLoop' => idx' = idx + 1
  BY <1>1 DEF FinishSymbol, InLoop
<1>3. idx' = idx + 1 => Passed' = Passed \cup {Symbol}
  BY <1>1 DEF Passed, Symbol
<1>. QED
  BY <1>2, <1>3 DEF FinishSymbol, Chosen, BeforePositions

LEMMA SlotLedgerStep ==
  ASSUME TypeOK, SlotLedger, [Next]_vars, ~FillsLag, ~RepliesLost
  PROVE  SlotLedger'
<1>1. /\ pc \in BeforePositions => Working = {}
      /\ InLoop => Covered
      /\ Chosen => SlotFree /\ Symbol \notin positions
      /\ CapRespected
  BY SlotLedgerParts
<1>2. ASSUME (pc \in BeforePositions => Working = {})', (InLoop => Covered)',
             (Chosen => SlotFree /\ Symbol \notin positions)', CapRespected'
      PROVE  SlotLedger'
  BY <1>2 DEF SlotLedger, BeforePositions, Covered, Chosen
<1>3. InLoop' <=> pc' \in {"get_history", "close_position", "assess", "submit_buy"}
  <2>1. LocalsTypeOK'
    BY LocalsTypeStep DEF TypeOK
  <2>. QED
    BY <2>1 DEF LocalsTypeOK, InLoop
<1>4. InLoop <=> pc \in {"get_history", "close_position", "assess", "submit_buy"}
  BY DEF TypeOK, LocalsTypeOK, InLoop
<1>5. ASSUME UNCHANGED <<spent, buys>> PROVE Book' = Book /\ Working' = Working /\ CapRespected'
  BY <1>1, <1>5, BookFrame, SmallerBookFits
\* Before the loop, with nothing bought and nothing being bought.
<1>6. ASSUME UNCHANGED <<spent, buys>>, ~InLoop', pc' \in BeforePositions => pc \in BeforePositions
      PROVE  SlotLedger'
  BY <1>1, <1>2, <1>3, <1>5, <1>6 DEF Chosen
<1>7. CASE StartTick
  <2>1. Working = {} /\ ~InLoop' /\ ~Chosen' /\ UNCHANGED <<spent, buys>>
    BY <1>3, <1>7 DEF StartTick, Drained, brokerVars, Chosen
  <2>. QED
    BY <1>2, <1>5, <2>1
<1>8. CASE GetAccount \/ GetAnchor \/ StoreAnchor \/ CheckDrawdown \/ ListPositions
             \/ SweepOne \/ StorePaused
  <2>1. pc \in BeforePositions /\ UNCHANGED <<spent, buys>>
    BY <1>8 DEF BeforePositions, GetAccount, GetAnchor, StoreAnchor, CheckDrawdown,
                ListPositions, SweepOne, AcceptClose, StorePaused, brokerVars
  <2>2. pc' \notin {"get_history", "close_position", "assess", "submit_buy"}
    BY <1>8 DEF GetAccount, GetAnchor, StoreAnchor, CheckDrawdown, ListPositions,
                SweepOne, StorePaused
  <2>. QED
    BY <1>3, <1>6, <2>1, <2>2
<1>9. CASE RecordTick \/ AbortTick
  <2>1. pc' = "idle" /\ UNCHANGED <<spent, buys>>
    BY <1>9 DEF RecordTick, AbortTick, EndTick, brokerVars
  <2>. QED
    BY <1>3, <1>6, <2>1 DEF BeforePositions
<1>10. CASE GetPositions
  <2>1. Working = {} /\ UNCHANGED <<spent, buys>> /\ ~Chosen' /\ pc' \notin BeforePositions
    BY <1>1, <1>10 DEF GetPositions, brokerVars, BeforePositions, Chosen
  <2>2. Book' = Held /\ openSyms' = Held /\ positions' = Held
    BY <1>5, <1>10, <2>1 DEF GetPositions, Book
  <2>. QED
    BY <1>2, <1>5, <2>1, <2>2 DEF Covered
\* In the loop.
<1>11. ASSUME InLoop, UNCHANGED <<spent, buys, positions, openSyms>>, FinishSymbol
       PROVE  SlotLedger'
  <2>1. ~Chosen' /\ pc' \notin BeforePositions /\ (InLoop' => Passed' = Passed \cup {Symbol})
    BY <1>11, FinishPasses DEF TypeOK
  <2>2. InLoop' => Covered'
    BY <1>1, <1>5, <1>11, <2>1 DEF Covered
  <2>. QED
    BY <1>2, <1>5, <1>11, <2>1, <2>2
<1>12. ASSUME InLoop, UNCHANGED <<spent, buys, positions, openSyms, idx>>,
              Chosen' => SlotFree /\ Symbol \notin positions, pc' \notin BeforePositions
       PROVE  SlotLedger'
  <2>1. Covered'
    BY <1>1, <1>5, <1>12 DEF Covered, Passed
  <2>2. Chosen' => SlotFree' /\ Symbol' \notin positions'
    BY <1>12 DEF SlotFree, Symbol
  <2>. QED
    BY <1>2, <1>5, <1>12, <2>1, <2>2
<1>13. CASE HistoryMissing \/ ReconcileHeld \/ ClosePosition \/ SkipBuy \/ BuyRefused
  <2>1. InLoop /\ UNCHANGED <<spent, buys, positions, openSyms>>
    BY <1>4, <1>13 DEF HistoryMissing, ReconcileHeld, ClosePosition, SkipBuy, BuyRefused,
                       AcceptClose, brokerVars, loopFrame
  <2>2. FinishSymbol \/ (idx' = idx /\ pc' = "close_position")
    BY <1>13 DEF HistoryMissing, ReconcileHeld, ClosePosition, SkipBuy, BuyRefused
  <2>. QED
    BY <1>11, <1>12, <2>1, <2>2 DEF Chosen, BeforePositions
<1>14. CASE ReconcileFlat
  <2>1. InLoop /\ UNCHANGED <<spent, buys, positions, openSyms>> /\ Symbol \notin positions
    BY <1>4, <1>14 DEF ReconcileFlat, brokerVars, loopFrame
  <2>2. FinishSymbol \/ (idx' = idx /\ pc' = "assess" /\ SlotFree)
    BY <1>14 DEF ReconcileFlat
  <2>. QED
    BY <1>11, <1>12, <2>1, <2>2 DEF BeforePositions
<1>15. CASE AssessNews
  <2>1. InLoop /\ UNCHANGED <<spent, buys, positions, openSyms>> /\ Chosen
    BY <1>4, <1>15 DEF AssessNews, brokerVars, loopFrame, Chosen
  <2>2. FinishSymbol \/ (idx' = idx /\ pc' = "submit_buy")
    BY <1>15 DEF AssessNews
  <2>. QED
    BY <1>1, <1>11, <1>12, <2>1, <2>2 DEF BeforePositions
<1>16. CASE BuyAccepted
  <2>1. InLoop /\ FinishSymbol /\ openSyms' = openSyms \cup {Symbol} /\ positions' = positions
    BY <1>4, <1>16 DEF BuyAccepted, loopFrame
  <2>2. ~Chosen' /\ pc' \notin BeforePositions /\ (InLoop' => Passed' = Passed \cup {Symbol})
    BY <2>1, FinishPasses DEF TypeOK
  <2>3. Book' = Book \cup {Symbol}
    BY <1>16, EntryTakesSlot
  <2>4. InLoop' => Covered'
    BY <1>1, <2>1, <2>2, <2>3 DEF Covered
  <2>. QED
    BY <1>2, <1>16, <2>2, <2>4, EntryFits
<1>17. CASE Broker /\ UNCHANGED <<switchVars, tickVars, faults, swept>>
  <2>1. Working' \subseteq Working /\ Book' \subseteq Book
    BY <1>17, BookShrinks DEF TypeOK
  <2>2. UNCHANGED <<pc, positions, openSyms, idx>>
    BY <1>17 DEF tickVars
  <2>3. (Chosen => SlotFree /\ Symbol \notin positions)'
    BY <1>1, <2>2 DEF Chosen, SlotFree, Symbol
  <2>4. (InLoop => Covered)'
    BY <1>1, <2>1, <2>2 DEF InLoop, Covered, Passed
  <2>. QED
    BY <1>1, <1>2, <2>1, <2>2, <2>3, <2>4, SmallerBookFits
<1>18. CASE UNCHANGED <<brokerVars, tickVars>>
  <2>1. UNCHANGED <<pc, positions, openSyms, idx, spent, buys>>
    BY <1>18 DEF tickVars, brokerVars
  <2>2. (Chosen => SlotFree /\ Symbol \notin positions)'
    BY <1>1, <2>1 DEF Chosen, SlotFree, Symbol
  <2>3. (InLoop => Covered)'
    BY <1>1, <1>5, <2>1 DEF InLoop, Covered, Passed
  <2>. QED
    BY <1>1, <1>2, <1>5, <2>1, <2>2, <2>3
<1>. QED
  BY <1>7, <1>8, <1>9, <1>10, <1>13, <1>14, <1>15, <1>16, <1>17, <1>18
  DEF Next, Tick, Outside, vars, BuyReplyLost

\* With orders that settle between ticks and replies that arrive, the positions
\* and the orders that will become some never exceed max_open_positions.
THEOREM CapHolds ==
  ASSUME ~FillsLag, ~RepliesLost
  PROVE  Spec => []CapRespected
<1>1. Init => SlotLedger
  BY SlotLedgerInit
<1>2. TypeOK /\ SlotLedger /\ [Next]_vars => SlotLedger'
  BY SlotLedgerStep
<1>3. SlotLedger => CapRespected
  BY DEF SlotLedger
<1>. QED
  BY <1>1, <1>2, <1>3, Typing, PTL DEF Spec

LEMMA PercentRoundsDown == \A x \in Int : (x \div 100) * 100 <= x
OBVIOUS

\* Bought from nothing, a symbol has at most its share of equity.
LEMMA BuySize ==
  ASSUME TypeOK, Symbol \in Symbols, Symbol \notin Book,
         ~Dust(Notional(acct)), AcceptBuy(Symbol, Notional(acct))
  PROVE  (spent'[Symbol] + buys'[Symbol]) * 100 <= MaxPositionPct * acct.equity
<1>1. spent \in [Symbols -> Nat] /\ buys \in [Symbols -> Nat]
  BY DEF TypeOK, BrokerTypeOK
<1>2. acct \in [equity : Nat, cash : Int] /\ Notional(acct) \in Nat \ {0}
  BY NotionalType DEF TypeOK, LocalsTypeOK
<1>3. spent[Symbol] = 0 /\ buys[Symbol] = 0
  BY <1>1 DEF Book, Held, Working
<1>4. spent'[Symbol] + buys'[Symbol] = Notional(acct)
  BY <1>1, <1>2, <1>3 DEF AcceptBuy
<1>5. MaxPositionPct * acct.equity \in Int
  BY <1>2, TrendTickAssumption
<1>6. Target(acct) * 100 <= MaxPositionPct * acct.equity /\ Target(acct) \in Int
  BY <1>5, PercentRoundsDown DEF Target
<1>7. Notional(acct) <= Target(acct)
  <2>1. Spendable(acct) \in Int
    BY <1>2, TrendTickAssumption DEF Spendable
  <2>. QED
    BY <1>6, <2>1 DEF Notional
<1>8. Notional(acct) * 100 <= Target(acct) * 100
  BY <1>2, <1>6, <1>7
<1>. QED
  BY <1>2, <1>4, <1>5, <1>6, <1>8

\* A candidate is bought from nothing: what the accepted order makes of the
\* symbol is the notional, and that is at most the share of equity.
THEOREM SizeCap ==
  ASSUME ~FillsLag, ~RepliesLost
  PROVE  Spec => PositionSizeCapped
<1>1. Init => SlotLedger
  BY SlotLedgerInit
<1>2. TypeOK /\ SlotLedger /\ [Next]_vars => SlotLedger'
  BY SlotLedgerStep
<1>3. TypeOK /\ SlotLedger /\ [Next]_vars =>
        [\A s \in Symbols :
           buys'[s] > buys[s] => (spent'[s] + buys'[s]) * 100 <= MaxPositionPct * acct.equity]_vars
  <2>. SUFFICES ASSUME TypeOK, SlotLedger, Next, NEW s \in Symbols, buys'[s] > buys[s]
                PROVE  (spent'[s] + buys'[s]) * 100 <= MaxPositionPct * acct.equity
    OBVIOUS
  <2>1. BuyAccepted \/ BuyReplyLost
    BY OnlyEntriesBuy DEF TypeOK
  <2>2. AcceptBuy(Symbol, Notional(acct)) /\ ~Dust(Notional(acct))
    BY <2>1 DEF BuyAccepted, BuyReplyLost
  <2>3. Symbol \in Symbols /\ Symbol \notin Book
    BY <2>1, EntryTakesSlot
  <2>4. spent \in [Symbols -> Nat] /\ buys \in [Symbols -> Nat]
    BY DEF TypeOK, BrokerTypeOK
  <2>6. s = Symbol
    BY <2>2, <2>4 DEF AcceptBuy
  <2>. QED
    BY <2>2, <2>3, <2>6, BuySize
<1>. QED
  BY <1>1, <1>2, <1>3, Typing, PTL DEF Spec, PositionSizeCapped

-----------------------------------------------------------------------------
(* The tick implements the gate. *)

\* What an action of the tick or a passing hour does to today's flag.
LEMMA FlagStep ==
  ASSUME TypeOK, PauseKeys, [Next]_vars
  PROVE  \/ day' = day /\ (IsPaused(day)' = IsPaused(day))
         \/ StorePaused /\ day' = day /\ IsPaused(day)'
         \/ HourPasses /\ day' = day + 1 /\ day < MaxDay /\ ~IsPaused(day)'
<1>1. day \in Days /\ (\A d \in Days : paused[d] \in 0 .. KeyHours)
  BY DEF TypeOK, KillSwitchTypeOK
<1>2. CASE day' = day /\ paused' = paused
  <2>1. IsPaused(day)' = IsPaused(day)
    BY <1>2 DEF IsPaused
  <2>. QED
    BY <1>2, <2>1
<1>3. CASE StorePaused
  <2>1. day' = day
    BY <1>3 DEF StorePaused
  <2>2. CASE day = tickDay
    <3>1. paused'[day] = KeyHours
      BY <1>1, <1>3, <2>2 DEF StorePaused, SetPaused, TypeOK, KillSwitchTypeOK
    <3>. QED
      BY <1>3, <2>1, <3>1, KillSwitchAssumption DEF IsPaused
  <2>3. CASE day # tickDay
    <3>1. paused'[day] = paused[day]
      BY <1>1, <1>3, <2>3 DEF StorePaused, SetPaused, TypeOK, KillSwitchTypeOK
    <3>2. IsPaused(day)' = IsPaused(day)
      BY <2>1, <3>1 DEF IsPaused
    <3>. QED
      BY <2>1, <3>2
  <2>. QED
    BY <2>2, <2>3
<1>4. CASE HourPasses
  <2>1. /\ \A d \in Days : IsPaused(d)' => IsPaused(d)
        /\ day' = day /\ IsPaused(day) => IsPaused(day)'
    BY <1>4, HourKeepsPause DEF TypeOK
  <2>2. day' \in Days
    BY <1>4, ClockType DEF TypeOK, KillSwitchTypeOK
  <2>3. CASE day' = day
    <3>1. IsPaused(day)' <=> IsPaused(day)
      BY <1>1, <2>1, <2>3 DEF IsPaused
    <3>2. IsPaused(day)' = IsPaused(day)
      BY <3>1 DEF IsPaused
    <3>. QED
      BY <2>3, <3>2
  <2>4. CASE day' # day
    <3>1. day' = day + 1 /\ day < MaxDay
      BY <1>4, <2>4 DEF HourPasses
    <3>2. ~IsPaused(day')
      BY <1>1, <2>2, <3>1 DEF PauseKeys, Days
    <3>3. ~IsPaused(day)'
      BY <2>1, <2>2, <3>2 DEF IsPaused
    <3>. QED
      BY <1>4, <3>1, <3>3
  <2>. QED
    BY <2>3, <2>4
<1>. QED
  BY <1>2, <1>3, <1>4
  DEF Next, Tick, Outside, vars, switchVars, StartTick, GetAccount, GetAnchor, StoreAnchor,
      CheckDrawdown, ListPositions, SweepOne, GetPositions, HistoryMissing, ReconcileHeld,
      ReconcileFlat, ClosePosition, AssessNews, SkipBuy, BuyAccepted, BuyRefused,
      BuyReplyLost, RecordTick, AbortTick, loopFrame

LEMMA GateInit == Init => Gate!Init
<1>. SUFFICES ASSUME Init PROVE Gate!Init
  OBVIOUS
<1>1. day = 0
  BY DEF Init, KillSwitchInit
<1>2. ~IsPaused(day) /\ IsPaused(day) \in BOOLEAN
  BY KillSwitchAssumption DEF Init, KillSwitchInit, IsPaused, Days
<1>3. Book = {}
  BY DEF Init, BrokerInit, Book, Held, Working
<1>4. IsPaused(day) = FALSE
  BY <1>2, Zenon
<1>. QED
  BY <1>1, <1>3, <1>4 DEF Gate!Init

\* Every step of the engine is a step of the gate or one it does not see.
LEMMA GateStep ==
  ASSUME TypeOK, PauseKeys, PauseFlag, SlotLedger, [Next]_vars, ~RepliesLost
  PROVE  Gate!Next \/ UNCHANGED Gate!gateVars
<1>1. IsPaused(day) \in BOOLEAN /\ IsPaused(day)' \in BOOLEAN
  BY DEF IsPaused
<1>2. CASE BuyAccepted
  <2>1. /\ Symbol \in Symbols /\ Symbol \notin Book /\ Book' = Book \cup {Symbol}
        /\ Book \subseteq openSyms /\ IsFiniteSet(openSyms)
        /\ Cardinality(openSyms) < MaxOpenPositions
    BY <1>2, EntryTakesSlot
  <2>2. Cardinality(Book) < MaxOpenPositions
    <3>1. /\ Cardinality(Book) <= Cardinality(openSyms)
          /\ Cardinality(openSyms) \in Nat /\ Cardinality(Book) \in Nat
      BY <2>1, FS_Subset, FS_CardinalityType
    <3>. QED
      BY <2>1, <3>1, TrendTickAssumption
  <2>3. pc = "submit_buy" /\ day' = day /\ paused' = paused
    BY <1>2 DEF BuyAccepted, loopFrame, switchVars
  <2>4. ~IsPaused(day)
    <3>1. ~ddPaused /\ Decided
      BY <2>3 DEF PauseFlag, TypeOK, LocalsTypeOK, Decided, InLoop
    <3>2. ~IsPaused(tickDay)
      BY <3>1, Zenon DEF PauseFlag
    <3>3. IsPaused(day) => day = tickDay
      BY <2>3 DEF PauseKeys, TypeOK, KillSwitchTypeOK, LocalsTypeOK, Days
    <3>. QED
      BY <3>2, <3>3
  <2>5. IsPaused(day)' = IsPaused(day)
    BY <2>3 DEF IsPaused
  <2>6. Gate!Cardinality(Book) = Cardinality(Book)
    BY Zenon DEF Gate!Cardinality, Cardinality
  <2>7. Gate!Enter(Symbol)
    BY <2>1, <2>2, <2>3, <2>4, <2>5, <2>6 DEF Gate!Enter
  <2>. QED
    BY <2>1, <2>7 DEF Gate!Next
<1>3. CASE Broker /\ UNCHANGED <<switchVars, tickVars, faults, swept>>
  <2>1. day' = day /\ IsPaused(day)' = IsPaused(day)
    BY <1>3 DEF switchVars, IsPaused
  <2>2. CASE Book' = Book
    BY <2>1, <2>2 DEF Gate!gateVars
  <2>3. ASSUME NEW s \in Symbols, s \in Book, Book' = Book \ {s} PROVE Gate!Next
    <3>1. Gate!Leave({s})
      BY <2>1, <2>3 DEF Gate!Leave
    <3>. QED
      BY <2>3, <3>1 DEF Gate!Next
  <2>. QED
    BY <1>3, <2>2, <2>3, BookShrinks DEF TypeOK
<1>4. CASE UNCHANGED <<spent, buys>>
  <2>1. Book' = Book
    BY <1>4, BookFrame
  <2>2. CASE day' = day /\ (IsPaused(day)' = IsPaused(day))
    BY <2>1, <2>2 DEF Gate!gateVars
  <2>3. CASE StorePaused /\ day' = day /\ IsPaused(day)'
    <3>1. IsPaused(day)' = TRUE
      BY <1>1, <2>3, Zenon
    <3>2. IsPaused(day) => IsPaused(day)' = IsPaused(day)
      BY <1>1, <3>1, Zenon
    <3>3. CASE IsPaused(day)
      BY <2>1, <2>3, <3>2, <3>3 DEF Gate!gateVars
    <3>4. CASE ~IsPaused(day)
      <4>1. Gate!Halt
        BY <2>1, <2>3, <3>1, <3>4 DEF Gate!Halt
      <4>. QED
        BY <4>1 DEF Gate!Next
    <3>. QED
      BY <3>3, <3>4
  <2>4. CASE HourPasses /\ day' = day + 1 /\ day < MaxDay /\ ~IsPaused(day)'
    <3>1. IsPaused(day)' = FALSE
      BY <1>1, <2>4, Zenon
    <3>2. Gate!NewDay
      BY <2>1, <2>4, <3>1 DEF Gate!NewDay
    <3>. QED
      BY <3>2 DEF Gate!Next
  <2>. QED
    BY <2>2, <2>3, <2>4, FlagStep
<1>. QED
  BY <1>2, <1>3, <1>4, BookStep DEF BuyReplyLost, TypeOK

\* With settled orders and replies that arrive, run_tick implements the daily
\* gate: the cap, the shut gate and midnight are all that an observer of the
\* book and of today's pause flag can see.
THEOREM TickImplementsGate ==
  ASSUME ~FillsLag, ~RepliesLost
  PROVE  Spec => ImplementsGate
<1>1. Init => Gate!Init /\ PauseKeys /\ PauseFlag /\ SlotLedger
  BY GateInit, PauseKeysInit, PauseFlagInit, SlotLedgerInit
<1>2. TypeOK /\ PauseKeys /\ PauseFlag /\ SlotLedger /\ [Next]_vars =>
        (PauseKeys /\ PauseFlag /\ SlotLedger)'
  BY PauseKeysStep, PauseFlagStep, SlotLedgerStep
<1>3. TypeOK /\ PauseKeys /\ PauseFlag /\ SlotLedger /\ [Next]_vars => [Gate!Next]_(Gate!gateVars)
  BY GateStep
<1>. QED
  BY <1>1, <1>2, <1>3, Typing, PTL DEF Spec, ImplementsGate, Gate!Spec
=============================================================================
