----------------------------- MODULE TrendTick -----------------------------
(***************************************************************************)
(* The live trading engine: TrendTrader.run_tick of                        *)
(* src/src/trader/trend_trader.py with the DrawdownMonitor.check and the   *)
(* close_positions it calls, against the broker (Broker) and the day keys  *)
(* in Redis (KillSwitch).                                                  *)
(*                                                                         *)
(* A tick is a sequence of remote calls, and everything else moves between *)
(* two of them: orders fill, the market moves, midnight passes, the        *)
(* process dies.  So each call is one action, with the local computation   *)
(* that follows it, and pc names the call that comes next.  What a tick    *)
(* read stays in its locals (acct, positions, openSyms, ...) and may be    *)
(* stale when it is used.  Daily bars are abstracted to what the tick      *)
(* makes of them: the symbol is in trend or not, the price is below the    *)
(* catastrophic stop or not, or there is no usable history.                *)
(***************************************************************************)
EXTENDS Broker, KillSwitch, Sequences

CONSTANTS Watchlist,         \* cfg.watchlist.symbols, in order
          MaxOpenPositions,  \* risk.max_open_positions
          MaxPositionPct,    \* risk.max_position_pct, in percent
          MinNotional,       \* an entry below this many dollars is skipped
          CashPct,           \* the percentage of cash an entry may spend
          FillsLag,          \* may an order still be working at the next tick?
          RepliesLost,       \* may a submitted order's reply be lost?
          MaxFaults          \* bound: failed calls and crashes in a behaviour

ASSUME TrendTickAssumption ==
  /\ Watchlist \in Seq(Symbols)
  /\ Len(Watchlist) > 0
  /\ \A i, j \in 1 .. Len(Watchlist) : Watchlist[i] = Watchlist[j] => i = j
  /\ MaxOpenPositions \in Nat
  /\ MaxPositionPct \in Nat
  /\ MinNotional \in Nat \ {0}
  /\ CashPct \in 0 .. 100
  /\ MaxFaults \in Nat

ASSUME FaultModelAssumption == FillsLag \in BOOLEAN /\ RepliesLost \in BOOLEAN

VARIABLES pc,         \* the call the tick makes next; "idle" between ticks
          acct,       \* the account as get_account returned it
          tickDay,    \* the day key check() computed
          ref,        \* the anchor check() compares with
          ddPaused,   \* dd.paused
          toClose,    \* the positions close_positions has not come to yet
          positions,  \* the symbols get_positions_detail listed
          openSyms,   \* open_syms: those positions and this tick's buys
          idx,        \* the watchlist position the loop is at, 0 outside it
          faults,     \* faults so far
          swept       \* history: the days on which a liquidation ran to its end

tickVars == <<pc, acct, tickDay, ref, ddPaused, toClose, positions, openSyms, idx>>
vars == <<brokerVars, switchVars, tickVars, faults, swept>>

Calls == {"get_account", "get_anchor", "set_anchor", "is_paused", "list_positions",
          "sweep", "set_paused", "get_positions", "get_history", "close_position",
          "assess", "submit_buy", "record_tick"}

LocalsTypeOK ==
  /\ pc \in Calls \cup {"idle"}
  /\ acct \in [equity : Nat, cash : Int]
  /\ tickDay \in Days
  /\ ref \in Nat
  /\ toClose \subseteq Symbols
  /\ positions \subseteq Symbols
  /\ openSyms \subseteq Symbols
  /\ idx \in 0 .. Len(Watchlist)
  /\ idx > 0 <=> pc \in {"get_history", "close_position", "assess", "submit_buy"}
  /\ faults \in 0 .. MaxFaults
  /\ swept \subseteq Days

TypeOK ==
  /\ BrokerTypeOK
  /\ KillSwitchTypeOK
  /\ LocalsTypeOK
  /\ ddPaused \in BOOLEAN

NoAccount == [equity |-> 0, cash |-> 0]

Init ==
  /\ BrokerInit
  /\ KillSwitchInit
  /\ pc = "idle"
  /\ acct = NoAccount
  /\ tickDay = 0
  /\ ref = 0
  /\ ddPaused = FALSE
  /\ toClose = {}
  /\ positions = {}
  /\ openSyms = {}
  /\ idx = 0
  /\ faults = 0
  /\ swept = {}

Symbol == Watchlist[idx]

\* A call fails, or the process dies: bounded, and never by itself a success.
Fault == faults < MaxFaults /\ faults' = faults + 1

\* The locals of run_tick do not outlive it.
EndTick ==
  /\ pc' = "idle"
  /\ acct' = NoAccount
  /\ tickDay' = 0
  /\ ref' = 0
  /\ ddPaused' = FALSE
  /\ toClose' = {}
  /\ positions' = {}
  /\ openSyms' = {}
  /\ idx' = 0

-----------------------------------------------------------------------------
(* The account and the kill-switch, before anything else. *)

\* The scheduler starts a tick.  With FillsLag FALSE the orders of earlier
\* ticks have settled by then, as market orders in an open session should.
StartTick ==
  /\ pc = "idle"
  /\ FillsLag \/ Drained
  /\ pc' = "get_account"
  /\ UNCHANGED <<brokerVars, switchVars, acct, tickDay, ref, ddPaused, toClose,
                 positions, openSyms, idx, faults, swept>>

GetAccount ==
  /\ pc = "get_account"
  /\ acct' = [equity |-> equity, cash |-> cash]
  /\ pc' = "get_anchor"
  /\ UNCHANGED <<brokerVars, switchVars, tickDay, ref, ddPaused, toClose,
                 positions, openSyms, idx, faults, swept>>

\* Slip: every tick takes its own equity for the day's first.
ReAnchor ==
  /\ pc = "get_anchor"
  /\ tickDay' = day
  /\ ref' = acct.equity
  /\ pc' = "set_anchor"
  /\ UNCHANGED <<brokerVars, switchVars, acct, ddPaused, toClose, positions,
                 openSyms, idx, faults, swept>>

GetAnchor ==
  /\ pc = "get_anchor"
  /\ tickDay' = day
  /\ IF HasAnchor(day)
       THEN ref' = anchor[day].equity /\ pc' = "is_paused"
       ELSE ref' = acct.equity /\ pc' = "set_anchor"
  /\ UNCHANGED <<brokerVars, switchVars, acct, ddPaused, toClose, positions,
                 openSyms, idx, faults, swept>>

StoreAnchor ==
  /\ pc = "set_anchor"
  /\ SetAnchor(tickDay, ref)
  /\ pc' = "is_paused"
  /\ UNCHANGED <<brokerVars, day, hour, paused, acct, tickDay, ref, ddPaused,
                 toClose, positions, openSyms, idx, faults, swept>>

\* Slip: the flag is latched first and the liquidation follows.
LatchThenLiquidate ==
  /\ pc = "is_paused"
  /\ IF Breached(ref, acct.equity) /\ ~IsPaused(tickDay)
       THEN SetPaused(tickDay) /\ ddPaused' = TRUE /\ pc' = "list_positions"
       ELSE paused' = paused /\ ddPaused' = IsPaused(tickDay) /\ pc' = "get_positions"
  /\ UNCHANGED <<brokerVars, day, hour, anchor, acct, tickDay, ref, toClose,
                 positions, openSyms, idx, faults, swept>>

CheckDrawdown ==
  /\ pc = "is_paused"
  /\ ddPaused' = IsPaused(tickDay)
  /\ pc' = IF Breached(ref, acct.equity) /\ ~IsPaused(tickDay)
             THEN "list_positions" ELSE "get_positions"
  /\ UNCHANGED <<brokerVars, switchVars, acct, tickDay, ref, toClose, positions,
                 openSyms, idx, faults, swept>>

\* close_positions: the own symbols among the open positions ...
ListPositions ==
  /\ pc = "list_positions"
  /\ toClose' = Held
  /\ IF Held = {} THEN pc' = "set_paused" /\ swept' = swept \cup {tickDay}
                  ELSE pc' = "sweep" /\ swept' = swept
  /\ UNCHANGED <<brokerVars, switchVars, acct, tickDay, ref, ddPaused, positions,
                 openSyms, idx, faults>>

\* ... are closed one by one, in a set's order, and a failure is swallowed.
SweepOne ==
  /\ pc = "sweep"
  /\ \E s \in toClose :
       /\ \/ Closable(s) /\ AcceptClose(s) /\ faults' = faults
          \/ ~Closable(s) /\ UNCHANGED <<brokerVars, faults>>
          \/ Fault /\ UNCHANGED brokerVars
       /\ toClose' = toClose \ {s}
       /\ IF toClose = {s} THEN pc' = "set_paused" /\ swept' = swept \cup {tickDay}
                           ELSE pc' = pc /\ swept' = swept
  /\ UNCHANGED <<switchVars, acct, tickDay, ref, ddPaused, positions, openSyms, idx>>

\* Slip: the tick that trips the switch goes on with the flag it read before.
StorePausedOnly ==
  /\ pc = "set_paused"
  /\ SetPaused(tickDay)
  /\ pc' = "get_positions"
  /\ UNCHANGED <<brokerVars, day, hour, anchor, acct, tickDay, ref, ddPaused,
                 toClose, positions, openSyms, idx, faults, swept>>

StorePaused ==
  /\ pc = "set_paused"
  /\ SetPaused(tickDay)
  /\ ddPaused' = TRUE
  /\ pc' = "get_positions"
  /\ UNCHANGED <<brokerVars, day, hour, anchor, acct, tickDay, ref, toClose,
                 positions, openSyms, idx, faults, swept>>

-----------------------------------------------------------------------------
(* The reconciliation loop over the watchlist. *)

FinishSymbol ==
  IF idx < Len(Watchlist) THEN pc' = "get_history" /\ idx' = idx + 1
                          ELSE pc' = "record_tick" /\ idx' = 0

GetPositions ==
  /\ pc = "get_positions"
  /\ positions' = Held
  /\ openSyms' = Held
  /\ pc' = "get_history"
  /\ idx' = 1
  /\ UNCHANGED <<brokerVars, switchVars, acct, tickDay, ref, ddPaused, toClose,
                 faults, swept>>

loopFrame == <<switchVars, acct, tickDay, ref, ddPaused, toClose, positions, swept>>

\* Slip: the pause is not consulted.
WantTrend(inTrend) == inTrend

WantLong(inTrend) == inTrend /\ ~ddPaused
SlotFree == Cardinality(openSyms) < MaxOpenPositions

\* No bars, or fewer than the moving average needs: the symbol is passed over.
HistoryMissing ==
  /\ pc = "get_history"
  /\ Fault
  /\ FinishSymbol
  /\ UNCHANGED <<brokerVars, loopFrame, openSyms>>

\* A held symbol is sold on the catastrophic stop, or when not wanted any more.
ReconcileHeld ==
  /\ pc = "get_history"
  /\ Symbol \in positions
  /\ \E inTrend, stopHit \in BOOLEAN :
       IF stopHit \/ ~WantLong(inTrend)
         THEN pc' = "close_position" /\ idx' = idx
         ELSE FinishSymbol
  /\ UNCHANGED <<brokerVars, loopFrame, openSyms, faults>>

\* Another symbol is bought when it is wanted and a slot is free.
ReconcileFlat ==
  /\ pc = "get_history"
  /\ Symbol \notin positions
  /\ \E inTrend \in BOOLEAN :
       IF WantLong(inTrend) /\ SlotFree
         THEN pc' = "assess" /\ idx' = idx
         ELSE FinishSymbol
  /\ UNCHANGED <<brokerVars, loopFrame, openSyms, faults>>

\* The broker takes the close order or refuses it; a failure is recorded as
\* ERROR and the loop goes on.
ClosePosition ==
  /\ pc = "close_position"
  /\ \/ Closable(Symbol) /\ AcceptClose(Symbol) /\ faults' = faults
     \/ ~Closable(Symbol) /\ UNCHANGED <<brokerVars, faults>>
     \/ Fault /\ UNCHANGED brokerVars
  /\ FinishSymbol
  /\ UNCHANGED <<loopFrame, openSyms>>

\* The news filter lets the entry through, or it vetoes it.  A failure inside
\* assess() is itself let through; one of its cache calls drops the entry.
AssessNews ==
  /\ pc = "assess"
  /\ \/ pc' = "submit_buy" /\ idx' = idx /\ faults' = faults
     \/ FinishSymbol /\ faults' = faults
     \/ FinishSymbol /\ Fault
  /\ UNCHANGED <<brokerVars, loopFrame, openSyms>>

\* The target is a share of equity, capped by the cash the tick started with.
Target(a) == (MaxPositionPct * a.equity) \div 100
Spendable(a) == (CashPct * a.cash) \div 100
\* Slip: the larger of the two.
NotionalUncapped(a) == IF Target(a) <= Spendable(a) THEN Spendable(a) ELSE Target(a)

Notional(a) == IF Target(a) <= Spendable(a) THEN Target(a) ELSE Spendable(a)

Dust(n) == n < MinNotional

SkipBuy ==
  /\ pc = "submit_buy"
  /\ Dust(Notional(acct))
  /\ FinishSymbol
  /\ UNCHANGED <<brokerVars, loopFrame, openSyms, faults>>

\* Slip: the slot is not taken.
BuyWithoutSlot ==
  /\ pc = "submit_buy"
  /\ ~Dust(Notional(acct))
  /\ Affordable(Notional(acct))
  /\ AcceptBuy(Symbol, Notional(acct))
  /\ FinishSymbol
  /\ UNCHANGED <<loopFrame, openSyms, faults>>

BuyAccepted ==
  /\ pc = "submit_buy"
  /\ ~Dust(Notional(acct))
  /\ Affordable(Notional(acct))
  /\ AcceptBuy(Symbol, Notional(acct))
  /\ openSyms' = openSyms \cup {Symbol}
  /\ FinishSymbol
  /\ UNCHANGED <<loopFrame, faults>>

\* Refused for lack of buying power, or the request failed: ERROR, no slot used.
BuyRefused ==
  /\ pc = "submit_buy"
  /\ ~Dust(Notional(acct))
  /\ \/ ~Affordable(Notional(acct)) /\ faults' = faults
     \/ Fault
  /\ FinishSymbol
  /\ UNCHANGED <<brokerVars, loopFrame, openSyms>>

\* The broker took the order but the reply never came: ERROR, no slot used.
BuyReplyLost ==
  /\ pc = "submit_buy"
  /\ RepliesLost
  /\ ~Dust(Notional(acct))
  /\ Affordable(Notional(acct))
  /\ AcceptBuy(Symbol, Notional(acct))
  /\ Fault
  /\ FinishSymbol
  /\ UNCHANGED <<loopFrame, openSyms>>

RecordTick ==
  /\ pc = "record_tick"
  /\ EndTick
  /\ UNCHANGED <<brokerVars, switchVars, faults, swept>>

\* An exception outside the loop's try, or the end of the process: the tick
\* stops where it is.  The scheduler, or the restarted container, starts anew.
AbortTick ==
  /\ pc # "idle"
  /\ Fault
  /\ EndTick
  /\ UNCHANGED <<brokerVars, switchVars, swept>>

-----------------------------------------------------------------------------

Tick ==
  \/ StartTick \/ GetAccount \/ GetAnchor \/ StoreAnchor \/ CheckDrawdown
  \/ ListPositions \/ SweepOne \/ StorePaused \/ GetPositions
  \/ HistoryMissing \/ ReconcileHeld \/ ReconcileFlat \/ ClosePosition
  \/ AssessNews \/ SkipBuy \/ BuyAccepted \/ BuyRefused \/ BuyReplyLost
  \/ RecordTick \/ AbortTick

Outside ==
  \/ Broker /\ UNCHANGED <<switchVars, tickVars, faults, swept>>
  \/ HourPasses /\ UNCHANGED <<brokerVars, tickVars, faults, swept>>

Next == Tick \/ Outside

Spec == Init /\ [][Next]_vars

\* The daemon keeps ticking and is restarted when it dies (docker-compose,
\* restart: unless-stopped); a working order is eventually filled or lapses.
\* The clock, the market and faults owe nothing.
Fairness ==
  /\ WF_vars(Tick)
  /\ \A s \in Symbols :
       /\ WF_vars((FillBuy(s) \/ LapseBuy(s)) /\ UNCHANGED <<switchVars, tickVars, faults, swept>>)
       /\ WF_vars(FillClose(s) /\ UNCHANGED <<switchVars, tickVars, faults, swept>>)

FairSpec == Spec /\ Fairness

-----------------------------------------------------------------------------
(* What must hold. *)

InLoop == idx > 0

\* run_tick keeps the promise of the daily gate: positions and working buys
\* never exceed max_open_positions, a symbol enters the book only while no
\* pause flag is set for the current day, and the flag stays until midnight,
\* through restarts and key expiry.
Gate == INSTANCE DailyGate
          WITH today <- day, halted <- IsPaused(day), book <- Book

ImplementsGate == Gate!Spec

\* The cap alone, as risk.yaml words it: the positions the account has or will
\* have when the working orders fill are at most max_open_positions.
CapRespected == Cardinality(Book) <= MaxOpenPositions

\* No buy is sent while a pause flag is up, neither for the day on which the
\* tick checked its drawdown nor for the day it has become since.
NoEntryWhilePaused ==
  [][\A s \in Symbols : buys'[s] > buys[s] => ~IsPaused(day) /\ ~IsPaused(tickDay)]_vars

\* What an accepted buy makes of its symbol, position and orders together, is
\* at most max_position_pct of the equity the tick read.
PositionSizeCapped ==
  [][\A s \in Symbols :
       buys'[s] > buys[s] =>
         (spent'[s] + buys'[s]) * 100 <= MaxPositionPct * acct.equity]_vars

\* The flag is written after the liquidation: a day that is marked as paused
\* is a day on which every position was at least tried, crashes included.
PausedMeansSwept == \A d \in Days : IsPaused(d) => d \in swept

\* Once a day has an anchor it keeps that anchor until midnight: no tick, no
\* restart and no expiry moves the reference the drawdown is measured from.
AnchorStable ==
  [][\A d \in Days : d = day /\ d = day' /\ HasAnchor(d) =>
       HasAnchor(d)' /\ anchor'[d].equity = anchor[d].equity]_vars

\* A tick that saw a breach either knows the day is paused when it comes to
\* its entries, or has not come to them: a breach is never traded through.
BreachStopsEntries ==
  InLoop /\ Breached(ref, acct.equity) => ddPaused /\ tickDay \in swept

\* While the day stays paused, the book becomes empty: a close that failed in
\* the liquidation, or a buy that filled after it, is sold by a later tick.
KillSwitchFlattens ==
  \A d \in Days : (day = d /\ IsPaused(d)) ~> (day # d \/ Book = {})

-----------------------------------------------------------------------------
(* What the repository says and the code does not keep. *)

\* drawdown.py: a trip "force-liquidates all positions and sets a pause flag"
\* that halts new trading until the next day, so nothing is bought on a day
\* whose positions were liquidated.
NoEntryAfterLiquidation ==
  [][\A s \in Symbols : buys'[s] > buys[s] => day \notin swept]_vars

-----------------------------------------------------------------------------
(* Why it holds: the inductive invariants behind the properties above. *)

\* check() has returned, or is carrying out the trip it decided on.
Decided ==
  InLoop \/ pc \in {"list_positions", "sweep", "set_paused", "get_positions", "record_tick"}

\* No flag is of a day to come, nor of one after the day the tick is working
\* on, and today's flag cannot expire before midnight.
PauseKeys ==
  /\ tickDay <= day
  /\ \A d \in Days : IsPaused(d) => d <= day
  /\ pc \notin {"idle", "get_account", "get_anchor"} =>
       \A d \in Days : IsPaused(d) => d <= tickDay
  /\ IsPaused(day) => paused[day] + hour >= KeyHours

\* The tick's copy of the flag is not older than the flag, and a candidate is
\* pursued only while the copy says go.
PauseFlag ==
  /\ Decided => ddPaused \/ ~IsPaused(tickDay)
  /\ pc \in {"assess", "submit_buy"} => ~ddPaused

\* The same for the anchor: written once, alive until midnight.
AnchorKeys ==
  /\ \A d \in Days : HasAnchor(d) => d <= day
  /\ HasAnchor(day) => anchor[day].ttl + hour >= KeyHours
  /\ pc = "set_anchor" => ~HasAnchor(tickDay)

\* A flag follows a liquidation that ended, and so does a breach that was seen.
SweepRecord ==
  /\ PausedMeansSwept
  /\ pc = "set_paused" => tickDay \in swept
  /\ (InLoop \/ pc = "get_positions") /\ Breached(ref, acct.equity) =>
       ddPaused /\ tickDay \in swept

\* The slots: nothing is being bought when the positions are read; from then
\* on openSyms covers the whole book, and grows by the symbols passed only.
Passed == {Watchlist[j] : j \in 1 .. idx - 1}

SlotLedger ==
  /\ pc \in {"get_account", "get_anchor", "set_anchor", "is_paused", "list_positions",
             "sweep", "set_paused", "get_positions"} => Working = {}
  /\ InLoop => Book \subseteq openSyms /\ openSyms \subseteq positions \cup Passed
  /\ pc \in {"assess", "submit_buy"} => SlotFree /\ Symbol \notin positions
  /\ CapRespected
=============================================================================
