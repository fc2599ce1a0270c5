-------------------------- MODULE TickLedger_proofs --------------------------
(***************************************************************************)
(* What TLAPS proves of TickLedger: the promises that a tick keeps however *)
(* late orders fill, whatever reply is lost, and whichever call fails, for *)
(* every watchlist and cap.                                                *)
(***************************************************************************)
EXTENDS TickLedger, TrendTick_proofs

-----------------------------------------------------------------------------
(* The record takes no part in the steps. *)

LEMMA RecordOnly ==
  ASSUME [LedgerNext]_ledgerVars
  PROVE  [Next]_vars
BY DEF LedgerNext, ledgerVars

\* What is proved of TrendTick holds of TickLedger.
LEMMA LedgerIsTick == LedgerSpec => Spec
<1>1. LedgerInit => Init
  BY DEF LedgerInit
<1>2. [LedgerNext]_ledgerVars => [Next]_vars
  BY RecordOnly
<1>. QED
  BY <1>1, <1>2, PTL DEF LedgerSpec, Spec

LEMMA EntrySymbol ==
  ASSUME TypeOK, idx > 0
  PROVE  Symbol \in Symbols /\ Symbol \notin Passed /\ idx \in 1 .. Len(Watchlist)
<1>1. idx \in 1 .. Len(Watchlist)
  BY WatchlistType DEF TypeOK, LocalsTypeOK
<1>. QED
  BY <1>1, WatchlistType, TrendTickAssumption DEF Symbol, Passed

\* The record's step, action by action.
LEMMA SightCases ==
  ASSUME TypeOK, unseen \subseteq Book, [LedgerNext]_ledgerVars
  PROVE  \/ GetPositions /\ unseen' = (unseen \cup (Working \ Held)) \cap Book'
         \/ BuyReplyLost /\ unseen' = (unseen \cup {Symbol}) \cap Book'
         \/ BuyAccepted /\ unseen' = (unseen \ {Symbol}) \cap Book'
         \/ /\ Broker /\ UNCHANGED <<switchVars, tickVars, faults, swept>>
            /\ unseen' = unseen \cap Book'
         \/ UNCHANGED <<spent, buys>> /\ unseen' = unseen /\ ~GetPositions
<1>1. CASE UNCHANGED ledgerVars
  <2>1. UNCHANGED <<spent, buys, unseen, pc>>
    BY <1>1 DEF ledgerVars, vars, brokerVars, tickVars
  <2>2. ~GetPositions
    BY <2>1 DEF GetPositions
  <2>. QED
    BY <2>1, <2>2
<1>2. CASE GetPositions /\ LedgerNext
  BY <1>2 DEF LedgerNext, Sight
<1>3. CASE BuyReplyLost /\ LedgerNext
  <2>1. ~GetPositions
    BY <1>3 DEF BuyReplyLost, GetPositions
  <2>. QED
    BY <1>3, <2>1 DEF LedgerNext, Sight
<1>4. CASE BuyAccepted /\ LedgerNext
  <2>1. faults \in Nat
    BY ConstantTypes DEF TypeOK, LocalsTypeOK
  <2>2. ~GetPositions /\ ~BuyReplyLost
    BY <1>4, <2>1 DEF BuyAccepted, BuyReplyLost, GetPositions, Fault
  <2>. QED
    BY <1>4, <2>2 DEF LedgerNext, Sight
<1>5. CASE LedgerNext /\ ~GetPositions /\ ~BuyReplyLost /\ ~BuyAccepted
  <2>1. unseen' = unseen \cap Book' /\ [Next]_vars
    BY <1>5 DEF LedgerNext, Sight
  <2>2. ASSUME UNCHANGED <<spent, buys>> PROVE unseen' = unseen
    BY <2>1, <2>2, BookFrame
  <2>. QED
    BY <1>5, <2>1, <2>2, BookStep DEF TypeOK
<1>. QED
  BY <1>1, <1>2, <1>3, <1>4, <1>5

LEMMA LedgerTypeStep ==
  ASSUME LedgerTypeOK, [LedgerNext]_ledgerVars
  PROVE  LedgerTypeOK'
<1>1. TypeOK'
  BY RecordOnly, BrokerTypeStep, SwitchTypeStep, LocalsTypeStep, FlagTypeStep, Zenon
  DEF LedgerTypeOK, TypeOK
<1>2. unseen' \subseteq Symbols
  <2>1. Book' \subseteq Symbols
    BY DEF Book, Held, Working
  <2>. QED
    BY <2>1 DEF LedgerTypeOK, LedgerNext, ledgerVars
<1>3. excused' \subseteq Symbols
  <2>1. CASE UNCHANGED ledgerVars
    BY <2>1 DEF LedgerTypeOK, ledgerVars
  <2>2. CASE LedgerNext
    <3>1. CASE HistoryMissing \/ ClosePosition
      <4>1. Symbol \in Symbols
        BY <3>1, EntrySymbol DEF HistoryMissing, ClosePosition, LedgerTypeOK, TypeOK, LocalsTypeOK
      <4>. QED
        BY <2>2, <4>1 DEF LedgerNext, Missed, LedgerTypeOK, Working
    <3>2. CASE ~HistoryMissing /\ ~ClosePosition
      BY <2>2, <3>2 DEF LedgerNext, Missed, LedgerTypeOK, Working
    <3>. QED
      BY <3>1, <3>2
  <2>. QED
    BY <2>1, <2>2
<1>4. claimed' \in BOOLEAN
  <2>1. CASE UNCHANGED ledgerVars
    BY <2>1, Zenon DEF LedgerTypeOK, ledgerVars
  <2>2. CASE LedgerNext
    <3>1. claimed' = Claim
      BY <2>2 DEF LedgerNext
    <3>2. (reserved > 0) \in BOOLEAN
      OBVIOUS
    <3>. QED
      BY <3>1, <3>2, Zenon DEF Claim, LedgerTypeOK
  <2>. QED
    BY <2>1, <2>2
<1>. QED
  BY <1>1, <1>2, <1>3, <1>4, Zenon DEF LedgerTypeOK

\* The record names symbols of the watchlist's account only.
THEOREM LedgerTyping == LedgerSpec => []LedgerTypeOK
<1>1. LedgerInit => LedgerTypeOK
  BY TypeInit DEF LedgerInit, LedgerTypeOK
<1>2. LedgerTypeOK /\ [LedgerNext]_ledgerVars => LedgerTypeOK'
  BY LedgerTypeStep
<1>. QED
  BY <1>1, <1>2, PTL DEF LedgerSpec

-----------------------------------------------------------------------------
(* What the ticks see. *)

LEMMA SeenFinite ==
  ASSUME TypeOK
  PROVE  IsFiniteSet(Book \ unseen) /\ Cardinality(Book \ unseen) \in Nat
BY BookFinite, FS_Subset, FS_CardinalityType DEF TypeOK

\* Of a smaller book that is seen, the cap still holds.
LEMMA FewerFit ==
  ASSUME TypeOK, CapUpToUnseen, (Book \ unseen)' \subseteq Book \ unseen
  PROVE  CapUpToUnseen'
<1>1. Cardinality((Book \ unseen)') <= Cardinality(Book \ unseen)
  BY SeenFinite, FS_Subset
<1>2. Cardinality((Book \ unseen)') \in Nat
  BY SeenFinite, FS_Subset, FS_CardinalityType
<1>. QED
  BY <1>1, <1>2, SeenFinite, TrendTickAssumption DEF CapUpToUnseen

\* A candidate that comes to its order is a symbol the ticks do not see, the
\* slot it takes is free of all they do see, and the book then has it.
LEMMA SeenEntry ==
  ASSUME TypeOK, SightLedger, BuyAccepted \/ BuyReplyLost
  PROVE  /\ Symbol \in Symbols \ openSyms
         /\ Book \ unseen \subseteq openSyms
         /\ Symbol \in Book => Symbol \in unseen
         /\ IsFiniteSet(openSyms)
         /\ Cardinality(openSyms) < MaxOpenPositions
         /\ Book' = Book \cup {Symbol}
<1>1. pc = "submit_buy" /\ ~Dust(Notional(acct)) /\ AcceptBuy(Symbol, Notional(acct))
  BY DEF BuyAccepted, BuyReplyLost
<1>2. idx > 0 /\ InLoop
  BY <1>1 DEF TypeOK, LocalsTypeOK, InLoop
<1>3. Symbol \in Symbols /\ Symbol \notin Passed
  BY <1>2, EntrySymbol
<1>4. /\ SlotFree /\ Symbol \notin positions
      /\ Book \subseteq openSyms \cup unseen /\ openSyms \subseteq positions \cup Passed
  BY <1>1, <1>2 DEF SightLedger
<1>5. Notional(acct) \in Nat \ {0}
  BY <1>1, NotionalType DEF TypeOK, LocalsTypeOK
<1>6. Book' = Book \cup {Symbol}
  BY <1>1, <1>3, <1>5, BookGrows DEF TypeOK
<1>7. IsFiniteSet(openSyms)
  BY BrokerAssumption, FS_Subset DEF TypeOK, LocalsTypeOK
<1>. QED
  BY <1>3, <1>4, <1>6, <1>7 DEF SlotFree

\* An accepted buy joins what is seen, a lost reply does not.
LEMMA SeenBuy ==
  ASSUME TypeOK, SightLedger, [LedgerNext]_ledgerVars
  PROVE  /\ BuyAccepted => (Book \ unseen)' = (Book \ unseen) \cup {Symbol}
         /\ BuyReplyLost => (Book \ unseen)' = Book \ unseen
<1>1. unseen \subseteq Book
  BY DEF SightLedger
<1>2. CASE BuyAccepted
  <2>1. unseen' = (unseen \ {Symbol}) \cap Book'
    <3>1. faults \in Nat /\ BrokerTypeOK
      BY ConstantTypes DEF TypeOK, LocalsTypeOK
    <3>2. ~GetPositions /\ ~BuyReplyLost /\ pc = "submit_buy"
      BY <1>2, <3>1 DEF BuyAccepted, BuyReplyLost, GetPositions, Fault
    <3>3. LedgerNext
      <4>1. pc' # "submit_buy"
        BY <1>2 DEF BuyAccepted, FinishSymbol
      <4>. QED
        BY <3>2, <4>1 DEF ledgerVars, vars, tickVars
    <3>. QED
      BY <1>2, <3>2, <3>3 DEF LedgerNext, Sight
  <2>2. Book' = Book \cup {Symbol} /\ ~BuyReplyLost
    <3>1. faults \in Nat
      BY ConstantTypes DEF TypeOK, LocalsTypeOK
    <3>. QED
      BY <1>2, <3>1, SeenEntry DEF BuyAccepted, BuyReplyLost, Fault
  <2>3. (Book \ unseen)' = (Book \ unseen) \cup {Symbol}
    BY <1>1, <2>1, <2>2
  <2>. QED
    BY <2>2, <2>3
<1>3. CASE BuyReplyLost
  <2>1. pc = "submit_buy" /\ pc' # "submit_buy" /\ ~GetPositions
    BY <1>3 DEF BuyReplyLost, FinishSymbol, GetPositions
  <2>2. LedgerNext
    BY <2>1 DEF ledgerVars, vars, tickVars
  <2>3. unseen' = (unseen \cup {Symbol}) \cap Book'
    BY <1>3, <2>1, <2>2 DEF LedgerNext, Sight
  <2>4. Book' = Book \cup {Symbol} /\ (Symbol \in Book => Symbol \in unseen)
    BY <1>3, SeenEntry
  <2>5. (Book \ unseen)' = Book \ unseen
    BY <1>1, <2>3, <2>4
  <2>6. ~BuyAccepted
    <3>1. faults \in Nat
      BY ConstantTypes DEF TypeOK, LocalsTypeOK
    <3>. QED
      BY <1>3, <3>1 DEF BuyAccepted, BuyReplyLost, Fault
  <2>. QED
    BY <2>5, <2>6
<1>. QED
  BY <1>2, <1>3

LEMMA SeenEntryFits ==
  ASSUME TypeOK, SightLedger, [LedgerNext]_ledgerVars, BuyAccepted
  PROVE  CapUpToUnseen'
<1>1. /\ (Book \ unseen)' = (Book \ unseen) \cup {Symbol}
      /\ Book \ unseen \subseteq openSyms /\ Symbol \notin openSyms
      /\ IsFiniteSet(openSyms) /\ Cardinality(openSyms) < MaxOpenPositions
  BY SeenBuy, SeenEntry
<1>2. Cardinality(Book \ unseen) <= Cardinality(openSyms) /\ Cardinality(openSyms) \in Nat
  BY <1>1, FS_Subset, FS_CardinalityType
<1>3. Cardinality((Book \ unseen)') = Cardinality(Book \ unseen) + 1
  BY <1>1, SeenFinite, FS_AddElement
<1>. QED
  BY <1>1, <1>2, <1>3, SeenFinite, TrendTickAssumption DEF CapUpToUnseen

LEMMA SightLedgerInit == LedgerInit => SightLedger
<1>. SUFFICES ASSUME LedgerInit PROVE SightLedger
  OBVIOUS
<1>1. Book \ unseen = {}
  BY DEF LedgerInit, Init, BrokerInit, Book, Held, Working
<1>2. CapUpToUnseen
  <2>1. Cardinality(Book \ unseen) = 0
    BY <1>1, FS_EmptySet, Zenon
  <2>. QED
    BY <2>1, TrendTickAssumption DEF CapUpToUnseen
<1>3. unseen = {} /\ ~InLoop /\ pc = "idle"
  BY DEF LedgerInit, Init, InLoop
<1>. QED
  BY <1>2, <1>3 DEF SightLedger

Listed == Book \subseteq openSyms \cup unseen /\ openSyms \subseteq positions \cup Passed

LEMMA SightLedgerStep ==
  ASSUME TypeOK, SightLedger, [LedgerNext]_ledgerVars
  PROVE  SightLedger'
<1>1. /\ unseen \subseteq Book
      /\ InLoop => Listed
      /\ Chosen => SlotFree /\ Symbol \notin positions
      /\ CapUpToUnseen
  BY DEF SightLedger, Listed, Chosen
<1>2. unseen' \subseteq Book'
  BY <1>1, SightCases, BookFrame
<1>3. ASSUME (InLoop => Listed)', (Chosen => SlotFree /\ Symbol \notin positions)', CapUpToUnseen'
      PROVE  SightLedger'
  BY <1>2, <1>3 DEF SightLedger, Listed, Chosen
<1>4. InLoop' <=> pc' \in {"get_history", "close_position", "assess", "submit_buy"}
  <2>1. LocalsTypeOK'
    BY RecordOnly, LocalsTypeStep DEF TypeOK
  <2>. QED
    BY <2>1 DEF LocalsTypeOK, InLoop
<1>5. InLoop <=> pc \in {"get_history", "close_position", "assess", "submit_buy"}
  BY DEF TypeOK, LocalsTypeOK, InLoop
<1>6. ASSUME UNCHANGED <<spent, buys>>
      PROVE  /\ Book' = Book /\ CapUpToUnseen'
             /\ ~GetPositions => unseen' = unseen
  <2>1. Book' = Book /\ Working' = Working
    BY <1>6, BookFrame
  <2>2. ~BuyAccepted /\ ~BuyReplyLost
    <3>1. ASSUME BuyAccepted \/ BuyReplyLost PROVE FALSE
      <4>1. /\ AcceptBuy(Symbol, Notional(acct)) /\ Notional(acct) \in Nat \ {0}
            /\ Symbol \in Symbols
        BY <3>1, SeenEntry, NotionalType DEF BuyAccepted, BuyReplyLost, TypeOK, LocalsTypeOK
      <4>2. buys'[Symbol] = buys[Symbol] + Notional(acct) /\ buys[Symbol] \in Nat
        BY <4>1 DEF AcceptBuy, TypeOK, BrokerTypeOK
      <4>. QED
        BY <1>6, <4>1, <4>2
    <3>. QED
      BY <3>1
  <2>3. unseen \subseteq unseen' /\ (~GetPositions => unseen' = unseen)
    BY <1>1, <2>1, <2>2, SightCases
  <2>. QED
    BY <1>1, <2>1, <2>3, FewerFit
\* Outside the loop.
<1>7. ASSUME UNCHANGED <<spent, buys>>, ~InLoop' PROVE SightLedger'
  BY <1>3, <1>4, <1>6, <1>7 DEF Chosen
<1>8. CASE StartTick \/ GetAccount \/ GetAnchor \/ StoreAnchor \/ CheckDrawdown \/ ListPositions
             \/ SweepOne \/ StorePaused \/ RecordTick \/ AbortTick
  <2>1. UNCHANGED <<spent, buys>>
    BY <1>8 DEF StartTick, GetAccount, GetAnchor, StoreAnchor, CheckDrawdown, ListPositions,
                SweepOne, AcceptClose, StorePaused, RecordTick, AbortTick, brokerVars
  <2>2. pc' \notin {"get_history", "close_position", "assess", "submit_buy"}
    BY <1>8 DEF StartTick, GetAccount, GetAnchor, StoreAnchor, CheckDrawdown, ListPositions,
                SweepOne, StorePaused, RecordTick, AbortTick, EndTick
  <2>. QED
    BY <1>4, <1>7, <2>1, <2>2
<1>9. CASE GetPositions
  <2>1. UNCHANGED <<spent, buys>> /\ ~Chosen' /\ openSyms' = Held /\ positions' = Held
    BY <1>9 DEF GetPositions, brokerVars, Chosen
  <2>2. ~BuyReplyLost /\ ~BuyAccepted
    BY <1>9 DEF GetPositions, BuyReplyLost, BuyAccepted
  <2>3. LedgerNext
    BY <1>9 DEF GetPositions, ledgerVars, vars, tickVars
  <2>4. unseen' = (unseen \cup (Working \ Held)) \cap Book'
    BY <1>9, <2>3 DEF LedgerNext, Sight
  <2>5. Book' \subseteq openSyms' \cup unseen'
    BY <1>6, <2>1, <2>4 DEF Book
  <2>. QED
    BY <1>3, <1>6, <2>1, <2>5 DEF Listed
\* In the loop.
<1>10. ASSUME InLoop, UNCHANGED <<spent, buys, positions, openSyms>>, FinishSymbol
       PROVE  SightLedger'
  <2>1. ~Chosen' /\ (InLoop' => Passed' = Passed \cup {Symbol})
    BY <1>10, FinishPasses DEF TypeOK
  <2>2. ~GetPositions
    BY <1>5, <1>10 DEF GetPositions
  <2>3. InLoop' => Listed'
    BY <1>1, <1>6, <1>10, <2>1, <2>2 DEF Listed
  <2>. QED
    BY <1>3, <1>6, <1>10, <2>1, <2>3
<1>11. ASSUME InLoop, UNCHANGED <<spent, buys, positions, openSyms, idx>>,
              Chosen' => SlotFree /\ Symbol \notin positions
       PROVE  SightLedger'
  <2>1. ~GetPositions
    BY <1>5, <1>11 DEF GetPositions
  <2>2. Listed'
    BY <1>1, <1>6, <1>11, <2>1 DEF Listed, Passed
  <2>3. Chosen' => SlotFree' /\ Symbol' \notin positions'
    BY <1>11 DEF SlotFree, Symbol
  <2>. QED
    BY <1>3, <1>6, <1>11, <2>2, <2>3
<1>12. CASE HistoryMissing \/ ReconcileHeld \/ ClosePosition \/ SkipBuy \/ BuyRefused
  <2>1. InLoop /\ UNCHANGED <<spent, buys, positions, openSyms>>
    BY <1>5, <1>12 DEF HistoryMissing, ReconcileHeld, ClosePosition, SkipBuy, BuyRefused,
                       AcceptClose, brokerVars, loopFrame
  <2>2. FinishSymbol \/ (idx' = idx /\ pc' = "close_position")
    BY <1>12 DEF HistoryMissing, ReconcileHeld, ClosePosition, SkipBuy, BuyRefused
  <2>. QED
    BY <1>10, <1>11, <2>1, <2>2 DEF Chosen
<1>13. CASE ReconcileFlat
  <2>1. InLoop /\ UNCHANGED <<spent, buys, positions, openSyms>> /\ Symbol \notin positions
    BY <1>5, <1>13 DEF ReconcileFlat, brokerVars, loopFrame
  <2>2. FinishSymbol \/ (idx' = idx /\ pc' = "assess" /\ SlotFree)
    BY <1>13 DEF ReconcileFlat
  <2>. QED
    BY <1>10, <1>11, <2>1, <2>2
<1>14. CASE AssessNews
  <2>1. InLoop /\ UNCHANGED <<spent, buys, positions, openSyms>> /\ Chosen
    BY <1>5, <1>14 DEF AssessNews, brokerVars, loopFrame, Chosen
  <2>2. FinishSymbol \/ (idx' = idx /\ pc' = "submit_buy")
    BY <1>14 DEF AssessNews
  <2>. QED
    BY <1>1, <1>10, <1>11, <2>1, <2>2
<1>15. CASE BuyAccepted
  <2>1. InLoop /\ FinishSymbol /\ openSyms' = openSyms \cup {Symbol} /\ positions' = positions
    BY <1>5, <1>15 DEF BuyAccepted, loopFrame
  <2>2. ~Chosen' /\ (InLoop' => Passed' = Passed \cup {Symbol})
    BY <2>1, FinishPasses DEF TypeOK
  <2>3. /\ (Book \ unseen)' = (Book \ unseen) \cup {Symbol}
        /\ Book \ unseen \subseteq openSyms
    BY <1>15, SeenBuy, SeenEntry
  <2>4. Book' \subseteq openSyms' \cup unseen'
    BY <2>1, <2>3
  <2>5. InLoop' => Listed'
    BY <1>1, <2>1, <2>2, <2>4 DEF Listed
  <2>. QED
    BY <1>3, <1>15, <2>2, <2>5, SeenEntryFits
<1>16. CASE BuyReplyLost
  <2>1. InLoop /\ FinishSymbol /\ openSyms' = openSyms /\ positions' = positions
    BY <1>5, <1>16 DEF BuyReplyLost, loopFrame
  <2>2. ~Chosen' /\ (InLoop' => Passed' = Passed \cup {Symbol})
    BY <2>1, FinishPasses DEF TypeOK
  <2>3. (Book \ unseen)' = Book \ unseen /\ Book \ unseen \subseteq openSyms
    BY <1>16, SeenBuy, SeenEntry
  <2>4. Book' \subseteq openSyms' \cup unseen'
    BY <2>1, <2>3
  <2>5. InLoop' => Listed'
    BY <1>1, <2>1, <2>2, <2>4 DEF Listed
  <2>6. CapUpToUnseen'
    BY <1>1, <2>3, FewerFit
  <2>. QED
    BY <1>3, <2>2, <2>5, <2>6
<1>17. CASE Broker /\ UNCHANGED <<switchVars, tickVars, faults, swept>>
  <2>1. Book' \subseteq Book
    BY <1>17, BookShrinks DEF TypeOK
  <2>2. UNCHANGED <<pc, positions, openSyms, idx>>
    BY <1>17 DEF tickVars
  <2>3. unseen' = unseen \cap Book'
    <3>1. ~GetPositions /\ ~BuyAccepted /\ ~BuyReplyLost
      BY <2>2 DEF GetPositions, BuyAccepted, BuyReplyLost, FinishSymbol
    <3>. QED
      BY <1>1, <2>1, <3>1, SightCases, BookFrame
  <2>4. (Chosen => SlotFree /\ Symbol \notin positions)'
    BY <1>1, <2>2 DEF Chosen, SlotFree, Symbol
  <2>5. (InLoop => Listed)'
    BY <1>1, <2>1, <2>2, <2>3 DEF InLoop, Listed, Passed
  <2>6. (Book \ unseen)' \subseteq Book \ unseen
    BY <2>1, <2>3
  <2>. QED
    BY <1>1, <1>3, <2>4, <2>5, <2>6, FewerFit
<1>18. CASE UNCHANGED <<brokerVars, tickVars>>
  <2>1. UNCHANGED <<pc, positions, openSyms, idx, spent, buys>> /\ ~GetPositions
    BY <1>18 DEF tickVars, brokerVars, GetPositions
  <2>2. (Chosen => SlotFree /\ Symbol \notin positions)'
    BY <1>1, <2>1 DEF Chosen, SlotFree, Symbol
  <2>3. (InLoop => Listed)'
    BY <1>1, <1>6, <2>1 DEF InLoop, Listed, Passed
  <2>. QED
    BY <1>3, <1>6, <2>1, <2>2, <2>3
<1>. QED
  BY <1>8, <1>9, <1>12, <1>13, <1>14, <1>15, <1>16, <1>17, <1>18, RecordOnly
  DEF Next, Tick, Outside, vars

\* The cap is exceeded by orders that no tick could see and by nothing else,
\* in every fault model.
THEOREM CapHoldsUpToUnseen == LedgerSpec => []CapUpToUnseen
<1>1. TypeOK /\ SightLedger /\ [LedgerNext]_ledgerVars => SightLedger'
  BY SightLedgerStep
<1>2. SightLedger => CapUpToUnseen
  BY DEF SightLedger
<1>. QED
  BY <1>1, <1>2, SightLedgerInit, Typing, LedgerIsTick, PTL DEF LedgerSpec

\* A buy on top of an earlier order is a buy on top of an unseen one, and any
\* other makes of its symbol at most its share of equity.
THEOREM SizeHoldsUpToUnseen == LedgerSpec => SizeUpToUnseen
<1>1. TypeOK /\ SightLedger /\ [LedgerNext]_ledgerVars => SightLedger'
  BY SightLedgerStep
<1>2. TypeOK /\ SightLedger /\ [LedgerNext]_ledgerVars =>
        [\A s \in Symbols :
           buys'[s] > buys[s] /\ s \notin unseen =>
             s \notin Book /\ (spent'[s] + buys'[s]) * 100 <= MaxPositionPct * acct.equity]_ledgerVars
  <2>. SUFFICES ASSUME TypeOK, SightLedger, LedgerNext,
                       NEW s \in Symbols, buys'[s] > buys[s], s \notin unseen
                PROVE  s \notin Book /\ (spent'[s] + buys'[s]) * 100 <= MaxPositionPct * acct.equity
    OBVIOUS
  <2>1. BuyAccepted \/ BuyReplyLost
    BY OnlyEntriesBuy DEF TypeOK, LedgerNext
  <2>2. AcceptBuy(Symbol, Notional(acct)) /\ ~Dust(Notional(acct))
    BY <2>1 DEF BuyAccepted, BuyReplyLost
  <2>3. Symbol \in Symbols /\ (Symbol \in Book => Symbol \in unseen)
    BY <2>1, SeenEntry
  <2>4. s = Symbol
    BY <2>2 DEF AcceptBuy, TypeOK, BrokerTypeOK
  <2>. QED
    BY <2>2, <2>3, <2>4, BuySize
<1>. QED
  BY <1>1, <1>2, SightLedgerInit, Typing, LedgerIsTick, PTL DEF LedgerSpec, SizeUpToUnseen

-----------------------------------------------------------------------------
(* What the ticks see keeps the gate. *)

LEMMA SeenGateInit == LedgerInit => SeenGate!Init
<1>. SUFFICES ASSUME LedgerInit PROVE SeenGate!Init
  OBVIOUS
<1>1. day = 0
  BY DEF LedgerInit, Init, KillSwitchInit
<1>2. ~IsPaused(day) /\ IsPaused(day) \in BOOLEAN
  BY KillSwitchAssumption DEF LedgerInit, Init, KillSwitchInit, IsPaused, Days
<1>3. Book \ unseen = {}
  BY DEF LedgerInit, Init, BrokerInit, Book, Held, Working
<1>4. IsPaused(day) = FALSE
  BY <1>2, Zenon
<1>. QED
  BY <1>1, <1>3, <1>4 DEF SeenGate!Init

\* Every step is a step of the gate on the book that is seen, or one it does not see.
LEMMA SeenGateStep ==
  ASSUME TypeOK, PauseKeys, PauseFlag, SightLedger, [LedgerNext]_ledgerVars
  PROVE  SeenGate!Next \/ UNCHANGED SeenGate!gateVars
<1>1. IsPaused(day) \in BOOLEAN /\ IsPaused(day)' \in BOOLEAN
  BY DEF IsPaused
<1>2. CASE BuyAccepted
  <2>1. /\ Symbol \in Symbols /\ Symbol \notin Book \ unseen
        /\ (Book \ unseen)' = (Book \ unseen) \cup {Symbol}
        /\ Book \ unseen \subseteq openSyms /\ IsFiniteSet(openSyms)
        /\ Cardinality(openSyms) < MaxOpenPositions
    BY <1>2, SeenEntry, SeenBuy
  <2>2. Cardinality(Book \ unseen) < MaxOpenPositions
    <3>1. /\ Cardinality(Book \ unseen) <= Cardinality(openSyms)
          /\ Cardinality(openSyms) \in Nat /\ Cardinality(Book \ unseen) \in Nat
      BY <2>1, SeenFinite, FS_Subset, FS_CardinalityType
    <3>. QED
      BY <2>1, <3>1, TrendTickAssumption
  <2>3. pc = "submit_buy" /\ day' = day /\ paused' = paused
    BY <1>2 DEF BuyAccepted, loopFrame, switchVars
  <2>4. ~IsPaused(day)
    <3>1. ~ddPaused /\ Decided
      BY <2>3 DEF PauseFlag, TypeOK, LocalsTypeOK, Decided, InLoop
    <3>2. ~IsPaused(tickDay)
      BY <3>1, Zenon DEF PauseFlag
    <3>3. IsPaused(day) => day = tickDay
      BY <2>3 DEF PauseKeys, TypeOK, KillSwitchTypeOK, LocalsTypeOK, Days
    <3>. QED
      BY <3>2, <3>3
  <2>5. IsPaused(day)' = IsPaused(day)
    BY <2>3 DEF IsPaused
  <2>6. SeenGate!Cardinality(Book \ unseen) = Cardinality(Book \ unseen)
    BY Zenon DEF SeenGate!Cardinality, Cardinality
  <2>7. SeenGate!Enter(Symbol)
    BY <2>1, <2>2, <2>3, <2>4, <2>5, <2>6 DEF SeenGate!Enter
  <2>. QED
    BY <2>1, <2>7 DEF SeenGate!Next
<1>3. ASSUME ~BuyAccepted PROVE (Book \ unseen)' \subseteq Book \ unseen
  <2>1. unseen \subseteq Book
    BY DEF SightLedger
  <2>2. CASE BuyReplyLost
    BY <2>2, SeenBuy
  <2>3. CASE GetPositions /\ unseen' = (unseen \cup (Working \ Held)) \cap Book'
    <3>1. Book' = Book
      BY <2>3, BookFrame DEF GetPositions, brokerVars
    <3>. QED
      BY <2>1, <2>3, <3>1
  <2>4. CASE Broker /\ unseen' = unseen \cap Book'
    BY <2>4, BookShrinks DEF TypeOK
  <2>5. CASE UNCHANGED <<spent, buys>> /\ unseen' = unseen
    BY <2>5, BookFrame
  <2>. QED
    BY <1>3, <2>1, <2>2, <2>3, <2>4, <2>5, SightCases
\* Symbols may leave at any time.
<1>4. ASSUME ~BuyAccepted, day' = day, IsPaused(day)' = IsPaused(day)
      PROVE  SeenGate!Next
  <2>1. SeenGate!Leave((Book \ unseen) \ (Book \ unseen)')
    BY <1>3, <1>4 DEF SeenGate!Leave
  <2>. QED
    BY <2>1 DEF SeenGate!Next
<1>5. CASE BuyReplyLost \/ (Broker /\ UNCHANGED <<switchVars, tickVars, faults, swept>>)
  <2>1. day' = day /\ IsPaused(day)' = IsPaused(day)
    BY <1>5 DEF BuyReplyLost, loopFrame, switchVars, IsPaused
  <2>. QED
    BY <1>2, <1>4, <2>1
<1>6. CASE UNCHANGED <<spent, buys>>
  <2>1. Book' = Book /\ unseen \subseteq Book
    BY <1>6, BookFrame DEF SightLedger
  <2>2. CASE day' = day /\ (IsPaused(day)' = IsPaused(day))
    BY <1>2, <1>4, <2>2
  <2>3. CASE ~GetPositions /\ ~BuyAccepted /\ ~BuyReplyLost
    <3>1. (Book \ unseen)' = Book \ unseen
      BY <2>1, <2>3, SightCases
    <3>2. CASE StorePaused /\ day' = day /\ IsPaused(day)'
      <4>1. IsPaused(day)' = TRUE
        BY <1>1, <3>2, Zenon
      <4>2. IsPaused(day) => IsPaused(day)' = IsPaused(day)
        BY <1>1, <4>1, Zenon
      <4>3. CASE IsPaused(day)
        BY <1>2, <1>4, <2>3, <3>2, <4>2, <4>3
      <4>4. CASE ~IsPaused(day)
        <5>1. SeenGate!Halt
          BY <3>1, <3>2, <4>1, <4>4 DEF SeenGate!Halt
        <5>. QED
          BY <5>1 DEF SeenGate!Next
      <4>. QED
        BY <4>3, <4>4
    <3>3. CASE HourPasses /\ day' = day + 1 /\ day < MaxDay /\ ~IsPaused(day)'
      <4>1. IsPaused(day)' = FALSE
        BY <1>1, <3>3, Zenon
      <4>2. SeenGate!NewDay
        BY <3>1, <3>3, <4>1 DEF SeenGate!NewDay
      <4>. QED
        BY <4>2 DEF SeenGate!Next
    <3>. QED
      BY <2>2, <3>2, <3>3, FlagStep, RecordOnly
  <2>4. CASE GetPositions \/ BuyAccepted \/ BuyReplyLost
    <3>1. day' = day /\ IsPaused(day)' = IsPaused(day)
      BY <2>4 DEF GetPositions, BuyAccepted, BuyReplyLost, loopFrame, switchVars, IsPaused
    <3>. QED
      BY <1>2, <1>4, <3>1
  <2>. QED
    BY <2>3, <2>4
<1>. QED
  BY <1>2, <1>5, <1>6, BookStep, RecordOnly DEF TypeOK

\* However late orders fill and whatever is lost, run_tick implements the daily
\* gate for all of the book that its lists show it.
THEOREM TickImplementsSeenGate == LedgerSpec => ImplementsSeenGate
<1>1. LedgerInit => SeenGate!Init /\ PauseKeys /\ PauseFlag /\ SightLedger
  BY SeenGateInit, PauseKeysInit, PauseFlagInit, SightLedgerInit DEF LedgerInit
<1>2. TypeOK /\ PauseKeys /\ PauseFlag /\ SightLedger /\ [LedgerNext]_ledgerVars =>
        (PauseKeys /\ PauseFlag /\ SightLedger)'
  BY PauseKeysStep, PauseFlagStep, SightLedgerStep, RecordOnly
<1>3. TypeOK /\ PauseKeys /\ PauseFlag /\ SightLedger /\ [LedgerNext]_ledgerVars
        => [SeenGate!Next]_(SeenGate!gateVars)
  BY SeenGateStep
<1>. QED
  BY <1>1, <1>2, <1>3, Typing, LedgerIsTick, PTL DEF LedgerSpec, ImplementsSeenGate, SeenGate!Spec

-----------------------------------------------------------------------------
(* A tick that knows of the pause. *)

\* The excuses, action by action.
LEMMA ExcuseCases ==
  ASSUME LocalsTypeOK, [LedgerNext]_ledgerVars, pc' # "idle"
  PROVE  /\ GetPositions => excused' = Working
         /\ HistoryMissing => Symbol \in excused'
         /\ ClosePosition /\ faults' # faults => Symbol \in excused'
         /\ ~GetPositions => excused \subseteq excused'
<1>1. CASE UNCHANGED ledgerVars
  <2>1. UNCHANGED <<pc, idx, excused, faults>>
    BY <1>1 DEF ledgerVars, vars, tickVars
  <2>2. ~GetPositions
    BY <2>1 DEF GetPositions
  <2>3. ~HistoryMissing
    <3>1. faults \in Nat
      BY ConstantTypes DEF LocalsTypeOK
    <3>. QED
      BY <2>1, <3>1 DEF HistoryMissing, Fault
  <2>. QED
    BY <2>1, <2>2, <2>3
<1>2. CASE LedgerNext
  <2>1. GetPositions => ~HistoryMissing /\ ~ClosePosition
    BY DEF GetPositions, HistoryMissing, ClosePosition
  <2>. QED
    BY <1>2, <2>1 DEF LedgerNext, Missed
<1>. QED
  BY <1>1, <1>2

AfterRead == InLoop \/ pc = "record_tick"

LEMMA WhereAfterRead ==
  ASSUME LocalsTypeOK
  PROVE  /\ InLoop <=> pc \in {"get_history", "close_position", "assess", "submit_buy"}
         /\ AfterRead <=> pc \in {"get_history", "close_position", "assess", "submit_buy",
                                 "record_tick"}
BY DEF LocalsTypeOK, Calls, InLoop, AfterRead

\* What the loop leaves behind it is the symbol it was at.
LEMMA FinishLeaves ==
  ASSUME LocalsTypeOK, InLoop, FinishSymbol
  PROVE  /\ InLoop' => ToCome \subseteq {Symbol} \cup ToCome'
         /\ ~InLoop' => ToCome \subseteq {Symbol}
<1>1. idx \in 1 .. Len(Watchlist) /\ Len(Watchlist) \in Nat
  BY WatchlistType DEF LocalsTypeOK, InLoop
<1>2. CASE idx < Len(Watchlist)
  <2>1. idx' = idx + 1 /\ InLoop'
    BY <1>1, <1>2 DEF FinishSymbol, InLoop
  <2>2. ToCome \subseteq {Symbol} \cup ToCome'
    BY <1>1, <2>1 DEF ToCome, Symbol
  <2>. QED
    BY <2>1, <2>2
<1>3. CASE ~(idx < Len(Watchlist))
  <2>1. idx' = 0 /\ idx = Len(Watchlist) /\ ~InLoop'
    BY <1>1, <1>3 DEF FinishSymbol, InLoop
  <2>2. ToCome \subseteq {Symbol}
    BY <1>1, <2>1 DEF ToCome, Symbol
  <2>. QED
    BY <2>1, <2>2
<1>. QED
  BY <1>2, <1>3

\* What the broker does to the positions: a new one was an order, and one that
\* is no longer being closed is gone.
LEMMA BrokerHolds ==
  ASSUME BrokerTypeOK, Broker
  PROVE  /\ Working' \subseteq Working
         /\ Held' \subseteq Held \cup Working
         /\ \A s \in Held' : s \in closing => s \in closing'
<1>. USE DEF BrokerTypeOK, Held, Working
<1>1. CASE MarketMoves \/ OthersTrade
  BY <1>1 DEF MarketMoves, OthersTrade
<1>2. ASSUME NEW s \in Symbols, FillBuy(s)
      PROVE  Working' \subseteq Working /\ Held' \subseteq Held \cup Working /\ closing' = closing
  BY <1>2 DEF FillBuy
<1>3. ASSUME NEW s \in Symbols, LapseBuy(s)
      PROVE  Working' \subseteq Working /\ Held' \subseteq Held /\ closing' = closing
  BY <1>3 DEF LapseBuy
<1>4. ASSUME NEW s \in Symbols, FillClose(s)
      PROVE  /\ Working' \subseteq Working /\ Held' \subseteq Held
             /\ s \notin Held' /\ closing' = closing \ {s}
  BY <1>4 DEF FillClose
<1>. QED
  BY <1>1, <1>2, <1>3, <1>4 DEF Broker

LEMMA PausedLoopInit == LedgerInit => PausedLoop
<1>. SUFFICES ASSUME LedgerInit PROVE PausedLoop
  OBVIOUS
<1>1. Book = {}
  BY DEF LedgerInit, Init, BrokerInit, Book, Held, Working
<1>2. ~InLoop /\ pc = "idle"
  BY DEF LedgerInit, Init, InLoop
<1>. QED
  BY <1>1, <1>2 DEF PausedLoop, PausedTickSells

\* The book is of the watchlist, as only its symbols are bought.
LEMMA OwnBookStep ==
  ASSUME TypeOK, SightLedger, PausedLoop, [LedgerNext]_ledgerVars
  PROVE  Book' \subseteq {Watchlist[j] : j \in 1 .. Len(Watchlist)}
<1>1. Book \subseteq {Watchlist[j] : j \in 1 .. Len(Watchlist)}
  BY DEF PausedLoop
<1>2. CASE BuyAccepted \/ BuyReplyLost
  <2>1. Book' = Book \cup {Symbol} /\ pc = "submit_buy"
    BY <1>2, SeenEntry DEF BuyAccepted, BuyReplyLost
  <2>2. idx \in 1 .. Len(Watchlist)
    BY <2>1, EntrySymbol DEF TypeOK, LocalsTypeOK
  <2>. QED
    BY <1>1, <2>1, <2>2 DEF Symbol
<1>3. CASE Broker
  BY <1>1, <1>3, BookShrinks DEF TypeOK
<1>4. CASE UNCHANGED <<spent, buys>>
  BY <1>1, <1>4, BookFrame
<1>. QED
  BY <1>2, <1>3, <1>4, BookStep, RecordOnly DEF TypeOK

LEMMA PausedLoopStep ==
  ASSUME TypeOK, PauseFlag, SightLedger, PausedLoop, [LedgerNext]_ledgerVars
  PROVE  PausedLoop'
<1>1. /\ AfterRead /\ ddPaused => Working \subseteq excused
      /\ InLoop /\ ddPaused => Held \subseteq positions \cup excused
      /\ InLoop /\ ddPaused => Held \subseteq closing \cup excused \cup ToCome
      /\ AfterRead /\ ~InLoop /\ ddPaused => Held \subseteq closing \cup excused
  BY Zenon DEF PausedLoop, AfterRead, PausedTickSells
<1>2. LocalsTypeOK /\ LocalsTypeOK'
  BY RecordOnly, LocalsTypeStep DEF TypeOK
<1>3. /\ InLoop <=> pc \in {"get_history", "close_position", "assess", "submit_buy"}
      /\ AfterRead <=> pc \in {"get_history", "close_position", "assess", "submit_buy",
                              "record_tick"}
  BY <1>2, WhereAfterRead
<1>4. /\ InLoop' <=> pc' \in {"get_history", "close_position", "assess", "submit_buy"}
      /\ AfterRead' <=> pc' \in {"get_history", "close_position", "assess", "submit_buy",
                               "record_tick"}
  BY <1>2, WhereAfterRead DEF LocalsTypeOK, Calls, InLoop, AfterRead
<1>5. ASSUME AfterRead' /\ ddPaused' =>
               /\ Working' \subseteq excused'
               /\ InLoop' => /\ Held' \subseteq positions' \cup excused'
                             /\ Held' \subseteq closing' \cup excused' \cup ToCome'
               /\ ~InLoop' => Held' \subseteq closing' \cup excused'
      PROVE  PausedLoop'
  <2>1. /\ InLoop' => AfterRead'
        /\ pc' = "record_tick" => AfterRead' /\ ~InLoop'
        /\ AfterRead' <=> InLoop' \/ pc' = "record_tick"
    BY <1>4
  <2>2. (Book \subseteq {Watchlist[j] : j \in 1 .. Len(Watchlist)})'
    BY OwnBookStep
  <2>3. ((InLoop \/ pc = "record_tick") /\ ddPaused => Working \subseteq excused)'
    BY <1>5, <2>1
  <2>4. (InLoop /\ ddPaused =>
          /\ Held \subseteq positions \cup excused
          /\ Held \subseteq closing \cup excused \cup ToCome)'
    BY <1>5, <2>1
  <2>5. PausedTickSells'
    BY <1>5, <2>1 DEF PausedTickSells
  <2>. QED
    BY <2>2, <2>3, <2>4, <2>5 DEF PausedLoop
<1>6. ASSUME ~AfterRead' \/ ddPaused' = FALSE PROVE PausedLoop'
  BY <1>5, <1>6
<1>7. CASE StartTick \/ GetAccount \/ GetAnchor \/ StoreAnchor \/ CheckDrawdown \/ ListPositions
             \/ SweepOne \/ StorePaused \/ RecordTick \/ AbortTick
  <2>1. pc' \notin {"get_history", "close_position", "assess", "submit_buy", "record_tick"}
    BY <1>7 DEF StartTick, GetAccount, GetAnchor, StoreAnchor, CheckDrawdown, ListPositions,
                SweepOne, StorePaused, RecordTick, AbortTick, EndTick
  <2>. QED
    BY <1>4, <1>6, <2>1
<1>8. CASE GetPositions
  <2>1. /\ UNCHANGED <<spent, buys>> /\ positions' = Held /\ idx' = 1
        /\ pc' = "get_history"
    BY <1>8 DEF GetPositions, brokerVars
  <2>2. Held' = Held /\ Working' = Working
    BY <2>1 DEF Held, Working
  <2>3. excused' = Working
    BY <1>2, <1>8, <2>1, ExcuseCases
  <2>4. ToCome' = {Watchlist[j] : j \in 1 .. Len(Watchlist)}
    BY <2>1 DEF ToCome
  <2>5. Held \subseteq ToCome'
    BY <2>4 DEF PausedLoop, Book
  <2>. QED
    BY <1>4, <1>5, <2>1, <2>2, <2>3, <2>5
\* A tick that knows of the pause has no candidates.
<1>9. CASE AssessNews \/ SkipBuy \/ BuyAccepted \/ BuyRefused \/ BuyReplyLost
  <2>1. pc \in {"assess", "submit_buy"} /\ ddPaused' = ddPaused
    BY <1>9 DEF AssessNews, SkipBuy, BuyAccepted, BuyRefused, BuyReplyLost, loopFrame
  <2>2. ~ddPaused'
    BY <2>1 DEF PauseFlag
  <2>. QED
    BY <1>5, <2>2
\* The loop leaves a symbol that is flat, or being sold, or that it missed.
<1>10. ASSUME InLoop, UNCHANGED <<spent, buys, positions, ddPaused>>, closing \subseteq closing',
              excused \subseteq excused', FinishSymbol,
              ddPaused => Symbol \notin Held \/ Symbol \in closing' \cup excused'
       PROVE  PausedLoop'
  <2>1. Held' = Held /\ Working' = Working
    BY <1>10 DEF Held, Working
  <2>2. /\ InLoop' => ToCome \subseteq {Symbol} \cup ToCome'
        /\ ~InLoop' => ToCome \subseteq {Symbol}
    BY <1>2, <1>10, FinishLeaves
  <2>3. AfterRead
    BY <1>10 DEF AfterRead
  <2>. QED
    BY <1>1, <1>5, <1>10, <2>1, <2>2, <2>3
<1>11. ASSUME InLoop, UNCHANGED <<spent, buys, closing, positions, idx, ddPaused>>,
              excused \subseteq excused', InLoop'
       PROVE  PausedLoop'
  <2>1. Held' = Held /\ Working' = Working /\ ToCome' = ToCome
    BY <1>11 DEF Held, Working, ToCome
  <2>2. AfterRead
    BY <1>11 DEF AfterRead
  <2>. QED
    BY <1>1, <1>5, <1>11, <2>1, <2>2
<1>12. CASE HistoryMissing
  <2>1. /\ pc = "get_history" /\ pc' # "idle" /\ FinishSymbol
        /\ UNCHANGED <<spent, buys, closing, positions, ddPaused>>
    BY <1>12 DEF HistoryMissing, FinishSymbol, brokerVars, loopFrame
  <2>2. excused \subseteq excused' /\ Symbol \in excused'
    BY <1>2, <1>12, <2>1, ExcuseCases DEF GetPositions
  <2>. QED
    BY <1>3, <1>10, <2>1, <2>2
<1>13. CASE ReconcileHeld
  <2>1. /\ pc = "get_history" /\ UNCHANGED <<spent, buys, closing, positions, ddPaused>>
        /\ (pc' = "close_position" /\ idx' = idx) \/ (FinishSymbol /\ ~ddPaused)
        /\ pc' # "idle"
    BY <1>13 DEF ReconcileHeld, WantLong, FinishSymbol, brokerVars, loopFrame
  <2>2. excused \subseteq excused'
    BY <1>2, <2>1, ExcuseCases DEF GetPositions
  <2>. QED
    BY <1>3, <1>4, <1>10, <1>11, <2>1, <2>2
<1>14. CASE ReconcileFlat
  <2>1. /\ pc = "get_history" /\ UNCHANGED <<spent, buys, closing, positions, ddPaused>>
        /\ (pc' = "assess" /\ ~ddPaused) \/ FinishSymbol
        /\ pc' # "idle" /\ Symbol \notin positions
    BY <1>14 DEF ReconcileFlat, WantLong, FinishSymbol, brokerVars, loopFrame
  <2>2. excused \subseteq excused'
    BY <1>2, <2>1, ExcuseCases DEF GetPositions
  <2>3. ddPaused => Symbol \notin Held \/ Symbol \in excused'
    BY <1>1, <1>3, <2>1, <2>2
  <2>. QED
    BY <1>3, <1>5, <1>10, <2>1, <2>2, <2>3
<1>15. CASE ClosePosition
  <2>1. /\ pc = "close_position" /\ UNCHANGED <<spent, buys, positions, ddPaused>>
        /\ FinishSymbol /\ pc' # "idle" /\ closing \subseteq closing'
        /\ \/ Symbol \in closing' \/ Symbol \notin Held \ closing
           \/ faults' = faults + 1
    BY <1>15 DEF ClosePosition, Closable, AcceptClose, Fault, FinishSymbol, brokerVars, loopFrame
  <2>2. excused \subseteq excused' /\ (faults' # faults => Symbol \in excused')
    BY <1>2, <1>15, <2>1, ExcuseCases DEF GetPositions
  <2>3. faults \in Nat
    BY <1>2, ConstantTypes DEF LocalsTypeOK
  <2>. QED
    BY <1>3, <1>10, <2>1, <2>2, <2>3
<1>16. CASE Broker /\ UNCHANGED <<switchVars, tickVars, faults, swept>>
  <2>1. /\ UNCHANGED <<pc, positions, idx, ddPaused>>
        /\ Working' \subseteq Working /\ Held' \subseteq Held \cup Working
        /\ \A s \in Held' : s \in closing => s \in closing'
    BY <1>16, BrokerHolds DEF TypeOK, tickVars
  <2>2. ~GetPositions /\ (AfterRead' <=> AfterRead) /\ (InLoop' <=> InLoop) /\ ToCome' = ToCome
    BY <2>1 DEF GetPositions, AfterRead, InLoop, ToCome
  <2>3. AfterRead' => excused \subseteq excused'
    BY <1>2, <1>4, <2>2, ExcuseCases
  <2>. QED
    BY <1>1, <1>5, <2>1, <2>2, <2>3 DEF AfterRead
<1>17. CASE UNCHANGED <<brokerVars, tickVars>>
  <2>1. UNCHANGED <<pc, positions, idx, ddPaused, spent, buys, closing>>
    BY <1>17 DEF tickVars, brokerVars
  <2>2. /\ ~GetPositions /\ (AfterRead' <=> AfterRead) /\ (InLoop' <=> InLoop)
        /\ ToCome' = ToCome /\ Held' = Held /\ Working' = Working
    BY <2>1 DEF GetPositions, AfterRead, InLoop, ToCome, Held, Working
  <2>3. AfterRead' => excused \subseteq excused'
    BY <1>2, <1>4, <2>2, ExcuseCases
  <2>. QED
    BY <1>1, <1>5, <2>1, <2>2, <2>3 DEF AfterRead
<1>. QED
  BY <1>7, <1>8, <1>9, <1>12, <1>13, <1>14, <1>15, <1>16, <1>17, RecordOnly
  DEF Next, Tick, Outside, vars

\* On a paused day a tick that comes to its end leaves every position sold or
\* being sold, but for the orders, histories and closes it could do nothing about.
THEOREM PausedTickSellsAll == LedgerSpec => []PausedTickSells
<1>1. LedgerInit => PauseKeys /\ PauseFlag /\ SightLedger /\ PausedLoop
  BY PauseKeysInit, PauseFlagInit, SightLedgerInit, PausedLoopInit DEF LedgerInit
<1>2. TypeOK /\ PauseKeys /\ PauseFlag /\ SightLedger /\ PausedLoop /\ [LedgerNext]_ledgerVars =>
        (PauseKeys /\ PauseFlag /\ SightLedger /\ PausedLoop)'
  BY PauseKeysStep, PauseFlagStep, SightLedgerStep, PausedLoopStep, RecordOnly
<1>3. PausedLoop => PausedTickSells
  BY DEF PausedLoop
<1>. QED
  BY <1>1, <1>2, <1>3, Typing, LedgerIsTick, PTL DEF LedgerSpec

-----------------------------------------------------------------------------
(* What a tick may spend. *)

LEMMA ClaimCases ==
  ASSUME LedgerNext
  PROVE  /\ GetAccount /\ ~claimed' => ~(reserved > 0)
         /\ BuyAccepted \/ BuyReplyLost => claimed'
         /\ ~claimed' => \/ ~claimed /\ ~OthersTake
                         \/ GetAccount \/ BuyAccepted \/ BuyReplyLost
                         \/ pc' \in {"idle", "get_account"}
<1>1. BuyAccepted \/ BuyReplyLost => ~GetAccount /\ pc' \notin {"idle", "get_account"}
  BY DEF BuyAccepted, BuyReplyLost, GetAccount, FinishSymbol
<1>. QED
  BY <1>1 DEF LedgerNext, Claim

LEMMA NotLess ==
  ASSUME NEW c \in Int, NEW r \in Int, NEW c1 \in Int, NEW r1 \in Int, ~(c1 - r1 < c - r)
  PROVE  c - r <= c1 - r1
OBVIOUS

\* Fills, lapses and sales leave at least as much to spend as before; only another
\* agent takes of it.
LEMMA MeansLast ==
  ASSUME BrokerTypeOK, Broker, ~OthersTake, cash' \in Int, reserved' \in Int
  PROVE  cash - reserved <= cash' - reserved'
<1>1. cash \in Int /\ reserved \in Int
  BY DEF BrokerTypeOK
<1>2. CASE OthersTrade
  <2>1. ~(cash' - reserved' < cash - reserved)
    BY <1>2, Zenon DEF OthersTake
  <2>. QED
    BY <1>1, <2>1, NotLess, Zenon
<1>3. CASE MarketMoves
  BY <1>1, <1>3 DEF MarketMoves
<1>4. ASSUME NEW s \in Symbols, FillBuy(s) \/ LapseBuy(s) \/ FillClose(s)
      PROVE  cash - reserved <= cash' - reserved'
  <2>1. buys[s] \in Nat /\ spent[s] \in Nat
    BY DEF BrokerTypeOK
  <2>2. CASE FillBuy(s)
    BY <1>1, <2>1, <2>2 DEF FillBuy
  <2>3. CASE LapseBuy(s)
    BY <1>1, <2>1, <2>3 DEF LapseBuy
  <2>4. CASE FillClose(s)
    BY <1>1, <2>1, <2>4 DEF FillClose
  <2>. QED
    BY <1>4, <2>2, <2>3, <2>4
<1>. QED
  BY <1>2, <1>3, <1>4 DEF Broker

LEMMA StillEnough ==
  ASSUME NEW c \in Int, NEW r \in Int, NEW c1 \in Int, NEW r1 \in Int, NEW a \in Int,
         c - r <= c1 - r1, a <= c - r
  PROVE  a <= c1 - r1
OBVIOUS

LEMMA CashLastsStep ==
  ASSUME TypeOK, CashLasts, [LedgerNext]_ledgerVars
  PROVE  CashLasts'
<1>1. cash \in Int /\ reserved \in Int /\ acct.cash \in Int
  BY DEF TypeOK, BrokerTypeOK, LocalsTypeOK
<1>2. CASE GetAccount
  <2>1. LedgerNext
    BY <1>2 DEF GetAccount, ledgerVars, vars, tickVars
  <2>2. ~claimed' => reserved <= 0
    BY <1>1, <1>2, <2>1, ClaimCases
  <2>3. acct'.cash = cash /\ UNCHANGED <<cash, reserved>>
    BY <1>2 DEF GetAccount, brokerVars
  <2>. QED
    BY <1>1, <2>2, <2>3 DEF CashLasts
<1>3. CASE BuyAccepted \/ BuyReplyLost
  <2>1. LedgerNext
    <3>1. pc = "submit_buy" /\ pc' # "submit_buy"
      BY <1>3 DEF BuyAccepted, BuyReplyLost, FinishSymbol
    <3>. QED
      BY <3>1 DEF ledgerVars, vars, tickVars
  <2>. QED
    BY <1>3, <2>1, ClaimCases DEF CashLasts
\* Nothing is claimed, nothing is read again, and the means do not shrink.
<1>4. ASSUME ~GetAccount, ~BuyAccepted, ~BuyReplyLost, acct' = acct,
             cash - reserved <= cash' - reserved', cash' \in Int, reserved' \in Int,
             pc \in {"idle", "get_account"} => pc' \in {"idle", "get_account"}
      PROVE  CashLasts'
  <2>1. pc' \notin {"idle", "get_account"} /\ ~claimed' => ~claimed
    <3>1. CASE LedgerNext
      BY <1>4, <3>1, ClaimCases, Zenon
    <3>2. CASE UNCHANGED ledgerVars
      BY <3>2, Zenon DEF ledgerVars
    <3>. QED
      BY <3>1, <3>2
  <2>2. pc' \notin {"idle", "get_account"} => pc \notin {"idle", "get_account"}
    BY <1>4
  <2>3. pc' \notin {"idle", "get_account"} /\ ~claimed' => acct.cash <= cash - reserved
    BY <2>1, <2>2, Zenon DEF CashLasts
  <2>4. acct.cash <= cash - reserved => acct'.cash <= cash' - reserved'
    BY <1>1, <1>4, StillEnough, Zenon
  <2>. QED
    BY <2>3, <2>4, Zenon DEF CashLasts
<1>5. CASE StartTick \/ RecordTick \/ AbortTick
  BY <1>5 DEF StartTick, RecordTick, AbortTick, EndTick, CashLasts
<1>6. CASE GetAnchor \/ StoreAnchor \/ CheckDrawdown \/ ListPositions \/ SweepOne \/ StorePaused
             \/ GetPositions
  <2>1. UNCHANGED <<cash, reserved, acct>> /\ pc \notin {"idle", "get_account", "submit_buy"}
    BY <1>6 DEF GetAnchor, StoreAnchor, CheckDrawdown, ListPositions, SweepOne, AcceptClose,
                StorePaused, GetPositions, brokerVars
  <2>. QED
    BY <1>1, <1>4, <2>1 DEF GetAccount, BuyAccepted, BuyReplyLost
<1>7. CASE HistoryMissing \/ ReconcileHeld \/ ReconcileFlat \/ ClosePosition \/ AssessNews
             \/ SkipBuy \/ BuyRefused
  <2>1. /\ UNCHANGED <<cash, reserved, acct>>
        /\ pc \in {"get_history", "close_position", "assess", "submit_buy"}
    BY <1>7 DEF HistoryMissing, ReconcileHeld, ReconcileFlat, ClosePosition, AcceptClose,
                AssessNews, SkipBuy, BuyRefused, brokerVars, loopFrame
  <2>2. CASE BuyAccepted \/ BuyReplyLost
    BY <1>3, <2>2
  <2>. QED
    BY <1>1, <1>4, <2>1, <2>2 DEF GetAccount
<1>8. CASE Broker /\ UNCHANGED <<switchVars, tickVars, faults, swept>>
  <2>1. cash' \in Int /\ reserved' \in Int
    BY RecordOnly, BrokerTypeStep DEF TypeOK, BrokerTypeOK
  <2>2. UNCHANGED <<pc, acct>>
    BY <1>8 DEF tickVars
  <2>3. CASE GetAccount \/ BuyAccepted \/ BuyReplyLost
    BY <1>2, <1>3, <2>3
  <2>4. ASSUME OthersTake, ~GetAccount, ~BuyAccepted, ~BuyReplyLost PROVE CashLasts'
    <3>1. CASE LedgerNext
      BY <2>2, <2>4, <3>1, ClaimCases, Zenon DEF CashLasts
    <3>2. CASE UNCHANGED ledgerVars
      BY <1>1, <2>4, <3>2 DEF ledgerVars, vars, brokerVars, OthersTake
    <3>. QED
      BY <3>1, <3>2
  <2>5. ASSUME ~OthersTake, ~GetAccount, ~BuyAccepted, ~BuyReplyLost PROVE CashLasts'
    <3>1. cash - reserved <= cash' - reserved'
      BY <1>8, <2>1, <2>5, MeansLast DEF TypeOK
    <3>. QED
      BY <1>4, <2>1, <2>2, <2>5, <3>1
  <2>. QED
    BY <2>3, <2>4, <2>5
<1>9. CASE UNCHANGED <<brokerVars, tickVars>>
  <2>1. UNCHANGED <<cash, reserved, acct, pc>>
    BY <1>9 DEF brokerVars, tickVars
  <2>2. CASE GetAccount \/ BuyAccepted \/ BuyReplyLost
    BY <1>2, <1>3, <2>2
  <2>. QED
    BY <1>1, <1>4, <2>1, <2>2
<1>. QED
  BY <1>2, <1>3, <1>5, <1>6, <1>7, <1>8, <1>9, RecordOnly DEF Next, Tick, Outside, vars

LEMMA ShareOfCash ==
  ASSUME NEW p \in 0 .. 100, NEW c \in Int, (p * c) \div 100 > 0
  PROVE  (p * c) \div 100 <= c
<1>1. p * c \in Int /\ ((p * c) \div 100) * 100 <= p * c
  BY PercentRoundsDown
<1>2. c > 0
  <2>1. c <= 0 => p * c <= 0
    OBVIOUS
  <2>. QED
    BY <1>1, <2>1
<1>3. p * c <= 100 * c
  BY <1>2
<1>. QED
  BY <1>1, <1>3

\* An order that is not dust is within the cash it was sized from.
LEMMA OrderFits ==
  ASSUME TypeOK, ~Dust(Notional(acct))
  PROVE  Notional(acct) \in Int /\ Notional(acct) <= acct.cash
<1>1. acct.cash \in Int /\ Notional(acct) \in Nat \ {0}
  BY NotionalType DEF TypeOK, LocalsTypeOK
<1>2. Notional(acct) <= Spendable(acct) /\ Spendable(acct) \in Int
  <2>1. Target(acct) \in Int /\ Spendable(acct) \in Int
    BY TrendTickAssumption DEF Target, Spendable, TypeOK, LocalsTypeOK
  <2>. QED
    BY <2>1 DEF Notional
<1>3. Spendable(acct) > 0
  BY <1>1, <1>2
<1>4. Spendable(acct) <= acct.cash
  BY <1>1, <1>3, ShareOfCash, TrendTickAssumption DEF Spendable
<1>. QED
  BY <1>1, <1>2, <1>4

\* An order bounces for want of cash only on an account with working orders as the
\* tick read it, after an order of the tick's own, or when another agent has taken cash.
THEOREM OrdersAreCovered == LedgerSpec => []OrderIsCovered
<1>1. LedgerInit => CashLasts
  BY DEF LedgerInit, Init, CashLasts
<1>2. TypeOK /\ CashLasts /\ [LedgerNext]_ledgerVars => CashLasts'
  BY CashLastsStep
<1>3. TypeOK /\ CashLasts => OrderIsCovered
  <2>. SUFFICES ASSUME TypeOK, CashLasts, pc = "submit_buy", ~claimed, ~Dust(Notional(acct))
                PROVE  Affordable(Notional(acct))
    BY DEF OrderIsCovered
  <2>1. acct.cash <= cash - reserved
    BY DEF CashLasts
  <2>. QED
    BY <2>1, OrderFits DEF Affordable, TypeOK, BrokerTypeOK, LocalsTypeOK
<1>. QED
  BY <1>1, <1>2, <1>3, Typing, LedgerIsTick, PTL DEF LedgerSpec
=============================================================================
