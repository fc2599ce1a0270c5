--------------------------- MODULE LlmTick_proofs ---------------------------
(***************************************************************************)
(* What TLAPS proves of LlmTick, for every watchlist, cap, number of calls *)
(* in a turn and number of faults.                                         *)
(***************************************************************************)
EXTENDS LlmTick, TLAPS, FiniteSetTheorems

-----------------------------------------------------------------------------
(* Types. *)

ConstantFacts ==
  /\ MaxCalls \in Nat /\ MaxFaults \in Nat
  /\ Thin \subseteq Watchlist
  /\ IsFiniteSet(Symbols)

LEMMA ConstantTypes == ConstantFacts
<1>1. IsFiniteSet(Symbols)
  BY RiskHookAssumption, FS_Union DEF Symbols
<1>. QED
  BY <1>1, LlmTickAssumption DEF ConstantFacts

\* The tick's locals, and the account and the market.
LocalsTypeOK ==
  /\ pc \in {"idle", "reconcile", "account", "positions", "exits", "drawdown", "turn",
             "journal"}
  /\ ctx \in Contexts
  /\ toExit \subseteq Watchlist
  /\ calls \in 0 .. MaxCalls
  /\ entered \subseteq Watchlist
  /\ faults \in 0 .. MaxFaults

AccountTypeOK ==
  /\ held \subseteq Symbols /\ closing \subseteq held
  /\ buys \subseteq Buys
  /\ crossed \subseteq held \cap Watchlist

FlagsTypeOK == unsettled \in BOOLEAN

LEMMA EntryIsListed ==
  ASSUME NEW o \in Orders, EntryAllowed(o, ctx)
  PROVE  o.symbol \in Watchlist
BY DEF EntryAllowed

LEMMA AccountTypeStep ==
  ASSUME AccountTypeOK, LocalsTypeOK, [Next]_vars
  PROVE  AccountTypeOK'
<1>. USE DEF AccountTypeOK
<1>1. ASSUME UNCHANGED <<held, closing, buys, crossed>> PROVE AccountTypeOK'
  BY <1>1
<1>2. CASE BuyTurnsStale
  BY <1>2 DEF BuyTurnsStale, Buys
<1>3. CASE Reconcile
  BY <1>3 DEF Reconcile
<1>4. ASSUME NEW s \in Watchlist, ExitOne(s) PROVE AccountTypeOK'
  BY <1>4 DEF ExitOne, Tried
<1>5. CASE CheckDrawdown
  BY <1>5 DEF CheckDrawdown
<1>6. CASE PlaceOrder
  <2>1. PICK o \in Orders :
          EntryAllowed(o, ctx) /\ buys' = buys \cup {[symbol |-> o.symbol, stale |-> FALSE]}
    BY <1>6 DEF PlaceOrder
  <2>2. [symbol |-> o.symbol, stale |-> FALSE] \in Buys
    BY <2>1, EntryIsListed DEF Buys
  <2>3. UNCHANGED <<held, closing, crossed>>
    BY <1>6 DEF PlaceOrder, turnFrame
  <2>. QED
    BY <2>1, <2>2, <2>3
<1>7. CASE CloseCall
  BY <1>7 DEF CloseCall, turnFrame
<1>8. CASE CancelCall
  BY <1>8 DEF CancelCall, turnFrame
<1>9. CASE AbortTick
  BY <1>9 DEF AbortTick
<1>10. CASE FillBuy
  BY <1>10 DEF FillBuy, Buys, Symbols
<1>11. CASE RejectBuy
  BY <1>11 DEF RejectBuy
<1>12. ASSUME NEW s \in Symbols, FillClose(s) PROVE AccountTypeOK'
  BY <1>12 DEF FillClose
<1>13. CASE MarketMoves
  BY <1>13 DEF MarketMoves, brokerVars
<1>14. CASE OthersTrade
  BY <1>14 DEF OthersTrade, Symbols
<1>. QED
  BY <1>1, <1>2, <1>3, <1>4, <1>5, <1>6, <1>7, <1>8, <1>9, <1>10, <1>11, <1>12, <1>13, <1>14
  DEF Next, Tick, Turn, Outside, vars, brokerVars, StartTick, GetAccount, ListExits, ExitsDone, EndTurn,
      RecordTick

LEMMA LocalsTypeStep ==
  ASSUME LocalsTypeOK, AccountTypeOK, [Next]_vars
  PROVE  LocalsTypeOK'
<1>. USE DEF LocalsTypeOK
<1>0. ConstantFacts
  BY ConstantTypes
<1>1. ASSUME UNCHANGED <<tickVars, faults>> PROVE LocalsTypeOK'
  BY <1>1 DEF tickVars
<1>2. CASE StartTick
  BY <1>2 DEF StartTick
<1>3. ASSUME Fault PROVE faults' \in 0 .. MaxFaults
  BY <1>0, <1>3 DEF Fault, ConstantFacts
<1>4. CASE Reconcile
  BY <1>3, <1>4 DEF Reconcile, Tried
<1>5. CASE GetAccount
  <2>1. PICK thin \in SUBSET Thin :
          ctx' = [open |-> held, priced |-> Watchlist \ thin, paused |-> FALSE]
    BY <1>5 DEF GetAccount
  <2>2. ctx' \in Contexts
    BY <2>1 DEF Contexts, AccountTypeOK
  <2>. QED
    BY <1>5, <2>2 DEF GetAccount
<1>6. CASE ListExits
  BY <1>3, <1>6 DEF ListExits, Tried, AccountTypeOK
<1>7. ASSUME NEW s \in Watchlist, ExitOne(s) PROVE LocalsTypeOK'
  BY <1>3, <1>7 DEF ExitOne, Tried
<1>8. CASE ExitsDone
  BY <1>8 DEF ExitsDone
<1>9. CASE CheckDrawdown
  <2>1. PICK paused \in BOOLEAN : ctx' = [ctx EXCEPT !.paused = paused]
    BY <1>9 DEF CheckDrawdown
  <2>2. ctx' \in Contexts
    BY <2>1 DEF Contexts
  <2>. QED
    BY <1>3, <1>9, <2>2 DEF CheckDrawdown, Tried
<1>10. ASSUME Call PROVE calls' \in 0 .. MaxCalls
  BY <1>0, <1>10 DEF Call, ConstantFacts
<1>11. CASE PlaceOrder
  BY <1>10, <1>11, EntryIsListed DEF PlaceOrder, turnFrame
<1>12. CASE CloseCall
  BY <1>10, <1>12 DEF CloseCall, turnFrame
<1>13. CASE CancelCall
  BY <1>10, <1>13 DEF CancelCall, turnFrame
<1>14. CASE EndTurn
  BY <1>14 DEF EndTurn
<1>15. NoContext \in Contexts /\ 0 \in 0 .. MaxCalls
  BY <1>0 DEF NoContext, Contexts, ConstantFacts
<1>16. CASE RecordTick
  BY <1>15, <1>16 DEF RecordTick, TickOver
<1>17. CASE AbortTick
  BY <1>3, <1>15, <1>17 DEF AbortTick, TickOver
<1>18. CASE Outside
  BY <1>1, <1>18 DEF Outside, FillBuy, RejectBuy, BuyTurnsStale, FillClose, MarketMoves, OthersTrade
<1>. QED
  BY <1>1, <1>2, <1>4, <1>5, <1>6, <1>7, <1>8, <1>9, <1>11, <1>12, <1>13, <1>14, <1>16, <1>17,
     <1>18
  DEF Next, Tick, Turn, vars

LEMMA FlagsTypeStep ==
  ASSUME FlagsTypeOK, [Next]_vars
  PROVE  FlagsTypeOK'
BY Zenon
DEF FlagsTypeOK, Next, Tick, Turn, Outside, vars, tickVars, StartTick, Reconcile, Tried,
    GetAccount, ListExits, ExitOne, ExitsDone, CheckDrawdown, PlaceOrder, CloseCall, CancelCall,
    turnFrame, EndTurn, RecordTick, TickOver, AbortTick, FillBuy, RejectBuy, BuyTurnsStale, FillClose,
    MarketMoves, OthersTrade

LEMMA InitTypes == Init => LocalsTypeOK /\ AccountTypeOK /\ FlagsTypeOK
<1>. SUFFICES ASSUME Init PROVE LocalsTypeOK /\ AccountTypeOK /\ FlagsTypeOK
  OBVIOUS
<1>0. ConstantFacts
  BY ConstantTypes
<1>1. ctx \in Contexts
  BY DEF Init, NoContext, Contexts
<1>2. LocalsTypeOK
  BY <1>0, <1>1 DEF Init, LocalsTypeOK, ConstantFacts
<1>3. AccountTypeOK
  BY DEF Init, AccountTypeOK
<1>4. FlagsTypeOK
  BY DEF Init, FlagsTypeOK
<1>. QED
  BY <1>2, <1>3, <1>4

THEOREM TypesHold == Spec => [](LocalsTypeOK /\ AccountTypeOK /\ FlagsTypeOK)
<1>1. LocalsTypeOK /\ AccountTypeOK /\ FlagsTypeOK /\ [Next]_vars
      => (LocalsTypeOK /\ AccountTypeOK /\ FlagsTypeOK)'
  BY LocalsTypeStep, AccountTypeStep, FlagsTypeStep
<1>. QED
  BY <1>1, InitTypes, PTL DEF Spec

\* Every reachable state of the legacy tick and its account is well typed: only
\* held positions are closed, only the agent's own are across a stop.
THEOREM Typing == Spec => []TypeOK
<1>1. LocalsTypeOK /\ AccountTypeOK /\ FlagsTypeOK => TypeOK
  BY DEF LocalsTypeOK, AccountTypeOK, FlagsTypeOK, TypeOK
<1>. QED
  BY <1>1, TypesHold, PTL

-----------------------------------------------------------------------------
(* The cap. *)

\* From the read of the account to the first entry of the turn, the snapshot
\* covers the agent's book, unless an older entry was working at the read.
SnapshotCovers ==
  pc \in {"positions", "exits", "drawdown", "turn"} /\ entered = {} /\ ~unsettled
    => Book \subseteq ctx.open

\* Only an entry adds to the book.
LEMMA OnlyEntriesGrowBook ==
  ASSUME AccountTypeOK, [Next]_vars, ~PlaceOrder
  PROVE  Book' \subseteq Book
<1>. USE DEF Book
<1>1. ASSUME held' \subseteq held, buys' \subseteq buys PROVE Book' \subseteq Book
  BY <1>1
<1>2. CASE BuyTurnsStale
  <2>1. \A b \in buys' : \E a \in buys : b.symbol = a.symbol
    BY <1>2 DEF BuyTurnsStale, AccountTypeOK, Buys
  <2>. QED
    BY <1>2, <2>1 DEF BuyTurnsStale
<1>3. CASE FillBuy
  BY <1>3 DEF FillBuy, AccountTypeOK, Buys
<1>4. CASE OthersTrade
  BY <1>4, RiskHookAssumption DEF OthersTrade
<1>. QED
  BY <1>1, <1>2, <1>3, <1>4
  DEF Next, Tick, Turn, Outside, vars, brokerVars, StartTick, Reconcile, GetAccount, ListExits, ExitOne,
      ExitsDone, CheckDrawdown, CloseCall, CancelCall, turnFrame, EndTurn, RecordTick, AbortTick,
      RejectBuy, FillClose, MarketMoves

\* An entry adds its symbol.
LEMMA EntryGrowsBook ==
  ASSUME PlaceOrder, NEW o, buys' = buys \cup {[symbol |-> o.symbol, stale |-> FALSE]}
  PROVE  Book' = Book \cup {o.symbol}
<1>1. held' = held
  BY DEF PlaceOrder
<1>2. {b.symbol : b \in buys'} = {b.symbol : b \in buys} \cup {o.symbol}
  <2>1. ASSUME NEW b \in buys' PROVE b.symbol \in {a.symbol : a \in buys} \cup {o.symbol}
    BY <2>1
  <2>2. ASSUME NEW b \in buys PROVE b.symbol \in {a.symbol : a \in buys'}
    BY <2>2
  <2>3. [symbol |-> o.symbol, stale |-> FALSE].symbol \in {a.symbol : a \in buys'}
    OBVIOUS
  <2>. QED
    BY <2>1, <2>2, <2>3
<1>. QED
  BY <1>1, <1>2 DEF Book

LEMMA SnapshotCoversStep ==
  ASSUME SnapshotCovers, LocalsTypeOK, AccountTypeOK, [Next]_vars
  PROVE  SnapshotCovers'
<1>1. CASE PlaceOrder
  <2>1. PICK o \in Orders :
          /\ EntryAllowed(o, ctx)
          /\ buys' = buys \cup {[symbol |-> o.symbol, stale |-> FALSE]}
          /\ entered' = entered \cup ({o.symbol} \ ctx.open)
    BY <1>1 DEF PlaceOrder
  <2>2. UNCHANGED <<pc, ctx, unsettled, held>>
    BY <1>1 DEF PlaceOrder, turnFrame
  <2>3. Book' = Book \cup {o.symbol}
    BY <1>1, <2>1, EntryGrowsBook
  <2>4. ASSUME entered' = {} PROVE entered = {} /\ o.symbol \in ctx.open
    BY <2>1, <2>4
  <2>5. ASSUME entered' = {}, Book \subseteq ctx.open PROVE Book' \subseteq ctx'.open
    BY <2>2, <2>3, <2>4, <2>5
  <2>. QED
    BY <2>2, <2>4, <2>5, Zenon DEF SnapshotCovers
<1>2. CASE ~PlaceOrder
  <2>0. Book' \subseteq Book
    BY <1>2, OnlyEntriesGrowBook
  <2>1. ASSUME UNCHANGED <<entered, unsettled>>, ctx'.open = ctx.open,
               pc \in {"positions", "exits", "drawdown", "turn"}
        PROVE  SnapshotCovers'
    BY <2>0, <2>1 DEF SnapshotCovers
  <2>2. ASSUME pc' \notin {"positions", "exits", "drawdown", "turn"} PROVE SnapshotCovers'
    BY <2>2 DEF SnapshotCovers
  <2>3. CASE GetAccount
    <3>1. ASSUME buys = {} PROVE Book' \subseteq ctx'.open
      BY <2>3, <3>1 DEF GetAccount, Book, brokerVars
    <3>2. unsettled' = (buys # {})
      BY <2>3 DEF GetAccount
    <3>. QED
      BY <3>1, <3>2, Zenon DEF SnapshotCovers
  <2>4. CASE CheckDrawdown
    <3>1. ctx'.open = ctx.open
      BY <2>4 DEF CheckDrawdown, LocalsTypeOK, Contexts
    <3>. QED
      BY <2>1, <2>4, <3>1 DEF CheckDrawdown
  <2>5. ASSUME UNCHANGED tickVars PROVE SnapshotCovers'
    BY <2>1, <2>2, <2>5 DEF tickVars
  <2>. QED
    BY <1>2, <2>1, <2>2, <2>3, <2>4, <2>5
    DEF Next, Tick, Turn, Outside, vars, StartTick, Reconcile, ListExits, ExitOne, ExitsDone,
        CloseCall, CancelCall, Call, turnFrame, EndTurn, RecordTick, AbortTick, TickOver,
        FillBuy, RejectBuy, BuyTurnsStale, FillClose, MarketMoves, OthersTrade
<1>. QED
  BY <1>1, <1>2

THEOREM SnapshotInvariant == Spec => []SnapshotCovers
<1>1. Init => SnapshotCovers
  BY DEF Init, SnapshotCovers
<1>2. SnapshotCovers /\ LocalsTypeOK /\ AccountTypeOK /\ [Next]_vars => SnapshotCovers'
  BY SnapshotCoversStep
<1>. QED
  BY <1>1, <1>2, TypesHold, PTL DEF Spec

LEMMA FirstEntryStep ==
  ASSUME SnapshotCovers, LocalsTypeOK, AccountTypeOK, FlagsTypeOK, [Next]_vars,
         NEW s \in Book' \ (Book \cup ctx.open), entered = {}, ~unsettled
  PROVE  Cardinality(Book') <= MaxOpen
<1>1. PlaceOrder
  BY OnlyEntriesGrowBook
<1>2. PICK o \in Orders :
        EntryAllowed(o, ctx) /\ buys' = buys \cup {[symbol |-> o.symbol, stale |-> FALSE]}
  BY <1>1 DEF PlaceOrder
<1>3. Book' = Book \cup {o.symbol}
  BY <1>1, <1>2, EntryGrowsBook
<1>4. s = o.symbol
  BY <1>3
<1>5. Cardinality(ctx.open) < MaxOpen
  BY <1>2, <1>4 DEF EntryAllowed, SlotFree
<1>6. Book \subseteq ctx.open
  BY <1>1 DEF SnapshotCovers, PlaceOrder, Call
<1>7. IsFiniteSet(ctx.open)
  BY ConstantTypes, FS_Subset DEF ConstantFacts, LocalsTypeOK, Contexts
<1>8. IsFiniteSet(ctx.open \cup {s}) /\ Cardinality(ctx.open \cup {s}) = Cardinality(ctx.open) + 1
  BY <1>7, FS_AddElement
<1>9. Book' \subseteq ctx.open \cup {s}
  BY <1>3, <1>4, <1>6
<1>10. Cardinality(Book') <= Cardinality(ctx.open \cup {s}) /\ Cardinality(Book') \in Nat
  BY <1>8, <1>9, FS_Subset, FS_CardinalityType
<1>11. Cardinality(ctx.open) \in Nat
  BY <1>7, FS_CardinalityType
<1>. QED
  BY <1>5, <1>8, <1>10, <1>11, RiskHookAssumption

\* The first entry of a turn that takes a new symbol leaves the book within the
\* cap, whatever fills or other agents trade between the snapshot and the order,
\* unless an older entry was working as the account was read.
THEOREM FirstEntryWithinCap == Spec => FirstEntryRespectsCap
<1>1. ASSUME SnapshotCovers, LocalsTypeOK, AccountTypeOK, FlagsTypeOK, [Next]_vars
      PROVE  [\A s \in Book' \ (Book \cup ctx.open) :
                Cardinality(Book') <= MaxOpen \/ entered # {} \/ unsettled]_vars
  BY <1>1, FirstEntryStep
<1>2. SnapshotCovers /\ LocalsTypeOK /\ AccountTypeOK /\ FlagsTypeOK /\ [Next]_vars
      => [\A s \in Book' \ (Book \cup ctx.open) :
            Cardinality(Book') <= MaxOpen \/ entered # {} \/ unsettled]_vars
  BY <1>1
<1>. QED
  BY <1>2, SnapshotInvariant, TypesHold, PTL DEF Spec, FirstEntryRespectsCap
=============================================================================
