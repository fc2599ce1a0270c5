------------------------------ MODULE LlmTick ------------------------------
(***************************************************************************)
(* The tick of the language-model engine: run_tick of src/src/trader/      *)
(* agent.py with the wrapper's calls it makes, the model's turn behind the *)
(* risk hook, and the scheduler that fires it.  The long-only profile,     *)
(* the one that carries software stops.                                    *)
(*                                                                         *)
(* Everything is read before the model's turn, which may take any time:    *)
(* orders fill, prices move and other agents trade while it runs.          *)
(***************************************************************************)
EXTENDS RiskHook

CONSTANTS Thin,       \* the symbols whose bars may be missing
          MaxCalls,   \* bound: the calls of one turn that have an effect
          MaxBuys,    \* bound: the entries working at a time
          MaxFaults   \* bound: failed calls and ended processes

ASSUME LlmTickAssumption ==
  /\ LongOnly /\ Thin \subseteq Watchlist
  /\ MaxCalls \in Nat /\ MaxBuys \in Nat /\ MaxFaults \in Nat

VARIABLES pc,         \* the call the tick makes next
          ctx,        \* RiskContext of the tick
          toExit,     \* the positions across their stop or target, as listed
          calls,      \* the effective calls of this turn
          entered,    \* history: the symbols this turn entered and ctx does not list
          unsettled,  \* history: a buy was working when the account was read
          faults,     \* failures so far
          held,       \* the account's positions
          closing,    \* working orders that close a position
          buys,       \* working entries, and whether older than an interval
          crossed     \* the positions whose price is across stop or target

tickVars == <<pc, ctx, toExit, calls, entered, unsettled>>
brokerVars == <<held, closing, buys>>
vars == <<tickVars, faults, brokerVars, crossed>>

Buys == [symbol : Watchlist, stale : BOOLEAN]
Stale == {b \in buys : b.stale}

TypeOK ==
  /\ pc \in {"idle", "reconcile", "account", "positions", "exits", "drawdown", "turn",
             "journal"}
  /\ ctx \in Contexts
  /\ toExit \subseteq Watchlist
  /\ calls \in 0 .. MaxCalls
  /\ entered \subseteq Watchlist
  /\ unsettled \in BOOLEAN
  /\ faults \in 0 .. MaxFaults
  /\ held \subseteq Symbols /\ closing \subseteq held
  /\ buys \subseteq Buys
  /\ crossed \subseteq held \cap Watchlist

\* The agent's own positions and the entries that may become one.
Book == (held \cap Watchlist) \cup {b.symbol : b \in buys}

NoContext == [open |-> {}, priced |-> {}, paused |-> FALSE]

Init ==
  /\ pc = "idle"
  /\ ctx = NoContext
  /\ toExit = {} /\ calls = 0 /\ entered = {}
  /\ unsettled = FALSE /\ faults = 0
  /\ held = {} /\ closing = {} /\ buys = {} /\ crossed = {}

Fault == faults < MaxFaults /\ faults' = faults + 1

\* The locals of a tick end with it.
TickOver ==
  /\ pc' = "idle" /\ ctx' = NoContext
  /\ toExit' = {} /\ calls' = 0 /\ entered' = {}
  /\ unsettled' = FALSE

\* A call that goes through, or fails and is passed over.
Tried(done, failed) == (done /\ faults' = faults) \/ (failed /\ Fault)

-----------------------------------------------------------------------------
(* Before the turn. *)

StartTick ==
  /\ pc = "idle" /\ pc' = "reconcile"
  /\ UNCHANGED <<ctx, toExit, calls, entered, unsettled, faults, brokerVars, crossed>>

\* Slip: the orders of the positions are reconciled, not those of the whitelist.
ReconcileHeld ==
  /\ pc = "reconcile" /\ pc' = "account"
  /\ \E gone \in SUBSET Stale, unsold \in SUBSET (closing \cap Watchlist) :
       /\ buys' = buys \ gone /\ closing' = closing \ unsold
       /\ Tried(gone = {b \in Stale : b.symbol \in held}, TRUE)
  /\ UNCHANGED <<ctx, toExit, calls, entered, unsettled, held, crossed>>

\* cancel_stale_orders: every order of the whitelist older than an interval by the
\* wall clock, and no other, is cancelled, unless the listing or some of the
\* cancellations fail, which is passed over.  An order that closes a position is
\* cancelled like any other; its age is left open.
Reconcile ==
  /\ pc = "reconcile" /\ pc' = "account"
  /\ \E gone \in SUBSET Stale, unsold \in SUBSET (closing \cap Watchlist) :
       /\ buys' = buys \ gone /\ closing' = closing \ unsold
       /\ Tried(gone = Stale, TRUE)
  /\ UNCHANGED <<ctx, toExit, calls, entered, unsettled, held, crossed>>

\* _gather: the account, then the bars; a symbol without them is left out.
GetAccount ==
  /\ pc = "account" /\ pc' = "positions"
  /\ \E thin \in SUBSET Thin :
       ctx' = [open |-> held, priced |-> Watchlist \ thin, paused |-> FALSE]
  /\ unsettled' = (buys # {})
  /\ UNCHANGED <<toExit, calls, entered, faults, brokerVars, crossed>>

\* _enforce_software_stops: the positions are listed, but for one that has neither
\* bars nor a current price at the broker, which is skipped ...
ListExits ==
  /\ pc = "positions" /\ pc' = "exits"
  /\ Tried(toExit' = crossed,
           \E unpriced \in SUBSET (crossed \ ctx.priced) : toExit' = crossed \ unpriced)
  /\ UNCHANGED <<ctx, calls, entered, unsettled, brokerVars, crossed>>

\* Slip: the exit is left to the model.
ExitOneNever(s) ==
  /\ pc = "exits" /\ s \in toExit
  /\ toExit' = toExit \ {s}
  /\ UNCHANGED <<pc, ctx, calls, entered, unsettled, faults, brokerVars, crossed>>

\* ... and closed one by one, whatever happens to the others.
ExitOne(s) ==
  /\ pc = "exits" /\ s \in toExit
  /\ toExit' = toExit \ {s}
  /\ Tried(closing' = closing \cup ({s} \cap held), closing' = closing)
  /\ UNCHANGED <<pc, ctx, calls, entered, unsettled, held, buys, crossed>>

ExitsDone ==
  /\ pc = "exits" /\ toExit = {} /\ pc' = "drawdown"
  /\ UNCHANGED <<ctx, toExit, calls, entered, unsettled, faults, brokerVars, crossed>>

\* DrawdownMonitor.check (see TrendTick): the day is fine, or flagged already, or
\* flagged now after a liquidation whose closes fail unnoticed.
CheckDrawdown ==
  /\ pc = "drawdown" /\ pc' = "turn"
  /\ \E paused \in BOOLEAN, sold \in SUBSET (held \cap Watchlist) :
       /\ sold # {} => paused
       /\ ctx' = [ctx EXCEPT !.paused = paused]
       /\ closing' = closing \cup sold
       /\ Tried(sold \in {{}, held \cap Watchlist}, TRUE)
  /\ UNCHANGED <<toExit, calls, entered, unsettled, held, buys, crossed>>

-----------------------------------------------------------------------------
(* The model's turn.  A call the hook denies has no effect. *)

Call == pc = "turn" /\ calls < MaxCalls /\ calls' = calls + 1
turnFrame == <<pc, ctx, toExit, unsettled, faults, crossed>>

PlaceOrder ==
  /\ Call /\ Cardinality(buys) < MaxBuys
  /\ \E o \in Orders :
       /\ EntryAllowed(o, ctx)
       /\ buys' = buys \cup {[symbol |-> o.symbol, stale |-> FALSE]}
       /\ entered' = entered \cup ({o.symbol} \ ctx.open)
  /\ UNCHANGED <<turnFrame, held, closing>>

\* close_position and close_all_positions, of any position of the account.
CloseCall ==
  /\ Call
  /\ \E sold \in {{s} : s \in held} \cup {held} : closing' = closing \cup sold
  /\ UNCHANGED <<turnFrame, entered, held, buys>>

\* cancel_all_orders, which no matcher of the hook names.
CancelCall ==
  /\ Call
  /\ buys' = {} /\ closing' = {}
  /\ UNCHANGED <<turnFrame, entered, held>>

\* The response ends, or an exception ends it and is journalled; nothing bounds
\* the time until one of them does.
EndTurn ==
  /\ pc = "turn" /\ pc' = "journal"
  /\ UNCHANGED <<ctx, toExit, calls, entered, unsettled, faults, brokerVars, crossed>>

RecordTick ==
  /\ pc = "journal" /\ TickOver
  /\ UNCHANGED <<faults, brokerVars, crossed>>

\* An exception that no handler of the tick catches, or the end of the process;
\* a liquidation that was under way stays where it was.
AbortTick ==
  /\ pc # "idle" /\ TickOver /\ Fault
  /\ \/ closing' = closing
     \/ /\ pc = "drawdown"
        /\ \E sold \in SUBSET (held \cap Watchlist) : closing' = closing \cup sold
  /\ UNCHANGED <<held, buys, crossed>>

Tick ==
  \/ StartTick \/ Reconcile \/ GetAccount \/ ListExits \/ (\E s \in Watchlist : ExitOne(s))
  \/ ExitsDone \/ CheckDrawdown \/ RecordTick

Turn == PlaceOrder \/ CloseCall \/ CancelCall \/ EndTurn

-----------------------------------------------------------------------------
(* The account, the market and the clock, at any moment. *)

FillBuy ==
  /\ \E b \in buys : buys' = buys \ {b} /\ held' = held \cup {b.symbol}
  /\ UNCHANGED <<tickVars, faults, closing, crossed>>

\* The wall clock: an order turns older than an interval at any moment, whatever
\* ticks have run since it was placed.
BuyTurnsStale ==
  /\ \E b \in buys : buys' = (buys \ {b}) \cup {[b EXCEPT !.stale = TRUE]}
  /\ UNCHANGED <<tickVars, faults, held, closing, crossed>>

RejectBuy ==
  /\ \E b \in buys : buys' = buys \ {b}
  /\ UNCHANGED <<tickVars, faults, held, closing, crossed>>

FillClose(s) ==
  /\ s \in closing
  /\ closing' = closing \ {s} /\ held' = held \ {s} /\ crossed' = crossed \ {s}
  /\ UNCHANGED <<tickVars, faults, buys>>

MarketMoves ==
  /\ crossed' \in SUBSET (held \cap Watchlist)
  /\ UNCHANGED <<tickVars, faults, brokerVars>>

OthersTrade ==
  /\ \E theirs \in SUBSET Others :
       /\ held' = (held \cap Watchlist) \cup theirs
       /\ closing' = closing \cap held'
  /\ UNCHANGED <<tickVars, faults, buys, crossed>>

Outside ==
  \/ FillBuy \/ RejectBuy \/ BuyTurnsStale \/ (\E s \in Symbols : FillClose(s))
  \/ MarketMoves \/ OthersTrade

Next == Tick \/ Turn \/ AbortTick \/ Outside

Spec == Init /\ [][Next]_vars

\* The scheduler fires whenever no tick runs, the calls of a tick end, and a close
\* that is sent again and again is filled, even if some are cancelled.  The model
\* owes nothing.
FairSpec == Spec /\ WF_vars(Tick) /\ \A s \in Watchlist : SF_vars(FillClose(s))

-----------------------------------------------------------------------------
(* What must hold. *)

\* max_open_positions through the hook: a turn takes a symbol its snapshot does
\* not list into the book beyond the cap only after an entry of its own, or when
\* an older order was working as the account was read.
FirstEntryRespectsCap ==
  [][\A s \in Book' \ (Book \cup ctx.open) :
       Cardinality(Book') <= MaxOpen \/ entered # {} \/ unsettled]_vars

\* "So they don't lock buying power or stack when a venue fills slowly": however
\* many orders the model adds, turn after turn, and never fills, the account is
\* again and again without a working entry older than an interval, as long as no
\* turn lasts for ever.
NoStacking == []<>(pc # "turn") => []<>(Stale = {})

\* Software stops: no position stays across its stop or target for ever, whatever
\* the model does in its turns, as long as no turn lasts for ever.
StopsExit == []<>(pc # "turn") => \A s \in Watchlist : []<>(s \notin crossed)
=============================================================================
