----------------------------- MODULE TickLedger -----------------------------
(***************************************************************************)
(* TrendTick with a record of what run_tick (src/src/trader/               *)
(* trend_trader.py) could not have known.  It judges cap and pause against *)
(* lists it reads once; an order that was still working then, an entry     *)
(* whose reply was lost, a symbol without history and a close that failed  *)
(* escape it.  The history variables below name those symbols, take no     *)
(* part in any guard, and let the promises of a tick be stated with no     *)
(* assumption on how fast the broker fills and what fails on the way.      *)
(***************************************************************************)
EXTENDS TrendTick

VARIABLES unseen,   \* history: the book's symbols that some tick could not see
          excused,  \* history: those that this tick's closes may have missed
          claimed   \* history: more is taken from the account than this tick has read

ledgerVars == <<vars, unseen, excused, claimed>>

LedgerTypeOK ==
  /\ TypeOK
  /\ unseen \subseteq Symbols /\ excused \subseteq Symbols /\ claimed \in BOOLEAN

\* get_positions_detail lists no order that is still working, and a buy whose
\* reply was lost does not come to open_syms; one that is accepted does.
Sight ==
  IF GetPositions THEN unseen \cup (Working \ Held)
  ELSE IF BuyReplyLost THEN unseen \cup {Symbol}
  ELSE IF BuyAccepted THEN unseen \ {Symbol}
  ELSE unseen

\* A fill may come after the positions were read, and a symbol is passed over
\* when its history or its close fails.
Missed ==
  IF GetPositions THEN Working
  ELSE IF HistoryMissing \/ (ClosePosition /\ faults' # faults) THEN excused \cup {Symbol}
  ELSE IF pc' = "idle" THEN {}
  ELSE excused

\* The cash of the account does not show what working orders will take from it,
\* and it is read once: the tick's own orders, and what another agent takes of the
\* shared account, come after the reading.
OthersTake == OthersTrade /\ cash' - reserved' < cash - reserved

Claim ==
  IF GetAccount THEN reserved > 0
  ELSE IF pc' \in {"idle", "get_account"} THEN FALSE
  ELSE claimed \/ BuyAccepted \/ BuyReplyLost \/ OthersTake

LedgerInit == Init /\ unseen = {} /\ excused = {} /\ claimed = FALSE

LedgerNext ==
  /\ Next
  /\ unseen' = Sight \cap Book'
  /\ excused' = Missed
  /\ claimed' = Claim

LedgerSpec == LedgerInit /\ [][LedgerNext]_ledgerVars

FairLedgerSpec == LedgerSpec /\ Fairness

-----------------------------------------------------------------------------
(* What must hold, however late orders fill and whatever fails. *)

\* What the ticks see of the book keeps the promise of the daily gate: it never
\* outgrows max_open_positions, and no symbol enters it while the day's pause
\* flag is up.
SeenGate == INSTANCE DailyGate
              WITH today <- day, halted <- IsPaused(day), book <- Book \ unseen

ImplementsSeenGate == SeenGate!Spec

\* max_open_positions is exceeded by the orders no tick could see and by
\* nothing else: not by a buy of this tick, nor by one a list showed.
CapUpToUnseen == Cardinality(Book \ unseen) <= MaxOpenPositions

\* A symbol is bought again on top of what it has, past max_position_pct, only
\* when its earlier order was one that no tick could see.
SizeUpToUnseen ==
  [][\A s \in Symbols :
       buys'[s] > buys[s] /\ s \notin unseen =>
         s \notin Book /\ (spent'[s] + buys'[s]) * 100 <= MaxPositionPct * acct.equity]_ledgerVars

\* A tick that knows the day is paused leaves no position behind: at its end
\* each one is being closed, unless it was still an order when the positions
\* were read, or its history or its close failed.
PausedTickSells == pc = "record_tick" /\ ddPaused => Held \subseteq closing \cup excused

\* "Cap at cash so the final slot fills instead of bouncing": however this agent's
\* orders fill, lapse or are sold meanwhile, an order is within the account's means,
\* unless orders of some agent were working when the cash was read, the tick has
\* spent of it since, or another agent has.
OrderIsCovered ==
  pc = "submit_buy" /\ ~claimed /\ ~Dust(Notional(acct)) => Affordable(Notional(acct))

-----------------------------------------------------------------------------
(* Why it holds. *)

\* In the loop, what the tick does not list is unseen; what it lists beyond the
\* positions it read are symbols it has passed; and its candidate has a slot.
SightLedger ==
  /\ unseen \subseteq Book
  /\ InLoop => Book \subseteq openSyms \cup unseen /\ openSyms \subseteq positions \cup Passed
  /\ pc \in {"assess", "submit_buy"} => SlotFree /\ Symbol \notin positions
  /\ CapUpToUnseen

\* Nothing takes from the cash that was read but a claim on it.
CashLasts ==
  pc \notin {"idle", "get_account"} /\ ~claimed => acct.cash <= cash - reserved

\* The symbols the loop has still to come to.
ToCome == {Watchlist[j] : j \in idx .. Len(Watchlist)}

\* In a tick that knows of the pause nothing is bought, a position it did not
\* read was an order then, and every other one has been sold or will be.
PausedLoop ==
  /\ Book \subseteq {Watchlist[j] : j \in 1 .. Len(Watchlist)}
  /\ (InLoop \/ pc = "record_tick") /\ ddPaused => Working \subseteq excused
  /\ InLoop /\ ddPaused =>
       /\ Held \subseteq positions \cup excused
       /\ Held \subseteq closing \cup excused \cup ToCome
  /\ PausedTickSells
=============================================================================
