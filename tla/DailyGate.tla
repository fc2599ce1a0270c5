----------------------------- MODULE DailyGate -----------------------------
(***************************************************************************)
(* What the risk caps of the live engine promise, with nothing said of     *)
(* how: a book of symbols (positions and orders that will become some)     *)
(* that never outgrows its cap, and a daily gate that, once shut, lets no  *)
(* symbol in until the next day.  Symbols may leave the book at any time.  *)
(* Translated from risk.max_open_positions and the kill-switch as run_tick *)
(* (src/src/trader/trend_trader.py) and drawdown.py apply them.            *)
(***************************************************************************)
EXTENDS Integers, FiniteSets

CONSTANTS Symbols, MaxOpenPositions, MaxDay

VARIABLES today, halted, book

gateVars == <<today, halted, book>>

Init == today = 0 /\ halted = FALSE /\ book = {}

Enter(s) ==
  /\ ~halted
  /\ s \notin book
  /\ Cardinality(book) < MaxOpenPositions
  /\ book' = book \cup {s}
  /\ UNCHANGED <<today, halted>>

Leave(gone) ==
  /\ book' = book \ gone
  /\ UNCHANGED <<today, halted>>

Halt ==
  /\ ~halted
  /\ halted' = TRUE
  /\ UNCHANGED <<today, book>>

NewDay ==
  /\ today < MaxDay
  /\ today' = today + 1
  /\ halted' = FALSE
  /\ UNCHANGED book

Next ==
  \/ \E s \in Symbols : Enter(s)
  \/ \E gone \in SUBSET book : Leave(gone)
  \/ Halt
  \/ NewDay

Spec == Init /\ [][Next]_gateVars
=============================================================================
