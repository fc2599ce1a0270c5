---------------------------- MODULE MCTickLedger ----------------------------
(* Small instances of TickLedger for TLC. *)
EXTENDS TickLedger

CONSTANTS A, B

TwoSymbols == <<A, B>>

\* The other agents of the account hold nothing, hold a position, have an order.
Shared == {[taken |-> 0, working |-> 0], [taken |-> 25, working |-> 0],
           [taken |-> 0, working |-> 25]}
=============================================================================
