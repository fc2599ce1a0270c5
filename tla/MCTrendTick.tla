---------------------------- MODULE MCTrendTick ----------------------------
(* Small instances of TrendTick for TLC. *)
EXTENDS TrendTick

CONSTANTS A, B, C

TwoSymbols == <<A, B>>
ThreeSymbols == <<A, B, C>>

\* The other agents of the account hold nothing; or a position, and an order too.
Alone == {[taken |-> 0, working |-> 0]}
Shared == Alone \cup {[taken |-> 45, working |-> 45]}
=============================================================================
