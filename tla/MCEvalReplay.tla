---------------------------- MODULE MCEvalReplay ----------------------------
(* Small instances of EvalReplay for TLC. *)
EXTENDS EvalReplay

CONSTANTS A, B, C

OneKey == {<<A, 1>>}
=============================================================================
