----------------------------- MODULE MCLlmTick -----------------------------
(* Small instances of LlmTick for TLC. *)
EXTENDS LlmTick

CONSTANTS A, B, X
=============================================================================
