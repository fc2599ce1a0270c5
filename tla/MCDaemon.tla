------------------------------ MODULE MCDaemon ------------------------------
(* Small instances of Daemon for TLC. *)
EXTENDS Daemon

CONSTANTS A, B

TwoSymbols == <<A, B>>

Reply(label, confidence, earnings) ==
  [json |-> TRUE, label |-> label, confidence |-> confidence, earnings |-> earnings]

\* Bad news, and the same without JSON; a label nobody asked for, with earnings denied
\* as a text.
SomeReplies ==
  {Reply("bearish", "high", "false"), Reply("gloomy", "high", "no"),
   [Reply("bearish", "high", "true") EXCEPT !.json = FALSE]}
=============================================================================
