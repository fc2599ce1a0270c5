----------------------------- MODULE ScoreMemo -----------------------------
(***************************************************************************)
(* What the score cache promises the evaluation (src/src/trader/eval/      *)
(* cache.py: "re-runs free"), with nothing said of threads: a sequential   *)
(* table of verdicts.  A process opens it with what is on file, or with    *)
(* nothing when it cannot read the file; it pays for a verdict only if it  *)
(* has none, learns each verdict once, and either closes the table, which  *)
(* keeps all it knows and nothing else, or is lost with it.                *)
(***************************************************************************)
EXTENDS Integers

CONSTANTS Keys, Records, Verdicts

VARIABLES open,     \* a process has the table in memory
          file,     \* what is on file
          known,    \* what the process has in memory
          pending,  \* the keys it has paid for and has no verdict of yet
          paid,     \* the payments made for each key
          lost,     \* the processes that ended without closing
          blank     \* the processes that could not read what is on file

memoVars == <<open, file, known, pending, paid, lost, blank>>

Unknown == [k \in Keys |-> "none"]

Init ==
  /\ ~open /\ known = Unknown /\ pending = {}
  /\ file \in [Keys -> Records]
  /\ paid = [k \in Keys |-> 0] /\ lost = 0 /\ blank = 0

Open ==
  /\ ~open
  /\ open' = TRUE /\ known' = file
  /\ UNCHANGED <<file, pending, paid, lost, blank>>

OpenBlank ==
  /\ ~open /\ file # Unknown
  /\ open' = TRUE /\ known' = Unknown
  /\ blank' = blank + 1
  /\ UNCHANGED <<file, pending, paid, lost>>

Pay(k) ==
  /\ open /\ known[k] = "none" /\ k \notin pending
  /\ pending' = pending \cup {k}
  /\ paid' = [paid EXCEPT ![k] = @ + 1]
  /\ UNCHANGED <<open, file, known, lost, blank>>

\* Paid for or not: without headlines there is nothing to pay for.
Learn(k, verdict) ==
  /\ open /\ known[k] = "none"
  /\ known' = [known EXCEPT ![k] = verdict]
  /\ pending' = pending \ {k}
  /\ UNCHANGED <<open, file, paid, lost, blank>>

Close ==
  /\ open /\ pending = {}
  /\ file' = known
  /\ open' = FALSE /\ known' = Unknown
  /\ UNCHANGED <<pending, paid, lost, blank>>

Lose ==
  /\ open
  /\ open' = FALSE /\ known' = Unknown /\ pending' = {}
  /\ lost' = lost + 1
  /\ UNCHANGED <<file, paid, blank>>

Next ==
  \/ Open \/ OpenBlank \/ Close \/ Lose
  \/ \E k \in Keys : Pay(k) \/ \E verdict \in Verdicts : Learn(k, verdict)

Spec == Init /\ [][Next]_memoVars
=============================================================================
