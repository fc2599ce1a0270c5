----------------------------- MODULE Attribution -----------------------------
(***************************************************************************)
(* What the evaluation makes of the two runs when they are over: the       *)
(* marks that _attribute of src/src/trader/eval/news_replay.py puts on     *)
(* each veto, from the dates alone.  A history that ends at any bar is one *)
(* the evaluation may be given, so every state of TrendSim is a result.    *)
(***************************************************************************)
EXTENDS TrendSim

\* Slip: the bar before the veto is compared with any veto that came earlier.
FirstEver(v) == \A w \in vetoed : w >= v

\* A veto starts a window unless the bar before it was vetoed as well.
FirstOfWindow(v) == v - 1 \notin vetoed

\* Slip: the trade is looked up by the day of the decision.
PricesSameDay(t, v) == t \in Result("baseline") /\ t.entry = v

\* The veto is priced by the baseline trade entered on the bar after it.
Prices(t, v) == t \in Result("baseline") /\ t.entry = v + 1

\* Slip: any later entry counts, as in "the filtered arm got in anyway".
ReenteredEver(t, v, f) == f \in Result("filtered") /\ v < f.entry

\* The filtered arm entered after the veto and before that trade was over.
ReenteredBy(t, v, f) == f \in Result("filtered") /\ v < f.entry /\ f.entry < t.exit

-----------------------------------------------------------------------------
(* What must hold. *)

\* Blocked opportunities are never merged: a veto that starts no window is
\* the retry of an earlier one of the same leg.
NoWindowMerged == \A v \in vetoed : ~FirstOfWindow(v) => v \in retried

\* A block that counts as merely delayed was delayed within its leg: no
\* breakdown lies between the veto and the entry that is credited to it.
ReentryInSameLeg ==
  \A v \in vetoed, t \in Result("baseline"), f \in Result("filtered") :
    Prices(t, v) /\ ReenteredBy(t, v, f) => \A d \in downs : d < v \/ d >= f.entry

\* The baseline was stopped by bar v, and no breakdown came between.
ReenteredAfterStop(v) ==
  \E u \in trades["baseline"] :
    u.reason = "cat_stop" /\ u.exit <= v /\ \A d \in downs : d < u.exit \/ d > v

\* What a veto prevented is priced once and at the right trade.  A veto that retries
\* nothing is priced, or falls into a trade of the baseline.  A retry "won't match --
\* the baseline already entered on the original breakout": it does match, but only
\* when the baseline was stopped in the leg meanwhile and enters it again.
VetoesArePriced ==
  /\ \A v \in vetoed \ retried : v < now =>
       \E t \in Result("baseline") : Prices(t, v) \/ (t.entry <= v /\ v < t.exit)
  /\ \A v \in retried, t \in Result("baseline") : Prices(t, v) => ReenteredAfterStop(v)

-----------------------------------------------------------------------------
(* What the repository says and the code does not keep. *)

\* desired_long: "a faithful, replay-free read of the same trend state the
\* backtest simulates", from the first trade of the simulation on.
FaithfulRead == Result("baseline") # {} => (DesiredLong <=> SimulatedLong("baseline"))
=============================================================================
