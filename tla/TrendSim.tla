------------------------------ MODULE TrendSim ------------------------------
(***************************************************************************)
(* The backtest of one symbol: backtest_trend of                           *)
(* src/src/trader/backtest/trend.py, run several times over the same bars  *)
(* by the evaluation of the news filter (src/src/trader/eval).  An arm is  *)
(* one of those runs:                                                      *)
(*   baseline   no veto is passed                                          *)
(*   open       the probe that records its calls and blocks nothing        *)
(*   blocked    the probe that records its calls and blocks every one      *)
(*   filtered   the veto of the evaluation: the scored day decides         *)
(* The arms do not interact, so they advance together, one bar per step.   *)
(*                                                                         *)
(* A bar is what the loop makes of its prices: whether the close broke out *)
(* above the entry channel or down through the exit channel, whether it is *)
(* above its average, and which positions' stops the low reached, told     *)
(* apart by the bar they were entered on (the same bar, the same price).   *)
(* Beside the arms runs the state that the live engine reads from the same *)
(* bars, desired_long.                                                     *)
(***************************************************************************)
EXTENDS Integers, FiniteSets

CONSTANTS MaxBars,     \* bound: the bars of the history after the warm-up
          UseRegime    \* use_regime_filter

ASSUME TrendSimAssumption == MaxBars \in Nat /\ UseRegime \in BOOLEAN

Arms == {"baseline", "open", "blocked", "filtered"}
Bars == 1 .. MaxBars
Kinds == {"breakout", "breakdown", "inside"}
Trades == [entry : Bars, exit : Bars, reason : {"trend_exit", "cat_stop", "eod"}]

VARIABLES
  now,         \* the bar the loop has processed last
  pos,         \* of each arm: the bar its position was entered on, 0 for none
  pending,     \* of each arm: what it does at the next open
  deferred,    \* of each arm: a vetoed entry is being retried
  trades,      \* of each arm: the trades it has closed
  asked,       \* of each arm: the bars on which it would call a veto
  vetoed,      \* the bars on which the filtered arm was blocked
  retried,     \* history: those of them on which it was retrying
  leg,         \* last breakout later than last breakdown, warm-up included
  downs,       \* the bars with a breakdown
  regime,      \* the last close is above its average
  plain        \* history: no leg at the start, no stop and no bar below average

armVars == <<pos, pending, deferred, trades, asked>>
vars == <<now, armVars, vetoed, retried, leg, downs, regime, plain>>

TypeOK ==
  /\ now \in 0 .. MaxBars
  /\ pos \in [Arms -> 0 .. MaxBars]
  /\ pending \in [Arms -> {"none", "enter", "exit"}]
  /\ deferred \in [Arms -> BOOLEAN]
  /\ trades \in [Arms -> SUBSET Trades]
  /\ asked \in [Arms -> SUBSET Bars]
  /\ vetoed \subseteq Bars
  /\ retried \subseteq vetoed
  /\ downs \subseteq Bars
  /\ leg \in BOOLEAN /\ regime \in BOOLEAN /\ plain \in BOOLEAN

Init ==
  /\ now = 0
  /\ pos = [a \in Arms |-> 0]
  /\ pending = [a \in Arms |-> "none"]
  /\ deferred = [a \in Arms |-> FALSE]
  /\ trades = [a \in Arms |-> {}]
  /\ asked = [a \in Arms |-> {}]
  /\ vetoed = {}
  /\ retried = {}
  /\ leg \in BOOLEAN
  /\ downs = {}
  /\ regime \in BOOLEAN
  /\ plain = (~leg /\ regime)

-----------------------------------------------------------------------------
(* One bar of one arm. *)

\* At the open, what was decided at the prior close is executed ...
Opens(a) == pending[a] = "enter" /\ pos[a] = 0
\* (Slip: the position is sold and kept.)
NeverSold(a) == IF Opens(a) THEN now + 1 ELSE pos[a]

AfterOpen(a) ==
  IF Opens(a) THEN now + 1 ELSE IF pending[a] = "exit" THEN 0 ELSE pos[a]

\* ... during the session the catastrophic stop may hit, except on the bar of
\* the entry itself ...
\* (Slip: the check forgets that there may be no position.)
StoppedAny(a, hit) == AfterOpen(a) \in hit \ {now + 1}

Stopped(a, hit) == AfterOpen(a) \in hit \ {0, now + 1}

\* (Slip: the position survives its stop.)
FlatAtTheOpen(a, hit) == AfterOpen(a) = 0

Flat(a, hit) == AfterOpen(a) = 0 \/ Stopped(a, hit)

Trade(from, to, why) == [entry |-> from, exit |-> to, reason |-> why]
Closed(a, hit) ==
  (IF pending[a] = "exit" /\ pos[a] # 0 THEN {Trade(pos[a], now + 1, "trend_exit")} ELSE {})
    \cup (IF Stopped(a, hit) THEN {Trade(AfterOpen(a), now + 1, "cat_stop")} ELSE {})

\* ... and at the close the next action is decided.
RegimeOk(above) == ~UseRegime \/ above

\* Slip: a vetoed entry is retried after the leg has ended.
RetryForever(a, kind) == deferred[a]

Retry(a, kind) == deferred[a] /\ kind # "breakdown"

\* Slip: a fresh breakout does not reach the veto while one is waiting.
NotTwice(a, kind, above, hit) ==
  Flat(a, hit) /\ kind = "breakout" /\ ~deferred[a] /\ RegimeOk(above)

Candidate(a, kind, above, hit) ==
  Flat(a, hit) /\ (kind = "breakout" \/ Retry(a, kind)) /\ RegimeOk(above)

\* Slip: the veto of the filtered arm reaches the baseline.
BlocksAll(a, verdict) == a = "blocked" \/ (a # "open" /\ verdict)

\* Slip: the blocking probe is run with its default.
BlocksLazily(a, verdict) == a = "filtered" /\ verdict

Blocks(a, verdict) == a = "blocked" \/ (a = "filtered" /\ verdict)

\* Slip: a bar on which the entry is not asked for ends the retry.
DeferredOnce(a, kind, above, hit, verdict) ==
  IF Candidate(a, kind, above, hit) THEN Blocks(a, verdict) ELSE FALSE

Deferred(a, kind, above, hit, verdict) ==
  IF Candidate(a, kind, above, hit) THEN Blocks(a, verdict)
  ELSE Flat(a, hit) /\ Retry(a, kind)

\* Slip: above its average a position outlives a breakdown.
SellsBelowAverage(a, kind, above, hit, verdict) ==
  IF ~Flat(a, hit) THEN IF kind = "breakdown" /\ ~above THEN "exit" ELSE "none"
  ELSE IF Candidate(a, kind, above, hit) /\ ~Blocks(a, verdict) THEN "enter" ELSE "none"

Decision(a, kind, above, hit, verdict) ==
  IF ~Flat(a, hit) THEN IF kind = "breakdown" THEN "exit" ELSE "none"
  ELSE IF Candidate(a, kind, above, hit) /\ ~Blocks(a, verdict) THEN "enter" ELSE "none"

NextBar(kind, above, hit, verdict) ==
  /\ now < MaxBars
  /\ now' = now + 1
  /\ pos' = [a \in Arms |-> IF Flat(a, hit) THEN 0 ELSE AfterOpen(a)]
  /\ pending' = [a \in Arms |-> Decision(a, kind, above, hit, verdict)]
  /\ deferred' = [a \in Arms |-> Deferred(a, kind, above, hit, verdict)]
  /\ trades' = [a \in Arms |-> trades[a] \cup Closed(a, hit)]
  /\ asked' = [a \in Arms |-> asked[a] \cup
                 (IF Candidate(a, kind, above, hit) THEN {now + 1} ELSE {})]
  /\ LET blocked == Candidate("filtered", kind, above, hit) /\ verdict
     IN  /\ vetoed' = vetoed \cup (IF blocked THEN {now + 1} ELSE {})
         /\ retried' = retried \cup
              (IF blocked /\ Retry("filtered", kind) THEN {now + 1} ELSE {})
  /\ leg' = (kind = "breakout" \/ (leg /\ kind # "breakdown"))
  /\ downs' = downs \cup (IF kind = "breakdown" THEN {now + 1} ELSE {})
  /\ regime' = above
  /\ plain' = (plain /\ above /\ ~Stopped("baseline", hit))

\* The stops a bar can reach are those of the positions there are.
Next ==
  \E kind \in Kinds, above, verdict \in BOOLEAN, hit \in SUBSET {pos[a] : a \in Arms} :
    NextBar(kind, above, hit, verdict)

Spec == Init /\ [][Next]_vars

\* What the run returns if the history ends here: a position still open is
\* closed at the last bar.
Result(a) ==
  trades[a] \cup (IF pos[a] # 0 THEN {Trade(pos[a], now, "eod")} ELSE {})

-----------------------------------------------------------------------------
(* What must hold. *)

\* "With veto=None this retry branch is unreachable and the simulation is
\* unchanged": a veto that never blocks changes nothing, at any bar.
OpenIsBaseline ==
  /\ pos["open"] = pos["baseline"]
  /\ pending["open"] = pending["baseline"]
  /\ trades["open"] = trades["baseline"]
  /\ asked["open"] = asked["baseline"]

\* The blocking probe is asked on every bar any policy could be asked on: it
\* is the upper bound of the scoring cost.
ProbeIsSuperset == \A a \in Arms : asked[a] \subseteq asked["blocked"]

\* No arm enters outside a leg: a retry never outlives the leg it is for, so
\* an entry has a breakout that no breakdown has answered.
EntriesInLegs == \A a \in Arms : pending[a] = "enter" => leg

\* The trades of an arm follow one another, so a bar has at most one entry
\* and an evaluation may look trades up by it.
TradesDisjoint ==
  \A a \in Arms : \A t, u \in Result(a) :
    t.entry <= t.exit /\ (t # u => t.exit < u.entry \/ u.exit < t.entry)

\* No trade looks ahead or lags: of every arm, it was asked for, and by the filter
\* let through, on the bar before its entry, it is held through no breakdown, and
\* it is sold by trend only on the bar after one.
Justified(a, t) ==
  /\ t.entry - 1 \in asked[a]
  /\ a = "filtered" => t.entry - 1 \notin vetoed
  /\ \A d \in downs : d < t.entry \/ d + 1 >= t.exit
  /\ t.reason = "trend_exit" => t.exit - 1 \in downs
TradesFollowDecisions == \A a \in Arms : \A t \in Result(a) : Justified(a, t)

\* No trade of the baseline disappears unexplained: when it decides to enter,
\* the filtered arm decides the same, or was vetoed on this very bar, or is
\* in a position already.
NothingLostUnasked ==
  pending["baseline"] = "enter" =>
    pending["filtered"] = "enter" \/ now \in vetoed \/ pos["filtered"] # 0

\* A vetoed entry is retried exactly as long as its leg lasts and nothing was
\* entered since.
RetryLastsTheLeg ==
  deferred["filtered"] <=>
    /\ pos["filtered"] = 0 /\ pending["filtered"] = "none"
    /\ \E v \in vetoed : /\ \A d \in downs : d < v
                         /\ \A t \in trades["filtered"] : t.entry <= v

\* An arm is in the market, or will be at the next open.
SimulatedLong(a) ==
  \/ pos[a] # 0 /\ pending[a] # "exit"
  \/ pending[a] = "enter"

\* The baseline was stopped after the last breakdown.
StoppedInLeg ==
  \E t \in trades["baseline"] : t.reason = "cat_stop" /\ \A d \in downs : d < t.exit

\* "News can only block, not initiate": a veto delays an entry and adds no exposure.
\* An arm is in the market only while the baseline is, but for a leg in which the
\* baseline was stopped: the delayed entry has another price, and so another stop.
VetoOnlyDelays ==
  \A a \in Arms : SimulatedLong(a) => SimulatedLong("baseline") \/ StoppedInLeg

\* What the live engine reads from the bars: desired_long.
DesiredLong == leg /\ (UseRegime => regime)

\* On a history with no leg before its first bar, no stop and every close
\* above the average, the live read and the simulation agree on every bar.
LiveReadAgrees == plain => (DesiredLong <=> SimulatedLong("baseline"))
=============================================================================
