-------------------------- MODULE TrendSim_proofs --------------------------
(***************************************************************************)
(* What TLAPS proves of TrendSim: the comparison of the arms holds for a   *)
(* history of any length, with the regime filter and without.              *)
(***************************************************************************)
EXTENDS TrendSim, TLAPS

\* The bars the program may see, and the arms a proof names.
LEMMA ArmNames == "baseline" \in Arms /\ "open" \in Arms /\ "blocked" \in Arms /\ "filtered" \in Arms
BY DEF Arms

\* Without a blocking veto nothing is ever deferred.
NeverDeferred == ~deferred["baseline"] /\ ~deferred["open"]

\* The arm that blocks every call stays flat and waits wherever another waits.
BlockedWaits ==
  /\ pos["blocked"] = 0 /\ pending["blocked"] = "none"
  /\ \A a \in Arms : deferred[a] => deferred["blocked"]

\* What is deferred belongs to a leg that is still alive.
DeferredInLeg == \A a \in Arms : deferred[a] => leg

-----------------------------------------------------------------------------
(* The identity: a veto that never blocks changes nothing. *)

LEMMA NeverDeferredStep ==
  ASSUME NeverDeferred, [Next]_vars
  PROVE  NeverDeferred'
<1>1. ASSUME NEW kind \in Kinds, NEW above \in BOOLEAN, NEW verdict \in BOOLEAN, NEW hit,
             NextBar(kind, above, hit, verdict)
      PROVE  NeverDeferred'
  <2>1. ASSUME NEW a \in {"baseline", "open"} PROVE ~Deferred(a, kind, above, hit, verdict)
    BY <2>1, Zenon DEF NeverDeferred, Deferred, Blocks, Retry
  <2>2. ASSUME NEW a \in Arms PROVE deferred'[a] = Deferred(a, kind, above, hit, verdict)
    BY <1>1, <2>2 DEF NextBar
  <2>. QED
    BY <2>1, <2>2, ArmNames, Zenon DEF NeverDeferred
<1>2. CASE UNCHANGED vars
  BY <1>2 DEF vars, armVars, NeverDeferred
<1>. QED
  BY <1>1, <1>2 DEF Next

\* The two arms see the same bar in the same way.
LEMMA OpenStep ==
  ASSUME OpenIsBaseline, NeverDeferred, [Next]_vars
  PROVE  OpenIsBaseline'
<1>1. ASSUME NEW kind \in Kinds, NEW above \in BOOLEAN, NEW verdict \in BOOLEAN, NEW hit,
             NextBar(kind, above, hit, verdict)
      PROVE  OpenIsBaseline'
  <2>1. AfterOpen("open") = AfterOpen("baseline")
    BY DEF OpenIsBaseline, AfterOpen, Opens
  <2>2. Stopped("open", hit) <=> Stopped("baseline", hit)
    BY <2>1 DEF Stopped
  <2>3. Flat("open", hit) <=> Flat("baseline", hit)
    BY <2>1, <2>2 DEF Flat
  <2>4. Closed("open", hit) = Closed("baseline", hit)
    BY <2>1, <2>2 DEF OpenIsBaseline, Closed
  <2>5. Candidate("open", kind, above, hit) <=> Candidate("baseline", kind, above, hit)
    BY <2>3 DEF Candidate, Retry, NeverDeferred
  <2>6. Decision("open", kind, above, hit, verdict) = Decision("baseline", kind, above, hit, verdict)
    BY <2>3, <2>5 DEF Decision, Blocks
  <2>7. pos'["open"] = pos'["baseline"]
    BY <1>1, <2>1, <2>3, ArmNames DEF NextBar
  <2>8. pending'["open"] = pending'["baseline"]
    BY <1>1, <2>6, ArmNames DEF NextBar
  <2>9. trades'["open"] = trades'["baseline"]
    BY <1>1, <2>4, ArmNames DEF NextBar, OpenIsBaseline
  <2>10. asked'["open"] = asked'["baseline"]
    BY <1>1, <2>5, ArmNames DEF NextBar, OpenIsBaseline
  <2>. QED
    BY <2>7, <2>8, <2>9, <2>10 DEF OpenIsBaseline
<1>2. CASE UNCHANGED vars
  BY <1>2 DEF vars, armVars, OpenIsBaseline
<1>. QED
  BY <1>1, <1>2 DEF Next

\* The A/B comparison is honest: with a veto that never blocks, the run is the
\* run without a veto, trade for trade, however long the history.
THEOREM Identity == Spec => []OpenIsBaseline
<1>1. Init => NeverDeferred /\ OpenIsBaseline
  BY ArmNames DEF Init, NeverDeferred, OpenIsBaseline
<1>2. NeverDeferred /\ OpenIsBaseline /\ [Next]_vars => (NeverDeferred /\ OpenIsBaseline)'
  BY NeverDeferredStep, OpenStep
<1>. QED
  BY <1>1, <1>2, PTL DEF Spec

-----------------------------------------------------------------------------
(* The bound on the scoring cost. *)

LEMMA BlockedWaitsStep ==
  ASSUME BlockedWaits, [Next]_vars
  PROVE  BlockedWaits'
<1>1. ASSUME NEW kind \in Kinds, NEW above \in BOOLEAN, NEW verdict \in BOOLEAN, NEW hit,
             NextBar(kind, above, hit, verdict)
      PROVE  BlockedWaits'
  <2>1. AfterOpen("blocked") = 0 /\ Flat("blocked", hit)
    BY DEF BlockedWaits, AfterOpen, Opens, Flat
  <2>2. pos'["blocked"] = 0
    BY <1>1, <2>1, ArmNames DEF NextBar
  <2>3. pending'["blocked"] = "none"
    BY <1>1, <2>1, ArmNames DEF NextBar, Decision, Blocks
  <2>4. ASSUME NEW a \in Arms, Deferred(a, kind, above, hit, verdict)
        PROVE  Deferred("blocked", kind, above, hit, verdict)
    <3>1. CASE Candidate("blocked", kind, above, hit)
      BY <3>1 DEF Deferred, Blocks
    <3>2. CASE ~Candidate("blocked", kind, above, hit)
      <4>1. ~Candidate(a, kind, above, hit)
        BY <2>1, <3>2, Zenon DEF Candidate, Retry, BlockedWaits
      <4>2. Retry(a, kind)
        BY <2>4, <4>1, Zenon DEF Deferred
      <4>3. Retry("blocked", kind)
        BY <4>2, Zenon DEF Retry, BlockedWaits
      <4>. QED
        BY <2>1, <3>2, <4>3, Zenon DEF Deferred
    <3>. QED
      BY <3>1, <3>2
  <2>5. \A a \in Arms : deferred'[a] = Deferred(a, kind, above, hit, verdict)
    BY <1>1 DEF NextBar
  <2>6. \A a \in Arms : deferred'[a] => deferred'["blocked"]
    BY <2>4, <2>5, ArmNames, Zenon
  <2>. QED
    BY <2>2, <2>3, <2>6, Zenon DEF BlockedWaits
<1>2. CASE UNCHANGED vars
  BY <1>2 DEF vars, armVars, BlockedWaits
<1>. QED
  BY <1>1, <1>2 DEF Next

LEMMA SupersetStep ==
  ASSUME BlockedWaits, ProbeIsSuperset, [Next]_vars
  PROVE  ProbeIsSuperset'
<1>1. ASSUME NEW kind \in Kinds, NEW above \in BOOLEAN, NEW verdict \in BOOLEAN, NEW hit,
             NextBar(kind, above, hit, verdict), NEW a \in Arms
      PROVE  asked'[a] \subseteq asked'["blocked"]
  <2>1. Candidate(a, kind, above, hit) => Candidate("blocked", kind, above, hit)
    <3>1. Flat("blocked", hit)
      BY DEF BlockedWaits, AfterOpen, Opens, Flat
    <3>. QED
      BY <3>1, Zenon DEF Candidate, Retry, BlockedWaits
  <2>2. asked[a] \subseteq asked["blocked"]
    BY <1>1 DEF ProbeIsSuperset
  <2>. QED
    BY <1>1, <2>1, <2>2, ArmNames DEF NextBar
<1>2. CASE UNCHANGED vars
  BY <1>2 DEF vars, armVars, ProbeIsSuperset
<1>. QED
  BY <1>1, <1>2 DEF Next, ProbeIsSuperset

\* Whatever the filter decides, it is asked only where the probe that blocks
\* everything was asked: the plan's upper bound is one.
THEOREM UpperBound == Spec => []ProbeIsSuperset
<1>1. Init => BlockedWaits /\ ProbeIsSuperset
  BY ArmNames DEF Init, BlockedWaits, ProbeIsSuperset
<1>2. BlockedWaits /\ ProbeIsSuperset /\ [Next]_vars => (BlockedWaits /\ ProbeIsSuperset)'
  BY BlockedWaitsStep, SupersetStep
<1>. QED
  BY <1>1, <1>2, PTL DEF Spec

-----------------------------------------------------------------------------
(* Entries belong to legs. *)

\* A candidate has a leg that the bar does not end.
LEMMA CandidateInLeg ==
  ASSUME DeferredInLeg, NEW a \in Arms, NEW kind \in Kinds, NEW above, NEW hit, NEW verdict,
         NextBar(kind, above, hit, verdict),
         Candidate(a, kind, above, hit) \/ Retry(a, kind)
  PROVE  leg'
<1>1. kind = "breakout" \/ (deferred[a] /\ kind # "breakdown")
  BY Zenon DEF Candidate, Retry
<1>2. kind = "breakout" \/ (leg /\ kind # "breakdown")
  BY <1>1, Zenon DEF DeferredInLeg
<1>3. leg' = (kind = "breakout" \/ (leg /\ kind # "breakdown"))
  BY DEF NextBar
<1>. QED
  BY <1>2, <1>3, Zenon

LEMMA LegStep ==
  ASSUME DeferredInLeg, EntriesInLegs, [Next]_vars
  PROVE  DeferredInLeg' /\ EntriesInLegs'
<1>1. ASSUME NEW kind \in Kinds, NEW above \in BOOLEAN, NEW verdict \in BOOLEAN, NEW hit,
             NextBar(kind, above, hit, verdict), NEW a \in Arms
      PROVE  (deferred'[a] => leg') /\ (pending'[a] = "enter" => leg')
  <2>1. deferred'[a] = Deferred(a, kind, above, hit, verdict)
    BY <1>1 DEF NextBar
  <2>2. Deferred(a, kind, above, hit, verdict) => Candidate(a, kind, above, hit) \/ Retry(a, kind)
    BY Zenon DEF Deferred
  <2>3. pending'[a] = "enter" => Candidate(a, kind, above, hit)
    BY <1>1 DEF NextBar, Decision
  <2>. QED
    BY <1>1, <2>1, <2>2, <2>3, CandidateInLeg, Zenon
<1>2. CASE UNCHANGED vars
  BY <1>2 DEF vars, armVars, DeferredInLeg, EntriesInLegs
<1>. QED
  BY <1>1, <1>2 DEF Next, DeferredInLeg, EntriesInLegs

\* No arm, vetoed or not, enters after the leg it saw has broken down.
THEOREM LegsOnly == Spec => []EntriesInLegs
<1>1. Init => DeferredInLeg /\ EntriesInLegs
  BY DEF Init, DeferredInLeg, EntriesInLegs
<1>2. DeferredInLeg /\ EntriesInLegs /\ [Next]_vars => (DeferredInLeg /\ EntriesInLegs)'
  BY LegStep
<1>. QED
  BY <1>1, <1>2, PTL DEF Spec

-----------------------------------------------------------------------------
(* What the filter may do to the baseline's trades. *)

\* The baseline decides to enter on a breakout, and a breakout is put to every
\* arm that is flat.
LEMMA NothingLostStep ==
  ASSUME NeverDeferred, NothingLostUnasked, [Next]_vars
  PROVE  NothingLostUnasked'
<1>1. ASSUME NEW kind \in Kinds, NEW above \in BOOLEAN, NEW verdict \in BOOLEAN, NEW hit,
             NextBar(kind, above, hit, verdict), pending'["baseline"] = "enter"
      PROVE  pending'["filtered"] = "enter" \/ now' \in vetoed' \/ pos'["filtered"] # 0
  <2>1. Candidate("baseline", kind, above, hit)
    BY <1>1, ArmNames DEF NextBar, Decision
  <2>2. kind = "breakout" /\ RegimeOk(above)
    BY <2>1 DEF Candidate, Retry, NeverDeferred
  <2>3. CASE ~Flat("filtered", hit)
    <3>1. pos'["filtered"] = AfterOpen("filtered")
      BY <1>1, <2>3, ArmNames DEF NextBar
    <3>. QED
      BY <2>3, <3>1 DEF Flat
  <2>4. CASE Flat("filtered", hit)
    <3>1. Candidate("filtered", kind, above, hit)
      BY <2>2, <2>4, Zenon DEF Candidate
    <3>2. CASE verdict
      BY <1>1, <3>1, <3>2 DEF NextBar
    <3>3. CASE ~verdict
      BY <1>1, <2>4, <3>1, <3>3, ArmNames DEF NextBar, Decision, Blocks
    <3>. QED
      BY <3>2, <3>3
  <2>. QED
    BY <2>3, <2>4
<1>2. CASE UNCHANGED vars
  BY <1>2 DEF vars, armVars, NothingLostUnasked
<1>. QED
  BY <1>1, <1>2 DEF Next, NothingLostUnasked

\* No baseline trade is lost without a veto on its own decision bar, unless
\* the filtered arm is in a position at the time.
THEOREM NothingLost == Spec => []NothingLostUnasked
<1>1. Init => NeverDeferred /\ NothingLostUnasked
  BY ArmNames DEF Init, NeverDeferred, NothingLostUnasked
<1>2. NeverDeferred /\ NothingLostUnasked /\ [Next]_vars => (NeverDeferred /\ NothingLostUnasked)'
  BY NeverDeferredStep, NothingLostStep
<1>. QED
  BY <1>1, <1>2, PTL DEF Spec

-----------------------------------------------------------------------------
(* The trades an arm returns. *)

\* Every closed trade lies before the position that is open, if there is one.
TradeOrder ==
  /\ now \in Nat
  /\ \A a \in Arms :
       /\ pos[a] \in 0 .. now
       /\ \A t \in trades[a] : /\ t.entry \in 1 .. now /\ t.exit \in 1 .. now
                               /\ t.entry <= t.exit
                               /\ pos[a] # 0 => t.exit < pos[a]
       /\ \A t, u \in trades[a] : t # u => t.exit < u.entry \/ u.exit < t.entry

\* A bar closes the position that was open, if any, and leaves none.
LEMMA ClosedIsThePosition ==
  ASSUME TradeOrder, NEW a \in Arms, NEW hit, NEW t \in Closed(a, hit)
  PROVE  /\ t.entry = pos[a] /\ t.exit = now + 1 /\ pos[a] # 0 /\ Flat(a, hit)
         /\ Closed(a, hit) = {t}
<1>1. pos[a] \in 0 .. now /\ now \in Nat
  BY DEF TradeOrder
<1>2. CASE pending[a] = "exit" /\ pos[a] # 0
  <2>1. AfterOpen(a) = 0
    BY <1>2 DEF AfterOpen, Opens
  <2>2. ~Stopped(a, hit) /\ Flat(a, hit)
    BY <2>1 DEF Stopped, Flat
  <2>3. Closed(a, hit) = {Trade(pos[a], now + 1, "trend_exit")}
    BY <1>2, <2>2 DEF Closed
  <2>4. t = Trade(pos[a], now + 1, "trend_exit")
    BY <2>3
  <2>. QED
    BY <1>2, <2>2, <2>3, <2>4 DEF Trade
<1>3. CASE ~(pending[a] = "exit" /\ pos[a] # 0)
  <2>1. Stopped(a, hit) /\ Closed(a, hit) = {Trade(AfterOpen(a), now + 1, "cat_stop")}
    BY <1>3 DEF Closed
  <2>2. AfterOpen(a) = pos[a] /\ pos[a] # 0
    BY <1>1, <2>1 DEF Stopped, AfterOpen
  <2>3. t = Trade(pos[a], now + 1, "cat_stop")
    BY <2>1, <2>2
  <2>4. Flat(a, hit)
    BY <2>1 DEF Flat
  <2>. QED
    BY <2>1, <2>2, <2>3, <2>4 DEF Trade
<1>. QED
  BY <1>2, <1>3

LEMMA TradeOrderStep ==
  ASSUME TradeOrder, [Next]_vars
  PROVE  TradeOrder'
<1>1. ASSUME NEW kind \in Kinds, NEW above \in BOOLEAN, NEW verdict \in BOOLEAN, NEW hit,
             NextBar(kind, above, hit, verdict)
      PROVE  TradeOrder'
  <2>1. now \in Nat /\ now' = now + 1
    BY <1>1 DEF NextBar, TradeOrder
  <2>2. ASSUME NEW a \in Arms
        PROVE  /\ pos'[a] \in 0 .. now'
               /\ \A t \in trades'[a] : /\ t.entry \in 1 .. now' /\ t.exit \in 1 .. now'
                                        /\ t.entry <= t.exit
                                        /\ pos'[a] # 0 => t.exit < pos'[a]
               /\ \A t, u \in trades'[a] : t # u => t.exit < u.entry \/ u.exit < t.entry
    <3>1. /\ pos[a] \in 0 .. now
          /\ \A t \in trades[a] : /\ t.entry \in 1 .. now /\ t.exit \in 1 .. now
                                  /\ t.entry <= t.exit
                                  /\ pos[a] # 0 => t.exit < pos[a]
          /\ \A t, u \in trades[a] : t # u => t.exit < u.entry \/ u.exit < t.entry
      BY DEF TradeOrder
    <3>2. /\ pos'[a] = IF Flat(a, hit) THEN 0 ELSE AfterOpen(a)
          /\ trades'[a] = trades[a] \cup Closed(a, hit)
      BY <1>1 DEF NextBar
    <3>3. AfterOpen(a) \in {0, pos[a], now + 1}
      BY DEF AfterOpen
    <3>4. pos'[a] \in 0 .. now'
      BY <2>1, <3>1, <3>2, <3>3
    <3>5. pos'[a] # 0 => pos'[a] = pos[a] \/ pos'[a] = now + 1
      BY <3>2, <3>3
    <3>6. CASE Closed(a, hit) = {}
      <4>1. trades'[a] = trades[a]
        BY <3>2, <3>6
      <4>. QED
        BY <2>1, <3>1, <3>4, <3>5, <4>1
    <3>7. ASSUME NEW c \in Closed(a, hit)
          PROVE  /\ \A t \in trades'[a] : /\ t.entry \in 1 .. now' /\ t.exit \in 1 .. now'
                                          /\ t.entry <= t.exit
                                          /\ pos'[a] # 0 => t.exit < pos'[a]
                 /\ \A t, u \in trades'[a] : t # u => t.exit < u.entry \/ u.exit < t.entry
      <4>1. /\ c.entry = pos[a] /\ c.exit = now + 1 /\ pos[a] # 0 /\ Flat(a, hit)
            /\ Closed(a, hit) = {c}
        BY ClosedIsThePosition
      <4>2. trades'[a] = trades[a] \cup {c} /\ pos'[a] = 0
        BY <3>2, <4>1
      <4>3. \A t \in trades[a] : t.exit < c.entry
        BY <3>1, <4>1
      <4>. QED
        BY <2>1, <3>1, <4>1, <4>2, <4>3
    <3>. QED
      BY <3>4, <3>6, <3>7
  <2>. QED
    BY <2>1, <2>2 DEF TradeOrder
<1>2. CASE UNCHANGED vars
  BY <1>2 DEF vars, armVars, TradeOrder
<1>. QED
  BY <1>1, <1>2 DEF Next

\* An arm's trades never overlap and no two start on the same bar, so looking
\* a trade up by its entry is well defined.
THEOREM TradesApart == Spec => []TradesDisjoint
<1>1. Init => TradeOrder
  BY DEF Init, TradeOrder
<1>2. TradeOrder /\ [Next]_vars => TradeOrder'
  BY TradeOrderStep
<1>3. TradeOrder => TradesDisjoint
  <2>. SUFFICES ASSUME TradeOrder, NEW a \in Arms, NEW t \in Result(a), NEW u \in Result(a)
                PROVE  t.entry <= t.exit /\ (t # u => t.exit < u.entry \/ u.exit < t.entry)
    BY DEF TradesDisjoint
  <2>1. /\ pos[a] \in 0 .. now /\ now \in Nat
        /\ \A x \in trades[a] : /\ x.entry \in 1 .. now /\ x.exit \in 1 .. now
                                /\ x.entry <= x.exit
                                /\ pos[a] # 0 => x.exit < pos[a]
        /\ \A x, y \in trades[a] : x # y => x.exit < y.entry \/ y.exit < x.entry
    BY DEF TradeOrder
  <2>2. ASSUME NEW x \in Result(a), x \notin trades[a]
        PROVE  x = Trade(pos[a], now, "eod") /\ pos[a] # 0 /\ x.entry = pos[a] /\ x.exit = now
    BY <2>2 DEF Result, Trade
  <2>. QED
    BY <2>1, <2>2
<1>. QED
  BY <1>1, <1>2, <1>3, PTL DEF Spec

-----------------------------------------------------------------------------
(* Trades rest on the bar before. *)

\* What is pending was decided on the last bar, a position was decided on the bar
\* before its entry and has met no breakdown since but the last bar's, which sells it.
OnTime ==
  /\ downs \subseteq 1 .. now /\ vetoed \subseteq 1 .. now
  /\ \A a \in Arms :
       /\ pending[a] = "enter" => now \in asked[a] /\ (a = "filtered" => now \notin vetoed)
       /\ pending[a] = "exit" => now \in downs /\ pos[a] # 0
       /\ pos[a] # 0 =>
            /\ pos[a] - 1 \in asked[a]
            /\ a = "filtered" => pos[a] - 1 \notin vetoed
            /\ \A d \in downs : d < pos[a] \/ (d = now /\ pending[a] = "exit")
       /\ \A t \in trades[a] : Justified(a, t)

LEMMA OnTimeStep ==
  ASSUME TradeOrder, OnTime, [Next]_vars
  PROVE  OnTime'
<1>1. ASSUME NEW kind \in Kinds, NEW above \in BOOLEAN, NEW verdict \in BOOLEAN, NEW hit,
             NextBar(kind, above, hit, verdict)
      PROVE  OnTime'
  <2>. DEFINE blocked == Candidate("filtered", kind, above, hit) /\ verdict
  <2>1. /\ now \in Nat /\ now' = now + 1
        /\ downs' = downs \cup (IF kind = "breakdown" THEN {now + 1} ELSE {})
        /\ vetoed' = vetoed \cup (IF blocked THEN {now + 1} ELSE {})
    BY <1>1 DEF NextBar, TradeOrder
  <2>2. /\ downs \subseteq 1 .. now /\ vetoed \subseteq 1 .. now
        /\ downs' \subseteq 1 .. now' /\ vetoed' \subseteq 1 .. now'
    <3>1. downs \subseteq 1 .. now /\ vetoed \subseteq 1 .. now
      BY DEF OnTime
    <3>2. downs' \subseteq downs \cup {now + 1} /\ vetoed' \subseteq vetoed \cup {now + 1}
      BY <2>1
    <3>3. 1 .. now \subseteq 1 .. now' /\ now + 1 \in 1 .. now'
      BY <2>1
    <3>. QED
      BY <3>1, <3>2, <3>3
  <2>3. ASSUME NEW a \in Arms
        PROVE  /\ pending'[a] = "enter" => now' \in asked'[a] /\ (a = "filtered" => now' \notin vetoed')
               /\ pending'[a] = "exit" => now' \in downs' /\ pos'[a] # 0
               /\ pos'[a] # 0 =>
                    /\ pos'[a] - 1 \in asked'[a]
                    /\ a = "filtered" => pos'[a] - 1 \notin vetoed'
                    /\ \A d \in downs' : d < pos'[a] \/ (d = now' /\ pending'[a] = "exit")
               /\ \A t \in trades'[a] : Justified(a, t)'
    <3>. DEFINE asks == Candidate(a, kind, above, hit)
    <3>1. /\ pos'[a] = IF Flat(a, hit) THEN 0 ELSE AfterOpen(a)
          /\ pending'[a] = Decision(a, kind, above, hit, verdict)
          /\ trades'[a] = trades[a] \cup Closed(a, hit)
          /\ asked'[a] = asked[a] \cup (IF asks THEN {now + 1} ELSE {})
      BY <1>1 DEF NextBar
    <3>2. /\ pos[a] \in 0 .. now
          /\ \A t \in trades[a] : t.entry \in 1 .. now /\ t.exit \in 1 .. now
      BY DEF TradeOrder
    <3>3. /\ pending[a] = "enter" => now \in asked[a] /\ (a = "filtered" => now \notin vetoed)
          /\ pending[a] = "exit" => now \in downs /\ pos[a] # 0
          /\ pos[a] # 0 =>
               /\ pos[a] - 1 \in asked[a]
               /\ a = "filtered" => pos[a] - 1 \notin vetoed
               /\ \A d \in downs : d < pos[a] \/ (d = now /\ pending[a] = "exit")
          /\ \A t \in trades[a] : Justified(a, t)
      BY DEF OnTime
    <3>4. ~Flat(a, hit) => AfterOpen(a) # 0
      BY DEF Flat
    <3>5. pending'[a] = "enter" => now' \in asked'[a] /\ (a = "filtered" => now' \notin vetoed')
      <4>1. pending'[a] = "enter" => asks /\ ~Blocks(a, verdict)
        BY <3>1 DEF Decision
      <4>2. a = "filtered" /\ ~Blocks(a, verdict) => ~blocked
        BY DEF Blocks
      <4>3. now + 1 \notin vetoed
        BY <2>1, <2>2
      <4>. QED
        BY <2>1, <3>1, <4>1, <4>2, <4>3
    <3>6. pending'[a] = "exit" => now' \in downs' /\ pos'[a] # 0
      BY <2>1, <3>1, <3>4 DEF Decision
    <3>7. ASSUME pos'[a] # 0
          PROVE  /\ pos'[a] - 1 \in asked'[a]
                 /\ a = "filtered" => pos'[a] - 1 \notin vetoed'
                 /\ \A d \in downs' : d < pos'[a] \/ (d = now' /\ pending'[a] = "exit")
      <4>1. ~Flat(a, hit) /\ pos'[a] = AfterOpen(a)
        BY <3>1, <3>7
      <4>2. kind = "breakdown" => pending'[a] = "exit"
        BY <3>1, <4>1 DEF Decision
      <4>3. CASE Opens(a)
        <5>1. pos'[a] = now + 1 /\ pending[a] = "enter"
          BY <4>1, <4>3 DEF AfterOpen, Opens
        <5>2. now \in asked'[a] /\ (a = "filtered" => now \notin vetoed')
          BY <2>1, <3>1, <3>3, <5>1
        <5>3. \A d \in downs' : d < now + 1 \/ (d = now + 1 /\ pending'[a] = "exit")
          BY <2>1, <2>2, <4>2
        <5>. QED
          BY <2>1, <5>1, <5>2, <5>3
      <4>4. CASE ~Opens(a)
        <5>1. pos'[a] = pos[a] /\ pos[a] # 0 /\ pending[a] # "exit"
          BY <3>7, <4>1, <4>4 DEF AfterOpen
        <5>2. pos[a] - 1 \in asked'[a] /\ (a = "filtered" => pos[a] - 1 \notin vetoed')
          BY <2>1, <3>1, <3>2, <3>3, <5>1
        <5>3. \A d \in downs' : d < pos[a] \/ (d = now + 1 /\ pending'[a] = "exit")
          BY <2>1, <3>3, <4>2, <5>1
        <5>. QED
          BY <2>1, <5>1, <5>2, <5>3
      <4>. QED
        BY <4>3, <4>4
    <3>8. ASSUME NEW t \in trades'[a]
          PROVE  Justified(a, t)'
      <4>1. CASE t \in trades[a]
        <5>1. Justified(a, t) /\ t.entry \in 1 .. now /\ t.exit \in 1 .. now
          BY <3>2, <3>3, <4>1
        <5>2. t.entry - 1 \in asked'[a] /\ (a = "filtered" => t.entry - 1 \notin vetoed')
          BY <2>1, <3>1, <5>1 DEF Justified
        <5>3. \A d \in downs' : d < t.entry \/ d + 1 >= t.exit
          BY <2>1, <5>1 DEF Justified
        <5>4. t.reason = "trend_exit" => t.exit - 1 \in downs'
          BY <2>1, <5>1 DEF Justified
        <5>. QED
          BY <5>2, <5>3, <5>4 DEF Justified
      <4>2. CASE t \in Closed(a, hit)
        <5>1. t.entry = pos[a] /\ t.exit = now + 1 /\ pos[a] # 0
          BY <4>2, ClosedIsThePosition
        <5>2. t.entry - 1 \in asked'[a] /\ (a = "filtered" => t.entry - 1 \notin vetoed')
          BY <2>1, <3>1, <3>2, <3>3, <5>1
        <5>3. \A d \in downs' : d < t.entry \/ d + 1 >= t.exit
          BY <2>1, <3>2, <3>3, <5>1
        <5>4. t.reason = "trend_exit" => pending[a] = "exit"
          BY <4>2 DEF Closed, Trade
        <5>5. t.reason = "trend_exit" => t.exit - 1 \in downs'
          BY <2>1, <3>3, <5>1, <5>4
        <5>. QED
          BY <5>2, <5>3, <5>5 DEF Justified
      <4>. QED
        BY <3>1, <4>1, <4>2
    <3>. QED
      BY <3>5, <3>6, <3>7, <3>8
  <2>. QED
    BY <2>2, <2>3 DEF OnTime
<1>2. CASE UNCHANGED vars
  BY <1>2 DEF vars, armVars, OnTime, Justified
<1>. QED
  BY <1>1, <1>2 DEF Next

LEMMA OnTimeTrades ==
  ASSUME TradeOrder, OnTime, NEW a \in Arms, NEW t \in Result(a)
  PROVE  Justified(a, t)
<1>1. CASE t \in trades[a]
  BY <1>1 DEF OnTime
<1>2. CASE t \notin trades[a]
  <2>1. t = Trade(pos[a], now, "eod") /\ pos[a] # 0
    BY <1>2 DEF Result
  <2>2. t.entry = pos[a] /\ t.exit = now /\ t.reason = "eod"
    BY <2>1 DEF Trade
  <2>3. now \in Nat /\ pos[a] \in 0 .. now
    BY DEF TradeOrder
  <2>4. /\ pos[a] - 1 \in asked[a]
        /\ a = "filtered" => pos[a] - 1 \notin vetoed
        /\ \A d \in downs : d < pos[a] \/ d = now
    BY <2>1 DEF OnTime
  <2>5. \A d \in downs : d < t.entry \/ d + 1 >= t.exit
    BY <2>2, <2>3, <2>4
  <2>. QED
    BY <2>2, <2>4, <2>5 DEF Justified
<1>. QED
  BY <1>1, <1>2

LEMMA OnTimeInit ==
  ASSUME Init
  PROVE  OnTime
BY DEF Init, OnTime

\* No trade of any arm looks ahead or lags: its entry was asked for and let through on
\* the bar before, and it ends on the bar after the first breakdown at the latest.
THEOREM TradesAreOnTime == Spec => []TradesFollowDecisions
<1>1. Init => TradeOrder /\ OnTime
  BY OnTimeInit DEF Init, TradeOrder
<1>2. TradeOrder /\ OnTime /\ [Next]_vars => (TradeOrder /\ OnTime)'
  BY TradeOrderStep, OnTimeStep
<1>3. TradeOrder /\ OnTime => TradesFollowDecisions
  BY OnTimeTrades DEF TradesFollowDecisions
<1>. QED
  BY <1>1, <1>2, <1>3, PTL DEF Spec

-----------------------------------------------------------------------------
(* A veto adds no exposure. *)

\* An arm that is in the market or waits to be has the baseline in the market, or
\* stopped in this leg.
Shadowed ==
  \A a \in Arms :
    SimulatedLong(a) \/ deferred[a] => SimulatedLong("baseline") \/ StoppedInLeg

\* Which arms come out of a bar long or waiting: none out of a breakdown; without one,
\* those that were long and were not stopped, and those that have a candidate or wait.
LEMMA LongAfter ==
  ASSUME now \in Nat, NEW kind \in Kinds, NEW above \in BOOLEAN, NEW verdict \in BOOLEAN, NEW hit,
         NextBar(kind, above, hit, verdict), NEW a \in Arms
  PROVE  /\ SimulatedLong(a)' \/ deferred'[a] =>
              /\ kind # "breakdown"
              /\ SimulatedLong(a) \/ deferred[a] \/ (kind = "breakout" /\ RegimeOk(above))
         /\ SimulatedLong(a) => AfterOpen(a) # 0
         /\ ~SimulatedLong(a) => AfterOpen(a) = 0
         /\ ~Flat(a, hit) /\ kind # "breakdown" => SimulatedLong(a)'
<1>1. /\ pos'[a] = IF Flat(a, hit) THEN 0 ELSE AfterOpen(a)
      /\ pending'[a] = Decision(a, kind, above, hit, verdict)
      /\ deferred'[a] = Deferred(a, kind, above, hit, verdict)
  BY DEF NextBar
<1>2. (SimulatedLong(a) => AfterOpen(a) # 0) /\ (~SimulatedLong(a) => AfterOpen(a) = 0)
  <2>1. now + 1 # 0
    OBVIOUS
  <2>. QED
    BY <2>1 DEF SimulatedLong, AfterOpen, Opens
<1>3. CASE Flat(a, hit)
  <2>1. Candidate(a, kind, above, hit) =>
          RegimeOk(above) /\ (kind = "breakout" \/ (deferred[a] /\ kind # "breakdown"))
    BY Zenon DEF Candidate, Retry
  <2>2. SimulatedLong(a)' => Candidate(a, kind, above, hit)
    BY <1>1, <1>3 DEF SimulatedLong, Decision
  <2>3. deferred'[a] => Candidate(a, kind, above, hit) \/ (deferred[a] /\ kind # "breakdown")
    BY <1>1, Zenon DEF Deferred, Retry
  <2>. QED
    BY <1>2, <1>3, <2>1, <2>2, <2>3
<1>4. CASE ~Flat(a, hit)
  <2>1. ~Candidate(a, kind, above, hit)
    BY <1>4, Zenon DEF Candidate
  <2>2. ~deferred'[a]
    BY <1>1, <1>4, <2>1, Zenon DEF Deferred
  <2>3. AfterOpen(a) # 0 /\ pos'[a] = AfterOpen(a)
    BY <1>1, <1>4 DEF Flat
  <2>4. SimulatedLong(a)' <=> kind # "breakdown"
    BY <1>1, <1>4, <2>3 DEF SimulatedLong, Decision
  <2>. QED
    BY <1>2, <2>2, <2>3, <2>4
<1>. QED
  BY <1>3, <1>4

LEMMA ShadowedStep ==
  ASSUME OnTime, now \in Nat, NeverDeferred, Shadowed, [Next]_vars
  PROVE  Shadowed'
<1>. DEFINE b == "baseline"
<1>1. ASSUME NEW kind \in Kinds, NEW above \in BOOLEAN, NEW verdict \in BOOLEAN, NEW hit,
             NextBar(kind, above, hit, verdict), NEW a \in Arms, SimulatedLong(a)' \/ deferred'[a]
      PROVE  SimulatedLong(b)' \/ StoppedInLeg'
  <2>1. /\ kind # "breakdown"
        /\ SimulatedLong(a) \/ deferred[a] \/ (kind = "breakout" /\ RegimeOk(above))
    BY <1>1, LongAfter
  <2>2. /\ downs' = downs /\ downs \subseteq 1 .. now
        /\ trades'[b] = trades[b] \cup Closed(b, hit)
        /\ pending'[b] = Decision(b, kind, above, hit, verdict)
    BY <1>1, <2>1, ArmNames DEF NextBar, OnTime
  <2>3. CASE StoppedInLeg
    BY <2>2, <2>3 DEF StoppedInLeg
  <2>4. CASE SimulatedLong(b)
    <3>1. AfterOpen(b) # 0
      BY <1>1, <2>4, LongAfter, ArmNames
    <3>2. CASE Stopped(b, hit)
      <4>. DEFINE t == Trade(AfterOpen(b), now + 1, "cat_stop")
      <4>1. t \in trades'[b]
        BY <2>2, <3>2 DEF Closed
      <4>2. t.reason = "cat_stop" /\ t.exit = now + 1
        BY DEF Trade
      <4>3. \A d \in downs' : d < now + 1
        BY <2>2
      <4>. QED
        BY <4>1, <4>2, <4>3 DEF StoppedInLeg
    <3>3. CASE ~Stopped(b, hit)
      <4>1. ~Flat(b, hit)
        BY <3>1, <3>3 DEF Flat
      <4>. QED
        BY <1>1, <2>1, <4>1, LongAfter, ArmNames
    <3>. QED
      BY <3>2, <3>3
  <2>5. CASE ~SimulatedLong(b) /\ ~StoppedInLeg
    <3>1. kind = "breakout" /\ RegimeOk(above)
      BY <2>1, <2>5 DEF Shadowed
    <3>2. Flat(b, hit)
      BY <1>1, <2>5, LongAfter, ArmNames DEF Flat
    <3>3. Candidate(b, kind, above, hit)
      BY <3>1, <3>2, Zenon DEF Candidate
    <3>4. pending'[b] = "enter"
      BY <2>2, <3>2, <3>3 DEF Decision, Blocks
    <3>. QED
      BY <3>4 DEF SimulatedLong
  <2>. QED
    BY <2>3, <2>4, <2>5
<1>2. CASE UNCHANGED vars
  <2>1. /\ \A a \in Arms : SimulatedLong(a)' <=> SimulatedLong(a)
        /\ StoppedInLeg' <=> StoppedInLeg
        /\ SimulatedLong(b)' <=> SimulatedLong(b)
    BY <1>2 DEF vars, armVars, SimulatedLong, StoppedInLeg
  <2>2. deferred' = deferred
    BY <1>2 DEF vars, armVars
  <2>. QED
    BY <2>1, <2>2, Zenon DEF Shadowed
<1>. QED
  BY <1>1, <1>2 DEF Next, Shadowed

LEMMA ShadowedInit ==
  ASSUME Init
  PROVE  Shadowed /\ NeverDeferred
<1>1. \A a \in Arms : ~SimulatedLong(a) /\ ~deferred[a]
  BY DEF Init, SimulatedLong
<1>. QED
  BY <1>1, ArmNames, Zenon DEF Shadowed, NeverDeferred

\* A veto delays an entry and adds no exposure: while an arm is in the market the
\* baseline is too, unless the baseline was stopped in this very leg.
THEOREM VetoAddsNothing == Spec => []VetoOnlyDelays
<1>1. Init => TradeOrder /\ OnTime /\ NeverDeferred /\ Shadowed
  BY OnTimeInit, ShadowedInit DEF Init, TradeOrder
<1>2. TradeOrder /\ OnTime /\ NeverDeferred /\ Shadowed /\ [Next]_vars
      => (TradeOrder /\ OnTime /\ NeverDeferred /\ Shadowed)'
  <2>1. TradeOrder => now \in Nat
    BY DEF TradeOrder
  <2>. QED
    BY <2>1, TradeOrderStep, OnTimeStep, NeverDeferredStep, ShadowedStep
<1>3. Shadowed => VetoOnlyDelays
  BY DEF Shadowed, VetoOnlyDelays
<1>. QED
  BY <1>1, <1>2, <1>3, PTL DEF Spec

-----------------------------------------------------------------------------
(* Typing. *)

\* A bar keeps every variable in its type.
LEMMA TypeStep ==
  ASSUME TypeOK, TradeOrder, [Next]_vars
  PROVE  TypeOK'
<1>1. ASSUME NEW kind \in Kinds, NEW above \in BOOLEAN, NEW verdict \in BOOLEAN, NEW hit,
             NextBar(kind, above, hit, verdict)
      PROVE  TypeOK'
  <2>1. /\ MaxBars \in Nat /\ now \in 0 .. MaxBars /\ now < MaxBars /\ now' = now + 1
        /\ now' \in 0 .. MaxBars /\ now + 1 \in Bars
    BY <1>1, TrendSimAssumption DEF NextBar, TypeOK, Bars
  <2>2. pos' \in [Arms -> 0 .. MaxBars]
    <3>1. ASSUME NEW a \in Arms PROVE AfterOpen(a) \in 0 .. MaxBars
      BY <2>1 DEF TypeOK, AfterOpen
    <3>. QED
      BY <1>1, <2>1, <3>1 DEF NextBar
  <2>3. pending' \in [Arms -> {"none", "enter", "exit"}]
    <3>1. ASSUME NEW a \in Arms
          PROVE  Decision(a, kind, above, hit, verdict) \in {"none", "enter", "exit"}
      BY DEF Decision
    <3>. QED
      BY <1>1, <3>1 DEF NextBar
  <2>4. deferred' \in [Arms -> BOOLEAN]
    <3>1. ASSUME NEW a \in Arms PROVE Deferred(a, kind, above, hit, verdict) \in BOOLEAN
      BY Zenon DEF Deferred, Blocks, Retry
    <3>. QED
      BY <1>1, <3>1 DEF NextBar
  <2>5. trades' \in [Arms -> SUBSET Trades]
    <3>1. ASSUME NEW a \in Arms PROVE Closed(a, hit) \subseteq Trades
      <4>1. pos[a] \in 0 .. MaxBars
        BY DEF TypeOK
      <4>2. ASSUME NEW t \in Closed(a, hit) PROVE t \in Trades
        <5>1. t.entry \in Bars /\ t.exit \in Bars
          BY <2>1, <4>1, <4>2, ClosedIsThePosition DEF Bars
        <5>2. \E from, to : \E why \in {"trend_exit", "cat_stop"} : t = Trade(from, to, why)
          BY <4>2 DEF Closed
        <5>. QED
          BY <5>1, <5>2 DEF Trade, Trades
      <4>. QED
        BY <4>2
    <3>. QED
      BY <1>1, <3>1 DEF NextBar, TypeOK
  <2>6. asked' \in [Arms -> SUBSET Bars]
    BY <1>1, <2>1 DEF NextBar, TypeOK
  <2>7. vetoed' \subseteq Bars /\ retried' \subseteq vetoed' /\ downs' \subseteq Bars
    BY <1>1, <2>1 DEF NextBar, TypeOK
  <2>8. leg' \in BOOLEAN /\ regime' \in BOOLEAN /\ plain' \in BOOLEAN
    BY <1>1, Zenon DEF NextBar, TypeOK
  <2>. QED
    BY <2>1, <2>2, <2>3, <2>4, <2>5, <2>6, <2>7, <2>8 DEF TypeOK
<1>2. CASE UNCHANGED vars
  BY <1>2 DEF vars, armVars, TypeOK
<1>. QED
  BY <1>1, <1>2 DEF Next

\* Every state of the arms is well typed.
THEOREM Typing == Spec => []TypeOK
<1>1. Init => TypeOK /\ TradeOrder
  BY TrendSimAssumption DEF Init, TypeOK, TradeOrder
<1>2. TypeOK /\ TradeOrder /\ [Next]_vars => (TypeOK /\ TradeOrder)'
  BY TypeStep, TradeOrderStep
<1>. QED
  BY <1>1, <1>2, PTL DEF Spec

-----------------------------------------------------------------------------
(* The live read and the simulation. *)

LiveInv ==
  /\ now \in Nat
  /\ NeverDeferred
  /\ pending["baseline"] = "enter" => pos["baseline"] = 0
  /\ plain => regime /\ (leg <=> SimulatedLong("baseline"))

LEMMA LiveStep ==
  ASSUME LiveInv, [Next]_vars
  PROVE  LiveInv'
<1>. DEFINE b == "baseline"
<1>1. ASSUME NEW kind \in Kinds, NEW above \in BOOLEAN, NEW verdict \in BOOLEAN, NEW hit,
             NextBar(kind, above, hit, verdict)
      PROVE  LiveInv'
  <2>1. now' \in Nat /\ NeverDeferred'
    BY <1>1, NeverDeferredStep DEF NextBar, LiveInv, Next
  <2>2. /\ pos'[b] = IF Flat(b, hit) THEN 0 ELSE AfterOpen(b)
        /\ pending'[b] = Decision(b, kind, above, hit, verdict)
    BY <1>1, ArmNames DEF NextBar
  <2>3. pending'[b] = "enter" => pos'[b] = 0
    BY <2>2 DEF Decision
  <2>4. Candidate(b, kind, above, hit) <=> Flat(b, hit) /\ kind = "breakout" /\ RegimeOk(above)
    BY Zenon DEF Candidate, Retry, LiveInv, NeverDeferred
  <2>5. ASSUME plain' PROVE regime' /\ (leg' <=> SimulatedLong(b)')
    <3>1. plain /\ above /\ ~Stopped(b, hit)
      BY <1>1, <2>5 DEF NextBar
    <3>2. regime' /\ RegimeOk(above)
      BY <1>1, <3>1 DEF NextBar, RegimeOk
    <3>3. leg <=> SimulatedLong(b)
      BY <3>1 DEF LiveInv
    <3>4. leg' <=> kind = "breakout" \/ (leg /\ kind # "breakdown")
      BY <1>1 DEF NextBar
    <3>5. SimulatedLong(b)' <=> (~Flat(b, hit) /\ kind # "breakdown") \/ (Flat(b, hit) /\ kind = "breakout")
      <4>1. CASE Flat(b, hit)
        BY <2>2, <2>4, <3>2, <4>1 DEF SimulatedLong, Decision, Blocks
      <4>2. CASE ~Flat(b, hit)
        BY <2>2, <4>2 DEF SimulatedLong, Decision, Flat
      <4>. QED
        BY <4>1, <4>2
    <3>6. ~Flat(b, hit) <=> SimulatedLong(b)
      <4>1. ~Flat(b, hit) <=> AfterOpen(b) # 0
        BY <3>1 DEF Flat
      <4>2. AfterOpen(b) # 0 <=> SimulatedLong(b)
        BY DEF AfterOpen, Opens, SimulatedLong, LiveInv
      <4>. QED
        BY <4>1, <4>2
    <3>. QED
      BY <3>2, <3>3, <3>4, <3>5, <3>6 DEF Kinds
  <2>. QED
    BY <2>1, <2>3, <2>5 DEF LiveInv
<1>2. CASE UNCHANGED vars
  BY <1>2 DEF vars, armVars, LiveInv, NeverDeferred, SimulatedLong
<1>. QED
  BY <1>1, <1>2 DEF Next

\* On a plain history (no leg before it, no stop, every close above the
\* average) desired_long is what the backtest holds, bar by bar.
THEOREM LiveReadIsFaithful == Spec => []LiveReadAgrees
<1>1. ASSUME Init PROVE LiveInv
  <2>1. /\ pos["baseline"] = 0 /\ pending["baseline"] = "none" /\ deferred["baseline"] = FALSE
        /\ now = 0
    BY <1>1, ArmNames DEF Init
  <2>2. ~SimulatedLong("baseline")
    BY <2>1 DEF SimulatedLong
  <2>3. plain => regime /\ ~leg
    BY <1>1, Zenon DEF Init
  <2>4. NeverDeferred
    BY <1>1, ArmNames, Zenon DEF Init, NeverDeferred
  <2>. QED
    BY <2>1, <2>2, <2>3, <2>4 DEF LiveInv
<1>2. LiveInv /\ [Next]_vars => LiveInv'
  BY LiveStep
<1>3. LiveInv => LiveReadAgrees
  BY DEF LiveInv, LiveReadAgrees, DesiredLong
<1>. QED
  BY <1>1, <1>2, <1>3, PTL DEF Spec
=============================================================================
