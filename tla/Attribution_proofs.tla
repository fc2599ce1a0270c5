------------------------- MODULE Attribution_proofs -------------------------
(***************************************************************************)
(* What TLAPS proves of a waiting entry of TrendSim and of the marks that  *)
(* Attribution puts on a veto, for a history of any length.                *)
(***************************************************************************)
EXTENDS Attribution, TrendSim_proofs

\* Vetoes and breakdowns belong to bars that are past, a veto to one on which the
\* filtered arm was flat, and an exit is decided only with a position.
Past ==
  /\ vetoed \subseteq 1 .. now /\ downs \subseteq 1 .. now
  /\ \A a \in Arms : pending[a] = "exit" => pos[a] # 0
  /\ pos["filtered"] # 0 => \A v \in vetoed : v < pos["filtered"]

\* How the filtered arm leaves a bar.
LEMMA FilteredBar ==
  ASSUME NEW kind \in Kinds, NEW above \in BOOLEAN, NEW verdict \in BOOLEAN, NEW hit,
         NextBar(kind, above, hit, verdict)
  PROVE  LET a == "filtered"  asks == Candidate(a, kind, above, hit) IN
         /\ asks => Flat(a, hit) /\ kind # "breakdown"
         /\ pos'[a] = IF Flat(a, hit) THEN 0 ELSE AfterOpen(a)
         /\ pending'[a] = Decision(a, kind, above, hit, verdict)
         /\ deferred'[a] = Deferred(a, kind, above, hit, verdict)
         /\ trades'[a] = trades[a] \cup Closed(a, hit)
         /\ vetoed' = vetoed \cup (IF asks /\ verdict THEN {now + 1} ELSE {})
         /\ downs' = downs \cup (IF kind = "breakdown" THEN {now + 1} ELSE {})
         /\ now' = now + 1
<1>1. Candidate("filtered", kind, above, hit) => Flat("filtered", hit) /\ kind # "breakdown"
  BY Zenon DEF Candidate, Retry
<1>. QED
  BY <1>1, ArmNames DEF NextBar

LEMMA PastStep ==
  ASSUME TradeOrder, Past, [Next]_vars
  PROVE  Past'
<1>1. ASSUME NEW kind \in Kinds, NEW above \in BOOLEAN, NEW verdict \in BOOLEAN, NEW hit,
             NextBar(kind, above, hit, verdict)
      PROVE  Past'
  <2>1. now \in Nat /\ now' = now + 1 /\ pos["filtered"] \in 0 .. now
    BY <1>1, ArmNames DEF TradeOrder, NextBar
  <2>2. vetoed' \subseteq 1 .. now' /\ downs' \subseteq 1 .. now'
    <3>1. vetoed' \subseteq vetoed \cup {now + 1} /\ downs' \subseteq downs \cup {now + 1}
      BY <1>1, FilteredBar
    <3>2. vetoed \subseteq 1 .. now /\ downs \subseteq 1 .. now
      BY DEF Past
    <3>. QED
      BY <2>1, <3>1, <3>2
  <2>3. ASSUME NEW a \in Arms, pending'[a] = "exit" PROVE pos'[a] # 0
    <3>1. ~Flat(a, hit) /\ pos'[a] = AfterOpen(a)
      BY <1>1, <2>3 DEF NextBar, Decision
    <3>. QED
      BY <3>1 DEF Flat
  <2>4. ASSUME pos'["filtered"] # 0, NEW v \in vetoed' PROVE v < pos'["filtered"]
    <3>1. ~Flat("filtered", hit) /\ pos'["filtered"] = AfterOpen("filtered") /\ v \in vetoed
      BY <1>1, <2>4, FilteredBar
    <3>2. AfterOpen("filtered") = now + 1 \/ AfterOpen("filtered") = pos["filtered"]
      BY <2>4, <3>1 DEF AfterOpen
    <3>. QED
      BY <2>1, <2>4, <3>1, <3>2 DEF Past
  <2>. QED
    BY <2>2, <2>3, <2>4 DEF Past
<1>2. CASE UNCHANGED vars
  BY <1>2 DEF vars, armVars, Past
<1>. QED
  BY <1>1, <1>2 DEF Next

-----------------------------------------------------------------------------
(* A waiting entry lives exactly as long as its leg. *)

\* The veto that an entry may still be waiting for.
Open(v) == (\A d \in downs : d < v) /\ (\A t \in trades["filtered"] : t.entry <= v)

LEMMA RetryStep ==
  ASSUME TypeOK, TradeOrder, Past, RetryLastsTheLeg, [Next]_vars
  PROVE  RetryLastsTheLeg'
<1>1. ASSUME NEW kind \in Kinds, NEW above \in BOOLEAN, NEW verdict \in BOOLEAN, NEW hit,
             NextBar(kind, above, hit, verdict)
      PROVE  RetryLastsTheLeg'
  <2>. DEFINE a == "filtered"
              asks == Candidate(a, kind, above, hit)
              waits == pos[a] = 0 /\ pending[a] = "none"
  <2>1. /\ now \in Nat /\ a \in Arms /\ pos[a] \in 0 .. now
        /\ \A t \in trades[a] : t.entry \in 1 .. now
        /\ vetoed \subseteq 1 .. now /\ downs \subseteq 1 .. now
    BY ArmNames DEF TradeOrder, Past
  <2>2. /\ asks => Flat(a, hit) /\ kind # "breakdown"
        /\ pos'[a] = IF Flat(a, hit) THEN 0 ELSE AfterOpen(a)
        /\ pending'[a] = Decision(a, kind, above, hit, verdict)
        /\ deferred'[a] = Deferred(a, kind, above, hit, verdict)
        /\ trades'[a] = trades[a] \cup Closed(a, hit)
        /\ vetoed' = vetoed \cup (IF asks /\ verdict THEN {now + 1} ELSE {})
        /\ downs' = downs \cup (IF kind = "breakdown" THEN {now + 1} ELSE {})
    BY <1>1, FilteredBar
  <2>3. deferred[a] <=> waits /\ \E v \in vetoed : Open(v)
    BY DEF RetryLastsTheLeg, Open
  <2>4. SUFFICES deferred'[a] <=> (pos'[a] = 0 /\ pending'[a] = "none") /\ \E v \in vetoed' : Open(v)'
    BY DEF RetryLastsTheLeg, Open
  <2>5. CASE ~Flat(a, hit)
    <3>1. pos'[a] # 0
      BY <2>2, <2>5 DEF Flat
    <3>2. ~Deferred(a, kind, above, hit, verdict)
      BY <2>2, <2>5, Zenon DEF Deferred
    <3>. QED
      BY <2>2, <3>1, <3>2
  <2>6. CASE asks /\ ~verdict
    <3>1. pending'[a] = "enter"
      BY <2>2, <2>6 DEF Decision, Blocks
    <3>2. ~Deferred(a, kind, above, hit, verdict)
      BY <2>6, Zenon DEF Deferred, Blocks
    <3>. QED
      BY <2>2, <3>1, <3>2
  <2>7. CASE asks /\ verdict
    <3>1. pos'[a] = 0 /\ pending'[a] = "none"
      BY <2>2, <2>7 DEF Decision, Blocks
    <3>2. Deferred(a, kind, above, hit, verdict)
      BY <2>7, Zenon DEF Deferred, Blocks
    <3>3. now + 1 \in vetoed' /\ downs' = downs
      BY <2>2, <2>7
    <3>4. \A t \in trades'[a] : t.entry <= now + 1
      BY <2>1, <2>2, ClosedIsThePosition
    <3>5. \A d \in downs' : d < now + 1
      BY <2>1, <3>3
    <3>. QED
      BY <2>2, <3>1, <3>2, <3>3, <3>4, <3>5 DEF Open
  <2>8. CASE Flat(a, hit) /\ ~asks
    <3>1. pos'[a] = 0 /\ pending'[a] = "none" /\ vetoed' = vetoed
      BY <2>2, <2>8 DEF Decision
    <3>2. Deferred(a, kind, above, hit, verdict) <=> deferred[a] /\ kind # "breakdown"
      BY <2>8, Zenon DEF Deferred, Retry
    <3>3. CASE kind = "breakdown"
      <4>1. now + 1 \in downs'
        BY <2>2, <3>3
      <4>2. \A v \in vetoed : ~(now + 1 < v)
        BY <2>1
      <4>. QED
        BY <2>2, <3>1, <3>2, <3>3, <4>1, <4>2 DEF Open
    <3>4. CASE kind # "breakdown" /\ waits
      <4>1. Closed(a, hit) = {}
        BY <2>1, <3>4, ClosedIsThePosition
      <4>2. trades'[a] = trades[a] /\ downs' = downs
        BY <2>2, <3>4, <4>1
      <4>. QED
        BY <2>2, <2>3, <3>1, <3>2, <3>4, <4>2 DEF Open
    <3>5. CASE kind # "breakdown" /\ ~waits
      \* The bar ends flat though the arm was not: a position was sold, entered after
      \* every veto.
      <4>1. pos[a] # 0 /\ Closed(a, hit) # {}
        <5>1. pending[a] \in {"none", "enter", "exit"}
          BY <2>1 DEF TypeOK
        <5>2. CASE pending[a] = "exit"
          BY <2>1, <5>2 DEF Past, Closed
        <5>3. CASE pending[a] = "enter" /\ pos[a] = 0
          <6>1. AfterOpen(a) = now + 1 /\ now + 1 # 0
            BY <2>1, <5>3 DEF AfterOpen, Opens
          <6>. QED
            BY <2>8, <6>1 DEF Flat, Stopped
        <5>4. CASE pending[a] # "exit" /\ pos[a] # 0
          <6>1. AfterOpen(a) = pos[a]
            BY <5>4 DEF AfterOpen, Opens
          <6>. QED
            BY <2>8, <5>4, <6>1 DEF Flat, Closed
        <5>. QED
          BY <3>5, <5>1, <5>2, <5>3, <5>4
      <4>2. PICK c \in Closed(a, hit) : c.entry = pos[a]
        BY <2>1, <4>1, ClosedIsThePosition
      <4>3. c \in trades'[a] /\ \A v \in vetoed : ~(c.entry <= v)
        BY <2>1, <2>2, <4>1, <4>2 DEF Past
      <4>. QED
        BY <2>2, <2>3, <3>1, <3>2, <3>5, <4>3 DEF Open
    <3>. QED
      BY <3>3, <3>4, <3>5
  <2>. QED
    BY <2>2, <2>5, <2>6, <2>7, <2>8
<1>2. CASE UNCHANGED vars
  BY <1>2 DEF vars, armVars, RetryLastsTheLeg
<1>. QED
  BY <1>1, <1>2 DEF Next

\* A vetoed entry waits exactly as long as its leg lasts and nothing was entered since,
\* through pauses, new vetoes and bars without a breakout.
THEOREM RetryLives == Spec => []RetryLastsTheLeg
<1>1. Init => TypeOK /\ TradeOrder /\ Past /\ RetryLastsTheLeg
  BY TrendSimAssumption, ArmNames DEF Init, TypeOK, TradeOrder, Past, RetryLastsTheLeg
<1>2. TypeOK /\ TradeOrder /\ Past /\ RetryLastsTheLeg /\ [Next]_vars
      => (TypeOK /\ TradeOrder /\ Past /\ RetryLastsTheLeg)'
  BY TypeStep, TradeOrderStep, PastStep, RetryStep
<1>. QED
  BY <1>1, <1>2, PTL DEF Spec

-----------------------------------------------------------------------------
(* Windows of vetoes. *)

\* A veto leaves its entry waiting.
VetoWaits == now \in vetoed => deferred["filtered"]

LEMMA WindowStep ==
  ASSUME TradeOrder, Past, VetoWaits, NoWindowMerged, [Next]_vars
  PROVE  VetoWaits' /\ NoWindowMerged'
<1>1. ASSUME NEW kind \in Kinds, NEW above \in BOOLEAN, NEW verdict \in BOOLEAN, NEW hit,
             NextBar(kind, above, hit, verdict)
      PROVE  VetoWaits' /\ NoWindowMerged'
  <2>. DEFINE asks == Candidate("filtered", kind, above, hit)
  <2>1. /\ now \in Nat /\ now' = now + 1
        /\ vetoed \subseteq 1 .. now
        /\ vetoed' = vetoed \cup (IF asks /\ verdict THEN {now + 1} ELSE {})
        /\ deferred'["filtered"] = Deferred("filtered", kind, above, hit, verdict)
        /\ retried' = retried \cup
             (IF asks /\ verdict /\ Retry("filtered", kind) THEN {now + 1} ELSE {})
    <3>1. /\ vetoed' = vetoed \cup (IF asks /\ verdict THEN {now + 1} ELSE {})
          /\ deferred'["filtered"] = Deferred("filtered", kind, above, hit, verdict)
      BY <1>1, FilteredBar
    <3>2. /\ now' = now + 1
          /\ retried' = retried \cup
               (IF asks /\ verdict /\ Retry("filtered", kind) THEN {now + 1} ELSE {})
      BY <1>1 DEF NextBar
    <3>. QED
      BY <3>1, <3>2 DEF TradeOrder, Past
  <2>2. VetoWaits'
    <3>1. now' \in vetoed' => asks /\ verdict
      BY <2>1
    <3>2. asks /\ verdict => Deferred("filtered", kind, above, hit, verdict)
      BY Zenon DEF Deferred, Blocks
    <3>. QED
      BY <2>1, <3>1, <3>2 DEF VetoWaits
  <2>3. ASSUME NEW v \in vetoed', v - 1 \in vetoed' PROVE v \in retried'
    <3>1. CASE v = now + 1
      <4>1. asks /\ verdict /\ now \in vetoed
        BY <2>1, <2>3, <3>1
      <4>2. Retry("filtered", kind)
        <5>1. kind # "breakdown"
          BY <4>1, Zenon DEF Candidate, Retry
        <5>. QED
          BY <4>1, <5>1, Zenon DEF VetoWaits, Retry
      <4>. QED
        BY <2>1, <3>1, <4>1, <4>2
    <3>2. CASE v # now + 1
      BY <2>1, <2>3, <3>2 DEF NoWindowMerged, FirstOfWindow
    <3>. QED
      BY <3>1, <3>2
  <2>. QED
    BY <2>2, <2>3 DEF NoWindowMerged, FirstOfWindow
<1>2. CASE UNCHANGED vars
  BY <1>2 DEF vars, armVars, VetoWaits, NoWindowMerged, FirstOfWindow
<1>. QED
  BY <1>1, <1>2 DEF Next

\* Two opportunities are never counted as one: a veto on the bar after a veto retries
\* the same entry.
THEOREM WindowsApart == Spec => []NoWindowMerged
<1>1. Init => TradeOrder /\ Past /\ VetoWaits /\ NoWindowMerged
  BY ArmNames DEF Init, TradeOrder, Past, VetoWaits, NoWindowMerged
<1>2. TradeOrder /\ Past /\ VetoWaits /\ NoWindowMerged /\ [Next]_vars
      => (TradeOrder /\ Past /\ VetoWaits /\ NoWindowMerged)'
  BY TradeOrderStep, PastStep, WindowStep
<1>. QED
  BY <1>1, <1>2, PTL DEF Spec

-----------------------------------------------------------------------------
(* The delay that is credited to a veto. *)

\* No breakdown is vetoed, since it is no candidate.
NoDownVetoed == vetoed \cap downs = {}

LEMMA NoDownVetoedStep ==
  ASSUME Past, now \in Nat, NoDownVetoed, [Next]_vars
  PROVE  NoDownVetoed'
<1>1. ASSUME NEW kind \in Kinds, NEW above \in BOOLEAN, NEW verdict \in BOOLEAN, NEW hit,
             NextBar(kind, above, hit, verdict)
      PROVE  NoDownVetoed'
  <2>. DEFINE asks == Candidate("filtered", kind, above, hit)
  <2>1. /\ vetoed' = vetoed \cup (IF asks /\ verdict THEN {now + 1} ELSE {})
        /\ asks => kind # "breakdown"
    BY <1>1, FilteredBar
  <2>2. downs' = downs \cup (IF kind = "breakdown" THEN {now + 1} ELSE {})
    BY <1>1 DEF NextBar
  <2>3. now + 1 \notin vetoed /\ now + 1 \notin downs
    BY DEF Past
  <2>. QED
    BY <2>1, <2>2, <2>3 DEF NoDownVetoed
<1>2. CASE UNCHANGED vars
  BY <1>2 DEF vars, NoDownVetoed
<1>. QED
  BY <1>1, <1>2 DEF Next

\* An entry credited as the delay of a vetoed trade came in the leg of the veto: while
\* the baseline held that trade there was no breakdown.
THEOREM DelayInLeg == Spec => []ReentryInSameLeg
<1>1. Init => TradeOrder /\ Past /\ OnTime /\ NoDownVetoed
  <2>1. Init => TradeOrder /\ Past /\ NoDownVetoed
    BY ArmNames DEF Init, TradeOrder, Past, NoDownVetoed
  <2>. QED
    BY <2>1, OnTimeInit
<1>2. TradeOrder /\ Past /\ OnTime /\ NoDownVetoed /\ [Next]_vars
      => (TradeOrder /\ Past /\ OnTime /\ NoDownVetoed)'
  <2>1. TradeOrder => now \in Nat
    BY DEF TradeOrder
  <2>. QED
    BY <2>1, TradeOrderStep, PastStep, OnTimeStep, NoDownVetoedStep
<1>3. TradeOrder /\ Past /\ OnTime /\ NoDownVetoed => ReentryInSameLeg
  <2>. SUFFICES ASSUME TradeOrder, Past, OnTime, NoDownVetoed,
                       NEW v \in vetoed, NEW t \in Result("baseline"), NEW f \in Result("filtered"),
                       Prices(t, v), ReenteredBy(t, v, f), NEW d \in downs
                PROVE  d < v \/ d >= f.entry
    BY DEF ReentryInSameLeg
  <2>1. /\ t.entry = v + 1 /\ v < f.entry /\ f.entry < t.exit
        /\ now \in Nat /\ v \in 1 .. now /\ d \in 1 .. now /\ d # v
    BY DEF Prices, ReenteredBy, TradeOrder, Past, NoDownVetoed
  <2>2. f.entry \in Nat /\ t.exit \in Nat
    BY ArmNames DEF Result, Trade, TradeOrder
  <2>3. d < t.entry \/ d + 1 >= t.exit
    BY OnTimeTrades, ArmNames DEF Justified
  <2>. QED
    BY <2>1, <2>2, <2>3
<1>. QED
  BY <1>1, <1>2, <1>3, PTL DEF Spec
-----------------------------------------------------------------------------
(* Which trade prices a veto. *)

\* A bar keeps the position it finds, or enters, as a trade of the result.
LEMMA PositionStays ==
  ASSUME now \in Nat, NEW kind \in Kinds, NEW above \in BOOLEAN, NEW verdict \in BOOLEAN, NEW hit,
         NextBar(kind, above, hit, verdict), NEW a \in Arms, Opens(a) \/ pos[a] # 0
  PROVE  \E t \in Result(a)' : t.entry = (IF Opens(a) THEN now + 1 ELSE pos[a]) /\ t.exit = now + 1
<1>. DEFINE from == IF Opens(a) THEN now + 1 ELSE pos[a]
<1>1. /\ pos'[a] = IF Flat(a, hit) THEN 0 ELSE AfterOpen(a)
      /\ trades'[a] = trades[a] \cup Closed(a, hit) /\ now' = now + 1
  BY DEF NextBar
<1>2. from # 0
  OBVIOUS
<1>3. CASE pending[a] = "exit" /\ pos[a] # 0
  <2>1. Trade(pos[a], now + 1, "trend_exit") \in Result(a)' /\ from = pos[a]
    BY <1>1, <1>3 DEF Result, Closed, Opens
  <2>. QED
    BY <2>1 DEF Trade
<1>4. CASE ~(pending[a] = "exit" /\ pos[a] # 0) /\ Stopped(a, hit)
  <2>1. AfterOpen(a) = from
    BY <1>4 DEF AfterOpen, Opens
  <2>2. Trade(from, now + 1, "cat_stop") \in Result(a)'
    BY <1>1, <1>4, <2>1 DEF Result, Closed
  <2>. QED
    BY <2>2 DEF Trade
<1>5. CASE ~(pending[a] = "exit" /\ pos[a] # 0) /\ ~Stopped(a, hit)
  <2>1. AfterOpen(a) = from
    BY <1>5 DEF AfterOpen, Opens
  <2>2. pos'[a] = from
    BY <1>1, <1>2, <1>5, <2>1 DEF Flat
  <2>3. Trade(from, now + 1, "eod") \in Result(a)'
    BY <1>1, <1>2, <2>2 DEF Result
  <2>. QED
    BY <2>3 DEF Trade
<1>. QED
  BY <1>3, <1>4, <1>5

\* A veto of something new has the baseline in the market; a veto of a retry is priced
\* by a trade only if the baseline was stopped before it.
Covered(v) ==
  \E t \in Result("baseline") : Prices(t, v) \/ (t.entry <= v /\ v < t.exit)

Priced ==
  /\ \A v \in vetoed \ retried : IF v = now THEN SimulatedLong("baseline") ELSE Covered(v)
  /\ \A v \in retried :
       \/ ReenteredAfterStop(v)
       \/ /\ v = now => pending["baseline"] # "enter"
          /\ pos["baseline"] # v + 1
          /\ \A t \in trades["baseline"] : t.entry # v + 1

\* What has covered a veto covers it for good.
LEMMA CoveredStays ==
  ASSUME TradeOrder, NEW kind \in Kinds, NEW above \in BOOLEAN, NEW verdict \in BOOLEAN, NEW hit,
         NextBar(kind, above, hit, verdict), NEW v \in 1 .. now, v < now, Covered(v)
  PROVE  Covered(v)'
<1>. DEFINE b == "baseline"
<1>1. now \in Nat /\ trades[b] \subseteq trades'[b]
  BY ArmNames DEF TradeOrder, NextBar
<1>2. PICK t \in Result(b) : Prices(t, v) \/ (t.entry <= v /\ v < t.exit)
  BY DEF Covered
<1>3. CASE t \in trades[b]
  <2>1. t \in Result(b)'
    BY <1>1, <1>3 DEF Result
  <2>. QED
    BY <1>2, <2>1 DEF Covered, Prices
<1>4. CASE t \notin trades[b]
  <2>1. pos[b] # 0 /\ t.entry = pos[b]
    BY <1>4 DEF Result, Trade
  <2>2. PICK u \in Result(b)' : u.entry = pos[b] /\ u.exit = now + 1
    BY <1>1, <2>1, PositionStays, ArmNames DEF Opens
  <2>3. Prices(u, v)' \/ (u.entry <= v /\ v < u.exit)
    BY <1>1, <1>2, <2>1, <2>2 DEF Prices
  <2>. QED
    BY <2>3 DEF Covered
<1>. QED
  BY <1>3, <1>4

LEMMA PricedStep ==
  ASSUME TradeOrder, OnTime, NeverDeferred, Shadowed, retried \subseteq vetoed, Priced, [Next]_vars
  PROVE  Priced' /\ (retried \subseteq vetoed)'
<1>. DEFINE b == "baseline"  f == "filtered"
<1>1. ASSUME NEW kind \in Kinds, NEW above \in BOOLEAN, NEW verdict \in BOOLEAN, NEW hit,
             NextBar(kind, above, hit, verdict)
      PROVE  Priced' /\ (retried \subseteq vetoed)'
  <2>. DEFINE blocked == Candidate(f, kind, above, hit) /\ verdict
              again == blocked /\ Retry(f, kind)
  <2>1. /\ now \in Nat /\ now' = now + 1
        /\ vetoed' = vetoed \cup (IF blocked THEN {now + 1} ELSE {})
        /\ retried' = retried \cup (IF again THEN {now + 1} ELSE {})
        /\ downs' = downs \cup (IF kind = "breakdown" THEN {now + 1} ELSE {})
        /\ pos'[b] = IF Flat(b, hit) THEN 0 ELSE AfterOpen(b)
        /\ pending'[b] = Decision(b, kind, above, hit, verdict)
        /\ trades'[b] = trades[b] \cup Closed(b, hit)
    BY <1>1, ArmNames DEF NextBar, TradeOrder
  <2>2. /\ vetoed \subseteq 1 .. now /\ downs \subseteq 1 .. now /\ now + 1 \notin vetoed
        /\ pos[b] \in 0 .. now
        /\ \A t \in trades[b] : t.entry \in 1 .. now /\ t.exit \in 1 .. now
        /\ \A t \in Closed(b, hit) : t.entry = pos[b] /\ t.exit = now + 1
    <3>1. vetoed \subseteq 1 .. now /\ downs \subseteq 1 .. now
      BY DEF OnTime
    <3>2. /\ pos[b] \in 0 .. now
          /\ \A t \in trades[b] : t.entry \in 1 .. now /\ t.exit \in 1 .. now
      BY ArmNames DEF TradeOrder
    <3>. QED
      BY <2>1, <3>1, <3>2, ClosedIsThePosition, ArmNames
  <2>3. (retried \subseteq vetoed)'
    BY <2>1
  <2>4. ASSUME NEW v \in vetoed', v \notin retried'
        PROVE  IF v = now' THEN SimulatedLong(b)' ELSE Covered(v)'
    <3>1. CASE v = now + 1
      <4>1. Candidate(f, kind, above, hit) /\ ~Retry(f, kind)
        BY <2>1, <2>2, <2>4, <3>1
      <4>2. kind = "breakout" /\ RegimeOk(above)
        BY <4>1, Zenon DEF Candidate
      <4>3. CASE Flat(b, hit)
        <5>1. Candidate(b, kind, above, hit)
          BY <4>2, <4>3, Zenon DEF Candidate
        <5>2. pending'[b] = "enter"
          BY <2>1, <4>3, <5>1 DEF Decision, Blocks
        <5>. QED
          BY <2>1, <3>1, <5>2 DEF SimulatedLong
      <4>4. CASE ~Flat(b, hit)
        BY <1>1, <2>1, <3>1, <4>2, <4>4, LongAfter, ArmNames
      <4>. QED
        BY <4>3, <4>4
    <3>2. CASE v = now
      <4>1. SimulatedLong(b)
        BY <2>1, <2>2, <2>4, <3>2 DEF Priced
      <4>2. Opens(b) \/ pos[b] # 0
        BY <4>1 DEF SimulatedLong, Opens
      <4>3. PICK t \in Result(b)' :
              t.entry = (IF Opens(b) THEN now + 1 ELSE pos[b]) /\ t.exit = now + 1
        BY <1>1, <2>1, <4>2, PositionStays, ArmNames
      <4>4. t.entry = v + 1 \/ (t.entry <= v /\ v < t.exit)
        BY <2>1, <2>2, <3>2, <4>3
      <4>5. Covered(v)'
        BY <4>3, <4>4 DEF Covered, Prices
      <4>. QED
        BY <2>1, <3>2, <4>5
    <3>3. CASE v \in 1 .. now /\ v < now
      <4>1. Covered(v)
        BY <2>1, <2>4, <3>3 DEF Priced
      <4>2. Covered(v)'
        BY <1>1, <3>3, <4>1, CoveredStays
      <4>. QED
        BY <2>1, <3>3, <4>2
    <3>. QED
      BY <2>1, <2>2, <2>4, <3>1, <3>2, <3>3
  <2>5. ASSUME NEW v \in retried'
        PROVE  \/ ReenteredAfterStop(v)'
               \/ /\ v = now' => pending'[b] # "enter"
                  /\ pos'[b] # v + 1
                  /\ \A t \in trades'[b] : t.entry # v + 1
    <3>1. CASE v = now + 1
      <4>1. deferred[f] /\ kind # "breakdown"
        <5>1. Retry(f, kind)
          BY <2>1, <2>2, <2>5, <3>1
        <5>. QED
          BY <5>1, Zenon DEF Retry
      <4>2. downs' = downs
        BY <2>1, <4>1
      <4>3. CASE StoppedInLeg
        <5>1. PICK u \in trades[b] : u.reason = "cat_stop" /\ \A d \in downs : d < u.exit
          BY <4>3 DEF StoppedInLeg
        <5>2. u \in trades'[b] /\ u.exit <= v
          BY <2>1, <2>2, <3>1, <5>1
        <5>3. ReenteredAfterStop(v)'
          BY <4>2, <5>1, <5>2 DEF ReenteredAfterStop
        <5>. QED
          BY <5>3
      <4>4. CASE ~StoppedInLeg
        <5>1. SimulatedLong(b)
          BY <4>1, <4>4, ArmNames DEF Shadowed
        <5>2. AfterOpen(b) # 0
          BY <1>1, <2>1, <5>1, LongAfter, ArmNames
        <5>3. CASE Stopped(b, hit)
          <6>. DEFINE u == Trade(AfterOpen(b), now + 1, "cat_stop")
          <6>1. u \in trades'[b]
            BY <2>1, <5>3 DEF Closed
          <6>2. u.reason = "cat_stop" /\ u.exit = now + 1
            BY DEF Trade
          <6>3. \A d \in downs' : d < now + 1
            BY <2>1, <2>2, <4>2
          <6>4. ReenteredAfterStop(v)'
            BY <2>1, <3>1, <6>1, <6>2, <6>3 DEF ReenteredAfterStop
          <6>. QED
            BY <6>4
        <5>4. CASE ~Stopped(b, hit)
          <6>1. ~Flat(b, hit)
            BY <5>2, <5>4 DEF Flat
          <6>2. pending'[b] # "enter" /\ pos'[b] = AfterOpen(b)
            BY <2>1, <6>1 DEF Decision
          <6>3. pos'[b] # v + 1
            BY <2>1, <2>2, <3>1, <6>2 DEF AfterOpen
          <6>4. \A t \in trades'[b] : t.entry # v + 1
            BY <2>1, <2>2, <3>1
          <6>. QED
            BY <6>2, <6>3, <6>4
        <5>. QED
          BY <5>3, <5>4
      <4>. QED
        BY <4>3, <4>4
    <3>2. CASE v # now + 1
      <4>1. v \in retried /\ v \in 1 .. now
        BY <2>1, <2>2, <2>5, <3>2
      <4>2. CASE ReenteredAfterStop(v)
        <5>1. PICK u \in trades[b] :
                u.reason = "cat_stop" /\ u.exit <= v /\ \A d \in downs : d < u.exit \/ d > v
          BY <4>2 DEF ReenteredAfterStop
        <5>2. u \in trades'[b] /\ \A d \in downs' : d < u.exit \/ d > v
          BY <2>1, <4>1, <5>1
        <5>3. ReenteredAfterStop(v)'
          BY <5>1, <5>2 DEF ReenteredAfterStop
        <5>. QED
          BY <5>3
      <4>3. CASE ~ReenteredAfterStop(v)
        <5>1. /\ v = now => pending[b] # "enter"
              /\ pos[b] # v + 1
              /\ \A t \in trades[b] : t.entry # v + 1
          BY <4>1, <4>3 DEF Priced
        <5>2. pos'[b] # v + 1
          <6>1. AfterOpen(b) \in {0, pos[b]} \/ (AfterOpen(b) = now + 1 /\ pending[b] = "enter")
            BY DEF AfterOpen, Opens
          <6>. QED
            BY <2>1, <2>2, <4>1, <5>1, <6>1
        <5>3. \A t \in trades'[b] : t.entry # v + 1
          BY <2>1, <2>2, <5>1
        <5>. QED
          BY <2>1, <3>2, <5>2, <5>3
      <4>. QED
        BY <4>2, <4>3
    <3>. QED
      BY <3>1, <3>2
  <2>. QED
    BY <2>3, <2>4, <2>5 DEF Priced
<1>2. CASE UNCHANGED vars
  BY <1>2 DEF vars, armVars, Priced, Covered, Prices, Result, SimulatedLong, ReenteredAfterStop
<1>. QED
  BY <1>1, <1>2 DEF Next

\* What a veto prevented is priced at the right trade: a veto that retries nothing is
\* priced or falls into a trade of the baseline, and a retry is priced only when the
\* baseline was stopped in the leg and enters it again.
THEOREM PricedAtTheRightTrade == Spec => []VetoesArePriced
<1>. DEFINE Inv == TradeOrder /\ OnTime /\ NeverDeferred /\ Shadowed /\ retried \subseteq vetoed /\ Priced
<1>1. Init => Inv
  <2>1. Init => TradeOrder /\ retried \subseteq vetoed /\ Priced
    BY DEF Init, TradeOrder, Priced
  <2>. QED
    BY <2>1, OnTimeInit, ShadowedInit
<1>2. Inv /\ [Next]_vars => Inv'
  <2>1. TradeOrder => now \in Nat
    BY DEF TradeOrder
  <2>. QED
    BY <2>1, TradeOrderStep, OnTimeStep, NeverDeferredStep, ShadowedStep, PricedStep
<1>3. Inv => VetoesArePriced
  <2>. SUFFICES ASSUME Inv PROVE VetoesArePriced
    OBVIOUS
  <2>1. \A v \in vetoed \ retried : v < now => Covered(v)
    BY DEF Priced, TradeOrder
  <2>2. ASSUME NEW v \in retried, NEW t \in Result("baseline"), Prices(t, v)
        PROVE  ReenteredAfterStop(v)
    <3>1. CASE t \in trades["baseline"]
      BY <2>2, <3>1 DEF Prices, Priced
    <3>2. CASE t \notin trades["baseline"]
      <4>1. t.entry = pos["baseline"]
        BY <3>2 DEF Result, Trade
      <4>. QED
        BY <2>2, <4>1 DEF Prices, Priced
    <3>. QED
      BY <3>1, <3>2
  <2>. QED
    BY <2>1, <2>2 DEF VetoesArePriced, Covered
<1>. QED
  BY <1>1, <1>2, <1>3, PTL DEF Spec
=============================================================================
