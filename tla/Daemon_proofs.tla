---------------------------- MODULE Daemon_proofs ----------------------------
(***************************************************************************)
(* What TLAPS proves of Daemon, for every watchlist, lifetime, session and *)
(* set of replies, and any number of faults.                               *)
(***************************************************************************)
EXTENDS Daemon, TLAPS

-----------------------------------------------------------------------------
(* Types. *)

AtCandidate == \A t \in Tasks : at[t] \in {"lookup", "news", "scoring", "store"} => sym[t] <= Len(Watchlist)

Typed == TypeOK /\ AtCandidate

LEMMA Bounds ==
  /\ DayLength \in Nat /\ OpenAt \in Nat /\ CloseAt \in Nat /\ MaxSpan \in Nat
  /\ MaxFaults \in Nat /\ TTL \in Nat /\ MaxAge \in Nat /\ Len(Watchlist) \in Nat
  /\ OpenAt < CloseAt /\ CloseAt <= DayLength /\ MaxSpan <= OpenAt + DayLength - CloseAt
BY NewsFilterAssumption, SchedulerAssumption DEF MaxAge

LEMMA CandidateType ==
  ASSUME Typed, NEW t \in Tasks, at[t] \in {"lookup", "news", "scoring", "store"}
  PROVE  Candidate(t) \in Symbols /\ sym[t] \in 1 .. Len(Watchlist)
<1>1. sym[t] \in 1 .. Len(Watchlist)
  BY Bounds DEF Typed, TypeOK, AtCandidate
<1>. QED
  BY <1>1, NewsFilterAssumption DEF Candidate

LEMMA ReplyType ==
  ASSUME NEW r \in Replies
  PROVE  parse_sentiment(r) \in Sentiments
BY NewsFilterAssumption DEF parse_sentiment, Sentiments, Failed, Neutral, Labels

LEMMA PlainTypes == Neutral \in Sentiments /\ Failed \in Sentiments
BY DEF Sentiments, Failed, Neutral, Labels

LEMMA AgedType ==
  ASSUME NEW c \in [verdict : Sentiments, left : -1 .. TTL]
  PROVE  Aged(c) \in [verdict : Sentiments, left : -1 .. TTL]
<1>1. Absent \in [verdict : Sentiments, left : -1 .. TTL]
  BY Bounds, PlainTypes DEF Absent
<1>2. ASSUME c.left > 0
      PROVE  [c EXCEPT !.left = @ - 1] \in [verdict : Sentiments, left : -1 .. TTL]
  <2>1. c.left - 1 \in -1 .. TTL
    BY <1>2, Bounds
  <2>. QED
    BY <2>1
<1>3. c.left \in Int
  BY Bounds
<1>. QED
  BY <1>1, <1>2, <1>3 DEF Aged

\* A step inside the tick of a task: only that task moves, and the scheduler stands still.
Inner(t, calls) ==
  /\ up /\ at[t] \in Calls
  /\ \E call \in calls : at' = [at EXCEPT ![t] = call]
  /\ UNCHANGED <<clock, up, once, due, running, span>>

\* It ends, or the whole process does.
Over(t) ==
  \/ at' = [at EXCEPT ![t] = "idle"] /\ running' = FALSE /\ span' = 0
       /\ UNCHANGED <<clock, up, once, due>>
  \/ Down

LEMMA FaultType ==
  ASSUME TypeOK, Fault \/ faults' = faults
  PROVE  faults' \in 0 .. MaxFaults
BY Bounds DEF TypeOK, SchedulerTypeOK, Fault

LEMMA InnerType ==
  ASSUME TypeOK, NEW t \in Tasks, Inner(t, Calls), Fault \/ faults' = faults
  PROVE  SchedulerTypeOK(Calls)'
BY FaultType DEF Inner, TypeOK, SchedulerTypeOK, Calls

LEMMA OverType ==
  ASSUME TypeOK, NEW t \in Tasks, Over(t), Fault \/ faults' = faults
  PROVE  SchedulerTypeOK(Calls)'
<1>1. faults' \in 0 .. MaxFaults
  BY FaultType
<1>2. 0 \in 0 .. MaxSpan
  BY Bounds
<1>. QED
  BY <1>1, <1>2 DEF Over, Down, TypeOK, SchedulerTypeOK

\* What each step of a tick does to the scheduler.
LEMMA Shapes ==
  ASSUME TypeOK, NEW t \in Tasks
  PROVE  /\ ReadClock(t) => Inner(t, {"history"})
         /\ ReadBars(t) => Inner(t, {"history", "lookup"})
         /\ LookUp(t) => Inner(t, {"history", "news"})
         /\ FetchNews(t) => Inner(t, {"scoring", "store"})
         /\ ModelReplies(t) => Inner(t, {"store"})
         /\ Store(t) => Inner(t, {"history"})
         /\ RecordTick(t) \/ Raise(t) => Over(t)
<1>1. ReadClock(t) => Inner(t, {"history"})
  BY DEF ReadClock, Inner, Same, Goes, HasLoop, Calls
<1>2. ReadBars(t) => Inner(t, {"history", "lookup"})
  BY DEF ReadBars, Inner, Same, Goes, HasLoop, Calls, NextSymbol
<1>3. LookUp(t) => Inner(t, {"history", "news"})
  BY DEF LookUp, Inner, Same, Goes, HasLoop, Calls, NextSymbol, Decide, Drop
<1>4. FetchNews(t) => Inner(t, {"scoring", "store"})
  BY DEF FetchNews, Inner, Same, Goes, HasLoop, Calls
<1>5. ModelReplies(t) => Inner(t, {"store"})
  BY DEF ModelReplies, Inner, Same, Goes, HasLoop, Calls
<1>6. Store(t) => Inner(t, {"history"})
  BY DEF Store, Inner, Same, Goes, HasLoop, Calls, NextSymbol, Decide, Drop
<1>7. RecordTick(t) \/ Raise(t) => Over(t)
  BY DEF RecordTick, Raise, Over, TickReturns, TickRaises, TickOver
<1>. QED
  BY <1>1, <1>2, <1>3, <1>4, <1>5, <1>6, <1>7

LEMMA Faulty ==
  ASSUME Next
  PROVE  Fault \/ faults' = faults
<1>1. ASSUME NEW t \in Tasks, ReadClock(t) \/ ReadBars(t) \/ LookUp(t) \/ FetchNews(t)
                              \/ ModelReplies(t) \/ Store(t) \/ RecordTick(t) \/ Raise(t)
      PROVE  Fault \/ faults' = faults
  BY <1>1 DEF ReadClock, ReadBars, LookUp, FetchNews, ModelReplies, Store, RecordTick,
    Raise, Drop
<1>2. ASSUME Scheduling
      PROVE  Fault \/ faults' = faults
  BY <1>2 DEF Scheduling, Boot, BootFails, Fire, _tick, should_run, should_not_run
<1>3. ASSUME Kill \/ TimePasses \/ KeyExpires
      PROVE  Fault \/ faults' = faults
  BY <1>3 DEF Kill, Dies, TimePasses, SlotPasses, KeyExpires, schedulerVars
<1>. QED
  BY <1>1, <1>2, <1>3 DEF Next, Tick
\* What Daemon adds to the scheduler and the verdicts.
OwnTypes ==
  /\ market_open \in [Tasks -> BOOLEAN]
  /\ sym \in [Tasks -> 1 .. Len(Watchlist) + 1]
  /\ sent \in [Tasks -> Sentiments]
  /\ sawPartial \in BOOLEAN
  /\ said \in [Symbols -> [word : Words, age : 0 .. MaxAge + 1]]
  /\ outcome \in {"none", "entry", "blocked", "dropped"}

LEMMA NextSymbolType ==
  ASSUME Typed, NEW t \in Tasks, NextSymbol(t), sym[t] <= Len(Watchlist)
  PROVE  sym' \in [Tasks -> 1 .. Len(Watchlist) + 1]
BY Bounds DEF Typed, TypeOK, NextSymbol

LEMMA WordType == "fine" \in Words /\ \A r \in Replies : Word(r) \in Words
BY DEF Words, Word

LEMMA SaysType ==
  ASSUME TypeOK, NEW s, NEW w \in Words, Says(s, w)
  PROVE  said' \in [Symbols -> [word : Words, age : 0 .. MaxAge + 1]]
<1>1. [word |-> w, age |-> 0] \in [word : Words, age : 0 .. MaxAge + 1]
  BY Bounds
<1>. QED
  BY <1>1 DEF TypeOK, Says

LEMMA SessionType == SessionOpen \in BOOLEAN
BY DEF SessionOpen


LEMMA OwnStep ==
  ASSUME Typed, NEW t \in Tasks,
         ReadClock(t) \/ ReadBars(t) \/ LookUp(t) \/ FetchNews(t) \/ ModelReplies(t)
           \/ Store(t) \/ RecordTick(t) \/ Raise(t)
  PROVE  OwnTypes' /\ VerdictsTypeOK'
<1>. OwnTypes /\ VerdictsTypeOK
  BY DEF Typed, TypeOK, OwnTypes
<1>1. CASE ReadClock(t)
  <2>1. market_open' \in [Tasks -> BOOLEAN]
    BY <1>1, SessionType DEF ReadClock, OwnTypes
  <2>2. sym' \in [Tasks -> 1 .. Len(Watchlist) + 1]
    BY <1>1, Bounds DEF ReadClock, OwnTypes
  <2>. QED
    BY <1>1, <2>1, <2>2 DEF ReadClock, OwnTypes, VerdictsTypeOK
<1>2. CASE ReadBars(t)
  <2>1. sym' \in [Tasks -> 1 .. Len(Watchlist) + 1]
    BY <1>2, NextSymbolType DEF ReadBars, OwnTypes
  <2>2. sawPartial' \in BOOLEAN
    BY <1>2 DEF ReadBars
  <2>. QED
    BY <1>2, <2>1, <2>2 DEF ReadBars, OwnTypes, VerdictsTypeOK
<1>3. CASE LookUp(t)
  <2>1. sym[t] <= Len(Watchlist)
    BY <1>3 DEF LookUp, Typed, AtCandidate
  <2>2. sym' \in [Tasks -> 1 .. Len(Watchlist) + 1]
    BY <1>3, <2>1, NextSymbolType DEF LookUp, OwnTypes, Decide, Drop
  <2>3. outcome' \in {"none", "entry", "blocked", "dropped"}
    BY <1>3 DEF LookUp, OwnTypes, Decide, Drop
  <2>. QED
    BY <1>3, <2>2, <2>3 DEF LookUp, OwnTypes, VerdictsTypeOK
<1>4. CASE FetchNews(t)
  <2>1. said' \in [Symbols -> [word : Words, age : 0 .. MaxAge + 1]]
    BY <1>4, SaysType, WordType DEF FetchNews, OwnTypes, Typed
  <2>2. sent' \in [Tasks -> Sentiments]
    BY <1>4, PlainTypes DEF FetchNews, OwnTypes
  <2>. QED
    BY <1>4, <2>1, <2>2 DEF FetchNews, OwnTypes, VerdictsTypeOK
<1>5. CASE ModelReplies(t)
  <2>1. "fine" \in Words /\ \A r \in Replies : Word(r) \in Words
    BY WordType
  <2>2. said' \in [Symbols -> [word : Words, age : 0 .. MaxAge + 1]]
    BY <1>5, <2>1, SaysType DEF ModelReplies, Typed
  <2>3. sent' \in [Tasks -> Sentiments]
    BY <1>5, PlainTypes, ReplyType DEF ModelReplies, OwnTypes
  <2>. QED
    BY <1>5, <2>2, <2>3 DEF ModelReplies, OwnTypes, VerdictsTypeOK
<1>6. CASE Store(t)
  <2>1. sym[t] <= Len(Watchlist)
    BY <1>6 DEF Store, Typed, AtCandidate
  <2>2. sym' \in [Tasks -> 1 .. Len(Watchlist) + 1]
    BY <1>6, <2>1, NextSymbolType DEF Store, Decide, Drop
  <2>3. outcome' \in {"none", "entry", "blocked", "dropped"}
    BY <1>6 DEF Store, Decide, Drop
  <2>4. sent' \in [Tasks -> Sentiments] /\ sent[t] \in Sentiments
    BY <1>6, PlainTypes DEF Store, OwnTypes
  <2>5. VerdictsTypeOK'
    <3>1. [verdict |-> sent[t], left |-> TTL] \in [verdict : Sentiments, left : -1 .. TTL]
      BY <2>4, Bounds
    <3>2. CASE UNCHANGED verdicts
      BY <3>2 DEF VerdictsTypeOK
    <3>3. CASE set_news_sentiment(Candidate(t), sent[t])
      BY <3>1, <3>3 DEF set_news_sentiment, VerdictsTypeOK
    <3>. QED
      BY <1>6, <3>2, <3>3 DEF Store
  <2>. QED
    BY <1>6, <2>2, <2>3, <2>4, <2>5 DEF Store, OwnTypes
<1>7. CASE RecordTick(t) \/ Raise(t)
  <2>1. LocalsGone(t)
    BY <1>7 DEF RecordTick, Raise
  <2>2. 1 \in 1 .. Len(Watchlist) + 1
    BY Bounds
  <2>. QED
    BY <2>1, <2>2, PlainTypes DEF LocalsGone, OwnTypes, VerdictsTypeOK
<1>. QED
  BY <1>1, <1>2, <1>3, <1>4, <1>5, <1>6, <1>7

\* The tick of a task that is in the middle of an assessment has a candidate.
LEMMA AtStep ==
  ASSUME Typed, NEW t \in Tasks,
         ReadClock(t) \/ ReadBars(t) \/ LookUp(t) \/ FetchNews(t) \/ ModelReplies(t)
           \/ Store(t) \/ RecordTick(t) \/ Raise(t)
  PROVE  AtCandidate'
<1>. SUFFICES ASSUME NEW u \in Tasks, at'[u] \in {"lookup", "news", "scoring", "store"}
              PROVE  sym'[u] <= Len(Watchlist)
  BY DEF AtCandidate
<1>. at \in [Tasks -> Calls \cup {"idle"}] /\ sym \in [Tasks -> 1 .. Len(Watchlist) + 1]
  BY DEF Typed, TypeOK, SchedulerTypeOK
<1>1. at[u] \in {"lookup", "news", "scoring", "store"} => sym[u] <= Len(Watchlist)
  BY DEF Typed, AtCandidate
<1>2. CASE u # t
  BY <1>1, <1>2 DEF ReadClock, ReadBars, LookUp, FetchNews, ModelReplies, Store, RecordTick, Raise,
    Goes, NextSymbol, Decide, Drop, TickReturns, TickRaises, TickOver, Down, LocalsGone
<1>3. CASE u = t
  <2>1. CASE ReadClock(t) \/ RecordTick(t) \/ Raise(t)
    BY <1>3, <2>1 DEF ReadClock, RecordTick, Raise, Goes, TickReturns, TickRaises, TickOver, Down
  <2>2. CASE ReadBars(t)
    BY <1>3, <2>2 DEF ReadBars, Goes, NextSymbol
  <2>3. CASE LookUp(t) \/ Store(t)
    BY <1>1, <1>3, <2>3 DEF LookUp, Store, Goes, NextSymbol, Decide, Drop
  <2>4. CASE FetchNews(t) \/ ModelReplies(t)
    BY <1>1, <1>3, <2>4 DEF FetchNews, ModelReplies
  <2>. QED
    BY <2>1, <2>2, <2>3, <2>4
<1>. QED
  BY <1>2, <1>3
LEMMA TickType ==
  ASSUME TypeOK, SchedulerTypeOK(Calls), NEW t \in Tasks, _tick(t)
  PROVE  /\ running' \in BOOLEAN /\ span' \in 0 .. MaxSpan
         /\ at' \in [Tasks -> Calls \cup {"idle"}]
         /\ Fault \/ faults' = faults
<1>1. 0 \in 0 .. MaxSpan /\ "clock" \in Calls
  BY Bounds DEF Calls
<1>. QED
  BY <1>1 DEF SchedulerTypeOK, _tick, should_run, should_not_run, run_tick

LEMMA SchedulingType ==
  ASSUME TypeOK, Scheduling
  PROVE  SchedulerTypeOK(Calls)'
<1>. SchedulerTypeOK(Calls) /\ "boot" \in Tasks /\ "interval" \in Tasks
  BY DEF TypeOK, Tasks
<1>1. CASE Boot
  <2>1. Fault \/ faults' = faults
    BY <1>1, TickType DEF Boot
  <2>2. 0 \in 0 .. MaxSpan /\ "clock" \in Calls
    BY Bounds DEF Calls
  <2>3. /\ running' \in BOOLEAN /\ span' \in 0 .. MaxSpan
        /\ at' \in [Tasks -> Calls \cup {"idle"}]
    BY <1>1, <2>2, TickType DEF Boot, run_tick, SchedulerTypeOK
  <2>. QED
    BY <1>1, <2>1, <2>3, FaultType DEF Boot, SchedulerTypeOK
<1>2. CASE BootFails
  BY <1>2, FaultType DEF BootFails, SchedulerTypeOK
<1>3. CASE Fire
  <2>1. Fault \/ faults' = faults
    BY <1>3, TickType DEF Fire
  <2>2. /\ running' \in BOOLEAN /\ span' \in 0 .. MaxSpan
        /\ at' \in [Tasks -> Calls \cup {"idle"}]
    BY <1>3, TickType DEF Fire, SchedulerTypeOK
  <2>. QED
    BY <1>3, <2>1, <2>2, FaultType DEF Fire, SchedulerTypeOK
<1>. QED
  BY <1>1, <1>2, <1>3 DEF Scheduling

LEMMA SlotTypes ==
  ASSUME TypeOK
  PROVE  clock \in Nat /\ clock < DayLength /\ span \in Nat /\ span <= MaxSpan
BY Bounds DEF TypeOK, SchedulerTypeOK

LEMMA NextSlot ==
  ASSUME TimePasses
  PROVE  /\ clock' = IF clock + 1 = DayLength THEN 0 ELSE clock + 1
         /\ IF Ticking THEN span < MaxSpan /\ span' = span + 1 ELSE span' = span
BY DEF TimePasses, SlotPasses

LEMMA TimeType ==
  ASSUME TypeOK, TimePasses
  PROVE  TypeOK'
<1>1. faults' \in 0 .. MaxFaults
  BY FaultType DEF TimePasses, SlotPasses
<1>2. clock' \in 0 .. DayLength - 1
  BY SlotTypes, NextSlot, Bounds
<1>3. span' \in 0 .. MaxSpan
  BY SlotTypes, NextSlot, Bounds
<1>4. SchedulerTypeOK(Calls)'
  BY <1>1, <1>2, <1>3 DEF TimePasses, SlotPasses, TypeOK, SchedulerTypeOK
<1>5. VerdictsTypeOK'
  BY AgedType DEF TimePasses, TypeOK, VerdictsTypeOK
<1>6. said' \in [Symbols -> [word : Words, age : 0 .. MaxAge + 1]]
  <2>1. \A s \in Symbols : said[s] \in [word : Words, age : 0 .. MaxAge + 1]
    BY DEF TypeOK
  <2>2. \A s \in Symbols : said'[s] \in [word : Words, age : 0 .. MaxAge + 1]
    <3>. TAKE s \in Symbols
    <3>1. said[s].age \in 0 .. MaxAge + 1 /\ said[s].word \in Words
      BY <2>1
    <3>2. CASE said[s].age >= MaxAge
      <4>1. MaxAge + 1 \in 0 .. MaxAge + 1 /\ "fine" \in Words
        BY Bounds, WordType
      <4>. QED
        BY <3>2, <4>1 DEF TimePasses
    <3>3. CASE ~(said[s].age >= MaxAge)
      <4>1. said[s].age + 1 \in 0 .. MaxAge + 1
        BY <3>1, <3>3, Bounds
      <4>2. said'[s] = [said[s] EXCEPT !.age = @ + 1]
        BY <3>3 DEF TimePasses
      <4>. QED
        BY <2>1, <4>1, <4>2
    <3>. QED
      BY <3>2, <3>3
  <2>. QED
    BY <2>2 DEF TimePasses
<1>. QED
  BY <1>4, <1>5, <1>6 DEF TypeOK, TimePasses, tickVars

LEMMA TypedStep ==
  ASSUME Typed, [Next]_vars
  PROVE  Typed'
<1>. TypeOK
  BY DEF Typed
<1>1. CASE Tick
  <2>. PICK t \in Tasks : ReadClock(t) \/ ReadBars(t) \/ LookUp(t) \/ FetchNews(t)
                            \/ ModelReplies(t) \/ Store(t) \/ RecordTick(t) \/ Raise(t)
    BY <1>1 DEF Tick
  <2>1. Fault \/ faults' = faults
    BY <1>1, Faulty DEF Next
  <2>2. Inner(t, Calls) \/ Over(t)
    BY Shapes DEF Inner, Calls
  <2>3. SchedulerTypeOK(Calls)'
    BY <2>1, <2>2, InnerType, OverType
  <2>. QED
    BY <2>3, OwnStep, AtStep DEF Typed, TypeOK, OwnTypes
<1>2. CASE Scheduling
  <2>1. SchedulerTypeOK(Calls)'
    BY <1>2, SchedulingType
  <2>2. \A u \in Tasks : at'[u] \in {at[u], "idle", "clock"}
    BY <1>2 DEF Scheduling, Boot, BootFails, Fire, _tick, run_tick, TypeOK, SchedulerTypeOK
  <2>3. UNCHANGED <<verdicts, tickVars, said>>
    BY <1>2 DEF Scheduling
  <2>4. AtCandidate'
    BY <2>2, <2>3 DEF AtCandidate, Typed, tickVars
  <2>. QED
    BY <2>1, <2>3, <2>4 DEF Typed, TypeOK, VerdictsTypeOK, tickVars
<1>3. CASE Kill
  <2>1. SchedulerTypeOK(Calls)'
    <3>1. faults' \in 0 .. MaxFaults /\ 0 \in 0 .. MaxSpan
      BY <1>3, FaultType, Bounds DEF Kill, Dies
    <3>. QED
      BY <1>3, <3>1 DEF Kill, Dies, Down, TypeOK, SchedulerTypeOK
  <2>2. 1 \in 1 .. Len(Watchlist) + 1
    BY Bounds
  <2>3. AtCandidate'
    BY <1>3 DEF Kill, Dies, Down, AtCandidate
  <2>. QED
    BY <1>3, <2>1, <2>2, <2>3, PlainTypes DEF Kill, Typed, TypeOK, VerdictsTypeOK
<1>4. CASE TimePasses
  <2>1. AtCandidate'
    BY <1>4 DEF TimePasses, SlotPasses, tickVars, AtCandidate, Typed
  <2>. QED
    BY <1>4, <2>1, TimeType DEF Typed
<1>5. CASE KeyExpires
  <2>1. VerdictsTypeOK'
    <3>1. Absent \in [verdict : Sentiments, left : -1 .. TTL]
      BY Bounds, PlainTypes DEF Absent
    <3>. QED
      BY <1>5, <3>1 DEF KeyExpires, Expire, TypeOK, VerdictsTypeOK
  <2>. QED
    BY <1>5, <2>1 DEF KeyExpires, schedulerVars, tickVars, Typed, TypeOK, SchedulerTypeOK, AtCandidate
<1>6. CASE UNCHANGED vars
  BY <1>6 DEF vars, schedulerVars, tickVars, Typed, TypeOK, SchedulerTypeOK, VerdictsTypeOK,
    AtCandidate
<1>. QED
  BY <1>1, <1>2, <1>3, <1>4, <1>5, <1>6 DEF Next

LEMMA TypedAlways == Spec => []Typed
<1>1. Init => Typed
  <2>. SUFFICES ASSUME Init PROVE Typed
    OBVIOUS
  <2>1. SchedulerTypeOK(Calls)
    <3>1. 0 \in 0 .. DayLength - 1 /\ 0 \in 0 .. MaxSpan /\ 0 \in 0 .. MaxFaults
      BY Bounds
    <3>. QED
      BY <3>1 DEF Init, SchedulerInit, SchedulerTypeOK
  <2>2. VerdictsTypeOK
    BY Bounds, PlainTypes DEF Init, NoVerdicts, VerdictsTypeOK, Absent
  <2>3. said \in [Symbols -> [word : Words, age : 0 .. MaxAge + 1]]
    BY Bounds, WordType DEF Init
  <2>4. sym \in [Tasks -> 1 .. Len(Watchlist) + 1]
    BY Bounds DEF Init
  <2>5. AtCandidate
    BY DEF Init, SchedulerInit, AtCandidate
  <2>. QED
    BY <2>1, <2>2, <2>3, <2>4, <2>5, PlainTypes DEF Init, Typed, TypeOK
<1>. QED
  BY <1>1, TypedStep, PTL DEF Spec

\* Every reachable state of the daemon is well typed.
THEOREM Typing == Spec => []TypeOK
BY TypedAlways, PTL DEF Typed
-----------------------------------------------------------------------------
(* One tick at a time. *)

\* What keeps the ticks apart: _running says exactly whether one is on, in a process
\* that stays; a run-once process has no interval job.
OneTick ==
  /\ ~(InTick("boot") /\ InTick("interval"))
  /\ ~up => ~Ticking /\ ~running
  /\ up /\ once => due = "no" /\ ~InTick("interval")
  /\ up /\ ~once => (running <=> Ticking)

LEMMA TasksAre == \A t \in Tasks : t = "boot" \/ t = "interval"
BY DEF Tasks

LEMMA TickingIs == Ticking <=> InTick("boot") \/ InTick("interval")
BY DEF Ticking, Tasks

\* Inside a tick nothing changes for the scheduler.
LEMMA InnerKeeps ==
  ASSUME TypeOK, NEW t \in Tasks, Inner(t, Calls)
  PROVE  /\ \A u \in Tasks : (InTick(u))' <=> InTick(u)
         /\ (Ticking)' <=> Ticking
<1>1. at \in [Tasks -> Calls \cup {"idle"}]
  BY DEF TypeOK, SchedulerTypeOK
<1>2. \A u \in Tasks : (InTick(u))' <=> InTick(u)
  BY <1>1 DEF Inner, InTick, Calls
<1>. QED
  BY <1>2 DEF Ticking

LEMMA InTickStep ==
  ASSUME NEW t \in Tasks,
         ReadClock(t) \/ ReadBars(t) \/ LookUp(t) \/ FetchNews(t) \/ ModelReplies(t)
           \/ Store(t) \/ RecordTick(t) \/ Raise(t)
  PROVE  InTick(t) /\ up
BY DEF ReadClock, ReadBars, LookUp, FetchNews, ModelReplies, Store, RecordTick, Raise,
  InTick, HasLoop

LEMMA OverEnds ==
  ASSUME TypeOK, OneTick, NEW t \in Tasks, InTick(t), up, Over(t)
  PROVE  OneTick' /\ ~(Ticking)' /\ \A u \in Tasks : at'[u] = "idle"
<1>1. at \in [Tasks -> Calls \cup {"idle"}]
  BY DEF TypeOK, SchedulerTypeOK
<1>2. \A u \in Tasks : at'[u] = "idle"
  BY <1>1, TasksAre DEF Over, Down, OneTick, InTick
<1>3. ~(Ticking)'
  BY <1>2 DEF Ticking, InTick
<1>4. ~running'
  BY DEF Over, Down
<1>5. up' /\ once' => up /\ once /\ due' = due
  BY DEF Over, Down
<1>6. ~InTick("boot")' /\ ~InTick("interval")'
  BY <1>2 DEF InTick, Tasks
<1>7. up /\ once => due = "no"
  BY DEF OneTick
<1>. QED
  BY <1>2, <1>3, <1>4, <1>5, <1>6, <1>7 DEF OneTick

LEMMA TickStarts ==
  ASSUME TypeOK, NEW t \in Tasks, _tick(t), ~running => ~Ticking
  PROVE  \/ running /\ UNCHANGED <<running, at, span>>
         \/ ~running /\ UNCHANGED <<running, at, span>>
         \/ /\ ~running /\ ~Ticking /\ (has_crypto \/ SessionOpen)
            /\ running' = TRUE /\ at' = [at EXCEPT ![t] = "clock"] /\ span' = 0
BY DEF _tick, should_run, run_tick

LEMMA OneTickStep ==
  ASSUME Typed, OneTick, [Next]_vars
  PROVE  OneTick'
<1>. TypeOK /\ at \in [Tasks -> Calls \cup {"idle"}] /\ Tasks = {"boot", "interval"}
  BY DEF Typed, TypeOK, SchedulerTypeOK, Tasks
<1>1. CASE Tick
  <2>. PICK t \in Tasks : ReadClock(t) \/ ReadBars(t) \/ LookUp(t) \/ FetchNews(t)
                            \/ ModelReplies(t) \/ Store(t) \/ RecordTick(t) \/ Raise(t)
    BY <1>1 DEF Tick
  <2>1. CASE Over(t)
    BY <2>1, InTickStep, OverEnds
  <2>2. CASE Inner(t, Calls)
    <3>1. /\ (InTick("boot"))' <=> InTick("boot")
          /\ (InTick("interval"))' <=> InTick("interval")
          /\ (Ticking)' <=> Ticking
      BY <2>2, InnerKeeps
    <3>2. UNCHANGED <<up, once, due, running>>
      BY <2>2 DEF Inner
    <3>. QED
      BY <3>1, <3>2 DEF OneTick
  <2>. QED
    BY <2>1, <2>2, Shapes DEF Inner, Calls
<1>2. CASE Scheduling
  <2>1. CASE Boot
    <3>1. ~up /\ up' /\ due' = "no" /\ ~Ticking /\ ~running
      BY <2>1 DEF Boot, OneTick
    <3>2. ~InTick("boot") /\ ~InTick("interval")
      BY <3>1, TickingIs
    <3>3. CASE once' = TRUE /\ run_tick("boot") /\ UNCHANGED <<running, faults>>
      <4>1. at' = [at EXCEPT !["boot"] = "clock"]
        BY <3>3 DEF run_tick
      <4>2. ~InTick("interval")'
        BY <3>2, <4>1 DEF InTick
      <4>. QED
        BY <3>1, <3>3, <4>2 DEF OneTick
    <3>4. CASE once' = FALSE /\ _tick("boot")
      <4>1. CASE UNCHANGED <<running, at>>
        BY <3>1, <3>2, <3>4, <4>1 DEF OneTick, Ticking, InTick
      <4>2. CASE running' = TRUE /\ at' = [at EXCEPT !["boot"] = "clock"]
        <5>1. InTick("boot")' /\ ~InTick("interval")'
          BY <3>2, <4>2 DEF InTick
        <5>2. (Ticking)'
          BY <5>1 DEF Ticking
        <5>. QED
          BY <3>1, <3>4, <4>2, <5>1, <5>2 DEF OneTick
      <4>. QED
        BY <3>1, <3>4, <4>1, <4>2, TickStarts
    <3>. QED
      BY <2>1, <3>3, <3>4 DEF Boot
  <2>2. CASE BootFails
    BY <2>2 DEF BootFails, OneTick, Ticking, InTick
  <2>3. CASE Fire
    <3>1. up /\ ~once /\ due' = "no" /\ UNCHANGED <<up, once>> /\ (running <=> Ticking)
      BY <2>3 DEF Fire, OneTick, TypeOK, SchedulerTypeOK
    <3>2. CASE UNCHANGED <<running, at>>
      BY <3>1, <3>2 DEF OneTick, Ticking, InTick
    <3>3. CASE ~Ticking /\ running' = TRUE /\ at' = [at EXCEPT !["interval"] = "clock"]
      <4>1. InTick("interval")' /\ ~InTick("boot")'
        BY <3>3, TickingIs DEF InTick
      <4>2. (Ticking)'
        BY <4>1 DEF Ticking
      <4>. QED
        BY <3>1, <3>3, <4>1, <4>2 DEF OneTick
    <3>. QED
      BY <2>3, <3>1, <3>2, <3>3, TickStarts DEF Fire
  <2>. QED
    BY <1>2, <2>1, <2>2, <2>3 DEF Scheduling
<1>3. CASE Kill
  BY <1>3 DEF Kill, Dies, Down, OneTick, Ticking, InTick
<1>4. CASE TimePasses
  <2>1. UNCHANGED <<up, once, running, at>> /\ (once => due' = "no")
    BY <1>4 DEF TimePasses, SlotPasses
  <2>. QED
    BY <2>1 DEF OneTick, Ticking, InTick
<1>5. CASE KeyExpires
  BY <1>5 DEF KeyExpires, schedulerVars, OneTick, Ticking, InTick
<1>6. CASE UNCHANGED vars
  BY <1>6 DEF vars, schedulerVars, OneTick, Ticking, InTick
<1>. QED
  BY <1>1, <1>2, <1>3, <1>4, <1>5, <1>6 DEF Next

LEMMA OneTickAlways == Spec => []OneTick
<1>1. Init => OneTick
  BY DEF Init, SchedulerInit, OneTick, Ticking, InTick, Tasks
<1>. QED
  BY <1>1, OneTickStep, TypedAlways, PTL DEF Spec

\* Two ticks never run at once, and _running tells it exactly, through every exception.
THEOREM TicksNeverOverlap == Spec => []NoOverlap
<1>1. OneTick => NoOverlap
  BY TasksAre DEF OneTick, NoOverlap
<1>. QED
  BY <1>1, OneTickAlways, PTL
-----------------------------------------------------------------------------
(* No scheduled tick judges a bar in progress. *)

\* A tick still on after the close has spent every slot since in it.
Late == up /\ ~once /\ Ticking =>
  /\ clock >= CloseAt => span >= clock - CloseAt + 1
  /\ clock < OpenAt => span >= clock + DayLength - CloseAt + 1

\* A tick that was told the market is closed runs while it is.
Told == up /\ ~once => \A t \in Tasks :
  InTick(t) /\ at[t] # "clock" /\ ~market_open[t] => ~SessionOpen

\* As a tick lasts no night, no session opens while one is on.
LEMMA NightIsLong ==
  ASSUME TypeOK, Late, up, ~once, Ticking, TimePasses
  PROVE  Late' /\ (~SessionOpen => ~SessionOpen')
<1>1. /\ span' = span + 1 /\ span < MaxSpan
      /\ clock' = IF clock + 1 = DayLength THEN 0 ELSE clock + 1
  BY NextSlot
<1>2. /\ clock >= CloseAt => span >= clock - CloseAt + 1
      /\ clock < OpenAt => span >= clock + DayLength - CloseAt + 1
  BY DEF Late
<1>. clock \in Nat /\ clock < DayLength /\ span \in Nat
  BY SlotTypes
<1>3. CASE clock + 1 = DayLength
  <2>1. clock' = 0
    BY <1>1, <1>3
  <2>2. clock' < OpenAt => span' >= clock' + DayLength - CloseAt + 1
    BY <1>1, <1>2, <1>3, <2>1, Bounds
  <2>3. clock' >= CloseAt => span' >= clock' - CloseAt + 1
    BY <2>1, Bounds
  <2>4. ~SessionOpen => ~SessionOpen'
    BY <1>1, <1>2, <1>3, <2>1, Bounds DEF SessionOpen
  <2>. QED
    BY <2>2, <2>3, <2>4 DEF Late
<1>4. CASE clock + 1 # DayLength
  <2>1. clock' = clock + 1
    BY <1>1, <1>4
  <2>2. clock' < OpenAt => span' >= clock' + DayLength - CloseAt + 1
    BY <1>1, <1>2, <2>1, Bounds
  <2>3. clock' >= CloseAt => span' >= clock' - CloseAt + 1
    BY <1>1, <1>2, <2>1, Bounds
  <2>4. ~SessionOpen => ~SessionOpen'
    BY <1>1, <1>2, <2>1, Bounds DEF SessionOpen
  <2>. QED
    BY <2>2, <2>3, <2>4 DEF Late
<1>. QED
  BY <1>3, <1>4 DEF Late

\* Without crypto.
Gated == ~has_crypto => Late /\ Told

\* A tick the gate lets in begins in a session.
LEMMA GateOpens ==
  ASSUME TypeOK, SessionOpen
  PROVE  ~(clock >= CloseAt) /\ ~(clock < OpenAt)
BY SlotTypes, Bounds DEF SessionOpen

LEMMA GatedTickStep ==
  ASSUME Typed, OneTick, Gated, NEW t \in Tasks,
         ReadClock(t) \/ ReadBars(t) \/ LookUp(t) \/ FetchNews(t) \/ ModelReplies(t)
           \/ Store(t) \/ RecordTick(t) \/ Raise(t)
  PROVE  Gated'
<1>. SUFFICES ASSUME ~has_crypto PROVE Late' /\ Told'
  BY DEF Gated, has_crypto
<1>. TypeOK /\ at \in [Tasks -> Calls \cup {"idle"}]
  BY DEF Typed, TypeOK, SchedulerTypeOK
<1>. market_open \in [Tasks -> BOOLEAN]
  BY DEF Typed, TypeOK
<1>1. CASE Over(t)
  <2>1. ~(Ticking)' /\ \A u \in Tasks : at'[u] = "idle"
    BY <1>1, InTickStep, OverEnds
  <2>. QED
    BY <2>1 DEF Gated, Late, Told, InTick
<1>2. CASE Inner(t, Calls)
  <2>1. UNCHANGED <<clock, up, once, span>> /\ ((Ticking)' <=> Ticking)
    BY <1>2, InnerKeeps DEF Inner
  <2>2. Late'
    BY <2>1 DEF Gated, Late
  <2>3. SessionOpen' <=> SessionOpen
    BY <2>1 DEF SessionOpen
  <2>4. ASSUME up', ~once', NEW u \in Tasks, InTick(u)', at'[u] # "clock", ~market_open'[u]
        PROVE  ~SessionOpen'
    <3>1. CASE ReadClock(t) /\ u = t
      BY <2>3, <2>4, <3>1 DEF ReadClock
    <3>2. CASE ReadClock(t) /\ u # t
      <4>1. at'[u] = at[u] /\ market_open'[u] = market_open[u]
        BY <3>2 DEF ReadClock, Goes
      <4>. QED
        BY <2>1, <2>3, <2>4, <4>1 DEF Gated, Told, InTick
    <3>3. CASE ~ReadClock(t)
      <4>1. ReadBars(t) \/ LookUp(t) \/ FetchNews(t) \/ ModelReplies(t) \/ Store(t)
              \/ RecordTick(t) \/ Raise(t)
        BY <3>3
      <4>2. CASE RecordTick(t) \/ Raise(t)
        BY <1>1, <2>4, <4>2, Shapes DEF Gated, Told
      <4>3. CASE ~(RecordTick(t) \/ Raise(t))
        <5>1. at[t] # "clock" /\ UNCHANGED market_open
          BY <4>1, <4>3 DEF ReadBars, LookUp, FetchNews, ModelReplies, Store
        <5>2. InTick(u) /\ at[u] # "clock"
          BY <1>2, <2>4, <5>1, InTickStep DEF Inner, InTick
        <5>. QED
          BY <2>1, <2>3, <2>4, <5>1, <5>2 DEF Gated, Told
      <4>. QED
        BY <4>2, <4>3
    <3>. QED
      BY <3>1, <3>2, <3>3
  <2>. QED
    BY <2>2, <2>4 DEF Gated, Told
<1>. QED
  BY <1>1, <1>2, Shapes DEF Inner, Calls

LEMMA GatedStep ==
  ASSUME Typed, OneTick, Gated, [Next]_vars
  PROVE  Gated'
<1>. SUFFICES ASSUME ~has_crypto PROVE Late' /\ Told'
  BY DEF Gated, has_crypto
<1>. TypeOK /\ at \in [Tasks -> Calls \cup {"idle"}] /\ Tasks = {"boot", "interval"}
  BY DEF Typed, TypeOK, SchedulerTypeOK, Tasks
<1>1. CASE Tick
  BY <1>1, GatedTickStep DEF Tick, Gated, has_crypto
<1>2. CASE Scheduling
  <2>. clock' = clock /\ UNCHANGED market_open
    BY <1>2 DEF Scheduling, Boot, BootFails, Fire, tickVars
  <2>1. CASE BootFails
    BY <2>1 DEF BootFails, Gated, Late, Told, Ticking, InTick, SessionOpen
  <2>2. CASE Boot /\ once'
    BY <2>2 DEF Gated, Late, Told
  <2>3. CASE (Boot /\ ~once') \/ Fire
    <3>1. PICK t \in Tasks : \/ UNCHANGED <<running, at, span>>
                             \/ _tick(t)
      BY <2>3 DEF Boot, Fire
    <3>2. (~running => ~Ticking) /\ (Boot => ~Ticking) /\ (Fire => UNCHANGED <<up, once>>)
      BY <2>3 DEF Boot, Fire, OneTick, TypeOK, SchedulerTypeOK
    <3>3. CASE UNCHANGED <<running, at, span>>
      BY <2>3, <3>2, <3>3 DEF Gated, Late, Told, Ticking, InTick, SessionOpen
    <3>4. CASE ~Ticking /\ SessionOpen /\ at' = [at EXCEPT ![t] = "clock"]
      <4>1. Late'
        BY <3>4, GateOpens DEF Late
      <4>2. \A u \in Tasks : at'[u] = "clock" \/ at'[u] = "idle"
        BY <3>4 DEF Ticking, InTick
      <4>. QED
        BY <4>1, <4>2 DEF Gated, Told, InTick
    <3>. QED
      BY <3>1, <3>2, <3>3, <3>4, TickStarts
  <2>. QED
    BY <1>2, <2>1, <2>2, <2>3 DEF Scheduling
<1>3. CASE Kill
  BY <1>3 DEF Kill, Dies, Down, Gated, Late, Told
<1>4. CASE TimePasses
  <2>1. UNCHANGED <<up, once, at, market_open>>
    BY <1>4 DEF TimePasses, SlotPasses, tickVars
  <2>2. CASE up /\ ~once /\ Ticking
    <3>1. Late' /\ (~SessionOpen => ~SessionOpen')
      BY <1>4, <2>2, NightIsLong DEF Gated
    <3>. QED
      BY <2>1, <3>1 DEF Gated, Told, InTick
  <2>3. CASE ~(up /\ ~once /\ Ticking)
    BY <2>1, <2>3 DEF Gated, Late, Told, Ticking, InTick
  <2>. QED
    BY <2>2, <2>3
<1>5. CASE KeyExpires
  BY <1>5 DEF KeyExpires, schedulerVars, tickVars, Gated, Late, Told, Ticking, InTick, SessionOpen
<1>6. CASE UNCHANGED vars
  BY <1>6 DEF vars, schedulerVars, tickVars, Gated, Late, Told, Ticking, InTick, SessionOpen
<1>. QED
  BY <1>1, <1>2, <1>3, <1>4, <1>5, <1>6 DEF Next

LEMMA GatedAlways == Spec => []Gated
<1>1. Init => Gated
  BY DEF Init, SchedulerInit, Gated, Late, Told
<1>. QED
  BY <1>1, GatedStep, OneTickAlways, TypedAlways, PTL DEF Spec

\* A scheduled tick judges completed bars only, however long it takes, up to a night.
THEOREM CompletedBarsOnly == Spec => []ClosedBarsOnly
<1>1. Init => ClosedBarsOnly
  BY DEF Init, ClosedBarsOnly
<1>2. Typed /\ OneTick /\ Gated /\ ClosedBarsOnly /\ [Next]_vars => ClosedBarsOnly'
  <2>. SUFFICES ASSUME Typed, Gated, ClosedBarsOnly, [Next]_vars, ~has_crypto
                PROVE  ~sawPartial'
    BY DEF ClosedBarsOnly, has_crypto
  <2>1. ~sawPartial
    BY DEF ClosedBarsOnly
  <2>2. ASSUME NEW t \in Tasks, ReadBars(t)
        PROVE  ~sawPartial'
    <3>1. up /\ at[t] = "history"
      BY <2>2 DEF ReadBars, HasLoop
    <3>2. ~(KeepsPartial(t) /\ ~once)
      BY <3>1 DEF Gated, Told, KeepsPartial, InTick, has_crypto
    <3>. QED
      BY <2>1, <2>2, <3>2 DEF ReadBars
  <2>3. ASSUME NEW t \in Tasks, ReadClock(t) \/ LookUp(t) \/ FetchNews(t) \/ ModelReplies(t)
                                  \/ Store(t) \/ RecordTick(t) \/ Raise(t)
        PROVE  ~sawPartial'
    BY <2>1, <2>3 DEF ReadClock, LookUp, FetchNews, ModelReplies, Store, RecordTick, Raise,
      LocalsGone
  <2>4. ASSUME Scheduling \/ Kill \/ TimePasses \/ KeyExpires \/ UNCHANGED vars
        PROVE  ~sawPartial'
    BY <2>1, <2>4 DEF Scheduling, Kill, TimePasses, KeyExpires, vars, tickVars
  <2>. QED
    BY <2>2, <2>3, <2>4 DEF Next, Tick
<1>. QED
  BY <1>1, <1>2, GatedAlways, OneTickAlways, TypedAlways, PTL DEF Spec
-----------------------------------------------------------------------------
(* Entries are decided on the news. *)

LEMMA PlainNeverBlocks == ~should_block(Neutral) /\ ~should_block(Failed)
BY DEF should_block, Neutral, Failed

\* A verdict suits a word: it blocks if the word is adverse, and only if it is that or
\* a denial that came as a text.
Suits(v, word) ==
  /\ word = "adverse" => should_block(v)
  /\ should_block(v) => word # "fine"

LEMMA PlainSuits == Suits(Neutral, "fine") /\ Suits(Failed, "fine")
BY PlainNeverBlocks DEF Suits

LEMMA ReplySuits ==
  ASSUME NEW r \in Replies
  PROVE  Suits(parse_sentiment(r), Word(r))
<1>1. /\ r.label \in STRING /\ r.json \in BOOLEAN
      /\ r.earnings # "false" => r.earnings \in {"true", "yes", "no"}
  BY NewsFilterAssumption
<1>2. CASE ~Readable(r)
  <2>1. parse_sentiment(r) = Failed /\ Word(r) = "fine"
    BY <1>2 DEF parse_sentiment, Readable, Word, Adverse, Denial
  <2>. QED
    BY <2>1, PlainSuits
<1>3. CASE Readable(r)
  <2>. DEFINE v == parse_sentiment(r)
  <2>1. /\ v.error = FALSE
        /\ v.sure = (r.confidence = "high") /\ v.earnings = (r.earnings # "false")
        /\ v.label = IF r.label \in Labels THEN r.label ELSE "neutral"
    BY <1>3 DEF parse_sentiment, Readable
  <2>2. v.label = "bearish" <=> r.label = "bearish"
    BY <2>1 DEF Labels
  <2>3. Adverse(r) => should_block(v)
    BY <2>1, <2>2 DEF should_block, Adverse
  <2>4. should_block(v) => Adverse(r) \/ Denial(r)
    BY <1>1, <1>3, <2>1, <2>2 DEF should_block, Adverse, Denial
  <2>. QED
    BY <2>3, <2>4 DEF Suits, Word
<1>. QED
  BY <1>2, <1>3

\* What is on file, or about to be, suits the model's last word.
Agrees ==
  /\ \A s \in Symbols : OnFile(s) => Suits(verdicts[s].verdict, said[s].word)
  /\ \A t \in Tasks : at[t] = "store" => Suits(sent[t], said[Candidate(t)].word)

\* And that word is no older than what the key has used up of its lifetime and a tick.
Fresh ==
  /\ \A s \in Symbols : OnFile(s) => said[s].age + verdicts[s].left <= MaxAge
  /\ \A t \in Tasks : at[t] = "store" => said[Candidate(t)].age <= span

\* Nothing is on file of a symbol that is being assessed.
Unfiled == \A t \in Tasks : at[t] \in {"news", "scoring", "store"} => ~OnFile(Candidate(t))

Known == Agrees /\ Fresh /\ Unfiled

Assessing == {"news", "scoring", "store"}

\* Nobody is in the middle of an assessment, and nothing was said or stored.
LEMMA KnownWhenQuiet ==
  ASSUME Known, UNCHANGED <<verdicts, said>>, \A u \in Tasks : at'[u] \notin Assessing
  PROVE  Known'
BY DEF Known, Agrees, Fresh, Unfiled, OnFile, Assessing

LEMMA OthersIdle ==
  ASSUME TypeOK, OneTick, NEW t \in Tasks, InTick(t), Inner(t, Calls), NEW u \in Tasks, u # t
  PROVE  at[u] = "idle" /\ at'[u] = "idle"
<1>1. at \in [Tasks -> Calls \cup {"idle"}]
  BY DEF TypeOK, SchedulerTypeOK
<1>2. at[u] = "idle"
  BY TasksAre DEF OneTick, InTick
<1>. QED
  BY <1>1, <1>2 DEF Inner

\* The last word on the candidate arrives; nothing is on file of it.
LEMMA KnownWhenSaid ==
  ASSUME Typed, OneTick, Known, NEW t \in Tasks, at[t] \in {"news", "scoring"},
         Inner(t, {"scoring", "store"}), at'[t] = "store", UNCHANGED <<verdicts, sym>>,
         NEW v, sent' = [sent EXCEPT ![t] = v], NEW w \in Words, Suits(v, w),
         Says(Candidate(t), w)
  PROVE  Known'
<1>. TypeOK /\ Inner(t, Calls) /\ InTick(t)
  BY DEF Typed, Inner, Calls, InTick
<1>. Candidate(t) \in Symbols /\ sent \in [Tasks -> Sentiments]
  BY CandidateType DEF TypeOK
<1>. said \in [Symbols -> [word : Words, age : 0 .. MaxAge + 1]]
  BY DEF TypeOK
<1>1. ~OnFile(Candidate(t)) /\ Candidate(t)' = Candidate(t)
  BY DEF Known, Unfiled, Candidate
<1>2. \A u \in Tasks : at'[u] \in Assessing => u = t
  BY OthersIdle DEF Assessing
<1>3. \A s \in Symbols : s # Candidate(t) => said'[s] = said[s]
  BY DEF Says
<1>4. said'[Candidate(t)].word = w /\ said'[Candidate(t)].age = 0 /\ sent'[t] = v
  BY DEF Says
<1>5. \A s \in Symbols : OnFile(s)' <=> OnFile(s)
  BY DEF OnFile
<1>6. Agrees'
  BY <1>1, <1>2, <1>3, <1>4, <1>5 DEF Known, Agrees, Assessing
<1>7. Fresh'
  <2>1. span' \in Nat
    BY SlotTypes DEF Inner
  <2>. QED
    BY <1>1, <1>2, <1>3, <1>4, <1>5, <2>1 DEF Known, Fresh, Assessing
<1>8. Unfiled'
  BY <1>1, <1>2, <1>5 DEF Unfiled, Assessing
<1>. QED
  BY <1>6, <1>7, <1>8 DEF Known
LEMMA VerdictTypes ==
  ASSUME Typed, NEW s \in Symbols
  PROVE  /\ verdicts[s].left \in -1 .. TTL /\ verdicts[s].verdict \in Sentiments
         /\ said[s].age \in 0 .. MaxAge + 1 /\ said[s].word \in Words
BY DEF Typed, TypeOK, VerdictsTypeOK

LEMMA KnownWhenStored ==
  ASSUME Typed, Known, NEW t \in Tasks, at[t] = "store",
         set_news_sentiment(Candidate(t), sent[t]), said' = said,
         \A u \in Tasks : at'[u] \notin Assessing
  PROVE  Known'
<1>. DEFINE c == Candidate(t)
<1>. c \in Symbols /\ TypeOK /\ verdicts \in [Symbols -> [verdict : Sentiments, left : -1 .. TTL]]
  BY CandidateType DEF Typed, TypeOK, VerdictsTypeOK
<1>1. verdicts'[c].verdict = sent[t] /\ verdicts'[c].left = TTL
  BY DEF set_news_sentiment
<1>2. \A s \in Symbols : s # c => verdicts'[s] = verdicts[s]
  BY DEF set_news_sentiment
<1>3. said[c].age \in Nat /\ said[c].age <= span
  BY VerdictTypes DEF Known, Fresh
<1>4. said[c].age + TTL <= MaxAge
  BY <1>3, SlotTypes, Bounds DEF MaxAge
<1>5. Suits(sent[t], said[c].word)
  BY DEF Known, Agrees
<1>6. Agrees'
  BY <1>1, <1>2, <1>5 DEF Known, Agrees, OnFile, Assessing
<1>7. Fresh'
  BY <1>1, <1>2, <1>4 DEF Known, Fresh, OnFile, Assessing
<1>8. Unfiled'
  BY DEF Unfiled, Assessing
<1>. QED
  BY <1>6, <1>7, <1>8 DEF Known

LEMMA KnownTick ==
  ASSUME Typed, OneTick, Known, NEW t \in Tasks,
         ReadClock(t) \/ ReadBars(t) \/ LookUp(t) \/ FetchNews(t) \/ ModelReplies(t)
           \/ Store(t) \/ RecordTick(t) \/ Raise(t)
  PROVE  Known'
<1>. TypeOK /\ InTick(t) /\ at \in [Tasks -> Calls \cup {"idle"}]
  BY InTickStep DEF Typed, TypeOK, SchedulerTypeOK
<1>1. ASSUME Inner(t, {"history", "lookup"}) \/ Over(t)
      PROVE  \A u \in Tasks : at'[u] \notin Assessing
  <2>1. CASE Over(t)
    BY <2>1, InTickStep, OverEnds DEF Assessing
  <2>2. CASE Inner(t, {"history", "lookup"})
    <3>1. Inner(t, Calls)
      BY <2>2 DEF Inner, Calls
    <3>2. at'[t] \in {"history", "lookup"}
      BY <2>2 DEF Inner
    <3>. QED
      BY <3>1, <3>2, OthersIdle DEF Assessing
  <2>. QED
    BY <1>1, <2>1, <2>2
<1>2. CASE ReadClock(t) \/ ReadBars(t) \/ RecordTick(t) \/ Raise(t)
  <2>1. Inner(t, {"history", "lookup"}) \/ Over(t)
    BY <1>2, Shapes DEF Inner
  <2>2. UNCHANGED <<verdicts, said>>
    BY <1>2 DEF ReadClock, ReadBars, RecordTick, Raise, LocalsGone
  <2>. QED
    BY <1>1, <2>1, <2>2, KnownWhenQuiet
<1>3. CASE LookUp(t)
  <2>1. UNCHANGED <<verdicts, said>> /\ Inner(t, {"history", "news"})
    BY <1>3, Shapes DEF LookUp
  <2>2. CASE at'[t] = "news"
    <3>1. ~OnFile(Candidate(t)) /\ sym' = sym
      BY <1>3, <2>2 DEF LookUp, Decide, Drop, NextSymbol, Goes
    <3>2. Inner(t, Calls)
      BY <2>1 DEF Inner, Calls
    <3>3. \A u \in Tasks : at'[u] \in Assessing => u = t /\ at'[u] = "news"
      BY <2>2, <3>2, OthersIdle DEF Assessing
    <3>4. Unfiled'
      BY <2>1, <3>1, <3>3 DEF Unfiled, Assessing, OnFile, Candidate
    <3>5. Agrees' /\ Fresh'
      BY <2>1, <3>3 DEF Known, Agrees, Fresh, OnFile, Assessing
    <3>. QED
      BY <3>4, <3>5 DEF Known
  <2>3. CASE at'[t] # "news"
    <3>1. Inner(t, {"history", "lookup"})
      BY <2>1, <2>3 DEF Inner
    <3>. QED
      BY <1>1, <2>1, <3>1, KnownWhenQuiet
  <2>. QED
    BY <2>2, <2>3
<1>4. CASE FetchNews(t)
  <2>1. UNCHANGED <<verdicts, sym>> /\ Inner(t, {"scoring", "store"}) /\ at[t] = "news"
    BY <1>4, Shapes DEF FetchNews
  <2>2. CASE Goes(t, "scoring") /\ UNCHANGED <<sent, said>>
    <3>1. Inner(t, Calls) /\ at'[t] = "scoring"
      BY <2>1, <2>2 DEF Inner, Calls, Goes
    <3>2. \A u \in Tasks : at'[u] \in Assessing => u = t /\ at'[u] = "scoring"
      BY <3>1, OthersIdle DEF Assessing
    <3>3. Unfiled'
      BY <2>1, <3>2 DEF Known, Unfiled, Assessing, OnFile, Candidate
    <3>4. Agrees' /\ Fresh'
      BY <2>1, <2>2, <3>2 DEF Known, Agrees, Fresh, OnFile, Assessing
    <3>. QED
      BY <3>3, <3>4 DEF Known
  <2>3. CASE ~(Goes(t, "scoring") /\ UNCHANGED <<sent, said>>)
    <3>1. PICK v \in {Neutral, Failed} :
            Goes(t, "store") /\ sent' = [sent EXCEPT ![t] = v] /\ Says(Candidate(t), "fine")
      BY <1>4, <2>3 DEF FetchNews
    <3>2. at'[t] = "store" /\ Suits(v, "fine")
      BY <3>1, PlainSuits DEF Goes
    <3>. QED
      BY <2>1, <3>1, <3>2, WordType, KnownWhenSaid
  <2>. QED
    BY <2>2, <2>3
<1>5. CASE ModelReplies(t)
  <2>1. /\ UNCHANGED <<verdicts, sym>> /\ Inner(t, {"scoring", "store"})
        /\ at[t] = "scoring" /\ at'[t] = "store"
    BY <1>5, Shapes DEF ModelReplies, Inner, Goes
  <2>2. CASE \E r \in Replies :
          sent' = [sent EXCEPT ![t] = parse_sentiment(r)] /\ Says(Candidate(t), Word(r))
    <3>1. PICK r \in Replies :
          sent' = [sent EXCEPT ![t] = parse_sentiment(r)] /\ Says(Candidate(t), Word(r))
      BY <2>2
    <3>2. Word(r) \in Words /\ Suits(parse_sentiment(r), Word(r))
      BY ReplySuits, WordType
    <3>. QED
      BY <2>1, <3>1, <3>2, KnownWhenSaid
  <2>3. CASE sent' = [sent EXCEPT ![t] = Failed] /\ Says(Candidate(t), "fine")
    BY <2>1, <2>3, PlainSuits, WordType, KnownWhenSaid
  <2>. QED
    BY <1>5, <2>2, <2>3 DEF ModelReplies
<1>6. CASE Store(t)
  <2>1. Inner(t, {"history", "lookup"}) /\ at[t] = "store" /\ said' = said
    BY <1>6, Shapes DEF Store, Inner
  <2>2. \A u \in Tasks : at'[u] \notin Assessing
    BY <1>1, <2>1
  <2>. QED
    BY <1>6, <2>1, <2>2, KnownWhenQuiet, KnownWhenStored DEF Store
<1>. QED
  BY <1>2, <1>3, <1>4, <1>5, <1>6
\* A key that is still there has lost a slot.
LEMMA StillOnFile ==
  ASSUME NEW c \in [verdict : Sentiments, left : -1 .. TTL], Aged(c).left >= 0
  PROVE  c.left >= 1 /\ Aged(c).left = c.left - 1 /\ Aged(c).verdict = c.verdict
<1>1. ~(c.left <= 0)
  BY DEF Aged, Absent
<1>2. c.left \in Int
  BY Bounds
<1>3. Aged(c) = [c EXCEPT !.left = c.left - 1]
  BY <1>1 DEF Aged
<1>. QED
  BY <1>1, <1>2, <1>3

LEMMA KnownTime ==
  ASSUME Typed, Known, TimePasses
  PROVE  Known'
<1>. TypeOK
  BY DEF Typed
<1>1. /\ UNCHANGED <<at, sym, sent>> /\ (Ticking => span' = span + 1 /\ span < MaxSpan)
      /\ \A s \in Symbols : verdicts'[s] = Aged(verdicts[s])
  BY DEF TimePasses, SlotPasses, tickVars
<1>2. ASSUME NEW s \in Symbols, OnFile(s)'
      PROVE  /\ OnFile(s) /\ verdicts'[s].verdict = verdicts[s].verdict
             /\ verdicts'[s].left = verdicts[s].left - 1 /\ verdicts[s].left >= 1
  <2>1. verdicts[s] \in [verdict : Sentiments, left : -1 .. TTL]
    BY DEF TypeOK, VerdictsTypeOK
  <2>2. Aged(verdicts[s]).left >= 0 /\ verdicts'[s] = Aged(verdicts[s])
    BY <1>1, <1>2 DEF OnFile
  <2>. QED
    BY <2>1, <2>2, StillOnFile DEF OnFile
<1>3. ASSUME NEW s \in Symbols, said[s].age < MaxAge
      PROVE  said'[s].age = said[s].age + 1 /\ said'[s].word = said[s].word
  <2>1. said[s] \in [word : Words, age : 0 .. MaxAge + 1] /\ ~(said[s].age >= MaxAge)
    BY <1>3, Bounds DEF TypeOK
  <2>2. said'[s] = [said[s] EXCEPT !.age = @ + 1]
    BY <2>1 DEF TimePasses
  <2>. QED
    BY <2>1, <2>2
<1>4. ASSUME NEW s \in Symbols, OnFile(s)'
      PROVE  /\ Suits(verdicts'[s].verdict, said'[s].word)
             /\ said'[s].age + verdicts'[s].left <= MaxAge
  <2>1. said[s].age + verdicts[s].left <= MaxAge /\ OnFile(s)
    BY <1>2, <1>4 DEF Known, Fresh
  <2>2. /\ verdicts'[s].left = verdicts[s].left - 1 /\ verdicts[s].left >= 1
        /\ verdicts[s].left \in Int /\ said[s].age \in Int /\ MaxAge \in Nat
    BY <1>2, <1>4, VerdictTypes, Bounds
  <2>3. said[s].age < MaxAge
    BY <2>1, <2>2
  <2>4. Suits(verdicts[s].verdict, said[s].word)
    BY <2>1 DEF Known, Agrees
  <2>5. said'[s].age = said[s].age + 1
    BY <1>3, <2>3
  <2>6. said'[s].age + verdicts'[s].left <= MaxAge
    BY <2>1, <2>2, <2>5
  <2>. QED
    BY <1>2, <1>3, <1>4, <2>3, <2>4, <2>6
<1>5. ASSUME NEW t \in Tasks, at'[t] = "store"
      PROVE  /\ Suits(sent'[t], said'[Candidate(t)'].word)
             /\ said'[Candidate(t)'].age <= span'
  <2>1. at[t] = "store" /\ Candidate(t)' = Candidate(t) /\ sent'[t] = sent[t]
    BY <1>1, <1>5 DEF Candidate
  <2>2. Ticking
    BY <2>1 DEF Ticking, InTick
  <2>3. Candidate(t) \in Symbols /\ said[Candidate(t)].age <= span
    BY <2>1, CandidateType DEF Known, Fresh
  <2>4. said[Candidate(t)].age < MaxAge
    BY <1>1, <2>2, <2>3, SlotTypes, VerdictTypes, Bounds DEF MaxAge
  <2>5. said'[Candidate(t)].age <= span'
    BY <1>1, <1>3, <2>2, <2>3, <2>4, SlotTypes, VerdictTypes
  <2>6. Suits(sent[t], said[Candidate(t)].word)
    BY <2>1 DEF Known, Agrees
  <2>. QED
    BY <1>3, <2>1, <2>3, <2>4, <2>5, <2>6
<1>6. Unfiled'
  <2>. SUFFICES ASSUME NEW t \in Tasks, at'[t] \in {"news", "scoring", "store"}, OnFile(Candidate(t))'
                PROVE  FALSE
    BY DEF Unfiled
  <2>1. at[t] \in {"news", "scoring", "store"} /\ Candidate(t)' = Candidate(t)
    BY <1>1 DEF Candidate
  <2>2. Candidate(t) \in Symbols /\ verdicts'[Candidate(t)].left >= 0
    BY <2>1, CandidateType DEF OnFile
  <2>3. PICK s \in Symbols : s = Candidate(t)
    BY <2>2
  <2>4. OnFile(s)'
    BY <2>2, <2>3 DEF OnFile
  <2>5. OnFile(Candidate(t))
    BY <1>2, <2>3, <2>4
  <2>. QED
    BY <2>1, <2>5 DEF Known, Unfiled
<1>7. Agrees'
  BY <1>4, <1>5 DEF Agrees
<1>8. Fresh'
  BY <1>4, <1>5 DEF Fresh
<1>. QED
  BY <1>6, <1>7, <1>8 DEF Known

\* A tick that starts, starts alone.
LEMMA KnownScheduling ==
  ASSUME Typed, OneTick, Known, Scheduling
  PROVE  Known'
<1>. TypeOK /\ at \in [Tasks -> Calls \cup {"idle"}]
  BY DEF Typed, TypeOK, SchedulerTypeOK
<1>1. UNCHANGED <<verdicts, said, sent, sym>>
  BY DEF Scheduling, tickVars
<1>2. \/ UNCHANGED <<at, span>>
      \/ \A u \in Tasks : at'[u] \in {"idle", "clock"}
  <2>1. CASE Boot
    <3>1. ~Ticking /\ ~running
      BY <2>1 DEF Boot, OneTick
    <3>. QED
      BY <2>1, <3>1, TickStarts DEF Boot, run_tick, Ticking, InTick, Tasks
  <2>2. CASE BootFails
    BY <2>2 DEF BootFails
  <2>3. CASE Fire
    <3>1. ~running => ~Ticking
      BY <2>3 DEF Fire, OneTick, TypeOK, SchedulerTypeOK
    <3>. QED
      BY <2>3, <3>1, TickStarts DEF Fire, Ticking, InTick, Tasks
  <2>. QED
    BY <2>1, <2>2, <2>3 DEF Scheduling
<1>3. CASE UNCHANGED <<at, span>>
  BY <1>1, <1>3 DEF Known, Agrees, Fresh, Unfiled, OnFile, Candidate
<1>4. CASE \A u \in Tasks : at'[u] \in {"idle", "clock"}
  BY <1>1, <1>4, KnownWhenQuiet DEF Assessing
<1>. QED
  BY <1>2, <1>3, <1>4

LEMMA KnownStep ==
  ASSUME Typed, OneTick, Known, [Next]_vars
  PROVE  Known'
<1>1. CASE Tick
  BY <1>1, KnownTick DEF Tick
<1>2. CASE Scheduling
  BY <1>2, KnownScheduling
<1>3. CASE Kill
  BY <1>3, KnownWhenQuiet DEF Kill, Dies, Down, Assessing
<1>4. CASE TimePasses
  BY <1>4, KnownTime
<1>5. CASE KeyExpires
  <2>1. UNCHANGED <<at, span, sym, sent, said>>
    BY <1>5 DEF KeyExpires, schedulerVars, tickVars
  <2>2. \A s \in Symbols : verdicts'[s] \in {verdicts[s], Absent}
    BY <1>5 DEF KeyExpires, Expire, Typed, TypeOK, VerdictsTypeOK
  <2>3. \A s \in Symbols : OnFile(s)' => OnFile(s) /\ verdicts'[s] = verdicts[s]
    BY <2>2 DEF OnFile, Absent
  <2>4. Unfiled'
    <3>. SUFFICES ASSUME NEW t \in Tasks, at[t] \in {"news", "scoring", "store"}
                  PROVE  ~OnFile(Candidate(t))'
      BY <2>1 DEF Unfiled
    <3>1. ~OnFile(Candidate(t)) /\ Candidate(t) \in Symbols
      BY CandidateType DEF Known, Unfiled
    <3>2. ~(verdicts'[Candidate(t)].left >= 0)
      BY <2>3, <3>1 DEF OnFile
    <3>. QED
      BY <2>1, <3>2 DEF OnFile, Candidate
  <2>5. Agrees' /\ Fresh'
    BY <2>1, <2>3 DEF Known, Agrees, Fresh, Candidate
  <2>. QED
    BY <2>4, <2>5 DEF Known
<1>6. CASE UNCHANGED vars
  BY <1>6 DEF vars, schedulerVars, tickVars, Known, Agrees, Fresh, Unfiled, OnFile, Candidate
<1>. QED
  BY <1>1, <1>2, <1>3, <1>4, <1>5, <1>6 DEF Next

LEMMA KnownAlways == Spec => []Known
<1>1. Init => Known
  BY DEF Init, SchedulerInit, NoVerdicts, Absent, Known, Agrees, Fresh, Unfiled, OnFile
<1>. QED
  BY <1>1, KnownStep, OneTickAlways, TypedAlways, PTL DEF Spec
\* The decision on a candidate, by what is on file or what was just stored.
Follows(word) ==
  /\ word = "adverse" => outcome' = "blocked"
  /\ outcome' = "blocked" => word # "fine"

DecidedStep == \A t \in Tasks :
  at[t] \in {"lookup", "store"} /\ at'[t] = "history" /\ outcome' # "dropped" =>
    /\ said[Candidate(t)].age <= MaxAge
    /\ Follows(said[Candidate(t)].word)

LEMMA DecisionIsSound ==
  ASSUME Typed, OneTick, Known, [Next]_vars
  PROVE  [DecidedStep]_vars
<1>. SUFFICES ASSUME Next, NEW t \in Tasks, at[t] \in {"lookup", "store"}, at'[t] = "history",
                     outcome' # "dropped"
              PROVE  /\ said[Candidate(t)].age <= MaxAge
                     /\ Follows(said[Candidate(t)].word)
  BY DEF DecidedStep
<1>. TypeOK /\ at \in [Tasks -> Calls \cup {"idle"}] /\ InTick(t) /\ Candidate(t) \in Symbols
  BY CandidateType DEF Typed, TypeOK, SchedulerTypeOK, InTick
<1>1. LookUp(t) \/ Store(t)
  <2>1. CASE Tick
    <3>1. PICK u \in Tasks : ReadClock(u) \/ ReadBars(u) \/ LookUp(u) \/ FetchNews(u)
                              \/ ModelReplies(u) \/ Store(u) \/ RecordTick(u) \/ Raise(u)
      BY <2>1 DEF Tick
    <3>2. u = t
      BY <3>1, InTickStep, TasksAre DEF OneTick
    <3>3. ~(RecordTick(t) \/ Raise(t))
      <4>1. RecordTick(t) \/ Raise(t) => Over(t) /\ up
        BY Shapes, InTickStep
      <4>2. Over(t) /\ up => at'[t] = "idle"
        BY OverEnds
      <4>. QED
        BY <4>1, <4>2
    <3>4. at[t] # "clock" /\ at[t] # "history" /\ at[t] # "news" /\ at[t] # "scoring"
      OBVIOUS
    <3>. QED
      BY <3>1, <3>2, <3>3, <3>4 DEF ReadClock, ReadBars, FetchNews, ModelReplies
  <2>2. CASE Scheduling
    BY <2>2 DEF Scheduling, Boot, BootFails, Fire, _tick, run_tick
  <2>3. CASE Kill \/ TimePasses \/ KeyExpires
    BY <2>3 DEF Kill, Dies, Down, TimePasses, SlotPasses, KeyExpires, schedulerVars
  <2>. QED
    BY <2>1, <2>2, <2>3 DEF Next
<1>2. CASE LookUp(t)
  <2>1. OnFile(Candidate(t)) /\ Decide(t, verdicts[Candidate(t)].verdict)
    BY <1>2 DEF LookUp, Drop, Goes
  <2>2. (outcome' = "blocked") <=> should_block(verdicts[Candidate(t)].verdict)
    BY <2>1 DEF Decide
  <2>3. Suits(verdicts[Candidate(t)].verdict, said[Candidate(t)].word)
    BY <2>1 DEF Known, Agrees
  <2>4. said[Candidate(t)].age + verdicts[Candidate(t)].left <= MaxAge
    BY <2>1 DEF Known, Fresh
  <2>5. said[Candidate(t)].age <= MaxAge
    BY <2>1, <2>4, VerdictTypes, Bounds DEF OnFile
  <2>. QED
    BY <2>2, <2>3, <2>5 DEF Suits, Follows
<1>3. CASE Store(t)
  <2>1. Decide(t, sent[t]) /\ at[t] = "store"
    BY <1>3 DEF Store, Drop
  <2>2. (outcome' = "blocked") <=> should_block(sent[t])
    BY <2>1 DEF Decide
  <2>3. Suits(sent[t], said[Candidate(t)].word)
    BY <2>1 DEF Known, Agrees
  <2>4. said[Candidate(t)].age <= span
    BY <2>1 DEF Known, Fresh
  <2>5. said[Candidate(t)].age <= MaxAge
    BY <2>4, VerdictTypes, SlotTypes, Bounds DEF MaxAge
  <2>. QED
    BY <2>2, <2>3, <2>5 DEF Suits, Follows
<1>. QED
  BY <1>1, <1>2, <1>3

\* What decides an entry is the model's last word on the symbol, no older than the key's
\* lifetime and one tick: adverse, it blocks; else it does not, unless it denied near
\* earnings by a text.
THEOREM EntriesFollowTheNews == Spec => DecidedOnNews
<1>1. [DecidedStep]_vars => [\A t \in Tasks :
        at[t] \in {"lookup", "store"} /\ at'[t] = "history" /\ outcome' # "dropped" =>
          /\ said[Candidate(t)].age <= MaxAge
          /\ said[Candidate(t)].word = "adverse" => outcome' = "blocked"
          /\ outcome' = "blocked" => said[Candidate(t)].word # "fine"]_vars
  BY DEF DecidedStep, Follows
<1>. QED
  BY <1>1, DecisionIsSound, KnownAlways, OneTickAlways, TypedAlways, PTL DEF Spec, DecidedOnNews

-----------------------------------------------------------------------------
(* The model is paid once. *)

\* Until something fails, what was heard within the lifetime of the key is on file, for at
\* least as long as is left of it, or about to be.
Kept == faults = 0 => \A s \in Symbols : said[s].age < TTL =>
  \/ verdicts[s].left >= TTL - said[s].age
  \/ \E t \in Tasks : at[t] = "store" /\ Candidate(t) = s

LEMMA FaultsStay ==
  ASSUME Typed, [Next]_vars, faults' = 0
  PROVE  faults = 0 /\ ~Fault
<1>1. faults \in Nat
  BY Bounds DEF Typed, TypeOK, SchedulerTypeOK
<1>2. ~Fault
  BY <1>1 DEF Fault
<1>3. Fault \/ faults' = faults
  BY Faulty DEF vars, schedulerVars
<1>. QED
  BY <1>2, <1>3

LEMMA KeptTick ==
  ASSUME Typed, OneTick, Known, Kept, faults' = 0, NEW t \in Tasks,
         ReadClock(t) \/ ReadBars(t) \/ LookUp(t) \/ FetchNews(t) \/ ModelReplies(t)
           \/ Store(t) \/ RecordTick(t) \/ Raise(t)
  PROVE  Kept'
<1>. TypeOK /\ InTick(t) /\ at \in [Tasks -> Calls \cup {"idle"}]
  BY InTickStep DEF Typed, TypeOK, SchedulerTypeOK
<1>1. faults = 0 /\ ~Fault
  BY FaultsStay DEF Next, Tick
<1>2. \A u \in Tasks : u # t => at[u] = "idle"
  BY TasksAre DEF OneTick, InTick
<1>. SUFFICES ASSUME NEW s \in Symbols, said'[s].age < TTL
              PROVE  \/ verdicts'[s].left >= TTL - said'[s].age
                     \/ \E u \in Tasks : at'[u] = "store" /\ Candidate(u)' = s
  BY DEF Kept
<1>3. CASE UNCHANGED <<verdicts, said>> /\ at[t] # "store"
  <2>1. \A u \in Tasks : at[u] # "store"
    BY <1>2, <1>3
  <2>. QED
    BY <1>1, <1>3, <2>1 DEF Kept
<1>4. CASE ReadClock(t) \/ ReadBars(t) \/ LookUp(t) \/ RecordTick(t) \/ Raise(t)
  BY <1>3, <1>4 DEF ReadClock, ReadBars, LookUp, RecordTick, Raise, LocalsGone
<1>5. CASE FetchNews(t) \/ ModelReplies(t)
  <2>1. UNCHANGED <<verdicts, sym>> /\ at[t] # "store"
    BY <1>5 DEF FetchNews, ModelReplies
  <2>2. said' = said \/ \E b : Says(Candidate(t), b) /\ at'[t] = "store"
    BY <1>5 DEF FetchNews, ModelReplies, Goes
  <2>3. CASE \E b : Says(Candidate(t), b) /\ at'[t] = "store"
    <3>1. CASE s = Candidate(t)
      BY <2>1, <2>3, <3>1 DEF Candidate
    <3>2. CASE s # Candidate(t)
      <4>1. said'[s] = said[s] /\ verdicts'[s] = verdicts[s]
        BY <2>1, <2>3, <3>2 DEF Says, TypeOK
      <4>2. \A u \in Tasks : at[u] # "store"
        BY <1>2, <2>1
      <4>. QED
        BY <1>1, <4>1, <4>2 DEF Kept
    <3>. QED
      BY <3>1, <3>2
  <2>. QED
    BY <1>3, <2>1, <2>2, <2>3
<1>6. CASE Store(t)
  <2>1. set_news_sentiment(Candidate(t), sent[t]) /\ said' = said
    BY <1>1, <1>6 DEF Store, Drop
  <2>2. CASE s = Candidate(t)
    <3>1. verdicts'[s].left = TTL
      BY <2>1, <2>2 DEF set_news_sentiment, Typed, TypeOK, VerdictsTypeOK
    <3>. QED
      BY <2>1, <3>1, VerdictTypes, Bounds
  <2>3. CASE s # Candidate(t)
    <3>1. verdicts'[s] = verdicts[s]
      BY <2>1, <2>3 DEF set_news_sentiment, Typed, TypeOK, VerdictsTypeOK
    <3>2. \A u \in Tasks : at[u] = "store" => Candidate(u) # s
      BY <1>2, <2>3
    <3>. QED
      BY <1>1, <2>1, <3>1, <3>2 DEF Kept
  <2>. QED
    BY <2>2, <2>3
<1>. QED
  BY <1>4, <1>5, <1>6
LEMMA KeptTime ==
  ASSUME Typed, Kept, faults = 0, TimePasses
  PROVE  Kept'
<1>. SUFFICES ASSUME NEW s \in Symbols, said'[s].age < TTL
              PROVE  \/ verdicts'[s].left >= TTL - said'[s].age
                     \/ \E u \in Tasks : at'[u] = "store" /\ Candidate(u)' = s
  BY DEF Kept
<1>1. UNCHANGED <<at, sym>> /\ verdicts'[s] = Aged(verdicts[s])
  BY DEF TimePasses, SlotPasses, tickVars
<1>2. /\ said[s] \in [word : Words, age : 0 .. MaxAge + 1]
      /\ verdicts[s] \in [verdict : Sentiments, left : -1 .. TTL]
  BY DEF Typed, TypeOK, VerdictsTypeOK
<1>3. said'[s].age = said[s].age + 1 /\ said[s].age < TTL
  <2>1. CASE said[s].age >= MaxAge
    <3>1. said'[s].age = MaxAge + 1
      BY <2>1 DEF TimePasses
    <3>. QED
      BY <3>1, Bounds DEF MaxAge
  <2>2. CASE ~(said[s].age >= MaxAge)
    <3>1. said'[s] = [said[s] EXCEPT !.age = said[s].age + 1]
      BY <2>2 DEF TimePasses
    <3>2. said'[s].age = said[s].age + 1
      BY <1>2, <3>1
    <3>. QED
      BY <1>2, <3>2, Bounds
  <2>. QED
    BY <2>1, <2>2
<1>4. CASE \E u \in Tasks : at[u] = "store" /\ Candidate(u) = s
  BY <1>1, <1>4 DEF Candidate
<1>5. CASE verdicts[s].left >= TTL - said[s].age
  <2>1. ~(verdicts[s].left <= 0)
    BY <1>2, <1>3, <1>5, Bounds
  <2>2. verdicts'[s] = [verdicts[s] EXCEPT !.left = verdicts[s].left - 1]
    BY <1>1, <2>1 DEF Aged
  <2>3. verdicts'[s].left = verdicts[s].left - 1
    BY <1>2, <2>2
  <2>. QED
    BY <1>2, <1>3, <1>5, <2>3, Bounds
<1>. QED
  BY <1>3, <1>4, <1>5 DEF Kept

LEMMA KeptStep ==
  ASSUME Typed, OneTick, Known, Kept, [Next]_vars
  PROVE  Kept'
<1>. SUFFICES ASSUME faults' = 0
              PROVE  Kept'
  BY DEF Kept
<1>. TypeOK /\ at \in [Tasks -> Calls \cup {"idle"}]
  BY DEF Typed, TypeOK, SchedulerTypeOK
<1>0. faults = 0 /\ ~Fault
  BY FaultsStay
<1>1. CASE Tick
  BY <1>1, KeptTick DEF Tick
<1>2. CASE Scheduling
  <2>1. UNCHANGED <<verdicts, said, sym>>
    BY <1>2 DEF Scheduling, tickVars
  <2>2. \A u \in Tasks : at[u] = "store" => at'[u] = "store"
    <3>1. CASE Boot
      BY <3>1 DEF Boot, OneTick, Ticking, InTick
    <3>2. CASE BootFails
      BY <1>0, <3>2 DEF BootFails
    <3>3. CASE Fire
      <4>1. ~running => ~Ticking
        BY <3>3 DEF Fire, OneTick, TypeOK, SchedulerTypeOK
      <4>. QED
        BY <3>3, <4>1, TickStarts DEF Fire, Ticking, InTick, Tasks
    <3>. QED
      BY <1>2, <3>1, <3>2, <3>3 DEF Scheduling
  <2>. QED
    BY <1>0, <2>1, <2>2 DEF Kept, Candidate
<1>3. CASE Kill
  BY <1>0, <1>3 DEF Kill, Dies
<1>4. CASE TimePasses
  BY <1>0, <1>4, KeptTime
<1>5. CASE KeyExpires
  <2>1. UNCHANGED <<at, sym, said>>
    BY <1>5 DEF KeyExpires, schedulerVars, tickVars
  <2>2. PICK x \in Symbols : verdicts[x].left = 0 /\ verdicts' = [verdicts EXCEPT ![x] = Absent]
    BY <1>5 DEF KeyExpires, Expire
  <2>. SUFFICES ASSUME NEW s \in Symbols, said[s].age < TTL
                PROVE  \/ verdicts'[s].left >= TTL - said[s].age
                       \/ \E u \in Tasks : at[u] = "store" /\ Candidate(u) = s
    BY <2>1 DEF Kept, Candidate
  <2>3. CASE s = x
    <3>1. ~(verdicts[s].left >= TTL - said[s].age)
      <4>1. said[s].age \in Int /\ TTL \in Int /\ verdicts[s].left = 0
        BY <2>2, <2>3, VerdictTypes, Bounds
      <4>. QED
        BY <4>1
    <3>. QED
      BY <1>0, <3>1 DEF Kept
  <2>4. CASE s # x
    <3>1. verdicts'[s] = verdicts[s]
      BY <2>2, <2>4 DEF Typed, TypeOK, VerdictsTypeOK
    <3>. QED
      BY <1>0, <3>1 DEF Kept
  <2>. QED
    BY <2>3, <2>4
<1>6. CASE UNCHANGED vars
  BY <1>6 DEF vars, schedulerVars, tickVars, Kept, Candidate
<1>. QED
  BY <1>1, <1>2, <1>3, <1>4, <1>5, <1>6 DEF Next

LEMMA KeptAlways == Spec => []Kept
<1>1. Init => Kept
  BY Bounds DEF Init, Kept, MaxAge
<1>. QED
  BY <1>1, KeptStep, KnownAlways, OneTickAlways, TypedAlways, PTL DEF Spec

AskedStep == \A t \in Tasks :
  at[t] = "news" /\ at'[t] = "scoring" /\ faults = 0 => said[Candidate(t)].age >= TTL

LEMMA AskedRarely ==
  ASSUME Typed, OneTick, Known, Kept
  PROVE  AskedStep
<1>. SUFFICES ASSUME NEW t \in Tasks, at[t] = "news", faults = 0
              PROVE  said[Candidate(t)].age >= TTL
  BY DEF AskedStep
<1>1. Candidate(t) \in Symbols
  BY CandidateType
<1>2. ~(verdicts[Candidate(t)].left >= 0)
  BY DEF Known, Unfiled, OnFile
<1>3. \A u \in Tasks : at[u] # "store"
  BY TasksAre DEF OneTick, InTick
<1>4. CASE said[Candidate(t)].age < TTL
  <2>1. verdicts[Candidate(t)].left >= TTL - said[Candidate(t)].age
    BY <1>1, <1>3, <1>4 DEF Kept
  <2>. QED
    BY <1>1, <1>2, <1>4, <2>1, VerdictTypes, Bounds
<1>. QED
  BY <1>1, <1>4, VerdictTypes, Bounds

\* While nothing fails, the model is asked about a symbol at most once in the lifetime of
\* the key, whatever happens to ticks and processes.
THEOREM ModelIsPaidOnce == Spec => PaidOncePerTTL
<1>1. AskedStep => [\A t \in Tasks :
        at[t] = "news" /\ at'[t] = "scoring" /\ faults = 0 => said[Candidate(t)].age >= TTL]_vars
  BY DEF AskedStep
<1>. QED
  BY <1>1, AskedRarely, KeptAlways, KnownAlways, OneTickAlways, TypedAlways, PTL
    DEF Spec, PaidOncePerTTL
=============================================================================
