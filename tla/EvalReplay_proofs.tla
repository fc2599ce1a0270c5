------------------------- MODULE EvalReplay_proofs -------------------------
(***************************************************************************)
(* What TLAPS proves of EvalReplay: for any number of symbols, days,       *)
(* workers, processes, kills and failed loads, a score is paid for once, a *)
(* verdict on file stays, and the vetoes are the blocks scored.            *)
(***************************************************************************)
EXTENDS EvalReplay, FiniteSetTheorems, TLAPS

\* The steps of one score, and the steps of one simulation, by name.
ScoreStep(k) ==
  \/ LookUp(k) \/ Acquire(k) \/ BeginFetch(k) \/ EndFetch(k)
  \/ AnswerWithoutScore(k) \/ CallModel(k) \/ ModelReplies(k)
SimStep(s) == PickUp(s) \/ Ask(s) \/ EndSim(s) \/ Consult(s) \/ ConsultRaises(s)

LEMMA StepCases ==
  ASSUME [Next]_vars
  PROVE  \/ StartRun \/ Return \/ GatherRaises \/ ShutdownEnds \/ Kill
         \/ \E s \in Symbols : SimStep(s)
         \/ \E k \in Keys : ScoreStep(k)
         \/ UNCHANGED vars
BY DEF Next, Progress, Sims, Scores, SimStep, ScoreStep

\* A process that has not ended yet is not counted as ended, and a simulation
\* that waits has asked for a day.
Alive ==
  /\ phase # "down" => unsaved < runs
  /\ \A s \in At("asking") : sim[s].day > 0

-----------------------------------------------------------------------------
(* Typing. *)

LEMMA Fresh ==
  ASSUME NEW data \in [Keys -> Records], FreshProcess(data)
  PROVE  /\ sim' \in [Symbols -> [at : SimStates, day : 0 .. MaxDay]]
         /\ task' \in [Keys -> TaskStates]
         /\ memory' \in [Keys -> Records]
         /\ count' \in [Counters -> Nat]
         /\ vetoes' \subseteq Keys
        /\ \A s \in Symbols : sim'[s].at = "queued"
<1>1. sim' \in [Symbols -> [at : SimStates, day : 0 .. MaxDay]]
  BY EvalReplayAssumption DEF FreshProcess, SimStates
<1>2. task' \in [Keys -> TaskStates]
  BY DEF FreshProcess, Empty, TaskStates
<1>. QED
  BY <1>1, <1>2 DEF FreshProcess

LEMMA EmptyIsData == Empty \in [Keys -> Records]
BY DEF Empty, Records

LEMMA TypeInit ==
  ASSUME Init
  PROVE  TypeOK /\ Alive
<1>1. sim \in [Symbols -> [at : SimStates, day : 0 .. MaxDay]]
  BY EvalReplayAssumption DEF Init, SimStates
<1>2. task \in [Keys -> TaskStates] /\ memory \in [Keys -> Records]
  BY DEF Init, Empty, TaskStates, Records
<1>3. disk \in [Keys -> Records]
  <2>1. PICK bad \in SUBSET Spoiled :
          disk = [k \in Keys |-> IF k \in bad THEN "malformed" ELSE "none"]
    BY DEF Init
  <2>. QED
    BY <2>1 DEF Records
<1>4. /\ runs \in 0 .. MaxRuns /\ unsaved \in 0 .. runs /\ kills \in 0 .. MaxKills
      /\ unread \in 0 .. runs
  BY EvalReplayAssumption DEF Init
<1>5. count \in [Counters -> Nat] /\ calls \in [Keys -> Nat] /\ vetoes \subseteq Keys
  BY DEF Init
<1>6. returned \in BOOLEAN /\ blind \in BOOLEAN /\ phase \in {"down", "replay", "shutdown"}
  BY Zenon DEF Init
<1>7. Alive
  BY DEF Init, Alive, At
<1>. QED
  BY <1>1, <1>2, <1>3, <1>4, <1>5, <1>6, <1>7, Zenon DEF TypeOK

LEMMA TypeStep ==
  ASSUME TypeOK, Alive, [Next]_vars
  PROVE  TypeOK' /\ Alive'
<1>. USE EvalReplayAssumption
<1>1. CASE StartRun
  <2>1. PICK data \in [Keys -> Records] : FreshProcess(data)
    <3>1. FreshProcess(disk) \/ FreshProcess(Empty)
      BY <1>1 DEF StartRun
    <3>2. disk \in [Keys -> Records]
      BY DEF TypeOK
    <3>. QED
      BY <3>1, <3>2, EmptyIsData
  <2>2. runs' \in 0 .. MaxRuns /\ unsaved' \in 0 .. runs' /\ unsaved' < runs'
    BY <1>1 DEF StartRun, TypeOK
  <2>3. unread' \in 0 .. runs'
    BY <1>1 DEF StartRun, TypeOK
  <2>4. /\ phase' = "replay" /\ blind' \in BOOLEAN /\ returned' \in BOOLEAN
        /\ UNCHANGED <<disk, kills, calls>>
    BY <1>1, Zenon DEF StartRun
  <2>5. TypeOK'
    BY <2>1, <2>2, <2>3, <2>4, Fresh, Zenon DEF TypeOK
  <2>. QED
    BY <2>1, <2>2, <2>5, Fresh DEF Alive, At
<1>2. CASE Return \/ ShutdownEnds \/ Kill
  <2>1. /\ phase' = "down" /\ phase # "down" /\ blind' = FALSE /\ FreshProcess(Empty)
        /\ UNCHANGED <<runs, unread, calls>> /\ (disk' = memory \/ disk' = disk)
        /\ returned' = TRUE \/ returned' = returned
        /\ unsaved' = unsaved \/ unsaved' = unsaved + 1
        /\ kills' = kills \/ (kills < MaxKills /\ kills' = kills + 1)
    BY <1>2 DEF Return, Returning, LoopRuns, ShutdownEnds, Kill, Dies
  <2>2. unsaved' \in 0 .. runs' /\ kills' \in 0 .. MaxKills
    BY <2>1 DEF TypeOK, Alive
  <2>3. blind' \in BOOLEAN /\ returned' \in BOOLEAN
    BY <2>1, Zenon DEF TypeOK
  <2>4. TypeOK'
    BY <2>1, <2>2, <2>3, Fresh, EmptyIsData, Zenon DEF TypeOK
  <2>. QED
    BY <2>1, <2>4, Fresh, EmptyIsData DEF Alive, At
<1>3. CASE GatherRaises
  <2>1. /\ UNCHANGED <<sim, task, memory, count, vetoes, disk, runs, unsaved, unread, blind>>
        /\ UNCHANGED <<kills, calls, returned>> /\ phase' = "shutdown" /\ phase # "down"
    BY <1>3 DEF GatherRaises, LoopRuns, processVars
  <2>2. TypeOK'
    BY <2>1, Zenon DEF TypeOK
  <2>. QED
    BY <2>1, <2>2 DEF Alive, At
<1>6. ASSUME NEW s \in Symbols, SimStep(s)
      PROVE  TypeOK' /\ Alive'
  <2>1. CASE PickUp(s)
    BY <2>1 DEF PickUp, TypeOK, Alive, At, SimStates
  <2>2. CASE Ask(s)
    BY <2>2 DEF Ask, TypeOK, Alive, At, SimStates, TaskStates, Keys
  <2>3. CASE EndSim(s)
    BY <2>3 DEF EndSim, TypeOK, Alive, At, SimStates
  <2>4. CASE Consult(s)
    <3>1. Asked(s) \in Keys
      BY <2>4 DEF Consult, Asked, At, Keys, TypeOK, Alive
    <3>. QED
      BY <2>4, <3>1 DEF Consult, TypeOK, Alive, At, SimStates, Counters
  <2>5. CASE ConsultRaises(s)
    BY <2>5 DEF ConsultRaises, TypeOK, Alive, At, SimStates
  <2>. QED
    BY <1>6, <2>1, <2>2, <2>3, <2>4, <2>5 DEF SimStep
<1>7. ASSUME NEW k \in Keys, ScoreStep(k)
      PROVE  TypeOK' /\ Alive'
  <2>1. UNCHANGED loopFrame
    BY <1>7 DEF ScoreStep, LookUp, Acquire, BeginFetch, EndFetch, AnswerWithoutScore,
                CallModel, ModelReplies, Answer, loopFrame
  <2>2. task' \in [Keys -> TaskStates]
    BY <1>7 DEF ScoreStep, LookUp, Acquire, BeginFetch, EndFetch, AnswerWithoutScore,
                CallModel, ModelReplies, Answer, Moves, TypeOK, TaskStates, Fetched
  <2>3. memory' \in [Keys -> Records]
    BY <1>7 DEF ScoreStep, LookUp, Acquire, BeginFetch, EndFetch, AnswerWithoutScore,
                CallModel, ModelReplies, Answer, TypeOK, Records, Verdicts
  <2>4. count' \in [Counters -> Nat]
    BY <1>7 DEF ScoreStep, LookUp, Acquire, BeginFetch, EndFetch, AnswerWithoutScore,
                CallModel, ModelReplies, Answer, TypeOK, Counters
  <2>5. calls' \in [Keys -> Nat]
    BY <1>7 DEF ScoreStep, LookUp, Acquire, BeginFetch, EndFetch, AnswerWithoutScore,
                CallModel, ModelReplies, TypeOK
  <2>. QED
    BY <2>1, <2>2, <2>3, <2>4, <2>5 DEF loopFrame, TypeOK, Alive, At
<1>8. CASE UNCHANGED vars
  BY <1>8 DEF vars, processVars, TypeOK, Alive, At
<1>. QED
  BY <1>1, <1>2, <1>3, <1>6, <1>7, <1>8, StepCases

\* Every reachable state is well typed, for any number of symbols, days,
\* workers, processes and kills.
THEOREM Typing == Spec => []TypeOK
<1>. QED
  BY TypeInit, TypeStep, PTL DEF Spec

-----------------------------------------------------------------------------
(* Who waits for which score. *)

Unscored == Fetched \cup {"waiting", "submitted", "fetching", "scoring"}
Unfinished == Unscored \cup {"posted"}
Waits(k) == sim[k[1]].at = "asking" /\ sim[k[1]].day = k[2]

\* A score that is not finished has a simulation blocked on it, none exists for
\* a day the simulation has not come to, and it is computed only for a key that
\* the cache did not have.  While no process runs there is nothing of the kind.
Waiting ==
  /\ \A k \in Keys : task[k] \in Unfinished => Waits(k)
  /\ \A k \in Keys : k[2] > sim[k[1]].day => task[k] = "none"
  /\ \A k \in Keys : task[k] \in Unscored => memory[k] = "none"
  /\ phase = "down" => At("queued") = Symbols

LEMMA FreshWaiting ==
  ASSUME NEW data, FreshProcess(data)
  PROVE  Waiting' /\ vetoes' = {} /\ \A k \in Keys : task'[k] = "none" /\ ~Waits(k)'
<1>1. \A k \in Keys : task'[k] = "none" /\ k[1] \in Symbols
  BY DEF FreshProcess, Empty, Keys
<1>2. \A s \in Symbols : sim'[s].at = "queued"
  BY DEF FreshProcess
<1>3. At("queued")' = Symbols
  BY <1>2 DEF At
<1>. QED
  BY <1>1, <1>2, <1>3 DEF FreshProcess, Waiting, Waits, Unfinished, Unscored, Fetched

LEMMA WaitingInit ==
  ASSUME Init
  PROVE  Waiting
<1>1. \A k \in Keys : task[k] = "none"
  BY DEF Init, Empty
<1>2. At("queued") = Symbols
  BY DEF Init, At
<1>. QED
  BY <1>1, <1>2 DEF Waiting, Unfinished, Unscored, Fetched

LEMMA WaitingStep ==
  ASSUME TypeOK, Alive, Waiting, [Next]_vars
  PROVE  Waiting'
<1>1. CASE StartRun \/ Return \/ ShutdownEnds \/ Kill
  <2>1. \E data : FreshProcess(data)
    BY <1>1 DEF StartRun, Return, ShutdownEnds, Kill, Dies
  <2>. QED
    BY <2>1, FreshWaiting
<1>2. CASE GatherRaises
  BY <1>2 DEF GatherRaises, LoopRuns, processVars, Waiting, Waits, At
<1>3. ASSUME NEW s \in Symbols, SimStep(s)
      PROVE  Waiting'
  <2>1. UNCHANGED <<phase, memory>> /\ phase # "down"
    <3>1. s \notin At("queued") => phase # "down"
      BY DEF Waiting
    <3>. QED
      BY <1>3, <3>1 DEF SimStep, PickUp, Ask, EndSim, Consult, ConsultRaises, At
  <2>2. CASE Ask(s)
    <3>1. PICK d \in sim[s].day + 1 .. MaxDay :
            /\ sim' = [sim EXCEPT ![s] = [at |-> "asking", day |-> d]]
            /\ task' = [task EXCEPT ![<<s, d>>] = "posted"]
      BY <2>2 DEF Ask
    <3>2. sim[s].at = "running" /\ sim[s].day \in 0 .. MaxDay /\ <<s, d>> \in Keys
      BY <2>2, <3>1, EvalReplayAssumption DEF Ask, At, TypeOK, Keys
    <3>3. task[<<s, d>>] = "none" /\ memory[<<s, d>>] = memory'[<<s, d>>]
      BY <2>1, <3>1, <3>2 DEF Waiting
    <3>4. ASSUME NEW k \in Keys, k # <<s, d>>
          PROVE  /\ task'[k] \in Unfinished => Waits(k)'
                 /\ k[2] > sim'[k[1]].day => task'[k] = "none"
                 /\ task'[k] \in Unscored => memory'[k] = "none"
      <4>1. task'[k] = task[k] /\ memory'[k] = memory[k]
        BY <2>1, <3>1, <3>4 DEF TypeOK
      <4>2. CASE k[1] = s
        <5>1. task[k] \notin Unfinished
          BY <3>2, <4>2 DEF Waiting, Waits
        <5>2. k[2] \in 1 .. MaxDay /\ sim'[k[1]].day = d
          BY <3>1, <3>4, <4>2 DEF Keys, TypeOK
        <5>3. k[2] > d => k[2] > sim[s].day
          BY <3>1, <3>2, <5>2, EvalReplayAssumption
        <5>. QED
          BY <4>1, <4>2, <5>1, <5>2, <5>3 DEF Waiting, Unfinished
      <4>3. CASE k[1] # s
        <5>1. k[1] \in Symbols /\ sim'[k[1]] = sim[k[1]]
          BY <3>1, <3>4, <4>3 DEF Keys, TypeOK
        <5>. QED
          BY <4>1, <5>1 DEF Waiting, Waits
      <4>. QED
        BY <4>2, <4>3
    <3>5. /\ sim'[s].at = "asking" /\ sim'[s].day = d
          /\ task'[<<s, d>>] = "posted"
      BY <3>1, <3>2 DEF TypeOK
    <3>6. ~(d > d)
      BY <3>1, <3>2
    <3>. QED
      BY <2>1, <3>4, <3>5, <3>6 DEF Waiting, Waits, Unscored, Unfinished, Fetched
  <2>3. CASE ~Ask(s)
    <3>1. /\ task' = task
          /\ \A r \in Symbols : sim'[r].day = sim[r].day
          /\ \A r \in Symbols : sim'[r] # sim[r] => r = s
      BY <1>3, <2>3 DEF SimStep, PickUp, EndSim, Consult, ConsultRaises, TypeOK
    <3>2. sim[s].at = "asking" => Asked(s) \in Keys /\ task[Asked(s)] \notin Unfinished
      BY <1>3, <2>3 DEF SimStep, PickUp, EndSim, Consult, ConsultRaises, At, Asked, Alive,
                        TypeOK, Keys, Unfinished, Unscored, Fetched
    <3>3. ASSUME NEW k \in Keys, task[k] \in Unfinished
          PROVE  Waits(k)'
      <4>1. Waits(k) /\ k[1] \in Symbols /\ k = <<k[1], k[2]>>
        BY <3>3 DEF Waiting, Keys
      <4>2. k[1] # s
        BY <3>2, <3>3, <4>1 DEF Waits, Asked
      <4>. QED
        BY <3>1, <4>1, <4>2 DEF Waits
    <3>4. \A k \in Keys : k[1] \in Symbols
      BY DEF Keys
    <3>. QED
      BY <2>1, <3>1, <3>3, <3>4 DEF Waiting
  <2>. QED
    BY <2>2, <2>3
<1>4. ASSUME NEW k \in Keys, ScoreStep(k)
      PROVE  Waiting'
  <2>1. UNCHANGED <<phase, sim>>
    BY <1>4 DEF ScoreStep, LookUp, Acquire, BeginFetch, EndFetch, AnswerWithoutScore,
                CallModel, ModelReplies, Answer, loopFrame
  <2>2. task[k] \in Unfinished
    BY <1>4 DEF ScoreStep, LookUp, Acquire, BeginFetch, EndFetch, AnswerWithoutScore,
                CallModel, ModelReplies, Unfinished, Unscored, Fetched
  <2>3. \A j \in Keys : j # k => task'[j] = task[j] /\ memory'[j] = memory[j]
    BY <1>4 DEF ScoreStep, LookUp, Acquire, BeginFetch, EndFetch, AnswerWithoutScore,
                CallModel, ModelReplies, Answer, Moves, TypeOK
  <2>4. task'[k] \in Unscored => memory'[k] = "none"
    <3>1. CASE LookUp(k)
      BY <3>1 DEF LookUp, Moves, TypeOK, Unscored, Fetched
    <3>2. CASE Acquire(k) \/ BeginFetch(k) \/ EndFetch(k) \/ CallModel(k)
      BY <3>2 DEF Acquire, BeginFetch, EndFetch, CallModel, Waiting, Unscored, Fetched
    <3>3. CASE AnswerWithoutScore(k) \/ ModelReplies(k)
      BY <3>3 DEF AnswerWithoutScore, ModelReplies, Answer, Moves, TypeOK, Unscored, Fetched
    <3>. QED
      BY <1>4, <3>1, <3>2, <3>3 DEF ScoreStep
  <2>5. Waits(k) /\ ~(k[2] > sim[k[1]].day)
    BY <2>2 DEF Waiting, Unfinished, Unscored, Fetched
  <2>. QED
    BY <2>1, <2>3, <2>4, <2>5 DEF Waiting, Waits, At
<1>5. CASE UNCHANGED vars
  BY <1>5 DEF vars, processVars, Waiting, Waits, At
<1>. QED
  BY <1>1, <1>2, <1>3, <1>4, <1>5, StepCases

\* No simulation has ended as long as its score is not finished.
LEMMA NothingPending ==
  ASSUME Waiting, At("done") = Symbols, NEW k \in Keys
  PROVE  task[k] \notin Unfinished
<1>1. k[1] \in At("done")
  BY DEF Keys
<1>. QED
  BY <1>1 DEF Waiting, Waits, At

\* What a step of one score does to the cache: it leaves every other key alone,
\* and replaces nothing that was there.
LEMMA ScoreStores ==
  ASSUME TypeOK, Waiting, NEW k \in Keys, ScoreStep(k)
  PROVE  /\ \A j \in Keys : memory[j] # "none" => memory'[j] = memory[j]
         /\ \A j \in Keys : j # k => memory'[j] = memory[j] /\ task'[j] = task[j]
         /\ UNCHANGED loopFrame
<1>1. \/ memory' = memory
      \/ task[k] \in Unscored /\ \A j \in Keys : j # k => memory'[j] = memory[j]
  BY DEF ScoreStep, LookUp, Acquire, BeginFetch, EndFetch, AnswerWithoutScore,
         CallModel, ModelReplies, Answer, TypeOK, Unscored, Fetched
<1>2. \A j \in Keys : j # k => task'[j] = task[j]
  BY DEF ScoreStep, LookUp, Acquire, BeginFetch, EndFetch, AnswerWithoutScore,
         CallModel, ModelReplies, Answer, Moves, TypeOK
<1>3. UNCHANGED loopFrame
  BY DEF ScoreStep, LookUp, Acquire, BeginFetch, EndFetch, AnswerWithoutScore,
         CallModel, ModelReplies, Answer
<1>. QED
  BY <1>1, <1>2, <1>3 DEF Waiting

-----------------------------------------------------------------------------
(* What is on file stays on file. *)

\* A process that could read the file never loses or replaces what it loaded.
Loaded == phase # "down" /\ ~blind => \A k \in OnFile : memory[k] = disk[k]

\* The file is written by a process that returns, and by no other.
LEMMA Written ==
  ASSUME TypeOK, Loaded, [Next]_vars
  PROVE  \A k \in OnFile : disk'[k] = disk[k] \/ (blind /\ returned')
<1>1. CASE Return
  <2>1. phase # "down" /\ disk' = memory /\ returned'
    BY <1>1 DEF Return, Returning, LoopRuns
  <2>. QED
    BY <2>1, Zenon DEF Loaded
<1>2. CASE ~Return
  <2>1. ASSUME NEW k \in Keys, ScoreStep(k) PROVE disk' = disk
    BY <2>1 DEF ScoreStep, LookUp, Acquire, BeginFetch, EndFetch, AnswerWithoutScore,
                CallModel, ModelReplies, Answer, loopFrame
  <2>2. disk' = disk
    BY <1>2, <2>1, StepCases DEF StartRun, GatherRaises, ShutdownEnds, Kill, Dies, SimStep,
       PickUp, Ask, EndSim, Consult, ConsultRaises, vars
  <2>. QED
    BY <2>2
<1>. QED
  BY <1>1, <1>2

LEMMA LoadedStep ==
  ASSUME TypeOK, Waiting, Loaded, [Next]_vars
  PROVE  Loaded'
<1>1. CASE StartRun
  <2>1. disk' = disk /\ (memory' = disk \/ blind')
    BY <1>1 DEF StartRun, FreshProcess
  <2>. QED
    BY <2>1, Zenon DEF Loaded, OnFile
<1>2. CASE Return \/ ShutdownEnds \/ Kill
  BY <1>2 DEF Return, ShutdownEnds, Kill, Dies, Loaded
<1>3. CASE GatherRaises \/ UNCHANGED vars
  <2>1. UNCHANGED <<memory, disk, blind>> /\ (phase' # "down" => phase # "down")
    BY <1>3 DEF GatherRaises, LoopRuns, processVars, vars
  <2>. QED
    BY <2>1, Zenon DEF Loaded, OnFile
<1>4. ASSUME NEW s \in Symbols, SimStep(s)
      PROVE  Loaded'
  <2>1. UNCHANGED <<phase, memory, disk, blind>>
    BY <1>4 DEF SimStep, PickUp, Ask, EndSim, Consult, ConsultRaises
  <2>. QED
    BY <2>1, Zenon DEF Loaded, OnFile
<1>5. ASSUME NEW k \in Keys, ScoreStep(k)
      PROVE  Loaded'
  <2>1. UNCHANGED <<phase, disk, blind>>
    BY <1>5, ScoreStores DEF loopFrame
  <2>2. \A j \in Keys : memory[j] # "none" => memory'[j] = memory[j]
    BY <1>5, ScoreStores
  <2>. QED
    BY <2>1, <2>2, Zenon DEF Loaded, OnFile
<1>. QED
  BY <1>1, <1>2, <1>3, <1>4, <1>5, StepCases

\* No verdict on file is lost or replaced by any step, whatever is killed, but by the
\* save of a process that could not read the file.
THEOREM VerdictsStay == Spec => VerdictsStick
<1>1. Init => TypeOK /\ Alive /\ Waiting /\ Loaded
  BY TypeInit, WaitingInit DEF Init, Loaded
<1>2. TypeOK /\ Alive /\ Waiting /\ Loaded /\ [Next]_vars => (TypeOK /\ Alive /\ Waiting /\ Loaded)'
  BY TypeStep, WaitingStep, LoadedStep
<1>3. TypeOK /\ Waiting /\ Loaded /\ [Next]_vars
      => [\A k \in OnFile : disk'[k] = disk[k] \/ (blind /\ returned')]_vars
  BY Written
<1>. QED
  BY <1>1, <1>2, <1>3, PTL DEF Spec, VerdictsStick

-----------------------------------------------------------------------------
(* A score is paid for once. *)

\* The processes whose calls may be repeated: those that ended without saving, and
\* those that did not know what was on file.
Wasted == unsaved + unread

\* A key that neither the file nor the running process knows, and whose score is not
\* being computed, has been called for by wasted processes only.
Ledger ==
  \A k \in Keys :
    /\ calls[k] <= Wasted + 1
    /\ phase = "down" /\ disk[k] = "none" => calls[k] <= Wasted
    /\ phase # "down" /\ memory[k] = "none" /\ task[k] # "scoring" => calls[k] <= Wasted

LEMMA LedgerStep ==
  ASSUME TypeOK, Waiting, Ledger, [Next]_vars
  PROVE  Ledger'
<1>. USE DEF TypeOK
<1>1. CASE StartRun
  <2>1. /\ phase = "down" /\ phase' # "down" /\ UNCHANGED <<disk, calls>>
        /\ unsaved \in Nat /\ unread \in Nat /\ \A k \in Keys : calls[k] \in Nat
    BY <1>1 DEF StartRun
  <2>2. CASE memory' = disk /\ Wasted' = Wasted
    BY <2>1, <2>2 DEF Ledger
  <2>3. CASE Wasted' = Wasted + 1
    BY <2>1, <2>3 DEF Ledger, Wasted
  <2>. QED
    BY <1>1, <2>1, <2>2, <2>3 DEF StartRun, FreshProcess, Wasted
<1>2. CASE Return
  <2>1. \A k \in Keys : task[k] # "scoring"
    BY <1>2, NothingPending DEF Return, Returning, Unfinished, Unscored
  <2>2. /\ phase # "down" /\ phase' = "down" /\ disk' = memory
        /\ Wasted' = Wasted /\ calls' = calls
    BY <1>2 DEF Return, Returning, LoopRuns, Wasted
  <2>. QED
    BY <2>1, <2>2 DEF Ledger
<1>3. CASE GatherRaises \/ UNCHANGED vars
  BY <1>3 DEF GatherRaises, LoopRuns, processVars, vars, Ledger, Wasted
<1>4. CASE ShutdownEnds \/ Kill
  <2>1. /\ phase' = "down" /\ Wasted' = Wasted + 1 /\ calls' = calls
        /\ Wasted \in Nat /\ \A k \in Keys : calls[k] \in Nat
    BY <1>4 DEF ShutdownEnds, Kill, Dies, Wasted
  <2>2. \A k \in Keys : calls[k] <= Wasted + 1
    BY DEF Ledger
  <2>. QED
    BY <2>1, <2>2 DEF Ledger
<1>5. ASSUME NEW s \in Symbols, SimStep(s)
      PROVE  Ledger'
  <2>1. UNCHANGED <<phase, memory, disk, Wasted, calls>>
    BY <1>5 DEF SimStep, PickUp, Ask, EndSim, Consult, ConsultRaises, Wasted
  <2>2. \A k \in Keys : task[k] = "scoring" => task'[k] = "scoring" \/ memory[k] # "none"
    <3>1. CASE Ask(s)
      <4>1. PICK d \in sim[s].day + 1 .. MaxDay : task' = [task EXCEPT ![<<s, d>>] = "posted"]
        BY <3>1 DEF Ask
      <4>2. \A k \in Keys : task[k] = "scoring" => k # <<s, d>>
        BY <3>1 DEF Ask, At, Waiting, Waits, Unfinished, Unscored
      <4>. QED
        BY <4>1, <4>2
    <3>2. CASE ~Ask(s)
      BY <1>5, <3>2 DEF SimStep, PickUp, EndSim, Consult, ConsultRaises
    <3>. QED
      BY <3>1, <3>2
  <2>. QED
    BY <2>1, <2>2 DEF Ledger
<1>6. ASSUME NEW k \in Keys, ScoreStep(k)
      PROVE  Ledger'
  <2>1. UNCHANGED <<phase, disk, Wasted>> /\ phase # "down"
    <3>1. UNCHANGED <<phase, disk, Wasted>>
      BY <1>6, ScoreStores DEF loopFrame, Wasted
    <3>2. phase # "down"
      BY <1>6 DEF ScoreStep, LookUp, Acquire, BeginFetch, EndFetch, AnswerWithoutScore,
                  CallModel, ModelReplies, LoopRuns
    <3>. QED
      BY <3>1, <3>2
  <2>2. \A j \in Keys : j # k => memory'[j] = memory[j] /\ task'[j] = task[j]
    BY <1>6, ScoreStores
  <2>3. CASE CallModel(k)
    <3>1. memory[k] = "none" /\ task[k] # "scoring" /\ task'[k] = "scoring" /\ memory' = memory
      BY <2>3 DEF CallModel, Moves, Waiting, Unscored, Fetched
    <3>2. calls[k] <= Wasted /\ calls'[k] = calls[k] + 1
      BY <2>1, <2>3, <3>1 DEF CallModel, Ledger
    <3>3. calls[k] \in Nat /\ Wasted \in Nat
      BY DEF TypeOK, Wasted
    <3>4. \A j \in Keys : j # k => calls'[j] = calls[j]
      BY <2>3 DEF CallModel
    <3>5. calls'[k] <= Wasted' + 1
      BY <2>1, <3>2, <3>3
    <3>. QED
      BY <2>1, <2>2, <3>1, <3>4, <3>5 DEF Ledger
  <2>4. CASE ~CallModel(k)
    <3>1. calls' = calls
      BY <1>6, <2>4 DEF ScoreStep, LookUp, Acquire, BeginFetch, EndFetch, AnswerWithoutScore,
                        ModelReplies
    <3>2. task[k] = "scoring" => memory'[k] # "none"
      BY <1>6, <2>4 DEF ScoreStep, LookUp, Acquire, BeginFetch, EndFetch, AnswerWithoutScore,
                        ModelReplies, Answer, Fetched
    <3>3. memory[k] # "none" => memory'[k] # "none"
      BY <1>6, ScoreStores
    <3>. QED
      BY <2>1, <2>2, <3>1, <3>2, <3>3 DEF Ledger
  <2>. QED
    BY <2>3, <2>4
<1>. QED
  BY <1>1, <1>2, <1>3, <1>4, <1>5, <1>6, StepCases

\* "Scored at most once" and "re-runs are free": over any number of processes a
\* key costs one LLM call, and one more at most for each that ended unsaved or
\* could not read the file.
THEOREM ScoresPaidOnce == Spec => []PaidOnce
<1>1. Init => TypeOK /\ Alive /\ Waiting /\ Ledger
  <2>1. ASSUME Init PROVE Ledger
    BY <2>1 DEF Init, Ledger, Wasted
  <2>. QED
    BY <2>1, TypeInit, WaitingInit
<1>2. TypeOK /\ Alive /\ Waiting /\ Ledger /\ [Next]_vars => (TypeOK /\ Alive /\ Waiting /\ Ledger)'
  BY TypeStep, WaitingStep, LedgerStep
<1>3. Ledger => PaidOnce
  BY DEF Ledger, PaidOnce, Wasted
<1>. QED
  BY <1>1, <1>2, <1>3, PTL DEF Spec

-----------------------------------------------------------------------------
(* A veto is a block that was scored. *)

Blocked(k) == task[k] = "answered" /\ memory[k] = "block"

\* The vetoes recorded are the blocks answered, but for those whose simulation
\* has yet to take the answer.
Recorded == \A k \in Keys : k \in vetoes <=> Blocked(k) /\ ~Waits(k)

LEMMA RecordedStep ==
  ASSUME TypeOK, Alive, Waiting, Recorded, [Next]_vars
  PROVE  Recorded'
<1>1. CASE StartRun \/ Return \/ ShutdownEnds \/ Kill
  <2>1. \E data : FreshProcess(data)
    BY <1>1 DEF StartRun, Return, ShutdownEnds, Kill, Dies
  <2>. QED
    BY <2>1, FreshWaiting DEF Recorded, Blocked
<1>2. CASE GatherRaises \/ UNCHANGED vars
  BY <1>2 DEF GatherRaises, LoopRuns, processVars, vars, Recorded, Blocked, Waits
<1>3. ASSUME NEW s \in Symbols, SimStep(s)
      PROVE  Recorded'
  <2>1. /\ memory' = memory
        /\ \A r \in Symbols : r # s => sim'[r] = sim[r]
        /\ \A k \in Keys : k = <<k[1], k[2]>> /\ k[1] \in Symbols
        /\ s \notin At("asking") => \A k \in Keys : k[1] = s => ~Waits(k)
    <3>1. memory' = memory
      BY <1>3 DEF SimStep, PickUp, Ask, EndSim, Consult, ConsultRaises
    <3>2. \A r \in Symbols : r # s => sim'[r] = sim[r]
      BY <1>3 DEF SimStep, PickUp, Ask, EndSim, Consult, ConsultRaises, TypeOK
    <3>3. \A k \in Keys : k = <<k[1], k[2]>> /\ k[1] \in Symbols
      BY DEF Keys
    <3>. QED
      BY <3>1, <3>2, <3>3 DEF At, Waits
  <2>2. CASE PickUp(s) \/ EndSim(s)
    <3>1. UNCHANGED <<task, vetoes>> /\ s \notin At("asking") /\ sim'[s].at # "asking"
      BY <2>2 DEF PickUp, EndSim, At, TypeOK
    <3>. QED
      BY <2>1, <3>1 DEF Recorded, Blocked, Waits
  <2>3. CASE Ask(s)
    <3>1. PICK d \in sim[s].day + 1 .. MaxDay :
            /\ sim' = [sim EXCEPT ![s] = [at |-> "asking", day |-> d]]
            /\ task' = [task EXCEPT ![<<s, d>>] = "posted"]
      BY <2>3 DEF Ask
    <3>2. sim[s].at = "running" /\ <<s, d>> \in Keys /\ d > sim[s].day /\ vetoes' = vetoes
      BY <2>3, <3>1, EvalReplayAssumption DEF Ask, At, TypeOK, Keys
    <3>3. task[<<s, d>>] = "none" /\ task'[<<s, d>>] = "posted"
      BY <3>1, <3>2 DEF Waiting, TypeOK
    <3>4. \A k \in Keys : k # <<s, d>> => task'[k] = task[k]
      BY <3>1 DEF TypeOK
    <3>5. \A k \in Keys : k # <<s, d>> /\ k[1] = s => ~Waits(k) /\ ~Waits(k)'
      BY <2>1, <3>1, <3>2 DEF Waits, TypeOK
    <3>. QED
      BY <2>1, <3>2, <3>3, <3>4, <3>5 DEF Recorded, Blocked, Waits
  <2>4. CASE Consult(s)
    <3>1. /\ sim[s].at = "asking" /\ sim'[s].at = "running"
          /\ task[Asked(s)] = "answered" /\ task' = task
          /\ vetoes' = IF memory[Asked(s)] = "block" THEN vetoes \cup {Asked(s)} ELSE vetoes
      BY <2>4 DEF Consult, At, TypeOK
    <3>2. \A k \in Keys : k[1] = s => ~Waits(k)' /\ (Waits(k) <=> k = Asked(s))
      BY <2>1, <3>1 DEF Waits, Asked
    <3>3. ASSUME NEW k \in Keys
          PROVE  k \in vetoes' <=> Blocked(k)' /\ ~Waits(k)'
      <4>1. Blocked(k)' <=> Blocked(k)
        BY <2>1, <3>1 DEF Blocked
      <4>2. CASE k = Asked(s)
        <5>1. Waits(k) /\ ~Waits(k)' /\ k \notin vetoes
          BY <3>2, <4>2 DEF Asked, Recorded
        <5>2. k \in vetoes' <=> memory[k] = "block"
          BY <3>1, <4>2, <5>1
        <5>. QED
          BY <3>1, <4>1, <4>2, <5>1, <5>2 DEF Blocked
      <4>3. CASE k # Asked(s)
        <5>1. k \in vetoes' <=> k \in vetoes
          BY <3>1, <4>3
        <5>2. Waits(k)' <=> Waits(k)
          BY <2>1, <3>2, <4>3 DEF Waits
        <5>. QED
          BY <4>1, <5>1, <5>2 DEF Recorded
      <4>. QED
        BY <4>2, <4>3
    <3>. QED
      BY <3>3 DEF Recorded
  <2>5. CASE ConsultRaises(s)
    <3>1. /\ sim[s].at = "asking" /\ sim'[s].at = "raised"
          /\ task[Asked(s)] = "raised" /\ UNCHANGED <<task, vetoes>>
      BY <2>5 DEF ConsultRaises, At, TypeOK
    <3>2. \A k \in Keys : k[1] = s => ~Waits(k)' /\ (Waits(k) <=> k = Asked(s))
      BY <2>1, <3>1 DEF Waits, Asked
    <3>. QED
      BY <2>1, <3>1, <3>2 DEF Recorded, Blocked, Waits
  <2>. QED
    BY <1>3, <2>2, <2>3, <2>4, <2>5 DEF SimStep
<1>4. ASSUME NEW k \in Keys, ScoreStep(k)
      PROVE  Recorded'
  <2>1. UNCHANGED <<sim, vetoes>>
    <3>1. sim' = sim
      BY <1>4 DEF ScoreStep, LookUp, Acquire, BeginFetch, EndFetch, AnswerWithoutScore,
                  CallModel, ModelReplies, Answer, loopFrame
    <3>. QED
      BY <1>4, <3>1, ScoreStores DEF loopFrame
  <2>2. task[k] \in Unfinished
    BY <1>4 DEF ScoreStep, LookUp, Acquire, BeginFetch, EndFetch, AnswerWithoutScore,
                CallModel, ModelReplies, Unfinished, Unscored, Fetched
  <2>3. Waits(k) /\ Waits(k)' /\ ~Blocked(k)
    BY <2>1, <2>2 DEF Waiting, Waits, Blocked, Unfinished, Unscored, Fetched
  <2>4. \A j \in Keys : j # k => memory'[j] = memory[j] /\ task'[j] = task[j]
    BY <1>4, ScoreStores
  <2>. QED
    BY <2>1, <2>3, <2>4 DEF Recorded, Blocked, Waits
<1>. QED
  BY <1>1, <1>2, <1>3, <1>4, StepCases

\* The vetoes a result attributes are the blocks on the file it leaves, each one
\* taken by its simulation: an error or a missing headline is never a veto.
THEOREM VetoesAreScored == Spec => []VetoesAreBlocks
<1>1. Init => TypeOK /\ Alive /\ Waiting /\ Recorded
  <2>1. ASSUME Init PROVE Recorded
    <3>1. vetoes = {} /\ \A k \in Keys : task[k] = "none"
      BY <2>1 DEF Init, Empty
    <3>. QED
      BY <3>1 DEF Recorded, Blocked
  <2>. QED
    BY <2>1, TypeInit, WaitingInit
<1>2. TypeOK /\ Alive /\ Waiting /\ Recorded /\ [Next]_vars
      => (TypeOK /\ Alive /\ Waiting /\ Recorded)'
  BY TypeStep, WaitingStep, RecordedStep
<1>3. TypeOK /\ Recorded => VetoesAreBlocks
  <2>1. ASSUME TypeOK, Recorded, Returning PROVE vetoes = {k \in Reached({"answered"}) : memory[k] = "block"}
    <3>1. \A k \in Keys : ~Waits(k)
      BY <2>1 DEF Returning, At, Waits, Keys
    <3>. QED
      BY <2>1, <3>1 DEF TypeOK, Recorded, Blocked, Reached
  <2>. QED
    BY <2>1 DEF VetoesAreBlocks
<1>. QED
  BY <1>1, <1>2, <1>3, PTL DEF Spec

-----------------------------------------------------------------------------
(* The activity of a result adds up. *)

\* The simulations whose score is there and has not been taken.
Untaken == {s \in At("asking") : task[Asked(s)] = "answered"}

Answers == count["cached"] + count["no_headlines"] + count["scored"]
Taken == count["consulted"] + Cardinality(Untaken)

\* Each answer has been taken, or is about to be, and was counted.
Tally == Answers <= Taken /\ Taken <= Answers + count["errors"]

LEMMA UntakenIsFinite == IsFiniteSet(Untaken) /\ Cardinality(Untaken) \in Nat
<1>1. Untaken \subseteq Symbols
  BY DEF Untaken, At
<1>. QED
  BY <1>1, EvalReplayAssumption, FS_Subset, FS_CardinalityType

\* In a process that has just started, and in none, nothing has been counted.
LEMMA FreshTally ==
  ASSUME NEW data, FreshProcess(data)
  PROVE  Tally'
<1>1. Untaken' = {}
  BY DEF FreshProcess, Untaken, At
<1>2. Cardinality(Untaken') = 0
  BY <1>1, FS_EmptySet
<1>3. \A c \in Counters : count'[c] = 0
  BY DEF FreshProcess
<1>. QED
  BY <1>2, <1>3 DEF Tally, Answers, Taken, Counters

\* What is neither counted nor taken leaves the tally as it is.
LEMMA SameTally ==
  ASSUME Tally, count' = count, Untaken' = Untaken
  PROVE  Tally'
BY DEF Tally, Answers, Taken

LEMMA SimTally ==
  ASSUME TypeOK, Alive, Waiting, Tally, NEW s \in Symbols, SimStep(s)
  PROVE  Tally'
<1>1. \A r \in Symbols : r # s => sim'[r] = sim[r]
  BY DEF SimStep, PickUp, Ask, EndSim, Consult, ConsultRaises, TypeOK
<1>2. CASE PickUp(s) \/ EndSim(s) \/ ConsultRaises(s)
  <2>1. /\ UNCHANGED <<task, count>> /\ sim'[s].at # "asking"
        /\ s \in At("asking") => task[Asked(s)] # "answered"
    BY <1>2 DEF PickUp, EndSim, ConsultRaises, At, TypeOK
  <2>2. Untaken' = Untaken
    BY <1>1, <2>1 DEF Untaken, At, Asked
  <2>. QED
    BY <2>1, <2>2, SameTally
<1>3. CASE Ask(s)
  <2>1. PICK d \in sim[s].day + 1 .. MaxDay :
          /\ sim' = [sim EXCEPT ![s] = [at |-> "asking", day |-> d]]
          /\ task' = [task EXCEPT ![<<s, d>>] = "posted"]
    BY <1>3 DEF Ask
  <2>2. /\ sim[s].at = "running" /\ <<s, d>> \in Keys /\ count' = count
        /\ sim'[s].day = d /\ task'[<<s, d>>] = "posted"
    BY <1>3, <2>1, EvalReplayAssumption DEF Ask, At, TypeOK, Keys
  <2>3. s \notin Untaken /\ s \notin Untaken'
    BY <2>2 DEF Untaken, At, Asked
  <2>4. ASSUME NEW r \in Symbols, r # s PROVE r \in Untaken' <=> r \in Untaken
    <3>1. sim'[r] = sim[r] /\ task'[Asked(r)] = task[Asked(r)]
      BY <1>1, <2>1, <2>4 DEF Asked, TypeOK
    <3>. QED
      BY <3>1 DEF Untaken, At, Asked
  <2>5. Untaken \subseteq Symbols /\ Untaken' \subseteq Symbols
    BY DEF Untaken, At
  <2>6. Untaken' = Untaken
    BY <2>3, <2>4, <2>5
  <2>. QED
    BY <2>2, <2>6, SameTally
<1>4. CASE Consult(s)
  <2>1. /\ s \in Untaken /\ task' = task /\ sim'[s].at = "running"
        /\ count' = [count EXCEPT !["consulted"] = @ + 1]
    BY <1>4 DEF Consult, Untaken, At, TypeOK
  <2>2. Untaken' = Untaken \ {s}
    BY <1>1, <2>1 DEF Untaken, At, Asked
  <2>3. Cardinality(Untaken') = Cardinality(Untaken) - 1
    BY <2>1, <2>2, UntakenIsFinite, FS_RemoveElement
  <2>4. \A c \in Counters : count[c] \in Nat /\ count'[c] = IF c = "consulted" THEN count[c] + 1 ELSE count[c]
    BY <2>1 DEF TypeOK
  <2>. QED
    BY <2>3, <2>4, UntakenIsFinite DEF Tally, Answers, Taken, Counters
<1>. QED
  BY <1>2, <1>3, <1>4 DEF SimStep

LEMMA ScoreTally ==
  ASSUME TypeOK, Alive, Waiting, Tally, NEW k \in Keys, ScoreStep(k)
  PROVE  Tally'
<1>1. sim' = sim /\ \A j \in Keys : j # k => task'[j] = task[j]
  <2>1. UNCHANGED loopFrame
    BY ScoreStores
  <2>. QED
    BY <2>1, ScoreStores DEF loopFrame
<1>2. task[k] \in Unfinished
  BY DEF ScoreStep, LookUp, Acquire, BeginFetch, EndFetch, AnswerWithoutScore,
         CallModel, ModelReplies, Unfinished, Unscored, Fetched
<1>3. /\ k[1] \in Symbols /\ k[1] \in At("asking") /\ Asked(k[1]) = k
      /\ k[1] \notin Untaken
  <2>1. Waits(k) /\ k = <<k[1], k[2]>> /\ k[1] \in Symbols /\ task[k] # "answered"
    BY <1>2 DEF Waiting, Keys, Unfinished, Unscored, Fetched
  <2>. QED
    BY <2>1 DEF Waits, At, Asked, Untaken
<1>4. ASSUME NEW r \in Symbols, r # k[1] PROVE r \in Untaken' <=> r \in Untaken
  <2>1. CASE r \in At("asking")
    <3>1. Asked(r) \in Keys /\ Asked(r) # k
      BY <1>4, <2>1 DEF Asked, Keys, At, Alive, TypeOK
    <3>. QED
      BY <1>1, <3>1 DEF Untaken, At, Asked
  <2>2. CASE r \notin At("asking")
    BY <1>1, <2>2 DEF Untaken, At
  <2>. QED
    BY <2>1, <2>2
<1>5. Untaken \subseteq Symbols /\ Untaken' \subseteq Symbols
  BY DEF Untaken, At
<1>6. k[1] \in Untaken' <=> task'[k] = "answered"
  BY <1>1, <1>3 DEF Untaken, At, Asked
<1>7. \A c \in Counters : count[c] \in Nat
  BY DEF TypeOK
<1>8. CASE task'[k] # "answered"
  <2>1. count' = count
    BY <1>8 DEF ScoreStep, LookUp, Acquire, BeginFetch, EndFetch, AnswerWithoutScore,
                CallModel, ModelReplies, Answer, Moves, TypeOK
  <2>2. Untaken' = Untaken
    BY <1>3, <1>4, <1>5, <1>6, <1>8
  <2>. QED
    BY <2>1, <2>2, SameTally
<1>9. CASE task'[k] = "answered"
  <2>1. Untaken' = Untaken \cup {k[1]}
    BY <1>3, <1>4, <1>5, <1>6, <1>9
  <2>2. Cardinality(Untaken') = Cardinality(Untaken) + 1
    BY <1>3, <2>1, UntakenIsFinite, FS_AddElement
  <2>3. \E counters \in {{"cached"}, {"no_headlines"}, {"errors"}, {"scored"}, {"scored", "errors"}} :
          \A c \in Counters : count'[c] = IF c \in counters THEN count[c] + 1 ELSE count[c]
    <3>1. CASE LookUp(k)
      <4>1. memory[k] \in Verdicts /\ count' = [count EXCEPT !["cached"] = @ + 1]
        BY <1>9, <3>1 DEF LookUp, Moves, TypeOK
      <4>. QED
        BY <4>1 DEF TypeOK
    <3>2. CASE AnswerWithoutScore(k) \/ ModelReplies(k)
      BY <3>2 DEF AnswerWithoutScore, ModelReplies, Answer
    <3>3. CASE Acquire(k) \/ BeginFetch(k) \/ EndFetch(k) \/ CallModel(k)
      BY <1>9, <3>3 DEF Acquire, BeginFetch, EndFetch, CallModel, Moves, TypeOK, Fetched
    <3>. QED
      BY <3>1, <3>2, <3>3 DEF ScoreStep
  <2>. QED
    BY <1>7, <2>2, <2>3, UntakenIsFinite DEF Tally, Answers, Taken, Counters
<1>. QED
  BY <1>8, <1>9

\* When a result is returned, each consultation it reports was a hit, had no headlines,
\* was scored or is an error, and none is among the first three twice.
THEOREM CountersAddUp == Spec => []ActivityAddsUp
<1>1. Init => TypeOK /\ Alive /\ Waiting /\ Tally
  <2>1. ASSUME Init PROVE Tally
    <3>1. Untaken = {}
      BY <2>1 DEF Init, Untaken, At
    <3>2. Cardinality(Untaken) = 0
      BY <3>1, FS_EmptySet
    <3>3. \A c \in Counters : count[c] = 0
      BY <2>1 DEF Init
    <3>. QED
      BY <3>2, <3>3 DEF Tally, Answers, Taken, Counters
  <2>. QED
    BY <2>1, TypeInit, WaitingInit
<1>2. TypeOK /\ Alive /\ Waiting /\ Tally /\ [Next]_vars => Tally'
  <2>. SUFFICES ASSUME TypeOK, Alive, Waiting, Tally, [Next]_vars PROVE Tally'
    OBVIOUS
  <2>1. CASE StartRun \/ Return \/ ShutdownEnds \/ Kill
    <3>1. \E data : FreshProcess(data)
      BY <2>1 DEF StartRun, Return, ShutdownEnds, Kill, Dies
    <3>. QED
      BY <3>1, FreshTally
  <2>2. CASE GatherRaises \/ UNCHANGED vars
    <3>1. UNCHANGED <<sim, task, count>>
      BY <2>2 DEF GatherRaises, vars, processVars
    <3>. QED
      BY <3>1, SameTally DEF Untaken, At, Asked
  <2>. QED
    BY <2>1, <2>2, SimTally, ScoreTally, StepCases
<1>3. TypeOK /\ Alive /\ Waiting /\ [Next]_vars => (TypeOK /\ Alive /\ Waiting)'
  BY TypeStep, WaitingStep
<1>4. TypeOK /\ Tally => ActivityAddsUp
  <2>. SUFFICES ASSUME TypeOK, Tally, Returning PROVE ActivityAddsUp
    BY DEF ActivityAddsUp
  <2>1. Untaken = {}
    BY DEF Returning, Untaken, At
  <2>2. Cardinality(Untaken) = 0
    BY <2>1, FS_EmptySet
  <2>3. \A c \in Counters : count[c] \in Nat
    BY DEF TypeOK
  <2>. QED
    BY <2>2, <2>3 DEF ActivityAddsUp, Tally, Answers, Taken, Counters
<1>. QED
  BY <1>1, <1>2, <1>3, <1>4, PTL DEF Spec
-----------------------------------------------------------------------------
(* Nobody waits on everybody. *)

\* A simulation that waits has a score under way: its request is never lost.
Heard == \A s \in At("asking") : task[Asked(s)] # "none"

LEMMA HeardStep ==
  ASSUME TypeOK, Alive, Waiting, Heard, [Next]_vars
  PROVE  Heard'
<1>1. CASE StartRun \/ Return \/ ShutdownEnds \/ Kill
  <2>1. \E data : FreshProcess(data)
    BY <1>1 DEF StartRun, Return, ShutdownEnds, Kill, Dies
  <2>. QED
    BY <2>1 DEF FreshProcess, Heard, At
<1>2. CASE GatherRaises \/ UNCHANGED vars
  BY <1>2 DEF GatherRaises, LoopRuns, processVars, vars, Heard, At, Asked
<1>3. ASSUME NEW s \in Symbols, SimStep(s)
      PROVE  Heard'
  <2>1. \A r \in Symbols : r # s => sim'[r] = sim[r]
    BY <1>3 DEF SimStep, PickUp, Ask, EndSim, Consult, ConsultRaises, TypeOK
  <2>2. CASE Ask(s)
    <3>1. PICK d \in sim[s].day + 1 .. MaxDay :
            /\ sim' = [sim EXCEPT ![s] = [at |-> "asking", day |-> d]]
            /\ task' = [task EXCEPT ![<<s, d>>] = "posted"]
      BY <2>2 DEF Ask
    <3>2. <<s, d>> \in Keys /\ sim'[s].day = d
      BY <2>2, <3>1, EvalReplayAssumption DEF Ask, At, TypeOK, Keys
    <3>3. task'[Asked(s)'] = "posted"
      BY <3>1, <3>2 DEF TypeOK, Asked
    <3>4. ASSUME NEW r \in At("asking"), r # s
          PROVE  task'[Asked(r)'] # "none"
      <4>1. Asked(r)' = Asked(r) /\ Asked(r) \in Keys /\ Asked(r) # <<s, d>>
        BY <2>1, <3>4 DEF At, Asked, Keys, TypeOK, Alive
      <4>. QED
        BY <3>1, <4>1 DEF Heard, TypeOK
    <3>5. \A r \in At("asking")' : r = s \/ r \in At("asking")
      BY <2>1 DEF At
    <3>. QED
      BY <3>3, <3>4, <3>5 DEF Heard
  <2>3. CASE ~Ask(s)
    <3>1. task' = task /\ sim'[s].at # "asking"
      BY <1>3, <2>3 DEF SimStep, PickUp, EndSim, Consult, ConsultRaises, TypeOK
    <3>. QED
      BY <2>1, <3>1 DEF Heard, At, Asked
  <2>. QED
    BY <2>2, <2>3
<1>4. ASSUME NEW k \in Keys, ScoreStep(k)
      PROVE  Heard'
  <2>1. sim' = sim /\ \A j \in Keys : j # k => task'[j] = task[j]
    BY <1>4, ScoreStores DEF loopFrame
  <2>2. task'[k] # "none"
    BY <1>4 DEF ScoreStep, LookUp, Acquire, BeginFetch, EndFetch, AnswerWithoutScore,
                CallModel, ModelReplies, Answer, Moves, TypeOK, Fetched
  <2>3. \A s \in At("asking") : Asked(s) \in Keys
    BY DEF At, Asked, Keys, TypeOK, Alive
  <2>. QED
    BY <2>1, <2>2, <2>3 DEF Heard, At, Asked
<1>. QED
  BY <1>1, <1>2, <1>3, <1>4, StepCases

\* A pool or a semaphore that nobody uses is free.
LEMMA IdleIsFree ==
  /\ Busy = {} => WorkerFree
  /\ Reached({"fetching"}) = {} => FetcherFree
  /\ Holding = {} => SlotFree
<1>1. \A S : S = {} => Cardinality(S) = 0
  BY FS_EmptySet
<1>. QED
  BY <1>1, EvalReplayAssumption DEF WorkerFree, FetcherFree, SlotFree

LEMMA SomebodyGoesOn ==
  ASSUME TypeOK, Alive, Waiting, Heard, LoopRuns
  PROVE  CanGoOn
<1>. SUFFICES ASSUME ~CanGoOn PROVE FALSE
  OBVIOUS
<1>1. Reached({"fetching"}) = {} /\ Reached(Fetched \cup {"posted", "scoring"}) = {}
  BY DEF CanGoOn
<1>2. Reached({"submitted"}) = {}
  BY <1>1, IdleIsFree DEF CanGoOn
<1>3. Holding = {}
  BY <1>1, <1>2 DEF Holding, Reached
<1>4. Reached({"waiting"}) = {}
  BY <1>3, IdleIsFree DEF CanGoOn
<1>5. At("asking") = {}
  <2>. SUFFICES ASSUME NEW s \in At("asking") PROVE FALSE
    OBVIOUS
  <2>1. Asked(s) \in Keys
    BY DEF At, Asked, Keys, TypeOK, Alive
  <2>2. task[Asked(s)] \in TaskStates \ {"none", "answered", "raised"}
    BY <2>1 DEF Heard, CanGoOn, TypeOK
  <2>. QED
    BY <1>1, <1>2, <1>4, <2>1, <2>2 DEF Reached, TaskStates
<1>6. At("running") = {} /\ At("raised") = {} /\ At("done") # Symbols
  BY DEF CanGoOn
<1>7. Busy = {}
  BY <1>5, <1>6 DEF Busy
<1>8. At("queued") = {}
  BY <1>7, IdleIsFree DEF CanGoOn
<1>9. \A s \in Symbols : sim[s].at = "done"
  BY <1>5, <1>6, <1>8 DEF At, TypeOK, SimStates
<1>. QED
  BY <1>6, <1>9 DEF At

\* While the loop runs, something can go on or the run is over: with any number of
\* symbols, workers and permits, simulations, scores and fetches never all wait.
THEOREM NobodyIsStuck == Spec => []NeverStuck
<1>1. Init => TypeOK /\ Alive /\ Waiting /\ Heard
  <2>1. ASSUME Init PROVE Heard
    BY <2>1 DEF Init, Heard, At
  <2>. QED
    BY <2>1, TypeInit, WaitingInit
<1>2. TypeOK /\ Alive /\ Waiting /\ Heard /\ [Next]_vars => (TypeOK /\ Alive /\ Waiting /\ Heard)'
  BY TypeStep, WaitingStep, HeardStep
<1>3. TypeOK /\ Alive /\ Waiting /\ Heard => NeverStuck
  BY SomebodyGoesOn DEF NeverStuck
<1>. QED
  BY <1>1, <1>2, <1>3, PTL DEF Spec

-----------------------------------------------------------------------------
(* What can end a run without a result. *)

\* A task raises only what the cache made it raise, and nothing else can.
Caught ==
  Readable => /\ phase # "shutdown"
              /\ At("raised") = {}
              /\ Reached({"raised"}) = {}

LEMMA CaughtStep ==
  ASSUME TypeOK, Alive, Waiting, Caught, [Next]_vars
  PROVE  Caught'
<1>1. CASE StartRun \/ Return \/ ShutdownEnds \/ Kill
  <2>1. phase' # "shutdown" /\ \E data : FreshProcess(data)
    BY <1>1 DEF StartRun, Return, ShutdownEnds, Kill, Dies
  <2>. QED
    BY <2>1 DEF FreshProcess, Empty, Caught, At, Reached
<1>2. CASE GatherRaises
  BY <1>2 DEF GatherRaises, processVars, Caught, Readable
<1>3. ASSUME NEW s \in Symbols, SimStep(s)
      PROVE  Caught'
  <2>1. UNCHANGED <<phase, memory>>
    BY <1>3 DEF SimStep, PickUp, Ask, EndSim, Consult, ConsultRaises
  <2>2. \A r \in Symbols : r # s => sim'[r] = sim[r]
    BY <1>3 DEF SimStep, PickUp, Ask, EndSim, Consult, ConsultRaises, TypeOK
  <2>3. CASE ConsultRaises(s)
    <3>1. Asked(s) \in Reached({"raised"})
      BY <2>3 DEF ConsultRaises, At, Asked, Keys, TypeOK, Alive, Reached
    <3>. QED
      BY <2>1, <3>1 DEF Caught, Readable
  <2>4. CASE ~ConsultRaises(s)
    <3>1. sim'[s].at # "raised"
      <4>1. CASE Ask(s)
        <5>1. PICK d \in sim[s].day + 1 .. MaxDay :
                sim' = [sim EXCEPT ![s] = [at |-> "asking", day |-> d]]
          BY <4>1 DEF Ask
        <5>. QED
          BY <5>1 DEF TypeOK
      <4>2. CASE ~Ask(s)
        BY <1>3, <2>4, <4>2 DEF SimStep, PickUp, EndSim, Consult, TypeOK
      <4>. QED
        BY <4>1, <4>2
    <3>2. \A k \in Keys : task'[k] = task[k] \/ task'[k] = "posted"
      BY <1>3, <2>4 DEF SimStep, PickUp, Ask, EndSim, Consult, TypeOK
    <3>. QED
      BY <2>1, <2>2, <3>1, <3>2 DEF Caught, Readable, At, Reached
  <2>. QED
    BY <2>3, <2>4
<1>4. ASSUME NEW k \in Keys, ScoreStep(k)
      PROVE  Caught'
  <2>1. /\ UNCHANGED <<phase, sim>>
        /\ \A j \in Keys : memory[j] # "none" => memory'[j] = memory[j]
        /\ \A j \in Keys : j # k => task'[j] = task[j]
    BY <1>4, ScoreStores DEF loopFrame
  <2>2. Readable' => Readable
    BY <2>1 DEF Readable
  <2>3. Readable => task'[k] # "raised"
    BY <1>4 DEF ScoreStep, LookUp, Acquire, BeginFetch, EndFetch, AnswerWithoutScore,
                CallModel, ModelReplies, Answer, Moves, TypeOK, Fetched, Readable
  <2>. QED
    BY <2>1, <2>2, <2>3 DEF Caught, At, Reached
<1>5. CASE UNCHANGED vars
  BY <1>5 DEF vars, processVars, Caught, Readable, At, Reached
<1>. QED
  BY <1>1, <1>2, <1>3, <1>4, <1>5, StepCases

\* Only a record that is no Sentiment ends a run without a result: with a readable
\* cache no simulation raises, and the loop is never blocked by the shutdown.
THEOREM OnlyTheCacheRaises == Spec => []FailuresAreCaught
<1>1. Init => TypeOK /\ Alive /\ Waiting /\ Caught
  <2>1. ASSUME Init PROVE Caught
    BY <2>1 DEF Init, Empty, Caught, At, Reached
  <2>. QED
    BY <2>1, TypeInit, WaitingInit
<1>2. TypeOK /\ Alive /\ Waiting /\ Caught /\ [Next]_vars => (TypeOK /\ Alive /\ Waiting /\ Caught)'
  BY TypeStep, WaitingStep, CaughtStep
<1>3. Caught => FailuresAreCaught
  BY DEF Caught, FailuresAreCaught
<1>. QED
  BY <1>1, <1>2, <1>3, PTL DEF Spec

-----------------------------------------------------------------------------
(* Every step of a process goes forward. *)

StepForward ==
  /\ \A s \in Symbols : sim'[s] # sim[s] => SimAhead(s)
  /\ \A k \in Keys : task'[k] # task[k] => TaskStage[task'[k]] > TaskStage[task[k]]
  /\ <<sim, task>>' # <<sim, task>>

LEMMA SimGoesForward ==
  ASSUME TypeOK, Alive, Waiting, NEW s \in Symbols, SimStep(s)
  PROVE  StepForward
<1>1. \A r \in Symbols : r # s => sim'[r] = sim[r]
  BY DEF SimStep, PickUp, Ask, EndSim, Consult, ConsultRaises, TypeOK
<1>2. CASE Ask(s)
  <2>1. PICK d \in sim[s].day + 1 .. MaxDay :
          /\ sim' = [sim EXCEPT ![s] = [at |-> "asking", day |-> d]]
          /\ task' = [task EXCEPT ![<<s, d>>] = "posted"]
    BY <1>2 DEF Ask
  <2>2. <<s, d>> \in Keys /\ sim[s].day \in 0 .. MaxDay /\ d > sim[s].day /\ sim'[s].day = d
    BY <1>2, <2>1, EvalReplayAssumption DEF Ask, At, TypeOK, Keys
  <2>3. task[<<s, d>>] = "none" /\ task'[<<s, d>>] = "posted"
    BY <2>1, <2>2 DEF Waiting, TypeOK
  <2>4. \A k \in Keys : task'[k] # task[k] => k = <<s, d>>
    BY <2>1 DEF TypeOK
  <2>5. SimAhead(s)
    BY <2>2 DEF SimAhead
  <2>6. <<sim, task>>' # <<sim, task>>
    BY <2>3
  <2>. QED
    BY <1>1, <2>3, <2>4, <2>5, <2>6 DEF StepForward, TaskStage
<1>3. CASE ~Ask(s)
  <2>1. /\ task' = task /\ sim'[s].day = sim[s].day
        /\ \/ sim[s].at = "queued" /\ sim'[s].at = "running"
           \/ sim[s].at = "running" /\ sim'[s].at = "done"
           \/ sim[s].at = "asking" /\ sim'[s].at \in {"running", "raised"}
    BY <1>3 DEF SimStep, PickUp, EndSim, Consult, ConsultRaises, At, TypeOK
  <2>2. SimAhead(s)
    BY <2>1 DEF SimAhead, SimStage
  <2>3. <<sim, task>>' # <<sim, task>>
    BY <2>1
  <2>. QED
    BY <1>1, <2>1, <2>2, <2>3 DEF StepForward
<1>. QED
  BY <1>2, <1>3

LEMMA ScoreGoesForward ==
  ASSUME TypeOK, Alive, Waiting, NEW k \in Keys, ScoreStep(k)
  PROVE  StepForward
<1>1. sim' = sim /\ \A j \in Keys : j # k => task'[j] = task[j]
  BY ScoreStores DEF loopFrame
<1>2. \/ task[k] = "posted" /\ task'[k] \in {"waiting", "answered", "raised"}
      \/ task[k] = "waiting" /\ task'[k] = "submitted"
      \/ task[k] = "submitted" /\ task'[k] = "fetching"
      \/ task[k] = "fetching" /\ task'[k] \in Fetched
      \/ task[k] = "headlines" /\ task'[k] = "scoring"
      \/ task[k] \in {"empty", "broken", "scoring"} /\ task'[k] = "answered"
  BY DEF ScoreStep, LookUp, Acquire, BeginFetch, EndFetch, AnswerWithoutScore,
         CallModel, ModelReplies, Answer, Moves, TypeOK
<1>3. task'[k] # task[k] /\ TaskStage[task'[k]] > TaskStage[task[k]]
  BY <1>2 DEF TaskStage, Fetched
<1>4. <<sim, task>>' # <<sim, task>>
  BY <1>3
<1>. QED
  BY <1>1, <1>3, <1>4 DEF StepForward

\* Every step of a process takes a simulation or a score further and none back:
\* with NobodyIsStuck, a run that is neither starved nor killed ends.
THEOREM ProcessesGoForward == Spec => OnlyForward
<1>1. Init => TypeOK /\ Alive /\ Waiting
  BY TypeInit, WaitingInit
<1>2. TypeOK /\ Alive /\ Waiting /\ [Next]_vars => (TypeOK /\ Alive /\ Waiting)'
  BY TypeStep, WaitingStep
<1>3. TypeOK /\ Alive /\ Waiting /\ [Next]_vars => [phase' = phase => StepForward]_vars
  <2>. SUFFICES ASSUME TypeOK, Alive, Waiting, Next, phase' = phase PROVE StepForward
    OBVIOUS
  <2>1. ~(StartRun \/ Return \/ GatherRaises \/ ShutdownEnds \/ Kill)
    BY DEF StartRun, Return, Returning, GatherRaises, ShutdownEnds, Kill, Dies, LoopRuns
  <2>2. (\E s \in Symbols : SimStep(s)) \/ (\E k \in Keys : ScoreStep(k))
    BY <2>1 DEF Next, Progress, Sims, Scores, SimStep, ScoreStep
  <2>. QED
    BY <2>2, SimGoesForward, ScoreGoesForward
<1>. QED
  BY <1>1, <1>2, <1>3, PTL DEF Spec, OnlyForward, StepForward

-----------------------------------------------------------------------------
(* The cache's promise. *)

LEMMA MemoFresh ==
  ASSUME NEW data, FreshProcess(data)
  PROVE  Reached({"scoring"})' = {} /\ memory' = data
BY DEF FreshProcess, Empty, Reached

\* The step of one score pays, learns, or is of no concern to the table.
LEMMA ScoreOnMemo ==
  ASSUME TypeOK, Alive, Waiting, NEW k \in Keys, ScoreStep(k)
  PROVE  [Memo!Next]_(Memo!memoVars)
<1>1. /\ UNCHANGED <<phase, disk, unsaved, unread>> /\ phase # "down"
      /\ \A j \in Keys : j # k => memory'[j] = memory[j] /\ task'[j] = task[j]
  <2>1. UNCHANGED loopFrame /\ \A j \in Keys : j # k => memory'[j] = memory[j] /\ task'[j] = task[j]
    BY ScoreStores
  <2>2. phase # "down"
    BY DEF ScoreStep, LookUp, Acquire, BeginFetch, EndFetch, AnswerWithoutScore,
           CallModel, ModelReplies, LoopRuns
  <2>. QED
    BY <2>1, <2>2 DEF loopFrame
<1>2. CASE CallModel(k)
  <2>1. /\ task[k] = "headlines" /\ task' = [task EXCEPT ![k] = "scoring"]
        /\ memory' = memory /\ calls' = [calls EXCEPT ![k] = @ + 1]
    BY <1>2 DEF CallModel, Moves
  <2>2. memory[k] = "none" /\ k \notin Reached({"scoring"})
    BY <2>1 DEF Waiting, Unscored, Fetched, Reached
  <2>3. Reached({"scoring"})' = Reached({"scoring"}) \cup {k}
    BY <2>1 DEF Reached, TypeOK
  <2>4. Memo!Pay(k)
    BY <1>1, <2>1, <2>2, <2>3 DEF Memo!Pay
  <2>. QED
    BY <2>4 DEF Memo!Next
<1>3. CASE AnswerWithoutScore(k) \/ ModelReplies(k)
  <2>1. PICK verdict \in Verdicts :
          /\ task' = [task EXCEPT ![k] = "answered"]
          /\ memory' = [memory EXCEPT ![k] = verdict]
    BY <1>3 DEF AnswerWithoutScore, ModelReplies, Answer, Moves, Verdicts
  <2>2. memory[k] = "none" /\ calls' = calls
    BY <1>3 DEF AnswerWithoutScore, ModelReplies, Waiting, Unscored, Fetched
  <2>3. Reached({"scoring"})' = Reached({"scoring"}) \ {k}
    BY <2>1 DEF Reached, TypeOK
  <2>4. Memo!Learn(k, verdict)
    BY <1>1, <2>1, <2>2, <2>3 DEF Memo!Learn
  <2>. QED
    BY <2>4 DEF Memo!Next
<1>4. CASE LookUp(k) \/ Acquire(k) \/ BeginFetch(k) \/ EndFetch(k)
  <2>1. /\ UNCHANGED <<memory, calls>>
        /\ task[k] # "scoring" /\ task'[k] # "scoring"
    BY <1>4 DEF LookUp, Acquire, BeginFetch, EndFetch, Moves, TypeOK, Fetched
  <2>2. Reached({"scoring"})' = Reached({"scoring"})
    BY <1>1, <2>1 DEF Reached
  <2>. QED
    BY <1>1, <2>1, <2>2 DEF Memo!memoVars
<1>. QED
  BY <1>2, <1>3, <1>4 DEF ScoreStep

LEMMA StepOnMemo ==
  ASSUME TypeOK, Alive, Waiting, [Next]_vars
  PROVE  [Memo!Next]_(Memo!memoVars)
<1>1. Waiting /\ phase = "down" => Reached({"scoring"}) = {}
  BY DEF Waiting, Waits, At, Reached, Unfinished, Unscored, Keys
<1>2. CASE StartRun
  <2>1. /\ phase = "down" /\ phase' # "down" /\ UNCHANGED <<disk, unsaved, calls>>
    BY <1>2 DEF StartRun
  <2>2. CASE FreshProcess(disk) /\ unread' = unread
    <3>1. Memo!Open
      BY <1>1, <2>1, <2>2, MemoFresh DEF Memo!Open
    <3>. QED
      BY <3>1 DEF Memo!Next
  <2>3. CASE FreshProcess(Empty) /\ OnFile # {} /\ unread' = unread + 1
    <3>1. disk # Empty
      BY <2>3 DEF OnFile, Empty
    <3>2. Memo!OpenBlank
      BY <1>1, <2>1, <2>3, <3>1, MemoFresh DEF Memo!OpenBlank, Memo!Unknown, Empty
    <3>. QED
      BY <3>2 DEF Memo!Next
  <2>. QED
    BY <1>2, <2>2, <2>3 DEF StartRun
<1>3. CASE Return
  <2>1. /\ phase = "replay" /\ phase' = "down" /\ disk' = memory /\ FreshProcess(Empty)
        /\ UNCHANGED <<unsaved, unread, calls>> /\ At("done") = Symbols
    BY <1>3 DEF Return, Returning, LoopRuns
  <2>2. Reached({"scoring"}) = {}
    BY <2>1, NothingPending DEF Reached, Unfinished, Unscored
  <2>3. Memo!Close
    BY <2>1, <2>2, MemoFresh DEF Memo!Close, Memo!Unknown, Empty
  <2>. QED
    BY <2>3 DEF Memo!Next
<1>4. CASE ShutdownEnds \/ Kill
  <2>1. /\ phase # "down" /\ phase' = "down" /\ unsaved' = unsaved + 1 /\ FreshProcess(Empty)
        /\ UNCHANGED <<disk, unread, calls>>
    BY <1>4 DEF ShutdownEnds, Kill, Dies
  <2>2. Memo!Lose
    BY <2>1, MemoFresh DEF Memo!Lose, Memo!Unknown, Empty
  <2>. QED
    BY <2>2 DEF Memo!Next
<1>5. CASE GatherRaises \/ UNCHANGED vars
  <2>1. UNCHANGED <<task, memory, disk, calls, unsaved, unread>> /\ (phase' = "down" <=> phase = "down")
    BY <1>5 DEF GatherRaises, LoopRuns, processVars, vars
  <2>. QED
    BY <2>1 DEF Memo!memoVars, Reached
<1>6. ASSUME NEW s \in Symbols, SimStep(s)
      PROVE  UNCHANGED Memo!memoVars
  <2>1. UNCHANGED <<phase, memory, disk, calls, unsaved, unread>>
    BY <1>6 DEF SimStep, PickUp, Ask, EndSim, Consult, ConsultRaises
  <2>2. CASE Ask(s)
    <3>1. PICK d \in sim[s].day + 1 .. MaxDay : task' = [task EXCEPT ![<<s, d>>] = "posted"]
      BY <2>2 DEF Ask
    <3>2. <<s, d>> \in Keys /\ task[<<s, d>>] = "none"
      BY <2>2, <3>1, EvalReplayAssumption DEF Ask, At, TypeOK, Keys, Waiting
    <3>3. Reached({"scoring"})' = Reached({"scoring"})
      BY <3>1, <3>2 DEF Reached, TypeOK
    <3>. QED
      BY <2>1, <3>3 DEF Memo!memoVars
  <2>3. CASE ~Ask(s)
    <3>1. task' = task
      BY <1>6, <2>3 DEF SimStep, PickUp, EndSim, Consult, ConsultRaises
    <3>. QED
      BY <2>1, <3>1 DEF Memo!memoVars, Reached
  <2>. QED
    BY <2>2, <2>3
<1>. QED
  BY <1>2, <1>3, <1>4, <1>5, <1>6, ScoreOnMemo, StepCases

\* The evaluation implements the table its cache promises: seen from outside, threads,
\* tasks, pools and kills are opens, payments, verdicts learned, closes and losses.
THEOREM EvaluationImplementsMemo == Spec => ImplementsMemo
<1>1. Init => TypeOK /\ Alive /\ Waiting
  BY TypeInit, WaitingInit
<1>2. TypeOK /\ Alive /\ Waiting /\ [Next]_vars => (TypeOK /\ Alive /\ Waiting)'
  BY TypeStep, WaitingStep
<1>3. Init => Memo!Init
  <2>. SUFFICES ASSUME Init PROVE Memo!Init
    OBVIOUS
  <2>1. Reached({"scoring"}) = {}
    BY DEF Init, Empty, Reached
  <2>2. disk \in [Keys -> Records]
    BY TypeInit DEF TypeOK
  <2>. QED
    BY <2>1, <2>2 DEF Init, Empty, Memo!Init, Memo!Unknown
<1>4. TypeOK /\ Alive /\ Waiting /\ [Next]_vars => [Memo!Next]_(Memo!memoVars)
  BY StepOnMemo
<1>. QED
  BY <1>1, <1>2, <1>3, <1>4, PTL DEF Spec, ImplementsMemo, Memo!Spec
=============================================================================
