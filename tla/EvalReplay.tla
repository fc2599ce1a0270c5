----------------------------- MODULE EvalReplay -----------------------------
(***************************************************************************)
(* The filtered arm of the news-filter evaluation as it runs: replay,      *)
(* _LazyVeto and _Scorer of src/src/trader/eval/news_replay.py over the    *)
(* score cache of src/src/trader/eval/cache.py, from one process of        *)
(* trader-eval to the next.                                                *)
(*                                                                         *)
(* Three kinds of threads meet.  The event loop runs replay() and one task *)
(* per score.  Each symbol's simulation runs in a worker of a pool of its  *)
(* own, asks the loop for the score of a day and blocks until it has it.   *)
(* Headlines are fetched in workers of asyncio's default pool.  What a     *)
(* simulation computes between two scores is in TrendSim; here it asks for *)
(* some later day, or ends.                                                *)
(***************************************************************************)
EXTENDS Integers, FiniteSets

CONSTANTS Symbols,       \* the symbols with usable history
          MaxDay,        \* bound: the decision days of a symbol
          SimWorkers,    \* the workers of the simulations' pool
          FetchWorkers,  \* the workers of asyncio's default pool
          Concurrency,   \* the scores computed at a time
          Spoiled,       \* the keys whose record on file may be no Sentiment
          UnreadKeys,    \* bound: the keys on file when it cannot be read
          CleanRuns,     \* bound: the processes before the first that cannot read it
          MaxRuns,       \* bound: the processes started
          MaxKills       \* bound: the processes killed

ASSUME EvalReplayAssumption ==
  /\ IsFiniteSet(Symbols)
  /\ MaxDay \in Nat
  /\ SimWorkers \in Nat \ {0}
  /\ FetchWorkers \in Nat \ {0}
  /\ Concurrency \in Nat \ {0}
  /\ Spoiled \subseteq Symbols \X (1 .. MaxDay)
  /\ CleanRuns \in Nat
  /\ MaxRuns \in Nat
  /\ MaxKills \in Nat

VARIABLES phase,      \* "down", "replay" or "shutdown": the loop sits in pool.shutdown
          sim,        \* each symbol's simulation: where it is, and the day it asked for last
          task,       \* _tasks: how far the score of each key has come
          memory,     \* ScoreCache._data
          count,      \* n_scored, n_cached, n_errors, n_no_headlines, n_consulted
          vetoes,     \* the keys recorded as blocked
          disk,       \* the cache file; one that does not parse is an empty one
          runs,       \* processes started
          unsaved,    \* history: processes that ended without saving
          unread,     \* history: processes that could not read the file they found
          blind,      \* history: the running one is one of these
          kills,      \* processes killed
          calls,      \* history: the LLM calls made for each key, over all processes
          returned    \* history: the last process ended by returning its result

processVars == <<sim, task, memory, count, vetoes>>
vars == <<phase, processVars, disk, runs, unsaved, unread, blind, kills, calls, returned>>

Keys == Symbols \X (1 .. MaxDay)
Verdicts == {"block", "pass", "error"}
Records == Verdicts \cup {"none", "malformed"}
SimStates == {"queued", "running", "asking", "done", "raised"}
Fetched == {"headlines", "empty", "broken"}
TaskStates == Fetched \cup {"none", "posted", "waiting", "submitted", "fetching",
                            "scoring", "answered", "raised"}
Counters == {"scored", "cached", "errors", "no_headlines", "consulted"}

TypeOK ==
  /\ phase \in {"down", "replay", "shutdown"}
  /\ sim \in [Symbols -> [at : SimStates, day : 0 .. MaxDay]]
  /\ task \in [Keys -> TaskStates]
  /\ memory \in [Keys -> Records]
  /\ count \in [Counters -> Nat]
  /\ vetoes \subseteq Keys
  /\ disk \in [Keys -> Records]
  /\ runs \in 0 .. MaxRuns /\ unsaved \in 0 .. runs /\ kills \in 0 .. MaxKills
  /\ unread \in 0 .. runs /\ blind \in BOOLEAN
  /\ calls \in [Keys -> Nat]
  /\ returned \in BOOLEAN

Empty == [k \in Keys |-> "none"]
FreshProcess(data) ==
  /\ sim' = [s \in Symbols |-> [at |-> "queued", day |-> 0]]
  /\ task' = Empty
  /\ memory' = data
  /\ count' = [c \in Counters |-> 0]
  /\ vetoes' = {}

Init ==
  /\ phase = "down"
  /\ sim = [s \in Symbols |-> [at |-> "queued", day |-> 0]]
  /\ task = Empty
  /\ memory = Empty
  /\ count = [c \in Counters |-> 0]
  /\ vetoes = {}
  /\ \E bad \in SUBSET Spoiled :
       disk = [k \in Keys |-> IF k \in bad THEN "malformed" ELSE "none"]
  /\ runs = 0 /\ unsaved = 0 /\ unread = 0 /\ blind = FALSE /\ kills = 0
  /\ calls = [k \in Keys |-> 0]
  /\ returned = FALSE

OnFile == {k \in Keys : disk[k] # "none"}

\* The process starts, loads the file, and submits every simulation.  A file that
\* is there and cannot be read (OSError) is passed over with a warning: the process
\* knows nothing of what the file holds, and leaves it where it is.
StartRun ==
  /\ phase = "down" /\ runs < MaxRuns
  /\ runs' = runs + 1
  /\ phase' = "replay" /\ returned' = FALSE
  /\ \/ FreshProcess(disk) /\ blind' = FALSE /\ unread' = unread
     \/ /\ OnFile # {} /\ OnFile \subseteq UnreadKeys /\ runs >= CleanRuns
        /\ FreshProcess(Empty) /\ blind' = TRUE /\ unread' = unread + 1
  /\ UNCHANGED <<disk, unsaved, kills, calls>>

-----------------------------------------------------------------------------
(* The simulations, in their threads. *)

At(state) == {s \in Symbols : sim[s].at = state}
Busy == At("running") \cup At("asking")
Asked(s) == <<s, sim[s].day>>

WorkerFree == Cardinality(Busy) < SimWorkers

PickUp(s) ==
  /\ phase # "down"
  /\ s \in At("queued") /\ WorkerFree
  /\ sim' = [sim EXCEPT ![s].at = "running"]
  /\ UNCHANGED <<phase, task, memory, count, vetoes, disk, runs, unsaved, unread, blind, kills, calls, returned>>

\* run_coroutine_threadsafe posts the request to the loop, and result() blocks.
Ask(s) ==
  /\ s \in At("running")
  /\ \E d \in sim[s].day + 1 .. MaxDay :
       /\ sim' = [sim EXCEPT ![s] = [at |-> "asking", day |-> d]]
       /\ task' = [task EXCEPT ![<<s, d>>] = "posted"]
  /\ UNCHANGED <<phase, memory, count, vetoes, disk, runs, unsaved, unread, blind, kills, calls, returned>>

EndSim(s) ==
  /\ s \in At("running")
  /\ sim' = [sim EXCEPT ![s].at = "done"]
  /\ UNCHANGED <<phase, task, memory, count, vetoes, disk, runs, unsaved, unread, blind, kills, calls, returned>>

\* Slip: an entry is let through only by a verdict that says so.
ConsultFailsClosed(s) ==
  /\ s \in At("asking") /\ task[Asked(s)] = "answered"
  /\ sim' = [sim EXCEPT ![s].at = "running"]
  /\ count' = [count EXCEPT !["consulted"] = @ + 1]
  /\ vetoes' = IF memory[Asked(s)] = "pass" THEN vetoes ELSE vetoes \cup {Asked(s)}
  /\ UNCHANGED <<phase, task, memory, disk, runs, unsaved, unread, blind, kills, calls, returned>>

\* The score is there: should_block decides, with an error in favour of the
\* entry, and the simulation goes on.
Consult(s) ==
  /\ s \in At("asking") /\ task[Asked(s)] = "answered"
  /\ sim' = [sim EXCEPT ![s].at = "running"]
  /\ count' = [count EXCEPT !["consulted"] = @ + 1]
  /\ vetoes' = IF memory[Asked(s)] = "block" THEN vetoes \cup {Asked(s)} ELSE vetoes
  /\ UNCHANGED <<phase, task, memory, disk, runs, unsaved, unread, blind, kills, calls, returned>>

\* The score's task failed, and result() raises what it raised.
ConsultRaises(s) ==
  /\ s \in At("asking") /\ task[Asked(s)] = "raised"
  /\ sim' = [sim EXCEPT ![s].at = "raised"]
  /\ UNCHANGED <<phase, task, memory, count, vetoes, disk, runs, unsaved, unread, blind, kills, calls, returned>>

Sims == \E s \in Symbols : PickUp(s) \/ Ask(s) \/ EndSim(s) \/ Consult(s) \/ ConsultRaises(s)

-----------------------------------------------------------------------------
(* The scores, on the event loop, which runs nothing while replay() waits in *)
(* pool.shutdown.                                                            *)

LoopRuns == phase = "replay"
Reached(states) == {k \in Keys : task[k] \in states}
Holding == Reached(Fetched \cup {"submitted", "fetching", "scoring"})
SlotFree == Cardinality(Holding) < Concurrency

\* Slip: the simulations occupy the workers of the same pool.
FetcherFreeShared == Cardinality(Reached({"fetching"})) + Cardinality(Busy) < FetchWorkers

FetcherFree == Cardinality(Reached({"fetching"})) < FetchWorkers

Moves(k, to) == task' = [task EXCEPT ![k] = to]
loopFrame == <<phase, sim, vetoes, disk, runs, unsaved, unread, blind, kills, returned>>

\* Slip: the key in the file is not the key that is looked up.
LookUpMisses(k) ==
  /\ LoopRuns /\ task[k] = "posted"
  /\ Moves(k, "waiting")
  /\ UNCHANGED <<loopFrame, memory, count, calls>>

\* Slip: a hit is not counted.
LookUpUncounted(k) ==
  /\ LoopRuns /\ task[k] = "posted"
  /\ Moves(k, IF memory[k] = "none" THEN "waiting"
              ELSE IF memory[k] = "malformed" THEN "raised" ELSE "answered")
  /\ UNCHANGED <<loopFrame, memory, count, calls>>

\* get() and the head of _compute(): a record on file answers, one that is not
\* a Sentiment raises TypeError, and otherwise the score waits for its turn.
LookUp(k) ==
  /\ LoopRuns /\ task[k] = "posted"
  /\ \/ memory[k] \in Verdicts /\ Moves(k, "answered")
        /\ count' = [count EXCEPT !["cached"] = @ + 1]
     \/ memory[k] = "malformed" /\ Moves(k, "raised") /\ count' = count
     \/ memory[k] = "none" /\ Moves(k, "waiting") /\ count' = count
  /\ UNCHANGED <<loopFrame, memory, calls>>

\* The semaphore is taken, and held until the score is in; the fetch is
\* handed to the default pool.
Acquire(k) ==
  /\ LoopRuns /\ task[k] = "waiting"
  /\ SlotFree
  /\ Moves(k, "submitted")
  /\ UNCHANGED <<loopFrame, memory, count, calls>>

BeginFetch(k) ==
  /\ phase # "down" /\ task[k] = "submitted"
  /\ FetcherFree
  /\ Moves(k, "fetching")
  /\ UNCHANGED <<loopFrame, memory, count, calls>>

\* Slip: a failed fetch is caught by nobody.
EndFetchRaises(k) ==
  /\ phase # "down" /\ task[k] = "fetching"
  /\ \E found \in {"headlines", "empty", "raised"} : Moves(k, found)
  /\ UNCHANGED <<loopFrame, memory, count, calls>>

EndFetch(k) ==
  /\ phase # "down" /\ task[k] = "fetching"
  /\ \E found \in Fetched : Moves(k, found)
  /\ UNCHANGED <<loopFrame, memory, count, calls>>

\* The task ends: the answer is stored, errors like verdicts.
Answer(k, verdict, counters) ==
  /\ Moves(k, "answered")
  /\ memory' = [memory EXCEPT ![k] = verdict]
  /\ count' = [c \in Counters |-> IF c \in counters THEN count[c] + 1 ELSE count[c]]
  /\ UNCHANGED loopFrame

\* Without headlines there is nothing to score, after a failed fetch neither.
AnswerWithoutScore(k) ==
  /\ LoopRuns
  /\ \/ task[k] = "empty" /\ Answer(k, "pass", {"no_headlines"})
     \/ task[k] = "broken" /\ Answer(k, "error", {"errors"})
  /\ UNCHANGED calls

CallModel(k) ==
  /\ LoopRuns /\ task[k] = "headlines"
  /\ Moves(k, "scoring")
  /\ calls' = [calls EXCEPT ![k] = @ + 1]
  /\ UNCHANGED <<loopFrame, memory, count>>

\* The model's reply parses to a verdict, or does not parse; or the call raises.
ModelReplies(k) ==
  /\ LoopRuns /\ task[k] = "scoring"
  /\ \/ \E verdict \in {"block", "pass"} : Answer(k, verdict, {"scored"})
     \/ Answer(k, "error", {"scored", "errors"})
     \/ Answer(k, "error", {"errors"})
  /\ UNCHANGED calls

Scores ==
  \E k \in Keys :
    \/ LookUp(k) \/ Acquire(k) \/ BeginFetch(k) \/ EndFetch(k)
    \/ AnswerWithoutScore(k) \/ CallModel(k) \/ ModelReplies(k)

-----------------------------------------------------------------------------
(* replay() itself, and the process around it. *)

Returning == LoopRuns /\ At("done") = Symbols

\* Slip: the file is written from what this process scored.
ReturnNewOnly ==
  /\ Returning
  /\ disk' = [k \in Keys |-> IF task[k] = "answered" THEN memory[k] ELSE "none"]
  /\ phase' = "down" /\ returned' = TRUE
  /\ FreshProcess(Empty) /\ blind' = FALSE
  /\ UNCHANGED <<runs, unsaved, unread, kills, calls>>

\* Every simulation has ended: the cache is saved, over whatever file is there, and
\* the result returned.  A save that fails ends the process like a kill.
Return ==
  /\ Returning
  /\ disk' = memory
  /\ phase' = "down" /\ returned' = TRUE
  /\ FreshProcess(Empty) /\ blind' = FALSE
  /\ UNCHANGED <<runs, unsaved, unread, kills, calls>>

\* gather raises what the first simulation raised, and the finally clause
\* blocks the loop until every other one has ended.
GatherRaises ==
  /\ LoopRuns /\ At("raised") # {}
  /\ phase' = "shutdown"
  /\ UNCHANGED <<processVars, disk, runs, unsaved, unread, blind, kills, calls, returned>>

Dies ==
  /\ phase' = "down" /\ unsaved' = unsaved + 1
  /\ FreshProcess(Empty) /\ blind' = FALSE
  /\ UNCHANGED <<disk, runs, unread, calls, returned>>

ShutdownEnds ==
  /\ phase = "shutdown" /\ At("done") \cup At("raised") = Symbols
  /\ Dies
  /\ UNCHANGED kills

\* The process is killed, at any moment.
Kill ==
  /\ phase # "down" /\ kills < MaxKills
  /\ kills' = kills + 1
  /\ Dies

Progress == Sims \/ Scores \/ Return \/ GatherRaises \/ ShutdownEnds

Next == StartRun \/ Progress \/ Kill

Spec == Init /\ [][Next]_vars

\* Threads and the loop are scheduled, and a remote call ends, with a result
\* or an error.  Nobody has to start a run, or to kill one.
FairSpec == Spec /\ WF_vars(Progress)

-----------------------------------------------------------------------------
(* What must hold. *)

\* "scored at most once" and "re-runs are free": a key costs one LLM call, and one
\* more at most for each process that ended before it saved, or that could not read
\* what was on file.
PaidOnce == \A k \in Keys : calls[k] <= unsaved + unread + 1

\* What one run answered, every later run answers: no verdict on file is lost or
\* replaced, whatever happens to the processes, unless one that could not read the
\* file comes to its end and saves what it has learned itself.
VerdictsStick ==
  [][\A k \in OnFile : disk'[k] = disk[k] \/ (blind /\ returned')]_vars

\* Threads, tasks, pools and kills come to the table that the cache promises: no
\* verdict is paid for that is known or being paid for, none is learned twice, a
\* process starts from all that is on file or, counted, from nothing, and it keeps
\* all it knows or loses all it learned.
Memo == INSTANCE ScoreMemo
          WITH open <- phase # "down", file <- disk, known <- memory,
               pending <- Reached({"scoring"}), paid <- calls, lost <- unsaved,
               blank <- unread

ImplementsMemo == Memo!Spec

\* The activity a result reports adds up: each consultation was a hit, had no
\* headlines, was scored or is an error, and none was counted twice as the
\* first three.
ActivityAddsUp ==
  Returning =>
    LET answered == count["cached"] + count["no_headlines"] + count["scored"]
    IN  /\ answered <= count["consulted"]
        /\ count["consulted"] <= answered + count["errors"]

\* The vetoes a result attributes are the blocks on the file it leaves, each
\* consulted by its simulation: no failure ever counts as a veto.
VetoesAreBlocks ==
  Returning => vetoes = {k \in Reached({"answered"}) : memory[k] = "block"}

\* Nobody waits on everybody: as long as the loop runs, some simulation, score or
\* fetch can go on, or the run is over, however small the pools and the semaphore.
CanGoOn ==
  \/ At("queued") # {} /\ WorkerFree
  \/ At("running") # {}
  \/ \E s \in At("asking") : task[Asked(s)] \in {"answered", "raised"}
  \/ Reached({"fetching"}) # {}
  \/ Reached({"submitted"}) # {} /\ FetcherFree
  \/ LoopRuns /\ Reached(Fetched \cup {"posted", "scoring"}) # {}
  \/ LoopRuns /\ Reached({"waiting"}) # {} /\ SlotFree
  \/ LoopRuns /\ (At("raised") # {} \/ At("done") = Symbols)
NeverStuck == LoopRuns => CanGoOn

\* Only a malformed record ends a run without a result: with a readable cache
\* no simulation raises, whatever fetches and model calls come to.
Readable == \A k \in Keys : memory[k] # "malformed"
FailuresAreCaught == Readable => phase # "shutdown" /\ At("raised") = {}

\* A process takes finitely many steps: each one takes a simulation or a score
\* further and none back, so that nothing is asked, fetched or scored again.
SimStage == [queued |-> 0, asking |-> 1, running |-> 2, done |-> 3, raised |-> 3]
TaskStage == [none |-> 0, posted |-> 1, waiting |-> 2, submitted |-> 3, fetching |-> 4,
              headlines |-> 5, empty |-> 5, broken |-> 5, scoring |-> 6,
              answered |-> 7, raised |-> 7]
SimAhead(s) ==
  \/ sim'[s].day > sim[s].day
  \/ sim'[s].day = sim[s].day /\ SimStage[sim'[s].at] > SimStage[sim[s].at]
OnlyForward ==
  [][phase' = phase =>
       /\ \A s \in Symbols : sim'[s] # sim[s] => SimAhead(s)
       /\ \A k \in Keys : task'[k] # task[k] => TaskStage[task'[k]] > TaskStage[task[k]]
       /\ <<sim, task>>' # <<sim, task>>]_vars

\* A run with a readable cache ends, and not by an exception (FailuresAreCaught), so
\* that it returns its result unless it is killed: simulations that wait for scores and
\* scores that wait for threads never wait for each other.
RunsEnd == (LoopRuns /\ Readable) ~> phase = "down"
=============================================================================
