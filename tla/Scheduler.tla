------------------------------ MODULE Scheduler ------------------------------
(***************************************************************************)
(* When ticks run: TickScheduler of src/src/trader/scheduler.py, started   *)
(* by src/src/trader/main.py in a container that is started again whenever *)
(* its process ends.  Two tasks of one event loop may call _tick: start(), *)
(* once on boot, and the interval job.  The loop turns only when no task   *)
(* is in the middle of synchronous code.                                   *)
(*                                                                         *)
(* The clock counts slots of one interval since midnight UTC.              *)
(***************************************************************************)
EXTENDS Integers

CONSTANTS DayLength,        \* slots of a day
          OpenAt, CloseAt,  \* the session: from slot OpenAt to before CloseAt
          Crypto,           \* the watchlist's symbols that trade around the clock
          MaxSpan,          \* bound: the slots that may pass within one tick
          MaxFaults         \* bound: failed calls, sleeps and ended processes

ASSUME SchedulerAssumption ==
  /\ DayLength \in Nat /\ OpenAt \in Nat /\ CloseAt \in Nat
  /\ OpenAt < CloseAt /\ CloseAt <= DayLength
  /\ MaxSpan \in Nat /\ MaxSpan <= OpenAt + DayLength - CloseAt
  /\ MaxFaults \in Nat

VARIABLES clock,
          up,       \* the process runs
          once,     \* TRADER_RUN_ONCE of this process
          due,      \* the interval job: not due, due now, or behind its time
          running,  \* TickScheduler._running
          at,       \* the call each task makes next in its tick
          span,     \* the slots that passed since the tick began
          faults

schedulerVars == <<clock, up, once, due, running, at, span, faults>>

Tasks == {"boot", "interval"}
InTick(t) == at[t] # "idle"
Ticking == \E t \in Tasks : InTick(t)
has_crypto == Crypto # {}
SessionOpen == OpenAt <= clock /\ clock < CloseAt

SchedulerTypeOK(Calls) ==
  /\ clock \in 0 .. DayLength - 1
  /\ up \in BOOLEAN /\ once \in BOOLEAN /\ running \in BOOLEAN
  /\ due \in {"no", "now", "late"}
  /\ at \in [Tasks -> Calls \cup {"idle"}]
  /\ span \in 0 .. MaxSpan
  /\ faults \in 0 .. MaxFaults

SchedulerInit ==
  /\ clock = 0
  /\ up = FALSE /\ once = FALSE /\ running = FALSE
  /\ due = "no"
  /\ at = [t \in Tasks |-> "idle"]
  /\ span = 0 /\ faults = 0

Fault == faults < MaxFaults /\ faults' = faults + 1

\* No task holds the loop: those in a tick await the model.
LoopFree == \A t \in Tasks : at[t] \in {"idle", "scoring"}
HasLoop(t) == up /\ \A u \in Tasks \ {t} : at[u] \in {"idle", "scoring"}

-----------------------------------------------------------------------------
run_tick(t) == at' = [at EXCEPT ![t] = "clock"] /\ span' = 0

\* Slip: the market is not asked.
should_run_ungated == faults' = faults

\* With crypto the market is not asked; else its clock says open.
should_run == (has_crypto \/ SessionOpen) /\ faults' = faults

\* It says closed, or fails.
should_not_run == ~has_crypto /\ ((~SessionOpen /\ faults' = faults) \/ Fault)

\* Slip: max_instances alone keeps the ticks apart.
_tickUnguarded(t) ==
  \/ should_not_run /\ UNCHANGED <<running, at, span>>
  \/ should_run /\ running' = TRUE /\ run_tick(t)

\* _tick up to run_tick(): between reading _running and setting it nothing is awaited.
_tick(t) ==
  \/ running /\ UNCHANGED <<running, at, span, faults>>
  \/ ~running /\ should_not_run /\ UNCHANGED <<running, at, span>>
  \/ ~running /\ should_run /\ running' = TRUE /\ run_tick(t)

\* main(): Redis, MongoDB and the account answer; then the one tick of TRADER_RUN_ONCE,
\* past the gate, or start(): the job is added and the boot tick called.
Boot ==
  /\ ~up /\ up' = TRUE
  /\ due' = "no"
  /\ \/ once' = TRUE /\ run_tick("boot") /\ UNCHANGED <<running, faults>>
     \/ once' = FALSE /\ _tick("boot")
  /\ UNCHANGED clock

\* One of them does not: the process ends before it did anything.
BootFails == ~up /\ Fault /\ UNCHANGED <<clock, up, once, due, running, at, span>>

\* The interval job comes up.  Behind its time it may be run or missed (misfire grace);
\* missed runs are one (coalesce), and none starts while its last is on (max_instances).
Fire ==
  /\ up /\ due # "no" /\ LoopFree
  /\ due' = "no"
  /\ \/ (due = "late" \/ InTick("interval")) /\ UNCHANGED <<running, at, span, faults>>
     \/ ~InTick("interval") /\ _tick("interval")
  /\ UNCHANGED <<clock, up, once>>

Down ==
  /\ up' = FALSE /\ once' = FALSE /\ due' = "no" /\ running' = FALSE
  /\ at' = [t \in Tasks |-> "idle"] /\ span' = 0
  /\ UNCHANGED clock

\* The finally of _tick.
TickOver(t) ==
  /\ at' = [at EXCEPT ![t] = "idle"] /\ running' = FALSE /\ span' = 0
  /\ UNCHANGED <<clock, up, once, due>>

\* The tick of a run-once process was all it had to do.
TickReturns(t) == IF once THEN Down ELSE TickOver(t)

\* Slip: without the finally.
TickRaisesUnreset(t) ==
  IF t = "boot" THEN Down
  ELSE at' = [at EXCEPT ![t] = "idle"] /\ UNCHANGED <<clock, up, once, due, running, span>>

\* An exception of the boot task ends the process; the scheduler logs that of its job.
TickRaises(t) == IF t = "boot" THEN Down ELSE TickOver(t)

\* The process ends, at any point.
Dies == up /\ Fault /\ Down

\* A slot passes.  A free loop does not let a due job wait, unless the machine sleeps.
SlotPasses ==
  /\ IF up /\ due # "no" /\ LoopFree THEN Fault ELSE faults' = faults
  /\ clock' = IF clock + 1 = DayLength THEN 0 ELSE clock + 1
  /\ IF Ticking THEN span < MaxSpan /\ span' = span + 1 ELSE span' = span
  /\ due' = IF ~up \/ once THEN "no" ELSE IF LoopFree /\ due = "no" THEN "now" ELSE "late"
  /\ UNCHANGED <<up, once, running, at>>
=============================================================================
