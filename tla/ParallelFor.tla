---------------------------- MODULE ParallelFor ----------------------------
(***************************************************************************)
(* The pool that encodes one period's blocks in parallel                   *)
(* (src/src/parallel_for.cpp): a caller that hands out jobs 0 .. count-1   *)
(* and works on them too, and workers that live as long as the engine.     *)
(*                                                                         *)
(* A region under the mutex is one step; between two regions, and between  *)
(* the atomic fetch of an index, its comparison and the job, any other     *)
(* thread may run.  A condition variable is a set of threads asleep on it: *)
(* a notification, or nothing at all (a spurious wakeup), sends a thread   *)
(* back to test its predicate under the mutex.                             *)
(***************************************************************************)
EXTENDS Integers, FiniteSets

CONSTANTS Workers,   \* the worker threads (two or more: one runs inline)
          Caller,    \* the thread that starts, runs and stops the pool
          Counts,    \* the job counts run() is called with
          MaxCalls,  \* bound: calls of run()
          MaxStarts  \* bound: calls of start()

(* run() with a count of 0 or 1 never touches the threads.                 *)
ASSUME CountsAssumption == Counts \subseteq Nat \ {0, 1}
ASSUME CallerAssumption == Caller \notin Workers
ASSUME WorkersAssumption == IsFiniteSet(Workers)

Threads == Workers \cup {Caller}

VARIABLES
  at,          \* where each thread is
  index,       \* the job index each thread fetched last
  seen,        \* seen: the generation each worker entered last
  generation,  \* generation_
  next,        \* next_, the atomic the indices are fetched from
  count,       \* count_
  remaining,   \* remaining_: below zero stands for the unsigned wrap
  active,      \* active_: workers between entering a generation and leaving it
  stopping,    \* stopping_
  hasJob,      \* job_ is not null
  ran,         \* ghost: how often each job of the present run has run
  starts       \* calls of start() so far

poolVars == <<at, index, seen, generation, next, count, remaining, active,
              stopping, hasJob, ran, starts>>

JobIndices == 0 .. (CHOOSE n \in Counts : \A m \in Counts : m <= n) - 1

PoolInit ==
  /\ at = [t \in Threads |-> IF t = Caller THEN "idle" ELSE "testing"]
  /\ index = [t \in Threads |-> 0]
  /\ seen = [w \in Workers |-> 0]
  /\ generation = 0 /\ next = 0 /\ count = 0 /\ remaining = 0 /\ active = 0
  /\ stopping = FALSE /\ hasJob = FALSE
  /\ ran = [i \in JobIndices |-> 0]
  /\ starts = 1

Goes(t, place) == at' = [at EXCEPT ![t] = place]

\* Mutant: whoever finishes last forgets to notify the caller.
GoesSilently(t, place, over) == Goes(t, place)

(* Thread t goes to `place`; when the count it just lowered reached zero it *)
(* notifies done_cv_, on which only the caller sleeps.                      *)
GoesNotifyingDone(t, place, over) ==
  at' = [u \in Threads |->
           IF u = t THEN place
           ELSE IF over /\ u = Caller /\ at[u] = "asleep" THEN "testing"
           ELSE at[u]]

\* The caller goes to `place` and notifies work_cv_.
NotifiesWork(place) ==
  at' = [t \in Threads |->
           IF t = Caller THEN place
           ELSE IF at[t] = "asleep" THEN "testing" ELSE at[t]]

----------------------------------------------------------------------------
(* What every thread does: pull an index, compare it, run the job, count it *)

FetchIndex(t) ==
  /\ at[t] = "pulling"
  /\ index' = [index EXCEPT ![t] = next]
  /\ next' = next + 1
  /\ Goes(t, "comparing")
  /\ UNCHANGED <<seen, generation, count, remaining, active, stopping, hasJob, ran,
                 starts>>

\* Mutant: the bound is compared with <= and one job too many is run.
InRangeOffByOne(i) == i <= count

InRange(i) == i < count

CompareIndex(t) ==
  /\ at[t] = "comparing"
  /\ \/ InRange(index[t]) /\ Goes(t, "running")
     \/ /\ ~InRange(index[t])
        /\ Goes(t, IF t = Caller THEN "testing" ELSE "leaving")
  /\ UNCHANGED <<index, seen, generation, next, count, remaining, active, stopping,
                 hasJob, ran, starts>>

RunJob(t) ==
  /\ at[t] = "running"
  /\ ran' = [i \in DOMAIN ran |-> IF i = index[t] THEN ran[i] + 1 ELSE ran[i]]
  /\ Goes(t, "counting")
  /\ UNCHANGED <<index, seen, generation, next, count, remaining, active, stopping,
                 hasJob, starts>>

CountJob(t) ==
  /\ at[t] = "counting"
  /\ remaining' = remaining - 1
  /\ GoesNotifyingDone(t, "pulling", remaining' = 0)
  /\ UNCHANGED <<index, seen, generation, next, count, active, stopping, hasJob, ran,
                 starts>>

Pulls(t) == FetchIndex(t) \/ CompareIndex(t) \/ RunJob(t) \/ CountJob(t)

----------------------------------------------------------------------------
(* A worker: wait for a generation it has not seen, or for the stop *)

EnterGeneration(w) ==
  /\ at[w] = "testing" /\ ~stopping /\ generation # seen[w]
  /\ seen' = [seen EXCEPT ![w] = generation]
  /\ active' = active + 1
  /\ Goes(w, "pulling")
  /\ UNCHANGED <<index, generation, next, count, remaining, stopping, hasJob, ran,
                 starts>>

WaitForWork(w) ==
  /\ at[w] = "testing" /\ ~stopping /\ generation = seen[w]
  /\ Goes(w, "asleep")
  /\ UNCHANGED <<index, seen, generation, next, count, remaining, active, stopping,
                 hasJob, ran, starts>>

WorkerReturns(w) ==
  /\ at[w] = "testing" /\ stopping
  /\ Goes(w, "gone")
  /\ UNCHANGED <<index, seen, generation, next, count, remaining, active, stopping,
                 hasJob, ran, starts>>

LeaveGeneration(w) ==
  /\ at[w] = "leaving"
  /\ active' = active - 1
  /\ GoesNotifyingDone(w, "testing", active' = 0)
  /\ UNCHANGED <<index, seen, generation, next, count, remaining, stopping, hasJob,
                 ran, starts>>

WorkerStep(w) ==
  \/ Pulls(w) \/ EnterGeneration(w) \/ WaitForWork(w) \/ WorkerReturns(w)
  \/ LeaveGeneration(w)

----------------------------------------------------------------------------
(* The caller *)

\* run(): publish the job under the mutex.
StartRun ==
  /\ at[Caller] = "idle" /\ generation < MaxCalls
  /\ \E n \in Counts : count' = n /\ remaining' = n
  /\ next' = 0
  /\ generation' = generation + 1
  /\ hasJob' = TRUE
  /\ ran' = [i \in DOMAIN ran |-> 0]
  /\ Goes(Caller, "notifying")
  /\ UNCHANGED <<index, seen, active, stopping, starts>>

NotifyRun ==
  /\ at[Caller] = "notifying"
  /\ NotifiesWork("pulling")
  /\ UNCHANGED <<index, seen, generation, next, count, remaining, active, stopping,
                 hasJob, ran, starts>>

\* Mutant: the caller does not wait at all.
NothingToAwait == TRUE

\* What the caller waits for at the end of run().
AllDone == remaining = 0 /\ active = 0

AwaitDone ==
  /\ at[Caller] = "testing"
  /\ \/ AllDone /\ Goes(Caller, "idle") /\ hasJob' = FALSE
     \/ ~AllDone /\ Goes(Caller, "asleep") /\ UNCHANGED hasJob
  /\ UNCHANGED <<index, seen, generation, next, count, remaining, active, stopping,
                 ran, starts>>

\* stop(): raise the flag under the mutex, notify, join every worker.
StartStop ==
  /\ at[Caller] = "idle"
  /\ stopping' = TRUE
  /\ Goes(Caller, "notifying stop")
  /\ UNCHANGED <<index, seen, generation, next, count, remaining, active, hasJob, ran,
                 starts>>

NotifyStop ==
  /\ at[Caller] = "notifying stop"
  /\ NotifiesWork("joining")
  /\ UNCHANGED <<index, seen, generation, next, count, remaining, active, stopping,
                 hasJob, ran, starts>>

Joined ==
  /\ at[Caller] = "joining" /\ \A w \in Workers : at[w] = "gone"
  /\ stopping' = FALSE
  /\ Goes(Caller, "stopped")
  /\ UNCHANGED <<index, seen, generation, next, count, remaining, active, hasJob, ran,
                 starts>>

(* start() on a stopped pool: new threads, whose `seen` is zero although   *)
(* generation_ is not, so they enter at once a generation that is over.    *)
Restart ==
  /\ at[Caller] = "stopped" /\ starts < MaxStarts
  /\ starts' = starts + 1
  /\ at' = [t \in Threads |-> IF t = Caller THEN "idle" ELSE "testing"]
  /\ seen' = [w \in Workers |-> 0]
  /\ UNCHANGED <<index, generation, next, count, remaining, active, stopping, hasJob,
                 ran>>

CallerStep == Pulls(Caller) \/ NotifyRun \/ AwaitDone \/ NotifyStop \/ Joined

SpuriousWakeup(t) ==
  /\ at[t] = "asleep" /\ Goes(t, "testing")
  /\ UNCHANGED <<index, seen, generation, next, count, remaining, active, stopping,
                 hasJob, ran, starts>>

PoolNext ==
  \/ StartRun \/ StartStop \/ Restart \/ CallerStep
  \/ \E w \in Workers : WorkerStep(w)
  \/ \E t \in Threads : SpuriousWakeup(t)

PoolSpec == PoolInit /\ [][PoolNext]_poolVars

(* The operating system schedules every thread that can run.  Whether the  *)
(* caller calls run() or stop(), and a spurious wakeup, is nobody's duty.  *)
FairPoolSpec ==
  /\ PoolSpec
  /\ WF_poolVars(CallerStep)
  /\ \A w \in Workers : WF_poolVars(WorkerStep(w))

----------------------------------------------------------------------------
(* Properties *)

Pulling == {"pulling", "comparing", "running", "counting"}

\* The type invariant of the pool and its threads.
PoolTypeOK ==
  /\ at \in [Threads -> Pulling \cup {"idle", "testing", "asleep", "leaving", "gone",
                                      "notifying", "notifying stop", "joining",
                                      "stopped"}]
  /\ index \in [Threads -> Nat] /\ seen \in [Workers -> Nat]
  /\ generation \in Nat /\ next \in Nat /\ count \in Nat
  /\ remaining \in Nat /\ active \in Nat
  /\ stopping \in BOOLEAN /\ hasJob \in BOOLEAN
  /\ ran \in [JobIndices -> Nat] /\ starts \in Nat

(* Jobs are handed out once each, whatever generation the worker that      *)
(* pulls believes it is in: a worker woken late takes part in a run it did *)
(* not wait for.  The engine calls every run with the number of its blocks *)
(* (engine.cpp:338); with counts that vary this does not hold, because an  *)
(* index fetched under one count may be compared with the next.            *)
EachJobOnce == \A i \in JobIndices : ran[i] <= 1

(* "Run job(0..count-1) and return when all have run"                      *)
(* (parallel_for.hpp:43): when the caller is back, every job of its run    *)
(* has run.                                                                *)
ReturnsWhenAllHaveRun ==
  at[Caller] \in {"idle", "stopped"} /\ generation > 0
    => \A i \in 0 .. count - 1 : ran[i] = 1

\* The invariant of the pool: its types, no job run twice, and what the caller of
\* run may rely on.
PoolInv == PoolTypeOK /\ EachJobOnce /\ ReturnsWhenAllHaveRun

(* A job captures the caller's frame by reference (engine.cpp:338): no     *)
(* thread is inside one, or about to enter one, once run() has returned,   *)
(* and the pointer to it is set while one is.                              *)
NoJobOutlivesItsRun ==
  \A t \in Threads : at[t] = "running"
     => /\ hasJob /\ index[t] < count
        /\ at[Caller] \in Pulling \cup {"notifying", "testing", "asleep"}

(* run() and stop() return: the notifications are never missed, and the    *)
(* caller never waits for a worker that waits for it.                      *)
CallerReturns ==
  at[Caller] \notin {"idle", "stopped"} ~> at[Caller] \in {"idle", "stopped"}

=============================================================================
