--------------------------- MODULE EngineService ---------------------------
(***************************************************************************)
(* The engine's lifecycle: the service that owns the engine and the thread *)
(* it runs on (src/src/service.cpp), and the engine's own open, run, stop  *)
(* and close (src/src/engine.cpp).  Callers are the threads that start,    *)
(* stop and restart it: the process's main thread and the HTTP server's.   *)
(*                                                                         *)
(* A region under the service's mutex is one step, and so is a store to or *)
(* a load of an atomic; anything may happen between two of them.           *)
(***************************************************************************)
EXTENDS Integers, FiniteSets

CONSTANTS Callers,     \* threads that call start, stop and restart
          Loops,       \* the threads of a running engine, by role
          MaxEngines   \* bound: engines built

(* Engines and workers are numbered from 1, and 0 is none.                 *)
ASSUME MaxEnginesAssumption == MaxEngines \in Nat \ {0}

VARIABLES
  engine,        \* engine_: the engine owned, or None
  built,         \* engines built so far; they are numbered from 1
  freed,         \* engines destroyed
  thread,        \* thread_: the worker it can join, or None
  spawned,       \* workers spawned so far; they are numbered from 1
  word,          \* state_
  workerAt,      \* where each worker is
  workerEngine,  \* the engine each worker runs
  stopFlag,      \* stop_requested_ of each engine
  running,       \* running_ of each engine
  loops,         \* the threads of each engine still in their loop
  callerAt,      \* where each caller is
  callerEngine,  \* the engine a stop is about to signal
  joins,         \* the worker a stop is joining
  restarting,    \* the caller goes on to start once its stop is done
  answer,        \* what the caller's last start returned
  pageEngine,    \* the engine pointer a request handler holds, or None
  misused        \* std::thread used where its behaviour is to terminate the
                 \*   process (assignment while joinable) or undefined (two joins)

serviceVars == <<engine, thread, word>>
engineVars == <<stopFlag, running, loops>>
workerVars == <<spawned, workerAt, workerEngine>>
callerVars == <<callerAt, callerEngine, joins, restarting, answer>>
vars == <<serviceVars, built, freed, engineVars, workerVars, callerVars, pageEngine,
          misused>>

None == 0
Engines == 1 .. MaxEngines

ServiceInit ==
  /\ engine = None /\ built = 0 /\ freed = {} /\ thread = None /\ spawned = 0
  /\ word = "stopped"
  /\ workerAt = [k \in Engines |-> "unborn"]
  /\ workerEngine = [k \in Engines |-> None]
  /\ stopFlag = [e \in Engines |-> FALSE]
  /\ running = [e \in Engines |-> FALSE]
  /\ loops = [e \in Engines |-> {}]
  /\ callerAt = [c \in Callers |-> "idle"]
  /\ callerEngine = [c \in Callers |-> None]
  /\ joins = [c \in Callers |-> None]
  /\ restarting = [c \in Callers |-> FALSE]
  /\ answer = [c \in Callers |-> FALSE]
  /\ pageEngine = None /\ misused = FALSE

CallerGoes(c, place) == callerAt' = [callerAt EXCEPT ![c] = place]
WorkerGoes(k, place) == workerAt' = [workerAt EXCEPT ![k] = place]

\* Mutant: the engine counts as destroyed when there was none.
DestroyedOrNone == freed \cup {engine}

\* engine_.reset(), or the assignment of a new engine: the old one is destroyed.
Destroyed == freed \cup ({engine} \ {None})

----------------------------------------------------------------------------
(* A caller *)

CallStart(c) ==
  /\ callerAt[c] = "idle" /\ CallerGoes(c, "start")
  /\ restarting' = [restarting EXCEPT ![c] = FALSE]
  /\ UNCHANGED <<serviceVars, built, freed, engineVars, workerVars, callerEngine,
                 joins, answer, pageEngine, misused>>

CallStop(c, then_start) ==
  /\ callerAt[c] = "idle" /\ CallerGoes(c, "stop")
  /\ restarting' = [restarting EXCEPT ![c] = then_start]
  /\ UNCHANGED <<serviceVars, built, freed, engineVars, workerVars, callerEngine,
                 joins, answer, pageEngine, misused>>

AfterStop(c) == IF restarting[c] THEN "start" ELSE "idle"

\* stop: nothing to stop, or take the engine's pointer.
StopBegins(c) ==
  /\ callerAt[c] = "stop"
  /\ \/ thread = None /\ CallerGoes(c, AfterStop(c)) /\ UNCHANGED callerEngine
     \/ /\ thread # None /\ CallerGoes(c, "signalling")
        /\ callerEngine' = [callerEngine EXCEPT ![c] = engine]
  /\ UNCHANGED <<serviceVars, built, freed, engineVars, workerVars, joins, restarting,
                 answer, pageEngine, misused>>

\* Mutant: the engine is never told.
StopSignalsNothing(c) ==
  /\ callerAt[c] = "signalling" /\ CallerGoes(c, "joining")
  /\ UNCHANGED <<serviceVars, built, freed, engineVars, workerVars, callerEngine,
                 joins, restarting, answer, pageEngine, misused>>

\* Engine::stop raises the flag and nothing else.
StopSignals(c) ==
  /\ callerAt[c] = "signalling" /\ CallerGoes(c, "joining")
  /\ stopFlag' = [e \in Engines |-> stopFlag[e] \/ e = callerEngine[c]]
  /\ UNCHANGED <<serviceVars, built, freed, running, loops, workerVars, callerEngine,
                 joins, restarting, answer, pageEngine, misused>>

(* thread_.joinable() and thread_.join(), outside the mutex.  A second     *)
(* join of the same thread is undefined.                                   *)
StopJoins(c) ==
  /\ callerAt[c] = "joining"
  /\ CallerGoes(c, IF thread = None THEN "resetting" ELSE "joined")
  /\ joins' = [joins EXCEPT ![c] = thread]
  /\ misused' = (misused \/ \E d \in Callers \ {c} : joins[d] # None /\ joins[d] = thread)
  /\ UNCHANGED <<serviceVars, built, freed, engineVars, workerVars, callerEngine,
                 restarting, answer, pageEngine>>

\* Mutant: the wait for the worker is gone.
WorkerHasEndedUnwaited(k) == TRUE

WorkerHasEnded(k) == workerAt[k] = "ended"

StopJoined(c) ==
  /\ callerAt[c] = "joined" /\ WorkerHasEnded(joins[c])
  /\ CallerGoes(c, "resetting")
  /\ joins' = [joins EXCEPT ![c] = None]
  /\ thread' = IF thread = joins[c] THEN None ELSE thread
  /\ UNCHANGED <<engine, word, built, freed, engineVars, workerVars, callerEngine,
                 restarting, answer, pageEngine, misused>>

StopResets(c) ==
  /\ callerAt[c] = "resetting" /\ CallerGoes(c, AfterStop(c))
  /\ freed' = Destroyed /\ engine' = None /\ word' = "stopped"
  /\ UNCHANGED <<thread, built, engineVars, workerVars, callerEngine, joins,
                 restarting, answer, pageEngine, misused>>

\* Mutant: start does not look whether there is a thread already.
ThreadIsFree == TRUE

\* What start takes for a stopped engine: there is no thread to join.
NoThread == thread = None

StartChecks(c) ==
  /\ callerAt[c] = "start"
  /\ \/ /\ ~NoThread /\ CallerGoes(c, "idle")
        /\ answer' = [answer EXCEPT ![c] = TRUE]
        /\ UNCHANGED word
     \/ /\ NoThread /\ CallerGoes(c, "preparing") /\ word' = "starting"
        /\ UNCHANGED answer
  /\ UNCHANGED <<engine, thread, built, freed, engineVars, workerVars, callerEngine,
                 joins, restarting, pageEngine, misused>>

\* The file does not load, or the engine refuses the configuration.
StartRefused(c) ==
  /\ callerAt[c] = "preparing" /\ CallerGoes(c, "idle")
  /\ word' = "failed"
  /\ answer' = [answer EXCEPT ![c] = FALSE]
  /\ UNCHANGED <<engine, thread, built, freed, engineVars, workerVars, callerEngine,
                 joins, restarting, pageEngine, misused>>

StartBuilds(c) ==
  /\ callerAt[c] = "preparing" /\ built < MaxEngines
  /\ CallerGoes(c, "spawning")
  /\ built' = built + 1 /\ engine' = built + 1 /\ freed' = Destroyed
  /\ UNCHANGED <<thread, word, engineVars, workerVars, callerEngine, joins, restarting,
                 answer, pageEngine, misused>>

\* Assigning to a thread that is still joinable terminates the process.
StartSpawns(c) ==
  /\ callerAt[c] = "spawning" /\ CallerGoes(c, "idle")
  /\ spawned' = spawned + 1 /\ thread' = spawned + 1
  /\ WorkerGoes(spawned + 1, "spawned")
  /\ misused' = (misused \/ thread # None)
  /\ answer' = [answer EXCEPT ![c] = TRUE]
  /\ UNCHANGED <<engine, word, built, freed, engineVars, workerEngine, callerEngine,
                 joins, restarting, pageEngine>>

CallerStep(c) ==
  \/ StopBegins(c) \/ StopSignals(c) \/ StopJoins(c) \/ StopJoined(c) \/ StopResets(c)
  \/ StartChecks(c) \/ StartRefused(c) \/ StartBuilds(c) \/ StartSpawns(c)

----------------------------------------------------------------------------
(* The worker: Engine::run on the engine it finds *)

WorkerBegins(k) ==
  /\ workerAt[k] = "spawned"
  /\ workerEngine' = [workerEngine EXCEPT ![k] = engine]
  /\ WorkerGoes(k, IF engine = None THEN "failed" ELSE "opening")
  /\ UNCHANGED <<serviceVars, built, freed, engineVars, spawned, callerVars, pageEngine,
                 misused>>

\* Engine::open clears the flag before it hands it to the link.
OpenBegins(k) ==
  /\ workerAt[k] = "opening" /\ WorkerGoes(k, "waiting")
  /\ stopFlag' = [stopFlag EXCEPT ![workerEngine[k]] = FALSE]
  /\ UNCHANGED <<serviceVars, built, freed, running, loops, spawned, workerEngine,
                 callerVars, pageEngine, misused>>

(* Link::open returns: a peer was found, or the connection failed.  A      *)
(* listener nobody calls waits here until the flag aborts it.              *)
LinkOpenReturns(k) ==
  /\ workerAt[k] = "waiting" /\ WorkerGoes(k, "open link")
  /\ UNCHANGED <<serviceVars, built, freed, engineVars, spawned, workerEngine,
                 callerVars, pageEngine, misused>>

\* The abort is a failed link, which is no reason to stop opening.
LinkOpenAborts(k) ==
  workerAt[k] = "waiting" /\ stopFlag[workerEngine[k]] /\ LinkOpenReturns(k)

DeviceOpens(k) ==
  /\ workerAt[k] = "open link"
  /\ WorkerGoes(k, "open") \/ WorkerGoes(k, "failed")
  /\ UNCHANGED <<serviceVars, built, freed, engineVars, spawned, workerEngine,
                 callerVars, pageEngine, misused>>

\* Mutant: the loops run and the engine does not say so.
LoopsBeginUnseen(k) ==
  /\ workerAt[k] = "open" /\ WorkerGoes(k, "looping")
  /\ stopFlag' = [stopFlag EXCEPT ![workerEngine[k]] = FALSE]
  /\ loops' = [loops EXCEPT ![workerEngine[k]] = Loops]
  /\ UNCHANGED <<serviceVars, built, freed, running, spawned, workerEngine, callerVars,
                 pageEngine, misused>>

\* run() clears the flag again, then starts its threads.
LoopsBegin(k) ==
  /\ workerAt[k] = "open" /\ WorkerGoes(k, "looping")
  /\ stopFlag' = [stopFlag EXCEPT ![workerEngine[k]] = FALSE]
  /\ running' = [running EXCEPT ![workerEngine[k]] = TRUE]
  /\ loops' = [loops EXCEPT ![workerEngine[k]] = Loops]
  /\ UNCHANGED <<serviceVars, built, freed, spawned, workerEngine, callerVars,
                 pageEngine, misused>>

\* A loop tests the flag between two turns; the supervisor also while it waits.
LoopEnds(k, l) ==
  /\ workerAt[k] = "looping" /\ l \in loops[workerEngine[k]]
  /\ stopFlag[workerEngine[k]]
  /\ loops' = [loops EXCEPT ![workerEngine[k]] = @ \ {l}]
  /\ UNCHANGED <<serviceVars, built, freed, stopFlag, running, workerVars, callerVars,
                 pageEngine, misused>>

LoopsJoined(k) ==
  /\ workerAt[k] = "looping" /\ loops[workerEngine[k]] = {}
  /\ WorkerGoes(k, "stopped")
  /\ running' = [running EXCEPT ![workerEngine[k]] = FALSE]
  /\ UNCHANGED <<serviceVars, built, freed, stopFlag, loops, spawned, workerEngine,
                 callerVars, pageEngine, misused>>

\* run() has returned 0 (stopped) or 1 (failed); the worker records which.
WorkerEnds(k) ==
  /\ workerAt[k] \in {"stopped", "failed"}
  /\ word' = workerAt[k]
  /\ WorkerGoes(k, "ended")
  /\ UNCHANGED <<engine, thread, built, freed, engineVars, spawned, workerEngine,
                 callerVars, pageEngine, misused>>

WorkerStep(k) ==
  \/ WorkerBegins(k) \/ OpenBegins(k) \/ LinkOpenAborts(k) \/ DeviceOpens(k)
  \/ LoopsBegin(k) \/ LoopsJoined(k) \/ WorkerEnds(k)
  \/ \E l \in Loops : LoopEnds(k, l)

----------------------------------------------------------------------------
(* A request handler that asks for the engine and uses what it was given *)

PageAsks ==
  /\ pageEngine = None /\ engine # None
  /\ pageEngine' = engine
  /\ UNCHANGED <<serviceVars, built, freed, engineVars, workerVars, callerVars, misused>>

PageUses ==
  /\ pageEngine # None /\ pageEngine' = None
  /\ UNCHANGED <<serviceVars, built, freed, engineVars, workerVars, callerVars, misused>>

\* A misused thread is the end of the process.
ServiceNext ==
  /\ ~misused
  /\ \/ \E c \in Callers : \/ CallStart(c)
                           \/ \E then_start \in BOOLEAN : CallStop(c, then_start)
                           \/ CallerStep(c)
     \/ \E k \in Engines : WorkerStep(k) \/ LinkOpenReturns(k)
     \/ PageAsks \/ PageUses

ServiceSpec == ServiceInit /\ [][ServiceNext]_vars

(* Every thread that can take its next step takes it.  Nothing makes a     *)
(* peer call a listener, so LinkOpenReturns is not fair, and nobody has to *)
(* call start or stop.                                                     *)
FairServiceSpec ==
  /\ ServiceSpec
  /\ \A c \in Callers : WF_vars(CallerStep(c))
  /\ \A k \in Engines : WF_vars(WorkerStep(k))

----------------------------------------------------------------------------
(* Properties *)

WorkerAlive(k) == workerAt[k] \notin {"unborn", "ended"}

\* state(): the engine is trusted over the stored word.
Reported == IF engine # None /\ running[engine] THEN "running" ELSE word

\* The type invariant of the service, its engines and its threads.
ServiceTypeOK ==
  /\ engine \in Engines \cup {None} /\ thread \in Engines \cup {None}
  /\ built \in 0 .. MaxEngines /\ spawned \in 0 .. built /\ freed \subseteq 1 .. built
  /\ word \in {"stopped", "starting", "failed"}
  /\ workerAt \in [Engines -> {"unborn", "spawned", "opening", "waiting", "open link",
                               "open", "looping", "stopped", "failed", "ended"}]
  /\ workerEngine \in [Engines -> Engines \cup {None}]
  /\ stopFlag \in [Engines -> BOOLEAN] /\ running \in [Engines -> BOOLEAN]
  /\ loops \in [Engines -> SUBSET Loops]
  /\ callerAt \in [Callers -> {"idle", "stop", "signalling", "joining", "joined",
                               "resetting", "start", "preparing", "spawning"}]
  /\ callerEngine \in [Callers -> Engines \cup {None}]
  /\ joins \in [Callers -> Engines \cup {None}]
  /\ restarting \in [Callers -> BOOLEAN] /\ answer \in [Callers -> BOOLEAN]
  /\ pageEngine \in Engines \cup {None} /\ misused \in BOOLEAN

(* Neither the worker running an engine nor a stop about to signal it      *)
(* holds a pointer to one that has been destroyed: the destruction waits   *)
(* for the join (service.cpp:136-141).  A request handler is not covered:  *)
(* nothing makes a stop wait for it (api_server.cpp:985).                  *)
NoEngineUsedAfterFree ==
  /\ \A k \in Engines : WorkerAlive(k) => workerEngine[k] \notin freed
  /\ \A c \in Callers : callerAt[c] = "signalling" => callerEngine[c] \notin freed

(* "starting again is a no-op" (service.cpp:51): no start replaces a       *)
(* thread that is still there, and no thread is joined twice.              *)
ThreadIsNeverMisused == ~misused

(* At most one engine is between open and close: two would fight over the  *)
(* device and the link's port.                                             *)
OneEngineAtATime ==
  \A j, k \in Engines : WorkerAlive(j) /\ WorkerAlive(k) => j = k

\* The invariant of the service: its types, its thread used as it must be, and one
\* engine on the device and the port at most.
ServiceInv == ServiceTypeOK /\ ThreadIsNeverMisused /\ OneEngineAtATime

(* "a listener that is still waiting for a caller is starting, not         *)
(* running, and a failed open must not read as running either"             *)
(* (service.cpp:33): the word the page shows is true of the threads.       *)
ReportIsTrue ==
  /\ (\E k \in Engines : workerAt[k] = "looping") <=> Reported = "running"
  /\ Reported = "starting" =>
       \/ \E k \in Engines : WorkerAlive(k)
       \/ \E c \in Callers : callerAt[c] \in {"preparing", "spawning"}
  /\ Reported \in {"stopped", "failed"} =>
       \A k \in Engines : WorkerAlive(k) => workerAt[k] \in {"stopped", "failed"}

(* A stop that finds the loops running returns: every loop sees the flag,  *)
(* and nothing clears it any more.                                         *)
StopOfRunningEngineReturns ==
  \A c \in Callers :
    (callerAt[c] = "signalling" /\ callerEngine[c] # None /\ running[callerEngine[c]])
      ~> callerAt[c] \in {"idle", "preparing"}

=============================================================================
