----------------------------- MODULE ServiceProofs -----------------------------
(***************************************************************************)
(* The safety of the two components that run the appliance: the engine's   *)
(* lifecycle, for every number of engines and every set of loops, when one *)
(* thread at a time starts and stops; and the AES67 daemon's control, for  *)
(* every configuration and every set of requests and threads.              *)
(***************************************************************************)
EXTENDS EngineService, DaemonControl, TLAPS

----------------------------------------------------------------------------
(* The engine's lifecycle *)

\* One thread starts, stops and restarts the engine.
SoleCaller == \A c, d \in Callers : c = d

InRun == {"opening", "waiting", "open link", "open", "looping", "stopped"}
BringingUp == {"preparing", "spawning"}

\* The engine owned is the newest or none, and the only worker that lives is the
\* one that can be joined.
ThreadsAreOwned ==
  /\ engine <= built /\ engine \notin freed
  /\ \A k \in Engines : k > spawned => workerAt[k] = "unborn"
  /\ \A k \in Engines : WorkerAlive(k) => k = thread

\* How far a caller is says what it has left of the thread and the engine.
CallersKnow ==
  \A c \in Callers :
    /\ callerAt[c] \in BringingUp \cup {"resetting"} => thread = None
    /\ callerAt[c] = "joined" => joins[c] = thread /\ thread # None
    /\ callerAt[c] = "spawning" => spawned < built
    /\ callerAt[c] = "signalling" => callerEngine[c] \notin freed

\* A worker in open or in run is on the engine owned, and says so when it loops.
WorkersRunTheEngine ==
  \A k \in Engines :
    /\ WorkerAlive(k) => workerEngine[k] \notin freed
    /\ workerAt[k] \in {"unborn", "spawned"} => workerEngine[k] = None
    /\ workerAt[k] \in InRun => workerEngine[k] = engine /\ engine # None
    /\ workerAt[k] = "looping" => running[engine]

RunningIsLooping ==
  \A e \in Engines :
    running[e] => \E k \in Engines : workerAt[k] = "looping" /\ workerEngine[k] = e

\* The stored word is "starting" from the start's decision to the worker's end.
StartingIsTrue ==
  word = "starting" <=>
    \/ \E c \in Callers : callerAt[c] \in BringingUp
    \/ \E k \in Engines : WorkerAlive(k)

ServiceProofInv ==
  /\ ServiceTypeOK /\ ~misused
  /\ ThreadsAreOwned /\ CallersKnow /\ WorkersRunTheEngine
  /\ RunningIsLooping /\ StartingIsTrue

----------------------------------------------------------------------------

LEMMA InitIsProofInv == ServiceInit => ServiceProofInv
<1> SUFFICES ASSUME ServiceInit PROVE ServiceProofInv
  OBVIOUS
<1> USE DEF ServiceInit, None, Engines
<1>1. ServiceTypeOK /\ ~misused
  <2>1. /\ built \in 0 .. MaxEngines /\ spawned \in 0 .. built /\ freed \subseteq 1 .. built
        /\ engine \in Engines \cup {None} /\ thread \in Engines \cup {None}
        /\ pageEngine \in Engines \cup {None}
    BY MaxEnginesAssumption
  <2>2. /\ workerAt \in [Engines -> {"unborn", "spawned", "opening", "waiting", "open link",
                                    "open", "looping", "stopped", "failed", "ended"}]
        /\ workerEngine \in [Engines -> Engines \cup {None}]
        /\ stopFlag \in [Engines -> BOOLEAN] /\ running \in [Engines -> BOOLEAN]
        /\ loops \in [Engines -> SUBSET Loops]
    OBVIOUS
  <2>3. /\ callerAt \in [Callers -> {"idle", "stop", "signalling", "joining", "joined",
                                    "resetting", "start", "preparing", "spawning"}]
        /\ callerEngine \in [Callers -> Engines \cup {None}]
        /\ joins \in [Callers -> Engines \cup {None}]
        /\ restarting \in [Callers -> BOOLEAN] /\ answer \in [Callers -> BOOLEAN]
    OBVIOUS
  <2>4. word = "stopped" /\ misused = FALSE
    OBVIOUS
  <2>5. QED
    BY <2>1, <2>2, <2>3, <2>4 DEF ServiceTypeOK
<1>2. ThreadsAreOwned /\ CallersKnow
  BY DEF ThreadsAreOwned, CallersKnow, WorkerAlive, BringingUp
<1>3. WorkersRunTheEngine /\ RunningIsLooping
  BY DEF WorkersRunTheEngine, RunningIsLooping, WorkerAlive, InRun
<1>4. StartingIsTrue
  BY DEF StartingIsTrue, WorkerAlive, BringingUp
<1>5. QED
  BY <1>1, <1>2, <1>3, <1>4 DEF ServiceProofInv

----------------------------------------------------------------------------
(* The steps of a worker *)

\* A worker that moves on, alive or to its end, disturbs neither owner nor caller.
LEMMA MovingWorkerIsOwned ==
  ASSUME ServiceProofInv, NEW k \in Engines, WorkerAlive(k), NEW place, place # "unborn",
         WorkerGoes(k, place),
         UNCHANGED <<engine, thread, built, freed, spawned, callerVars>>
  PROVE  ThreadsAreOwned' /\ CallersKnow'
<1>1. workerAt' = [workerAt EXCEPT ![k] = place] /\ workerAt[k] # "unborn" /\ k = thread
  BY DEF WorkerGoes, WorkerAlive, ServiceProofInv, ThreadsAreOwned
<1>2. \A j \in Engines : j # k => workerAt'[j] = workerAt[j]
  BY <1>1 DEF ServiceProofInv, ServiceTypeOK
<1>3. ThreadsAreOwned'
  BY <1>1, <1>2 DEF ThreadsAreOwned, WorkerAlive, ServiceProofInv
<1>4. CallersKnow'
  BY DEF CallersKnow, ServiceProofInv, callerVars
<1>5. QED
  BY <1>3, <1>4

\* While it lives, the engine is still starting, as far as the word goes.
LEMMA MovingWorkerIsStarting ==
  ASSUME ServiceProofInv, NEW k \in Engines, WorkerAlive(k), NEW place,
         place \notin {"unborn", "ended"}, WorkerGoes(k, place), UNCHANGED <<word, callerAt>>
  PROVE  StartingIsTrue'
<1>1. word = "starting"
  BY DEF ServiceProofInv, StartingIsTrue
<1>2. WorkerAlive(k)'
  BY DEF ServiceProofInv, ServiceTypeOK, WorkerAlive, WorkerGoes
<1>3. QED
  BY <1>1, <1>2 DEF StartingIsTrue

\* The running flags and the worker that loops, when neither is touched.
LEMMA RunningIsKept ==
  ASSUME ServiceProofInv, NEW k \in Engines, workerAt[k] # "looping", NEW place,
         WorkerGoes(k, place), workerEngine' = workerEngine, running' = running
  PROVE  RunningIsLooping'
<1>1. \A j \in Engines : workerAt[j] = "looping" => workerAt'[j] = "looping"
  BY DEF WorkerGoes, ServiceProofInv, ServiceTypeOK
<1>2. QED
  BY <1>1 DEF RunningIsLooping, ServiceProofInv

\* In run, a step that changes no engine pointer and ends nobody.
LEMMA WorkersKeepRunning ==
  ASSUME ServiceProofInv, NEW k \in Engines, NEW place, WorkerGoes(k, place),
         UNCHANGED <<engine, freed, workerEngine>>, WorkerAlive(k),
         place \notin {"unborn", "spawned"},
         place \in InRun => workerAt[k] \in InRun,
         place = "looping" => running'[engine],
         \A j \in Engines : j # k /\ workerAt[j] = "looping" => running'[engine]
  PROVE  WorkersRunTheEngine'
<1>1. /\ workerAt'[k] = place
      /\ \A j \in Engines : j # k => workerAt'[j] = workerAt[j]
  BY DEF WorkerGoes, ServiceProofInv, ServiceTypeOK
<1>2. QED
  BY <1>1 DEF WorkersRunTheEngine, WorkerAlive, ServiceProofInv

LEMMA WorkerKeepsInv ==
  ASSUME ServiceProofInv, NEW k \in Engines, WorkerStep(k) \/ LinkOpenReturns(k)
  PROVE  ServiceProofInv'
<1> USE DEF serviceVars, engineVars, workerVars, callerVars
<1>1. WorkerAlive(k)
  BY DEF WorkerStep, LinkOpenReturns, WorkerBegins, OpenBegins, LinkOpenAborts, DeviceOpens,
         LoopsBegin, LoopsJoined, WorkerEnds, LoopEnds, WorkerAlive
<1>2. \A j \in Engines : WorkerAlive(j) => j = k
  BY <1>1 DEF ServiceProofInv, ThreadsAreOwned
<1>3. workerAt[k] \in InRun => workerEngine[k] = engine /\ engine \in Engines
  BY DEF ServiceProofInv, ServiceTypeOK, WorkersRunTheEngine
<1>4. CASE WorkerBegins(k)
  <2> DEFINE place == IF engine = None THEN "failed" ELSE "opening"
  <2>1. WorkerGoes(k, place) /\ place \in {"failed", "opening"}
    BY <1>4 DEF WorkerBegins
  <2>2. /\ workerEngine' = [workerEngine EXCEPT ![k] = engine]
        /\ UNCHANGED <<serviceVars, built, freed, engineVars, spawned, callerVars, pageEngine,
                       misused>>
    BY <1>4 DEF WorkerBegins
  <2>3. workerAt' = [workerAt EXCEPT ![k] = place]
    BY <2>1 DEF WorkerGoes
  <2>4. ServiceTypeOK' /\ ~misused'
    BY <2>1, <2>2, <2>3 DEF ServiceProofInv, ServiceTypeOK
  <2>5. ThreadsAreOwned' /\ CallersKnow' /\ StartingIsTrue'
    BY <1>1, <2>1, <2>2, MovingWorkerIsOwned, MovingWorkerIsStarting
  <2>6. WorkersRunTheEngine'
    BY <1>2, <2>2, <2>3
       DEF ServiceProofInv, ServiceTypeOK, ThreadsAreOwned, WorkersRunTheEngine,
           WorkerAlive,
           InRun
  <2>7. RunningIsLooping'
    <3>1. \A j \in Engines : workerAt[j] = "looping" =>
            workerAt'[j] = "looping" /\ workerEngine'[j] = workerEngine[j]
      BY <1>4, <2>2, <2>3 DEF WorkerBegins, ServiceProofInv, ServiceTypeOK
    <3>2. QED
      BY <2>2, <3>1 DEF ServiceProofInv, RunningIsLooping
  <2>8. QED
    BY <2>4, <2>5, <2>6, <2>7 DEF ServiceProofInv
<1>5. CASE OpenBegins(k)
  <2>1. PICK place \in {"waiting"} : WorkerGoes(k, place)
    BY <1>5 DEF OpenBegins
  <2>2. /\ workerAt[k] = "opening"
        /\ UNCHANGED <<serviceVars, built, freed, running, loops, spawned, workerEngine,
                       callerVars, pageEngine, misused>>
    BY <1>5 DEF OpenBegins
  <2>3. stopFlag' \in [Engines -> BOOLEAN]
    BY <1>5 DEF OpenBegins, ServiceProofInv, ServiceTypeOK
  <2>4. ServiceTypeOK' /\ ~misused'
    BY <2>1, <2>2, <2>3 DEF WorkerGoes, ServiceProofInv, ServiceTypeOK
  <2>5. ThreadsAreOwned' /\ CallersKnow' /\ StartingIsTrue'
    BY <1>1, <2>1, <2>2, MovingWorkerIsOwned, MovingWorkerIsStarting
  <2>6. WorkersRunTheEngine' /\ RunningIsLooping'
    BY <1>1, <1>2, <2>1, <2>2, WorkersKeepRunning, RunningIsKept DEF InRun, WorkerAlive
  <2>7. QED
    BY <2>4, <2>5, <2>6 DEF ServiceProofInv
<1>6. CASE LinkOpenReturns(k)
  <2>1. PICK place \in {"open link"} : WorkerGoes(k, place)
    BY <1>6 DEF LinkOpenReturns
  <2>2. /\ workerAt[k] = "waiting"
        /\ UNCHANGED <<serviceVars, built, freed, running, loops, spawned, workerEngine,
                       callerVars, pageEngine, misused>>
    BY <1>6 DEF LinkOpenReturns
  <2>3. stopFlag' \in [Engines -> BOOLEAN]
    BY <1>6 DEF LinkOpenReturns, ServiceProofInv, ServiceTypeOK
  <2>4. ServiceTypeOK' /\ ~misused'
    BY <2>1, <2>2, <2>3 DEF WorkerGoes, ServiceProofInv, ServiceTypeOK
  <2>5. ThreadsAreOwned' /\ CallersKnow' /\ StartingIsTrue'
    BY <1>1, <2>1, <2>2, MovingWorkerIsOwned, MovingWorkerIsStarting
  <2>6. WorkersRunTheEngine' /\ RunningIsLooping'
    BY <1>1, <1>2, <2>1, <2>2, WorkersKeepRunning, RunningIsKept DEF InRun, WorkerAlive
  <2>7. QED
    BY <2>4, <2>5, <2>6 DEF ServiceProofInv
<1>7. CASE DeviceOpens(k)
  <2>1. PICK place \in {"open", "failed"} : WorkerGoes(k, place)
    BY <1>7 DEF DeviceOpens
  <2>2. /\ workerAt[k] = "open link"
        /\ UNCHANGED <<serviceVars, built, freed, running, loops, spawned, workerEngine,
                       callerVars, pageEngine, misused>>
    BY <1>7 DEF DeviceOpens
  <2>3. stopFlag' \in [Engines -> BOOLEAN]
    BY <1>7 DEF DeviceOpens, ServiceProofInv, ServiceTypeOK
  <2>4. ServiceTypeOK' /\ ~misused'
    BY <2>1, <2>2, <2>3 DEF WorkerGoes, ServiceProofInv, ServiceTypeOK
  <2>5. ThreadsAreOwned' /\ CallersKnow' /\ StartingIsTrue'
    BY <1>1, <2>1, <2>2, MovingWorkerIsOwned, MovingWorkerIsStarting
  <2>6. WorkersRunTheEngine' /\ RunningIsLooping'
    BY <1>1, <1>2, <2>1, <2>2, WorkersKeepRunning, RunningIsKept DEF InRun, WorkerAlive
  <2>7. QED
    BY <2>4, <2>5, <2>6 DEF ServiceProofInv
<1>8. CASE LoopsBegin(k)
  <2>1. /\ WorkerGoes(k, "looping") /\ workerAt[k] = "open"
        /\ stopFlag' = [stopFlag EXCEPT ![workerEngine[k]] = FALSE]
        /\ running' = [running EXCEPT ![workerEngine[k]] = TRUE]
        /\ loops' = [loops EXCEPT ![workerEngine[k]] = Loops]
        /\ UNCHANGED <<serviceVars, built, freed, spawned, workerEngine, callerVars, pageEngine,
                       misused>>
    BY <1>8 DEF LoopsBegin
  <2>2. workerEngine[k] = engine /\ engine \in Engines
    BY <1>3, <2>1 DEF InRun
  <2>3. ServiceTypeOK' /\ ~misused'
    BY <2>1 DEF WorkerGoes, ServiceProofInv, ServiceTypeOK
  <2>4. ThreadsAreOwned' /\ CallersKnow' /\ StartingIsTrue'
    BY <1>1, <2>1, MovingWorkerIsOwned, MovingWorkerIsStarting
  <2>5. running'[engine]
    BY <2>1, <2>2 DEF ServiceProofInv, ServiceTypeOK
  <2>6. WorkersRunTheEngine'
    BY <1>1, <2>1, <2>5, WorkersKeepRunning DEF InRun
  <2>7. RunningIsLooping'
    <3>1. workerAt'[k] = "looping" /\ workerEngine'[k] = engine
      BY <2>1, <2>2 DEF WorkerGoes, ServiceProofInv, ServiceTypeOK
    <3>2. \A j \in Engines : workerAt[j] # "looping"
      BY <1>2, <2>1 DEF WorkerAlive
    <3>3. \A e \in Engines : e # engine => ~running'[e]
      BY <2>1, <2>2, <3>2 DEF ServiceProofInv, ServiceTypeOK, RunningIsLooping
    <3>4. QED
      BY <3>1, <3>3 DEF RunningIsLooping
  <2>8. QED
    BY <2>3, <2>4, <2>6, <2>7 DEF ServiceProofInv
<1>9. CASE \E l \in Loops : LoopEnds(k, l)
  <2>1. PICK l \in Loops : loops' = [loops EXCEPT ![workerEngine[k]] = @ \ {l}]
    BY <1>9 DEF LoopEnds
  <2>2. UNCHANGED <<serviceVars, built, freed, stopFlag, running, workerVars, callerVars,
                    pageEngine, misused>>
    BY <1>9 DEF LoopEnds
  <2>3. ServiceTypeOK' /\ ~misused'
    BY <2>1, <2>2 DEF ServiceProofInv, ServiceTypeOK
  <2>4. ThreadsAreOwned' /\ CallersKnow' /\ WorkersRunTheEngine'
    BY <2>2 DEF ServiceProofInv, ThreadsAreOwned, CallersKnow, WorkersRunTheEngine, WorkerAlive
  <2>5. RunningIsLooping' /\ StartingIsTrue'
    BY <2>2 DEF ServiceProofInv, RunningIsLooping, StartingIsTrue, WorkerAlive
  <2>6. QED
    BY <2>3, <2>4, <2>5 DEF ServiceProofInv
<1>10. CASE LoopsJoined(k)
  <2>1. /\ WorkerGoes(k, "stopped") /\ workerAt[k] = "looping"
        /\ running' = [running EXCEPT ![workerEngine[k]] = FALSE]
        /\ UNCHANGED <<serviceVars, built, freed, stopFlag, loops, spawned, workerEngine,
                       callerVars, pageEngine, misused>>
    BY <1>10 DEF LoopsJoined
  <2>2. ServiceTypeOK' /\ ~misused'
    BY <2>1 DEF WorkerGoes, ServiceProofInv, ServiceTypeOK
  <2>3. ThreadsAreOwned' /\ CallersKnow' /\ StartingIsTrue'
    BY <1>1, <2>1, MovingWorkerIsOwned, MovingWorkerIsStarting
  <2>4. \A j \in Engines : j # k => workerAt[j] # "looping"
    BY <1>2 DEF WorkerAlive
  <2>5. WorkersRunTheEngine'
    BY <1>1, <2>1, <2>4, WorkersKeepRunning DEF InRun
  <2>6. RunningIsLooping'
    <3>1. workerEngine[k] = engine /\ engine \in Engines
      BY <1>3, <2>1 DEF InRun
    <3>2. \A e \in Engines : running[e] => e = engine
      BY <2>4, <3>1 DEF ServiceProofInv, RunningIsLooping
    <3>3. \A e \in Engines : ~running'[e]
      BY <2>1, <3>1, <3>2 DEF ServiceProofInv, ServiceTypeOK
    <3>4. QED
      BY <3>3 DEF RunningIsLooping
  <2>7. QED
    BY <2>2, <2>3, <2>5, <2>6 DEF ServiceProofInv
<1>11. CASE WorkerEnds(k)
  <2>1. /\ WorkerGoes(k, "ended") /\ workerAt[k] \in {"stopped", "failed"}
        /\ word' = workerAt[k]
        /\ UNCHANGED <<engine, thread, built, freed, engineVars, spawned, workerEngine,
                       callerVars, pageEngine, misused>>
    BY <1>11 DEF WorkerEnds
  <2>2. ServiceTypeOK' /\ ~misused'
    BY <2>1 DEF WorkerGoes, ServiceProofInv, ServiceTypeOK
  <2>3. ThreadsAreOwned' /\ CallersKnow'
    BY <1>1, <2>1, MovingWorkerIsOwned
  <2>4. WorkersRunTheEngine' /\ RunningIsLooping'
    BY <1>1, <1>2, <2>1, WorkersKeepRunning, RunningIsKept DEF InRun, WorkerAlive
  <2>5. StartingIsTrue'
    <3>1. \A j \in Engines : ~WorkerAlive(j)'
      BY <1>2, <2>1 DEF WorkerGoes, WorkerAlive, ServiceProofInv, ServiceTypeOK
    <3>2. thread # None
      BY <1>1 DEF ServiceProofInv, ThreadsAreOwned, Engines, None
    <3>3. \A c \in Callers : callerAt'[c] \notin BringingUp
      BY <2>1, <3>2 DEF ServiceProofInv, CallersKnow
    <3>4. word' # "starting"
      BY <2>1
    <3>5. QED
      BY <3>1, <3>3, <3>4 DEF StartingIsTrue
  <2>6. QED
    BY <2>2, <2>3, <2>4, <2>5 DEF ServiceProofInv
<1>12. QED
  BY <1>4, <1>5, <1>6, <1>7, <1>8, <1>9, <1>10, <1>11 DEF WorkerStep, LinkOpenAborts

----------------------------------------------------------------------------
(* The steps of the caller *)

\* A caller that touches no worker and no engine.
LEMMA WorkersUndisturbed ==
  ASSUME ServiceProofInv,
         UNCHANGED <<engine, freed, running, workerAt, workerEngine>>
  PROVE  WorkersRunTheEngine' /\ RunningIsLooping'
  BY DEF ServiceProofInv, WorkersRunTheEngine, RunningIsLooping, WorkerAlive

\* Nobody is alive once there is no thread to join.
LEMMA NobodyLives ==
  ASSUME ServiceProofInv, thread = None
  PROVE  /\ \A k \in Engines : ~WorkerAlive(k)
         /\ \A k \in Engines : workerAt[k] \notin InRun
         /\ \A e \in Engines : ~running[e]
<1>1. \A k \in Engines : ~WorkerAlive(k)
  BY DEF ServiceProofInv, ThreadsAreOwned, Engines, None
<1>2. \A k \in Engines : workerAt[k] \notin InRun
  BY <1>1 DEF WorkerAlive, InRun
<1>3. QED
  BY <1>1, <1>2 DEF ServiceProofInv, RunningIsLooping, InRun

\* The engine owned is one of those built, and none is none.
LEMMA OwnedIsBuilt ==
  ASSUME ServiceProofInv
  PROVE  /\ built \in Nat /\ spawned \in Nat /\ spawned <= built /\ built <= MaxEngines
         /\ {engine} \ {None} \subseteq 1 .. built
         /\ None \notin freed /\ freed \subseteq 1 .. built
<1>1. built \in Nat /\ spawned \in Nat /\ spawned <= built /\ built <= MaxEngines
  <2>1. built \in 0 .. MaxEngines /\ spawned \in 0 .. built
    BY DEF ServiceProofInv, ServiceTypeOK
  <2>2. QED
    BY <2>1, MaxEnginesAssumption
<1>2. engine <= built /\ engine \in 0 .. MaxEngines
  <2>1. engine <= built
    BY DEF ServiceProofInv, ThreadsAreOwned
  <2>2. engine \in (1 .. MaxEngines) \cup {0}
    BY DEF ServiceProofInv, ServiceTypeOK, Engines, None
  <2>3. engine \in 0 .. MaxEngines
    BY <2>2, MaxEnginesAssumption
  <2>4. QED
    BY <2>1, <2>3
<1>3. {engine} \ {None} \subseteq 1 .. built
  BY <1>1, <1>2, MaxEnginesAssumption DEF None
<1>4. freed \subseteq 1 .. built
  BY DEF ServiceProofInv, ServiceTypeOK
<1>5. None \notin freed
  BY <1>1, <1>4 DEF None
<1>6. QED
  BY <1>1, <1>3, <1>4, <1>5

\* And so the engines may be exchanged.
LEMMA EnginesMayBeExchanged ==
  ASSUME ServiceProofInv, thread = None, UNCHANGED <<running, workerAt, workerEngine>>
  PROVE  WorkersRunTheEngine' /\ RunningIsLooping'
<1>1. /\ \A k \in Engines : ~WorkerAlive(k)'
      /\ \A k \in Engines : workerAt'[k] \notin InRun
      /\ \A e \in Engines : ~running'[e]
  BY NobodyLives DEF WorkerAlive
<1>2. \A k \in Engines : workerAt'[k] \in {"unborn", "spawned"} => workerEngine'[k] = None
  BY DEF ServiceProofInv, WorkersRunTheEngine
<1>3. \A k \in Engines : workerAt'[k] # "looping"
  BY <1>1 DEF InRun
<1>4. WorkersRunTheEngine'
  BY <1>1, <1>2, <1>3 DEF WorkersRunTheEngine
<1>5. RunningIsLooping'
  BY <1>1 DEF RunningIsLooping
<1>6. QED
  BY <1>4, <1>5

LEMMA CallerKeepsInv ==
  ASSUME SoleCaller, ServiceProofInv, NEW c \in Callers,
         CallerStep(c) \/ CallStart(c) \/ \E then_start \in BOOLEAN : CallStop(c, then_start)
  PROVE  ServiceProofInv'
<1> USE DEF serviceVars, engineVars, workerVars, callerVars
<1>1. \A d \in Callers : d = c
  BY DEF SoleCaller
<1>2. CASE CallStart(c)
  <2>1. ServiceTypeOK' /\ ~misused'
    BY <1>2
       DEF CallStart, CallerGoes, AfterStop, ServiceProofInv, ServiceTypeOK
  <2>2. ThreadsAreOwned'
    BY <1>2
       DEF CallStart, ThreadsAreOwned, WorkerAlive, ServiceProofInv
  <2>3. CallersKnow'
    BY <1>2, <1>1
       DEF CallStart, CallerGoes, AfterStop, CallersKnow, BringingUp, ServiceProofInv,
           ServiceTypeOK
  <2>4. WorkersRunTheEngine' /\ RunningIsLooping'
    BY <1>2, WorkersUndisturbed
       DEF CallStart, ServiceProofInv
  <2>5. StartingIsTrue'
    BY <1>2, <1>1
       DEF CallStart, CallerGoes, AfterStop, StartingIsTrue, BringingUp, WorkerAlive,
           ServiceProofInv, ServiceTypeOK
  <2>6. QED
    BY <2>1, <2>2, <2>3, <2>4, <2>5 DEF ServiceProofInv
<1>3. CASE \E then_start \in BOOLEAN : CallStop(c, then_start)
  <2>1. ServiceTypeOK' /\ ~misused'
    <3>1. PICK then_start \in BOOLEAN : restarting' = [restarting EXCEPT ![c] = then_start]
      BY <1>3 DEF CallStop
    <3>2. restarting' \in [Callers -> BOOLEAN]
      BY <3>1 DEF ServiceProofInv, ServiceTypeOK
    <3>3. callerAt' = [callerAt EXCEPT ![c] = "stop"]
      BY <1>3 DEF CallStop, CallerGoes
    <3>4. UNCHANGED <<serviceVars, built, freed, engineVars, workerVars, callerEngine, joins,
                      answer, pageEngine, misused>>
      BY <1>3 DEF CallStop
    <3>5. QED
      BY <3>2, <3>3, <3>4 DEF ServiceProofInv, ServiceTypeOK
  <2>2. ThreadsAreOwned'
    BY <1>3
       DEF CallStop, ThreadsAreOwned, WorkerAlive, ServiceProofInv
  <2>3. CallersKnow'
    BY <1>3, <1>1
       DEF CallStop, CallerGoes, AfterStop, CallersKnow, BringingUp, ServiceProofInv,
           ServiceTypeOK
  <2>4. WorkersRunTheEngine' /\ RunningIsLooping'
    BY <1>3, WorkersUndisturbed
       DEF CallStop, ServiceProofInv
  <2>5. StartingIsTrue'
    BY <1>3, <1>1
       DEF CallStop, CallerGoes, AfterStop, StartingIsTrue, BringingUp, WorkerAlive,
           ServiceProofInv, ServiceTypeOK
  <2>6. QED
    BY <2>1, <2>2, <2>3, <2>4, <2>5 DEF ServiceProofInv
<1>4. CASE StopBegins(c)
  <2>1. ServiceTypeOK' /\ ~misused'
    BY <1>4
       DEF StopBegins, CallerGoes, AfterStop, ServiceProofInv, ServiceTypeOK
  <2>2. ThreadsAreOwned'
    BY <1>4
       DEF StopBegins, ThreadsAreOwned, WorkerAlive, ServiceProofInv
  <2>3. CallersKnow'
    BY <1>4, <1>1
       DEF StopBegins, CallerGoes, AfterStop, CallersKnow, BringingUp, ThreadsAreOwned,
           ServiceProofInv, ServiceTypeOK
  <2>4. WorkersRunTheEngine' /\ RunningIsLooping'
    BY <1>4, WorkersUndisturbed
       DEF StopBegins, ServiceProofInv
  <2>5. StartingIsTrue'
    BY <1>4, <1>1
       DEF StopBegins, CallerGoes, AfterStop, StartingIsTrue, BringingUp, WorkerAlive,
           ServiceProofInv, ServiceTypeOK
  <2>6. QED
    BY <2>1, <2>2, <2>3, <2>4, <2>5 DEF ServiceProofInv
<1>5. CASE StopSignals(c)
  <2>1. ServiceTypeOK' /\ ~misused'
    BY <1>5
       DEF StopSignals, CallerGoes, AfterStop, ServiceProofInv, ServiceTypeOK
  <2>2. ThreadsAreOwned'
    BY <1>5
       DEF StopSignals, ThreadsAreOwned, WorkerAlive, ServiceProofInv
  <2>3. CallersKnow'
    BY <1>5, <1>1
       DEF StopSignals, CallerGoes, AfterStop, CallersKnow, BringingUp, ServiceProofInv,
           ServiceTypeOK
  <2>4. WorkersRunTheEngine' /\ RunningIsLooping'
    BY <1>5, WorkersUndisturbed
       DEF StopSignals, ServiceProofInv
  <2>5. StartingIsTrue'
    BY <1>5, <1>1
       DEF StopSignals, CallerGoes, AfterStop, StartingIsTrue, BringingUp, WorkerAlive,
           ServiceProofInv, ServiceTypeOK
  <2>6. QED
    BY <2>1, <2>2, <2>3, <2>4, <2>5 DEF ServiceProofInv
<1>6. CASE StopJoins(c)
  <2>1. ServiceTypeOK' /\ ~misused'
    <3>1. Callers \ {c} = {}
      BY <1>1
    <3>2. misused' = FALSE
      BY <1>6, <3>1 DEF StopJoins, ServiceProofInv, ServiceTypeOK
    <3>3. callerAt' \in [Callers -> {"idle", "stop", "signalling", "joining", "joined",
                                    "resetting", "start", "preparing", "spawning"}]
      BY <1>6 DEF StopJoins, CallerGoes, ServiceProofInv, ServiceTypeOK
    <3>4. joins' = [joins EXCEPT ![c] = thread]
          /\ UNCHANGED <<serviceVars, built, freed, engineVars, workerVars, callerEngine,
                         restarting, answer, pageEngine>>
      BY <1>6 DEF StopJoins
    <3>5. QED
      BY <3>2, <3>3, <3>4 DEF ServiceProofInv, ServiceTypeOK
  <2>2. ThreadsAreOwned'
    BY <1>6
       DEF StopJoins, ThreadsAreOwned, WorkerAlive, ServiceProofInv
  <2>3. CallersKnow'
    BY <1>6, <1>1
       DEF StopJoins, CallerGoes, AfterStop, CallersKnow, BringingUp, ServiceProofInv,
           ServiceTypeOK
  <2>4. WorkersRunTheEngine' /\ RunningIsLooping'
    BY <1>6, WorkersUndisturbed
       DEF StopJoins, ServiceProofInv
  <2>5. StartingIsTrue'
    BY <1>6, <1>1
       DEF StopJoins, CallerGoes, AfterStop, StartingIsTrue, BringingUp, WorkerAlive,
           ServiceProofInv, ServiceTypeOK
  <2>6. QED
    BY <2>1, <2>2, <2>3, <2>4, <2>5 DEF ServiceProofInv
<1>7. CASE StopJoined(c)
  <2>1. ServiceTypeOK' /\ ~misused'
    BY <1>7
       DEF StopJoined, WorkerHasEnded, CallerGoes, AfterStop, ServiceProofInv, ServiceTypeOK
  <2>2. ThreadsAreOwned'
    BY <1>7
       DEF StopJoined, WorkerHasEnded, ThreadsAreOwned, WorkerAlive, ServiceProofInv
  <2>3. CallersKnow'
    BY <1>7, <1>1
       DEF StopJoined, WorkerHasEnded, CallerGoes, AfterStop, CallersKnow, BringingUp,
           ServiceProofInv, ServiceTypeOK
  <2>4. WorkersRunTheEngine' /\ RunningIsLooping'
    BY <1>7, WorkersUndisturbed
       DEF StopJoined, WorkerHasEnded, ServiceProofInv
  <2>5. StartingIsTrue'
    BY <1>7, <1>1
       DEF StopJoined, WorkerHasEnded, CallerGoes, AfterStop, StartingIsTrue, BringingUp,
           WorkerAlive, ServiceProofInv, ServiceTypeOK
  <2>6. QED
    BY <2>1, <2>2, <2>3, <2>4, <2>5 DEF ServiceProofInv
<1>8. CASE StopResets(c)
  <2>1. ServiceTypeOK' /\ ~misused'
    <3>1. callerAt' \in [Callers -> {"idle", "stop", "signalling", "joining", "joined",
                                    "resetting", "start", "preparing", "spawning"}]
      BY <1>8 DEF StopResets, CallerGoes, AfterStop, ServiceProofInv, ServiceTypeOK
    <3>2. /\ engine' = None /\ word' = "stopped" /\ freed' = Destroyed
          /\ UNCHANGED <<thread, built, engineVars, workerVars, callerEngine, joins,
                         restarting, answer, pageEngine, misused>>
      BY <1>8 DEF StopResets
    <3>3. freed' \subseteq 1 .. built
      BY <3>2, OwnedIsBuilt DEF Destroyed, ServiceProofInv, ServiceTypeOK
    <3>4. QED
      BY <3>1, <3>2, <3>3 DEF ServiceProofInv, ServiceTypeOK
  <2>2. ThreadsAreOwned'
    <3>1. engine' = None /\ freed' = Destroyed
          /\ UNCHANGED <<built, spawned, workerAt, thread>>
      BY <1>8 DEF StopResets
    <3>2. engine' \notin freed' /\ engine' <= built'
      BY <3>1, OwnedIsBuilt DEF Destroyed, None
    <3>3. QED
      BY <3>1, <3>2 DEF ThreadsAreOwned, WorkerAlive, ServiceProofInv
  <2>3. CallersKnow'
    BY <1>8, <1>1
       DEF StopResets, Destroyed, CallerGoes, AfterStop, CallersKnow, BringingUp,
           ServiceProofInv, ServiceTypeOK
  <2>4. WorkersRunTheEngine' /\ RunningIsLooping'
    BY <1>8, EnginesMayBeExchanged
       DEF StopResets, Destroyed, ServiceProofInv, CallersKnow, BringingUp
  <2>5. StartingIsTrue'
    BY <1>8, <1>1, NobodyLives
       DEF StopResets, Destroyed, CallerGoes, AfterStop, StartingIsTrue, BringingUp,
           WorkerAlive, ServiceProofInv, ServiceTypeOK, CallersKnow
  <2>6. QED
    BY <2>1, <2>2, <2>3, <2>4, <2>5 DEF ServiceProofInv
<1>9. CASE StartChecks(c)
  <2>1. ServiceTypeOK' /\ ~misused'
    BY <1>9
       DEF StartChecks, NoThread, CallerGoes, AfterStop, ServiceProofInv, ServiceTypeOK
  <2>2. ThreadsAreOwned'
    BY <1>9
       DEF StartChecks, NoThread, ThreadsAreOwned, WorkerAlive, ServiceProofInv
  <2>3. CallersKnow'
    BY <1>9, <1>1
       DEF StartChecks, NoThread, CallerGoes, AfterStop, CallersKnow, BringingUp,
           ServiceProofInv, ServiceTypeOK
  <2>4. WorkersRunTheEngine' /\ RunningIsLooping'
    BY <1>9, WorkersUndisturbed
       DEF StartChecks, NoThread, ServiceProofInv
  <2>5. StartingIsTrue'
    BY <1>9, <1>1, NobodyLives
       DEF StartChecks, NoThread, CallerGoes, AfterStop, StartingIsTrue, BringingUp,
           WorkerAlive, ServiceProofInv, ServiceTypeOK, CallersKnow
  <2>6. QED
    BY <2>1, <2>2, <2>3, <2>4, <2>5 DEF ServiceProofInv
<1>10. CASE StartRefused(c)
  <2>1. ServiceTypeOK' /\ ~misused'
    BY <1>10
       DEF StartRefused, CallerGoes, AfterStop, ServiceProofInv, ServiceTypeOK
  <2>2. ThreadsAreOwned'
    BY <1>10
       DEF StartRefused, ThreadsAreOwned, WorkerAlive, ServiceProofInv
  <2>3. CallersKnow'
    BY <1>10, <1>1
       DEF StartRefused, CallerGoes, AfterStop, CallersKnow, BringingUp, ServiceProofInv,
           ServiceTypeOK
  <2>4. WorkersRunTheEngine' /\ RunningIsLooping'
    BY <1>10, WorkersUndisturbed
       DEF StartRefused, ServiceProofInv
  <2>5. StartingIsTrue'
    BY <1>10, <1>1, NobodyLives
       DEF StartRefused, CallerGoes, AfterStop, StartingIsTrue, BringingUp, WorkerAlive,
           ServiceProofInv, ServiceTypeOK, CallersKnow
  <2>6. QED
    BY <2>1, <2>2, <2>3, <2>4, <2>5 DEF ServiceProofInv
<1>11. CASE StartBuilds(c)
  <2>1. ServiceTypeOK' /\ ~misused'
    <3>1. callerAt' \in [Callers -> {"idle", "stop", "signalling", "joining", "joined",
                                    "resetting", "start", "preparing", "spawning"}]
      BY <1>11 DEF StartBuilds, CallerGoes, ServiceProofInv, ServiceTypeOK
    <3>2. /\ engine' = built + 1 /\ built' = built + 1 /\ freed' = Destroyed
          /\ built < MaxEngines
          /\ UNCHANGED <<thread, word, engineVars, workerVars, callerEngine, joins, restarting,
                         answer, pageEngine, misused>>
      BY <1>11 DEF StartBuilds
    <3>3. freed' \subseteq 1 .. built
      BY <3>2, OwnedIsBuilt DEF Destroyed
    <3>4. built' \in 0 .. MaxEngines /\ spawned \in 0 .. built' /\ engine' \in Engines
      BY <3>2, OwnedIsBuilt, MaxEnginesAssumption DEF Engines
    <3>5. freed' \subseteq 1 .. built'
      BY <3>2, <3>3, OwnedIsBuilt
    <3>6. QED
      BY <3>1, <3>2, <3>4, <3>5 DEF ServiceProofInv, ServiceTypeOK
  <2>2. ThreadsAreOwned'
    <3>1. engine' = built + 1 /\ built' = built + 1 /\ freed' = Destroyed
          /\ UNCHANGED <<spawned, workerAt, thread>>
      BY <1>11 DEF StartBuilds
    <3>2. freed' \subseteq 1 .. built /\ built \in Nat
      BY <3>1, OwnedIsBuilt DEF Destroyed
    <3>3. engine' \notin freed' /\ engine' <= built'
      BY <3>1, <3>2
    <3>4. QED
      BY <3>1, <3>3 DEF ThreadsAreOwned, WorkerAlive, ServiceProofInv
  <2>3. CallersKnow'
    <3>1. thread = None /\ thread' = None
      BY <1>11 DEF StartBuilds, ServiceProofInv, CallersKnow, BringingUp
    <3>2. callerAt'[c] = "spawning"
      BY <1>11 DEF StartBuilds, CallerGoes, ServiceProofInv, ServiceTypeOK
    <3>3. spawned' < built'
      <4>1. spawned' = spawned /\ built' = built + 1
        BY <1>11 DEF StartBuilds
      <4>2. QED
        BY <4>1, OwnedIsBuilt
    <3>4. QED
      BY <1>1, <3>1, <3>2, <3>3 DEF CallersKnow
  <2>4. WorkersRunTheEngine' /\ RunningIsLooping'
    BY <1>11, EnginesMayBeExchanged
       DEF StartBuilds, Destroyed, ServiceProofInv, CallersKnow, BringingUp
  <2>5. StartingIsTrue'
    BY <1>11, <1>1, NobodyLives
       DEF StartBuilds, Destroyed, CallerGoes, AfterStop, StartingIsTrue, BringingUp,
           WorkerAlive, ServiceProofInv, ServiceTypeOK, CallersKnow
  <2>6. QED
    BY <2>1, <2>2, <2>3, <2>4, <2>5 DEF ServiceProofInv
<1>12. CASE StartSpawns(c)
  <2>1. thread = None /\ spawned < built
    BY <1>12 DEF StartSpawns, ServiceProofInv, CallersKnow, BringingUp
  <2>2. PICK k \in Engines : k = spawned + 1
    BY <2>1, OwnedIsBuilt, MaxEnginesAssumption DEF Engines
  <2>3. /\ callerAt[c] = "spawning" /\ callerAt' = [callerAt EXCEPT ![c] = "idle"]
        /\ spawned' = k /\ thread' = k
        /\ workerAt' = [workerAt EXCEPT ![k] = "spawned"]
        /\ answer' = [answer EXCEPT ![c] = TRUE]
        /\ UNCHANGED <<engine, word, built, freed, engineVars, workerEngine, callerEngine,
                       joins, restarting, pageEngine>>
    BY <1>12, <2>2 DEF StartSpawns, CallerGoes, WorkerGoes
  <2>4. misused' = FALSE
    BY <1>12, <2>1 DEF StartSpawns, ServiceProofInv, ServiceTypeOK
  <2>5. workerAt[k] = "unborn"
    BY <2>2, OwnedIsBuilt DEF ServiceProofInv, ThreadsAreOwned
  <2>6. /\ workerAt'[k] = "spawned"
        /\ \A j \in Engines : j # k => workerAt'[j] = workerAt[j]
    BY <2>3 DEF ServiceProofInv, ServiceTypeOK
  <2>7. \A j \in Engines : j # k => ~WorkerAlive(j)' /\ workerAt'[j] \notin InRun
    BY <2>1, <2>6, NobodyLives DEF WorkerAlive
  <2>8. ServiceTypeOK' /\ ~misused'
    <3>1. k \in 0 .. built
      BY <2>1, <2>2, OwnedIsBuilt
    <3>2. /\ workerAt' \in [Engines -> {"unborn", "spawned", "opening", "waiting", "open link",
                                       "open", "looping", "stopped", "failed", "ended"}]
          /\ callerAt' \in [Callers -> {"idle", "stop", "signalling", "joining", "joined",
                                       "resetting", "start", "preparing", "spawning"}]
      BY <2>3 DEF ServiceProofInv, ServiceTypeOK
    <3>3. answer' \in [Callers -> BOOLEAN]
      BY <2>3 DEF ServiceProofInv, ServiceTypeOK
    <3>4. QED
      BY <2>3, <2>4, <3>1, <3>2, <3>3 DEF ServiceProofInv, ServiceTypeOK
  <2>9. ThreadsAreOwned'
    <3>1. \A j \in Engines : WorkerAlive(j)' => j = k
      BY <2>7
    <3>2. \A j \in Engines : j > k => j > spawned /\ j # k
      BY <2>2, OwnedIsBuilt DEF Engines
    <3>3. \A j \in Engines : j > k => workerAt'[j] = "unborn"
      BY <2>6, <3>2 DEF ServiceProofInv, ThreadsAreOwned
    <3>4. QED
      BY <2>3, <3>1, <3>3 DEF ThreadsAreOwned, ServiceProofInv
  <2>10. CallersKnow'
    <3>1. \A d \in Callers : callerAt'[d] = "idle"
      BY <1>1, <2>3 DEF ServiceProofInv, ServiceTypeOK
    <3>2. QED
      BY <3>1 DEF CallersKnow, BringingUp
  <2>11. WorkersRunTheEngine'
    <3>1. workerEngine'[k] = None /\ None \notin freed'
      BY <2>3, <2>5, OwnedIsBuilt DEF ServiceProofInv, WorkersRunTheEngine
    <3>2. \A j \in Engines : workerAt'[j] \in {"unborn", "spawned"} => workerEngine'[j] = None
      BY <2>3, <2>6, <3>1 DEF ServiceProofInv, WorkersRunTheEngine
    <3>3. \A j \in Engines : workerAt'[j] \notin InRun
      BY <2>6, <2>7 DEF InRun
    <3>4. \A j \in Engines : workerAt'[j] # "looping"
      BY <3>3 DEF InRun
    <3>5. \A j \in Engines : WorkerAlive(j)' => workerEngine'[j] \notin freed'
      BY <2>7, <3>1
    <3>6. QED
      BY <3>2, <3>3, <3>4, <3>5 DEF WorkersRunTheEngine
  <2>12. RunningIsLooping'
    BY <2>1, <2>3, NobodyLives DEF RunningIsLooping, engineVars
  <2>13. StartingIsTrue'
    <3>1. word' = "starting"
      BY <2>3 DEF ServiceProofInv, StartingIsTrue, BringingUp
    <3>2. WorkerAlive(k)'
      BY <2>6 DEF WorkerAlive
    <3>3. QED
      BY <3>1, <3>2 DEF StartingIsTrue
  <2>14. QED
    BY <2>8, <2>9, <2>10, <2>11, <2>12, <2>13 DEF ServiceProofInv
<1>13. QED
  BY <1>2, <1>3, <1>4, <1>5, <1>6, <1>7, <1>8, <1>9, <1>10, <1>11, <1>12 DEF CallerStep

LEMMA NextKeepsInv ==
  ASSUME SoleCaller, ServiceProofInv, [ServiceNext]_vars
  PROVE  ServiceProofInv'
<1>1. ASSUME NEW c \in Callers,
             CallerStep(c) \/ CallStart(c) \/ \E then_start \in BOOLEAN : CallStop(c, then_start)
      PROVE  ServiceProofInv'
  BY <1>1, CallerKeepsInv
<1>2. ASSUME NEW k \in Engines, WorkerStep(k) \/ LinkOpenReturns(k)
      PROVE  ServiceProofInv'
  BY <1>2, WorkerKeepsInv
<1>3. CASE PageAsks \/ PageUses \/ UNCHANGED vars
  <2>1. /\ pageEngine' \in Engines \cup {None}
        /\ UNCHANGED <<serviceVars, built, freed, engineVars, workerVars, callerVars, misused>>
    BY <1>3 DEF PageAsks, PageUses, vars, ServiceProofInv, ServiceTypeOK
  <2>2. ServiceTypeOK' /\ ~misused'
    BY <2>1 DEF ServiceProofInv, ServiceTypeOK, serviceVars, engineVars, workerVars, callerVars
  <2>3. ThreadsAreOwned' /\ CallersKnow' /\ WorkersRunTheEngine' /\ RunningIsLooping'
        /\ StartingIsTrue'
    BY <2>1 DEF ServiceProofInv, ThreadsAreOwned, CallersKnow, WorkersRunTheEngine,
                RunningIsLooping, StartingIsTrue, WorkerAlive, serviceVars, engineVars,
                workerVars, callerVars
  <2>4. QED
    BY <2>2, <2>3 DEF ServiceProofInv
<1>4. QED
  BY <1>1, <1>2, <1>3 DEF ServiceNext

LEMMA AlwaysProofInv ==
  ASSUME SoleCaller
  PROVE  ServiceSpec => []ServiceProofInv
<1>1. ServiceInit => ServiceProofInv
  BY InitIsProofInv
<1>2. ServiceProofInv /\ [ServiceNext]_vars => ServiceProofInv'
  BY NextKeepsInv
<1>3. QED
  BY <1>1, <1>2, PTL DEF ServiceSpec

----------------------------------------------------------------------------
(* The theorems *)

(* With one thread that starts and stops, the service's std::thread is     *)
(* never assigned while joinable nor joined twice, and two engines are     *)
(* never on the device at once (service.cpp:51).                           *)
THEOREM ServiceAlwaysInv ==
  ASSUME SoleCaller
  PROVE  ServiceSpec => []ServiceInv
<1>1. ServiceProofInv => ServiceInv
  BY DEF ServiceProofInv, ServiceInv, ThreadIsNeverMisused, OneEngineAtATime, ThreadsAreOwned
<1>2. QED
  BY <1>1, AlwaysProofInv, PTL

(* No engine is destroyed while its worker lives or a stop is about to     *)
(* signal it (service.cpp:136-141).                                        *)
THEOREM EngineOutlivesItsUsers ==
  ASSUME SoleCaller
  PROVE  ServiceSpec => []NoEngineUsedAfterFree
<1>1. ServiceProofInv => NoEngineUsedAfterFree
  BY DEF ServiceProofInv, NoEngineUsedAfterFree, WorkersRunTheEngine, CallersKnow
<1>2. QED
  BY <1>1, AlwaysProofInv, PTL

(* The word the page shows is true of the threads, at every step of        *)
(* starting, running, failing and stopping (service.cpp:33).               *)
THEOREM ReportIsAlwaysTrue ==
  ASSUME SoleCaller
  PROVE  ServiceSpec => []ReportIsTrue
<1>1. ASSUME ServiceProofInv PROVE ReportIsTrue
  <2>1. (\E k \in Engines : workerAt[k] = "looping") => engine # None /\ running[engine]
    BY <1>1 DEF ServiceProofInv, WorkersRunTheEngine, InRun
  <2>2. engine # None /\ running[engine] => \E k \in Engines : workerAt[k] = "looping"
    BY <1>1 DEF ServiceProofInv, ServiceTypeOK, RunningIsLooping
  <2>3. word \in {"stopped", "starting", "failed"}
    BY <1>1 DEF ServiceProofInv, ServiceTypeOK
  <2>4. QED
    BY <1>1, <2>1, <2>2, <2>3
       DEF ServiceProofInv, StartingIsTrue, BringingUp, ReportIsTrue, Reported
<1>2. QED
  BY <1>1, AlwaysProofInv, PTL

----------------------------------------------------------------------------
(* The daemon's control: the invariant *)

\* The fields of what a thread is doing.
IsOp(o) ==
  o = [kind |-> o.kind, at |-> o.at, id |-> o.id, from |-> o.from, sdp |-> o.sdp,
       blocks |-> o.blocks, left |-> o.left, disturbed |-> o.disturbed]

\* What each kind of operation may be at.
PlacesOf(kind) ==
  CASE kind = "commission" -> {"ptp", "publish", "sdp", "browse", "put sink", "poll"}
    [] kind = "publish" -> {"locking", "publish"}
    [] kind = "subscribe" -> {"locking", "sdp", "browse", "put sink"}
    [] kind = "unsubscribe" -> {"locking", "delete"}
    [] kind = "preflight" -> {"locking", "ptp"}
    [] OTHER -> {"locking", "ptp", "sources", "sinks", "statuses", "browse"}

HandlerKinds == {"publish", "subscribe", "unsubscribe", "status", "preflight"}

\* Threads are where their kind of operation goes.
MainIsPlaced ==
  \/ op[Main].kind = "none" /\ op[Main].at \in {"ended", "serving"}
  \/ op[Main].kind = "commission" /\ op[Main].at \in PlacesOf("commission")
HandlersArePlaced ==
  \A t \in Handlers :
    \/ op[t].kind = "none" /\ op[t].at = "idle"
    \/ op[t].kind \in HandlerKinds /\ op[t].at \in PlacesOf(op[t].kind)

\* Only Main works before the server is up, and then only who holds the mutex.
OneAtATime ==
  /\ op[Main].at # "serving" => \A t \in Handlers : op[t].at = "idle"
  /\ \A t \in Handlers : op[t].at \notin {"idle", "locking"} => mutex = t

\* An operation is at a block it has a snapshot of, and knows whose SDP it wants.
OpIsSound(o) ==
  /\ o.disturbed \in BOOLEAN /\ o.id \in Ids
  /\ o.kind \in {"commission", "publish", "subscribe"} =>
       /\ DOMAIN o.blocks = 1 .. Len(o.blocks) /\ Len(o.blocks) \in Ids
       /\ o.id \in 1 .. Len(o.blocks)
  /\ o.kind \in {"publish"} /\ o.at = "locking" => o.id = 1
  /\ o.kind = "commission" /\ o.at = "ptp" => o.id = 1
  /\ o.kind \in {"commission", "subscribe"} =>
       /\ o.from # "self" => Announced[o.from] # Nothing
       /\ o.at = "sdp" => o.from = "self"
       /\ o.at = "browse" => o.from # "self"
  /\ o.kind = "commission" =>
       o.from = IF subscription = "none" THEN "self" ELSE subscription

\* The blocks before o's, or all, have been published.
Published(o, last) == \A i \in 1 .. last : sources[i] = SourceOf(o.blocks[i])
Subscribed(o, last) == \A i \in 1 .. last : IsSubscribed(o, i)

ToSinks == {"sdp", "browse", "put sink", "poll"}

\* What an operation the daemon has survived so far has done.
IsDoneSoFar(o) ==
  /\ o.kind \in {"commission", "publish"} /\ o.at = "publish" => Published(o, o.id - 1)
  /\ o.kind \in {"commission", "subscribe"} /\ o.at = "put sink" =>
       /\ o.sdp # Nothing
       /\ o.sdp = IF o.from = "self" THEN SdpOf(o.id) ELSE Announced[o.from]
  /\ o.kind = "commission" /\ o.at \in ToSinks =>
       /\ subscription # "none" /\ Published(o, Len(o.blocks))
       /\ o.from # "self" => o.id = 1
       /\ Subscribed(o, IF o.at = "poll" THEN o.id ELSE o.id - 1)

RequestInv ==
  /\ config \in Configs /\ subscription \in {"none", "self"} \cup DOMAIN Announced
  /\ op = [t \in Threads |-> op[t]]
  /\ sources = [i \in Ids |-> sources[i]] /\ sinks = [i \in Ids |-> sinks[i]]
  /\ MainIsPlaced /\ HandlersArePlaced /\ OneAtATime
  /\ \A t \in Threads :
       IsOp(op[t]) /\ OpIsSound(op[t]) /\ (~op[t].disturbed => IsDoneSoFar(op[t]))

----------------------------------------------------------------------------
(* How operations move *)

\* What a step may change of an operation.
Moved(o, id, at, sdp, left) ==
  [kind |-> o.kind, at |-> at, id |-> id, from |-> o.from, sdp |-> sdp,
   blocks |-> o.blocks, left |-> left, disturbed |-> o.disturbed]

\* Thread t's operation becomes n, the others stand.
Becomes(t, n) == op' = [u \in Threads |-> IF u = t THEN n ELSE op[u]]

IsTable == op = [t \in Threads |-> op[t]] /\ \A t \in Threads : IsOp(op[t])

LEMMA MovedIsOp ==
  ASSUME NEW o, NEW id, NEW at, NEW sdp, NEW left, NEW n,
         n = Moved(o, id, at, sdp, left)
  PROVE  /\ IsOp(n) /\ n.kind = o.kind /\ n.at = at /\ n.id = id
         /\ n.from = o.from /\ n.sdp = sdp /\ n.blocks = o.blocks /\ n.left = left
         /\ n.disturbed = o.disturbed
BY DEF Moved, IsOp

\* The EXCEPTs of the steps, one field and then several.
LEMMA EditOne ==
  ASSUME NEW o, IsOp(o), NEW x
  PROVE  /\ [o EXCEPT !.at = x] = Moved(o, o.id, x, o.sdp, o.left)
         /\ [o EXCEPT !.id = x] = Moved(o, x, o.at, o.sdp, o.left)
         /\ [o EXCEPT !.sdp = x] = Moved(o, o.id, o.at, x, o.left)
         /\ [o EXCEPT !.left = x] = Moved(o, o.id, o.at, o.sdp, x)
<1>1. PICK kind, from, blocks, disturbed, at, id, sdp, left :
        o = [kind |-> kind, at |-> at, id |-> id, from |-> from, sdp |-> sdp,
             blocks |-> blocks, left |-> left, disturbed |-> disturbed]
  BY DEF IsOp
<1>2. [o EXCEPT !.at = x] = Moved(o, o.id, x, o.sdp, o.left)
  BY <1>1 DEF Moved
<1>3. [o EXCEPT !.id = x] = Moved(o, x, o.at, o.sdp, o.left)
  BY <1>1 DEF Moved
<1>4. [o EXCEPT !.sdp = x] = Moved(o, o.id, o.at, x, o.left)
  BY <1>1 DEF Moved
<1>5. [o EXCEPT !.left = x] = Moved(o, o.id, o.at, o.sdp, x)
  BY <1>1 DEF Moved
<1>6. QED
  BY <1>2, <1>3, <1>4, <1>5

\* Two or three fields at once.
LEMMA EditIdAt ==
  ASSUME NEW o, IsOp(o), NEW id, NEW at
  PROVE  [o EXCEPT !.id = id, !.at = at] = Moved(o, id, at, o.sdp, o.left)
<1>1. PICK o1 : o1 = [o EXCEPT !.id = id]
  OBVIOUS
<1>2. o1 = Moved(o, id, o.at, o.sdp, o.left)
  BY <1>1, EditOne
<1>3. IsOp(o1) /\ [o1 EXCEPT !.at = at] = Moved(o1, o1.id, at, o1.sdp, o1.left)
  BY <1>2, MovedIsOp, EditOne
<1>4. [o EXCEPT !.id = id, !.at = at] = [o1 EXCEPT !.at = at]
  BY <1>1
<1>5. QED
  BY <1>2, <1>3, <1>4 DEF Moved

LEMMA EditSdpAt ==
  ASSUME NEW o, IsOp(o), NEW sdp, NEW at
  PROVE  [o EXCEPT !.sdp = sdp, !.at = at] = Moved(o, o.id, at, sdp, o.left)
<1>1. PICK o1 : o1 = [o EXCEPT !.sdp = sdp]
  OBVIOUS
<1>2. o1 = Moved(o, o.id, o.at, sdp, o.left)
  BY <1>1, EditOne
<1>3. IsOp(o1) /\ [o1 EXCEPT !.at = at] = Moved(o1, o1.id, at, o1.sdp, o1.left)
  BY <1>2, MovedIsOp, EditOne
<1>4. [o EXCEPT !.sdp = sdp, !.at = at] = [o1 EXCEPT !.at = at]
  BY <1>1
<1>5. QED
  BY <1>2, <1>3, <1>4 DEF Moved

LEMMA EditAtLeft ==
  ASSUME NEW o, IsOp(o), NEW at, NEW left
  PROVE  [o EXCEPT !.at = at, !.left = left] = Moved(o, o.id, at, o.sdp, left)
<1>1. PICK o1 : o1 = [o EXCEPT !.at = at]
  OBVIOUS
<1>2. o1 = Moved(o, o.id, at, o.sdp, o.left)
  BY <1>1, EditOne
<1>3. IsOp(o1) /\ [o1 EXCEPT !.left = left] = Moved(o1, o1.id, o1.at, o1.sdp, left)
  BY <1>2, MovedIsOp, EditOne
<1>4. [o EXCEPT !.at = at, !.left = left] = [o1 EXCEPT !.left = left]
  BY <1>1
<1>5. QED
  BY <1>2, <1>3, <1>4 DEF Moved

LEMMA EditLeftAt ==
  ASSUME NEW o, IsOp(o), NEW left, NEW at
  PROVE  [o EXCEPT !.left = left, !.at = at] = Moved(o, o.id, at, o.sdp, left)
<1>1. PICK o1 : o1 = [o EXCEPT !.left = left]
  OBVIOUS
<1>2. o1 = Moved(o, o.id, o.at, o.sdp, left)
  BY <1>1, EditOne
<1>3. IsOp(o1) /\ [o1 EXCEPT !.at = at] = Moved(o1, o1.id, at, o1.sdp, o1.left)
  BY <1>2, MovedIsOp, EditOne
<1>4. [o EXCEPT !.left = left, !.at = at] = [o1 EXCEPT !.at = at]
  BY <1>1
<1>5. QED
  BY <1>2, <1>3, <1>4 DEF Moved

LEMMA BecomesOne ==
  ASSUME IsTable, NEW t \in Threads, NEW n, op' = [op EXCEPT ![t] = n]
  PROVE  Becomes(t, n)
BY DEF IsTable, Becomes

\* A lock, an answer and the end of the work for the others.
LEMMA BecomesAt ==
  ASSUME IsTable, NEW t \in Threads, NEW n, Becomes(t, n)
  PROVE  /\ op' = [u \in Threads |-> op'[u]] /\ op'[t] = n
         /\ \A u \in Threads : u # t => op'[u] = op[u]
BY DEF Becomes

----------------------------------------------------------------------------
(* One operation works at a time *)

\* A waiting operation has nothing to show for itself yet.
Waits(o) == o.kind = "none" \/ o.at = "locking"

LEMMA OthersWait ==
  ASSUME RequestInv, NEW t \in Threads, ~Waits(op[t])
  PROVE  /\ \A u \in Threads : u # t => Waits(op[u])
         /\ t = Main => \A u \in Handlers : op[u].kind = "none" /\ op[u].at = "idle"
         /\ t # Main => op[Main].at = "serving" /\ op[Main].kind = "none" /\ mutex = t
         /\ \A u \in Handlers : u # t => op[u].at \in {"idle", "locking"}
<1>1. Main \notin Handlers /\ t \in Handlers \cup {Main}
  BY ThreadsAssumption DEF Threads
<1>2. \A u \in Handlers : op[u].at = "idle" => op[u].kind = "none"
  BY DEF RequestInv, HandlersArePlaced, PlacesOf, HandlerKinds
<1>3. CASE t = Main
  <2>1. op[Main].at # "serving"
    BY <1>3 DEF RequestInv, MainIsPlaced, PlacesOf, Waits
  <2>2. \A u \in Handlers : op[u].at = "idle"
    BY <2>1 DEF RequestInv, OneAtATime
  <2>3. QED
    BY <1>1, <1>2, <1>3, <2>2 DEF Waits, Threads
<1>4. CASE t \in Handlers
  <2>1. op[t].at \notin {"idle", "locking"}
    BY <1>2, <1>4 DEF Waits
  <2>2. mutex = t /\ op[Main].at = "serving"
    BY <1>4, <2>1 DEF RequestInv, OneAtATime
  <2>3. op[Main].kind = "none"
    BY <2>2 DEF RequestInv, MainIsPlaced, PlacesOf
  <2>4. \A u \in Handlers : u # t => op[u].at \in {"idle", "locking"}
    BY <2>2 DEF RequestInv, OneAtATime
  <2>5. QED
    BY <1>1, <1>2, <1>4, <2>2, <2>3, <2>4 DEF Waits, Threads
<1>5. QED
  BY <1>1, <1>3, <1>4

\* What holds of any operation by waiting, or by not having been looked at.
LEMMA SoundStays ==
  ASSUME NEW o, OpIsSound(o), subscription' = subscription
  PROVE  OpIsSound(o)'
BY DEF OpIsSound

LEMMA OthersStay ==
  ASSUME RequestInv, NEW t \in Threads, ~Waits(op[t]), NEW n, Becomes(t, n),
         NEW u \in Threads, u # t, subscription' = subscription
  PROVE  /\ op'[u] = op[u] /\ IsOp(op[u])
         /\ OpIsSound(op[u])' /\ IsDoneSoFar(op[u])'
<1>1. op'[u] = op[u]
  BY DEF Becomes
<1>2. IsOp(op[u]) /\ OpIsSound(op[u]) /\ Waits(op[u])
  BY OthersWait DEF RequestInv
<1>3. PICK o : o = op[u]
  OBVIOUS
<1>4. OpIsSound(o)'
  BY <1>2, <1>3, SoundStays
<1>5. o.kind = "none" \/ o.at = "locking"
  BY <1>2, <1>3 DEF Waits
<1>6. IsDoneSoFar(o)'
  BY <1>5 DEF IsDoneSoFar, ToSinks
<1>7. o = op'[u]
  BY <1>1, <1>3
<1>8. QED
  BY <1>1, <1>2, <1>4, <1>6, <1>7

\* A step of the thread that works, to n.
LEMMA StepKeepsInv ==
  ASSUME RequestInv, NEW t \in Threads, ~Waits(op[t]), NEW n, Becomes(t, n),
         IsOp(n), n.kind = op[t].kind,
         n.at \in PlacesOf(n.kind) \ {"locking"},
         OpIsSound(n), ~n.disturbed => IsDoneSoFar(n)',
         sources' = [i \in Ids |-> sources'[i]], sinks' = [i \in Ids |-> sinks'[i]],
         UNCHANGED <<asked, config, mutex>>
  PROVE  RequestInv'
<1>1. subscription' = subscription /\ config' = config /\ mutex' = mutex
  BY DEF asked
<1>2. /\ op' = [u \in Threads |-> op'[u]] /\ op'[t] = n
      /\ \A u \in Threads : u # t => op'[u] = op[u]
  BY DEF Becomes
<1>3. /\ Main \in Threads /\ Handlers \subseteq Threads /\ Main \notin Handlers
      /\ t \in Handlers \cup {Main}
  BY ThreadsAssumption DEF Threads
<1>4. MainIsPlaced'
  <2>1. CASE t = Main
    <3>1. n.kind = "commission"
      BY <2>1 DEF RequestInv, MainIsPlaced, Waits
    <3>2. QED
      BY <1>2, <2>1, <3>1 DEF MainIsPlaced, PlacesOf
  <2>2. CASE t # Main
    BY <1>2, <1>3, <2>2 DEF RequestInv, MainIsPlaced, PlacesOf
  <2>3. QED
    BY <2>1, <2>2
<1>5. HandlersArePlaced'
  <2> SUFFICES ASSUME NEW u \in Handlers
               PROVE  \/ op'[u].kind = "none" /\ op'[u].at = "idle"
                      \/ op'[u].kind \in HandlerKinds /\ op'[u].at \in PlacesOf(op'[u].kind)
    BY DEF HandlersArePlaced, HandlerKinds, PlacesOf
  <2>1. CASE u = t
    <3>1. n.kind \in HandlerKinds
      BY <2>1 DEF RequestInv, HandlersArePlaced, Waits
    <3>2. QED
      BY <1>2, <2>1, <3>1
  <2>2. CASE u # t
    BY <1>2, <1>3, <2>2 DEF RequestInv, HandlersArePlaced
  <2>3. QED
    BY <2>1, <2>2
<1>6. OneAtATime'
  <2>1. CASE t = Main
    BY <1>1, <1>2, <1>3, <2>1, OthersWait DEF OneAtATime
  <2>2. CASE t # Main
    <3>1. op[Main].at = "serving" /\ mutex = t
      BY <2>2, OthersWait
    <3>2. op'[Main].at = "serving"
      BY <1>2, <1>3, <2>2, <3>1
    <3>3. \A u \in Handlers : u # t => op'[u].at \in {"idle", "locking"}
      BY <1>2, <1>3, OthersWait
    <3>4. QED
      BY <1>1, <3>1, <3>2, <3>3 DEF OneAtATime
  <2>3. QED
    BY <2>1, <2>2
<1>7. ASSUME NEW u \in Threads
      PROVE  /\ IsOp(op'[u]) /\ OpIsSound(op[u])'
             /\ (~op'[u].disturbed => IsDoneSoFar(op[u])')
  <2>1. CASE u = t
    <3>1. OpIsSound(n)'
      BY <1>1, SoundStays
    <3>2. n = op'[u]
      BY <1>2, <2>1
    <3>3. QED
      BY <3>1, <3>2
  <2>2. CASE u # t
    BY <1>1, <1>2, <2>2, OthersStay
  <2>3. QED
    BY <2>1, <2>2
<1>8. config' \in Configs /\ subscription' \in {"none", "self"} \cup DOMAIN Announced
  BY <1>1 DEF RequestInv
<1>9. \A u \in Threads : IsOp(op'[u])
  BY <1>7
<1>10. QED
  BY <1>2, <1>4, <1>5, <1>6, <1>7, <1>8, <1>9 DEF RequestInv, IsOp

\* The operation ends: its thread is free, and so is the mutex.
LEMMA FinishBecomes ==
  ASSUME RequestInv, NEW t \in Threads, NEW said, Finishes(t, said)
  PROVE  /\ reply' = said
         /\ t # Main => mutex' = Nothing
         /\ \E n : /\ Becomes(t, n) /\ IsOp(n) /\ n.kind = "none" /\ n.id = 1
                   /\ n.disturbed = FALSE
                   /\ t = Main => n.at \in {"ended", "serving"}
                   /\ t # Main => n.at = "idle"
<1>1. op = [u \in Threads |-> op[u]] /\ IsTable
  BY DEF RequestInv, IsTable
<1>2. IsOp(Idle) /\ Idle.kind = "none" /\ Idle.id = 1 /\ Idle.disturbed = FALSE
      /\ Idle.at = "idle"
  BY DEF Idle, IsOp
<1>3. CASE t = Main
  <2>1. PICK at \in {"ended", "serving"} : op' = [op EXCEPT ![Main] = [Idle EXCEPT !.at = at]]
    BY <1>3 DEF Finishes
  <2>2. PICK n : n = [Idle EXCEPT !.at = at]
    OBVIOUS
  <2>3. n = Moved(Idle, Idle.id, at, Idle.sdp, Idle.left)
    BY <1>2, <2>2, EditOne
  <2>4. /\ IsOp(n) /\ n.kind = "none" /\ n.at = at /\ n.id = 1 /\ n.disturbed = FALSE
    BY <1>2, <2>3, MovedIsOp
  <2>5. Becomes(t, n)
    BY <1>1, <1>3, <2>1, <2>2, BecomesOne
  <2>6. QED
    BY <1>3, <2>4, <2>5 DEF Finishes
<1>4. CASE t # Main
  <2>1. op' = [op EXCEPT ![t] = Idle]
    BY <1>4 DEF Finishes
  <2>2. PICK n : n = Idle
    OBVIOUS
  <2>3. Becomes(t, n)
    BY <1>1, <2>1, <2>2, BecomesOne
  <2>4. QED
    BY <1>2, <1>4, <2>2, <2>3 DEF Finishes
<1>5. QED
  BY <1>3, <1>4

LEMMA FinishKeepsInv ==
  ASSUME RequestInv, NEW t \in Threads, ~Waits(op[t]), NEW said, Finishes(t, said),
         sources' = [i \in Ids |-> sources'[i]], sinks' = [i \in Ids |-> sinks'[i]],
         UNCHANGED <<asked, config>>
  PROVE  RequestInv'
<1>1. subscription' = subscription /\ config' = config
  BY DEF asked
<1>2. PICK n : /\ Becomes(t, n) /\ IsOp(n) /\ n.kind = "none" /\ n.id = 1
               /\ n.disturbed = FALSE
               /\ t = Main => n.at \in {"ended", "serving"}
               /\ t # Main => n.at = "idle"
  BY FinishBecomes
<1>3. /\ op' = [u \in Threads |-> op'[u]] /\ op'[t] = n
      /\ \A u \in Threads : u # t => op'[u] = op[u]
  BY <1>2 DEF Becomes
<1>4. /\ Main \in Threads /\ Handlers \subseteq Threads /\ Main \notin Handlers
      /\ t \in Handlers \cup {Main}
  BY ThreadsAssumption DEF Threads
<1>5. MainIsPlaced'
  <2>1. CASE t = Main
    BY <1>2, <1>3, <2>1 DEF MainIsPlaced, PlacesOf
  <2>2. CASE t # Main
    BY <1>3, <1>4, <2>2 DEF RequestInv, MainIsPlaced, PlacesOf
  <2>3. QED
    BY <2>1, <2>2
<1>6. HandlersArePlaced'
  <2> SUFFICES ASSUME NEW u \in Handlers
               PROVE  \/ op'[u].kind = "none" /\ op'[u].at = "idle"
                      \/ op'[u].kind \in HandlerKinds /\ op'[u].at \in PlacesOf(op'[u].kind)
    BY DEF HandlersArePlaced, HandlerKinds, PlacesOf
  <2>1. CASE u = t
    BY <1>2, <1>3, <1>4, <2>1
  <2>2. CASE u # t
    BY <1>3, <1>4, <2>2 DEF RequestInv, HandlersArePlaced
  <2>3. QED
    BY <2>1, <2>2
<1>7. OneAtATime'
  <2>1. CASE t = Main
    BY <1>3, <1>4, <2>1, OthersWait DEF OneAtATime
  <2>2. CASE t # Main
    <3>1. op'[Main].at = "serving"
      BY <1>3, <1>4, <2>2, OthersWait
    <3>2. \A u \in Handlers : op'[u].at \in {"idle", "locking"}
      BY <1>2, <1>3, <1>4, <2>2, OthersWait
    <3>3. QED
      BY <3>1, <3>2 DEF OneAtATime
  <2>3. QED
    BY <2>1, <2>2
<1>8. ASSUME NEW u \in Threads
      PROVE  /\ IsOp(op'[u]) /\ OpIsSound(op[u])'
             /\ (~op'[u].disturbed => IsDoneSoFar(op[u])')
  <2>1. CASE u = t
    <3>1. n.kind = "none" /\ n.disturbed \in BOOLEAN /\ n.id \in Ids
      <4>1. 1 \in Ids
        BY DEF Ids
      <4>2. QED
        BY <1>2, <4>1, Zenon
    <3>2. OpIsSound(n)'
      BY <3>1, Zenon DEF OpIsSound
    <3>3. IsDoneSoFar(n)'
      BY <3>1, Zenon DEF IsDoneSoFar
    <3>4. n = op'[u]
      BY <1>3, <2>1
    <3>5. QED
      BY <1>2, <3>2, <3>3, <3>4
  <2>2. CASE u # t
    BY <1>1, <1>2, <1>3, <2>2, OthersStay
  <2>3. QED
    BY <2>1, <2>2
<1>9. config' \in Configs /\ subscription' \in {"none", "self"} \cup DOMAIN Announced
  BY <1>1 DEF RequestInv
<1>10. QED
  BY <1>3, <1>5, <1>6, <1>7, <1>8, <1>9 DEF RequestInv, IsOp

\* The steps' EXCEPTs on the table of all threads.
LEMMA OpEdits ==
  ASSUME IsTable, NEW t \in Threads, NEW at, NEW id, NEW sdp, NEW left
  PROVE  /\ op' = [op EXCEPT ![t].at = at]
              => Becomes(t, Moved(op[t], op[t].id, at, op[t].sdp, op[t].left))
         /\ op' = [op EXCEPT ![t].id = id]
              => Becomes(t, Moved(op[t], id, op[t].at, op[t].sdp, op[t].left))
         /\ op' = [op EXCEPT ![t].left = left]
              => Becomes(t, Moved(op[t], op[t].id, op[t].at, op[t].sdp, left))
         /\ op' = [op EXCEPT ![t].id = id, ![t].at = at]
              => Becomes(t, Moved(op[t], id, at, op[t].sdp, op[t].left))
         /\ op' = [op EXCEPT ![t].sdp = sdp, ![t].at = at]
              => Becomes(t, Moved(op[t], op[t].id, at, sdp, op[t].left))
         /\ op' = [op EXCEPT ![t].at = at, ![t].left = left]
              => Becomes(t, Moved(op[t], op[t].id, at, op[t].sdp, left))
         /\ op' = [op EXCEPT ![t].left = left, ![t].at = at]
              => Becomes(t, Moved(op[t], op[t].id, at, op[t].sdp, left))
         /\ op' = [op EXCEPT ![t].id = id, ![t].at = at, ![t].left = left]
              => Becomes(t, Moved(op[t], id, at, op[t].sdp, left))
<1>1. op = [u \in Threads |-> op[u]] /\ IsOp(op[t])
  BY DEF IsTable
<1>2. PICK o : o = op[t]
  OBVIOUS
<1>3. IsOp(o)
  BY <1>1, <1>2
<1>5. op' = [op EXCEPT ![t].at = at]
        => Becomes(t, Moved(o, o.id, at, o.sdp, o.left))
  <2>1. [op EXCEPT ![t].at = at]
          = [u \in Threads |-> IF u = t THEN [o EXCEPT !.at = at] ELSE op[u]]
    BY <1>1, <1>2
  <2>2. [o EXCEPT !.at = at] = Moved(o, o.id, at, o.sdp, o.left)
    BY <1>3, EditOne
  <2>3. QED
    BY <2>1, <2>2 DEF Becomes
<1>6. op' = [op EXCEPT ![t].id = id]
        => Becomes(t, Moved(o, id, o.at, o.sdp, o.left))
  <2>1. [op EXCEPT ![t].id = id]
          = [u \in Threads |-> IF u = t THEN [o EXCEPT !.id = id] ELSE op[u]]
    BY <1>1, <1>2
  <2>2. [o EXCEPT !.id = id] = Moved(o, id, o.at, o.sdp, o.left)
    BY <1>3, EditOne
  <2>3. QED
    BY <2>1, <2>2 DEF Becomes
<1>7. op' = [op EXCEPT ![t].left = left]
        => Becomes(t, Moved(o, o.id, o.at, o.sdp, left))
  <2>1. [op EXCEPT ![t].left = left]
          = [u \in Threads |-> IF u = t THEN [o EXCEPT !.left = left] ELSE op[u]]
    BY <1>1, <1>2
  <2>2. [o EXCEPT !.left = left] = Moved(o, o.id, o.at, o.sdp, left)
    BY <1>3, EditOne
  <2>3. QED
    BY <2>1, <2>2 DEF Becomes
<1>8. op' = [op EXCEPT ![t].id = id, ![t].at = at]
        => Becomes(t, Moved(o, id, at, o.sdp, o.left))
  <2>1. [op EXCEPT ![t].id = id, ![t].at = at]
          = [u \in Threads |-> IF u = t THEN [o EXCEPT !.id = id, !.at = at] ELSE op[u]]
    BY <1>1, <1>2
  <2>2. [o EXCEPT !.id = id, !.at = at] = Moved(o, id, at, o.sdp, o.left)
    BY <1>3, EditIdAt
  <2>3. QED
    BY <2>1, <2>2 DEF Becomes
<1>9. op' = [op EXCEPT ![t].sdp = sdp, ![t].at = at]
        => Becomes(t, Moved(o, o.id, at, sdp, o.left))
  <2>1. [op EXCEPT ![t].sdp = sdp, ![t].at = at]
          = [u \in Threads |-> IF u = t THEN [o EXCEPT !.sdp = sdp, !.at = at] ELSE op[u]]
    BY <1>1, <1>2
  <2>2. [o EXCEPT !.sdp = sdp, !.at = at] = Moved(o, o.id, at, sdp, o.left)
    BY <1>3, EditSdpAt
  <2>3. QED
    BY <2>1, <2>2 DEF Becomes
<1>10. op' = [op EXCEPT ![t].at = at, ![t].left = left]
        => Becomes(t, Moved(o, o.id, at, o.sdp, left))
  <2>1. [op EXCEPT ![t].at = at, ![t].left = left]
          = [u \in Threads |-> IF u = t THEN [o EXCEPT !.at = at, !.left = left] ELSE op[u]]
    BY <1>1, <1>2
  <2>2. [o EXCEPT !.at = at, !.left = left] = Moved(o, o.id, at, o.sdp, left)
    BY <1>3, EditAtLeft
  <2>3. QED
    BY <2>1, <2>2 DEF Becomes
<1>11. op' = [op EXCEPT ![t].left = left, ![t].at = at]
        => Becomes(t, Moved(o, o.id, at, o.sdp, left))
  <2>1. [op EXCEPT ![t].left = left, ![t].at = at]
          = [u \in Threads |-> IF u = t THEN [o EXCEPT !.left = left, !.at = at] ELSE op[u]]
    BY <1>1, <1>2
  <2>2. [o EXCEPT !.left = left, !.at = at] = Moved(o, o.id, at, o.sdp, left)
    BY <1>3, EditLeftAt
  <2>3. QED
    BY <2>1, <2>2 DEF Becomes
<1>12. op' = [op EXCEPT ![t].id = id, ![t].at = at, ![t].left = left]
        => Becomes(t, Moved(o, id, at, o.sdp, left))
  <2>1. [op EXCEPT ![t].id = id, ![t].at = at, ![t].left = left]
          = [u \in Threads |->
               IF u = t THEN [o EXCEPT !.id = id, !.at = at, !.left = left] ELSE op[u]]
    BY <1>1, <1>2
  <2>2. [o EXCEPT !.id = id, !.at = at, !.left = left] = Moved(o, id, at, o.sdp, left)
    <3>1. PICK o1 : o1 = [o EXCEPT !.id = id, !.at = at]
      OBVIOUS
    <3>2. o1 = Moved(o, id, at, o.sdp, o.left)
      BY <1>3, <3>1, EditIdAt
    <3>3. IsOp(o1) /\ [o1 EXCEPT !.left = left] = Moved(o1, o1.id, o1.at, o1.sdp, left)
      BY <3>2, MovedIsOp, EditOne
    <3>4. [o EXCEPT !.id = id, !.at = at, !.left = left] = [o1 EXCEPT !.left = left]
      BY <3>1
    <3>5. QED
      BY <3>2, <3>3, <3>4 DEF Moved
  <2>3. QED
    BY <2>1, <2>2 DEF Becomes
<1>13. QED
  BY <1>2, <1>5, <1>6, <1>7, <1>8, <1>9, <1>10, <1>11, <1>12

\* A step of t, which was at operation o: the invariant, and the promise if it ends.
KeepsFaith(t, o) ==
  /\ RequestInv'
  /\ \A u \in Threads : u # t => op'[u] = op[u]
  /\ op'[t].kind = "none" /\ reply' = "yes" /\ ~o.disturbed => Promises(o)'

TablesStay ==
  sources' = [i \in Ids |-> sources'[i]] /\ sinks' = [i \in Ids |-> sinks'[i]]

LEMMA IdsReachDown ==
  ASSUME NEW n \in Ids, NEW i \in 1 .. n
  PROVE  i \in Ids
BY DEF Ids

\* n is operation o, further on.
Continues(o, n) ==
  /\ IsOp(n) /\ n.kind = o.kind /\ n.from = o.from /\ n.blocks = o.blocks
  /\ n.disturbed = o.disturbed
  /\ n.at \in PlacesOf(o.kind) \ {"locking", "ptp"}
  /\ n.id = o.id \/ (o.kind \in {"commission", "publish"} /\ n.id \in 1 .. Len(o.blocks))
  /\ o.kind \in {"commission", "subscribe"} =>
       (n.at = "sdp" => o.from = "self") /\ (n.at = "browse" => o.from # "self")

\* An operation that moves on is as sound as it was.
LEMMA MovedIsSound ==
  ASSUME NEW o, OpIsSound(o), NEW n, Continues(o, n)
  PROVE  OpIsSound(n)
<1>1. /\ n.kind = o.kind /\ n.from = o.from /\ n.blocks = o.blocks
      /\ n.disturbed = o.disturbed /\ n.at \notin {"locking", "ptp"}
  BY DEF Continues
<1>2. n.id \in Ids
  <2>1. CASE n.id = o.id
    BY <2>1 DEF OpIsSound
  <2>2. CASE o.kind \in {"commission", "publish"} /\ n.id \in 1 .. Len(o.blocks)
    <3>1. Len(o.blocks) \in Ids
      BY <2>2, Zenon DEF OpIsSound
    <3>2. QED
      BY <2>2, <3>1, IdsReachDown
  <2>3. QED
    BY <2>1, <2>2 DEF Continues
<1>3. o.kind \in {"commission", "publish", "subscribe"} => n.id \in 1 .. Len(o.blocks)
  BY DEF OpIsSound, Continues
<1>4. o.kind \in {"commission", "subscribe"} =>
        (n.at = "sdp" => o.from = "self") /\ (n.at = "browse" => o.from # "self")
  BY DEF Continues
<1>5. QED
  BY <1>1, <1>2, <1>3, <1>4, Zenon DEF OpIsSound

LEMMA MovesOn ==
  ASSUME RequestInv, NEW t \in Threads, NEW o, o = op[t], ~Waits(o),
         NEW n, Becomes(t, n), Continues(o, n), ~o.disturbed => IsDoneSoFar(n)',
         TablesStay, UNCHANGED <<asked, config, mutex>>
  PROVE  KeepsFaith(t, o)
<1>1. /\ IsOp(n) /\ n.kind = o.kind /\ n.disturbed = o.disturbed
      /\ n.at \in PlacesOf(n.kind) \ {"locking"}
  BY DEF Continues
<1>2. OpIsSound(o)
  BY DEF RequestInv
<1>3. OpIsSound(n)
  BY <1>2, MovedIsSound
<1>4. RequestInv'
  BY <1>1, <1>3, StepKeepsInv DEF TablesStay
<1>5. /\ op'[t].kind = o.kind /\ o.kind # "none"
      /\ \A u \in Threads : u # t => op'[u] = op[u]
  BY <1>1 DEF Becomes, Waits
<1>6. QED
  BY <1>4, <1>5 DEF KeepsFaith

LEMMA EndsInNo ==
  ASSUME RequestInv, NEW t \in Threads, NEW o, o = op[t], ~Waits(o),
         NEW said, said # "yes", Finishes(t, said), TablesStay, UNCHANGED <<asked, config>>
  PROVE  KeepsFaith(t, o)
<1>1. RequestInv'
  BY FinishKeepsInv DEF TablesStay
<1>2. reply' # "yes" /\ \E n : Becomes(t, n)
  BY FinishBecomes
<1>3. \A u \in Threads : u # t => op'[u] = op[u]
  BY <1>2 DEF Becomes
<1>4. QED
  BY <1>1, <1>2, <1>3 DEF KeepsFaith

LEMMA EndsInYes ==
  ASSUME RequestInv, NEW t \in Threads, NEW o, o = op[t], ~Waits(o),
         NEW said, Finishes(t, said), TablesStay, UNCHANGED <<asked, config>>,
         ~o.disturbed => Promises(o)'
  PROVE  KeepsFaith(t, o)
<1>1. RequestInv'
  BY FinishKeepsInv DEF TablesStay
<1>2. \E n : Becomes(t, n)
  BY FinishBecomes
<1>3. \A u \in Threads : u # t => op'[u] = op[u]
  BY <1>2 DEF Becomes
<1>4. QED
  BY <1>1, <1>3 DEF KeepsFaith

\* Which operations can be at a step of the work.
LEMMA WhoIsAt ==
  ASSUME RequestInv, NEW t \in Threads, NEW o, o = op[t],
         o.at \notin {"idle", "locking", "ended", "serving"}
  PROVE  /\ ~Waits(o) /\ IsOp(o) /\ OpIsSound(o) /\ (~o.disturbed => IsDoneSoFar(o))
         /\ o.at \in PlacesOf(o.kind)
         /\ t = Main <=> o.kind = "commission"
         /\ o.kind \in HandlerKinds \cup {"commission"}
<1>1. t = Main \/ (t # Main /\ t \in Handlers)
  BY DEF Threads
<1>2. CASE t = Main
  BY <1>2 DEF RequestInv, MainIsPlaced, Waits
<1>3. CASE t # Main /\ t \in Handlers
  <2>1. o.kind \in HandlerKinds /\ o.at \in PlacesOf(o.kind)
    BY <1>3 DEF RequestInv, HandlersArePlaced
  <2>2. o.kind # "commission" /\ o.kind # "none"
    BY <2>1 DEF HandlerKinds
  <2>3. QED
    BY <1>3, <2>1, <2>2 DEF RequestInv, Waits
<1>4. QED
  BY <1>1, <1>2, <1>3

----------------------------------------------------------------------------
(* Each step of the work *)

\* Tables and preflight promise nothing.
LEMMA PromisesNothing ==
  ASSUME NEW o, o.kind \in {"status", "preflight"}
  PROVE  Promises(o)' /\ IsDoneSoFar(o)'
<1>1. Promises(o)'
  BY DEF Promises
<1>2. IsDoneSoFar(o)'
  BY DEF IsDoneSoFar
<1>3. QED
  BY <1>1, <1>2

\* What was published and subscribed stands while the daemon is not written to.
LEMMA WorkStands ==
  ASSUME NEW o, NEW n, n.blocks = o.blocks, n.from = o.from, NEW k,
         sources' = sources, sinks' = sinks
  PROVE  /\ Published(o, k) => Published(n, k)'
         /\ Subscribed(o, k) => Subscribed(n, k)'
<1>1. Published(o, k) => Published(n, k)'
  BY DEF Published
<1>2. ASSUME NEW i, IsSubscribed(o, i)  PROVE IsSubscribed(n, i)'
  BY <1>2 DEF IsSubscribed, SdpOf
<1>3. Subscribed(o, k) => Subscribed(n, k)'
  BY <1>2 DEF Subscribed
<1>4. QED
  BY <1>1, <1>3

LEMMA AsksPtpKeepsFaith ==
  ASSUME RequestInv, NEW t \in Threads, NEW o, o = op[t], AsksPtp(t)
  PROVE  KeepsFaith(t, o)
<1>1. o.at = "ptp" /\ TablesStay /\ UNCHANGED <<asked, config>>
  BY DEF AsksPtp, TablesStay, RequestInv, daemonVars
<1>2. /\ ~Waits(o) /\ OpIsSound(o) /\ o.at \in PlacesOf(o.kind)
      /\ o.kind \in HandlerKinds \cup {"commission"}
  BY <1>1, WhoIsAt
<1>3. o.kind \in {"preflight", "status", "commission"}
  BY <1>1, <1>2 DEF PlacesOf, HandlerKinds
<1>4. IsTable
  BY DEF RequestInv, IsTable
<1>5. PICK r \in Outcomes :
        CASE o.kind = "preflight" -> Finishes(t, r)
          [] o.kind = "status" -> Goes(t, "sources")
          [] o.kind = "commission" /\ r = "yes" -> Goes(t, "publish")
          [] OTHER -> Finishes(t, "no")
  BY DEF AsksPtp
<1>6. CASE o.kind = "preflight"
  <2>1. Finishes(t, r)
    BY <1>5, <1>6
  <2>2. Promises(o)'
    BY <1>6, PromisesNothing
  <2>3. QED
    BY <1>1, <1>2, <2>1, <2>2, EndsInYes
<1>7. CASE o.kind = "status"
  <2>1. Goes(t, "sources")
    BY <1>5, <1>7
  <2>2. PICK n : n = Moved(o, o.id, "sources", o.sdp, o.left)
    OBVIOUS
  <2>3. Becomes(t, n) /\ mutex' = mutex
    BY <1>4, <2>1, <2>2, OpEdits DEF Goes, Proceeds
  <2>4. n.kind = "status"
    BY <1>7, <2>2, MovedIsOp
  <2>5. IsDoneSoFar(n)'
    BY <2>4, PromisesNothing
  <2>6. Continues(o, n)
    <3>1. /\ IsOp(n) /\ n.kind = o.kind /\ n.from = o.from /\ n.blocks = o.blocks
          /\ n.disturbed = o.disturbed /\ n.at = "sources" /\ n.id = o.id
      BY <2>2, MovedIsOp
    <3>2. QED
      BY <1>7, <3>1 DEF Continues, PlacesOf
  <2>7. QED
    BY <1>1, <1>2, <2>3, <2>5, <2>6, MovesOn
<1>8. CASE o.kind = "commission" /\ r = "yes"
  <2>1. Goes(t, "publish")
    BY <1>5, <1>8
  <2>2. PICK n : n = Moved(o, o.id, "publish", o.sdp, o.left)
    OBVIOUS
  <2>3. Becomes(t, n) /\ mutex' = mutex
    BY <1>4, <2>1, <2>2, OpEdits DEF Goes, Proceeds
  <2>4. n.kind = "commission" /\ n.at = "publish" /\ n.id = 1
    BY <1>1, <1>2, <1>8, <2>2, MovedIsOp DEF OpIsSound
  <2>5. IsDoneSoFar(n)'
    BY <2>4 DEF IsDoneSoFar, Published, ToSinks
  <2>6. Continues(o, n)
    <3>1. /\ IsOp(n) /\ n.kind = o.kind /\ n.from = o.from /\ n.blocks = o.blocks
          /\ n.disturbed = o.disturbed /\ n.at = "publish" /\ n.id = o.id
      BY <2>2, MovedIsOp
    <3>2. QED
      BY <1>8, <3>1 DEF Continues, PlacesOf
  <2>7. QED
    BY <1>1, <1>2, <2>3, <2>5, <2>6, MovesOn
<1>9. CASE o.kind = "commission" /\ r # "yes"
  <2>1. Finishes(t, "no")
    BY <1>5, <1>9
  <2>2. QED
    BY <1>1, <1>2, <2>1, EndsInNo
<1>10. QED
  BY <1>3, <1>6, <1>7, <1>8, <1>9

LEMMA ListsKeepsFaith ==
  ASSUME RequestInv, NEW t \in Threads, NEW o, o = op[t], Lists(t)
  PROVE  KeepsFaith(t, o)
<1>1. /\ o.at \in {"sources", "sinks", "statuses"} /\ TablesStay
      /\ UNCHANGED <<asked, config>>
  BY DEF Lists, TablesStay, RequestInv, daemonVars
<1>2. /\ ~Waits(o) /\ o.at \in PlacesOf(o.kind)
      /\ o.kind \in HandlerKinds \cup {"commission"}
  BY <1>1, WhoIsAt
<1>3. o.kind = "status"
  BY <1>1, <1>2 DEF PlacesOf, HandlerKinds
<1>4. IsTable
  BY DEF RequestInv, IsTable
<1>5. PICK left, at : /\ at \in {"sinks", "statuses", "browse"}
                      /\ Proceeds([op EXCEPT ![t].left = left, ![t].at = at])
  <2>1. PICK r \in Outcomes :
          Proceeds([op EXCEPT
            ![t].left = CASE op[t].at = "sinks" /\ r = "yes" -> SinksHeld
                          [] op[t].at = "statuses" -> op[t].left - 1
                          [] OTHER -> 0,
            ![t].at = IF op[t].at = "sources" THEN "sinks"
                      ELSE IF (CASE op[t].at = "sinks" /\ r = "yes" -> SinksHeld
                                 [] op[t].at = "statuses" -> op[t].left - 1
                                 [] OTHER -> 0) > 0
                             THEN "statuses" ELSE "browse"])
    BY Zenon DEF Lists
  <2>2. PICK left : left = CASE op[t].at = "sinks" /\ r = "yes" -> SinksHeld
                             [] op[t].at = "statuses" -> op[t].left - 1
                             [] OTHER -> 0
    OBVIOUS
  <2>3. PICK at : at = IF op[t].at = "sources" THEN "sinks"
                       ELSE IF left > 0 THEN "statuses" ELSE "browse"
    OBVIOUS
  <2>4. Proceeds([op EXCEPT ![t].left = left, ![t].at = at])
    BY <2>1, <2>2, <2>3, Zenon
  <2>5. at \in {"sinks", "statuses", "browse"}
    BY <2>3, Zenon
  <2>6. QED
    BY <2>4, <2>5
<1>6. PICK n : n = Moved(o, o.id, at, o.sdp, left)
  OBVIOUS
<1>7. Becomes(t, n) /\ mutex' = mutex
  BY <1>4, <1>5, <1>6, OpEdits DEF Proceeds
<1>8. n.kind = o.kind
  BY <1>6, MovedIsOp
<1>9. IsDoneSoFar(n)'
  BY <1>3, <1>8, PromisesNothing
<1>10. Continues(o, n)
  <2>1. /\ IsOp(n) /\ n.kind = o.kind /\ n.from = o.from /\ n.blocks = o.blocks
        /\ n.disturbed = o.disturbed /\ n.at = at /\ n.id = o.id
    BY <1>6, MovedIsOp
  <2>2. QED
    BY <1>3, <1>5, <2>1 DEF Continues, PlacesOf
<1>11. QED
  BY <1>1, <1>2, <1>7, <1>9, <1>10, MovesOn

LEMMA DeletesKeepsFaith ==
  ASSUME RequestInv, NEW t \in Threads, NEW o, o = op[t], Deletes(t)
  PROVE  KeepsFaith(t, o)
<1>1. o.at = "delete" /\ UNCHANGED <<asked, config, sources>>
  BY DEF Deletes
<1>2. /\ ~Waits(o) /\ OpIsSound(o) /\ o.at \in PlacesOf(o.kind)
      /\ o.kind \in HandlerKinds \cup {"commission"}
  BY <1>1, WhoIsAt
<1>3. o.kind = "unsubscribe"
  BY <1>1, <1>2 DEF PlacesOf, HandlerKinds
<1>4. PICK r \in Outcomes :
        /\ Finishes(t, IF r = "yes" THEN "yes" ELSE "no")
        /\ sinks' = IF r = "no" THEN sinks ELSE [sinks EXCEPT ![o.id] = Nothing]
  BY DEF Deletes
<1>5. TablesStay /\ o.id \in Ids
  BY <1>1, <1>2, <1>4 DEF TablesStay, RequestInv, OpIsSound
<1>6. CASE r = "yes"
  <2>1. Finishes(t, "yes") /\ sinks' = [sinks EXCEPT ![o.id] = Nothing]
    BY <1>4, <1>6
  <2>2. sinks'[o.id] = Nothing
    BY <1>5, <2>1 DEF RequestInv
  <2>3. Promises(o)'
    BY <1>3, <2>2 DEF Promises
  <2>4. QED
    BY <1>1, <1>2, <1>5, <2>1, <2>3, EndsInYes
<1>7. CASE r # "yes"
  <2>1. Finishes(t, "no")
    BY <1>4, <1>7
  <2>2. QED
    BY <1>1, <1>2, <1>5, <2>1, EndsInNo
<1>8. QED
  BY <1>6, <1>7

\* One more block has its source.
LEMMA OneMorePublished ==
  ASSUME RequestInv, NEW o, NEW k \in Ids, Published(o, k - 1),
         sources' = [sources EXCEPT ![k] = SourceOf(o.blocks[k])]
  PROVE  Published(o, k)'
<1>1. sources = [i \in Ids |-> sources[i]]
  BY DEF RequestInv
<1>2. sources'[k] = SourceOf(o.blocks[k]) /\ \A i \in Ids \ {k} : sources'[i] = sources[i]
  BY <1>1
<1>3. \A i \in 1 .. (k - 1) : sources[i] = SourceOf(o.blocks[i])
  BY DEF Published
<1>4. \A i \in 1 .. k : i = k \/ (i \in 1 .. (k - 1) /\ i \in Ids \ {k})
  BY DEF Ids
<1>5. \A i \in 1 .. k : sources'[i] = SourceOf(o.blocks[i])
  BY <1>2, <1>3, <1>4
<1>6. QED
  BY <1>5 DEF Published, SourceOf

LEMMA PublishesKeepsFaith ==
  ASSUME RequestInv, NEW t \in Threads, NEW o, o = op[t], Publishes(t)
  PROVE  KeepsFaith(t, o)
<1>1. o.at = "publish" /\ sinks' = sinks /\ UNCHANGED <<asked, config>>
      /\ subscription' = subscription
  BY DEF Publishes, asked
<1>2. /\ ~Waits(o) /\ OpIsSound(o) /\ (~o.disturbed => IsDoneSoFar(o))
      /\ o.at \in PlacesOf(o.kind) /\ o.kind \in HandlerKinds \cup {"commission"}
  BY <1>1, WhoIsAt
<1>3. o.kind \in {"commission", "publish"}
  BY <1>1, <1>2 DEF PlacesOf, HandlerKinds
<1>4. IsTable
  BY DEF RequestInv, IsTable
<1>5. /\ o.id \in Ids /\ Len(o.blocks) \in Ids /\ o.id \in 1 .. Len(o.blocks)
      /\ DOMAIN o.blocks = 1 .. Len(o.blocks)
  BY <1>2, <1>3 DEF OpIsSound
<1>6. PICK r \in Outcomes :
        /\ PutSource(o.id, Block(t), r)
        /\ CASE r # "yes" -> Finishes(t, "no")
             [] r = "yes" /\ ~IsLast(t) -> Proceeds([op EXCEPT ![t].id = o.id + 1])
             [] OTHER -> AfterPublishing(t)
  BY DEF Publishes
<1>7. TablesStay
  BY <1>1, <1>6 DEF TablesStay, RequestInv, PutSource
<1>8. ASSUME r = "yes", ~o.disturbed
      PROVE  Published(o, o.id)'
  <2>1. Published(o, o.id - 1)
    BY <1>1, <1>2, <1>3, <1>8 DEF IsDoneSoFar
  <2>2. sources' = [sources EXCEPT ![o.id] = SourceOf(o.blocks[o.id])]
    BY <1>6, <1>8 DEF PutSource, Block
  <2>3. QED
    BY <1>5, <2>1, <2>2, OneMorePublished
<1>9. CASE r # "yes"
  <2>1. Finishes(t, "no")
    BY <1>6, <1>9
  <2>2. QED
    BY <1>1, <1>2, <1>7, <2>1, EndsInNo
<1>10. CASE r = "yes" /\ ~IsLast(t)
  <2>1. PICK id : id = o.id + 1
    OBVIOUS
  <2>2. Proceeds([op EXCEPT ![t].id = id])
    BY <1>6, <1>10, <2>1
  <2>3. PICK n : n = Moved(o, id, o.at, o.sdp, o.left)
    OBVIOUS
  <2>4. Becomes(t, n) /\ mutex' = mutex
    BY <1>4, <2>2, <2>3, OpEdits DEF Proceeds
  <2>5. /\ IsOp(n) /\ n.kind = o.kind /\ n.from = o.from /\ n.blocks = o.blocks
        /\ n.disturbed = o.disturbed /\ n.at = "publish" /\ n.id = id
    BY <1>1, <2>3, MovedIsOp
  <2>6. id \in 1 .. Len(o.blocks) /\ id - 1 = o.id
    BY <1>5, <1>10, <2>1 DEF IsLast, Ids
  <2>7. Continues(o, n)
    BY <1>3, <2>5, <2>6 DEF Continues, PlacesOf
  <2>8. ASSUME ~o.disturbed PROVE IsDoneSoFar(n)'
    <3>1. Published(o, o.id)'
      BY <1>8, <1>10, <2>8
    <3>2. Published(n, n.id - 1)'
      BY <2>5, <2>6, <3>1 DEF Published
    <3>3. QED
      BY <2>5, <3>2 DEF IsDoneSoFar, ToSinks
  <2>9. QED
    BY <1>1, <1>2, <1>7, <2>4, <2>7, <2>8, MovesOn
<1>11. CASE r = "yes" /\ IsLast(t)
  <2>1. AfterPublishing(t) /\ o.id = Len(o.blocks)
    BY <1>6, <1>11 DEF IsLast
  <2>2. ~o.disturbed => Published(o, Len(o.blocks))'
    BY <1>8, <1>11, <2>1
  <2>3. CASE o.kind = "publish" \/ subscription = "none"
    <3>1. Finishes(t, "yes")
      BY <2>1, <2>3 DEF AfterPublishing
    <3>2. ~o.disturbed => Promises(o)'
      BY <1>1, <1>3, <1>5, <2>2, <2>3 DEF Promises, Published
    <3>3. QED
      BY <1>1, <1>2, <1>7, <3>1, <3>2, EndsInYes
  <2>4. CASE o.kind # "publish" /\ subscription # "none"
    <3>1. o.kind = "commission" /\ o.from = subscription
      BY <1>2, <1>3, <2>4 DEF OpIsSound
    <3>2. PICK at : at = IF subscription = "self" THEN "sdp" ELSE "browse"
      OBVIOUS
    <3>3. Proceeds([op EXCEPT ![t].id = 1, ![t].at = at])
      BY <2>1, <2>4, <3>2, Zenon DEF AfterPublishing
    <3>4. PICK n, first : first = 1 /\ n = Moved(o, first, at, o.sdp, o.left)
      OBVIOUS
    <3>5. Becomes(t, n) /\ mutex' = mutex
      BY <1>4, <3>3, <3>4, OpEdits DEF Proceeds
    <3>6. /\ IsOp(n) /\ n.kind = o.kind /\ n.from = o.from /\ n.blocks = o.blocks
          /\ n.disturbed = o.disturbed /\ n.at = at /\ n.id = 1
      BY <3>4, MovedIsOp
    <3>7. 1 \in 1 .. Len(o.blocks) /\ at \in {"sdp", "browse"}
      BY <1>5, <3>2 DEF Ids
    <3>8. Continues(o, n)
      BY <3>1, <3>2, <3>6, <3>7 DEF Continues, PlacesOf
    <3>9. ASSUME ~o.disturbed PROVE IsDoneSoFar(n)'
      <4>1. Published(n, Len(n.blocks))'
        BY <2>2, <3>6, <3>9 DEF Published
      <4>2. Subscribed(n, n.id - 1)'
        BY <3>6 DEF Subscribed
      <4>3. QED
        BY <1>1, <2>4, <3>1, <3>6, <3>7, <4>1, <4>2 DEF IsDoneSoFar, ToSinks
    <3>10. QED
      BY <1>1, <1>2, <1>7, <3>5, <3>8, <3>9, MovesOn
  <2>5. QED
    BY <1>3, <2>3, <2>4
<1>12. QED
  BY <1>9, <1>10, <1>11

LEMMA ReadsSdpKeepsFaith ==
  ASSUME RequestInv, NEW t \in Threads, NEW o, o = op[t], ReadsSdp(t)
  PROVE  KeepsFaith(t, o)
<1>1. /\ o.at = "sdp" /\ sinks' = sinks /\ sources' = sources /\ TablesStay
      /\ UNCHANGED <<asked, config>> /\ subscription' = subscription
  BY DEF ReadsSdp, asked, daemonVars, TablesStay, RequestInv
<1>2. /\ ~Waits(o) /\ OpIsSound(o) /\ (~o.disturbed => IsDoneSoFar(o))
      /\ o.at \in PlacesOf(o.kind) /\ o.kind \in HandlerKinds \cup {"commission"}
  BY <1>1, WhoIsAt
<1>3. o.kind \in {"commission", "subscribe"}
  BY <1>1, <1>2 DEF PlacesOf, HandlerKinds
<1>4. IsTable /\ o.from = "self"
  BY <1>1, <1>2, <1>3 DEF RequestInv, IsTable, OpIsSound
<1>5. PICK sdp : sdp = SdpOf(o.id)
  OBVIOUS
<1>6. \/ sdp # Nothing /\ Proceeds([op EXCEPT ![t].sdp = sdp, ![t].at = "put sink"])
      \/ Finishes(t, "no")
  BY <1>5 DEF ReadsSdp
<1>7. CASE Finishes(t, "no")
  BY <1>1, <1>2, <1>7, EndsInNo
<1>8. CASE sdp # Nothing /\ Proceeds([op EXCEPT ![t].sdp = sdp, ![t].at = "put sink"])
  <2>1. PICK n : n = Moved(o, o.id, "put sink", sdp, o.left)
    OBVIOUS
  <2>2. Becomes(t, n) /\ mutex' = mutex
    BY <1>4, <1>8, <2>1, OpEdits DEF Proceeds
  <2>3. /\ IsOp(n) /\ n.kind = o.kind /\ n.from = o.from /\ n.blocks = o.blocks
        /\ n.disturbed = o.disturbed /\ n.at = "put sink" /\ n.id = o.id /\ n.sdp = sdp
    BY <2>1 DEF Moved, IsOp
  <2>4. Continues(o, n)
    BY <1>3, <2>3 DEF Continues, PlacesOf
  <2>5. ASSUME ~o.disturbed PROVE IsDoneSoFar(n)'
    <3>1. sdp = SdpOf(o.id)'
      BY <1>1, <1>5 DEF SdpOf
    <3>2. o.kind = "commission" =>
            /\ subscription # "none" /\ Published(o, Len(o.blocks))
            /\ Subscribed(o, o.id - 1)
      BY <1>1, <1>2, <2>5 DEF IsDoneSoFar, ToSinks
    <3>3. o.kind = "commission" =>
            /\ subscription' # "none" /\ Published(n, Len(n.blocks))'
            /\ Subscribed(n, n.id - 1)'
      BY <1>1, <2>3, <3>2, WorkStands
    <3>4. QED
      BY <1>4, <1>8, <2>3, <3>1, <3>3 DEF IsDoneSoFar, ToSinks
  <2>6. QED
    BY <1>1, <1>2, <2>2, <2>4, <2>5, MovesOn
<1>9. QED
  BY <1>6, <1>7, <1>8

LEMMA BrowsesKeepsFaith ==
  ASSUME RequestInv, NEW t \in Threads, NEW o, o = op[t], Browses(t)
  PROVE  KeepsFaith(t, o)
<1>1. /\ o.at = "browse" /\ sinks' = sinks /\ sources' = sources /\ TablesStay
      /\ UNCHANGED <<asked, config>> /\ subscription' = subscription
  BY DEF Browses, asked, daemonVars, TablesStay, RequestInv
<1>2. /\ ~Waits(o) /\ OpIsSound(o) /\ (~o.disturbed => IsDoneSoFar(o))
      /\ o.at \in PlacesOf(o.kind) /\ o.kind \in HandlerKinds \cup {"commission"}
  BY <1>1, WhoIsAt
<1>3. o.kind \in {"commission", "subscribe", "status"}
  BY <1>1, <1>2 DEF PlacesOf, HandlerKinds
<1>4. IsTable
  BY DEF RequestInv, IsTable
<1>5. PICK sdp : sdp = Announced[o.from]
  OBVIOUS
<1>6. \/ o.kind = "status" /\ Finishes(t, "yes")
      \/ o.kind # "status" /\ Proceeds([op EXCEPT ![t].sdp = sdp, ![t].at = "put sink"])
      \/ Finishes(t, "no")
  <2>1. PICK r \in Outcomes, isHeard \in BOOLEAN :
          CASE o.kind = "status" -> Finishes(t, "yes")
            [] o.kind # "status" /\ r = "yes" /\ isHeard ->
                 Proceeds([op EXCEPT ![t].sdp = sdp, ![t].at = "put sink"])
            [] OTHER -> Finishes(t, "no")
    BY <1>5 DEF Browses
  <2>2. QED
    BY <2>1
<1>7. CASE Finishes(t, "no")
  BY <1>1, <1>2, <1>7, EndsInNo
<1>8. CASE o.kind = "status" /\ Finishes(t, "yes")
  <2>1. Promises(o)'
    BY <1>8, PromisesNothing
  <2>2. QED
    BY <1>1, <1>2, <1>8, <2>1, EndsInYes
<1>9. CASE o.kind # "status" /\ Proceeds([op EXCEPT ![t].sdp = sdp, ![t].at = "put sink"])
  <2>1. PICK n : n = Moved(o, o.id, "put sink", sdp, o.left)
    OBVIOUS
  <2>2. Becomes(t, n) /\ mutex' = mutex
    BY <1>4, <1>9, <2>1, OpEdits DEF Proceeds
  <2>3. /\ IsOp(n) /\ n.kind = o.kind /\ n.from = o.from /\ n.blocks = o.blocks
        /\ n.disturbed = o.disturbed /\ n.at = "put sink" /\ n.id = o.id /\ n.sdp = sdp
    BY <2>1 DEF Moved, IsOp
  <2>4. o.kind \in {"commission", "subscribe"} => o.from # "self" /\ sdp # Nothing
    BY <1>1, <1>2, <1>5 DEF OpIsSound
  <2>5. o.kind \in {"commission", "subscribe"}
    BY <1>3, <1>9
  <2>6. Continues(o, n)
    BY <2>3, <2>5 DEF Continues, PlacesOf
  <2>7. ASSUME ~o.disturbed PROVE IsDoneSoFar(n)'
    <3>1. o.kind = "commission" =>
            /\ subscription # "none" /\ Published(o, Len(o.blocks)) /\ o.id = 1
            /\ Subscribed(o, o.id - 1)
      BY <1>1, <1>2, <2>4, <2>7 DEF IsDoneSoFar, ToSinks
    <3>2. o.kind = "commission" =>
            /\ subscription' # "none" /\ Published(n, Len(n.blocks))'
            /\ Subscribed(n, n.id - 1)'
      BY <1>1, <2>3, <3>1, WorkStands
    <3>3. QED
      BY <1>5, <2>3, <2>4, <2>5, <3>1, <3>2 DEF IsDoneSoFar, ToSinks
  <2>8. QED
    BY <1>1, <1>2, <2>2, <2>6, <2>7, MovesOn
<1>10. QED
  BY <1>6, <1>7, <1>8, <1>9

\* A sink put with the SDP that was read; and one more of them.
LEMMA OneSubscribed ==
  ASSUME RequestInv, NEW o, NEW k \in Ids, o.sdp # Nothing,
         o.sdp = IF o.from = "self" THEN SdpOf(k) ELSE Announced[o.from],
         sources' = sources,
         sinks' = [sinks EXCEPT ![k] = SinkOf(o.blocks[k], o.sdp)]
  PROVE  IsSubscribed(o, k)'
<1>1. sinks'[k] = SinkOf(o.blocks[k], o.sdp)
  BY DEF RequestInv
<1>2. SinkOf(o.blocks[k], o.sdp).sdp = o.sdp
  BY DEF SinkOf
<1>3. SdpOf(k)' = SdpOf(k)
  BY DEF SdpOf
<1>4. QED
  BY <1>1, <1>2, <1>3 DEF IsSubscribed, SinkOf

LEMMA OneMoreSubscribed ==
  ASSUME RequestInv, NEW o, NEW k \in Ids, Subscribed(o, k - 1), o.sdp # Nothing,
         o.sdp = IF o.from = "self" THEN SdpOf(k) ELSE Announced[o.from],
         sources' = sources,
         sinks' = [sinks EXCEPT ![k] = SinkOf(o.blocks[k], o.sdp)]
  PROVE  Subscribed(o, k)'
<1>1. sinks = [i \in Ids |-> sinks[i]]
  BY DEF RequestInv
<1>2. /\ sinks'[k] = SinkOf(o.blocks[k], o.sdp)
      /\ \A i \in Ids \ {k} : sinks'[i] = sinks[i]
  BY <1>1
<1>3. \A i \in 1 .. k : i = k \/ (i \in 1 .. (k - 1) /\ i \in Ids \ {k})
  BY DEF Ids
<1>4. ASSUME NEW i \in 1 .. (k - 1), i \in Ids \ {k}
      PROVE  IsSubscribed(o, i)'
  <2>1. IsSubscribed(o, i)
    BY DEF Subscribed
  <2>2. sinks'[i] = sinks[i]
    BY <1>2, <1>4
  <2>3. QED
    BY <2>1, <2>2 DEF IsSubscribed, SdpOf
<1>5. IsSubscribed(o, k)'
  BY OneSubscribed
<1>6. \A i \in 1 .. k : IsSubscribed(o, i)'
  BY <1>3, <1>4, <1>5
<1>7. QED
  BY <1>6 DEF Subscribed

LEMMA PutsSinkKeepsFaith ==
  ASSUME RequestInv, NEW t \in Threads, NEW o, o = op[t], PutsSink(t)
  PROVE  KeepsFaith(t, o)
<1>1. o.at = "put sink" /\ sources' = sources /\ UNCHANGED <<asked, config>>
      /\ subscription' = subscription
  BY DEF PutsSink, asked
<1>2. /\ ~Waits(o) /\ OpIsSound(o) /\ (~o.disturbed => IsDoneSoFar(o))
      /\ o.at \in PlacesOf(o.kind) /\ o.kind \in HandlerKinds \cup {"commission"}
      /\ (t = Main <=> o.kind = "commission")
  BY <1>1, WhoIsAt
<1>3. o.kind \in {"commission", "subscribe"}
  BY <1>1, <1>2 DEF PlacesOf, HandlerKinds
<1>4. IsTable
  BY DEF RequestInv, IsTable
<1>5. o.id \in Ids /\ o.id \in 1 .. Len(o.blocks)
  BY <1>2, <1>3 DEF OpIsSound
<1>6. PICK r \in Outcomes :
        /\ PutSink(o.id, SinkOf(Block(t), o.sdp), r)
        /\ IF r = "yes" /\ t = Main
             THEN Proceeds([op EXCEPT ![t].at = "poll", ![t].left = Attempts])
             ELSE Finishes(t, IF r = "yes" THEN "yes" ELSE "no")
  BY DEF PutsSink
<1>7. TablesStay
  BY <1>1, <1>6 DEF TablesStay, RequestInv, PutSink
<1>8. r = "yes" => sinks' = [sinks EXCEPT ![o.id] = SinkOf(o.blocks[o.id], o.sdp)]
  BY <1>6 DEF PutSink, Block
<1>9. ~o.disturbed =>
        /\ o.sdp # Nothing
        /\ o.sdp = IF o.from = "self" THEN SdpOf(o.id) ELSE Announced[o.from]
  BY <1>1, <1>2, <1>3 DEF IsDoneSoFar
<1>10. CASE r # "yes"
  <2>1. Finishes(t, "no")
    BY <1>6, <1>10
  <2>2. QED
    BY <1>1, <1>2, <1>7, <2>1, EndsInNo
<1>11. CASE r = "yes" /\ t # Main
  <2>1. Finishes(t, "yes") /\ o.kind = "subscribe"
    BY <1>2, <1>3, <1>6, <1>11
  <2>2. ~o.disturbed => IsSubscribed(o, o.id)'
    BY <1>1, <1>5, <1>8, <1>9, <1>11, OneSubscribed
  <2>3. ~o.disturbed => Promises(o)'
    BY <2>1, <2>2 DEF Promises
  <2>4. QED
    BY <1>1, <1>2, <1>7, <2>1, <2>3, EndsInYes
<1>12. CASE r = "yes" /\ t = Main
  <2>1. o.kind = "commission"
    BY <1>2, <1>12
  <2>2. Proceeds([op EXCEPT ![t].at = "poll", ![t].left = Attempts])
    BY <1>6, <1>12
  <2>3. PICK n : n = Moved(o, o.id, "poll", o.sdp, Attempts)
    OBVIOUS
  <2>4. Becomes(t, n) /\ mutex' = mutex
    BY <1>4, <2>2, <2>3, OpEdits DEF Proceeds
  <2>5. /\ IsOp(n) /\ n.kind = o.kind /\ n.from = o.from /\ n.blocks = o.blocks
        /\ n.disturbed = o.disturbed /\ n.at = "poll" /\ n.id = o.id
    BY <2>3 DEF Moved, IsOp
  <2>6. Continues(o, n)
    BY <2>1, <2>5 DEF Continues, PlacesOf
  <2>7. ASSUME ~o.disturbed PROVE IsDoneSoFar(n)'
    <3>1. /\ subscription # "none" /\ Published(o, Len(o.blocks))
          /\ o.from # "self" => o.id = 1
          /\ Subscribed(o, o.id - 1)
      BY <1>1, <1>2, <2>1, <2>7 DEF IsDoneSoFar, ToSinks
    <3>2. Subscribed(o, o.id)'
      BY <1>1, <1>5, <1>8, <1>9, <1>12, <2>7, <3>1, OneMoreSubscribed
    <3>3. Subscribed(n, n.id)'
      BY <2>5, <3>2 DEF Subscribed, IsSubscribed
    <3>4. Published(n, Len(n.blocks))'
      BY <1>1, <2>5, <3>1 DEF Published
    <3>5. QED
      BY <1>1, <2>1, <2>5, <3>1, <3>3, <3>4 DEF IsDoneSoFar, ToSinks
  <2>8. QED
    BY <1>1, <1>2, <1>7, <2>4, <2>6, <2>7, MovesOn
<1>13. QED
  BY <1>10, <1>11, <1>12

LEMMA PollsKeepsFaith ==
  ASSUME RequestInv, NEW t \in Threads, NEW o, o = op[t], Polls(t)
  PROVE  KeepsFaith(t, o)
<1>1. /\ o.at = "poll" /\ sinks' = sinks /\ sources' = sources /\ TablesStay
      /\ UNCHANGED <<asked, config>> /\ subscription' = subscription
  BY DEF Polls, asked, daemonVars, TablesStay, RequestInv
<1>2. /\ ~Waits(o) /\ OpIsSound(o) /\ (~o.disturbed => IsDoneSoFar(o))
      /\ o.at \in PlacesOf(o.kind) /\ o.kind \in HandlerKinds \cup {"commission"}
  BY <1>1, WhoIsAt
<1>3. o.kind = "commission"
  BY <1>1, <1>2 DEF PlacesOf, HandlerKinds
<1>4. IsTable
  BY DEF RequestInv, IsTable
<1>5. /\ o.id \in 1 .. Len(o.blocks) /\ Len(o.blocks) \in Ids
      /\ DOMAIN o.blocks = 1 .. Len(o.blocks)
      /\ o.from = IF subscription = "none" THEN "self" ELSE subscription
  BY <1>2, <1>3 DEF OpIsSound
<1>6. ~o.disturbed =>
        /\ subscription # "none" /\ Published(o, Len(o.blocks))
        /\ o.from # "self" => o.id = 1
        /\ Subscribed(o, o.id)
  BY <1>1, <1>2, <1>3 DEF IsDoneSoFar, ToSinks
<1>7. PICK left : left = IF op[t].left = 1 THEN Attempts ELSE op[t].left - 1
  OBVIOUS
<1>8. \/ Finishes(t, "no") \/ NextSink(t)
      \/ Proceeds([op EXCEPT ![t].left = left])
  <2>1. PICK r \in Outcomes, receiving \in BOOLEAN :
          CASE r # "yes" -> Finishes(t, "no")
            [] r = "yes" /\ (receiving \/ sinks[op[t].id] = Nothing \/ SilentIsGivenUp(t)) ->
                 NextSink(t)
            [] OTHER -> Proceeds([op EXCEPT ![t].left = left])
    BY <1>7, Zenon DEF Polls
  <2>2. QED
    BY <2>1
<1>9. CASE Finishes(t, "no")
  BY <1>1, <1>2, <1>9, EndsInNo
<1>10. CASE Proceeds([op EXCEPT ![t].left = left])
  <2>1. PICK n : n = Moved(o, o.id, o.at, o.sdp, left)
    OBVIOUS
  <2>2. Becomes(t, n) /\ mutex' = mutex
    BY <1>4, <1>10, <2>1, OpEdits DEF Proceeds
  <2>3. /\ IsOp(n) /\ n.kind = o.kind /\ n.from = o.from /\ n.blocks = o.blocks
        /\ n.disturbed = o.disturbed /\ n.at = "poll" /\ n.id = o.id
    BY <1>1, <2>1 DEF Moved, IsOp
  <2>4. Continues(o, n)
    BY <1>3, <2>3 DEF Continues, PlacesOf
  <2>5. ASSUME ~o.disturbed PROVE IsDoneSoFar(n)'
    <3>1. Subscribed(n, n.id)' /\ Published(n, Len(n.blocks))'
      BY <1>1, <1>6, <2>3, <2>5, WorkStands
    <3>2. QED
      BY <1>1, <1>3, <1>6, <2>3, <2>5, <3>1 DEF IsDoneSoFar, ToSinks
  <2>6. QED
    BY <1>1, <1>2, <2>2, <2>4, <2>5, MovesOn
<1>11. CASE NextSink(t) /\ o.from = "self" /\ ~IsLast(t)
  <2>1. PICK id : id = o.id + 1
    OBVIOUS
  <2>2. Proceeds([op EXCEPT ![t].id = id, ![t].at = "sdp", ![t].left = 0])
    BY <1>11, <2>1 DEF NextSink
  <2>3. PICK n : n = Moved(o, id, "sdp", o.sdp, 0)
    OBVIOUS
  <2>4. Becomes(t, n) /\ mutex' = mutex
    BY <1>4, <2>2, <2>3, OpEdits DEF Proceeds
  <2>5. /\ IsOp(n) /\ n.kind = o.kind /\ n.from = o.from /\ n.blocks = o.blocks
        /\ n.disturbed = o.disturbed /\ n.at = "sdp" /\ n.id = id
    BY <2>3 DEF Moved, IsOp
  <2>6. id \in 1 .. Len(o.blocks) /\ id - 1 = o.id
    BY <1>5, <1>11, <2>1 DEF IsLast, Ids
  <2>7. Continues(o, n)
    BY <1>3, <1>11, <2>5, <2>6 DEF Continues, PlacesOf
  <2>8. ASSUME ~o.disturbed PROVE IsDoneSoFar(n)'
    <3>1. Subscribed(n, o.id)' /\ Published(n, Len(n.blocks))'
      BY <1>1, <1>6, <2>5, <2>8, WorkStands
    <3>2. Subscribed(n, n.id - 1)'
      BY <2>5, <2>6, <3>1
    <3>3. QED
      BY <1>1, <1>3, <1>6, <1>11, <2>5, <2>8, <3>1, <3>2 DEF IsDoneSoFar, ToSinks
  <2>9. QED
    BY <1>1, <1>2, <2>4, <2>7, <2>8, MovesOn
<1>12. CASE NextSink(t) /\ ~(o.from = "self" /\ ~IsLast(t))
  <2>1. Finishes(t, "yes")
    BY <1>12 DEF NextSink
  <2>2. ASSUME ~o.disturbed PROVE Promises(o)'
    <3>1. Subscribed(o, o.id)' /\ Published(o, Len(o.blocks))'
      BY <1>1, <1>6, <2>2, WorkStands
    <3>2. \A i \in DOMAIN o.blocks : (sources[i] = SourceOf(o.blocks[i]))'
      BY <1>5, <3>1 DEF Published
    <3>3. o.id = IF subscription = "self" THEN Len(o.blocks) ELSE 1
      BY <1>5, <1>6, <1>12, <2>2 DEF IsLast
    <3>4. \A i \in 1 .. (IF subscription = "self" THEN Len(o.blocks) ELSE 1) :
            IsSubscribed(o, i)'
      BY <3>1, <3>3 DEF Subscribed
    <3>5. QED
      BY <1>1, <1>3, <3>2, <3>4 DEF Promises
  <2>3. QED
    BY <1>1, <1>2, <2>1, <2>2, EndsInYes
<1>13. QED
  BY <1>8, <1>9, <1>10, <1>11, <1>12

LEMMA ThreadKeepsFaith ==
  ASSUME RequestInv, NEW t \in Threads, NEW o, o = op[t], ThreadStep(t)
  PROVE  KeepsFaith(t, o)
<1>1. CASE AsksPtp(t)
  BY <1>1, AsksPtpKeepsFaith
<1>2. CASE Publishes(t)
  BY <1>2, PublishesKeepsFaith
<1>3. CASE ReadsSdp(t)
  BY <1>3, ReadsSdpKeepsFaith
<1>4. CASE Browses(t)
  BY <1>4, BrowsesKeepsFaith
<1>5. CASE PutsSink(t)
  BY <1>5, PutsSinkKeepsFaith
<1>6. CASE Polls(t)
  BY <1>6, PollsKeepsFaith
<1>7. CASE Lists(t)
  BY <1>7, ListsKeepsFaith
<1>8. CASE Deletes(t)
  BY <1>8, DeletesKeepsFaith
<1>9. QED
  BY <1>1, <1>2, <1>3, <1>4, <1>5, <1>6, <1>7, <1>8 DEF ThreadStep

----------------------------------------------------------------------------
(* What happens around the operations *)

\* What was done stands while the daemon is not written to.
LEMMA DoneStands ==
  ASSUME NEW o, sources' = sources, sinks' = sinks, subscription' = subscription,
         IsDoneSoFar(o)
  PROVE  IsDoneSoFar(o)'
<1>1. \A i : IsSubscribed(o, i) => IsSubscribed(o, i)'
  BY DEF IsSubscribed, SdpOf
<1>2. \A k : Subscribed(o, k) => Subscribed(o, k)'
  BY <1>1 DEF Subscribed
<1>3. \A k : Published(o, k) => Published(o, k)'
  BY DEF Published
<1>4. SdpOf(o.id)' = SdpOf(o.id)
  BY DEF SdpOf
<1>5. QED
  BY <1>2, <1>3, <1>4 DEF IsDoneSoFar, ToSinks

\* Nothing an operation rests on changes.
LEMMA InvStands ==
  ASSUME RequestInv, config' \in Configs, op' = op,
         UNCHANGED <<asked, sources, sinks, mutex>>
  PROVE  RequestInv'
<1>1. subscription' = subscription /\ sources' = sources /\ sinks' = sinks /\ mutex' = mutex
  BY DEF asked
<1>2. MainIsPlaced' /\ HandlersArePlaced' /\ OneAtATime'
  BY <1>1 DEF RequestInv, MainIsPlaced, HandlersArePlaced, OneAtATime, HandlerKinds, PlacesOf
<1>3. ASSUME NEW t \in Threads
      PROVE  /\ IsOp(op'[t]) /\ OpIsSound(op[t])'
             /\ (~op'[t].disturbed => IsDoneSoFar(op[t])')
  <2>1. PICK o : o = op[t]
    OBVIOUS
  <2>2. IsOp(o) /\ OpIsSound(o)' /\ (~o.disturbed => IsDoneSoFar(o)')
    BY <1>1, <2>1, SoundStays, DoneStands DEF RequestInv
  <2>3. o = op'[t]
    BY <2>1
  <2>4. QED
    BY <2>2, <2>3
<1>4. \A t \in Threads : IsOp(op'[t])
  BY <1>3
<1>5. QED
  BY <1>1, <1>2, <1>3, <1>4 DEF RequestInv, IsOp

\* One thread's operation begins, or is granted the mutex.
LEMMA OneBegins ==
  ASSUME RequestInv, NEW t \in Threads, NEW n, Becomes(t, n), IsOp(n), OpIsSound(n),
         IsDoneSoFar(n), MainIsPlaced', HandlersArePlaced', OneAtATime',
         config' \in Configs, UNCHANGED <<asked, sources, sinks>>
  PROVE  RequestInv'
<1>1. subscription' = subscription /\ sources' = sources /\ sinks' = sinks
  BY DEF asked
<1>2. /\ op' = [u \in Threads |-> op'[u]] /\ op'[t] = n
      /\ \A u \in Threads : u # t => op'[u] = op[u]
  BY DEF Becomes
<1>3. ASSUME NEW u \in Threads
      PROVE  /\ IsOp(op'[u]) /\ OpIsSound(op[u])'
             /\ (~op'[u].disturbed => IsDoneSoFar(op[u])')
  <2>1. PICK o : o = IF u = t THEN n ELSE op[u]
    OBVIOUS
  <2>2. IsOp(o) /\ OpIsSound(o) /\ (~o.disturbed => IsDoneSoFar(o))
    BY <2>1 DEF RequestInv
  <2>3. OpIsSound(o)' /\ (~o.disturbed => IsDoneSoFar(o)')
    BY <1>1, <2>2, SoundStays, DoneStands
  <2>4. o = op'[u]
    BY <1>2, <2>1
  <2>5. QED
    BY <2>2, <2>3, <2>4
<1>4. \A u \in Threads : IsOp(op'[u])
  BY <1>3
<1>5. QED
  BY <1>1, <1>2, <1>3, <1>4 DEF RequestInv, IsOp

\* A thread at rest.
FreshIsSound(o) ==
  IsOp(o) /\ OpIsSound(o) /\ IsDoneSoFar(o) /\ o.kind = "none" /\ ~o.disturbed

LEMMA RestIsSound ==
  ASSUME NEW o, IsOp(o), o.kind = "none", o.disturbed = FALSE, o.id = 1
  PROVE  FreshIsSound(o) /\ FreshIsSound(o)'
<1>1. 1 \in Ids
  BY DEF Ids
<1>2. OpIsSound(o) /\ OpIsSound(o)'
  BY <1>1, Zenon DEF OpIsSound
<1>3. IsDoneSoFar(o) /\ IsDoneSoFar(o)'
  BY Zenon DEF IsDoneSoFar
<1>4. QED
  BY <1>2, <1>3 DEF FreshIsSound

LEMMA FreshOps ==
  /\ IsOp(Idle) /\ Idle.kind = "none" /\ Idle.disturbed = FALSE /\ Idle.id = 1
  /\ IsOp(Ended) /\ Ended.kind = "none" /\ Ended.disturbed = FALSE /\ Ended.id = 1
  /\ Idle.at = "idle" /\ Ended.at = "ended"
<1>1. IsOp(Idle) /\ Idle.kind = "none" /\ Idle.disturbed = FALSE /\ Idle.id = 1
      /\ Idle.at = "idle"
  BY DEF Idle, IsOp
<1>2. Ended = Moved(Idle, Idle.id, "ended", Idle.sdp, Idle.left)
  BY <1>1, EditOne DEF Ended
<1>3. QED
  BY <1>1, <1>2, MovedIsOp

LEMMA InitIsRequestInv == DaemonInit => RequestInv
<1> SUFFICES ASSUME DaemonInit PROVE RequestInv
  OBVIOUS
<1>1. config \in Configs /\ subscription \in {"none", "self"} \cup DOMAIN Announced
  BY SetupsAssumption DEF DaemonInit
<1>2. sources = [i \in Ids |-> sources[i]] /\ sinks = [i \in Ids |-> sinks[i]]
  BY DEF DaemonInit, NoStreams
<1>3. /\ op = [t \in Threads |-> op[t]] /\ op[Main] = Ended
      /\ \A t \in Handlers : op[t] = Idle
  BY ThreadsAssumption DEF DaemonInit, Threads
<1>4. FreshIsSound(Idle) /\ Idle.at = "idle" /\ FreshIsSound(Ended) /\ Ended.at = "ended"
  BY FreshOps, RestIsSound
<1>5. MainIsPlaced /\ HandlersArePlaced /\ OneAtATime
  BY <1>3, <1>4 DEF MainIsPlaced, HandlersArePlaced, OneAtATime, FreshIsSound
<1>6. \A t \in Threads :
        IsOp(op[t]) /\ OpIsSound(op[t]) /\ (~op[t].disturbed => IsDoneSoFar(op[t]))
  BY <1>3, <1>4 DEF Threads, FreshIsSound
<1>7. QED
  BY <1>1, <1>2, <1>3, <1>5, <1>6 DEF RequestInv

LEMMA ProcessEndsKeepsInv ==
  ASSUME RequestInv, ProcessEnds
  PROVE  RequestInv'
<1>1. /\ subscription' = subscription /\ config' = config
      /\ op' = [t \in Threads |-> IF t = Main THEN Ended ELSE Idle]
  BY DEF ProcessEnds, asked
<1>2. sources' = [i \in Ids |-> sources'[i]] /\ sinks' = [i \in Ids |-> sinks'[i]]
  BY DEF ProcessEnds, NoStreams, RequestInv
<1>3. /\ op' = [t \in Threads |-> op'[t]] /\ op'[Main] = Ended
      /\ \A t \in Handlers : op'[t] = Idle
  BY <1>1, ThreadsAssumption DEF Threads
<1>4. PICK idle, ended : idle = Idle /\ ended = Ended
  OBVIOUS
<1>5. FreshIsSound(idle)' /\ idle.at = "idle" /\ FreshIsSound(ended)' /\ ended.at = "ended"
  BY <1>4, FreshOps, RestIsSound
<1>6. MainIsPlaced' /\ HandlersArePlaced' /\ OneAtATime'
  BY <1>3, <1>4, <1>5 DEF MainIsPlaced, HandlersArePlaced, OneAtATime, FreshIsSound
<1>7. ASSUME NEW t \in Threads
      PROVE  /\ IsOp(op'[t]) /\ OpIsSound(op[t])'
             /\ (~op'[t].disturbed => IsDoneSoFar(op[t])')
  <2>1. op'[t] = idle \/ op'[t] = ended
    BY <1>3, <1>4 DEF Threads
  <2>2. QED
    BY <1>5, <2>1 DEF FreshIsSound
<1>8. \A t \in Threads : IsOp(op'[t])
  BY <1>7
<1>9. QED
  BY <1>1, <1>2, <1>3, <1>6, <1>7, <1>8 DEF RequestInv, IsOp

LEMMA CommissionKeepsInv ==
  ASSUME RequestInv, Commission
  PROVE  RequestInv'
<1>1. PICK c \in Configs :
        /\ config' = c
        /\ Proceeds([op EXCEPT ![Main] =
             [Idle EXCEPT !.kind = "commission", !.at = "ptp", !.blocks = c,
                !.from = IF subscription = "none" THEN "self" ELSE subscription]])
  BY DEF Commission
<1>2. /\ op[Main].at = "ended" /\ subscription' = subscription /\ mutex' = mutex
      /\ UNCHANGED <<asked, sources, sinks>>
  BY <1>1 DEF Commission, asked, daemonVars, Proceeds
<1>3. PICK from : from = IF subscription = "none" THEN "self" ELSE subscription
  OBVIOUS
<1>4. PICK n : n = [Idle EXCEPT !.kind = "commission", !.at = "ptp", !.blocks = c,
                                !.from = from]
  OBVIOUS
<1>5. op' = [op EXCEPT ![Main] = n]
  BY <1>1, <1>3, <1>4, Zenon DEF Proceeds
<1>6. /\ IsOp(n) /\ n.kind = "commission" /\ n.at = "ptp" /\ n.blocks = c /\ n.from = from
      /\ n.id = 1 /\ n.disturbed = FALSE
  BY <1>4 DEF Idle, IsOp
<1>7. Main \in Threads /\ IsTable /\ Main \notin Handlers
  BY ThreadsAssumption DEF Threads, RequestInv, IsTable
<1>8. Becomes(Main, n)
  BY <1>5, <1>7, BecomesOne
<1>9. /\ op'[Main] = n /\ \A u \in Handlers : op'[u] = op[u]
  BY <1>7, <1>8 DEF Becomes, Threads
<1>10. OpIsSound(n)
  <2>1. Len(c) \in Ids /\ DOMAIN c = 1 .. Len(c)
    BY ConfigsAssumption
  <2>2. 1 \in Ids /\ 1 \in 1 .. Len(c)
    BY <2>1 DEF Ids
  <2>3. from # "self" => Announced[from] # Nothing
    BY <1>3, AnswersAssumption DEF RequestInv
  <2>4. QED
    BY <1>3, <1>6, <2>1, <2>2, <2>3, Zenon DEF OpIsSound
<1>11. IsDoneSoFar(n)
  BY <1>6 DEF IsDoneSoFar, ToSinks
<1>12. \A u \in Handlers : op[u].at = "idle" /\ op[u].kind = "none"
  BY <1>2 DEF RequestInv, OneAtATime, HandlersArePlaced, HandlerKinds, PlacesOf
<1>13. MainIsPlaced' /\ HandlersArePlaced' /\ OneAtATime'
  BY <1>6, <1>9, <1>12 DEF MainIsPlaced, HandlersArePlaced, OneAtATime, PlacesOf
<1>14. QED
  BY <1>1, <1>2, <1>6, <1>7, <1>8, <1>10, <1>11, <1>13, OneBegins

LEMMA PostKeepsInv ==
  ASSUME RequestInv, NEW t \in Handlers, NEW r \in Requests, Post(t, r)
  PROVE  RequestInv'
<1>1. /\ op[Main].at = "serving" /\ op[t].at = "idle"
      /\ r.kind = "subscribe" => r.id <= Len(config)
      /\ UNCHANGED <<asked, sources, sinks>> /\ config' = config /\ mutex' = mutex
  BY DEF Post, daemonVars, Proceeds
<1>2. PICK blocks : blocks = IF r.kind \in {"publish", "subscribe"} THEN config ELSE <<>>
  OBVIOUS
<1>3. PICK n : n = [Idle EXCEPT !.kind = r.kind, !.at = "locking", !.id = r.id,
                                !.from = r.from, !.blocks = blocks]
  OBVIOUS
<1>4. op' = [op EXCEPT ![t] = n]
  BY <1>2, <1>3, Zenon DEF Post, Proceeds
<1>5. /\ IsOp(n) /\ n.kind = r.kind /\ n.at = "locking" /\ n.blocks = blocks
      /\ n.from = r.from /\ n.id = r.id /\ n.disturbed = FALSE
  BY <1>3 DEF Idle, IsOp
<1>6. Main \notin Handlers /\ t \in Threads /\ t # Main /\ IsTable /\ Main \in Threads
  BY ThreadsAssumption DEF Threads, RequestInv, IsTable
<1>7. Becomes(t, n)
  BY <1>4, <1>6, BecomesOne
<1>8. op'[t] = n /\ op'[Main] = op[Main] /\ \A u \in Handlers : u # t => op'[u] = op[u]
  BY <1>6, <1>7 DEF Becomes, Threads
<1>9. /\ r.kind \in HandlerKinds /\ r.id \in Ids /\ r.from \in {"self"} \cup DOMAIN Announced
      /\ r.kind = "publish" => r.id = 1
  BY RequestsAssumption DEF HandlerKinds
<1>10. OpIsSound(n)
  <2>1. Len(config) \in Ids /\ DOMAIN config = 1 .. Len(config)
    BY ConfigsAssumption DEF RequestInv
  <2>2. r.kind \in {"publish", "subscribe"} => r.id \in 1 .. Len(config)
    BY <1>1, <1>9, <2>1 DEF Ids
  <2>3. r.from # "self" => Announced[r.from] # Nothing
    BY <1>9, AnswersAssumption
  <2>4. r.kind # "commission"
    BY <1>9 DEF HandlerKinds
  <2>5. QED
    BY <1>2, <1>5, <1>9, <2>1, <2>2, <2>3, <2>4, Zenon DEF OpIsSound
<1>11. IsDoneSoFar(n)
  BY <1>5, <1>9 DEF IsDoneSoFar, ToSinks, HandlerKinds
<1>12. MainIsPlaced'
  BY <1>8 DEF RequestInv, MainIsPlaced, PlacesOf
<1>13. HandlersArePlaced'
  <2>1. n.kind \in HandlerKinds /\ n.at \in PlacesOf(n.kind)
    BY <1>5, <1>9 DEF HandlerKinds, PlacesOf
  <2> SUFFICES ASSUME NEW u \in Handlers
               PROVE  \/ op'[u].kind = "none" /\ op'[u].at = "idle"
                      \/ op'[u].kind \in HandlerKinds /\ op'[u].at \in PlacesOf(op'[u].kind)
    BY DEF HandlersArePlaced, HandlerKinds, PlacesOf
  <2>2. QED
    BY <1>8, <2>1 DEF RequestInv, HandlersArePlaced
<1>14. OneAtATime'
  BY <1>1, <1>5, <1>8 DEF RequestInv, OneAtATime
<1>15. config' \in Configs
  BY <1>1 DEF RequestInv
<1>16. QED
  BY <1>1, <1>5, <1>6, <1>7, <1>10, <1>11, <1>12, <1>13, <1>14, <1>15, OneBegins

LEMMA LocksKeepsInv ==
  ASSUME RequestInv, NEW t \in Handlers, Locks(t)
  PROVE  RequestInv'
<1>1. /\ op[t].at = "locking" /\ mutex = Nothing /\ mutex' = t
      /\ UNCHANGED <<asked, sources, sinks>> /\ config' = config
  BY DEF Locks, daemonVars
<1>2. PICK o : o = op[t]
  OBVIOUS
<1>3. PICK at : at = FirstStep(o)
  OBVIOUS
<1>4. PICK n : n = Moved(o, o.id, at, o.sdp, o.left)
  OBVIOUS
<1>5. Main \notin Handlers /\ t \in Threads /\ t # Main /\ IsTable /\ Main \in Threads
  BY ThreadsAssumption DEF Threads, RequestInv, IsTable
<1>6. op' = [op EXCEPT ![t].at = at]
  BY <1>2, <1>3, Zenon DEF Locks
<1>7. Becomes(t, n)
  BY <1>2, <1>4, <1>5, <1>6, OpEdits
<1>8. op'[t] = n /\ op'[Main] = op[Main] /\ \A u \in Handlers : u # t => op'[u] = op[u]
  BY <1>5, <1>7 DEF Becomes, Threads
<1>9. /\ IsOp(n) /\ n.kind = o.kind /\ n.at = at /\ n.blocks = o.blocks
      /\ n.from = o.from /\ n.id = o.id /\ n.disturbed = o.disturbed
  BY <1>4 DEF Moved, IsOp
<1>10. o.kind \in HandlerKinds /\ o.at = "locking" /\ OpIsSound(o)
  BY <1>1, <1>2, <1>5 DEF RequestInv, HandlersArePlaced
<1>11. /\ at \in PlacesOf(o.kind) \ {"locking"}
       /\ o.kind = "subscribe" => (at = "sdp" => o.from = "self")
                                  /\ (at = "browse" => o.from # "self")
       /\ o.kind = "publish" => at = "publish" /\ o.id = 1
       /\ at # "put sink"
  BY <1>3, <1>10 DEF FirstStep, PlacesOf, HandlerKinds, OpIsSound
<1>12. OpIsSound(n)
  <2>1. o.kind # "commission"
    BY <1>10 DEF HandlerKinds
  <2>2. QED
    BY <1>9, <1>10, <1>11, <2>1, Zenon DEF OpIsSound
<1>13. IsDoneSoFar(n)
  <2>1. n.kind # "commission" /\ n.at # "put sink"
    BY <1>9, <1>10, <1>11 DEF HandlerKinds
  <2>2. n.kind = "publish" => n.id = 1
    BY <1>9, <1>11
  <2>3. n.id = 1 => Published(n, n.id - 1)
    BY DEF Published
  <2>4. QED
    BY <2>1, <2>2, <2>3 DEF IsDoneSoFar
<1>14. MainIsPlaced'
  BY <1>8 DEF RequestInv, MainIsPlaced, PlacesOf
<1>15. HandlersArePlaced'
  <2> SUFFICES ASSUME NEW u \in Handlers
               PROVE  \/ op'[u].kind = "none" /\ op'[u].at = "idle"
                      \/ op'[u].kind \in HandlerKinds /\ op'[u].at \in PlacesOf(op'[u].kind)
    BY DEF HandlersArePlaced, HandlerKinds, PlacesOf
  <2>1. CASE u = t
    BY <1>8, <1>9, <1>10, <1>11, <2>1
  <2>2. CASE u # t
    BY <1>8, <2>2 DEF RequestInv, HandlersArePlaced
  <2>3. QED
    BY <2>1, <2>2
<1>16. OneAtATime'
  <2>1. op[Main].at = "serving"
    BY <1>1 DEF RequestInv, OneAtATime
  <2>2. \A u \in Handlers : op[u].at \in {"idle", "locking"}
    BY <1>1, <1>5, ThreadsAssumption DEF RequestInv, OneAtATime, Threads
  <2>3. QED
    BY <1>1, <1>8, <2>1, <2>2 DEF OneAtATime
<1>17. config' \in Configs
  BY <1>1 DEF RequestInv
<1>18. QED
  BY <1>1, <1>5, <1>7, <1>9, <1>12, <1>13, <1>14, <1>15, <1>16, <1>17, OneBegins

\* What is disturbed has no more to show for itself.
LEMMA DisturbedOp ==
  ASSUME NEW o, IsOp(o), NEW b, NEW n, n = [o EXCEPT !.disturbed = b]
  PROVE  /\ IsOp(n) /\ n.kind = o.kind /\ n.at = o.at /\ n.id = o.id /\ n.from = o.from
         /\ n.blocks = o.blocks /\ n.disturbed = b
<1>1. PICK kind, from, blocks, at, id, sdp, left, disturbed :
        o = [kind |-> kind, at |-> at, id |-> id, from |-> from, sdp |-> sdp,
             blocks |-> blocks, left |-> left, disturbed |-> disturbed]
  BY DEF IsOp
<1>2. QED
  BY <1>1 DEF IsOp

LEMMA DaemonStopsKeepsInv ==
  ASSUME RequestInv, DaemonStops
  PROVE  RequestInv'
<1>1. /\ subscription' = subscription /\ config' = config /\ mutex' = mutex
      /\ op' = [t \in Threads |-> [op[t] EXCEPT !.disturbed = op[t].kind # "none"]]
  BY DEF DaemonStops, asked, Proceeds
<1>2. sources' = [i \in Ids |-> sources'[i]] /\ sinks' = [i \in Ids |-> sinks'[i]]
  BY DEF DaemonStops, NoStreams
<1>3. ASSUME NEW t \in Threads
      PROVE  /\ IsOp(op'[t]) /\ op'[t].kind = op[t].kind /\ op'[t].at = op[t].at
             /\ OpIsSound(op[t])'
             /\ (~op'[t].disturbed => IsDoneSoFar(op[t])')
  <2>1. PICK o, b, n : /\ o = op[t] /\ b = (o.kind # "none")
                       /\ n = [o EXCEPT !.disturbed = b]
    OBVIOUS
  <2>2. n = op'[t]
    BY <1>1, <2>1
  <2>3. IsOp(o) /\ OpIsSound(o)
    BY <2>1 DEF RequestInv
  <2>4. /\ IsOp(n) /\ n.kind = o.kind /\ n.at = o.at /\ n.id = o.id /\ n.from = o.from
        /\ n.blocks = o.blocks /\ n.disturbed = b
    BY <2>1, <2>3, DisturbedOp
  <2>5. b \in BOOLEAN
    BY <2>1
  <2>6. OpIsSound(n)'
    BY <1>1, <2>3, <2>4, <2>5, Zenon DEF OpIsSound
  <2>7. ~n.disturbed => n.kind = "none"
    BY <2>1, <2>4
  <2>8. ~n.disturbed => IsDoneSoFar(n)'
    BY <2>7 DEF IsDoneSoFar
  <2>9. QED
    BY <2>1, <2>2, <2>4, <2>6, <2>8
<1>4. \A t \in Threads : op'[t].kind = op[t].kind /\ op'[t].at = op[t].at
  BY <1>3
<1>5. Main \in Threads /\ Handlers \subseteq Threads
  BY DEF Threads
<1>6. MainIsPlaced' /\ HandlersArePlaced' /\ OneAtATime'
  BY <1>1, <1>4, <1>5
    DEF RequestInv, MainIsPlaced, HandlersArePlaced, OneAtATime, HandlerKinds, PlacesOf
<1>7. config' \in Configs /\ subscription' \in {"none", "self"} \cup DOMAIN Announced
  BY <1>1 DEF RequestInv
<1>8. op' = [t \in Threads |-> op'[t]] /\ \A t \in Threads : IsOp(op'[t])
  BY <1>1, <1>3
<1>9. QED
  BY <1>2, <1>3, <1>6, <1>7, <1>8 DEF RequestInv, IsOp

LEMMA NextKeepsRequestInv == RequestInv /\ [DaemonNext]_requestVars => RequestInv'
<1> SUFFICES ASSUME RequestInv, [DaemonNext]_requestVars PROVE RequestInv'
  OBVIOUS
<1>1. CASE Commission
  BY <1>1, CommissionKeepsInv
<1>2. CASE Reload \/ DaemonStarts \/ UNCHANGED requestVars
  <2>1. config' \in Configs /\ op' = op /\ UNCHANGED <<asked, sources, sinks, mutex>>
    BY <1>2 DEF Reload, DaemonStarts, requestVars, daemonVars, RequestInv
  <2>2. QED
    BY <2>1, InvStands
<1>3. CASE ProcessEnds
  BY <1>3, ProcessEndsKeepsInv
<1>4. CASE DaemonStops
  BY <1>4, DaemonStopsKeepsInv
<1>5. ASSUME NEW t \in Threads, ThreadStep(t) PROVE RequestInv'
  <2>1. PICK o : o = op[t]
    OBVIOUS
  <2>2. QED
    BY <1>5, <2>1, ThreadKeepsFaith DEF KeepsFaith
<1>6. ASSUME NEW t \in Handlers, Locks(t) PROVE RequestInv'
  BY <1>6, LocksKeepsInv
<1>7. ASSUME NEW t \in Handlers, NEW r \in Requests, Post(t, r) PROVE RequestInv'
  BY <1>7, PostKeepsInv
<1>8. QED
  BY <1>1, <1>2, <1>3, <1>4, <1>5, <1>6, <1>7 DEF DaemonNext

\* Every step that ends an operation with a yes leaves what it promises.
LEMMA StepsAnswerTruly ==
  ASSUME RequestInv, [DaemonNext]_requestVars, NEW t \in Threads,
         op[t].kind # "none", op'[t].kind = "none", reply' = "yes", ~op[t].disturbed,
         NEW o, o = op[t]
  PROVE  Promises(o)'
<1>1. op' # op
  OBVIOUS
<1>2. reply' # Nothing
  BY AnswersAssumption
<1>3. PICK u \in Threads : ThreadStep(u)
  BY <1>1, <1>2
    DEF DaemonNext, requestVars, Commission, Reload, ProcessEnds, DaemonStops,
        DaemonStarts, Locks, Post, Proceeds
<1>4. PICK p : p = op[u]
  OBVIOUS
<1>5. KeepsFaith(u, p)
  BY <1>3, <1>4, ThreadKeepsFaith
<1>6. u = t
  BY <1>5 DEF KeepsFaith
<1>7. QED
  BY <1>4, <1>5, <1>6 DEF KeepsFaith

LEMMA AlwaysRequestInv == DaemonSpec => []RequestInv
BY InitIsRequestInv, NextKeepsRequestInv, PTL DEF DaemonSpec

(* Whatever the file holds, the page asks and the daemon does: an          *)
(* operation that the daemon survived and that is answered yes has put     *)
(* every source and sink it was for, each with the channels of its block   *)
(* and with the SDP that the source has (commissioning.cpp:186,            *)
(* api_server.cpp:857, 940).                                               *)
THEOREM AnswersAreTrue == DaemonSpec => AnsweredMeansDone
<1>1. RequestInv /\ [DaemonNext]_requestVars =>
        [\A t \in Threads :
           (op[t].kind # "none" /\ op'[t].kind = "none" /\ reply' = "yes"
              /\ ~op[t].disturbed)
             => \A o \in {op[t]} : Promises(o)']_requestVars
  BY StepsAnswerTruly
<1>2. QED
  BY <1>1, AlwaysRequestInv, PTL DEF DaemonSpec, AnsweredMeansDone

=============================================================================
