--------------------------- MODULE RavennaBackend ---------------------------
(***************************************************************************)
(* The RAVENNA device under the engine's two loops                         *)
(* (src/src/audio/ravenna_backend.cpp).  The transmit loop reads the       *)
(* capture stream, the receive loop writes the playback stream, each under *)
(* a shared lock; the reader that finds the device silent takes the lock   *)
(* exclusively and reopens both streams.                                   *)
(*                                                                         *)
(* ALSA and the driver are the environment: the driver's engine ticks      *)
(* while the PTP clock does and until the daemon is restarted, and then    *)
(* the streams still report RUNNING.  Time is counted in waits of half a   *)
(* second.                                                                 *)
(***************************************************************************)
EXTENDS Integers, FiniteSets

CONSTANTS StallWaits,   \* k_stall_seconds, in waits
          MaxRestarts,  \* bound: the daemon is restarted under the appliance
          MaxFaults     \* bound: calls of ALSA that fail

ASSUME StallWaitsAssumption == StallWaits \in Nat \ {0}
ASSUME MaxRestartsAssumption == MaxRestarts \in Nat
ASSUME MaxFaultsAssumption == MaxFaults \in Nat

Streams == {"capture", "playback"}

VARIABLES
  role,       \* link.role: which loops the engine runs
  at,         \* where each loop is in its call
  handle,     \* the stream of each direction, as ALSA reports it
  open,       \* open_
  silent,     \* waits since last_frames_at_, up to the stall
  throttled,  \* last_recover_at_ is not zero, and recent
  armed,      \* the driver's engine was triggered since the daemon restarted
  clock,      \* the PTP clock ticks
  restarts, faults,
  moved       \* ghost: the direction whose period the last step moved, if any

handleVars == <<handle, open, silent, throttled>>
driverVars == <<armed, clock, restarts>>
backendVars == <<role, at, handleVars, driverVars, faults, moved>>

\* Engine::run starts a loop for each direction the role has.
Runs(d) == role # (IF d = "capture" THEN "rx" ELSE "tx")

BackendInit ==
  /\ role \in {"tx", "rx", "duplex"}
  /\ at = [d \in Streams |-> "idle"]
  /\ handle = [d \in Streams |-> "running"]
  /\ open = TRUE /\ silent = 0 /\ throttled = FALSE
  /\ armed = TRUE /\ clock \in BOOLEAN
  /\ restarts = 0 /\ faults = 0 /\ moved = "none"

Ticking == armed /\ clock
Spends(n) == faults + n <= MaxFaults /\ faults' = faults + n

Goes(d, place) == at' = [at EXCEPT ![d] = place]
Quietly(d, place) == Goes(d, place) /\ moved' = "none"

----------------------------------------------------------------------------
(* read and write *)

\* A device that is not open is refused, before the lock is taken.
Calls(d) ==
  /\ at[d] = "idle" /\ Runs(d) /\ open
  /\ Quietly(d, "called")
  /\ UNCHANGED <<role, handleVars, driverVars, faults>>

\* The shared lock is had unless the other thread is reopening the device.
TakesShared(d) ==
  /\ at[d] = "called" /\ \A e \in Streams : at[e] # "reopening"
  /\ Quietly(d, "inside")
  /\ UNCHANGED <<role, handleVars, driverVars, faults>>

\* The reopening failed meanwhile: a call on a null handle ends the process.
UsesNull(d) ==
  /\ at[d] = "inside" /\ handle[d] = "closed"
  /\ at' = [e \in Streams |-> "ended"] /\ open' = FALSE /\ moved' = "none"
  /\ handle' = [e \in Streams |-> "closed"]
  /\ UNCHANGED <<role, silent, throttled, driverVars, faults>>

\* A whole period moves.
Moves(d) ==
  /\ at[d] = "inside" /\ handle[d] = "running" /\ Ticking
  /\ Goes(d, "idle") /\ moved' = d
  /\ silent' = IF d = "capture" THEN 0 ELSE silent
  /\ UNCHANGED <<role, handle, open, throttled, driverVars, faults>>

\* The wait, or the transfer, reports the xrun: the stream is prepared and
\* triggered again, in start_stream; a failure to trigger it is only logged.
Recovers(d) ==
  /\ at[d] = "inside" /\ handle[d] = "xrun"
  /\ Quietly(d, "idle")
  /\ \E state \in {"xrun", "prepared", "running"} :
       /\ handle' = [handle EXCEPT ![d] = state]
       /\ Spends(IF state = "running" THEN 0 ELSE 1)
  /\ UNCHANGED <<role, open, silent, throttled, driverVars>>

\* Another error, which snd_pcm_recover does not mend.
Fails(d) ==
  /\ at[d] = "inside" /\ handle[d] # "closed"
  /\ Quietly(d, "idle") /\ Spends(1)
  /\ UNCHANGED <<role, handleVars, driverVars>>

\* Nothing for half a second: only the reader goes on to recover_if_stalled.
TimesOut(d) ==
  /\ at[d] = "inside"
  /\ handle[d] = "prepared" \/ (handle[d] = "running" /\ ~Ticking)
  /\ Quietly(d, IF d = "capture" THEN "stalled" ELSE "idle")
  /\ silent' = IF d = "capture" /\ silent < StallWaits THEN silent + 1 ELSE silent
  /\ UNCHANGED <<role, handle, open, throttled, driverVars, faults>>

----------------------------------------------------------------------------
(* recover_if_stalled, which only the reader calls *)

\* Mutant: a device that was never silent for a whole second is not stalled.
StalledOffByOne == silent > StallWaits
Stalled == silent = StallWaits

Considers ==
  /\ at["capture"] = "stalled"
  /\ IF open /\ Stalled /\ ~throttled
       THEN throttled' = TRUE /\ Quietly("capture", "locking")
       ELSE UNCHANGED throttled /\ Quietly("capture", "idle")
  /\ UNCHANGED <<role, handle, open, silent, driverVars, faults>>

\* Mutant: the lock that is taken is a shared one.
ClosesShared ==
  /\ at["capture"] = "locking"
  /\ Quietly("capture", "reopening")
  /\ handle' = [d \in Streams |-> "closed"] /\ open' = FALSE
  /\ UNCHANGED <<role, silent, throttled, driverVars, faults>>

\* The exclusive lock, and close.
Closes ==
  /\ at["capture"] = "locking" /\ at["playback"] # "inside"
  /\ Quietly("capture", "reopening")
  /\ handle' = [d \in Streams |-> "closed"] /\ open' = FALSE
  /\ UNCHANGED <<role, silent, throttled, driverVars, faults>>

\* open triggers both streams, or closes what it opened; it resets the throttle.
Reopens ==
  /\ at["capture"] = "reopening"
  /\ Quietly("capture", "idle")
  /\ \/ /\ handle' = [d \in Streams |-> "running"] /\ open' = TRUE
        /\ silent' = 0 /\ throttled' = FALSE /\ armed' = TRUE
        /\ UNCHANGED faults
     \/ Spends(1) /\ UNCHANGED <<handleVars, armed>>
  /\ UNCHANGED <<role, clock, restarts>>

----------------------------------------------------------------------------
(* The driver *)

\* A buffer that is not served in time.
XRuns(d) ==
  /\ handle[d] = "running" /\ Ticking
  /\ handle' = [handle EXCEPT ![d] = "xrun"] /\ Spends(1) /\ moved' = "none"
  /\ UNCHANGED <<role, at, open, silent, throttled, driverVars>>

DaemonRestarts ==
  /\ restarts < MaxRestarts
  /\ restarts' = restarts + 1 /\ armed' = FALSE /\ moved' = "none"
  /\ UNCHANGED <<role, at, handleVars, clock, faults>>

ClockChanges ==
  /\ clock' = ~clock /\ moved' = "none"
  /\ UNCHANGED <<role, at, handleVars, armed, restarts, faults>>

CallStep(d) ==
  \/ Calls(d) \/ TakesShared(d) \/ UsesNull(d)
  \/ Moves(d) \/ Recovers(d) \/ Fails(d) \/ TimesOut(d)

BackendNext ==
  \/ \E d \in Streams : CallStep(d) \/ XRuns(d)
  \/ Considers \/ Closes \/ Reopens
  \/ DaemonRestarts \/ ClockChanges

BackendSpec == BackendInit /\ [][BackendNext]_backendVars

(* The engine calls again and again and no wait exceeds half a second, so  *)
(* each loop keeps moving.  The writer leaves the shared lock between two  *)
(* turns, and does not come back at once after a turn that failed, so the  *)
(* reader that waits for it has it in the end.                             *)
FairBackendSpec ==
  /\ BackendSpec
  /\ \A d \in Streams : WF_backendVars(CallStep(d))
  /\ WF_backendVars(Considers) /\ SF_backendVars(Closes) /\ WF_backendVars(Reopens)

----------------------------------------------------------------------------
(* Properties *)

BackendTypeOK ==
  /\ role \in {"tx", "rx", "duplex"}
  /\ at \in [Streams -> {"idle", "called", "inside", "stalled", "locking",
                         "reopening", "ended"}]
  /\ handle \in [Streams -> {"closed", "prepared", "running", "xrun"}]
  /\ open \in BOOLEAN /\ throttled \in BOOLEAN
  /\ armed \in BOOLEAN /\ clock \in BOOLEAN
  /\ silent \in 0 .. StallWaits
  /\ restarts \in 0 .. MaxRestarts /\ faults \in 0 .. MaxFaults
  /\ moved \in Streams \cup {"none"}

\* "the other direction's thread must not be inside a call on a handle being
\* freed" (ravenna_backend.cpp:273), in either order of arrival.
FreedOnlyWhenQuiet == at["capture"] = "reopening" => at["playback"] # "inside"

\* open_ is what the handles are: all there, or none.
OpenMeansBoth == IF open THEN \A d \in Streams : handle[d] # "closed"
                 ELSE \A d \in Streams : handle[d] = "closed"

\* The invariant of the backend: its types, and no stream freed under a call.
BackendInv == BackendTypeOK /\ FreedOnlyWhenQuiet /\ OpenMeansBoth

(* "Reopening the PCM re-triggers both substreams, which is what makes the *)
(* driver's engine run again after the daemon restarted it underneath us"  *)
(* (ravenna_backend.cpp:276), and an xrun must not leave the device "XRUN  *)
(* for ever" (ravenna_backend.cpp:323): with a clock that is there to      *)
(* stay, an appliance that captures goes on capturing, and one that also   *)
(* plays goes on playing.  Two things end that: a reopening that fails,    *)
(* which is never tried again, and a playback stream that could not be     *)
(* triggered after an xrun, which only a stall of the capture would mend.  *)
AudioReturns ==
  (<>[]clock /\ role # "rx") =>
    \/ <>[]~open
    \/ /\ []<>(moved = "capture")
       /\ Runs("playback") => []<>(moved = "playback") \/ <>[](handle["playback"] = "prepared")

=============================================================================
