-------------------------- MODULE CoreAudioDevice --------------------------
(***************************************************************************)
(* The CoreAudio device (src/src/audio/coreaudio_backend.cpp): one audio   *)
(* unit for each direction the device carries, whose realtime callbacks    *)
(* share a ring with the engine's loops.  The device calls when it likes,  *)
(* and may stop calling.                                                   *)
(*                                                                         *)
(* FloatRing is to_device, which the receive loop writes and the output    *)
(* callback reads.  Of from_device, the same ring the other way round,     *)
(* only the callback that touches it is here.                              *)
(***************************************************************************)
EXTENDS FloatRing

CONSTANTS Period  \* frames the engine writes at once

ASSUME PeriodAssumption == Period \in 1 .. MaxBatch

Directions == {"output", "input"}

VARIABLES
  carried,    \* the directions for which the device has channels enough
  stage,      \* how far open, or close, has come
  unit,       \* the audio unit of each direction
  ringsOpen,  \* both rings have their storage
  capturing,  \* an input callback is under way
  writer      \* where the engine's write is

deviceVars == <<carried, stage, unit, ringsOpen>>
vars == <<ringVars, deviceVars, capturing, writer>>

DeviceInit ==
  /\ RingInit
  /\ carried \in (SUBSET Directions) \ {{}}
  /\ stage = "new" /\ unit = [d \in Directions |-> "none"] /\ ringsOpen = FALSE
  /\ capturing = FALSE /\ writer = "idle"

----------------------------------------------------------------------------
(* open *)

SizesRings ==
  /\ stage = "new"
  /\ stage' = "sized" /\ ringsOpen' = TRUE
  /\ UNCHANGED <<carried, unit, ringVars, capturing, writer>>

\* The output side comes first, and so it does when they are started.
IsTurnOf(d, done) ==
  d \in carried /\ (d = "input" => "output" \notin carried \/ unit["output"] = done)

CreatesUnit(d) ==
  /\ stage = "sized" /\ unit[d] = "none" /\ IsTurnOf(d, "created")
  /\ unit' = [unit EXCEPT ![d] = "created"]
  /\ UNCHANGED <<carried, stage, ringsOpen, ringVars, capturing, writer>>

StartsUnit(d) ==
  /\ stage = "sized" /\ \A e \in carried : unit[e] # "none"
  /\ unit[d] = "created" /\ IsTurnOf(d, "running")
  /\ unit' = [unit EXCEPT ![d] = "running"]
  /\ UNCHANGED <<carried, stage, ringsOpen, ringVars, capturing, writer>>

Opened ==
  /\ stage = "sized" /\ \A d \in carried : unit[d] = "running"
  /\ stage' = "open"
  /\ UNCHANGED <<carried, unit, ringsOpen, ringVars, capturing, writer>>

\* Any step of open may fail, and leaves the steps before it to close.
OpenFails ==
  /\ stage \in {"new", "sized"}
  /\ stage' = "closing"
  /\ UNCHANGED <<carried, unit, ringsOpen, ringVars, capturing, writer>>

----------------------------------------------------------------------------
(* close *)

CloseBegins ==
  /\ stage = "open" /\ writer = "idle"
  /\ stage' = "closing"
  /\ UNCHANGED <<carried, unit, ringsOpen, ringVars, capturing, writer>>

InCallback(d) == IF d = "output" THEN reading # 0 ELSE capturing

\* A unit is stopped when its callback has returned.
StopsUnit(d) ==
  /\ stage = "closing" /\ unit[d] # "none" /\ ~InCallback(d)
  /\ d = "input" => unit["output"] = "none"
  /\ unit' = [unit EXCEPT ![d] = "none"]
  /\ UNCHANGED <<carried, stage, ringsOpen, ringVars, capturing, writer>>

\* Mutant: the rings are closed without waiting for the input unit.
ClosesRingsEarly ==
  /\ stage = "closing" /\ unit["output"] = "none"
  /\ stage' = "closed" /\ ringsOpen' = FALSE
  /\ UNCHANGED <<carried, unit, ringVars, capturing, writer>>

ClosesRings ==
  /\ stage = "closing" /\ \A d \in Directions : unit[d] = "none"
  /\ stage' = "closed" /\ ringsOpen' = FALSE
  /\ UNCHANGED <<carried, unit, ringVars, capturing, writer>>

----------------------------------------------------------------------------
(* The callbacks *)

\* output_callback: as many frames as the device asks for, padded when short.
OutputCalls ==
  /\ unit["output"] = "running"
  /\ \E n \in 1 .. MaxBatch : ReadBegins(n)
  /\ UNCHANGED <<deviceVars, capturing, writer>>

OutputPlays ==
  /\ CopyOut \/ ReadPublishes
  /\ UNCHANGED <<deviceVars, capturing, writer>>

InputCalls ==
  /\ unit["input"] = "running" /\ ~capturing
  /\ capturing' = TRUE
  /\ UNCHANGED <<ringVars, deviceVars, writer>>

InputReturns ==
  /\ capturing /\ capturing' = FALSE
  /\ UNCHANGED <<ringVars, deviceVars, writer>>

----------------------------------------------------------------------------
(* write, on the receive loop *)

WriteCalls ==
  /\ stage = "open" /\ writer = "idle"
  /\ writer' = "waiting"
  /\ UNCHANGED <<ringVars, deviceVars, capturing>>

\* Mutant: the wait for room has no deadline.
WaitIsOverWhenDrained == Room >= Period

WaitIsOver == Room >= Period \/ writer = "late"

\* Fifty milliseconds go by.
DeadlinePasses ==
  /\ writer = "waiting"
  /\ writer' = "late"
  /\ UNCHANGED <<ringVars, deviceVars, capturing>>

\* The period is offered; what there is no room for is dropped.
WriteOffers ==
  /\ writer \in {"waiting", "late"} /\ WaitIsOver
  /\ WriteBegins(Period)
  /\ writer' = IF writing' = 0 THEN "idle" ELSE "copying"
  /\ UNCHANGED <<deviceVars, capturing>>

WriteCopies ==
  /\ CopyIn
  /\ UNCHANGED <<deviceVars, capturing, writer>>

WriteReturns ==
  /\ WritePublishes
  /\ writer' = "idle"
  /\ UNCHANGED <<deviceVars, capturing>>

----------------------------------------------------------------------------

OpenStep == SizesRings \/ Opened \/ \E d \in Directions : CreatesUnit(d) \/ StartsUnit(d)
CloseStep == ClosesRings \/ \E d \in Directions : StopsUnit(d)
WriteStep == DeadlinePasses \/ WriteOffers \/ WriteCopies \/ WriteReturns

DeviceNext ==
  \/ OpenStep \/ OpenFails \/ CloseBegins \/ CloseStep
  \/ OutputCalls \/ OutputPlays \/ InputCalls \/ InputReturns
  \/ WriteCalls \/ WriteStep

(* The engine's thread runs, a callback that began returns, and a unit    *)
(* that is called is stopped in the end; nothing makes the device call.    *)
FairDeviceSpec ==
  /\ DeviceInit /\ [][DeviceNext]_vars
  /\ WF_vars(WriteStep) /\ SF_vars(CloseStep)
  /\ WF_vars(OutputPlays) /\ WF_vars(InputReturns)

----------------------------------------------------------------------------
(* Properties *)

DeviceTypeOK ==
  /\ carried \in SUBSET Directions
  /\ stage \in {"new", "sized", "open", "closing", "closed"}
  /\ unit \in [Directions -> {"none", "created", "running"}]
  /\ ringsOpen \in BOOLEAN /\ capturing \in BOOLEAN
  /\ writer \in {"idle", "waiting", "late", "copying"}

\* "The render callback touches a ring and nothing else" (coreaudio_backend.cpp:173):
\* the ring is there, through every opening that fails half-way and every close.
CallbackFindsRing == (\E d \in Directions : InCallback(d)) => ringsOpen

\* The invariant of the device: the ring's own, its types, and its callbacks'.
DeviceInv == RingInv /\ DeviceTypeOK /\ CallbackFindsRing

(* A device that stops calling is not a failure (coreaudio_backend.cpp:474 *)
(* and 521): the engine's loop comes back from it, and a close gets to its *)
(* end.                                                                    *)
EngineComesBack ==
  /\ writer # "idle" ~> writer = "idle"
  /\ stage = "closing" ~> stage = "closed"

=============================================================================
