----------------------------- MODULE HalDevice -----------------------------
(***************************************************************************)
(* The virtual device on the Mac: the plug-in that coreaudiod hosts        *)
(* (src/src/audio/hal_driver/Driver.cpp) and the application               *)
(* (src/src/audio/hal_backend.cpp), two processes that share one named     *)
(* region (src/src/audio/shared_region.cpp).  Whichever comes first        *)
(* creates it, the other attaches to what it finds; either may close, die  *)
(* and come back, and the region stays.                                    *)
(*                                                                         *)
(* SharedRing is from_host, which the plug-in writes and the application   *)
(* reads.  to_host is the same ring the other way round and only shows     *)
(* here as what the application puts into it.                              *)
(***************************************************************************)
EXTENDS SharedRing

CONSTANTS MaxFaults  \* bound: deaths, and calls of the system that fail

ASSUME MaxFaultsAssumption == MaxFaults \in Nat

Halves == {"app", "plugin"}

VARIABLES
  region,   \* what the name stands for, and how much of it is initialised
  half,     \* how far each process is into opening the region
  early,    \* ghost: a half attached before the creator had reset the rings
  scratch,  \* float_scratch: whose audio it holds
  reader,   \* where the application's read is: "idle", "filled"
  writer,   \* where its write is: "idle", "pacing"
  crossed,  \* ghost: the last step handed one direction's audio to the other
  faults

regionVars == <<region, half, early>>
appVars == <<scratch, reader, writer, crossed>>
vars == <<sharedVars, regionVars, appVars, faults>>

HalInit ==
  /\ SharedInit
  /\ region = "none" /\ half = [h \in Halves |-> "closed"] /\ early = FALSE
  /\ scratch = "silence" /\ reader = "idle" /\ writer = "idle" /\ crossed = FALSE
  /\ faults = 0

Bound(h) == half[h] = "bound"
Goes(h, place) == half' = [half EXCEPT ![h] = place]
Spends == faults < MaxFaults /\ faults' = faults + 1

\* The application's open fails; the plug-in's device runs on, bound to nothing.
Refused(h) == Goes(h, IF h = "app" THEN "closed" ELSE "unbound")

----------------------------------------------------------------------------
(* Opening the region, as its creator *)

\* Mutant: shm_open without O_EXCL takes an existing region for a new one.
CreatesAgain(h) ==
  /\ half[h] = "closed"
  /\ Goes(h, "created")
  /\ region' = IF region = "none" THEN "unsized" ELSE region
  /\ UNCHANGED <<early, sharedVars, appVars, faults>>

\* shm_open with O_EXCL: of two that race, one creates.
Creates(h) ==
  /\ half[h] = "closed" /\ region = "none"
  /\ Goes(h, "created") /\ region' = "unsized"
  /\ UNCHANGED <<early, sharedVars, appVars, faults>>

Sizes(h) ==
  /\ half[h] = "created"
  /\ Goes(h, "sized") /\ region' = "blank"
  /\ UNCHANGED <<early, sharedVars, appVars, faults>>

\* ftruncate fails: the creator removes the name, whoever has it open or not.
SizeFails(h) ==
  /\ half[h] = "created" /\ Spends
  /\ half' = [g \in Halves |->
                IF g = h THEN IF h = "app" THEN "closed" ELSE "unbound"
                ELSE IF half[g] = "mapped" THEN "orphaned" ELSE half[g]]
  /\ region' = "none"
  /\ UNCHANGED <<early, sharedVars, appVars>>

\* mmap fails: the name stays, and nobody will ever initialise what it names.
MapFails(h) ==
  /\ half[h] = "sized" /\ Spends /\ Refused(h)
  /\ UNCHANGED <<region, early, sharedVars, appVars>>

\* create fills in the header, field by field.
Heads(h) ==
  /\ half[h] = "sized"
  /\ Goes(h, "headed") /\ region' = "headed"
  /\ UNCHANGED <<early, sharedVars, appVars, faults>>

\* Then it resets the rings, which the header already vouches for.
Resets(h) ==
  /\ half[h] = "headed"
  /\ Goes(h, "bound") /\ region' = "ready"
  /\ writeIndex' = 0 /\ readIndex' = 0 /\ dropped' = 0
  /\ UNCHANGED <<storage, writeStart, writing, written, torn, readStart, reading,
                 destination, skipped, intact, early, appVars, faults>>

----------------------------------------------------------------------------
(* Opening the region, as the other half *)

\* A region not sized yet may or may not be mapped, as the system has it.
Maps(h) ==
  /\ half[h] = "closed" /\ region # "none"
  /\ Goes(h, "mapped") \/ (region = "unsized" /\ Refused(h))
  /\ UNCHANGED <<region, early, sharedVars, appVars, faults>>

\* Mutant: any mapping will do.
VouchedForAnything == region # "unsized"

\* attach looks at the magic, the version and the shape.
VouchedFor == region \in {"headed", "ready"}

Attaches(h) ==
  /\ half[h] = "mapped" /\ VouchedFor
  /\ Goes(h, "bound") /\ early' = (early \/ region = "headed")
  /\ UNCHANGED <<region, sharedVars, appVars, faults>>

AttachRefused(h) ==
  /\ half[h] = "mapped" /\ region = "blank" /\ Refused(h)
  /\ UNCHANGED <<region, early, sharedVars, appVars, faults>>

----------------------------------------------------------------------------
(* Leaving it *)

AppIsIdle == reading = 0 /\ reader = "idle" /\ writer = "idle"

\* What dies with the process: the ring's half under way and the scratch.
Leaves(h) ==
  /\ IF h = "app"
       THEN ConsumerDies /\ scratch' = "silence" /\ reader' = "idle" /\ writer' = "idle"
       ELSE ProducerDies /\ UNCHANGED <<scratch, reader, writer>>
  /\ crossed' = FALSE
  /\ Goes(h, "closed")

\* HalBackend::close with the loops joined; OnStopIO after the last callback.
Closes(h) ==
  /\ half[h] \in {"bound", "unbound"}
  /\ IF h = "app" THEN AppIsIdle ELSE writing = 0
  /\ Leaves(h)
  /\ UNCHANGED <<region, early, faults>>

\* A process is killed, anywhere.
Dies(h) ==
  /\ half[h] # "closed" /\ Spends /\ Leaves(h)
  /\ UNCHANGED <<region, early>>

\* A header looked for where there is no memory ends the process.
AttachFaults(h) ==
  /\ half[h] = "orphaned" \/ (half[h] = "mapped" /\ region = "unsized")
  /\ Leaves(h)
  /\ UNCHANGED <<region, early, faults>>

----------------------------------------------------------------------------
(* The audio *)

\* OnWriteMixedOutput.
PluginWrites ==
  /\ Bound("plugin") /\ ProducerStep
  /\ crossed' = FALSE
  /\ UNCHANGED <<regionVars, scratch, reader, writer, faults>>

\* HalBackend::read on the transmit loop: the ring into the scratch.  A ring
\* that has nothing leaves a period of padding.
AppReadBegins ==
  /\ Bound("app") /\ reader = "idle" /\ ReadBegins
  /\ IF reading' = 0
       THEN scratch' = "captured" /\ reader' = "filled"
       ELSE UNCHANGED <<scratch, reader>>
  /\ crossed' = FALSE
  /\ UNCHANGED <<regionVars, writer, faults>>

AppCopies ==
  /\ CopyOut
  /\ scratch' = "captured" /\ crossed' = FALSE
  /\ UNCHANGED <<regionVars, reader, writer, faults>>

\* A read that was short pads the rest of the period.
AppReadEnds ==
  /\ ReadPublishes
  /\ reader' = "filled" /\ scratch' \in {scratch, "captured"} /\ crossed' = FALSE
  /\ UNCHANGED <<regionVars, writer, faults>>

\* And the scratch into the engine's bytes.
AppReturns ==
  /\ reader = "filled"
  /\ reader' = "idle" /\ crossed' = (scratch = "played")
  /\ UNCHANGED <<sharedVars, regionVars, scratch, writer, faults>>

\* HalBackend::write on the receive loop: the engine's bytes into the scratch.
AppConverts ==
  /\ Bound("app") /\ writer = "idle"
  /\ writer' = "pacing" /\ scratch' = "played" /\ crossed' = FALSE
  /\ UNCHANGED <<sharedVars, regionVars, reader, faults>>

\* And, once the period is over, the scratch into to_host.
AppWrites ==
  /\ writer = "pacing"
  /\ writer' = "idle" /\ crossed' = (scratch = "captured")
  /\ UNCHANGED <<sharedVars, regionVars, scratch, reader, faults>>

HalNext ==
  \/ \E h \in Halves :
       \/ Creates(h) \/ Sizes(h) \/ SizeFails(h) \/ MapFails(h) \/ Heads(h) \/ Resets(h)
       \/ Maps(h) \/ Attaches(h) \/ AttachRefused(h)
       \/ Closes(h) \/ Dies(h) \/ AttachFaults(h)
  \/ PluginWrites \/ AppReadBegins \/ AppCopies \/ AppReadEnds \/ AppReturns
  \/ AppConverts \/ AppWrites

HalSpec == HalInit /\ [][HalNext]_vars

----------------------------------------------------------------------------
(* Properties *)

RegionTypeOK ==
  /\ region \in {"none", "unsized", "blank", "headed", "ready"}
  /\ half \in [Halves -> {"closed", "created", "sized", "headed", "mapped",
                          "orphaned", "unbound", "bound"}]
  /\ early \in BOOLEAN /\ crossed \in BOOLEAN /\ faults \in 0 .. MaxFaults
  /\ scratch \in {"silence", "captured", "played"}
  /\ reader \in {"idle", "filled"} /\ writer \in {"idle", "pacing"}

\* "This is the only reliable way to know whether *this* process is the creator"
\* (shared_region.cpp:58): there is never a second one at work.
OneCreator ==
  \A g, h \in Halves :
    {half[g], half[h]} \subseteq {"created", "sized", "headed"} => g = h

\* "A foreign or uninitialized region is refused" (shared_ring.hpp:63), whoever
\* died half-way through initialising it.
UsedIsInitialized == (\E h \in Halves : Bound(h)) => region \in {"headed", "ready"}

\* The invariant of the device: the ring's own, and the region's.
HalInv == SharedInv /\ RegionTypeOK /\ OneCreator /\ UsedIsInitialized

(* "Count them, so the loss is not silent" (shared_ring.cpp:76), over      *)
(* restarts of either process: every frame the application will never get  *)
(* is counted before its storage is overwritten.  A plug-in that attaches  *)
(* between the header and the reset has its count reset under it.          *)
RestartsLoseNothingSilently == early \/ LossIsNeverSilent

(* "The indices are free-running frame counters" (shared_ring.hpp:23):     *)
(* whoever comes, goes or dies, a ring in use is not started again.        *)
IndicesNeverGoBack ==
  [][(\E h \in Halves : Bound(h)) /\ ~early =>
       writeIndex' >= writeIndex /\ readIndex' >= readIndex /\ dropped' >= dropped]_vars

(* "`read()` and `write()` may be called concurrently, one thread each"    *)
(* and "A backend whose two directions share state must make that safe"    *)
(* (backend.hpp:60): neither direction is handed the other's audio.        *)
DirectionsAreApart == ~crossed

=============================================================================
