----------------------------- MODULE SharedRing -----------------------------
(***************************************************************************)
(* The ring in shared memory between the plug-in's realtime callbacks and  *)
(* the application (src/src/audio/shared_ring.cpp).  Unlike FloatRing, a   *)
(* write never gives way: when the ring is full it overwrites the oldest   *)
(* frames, and the consumer skips to what still exists.                    *)
(*                                                                         *)
(* The frame published at index i is the number i; each frame is copied in *)
(* a step of its own.  The two sides are processes, and either may die     *)
(* anywhere: the memory outlives them both.                                *)
(***************************************************************************)
EXTENDS Integers, Sequences

CONSTANTS Capacity,   \* capacity_frames_
          MaxBatch,   \* the most frames offered or asked for at once
          MaxWritten  \* bound: the write index

\* SharedAudio::create and attach refuse fewer than two frames.
ASSUME CapacityAssumption == Capacity \in Nat \ {0, 1}
ASSUME BoundsAssumption == MaxBatch \in Nat \ {0} /\ MaxWritten \in Nat

VARIABLES
  writeIndex,   \* write_index
  readIndex,    \* read_index
  storage,      \* the number of the frame in each slot
  writeStart,   \* the index the write in progress loaded
  writing,      \* frames the write in progress copies; 0 when there is none
  written,      \* of those, copied so far
  readStart,    \* start_read of the read in progress
  reading,      \* frames the read in progress copies; 0 when there is none
  destination,  \* the frames it copied so far
  dropped,      \* frames_dropped, of the frames that were in the ring
  torn,         \* ghost: frames past writeIndex left by writes that never ended
  skipped,      \* ghost: frames the consumer passed without reading them
  intact        \* ghost: no slot of the read in progress was written meanwhile

producerVars == <<writeIndex, storage, writeStart, writing, written, dropped, torn>>
consumerVars == <<readIndex, readStart, reading, destination, skipped>>
sharedVars == <<producerVars, consumerVars, intact>>

Least(a, b) == IF a < b THEN a ELSE b
Most(a, b) == IF a > b THEN a ELSE b
Excess(a, b) == IF a > b THEN a - b ELSE 0

SlotOf(index) == index % Capacity

SharedInit ==
  /\ writeIndex = 0 /\ readIndex = 0
  /\ storage = [s \in 0 .. Capacity - 1 |-> 0]
  /\ writeStart = 0 /\ writing = 0 /\ written = 0 /\ torn = 0
  /\ readStart = 0 /\ reading = 0 /\ destination = <<>>
  /\ dropped = 0 /\ skipped = 0 /\ intact = TRUE

----------------------------------------------------------------------------
(* The producer *)

\* Mutant: only a write bigger than the ring's free space plus one is counted.
OverwrittenOffByOne(n) == Excess(writeIndex - readIndex + n, Capacity + 1)

\* The unread frames a write of n frames is about to overwrite, as it sees it.
Overwritten(n) == Excess(writeIndex - readIndex + n, Capacity)

(* write: an offer bigger than the ring keeps its newest frames, so at     *)
(* most Capacity are copied.                                               *)
WriteBegins ==
  /\ writing = 0
  /\ \E n \in 1 .. MaxBatch :
       /\ writeIndex + Least(n, Capacity) <= MaxWritten
       /\ writing' = Least(n, Capacity)
       /\ dropped' = dropped + Overwritten(Least(n, Capacity))
  /\ writeStart' = writeIndex /\ written' = 0
  /\ UNCHANGED <<writeIndex, storage, torn, consumerVars, intact>>

\* The slots of the read in progress.
BeingRead == {SlotOf(i) : i \in readStart .. readStart + reading - 1}

CopyIn ==
  /\ written < writing
  /\ storage' = [storage EXCEPT ![SlotOf(writeStart + written)] = writeStart + written]
  /\ written' = written + 1
  /\ intact' = (intact /\ SlotOf(writeStart + written) \notin BeingRead)
  /\ UNCHANGED <<writeIndex, writeStart, writing, dropped, torn, consumerVars>>

WritePublishes ==
  /\ writing # 0 /\ written = writing
  /\ writeIndex' = writeStart + writing
  /\ writeStart' = 0 /\ writing' = 0 /\ written' = 0 /\ torn' = Excess(torn, writing)
  /\ UNCHANGED <<storage, dropped, consumerVars, intact>>

\* The producer dies: what it copied stays, under an index that never moved.
ProducerDies ==
  /\ writeStart' = 0 /\ writing' = 0 /\ written' = 0
  /\ torn' = Most(torn, written)
  /\ UNCHANGED <<writeIndex, storage, dropped, consumerVars, intact>>

----------------------------------------------------------------------------
(* The consumer *)

\* Mutant: the consumer does not notice that it was lapped.
OldestIgnored == readIndex

\* The slots that hold frames no index promises: of the write in progress, and
\* of those that died.
Unpublished == {SlotOf(writeStart + i) : i \in 0 .. written - 1}
                 \cup {SlotOf(writeIndex + i) : i \in 0 .. torn - 1}

\* Where a read starts: at the oldest frame that still exists.
Oldest == IF writeIndex - readIndex > Capacity THEN writeIndex - Capacity ELSE readIndex

\* read: load both indices, then copy, or return at once when starved.
ReadBegins ==
  /\ reading = 0
  /\ \E n \in 1 .. MaxBatch : reading' = Least(n, writeIndex - Oldest)
  /\ readStart' = Oldest
  /\ destination' = <<>>
  /\ intact' = ({SlotOf(i) : i \in Oldest .. Oldest + reading' - 1} \cap Unpublished = {})
  /\ UNCHANGED <<readIndex, skipped, producerVars>>

CopyOut ==
  /\ Len(destination) < reading
  /\ destination' = Append(destination, storage[SlotOf(readStart + Len(destination))])
  /\ UNCHANGED <<readIndex, readStart, reading, skipped, producerVars, intact>>

ReadPublishes ==
  /\ reading # 0 /\ Len(destination) = reading
  /\ readIndex' = readStart + reading
  /\ skipped' = skipped + (readStart - readIndex)
  /\ reading' = 0
  /\ UNCHANGED <<readStart, destination, producerVars, intact>>

\* The consumer dies: the frames it was copying are read again by the next one.
ConsumerDies ==
  /\ reading' = 0 /\ readStart' = 0 /\ destination' = <<>>
  /\ UNCHANGED <<readIndex, skipped, producerVars, intact>>

ProducerStep == WriteBegins \/ CopyIn \/ WritePublishes
ConsumerStep == ReadBegins \/ CopyOut \/ ReadPublishes

----------------------------------------------------------------------------
(* Properties *)

\* The type invariant of the ring and its two sides.
SharedTypeOK ==
  /\ writeIndex \in 0 .. MaxWritten /\ readIndex \in 0 .. writeIndex
  /\ storage \in [0 .. Capacity - 1 -> 0 .. MaxWritten]
  /\ writing \in 0 .. Capacity /\ written \in 0 .. writing
  /\ writeStart \in 0 .. MaxWritten /\ torn \in 0 .. Capacity
  /\ readStart \in 0 .. writeIndex /\ reading \in 0 .. Capacity
  /\ destination \in Seq(0 .. MaxWritten)
  /\ dropped \in Nat /\ skipped \in Nat /\ intact \in BOOLEAN

\* The unread frames that no longer exist: skipped already, or about to be.
Lost == skipped + Excess(writeIndex + writing - readIndex, Capacity)

(* "Count them, so the loss is not silent" (shared_ring.cpp:76): every     *)
(* frame the consumer will never get has been counted, before its storage  *)
(* is overwritten.                                                         *)
LossIsNeverSilent == Lost <= dropped

(* A read no write caught up with, not even one that died unfinished,      *)
(* returns the frames its indices promise (shared_ring.cpp:103), however   *)
(* far the consumer had been lapped before it began.                       *)
UndisturbedReadIsExact ==
  intact => \A i \in 1 .. Len(destination) : destination[i] = readStart + i - 1

\* The invariant of the ring: its types, and a read nothing overtook is exact.
SharedInv == SharedTypeOK /\ UndisturbedReadIsExact

=============================================================================
