----------------------------- MODULE FloatRing -----------------------------
(***************************************************************************)
(* The lock-free ring between the realtime audio callback and the engine   *)
(* (src/src/audio/float_ring.cpp): one producer and one consumer, each the *)
(* only writer of its index.  The copies are not atomic, so each frame is  *)
(* copied in a step of its own; an index is published after its copies     *)
(* (release) and read before the other side's (acquire).                   *)
(*                                                                         *)
(* The frame accepted at index i of the stream is the number i, so a read  *)
(* is right when it finds the numbers its indices promise.                 *)
(***************************************************************************)
EXTENDS Integers, Sequences

CONSTANTS Capacity,      \* capacity_frames_
          MaxBatch,      \* the most frames offered or asked for at once
          IndexModulus,  \* the indices wrap at this (2^64)
          CountCap       \* the counters saturate here

\* open refuses a ring of fewer than two frames.
ASSUME CapacityAssumption == Capacity \in Nat \ {0, 1}
\* The indices wrap where the slots do: 2^64 and the 4096 frames that
\* CoreAudioBackend::open takes for every period up to 64.
ASSUME IndexModulusAssumption ==
  IndexModulus \in Nat /\ IndexModulus > Capacity /\ IndexModulus % Capacity = 0
ASSUME BoundsAssumption == MaxBatch \in Nat /\ CountCap \in Nat

VARIABLES
  writeIndex,   \* write_index_
  readIndex,    \* read_index_
  storage,      \* buffer_: the number of the frame in each slot
  writing,      \* frames the write in progress copies; 0 when there is none
  written,      \* of those, copied so far
  reading,      \* frames the read in progress copies; 0 when there is none
  destination,  \* the frames it copied so far
  dropped,      \* frames_dropped_
  underrun,     \* frames_underrun_
  got           \* ghost: what the last read returned

producerVars == <<writeIndex, storage, writing, written, dropped>>
consumerVars == <<readIndex, reading, destination, underrun, got>>
ringVars == <<producerVars, consumerVars>>

Least(a, b) == IF a < b THEN a ELSE b
Counted(count, n) == Least(CountCap, count + n)

\* The i-th slot of a copy that begins at an index, in one or two memcpys.
SlotFrom(index, i) == ((index % Capacity) + i) % Capacity
Advance(index, n) == (index + n) % IndexModulus

\* Frames between the indices, in arithmetic that wraps.
Used == (writeIndex - readIndex) % IndexModulus

RingInit ==
  /\ writeIndex = 0 /\ readIndex = 0
  /\ storage = [s \in 0 .. Capacity - 1 |-> 0]
  /\ writing = 0 /\ written = 0 /\ reading = 0 /\ destination = <<>>
  /\ dropped = 0 /\ underrun = 0 /\ got = <<>>

----------------------------------------------------------------------------
(* The producer *)

\* Mutant: the write may fill one slot more than is free.
RoomOffByOne == Capacity - Used + 1

Room == Capacity - Used

\* write: load the indices; what does not fit is dropped and counted.
WriteBegins(n) ==
  /\ writing = 0
  /\ writing' = Least(n, Room)
  /\ dropped' = Counted(dropped, n - Least(n, Room))
  /\ written' = 0
  /\ UNCHANGED <<writeIndex, storage, consumerVars>>

CopyIn ==
  /\ written < writing
  /\ storage' = [storage EXCEPT ![SlotFrom(writeIndex, written)] =
                   Advance(writeIndex, written)]
  /\ written' = written + 1
  /\ UNCHANGED <<writeIndex, writing, dropped, consumerVars>>

\* Mutant: the index is published before the samples are all there.
WritePublishesEarly ==
  /\ writing # 0
  /\ writeIndex' = Advance(writeIndex, writing)
  /\ writing' = 0 /\ written' = 0
  /\ UNCHANGED <<storage, dropped, consumerVars>>

WritePublishes ==
  /\ writing # 0 /\ written = writing
  /\ writeIndex' = Advance(writeIndex, writing)
  /\ writing' = 0 /\ written' = 0
  /\ UNCHANGED <<storage, dropped, consumerVars>>

----------------------------------------------------------------------------
(* The consumer *)

Available == Used

\* read: load the indices; what is not there is counted.
ReadBegins(n) ==
  /\ reading = 0
  /\ reading' = Least(n, Available)
  /\ underrun' = Counted(underrun, n - Least(n, Available))
  /\ destination' = <<>>
  /\ UNCHANGED <<readIndex, got, producerVars>>

CopyOut ==
  /\ Len(destination) < reading
  /\ destination' = Append(destination, storage[SlotFrom(readIndex, Len(destination))])
  /\ UNCHANGED <<readIndex, reading, underrun, got, producerVars>>

ReadPublishes ==
  /\ reading # 0 /\ Len(destination) = reading
  /\ readIndex' = Advance(readIndex, reading)
  /\ got' = destination
  /\ reading' = 0 /\ destination' = <<>>
  /\ UNCHANGED <<underrun, producerVars>>

----------------------------------------------------------------------------
(* Properties *)

\* The type invariant of the ring and its two sides.
RingTypeOK ==
  /\ writeIndex \in 0 .. IndexModulus - 1 /\ readIndex \in 0 .. IndexModulus - 1
  /\ storage \in [0 .. Capacity - 1 -> 0 .. IndexModulus - 1]
  /\ Used <= Capacity
  /\ writing \in 0 .. MaxBatch /\ written \in 0 .. writing
  /\ reading \in 0 .. MaxBatch
  /\ destination \in Seq(0 .. IndexModulus - 1) /\ Len(destination) <= reading
  /\ dropped \in 0 .. CountCap /\ underrun \in 0 .. CountCap

(* The producer never touches a slot the consumer may be reading: while a  *)
(* write is being copied, every frame between the indices stays what it    *)
(* was published as.  "the arithmetic keeps working across counter wrap"   *)
(* (float_ring.hpp:21) says so of every capacity.                          *)
PublishedIsStable ==
  \A i \in 0 .. Used - 1 : storage[SlotFrom(readIndex, i)] = Advance(readIndex, i)

\* The invariant of the ring: its types, and what was published stays.
RingInv == RingTypeOK /\ PublishedIsStable

Queue == INSTANCE AudioQueue WITH
  Room <- Capacity,
  Modulus <- IndexModulus,
  queue <- [i \in 1 .. Used |-> storage[SlotFrom(readIndex, i - 1)]]

(* However the steps of the two sides interleave, the ring is a queue:     *)
(* frames come out once each and in the order they went in.                *)
ImplementsAudioQueue == Queue!QueueSpec

=============================================================================
