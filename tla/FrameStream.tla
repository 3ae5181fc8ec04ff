---------------------------- MODULE FrameStream ----------------------------
(***************************************************************************)
(* A period's journey over the link: step_transmit turns it into a frame   *)
(* and sends it one fragment per SRT message (src/src/engine.cpp), the     *)
(* connection loses messages or breaks, and the receiving engine feeds     *)
(* each message to the Reassembler (src/src/wire/frame.cpp), takes a frame *)
(* when it is complete and decodes it.                                     *)
(*                                                                         *)
(* SRT live mode delivers messages in order, whole, and drops those that   *)
(* are too late (TLPKTDROP).  A frame's bytes are the identity of the      *)
(* attempt that encoded them: two attempts at one position carry different *)
(* audio.                                                                  *)
(***************************************************************************)
EXTENDS Integers, Sequences, SequencesExt

CONSTANTS FragmentCounts,  \* how many messages a frame may need
          SequenceModulus, \* the header's sequence is taken modulo this (2^32)
          MaxFrames,       \* bound: transmit turns
          MaxRuns,         \* bound: runs of the sending engine
          MaxConnections,  \* bound: connections made
          MaxForeign       \* bound: messages of a peer that is not this program

(* next_fragment refuses a frame of no or of more than 255 fragments.      *)
ASSUME FragmentCountsAssumption == FragmentCounts \subseteq 1 .. 255
ASSUME SequenceModulusAssumption == SequenceModulus \in Nat \ {0}
ASSUME StreamBoundsAssumption == {MaxFrames, MaxConnections, MaxForeign} \subseteq Nat

VARIABLES
  frames,       \* ghost: every frame encoded so far, oldest first
  sequence,     \* sequence_ of the sending engine
  position,     \* sample_position_ of the sending engine, in periods
  run,          \* ghost: which run of the sending engine
  fragment,     \* the fragment step_transmit sends next, or Idle
  peer,         \* who the receiver is connected to: Nobody, Sender, Stranger
  connections,  \* connections made so far
  foreign,      \* messages a stranger sent so far
  wire,         \* messages sent and neither received nor lost, oldest first
  assembling,   \* assembling_
  rxSequence,   \* frame_sequence_: the frame being assembled
  rxCount,      \* count_
  buffer,       \* buffer_: the frames whose fragments it accumulates;
                \*   next_index_ is its length
  dropped,      \* dropped_: frames the reassembler gave up and counted
  refused,      \* frames_refused_ of the receiving engine
  delivered,    \* ghost: the frames handed to the playout buffer
  arrived,      \* ghost: the fragments the receiver has read, and on which
                \*   connection
  sentWhole     \* ghost: the frames whose last fragment was accepted, oldest first

txVars == <<frames, sequence, position, run, fragment, sentWhole>>
linkVars == <<peer, connections, foreign>>
rxVars == <<assembling, rxSequence, rxCount, buffer, dropped, refused, delivered,
            arrived>>
streamVars == <<txVars, linkVars, wire, rxVars>>

Idle == -1
Nobody == "nobody"
Sender == "sender"
Stranger == "stranger"
NoFrame == 0  \* the frame of a message that is not this program's

FrameInit ==
  /\ frames = <<>> /\ sequence = 0 /\ position = 0 /\ run = 0 /\ fragment = Idle
  /\ sentWhole = <<>>
  /\ peer = Nobody /\ connections = 0 /\ foreign = 0
  /\ wire = <<>>
  /\ assembling = FALSE /\ rxSequence = 0 /\ rxCount = 0 /\ buffer = <<>>
  /\ dropped = 0 /\ refused = 0 /\ delivered = <<>> /\ arrived = {}

----------------------------------------------------------------------------
(* The sending engine *)

(* One turn begins: read a period from the device, pack and encode it with *)
(* the present sequence and sample position.                               *)
EncodePeriod ==
  /\ fragment = Idle /\ Len(frames) < MaxFrames
  /\ \E n \in FragmentCounts :
       frames' = Append(frames, [run |-> run, position |-> position,
                                 sequence |-> sequence, count |-> n])
  /\ fragment' = 0
  /\ UNCHANGED <<sequence, position, run, sentWhole, linkVars, wire, rxVars>>

\* The turn is over when the fragment just sent was the last of n.
IsLastFragment(n) == fragment + 1 = n

(* send_message accepts the next fragment; after the last one the sequence *)
(* and the sample position advance together.                               *)
SendFragment ==
  LET f == Len(frames)
  IN /\ fragment # Idle /\ peer = Sender
     /\ wire' = Append(wire, [frame |-> f, index |-> fragment])
     /\ \/ /\ IsLastFragment(frames[f].count)
           /\ fragment' = Idle
           /\ sequence' = sequence + 1
           /\ position' = position + 1
           /\ sentWhole' = Append(sentWhole, f)
        \/ /\ ~IsLastFragment(frames[f].count)
           /\ fragment' = fragment + 1
           /\ UNCHANGED <<sequence, position, sentWhole>>
     /\ UNCHANGED <<frames, run, linkVars, rxVars>>

\* Mutant: a failed send moves on to the next position all the same.
SendFailsAdvances ==
  /\ fragment # Idle
  /\ fragment' = Idle
  /\ position' = position + 1
  /\ UNCHANGED <<frames, sequence, run, sentWhole, linkVars, wire, rxVars>>

(* send_message fails: the link is down, or congested, or the socket died  *)
(* and goes down with it.  The rest of the frame is never sent, and the    *)
(* next turn reuses its sequence and position.                             *)
SendFails ==
  /\ fragment # Idle
  /\ fragment' = Idle
  /\ UNCHANGED peer \/ (peer = Sender /\ peer' = Nobody)
  /\ UNCHANGED <<frames, sequence, position, run, sentWhole, connections, foreign, wire, rxVars>>

\* The sending appliance restarts: a new engine counts from zero.
SenderRestarts ==
  /\ run + 1 < MaxRuns
  /\ run' = run + 1 /\ sequence' = 0 /\ position' = 0 /\ fragment' = Idle
  /\ peer' = IF peer = Sender THEN Nobody ELSE peer
  /\ UNCHANGED <<frames, sentWhole, connections, foreign, wire, rxVars>>

----------------------------------------------------------------------------
(* The connection *)

(* The receiving engine's reassembler is not reset with the link: what it  *)
(* had half assembled is still there when the next connection speaks.      *)
Connects ==
  /\ peer = Nobody /\ connections < MaxConnections
  /\ peer' \in {Sender, Stranger}
  /\ connections' = connections + 1
  /\ wire' = <<>>
  /\ UNCHANGED <<foreign, txVars, rxVars>>

Breaks ==
  /\ peer # Nobody /\ peer' = Nobody
  /\ UNCHANGED <<connections, foreign, wire, txVars, rxVars>>

\* TLPKTDROP: a message that is too late is dropped whole.
LosesMessage ==
  /\ \E i \in 1 .. Len(wire) : wire' = RemoveAt(wire, i)
  /\ UNCHANGED <<txVars, linkVars, rxVars>>

\* A peer that is not this program sends something.
StrangerSends ==
  /\ peer = Stranger /\ foreign < MaxForeign
  /\ foreign' = foreign + 1
  /\ wire' = Append(wire, [frame |-> NoFrame, index |-> 0])
  /\ UNCHANGED <<peer, connections, txVars, rxVars>>

----------------------------------------------------------------------------
(* The receiving engine: one message received, fed, and, when it completes *)
(* a frame, taken and decoded                                              *)

\* The fragment header read_fragment_header reads back from a message of ours.
Header(m) ==
  [sequence |-> frames[m.frame].sequence % SequenceModulus, index |-> m.index,
   count |-> frames[m.frame].count]

\* Mutant: only a new sequence breaks the frame being assembled.
BreaksOnSequenceOnly(h) == assembling /\ h.sequence # rxSequence

(* feed: a fragment that is not the one expected means the frame being     *)
(* assembled can never be whole.                                           *)
BreaksOpenFrame(h) ==
  assembling /\ (h.sequence # rxSequence \/ h.index # Len(buffer))

\* Mutant: a complete frame is decoded without looking at its checksum.
AlwaysIntact(fragments) == TRUE

(* decode: the checksum over the whole frame, which fragments of two       *)
(* attempts do not share.                                                  *)
Intact(fragments) == \A i \in 1 .. Len(fragments) : fragments[i] = fragments[1]

\* Mutant: what was buffered of the abandoned frame stays.
AbandonKeepsBuffer == assembling' = FALSE /\ rxCount' = 0 /\ UNCHANGED buffer

Abandon == assembling' = FALSE /\ rxCount' = 0 /\ buffer' = <<>>

\* The frame is complete: take_frame, then decode hands it over or refuses it.
TakeFrame(fragments) ==
  /\ Abandon
  /\ \/ /\ Intact(fragments)
        /\ delivered' = Append(delivered, Head(fragments))
        /\ UNCHANGED refused
     \/ /\ ~Intact(fragments)
        /\ refused' = refused + 1
        /\ UNCHANGED delivered

\* The fragment joins the buffer, and may be the one that completes it.
Accumulate(fragments, n) ==
  \/ Len(fragments) = n /\ TakeFrame(fragments)
  \/ /\ Len(fragments) # n
     /\ assembling' = TRUE /\ rxCount' = n /\ buffer' = fragments
     /\ UNCHANGED <<delivered, refused>>

\* What feed adds to dropped_.
CountBroken(h) == IF BreaksOpenFrame(h) THEN 1 ELSE 0

\* Joined part-way: nothing to keep until a frame starts at its first fragment.
JoinsPartWay(h) ==
  /\ h.index # 0
  /\ Abandon
  /\ UNCHANGED <<rxSequence, delivered, refused>>

StartsFrame(h, m) ==
  /\ h.index = 0
  /\ rxSequence' = h.sequence
  /\ Accumulate(<<m.frame>>, h.count)

ContinuesFrame(h, m) ==
  /\ h.count = rxCount
  /\ Accumulate(Append(buffer, m.frame), rxCount)
  /\ UNCHANGED rxSequence

\* The fragment count changed within a frame: abandoned and refused.
CountChanges(h) ==
  /\ h.count # rxCount
  /\ Abandon
  /\ refused' = refused + 1
  /\ UNCHANGED <<rxSequence, delivered>>

ReceiveFragment ==
  LET m == Head(wire)
      h == Header(m)
  IN /\ wire # <<>> /\ m.frame # NoFrame
     /\ wire' = Tail(wire)
     /\ arrived' = arrived \cup {[frame |-> m.frame, index |-> m.index,
                                 connection |-> connections]}
     /\ dropped' = dropped + CountBroken(h)
     /\ IF assembling /\ ~BreaksOpenFrame(h)
          THEN ContinuesFrame(h, m) \/ CountChanges(h)
          ELSE JoinsPartWay(h) \/ StartsFrame(h, m)
     /\ UNCHANGED <<txVars, linkVars>>

\* Not our stream: give up on the buffer, refuse, count no frame as dropped.
ReceiveForeign ==
  /\ wire # <<>> /\ Head(wire).frame = NoFrame
  /\ wire' = Tail(wire)
  /\ Abandon
  /\ refused' = refused + 1
  /\ UNCHANGED <<txVars, linkVars, rxSequence, dropped, delivered, arrived>>

(* Nothing is waiting: the receive times out, which is not a failure of    *)
(* the link, and the turn goes on with what is held.                       *)
ReceiveTimesOut == wire = <<>> /\ UNCHANGED streamVars

FrameNext ==
  \/ EncodePeriod \/ SendFragment \/ SendFails \/ SenderRestarts
  \/ Connects \/ Breaks \/ LosesMessage \/ StrangerSends
  \/ ReceiveFragment \/ ReceiveForeign \/ ReceiveTimesOut

FrameSpec == FrameInit /\ [][FrameNext]_streamVars

----------------------------------------------------------------------------
(* Properties *)

Messages == [frame : 0 .. MaxFrames, index : 0 .. 254]
Attempts == [run : Nat, position : Nat, sequence : Nat, count : FragmentCounts]

\* The type invariant of both engines and of the wire.
FrameTypeOK ==
  /\ frames \in Seq(Attempts)
  /\ Len(frames) <= MaxFrames /\ sentWhole \in Seq(1 .. Len(frames))
  /\ sequence \in Nat /\ position \in Nat /\ run \in Nat
  /\ fragment \in {Idle} \cup 0 .. 254
  /\ peer \in {Nobody, Sender, Stranger}
  /\ connections \in 0 .. MaxConnections /\ foreign \in 0 .. MaxForeign
  /\ wire \in Seq(Messages)
  /\ arrived \subseteq [frame : 1 .. Len(frames), index : 0 .. 254,
                         connection : 0 .. MaxConnections]
  /\ assembling \in BOOLEAN /\ rxSequence \in 0 .. SequenceModulus - 1
  /\ rxCount \in {0} \cup FragmentCounts
  /\ buffer \in Seq(1 .. Len(frames))
  /\ assembling <=> buffer # <<>>
  /\ assembling => Len(buffer) < rxCount
  /\ dropped \in Nat /\ refused \in Nat
  /\ delivered \in Seq(1 .. Len(frames))

ArrivedOf(f) == {m \in arrived : m.frame = f}
Has(f, i) == \E m \in arrived : m.frame = f /\ m.index = i
Whole(f) == \A i \in 0 .. frames[f].count - 1 : Has(f, i)

\* All of it arrived, and all on one connection.
WholeOn(f, c) ==
  \A i \in 0 .. frames[f].count - 1 : [frame |-> f, index |-> i, connection |-> c] \in arrived

(* "With a sequence and an index per message, a missing fragment is        *)
(* detectable and only its own frame is lost" (wire/frame.hpp:164): a      *)
(* frame all of whose fragments arrive on one connection is delivered,     *)
(* whatever was lost, retried, or half assembled before it, across         *)
(* reconnections and across the wrap of the sequence.  A frame cut by a    *)
(* reconnection is only safe if nobody else had the connection between.    *)
OnlyItsOwnFrameIsLost ==
  \A f \in 1 .. Len(frames) : \A c \in 1 .. connections :
    WholeOn(f, c) => \E i \in 1 .. Len(delivered) : delivered[i] = f

(* Nothing is played that was not sent as one frame: every delivered frame *)
(* arrived whole.  A retried period reuses the sequence of the frame whose *)
(* send failed, so the header alone does not tell their fragments apart.   *)
DeliveredWhole == \A i \in 1 .. Len(delivered) : Whole(delivered[i])

(* The reassembler never counts more frames as given up than there are     *)
(* frames that arrived in part.                                            *)
DroppedIsNotInflated ==
  dropped <= Cardinality({f \in 1 .. Len(frames) : ArrivedOf(f) # {} /\ ~Whole(f)})

\* The invariant of the stream: its types, nothing delivered that did not arrive
\* whole, and no frame counted as lost that was not.
FrameInv == FrameTypeOK /\ DeliveredWhole /\ DroppedIsNotInflated

(* The refinement: the frames sent whole are the periods of PeriodStream.  *)
(* A frame whose send failed is no period; its position is tried again.    *)
SentPeriods ==
  [k \in 1 .. Len(sentWhole) |->
     [run |-> frames[sentWhole[k]].run, position |-> frames[sentWhole[k]].position]]

PlaceIn(t, f) == CHOOSE k \in 1 .. Len(t) : t[k] = f

DeliveredPeriods == [i \in 1 .. Len(delivered) |-> PlaceIn(sentWhole, delivered[i])]

Stream == INSTANCE PeriodStream WITH sent <- SentPeriods, delivered <- DeliveredPeriods

(* What reaches the playout buffer is what PeriodStream promises: periods  *)
(* sent whole, each position of a run at most once, in order.              *)
ImplementsPeriodStream == Stream!StreamSpec

=============================================================================
