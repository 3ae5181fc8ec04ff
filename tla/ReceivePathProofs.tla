------------------------- MODULE ReceivePathProofs -------------------------
(***************************************************************************)
(* The invariants of the receiving half, for every size of the timeline,   *)
(* set of positions, number of connections and length of the delay line.   *)
(***************************************************************************)
EXTENDS ReceivePath, TLAPS

Settling == supervisor \in {"configuring", "requesting"}

\* The timeline: what is to be played is held.
TimelineOK ==
  /\ held \subseteq Stamps /\ seated \in BOOLEAN
  /\ head \in Nat /\ ready \in Nat /\ head <= ready /\ ready <= head + Size
  /\ head .. ready - 1 \subseteq held

\* The link, the supervisor and the loop.
ControlOK ==
  /\ streams \in 0 .. MaxStreams /\ socket \in {Down, streams}
  /\ blocking \in BOOLEAN /\ alive \in BOOLEAN /\ coming \in 0 .. MaxStamp + 1
  /\ supervisor \in {"watching", "opening", "configuring", "requesting"}
  /\ receiver \in {"turn", "draining", "blocked", "playing", "pulling", "trimming",
                   "egress"}
  /\ resetDue \in BOOLEAN /\ drained \in 0 .. MaxFrames - 1

ClocksOK ==
  /\ playing \in BOOLEAN /\ priming \in 0 .. Alarm
  /\ ~playing => priming < Alarm
  /\ startup \in 0 .. TrimWindow /\ window \in {0, TrimWindow}

\* What a connection made so far can have carried.
PiecesSoFar == {Silence} \cup [stream : 1 .. streams, position : Stamps]

EgressOK ==
  /\ carry \in PiecesSoFar /\ owed \in PiecesSoFar /\ heard \in PiecesSoFar
  /\ line \in Seq(PiecesSoFar) /\ Len(line) = LineLength
  /\ fed \in BOOLEAN

\* Whose the held periods are: of the newest connection, once a reset is behind it.
HeldIsTagged ==
  /\ stream \in [Stamps -> 0 .. streams]
  /\ \A p \in held : stream[p] # 0
  /\ resetDue \/ Settling \/ \A p \in held : stream[p] = streams

ReceiveProofInv == TimelineOK /\ ControlOK /\ ClocksOK /\ EgressOK /\ HeldIsTagged

----------------------------------------------------------------------------
(* The timeline *)

\* A run is made of members, and stays in reach.
LEMMA RunIsHeld ==
  ASSUME NEW S, NEW h \in Nat, NEW e \in Nat, NEW r \in Run(S, h, e)
  PROVE  r \in Nat /\ e <= r /\ r <= h + Size /\ e .. r - 1 \subseteq S
  BY SizeAssumption DEF Run

\* Two intervals that meet.
LEMMA IntervalSplits ==
  ASSUME NEW a \in Int, NEW b \in Int, NEW c \in Int
  PROVE  a .. c - 1 \subseteq (a .. b - 1) \cup (b .. c - 1)
  OBVIOUS

LEMMA ArriveKeepsTimeline ==
  ASSUME TimelineOK, NEW p \in Stamps, Arrive(p)
  PROVE  TimelineOK' /\ held' \subseteq held \cup {p}
<1> DEFINE newHead == Room(IF seated THEN head ELSE p, p)
           end == IF ~seated THEN p ELSE IF ready < newHead THEN newHead ELSE ready
           kept == From(newHead, held) \cup {p}
<1>1. /\ head' = newHead /\ held' = kept /\ seated' = TRUE
      /\ \/ p = end /\ ready' \in Run(kept, newHead, end)
         \/ p # end /\ ready' = end
      /\ seated => head <= p
  BY DEF Arrive
<1>2. /\ p \in Nat /\ newHead \in Nat /\ newHead <= p
      /\ seated => head <= newHead
  BY <1>1, SizeAssumption, StampsAssumption DEF Room, TimelineOK
<1>3. end \in Nat /\ newHead <= end
  BY <1>2 DEF TimelineOK
<1>4. end <= newHead + Size
  <2>1. CASE ~seated
    <3>1. end = p /\ newHead = p
      BY <2>1, SizeAssumption, StampsAssumption DEF Room
    <3>2. QED
      BY <1>2, <3>1, SizeAssumption
  <2>2. CASE seated
    <3>1. end \in {newHead, ready}
      BY <2>2
    <3>2. head <= newHead /\ ready <= head + Size /\ head \in Nat /\ ready \in Nat
      BY <1>2, <2>2 DEF TimelineOK
    <3> HIDE DEF newHead, end
    <3>3. QED
      BY <1>2, <3>1, <3>2, SizeAssumption
  <2>3. QED
    BY <2>1, <2>2
<1>5. newHead .. end - 1 \subseteq kept
  <2>1. CASE ~seated
    <3>1. end = p /\ newHead = p
      BY <2>1, SizeAssumption, StampsAssumption DEF Room
    <3>2. p .. p - 1 = {}
      BY StampsAssumption
    <3>3. QED
      BY <3>1, <3>2
  <2>2. CASE seated /\ ready < newHead
    BY <1>2, <2>2
  <2>3. CASE seated /\ ~(ready < newHead)
    <3>1. \A q \in newHead .. ready - 1 : q \in head .. ready - 1 /\ newHead <= q
      BY <1>2, <2>3 DEF TimelineOK
    <3>2. QED
      BY <2>3, <3>1 DEF TimelineOK, From
  <2>4. QED
    BY <2>1, <2>2, <2>3
<1> HIDE DEF newHead, end, kept
<1>6. /\ ready' \in Nat /\ newHead <= ready' /\ ready' <= newHead + Size
      /\ newHead .. ready' - 1 \subseteq kept
  <2>1. CASE p = end /\ ready' \in Run(kept, newHead, end)
    <3>1. /\ ready' \in Nat /\ end <= ready' /\ ready' <= newHead + Size
          /\ end .. ready' - 1 \subseteq kept
      BY <1>2, <1>3, <2>1, RunIsHeld
    <3>2. newHead .. ready' - 1 \subseteq (newHead .. end - 1) \cup (end .. ready' - 1)
      <4>1. newHead \in Int /\ end \in Int /\ ready' \in Int
        BY <1>2, <1>3, <3>1
      <4>2. QED
        BY ONLY <4>1, IntervalSplits, Zenon
    <3>3. newHead .. ready' - 1 \subseteq kept
      BY <1>5, <3>1, <3>2
    <3>4. newHead <= ready'
      BY <1>2, <1>3, <3>1
    <3>5. QED
      BY <3>1, <3>3, <3>4
  <2>2. CASE ready' = end
    BY <1>3, <1>4, <1>5, <2>2
  <2>3. QED
    BY <1>1, <2>1, <2>2
<1>7. kept \subseteq held \cup {p}
  BY DEF kept, From
<1>8. QED
  BY <1>1, <1>2, <1>6, <1>7 DEF TimelineOK

\* Playing gives what is held, and loses nothing else.
LEMMA PlayKeepsTimeline ==
  ASSUME TimelineOK, Play
  PROVE  TimelineOK' /\ held' \subseteq held /\ head \in held
<1>1. head' = head + 1 /\ ready' = ready /\ held' = held \ {head} /\ seated' = seated /\ head < ready
  BY DEF Play
<1>2. head \in head .. ready - 1
  BY <1>1 DEF TimelineOK
<1>3. \A q \in head + 1 .. ready - 1 : q \in head .. ready - 1 /\ q # head
  BY DEF TimelineOK
<1>4. head + 1 <= ready /\ ready <= head + 1 + Size /\ head + 1 \in Nat
  BY <1>1, SizeAssumption DEF TimelineOK
<1>5. QED
  BY <1>1, <1>2, <1>3, <1>4 DEF TimelineOK

LEMMA CrossKeepsTimeline ==
  ASSUME TimelineOK, Cross
  PROVE  TimelineOK' /\ held' \subseteq held
<1>1. /\ head' = head + 1 /\ held' = held \ {head} /\ seated' = seated
      /\ ready' \in Run(held, head + 1, head + 1)
  BY DEF Cross
<1>2. head \in Nat /\ head + 1 \in Nat
  BY DEF TimelineOK
<1>3. /\ ready' \in Nat /\ head + 1 <= ready' /\ ready' <= head + 1 + Size
      /\ head + 1 .. ready' - 1 \subseteq held
  BY <1>1, <1>2, RunIsHeld
<1>4. head + 1 .. ready' - 1 \subseteq held \ {head}
  <2>1. head \notin head + 1 .. ready' - 1
    BY <1>2
  <2>2. QED
    BY <1>3, <2>1
<1>5. QED
  BY <1>1, <1>2, <1>3, <1>4 DEF TimelineOK

LEMMA TrimKeepsTimeline ==
  ASSUME TimelineOK, NEW keep \in Nat, Trim(keep)
  PROVE  TimelineOK' /\ held' \subseteq held
<1> DEFINE newHead == ready - keep
<1>1. /\ head' = newHead /\ held' = From(newHead, held) /\ seated' = seated
      /\ ready' \in Run(held, newHead, ready) /\ keep < ready - head
  BY DEF Trim
<1>2. newHead \in Nat /\ head <= newHead /\ newHead <= ready /\ ready \in Nat
  BY <1>1 DEF TimelineOK
<1> HIDE DEF newHead
<1>3. /\ ready' \in Nat /\ ready <= ready' /\ ready' <= newHead + Size
      /\ ready .. ready' - 1 \subseteq held
  BY <1>1, <1>2, RunIsHeld
<1>4. newHead .. ready' - 1 \subseteq From(newHead, held)
  <2>1. newHead .. ready' - 1 \subseteq (newHead .. ready - 1) \cup (ready .. ready' - 1)
    <3>1. newHead \in Int /\ ready \in Int /\ ready' \in Int
      BY <1>2, <1>3
    <3>2. QED
      BY ONLY <3>1, IntervalSplits, Zenon
  <2>2. newHead .. ready - 1 \subseteq head .. ready - 1
    BY <1>2 DEF TimelineOK
  <2>3. newHead .. ready' - 1 \subseteq held
    BY <1>3, <2>1, <2>2 DEF TimelineOK
  <2>4. \A q \in newHead .. ready' - 1 : newHead <= q
    BY <1>2, <1>3
  <2>5. QED
    BY <2>3, <2>4 DEF From
<1>5. newHead <= ready'
  BY <1>2, <1>3
<1>6. QED
  BY <1>1, <1>2, <1>3, <1>4, <1>5 DEF TimelineOK, From

\* What is left keeps its stream.
LEMMA TaggingKeepsStreams ==
  ASSUME HeldIsTagged, ControlOK, held \subseteq Stamps, held' \subseteq held, stream' = Tagged(Down),
         UNCHANGED <<streams, resetDue, supervisor>>
  PROVE  HeldIsTagged'
<1>1. stream' = [p \in Stamps |-> IF p \notin held' THEN 0
                                  ELSE IF p \in held THEN stream[p] ELSE Down]
  BY DEF Tagged
<1>2. \A p \in Stamps : stream'[p] = IF p \notin held' THEN 0 ELSE stream[p]
  BY <1>1 DEF Down
<1>3. streams \in Nat
  BY SizesAssumption DEF ControlOK
<1>4. stream' \in [Stamps -> 0 .. streams]
  <2>1. \A p \in Stamps : stream'[p] \in 0 .. streams
    BY <1>2, <1>3 DEF HeldIsTagged
  <2>2. QED
    BY <1>1, <2>1
<1>5. \A p \in held' : stream'[p] = stream[p]
  BY <1>2
<1>6. QED
  BY <1>4, <1>5 DEF HeldIsTagged, Settling

----------------------------------------------------------------------------
(* The steps *)

\* The steps outside the receive loop, and those of it that only wait.
OutsideStep ==
  \/ PeerGoes \/ StreamSkips \/ SendMarksDown \/ SupervisorStep
  \/ FindNoFrame \/ Block \/ ReceiveFails

\* More connections can have carried more.
LEMMA MoreStreamsMorePieces ==
  ASSUME EgressOK, ControlOK, streams' \in Nat, streams <= streams', UNCHANGED egressVars
  PROVE  EgressOK'
<1>1. PiecesSoFar \subseteq PiecesSoFar'
  BY SizesAssumption DEF PiecesSoFar, ControlOK
<1>2. line \in Seq(PiecesSoFar')
  BY <1>1 DEF EgressOK
<1>3. QED
  BY <1>1, <1>2 DEF EgressOK, egressVars

LEMMA OutsideKeepsInv ==
  ASSUME ReceiveProofInv, OutsideStep
  PROVE  ReceiveProofInv'
<1>1. UNCHANGED <<timelineVars, clockVars, egressVars, stream>>
  BY DEF OutsideStep, PeerGoes, StreamSkips, SendMarksDown, SupervisorStep, SupervisorSeesDown,
         OpenFails, OpenPublishes, SetNonblocking, RequestReset, FindNoFrame, Block,
         ReceiveFails
<1>2. TimelineOK' /\ ClocksOK'
  BY <1>1 DEF timelineVars, clockVars, TimelineOK, ClocksOK, ReceiveProofInv
<1>3. ControlOK'
  <2> USE DEF ReceiveProofInv, ControlOK, linkVars, Down
  <2>1. CASE PeerGoes
    BY <2>1 DEF PeerGoes
  <2>2. CASE StreamSkips
    BY <2>2, MaxStampAssumption DEF StreamSkips
  <2>3. CASE SendMarksDown
    <3>1. coming' \in 0 .. MaxStamp + 1
      BY <2>3, MaxStampAssumption DEF SendMarksDown, MarkDown
    <3>2. QED
      BY <2>3, <3>1 DEF SendMarksDown, MarkDown
  <2>4. CASE SupervisorSeesDown
    BY <2>4 DEF SupervisorSeesDown, SupervisorGoes
  <2>5. CASE OpenFails
    BY <2>5 DEF OpenFails, SupervisorGoes
  <2>6. CASE OpenPublishes
    <3>1. coming' \in 0 .. MaxStamp + 1
      BY <2>6, MaxStampAssumption DEF OpenPublishes
    <3>2. streams' \in 0 .. MaxStreams /\ socket' = streams'
      BY <2>6, SizesAssumption DEF OpenPublishes
    <3>3. QED
      BY <2>6, <3>1, <3>2 DEF OpenPublishes, SupervisorGoes
  <2>7. CASE SetNonblocking
    BY <2>7 DEF SetNonblocking, SupervisorGoes
  <2>8. CASE RequestReset
    BY <2>8 DEF RequestReset, SupervisorGoes
  <2>9. CASE FindNoFrame
    BY <2>9, SizesAssumption DEF FindNoFrame, ReceiverGoes
  <2>10. CASE Block
    BY <2>10 DEF Block, ReceiverGoes
  <2>11. CASE ReceiveFails
    <3>1. coming' \in 0 .. MaxStamp + 1 /\ drained' \in 0 .. MaxFrames - 1
      BY <2>11, SizesAssumption, MaxStampAssumption DEF ReceiveFails, MarkDown
    <3>2. QED
      BY <2>11, <3>1 DEF ReceiveFails, MarkDown, ReceiverGoes
  <2>12. QED
    BY <2>1, <2>2, <2>3, <2>4, <2>5, <2>6, <2>7, <2>8, <2>9, <2>10, <2>11
       DEF OutsideStep, SupervisorStep
<1>4. streams \in Nat /\ streams' \in Nat /\ streams <= streams'
  <2>1. streams' = streams \/ streams' = streams + 1
    BY DEF OutsideStep, PeerGoes, StreamSkips, SendMarksDown, SupervisorStep,
           SupervisorSeesDown, OpenFails, OpenPublishes, SetNonblocking, RequestReset,
           FindNoFrame, Block, ReceiveFails, MarkDown, linkVars
  <2>2. streams \in Nat
    BY SizesAssumption DEF ReceiveProofInv, ControlOK
  <2>3. QED
    BY <2>1, <2>2
<1>5. EgressOK'
  BY <1>1, <1>4, MoreStreamsMorePieces DEF ReceiveProofInv
<1>6. HeldIsTagged'
  <2>1. stream' \in [Stamps -> 0 .. streams'] /\ \A p \in held' : stream'[p] # 0
    BY <1>1, <1>4 DEF ReceiveProofInv, HeldIsTagged, timelineVars
  <2>2. resetDue \/ Settling => resetDue' \/ Settling'
    BY DEF OutsideStep, PeerGoes, StreamSkips, SendMarksDown, SupervisorStep,
           SupervisorSeesDown, OpenFails, OpenPublishes, SetNonblocking, RequestReset,
           FindNoFrame, Block, ReceiveFails, SupervisorGoes, Settling
  <2>3. streams' = streams \/ Settling'
    BY DEF OutsideStep, PeerGoes, StreamSkips, SendMarksDown, SupervisorStep,
           SupervisorSeesDown, OpenFails, OpenPublishes, SetNonblocking, RequestReset,
           FindNoFrame, Block, ReceiveFails, MarkDown, SupervisorGoes, Settling, linkVars
  <2>4. QED
    BY <1>1, <2>1, <2>2, <2>3 DEF ReceiveProofInv, HeldIsTagged, timelineVars
<1>7. QED
  BY <1>2, <1>3, <1>5, <1>6 DEF ReceiveProofInv

\* A turn begins: what was mixed goes with the timeline it was in.
LEMMA TurnBeginsKeepsInv ==
  ASSUME ReceiveProofInv, TurnBegins
  PROVE  ReceiveProofInv'
<1>1. /\ UNCHANGED <<linkVars, supervisor, drained, carry, line, owed, heard>>
      /\ receiver' = "draining" /\ fed' = FALSE /\ resetDue' = FALSE
  BY DEF TurnBegins, ReceiverGoes
<1>2. ControlOK'
  BY <1>1 DEF ReceiveProofInv, ControlOK, linkVars
<1>3. EgressOK'
  BY <1>1 DEF ReceiveProofInv, EgressOK, PiecesSoFar, linkVars
<1>4. CASE resetDue /\ ResetPlayout
  <2>1. /\ head' = 0 /\ held' = {} /\ ready' = 0 /\ seated' = FALSE
        /\ stream' = [p \in Stamps |-> 0]
        /\ playing' = FALSE /\ priming' = 0 /\ startup' = 0 /\ window' = TrimWindow
    BY <1>4 DEF ResetPlayout, TimelineRebuilt
  <2>2. TimelineOK'
    <3>1. head' .. ready' - 1 = {} /\ head' <= ready' /\ ready' <= head' + Size
      BY <2>1, SizeAssumption
    <3>2. QED
      BY <2>1, <3>1 DEF TimelineOK
  <2>3. ClocksOK'
    <3>1. 0 \in 0 .. Alarm /\ 0 < Alarm /\ 0 \in 0 .. TrimWindow
      BY SizesAssumption, GeometryAssumption
    <3>2. QED
      BY <2>1, <3>1 DEF ClocksOK
  <2>4. HeldIsTagged'
    <3>1. streams' \in Nat
      BY <1>2, SizesAssumption DEF ControlOK
    <3>2. stream' \in [Stamps -> 0 .. streams']
      BY <2>1, <3>1
    <3>3. QED
      BY <2>1, <3>2 DEF HeldIsTagged
  <2>5. QED
    BY <1>2, <1>3, <2>2, <2>3, <2>4 DEF ReceiveProofInv
<1>5. CASE ~resetDue /\ UNCHANGED <<timelineVars, clockVars, stream>>
  <2>1. TimelineOK' /\ ClocksOK'
    BY <1>5 DEF ReceiveProofInv, TimelineOK, ClocksOK, timelineVars, clockVars
  <2>2. HeldIsTagged'
    BY <1>1, <1>5 DEF ReceiveProofInv, HeldIsTagged, Settling, timelineVars, linkVars
  <2>3. QED
    BY <1>2, <1>3, <2>1, <2>2 DEF ReceiveProofInv
<1>6. QED
  BY <1>4, <1>5 DEF TurnBegins

\* What arrives is of the newest connection.
LEMMA ReceivePeriodKeepsInv ==
  ASSUME ReceiveProofInv, ReceivePeriod
  PROVE  ReceiveProofInv'
<1>1. /\ socket # Down /\ coming <= MaxStamp /\ coming' = coming + 1
      /\ UNCHANGED <<socket, streams, blocking, alive, supervisor, resetDue, clockVars,
                     egressVars>>
  BY DEF ReceivePeriod
<1>2. socket = streams /\ streams \in Nat /\ streams # 0 /\ coming \in Stamps
  BY <1>1, SizesAssumption, MaxStampAssumption DEF ReceiveProofInv, ControlOK, Down
<1>3. ControlOK'
  <2>1. coming' \in 0 .. MaxStamp + 1
    BY <1>1, <1>2, MaxStampAssumption
  <2>2. /\ drained' \in 0 .. MaxFrames - 1
        /\ receiver' \in {"draining", "playing"}
    <3>1. drained \in 0 .. MaxFrames - 1
      BY DEF ReceiveProofInv, ControlOK
    <3>2. CASE drained + 1 < MaxFrames /\ drained' = drained + 1 /\ ReceiverGoes("draining")
      BY <3>1, <3>2, SizesAssumption DEF ReceiverGoes
    <3>3. CASE drained + 1 = MaxFrames /\ drained' = 0 /\ ReceiverGoes("playing")
      BY <3>1, <3>3, SizesAssumption DEF ReceiverGoes
    <3>4. QED
      BY <3>2, <3>3 DEF ReceivePeriod
  <2>3. QED
    BY <1>1, <2>1, <2>2 DEF ReceiveProofInv, ControlOK
<1>4. ClocksOK' /\ EgressOK'
  BY <1>1 DEF ReceiveProofInv, ClocksOK, EgressOK, PiecesSoFar, clockVars, egressVars
<1>5. CASE Arrive(coming) /\ stream' = Tagged(socket)
  <2>1. TimelineOK' /\ held' \subseteq held \cup {coming}
    BY <1>2, <1>5, ArriveKeepsTimeline DEF ReceiveProofInv
  <2>2. stream' = [p \in Stamps |-> IF p \notin held' THEN 0
                                    ELSE IF p \in held THEN stream[p] ELSE socket]
    BY <1>5 DEF Tagged
  <2>3. \A p \in Stamps : stream'[p] = IF p \notin held' THEN 0
                                       ELSE IF p \in held THEN stream[p] ELSE streams
    BY <1>2, <2>2
  <2>4. stream' \in [Stamps -> 0 .. streams]
    <3>1. \A p \in Stamps : stream'[p] \in 0 .. streams
      BY <1>2, <2>3 DEF ReceiveProofInv, HeldIsTagged
    <3>2. QED
      BY <2>2, <3>1
  <2>5. held' \subseteq Stamps
    BY <2>1 DEF TimelineOK
  <2>6. \A p \in held' : stream'[p] = IF p \in held THEN stream[p] ELSE streams
    BY <2>3, <2>5
  <2>7. HeldIsTagged'
    BY <1>1, <1>2, <2>4, <2>6 DEF ReceiveProofInv, HeldIsTagged, Settling
  <2>8. QED
    BY <1>3, <1>4, <2>1, <2>7 DEF ReceiveProofInv
<1>6. CASE UNCHANGED <<timelineVars, stream>>
  BY <1>1, <1>3, <1>4, <1>6
     DEF ReceiveProofInv, TimelineOK, HeldIsTagged, Settling, timelineVars
<1>7. QED
  BY <1>5, <1>6 DEF ReceivePeriod

\* The turns that wait for the level are counted up to the deadline.
LEMMA StartPlayingKeepsInv ==
  ASSUME ReceiveProofInv, StartPlaying
  PROVE  ReceiveProofInv'
<1>1. /\ UNCHANGED <<timelineVars, linkVars, supervisor, resetDue, drained, startup, window,
                     egressVars, stream>>
      /\ receiver' \in {"pulling", "egress"}
  BY DEF StartPlaying, ReceiverGoes
<1>2. TimelineOK' /\ ControlOK'
  BY <1>1 DEF ReceiveProofInv, TimelineOK, ControlOK, timelineVars, linkVars
<1>3. EgressOK' /\ HeldIsTagged'
  BY <1>1 DEF ReceiveProofInv, EgressOK, PiecesSoFar, HeldIsTagged, Settling, timelineVars,
              linkVars, egressVars
<1>4. ClocksOK'
  <2>1. priming \in 0 .. Alarm /\ (~playing => priming < Alarm) /\ playing \in BOOLEAN
    BY DEF ReceiveProofInv, ClocksOK
  <2>2. playing' = (playing \/ Level >= Target \/ PrimingIsLate) /\ playing' \in BOOLEAN
    BY DEF StartPlaying
  <2>3. CASE playing
    <3>1. priming' = priming /\ playing'
      BY <2>2, <2>3 DEF StartPlaying
    <3>2. QED
      BY <1>1, <2>1, <2>2, <3>1 DEF ReceiveProofInv, ClocksOK
  <2>4. CASE ~playing
    <3>1. priming' = priming + 1
      BY <2>4 DEF StartPlaying, TurnsPrimed
    <3>2. priming' \in 0 .. Alarm
      BY <2>1, <2>4, <3>1, GeometryAssumption
    <3>3. ~playing' => ~(priming + 1 >= Alarm)
      BY <2>2 DEF PrimingIsLate, TurnsPrimed
    <3>4. ~playing' => priming' < Alarm
      BY <2>1, <3>1, <3>3, GeometryAssumption
    <3>5. QED
      BY <1>1, <2>2, <3>2, <3>4 DEF ReceiveProofInv, ClocksOK
  <2>5. QED
    BY <2>3, <2>4
<1>5. QED
  BY <1>2, <1>3, <1>4 DEF ReceiveProofInv

\* What the resampler takes was held, and so is of a connection made.
LEMMA PullTakesKeepsInv ==
  ASSUME ReceiveProofInv, PullTakes
  PROVE  ReceiveProofInv' /\ carry'.stream = stream[head] /\ head \in held
<1>1. /\ carry' = [stream |-> stream[head], position |-> head] /\ stream' = Tagged(Down)
      /\ UNCHANGED <<linkVars, supervisor, resetDue, receiver, drained, clockVars, line, owed,
                     heard, fed>>
  BY DEF PullTakes
<1>2. TimelineOK' /\ held' \subseteq held /\ head \in held
  BY PlayKeepsTimeline DEF PullTakes, ReceiveProofInv
<1>3. ControlOK' /\ ClocksOK'
  BY <1>1 DEF ReceiveProofInv, ControlOK, ClocksOK, linkVars, clockVars
<1>4. HeldIsTagged'
  BY <1>1, <1>2, TaggingKeepsStreams DEF ReceiveProofInv, TimelineOK, linkVars
<1>5. EgressOK'
  <2>1. head \in Stamps /\ stream[head] \in 1 .. streams
    BY <1>2, SizesAssumption DEF ReceiveProofInv, TimelineOK, HeldIsTagged, ControlOK
  <2>2. carry' \in PiecesSoFar'
    BY <1>1, <2>1 DEF PiecesSoFar, linkVars
  <2>3. QED
    BY <1>1, <2>2 DEF ReceiveProofInv, EgressOK, PiecesSoFar, linkVars
<1>6. QED
  BY <1>1, <1>2, <1>3, <1>4, <1>5 DEF ReceiveProofInv

LEMMA PullFindsNothingKeepsInv ==
  ASSUME ReceiveProofInv, PullFindsNothing
  PROVE  ReceiveProofInv'
<1>1. /\ stream' = Tagged(Down) /\ owed' = Silence /\ receiver' = "trimming"
      /\ UNCHANGED <<linkVars, supervisor, resetDue, drained, clockVars, carry, line, heard,
                     fed>>
  BY DEF PullFindsNothing, ReceiverGoes
<1>2. TimelineOK' /\ held' \subseteq held
  <2>1. CASE Cross
    BY <2>1, CrossKeepsTimeline DEF ReceiveProofInv
  <2>2. CASE UNCHANGED timelineVars
    BY <2>2 DEF ReceiveProofInv, TimelineOK, timelineVars
  <2>3. QED
    BY <2>1, <2>2 DEF PullFindsNothing
<1>3. ControlOK' /\ ClocksOK'
  BY <1>1 DEF ReceiveProofInv, ControlOK, ClocksOK, linkVars, clockVars
<1>4. HeldIsTagged'
  BY <1>1, <1>2, TaggingKeepsStreams DEF ReceiveProofInv, TimelineOK, linkVars
<1>5. EgressOK'
  BY <1>1 DEF ReceiveProofInv, EgressOK, PiecesSoFar, linkVars
<1>6. QED
  BY <1>2, <1>3, <1>4, <1>5 DEF ReceiveProofInv

LEMMA PullConvertsKeepsInv ==
  ASSUME ReceiveProofInv, PullConverts
  PROVE  ReceiveProofInv'
<1>1. /\ UNCHANGED <<timelineVars, linkVars, supervisor, resetDue, drained, clockVars, line,
                     heard, fed, stream>>
      /\ carry' \in {carry, Silence} /\ owed' \in {owed, carry}
      /\ receiver' \in {receiver, "trimming"}
  BY DEF PullConverts, ReceiverGoes
<1>2. TimelineOK' /\ ControlOK' /\ ClocksOK'
  BY <1>1 DEF ReceiveProofInv, TimelineOK, ControlOK, ClocksOK, timelineVars, linkVars,
              clockVars
<1>3. EgressOK'
  BY <1>1 DEF ReceiveProofInv, EgressOK, PiecesSoFar, linkVars
<1>4. HeldIsTagged'
  BY <1>1 DEF ReceiveProofInv, HeldIsTagged, Settling, timelineVars, linkVars
<1>5. QED
  BY <1>2, <1>3, <1>4 DEF ReceiveProofInv

LEMMA TrimBacklogKeepsInv ==
  ASSUME ReceiveProofInv, TrimBacklog
  PROVE  ReceiveProofInv'
<1>1. /\ stream' = Tagged(Down) /\ receiver' = "egress"
      /\ startup' = IF startup < TrimWindow THEN startup + 1 ELSE startup
      /\ UNCHANGED <<linkVars, supervisor, resetDue, drained, playing, priming, window,
                     egressVars>>
  BY DEF TrimBacklog, ReceiverGoes
<1>2. TimelineOK' /\ held' \subseteq held
  <2>1. CASE Trim(Target)
    BY <2>1, TrimKeepsTimeline, GeometryAssumption DEF ReceiveProofInv
  <2>2. CASE UNCHANGED timelineVars
    BY <2>2 DEF ReceiveProofInv, TimelineOK, timelineVars
  <2>3. QED
    BY <2>1, <2>2 DEF TrimBacklog
<1>3. ControlOK'
  BY <1>1 DEF ReceiveProofInv, ControlOK, linkVars
<1>4. ClocksOK'
  <2>1. startup' \in 0 .. TrimWindow
    BY <1>1, SizesAssumption DEF ReceiveProofInv, ClocksOK
  <2>2. QED
    BY <1>1, <2>1 DEF ReceiveProofInv, ClocksOK
<1>5. HeldIsTagged'
  BY <1>1, <1>2, TaggingKeepsStreams DEF ReceiveProofInv, TimelineOK, linkVars
<1>6. EgressOK'
  BY <1>1 DEF ReceiveProofInv, EgressOK, PiecesSoFar, linkVars, egressVars
<1>7. QED
  BY <1>2, <1>3, <1>4, <1>5, <1>6 DEF ReceiveProofInv

\* The delay line keeps its length, and gives what it was given.
LEMMA WritePeriodKeepsInv ==
  ASSUME ReceiveProofInv, WritePeriod
  PROVE  ReceiveProofInv'
<1> DEFINE delayed == Append(line, owed)
<1>1. /\ UNCHANGED <<timelineVars, linkVars, supervisor, resetDue, drained, clockVars, carry,
                     stream>>
      /\ receiver' = "turn" /\ owed' = Silence /\ fed' = TRUE
      /\ line' = Tail(delayed)
      /\ heard' \in {heard, Head(delayed)}
  BY DEF WritePeriod, ReceiverGoes
<1>2. TimelineOK' /\ ControlOK' /\ ClocksOK' /\ HeldIsTagged'
  BY <1>1 DEF ReceiveProofInv, TimelineOK, ControlOK, ClocksOK, HeldIsTagged, Settling,
              timelineVars, linkVars, clockVars
<1>3. delayed \in Seq(PiecesSoFar) /\ Len(delayed) = LineLength + 1 /\ delayed # <<>>
  BY SizesAssumption DEF ReceiveProofInv, EgressOK
<1> HIDE DEF delayed
<1>4. Tail(delayed) \in Seq(PiecesSoFar) /\ Len(Tail(delayed)) = LineLength
  BY <1>3, SizesAssumption
<1>5. Head(delayed) \in PiecesSoFar
  BY <1>3, SizesAssumption
<1>6. EgressOK'
  BY <1>1, <1>4, <1>5 DEF ReceiveProofInv, EgressOK, PiecesSoFar, linkVars
<1>7. QED
  BY <1>2, <1>6 DEF ReceiveProofInv

LEMMA InitIsProofInv == ReceiveInit => ReceiveProofInv
<1> SUFFICES ASSUME ReceiveInit PROVE ReceiveProofInv
  OBVIOUS
<1>1. head = 0 /\ held = {} /\ ready = 0 /\ seated = FALSE
  BY DEF ReceiveInit, TimelineInit
<1>2. TimelineOK
  <2>1. head .. ready - 1 = {} /\ head <= ready /\ ready <= head + Size
    BY <1>1, SizeAssumption
  <2>2. QED
    BY <1>1, <2>1 DEF TimelineOK
<1>3. streams \in 0 .. MaxStreams /\ streams \in Nat /\ socket \in {Down, streams}
  BY SizesAssumption DEF ReceiveInit
<1>4. ControlOK
  <2>1. coming \in 0 .. MaxStamp + 1 /\ drained \in 0 .. MaxFrames - 1
    BY SizesAssumption, MaxStampAssumption DEF ReceiveInit
  <2>2. QED
    BY <1>3, <2>1 DEF ReceiveInit, ControlOK
<1>5. ClocksOK
  <2>1. 0 \in 0 .. Alarm /\ 0 < Alarm /\ 0 \in 0 .. TrimWindow
    BY SizesAssumption, GeometryAssumption
  <2>2. QED
    BY <2>1 DEF ReceiveInit, ClocksOK
<1>6. EgressOK
  <2>1. line = [i \in 1 .. LineLength |-> Silence]
    BY DEF ReceiveInit
  <2>2. line \in Seq(PiecesSoFar) /\ Len(line) = LineLength
    BY <2>1, SizesAssumption DEF PiecesSoFar
  <2>3. QED
    BY <2>2 DEF ReceiveInit, EgressOK, PiecesSoFar
<1>7. HeldIsTagged
  <2>1. stream = [p \in Stamps |-> 0]
    BY DEF ReceiveInit
  <2>2. QED
    BY <1>1, <1>3, <2>1 DEF HeldIsTagged
<1>8. QED
  BY <1>2, <1>4, <1>5, <1>6, <1>7 DEF ReceiveProofInv

LEMMA NextKeepsInv ==
  ASSUME ReceiveProofInv, [ReceiveNext]_receiveVars
  PROVE  ReceiveProofInv'
<1>1. CASE UNCHANGED receiveVars
  BY <1>1 DEF ReceiveProofInv, TimelineOK, ControlOK, ClocksOK, EgressOK, HeldIsTagged,
              PiecesSoFar, Settling, receiveVars, timelineVars, linkVars, clockVars,
              egressVars
<1>2. CASE OutsideStep
  BY <1>2, OutsideKeepsInv
<1>3. CASE TurnBegins \/ ReceivePeriod \/ StartPlaying
  BY <1>3, TurnBeginsKeepsInv, ReceivePeriodKeepsInv, StartPlayingKeepsInv
<1>4. CASE PullTakes \/ PullFindsNothing \/ PullConverts
  BY <1>4, PullTakesKeepsInv, PullFindsNothingKeepsInv, PullConvertsKeepsInv
<1>5. CASE TrimBacklog \/ WritePeriod
  BY <1>5, TrimBacklogKeepsInv, WritePeriodKeepsInv
<1>6. QED
  BY <1>1, <1>2, <1>3, <1>4, <1>5 DEF ReceiveNext, ReceiverStep, OutsideStep

LEMMA AlwaysProofInv == ReceiveSpec => []ReceiveProofInv
<1>1. ReceiveInit => ReceiveProofInv
  BY InitIsProofInv
<1>2. ReceiveProofInv /\ [ReceiveNext]_receiveVars => ReceiveProofInv'
  BY NextKeepsInv
<1>3. QED
  BY <1>1, <1>2, PTL DEF ReceiveSpec

----------------------------------------------------------------------------
(* The theorems *)

(* Two connections are in one timeline only while a reset is on its way    *)
(* (engine.cpp:917-921), and every part of the path keeps its type: in     *)
(* particular what the resampler, the delay line and the device hold came  *)
(* over a connection that was made.                                        *)
THEOREM ReceiveAlwaysInv == ReceiveSpec => []ReceiveInv
<1>1. ASSUME ReceiveProofInv PROVE ReceiveInv
  <2>1. streams \in Nat /\ streams <= MaxStreams
    BY <1>1, SizesAssumption DEF ReceiveProofInv, ControlOK
  <2>2. PiecesSoFar \subseteq Pieces
    BY <2>1, SizesAssumption DEF PiecesSoFar, Pieces
  <2>3. carry \in Pieces /\ owed \in Pieces /\ heard \in Pieces /\ line \in Seq(Pieces)
    BY <1>1, <2>2 DEF ReceiveProofInv, EgressOK
  <2>4. stream \in [Stamps -> 0 .. MaxStreams]
    BY <1>1, <2>1, SizesAssumption DEF ReceiveProofInv, HeldIsTagged
  <2>5. socket \in 0 .. streams
    BY <1>1, <2>1 DEF ReceiveProofInv, ControlOK, Down
  <2>6. drained \in 0 .. MaxFrames
    BY <1>1, SizesAssumption DEF ReceiveProofInv, ControlOK
  <2>7. ReceiveTypeOK
    BY <1>1, <2>3, <2>4, <2>5, <2>6
       DEF ReceiveProofInv, TimelineOK, ControlOK, ClocksOK, EgressOK, ReceiveTypeOK
  <2>8. MixedOnlyUntilReset
    BY <1>1 DEF ReceiveProofInv, HeldIsTagged, Settling, MixedOnlyUntilReset, StreamsHeld
  <2>9. QED
    BY <2>7, <2>8 DEF ReceiveInv
<1>2. QED
  BY <1>1, AlwaysProofInv, PTL

(* Once the reset the supervisor asked for is applied, what is taken from  *)
(* the timeline is no older than anything on its way to the device         *)
(* (engine.cpp:917).                                                       *)
THEOREM OldStreamAlwaysEnds == ReceiveSpec => OldStreamEnds
<1>1. ASSUME ReceiveProofInv, ReceiveNext, carry = Silence, carry' # Silence, ~resetDue, ~Settling
      PROVE  \A s \in StreamsPlayed : carry'.stream >= s
  <2>1. PullTakes
    BY <1>1
       DEF ReceiveNext, PeerGoes, StreamSkips, SendMarksDown, SupervisorStep,
           SupervisorSeesDown, OpenFails, OpenPublishes, SetNonblocking, RequestReset,
           ReceiverStep, TurnBegins, ReceivePeriod, FindNoFrame, Block, ReceiveFails,
           StartPlaying, PullFindsNothing, PullConverts, TrimBacklog, WritePeriod, egressVars
  <2>2. carry'.stream = streams
    BY <1>1, <2>1, PullTakesKeepsInv DEF ReceiveProofInv, HeldIsTagged
  <2>3. streams \in Nat
    BY <1>1, SizesAssumption DEF ReceiveProofInv, ControlOK
  <2>4. \A x \in PiecesSoFar : x.stream <= streams
    BY <2>3 DEF PiecesSoFar, Silence
  <2>5. \A i \in 1 .. LineLength : line[i] \in PiecesSoFar
    BY <1>1 DEF ReceiveProofInv, EgressOK
  <2>6. heard \in PiecesSoFar /\ owed \in PiecesSoFar
    BY <1>1 DEF ReceiveProofInv, EgressOK
  <2>7. \A s \in StreamsPlayed : s \in Int /\ s <= streams
    <3>1. \A x \in PiecesSoFar : x.stream \in Int
      BY <2>3 DEF PiecesSoFar, Silence
    <3>2. QED
      BY <2>4, <2>5, <2>6, <3>1 DEF StreamsPlayed
  <2>8. QED
    BY <2>2, <2>3, <2>7
<1>2. ReceiveProofInv /\ [ReceiveNext]_receiveVars =>
        [(/\ carry = Silence /\ carry' # Silence
          /\ ~resetDue /\ supervisor \notin {"configuring", "requesting"})
            => \A s \in StreamsPlayed : carry'.stream >= s]_receiveVars
  BY <1>1 DEF Settling
<1>3. QED
  BY <1>2, AlwaysProofInv, PTL DEF ReceiveSpec, OldStreamEnds

----------------------------------------------------------------------------
(***************************************************************************)
(* The backlog.  A trim leaves the target and no more, because the run it  *)
(* trims is as long as it can be: its end is held by nobody, inside the    *)
(* reach or just past it.                                                  *)
(***************************************************************************)

ReachOK ==
  /\ ~seated => held = {}
  /\ \A p \in held : p < head + Size
  /\ head < ready => ready \notin held

\* Between the trim and the end of the turn nothing moves the timeline.
TrimOK ==
  /\ receiver \in {"draining", "blocked"} => ~fed
  /\ receiver = "egress" \/ (receiver = "turn" /\ fed)
       => (playing /\ startup < window => Level <= 2 * Target)

\* A run ends where the next position is not held, or at the reach.
LEMMA RunEndsFree ==
  ASSUME NEW S, NEW h \in Nat, NEW e \in Nat, NEW r \in Run(S, h, e),
         \A p \in S : p < h + Size
  PROVE  r \notin S
<1>1. r \in Nat /\ (r = h + Size \/ r \notin S)
  BY RunIsHeld DEF Run
<1>2. h + Size \notin S
  BY SizeAssumption
<1>3. QED
  BY <1>1, <1>2

LEMMA ArriveKeepsReach ==
  ASSUME TimelineOK, ReachOK, NEW p \in Stamps, Arrive(p)
  PROVE  ReachOK'
<1> DEFINE newHead == Room(IF seated THEN head ELSE p, p)
           end == IF ~seated THEN p ELSE IF ready < newHead THEN newHead ELSE ready
           kept == From(newHead, held) \cup {p}
<1>1. /\ head' = newHead /\ held' = kept /\ seated' = TRUE
      /\ \/ p = end /\ ready' \in Run(kept, newHead, end)
         \/ p # end /\ ready' = end
      /\ seated => head <= p
  BY DEF Arrive
<1>2. p \in Nat /\ newHead \in Nat /\ newHead <= p /\ p < newHead + Size
  BY <1>1, SizeAssumption, StampsAssumption DEF Room, TimelineOK
<1>3. end \in Nat
  BY <1>2 DEF TimelineOK
<1>4. \A q \in kept : q < newHead + Size
  <2>1. CASE ~seated
    <3>1. kept = {p}
      BY <2>1 DEF ReachOK, From
    <3>2. QED
      BY <1>2, <3>1
  <2>2. CASE seated
    <3>1. head \in Nat /\ head <= newHead
      BY <1>1, <2>2, SizeAssumption, StampsAssumption DEF Room, TimelineOK
    <3>2. \A q \in held : q \in Nat /\ q < head + Size
      BY StampsAssumption DEF TimelineOK, ReachOK
    <3> HIDE DEF newHead
    <3>3. \A q \in held : q < newHead + Size
      BY <1>2, <3>1, <3>2, SizeAssumption
    <3>4. QED
      BY <1>2, <3>3 DEF From
  <2>3. QED
    BY <2>1, <2>2
<1>5. CASE p = end /\ ready' \in Run(kept, newHead, end)
  <2> HIDE DEF newHead, end, kept
  <2>1. ready' \notin kept
    BY <1>2, <1>3, <1>4, <1>5, RunEndsFree
  <2>2. QED
    BY <1>1, <1>4, <2>1 DEF ReachOK
<1>6. CASE p # end /\ ready' = end
  <2>1. seated
    BY <1>6
  <2>2. newHead < end => end = ready /\ ~(ready < newHead)
    BY <1>2, <2>1
  <2>3. newHead < end => end \notin kept
    <3>1. CASE newHead < end
      <4>1. end = ready /\ head < ready
        <5>1. head <= newHead /\ head \in Nat
          BY <1>1, <2>1, SizeAssumption, StampsAssumption DEF Room, TimelineOK
        <5>2. end = ready
          BY <2>2, <3>1
        <5> HIDE DEF newHead, end
        <5>3. QED
          BY <1>2, <1>3, <3>1, <5>1, <5>2
      <4>2. end \notin held
        BY <4>1 DEF ReachOK
      <4> HIDE DEF newHead, end
      <4>3. QED
        BY <1>6, <4>2 DEF From
    <3>2. QED
      BY <3>1
  <2> HIDE DEF newHead, end, kept
  <2>4. QED
    BY <1>1, <1>4, <1>6, <2>3 DEF ReachOK
<1>7. QED
  BY <1>1, <1>5, <1>6

\* The steps that take from the front leave the reach and the end behind.
LEMMA FrontKeepsReach ==
  ASSUME TimelineOK, ReachOK, Play \/ Cross \/ Trim(Target)
  PROVE  ReachOK'
<1>1. /\ head \in Nat /\ ready \in Nat /\ head' \in Nat /\ head <= head'
      /\ held' \subseteq held /\ (seated' <=> seated)
  BY GeometryAssumption DEF Play, Cross, Trim, From, TimelineOK
<1>2. \A p \in held' : p < head' + Size
  <2>1. \A p \in held : p \in Nat /\ p < head + Size
    BY StampsAssumption DEF TimelineOK, ReachOK
  <2>2. QED
    BY <1>1, <2>1, SizeAssumption
<1>3. \A p \in held : p < head' + Size
  <2>1. \A p \in held : p \in Nat /\ p < head + Size
    BY StampsAssumption DEF TimelineOK, ReachOK
  <2>2. QED
    BY <1>1, <2>1, SizeAssumption
<1>4. head' < ready' => ready' \notin held'
  <2>1. CASE Play
    BY <1>1, <2>1 DEF Play, ReachOK
  <2>2. CASE Cross
    BY <1>1, <1>3, <2>2, RunEndsFree DEF Cross
  <2>3. CASE Trim(Target)
    BY <1>1, <1>3, <2>3, RunEndsFree DEF Trim
  <2>4. QED
    BY <2>1, <2>2, <2>3
<1>5. ~seated' => held' = {}
  BY <1>1 DEF ReachOK
<1>6. QED
  BY <1>2, <1>4, <1>5 DEF ReachOK

\* An interval that is not empty has its first number.
LEMMA FirstOfInterval ==
  ASSUME NEW a \in Nat, NEW b \in Nat, a < b
  PROVE  a \in a .. b - 1
  OBVIOUS

\* Nothing is held at the end of the run, so that a trim leaves its target.
LEMMA TrimLeavesTheTarget ==
  ASSUME TimelineOK, ReachOK, Trim(Target)
  PROVE  ready' - head' = Target
<1> DEFINE newHead == ready - Target
<1>1. /\ head' = newHead /\ ready' \in Run(held, newHead, ready)
      /\ Target < ready - head
  BY DEF Trim
<1>2. /\ head \in Nat /\ ready \in Nat /\ Target \in Nat /\ newHead \in Nat
      /\ head < ready
  BY <1>1, GeometryAssumption DEF TimelineOK
<1> HIDE DEF newHead
<1>3. ready' \in Nat /\ ready <= ready' /\ ready .. ready' - 1 \subseteq held
  BY <1>1, <1>2, RunIsHeld
<1>4. ready \notin held
  BY <1>2 DEF ReachOK
<1>5. ready' = ready
  <2>1. ready \in Nat /\ ready' \in Nat /\ ready <= ready'
    BY <1>2, <1>3
  <2>2. ready < ready' => ready \in ready .. ready' - 1
    BY <2>1, FirstOfInterval
  <2>3. ~(ready < ready')
    BY <1>3, <1>4, <2>2
  <2>4. QED
    BY ONLY <2>1, <2>3
<1>6. QED
  BY <1>1, <1>2, <1>5 DEF newHead

\* A turn's trim: what is left is within the bound while the window is open.
LEMMA TrimBacklogTrims ==
  ASSUME TimelineOK, ReachOK, ClocksOK, TrimBacklog
  PROVE  ReachOK' /\ (startup' < window' => ready' - head' <= 2 * Target)
<1>1. /\ startup' = IF startup < TrimWindow THEN startup + 1 ELSE startup
      /\ window' = window
  BY DEF TrimBacklog
<1>2. startup' < window' => startup < window
  BY <1>1, SizesAssumption DEF ClocksOK
<1>3. CASE BacklogIsLarge /\ Trim(Target)
  BY <1>3, FrontKeepsReach, TrimLeavesTheTarget, GeometryAssumption
<1>4. CASE ~BacklogIsLarge /\ UNCHANGED timelineVars
  <2>1. ReachOK'
    BY <1>4 DEF ReachOK, timelineVars
  <2>2. startup < window => ~(ready - head > 2 * Target)
    BY <1>4 DEF BacklogIsLarge, Level
  <2>3. ready - head \in Int /\ 2 * Target \in Int
    BY GeometryAssumption DEF TimelineOK
  <2>4. startup < window => ready - head <= 2 * Target
    BY <2>2, <2>3
  <2>5. QED
    BY <1>2, <1>4, <2>1, <2>4 DEF timelineVars
<1>5. QED
  BY <1>3, <1>4 DEF TrimBacklog

LEMMA NextKeepsBacklog ==
  ASSUME ReceiveProofInv, ReachOK, TrimOK, [ReceiveNext]_receiveVars
  PROVE  ReachOK' /\ TrimOK'
<1> USE DEF ReceiverGoes
<1>1. CASE UNCHANGED receiveVars
  BY <1>1 DEF ReachOK, TrimOK, Level, receiveVars, timelineVars, clockVars, egressVars
<1>2. CASE PeerGoes \/ StreamSkips \/ SendMarksDown \/ SupervisorStep
  <2>1. UNCHANGED <<timelineVars, clockVars, egressVars, receiver>>
    BY <1>2
       DEF PeerGoes, StreamSkips, SendMarksDown, SupervisorStep, SupervisorSeesDown,
           OpenFails, OpenPublishes, SetNonblocking, RequestReset
  <2>2. QED
    BY <2>1 DEF ReachOK, TrimOK, Level, timelineVars, clockVars, egressVars
<1>3. CASE FindNoFrame \/ Block \/ ReceiveFails
  <2>1. /\ UNCHANGED <<timelineVars, clockVars, egressVars>>
        /\ receiver \in {"draining", "blocked"}
        /\ receiver' \in {"playing", "blocked", "turn"}
    BY <1>3 DEF FindNoFrame, Block, ReceiveFails
  <2>2. fed' = fed /\ ~fed
    BY <2>1 DEF TrimOK, egressVars
  <2>3. QED
    BY <2>1, <2>2 DEF ReachOK, TrimOK, timelineVars
<1>4. CASE TurnBegins
  <2>1. receiver' = "draining" /\ fed' = FALSE
    BY <1>4 DEF TurnBegins
  <2>2. TrimOK'
    BY <2>1 DEF TrimOK
  <2>3. CASE ResetPlayout
    BY <2>2, <2>3 DEF ResetPlayout, TimelineRebuilt, ReachOK
  <2>4. CASE UNCHANGED timelineVars
    BY <2>2, <2>4 DEF ReachOK, timelineVars
  <2>5. QED
    BY <1>4, <2>3, <2>4 DEF TurnBegins
<1>5. CASE ReceivePeriod
  <2>1. /\ UNCHANGED egressVars /\ receiver \in {"draining", "blocked"}
        /\ receiver' \in {"draining", "playing"} /\ coming \in Stamps
    BY <1>5, MaxStampAssumption DEF ReceivePeriod, ReceiveProofInv, ControlOK
  <2>2. TrimOK'
    BY <2>1 DEF TrimOK, egressVars
  <2>3. CASE Arrive(coming)
    BY <2>1, <2>2, <2>3, ArriveKeepsReach DEF ReceiveProofInv
  <2>4. CASE UNCHANGED timelineVars
    BY <2>2, <2>4 DEF ReachOK, timelineVars
  <2>5. QED
    BY <1>5, <2>3, <2>4 DEF ReceivePeriod
<1>6. CASE StartPlaying
  <2>1. /\ UNCHANGED timelineVars
        /\ receiver' = IF playing' THEN "pulling" ELSE "egress"
    BY <1>6 DEF StartPlaying
  <2>2. QED
    BY <2>1 DEF ReachOK, TrimOK, timelineVars
<1>7. CASE PullTakes \/ PullFindsNothing \/ PullConverts
  <2>1. /\ receiver' \in {"pulling", "trimming"}
        /\ Play \/ Cross \/ UNCHANGED timelineVars
    BY <1>7 DEF PullTakes, PullFindsNothing, PullConverts
  <2>2. TrimOK'
    BY <2>1 DEF TrimOK
  <2>3. CASE UNCHANGED timelineVars
    BY <2>2, <2>3 DEF ReachOK, timelineVars
  <2>4. QED
    BY <2>1, <2>2, <2>3, FrontKeepsReach DEF ReceiveProofInv
<1>8. CASE TrimBacklog
  <2>1. receiver' = "egress"
    BY <1>8 DEF TrimBacklog
  <2>2. ReachOK' /\ (startup' < window' => ready' - head' <= 2 * Target)
    BY <1>8, TrimBacklogTrims DEF ReceiveProofInv
  <2>3. QED
    BY <2>1, <2>2 DEF TrimOK, Level
<1>9. CASE WritePeriod
  <2>1. receiver = "egress" /\ receiver' = "turn" /\ UNCHANGED <<timelineVars, clockVars>>
    BY <1>9 DEF WritePeriod
  <2>2. QED
    BY <2>1 DEF ReachOK, TrimOK, Level, timelineVars, clockVars
<1>10. QED
  BY <1>1, <1>2, <1>3, <1>4, <1>5, <1>6, <1>7, <1>8, <1>9 DEF ReceiveNext, ReceiverStep

(* In the window after a reset no turn ends with more than twice the       *)
(* target in the timeline: "discard the stale excess forward to the        *)
(* target" (engine.cpp:679) discards all of it, at once.                   *)
THEOREM BacklogIsAlwaysTrimmed == ReceiveSpec => []BacklogIsTrimmed
<1>1. ReceiveInit => ReachOK /\ TrimOK
  <2> SUFFICES ASSUME ReceiveInit PROVE ReachOK /\ TrimOK
    OBVIOUS
  <2>1. ReachOK
    BY DEF ReceiveInit, TimelineInit, ReachOK
  <2>2. TrimOK
    BY DEF ReceiveInit, TrimOK
  <2>3. QED
    BY <2>1, <2>2
<1>2. ReceiveProofInv /\ ReachOK /\ TrimOK /\ [ReceiveNext]_receiveVars
        => ReachOK' /\ TrimOK'
  BY NextKeepsBacklog
<1>3. TrimOK => BacklogIsTrimmed
  BY DEF TrimOK, BacklogIsTrimmed
<1>4. QED
  BY <1>1, <1>2, <1>3, AlwaysProofInv, PTL DEF ReceiveSpec

=============================================================================
