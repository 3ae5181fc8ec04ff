------------------------- MODULE PlayoutBufferProofs -------------------------
(***************************************************************************)
(* Proofs about the playout buffer, for every capacity, every set of       *)
(* positions and every order of arrivals.                                  *)
(***************************************************************************)
EXTENDS PlayoutBuffer, FiniteSetTheorems, TLAPS

USE SlotsAssumption, PositionsAssumption, CountCapAssumption

(* Two positions of one window never share a slot: the fact the ring's     *)
(* indexing rests on (playout_buffer.cpp:35).                              *)
LEMMA SlotsAreDistinct ==
  ASSUME NEW a \in Nat, NEW b \in Nat, SlotOf(a) = SlotOf(b),
         a - b < Slots, b - a < Slots
  PROVE  a = b
<1>1. SlotOf(a) \in Ring /\ SlotOf(b) \in Ring
  BY DEF SlotOf, Ring
<1>2. a = Slots * (a \div Slots) + SlotOf(a) /\ a \div Slots \in Int
  BY DEF SlotOf
<1>3. b = Slots * (b \div Slots) + SlotOf(b) /\ b \div Slots \in Int
  BY DEF SlotOf
<1>4. a - b = Slots * ((a \div Slots) - (b \div Slots))
  BY <1>1, <1>2, <1>3 DEF Ring
<1>5. QED
  BY <1>4, <1>2, <1>3

\* What advance_contiguous returns: a run of held periods inside the window.
LEMMA RunIsHeld ==
  ASSUME NEW ring, NEW h \in Nat, NEW end \in Nat, NEW e \in RunEnd(ring, h, end)
  PROVE  /\ e \in Nat /\ end <= e /\ e <= h + Slots
         /\ \A p \in end .. e - 1 : HoldsIn(ring, p)
BY DEF RunEnd

(* Making room for p moves the head forward, and just far enough that p is *)
(* inside its window (playout_buffer.cpp:115-130).                         *)
LEMMA HeadMakesRoom ==
  ASSUME NEW h \in Nat, NEW p \in Nat, h <= p
  PROVE  /\ HeadFor(h, p) \in Nat /\ h <= HeadFor(h, p)
         /\ HeadFor(h, p) <= p /\ p < HeadFor(h, p) + Slots
BY DEF HeadFor

\* What a move of the head strands is a number of periods.
LEMMA StrandedIsCounted ==
  ASSUME NEW h, NEW newHead
  PROVE  Cardinality(HeldBelow(h, newHead)) \in Nat
<1>1. IsFiniteSet(Ring)
  BY FS_Interval DEF Ring
<1>2. HeldBelow(h, newHead) \in SUBSET Ring
  BY DEF HeldBelow
<1>3. QED
  BY <1>1, <1>2, FS_Subset, FS_CardinalityType

\* A counter that saturates keeps its type.
LEMMA BumpIsBounded ==
  ASSUME NEW count \in 0 .. CountCap
  PROVE  Bump(count) \in 0 .. CountCap
BY DEF Bump

\* In a seated ring a period that is held is held with its own audio.
LEMMA HeldHasItsAudio ==
  ASSUME RingIsSeated, NEW p \in Nat, HoldsIn(positions, p)
  PROVE  audio[SlotOf(p)] = p
<1>1. SlotOf(p) \in Ring
  BY DEF SlotOf, Ring
<1>2. QED
  BY <1>1 DEF RingIsSeated, HoldsIn, Empty

\* A run of periods splits at any point b.
LEMMA RunSplits ==
  ASSUME NEW a \in Nat, NEW b \in Nat, NEW c \in Nat, NEW q \in a .. c - 1
  PROVE  /\ q \in Nat /\ a <= q /\ q < c
         /\ q < b => q \in a .. b - 1
         /\ b <= q => q \in b .. c - 1
OBVIOUS

LEMMA InitInv == BufferInit => BufferInv
<1> SUFFICES ASSUME BufferInit PROVE BufferInv
  OBVIOUS
<1> USE DEF BufferInit, Empty
<1>1. BufferTypeOK
  <2>1. out \in [position : Nat \cup {Empty}, audio : Nat \cup {Empty}]
    OBVIOUS
  <2>2. /\ positions \in [Ring -> Nat \cup {Empty}]
        /\ audio \in [Ring -> Nat \cup {Empty}]
    OBVIOUS
  <2>3. primed \in BOOLEAN
    OBVIOUS
  <2>4. QED
    BY <2>1, <2>2, <2>3 DEF BufferTypeOK
<1>2. RingIsSeated
  BY DEF RingIsSeated
<1>3. HeadIsSeated
  BY DEF HeadIsSeated
<1>4. LevelIsPlayable
  BY DEF LevelIsPlayable
<1>5. PlaysSendersAudio
  BY DEF PlaysSendersAudio
<1>6. QED
  BY <1>1, <1>2, <1>3, <1>4, <1>5 DEF BufferInv

\* The invariant reads these variables only: steps that touch none keep it.
LEMMA CountersOnly ==
  ASSUME BufferInv,
         UNCHANGED <<positions, audio, head, contiguousEnd, primed, pushed,
                     played, dropped, concealed, out>>,
         late' \in 0 .. CountCap, refused' \in 0 .. CountCap,
         underruns' \in 0 .. CountCap
  PROVE  BufferInv'
BY DEF BufferInv, BufferTypeOK, RingIsSeated, HeadIsSeated, LevelIsPlayable,
       PlaysSendersAudio, HoldsIn

LEMMA MalformedKeepsInv == BufferInv /\ PushMalformed => BufferInv'
<1> SUFFICES ASSUME BufferInv, PushMalformed PROVE BufferInv'
  OBVIOUS
<1>1. /\ late \in 0 .. CountCap /\ refused \in 0 .. CountCap
      /\ underruns \in 0 .. CountCap
  BY DEF BufferInv, BufferTypeOK
<1>2. QED
  BY <1>1, BumpIsBounded, CountersOnly DEF PushMalformed

LEMMA LateKeepsInv ==
  ASSUME BufferInv, NEW p \in Positions, PushLate(p) PROVE BufferInv'
<1>1. /\ late \in 0 .. CountCap /\ refused \in 0 .. CountCap
      /\ underruns \in 0 .. CountCap
  BY DEF BufferInv, BufferTypeOK
<1>2. QED
  BY <1>1, BumpIsBounded, CountersOnly DEF PushLate

LEMMA UnderrunKeepsInv == BufferInv /\ TakeUnderrun => BufferInv'
<1> SUFFICES ASSUME BufferInv, TakeUnderrun PROVE BufferInv'
  OBVIOUS
<1>1. /\ late \in 0 .. CountCap /\ refused \in 0 .. CountCap
      /\ underruns \in 0 .. CountCap
  BY DEF BufferInv, BufferTypeOK
<1>2. QED
  BY <1>1, BumpIsBounded, CountersOnly DEF TakeUnderrun

(* The head crosses a hole: the run starts again one period on, and the    *)
(* held positions are still inside the window of a head that only grew.    *)
LEMMA AcrossHoleKeepsInv == BufferInv /\ TakeAcrossHole => BufferInv'
<1> SUFFICES ASSUME BufferInv, TakeAcrossHole PROVE BufferInv'
  OBVIOUS
<1> USE DEF BufferInv, TakeAcrossHole
<1>1. BufferTypeOK /\ head + 1 \in Nat
  BY DEF BufferTypeOK
<1>2. /\ head' \in Nat /\ contiguousEnd' \in Nat
      /\ head' <= contiguousEnd' /\ contiguousEnd' <= head' + Slots
      /\ \A q \in head' .. contiguousEnd' - 1 : HoldsIn(positions, q)
  BY <1>1, RunIsHeld
<1>3. BufferTypeOK'
  BY <1>1, <1>2, BumpIsBounded DEF BufferTypeOK
<1>4. RingIsSeated'
  BY <1>1 DEF RingIsSeated, BufferTypeOK, Empty
<1>5. HeadIsSeated'
  BY <1>1 DEF HeadIsSeated, BufferTypeOK, Empty
<1>6. LevelIsPlayable'
  <2> SUFFICES ASSUME NEW q \in head' .. contiguousEnd' - 1
               PROVE  HoldsIn(positions', q) /\ audio'[SlotOf(q)] = q
    BY <1>2 DEF LevelIsPlayable
  <2>1. q \in Nat
    BY <1>2
  <2>2. HoldsIn(positions, q)
    BY <1>2
  <2>3. audio[SlotOf(q)] = q
    BY <2>1, <2>2, HeldHasItsAudio
  <2>4. QED
    BY <2>2, <2>3 DEF HoldsIn
<1>7. QED
  BY <1>3, <1>4, <1>5, <1>6 DEF PlaysSendersAudio

(* Playing the head period empties its slot; no other period of the run    *)
(* lives there.                                                            *)
LEMMA PlayKeepsInv == BufferInv /\ TakePlay => BufferInv'
<1> SUFFICES ASSUME BufferInv, TakePlay PROVE BufferInv'
  OBVIOUS
<1> USE DEF BufferInv, TakePlay
<1>1. BufferTypeOK /\ head \in Nat /\ contiguousEnd \in Nat
  BY DEF BufferTypeOK
<1>2. SlotOf(head) \in Ring
  BY <1>1 DEF SlotOf, Ring
<1>3. /\ head < contiguousEnd /\ contiguousEnd <= head + Slots
      /\ HoldsIn(positions, head) /\ audio[SlotOf(head)] = head
  BY <1>1 DEF LevelIsPlayable
<1>4. BufferTypeOK'
  <2>1. positions' \in [Ring -> Nat \cup {Empty}]
    BY <1>1, <1>2 DEF BufferTypeOK
  <2>2. out' \in [position : Nat \cup {Empty}, audio : Nat \cup {Empty}]
    BY <1>1, <1>3
  <2>3. QED
    BY <1>1, <2>1, <2>2 DEF BufferTypeOK
<1>5. RingIsSeated'
  <2> SUFFICES ASSUME NEW s \in Ring, positions'[s] # Empty
               PROVE  /\ SlotOf(positions'[s]) = s
                      /\ positions'[s] < head' + Slots
                      /\ audio'[s] = positions'[s]
    BY DEF RingIsSeated, SlotOf
  <2>1. positions'[s] = positions[s] /\ positions[s] \in Nat
    BY <1>1, <1>2 DEF BufferTypeOK
  <2>2. QED
    BY <1>1, <2>1 DEF RingIsSeated
<1>6. HeadIsSeated'
  BY <1>1 DEF HeadIsSeated
<1>7. LevelIsPlayable'
  <2> SUFFICES ASSUME NEW q \in head' .. contiguousEnd' - 1
               PROVE  HoldsIn(positions', q) /\ audio'[SlotOf(q)] = q
    <3>1. head' <= contiguousEnd' /\ contiguousEnd' <= head' + Slots
      BY <1>1, <1>3
    <3>2. QED
      BY <3>1 DEF LevelIsPlayable
  <2>1. q \in Nat /\ q \in head .. contiguousEnd - 1 /\ q # head
    BY <1>1
  <2>2. HoldsIn(positions, q) /\ audio[SlotOf(q)] = q
    BY <2>1 DEF LevelIsPlayable
  <2>3. SlotOf(q) # SlotOf(head)
    BY <1>1, <1>3, <2>1, SlotsAreDistinct
  <2>4. SlotOf(q) \in Ring
    BY <2>1 DEF SlotOf, Ring
  <2>5. QED
    BY <1>1, <2>2, <2>3, <2>4 DEF HoldsIn, BufferTypeOK
<1>8. QED
  BY <1>3, <1>4, <1>5, <1>6, <1>7 DEF PlaysSendersAudio

(* Discarding moves the head inside the run, and the run may grow past     *)
(* what the old window hid.                                                *)
LEMMA DiscardKeepsInv ==
  ASSUME BufferInv, NEW keep \in 0 .. Slots - 1, Discard(keep)
  PROVE  BufferInv'
<1>1. /\ BufferTypeOK /\ head \in Nat /\ contiguousEnd \in Nat /\ keep \in Nat
      /\ head < contiguousEnd - keep
  BY DEF BufferInv, BufferTypeOK, Discard, Level
<1>. head \in Nat /\ contiguousEnd \in Nat
  BY <1>1
<1>2. head' \in Nat /\ head < head' /\ head' <= contiguousEnd
  BY <1>1 DEF Discard
<1>. /\ positions' = positions /\ audio' = audio /\ primed' = primed
     /\ out' = out
  BY DEF Discard
<1>3. contiguousEnd' \in Nat /\ contiguousEnd <= contiguousEnd'
  BY <1>1, <1>2, RunIsHeld DEF Discard
<1>. head' \in Nat /\ contiguousEnd' \in Nat
  BY <1>2, <1>3
<1>4. head' <= contiguousEnd'
  BY <1>1, <1>2, <1>3
<1>5. contiguousEnd' <= head' + Slots
  BY <1>1, <1>2, RunIsHeld DEF Discard
<1>6. \A q \in contiguousEnd .. contiguousEnd' - 1 : HoldsIn(positions, q)
  BY <1>1, <1>2, RunIsHeld DEF Discard
<1>7. BufferTypeOK'
  BY <1>1, <1>2, <1>3 DEF BufferTypeOK, Discard, Level
<1>8. RingIsSeated'
  <2> SUFFICES ASSUME NEW s \in Ring, positions[s] # Empty
               PROVE  /\ SlotOf(positions[s]) = s
                      /\ positions[s] < head' + Slots
                      /\ audio[s] = positions[s]
    BY <1>2 DEF RingIsSeated, SlotOf
  <2>1. positions[s] \in Nat
    BY <1>1 DEF BufferTypeOK
  <2>2. QED
    BY <1>1, <1>2, <2>1 DEF BufferInv, RingIsSeated
<1>9. HeadIsSeated'
  <2>1. primed
    BY <1>1 DEF BufferInv, HeadIsSeated
  <2>2. out.position < head /\ out.position \in Nat \cup {Empty}
    BY <1>1 DEF BufferInv, HeadIsSeated, BufferTypeOK
  <2>3. out'.position < head'
    BY <1>1, <1>2, <2>2 DEF Empty
  <2>4. QED
    BY <1>2, <2>1, <2>3 DEF HeadIsSeated
<1>10. LevelIsPlayable'
  <2> SUFFICES ASSUME NEW q \in head' .. contiguousEnd' - 1
               PROVE  HoldsIn(positions', q) /\ audio'[SlotOf(q)] = q
    BY <1>4, <1>5 DEF LevelIsPlayable
  <2>1. q \in Nat
    BY <1>2, <1>3
  <2>2. HoldsIn(positions, q)
    <3>1. CASE q < contiguousEnd
      <4>1. q \in head .. contiguousEnd - 1
        BY <1>2, <3>1, <1>3
      <4>2. QED
        BY <4>1 DEF BufferInv, LevelIsPlayable
    <3>2. CASE contiguousEnd <= q
      <4>1. q \in contiguousEnd .. contiguousEnd' - 1
        BY <3>2, RunSplits
      <4>2. QED
        BY <1>6, <4>1
    <3>3. QED
      BY <1>1, <2>1, <3>1, <3>2
  <2>3. audio[SlotOf(q)] = q
    BY <2>1, <2>2, HeldHasItsAudio DEF BufferInv
  <2>4. QED
    BY <1>2, <2>2, <2>3 DEF HoldsIn
<1>11. QED
  BY <1>7, <1>8, <1>9, <1>10 DEF BufferInv, PlaysSendersAudio

----------------------------------------------------------------------------
(* A push that is placed *)

NewHead(p) == HeadFor(SeatedHead(p), p)
NewEnd(p) == EndFor(SeatedEnd(p), NewHead(p))

(* Before anything is stored, the head has made room for p and the run up  *)
(* to NewEnd is still held: every later step of push rests on this.        *)
LEMMA RoomIsMade ==
  ASSUME BufferInv, NEW p \in Positions, ~(primed /\ p < head)
  PROVE  /\ p \in Nat /\ NewHead(p) \in Nat /\ NewEnd(p) \in Nat
         /\ head <= NewHead(p) /\ NewHead(p) <= p /\ p < NewHead(p) + Slots
         /\ NewHead(p) <= NewEnd(p) /\ NewEnd(p) <= NewHead(p) + Slots
         /\ \A q \in NewHead(p) .. NewEnd(p) - 1 : HoldsIn(positions, q)
<1>1. p \in Nat /\ head \in Nat /\ contiguousEnd \in Nat
  BY DEF BufferInv, BufferTypeOK
<1>2. /\ SeatedHead(p) \in Nat /\ SeatedEnd(p) \in Nat
      /\ head <= SeatedHead(p) /\ SeatedHead(p) <= p
      /\ SeatedHead(p) <= SeatedEnd(p) /\ SeatedEnd(p) <= SeatedHead(p) + Slots
  BY <1>1 DEF BufferInv, HeadIsSeated, LevelIsPlayable, SeatedHead, SeatedEnd
<1>3. /\ NewHead(p) \in Nat /\ SeatedHead(p) <= NewHead(p)
      /\ NewHead(p) <= p /\ p < NewHead(p) + Slots
  BY <1>1, <1>2, HeadMakesRoom DEF NewHead
<1>4. head <= NewHead(p)
  BY <1>1, <1>2, <1>3
<1>5. /\ NewEnd(p) \in Nat /\ NewHead(p) <= NewEnd(p)
      /\ NewEnd(p) <= NewHead(p) + Slots
  BY <1>2, <1>3 DEF NewEnd, EndFor
<1>6. ASSUME NEW q \in NewHead(p) .. NewEnd(p) - 1
      PROVE  HoldsIn(positions, q)
  <2>1. q \in Nat /\ NewHead(p) <= q /\ q < NewEnd(p)
    BY <1>3, <1>5, RunSplits
  <2>2. q < SeatedEnd(p) /\ SeatedHead(p) <= q
    BY <1>2, <1>3, <1>5, <2>1 DEF NewEnd, EndFor
  <2>3. primed
    BY <1>1, <2>1, <2>2 DEF SeatedEnd, SeatedHead
  <2>4. q \in head .. contiguousEnd - 1
    BY <1>1, <2>1, <2>2, <2>3 DEF SeatedEnd, SeatedHead
  <2>5. QED
    BY <2>4 DEF BufferInv, LevelIsPlayable
<1>7. QED
  BY <1>1, <1>3, <1>4, <1>5, <1>6

\* A period held in the window that is not p does not live in p's slot.
LEMMA StoringSparesTheWindow ==
  ASSUME NEW n \in Nat, NEW p \in Nat, NEW q \in Nat, p # q,
         n <= p, p < n + Slots, n <= q, q < n + Slots
  PROVE  SlotOf(q) # SlotOf(p)
BY SlotsAreDistinct

\* A refused duplicate moves the head and the run's end, and stores nothing.
LEMMA DuplicateKeepsInv ==
  ASSUME BufferInv, NEW p \in Positions, PushPlaced(p), HoldsIn(positions, p)
  PROVE  BufferInv'
<1>1. /\ head' = NewHead(p) /\ contiguousEnd' = NewEnd(p) /\ primed' = TRUE
      /\ positions' = positions /\ audio' = audio /\ out' = out
      /\ dropped' = dropped + Cardinality(HeldBelow(SeatedHead(p), NewHead(p)))
      /\ refused' = Bump(refused)
      /\ UNCHANGED <<pushed, played, concealed, late, underruns>>
  BY DEF PushPlaced, NewHead, NewEnd
<1>2. ~(primed /\ p < head)
  BY DEF PushPlaced
<1>3. /\ p \in Nat /\ NewHead(p) \in Nat /\ NewEnd(p) \in Nat
      /\ head <= NewHead(p) /\ NewHead(p) <= p /\ p < NewHead(p) + Slots
      /\ NewHead(p) <= NewEnd(p) /\ NewEnd(p) <= NewHead(p) + Slots
      /\ \A q \in NewHead(p) .. NewEnd(p) - 1 : HoldsIn(positions, q)
  BY <1>2, RoomIsMade
<1>4. BufferTypeOK /\ RingIsSeated /\ HeadIsSeated /\ head \in Nat
  BY DEF BufferInv, BufferTypeOK
<1>5. BufferTypeOK'
  <2>1. dropped' \in Nat
    BY <1>1, <1>4, StrandedIsCounted DEF BufferTypeOK
  <2>2. refused' \in 0 .. CountCap
    BY <1>1, <1>4, BumpIsBounded DEF BufferTypeOK
  <2>3. QED
    BY <1>1, <1>3, <1>4, <2>1, <2>2 DEF BufferTypeOK
<1>6. RingIsSeated'
  <2> SUFFICES ASSUME NEW s \in Ring, positions[s] # Empty
               PROVE  positions[s] < NewHead(p) + Slots
    BY <1>1, <1>4 DEF RingIsSeated, SlotOf
  <2>1. positions[s] \in Nat /\ positions[s] < head + Slots
    BY <1>4 DEF RingIsSeated, BufferTypeOK
  <2>2. QED
    BY <1>3, <1>4, <2>1
<1>7. HeadIsSeated'
  <2>1. out.position < head /\ out.position \in Nat \cup {Empty}
    BY <1>4 DEF HeadIsSeated, BufferTypeOK
  <2>2. out.position < NewHead(p)
    BY <1>3, <1>4, <2>1 DEF Empty
  <2>3. QED
    BY <1>1, <2>2 DEF HeadIsSeated
<1>8. LevelIsPlayable'
  <2> SUFFICES ASSUME NEW q \in NewHead(p) .. NewEnd(p) - 1
               PROVE  HoldsIn(positions, q) /\ audio[SlotOf(q)] = q
    BY <1>1, <1>3 DEF LevelIsPlayable, HoldsIn
  <2>1. q \in Nat
    BY <1>3, RunSplits
  <2>2. HoldsIn(positions, q)
    BY <1>3
  <2>3. QED
    BY <1>4, <2>1, <2>2, HeldHasItsAudio
<1>9. QED
  BY <1>1, <1>5, <1>6, <1>7, <1>8 DEF BufferInv, PlaysSendersAudio

(* Storing p overwrites only what lives in its slot, which is behind the   *)
(* head, and the run grows over periods that are really held.              *)
LEMMA StoreKeepsInv ==
  ASSUME BufferInv, NEW p \in Positions, PushPlaced(p), ~HoldsIn(positions, p)
  PROVE  BufferInv'
<1> DEFINE stored == [positions EXCEPT ![SlotOf(p)] = p]
<1>1. /\ head' = NewHead(p) /\ primed' = TRUE /\ out' = out
      /\ positions' = stored
      /\ audio' = [audio EXCEPT ![SlotOf(p)] = p]
      /\ dropped' = dropped + Cardinality(HeldBelow(SeatedHead(p), NewHead(p)))
      /\ pushed' = pushed + 1
      /\ \/ p = NewEnd(p) /\ contiguousEnd' \in RunEnd(stored, NewHead(p), NewEnd(p))
         \/ p # NewEnd(p) /\ contiguousEnd' = NewEnd(p)
      /\ UNCHANGED <<refused, played, concealed, late, underruns>>
  BY DEF PushPlaced, NewHead, NewEnd
<1> HIDE DEF stored
<1>2. ~(primed /\ p < head)
  BY DEF PushPlaced
<1>3. /\ p \in Nat /\ NewHead(p) \in Nat /\ NewEnd(p) \in Nat
      /\ head <= NewHead(p) /\ NewHead(p) <= p /\ p < NewHead(p) + Slots
      /\ NewHead(p) <= NewEnd(p) /\ NewEnd(p) <= NewHead(p) + Slots
      /\ \A q \in NewHead(p) .. NewEnd(p) - 1 : HoldsIn(positions, q)
  BY <1>2, RoomIsMade
<1>4. BufferTypeOK /\ RingIsSeated /\ HeadIsSeated /\ head \in Nat
  BY DEF BufferInv, BufferTypeOK
<1>5. SlotOf(p) \in Ring
  BY <1>3 DEF SlotOf, Ring
<1>6. stored \in [Ring -> Nat \cup {Empty}] /\ stored[SlotOf(p)] = p
  BY <1>3, <1>4, <1>5 DEF BufferTypeOK, stored
<1>7. \A s \in Ring : s # SlotOf(p) => stored[s] = positions[s] /\ audio'[s] = audio[s]
  BY <1>1, <1>4 DEF BufferTypeOK, stored
<1>8. audio' \in [Ring -> Nat \cup {Empty}] /\ audio'[SlotOf(p)] = p
  BY <1>1, <1>3, <1>4, <1>5 DEF BufferTypeOK
<1>9. /\ contiguousEnd' \in Nat /\ NewEnd(p) <= contiguousEnd'
      /\ contiguousEnd' <= NewHead(p) + Slots
      /\ \A q \in NewEnd(p) .. contiguousEnd' - 1 : HoldsIn(stored, q)
  <2>1. CASE p = NewEnd(p)
    BY <1>1, <1>3, <2>1, RunIsHeld
  <2>2. CASE p # NewEnd(p)
    BY <1>1, <1>3, <2>2
  <2>3. QED
    BY <2>1, <2>2
<1>10. BufferTypeOK'
  <2>1. dropped' \in Nat
    BY <1>1, <1>4, StrandedIsCounted DEF BufferTypeOK
  <2>2. QED
    BY <1>1, <1>3, <1>4, <1>6, <1>8, <1>9, <2>1 DEF BufferTypeOK
<1>11. RingIsSeated'
  <2> SUFFICES ASSUME NEW s \in Ring, stored[s] # Empty
               PROVE  /\ SlotOf(stored[s]) = s /\ stored[s] < NewHead(p) + Slots
                      /\ audio'[s] = stored[s]
    BY <1>1 DEF RingIsSeated, SlotOf
  <2>1. CASE s = SlotOf(p)
    BY <1>3, <1>6, <1>8, <2>1
  <2>2. CASE s # SlotOf(p)
    <3>1. /\ stored[s] = positions[s] /\ audio'[s] = audio[s]
          /\ positions[s] \in Nat
      BY <1>4, <1>7, <2>2 DEF BufferTypeOK
    <3>2. /\ SlotOf(positions[s]) = s /\ positions[s] < head + Slots
          /\ audio[s] = positions[s]
      BY <1>4, <3>1 DEF RingIsSeated
    <3>3. positions[s] < NewHead(p) + Slots
      BY <1>3, <1>4, <3>1, <3>2
    <3>4. QED
      BY <3>1, <3>2, <3>3
  <2>3. QED
    BY <2>1, <2>2
<1>12. HeadIsSeated'
  <2>1. out.position < head /\ out.position \in Nat \cup {Empty}
    BY <1>4 DEF HeadIsSeated, BufferTypeOK
  <2>2. out.position < NewHead(p)
    BY <1>3, <1>4, <2>1 DEF Empty
  <2>3. QED
    BY <1>1, <2>2 DEF HeadIsSeated
<1>13. LevelIsPlayable'
  <2>1. NewHead(p) <= contiguousEnd'
    BY <1>3, <1>9
  <2>. /\ NewHead(p) \in Nat /\ NewEnd(p) \in Nat /\ contiguousEnd' \in Nat
    BY <1>3, <1>9
  <2> SUFFICES ASSUME NEW q \in NewHead(p) .. contiguousEnd' - 1
               PROVE  HoldsIn(stored, q) /\ audio'[SlotOf(q)] = q
    BY <1>1, <1>9, <2>1 DEF LevelIsPlayable, HoldsIn
  <2>2. /\ q \in Nat /\ NewHead(p) <= q /\ q < contiguousEnd'
        /\ q < NewEnd(p) => q \in NewHead(p) .. NewEnd(p) - 1
        /\ NewEnd(p) <= q => q \in NewEnd(p) .. contiguousEnd' - 1
    BY RunSplits
  <2>3. SlotOf(q) \in Ring
    BY <2>2 DEF SlotOf, Ring
  <2>4. HoldsIn(stored, q)
    <3>1. CASE q < NewEnd(p)
      <4>1. HoldsIn(positions, q)
        BY <1>3, <2>2, <3>1
      <4>2. q # p /\ q < NewHead(p) + Slots
        BY <1>3, <2>2, <3>1, <4>1
      <4>3. SlotOf(q) # SlotOf(p)
        BY <1>3, <2>2, <4>2, StoringSparesTheWindow
      <4>4. QED
        BY <1>7, <2>3, <4>1, <4>3 DEF HoldsIn
    <3>2. CASE NewEnd(p) <= q
      BY <1>9, <2>2, <3>2
    <3>3. QED
      BY <1>3, <2>2, <3>1, <3>2
  <2>5. audio'[SlotOf(q)] = q
    BY <1>1, <1>11, <2>2, <2>3, <2>4 DEF RingIsSeated, HoldsIn, Empty
  <2>6. QED
    BY <2>4, <2>5
<1>14. QED
  BY <1>1, <1>10, <1>11, <1>12, <1>13 DEF BufferInv, PlaysSendersAudio

----------------------------------------------------------------------------
(* The theorems *)

LEMMA NextKeepsInv == BufferInv /\ [BufferNext]_bufferVars => BufferInv'
<1> SUFFICES ASSUME BufferInv, [BufferNext]_bufferVars PROVE BufferInv'
  OBVIOUS
<1>1. CASE PushMalformed
  BY <1>1, MalformedKeepsInv
<1>2. ASSUME NEW p \in Positions, Push(p) PROVE BufferInv'
  <2>1. CASE PushLate(p)
    BY <2>1, LateKeepsInv
  <2>2. CASE PushPlaced(p)
    BY <2>2, DuplicateKeepsInv, StoreKeepsInv
  <2>3. QED
    BY <1>2, <2>1, <2>2 DEF Push
<1>3. CASE Take
  BY <1>3, UnderrunKeepsInv, AcrossHoleKeepsInv, PlayKeepsInv DEF Take
<1>4. ASSUME NEW keep \in 0 .. Slots - 1, Discard(keep) PROVE BufferInv'
  BY <1>4, DiscardKeepsInv
<1>5. CASE UNCHANGED bufferVars
  BY <1>5 DEF bufferVars, BufferInv, BufferTypeOK, RingIsSeated, HeadIsSeated,
              LevelIsPlayable, PlaysSendersAudio, HoldsIn
<1>6. QED
  BY <1>1, <1>2, <1>3, <1>4, <1>5 DEF BufferNext

(* The inductive invariant holds in every reachable state, for every ring  *)
(* and every order of arrivals.                                            *)
THEOREM BufferAlwaysInv == BufferSpec => []BufferInv
<1>1. BufferInit => BufferInv
  BY InitInv
<1>2. BufferInv /\ [BufferNext]_bufferVars => BufferInv'
  BY NextKeepsInv
<1>3. QED
  BY <1>1, <1>2, PTL DEF BufferSpec

\* The buffer's fields always have their types.
THEOREM BufferTypeCorrect == BufferSpec => []BufferTypeOK
<1>1. BufferInv => BufferTypeOK
  BY DEF BufferInv
<1>2. QED
  BY <1>1, BufferAlwaysInv, PTL

(* The level the clock steers on is always made of periods that are held   *)
(* with the sender's own audio (playout_buffer.cpp:198).                   *)
THEOREM LevelAlwaysPlayable == BufferSpec => []LevelIsPlayable
<1>1. BufferInv => LevelIsPlayable
  BY DEF BufferInv
<1>2. QED
  BY <1>1, BufferAlwaysInv, PTL

(* Whatever take hands out is the audio the sender stamped with that       *)
(* position: no stale slot is ever played.                                 *)
THEOREM AlwaysPlaysSendersAudio == BufferSpec => []PlaysSendersAudio
<1>1. BufferInv => PlaysSendersAudio
  BY DEF BufferInv
<1>2. QED
  BY <1>1, BufferAlwaysInv, PTL

(* The head only moves forward once it is seated, and each period played   *)
(* is later than the last one, whatever order the arrivals came in.        *)
THEOREM AlwaysPlaysForward == BufferSpec => PlaysForward
<1> DEFINE Forward == /\ primed => head' >= head
                      /\ played' # played => out'.position > out.position
<1>1. BufferInv /\ BufferNext => Forward
  <2> SUFFICES ASSUME BufferInv, BufferNext PROVE Forward
    OBVIOUS
  <2>1. /\ head \in Nat /\ contiguousEnd \in Nat
        /\ out.position < head /\ out.position \in Nat \cup {Empty}
    BY DEF BufferInv, BufferTypeOK, HeadIsSeated
  <2>2. CASE PushMalformed \/ TakeUnderrun
    BY <2>1, <2>2 DEF PushMalformed, TakeUnderrun
  <2>3. ASSUME NEW p \in Positions, Push(p) PROVE Forward
    <3>1. CASE PushLate(p)
      BY <2>1, <3>1 DEF PushLate
    <3>2. CASE PushPlaced(p)
      <4>1. head' = NewHead(p) /\ played' = played /\ ~(primed /\ p < head)
        BY <3>2 DEF PushPlaced, NewHead
      <4>2. head <= NewHead(p) /\ NewHead(p) \in Nat
        BY <4>1, RoomIsMade
      <4>3. QED
        BY <2>1, <4>1, <4>2
    <3>3. QED
      BY <2>3, <3>1, <3>2 DEF Push
  <2>4. CASE TakeAcrossHole
    BY <2>1, <2>4 DEF TakeAcrossHole
  <2>5. CASE TakePlay
    BY <2>1, <2>5 DEF TakePlay, Empty
  <2>6. ASSUME NEW keep \in 0 .. Slots - 1, Discard(keep) PROVE Forward
    BY <2>1, <2>6 DEF Discard, Level
  <2>7. QED
    BY <2>2, <2>3, <2>4, <2>5, <2>6 DEF BufferNext, Take
<1>2. QED
  BY <1>1, BufferAlwaysInv, PTL DEF BufferSpec, PlaysForward

(* A period the head has not passed keeps its slot until it is played: a   *)
(* push never overwrites audio that is held (playout_buffer.hpp:70).       *)
THEOREM HeldIsNeverOverwritten == BufferSpec => NeverOverwrites
<1> DEFINE Kept == \A s \in Ring : positions[s] # Empty /\ positions[s] >= head'
                                     => positions'[s] = positions[s]
<1>1. BufferInv /\ BufferNext => Kept
  <2> SUFFICES ASSUME BufferInv, BufferNext,
                      NEW s \in Ring, positions[s] # Empty, positions[s] >= head'
               PROVE  positions'[s] = positions[s]
    OBVIOUS
  <2>1. /\ head \in Nat /\ positions \in [Ring -> Nat \cup {Empty}]
        /\ positions[s] \in Nat /\ SlotOf(positions[s]) = s
        /\ positions[s] < head + Slots
    BY DEF BufferInv, BufferTypeOK, RingIsSeated
  <2>2. CASE PushMalformed \/ TakeUnderrun \/ TakeAcrossHole
    BY <2>2 DEF PushMalformed, TakeUnderrun, TakeAcrossHole
  <2>3. ASSUME NEW p \in Positions, PushLate(p) PROVE positions'[s] = positions[s]
    BY <2>3 DEF PushLate
  <2>4. ASSUME NEW p \in Positions, PushPlaced(p) PROVE positions'[s] = positions[s]
    <3>1. head' = NewHead(p) /\ ~(primed /\ p < head)
      BY <2>4 DEF PushPlaced, NewHead
    <3>2. /\ p \in Nat /\ NewHead(p) \in Nat /\ head <= NewHead(p)
          /\ NewHead(p) <= p /\ p < NewHead(p) + Slots
      BY <3>1, RoomIsMade
    <3>3. CASE HoldsIn(positions, p)
      BY <2>4, <3>3 DEF PushPlaced
    <3>4. CASE ~HoldsIn(positions, p)
      <4>1. positions' = [positions EXCEPT ![SlotOf(p)] = p]
        BY <2>4, <3>4 DEF PushPlaced
      <4>2. NewHead(p) <= positions[s] /\ positions[s] < NewHead(p) + Slots
        BY <2>1, <3>1, <3>2
      <4>3. positions[s] # p
        BY <2>1, <3>4 DEF HoldsIn
      <4>4. s # SlotOf(p)
        BY <2>1, <3>2, <4>2, <4>3, StoringSparesTheWindow
      <4>5. QED
        BY <2>1, <4>1, <4>4
    <3>5. QED
      BY <3>3, <3>4
  <2>5. CASE TakePlay
    <3>1. head' = head + 1 /\ positions' = [positions EXCEPT ![SlotOf(head)] = Empty]
      BY <2>5 DEF TakePlay
    <3>2. s # SlotOf(head)
      <4>1. head < positions[s]
        BY <2>1, <3>1
      <4>2. QED
        BY <2>1, <4>1, StoringSparesTheWindow
    <3>3. QED
      BY <2>1, <3>1, <3>2
  <2>6. ASSUME NEW keep \in 0 .. Slots - 1, Discard(keep)
        PROVE  positions'[s] = positions[s]
    BY <2>6 DEF Discard
  <2>7. QED
    BY <2>2, <2>3, <2>4, <2>5, <2>6 DEF BufferNext, Push, Take
<1>2. QED
  BY <1>1, BufferAlwaysInv, PTL DEF BufferSpec, NeverOverwrites

----------------------------------------------------------------------------
(***************************************************************************)
(* The playout buffer implements the timeline its user sees, for every     *)
(* capacity, every set of positions and every order of arrivals: each step *)
(* of the ring is a step of the set of periods held, or changes nothing    *)
(* the user can see.                                                       *)
(***************************************************************************)

\* What a ring holds ahead of head h.
HeldIn(ring, h) == {p \in Window(h) : HoldsIn(ring, p)}

\* No period held is a whole ring ahead of h.
Seated(ring, h) == \A s \in Ring : ring[s] # Empty => ring[s] < h + Slots

LEMMA SlotIsInRing == ASSUME NEW q \in Nat PROVE SlotOf(q) \in Ring
BY DEF SlotOf, Ring

(* In a seated ring the window is no condition of its own: what is held at *)
(* or after the head is held inside the window.                            *)
LEMMA HeldIsAhead ==
  ASSUME NEW ring, NEW h \in Nat, Seated(ring, h), NEW q \in Nat
  PROVE  q \in HeldIn(ring, h) <=> h <= q /\ HoldsIn(ring, q)
<1>1. SlotOf(q) \in Ring
  BY SlotIsInRing
<1>2. HoldsIn(ring, q) => q < h + Slots
  BY <1>1 DEF Seated, HoldsIn, Empty
<1>3. QED
  BY <1>2 DEF HeldIn, Window

LEMMA HeldIsNat == ASSUME NEW ring, NEW h \in Nat PROVE HeldIn(ring, h) \subseteq Nat
BY DEF HeldIn, Window

(* advance_contiguous over the slots ends where the run of the held set    *)
(* ends, when set and ring agree from the head to the end of the window.   *)
LEMMA RunOfTheSet ==
  ASSUME NEW ring, NEW S, NEW h \in Nat, NEW end \in Nat, h <= end,
         \A q \in Nat : h <= q /\ q < h + Slots => (q \in S <=> HoldsIn(ring, q)),
         NEW e \in RunEnd(ring, h, end)
  PROVE  e \in Timeline!Run(S, h, end)
<1>1. /\ e \in Nat /\ end <= e /\ e <= h + Slots
      /\ \A p \in end .. e - 1 : HoldsIn(ring, p)
  BY RunIsHeld
<1>2. e = h + Slots \/ ~HoldsIn(ring, e)
  BY DEF RunEnd
<1>3. ASSUME NEW q \in end .. e - 1 PROVE q \in S
  <2>1. q \in Nat /\ h <= q /\ q < h + Slots
    BY <1>1
  <2>2. QED
    BY <1>1, <2>1
<1>4. e = h + Slots \/ e \notin S
  BY <1>1, <1>2
<1>5. QED
  BY <1>1, <1>3, <1>4 DEF Timeline!Run

\* What the invariant says of the variables the timeline is made of.
LEMMA TimelineTypes ==
  ASSUME BufferInv
  PROVE  /\ head \in Nat /\ contiguousEnd \in Nat /\ head <= contiguousEnd
         /\ Held = HeldIn(positions, head) /\ Seated(positions, head)
BY DEF BufferInv, BufferTypeOK, LevelIsPlayable, RingIsSeated, Seated, Held, HeldIn

LEMMA TimelineTypesNext ==
  ASSUME BufferInv'
  PROVE  /\ head' \in Nat /\ contiguousEnd' \in Nat /\ head' <= contiguousEnd'
         /\ Held' = HeldIn(positions', head') /\ Seated(positions', head')
BY DEF BufferInv, BufferTypeOK, LevelIsPlayable, RingIsSeated, Seated, Held, HeldIn,
       HoldsIn, Window

LEMMA InitIsTimelineInit == BufferInit => Timeline!TimelineInit
<1> SUFFICES ASSUME BufferInit PROVE Timeline!TimelineInit
  OBVIOUS
<1>1. BufferInv
  BY InitInv
<1>2. Held = {}
  <2> SUFFICES ASSUME NEW q \in Held PROVE FALSE
    OBVIOUS
  <2>1. q \in Nat /\ HoldsIn(positions, q)
    BY <1>1, TimelineTypes, HeldIsNat DEF HeldIn
  <2>2. SlotOf(q) \in Ring
    BY <2>1, SlotIsInRing
  <2>3. QED
    BY <2>1, <2>2 DEF BufferInit, HoldsIn, Empty
<1>3. QED
  BY <1>2 DEF BufferInit, Timeline!TimelineInit, Timeline!Nothing, Empty

\* A step that leaves the ring, the head and the output alone is invisible.
LEMMA InvisibleSteps ==
  ASSUME UNCHANGED <<positions, head, contiguousEnd, primed, out>>
  PROVE  UNCHANGED Timeline!timelineVars
BY DEF Timeline!timelineVars, Held, HoldsIn, Window

\* Playing the head takes it, and only it, out of the set.
LEMMA PlayIsPlay ==
  ASSUME BufferInv, BufferInv', TakePlay
  PROVE  Timeline!Play
<1>1. /\ head < contiguousEnd /\ head' = head + 1
      /\ contiguousEnd' = contiguousEnd /\ primed' = primed
      /\ out'.position = head
      /\ positions' = [positions EXCEPT ![SlotOf(head)] = Empty]
  BY DEF TakePlay
<1>2. /\ head \in Nat /\ contiguousEnd \in Nat
      /\ Held = HeldIn(positions, head) /\ Seated(positions, head)
      /\ Held' = HeldIn(positions', head') /\ Seated(positions', head')
      /\ head' \in Nat
  BY TimelineTypes, TimelineTypesNext
<1>3. HoldsIn(positions, head)
  BY <1>1, <1>2 DEF BufferInv, LevelIsPlayable
<1>4. ASSUME NEW q \in Nat PROVE q \in Held' <=> q \in Held \ {head}
  <2>1. SlotOf(q) \in Ring /\ positions \in [Ring -> Nat \cup {Empty}]
    BY SlotIsInRing DEF BufferInv, BufferTypeOK
  <2>2. q # head => (HoldsIn(positions', q) <=> HoldsIn(positions, q))
    BY <1>1, <1>3, <2>1 DEF HoldsIn, Empty
  <2>3. head + 1 <= q <=> head <= q /\ q # head
    BY <1>2
  <2>4. /\ q \in Held <=> head <= q /\ HoldsIn(positions, q)
        /\ q \in Held' <=> head' <= q /\ HoldsIn(positions', q)
    BY <1>2, HeldIsAhead
  <2>5. QED
    BY <1>1, <2>2, <2>3, <2>4
<1>5. Held' = Held \ {head}
  <2>1. Held \subseteq Nat /\ Held' \subseteq Nat
    BY <1>2, HeldIsNat
  <2>2. QED
    BY <1>4, <2>1
<1>6. QED
  BY <1>1, <1>5 DEF Timeline!Play

\* The head crosses one period: at most its own slot leaves the set.
LEMMA AcrossHoleIsCross ==
  ASSUME BufferInv, BufferInv', TakeAcrossHole
  PROVE  Timeline!Cross
<1>1. /\ primed /\ head >= contiguousEnd /\ HoleIsPermanent /\ head' = head + 1
      /\ contiguousEnd' \in RunEnd(positions, head + 1, head + 1)
      /\ positions' = positions /\ primed' = primed /\ out' = out
  BY DEF TakeAcrossHole
<1>2. /\ head \in Nat /\ contiguousEnd \in Nat /\ head' \in Nat
      /\ Held = HeldIn(positions, head) /\ Seated(positions, head)
      /\ Held' = HeldIn(positions', head') /\ Seated(positions', head')
  BY TimelineTypes, TimelineTypesNext
<1>3. Held # {}
  BY <1>1, <1>2 DEF HoleIsPermanent, HeldIn
<1>4. ASSUME NEW q \in Nat
      PROVE  /\ q \in Held <=> head <= q /\ HoldsIn(positions, q)
             /\ q \in Held' <=> head + 1 <= q /\ HoldsIn(positions, q)
  BY <1>1, <1>2, HeldIsAhead
<1>5. Held' = Held \ {head}
  <2>1. Held \subseteq Nat /\ Held' \subseteq Nat
    BY <1>2, HeldIsNat
  <2>2. \A q \in Nat : head + 1 <= q <=> head <= q /\ q # head
    BY <1>2
  <2>3. QED
    BY <1>4, <2>1, <2>2
<1>6. contiguousEnd' \in Timeline!Run(Held, head + 1, head + 1)
  <2>1. \A q \in Nat : head + 1 <= q /\ q < head + 1 + Slots
                         => (q \in Held <=> HoldsIn(positions, q))
    BY <1>2, <1>4
  <2>2. QED
    BY <1>1, <1>2, <2>1, RunOfTheSet
<1>7. QED
  BY <1>1, <1>2, <1>3, <1>5, <1>6 DEF Timeline!Cross

\* Discarding strands the oldest of the run.
LEMMA DiscardIsTrim ==
  ASSUME BufferInv, BufferInv', NEW keep \in 0 .. Slots - 1, Discard(keep)
  PROVE  Timeline!Trim(keep)
<1> DEFINE newHead == contiguousEnd - keep
<1>1. /\ contiguousEnd - head > keep /\ head' = newHead
      /\ contiguousEnd' \in RunEnd(positions, newHead, contiguousEnd)
      /\ positions' = positions /\ primed' = primed /\ out' = out
  BY DEF Discard, Level
<1>2. /\ head \in Nat /\ contiguousEnd \in Nat /\ head' \in Nat /\ keep \in Nat
      /\ Held = HeldIn(positions, head) /\ Seated(positions, head)
      /\ Held' = HeldIn(positions', head') /\ Seated(positions', head')
  BY TimelineTypes, TimelineTypesNext
<1>3. newHead \in Nat /\ head < newHead /\ newHead <= contiguousEnd
  BY <1>1, <1>2
<1> HIDE DEF newHead
<1>4. ASSUME NEW q \in Nat
      PROVE  /\ q \in Held <=> head <= q /\ HoldsIn(positions, q)
             /\ q \in Held' <=> newHead <= q /\ HoldsIn(positions, q)
  BY <1>1, <1>2, HeldIsAhead
<1>5. \A q \in Nat : newHead <= q => head <= q
  BY <1>2, <1>3
<1>6. Held' = Timeline!From(newHead, Held)
  <2>1. Held \subseteq Nat /\ Held' \subseteq Nat
    BY <1>2, HeldIsNat
  <2>2. QED
    BY <1>4, <1>5, <2>1 DEF Timeline!From
<1>7. contiguousEnd' \in Timeline!Run(Held, newHead, contiguousEnd)
  <2>1. \A q \in Nat : newHead <= q /\ q < newHead + Slots
                         => (q \in Held <=> HoldsIn(positions, q))
    BY <1>4, <1>5
  <2>2. QED
    BY <1>1, <1>2, <1>3, <2>1, RunOfTheSet
<1>8. keep < contiguousEnd - head
  BY <1>1, <1>2
<1>9. QED
  BY <1>1, <1>6, <1>7, <1>8 DEF Timeline!Trim, newHead

(* A duplicate is inside the window already, so that the head and the end  *)
(* of the run stay where they are.                                         *)
LEMMA DuplicateIsInvisible ==
  ASSUME BufferInv, NEW p \in Positions, PushPlaced(p), HoldsIn(positions, p)
  PROVE  UNCHANGED Timeline!timelineVars
<1>1. /\ head' = NewHead(p) /\ contiguousEnd' = NewEnd(p) /\ primed' = TRUE
      /\ positions' = positions /\ out' = out
      /\ ~(primed /\ p < head)
  BY DEF PushPlaced, NewHead, NewEnd
<1>2. /\ head \in Nat /\ contiguousEnd \in Nat /\ head <= contiguousEnd
      /\ Held = HeldIn(positions, head) /\ Seated(positions, head) /\ p \in Nat
  BY TimelineTypes
<1>3. primed = TRUE
  <2>1. SlotOf(p) \in Ring
    BY <1>2, SlotIsInRing
  <2>2. primed \in BOOLEAN /\ positions[SlotOf(p)] # Empty
    BY <1>2 DEF HoldsIn, Empty, BufferInv, BufferTypeOK
  <2>3. QED
    BY <2>1, <2>2 DEF BufferInv, HeadIsSeated
<1>4. head <= p /\ p < head + Slots
  <2>1. head <= p
    BY <1>1, <1>2, <1>3
  <2>2. p \in HeldIn(positions, head)
    BY <1>2, <2>1, HeldIsAhead
  <2>3. QED
    BY <1>2, <2>1, <2>2 DEF HeldIn, Window
<1>5. NewHead(p) = head
  BY <1>3, <1>4 DEF NewHead, HeadFor, SeatedHead
<1>6. NewEnd(p) = contiguousEnd
  BY <1>2, <1>3, <1>5 DEF NewEnd, EndFor, SeatedEnd
<1>7. QED
  BY <1>1, <1>3, <1>5, <1>6, InvisibleSteps

(* Storing p puts it in the set, and only what the head passes leaves it,  *)
(* for nothing else of the new window lives in p's slot.                   *)
LEMMA StoreIsArrive ==
  ASSUME BufferInv, BufferInv', NEW p \in Positions, PushPlaced(p),
         ~HoldsIn(positions, p)
  PROVE  Timeline!Arrive(p)
<1>1. /\ head' = NewHead(p) /\ primed' = TRUE /\ out' = out
      /\ positions' = [positions EXCEPT ![SlotOf(p)] = p]
      /\ \/ p = NewEnd(p)
            /\ contiguousEnd' \in RunEnd(positions', NewHead(p), NewEnd(p))
         \/ p # NewEnd(p) /\ contiguousEnd' = NewEnd(p)
      /\ ~(primed /\ p < head)
  BY DEF PushPlaced, NewHead, NewEnd
<1>2. /\ head \in Nat /\ contiguousEnd \in Nat /\ head' \in Nat
      /\ Held = HeldIn(positions, head) /\ Seated(positions, head)
      /\ Held' = HeldIn(positions', head') /\ Seated(positions', head')
  BY TimelineTypes, TimelineTypesNext
<1>3. /\ p \in Nat /\ NewHead(p) \in Nat /\ NewEnd(p) \in Nat
      /\ head <= NewHead(p) /\ NewHead(p) <= p /\ p < NewHead(p) + Slots
      /\ NewHead(p) <= NewEnd(p)
  BY <1>1, RoomIsMade
<1>4. ASSUME NEW q \in Nat
      PROVE  /\ q \in Held <=> head <= q /\ HoldsIn(positions, q)
             /\ q \in Held' <=> NewHead(p) <= q /\ HoldsIn(positions', q)
  BY <1>1, <1>2, HeldIsAhead
<1>5. HoldsIn(positions', p)
  <2>1. SlotOf(p) \in Ring /\ positions \in [Ring -> Nat \cup {Empty}]
    BY <1>3, SlotIsInRing DEF BufferInv, BufferTypeOK
  <2>2. QED
    BY <1>1, <2>1 DEF HoldsIn
<1>6. ASSUME NEW q \in Nat, NewHead(p) <= q, q # p
      PROVE  HoldsIn(positions', q) <=> HoldsIn(positions, q)
  <2>1. SlotOf(q) \in Ring /\ positions \in [Ring -> Nat \cup {Empty}]
    BY SlotIsInRing DEF BufferInv, BufferTypeOK
  <2>2. CASE q < NewHead(p) + Slots
    <3>1. SlotOf(q) # SlotOf(p)
      BY <1>3, <1>6, <2>2, StoringSparesTheWindow
    <3>2. QED
      BY <1>1, <2>1, <3>1 DEF HoldsIn
  <2>3. CASE NewHead(p) + Slots <= q
    <3>1. ~HoldsIn(positions', q)
      <4>1. HoldsIn(positions', q) => q \in HeldIn(positions', head')
        BY <1>1, <1>2, <1>6, HeldIsAhead
      <4>2. q \notin HeldIn(positions', head')
        BY <1>1, <1>3, <2>3 DEF HeldIn, Window
      <4>3. QED
        BY <4>1, <4>2
    <3>2. ~HoldsIn(positions, q)
      <4>1. head <= q /\ head + Slots <= q
        BY <1>2, <1>3, <2>3
      <4>2. q \notin HeldIn(positions, head)
        BY <1>2, <4>1 DEF HeldIn, Window
      <4>3. QED
        BY <1>2, <4>1, <4>2, HeldIsAhead
    <3>3. QED
      BY <3>1, <3>2
  <2>4. QED
    BY <1>3, <2>2, <2>3
<1>7. Held' = Timeline!From(NewHead(p), Held) \cup {p}
  <2>1. Held \subseteq Nat /\ Held' \subseteq Nat
    BY <1>2, HeldIsNat
  <2>2. \A q \in Nat : NewHead(p) <= q => head <= q
    BY <1>2, <1>3
  <2>3. \A q \in Nat : q \in Held' <=> q = p \/ (NewHead(p) <= q /\ q \in Held)
    BY <1>3, <1>4, <1>5, <1>6, <2>2
  <2>4. QED
    BY <1>3, <2>1, <2>3 DEF Timeline!From
<1>8. p = NewEnd(p) => contiguousEnd' \in Timeline!Run(Held', NewHead(p), NewEnd(p))
  <2>1. \A q \in Nat : NewHead(p) <= q /\ q < NewHead(p) + Slots
                         => (q \in Held' <=> HoldsIn(positions', q))
    BY <1>4
  <2>2. QED
    BY <1>1, <1>3, <2>1, RunOfTheSet
<1>9. NewHead(p) = Timeline!Room(IF primed THEN head ELSE p, p)
  BY <1>2, <1>3 DEF NewHead, HeadFor, SeatedHead, Timeline!Room
<1>10. NewEnd(p) = IF ~primed THEN p
                   ELSE IF contiguousEnd < NewHead(p) THEN NewHead(p)
                   ELSE contiguousEnd
  BY <1>3 DEF NewEnd, EndFor, SeatedEnd
<1>11. /\ primed => head <= p
       /\ p \notin Held
  BY <1>1, <1>2, <1>3, <1>4
<1>12. out'.position = out.position
  BY <1>1
<1>13. QED
  BY <1>1, <1>7, <1>8, <1>9, <1>10, <1>11, <1>12 DEF Timeline!Arrive

----------------------------------------------------------------------------

LEMMA NextIsTimelineNext ==
  BufferInv /\ BufferInv' /\ [BufferNext]_bufferVars
    => [Timeline!TimelineNext]_(Timeline!timelineVars)
<1> SUFFICES ASSUME BufferInv, BufferInv', [BufferNext]_bufferVars
             PROVE  Timeline!TimelineNext \/ UNCHANGED Timeline!timelineVars
  OBVIOUS
<1>1. CASE PushMalformed \/ TakeUnderrun
  BY <1>1, InvisibleSteps DEF PushMalformed, TakeUnderrun
<1>2. ASSUME NEW p \in Positions, Push(p)
      PROVE  Timeline!TimelineNext \/ UNCHANGED Timeline!timelineVars
  <2>1. CASE PushLate(p)
    BY <2>1, InvisibleSteps DEF PushLate
  <2>2. CASE PushPlaced(p)
    <3>1. CASE HoldsIn(positions, p)
      BY <2>2, <3>1, DuplicateIsInvisible
    <3>2. CASE ~HoldsIn(positions, p)
      BY <2>2, <3>2, StoreIsArrive DEF Timeline!TimelineNext
    <3>3. QED
      BY <3>1, <3>2
  <2>3. QED
    BY <1>2, <2>1, <2>2 DEF Push
<1>3. CASE TakeAcrossHole
  BY <1>3, AcrossHoleIsCross DEF Timeline!TimelineNext
<1>4. CASE TakePlay
  BY <1>4, PlayIsPlay DEF Timeline!TimelineNext
<1>5. ASSUME NEW keep \in 0 .. Slots - 1, Discard(keep)
      PROVE  Timeline!TimelineNext
  BY <1>5, DiscardIsTrim DEF Timeline!TimelineNext
<1>6. CASE UNCHANGED bufferVars
  BY <1>6, InvisibleSteps DEF bufferVars
<1>7. QED
  BY <1>1, <1>2, <1>3, <1>4, <1>5, <1>6 DEF BufferNext, Take

(* The ring with its residues and stale slots implements the timeline of   *)
(* held positions that the receive path is built on.                       *)
THEOREM BufferImplementsTimeline == BufferSpec => ImplementsTimeline
<1>1. BufferInit => Timeline!TimelineInit
  BY InitIsTimelineInit
<1>2. BufferInv /\ BufferInv' /\ [BufferNext]_bufferVars
        => [Timeline!TimelineNext]_(Timeline!timelineVars)
  BY NextIsTimelineNext
<1>3. QED
  BY <1>1, <1>2, BufferAlwaysInv, PTL
     DEF BufferSpec, ImplementsTimeline, Timeline!TimelineSpec

----------------------------------------------------------------------------
(***************************************************************************)
(* Loss is reported.  The books of one step are the books of the set held: *)
(* what a step puts into the set is pushed, what it takes out is played,   *)
(* dropped or concealed, and the slots the code counts as stranded         *)
(* (frames_held_below) are the periods that leave the set.                 *)
(***************************************************************************)


LEMMA HeldIsFinite ==
  ASSUME BufferInv
  PROVE  IsFiniteSet(Held) /\ Cardinality(Held) \in Nat
<1>1. head \in Int /\ head + Slots - 1 \in Int
  BY DEF BufferInv, BufferTypeOK
<1>2. IsFiniteSet(Window(head))
  BY <1>1, FS_Interval DEF Window
<1>3. Held \in SUBSET Window(head)
  BY DEF Held
<1>4. QED
  BY <1>2, <1>3, FS_Subset, FS_CardinalityType

\* A head that does not move strands nothing.
LEMMA NothingIsStranded ==
  ASSUME BufferInv, NEW h \in Nat
  PROVE  Cardinality(HeldBelow(h, h)) = 0
<1>1. \A s \in Ring : positions[s] \in Nat \cup {Empty}
  BY DEF BufferInv, BufferTypeOK
<1>2. HeldBelow(h, h) = {}
  BY <1>1 DEF HeldBelow, Empty
<1>3. QED
  BY <1>2, FS_EmptySet

(* The slots frames_held_below counts are the held periods the head leaves *)
(* behind, one slot for each.                                              *)
LEMMA StrandedAreHeld ==
  ASSUME BufferInv, NEW n \in Nat
  PROVE  Cardinality(HeldBelow(head, n)) = Cardinality(Held \ Timeline!From(n, Held))
<1> DEFINE Lost == Held \ Timeline!From(n, Held)
           At == [s \in HeldBelow(head, n) |-> positions[s]]
<1>1. head \in Nat /\ Held = HeldIn(positions, head) /\ Seated(positions, head)
  BY TimelineTypes
<1>2. IsFiniteSet(HeldBelow(head, n))
  <2>1. IsFiniteSet(Ring)
    BY FS_Interval DEF Ring
  <2>2. HeldBelow(head, n) \in SUBSET Ring
    BY DEF HeldBelow
  <2>3. QED
    BY <2>1, <2>2, FS_Subset
<1>3. ASSUME NEW s \in HeldBelow(head, n)
      PROVE  /\ s \in Ring /\ positions[s] \in Nat
             /\ SlotOf(positions[s]) = s /\ positions[s] \in Lost
  <2>1. /\ s \in Ring /\ positions[s] # Empty /\ head <= positions[s]
        /\ positions[s] < n
    BY DEF HeldBelow
  <2>2. positions[s] \in Nat /\ SlotOf(positions[s]) = s
    BY <2>1 DEF BufferInv, BufferTypeOK, RingIsSeated
  <2>3. HoldsIn(positions, positions[s])
    BY <2>2 DEF HoldsIn
  <2>4. positions[s] \in Held
    BY <1>1, <2>1, <2>2, <2>3, HeldIsAhead
  <2>5. ~(n <= positions[s])
    BY <2>1, <2>2
  <2>6. QED
    BY <2>1, <2>2, <2>4, <2>5 DEF Timeline!From
<1>4. ASSUME NEW q \in Lost
      PROVE  \E s \in HeldBelow(head, n) : positions[s] = q
  <2>1. q \in Nat /\ head <= q /\ HoldsIn(positions, q)
    BY <1>1, HeldIsAhead, HeldIsNat
  <2>2. q < n
    BY <2>1 DEF Timeline!From
  <2>3. SlotOf(q) \in Ring
    BY <2>1, SlotIsInRing
  <2>4. positions[SlotOf(q)] = q /\ q # Empty
    BY <2>1 DEF HoldsIn, Empty
  <2>5. SlotOf(q) \in HeldBelow(head, n)
    BY <2>1, <2>2, <2>3, <2>4 DEF HeldBelow
  <2>6. QED
    BY <2>4, <2>5
<1>5. At \in Bijection(HeldBelow(head, n), Lost)
  <2>1. At \in [HeldBelow(head, n) -> Lost]
    BY <1>3
  <2>2. \A s, t \in HeldBelow(head, n) : At[s] = At[t] => s = t
    BY <1>3
  <2>3. \A q \in Lost : \E s \in HeldBelow(head, n) : At[s] = q
    BY <1>4
  <2>4. At \in Injection(HeldBelow(head, n), Lost)
    BY <2>1, <2>2 DEF Injection, IsInjective
  <2>5. At \in Surjection(HeldBelow(head, n), Lost)
    BY <2>1, <2>3 DEF Surjection
  <2>6. QED
    BY <2>4, <2>5 DEF Bijection
<1>6. ExistsBijection(HeldBelow(head, n), Lost)
  BY <1>5 DEF ExistsBijection
<1>7. QED
  BY <1>2, <1>6, FS_Bijection

\* A set is what a head leaves behind of it and what it still holds ahead.
LEMMA LostAndKept ==
  ASSUME NEW S, IsFiniteSet(S), NEW n
  PROVE  /\ IsFiniteSet(Timeline!From(n, S))
         /\ Cardinality(Timeline!From(n, S)) \in Nat
         /\ Cardinality(S \ Timeline!From(n, S))
              = Cardinality(S) - Cardinality(Timeline!From(n, S))
<1>1. Timeline!From(n, S) \in SUBSET S
  BY DEF Timeline!From
<1>2. IsFiniteSet(Timeline!From(n, S))
  BY <1>1, FS_Subset
<1>3. S \cap Timeline!From(n, S) = Timeline!From(n, S)
  BY <1>1
<1>4. QED
  BY <1>2, <1>3, FS_Difference, FS_CardinalityType

\* Taking the head out of the books, where it may be held or not.
LEMMA HeadLeaves ==
  ASSUME BufferInv, BufferInv', Held' = Held \ {head}
  PROVE  /\ head \in Held => Cardinality(Held') = Cardinality(Held) - 1
         /\ head \notin Held => Cardinality(Held') = Cardinality(Held)
<1>1. IsFiniteSet(Held)
  BY HeldIsFinite
<1>2. QED
  BY <1>1, FS_RemoveElement

\* What the proof reads of the invariant: every counter is a number.
LEMMA BooksAreNumbers ==
  ASSUME BufferInv
  PROVE  /\ pushed \in Nat /\ played \in Nat /\ dropped \in Nat
         /\ concealed \in Nat /\ Cardinality(Held) \in Nat
BY HeldIsFinite DEF BufferInv, BufferTypeOK

LEMMA BooksAreNumbersNext ==
  ASSUME BufferInv' PROVE IsFiniteSet(Held') /\ Cardinality(Held') \in Nat
<1>1. head' \in Int /\ head' + Slots - 1 \in Int
  BY DEF BufferInv, BufferTypeOK
<1>2. IsFiniteSet(head' .. head' + Slots - 1)
  BY <1>1, FS_Interval
<1>3. Held' \in SUBSET (head' .. head' + Slots - 1)
  BY DEF Held, Window
<1>4. QED
  BY <1>2, <1>3, FS_Subset, FS_CardinalityType

\* Steps that move nothing and count nothing the books are made of.
LEMMA BooksStand ==
  ASSUME LossIsReported,
         UNCHANGED <<positions, head, pushed, played, dropped, concealed>>
  PROVE  LossIsReported'
<1>1. Held' = Held
  BY DEF Held, HoldsIn, Window
<1>2. QED
  BY <1>1 DEF LossIsReported

\* A period played leaves the set and is counted as played.
LEMMA PlayedIsCounted ==
  ASSUME BufferInv, BufferInv', LossIsReported, TakePlay
  PROVE  LossIsReported'
<1>1. /\ head < contiguousEnd /\ played' = played + 1
      /\ UNCHANGED <<pushed, dropped, concealed>>
  BY DEF TakePlay
<1>2. head \in Held
  <2>1. head \in Nat /\ contiguousEnd \in Nat
    BY DEF BufferInv, BufferTypeOK
  <2>2. HoldsIn(positions, head)
    BY <1>1, <2>1 DEF BufferInv, LevelIsPlayable
  <2>3. QED
    BY <2>1, <2>2 DEF Held, Window
<1>3. Held' = Held \ {head}
  BY PlayIsPlay DEF Timeline!Play
<1>4. Cardinality(Held') = Cardinality(Held) - 1
  BY <1>2, <1>3, HeadLeaves
<1>5. QED
  BY <1>1, <1>4, BooksAreNumbers DEF LossIsReported

\* A period crossed is concealed, whether it was held or was a hole.
LEMMA CrossedIsCounted ==
  ASSUME BufferInv, BufferInv', LossIsReported, TakeAcrossHole
  PROVE  LossIsReported'
<1>1. concealed' = concealed + 1 /\ UNCHANGED <<pushed, played, dropped>>
  BY DEF TakeAcrossHole
<1>2. Held' = Held \ {head}
  BY AcrossHoleIsCross DEF Timeline!Cross
<1>3. /\ Cardinality(Held') \in Nat
      /\ \/ Cardinality(Held') = Cardinality(Held) - 1
         \/ Cardinality(Held') = Cardinality(Held)
  BY <1>2, HeadLeaves, BooksAreNumbersNext
<1>4. QED
  BY <1>1, <1>3, BooksAreNumbers DEF LossIsReported

\* Every period a discard passes was held, for the level is playable.
LEMMA DiscardedIsCounted ==
  ASSUME BufferInv, BufferInv', LossIsReported, NEW keep \in 0 .. Slots - 1,
         Discard(keep)
  PROVE  LossIsReported'
<1> DEFINE n == contiguousEnd - keep
<1>1. /\ head \in Nat /\ contiguousEnd \in Nat /\ keep \in Nat
      /\ n \in Nat /\ head < n /\ n <= contiguousEnd
      /\ contiguousEnd <= head + Slots
  BY DEF BufferInv, BufferTypeOK, LevelIsPlayable, Discard, Level
<1>2. dropped' = dropped + (n - head) /\ UNCHANGED <<pushed, played, concealed>>
  <2>1. Level - keep = n - head
    BY <1>1 DEF Level
  <2>2. QED
    BY <2>1 DEF Discard
<1>3. Held' = Timeline!From(n, Held)
  BY DiscardIsTrim DEF Timeline!Trim
<1> HIDE DEF n
<1>4. Held \ Timeline!From(n, Held) = head .. n - 1
  <2>1. ASSUME NEW q \in head .. n - 1
        PROVE  q \in Held \ Timeline!From(n, Held)
    <3>1. q \in head .. contiguousEnd - 1 /\ ~(n <= q) /\ q \in Window(head)
      BY <1>1 DEF Window
    <3>2. HoldsIn(positions, q)
      BY <3>1 DEF BufferInv, LevelIsPlayable
    <3>3. QED
      BY <3>1, <3>2 DEF Held, Timeline!From
  <2>2. ASSUME NEW q \in Held \ Timeline!From(n, Held)
        PROVE  q \in head .. n - 1
    <3>1. q \in Window(head) /\ ~(n <= q)
      BY DEF Held, Timeline!From
    <3>2. QED
      BY <1>1, <3>1 DEF Window
  <2>3. QED
    BY <2>1, <2>2
<1>5. Cardinality(head .. n - 1) = n - head
  <2>1. head \in Int /\ n - 1 \in Int /\ ~(head > n - 1)
    BY <1>1
  <2>2. Cardinality(head .. n - 1) = n - 1 - head + 1
    BY <2>1, FS_Interval
  <2>3. QED
    BY <1>1, <2>2
<1>6. Cardinality(Held) - Cardinality(Held') = n - head
  BY <1>3, <1>4, <1>5, LostAndKept, HeldIsFinite
<1>7. Cardinality(Held') \in Nat /\ n - head \in Int
  BY <1>1, BooksAreNumbersNext
<1>8. QED
  BY <1>2, <1>6, <1>7, BooksAreNumbers DEF LossIsReported

\* A duplicate moves no head and strands nothing.
LEMMA DuplicateIsNoLoss ==
  ASSUME BufferInv, LossIsReported, NEW p \in Positions, PushPlaced(p),
         HoldsIn(positions, p)
  PROVE  LossIsReported'
<1>1. /\ head' = NewHead(p) /\ positions' = positions
      /\ dropped' = dropped + Cardinality(HeldBelow(SeatedHead(p), NewHead(p)))
      /\ UNCHANGED <<pushed, played, concealed>>
  BY DEF PushPlaced, NewHead
<1>2. head' = head
  BY DuplicateIsInvisible DEF Timeline!timelineVars
<1>3. SeatedHead(p) = NewHead(p) /\ NewHead(p) \in Nat
  <2>1. p \in Nat /\ head \in Nat /\ ~(primed /\ p < head)
    BY DEF BufferInv, BufferTypeOK, PushPlaced
  <2>2. SeatedHead(p) \in Nat /\ SeatedHead(p) <= p /\ head <= SeatedHead(p)
    BY <2>1 DEF SeatedHead, BufferInv, HeadIsSeated
  <2>3. SeatedHead(p) <= NewHead(p)
    BY <2>1, <2>2, HeadMakesRoom DEF NewHead
  <2>4. QED
    BY <1>1, <1>2, <2>1, <2>2, <2>3
<1>4. Cardinality(HeldBelow(SeatedHead(p), NewHead(p))) = 0
  BY <1>3, NothingIsStranded
<1>5. dropped' = dropped
  BY <1>1, <1>4, BooksAreNumbers
<1>6. QED
  BY <1>1, <1>2, <1>5, BooksStand

(* A period stored is pushed and held; the periods its arrival strands are *)
(* dropped, each once.                                                     *)
LEMMA StoredIsCounted ==
  ASSUME BufferInv, BufferInv', LossIsReported, NEW p \in Positions,
         PushPlaced(p), ~HoldsIn(positions, p)
  PROVE  LossIsReported'
<1> DEFINE stranded == Cardinality(HeldBelow(SeatedHead(p), NewHead(p)))
           kept == Timeline!From(NewHead(p), Held)
<1>1. /\ dropped' = dropped + stranded /\ pushed' = pushed + 1
      /\ UNCHANGED <<played, concealed>> /\ head' = NewHead(p)
      /\ ~(primed /\ p < head)
  BY DEF PushPlaced, NewHead
<1>2. p \in Nat /\ NewHead(p) \in Nat
  BY <1>1, RoomIsMade
<1>3. Held' = kept \cup {p} /\ p \notin Held
  BY <1>1, StoreIsArrive DEF Timeline!Arrive
<1>4. /\ IsFiniteSet(kept) /\ Cardinality(kept) \in Nat
      /\ Cardinality(Held \ kept) = Cardinality(Held) - Cardinality(kept)
  BY HeldIsFinite, LostAndKept
<1>5. stranded = Cardinality(Held \ kept)
  <2>1. CASE primed
    <3>1. SeatedHead(p) = head
      BY <2>1 DEF SeatedHead
    <3>2. QED
      BY <1>2, <3>1, StrandedAreHeld
  <2>2. CASE ~primed
    <3>1. SeatedHead(p) = p /\ NewHead(p) = p
      BY <1>2, <2>2 DEF SeatedHead, NewHead, HeadFor
    <3>2. stranded = 0
      BY <1>2, <3>1, NothingIsStranded
    <3>3. Held = {}
      <4> SUFFICES ASSUME NEW q \in Held PROVE FALSE
        OBVIOUS
      <4>1. q \in Nat /\ HoldsIn(positions, q)
        BY TimelineTypes, HeldIsNat DEF HeldIn
      <4>2. SlotOf(q) \in Ring
        BY <4>1, SlotIsInRing
      <4>3. QED
        BY <2>2, <4>1, <4>2 DEF BufferInv, HeadIsSeated, HoldsIn, Empty
    <3>4. Held \ kept = {}
      BY <3>3
    <3>5. QED
      BY <3>2, <3>4, FS_EmptySet
  <2>3. QED
    BY <2>1, <2>2
<1>6. Cardinality(Held') = Cardinality(kept) + 1
  <2>1. p \notin kept
    BY <1>3 DEF Timeline!From
  <2>2. QED
    BY <1>3, <1>4, <2>1, FS_AddElement
<1> HIDE DEF stranded, kept
<1>7. stranded = Cardinality(Held) - Cardinality(kept)
  BY <1>4, <1>5
<1>8. QED
  BY <1>1, <1>4, <1>6, <1>7, BooksAreNumbers DEF LossIsReported

LEMMA NextKeepsTheBooks ==
  BufferInv /\ BufferInv' /\ LossIsReported /\ [BufferNext]_bufferVars
    => LossIsReported'
<1> SUFFICES ASSUME BufferInv, BufferInv', LossIsReported,
                    [BufferNext]_bufferVars
             PROVE  LossIsReported'
  OBVIOUS
<1>1. CASE PushMalformed \/ TakeUnderrun
  BY <1>1, BooksStand DEF PushMalformed, TakeUnderrun
<1>2. ASSUME NEW p \in Positions, Push(p) PROVE LossIsReported'
  <2>1. CASE PushLate(p)
    BY <2>1, BooksStand DEF PushLate
  <2>2. CASE PushPlaced(p)
    BY <2>2, DuplicateIsNoLoss, StoredIsCounted
  <2>3. QED
    BY <1>2, <2>1, <2>2 DEF Push
<1>3. CASE TakeAcrossHole
  BY <1>3, CrossedIsCounted
<1>4. CASE TakePlay
  BY <1>4, PlayedIsCounted
<1>5. ASSUME NEW keep \in 0 .. Slots - 1, Discard(keep) PROVE LossIsReported'
  BY <1>5, DiscardedIsCounted
<1>6. CASE UNCHANGED bufferVars
  BY <1>6, BooksStand DEF bufferVars
<1>7. QED
  BY <1>1, <1>2, <1>3, <1>4, <1>5, <1>6 DEF BufferNext, Take

(* Every period stored is played, still held, or counted as dropped or     *)
(* concealed, for every ring and every order of arrivals: no audio         *)
(* disappears without a counter the operator reads.                        *)
THEOREM LossIsAlwaysReported == BufferSpec => []LossIsReported
<1>1. BufferInit => LossIsReported
  <2> SUFFICES ASSUME BufferInit PROVE LossIsReported
    OBVIOUS
  <2>1. Held = {}
    BY InitIsTimelineInit DEF Timeline!TimelineInit
  <2>2. Cardinality(Held) = 0
    BY <2>1, FS_EmptySet
  <2>3. QED
    BY <2>2 DEF BufferInit, LossIsReported
<1>2. BufferInv /\ BufferInv' /\ LossIsReported /\ [BufferNext]_bufferVars
        => LossIsReported'
  BY NextKeepsTheBooks
<1>3. QED
  BY <1>1, <1>2, BufferAlwaysInv, PTL DEF BufferSpec

=============================================================================
