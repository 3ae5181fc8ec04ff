---------------------------- MODULE PlayoutBuffer ----------------------------
(***************************************************************************)
(* The playout buffer (src/src/clock/playout_buffer.cpp): the sender's     *)
(* audio held by sample position in a ring of Slots periods, the playout   *)
(* head, and the contiguous run of held periods from the head, which is    *)
(* the level the clock steers on.                                          *)
(*                                                                         *)
(* Positions are counted in periods (the code's sample position divided by *)
(* period_frames), and so are the frame counters.  Pushes may come in any  *)
(* order: the class promises a status for every arrival, in order or not.  *)
(***************************************************************************)
EXTENDS Integers, FiniteSets

CONSTANTS Slots,      \* slots_: capacity of the ring, in periods
          Positions,  \* the positions the sender may stamp on a period
          CountCap    \* the counters no property adds up saturate here

(* Engine::prepare derives the capacity as 2 * alarm_periods + 1, so the   *)
(* ring has at least one slot.                                             *)
ASSUME SlotsAssumption == Slots \in Nat \ {0}
ASSUME PositionsAssumption == Positions \subseteq Nat
ASSUME CountCapAssumption == CountCap \in Nat

VARIABLES
  positions,      \* positions_: the position held in each slot, or Empty
  audio,          \* audio_: the position whose audio each slot last received
  head,           \* head_: the position the next period played comes from
  contiguousEnd,  \* contiguous_end_: end of the run held from the head
  primed,         \* primed_: the first push has decided the head
  pushed,         \* pushed_: periods stored
  played,         \* played_: periods taken
  dropped,        \* dropped_: held periods surrendered or discarded
  concealed,      \* concealed_: periods crossed as a permanent hole
  late,           \* late_: arrivals behind the head (saturating)
  refused,        \* refused_: duplicate or malformed arrivals (saturating)
  underruns,      \* underruns_: takes that played nothing (saturating)
  out             \* the last period take handed out: its position and audio

bufferVars == <<positions, audio, head, contiguousEnd, primed, pushed, played,
                dropped, concealed, late, refused, underruns, out>>

Empty == -1
Ring == 0 .. Slots - 1

Bump(count) == IF count < CountCap THEN count + 1 ELSE count

\* The ring slot a position lives in.
SlotOf(p) == p % Slots

\* Mutant: a slot counts as held whatever position it holds.
HoldsAnything(ring, p) == ring[SlotOf(p)] # Empty

HoldsIn(ring, p) == ring[SlotOf(p)] = p

Window(h) == h .. h + Slots - 1
Held == {p \in Window(head) : HoldsIn(positions, p)}

\* held_frames(): what can be played without inventing audio.
Level == contiguousEnd - head

\* Mutant: the walk goes one period past the first one that is missing.
RunEndPastHole(ring, h, end) ==
  {e \in end + 1 .. h + Slots + 1 :
     /\ \A p \in end .. e - 2 : HoldsIn(ring, p)
     /\ e = h + Slots + 1 \/ ~HoldsIn(ring, e - 1)}

(* advance_contiguous: the loop walks from `end` while the next position   *)
(* is held and inside the window of head h.  The set has one element.      *)
RunEnd(ring, h, end) ==
  {e \in end .. h + Slots :
     /\ \A p \in end .. e - 1 : HoldsIn(ring, p)
     /\ e = h + Slots \/ ~HoldsIn(ring, e)}

BufferInit ==
  /\ positions = [s \in Ring |-> Empty]
  /\ audio = [s \in Ring |-> Empty]
  /\ head = 0
  /\ contiguousEnd = 0
  /\ primed = FALSE
  /\ pushed = 0 /\ played = 0 /\ dropped = 0 /\ concealed = 0
  /\ late = 0 /\ refused = 0 /\ underruns = 0
  /\ out = [position |-> Empty, audio |-> Empty]

----------------------------------------------------------------------------
(* push *)

\* Where the head is when a push of p is placed: the first one decides it.
SeatedHead(p) == IF primed THEN head ELSE p
SeatedEnd(p) == IF primed THEN contiguousEnd ELSE p

\* Mutant: the head always makes room by one period only.
HeadForOnePeriod(h, p) == IF p < h + Slots THEN h ELSE h + 1

(* Where the head goes to make room for p: nowhere when p is inside the    *)
(* window, one period when p is one past a full buffer, and to p itself    *)
(* when the sender's timeline moved further than the buffer can follow.    *)
HeadFor(h, p) ==
  IF p < h + Slots THEN h
  ELSE IF p - h > Slots THEN p
  ELSE h + 1

\* The run never ends behind the head that moved.
EndFor(end, newHead) == IF end < newHead THEN newHead ELSE end

\* Mutant: only what has already been passed is counted as lost.
HeldBelowNone(h, newHead) == {s \in Ring : positions[s] # Empty /\ positions[s] < h}

\* frames_held_below: the held periods that moving the head strands.
HeldBelow(h, newHead) ==
  {s \in Ring : positions[s] # Empty /\ h <= positions[s] /\ positions[s] < newHead}

(* An arrival with a null pointer, a wrong byte count or a position off    *)
(* the period boundary: counted and otherwise ignored.                     *)
PushMalformed ==
  /\ refused' = Bump(refused)
  /\ UNCHANGED <<positions, audio, head, contiguousEnd, primed, pushed, played,
                 dropped, concealed, late, underruns, out>>

PushLate(p) ==
  /\ primed /\ p < head
  /\ late' = Bump(late)
  /\ UNCHANGED <<positions, audio, head, contiguousEnd, primed, pushed, played,
                 dropped, concealed, refused, underruns, out>>

(* Everything push does once p is not late: seat the head, make room, then *)
(* refuse a duplicate or store and extend the run.                         *)
PushPlaced(p) ==
  LET h == SeatedHead(p)
      newHead == HeadFor(h, p)
      end == EndFor(SeatedEnd(p), newHead)
      stored == [positions EXCEPT ![SlotOf(p)] = p]
  IN /\ ~(primed /\ p < head)
     /\ primed' = TRUE
     /\ head' = newHead
     /\ dropped' = dropped + Cardinality(HeldBelow(h, newHead))
     /\ \/ /\ HoldsIn(positions, p)
           /\ refused' = Bump(refused)
           /\ contiguousEnd' = end
           /\ UNCHANGED <<positions, audio, pushed>>
        \/ /\ ~HoldsIn(positions, p)
           /\ positions' = stored
           /\ audio' = [audio EXCEPT ![SlotOf(p)] = p]
           /\ pushed' = pushed + 1
           /\ \/ p = end /\ contiguousEnd' \in RunEnd(stored, newHead, end)
              \/ p # end /\ contiguousEnd' = end
           /\ UNCHANGED refused
     /\ UNCHANGED <<played, concealed, late, underruns, out>>

Push(p) == PushLate(p) \/ PushPlaced(p)

----------------------------------------------------------------------------
(* take and discard_to_level_ms *)

\* Mutant: the head waits at a hole for ever, whatever is held beyond it.
HoleIsNeverPermanent == FALSE

\* next_held_at_or_after(head): a held period proves the hole permanent.
HoleIsPermanent == \E p \in Window(head) : HoldsIn(positions, p)

\* Nothing playable and nothing beyond: the head does not move.
TakeUnderrun ==
  /\ ~primed \/ (head >= contiguousEnd /\ ~HoleIsPermanent)
  /\ underruns' = Bump(underruns)
  /\ UNCHANGED <<positions, audio, head, contiguousEnd, primed, pushed, played,
                 dropped, concealed, late, refused, out>>

\* Mutant: the run is not walked again after a hole.
TakeAcrossHoleUnwalked ==
  /\ primed /\ head >= contiguousEnd /\ HoleIsPermanent
  /\ head' = head + 1 /\ contiguousEnd' = head + 1
  /\ concealed' = concealed + 1
  /\ underruns' = Bump(underruns)
  /\ UNCHANGED <<positions, audio, primed, pushed, played, dropped, late, refused,
                 out>>

\* The head crosses one period of a hole nothing can fill any more.
TakeAcrossHole ==
  /\ primed /\ head >= contiguousEnd /\ HoleIsPermanent
  /\ head' = head + 1
  /\ concealed' = concealed + 1
  /\ contiguousEnd' \in RunEnd(positions, head + 1, head + 1)
  /\ underruns' = Bump(underruns)
  /\ UNCHANGED <<positions, audio, primed, pushed, played, dropped, late, refused,
                 out>>

TakePlay ==
  /\ primed /\ head < contiguousEnd
  /\ out' = [position |-> head, audio |-> audio[SlotOf(head)]]
  /\ positions' = [positions EXCEPT ![SlotOf(head)] = Empty]
  /\ head' = head + 1
  /\ played' = played + 1
  /\ UNCHANGED <<audio, contiguousEnd, primed, pushed, dropped, concealed, late,
                 refused, underruns>>

Take == TakeUnderrun \/ TakeAcrossHole \/ TakePlay

\* Mutant: the early return for a level already at or below `keep` is gone.
DiscardUnguarded(keep) ==
  LET newHead == contiguousEnd - keep
  IN /\ head' = newHead
     /\ dropped' = dropped + (Level - keep)
     /\ contiguousEnd' \in RunEnd(positions, newHead, contiguousEnd)
     /\ UNCHANGED <<positions, audio, primed, pushed, played, concealed, late,
                    refused, underruns, out>>

(* Discard the oldest contiguous audio so that at most `keep` periods      *)
(* remain.  The slots it passes keep their stale positions.                *)
Discard(keep) ==
  LET newHead == contiguousEnd - keep
  IN /\ Level > keep
     /\ head' = newHead
     /\ dropped' = dropped + (Level - keep)
     /\ contiguousEnd' \in RunEnd(positions, newHead, contiguousEnd)
     /\ UNCHANGED <<positions, audio, primed, pushed, played, concealed, late,
                    refused, underruns, out>>

BufferNext ==
  \/ PushMalformed
  \/ \E p \in Positions : Push(p)
  \/ Take
  \/ \E keep \in 0 .. Slots - 1 : Discard(keep)

BufferSpec == BufferInit /\ [][BufferNext]_bufferVars

(* While the link is up and playout has begun, the receive loop takes once *)
(* per turn and the device paces its turns, so Take is never postponed for *)
(* ever.  A buffer whose link went down is replaced when the link is back. *)
(* Nothing is assumed of the arrivals.                                     *)
FairBufferSpec == BufferSpec /\ WF_bufferVars(Take)

----------------------------------------------------------------------------
(* Properties *)

\* The type invariant of the buffer's fields.
BufferTypeOK ==
  /\ positions \in [Ring -> Nat \cup {Empty}]
  /\ audio \in [Ring -> Nat \cup {Empty}]
  /\ head \in Nat /\ contiguousEnd \in Nat /\ primed \in BOOLEAN
  /\ pushed \in Nat /\ played \in Nat /\ dropped \in Nat /\ concealed \in Nat
  /\ late \in 0 .. CountCap /\ refused \in 0 .. CountCap
  /\ underruns \in 0 .. CountCap
  /\ out \in [position : Nat \cup {Empty}, audio : Nat \cup {Empty}]

(* The level is never a promise the ring cannot keep: the run is inside    *)
(* the window and every period of it is held with the sender's own audio.  *)
(* take copies from the ring on the strength of this alone                 *)
(* (playout_buffer.cpp:198).                                               *)
LevelIsPlayable ==
  /\ head <= contiguousEnd /\ contiguousEnd <= head + Slots
  /\ \A p \in head .. contiguousEnd - 1 :
       HoldsIn(positions, p) /\ audio[SlotOf(p)] = p

(* What is handed out is the audio the sender put at that position: no     *)
(* stale slot is ever read as the present one.                             *)
PlaysSendersAudio == out.audio = out.position

(* A held period sits in its own slot, inside the window or behind the     *)
(* head, and the slot's audio is its own.                                  *)
RingIsSeated ==
  \A s \in Ring : positions[s] # Empty =>
    /\ SlotOf(positions[s]) = s
    /\ positions[s] < head + Slots
    /\ audio[s] = positions[s]

(* Before the first push nothing is held and the head is at the origin;    *)
(* nothing handed out is ahead of the head.                                *)
HeadIsSeated ==
  /\ ~primed => /\ head = 0 /\ contiguousEnd = 0
                /\ \A s \in Ring : positions[s] = Empty
  /\ out.position < head

(* What the properties above rest on, as one inductive invariant: the      *)
(* indexing by residue is sound because no held position is a window ahead *)
(* of the head (playout_buffer.cpp:115-130, 145-149).                      *)
BufferInv ==
  /\ BufferTypeOK
  /\ RingIsSeated
  /\ HeadIsSeated
  /\ LevelIsPlayable
  /\ PlaysSendersAudio

(* Every period stored is played, still held, or reported to the operator  *)
(* as dropped or concealed: loss is never silent, and never counted twice  *)
(* as dropped.                                                             *)
LossIsReported ==
  LET unaccounted == pushed - played - dropped - Cardinality(Held)
  IN 0 <= unaccounted /\ unaccounted <= concealed

(* It never overwrites audio it holds (playout_buffer.hpp:70): a slot      *)
(* whose period the head has not passed keeps it.                          *)
NeverOverwrites ==
  [][\A s \in Ring : positions[s] # Empty /\ positions[s] >= head'
                       => positions'[s] = positions[s]]_bufferVars

(* The timeline only moves forward, and each position is played at most    *)
(* once and in order, whatever order the arrivals came in.                 *)
PlaysForward ==
  [][/\ primed => head' >= head
     /\ played' # played => out'.position > out.position]_bufferVars

(* A held period never waits for ever: it is played, or the head passes it *)
(* (issue #20: a single lost frame used to stall the head at the hole).    *)
HeldIsReached == \A p \in Positions : p \in Held ~> p \notin Held

Timeline == INSTANCE PlayoutTimeline WITH
  Size <- Slots, Stamps <- Positions,
  held <- Held, ready <- contiguousEnd, seated <- primed, given <- out.position

(* Indexing a ring by residue, with stale slots left behind the head, is   *)
(* the same as holding a set of positions: the buffer implements the       *)
(* timeline its user sees.                                                 *)
ImplementsTimeline == Timeline!TimelineSpec

=============================================================================
