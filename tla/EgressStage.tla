---------------------------- MODULE EgressStage ----------------------------
(***************************************************************************)
(* The last stage before the device: the A/V delay line with its crossfade *)
(* (src/src/delay/delay_line.cpp), the impulse mixed in before it          *)
(* (test_signal.cpp), and the requests that threads of the HTTP server     *)
(* post to the receive loop through four atomics (src/src/engine.cpp).     *)
(*                                                                         *)
(* The line runs for ever, so frames are counted modulo twice the ring,    *)
(* and how much it has been fed is counted up to the largest offset.       *)
(* Offsets are posted in halves of a frame, the line holds whole frames.   *)
(***************************************************************************)
EXTENDS Integers, Sequences, FiniteSets

CONSTANTS Period,    \* frames a turn of the receive loop plays
          MaxDelay,  \* the largest offset, in frames
          Fade,      \* the crossfade window, in frames
          MaxPending,\* impulses that may be queued
          Dials,     \* the offsets posted, in halves of a frame
          Posters    \* threads of the HTTP server

ASSUME EgressAssumption ==
  /\ Period \in Nat \ {0} /\ Fade \in Nat \ {0} /\ MaxPending \in Nat \ {0}
  /\ MaxDelay \in Nat /\ Dials \subseteq 0 .. 2 * MaxDelay

VARIABLES
  post,          \* what each poster is doing, and the offset it posts
  requested, delayPending, published, signalPending,  \* the atomics
  turn,          \* where the receive loop is in its turn
  line,          \* the delay line
  ring,          \* the frame each slot holds
  clock, fed,    \* frames pushed, modulo Wrap and up to Fed
  queue,         \* impulses waiting for their frame
  placed,        \* impulses placed in the last turn
  heard,         \* the last sample of the turn before, and those of the last
  overlapped     \* the last posts overlapped

atomics == <<requested, delayPending, published, signalPending>>
lineVars == <<line, ring, clock, fed, queue, placed, heard>>
vars == <<post, atomics, turn, lineVars, overlapped>>

\* Mutant: no room for the period that is written before it is read.
RingFramesTight == MaxDelay
RingFrames == MaxDelay + Fade + Period + 2

Wrap == 2 * RingFrames
Fed == MaxDelay + Period
Silence == -1

\* To the nearest frame, and back.
Frames(halves) == (halves + 1) \div 2
Halves(frames) == 2 * frames

Idle == [at |-> "idle", offset |-> 0]
NobodyPosts == \A p \in Posters : post[p].at = "idle"

\* Engine::open: the offset of the configuration is no change, there is nothing
\* to fade from.
EgressInit ==
  \E d \in Dials :
    /\ requested = d /\ published = Halves(Frames(d))
    /\ line = [applied |-> Frames(d), target |-> Frames(d), fading |-> FALSE,
               from |-> 0, to |-> 0, step |-> 0]
    /\ post = [p \in Posters |-> Idle] /\ overlapped = FALSE
    /\ delayPending = FALSE /\ signalPending = FALSE
    /\ turn = "delay" /\ clock = 0 /\ fed = 0 /\ queue = <<>> /\ placed = 0
    /\ heard = <<>>
    /\ ring = [i \in 0 .. RingFrames - 1 |-> Silence]

----------------------------------------------------------------------------
(* Engine::set_egress_delay_ms and trigger_test_signal, on any thread *)

PostRequests(p, d) ==
  /\ post[p].at = "idle" /\ requested' = d
  /\ post' = [post EXCEPT ![p] = [at |-> "pending", offset |-> d]]
  /\ overlapped' = ~NobodyPosts
  /\ UNCHANGED <<delayPending, published, signalPending, turn, lineVars>>

\* Mutant: the request is published without being posted.
PostPendsNot(p) ==
  /\ post[p].at = "pending" /\ post' = [post EXCEPT ![p].at = "publish"]
  /\ UNCHANGED <<atomics, turn, lineVars, overlapped>>

PostPends(p) ==
  /\ post[p].at = "pending" /\ delayPending' = TRUE
  /\ post' = [post EXCEPT ![p].at = "publish"]
  /\ UNCHANGED <<requested, published, signalPending, turn, lineVars, overlapped>>

PostPublishes(p) ==
  /\ post[p].at = "publish" /\ published' = post[p].offset
  /\ post' = [post EXCEPT ![p] = Idle]
  /\ UNCHANGED <<requested, delayPending, signalPending, turn, lineVars, overlapped>>

Trigger ==
  /\ signalPending' = TRUE
  /\ UNCHANGED <<post, requested, delayPending, published, turn, lineVars, overlapped>>

----------------------------------------------------------------------------
(* Engine::write_period_to_device, on the receive loop *)

TakeDelay ==
  /\ turn = "delay" /\ delayPending' = FALSE
  /\ turn' = IF delayPending THEN "load" ELSE "signal"
  /\ UNCHANGED <<post, requested, published, signalPending, lineVars, overlapped>>

\* DelayLine::set_offset_ms: the line heads for the newest request.
SetOffset ==
  /\ turn = "load" /\ turn' = "publish"
  /\ LET frames == Frames(requested)
     IN line' = [line EXCEPT !.target = frames,
                             !.applied = IF fed = 0 /\ ~line.fading THEN frames ELSE @]
  /\ UNCHANGED <<post, atomics, ring, clock, fed, queue, placed, heard, overlapped>>

PublishOffset ==
  /\ turn = "publish" /\ turn' = "signal" /\ published' = Halves(line.target)
  /\ UNCHANGED <<post, requested, delayPending, signalPending, lineVars, overlapped>>

\* An impulse is queued for the first frame of this period; a full queue refuses.
TakeSignal ==
  /\ turn = "signal" /\ turn' = "play" /\ signalPending' = FALSE
  /\ queue' = IF signalPending /\ Len(queue) < MaxPending
                THEN Append(queue, clock) ELSE queue
  /\ UNCHANGED <<post, requested, delayPending, published, line, ring, clock, fed,
                 placed, heard, overlapped>>

Index(frame) == frame % RingFrames
FrameAt(i) == (clock + i) % Wrap

\* Mutant: the first frame of the period is taken for one already passed.
LandsAfterFirst(frame) == \E i \in 1 .. Period - 1 : frame = FrameAt(i)
\* TestSignal::mix places an impulse that falls inside this period.
Lands(frame) == \E i \in 0 .. Period - 1 : frame = FrameAt(i)

\* The input is written before anything is read.
Filled ==
  [k \in DOMAIN ring |->
     IF \E i \in 0 .. Period - 1 : Index(FrameAt(i)) = k
       THEN FrameAt(CHOOSE i \in 0 .. Period - 1 : Index(FrameAt(i)) = k)
       ELSE ring[k]]

\* sample_at, and silence before frame zero.
Read(i, delay) ==
  IF delay > fed + i THEN Silence ELSE Filled[Index((clock + i - delay) % Wrap)]

\* Mutant: a request turns the fade under way.
FadeTurnsRound(l) ==
  IF l.target # l.applied
    THEN [l EXCEPT !.fading = TRUE, !.from = l.applied, !.to = l.target, !.step = 0]
    ELSE l
\* A change begins a fade; one that arrives during a fade waits for its end.
FadeBegins(l) ==
  IF ~l.fading /\ l.target # l.applied
    THEN [l EXCEPT !.fading = TRUE, !.from = l.applied, !.to = l.target, !.step = 0]
    ELSE l

\* Frame i of the period: both offsets blended while the fade lasts, then the one
\* it ends on, which is a copy.
SampleOf(l, i) ==
  IF l.fading /\ l.step + i <= Fade
    THEN [old |-> l.from, new |-> l.to, weight |-> l.step + i,
          read |-> {Read(i, l.from), Read(i, l.to)}]
    ELSE LET d == IF l.fading THEN l.to ELSE l.applied
         IN [old |-> d, new |-> d, weight |-> Fade, read |-> {Read(i, d)}]

FadeGoesOn(l) ==
  IF ~l.fading THEN l
  ELSE IF l.step + Period <= Fade THEN [l EXCEPT !.step = @ + Period]
  ELSE [l EXCEPT !.fading = FALSE, !.applied = l.to, !.from = 0, !.to = 0, !.step = 0]

LastHeard == IF heard = <<>> THEN <<>> ELSE <<heard[Len(heard)]>>

\* Mix, delay, write: DelayLine::process with the ring as it now is.
Play ==
  /\ turn = "play" /\ turn' = "delay"
  /\ LET l == FadeBegins(line)
         kept(frame) == ~Lands(frame)
     IN /\ heard' = LastHeard \o [i \in 1 .. Period |-> SampleOf(l, i - 1)]
        /\ line' = FadeGoesOn(l)
        /\ queue' = SelectSeq(queue, kept)
        /\ placed' = Len(queue) - Len(queue')
  /\ ring' = Filled
  /\ clock' = (clock + Period) % Wrap
  /\ fed' = IF fed + Period > Fed THEN Fed ELSE fed + Period
  /\ UNCHANGED <<post, atomics, overlapped>>

LoopStep == TakeDelay \/ SetOffset \/ PublishOffset \/ TakeSignal \/ Play

EgressNext ==
  \/ LoopStep
  \/ Trigger
  \/ \E p \in Posters :
       \/ \E d \in Dials : PostRequests(p, d)
       \/ PostPends(p) \/ PostPublishes(p)

\* The receive loop writes a period in every turn, whatever the posters do.
EgressSpec == EgressInit /\ [][EgressNext]_vars /\ WF_vars(LoopStep)

----------------------------------------------------------------------------
(* Properties *)

\* The offsets a sample is made of alone, when it is not a blend.
Pure(x) == IF x.weight = Fade THEN {x.new} ELSE IF x.weight = 0 THEN {x.old} ELSE {}

Follows(x, y) ==
  \/ Pure(x) \cap Pure(y) # {}
  \/ x.old = y.old /\ x.new = y.new /\ y.weight = x.weight + 1

(* "A dial is a jump, and a jump is a click" (delay_line.hpp:21): whatever *)
(* is posted and when, each sample played follows from the one before,     *)
(* across the ends of periods and of fades too.                            *)
OutputIsContinuous == \A i \in 1 .. Len(heard) - 1 : Follows(heard[i], heard[i + 1])

(* "the ring is always strictly larger than the span it holds"             *)
(* (delay_line.cpp:78): whatever was written over since, a sample of the   *)
(* last period is made of exactly the frames that lie its offsets back,    *)
(* and of silence where that is before the first frame.                    *)
ReadsWhatWasWritten ==
  heard # <<>> => \A back \in 1 .. Period :
    LET x == heard[Len(heard) + 1 - back]
        meant(d) == IF d > fed - back THEN Silence ELSE (clock - back - d) % Wrap
    IN x.read = {meant(d) : d \in {x.old, x.new}}

(* "a request is applied exactly once, and a newer one simply replaces an  *)
(* older one" (engine.cpp:728): when no request is on its way, the offset  *)
(* the status page shows is the one the line heads for, to the nearest     *)
(* frame.  Posts of two threads that overlap can leave an older offset on  *)
(* the page for good, so they are excepted.                                *)
PublishedIsApplied ==
  (NobodyPosts /\ ~delayPending /\ turn \notin {"load", "publish"} /\ ~overlapped) =>
    Frames(published) = line.target

(* "a dial that is turned quickly settles on its final value"              *)
(* (delay_line.hpp:83): once the posting is over, also when posts          *)
(* overlapped, the line plays the offset that was requested last.          *)
DialSettles ==
  \A d \in Dials :
    (NobodyPosts /\ requested = d) ~>
      (~NobodyPosts \/ (line.applied = Frames(d) /\ ~line.fading))

(* A trigger the operator posted is placed in the audio (engine.cpp:737),  *)
(* since nothing but a full queue refuses it and the queue empties.        *)
TriggerIsPlaced == signalPending ~> placed > 0

=============================================================================
