---------------------------- MODULE ReceivePath ----------------------------
(***************************************************************************)
(* The receiving half of a running engine (src/src/engine.cpp): the        *)
(* receive loop, which drains the link into the playout timeline and       *)
(* writes one period to the device through the resampler and the delay     *)
(* line; the supervisor, which reopens a link that went down and asks for  *)
(* a new timeline; the transmit loop, so far as it can take the link down; *)
(* and the link's socket under its mutex (src/src/transport/link.cpp).     *)
(*                                                                         *)
(* A connection is a stream: what it carries comes in order, may start     *)
(* anywhere and may have gaps.  Each piece of audio is its stream and its  *)
(* position in it.  A call into the link is one step, for it holds the     *)
(* link's mutex; the timeline, the resampler and the device belong to the  *)
(* receive loop alone.                                                     *)
(***************************************************************************)
EXTENDS PlayoutTimeline, Sequences

CONSTANTS Target,      \* target_periods_: the level playout waits for
          Alarm,       \* the alarm delay, in periods: how long it waits
          TrimWindow,  \* startup_trim_periods_ of a timeline that was reset
          LineLength,  \* periods in the egress delay line
          MaxFrames,   \* k_max_frames_per_period
          MaxStreams,  \* bound: connections made
          MaxStamp     \* bound: the positions of a stream

(* Engine::prepare: the capacity of the buffer, and its refusals.          *)
ASSUME GeometryAssumption ==
  /\ Alarm \in Nat /\ Size = 2 * Alarm + 1
  /\ Target \in Nat \ {0} /\ Alarm + Target < Size
ASSUME MaxStampAssumption == MaxStamp \in Nat /\ Stamps = 0 .. MaxStamp
ASSUME SizesAssumption ==
  /\ LineLength \in Nat /\ TrimWindow \in Nat
  /\ MaxFrames \in Nat \ {0} /\ MaxStreams \in Nat \ {0}

VARIABLES
  socket,      \* the stream of the open socket, or Down
  streams,     \* connections made so far
  blocking,    \* SRTO_RCVSYN of the socket
  alive,       \* the peer of the socket is still there
  coming,      \* the least position the open stream may carry next
  supervisor,  \* where the supervisor is
  resetDue,    \* playout_reset_requested_
  receiver,    \* where the receive loop is
  drained,     \* frames taken by the drain under way
  playing,     \* playing_
  priming,     \* priming_periods_
  startup,     \* startup_periods_, up to the window
  window,      \* startup_trim_periods_
  carry,       \* the period the resampler has taken and not used up, or Silence
  line,        \* the delay line, oldest first
  owed,        \* what this turn will hand to the egress stage
  heard,       \* ghost: the last audio the device was written
  fed,         \* ghost: the device was written a period this turn
  stream       \* ghost: the stream of each position held

linkVars == <<socket, streams, blocking, alive, coming>>
clockVars == <<playing, priming, startup, window>>
egressVars == <<carry, line, owed, heard, fed>>
receiveVars == <<timelineVars, linkVars, supervisor, resetDue, receiver, drained,
                 clockVars, egressVars, stream>>

Down == 0
Silence == [stream |-> 0, position |-> 0]
Level == ready - head

(* Engine::open tried the link once before the loops started: it is up and *)
(* non-blocking, or down.                                                  *)
ReceiveInit ==
  /\ TimelineInit
  /\ \/ socket = 1 /\ streams = 1 /\ alive = TRUE /\ coming \in Stamps
     \/ socket = Down /\ streams = 0 /\ alive = FALSE /\ coming = 0
  /\ blocking = FALSE
  /\ supervisor = "watching" /\ resetDue = FALSE
  /\ receiver = "turn" /\ drained = 0
  /\ playing = FALSE /\ priming = 0 /\ startup = 0 /\ window = 0
  /\ carry = Silence /\ owed = Silence /\ heard = Silence /\ fed = TRUE
  /\ line = [i \in 1 .. LineLength |-> Silence]
  /\ stream = [p \in Stamps |-> 0]

\* state_mutex is held across srt_recvmsg, also while that blocks.
MutexIsFree == receiver # "blocked"

\* mark_down: the socket is closed, and with it goes all that belonged to it.
MarkDown ==
  /\ socket' = Down /\ blocking' = FALSE /\ alive' = FALSE /\ coming' = 0
  /\ UNCHANGED streams

ReceiverGoes(place) == receiver' = place

----------------------------------------------------------------------------
(* The network and the transmit loop *)

PeerGoes ==
  /\ socket # Down /\ alive /\ alive' = FALSE
  /\ UNCHANGED <<timelineVars, socket, streams, blocking, coming, supervisor, resetDue,
                 receiver, drained, clockVars, egressVars, stream>>

\* The sender's timeline has a gap: lost frames, or a source that was starved.
StreamSkips ==
  /\ socket # Down /\ coming < MaxStamp /\ coming' = coming + 1
  /\ UNCHANGED <<timelineVars, socket, streams, blocking, alive, supervisor, resetDue,
                 receiver, drained, clockVars, egressVars, stream>>

\* send_message on a socket whose peer is gone.
SendMarksDown ==
  /\ MutexIsFree /\ socket # Down /\ ~alive
  /\ MarkDown
  /\ UNCHANGED <<timelineVars, supervisor, resetDue, receiver, drained, clockVars,
                 egressVars, stream>>

----------------------------------------------------------------------------
(* The supervisor: link_supervisor_loop and reopen_link *)

SupervisorGoes(place) == supervisor' = place

SupervisorSeesDown ==
  /\ supervisor = "watching" /\ MutexIsFree /\ socket = Down
  /\ SupervisorGoes("opening")
  /\ UNCHANGED <<timelineVars, linkVars, resetDue, receiver, drained, clockVars,
                 egressVars, stream>>

\* Link::open failed: wait, and try again.
OpenFails ==
  /\ supervisor = "opening" /\ SupervisorGoes("watching")
  /\ UNCHANGED <<timelineVars, linkVars, resetDue, receiver, drained, clockVars,
                 egressVars, stream>>

(* Link::open publishes the socket.  A caller's is still blocking; an      *)
(* accepted one has its listener's non-blocking mode.                      *)
OpenPublishes ==
  /\ supervisor = "opening" /\ MutexIsFree /\ streams < MaxStreams
  /\ SupervisorGoes("configuring")
  /\ socket' = streams + 1 /\ streams' = streams + 1
  /\ blocking' \in BOOLEAN /\ alive' = TRUE /\ coming' \in Stamps
  /\ UNCHANGED <<timelineVars, resetDue, receiver, drained, clockVars, egressVars,
                 stream>>

\* set_nonblocking, on the socket that is there now, if any.
SetNonblocking ==
  /\ supervisor = "configuring" /\ MutexIsFree
  /\ SupervisorGoes("requesting")
  /\ blocking' = FALSE
  /\ UNCHANGED <<timelineVars, socket, streams, alive, coming, resetDue, receiver,
                 drained, clockVars, egressVars, stream>>

\* Mutant: nobody asks for a new timeline.
RequestForgotten ==
  /\ supervisor = "requesting" /\ SupervisorGoes("watching")
  /\ UNCHANGED <<timelineVars, linkVars, resetDue, receiver, drained, clockVars,
                 egressVars, stream>>

RequestReset ==
  /\ supervisor = "requesting" /\ SupervisorGoes("watching")
  /\ resetDue' = TRUE
  /\ UNCHANGED <<timelineVars, linkVars, receiver, drained, clockVars, egressVars,
                 stream>>

SupervisorStep ==
  \/ SupervisorSeesDown \/ OpenFails \/ OpenPublishes \/ SetNonblocking \/ RequestReset

----------------------------------------------------------------------------
(* The receive loop: step_receive *)

\* Mutant: the periods of the old stream stay.
TimelineKept == UNCHANGED <<head, held, ready, seated, given, stream>>

\* A new PlayoutBuffer.
TimelineRebuilt ==
  /\ head' = 0 /\ held' = {} /\ ready' = 0 /\ seated' = FALSE /\ given' = Nothing
  /\ stream' = [p \in Stamps |-> 0]

(* reset_playout rebuilds the timeline and its priming; the resampler, the *)
(* ratio and the delay line go on as they are.                             *)
ResetPlayout ==
  /\ TimelineRebuilt
  /\ playing' = FALSE /\ priming' = 0 /\ startup' = 0 /\ window' = TrimWindow

TurnBegins ==
  /\ receiver = "turn" /\ ReceiverGoes("draining")
  /\ fed' = FALSE
  /\ resetDue' = FALSE
  /\ \/ resetDue /\ ResetPlayout
     \/ ~resetDue /\ UNCHANGED <<timelineVars, clockVars, stream>>
  /\ UNCHANGED <<linkVars, supervisor, drained, carry, line, owed, heard>>

\* The streams of what is held, once a step has changed it.
Tagged(s) ==
  [p \in Stamps |-> IF p \notin held' THEN 0 ELSE IF p \in held THEN stream[p] ELSE s]

\* receive_message, feed, decode and push of the next period of the stream.
ReceivePeriod ==
  /\ receiver \in {"draining", "blocked"} /\ socket # Down /\ coming <= MaxStamp
  /\ coming' = coming + 1
  /\ \/ Arrive(coming) /\ stream' = Tagged(socket)
     \/ /\ coming \in held \/ (seated /\ coming < head)
        /\ UNCHANGED <<timelineVars, stream>>
  /\ \/ drained + 1 < MaxFrames /\ drained' = drained + 1 /\ ReceiverGoes("draining")
     \/ drained + 1 = MaxFrames /\ drained' = 0 /\ ReceiverGoes("playing")
  /\ UNCHANGED <<socket, streams, blocking, alive, supervisor, resetDue, clockVars,
                 egressVars>>

(* Nothing is waiting on a non-blocking socket, or a turn's worth of       *)
(* messages, which a living peer may keep us waiting for, completed no     *)
(* frame.                                                                  *)
FindNoFrame ==
  /\ \/ receiver = "draining" /\ socket # Down
     \/ receiver = "blocked" /\ alive
  /\ ReceiverGoes("playing") /\ drained' = 0
  /\ UNCHANGED <<timelineVars, linkVars, supervisor, resetDue, clockVars, egressVars,
                 stream>>

\* Nothing is waiting on a blocking socket: no timeout of zero ends the wait.
Block ==
  /\ receiver = "draining" /\ socket # Down /\ blocking /\ ReceiverGoes("blocked")
  /\ UNCHANGED <<timelineVars, linkVars, supervisor, resetDue, drained, clockVars,
                 egressVars, stream>>

\* The link is down, or proves to be: the turn ends without play_one_period.
ReceiveFails ==
  /\ receiver \in {"draining", "blocked"} /\ ~alive /\ ReceiverGoes("turn")
  /\ MarkDown /\ drained' = 0
  /\ UNCHANGED <<timelineVars, supervisor, resetDue, clockVars, egressVars, stream>>

----------------------------------------------------------------------------
(* The receive loop: play_one_period *)

\* Mutant: the turns that wait are not counted.
TurnsUncounted == priming

\* Turns that have waited for the level, with this one.
TurnsPrimed == priming + 1

\* Mutant: one period too long.
LateByOne == TurnsPrimed > Alarm

\* The deadline after which a link that never fills is played all the same.
PrimingIsLate == TurnsPrimed >= Alarm

StartPlaying ==
  /\ receiver = "playing"
  /\ playing' = (playing \/ Level >= Target \/ PrimingIsLate)
  /\ priming' = IF playing THEN priming ELSE TurnsPrimed
  /\ ReceiverGoes(IF playing' THEN "pulling" ELSE "egress")
  /\ UNCHANGED <<timelineVars, linkVars, supervisor, resetDue, drained, startup,
                 window, egressVars, stream>>

\* fill_from_buffer takes a period.
PullTakes ==
  /\ receiver = "pulling" /\ carry = Silence /\ Play
  /\ carry' = [stream |-> stream[head], position |-> head]
  /\ stream' = Tagged(Down)
  /\ UNCHANGED <<linkVars, supervisor, resetDue, receiver, drained, clockVars, line,
                 owed, heard, fed>>

\* take plays nothing: what this turn has produced so far gives way to silence.
PullFindsNothing ==
  /\ receiver = "pulling" /\ carry = Silence /\ ready <= head
  /\ Cross \/ (held = {} /\ UNCHANGED timelineVars)
  /\ stream' = Tagged(Down)
  /\ owed' = Silence /\ ReceiverGoes("trimming")
  /\ UNCHANGED <<linkVars, supervisor, resetDue, drained, clockVars, carry, line,
                 heard, fed>>

(* The converter uses the carry up, wholly or in part; if that does not    *)
(* complete the device's period it wants another one.                      *)
PullConverts ==
  /\ receiver = "pulling" /\ carry # Silence
  /\ \/ carry' = Silence /\ UNCHANGED <<owed, receiver>>
     \/ /\ owed' = carry /\ ReceiverGoes("trimming")
        /\ carry' \in {carry, Silence}
  /\ UNCHANGED <<timelineVars, linkVars, supervisor, resetDue, drained, clockVars,
                 line, heard, fed, stream>>

\* Mutant: the backlog is trimmed only when the buffer is full.
BacklogIsFull == Level >= Size

BacklogIsLarge == startup < window /\ Level > 2 * Target

TrimBacklog ==
  /\ receiver = "trimming" /\ ReceiverGoes("egress")
  /\ \/ BacklogIsLarge /\ Trim(Target)
     \/ ~BacklogIsLarge /\ UNCHANGED timelineVars
  /\ stream' = Tagged(Down)
  /\ startup' = IF startup < TrimWindow THEN startup + 1 ELSE startup
  /\ UNCHANGED <<linkVars, supervisor, resetDue, drained, playing, priming, window,
                 egressVars>>

\* write_period_to_device: through the delay line, and the turn is over.
WritePeriod ==
  /\ receiver = "egress" /\ ReceiverGoes("turn")
  /\ LET delayed == Append(line, owed)
     IN /\ line' = Tail(delayed)
        /\ heard' = IF Head(delayed) = Silence THEN heard ELSE Head(delayed)
  /\ owed' = Silence /\ fed' = TRUE
  /\ UNCHANGED <<timelineVars, linkVars, supervisor, resetDue, drained, clockVars,
                 carry, stream>>

ReceiverStep ==
  \/ TurnBegins \/ ReceivePeriod \/ FindNoFrame \/ Block \/ ReceiveFails
  \/ StartPlaying \/ PullTakes \/ PullFindsNothing \/ PullConverts \/ TrimBacklog
  \/ WritePeriod

ReceiveNext ==
  \/ PeerGoes \/ StreamSkips \/ SendMarksDown
  \/ SupervisorStep \/ ReceiverStep

ReceiveSpec == ReceiveInit /\ [][ReceiveNext]_receiveVars

(* Both threads run.  A receive loop that blocks is woken by the next      *)
(* message or by the end of the connection: a living peer sends a period   *)
(* every millisecond, and SRT breaks a connection that is idle.  The       *)
(* supervisor gets the mutex in the end: every turn that received leaves   *)
(* it alone while the device, which paces the loop, takes a period.        *)
FairReceiveSpec ==
  /\ ReceiveSpec
  /\ WF_receiveVars(ReceiverStep) /\ SF_receiveVars(SupervisorStep)

----------------------------------------------------------------------------
(* Properties *)

Pieces == {Silence} \cup [stream : 1 .. MaxStreams, position : Stamps]

\* The type invariant of the link, the loops and the timeline.
ReceiveTypeOK ==
  /\ head \in Nat /\ held \subseteq Stamps /\ ready \in Nat /\ seated \in BOOLEAN
  /\ head <= ready /\ ready <= head + Size
  /\ socket \in 0 .. streams /\ streams \in 0 .. MaxStreams
  /\ blocking \in BOOLEAN /\ alive \in BOOLEAN /\ coming \in 0 .. MaxStamp + 1
  /\ supervisor \in {"watching", "opening", "configuring", "requesting"}
  /\ receiver \in {"turn", "draining", "blocked", "playing", "pulling", "trimming",
                   "egress"}
  /\ resetDue \in BOOLEAN /\ drained \in 0 .. MaxFrames
  /\ playing \in BOOLEAN /\ priming \in 0 .. Alarm
  /\ startup \in 0 .. TrimWindow /\ window \in {0, TrimWindow}
  /\ carry \in Pieces /\ owed \in Pieces /\ heard \in Pieces
  /\ line \in Seq(Pieces) /\ Len(line) = LineLength
  /\ fed \in BOOLEAN /\ stream \in [Stamps -> 0 .. MaxStreams]

StreamsHeld == {stream[p] : p \in held}

(* The timeline mixes two streams only until the reset the supervisor is   *)
(* about to request, or has requested, is applied (engine.cpp:917-921).    *)
MixedOnlyUntilReset ==
  (\E s, t \in StreamsHeld : s # t)
    => resetDue \/ supervisor \in {"configuring", "requesting"}

\* The invariant of the path: its types, and two streams in the timeline only
\* until the reset.
ReceiveInv == ReceiveTypeOK /\ MixedOnlyUntilReset

StreamsPlayed == {heard.stream, owed.stream} \cup {line[i].stream : i \in 1 .. LineLength}

(* Once the supervisor has asked for the reset and the loop has applied it, *)
(* nothing of the stream before is taken from the timeline (engine.cpp:917): *)
(* what the resampler takes is no older than what went before it.          *)
OldStreamEnds ==
  [][(/\ carry = Silence /\ carry' # Silence
      /\ ~resetDue /\ supervisor \notin {"configuring", "requesting"})
        => \A s \in StreamsPlayed : carry'.stream >= s]_receiveVars

(* "discard the stale excess forward to the target" (engine.cpp:679): in   *)
(* the window after a reset no turn ends with the backlog still there.     *)
BacklogIsTrimmed ==
  receiver = "turn" /\ fed /\ playing /\ startup < window
    => Level <= 2 * Target

(* A connection that stays is played from a timeline of its own: whatever  *)
(* the old one left behind is gone after a while.                          *)
NewStreamGetsItsTimeline ==
  \A s \in 2 .. MaxStreams :
    socket = s ~> (StreamsHeld \subseteq {s} /\ ~resetDue) \/ socket # s

(* "a link that never fills must still be audible" (engine.cpp:622): on a  *)
(* connection that stays, playout starts, and stays started.               *)
UpMeansPlaying == <>[](socket # Down) => <>[]playing

=============================================================================
