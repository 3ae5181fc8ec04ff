---------------------------- MODULE PeriodStream ----------------------------
(***************************************************************************)
(* What the wire promises the receiver: periods of audio that the sender   *)
(* sent whole, each handed over at most once, in the order they were sent. *)
(* Periods may be lost; a sender that restarts begins a new run at         *)
(* position 0.  FrameStream, with its fragments, retries, losses and       *)
(* reconnections, implements this.                                         *)
(***************************************************************************)
EXTENDS Naturals, Sequences

VARIABLES
  sent,       \* the periods sent whole, oldest first
  run,        \* which run of the sender is on the air
  position,   \* the position of the next period of this run
  delivered   \* the indices in `sent` of the periods handed to the receiver

streamVars == <<sent, run, position, delivered>>

StreamInit == sent = <<>> /\ run = 0 /\ position = 0 /\ delivered = <<>>

SendPeriod ==
  /\ sent' = Append(sent, [run |-> run, position |-> position])
  /\ position' = position + 1
  /\ UNCHANGED <<run, delivered>>

NewRun == run' = run + 1 /\ position' = 0 /\ UNCHANGED <<sent, delivered>>

LastDelivered == IF delivered = <<>> THEN 0 ELSE delivered[Len(delivered)]

Deliver ==
  /\ \E k \in LastDelivered + 1 .. Len(sent) : delivered' = Append(delivered, k)
  /\ UNCHANGED <<sent, run, position>>

StreamNext == SendPeriod \/ NewRun \/ Deliver

StreamSpec == StreamInit /\ [][StreamNext]_streamVars

=============================================================================
