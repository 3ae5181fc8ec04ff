----------------------------- MODULE AudioQueue -----------------------------
(***************************************************************************)
(* What a ring between a realtime callback and the engine promises: the    *)
(* frames put in come out once each, in order, none invented.  A frame is  *)
(* its number in the stream, counted modulo Modulus.                       *)
(***************************************************************************)
EXTENDS Naturals, Sequences

CONSTANTS Room,    \* how many frames the queue holds
          Modulus  \* frames are numbered modulo this

VARIABLES
  queue,  \* the frames put and not yet got, oldest first
  got     \* the frames the last get returned

queueVars == <<queue, got>>

NextFrame(f) == (f + 1) % Modulus

\* Consecutive frames: each is followed by the next one of the stream.
Consecutive(s) == \A i \in 1 .. Len(s) - 1 : s[i + 1] = NextFrame(s[i])

QueueInit == queue = <<>> /\ got = <<>>

Put ==
  /\ \E n \in 1 .. Room - Len(queue), f \in 0 .. Modulus - 1 :
       queue' = queue \o [i \in 1 .. n |-> (f + i - 1) % Modulus]
  /\ Consecutive(queue')
  /\ UNCHANGED got

Get ==
  \E n \in 1 .. Len(queue) :
    /\ got' = SubSeq(queue, 1, n)
    /\ queue' = SubSeq(queue, n + 1, Len(queue))

QueueSpec == QueueInit /\ [][Put \/ Get]_queueVars

=============================================================================
