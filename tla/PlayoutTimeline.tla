-------------------------- MODULE PlayoutTimeline --------------------------
(***************************************************************************)
(* What the playout buffer is to its user: the periods held, as a set of   *)
(* sender positions, a head that moves forward over them, and how far from *)
(* the head they are known to follow each other.  PlayoutBuffer, with its  *)
(* ring and its residues, implements this; ReceivePath is built on it.     *)
(***************************************************************************)
EXTENDS Integers

CONSTANTS Size,   \* how many periods the timeline reaches ahead of the head
          Stamps  \* the positions a period may carry

ASSUME SizeAssumption == Size \in Nat \ {0}
ASSUME StampsAssumption == Stamps \subseteq Nat

VARIABLES
  head,    \* the position the next period played comes from
  held,    \* the positions held
  ready,   \* the end of the run that can be played
  seated,  \* the first period has decided the head
  given    \* the position last played

timelineVars == <<head, held, ready, seated, given>>

Nothing == -1

TimelineInit ==
  head = 0 /\ held = {} /\ ready = 0 /\ seated = FALSE /\ given = Nothing

From(h, S) == {q \in S : h <= q}

\* The end of the run of S that continues at e, inside the reach of head h.
Run(S, h, e) ==
  {r \in e .. h + Size :
     /\ e .. r - 1 \subseteq S
     /\ r = h + Size \/ r \notin S}

\* The head that has room for p: moved by one period, or to p over a jump.
Room(h, p) == IF p < h + Size THEN h ELSE IF p = h + Size THEN h + 1 ELSE p

\* A period arrives that is neither late nor held already.
Arrive(p) ==
  LET newHead == Room(IF seated THEN head ELSE p, p)
      end == IF ~seated THEN p ELSE IF ready < newHead THEN newHead ELSE ready
      kept == From(newHead, held) \cup {p}
  IN /\ seated => head <= p
     /\ p \notin held
     /\ seated' = TRUE /\ head' = newHead /\ held' = kept
     /\ \/ p = end /\ ready' \in Run(kept, newHead, end)
        \/ p # end /\ ready' = end
     /\ UNCHANGED given

Play ==
  /\ head < ready
  /\ given' = head /\ head' = head + 1 /\ held' = held \ {head}
  /\ UNCHANGED <<ready, seated>>

\* The head crosses a period it cannot play because later ones are held.
Cross ==
  /\ seated /\ ready <= head /\ held # {}
  /\ head' = head + 1 /\ held' = held \ {head}
  /\ ready' \in Run(held, head + 1, head + 1)
  /\ UNCHANGED <<seated, given>>

\* The oldest of a run longer than `keep` are given up.
Trim(keep) ==
  /\ keep < ready - head
  /\ head' = ready - keep /\ held' = From(ready - keep, held)
  /\ ready' \in Run(held, ready - keep, ready)
  /\ UNCHANGED <<seated, given>>

TimelineNext ==
  \/ \E p \in Stamps : Arrive(p)
  \/ Play \/ Cross
  \/ \E keep \in 0 .. Size - 1 : Trim(keep)

TimelineSpec == TimelineInit /\ [][TimelineNext]_timelineVars

=============================================================================
