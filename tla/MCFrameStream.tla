---------------------------- MODULE MCFrameStream ----------------------------
(* Frames of two or three fragments, three transmit turns, a sequence that  *)
(* wraps at 2, one restart of the sender, three connections.                  *)
EXTENDS FrameStream
MCFragmentCounts == {2, 3}
=============================================================================
