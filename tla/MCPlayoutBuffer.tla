--------------------------- MODULE MCPlayoutBuffer ---------------------------
(* A ring of Slots periods and a sender that stamps positions up to         *)
(* MaxPosition: enough to fill the ring, pass it, and jump a whole buffer.  *)
EXTENDS PlayoutBuffer
CONSTANT MaxPosition
MCPositions == 0 .. MaxPosition
=============================================================================
