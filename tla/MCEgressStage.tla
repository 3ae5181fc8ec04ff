--------------------------- MODULE MCEgressStage ---------------------------
(* A fade that ends inside its second period; the offsets at both ends of    *)
(* the range, one of them posted between two frames.                         *)
EXTENDS EgressStage

CONSTANTS a, b
MCPosters == {a, b}
MCDials == {0, 3}
==============================================================================
