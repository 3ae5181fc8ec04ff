---------------------------- MODULE MCParallelFor ----------------------------
(* Two workers and the caller; the same count every run, as the engine      *)
(* calls it.                                                                *)
EXTENDS ParallelFor
CONSTANTS w1, w2, caller
MCWorkers == {w1, w2}
EngineCounts == {2}
==============================================================================
