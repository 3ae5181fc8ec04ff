------------------------- MODULE MCCoreAudioDevice -------------------------
(* A ring of three frames, periods of two, callbacks that ask for up to one *)
(* frame more than the ring holds, and indices that wrap after four laps.   *)
(* The capacity divides the modulus, as no run goes on until 2^64 frames    *)
(* and finds one that does not.                                             *)
EXTENDS CoreAudioDevice
=============================================================================
