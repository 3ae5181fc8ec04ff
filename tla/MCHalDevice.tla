---------------------------- MODULE MCHalDevice ----------------------------
(* A ring of two frames written up to three times over, offers beyond its  *)
(* capacity, and two deaths or failing calls, anywhere.                    *)
EXTENDS HalDevice
=============================================================================
