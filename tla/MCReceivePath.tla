--------------------------- MODULE MCReceivePath ---------------------------
(* A buffer of five periods with its target at one and its deadline at two, *)
(* and streams of a few periods.                                            *)
EXTENDS ReceivePath
MCStamps == 0 .. MaxStamp
============================================================================
