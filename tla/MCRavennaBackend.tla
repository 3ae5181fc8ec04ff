-------------------------- MODULE MCRavennaBackend --------------------------
(* The daemon restarted twice, three calls that fail or buffers that are not *)
(* served, and a stall of three waits.                                       *)
EXTENDS RavennaBackend
=============================================================================
