--------------------------- MODULE MCEngineService ---------------------------
(* One caller, an engine of two loops, and up to three engines.             *)
EXTENDS EngineService
CONSTANTS main, receive, link
OneCaller == {main}
MCLoops == {receive, link}
==============================================================================
