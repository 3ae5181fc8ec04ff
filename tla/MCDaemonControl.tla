-------------------------- MODULE MCDaemonControl --------------------------
(* Two blocks, which the file may list in either order; one announcement;    *)
(* two threads that subscribe the first block and publish meanwhile.         *)
EXTENDS DaemonControl

CONSTANTS a, b, far
A == [index |-> 0, channels |-> "0-7"]
B == [index |-> 1, channels |-> "8-15"]
MCConfigs == {<<A, B>>, <<B, A>>}
MCAnnounced == [tx1 |-> far]
MCSetups == {<<"http", "self">>, <<"http", "tx1">>, <<"fake", "none">>}
MCHandlers == {a, b}
Ask(kind, id, from) == [kind |-> kind, id |-> id, from |-> from]
MCRequests ==
  {Ask("publish", 1, "self"), Ask("subscribe", 1, "self"),
   Ask("unsubscribe", 1, "self"), Ask("status", 1, "self"),
   Ask("preflight", 1, "self")}
==============================================================================
