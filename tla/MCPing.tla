------------------------------- MODULE MCPing -------------------------------
(* Ping on a small instance, in three environments: everything goes wrong; *)
(* answers come in time or not at all; answers are late and nothing else.  *)
EXTENDS Ping

Environments == {FaultKinds, {"loss", "reorder", "sendfail"}, {"late"}}
=============================================================================
