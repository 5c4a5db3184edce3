----------------------------- MODULE MCTcpAshish -----------------------------
(* TcpAshish with segments of two bytes and round trips of up to 7 ms.     *)
EXTENDS TcpAshish
=============================================================================
