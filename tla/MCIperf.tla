------------------------------- MODULE MCIperf -------------------------------
(* A table of two seconds, asked for up to three, two ticks to a second, a *)
(* packet every tick or as many as the loop can send.                      *)
EXTENDS Iperf

UpToThree == -1..3
Pauses == {-1, 1}
Both == {"loss", "dup"}
=============================================================================
