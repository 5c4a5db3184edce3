------------------------------ MODULE MCMyApp ------------------------------
(* MyApp with up to four packets, with every order of the start, the stop  *)
(* and the end of the simulation, ties included.                           *)
EXTENDS MyApp

Times == {s \in [start : 0..2, stop : 0..4, end : 0..4,
                 nPackets : 0..4, interval : 0..2] :
             s.stop = 0 \/ s.start < s.stop}
=============================================================================
