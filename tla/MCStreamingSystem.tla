-------------------------- MODULE MCStreamingSystem --------------------------
(* Two viewers, c1 on a machine of its own and c2 on that of the video     *)
(* server, a resolver whose records say the right address, another one or  *)
(* none, and a video server, in two environments: datagrams are lost and   *)
(* copied; datagrams are lost and the server has no frame to send.         *)
EXTENDS StreamingSystem

CONSTANTS c1, c2, host, elsewhere

Parsed == {host, elsewhere}
Machines == [c \in Clients |-> IF c = c1 THEN {host} ELSE {host, Zero}]

AnyRecord == {host, elsewhere, NotFound}
OtherNames == {elsewhere, NotFound}
Beginnings(word) == IF word = host THEN {Empty, elsewhere} ELSE {Empty}

LossOnly == {{"loss"}}
VideoOnly == {host}

Environments == {{"loss", "dup"}, {"loss", "skip"}}
=============================================================================
