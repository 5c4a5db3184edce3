---------------------------- MODULE MCDnsServer ----------------------------
(* The resolver with two clients and small record files, in environments   *)
(* that pair up what may go wrong.                                         *)
EXTENDS DnsServer, TLC

CONSTANTS c1, c2, camera, cam, ip10, ip1

Asks == (c1 :> camera) @@ (c2 :> cam)
Words(lines) ==
    [k \in 1..Len(lines) |-> [word |-> lines[k], bol |-> k % 2 = 1]]

(* A name listed twice; one name gone and the other moved.                 *)
TwoFiles == {Words(<<cam, ip1, camera, ip1, cam, ip10>>), Words(<<camera, ip10>>)}

(* A word cut short is another name or address of the files, as "cam" is a *)
(* beginning of "camera", or a text that is in none, or empty.             *)
Beginnings(word) ==
    {Empty} \cup (CASE word = camera -> {cam}
                    [] word = ip10 -> {ip1}
                    [] word = NotFound -> {Junk}
                    [] OTHER -> {})

Environments == {{"split", "die", "reset"}, {"die", "stall", "timeout"}}
ResetOnly == {{"reset"}}
=============================================================================
