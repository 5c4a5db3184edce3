---------------------------- MODULE MCTraceroute ----------------------------
(* Traceroute on short paths.                                              *)
EXTENDS Traceroute

Env(path_, faults_) == [path |-> path_, faults |-> faults_]

(* Everything but other traces goes wrong two hops from the destination;   *)
(* another trace probes the same ports, and answers are late or lost; a    *)
(* silent router and a filter before the destination, with answers in time *)
(* or not at all; longer paths and one whose end never answers, with       *)
(* nothing lost.                                                           *)
Mixed == {Env(<<"exceeded", "port">>, FaultKinds \ {"rival"}),
          Env(<<"exceeded", "port">>, {"rival"}),
          Env(<<"silent", "port">>, {"rival", "late"}),
          Env(<<"silent", "unreach", "port">>, {"loss", "sendfail", "foreign"}),
          Env(<<"exceeded", "silent">>, {"loss", "late", "sendfail"}),
          Env(<<"exceeded", "silent", "unreach", "port">>, {"foreign"}),
          Env(<<"unreach", "exceeded", "port">>, {}),
          Env(<<"port">>, {"foreign"})}

LateOnly == {Env(<<"exceeded", "port">>, {"late"})}
=============================================================================
