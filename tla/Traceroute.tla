----------------------------- MODULE Traceroute -----------------------------
(***************************************************************************)
(* Assignment10/Part 2/q3traceroute.c.  For ttl = 1, 2, ... the program    *)
(* sends ProbesPerHop UDP probes, one at a time, and reads a raw ICMP      *)
(* socket until a message quotes the probe's destination port or nothing   *)
(* arrives for RECVTIMEOUT seconds.  The hops of the path and the network  *)
(* are the environment.                                                    *)
(*                                                                         *)
(* A probe is the pair of loop indices it was sent with; an ICMP message   *)
(* is its kind, the destination port it quotes, which is all the program   *)
(* looks at, and the probe it answers, which no program can see.           *)
(* Round-trip times, addresses and the text of the rows are left out: a    *)
(* row is the verdict on each of its probes.                               *)
(***************************************************************************)
EXTENDS Integers, Sequences

CONSTANTS MaxHops,       \* MAXHOPS
          ProbesPerHop,  \* PROBESPERHOP
          Environments   \* the paths to trace, each with what may go wrong on it

(* "loss", "dup", "late", "sendfail" as in Ping.  The raw socket gets every*)
(* ICMP message of the machine: "foreign", messages of other programs that *)
(* quote no port of the trace (or quote nothing: echo replies); "rival",   *)
(* answers to the probes of another program that do quote one, as those of *)
(* a second traceroute do.                                                 *)
FaultKinds == {"loss", "dup", "late", "sendfail", "foreign", "rival"}

(* "exceeded": ICMP_TIME_EXCEEDED.  "port": ICMP_DEST_UNREACH with code    *)
(* ICMP_UNREACH_PORT.  "unreach": ICMP_DEST_UNREACH with another code.     *)
Answers == {"exceeded", "port", "unreach"}

(* A path is what each hop answers to a probe that ends there, the last of *)
(* them being the destination.                                             *)
Paths == Seq(Answers \cup {"silent"}) \ {<<>>}

ASSUME TracerouteAssumption ==
    /\ MaxHops \in Nat \ {0}
    /\ ProbesPerHop \in Nat \ {0}
    /\ Environments \subseteq [path : Paths, faults : SUBSET FaultKinds]

VARIABLES
    path, faults,\* the environment of this execution
    pc,          \* where the program stands
    ttl,         \* the row being printed
    probe,       \* the probe of the row
    destreached, \* a port unreachable has been accepted
    row,         \* the verdicts of this row
    net,         \* probes on their way
    icmp         \* ICMP messages on their way or in the raw socket

vars == <<path, faults, pc, ttl, probe, destreached, row, net, icmp>>

Probes == (1..MaxHops) \X (0..(ProbesPerHop - 1))

PortMutant(t, p) == 33434 + p
Port(t, p) == 33434 + t + p

(* The ICMP message that quotes probe q.                                   *)
Message(kind, q) == [kind |-> kind, port |-> Port(q[1], q[2]), of |-> q]
Messages == {Message(k, q) : k \in Answers, q \in Probes}

(* The messages of other programs: the one kind the receive loop rejects   *)
(* whatever it waits for, and those that quote a port of the trace.        *)
NotOurs == <<0, 0>>
Foreign == [kind |-> "echoreply", port |-> 0, of |-> NotOurs]
Rivals == [kind : Answers, port : {Port(q[1], q[2]) : q \in Probes}, of : {NotOurs}]

Dist == Len(path)

(* The hop where probe q ends, and which answers it.                       *)
EndOf(q) == IF q[1] < Dist THEN q[1] ELSE Dist

Open == [verdict |-> "open", reply |-> Foreign]
Star == [verdict |-> "star", reply |-> Foreign]
Time(m) == [verdict |-> "time", reply |-> m]

EmptyRow == [p \in 0..(ProbesPerHop - 1) |-> Open]

Init ==
    /\ \E e \in Environments : path = e.path /\ faults = e.faults
    /\ pc = "row" /\ ttl = 1 /\ probe = 0
    /\ destreached = FALSE
    /\ row = EmptyRow
    /\ net = {} /\ icmp = {}

-----------------------------------------------------------------------------
(* The program.  (An operator named ...Mutant is a mistake one could make  *)
(* in the definition below it; no behaviour of the system uses it.)        *)

RowsLeft == ttl <= MaxHops /\ ~destreached

(* The head of the outer loop: the socket's TTL is set for the row.        *)
StartRow ==
    /\ pc = "row" /\ RowsLeft
    /\ pc' = "probe"
    /\ probe' = 0 /\ row' = EmptyRow
    /\ UNCHANGED <<path, faults, ttl, destreached, net, icmp>>

Finish ==
    /\ pc = "row" /\ ~RowsLeft
    /\ pc' = "done"
    /\ UNCHANGED <<path, faults, ttl, probe, destreached, row, net, icmp>>

EndRow ==
    /\ pc = "probe" /\ probe = ProbesPerHop
    /\ ttl' = ttl + 1
    /\ pc' = "row"
    /\ UNCHANGED <<path, faults, probe, destreached, row, net, icmp>>

Send ==
    /\ pc = "probe" /\ probe < ProbesPerHop
    /\ net' = net \cup {<<ttl, probe>>}
    /\ pc' = "wait"
    /\ UNCHANGED <<path, faults, ttl, probe, destreached, row, icmp>>

(* sendto fails: error() prints the reason and exits.                      *)
SendError ==
    /\ "sendfail" \in faults
    /\ pc = "probe" /\ probe < ProbesPerHop
    /\ pc' = "error"
    /\ UNCHANGED <<path, faults, ttl, probe, destreached, row, net, icmp>>

(* A message read from the raw socket is gone, unless the network          *)
(* delivers it again.                                                      *)
Taken(m) ==
    \/ icmp' = icmp \ {m}
    \/ "dup" \in faults /\ icmp' = icmp

MatchesMutant(m) == TRUE

(* The test of the receive loop: the type and the quoted destination port, *)
(* neither the quoted source port nor the quoted destination.              *)
Matches(m) == m.kind \in Answers /\ m.port = Port(ttl, probe)

DestinationMutant(m) == m.kind # "exceeded"
Destination(m) == m.kind = "port"

Accept(m) ==
    /\ pc = "wait" /\ Matches(m)
    /\ Taken(m)
    /\ row' = [row EXCEPT ![probe] = Time(m)]
    /\ destreached' = (destreached \/ Destination(m))
    /\ probe' = probe + 1
    /\ pc' = "probe"
    /\ UNCHANGED <<path, faults, ttl, net>>

(* Anything else is dropped and the loop calls recvfrom again, with a      *)
(* fresh timer.                                                            *)
Ignore(m) ==
    /\ pc = "wait" /\ ~Matches(m)
    /\ Taken(m)
    /\ UNCHANGED <<path, faults, pc, ttl, probe, destreached, row, net>>

TimeoutMutant == FALSE /\ UNCHANGED vars   \* SO_RCVTIMEO is not set

(* SO_RCVTIMEO expires: "* ", and on to the next probe of the row.         *)
Timeout ==
    /\ pc = "wait"
    /\ "late" \in faults \/ (net = {} /\ icmp = {})
    /\ row' = [row EXCEPT ![probe] = Star]
    /\ probe' = probe + 1
    /\ pc' = "probe"
    /\ UNCHANGED <<path, faults, ttl, destreached, net, icmp>>

-----------------------------------------------------------------------------
(* The path.                                                               *)

(* Probe q reaches the hop where it ends.                                  *)
Hop(q) ==
    /\ net' = net \ {q} \/ ("dup" \in faults /\ net' = net)
    /\ IF path[EndOf(q)] = "silent"
       THEN icmp' = icmp
       ELSE icmp' = icmp \cup {Message(path[EndOf(q)], q)}
    /\ UNCHANGED <<path, faults, pc, ttl, probe, destreached, row>>

Lose ==
    /\ "loss" \in faults
    /\ \/ (\E q \in net : net' = net \ {q}) /\ UNCHANGED icmp
       \/ (\E m \in icmp : icmp' = icmp \ {m}) /\ UNCHANGED net
    /\ UNCHANGED <<path, faults, pc, ttl, probe, destreached, row>>

(* A message of another program reaches the raw socket.  At most one of    *)
(* them is in it at a time (a bound): they are read in any order and may   *)
(* come at any moment, so a second one adds nothing the program can see.   *)
OthersArrive ==
    /\ icmp \cap ({Foreign} \cup Rivals) = {}
    /\ \/ "foreign" \in faults /\ icmp' = icmp \cup {Foreign}
       \/ "rival" \in faults /\ \E m \in Rivals : icmp' = icmp \cup {m}
    /\ UNCHANGED <<path, faults, pc, ttl, probe, destreached, row, net>>

-----------------------------------------------------------------------------
Recv == \E m \in icmp : Accept(m) \/ Ignore(m)
Program == StartRow \/ Finish \/ EndRow \/ Send \/ SendError \/ Recv \/ Timeout
Network == \E q \in net : Hop(q)

(* The program has exited.                                                 *)
Exited == pc \in {"done", "error"} /\ UNCHANGED vars

Next == Program \/ Network \/ Lose \/ OthersArrive \/ Exited

(* The program runs, and what is not lost reaches its hop.                 *)
Spec == Init /\ [][Next]_vars /\ WF_vars(Program) /\ WF_vars(Network)

-----------------------------------------------------------------------------
(* Properties.                                                             *)

(* The types of the loop variables, of the row and of the network.         *)
TypeOK ==
    /\ path \in Paths /\ faults \subseteq FaultKinds
    /\ pc \in {"row", "probe", "wait", "done", "error"}
    /\ ttl \in 1..(MaxHops + 1)
    /\ probe \in 0..ProbesPerHop
    /\ destreached \in BOOLEAN
    /\ row \in [0..(ProbesPerHop - 1) ->
                  {Open, Star} \cup {Time(m) : m \in Messages \cup Rivals}]
    /\ net \subseteq Probes
    /\ icmp \subseteq Messages \cup {Foreign} \cup Rivals

(* The probes of the row that have an accepted answer.                     *)
Answered == {p \in 0..(ProbesPerHop - 1) : row[p].verdict = "time"}

(* The row the verdicts belong to.                                         *)
Row == IF pc \in {"row", "done"} /\ probe # 0 THEN ttl - 1 ELSE ttl

(* A time printed in a row quotes the port of its own probe.  Of the       *)
(* trace's probes it answers one of that row or of one of the              *)
(* ProbesPerHop - 1 rows before it, never a later one: ports are reused    *)
(* two rows on, and no further, however long the network holds a message.  *)
(* Any other time is the answer to another program's probe.                *)
AttributionBound ==
    \A p \in Answered :
        LET m == row[p].reply
        IN /\ m.port = Port(Row, p)
           /\ IF m.of = NotOurs THEN "rival" \in faults
              ELSE /\ m.of[1] \in (Row - (ProbesPerHop - 1))..Row
                   /\ m.of[1] + m.of[2] = Row + p

(* When every message that arrives does so before the timer expires, none  *)
(* twice, and no other program probes the same ports, every time printed   *)
(* is that of its own probe.                                               *)
ExactWhenInTime ==
    faults \cap {"late", "dup", "rival"} = {} =>
        \A p \in Answered : row[p].reply.of = <<Row, p>>

(* The trace stops early only on a port unreachable printed in the last    *)
(* row, and unless another program provoked that one, a hop no further     *)
(* than this row sent it.                                                  *)
StopIsSound ==
    destreached =>
        \E p \in Answered :
            LET m == row[p].reply
            IN /\ m.kind = "port"
               /\ IF m.of = NotOurs THEN "rival" \in faults
                  ELSE path[EndOf(m.of)] = "port" /\ EndOf(m.of) <= Row

(* A row that is over has one verdict on each of its probes, and the probes*)
(* not sent yet have none.  (Part of the inductive invariant.)             *)
RowComplete ==
    \A p \in 0..(ProbesPerHop - 1) :
        row[p] = Open <=> p >= probe

(* On a path without loss and delay, and when no other program probes the  *)
(* ports of the trace, the last row is the first hop that answers with a   *)
(* port unreachable, or MAXHOPS when no hop does.                          *)
PortHops == {h \in 1..Dist : path[h] = "port" /\ h <= MaxHops}
StopsAtDestination ==
    faults \subseteq {"foreign"} /\ pc = "done" =>
        IF PortHops = {} THEN Row = MaxHops
        ELSE Row \in PortHops /\ \A h \in PortHops : Row <= h

(* Losses, delays and silent hops never keep the trace from ending, unless *)
(* messages of other programs keep restarting the timer.                   *)
Terminates == faults \cap {"foreign", "rival"} = {} => <>(pc \in {"done", "error"})

(* The destination port is "the unique port I sent": an answer that is     *)
(* accepted answers this very probe.                                       *)
PortIsUnique ==
    [][\A m \in icmp : Accept(m) => m.of = <<ttl, probe>>]_vars
=============================================================================
