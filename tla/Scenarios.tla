------------------------------ MODULE Scenarios ------------------------------
(***************************************************************************)
(* What the programs of Assignments 5, 6 and 8 configure: links,           *)
(* applications, the end, the error model and the traces.  Arguments of    *)
(* the command line are parameters; addresses are the nodes that own them. *)
(***************************************************************************)
EXTENDS Integers, Sequences

Seconds(t) == t * 1000000
Milliseconds(t) == t * 1000

(* The wire time of a datagram of 1024 bytes of payload, 1054 with headers,*)
(* in microseconds, at a rate in kilobits a second.                        *)
WireTime(kbps) == (1054 * 8 * 1000) \div kbps

Link(u, v, kbps, delay) == [ends |-> {u, v}, tx |-> WireTime(kbps), delay |-> delay]

Scenario(links, apps, end, errors) ==
    [links |-> links, apps |-> apps, end |-> end, errors |-> errors,
     pdr |-> FALSE, traces |-> {}, attach |-> 0, socketType |-> <<>>]

(* Applications.  The maximum of an OnOffApplication is beyond any number  *)
(* it reaches; what counts of a TCP flow is its handshake.                 *)
Unlimited == 1000000

Server(kind, node, addr, port, start, stop) ==
    [kind |-> kind, node |-> node, addr |-> addr, port |-> port,
     start |-> start, stop |-> stop, max |-> 1, interval |-> 0]
Client(kind, node, addr, port, start, stop, max, interval) ==
    [kind |-> kind, node |-> node, addr |-> addr, port |-> port,
     start |-> start, stop |-> stop, max |-> max, interval |-> interval]

-----------------------------------------------------------------------------
(* Assignment 5: two nodes and a link.  The arguments are the bandwidth in *)
(* kilobits a second, the latency, maxpackets and the interval.            *)

TwoNodes(args) == {Link(0, 1, args.kbps, args.latency)}

Udp(args, start, stop) ==
    <<Server("UdpServer", 1, 1, 8790, Seconds(1), stop),
      Client("UdpClient", 0, 1, 8790, start, stop, args.max, args.interval)>>

UdpAndEcho(args, start, stop) ==
    Udp(args, start, stop) \o
    <<Server("UdpEchoServer", 1, 1, 8793, Seconds(1), stop),
      Client("UdpEchoClient", 0, 1, 8793, start, stop, args.max, args.interval)>>

Que1(args) == Scenario(TwoNodes(args), <<>>, Seconds(2), "never")
Que2(args) == Scenario(TwoNodes(args), Udp(args, Seconds(2), Seconds(60)), Seconds(2), "never")
Que3(args) == Scenario(TwoNodes(args), Udp(args, Seconds(2), Seconds(60)), Seconds(60), "never")
Que4(args) ==
    Scenario(TwoNodes(args), UdpAndEcho(args, Seconds(2), Seconds(60)), Seconds(60), "never")
Que5(args) ==
    Scenario(TwoNodes(args), UdpAndEcho(args, Seconds(1), Seconds(31)), Seconds(31), "never")
Que6(args) == Que5(args)
Que7(args) == Que5(args)

-----------------------------------------------------------------------------
(* Assignment 6: terminals 0 to 7, and three routers.                      *)

Router(k) == 8 + k

Access(terminals, k) == {Link(i, Router(k), 10000, Milliseconds(2)) : i \in terminals}

PartALinks ==
    Access(0..2, 0) \cup Access(3..5, 1) \cup Access(6..7, 2)
    \cup {Link(Router(0), Router(1), 5000, Milliseconds(5)),
          Link(Router(0), Router(2), 3000, Milliseconds(10))}

(* One flow: a sink on a terminal, with an address that may be another's,  *)
(* and a source that sends to that address.                                *)
PartAFlow(sink, source, node, addr, from, port, interval) ==
    <<Server(sink, node, addr, port, Seconds(1), Seconds(10)),
      Client(source, from, addr, port, Seconds(2), Seconds(10),
             IF source = "TcpOnOff" THEN 1 ELSE Unlimited, interval)>>

PartA ==
    Scenario(PartALinks,
             PartAFlow("TcpSink", "TcpOnOff", 4, 7, 7, 8770, 4096)
             \o PartAFlow("UdpSink", "UdpOnOff", 5, 5, 1, 8780, 4096)
             \o PartAFlow("TcpSink", "TcpOnOff", 6, 6, 2, 8790, 8192)
             \o PartAFlow("TcpSink", "TcpOnOff", 3, 3, 0, 8800, 2730),
             Seconds(10), "never")

PartBLinks == PartALinks   \* the second program builds the network again

PartBFlow(server, client, port, packetCount) ==
    <<Server("UdpEchoServer", server, server, port, Seconds(1), Seconds(10)),
      Client("UdpEchoClient", client, server, port, Seconds(2), Seconds(10),
             packetCount, Milliseconds(50))>>

(* errorRate 0.0 makes no errors, 1.0 nothing else, and in between a       *)
(* device may find any datagram in error.                                  *)
PartB(packetCount, errors) ==
    [Scenario(PartBLinks,
              PartBFlow(4, 7, 8770, packetCount) \o PartBFlow(5, 1, 8780, packetCount)
              \o PartBFlow(6, 2, 8790, packetCount) \o PartBFlow(3, 0, 8800, packetCount),
              Seconds(10), errors) EXCEPT !.pdr = TRUE]

-----------------------------------------------------------------------------
(* Assignment 8: totflow nodes on the left, as many on the right, and two  *)
(* routers; with mix, the second half of the left runs TcpAshish.          *)

DumbbellLinks(totflow) ==
    LET routers == [k \in 0..1 |-> 2 * totflow + k]
    IN {Link(routers[0], routers[1], 2000, Milliseconds(2))}
       \cup {Link(i, routers[0], 5000, Milliseconds(2)) : i \in 0..(totflow - 1)}
       \cup {Link(totflow + i, routers[1], 5000, Milliseconds(2)) : i \in 0..(totflow - 1)}

(* Sink i, then client i.                                                  *)
DumbbellApp(totflow, k) ==
    LET i == (k - 1) \div 2
    IN IF k % 2 = 1
       THEN Server("TcpSink", totflow + i, totflow + i, 9000, Seconds(1), Seconds(10))
       ELSE Client("TcpOnOff", i, totflow + i, 9000, Seconds(2), Seconds(10), 1, 1638)

AttachTimeMutant == Seconds(2)
AttachTime == Seconds(2) + 100

Dumbbell(totflow, mix) ==
    [Scenario(DumbbellLinks(totflow), [k \in 1..(2 * totflow) |-> DumbbellApp(totflow, k)],
              Seconds(10), "never")
     EXCEPT !.socketType = [i \in 0..(totflow - 1) |->
                IF mix /\ i >= totflow \div 2 THEN "TcpAshish" ELSE "NewReno"],
            !.attach = AttachTime,
            !.traces = {[node |-> 0, file |-> "NewReno"]} \cup
                IF mix THEN {[node |-> totflow - 1, file |-> "TcpAshish"]} ELSE {}]
=============================================================================
