----------------------------- MODULE Simulation -----------------------------
(***************************************************************************)
(* The ns-3 simulations of Assignments 5, 6 and 8: nodes joined by point-  *)
(* to-point links, the stock clients and servers on them, and the reports  *)
(* the programs compute when the simulation has ended.  What each main     *)
(* configures is a scenario (module Scenarios); the behaviour of the       *)
(* configured parts is ns-3's, on the event list of EventQueue.            *)
(*                                                                         *)
(* Times are in microseconds.  All datagrams of a scenario have the same   *)
(* size, so a link has one transmission time.                              *)
(*                                                                         *)
(* Of a TCP flow only the first segment and its answer are modelled: the   *)
(* retransmissions of either, and all data, are left out, and nothing is   *)
(* said of the load TCP puts on links and queues.  The throughputs that    *)
(* FlowMonitor measured in the end, in both directions, are any numbers    *)
(* above zero once the first segment arrived.                              *)
(***************************************************************************)
EXTENDS EventQueue, FiniteSetsExt, Sequences

CONSTANTS Mains,       \* the scenarios, by the name of their program
          QueueSize,   \* datagrams a device keeps for transmission
          MaxMeasure   \* bound: the throughputs FlowMonitor may measure

Clients == {"UdpClient", "UdpEchoClient", "UdpOnOff", "TcpOnOff"}
Servers == {"UdpServer", "UdpEchoServer", "UdpSink", "TcpSink"}

AppRecord ==
    [kind : Clients \cup Servers, node : Nat, addr : Nat, port : Nat,
     start : Nat, stop : Nat, max : Nat \ {0}, interval : Nat]

ASSUME SimulationAssumption ==
    /\ QueueSize \in Nat /\ MaxMeasure \in Nat \ {0}
    /\ \A m \in DOMAIN Mains :
          /\ Mains[m].apps \in Seq(AppRecord)
          /\ Mains[m].end \in Nat /\ Mains[m].attach \in Nat
          /\ \A l \in Mains[m].links : l.tx \in Nat \ {0} /\ l.delay \in Nat

(* The port of a flow is its own: no two servers listen on the same address*)
(* and port and no two clients send to the same.  A server a client can    *)
(* reach is bound to the address the client uses, and starts before it, or *)
(* at the same time but a link away.  The ratio of PartB is one of echoes. *)
ASSUME OwnServers ==
    \A m \in DOMAIN Mains : \A a, b \in DOMAIN Mains[m].apps :
        LET A == Mains[m].apps[a]
            B == Mains[m].apps[b]
        IN A.port = B.port =>
              /\ A.addr = B.addr /\ (A.kind \in Clients <=> B.kind \in Clients) => a = b
              /\ A.kind \in Clients /\ B.kind \in Servers /\ A.addr = B.node =>
                    /\ B.addr = A.addr
                    /\ B.start < A.start \/ (B.start = A.start /\ A.node # A.addr)

ASSUME RatioOfEchoes ==
    \A m \in DOMAIN Mains : Mains[m].pdr =>
        \A a \in DOMAIN Mains[m].apps : Mains[m].apps[a].kind \in Clients =>
            \E s \in DOMAIN Mains[m].apps :
                /\ Mains[m].apps[s].kind = "UdpEchoServer"
                /\ Mains[m].apps[s].node = Mains[m].apps[a].addr
                /\ Mains[m].apps[s].port = Mains[m].apps[a].port

VARIABLES
    main,              \* the program that runs
    now, queue, uid,   \* the simulator: its clock, its events, their numbering
    halted, done,      \* Simulator::Stop has run; Simulator::Run has returned
    started,           \* the applications that have started
    sent,              \* datagrams each client sent
    arrived,           \* of these, how many reached the node they are for
    got,               \* datagrams each application was handed
    busy,              \* until when each device transmits
    traced,            \* the sockets AttachTraces found
    measured           \* FlowMonitor's throughputs of the TCP flows, at the end

flows == <<started, sent, arrived, got, busy>>
vars == <<main, now, queue, uid, halted, done, flows, traced, measured>>

(* The next hop from every node to every node, on a shortest path: ring[k] *)
(* maps a node to the nodes at most k links away; nobody is further away   *)
(* than Diameter.                                                          *)
Diameter == 4

PopulateRoutingTables(links) ==
    LET nodes == UNION {l.ends : l \in links}
        adjacent == [u \in nodes |-> {v \in nodes : \E l \in links : l.ends = {u, v}}]
        ring[k \in 0..Diameter] ==
            IF k = 0 THEN [d \in nodes |-> {d}]
            ELSE LET inner == ring[k - 1]
                 IN [d \in nodes |-> UNION {adjacent[u] \cup {u} : u \in inner[d]}]
        nearer(v, u, d) == \E k \in DOMAIN ring : v \in ring[k][d] /\ u \notin ring[k][d]
    IN [u \in nodes |-> [d \in nodes |->
           IF u = d THEN d ELSE CHOOSE v \in adjacent[u] : nearer(v, u, d)]]

Configured ==
    [m \in DOMAIN Mains |-> [scenario |-> Mains[m],
                             route |-> PopulateRoutingTables(Mains[m].links)]]

(* The nodes a datagram from u to d comes to.  Every node is reached from  *)
(* every other, along links and within Diameter hops.                      *)
Way(m, u, d) ==
    LET way[k \in 0..Diameter] == IF k = 0 THEN u ELSE Configured[m].route[way[k - 1]][d]
    IN way

ASSUME Connected ==
    \A m \in DOMAIN Mains :
        LET route == Configured[m].route
            apps == Mains[m].apps
        IN /\ \A a \in DOMAIN apps : {apps[a].node, apps[a].addr} \subseteq DOMAIN route
           /\ \A u, d \in DOMAIN route :
                 /\ route[u][d] \in DOMAIN route
                 /\ u # d => \E l \in Mains[m].links : l.ends = {u, route[u][d]}
                 /\ Way(m, u, d)[Diameter] = d

S == Configured[main].scenario
Route == Configured[main].route

Apps == DOMAIN S.apps
App(a) == S.apps[a]
IsClient(a) == App(a).kind \in Clients
ClientApps == {a \in Apps : IsClient(a)}

(* What an event calls, for which application, with which datagram, where. *)
Call(do, a, n, at) == [do |-> do, app |-> a, n |-> n, at |-> at]
Plain(do) == Call(do, 0, 0, 0)

(* main up to Simulator::Run: the nodes' initialisation was scheduled when *)
(* they were created, and Simulator::Stop before the run.                  *)
Init ==
    /\ main \in DOMAIN Mains
    /\ now = 0 /\ uid = 3
    /\ queue = {Event(0, 0, Plain("Initialize")), Event(S.end, 2, Plain("Stop"))}
          \cup (IF S.traces = {} THEN {}
                ELSE {Event(S.attach, 1, Plain("AttachTraces"))})
    /\ halted = FALSE /\ done = FALSE
    /\ started = {}
    /\ sent = [a \in Apps |-> 0] /\ arrived = [a \in Apps |-> 0]
    /\ got = [a \in Apps |-> 0]
    /\ busy = [d \in {<<u, Route[u][v]>> : u, v \in DOMAIN Route} |-> 0]
    /\ traced = {} /\ measured = <<>>

-----------------------------------------------------------------------------
(* The network.  (An operator named ...Mutant is a mistake one could make  *)
(* in the definition below it; no behaviour of the programs uses it.)      *)

(* A datagram for the node itself takes the loopback device, which needs   *)
(* no time and makes no errors.                                            *)
Loopback == [ends |-> {}, tx |-> 0, delay |-> 0]
LinkOf(u, v) == IF u = v THEN Loopback ELSE CHOOSE l \in S.links : l.ends = {u, v}

BeginsMutant(u, v) == busy[u, v]
Begins(u, v) == IF busy[u, v] > now' THEN busy[u, v] ELSE now'

(* The node at hands the datagram of call c to the device towards dst: it  *)
(* is transmitted after those before it, and arrives after the delay.      *)
Transmit(rest, c, at, dst) ==
    LET v == Route[at][dst]
        l == LinkOf(at, v)
        ends == Begins(at, v) + l.tx
    IN /\ queue' = rest \cup {Event(ends + l.delay, uid, [c EXCEPT !.at = v])}
       /\ busy' = [busy EXCEPT ![<<at, v>>] = ends]

(* The applications that listen where client a sends to: on that node, for *)
(* that address, on that port.                                             *)
ListensMutant(s, a) == App(s).node = App(a).addr /\ App(s).addr = App(a).addr
WrongNodeMutant(s, a) == App(s).port = App(a).port /\ App(s).addr = App(a).addr

Listens(s, a) ==
    /\ App(s).node = App(a).addr /\ App(s).addr = App(a).addr
    /\ App(s).port = App(a).port

Listeners(a) == {s \in Apps \ ClientApps : Listens(s, a)}
Echoes(s) == App(s).kind \in {"UdpEchoServer", "TcpSink"}

-----------------------------------------------------------------------------
(* The events.                                                             *)

Takes(e, do) ==
    /\ ~halted /\ ~done
    /\ Runs(e, queue) /\ e.call.do = do
    /\ now' = e.ts

(* Node by node, and on each node in the order of installation, the start  *)
(* of every application is scheduled, and its stop.  There is no action for*)
(* a stop: it is due at the end or later, and the end was scheduled first. *)
(* (A stop that could run would show as a deadlock.)                       *)
Earlier(a) ==
    {b \in Apps : \/ App(b).node < App(a).node
                  \/ App(b).node = App(a).node /\ b < a}
StartUid(a) == uid + 2 * Cardinality(Earlier(a))

Initialize(e) ==
    /\ Takes(e, "Initialize")
    /\ queue' = (queue \ {e}) \cup
          UNION {{Event(App(a).start, StartUid(a), Call("Start", a, 0, 0)),
                  Event(App(a).stop, StartUid(a) + 1, Call("StopApplication", a, 0, 0))} : a \in Apps}
    /\ uid' = uid + 2 * Cardinality(Apps)
    /\ UNCHANGED <<main, halted, done, flows, traced, measured>>

(* A server opens its socket.  A client opens its own and sends at once;   *)
(* OnOffApplication over UDP waits for its first interval.                 *)
FirstSend(a) ==
    IF App(a).kind = "UdpOnOff" THEN App(a).start + App(a).interval ELSE App(a).start

Start(e) ==
    LET a == e.call.app
    IN /\ Takes(e, "Start")
       /\ started' = started \cup {a}
       /\ queue' = (queue \ {e}) \cup
             (IF IsClient(a) THEN {Event(FirstSend(a), uid, Call("Send", a, 0, 0))} ELSE {})
       /\ uid' = uid + 1
       /\ UNCHANGED <<main, halted, done, sent, arrived, got, busy, traced, measured>>

(* (A TCP client has a maximum of one: see above.)                         *)
MoreMutant(a) == sent[a] + 1 <= App(a).max
More(a) == sent[a] + 1 < App(a).max

Send(e) ==
    LET a == e.call.app
        next == Event(e.ts + App(a).interval, uid + 1, e.call)
        rest == (queue \ {e}) \cup (IF More(a) THEN {next} ELSE {})
    IN /\ Takes(e, "Send")
       /\ sent' = [sent EXCEPT ![a] = @ + 1]
       /\ Transmit(rest, Call("Request", a, sent[a] + 1, 0), App(a).node, App(a).addr)
       /\ uid' = uid + 2
       /\ UNCHANGED <<main, halted, done, started, arrived, got, traced, measured>>

(* A device received a datagram that is not in error.                      *)
Receives(e, do) ==
    /\ Takes(e, do)
    /\ uid' = uid + 1
    /\ S.errors # "always"
    /\ UNCHANGED <<main, halted, done, started, sent, traced, measured>>

(* The router that holds a datagram passes it on.                          *)
ForwardRequest(e) ==
    /\ e.call.do = "Request" /\ e.call.at # App(e.call.app).addr
    /\ Receives(e, "Request")
    /\ Transmit(queue \ {e}, e.call, e.call.at, App(e.call.app).addr)
    /\ UNCHANGED <<arrived, got>>

ForwardEcho(e) ==
    /\ e.call.do = "Echo" /\ e.call.at # App(e.call.app).node
    /\ Receives(e, "Echo")
    /\ Transmit(queue \ {e}, e.call, e.call.at, App(e.call.app).node)
    /\ UNCHANGED <<arrived, got>>

(* The node it is for hands a request to the socket, if there is one; an   *)
(* echo server, like a listening TCP socket, answers at once.              *)
Deliver(e) ==
    LET a == e.call.app
        open == Listeners(a) \cap started
    IN /\ e.call.do = "Request" /\ e.call.at = App(a).addr
       /\ Receives(e, "Request")
       /\ arrived' = [arrived EXCEPT ![a] = @ + 1]
       /\ got' = [s \in Apps |-> IF s \in open THEN got[s] + 1 ELSE got[s]]
       /\ IF \E s \in open : Echoes(s)
          THEN Transmit(queue \ {e}, [e.call EXCEPT !.do = "Echo"], e.call.at, App(a).node)
          ELSE queue' = queue \ {e} /\ UNCHANGED busy

Answer(e) ==
    /\ e.call.do = "Echo" /\ e.call.at = App(e.call.app).node
    /\ Receives(e, "Echo")
    /\ got' = [got EXCEPT ![e.call.app] = @ + 1]
    /\ queue' = queue \ {e}
    /\ UNCHANGED <<arrived, busy>>

(* The error model of the receiving device drops a datagram.               *)
Drop(e) ==
    /\ S.errors # "never"
    /\ \E do \in {"Request", "Echo"} : Takes(e, do)
    /\ queue' = queue \ {e}
    /\ UNCHANGED <<main, uid, halted, done, flows, traced, measured>>

(* The trace files are joined to the sockets there are; a missing one is   *)
(* passed over in silence.                                                 *)
AttachTraces(e) ==
    /\ Takes(e, "AttachTraces")
    /\ traced' = {t \in S.traces :
                     \E a \in started \cap ClientApps : App(a).node = t.node}
    /\ queue' = queue \ {e}
    /\ UNCHANGED <<main, uid, halted, done, flows, measured>>

HaltMutant(e) ==   \* the end of the simulation is scheduled again and again
    /\ Takes(e, "Stop")
    /\ UNCHANGED <<main, queue, uid, halted, done, flows, traced, measured>>

Halt(e) ==
    /\ Takes(e, "Stop")
    /\ halted' = TRUE
    /\ queue' = queue \ {e}
    /\ UNCHANGED <<main, uid, done, flows, traced, measured>>

(* The TCP flows FlowMonitor saw: the segments of a client that reached the*)
(* node they were for, the handshake's included, and those that came back. *)
TcpClients == {a \in ClientApps : App(a).kind = "TcpOnOff"}
Monitored ==
    {<<a, "to">> : a \in {b \in TcpClients : arrived[b] > 0}}
    \cup {<<a, "back">> : a \in {b \in TcpClients : got[b] > 0}}

(* Run returns.                                                            *)
Return ==
    /\ halted /\ ~done
    /\ done' = TRUE
    /\ measured' \in [Monitored -> 1..MaxMeasure]
    /\ UNCHANGED <<main, now, queue, uid, halted, flows, traced>>

Handle(e) ==
    \/ Initialize(e) \/ Start(e) \/ Send(e)
    \/ ForwardRequest(e) \/ ForwardEcho(e) \/ Deliver(e) \/ Answer(e) \/ Drop(e)
    \/ AttachTraces(e) \/ Halt(e)

Simulator == Return \/ \E e \in queue : Handle(e)

Exited == done /\ UNCHANGED vars

Next == Simulator \/ Exited

(* Simulator::Run is a loop of the program.                                *)
Spec == Init /\ [][Next]_vars /\ WF_vars(Simulator)

-----------------------------------------------------------------------------
(* The reports.                                                            *)

EchoesSent(a) == SumFunctionOnSet(got, {s \in Listeners(a) : Echoes(s)})

(* PartB: totalrx and totaltx add up the flows of both directions.         *)
TotalTxMutant == SumFunctionOnSet(sent, ClientApps)
TotalTx == SumFunction([a \in ClientApps |-> sent[a] + EchoesSent(a)])
TotalRx == SumFunction([a \in ClientApps |-> arrived[a] + got[a]])

(* Jain's index of the dumbbell, as the numerator and the denominator that *)
(* are divided; (0, 1) if nothing was received.  Only the flows towards the*)
(* sinks count.                                                            *)
ValidMutant == DOMAIN measured
Valid == {f \in DOMAIN measured : f[2] = "to" /\ measured[f] > 0}
JainsIndex ==
    LET sum == SumFunctionOnSet(measured, Valid)
        squares == SumFunction([f \in Valid |-> measured[f] * measured[f]])
    IN IF squares > 0 THEN <<sum * sum, Cardinality(Valid) * squares>> ELSE <<0, 1>>

-----------------------------------------------------------------------------
(* Properties.                                                             *)

(* The types of the simulator's and the applications' state; every event   *)
(* lies ahead and has a number of its own; nothing arrives twice.          *)
TypeOK ==
    /\ main \in DOMAIN Mains /\ now \in Nat /\ uid \in Nat
    /\ \A e \in queue : now <= e.ts /\ e.uid < uid
    /\ \A e, f \in queue : e.uid = f.uid => e = f
    /\ halted \in BOOLEAN /\ done \in BOOLEAN
    /\ started \subseteq Apps
    /\ got \in [Apps -> Nat]
    /\ \A f \in DOMAIN measured : f[1] \in TcpClients /\ measured[f] \in 1..MaxMeasure
    /\ \A a \in Apps : sent[a] \in 0..App(a).max /\ arrived[a] \in 0..sent[a]

(* Several clients and servers share links, routers and nodes, and two     *)
(* nodes may use the same link in both directions.  Every flow is served   *)
(* as if it were alone: its own server hears its requests, each at most    *)
(* once and in the order of sending, and its echoes come back likewise.    *)
AllApps == UNION {DOMAIN Mains[m].apps : m \in DOMAIN Mains}
InFlight(do, a) == {e.call.n : e \in {g \in queue : g.call.do = do /\ g.call.app = a}}
Heard(a) == SumFunctionOnSet(got, Listeners(a))

FlowEchoing == {a \in ClientApps : \E s \in Listeners(a) : Echoes(s)}
FlowSent == [a \in AllApps |-> IF a \in ClientApps THEN sent[a] ELSE 0]
FlowHeard == [a \in AllApps |-> IF a \in ClientApps THEN Heard(a) ELSE 0]
FlowAnswered == [a \in AllApps |-> IF a \in ClientApps THEN got[a] ELSE 0]
FlowInFlight(do) == [a \in AllApps |-> IF a \in ClientApps THEN InFlight(do, a) ELSE {}]

Flow == INSTANCE LossyFlows WITH
    Flows <- AllApps, echoing <- FlowEchoing,
    sent <- FlowSent, requests <- FlowInFlight("Request"),
    heard <- FlowHeard, echoes <- FlowInFlight("Echo"), answered <- FlowAnswered

FlowsAreIndependent == Flow!Spec

(* How often each client sends: at its first time and then every interval, *)
(* strictly before the end, but its maximum at most.  A client that starts *)
(* at the moment the simulation ends, as in Q2, sends nothing.  (Of a TCP  *)
(* client this is about its first segment only.)                           *)
Due(a) ==
    IF FirstSend(a) >= S.end THEN 0
    ELSE IF App(a).interval = 0 THEN App(a).max
    ELSE Min({App(a).max, (S.end - FirstSend(a) - 1) \div App(a).interval + 1})
SentExactly == done => \A a \in ClientApps : sent[a] = Due(a)

(* A datagram that reaches its node is heard exactly if a server for its   *)
(* port was installed on that node: neither the order in which clients and *)
(* servers of the same start time are started, nor the end, makes a        *)
(* difference, but a sink given the address of another node hears nothing. *)
HeardIfInstalled ==
    \A a \in ClientApps :
        Heard(a) = IF \E s \in Apps \ ClientApps : /\ App(s).node = App(a).addr
                                                 /\ App(s).port = App(a).port
                   THEN arrived[a] ELSE 0

(* What the printed ratio says of the echo exchange: it is 1 only if every *)
(* request came back, it is 0 if there are only errors, and it is never    *)
(* below the share of requests that were answered, because the echo of a   *)
(* lost request is not missed.                                             *)
PdrMeaning ==
    done /\ S.pdr =>
        LET requests == SumFunctionOnSet(sent, ClientApps)
            answers == SumFunctionOnSet(got, ClientApps)
        IN /\ TotalRx <= TotalTx
           /\ TotalRx = TotalTx <=> answers = requests
           /\ TotalRx * requests >= answers * TotalTx
           /\ S.errors = "always" => TotalRx = 0

(* AttachTraces runs after the sockets it looks for were created, and each *)
(* file gets the variant of TCP it is named for.                           *)
TracesFindSockets ==
    done => /\ traced = S.traces
            /\ \A t \in S.traces : S.socketType[t.node] = t.file

(* Jain's index takes every flow once whose handshake got through, however *)
(* little it carried: the handshake is counted as throughput, so that the  *)
(* test for a positive one leaves no starved flow out, and the             *)
(* acknowledgements that flow back are not counted.  It lies between the   *)
(* share of one flow and 1 and is 1 only if all flows received the same.   *)
JainMeaning ==
    LET J == JainsIndex
        counted == {a \in TcpClients : arrived[a] > 0}
        n == Cardinality(counted)
    IN done /\ counted # {} =>
           /\ {f[1] : f \in Valid} = counted /\ Cardinality(Valid) = n
           /\ J[1] <= J[2] /\ n * J[1] >= J[2]
           /\ J[1] = J[2] <=> \A f, g \in Valid : measured[f] = measured[g]

(* Datagrams a device holds that it has not begun to transmit.             *)
Waiting(d) ==
    IF busy[d] <= now \/ d[1] = d[2] THEN 0
    ELSE (busy[d] - now) \div LinkOf(d[1], d[2]).tx

NoOverflow == \A d \in DOMAIN busy : Waiting(d) <= QueueSize

(* The UDP load the programs configure fits: where no client uses TCP, no  *)
(* device's queue overflows.  Every simulation ends, even if the interval  *)
(* is zero, and when the echo exchange whose ratio is printed ends, it has *)
(* nothing under way.                                                      *)
Drained == S.pdr => \A e \in queue : e.call.do \notin {"Request", "Echo"}
EndsInTime == [](TcpClients = {} => NoOverflow) /\ <>(done /\ Drained)
=============================================================================
