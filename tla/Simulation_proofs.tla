-------------------------- MODULE Simulation_proofs --------------------------
(***************************************************************************)
(* What holds of the simulations for every scenario the assumptions of     *)
(* Simulation allow: any links, applications, times, counts and errors.    *)
(*                                                                         *)
(* The invariant is Clock (the state and what the queue holds), to which   *)
(* every theorem adds what it needs: SendTimes, Counts, Late and Hears,    *)
(* Network (the order of the datagrams of a flow), Measures and Silence.   *)
(* A lemma ...Means says what an action does, ...Net what it does to the   *)
(* datagrams in the network, ...Clock that it keeps Clock, ...Flow which   *)
(* step of LossyFlows it is; Init... and ...Step are the two halves of an  *)
(* induction.                                                              *)
(***************************************************************************)
EXTENDS Simulation, Scenarios, SequenceTheorems, FiniteSetTheorems,
        WellFoundedInduction, TLAPS

Nodes == DOMAIN Route
Edges == {<<u, Route[u][v]>> : u, v \in Nodes}

(* When a client sends next.                                               *)
NextSend(a) == FirstSend(a) + sent[a] * App(a).interval

(* The types, and that the numbers of the first events were given away.    *)
Basics ==
    /\ main \in DOMAIN Mains /\ now \in Nat /\ uid \in Nat /\ uid >= 3
    /\ halted \in BOOLEAN /\ done \in BOOLEAN
    /\ started \subseteq Apps
    /\ sent \in [Apps -> Nat] /\ arrived \in [Apps -> Nat] /\ got \in [Apps -> Nat]
    /\ busy \in [Edges -> Nat]

(* An event has the fields of one.                                         *)
Shaped(e) == e = Event(e.ts, e.uid, Call(e.call.do, e.call.app, e.call.n, e.call.at))

(* The events main schedules, and those that are a datagram on its way.    *)
Plains == {"Initialize", "AttachTraces", "Stop"}
Flights == {"Request", "Echo"}

(* What an event of each kind says.                                        *)
Known(e) ==
    LET a == e.call.app
        do == e.call.do
    IN /\ do = "Initialize" => e.ts = 0 /\ e.uid = 0
       /\ do = "AttachTraces" => e.ts = S.attach /\ e.uid = 1
       /\ do = "Stop" => e.ts = S.end /\ e.uid = 2
       /\ do \notin Plains => e.uid >= 3
       /\ do = "Start" => a \in Apps \ started /\ e.ts = App(a).start
       /\ do = "Send" => /\ a \in ClientApps \cap started /\ sent[a] < App(a).max
                         /\ e.ts = NextSend(a)
       /\ do \in Flights => /\ a \in ClientApps /\ e.call.n \in 1..sent[a]
                            /\ e.call.at \in Nodes

(* Two datagrams of one flow, in the same direction.                       *)
Same(e, f) == e.call.do = f.call.do /\ e.call.app = f.call.app

(* Every event is known, lies ahead and has its own number; an application *)
(* has one start and one next datagram at most.                            *)
Events ==
    /\ \A e \in queue : /\ Shaped(e) /\ Known(e)
                        /\ e.ts \in Nat /\ now <= e.ts
                        /\ e.uid \in Nat /\ e.uid < uid
    /\ \A e, f \in queue : e.uid = f.uid => e = f
    /\ \A e, f \in queue : Same(e, f) /\ e.call.do \in {"Start", "Send"} => e = f

Scheduled(do, a) == \E e \in queue : e.call.do = do /\ e.call.app = a
Booting == \E e \in queue : e.call.do = "Initialize"

(* What must be in the queue.                                              *)
Pendings ==
    /\ Booting => uid = 3 /\ started = {} /\ \A e \in queue : e.call.do \in Plains
    /\ ~Booting => \A a \in Apps \ started : Scheduled("Start", a)
    /\ \A a \in ClientApps \cap started : sent[a] < App(a).max => Scheduled("Send", a)
    /\ \A a \in Apps \ started : sent[a] = 0
    /\ IF halted THEN now = S.end ELSE \E e \in queue : e.call.do = "Stop"
    /\ done => halted

Clock == Basics /\ Events /\ Pendings

(* Every datagram was sent before the end.                                 *)
SendTimes ==
    \A a \in ClientApps :
        /\ sent[a] <= App(a).max
        /\ sent[a] > 0 => FirstSend(a) + (sent[a] - 1) * App(a).interval < S.end

-----------------------------------------------------------------------------
(* Where the datagrams of client a come from, where they go, and how.      *)
Src(do, a) == IF do = "Request" THEN App(a).node ELSE App(a).addr
Dst(do, a) == IF do = "Request" THEN App(a).addr ELSE App(a).node
W(do, a) == Way(main, Src(do, a), Dst(do, a))

(* A datagram of client a is k hops along.                                 *)
Along(e, k) ==
    LET w == W(e.call.do, e.call.app)
    IN e.call.at = w[k] /\ (k = 1 \/ w[k - 1] # Dst(e.call.do, e.call.app))

(* The simulator runs e before f.                                          *)
Sooner(e, f) == e.ts < f.ts \/ (e.ts = f.ts /\ e.uid < f.uid)

InNetwork == {e \in queue : e.call.do \in Flights}

(* A datagram is somewhere on its way and arrives before the device it     *)
(* came through has sent another.                                          *)
Paths ==
    \A e \in InNetwork :
        /\ \E k \in 1..Diameter : Along(e, k)
        /\ \A k \in 1..Diameter : Along(e, k) =>
              LET u == W(e.call.do, e.call.app)[k - 1]
              IN e.ts <= busy[<<u, e.call.at>>] + LinkOf(u, e.call.at).delay

(* Of two datagrams of a flow the later one is not ahead: it has come less *)
(* far, or as far and arrives later.                                       *)
InOrder ==
    \A e, f \in InNetwork : Same(e, f) /\ e # f =>
        /\ e.call.n # f.call.n
        /\ e.call.n < f.call.n =>
              \A j, k \in 1..Diameter : Along(e, j) /\ Along(f, k) =>
                  k <= j /\ (j = k => Sooner(e, f))

(* An echo is of a request sent before those still under way.              *)
EchoFirst ==
    \A e, f \in InNetwork :
        e.call.do = "Echo" /\ f.call.do = "Request" /\ e.call.app = f.call.app =>
            e.call.n < f.call.n

Network == Paths /\ InOrder /\ EchoFirst

Traffic(do, a) == {e \in InNetwork : e.call.do = do /\ e.call.app = a}

(* A request is under way, arrived or lost; an echo is under way, got or   *)
(* lost.                                                                   *)
Counts ==
    \A a \in ClientApps :
        /\ \A do \in Flights : IsFiniteSet(Traffic(do, a))
        /\ Cardinality(Traffic("Request", a)) + arrived[a] <= sent[a]
        /\ Cardinality(Traffic("Echo", a)) + got[a] <= arrived[a]

(* Servers send nothing on their own.                                      *)
Replies == \A a \in Apps \ ClientApps : sent[a] = 0 /\ arrived[a] = 0

(* A request arrives after its client started, and later if a link away:   *)
(* by then the server is started.                                          *)
Late ==
    \A e \in InNetwork : e.call.do = "Request" =>
        LET a == e.call.app
        IN IF App(a).node = App(a).addr THEN App(a).start <= e.ts ELSE App(a).start < e.ts

(* The server of a client was handed all that arrived.                     *)
Hears == \A a \in ClientApps : \A s \in Listeners(a) : got[s] = arrived[a]

(* Where every datagram is in error nothing arrives.                       *)
Silence == S.errors = "always" => \A a \in Apps : arrived[a] = 0 /\ got[a] = 0

(* FlowMonitor measures at the end.                                        *)
Measures == IF done THEN measured \in [Monitored -> 1..MaxMeasure] ELSE measured = <<>>

-----------------------------------------------------------------------------
(* Scenarios.                                                              *)

(* Nothing is forwarded from the node it is for.                           *)
LEMMA RouteToItself ==
    ASSUME NEW m \in DOMAIN Mains, NEW u \in DOMAIN Configured[m].route
    PROVE  Configured[m].route[u][u] = u
<1>1. Configured[m].route = PopulateRoutingTables(Mains[m].links)
  BY DEF Configured
<1> QED BY <1>1 DEF PopulateRoutingTables

(* A way begins at its source and follows the routing tables.              *)
LEMMA WayFacts ==
    ASSUME NEW m \in DOMAIN Mains, NEW u, NEW d
    PROVE  LET w == Way(m, u, d)
           IN w[0] = u /\ \A k \in 1..Diameter : w[k] = Configured[m].route[w[k - 1]][d]
<1> DEFINE next(v) == Configured[m].route[v][d]
           is(w) == w = [k \in 0..Diameter |-> IF k = 0 THEN u ELSE next(w[k - 1])]
           h == [k \in 0..Diameter |->
                    IF k = 0 THEN u ELSE IF k = 1 THEN next(u)
                    ELSE IF k = 2 THEN next(next(u)) ELSE IF k = 3 THEN next(next(next(u)))
                    ELSE next(next(next(next(u))))]
<1>1. is(h)
  <2>1. \A k \in 0..Diameter : k = 0 \/ k = 1 \/ k = 2 \/ k = 3 \/ k = 4
    BY DEF Diameter
  <2> HIDE DEF next
  <2> QED BY <2>1 DEF Diameter
<1>2. Way(m, u, d) = CHOOSE w : is(w)
  BY Zenon DEF Way
<1>3. is(Way(m, u, d))
  <2> HIDE DEF is
  <2> QED BY <1>1, <1>2
<1> QED BY <1>3 DEF Diameter

(* What the assumptions say of the scenario that runs.                     *)
LEMMA ScenarioFacts ==
    ASSUME main \in DOMAIN Mains
    PROVE  /\ S = Mains[main] /\ Route = Configured[main].route
           /\ Apps = 1..Len(S.apps) /\ Len(S.apps) \in Nat /\ IsFiniteSet(Apps)
           /\ S.end \in Nat /\ S.attach \in Nat
           /\ \A a \in Apps : App(a) \in AppRecord
           /\ \A a \in Apps : App(a).node \in Nodes /\ App(a).addr \in Nodes
<1>1. S = Mains[main] /\ Route = Configured[main].route
  BY DEF S, Route, Configured
<1>2. S.apps \in Seq(AppRecord) /\ S.end \in Nat /\ S.attach \in Nat
  BY <1>1, SimulationAssumption
<1>3. Apps = 1..Len(S.apps) /\ Len(S.apps) \in Nat
  BY <1>2 DEF Apps
<1>4. IsFiniteSet(Apps)
  BY <1>3, FS_Interval
<1>5. \A a \in Apps : App(a) \in AppRecord
  BY <1>2, <1>3 DEF App
<1>6. \A a \in Apps : {App(a).node, App(a).addr} \subseteq Nodes
  BY <1>1, Connected DEF App, Apps, Nodes
<1> QED BY <1>1, <1>2, <1>3, <1>4, <1>5, <1>6

(* What they say of an application.                                        *)
LEMMA AppFacts ==
    ASSUME main \in DOMAIN Mains, NEW a \in Apps
    PROVE  /\ App(a).node \in Nat /\ App(a).addr \in Nat /\ App(a).port \in Nat
           /\ App(a).start \in Nat /\ App(a).stop \in Nat /\ App(a).interval \in Nat
           /\ App(a).max \in Nat /\ App(a).max >= 1
           /\ App(a).kind \in Clients \cup Servers
           /\ FirstSend(a) \in Nat /\ App(a).start <= FirstSend(a)
           /\ a \in ClientApps <=> App(a).kind \in Clients
           /\ a \notin ClientApps <=> App(a).kind \in Servers
<1>1. App(a) \in AppRecord
  BY ScenarioFacts
<1>2. /\ App(a).node \in Nat /\ App(a).addr \in Nat /\ App(a).port \in Nat
      /\ App(a).start \in Nat /\ App(a).stop \in Nat /\ App(a).interval \in Nat
      /\ App(a).max \in Nat \ {0} /\ App(a).kind \in Clients \cup Servers
  BY <1>1 DEF AppRecord
<1>3. FirstSend(a) \in Nat /\ App(a).start <= FirstSend(a)
  BY <1>2 DEF FirstSend
<1>4. a \in ClientApps <=> App(a).kind \in Clients
  BY DEF ClientApps, IsClient
<1>5. Clients \cap Servers = {}
  BY DEF Clients, Servers
<1> QED BY <1>2, <1>3, <1>4, <1>5

(* A way stays among the nodes.                                            *)
LEMMA WayInNodes ==
    ASSUME main \in DOMAIN Mains, NEW u \in Nodes, NEW d \in Nodes
    PROVE  LET w == Way(main, u, d)
           IN /\ w[0] = u /\ w[Diameter] = d
              /\ \A k \in 0..Diameter : w[k] \in Nodes
              /\ \A k \in 1..Diameter : w[k] = Route[w[k - 1]][d]
              /\ Route[d][d] = d
<1> DEFINE w == Way(main, u, d)
<1>1. Route = Configured[main].route /\ Nodes = DOMAIN Configured[main].route
  BY ScenarioFacts DEF Nodes
<1>2. w[0] = u /\ \A k \in 1..Diameter : w[k] = Route[w[k - 1]][d]
  BY <1>1, WayFacts
<1>3. w[Diameter] = d /\ \A v \in Nodes : Route[v][d] \in Nodes
  BY <1>1, Connected
<1>4. Route[d][d] = d
  BY <1>1, RouteToItself
<1>5. \A k \in 0..Diameter : w[k] \in Nodes
  <2> HIDE DEF w
  <2>1. w[0] \in Nodes
    BY <1>2
  <2>2. w[1] \in Nodes
    BY <1>2, <1>3, <2>1 DEF Diameter
  <2>3. w[2] \in Nodes
    BY <1>2, <1>3, <2>2 DEF Diameter
  <2>4. w[3] \in Nodes
    BY <1>2, <1>3, <2>3 DEF Diameter
  <2>5. w[4] \in Nodes
    BY <1>2, <1>3, <2>4 DEF Diameter
  <2> QED BY <2>1, <2>2, <2>3, <2>4, <2>5 DEF Diameter
<1> QED BY <1>2, <1>3, <1>4, <1>5

(* Every hop of a route goes along a link.                                  *)
LEMMA Linked ==
    ASSUME NEW m \in DOMAIN Mains, NEW u \in DOMAIN Configured[m].route,
           NEW d \in DOMAIN Configured[m].route, u # d
    PROVE  \E l \in Mains[m].links : l.ends = {u, Configured[m].route[u][d]}
<1> DEFINE r == Configured[m].route
<1>1. \A x, y \in DOMAIN r :
                 /\ r[x][y] \in DOMAIN r
                 /\ x # y => \E l \in Mains[m].links : l.ends = {x, r[x][y]}
                 /\ Way(m, x, y)[Diameter] = y
  BY Connected
<1>2. u \in DOMAIN r /\ d \in DOMAIN r
  OBVIOUS
<1> HIDE DEF r
<1>3. u # d => \E l \in Mains[m].links : l.ends = {u, r[u][d]}
  BY <1>1, <1>2
<1> QED BY <1>3 DEF r

(* A link is chosen for every hop.                                         *)
LEMMA HopFacts ==
    ASSUME main \in DOMAIN Mains, NEW u \in Nodes, NEW d \in Nodes
    PROVE  /\ Route[u][d] \in Nodes /\ <<u, Route[u][d]>> \in Edges
           /\ u # d => u # Route[u][d]
           /\ LinkOf(u, Route[u][d]).tx \in Nat /\ LinkOf(u, Route[u][d]).delay \in Nat
           /\ u # d => LinkOf(u, Route[u][d]).tx >= 1
<1> DEFINE w == Way(main, u, d)
           v == Route[u][d]
<1>1. Route = Configured[main].route /\ Nodes = DOMAIN Configured[main].route /\ S = Mains[main]
  BY ScenarioFacts DEF Nodes
<1>2. v \in Nodes /\ (u # d => \E l \in S.links : l.ends = {u, v})
  <2>1. u \in DOMAIN Configured[main].route /\ d \in DOMAIN Configured[main].route
    BY <1>1
  <2>2. Configured[main].route[u][d] \in DOMAIN Configured[main].route
    BY <2>1, Connected
  <2>3. u # d => \E l \in Mains[main].links : l.ends = {u, Configured[main].route[u][d]}
    BY <2>1, Linked
  <2> QED BY <1>1, <2>2, <2>3
<1>3. <<u, v>> \in Edges
  BY DEF Edges
<1>4. u # d => u # v
  <2>1. /\ w[0] = u /\ w[Diameter] = d
        /\ \A k \in 1..Diameter : w[k] = Route[w[k - 1]][d]
    BY WayInNodes
  <2>2. u = v => w[1] = u /\ w[2] = u /\ w[3] = u /\ w[4] = u
    <3> HIDE DEF w
    <3>1. w[1] = v
      BY <2>1 DEF Diameter
    <3>2. u = v => w[2] = u
      BY <2>1, <3>1 DEF Diameter
    <3>3. u = v => w[3] = u
      BY <2>1, <3>2 DEF Diameter
    <3>4. u = v => w[4] = u
      BY <2>1, <3>3 DEF Diameter
    <3> QED BY <3>1, <3>2, <3>3, <3>4
  <2> QED BY <2>1, <2>2 DEF Diameter
<1>5. CASE u = v
  <2>1. LinkOf(u, v) = Loopback
    BY <1>5 DEF LinkOf
  <2> QED BY <1>2, <1>3, <1>4, <1>5, <2>1 DEF Loopback
<1>6. CASE u # v
  <2>1. u # d
    BY <1>1, <1>6, RouteToItself
  <2>2. LinkOf(u, v) \in S.links
    BY <1>2, <1>6, <2>1 DEF LinkOf
  <2>3. LinkOf(u, v).tx \in Nat \ {0} /\ LinkOf(u, v).delay \in Nat
    BY <1>1, <2>2, SimulationAssumption
  <2> QED BY <1>2, <1>3, <1>4, <2>3
<1> QED BY <1>5, <1>6

(* On its way a datagram comes to no node twice, and to its goal last.     *)
LEMMA StageFacts ==
    ASSUME main \in DOMAIN Mains, NEW u \in Nodes, NEW d \in Nodes,
           NEW w, w = Way(main, u, d),
           NEW j \in 1..Diameter, j = 1 \/ w[j - 1] # d,
           NEW k \in 1..Diameter, k = 1 \/ w[k - 1] # d
    PROVE  /\ w[j] = w[k] => j = k
           /\ w[k] = d => j <= k
           /\ w[k] # d => k < Diameter
<1>1. /\ w[4] = d /\ Route[d][d] = d
      /\ w[2] = Route[w[1]][d] /\ w[3] = Route[w[2]][d] /\ w[4] = Route[w[3]][d]
  <2>1. /\ w[Diameter] = d /\ Route[d][d] = d
        /\ \A i \in 1..Diameter : w[i] = Route[w[i - 1]][d]
    BY WayInNodes
  <2>2. w[4] = d /\ Route[d][d] = d /\ \A i \in 1..4 : w[i] = Route[w[i - 1]][d]
    BY <2>1 DEF Diameter
  <2>3. w[2] = Route[w[2 - 1]][d] /\ w[3] = Route[w[3 - 1]][d] /\ w[4] = Route[w[4 - 1]][d]
    BY <2>2
  <2>4. 2 - 1 = 1 /\ 3 - 1 = 2 /\ 4 - 1 = 3
    OBVIOUS
  <2> QED BY <2>2, <2>3, <2>4, Zenon
<1>2. j \in {1, 2, 3, 4} /\ k \in {1, 2, 3, 4}
  BY DEF Diameter
<1>3. (w[1] = d => w[2] = d) /\ (w[2] = d => w[3] = d)
  BY <1>1
<1>4. /\ w[1] = w[2] => w[1] = d
      /\ w[1] = w[3] => w[2] = d
      /\ w[1] = w[4] => w[3] = d
      /\ w[2] = w[3] => w[2] = d
      /\ w[2] = w[4] => w[3] = d
      /\ w[3] = w[4] => w[3] = d
  BY <1>1, <1>3
<1>5. \A i \in {1, 2, 3, 4} : i # 1 =>
         w[i - 1] = (IF i = 2 THEN w[1] ELSE IF i = 3 THEN w[2] ELSE w[3])
  OBVIOUS
<1>7. w[j] = w[k] => j = k
  BY <1>2, <1>4, <1>5
<1>8. w[k] = d => j <= k
  BY <1>2, <1>3, <1>5
<1>9. w[k] # d => k < Diameter
  <2>1. k = 4 => w[k] = d
    BY <1>1
  <2> QED BY <1>2, <2>1 DEF Diameter
<1> QED BY <1>7, <1>8, <1>9

-----------------------------------------------------------------------------
(* Events.                                                                 *)

LEMMA EventFields ==
    ASSUME NEW t, NEW u, NEW do, NEW a, NEW n, NEW at,
           NEW e, e = Event(t, u, Call(do, a, n, at))
    PROVE  /\ Shaped(e) /\ e.ts = t /\ e.uid = u
           /\ e.call = Call(do, a, n, at)
           /\ e.call.do = do /\ e.call.app = a /\ e.call.n = n /\ e.call.at = at
BY DEF Shaped, Event, Call

(* A scenario does not change while it is simulated.                       *)
LEMMA SameMain ==
    ASSUME main' = main
    PROVE  /\ S' = S /\ Route' = Route /\ Apps' = Apps /\ ClientApps' = ClientApps
           /\ Nodes' = Nodes /\ Edges' = Edges
           /\ \A a : (App(a))' = App(a)
           /\ \A a : (FirstSend(a))' = FirstSend(a)
           /\ \A a : (Listeners(a))' = Listeners(a)
           /\ \A u, v : (LinkOf(u, v))' = LinkOf(u, v)
           /\ \A do, a : (W(do, a))' = W(do, a) /\ (Dst(do, a))' = Dst(do, a)
<1>1. S' = S /\ Route' = Route
  BY DEF S, Route
<1>2. Apps' = Apps /\ \A a : (App(a))' = App(a)
  BY <1>1 DEF Apps, App
<1>3. ClientApps' = ClientApps
  BY <1>2 DEF ClientApps, IsClient
<1>4. Nodes' = Nodes /\ Edges' = Edges
  BY <1>1 DEF Nodes, Edges
<1>5. \A a : (FirstSend(a))' = FirstSend(a)
  BY <1>2 DEF FirstSend
<1>6. \A a : (Listeners(a))' = Listeners(a)
  BY <1>2, <1>3 DEF Listeners, Listens
<1>7. \A u, v : (LinkOf(u, v))' = LinkOf(u, v)
  BY <1>1 DEF LinkOf
<1>8. \A do, a : (Dst(do, a))' = Dst(do, a) /\ (Src(do, a))' = Src(do, a)
  BY <1>2 DEF Dst, Src
<1>9. \A do, a : (W(do, a))' = W(do, a)
  BY <1>8 DEF W
<1> QED BY <1>1, <1>2, <1>3, <1>4, <1>5, <1>6, <1>7, <1>8, <1>9

(* The event that runs is the first; only what main scheduled itself runs  *)
(* at the end of the simulation.                                           *)
LEMMA First ==
    ASSUME Clock, NEW e \in queue, NEW do, Takes(e, do)
    PROVE  /\ now' = e.ts /\ e.ts \in Nat /\ e.uid \in Nat /\ e.call.do = do
           /\ ~halted /\ ~done
           /\ \A f \in queue : f = e \/ Sooner(e, f)
           /\ do \notin Plains => e.ts < S.end /\ e.uid >= 3 /\ ~Booting
<1>1. now' = e.ts /\ e.call.do = do /\ ~halted /\ ~done /\ Runs(e, queue)
  BY DEF Takes
<1>2. /\ e.ts \in Nat /\ e.uid \in Nat
      /\ \A f \in queue : f.ts \in Nat /\ f.uid \in Nat
      /\ \A f, g \in queue : f.uid = g.uid => f = g
      /\ \A f \in queue : Known(f)
  BY DEF Clock, Events
<1>3. \A f \in queue : f = e \/ Sooner(e, f)
  BY <1>1, <1>2 DEF Runs, Before, Sooner
<1>4. ASSUME do \notin Plains
      PROVE  e.ts < S.end /\ e.uid >= 3 /\ ~Booting
  <2>1. PICK f \in queue : f.call.do = "Stop"
    BY <1>1 DEF Clock, Pendings
  <2>2. f.ts = S.end /\ f.uid = 2
    BY <1>2, <2>1 DEF Known
  <2>3. e.uid >= 3
    BY <1>1, <1>2, <1>4 DEF Known
  <2>4. ~Booting
    BY <1>1, <1>4 DEF Clock, Pendings
  <2>5. e.ts < f.ts
    BY <1>2, <1>3, <2>1, <2>2, <2>3 DEF Sooner
  <2> QED BY <2>2, <2>3, <2>4, <2>5
<1> QED BY <1>1, <1>2, <1>3, <1>4

LEMMA StillKnown ==
    ASSUME main' = main, NEW f, Known(f),
           started \subseteq started', sent \in [Apps -> Nat], sent' \in [Apps -> Nat],
           \A a \in Apps : sent[a] <= sent'[a],
           f.call.do = "Start" => f.call.app \notin started',
           f.call.do = "Send" => sent'[f.call.app] = sent[f.call.app]
    PROVE  Known(f)'
<1>1. /\ S' = S /\ Apps' = Apps /\ ClientApps' = ClientApps /\ Nodes' = Nodes
      /\ \A a : (App(a))' = App(a) /\ (FirstSend(a))' = FirstSend(a)
  BY SameMain
<1>2. f.call.do = "Send" => (NextSend(f.call.app))' = NextSend(f.call.app)
  BY <1>1 DEF NextSend
<1>3. f.call.do \in Flights => f.call.app \in Apps
  BY DEF Known, ClientApps
<1>4. f.call.do \in Flights => f.call.n \in 1..sent'[f.call.app]
  BY <1>3 DEF Known
<1> QED BY <1>1, <1>2, <1>4 DEF Known

(* The event that runs leaves the queue, and the others stay; what it      *)
(* schedules has new numbers.                                              *)
LEMMA EventsStep ==
    ASSUME Clock, NEW e \in queue, NEW do, Takes(e, do), main' = main,
           NEW Add, queue' = (queue \ {e}) \cup Add,
           uid' \in Nat, uid <= uid',
           \A f \in queue : f # e => Known(f)',
           \A f \in Add : /\ Shaped(f) /\ Known(f)'
                          /\ f.ts \in Nat /\ e.ts <= f.ts
                          /\ f.uid \in Nat /\ uid <= f.uid /\ f.uid < uid',
           \A f, g \in Add : f.uid = g.uid => f = g,
           \A f \in Add : f.call.do \in {"Start", "Send"} =>
               \A g \in queue' : Same(f, g) => f = g
    PROVE  Events'
<1>1. /\ \A f \in queue : /\ Shaped(f) /\ f.ts \in Nat /\ f.uid \in Nat /\ f.uid < uid
      /\ \A f, g \in queue : f.uid = g.uid => f = g
      /\ \A f, g \in queue : Same(f, g) /\ f.call.do \in {"Start", "Send"} => f = g
      /\ uid \in Nat
  BY DEF Clock, Events, Basics
<1>2. now' = e.ts /\ e.ts \in Nat /\ \A f \in queue : e.ts <= f.ts
  BY <1>1, First DEF Sooner
<1>3. \A f \in queue' : /\ Shaped(f) /\ Known(f)'
                        /\ f.ts \in Nat /\ e.ts <= f.ts
                        /\ f.uid \in Nat /\ f.uid < uid'
  BY <1>1, <1>2
<1>4. \A f, g \in queue' : f.uid = g.uid => f = g
  BY <1>1
<1>5. \A f, g \in queue' : Same(f, g) /\ f.call.do \in {"Start", "Send"} => f = g
  <2> SUFFICES ASSUME NEW f \in queue', NEW g \in queue', Same(f, g),
                      f.call.do \in {"Start", "Send"}
               PROVE  f = g
    OBVIOUS
  <2>1. CASE f \in Add
    BY <2>1
  <2>2. CASE g \in Add
    <3>1. Same(g, f) /\ g.call.do \in {"Start", "Send"}
      BY DEF Same
    <3> QED BY <2>2, <3>1
  <2>3. CASE f \in queue /\ g \in queue
    BY <1>1, <2>3
  <2> QED BY <2>1, <2>2, <2>3
<1> QED BY <1>2, <1>3, <1>4, <1>5 DEF Events, Shaped, Same

(* The numbers Initialize gives to the starts and the stops are distinct.  *)
LEMMA Numbering ==
    ASSUME main \in DOMAIN Mains, NEW a \in Apps
    PROVE  /\ Cardinality(Earlier(a)) \in Nat /\ Cardinality(Apps) \in Nat
           /\ Cardinality(Earlier(a)) < Cardinality(Apps)
           /\ \A b \in Apps : a # b => Cardinality(Earlier(a)) # Cardinality(Earlier(b))
<1>1. IsFiniteSet(Apps) /\ Apps \subseteq Nat /\ \A b \in Apps : App(b).node \in Nat
  BY ScenarioFacts, AppFacts
<1>2. \A b \in Apps : Earlier(b) \subseteq Apps /\ b \notin Earlier(b)
  BY <1>1 DEF Earlier
<1>3. \A b, c \in Apps : b # c => c \in Earlier(b) \/ b \in Earlier(c)
  <2> SUFFICES ASSUME NEW b \in Apps, NEW c \in Apps, b # c
               PROVE  c \in Earlier(b) \/ b \in Earlier(c)
    OBVIOUS
  <2>1. b \in Nat /\ c \in Nat /\ App(b).node \in Nat /\ App(c).node \in Nat
    BY <1>1
  <2>2. b < c \/ c < b
    BY <2>1
  <2>3. App(c).node < App(b).node \/ App(b).node < App(c).node \/ App(b).node = App(c).node
    BY <2>1
  <2> QED BY <2>2, <2>3 DEF Earlier
<1>4. \A b, c \in Apps : c \in Earlier(b) => Earlier(c) \subseteq Earlier(b)
  <2> SUFFICES ASSUME NEW b \in Apps, NEW c \in Apps, c \in Earlier(b), NEW d \in Earlier(c)
               PROVE  d \in Earlier(b)
    OBVIOUS
  <2>1. b \in Nat /\ c \in Nat /\ d \in Nat /\ d \in Apps
    BY <1>1 DEF Earlier
  <2>2. App(b).node \in Nat /\ App(c).node \in Nat /\ App(d).node \in Nat
    BY <1>1, <2>1
  <2>3. App(c).node < App(b).node \/ (App(c).node = App(b).node /\ c < b)
    BY DEF Earlier
  <2>4. App(d).node < App(c).node \/ (App(d).node = App(c).node /\ d < c)
    BY DEF Earlier
  <2>5. App(d).node < App(b).node \/ (App(d).node = App(b).node /\ d < b)
    BY <2>1, <2>2, <2>3, <2>4
  <2> QED BY <2>1, <2>5 DEF Earlier
<1>5. \A b \in Apps : IsFiniteSet(Earlier(b)) /\ Cardinality(Earlier(b)) \in Nat
  BY <1>1, <1>2, FS_Subset, FS_CardinalityType
<1>6. Cardinality(Apps) \in Nat
  BY <1>1, FS_CardinalityType
<1>7. Cardinality(Earlier(a)) < Cardinality(Apps)
  BY <1>1, <1>2, <1>5, <1>6, FS_Subset
<1>8. \A b, c \in Apps : c \in Earlier(b) => Cardinality(Earlier(b)) # Cardinality(Earlier(c))
  BY <1>2, <1>4, <1>5, FS_Subset
<1> QED BY <1>3, <1>5, <1>6, <1>7, <1>8

LEMMA StartNumbers ==
    ASSUME Clock, NEW a \in Apps, NEW b \in Apps
    PROVE  /\ StartUid(a) \in Nat /\ uid <= StartUid(a)
           /\ StartUid(a) + 1 < uid + 2 * Cardinality(Apps)
           /\ StartUid(a) # StartUid(b) + 1
           /\ a # b => StartUid(a) # StartUid(b)
<1>1. uid \in Nat /\ main \in DOMAIN Mains
  BY DEF Clock, Basics
<1> DEFINE i == Cardinality(Earlier(a))
           j == Cardinality(Earlier(b))
           n == Cardinality(Apps)
<1>2. i \in Nat /\ j \in Nat /\ n \in Nat /\ i < n /\ (a # b => i # j)
  BY <1>1, Numbering
<1>3. StartUid(a) = uid + 2 * i /\ StartUid(b) = uid + 2 * j
  BY DEF StartUid
<1>4. uid + 2 * Cardinality(Apps) = uid + 2 * n
  OBVIOUS
<1> HIDE DEF i, j, n
<1> QED BY <1>1, <1>2, <1>3, <1>4

(* What was scheduled and does not run stays scheduled.                    *)
LEMMA Remains ==
    ASSUME NEW e, queue \ {e} \subseteq queue'
    PROVE  /\ \A do, a : Scheduled(do, a) /\ ~(e.call.do = do /\ e.call.app = a) =>
                 Scheduled(do, a)'
           /\ (\E f \in queue : f.call.do = "Stop") /\ e.call.do # "Stop" =>
                 \E f \in queue' : f.call.do = "Stop"
<1>1. \A f \in queue : f # e => f \in queue'
  OBVIOUS
<1>2. ASSUME NEW do, NEW a, Scheduled(do, a), ~(e.call.do = do /\ e.call.app = a)
      PROVE  Scheduled(do, a)'
  <2>1. PICK f \in queue : f.call.do = do /\ f.call.app = a
    BY <1>2 DEF Scheduled
  <2>2. f # e
    BY <1>2, <2>1
  <2> QED BY <1>1, <2>1, <2>2 DEF Scheduled
<1>3. ASSUME NEW f \in queue, f.call.do = "Stop", e.call.do # "Stop"
      PROVE  \E g \in queue' : g.call.do = "Stop"
  BY <1>1, <1>3
<1> QED BY <1>2, <1>3

LEMMA InitClock == Init => Clock
<1> SUFFICES ASSUME Init PROVE Clock
  OBVIOUS
<1>1. main \in DOMAIN Mains /\ S.end \in Nat /\ S.attach \in Nat
  BY ScenarioFacts DEF Init
<1> DEFINE i == Event(0, 0, Call("Initialize", 0, 0, 0))
           s == Event(S.end, 2, Call("Stop", 0, 0, 0))
           t == Event(S.attach, 1, Call("AttachTraces", 0, 0, 0))
<1>2. i \in queue /\ s \in queue /\ queue \subseteq {i, s, t}
  BY DEF Init, Plain
<1>3. /\ Shaped(i) /\ i.ts = 0 /\ i.uid = 0 /\ i.call.do = "Initialize"
      /\ Shaped(s) /\ s.ts = S.end /\ s.uid = 2 /\ s.call.do = "Stop"
      /\ Shaped(t) /\ t.ts = S.attach /\ t.uid = 1 /\ t.call.do = "AttachTraces"
  BY EventFields
<1>4. /\ now = 0 /\ uid = 3 /\ halted = FALSE /\ done = FALSE /\ started = {}
      /\ sent = [a \in Apps |-> 0] /\ arrived = [a \in Apps |-> 0]
      /\ got = [a \in Apps |-> 0] /\ busy = [d \in Edges |-> 0]
  BY DEF Init, Edges, Nodes
<1> HIDE DEF i, s, t
<1>5. Basics
  <2>1. halted \in BOOLEAN /\ done \in BOOLEAN
    BY <1>4
  <2> QED BY <1>1, <1>4, <2>1 DEF Basics
<1>6. Events
  <2>1. \A e \in queue : Known(e)
    BY <1>2, <1>3 DEF Known, Plains, Flights
  <2>2. \A e \in queue : e = i \/ e = s \/ e = t
    BY <1>2
  <2>3. \A e, f \in queue : e.uid = f.uid => e = f
    BY <1>3, <2>2
  <2>4. \A e \in queue : e.call.do \notin {"Start", "Send"}
    BY <1>3, <2>2
  <2>5. \A e \in queue : Shaped(e) /\ e.ts \in Nat /\ now <= e.ts /\ e.uid \in Nat /\ e.uid < uid
    BY <1>1, <1>3, <1>4, <2>2
  <2> QED BY <2>1, <2>3, <2>4, <2>5 DEF Events
<1>7. Pendings
  <2>1. Booting
    BY <1>2, <1>3 DEF Booting
  <2>2. \A e \in queue : e.call.do \in Plains
    BY <1>2, <1>3 DEF Plains
  <2>3. \E e \in queue : e.call.do = "Stop"
    BY <1>2, <1>3
  <2> QED BY <1>4, <2>1, <2>2, <2>3 DEF Pendings, ClientApps
<1> QED BY <1>5, <1>6, <1>7 DEF Clock

LEMMA InitializeClock ==
    ASSUME Clock, NEW e \in queue, Initialize(e)
    PROVE  Clock'
<1> DEFINE at(a) == Event(App(a).start, StartUid(a), Call("Start", a, 0, 0))
           off(a) == Event(App(a).stop, StartUid(a) + 1, Call("StopApplication", a, 0, 0))
           Add == UNION {{at(a), off(a)} : a \in Apps}
<1>1. /\ Takes(e, "Initialize") /\ queue' = (queue \ {e}) \cup Add
      /\ uid' = uid + 2 * Cardinality(Apps)
      /\ UNCHANGED <<main, halted, done, flows, traced, measured>>
  BY DEF Initialize
<1>2. /\ now' = e.ts /\ e.ts = 0 /\ e.uid = 0 /\ e.call.do = "Initialize" /\ ~halted /\ ~done
      /\ main \in DOMAIN Mains /\ uid \in Nat
  <2>1. Known(e) /\ now' = e.ts /\ e.call.do = "Initialize" /\ ~halted /\ ~done
    BY <1>1, First DEF Clock, Events
  <2> QED BY <2>1 DEF Known, Clock, Basics
<1>3. Booting /\ uid = 3 /\ started = {} /\ \A f \in queue : f.call.do \in Plains
  <2>1. Booting
    BY <1>2 DEF Booting
  <2> QED BY <2>1 DEF Clock, Pendings
<1>4. \A a \in Apps : /\ Shaped(at(a)) /\ at(a).ts = App(a).start /\ at(a).uid = StartUid(a)
                      /\ at(a).call.do = "Start" /\ at(a).call.app = a
                      /\ Shaped(off(a)) /\ off(a).ts = App(a).stop
                      /\ off(a).uid = StartUid(a) + 1
                      /\ off(a).call.do = "StopApplication" /\ off(a).call.app = a
  BY EventFields
<1>5. \A f \in Add : \E a \in Apps : f = at(a) \/ f = off(a)
  OBVIOUS
<1>6. \A a \in Apps : at(a) \in Add
  OBVIOUS
<1> HIDE DEF at, off, Add
<1>7. Cardinality(Apps) \in Nat
  BY <1>2, ScenarioFacts, FS_CardinalityType
<1>8. uid' \in Nat /\ uid' >= 3
  BY <1>1, <1>2, <1>3, <1>7
<1>9. /\ started' = started /\ sent' = sent /\ arrived' = arrived /\ got' = got /\ busy' = busy
      /\ main' = main /\ halted' = halted /\ done' = done
  BY <1>1 DEF flows
<1>10. /\ Apps' = Apps /\ ClientApps' = ClientApps /\ Edges' = Edges
       /\ (\A a : (App(a))' = App(a)) /\ S' = S
  BY <1>9, SameMain
<1>11. Basics'
  BY <1>2, <1>8, <1>9, <1>10 DEF Clock, Basics
<1>12. \A f \in Add : /\ Shaped(f) /\ Known(f)' /\ f.ts \in Nat /\ f.uid \in Nat
                      /\ uid <= f.uid /\ f.uid < uid' /\ f.call.do \in {"Start", "StopApplication"}
  <2> SUFFICES ASSUME NEW f \in Add
               PROVE  /\ Shaped(f) /\ Known(f)' /\ f.ts \in Nat /\ f.uid \in Nat
                      /\ uid <= f.uid /\ f.uid < uid' /\ f.call.do \in {"Start", "StopApplication"}
    OBVIOUS
  <2>1. PICK a \in Apps : f = at(a) \/ f = off(a)
    BY <1>5
  <2>2. App(a).start \in Nat /\ App(a).stop \in Nat
    BY <1>2, AppFacts
  <2>3. StartUid(a) \in Nat /\ uid <= StartUid(a) /\ StartUid(a) + 1 < uid'
    BY <1>1, StartNumbers
  <2>4. /\ Shaped(f) /\ f.ts \in Nat /\ f.uid \in Nat /\ uid <= f.uid /\ f.uid < uid'
        /\ f.call.do \in {"Start", "StopApplication"} /\ f.call.app = a
        /\ f.call.do = "Start" => f.ts = App(a).start
    BY <1>2, <1>4, <1>8, <2>1, <2>2, <2>3
  <2>5. Known(f)'
    BY <1>3, <1>9, <1>10, <2>4 DEF Known, Plains, Flights
  <2> QED BY <2>4, <2>5
<1>13. \A f, g \in Add : f.uid = g.uid => f = g
  BY <1>4, <1>5, StartNumbers
<1>14. Events'
  <2>1. \A f \in queue : f # e => Known(f)'
    <3>1. \A a \in Apps : sent[a] <= sent'[a]
      BY <1>9 DEF Clock, Basics
    <3>2. \A f \in queue : Known(f) /\ f.call.do \notin {"Start", "Send"}
      BY <1>3 DEF Plains, Clock, Events
    <3> QED BY <1>9, <3>1, <3>2, StillKnown DEF Clock, Basics
  <2>2. \A f \in Add : f.call.do \in {"Start", "Send"} =>
               \A g \in queue' : Same(f, g) => f = g
    <3> SUFFICES ASSUME NEW f \in Add, f.call.do \in {"Start", "Send"},
                        NEW g \in queue', Same(f, g)
                 PROVE  f = g
      OBVIOUS
    <3>1. g \in Add
      BY <1>1, <1>3 DEF Same, Plains
    <3> QED BY <1>4, <1>5, <3>1 DEF Same
  <2>3. uid <= uid'
    BY <1>1, <1>2, <1>7
  <2>4. \A f \in Add : /\ Shaped(f) /\ Known(f)'
                       /\ f.ts \in Nat /\ e.ts <= f.ts
                       /\ f.uid \in Nat /\ uid <= f.uid /\ f.uid < uid'
    BY <1>2, <1>12
  <2>5. Takes(e, "Initialize") /\ queue' = (queue \ {e}) \cup Add
    BY <1>1
  <2> QED BY <1>8, <1>9, <1>13, <2>1, <2>2, <2>3, <2>4, <2>5, EventsStep
<1>15. Pendings'
  <2>1. ~Booting'
    <3>1. \A f \in queue : f.call.do = "Initialize" => f = e
      BY <1>2 DEF Known, Clock, Events
    <3>2. \A f \in queue' : f.call.do # "Initialize"
      BY <1>1, <1>12, <3>1
    <3> QED BY <3>2 DEF Booting
  <2>2. \A a \in Apps : Scheduled("Start", a)'
    BY <1>1, <1>4, <1>6 DEF Scheduled
  <2>3. \E f \in queue' : f.call.do = "Stop"
    BY <1>1, <1>2, Remains DEF Clock, Pendings
  <2> QED BY <1>2, <1>3, <1>9, <1>10, <2>1, <2>2, <2>3 DEF Clock, Pendings
<1> QED BY <1>11, <1>14, <1>15 DEF Clock

-----------------------------------------------------------------------------
(* Transmission.                                                           *)

(* The arrival of a datagram at the next hop, once it is transmitted.      *)
Sent(do, a, n, at, dst) ==
    LET v == Route[at][dst]
    IN Event(busy'[<<at, v>>] + LinkOf(at, v).delay, uid, Call(do, a, n, v))

(* What is known of it then.                                               *)
Arrives(x, all, do, a, n, at, dst, v, d) ==
    /\ queue' = all
    /\ Shaped(x) /\ x.uid = uid /\ x.ts \in Nat /\ now' <= x.ts
    /\ at # dst => now' < x.ts
    /\ x.ts = busy'[d] + LinkOf(at, v).delay
    /\ x.call.do = do /\ x.call.app = a /\ x.call.n = n /\ x.call.at = v
    /\ v \in Nodes /\ d \in Edges
    /\ busy' \in [Edges -> Nat]
    /\ busy[d] <= busy'[d]
    /\ \A k \in Edges : k # d => busy'[k] = busy[k]

(* What Transmit does, in terms of the event it schedules.                 *)
LEMMA Transmission ==
    ASSUME main \in DOMAIN Mains, main' = main, now' \in Nat, busy \in [Edges -> Nat],
           NEW rest, NEW do, NEW a, NEW n, NEW at0, NEW c, c = Call(do, a, n, at0),
           NEW at \in Nodes, NEW dst \in Nodes,
           Transmit(rest, c, at, dst),
           NEW v, v = Route[at][dst], NEW d, d = <<at, v>>,
           NEW x, x = Sent(do, a, n, at, dst), NEW all, all = rest \cup {x}
    PROVE  Arrives(x, all, do, a, n, at, dst, v, d)
<1> DEFINE l == LinkOf(at, v)
           ends == Begins(at, v) + l.tx
<1>1. /\ v \in Nodes /\ d \in Edges /\ l.tx \in Nat /\ l.delay \in Nat
      /\ at # dst => l.tx >= 1
  BY HopFacts
<1>2. busy[d] \in Nat /\ Begins(at, v) = IF busy[d] > now' THEN busy[d] ELSE now'
  BY <1>1 DEF Begins
<1>3. /\ queue' = rest \cup {Event(ends + l.delay, uid, [c EXCEPT !.at = v])}
      /\ busy' = [busy EXCEPT ![d] = ends]
  BY DEF Transmit
<1> HIDE DEF l, ends
<1>4. ends \in Nat /\ busy[d] <= ends /\ now' <= ends /\ (at # dst => now' < ends)
  BY <1>1, <1>2 DEF ends
<1>5. /\ busy' \in [Edges -> Nat] /\ busy'[d] = ends
      /\ \A k \in Edges : k # d => busy'[k] = busy[k]
  BY <1>1, <1>3, <1>4
<1>6. [c EXCEPT !.at = v] = Call(do, a, n, v)
  BY DEF Call
<1>7. x = Event(ends + l.delay, uid, Call(do, a, n, v))
  BY <1>5 DEF Sent, l
<1>8. /\ Shaped(x) /\ x.uid = uid /\ x.ts = ends + l.delay
      /\ x.call.do = do /\ x.call.app = a /\ x.call.n = n /\ x.call.at = v
  BY <1>7, EventFields
<1>9. x.ts \in Nat /\ now' <= x.ts /\ (at # dst => now' < x.ts)
  BY <1>1, <1>4, <1>8
<1>10. queue' = all
  BY <1>3, <1>6, <1>7
<1> QED BY <1>1, <1>4, <1>5, <1>8, <1>9, <1>10 DEF l, Arrives

(* A call is what its fields say, also when its kind changes.              *)
LEMMA OtherCall ==
    ASSUME NEW e, Shaped(e)
    PROVE  /\ e.call = Call(e.call.do, e.call.app, e.call.n, e.call.at)
           /\ \A do : [e.call EXCEPT !.do = do] = Call(do, e.call.app, e.call.n, e.call.at)
<1>1. e.call = Call(e.call.do, e.call.app, e.call.n, e.call.at)
  BY EventFields DEF Shaped
<1>2. ASSUME NEW do
      PROVE  [e.call EXCEPT !.do = do] = Call(do, e.call.app, e.call.n, e.call.at)
  <2>1. \A d, a, n, at : [Call(d, a, n, at) EXCEPT !.do = do] = Call(do, a, n, at)
    BY DEF Call
  <2> QED BY <1>1, <2>1
<1> QED BY <1>1, <1>2

(* Steps of the network: a datagram leaves the queue, and at most one comes*)
(* into it.                                                                *)
LEMMA FlightClock ==
    ASSUME Clock, NEW e \in queue, NEW do \in Flights, Takes(e, do),
           main' = main, halted' = halted, done' = done, started' = started, sent' = sent,
           NEW Add, queue' = (queue \ {e}) \cup Add,
           uid' \in Nat, uid <= uid',
           \A f \in Add : /\ Shaped(f) /\ f.call.do \in Flights
                          /\ f.call.app \in ClientApps /\ f.call.n \in 1..sent[f.call.app]
                          /\ f.call.at \in Nodes /\ f.ts \in Nat /\ e.ts <= f.ts
                          /\ f.uid = uid /\ f.uid < uid',
           \A f, g \in Add : f = g,
           busy' \in [Edges -> Nat], arrived' \in [Apps -> Nat], got' \in [Apps -> Nat]
    PROVE  Clock'
<1>1. /\ now' = e.ts /\ e.ts \in Nat /\ e.call.do = do /\ ~halted /\ ~done
      /\ ~Booting /\ uid \in Nat /\ uid >= 3
  BY First DEF Flights, Plains, Clock, Basics
<1>2. main' = main /\ halted' = halted /\ done' = done /\ started' = started /\ sent' = sent
  OBVIOUS
<1>3. /\ Apps' = Apps /\ ClientApps' = ClientApps /\ Edges' = Edges /\ S' = S
      /\ (\A a : (App(a))' = App(a)) /\ Nodes' = Nodes
  BY <1>2, SameMain
<1>4. Basics'
  BY <1>1, <1>2, <1>3 DEF Clock, Basics
<1>5. Events'
  <2>1. \A f \in queue : f # e => Known(f)'
    <3>1. \A a \in Apps : sent[a] <= sent'[a]
      BY <1>2 DEF Clock, Basics
    <3>2. \A f \in queue : Known(f) /\ (f.call.do = "Start" => f.call.app \notin started)
      BY DEF Clock, Events, Known
    <3> QED BY <1>2, <3>1, <3>2, StillKnown DEF Clock, Basics
  <2>2. \A f \in Add : Known(f)'
    BY <1>1, <1>2, <1>3 DEF Known, Flights, Plains
  <2>3. \A f \in Add : /\ Shaped(f) /\ Known(f)'
                       /\ f.ts \in Nat /\ e.ts <= f.ts
                       /\ f.uid \in Nat /\ uid <= f.uid /\ f.uid < uid'
    BY <1>1, <2>2
  <2>4. \A f \in Add : f.call.do \in {"Start", "Send"} => \A g \in queue' : Same(f, g) => f = g
    BY DEF Flights
  <2> QED BY <1>2, <2>1, <2>3, <2>4, EventsStep
<1>6. Pendings'
  <2>1. e.call.do \notin {"Start", "Send", "Stop"}
    BY <1>1 DEF Flights
  <2>2. ~Booting'
    BY <1>1 DEF Booting, Flights
  <2>3. /\ \A d, a : d \in {"Start", "Send"} /\ Scheduled(d, a) => Scheduled(d, a)'
        /\ (\E f \in queue : f.call.do = "Stop") => \E f \in queue' : f.call.do = "Stop"
    BY <2>1, Remains
  <2> QED BY <1>1, <1>2, <1>3, <2>2, <2>3 DEF Clock, Pendings
<1> QED BY <1>4, <1>5, <1>6 DEF Clock

-----------------------------------------------------------------------------
(* What each step of the applications and of the network does to the queue.*)

LEMMA AppInScenario ==
    ASSUME main \in DOMAIN Mains, NEW a \in ClientApps
    PROVE  /\ a \in Apps /\ App(a).node \in Nodes /\ App(a).addr \in Nodes
           /\ \A do : Src(do, a) \in Nodes /\ Dst(do, a) \in Nodes
<1>1. a \in Apps
  BY DEF ClientApps
<1>2. App(a).node \in Nodes /\ App(a).addr \in Nodes
  BY <1>1, ScenarioFacts
<1> QED BY <1>1, <1>2 DEF Src, Dst

LEMMA StartMeans ==
    ASSUME Clock, NEW e \in queue, Start(e), NEW a, a = e.call.app
    PROVE  /\ Takes(e, "Start") /\ a \in Apps \ started /\ started' = started \cup {a}
           /\ e.ts = App(a).start
           /\ uid' = uid + 1
           /\ queue' = (queue \ {e}) \cup
                 (IF a \in ClientApps
                  THEN {Event(FirstSend(a), uid, Call("Send", a, 0, 0))} ELSE {})
           /\ main' = main /\ halted' = halted /\ done' = done /\ sent' = sent
           /\ arrived' = arrived /\ got' = got /\ busy' = busy
           /\ traced' = traced /\ measured' = measured
<1>1. Takes(e, "Start") /\ e.call.do = "Start" /\ Known(e)
  BY First DEF Start, Clock, Events
<1>2. a \in Apps \ started /\ e.ts = App(a).start
  BY <1>1 DEF Known
<1>3. IsClient(a) <=> a \in ClientApps
  BY <1>2 DEF ClientApps
<1> QED BY <1>1, <1>2, <1>3 DEF Start

(* The next sending of the client whose sending runs.                      *)
Again(e) == Event(e.ts + App(e.call.app).interval, uid + 1, e.call)

LEMMA SendMeans ==
    ASSUME Clock, NEW e \in queue, Send(e), NEW a, a = e.call.app
    PROVE  /\ Takes(e, "Send") /\ a \in ClientApps /\ a \in started
           /\ sent[a] \in Nat /\ sent[a] < App(a).max
           /\ e.ts = NextSend(a)
           /\ sent' = [sent EXCEPT ![a] = sent[a] + 1]
           /\ uid' = uid + 2
           /\ Transmit((queue \ {e}) \cup (IF More(a) THEN {Again(e)} ELSE {}),
                       Call("Request", a, sent[a] + 1, 0), App(a).node, App(a).addr)
           /\ main' = main /\ halted' = halted /\ done' = done /\ started' = started
           /\ arrived' = arrived /\ got' = got /\ traced' = traced /\ measured' = measured
<1>1. Takes(e, "Send") /\ e.call.do = "Send" /\ Known(e)
  BY First DEF Send, Clock, Events
<1>2. a \in ClientApps /\ a \in started /\ sent[a] < App(a).max /\ e.ts = NextSend(a)
  BY <1>1 DEF Known
<1>3. sent[a] \in Nat
  BY <1>2 DEF Clock, Basics, ClientApps
<1> QED BY <1>1, <1>2, <1>3 DEF Send, Again

(* A datagram comes to a node.                                             *)
LEMMA ReceivesMeans ==
    ASSUME Clock, NEW e \in queue, NEW do \in Flights, Takes(e, do), NEW a, a = e.call.app
    PROVE  /\ e.call.do = do /\ a \in ClientApps /\ a \in Apps
           /\ e.call.n \in 1..sent[a] /\ e.call.at \in Nodes
           /\ Dst(do, a) \in Nodes /\ App(a).node \in Nodes
           /\ e.call = Call(do, a, e.call.n, e.call.at)
<1>1. e.call.do = do /\ Known(e) /\ Shaped(e) /\ main \in DOMAIN Mains
  BY First DEF Clock, Events, Basics
<1>2. a \in ClientApps /\ e.call.n \in 1..sent[a] /\ e.call.at \in Nodes
  BY <1>1 DEF Known
<1> QED BY <1>1, <1>2, OtherCall, AppInScenario

LEMMA ForwardMeans ==
    ASSUME Clock, NEW e \in queue, ForwardRequest(e) \/ ForwardEcho(e),
           NEW a, a = e.call.app, NEW do, do = e.call.do
    PROVE  /\ do \in Flights /\ Takes(e, do) /\ e.call.at # Dst(do, a)
           /\ Transmit(queue \ {e}, e.call, e.call.at, Dst(do, a))
           /\ uid' = uid + 1 /\ S.errors # "always"
           /\ main' = main /\ halted' = halted /\ done' = done /\ started' = started /\ sent' = sent
           /\ arrived' = arrived /\ got' = got /\ traced' = traced /\ measured' = measured
<1>1. CASE ForwardRequest(e)
  BY <1>1 DEF ForwardRequest, Receives, Dst, Flights
<1>2. CASE ForwardEcho(e)
  BY <1>2 DEF ForwardEcho, Receives, Dst, Flights
<1> QED BY <1>1, <1>2

LEMMA DeliverMeans ==
    ASSUME Clock, NEW e \in queue, Deliver(e), NEW a, a = e.call.app
    PROVE  /\ Takes(e, "Request") /\ e.call.at = App(a).addr
           /\ arrived' = [arrived EXCEPT ![a] = arrived[a] + 1]
           /\ got' = [s \in Apps |-> IF s \in Listeners(a) \cap started
                                     THEN got[s] + 1 ELSE got[s]]
           /\ IF \E s \in Listeners(a) \cap started : Echoes(s)
              THEN Transmit(queue \ {e}, Call("Echo", a, e.call.n, e.call.at),
                            e.call.at, App(a).node)
              ELSE queue' = queue \ {e} /\ busy' = busy
           /\ uid' = uid + 1 /\ S.errors # "always"
           /\ main' = main /\ halted' = halted /\ done' = done /\ started' = started /\ sent' = sent
           /\ traced' = traced /\ measured' = measured
<1>1. Takes(e, "Request")
  BY DEF Deliver, Receives
<1>2. [e.call EXCEPT !.do = "Echo"] = Call("Echo", a, e.call.n, e.call.at)
  BY OtherCall DEF Clock, Events
<1> QED BY <1>1, <1>2 DEF Deliver, Receives

LEMMA HandedOver ==
    ASSUME NEW e, Deliver(e), NEW a, a = e.call.app
    PROVE  /\ Takes(e, "Request") /\ sent' = sent
           /\ arrived' = [arrived EXCEPT ![a] = arrived[a] + 1]
           /\ got' = [s \in Apps |-> IF s \in Listeners(a) \cap started
                                     THEN got[s] + 1 ELSE got[s]]
BY DEF Deliver, Receives

LEMMA AnswerMeans ==
    ASSUME Clock, NEW e \in queue, Answer(e), NEW a, a = e.call.app
    PROVE  /\ Takes(e, "Echo") /\ e.call.at = App(a).node
           /\ got' = [got EXCEPT ![a] = got[a] + 1]
           /\ queue' = queue \ {e}
           /\ uid' = uid + 1 /\ S.errors # "always"
           /\ main' = main /\ halted' = halted /\ done' = done /\ started' = started /\ sent' = sent
           /\ arrived' = arrived /\ busy' = busy /\ traced' = traced /\ measured' = measured
BY DEF Answer, Receives

LEMMA DropMeans ==
    ASSUME Clock, NEW e \in queue, Drop(e), NEW do, do = e.call.do
    PROVE  /\ do \in Flights /\ Takes(e, do) /\ queue' = queue \ {e}
           /\ main' = main /\ uid' = uid /\ halted' = halted /\ done' = done
           /\ started' = started /\ sent' = sent /\ arrived' = arrived /\ got' = got
           /\ busy' = busy /\ traced' = traced /\ measured' = measured
<1>1. PICK d \in {"Request", "Echo"} : Takes(e, d)
  BY DEF Drop
<1>2. d = do
  BY <1>1 DEF Takes
<1> QED BY <1>1, <1>2 DEF Drop, Flights, flows

-----------------------------------------------------------------------------
(* The clock and the queue.                                                *)

LEMMA StartClock ==
    ASSUME Clock, NEW e \in queue, Start(e)
    PROVE  Clock'
<1> DEFINE a == e.call.app
           x == Event(FirstSend(a), uid, Call("Send", a, 0, 0))
           Add == IF a \in ClientApps THEN {x} ELSE {}
<1>1. /\ Takes(e, "Start") /\ a \in Apps \ started /\ started' = started \cup {a}
      /\ e.ts = App(a).start /\ uid' = uid + 1
      /\ queue' = (queue \ {e}) \cup Add
      /\ main' = main /\ halted' = halted /\ done' = done /\ sent' = sent
      /\ arrived' = arrived /\ got' = got /\ busy' = busy
  BY StartMeans
<1>2. /\ Shaped(x) /\ x.ts = FirstSend(a) /\ x.uid = uid
      /\ x.call.do = "Send" /\ x.call.app = a
  BY EventFields
<1>3. a \in ClientApps => x \in Add
  OBVIOUS
<1>4. \A f \in Add : f = x /\ a \in ClientApps
  OBVIOUS
<1>5. e.call.app = a
  OBVIOUS
<1> HIDE DEF a, x, Add
<1>6. /\ now' = e.ts /\ e.ts \in Nat /\ e.call.do = "Start" /\ ~halted /\ ~done /\ ~Booting
      /\ uid \in Nat /\ uid >= 3 /\ main \in DOMAIN Mains /\ sent \in [Apps -> Nat]
  BY <1>1, First DEF Plains, Clock, Basics
<1>7. /\ Apps' = Apps /\ ClientApps' = ClientApps /\ Edges' = Edges /\ S' = S
      /\ (\A b : (App(b))' = App(b) /\ (FirstSend(b))' = FirstSend(b))
  BY <1>1, SameMain
<1>8. Basics'
  BY <1>1, <1>6, <1>7 DEF Clock, Basics
<1>9. App(a).max \in Nat /\ App(a).max >= 1 /\ FirstSend(a) \in Nat /\ App(a).start <= FirstSend(a)
      /\ App(a).interval \in Nat /\ App(a).start \in Nat
  BY <1>1, <1>6, AppFacts
<1>10. sent[a] = 0
  BY <1>1 DEF Clock, Pendings
<1>11. (NextSend(a))' = FirstSend(a)
  <2>1. (NextSend(a))' = (FirstSend(a))' + sent'[a] * (App(a))'.interval
    BY DEF NextSend
  <2>2. (NextSend(a))' = FirstSend(a) + 0 * App(a).interval
    BY <1>1, <1>7, <1>10, <2>1
  <2> QED BY <1>9, <2>2
<1>12. Events'
  <2>1. \A f \in queue : f # e => Known(f)'
    <3>1. \A b \in Apps : sent[b] <= sent'[b]
      BY <1>1, <1>6
    <3>2. \A f \in queue : Known(f)
      BY DEF Clock, Events
    <3>3. \A f \in queue : f # e /\ f.call.do = "Start" => f.call.app \notin started'
      <4>1. \A f \in queue : Same(f, e) /\ f.call.do = "Start" => f = e
        BY DEF Clock, Events
      <4> QED BY <1>1, <1>5, <1>6, <3>2, <4>1 DEF Same, Known
    <3>4. started \subseteq started'
      BY <1>1
    <3> QED BY <1>1, <1>6, <3>1, <3>2, <3>3, <3>4, StillKnown
  <2>2. \A f \in Add : Known(f)'
    <3> SUFFICES ASSUME NEW f \in Add PROVE Known(f)'
      OBVIOUS
    <3>1. /\ a \in ClientApps /\ f.ts = FirstSend(a) /\ f.uid = uid
          /\ f.call.do = "Send" /\ f.call.app = a
      BY <1>2, <1>4
    <3>2. a \in (ClientApps \cap started)' /\ sent'[a] < (App(a))'.max /\ f.ts = (NextSend(a))'
      BY <1>1, <1>7, <1>9, <1>10, <1>11, <3>1
    <3>3. f.call.do \notin Plains /\ f.call.do \notin Flights
      BY <3>1 DEF Plains, Flights
    <3> QED BY <1>6, <3>1, <3>2, <3>3 DEF Known, Plains, Flights
  <2>3. \A f \in Add : /\ Shaped(f) /\ Known(f)'
                       /\ f.ts \in Nat /\ e.ts <= f.ts
                       /\ f.uid \in Nat /\ uid <= f.uid /\ f.uid < uid'
    BY <1>1, <1>2, <1>4, <1>6, <1>9, <2>2
  <2>4. \A f \in Add : f.call.do \in {"Start", "Send"} => \A g \in queue' : Same(f, g) => f = g
    <3>1. \A g \in queue : g.call.do = "Send" => g.call.app \in started
      BY DEF Clock, Events, Known
    <3> QED BY <1>1, <1>2, <1>4, <3>1 DEF Same
  <2>5. \A f, g \in Add : f.uid = g.uid => f = g
    BY <1>4
  <2>6. uid' \in Nat /\ uid <= uid'
    BY <1>1, <1>6
  <2> QED BY <1>1, <2>1, <2>3, <2>4, <2>5, <2>6, EventsStep
<1>13. Pendings'
  <2>1. /\ \A b \in Apps \ started : Scheduled("Start", b)
        /\ \A b \in ClientApps \cap started : sent[b] < App(b).max => Scheduled("Send", b)
        /\ \A b \in Apps \ started : sent[b] = 0
        /\ \E f \in queue : f.call.do = "Stop"
    BY <1>6 DEF Clock, Pendings
  <2>2. ~Booting'
    <3>1. \A f \in queue : f.call.do # "Initialize"
      BY <1>6 DEF Booting
    <3> QED BY <1>1, <1>2, <1>4, <3>1 DEF Booting
  <2>3. \A b \in Apps : b # a /\ Scheduled("Start", b) => Scheduled("Start", b)'
    BY <1>1, <1>5, Remains
  <2>4. \A b \in Apps : Scheduled("Send", b) => Scheduled("Send", b)'
    BY <1>1, <1>6, Remains
  <2>5. a \in ClientApps => Scheduled("Send", a)'
    BY <1>1, <1>2, <1>3 DEF Scheduled
  <2>6. \E f \in queue' : f.call.do = "Stop"
    BY <1>1, <1>6, <2>1, Remains
  <2>7. \A b \in ClientApps' \cap started' : sent'[b] < (App(b))'.max => Scheduled("Send", b)'
    BY <1>1, <1>7, <2>1, <2>4, <2>5 DEF ClientApps
  <2> QED BY <1>1, <1>6, <1>7, <2>1, <2>2, <2>3, <2>6, <2>7 DEF Pendings
<1> QED BY <1>8, <1>12, <1>13 DEF Clock

(* A sending puts a request into the network and schedules the next one.   *)
LEMMA SendAdds ==
    ASSUME Clock, NEW e \in queue, Send(e), NEW a, a = e.call.app,
           NEW x, x = Sent("Request", a, sent[a] + 1, App(a).node, App(a).addr)
    PROVE  /\ queue' = ((queue \ {e}) \cup (IF More(a) THEN {Again(e)} ELSE {})) \cup {x}
           /\ Shaped(x) /\ x.uid = uid /\ x.ts \in Nat /\ e.ts <= x.ts
           /\ x.call.do = "Request" /\ x.call.app = a /\ x.call.n = sent[a] + 1
           /\ x.call.at = Route[App(a).node][App(a).addr] /\ x.call.at \in Nodes
           /\ busy' \in [Edges -> Nat]
           /\ Shaped(Again(e)) /\ Again(e).uid = uid + 1
           /\ Again(e).ts = FirstSend(a) + (sent[a] + 1) * App(a).interval
           /\ Again(e).ts \in Nat /\ e.ts <= Again(e).ts
           /\ Again(e).call.do = "Send" /\ Again(e).call.app = a
<1>1. /\ Takes(e, "Send") /\ a \in ClientApps /\ sent[a] \in Nat /\ e.ts = NextSend(a)
      /\ Transmit((queue \ {e}) \cup (IF More(a) THEN {Again(e)} ELSE {}),
                  Call("Request", a, sent[a] + 1, 0), App(a).node, App(a).addr)
      /\ main' = main
  BY SendMeans
<1>2. /\ now' = e.ts /\ e.ts \in Nat /\ e.call.do = "Send"
      /\ main \in DOMAIN Mains /\ busy \in [Edges -> Nat]
  BY <1>1, First DEF Clock, Basics
<1>3. a \in Apps /\ App(a).node \in Nodes /\ App(a).addr \in Nodes
  BY <1>1, <1>2, AppInScenario
<1>4. /\ FirstSend(a) \in Nat /\ App(a).interval \in Nat
  BY <1>2, <1>3, AppFacts
<1>5. /\ queue' = ((queue \ {e}) \cup (IF More(a) THEN {Again(e)} ELSE {})) \cup {x}
      /\ Shaped(x) /\ x.uid = uid /\ x.ts \in Nat /\ e.ts <= x.ts
      /\ x.call.do = "Request" /\ x.call.app = a /\ x.call.n = sent[a] + 1
      /\ x.call.at = Route[App(a).node][App(a).addr] /\ x.call.at \in Nodes
      /\ busy' \in [Edges -> Nat]
  <2>1. PICK rest, n, c, at, dst, v, d, all :
             /\ rest = (queue \ {e}) \cup (IF More(a) THEN {Again(e)} ELSE {})
             /\ n = sent[a] + 1 /\ c = Call("Request", a, n, 0)
             /\ at = App(a).node /\ dst = App(a).addr
             /\ v = Route[at][dst] /\ d = <<at, v>> /\ all = rest \cup {x}
    OBVIOUS
  <2>2. Transmit(rest, c, at, dst) /\ x = Sent("Request", a, n, at, dst)
    BY <1>1, <2>1 DEF Transmit, Begins, Sent
  <2>3. Arrives(x, all, "Request", a, n, at, dst, v, d)
    <3>1. /\ main \in DOMAIN Mains /\ main' = main /\ now' \in Nat /\ busy \in [Edges -> Nat]
          /\ at \in Nodes /\ dst \in Nodes /\ c = Call("Request", a, n, 0)
          /\ v = Route[at][dst] /\ d = <<at, v>> /\ all = rest \cup {x}
      BY <1>1, <1>2, <1>3, <2>1
    <3> QED BY ONLY <2>2, <3>1, Transmission
  <2>4. queue' = all
    BY <2>3 DEF Arrives
  <2>5. /\ Shaped(x) /\ x.uid = uid /\ x.ts \in Nat /\ now' <= x.ts
        /\ x.call.do = "Request" /\ x.call.app = a /\ x.call.n = n
        /\ x.call.at = v /\ v \in Nodes /\ busy' \in [Edges -> Nat]
    BY ONLY <2>3 DEF Arrives
  <2> QED BY <1>2, <2>1, <2>4, <2>5
<1>6. Again(e) = Event(e.ts + App(a).interval, uid + 1,
                       Call("Send", a, e.call.n, e.call.at))
  BY <1>2, OtherCall DEF Again, Clock, Events
<1>7. /\ Shaped(Again(e)) /\ Again(e).uid = uid + 1 /\ Again(e).ts = e.ts + App(a).interval
      /\ Again(e).call.do = "Send" /\ Again(e).call.app = a
  BY <1>6, EventFields
<1>8. e.ts + App(a).interval = FirstSend(a) + (sent[a] + 1) * App(a).interval
  <2>1. (sent[a] + 1) * App(a).interval = sent[a] * App(a).interval + App(a).interval
    BY <1>1, <1>4
  <2>2. sent[a] * App(a).interval \in Nat
    BY <1>1, <1>4
  <2> QED BY <1>1, <1>4, <2>1, <2>2 DEF NextSend
<1>9. e.ts + App(a).interval \in Nat /\ e.ts <= e.ts + App(a).interval
  BY <1>2, <1>4
<1> QED BY <1>5, <1>7, <1>8, <1>9

LEMMA SendClock ==
    ASSUME Clock, NEW e \in queue, Send(e)
    PROVE  Clock'
<1> DEFINE a == e.call.app
<1>1. PICK x : x = Sent("Request", a, sent[a] + 1, App(a).node, App(a).addr)
  OBVIOUS
<1>2. PICK y : y = Again(e)
  OBVIOUS
<1> DEFINE Add == (IF More(a) THEN {y} ELSE {}) \cup {x}
<1>3. /\ Takes(e, "Send") /\ a \in ClientApps /\ a \in started
      /\ sent[a] \in Nat /\ sent[a] < App(a).max /\ e.ts = NextSend(a)
      /\ sent' = [sent EXCEPT ![a] = sent[a] + 1] /\ uid' = uid + 2
      /\ main' = main /\ halted' = halted /\ done' = done /\ started' = started
      /\ arrived' = arrived /\ got' = got
  BY SendMeans
<1>4. /\ queue' = (queue \ {e}) \cup Add
      /\ Shaped(x) /\ x.uid = uid /\ x.ts \in Nat /\ e.ts <= x.ts
      /\ x.call.do = "Request" /\ x.call.app = a /\ x.call.n = sent[a] + 1
      /\ x.call.at \in Nodes
      /\ busy' \in [Edges -> Nat]
      /\ Shaped(y) /\ y.uid = uid + 1
      /\ y.ts = FirstSend(a) + (sent[a] + 1) * App(a).interval
      /\ y.ts \in Nat /\ e.ts <= y.ts
      /\ y.call.do = "Send" /\ y.call.app = a
  BY <1>1, <1>2, SendAdds
<1>5. x \in Add /\ (More(a) => y \in Add) /\ \A f \in Add : f = x \/ (f = y /\ More(a))
  OBVIOUS
<1>6. e.call.app = a
  OBVIOUS
<1> HIDE DEF a, Add
<1>7. /\ now' = e.ts /\ e.ts \in Nat /\ e.call.do = "Send" /\ ~halted /\ ~done /\ ~Booting
      /\ uid \in Nat /\ uid >= 3 /\ main \in DOMAIN Mains /\ sent \in [Apps -> Nat]
      /\ a \in Apps
  BY <1>3, First DEF Plains, Clock, Basics, ClientApps
<1>8. /\ Apps' = Apps /\ ClientApps' = ClientApps /\ Edges' = Edges /\ S' = S /\ Nodes' = Nodes
      /\ (\A b : (App(b))' = App(b) /\ (FirstSend(b))' = FirstSend(b))
  BY <1>3, SameMain
<1>9. /\ sent' \in [Apps -> Nat] /\ sent'[a] = sent[a] + 1
      /\ \A b \in Apps : b # a => sent'[b] = sent[b]
  BY <1>3, <1>7
<1>10. Basics'
  BY <1>3, <1>4, <1>7, <1>8, <1>9 DEF Clock, Basics
<1>11. More(a) <=> sent'[a] < App(a).max
  BY <1>9 DEF More
<1>12. Events'
  <2>1. \A f \in queue : f # e => Known(f)'
    <3>1. \A b \in Apps : sent[b] <= sent'[b]
      BY <1>3, <1>7, <1>9
    <3>2. \A f \in queue : /\ Known(f)
                           /\ f.call.do = "Start" => f.call.app \notin started
                           /\ f.call.do = "Send" => f.call.app \in Apps
      BY DEF Clock, Events, Known, ClientApps
    <3>3. \A f \in queue : f # e /\ f.call.do = "Send" => sent'[f.call.app] = sent[f.call.app]
      <4>1. \A f \in queue : Same(f, e) /\ f.call.do = "Send" => f = e
        BY DEF Clock, Events
      <4> QED BY <1>6, <1>7, <1>9, <3>2, <4>1 DEF Same
    <3> QED BY <1>3, <1>7, <1>9, <3>1, <3>2, <3>3, StillKnown
  <2>2. \A f \in Add : Known(f)'
    <3>1. Known(x)'
      <4>1. x.call.n \in 1..sent'[a] /\ x.call.do \notin Plains /\ x.call.do \in Flights
        BY <1>3, <1>4, <1>9 DEF Plains, Flights
      <4> QED BY <1>3, <1>4, <1>7, <1>8, <4>1 DEF Known, Plains, Flights
    <3>2. More(a) => Known(y)'
      <4>1. y.ts = (NextSend(a))'
        BY <1>4, <1>8, <1>9 DEF NextSend
      <4>2. y.call.do \notin Plains /\ y.call.do \notin Flights
        BY <1>4 DEF Plains, Flights
      <4> QED BY <1>3, <1>4, <1>7, <1>8, <1>11, <4>1, <4>2 DEF Known, Plains, Flights
    <3> QED BY <1>5, <3>1, <3>2
  <2>3. \A f \in Add : /\ Shaped(f) /\ Known(f)'
                       /\ f.ts \in Nat /\ e.ts <= f.ts
                       /\ f.uid \in Nat /\ uid <= f.uid /\ f.uid < uid'
    BY <1>3, <1>4, <1>5, <1>7, <2>2
  <2>4. \A f \in Add : f.call.do \in {"Start", "Send"} => \A g \in queue' : Same(f, g) => f = g
    <3>1. \A g \in queue : Same(g, e) /\ g.call.do = "Send" => g = e
      BY DEF Clock, Events
    <3> QED BY <1>4, <1>5, <1>6, <1>7, <3>1 DEF Same
  <2>5. \A f, g \in Add : f.uid = g.uid => f = g
    BY <1>4, <1>5, <1>7
  <2>6. uid' \in Nat /\ uid <= uid'
    BY <1>3, <1>7
  <2> QED BY <1>3, <1>4, <2>1, <2>3, <2>4, <2>5, <2>6, EventsStep
<1>13. Pendings'
  <2>1. /\ \A b \in Apps \ started : Scheduled("Start", b)
        /\ \A b \in ClientApps \cap started : sent[b] < App(b).max => Scheduled("Send", b)
        /\ \A b \in Apps \ started : sent[b] = 0
        /\ \E f \in queue : f.call.do = "Stop"
    BY <1>7 DEF Clock, Pendings
  <2>2. ~Booting'
    <3>1. \A f \in queue : f.call.do # "Initialize"
      BY <1>7 DEF Booting
    <3> QED BY <1>4, <1>5, <3>1 DEF Booting
  <2>3. \A b \in Apps : Scheduled("Start", b) => Scheduled("Start", b)'
    BY <1>4, <1>7, Remains
  <2>4. \A b \in Apps : b # a /\ Scheduled("Send", b) => Scheduled("Send", b)'
    BY <1>4, <1>6, Remains
  <2>5. More(a) => Scheduled("Send", a)'
    BY <1>4, <1>5 DEF Scheduled
  <2>6. \E f \in queue' : f.call.do = "Stop"
    BY <1>4, <1>7, <2>1, Remains
  <2>7. \A b \in ClientApps' \cap started' : sent'[b] < (App(b))'.max => Scheduled("Send", b)'
    BY <1>3, <1>8, <1>9, <1>11, <2>1, <2>4, <2>5 DEF ClientApps
  <2>8. \A b \in Apps' \ started' : sent'[b] = 0
    BY <1>3, <1>8, <1>9, <2>1
  <2> QED BY <1>3, <1>7, <1>8, <2>1, <2>2, <2>3, <2>6, <2>7, <2>8 DEF Pendings
<1> QED BY <1>10, <1>12, <1>13 DEF Clock

LEMMA ForwardClock ==
    ASSUME Clock, NEW e \in queue, ForwardRequest(e) \/ ForwardEcho(e)
    PROVE  Clock'
<1>1. PICK a, do, x : /\ a = e.call.app /\ do = e.call.do
                      /\ x = Sent(do, a, e.call.n, e.call.at, Dst(do, a))
  OBVIOUS
<1>2. /\ do \in Flights /\ Takes(e, do)
      /\ Transmit(queue \ {e}, e.call, e.call.at, Dst(do, a))
      /\ uid' = uid + 1
      /\ main' = main /\ halted' = halted /\ done' = done /\ started' = started /\ sent' = sent
      /\ arrived' = arrived /\ got' = got
  BY <1>1, ForwardMeans
<1>3. /\ a \in ClientApps /\ e.call.n \in 1..sent[a] /\ e.call.at \in Nodes
      /\ Dst(do, a) \in Nodes /\ e.call = Call(do, a, e.call.n, e.call.at)
  BY <1>1, <1>2, ReceivesMeans
<1>4. /\ now' = e.ts /\ e.ts \in Nat /\ uid \in Nat
      /\ main \in DOMAIN Mains /\ busy \in [Edges -> Nat]
      /\ arrived \in [Apps -> Nat] /\ got \in [Apps -> Nat]
  BY <1>2, First DEF Clock, Basics
<1> DEFINE Add == {x}
<1>5. /\ queue' = (queue \ {e}) \cup {x}
      /\ Shaped(x) /\ x.uid = uid /\ x.ts \in Nat /\ e.ts <= x.ts
      /\ x.call.do = do /\ x.call.app = a /\ x.call.n = e.call.n /\ x.call.at \in Nodes
      /\ busy' \in [Edges -> Nat]
  <2>1. PICK rest, at, dst, v, d, all : /\ rest = queue \ {e} /\ at = e.call.at /\ dst = Dst(do, a)
                                /\ v = Route[at][dst] /\ d = <<at, v>> /\ all = rest \cup {x}
    OBVIOUS
  <2>2. /\ Transmit(rest, e.call, at, dst)
        /\ x = Sent(do, a, e.call.n, at, dst)
    BY <1>1, <1>2, <2>1 DEF Transmit, Begins, Sent
  <2>3. Arrives(x, all, do, a, e.call.n, at, dst, v, d)
    BY <1>1, <1>2, <1>3, <1>4, <2>1, <2>2, Transmission
  <2>4. queue' = all
    BY <2>3 DEF Arrives
  <2>5. /\ Shaped(x) /\ x.uid = uid /\ x.ts \in Nat /\ now' <= x.ts
        /\ x.call.do = do /\ x.call.app = a /\ x.call.n = e.call.n
        /\ x.call.at = v /\ v \in Nodes /\ busy' \in [Edges -> Nat]
    BY ONLY <2>3 DEF Arrives
  <2> QED BY <1>4, <2>1, <2>4, <2>5
<1>6. Apps' = Apps
  BY <1>2, SameMain
<1>7. \A f \in Add : /\ Shaped(f) /\ f.call.do \in Flights
                     /\ f.call.app \in ClientApps /\ f.call.n \in 1..sent[f.call.app]
                     /\ f.call.at \in Nodes /\ f.ts \in Nat /\ e.ts <= f.ts
                     /\ f.uid = uid /\ f.uid < uid'
  BY <1>2, <1>3, <1>4, <1>5
<1>8. uid' \in Nat /\ uid <= uid'
  BY <1>2, <1>4
<1>9. arrived' \in [Apps -> Nat] /\ got' \in [Apps -> Nat]
  BY <1>2, <1>4
<1>10. queue' = (queue \ {e}) \cup Add /\ \A f, g \in Add : f = g
  BY <1>5
<1> HIDE DEF Add
<1> QED BY <1>2, <1>5, <1>7, <1>8, <1>9, <1>10, FlightClock

LEMMA DeliverClock ==
    ASSUME Clock, NEW e \in queue, Deliver(e)
    PROVE  Clock'
<1>1. PICK a, x : /\ a = e.call.app
                  /\ x = Sent("Echo", a, e.call.n, e.call.at, App(a).node)
  OBVIOUS
<1> DEFINE echoes == \E s \in Listeners(a) \cap started : Echoes(s)
           Add == IF echoes THEN {x} ELSE {}
<1>2. /\ Takes(e, "Request") /\ uid' = uid + 1
      /\ arrived' = [arrived EXCEPT ![a] = arrived[a] + 1]
      /\ got' = [s \in Apps |-> IF s \in Listeners(a) \cap started THEN got[s] + 1 ELSE got[s]]
      /\ main' = main /\ halted' = halted /\ done' = done /\ started' = started /\ sent' = sent
      /\ IF echoes
         THEN Transmit(queue \ {e}, Call("Echo", a, e.call.n, e.call.at),
                       e.call.at, App(a).node)
         ELSE queue' = queue \ {e} /\ busy' = busy
  BY <1>1, DeliverMeans
<1> HIDE DEF echoes
<1>3. /\ a \in ClientApps /\ a \in Apps /\ e.call.n \in 1..sent[a] /\ e.call.at \in Nodes
      /\ App(a).node \in Nodes
  BY <1>1, <1>2, ReceivesMeans DEF Flights
<1>4. /\ now' = e.ts /\ e.ts \in Nat /\ uid \in Nat
      /\ main \in DOMAIN Mains /\ busy \in [Edges -> Nat]
      /\ arrived \in [Apps -> Nat] /\ got \in [Apps -> Nat]
  BY <1>2, First DEF Clock, Basics
<1>5. arrived' \in [Apps -> Nat] /\ got' \in [Apps -> Nat]
  BY <1>2, <1>3, <1>4
<1>6. uid' \in Nat /\ uid <= uid' /\ uid < uid'
  BY <1>2, <1>4
<1>7. /\ queue' = (queue \ {e}) \cup Add
      /\ \A f \in Add : /\ Shaped(f) /\ f.call.do \in Flights
                         /\ f.call.app \in ClientApps /\ f.call.n \in 1..sent[f.call.app]
                         /\ f.call.at \in Nodes /\ f.ts \in Nat /\ e.ts <= f.ts
                         /\ f.uid = uid /\ f.uid < uid'
      /\ busy' \in [Edges -> Nat]
  <2>1. CASE echoes
    <3>1. PICK rest, dst, at, c, v, d, all :
             /\ rest = queue \ {e} /\ dst = App(a).node /\ at = e.call.at
             /\ c = Call("Echo", a, e.call.n, at) /\ v = Route[at][dst]
             /\ d = <<at, v>> /\ all = rest \cup {x}
      OBVIOUS
    <3>2. Transmit(rest, c, at, dst) /\ x = Sent("Echo", a, e.call.n, at, dst)
      BY <1>1, <1>2, <2>1, <3>1 DEF Transmit, Begins, Sent
    <3>3. Arrives(x, all, "Echo", a, e.call.n, at, dst, v, d)
      BY <1>1, <1>2, <1>3, <1>4, <3>1, <3>2, Transmission
    <3>4. queue' = all
      BY <3>3 DEF Arrives
    <3>5. /\ Shaped(x) /\ x.uid = uid /\ x.ts \in Nat /\ now' <= x.ts
          /\ x.call.do = "Echo" /\ x.call.app = a /\ x.call.n = e.call.n
          /\ x.call.at = v /\ v \in Nodes /\ busy' \in [Edges -> Nat]
      BY ONLY <3>3 DEF Arrives
    <3> QED BY <1>3, <1>4, <1>6, <2>1, <3>1, <3>4, <3>5 DEF Flights
  <2>2. CASE ~echoes
    BY <1>2, <1>4, <2>2
  <2> QED BY <2>1, <2>2
<1>8. \A f, g \in Add : f = g
  OBVIOUS
<1> HIDE DEF Add
<1> QED BY <1>2, <1>5, <1>6, <1>7, <1>8, FlightClock DEF Flights

LEMMA LeaveClock ==
    ASSUME Clock, NEW e \in queue, Answer(e) \/ Drop(e)
    PROVE  Clock'
<1>1. PICK a, do : a = e.call.app /\ do = e.call.do
  OBVIOUS
<1> DEFINE Add == {}
<1>2. /\ do \in Flights /\ Takes(e, do) /\ queue' = (queue \ {e}) \cup Add
      /\ main' = main /\ halted' = halted /\ done' = done /\ started' = started /\ sent' = sent
      /\ arrived' = arrived /\ busy' = busy
      /\ uid' = uid + 1 \/ uid' = uid
      /\ got' = got \/ got' = [got EXCEPT ![a] = got[a] + 1]
  <2>1. CASE Answer(e)
    <3>1. Takes(e, "Echo") /\ do = "Echo"
      BY <1>1, <2>1, AnswerMeans DEF Takes
    <3> QED BY <1>1, <2>1, <3>1, AnswerMeans DEF Flights
  <2>2. CASE Drop(e)
    BY <1>1, <2>2, DropMeans
  <2> QED BY <2>1, <2>2
<1>3. a \in Apps
  BY <1>1, <1>2, ReceivesMeans
<1>4. /\ uid \in Nat /\ busy \in [Edges -> Nat]
      /\ arrived \in [Apps -> Nat] /\ got \in [Apps -> Nat]
  BY DEF Clock, Basics
<1>5. /\ busy' \in [Edges -> Nat] /\ arrived' \in [Apps -> Nat] /\ got' \in [Apps -> Nat]
      /\ uid' \in Nat /\ uid <= uid'
  BY <1>2, <1>3, <1>4
<1>6. \A f \in Add : FALSE
  OBVIOUS
<1> HIDE DEF Add
<1>7. \A f, g \in Add : f = g
  BY <1>6
<1>8. \A f \in Add : /\ Shaped(f) /\ f.call.do \in Flights
                     /\ f.call.app \in ClientApps /\ f.call.n \in 1..sent[f.call.app]
                     /\ f.call.at \in Nodes /\ f.ts \in Nat /\ e.ts <= f.ts
                     /\ f.uid = uid /\ f.uid < uid'
  BY <1>6
<1> QED BY <1>2, <1>5, <1>7, <1>8, FlightClock

LEMMA OtherClock ==
    ASSUME Clock, NEW e \in queue, AttachTraces(e) \/ Halt(e)
    PROVE  Clock'
<1>1. PICK do \in {"AttachTraces", "Stop"} :
         /\ Takes(e, do) /\ queue' = queue \ {e}
         /\ halted' = IF do = "Stop" THEN TRUE ELSE halted
  <2>1. CASE AttachTraces(e)
    BY <2>1 DEF AttachTraces
  <2>2. CASE Halt(e)
    BY <2>2 DEF Halt
  <2> QED BY <2>1, <2>2
<1>2. /\ main' = main /\ uid' = uid /\ done' = done /\ started' = started /\ sent' = sent
      /\ arrived' = arrived /\ got' = got /\ busy' = busy
  BY DEF AttachTraces, Halt, flows
<1>3. /\ now' = e.ts /\ e.ts \in Nat /\ e.call.do = do /\ ~halted /\ ~done
      /\ main \in DOMAIN Mains /\ uid \in Nat
  BY <1>1, First DEF Clock, Basics
<1>4. /\ Apps' = Apps /\ ClientApps' = ClientApps /\ Edges' = Edges /\ S' = S
      /\ (\A b : (App(b))' = App(b))
  BY <1>2, SameMain
<1>5. Basics'
  <2>1. halted' \in BOOLEAN
    BY <1>1 DEF Clock, Basics
  <2> QED BY <1>2, <1>3, <1>4, <2>1 DEF Clock, Basics
<1> DEFINE Add == {}
<1>6. \A f \in Add : FALSE
  OBVIOUS
<1>7. queue' = (queue \ {e}) \cup Add
  BY <1>1
<1> HIDE DEF Add
<1>8. Events'
  <2>1. \A f \in queue : f # e => Known(f)'
    <3>1. \A a \in Apps : sent[a] <= sent'[a]
      BY <1>2 DEF Clock, Basics
    <3>2. \A f \in queue : Known(f) /\ (f.call.do = "Start" => f.call.app \notin started)
      BY DEF Clock, Events, Known
    <3> QED BY <1>2, <3>1, <3>2, StillKnown DEF Clock, Basics
  <2>2. uid' \in Nat /\ uid <= uid'
    BY <1>2, <1>3
  <2>3. \A f \in Add : /\ Shaped(f) /\ Known(f)'
                       /\ f.ts \in Nat /\ e.ts <= f.ts
                       /\ f.uid \in Nat /\ uid <= f.uid /\ f.uid < uid'
    BY <1>6
  <2>4. \A f, g \in Add : f.uid = g.uid => f = g
    BY <1>6
  <2>5. \A f \in Add : f.call.do \in {"Start", "Send"} => \A g \in queue' : Same(f, g) => f = g
    BY <1>6
  <2> QED BY <1>1, <1>2, <1>7, <2>1, <2>2, <2>3, <2>4, <2>5, EventsStep
<1>9. Pendings'
  <2>1. e.call.do \notin {"Start", "Send", "Initialize"}
    BY <1>3
  <2>2. Booting' <=> Booting
    BY <1>1, <2>1 DEF Booting
  <2>3. /\ \A d, a : d \in {"Start", "Send"} /\ Scheduled(d, a) => Scheduled(d, a)'
        /\ e.call.do # "Stop" => \E f \in queue' : f.call.do = "Stop"
    BY <1>1, <1>3, <2>1, Remains DEF Clock, Pendings
  <2>4. IF halted' THEN now' = S.end ELSE \E f \in queue' : f.call.do = "Stop"
    <3>1. e.call.do = "Stop" => e.ts = S.end
      BY DEF Clock, Events, Known
    <3> QED BY <1>1, <1>3, <2>3, <3>1
  <2>5. Booting' => uid' = 3 /\ started' = {} /\ \A f \in queue' : f.call.do \in Plains
    BY <1>1, <1>2, <2>2 DEF Clock, Pendings
  <2>6. ~Booting' => \A a \in Apps' \ started' : Scheduled("Start", a)'
    BY <1>2, <1>4, <2>2, <2>3 DEF Clock, Pendings
  <2>7. \A a \in ClientApps' \cap started' : sent'[a] < (App(a))'.max => Scheduled("Send", a)'
    BY <1>2, <1>4, <2>3 DEF Clock, Pendings
  <2>8. \A a \in Apps' \ started' : sent'[a] = 0
    BY <1>2, <1>4 DEF Clock, Pendings
  <2> QED BY <1>2, <1>3, <1>4, <2>4, <2>5, <2>6, <2>7, <2>8 DEF Pendings
<1> QED BY <1>5, <1>8, <1>9 DEF Clock

(* Run returns, or nothing happens.                                        *)
LEMMA ReturnMeans ==
    ASSUME Return \/ UNCHANGED vars
    PROVE  /\ main' = main /\ now' = now /\ queue' = queue /\ uid' = uid
           /\ halted' = halted /\ started' = started /\ sent' = sent
           /\ arrived' = arrived /\ got' = got /\ busy' = busy /\ traced' = traced
           /\ IF Return THEN halted /\ ~done /\ done' = TRUE
                             /\ measured' \in [Monitored -> 1..MaxMeasure]
                        ELSE done' = done /\ measured' = measured
BY DEF Return, vars, flows

LEMMA ReturnClock ==
    ASSUME Clock, Return \/ UNCHANGED vars
    PROVE  Clock'
<1>1. /\ main' = main /\ now' = now /\ queue' = queue /\ uid' = uid
      /\ halted' = halted /\ started' = started /\ sent' = sent
      /\ arrived' = arrived /\ got' = got /\ busy' = busy
      /\ IF Return THEN halted /\ done' = TRUE ELSE done' = done
  BY ReturnMeans
<1>2. /\ Apps' = Apps /\ ClientApps' = ClientApps /\ Edges' = Edges /\ S' = S
      /\ Nodes' = Nodes /\ (\A b : (App(b))' = App(b) /\ (FirstSend(b))' = FirstSend(b))
  BY <1>1, SameMain
<1>3. Basics'
  <2>1. done' \in BOOLEAN
    BY <1>1 DEF Clock, Basics
  <2> QED BY <1>1, <1>2, <2>1 DEF Clock, Basics
<1>4. Events'
  <2>1. \A f \in queue : Known(f)'
    <3>1. \A a \in Apps : sent[a] <= sent'[a]
      BY <1>1 DEF Clock, Basics
    <3>2. \A f \in queue : Known(f) /\ (f.call.do = "Start" => f.call.app \notin started)
      BY DEF Clock, Events, Known
    <3> QED BY <1>1, <3>1, <3>2, StillKnown DEF Clock, Basics
  <2> QED BY <1>1, <2>1 DEF Clock, Events, Shaped, Same
<1>5. Pendings'
  <2>1. \A do, a : Scheduled(do, a)' <=> Scheduled(do, a)
    BY <1>1 DEF Scheduled
  <2>2. Booting' <=> Booting
    BY <1>1 DEF Booting
  <2>3. done' => halted'
    BY <1>1 DEF Clock, Pendings
  <2>4. IF halted' THEN now' = S'.end ELSE \E f \in queue' : f.call.do = "Stop"
    BY <1>1, <1>2 DEF Clock, Pendings
  <2>5. Booting' => uid' = 3 /\ started' = {} /\ \A f \in queue' : f.call.do \in Plains
    BY <1>1, <2>2 DEF Clock, Pendings
  <2>6. ~Booting' => \A a \in Apps' \ started' : Scheduled("Start", a)'
    BY <1>1, <1>2, <2>1, <2>2 DEF Clock, Pendings
  <2>7. \A a \in ClientApps' \cap started' : sent'[a] < (App(a))'.max => Scheduled("Send", a)'
    BY <1>1, <1>2, <2>1 DEF Clock, Pendings
  <2>8. \A a \in Apps' \ started' : sent'[a] = 0
    BY <1>1, <1>2 DEF Clock, Pendings
  <2> QED BY <2>3, <2>4, <2>5, <2>6, <2>7, <2>8 DEF Pendings
<1> QED BY <1>3, <1>4, <1>5 DEF Clock

(* A step is the return of Run, one of the events, or none.                *)
LEMMA Steps ==
    ASSUME [Next]_vars
    PROVE  \/ Return \/ UNCHANGED vars
           \/ \E e \in queue :
                 \/ Initialize(e) \/ Start(e) \/ Send(e)
                 \/ ForwardRequest(e) \/ ForwardEcho(e) \/ Deliver(e) \/ Answer(e) \/ Drop(e)
                 \/ AttachTraces(e) \/ Halt(e)
BY DEF Next, Simulator, Exited, Handle

(* Every step keeps Clock.                                                 *)
LEMMA ClockStep == Clock /\ [Next]_vars => Clock'
BY Steps, ReturnClock, InitializeClock, StartClock, SendClock, ForwardClock, DeliverClock,
   LeaveClock, OtherClock

-----------------------------------------------------------------------------
(* What each action leaves alone.                                          *)
LEMMA Keeps ==
    ASSUME NEW e, Handle(e)
    PROVE  /\ main' = main /\ done' = done /\ measured' = measured
           /\ ~Send(e) => sent' = sent
           /\ ~Deliver(e) => arrived' = arrived
           /\ ~Deliver(e) /\ ~Answer(e) => got' = got
           /\ ~Start(e) => started' = started
           /\ ~AttachTraces(e) => traced' = traced
           /\ ~Halt(e) => halted' = halted
BY DEF Handle, Initialize, Start, Send, ForwardRequest, ForwardEcho, Deliver, Answer, Drop,
       AttachTraces, Halt, Receives, flows

(* A step is an event, the return of Run, or none.                         *)
LEMMA StepKinds ==
    ASSUME [Next]_vars
    PROVE  Return \/ UNCHANGED vars \/ \E e \in queue : Handle(e)
BY DEF Next, Simulator, Exited

-----------------------------------------------------------------------------
(* How often the clients send.                                             *)

LEMMA InitSendTimes == Init => SendTimes
<1> SUFFICES ASSUME Init PROVE SendTimes
  OBVIOUS
<1>1. main \in DOMAIN Mains /\ \A a \in Apps : sent[a] = 0
  BY DEF Init
<1>2. \A a \in ClientApps : a \in Apps
  BY DEF ClientApps
<1> QED BY <1>1, <1>2, AppFacts DEF SendTimes

(* Every step keeps SendTimes: the end runs before a later datagram.       *)
LEMMA SendTimesStep ==
    ASSUME Clock, SendTimes, [Next]_vars
    PROVE  SendTimes'
<1>1. main' = main
  BY StepKinds, Keeps, ReturnMeans
<1>2. /\ ClientApps' = ClientApps /\ S' = S
      /\ \A a : (App(a))' = App(a) /\ (FirstSend(a))' = FirstSend(a)
  BY <1>1, SameMain
<1>3. CASE sent' = sent
  BY <1>2, <1>3 DEF SendTimes
<1>4. CASE sent' # sent
  <2>1. PICK e \in queue : Send(e)
    BY <1>4, StepKinds, Keeps, ReturnMeans
  <2>2. PICK a : a = e.call.app
    OBVIOUS
  <2>3. /\ Takes(e, "Send") /\ a \in ClientApps
        /\ sent[a] \in Nat /\ sent[a] < App(a).max /\ e.ts = NextSend(a)
        /\ sent' = [sent EXCEPT ![a] = sent[a] + 1]
    BY <2>1, <2>2, SendMeans
  <2>4. e.ts < S.end
    BY <2>3, First DEF Plains
  <2>5. a \in Apps /\ App(a).max \in Nat /\ sent \in [Apps -> Nat]
    BY <2>3, AppFacts DEF ClientApps, Clock, Basics
  <2>6. sent'[a] = sent[a] + 1 /\ \A b \in Apps : b # a => sent'[b] = sent[b]
    BY <2>3, <2>5
  <2> SUFFICES ASSUME NEW b \in ClientApps
               PROVE  /\ sent'[b] <= App(b).max
                      /\ sent'[b] > 0 =>
                            FirstSend(b) + (sent'[b] - 1) * App(b).interval < S.end
    BY <1>2 DEF SendTimes
  <2>7. CASE b = a
    <3>1. sent'[a] - 1 = sent[a] /\ sent'[a] <= App(a).max
      BY <2>3, <2>5, <2>6
    <3> QED BY <2>3, <2>4, <2>7, <3>1 DEF NextSend
  <2>8. CASE b # a
    <3>1. sent'[b] = sent[b]
      BY <2>6, <2>8 DEF ClientApps
    <3> QED BY <3>1 DEF SendTimes
  <2> QED BY <2>7, <2>8
<1> QED BY <1>3, <1>4

(* A quotient is the greatest whole number of times.                       *)
LEMMA Division ==
    ASSUME NEW n \in Nat, NEW i \in Nat, i >= 1, NEW q, q = n \div i
    PROVE  q \in Nat /\ q * i <= n /\ n < q * i + i
<1>1. q \in Int /\ i * q <= n /\ n < i * (q + 1)
  OBVIOUS
<1>2. q * i = i * q /\ i * (q + 1) = i * q + i
  BY <1>1
<1>3. q >= 0
  <2> SUFFICES ASSUME q < 0 PROVE FALSE
    BY <1>1
  <2>1. q + 1 <= 0
    BY <1>1
  <2>2. i * (q + 1) <= 0
    BY <1>1, <2>1
  <2> QED BY <1>1, <2>2
<1> QED BY <1>1, <1>2, <1>3

LEMMA MinOfTwo ==
    ASSUME NEW x \in Nat, NEW y \in Nat
    PROVE  Min({x, y}) = IF x <= y THEN x ELSE y
<1> DEFINE m == IF x <= y THEN x ELSE y
<1>1. m \in {x, y} /\ \A z \in {x, y} : m <= z
  OBVIOUS
<1>2. \A z \in {x, y} : (\A t \in {x, y} : z <= t) => z = m
  OBVIOUS
<1> QED BY <1>1, <1>2 DEF Min

(* The sendings before the end are those Due counts.                       *)
LEMMA DueCounts ==
    ASSUME NEW f \in Nat, NEW i \in Nat, NEW max \in Nat, NEW t \in Nat, f < t,
           NEW k \in Nat, k >= 1, k <= max,
           f + (k - 1) * i < t, k < max => f + k * i >= t
    PROVE  k = IF i = 0 THEN max ELSE Min({max, (t - f - 1) \div i + 1})
<1>1. CASE i = 0
  <2>1. k * i = 0
    BY <1>1
  <2> QED BY <1>1, <2>1
<1>2. CASE i # 0
  <2> DEFINE n == t - f - 1
             q == n \div i
  <2>1. n \in Nat /\ i >= 1
    BY <1>2
  <2>2. PICK p : p = q
    OBVIOUS
  <2>3. p \in Nat /\ p * i <= n /\ n < p * i + i
    <3> HIDE DEF n
    <3> QED BY <2>1, <2>2, Division
  <2>4. k - 1 <= p
    <3> SUFFICES ASSUME k - 1 >= p + 1 PROVE FALSE
      BY <2>3
    <3>1. PICK r \in Nat : k - 1 = (p + 1) + r
      <4>1. k - 1 - (p + 1) \in Nat /\ k - 1 = (p + 1) + (k - 1 - (p + 1))
        BY <2>3
      <4> QED BY <4>1
    <3>2. (k - 1) * i = p * i + i + r * i /\ r * i \in Nat /\ p * i \in Nat
      BY <2>3, <3>1
    <3>3. (k - 1) * i <= n
      BY <3>2
    <3> QED BY <2>1, <2>3, <3>2, <3>3
  <2>5. k < max => k >= p + 1
    <3> SUFFICES ASSUME k < max, k <= p PROVE FALSE
      BY <2>3
    <3>1. PICK r \in Nat : p = k + r
      <4>1. p - k \in Nat /\ p = k + (p - k)
        BY <2>3
      <4> QED BY <4>1
    <3>2. p * i = k * i + r * i /\ r * i \in Nat /\ k * i \in Nat
      BY <3>1
    <3>3. k * i >= n + 1
      BY <3>2
    <3> QED BY <2>1, <2>3, <3>2, <3>3
  <2>6. k = IF max <= p + 1 THEN max ELSE p + 1
    BY <2>3, <2>4, <2>5
  <2>7. Min({max, p + 1}) = k
    BY <2>3, <2>6, MinOfTwo
  <2> QED BY <1>2, <2>2, <2>7
<1> QED BY <1>1, <1>2

(* At the end the counts are those that were due.                          *)
LEMMA SentMeans ==
    ASSUME Clock, SendTimes, done, NEW a \in ClientApps
    PROVE  sent[a] = Due(a)
<1>1. /\ main \in DOMAIN Mains /\ now \in Nat /\ sent \in [Apps -> Nat] /\ a \in Apps
      /\ halted /\ now = S.end
  BY DEF Clock, Basics, Pendings, ClientApps
<1>2. /\ App(a).start \in Nat /\ App(a).interval \in Nat /\ App(a).max \in Nat
      /\ App(a).max >= 1 /\ FirstSend(a) \in Nat /\ App(a).start <= FirstSend(a)
      /\ S.end \in Nat /\ sent[a] \in Nat
  BY <1>1, AppFacts, ScenarioFacts
<1>3. /\ sent[a] <= App(a).max
      /\ sent[a] > 0 => FirstSend(a) + (sent[a] - 1) * App(a).interval < S.end
  BY DEF SendTimes
<1>4. \A e \in queue : Known(e) /\ now <= e.ts /\ e.ts \in Nat
  BY DEF Clock, Events
<1>5. CASE FirstSend(a) >= S.end
  <2>1. sent[a] > 0 => (sent[a] - 1) * App(a).interval \in Nat
    <3>1. sent[a] > 0 => sent[a] - 1 \in Nat
      BY <1>2
    <3> QED BY <1>2, <3>1
  <2>2. sent[a] = 0
    BY <1>2, <1>3, <1>5, <2>1
  <2> QED BY <1>5, <2>2 DEF Due
<1>6. CASE FirstSend(a) < S.end
  <2>1. a \in started
    <3> SUFFICES ASSUME a \notin started PROVE FALSE
      OBVIOUS
    <3>1. ~Booting
      <4>1. \A e \in queue : e.call.do = "Initialize" => e.ts = 0
        BY <1>4 DEF Known
      <4> QED BY <1>1, <1>2, <1>4, <1>6, <4>1 DEF Booting
    <3>2. Scheduled("Start", a)
      BY <1>1, <3>1 DEF Clock, Pendings
    <3>3. PICK e \in queue : e.call.do = "Start" /\ e.call.app = a
      BY <3>2 DEF Scheduled
    <3>4. e.ts = App(a).start
      BY <1>4, <3>3 DEF Known
    <3> QED BY <1>1, <1>2, <1>4, <1>6, <3>4
  <2>2. sent[a] < App(a).max => FirstSend(a) + sent[a] * App(a).interval >= S.end
    <3> SUFFICES ASSUME sent[a] < App(a).max
                 PROVE  FirstSend(a) + sent[a] * App(a).interval >= S.end
      OBVIOUS
    <3>1. PICK e \in queue : e.call.do = "Send" /\ e.call.app = a
      BY <2>1 DEF Clock, Pendings, Scheduled
    <3>2. e.ts = NextSend(a)
      BY <1>4, <3>1 DEF Known
    <3>3. NextSend(a) >= S.end
      BY <1>1, <1>2, <1>4, <3>2
    <3> QED BY <3>3 DEF NextSend
  <2>3. sent[a] >= 1
    <3>1. sent[a] = 0 => FirstSend(a) + sent[a] * App(a).interval = FirstSend(a)
      BY <1>2
    <3> QED BY <1>2, <1>6, <2>2, <3>1
  <2>4. PICK f, i, max, t, k : /\ f = FirstSend(a) /\ i = App(a).interval /\ max = App(a).max
                               /\ t = S.end /\ k = sent[a]
    OBVIOUS
  <2>5. k = IF i = 0 THEN max ELSE Min({max, (t - f - 1) \div i + 1})
    <3>1. /\ f \in Nat /\ i \in Nat /\ max \in Nat /\ t \in Nat /\ f < t /\ k \in Nat
          /\ k >= 1 /\ k <= max
      BY <1>2, <1>3, <1>6, <2>3, <2>4
    <3>2. f + (k - 1) * i < t
      BY <1>2, <1>3, <2>3, <2>4
    <3>3. k < max => f + k * i >= t
      BY <2>2, <2>4
    <3> QED BY ONLY <3>1, <3>2, <3>3, DueCounts
  <2>6. ~(FirstSend(a) >= S.end)
    BY <1>2, <1>6
  <2> QED BY <2>4, <2>5, <2>6 DEF Due
<1> QED BY <1>2, <1>5, <1>6

(* Every client sends as often as its first time, its interval, its maximum*)
(* and the end of the simulation say, however the events interleave.       *)
THEOREM SentCorrect == Spec => []SentExactly
<1>1. Init => Clock /\ SendTimes
  BY InitClock, InitSendTimes
<1>2. Clock /\ SendTimes /\ [Next]_vars => (Clock /\ SendTimes)'
  BY ClockStep, SendTimesStep
<1>3. Clock /\ SendTimes => SentExactly
  BY SentMeans DEF SentExactly
<1> QED BY <1>1, <1>2, <1>3, PTL DEF Spec

-----------------------------------------------------------------------------
(* What a step does to the datagrams in the network.                       *)

(* x is datagram n of client a, handed at one node to the device towards   *)
(* another.                                                                *)
Enters(x, do, a, n, at, dst) ==
    /\ x.call.do = do /\ x.call.app = a /\ x.call.n = n /\ x.call.at = Route[at][dst]
    /\ x.uid = uid /\ x.ts \in Nat /\ now' <= x.ts
    /\ at # dst => now' < x.ts
    /\ x.ts = busy'[<<at, Route[at][dst]>>] + LinkOf(at, Route[at][dst]).delay
    /\ \A k \in Edges : busy[k] <= busy'[k]
    /\ busy' \in [Edges -> Nat]

(* A transmitted datagram enters the network.                              *)
LEMMA ArrivesEnters ==
    ASSUME busy \in [Edges -> Nat], NEW x, NEW all, NEW do, NEW a, NEW n, NEW at, NEW dst,
           NEW v, v = Route[at][dst], NEW d, d = <<at, v>>,
           Arrives(x, all, do, a, n, at, dst, v, d)
    PROVE  Enters(x, do, a, n, at, dst) /\ queue' = all
<1>1. /\ x.ts = busy'[d] + LinkOf(at, v).delay
      /\ busy' \in [Edges -> Nat]
      /\ \A k \in Edges : busy[k] <= busy'[k]
  BY DEF Arrives
<1> QED BY <1>1 DEF Arrives, Enters

LEMMA InitNetwork == Init => InNetwork = {}
<1> SUFFICES ASSUME Init PROVE InNetwork = {}
  OBVIOUS
<1>1. \A e \in queue : e.call.do \in Plains
  BY DEF Init, Plain, Event, Call, Plains
<1> QED BY <1>1 DEF InNetwork, Flights, Plains

LEMMA QuietNet ==
    ASSUME Clock, NEW e \in queue,
           Initialize(e) \/ Start(e) \/ AttachTraces(e) \/ Halt(e)
    PROVE  InNetwork' = InNetwork /\ busy' = busy /\ sent' = sent
           /\ arrived' = arrived /\ got' = got
<1>1. e.call.do \notin Flights
  BY DEF Initialize, Start, AttachTraces, Halt, Takes, Flights
<1>2. queue \ {e} \subseteq queue' /\ \A f \in queue' : f.call.do \in Flights => f \in queue
  <2>1. CASE Initialize(e)
    <3> DEFINE at(a) == Event(App(a).start, StartUid(a), Call("Start", a, 0, 0))
               off(a) == Event(App(a).stop, StartUid(a) + 1, Call("StopApplication", a, 0, 0))
               New == UNION {{at(a), off(a)} : a \in Apps}
    <3>1. queue' = (queue \ {e}) \cup New
      BY <2>1 DEF Initialize
    <3>2. \A a : at(a).call.do = "Start" /\ off(a).call.do = "StopApplication"
      BY DEF Event, Call
    <3>3. \A f \in New : \E a \in Apps : f = at(a) \/ f = off(a)
      OBVIOUS
    <3>4. \A f \in New : f.call.do \notin Flights
      BY <3>2, <3>3 DEF Flights
    <3> QED BY <3>1, <3>4
  <2>2. CASE Start(e)
    <3>1. PICK x : x = Event(FirstSend(e.call.app), uid, Call("Send", e.call.app, 0, 0))
      OBVIOUS
    <3>2. x.call.do \notin Flights
      BY <3>1 DEF Event, Call, Flights
    <3>3. queue' = (queue \ {e}) \cup (IF IsClient(e.call.app) THEN {x} ELSE {})
      BY <2>2, <3>1 DEF Start
    <3> QED BY <3>2, <3>3
  <2>3. CASE AttachTraces(e) \/ Halt(e)
    <3>1. queue' = queue \ {e}
      BY <2>3 DEF AttachTraces, Halt
    <3> QED BY <3>1
  <2> QED BY <2>1, <2>2, <2>3
<1>3. InNetwork' = InNetwork
  <2>1. e \notin queue' \/ e.call.do \notin Flights
    BY <1>1
  <2> QED BY <1>1, <1>2, <2>1 DEF InNetwork
<1>4. busy' = busy /\ sent' = sent /\ arrived' = arrived /\ got' = got
  BY DEF Initialize, Start, AttachTraces, Halt, flows
<1> QED BY <1>3, <1>4

LEMMA SendNet ==
    ASSUME Clock, NEW e \in queue, Send(e), NEW a, a = e.call.app
    PROVE  \E x : /\ InNetwork' = InNetwork \cup {x}
                  /\ Enters(x, "Request", a, sent[a] + 1, Src("Request", a), Dst("Request", a))
<1>1. /\ Takes(e, "Send") /\ a \in ClientApps /\ main' = main
      /\ Transmit((queue \ {e}) \cup (IF More(a) THEN {Again(e)} ELSE {}),
                  Call("Request", a, sent[a] + 1, 0), App(a).node, App(a).addr)
  BY SendMeans
<1>2. /\ now' = e.ts /\ e.ts \in Nat /\ e.call.do = "Send"
      /\ main \in DOMAIN Mains /\ busy \in [Edges -> Nat]
  BY <1>1, First DEF Clock, Basics
<1>3. App(a).node \in Nodes /\ App(a).addr \in Nodes
  BY <1>1, <1>2, AppInScenario
<1>4. PICK x, rest, n, c, at, dst, v, d, all :
           /\ x = Sent("Request", a, sent[a] + 1, App(a).node, App(a).addr)
           /\ rest = (queue \ {e}) \cup (IF More(a) THEN {Again(e)} ELSE {})
           /\ n = sent[a] + 1 /\ c = Call("Request", a, n, 0)
           /\ at = App(a).node /\ dst = App(a).addr
           /\ v = Route[at][dst] /\ d = <<at, v>> /\ all = rest \cup {x}
  OBVIOUS
<1>5. Transmit(rest, c, at, dst) /\ x = Sent("Request", a, n, at, dst)
  BY <1>1, <1>4 DEF Transmit, Begins, Sent
<1>6. Arrives(x, all, "Request", a, n, at, dst, v, d)
  <2>1. /\ main \in DOMAIN Mains /\ main' = main /\ now' \in Nat /\ busy \in [Edges -> Nat]
        /\ at \in Nodes /\ dst \in Nodes /\ c = Call("Request", a, n, 0)
        /\ v = Route[at][dst] /\ d = <<at, v>> /\ all = rest \cup {x}
    BY <1>1, <1>2, <1>3, <1>4
  <2> QED BY ONLY <1>5, <2>1, Transmission
<1>7. Enters(x, "Request", a, n, at, dst) /\ queue' = all
  BY <1>2, <1>4, <1>6, ArrivesEnters
<1>8. Enters(x, "Request", a, sent[a] + 1, Src("Request", a), Dst("Request", a))
  BY <1>4, <1>7 DEF Enters, Src, Dst
<1>9. InNetwork' = InNetwork \cup {x}
  <2>1. x.call.do = "Request"
    BY <1>7 DEF Enters
  <2>2. Again(e).call.do = "Send"
    BY <1>2 DEF Again, Event
  <2>3. queue' = ((queue \ {e}) \cup (IF More(a) THEN {Again(e)} ELSE {})) \cup {x}
    BY <1>4, <1>7
  <2> QED BY <1>2, <2>1, <2>2, <2>3 DEF InNetwork, Flights
<1> QED BY <1>8, <1>9

LEMMA ForwardNet ==
    ASSUME Clock, NEW e \in queue, ForwardRequest(e) \/ ForwardEcho(e),
           NEW a, a = e.call.app, NEW do, do = e.call.do
    PROVE  \E x : /\ InNetwork' = (InNetwork \ {e}) \cup {x}
                  /\ Enters(x, do, a, e.call.n, e.call.at, Dst(do, a))
<1>1. /\ do \in Flights /\ Takes(e, do) /\ main' = main
      /\ Transmit(queue \ {e}, e.call, e.call.at, Dst(do, a))
  BY ForwardMeans
<1>2. /\ e.call.at \in Nodes /\ Dst(do, a) \in Nodes
      /\ e.call = Call(do, a, e.call.n, e.call.at)
  BY <1>1, ReceivesMeans
<1>3. now' = e.ts /\ e.ts \in Nat /\ main \in DOMAIN Mains /\ busy \in [Edges -> Nat]
  BY <1>1, First DEF Clock, Basics
<1>4. PICK x, rest, at, dst, v, d, all :
           /\ x = Sent(do, a, e.call.n, e.call.at, Dst(do, a))
           /\ rest = queue \ {e} /\ at = e.call.at /\ dst = Dst(do, a)
           /\ v = Route[at][dst] /\ d = <<at, v>> /\ all = rest \cup {x}
  OBVIOUS
<1>5. Transmit(rest, e.call, at, dst) /\ x = Sent(do, a, e.call.n, at, dst)
  BY <1>1, <1>4 DEF Transmit, Begins, Sent
<1>6. Arrives(x, all, do, a, e.call.n, at, dst, v, d)
  BY <1>1, <1>2, <1>3, <1>4, <1>5, Transmission
<1>7. Enters(x, do, a, e.call.n, at, dst) /\ queue' = all
  BY <1>3, <1>4, <1>6, ArrivesEnters
<1>8. Enters(x, do, a, e.call.n, e.call.at, Dst(do, a))
  BY <1>4, <1>7 DEF Enters
<1>9. InNetwork' = (InNetwork \ {e}) \cup {x}
  <2>1. x.call.do \in Flights
    BY <1>1, <1>7 DEF Enters
  <2> QED BY <1>4, <1>7, <2>1 DEF InNetwork
<1> QED BY <1>8, <1>9

LEMMA DeliverNet ==
    ASSUME Clock, NEW e \in queue, Deliver(e), NEW a, a = e.call.app
    PROVE  IF \E s \in Listeners(a) \cap started : Echoes(s)
           THEN \E x : /\ InNetwork' = (InNetwork \ {e}) \cup {x}
                       /\ Enters(x, "Echo", a, e.call.n, Src("Echo", a), Dst("Echo", a))
           ELSE InNetwork' = InNetwork \ {e} /\ busy' = busy
<1> DEFINE echoes == \E s \in Listeners(a) \cap started : Echoes(s)
<1>1. /\ Takes(e, "Request") /\ main' = main /\ e.call.at = App(a).addr
      /\ IF echoes
         THEN Transmit(queue \ {e}, Call("Echo", a, e.call.n, e.call.at),
                       e.call.at, App(a).node)
         ELSE queue' = queue \ {e} /\ busy' = busy
  BY DeliverMeans
<1> HIDE DEF echoes
<1>2. e.call.at \in Nodes /\ App(a).node \in Nodes
  BY <1>1, ReceivesMeans DEF Flights
<1>3. now' = e.ts /\ e.ts \in Nat /\ main \in DOMAIN Mains /\ busy \in [Edges -> Nat]
  BY <1>1, First DEF Clock, Basics
<1>4. CASE echoes
  <2>1. PICK x, rest, dst, at, c, v, d, all :
           /\ x = Sent("Echo", a, e.call.n, e.call.at, App(a).node)
           /\ rest = queue \ {e} /\ dst = App(a).node /\ at = e.call.at
           /\ c = Call("Echo", a, e.call.n, at) /\ v = Route[at][dst]
           /\ d = <<at, v>> /\ all = rest \cup {x}
    OBVIOUS
  <2>2. Transmit(rest, c, at, dst) /\ x = Sent("Echo", a, e.call.n, at, dst)
    BY <1>1, <1>4, <2>1 DEF Transmit, Begins, Sent
  <2>3. Arrives(x, all, "Echo", a, e.call.n, at, dst, v, d)
    BY <1>1, <1>2, <1>3, <2>1, <2>2, Transmission
  <2>4. Enters(x, "Echo", a, e.call.n, at, dst) /\ queue' = all
    BY <1>3, <2>1, <2>3, ArrivesEnters
  <2>5. Enters(x, "Echo", a, e.call.n, Src("Echo", a), Dst("Echo", a))
    BY <1>1, <2>1, <2>4 DEF Enters, Src, Dst
  <2>6. InNetwork' = (InNetwork \ {e}) \cup {x}
    <3>1. x.call.do \in Flights
      BY <2>4 DEF Enters, Flights
    <3> QED BY <2>1, <2>4, <3>1 DEF InNetwork
  <2> QED BY <1>4, <2>5, <2>6 DEF echoes
<1>5. CASE ~echoes
  <2>1. queue' = queue \ {e} /\ busy' = busy
    BY <1>1, <1>5
  <2>2. InNetwork' = InNetwork \ {e}
    BY <2>1 DEF InNetwork
  <2> QED BY <1>5, <2>1, <2>2 DEF echoes
<1> QED BY <1>4, <1>5

LEMMA LeaveNet ==
    ASSUME Clock, NEW e \in queue, Answer(e) \/ Drop(e)
    PROVE  InNetwork' = InNetwork \ {e} /\ busy' = busy
<1>1. queue' = queue \ {e} /\ busy' = busy
  BY AnswerMeans, DropMeans
<1> QED BY <1>1 DEF InNetwork

-----------------------------------------------------------------------------
(* Without a network that delivers nothing is heard.                       *)

LEMMA SilenceStep ==
    ASSUME Clock, Silence, [Next]_vars
    PROVE  Silence'
<1>1. main' = main /\ main \in DOMAIN Mains
  BY StepKinds, Keeps, ReturnMeans DEF Clock, Basics
<1>2. S' = S /\ Apps' = Apps
  BY <1>1, SameMain
<1>3. CASE \E e \in queue : Deliver(e) \/ Answer(e)
  <2>1. S.errors # "always"
    BY <1>3 DEF Deliver, Answer, Receives
  <2> QED BY <1>2, <2>1 DEF Silence
<1>4. CASE ~\E e \in queue : Deliver(e) \/ Answer(e)
  <2>1. arrived' = arrived /\ got' = got
    BY <1>4, StepKinds, Keeps, ReturnMeans
  <2> QED BY <1>2, <2>1 DEF Silence
<1> QED BY <1>3, <1>4

LEMMA MeasuresStep ==
    ASSUME Clock, Measures, [Next]_vars
    PROVE  Measures'
<1>1. CASE \E e \in queue : Handle(e)
  <2>1. PICK e \in queue : Handle(e)
    BY <1>1
  <2>2. ~done
    BY <2>1 DEF Handle, Initialize, Start, Send, ForwardRequest, ForwardEcho, Deliver, Answer,
                Drop, AttachTraces, Halt, Receives, Takes
  <2>3. done' = done /\ measured' = measured
    BY <2>1, Keeps
  <2> QED BY <2>2, <2>3 DEF Measures
<1>2. CASE Return \/ UNCHANGED vars
  <2>1. /\ main' = main /\ arrived' = arrived /\ got' = got
        /\ IF Return THEN ~done /\ done' = TRUE /\ measured' \in [Monitored -> 1..MaxMeasure]
                     ELSE done' = done /\ measured' = measured
    BY <1>2, ReturnMeans
  <2>2. ClientApps' = ClientApps /\ \A a : (App(a))' = App(a)
    BY <2>1, SameMain
  <2>3. Monitored' = Monitored
    BY <2>1, <2>2 DEF Monitored, TcpClients
  <2> QED BY <2>1, <2>3 DEF Measures
<1> QED BY <1>1, <1>2, StepKinds

-----------------------------------------------------------------------------
(* Nothing arrives that was not sent, and nothing twice.                   *)

(* An element more, or less.                                               *)
LEMMA CountOne ==
    ASSUME NEW T, IsFiniteSet(T), NEW e
    PROVE  /\ Cardinality(T) \in Nat
           /\ IsFiniteSet(T \ {e}) /\ Cardinality(T \ {e}) \in Nat
           /\ Cardinality(T \ {e}) = IF e \in T THEN Cardinality(T) - 1 ELSE Cardinality(T)
           /\ IsFiniteSet(T \cup {e}) /\ Cardinality(T \cup {e}) \in Nat
           /\ Cardinality(T \cup {e}) <= Cardinality(T) + 1
<1>1. Cardinality(T) \in Nat
  BY FS_CardinalityType
<1>2. IsFiniteSet(T \ {e}) /\ IsFiniteSet(T \cup {e})
  BY FS_RemoveElement, FS_AddElement
<1>3. Cardinality(T \ {e}) \in Nat /\ Cardinality(T \cup {e}) \in Nat
  BY <1>2, FS_CardinalityType
<1>4. Cardinality(T \ {e}) = IF e \in T THEN Cardinality(T) - 1 ELSE Cardinality(T)
  BY FS_RemoveElement
<1>5. Cardinality(T \cup {e}) <= Cardinality(T) + 1
  <2>1. Cardinality(T \cup {e}) = IF e \in T THEN Cardinality(T) ELSE Cardinality(T) + 1
    BY FS_AddElement
  <2> QED BY <1>1, <2>1
<1> QED BY <1>1, <1>2, <1>3, <1>4, <1>5

LEMMA InitCounts == Init => Counts
<1> SUFFICES ASSUME Init PROVE Counts
  OBVIOUS
<1>1. \A do, a : Traffic(do, a) = {}
  BY InitNetwork DEF Traffic
<1>2. \A a \in ClientApps : sent[a] = 0 /\ arrived[a] = 0 /\ got[a] = 0
  BY DEF Init, ClientApps
<1>3. IsFiniteSet({}) /\ Cardinality({}) = 0
  BY FS_EmptySet
<1> SUFFICES ASSUME NEW a \in ClientApps
             PROVE  /\ \A do \in Flights : IsFiniteSet(Traffic(do, a))
                    /\ Cardinality(Traffic("Request", a)) + arrived[a] <= sent[a]
                    /\ Cardinality(Traffic("Echo", a)) + got[a] <= arrived[a]
  BY DEF Counts
<1>4. Cardinality(Traffic("Request", a)) = 0 /\ Cardinality(Traffic("Echo", a)) = 0
  BY <1>1, <1>3
<1>5. \A do \in Flights : IsFiniteSet(Traffic(do, a))
  BY <1>1, <1>3
<1>6. Cardinality(Traffic("Request", a)) + arrived[a] <= sent[a]
  BY <1>2, <1>4
<1>7. Cardinality(Traffic("Echo", a)) + got[a] <= arrived[a]
  BY <1>2, <1>4
<1> QED BY <1>5, <1>6, <1>7

LEMMA CountTypes ==
    ASSUME Clock, Counts, NEW a \in ClientApps
    PROVE  /\ sent[a] \in Nat /\ arrived[a] \in Nat /\ got[a] \in Nat
           /\ \A do \in Flights : IsFiniteSet(Traffic(do, a)) /\ Cardinality(Traffic(do, a)) \in Nat
           /\ Cardinality(Traffic("Request", a)) + arrived[a] <= sent[a]
           /\ Cardinality(Traffic("Echo", a)) + got[a] <= arrived[a]
<1>1. \A do \in Flights : IsFiniteSet(Traffic(do, a))
  BY DEF Counts
<1>2. \A do \in Flights : Cardinality(Traffic(do, a)) \in Nat
  BY <1>1, FS_CardinalityType
<1> QED BY <1>1, <1>2 DEF Counts, Clock, Basics, ClientApps

(* Every step keeps Counts.                                                *)
LEMMA CountsStep ==
    ASSUME Clock, Counts, [Next]_vars
    PROVE  Counts'
<1>1. main' = main
  BY StepKinds, Keeps, ReturnMeans
<1>2. ClientApps' = ClientApps
  BY <1>1, SameMain
<1>3. CASE \/ Return \/ UNCHANGED vars
           \/ \E e \in queue : Initialize(e) \/ Start(e) \/ AttachTraces(e) \/ Halt(e)
  <2>1. InNetwork' = InNetwork /\ sent' = sent /\ arrived' = arrived /\ got' = got
    <3>1. CASE Return \/ UNCHANGED vars
      BY <3>1, ReturnMeans DEF InNetwork
    <3> QED BY <1>3, <3>1, QuietNet
  <2>2. \A do, a : Traffic(do, a)' = Traffic(do, a)
    BY <2>1 DEF Traffic
  <2> QED BY <1>2, <2>1, <2>2 DEF Counts
<1>4. ASSUME NEW e \in queue, Send(e) PROVE Counts'
  <2>1. PICK a : a = e.call.app
    OBVIOUS
  <2>2. /\ Takes(e, "Send") /\ a \in ClientApps
        /\ sent' = [sent EXCEPT ![a] = sent[a] + 1] /\ arrived' = arrived /\ got' = got
    BY <1>4, <2>1, SendMeans
  <2>3. PICK x : InNetwork' = InNetwork \cup {x} /\ x.call.do = "Request" /\ x.call.app = a
    BY <1>4, <2>1, SendNet DEF Enters
  <2>4. \A do, b : Traffic(do, b)' = IF do = "Request" /\ b = a
                                     THEN Traffic(do, b) \cup {x} ELSE Traffic(do, b)
    BY <2>3 DEF Traffic
  <2>5. \A b \in ClientApps : sent'[b] = IF b = a THEN sent[b] + 1 ELSE sent[b]
    BY <2>2 DEF ClientApps, Clock, Basics
  <2> SUFFICES ASSUME NEW b \in ClientApps
               PROVE  /\ \A do \in Flights : IsFiniteSet(Traffic(do, b)')
                      /\ Cardinality(Traffic("Request", b)') + arrived'[b] <= sent'[b]
                      /\ Cardinality(Traffic("Echo", b)') + got'[b] <= arrived'[b]
    BY <1>2 DEF Counts
  <2> DEFINE R == Traffic("Request", b)
             E == Traffic("Echo", b)
  <2>6. /\ sent[b] \in Nat /\ arrived[b] \in Nat /\ got[b] \in Nat
        /\ IsFiniteSet(R) /\ Cardinality(R) \in Nat /\ IsFiniteSet(E) /\ Cardinality(E) \in Nat
        /\ Cardinality(R) + arrived[b] <= sent[b] /\ Cardinality(E) + got[b] <= arrived[b]
    BY CountTypes DEF Flights
  <2>7. Traffic("Echo", b)' = E /\ Traffic("Request", b)' = IF b = a THEN R \cup {x} ELSE R
    BY <2>4
  <2>8. IsFiniteSet(R \cup {x}) /\ Cardinality(R \cup {x}) \in Nat
        /\ Cardinality(R \cup {x}) <= Cardinality(R) + 1
    BY <2>6, CountOne
  <2> HIDE DEF R, E
  <2>9. \A do \in Flights : IsFiniteSet(Traffic(do, b)')
    BY <2>6, <2>7, <2>8 DEF Flights
  <2> QED BY <2>2, <2>5, <2>6, <2>7, <2>8, <2>9
<1>5. ASSUME NEW e \in queue, ForwardRequest(e) \/ ForwardEcho(e) PROVE Counts'
  <2>1. PICK a, d : a = e.call.app /\ d = e.call.do
    OBVIOUS
  <2>2. d \in Flights /\ Takes(e, d) /\ sent' = sent /\ arrived' = arrived /\ got' = got
    BY <1>5, <2>1, ForwardMeans
  <2>3. PICK x : InNetwork' = (InNetwork \ {e}) \cup {x} /\ x.call.do = d /\ x.call.app = a
    <3>1. PICK x : /\ InNetwork' = (InNetwork \ {e}) \cup {x}
                   /\ Enters(x, d, a, e.call.n, e.call.at, Dst(d, a))
      BY <1>5, <2>1, ForwardNet
    <3>2. x.call.do = d /\ x.call.app = a
      BY <3>1 DEF Enters
    <3> QED BY <3>1, <3>2
  <2>4. \A do, b : Traffic(do, b)' = IF do = d /\ b = a
                                     THEN (Traffic(do, b) \ {e}) \cup {x} ELSE Traffic(do, b)
    BY <2>1, <2>3 DEF Traffic
  <2>5. e \in Traffic(d, a)
    BY <2>1, <2>2 DEF Traffic, InNetwork
  <2>6. \A b \in ClientApps, do \in Flights :
           IsFiniteSet(Traffic(do, b)') /\ Cardinality(Traffic(do, b)') \in Nat
           /\ Cardinality(Traffic(do, b)') <= Cardinality(Traffic(do, b))
    <3> SUFFICES ASSUME NEW b \in ClientApps, NEW do \in Flights
                 PROVE  IsFiniteSet(Traffic(do, b)') /\ Cardinality(Traffic(do, b)') \in Nat
                        /\ Cardinality(Traffic(do, b)') <= Cardinality(Traffic(do, b))
      OBVIOUS
    <3> DEFINE T == Traffic(do, b)
    <3>1. IsFiniteSet(T) /\ Cardinality(T) \in Nat
      BY CountTypes
    <3>2. IsFiniteSet(T \ {e}) /\ Cardinality(T \ {e}) \in Nat
          /\ (e \in T => Cardinality(T \ {e}) = Cardinality(T) - 1)
      BY <3>1, CountOne
    <3>3. IsFiniteSet((T \ {e}) \cup {x}) /\ Cardinality((T \ {e}) \cup {x}) \in Nat
          /\ Cardinality((T \ {e}) \cup {x}) <= Cardinality(T \ {e}) + 1
      BY <3>2, CountOne
    <3>4. (do = d /\ b = a => e \in T) /\
          Traffic(do, b)' = IF do = d /\ b = a THEN (T \ {e}) \cup {x} ELSE T
      BY <2>4, <2>5
    <3> HIDE DEF T
    <3>5. CASE do = d /\ b = a
      <4>1. Cardinality((T \ {e}) \cup {x}) <= Cardinality(T)
        BY <3>1, <3>2, <3>3, <3>4, <3>5
      <4> QED BY <3>3, <3>4, <3>5, <4>1 DEF T
    <3>6. CASE ~(do = d /\ b = a)
      BY <3>1, <3>4, <3>6 DEF T
    <3> QED BY <3>5, <3>6
  <2>7. \A b \in ClientApps :
           /\ Cardinality(Traffic("Request", b)') + arrived'[b] <= sent'[b]
           /\ Cardinality(Traffic("Echo", b)') + got'[b] <= arrived'[b]
    <3> SUFFICES ASSUME NEW b \in ClientApps
                 PROVE  /\ Cardinality(Traffic("Request", b)') + arrived'[b] <= sent'[b]
                        /\ Cardinality(Traffic("Echo", b)') + got'[b] <= arrived'[b]
      OBVIOUS
    <3>1. "Request" \in Flights /\ "Echo" \in Flights
      BY DEF Flights
    <3> QED BY <2>2, <2>6, <3>1, CountTypes
  <2> QED BY <1>2, <2>6, <2>7 DEF Counts
<1>6. ASSUME NEW e \in queue, Deliver(e) PROVE Counts'
  <2>1. PICK a : a = e.call.app
    OBVIOUS
  <2>2. /\ Takes(e, "Request") /\ sent' = sent
        /\ arrived' = [arrived EXCEPT ![a] = arrived[a] + 1]
        /\ got' = [s \in Apps |-> IF s \in Listeners(a) \cap started THEN got[s] + 1 ELSE got[s]]
    BY <1>6, <2>1, HandedOver
  <2>3. e.call.do = "Request" /\ a \in ClientApps
    BY <2>1, <2>2, ReceivesMeans DEF Flights
  <2>4. PICK In : /\ InNetwork' = (InNetwork \ {e}) \cup In
                  /\ In = {} \/ \E x : In = {x} /\ x.call.do = "Echo" /\ x.call.app = a
    <3>1. CASE \E s \in Listeners(a) \cap started : Echoes(s)
      <4>1. PICK x : InNetwork' = (InNetwork \ {e}) \cup {x} /\ x.call.do = "Echo" /\ x.call.app = a
        BY <1>6, <2>1, <3>1, DeliverNet DEF Enters
      <4> QED BY <4>1
    <3>2. CASE ~\E s \in Listeners(a) \cap started : Echoes(s)
      <4>1. InNetwork' = (InNetwork \ {e}) \cup {}
        BY <1>6, <2>1, <3>2, DeliverNet
      <4> QED BY <4>1
    <3> QED BY <3>1, <3>2
  <2>5. \A do, b : Traffic(do, b)' = IF b # a THEN Traffic(do, b)
                                     ELSE IF do = "Request" THEN Traffic(do, b) \ {e}
                                     ELSE IF do = "Echo" THEN Traffic(do, b) \cup In
                                     ELSE Traffic(do, b)
    BY <2>1, <2>3, <2>4 DEF Traffic
  <2>6. e \in Traffic("Request", a)
    BY <2>1, <2>3 DEF Traffic, InNetwork, Flights
  <2>7. \A b \in ClientApps : /\ arrived'[b] = (IF b = a THEN arrived[b] + 1 ELSE arrived[b])
                              /\ got'[b] = got[b]
    BY <2>2 DEF ClientApps, Clock, Basics, Listeners
  <2> SUFFICES ASSUME NEW b \in ClientApps
               PROVE  /\ \A do \in Flights : IsFiniteSet(Traffic(do, b)')
                      /\ Cardinality(Traffic("Request", b)') + arrived'[b] <= sent'[b]
                      /\ Cardinality(Traffic("Echo", b)') + got'[b] <= arrived'[b]
    BY <1>2 DEF Counts
  <2> DEFINE R == Traffic("Request", b)
             E == Traffic("Echo", b)
  <2>8. /\ sent[b] \in Nat /\ arrived[b] \in Nat /\ got[b] \in Nat
        /\ IsFiniteSet(R) /\ Cardinality(R) \in Nat /\ IsFiniteSet(E) /\ Cardinality(E) \in Nat
        /\ Cardinality(R) + arrived[b] <= sent[b] /\ Cardinality(E) + got[b] <= arrived[b]
    BY CountTypes DEF Flights
  <2>9. /\ Traffic("Echo", b)' = IF b = a THEN E \cup In ELSE E
        /\ Traffic("Request", b)' = IF b = a THEN R \ {e} ELSE R
    BY <2>5
  <2>10. /\ IsFiniteSet(R \ {e}) /\ Cardinality(R \ {e}) \in Nat
         /\ b = a => Cardinality(R \ {e}) = Cardinality(R) - 1
    BY <2>6, <2>8, CountOne
  <2>11. IsFiniteSet(E \cup In) /\ Cardinality(E \cup In) \in Nat
         /\ Cardinality(E \cup In) <= Cardinality(E) + 1
    <3> HIDE DEF E
    <3>1. CASE In = {}
      <4>1. E \cup In = E
        BY <3>1
      <4>2. Cardinality(E) <= Cardinality(E) + 1
        BY <2>8
      <4> QED BY <2>8, <4>1, <4>2
    <3>2. CASE \E x : In = {x}
      BY <2>8, <3>2, CountOne
    <3> QED BY <2>4, <3>1, <3>2
  <2> HIDE DEF R, E
  <2>12. \A do \in Flights : IsFiniteSet(Traffic(do, b)')
    BY <2>8, <2>9, <2>10, <2>11 DEF Flights
  <2>13. CASE b = a
    <3>1. /\ Cardinality(R \ {e}) + arrived'[b] <= sent'[b]
          /\ Cardinality(E \cup In) + got'[b] <= arrived'[b]
      BY <2>2, <2>7, <2>8, <2>10, <2>11, <2>13
    <3> QED BY <2>9, <2>12, <2>13, <3>1
  <2>14. CASE b # a
    BY <2>2, <2>7, <2>8, <2>9, <2>12, <2>14
  <2> QED BY <2>13, <2>14
<1>7. ASSUME NEW e \in queue, Answer(e) \/ Drop(e) PROVE Counts'
  <2>1. PICK a, d : a = e.call.app /\ d = e.call.do
    OBVIOUS
  <2>2. /\ d \in Flights /\ Takes(e, d) /\ sent' = sent /\ arrived' = arrived
        /\ got' = got \/ (d = "Echo" /\ got' = [got EXCEPT ![a] = got[a] + 1])
    <3>1. CASE Answer(e)
      BY <2>1, <3>1, AnswerMeans DEF Takes, Flights
    <3>2. CASE Drop(e)
      BY <2>1, <3>2, DropMeans
    <3> QED BY <1>7, <3>1, <3>2
  <2>3. InNetwork' = InNetwork \ {e}
    BY <1>7, LeaveNet
  <2>4. \A do, b : Traffic(do, b)' = Traffic(do, b) \ {e}
    BY <2>3 DEF Traffic
  <2>5. e \in Traffic(d, a)
    BY <2>1, <2>2 DEF Traffic, InNetwork
  <2>6. \A b \in ClientApps : got'[b] = got[b] \/ (d = "Echo" /\ b = a /\ got'[b] = got[b] + 1)
    BY <2>2 DEF ClientApps, Clock, Basics
  <2> SUFFICES ASSUME NEW b \in ClientApps
               PROVE  /\ \A do \in Flights : IsFiniteSet(Traffic(do, b)')
                      /\ Cardinality(Traffic("Request", b)') + arrived'[b] <= sent'[b]
                      /\ Cardinality(Traffic("Echo", b)') + got'[b] <= arrived'[b]
    BY <1>2 DEF Counts
  <2>7. \A do \in Flights : /\ IsFiniteSet(Traffic(do, b)')
                            /\ Cardinality(Traffic(do, b)') \in Nat
                            /\ Cardinality(Traffic(do, b)') =
                                  IF e \in Traffic(do, b) THEN Cardinality(Traffic(do, b)) - 1
                                  ELSE Cardinality(Traffic(do, b))
    BY <2>4, CountTypes, CountOne
  <2>8. "Request" \in Flights /\ "Echo" \in Flights
    BY DEF Flights
  <2>9. /\ sent[b] \in Nat /\ arrived[b] \in Nat /\ got[b] \in Nat
        /\ Cardinality(Traffic("Request", b)) \in Nat /\ Cardinality(Traffic("Echo", b)) \in Nat
        /\ Cardinality(Traffic("Request", b)) + arrived[b] <= sent[b]
        /\ Cardinality(Traffic("Echo", b)) + got[b] <= arrived[b]
    BY <2>8, CountTypes
  <2> QED BY <2>2, <2>5, <2>6, <2>7, <2>8, <2>9
<1> QED BY <1>3, <1>4, <1>5, <1>6, <1>7, Steps

LEMMA RepliesStep ==
    ASSUME Clock, Replies, [Next]_vars
    PROVE  Replies'
<1>1. main' = main
  BY StepKinds, Keeps, ReturnMeans
<1>2. ClientApps' = ClientApps /\ Apps' = Apps
  BY <1>1, SameMain
<1>3. \A a \in Apps \ ClientApps : sent'[a] = sent[a]
  <2>1. CASE \E e \in queue : Send(e)
    <3>1. PICK e, a : e \in queue /\ Send(e) /\ a = e.call.app
      BY <2>1
    <3>2. a \in ClientApps /\ sent' = [sent EXCEPT ![a] = sent[a] + 1]
      BY <3>1, SendMeans
    <3> QED BY <3>2 DEF Clock, Basics
  <2>2. CASE ~\E e \in queue : Send(e)
    BY <2>2, StepKinds, Keeps, ReturnMeans
  <2> QED BY <2>1, <2>2
<1>4. \A a \in Apps \ ClientApps : arrived'[a] = arrived[a]
  <2>1. CASE \E e \in queue : Deliver(e)
    <3>1. PICK e, a : e \in queue /\ Deliver(e) /\ a = e.call.app
      BY <2>1
    <3>2. Takes(e, "Request") /\ arrived' = [arrived EXCEPT ![a] = arrived[a] + 1]
      BY <3>1, DeliverMeans, Zenon
    <3>3. a \in ClientApps
      BY <3>1, <3>2, ReceivesMeans DEF Flights
    <3> QED BY <3>2, <3>3 DEF Clock, Basics
  <2>2. CASE ~\E e \in queue : Deliver(e)
    BY <2>2, StepKinds, Keeps, ReturnMeans
  <2> QED BY <2>1, <2>2
<1> QED BY <1>2, <1>3, <1>4 DEF Replies

(* The types, the order of the events and their numbering, and that nothing*)
(* arrives that was not sent.                                              *)
THEOREM TypeCorrect == Spec => []TypeOK
<1> DEFINE I == Clock /\ SendTimes /\ Counts /\ Replies /\ Measures
<1>1. Init => I
  <2>1. Init => Measures
    BY DEF Init, Measures
  <2>2. Init => Replies
    BY DEF Init, Replies
  <2> QED BY <2>1, <2>2, InitClock, InitSendTimes, InitCounts
<1>2. I /\ [Next]_vars => I'
  BY ClockStep, SendTimesStep, CountsStep, RepliesStep, MeasuresStep
<1>3. I => TypeOK
  <2> SUFFICES ASSUME I PROVE TypeOK
    OBVIOUS
  <2>1. \A e \in queue : now <= e.ts /\ e.uid < uid
    BY DEF Clock, Events
  <2>2. \A a \in Apps : sent[a] \in 0..App(a).max /\ arrived[a] \in 0..sent[a]
    <3>1. \A a \in Apps : sent[a] \in Nat /\ arrived[a] \in Nat /\ App(a).max \in Nat
      BY AppFacts DEF Clock, Basics
    <3>2. \A a \in Apps : sent[a] <= App(a).max /\ arrived[a] <= sent[a]
      <4> SUFFICES ASSUME NEW a \in Apps
                   PROVE  sent[a] <= App(a).max /\ arrived[a] <= sent[a]
        OBVIOUS
      <4>1. CASE a \in ClientApps
        <5>1. sent[a] <= App(a).max
          BY <4>1 DEF SendTimes
        <5>2. Cardinality(Traffic("Request", a)) \in Nat
              /\ Cardinality(Traffic("Request", a)) + arrived[a] <= sent[a]
          BY <4>1, CountTypes DEF Flights
        <5> QED BY <3>1, <5>1, <5>2
      <4>2. CASE a \notin ClientApps
        BY <3>1, <4>2 DEF Replies
      <4> QED BY <4>1, <4>2
    <3> QED BY <3>1, <3>2
  <2>3. \A f \in DOMAIN measured : f[1] \in TcpClients /\ measured[f] \in 1..MaxMeasure
    <3>1. CASE done
      <4>1. measured \in [Monitored -> 1..MaxMeasure]
        BY <3>1 DEF Measures
      <4>2. \A f \in Monitored : f[1] \in TcpClients
        BY DEF Monitored
      <4> QED BY <4>1, <4>2
    <3>2. CASE ~done
      BY <3>2 DEF Measures
    <3> QED BY <3>1, <3>2
  <2> QED BY <2>1, <2>2, <2>3 DEF Clock, Basics, Events, TypeOK
<1> QED BY <1>1, <1>2, <1>3, PTL DEF Spec

-----------------------------------------------------------------------------
(* Sums over finite sets.                                                  *)

(* Of some subsets of a finite set one contains no other.                  *)
LEMMA MinimalExists ==
    ASSUME NEW X, IsFiniteSet(X), NEW B, B \subseteq SUBSET X, B # {}
    PROVE  \E T \in B : \A U \in SUBSET T : U # T => U \notin B
<1>1. IsWellFoundedOn(StrictSubsetOrdering(X), SUBSET X)
  BY FS_StrictSubsetOrderingWellFounded, FS_FiniteSubsetsOfFinite
<1>2. PICK T \in B : \A U \in B : <<U, T>> \notin StrictSubsetOrdering(X)
  BY <1>1, WFMin
<1>3. \A U \in SUBSET T : U # T /\ U \in B => FALSE
  BY <1>2 DEF StrictSubsetOrdering
<1> QED BY <1>3

(* The sums of the community modules begin with this element.              *)
Pick(s) == CHOOSE x \in s : TRUE
Rec(f, T, g) ==
    g = [s \in SUBSET T |-> IF s = {} THEN 0 ELSE f[Pick(s)] + g[s \ {Pick(s)}]]

LEMMA SumIs ==
    ASSUME NEW f, NEW T
    PROVE  SumFunctionOnSet(f, T) = (CHOOSE g : Rec(f, T, g))[T]
BY Zenon DEF SumFunctionOnSet, FoldFunctionOnSet, MapThenFoldSet, Rec, Pick

LEMMA PickIn ==
    ASSUME NEW s, s # {}
    PROVE  Pick(s) \in s /\ s \ {Pick(s)} \in SUBSET s /\ s \ {Pick(s)} # s
<1>1. Pick(s) \in s
  BY DEF Pick
<1> QED BY <1>1

LEMMA RecUnique ==
    ASSUME NEW f, NEW X, IsFiniteSet(X), NEW T \in SUBSET X, NEW U \in SUBSET X,
           NEW g, Rec(f, T, g), NEW h, Rec(f, U, h), NEW s \in SUBSET (T \cap U)
    PROVE  g[s] = h[s]
<1> DEFINE B == {t \in SUBSET (T \cap U) : g[t] # h[t]}
<1> SUFFICES ASSUME g[s] # h[s] PROVE FALSE
  OBVIOUS
<1>1. IsFiniteSet(T \cap U)
  BY FS_Subset
<1>2. PICK t \in B : \A u \in SUBSET t : u # t => u \notin B
  <2>1. B # {} /\ B \subseteq SUBSET (T \cap U)
    OBVIOUS
  <2> HIDE DEF B
  <2> QED BY <1>1, <2>1, MinimalExists
<1>3. g[t] = IF t = {} THEN 0 ELSE f[Pick(t)] + g[t \ {Pick(t)}]
  BY <1>2 DEF Rec
<1>4. h[t] = IF t = {} THEN 0 ELSE f[Pick(t)] + h[t \ {Pick(t)}]
  BY <1>2 DEF Rec
<1>5. t # {} => g[t \ {Pick(t)}] = h[t \ {Pick(t)}]
  BY <1>2, PickIn
<1> QED BY <1>2, <1>3, <1>4, <1>5

LEMMA RecExists ==
    ASSUME NEW f, NEW X, IsFiniteSet(X), NEW T0 \in SUBSET X
    PROVE  \E g : Rec(f, T0, g)
<1> DEFINE B == {T \in SUBSET X : \A g : ~Rec(f, T, g)}
<1> SUFFICES ASSUME \A g : ~Rec(f, T0, g) PROVE FALSE
  OBVIOUS
<1>1. PICK T \in B : \A U \in SUBSET T : U # T => U \notin B
  <2>1. B # {} /\ B \subseteq SUBSET X
    OBVIOUS
  <2> HIDE DEF B
  <2> QED BY <2>1, MinimalExists
<1> DEFINE of(s) == CHOOSE g : Rec(f, s, g)
           val(s) == IF s = {} THEN 0 ELSE f[Pick(s)] + of(s \ {Pick(s)})[s \ {Pick(s)}]
           g == [s \in SUBSET T |-> val(s)]
<1>2. \A s \in SUBSET T : s # T => Rec(f, s, of(s))
  BY <1>1
<1>3. \A s \in SUBSET T : s # T => of(s)[s] = val(s)
  <2> SUFFICES ASSUME NEW s \in SUBSET T, s # T PROVE of(s)[s] = val(s)
    OBVIOUS
  <2>1. Rec(f, s, of(s))
    BY <1>2
  <2>2. of(s)[s] = IF s = {} THEN 0 ELSE f[Pick(s)] + of(s)[s \ {Pick(s)}]
    <3> HIDE DEF of
    <3> QED BY <2>1 DEF Rec
  <2>3. ASSUME s # {} PROVE of(s)[s \ {Pick(s)}] = of(s \ {Pick(s)})[s \ {Pick(s)}]
    <3>1. Pick(s) \in s /\ s \ {Pick(s)} \in SUBSET s /\ s \ {Pick(s)} # s
      BY <2>3, PickIn
    <3>2. s \in SUBSET X /\ s \ {Pick(s)} \in SUBSET X /\ s \ {Pick(s)} \in SUBSET T
          /\ s \ {Pick(s)} # T
      BY <1>1, <3>1
    <3>3. Rec(f, s \ {Pick(s)}, of(s \ {Pick(s)}))
      BY <1>2, <3>2
    <3>4. s \ {Pick(s)} \in SUBSET (s \cap (s \ {Pick(s)}))
      BY <3>1
    <3>5. IsFiniteSet(X) /\ s \in SUBSET X
      BY <3>2
    <3> DEFINE u == s \ {Pick(s)}
               ofS == of(s)
               ofU == of(u)
    <3>6. /\ Rec(f, s, ofS) /\ Rec(f, u, ofU)
          /\ u \in SUBSET X /\ u \in SUBSET (s \cap u)
      BY <2>1, <3>2, <3>3, <3>4
    <3> HIDE DEF u, ofS, ofU
    <3>7. ofS[u] = ofU[u]
      BY ONLY <3>5, <3>6, RecUnique
    <3> QED BY <3>7 DEF u, ofS, ofU
  <2> HIDE DEF of
  <2> QED BY <2>2, <2>3
<1>4. Rec(f, T, g)
  <2>1. ASSUME NEW s \in SUBSET T
        PROVE  g[s] = IF s = {} THEN 0 ELSE f[Pick(s)] + g[s \ {Pick(s)}]
    <3>1. CASE s = {}
      BY <3>1
    <3>2. CASE s # {}
      <4>1. Pick(s) \in s /\ s \ {Pick(s)} \in SUBSET T /\ s \ {Pick(s)} # T
        BY <3>2, PickIn
      <4>2. of(s \ {Pick(s)})[s \ {Pick(s)}] = val(s \ {Pick(s)})
        BY <1>3, <4>1
      <4>3. g[s \ {Pick(s)}] = val(s \ {Pick(s)}) /\ g[s] = val(s)
        BY <4>1
      <4> HIDE DEF of, g
      <4> QED BY <3>2, <4>2, <4>3
    <3> QED BY <3>1, <3>2
  <2>2. g = [s \in SUBSET T |-> g[s]]
    OBVIOUS
  <2> HIDE DEF g
  <2> QED BY <2>1, <2>2 DEF Rec
<1> QED BY <1>1, <1>4

(* The sum over a set, by the one element it begins with.                  *)
LEMMA SumUnfolds ==
    ASSUME NEW f, NEW X, IsFiniteSet(X)
    PROVE  /\ SumFunctionOnSet(f, {}) = 0
           /\ X # {} => SumFunctionOnSet(f, X) =
                           f[Pick(X)] + SumFunctionOnSet(f, X \ {Pick(X)})
<1> DEFINE of(T) == CHOOSE g : Rec(f, T, g)
<1>1. \A T \in SUBSET X : Rec(f, T, of(T))
  BY RecExists
<1>2. \A T : SumFunctionOnSet(f, T) = of(T)[T]
  BY SumIs
<1> HIDE DEF of
<1>3. \A T \in SUBSET X : of(T)[T] = IF T = {} THEN 0 ELSE f[Pick(T)] + of(T)[T \ {Pick(T)}]
  BY <1>1 DEF Rec
<1>4. ASSUME X # {}
      PROVE  of(X)[X \ {Pick(X)}] = of(X \ {Pick(X)})[X \ {Pick(X)}]
  <2>1. X \ {Pick(X)} \in SUBSET X
    OBVIOUS
  <2>2. X \ {Pick(X)} \in SUBSET (X \cap (X \ {Pick(X)}))
    OBVIOUS
  <2>3. X \in SUBSET X
    OBVIOUS
  <2>4. Rec(f, X, of(X)) /\ Rec(f, X \ {Pick(X)}, of(X \ {Pick(X)}))
    BY <1>1, <2>1, <2>3
  <2> DEFINE g == of(X)
             h == of(X \ {Pick(X)})
             V == X \ {Pick(X)}
  <2>5. Rec(f, X, g) /\ Rec(f, V, h) /\ V \in SUBSET X /\ V \in SUBSET (X \cap V)
    BY <2>1, <2>2, <2>4
  <2>6. g[V] = h[V]
    <3> HIDE DEF g, h, V
    <3>1. IsFiniteSet(X)
      OBVIOUS
    <3>2. PICK Y : Y = X
      OBVIOUS
    <3>3. Rec(f, Y, g) /\ Y \in SUBSET X /\ V \in SUBSET (Y \cap V)
      BY <2>5, <3>2
    <3>4. V \in SUBSET (Y \cap V) /\ Rec(f, V, h) /\ V \in SUBSET X
      BY <2>5, <3>3
    <3>5. \A s \in SUBSET (Y \cap V) : g[s] = h[s]
      BY ONLY <3>1, <3>3, <3>4, RecUnique
    <3> QED BY <3>4, <3>5
  <2> QED BY <2>6
<1>5. SumFunctionOnSet(f, {}) = 0
  <2>1. {} \in SUBSET X
    OBVIOUS
  <2> QED BY <1>2, <1>3, <2>1
<1> QED BY <1>2, <1>3, <1>4, <1>5

LEMMA SumOfOne ==
    ASSUME NEW f, NEW s, f[s] \in Int
    PROVE  SumFunctionOnSet(f, {s}) = f[s] /\ SumFunctionOnSet(f, {}) = 0
<1>1. IsFiniteSet({s}) /\ {s} # {}
  BY FS_Singleton
<1>2. Pick({s}) = s
  BY PickIn
<1>3. {s} \ {s} = {}
  OBVIOUS
<1>4. /\ SumFunctionOnSet(f, {}) = 0
      /\ SumFunctionOnSet(f, {s}) = f[s] + SumFunctionOnSet(f, {})
  BY <1>1, <1>2, <1>3, SumUnfolds
<1>5. f[s] + 0 = f[s]
  OBVIOUS
<1> QED BY <1>4, <1>5

(* Induction on the subsets of a finite set, an element at a time.         *)
LEMMA PickInduction ==
    ASSUME NEW X, IsFiniteSet(X), NEW G, {} \in G,
           \A T \in SUBSET X : T # {} /\ T \ {Pick(T)} \in G => T \in G
    PROVE  X \in G
<1> DEFINE B == {T \in SUBSET X : T \notin G}
<1> SUFFICES ASSUME X \notin G PROVE FALSE
  OBVIOUS
<1>1. B # {} /\ B \subseteq SUBSET X
  OBVIOUS
<1>2. PICK T \in B : \A U \in SUBSET T : U # T => U \notin B
  <2> HIDE DEF B
  <2> QED BY <1>1, MinimalExists
<1>3. T # {} /\ T \in SUBSET X /\ T \notin G
  BY <1>2
<1>4. T \ {Pick(T)} \in SUBSET T /\ T \ {Pick(T)} # T
  BY <1>3, PickIn
<1> QED BY <1>2, <1>3, <1>4

(* A sum takes the element it begins with.                                 *)
LEMMA SumTakes ==
    ASSUME NEW X, IsFiniteSet(X), NEW T \in SUBSET X, T # {}
    PROVE  /\ Pick(T) \in T /\ Pick(T) \in X /\ T \ {Pick(T)} \in SUBSET X
           /\ \A f : SumFunctionOnSet(f, T) =
                        f[Pick(T)] + SumFunctionOnSet(f, T \ {Pick(T)})
<1>1. IsFiniteSet(T)
  BY FS_Subset
<1> QED BY <1>1, PickIn, SumUnfolds

LEMMA SumOfNone == \A f : SumFunctionOnSet(f, {}) = 0
BY FS_EmptySet, SumUnfolds

(* A sum of numbers is one, and none of nothing.                           *)
LEMMA SumNat ==
    ASSUME NEW X, IsFiniteSet(X), NEW f, \A x \in X : f[x] \in Nat
    PROVE  /\ SumFunctionOnSet(f, X) \in Nat
           /\ (\A x \in X : f[x] = 0) => SumFunctionOnSet(f, X) = 0
<1> DEFINE s(T) == SumFunctionOnSet(f, T)
           G == {T \in SUBSET X : s(T) \in Nat /\ ((\A x \in T : f[x] = 0) => s(T) = 0)}
<1>1. s({}) = 0
  BY SumOfNone
<1>2. ASSUME NEW T \in SUBSET X, T # {}, T \ {Pick(T)} \in G
      PROVE  T \in G
  <2>1. Pick(T) \in T /\ Pick(T) \in X /\ s(T) = f[Pick(T)] + s(T \ {Pick(T)})
    BY <1>2, SumTakes
  <2> HIDE DEF s
  <2> QED BY <1>2, <2>1
<1>3. {} \in G
  <2> HIDE DEF s
  <2> QED BY <1>1
<1>4. X \in G
  <2> HIDE DEF G
  <2> QED BY <1>2, <1>3, PickInduction
<1> QED BY <1>4

(* The sum of two functions.                                               *)
LEMMA SumPlus ==
    ASSUME NEW X, IsFiniteSet(X), NEW f, NEW g, NEW h,
           \A x \in X : f[x] \in Nat /\ g[x] \in Nat /\ h[x] = f[x] + g[x]
    PROVE  SumFunctionOnSet(h, X) = SumFunctionOnSet(f, X) + SumFunctionOnSet(g, X)
<1> DEFINE sf(T) == SumFunctionOnSet(f, T)
           sg(T) == SumFunctionOnSet(g, T)
           sh(T) == SumFunctionOnSet(h, T)
           G == {T \in SUBSET X : sf(T) \in Nat /\ sg(T) \in Nat /\ sh(T) = sf(T) + sg(T)}
<1>1. sf({}) = 0 /\ sg({}) = 0 /\ sh({}) = 0
  BY SumOfNone
<1>2. ASSUME NEW T \in SUBSET X, T # {}, T \ {Pick(T)} \in G
      PROVE  T \in G
  <2>1. /\ Pick(T) \in X
        /\ sf(T) = f[Pick(T)] + sf(T \ {Pick(T)})
        /\ sg(T) = g[Pick(T)] + sg(T \ {Pick(T)})
        /\ sh(T) = h[Pick(T)] + sh(T \ {Pick(T)})
    BY <1>2, SumTakes
  <2> HIDE DEF sf, sg, sh
  <2> QED BY <1>2, <2>1
<1>3. {} \in G
  <2> HIDE DEF sf, sg, sh
  <2> QED BY <1>1
<1>4. X \in G
  <2> HIDE DEF G
  <2> QED BY <1>2, <1>3, PickInduction
<1> QED BY <1>4

(* A sum is monotonic.                                                     *)
LEMMA SumMono ==
    ASSUME NEW X, IsFiniteSet(X), NEW f, NEW g,
           \A x \in X : f[x] \in Nat /\ g[x] \in Nat /\ f[x] <= g[x]
    PROVE  SumFunctionOnSet(f, X) <= SumFunctionOnSet(g, X)
<1> DEFINE h == [x \in X |-> g[x] - f[x]]
<1>1. \A x \in X : f[x] \in Nat /\ h[x] \in Nat /\ g[x] = f[x] + h[x]
  OBVIOUS
<1> HIDE DEF h
<1>2. /\ SumFunctionOnSet(g, X) = SumFunctionOnSet(f, X) + SumFunctionOnSet(h, X)
      /\ SumFunctionOnSet(f, X) \in Nat /\ SumFunctionOnSet(h, X) \in Nat
  BY <1>1, SumPlus, SumNat
<1> QED BY <1>2

-----------------------------------------------------------------------------
(* The square of a sum and the sum of the squares.                         *)

LEMMA SquareOf ==
    ASSUME NEW z \in Int
    PROVE  z * z >= 0 /\ (z * z = 0 <=> z = 0)
OBVIOUS

LEMMA Distances ==
    ASSUME NEW n \in Int, NEW q \in Int, NEW s \in Int, NEW x \in Int, NEW z \in Int
    PROVE  ((n + 1) * (x * x) + (z * z + q)) - 2 * (x * (z + s))
              = ((n * (x * x) + q) - 2 * (x * s)) + (z - x) * (z - x)
<1>1. (n + 1) * (x * x) = n * (x * x) + x * x
  OBVIOUS
<1>2. 2 * (x * (z + s)) = 2 * (x * z) + 2 * (x * s)
  OBVIOUS
<1>3. (z - x) * (z - x) = (z * z + x * x) - 2 * (x * z)
  OBVIOUS
<1> QED BY <1>1, <1>2, <1>3

LEMMA Variances ==
    ASSUME NEW n \in Int, NEW q \in Int, NEW s \in Int, NEW z \in Int
    PROVE  (n + 1) * (z * z + q) - (z + s) * (z + s)
              = (n * q - s * s) + ((n * (z * z) + q) - 2 * (z * s))
<1>1. (n + 1) * (z * z + q) = ((n * (z * z) + z * z) + n * q) + q
  <2>1. (n + 1) * (z * z + q) = n * (z * z + q) + (z * z + q)
    OBVIOUS
  <2>2. n * (z * z + q) = n * (z * z) + n * q
    OBVIOUS
  <2> QED BY <2>1, <2>2
<1>2. (z + s) * (z + s) = (z * z + s * s) + 2 * (z * s)
  OBVIOUS
<1> QED BY <1>1, <1>2

(* n x^2 + sum f^2 - 2 x sum f is the sum of the squares of f - x.         *)
Distance(f, g, T, x) ==
    (Cardinality(T) * (x * x) + SumFunctionOnSet(g, T)) - 2 * (x * SumFunctionOnSet(f, T))

LEMMA DistanceMeans ==
    ASSUME NEW X, IsFiniteSet(X), NEW f, NEW g,
           \A y \in X : f[y] \in Nat /\ g[y] = f[y] * f[y],
           NEW x \in Nat
    PROVE  /\ Distance(f, g, X, x) \in Nat
           /\ Distance(f, g, X, x) = 0 <=> \A y \in X : f[y] = x
<1> DEFINE sf(T) == SumFunctionOnSet(f, T)
           sg(T) == SumFunctionOnSet(g, T)
           c(T) == Cardinality(T)
           d(T) == Distance(f, g, T, x)
           G == {T \in SUBSET X : /\ sf(T) \in Nat /\ sg(T) \in Nat /\ c(T) \in Nat /\ d(T) \in Nat
                                  /\ d(T) = 0 <=> \A y \in T : f[y] = x}
<1>1. {} \in G
  <2>1. sf({}) = 0 /\ sg({}) = 0 /\ c({}) = 0
    BY SumOfNone, FS_EmptySet
  <2>2. d({}) = (0 * (x * x) + 0) - 2 * (x * 0)
    BY <2>1 DEF Distance
  <2>3. d({}) = 0
    BY <2>2
  <2> HIDE DEF sf, sg, c, d
  <2> QED BY <2>1, <2>3
<1>2. ASSUME NEW T \in SUBSET X, T # {}, T \ {Pick(T)} \in G
      PROVE  T \in G
  <2>1. PICK p, U : p = Pick(T) /\ U = T \ {p}
    OBVIOUS
  <2>2. p \in T /\ p \in X /\ sf(T) = f[p] + sf(U) /\ sg(T) = g[p] + sg(U)
    BY <1>2, <2>1, SumTakes
  <2>3. U \in G
    BY <1>2, <2>1
  <2>4. c(T) = c(U) + 1 /\ c(U) \in Nat
    <3>1. IsFiniteSet(T)
      BY FS_Subset
    <3>2. c(U) = c(T) - 1 /\ c(T) \in Nat
      BY <2>1, <2>2, <3>1, FS_RemoveElement, FS_CardinalityType
    <3>3. c(U) \in Nat
      BY <2>3
    <3> HIDE DEF c
    <3> QED BY <3>2, <3>3
  <2>5. PICK s, q, n, z : s = sf(U) /\ q = sg(U) /\ n = c(U) /\ z = f[p]
    OBVIOUS
  <2>6. s \in Nat /\ q \in Nat /\ n \in Nat /\ z \in Nat /\ g[p] = z * z
    BY <2>2, <2>3, <2>5
  <2>7. d(T) = ((n + 1) * (x * x) + (z * z + q)) - 2 * (x * (z + s))
    BY <2>2, <2>4, <2>5, <2>6 DEF Distance
  <2>8. d(U) = (n * (x * x) + q) - 2 * (x * s)
    BY <2>5 DEF Distance
  <2>9. d(T) = d(U) + (z - x) * (z - x)
    BY <2>6, <2>7, <2>8, Distances
  <2>10. d(U) \in Nat /\ (d(U) = 0 <=> \A y \in U : f[y] = x)
    BY <2>3
  <2>11. z - x \in Int /\ (z - x) * (z - x) \in Nat
         /\ ((z - x) * (z - x) = 0 <=> z = x)
    <3>1. z - x \in Int /\ (z - x = 0 <=> z = x)
      BY <2>6
    <3> QED BY <3>1, SquareOf
  <2> HIDE DEF d, sf, sg, c
  <2>12. d(T) \in Nat /\ (d(T) = 0 <=> d(U) = 0 /\ z = x)
    BY <2>9, <2>10, <2>11
  <2>13. (\A y \in T : f[y] = x) <=> (\A y \in U : f[y] = x) /\ z = x
    BY <2>1, <2>2, <2>5
  <2>14. sf(T) \in Nat /\ sg(T) \in Nat /\ c(T) \in Nat
    BY <2>2, <2>4, <2>5, <2>6
  <2> QED BY <2>10, <2>12, <2>13, <2>14
<1>3. X \in G
  <2> HIDE DEF G
  <2> QED BY <1>1, <1>2, PickInduction
<1> QED BY <1>3

(* The squared sum is at most n times the sum of the squares, equal to it  *)
(* only if all values are equal, and at least the sum of the squares.      *)
LEMMA SquaredSum ==
    ASSUME NEW X, IsFiniteSet(X), NEW f, NEW g,
           \A y \in X : f[y] \in Nat \ {0} /\ g[y] = f[y] * f[y],
           NEW s, s = SumFunctionOnSet(f, X), NEW q, q = SumFunctionOnSet(g, X),
           NEW n, n = Cardinality(X)
    PROVE  /\ s \in Nat /\ q \in Nat /\ n \in Nat
           /\ s * s <= n * q
           /\ s * s = n * q <=> \A y, z \in X : f[y] = f[z]
           /\ q <= s * s
           /\ X # {} => q > 0
<1> DEFINE sf(T) == SumFunctionOnSet(f, T)
           sg(T) == SumFunctionOnSet(g, T)
           c(T) == Cardinality(T)
           d(T) == c(T) * sg(T) - sf(T) * sf(T)
           G == {T \in SUBSET X :
                    /\ sf(T) \in Nat /\ sg(T) \in Nat /\ c(T) \in Nat /\ d(T) \in Nat
                    /\ d(T) = 0 <=> \A y, z \in T : f[y] = f[z]
                    /\ sg(T) <= sf(T) * sf(T)
                    /\ T # {} => sg(T) > 0}
<1>1. {} \in G
  <2>1. sf({}) = 0 /\ sg({}) = 0 /\ c({}) = 0
    BY SumOfNone, FS_EmptySet
  <2> HIDE DEF sf, sg, c
  <2>2. d({}) = 0
    BY <2>1
  <2> QED BY <2>1, <2>2
<1>2. ASSUME NEW T \in SUBSET X, T # {}, T \ {Pick(T)} \in G
      PROVE  T \in G
  <2>1. PICK p, U : p = Pick(T) /\ U = T \ {p}
    OBVIOUS
  <2>2. p \in T /\ p \in X /\ sf(T) = f[p] + sf(U) /\ sg(T) = g[p] + sg(U)
    BY <1>2, <2>1, SumTakes
  <2>3. U \in G
    BY <1>2, <2>1
  <2>4. c(T) = c(U) + 1 /\ c(U) \in Nat /\ IsFiniteSet(U) /\ U \subseteq X
    <3>1. IsFiniteSet(T)
      BY FS_Subset
    <3>2. c(U) = c(T) - 1 /\ c(T) \in Nat /\ IsFiniteSet(U)
      BY <2>1, <2>2, <3>1, FS_RemoveElement, FS_CardinalityType
    <3>3. c(U) \in Nat
      BY <2>3
    <3> HIDE DEF c
    <3> QED BY <2>1, <3>2, <3>3
  <2>5. PICK s1, q1, n1, z : s1 = sf(U) /\ q1 = sg(U) /\ n1 = c(U) /\ z = f[p]
    OBVIOUS
  <2>6. s1 \in Nat /\ q1 \in Nat /\ n1 \in Nat /\ z \in Nat \ {0} /\ g[p] = z * z
    BY <2>2, <2>3, <2>5
  <2>7. PICK e : e = Distance(f, g, U, z)
    OBVIOUS
  <2>8. e \in Nat /\ (e = 0 <=> \A y \in U : f[y] = z)
    <3>1. \A y \in U : f[y] \in Nat /\ g[y] = f[y] * f[y]
      BY <2>4
    <3>2. z \in Nat
      BY <2>6
    <3> QED BY <2>4, <2>7, <3>1, <3>2, DistanceMeans
  <2>9. e = (n1 * (z * z) + q1) - 2 * (z * s1)
    BY <2>5, <2>7 DEF Distance
  <2>10. d(T) = (n1 + 1) * (z * z + q1) - (z + s1) * (z + s1)
    BY <2>2, <2>4, <2>5, <2>6
  <2>11. d(U) = n1 * q1 - s1 * s1
    BY <2>5
  <2>12. d(T) = d(U) + e
    BY <2>6, <2>9, <2>10, <2>11, Variances
  <2>13. d(U) \in Nat /\ (d(U) = 0 <=> \A y, w \in U : f[y] = f[w]) /\ q1 <= s1 * s1
    BY <2>3, <2>5
  <2> HIDE DEF d, sf, sg, c
  <2>14. d(T) \in Nat /\ (d(T) = 0 <=> d(U) = 0 /\ e = 0)
    BY <2>8, <2>12, <2>13
  <2>15. (\A y, w \in T : f[y] = f[w]) <=>
            (\A y, w \in U : f[y] = f[w]) /\ \A y \in U : f[y] = z
    BY <2>1, <2>2, <2>5
  <2>16. sf(T) \in Nat /\ sg(T) \in Nat /\ c(T) \in Nat /\ sf(T) = z + s1 /\ sg(T) = z * z + q1
    BY <2>2, <2>4, <2>5, <2>6
  <2>17. z * z + q1 <= (z + s1) * (z + s1)
    <3>1. (z + s1) * (z + s1) = (z * z + s1 * s1) + 2 * (z * s1)
      BY <2>6
    <3>2. z * s1 \in Nat
      BY <2>6
    <3> QED BY <2>6, <2>13, <3>1, <3>2
  <2>18. z * z + q1 > 0
    <3>1. z * z >= 0 /\ z * z # 0
      BY <2>6, SquareOf
    <3> QED BY <2>6, <3>1
  <2>19. d(T) = 0 <=> \A y, w \in T : f[y] = f[w]
    BY <2>8, <2>13, <2>14, <2>15
  <2>20. sg(T) <= sf(T) * sf(T) /\ sg(T) > 0
    BY <2>16, <2>17, <2>18
  <2> QED BY <2>14, <2>16, <2>19, <2>20
<1>3. X \in G
  <2> HIDE DEF G
  <2> QED BY <1>1, <1>2, PickInduction
<1>4. /\ s \in Nat /\ q \in Nat /\ n \in Nat /\ n * q - s * s \in Nat
      /\ n * q - s * s = 0 <=> \A y, z \in X : f[y] = f[z]
      /\ q <= s * s
      /\ X # {} => q > 0
  BY <1>3
<1>5. PICK u, v : u = n * q /\ v = s * s
  OBVIOUS
<1>6. u \in Int /\ v \in Int /\ u - v \in Nat
  BY <1>4, <1>5
<1>7. v <= u /\ (u - v = 0 <=> v = u)
  BY <1>6
<1> QED BY <1>4, <1>5, <1>7

-----------------------------------------------------------------------------
(* Every server is open before anything arrives for it, and hears the      *)
(* datagrams of one client.                                                *)

(* The server of a client starts before it.                                *)
LEMMA Own ==
    ASSUME main \in DOMAIN Mains, NEW a \in Apps, NEW b \in Apps, App(a).port = App(b).port
    PROVE  /\ App(a).addr = App(b).addr /\ (a \in ClientApps <=> b \in ClientApps) => a = b
           /\ a \in ClientApps /\ b \notin ClientApps /\ App(a).addr = App(b).node =>
                 /\ App(b).addr = App(a).addr
                 /\ \/ App(b).start < App(a).start
                    \/ App(b).start = App(a).start /\ App(a).node # App(a).addr
<1>1. S = Mains[main]
  BY ScenarioFacts
<1>2. /\ a \in ClientApps <=> App(a).kind \in Clients
      /\ b \in ClientApps <=> App(b).kind \in Clients
      /\ b \notin ClientApps <=> App(b).kind \in Servers
  BY AppFacts
<1>3. a \in DOMAIN Mains[main].apps /\ b \in DOMAIN Mains[main].apps
      /\ App(a) = Mains[main].apps[a] /\ App(b) = Mains[main].apps[b]
  BY <1>1 DEF Apps, App
<1>4. LET A == Mains[main].apps[a]
          B == Mains[main].apps[b]
      IN A.port = B.port =>
            /\ A.addr = B.addr /\ (A.kind \in Clients <=> B.kind \in Clients) => a = b
            /\ A.kind \in Clients /\ B.kind \in Servers /\ A.addr = B.node =>
                  /\ B.addr = A.addr
                  /\ B.start < A.start \/ (B.start = A.start /\ A.node # A.addr)
  BY <1>3, OwnServers
<1> QED BY <1>2, <1>3, <1>4

(* No two servers hear the same client, no two clients the same server.    *)
LEMMA OwnListeners ==
    ASSUME main \in DOMAIN Mains, NEW a \in ClientApps
    PROVE  /\ \A s \in Listeners(a) : s \in Apps /\ s \notin ClientApps
           /\ \A s, t \in Listeners(a) : s = t
           /\ \A b \in ClientApps : b # a => Listeners(b) \cap Listeners(a) = {}
           /\ \A s \in Apps \ ClientApps :
                 s \in Listeners(a) <=> App(s).node = App(a).addr /\ App(s).port = App(a).port
<1>1. \A b \in ClientApps : b \in Apps
  BY DEF ClientApps
<1>2. \A b \in ClientApps : \A s \in Listeners(b) :
         s \in Apps /\ s \notin ClientApps
         /\ App(s).node = App(b).addr /\ App(s).addr = App(b).addr /\ App(s).port = App(b).port
  BY DEF Listeners, Listens
<1>3. \A s, t \in Listeners(a) : s = t
  BY <1>2, Own
<1>4. \A b \in ClientApps : b # a => Listeners(b) \cap Listeners(a) = {}
  <2> SUFFICES ASSUME NEW b \in ClientApps, NEW s \in Listeners(b), s \in Listeners(a)
               PROVE  b = a
    OBVIOUS
  <2>1. App(a).port = App(b).port /\ App(a).addr = App(b).addr
    BY <1>2
  <2> QED BY <1>1, <2>1, Own
<1>5. \A s \in Apps \ ClientApps :
         App(s).node = App(a).addr /\ App(s).port = App(a).port => App(s).addr = App(a).addr
  BY <1>1, Own
<1> QED BY <1>2, <1>3, <1>4, <1>5 DEF Listeners, Listens

(* Every step keeps Late.                                                  *)
LEMMA LateStep ==
    ASSUME Clock, Late, [Next]_vars
    PROVE  Late'
<1>1. main' = main /\ main \in DOMAIN Mains
  BY StepKinds, Keeps, ReturnMeans DEF Clock, Basics
<1>2. \A a : (App(a))' = App(a)
  BY <1>1, SameMain
<1> DEFINE Ok(x) == LET a == x.call.app
                    IN IF App(a).node = App(a).addr THEN App(a).start <= x.ts
                       ELSE App(a).start < x.ts
<1>3. \A x \in InNetwork : x.call.do = "Request" => Ok(x)
  BY DEF Late
<1>4. (\A x \in InNetwork' : x.call.do = "Request" => Ok(x)) => Late'
  BY <1>2 DEF Late
<1> HIDE DEF Ok
<1>5. CASE \/ Return \/ UNCHANGED vars
           \/ \E e \in queue : Initialize(e) \/ Start(e) \/ AttachTraces(e) \/ Halt(e)
                               \/ Answer(e) \/ Drop(e)
  <2>1. CASE Return \/ UNCHANGED vars
    BY <1>3, <1>4, <2>1, ReturnMeans DEF InNetwork
  <2>2. CASE \E e \in queue : Initialize(e) \/ Start(e) \/ AttachTraces(e) \/ Halt(e)
    BY <1>3, <1>4, <2>2, QuietNet
  <2>3. CASE \E e \in queue : Answer(e) \/ Drop(e)
    BY <1>3, <1>4, <2>3, LeaveNet
  <2> QED BY <1>5, <2>1, <2>2, <2>3
<1>6. ASSUME NEW e \in queue, Send(e) PROVE Late'
  <2>1. PICK a : a = e.call.app
    OBVIOUS
  <2>2. Takes(e, "Send") /\ a \in ClientApps /\ e.ts = NextSend(a) /\ sent[a] \in Nat
    BY <1>6, <2>1, SendMeans
  <2>3. now' = e.ts /\ e.ts \in Nat
    BY <2>2, First
  <2>4. /\ a \in Apps /\ App(a).start \in Nat /\ App(a).interval \in Nat
        /\ FirstSend(a) \in Nat /\ App(a).start <= FirstSend(a)
    BY <1>1, <2>2, AppInScenario, AppFacts
  <2>5. App(a).start <= e.ts
    <3>1. sent[a] * App(a).interval \in Nat
      BY <2>2, <2>4
    <3> QED BY <2>2, <2>3, <2>4, <3>1 DEF NextSend
  <2>6. PICK x : /\ InNetwork' = InNetwork \cup {x}
                 /\ Enters(x, "Request", a, sent[a] + 1, Src("Request", a), Dst("Request", a))
    BY <1>6, <2>1, SendNet
  <2>7. x.call.app = a /\ now' <= x.ts /\ x.ts \in Nat
        /\ (App(a).node # App(a).addr => now' < x.ts)
    BY <2>6 DEF Enters, Src, Dst
  <2>8. Ok(x)
    BY <2>3, <2>4, <2>5, <2>7 DEF Ok
  <2> QED BY <1>3, <1>4, <2>6, <2>8
<1>7. ASSUME NEW e \in queue, ForwardRequest(e) \/ ForwardEcho(e) PROVE Late'
  <2>1. PICK a, d : a = e.call.app /\ d = e.call.do
    OBVIOUS
  <2>2. d \in Flights /\ Takes(e, d)
    BY <1>7, <2>1, ForwardMeans
  <2>3. now' = e.ts /\ e.ts \in Nat /\ e \in InNetwork
    BY <2>1, <2>2, First DEF InNetwork
  <2>4. a \in Apps
    BY <2>1, <2>2, ReceivesMeans
  <2>5. App(a).start \in Nat
    BY <1>1, <2>4, AppFacts
  <2>6. PICK x : /\ InNetwork' = (InNetwork \ {e}) \cup {x}
                 /\ Enters(x, d, a, e.call.n, e.call.at, Dst(d, a))
    BY <1>7, <2>1, ForwardNet
  <2>7. x.call.app = a /\ x.call.do = d /\ now' <= x.ts /\ x.ts \in Nat
    BY <2>6 DEF Enters
  <2>8. d = "Request" => Ok(x)
    <3>1. d = "Request" => Ok(e)
      BY <1>3, <2>1, <2>3
    <3> QED BY <2>1, <2>3, <2>5, <2>7, <3>1 DEF Ok
  <2> QED BY <1>3, <1>4, <2>6, <2>7, <2>8
<1>8. ASSUME NEW e \in queue, Deliver(e) PROVE Late'
  <2>1. PICK a : a = e.call.app
    OBVIOUS
  <2>2. CASE \E s \in Listeners(a) \cap started : Echoes(s)
    <3>1. PICK x : /\ InNetwork' = (InNetwork \ {e}) \cup {x}
                   /\ Enters(x, "Echo", a, e.call.n, Src("Echo", a), Dst("Echo", a))
      BY <1>8, <2>1, <2>2, DeliverNet
    <3>2. x.call.do = "Echo"
      BY <3>1 DEF Enters
    <3> QED BY <1>3, <1>4, <3>1, <3>2
  <2>3. CASE ~\E s \in Listeners(a) \cap started : Echoes(s)
    <3>1. InNetwork' = InNetwork \ {e}
      BY <1>8, <2>1, <2>3, DeliverNet
    <3> QED BY <1>3, <1>4, <3>1
  <2> QED BY <2>2, <2>3
<1> QED BY <1>5, <1>6, <1>7, <1>8, Steps

(* By the time a request arrives its server is open.                       *)
LEMMA Opened ==
    ASSUME Clock, Late, NEW e \in queue, Takes(e, "Request"), NEW a, a = e.call.app
    PROVE  Listeners(a) \subseteq started
<1>1. e.call.do = "Request" /\ a \in ClientApps /\ a \in Apps /\ main \in DOMAIN Mains
  BY ReceivesMeans DEF Flights, Clock, Basics
<1>2. e.ts \in Nat /\ ~Booting /\ \A f \in queue : f = e \/ Sooner(e, f)
  BY First DEF Plains
<1>3. IF App(a).node = App(a).addr THEN App(a).start <= e.ts ELSE App(a).start < e.ts
  BY <1>1 DEF Late, InNetwork, Flights
<1> SUFFICES ASSUME NEW s \in Listeners(a), s \notin started
             PROVE  FALSE
  OBVIOUS
<1>4. s \in Apps /\ s \notin ClientApps /\ App(s).node = App(a).addr /\ App(s).port = App(a).port
  BY DEF Listeners, Listens
<1>5. \/ App(s).start < App(a).start
      \/ App(s).start = App(a).start /\ App(a).node # App(a).addr
  BY <1>1, <1>4, Own
<1>6. PICK f \in queue : f.call.do = "Start" /\ f.call.app = s
  BY <1>2, <1>4 DEF Clock, Pendings, Scheduled
<1>7. f.ts = App(s).start
  BY <1>6 DEF Clock, Events, Known
<1>8. App(s).start \in Nat /\ App(a).start \in Nat
  BY <1>1, <1>4, AppFacts
<1>9. e.ts <= f.ts
  BY <1>1, <1>2, <1>6, <1>7, <1>8 DEF Sooner
<1> QED BY <1>2, <1>3, <1>5, <1>7, <1>8, <1>9

(* Every step keeps Hears.                                                 *)
LEMMA HearsStep ==
    ASSUME Clock, Late, Hears, [Next]_vars
    PROVE  Hears'
<1>1. main' = main /\ main \in DOMAIN Mains
  BY StepKinds, Keeps, ReturnMeans DEF Clock, Basics
<1>2. ClientApps' = ClientApps /\ \A a : (Listeners(a))' = Listeners(a)
  BY <1>1, SameMain
<1>3. arrived \in [Apps -> Nat] /\ got \in [Apps -> Nat]
  BY DEF Clock, Basics
<1>4. ASSUME NEW e \in queue, Deliver(e) PROVE Hears'
  <2>1. PICK a : a = e.call.app
    OBVIOUS
  <2>2. /\ Takes(e, "Request") /\ arrived' = [arrived EXCEPT ![a] = arrived[a] + 1]
        /\ got' = [s \in Apps |-> IF s \in Listeners(a) \cap started THEN got[s] + 1 ELSE got[s]]
    BY <1>4, <2>1, HandedOver
  <2>3. a \in ClientApps /\ a \in Apps /\ Listeners(a) \subseteq started
    BY <2>1, <2>2, ReceivesMeans, Opened DEF Flights
  <2>4. \A b \in ClientApps : /\ b \in Apps
                              /\ \A s \in Listeners(b) :
                                    s \in Apps /\ (s \in Listeners(a) <=> a = b)
    BY <1>1, <2>3, OwnListeners DEF ClientApps
  <2>5. \A b \in ClientApps : arrived'[b] = IF a = b THEN arrived[b] + 1 ELSE arrived[b]
    BY <1>3, <2>2, <2>4
  <2>6. \A b \in ClientApps : \A s \in Listeners(b) :
           got'[s] = IF a = b THEN got[s] + 1 ELSE got[s]
    BY <1>3, <2>2, <2>3, <2>4
  <2> QED BY <1>2, <2>5, <2>6 DEF Hears
<1>5. ASSUME NEW e \in queue, Answer(e) PROVE Hears'
  <2>1. PICK a : a = e.call.app
    OBVIOUS
  <2>2. Takes(e, "Echo") /\ got' = [got EXCEPT ![a] = got[a] + 1] /\ arrived' = arrived
    BY <1>5, <2>1, AnswerMeans
  <2>3. a \in ClientApps
    BY <2>1, <2>2, ReceivesMeans DEF Flights
  <2>4. \A b \in ClientApps : \A s \in Listeners(b) : got'[s] = got[s]
    BY <1>3, <2>2, <2>3 DEF Listeners
  <2> QED BY <1>2, <2>2, <2>4 DEF Hears
<1>6. CASE arrived' = arrived /\ got' = got
  BY <1>2, <1>6 DEF Hears
<1> QED BY <1>4, <1>5, <1>6, StepKinds, Keeps, ReturnMeans

(* The sum over the listeners is that of the one there is.                 *)
LEMMA SumOfListeners ==
    ASSUME main \in DOMAIN Mains, NEW a \in ClientApps, NEW g \in [Apps -> Nat], NEW k,
           \A s \in Listeners(a) : g[s] = k
    PROVE  SumFunctionOnSet(g, Listeners(a)) = IF Listeners(a) # {} THEN k ELSE 0
<1>1. CASE Listeners(a) = {}
  BY <1>1, FS_EmptySet, SumUnfolds
<1>2. CASE Listeners(a) # {}
  <2>1. PICK s \in Listeners(a) : TRUE
    BY <1>2
  <2>2. Listeners(a) = {s} /\ s \in Apps
    BY OwnListeners
  <2>3. g[s] \in Int
    BY <2>2
  <2>4. SumFunctionOnSet(g, Listeners(a)) = g[s]
    BY <2>2, <2>3, SumOfOne
  <2> QED BY <1>2, <2>4
<1> QED BY <1>1, <1>2

(* What a client's server heard is what arrived.                           *)
LEMMA HeardMeans ==
    ASSUME Clock, Hears, NEW a \in ClientApps
    PROVE  Heard(a) = IF Listeners(a) # {} THEN arrived[a] ELSE 0
<1>1. /\ main \in DOMAIN Mains /\ got \in [Apps -> Nat]
      /\ \A s \in Listeners(a) : got[s] = arrived[a]
  BY DEF Clock, Basics, Hears
<1> QED BY <1>1, SumOfListeners DEF Heard

(* What reaches a node is heard if a server for its port was installed     *)
(* there, whatever the order in which the applications start.              *)
THEOREM HeardCorrect == Spec => []HeardIfInstalled
<1> DEFINE I == Clock /\ Late /\ Hears
<1>1. Init => I
  <2>1. Init => Late
    BY InitNetwork DEF Late
  <2>2. Init => Hears
    BY DEF Init, Hears, Listeners, ClientApps
  <2> QED BY <2>1, <2>2, InitClock
<1>2. I /\ [Next]_vars => I'
  BY ClockStep, LateStep, HearsStep
<1>3. I => HeardIfInstalled
  <2> SUFFICES ASSUME I, NEW a \in ClientApps
               PROVE  Heard(a) = IF \E s \in Apps \ ClientApps :
                                       /\ App(s).node = App(a).addr
                                       /\ App(s).port = App(a).port
                                 THEN arrived[a] ELSE 0
    BY DEF HeardIfInstalled
  <2>1. Listeners(a) # {} <=> \E s \in Apps \ ClientApps : /\ App(s).node = App(a).addr
                                                           /\ App(s).port = App(a).port
    <3>1. main \in DOMAIN Mains
      BY DEF Clock, Basics
    <3>2. /\ \A s \in Listeners(a) : s \in Apps \ ClientApps
          /\ \A s \in Apps \ ClientApps :
                s \in Listeners(a) <=> App(s).node = App(a).addr /\ App(s).port = App(a).port
      BY <3>1, OwnListeners
    <3> QED BY <3>2
  <2> QED BY <2>1, HeardMeans
<1> QED BY <1>1, <1>2, <1>3, PTL DEF Spec

-----------------------------------------------------------------------------
(* The traces.                                                             *)

(* The simulations that trace are the dumbbells, with any number of flows. *)
OnlyDumbbellsTrace ==
    \A m \in DOMAIN Mains : Mains[m].traces # {} =>
        \E n \in Nat \ {0}, mix \in BOOLEAN : (mix => n >= 2) /\ Mains[m] = Dumbbell(n, mix)

Tracing ==
    \/ traced = S.traces
    \/ S.traces # {} /\ ~halted /\ \E e \in queue : e.call.do = "AttachTraces"

(* Every trace of a dumbbell is of a client that starts before the traces  *)
(* are attached, and its socket is of the variant the file is named for.   *)
LEMMA DumbbellTraces ==
    ASSUME NEW n \in Nat \ {0}, NEW mix \in BOOLEAN, mix => n >= 2,
           NEW d, d = Dumbbell(n, mix), NEW t \in d.traces
    PROVE  /\ d.attach <= d.end
           /\ \E k \in DOMAIN d.apps : /\ d.apps[k].kind \in Clients
                                       /\ d.apps[k].node = t.node /\ d.apps[k].start < d.attach
           /\ d.socketType[t.node] = t.file
<1>1. /\ d.attach = 2000100 /\ d.end = 10000000
      /\ d.apps = [k \in 1..(2 * n) |-> DumbbellApp(n, k)]
      /\ d.socketType = [i \in 0..(n - 1) |->
                            IF mix /\ i >= n \div 2 THEN "TcpAshish" ELSE "NewReno"]
      /\ d.traces = {[node |-> 0, file |-> "NewReno"]} \cup
                       IF mix THEN {[node |-> n - 1, file |-> "TcpAshish"]} ELSE {}
  BY DEF Dumbbell, Scenario, AttachTime, Seconds
<1>2. ASSUME NEW i \in 0..(n - 1)
      PROVE  \E k \in DOMAIN d.apps : /\ d.apps[k].kind \in Clients
                                      /\ d.apps[k].node = i /\ d.apps[k].start < d.attach
  <2>1. 2 * i + 2 \in 1..(2 * n) /\ (2 * i + 2) % 2 = 0 /\ ((2 * i + 2) - 1) \div 2 = i
    OBVIOUS
  <2>2. d.apps[2 * i + 2] =
           Client("TcpOnOff", i, n + i, 9000, Seconds(2), Seconds(10), 1, 1638)
    <3>1. d.apps[2 * i + 2] = DumbbellApp(n, 2 * i + 2)
      BY <1>1, <2>1
    <3>2. (2 * i + 2) % 2 # 1
      BY <2>1
    <3> QED BY <2>1, <3>1, <3>2 DEF DumbbellApp
  <2>3. /\ d.apps[2 * i + 2].kind = "TcpOnOff" /\ d.apps[2 * i + 2].node = i
        /\ d.apps[2 * i + 2].start = 2000000
    BY <2>2 DEF Client, Seconds
  <2>4. 2 * i + 2 \in DOMAIN d.apps
    BY <1>1, <2>1
  <2> QED BY <1>1, <2>3, <2>4 DEF Clients
<1>3. /\ t.node \in 0..(n - 1)
      /\ (IF mix /\ t.node >= n \div 2 THEN "TcpAshish" ELSE "NewReno") = t.file
  <2>1. CASE t = [node |-> 0, file |-> "NewReno"]
    <3>1. t.node = 0 /\ t.file = "NewReno"
      BY <2>1
    <3>2. mix => n \div 2 >= 1
      OBVIOUS
    <3> QED BY <3>1, <3>2
  <2>2. CASE mix /\ t = [node |-> n - 1, file |-> "TcpAshish"]
    <3>1. mix /\ t.node = n - 1 /\ t.file = "TcpAshish"
      BY <2>2
    <3>2. n - 1 >= n \div 2
      BY <3>1
    <3> QED BY <3>1, <3>2
  <2> QED BY <1>1, <2>1, <2>2
<1> QED BY <1>1, <1>2, <1>3

LEMMA TracesOfClients ==
    ASSUME OnlyDumbbellsTrace, main \in DOMAIN Mains, NEW t \in S.traces
    PROVE  /\ S.attach <= S.end
           /\ \E a \in ClientApps : App(a).node = t.node /\ App(a).start < S.attach
           /\ S.socketType[t.node] = t.file
<1>1. S = Mains[main]
  BY ScenarioFacts
<1>2. PICK n \in Nat \ {0}, mix \in BOOLEAN : (mix => n >= 2) /\ S = Dumbbell(n, mix)
  BY <1>1 DEF OnlyDumbbellsTrace
<1>3. PICK d : d = S
  OBVIOUS
<1>4. /\ d.attach <= d.end
      /\ \E k \in DOMAIN d.apps : /\ d.apps[k].kind \in Clients
                                  /\ d.apps[k].node = t.node /\ d.apps[k].start < d.attach
      /\ d.socketType[t.node] = t.file
  BY <1>2, <1>3, DumbbellTraces
<1> QED BY <1>3, <1>4 DEF ClientApps, IsClient, Apps, App

(* Only the event that runs leaves the queue.                              *)
LEMMA Stays ==
    ASSUME Clock, NEW e \in queue, Handle(e)
    PROVE  queue \ {e} \subseteq queue'
<1>1. CASE Initialize(e) \/ Start(e)
  BY <1>1 DEF Initialize, Start
<1>2. CASE Send(e) \/ ForwardRequest(e) \/ ForwardEcho(e) \/ Deliver(e)
  <2>1. CASE Send(e)
    <3>1. PICK a, x : a = e.call.app
                      /\ x = Sent("Request", a, sent[a] + 1, App(a).node, App(a).addr)
      OBVIOUS
    <3>2. queue' = ((queue \ {e}) \cup (IF More(a) THEN {Again(e)} ELSE {})) \cup {x}
      BY <2>1, <3>1, SendAdds
    <3> QED BY <3>2
  <2>2. CASE ForwardRequest(e)
    BY <2>2 DEF ForwardRequest, Transmit
  <2>3. CASE ForwardEcho(e)
    BY <2>3 DEF ForwardEcho, Transmit
  <2>4. CASE Deliver(e)
    BY <2>4 DEF Deliver, Transmit
  <2> QED BY <1>2, <2>1, <2>2, <2>3, <2>4
<1>3. CASE Answer(e) \/ Drop(e) \/ AttachTraces(e) \/ Halt(e)
  BY <1>3 DEF Answer, Drop, AttachTraces, Halt
<1> QED BY <1>1, <1>2, <1>3 DEF Handle

LEMMA TracingStep ==
    ASSUME OnlyDumbbellsTrace, Clock, Tracing, [Next]_vars
    PROVE  Tracing'
<1>1. main' = main /\ main \in DOMAIN Mains
  BY StepKinds, Keeps, ReturnMeans DEF Clock, Basics
<1>2. S' = S
  BY <1>1, SameMain
<1>3. CASE Return \/ UNCHANGED vars
  BY <1>2, <1>3, ReturnMeans DEF Tracing
<1>4. ASSUME NEW e \in queue, AttachTraces(e) PROVE Tracing'
  <2>1. /\ Takes(e, "AttachTraces")
        /\ traced' = {t \in S.traces : \E a \in started \cap ClientApps : App(a).node = t.node}
    BY <1>4 DEF AttachTraces
  <2>2. /\ e.ts \in Nat /\ e.uid \in Nat /\ \A f \in queue : f = e \/ Sooner(e, f)
        /\ e.call.do = "AttachTraces"
    BY <2>1, First
  <2>3. /\ e.ts = S.attach /\ e.uid = 1
        /\ \A f \in queue : Known(f) /\ f.ts \in Nat /\ f.uid \in Nat
    BY <2>2 DEF Clock, Events, Known
  <2>4. ~Booting
    <3> SUFFICES ASSUME NEW f \in queue, f.call.do = "Initialize" PROVE FALSE
      BY DEF Booting
    <3>1. f.ts = 0 /\ f.uid = 0 /\ f # e
      BY <2>2, <2>3 DEF Known
    <3> QED BY <2>2, <2>3, <3>1 DEF Sooner
  <2>5. \A a \in ClientApps : App(a).start < S.attach => a \in started
    <3> SUFFICES ASSUME NEW a \in ClientApps, App(a).start < S.attach, a \notin started
                 PROVE  FALSE
      OBVIOUS
    <3>1. a \in Apps /\ App(a).start \in Nat
      BY <1>1, AppInScenario, AppFacts
    <3>2. PICK f \in queue : f.call.do = "Start" /\ f.call.app = a
      BY <2>4, <3>1 DEF Clock, Pendings, Scheduled
    <3>3. f.ts = App(a).start
      BY <2>3, <3>2 DEF Known
    <3> QED BY <2>2, <2>3, <3>1, <3>2, <3>3 DEF Sooner
  <2>6. traced' = S.traces
    BY <1>1, <2>1, <2>5, TracesOfClients
  <2> QED BY <1>2, <2>6 DEF Tracing
<1>5. ASSUME NEW e \in queue, Halt(e) PROVE Tracing'
  <2>1. Takes(e, "Stop") /\ traced' = traced
    BY <1>5 DEF Halt
  <2>2. /\ e.ts \in Nat /\ e.uid \in Nat /\ \A f \in queue : f = e \/ Sooner(e, f)
        /\ e.call.do = "Stop"
    BY <2>1, First
  <2>3. /\ e.ts = S.end /\ e.uid = 2
        /\ \A f \in queue : Known(f) /\ f.ts \in Nat /\ f.uid \in Nat
    BY <2>2 DEF Clock, Events, Known
  <2>4. traced = S.traces
    <3> SUFFICES ASSUME traced # S.traces PROVE FALSE
      OBVIOUS
    <3>1. PICK f \in queue : f.call.do = "AttachTraces"
      BY DEF Tracing
    <3>2. f.ts = S.attach /\ f.uid = 1 /\ f # e
      BY <2>2, <2>3, <3>1 DEF Known
    <3>3. S.end < S.attach
      BY <2>2, <2>3, <3>1, <3>2 DEF Sooner
    <3>4. S.end \in Nat /\ S.attach \in Nat
      BY <1>1, ScenarioFacts
    <3>5. S.traces = {}
      BY <1>1, <3>3, <3>4, TracesOfClients
    <3> QED BY <3>5 DEF Tracing
  <2> QED BY <1>2, <2>1, <2>4 DEF Tracing
<1>6. ASSUME NEW e \in queue, Handle(e), ~AttachTraces(e), ~Halt(e) PROVE Tracing'
  <2>1. traced' = traced /\ halted' = halted /\ queue \ {e} \subseteq queue'
    BY <1>6, Keeps, Stays
  <2>2. e.call.do # "AttachTraces"
    BY <1>6 DEF Handle, Initialize, Start, Send, ForwardRequest, ForwardEcho, Deliver, Answer,
                Drop, Receives, Takes
  <2> QED BY <1>2, <2>1, <2>2 DEF Tracing
<1> QED BY <1>3, <1>4, <1>5, <1>6, StepKinds

(* The traces of a dumbbell with any number of flows find their sockets.   *)
THEOREM TracesCorrect ==
    ASSUME OnlyDumbbellsTrace
    PROVE  Spec => []TracesFindSockets
<1>1. Init => Clock /\ Tracing
  <2>1. ASSUME Init, S.traces # {} PROVE \E e \in queue : e.call.do = "AttachTraces"
    <3>1. Event(S.attach, 1, Plain("AttachTraces")) \in queue
      BY <2>1 DEF Init
    <3> QED BY <3>1 DEF Event, Plain, Call
  <2>2. Init => traced = {} /\ ~halted
    BY DEF Init
  <2> QED BY <2>1, <2>2, InitClock DEF Tracing
<1>2. Clock /\ Tracing /\ [Next]_vars => (Clock /\ Tracing)'
  BY ClockStep, TracingStep
<1>3. Clock /\ Tracing => TracesFindSockets
  <2>1. Clock => main \in DOMAIN Mains /\ (done => halted)
    BY DEF Clock, Basics, Pendings
  <2> QED BY <2>1, TracesOfClients DEF Tracing, TracesFindSockets
<1> QED BY <1>1, <1>2, <1>3, PTL DEF Spec

-----------------------------------------------------------------------------
(* The datagrams of a flow stay in order.                                  *)

(* What is known of a datagram in the network.                             *)
LEMMA FlightFacts ==
    ASSUME Clock, NEW e \in InNetwork
    PROVE  /\ e \in queue /\ e.call.do \in Flights /\ e.call.app \in ClientApps
           /\ e.call.n \in 1..sent[e.call.app] /\ e.call.n \in Nat
           /\ e.ts \in Nat /\ e.uid \in Nat /\ e.uid < uid /\ uid \in Nat
           /\ Src(e.call.do, e.call.app) \in Nodes /\ Dst(e.call.do, e.call.app) \in Nodes
<1>1. main \in DOMAIN Mains /\ sent \in [Apps -> Nat] /\ uid \in Nat
  BY DEF Clock, Basics
<1>2. e \in queue /\ e.call.do \in Flights
  BY DEF InNetwork
<1>3. Known(e) /\ e.ts \in Nat /\ e.uid \in Nat /\ e.uid < uid
  BY <1>2 DEF Clock, Events
<1>4. e.call.app \in ClientApps /\ e.call.n \in 1..sent[e.call.app]
  BY <1>2, <1>3 DEF Known
<1>5. sent[e.call.app] \in Nat
  BY <1>1, <1>4 DEF ClientApps
<1>6. e.call.n \in Nat
  BY <1>4, <1>5
<1>7. Src(e.call.do, e.call.app) \in Nodes /\ Dst(e.call.do, e.call.app) \in Nodes
  BY <1>1, <1>4, AppInScenario
<1> QED BY <1>1, <1>2, <1>3, <1>4, <1>6, <1>7

(* How far a datagram is along its way is told by the node it comes to.    *)
LEMMA Stages ==
    ASSUME main \in DOMAIN Mains, NEW do, NEW a \in ClientApps, NEW w, w = W(do, a),
           NEW e, e.call.do = do, e.call.app = a, NEW j \in 1..Diameter, Along(e, j),
           NEW f, f.call.do = do, f.call.app = a, NEW k \in 1..Diameter, Along(f, k)
    PROVE  /\ e.call.at = w[j] /\ f.call.at = w[k]
           /\ e.call.at = f.call.at => j = k
           /\ f.call.at = Dst(do, a) => j <= k
           /\ f.call.at # Dst(do, a) => k < Diameter
<1>1. PICK u, d : u = Src(do, a) /\ d = Dst(do, a)
  OBVIOUS
<1>2. u \in Nodes /\ d \in Nodes /\ w = Way(main, u, d)
  BY <1>1, AppInScenario DEF W
<1>3. /\ e.call.at = w[j] /\ (j = 1 \/ w[j - 1] # d)
      /\ f.call.at = w[k] /\ (k = 1 \/ w[k - 1] # d)
  BY <1>1 DEF Along
<1>4. /\ w[j] = w[k] => j = k
      /\ w[k] = d => j <= k
      /\ w[k] # d => k < Diameter
  BY <1>2, <1>3, StageFacts
<1> QED BY <1>1, <1>3, <1>4

(* The way of a flow runs along edges.                                     *)
LEMMA WayOfFlow ==
    ASSUME main \in DOMAIN Mains, NEW do, NEW a \in ClientApps, NEW w, w = W(do, a)
    PROVE  /\ w[0] = Src(do, a)
           /\ \A k \in 1..Diameter :
                 /\ w[k] = Route[w[k - 1]][Dst(do, a)]
                 /\ w[k - 1] \in Nodes /\ <<w[k - 1], w[k]>> \in Edges
                 /\ LinkOf(w[k - 1], w[k]).delay \in Nat
<1>1. PICK u, d : u = Src(do, a) /\ d = Dst(do, a)
  OBVIOUS
<1>2. u \in Nodes /\ d \in Nodes /\ w = Way(main, u, d)
  BY <1>1, AppInScenario DEF W
<1>3. /\ w[0] = u /\ \A k \in 0..Diameter : w[k] \in Nodes
      /\ \A k \in 1..Diameter : w[k] = Route[w[k - 1]][d]
  BY <1>2, WayInNodes
<1>4. \A k \in 1..Diameter : k - 1 \in 0..Diameter
  BY DEF Diameter
<1>5. ASSUME NEW k \in 1..Diameter
      PROVE  /\ w[k - 1] \in Nodes /\ <<w[k - 1], w[k]>> \in Edges
             /\ LinkOf(w[k - 1], w[k]).delay \in Nat
  <2>1. PICK v : v = w[k - 1]
    OBVIOUS
  <2>2. v \in Nodes /\ w[k] = Route[v][d]
    BY <1>3, <1>4, <2>1
  <2>3. <<v, Route[v][d]>> \in Edges /\ LinkOf(v, Route[v][d]).delay \in Nat
    BY <1>2, <2>2, HopFacts
  <2> QED BY <2>1, <2>2, <2>3
<1> QED BY <1>1, <1>3, <1>5

(* A datagram that comes to its node before all other events is the first  *)
(* of its flow.                                                            *)
LEMMA FirstOfFlow ==
    ASSUME Clock, Network, NEW e \in InNetwork, \A f \in queue : f = e \/ Sooner(e, f),
           e.call.at = Dst(e.call.do, e.call.app),
           NEW f \in InNetwork, Same(e, f), f # e
    PROVE  e.call.n < f.call.n
<1>1. /\ e.call.n \in Nat /\ e.ts \in Nat /\ e.uid \in Nat /\ e.call.app \in ClientApps
      /\ f.call.n \in Nat /\ f.ts \in Nat /\ f.uid \in Nat /\ f \in queue
      /\ main \in DOMAIN Mains
  BY FlightFacts DEF Clock, Basics
<1>2. e.call.n # f.call.n
  BY DEF Network, InOrder
<1> SUFFICES ASSUME f.call.n < e.call.n PROVE FALSE
  BY <1>1, <1>2
<1>3. PICK j \in 1..Diameter : Along(f, j)
  BY DEF Network, Paths
<1>4. PICK k \in 1..Diameter : Along(e, k)
  BY DEF Network, Paths
<1>5. Same(f, e)
  BY DEF Same
<1>6. k <= j /\ (j = k => Sooner(f, e))
  BY <1>3, <1>4, <1>5 DEF Network, InOrder
<1>7. j <= k
  <2>1. f.call.do = e.call.do /\ f.call.app = e.call.app
    BY DEF Same
  <2> QED BY <1>1, <1>3, <1>4, <2>1, Stages
<1>8. j = k
  BY <1>6, <1>7 DEF Diameter
<1>9. Sooner(e, f)
  BY <1>1
<1> QED BY <1>1, <1>6, <1>8, <1>9 DEF Sooner

(* x joins the datagrams N on hop k of its way, behind those of its flow   *)
(* that have smaller numbers and ahead of the others.                      *)
Joins(N, x, k) ==
    LET do == x.call.do
        a == x.call.app
        u == W(do, a)[k - 1]
        v == x.call.at
    IN /\ N \subseteq InNetwork /\ InNetwork' = N \cup {x}
       /\ a \in ClientApps /\ k \in 1..Diameter /\ Along(x, k)
       /\ busy' \in [Edges -> Nat] /\ \A d \in Edges : busy[d] <= busy'[d]
       /\ x.ts = busy'[<<u, v>>] + LinkOf(u, v).delay
       /\ x.uid = uid
       /\ \A f \in N : Same(f, x) =>
              /\ f.call.n # x.call.n
              /\ f.call.n < x.call.n => \A j \in 1..Diameter : Along(f, j) => k <= j
              /\ x.call.n < f.call.n => \A j \in 1..Diameter : Along(f, j) => j < k
       /\ \A f \in N : f.call.app = a =>
              /\ do = "Echo" /\ f.call.do = "Request" => x.call.n < f.call.n
              /\ f.call.do = "Echo" /\ do = "Request" => f.call.n < x.call.n

(* A datagram that joins keeps the order of the network.                   *)
LEMMA Enlarged ==
    ASSUME Clock, Network, main' = main, NEW N, NEW x, NEW k, Joins(N, x, k)
    PROVE  Network'
<1>1. PICK do, a, w, u, v : do = x.call.do /\ a = x.call.app /\ w = W(do, a)
                            /\ u = w[k - 1] /\ v = x.call.at
  OBVIOUS
<1>2. /\ N \subseteq InNetwork /\ InNetwork' = N \cup {x}
      /\ a \in ClientApps /\ k \in 1..Diameter /\ Along(x, k)
      /\ busy' \in [Edges -> Nat] /\ \A d \in Edges : busy[d] <= busy'[d]
      /\ x.ts = busy'[<<u, v>>] + LinkOf(u, v).delay
      /\ x.uid = uid
  BY <1>1 DEF Joins
<1>3. \A f \in N : Same(f, x) =>
          /\ f.call.n # x.call.n
          /\ f.call.n < x.call.n => \A j \in 1..Diameter : Along(f, j) => k <= j
          /\ x.call.n < f.call.n => \A j \in 1..Diameter : Along(f, j) => j < k
  BY DEF Joins
<1>4. \A f \in N : f.call.app = a =>
          /\ do = "Echo" /\ f.call.do = "Request" => x.call.n < f.call.n
          /\ f.call.do = "Echo" /\ do = "Request" => f.call.n < x.call.n
  BY <1>1 DEF Joins
<1> USE <1>1, <1>2, <1>3, <1>4
<1>5. main \in DOMAIN Mains /\ busy \in [Edges -> Nat]
  BY DEF Clock, Basics
<1>6. /\ \A b, d : (W(d, b))' = W(d, b)
      /\ \A b, c : (LinkOf(b, c))' = LinkOf(b, c)
      /\ \A b, d : (Dst(d, b))' = Dst(d, b)
  BY SameMain
<1>7. \A f, j : Along(f, j)' <=> Along(f, j)
  BY <1>6 DEF Along
<1>8. \A j \in 1..Diameter : Along(x, j) => j = k
  <2> SUFFICES ASSUME NEW j \in 1..Diameter, Along(x, j) PROVE j = k
    OBVIOUS
  <2> QED BY <1>5, Stages
<1>9. v = w[k] /\ <<u, v>> \in Edges /\ LinkOf(u, v).delay \in Nat
  <2>1. v = w[k]
    BY DEF Along
  <2> QED BY <1>5, <2>1, WayOfFlow
<1>10. Paths'
  <2>1. ASSUME NEW f \in N
        PROVE  /\ \E j \in 1..Diameter : Along(f, j)
               /\ \A j \in 1..Diameter : Along(f, j) =>
                     LET y == W(f.call.do, f.call.app)[j - 1]
                     IN f.ts <= busy'[<<y, f.call.at>>] + LinkOf(y, f.call.at).delay
    <3>1. \E j \in 1..Diameter : Along(f, j)
      BY DEF Network, Paths
    <3>2. ASSUME NEW j \in 1..Diameter, Along(f, j),
                 NEW y, y = W(f.call.do, f.call.app)[j - 1]
          PROVE  f.ts <= busy'[<<y, f.call.at>>] + LinkOf(y, f.call.at).delay
      <4>1. f.ts <= busy[<<y, f.call.at>>] + LinkOf(y, f.call.at).delay
        BY <3>2 DEF Network, Paths
      <4>2. f.call.app \in ClientApps /\ f.ts \in Nat
        BY FlightFacts
      <4>3. f.call.at = W(f.call.do, f.call.app)[j]
        BY <3>2 DEF Along
      <4>4. <<y, f.call.at>> \in Edges /\ LinkOf(y, f.call.at).delay \in Nat
        BY <1>5, <3>2, <4>2, <4>3, WayOfFlow
      <4>5. busy[<<y, f.call.at>>] <= busy'[<<y, f.call.at>>] /\ busy[<<y, f.call.at>>] \in Nat
            /\ busy'[<<y, f.call.at>>] \in Nat
        BY <1>5, <4>4
      <4>6. PICK p, q, l : /\ p = busy[<<y, f.call.at>>] /\ q = busy'[<<y, f.call.at>>]
                           /\ l = LinkOf(y, f.call.at).delay
        OBVIOUS
      <4>7. p \in Nat /\ q \in Nat /\ l \in Nat /\ p <= q /\ f.ts <= p + l
        BY <4>1, <4>4, <4>5, <4>6
      <4>8. f.ts <= q + l
        BY <4>2, <4>7
      <4> QED BY <4>6, <4>8
    <3> QED BY <3>1, <3>2
  <2>2. \A j \in 1..Diameter : Along(x, j) =>
           LET y == W(x.call.do, x.call.app)[j - 1]
           IN x.ts <= busy'[<<y, x.call.at>>] + LinkOf(y, x.call.at).delay
    <3>1. PICK q, l : q = busy'[<<u, v>>] /\ l = LinkOf(u, v).delay
      OBVIOUS
    <3>2. q \in Nat /\ l \in Nat /\ x.ts = q + l
      BY <1>9, <3>1
    <3>3. x.ts <= q + l
      BY <3>2
    <3> QED BY <1>8, <3>1, <3>3
  <2> QED BY <1>6, <1>7, <2>1, <2>2 DEF Paths
<1>11. InOrder'
  <2> DEFINE Ordered(e, f) == Same(e, f) /\ e # f =>
                 /\ e.call.n # f.call.n
                 /\ e.call.n < f.call.n =>
                       \A i, j \in 1..Diameter : Along(e, i) /\ Along(f, j) =>
                           j <= i /\ (i = j => Sooner(e, f))
  <2>1. \A e, f \in N : Ordered(e, f)
    BY DEF Network, InOrder
  <2>2. ASSUME NEW f \in N PROVE Ordered(f, x)
    <3> SUFFICES ASSUME Same(f, x), f # x,
                        NEW i \in 1..Diameter, NEW j \in 1..Diameter, Along(f, i), Along(x, j),
                        f.call.n < x.call.n
                 PROVE  j <= i /\ (i = j => Sooner(f, x))
      OBVIOUS
    <3>1. j = k /\ j <= i
      BY <1>8
    <3>2. ASSUME i = j PROVE Sooner(f, x)
      <4>1. f.call.do = do /\ f.call.app = a
        BY DEF Same
      <4>2. f.call.at = v
        BY <1>5, <1>9, <3>1, <3>2, <4>1, Stages
      <4>3. f.ts <= busy[<<u, v>>] + LinkOf(u, v).delay
        BY <3>1, <3>2, <4>1, <4>2 DEF Network, Paths
      <4>4. f.ts \in Nat /\ f.uid \in Nat /\ f.uid < uid
        BY FlightFacts
      <4>5. busy[<<u, v>>] <= busy'[<<u, v>>] /\ busy[<<u, v>>] \in Nat /\ busy'[<<u, v>>] \in Nat
        BY <1>5, <1>9
      <4>6. f.ts <= x.ts /\ x.ts \in Nat
        <5>1. PICK p, q, l : p = busy[<<u, v>>] /\ q = busy'[<<u, v>>] /\ l = LinkOf(u, v).delay
          OBVIOUS
        <5>2. /\ p \in Nat /\ q \in Nat /\ l \in Nat /\ p <= q
              /\ f.ts <= p + l /\ x.ts = q + l
          BY <1>9, <4>3, <4>5, <5>1
        <5> QED BY <4>4, <5>2
      <4> QED BY <4>4, <4>6 DEF Sooner
    <3> QED BY <3>1, <3>2
  <2>3. ASSUME NEW f \in N PROVE Ordered(x, f)
    <3> SUFFICES ASSUME Same(x, f), f # x
                 PROVE  /\ x.call.n # f.call.n
                        /\ x.call.n < f.call.n =>
                              \A i, j \in 1..Diameter : Along(x, i) /\ Along(f, j) =>
                                  j <= i /\ (i = j => Sooner(x, f))
      OBVIOUS
    <3>1. Same(f, x)
      BY DEF Same
    <3>2. ASSUME x.call.n < f.call.n, NEW i \in 1..Diameter, NEW j \in 1..Diameter,
                 Along(x, i), Along(f, j)
          PROVE  j <= i /\ i # j
      <4>1. i = k /\ j < k
        BY <1>8, <3>1, <3>2
      <4> QED BY <4>1 DEF Diameter
    <3> QED BY <3>1, <3>2
  <2>4. \A e, f \in N \cup {x} : Ordered(e, f)
    <3> HIDE DEF Ordered
    <3>1. Ordered(x, x)
      BY DEF Ordered
    <3> QED BY <2>1, <2>2, <2>3, <3>1
  <2> QED BY <1>7, <2>4 DEF InOrder, Same, Sooner
<1>12. EchoFirst'
  <2>1. \A e, f \in N \cup {x} :
           e.call.do = "Echo" /\ f.call.do = "Request" /\ e.call.app = f.call.app =>
               e.call.n < f.call.n
    BY DEF Network, EchoFirst
  <2> QED BY <2>1 DEF EchoFirst
<1> QED BY <1>10, <1>11, <1>12 DEF Network

(* A datagram at the beginning of its way.                                 *)
LEMMA AtSource ==
    ASSUME main \in DOMAIN Mains, NEW do, NEW a \in ClientApps, NEW n, NEW x,
           Enters(x, do, a, n, Src(do, a), Dst(do, a)),
           NEW w, w = W(do, a)
    PROVE  /\ 1 \in 1..Diameter /\ Along(x, 1)
           /\ x.ts = busy'[<<w[0], x.call.at>>] + LinkOf(w[0], x.call.at).delay
<1>1. 1 \in 1..Diameter /\ 1 - 1 = 0
  BY DEF Diameter
<1>2. w[0] = Src(do, a) /\ w[1] = Route[w[0]][Dst(do, a)]
  <2>1. /\ w[0] = Src(do, a)
        /\ \A k \in 1..Diameter : w[k] = Route[w[k - 1]][Dst(do, a)]
    BY WayOfFlow
  <2>2. w[1] = Route[w[1 - 1]][Dst(do, a)]
    BY <1>1, <2>1
  <2> QED BY <1>1, <2>1, <2>2
<1>3. PICK u, d : u = Src(do, a) /\ d = Dst(do, a)
  OBVIOUS
<1>4. Enters(x, do, a, n, u, d)
  BY <1>3 DEF Enters
<1>5. x.call.do = do /\ x.call.app = a /\ x.call.at = w[1]
      /\ x.ts = busy'[<<w[0], x.call.at>>] + LinkOf(w[0], x.call.at).delay
  BY <1>2, <1>3, <1>4 DEF Enters
<1> QED BY <1>1, <1>5 DEF Along

LEMMA SendNetwork ==
    ASSUME Clock, Network, NEW e \in queue, Send(e)
    PROVE  Network'
<1>1. PICK a : a = e.call.app
  OBVIOUS
<1>2. /\ Takes(e, "Send") /\ a \in ClientApps /\ sent[a] \in Nat /\ main' = main
      /\ main \in DOMAIN Mains
  BY <1>1, SendMeans DEF Clock, Basics
<1>3. PICK x : /\ InNetwork' = InNetwork \cup {x}
               /\ Enters(x, "Request", a, sent[a] + 1, Src("Request", a), Dst("Request", a))
  BY <1>1, SendNet
<1>4. PICK w, u, v, n : /\ w = W("Request", a) /\ u = w[0] /\ v = x.call.at /\ n = sent[a] + 1
  OBVIOUS
<1>5. Enters(x, "Request", a, n, Src("Request", a), Dst("Request", a))
  BY <1>3, <1>4 DEF Enters
<1>6. /\ x.call.do = "Request" /\ x.call.app = a /\ x.call.n = n /\ x.uid = uid
      /\ busy' \in [Edges -> Nat] /\ \A d \in Edges : busy[d] <= busy'[d]
  BY <1>5 DEF Enters
<1>7. 1 \in 1..Diameter /\ Along(x, 1) /\ x.ts = busy'[<<u, v>>] + LinkOf(u, v).delay
  BY <1>2, <1>4, <1>5, AtSource
<1>8. \A f \in InNetwork : f.call.app = a => f.call.n < n /\ f.call.n \in Nat
  <2> SUFFICES ASSUME NEW f \in InNetwork, f.call.app = a
               PROVE  f.call.n < n /\ f.call.n \in Nat
    OBVIOUS
  <2>1. f.call.n \in 1..sent[a] /\ f.call.n \in Nat
    BY FlightFacts
  <2> QED BY <1>2, <1>4, <2>1
<1>9. \A f \in InNetwork : Same(f, x) =>
         /\ f.call.n # x.call.n
         /\ f.call.n < x.call.n => \A j \in 1..Diameter : Along(f, j) => 1 <= j
         /\ x.call.n < f.call.n => \A j \in 1..Diameter : Along(f, j) => j < 1
  <2>1. \A j \in 1..Diameter : 1 <= j
    BY DEF Diameter
  <2> QED BY <1>2, <1>4, <1>6, <1>8, <2>1 DEF Same
<1>10. \A f \in InNetwork : f.call.app = a =>
          /\ "Request" = "Echo" /\ f.call.do = "Request" => x.call.n < f.call.n
          /\ f.call.do = "Echo" /\ "Request" = "Request" => f.call.n < x.call.n
  BY <1>6, <1>8
<1>11. PICK do, k, N : do = "Request" /\ k = 1 /\ N = InNetwork
  OBVIOUS
<1>12. /\ Clock /\ Network /\ main' = main /\ busy' \in [Edges -> Nat]
       /\ \A d \in Edges : busy[d] <= busy'[d]
       /\ N \subseteq InNetwork /\ InNetwork' = N \cup {x}
       /\ do = x.call.do /\ a \in ClientApps /\ a = x.call.app
       /\ w = W(do, a) /\ k \in 1..Diameter /\ Along(x, k)
       /\ u = w[k - 1] /\ v = x.call.at
       /\ x.ts = busy'[<<u, v>>] + LinkOf(u, v).delay
       /\ x.uid = uid
  BY <1>2, <1>3, <1>4, <1>6, <1>7, <1>11
<1>13. \A f \in N : Same(f, x) =>
          /\ f.call.n # x.call.n
          /\ f.call.n < x.call.n => \A j \in 1..Diameter : Along(f, j) => k <= j
          /\ x.call.n < f.call.n => \A j \in 1..Diameter : Along(f, j) => j < k
  BY <1>9, <1>11
<1>14. \A f \in N : f.call.app = a =>
          /\ do = "Echo" /\ f.call.do = "Request" => x.call.n < f.call.n
          /\ f.call.do = "Echo" /\ do = "Request" => f.call.n < x.call.n
  BY <1>10, <1>11
<1>15. Joins(N, x, k)
  BY <1>12, <1>13, <1>14 DEF Joins
<1> QED BY <1>2, <1>15, Enlarged

LEMMA ForwardNetwork ==
    ASSUME Clock, Network, NEW e \in queue, ForwardRequest(e) \/ ForwardEcho(e)
    PROVE  Network'
<1>1. PICK a, do, n, at, w : /\ a = e.call.app /\ do = e.call.do /\ n = e.call.n
                             /\ at = e.call.at /\ w = W(do, a)
  OBVIOUS
<1>2. /\ do \in Flights /\ Takes(e, do) /\ main' = main /\ at # Dst(do, a)
      /\ main \in DOMAIN Mains
  BY <1>1, ForwardMeans DEF Clock, Basics
<1>3. e \in InNetwork /\ a \in ClientApps /\ n \in Nat /\ e.ts \in Nat /\ e.uid \in Nat
  BY <1>1, <1>2, FlightFacts DEF InNetwork
<1>4. \A f \in queue : f = e \/ Sooner(e, f)
  BY <1>2, First
<1>5. PICK x : InNetwork' = (InNetwork \ {e}) \cup {x} /\ Enters(x, do, a, n, at, Dst(do, a))
  <2>1. PICK x : /\ InNetwork' = (InNetwork \ {e}) \cup {x}
                 /\ Enters(x, do, a, e.call.n, e.call.at, Dst(do, a))
    BY <1>1, ForwardNet
  <2> QED BY <1>1, <2>1 DEF Enters
<1>6. PICK k \in 1..Diameter : Along(e, k)
  BY <1>3 DEF Network, Paths
<1>7. /\ at = w[k] /\ k < Diameter
      /\ \A f \in InNetwork : Same(e, f) =>
            \A j \in 1..Diameter : Along(f, j) => (e.call.at = f.call.at => j = k)
  <2>1. at = w[k] /\ k < Diameter
    BY <1>1, <1>2, <1>3, <1>6, Stages
  <2> SUFFICES ASSUME NEW f \in InNetwork, Same(e, f), NEW j \in 1..Diameter, Along(f, j),
                      e.call.at = f.call.at
               PROVE  j = k
    BY <2>1
  <2>2. f.call.do = do /\ f.call.app = a
    BY <1>1 DEF Same
  <2> QED BY <1>1, <1>2, <1>3, <1>6, <2>2, Stages
<1>8. PICK i, v, d : i = k + 1 /\ v = x.call.at /\ d = Dst(do, a)
  OBVIOUS
<1>9. i \in 1..Diameter /\ i - 1 = k /\ at = w[i - 1] /\ \A j \in 1..Diameter : j <= k => j < i
  BY <1>7, <1>8 DEF Diameter
<1>10. /\ x.call.do = do /\ x.call.app = a /\ x.call.n = n /\ x.uid = uid
       /\ v = Route[at][d]
       /\ x.ts = busy'[<<at, v>>] + LinkOf(at, v).delay
       /\ busy' \in [Edges -> Nat] /\ \A b \in Edges : busy[b] <= busy'[b]
  BY <1>5, <1>8 DEF Enters
<1>11. Along(x, i)
  <2>1. w[i] = Route[w[i - 1]][d]
    <3>1. \A j \in 1..Diameter : w[j] = Route[w[j - 1]][Dst(do, a)]
      <4>1. main \in DOMAIN Mains /\ a \in ClientApps /\ w = W(do, a)
        BY <1>1, <1>2, <1>3
      <4> QED BY ONLY <4>1, WayOfFlow
    <3> QED BY <1>8, <1>9, <3>1
  <2> QED BY <1>1, <1>2, <1>8, <1>9, <1>10, <2>1 DEF Along
<1> DEFINE N == InNetwork \ {e}
<1>12. \A f \in N : Same(f, x) =>
          /\ f.call.n # x.call.n
          /\ f.call.n < x.call.n => \A j \in 1..Diameter : Along(f, j) => i <= j
          /\ x.call.n < f.call.n => \A j \in 1..Diameter : Along(f, j) => j < i
  <2> SUFFICES ASSUME NEW f \in N, Same(f, x)
               PROVE  /\ f.call.n # n
                      /\ f.call.n < n => \A j \in 1..Diameter : Along(f, j) => i <= j
                      /\ n < f.call.n => \A j \in 1..Diameter : Along(f, j) => j < i
    BY <1>10
  <2>1. Same(e, f) /\ Same(f, e) /\ f # e /\ f \in InNetwork /\ f \in queue
    BY <1>1, <1>10 DEF Same, InNetwork
  <2>2. f.call.n # n
    BY <1>1, <1>3, <2>1 DEF Network, InOrder
  <2>3. ASSUME f.call.n < n, NEW j \in 1..Diameter, Along(f, j) PROVE i <= j
    <3>1. k <= j /\ (j = k => Sooner(f, e))
      BY <1>1, <1>3, <1>6, <2>1, <2>3 DEF Network, InOrder
    <3>2. Sooner(e, f) /\ f.ts \in Nat /\ f.uid \in Nat
      BY <1>4, <2>1, FlightFacts
    <3>3. j # k
      BY <1>3, <3>1, <3>2 DEF Sooner
    <3> QED BY <1>8, <3>1, <3>3 DEF Diameter
  <2>4. ASSUME n < f.call.n, NEW j \in 1..Diameter, Along(f, j) PROVE j < i
    <3>1. j <= k
      BY <1>1, <1>3, <1>6, <2>1, <2>4 DEF Network, InOrder
    <3> QED BY <1>9, <3>1
  <2> QED BY <2>2, <2>3, <2>4
<1>13. \A f \in N : f.call.app = a =>
          /\ do = "Echo" /\ f.call.do = "Request" => x.call.n < f.call.n
          /\ f.call.do = "Echo" /\ do = "Request" => f.call.n < x.call.n
  BY <1>1, <1>3, <1>10 DEF Network, EchoFirst
<1>14. InNetwork' = N \cup {x} /\ N \subseteq InNetwork
  BY <1>5
<1> HIDE DEF N
<1>15. do = x.call.do /\ a = x.call.app
  BY <1>10
<1>16. /\ Clock /\ Network /\ main' = main /\ busy' \in [Edges -> Nat]
       /\ \A b \in Edges : busy[b] <= busy'[b]
       /\ N \subseteq InNetwork /\ InNetwork' = N \cup {x}
       /\ do = x.call.do /\ a \in ClientApps /\ a = x.call.app
       /\ w = W(do, a) /\ i \in 1..Diameter /\ Along(x, i)
       /\ at = w[i - 1] /\ v = x.call.at
       /\ x.ts = busy'[<<at, v>>] + LinkOf(at, v).delay
       /\ x.uid = uid
  BY <1>1, <1>2, <1>3, <1>8, <1>9, <1>10, <1>11, <1>14, <1>15
<1>17. PICK M : M = N
  OBVIOUS
<1>18. Joins(M, x, i)
  BY <1>12, <1>13, <1>16, <1>17 DEF Joins
<1> QED BY <1>2, <1>18, Enlarged

LEMMA LessNetwork ==
    ASSUME Network, main' = main, busy' = busy, InNetwork' \subseteq InNetwork
    PROVE  Network'
<1>1. /\ \A b, d : (W(d, b))' = W(d, b)
      /\ \A b, c : (LinkOf(b, c))' = LinkOf(b, c)
      /\ \A b, d : (Dst(d, b))' = Dst(d, b)
  BY SameMain
<1>2. \A f, j : Along(f, j)' <=> Along(f, j)
  BY <1>1 DEF Along
<1>3. Paths'
  BY <1>1, <1>2 DEF Network, Paths
<1>4. InOrder'
  BY <1>2 DEF Network, InOrder, Same, Sooner
<1>5. EchoFirst'
  BY DEF Network, EchoFirst
<1> QED BY <1>3, <1>4, <1>5 DEF Network

LEMMA DeliverNetwork ==
    ASSUME Clock, Network, NEW e \in queue, Deliver(e)
    PROVE  Network'
<1>1. PICK a, n : a = e.call.app /\ n = e.call.n
  OBVIOUS
<1>2. Takes(e, "Request") /\ main' = main /\ main \in DOMAIN Mains /\ e.call.do = "Request"
      /\ e.call.at = App(a).addr
  BY <1>1, DeliverMeans, First DEF Clock, Basics
<1>3. e \in InNetwork /\ a \in ClientApps /\ n \in Nat
  BY <1>1, <1>2, FlightFacts DEF InNetwork, Flights
<1>4. \A f \in queue : f = e \/ Sooner(e, f)
  BY <1>2, First
<1>5. CASE ~\E s \in Listeners(a) \cap started : Echoes(s)
  <2>1. InNetwork' = InNetwork \ {e} /\ busy' = busy
    BY <1>1, <1>5, DeliverNet
  <2> QED BY <1>2, <2>1, LessNetwork
<1>6. CASE \E s \in Listeners(a) \cap started : Echoes(s)
  <2>1. PICK x : /\ InNetwork' = (InNetwork \ {e}) \cup {x}
                 /\ Enters(x, "Echo", a, n, Src("Echo", a), Dst("Echo", a))
    <3>1. PICK x : /\ InNetwork' = (InNetwork \ {e}) \cup {x}
                   /\ Enters(x, "Echo", a, e.call.n, Src("Echo", a), Dst("Echo", a))
      BY <1>1, <1>6, DeliverNet
    <3> QED BY <1>1, <3>1 DEF Enters
  <2>2. PICK w, u, v : w = W("Echo", a) /\ u = w[0] /\ v = x.call.at
    OBVIOUS
  <2>3. /\ x.call.do = "Echo" /\ x.call.app = a /\ x.call.n = n /\ x.uid = uid
        /\ busy' \in [Edges -> Nat] /\ \A d \in Edges : busy[d] <= busy'[d]
    BY <2>1 DEF Enters
  <2>4. 1 \in 1..Diameter /\ Along(x, 1) /\ x.ts = busy'[<<u, v>>] + LinkOf(u, v).delay
    BY <1>2, <1>3, <2>1, <2>2, AtSource
  <2> DEFINE N == InNetwork \ {e}
  <2>5. \A f \in N : f.call.app = a /\ f.call.do = "Echo" => f.call.n < n /\ f.call.n \in Nat
    BY <1>1, <1>2, <1>3, FlightFacts DEF Network, EchoFirst
  <2>6. \A f \in N : Same(f, x) =>
           /\ f.call.n # x.call.n
           /\ f.call.n < x.call.n => \A j \in 1..Diameter : Along(f, j) => 1 <= j
           /\ x.call.n < f.call.n => \A j \in 1..Diameter : Along(f, j) => j < 1
    <3>1. \A j \in 1..Diameter : 1 <= j
      BY DEF Diameter
    <3> QED BY <1>3, <2>3, <2>5, <3>1 DEF Same
  <2>7. \A f \in N : f.call.app = a /\ f.call.do = "Request" => n < f.call.n
    <3> SUFFICES ASSUME NEW f \in InNetwork, f # e, f.call.app = a, f.call.do = "Request"
                 PROVE  n < f.call.n
      OBVIOUS
    <3>1. Same(e, f) /\ e.call.at = Dst(e.call.do, e.call.app)
      BY <1>1, <1>2 DEF Same, Dst
    <3> QED BY <1>1, <1>3, <1>4, <3>1, FirstOfFlow
  <2>8. \A f \in N : f.call.app = a =>
           /\ "Echo" = "Echo" /\ f.call.do = "Request" => x.call.n < f.call.n
           /\ f.call.do = "Echo" /\ "Echo" = "Request" => f.call.n < x.call.n
    BY <2>3, <2>7
  <2>9. InNetwork' = N \cup {x} /\ N \subseteq InNetwork /\ u = w[1 - 1]
    BY <2>1, <2>2
  <2> HIDE DEF N
  <2>10. "Echo" = x.call.do /\ a = x.call.app
    BY <2>3
  <2>11. PICK do, k : do = "Echo" /\ k = 1
    OBVIOUS
  <2>12. /\ Clock /\ Network /\ main' = main /\ busy' \in [Edges -> Nat]
         /\ \A d \in Edges : busy[d] <= busy'[d]
         /\ N \subseteq InNetwork /\ InNetwork' = N \cup {x}
         /\ do = x.call.do /\ a \in ClientApps /\ a = x.call.app
         /\ w = W(do, a) /\ k \in 1..Diameter /\ Along(x, k)
         /\ u = w[k - 1] /\ v = x.call.at
         /\ x.ts = busy'[<<u, v>>] + LinkOf(u, v).delay
         /\ x.uid = uid
    BY <1>2, <1>3, <2>2, <2>3, <2>4, <2>9, <2>10, <2>11
  <2>13. \A f \in N : Same(f, x) =>
            /\ f.call.n # x.call.n
            /\ f.call.n < x.call.n => \A j \in 1..Diameter : Along(f, j) => k <= j
            /\ x.call.n < f.call.n => \A j \in 1..Diameter : Along(f, j) => j < k
    BY <2>6, <2>11
  <2>14. \A f \in N : f.call.app = a =>
            /\ do = "Echo" /\ f.call.do = "Request" => x.call.n < f.call.n
            /\ f.call.do = "Echo" /\ do = "Request" => f.call.n < x.call.n
    BY <2>8, <2>11
  <2>15. PICK M : M = N
    OBVIOUS
  <2>16. Joins(M, x, k)
    BY <2>12, <2>13, <2>14, <2>15 DEF Joins
  <2> QED BY <1>2, <2>16, Enlarged
<1> QED BY <1>5, <1>6

LEMMA InitOrder == Init => Network
BY InitNetwork DEF Network, Paths, InOrder, EchoFirst

(* Every step keeps Network.                                               *)
LEMMA NetworkStep ==
    ASSUME Clock, Network, [Next]_vars
    PROVE  Network'
<1>1. main' = main
  BY StepKinds, Keeps, ReturnMeans
<1>2. CASE \/ Return \/ UNCHANGED vars
           \/ \E e \in queue : \/ Initialize(e) \/ Start(e) \/ AttachTraces(e) \/ Halt(e)
                               \/ Answer(e) \/ Drop(e)
  <2>1. InNetwork' \subseteq InNetwork /\ busy' = busy
    <3>1. CASE Return \/ UNCHANGED vars
      BY <3>1, ReturnMeans DEF InNetwork
    <3>2. CASE \E e \in queue : Initialize(e) \/ Start(e) \/ AttachTraces(e) \/ Halt(e)
      BY <3>2, QuietNet
    <3>3. CASE \E e \in queue : Answer(e) \/ Drop(e)
      BY <3>3, LeaveNet
    <3> QED BY <1>2, <3>1, <3>2, <3>3
  <2> QED BY <1>1, <2>1, LessNetwork
<1>3. CASE \E e \in queue : Send(e) \/ ForwardRequest(e) \/ ForwardEcho(e) \/ Deliver(e)
  BY <1>3, SendNetwork, ForwardNetwork, DeliverNetwork
<1> QED BY <1>2, <1>3, Steps

-----------------------------------------------------------------------------
(* Every flow is served as if it were alone.                               *)

LEMMA MinIs ==
    ASSUME NEW T, T \subseteq Int, NEW n \in T, \A m \in T : m # n => n < m
    PROVE  Min(T) = n
<1>1. n \in T /\ \A m \in T : n <= m
  OBVIOUS
<1>2. \A k \in T : (\A m \in T : k <= m) => k = n
  OBVIOUS
<1> QED BY <1>1, <1>2 DEF Min

Numbers(T) == {f.call.n : f \in T}

LEMMA InFlightIs ==
    ASSUME NEW do \in Flights, NEW a
    PROVE  InFlight(do, a) = Numbers(Traffic(do, a))
           /\ InFlight(do, a)' = Numbers(Traffic(do, a)')
BY DEF InFlight, Numbers, Traffic, InNetwork

(* What the flows are before and after a step.                             *)
LEMMA FlowsNow ==
    ASSUME Clock, Hears
    PROVE  /\ ClientApps \subseteq AllApps /\ ClientApps \subseteq Apps
           /\ FlowSent = [a \in AllApps |-> IF a \in ClientApps THEN sent[a] ELSE 0]
           /\ FlowAnswered = [a \in AllApps |-> IF a \in ClientApps THEN got[a] ELSE 0]
           /\ FlowHeard = [a \in AllApps |-> IF a \in ClientApps /\ Listeners(a) # {}
                                             THEN arrived[a] ELSE 0]
           /\ \A do \in Flights : FlowInFlight(do) =
                 [a \in AllApps |-> IF a \in ClientApps THEN Numbers(Traffic(do, a)) ELSE {}]
<1>1. ClientApps \subseteq AllApps /\ ClientApps \subseteq Apps
  <2>1. main \in DOMAIN Mains /\ S = Mains[main]
    BY ScenarioFacts DEF Clock, Basics
  <2> QED BY <2>1 DEF ClientApps, Apps, AllApps
<1>2. FlowHeard = [a \in AllApps |-> IF a \in ClientApps /\ Listeners(a) # {}
                                     THEN arrived[a] ELSE 0]
  BY HeardMeans DEF FlowHeard
<1>3. ASSUME NEW do \in Flights
      PROVE  FlowInFlight(do) =
                [a \in AllApps |-> IF a \in ClientApps THEN Numbers(Traffic(do, a)) ELSE {}]
  <2>1. \A a \in AllApps : InFlight(do, a) = Numbers(Traffic(do, a))
    BY InFlightIs
  <2> QED BY <2>1 DEF FlowInFlight
<1> QED BY <1>1, <1>2, <1>3 DEF FlowSent, FlowAnswered

LEMMA FlowsNext ==
    ASSUME main' = main, main \in DOMAIN Mains, Clock', Hears'
    PROVE  /\ FlowEchoing' = FlowEchoing
           /\ FlowSent' = [a \in AllApps |-> IF a \in ClientApps THEN sent'[a] ELSE 0]
           /\ FlowAnswered' = [a \in AllApps |-> IF a \in ClientApps THEN got'[a] ELSE 0]
           /\ FlowHeard' = [a \in AllApps |-> IF a \in ClientApps /\ Listeners(a) # {}
                                              THEN arrived'[a] ELSE 0]
           /\ \A do \in Flights : FlowInFlight(do)' =
                 [a \in AllApps |-> IF a \in ClientApps THEN Numbers(Traffic(do, a)') ELSE {}]
<1>1. /\ ClientApps' = ClientApps /\ Apps' = Apps
      /\ \A a : (Listeners(a))' = Listeners(a) /\ (App(a))' = App(a)
  BY SameMain
<1>2. FlowEchoing' = FlowEchoing
  BY <1>1 DEF FlowEchoing, Echoes
<1>3. \A a \in ClientApps : Heard(a)' = IF Listeners(a) # {} THEN arrived'[a] ELSE 0
  <2> SUFFICES ASSUME NEW a \in ClientApps
               PROVE  Heard(a)' = IF Listeners(a) # {} THEN arrived'[a] ELSE 0
    OBVIOUS
  <2>1. PICK g, k : g = got' /\ k = arrived'[a]
    OBVIOUS
  <2>2. g \in [Apps -> Nat] /\ \A s \in Listeners(a) : g[s] = k
    BY <1>1, <2>1 DEF Clock, Basics, Hears
  <2>3. SumFunctionOnSet(g, Listeners(a)) = IF Listeners(a) # {} THEN k ELSE 0
    BY <2>2, SumOfListeners
  <2> QED BY <1>1, <2>1, <2>3 DEF Heard
<1>4. FlowHeard' = [a \in AllApps |-> IF a \in ClientApps /\ Listeners(a) # {}
                                      THEN arrived'[a] ELSE 0]
  BY <1>1, <1>3 DEF FlowHeard, AllApps
<1>5. ASSUME NEW do \in Flights
      PROVE  FlowInFlight(do)' =
                [a \in AllApps |-> IF a \in ClientApps THEN Numbers(Traffic(do, a)') ELSE {}]
  <2>1. \A a \in AllApps : InFlight(do, a)' = Numbers(Traffic(do, a)')
    BY InFlightIs
  <2> QED BY <1>1, <2>1 DEF FlowInFlight, AllApps
<1> QED BY <1>1, <1>2, <1>4, <1>5 DEF FlowSent, FlowAnswered, AllApps

(* The numbers of a flow when one of its datagrams leaves the network.     *)
LEMMA OneLess ==
    ASSUME Clock, Network, NEW e \in InNetwork, NEW do, do = e.call.do,
           NEW a, a = e.call.app, NEW n, n = e.call.n
    PROVE  /\ n \in Numbers(Traffic(do, a)) /\ e \in Traffic(do, a)
           /\ Numbers(Traffic(do, a) \ {e}) = Numbers(Traffic(do, a)) \ {n}
           /\ (\A f \in queue : f = e \/ Sooner(e, f)) /\ e.call.at = Dst(do, a) =>
                 Min(Numbers(Traffic(do, a))) = n
<1>1. e \in Traffic(do, a) /\ n \in Numbers(Traffic(do, a))
  BY DEF Traffic, Numbers
<1>2. \A f \in Traffic(do, a) : f \in InNetwork /\ Same(e, f) /\ f.call.n \in Nat
  BY FlightFacts DEF Traffic, Same
<1>3. \A f \in Traffic(do, a) : f # e => f.call.n # n
  BY <1>2 DEF Network, InOrder
<1>4. Numbers(Traffic(do, a) \ {e}) = Numbers(Traffic(do, a)) \ {n}
  BY <1>1, <1>3 DEF Numbers
<1>5. ASSUME \A f \in queue : f = e \/ Sooner(e, f), e.call.at = Dst(do, a)
      PROVE  Min(Numbers(Traffic(do, a))) = n
  <2>1. \A f \in Traffic(do, a) : f # e => n < f.call.n
    BY <1>2, <1>5, FirstOfFlow
  <2>2. Numbers(Traffic(do, a)) \subseteq Int /\ \A m \in Numbers(Traffic(do, a)) : m # n => n < m
    BY <1>2, <2>1 DEF Numbers
  <2> QED BY <1>1, <2>2, MinIs
<1> QED BY <1>1, <1>4, <1>5

(* What changes of one flow, with nothing changing of the others.          *)
LEMMA AtOne ==
    ASSUME NEW A, NEW a \in A, NEW f, NEW g, NEW y,
           f = [b \in A |-> f[b]], g = [b \in A |-> g[b]],
           g[a] = y, \A b \in A : b # a => g[b] = f[b]
    PROVE  g = [f EXCEPT ![a] = y]
<1>1. [f EXCEPT ![a] = y] = [b \in A |-> IF b = a THEN y ELSE f[b]]
  OBVIOUS
<1>2. \A b \in A : g[b] = IF b = a THEN y ELSE f[b]
  OBVIOUS
<1> QED BY <1>1, <1>2

LEMMA SameMin == \A T : Flow!Min(T) = Min(T)
BY DEF Min, Flow!Min

LEMMA SameFlows ==
    ASSUME Clock, Hears, main' = main, main \in DOMAIN Mains, Clock', Hears'
    PROVE  /\ \A a \in ClientApps : a \in AllApps
           /\ FlowEchoing' = FlowEchoing
           /\ sent' = sent => FlowSent' = FlowSent
           /\ arrived' = arrived => FlowHeard' = FlowHeard
           /\ (\A a \in ClientApps : got'[a] = got[a]) => FlowAnswered' = FlowAnswered
           /\ \A do \in Flights :
                 (\A a \in ClientApps : Numbers(Traffic(do, a)') = Numbers(Traffic(do, a))) =>
                    FlowInFlight(do)' = FlowInFlight(do)
<1>1. /\ ClientApps \subseteq AllApps /\ FlowEchoing' = FlowEchoing
  BY FlowsNow, FlowsNext
<1>2. sent' = sent => FlowSent' = FlowSent
  BY FlowsNow, FlowsNext
<1>3. arrived' = arrived => FlowHeard' = FlowHeard
  BY FlowsNow, FlowsNext
<1>4. (\A a \in ClientApps : got'[a] = got[a]) => FlowAnswered' = FlowAnswered
  BY FlowsNow, FlowsNext
<1>5. ASSUME NEW do \in Flights,
             \A a \in ClientApps : Numbers(Traffic(do, a)') = Numbers(Traffic(do, a))
      PROVE  FlowInFlight(do)' = FlowInFlight(do)
  <2>1. PICK fr, gr : fr = FlowInFlight(do) /\ gr = FlowInFlight(do)'
    OBVIOUS
  <2>2. fr = [a \in AllApps |-> IF a \in ClientApps THEN Numbers(Traffic(do, a)) ELSE {}]
    BY <2>1, FlowsNow
  <2>3. gr = [a \in AllApps |-> IF a \in ClientApps THEN Numbers(Traffic(do, a)') ELSE {}]
    BY <2>1, FlowsNext
  <2> QED BY <1>5, <2>1, <2>2, <2>3
<1> QED BY <1>1, <1>2, <1>3, <1>4, <1>5

LEMMA SendFlow ==
    ASSUME Clock, Hears, main' = main, main \in DOMAIN Mains, Clock', Hears',
           NEW e \in queue, Send(e)
    PROVE  \E a \in AllApps : Flow!Send(a)
<1>1. PICK a : a = e.call.app
  OBVIOUS
<1>2. /\ a \in ClientApps /\ a \in Apps /\ a \in AllApps
      /\ sent' = [sent EXCEPT ![a] = sent[a] + 1] /\ sent \in [Apps -> Nat]
      /\ arrived' = arrived /\ got' = got
  BY <1>1, SendMeans, SameFlows DEF ClientApps, Clock, Basics
<1>3. PICK x : InNetwork' = InNetwork \cup {x} /\ x.call.do = "Request" /\ x.call.app = a
               /\ x.call.n = sent[a] + 1
  <2>1. PICK x : /\ InNetwork' = InNetwork \cup {x}
                 /\ Enters(x, "Request", a, sent[a] + 1, Src("Request", a), Dst("Request", a))
    BY <1>1, SendNet
  <2>2. x.call.do = "Request" /\ x.call.app = a /\ x.call.n = sent[a] + 1
    BY <2>1 DEF Enters
  <2> QED BY <2>1, <2>2
<1>4. /\ \A b : Traffic("Echo", b)' = Traffic("Echo", b)
      /\ \A b : Traffic("Request", b)' = IF b = a THEN Traffic("Request", b) \cup {x}
                                         ELSE Traffic("Request", b)
  BY <1>3 DEF Traffic
<1>5. FlowInFlight("Echo")' = FlowInFlight("Echo")
  BY <1>4, SameFlows DEF Flights
<1>6. /\ FlowHeard' = FlowHeard /\ FlowAnswered' = FlowAnswered /\ FlowEchoing' = FlowEchoing
  BY <1>2, SameFlows
<1>7. PICK fs, gs, fr, gr : /\ fs = FlowSent /\ gs = FlowSent'
                            /\ fr = FlowInFlight("Request") /\ gr = FlowInFlight("Request")'
  OBVIOUS
<1>8. gs = [fs EXCEPT ![a] = fs[a] + 1] /\ gs[a] = sent[a] + 1
  <2>1. /\ fs = [b \in AllApps |-> IF b \in ClientApps THEN sent[b] ELSE 0]
        /\ gs = [b \in AllApps |-> IF b \in ClientApps THEN sent'[b] ELSE 0]
    BY <1>7, FlowsNow, FlowsNext
  <2>2. \A b \in ClientApps : sent'[b] = IF b = a THEN sent[a] + 1 ELSE sent[b]
    BY <1>2 DEF ClientApps
  <2>3. /\ fs = [b \in AllApps |-> fs[b]] /\ gs = [b \in AllApps |-> gs[b]]
        /\ gs[a] = fs[a] + 1 /\ gs[a] = sent[a] + 1 /\ \A b \in AllApps : b # a => gs[b] = fs[b]
    BY <1>2, <2>1, <2>2
  <2> QED BY <1>2, <2>3, AtOne
<1>9. gr = [fr EXCEPT ![a] = fr[a] \cup {gs[a]}]
  <2>1. /\ fr = [b \in AllApps |-> IF b \in ClientApps
                                   THEN Numbers(Traffic("Request", b)) ELSE {}]
        /\ gr = [b \in AllApps |-> IF b \in ClientApps
                                   THEN Numbers(Traffic("Request", b)') ELSE {}]
    BY <1>7, FlowsNow, FlowsNext DEF Flights
  <2>2. Numbers(Traffic("Request", a)') = Numbers(Traffic("Request", a)) \cup {sent[a] + 1}
    BY <1>3, <1>4 DEF Numbers
  <2>3. /\ fr = [b \in AllApps |-> fr[b]] /\ gr = [b \in AllApps |-> gr[b]]
        /\ gr[a] = fr[a] \cup {gs[a]} /\ \A b \in AllApps : b # a => gr[b] = fr[b]
    BY <1>2, <1>4, <1>8, <2>1, <2>2
  <2> QED BY <1>2, <2>3, AtOne
<1>10. Flow!Send(a)
  BY <1>5, <1>6, <1>7, <1>8, <1>9 DEF Flow!Send
<1> QED BY <1>2, <1>10

LEMMA ForwardFlow ==
    ASSUME Clock, Network, Hears, main' = main, main \in DOMAIN Mains, Clock', Hears',
           NEW e \in queue, ForwardRequest(e) \/ ForwardEcho(e)
    PROVE  UNCHANGED Flow!vars
<1>1. PICK a, do : a = e.call.app /\ do = e.call.do
  OBVIOUS
<1>2. do \in Flights /\ sent' = sent /\ arrived' = arrived /\ got' = got
  BY <1>1, ForwardMeans
<1>3. PICK x : /\ InNetwork' = (InNetwork \ {e}) \cup {x} /\ x.call.do = do
               /\ x.call.app = a /\ x.call.n = e.call.n
  <2>1. PICK x : /\ InNetwork' = (InNetwork \ {e}) \cup {x}
                 /\ Enters(x, do, a, e.call.n, e.call.at, Dst(do, a))
    BY <1>1, ForwardNet
  <2>2. x.call.do = do /\ x.call.app = a /\ x.call.n = e.call.n
    BY <2>1 DEF Enters
  <2> QED BY <2>1, <2>2
<1>4. \A d, b : Traffic(d, b)' = IF d = do /\ b = a THEN (Traffic(d, b) \ {e}) \cup {x}
                                 ELSE Traffic(d, b)
  BY <1>1, <1>3 DEF Traffic
<1>5. Numbers((Traffic(do, a) \ {e}) \cup {x}) = Numbers(Traffic(do, a))
  <2>1. e \in Traffic(do, a)
    BY <1>1, <1>2 DEF Traffic, InNetwork
  <2> QED BY <1>3, <2>1 DEF Numbers
<1>6. \A d, b : Numbers(Traffic(d, b)') = Numbers(Traffic(d, b))
  BY <1>4, <1>5
<1>7. /\ FlowSent' = FlowSent /\ FlowHeard' = FlowHeard /\ FlowAnswered' = FlowAnswered
      /\ FlowEchoing' = FlowEchoing
      /\ \A d \in Flights : FlowInFlight(d)' = FlowInFlight(d)
  BY <1>2, <1>6, SameFlows
<1> QED BY <1>7 DEF Flow!vars, Flights

LEMMA QuietFlow ==
    ASSUME Clock, Hears, main' = main, main \in DOMAIN Mains, Clock', Hears',
           InNetwork' = InNetwork, sent' = sent, arrived' = arrived, got' = got
    PROVE  UNCHANGED Flow!vars
<1>1. \A d, b : Traffic(d, b)' = Traffic(d, b)
  BY DEF Traffic
<1>2. /\ FlowSent' = FlowSent /\ FlowHeard' = FlowHeard /\ FlowAnswered' = FlowAnswered
      /\ FlowEchoing' = FlowEchoing
      /\ \A d \in Flights : FlowInFlight(d)' = FlowInFlight(d)
  BY <1>1, SameFlows
<1> QED BY <1>2 DEF Flow!vars, Flights

(* A datagram leaves a flow.                                               *)
Leaves(do, e) == \A b : Traffic(do, b)' = Traffic(do, b) \ {e}
Loses(do, a, n) ==
    FlowInFlight(do)' = [FlowInFlight(do) EXCEPT ![a] = FlowInFlight(do)[a] \ {n}]

LEMMA LeaveFlow ==
    ASSUME Clock, Network, Hears, main' = main, main \in DOMAIN Mains, Clock', Hears',
           NEW e \in InNetwork, NEW do, do = e.call.do, NEW a, a = e.call.app,
           NEW n, n = e.call.n,
           Leaves(do, e)
    PROVE  /\ a \in ClientApps /\ a \in AllApps /\ n \in FlowInFlight(do)[a]
           /\ Loses(do, a, n)
           /\ (\A f \in queue : f = e \/ Sooner(e, f)) /\ e.call.at = Dst(do, a) =>
                 Min(FlowInFlight(do)[a]) = n
<1>1. do \in Flights /\ a \in ClientApps /\ a \in AllApps
  BY FlightFacts, SameFlows
<1>2. PICK fr, gr : fr = FlowInFlight(do) /\ gr = FlowInFlight(do)'
  OBVIOUS
<1>3. /\ fr = [b \in AllApps |-> IF b \in ClientApps THEN Numbers(Traffic(do, b)) ELSE {}]
      /\ gr = [b \in AllApps |-> IF b \in ClientApps THEN Numbers(Traffic(do, b)') ELSE {}]
  BY <1>1, <1>2, FlowsNow, FlowsNext
<1>4. /\ n \in Numbers(Traffic(do, a))
      /\ Numbers(Traffic(do, a) \ {e}) = Numbers(Traffic(do, a)) \ {n}
      /\ (\A f \in queue : f = e \/ Sooner(e, f)) /\ e.call.at = Dst(do, a) =>
            Min(Numbers(Traffic(do, a))) = n
  BY OneLess
<1>5. \A b : b # a => e \notin Traffic(do, b)
  BY DEF Traffic
<1>6. \A b : b # a => Traffic(do, b)' = Traffic(do, b)
  BY <1>5 DEF Leaves
<1>7. /\ fr = [b \in AllApps |-> fr[b]] /\ gr = [b \in AllApps |-> gr[b]]
      /\ fr[a] = Numbers(Traffic(do, a))
      /\ gr[a] = fr[a] \ {n} /\ \A b \in AllApps : b # a => gr[b] = fr[b]
  BY <1>1, <1>3, <1>4, <1>6 DEF Leaves
<1>8. gr = [fr EXCEPT ![a] = fr[a] \ {n}]
  BY <1>1, <1>7, AtOne
<1> QED BY <1>1, <1>2, <1>4, <1>7, <1>8 DEF Loses

LEMMA DeliverFlow ==
    ASSUME Clock, Network, Late, Hears, main' = main, main \in DOMAIN Mains, Clock', Hears',
           NEW e \in queue, Deliver(e)
    PROVE  \E a \in AllApps : Flow!Hear(a) \/ Flow!Lose(a)
<1>1. PICK a, n, do : a = e.call.app /\ n = e.call.n /\ do = "Request"
  OBVIOUS
<1>2. /\ Takes(e, "Request") /\ sent' = sent
      /\ arrived' = [arrived EXCEPT ![a] = arrived[a] + 1]
      /\ got' = [s \in Apps |-> IF s \in Listeners(a) \cap started THEN got[s] + 1 ELSE got[s]]
      /\ e.call.at = App(a).addr /\ arrived \in [Apps -> Nat] /\ got \in [Apps -> Nat]
  BY <1>1, HandedOver DEF Deliver, Clock, Basics
<1>3. /\ e \in InNetwork /\ do = e.call.do /\ e.call.at = Dst(do, a)
      /\ \A f \in queue : f = e \/ Sooner(e, f)
  BY <1>1, <1>2, First DEF InNetwork, Flights, Dst
<1>4. Listeners(a) \cap started = Listeners(a)
  BY <1>1, <1>2, Opened
<1>5. \A b \in ClientApps : got'[b] = got[b]
  BY <1>2 DEF ClientApps, Listeners
<1>6. /\ FlowSent' = FlowSent /\ FlowAnswered' = FlowAnswered /\ FlowEchoing' = FlowEchoing
  BY <1>2, <1>5, SameFlows
<1>7. PICK In : /\ InNetwork' = (InNetwork \ {e}) \cup In
                /\ IF \E s \in Listeners(a) : Echoes(s)
                   THEN \E x : In = {x} /\ x.call.do = "Echo" /\ x.call.app = a /\ x.call.n = n
                   ELSE In = {}
  <2>1. CASE \E s \in Listeners(a) : Echoes(s)
    <3>1. PICK x : /\ InNetwork' = (InNetwork \ {e}) \cup {x}
                   /\ Enters(x, "Echo", a, e.call.n, Src("Echo", a), Dst("Echo", a))
      BY <1>1, <1>4, <2>1, DeliverNet
    <3>2. x.call.do = "Echo" /\ x.call.app = a /\ x.call.n = n
      BY <1>1, <3>1 DEF Enters
    <3> QED BY <2>1, <3>1, <3>2
  <2>2. CASE ~\E s \in Listeners(a) : Echoes(s)
    <3>1. InNetwork' = InNetwork \ {e}
      BY <1>1, <1>4, <2>2, DeliverNet
    <3>2. InNetwork' = (InNetwork \ {e}) \cup {}
      BY <3>1
    <3> QED BY <2>2, <3>2
  <2> QED BY <2>1, <2>2
<1>8. \A x \in In : x.call.do = "Echo" /\ x.call.app = a /\ x.call.n = n
  BY <1>7
<1>9. /\ Leaves(do, e)
      /\ \A b : Traffic("Echo", b)' = IF b = a THEN Traffic("Echo", b) \cup In
                                      ELSE Traffic("Echo", b)
  BY <1>1, <1>3, <1>7, <1>8 DEF Traffic, Leaves
<1>10. /\ a \in ClientApps /\ a \in AllApps /\ n \in FlowInFlight(do)[a]
       /\ Loses(do, a, n)
       /\ Min(FlowInFlight(do)[a]) = n
  BY <1>1, <1>3, <1>9, LeaveFlow
<1>11. CASE Listeners(a) = {}
  <2>1. In = {}
    BY <1>7, <1>11
  <2>2. FlowInFlight("Echo")' = FlowInFlight("Echo")
    <3>1. \A b : Traffic("Echo", b)' = Traffic("Echo", b)
      BY <1>9, <2>1
    <3> QED BY <3>1, SameFlows DEF Flights
  <2>3. FlowHeard' = FlowHeard
    <3>1. \A b \in AllApps : b # a /\ b \in ClientApps => arrived'[b] = arrived[b]
      BY <1>2 DEF ClientApps
    <3> QED BY <1>11, <3>1, FlowsNow, FlowsNext
  <2>4. Flow!Lose(a)
    BY <1>1, <1>6, <1>10, <2>2, <2>3 DEF Flow!Lose, Loses
  <2> QED BY <1>10, <2>4
<1>12. CASE Listeners(a) # {}
  <2>1. PICK fh, gh, fe, ge : /\ fh = FlowHeard /\ gh = FlowHeard'
                              /\ fe = FlowInFlight("Echo") /\ ge = FlowInFlight("Echo")'
    OBVIOUS
  <2>2. gh = [fh EXCEPT ![a] = fh[a] + 1]
    <3>1. /\ fh = [b \in AllApps |-> IF b \in ClientApps /\ Listeners(b) # {}
                                     THEN arrived[b] ELSE 0]
          /\ gh = [b \in AllApps |-> IF b \in ClientApps /\ Listeners(b) # {}
                                     THEN arrived'[b] ELSE 0]
      BY <2>1, FlowsNow, FlowsNext
    <3>2. \A b \in ClientApps : arrived'[b] = IF b = a THEN arrived[a] + 1 ELSE arrived[b]
      BY <1>2 DEF ClientApps
    <3>3. /\ fh = [b \in AllApps |-> fh[b]] /\ gh = [b \in AllApps |-> gh[b]]
          /\ gh[a] = fh[a] + 1 /\ \A b \in AllApps : b # a => gh[b] = fh[b]
      BY <1>10, <1>12, <3>1, <3>2
    <3> QED BY <1>10, <3>3, AtOne
  <2>3. ge = [fe EXCEPT ![a] = IF a \in FlowEchoing THEN fe[a] \cup {n} ELSE fe[a]]
    <3>1. /\ fe = [b \in AllApps |-> IF b \in ClientApps
                                     THEN Numbers(Traffic("Echo", b)) ELSE {}]
          /\ ge = [b \in AllApps |-> IF b \in ClientApps
                                     THEN Numbers(Traffic("Echo", b)') ELSE {}]
      BY <2>1, FlowsNow, FlowsNext DEF Flights
    <3>2. Numbers(Traffic("Echo", a)') = IF a \in FlowEchoing
                                         THEN Numbers(Traffic("Echo", a)) \cup {n}
                                         ELSE Numbers(Traffic("Echo", a))
      BY <1>7, <1>9, <1>10 DEF Numbers, FlowEchoing
    <3>3. PICK y : y = IF a \in FlowEchoing THEN fe[a] \cup {n} ELSE fe[a]
      OBVIOUS
    <3>4. /\ fe = [b \in AllApps |-> fe[b]] /\ ge = [b \in AllApps |-> ge[b]]
          /\ ge[a] = y /\ \A b \in AllApps : b # a => ge[b] = fe[b]
      BY <1>9, <1>10, <3>1, <3>2, <3>3
    <3>5. ge = [fe EXCEPT ![a] = y]
      BY <1>10, <3>4, AtOne
    <3> QED BY <3>3, <3>5
  <2>4. PICK fr, gr : fr = FlowInFlight("Request") /\ gr = FlowInFlight("Request")'
    OBVIOUS
  <2>5. fr[a] # {} /\ Min(fr[a]) = n /\ gr = [fr EXCEPT ![a] = fr[a] \ {Min(fr[a])}]
    BY <1>1, <1>10, <2>4 DEF Loses
  <2>6. ge = [fe EXCEPT ![a] = IF a \in FlowEchoing THEN fe[a] \cup {Min(fr[a])} ELSE fe[a]]
    BY <2>3, <2>5
  <2>7. Flow!Hear(a)
    BY <1>6, <2>1, <2>2, <2>4, <2>5, <2>6, SameMin DEF Flow!Hear
  <2> QED BY <1>10, <2>7
<1> QED BY <1>11, <1>12

LEMMA AnswerFlow ==
    ASSUME Clock, Network, Hears, main' = main, main \in DOMAIN Mains, Clock', Hears',
           NEW e \in queue, Answer(e)
    PROVE  \E a \in AllApps : Flow!Return(a)
<1>1. PICK a, n, do : a = e.call.app /\ n = e.call.n /\ do = "Echo"
  OBVIOUS
<1>2. /\ Takes(e, "Echo") /\ e.call.at = App(a).node /\ sent' = sent /\ arrived' = arrived
      /\ got' = [got EXCEPT ![a] = got[a] + 1] /\ got \in [Apps -> Nat]
  BY <1>1, AnswerMeans DEF Clock, Basics
<1>3. /\ e \in InNetwork /\ do = e.call.do /\ e.call.at = Dst(do, a)
      /\ \A f \in queue : f = e \/ Sooner(e, f)
  BY <1>1, <1>2, First DEF InNetwork, Flights, Dst
<1>4. InNetwork' = InNetwork \ {e}
  BY LeaveNet
<1>5. /\ Leaves(do, e)
      /\ \A b : Traffic("Request", b)' = Traffic("Request", b)
  BY <1>1, <1>3, <1>4 DEF Traffic, Leaves
<1>6. /\ a \in ClientApps /\ a \in AllApps /\ n \in FlowInFlight(do)[a]
      /\ Loses(do, a, n)
      /\ Min(FlowInFlight(do)[a]) = n
  BY <1>1, <1>3, <1>5, LeaveFlow
<1>7. /\ FlowSent' = FlowSent /\ FlowHeard' = FlowHeard /\ FlowEchoing' = FlowEchoing
      /\ FlowInFlight("Request")' = FlowInFlight("Request")
  BY <1>2, <1>5, SameFlows DEF Flights
<1>8. PICK fg, gg : fg = FlowAnswered /\ gg = FlowAnswered'
  OBVIOUS
<1>9. gg = [fg EXCEPT ![a] = fg[a] + 1]
  <2>1. /\ fg = [b \in AllApps |-> IF b \in ClientApps THEN got[b] ELSE 0]
        /\ gg = [b \in AllApps |-> IF b \in ClientApps THEN got'[b] ELSE 0]
    BY <1>8, FlowsNow, FlowsNext
  <2>2. \A b \in ClientApps : got'[b] = IF b = a THEN got[a] + 1 ELSE got[b]
    BY <1>2 DEF ClientApps
  <2>3. /\ fg = [b \in AllApps |-> fg[b]] /\ gg = [b \in AllApps |-> gg[b]]
        /\ gg[a] = fg[a] + 1 /\ \A b \in AllApps : b # a => gg[b] = fg[b]
    BY <1>6, <2>1, <2>2
  <2> QED BY <1>6, <2>3, AtOne
<1>10. PICK fe, ge : fe = FlowInFlight("Echo") /\ ge = FlowInFlight("Echo")'
  OBVIOUS
<1>11. fe[a] # {} /\ ge = [fe EXCEPT ![a] = fe[a] \ {Min(fe[a])}]
  BY <1>1, <1>6, <1>10 DEF Loses
<1>12. Flow!Return(a)
  BY <1>7, <1>8, <1>9, <1>10, <1>11, SameMin DEF Flow!Return
<1> QED BY <1>6, <1>12

LEMMA DropFlow ==
    ASSUME Clock, Network, Hears, main' = main, main \in DOMAIN Mains, Clock', Hears',
           NEW e \in queue, Drop(e)
    PROVE  \E a \in AllApps : Flow!Lose(a)
<1>1. PICK a, n, do : a = e.call.app /\ n = e.call.n /\ do = e.call.do
  OBVIOUS
<1>2. /\ do \in Flights /\ sent' = sent /\ arrived' = arrived /\ got' = got
  BY <1>1, DropMeans
<1>3. e \in InNetwork
  BY <1>1, <1>2 DEF InNetwork
<1>4. InNetwork' = InNetwork \ {e}
  BY LeaveNet
<1>5. /\ Leaves(do, e)
      /\ \A d, b : d # do => Traffic(d, b)' = Traffic(d, b)
  BY <1>1, <1>4 DEF Traffic, Leaves
<1>6. /\ a \in ClientApps /\ a \in AllApps /\ n \in FlowInFlight(do)[a]
      /\ Loses(do, a, n)
  BY <1>1, <1>3, <1>5, LeaveFlow
<1>7. /\ FlowSent' = FlowSent /\ FlowHeard' = FlowHeard /\ FlowEchoing' = FlowEchoing
      /\ FlowAnswered' = FlowAnswered
      /\ \A d \in Flights : d # do => FlowInFlight(d)' = FlowInFlight(d)
  BY <1>2, <1>5, SameFlows
<1>8. Flow!Lose(a)
  <2>1. CASE do = "Request"
    BY <1>6, <1>7, <2>1 DEF Flow!Lose, Flights, Loses
  <2>2. CASE do = "Echo"
    BY <1>6, <1>7, <2>2 DEF Flow!Lose, Flights, Loses
  <2> QED BY <1>2, <2>1, <2>2 DEF Flights
<1> QED BY <1>6, <1>8

LEMMA InitFlows == Init => Flow!Init
<1> SUFFICES ASSUME Init PROVE Flow!Init
  OBVIOUS
<1>1. Clock /\ Hears
  BY InitClock DEF Init, Hears, Listeners, ClientApps
<1>2. \A a \in ClientApps : sent[a] = 0 /\ arrived[a] = 0 /\ got[a] = 0
  BY DEF Init, ClientApps
<1>3. \A do, a : Numbers(Traffic(do, a)) = {}
  BY InitNetwork DEF Traffic, Numbers
<1>4. FlowEchoing \subseteq AllApps
  BY <1>1, FlowsNow DEF FlowEchoing
<1>5. /\ FlowSent = [a \in AllApps |-> 0] /\ FlowHeard = [a \in AllApps |-> 0]
      /\ FlowAnswered = [a \in AllApps |-> 0]
  BY <1>1, <1>2, FlowsNow
<1>6. \A do \in Flights : FlowInFlight(do) = [a \in AllApps |-> {}]
  BY <1>1, <1>3, FlowsNow
<1> QED BY <1>4, <1>5, <1>6 DEF Flow!Init, Flights

(* Every step is one of LossyFlows, or none.                               *)
LEMMA FlowStep ==
    ASSUME Clock, Network, Late, Hears, [Next]_vars, Clock', Hears'
    PROVE  [Flow!Next]_(Flow!vars)
<1>1. main' = main /\ main \in DOMAIN Mains
  BY StepKinds, Keeps, ReturnMeans DEF Clock, Basics
<1>2. CASE Return \/ UNCHANGED vars
  <2>1. InNetwork' = InNetwork /\ sent' = sent /\ arrived' = arrived /\ got' = got
    BY <1>2, ReturnMeans DEF InNetwork
  <2> QED BY <1>1, <2>1, QuietFlow
<1>3. CASE \E e \in queue : Initialize(e) \/ Start(e) \/ AttachTraces(e) \/ Halt(e)
  <2>1. InNetwork' = InNetwork /\ sent' = sent /\ arrived' = arrived /\ got' = got
    BY <1>3, QuietNet
  <2> QED BY <1>1, <2>1, QuietFlow
<1>4. CASE \E e \in queue : Send(e)
  BY <1>1, <1>4, SendFlow DEF Flow!Next
<1>5. CASE \E e \in queue : ForwardRequest(e) \/ ForwardEcho(e)
  BY <1>1, <1>5, ForwardFlow
<1>6. CASE \E e \in queue : Deliver(e)
  BY <1>1, <1>6, DeliverFlow DEF Flow!Next
<1>7. CASE \E e \in queue : Answer(e)
  BY <1>1, <1>7, AnswerFlow DEF Flow!Next
<1>8. CASE \E e \in queue : Drop(e)
  BY <1>1, <1>8, DropFlow DEF Flow!Next
<1> QED BY <1>2, <1>3, <1>4, <1>5, <1>6, <1>7, <1>8, Steps

(* The network implements flows that lose datagrams but neither reorder nor*)
(* duplicate them nor mix them up.                                         *)
THEOREM FlowsCorrect == Spec => FlowsAreIndependent
<1> DEFINE I == Clock /\ Network /\ Late /\ Hears
<1>1. Init => I
  <2>1. Init => Late
    BY InitNetwork DEF Late
  <2>2. Init => Hears
    BY DEF Init, Hears, Listeners, ClientApps
  <2> QED BY <2>1, <2>2, InitClock, InitOrder
<1>2. I /\ [Next]_vars => I'
  BY ClockStep, NetworkStep, LateStep, HearsStep
<1>3. I /\ I' /\ [Next]_vars => [Flow!Next]_(Flow!vars)
  BY FlowStep
<1>4. Init => Flow!Init
  BY InitFlows
<1> QED BY <1>1, <1>2, <1>3, <1>4, PTL DEF Spec, FlowsAreIndependent, Flow!Spec

-----------------------------------------------------------------------------
(* The delivery ratio.                                                     *)

(* There are finitely many clients.                                        *)
LEMMA FiniteApps == main \in DOMAIN Mains => IsFiniteSet(ClientApps)
<1>1. ClientApps \subseteq Apps
  BY DEF ClientApps
<1> QED BY <1>1, ScenarioFacts, FS_Subset

(* The ratio is one of echoes: the server of a client sends all it hears.  *)
LEMMA EchoesAre ==
    ASSUME Clock, Hears, S.pdr, NEW a \in ClientApps
    PROVE  EchoesSent(a) = arrived[a]
<1>1. /\ main \in DOMAIN Mains /\ got \in [Apps -> Nat]
      /\ \A s \in Listeners(a) : got[s] = arrived[a]
  BY DEF Clock, Basics, Hears
<1>2. PICK s \in Apps : App(s).kind = "UdpEchoServer" /\ App(s).node = App(a).addr
                        /\ App(s).port = App(a).port
  BY <1>1, ScenarioFacts, RatioOfEchoes DEF ClientApps, IsClient, App, Apps
<1>3. s \in Apps \ ClientApps
  BY <1>2 DEF ClientApps, IsClient, Clients
<1>4. s \in Listeners(a) /\ Echoes(s)
  <2>1. s \in Listeners(a)
    BY <1>1, <1>2, <1>3, OwnListeners
  <2> QED BY <1>2, <2>1 DEF Echoes
<1>5. Listeners(a) = {s}
  BY <1>1, <1>4, OwnListeners
<1>6. {t \in Listeners(a) : Echoes(t)} = {s}
  BY <1>4, <1>5
<1>7. got[s] \in Int /\ got[s] = arrived[a]
  BY <1>1, <1>2, <1>4
<1>8. SumFunctionOnSet(got, {s}) = got[s]
  BY <1>7, SumOfOne
<1> QED BY <1>6, <1>7, <1>8 DEF EchoesSent

(* The arithmetic of the ratio.                                            *)
LEMMA Ratio ==
    ASSUME NEW q \in Nat, NEW r \in Nat, NEW s \in Nat, r <= q, s <= r
    PROVE  /\ r + s <= q + r
           /\ r + s = q + r <=> s = q
           /\ (r + s) * q >= s * (q + r)
<1>1. r * s <= r * q
  <2>1. PICK k \in Nat : q = s + k
    <3>1. q - s \in Nat /\ q = s + (q - s)
      OBVIOUS
    <3> QED BY <3>1
  <2>2. r * q = r * s + r * k /\ r * k \in Nat /\ r * s \in Nat
    BY <2>1
  <2> QED BY <2>2
<1>2. (r + s) * q = r * q + s * q /\ s * (q + r) = s * q + r * s
  OBVIOUS
<1> QED BY <1>1, <1>2

(* The printed ratio is 1 only if all came back, 0 if there are only       *)
(* errors, and never below the share of the requests that were answered.   *)
THEOREM PdrCorrect == Spec => []PdrMeaning
<1> DEFINE I == Clock /\ Late /\ Hears /\ Counts /\ Silence
<1>1. Init => I
  <2>1. Init => Late
    BY InitNetwork DEF Late
  <2>2. Init => Hears
    BY DEF Init, Hears, Listeners, ClientApps
  <2>3. Init => Silence
    BY DEF Init, Silence
  <2> QED BY <2>1, <2>2, <2>3, InitClock, InitCounts
<1>2. I /\ [Next]_vars => I'
  BY ClockStep, LateStep, HearsStep, CountsStep, SilenceStep
<1>3. I => PdrMeaning
  <2> SUFFICES ASSUME I, S.pdr PROVE PdrMeaning
    BY DEF PdrMeaning
  <2> DEFINE C == ClientApps
             q == SumFunctionOnSet(sent, C)
             r == SumFunctionOnSet(arrived, C)
             s == SumFunctionOnSet(got, C)
             tx == [a \in C |-> sent[a] + EchoesSent(a)]
             rx == [a \in C |-> arrived[a] + got[a]]
  <2>1. IsFiniteSet(C) /\ C \subseteq Apps
    BY FiniteApps DEF Clock, Basics, ClientApps
  <2>2. \A a \in C : /\ sent[a] \in Nat /\ arrived[a] \in Nat /\ got[a] \in Nat
                     /\ arrived[a] <= sent[a] /\ got[a] <= arrived[a]
    <3> SUFFICES ASSUME NEW a \in C
                 PROVE  /\ sent[a] \in Nat /\ arrived[a] \in Nat /\ got[a] \in Nat
                        /\ arrived[a] <= sent[a] /\ got[a] <= arrived[a]
      OBVIOUS
    <3>1. /\ sent[a] \in Nat /\ arrived[a] \in Nat /\ got[a] \in Nat
          /\ Cardinality(Traffic("Request", a)) \in Nat /\ Cardinality(Traffic("Echo", a)) \in Nat
          /\ Cardinality(Traffic("Request", a)) + arrived[a] <= sent[a]
          /\ Cardinality(Traffic("Echo", a)) + got[a] <= arrived[a]
      BY CountTypes DEF Flights
    <3> QED BY <3>1
  <2>3. \A a \in C : tx[a] = sent[a] + arrived[a] /\ rx[a] = arrived[a] + got[a]
    BY EchoesAre
  <2>4. TotalTx = SumFunctionOnSet(tx, C) /\ TotalRx = SumFunctionOnSet(rx, C)
    BY DEF TotalTx, TotalRx, SumFunction
  <2> HIDE DEF tx, rx, C
  <2>5. q \in Nat /\ r \in Nat /\ s \in Nat
    BY <2>1, <2>2, SumNat
  <2>6. r <= q /\ s <= r
    BY <2>1, <2>2, SumMono
  <2>7. TotalTx = q + r /\ TotalRx = r + s
    BY <2>1, <2>2, <2>3, <2>4, SumPlus
  <2>8. S.errors = "always" => r = 0 /\ s = 0
    <3> SUFFICES ASSUME S.errors = "always" PROVE r = 0 /\ s = 0
      OBVIOUS
    <3>1. \A a \in C : arrived[a] = 0 /\ got[a] = 0
      BY <2>1 DEF Silence
    <3> QED BY <2>1, <2>2, <3>1, SumNat
  <2>9. q = SumFunctionOnSet(sent, ClientApps) /\ s = SumFunctionOnSet(got, ClientApps)
    BY DEF C
  <2> HIDE DEF q, r, s
  <2>10. /\ r + s <= q + r /\ (r + s = q + r <=> s = q) /\ (r + s) * q >= s * (q + r)
         /\ S.errors = "always" => r + s = 0
    BY <2>5, <2>6, <2>8, Ratio
  <2> QED BY <2>7, <2>9, <2>10 DEF PdrMeaning
<1> QED BY <1>1, <1>2, <1>3, PTL DEF Spec

-----------------------------------------------------------------------------
(* Jain's index.                                                           *)

Counted == {a \in TcpClients : arrived[a] > 0}

(* The flows that count are the clients whose handshake got through.       *)
LEMMA ValidFlows ==
    ASSUME Clock, Measures, done
    PROVE  /\ Valid = {<<a, "to">> : a \in Counted}
           /\ \A f \in Valid : measured[f] \in Nat \ {0}
           /\ {f[1] : f \in Valid} = Counted
           /\ IsFiniteSet(Valid) /\ Cardinality(Valid) = Cardinality(Counted)
<1>1. measured \in [Monitored -> 1..MaxMeasure] /\ MaxMeasure \in Nat
  BY SimulationAssumption DEF Measures
<1>2. \A f \in Monitored : measured[f] \in Nat \ {0}
  BY <1>1
<1>3. DOMAIN measured = Monitored
  BY <1>1
<1>4. Valid = {<<a, "to">> : a \in Counted}
  <2>1. \A f \in Monitored : f[2] = "to" <=> f \in {<<a, "to">> : a \in Counted}
    BY DEF Monitored, Counted
  <2>2. {<<a, "to">> : a \in Counted} \subseteq Monitored
    BY DEF Monitored, Counted
  <2>3. \A f \in Monitored : measured[f] > 0
    BY <1>2
  <2>4. Valid = {f \in Monitored : f[2] = "to"}
    BY <1>3, <2>3 DEF Valid
  <2> QED BY <2>1, <2>2, <2>4
<1>5. \A f \in Valid : measured[f] \in Nat \ {0}
  BY <1>2, <1>3 DEF Valid
<1>6. {f[1] : f \in Valid} = Counted
  <2>1. \A f \in Valid : f[1] \in Counted
    BY <1>4
  <2>2. \A a \in Counted : <<a, "to">> \in Valid /\ <<a, "to">>[1] = a
    BY <1>4
  <2> QED BY <2>1, <2>2
<1>7. IsFiniteSet(Counted)
  <2>1. Counted \subseteq ClientApps
    BY DEF Counted, TcpClients
  <2>2. IsFiniteSet(ClientApps)
    BY FiniteApps DEF Clock, Basics
  <2> QED BY <2>1, <2>2, FS_Subset
<1>8. ExistsBijection(Counted, Valid)
  <2> DEFINE b == [a \in Counted |-> <<a, "to">>]
  <2>1. b \in Bijection(Counted, Valid)
    BY <1>4 DEF Bijection, Injection, Surjection, IsInjective
  <2> QED BY <2>1 DEF ExistsBijection
<1>9. IsFiniteSet(Valid) /\ Cardinality(Valid) = Cardinality(Counted)
  BY <1>7, <1>8, FS_Bijection
<1> QED BY <1>4, <1>5, <1>6, <1>9

(* Jain's index counts every flow whose handshake got through once and     *)
(* nothing else, lies between the share of one flow and 1, and is 1 only   *)
(* if all flows received the same.                                         *)
THEOREM JainCorrect == Spec => []JainMeaning
<1> DEFINE I == Clock /\ Measures
<1>1. Init => I
  BY InitClock DEF Init, Measures
<1>2. I /\ [Next]_vars => I'
  BY ClockStep, MeasuresStep
<1>3. I => JainMeaning
  <2> SUFFICES ASSUME I, done, Counted # {} PROVE JainMeaning
    BY DEF JainMeaning, Counted
  <2>1. /\ \A f \in Valid : measured[f] \in Nat \ {0}
        /\ {f[1] : f \in Valid} = Counted
        /\ IsFiniteSet(Valid) /\ Cardinality(Valid) = Cardinality(Counted)
    BY ValidFlows
  <2>2. Valid # {}
    BY <2>1
  <2> DEFINE squared == [f \in Valid |-> measured[f] * measured[f]]
  <2>3. PICK s, q, n : /\ s = SumFunctionOnSet(measured, Valid)
                       /\ q = SumFunctionOnSet(squared, Valid) /\ n = Cardinality(Valid)
    OBVIOUS
  <2>4. \A f \in Valid : measured[f] \in Nat \ {0} /\ squared[f] = measured[f] * measured[f]
    BY <2>1
  <2>5. SumFunction([f \in Valid |-> measured[f] * measured[f]]) = q
    BY <2>3 DEF SumFunction
  <2> HIDE DEF squared
  <2>6. /\ s \in Nat /\ q \in Nat /\ n \in Nat
        /\ s * s <= n * q
        /\ s * s = n * q <=> \A f, g \in Valid : measured[f] = measured[g]
        /\ q <= s * s
        /\ q > 0
    BY <2>1, <2>2, <2>3, <2>4, SquaredSum
  <2>7. PICK J : J = JainsIndex
    OBVIOUS
  <2>8. J = <<s * s, n * q>>
    BY <2>3, <2>5, <2>6, <2>7 DEF JainsIndex
  <2>9. n * (s * s) >= n * q
    <3>1. PICK k \in Nat : s * s = q + k
      <4>1. s * s - q \in Nat /\ s * s = q + (s * s - q)
        BY <2>6
      <4> QED BY <4>1
    <3>2. n * (q + k) = n * q + n * k /\ n * k \in Nat /\ n * q \in Nat
      BY <2>6
    <3> QED BY <3>1, <3>2
  <2>10. J[1] <= J[2] /\ n * J[1] >= J[2]
    BY <2>6, <2>8, <2>9
  <2>11. J[1] = J[2] <=> \A f, g \in Valid : measured[f] = measured[g]
    BY <2>6, <2>8
  <2>12. n = Cardinality(Counted)
    BY <2>1, <2>3
  <2> QED BY <2>1, <2>7, <2>10, <2>11, <2>12 DEF JainMeaning, Counted
<1> QED BY <1>1, <1>2, <1>3, PTL DEF Spec
=============================================================================
