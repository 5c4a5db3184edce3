# Verification of the CSL351 network programs

The repository holds the programs of a computer-networks course: a DNS-like
resolver with a video stream (Assignment 10, part 1), a UDP ping, a throughput
meter and a traceroute (Assignment 10, part 2), and ns-3 simulations of small
networks and TCP variants (Assignments 5 to 8). This directory models the
programs that have behaviour of their own in TLA+, checks them with TLC and
proves theorems about them with TLAPS.

`PROJECT.json` is the index: components, runs, mutants, the lines every
definition stands for, findings, hazards and theorems.

## Inventory

### UDP ping (`Assignment10/Part 2/q1client.c`, `q1server.c`)
* State: the loop index, `recvcnt`, `lost_count`, the sum of round-trip times;
  one buffer in the server; datagrams in two directions and in two socket
  buffers.
* Operations: send, receive one datagram or time out after one second, compare
  the number, sleep, print; the server receives and sends back.
* Hard: answers lost, duplicated, reordered, or later than the timer; `sendto`
  failing halfway.
* Correct when: every iteration is accounted for once; nothing is counted that
  the server did not send; the printed loss is that of the path whenever the
  answers come in time; it always gets to its statistics.

### Traceroute (`q3traceroute.c`)
* State: `ttl`, `probe`, `destreached`, the row; probes and ICMP messages on
  their way; the raw socket, which sees every ICMP message of the host.
* Operations: send one probe to port `DESTPORT + ttl + probe`, read until a
  message quotes that port or nothing comes for three seconds.
* Hard: ports repeat in the following rows, late and duplicated messages,
  messages of other programs, silent hops, a destination that never answers.
* Correct when: a printed time belongs to the probe of its column; the trace
  stops at the destination and nowhere else; it stops. (Where another program
  probes the same ports the code promises neither; the properties say what is
  left.)

### Throughput client (`q2client.c`, `q2server.c`)
* State: two threads; the flag `running`, the table `stats`, the socket shared
  without a lock; the clock.
* Hard: the receiver writes while the main thread stops and prints; replies
  after the end of the test; durations outside the table; whole seconds; an
  interval of 0, with which the loop never sleeps.
* Correct when: every reply is filed in the row of its second, the table is
  final before it is read and indexed inside its bounds, and both threads end.

### Resolver (`Part 1/Server.c`, `dns_records.txt`, first half of `client.cpp`)
* State: the listening socket's backlog, one connection, one request struct
  reused for all; the text file; each client's struct.
* Hard: partial reads, which leave a name or an address that may be another
  valid one; connections that break or say nothing, a full backlog, the file
  changing while the server runs, one error that ends the server.
* Correct when: a client gets the current answer to its own question, acts on
  it, and gets one.

### Video stream (`videoserver.cpp`, second half of `client.cpp`)
* State: one request in the server's hand, one outstanding datagram per viewer.
* Hard: lost or duplicated datagrams with no timer in the client; several
  viewers served by one loop; the key that is read only after a frame.
* Correct when: at most one datagram per viewer is in the system; viewers do
  not disturb each other; the key works.

### TcpAshish (`Assignment8/as8_que1.cc`)
* State: `m_delayMin`, `m_currRtt`, `m_thresholdFound`, and the window and
  threshold it shares with ns-3's socket.
* Hard: sequences of round-trip times and losses nobody simulated.
* Correct when: slow start is cut short only by a delay, once, and the window
  can always grow again.

### MyApp (`Assignment7/Part2/as7_que2.cc`)
* State: running, packets sent, the scheduled event; the simulator's queue.
* Hard: events of the same time, a stop between a schedule and its event.
* Correct when: it paces exactly, stops completely and offers the number of
  packets its arguments say.

### Simulations (Assignments 5, 6 and 8)
* State: ns-3's clock and event list; per application whether it has started
  and what it sent and was handed; per device until when it transmits; at the
  end FlowMonitor's counters.
* Operations: each `main` configures nodes, links, addresses, applications, the
  end, and (part B) error models or (dumbbell) traces, runs the simulator and
  prints a report.
* Hard: events of the same time, whose order is the order of scheduling; flows
  that share nodes, links and routers; an address that is not the node's;
  reports that add up more than their name says.
* Correct when: every client sends what its arguments say, every datagram
  reaches the server that was installed for it and no other, and the printed
  ratio and index mean what they seem to mean.

### Other parts
Scripts and plot files start programs and draw their output; Assignments 1, 3,
4, 9 and 11 hold reports and Packet Tracer files only.

### How they interact
`client.cpp` asks the resolver over TCP, and then the video server at the
address it was given, over UDP. The ping and the throughput client talk to an
echo server. Traceroute talks to the routers of its path. TcpAshish is called by
ns-3's TCP socket, MyApp and the stock applications by ns-3's scheduler; the
applications of one simulation meet on its devices and in its event list. No two programs share memory;
the only shared memory is that of the two threads of `q2client.c`.

## Plan

In the order of their importance; (done) marks what exists.

1. `Ping`, `Traceroute`, `VideoStream`, with proofs (done).
2. `DnsServer`, `Iperf`, `TcpAshish`, with proofs (done).
3. `EventQueue`, ns-3's scheduler, and `MyApp` on top of it, with proofs (done).
4. Abstract specifications, each implemented by the module above under a
   refinement mapping: `Tally` for `Ping` (done, proved), `Resolver` for
   `DnsServer` (done, proved), `LossyFlows` for `Simulation` (done, proved).
5. `StreamingSystem`: the client that resolves and then streams, composed of
   `Resolver` and `VideoStream` (done, with proofs).
6. `Simulation` and `Scenarios`: the programs of Assignments 5, 6 and 8 on
   `EventQueue` (done, with proofs).
7. Left: a proof that the scenarios of the programs meet the assumptions of
   `Simulation` for every argument (TLC evaluates them for those of the run);
   the data of the TCP flows and the report of part A.

## Modules

| module | models | state and actions |
|---|---|---|
| `Ping` | `q1client.c`, `q1server.c` | `pc` is the place in the loop; `Send`, `SendFails`, `Recv`, `Timeout`, `Sleep`, `Report` are its branches. A datagram is its number. |
| `Tally` | what a ping promises | turns with one verdict each, `received` only after that turn's probe was echoed and then summed; `Ping` maps its loop index, its counters and `trtt` to it (`KeepsTally`). |
| `Traceroute` | `q3traceroute.c` | one action per branch of the two loops; `Hop` is the path; a message carries the port it quotes, all that `Matches` looks at, and what it really answers, which nobody sees; `OthersArrive` is the rest of the machine's ICMP; a row is the verdict on each probe. |
| `VideoStream` | loops of `client.cpp`, `videoserver.cpp` | per viewer the place in its loop and the number of datagrams each way; the server's socket buffer is a queue of senders. |
| `DnsServer` | `Server.c`, first half of `client.cpp` | a connection holds nothing, part of the struct, the whole, or its end, each way; `Prefixes` is what a cut inside a name or an address leaves; `Read`, `Answer` are the server's loop; `Lookup` is the `fscanf` loop. |
| `Resolver` | what the name server promises | a client asks, is told in one instant what the records say, and acts on it; `DnsServer` maps its connections to it (`ActsAsResolver`). |
| `StreamingSystem` | all of `client.cpp` with both its servers | conjoins the actions of `Resolver` and of `VideoStream`; `Opened` is the way past `NOT_FOUND`, `SinAddr` what lines 90 to 93 put in `sin_addr`: the address, if `inet_pton` takes it, and else 0.0.0.0. |
| `Iperf` | `q2client.c` | program counters `mpc` and `rpc` of the two threads, with one step per access to shared state; the clock ticks between any two. |
| `TcpAshish` | class `TcpAshish` | `Ack` is `PktsAcked` and then `IncreaseWindow`; losses are what ns-3 does to the window. |
| `EventQueue` | ns-3's event list (external) | operators on a set of events. |
| `MyApp` | class `MyApp` and `main` of Assignment 7 | one action per event; `SendPacket` includes `ScheduleTx`. |
| `Scenarios` | what the mains of Assignments 5, 6 and 8 configure | one record per program: links, applications, end, errors, traces. |
| `Simulation` | the run of such a program, and its report | one action per kind of event, of a TCP flow the first segment and its answer (`Initialize`, `Start`, `Send`, `Forward...`, `Deliver`, `Answer`, `Drop`, `AttachTraces`, `Halt`); ns-3's devices, routes and sockets are external; `TotalTx`, `TotalRx`, `JainsIndex` are the reports. |
| `LossyFlows` | what clients and servers may expect of the network | per flow the numbers sent, in flight, heard and answered; `Simulation` maps to it (`FlowsAreIndependent`). |

`MC*` extend these with small instances, `*_proofs` with theorems. An operator
named `...Mutant` is a plausible mistake in the definition that follows it; it
is used by no specification, and the properties are tested by putting it in its
place.

Environments. What may go wrong is a variable `faults` that never changes, with
its possible values given by a constant. One run covers several environments
that way, and a property can say which of them it needs: `LossIsExact` holds
where nothing is late or duplicated, `OneLateAnswerEndsCounting` where lateness
is all that happens. (`path` in `Traceroute` and `scenario` in `MyApp` are used
alike.)

## Runs

| run | instance | shows |
|---|---|---|
| `ping` | 3 probes, socket of 3, 2 duplications; all faults, all but lateness and duplication, lateness alone | all of the ping's properties; 97 475 states |
| `traceroute` | 3 rows of 2 probes; paths of 1 to 4 hops with silent, unreachable and port-unreachable hops, each with its faults, among them another program that probes the same ports | `AttributionBound`, `ExactWhenInTime` (whose answer a time is); `StopIsSound`, `StopsAtDestination`; termination; 718 074 states |
| `streaming` | 2 viewers, one on a faulty path, the other on the video server's machine, so that it finds the server at 0.0.0.0 too; socket of 4, 2 duplications; records that say the right address, another or none; connections that break or not | the pull protocol (`OneOutstanding`), isolation (`TheServedStream`, `TheServedExit`), starvation (`NoRecovery`), and the address that is looked up once (`MisledForEver`); 39 678 states |
| `dns` | 2 clients, one asking for a name that another record's begins, backlog 1, two contents of the file, in which one address begins another, and its absence; two environments, one in which connections break and structs are cut, one in which clients stall and connect gives up | implements `Resolver` (`ActsAsResolver`); everyone gets in and is answered; 20 592 states |
| `iperf` | durations -1 to 3, a pause of a tick or none, a table of 2 seconds, 2 ticks a second, the first 2 packets followed | threads (`TailBound`, `TableFinal`), rows (`FiledInItsSecond`, `InBounds`), length (`LengthBound`), ending; 906 826 states |
| `ashish` | segments of 2, threshold 12, round trips 0 to 7 ms, windows up to 16 | delay state (`FoundNeedsDelay`), trigger (`TriggerCaps`), freeze (`StuckForEver`); 8 018 states |
| `myapp` | 900 scenarios: start 0-2, stop and end 0-4, up to 4 packets, interval 0-2 | what a stop cancels (`CancelReachesAll`, `SilentAfterStop`), count (`OffersExactly`), ending; 7 611 states |
| `simulations` | 17 programs: every one with its defaults, the arguments of the recorded traces of Q7, slow links, an interval of 0, and part B without, with some and with only errors | what is sent and heard (`SentExactly`, `HeardIfInstalled`), flows (`FlowsAreIndependent`), reports (`PdrMeaning`, `TracesFindSockets`, `JainMeaning`), UDP load and ending (`EndsInTime`); 39 566 states |
| `traceroute_port`, `streaming_exit`, `dns_reset`, `ashish_handback` | smaller instances | one finding each, see below |

Why the bounds are enough. In `Ping` an answer can only be late by whole
iterations: three probes give one that is late by one and by two, and a socket
that holds all of them. In `Traceroute` two probes a row are the least for a port
to repeat in the next row, and three rows show that it repeats no further; the
theorem covers the rest. Of other programs' messages at most one is in the raw
socket at a time: the program reads in any order and they may come at any
moment, so it cannot tell two that wait from one after the other. One duplication can give a datagram two copies, two
let both directions or both copies be duplicated. In `Iperf` a table shorter
than the longest duration and longer than the shortest makes the clamp matter;
two ticks a second place the start inside a second. `MaxTime` stops the clock
one tick after the last second the program looks at, and a sleep that would
end later ends there; nothing the program reads depends on later times. Without a pause the loop
sends without limit; `MaxSeq` is how many packets may come back, two being
enough for replies of different seconds, for one that is late and one that is
not, and for a full socket. In `TcpAshish` round
trips up to 7 ms straddle the 4 ms threshold, and the window passes the initial
threshold; acknowledgements beyond `MaxCWnd` are not followed. `Backlog` is 1
so that two clients fill it (the code's is 5). In `simulations` times, rates,
ports, counts and ends are those of the programs; `MaxMeasure` is 2, so that
flows can differ in throughput, `QueueSize` is ns-3's 100 datagrams, which no
scenario without TCP reaches (part of `EndsInTime`), the dumbbell has its default of 4 flows (the
script also runs 8, 16 and 20, which add flows of the same two kinds), and part B with
errors somewhere has one datagram per client, because every device it crosses
may then drop it. All datagrams carry the default of 1024 bytes.

### Findings (runs that expect a violation)
* `traceroute_port`: ports repeat in the next row, so they are not "unique" (`PortIsUnique`).
* `streaming_exit`: after one lost datagram `'x'` no longer exits (`XExits`).
* `dns_reset`: a client whose connection breaks streams without having
  discovered an address (`StreamsFromDiscovered`); the trace has the server end
  on an error of `accept`, with the client in its backlog.
* `ashish_handback`: below the threshold with the flag set, an acknowledgement
  does nothing; NewReno is not called (`HandsBack`).

Also seen while modelling, without a run of their own:
* `q1client.c:106` prints "out-of-order" for answers that are late, although
  nothing overtook anything.
* `q3traceroute.c:104`: unrelated ICMP traffic restarts the timer of a probe, so
  a wait can last for ever (`Terminates` excludes that traffic).
* `q3traceroute.c:118-124` takes any error that quotes the port for the answer of
  its probe, also one that answers another program, as a second traceroute's
  with the usual base port of 33434: such an answer is printed as a time of this
  path (`AttributionBound`), and a port unreachable of that kind ends the trace
  early (`StopIsSound`).
* `client.cpp:93` ignores the result of `inet_pton`: without an address the
  viewer sends to 0.0.0.0, which is its own machine. Where the video server runs
  there, as with the recorded `dns_records.txt`, it is served by luck.
* `client.cpp:73` and `Server.c:76` read once: an address or a name cut short is
  used as if it were whole (`ActsAsResolver` says what may come of it).
* `Server.c:88` pairs words, not the words of a line.
* `q2client.c:101` announces a number of seconds; the test may be almost one
  second shorter (`LengthBound` is what holds).
* `as7_que2.cc:343`: the simulation ends when the application should stop; the
  end was scheduled first, so the stop never runs (`OffersExactly` counts with
  it). The same holds in every program of Assignments 5, 6 and 8: `Simulation`
  has no action for a stop, and a stop that came due would be a deadlock.
* `que2.cc:71`: the end and the client's start are due together and the end was
  scheduled first; the client sends nothing (`SentExactly`), although the report
  describes its transmission (`src/Assignment5/12340370_Ashish_05.pdf`).
* `as6_que1.cc:97`: the first sink listens for the address of terminal 7 on
  terminal 4, and its client runs on terminal 7, so its segments never leave that
  node (`HeardIfInstalled`). The recorded `flowresults.dat` shows two SYNs for
  it (the second is a retransmission, which is not modelled), yet a goodput, because the report counts packets as payload.
* `as6_que2.cc:200`: the ratio is over requests and echoes together, so it is
  above the share of requests that were answered (`PdrMeaning`). The errors
  are per device, so it falls with every hop.

### Against recorded output
The repository holds output the simulation model can be compared with. In the
traces of Q7 (5 Mbps, 2 ms, 10 ms, 3000 datagrams) the datagram sent at 1.0 s is
answered although client and server start at the same time, and the first echo
is back 9.059 ms after it was sent, as in the model, which has it behind the
other client's datagram in the device. In `outputdataPacket.dat` the ratio is 1 without and 0 with
only errors. The recorded TCP traces of part A and of the dumbbells show lost
segments and retransmissions on links without errors: TCP does fill the queues
there, and the model, which follows no data of a TCP flow, says nothing of it.

## Fairness

Processes and threads of a multitasking system are run again and again: weak
fairness on the client, on the server, on each thread and on the simulator's loop. A
datagram the network does not lose arrives: weak fairness on delivery, and none
on loss. `Iperf` needs no delivery at all, only the clock and the receiver's
100 ms timer. People (a key, an edit of the file), duplication, death and
foreign messages have no fairness. Timers are actions that may happen when
nothing is there to read; where a property needs that they do not fire early,
its premise excludes `"late"`.

`StreamingSystem` asks fairness of the viewers, the video server and delivery,
and none of the resolver: its properties begin once a viewer has an address.
`Simulator::Run` is a loop, so one weak fairness condition on it makes a simulation
end.

`DnsServer` and the ping's server wait for ever by design; the ping, the
traceroute, the throughput client and the simulations stop, and their last state has a step that
changes nothing, so that deadlock can be checked everywhere.

## Refinement and composition

* `Ping` implements `Tally`. A turn is an iteration whose verdict is in (the
  iteration counts as done from its verdict on, while it still sleeps), and the
  mapping hides datagrams and buffers, and shows whose round-trip times are
  summed.
* `DnsServer` implements `Resolver`: `accept`, `read`, the search and the reply
  become one instant, the one at which the file is searched. The mapping reads a
  client's standing off its program counter and its connection (`StandingOf`)
  and its answer off the reply on the way or its struct (`AnswerOf`). Only where
  connections may break or structs be cut does `Resolver` let a client be told
  of a shorter name, or act on a shorter address or on none; the run covers both.
* `StreamingSystem` uses `Resolver` in place of `DnsServer`, which is what that
  refinement is for: the composed state space stays small, and the theorems about
  the whole client do not depend on how the server reads its file.
* `Simulation` implements `LossyFlows`: event list, devices and routes vanish,
  and what remains is that each flow is a channel of its own, which may lose but
  neither copies, mixes up nor reorders.

## Proofs

All theorems hold for every value of the constants that the modules' `ASSUME`s
allow (`PingAssumption`, `TracerouteAssumption`, `VideoAssumption`,
`AshishAssumption`, `SystemAssumption`, `DnsAssumption`, `IperfAssumption`,
`MyAppAssumption`, and those of `Simulation`, see below). `DnsAssumption` includes that no word of a file is empty, which is
so of words that `fscanf` reads with `%s`.

* `Ping_proofs`. The inductive invariant adds to the types what each position
  in the loop knows: the numbers of the datagrams in flight and in the
  buffer, who has echoed what, and the sum of the three verdicts.
  `AccountingCorrect` needs the sum only; `ReceivedCorrect` needs that every
  answer anywhere was echoed and that counted answers are those of distinct
  probes; `LateCorrect` needs the order of the datagrams from client to server
  to socket: once one answer is late the first in the buffer is always older
  than the current probe. `TallyCorrect` is the refinement: initial states map
  to initial states, and every step to a step of `Tally` or to a stutter. It
  rests on `AccountingCorrect`'s invariant and on the fact that whatever
  was sent belongs to a turn that has begun. `LossCorrect` says where the one
  datagram under way can be when none is late or duplicated.
* `Traceroute_proofs`. A printed time quotes a probe that was sent (so of no
  later row) with the port of its column, and ports add row and column; that
  bounds the row it can come from. `StopCorrect` carries the port
  unreachable that set `destreached` back to the hop that sent it, or to another
  program's probe where there is one. `RowCorrect`
  (each finished row has a verdict for each probe) is part of that invariant.
  `ExactCorrect`: without late or duplicated messages at most one probe or one
  answer to it is under way. `DestinationCorrect` adds that without losses one
  of the two is, unless the hop is silent; so no row behind the program has a port
  unreachable in it.
* `StreamingSystem_proofs` begins with the stream alone. `OneOutstandingCorrect`
  is inductive once it says where the one datagram of a viewer can be;
  `StarvedForEver` follows action by action. Then these are lifted to the
  composition: every step of the
  system is a step of the stream or leaves it alone, so the invariant of the
  stream carries over (`SystemOneOutstanding`, `SystemStarved`). `MisledCorrect`
  needs an invariant of its own: of a viewer that streams from where no video server
  is, nothing is in the server, and no frame is on its way to it.
* `TcpAshish_proofs`. The types, the order baseline <= sample <= worst sample,
  and the reason of a raised flag are inductive together; `TriggerCorrect` and
  `StuckCorrect` are step properties on top of it. Steps that mix the flag with
  arithmetic are split, each half for the prover that can do it.
* `Iperf_proofs`. What the threads know of each other without a lock: `running`
  is set until the main thread has left its loop, the receiver leaves only after
  that, and by then it can hold one reply (`TailCorrect`, `TableCorrect`).
  `LengthCorrect` rests on a lemma about two clock values and their whole seconds;
  `FiledCorrect` on another, that the last tick of the row the clock is in lies
  ahead; `BoundsCorrect` on the test before the write and on the clamp.
* `MyApp_proofs`. Only five events can ever be in the queue, and which of them are
  follows from the state of the socket; the ties are decided by the numbers the
  events got when they were scheduled. `OffersCorrect` needs, besides, that the
  last packet was due before the end and the stop, and why no other is due.
* `DnsServer_proofs`. `ResolverCorrect` is the refinement, for files with two
  words a line (`Regular`): initial states map to initial states, and the only
  step at which a client is told anything is `Answer` (or the end of the server).
  What a cut leaves is any set
  of words. The invariant says that the clients in the backlog and the one being served have no
  reply yet, each once; that the name in the server is the one of the
  client being served unless the request was cut short; and what a
  connection may hold. `LookupIsByLine` shows that `fscanf`'s pairs are the
  lines of such a file; it needs `LeastExists`, that a set of numbers has a least
  element, which follows from the library's theorem on finite subsets without
  induction.

* `Simulation_proofs` is about any set of scenarios: any links, times, numbers
  of applications, intervals and errors. What it assumes of them stands in
  `Simulation` and is what the programs configure: the types
  (`SimulationAssumption`; a link needs some time for a datagram), that a flow has
  a port of its own and its server is bound where the client sends to and starts
  before it (`OwnServers`), that every node is reached within `Diameter` hops
  (`Connected`), and that the delivery ratio is one of echo flows
  (`RatioOfEchoes`). TLC evaluates them for the 17 programs of the run.

  The invariant `Clock` says what is in the event list: one start for every
  application that has not started, one next datagram for every client that has
  more to send, due at its first time plus a whole number of intervals, and the
  end. On it rest the theorems:
  - `SentCorrect`: a datagram due at the end or later never leaves, because the
    end has the smaller number (`SendTimes`); one due earlier must have left,
    because the events run in order of time. The rest is the quotient in `Due`.
  - `TypeCorrect`: requests under way and arrived are together no more than were
    sent, and echoes likewise (`Counts`).
  - `HeardCorrect`: a request arrives after its client started, and later than that
    if it crosses a link (`Late`); by then the server's start has run. So the
    one listener of a flow was handed all that arrived (`Hears`).
  - `FlowsCorrect` is the refinement. The mapping takes the numbers of a flow's
    datagrams out of the event list, and the hard part is that the datagram
    handed over is the least of them. The invariant (`Network`) places every
    datagram on the way from its client to its server: of two of a flow the later
    one has come less far, or as far and arrives later, because a device that
    has a datagram is busy until it is sent (`Paths`, `InOrder`), and an echo is of
    an earlier request than those still under way (`EchoFirst`), so that
    echoes enter their way back in order. Every event is then one step of
    `LossyFlows` or none.
  - `PdrCorrect`: with r the requests that arrived, the ratio is (r + s) / (q + r)
    for q sent and s answered, since the echo server sends what it hears.
  - `JainCorrect`: the squared sum is at most n times the sum of the squares,
    because each difference of the two is a sum of squares (`SquaredSum`,
    `DistanceMeans`).
  - `TracesCorrect` has a premise, that the simulations that trace are the
    dumbbells of `as8_que1.cc`, with any number of flows of one or of both
    variants (`OnlyDumbbellsTrace`; of both needs two flows). `MCSimulation`
    states it of its programs.

  The sums of the community modules are folds over a set. What they do is proved
  without induction over data: of some subsets of a finite set one contains
  no other (`MinimalExists`, from the library's well-foundedness of inclusion), so
  the least set for which a claim fails would be a contradiction
  (`PickInduction`); in the same way the recursive function in the fold is
  shown to exist and to be unique (`RecExists`, `RecUnique`).

With this every safety property of the passing runs is a theorem, the three
refinements included.

Only model-checked: the liveness properties `Terminates`, `TheServedStream`,
`TheServedExit`, `EveryoneAnswered` and `EndsInTime`, since liveness under
fairness and `ENABLED` are out of the prover's reach. `EndsInTime` also says that no
device's queue overflows where no client uses TCP and that the echo exchange of
part B is through when it ends, which depends on the load the programs configure
and holds of no arbitrary scenario. That a run reaches its end for every scenario
would need, besides, that no event repeats for ever without the clock
advancing. No module uses RECURSIVE operators.

## Not modelled, and why
* Text, formatting, JPEG coding, drawing: no property is about them.
* Round-trip times and rates as numbers: doubles that are printed; what is
  summed and how often is modelled.
* Memory: the unbounded `%s` of `Server.c:88`, the unchecked `malloc` of
  `q2client.c:88`.
* ns-3 itself, beyond its event order and what its TCP socket does to the
  window on a loss. The window's arithmetic inside a recovery is left out.
* The data and the retransmissions of the simulations' TCP flows: what a flow
  carries is ns-3's TCP. Its first segment and the answer are modelled, nothing
  is claimed of the load, and the throughputs in the end are any that are
  positive; the report of part A (`as6_que1.cc:195` to 245), arithmetic on them,
  is not.
* Scripts and plot files, and the average over seeds in `runner.sh`: no state of
  their own.
