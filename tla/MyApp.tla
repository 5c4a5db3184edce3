-------------------------------- MODULE MyApp --------------------------------
(***************************************************************************)
(* The traffic source of Assignment7/Part2/as7_que2.cc: the class MyApp,   *)
(* driven by the events of an ns-3 simulation.  It starts at a given time, *)
(* hands a packet to its TCP socket every interval, counts the packets and *)
(* stops at a given time; the simulation itself ends at a third.           *)
(*                                                                         *)
(* A scenario is the arguments main gives to Setup, SetStartTime,          *)
(* SetStopTime and Simulator::Stop.  The socket is the number of packets   *)
(* in its send buffer; what TCP does with them is outside the repository.  *)
(***************************************************************************)
EXTENDS EventQueue

CONSTANTS Scenarios,  \* records of start, stop, end, nPackets and interval
          SendBuffer  \* packets the socket's send buffer holds

(* The interval is m_packetSize * 8 / m_dataRate.  A stop time of zero     *)
(* means that no stop is scheduled.                                        *)
ASSUME MyAppAssumption ==
    /\ SendBuffer \in Nat \ {0}
    /\ Scenarios \subseteq [start : Nat, stop : Nat, end : Nat,
                            nPackets : Nat, interval : Nat]
    /\ \A s \in Scenarios : s.stop = 0 \/ s.start < s.stop

VARIABLES
    scenario,
    now, queue, uid,  \* the simulator: its clock, its events, their numbering
    halted,           \* Simulator::Stop has run
    done,             \* Simulator::Run has returned
    m_running, m_packetsSent,
    m_sendEvent,      \* the number of the event, NoEvent at first
    socket,           \* "created", "connected" or "closed"
    buffered          \* packets in the socket's send buffer

app == <<m_running, m_packetsSent, m_sendEvent, socket>>
vars == <<scenario, now, queue, uid, halted, done, app, buffered>>

NoEvent == -1

(* main up to Simulator::Run: the node's initialisation was scheduled when *)
(* the node was created, and Simulator::Stop before the run.               *)
Init ==
    /\ scenario \in Scenarios
    /\ now = 0 /\ uid = 2
    /\ queue = {Event(0, 0, "Initialize"), Event(scenario.end, 1, "Stop")}
    /\ halted = FALSE /\ done = FALSE
    /\ m_running = FALSE /\ m_packetsSent = 0 /\ m_sendEvent = NoEvent
    /\ socket = "created" /\ buffered = 0

-----------------------------------------------------------------------------
(* The handlers.  (An operator named ...Mutant is a mistake one could make *)
(* in the definition below it; no behaviour of the program uses it.)       *)

(* The next event of the simulation: Simulator::Run takes the first one.   *)
Takes(e, call) ==
    /\ ~halted /\ ~done
    /\ Runs(e, queue) /\ e.call = call
    /\ now' = e.ts

(* Application::DoInitialize schedules the start and then the stop.        *)
Initialize(e) ==
    /\ Takes(e, "Initialize")
    /\ queue' = (queue \ {e})
          \cup {Event(scenario.start, uid, "StartApplication")}
          \cup (IF scenario.stop = 0 THEN {}
                ELSE {Event(scenario.stop, uid + 1, "StopApplication")})
    /\ uid' = uid + 2
    /\ UNCHANGED <<scenario, halted, done, app, buffered>>

MoreMutant(sent) == sent <= scenario.nPackets
More(sent) == sent < scenario.nPackets

NextTimeMutant(e) == e.ts + scenario.interval - 1
NextTime(e) == e.ts + scenario.interval

(* SendPacket, with sent packets behind it, called while event e runs: the *)
(* result of Send is not looked at, so a packet that found the buffer full *)
(* counts like any other; then ScheduleTx, which does nothing unless the   *)
(* application runs.                                                       *)
SendPacket(e, sent) ==
    /\ buffered' = IF buffered < SendBuffer THEN buffered + 1 ELSE buffered
    /\ m_packetsSent' = sent + 1
    /\ IF More(sent + 1) /\ m_running'
       THEN /\ queue' = (queue \ {e}) \cup {Event(NextTime(e), uid, "SendPacket")}
            /\ m_sendEvent' = uid
            /\ uid' = uid + 1
       ELSE /\ queue' = queue \ {e}
            /\ UNCHANGED <<m_sendEvent, uid>>

StartApplication(e) ==
    /\ Takes(e, "StartApplication")
    /\ m_running' = TRUE
    /\ socket' = "connected"
    /\ SendPacket(e, 0)
    /\ UNCHANGED <<scenario, halted, done>>

SendEvent(e) ==
    /\ Takes(e, "SendPacket")
    /\ UNCHANGED <<scenario, halted, done, m_running, socket>>
    /\ SendPacket(e, m_packetsSent)

CancelledMutant(q) == q
Cancelled(q) == IF Pending(q, m_sendEvent) THEN Without(q, m_sendEvent) ELSE q

StopApplication(e) ==
    /\ Takes(e, "StopApplication")
    /\ m_running' = FALSE
    /\ queue' = Cancelled(queue \ {e})
    /\ socket' = "closed"
    /\ UNCHANGED <<scenario, uid, halted, done, m_packetsSent, m_sendEvent, buffered>>

HaltMutant(e) ==   \* the end of the simulation is scheduled again and again
    /\ Takes(e, "Stop")
    /\ UNCHANGED <<scenario, queue, uid, halted, done, app, buffered>>

Halt(e) ==
    /\ Takes(e, "Stop")
    /\ halted' = TRUE
    /\ queue' = queue \ {e}
    /\ UNCHANGED <<scenario, uid, done, app, buffered>>

Return ==
    /\ halted /\ ~done
    /\ done' = TRUE
    /\ UNCHANGED <<scenario, now, queue, uid, halted, app, buffered>>

Simulator ==
    \/ Return
    \/ \E e \in queue : \/ Initialize(e) \/ StartApplication(e) \/ SendEvent(e)
                        \/ StopApplication(e) \/ Halt(e)

(* TCP takes a packet from the buffer once it has been acknowledged.       *)
Acknowledged ==
    /\ ~done /\ buffered > 0
    /\ buffered' = buffered - 1
    /\ UNCHANGED <<scenario, now, queue, uid, halted, done, app>>

Exited == done /\ UNCHANGED vars

Next == Simulator \/ Acknowledged \/ Exited

(* Simulator::Run is a loop of the program.                                *)
Spec == Init /\ [][Next]_vars /\ WF_vars(Simulator)

-----------------------------------------------------------------------------
(* Properties.                                                             *)

Calls == {"Initialize", "Stop", "StartApplication", "StopApplication", "SendPacket"}

(* The types of the simulator's and the application's state; every event   *)
(* in the queue lies ahead and has a number of its own.                    *)
TypeOK ==
    /\ scenario \in Scenarios
    /\ now \in Nat /\ uid \in Nat
    /\ queue \subseteq [ts : Nat, uid : 0..(uid - 1), call : Calls]
    /\ \A e \in queue : now <= e.ts
    /\ \A e, f \in queue : e.uid = f.uid => e = f
    /\ halted \in BOOLEAN /\ done \in BOOLEAN
    /\ m_running \in BOOLEAN /\ m_packetsSent \in Nat
    /\ m_sendEvent \in (0..(uid - 1)) \cup {NoEvent}
    /\ socket \in {"created", "connected", "closed"}
    /\ buffered \in 0..SendBuffer

(* The one event StopApplication can cancel is the only one there is, it   *)
(* is there only while the application runs, and it is due at the start    *)
(* plus a whole number of intervals: the pacing does not drift.            *)
CancelReachesAll ==
    \A e \in queue : e.call = "SendPacket" =>
        /\ e.uid = m_sendEvent /\ m_running
        /\ e.ts = scenario.start + m_packetsSent * scenario.interval

(* A closed socket is never given another packet.                          *)
SilentAfterStop ==
    [][socket = "closed" => UNCHANGED <<m_packetsSent, m_sendEvent>>]_vars

(* How many packets the socket is offered in the end: one for every        *)
(* interval from the start that begins strictly before the stop and the    *)
(* end, nPackets at most, but one even if nPackets is zero.  (Of events of *)
(* the same time the one scheduled first runs first: main schedules the end*)
(* of the simulation before the application schedules anything, so the stop*)
(* that is due at the end never runs, and neither does a packet.)          *)
LastTime(s) == IF s.stop # 0 /\ s.stop < s.end THEN s.stop ELSE s.end
Offers(s) ==
    {k \in 0..s.nPackets : /\ k = 0 \/ k < s.nPackets
                           /\ s.start + k * s.interval < LastTime(s)}
OffersExactly ==
    done => \A k \in 0..(scenario.nPackets + m_packetsSent) :
                k \in Offers(scenario) <=> k < m_packetsSent

(* The simulation ends, even if the interval is zero and simulated time    *)
(* does not advance between packets.                                       *)
Terminates == <>done
=============================================================================
