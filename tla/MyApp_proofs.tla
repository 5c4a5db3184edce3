---------------------------- MODULE MyApp_proofs ----------------------------
(***************************************************************************)
(* What holds of the traffic source for every start, stop, end, number of  *)
(* packets and interval.                                                   *)
(***************************************************************************)
EXTENDS MyApp, TLAPS

(* When packet number k is due, counted from 0.                            *)
At(k) == scenario.start + k * scenario.interval

(* The only events there ever are.  Their numbers follow from the order in *)
(* which main and the node's initialisation schedule them.                 *)
InitEvent == Event(0, 0, "Initialize")
EndEvent == Event(scenario.end, 1, "Stop")
StartEvent == Event(scenario.start, 2, "StartApplication")
StopEvent == Event(scenario.stop, 3, "StopApplication")
SendingEvent == Event(At(m_packetsSent), m_sendEvent, "SendPacket")

(* What is scheduled follows from how far the application is.              *)
QueueInv ==
    /\ queue \subseteq {InitEvent, EndEvent, StartEvent, StopEvent, SendingEvent}
    /\ InitEvent \in queue <=> uid = 2
    /\ EndEvent \in queue <=> ~halted
    /\ StartEvent \in queue <=> uid # 2 /\ socket = "created"
    /\ StopEvent \in queue <=> uid # 2 /\ scenario.stop # 0 /\ socket # "closed"
    /\ SendingEvent \in queue <=> socket = "connected" /\ More(m_packetsSent)

Ahead == \A e \in queue : now <= e.ts

SimulatorInv ==
    /\ scenario \in Scenarios /\ now \in Nat
    /\ uid = 2 \/ (uid \in Nat /\ uid >= 4)
    /\ halted \in BOOLEAN /\ done \in BOOLEAN /\ (done => halted)
    /\ buffered \in 0..SendBuffer

AppInv ==
    /\ socket \in {"created", "connected", "closed"}
    /\ m_running \in BOOLEAN /\ (m_running <=> socket = "connected")
    /\ m_packetsSent \in Nat
    /\ m_sendEvent = NoEvent \/ (m_sendEvent \in Nat /\ 4 <= m_sendEvent /\ m_sendEvent < uid)
    /\ socket = "created" => m_packetsSent = 0 /\ m_sendEvent = NoEvent
    /\ socket # "created" => uid # 2 /\ m_packetsSent >= 1
    /\ socket = "connected" /\ More(m_packetsSent) => m_sendEvent # NoEvent

(* How many packets were offered so far: each was due before the end and   *)
(* the stop; and why there were no more, once there are no more.           *)
CountInv ==
    /\ m_packetsSent > 1 => m_packetsSent <= scenario.nPackets
    /\ m_packetsSent > 0 => At(m_packetsSent - 1) < LastTime(scenario)
    /\ socket = "closed" =>
          /\ scenario.stop # 0 /\ scenario.stop < scenario.end
          /\ ~More(m_packetsSent) \/ At(m_packetsSent) >= scenario.stop
    /\ halted =>
          /\ socket = "created" => scenario.start >= scenario.end
          /\ socket = "connected" => ~More(m_packetsSent) \/ At(m_packetsSent) >= scenario.end

Inv == SimulatorInv /\ AppInv /\ QueueInv /\ Ahead /\ CountInv

-----------------------------------------------------------------------------
(* Times.                                                                  *)

LEMMA ScenarioFacts ==
    ASSUME scenario \in Scenarios
    PROVE  /\ scenario.start \in Nat /\ scenario.stop \in Nat /\ scenario.end \in Nat
           /\ scenario.nPackets \in Nat /\ scenario.interval \in Nat
           /\ scenario.stop = 0 \/ scenario.start < scenario.stop
BY MyAppAssumption

LEMMA Monotone ==
    ASSUME NEW a \in Nat, NEW b \in Nat, NEW c \in Nat, a <= b
    PROVE  a * c \in Nat /\ b * c \in Nat /\ a * c <= b * c
<1>1. PICK d \in Nat : b = a + d
  <2>1. b - a \in Nat /\ b = a + (b - a)
    OBVIOUS
  <2> QED BY <2>1
<1>2. b * c = a * c + d * c /\ a * c \in Nat /\ d * c \in Nat
  BY <1>1
<1> QED BY <1>2

LEMMA AtFacts ==
    ASSUME scenario \in Scenarios
    PROVE  /\ \A k \in Nat : At(k) \in Nat /\ At(k + 1) = At(k) + scenario.interval
           /\ At(0) = scenario.start
           /\ \A j, k \in Nat : j <= k => At(j) <= At(k)
<1>1. scenario.start \in Nat /\ scenario.interval \in Nat
  BY ScenarioFacts
<1>2. ASSUME NEW k \in Nat
      PROVE  At(k) \in Nat /\ At(k + 1) = At(k) + scenario.interval
  <2>1. k * scenario.interval \in Nat
    BY <1>1
  <2>2. (k + 1) * scenario.interval = k * scenario.interval + scenario.interval
    BY <1>1
  <2> QED BY <1>1, <2>1, <2>2 DEF At
<1>3. At(0) = scenario.start
  BY <1>1 DEF At
<1>4. ASSUME NEW j \in Nat, NEW k \in Nat, j <= k
      PROVE  At(j) <= At(k)
  <2>1. /\ j * scenario.interval \in Nat /\ k * scenario.interval \in Nat
        /\ j * scenario.interval <= k * scenario.interval
    BY <1>1, <1>4, Monotone
  <2> QED BY <1>1, <2>1 DEF At
<1> QED BY <1>2, <1>3, <1>4

LEMMA LastTimeFacts ==
    ASSUME scenario \in Scenarios
    PROVE  /\ LastTime(scenario) \in Nat
           /\ LastTime(scenario) <= scenario.end
           /\ \A t \in Nat : t < LastTime(scenario) <=>
                 t < scenario.end /\ (scenario.stop # 0 => t < scenario.stop)
BY ScenarioFacts DEF LastTime

(* The events are told apart by what they call.                            *)
LEMMA Fields ==
    /\ InitEvent.call = "Initialize" /\ InitEvent.ts = 0 /\ InitEvent.uid = 0
    /\ EndEvent.call = "Stop" /\ EndEvent.ts = scenario.end /\ EndEvent.uid = 1
    /\ StartEvent.call = "StartApplication" /\ StartEvent.ts = scenario.start
    /\ StartEvent.uid = 2
    /\ StopEvent.call = "StopApplication" /\ StopEvent.ts = scenario.stop
    /\ StopEvent.uid = 3
    /\ SendingEvent.call = "SendPacket" /\ SendingEvent.ts = At(m_packetsSent)
    /\ SendingEvent.uid = m_sendEvent
BY DEF InitEvent, EndEvent, StartEvent, StopEvent, SendingEvent, Event

LEMMA Which ==
    ASSUME QueueInv, NEW e \in queue
    PROVE  /\ e.call = "Initialize" => e = InitEvent
           /\ e.call = "Stop" => e = EndEvent
           /\ e.call = "StartApplication" => e = StartEvent
           /\ e.call = "StopApplication" => e = StopEvent
           /\ e.call = "SendPacket" => e = SendingEvent
BY Fields DEF QueueInv

(* What is scheduled beside the event that runs runs after it: strictly    *)
(* later if it was scheduled earlier.                                      *)
LEMMA First ==
    ASSUME Inv, NEW e \in queue, NEW call, Takes(e, call)
    PROVE  /\ \A f \in queue : e.ts <= f.ts
           /\ \A f \in queue : f.uid < e.uid => e.ts < f.ts
           /\ now' = e.ts /\ e.ts \in Nat /\ e.call = call
           /\ ~halted /\ ~done /\ EndEvent \in queue
<1>1. \A f \in queue : f.ts \in Nat /\ f.uid \in Int
  <2> SUFFICES ASSUME NEW f \in queue PROVE f.ts \in Nat /\ f.uid \in Int
    OBVIOUS
  <2>1. scenario \in Scenarios /\ m_packetsSent \in Nat /\ m_sendEvent \in Int
    BY DEF Inv, SimulatorInv, AppInv, NoEvent
  <2>2. At(m_packetsSent) \in Nat
    BY <2>1, AtFacts
  <2>3. f \in {InitEvent, EndEvent, StartEvent, StopEvent, SendingEvent}
    BY DEF Inv, QueueInv
  <2> QED BY <2>1, <2>2, <2>3, Fields, ScenarioFacts
<1>2. \A f \in queue : e.ts < f.ts \/ (e.ts = f.ts /\ e.uid <= f.uid)
  BY DEF Takes, Runs, Before
<1>3. now' = e.ts /\ e.call = call /\ ~halted /\ ~done
  BY DEF Takes
<1>4. EndEvent \in queue
  BY <1>3 DEF Inv, QueueInv
<1> QED BY <1>1, <1>2, <1>3, <1>4

(* The events of a scenario do not change while the simulation runs.       *)
LEMMA SameScenario ==
    ASSUME scenario' = scenario
    PROVE  /\ InitEvent' = InitEvent /\ EndEvent' = EndEvent
           /\ StartEvent' = StartEvent /\ StopEvent' = StopEvent
           /\ \A k : (At(k))' = At(k)
           /\ (At(m_packetsSent))' = At(m_packetsSent')
           /\ SendingEvent' = Event(At(m_packetsSent'), m_sendEvent', "SendPacket")
           /\ (LastTime(scenario))' = LastTime(scenario)
BY DEF InitEvent, EndEvent, StartEvent, StopEvent, SendingEvent, At, Event, LastTime

-----------------------------------------------------------------------------
(* The steps.                                                              *)

LEMMA InitStep == Init => Inv
<1> SUFFICES ASSUME Init PROVE Inv
  OBVIOUS
<1> USE DEF Init
<1>1. SimulatorInv /\ AppInv
  <2>1. SimulatorInv
    <3>1. done \in BOOLEAN /\ halted \in BOOLEAN /\ (done => halted)
      OBVIOUS
    <3>2. 0 \in 0..SendBuffer
      BY MyAppAssumption
    <3> QED BY <3>1, <3>2 DEF SimulatorInv
  <2>2. m_running = FALSE /\ socket = "created"
    OBVIOUS
  <2>3. m_running \in BOOLEAN /\ (m_running <=> socket = "connected")
    BY <2>2
  <2>4. AppInv
    BY <2>3 DEF AppInv
  <2> QED BY <2>1, <2>4
<1>2. queue = {InitEvent, EndEvent} /\ uid = 2 /\ ~halted /\ socket = "created"
  BY DEF InitEvent, EndEvent
<1>3. QueueInv
  BY <1>2, Fields DEF QueueInv
<1>4. Ahead
  BY <1>2, Fields, ScenarioFacts DEF Ahead
<1>5. CountInv
  BY DEF CountInv
<1> QED BY <1>1, <1>3, <1>4, <1>5 DEF Inv

LEMMA InitializeStep ==
    ASSUME Inv, NEW e \in queue, Initialize(e)
    PROVE  Inv'
<1>1. /\ e = InitEvent /\ uid = 2 /\ scenario \in Scenarios
      /\ scenario' = scenario /\ socket = "created" /\ ~halted
      /\ UNCHANGED <<halted, done, m_running, m_packetsSent, m_sendEvent, socket, buffered>>
  BY Which DEF Initialize, Takes, Inv, QueueInv, SimulatorInv, AppInv, app
<1>2. /\ queue' = (queue \ {InitEvent}) \cup {StartEvent}
            \cup (IF scenario.stop = 0 THEN {} ELSE {StopEvent})
      /\ uid' = 4
  BY <1>1 DEF Initialize, StartEvent, StopEvent
<1>3. SimulatorInv' /\ AppInv'
  <2>1. now' = 0
    BY <1>1, First, Fields DEF Initialize
  <2> QED BY <1>1, <1>2, <2>1 DEF Inv, SimulatorInv, AppInv, More
<1>4. QueueInv'
  BY <1>1, <1>2, Fields, SameScenario DEF Inv, QueueInv, SendingEvent
<1>5. Ahead'
  BY <1>1, <1>2, First, Fields, ScenarioFacts DEF Initialize, Ahead
<1>6. CountInv'
  BY <1>1, SameScenario DEF Inv, CountInv, AppInv, More
<1> QED BY <1>3, <1>4, <1>5, <1>6 DEF Inv

(* A packet is sent while event e runs, the number sent so far being sent: *)
(* the next one, if any, is the event of number uid.                       *)
LEMMA Sending ==
    ASSUME Inv, NEW e \in queue, NEW sent \in Nat, SendPacket(e, sent),
           scenario' = scenario, m_running' = TRUE,
           uid \in Nat, uid >= 4, e.ts = At(sent), SendingEvent \in queue => e = SendingEvent
    PROVE  /\ m_packetsSent' = sent + 1
           /\ buffered' \in 0..SendBuffer
           /\ uid' \in Nat /\ uid' >= 4
           /\ m_sendEvent' = NoEvent
                 \/ (m_sendEvent' \in Nat /\ 4 <= m_sendEvent' /\ m_sendEvent' < uid')
           /\ IF More(sent + 1)
              THEN queue' = (queue \ {e}) \cup {SendingEvent'} /\ m_sendEvent' # NoEvent
              ELSE queue' = queue \ {e}
<1>1. m_packetsSent' = sent + 1
  BY DEF SendPacket
<1>2. buffered' \in 0..SendBuffer
  <2>1. SendBuffer \in Nat /\ buffered \in 0..SendBuffer
    BY MyAppAssumption DEF Inv, SimulatorInv
  <2> QED BY <2>1 DEF SendPacket
<1>3. CASE More(sent + 1)
  <2>1. /\ queue' = (queue \ {e}) \cup {Event(NextTime(e), uid, "SendPacket")}
        /\ m_sendEvent' = uid /\ uid' = uid + 1
    BY <1>3 DEF SendPacket
  <2>2. NextTime(e) = At(sent + 1)
    BY AtFacts DEF NextTime, Inv, SimulatorInv
  <2>3. SendingEvent' = Event(NextTime(e), uid, "SendPacket")
    BY <1>1, <2>1, <2>2, SameScenario
  <2> QED BY <1>1, <1>2, <1>3, <2>1, <2>3 DEF NoEvent
<1>4. CASE ~More(sent + 1)
  <2>1. queue' = queue \ {e} /\ m_sendEvent' = m_sendEvent /\ uid' = uid
    BY <1>4 DEF SendPacket
  <2> QED BY <1>1, <1>2, <1>4, <2>1 DEF Inv, AppInv
<1> QED BY <1>3, <1>4

LEMMA StartApplicationStep ==
    ASSUME Inv, NEW e \in queue, StartApplication(e)
    PROVE  Inv'
<1>1. /\ e = StartEvent /\ uid # 2 /\ scenario \in Scenarios
      /\ scenario' = scenario /\ halted' = halted /\ done' = done
      /\ socket = "created" /\ m_packetsSent = 0
      /\ m_running' = TRUE /\ socket' = "connected"
  BY Which DEF StartApplication, Takes, Inv, QueueInv, SimulatorInv, AppInv
<1>2. /\ Takes(e, "StartApplication") /\ SendPacket(e, 0)
      /\ uid \in Nat /\ uid >= 4
  BY <1>1 DEF StartApplication, Inv, SimulatorInv
<1>3. e.ts = At(0) /\ e.ts = scenario.start
  BY <1>1, Fields, AtFacts
<1>4. SendingEvent \notin queue
  BY <1>1 DEF Inv, QueueInv
<1>5. /\ m_packetsSent' = 1
      /\ buffered' \in 0..SendBuffer
      /\ uid' \in Nat /\ uid' >= 4
      /\ m_sendEvent' = NoEvent
            \/ (m_sendEvent' \in Nat /\ 4 <= m_sendEvent' /\ m_sendEvent' < uid')
      /\ IF More(1)
         THEN queue' = (queue \ {e}) \cup {SendingEvent'} /\ m_sendEvent' # NoEvent
         ELSE queue' = queue \ {e}
  <2>1. 0 \in Nat /\ 0 + 1 = 1
    OBVIOUS
  <2> QED BY <1>1, <1>2, <1>3, <1>4, <2>1, Sending
<1>6. /\ now' = e.ts /\ e.ts \in Nat /\ ~halted /\ EndEvent \in queue
      /\ \A f \in queue : e.ts <= f.ts
      /\ e.ts < scenario.end
  BY <1>1, <1>2, First, Fields
<1>7. More(1) <=> More(m_packetsSent')
  BY <1>5
<1>8. (More(m_packetsSent))' <=> More(1)
  BY <1>1, <1>5 DEF More
<1>9. SimulatorInv'
  BY <1>1, <1>2, <1>5, <1>6 DEF Inv, SimulatorInv
<1>10. AppInv'
  BY <1>1, <1>5, <1>8 DEF AppInv
<1>11. QueueInv'
  <2>1. SendingEvent'.call = "SendPacket"
    BY <1>1, SameScenario DEF Event
  <2> QED BY <1>1, <1>2, <1>4, <1>5, <1>6, <1>8, <2>1, Fields, SameScenario
          DEF Inv, QueueInv
<1>12. Ahead'
  <2>1. SendingEvent'.ts = At(1) /\ e.ts <= At(1)
    <3>1. SendingEvent'.ts = At(m_packetsSent')
      BY <1>1, SameScenario DEF Event
    <3> QED BY <1>1, <1>3, <1>5, <3>1, AtFacts
  <2>2. At(1) \in Nat
    BY <1>1, AtFacts
  <2> QED BY <1>5, <1>6, <2>1, <2>2 DEF Ahead
<1>13. CountInv'
  <2>1. At(0) < LastTime(scenario)
    BY <1>1, <1>3, <1>6, LastTimeFacts, ScenarioFacts
  <2>2. (At(m_packetsSent - 1))' = At(0)
    BY <1>1, <1>5 DEF At
  <2> QED BY <1>1, <1>5, <1>6, <2>1, <2>2, SameScenario DEF CountInv
<1> QED BY <1>9, <1>10, <1>11, <1>12, <1>13 DEF Inv

LEMMA SendEventStep ==
    ASSUME Inv, NEW e \in queue, SendEvent(e)
    PROVE  Inv'
<1>1. /\ e = SendingEvent /\ scenario \in Scenarios
      /\ socket = "connected" /\ More(m_packetsSent) /\ m_sendEvent # NoEvent
      /\ m_packetsSent \in Nat /\ m_packetsSent >= 1 /\ uid # 2 /\ m_running
  BY Which DEF SendEvent, Takes, Inv, QueueInv, SimulatorInv, AppInv
<1>2. /\ Takes(e, "SendPacket") /\ SendPacket(e, m_packetsSent)
      /\ UNCHANGED <<scenario, halted, done, m_running, socket>>
      /\ uid \in Nat /\ uid >= 4 /\ m_sendEvent \in Nat /\ m_sendEvent >= 4
  BY <1>1 DEF SendEvent, Inv, SimulatorInv, AppInv
<1>3. e.ts = At(m_packetsSent) /\ e.uid = m_sendEvent
  BY <1>1, Fields
<1>4. /\ m_packetsSent' = m_packetsSent + 1
      /\ buffered' \in 0..SendBuffer
      /\ uid' \in Nat /\ uid' >= 4
      /\ m_sendEvent' = NoEvent
            \/ (m_sendEvent' \in Nat /\ 4 <= m_sendEvent' /\ m_sendEvent' < uid')
      /\ IF More(m_packetsSent + 1)
         THEN queue' = (queue \ {e}) \cup {SendingEvent'} /\ m_sendEvent' # NoEvent
         ELSE queue' = queue \ {e}
  <2>1. m_running' = TRUE
    BY <1>1, <1>2 DEF Inv, AppInv
  <2> QED BY <1>1, <1>2, <1>3, <2>1, Sending
<1>5. /\ now' = e.ts /\ e.ts \in Nat /\ ~halted /\ EndEvent \in queue
      /\ \A f \in queue : e.ts <= f.ts
      /\ \A f \in queue : f.uid < e.uid => e.ts < f.ts
  BY <1>2, First
<1>6. (More(m_packetsSent))' <=> More(m_packetsSent + 1)
  BY <1>2, <1>4 DEF More
<1>7. SimulatorInv'
  BY <1>1, <1>2, <1>4, <1>5 DEF Inv, SimulatorInv
<1>8. AppInv'
  BY <1>1, <1>2, <1>4, <1>6 DEF Inv, AppInv
<1>9. QueueInv'
  <2>1. SendingEvent'.call = "SendPacket"
    BY <1>2, SameScenario DEF Event
  <2> QED BY <1>1, <1>2, <1>4, <1>5, <1>6, <2>1, Fields, SameScenario
          DEF Inv, QueueInv
<1>10. Ahead'
  <2>1. SendingEvent'.ts = At(m_packetsSent + 1)
    BY <1>2, <1>4, SameScenario DEF Event
  <2>2. At(m_packetsSent + 1) \in Nat /\ e.ts <= At(m_packetsSent + 1)
    BY <1>1, <1>3, AtFacts
  <2> QED BY <1>4, <1>5, <2>1, <2>2 DEF Ahead
<1>11. CountInv'
  <2>1. e.ts < scenario.end
    BY <1>2, <1>3, <1>5, Fields
  <2>2. scenario.stop # 0 => e.ts < scenario.stop
    BY <1>1, <1>2, <1>3, <1>5, Fields DEF Inv, QueueInv
  <2>3. At(m_packetsSent) < LastTime(scenario)
    BY <1>1, <1>3, <1>5, <2>1, <2>2, LastTimeFacts
  <2>4. (At(m_packetsSent - 1))' = At(m_packetsSent)
    BY <1>1, <1>2, <1>4 DEF At
  <2>5. m_packetsSent' <= scenario.nPackets
    BY <1>1, <1>4, ScenarioFacts DEF More
  <2> QED BY <1>1, <1>2, <1>5, <2>3, <2>4, <2>5, SameScenario DEF CountInv
<1> QED BY <1>7, <1>8, <1>9, <1>10, <1>11 DEF Inv

LEMMA StopApplicationStep ==
    ASSUME Inv, NEW e \in queue, StopApplication(e)
    PROVE  Inv'
<1>1. /\ Takes(e, "StopApplication")
      /\ m_running' = FALSE /\ socket' = "closed"
      /\ queue' = Cancelled(queue \ {e})
      /\ UNCHANGED <<scenario, uid, halted, done, m_packetsSent, m_sendEvent, buffered>>
  BY DEF StopApplication
<1>2. /\ e = StopEvent /\ scenario \in Scenarios /\ uid # 2
      /\ scenario.stop # 0 /\ socket # "closed"
  BY <1>1, Which DEF Takes, Inv, QueueInv, SimulatorInv
<1>3. /\ now' = e.ts /\ e.ts \in Nat /\ ~halted /\ EndEvent \in queue
      /\ \A f \in queue : e.ts <= f.ts
      /\ \A f \in queue : f.uid < e.uid => e.ts < f.ts
  BY <1>1, First
<1>4. e.ts = scenario.stop /\ e.uid = 3 /\ scenario.stop < scenario.end
  BY <1>2, <1>3, Fields
<1>5. socket = "connected"
  <2>1. StartEvent \notin queue
    <3>1. scenario.start \in Nat /\ scenario.start < scenario.stop
      BY <1>2, ScenarioFacts
    <3>2. StartEvent.ts = scenario.start
      BY Fields
    <3> QED BY <1>3, <1>4, <3>1, <3>2
  <2> QED BY <1>2, <2>1 DEF Inv, QueueInv, AppInv
<1>6. More(m_packetsSent) => At(m_packetsSent) >= scenario.stop
  BY <1>3, <1>4, <1>5, Fields DEF Inv, QueueInv
<1>7. queue' = queue \ {StopEvent, SendingEvent}
  <2>1. \A f \in queue \ {e} : f.uid = m_sendEvent <=> f = SendingEvent
    BY <1>2, Fields DEF Inv, QueueInv, AppInv, NoEvent
  <2> QED BY <1>1, <1>2, <2>1 DEF Cancelled, Pending, Without
<1>8. SendingEvent' = SendingEvent
  BY <1>1 DEF SendingEvent, At
<1>9. SimulatorInv'
  BY <1>1, <1>3 DEF Inv, SimulatorInv
<1>10. AppInv'
  <2>1. m_running' \in BOOLEAN /\ (m_running' <=> socket' = "connected")
    BY <1>1
  <2> QED BY <1>1, <1>2, <1>5, <2>1 DEF Inv, AppInv
<1>11. QueueInv'
  BY <1>1, <1>2, <1>3, <1>5, <1>7, <1>8, Fields, SameScenario DEF Inv, QueueInv
<1>12. Ahead'
  BY <1>3, <1>7 DEF Ahead
<1>13. CountInv'
  <2>1. /\ (At(m_packetsSent - 1))' = At(m_packetsSent - 1)
        /\ (At(m_packetsSent))' = At(m_packetsSent)
        /\ (More(m_packetsSent))' <=> More(m_packetsSent)
    BY <1>1 DEF At, More
  <2> QED BY <1>1, <1>2, <1>3, <1>4, <1>6, <2>1, SameScenario DEF Inv, CountInv
<1> QED BY <1>9, <1>10, <1>11, <1>12, <1>13 DEF Inv

LEMMA HaltStep ==
    ASSUME Inv, NEW e \in queue, Halt(e)
    PROVE  Inv'
<1>1. /\ Takes(e, "Stop") /\ halted' = TRUE /\ queue' = queue \ {e}
      /\ UNCHANGED <<scenario, uid, done, m_running, m_packetsSent, m_sendEvent,
                     socket, buffered>>
  BY DEF Halt, app
<1>2. e = EndEvent /\ scenario \in Scenarios
  BY <1>1, Which DEF Takes, Inv, SimulatorInv
<1>3. /\ now' = e.ts /\ e.ts \in Nat /\ ~halted
      /\ \A f \in queue : e.ts <= f.ts
      /\ \A f \in queue : f.uid < e.uid => e.ts < f.ts
  BY <1>1, First
<1>4. e.ts = scenario.end /\ e.uid = 1
  BY <1>2, Fields
<1>5. uid # 2
  BY <1>3, <1>4, Fields DEF Inv, QueueInv
<1>6. socket = "created" => scenario.start >= scenario.end
  BY <1>3, <1>4, <1>5, Fields, ScenarioFacts DEF Inv, QueueInv
<1>7. socket = "connected" /\ More(m_packetsSent) => At(m_packetsSent) >= scenario.end
  BY <1>3, <1>4, Fields DEF Inv, QueueInv
<1>8. /\ (At(m_packetsSent - 1))' = At(m_packetsSent - 1)
      /\ (At(m_packetsSent))' = At(m_packetsSent)
      /\ (More(m_packetsSent))' <=> More(m_packetsSent)
      /\ SendingEvent' = SendingEvent
  BY <1>1 DEF At, More, SendingEvent
<1>9. SimulatorInv'
  <2>1. halted' \in BOOLEAN /\ (done' => halted')
    BY <1>1
  <2> QED BY <1>1, <1>3, <2>1 DEF Inv, SimulatorInv
<1>10. AppInv'
  BY <1>1, <1>8 DEF Inv, AppInv
<1>11. QueueInv'
  BY <1>1, <1>2, <1>8, Fields, SameScenario DEF Inv, QueueInv
<1>12. Ahead'
  BY <1>1, <1>3 DEF Ahead
<1>13. CountInv'
  BY <1>1, <1>6, <1>7, <1>8, SameScenario DEF Inv, CountInv
<1> QED BY <1>9, <1>10, <1>11, <1>12, <1>13 DEF Inv

(* Whatever leaves the application, the events and the clock alone.        *)
LEMMA QuietStep ==
    ASSUME Inv, UNCHANGED <<scenario, now, queue, uid, halted, app>>,
           done' \in BOOLEAN, done' => halted, buffered' \in 0..SendBuffer
    PROVE  Inv'
<1> USE DEF app
<1>1. SimulatorInv'
  BY DEF Inv, SimulatorInv
<1>2. AppInv'
  BY DEF Inv, AppInv, More
<1>3. QueueInv'
  BY DEF Inv, QueueInv, InitEvent, EndEvent, StartEvent, StopEvent, SendingEvent, At, More
<1>4. Ahead'
  BY DEF Inv, Ahead
<1>5. CountInv'
  BY DEF Inv, CountInv, At, More, LastTime
<1> QED BY <1>1, <1>2, <1>3, <1>4, <1>5 DEF Inv

LEMMA NextStep ==
    ASSUME Inv, [Next]_vars
    PROVE  Inv'
<1>0. done \in BOOLEAN /\ (done => halted) /\ buffered \in 0..SendBuffer /\ SendBuffer \in Nat
  BY MyAppAssumption DEF Inv, SimulatorInv
<1>1. CASE Return
  BY <1>0, <1>1, QuietStep DEF Return
<1>2. CASE \E e \in queue : Initialize(e)
  BY <1>2, InitializeStep
<1>3. CASE \E e \in queue : StartApplication(e)
  BY <1>3, StartApplicationStep
<1>4. CASE \E e \in queue : SendEvent(e)
  BY <1>4, SendEventStep
<1>5. CASE \E e \in queue : StopApplication(e)
  BY <1>5, StopApplicationStep
<1>6. CASE \E e \in queue : Halt(e)
  BY <1>6, HaltStep
<1>7. CASE Acknowledged
  <2>1. buffered' \in 0..SendBuffer
    BY <1>0, <1>7 DEF Acknowledged
  <2>2. UNCHANGED <<scenario, now, queue, uid, halted, done, app>>
    BY <1>7 DEF Acknowledged
  <2> QED BY <1>0, <2>1, <2>2, QuietStep
<1>8. CASE UNCHANGED vars
  BY <1>0, <1>8, QuietStep DEF vars
<1> QED BY <1>1, <1>2, <1>3, <1>4, <1>5, <1>6, <1>7, <1>8 DEF Next, Simulator, Exited

LEMMA InvCorrect == Spec => []Inv
<1>1. Init => Inv
  BY InitStep
<1>2. Inv /\ [Next]_vars => Inv'
  BY NextStep
<1> QED BY <1>1, <1>2, PTL DEF Spec

-----------------------------------------------------------------------------
(* The theorems.                                                           *)

LEMMA InvType == Inv => TypeOK
<1> SUFFICES ASSUME Inv PROVE TypeOK
  OBVIOUS
<1>1. /\ scenario \in Scenarios /\ m_packetsSent \in Nat /\ uid \in Nat
      /\ uid = 2 \/ uid >= 4
      /\ m_sendEvent \in (0..(uid - 1)) \cup {NoEvent}
  BY DEF Inv, SimulatorInv, AppInv
<1>2. ASSUME NEW e \in queue
      PROVE  /\ e \in [ts : Nat, uid : 0..(uid - 1), call : Calls]
             /\ now <= e.ts
             /\ e.call = "SendPacket" => e.uid >= 4
             /\ e.call # "SendPacket" => e.uid < 4
  <2>1. At(m_packetsSent) \in Nat
    BY <1>1, AtFacts
  <2>2. CASE e = InitEvent
    BY <1>1, <2>2 DEF InitEvent, Event, Calls, Inv, Ahead
  <2>3. CASE e = EndEvent
    BY <1>1, <2>3, ScenarioFacts DEF EndEvent, Event, Calls, Inv, Ahead
  <2>4. CASE e = StartEvent
    BY <1>1, <2>4, ScenarioFacts, Fields DEF StartEvent, Event, Calls, Inv, Ahead, QueueInv
  <2>5. CASE e = StopEvent
    BY <1>1, <2>5, ScenarioFacts, Fields DEF StopEvent, Event, Calls, Inv, Ahead, QueueInv
  <2>6. CASE e = SendingEvent
    <3>1. m_sendEvent \in 0..(uid - 1) /\ m_sendEvent >= 4
      BY <1>1, <2>6 DEF Inv, QueueInv, AppInv
    <3> QED BY <1>1, <2>1, <2>6, <3>1 DEF SendingEvent, Event, Calls, Inv, Ahead
  <2> QED BY <2>2, <2>3, <2>4, <2>5, <2>6 DEF Inv, QueueInv
<1>3. ASSUME NEW e \in queue, NEW f \in queue, e.uid = f.uid
      PROVE  e = f
  BY <1>2, <1>3, Fields DEF Inv, QueueInv
<1> QED BY <1>1, <1>2, <1>3 DEF TypeOK, Inv, SimulatorInv, AppInv

(* Every event in the queue lies ahead and has a number of its own, and    *)
(* the send buffer holds no more than it has room for.                     *)
THEOREM TypeCorrect == Spec => []TypeOK
<1>1. Inv => TypeOK
  BY InvType
<1> QED BY <1>1, InvCorrect, PTL

(* Cancelling m_sendEvent leaves no event behind that sends: there is at   *)
(* most one, and its time is the start plus a whole number of intervals.   *)
THEOREM CancelCorrect == Spec => []CancelReachesAll
<1>1. Inv => CancelReachesAll
  <2> SUFFICES ASSUME Inv, NEW e \in queue, e.call = "SendPacket"
               PROVE  /\ e.uid = m_sendEvent /\ m_running
                      /\ e.ts = scenario.start + m_packetsSent * scenario.interval
    BY DEF CancelReachesAll
  <2>1. e = SendingEvent
    BY Which DEF Inv
  <2>2. socket = "connected"
    BY <2>1 DEF Inv, QueueInv
  <2>3. m_running
    BY <2>2 DEF Inv, AppInv
  <2> QED BY <2>1, <2>3, Fields DEF At
<1> QED BY <1>1, InvCorrect, PTL

(* Once StopApplication has closed the socket no packet is offered to it.  *)
THEOREM SilentCorrect == Spec => SilentAfterStop
<1>1. Inv /\ [Next]_vars => (socket = "closed" => UNCHANGED <<m_packetsSent, m_sendEvent>>)
  <2> SUFFICES ASSUME Inv, [Next]_vars, socket = "closed"
               PROVE  UNCHANGED <<m_packetsSent, m_sendEvent>>
    OBVIOUS
  <2>1. ASSUME NEW e \in queue, Takes(e, "StartApplication") \/ Takes(e, "SendPacket")
        PROVE  FALSE
    BY <2>1, Which DEF Takes, Inv, QueueInv
  <2> QED BY <2>1 DEF Next, Simulator, Return, Initialize, StartApplication, SendEvent,
                      StopApplication, Halt, Acknowledged, Exited, vars, app
<1> QED BY <1>1, InvCorrect, PTL DEF SilentAfterStop, Spec

LEMMA InvOffers == Inv => OffersExactly
<1> SUFFICES ASSUME Inv, done,
                    NEW k \in 0..(scenario.nPackets + m_packetsSent)
             PROVE  k \in Offers(scenario) <=> k < m_packetsSent
  BY DEF OffersExactly
<1> DEFINE last == LastTime(scenario)
<1>1. /\ scenario \in Scenarios /\ halted /\ m_packetsSent \in Nat
      /\ socket \in {"created", "connected", "closed"}
      /\ socket = "created" => m_packetsSent = 0
      /\ socket # "created" => m_packetsSent >= 1
      /\ scenario.nPackets \in Nat /\ k \in Nat
  BY ScenarioFacts DEF Inv, SimulatorInv, AppInv
<1>2. /\ \A j \in Nat : At(j) \in Nat
      /\ \A i, j \in Nat : i <= j => At(i) <= At(j)
      /\ At(0) = scenario.start
      /\ last \in Nat /\ last <= scenario.end /\ scenario.end \in Nat
      /\ scenario.stop \in Nat
  BY <1>1, AtFacts, LastTimeFacts, ScenarioFacts
<1>3. k \in Offers(scenario) <=> /\ k <= scenario.nPackets
                                 /\ k = 0 \/ k < scenario.nPackets
                                 /\ At(k) < last
  BY <1>1 DEF Offers, At
<1>4. ASSUME k < m_packetsSent
      PROVE  k \in Offers(scenario)
  <2>1. k = 0 \/ k < scenario.nPackets
    BY <1>1, <1>4 DEF Inv, CountInv
  <2>2. At(m_packetsSent - 1) < last
    BY <1>1, <1>4 DEF Inv, CountInv
  <2>3. m_packetsSent - 1 \in Nat /\ k <= m_packetsSent - 1
    BY <1>1, <1>4
  <2>4. At(k) < last
    BY <1>1, <1>2, <2>2, <2>3
  <2> QED BY <1>1, <1>3, <2>1, <2>4
<1>5. ASSUME k \in Offers(scenario), k >= m_packetsSent
      PROVE  FALSE
  <2>1. At(k) < last /\ (k = 0 \/ k < scenario.nPackets)
    BY <1>3, <1>5
  <2>2. At(m_packetsSent) <= At(k)
    BY <1>1, <1>2, <1>5
  <2>3. socket # "created"
    <3>1. socket = "created" => At(0) >= scenario.end /\ At(0) <= At(k)
      BY <1>1, <1>2 DEF Inv, CountInv
    <3>2. At(0) \in Nat /\ At(k) \in Nat
      BY <1>1, <1>2
    <3> QED BY <1>2, <2>1, <3>1, <3>2
  <2>4. More(m_packetsSent)
    BY <1>1, <1>5, <2>1, <2>3 DEF More
  <2>5. CASE socket = "connected"
    <3>1. At(m_packetsSent) >= scenario.end
      BY <1>1, <2>4, <2>5 DEF Inv, CountInv
    <3>2. At(m_packetsSent) \in Nat /\ At(k) \in Nat
      BY <1>1, <1>2
    <3> QED BY <1>2, <2>1, <2>2, <3>1, <3>2
  <2>6. CASE socket = "closed"
    <3>1. /\ At(m_packetsSent) >= scenario.stop
          /\ scenario.stop # 0 /\ scenario.stop < scenario.end
      BY <2>4, <2>6 DEF Inv, CountInv
    <3>2. last = scenario.stop
      BY <3>1 DEF LastTime
    <3>3. At(m_packetsSent) \in Nat /\ At(k) \in Nat
      BY <1>1, <1>2
    <3> QED BY <1>2, <2>1, <2>2, <3>1, <3>2, <3>3
  <2> QED BY <1>1, <2>3, <2>5, <2>6
<1> QED BY <1>1, <1>4, <1>5

(* When the simulation has returned the socket was offered one packet for  *)
(* every interval that begins before the stop and the end, and nPackets at *)
(* most: no packet is lost to a tie of two events or to the cancelling.    *)
THEOREM OffersCorrect == Spec => []OffersExactly
<1>1. Inv => OffersExactly
  BY InvOffers
<1> QED BY <1>1, InvCorrect, PTL

=============================================================================
