----------------------------- MODULE Ping_proofs -----------------------------
(***************************************************************************)
(* What holds of the ping client for every number of probes, every buffer  *)
(* size and every combination of faults.                                   *)
(***************************************************************************)
EXTENDS Ping, FiniteSetTheorems, TLAPS

(* The probe counter stays within the loop's bounds.                       *)
IInRange == pc \in {"recv", "sleep"} => i <= MsgCount

TypeInv == TypeOK /\ IInRange

(* Where answers come from and how they are counted: everything on its way *)
(* to the client was sent by the server, and the round trips in the sum    *)
(* belong to finished iterations, one each.                                *)
CountInv ==
    /\ toClient \subseteq echoed
    /\ \A k \in 1..Len(sockbuf) : sockbuf[k] \in echoed
    /\ trtt \subseteq echoed
    /\ trtt \subseteq 1..Finished
    /\ recvcnt = Cardinality(trtt)

-----------------------------------------------------------------------------
(* Taking datagrams out of a channel leaves a set of probes, and counting  *)
(* duplications leaves a natural number.                                   *)
LEMMA DeliveredType ==
    ASSUME TypeOK, NEW m, NEW channel, NEW rest,
           channel \subseteq Probe, Delivered(m, channel, rest)
    PROVE  rest \subseteq channel /\ dups' \in Nat
BY DEF Delivered, TypeOK

(* One step of anything keeps the types and the loop's bounds.             *)
LEMMA TypeStep == TypeInv /\ [Next]_vars => TypeInv'
<1> SUFFICES ASSUME TypeInv, [Next]_vars PROVE TypeInv'
  OBVIOUS
<1> USE PingAssumption DEF TypeInv, TypeOK, IInRange, Probe, NoProbe, Loops
<1>1. CASE Send
  BY <1>1 DEF Send, server
<1>2. CASE SendFails
  BY <1>2 DEF SendFails, server
<1>3. CASE Recv
  <2>1. sockbuf' \in Seq(Probe)
    BY <1>3 DEF Recv
  <2>2. i \in Probe
    BY <1>3 DEF Recv
  <2>3. recvcnt' \in Nat /\ unmatched' \in Nat
    <3>1. recvcnt' \in {recvcnt, recvcnt + 1} /\ unmatched' \in {unmatched, unmatched + 1}
      BY <1>3 DEF Recv
    <3> QED BY <3>1
  <2>4. trtt' \subseteq Probe
    BY <1>3, <2>2 DEF Recv
  <2> QED BY <1>3, <2>1, <2>3, <2>4 DEF Recv, server
<1>4. CASE Timeout
  BY <1>4 DEF Timeout, server
<1>5. CASE Sleep
  BY <1>5 DEF Sleep, server
<1>6. CASE Report
  BY <1>6 DEF Report, server
<1>7. CASE Lose
  BY <1>7 DEF Lose, client, server
<1>8. CASE Arrive
  <2>1. UNCHANGED <<client, server, toServer>>
    BY <1>8 DEF Arrive
  <2>2. /\ toClient' \subseteq Probe /\ dups' \in Nat
        /\ sockbuf' \in Seq(Probe) /\ dropped' \subseteq Probe
    <3> PICK m \in Deliverable(toClient) :
            /\ Delivered(m, toClient, toClient')
            /\ \/ sockbuf' = Append(sockbuf, m) /\ UNCHANGED dropped
               \/ dropped' = dropped \cup {m} /\ UNCHANGED sockbuf
      BY <1>8 DEF Arrive
    <3>1. m \in Probe
      BY DEF Deliverable
    <3>2. toClient' \subseteq Probe /\ dups' \in Nat
      BY DeliveredType
    <3>3. sockbuf' = Append(sockbuf, m) \/ UNCHANGED sockbuf
      OBVIOUS
    <3>4. sockbuf' \in Seq(Probe)
      BY <3>1, <3>3
    <3>5. dropped' \subseteq Probe
      BY <3>1
    <3> QED BY <3>2, <3>4, <3>5
  <2>3. UNCHANGED <<faults, pc, i, recvcnt, lost_count, trtt, unmatched, srv, echoed>>
    BY <1>8, <2>1 DEF Arrive, client, server
  <2> QED BY <2>1, <2>2, <2>3
<1>9. CASE ServerRecv
  <2> PICK m \in Deliverable(toServer) :
          Delivered(m, toServer, toServer') /\ srv' = m
    BY <1>9 DEF ServerRecv
  <2>1. m \in Probe
    BY DEF Deliverable
  <2>2. toServer' \subseteq Probe /\ dups' \in Nat
    BY DeliveredType
  <2> QED BY <1>9, <2>1, <2>2 DEF ServerRecv, client
<1>10. CASE ServerSend
  BY <1>10 DEF ServerSend, client
<1>11. CASE UNCHANGED vars
  BY <1>11 DEF vars
<1> QED
  BY <1>1, <1>2, <1>3, <1>4, <1>5, <1>6, <1>7, <1>8, <1>9, <1>10, <1>11
     DEF Next, Client, Server, Network, Done

(* Type correctness, for every behaviour of the ping system.               *)
THEOREM TypeCorrect == Spec => [](TypeOK /\ IInRange)
<1>1. Init => TypeInv
  BY PingAssumption DEF Init, TypeInv, TypeOK, IInRange, Probe, NoProbe
<1>2. QED BY <1>1, TypeStep, PTL DEF Spec, TypeInv

-----------------------------------------------------------------------------
(* Every iteration ends in exactly one of three ways, and only two of them *)
(* reach the summary line: received, lost, or an answer to another probe.  *)
Accounting == recvcnt + lost_count + unmatched = Finished

(* Every iteration is accounted for exactly once: q1client.c:79, :89,      *)
(* :103 and :106 are reached at most once per turn of the loop.            *)
THEOREM AccountingCorrect == Spec => []Accounting
<1>1. Init => Accounting
  BY DEF Init, Accounting, Finished
<1>2. Accounting /\ TypeOK /\ [Next]_vars => Accounting'
  <2> SUFFICES ASSUME Accounting, TypeOK, [Next]_vars PROVE Accounting'
    OBVIOUS
  <2> USE PingAssumption DEF Accounting, Finished, TypeOK, Loops
  <2>1. CASE Send
    BY <2>1 DEF Send
  <2>2. CASE SendFails
    BY <2>2 DEF SendFails
  <2>3. CASE Recv
    BY <2>3 DEF Recv
  <2>4. CASE Timeout
    BY <2>4 DEF Timeout
  <2>5. CASE Sleep
    BY <2>5 DEF Sleep
  <2>6. CASE Report
    BY <2>6 DEF Report
  <2>7. CASE UNCHANGED client
    BY <2>7 DEF client
  <2> QED
    BY <2>1, <2>2, <2>3, <2>4, <2>5, <2>6, <2>7
       DEF Next, Client, Server, Network, Done, vars, client,
           Lose, Arrive, ServerRecv, ServerSend
<1>3. QED BY <1>1, <1>2, TypeCorrect, PTL DEF Spec

-----------------------------------------------------------------------------
(* The strengthened invariant is kept by every step.                       *)
LEMMA CountStep == CountInv /\ TypeInv /\ [Next]_vars => CountInv'
<1> SUFFICES ASSUME CountInv, TypeInv, [Next]_vars PROVE CountInv'
  OBVIOUS
<1> USE PingAssumption DEF CountInv, TypeInv, TypeOK, IInRange, Finished, Loops, Answers
<1>1. CASE Send
  BY <1>1 DEF Send, server
<1>2. CASE SendFails
  BY <1>2 DEF SendFails, server
<1>3. CASE Recv
  <2>1. \A k \in 1..Len(sockbuf') : sockbuf'[k] \in echoed
    BY <1>3 DEF Recv
  <2>2. /\ pc' = "sleep" /\ i' = i /\ i \in 1..MsgCount
        /\ UNCHANGED <<toClient, echoed>>
    BY <1>3 DEF Recv, server
  <2>3. /\ trtt' \subseteq echoed'
        /\ trtt' \subseteq 1..Finished'
        /\ recvcnt' = Cardinality(trtt')
    <3>1. CASE Head(sockbuf) = i
      <4>1. i \in echoed /\ i \notin trtt
        BY <1>3, <3>1 DEF Recv
      <4>2. recvcnt' = recvcnt + 1 /\ trtt' = trtt \cup {i}
        BY <1>3, <3>1 DEF Recv
      <4>3. IsFiniteSet(trtt)
        <5>1. IsFiniteSet(1..MsgCount)
          BY FS_Interval
        <5> QED BY <5>1, FS_Subset DEF Probe
      <4>4. Cardinality(trtt \cup {i}) = Cardinality(trtt) + 1
        BY <4>1, <4>3, FS_AddElement
      <4>5. recvcnt' = Cardinality(trtt')
        BY <4>2, <4>4
      <4> QED BY <2>2, <4>1, <4>2, <4>5
    <3>2. CASE Head(sockbuf) # i
      <4>1. UNCHANGED <<recvcnt, trtt>>
        BY <1>3, <3>2 DEF Recv
      <4> QED BY <2>2, <4>1
    <3> QED BY <3>1, <3>2
  <2> QED BY <2>1, <2>2, <2>3
<1>4. CASE Timeout
  BY <1>4 DEF Timeout, server
<1>5. CASE Sleep
  BY <1>5 DEF Sleep, server
<1>6. CASE Report
  BY <1>6 DEF Report, server
<1>7. CASE Lose
  BY <1>7 DEF Lose, client, server
<1>8. CASE Arrive
  <2> PICK m \in Deliverable(toClient) :
          /\ Delivered(m, toClient, toClient')
          /\ \/ sockbuf' = Append(sockbuf, m) /\ UNCHANGED dropped
             \/ dropped' = dropped \cup {m} /\ UNCHANGED sockbuf
    BY <1>8 DEF Arrive
  <2>1. m \in echoed /\ m \in Probe
    BY DEF Deliverable
  <2>2. toClient' \subseteq echoed
    BY DeliveredType
  <2>3. \A k \in 1..Len(sockbuf') : sockbuf'[k] \in echoed
    BY <2>1
  <2>4. UNCHANGED <<client, server, toServer>>
    BY <1>8 DEF Arrive
  <2> QED BY <2>1, <2>2, <2>3, <2>4 DEF client, server
<1>9. CASE ServerRecv
  BY <1>9 DEF ServerRecv, client
<1>10. CASE ServerSend
  BY <1>10 DEF ServerSend, client
<1>11. CASE UNCHANGED vars
  BY <1>11 DEF vars
<1> QED
  BY <1>1, <1>2, <1>3, <1>4, <1>5, <1>6, <1>7, <1>8, <1>9, <1>10, <1>11
     DEF Next, Client, Server, Network, Done

(* The statistics never claim more answers than probes the server sent     *)
(* back, however often the network duplicates or delays an answer; and the *)
(* average divides the sum by the number of round trips in it.             *)
ReceivedWasEchoed ==
    /\ recvcnt <= Cardinality(echoed)
    /\ recvcnt = Cardinality(trtt)

(* Duplicated, late and reordered answers never make the client count more *)
(* answers than the server sent, nor average over a wrong number of round  *)
(* trips.                                                                  *)
THEOREM ReceivedCorrect == Spec => []ReceivedWasEchoed
<1>1. Init => CountInv
  BY FS_EmptySet DEF Init, CountInv, Finished
<1>2. CountInv /\ TypeInv => ReceivedWasEchoed
  <2> SUFFICES ASSUME CountInv, TypeInv PROVE ReceivedWasEchoed
    OBVIOUS
  <2>1. IsFiniteSet(echoed)
    <3>1. IsFiniteSet(1..MsgCount)
      BY PingAssumption, FS_Interval
    <3> QED BY <3>1, FS_Subset DEF Probe, TypeInv, TypeOK
  <2>2. Cardinality(trtt) <= Cardinality(echoed)
    BY <2>1, FS_Subset DEF CountInv
  <2> QED BY <2>2 DEF CountInv, ReceivedWasEchoed
<1>3. QED BY <1>1, <1>2, CountStep, TypeCorrect, PTL DEF Spec, TypeInv

-----------------------------------------------------------------------------
(* No datagram has a number that was not sent yet.                         *)
Sent == IF pc \in {"recv", "sleep"} THEN i ELSE i - 1
SentInv == \A m \in toServer \cup {srv} : m # NoProbe => m <= Sent

LEMMA SentStep == SentInv /\ TypeInv /\ [Next]_vars => SentInv'
<1> SUFFICES ASSUME SentInv, TypeInv, [Next]_vars PROVE SentInv'
  OBVIOUS
<1> USE PingAssumption DEF SentInv, Sent, TypeInv, TypeOK, IInRange, Probe, NoProbe, Loops
<1>1. CASE Send
  BY <1>1 DEF Send, server
<1>2. CASE SendFails
  BY <1>2 DEF SendFails, server
<1>3. CASE Recv \/ Timeout \/ Sleep \/ Report
  <2>1. Sent' = Sent
    BY <1>3 DEF Recv, Timeout, Sleep, Report
  <2>2. UNCHANGED <<toServer, srv>>
    BY <1>3 DEF Recv, Timeout, Sleep, Report, server
  <2> QED BY <2>1, <2>2
<1>4. CASE Lose
  BY <1>4 DEF Lose, client, server
<1>5. CASE Arrive
  BY <1>5 DEF Arrive, client, server
<1>6. CASE ServerRecv
  <2>1. PICK m \in Deliverable(toServer) : Delivered(m, toServer, toServer') /\ srv' = m
    BY <1>6 DEF ServerRecv
  <2>2. m \in toServer /\ toServer' \subseteq toServer
    BY <2>1 DEF Deliverable, Delivered
  <2> QED BY <1>6, <2>1, <2>2 DEF ServerRecv, client
<1>7. CASE ServerSend
  BY <1>7 DEF ServerSend, client
<1>8. CASE UNCHANGED vars
  BY <1>8 DEF vars
<1> QED
  BY <1>1, <1>2, <1>3, <1>4, <1>5, <1>6, <1>7, <1>8
     DEF Next, Client, Server, Network, Done

(* Every step of the ping is a step of the tally or none.                  *)
LEMMA TallyStep ==
    ASSUME TypeInv, CountInv, SentInv, [Next]_vars
    PROVE  [T!Next]_(T!vars)
<1> USE PingAssumption DEF TypeInv, TypeOK, IInRange, Probe, NoProbe, Loops, Finished
<1>1. CASE Send \/ Sleep
  <2>1. Finished' = Finished /\ (pc = "done") = FALSE /\ (pc' = "done") = FALSE
    BY <1>1 DEF Send, Sleep
  <2>2. UNCHANGED <<recvcnt, lost_count, unmatched, trtt, echoed>>
    BY <1>1 DEF Send, Sleep, server
  <2> QED BY <2>1, <2>2 DEF T!vars
<1>2. CASE SendFails
  BY <1>2 DEF SendFails, server, T!Next, T!Judge
<1>3. CASE Recv
  <2>1. CASE Head(sockbuf) = i
    <3>1. i \in echoed
      BY <1>3, <2>1 DEF Recv, CountInv
    <3> QED BY <1>3, <2>1, <3>1 DEF Recv, Answers, server, T!Next, T!Judge
  <2>2. CASE Head(sockbuf) # i
    BY <1>3, <2>2 DEF Recv, Answers, server, T!Next, T!Judge
  <2> QED BY <2>1, <2>2
<1>4. CASE Timeout
  BY <1>4 DEF Timeout, server, T!Next, T!Judge
<1>5. CASE Report
  BY <1>5 DEF Report, server, T!Next, T!Report
<1>6. CASE Lose \/ Arrive \/ ServerRecv \/ UNCHANGED vars
  <2>1. UNCHANGED <<client, echoed>>
    BY <1>6 DEF Lose, Arrive, ServerRecv, client, server, vars
  <2> QED BY <2>1 DEF client, T!vars
<1>7. CASE ServerSend
  <2>1. UNCHANGED client /\ (echoed' = echoed \/ echoed' = echoed \cup {srv})
    BY <1>7 DEF ServerSend
  <2>2. srv \in 1..MsgCount /\ srv <= Finished + 1
    BY <1>7 DEF ServerSend, SentInv, Sent
  <2> QED BY <2>1, <2>2 DEF client, T!vars, T!Next, T!Echo
<1> QED
  BY <1>1, <1>2, <1>3, <1>4, <1>5, <1>6, <1>7
     DEF Next, Client, Server, Network, Done

(* The ping implements the tally: every turn of q1client.c:69-113 gets one *)
(* verdict for good, and "received" only on the strength of its own probe. *)
THEOREM TallyCorrect == Spec => KeepsTally
<1>1. Init => T!Init
  BY DEF Init, Finished, T!Init
<1>2. Init => CountInv /\ SentInv
  BY PingAssumption, FS_EmptySet DEF Init, CountInv, SentInv, Sent, Finished, NoProbe
<1>3. TypeInv /\ CountInv /\ SentInv /\ [Next]_vars => [T!Next]_(T!vars)
  BY TallyStep
<1>4. Spec => []TypeInv
  BY TypeCorrect DEF TypeInv
<1>5. Spec => [](CountInv /\ SentInv)
  BY <1>2, <1>4, CountStep, SentStep, PTL DEF Spec
<1>6. QED
  BY <1>1, <1>3, <1>4, <1>5, PTL DEF Spec, KeepsTally, T!Spec

-----------------------------------------------------------------------------
(* A path that keeps the order and loses nothing is a pipeline: the        *)
(* numbers Consumed + 1 .. Sent lie in it in order, first those in the     *)
(* socket buffer, then those on their way back, in the server, and on      *)
(* their way there.                                                        *)
Consumed == recvcnt + unmatched
Buffered == Consumed + Len(sockbuf)

Pipeline(b) ==
    /\ Buffered <= b
    /\ toClient = (Buffered + 1)..b
    /\ \/ /\ srv = NoProbe
          /\ b <= Sent /\ toServer = (b + 1)..Sent
       \/ /\ srv = b + 1
          /\ b + 1 <= Sent /\ toServer = (b + 2)..Sent

PipelineInv ==
    /\ \A k \in 1..Len(sockbuf) : sockbuf[k] = Consumed + k
    /\ \E b \in Nat : Pipeline(b)

OnlyLateAnswers == faults \subseteq {"late"} /\ MsgCount <= SockCap

(* Without reordering and duplication the oldest datagram is delivered,    *)
(* and it is gone from the channel.                                        *)
LEMMA OldestDelivered ==
    ASSUME OnlyLateAnswers, NEW lo \in Nat, NEW hi \in Nat,
           NEW m \in Deliverable(lo..hi), NEW rest,
           Delivered(m, lo..hi, rest)
    PROVE  m = lo /\ lo <= hi /\ rest = (lo + 1)..hi
<1>1. m \in lo..hi /\ \A n \in lo..hi : m <= n
  BY DEF Deliverable, OnlyLateAnswers
<1>2. m = lo /\ lo <= hi
  BY <1>1
<1>3. rest = (lo..hi) \ {m}
  BY DEF Delivered, OnlyLateAnswers
<1> QED BY <1>2, <1>3

(* Every step of such a system keeps the pipeline.                         *)
LEMMA PipelineStep ==
    ASSUME OnlyLateAnswers, PipelineInv, TypeInv, [Next]_vars
    PROVE  PipelineInv'
<1> USE PingAssumption DEF TypeInv, TypeOK, IInRange, Probe, NoProbe, Loops
<1>b. PICK b \in Nat : Pipeline(b)
  BY DEF PipelineInv
<1>t. Consumed \in Nat /\ Sent \in Nat /\ Sent <= MsgCount /\ Len(sockbuf) \in Nat
  BY DEF Consumed, Sent
<1>1. CASE Send
  <2>1. /\ Sent = i - 1 /\ Sent' = i /\ i \in Nat \ {0}
        /\ Consumed' = Consumed /\ Buffered' = Buffered
        /\ UNCHANGED <<sockbuf, toClient, srv>>
    BY <1>1 DEF Send, Sent, Consumed, Buffered, server
  <2>2. toServer' = toServer \cup {i}
    BY <1>1 DEF Send
  <2>3. Pipeline(b)'
    BY <1>b, <1>t, <2>1, <2>2 DEF Pipeline
  <2> QED BY <2>1, <2>3 DEF PipelineInv
<1>2. CASE Recv
  <2>1. /\ Consumed' = Consumed + 1 /\ Sent' = Sent
        /\ UNCHANGED <<toClient, toServer, srv>>
    BY <1>2 DEF Recv, Sent, Consumed, server
  <2>2. sockbuf # <<>> /\ sockbuf' = Tail(sockbuf)
    BY <1>2 DEF Recv
  <2>3. Len(sockbuf') = Len(sockbuf) - 1
    BY <2>2
  <2>4. \A k \in 1..Len(sockbuf') : sockbuf'[k] = sockbuf[k + 1]
    BY <2>2
  <2>5. Buffered' = Buffered
    BY <1>t, <2>1, <2>3 DEF Buffered
  <2>6. \A k \in 1..Len(sockbuf') : sockbuf'[k] = Consumed' + k
    BY <1>t, <2>1, <2>3, <2>4 DEF PipelineInv
  <2>7. Pipeline(b)'
    BY <1>b, <2>1, <2>5 DEF Pipeline
  <2> QED BY <2>6, <2>7 DEF PipelineInv
<1>3. CASE Timeout \/ Sleep \/ Report \/ UNCHANGED vars
  <2>1. /\ Consumed' = Consumed /\ Sent' = Sent /\ Buffered' = Buffered
        /\ UNCHANGED <<sockbuf, toClient, toServer, srv>>
    BY <1>3 DEF Timeout, Sleep, Report, vars, Sent, Consumed, Buffered, server
  <2>2. Pipeline(b)'
    BY <1>b, <2>1 DEF Pipeline
  <2> QED BY <2>1, <2>2 DEF PipelineInv
<1>4. CASE Arrive
  <2>1. /\ Consumed' = Consumed /\ Sent' = Sent
        /\ UNCHANGED <<toServer, srv>>
    BY <1>4 DEF Arrive, client, server, Consumed, Sent
  <2>2. PICK m \in Deliverable(toClient) :
            /\ Delivered(m, toClient, toClient')
            /\ \/ Len(sockbuf) < SockCap /\ sockbuf' = Append(sockbuf, m)
               \/ Len(sockbuf) >= SockCap
    BY <1>4 DEF Arrive
  <2>3. Buffered \in Nat /\ Buffered + 1 \in Nat
    BY <1>t DEF Buffered
  <2>4. m = Buffered + 1 /\ m <= b /\ toClient' = (Buffered + 2)..b
    <3>1. toClient = (Buffered + 1)..b
      BY <1>b DEF Pipeline
    <3>2. m = Buffered + 1 /\ Buffered + 1 <= b /\ toClient' = ((Buffered + 1) + 1)..b
      BY <2>2, <2>3, <3>1, OldestDelivered
    <3> QED BY <2>3, <3>2
  <2>5. b <= Sent
    BY <1>b, <1>t DEF Pipeline
  <2>6. Len(sockbuf) < SockCap
    BY <1>t, <2>4, <2>5 DEF Buffered, OnlyLateAnswers
  <2>7. sockbuf' = Append(sockbuf, m)
    BY <1>t, <2>2, <2>6
  <2>8. m \in Probe
    BY DEF Deliverable
  <2>9. Len(sockbuf') = Len(sockbuf) + 1
    BY <2>7, <2>8
  <2>10. Buffered' = Buffered + 1
    BY <1>t, <2>1, <2>9 DEF Buffered
  <2>11. Pipeline(b)'
    <3>1. Buffered' + 1 = Buffered + 2 /\ Buffered' <= b
      BY <2>3, <2>4, <2>10
    <3>2. toClient' = (Buffered' + 1)..b
      BY <2>4, <3>1
    <3> QED BY <1>b, <2>1, <3>1, <3>2 DEF Pipeline
  <2>12. \A k \in 1..Len(sockbuf') : sockbuf'[k] = Consumed' + k
    <3>1. \A k \in 1..Len(sockbuf) : sockbuf'[k] = sockbuf[k]
      BY <2>7, <2>8
    <3>2. sockbuf'[Len(sockbuf) + 1] = m
      BY <2>7, <2>8
    <3>3. m = Consumed + (Len(sockbuf) + 1)
      BY <1>t, <2>4 DEF Buffered
    <3>4. \A k \in 1..Len(sockbuf') : k \in 1..Len(sockbuf) \/ k = Len(sockbuf) + 1
      BY <1>t, <2>9
    <3> QED BY <2>1, <3>1, <3>2, <3>3, <3>4 DEF PipelineInv
  <2> QED BY <2>11, <2>12 DEF PipelineInv
<1>5. CASE ServerRecv
  <2>1. /\ Consumed' = Consumed /\ Sent' = Sent /\ Buffered' = Buffered
        /\ UNCHANGED <<sockbuf, toClient>>
    BY <1>5 DEF ServerRecv, client, Consumed, Sent, Buffered
  <2>2. srv = NoProbe /\ toServer = (b + 1)..Sent
    BY <1>5, <1>b DEF ServerRecv, Pipeline
  <2>3. srv' = b + 1 /\ b + 1 <= Sent /\ toServer' = (b + 2)..Sent
    <3>1. PICK m \in Deliverable(toServer) :
              Delivered(m, toServer, toServer') /\ srv' = m
      BY <1>5 DEF ServerRecv
    <3> QED BY <1>t, <2>2, <3>1, OldestDelivered
  <2>4. Pipeline(b)'
    BY <1>b, <2>1, <2>3 DEF Pipeline
  <2> QED BY <2>1, <2>4 DEF PipelineInv
<1>6. CASE ServerSend
  <2>1. /\ Consumed' = Consumed /\ Sent' = Sent /\ Buffered' = Buffered
        /\ UNCHANGED <<sockbuf, toServer>>
    BY <1>6 DEF ServerSend, client, Consumed, Sent, Buffered
  <2>2. srv # NoProbe /\ srv' = NoProbe /\ toClient' = toClient \cup {srv}
    BY <1>6 DEF ServerSend, OnlyLateAnswers
  <2>3. Buffered \in Nat
    BY <1>t DEF Buffered
  <2>4. Pipeline(b + 1)'
    BY <1>b, <1>t, <2>1, <2>2, <2>3 DEF Pipeline
  <2> QED BY <2>1, <2>4 DEF PipelineInv
<1> QED
  BY <1>1, <1>2, <1>3, <1>4, <1>5, <1>6
     DEF Next, Client, Server, Network, Done, SendFails, Lose, OnlyLateAnswers

(* What the faults are never changes, so the pipeline lasts if they allow  *)
(* no more than late answers.                                              *)
LateInv == OnlyLateAnswers => PipelineInv

(* On a path that neither loses nor reorders, an answer is counted only as *)
(* long as no iteration has timed out (q1client.c:84-106): the late answer *)
(* stays one place ahead of the loop for ever.                             *)
THEOREM LateCorrect == Spec => OneLateAnswerEndsCounting
<1>1. Init => LateInv
  <2> SUFFICES ASSUME Init PROVE PipelineInv
    BY DEF LateInv
  <2>1. Pipeline(0)
    BY DEF Init, Pipeline, Buffered, Consumed, Sent, NoProbe
  <2> QED BY <2>1 DEF Init, PipelineInv
<1>2. LateInv /\ TypeInv /\ [Next]_vars => LateInv'
  <2> SUFFICES ASSUME LateInv, TypeInv, [Next]_vars, OnlyLateAnswers'
               PROVE  PipelineInv'
    BY DEF LateInv
  <2>1. faults' = faults
    BY DEF Next, Client, Server, Network, Done, Send, SendFails, Recv, Timeout, Sleep,
           Report, Lose, Arrive, ServerRecv, ServerSend, vars
  <2>2. OnlyLateAnswers
    BY <2>1 DEF OnlyLateAnswers
  <2> QED BY <2>2, PipelineStep DEF LateInv
<1>3. LateInv /\ TypeInv /\ Accounting /\ [Next]_vars
      => [(faults \subseteq {"late"} /\ MsgCount <= SockCap) =>
            (recvcnt' # recvcnt => lost_count = 0)]_vars
  <2> SUFFICES ASSUME LateInv, OnlyLateAnswers, TypeInv, Accounting, Next,
                      recvcnt' # recvcnt
               PROVE  lost_count = 0
    BY DEF OnlyLateAnswers
  <2>0. PipelineInv
    BY DEF LateInv
  <2>1. Recv
    BY DEF Next, Client, Server, Network, Done, Send, SendFails, Timeout, Sleep,
           Report, Lose, Arrive, ServerRecv, ServerSend, client, vars
  <2>2. pc = "recv" /\ sockbuf # <<>> /\ Head(sockbuf) = i
    BY <2>1 DEF Recv, Answers
  <2>3. Head(sockbuf) = Consumed + 1
    BY <2>0, <2>2 DEF PipelineInv, TypeInv, TypeOK
  <2> QED BY <2>2, <2>3 DEF Accounting, Finished, Consumed, TypeInv, TypeOK
<1>4. Spec => []TypeInv
  BY TypeCorrect DEF TypeInv
<1>5. QED
  BY <1>1, <1>2, <1>3, <1>4, AccountingCorrect, PTL
     DEF Spec, OneLateAnswerEndsCounting

-----------------------------------------------------------------------------
(* The loss rate.  Without late and duplicated datagrams there is nothing  *)
(* of an older probe anywhere: while the client waits, its probe or the    *)
(* answer is in one place or was dropped, and otherwise nothing is under   *)
(* way.                                                                    *)
Punctual == faults \cap {"late", "dup"} = {}

Quiet == NothingOnItsWay /\ sockbuf = <<>>

OnePlace ==
    \/ i \in dropped /\ Quiet
    \/ /\ i \notin dropped
       /\ \/ toServer = {i} /\ srv = NoProbe /\ toClient = {} /\ sockbuf = <<>>
          \/ toServer = {} /\ srv = i /\ toClient = {} /\ sockbuf = <<>>
          \/ toServer = {} /\ srv = NoProbe /\ toClient = {i} /\ sockbuf = <<>>
          \/ toServer = {} /\ srv = NoProbe /\ toClient = {} /\ sockbuf = <<i>>

LossInv ==
    /\ dropped \subseteq 1..(IF pc \in {"recv", "sleep"} THEN i ELSE i - 1)
    /\ lost_count = Cardinality(IF pc = "recv" THEN dropped \ {i} ELSE dropped)
    /\ IF pc = "recv" THEN OnePlace ELSE Quiet

LEMMA DroppedFinite ==
    ASSUME TypeInv
    PROVE  IsFiniteSet(dropped) /\ IsFiniteSet(dropped \ {i})
<1>1. IsFiniteSet(Probe)
  BY PingAssumption, FS_Interval DEF Probe
<1> QED BY <1>1, FS_Subset DEF TypeInv, TypeOK

LEMMA LossStep ==
    ASSUME TypeInv, Punctual, LossInv, [Next]_vars
    PROVE  LossInv'
<1> USE DEF LossInv, OnePlace, Quiet, NothingOnItsWay, server, client
<1>0. /\ i \in Nat /\ i >= 1 /\ MsgCount \in Nat /\ SockCap >= 1 /\ SockCap \in Nat
      /\ IsFiniteSet(dropped) /\ IsFiniteSet(dropped \ {i})
      /\ i # NoProbe
  BY PingAssumption, DroppedFinite DEF TypeInv, TypeOK, NoProbe
<1>1. CASE Send
  <2>1. i \notin dropped
    BY <1>0, <1>1 DEF Send
  <2>2. dropped \ {i} = dropped
    BY <2>1
  <2>3. dropped' \subseteq 1..i
    BY <1>0, <1>1 DEF Send
  <2> QED BY <1>0, <1>1, <2>1, <2>2, <2>3 DEF Send
<1>2. CASE SendFails
  <2>1. i \notin dropped
    BY <1>0, <1>2 DEF SendFails
  <2>2. Cardinality(dropped \cup {i}) = Cardinality(dropped) + 1
    BY <1>0, <2>1, FS_AddElement
  <2>3. dropped' \subseteq 1..(i' - 1)
    BY <1>0, <1>2 DEF SendFails
  <2> QED BY <1>0, <1>2, <2>2, <2>3 DEF SendFails
<1>3. CASE Recv
  <2>1. i \notin dropped /\ sockbuf = <<i>> /\ toServer = {} /\ srv = NoProbe /\ toClient = {}
    BY <1>3 DEF Recv
  <2>2. sockbuf' = <<>> /\ dropped \ {i} = dropped
    BY <1>3, <2>1 DEF Recv
  <2> QED BY <1>3, <2>1, <2>2 DEF Recv
<1>4. CASE Timeout
  <2>1. i \in dropped /\ Quiet
    BY <1>0, <1>4 DEF Timeout, Punctual
  <2>2. (dropped \ {i}) \cup {i} = dropped /\ i \notin dropped \ {i}
    BY <2>1
  <2>3. Cardinality(dropped) = Cardinality(dropped \ {i}) + 1
    BY <1>0, <2>2, FS_AddElement
  <2> QED BY <1>4, <2>1, <2>3 DEF Timeout
<1>5. CASE Sleep
  BY <1>0, <1>5 DEF Sleep
<1>6. CASE Report
  BY <1>0, <1>6 DEF Report
<1>7. CASE Lose
  <2>1. /\ pc = "recv" /\ dropped' = dropped \cup {i} /\ i \notin dropped
        /\ toServer' = {} /\ srv' = NoProbe /\ toClient' = {} /\ sockbuf' = <<>>
        /\ UNCHANGED <<pc, i, lost_count>>
    BY <1>7 DEF Lose
  <2>2. dropped' \ {i} = dropped /\ dropped \ {i} = dropped
    BY <2>1
  <2>3. dropped' \subseteq 1..i
    BY <1>0, <2>1
  <2> QED BY <2>1, <2>2, <2>3
<1>8. CASE Arrive
  <2> PICK m \in Deliverable(toClient) :
          /\ Delivered(m, toClient, toClient')
          /\ \/ Len(sockbuf) < SockCap /\ sockbuf' = Append(sockbuf, m) /\ UNCHANGED dropped
             \/ /\ Len(sockbuf) >= SockCap /\ dropped' = dropped \cup {m}
                /\ UNCHANGED sockbuf
    BY <1>8 DEF Arrive
  <2>1. pc = "recv" /\ i \notin dropped /\ toClient = {i} /\ m = i /\ sockbuf = <<>>
        /\ toServer = {} /\ srv = NoProbe
    BY <1>8 DEF Arrive, Deliverable
  <2>2. toClient' = {}
    BY <2>1 DEF Delivered, Punctual
  <2>3. UNCHANGED <<pc, i, lost_count, toServer, srv>>
    BY <1>8 DEF Arrive
  <2>4. sockbuf' = <<i>> /\ UNCHANGED dropped
    BY <1>0, <2>1
  <2> QED BY <2>1, <2>2, <2>3, <2>4
<1>9. CASE ServerRecv
  <2> PICK m \in Deliverable(toServer) : Delivered(m, toServer, toServer') /\ srv' = m
    BY <1>9 DEF ServerRecv
  <2>1. pc = "recv" /\ i \notin dropped /\ toServer = {i} /\ m = i
        /\ toClient = {} /\ sockbuf = <<>>
    BY <1>9 DEF ServerRecv, Deliverable
  <2>2. toServer' = {} /\ UNCHANGED <<pc, i, lost_count, toClient, sockbuf, dropped>>
    BY <1>9, <2>1 DEF ServerRecv, Delivered, Punctual
  <2> QED BY <2>1, <2>2
<1>10. CASE ServerSend
  <2>1. pc = "recv" /\ i \notin dropped /\ srv = i
        /\ toServer = {} /\ toClient = {} /\ sockbuf = <<>>
    BY <1>10 DEF ServerSend
  <2>2. UNCHANGED <<pc, i, lost_count, toServer, sockbuf>> /\ srv' = NoProbe
    BY <1>10 DEF ServerSend
  <2>3. CASE toClient' = {i} /\ dropped' = dropped
    BY <2>1, <2>2, <2>3
  <2>4. CASE toClient' = {} /\ dropped' = dropped \cup {i}
    <3>1. dropped' \ {i} = dropped /\ dropped \ {i} = dropped
      BY <2>1, <2>4
    <3>2. dropped' \subseteq 1..i
      BY <1>0, <2>1, <2>4
    <3> QED BY <2>1, <2>2, <2>4, <3>1, <3>2
  <2> QED BY <1>10, <2>1, <2>3, <2>4 DEF ServerSend
<1>11. CASE UNCHANGED vars
  BY <1>11 DEF vars
<1> QED
  BY <1>1, <1>2, <1>3, <1>4, <1>5, <1>6, <1>7, <1>8, <1>9, <1>10, <1>11
     DEF Next, Client, Server, Network, Done

(* When no answer outlives SO_RCVTIMEO and none is duplicated, the losses  *)
(* counted (q1client.c:77, 89) are the datagrams that were really lost,   *)
(* for any number of probes.                                               *)
THEOREM LossCorrect == Spec => []LossIsExact
<1>1. Init => (Punctual => LossInv)
  <2> SUFFICES ASSUME Init PROVE LossInv
    OBVIOUS
  <2>1. Cardinality({}) = 0
    BY FS_EmptySet
  <2> QED BY <2>1 DEF Init, LossInv, Quiet, NothingOnItsWay
<1>2. (Punctual => LossInv) /\ TypeInv /\ [Next]_vars => (Punctual => LossInv)'
  <2> SUFFICES ASSUME Punctual => LossInv, TypeInv, [Next]_vars, Punctual'
               PROVE  LossInv'
    OBVIOUS
  <2>1. faults' = faults
    BY DEF Next, Client, Server, Network, Done, Send, SendFails, Recv, Timeout, Sleep,
           Report, Lose, Arrive, ServerRecv, ServerSend, vars
  <2>2. Punctual
    BY <2>1 DEF Punctual
  <2> QED BY <2>2, LossStep
<1>3. (Punctual => LossInv) => LossIsExact
  BY DEF Punctual, LossInv, LossIsExact
<1> QED BY <1>1, <1>2, <1>3, TypeCorrect, PTL DEF Spec, TypeInv

=============================================================================
