--------------------------- MODULE Traceroute_proofs ---------------------------
(***************************************************************************)
(* What holds of the traceroute client for every path, every number of     *)
(* probes and every combination of faults.                                 *)
(***************************************************************************)
EXTENDS Traceroute, TLAPS

(* The loop variables stay within their loops, and a row that is over has  *)
(* been gone through to its last probe.                                    *)
LoopInv ==
    /\ pc \in {"probe", "wait", "error"} => ttl <= MaxHops
    /\ pc = "wait" => probe < ProbesPerHop
    /\ pc \in {"row", "done"} => probe = 0 \/ (probe = ProbesPerHop /\ ttl > 1)

TypeInv == TypeOK /\ LoopInv

(* Nothing in the network is of a later row than the program's, and what   *)
(* is quoted is answered as the hop where it ended behaves.                *)
NetInv ==
    /\ \A q \in net : q[1] <= Row
    /\ \A m \in icmp :
          /\ m \in Messages => m.of[1] <= Row /\ m.kind = path[EndOf(m.of)]
          /\ m \in Rivals => "rival" \in faults

(* An accepted answer quotes the port of its place in the row.             *)
RowInv ==
    \A p \in Answered :
        LET m == row[p].reply
        IN /\ m \in Messages \cup Rivals
           /\ m.port = Port(Row, p)
           /\ m \in Messages => m.of[1] <= Row
           /\ m \in Rivals => "rival" \in faults

IInv == RowComplete /\ NetInv /\ RowInv /\ StopIsSound

-----------------------------------------------------------------------------
(* The three verdicts are different, and a time carries its message.       *)
LEMMA Verdicts ==
    /\ Open # Star
    /\ \A m : Time(m) # Open /\ Time(m) # Star
    /\ \A m : Time(m).verdict = "time" /\ Time(m).reply = m
    /\ Open.verdict # "time" /\ Star.verdict # "time"
BY DEF Open, Star, Time

(* What a message carries: its kind, and the port of the probe it answers  *)
(* if that is one of the trace's.                                          *)
LEMMA MessageFields ==
    /\ \A k, q : /\ Message(k, q).kind = k /\ Message(k, q).of = q
                 /\ Message(k, q).port = Port(q[1], q[2])
    /\ \A k \in Answers, q \in Probes : Message(k, q) \in Messages
    /\ \A m \in Messages : /\ m.kind \in Answers /\ m.of \in Probes
                           /\ m.port = Port(m.of[1], m.of[2])
                           /\ m.of # NotOurs /\ m \notin Rivals /\ m # Foreign
    /\ \A m \in Rivals : m.kind \in Answers /\ m.of = NotOurs /\ m # Foreign
    /\ Foreign.kind \notin Answers /\ Foreign.of = NotOurs
<1>1. \A k, q : /\ Message(k, q).kind = k /\ Message(k, q).of = q
               /\ Message(k, q).port = Port(q[1], q[2])
  BY DEF Message
<1>2. \A k \in Answers, q \in Probes : Message(k, q) \in Messages
  BY DEF Messages
<1>3. \A q \in Probes : q # NotOurs
  BY TracerouteAssumption DEF Probes, NotOurs
<1>4. Foreign.kind \notin Answers /\ Foreign.of = NotOurs
  BY DEF Foreign, Answers
<1>5. \A m \in Rivals : m.kind \in Answers /\ m.of = NotOurs /\ m # Foreign
  BY <1>4 DEF Rivals
<1>6. ASSUME NEW m \in Messages
      PROVE  /\ m.kind \in Answers /\ m.of \in Probes
             /\ m.port = Port(m.of[1], m.of[2])
             /\ m.of # NotOurs /\ m \notin Rivals /\ m # Foreign
  <2>1. PICK k \in Answers, q \in Probes : m = Message(k, q)
    BY DEF Messages
  <2>2. m.kind = k /\ m.of = q /\ m.port = Port(q[1], q[2])
    BY <1>1, <2>1
  <2> QED BY <1>3, <1>4, <1>5, <2>2
<1> QED BY <1>1, <1>2, <1>4, <1>5, <1>6

(* Every probe ends at a hop of the path, no further than its ttl.         *)
LEMMA EndOfPath ==
    ASSUME path \in Paths
    PROVE  \A q \in Probes :
              /\ EndOf(q) \in 1..Dist /\ EndOf(q) <= q[1]
              /\ path[EndOf(q)] \in Answers \cup {"silent"}
<1>1. Dist \in Nat \ {0}
  BY DEF Paths, Dist
<1>2. ASSUME NEW q \in Probes PROVE EndOf(q) \in 1..Dist /\ EndOf(q) <= q[1]
  BY <1>1, <1>2, TracerouteAssumption DEF EndOf, Probes
<1>3. \A k \in 1..Dist : path[k] \in Answers \cup {"silent"}
  BY DEF Paths, Dist
<1> QED BY <1>2, <1>3

(* No step changes the environment.                                        *)
LEMMA EnvStep == [Next]_vars => UNCHANGED <<path, faults, Dist>>
BY DEF Next, Program, StartRow, Finish, EndRow, Send, SendError, Recv, Accept,
       Ignore, Timeout, Network, Hop, Lose, OthersArrive, Exited, vars, Dist

(* One step of anything keeps the types and the loop bounds.               *)
LEMMA TypeStep == TypeInv /\ [Next]_vars => TypeInv'
<1> SUFFICES ASSUME TypeInv, [Next]_vars PROVE TypeInv'
  OBVIOUS
<1> USE TracerouteAssumption DEF TypeInv, TypeOK, LoopInv, RowsLeft, Destination
<1>e. UNCHANGED <<path, faults, Dist>>
  BY EnvStep
<1> USE <1>e
<1>1. CASE StartRow
  BY <1>1 DEF StartRow, EmptyRow
<1>2. CASE Finish
  BY <1>2 DEF Finish
<1>3. CASE EndRow
  BY <1>3 DEF EndRow
<1>4. CASE Send
  BY <1>4 DEF Send, Probes
<1>5. CASE SendError
  BY <1>5 DEF SendError
<1>6. ASSUME NEW m \in icmp, Accept(m) PROVE TypeInv'
  <2>1. m \in Messages \cup Rivals
    BY <1>6, MessageFields DEF Accept, Matches
  <2>2. icmp' \subseteq icmp
    BY <1>6 DEF Accept, Taken
  <2>3. row' \in [0..(ProbesPerHop - 1) ->
                     {Open, Star} \cup {Time(n) : n \in Messages \cup Rivals}]
    BY <1>6, <2>1 DEF Accept
  <2> QED BY <1>6, <2>2, <2>3 DEF Accept
<1>7. ASSUME NEW m \in icmp, Ignore(m) PROVE TypeInv'
  BY <1>7 DEF Ignore, Taken
<1>8. CASE Timeout
  BY <1>8 DEF Timeout
<1>9. ASSUME NEW q \in net, Hop(q) PROVE TypeInv'
  <2>1. net' \subseteq net
    BY <1>9 DEF Hop
  <2>2. icmp' \subseteq Messages \cup {Foreign} \cup Rivals
    <3>1. CASE path[EndOf(q)] = "silent"
      BY <1>9, <3>1 DEF Hop
    <3>2. CASE path[EndOf(q)] # "silent"
      <4>1. path[EndOf(q)] \in Answers
        BY <3>2, EndOfPath
      <4>2. Message(path[EndOf(q)], q) \in Messages
        BY <4>1, MessageFields
      <4> QED BY <1>9, <3>2, <4>2 DEF Hop
    <3> QED BY <3>1, <3>2
  <2> QED BY <1>9, <2>1, <2>2 DEF Hop
<1>10. CASE Lose
  BY <1>10 DEF Lose
<1>11. CASE OthersArrive
  BY <1>11 DEF OthersArrive
<1>12. CASE UNCHANGED vars
  BY <1>12 DEF vars
<1> QED
  BY <1>1, <1>2, <1>3, <1>4, <1>5, <1>6, <1>7, <1>8, <1>9, <1>10, <1>11, <1>12
     DEF Next, Program, Recv, Network, Exited

(* Type correctness, for every behaviour of the trace.                     *)
THEOREM TypeCorrect == Spec => [](TypeOK /\ LoopInv)
<1>1. Init => TypeInv
  <2> SUFFICES ASSUME Init PROVE TypeInv
    OBVIOUS
  <2>1. row \in [0..(ProbesPerHop - 1) ->
                    {Open, Star} \cup {Time(m) : m \in Messages \cup Rivals}]
    BY DEF Init, EmptyRow
  <2>2. path \in Paths /\ faults \subseteq FaultKinds
    BY TracerouteAssumption DEF Init
  <2>4. ttl \in 1..(MaxHops + 1) /\ probe \in 0..ProbesPerHop
    BY TracerouteAssumption DEF Init
  <2>5. TypeOK
    BY <2>1, <2>2, <2>4 DEF Init, TypeOK
  <2>6. LoopInv
    BY DEF Init, LoopInv
  <2> QED BY <2>5, <2>6 DEF TypeInv
<1>2. QED BY <1>1, TypeStep, PTL DEF Spec, TypeInv

-----------------------------------------------------------------------------
(* The program only moves on to later rows, and leaves one only at its end.*)
LEMMA RowStep ==
    ASSUME TypeInv, [Next]_vars
    PROVE  Row \in Nat /\ Row' \in Nat /\ (Row' = Row \/ (StartRow /\ Row' >= Row))
<1> USE TracerouteAssumption DEF TypeInv, TypeOK, LoopInv, Row, RowsLeft
<1>1. CASE StartRow
  BY <1>1 DEF StartRow
<1>2. CASE Finish
  BY <1>2 DEF Finish
<1>3. CASE EndRow
  BY <1>3 DEF EndRow
<1>4. CASE Send \/ SendError \/ Timeout
  BY <1>4 DEF Send, SendError, Timeout
<1>5. CASE Recv
  BY <1>5 DEF Recv, Accept, Ignore
<1>6. CASE UNCHANGED <<pc, ttl, probe>>
  BY <1>6
<1> QED
  BY <1>1, <1>2, <1>3, <1>4, <1>5, <1>6
     DEF Next, Program, Network, Hop, Lose, OthersArrive, Exited, vars

-----------------------------------------------------------------------------
(* Each turn of the probe loop gives its probe a verdict.                  *)
LEMMA RowCompleteStep ==
    ASSUME TypeInv, RowComplete, [Next]_vars
    PROVE  RowComplete'
<1> USE TracerouteAssumption DEF TypeInv, TypeOK, LoopInv, RowComplete
<1>1. CASE StartRow
  BY <1>1 DEF StartRow, EmptyRow
<1>2. ASSUME NEW m \in icmp, Accept(m) PROVE RowComplete'
  BY <1>2, Verdicts DEF Accept
<1>3. CASE Timeout
  BY <1>3, Verdicts DEF Timeout
<1>4. CASE UNCHANGED <<probe, row>>
  BY <1>4
<1> QED
  BY <1>1, <1>2, <1>3, <1>4
     DEF Next, Program, Finish, EndRow, Send, SendError, Recv, Ignore,
         Network, Hop, Lose, OthersArrive, Exited, vars

(* A probe sent now is of this row; a message quotes a probe that was on   *)
(* its way.                                                                *)
LEMMA NetStep ==
    ASSUME TypeInv, NetInv, [Next]_vars
    PROVE  NetInv'
<1>r. Row \in Nat /\ Row' \in Nat /\ Row' >= Row
  BY RowStep
<1>t. /\ \A q \in net : q \in Probes /\ q[1] \in Nat
      /\ \A m \in icmp : m \in Messages => m.of[1] \in Nat
  BY MessageFields DEF TypeInv, TypeOK, Probes
<1>e. path' = path /\ faults' = faults /\ \A q : EndOf(q)' = EndOf(q)
  BY EnvStep DEF EndOf
<1> USE <1>e
<1>1. CASE Send
  <2>1. net' = net \cup {<<ttl, probe>>} /\ icmp' = icmp /\ Row = ttl /\ Row' = ttl
    BY <1>1 DEF Send, Row
  <2> QED BY <2>1, <1>r, <1>t DEF NetInv
<1>2. ASSUME NEW q \in net, Hop(q) PROVE NetInv'
  <2>1. net' \subseteq net /\ Row' = Row
    BY <1>2 DEF Hop, Row
  <2>2. q \in Probes /\ q[1] <= Row
    BY <1>t DEF NetInv
  <2>3. \A m \in icmp' : m \in icmp \/ m = Message(path[EndOf(q)], q)
    BY <1>2 DEF Hop
  <2>4. ASSUME NEW m, m = Message(path[EndOf(q)], q)
        PROVE  m.of = q /\ m.kind = path[EndOf(q)] /\ m \notin Rivals
    <3>1. m.of = q /\ m.kind = path[EndOf(q)]
      BY <2>4, MessageFields
    <3>2. q # NotOurs
      BY <2>2, TracerouteAssumption DEF Probes, NotOurs
    <3> QED BY <3>1, <3>2, MessageFields
  <2>5. \A m \in icmp' :
          /\ m \in Messages => m.of[1] <= Row /\ m.kind = path[EndOf(m.of)]
          /\ m \in Rivals => "rival" \in faults
    BY <2>2, <2>3, <2>4 DEF NetInv
  <2> QED BY <2>1, <2>5 DEF NetInv
<1>3. CASE OthersArrive
  <2>1. /\ net' = net /\ Row' = Row
        /\ \A m \in icmp' : m \in icmp \/ m = Foreign \/ (m \in Rivals /\ "rival" \in faults)
    BY <1>3 DEF OthersArrive, Row
  <2>2. \A m \in icmp' : m \in Messages => m \in icmp
    BY <2>1, MessageFields
  <2>3. \A m \in icmp' : m \in Rivals => "rival" \in faults
    BY <2>1, MessageFields DEF NetInv
  <2> QED BY <2>1, <2>2, <2>3 DEF NetInv
<1>4. CASE net' \subseteq net /\ icmp' \subseteq icmp
  BY <1>4, <1>r, <1>t DEF NetInv
<1> QED
  <2>1. CASE Recv
    BY <2>1, <1>4 DEF Recv, Accept, Ignore, Taken
  <2>2. CASE Lose
    BY <2>2, <1>4 DEF Lose
  <2> QED
    BY <1>1, <1>2, <1>3, <1>4, <2>1, <2>2
       DEF Next, Program, StartRow, Finish, EndRow, SendError, Timeout, Network,
           Exited, vars

(* What is accepted quotes this probe's port and was sent in this row or   *)
(* before it.                                                              *)
LEMMA RowInvStep ==
    ASSUME TypeInv, NetInv, RowInv, [Next]_vars
    PROVE  RowInv'
<1>e. faults' = faults
  BY EnvStep
<1> USE TracerouteAssumption
<1>1. CASE StartRow
  <2>1. \A p \in 0..(ProbesPerHop - 1) : row'[p] = Open
    BY <1>1 DEF StartRow, EmptyRow
  <2> QED BY <2>1, Verdicts DEF RowInv, Answered
<1>2. ASSUME NEW m \in icmp, Accept(m) PROVE RowInv'
  <2>1. /\ pc = "wait" /\ m.kind \in Answers /\ m.port = Port(ttl, probe)
        /\ row' = [row EXCEPT ![probe] = Time(m)]
        /\ Row = ttl /\ Row' = ttl
    BY <1>2 DEF Accept, Matches, Row
  <2>2. /\ m \in Messages \cup Rivals
        /\ m \in Messages => m.of[1] <= Row
        /\ m \in Rivals => "rival" \in faults
    BY <2>1, MessageFields DEF NetInv, TypeInv, TypeOK
  <2>3. ASSUME NEW p \in Answered'
        PROVE  /\ row'[p].reply \in Messages \cup Rivals
               /\ row'[p].reply.port = Port(Row, p)
               /\ row'[p].reply \in Messages => row'[p].reply.of[1] <= Row
               /\ row'[p].reply \in Rivals => "rival" \in faults
    <3>1. CASE p = probe
      <4>1. row'[p] = Time(m)
        BY <2>1, <3>1 DEF Answered, TypeInv, TypeOK
      <4>2. row'[p].reply = m
        BY <4>1, Verdicts
      <4> QED BY <2>1, <2>2, <3>1, <4>2
    <3>2. CASE p # probe
      <4>1. row'[p] = row[p]
        BY <2>1, <3>2 DEF Answered, TypeInv, TypeOK
      <4> QED BY <4>1 DEF RowInv, Answered
    <3> QED BY <3>1, <3>2
  <2> QED BY <1>e, <2>1, <2>3 DEF RowInv
<1>3. CASE Timeout
  <2>1. row' = [row EXCEPT ![probe] = Star] /\ Row' = Row
    BY <1>3 DEF Timeout, Row
  <2>2. \A p \in Answered' : p \in Answered /\ row'[p] = row[p]
    BY <2>1, Verdicts DEF Answered, TypeInv, TypeOK
  <2> QED BY <1>e, <2>1, <2>2 DEF RowInv
<1>4. CASE UNCHANGED row /\ Row' = Row
  BY <1>e, <1>4 DEF RowInv, Answered
<1> QED
  <2>1. ASSUME NEW m \in icmp, Ignore(m) PROVE UNCHANGED row
    BY <2>1 DEF Ignore
  <2> QED
    BY <1>1, <1>2, <1>3, <1>4, <2>1, RowStep
       DEF Next, Program, Finish, EndRow, Send, SendError, Recv, Network, Hop,
           Lose, OthersArrive, Exited, vars

(* The flag is only ever set by an answer of the row that is printed, and  *)
(* no row follows it.                                                      *)
LEMMA StopStep ==
    ASSUME TypeInv, NetInv, RowComplete, StopIsSound, [Next]_vars
    PROVE  StopIsSound'
<1> USE TracerouteAssumption
<1>r. Row \in Nat /\ Row' \in Nat /\ (Row' = Row \/ StartRow)
  BY RowStep
<1>e. path' = path /\ faults' = faults /\ path \in Paths /\ \A q : EndOf(q)' = EndOf(q)
  BY EnvStep DEF TypeInv, TypeOK, EndOf
<1>1. CASE StartRow
  BY <1>1 DEF StartRow, RowsLeft, StopIsSound
<1>2. CASE UNCHANGED <<row, destreached>> /\ Row' = Row
  BY <1>e, <1>2 DEF StopIsSound, Answered
<1>3. ASSUME NEW v, pc = "wait", row' = [row EXCEPT ![probe] = v],
             destreached, Row' = Row
      PROVE  StopIsSound'
  <2>1. PICK p \in Answered :
            /\ row[p].reply.kind = "port"
            /\ IF row[p].reply.of = NotOurs THEN "rival" \in faults
               ELSE path[EndOf(row[p].reply.of)] = "port" /\ EndOf(row[p].reply.of) <= Row
    BY <1>3 DEF StopIsSound
  <2>2. p # probe
    BY Verdicts DEF Answered, RowComplete, TypeInv, TypeOK, LoopInv
  <2>3. row'[p] = row[p]
    BY <1>3, <2>2 DEF Answered, TypeInv, TypeOK
  <2>4. p \in Answered'
    BY <2>3 DEF Answered
  <2> QED BY <1>3, <1>e, <2>1, <2>3, <2>4 DEF StopIsSound
<1>4. ASSUME NEW m \in icmp, Accept(m), m.kind = "port" PROVE StopIsSound'
  <2>1. /\ pc = "wait" /\ m.kind \in Answers /\ row' = [row EXCEPT ![probe] = Time(m)]
        /\ Row' = Row
    BY <1>4 DEF Accept, Matches, Row
  <2>2. probe \in Answered' /\ row'[probe].reply = m
    BY <2>1, Verdicts DEF Answered, TypeInv, TypeOK, LoopInv
  <2>3. CASE m \in Rivals
    BY <1>4, <1>e, <2>2, <2>3, MessageFields DEF NetInv, StopIsSound
  <2>4. CASE m \in Messages
    <3>1. m.of[1] <= Row /\ path[EndOf(m.of)] = "port" /\ m.of \in Probes /\ m.of # NotOurs
      BY <1>4, <2>4, MessageFields DEF NetInv
    <3>2. EndOf(m.of) \in 1..Dist /\ EndOf(m.of) <= m.of[1] /\ m.of[1] \in Nat
      BY <1>e, <3>1, EndOfPath DEF Probes
    <3>3. Dist \in Nat
      BY <1>e DEF Paths, Dist
    <3>4. EndOf(m.of) <= Row
      BY <3>1, <3>2, <3>3, <1>r
    <3> QED BY <1>4, <1>e, <2>1, <2>2, <3>1, <3>4 DEF StopIsSound
  <2>5. m \in Messages \cup Rivals
    BY <2>1, MessageFields DEF TypeInv, TypeOK
  <2> QED BY <2>3, <2>4, <2>5
<1>5. ASSUME NEW m \in icmp, Accept(m), m.kind # "port" PROVE StopIsSound'
  <2>1. /\ destreached' = destreached /\ pc = "wait" /\ Row' = Row
        /\ row' = [row EXCEPT ![probe] = Time(m)]
    BY <1>5 DEF Accept, Destination, TypeInv, TypeOK, Row
  <2>2. CASE destreached
    BY <1>3, <2>1, <2>2
  <2>3. CASE ~destreached
    BY <2>1, <2>3 DEF StopIsSound
  <2> QED BY <2>2, <2>3
<1>6. CASE Timeout
  <2>1. /\ destreached' = destreached /\ pc = "wait" /\ Row' = Row
        /\ row' = [row EXCEPT ![probe] = Star]
    BY <1>6 DEF Timeout, Row
  <2>2. CASE destreached
    BY <1>3, <2>1, <2>2
  <2>3. CASE ~destreached
    BY <2>1, <2>3 DEF StopIsSound
  <2> QED BY <2>2, <2>3
<1>7. ASSUME NEW m \in icmp, Ignore(m) PROVE StopIsSound'
  BY <1>2, <1>7 DEF Ignore, Row
<1>8. CASE Finish \/ EndRow
  <2>1. Row' = Row
    BY <1>8, <1>r DEF Finish, EndRow, StartRow
  <2> QED BY <1>2, <1>8, <2>1 DEF Finish, EndRow
<1>9. CASE Send \/ SendError \/ Network \/ Lose \/ OthersArrive \/ Exited \/ UNCHANGED vars
  BY <1>2, <1>9 DEF Send, SendError, Network, Hop, Lose, OthersArrive, Exited, vars, Row
<1> QED
  BY <1>1, <1>4, <1>5, <1>6, <1>7, <1>8, <1>9 DEF Next, Program, Recv

(* The conjuncts that are kept together.                                   *)
LEMMA Invariance == Spec => []IInv
<1>1. Init => IInv
  <2> SUFFICES ASSUME Init PROVE IInv
    OBVIOUS
  <2>1. \A p \in 0..(ProbesPerHop - 1) : row[p] = Open
    BY DEF Init, EmptyRow
  <2> QED
    BY <2>1, Verdicts
       DEF Init, IInv, RowComplete, NetInv, RowInv, StopIsSound, Answered
<1>2. IInv /\ TypeInv /\ [Next]_vars => IInv'
  BY RowCompleteStep, NetStep, RowInvStep, StopStep DEF IInv
<1>3. Spec => []TypeInv
  BY TypeCorrect DEF TypeInv
<1>4. QED BY <1>1, <1>2, <1>3, PTL DEF Spec

(* The ports DESTPORT + ttl + probe of q3traceroute.c:87 are reused from   *)
(* row to row, but a time never answers a probe ProbesPerHop or more rows  *)
(* away, nor one that was sent later, and the answer to another program's  *)
(* probe only when that probe went to the very port.                       *)
THEOREM AttributionCorrect == Spec => []AttributionBound
<1>1. IInv /\ TypeInv => AttributionBound
  <2> SUFFICES ASSUME IInv, TypeInv, NEW p \in Answered
               PROVE  /\ row[p].reply.port = Port(Row, p)
                      /\ IF row[p].reply.of = NotOurs THEN "rival" \in faults
                         ELSE /\ row[p].reply.of[1] \in (Row - (ProbesPerHop - 1))..Row
                              /\ row[p].reply.of[1] + row[p].reply.of[2] = Row + p
    BY DEF AttributionBound
  <2> DEFINE m == row[p].reply
             q == m.of
  <2>1. /\ m \in Messages \cup Rivals /\ m.port = Port(Row, p)
        /\ m \in Messages => q[1] <= Row
        /\ m \in Rivals => "rival" \in faults
    BY DEF IInv, RowInv
  <2>2. CASE m \in Rivals
    BY <2>1, <2>2, MessageFields
  <2>3. CASE m \in Messages
    <3>1. q \in Probes /\ q # NotOurs /\ Port(q[1], q[2]) = Port(Row, p)
      BY <2>1, <2>3, MessageFields
    <3>2. /\ q[1] \in Nat /\ q[2] \in 0..(ProbesPerHop - 1)
          /\ p \in 0..(ProbesPerHop - 1) /\ Row \in Int
      BY <3>1 DEF Probes, Answered, Row, TypeInv, TypeOK
    <3>3. q[1] <= Row
      BY <2>1, <2>3
    <3> HIDE DEF q
    <3>4. q[1] + q[2] = Row + p
      <4>1. PICK t \in Nat, k \in Nat : t = q[1] /\ k = q[2]
        BY <3>2, TracerouteAssumption
      <4>2. 33434 + t + k = 33434 + Row + p
        BY <3>1, <4>1 DEF Port
      <4> QED BY <3>2, <4>1, <4>2
    <3>5. q[1] \in (Row - (ProbesPerHop - 1))..Row
      BY <3>2, <3>3, <3>4, TracerouteAssumption
    <3> QED BY <2>1, <3>1, <3>4, <3>5 DEF q
  <2> QED BY <2>1, <2>2, <2>3
<1>2. Spec => []TypeInv
  BY TypeCorrect DEF TypeInv
<1>3. QED BY <1>1, <1>2, Invariance, PTL

(* destreached (q3traceroute.c:144-146) ends the trace only in a row that  *)
(* prints a port unreachable, and one that a hop within the rows traced    *)
(* sent, unless another program's probe of the same port provoked it.      *)
THEOREM StopCorrect == Spec => []StopIsSound
BY Invariance, PTL DEF IInv

(* Every probe of a row that is over is printed exactly once, as a time or *)
(* as a star.                                                              *)
THEOREM RowCorrect == Spec => []RowComplete
BY Invariance, PTL DEF IInv

-----------------------------------------------------------------------------
(* Without late and duplicated messages, and other traces on its ports,    *)
(* only the probe of this moment is under way, or its answer is.           *)
Punctual == faults \cap {"late", "dup", "rival"} = {}

OneProbe ==
    /\ \A q \in net : pc = "wait" /\ q = <<ttl, probe>>
    /\ \A m \in icmp \ {Foreign} : pc = "wait" /\ m.of = <<ttl, probe>> /\ net = {}
    /\ \A m, n \in icmp \ {Foreign} : m = n

ExactInv == OneProbe /\ \A p \in Answered : row[p].reply.of = <<Row, p>>

(* Without losses either, a probe that does not end at a silent hop is on  *)
(* its way, or its answer is.                                              *)
Reliable == faults \subseteq {"foreign"}

UnderWay ==
    LET q == <<ttl, probe>>
    IN pc = "wait" /\ path[EndOf(q)] # "silent" =>
          q \in net \/ Message(path[EndOf(q)], q) \in icmp

(* So the rows behind the program have no port unreachable in them, and    *)
(* the row it is in has set the flag if its hop answers with one.          *)
DestinationInv ==
    /\ \A h \in 1..Dist : path[h] = "port" => h >= Row
    /\ destreached => Row <= Dist /\ path[Row] = "port"
    /\ probe > 0 /\ Row <= Dist /\ path[Row] = "port" => destreached
    /\ pc = "done" => destreached \/ Row = MaxHops
    /\ pc \in {"row", "done"} /\ probe = 0 => pc = "row" /\ ttl = 1 /\ ~destreached

LEMMA OneProbeStep ==
    ASSUME TypeInv, Punctual, OneProbe, [Next]_vars
    PROVE  OneProbe'
<1>1. CASE Send
  <2>1. net' = {<<ttl, probe>>} /\ icmp' = icmp /\ icmp \ {Foreign} = {}
        /\ pc' = "wait" /\ UNCHANGED <<ttl, probe>>
    BY <1>1 DEF Send, OneProbe
  <2> QED BY <2>1 DEF OneProbe
<1>2. ASSUME NEW q \in net, Hop(q) PROVE OneProbe'
  <2>1. /\ q = <<ttl, probe>> /\ pc = "wait" /\ net' = {} /\ icmp \ {Foreign} = {}
        /\ UNCHANGED <<pc, ttl, probe>>
    BY <1>2 DEF Hop, OneProbe, Punctual
  <2>2. icmp' \subseteq icmp \cup {Message(path[EndOf(q)], q)}
    BY <1>2 DEF Hop
  <2>3. \A m \in icmp' \ {Foreign} : m = Message(path[EndOf(q)], q)
    BY <2>1, <2>2
  <2>4. Message(path[EndOf(q)], q).of = q
    BY MessageFields
  <2> QED BY <2>1, <2>3, <2>4 DEF OneProbe
<1>3. ASSUME NEW m \in icmp, Accept(m) PROVE OneProbe'
  <2>1. m # Foreign
    BY <1>3, MessageFields DEF Accept, Matches
  <2>2. net' = {} /\ icmp' \ {Foreign} = {}
    BY <1>3, <2>1 DEF Accept, Taken, OneProbe, Punctual
  <2> QED BY <2>2 DEF OneProbe
<1>4. CASE Timeout
  <2>1. net' = {} /\ icmp' = {}
    BY <1>4 DEF Timeout, Punctual
  <2> QED BY <2>1 DEF OneProbe
<1>5. CASE OthersArrive
  <2>1. net' = net /\ icmp' \ {Foreign} = icmp \ {Foreign} /\ UNCHANGED <<pc, ttl, probe>>
    BY <1>5 DEF OthersArrive, Punctual
  <2> QED BY <2>1 DEF OneProbe
<1>6. CASE net' \subseteq net /\ icmp' \subseteq icmp /\ UNCHANGED <<pc, ttl, probe>>
  BY <1>6 DEF OneProbe
<1>7. CASE pc # "wait" /\ UNCHANGED <<net, icmp>>
  BY <1>7 DEF OneProbe
<1>8. CASE Recv
  BY <1>3, <1>6, <1>8 DEF Recv, Ignore, Taken
<1>9. CASE Lose
  BY <1>6, <1>9 DEF Lose
<1> QED
  BY <1>1, <1>2, <1>4, <1>5, <1>6, <1>7, <1>8, <1>9
     DEF Next, Program, StartRow, Finish, EndRow, SendError, Network, Exited, vars

LEMMA ExactStep ==
    ASSUME TypeInv, Punctual, ExactInv, [Next]_vars
    PROVE  ExactInv'
<1> USE TracerouteAssumption
<1>0. OneProbe'
  BY OneProbeStep DEF ExactInv
<1>1. CASE StartRow
  <2>1. \A p \in 0..(ProbesPerHop - 1) : row'[p] = Open
    BY <1>1 DEF StartRow, EmptyRow
  <2> QED BY <1>0, <2>1, Verdicts DEF ExactInv, Answered
<1>2. ASSUME NEW m \in icmp, Accept(m) PROVE ExactInv'
  <2>1. /\ m.of = <<ttl, probe>> /\ row' = [row EXCEPT ![probe] = Time(m)]
        /\ Row = ttl /\ Row' = ttl
    BY <1>2, MessageFields DEF Accept, Matches, Row, ExactInv, OneProbe
  <2>2. ASSUME NEW p \in Answered' PROVE row'[p].reply.of = <<Row', p>>
    <3>1. CASE p = probe
      <4>1. row'[p] = Time(m)
        BY <2>1, <3>1 DEF Answered, TypeInv, TypeOK
      <4> QED BY <2>1, <3>1, <4>1, Verdicts
    <3>2. CASE p # probe
      <4>1. row'[p] = row[p] /\ p \in Answered
        BY <2>1, <3>2 DEF Answered, TypeInv, TypeOK
      <4> QED BY <2>1, <4>1 DEF ExactInv
    <3> QED BY <3>1, <3>2
  <2> QED BY <1>0, <2>2 DEF ExactInv
<1>3. CASE Timeout
  <2>1. row' = [row EXCEPT ![probe] = Star] /\ Row' = Row
    BY <1>3 DEF Timeout, Row
  <2>2. \A p \in Answered' : p \in Answered /\ row'[p] = row[p]
    BY <2>1, Verdicts DEF Answered, TypeInv, TypeOK
  <2> QED BY <1>0, <2>1, <2>2 DEF ExactInv
<1>4. CASE UNCHANGED row /\ Row' = Row
  BY <1>0, <1>4 DEF ExactInv, Answered
<1>5. ASSUME NEW m \in icmp, Ignore(m) PROVE UNCHANGED row
  BY <1>5 DEF Ignore
<1> QED
  BY <1>1, <1>2, <1>3, <1>4, <1>5, RowStep
     DEF Next, Program, Finish, EndRow, Send, SendError, Recv, Network, Hop,
         Lose, OthersArrive, Exited, vars

(* What may go wrong never changes.                                        *)
LEMMA ExactInvariance == Spec => [](Punctual => ExactInv)
<1>1. Init => ExactInv
  <2> SUFFICES ASSUME Init PROVE ExactInv
    OBVIOUS
  <2>1. \A p \in 0..(ProbesPerHop - 1) : row[p] = Open
    BY DEF Init, EmptyRow
  <2> QED BY <2>1, Verdicts DEF Init, ExactInv, OneProbe, Answered
<1>2. (Punctual => ExactInv) /\ TypeInv /\ [Next]_vars => (Punctual => ExactInv)'
  BY ExactStep, EnvStep DEF Punctual
<1>3. Spec => []TypeInv
  BY TypeCorrect DEF TypeInv
<1> QED BY <1>1, <1>2, <1>3, PTL DEF Spec

(* Where no message outlives SO_RCVTIMEO, none is duplicated and no other  *)
(* program probes the same ports, comparing the quoted port alone is       *)
(* enough: every time printed is that of its probe (q3traceroute.c:122),   *)
(* for any number of rows, probes and hops.                                *)
THEOREM ExactCorrect == Spec => []ExactWhenInTime
<1>1. (Punctual => ExactInv) => ExactWhenInTime
  BY DEF Punctual, ExactInv, ExactWhenInTime
<1> QED BY <1>1, ExactInvariance, PTL

-----------------------------------------------------------------------------
(* The destination.                                                        *)
LEMMA UnderWayStep ==
    ASSUME TypeInv, Reliable, NetInv, OneProbe, UnderWay, [Next]_vars
    PROVE  UnderWay'
<1> DEFINE q == <<ttl, probe>>
<1>e. path' = path /\ \A r : EndOf(r)' = EndOf(r)
  BY EnvStep DEF EndOf
<1>f. "late" \notin faults /\ "dup" \notin faults /\ "loss" \notin faults
  BY DEF Reliable
<1>1. CASE Send
  <2>1. q \in net' /\ UNCHANGED <<ttl, probe>>
    BY <1>1 DEF Send
  <2> QED BY <1>e, <2>1 DEF UnderWay
<1>2. ASSUME NEW r \in net, Hop(r) PROVE UnderWay'
  <2>1. r = q /\ UNCHANGED <<ttl, probe>>
    BY <1>2 DEF Hop, OneProbe
  <2>2. path[EndOf(q)] # "silent" => Message(path[EndOf(q)], q) \in icmp'
    BY <1>2, <2>1 DEF Hop
  <2> QED BY <1>e, <2>1, <2>2 DEF UnderWay
<1>3. CASE pc' # "wait"
  BY <1>3 DEF UnderWay
<1>4. ASSUME NEW m \in icmp, Ignore(m) PROVE UnderWay'
  <2>1. ~Matches(m) /\ icmp' = icmp \ {m} /\ UNCHANGED <<pc, ttl, probe, net>>
    BY <1>4, <1>f DEF Ignore, Taken
  <2>2. m = Foreign \/ m \in Messages
    BY DEF TypeInv, TypeOK, NetInv, Reliable
  <2>3. m \notin Messages
    <3>1. ASSUME m \in Messages PROVE Matches(m)
      <4>1. m # Foreign /\ m.kind \in Answers /\ m.port = Port(m.of[1], m.of[2])
        BY <3>1, MessageFields
      <4>2. m.of = <<ttl, probe>>
        BY <4>1 DEF OneProbe
      <4> QED BY <4>1, <4>2 DEF Matches
    <3> QED BY <2>1, <3>1
  <2>4. pc = "wait" /\ path[EndOf(q)] # "silent" => Message(path[EndOf(q)], q) # m
    <3> SUFFICES ASSUME pc = "wait", path[EndOf(q)] # "silent"
                 PROVE  Message(path[EndOf(q)], q) \in Messages
      BY <2>3
    <3>1. q \in Probes
      BY TracerouteAssumption DEF TypeInv, TypeOK, LoopInv, Probes
    <3> QED BY <3>1, EndOfPath, MessageFields DEF TypeInv, TypeOK
  <2> QED BY <1>e, <2>1, <2>4 DEF UnderWay
<1>5. CASE OthersArrive
  BY <1>e, <1>5 DEF OthersArrive, UnderWay
<1>6. CASE UNCHANGED vars
  BY <1>e, <1>6 DEF vars, UnderWay
<1> QED
  BY <1>1, <1>2, <1>3, <1>4, <1>5, <1>6, <1>f
     DEF Next, Program, StartRow, Finish, EndRow, SendError, Recv, Accept, Timeout,
         Network, Lose, Exited, vars

LEMMA DestinationStep ==
    ASSUME TypeInv, Reliable, OneProbe, UnderWay, NetInv, DestinationInv, [Next]_vars
    PROVE  DestinationInv'
<1>e. path' = path /\ Dist' = Dist /\ Dist \in Nat /\ path \in Paths
  BY EnvStep DEF TypeInv, TypeOK, Dist, Paths
<1>n. /\ ttl \in Nat /\ ttl >= 1 /\ probe \in Nat /\ Row \in Nat
      /\ MaxHops \in Nat /\ MaxHops >= 1 /\ ProbesPerHop \in Nat /\ ProbesPerHop >= 1
  BY TracerouteAssumption, RowStep DEF TypeInv, TypeOK
<1>1. CASE StartRow
  <2>1. /\ pc = "row" /\ ~destreached /\ UNCHANGED <<ttl, destreached>>
        /\ probe' = 0 /\ pc' = "probe" /\ Row' = ttl
    BY <1>1 DEF StartRow, RowsLeft, Row
  <2>2. \A h \in 1..Dist : path[h] = "port" => h >= ttl
    <3>1. CASE probe = 0
      BY <2>1, <3>1 DEF DestinationInv, Row
    <3>2. CASE probe # 0
      <4>1. Row = ttl - 1 /\ probe > 0
        BY <1>n, <2>1, <3>2 DEF Row
      <4>2. \A h \in 1..Dist : path[h] = "port" => h >= Row /\ h # Row
        BY <1>n, <2>1, <4>1 DEF DestinationInv
      <4> QED BY <1>n, <1>e, <4>1, <4>2
    <3> QED BY <3>1, <3>2
  <2> QED BY <1>e, <2>1, <2>2 DEF DestinationInv
<1>2. CASE Finish
  <2>1. /\ pc = "row" /\ pc' = "done" /\ UNCHANGED <<ttl, probe, destreached>> /\ Row' = Row
        /\ ~(ttl <= MaxHops /\ ~destreached)
    BY <1>2 DEF Finish, RowsLeft, Row
  <2>2. destreached \/ (ttl = MaxHops + 1 /\ probe # 0)
    BY <1>n, <2>1 DEF DestinationInv, TypeInv, TypeOK
  <2>3. destreached \/ Row = MaxHops
    BY <1>n, <2>1, <2>2 DEF Row
  <2>4. probe # 0
    BY <2>1, <2>2 DEF DestinationInv
  <2> QED BY <1>e, <2>1, <2>3, <2>4 DEF DestinationInv
<1>3. CASE EndRow
  <2>1. /\ pc = "probe" /\ pc' = "row" /\ ttl' = ttl + 1 /\ UNCHANGED <<probe, destreached>>
        /\ probe # 0 /\ Row = ttl /\ Row' = ttl
    BY <1>n, <1>3 DEF EndRow, Row
  <2> QED BY <1>e, <2>1 DEF DestinationInv
<1>4. CASE Send \/ SendError
  <2>1. /\ pc = "probe" /\ pc' \in {"wait", "error"} /\ UNCHANGED <<ttl, probe, destreached>>
        /\ Row' = Row
    BY <1>4 DEF Send, SendError, Row
  <2> QED BY <1>e, <2>1 DEF DestinationInv
<1>5. ASSUME NEW m \in icmp, Accept(m) PROVE DestinationInv'
  <2>1. /\ pc = "wait" /\ pc' = "probe" /\ ttl' = ttl /\ probe' = probe + 1
        /\ Row = ttl /\ Row' = ttl /\ m.kind \in Answers
        /\ destreached' = (destreached \/ m.kind = "port")
    BY <1>5 DEF Accept, Matches, Destination, Row
  <2>2. m.of = <<ttl, probe>> /\ m.kind = path[EndOf(m.of)]
    BY <1>5, <2>1, MessageFields DEF OneProbe, NetInv, TypeInv, TypeOK, Reliable
  <2>3. EndOf(m.of) = IF ttl < Dist THEN ttl ELSE Dist
    BY <2>2 DEF EndOf
  <2>4. m.kind = "port" => ttl <= Dist /\ path[ttl] = "port"
    <3> SUFFICES ASSUME m.kind = "port" PROVE ttl <= Dist /\ path[ttl] = "port"
      OBVIOUS
    <3>1. Dist \in 1..Dist
      BY <1>e DEF Paths, Dist
    <3>2. ttl > Dist => path[Dist] = "port"
      BY <1>e, <1>n, <2>2, <2>3
    <3>3. ttl <= Dist
      BY <1>e, <1>n, <2>1, <3>1, <3>2 DEF DestinationInv
    <3> QED BY <1>e, <1>n, <2>2, <2>3, <3>3
  <2>5. ttl <= Dist /\ path[ttl] = "port" => m.kind = "port"
    BY <1>e, <1>n, <2>2, <2>3
  <2>6. destreached' => ttl <= Dist /\ path[ttl] = "port"
    BY <2>1, <2>4 DEF DestinationInv, TypeInv, TypeOK
  <2>7. ttl <= Dist /\ path[ttl] = "port" => destreached'
    BY <2>1, <2>5
  <2> QED BY <1>e, <2>1, <2>6, <2>7 DEF DestinationInv
<1>6. CASE Timeout
  <2>1. /\ pc = "wait" /\ pc' = "probe" /\ UNCHANGED <<ttl, destreached>> /\ probe' = probe + 1
        /\ Row = ttl /\ Row' = ttl /\ net = {} /\ icmp = {}
    BY <1>6 DEF Timeout, Row, Reliable
  <2>2. path[EndOf(<<ttl, probe>>)] = "silent"
    BY <2>1 DEF UnderWay
  <2>3. ttl <= Dist => path[ttl] = "silent"
    BY <1>e, <1>n, <2>2 DEF EndOf
  <2> QED BY <1>e, <2>1, <2>3 DEF DestinationInv
<1>7. CASE UNCHANGED <<pc, ttl, probe, destreached>>
  BY <1>7, <1>e DEF DestinationInv, Row
<1> QED
  BY <1>1, <1>2, <1>3, <1>4, <1>5, <1>6, <1>7
     DEF Next, Program, Recv, Ignore, Network, Hop, Lose, OthersArrive, Exited, vars

(* On a path without loss, delay and duplication, and when nothing else    *)
(* probes the ports of the trace, it ends in the row of the first hop that *)
(* sends a port unreachable (q3traceroute.c:144-146), or in row MAXHOPS.   *)
THEOREM DestinationCorrect == Spec => []StopsAtDestination
<1>1. Init => UnderWay /\ DestinationInv
  <2> SUFFICES ASSUME Init PROVE UnderWay /\ DestinationInv
    OBVIOUS
  <2>1. Row = 1
    BY DEF Init, Row
  <2> QED BY <2>1 DEF Init, UnderWay, DestinationInv
<1>2. /\ Reliable => UnderWay /\ DestinationInv
      /\ Punctual => ExactInv
      /\ TypeInv /\ IInv /\ [Next]_vars
      => (Reliable => UnderWay /\ DestinationInv)'
  <2> SUFFICES ASSUME Reliable => UnderWay /\ DestinationInv, Punctual => ExactInv,
                      TypeInv, IInv, [Next]_vars, Reliable'
               PROVE  UnderWay' /\ DestinationInv'
    OBVIOUS
  <2>1. Reliable /\ Punctual
    BY EnvStep DEF Reliable, Punctual
  <2>2. OneProbe /\ NetInv
    BY <2>1 DEF ExactInv, IInv
  <2> QED BY <2>1, <2>2, UnderWayStep, DestinationStep
<1>3. (Reliable => UnderWay /\ DestinationInv) /\ TypeInv => StopsAtDestination
  <2> SUFFICES ASSUME DestinationInv, TypeInv, pc = "done"
               PROVE  IF PortHops = {} THEN Row = MaxHops
                      ELSE Row \in PortHops /\ \A h \in PortHops : Row <= h
    BY DEF Reliable, StopsAtDestination
  <2>1. Row \in 1..MaxHops /\ probe > 0
    BY TracerouteAssumption DEF DestinationInv, TypeInv, TypeOK, LoopInv, Row
  <2>2. Dist \in Nat
    BY DEF TypeInv, TypeOK, Paths, Dist
  <2>3. CASE destreached
    <3>1. Row \in PortHops
      BY <2>1, <2>2, <2>3, TracerouteAssumption DEF DestinationInv, PortHops
    <3>2. \A h \in PortHops : Row <= h
      BY DEF DestinationInv, PortHops
    <3> QED BY <3>1, <3>2
  <2>4. CASE ~destreached
    <3>1. Row = MaxHops
      BY <2>4 DEF DestinationInv
    <3>2. PortHops = {}
      <4> SUFFICES ASSUME NEW h \in PortHops PROVE FALSE
        OBVIOUS
      <4>1. h \in 1..Dist /\ path[h] = "port" /\ h <= MaxHops /\ h >= Row
        BY DEF PortHops, DestinationInv
      <4>2. h = Row
        BY <2>1, <2>2, <3>1, <4>1
      <4> QED BY <2>1, <2>2, <2>4, <4>1, <4>2 DEF DestinationInv
    <3> QED BY <3>1, <3>2
  <2> QED BY <2>3, <2>4
<1>4. Spec => []TypeInv
  BY TypeCorrect DEF TypeInv
<1> QED BY <1>1, <1>2, <1>3, <1>4, ExactInvariance, Invariance, PTL DEF Spec
=============================================================================
