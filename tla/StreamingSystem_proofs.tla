----------------------- MODULE StreamingSystem_proofs -----------------------
(***************************************************************************)
(* What holds of the video stream alone, for every set of viewers, and of  *)
(* resolver and stream together, for every set of viewers, every content   *)
(* of the records and every fault.                                         *)
(***************************************************************************)
EXTENDS StreamingSystem, SequenceTheorems, TLAPS

-----------------------------------------------------------------------------
(* What the queue operations do to the datagrams of a viewer.              *)
LEMMA QueuedAfterTail ==
    ASSUME TypeOK, sockq # <<>>, sockq' = Tail(sockq)
    PROVE  /\ Head(sockq) \in Clients
           /\ \A c : c # Head(sockq) /\ Queued(c) = {} => Queued(c)' = {}
           /\ \A c : \A k \in Queued(c)' : k + 1 \in Queued(c) /\ k \in Nat \ {0}
           /\ 1 \in Queued(Head(sockq))
<1>1. /\ Len(sockq) \in Nat \ {0} /\ Head(sockq) = sockq[1] /\ Head(sockq) \in Clients
      /\ Len(sockq') = Len(sockq) - 1
      /\ \A k \in 1..Len(sockq') : sockq'[k] = sockq[k + 1]
  BY HeadTailProperties, EmptySeq DEF TypeOK
<1>2. \A c : \A k \in Queued(c)' : k + 1 \in Queued(c) /\ k \in Nat \ {0}
  BY <1>1 DEF Queued
<1>3. \A c : Queued(c) = {} => Queued(c)' = {}
  BY <1>2
<1>4. 1 \in Queued(Head(sockq))
  BY <1>1 DEF Queued
<1> QED BY <1>1, <1>2, <1>3, <1>4

LEMMA QueuedAfterAppend ==
    ASSUME TypeOK, NEW d \in Clients,
           sockq' = Append(sockq, d) \/ sockq' = sockq
    PROVE  /\ \A c : c # d => Queued(c)' = Queued(c)
           /\ Queued(d) = {} => \A j, k \in Queued(d)' : j = k
           /\ sockq' \in Seq(Clients)
<1>1. CASE sockq' = sockq
  BY <1>1 DEF Queued, TypeOK
<1>2. CASE sockq' = Append(sockq, d)
  <2>1. /\ Len(sockq) \in Nat /\ Len(sockq') = Len(sockq) + 1
        /\ \A k \in 1..Len(sockq) : sockq'[k] = sockq[k]
        /\ sockq'[Len(sockq) + 1] = d
        /\ sockq' \in Seq(Clients)
    BY <1>2, AppendProperties DEF TypeOK
  <2>2. \A k \in 1..Len(sockq') : k \in 1..Len(sockq) \/ k = Len(sockq) + 1
    BY <2>1
  <2>3. \A c : c # d => Queued(c)' = Queued(c)
    BY <2>1, <2>2 DEF Queued
  <2>4. Queued(d) = {} => \A k \in Queued(d)' : k = Len(sockq) + 1
    BY <2>1, <2>2 DEF Queued
  <2> QED BY <2>1, <2>3, <2>4
<1> QED BY <1>1, <1>2

-----------------------------------------------------------------------------
(* One step of anything keeps the types.                                   *)
LEMMA TypeStep == TypeOK /\ [Next]_vars => TypeOK'
<1> SUFFICES ASSUME TypeOK, [Next]_vars PROVE TypeOK'
  OBVIOUS
<1> USE VideoAssumption
<1>1. ASSUME NEW c \in Clients, SendAlive(c) PROVE TypeOK'
  BY <1>1 DEF SendAlive, TypeOK
<1>2. ASSUME NEW c \in Clients, ShowFrame(c) PROVE TypeOK'
  BY <1>2 DEF ShowFrame, FrameWaits, TypeOK
<1>3. ASSUME NEW c \in Clients, PressX(c) PROVE TypeOK'
  BY <1>3 DEF PressX, TypeOK
<1>4. CASE ServerRecv
  BY <1>4, HeadTailProperties DEF ServerRecv, TypeOK
<1>5. CASE ServerReply
  BY <1>5 DEF ServerReply, Addressee, TypeOK
<1>6. CASE ServerSkip
  BY <1>6 DEF ServerSkip, TypeOK
<1>7. ASSUME NEW c \in Clients, Arrive(c) PROVE TypeOK'
  <2>1. sockq' = Append(sockq, c) \/ sockq' = sockq
    BY <1>7 DEF Arrive
  <2>2. sockq' \in Seq(Clients)
    BY <2>1, QueuedAfterAppend
  <2>3. alive' \in [Clients -> Nat] /\ dups' \in Nat
    <3>1. alive[c] - 1 \in Nat
      BY <1>7 DEF Arrive, TypeOK
    <3>2. alive' = [alive EXCEPT ![c] = @ - 1] \/ alive' = alive
      BY <1>7 DEF Arrive
    <3>3. dups' = dups + 1 \/ dups' = dups
      BY <1>7 DEF Arrive
    <3>4. alive' \in [Clients -> Nat]
      BY <3>1, <3>2 DEF TypeOK
    <3>5. dups' \in Nat
      BY <3>3 DEF TypeOK
    <3> QED BY <3>4, <3>5
  <2>4. UNCHANGED <<faults, cpc, key, srv, frames>>
    BY <1>7 DEF Arrive
  <2> QED BY <2>2, <2>3, <2>4 DEF TypeOK
<1>8. ASSUME NEW c \in Clients, Lose(c) PROVE TypeOK'
  <2>1. \/ alive[c] - 1 \in Nat /\ alive' = [alive EXCEPT ![c] = @ - 1] /\ frames' = frames
        \/ frames[c] - 1 \in Nat /\ frames' = [frames EXCEPT ![c] = @ - 1] /\ alive' = alive
    BY <1>8 DEF Lose, TypeOK
  <2>2. alive' \in [Clients -> Nat] /\ frames' \in [Clients -> Nat]
    BY <2>1 DEF TypeOK
  <2>3. UNCHANGED <<faults, cpc, key, sockq, srv, dups>>
    BY <1>8 DEF Lose
  <2> QED BY <2>2, <2>3 DEF TypeOK
<1>9. CASE UNCHANGED vars
  BY <1>9 DEF vars, TypeOK
<1> QED
  BY <1>1, <1>2, <1>3, <1>4, <1>5, <1>6, <1>7, <1>8, <1>9
     DEF Next, Server, Viewer, ServerTimeout

(* Type correctness, for every set of viewers.                             *)
THEOREM TypeCorrect == Spec => []TypeOK
<1>1. Init => TypeOK
  BY VideoAssumption DEF Init, TypeOK
<1>2. QED BY <1>1, TypeStep, PTL DEF Spec

-----------------------------------------------------------------------------
(* A starved viewer stays starved (client.cpp:100-116): it is in recvfrom, *)
(* which has no timer, and nothing that could wake it is left.             *)
LEMMA StarvedStep ==
    ASSUME TypeOK, [Next]_vars, NEW c \in Clients, Starved(c)
    PROVE  Starved(c)'
<1> USE VideoAssumption DEF Starved, NothingFor, TypeOK
<1>1. ASSUME NEW d \in Clients, SendAlive(d) \/ ShowFrame(d) \/ PressX(d) \/ Lose(d)
      PROVE  Starved(c)'
  <2>1. cpc[c]' = cpc[c] /\ alive[c]' = 0 /\ frames[c]' = 0 /\ UNCHANGED <<srv, sockq>>
    BY <1>1 DEF SendAlive, ShowFrame, FrameWaits, PressX, Lose
  <2> QED BY <2>1 DEF Queued
<1>2. ASSUME NEW d \in Clients, Arrive(d) PROVE Starved(c)'
  <2>1. c # d /\ alive[c]' = 0 /\ UNCHANGED <<cpc, frames, srv>>
    BY <1>2 DEF Arrive
  <2>2. sockq' = Append(sockq, d) \/ sockq' = sockq
    BY <1>2 DEF Arrive
  <2>3. Queued(c)' = {}
    BY <2>1, <2>2, QueuedAfterAppend
  <2> QED BY <2>1, <2>3
<1>3. CASE ServerRecv
  <2>1. sockq # <<>> /\ sockq' = Tail(sockq) /\ srv' = Head(sockq)
        /\ UNCHANGED <<cpc, alive, frames>>
    BY <1>3 DEF ServerRecv
  <2>2. Head(sockq) # c
    BY <2>1, QueuedAfterTail
  <2>3. Queued(c)' = {}
    BY <2>1, <2>2, QueuedAfterTail
  <2> QED BY <2>1, <2>2, <2>3
<1>4. CASE ServerReply \/ ServerSkip
  <2>1. cpc[c]' = cpc[c] /\ alive[c]' = 0 /\ frames[c]' = 0 /\ srv' = Nobody
        /\ UNCHANGED sockq
    BY <1>4 DEF ServerReply, Addressee, ServerSkip
  <2> QED BY <2>1 DEF Queued
<1>5. CASE UNCHANGED vars
  BY <1>5 DEF vars, Queued
<1> QED
  BY <1>1, <1>2, <1>3, <1>4, <1>5 DEF Next, Server, Viewer, ServerTimeout

(* ... in every step of the stream, so for ever.                           *)
THEOREM StarvedForEver == Spec => NoRecovery
<1>1. TypeOK /\ [Next]_vars => [\A c \in Clients : Starved(c) => Starved(c)']_vars
  BY StarvedStep
<1>2. QED BY <1>1, TypeCorrect, PTL DEF Spec, NoRecovery

-----------------------------------------------------------------------------
(* What OneOutstanding says of one viewer.                                 *)
One(c) ==
    /\ alive[c] + frames[c] <= 1
    /\ alive[c] + frames[c] = 1 => srv # c /\ Queued(c) = {}
    /\ srv = c => Queued(c) = {}
    /\ \A j, k \in Queued(c) : j = k
    /\ cpc[c] # "recv" => NothingFor(c)

(* A step that leaves the datagrams of c where they are keeps One(c).      *)
LEMMA OneUntouched ==
    ASSUME NEW c \in Clients, One(c),
           alive[c]' = alive[c], frames[c]' = frames[c], cpc[c]' = cpc[c],
           srv' = c <=> srv = c, Queued(c)' = Queued(c)
    PROVE  One(c)'
BY DEF One, NothingFor

(* One step of anything keeps One, when the network makes no copies.       *)
LEMMA OneStep ==
    ASSUME "dup" \notin faults, TypeOK, [Next]_vars, NEW c \in Clients, One(c)
    PROVE  One(c)'
<1> USE VideoAssumption
<1>t. /\ alive[c] \in Nat /\ frames[c] \in Nat
      /\ \A d \in Clients : alive[d] \in Nat /\ frames[d] \in Nat
  BY DEF TypeOK
<1>1. ASSUME NEW d \in Clients, SendAlive(d) PROVE One(c)'
  <2>1. CASE d = c
    <3>1. NothingFor(c)
      BY <1>1, <2>1 DEF SendAlive, One
    <3>2. /\ alive[c]' = 1 /\ frames[c]' = 0 /\ srv' # c /\ Queued(c)' = {}
          /\ cpc[c]' = "recv"
      BY <1>1, <2>1, <3>1 DEF SendAlive, NothingFor, TypeOK, Queued
    <3> QED BY <3>2 DEF One
  <2>2. CASE d # c
    BY <1>1, <2>2, OneUntouched DEF SendAlive, TypeOK, Queued
  <2> QED BY <2>1, <2>2
<1>2. ASSUME NEW d \in Clients, ShowFrame(d) PROVE One(c)'
  <2>1. CASE d = c
    <3>1. frames[c] = 1 /\ alive[c] = 0 /\ srv # c /\ Queued(c) = {}
      BY <1>2, <1>t, <2>1 DEF ShowFrame, FrameWaits, One
    <3>2. alive[c]' = 0 /\ frames[c]' = 0 /\ srv' # c /\ Queued(c)' = {}
      BY <1>2, <2>1, <3>1 DEF ShowFrame, TypeOK, Queued
    <3> QED BY <3>2 DEF One, NothingFor
  <2>2. CASE d # c
    BY <1>2, <2>2, OneUntouched DEF ShowFrame, TypeOK, Queued
  <2> QED BY <2>1, <2>2
<1>3. ASSUME NEW d \in Clients, PressX(d) PROVE One(c)'
  BY <1>3, OneUntouched DEF PressX, Queued
<1>4. CASE ServerRecv
  <2>1. /\ srv = Nobody /\ sockq # <<>> /\ sockq' = Tail(sockq) /\ srv' = Head(sockq)
        /\ UNCHANGED <<cpc, alive, frames>>
    BY <1>4 DEF ServerRecv
  <2>2. CASE Head(sockq) = c
    <3>1. 1 \in Queued(c)
      BY <2>1, <2>2, QueuedAfterTail
    <3>2. alive[c] + frames[c] = 0 /\ cpc[c] = "recv"
      BY <1>t, <3>1 DEF One, NothingFor
    <3>3. \A k \in Queued(c) : k = 1
      BY <3>1 DEF One
    <3>4. Queued(c)' = {}
      BY <2>1, <3>3, QueuedAfterTail
    <3> QED BY <1>t, <2>1, <3>2, <3>4 DEF One
  <2>3. CASE Head(sockq) # c
    <3>1. Queued(c) = {} => Queued(c)' = {}
      BY <2>1, <2>3, QueuedAfterTail
    <3>2. \A j, k \in Queued(c)' : j + 1 = k + 1 /\ j \in Nat /\ k \in Nat
      BY <2>1, QueuedAfterTail DEF One
    <3>3. \A j, k \in Queued(c)' : j = k
      BY <3>2
    <3> QED BY <2>1, <2>3, <3>1, <3>3 DEF One, NothingFor
  <2> QED BY <2>2, <2>3
<1>5. CASE ServerReply
  <2>1. srv # Nobody /\ srv' = Nobody /\ UNCHANGED <<cpc, alive, sockq>>
        /\ frames' = [frames EXCEPT ![srv] = @ + 1]
    BY <1>5 DEF ServerReply, Addressee
  <2>2. CASE srv = c
    <3>1. alive[c] + frames[c] = 0 /\ Queued(c) = {} /\ cpc[c] = "recv"
      BY <1>t, <2>2 DEF One, NothingFor
    <3>2. alive[c]' = 0 /\ frames[c]' = 1 /\ Queued(c)' = {} /\ cpc[c]' = "recv"
      BY <1>t, <2>1, <2>2, <3>1 DEF TypeOK, Queued
    <3> QED BY <2>1, <3>2 DEF One
  <2>3. CASE srv # c
    BY <2>1, <2>3, OneUntouched DEF TypeOK, Queued
  <2> QED BY <2>2, <2>3
<1>6. CASE ServerSkip
  <2>1. srv' = Nobody /\ UNCHANGED <<cpc, alive, sockq, frames>>
    BY <1>6 DEF ServerSkip
  <2> QED BY <2>1 DEF One, NothingFor, Queued
<1>7. ASSUME NEW d \in Clients, Arrive(d) PROVE One(c)'
  <2>1. /\ alive[d] > 0 /\ alive' = [alive EXCEPT ![d] = @ - 1]
        /\ sockq' = Append(sockq, d) \/ sockq' = sockq
        /\ UNCHANGED <<cpc, srv, frames>>
    BY <1>7 DEF Arrive
  <2>2. CASE d = c
    <3>1. alive[c] = 1 /\ frames[c] = 0 /\ srv # c /\ Queued(c) = {} /\ cpc[c] = "recv"
      BY <1>t, <2>1, <2>2 DEF One, NothingFor
    <3>2. \A j, k \in Queued(c)' : j = k
      BY <2>1, <2>2, <3>1, QueuedAfterAppend
    <3>3. alive[c]' = 0 /\ frames[c]' = 0 /\ srv' # c /\ cpc[c]' = "recv"
      BY <2>1, <2>2, <3>1 DEF TypeOK
    <3> QED BY <3>2, <3>3 DEF One
  <2>3. CASE d # c
    <3>1. Queued(c)' = Queued(c)
      BY <2>1, <2>3, QueuedAfterAppend
    <3> QED BY <2>1, <2>3, <3>1, OneUntouched DEF TypeOK
  <2> QED BY <2>2, <2>3
<1>8. ASSUME NEW d \in Clients, Lose(d) PROVE One(c)'
  <2>1. /\ alive[c]' \in Nat /\ frames[c]' \in Nat
        /\ alive[c]' <= alive[c] /\ frames[c]' <= frames[c]
    <3>1. CASE alive[d] > 0 /\ alive' = [alive EXCEPT ![d] = @ - 1] /\ UNCHANGED frames
      BY <3>1, <1>t DEF TypeOK
    <3>2. CASE frames[d] > 0 /\ frames' = [frames EXCEPT ![d] = @ - 1] /\ UNCHANGED alive
      BY <3>2, <1>t DEF TypeOK
    <3> QED BY <1>8, <3>1, <3>2 DEF Lose
  <2>2. UNCHANGED <<cpc, sockq, srv>> /\ Queued(c)' = Queued(c)
    BY <1>8 DEF Lose, Queued
  <2> QED BY <1>t, <2>1, <2>2 DEF One, NothingFor
<1>9. CASE UNCHANGED vars
  BY <1>9 DEF vars, One, NothingFor, Queued
<1> QED
  BY <1>1, <1>2, <1>3, <1>4, <1>5, <1>6, <1>7, <1>8, <1>9
     DEF Next, Server, Viewer, ServerTimeout

OneInv == "dup" \notin faults => \A c \in Clients : One(c)

LEMMA OneInit == Init => OneInv
<1> SUFFICES ASSUME Init, NEW c \in Clients PROVE One(c)
  BY DEF OneInv
<1>1. Queued(c) = {}
  BY DEF Init, Queued
<1>2. alive[c] = 0 /\ frames[c] = 0 /\ srv # c
  BY VideoAssumption DEF Init
<1> QED BY <1>1, <1>2 DEF One, NothingFor

LEMMA OneInvStep == OneInv /\ TypeOK /\ [Next]_vars => OneInv'
<1>1. [Next]_vars => faults' = faults
  BY DEF Next, Viewer, SendAlive, ShowFrame, PressX, Server, ServerRecv,
         ServerTimeout, ServerReply, ServerSkip, Arrive, Lose, vars
<1> QED BY <1>1, OneStep DEF OneInv

LEMMA OneInvMeans == OneInv => OneOutstanding
BY DEF OneInv, One, OneOutstanding

(* The stop-and-wait discipline of client.cpp:102-105 against              *)
(* videoserver.cpp:53-67: never two datagrams of one viewer at a time.     *)
THEOREM OneOutstandingCorrect == Spec => []OneOutstanding
BY OneInit, OneInvStep, OneInvMeans, TypeCorrect, PTL DEF Spec

-----------------------------------------------------------------------------
(* Resolver and stream together.                                           *)

(* The types of the resolver's half.                                       *)
Standing == {"idle", "asking", "told", "streams", "quit", "gone"}
ResolverTypeOK ==
    /\ asks \in [Clients -> Standing]
    /\ DOMAIN answer = Clients

-----------------------------------------------------------------------------
(* A step of the system is a step of one half, or a datagram that goes     *)
(* where nobody answers it.                                                *)
Vanish(c) ==
    /\ alive[c] > 0
    /\ alive' = [alive EXCEPT ![c] = @ - 1]
    /\ UNCHANGED <<faults, cpc, key, sockq, srv, frames, dups>>

ResolverStep ==
    \/ R!Break \/ R!Edit
    \/ \E c \in Clients :
          \/ R!Ask(c) \/ R!Tell(c) \/ R!Act(c) \/ R!Misread(c) \/ R!Refuse(c)
          \/ R!ActOnCut(c) \/ R!Leave(c)

LEMMA Halves ==
    ASSUME [SystemNext]_systemVars
    PROVE  \/ UNCHANGED vars /\ ResolverStep
           \/ [Next]_vars /\ UNCHANGED resolver
           \/ UNCHANGED resolver /\ \E c \in Clients : SinAddr(c) \notin VideoAt[c] /\ Vanish(c)
<1>1. ASSUME NEW c \in Clients, Deliver(c)
      PROVE  UNCHANGED resolver /\ (Arrive(c) \/ (SinAddr(c) \notin VideoAt[c] /\ Vanish(c)))
  BY <1>1 DEF Deliver, Vanish
<1>2. CASE SystemNext
  BY <1>1, <1>2 DEF SystemNext, VideoServer, ResolverFaults, Resolve, StreamStep, Press,
                    Loses, ResolverStep, Next
<1>3. CASE UNCHANGED systemVars
  BY <1>3 DEF systemVars
<1> QED BY <1>2, <1>3

LEMMA SystemTypeStep ==
    TypeOK /\ ResolverTypeOK /\ [SystemNext]_systemVars => TypeOK' /\ ResolverTypeOK'
<1> SUFFICES ASSUME TypeOK, ResolverTypeOK, [SystemNext]_systemVars
             PROVE  TypeOK' /\ ResolverTypeOK'
  OBVIOUS
<1>1. CASE UNCHANGED vars /\ ResolverStep
  <2>1. TypeOK'
    BY <1>1 DEF vars, TypeOK
  <2>2. ResolverTypeOK'
    BY <1>1 DEF ResolverTypeOK, Standing, ResolverStep, R!Break, R!Edit, R!Ask, R!Tell,
                R!Act, R!Misread, R!Refuse, R!ActOnCut, R!Leave
  <2> QED BY <2>1, <2>2
<1>2. CASE [Next]_vars /\ UNCHANGED resolver
  BY <1>2, TypeStep DEF resolver, ResolverTypeOK
<1>3. ASSUME NEW c \in Clients, Vanish(c), UNCHANGED resolver
      PROVE  TypeOK' /\ ResolverTypeOK'
  BY <1>3 DEF Vanish, TypeOK, resolver, ResolverTypeOK
<1> QED BY <1>1, <1>2, <1>3, Halves

(* The types of both halves, for every set of viewers.                     *)
THEOREM SystemTypeCorrect == System => [](TypeOK /\ ResolverTypeOK)
<1>1. SystemInit => TypeOK /\ ResolverTypeOK
  BY VideoAssumption DEF SystemInit, Init, TypeOK, R!Init, ResolverTypeOK, Standing
<1>2. QED BY <1>1, SystemTypeStep, PTL DEF System

-----------------------------------------------------------------------------
(* The pull protocol (client.cpp:102-105, videoserver.cpp:53-67) keeps its *)
(* one datagram per viewer wherever the viewers send.                      *)
THEOREM SystemOneOutstanding == System => []OneOutstanding
<1>1. SystemInit => OneInv
  BY OneInit DEF SystemInit
<1>2. OneInv /\ TypeOK /\ [SystemNext]_systemVars => OneInv'
  <2> SUFFICES ASSUME OneInv, TypeOK, [SystemNext]_systemVars PROVE OneInv'
    OBVIOUS
  <2>1. CASE UNCHANGED vars
    BY <2>1, OneInvStep
  <2>2. CASE [Next]_vars
    BY <2>2, OneInvStep
  <2>3. ASSUME NEW d \in Clients, Vanish(d) PROVE OneInv'
    <3> SUFFICES ASSUME "dup" \notin faults, NEW c \in Clients PROVE One(c)'
      BY <2>3 DEF OneInv, Vanish
    <3>1. One(c)
      BY DEF OneInv
    <3>2. /\ alive[c]' \in Nat /\ alive[c] \in Nat /\ frames[c] \in Nat
          /\ alive[c]' <= alive[c]
      BY <2>3 DEF Vanish, TypeOK
    <3>3. UNCHANGED <<cpc, sockq, srv, frames>> /\ Queued(c)' = Queued(c)
      BY <2>3 DEF Vanish, Queued
    <3> QED BY <3>1, <3>2, <3>3 DEF One, NothingFor
  <2> QED BY <2>1, <2>2, <2>3, Halves
<1>3. QED BY <1>1, <1>2, OneInvMeans, SystemTypeCorrect, PTL DEF System

(* A viewer whose request or frame is gone stays starved whatever the      *)
(* resolver says to anybody: client.cpp:100-116 never asks it again.       *)
THEOREM SystemStarved == System => NoRecovery
<1>1. TypeOK /\ [SystemNext]_systemVars
      => [\A c \in Clients : Starved(c) => Starved(c)']_vars
  <2> SUFFICES ASSUME TypeOK, [SystemNext]_systemVars, NEW c \in Clients, Starved(c)
               PROVE  Starved(c)'
    OBVIOUS
  <2>1. CASE UNCHANGED vars
    BY <2>1, StarvedStep
  <2>2. CASE [Next]_vars
    BY <2>2, StarvedStep
  <2>3. ASSUME NEW d \in Clients, Vanish(d) PROVE Starved(c)'
    BY <2>3 DEF Vanish, Starved, NothingFor, Queued, TypeOK
  <2> QED BY <2>1, <2>2, <2>3, Halves
<1>2. QED BY <1>1, SystemTypeCorrect, PTL DEF System, NoRecovery

-----------------------------------------------------------------------------
(* Nothing in the stream belongs to a viewer the resolver has not sent     *)
(* there, and such a viewer has never left its loop.                       *)
Unserved(c) == asks[c] # "streams" \/ SinAddr(c) \notin VideoAt[c]
Silent(c) == frames[c] = 0 /\ srv # c /\ Queued(c) = {} /\ cpc[c] # "closed"
Quiet ==
    \A c \in Clients :
        /\ Unserved(c) => Silent(c)
        /\ asks[c] # "streams" => alive[c] = 0

(* Once a viewer streams, the resolver has no more to say to it.           *)
LEMMA ToldOnce ==
    ASSUME ResolverTypeOK, ResolverStep, NEW c \in Clients, asks[c] = "streams"
    PROVE  asks'[c] = "streams" /\ answer'[c] = answer[c]
BY DEF ResolverTypeOK, ResolverStep, R!Break, R!Edit, R!Ask, R!Tell, R!Act, R!Misread,
       R!Refuse, R!ActOnCut, R!Leave

(* The steps of the stream in which no datagram of c gets to the server.   *)
Without(c) ==
    \/ Server \/ UNCHANGED vars
    \/ \E d \in Clients :
          \/ Viewer(d) /\ Opened(d)
          \/ PressX(d) \/ Lose(d) \/ Vanish(d)
          \/ d # c /\ Arrive(d)

(* They leave a silent viewer silent.                                      *)
LEMMA SilentStep ==
    ASSUME TypeOK, NEW c \in Clients, Silent(c), Without(c)
    PROVE  /\ Silent(c)'
           /\ cpc[c] = "recv" => cpc'[c] = "recv"
           /\ alive[c] = 0 /\ ~Opened(c) => alive'[c] = 0
<1> DEFINE Stays == /\ Silent(c)'
                    /\ cpc[c] = "recv" => cpc'[c] = "recv"
                    /\ alive[c] = 0 /\ ~Opened(c) => alive'[c] = 0
<1> USE VideoAssumption DEF Silent, TypeOK
<1>1. ASSUME NEW d \in Clients, \/ (SendAlive(d) \/ ShowFrame(d)) /\ Opened(d)
                               \/ PressX(d) \/ Lose(d) \/ Vanish(d)
      PROVE  Stays
  <2>1. /\ frames'[c] = 0 /\ cpc'[c] # "closed" /\ UNCHANGED <<srv, sockq>>
        /\ cpc[c] = "recv" => cpc'[c] = "recv"
    BY <1>1 DEF SendAlive, ShowFrame, FrameWaits, PressX, Lose, Vanish
  <2>2. alive[c] = 0 /\ ~Opened(c) => alive'[c] = 0
    BY <1>1 DEF SendAlive, ShowFrame, FrameWaits, PressX, Lose, Vanish
  <2> QED BY <2>1, <2>2 DEF Queued
<1>2. ASSUME NEW d \in Clients, d # c, Arrive(d) PROVE Stays
  <2>1. UNCHANGED <<cpc, frames, srv>> /\ (sockq' = Append(sockq, d) \/ sockq' = sockq)
        /\ alive'[c] = alive[c]
    BY <1>2 DEF Arrive
  <2>2. Queued(c)' = {}
    BY <1>2, <2>1, QueuedAfterAppend
  <2> QED BY <2>1, <2>2
<1>3. CASE ServerRecv
  <2>1. sockq # <<>> /\ sockq' = Tail(sockq) /\ srv' = Head(sockq)
        /\ UNCHANGED <<cpc, alive, frames>>
    BY <1>3 DEF ServerRecv
  <2>2. Head(sockq) # c /\ Queued(c)' = {}
    BY <2>1, QueuedAfterTail
  <2> QED BY <2>1, <2>2
<1>4. CASE ServerReply \/ ServerSkip
  <2>1. frames'[c] = 0 /\ srv' = Nobody /\ UNCHANGED <<cpc, alive, sockq>>
    BY <1>4 DEF ServerReply, Addressee, ServerSkip
  <2> QED BY <2>1 DEF Queued
<1>5. CASE UNCHANGED vars
  BY <1>5 DEF vars, Queued
<1> QED
  BY <1>1, <1>2, <1>3, <1>4, <1>5 DEF Without, Server, Viewer, ServerTimeout

(* A datagram reaches the video server only from a viewer that was sent    *)
(* there.                                                                  *)
LEMMA NobodyElseArrives ==
    ASSUME [SystemNext]_systemVars, NEW c \in Clients, Quiet, Unserved(c)
    PROVE  \/ UNCHANGED vars /\ ResolverStep
           \/ Without(c) /\ UNCHANGED resolver
<1>1. ASSUME NEW d \in Clients, Deliver(d) PROVE Without(c) /\ UNCHANGED resolver
  <2>1. CASE SinAddr(d) \in VideoAt[d] /\ Arrive(d)
    <3>1. asks[d] = "streams"
      BY <2>1 DEF Quiet, Arrive
    <3>2. d # c
      BY <2>1, <3>1 DEF Unserved
    <3> QED BY <1>1, <2>1, <3>2 DEF Deliver, Without
  <2>2. CASE Vanish(d)
    BY <1>1, <2>2 DEF Deliver, Without
  <2> QED BY <1>1, <2>1, <2>2 DEF Deliver, Vanish
<1> QED
  BY <1>1 DEF SystemNext, VideoServer, ResolverFaults, Resolve, StreamStep, Press, Loses,
              ResolverStep, Without, systemVars

LEMMA QuietStep ==
    TypeOK /\ ResolverTypeOK /\ Quiet /\ [SystemNext]_systemVars => Quiet'
<1> SUFFICES ASSUME TypeOK, ResolverTypeOK, Quiet, [SystemNext]_systemVars, NEW c \in Clients
             PROVE  /\ Unserved(c)' => Silent(c)'
                    /\ asks'[c] # "streams" => alive'[c] = 0
  BY DEF Quiet
<1>1. CASE UNCHANGED vars /\ ResolverStep
  <2>1. Silent(c) => Silent(c)'
    BY <1>1 DEF vars, Silent, Queued
  <2>2. asks[c] = "streams" => asks'[c] = "streams" /\ answer'[c] = answer[c]
    BY <1>1, ToldOnce
  <2> QED BY <1>1, <2>1, <2>2 DEF Quiet, Unserved, SinAddr, vars
<1>2. CASE UNCHANGED resolver /\ Unserved(c) /\ Without(c)
  <2>1. Silent(c)' /\ (alive[c] = 0 /\ ~Opened(c) => alive'[c] = 0)
    BY <1>2, SilentStep DEF Quiet
  <2> QED BY <1>2, <2>1 DEF Quiet, Opened, Unserved, SinAddr, resolver
<1>3. CASE UNCHANGED resolver /\ ~Unserved(c)
  BY <1>3 DEF Unserved, SinAddr, resolver
<1>4. UNCHANGED resolver \/ (UNCHANGED vars /\ ResolverStep)
  BY Halves
<1>5. Unserved(c) => \/ UNCHANGED vars /\ ResolverStep
                     \/ Without(c) /\ UNCHANGED resolver
  BY NobodyElseArrives
<1> QED
  BY <1>1, <1>2, <1>3, <1>4, <1>5

(* client.cpp:90-93 fills the address in once, ignoring what inet_pton     *)
(* says of it, and client.cpp:100-116 never looks it up again: a viewer    *)
(* that was told an address without a video server, or none on a machine   *)
(* without one, waits in recvfrom for ever.                                *)
THEOREM MisledCorrect == System => MisledForEver
<1>1. SystemInit => Quiet
  <2> SUFFICES ASSUME SystemInit, NEW c \in Clients
               PROVE  Silent(c) /\ alive[c] = 0
    BY DEF Quiet
  <2> QED BY VideoAssumption DEF SystemInit, Init, Silent, Queued
<1>2. TypeOK /\ ResolverTypeOK /\ Quiet /\ [SystemNext]_systemVars
      => [\A c \in Clients : Misled(c) =>
            /\ Misled(c)'
            /\ frames'[c] = 0 /\ cpc'[c] # "closed"
            /\ cpc[c] = "recv" => cpc'[c] = "recv"]_systemVars
  <2> SUFFICES ASSUME TypeOK, ResolverTypeOK, Quiet, [SystemNext]_systemVars,
                      NEW c \in Clients, Misled(c)
               PROVE  /\ Misled(c)'
                      /\ frames'[c] = 0 /\ cpc'[c] # "closed"
                      /\ cpc[c] = "recv" => cpc'[c] = "recv"
    OBVIOUS
  <2>1. Unserved(c) /\ Silent(c)
    BY DEF Misled, Unserved, SinAddr, Quiet
  <2>2. CASE UNCHANGED vars /\ ResolverStep
    BY <2>1, <2>2, ToldOnce DEF vars, Silent, Misled
  <2>3. CASE Without(c) /\ UNCHANGED resolver
    BY <2>1, <2>3, SilentStep DEF Silent, Misled, resolver
  <2> QED BY <2>1, <2>2, <2>3, NobodyElseArrives
<1>3. QED BY <1>1, <1>2, QuietStep, SystemTypeCorrect, PTL DEF System, MisledForEver
=============================================================================
