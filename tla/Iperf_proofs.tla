---------------------------- MODULE Iperf_proofs ----------------------------
(***************************************************************************)
(* What holds of the throughput client for every size of the table, every  *)
(* argument, every resolution of the clock and every interleaving of its   *)
(* two threads.                                                            *)
(***************************************************************************)
EXTENDS Iperf, SequenceTheorems, TLAPS

(* What the two threads know of each other without a lock: running is set  *)
(* until the main thread leaves its loop, the receiver leaves only after   *)
(* that, and it can record one reply it already held.                      *)
ThreadInv ==
    /\ running <=> mpc \in {"begin", "loop", "sleep"}
    /\ rpc = "exit" => ~running
    /\ running => tail = 0
    /\ tail = 0 \/ (tail = 1 /\ rpc \in {"check", "exit"})
    /\ mpc \in {"print", "done"} => rpc = "exit"

(* The types the threads' positions depend on.                             *)
Positions ==
    /\ mpc \in {"begin", "loop", "sleep", "join", "print", "done"}
    /\ rpc \in {"check", "recv", "record", "exit"}

-----------------------------------------------------------------------------
(* The threads.                                                            *)

LEMMA ThreadInit == Init => ThreadInv /\ Positions
BY DEF Init, ThreadInv, Positions

LEMMA MainThreadStep ==
    ASSUME ThreadInv, Positions, Main
    PROVE  ThreadInv' /\ Positions'
<1> USE DEF ThreadInv, Positions, receiver, network
<1>1. CASE Begin
  BY <1>1 DEF Begin
<1>2. CASE Send
  BY <1>2 DEF Send
<1>3. CASE Wake
  BY <1>3 DEF Wake
<1>4. CASE Stop
  BY <1>4 DEF Stop
<1>5. CASE Join
  BY <1>5 DEF Join, Joined
<1>6. CASE PrintRow \/ Return
  BY <1>6 DEF PrintRow, Return
<1> QED BY <1>1, <1>2, <1>3, <1>4, <1>5, <1>6 DEF Main

LEMMA ReceiverThreadStep ==
    ASSUME ThreadInv, Positions, Receiver
    PROVE  ThreadInv' /\ Positions'
<1> USE DEF ThreadInv, Positions, main, network
<1>1. CASE Check
  BY <1>1 DEF Check, KeepsGoing
<1>2. CASE Recv
  BY <1>2 DEF Recv
<1>3. CASE RecvTimeout
  BY <1>3 DEF RecvTimeout
<1>4. CASE Record
  BY <1>4 DEF Record
<1> QED BY <1>1, <1>2, <1>3, <1>4 DEF Receiver

(* The path, the clock and the end leave both threads alone.               *)
Outside == Arrive \/ Lose \/ Tick \/ UNCHANGED vars

LEMMA NextParts == [Next]_vars => Main \/ Receiver \/ Outside
BY DEF Next, Outside, Done

LEMMA OutsideKeeps == Outside => UNCHANGED <<given, main, receiver>>
BY DEF Outside, Arrive, Lose, Tick, vars

LEMMA ThreadStep == ThreadInv /\ Positions /\ [Next]_vars => ThreadInv' /\ Positions'
<1> SUFFICES ASSUME ThreadInv, Positions, [Next]_vars PROVE ThreadInv' /\ Positions'
  OBVIOUS
<1>1. CASE Outside
  BY <1>1, OutsideKeeps DEF main, receiver, ThreadInv, Positions
<1> QED BY <1>1, NextParts, MainThreadStep, ReceiverThreadStep

LEMMA ThreadCorrect == Spec => [](ThreadInv /\ Positions)
BY ThreadInit, ThreadStep, PTL DEF Spec

(* After running is cleared (q2client.c:116) the receiver records at most  *)
(* the one reply it was waiting for or holding.                            *)
THEOREM TailCorrect == Spec => []TailBound
<1>1. ThreadInv /\ Positions => TailBound
  BY DEF ThreadInv, TailBound
<1> QED BY <1>1, ThreadCorrect, PTL

(* The join (q2client.c:117) orders the receiver's last write before the   *)
(* first row is read, and nothing is written after it.                     *)
THEOREM TableCorrect == Spec => TableFinal
<1>1. ThreadInv /\ Positions /\ [Next]_vars
      => [(mpc \in {"print", "done"}) => UNCHANGED stats]_vars
  <2> SUFFICES ASSUME ThreadInv, Positions, [Next]_vars, mpc \in {"print", "done"}
               PROVE  UNCHANGED stats
    OBVIOUS
  <2>1. rpc = "exit"
    BY DEF ThreadInv
  <2>2. ~Receiver
    BY <2>1 DEF Receiver, Check, Recv, RecvTimeout, Record
  <2>3. CASE Main
    BY <2>3 DEF Main, Begin, Send, Wake, Stop, Join, PrintRow, Return, receiver
  <2>4. CASE Outside
    BY <2>4, OutsideKeeps DEF receiver
  <2> QED BY <2>2, <2>3, <2>4, NextParts
<1> QED BY <1>1, ThreadCorrect, PTL DEF Spec, TableFinal

-----------------------------------------------------------------------------
(* The types.                                                              *)

LEMMA ClampFacts ==
    ASSUME NEW d \in Int PROVE Clamp(d) \in Int /\ Clamp(d) <= MAXI
BY IperfAssumption DEF Clamp

(* The types in parts: the clock and what was read from it, the counters,  *)
(* the table, the reply in the receiver's hand, and the packets.           *)
ClockInv ==
    /\ now \in 0..MaxTime /\ start \in 0..(TicksPerSec - 1) /\ start <= now
    /\ duration \in Int /\ duration <= MAXI /\ interval \in Int
    /\ current \in 0..now /\ wake \in 0..MaxTime /\ stopped \in 0..now \cup {None}

CountInv ==
    running \in BOOLEAN /\ row \in Nat /\ seq \in Nat \ {0} /\ dups \in 0..MaxDups /\ tail \in Nat

TableInv == stats \in [Rows -> [packets : Nat, trtt : Nat]] /\ written \subseteq Rows

HandInv == inHand \in start..now \cup {None} /\ (rpc = "record" => inHand # None)

PacketInv ==
    /\ net \subseteq Packets /\ \A p \in net : start <= p.sent /\ p.sent <= now
    /\ sock \in Seq(Packets)
    /\ \A k \in DOMAIN sock : start <= sock[k].sent /\ sock[k].sent <= now

Types == Positions /\ ClockInv /\ CountInv /\ TableInv /\ HandInv /\ PacketInv

LEMMA RowsAreIntegers == Rows \subseteq Int
BY IperfAssumption DEF Rows

LEMMA TypeParts == Types <=> TypeOK /\ duration <= MAXI /\ written \subseteq Rows
BY RowsAreIntegers DEF Types, Positions, ClockInv, CountInv, TableInv, HandInv, PacketInv, TypeOK

LEMMA ConstantFacts ==
    /\ TicksPerSec \in Nat /\ TicksPerSec > 0 /\ MAXI \in Nat /\ Intervals \subseteq Int
    /\ MaxTime \in Nat /\ MaxTime >= TicksPerSec /\ MaxDups \in Nat /\ None = -1
BY IperfAssumption DEF None

LEMMA TypeInit == Init => Types
<1> SUFFICES ASSUME Init PROVE Types
  OBVIOUS
<1>1. ClockInv
  <2>1. duration \in Int /\ duration <= MAXI
    BY IperfAssumption, ClampFacts DEF Init
  <2> QED BY <2>1, ConstantFacts DEF Init, ClockInv
<1>2. CountInv
  BY ConstantFacts DEF Init, CountInv
<1>3. TableInv
  BY DEF Init, TableInv
<1>4. HandInv
  BY DEF Init, HandInv
<1>5. PacketInv
  <2>1. net = {} /\ sock = <<>>
    BY DEF Init
  <2> QED BY <2>1 DEF PacketInv
<1> QED BY <1>1, <1>2, <1>3, <1>4, <1>5, ThreadInit DEF Types

(* The clock never runs backwards, and the start is not forgotten.         *)
LEMMA TimeStep ==
    ASSUME ClockInv, [Next]_vars
    PROVE  UNCHANGED given /\ now' \in Nat /\ now <= now'
<1> USE DEF ClockInv
<1>1. CASE Tick
  BY <1>1, ConstantFacts DEF Tick
<1>2. CASE ~Tick
  <2>1. UNCHANGED <<now, given>>
    BY <1>2 DEF Next, Main, Begin, Send, Wake, Stop, Join, PrintRow, Return, Receiver,
                Check, Recv, RecvTimeout, Record, Arrive, Lose, Done, vars
  <2> QED BY <2>1, ConstantFacts
<1> QED BY <1>1, <1>2

LEMMA ClockStep ==
    ASSUME ClockInv, [Next]_vars PROVE ClockInv'
<1> USE ConstantFacts DEF ClockInv, given
<1>1. CASE Begin \/ Wake
  BY <1>1 DEF Begin, Wake
<1>2. CASE Send
  <2>1. Pause \in Nat
    BY DEF Pause
  <2>2. wake' \in 0..MaxTime
    BY <1>2, <2>1 DEF Send
  <2> QED BY <1>2, <2>2 DEF Send
<1>3. CASE Stop
  BY <1>3 DEF Stop
<1>4. CASE Join \/ PrintRow \/ Return
  BY <1>4 DEF Join, PrintRow, Return
<1>5. CASE Receiver
  BY <1>5 DEF Receiver, Check, Recv, RecvTimeout, Record, main
<1>6. CASE Tick
  BY <1>6 DEF Tick, main
<1>7. CASE Arrive \/ Lose \/ UNCHANGED vars
  BY <1>7 DEF Arrive, Lose, vars, main
<1> QED BY <1>1, <1>2, <1>3, <1>4, <1>5, <1>6, <1>7, NextParts DEF Main, Outside

LEMMA CountStep ==
    ASSUME CountInv, [Next]_vars PROVE CountInv'
<1> USE ConstantFacts DEF CountInv, network, receiver, main
<1>1. CASE Begin \/ Wake \/ Join \/ Return \/ Stop
  BY <1>1 DEF Begin, Wake, Join, Return, Stop
<1>2. CASE Send \/ PrintRow
  BY <1>2 DEF Send, PrintRow
<1>3. CASE Check \/ Recv \/ RecvTimeout
  BY <1>3 DEF Check, Recv, RecvTimeout
<1>4. CASE Record
  BY <1>4 DEF Record
<1>5. CASE Arrive
  BY <1>5 DEF Arrive
<1>6. CASE Lose \/ Tick \/ UNCHANGED vars
  BY <1>6 DEF Lose, Tick, vars
<1> QED BY <1>1, <1>2, <1>3, <1>4, <1>5, <1>6, NextParts DEF Main, Receiver, Outside

(* Only Record writes to the table, a row it has, and only more.           *)
LEMMA TableStep ==
    ASSUME TableInv, HandInv, ClockInv, [Next]_vars PROVE TableInv'
<1>1. CASE Record
  <2>1. now - inHand \in Nat
    BY <1>1, ConstantFacts DEF Record, HandInv, ClockInv
  <2>2. CASE SecIndex \in Rows /\ InTable
    <3> DEFINE r == [[stats[SecIndex] EXCEPT !.packets = @ + 1]
                       EXCEPT !.trtt = @ + (now - inHand)]
    <3>1. stats[SecIndex] \in [packets : Nat, trtt : Nat]
      BY <2>2 DEF TableInv
    <3>2. r \in [packets : Nat, trtt : Nat]
      <4> DEFINE x == stats[SecIndex]
                 t == now - inHand
      <4>1. x \in [packets : Nat, trtt : Nat] /\ t \in Nat
        BY <2>1, <3>1
      <4> HIDE DEF x, t
      <4>2. x.packets + 1 \in Nat /\ x.trtt + t \in Nat
        BY <4>1
      <4>3. [[x EXCEPT !.packets = @ + 1] EXCEPT !.trtt = @ + t] \in [packets : Nat, trtt : Nat]
        BY <4>1, <4>2
      <4> QED BY <4>3 DEF x, t
    <3>3. stats' = [stats EXCEPT ![SecIndex] = r]
      <4>1. stats' = [stats EXCEPT ![SecIndex].packets = @ + 1,
                                   ![SecIndex].trtt = @ + (now - inHand)]
        BY <1>1, <2>2 DEF Record
      <4>2. stats \in [Rows -> [packets : Nat, trtt : Nat]] /\ SecIndex \in Rows
        BY <2>2 DEF TableInv
      <4> QED BY <4>1, <4>2
    <3>4. written' = written \cup {SecIndex}
      BY <1>1, <2>2 DEF Record
    <3> HIDE DEF r
    <3> QED BY <2>2, <3>2, <3>3, <3>4 DEF TableInv
  <2>3. CASE ~InTable
    BY <1>1, <2>3 DEF Record, TableInv
  <2>4. InTable => SecIndex \in Rows
    <3>1. SecIndex \in Int
      BY ConstantFacts DEF SecIndex, Second, ClockInv
    <3> QED BY <3>1, ConstantFacts DEF InTable, Rows
  <2> QED BY <2>2, <2>3, <2>4
<1>2. CASE UNCHANGED <<stats, written>>
  BY <1>2 DEF TableInv
<1>3. ~Record => UNCHANGED <<stats, written>>
  BY NextParts, OutsideKeeps
     DEF Main, Begin, Send, Wake, Stop, Join, PrintRow, Return, Receiver, Check, Recv,
         RecvTimeout, receiver
<1> QED BY <1>1, <1>2, <1>3

LEMMA HandStep ==
    ASSUME HandInv, PacketInv, ClockInv, [Next]_vars PROVE HandInv'
<1>1. UNCHANGED given /\ now \in Nat /\ now' \in Nat /\ now <= now' /\ start \in Nat
  BY TimeStep, ConstantFacts DEF ClockInv
<1>2. CASE Recv
  <2>1. Head(sock).sent \in Int /\ start <= Head(sock).sent /\ Head(sock).sent <= now
    <3>1. sock \in Seq(Packets) /\ sock # <<>>
      BY <1>2 DEF Recv, PacketInv
    <3>2. Head(sock) = sock[1] /\ 1 \in DOMAIN sock /\ sock[1] \in Packets
      BY <3>1
    <3> QED BY <3>2 DEF PacketInv, Packets
  <2>2. inHand' = Head(sock).sent /\ now' = now /\ start' = start
    BY <1>2 DEF Recv, given
  <2>3. Head(sock).sent # -1
    BY <1>1, <2>1
  <2> QED BY <1>1, <2>1, <2>2, <2>3 DEF HandInv, None
<1>3. CASE Record
  BY <1>3 DEF Record, HandInv
<1>4. CASE UNCHANGED inHand /\ (rpc' = "record" => rpc = "record")
  BY <1>1, <1>4 DEF HandInv, given
<1>5. ~Recv /\ ~Record => UNCHANGED inHand /\ (rpc' = "record" => rpc = "record")
  BY NextParts, OutsideKeeps
     DEF Main, Begin, Send, Wake, Stop, Join, PrintRow, Return, Receiver, Check,
         RecvTimeout, receiver
<1> QED BY <1>2, <1>3, <1>4, <1>5

LEMMA PacketStep ==
    ASSUME PacketInv, ClockInv, seq \in Nat, [Next]_vars PROVE PacketInv'
<1> DEFINE In(p, a, b) == a <= p.sent /\ p.sent <= b
<1>1. UNCHANGED given /\ now \in 0..MaxTime /\ now' \in Nat /\ now <= now' /\ start <= now
      /\ start \in Nat
  BY TimeStep, ConstantFacts DEF ClockInv
<1>2. \A p \in Packets : In(p, start, now) => In(p, start', now')
  BY <1>1 DEF given, Packets
<1>3. CASE Send
  <2>1. [seq |-> seq, sent |-> now] \in Packets
    BY <1>1 DEF Packets
  <2>2. In([seq |-> seq, sent |-> now], start, now)
    BY <1>1
  <2>3. net' \subseteq net \cup {[seq |-> seq, sent |-> now]} /\ sock' = sock
    BY <1>3 DEF Send
  <2> QED BY <1>2, <2>1, <2>2, <2>3 DEF PacketInv
<1>4. CASE Recv
  <2>1. sock \in Seq(Packets) /\ sock # <<>>
    BY <1>4 DEF Recv, PacketInv
  <2>2. /\ Tail(sock) \in Seq(Packets)
        /\ \A k \in DOMAIN Tail(sock) : k + 1 \in DOMAIN sock /\ Tail(sock)[k] = sock[k + 1]
    BY <2>1
  <2>3. sock' = Tail(sock) /\ net' = net
    BY <1>4 DEF Recv
  <2>4. \A k \in DOMAIN sock : sock[k] \in Packets
    BY <2>1
  <2>5. \A k \in DOMAIN Tail(sock) : In(Tail(sock)[k], start', now')
    BY <1>2, <2>2, <2>4 DEF PacketInv
  <2> QED BY <1>2, <2>2, <2>3, <2>5 DEF PacketInv
<1>5. CASE Arrive
  <2>1. PICK p \in net : /\ sock' = IF Len(sock) < SockCap THEN Append(sock, p) ELSE sock
                         /\ net' \subseteq net
    BY <1>5 DEF Arrive
  <2>2. sock \in Seq(Packets) /\ p \in Packets /\ In(p, start, now)
    BY DEF PacketInv
  <2>3. /\ Append(sock, p) \in Seq(Packets)
        /\ \A k \in DOMAIN Append(sock, p) :
              Append(sock, p)[k] = p \/ (k \in DOMAIN sock /\ Append(sock, p)[k] = sock[k])
    BY <2>2
  <2>4. \A k \in DOMAIN sock : sock[k] \in Packets /\ In(sock[k], start, now)
    BY <2>2 DEF PacketInv
  <2>5. sock' \in Seq(Packets) /\ \A k \in DOMAIN sock' : In(sock'[k], start', now')
    BY <1>2, <2>1, <2>2, <2>3, <2>4
  <2> QED BY <1>2, <2>1, <2>5 DEF PacketInv
<1>6. CASE net' \subseteq net /\ UNCHANGED sock
  <2>1. \A k \in DOMAIN sock : sock[k] \in Packets
    BY DEF PacketInv
  <2> QED BY <1>2, <1>6, <2>1 DEF PacketInv
<1>7. ~Send /\ ~Recv /\ ~Arrive => net' \subseteq net /\ UNCHANGED sock
  BY DEF Next, Main, Begin, Wake, Stop, Join, PrintRow, Return, Receiver, Check,
         RecvTimeout, Record, Lose, Tick, Done, vars, network
<1> QED BY <1>3, <1>4, <1>5, <1>6, <1>7

LEMMA TypeCorrectInParts == Spec => [](ThreadInv /\ Types)
<1>1. ThreadInv /\ Types /\ [Next]_vars => ThreadInv' /\ Types'
  <2> SUFFICES ASSUME ThreadInv, Types, [Next]_vars PROVE ThreadInv' /\ Types'
    OBVIOUS
  <2>1. seq \in Nat
    BY DEF Types, CountInv
  <2> QED BY <2>1, ThreadStep, ClockStep, CountStep, TableStep, HandStep, PacketStep DEF Types
<1> QED BY <1>1, ThreadInit, TypeInit, PTL DEF Spec

(* The types of both threads' state, of the table and of the network.      *)
THEOREM TypeCorrect == Spec => [](TypeOK /\ duration <= MAXI /\ written \subseteq Rows)
BY TypeCorrectInParts, TypeParts, PTL

(* Every row written is a row of the table, by the test of q2client.c:51,  *)
(* and every row printed (q2client.c:120), because the duration was clamped*)
(* to the table (q2client.c:73).                                           *)
THEOREM BoundsCorrect == Spec => []InBounds
<1>1. TypeOK /\ duration <= MAXI /\ written \subseteq Rows => InBounds
  BY IperfAssumption DEF TypeOK, InBounds, RowLeft, Rows
<1> QED BY <1>1, TypeCorrect, PTL

-----------------------------------------------------------------------------
(* The length of the test.                                                 *)

(* Two moments whose seconds differ by d are more than d - 1 seconds apart.*)
LEMMA SecondsApart ==
    ASSUME NEW s \in Nat, NEW c \in Nat, NEW d \in Int,
           Second(c) - Second(s) >= d
    PROVE  c - s > (d - 1) * TicksPerSec
<1> DEFINE T == TicksPerSec
           a == c \div T
           b == s \div T
<1>1. T \in Nat \ {0}
  BY IperfAssumption
<1>2. a \in Int /\ b \in Int /\ a - b >= d
  BY <1>1 DEF Second
<1>3. c < T * a + T /\ T * b <= s /\ s < T * b + T
  BY <1>1
<1>4. c >= T * a
  BY <1>1
<1> HIDE DEF a, b, T
<1>5. T * (a - b) >= T * d
  BY <1>1, <1>2
<1>6. T * (a - b) = T * a - T * b /\ (d - 1) * T = T * d - T
  BY <1>1, <1>2
<1> DEFINE Ta == T * a
           Tb == T * b
           Td == T * d
<1>7. Ta \in Int /\ Tb \in Int /\ Td \in Int
  BY <1>1, <1>2
<1>8. Ta - Tb >= Td /\ c < Ta + T /\ c >= Ta /\ s >= Tb /\ s < Tb + T
  BY <1>3, <1>4, <1>5, <1>6
<1> HIDE DEF Ta, Tb, Td
<1>9. c - s > Td - T
  BY <1>1, <1>7, <1>8
<1> QED BY <1>6, <1>9 DEF Td, T

(* The loop compares whole seconds (q2client.c:103); the test is longer    *)
(* than one second less than it was asked to be.                           *)
THEOREM LengthCorrect == Spec => []LengthBound
<1>1. Init => LengthBound
  BY DEF Init, LengthBound
<1>2. TypeOK /\ LengthBound /\ [Next]_vars => LengthBound'
  <2> SUFFICES ASSUME TypeOK, LengthBound, [Next]_vars PROVE LengthBound'
    OBVIOUS
  <2>1. CASE Stop
    <3>1. current \in Nat /\ start \in Nat /\ duration \in Int /\ now \in Nat /\ current <= now
      BY <2>1, IperfAssumption DEF TypeOK
    <3>2. Second(current) \in Int /\ Second(start) \in Int
      BY <3>1, IperfAssumption DEF Second
    <3>3. Second(current) - Second(start) >= duration
      BY <2>1, <3>1, <3>2 DEF Stop, GoesOn
    <3>4. current - start > (duration - 1) * TicksPerSec
      BY <3>1, <3>3, SecondsApart
    <3>5. (duration - 1) * TicksPerSec \in Int
      BY <3>1, IperfAssumption
    <3> QED BY <2>1, <3>1, <3>4, <3>5 DEF Stop, given, LengthBound
  <2>2. CASE UNCHANGED <<given, stopped>>
    BY <2>2 DEF given, LengthBound
  <2>3. ~Stop => UNCHANGED <<given, stopped>>
    BY NextParts, OutsideKeeps
       DEF Main, Begin, Send, Wake, Join, PrintRow, Return, Receiver, Check, Recv,
           RecvTimeout, Record, main
  <2> QED BY <2>1, <2>2, <2>3
<1> QED BY <1>1, <1>2, TypeCorrect, PTL DEF Spec
-----------------------------------------------------------------------------
(* The rows.                                                               *)

(* The seconds of the clock do not run backwards.                          *)
LEMMA SecondGrows ==
    ASSUME NEW a \in Nat, NEW b \in Nat, a <= b
    PROVE  Second(a) \in Int /\ Second(b) \in Int /\ Second(a) <= Second(b)
<1> DEFINE T == TicksPerSec
           m == a \div T
           n == b \div T
<1>1. T \in Nat \ {0} /\ m \in Int /\ n \in Int
  BY IperfAssumption
<1>2. T * m <= a /\ b < T * n + T
  BY <1>1
<1> HIDE DEF m, n, T
<1>3. T * m < T * (n + 1)
  BY <1>1, <1>2
<1>4. m < n + 1
  BY <1>1, <1>3
<1> QED BY <1>1, <1>4 DEF m, n, T, Second

(* The last tick of the row the clock is in lies ahead of the clock.       *)
LEMMA LastTickAhead ==
    ASSUME ClockInv
    PROVE  /\ SecIndex \in Int /\ now <= LastTick(SecIndex)
           /\ \A i \in Int : LastTick(i) \in Int
<1>1. TicksPerSec \in Nat \ {0} /\ now \in Nat /\ start \in Nat
  BY ConstantFacts DEF ClockInv
<1>2. Second(now) \in Int /\ Second(start) \in Int
  BY <1>1 DEF Second
<1>3. now < (Second(now) + 1) * TicksPerSec
  BY <1>1 DEF Second
<1>4. Second(start) + SecIndex + 1 = Second(now) + 1 /\ SecIndex \in Int
  BY <1>2 DEF SecIndex
<1>5. \A i \in Int : LastTick(i) \in Int
  BY <1>1, <1>2 DEF LastTick
<1>6. LastTick(SecIndex) = (Second(now) + 1) * TicksPerSec - 1
  BY <1>4 DEF LastTick
<1>7. (Second(now) + 1) * TicksPerSec \in Int
  BY <1>1, <1>2
<1> QED BY <1>1, <1>3, <1>4, <1>5, <1>6, <1>7

(* Another reply, not longer than the limit e, keeps a sum within its      *)
(* number times e.                                                         *)
LEMMA OneMore ==
    ASSUME NEW p \in Nat, NEW t \in Nat, NEW e \in Int, NEW d \in Int, t <= p * e, d <= e
    PROVE  t + d <= (p + 1) * e
<1>1. (p + 1) * e = p * e + e /\ p * e \in Int
  OBVIOUS
<1> QED BY <1>1

(* Every reply is counted in the row of its second (q2client.c:48-55),     *)
(* wherever in a second of the clock the test started.                     *)
THEOREM FiledCorrect == Spec => []FiledInItsSecond
<1>1. Init => FiledInItsSecond
  <2> SUFFICES ASSUME Init, NEW i \in Rows
               PROVE  stats[i].packets = 0 /\ stats[i].trtt <= 0 * (LastTick(i) - start)
    BY DEF FiledInItsSecond, Init
  <2>1. LastTick(i) \in Int /\ start \in Int
    BY TypeInit, LastTickAhead, RowsAreIntegers, ConstantFacts DEF Types, ClockInv
  <2> QED BY <2>1 DEF Init
<1>2. ThreadInv /\ Types /\ FiledInItsSecond /\ [Next]_vars => FiledInItsSecond'
  <2> SUFFICES ASSUME ThreadInv, Types, FiledInItsSecond, [Next]_vars, NEW i \in Rows
               PROVE  /\ stats'[i].packets > 0 => Second(now') - Second(start') >= i
                      /\ stats'[i].trtt <= stats'[i].packets * (LastTick(i)' - start')
    BY DEF FiledInItsSecond
  <2>1. /\ start' = start /\ now \in Nat /\ now' \in Nat /\ now <= now' /\ start \in Nat
        /\ LastTick(i)' = LastTick(i) /\ LastTick(i) \in Int /\ i \in Int
    BY TimeStep, LastTickAhead, RowsAreIntegers, ConstantFacts
       DEF Types, ClockInv, given, LastTick
  <2>2. Second(now) \in Int /\ Second(now') \in Int /\ Second(now) <= Second(now')
        /\ Second(start) \in Int
    BY <2>1, SecondGrows
  <2>3. CASE stats'[i] = stats[i]
    BY <2>1, <2>2, <2>3 DEF FiledInItsSecond
  <2>4. CASE Record /\ InTable /\ i = SecIndex
    <3>1. stats[i] \in [packets : Nat, trtt : Nat] /\ stats \in [Rows -> [packets : Nat, trtt : Nat]]
      BY DEF Types, TableInv
    <3>2. /\ stats'[i].packets = stats[i].packets + 1
          /\ stats'[i].trtt = stats[i].trtt + (now - inHand)
      BY <2>4, <3>1 DEF Record
    <3>3. now - inHand \in Int /\ now - inHand <= LastTick(i) - start
      <4>1. inHand \in start..now
        BY <2>4 DEF Record, Types, HandInv
      <4> QED BY <2>1, <2>4, <4>1, LastTickAhead DEF Types
    <3>4. stats[i].trtt <= stats[i].packets * (LastTick(i) - start)
      BY DEF FiledInItsSecond
    <3>5. stats'[i].trtt <= stats'[i].packets * (LastTick(i) - start)
      BY <2>1, <3>1, <3>2, <3>3, <3>4, OneMore
    <3> QED BY <2>1, <2>2, <2>4, <3>5 DEF SecIndex
  <2>5. stats'[i] # stats[i] => Record /\ InTable /\ i = SecIndex
    <3>1. ~Record => UNCHANGED stats
      BY NextParts, OutsideKeeps
         DEF Main, Begin, Send, Wake, Stop, Join, PrintRow, Return, Receiver, Check, Recv,
             RecvTimeout, receiver
    <3>2. stats \in [Rows -> [packets : Nat, trtt : Nat]]
      BY DEF Types, TableInv
    <3> QED BY <3>1, <3>2 DEF Record
  <2> QED BY <2>3, <2>4, <2>5
<1> QED BY <1>1, <1>2, TypeCorrectInParts, PTL DEF Spec
=============================================================================
