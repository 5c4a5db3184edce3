-------------------------------- MODULE Iperf --------------------------------
(***************************************************************************)
(* The throughput client of Assignment10/Part 2/q2client.c: the main       *)
(* thread sends packets until the clock's second has advanced by the       *)
(* duration, a second thread records every reply in a table indexed by     *)
(* second, and the main thread prints the table when it has joined the     *)
(* other.  The two share the flag running, the table and the socket.       *)
(*                                                                         *)
(* Time is a count of ticks, TicksPerSec to a second; a program that reads *)
(* the clock may be held up for any number of ticks.  The server echoes    *)
(* every packet, so the network carries each one back, late or never.      *)
(***************************************************************************)
EXTENDS Integers, Sequences

CONSTANTS TicksPerSec,
          MAXI,        \* size of the table
          Durations,   \* the arguments duration_sec to start with
          Intervals,   \* the arguments interval_us to start with, in ticks
          SockCap,     \* capacity of the receive buffer
          MaxTime,     \* bound: the last tick of the clock
          MaxSeq,      \* bound: the packets that may come back
          MaxDups,     \* bound: duplications by the network
          Faults       \* what may go wrong: "loss", "dup"

ASSUME IperfAssumption ==
    /\ TicksPerSec \in Nat \ {0}
    /\ MAXI \in Nat
    /\ Durations \subseteq Int
    /\ Intervals \subseteq Int
    /\ SockCap \in Nat \ {0}
    /\ MaxTime \in Nat /\ MaxTime >= TicksPerSec /\ MaxTime >= MAXI * TicksPerSec
    /\ MaxSeq \in Nat /\ MaxDups \in Nat
    /\ Faults \subseteq {"loss", "dup"}

VARIABLES
    now,
    duration,   \* the number of seconds, after the clamp
    interval,   \* intervalus
    start,      \* start_test_time
    current,    \* current_time
    running,    \* the flag, 1 or 0 in the code
    stats,      \* per second, the replies counted and their times summed
    mpc, wake,  \* the main thread; when usleep may return
    row,        \* the row it prints next
    rpc, inHand,\* the receiver; the send time of the reply it holds
    net, sock,  \* packets on their way, replies in the receive buffer
    seq, dups,
    stopped,    \* history: when running was cleared
    tail,       \* history: replies recorded after that
    written     \* history: the rows that were written

given == <<duration, interval, start>>
main == <<current, mpc, wake, row, seq, running, stopped>>
receiver == <<rpc, inHand, stats, tail, written>>
network == <<net, sock, dups>>
vars == <<now, given, main, receiver, network>>

Rows == 0..(MAXI - 1)
Second(t) == t \div TicksPerSec
Packets == [seq : Nat, sent : 0..MaxTime]
None == -1

(* if (duration > MAXI) duration = MAXI.                                   *)
Clamp(d) == IF d > MAXI THEN MAXI ELSE d

(* The clock may be anywhere in its second when the test starts.           *)
Init ==
    /\ now \in 0..(TicksPerSec - 1)
    /\ start = now
    /\ \E d \in Durations : duration = Clamp(d)
    /\ interval \in Intervals
    /\ current = 0 /\ running = TRUE
    /\ stats = [i \in Rows |-> [packets |-> 0, trtt |-> 0]]
    /\ mpc = "begin" /\ wake = 0 /\ row = 0
    /\ rpc = "check" /\ inHand = None
    /\ net = {} /\ sock = <<>> /\ seq = 1 /\ dups = 0
    /\ stopped = None /\ tail = 0 /\ written = {}

-----------------------------------------------------------------------------
(* The main thread.  (An operator named ...Mutant is a mistake one could   *)
(* make in the definition below it; no behaviour of the program uses it.)  *)

Begin ==
    /\ mpc = "begin"
    /\ current' = now
    /\ mpc' = "loop"
    /\ UNCHANGED <<now, given, wake, row, seq, running, stopped, receiver, network>>

GoesOnMutant == Second(current) - Second(start) < duration - 1
GoesOn == Second(current) - Second(start) < duration

(* The header carries the number and the time; the result of sendto is not *)
(* looked at, so a packet that was not sent is as good as lost.  Without a *)
(* pause the loop sends as fast as it can: what it sends after MaxSeq      *)
(* packets is not followed.                                                *)
Pause == IF interval > 0 THEN interval ELSE 0

Send ==
    /\ mpc = "loop" /\ GoesOn
    /\ \/ seq <= MaxSeq /\ net' = net \cup {[seq |-> seq, sent |-> now]}
       \/ ("loss" \in Faults \/ seq > MaxSeq) /\ UNCHANGED net
    /\ seq' = IF seq <= MaxSeq THEN seq + 1 ELSE seq
    /\ mpc' = "sleep"
    /\ wake' = IF now + Pause > MaxTime THEN MaxTime ELSE now + Pause
    /\ UNCHANGED <<now, given, current, row, running, stopped, receiver, sock, dups>>

Wake ==
    /\ mpc = "sleep" /\ now >= wake
    /\ current' = now
    /\ mpc' = "loop"
    /\ UNCHANGED <<now, given, wake, row, seq, running, stopped, receiver, network>>

Stop ==
    /\ mpc = "loop" /\ ~GoesOn
    /\ running' = FALSE /\ stopped' = now
    /\ mpc' = "join"
    /\ UNCHANGED <<now, given, current, wake, row, seq, receiver, network>>

JoinedMutant == TRUE
Joined == rpc = "exit"

Join ==
    /\ mpc = "join" /\ Joined
    /\ mpc' = "print"
    /\ UNCHANGED <<now, given, current, wake, row, seq, running, stopped, receiver, network>>

RowLeft == row < duration

PrintRow ==
    /\ mpc = "print" /\ RowLeft
    /\ row' = row + 1
    /\ UNCHANGED <<now, given, current, mpc, wake, seq, running, stopped, receiver, network>>

Return ==
    /\ mpc = "print" /\ ~RowLeft
    /\ mpc' = "done"
    /\ UNCHANGED <<now, given, current, wake, row, seq, running, stopped, receiver, network>>

Main == Begin \/ Send \/ Wake \/ Stop \/ Join \/ PrintRow \/ Return

-----------------------------------------------------------------------------
(* The receiver thread.                                                    *)

KeepsGoingMutant == TRUE
KeepsGoing == running

Check ==
    /\ rpc = "check"
    /\ rpc' = IF KeepsGoing THEN "recv" ELSE "exit"
    /\ UNCHANGED <<now, given, inHand, stats, tail, written, main, network>>

Recv ==
    /\ rpc = "recv" /\ sock # <<>>
    /\ inHand' = Head(sock).sent
    /\ sock' = Tail(sock)
    /\ rpc' = "record"
    /\ UNCHANGED <<now, given, stats, tail, written, main, net, dups>>

UncheckedMutant ==   \* without the test n > 0
    /\ rpc = "recv" /\ sock = <<>>
    /\ rpc' = "record"
    /\ UNCHANGED <<now, given, inHand, stats, tail, written, main, network>>

BlockingMutant == FALSE /\ UNCHANGED vars   \* SO_RCVTIMEO is not set

(* recvfrom gives up after 100 ms with nothing received.                   *)
RecvTimeout ==
    /\ rpc = "recv" /\ sock = <<>>
    /\ rpc' = "check"
    /\ UNCHANGED <<now, given, inHand, stats, tail, written, main, network>>

SecIndexMutant == Second(now - start)
SecIndex == Second(now) - Second(start)

InTableMutant == SecIndex >= 0 /\ SecIndex <= MAXI
InTable == SecIndex >= 0 /\ SecIndex < MAXI

(* gettimeofday, and the row of the second the clock now shows.            *)
Record ==
    /\ rpc = "record"
    /\ \/ /\ InTable
          /\ stats' = [stats EXCEPT ![SecIndex].packets = @ + 1,
                                    ![SecIndex].trtt = @ + (now - inHand)]
          /\ written' = written \cup {SecIndex}
       \/ ~InTable /\ UNCHANGED <<stats, written>>
    /\ tail' = IF running THEN tail ELSE tail + 1
    /\ rpc' = "check" /\ inHand' = None
    /\ UNCHANGED <<now, given, main, network>>

Receiver == Check \/ Recv \/ RecvTimeout \/ Record

-----------------------------------------------------------------------------
(* The path to the server and back, and the clock.                         *)

Arrive ==
    \E p \in net :
        /\ sock' = IF Len(sock) < SockCap THEN Append(sock, p) ELSE sock
        /\ \/ net' = net \ {p} /\ UNCHANGED dups
           \/ /\ "dup" \in Faults /\ dups < MaxDups
              /\ dups' = dups + 1 /\ UNCHANGED net
        /\ UNCHANGED <<now, given, main, receiver>>

Lose ==
    /\ "loss" \in Faults
    /\ \E p \in net : net' = net \ {p}
    /\ UNCHANGED <<now, given, sock, dups, main, receiver>>

Tick ==
    /\ now < MaxTime
    /\ now' = now + 1
    /\ UNCHANGED <<given, main, receiver, network>>

Done == mpc = "done" /\ rpc = "exit" /\ UNCHANGED vars

Next == Main \/ Receiver \/ Arrive \/ Lose \/ Tick \/ Done

(* Both threads are scheduled and the clock advances; the network promises *)
(* nothing.                                                                *)
Fairness == WF_vars(Main) /\ WF_vars(Receiver) /\ WF_vars(Tick)

Spec == Init /\ [][Next]_vars /\ Fairness

-----------------------------------------------------------------------------
(* Properties.                                                             *)

(* The types of both threads' state, and what each position of a thread    *)
(* says of what it holds.                                                  *)
TypeOK ==
    /\ now \in 0..MaxTime /\ start \in 0..(TicksPerSec - 1) /\ start <= now
    /\ duration \in Int /\ interval \in Int
    /\ current \in 0..now /\ wake \in 0..MaxTime
    /\ running \in BOOLEAN
    /\ stats \in [Rows -> [packets : Nat, trtt : Nat]]
    /\ mpc \in {"begin", "loop", "sleep", "join", "print", "done"}
    /\ rpc \in {"check", "recv", "record", "exit"}
    /\ inHand \in start..now \cup {None} /\ (rpc = "record" => inHand # None)
    /\ row \in Nat /\ seq \in Nat \ {0} /\ dups \in 0..MaxDups
    /\ net \subseteq Packets /\ \A p \in net : start <= p.sent /\ p.sent <= now
    /\ sock \in Seq(Packets)
    /\ \A i \in DOMAIN sock : start <= sock[i].sent /\ sock[i].sent <= now
    /\ stopped \in 0..now \cup {None} /\ tail \in Nat /\ written \subseteq Int

(* While the table is printed nothing writes to it, although the receiver  *)
(* shares it with no lock: the join orders the last write before the first *)
(* read.                                                                   *)
TableFinal == [][(mpc \in {"print", "done"}) => UNCHANGED stats]_vars

(* After running is cleared the receiver records at most the one reply it  *)
(* was waiting for or holding: a stream of replies cannot keep it going.   *)
TailBound == tail <= 1

(* Every row that is written or printed is a row of the table, for every   *)
(* argument and however late a reply is.                                   *)
InBounds ==
    /\ written \subseteq Rows
    /\ mpc = "print" /\ RowLeft => row \in Rows

(* A reply is counted in the row of the second in which it is recorded,    *)
(* seconds being those of the clock, although the test may start anywhere  *)
(* in one: a row is empty until its second has come, and no average that   *)
(* is printed is longer than from the start to the end of its second.      *)
LastTick(i) == (Second(start) + i + 1) * TicksPerSec - 1
FiledInItsSecond ==
    \A i \in Rows :
        /\ stats[i].packets > 0 => Second(now) - Second(start) >= i
        /\ stats[i].trtt <= stats[i].packets * (LastTick(i) - start)

(* The test stops in a second of the clock at least duration after the one *)
(* it started in, so it is more than duration - 1 seconds long.  (It need  *)
(* not be the duration seconds that the program announces.)                *)
LengthBound == stopped # None => stopped - start > (duration - 1) * TicksPerSec

(* The program ends and the receiver with it, whatever the network does.   *)
Terminates == <>(mpc = "done" /\ rpc = "exit")
=============================================================================
