-------------------------------- MODULE Ping --------------------------------
(***************************************************************************)
(* The UDP ping of Assignment10/Part 2: q1client.c sends MsgCount probes,  *)
(* one per iteration, and waits for an answer for at most one second       *)
(* (SO_RCVTIMEO) before the next; q1server.c echoes every datagram.        *)
(* Between them is UDP: datagrams are lost, duplicated, reordered or       *)
(* simply slower than the client's timer.                                  *)
(*                                                                         *)
(* A datagram is its sequence number.  The payload, the addresses and the  *)
(* clock are left out: trtt is the set of probes whose round-trip time has *)
(* been added to the sum.                                                  *)
(***************************************************************************)
EXTENDS Naturals, Sequences, FiniteSets

CONSTANTS MsgCount,     \* argv[3], the number of probes
          SockCap,      \* datagrams the client's socket buffer holds
          MaxDups,      \* bound: duplications by the network
          FaultSets     \* the environments: what may go wrong in each

(* "loss": a datagram disappears.  "dup": it is delivered twice.           *)
(* "reorder": a newer one overtakes an older one.  "late": the timer       *)
(* expires while the answer is still on its way.  "sendfail": sendto       *)
(* returns -1.                                                             *)
FaultKinds == {"loss", "dup", "reorder", "late", "sendfail"}

ASSUME PingAssumption ==
    /\ MsgCount \in Nat
    /\ SockCap \in Nat \ {0}
    /\ MaxDups \in Nat
    /\ FaultSets \subseteq SUBSET FaultKinds

VARIABLES
    faults,      \* what may go wrong in this execution
    pc,          \* where the client's loop stands
    i,           \* the probe of this iteration
    recvcnt,     \* answers counted as received
    lost_count,  \* iterations counted as lost
    trtt,        \* probes whose round-trip time is in the sum
    unmatched,   \* "Received out-of-order packet" lines printed so far
    toServer,    \* probes on their way to the server
    srv,         \* the datagram in the server's buffer, NoProbe if none
    toClient,    \* answers on their way to the client
    sockbuf,     \* answers in the client's socket buffer, oldest first
    dups,        \* duplications so far
    echoed,      \* history: probes the server has sent back
    dropped      \* history: probes lost on either way or never sent

client == <<pc, i, recvcnt, lost_count, trtt, unmatched>>
server == <<srv, echoed>>
vars == <<faults, pc, i, recvcnt, lost_count, trtt, unmatched, toServer, srv,
          toClient, sockbuf, dups, echoed, dropped>>

Probe == 1..MsgCount
NoProbe == 0

Init ==
    /\ faults \in FaultSets
    /\ pc = "send" /\ i = 1
    /\ recvcnt = 0 /\ lost_count = 0 /\ trtt = {} /\ unmatched = 0
    /\ toServer = {} /\ srv = NoProbe /\ toClient = {}
    /\ sockbuf = <<>> /\ dups = 0
    /\ echoed = {} /\ dropped = {}

-----------------------------------------------------------------------------
(* The client.  (An operator named ...Mutant is a mistake one could make in *)
(* the definition below it; no behaviour of the system uses it.)           *)

Loops == i <= MsgCount

Send ==
    /\ pc = "send" /\ Loops
    /\ toServer' = toServer \cup {i}
    /\ pc' = "recv"
    /\ UNCHANGED <<faults, i, recvcnt, lost_count, trtt, unmatched, server, toClient,
                   sockbuf, dups, dropped>>

SendFailsMutant ==   \* without the "continue"
    /\ "sendfail" \in faults
    /\ pc = "send" /\ Loops
    /\ lost_count' = lost_count + 1
    /\ pc' = "recv"
    /\ dropped' = dropped \cup {i}
    /\ UNCHANGED <<faults, i, recvcnt, trtt, unmatched, toServer, server, toClient,
                   sockbuf, dups>>

(* sendto fails: counted as lost, and "continue" skips the sleep.          *)
SendFails ==
    /\ "sendfail" \in faults
    /\ pc = "send" /\ Loops
    /\ lost_count' = lost_count + 1
    /\ i' = i + 1
    /\ dropped' = dropped \cup {i}
    /\ UNCHANGED <<faults, pc, recvcnt, trtt, unmatched, toServer, server, toClient,
                   sockbuf, dups>>

AnswersMutant(m) == m <= i

(* Only the sequence number is compared.                                   *)
Answers(m) == m = i

(* Whatever is first in the socket buffer is taken for the answer; only    *)
(* its sequence number decides whether it counts.                          *)
Recv ==
    /\ pc = "recv" /\ sockbuf # <<>>
    /\ sockbuf' = Tail(sockbuf)
    /\ \/ /\ Answers(Head(sockbuf))
          /\ recvcnt' = recvcnt + 1
          /\ trtt' = trtt \cup {i}
          /\ UNCHANGED unmatched
       \/ /\ ~Answers(Head(sockbuf))
          /\ unmatched' = unmatched + 1
          /\ UNCHANGED <<recvcnt, trtt>>
    /\ pc' = "sleep"
    /\ UNCHANGED <<faults, i, lost_count, toServer, server, toClient, dups, dropped>>

NothingOnItsWay == toServer = {} /\ srv = NoProbe /\ toClient = {}

TimeoutMutant == FALSE /\ UNCHANGED vars   \* SO_RCVTIMEO is not set

(* SO_RCVTIMEO expires with nothing to read.                               *)
Timeout ==
    /\ pc = "recv" /\ sockbuf = <<>>
    /\ "late" \in faults \/ NothingOnItsWay
    /\ lost_count' = lost_count + 1
    /\ pc' = "sleep"
    /\ UNCHANGED <<faults, i, recvcnt, trtt, unmatched, toServer, server, toClient,
                   sockbuf, dups, dropped>>

Sleep ==
    /\ pc = "sleep"
    /\ i' = i + 1
    /\ pc' = "send"
    /\ UNCHANGED <<faults, recvcnt, lost_count, trtt, unmatched, toServer, server,
                   toClient, sockbuf, dups, dropped>>

(* The loop is over: the statistics are printed and the program ends.      *)
Report ==
    /\ pc = "send" /\ ~Loops
    /\ pc' = "done"
    /\ UNCHANGED <<faults, i, recvcnt, lost_count, trtt, unmatched, toServer, server,
                   toClient, sockbuf, dups, dropped>>

-----------------------------------------------------------------------------
(* UDP.  A channel is the set of datagrams on their way; the oldest of     *)
(* them is the one with the smallest number.                               *)

Deliverable(channel) ==
    {m \in channel : "reorder" \in faults \/ \A n \in channel : m <= n}

(* After a delivery the datagram is gone, or a second copy remains.        *)
Delivered(m, channel, rest) ==
    \/ rest = channel \ {m} /\ UNCHANGED dups
    \/ /\ "dup" \in faults /\ dups < MaxDups
       /\ rest = channel
       /\ dups' = dups + 1

Lose ==
    /\ "loss" \in faults
    /\ \/ \E m \in toServer : /\ toServer' = toServer \ {m}
                              /\ dropped' = dropped \cup {m}
                              /\ UNCHANGED toClient
       \/ \E m \in toClient : /\ toClient' = toClient \ {m}
                              /\ dropped' = dropped \cup {m}
                              /\ UNCHANGED toServer
    /\ UNCHANGED <<faults, client, server, sockbuf, dups>>

(* An answer reaches the client's socket; the kernel drops it when the     *)
(* buffer is full.                                                         *)
Arrive ==
    /\ \E m \in Deliverable(toClient) :
          /\ Delivered(m, toClient, toClient')
          /\ \/ /\ Len(sockbuf) < SockCap
                /\ sockbuf' = Append(sockbuf, m)
                /\ UNCHANGED dropped
             \/ /\ Len(sockbuf) >= SockCap
                /\ dropped' = dropped \cup {m}
                /\ UNCHANGED sockbuf
    /\ UNCHANGED <<faults, client, server, toServer>>

-----------------------------------------------------------------------------
(* The echo server (q1server.c; q2server.c has the same loop).             *)

ServerRecv ==
    /\ srv = NoProbe
    /\ \E m \in Deliverable(toServer) :
          /\ Delivered(m, toServer, toServer')
          /\ srv' = m
    /\ UNCHANGED <<faults, client, echoed, toClient, sockbuf, dropped>>

ServerSend ==
    /\ srv # NoProbe
    /\ \/ /\ toClient' = toClient \cup {srv}
          /\ echoed' = echoed \cup {srv}
          /\ UNCHANGED dropped
       \/ /\ "sendfail" \in faults
          /\ dropped' = dropped \cup {srv}
          /\ UNCHANGED <<toClient, echoed>>
    /\ srv' = NoProbe
    /\ UNCHANGED <<faults, client, toServer, sockbuf, dups>>

-----------------------------------------------------------------------------
Client == Send \/ SendFails \/ Recv \/ Timeout \/ Sleep \/ Report
Server == ServerRecv \/ ServerSend
Network == Lose \/ Arrive

(* The client has returned from main: the echo server goes on waiting.     *)
Done == pc = "done" /\ NothingOnItsWay /\ UNCHANGED vars

Next == Client \/ Server \/ Network \/ Done

(* The client and the server are processes the operating system runs, and  *)
(* what the network does not lose it delivers.                             *)
Fairness == WF_vars(Client) /\ WF_vars(Server) /\ WF_vars(Arrive)

Spec == Init /\ [][Next]_vars /\ Fairness

-----------------------------------------------------------------------------
(* Properties.                                                             *)

(* The types of the client's counters, the channels and the histories.     *)
TypeOK ==
    /\ faults \in FaultSets
    /\ pc \in {"send", "recv", "sleep", "done"}
    /\ i \in 1..(MsgCount + 1)
    /\ recvcnt \in Nat /\ lost_count \in Nat /\ unmatched \in Nat
    /\ trtt \subseteq Probe
    /\ toServer \subseteq Probe /\ toClient \subseteq Probe
    /\ srv \in Probe \cup {NoProbe}
    /\ sockbuf \in Seq(Probe)
    /\ dups \in Nat
    /\ echoed \subseteq Probe /\ dropped \subseteq Probe

(* Iterations of the loop that are behind the client.                      *)
Finished == IF pc = "sleep" THEN i ELSE i - 1

(* The client and the server keep the promise of module Tally, whatever    *)
(* the network does: no turn gets two verdicts (sendto fails and an old    *)
(* answer waits) or none, none is received on the strength of another      *)
(* probe's answer, and the average is that of the received ones.           *)
T == INSTANCE Tally WITH
         N <- MsgCount, turn <- Finished,
         received <- recvcnt, lost <- lost_count, other <- unmatched,
         summed <- trtt, reported <- (pc = "done")
KeepsTally == T!Spec

(* When no answer outlives the client's timer and none is duplicated, the  *)
(* losses counted are the datagrams that were really lost: the percentage  *)
(* printed is the loss rate of the path.                                   *)
LossIsExact ==
    faults \cap {"late", "dup"} = {} /\ pc \in {"send", "done"} =>
        lost_count = Cardinality(dropped)

(* On a path that neither loses nor reorders, one answer slower than the   *)
(* timer is enough: from then on the client reads each answer an iteration *)
(* too late and never counts one as received again.                        *)
OneLateAnswerEndsCounting ==
    [][(faults \subseteq {"late"} /\ MsgCount <= SockCap) =>
          (recvcnt' # recvcnt => lost_count = 0)]_vars

(* SO_RCVTIMEO "prevents the client from hanging": whatever the network    *)
(* does with the probes and the answers, the client gets to its statistics.*)
Terminates == <>(pc = "done")
=============================================================================
