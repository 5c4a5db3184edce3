----------------------------- MODULE VideoStream -----------------------------
(***************************************************************************)
(* The streaming half of Assignment10/Part 1: the loop of client.cpp, run  *)
(* by each viewer, and videoserver.cpp.  A viewer asks for every frame     *)
(* with an "ALIVE" datagram and waits for it without a timer; the server   *)
(* answers each datagram it reads with at most one frame.                  *)
(*                                                                         *)
(* Datagrams are counted, not read: ALIVE is always the same, and whether  *)
(* a frame decodes only decides what the window shows.                     *)
(***************************************************************************)
EXTENDS Naturals, Sequences

CONSTANTS Clients,   \* the viewers
          Nobody,    \* not a viewer
          SockCap,   \* datagrams the server's socket buffer holds
          MaxDups,   \* bound: duplications by the network
          Lossy,     \* the viewers whose datagrams the faults below may hit
          FaultSets  \* the environments: what may go wrong in each

(* "loss" and "dup": a datagram of a viewer in Lossy disappears, or is     *)
(* delivered twice.  "skip": the camera gives no frame, the encoder no     *)
(* bytes, or the frame does not fit a datagram, and nothing is sent.       *)
FaultKinds == {"loss", "dup", "skip"}

ASSUME VideoAssumption ==
    /\ Clients # {} /\ Nobody \notin Clients
    /\ SockCap \in Nat \ {0} /\ MaxDups \in Nat
    /\ Lossy \subseteq Clients /\ FaultSets \subseteq SUBSET FaultKinds

VARIABLES
    faults,  \* what may go wrong in this execution
    cpc,     \* where each viewer's loop stands
    key,     \* an 'x' waits in the window's queue
    alive,   \* ALIVE datagrams of each viewer on their way
    sockq,   \* the server's socket buffer: whom each datagram is from
    srv,     \* clientAddress while a request is being served
    frames,  \* frames on their way to each viewer
    dups     \* duplications so far

vars == <<faults, cpc, key, alive, sockq, srv, frames, dups>>

Init ==
    /\ faults \in FaultSets
    /\ cpc = [c \in Clients |-> "send"] /\ key = [c \in Clients |-> FALSE]
    /\ alive = [c \in Clients |-> 0] /\ frames = [c \in Clients |-> 0]
    /\ sockq = <<>> /\ srv = Nobody /\ dups = 0

-----------------------------------------------------------------------------
(* The viewer.  (An operator named ...Mutant is a mistake one could make in*)
(* the definition below it; no behaviour of the system uses it.)           *)

SendAlive(c) ==
    /\ cpc[c] = "send"
    /\ alive' = [alive EXCEPT ![c] = @ + 1]
    /\ cpc' = [cpc EXCEPT ![c] = "recv"]
    /\ UNCHANGED <<faults, key, sockq, srv, frames, dups>>

FrameWaitsMutant(c) == TRUE
FrameWaits(c) == frames[c] > 0

LeavesMutant(c) == FALSE
Leaves(c) == key[c]

ShowFrameMutant(c) ==   \* a timer ends the wait
    /\ cpc[c] = "recv"
    /\ frames' = [frames EXCEPT ![c] = IF @ > 0 THEN @ - 1 ELSE @]
    /\ cpc' = [cpc EXCEPT ![c] = IF Leaves(c) THEN "closed" ELSE "send"]
    /\ UNCHANGED <<faults, key, alive, sockq, srv, dups>>

(* recvfrom returns only with a frame; the frame is shown, and then, and   *)
(* only then, the keyboard is looked at.                                   *)
ShowFrame(c) ==
    /\ cpc[c] = "recv" /\ FrameWaits(c)
    /\ frames' = [frames EXCEPT ![c] = @ - 1]
    /\ cpc' = [cpc EXCEPT ![c] = IF Leaves(c) THEN "closed" ELSE "send"]
    /\ UNCHANGED <<faults, key, alive, sockq, srv, dups>>

Viewer(c) == SendAlive(c) \/ ShowFrame(c)

(* The person at the window.                                               *)
PressX(c) ==
    /\ cpc[c] # "closed" /\ ~key[c]
    /\ key' = [key EXCEPT ![c] = TRUE]
    /\ UNCHANGED <<faults, cpc, alive, sockq, srv, frames, dups>>

-----------------------------------------------------------------------------
(* The server.                                                             *)

ServerRecv ==
    /\ srv = Nobody /\ sockq # <<>>
    /\ srv' = Head(sockq) /\ sockq' = Tail(sockq)
    /\ UNCHANGED <<faults, cpc, key, alive, frames, dups>>

(* Nothing for 200 ms: recvfrom fails and the loop begins again.           *)
ServerTimeout == srv = Nobody /\ sockq = <<>> /\ UNCHANGED vars

AddresseeMutant == IF sockq = <<>> THEN srv ELSE Head(sockq)
Addressee == srv

ServerReply ==
    /\ srv # Nobody
    /\ frames' = [frames EXCEPT ![Addressee] = @ + 1]
    /\ srv' = Nobody
    /\ UNCHANGED <<faults, cpc, key, alive, sockq, dups>>

(* An empty frame, an empty encoding or a sendto that fails: the request   *)
(* is forgotten.                                                           *)
ServerSkip ==
    /\ "skip" \in faults
    /\ srv # Nobody
    /\ srv' = Nobody
    /\ UNCHANGED <<faults, cpc, key, alive, sockq, frames, dups>>

Server == ServerRecv \/ ServerTimeout \/ ServerReply \/ ServerSkip

-----------------------------------------------------------------------------
(* UDP.                                                                    *)

(* An ALIVE reaches the server's socket, or finds it full.                 *)
Arrive(c) ==
    /\ alive[c] > 0
    /\ \/ alive' = [alive EXCEPT ![c] = @ - 1] /\ UNCHANGED dups
       \/ /\ "dup" \in faults /\ c \in Lossy /\ dups < MaxDups
          /\ dups' = dups + 1
          /\ UNCHANGED alive
    /\ sockq' = IF Len(sockq) < SockCap THEN Append(sockq, c) ELSE sockq
    /\ UNCHANGED <<faults, cpc, key, srv, frames>>

Lose(c) ==
    /\ "loss" \in faults /\ c \in Lossy
    /\ \/ /\ alive[c] > 0
          /\ alive' = [alive EXCEPT ![c] = @ - 1]
          /\ UNCHANGED frames
       \/ /\ frames[c] > 0
          /\ frames' = [frames EXCEPT ![c] = @ - 1]
          /\ UNCHANGED alive
    /\ UNCHANGED <<faults, cpc, key, sockq, srv, dups>>

-----------------------------------------------------------------------------
Next == \/ Server
        \/ \E c \in Clients : Viewer(c) \/ PressX(c) \/ Arrive(c) \/ Lose(c)

(* Every process runs, and a datagram that is not lost arrives.  Nobody    *)
(* has to press a key.                                                     *)
Fairness ==
    /\ WF_vars(Server)
    /\ \A c \in Clients : WF_vars(Viewer(c)) /\ WF_vars(Arrive(c))

Spec == Init /\ [][Next]_vars /\ Fairness

-----------------------------------------------------------------------------
(* Properties.                                                             *)

(* The types of the viewers' and the server's state and of the network.    *)
TypeOK ==
    /\ faults \in FaultSets
    /\ cpc \in [Clients -> {"send", "recv", "closed"}]
    /\ key \in [Clients -> BOOLEAN]
    /\ alive \in [Clients -> Nat] /\ frames \in [Clients -> Nat]
    /\ sockq \in Seq(Clients) /\ srv \in Clients \cup {Nobody}
    /\ dups \in Nat

(* Datagrams of viewer c that wait in the server's socket.                 *)
Queued(c) == {k \in 1..Len(sockq) : sockq[k] = c}

(* No request of c, and no answer to one, is anywhere in the system.       *)
NothingFor(c) ==
    alive[c] = 0 /\ frames[c] = 0 /\ srv # c /\ Queued(c) = {}

(* The pull protocol keeps at most one datagram per viewer in the system,  *)
(* as long as the network makes no copies: a request, then its frame, and  *)
(* neither while the viewer is not waiting.                                *)
OneOutstanding ==
    "dup" \notin faults => \A c \in Clients :
        /\ alive[c] + frames[c] <= 1
        /\ alive[c] + frames[c] = 1 => srv # c /\ Queued(c) = {}
        /\ srv = c => Queued(c) = {}
        /\ \A j, k \in Queued(c) : j = k
        /\ cpc[c] # "recv" => NothingFor(c)

(* A viewer whose request or frame is gone never sends another: the loop   *)
(* has no way back to sendto.                                              *)
Starved(c) == cpc[c] = "recv" /\ NothingFor(c)
NoRecovery ==
    [][\A c \in Clients : Starved(c) => Starved(c)']_vars

(* What the prompt says: 'x' to exit.                                      *)
XExits == \A c \in Clients : key[c] ~> cpc[c] = "closed"
=============================================================================
