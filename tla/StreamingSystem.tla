-------------------------- MODULE StreamingSystem --------------------------
(***************************************************************************)
(* Assignment10/Part 1 as a whole: a viewer asks the resolver where the    *)
(* video is, and streams from the address it was told until it is closed.  *)
(* The resolver is the abstract one of module Resolver, which DnsServer    *)
(* implements; the stream is that of VideoStream.  What joins them is one  *)
(* field: dns_req.ipaddr of client.cpp, to which every ALIVE is sent and   *)
(* which is never looked up again.                                         *)
(***************************************************************************)
EXTENDS VideoStream

CONSTANTS Addresses,       \* the texts inet_pton takes
          Zero,            \* 0.0.0.0, what bzero leaves in sin_addr
          VideoAt,         \* where each viewer's machine finds videoserver
          Records,         \* what dns_records.txt may say of the domain
          OthersSay,       \* ... and of a name the domain begins with
          Prefixes(_),     \* what an address cut short leaves
          NotFound, Empty  \* "NOT_FOUND" and the empty string

(* The domain all viewers ask for has one address at a time.  videoserver  *)
(* listens at every address of its host, so a viewer may find it at more   *)
(* than one; at Zero, to which Linux sends as to the loopback, only if it  *)
(* runs on that host too.                                                  *)
ASSUME SystemAssumption ==
    /\ {NotFound, Empty} \cap Addresses = {}
    /\ VideoAt \in [Clients -> SUBSET (Addresses \cup {Zero})]

VARIABLES breakable,  \* TCP connections may break
          file,       \* the address in the records now
          asks,       \* how far each viewer is with its question
          answer      \* dns_req.ipaddr in each viewer

Address(f, c) == f
AnotherAddress(f, c) == OthersSay
R == INSTANCE Resolver WITH
    Files <- Records, Says <- Address, Mistakes <- AnotherAddress, Cut <- Prefixes

resolver == <<breakable, file, asks, answer>>
systemVars == <<vars, resolver>>

SystemInit == Init /\ R!Init

-----------------------------------------------------------------------------
(* (An operator named ...Mutant is a mistake one could make in the         *)
(* definition below it; no behaviour of the system uses it.)               *)

Resolve(c) == (R!Ask(c) \/ R!Tell(c) \/ R!Act(c)) /\ UNCHANGED vars

(* Broken connections, a viewer that ends, an edit of the records.         *)
ResolverFaults ==
    /\ \/ R!Break \/ R!Edit
       \/ \E c \in Clients :
             R!Misread(c) \/ R!Refuse(c) \/ R!ActOnCut(c) \/ R!Leave(c)
    /\ UNCHANGED vars

(* Only a viewer that was not told NOT_FOUND gets to its socket, its window*)
(* and its loop.                                                           *)
Opened(c) == asks[c] = "streams"

StreamStep(c) == Opened(c) /\ Viewer(c) /\ UNCHANGED resolver

Press(c) == Opened(c) /\ PressX(c) /\ UNCHANGED resolver

SinAddrMutant(c) == Zero   \* without inet_pton

(* inet_pton, whose result is ignored, fills in what parses and nothing    *)
(* else.                                                                   *)
SinAddr(c) == IF answer[c] \in Addresses THEN answer[c] ELSE Zero

(* Whoever is at another address does not speak this protocol.             *)
Deliver(c) ==
    /\ \/ SinAddr(c) \in VideoAt[c] /\ Arrive(c)
       \/ /\ SinAddr(c) \notin VideoAt[c] /\ alive[c] > 0
          /\ alive' = [alive EXCEPT ![c] = @ - 1]
          /\ UNCHANGED <<faults, cpc, key, sockq, srv, frames, dups>>
    /\ UNCHANGED resolver

VideoServer == Server /\ UNCHANGED resolver

Loses(c) == Lose(c) /\ UNCHANGED resolver

SystemNext ==
    \/ VideoServer \/ ResolverFaults
    \/ \E c \in Clients :
          Resolve(c) \/ StreamStep(c) \/ Press(c) \/ Deliver(c) \/ Loses(c)

(* The fairness of VideoStream; the properties ask none of the resolver.   *)
SystemFairness ==
    /\ WF_systemVars(VideoServer)
    /\ \A c \in Clients :
          WF_systemVars(StreamStep(c)) /\ WF_systemVars(Deliver(c))

System == SystemInit /\ [][SystemNext]_systemVars /\ SystemFairness

-----------------------------------------------------------------------------
(* Properties.                                                             *)

(* A viewer that streams from an address at which there is no video server:*)
(* the one it was told, or none, and then its own machine.                 *)
Misled(c) ==
    /\ asks[c] = "streams"
    /\ \/ answer[c] \in Addresses \ VideoAt[c]
       \/ answer[c] \notin Addresses /\ Zero \notin VideoAt[c]

(* A viewer on a clean path that is not misled.                            *)
Served(c) == c \notin Lossy /\ "skip" \notin faults /\ asks[c] = "streams" /\ ~Misled(c)

(* Viewers do not disturb each other: whatever is lost or duplicated on    *)
(* the way of the others, whatever becomes of the records and of the       *)
(* resolver, a viewer on a clean path that streams from where the video    *)
(* server is gets every frame it asks for, although one server serves them *)
(* one at a time.  (The server's socket buffer must have room for the      *)
(* copies of the others.)                                                  *)
TheServedStream ==
    \A c \in Clients : Served(c) /\ cpc[c] = "recv" ~> cpc[c] # "recv"

(* ... and leaves when its key is pressed.                                 *)
TheServedExit ==
    \A c \in Clients : Served(c) /\ key[c] ~> cpc[c] = "closed"

(* The address is looked up once.  A viewer that was told another one, or  *)
(* none on a machine without a video server, sends one ALIVE to it and     *)
(* waits for ever, without a frame and without a look at its keyboard, even*)
(* if the records are put right a moment later.                            *)
MisledForEver ==
    [][\A c \in Clients : Misled(c) =>
          /\ Misled(c)'
          /\ frames'[c] = 0 /\ cpc'[c] # "closed"
          /\ cpc[c] = "recv" => cpc'[c] = "recv"]_systemVars
=============================================================================
