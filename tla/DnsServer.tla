------------------------------ MODULE DnsServer ------------------------------
(***************************************************************************)
(* Name resolution in Assignment10/Part 1: Server.c, which serves one TCP  *)
(* connection at a time and looks the name up in a text file it opens anew *)
(* for every request, and the first half of client.cpp, which asks once    *)
(* and then streams from whatever address it holds.                        *)
(*                                                                         *)
(* The request and the reply are one C struct, sent with one write and     *)
(* read with one read: what a read finds is the whole struct, the part of  *)
(* it that has arrived, or the end of the connection.  Names and addresses *)
(* are model values, and Prefixes says what one of them leaves in a field  *)
(* when the struct is cut inside it: the rest of the field is zero, so a   *)
(* shorter name or address, which may be a valid one.  The transaction     *)
(* number is not looked at by either side and is left out.                 *)
(***************************************************************************)
EXTENDS Naturals, Sequences

CONSTANTS Clients,    \* the clients, one connection each
          Nobody,     \* not a client
          QName,      \* the domain name each client asks for
          Backlog,    \* connections that wait to be accepted (listen)
          Files,      \* the contents dns_records.txt may have
          NoFile,     \* fopen fails
          NotFound, Empty, Junk,  \* "NOT_FOUND", "" and an uninitialised buffer
          Prefixes(_),\* what a word cut short leaves
          FaultSets   \* the environments: what may go wrong in each

(* "split": a struct arrives in two parts.  "die": a client ends after     *)
(* connecting.  "stall": it stays connected and never writes.  "reset":    *)
(* the connection breaks and read fails.  "timeout": connect gives up      *)
(* before there is room in the backlog.                                    *)
FaultKinds == {"split", "die", "stall", "reset", "timeout"}

(* A file is the sequence of its words; bol marks the first of a line.     *)
(* fscanf's %s never reads an empty word.                                  *)
ASSUME DnsAssumption ==
    /\ Nobody \notin Clients
    /\ Backlog \in Nat \ {0}
    /\ NoFile \notin Files /\ NotFound # Empty
    /\ \A c \in Clients : Empty \in Prefixes(QName[c])
    /\ \A f \in Files : /\ Len(f) \in Nat /\ DOMAIN f = 1..Len(f)
                        /\ \A k \in 1..Len(f) : f[k].word # Empty /\ f[k].bol \in BOOLEAN
    /\ FaultSets \subseteq SUBSET FaultKinds

VARIABLES
    faults,   \* what may go wrong in this execution
    cpc,      \* where each client stands
    addr,     \* dns_req.ipaddr in each client
    up,       \* what each connection holds for the server to read
    down,     \* what it holds for the client to read
    backlog,  \* connections waiting for accept
    spc,      \* where the server's loop stands
    cur,      \* the connection being served
    qname,    \* dns_req.qname in the server
    file      \* dns_records.txt now

clients == <<cpc, addr>>
server == <<backlog, spc, cur, qname>>
vars == <<faults, cpc, addr, up, down, backlog, spc, cur, qname, file>>

Nothing == "nothing"
Part == "part"
Whole == "whole"
Closed == "closed"

Init ==
    /\ faults \in FaultSets
    /\ cpc = [c \in Clients |-> "start"] /\ addr = [c \in Clients |-> Empty]
    /\ up = [c \in Clients |-> Nothing]
    /\ down = [c \in Clients |-> [holds |-> Nothing, ip |-> Empty]]
    /\ backlog = <<>> /\ spc = "accept" /\ cur = Nobody /\ qname = Empty
    /\ file \in Files \cup {NoFile}

-----------------------------------------------------------------------------
(* The lookup.  fscanf takes the words two by two wherever the lines end,  *)
(* and the first domain that matches wins.  A last word without a partner  *)
(* is still compared, with the address of the pair before it in file_ip.   *)

Domains(f) == {k \in 1..Len(f) : k % 2 = 1}
Hits(f, name) == {k \in Domains(f) : f[k].word = name}
FirstOf(S) == CHOOSE k \in S : \A j \in S : k <= j

AddressAt(f, k) ==
    IF k < Len(f) THEN f[k + 1].word ELSE IF k > 1 THEN f[k - 1].word ELSE Junk

LookupMutant(f, name) ==   \* without the "break"
    IF f = NoFile \/ Hits(f, name) = {} THEN NotFound
    ELSE AddressAt(f, CHOOSE k \in Hits(f, name) : \A j \in Hits(f, name) : j <= k)

Lookup(f, name) ==
    IF f = NoFile \/ Hits(f, name) = {} THEN NotFound
    ELSE AddressAt(f, FirstOf(Hits(f, name)))

-----------------------------------------------------------------------------
(* The client.  (An operator named ...Mutant is a mistake one could make in*)
(* a definition below it; no behaviour of the system uses it.)             *)

RoomMutant == Len(backlog) <= Backlog
Room == Len(backlog) < Backlog

(* connect succeeds once the connection is in the server's backlog.        *)
Connect(c) ==
    /\ cpc[c] = "start" /\ spc # "exited" /\ Room
    /\ cpc' = [cpc EXCEPT ![c] = "connected"]
    /\ backlog' = Append(backlog, c)
    /\ UNCHANGED <<faults, addr, up, down, spc, cur, qname, file>>

(* connect fails, refused or timed out: error() exits.                     *)
Refused(c) ==
    /\ cpc[c] = "start"
    /\ spc = "exited" \/ ("timeout" \in faults /\ ~Room)
    /\ cpc' = [cpc EXCEPT ![c] = "exit"]
    /\ UNCHANGED <<faults, addr, up, down, server, file>>

Write(c) ==
    /\ cpc[c] = "connected"
    /\ cpc' = [cpc EXCEPT ![c] = "wait"]
    /\ \/ up' = [up EXCEPT ![c] = Whole]
       \/ "split" \in faults /\ up' = [up EXCEPT ![c] = Part]
    /\ UNCHANGED <<faults, addr, down, server, file>>

(* One read, whose result is ignored: the reply's last field, which the    *)
(* request cleared, holds as much of the address as has come.              *)
Received(reply) ==
    IF reply.holds = Whole THEN {reply.ip}
    ELSE IF reply.holds = Part THEN {reply.ip} \cup Prefixes(reply.ip)
    ELSE {Empty}

ReadReply(c) ==
    /\ cpc[c] = "wait" /\ down[c].holds # Nothing
    /\ \E ip \in Received(down[c]) :
          /\ addr' = [addr EXCEPT ![c] = ip]
          /\ cpc' = [cpc EXCEPT ![c] = IF ip = NotFound THEN "exit" ELSE "stream"]
    /\ UNCHANGED <<faults, up, down, server, file>>

Client(c) == Connect(c) \/ Refused(c) \/ Write(c) \/ ReadReply(c)

(* The process ends; what it wrote stays readable, then comes the end.     *)
Die(c) ==
    /\ "die" \in faults /\ cpc[c] \in {"connected", "wait"}
    /\ cpc' = [cpc EXCEPT ![c] = "dead"]
    /\ up' = [up EXCEPT ![c] = IF @ = Nothing THEN Closed ELSE @]
    /\ UNCHANGED <<faults, addr, down, server, file>>

Stall(c) ==
    /\ "stall" \in faults /\ cpc[c] = "connected"
    /\ cpc' = [cpc EXCEPT ![c] = "stalled"]
    /\ UNCHANGED <<faults, addr, up, down, server, file>>

(* The second part of a struct catches up with the first.                  *)
Rest(c) ==
    /\ \/ /\ up[c] = Part
          /\ up' = [up EXCEPT ![c] = Whole]
          /\ UNCHANGED down
       \/ /\ down[c].holds = Part
          /\ down' = [down EXCEPT ![c].holds = Whole]
          /\ UNCHANGED up
    /\ UNCHANGED <<faults, clients, server, file>>

-----------------------------------------------------------------------------
(* The server.                                                             *)

Accept ==
    /\ spc = "accept" /\ backlog # <<>>
    /\ cur' = Head(backlog) /\ backlog' = Tail(backlog)
    /\ spc' = "read"
    /\ UNCHANGED <<faults, clients, up, down, qname, file>>

ReadableMutant(c) == up[c] = Whole
Readable(c) == up[c] # Nothing

(* read blocks until something arrives and takes what there is.  dns_req   *)
(* was cleared: a request of which too little came has its name cut short, *)
(* and the shorter name is the one looked up.  What came too late stays in *)
(* the connection.                                                         *)
Read ==
    /\ spc = "read" /\ Readable(cur)
    /\ \/ up[cur] \in {Whole, Part} /\ qname' = QName[cur]
       \/ up[cur] = Part /\ qname' \in Prefixes(QName[cur])
       \/ up[cur] = Closed /\ qname' = Empty
    /\ up' = [up EXCEPT ![cur] = IF @ = Whole THEN Nothing ELSE @]
    /\ spc' = "answer"
    /\ UNCHANGED <<faults, clients, down, backlog, cur, file>>

(* accept, read or write fails: error() ends the server, and with it every *)
(* connection.                                                             *)
ServerDies ==
    /\ "reset" \in faults
    /\ spc \in {"read", "answer"} \/ (spc = "accept" /\ backlog # <<>>)
    /\ spc' = "exited"
    /\ down' = [c \in Clients |->
                   IF c = cur \/ \E k \in 1..Len(backlog) : backlog[k] = c
                   THEN [holds |-> Closed, ip |-> Empty] ELSE down[c]]
    /\ backlog' = <<>>
    /\ UNCHANGED <<faults, clients, up, cur, qname, file>>

(* Open the file, search it, write the reply and close; the next iteration *)
(* clears dns_req.  A connection closed while part of the request is unread*)
(* may be reset before the reply is read.                                  *)
Answer ==
    /\ spc = "answer"
    /\ \E h \in {Whole, Part, Closed} :
          /\ h = Part => "split" \in faults
          /\ h = Closed => up[cur] \in {Part, Whole}
          /\ down' = [down EXCEPT ![cur] = [holds |-> h, ip |-> Lookup(file, qname)]]
    /\ up' = [up EXCEPT ![cur] = Nothing]
    /\ spc' = "accept" /\ cur' = Nobody /\ qname' = Empty
    /\ UNCHANGED <<faults, clients, backlog, file>>

Server == Accept \/ Read \/ Answer

(* Somebody replaces dns_records.txt.                                      *)
EditFile ==
    /\ \E f \in (Files \cup {NoFile}) \ {file} : file' = f
    /\ UNCHANGED <<faults, clients, up, down, server>>

-----------------------------------------------------------------------------
Next ==
    \/ Server \/ ServerDies \/ EditFile
    \/ \E c \in Clients : Client(c) \/ Die(c) \/ Stall(c) \/ Rest(c)

(* Every process runs, and what was written arrives.                       *)
Fairness ==
    /\ WF_vars(Server)
    /\ \A c \in Clients : WF_vars(Client(c)) /\ WF_vars(Rest(c))

Spec == Init /\ [][Next]_vars /\ Fairness

-----------------------------------------------------------------------------
(* Properties.                                                             *)

(* The types of the clients' and the server's state and of the connections.*)
TypeOK ==
    /\ faults \in FaultSets
    /\ cpc \in [Clients -> {"start", "connected", "wait", "stream", "exit",
                            "dead", "stalled"}]
    /\ \A c \in Clients : up[c] \in {Nothing, Part, Whole, Closed}
    /\ \A c \in Clients : down[c].holds \in {Nothing, Part, Whole, Closed}
    /\ backlog \in Seq(Clients) /\ Len(backlog) <= Backlog
    /\ spc \in {"accept", "read", "answer", "exited"}
    /\ cur \in Clients \cup {Nobody}
    /\ file \in Files \cup {NoFile}

(* What the file says of a name, line by line: the second word of the      *)
(* first line that begins with it.                                         *)
LinesOf(f, name) == {k \in 1..Len(f) : f[k].bol /\ f[k].word = name}
LineLookup(f, name) ==
    IF f = NoFile THEN NotFound
    ELSE IF LinesOf(f, name) = {} THEN NotFound
    ELSE LET k == FirstOf(LinesOf(f, name))
         IN IF k < Len(f) /\ ~f[k + 1].bol THEN f[k + 1].word ELSE Empty

(* Two words on every line, as in the file of the repository.              *)
WellFormed(f) ==
    f = NoFile \/ (Len(f) % 2 = 0 /\ \A k \in 1..Len(f) : f[k].bol <=> k % 2 = 1)

(* To its clients the server is the atomic resolver of module Resolver: a  *)
(* client is told what the file says, at one moment while it is connected, *)
(* of the name it asked for itself, and acts on that and on nothing else;  *)
(* an answer never comes from an older file, nor from the request of the   *)
(* client served before.  Only where requests and replies are cut in two   *)
(* or connections are reset may it be told what the file says of a         *)
(* beginning of its name, act on a beginning of its answer, or on none.    *)
(* (For files with two words a line.)                                      *)
StandingOf(c) ==
    CASE cpc[c] = "start" -> "idle"
      [] cpc[c] \in {"connected", "wait", "stalled"} ->
            IF down[c].holds = Nothing THEN "asking" ELSE "told"
      [] cpc[c] = "stream" -> "streams"
      [] cpc[c] = "exit" -> "quit"
      [] cpc[c] = "dead" -> "gone"

AnswerOf(c) ==
    CASE cpc[c] \in {"stream", "exit"} -> addr[c]
      [] cpc[c] \in {"wait", "stalled"} /\ down[c].holds \in {Whole, Part} -> down[c].ip
      [] OTHER -> Empty

Records == Files \cup {NoFile}
Says(f, c) == LineLookup(f, QName[c])
SaysOfCut(f, c) == {LineLookup(f, name) : name \in Prefixes(QName[c])}

Atomic == INSTANCE Resolver WITH
    Files <- Records, Mistakes <- SaysOfCut, Cut <- Prefixes,
    breakable <- faults \cap {"split", "reset"} # {},
    asks <- [c \in Clients |-> StandingOf(c)],
    answer <- [c \in Clients |-> AnswerOf(c)]

ActsAsResolver == Atomic!Spec

(* The server takes connections one after the other, so every client gets  *)
(* into the backlog, unless it gives up, and every one that waits for its  *)
(* answer gets one, or is told that there is none, unless some client      *)
(* connects and never writes.                                              *)
EveryoneAnswered ==
    \A c \in Clients :
        ((cpc[c] = "start" ~> cpc[c] # "start") /\ (cpc[c] = "wait" ~> cpc[c] # "wait"))
          \/ <>(\E d \in Clients : cpc[d] = "stalled")

(* The client streams "from that newly discovered IP address".             *)
StreamsFromDiscovered ==
    \A c \in Clients : cpc[c] = "stream" => addr[c] \notin {Empty, NotFound}
=============================================================================
