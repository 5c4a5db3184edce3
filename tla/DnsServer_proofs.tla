-------------------------- MODULE DnsServer_proofs --------------------------
(***************************************************************************)
(* The name server behaves like the atomic resolver towards any number of  *)
(* clients, for every backlog, every set of record files with two words a  *)
(* line and every combination of faults.                                   *)
(***************************************************************************)
EXTENDS DnsServer, SequenceTheorems, FiniteSetTheorems, WellFoundedInduction, TLAPS

-----------------------------------------------------------------------------
(* The lookup.                                                             *)

(* A set of numbers that is not empty has a least element: of the intervals*)
(* that end in it one contains no other.                                   *)
LEMMA LeastExists ==
    ASSUME NEW S \in SUBSET Nat, S # {}
    PROVE  FirstOf(S) \in S /\ \A j \in S : FirstOf(S) <= j
<1> DEFINE T == {1..k : k \in S}
<1>1. IsWellFoundedOn(StrictSubsetOrdering(Nat), FiniteSubsetsOf(Nat))
  BY FS_StrictSubsetOrderingWellFounded
<1>2. T \subseteq FiniteSubsetsOf(Nat)
  <2> SUFFICES ASSUME NEW k \in S PROVE 1..k \in FiniteSubsetsOf(Nat)
    OBVIOUS
  <2>1. IsFiniteSet(1..k)
    BY FS_Interval
  <2> QED BY <2>1 DEF FiniteSubsetsOf
<1>3. T # {}
  OBVIOUS
<1>4. PICK x \in T : \A y \in T : <<y, x>> \notin StrictSubsetOrdering(Nat)
  BY <1>1, <1>2, <1>3, WFMin
<1>5. PICK k \in S : x = 1..k
  BY <1>4
<1>6. ASSUME NEW j \in S PROVE k <= j
  <2> SUFFICES ASSUME j < k PROVE FALSE
    OBVIOUS
  <2>1. 1..j \subseteq 1..k /\ k \in 1..k /\ k \notin 1..j
    OBVIOUS
  <2>2. <<1..j, 1..k>> \in StrictSubsetOrdering(Nat)
    BY <2>1 DEF StrictSubsetOrdering
  <2> QED BY <1>4, <1>5, <2>2
<1> QED BY <1>6 DEF FirstOf

(* In a file with two words a line pairs and lines are the same, so fscanf *)
(* finds what a reader of the lines would find.                            *)
LEMMA LookupIsByLine ==
    ASSUME NEW f \in Records, WellFormed(f), NEW name
    PROVE  Lookup(f, name) = LineLookup(f, name)
<1>1. CASE f = NoFile
  BY <1>1 DEF Lookup, LineLookup
<1>2. CASE f \in Files /\ f # NoFile
  <2>1. Len(f) \in Nat /\ Len(f) % 2 = 0
    BY <1>2, DnsAssumption DEF WellFormed
  <2>2. \A k \in 1..Len(f) : f[k].bol <=> k % 2 = 1
    BY <1>2 DEF WellFormed
  <2>3. Hits(f, name) = LinesOf(f, name)
    BY <2>2 DEF Hits, Domains, LinesOf
  <2>4. CASE LinesOf(f, name) = {}
    BY <1>2, <2>3, <2>4 DEF Lookup, LineLookup
  <2>5. CASE LinesOf(f, name) # {}
    <3> DEFINE k == FirstOf(LinesOf(f, name))
    <3>1. k \in 1..Len(f) /\ f[k].bol
      <4>1. LinesOf(f, name) \in SUBSET Nat
        BY <2>1 DEF LinesOf
      <4>2. k \in LinesOf(f, name)
        BY <2>5, <4>1, LeastExists
      <4> QED BY <4>2 DEF LinesOf
    <3>2. k % 2 = 1
      BY <2>2, <3>1
    <3>3. k < Len(f) /\ k + 1 \in 1..Len(f) /\ (k + 1) % 2 # 1
      BY <2>1, <3>1, <3>2
    <3>4. ~f[k + 1].bol
      BY <2>2, <3>3
    <3>5. Lookup(f, name) = f[k + 1].word
      BY <1>2, <2>3, <2>5, <3>3 DEF Lookup, AddressAt
    <3>6. LineLookup(f, name) = f[k + 1].word
      BY <1>2, <2>5, <3>3, <3>4 DEF LineLookup
    <3> QED BY <3>5, <3>6
  <2> QED BY <2>4, <2>5
<1> QED BY <1>1, <1>2 DEF Records

-----------------------------------------------------------------------------
(* The invariant.                                                          *)

Holdings == {Nothing, Part, Whole, Closed}
Names == {Empty} \cup UNION {{QName[c]} \cup Prefixes(QName[c]) : c \in Clients}
Answers == {Empty} \cup {Lookup(f, name) : f \in Records, name \in Names}
Texts == Answers \cup UNION {Prefixes(a) : a \in Answers}
Positions == {"start", "connected", "wait", "stream", "exit", "dead", "stalled"}

TypeInv ==
    /\ faults \in FaultSets
    /\ cpc \in [Clients -> Positions] /\ addr \in [Clients -> Texts]
    /\ up \in [Clients -> Holdings]
    /\ down \in [Clients -> [holds : Holdings, ip : Answers]]
    /\ backlog \in Seq(Clients) /\ Len(backlog) <= Backlog
    /\ spc \in {"accept", "read", "answer", "exited"}
    /\ cur \in Clients \cup {Nobody} /\ qname \in Names
    /\ file \in Records

Breakable == faults \cap {"split", "reset"} # {}
Reading == spc \in {"read", "answer"}
Waits(c) == \E k \in 1..Len(backlog) : backlog[k] = c

(* The connections the server has not answered: each client has one, it is *)
(* in the backlog once or is being served.                                 *)
Unanswered(c) ==
    cpc[c] \in {"connected", "wait", "dead", "stalled"} /\ down[c].holds = Nothing

ServerInv ==
    /\ \A c \in Clients : Waits(c) => Unanswered(c)
    /\ \A j, k \in 1..Len(backlog) : backlog[j] = backlog[k] => j = k
    /\ Reading => cur \in Clients /\ Unanswered(cur) /\ ~Waits(cur)
    /\ spc = "accept" => cur = Nobody
    /\ spc = "exited" => "reset" \in faults

(* The request being answered is the one of the client being served, or it *)
(* was cut short, or its client is gone.                                   *)
RequestInv ==
    spc = "answer" =>
        /\ cpc[cur] \in {"wait", "dead"}
        /\ \/ qname = QName[cur]
           \/ qname \in Prefixes(QName[cur]) /\ "split" \in faults
           \/ cpc[cur] = "dead"
        /\ up[cur] \in {Part, Whole} => "split" \in faults

(* What a connection holds says how far its client is, and what went wrong.*)
ConnectionInv ==
    \A c \in Clients :
        /\ up[c] = Part => "split" \in faults
        /\ up[c] = Closed => cpc[c] = "dead"
        /\ up[c] # Nothing => cpc[c] \notin {"start", "connected", "stalled"}
        /\ down[c].holds \in {Part, Closed} => Breakable
        /\ down[c].holds \in {Whole, Part} => cpc[c] \in {"wait", "stream", "exit", "dead"}
        /\ cpc[c] = "start" => down[c].holds = Nothing
        /\ cpc[c] \notin {"stream", "exit"} => addr[c] = Empty

Inv == TypeInv /\ ServerInv /\ RequestInv /\ ConnectionInv

LEMMA InitStep == Init => Inv
<1> SUFFICES ASSUME Init PROVE Inv
  OBVIOUS
<1> USE DEF Init
<1>1. TypeInv
  BY DnsAssumption DEF TypeInv, Positions, Holdings, Names, Texts, Answers, Records
<1>2. ServerInv /\ RequestInv
  BY DEF ServerInv, RequestInv, Reading, Waits
<1>3. ConnectionInv
  BY DEF ConnectionInv, Nothing, Part, Whole, Closed
<1> QED BY <1>1, <1>2, <1>3 DEF Inv

(* The clients.                                                            *)
LEMMA RefusedStep ==
    ASSUME Inv, NEW c \in Clients, Refused(c)
    PROVE  Inv'
<1> USE DEF Refused, clients, server
<1>1. TypeInv'
  BY DEF Inv, TypeInv, Positions, Holdings
<1>2. ServerInv'
  BY <1>1 DEF Inv, TypeInv, ServerInv, Reading, Waits, Unanswered
<1>3. RequestInv'
  BY DEF Inv, TypeInv, ServerInv, RequestInv, ConnectionInv, Reading, Unanswered, Holdings
<1>4. ConnectionInv'
  BY DEF Inv, TypeInv, ServerInv, ConnectionInv, Breakable, Holdings
<1> QED BY <1>1, <1>2, <1>3, <1>4 DEF Inv

LEMMA WriteStep ==
    ASSUME Inv, NEW c \in Clients, Write(c)
    PROVE  Inv'
<1> USE DEF Write, clients, server, Nothing, Part, Whole, Closed
<1>1. TypeInv'
  BY DEF Inv, TypeInv, Positions, Holdings
<1>2. ServerInv'
  BY <1>1 DEF Inv, TypeInv, ServerInv, Reading, Waits, Unanswered
<1>3. RequestInv'
  BY DEF Inv, TypeInv, ServerInv, RequestInv, ConnectionInv, Reading, Unanswered, Holdings
<1>4. ConnectionInv'
  BY DEF Inv, TypeInv, ServerInv, ConnectionInv, Breakable, Holdings
<1> QED BY <1>1, <1>2, <1>3, <1>4 DEF Inv

LEMMA ReadReplyStep ==
    ASSUME Inv, NEW c \in Clients, ReadReply(c)
    PROVE  Inv'
<1> USE DEF ReadReply, clients, server
<1>0. /\ down[c].ip \in Answers /\ Received(down[c]) \subseteq Texts
      /\ \E ip \in Texts : /\ addr' = [addr EXCEPT ![c] = ip]
                          /\ cpc' = [cpc EXCEPT ![c] = IF ip = NotFound THEN "exit" ELSE "stream"]
  <2>1. down[c].ip \in Answers
    BY DEF Inv, TypeInv
  <2>2. Received(down[c]) \subseteq Texts
    BY <2>1 DEF Received, Texts, Answers
  <2> QED BY <2>1, <2>2
<1>1. TypeInv'
  BY <1>0 DEF Inv, TypeInv, Positions, Holdings
<1>2. ServerInv'
  BY <1>1 DEF Inv, TypeInv, ServerInv, Reading, Waits, Unanswered
<1>3. RequestInv'
  BY DEF Inv, TypeInv, ServerInv, RequestInv, ConnectionInv, Reading, Unanswered, Holdings
<1>4. ConnectionInv'
  BY DEF Inv, TypeInv, ServerInv, ConnectionInv, Breakable, Holdings
<1> QED BY <1>1, <1>2, <1>3, <1>4 DEF Inv

LEMMA DieStep ==
    ASSUME Inv, NEW c \in Clients, Die(c)
    PROVE  Inv'
<1> USE DEF Die, clients, server, Nothing, Part, Whole, Closed
<1>1. TypeInv'
  BY DEF Inv, TypeInv, Positions, Holdings
<1>2. ServerInv'
  BY <1>1 DEF Inv, TypeInv, ServerInv, Reading, Waits, Unanswered
<1>3. RequestInv'
  BY DEF Inv, TypeInv, ServerInv, RequestInv, ConnectionInv, Reading, Unanswered, Holdings
<1>4. ConnectionInv'
  BY DEF Inv, TypeInv, ServerInv, ConnectionInv, Breakable, Holdings
<1> QED BY <1>1, <1>2, <1>3, <1>4 DEF Inv

LEMMA StallStep ==
    ASSUME Inv, NEW c \in Clients, Stall(c)
    PROVE  Inv'
<1> USE DEF Stall, clients, server
<1>1. TypeInv'
  BY DEF Inv, TypeInv, Positions, Holdings
<1>2. ServerInv'
  BY <1>1 DEF Inv, TypeInv, ServerInv, Reading, Waits, Unanswered
<1>3. RequestInv'
  BY DEF Inv, TypeInv, ServerInv, RequestInv, ConnectionInv, Reading, Unanswered, Holdings
<1>4. ConnectionInv'
  BY DEF Inv, TypeInv, ServerInv, ConnectionInv, Breakable, Holdings
<1> QED BY <1>1, <1>2, <1>3, <1>4 DEF Inv

LEMMA RestStep ==
    ASSUME Inv, NEW c \in Clients, Rest(c)
    PROVE  Inv'
<1> USE DEF Rest, clients, server, Nothing, Part, Whole, Closed
<1>1. TypeInv'
  BY DEF Inv, TypeInv, Positions, Holdings
<1>2. ServerInv'
  BY <1>1 DEF Inv, TypeInv, ServerInv, Reading, Waits, Unanswered
<1>3. RequestInv'
  BY DEF Inv, TypeInv, ServerInv, RequestInv, ConnectionInv, Reading, Unanswered, Holdings
<1>4. ConnectionInv'
  BY DEF Inv, TypeInv, ServerInv, ConnectionInv, Breakable, Holdings
<1> QED BY <1>1, <1>2, <1>3, <1>4 DEF Inv

LEMMA EditFileStep ==
    ASSUME Inv, EditFile
    PROVE  Inv'
<1> USE DEF EditFile, clients, server
<1>1. TypeInv'
  BY DEF Inv, TypeInv, Positions, Holdings, Records
<1>2. ServerInv'
  BY <1>1 DEF Inv, TypeInv, ServerInv, Reading, Waits, Unanswered
<1>3. RequestInv'
  BY DEF Inv, TypeInv, ServerInv, RequestInv, ConnectionInv, Reading, Unanswered, Holdings
<1>4. ConnectionInv'
  BY DEF Inv, TypeInv, ServerInv, ConnectionInv, Breakable, Holdings
<1> QED BY <1>1, <1>2, <1>3, <1>4 DEF Inv

LEMMA ConnectStep ==
    ASSUME Inv, NEW c \in Clients, Connect(c)
    PROVE  Inv'
<1> USE DEF Connect
<1>1. /\ backlog \in Seq(Clients) /\ Len(backlog) \in Nat /\ backlog' = Append(backlog, c)
      /\ backlog' \in Seq(Clients) /\ Len(backlog') = Len(backlog) + 1
      /\ \A k \in 1..Len(backlog) : backlog'[k] = backlog[k]
      /\ backlog'[Len(backlog) + 1] = c
  BY AppendProperties, LenProperties DEF Inv, TypeInv
<1>2. TypeInv'
  <2>1. Len(backlog') <= Backlog
    BY <1>1, DnsAssumption DEF Room
  <2> QED BY <1>1, <2>1 DEF Inv, TypeInv, Positions
<1>3. \A d : Waits(d)' <=> Waits(d) \/ d = c
  BY <1>1 DEF Waits
<1>4. ~Waits(c) /\ (Reading => cur # c)
  BY DEF Inv, ServerInv, Unanswered
<1>5. Unanswered(c)'
  BY DEF Inv, TypeInv, ConnectionInv, Unanswered
<1>6. ServerInv'
  <2>1. \A d \in Clients : Waits(d)' => Unanswered(d)'
    BY <1>3, <1>5 DEF Inv, TypeInv, ServerInv, Unanswered
  <2>2. ASSUME NEW j \in 1..Len(backlog'), NEW k \in 1..Len(backlog'),
               backlog'[j] = backlog'[k]
        PROVE  j = k
    BY <1>1, <1>4, <2>2 DEF Inv, ServerInv, Waits
  <2>3. Reading' => cur' \in Clients /\ Unanswered(cur)' /\ ~Waits(cur)'
    <3>1. Reading => Unanswered(cur)'
      BY <1>4 DEF Inv, TypeInv, ServerInv, Unanswered, Reading
    <3>2. Waits(cur)' <=> Waits(cur) \/ cur = c
      BY <1>1 DEF Waits
    <3> QED BY <1>4, <3>1, <3>2 DEF Inv, ServerInv, Reading
  <2> QED BY <2>1, <2>2, <2>3 DEF Inv, ServerInv
<1>7. RequestInv'
  BY <1>4 DEF Inv, TypeInv, RequestInv, Reading
<1>8. ConnectionInv'
  BY DEF Inv, TypeInv, ConnectionInv, Breakable, Nothing, Part, Whole, Closed, Holdings
<1> QED BY <1>2, <1>6, <1>7, <1>8 DEF Inv

(* The server.                                                             *)
LEMMA AcceptStep ==
    ASSUME Inv, Accept
    PROVE  Inv'
<1> USE DEF Accept, clients
<1>1. /\ backlog \in Seq(Clients) /\ Len(backlog) \in Nat /\ Len(backlog) >= 1
      /\ backlog' \in Seq(Clients) /\ Len(backlog') = Len(backlog) - 1
      /\ \A k \in 1..Len(backlog') : backlog'[k] = backlog[k + 1]
      /\ cur' = backlog[1] /\ cur' \in Clients
  <2>1. backlog \in Seq(Clients) /\ backlog # <<>>
    BY DEF Inv, TypeInv
  <2>2. Len(backlog) \in Nat /\ Len(backlog) >= 1 /\ Head(backlog) = backlog[1]
    BY <2>1
  <2> QED BY <2>1, <2>2, HeadTailProperties
<1>2. TypeInv'
  BY <1>1, DnsAssumption DEF Inv, TypeInv
<1>3. \A d \in Clients : Waits(d)' => Waits(d)
  BY <1>1 DEF Waits
<1>4. Waits(cur') /\ Unanswered(cur')
  BY <1>1 DEF Waits, Inv, ServerInv
<1>5. ServerInv'
  <2>1. \A d \in Clients : Waits(d)' => Unanswered(d)'
    BY <1>3 DEF Inv, ServerInv, Unanswered
  <2>2. ASSUME NEW j \in 1..Len(backlog'), NEW k \in 1..Len(backlog'),
               backlog'[j] = backlog'[k]
        PROVE  j = k
    <3>1. j + 1 \in 1..Len(backlog) /\ k + 1 \in 1..Len(backlog) /\ j \in Int /\ k \in Int
      BY <1>1
    <3>2. backlog[j + 1] = backlog[k + 1]
      BY <1>1, <2>2
    <3>3. j + 1 = k + 1
      BY <3>1, <3>2 DEF Inv, ServerInv
    <3> QED BY <3>1, <3>3
  <2>3. Unanswered(cur)'
    BY <1>4 DEF Unanswered
  <2>4. ~Waits(cur)'
    <3> SUFFICES ASSUME NEW k \in 1..Len(backlog'), backlog'[k] = cur' PROVE FALSE
      BY DEF Waits
    <3>1. k + 1 \in 1..Len(backlog) /\ 1 \in 1..Len(backlog) /\ k + 1 # 1
      BY <1>1
    <3>2. backlog[k + 1] = backlog[1]
      BY <1>1
    <3> QED BY <3>1, <3>2 DEF Inv, ServerInv
  <2> QED BY <1>1, <2>1, <2>2, <2>3, <2>4 DEF Inv, ServerInv, Reading
<1>6. RequestInv'
  BY DEF RequestInv
<1>7. ConnectionInv'
  BY DEF Inv, ConnectionInv, Breakable
<1> QED BY <1>2, <1>5, <1>6, <1>7 DEF Inv

LEMMA ReadStep ==
    ASSUME Inv, Read
    PROVE  Inv'
<1> USE DEF Read, clients, Nothing, Part, Whole, Closed
<1>1. cur \in Clients /\ Unanswered(cur) /\ ~Waits(cur) /\ cpc[cur] \in {"wait", "dead"}
  BY DEF Inv, TypeInv, ServerInv, ConnectionInv, Reading, Readable, Unanswered
<1>2. TypeInv'
  BY <1>1 DEF Inv, TypeInv, Names, Holdings
<1>3. ServerInv'
  BY <1>1 DEF Inv, TypeInv, ServerInv, Reading, Waits, Unanswered
<1>4. RequestInv'
  BY <1>1 DEF Inv, TypeInv, RequestInv, ConnectionInv, Holdings
<1>5. ConnectionInv'
  BY <1>1 DEF Inv, TypeInv, ConnectionInv, Breakable, Holdings
<1> QED BY <1>2, <1>3, <1>4, <1>5 DEF Inv

LEMMA AnswerStep ==
    ASSUME Inv, Answer
    PROVE  Inv'
<1> USE DEF Answer, clients
<1>1. /\ cur \in Clients /\ Unanswered(cur) /\ ~Waits(cur)
      /\ cpc[cur] \in {"wait", "dead"}
      /\ up[cur] \in {Part, Whole} => "split" \in faults
  BY DEF Inv, ServerInv, RequestInv, Reading
<1>2. PICK h \in {Whole, Part, Closed} :
          /\ h = Part => "split" \in faults
          /\ h = Closed => up[cur] \in {Part, Whole}
          /\ down' = [down EXCEPT ![cur] = [holds |-> h, ip |-> Lookup(file, qname)]]
  OBVIOUS
<1>3. h \in {Part, Closed} => Breakable
  BY <1>1, <1>2 DEF Breakable
<1>4. TypeInv'
  <2>1. Lookup(file, qname) \in Answers /\ Empty \in Names
    BY DEF Inv, TypeInv, Answers, Names
  <2>2. [holds |-> h, ip |-> Lookup(file, qname)] \in [holds : Holdings, ip : Answers]
    BY <2>1 DEF Holdings
  <2>3. down' \in [Clients -> [holds : Holdings, ip : Answers]]
    BY <1>1, <1>2, <2>2 DEF Inv, TypeInv
  <2> QED BY <2>1, <2>3 DEF Inv, TypeInv, Holdings
<1>5. \A d \in Clients \ {cur} : down'[d] = down[d] /\ up'[d] = up[d]
  BY <1>2 DEF Inv, TypeInv
<1>6. ServerInv'
  BY <1>1, <1>5 DEF Inv, ServerInv, Reading, Waits, Unanswered
<1>7. RequestInv'
  BY DEF RequestInv
<1>8. ConnectionInv'
  <2>1. down'[cur].holds = h /\ up'[cur] = Nothing
    BY <1>1, <1>2 DEF Inv, TypeInv
  <2> QED BY <1>1, <1>3, <1>5, <2>1
          DEF Inv, TypeInv, ConnectionInv, Breakable, Nothing, Part, Whole, Closed
<1> QED BY <1>4, <1>6, <1>7, <1>8 DEF Inv

LEMMA ServerDiesStep ==
    ASSUME Inv, ServerDies
    PROVE  Inv'
<1> USE DEF ServerDies, clients
<1>1. \A c \in Clients : c = cur \/ Waits(c) => Unanswered(c)
  BY DnsAssumption DEF Inv, ServerInv, Reading
<1>2. \A c \in Clients :
          down'[c] = IF c = cur \/ Waits(c) THEN [holds |-> Closed, ip |-> Empty] ELSE down[c]
  BY DEF Waits
<1>3. backlog' = <<>> /\ backlog' \in Seq(Clients) /\ Len(backlog') = 0
  OBVIOUS
<1>4. TypeInv'
  <2>1. [holds |-> Closed, ip |-> Empty] \in [holds : Holdings, ip : Answers]
    BY DEF Holdings, Answers
  <2>2. down' \in [Clients -> [holds : Holdings, ip : Answers]]
    BY <2>1 DEF Inv, TypeInv
  <2> QED BY <1>3, <2>2, DnsAssumption DEF Inv, TypeInv
<1>5. ServerInv'
  BY <1>3 DEF Inv, ServerInv, Reading, Waits
<1>6. RequestInv'
  BY DEF RequestInv
<1>7. ConnectionInv'
  BY <1>1, <1>2 DEF Inv, ConnectionInv, Breakable, Unanswered, Nothing, Part, Whole, Closed
<1> QED BY <1>4, <1>5, <1>6, <1>7 DEF Inv

LEMMA NextStep ==
    ASSUME Inv, [Next]_vars
    PROVE  Inv'
<1>1. CASE UNCHANGED vars
  BY <1>1 DEF vars, Inv, TypeInv, ServerInv, RequestInv, ConnectionInv, Breakable, Reading,
              Waits, Unanswered
<1> QED BY <1>1, AcceptStep, ReadStep, AnswerStep, ServerDiesStep, EditFileStep, ConnectStep,
           RefusedStep, WriteStep, ReadReplyStep, DieStep, StallStep, RestStep
        DEF Next, Server, Client

LEMMA InvCorrect == Spec => []Inv
<1>1. Init => Inv
  BY InitStep
<1>2. Inv /\ [Next]_vars => Inv'
  BY NextStep
<1> QED BY <1>1, <1>2, PTL DEF Spec

(* The types of the clients' and the server's state, and a backlog that    *)
(* never holds more connections than listen asked for.                     *)
THEOREM TypeCorrect == Spec => []TypeOK
<1>1. Inv => TypeOK
  BY DEF Inv, TypeInv, TypeOK, Positions, Holdings, Records
<1> QED BY <1>1, InvCorrect, PTL

-----------------------------------------------------------------------------
(* The refinement.                                                         *)

Regular == \A f \in Files : WellFormed(f)

asks == [c \in Clients |-> StandingOf(c)]
answer == [c \in Clients |-> AnswerOf(c)]

(* The mapping of one client, by where it stands and what its connection   *)
(* holds for it.                                                           *)
Standing(position, holds) ==
    CASE position = "start" -> "idle"
      [] position \in {"connected", "wait", "stalled"} ->
            IF holds = Nothing THEN "asking" ELSE "told"
      [] position = "stream" -> "streams"
      [] position = "exit" -> "quit"
      [] position = "dead" -> "gone"

Held(position, reply, ip) ==
    CASE position \in {"stream", "exit"} -> ip
      [] position \in {"wait", "stalled"} /\ reply.holds \in {Whole, Part} -> reply.ip
      [] OTHER -> Empty

LEMMA Mapping ==
    ASSUME NEW c
    PROVE  /\ StandingOf(c) = Standing(cpc[c], down[c].holds)
           /\ StandingOf(c)' = Standing(cpc'[c], down'[c].holds)
           /\ AnswerOf(c) = Held(cpc[c], down[c], addr[c])
           /\ AnswerOf(c)' = Held(cpc'[c], down'[c], addr'[c])
BY DEF StandingOf, AnswerOf, Standing, Held

LEMMA StandingFacts ==
    ASSUME NEW holds
    PROVE  /\ Standing("start", holds) = "idle"
           /\ \A p \in {"connected", "wait", "stalled"} :
                 Standing(p, holds) = IF holds = Nothing THEN "asking" ELSE "told"
           /\ Standing("stream", holds) = "streams"
           /\ Standing("exit", holds) = "quit"
           /\ Standing("dead", holds) = "gone"
BY DEF Standing

LEMMA HeldFacts ==
    ASSUME NEW reply, NEW ip
    PROVE  /\ Held("stream", reply, ip) = ip /\ Held("exit", reply, ip) = ip
           /\ \A p \in {"wait", "stalled"} :
                 Held(p, reply, ip) = IF reply.holds \in {Whole, Part} THEN reply.ip ELSE Empty
           /\ \A p \in {"start", "connected", "dead"} : Held(p, reply, ip) = Empty
BY DEF Held

(* A step that concerns one client changes its entry in the two functions  *)
(* of the mapping and no other.                                            *)
LEMMA OneClient ==
    ASSUME NEW c \in Clients,
           \A d \in Clients \ {c} : cpc'[d] = cpc[d] /\ addr'[d] = addr[d] /\ down'[d] = down[d]
    PROVE  /\ asks' = [asks EXCEPT ![c] = StandingOf(c)']
           /\ answer' = [answer EXCEPT ![c] = AnswerOf(c)']
           /\ AnswerOf(c)' = AnswerOf(c) => answer' = answer
           /\ StandingOf(c)' = StandingOf(c) => asks' = asks
           /\ asks[c] = StandingOf(c) /\ answer[c] = AnswerOf(c)
<1>1. \A d \in Clients \ {c} : StandingOf(d)' = StandingOf(d) /\ AnswerOf(d)' = AnswerOf(d)
  BY Mapping
<1>2. /\ asks' = [d \in Clients |-> StandingOf(d)']
      /\ answer' = [d \in Clients |-> AnswerOf(d)']
  BY DEF asks, answer
<1> QED BY <1>1, <1>2 DEF asks, answer

(* What leaves the clients and their replies alone is no step of Resolver. *)
LEMMA SameClients ==
    ASSUME UNCHANGED <<cpc, addr, down>>
    PROVE  asks' = asks /\ answer' = answer
BY DEF asks, answer, StandingOf, AnswerOf

LEMMA RefinesInit == Init => Atomic!Init
<1> SUFFICES ASSUME Init PROVE Atomic!Init
  OBVIOUS
<1>1. asks = [c \in Clients |-> "idle"] /\ answer = [c \in Clients |-> Empty]
  BY Mapping, StandingFacts, HeldFacts DEF Init, asks, answer
<1>2. file \in Records /\ (faults \cap {"split", "reset"} # {}) \in BOOLEAN
  BY DEF Init, Records
<1> QED BY <1>1, <1>2 DEF Atomic!Init, asks, answer

LEMMA RefinesConnect ==
    ASSUME Inv, NEW c \in Clients, Connect(c)
    PROVE  Atomic!Ask(c)
<1>1. /\ cpc[c] = "start" /\ cpc' = [cpc EXCEPT ![c] = "connected"]
      /\ cpc'[c] = "connected" /\ UNCHANGED <<faults, addr, down, file>>
      /\ down[c].holds = Nothing
  BY DEF Connect, Inv, TypeInv, ConnectionInv
<1>2. \A d \in Clients \ {c} : cpc'[d] = cpc[d] /\ addr'[d] = addr[d] /\ down'[d] = down[d]
  BY <1>1 DEF Inv, TypeInv
<1>3. /\ StandingOf(c) = "idle" /\ StandingOf(c)' = "asking"
      /\ AnswerOf(c)' = AnswerOf(c)
  BY <1>1, Mapping, StandingFacts, HeldFacts
<1>4. asks[c] = "idle" /\ asks' = [asks EXCEPT ![c] = "asking"] /\ answer' = answer
  BY <1>2, <1>3, OneClient
<1> QED BY <1>1, <1>4 DEF Atomic!Ask, asks, answer

LEMMA RefinesRefused ==
    ASSUME Inv, NEW c \in Clients, Refused(c)
    PROVE  Atomic!Refuse(c)
<1>1. /\ cpc[c] = "start" /\ cpc' = [cpc EXCEPT ![c] = "exit"] /\ cpc'[c] = "exit"
      /\ UNCHANGED <<faults, addr, down, file>> /\ addr[c] = Empty
  BY DEF Refused, server, Inv, TypeInv, ConnectionInv
<1>2. \A d \in Clients \ {c} : cpc'[d] = cpc[d] /\ addr'[d] = addr[d] /\ down'[d] = down[d]
  BY <1>1 DEF Inv, TypeInv
<1>3. /\ StandingOf(c) = "idle" /\ StandingOf(c)' = "quit"
      /\ AnswerOf(c)' = AnswerOf(c)
  BY <1>1, Mapping, StandingFacts, HeldFacts
<1>4. asks[c] = "idle" /\ asks' = [asks EXCEPT ![c] = "quit"] /\ answer' = answer
  BY <1>2, <1>3, OneClient
<1> QED BY <1>1, <1>4 DEF Atomic!Refuse, asks, answer

LEMMA RefinesWrite ==
    ASSUME Inv, NEW c \in Clients, Write(c)
    PROVE  UNCHANGED Atomic!vars
<1>1. /\ cpc[c] = "connected" /\ cpc' = [cpc EXCEPT ![c] = "wait"] /\ cpc'[c] = "wait"
      /\ UNCHANGED <<faults, addr, down, file>>
      /\ down[c].holds \notin {Whole, Part}
  BY DEF Write, server, Inv, TypeInv, ConnectionInv
<1>2. \A d \in Clients \ {c} : cpc'[d] = cpc[d] /\ addr'[d] = addr[d] /\ down'[d] = down[d]
  BY <1>1 DEF Inv, TypeInv
<1>3. StandingOf(c)' = StandingOf(c) /\ AnswerOf(c)' = AnswerOf(c)
  BY <1>1, Mapping, StandingFacts, HeldFacts
<1>4. asks' = asks /\ answer' = answer
  BY <1>2, <1>3, OneClient
<1> QED BY <1>1, <1>4 DEF Atomic!vars, asks, answer

LEMMA RefinesStall ==
    ASSUME Inv, NEW c \in Clients, Stall(c)
    PROVE  UNCHANGED Atomic!vars
<1>1. /\ cpc[c] = "connected" /\ cpc' = [cpc EXCEPT ![c] = "stalled"] /\ cpc'[c] = "stalled"
      /\ UNCHANGED <<faults, addr, down, file>>
      /\ down[c].holds \notin {Whole, Part}
  BY DEF Stall, server, Inv, TypeInv, ConnectionInv
<1>2. \A d \in Clients \ {c} : cpc'[d] = cpc[d] /\ addr'[d] = addr[d] /\ down'[d] = down[d]
  BY <1>1 DEF Inv, TypeInv
<1>3. StandingOf(c)' = StandingOf(c) /\ AnswerOf(c)' = AnswerOf(c)
  BY <1>1, Mapping, StandingFacts, HeldFacts
<1>4. asks' = asks /\ answer' = answer
  BY <1>2, <1>3, OneClient
<1> QED BY <1>1, <1>4 DEF Atomic!vars, asks, answer

(* A whole reply is acted on, and so is what is left of one cut short; one *)
(* that never came leaves the client without an address.                   *)
LEMMA RefinesReadReply ==
    ASSUME Inv, NEW c \in Clients, ReadReply(c)
    PROVE  Atomic!Act(c) \/ Atomic!ActOnCut(c)
<1>1. /\ cpc[c] = "wait" /\ down[c].holds # Nothing
      /\ UNCHANGED <<faults, down, file>>
  BY DEF ReadReply, server
<1>a. PICK ip \in Received(down[c]) :
          /\ addr' = [addr EXCEPT ![c] = ip]
          /\ cpc' = [cpc EXCEPT ![c] = IF ip = NotFound THEN "exit" ELSE "stream"]
  BY DEF ReadReply
<1>2. \A d \in Clients \ {c} : cpc'[d] = cpc[d] /\ addr'[d] = addr[d] /\ down'[d] = down[d]
  BY <1>1, <1>a DEF Inv, TypeInv
<1>3. /\ addr'[c] = ip
      /\ cpc'[c] = IF ip = NotFound THEN "exit" ELSE "stream"
      /\ down[c].holds \in Holdings
  BY <1>1, <1>a DEF Inv, TypeInv
<1>4. StandingOf(c) = "told" /\ AnswerOf(c)' = ip
  BY <1>1, <1>3, Mapping, StandingFacts, HeldFacts
<1>5. StandingOf(c)' = IF ip = NotFound THEN "quit" ELSE "streams"
  BY <1>1, <1>3, Mapping, StandingFacts
<1>6. /\ asks[c] = "told" /\ answer[c] = AnswerOf(c)
      /\ asks' = [asks EXCEPT ![c] = IF ip = NotFound THEN "quit" ELSE "streams"]
      /\ answer' = [answer EXCEPT ![c] = ip]
      /\ AnswerOf(c)' = AnswerOf(c) => answer' = answer
  BY <1>2, <1>4, <1>5, OneClient
<1>7. AnswerOf(c) = IF down[c].holds \in {Whole, Part} THEN down[c].ip ELSE Empty
  BY <1>1, Mapping, HeldFacts
<1>8. CASE ip = AnswerOf(c)
  BY <1>1, <1>4, <1>6, <1>8 DEF Atomic!Act, asks, answer
<1>9. CASE ip # AnswerOf(c)
  <2>1. down[c].holds = Part /\ ip \in Prefixes(answer[c]) /\ Breakable
    BY <1>1, <1>3, <1>6, <1>7, <1>9
       DEF Received, Holdings, Inv, ConnectionInv, Nothing, Part, Whole, Closed
  <2> QED BY <1>1, <1>6, <2>1 DEF Atomic!ActOnCut, asks, answer, Breakable
<1> QED BY <1>8, <1>9

LEMMA RefinesDie ==
    ASSUME Inv, NEW c \in Clients, Die(c)
    PROVE  Atomic!Leave(c)
<1>1. /\ cpc[c] \in {"connected", "wait"} /\ cpc' = [cpc EXCEPT ![c] = "dead"]
      /\ cpc'[c] = "dead" /\ UNCHANGED <<faults, addr, down, file>>
  BY DEF Die, server, Inv, TypeInv
<1>2. \A d \in Clients \ {c} : cpc'[d] = cpc[d] /\ addr'[d] = addr[d] /\ down'[d] = down[d]
  BY <1>1 DEF Inv, TypeInv
<1>3. /\ StandingOf(c) \in {"asking", "told"} /\ StandingOf(c)' = "gone"
      /\ AnswerOf(c)' = Empty
  BY <1>1, Mapping, StandingFacts, HeldFacts
<1>4. /\ asks[c] \in {"asking", "told"} /\ asks' = [asks EXCEPT ![c] = "gone"]
      /\ answer' = [answer EXCEPT ![c] = Empty]
  BY <1>2, <1>3, OneClient
<1> QED BY <1>1, <1>4 DEF Atomic!Leave, asks, answer

LEMMA RefinesRest ==
    ASSUME Inv, NEW c \in Clients, Rest(c)
    PROVE  UNCHANGED Atomic!vars
<1>1. UNCHANGED <<faults, cpc, addr, file>>
  BY DEF Rest, clients
<1>2. CASE UNCHANGED down
  BY <1>1, <1>2, SameClients DEF Atomic!vars, asks, answer
<1>3. CASE down[c].holds = Part /\ down' = [down EXCEPT ![c].holds = Whole]
  <2>1. \A d \in Clients \ {c} : cpc'[d] = cpc[d] /\ addr'[d] = addr[d] /\ down'[d] = down[d]
    BY <1>1, <1>3 DEF Inv, TypeInv
  <2>2. /\ down'[c].holds = Whole /\ down'[c].ip = down[c].ip
        /\ cpc[c] \in Positions /\ Part # Nothing /\ Whole # Nothing
    BY <1>3 DEF Inv, TypeInv, Nothing, Part, Whole
  <2>3. StandingOf(c)' = StandingOf(c)
    BY <1>1, <1>3, <2>2, Mapping, StandingFacts DEF Positions
  <2>4. AnswerOf(c)' = AnswerOf(c)
    <3>1. /\ AnswerOf(c) = Held(cpc[c], down[c], addr[c])
          /\ AnswerOf(c)' = Held(cpc[c], down'[c], addr[c])
      BY <1>1, Mapping
    <3>2. CASE cpc[c] \in {"wait", "stalled"}
      <4>1. Held(cpc[c], down[c], addr[c]) = down[c].ip
        BY <1>3, <3>2, HeldFacts
      <4>2. Held(cpc[c], down'[c], addr[c]) = down'[c].ip
        BY <2>2, <3>2, HeldFacts
      <4> QED BY <2>2, <3>1, <4>1, <4>2
    <3>3. CASE cpc[c] \in {"start", "connected", "dead"}
      BY <3>1, <3>3, HeldFacts
    <3>4. CASE cpc[c] \in {"stream", "exit"}
      BY <3>1, <3>4, HeldFacts
    <3> QED BY <2>2, <3>2, <3>3, <3>4 DEF Positions
  <2>5. asks' = asks /\ answer' = answer
    BY <2>1, <2>3, <2>4, OneClient
  <2> QED BY <1>1, <2>5 DEF Atomic!vars, asks, answer
<1> QED BY <1>2, <1>3 DEF Rest

(* The one step at which a client is told: it learns what the file says in *)
(* that instant of the name it asked for, or of a beginning of it because  *)
(* its request was cut short, or nothing at all.                           *)
LEMMA RefinesAnswer ==
    ASSUME Inv, Regular, Answer
    PROVE  Atomic!Server \/ UNCHANGED Atomic!vars
<1> PICK c \in Clients : c = cur
  BY DEF Answer, Inv, ServerInv, Reading
<1>1. /\ down[c].holds = Nothing
      /\ cpc[c] \in {"wait", "dead"}
      /\ \/ qname = QName[c]
         \/ qname \in Prefixes(QName[c]) /\ "split" \in faults
         \/ cpc[c] = "dead"
      /\ up[c] \in {Part, Whole} => Breakable
      /\ UNCHANGED <<faults, cpc, addr, file>> /\ file \in Records
  BY DEF Answer, clients, Inv, TypeInv, ServerInv, RequestInv, Reading, Unanswered, Breakable
<1>2. PICK h \in {Whole, Part, Closed} :
          /\ h = Closed => up[c] \in {Part, Whole}
          /\ down' = [down EXCEPT ![c] = [holds |-> h, ip |-> Lookup(file, qname)]]
  BY DEF Answer
<1>3. \A d \in Clients \ {c} :
          cpc'[d] = cpc[d] /\ addr'[d] = addr[d] /\ down'[d] = down[d]
  BY <1>1, <1>2 DEF Inv, TypeInv
<1>4. down'[c].holds = h /\ down'[c].ip = Lookup(file, qname) /\ h # Nothing
  BY <1>1, <1>2 DEF Inv, TypeInv, Nothing, Part, Whole, Closed
<1>5. CASE cpc[c] = "dead"
  <2>1. StandingOf(c)' = StandingOf(c) /\ AnswerOf(c)' = AnswerOf(c)
    BY <1>1, <1>5, Mapping, StandingFacts, HeldFacts
  <2>2. asks' = asks /\ answer' = answer
    BY <1>1, <1>3, <2>1, OneClient
  <2> QED BY <1>1, <2>2 DEF Atomic!vars, asks, answer
<1>6. CASE cpc[c] = "wait"
  <2>1. StandingOf(c) = "asking" /\ StandingOf(c)' = "told"
    BY <1>1, <1>4, <1>6, Mapping, StandingFacts
  <2>2. /\ asks[c] = "asking" /\ asks' = [asks EXCEPT ![c] = "told"]
        /\ answer' = [answer EXCEPT ![c] = AnswerOf(c)']
        /\ AnswerOf(c)' = AnswerOf(c) => answer' = answer
    BY <1>1, <1>3, <2>1, OneClient
  <2>3. CASE h = Closed
    <3>1. Breakable /\ h \notin {Whole, Part}
      BY <1>1, <1>2, <2>3 DEF Part, Whole, Closed
    <3>2. down[c].holds \notin {Whole, Part}
      BY <1>1 DEF Nothing, Part, Whole
    <3>3. AnswerOf(c)' = Empty /\ AnswerOf(c) = Empty
      BY <1>1, <1>4, <1>6, <3>1, <3>2, Mapping, HeldFacts
    <3>4. answer' = answer
      BY <2>2, <3>3
    <3>5. asks' = [d \in Clients |-> IF d \in {c} THEN "told" ELSE asks[d]]
      BY <2>2 DEF asks
    <3>6. {c} \in SUBSET {d \in Clients : asks[d] = "asking"}
      BY <1>1, <2>2
    <3>7. /\ faults \cap {"split", "reset"} # {}
          /\ \E D \in SUBSET {d \in Clients : asks[d] = "asking"} :
                asks' = [d \in Clients |-> IF d \in D THEN "told" ELSE asks[d]]
          /\ UNCHANGED <<faults \cap {"split", "reset"} # {}, file, answer>>
      BY <1>1, <3>1, <3>4, <3>5, <3>6 DEF Breakable
    <3> QED BY <3>7 DEF Atomic!Server, Atomic!Break, asks, answer
  <2>4. CASE h \in {Whole, Part}
    <3>1. AnswerOf(c)' = Lookup(file, qname)
      BY <1>1, <1>4, <1>6, <2>4, Mapping, HeldFacts
    <3>w. WellFormed(file) /\ file \in Records
      BY <1>1 DEF Regular, Records, WellFormed
    <3>2. CASE qname = QName[c]
      <4>1. Lookup(file, qname) = Says(file, c)
        BY <3>w, <3>2, LookupIsByLine DEF Says
      <4> QED BY <1>1, <2>2, <3>1, <4>1 DEF Atomic!Server, Atomic!Tell, asks, answer
    <3>3. CASE qname \in Prefixes(QName[c]) /\ "split" \in faults
      <4>1. Lookup(file, qname) = LineLookup(file, qname)
        BY <3>w, LookupIsByLine
      <4>2. Lookup(file, qname) \in SaysOfCut(file, c)
        BY <3>3, <4>1 DEF SaysOfCut
      <4>3. faults \cap {"split", "reset"} # {}
        BY <3>3
      <4>4. \E a \in SaysOfCut(file, c) : answer' = [answer EXCEPT ![c] = a]
        BY <2>2, <3>1, <4>2
      <4>5. Atomic!Misread(c)
        BY <1>1, <2>2, <4>3, <4>4 DEF Atomic!Misread, asks, answer
      <4> QED BY <4>5 DEF Atomic!Server
    <3> QED BY <1>1, <1>6, <3>2, <3>3
  <2> QED BY <2>3, <2>4
<1> QED BY <1>1, <1>5, <1>6

(* The server ends: whoever waits for its answer is told nothing.          *)
LEMMA RefinesServerDies ==
    ASSUME Inv, ServerDies
    PROVE  Atomic!Break
<1> DEFINE D == {c \in Clients : /\ c = cur \/ Waits(c)
                                 /\ cpc[c] \in {"connected", "wait", "stalled"}}
<1>1. UNCHANGED <<faults, cpc, addr, file>> /\ Breakable
  BY DEF ServerDies, clients, Breakable
<1>2. \A c \in Clients : c = cur \/ Waits(c) => Unanswered(c)
  BY DnsAssumption DEF ServerDies, Inv, ServerInv, Reading
<1>3. \A c \in Clients :
          down'[c] = IF c = cur \/ Waits(c) THEN [holds |-> Closed, ip |-> Empty] ELSE down[c]
  BY DEF ServerDies, Waits
<1>4. Nothing \notin {Part, Whole, Closed} /\ Closed \notin {Part, Whole}
  BY DEF Nothing, Part, Whole, Closed
<1>5. ASSUME NEW c \in Clients
      PROVE  /\ AnswerOf(c)' = AnswerOf(c)
             /\ StandingOf(c)' = IF c \in D THEN "told" ELSE StandingOf(c)
             /\ c \in D => StandingOf(c) = "asking"
  <2>1. CASE c \in D
    <3>1. /\ down[c].holds = Nothing /\ down'[c].holds = Closed
          /\ cpc[c] \in {"connected", "wait", "stalled"}
      BY <1>2, <1>3, <2>1 DEF Unanswered
    <3>2. StandingOf(c) = "asking" /\ StandingOf(c)' = "told"
      BY <1>1, <1>4, <3>1, Mapping, StandingFacts
    <3>3. /\ Held(cpc[c], down[c], addr[c]) = Empty
          /\ Held(cpc[c], down'[c], addr[c]) = Empty
      BY <1>4, <3>1, HeldFacts
    <3>4. AnswerOf(c)' = AnswerOf(c)
      BY <1>1, <3>3, Mapping
    <3> QED BY <2>1, <3>2, <3>4
  <2>2. CASE c \notin D
    <3>1. \/ down'[c] = down[c]
          \/ cpc[c] = "dead"
      BY <1>2, <1>3, <2>2 DEF Unanswered
    <3>2. StandingOf(c)' = StandingOf(c)
      BY <1>1, <3>1, Mapping, StandingFacts
    <3>3. AnswerOf(c)' = AnswerOf(c)
      BY <1>1, <3>1, Mapping, HeldFacts
    <3> QED BY <2>2, <3>2, <3>3
  <2> QED BY <2>1, <2>2
<1>6. /\ \A c \in Clients : asks[c] = StandingOf(c)
      /\ asks' = [c \in Clients |-> StandingOf(c)']
      /\ answer = [c \in Clients |-> AnswerOf(c)]
      /\ answer' = [c \in Clients |-> AnswerOf(c)']
  BY DEF asks, answer
<1>7. answer' = answer
  BY <1>5, <1>6
<1>8. asks' = [c \in Clients |-> IF c \in D THEN "told" ELSE asks[c]]
  BY <1>5, <1>6
<1>9. D \in SUBSET {c \in Clients : asks[c] = "asking"}
  BY <1>5, <1>6
<1>10. /\ faults \cap {"split", "reset"} # {}
       /\ \E E \in SUBSET {c \in Clients : asks[c] = "asking"} :
             asks' = [c \in Clients |-> IF c \in E THEN "told" ELSE asks[c]]
       /\ UNCHANGED <<faults \cap {"split", "reset"} # {}, file, answer>>
  BY <1>1, <1>7, <1>8, <1>9 DEF Breakable
<1> QED BY <1>10 DEF Atomic!Break, asks, answer

LEMMA RefinesStep ==
    ASSUME Inv, Regular, [Next]_vars
    PROVE  [Atomic!Next]_Atomic!vars
<1> USE DEF Atomic!Next, Atomic!Client
<1>1. CASE Accept \/ Read \/ UNCHANGED vars
  <2>1. UNCHANGED <<faults, file, cpc, addr, down>>
    BY <1>1 DEF Accept, Read, clients, vars
  <2> QED BY <2>1, SameClients DEF Atomic!vars, asks, answer
<1>2. CASE Answer
  BY <1>2, RefinesAnswer
<1>3. CASE ServerDies
  BY <1>3, RefinesServerDies DEF Atomic!Server
<1>4. CASE EditFile
  <2>1. UNCHANGED <<faults, cpc, addr, down>> /\ file' \in Records
    BY <1>4 DEF EditFile, clients, Records
  <2> QED BY <2>1, SameClients DEF Atomic!Edit, asks, answer
<1>5. ASSUME NEW c \in Clients, Client(c) \/ Die(c) \/ Stall(c) \/ Rest(c)
      PROVE  [Atomic!Next]_Atomic!vars
  <2>1. CASE Connect(c)
    BY <2>1, RefinesConnect
  <2>2. CASE Refused(c)
    BY <2>2, RefinesRefused
  <2>3. CASE ReadReply(c)
    BY <2>3, RefinesReadReply
  <2>4. CASE Die(c)
    BY <2>4, RefinesDie
  <2>5. CASE Write(c) \/ Stall(c) \/ Rest(c)
    BY <2>5, RefinesWrite, RefinesStall, RefinesRest
  <2> QED BY <1>5, <2>1, <2>2, <2>3, <2>4, <2>5 DEF Client
<1> QED BY <1>1, <1>2, <1>3, <1>4, <1>5 DEF Next, Server

(* Whoever asks the server is told once, in one instant, what the file says*)
(* at that instant of the name it asked for, although a request and its    *)
(* reply take many steps, others queue meanwhile and the file is replaced; *)
(* only where a connection breaks or cuts a message may it be the answer to*)
(* a beginning of its name, a beginning of its answer, or no address       *)
(* (Server.c:76-101, client.cpp:73-84).  (For files with two words on every*)
(* line.)                                                                  *)
THEOREM ResolverCorrect ==
    ASSUME Regular
    PROVE  Spec => ActsAsResolver
<1>1. Init => Atomic!Init
  BY RefinesInit
<1>2. Inv /\ [Next]_vars => [Atomic!Next]_Atomic!vars
  BY RefinesStep
<1> QED BY <1>1, <1>2, InvCorrect, PTL DEF Spec, ActsAsResolver, Atomic!Spec

=============================================================================
