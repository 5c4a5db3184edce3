------------------------------ MODULE Resolver ------------------------------
(***************************************************************************)
(* What a client of the name server is promised.  It asks once, unless it  *)
(* is refused; it is told once, in one instant, what the records say at    *)
(* that instant of the name it asked for; and it acts on what it was told: *)
(* it ends if there is no such name, and otherwise streams from that       *)
(* address.  If connections may break, the question may be cut short, and  *)
(* then it is told what the records say of the shorter name; the answer    *)
(* may be cut short, and then it acts on what is left of it; and it may    *)
(* get none, and then streams from no address.                             *)
(***************************************************************************)
CONSTANTS Clients,
          Files,          \* what the records may say
          Says(_, _),     \* what they say of the name a client asks for
          Mistakes(_, _), \* what they may say of such a name cut short
          Cut(_),         \* what may be left of an answer cut short
          NotFound, Empty \* no such name; no address

VARIABLES
    breakable,  \* connections may break
    file,       \* the records now
    asks,       \* where each client stands
    answer      \* the address each client holds

vars == <<breakable, file, asks, answer>>

Init ==
    /\ breakable \in BOOLEAN
    /\ file \in Files
    /\ asks = [c \in Clients |-> "idle"] /\ answer = [c \in Clients |-> Empty]

Ask(c) ==
    /\ asks[c] = "idle"
    /\ asks' = [asks EXCEPT ![c] = "asking"]
    /\ UNCHANGED <<breakable, file, answer>>

Tell(c) ==
    /\ asks[c] = "asking"
    /\ asks' = [asks EXCEPT ![c] = "told"]
    /\ answer' = [answer EXCEPT ![c] = Says(file, c)]
    /\ UNCHANGED <<breakable, file>>

Act(c) ==
    /\ asks[c] = "told"
    /\ asks' = [asks EXCEPT ![c] = IF answer[c] = NotFound THEN "quit" ELSE "streams"]
    /\ UNCHANGED <<breakable, file, answer>>

(* The question is cut short on its way.                                   *)
Misread(c) ==
    /\ breakable /\ asks[c] = "asking"
    /\ asks' = [asks EXCEPT ![c] = "told"]
    /\ \E a \in Mistakes(file, c) : answer' = [answer EXCEPT ![c] = a]
    /\ UNCHANGED <<breakable, file>>

(* The server ends, and with it every connection.                          *)
Break ==
    /\ breakable
    /\ \E D \in SUBSET {c \in Clients : asks[c] = "asking"} :
          asks' = [c \in Clients |-> IF c \in D THEN "told" ELSE asks[c]]
    /\ UNCHANGED <<breakable, file, answer>>

(* It has ended, or has no room for another connection.                    *)
Refuse(c) ==
    /\ asks[c] = "idle"
    /\ asks' = [asks EXCEPT ![c] = "quit"]
    /\ UNCHANGED <<breakable, file, answer>>

(* The answer is cut short on its way.                                     *)
ActOnCut(c) ==
    /\ breakable /\ asks[c] = "told"
    /\ \E a \in Cut(answer[c]) :
          /\ asks' = [asks EXCEPT ![c] = IF a = NotFound THEN "quit" ELSE "streams"]
          /\ answer' = [answer EXCEPT ![c] = a]
    /\ UNCHANGED <<breakable, file>>

Leave(c) ==
    /\ asks[c] \in {"asking", "told"}
    /\ asks' = [asks EXCEPT ![c] = "gone"]
    /\ answer' = [answer EXCEPT ![c] = Empty]
    /\ UNCHANGED <<breakable, file>>

Edit ==
    /\ file' \in Files
    /\ UNCHANGED <<breakable, asks, answer>>

Client(c) == Ask(c) \/ Act(c) \/ Refuse(c) \/ ActOnCut(c) \/ Leave(c)
Server == Break \/ \E c \in Clients : Tell(c) \/ Misread(c)

Next == Server \/ Edit \/ \E c \in Clients : Client(c)

Spec == Init /\ [][Next]_vars
=============================================================================
