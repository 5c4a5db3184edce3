----------------------------- MODULE LossyFlows -----------------------------
(***************************************************************************)
(* What the clients and servers of the UDP simulations may expect of the   *)
(* network between them, flow by flow: a request is lost or heard once by  *)
(* its own server, in the order of sending; an echo is lost or comes back  *)
(* once, in that order; and no flow has anything to do with another.       *)
(***************************************************************************)
EXTENDS FiniteSetsExt

CONSTANT Flows

VARIABLES
    echoing,   \* the flows whose server sends every request back
    sent,      \* requests sent
    requests,  \* the numbers of the requests on their way
    heard,     \* requests the server of the flow heard
    echoes,    \* the numbers of the echoes on their way
    answered   \* echoes the client of the flow heard

vars == <<echoing, sent, requests, heard, echoes, answered>>

Init ==
    /\ echoing \subseteq Flows
    /\ sent = [f \in Flows |-> 0] /\ heard = [f \in Flows |-> 0]
    /\ answered = [f \in Flows |-> 0]
    /\ requests = [f \in Flows |-> {}] /\ echoes = [f \in Flows |-> {}]

Send(f) ==
    /\ sent' = [sent EXCEPT ![f] = @ + 1]
    /\ requests' = [requests EXCEPT ![f] = @ \cup {sent'[f]}]
    /\ UNCHANGED <<echoing, heard, echoes, answered>>

Hear(f) ==
    /\ requests[f] # {}
    /\ requests' = [requests EXCEPT ![f] = @ \ {Min(@)}]
    /\ heard' = [heard EXCEPT ![f] = @ + 1]
    /\ echoes' = [echoes EXCEPT ![f] =
                     IF f \in echoing THEN @ \cup {Min(requests[f])} ELSE @]
    /\ UNCHANGED <<echoing, sent, answered>>

Return(f) ==
    /\ echoes[f] # {}
    /\ echoes' = [echoes EXCEPT ![f] = @ \ {Min(@)}]
    /\ answered' = [answered EXCEPT ![f] = @ + 1]
    /\ UNCHANGED <<echoing, sent, requests, heard>>

Lose(f) ==
    /\ \/ /\ \E n \in requests[f] : requests' = [requests EXCEPT ![f] = @ \ {n}]
          /\ UNCHANGED echoes
       \/ /\ \E n \in echoes[f] : echoes' = [echoes EXCEPT ![f] = @ \ {n}]
          /\ UNCHANGED requests
    /\ UNCHANGED <<echoing, sent, heard, answered>>

Next == \E f \in Flows : Send(f) \/ Hear(f) \/ Return(f) \/ Lose(f)

Spec == Init /\ [][Next]_vars
=============================================================================
