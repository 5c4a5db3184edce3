-------------------------------- MODULE Tally --------------------------------
(***************************************************************************)
(* What a ping promises.  Its turns come one after the other, each gets    *)
(* exactly one verdict, which is never taken back; a turn is called        *)
(* received only if by then the far end has sent back the probe of that    *)
(* very turn, and then and only then its time is summed; the report comes  *)
(* after the last verdict and changes none.                                *)
(***************************************************************************)
EXTENDS Naturals

CONSTANT N    \* the turns

VARIABLES
    turn,                  \* turns that have a verdict
    received, lost, other, \* how many of each
    summed,                \* turns whose time is in the average
    echoed,                \* probes the far end has sent back
    reported

vars == <<turn, received, lost, other, summed, echoed, reported>>

Init ==
    /\ turn = 0
    /\ received = 0 /\ lost = 0 /\ other = 0
    /\ summed = {} /\ echoed = {} /\ reported = FALSE

(* The far end sends back a probe of a turn that has begun.                *)
Echo ==
    /\ \E p \in 1..N : p <= turn + 1 /\ echoed' = echoed \cup {p}
    /\ UNCHANGED <<turn, received, lost, other, summed, reported>>

Judge ==
    /\ turn < N /\ ~reported
    /\ turn' = turn + 1
    /\ \/ /\ turn + 1 \in echoed
          /\ received' = received + 1 /\ summed' = summed \cup {turn + 1}
          /\ UNCHANGED <<lost, other>>
       \/ lost' = lost + 1 /\ UNCHANGED <<received, other, summed>>
       \/ other' = other + 1 /\ UNCHANGED <<received, lost, summed>>
    /\ UNCHANGED <<echoed, reported>>

Report ==
    /\ turn = N /\ ~reported
    /\ reported' = TRUE
    /\ UNCHANGED <<turn, received, lost, other, summed, echoed>>

Next == Echo \/ Judge \/ Report

Spec == Init /\ [][Next]_vars
=============================================================================
