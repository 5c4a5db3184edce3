------------------------------ MODULE TcpAshish ------------------------------
(***************************************************************************)
(* The congestion control of Assignment8/as8_que1.cc: a NewReno whose slow *)
(* start ends as soon as the round-trip time exceeds its minimum by 4 ms.  *)
(* The module is one connection: the two overridden operations, called by  *)
(* the ns-3 socket for every acknowledgement, and what the socket itself   *)
(* does to the window on a loss (ns-3, outside the repository).            *)
(*                                                                         *)
(* Windows are in bytes, times in milliseconds.                            *)
(***************************************************************************)
EXTENDS Integers

CONSTANTS SegmentSize,  \* m_segmentSize
          InitialCWnd,  \* ten segments in the recorded traces
          InitialSsThresh,
          MaxRtt,       \* bound: the longest round-trip time
          MaxCWnd       \* bound: windows beyond it are not followed

ASSUME AshishAssumption ==
    /\ SegmentSize \in Nat \ {0}
    /\ InitialCWnd \in Nat /\ InitialCWnd >= SegmentSize
    /\ InitialSsThresh \in Nat /\ InitialSsThresh >= 2 * SegmentSize
    /\ MaxRtt \in Nat
    /\ MaxCWnd \in Nat

VARIABLES
    cWnd, ssThresh,   \* of the socket's TcpSocketState
    delayMin,         \* m_delayMin, NoDelay for Time::Max ()
    currRtt,          \* m_currRtt
    thresholdFound,   \* m_thresholdFound
    worstRtt          \* history: the longest round trip measured

rtts == <<delayMin, currRtt, worstRtt>>
vars == <<cWnd, ssThresh, delayMin, currRtt, thresholdFound, worstRtt>>

NoDelay == -1
Threshold == 4

Init ==
    /\ cWnd = InitialCWnd /\ ssThresh = InitialSsThresh
    /\ delayMin = NoDelay /\ currRtt = 0
    /\ thresholdFound = FALSE /\ worstRtt = 0

Larger(a, b) == IF a >= b THEN a ELSE b

-----------------------------------------------------------------------------
(* An operator named ...Mutant is a mistake one could make in the          *)
(* definition below it; no behaviour of the connection uses it.            *)

Measured(rtt) == rtt > 0

(* PktsAcked with a measured round-trip time; zero means that there was no *)
(* measurement.  NewReno's own PktsAcked does nothing.                     *)
PktsAcked(rtt) ==
    IF Measured(rtt)
    THEN /\ delayMin' = IF delayMin = NoDelay \/ rtt < delayMin THEN rtt ELSE delayMin
         /\ currRtt' = rtt
         /\ worstRtt' = Larger(worstRtt, rtt)
    ELSE UNCHANGED rtts

DelayGrewMutant == ~thresholdFound /\ delayMin' # NoDelay /\ currRtt' > delayMin'
FoundAgainMutant == delayMin' # NoDelay /\ currRtt' > delayMin' + Threshold

(* The test inside slow start, on the times PktsAcked has just left.       *)
DelayGrew ==
    /\ ~thresholdFound /\ delayMin' # NoDelay
    /\ currRtt' > delayMin' + Threshold

CappedThresholdMutant == cWnd \div 2
CappedThreshold == cWnd

(* Slow start: either the threshold is found now, or the window grows, or, *)
(* when it was found before, nothing happens.                              *)
SlowStart ==
    /\ cWnd < ssThresh
    /\ \/ /\ DelayGrew
          /\ thresholdFound' = TRUE
          /\ ssThresh' = CappedThreshold
          /\ UNCHANGED cWnd
       \/ /\ ~DelayGrew /\ ~thresholdFound
          /\ cWnd' = cWnd + SegmentSize
          /\ UNCHANGED <<ssThresh, thresholdFound>>
       \/ /\ thresholdFound
          /\ UNCHANGED <<cWnd, ssThresh, thresholdFound>>

(* TcpNewReno::IncreaseWindow outside slow start.                          *)
NewRenoIncreaseWindow ==
    /\ cWnd >= ssThresh
    /\ cWnd' = cWnd + Larger(1, (SegmentSize * SegmentSize) \div cWnd)
    /\ UNCHANGED <<ssThresh, thresholdFound>>

IncreaseWindow == SlowStart \/ NewRenoIncreaseWindow

(* An acknowledgement: PktsAcked, then IncreaseWindow.                     *)
Ack(rtt) ==
    /\ cWnd < MaxCWnd
    /\ PktsAcked(rtt)
    /\ IncreaseWindow

(* During recovery, and when the window was not the limit, the socket does *)
(* not ask for an increase.                                                *)
AckWithoutIncrease(rtt) ==
    /\ PktsAcked(rtt)
    /\ UNCHANGED <<cWnd, ssThresh, thresholdFound>>

-----------------------------------------------------------------------------
(* ns-3's socket.  GetSsThresh is NewReno's: half the data in flight, at   *)
(* least two segments.                                                     *)
GetSsThresh(flight) == Larger(2 * SegmentSize, flight \div 2)

(* Three duplicate acknowledgements need four segments in flight.          *)
FastRetransmit(flight) ==
    /\ 4 * SegmentSize <= flight /\ flight <= cWnd
    /\ ssThresh' = GetSsThresh(flight)
    /\ cWnd' = ssThresh'
    /\ UNCHANGED <<rtts, thresholdFound>>

(* The retransmission timer expires: back to one segment.  When it is the  *)
(* same segment again, the threshold stays.                                *)
RetransmitTimeout(flight) ==
    /\ 0 < flight /\ flight <= cWnd
    /\ ssThresh' \in {ssThresh, GetSsThresh(flight)}
    /\ cWnd' = SegmentSize
    /\ UNCHANGED <<rtts, thresholdFound>>

Rtts == 0..MaxRtt
Flights == 1..(MaxCWnd + SegmentSize)

Next ==
    \/ \E rtt \in Rtts : Ack(rtt) \/ AckWithoutIncrease(rtt)
    \/ \E flight \in Flights : FastRetransmit(flight) \/ RetransmitTimeout(flight)

Spec == Init /\ [][Next]_vars

-----------------------------------------------------------------------------
(* Properties.                                                             *)

(* The types of the window and of the delay state; neither the window nor  *)
(* the threshold ever falls below a segment.                               *)
TypeOK ==
    /\ cWnd \in Nat /\ cWnd >= SegmentSize
    /\ ssThresh \in Nat /\ ssThresh >= SegmentSize
    /\ delayMin \in Nat \cup {NoDelay} /\ currRtt \in Nat /\ worstRtt \in Nat
    /\ thresholdFound \in BOOLEAN

(* The threshold is found only when the path has shown two round trips     *)
(* more than 4 ms apart, however they were ordered and whatever was lost   *)
(* in between.                                                             *)
FoundNeedsDelay ==
    thresholdFound => delayMin # NoDelay /\ worstRtt > delayMin + Threshold

(* The flag is raised at most once, during slow start, and the step that   *)
(* raises it only ever lowers the threshold, to the window of the moment.  *)
TriggerCaps ==
    [][/\ thresholdFound => thresholdFound'
       /\ thresholdFound' # thresholdFound =>
             ssThresh' < ssThresh /\ ssThresh' = cWnd' /\ cWnd' = cWnd]_vars

(* Once the threshold is found a timeout is final: a window of one segment *)
(* below the threshold never grows again, whatever is acknowledged or lost.*)
Stuck == thresholdFound /\ cWnd = SegmentSize /\ cWnd < ssThresh
StuckForEver == [][Stuck => Stuck']_vars

(* "If the threshold has already been found ... the code simply calls      *)
(* TcpNewReno::IncreaseWindow": an increase then makes the window grow.    *)
HandsBack ==
    [][\A rtt \in Rtts : Ack(rtt) /\ thresholdFound => cWnd' > cWnd]_vars
=============================================================================
