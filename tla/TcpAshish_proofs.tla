-------------------------- MODULE TcpAshish_proofs --------------------------
(* Proofs about TcpAshish, for every segment size and initial window.      *)
EXTENDS TcpAshish, TLAPS

(* What Larger returns.                                                    *)
LEMMA LargerFacts ==
    ASSUME NEW a \in Int, NEW b \in Int
    PROVE  Larger(a, b) \in Int /\ Larger(a, b) >= a /\ Larger(a, b) >= b
BY DEF Larger

(* NewReno's threshold after a loss is a number, of two segments at least. *)
LEMMA GetSsThreshFacts ==
    ASSUME NEW flight \in Nat
    PROVE  GetSsThresh(flight) \in Nat /\ GetSsThresh(flight) >= 2 * SegmentSize
<1>1. SegmentSize \in Nat \ {0}
  BY AshishAssumption
<1>2. 2 * SegmentSize \in Int /\ flight \div 2 \in Int
  BY <1>1
<1> DEFINE a == 2 * SegmentSize
           b == flight \div 2
<1> HIDE DEF a, b
<1>3. Larger(a, b) \in Int /\ Larger(a, b) >= a
  BY <1>2, LargerFacts DEF a, b
<1>4. QED
  BY <1>1, <1>3 DEF GetSsThresh, a, b

(* Congestion avoidance adds at least a byte.                              *)
LEMMA NewRenoGrows ==
    ASSUME TypeOK, NewRenoIncreaseWindow
    PROVE  cWnd' \in Nat /\ cWnd' > cWnd
<1>1. SegmentSize \in Nat \ {0} /\ cWnd \in Nat \ {0}
  BY AshishAssumption DEF TypeOK
<1> DEFINE square == SegmentSize * SegmentSize
           q == square \div cWnd
<1>2. square \in Int
  BY <1>1
<1> HIDE DEF square
<1>3. q \in Int
  BY <1>1, <1>2
<1> HIDE DEF q
<1>4. Larger(1, q) \in Int /\ Larger(1, q) >= 1
  BY <1>3, LargerFacts
<1>5. cWnd' = cWnd + Larger(1, q)
  BY DEF NewRenoIncreaseWindow, q, square
<1>6. QED
  BY <1>1, <1>4, <1>5

(* The part of the types that is about numbers.                            *)
Numbers ==
    /\ cWnd \in Nat /\ cWnd >= SegmentSize
    /\ ssThresh \in Nat /\ ssThresh >= SegmentSize
    /\ delayMin \in Nat \cup {NoDelay} /\ currRtt \in Nat /\ worstRtt \in Nat

LEMMA TypeParts == TypeOK <=> Numbers /\ thresholdFound \in BOOLEAN
BY DEF TypeOK, Numbers

(* The baseline is never above a measured round trip, and the sample that  *)
(* is compared with it is one of those measured.                           *)
BaselineIsMinimum ==
    delayMin # NoDelay => 0 < delayMin /\ delayMin <= currRtt /\ currRtt <= worstRtt

(* A round trip more than 4 ms above the baseline has been seen.           *)
DelaySeen == delayMin # NoDelay /\ worstRtt > delayMin + Threshold

(* The delay state keeps its types, its baseline and its order, whether    *)
(* the acknowledgement carried a measurement or not.                       *)
LEMMA PktsAckedFacts ==
    ASSUME TypeOK, BaselineIsMinimum, NEW rtt \in Rtts, PktsAcked(rtt)
    PROVE  /\ delayMin' \in Nat \cup {NoDelay} /\ currRtt' \in Nat /\ worstRtt' \in Nat
           /\ BaselineIsMinimum'
           /\ DelaySeen => DelaySeen'
<1>1. rtt \in Nat
  BY AshishAssumption DEF Rtts
<1>2. CASE Measured(rtt)
  BY <1>1, <1>2
  DEF PktsAcked, TypeOK, BaselineIsMinimum, Larger, Measured, NoDelay, DelaySeen, Threshold
<1>3. CASE ~Measured(rtt)
  BY <1>1, <1>3
  DEF PktsAcked, TypeOK, BaselineIsMinimum, NoDelay, rtts, DelaySeen, Threshold
<1>4. QED
  BY <1>2, <1>3

-----------------------------------------------------------------------------
(* The inductive invariant: the types, the order of the delay state and    *)
(* the reason of a threshold that was found.                               *)
IInv == TypeOK /\ BaselineIsMinimum /\ FoundNeedsDelay

LEMMA InitEstablishes == Init => IInv
<1> SUFFICES ASSUME Init PROVE IInv
  OBVIOUS
<1>1. Numbers /\ BaselineIsMinimum
  BY AshishAssumption DEF Init, Numbers, BaselineIsMinimum, NoDelay
<1>2. thresholdFound \in BOOLEAN /\ FoundNeedsDelay
  BY DEF Init, FoundNeedsDelay
<1>3. QED
  BY <1>1, <1>2, TypeParts DEF IInv

(* An acknowledgement, with an increase of the window.                     *)
LEMMA AckPreserves ==
    ASSUME IInv, NEW rtt \in Rtts, Ack(rtt)
    PROVE  IInv'
<1>1. TypeOK /\ BaselineIsMinimum /\ FoundNeedsDelay
  BY DEF IInv
<1>2. PktsAcked(rtt) /\ IncreaseWindow
  BY DEF Ack
<1>3. /\ delayMin' \in Nat \cup {NoDelay} /\ currRtt' \in Nat /\ worstRtt' \in Nat
      /\ BaselineIsMinimum'
      /\ DelaySeen => DelaySeen'
  BY <1>1, <1>2, PktsAckedFacts
<1>4. SegmentSize \in Nat \ {0}
  BY AshishAssumption
<1>5. CASE NewRenoIncreaseWindow
  <2>1. cWnd' \in Nat /\ cWnd' > cWnd
    BY <1>1, <1>5, NewRenoGrows
  <2>2. Numbers'
    BY <1>1, <1>3, <1>4, <1>5, <2>1 DEF TypeOK, Numbers, NewRenoIncreaseWindow
  <2>3. thresholdFound' \in BOOLEAN /\ FoundNeedsDelay'
    BY <1>1, <1>3, <1>5, Zenon
    DEF FoundNeedsDelay, DelaySeen, NewRenoIncreaseWindow, TypeOK
  <2>4. QED
    BY <1>3, <2>2, <2>3, TypeParts DEF IInv, TypeOK, Numbers
<1>6. CASE SlowStart
  <2>1. Numbers'
    BY <1>1, <1>3, <1>4, <1>6 DEF TypeOK, Numbers, SlowStart, CappedThreshold
  <2>2. thresholdFound' \in BOOLEAN
    BY <1>1, <1>6, Zenon DEF TypeOK, SlowStart
  <2>3. DelayGrew => DelaySeen'
    <3> SUFFICES ASSUME DelayGrew PROVE DelaySeen'
      OBVIOUS
    <3>1. delayMin' # NoDelay /\ currRtt' > delayMin' + Threshold
      BY DEF DelayGrew
    <3>2. currRtt' <= worstRtt'
      BY <1>3, <3>1 DEF BaselineIsMinimum
    <3>3. delayMin' \in Nat \cup {NoDelay} /\ currRtt' \in Nat /\ worstRtt' \in Nat
      BY <1>3, Zenon
    <3>4. worstRtt' > delayMin' + Threshold
      <4>1. delayMin' \in Int /\ currRtt' \in Int /\ worstRtt' \in Int
        BY <3>3 DEF NoDelay
      <4>2. \A a, b, c \in Int : a > b + Threshold /\ a <= c => c > b + Threshold
        BY DEF Threshold
      <4>3. QED
        BY <3>1, <3>2, <4>1, <4>2
    <3>5. QED
      BY <3>1, <3>4 DEF DelaySeen
  <2>4. thresholdFound' => thresholdFound \/ DelayGrew
    BY <1>6, Zenon DEF SlowStart
  <2>5. FoundNeedsDelay'
    BY <1>1, <1>3, <2>3, <2>4, Zenon DEF FoundNeedsDelay, DelaySeen
  <2>6. QED
    BY <1>3, <2>1, <2>2, <2>5 DEF IInv, TypeOK, Numbers
<1>7. QED
  BY <1>2, <1>5, <1>6 DEF IncreaseWindow

(* An acknowledgement that leaves the window alone.                        *)
LEMMA AckWithoutIncreasePreserves ==
    ASSUME IInv, NEW rtt \in Rtts, AckWithoutIncrease(rtt)
    PROVE  IInv'
<1>1. TypeOK /\ BaselineIsMinimum /\ FoundNeedsDelay /\ PktsAcked(rtt)
  BY DEF IInv, AckWithoutIncrease
<1>2. /\ delayMin' \in Nat \cup {NoDelay} /\ currRtt' \in Nat /\ worstRtt' \in Nat
      /\ BaselineIsMinimum'
      /\ DelaySeen => DelaySeen'
  BY <1>1, PktsAckedFacts
<1>3. Numbers'
  BY <1>1, <1>2 DEF TypeOK, Numbers, AckWithoutIncrease
<1>4. thresholdFound' \in BOOLEAN /\ FoundNeedsDelay'
  BY <1>1, <1>2, Zenon DEF TypeOK, FoundNeedsDelay, DelaySeen, AckWithoutIncrease
<1>5. QED
  BY <1>2, <1>3, <1>4 DEF IInv, TypeOK, Numbers

(* A loss touches the window and the threshold and nothing else.           *)
LEMMA LossPreserves ==
    ASSUME IInv, NEW flight \in Flights,
           FastRetransmit(flight) \/ RetransmitTimeout(flight)
    PROVE  IInv'
<1>1. SegmentSize \in Nat \ {0} /\ flight \in Nat
  BY AshishAssumption DEF Flights
<1>2. GetSsThresh(flight) \in Nat /\ GetSsThresh(flight) >= 2 * SegmentSize
  BY <1>1, GetSsThreshFacts
<1>3. TypeOK'
  BY <1>1, <1>2 DEF IInv, TypeOK, FastRetransmit, RetransmitTimeout, rtts
<1>4. BaselineIsMinimum' /\ FoundNeedsDelay'
  BY DEF IInv, BaselineIsMinimum, FoundNeedsDelay, FastRetransmit, RetransmitTimeout, rtts
<1>5. QED
  BY <1>3, <1>4 DEF IInv

LEMMA NextPreserves == IInv /\ [Next]_vars => IInv'
<1>1. ASSUME IInv, UNCHANGED vars PROVE IInv'
  BY <1>1 DEF IInv, TypeOK, BaselineIsMinimum, FoundNeedsDelay, vars
<1>2. QED
  BY <1>1, AckPreserves, AckWithoutIncreasePreserves, LossPreserves DEF Next

LEMMA Inductive == Spec => []IInv
BY InitEstablishes, NextPreserves, PTL DEF Spec

-----------------------------------------------------------------------------
(* The window and the threshold never fall below a segment, whatever the   *)
(* path does.                                                              *)
THEOREM TypeCorrect == Spec => []TypeOK
<1>1. IInv => TypeOK
  BY DEF IInv
<1>2. QED
  BY <1>1, Inductive, PTL

(* Slow start is never cut short on a path whose round trips stay within   *)
(* 4 ms of each other.                                                     *)
THEOREM FoundCorrect == Spec => []FoundNeedsDelay
<1>1. IInv => FoundNeedsDelay
  BY DEF IInv
<1>2. QED
  BY <1>1, Inductive, PTL

(* The flag is raised at most once, and the step that raises it lowers the *)
(* threshold to the window.                                                *)
THEOREM TriggerCorrect == Spec => TriggerCaps
<1> DEFINE Caps == /\ thresholdFound => thresholdFound'
                   /\ thresholdFound' # thresholdFound =>
                         ssThresh' < ssThresh /\ ssThresh' = cWnd' /\ cWnd' = cWnd
<1>1. IInv /\ [Next]_vars => [Caps]_vars
  <2> SUFFICES ASSUME IInv, [Next]_vars PROVE [Caps]_vars
    OBVIOUS
  <2>1. ASSUME NEW rtt \in Rtts, Ack(rtt) PROVE Caps
    <3>1. CASE SlowStart
      BY <3>1 DEF SlowStart, CappedThreshold, IInv, TypeOK
    <3>2. CASE NewRenoIncreaseWindow
      BY <3>2 DEF NewRenoIncreaseWindow
    <3>3. QED
      BY <2>1, <3>1, <3>2 DEF Ack, IncreaseWindow
  <2>2. ASSUME NEW rtt \in Rtts, AckWithoutIncrease(rtt) PROVE Caps
    BY <2>2 DEF AckWithoutIncrease
  <2>3. ASSUME NEW flight \in Flights, FastRetransmit(flight) \/ RetransmitTimeout(flight)
        PROVE  Caps
    BY <2>3 DEF FastRetransmit, RetransmitTimeout
  <2>4. QED
    BY <2>1, <2>2, <2>3 DEF Next
<1>2. QED
  BY <1>1, Inductive, PTL DEF Spec, TriggerCaps

(* A timeout after the threshold was found is final: the window stays at   *)
(* one segment in every continuation, whatever is acknowledged or lost.    *)
THEOREM StuckCorrect == Spec => StuckForEver
<1>1. IInv /\ [Next]_vars => [Stuck => Stuck']_vars
  <2> SUFFICES ASSUME IInv, Next, Stuck PROVE Stuck'
    OBVIOUS
  <2>1. SegmentSize \in Nat \ {0} /\ Flights \subseteq Nat
    BY AshishAssumption DEF Flights
  <2>2. ASSUME NEW rtt \in Rtts, Ack(rtt) PROVE Stuck'
    <3>1. SlowStart
      <4>1. ~(cWnd >= ssThresh)
        BY DEF Stuck, IInv, TypeOK
      <4>2. QED
        BY <2>2, <4>1 DEF Ack, IncreaseWindow, NewRenoIncreaseWindow
    <3>2. QED
      BY <3>1 DEF SlowStart, DelayGrew, Stuck
  <2>3. ASSUME NEW rtt \in Rtts, AckWithoutIncrease(rtt) PROVE Stuck'
    BY <2>3 DEF AckWithoutIncrease, Stuck
  <2>4. ASSUME NEW flight \in Flights, FastRetransmit(flight) PROVE Stuck'
    BY <2>1, <2>4 DEF FastRetransmit, Stuck
  <2>5. ASSUME NEW flight \in Flights, RetransmitTimeout(flight) PROVE Stuck'
    <3>1. GetSsThresh(flight) \in Nat /\ GetSsThresh(flight) >= 2 * SegmentSize
      BY <2>1, GetSsThreshFacts
    <3>2. QED
      BY <2>1, <2>5, <3>1 DEF RetransmitTimeout, Stuck
  <2>6. QED
    BY <2>2, <2>3, <2>4, <2>5 DEF Next
<1>2. QED
  BY <1>1, Inductive, PTL DEF Spec, StuckForEver
=============================================================================
