----------------------------- MODULE EventQueue -----------------------------
(***************************************************************************)
(* The event list of ns-3's simulator, the library the programs of         *)
(* Assignments 5 to 8 are written for (it is not in the repository).  A    *)
(* queue is a set of events; an event is its time, the number it was given *)
(* when it was scheduled and the call it stands for.                       *)
(***************************************************************************)
EXTENDS Integers

Event(ts, uid, call) == [ts |-> ts, uid |-> uid, call |-> call]

(* Events of the same time run in the order in which they were scheduled.  *)
Before(e, f) == e.ts < f.ts \/ (e.ts = f.ts /\ e.uid <= f.uid)

Runs(e, queue) == e \in queue /\ \A f \in queue : Before(e, f)

Without(queue, uid) == {e \in queue : e.uid # uid}
Pending(queue, uid) == \E e \in queue : e.uid = uid
=============================================================================
