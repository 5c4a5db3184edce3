---------------------------- MODULE MCSimulation ----------------------------
(* Every program with the arguments of its defaults, and with others: the  *)
(* ones the traces of Q7 were recorded with, a link too slow for the load, *)
(* and an interval of zero.                                                *)
EXTENDS Simulation, Scenarios

Args(kbps, latency, max, interval) ==
    [kbps |-> kbps, latency |-> latency, max |-> max, interval |-> interval]
Defaults(max) == Args(1000, 1000, max, 1000000)

Names == {"que1", "que2", "que3", "que4", "que5", "que6", "que7", "que7recorded",
          "que4slow", "que5slow", "que5burst", "partA", "partB", "partB1", "partBlost",
          "dumbbell4", "dumbbell4mix"}

Programs == [n \in Names |->
    CASE n = "que1" -> Que1(Defaults(0))
      [] n = "que2" -> Que2(Defaults(100))
      [] n = "que3" -> Que3(Defaults(10))
      [] n = "que4" -> Que4(Defaults(10))
      [] n = "que5" -> Que5(Defaults(10))
      [] n = "que6" -> Que6(Defaults(10))
      [] n = "que7" -> Que7(Defaults(10))
      [] n = "que7recorded" -> Que7(Args(5000, 2000, 3000, 10000))
      [] n = "que4slow" -> Que4(Args(10, 1000, 100, 1000000))
      [] n = "que5slow" -> Que5(Args(5, 2000000, 10, 1000000))
      [] n = "que5burst" -> Que5(Args(1000, 0, 10, 0))
      [] n = "partA" -> PartA
      [] n = "partB" -> PartB(100, "never")
      [] n = "partB1" -> PartB(1, "maybe")
      [] n = "partBlost" -> PartB(100, "always")
      [] n = "dumbbell4" -> Dumbbell(4, FALSE)
      [] n = "dumbbell4mix" -> Dumbbell(4, TRUE)]

(* The programs that trace are dumbbells.                                  *)
ASSUME DumbbellsTrace ==
    \A m \in Names : Programs[m].traces # {} =>
        \E n \in 2..4, mix \in BOOLEAN : Programs[m] = Dumbbell(n, mix)
=============================================================================
