------------------------------ MODULE Stability ------------------------------
(***************************************************************************)
(* What a rebuild of unchanged caches publishes: the score of a namespace, *)
(* a mean of float64 values that Aggregate sums up in the order of the     *)
(* list, and the capacity that nodeGPU finds for a node.  A lister of      *)
(* client-go ranges over a Go map, and so does nodeGPU over its resources: *)
(* each goes in an order of its own every time.                            *)
(*                                                                         *)
(* A floating-point number is an integer here, in units of 1/One; its      *)
(* significand has Precision bits, 53 in a float64, and a result is        *)
(* rounded to the nearest of them, a tie to the even one.  One is so large *)
(* that what is not 0 has as many bits as it needs.                        *)
(***************************************************************************)
EXTENDS Integers, FiniteSets, SequencesExt

CONSTANTS
    Precision,      \* bits of a significand
    One,            \* the integer for 1.0, a power of two
    Workloads,      \* those of the namespace
    Desired,        \* replicas of each
    Capacities      \* what the node offers of the resources named after a gpu

VARIABLES
    available,      \* workload -> its ready and available replicas, in the caches
    read,           \* the same, as the last build found them
    score, gpu      \* what it published for the namespace and for the node

vars == <<available, read, score, gpu>>

-----------------------------------------------------------------------------
(* The number next to x / n: ulp is the value of its last bit. *)
Rounded(x, n) ==
    LET ulp == CHOOSE u \in {2 ^ k : k \in 0..20} :
                  x < n * u * 2 ^ Precision /\ (u = 1 \/ 2 * x >= n * u * 2 ^ Precision)
        q   == x \div (n * ulp)
        r   == x % (n * ulp)
    IN  ulp * (IF 2 * r > n * ulp \/ (2 * r = n * ulp /\ q % 2 = 1) THEN q + 1 ELSE q)

Plus(x, y) == Rounded(x + y, 1)

(* Workload: its score when some replicas are missing, or none. *)
WorkloadScore(n) == Rounded(n * One, Desired)

(* Aggregate: the mean over the children in the order of the slice. *)
Mean(children) == Rounded(FoldLeft(Plus, 0, children), Len(children))

(* The orders in which List may return the workloads. *)
Lists == {s \in [1..Cardinality(Workloads) -> Workloads] : IsInjective(s)}

Init ==
    /\ available \in [Workloads -> 0..Desired] /\ read = available
    /\ \E list \in Lists : score = Mean([i \in DOMAIN list |-> WorkloadScore(read[list[i]])])
    /\ gpu \in Capacities

(* buildGraph, for the two nodes. *)
Build ==
    /\ read' = available
    /\ \E list \in Lists : score' = Mean([i \in DOMAIN list |-> WorkloadScore(available[list[i]])])
    /\ gpu' \in Capacities
    /\ UNCHANGED available

(* A pod of a workload becomes ready, or ceases to be. *)
Changes(w) ==
    /\ \E n \in {available[w] - 1, available[w] + 1} \cap 0..Desired :
          available' = [available EXCEPT ![w] = n]
    /\ UNCHANGED <<read, score, gpu>>

Next == Build \/ \E w \in Workloads : Changes(w)

Spec == Init /\ [][Next]_vars

-----------------------------------------------------------------------------
(* A build that finds what the last one found publishes what the last one
   published, so that its change set is empty.  The comment at graph.go:297
   promises it: "Deterministic ordering keeps diffs minimal and output
   stable"; nodeEqual compares scores with ==. *)
OutputIsStable == [][read' = read => score' = score /\ gpu' = gpu]_vars
=============================================================================
