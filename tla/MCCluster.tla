----------------------------- MODULE MCCluster -----------------------------
(* Instances of Cluster for TLC. *)
EXTENDS Cluster, TLC

CONSTANTS p1, p2, p3, c1, c2

\* The same list in another order on each machine; one machine is listed twice.
Orders == {(1 :> <<2, 1, 2>>) @@ (2 :> <<2, 2, 1>>)}

Pages == {[page |-> 1, size |-> 2]}

\* MachineAt counts positions; the code sorts the list and reads it.
ASSUME SortedAlike ==
  \A l \in UNION {[1 .. n -> 1 .. 3] : n \in 1 .. 4} :
    \A id \in MachineIds(l) : MachineAt(l, id) = SortSeq(l, <)[id + 1]

Symmetry == Permutations(Request) \cup Permutations(Content)
=============================================================================
