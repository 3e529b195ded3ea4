----------------------------- MODULE MCMissions -----------------------------
(***************************************************************************)
(* Instances of Missions for TLC: a mission whose plan has two nodes.      *)
(***************************************************************************)
EXTENDS Missions, TLC

CONSTANTS n1, n2

InOrder == [n \in Node |-> IF n = n1 THEN 1 ELSE 2]
Once    == [n \in Node |-> 1]

Symmetry == Permutations(Worker) \cup Permutations(Specialist)
=============================================================================
