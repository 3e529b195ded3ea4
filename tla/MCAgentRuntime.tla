--------------------------- MODULE MCAgentRuntime ---------------------------
(***************************************************************************)
(* Instances of AgentRuntime for TLC: a plan that forks.                   *)
(***************************************************************************)
EXTENDS AgentRuntime, TLC

CONSTANTS n1, n2, n3

(* n1 before n2 and n3, which the dictionary lists the other way round     *)
Fork == {<<n1, n2>>, <<n1, n3>>}
OutOfOrder == [n \in Node |-> IF n = n1 THEN 3 ELSE IF n = n2 THEN 2 ELSE 1]
Once       == [n \in Node |-> 1]

Symmetry == Permutations(Worker)
=============================================================================
