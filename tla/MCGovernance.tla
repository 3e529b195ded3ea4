---------------------------- MODULE MCGovernance ----------------------------
(***************************************************************************)
(* Instances of Governance for TLC: fixes f1 and f2 are automatic, f3 is   *)
(* report-only.                                                            *)
(***************************************************************************)
EXTENDS Governance, TLC

CONSTANTS f1, f2, f3, m1, va, vb

Auto  == {f1, f2} \cap Fix
(* Both automatic fixes are for one image, and they disagree.              *)
Shared == [f \in Auto |-> m1]
Wanted == [f \in Auto |-> IF f = f1 THEN vb ELSE va]

Symmetry == Permutations(Request)
=============================================================================
