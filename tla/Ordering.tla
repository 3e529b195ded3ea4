------------------------------ MODULE Ordering ------------------------------
(***************************************************************************)
(* Sorting, said without an algorithm: where a member of a set stands is   *)
(* the number of those that do not come after it.  The code sorts with     *)
(* sorted() and filters with comprehensions; both keep the order of what   *)
(* compares equal, and so does this.                                       *)
(***************************************************************************)
EXTENDS Integers, Sequences, FiniteSets

(* The members of S, numbers, that do not come after i when S is sorted by *)
(* key.                                                                    *)
UpTo(S, key, i) ==
  {j \in S : key[j] < key[i] \/ (key[j] = key[i] /\ j <= i)}

(* S sorted by key, and a sequence by the keys of its places.              *)
Ordered(S, key) ==
  [k \in 1 .. Cardinality(S) |->
     CHOOSE i \in S : Cardinality(UpTo(S, key, i)) = k]
SortedBy(s, key) ==
  LET order == Ordered(DOMAIN s, key) IN [k \in DOMAIN s |-> s[order[k]]]

(* S in the order of its numbers.                                          *)
InOrder(S) == Ordered(S, [i \in S |-> i])
=============================================================================
