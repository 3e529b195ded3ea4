---------------------------- MODULE DataLemmas -----------------------------
(***************************************************************************)
(* Lemmas about data that the proofs about services share.  The induction  *)
(* theorems of the library take an operator, which no prover here can      *)
(* instantiate, so that induction is stated with a set: of the numbers, or *)
(* of the subsets of a finite set, for which something holds.  With it, a  *)
(* recursive function and a fold over a set are shown to exist, and what   *)
(* sums, maxima, sorting and the sequence made of a set return.            *)
(***************************************************************************)
EXTENDS Ordering, SequencesExt, FiniteSetTheorems, FunctionTheorems,
        SequenceTheorems, WellFoundedInduction, TLAPS

-----------------------------------------------------------------------------
(* There is a least number in every set of them.                           *)
LEMMA SmallestNumber ==
  ASSUME NEW T, T \subseteq Nat, T # {}
  PROVE  \E x \in T : \A y \in T : x <= y
<1> DEFINE R == {ss \in Nat \X Nat : ss[1] < ss[2]}
<1>1. IsWellFoundedOn(R, Nat)
  BY NatLessThanWellFounded DEF OpToRel
<1>2. PICK x \in T : \A y \in T : <<y, x>> \notin R
  <2> HIDE DEF R
  <2> QED BY <1>1, WFMin
<1>3. ASSUME NEW y \in T PROVE x <= y
  <2>1. y < x => <<y, x>> \in R
    OBVIOUS
  <2>2. ~ (y < x)
    BY <2>1, <1>2
  <2> QED BY <2>2
<1> QED BY <1>3

(* Induction up to a number: what holds of 0, and of every number after    *)
(* one it holds of, holds of all.                                          *)
LEMMA AllNumbers ==
  ASSUME NEW n \in Nat, NEW P, 0 \in P,
         \A k \in 0 .. n - 1 : k \in P => k + 1 \in P
  PROVE  \A k \in 0 .. n : k \in P
<1> DEFINE T == {k \in 0 .. n : k \notin P}
<1>1. SUFFICES ASSUME T # {} PROVE FALSE
  BY <1>1
<1>2. PICK k \in T : \A j \in T : k <= j
  <2>1. T \subseteq Nat
    OBVIOUS
  <2> HIDE DEF T
  <2> QED BY <1>1, <2>1, SmallestNumber
<1>3. k # 0 /\ k - 1 \in 0 .. n - 1 /\ k - 1 \notin T
  BY <1>2
<1>4. k - 1 \in P
  BY <1>3
<1>5. (k - 1) + 1 \in P
  BY <1>3, <1>4
<1> QED BY <1>5, <1>2

-----------------------------------------------------------------------------
(* The element a fold over a set takes first, and what it leaves.          *)
Pick(s) == CHOOSE x \in s : TRUE
Rest(s) == s \ {Pick(s)}

(* Induction over a finite set in the order a fold takes its elements.     *)
Inductive(D, P) ==
  /\ IsFiniteSet(D) /\ {} \in P
  /\ \A s \in SUBSET D : s # {} /\ Rest(s) \in P => s \in P

(* Every subset of a finite set is reached from the empty one.             *)
LEMMA AllSubsets ==
  ASSUME NEW D, NEW P, Inductive(D, P)
  PROVE  SUBSET D \subseteq P
<1> DEFINE n == Cardinality(D)
           T == {m \in 0 .. n : \A s \in SUBSET D : Cardinality(s) <= m =>
                                                     s \in P}
<1>f. IsFiniteSet(D)
  BY DEF Inductive
<1>n. n \in Nat
  BY <1>f, FS_CardinalityType
<1>s. ASSUME NEW s \in SUBSET D
      PROVE  /\ Cardinality(s) \in 0 .. n
             /\ Cardinality(s) = 0 => s = {}
             /\ s # {} => Cardinality(Rest(s)) = Cardinality(s) - 1
  <2>1. IsFiniteSet(s) /\ Cardinality(s) <= n
    BY <1>f, FS_Subset
  <2>2. Cardinality(s) \in Nat
    BY <2>1, FS_CardinalityType
  <2>3. Cardinality(s) = 0 => s = {}
    BY <2>1, FS_EmptySet
  <2>4. ASSUME s # {} PROVE Cardinality(Rest(s)) = Cardinality(s) - 1
    <3>1. Pick(s) \in s
      BY <2>4 DEF Pick
    <3>2. Cardinality(s \ {Pick(s)}) = Cardinality(s) - 1
      BY <3>1, <2>1, FS_RemoveElement
    <3> QED BY <3>2 DEF Rest
  <2> QED BY <2>1, <2>2, <2>3, <2>4, <1>n
<1>1. 0 \in T
  <2>1. ASSUME NEW s \in SUBSET D, Cardinality(s) <= 0 PROVE s \in P
    <3>1. Cardinality(s) \in 0 .. n /\ (Cardinality(s) = 0 => s = {})
      BY <1>s
    <3>2. s = {}
      BY <3>1, <1>n, <2>1
    <3> QED BY <3>2 DEF Inductive
  <2> QED BY <2>1, <1>n
<1>2. ASSUME NEW m \in 0 .. n - 1, m \in T PROVE m + 1 \in T
  <2>1. ASSUME NEW s \in SUBSET D, Cardinality(s) <= m + 1 PROVE s \in P
    <3>1. CASE s = {}
      BY <3>1 DEF Inductive
    <3>2. CASE s # {}
      <4>1. /\ Cardinality(s) \in 0 .. n
            /\ Cardinality(Rest(s)) = Cardinality(s) - 1
        BY <3>2, <1>s
      <4>2. Cardinality(Rest(s)) <= m
        BY <4>1, <2>1, <1>n
      <4>3. Rest(s) \in SUBSET D
        BY DEF Rest
      <4>4. Rest(s) \in P
        <5> HIDE DEF n
        <5> QED BY <4>2, <4>3, <1>2
      <4> QED BY <4>4, <3>2 DEF Inductive
    <3> QED BY <3>1, <3>2
  <2> QED BY <2>1, <1>n
<1>3. n \in T
  <2>1. \A k \in 0 .. n - 1 : k \in T => k + 1 \in T
    BY <1>2
  <2> HIDE DEF T, n
  <2>2. \A k \in 0 .. n : k \in T
    BY <1>1, <1>n, <2>1, AllNumbers
  <2> QED BY <2>2, <1>n
<1>4. ASSUME NEW s \in SUBSET D PROVE s \in P
  <2>1. Cardinality(s) \in 0 .. n
    BY <1>s
  <2> HIDE DEF n
  <2>2. Cardinality(s) <= n
    BY <2>1, <1>n
  <2> QED BY <2>2, <1>3
<1> QED BY <1>4

-----------------------------------------------------------------------------
(* A fold over D of a step that keeps its accumulator in V, and the        *)
(* accumulators it goes through.                                           *)
Foldable(D, V, base, g) ==
  IsFiniteSet(D) /\ base \in V /\ g \in [D -> [V -> V]]
Folded(h, D, V, base, g) ==
  /\ h \in [SUBSET D -> V] /\ h[{}] = base
  /\ \A s \in SUBSET D : s # {} => h[s] = g[Pick(s)][h[Rest(s)]]

(* The function that a fold's definition describes exists.                 *)
LEMMA FoldExists ==
  ASSUME NEW D, NEW V, NEW base, NEW g, Foldable(D, V, base, g)
  PROVE  \E h : Folded(h, D, V, base, g)
<1> DEFINE n == Cardinality(D)
           Step(h, s) == IF s = {} THEN base ELSE g[Pick(s)][h[Rest(s)]]
           P == {m \in 0 .. n : \E h \in [SUBSET D -> V] :
                   \A s \in SUBSET D : Cardinality(s) <= m => h[s] = Step(h, s)}
<1>f. IsFiniteSet(D) /\ base \in V /\ g \in [D -> [V -> V]]
  BY DEF Foldable
<1>n. n \in Nat
  BY <1>f, FS_CardinalityType
<1>p. ASSUME NEW s \in SUBSET D, s # {}
      PROVE  Pick(s) \in D /\ Pick(s) \in s /\ Rest(s) \in SUBSET D
  BY <1>p DEF Pick, Rest
<1>s. ASSUME NEW s \in SUBSET D
      PROVE  /\ Cardinality(s) \in 0 .. n
             /\ Cardinality(s) = 0 => s = {}
             /\ s # {} => Cardinality(Rest(s)) = Cardinality(s) - 1
  <2>1. IsFiniteSet(s) /\ Cardinality(s) <= n
    BY <1>f, FS_Subset
  <2>2. Cardinality(s) \in Nat
    BY <2>1, FS_CardinalityType
  <2>3. Cardinality(s) = 0 => s = {}
    BY <2>1, FS_EmptySet
  <2>4. ASSUME s # {} PROVE Cardinality(Rest(s)) = Cardinality(s) - 1
    <3>1. Pick(s) \in s
      BY <2>4 DEF Pick
    <3>2. Cardinality(s \ {Pick(s)}) = Cardinality(s) - 1
      BY <3>1, <2>1, FS_RemoveElement
    <3> QED BY <3>2 DEF Rest
  <2> QED BY <2>1, <2>2, <2>3, <2>4, <1>n
<1>t. ASSUME NEW h \in [SUBSET D -> V], NEW s \in SUBSET D
      PROVE  Step(h, s) \in V
  <2>1. CASE s # {}
    <3>1. Pick(s) \in D /\ Rest(s) \in SUBSET D
      BY <2>1, <1>p
    <3>2. h[Rest(s)] \in V /\ g[Pick(s)] \in [V -> V]
      BY <3>1, <1>f
    <3> QED BY <3>2, <2>1
  <2> QED BY <2>1, <1>f
<1>1. 0 \in P
  <2> DEFINE h == [s \in SUBSET D |-> base]
  <2>1. h \in [SUBSET D -> V] /\ h[{}] = base
    BY <1>f
  <2>2. ASSUME NEW s \in SUBSET D, Cardinality(s) <= 0 PROVE h[s] = Step(h, s)
    <3>1. Cardinality(s) \in 0 .. n /\ (Cardinality(s) = 0 => s = {})
      BY <1>s
    <3>2. s = {}
      BY <3>1, <1>n, <2>2
    <3> QED BY <3>2
  <2> HIDE DEF h, Step
  <2> QED BY <2>1, <2>2, <1>n
<1>2. ASSUME NEW m \in 0 .. n - 1, m \in P PROVE m + 1 \in P
  <2>1. PICK h \in [SUBSET D -> V] :
          \A s \in SUBSET D : Cardinality(s) <= m => h[s] = Step(h, s)
    BY <1>2
  <2> DEFINE e == [s \in SUBSET D |-> Step(h, s)]
  <2>2. e \in [SUBSET D -> V]
    BY <1>t
  <2>3. ASSUME NEW s \in SUBSET D, Cardinality(s) <= m + 1
        PROVE  e[s] = Step(e, s)
    <3>1. CASE s = {}
      BY <3>1
    <3>2. CASE s # {}
      <4> DEFINE r == Rest(s)
      <4>1. r \in SUBSET D /\ Cardinality(r) <= m
        <5>1. Cardinality(s) \in 0 .. n /\ Cardinality(r) = Cardinality(s) - 1
          BY <3>2, <1>s
        <5>2. r \in SUBSET D
          BY <3>2, <1>p
        <5> QED BY <5>1, <5>2, <2>3, <1>n
      <4>2. e[r] = h[r]
        <5> HIDE DEF Step, r
        <5>1. h[r] = Step(h, r)
          BY <4>1, <2>1
        <5> QED BY <5>1, <4>1
      <4>3. e[s] = Step(h, s)
        OBVIOUS
      <4> QED BY <4>2, <4>3, <3>2
    <3> QED BY <3>1, <3>2
  <2> HIDE DEF e, Step
  <2> QED BY <2>2, <2>3, <1>n
<1>3. n \in P
  <2>1. \A k \in 0 .. n - 1 : k \in P => k + 1 \in P
    BY <1>2
  <2> HIDE DEF P, n
  <2>2. \A k \in 0 .. n : k \in P
    BY <1>1, <1>n, <2>1, AllNumbers
  <2> QED BY <2>2, <1>n
<1>4. PICK h \in [SUBSET D -> V] :
        \A s \in SUBSET D : Cardinality(s) <= n => h[s] = Step(h, s)
  BY <1>3
<1>5. ASSUME NEW s \in SUBSET D PROVE h[s] = Step(h, s)
  <2>0. Cardinality(s) \in 0 .. n
    BY <1>s
  <2> HIDE DEF Step, n
  <2>1. Cardinality(s) <= n
    BY <2>0, <1>n
  <2> QED BY <2>1, <1>4
<1>6. Folded(h, D, V, base, g)
  BY <1>5 DEF Folded
<1> QED BY <1>6

-----------------------------------------------------------------------------
(* A recursive function over the numbers up to n.                          *)
Stepping(n, S, base, g) ==
  n \in Nat /\ base \in S /\ g \in [1 .. n -> [S -> S]]
Stepped(h, n, S, base, g) ==
  /\ h \in [0 .. n -> S] /\ h[0] = base
  /\ \A k \in 1 .. n : h[k] = g[k][h[k - 1]]

(* A function that goes up a number at a time exists.                      *)
LEMMA RecursionExists ==
  ASSUME NEW n, NEW S, NEW base, NEW g, Stepping(n, S, base, g)
  PROVE  \E h : Stepped(h, n, S, base, g)
<1> DEFINE P == {m \in 0 .. n : \E h \in [0 .. n -> S] :
                   h[0] = base /\ \A k \in 1 .. m : h[k] = g[k][h[k - 1]]}
<1>n. n \in Nat /\ base \in S /\ g \in [1 .. n -> [S -> S]]
  BY DEF Stepping
<1>1. 0 \in P
  <2> DEFINE h == [k \in 0 .. n |-> base]
  <2>1. h \in [0 .. n -> S] /\ h[0] = base
    BY <1>n
  <2> HIDE DEF h
  <2> QED BY <2>1, <1>n
<1>2. ASSUME NEW m \in 0 .. n - 1, m \in P PROVE m + 1 \in P
  <2>1. PICK h \in [0 .. n -> S] :
          h[0] = base /\ \A k \in 1 .. m : h[k] = g[k][h[k - 1]]
    BY <1>2
  <2> DEFINE e == [h EXCEPT ![m + 1] = g[m + 1][h[m]]]
  <2>2. e \in [0 .. n -> S]
    <3>1. m \in 0 .. n /\ m + 1 \in 1 .. n
      BY <1>n
    <3>2. h[m] \in S /\ g[m + 1] \in [S -> S]
      BY <3>1, <1>n
    <3> QED BY <3>2, <3>1
  <2>3. e[0] = base
    BY <2>1, <1>n
  <2>4. ASSUME NEW k \in 1 .. m + 1 PROVE e[k] = g[k][e[k - 1]]
    <3>1. e[k - 1] = h[k - 1]
      BY <1>n
    <3>2. CASE k = m + 1
      BY <3>1, <3>2, <1>n
    <3>3. CASE k # m + 1
      BY <3>1, <3>3, <2>1, <1>n
    <3> QED BY <3>2, <3>3
  <2> HIDE DEF e
  <2> QED BY <2>2, <2>3, <2>4, <1>n
<1>3. n \in P
  <2>1. \A k \in 0 .. n - 1 : k \in P => k + 1 \in P
    BY <1>2
  <2> HIDE DEF P
  <2>2. \A k \in 0 .. n : k \in P
    BY <1>1, <1>n, <2>1, AllNumbers
  <2> QED BY <2>2, <1>n
<1>4. PICK h \in [0 .. n -> S] :
        h[0] = base /\ \A k \in 1 .. n : h[k] = g[k][h[k - 1]]
  BY <1>3
<1> QED BY <1>4 DEF Stepped

-----------------------------------------------------------------------------
(* The sequence made of a finite set lists each of its elements once.      *)
Lists(s, S) ==
  /\ s \in Seq(S)
  /\ \A x \in S : \E i \in 1 .. Len(s) : s[i] = x
  /\ \A i, j \in 1 .. Len(s) : s[i] = s[j] => i = j

(* SetToSeq lists each element of a finite set once.                       *)
LEMMA SetToSeqLists ==
  ASSUME NEW S, IsFiniteSet(S)
  PROVE  Lists(SetToSeq(S), S)
<1> DEFINE n == Cardinality(S)
           f == SetToSeq(S)
<1>1. n \in Nat /\ ExistsBijection(1 .. n, S)
  BY FS_CardinalityType
<1>2. \E g \in [1 .. n -> S] : IsInjective(g)
  <2>1. PICK g \in Bijection(1 .. n, S) : TRUE
    BY <1>1 DEF ExistsBijection
  <2>2. g \in [1 .. n -> S] /\ IsInjective(g)
    BY <2>1 DEF Bijection, Injection
  <2> QED BY <2>2
<1>3. f \in [1 .. n -> S] /\ IsInjective(f)
  BY <1>2 DEF SetToSeq
<1> HIDE DEF f
<1>4. f \in Injection(1 .. n, S)
  BY <1>3 DEF Injection
<1>5. f \in Surjection(1 .. n, S)
  <2>1. Cardinality(1 .. n) = n
    <3>1. 1 \in Int /\ n \in Int
      BY <1>1
    <3>2. Cardinality(1 .. n) = IF 1 > n THEN 0 ELSE n - 1 + 1
      BY <3>1, FS_Interval
    <3> HIDE DEF n
    <3> QED BY <3>2, <1>1
  <2> QED BY <2>1, <1>4, FS_Injection
<1>6. \A x \in S : \E i \in 1 .. n : f[i] = x
  BY <1>5 DEF Surjection
<1>7. f \in Seq(S) /\ Len(f) = n
  <2> HIDE DEF n
  <2>1. f \in Seq(S)
    BY <1>1, <1>3, SeqDef
  <2>2. DOMAIN f = 1 .. Len(f) /\ Len(f) \in Nat
    BY <2>1, LenProperties
  <2>3. 1 .. Len(f) = 1 .. n
    BY <2>2, <1>3
  <2> DEFINE m == Len(f)
  <2>4. m \in Nat /\ 1 .. m = 1 .. n
    BY <2>2, <2>3
  <2> HIDE DEF m
  <2>5. m = n
    <3>m. m \in Nat /\ n \in Nat /\ 1 .. m = 1 .. n
      BY <2>4, <1>1
    <3>1. m > 0 => m \in 1 .. n
      <4>1. m > 0 => m \in 1 .. m
        BY <3>m
      <4> QED BY <4>1, <3>m
    <3>2. n > 0 => n \in 1 .. m
      <4>1. n > 0 => n \in 1 .. n
        BY <3>m
      <4> QED BY <4>1, <3>m
    <3> QED BY <3>1, <3>2, <2>4, <1>1
  <2> QED BY <2>1, <2>5 DEF m
<1>8. \A i, j \in 1 .. Len(f) : f[i] = f[j] => i = j
  <2> HIDE DEF n
  <2> QED BY <1>3, <1>7 DEF IsInjective
<1> HIDE DEF n
<1> QED BY <1>6, <1>7, <1>8 DEF Lists, f

(* What a sequence holds and whether it repeats, for one longer or shorter.*)
LEMMA OfAppend ==
  ASSUME NEW D, NEW s \in Seq(D), NEW u \in D, IsInjective(s), u \notin ToSet(s)
  PROVE  /\ Append(s, u) \in Seq(D) /\ Len(Append(s, u)) = Len(s) + 1
         /\ \A i \in 1 .. Len(s) : Append(s, u)[i] = s[i]
         /\ Append(s, u)[Len(s) + 1] = u
         /\ ToSet(Append(s, u)) = ToSet(s) \cup {u} /\ IsInjective(Append(s, u))
<1> DEFINE a == Append(s, u)
           n == Len(s)
<1>1. /\ n \in Nat /\ a \in Seq(D) /\ Len(a) = n + 1
      /\ \A i \in 1 .. n : a[i] = s[i]
      /\ a[n + 1] = u
  BY AppendProperties, LenProperties
<1>2. ToSet(a) = ToSet(s) \cup {u}
  <2> HIDE DEF a, n
  <2>1. ASSUME NEW i \in 1 .. n + 1 PROVE a[i] \in ToSet(s) \cup {u}
    BY <1>1 DEF ToSet, n
  <2>2. ASSUME NEW i \in 1 .. n PROVE s[i] \in ToSet(a)
    <3>1. i \in 1 .. n + 1 /\ a[i] = s[i]
      BY <1>1
    <3> QED BY <3>1, <1>1 DEF ToSet
  <2>3. u \in ToSet(a)
    <3>1. n + 1 \in 1 .. n + 1
      BY <1>1
    <3> QED BY <3>1, <1>1 DEF ToSet
  <2> QED BY <2>1, <2>2, <2>3, <1>1 DEF ToSet, n
<1>3. IsInjective(a)
  <2> HIDE DEF a
  <2>1. ASSUME NEW i \in 1 .. n + 1, NEW j \in 1 .. n + 1, a[i] = a[j]
        PROVE  i = j
    <3>1. ASSUME NEW k \in 1 .. n PROVE s[k] # u
      BY DEF ToSet
    <3>2. CASE i \in 1 .. n /\ j \in 1 .. n
      <4>1. s[i] = s[j]
        BY <2>1, <3>2, <1>1
      <4> QED BY <4>1, <3>2 DEF IsInjective
    <3>3. CASE i = n + 1 /\ j \in 1 .. n
      <4> HIDE DEF n
      <4> QED BY <3>1, <3>3, <1>1, <2>1
    <3>4. CASE i \in 1 .. n /\ j = n + 1
      <4> HIDE DEF n
      <4> QED BY <3>1, <3>4, <1>1, <2>1
    <3> HIDE DEF n
    <3> QED BY <3>2, <3>3, <3>4, <1>1
  <2> QED BY <2>1, <1>1 DEF IsInjective
<1> QED BY <1>1, <1>2, <1>3

(* The tail of such a sequence lacks its head and nothing else.            *)
LEMMA OfTail ==
  ASSUME NEW D, NEW s \in Seq(D), IsInjective(s), s # <<>>
  PROVE  /\ Head(s) \in D /\ Head(s) \in ToSet(s)
         /\ Tail(s) \in Seq(D)
         /\ ToSet(Tail(s)) = ToSet(s) \ {Head(s)} /\ IsInjective(Tail(s))
<1> DEFINE a == Tail(s)
           n == Len(s)
<1>1. /\ n \in Nat /\ n # 0 /\ a \in Seq(D) /\ Len(a) = n - 1
      /\ \A i \in 1 .. n - 1 : a[i] = s[i + 1]
      /\ Head(s) \in D /\ Head(s) = s[1]
  <2>1. /\ Head(s) \in D /\ a \in Seq(D) /\ Len(a) = n - 1
        /\ \A i \in 1 .. Len(a) : a[i] = s[i + 1]
    BY HeadTailProperties
  <2>2. n \in Nat /\ n # 0
    BY LenProperties, EmptySeq
  <2> QED BY <2>1, <2>2
<1> HIDE DEF a, n
<1>2. 1 \in 1 .. n
  BY <1>1
<1>3. Head(s) \in ToSet(s)
  BY <1>1, <1>2 DEF ToSet, n
<1>d. \A i, j \in 1 .. n : s[i] = s[j] => i = j
  BY DEF IsInjective, n
<1>4. ASSUME NEW i \in 1 .. n - 1 PROVE a[i] \in ToSet(s) \ {Head(s)}
  <2>1. i + 1 \in 1 .. n /\ i + 1 # 1
    BY <1>1
  <2>2. a[i] = s[i + 1]
    BY <1>1
  <2>3. s[i + 1] # s[1]
    BY <2>1, <1>2, <1>d
  <2> QED BY <2>1, <2>2, <2>3, <1>1 DEF ToSet, n
<1>5. ASSUME NEW i \in 1 .. n, s[i] # Head(s) PROVE s[i] \in ToSet(a)
  <2>1. i - 1 \in 1 .. n - 1 /\ (i - 1) + 1 = i
    BY <1>1, <1>5
  <2>2. a[i - 1] = s[i]
    BY <1>1, <2>1
  <2> QED BY <2>1, <2>2, <1>1 DEF ToSet
<1>6. ToSet(a) = ToSet(s) \ {Head(s)}
  BY <1>4, <1>5, <1>1 DEF ToSet, n
<1>7. IsInjective(a)
  <2>1. ASSUME NEW i \in 1 .. n - 1, NEW j \in 1 .. n - 1, a[i] = a[j]
        PROVE  i = j
    <3>1. i + 1 \in 1 .. n /\ j + 1 \in 1 .. n
      BY <1>1
    <3>2. s[i + 1] = s[j + 1]
      BY <2>1, <1>1
    <3>3. i + 1 = j + 1
      BY <3>1, <3>2, <1>d
    <3> QED BY <3>3
  <2> QED BY <2>1, <1>1 DEF IsInjective
<1> QED BY <1>1, <1>3, <1>6, <1>7 DEF a

(* Two that share nothing hold, concatenated, what both hold.              *)
LEMMA OfConcat ==
  ASSUME NEW D, NEW s \in Seq(D), NEW r \in Seq(D),
         IsInjective(s), IsInjective(r),
         ToSet(s) \cap ToSet(r) = {}
  PROVE  /\ s \o r \in Seq(D) /\ ToSet(s \o r) = ToSet(s) \cup ToSet(r)
         /\ IsInjective(s \o r)
<1> DEFINE a == s \o r
           n == Len(s)
           m == Len(r)
<1>1. /\ n \in Nat /\ m \in Nat /\ a \in Seq(D) /\ Len(a) = n + m
      /\ \A i \in 1 .. n : a[i] = s[i]
      /\ \A i \in 1 .. m : a[n + i] = r[i]
  <2>1. n \in Nat /\ m \in Nat
    BY LenProperties
  <2>2. /\ a \in Seq(D) /\ Len(a) = n + m
        /\ \A i \in 1 .. n + m : a[i] = IF i <= n THEN s[i] ELSE r[i - n]
    BY ConcatProperties
  <2> HIDE DEF a, n, m
  <2>3. ASSUME NEW i \in 1 .. n PROVE a[i] = s[i]
    <3>1. i \in 1 .. n + m /\ i <= n
      BY <2>1
    <3> QED BY <3>1, <2>2
  <2>4. ASSUME NEW i \in 1 .. m PROVE a[n + i] = r[i]
    <3>1. n + i \in 1 .. n + m /\ ~ (n + i <= n) /\ (n + i) - n = i
      BY <2>1
    <3>2. a[n + i] = r[(n + i) - n]
      BY <3>1, <2>2
    <3> QED BY <3>1, <3>2
  <2> QED BY <2>1, <2>2, <2>3, <2>4
<1> HIDE DEF a, n, m
<1>2. ASSUME NEW i \in 1 .. n + m
      PROVE  \/ i \in 1 .. n
             \/ \E k \in 1 .. m : i = n + k
  <2>1. i \in 1 .. n \/ (i - n \in 1 .. m /\ i = n + (i - n))
    BY <1>1
  <2> QED BY <2>1
<1>s. ToSet(s) = {s[i] : i \in 1 .. n} /\ ToSet(r) = {r[i] : i \in 1 .. m}
      /\ ToSet(a) = {a[i] : i \in 1 .. n + m}
  <2>1. /\ DOMAIN s = 1 .. n /\ DOMAIN r = 1 .. m
        /\ DOMAIN a = 1 .. n + m
    BY <1>1, LenProperties DEF n, m
  <2> QED BY <2>1 DEF ToSet
<1>3. ASSUME NEW i \in 1 .. n + m PROVE a[i] \in ToSet(s) \cup ToSet(r)
  BY <1>1, <1>2, <1>s
<1>4. ASSUME NEW i \in 1 .. n PROVE s[i] \in ToSet(a)
  <2>1. i \in 1 .. n + m /\ a[i] = s[i]
    BY <1>1
  <2> QED BY <2>1, <1>s
<1>5. ASSUME NEW i \in 1 .. m PROVE r[i] \in ToSet(a)
  <2>1. n + i \in 1 .. n + m /\ a[n + i] = r[i]
    BY <1>1
  <2> QED BY <2>1, <1>s
<1>6. ToSet(a) = ToSet(s) \cup ToSet(r)
  BY <1>3, <1>4, <1>5, <1>s
<1>d. /\ \A i, j \in 1 .. n : s[i] = s[j] => i = j
      /\ \A i, j \in 1 .. m : r[i] = r[j] => i = j
      /\ \A i \in 1 .. n, j \in 1 .. m : s[i] # r[j]
  <2>1. DOMAIN s = 1 .. n /\ DOMAIN r = 1 .. m
    BY LenProperties DEF n, m
  <2>2. \A i \in 1 .. n, j \in 1 .. m : s[i] # r[j]
    BY <1>s
  <2> QED BY <2>1, <2>2 DEF IsInjective
<1>7. ASSUME NEW i \in 1 .. n + m, NEW j \in 1 .. n + m, a[i] = a[j]
      PROVE  i = j
  <2>1. CASE i \in 1 .. n /\ j \in 1 .. n
    BY <2>1, <1>1, <1>d, <1>7
  <2>2. CASE i \in 1 .. n /\ j \notin 1 .. n
    <3>1. PICK k \in 1 .. m : j = n + k
      BY <2>2, <1>2
    <3>2. s[i] = r[k]
      BY <3>1, <2>2, <1>1, <1>7
    <3> QED BY <3>2, <2>2, <1>d
  <2>3. CASE i \notin 1 .. n /\ j \in 1 .. n
    <3>1. PICK k \in 1 .. m : i = n + k
      BY <2>3, <1>2
    <3>2. s[j] = r[k]
      BY <3>1, <2>3, <1>1, <1>7
    <3> QED BY <3>2, <2>3, <1>d
  <2>4. CASE i \notin 1 .. n /\ j \notin 1 .. n
    <3>1. PICK k \in 1 .. m : i = n + k
      BY <2>4, <1>2
    <3>2. PICK l \in 1 .. m : j = n + l
      BY <2>4, <1>2
    <3>3. r[k] = r[l]
      BY <3>1, <3>2, <1>1, <1>7
    <3> QED BY <3>1, <3>2, <3>3, <1>d
  <2> QED BY <2>1, <2>2, <2>3, <2>4
<1> QED BY <1>1, <1>6, <1>7 DEF IsInjective, a

(* A sequence that lists a set is one without repetitions.                 *)
LEMMA OfLists ==
  ASSUME NEW D, NEW S, S \subseteq D, IsFiniteSet(S)
  PROVE  /\ SetToSeq(S) \in Seq(D) /\ ToSet(SetToSeq(S)) = S
         /\ IsInjective(SetToSeq(S))
<1> DEFINE f == SetToSeq(S)
<1>1. Lists(f, S)
  BY SetToSeqLists
<1> HIDE DEF f
<1>2. f \in Seq(S) /\ IsInjective(f) /\ \A x \in S : x \in ToSet(f)
  <2>1. f \in Seq(S)
    BY <1>1 DEF Lists
  <2>2. DOMAIN f = 1 .. Len(f)
    BY <2>1
  <2>3. IsInjective(f)
    BY <1>1, <2>2 DEF Lists, IsInjective
  <2>4. \A x \in S : x \in ToSet(f)
    BY <1>1, <2>2 DEF Lists, ToSet
  <2> QED BY <2>1, <2>3, <2>4
<1>3. \A i \in 1 .. Len(f) : f[i] \in S
  BY <1>2, ElementOfSeq
<1>4. ToSet(f) = S
  BY <1>2, <1>3 DEF ToSet
<1>5. f \in Seq(D)
  BY <1>2
<1> QED BY <1>2, <1>4, <1>5 DEF f

(* Without repetitions, it is as long as the set it holds.                 *)
LEMMA DistinctLength ==
  ASSUME NEW D, IsFiniteSet(D), NEW s \in Seq(D), IsInjective(s)
  PROVE  ToSet(s) \subseteq D /\ Len(s) = Cardinality(ToSet(s))
<1> DEFINE n == Len(s)
           T == ToSet(s)
<1>1. n \in Nat /\ s \in [1 .. n -> D]
  BY LenProperties
<1>2. T \subseteq D /\ T = {s[i] : i \in 1 .. n}
  BY <1>1 DEF ToSet
<1>3. IsFiniteSet(T)
  <2> HIDE DEF T
  <2> QED BY <1>2, FS_Subset
<1>4. \A i, j \in 1 .. n : s[i] = s[j] => i = j
  BY DEF IsInjective
<1> HIDE DEF n, T
<1>5. s \in Injection(1 .. n, T) /\ s \in Surjection(1 .. n, T)
  <2>1. s \in [1 .. n -> T]
    BY <1>1, <1>2
  <2> QED BY <2>1, <1>2, <1>4 DEF Injection, Surjection, IsInjective
<1>6. Cardinality(1 .. n) = Cardinality(T)
  BY <1>3, <1>5, FS_Injection
<1>7. Cardinality(1 .. n) = n
  <2>1. 1 \in Int /\ n \in Int
    BY <1>1
  <2>2. Cardinality(1 .. n) = IF 1 > n THEN 0 ELSE n - 1 + 1
    BY <2>1, FS_Interval
  <2> QED BY <2>2, <1>1
<1> QED BY <1>2, <1>6, <1>7 DEF n, T

-----------------------------------------------------------------------------
(* The sums of a function over the sets below D.                           *)
Sums(h, D, f) ==
  /\ h \in [SUBSET D -> Int] /\ h[{}] = 0
  /\ \A s \in SUBSET D : s # {} => h[s] = f[Pick(s)] + h[Rest(s)]

(* A sum over a set of indices, taken in a fold's order.                   *)
LEMMA SumsFold ==
  ASSUME NEW D, IsFiniteSet(D), NEW f \in [D -> Int]
  PROVE  \E h : /\ Sums(h, D, f)
                /\ \A s \in SUBSET D : SumFunctionOnSet(f, s) = h[s]
<1> DEFINE g == [x \in D |-> [v \in Int |-> f[x] + v]]
<1>1. PICK h : Folded(h, D, Int, 0, g)
  <2>1. g \in [D -> [Int -> Int]]
    OBVIOUS
  <2>2. Foldable(D, Int, 0, g)
    <3> HIDE DEF g
    <3> QED BY <2>1 DEF Foldable
  <2> HIDE DEF g
  <2> QED BY <2>2, FoldExists
<1>2. h \in [SUBSET D -> Int] /\ h[{}] = 0
  BY <1>1 DEF Folded
<1>p. ASSUME NEW s \in SUBSET D, s # {}
      PROVE  Pick(s) \in D /\ Rest(s) \in SUBSET D
  BY <1>p DEF Pick, Rest
<1>3. ASSUME NEW s \in SUBSET D, s # {}
      PROVE  h[s] = f[Pick(s)] + h[Rest(s)]
  <2>1. h[s] = g[Pick(s)][h[Rest(s)]]
    <3> HIDE DEF g
    <3> QED BY <1>1, <1>3 DEF Folded
  <2>2. Pick(s) \in D /\ h[Rest(s)] \in Int
    BY <1>p, <1>3, <1>2
  <2> QED BY <2>1, <2>2
<1>4. ASSUME NEW S \in SUBSET D PROVE SumFunctionOnSet(f, S) = h[S]
  <2> DEFINE k == [s \in SUBSET S |-> h[s]]
  <2>1. k = [s \in SUBSET S |->
               IF s = {} THEN 0
               ELSE LET x == CHOOSE x \in s : TRUE IN f[x] + k[s \ {x}]]
    <3>1. ASSUME NEW s \in SUBSET S
          PROVE  h[s] = IF s = {} THEN 0
                  ELSE LET x == CHOOSE x \in s : TRUE IN f[x] + k[s \ {x}]
      BY <1>2, <1>3 DEF Pick, Rest
    <3> QED BY <3>1
  <2> HIDE DEF k
  <2>2. PICK e :
          /\ e = [s \in SUBSET S |->
                    IF s = {} THEN 0
                    ELSE LET x == CHOOSE x \in s : TRUE IN f[x] + e[s \ {x}]]
          /\ SumFunctionOnSet(f, S) = e[S]
    BY ZenonT(60), <2>1
       DEF SumFunctionOnSet, FoldFunctionOnSet, MapThenFoldSet
  <2> DEFINE P == {s \in SUBSET S : e[s] = h[s]}
  <2>3. {} \in P
    BY <2>2, <1>2
  <2>4. ASSUME NEW s \in SUBSET S, s # {}, Rest(s) \in P PROVE s \in P
    <3>1. e[s] = f[Pick(s)] + e[Rest(s)]
      BY <2>2, <2>4 DEF Pick, Rest
    <3>2. e[Rest(s)] = h[Rest(s)]
      BY <2>4
    <3> QED BY <3>1, <3>2, <1>3, <2>4
  <2>5. IsFiniteSet(S)
    BY FS_Subset
  <2>6. Inductive(S, P)
    <3> HIDE DEF P
    <3> QED BY <2>3, <2>4, <2>5 DEF Inductive
  <2> HIDE DEF P
  <2>7. SUBSET S \subseteq P
    BY <2>6, AllSubsets
  <2> QED BY <2>7, <2>2 DEF P
<1> QED BY <1>2, <1>3, <1>4 DEF Sums

(* A sum does not depend on the order in which it takes the elements.      *)
LEMMA SumTakes ==
  ASSUME NEW D, IsFiniteSet(D), NEW f \in [D -> Int], NEW h, Sums(h, D, f),
         NEW S \in SUBSET D, NEW x \in S
  PROVE  h[S] = f[x] + h[S \ {x}]
<1> DEFINE n == Cardinality(D)
           T == {m \in 0 .. n : \A s \in SUBSET D : Cardinality(s) <= m =>
                                \A y \in s : h[s] = f[y] + h[s \ {y}]}
<1>h. /\ h \in [SUBSET D -> Int] /\ h[{}] = 0
      /\ \A s \in SUBSET D : s # {} => h[s] = f[Pick(s)] + h[Rest(s)]
  BY DEF Sums
<1>n. n \in Nat
  BY FS_CardinalityType
<1>s. ASSUME NEW s \in SUBSET D
      PROVE  /\ IsFiniteSet(s) /\ Cardinality(s) \in 0 .. n
             /\ \A y \in s : Cardinality(s \ {y}) = Cardinality(s) - 1
             /\ Cardinality(s) = 0 => s = {}
  <2>1. IsFiniteSet(s) /\ Cardinality(s) <= n
    BY FS_Subset
  <2>2. Cardinality(s) \in Nat
    BY <2>1, FS_CardinalityType
  <2>3. ASSUME NEW y \in s PROVE Cardinality(s \ {y}) = Cardinality(s) - 1
    BY <2>1, FS_RemoveElement
  <2>4. Cardinality(s) = 0 => s = {}
    BY <2>1, FS_EmptySet
  <2> QED BY <2>1, <2>2, <2>3, <2>4, <1>n
<1> HIDE DEF n
<1>1. 0 \in T
  <2>1. ASSUME NEW s \in SUBSET D, Cardinality(s) <= 0 PROVE s = {}
    BY <2>1, <1>s, <1>n
  <2> QED BY <2>1, <1>n
<1>2. ASSUME NEW m \in 0 .. n - 1, m \in T PROVE m + 1 \in T
  <2>1. ASSUME NEW s \in SUBSET D, Cardinality(s) <= m + 1, NEW y \in s
        PROVE  h[s] = f[y] + h[s \ {y}]
    <3> DEFINE p == Pick(s)
    <3>1. p \in s /\ h[s] = f[p] + h[s \ {p}]
      BY <2>1, <1>h DEF Pick, Rest
    <3> HIDE DEF p
    <3>2. CASE y = p
      BY <3>1, <3>2
    <3>3. CASE y # p
      <4> DEFINE a == s \ {p}
                 b == s \ {y}
                 r == s \ {p, y}
      <4>1. a \in SUBSET D /\ b \in SUBSET D /\ y \in a /\ p \in b
        BY <3>1, <3>3
      <4>2. Cardinality(a) <= m /\ Cardinality(b) <= m
        <5>1. /\ Cardinality(a) = Cardinality(s) - 1
              /\ Cardinality(b) = Cardinality(s) - 1
              /\ Cardinality(s) \in Nat
          BY <3>1, <1>s
        <5> HIDE DEF a, b
        <5> QED BY <5>1, <2>1, <1>n
      <4>3. a \ {y} = r /\ b \ {p} = r
        OBVIOUS
      <4>4. h[a] = f[y] + h[a \ {y}] /\ h[b] = f[p] + h[b \ {p}]
        <5> HIDE DEF a, b
        <5> QED BY <4>1, <4>2, <1>2
      <4>5. h[a] = f[y] + h[r] /\ h[b] = f[p] + h[r]
        BY <4>3, <4>4
      <4>6. f[y] \in Int /\ f[p] \in Int /\ h[r] \in Int
        BY <3>1, <1>h
      <4> HIDE DEF r
      <4> QED BY <3>1, <4>5, <4>6
    <3> QED BY <3>2, <3>3
  <2> QED BY <2>1, <1>n
<1>3. n \in T
  <2>1. \A k \in 0 .. n - 1 : k \in T => k + 1 \in T
    BY <1>2
  <2> HIDE DEF T
  <2>2. \A k \in 0 .. n : k \in T
    BY <1>1, <1>n, <2>1, AllNumbers
  <2> QED BY <2>2, <1>n
<1>4. Cardinality(S) <= n
  BY <1>s, <1>n
<1> QED BY <1>3, <1>4

(* The sum over two sets with nothing in common.                           *)
LEMMA SumSplits ==
  ASSUME NEW D, IsFiniteSet(D), NEW f \in [D -> Int], NEW h, Sums(h, D, f),
         NEW A \in SUBSET D, NEW B \in SUBSET D, A \cap B = {}
  PROVE  h[A \cup B] = h[A] + h[B]
<1> DEFINE P == {a \in SUBSET A : h[a \cup B] = h[a] + h[B]}
<1>h. /\ h \in [SUBSET D -> Int] /\ h[{}] = 0
      /\ \A s \in SUBSET D : s # {} => h[s] = f[Pick(s)] + h[Rest(s)]
  BY DEF Sums
<1>1. {} \in P
  <2>1. {} \cup B = B /\ h[B] \in Int
    BY <1>h
  <2> QED BY <2>1, <1>h
<1>2. ASSUME NEW a \in SUBSET A, a # {}, Rest(a) \in P PROVE a \in P
  <2> DEFINE x == Pick(a)
             r == Rest(a)
             u == a \cup B
  <2>1. x \in a /\ r = a \ {x}
    BY <1>2 DEF Pick, Rest
  <2>2. h[a] = f[x] + h[r]
    BY <1>2, <1>h
  <2>3. h[r \cup B] = h[r] + h[B]
    BY <1>2
  <2> HIDE DEF x, r
  <2>4. u \in SUBSET D /\ x \in u /\ u \ {x} = r \cup B
    BY <2>1
  <2>5. h[u] = f[x] + h[u \ {x}]
    <3> HIDE DEF u
    <3> QED BY <2>4, SumTakes
  <2>6. f[x] \in Int /\ h[r] \in Int /\ h[B] \in Int
    BY <2>1, <1>h
  <2>7. h[u] = f[x] + (h[r] + h[B])
    BY <2>3, <2>4, <2>5
  <2> HIDE DEF u
  <2>8. h[u] = h[a] + h[B]
    BY <2>2, <2>6, <2>7
  <2> QED BY <2>8 DEF u
<1>3. IsFiniteSet(A)
  BY FS_Subset
<1>4. Inductive(A, P)
  <2> HIDE DEF P
  <2> QED BY <1>1, <1>2, <1>3 DEF Inductive
<1> HIDE DEF P
<1>5. SUBSET A \subseteq P
  BY <1>4, AllSubsets
<1> QED BY <1>5 DEF P

(* A sum is a number, that of two sets apart is the sum of their sums, and *)
(* that of one index is the value there.                                   *)
LEMMA IntegerSums ==
  ASSUME NEW D, IsFiniteSet(D), NEW f \in [D -> Int]
  PROVE  /\ SumFunctionOnSet(f, {}) = 0
         /\ \A x \in D : SumFunctionOnSet(f, {x}) = f[x]
         /\ \A A \in SUBSET D : SumFunctionOnSet(f, A) \in Int
         /\ \A A, B \in SUBSET D : A \cap B = {} =>
              SumFunctionOnSet(f, A \cup B) =
                SumFunctionOnSet(f, A) + SumFunctionOnSet(f, B)
<1>1. PICK h : /\ Sums(h, D, f)
               /\ \A s \in SUBSET D : SumFunctionOnSet(f, s) = h[s]
  BY SumsFold
<1>2. h \in [SUBSET D -> Int] /\ h[{}] = 0
  BY <1>1 DEF Sums
<1>3. ASSUME NEW x \in D PROVE h[{x}] = f[x]
  <2> DEFINE a == {x}
             e == a \ {x}
  <2>1. a \in SUBSET D /\ x \in a /\ e = {}
    OBVIOUS
  <2>2. h[a] = f[x] + h[e]
    <3> HIDE DEF a
    <3> QED BY <2>1, <1>1, SumTakes
  <2>3. f[x] \in Int
    OBVIOUS
  <2> HIDE DEF a, e
  <2>4. h[a] = f[x]
    BY <2>1, <2>2, <2>3, <1>2
  <2> QED BY <2>4 DEF a
<1>4. ASSUME NEW A \in SUBSET D, NEW B \in SUBSET D, A \cap B = {}
      PROVE  h[A \cup B] = h[A] + h[B]
  BY <1>1, <1>4, SumSplits
<1>5. ASSUME NEW A \in SUBSET D, NEW B \in SUBSET D, A \cap B = {}
      PROVE  SumFunctionOnSet(f, A \cup B) =
                SumFunctionOnSet(f, A) + SumFunctionOnSet(f, B)
  <2>1. A \cup B \in SUBSET D
    OBVIOUS
  <2>2. h[A \cup B] = h[A] + h[B]
    BY <1>4, <1>5
  <2>3. /\ SumFunctionOnSet(f, A \cup B) = h[A \cup B]
        /\ SumFunctionOnSet(f, A) = h[A] /\ SumFunctionOnSet(f, B) = h[B]
    BY <1>1, <2>1
  <2> QED BY <2>2, <2>3
<1> QED BY <1>1, <1>2, <1>3, <1>5

(* A sum takes the element a fold picks, and what is left.                 *)
LEMMA SumPicks ==
  ASSUME NEW D, IsFiniteSet(D), NEW f \in [D -> Int], NEW s \in SUBSET D,
         s # {}
  PROVE  /\ Pick(s) \in s /\ Pick(s) \notin Rest(s)
         /\ Rest(s) \in SUBSET D /\ s = Rest(s) \cup {Pick(s)}
         /\ SumFunctionOnSet(f, s) = f[Pick(s)] + SumFunctionOnSet(f, Rest(s))
<1> DEFINE p == Pick(s)
           r == Rest(s)
<1>1. p \in s /\ p \notin r /\ r \in SUBSET D /\ s = r \cup {p}
  BY DEF Pick, Rest
<1> HIDE DEF p, r
<1> DEFINE a == {p}
<1>2. r \in SUBSET D /\ a \in SUBSET D /\ r \cap a = {} /\ s = r \cup a
  BY <1>1
<1>3. SumFunctionOnSet(f, a) = f[p]
  BY <1>1, IntegerSums
<1> HIDE DEF a
<1>4. SumFunctionOnSet(f, r \cup a) =
        SumFunctionOnSet(f, r) + SumFunctionOnSet(f, a)
  BY <1>2, IntegerSums
<1>5. SumFunctionOnSet(f, r) \in Int /\ f[p] \in Int
  BY <1>1, <1>2, IntegerSums
<1>6. SumFunctionOnSet(f, s) = f[p] + SumFunctionOnSet(f, r)
  BY <1>2, <1>3, <1>4, <1>5
<1> QED BY <1>1, <1>6 DEF p, r

(* Sums are linear.                                                        *)
Linear(k, D, a, f, b, g, c) ==
  /\ IsFiniteSet(D) /\ f \in [D -> Int] /\ g \in [D -> Int]
  /\ k \in [D -> Int] /\ a \in Int /\ b \in Int /\ c \in Int
  /\ \A x \in D : k[x] = a * f[x] + b * g[x] + c
LEMMA SumIsLinear ==
  ASSUME NEW D, NEW f, NEW g, NEW a, NEW b, NEW c, NEW k,
         Linear(k, D, a, f, b, g, c)
  PROVE  SumFunctionOnSet(k, D) =
           a * SumFunctionOnSet(f, D) + b * SumFunctionOnSet(g, D)
             + c * Cardinality(D)
<1>0. /\ IsFiniteSet(D) /\ f \in [D -> Int] /\ g \in [D -> Int]
      /\ k \in [D -> Int] /\ a \in Int /\ b \in Int /\ c \in Int
      /\ \A x \in D : k[x] = a * f[x] + b * g[x] + c
  BY DEF Linear
<1> USE <1>0
<1> DEFINE F(s) == SumFunctionOnSet(f, s)
           G(s) == SumFunctionOnSet(g, s)
           K(s) == SumFunctionOnSet(k, s)
           P == {s \in SUBSET D :
                   K(s) = a * F(s) + b * G(s) + c * Cardinality(s)}
<1>n. ASSUME NEW s \in SUBSET D
      PROVE  /\ IsFiniteSet(s) /\ Cardinality(s) \in Nat
             /\ F(s) \in Int /\ G(s) \in Int /\ K(s) \in Int
  <2>1. IsFiniteSet(s)
    BY FS_Subset
  <2>2. Cardinality(s) \in Nat
    BY <2>1, FS_CardinalityType
  <2> QED BY <2>1, <2>2, IntegerSums
<1>1. {} \in P
  <2>1. F({}) = 0 /\ G({}) = 0 /\ K({}) = 0
    BY IntegerSums
  <2>2. Cardinality({}) = 0
    BY FS_EmptySet
  <2> HIDE DEF F, G, K
  <2> QED BY <2>1, <2>2
<1>2. ASSUME NEW s \in SUBSET D, s # {}, Rest(s) \in P PROVE s \in P
  <2>1. PICK x \in D, r \in SUBSET D :
          /\ x \in s /\ r = s \ {x} /\ r \in P
          /\ F(s) = f[x] + F(r) /\ G(s) = g[x] + G(r) /\ K(s) = k[x] + K(r)
    <3>1. Pick(s) \in D /\ Pick(s) \in s /\ Rest(s) = s \ {Pick(s)}
      BY <1>2 DEF Pick, Rest
    <3>2. Rest(s) \in SUBSET D
      BY <3>1
    <3>3. /\ F(s) = f[Pick(s)] + F(Rest(s)) /\ G(s) = g[Pick(s)] + G(Rest(s))
          /\ K(s) = k[Pick(s)] + K(Rest(s))
      BY <1>2, SumPicks
    <3> HIDE DEF P, F, G, K
    <3> QED BY <1>2, <3>1, <3>2, <3>3
  <2>2. Cardinality(r) = Cardinality(s) - 1
    BY <2>1, <1>n, FS_RemoveElement
  <2>3. /\ K(r) = a * F(r) + b * G(r) + c * Cardinality(r)
        /\ k[x] = a * f[x] + b * g[x] + c
    BY <2>1
  <2> HIDE DEF F, G, K
  <2>4. PICK m \in Int, fr \in Int, gr \in Int, kr \in Int, fx \in Int,
             gx \in Int :
          /\ m = Cardinality(r) /\ fr = F(r) /\ gr = G(r) /\ kr = K(r)
          /\ fx = f[x] /\ gx = g[x]
    <3>1. /\ Cardinality(r) \in Int /\ F(r) \in Int /\ G(r) \in Int
          /\ K(r) \in Int /\ f[x] \in Int /\ g[x] \in Int
      BY <2>1, <1>n
    <3> QED BY <3>1
  <2>5. kr = a * fr + b * gr + c * m
    BY <2>3, <2>4
  <2>6. k[x] = a * fx + b * gx + c
    BY <2>3, <2>4
  <2>7. Cardinality(s) = m + 1 /\ F(s) = fx + fr /\ G(s) = gx + gr
    BY <2>1, <2>2, <2>4, <1>n
  <2>8. K(s) = (a * fx + b * gx + c) + (a * fr + b * gr + c * m)
    BY <2>1, <2>4, <2>5, <2>6
  <2>9. (a * fx + b * gx + c) + (a * fr + b * gr + c * m)
          = a * (fx + fr) + b * (gx + gr) + c * (m + 1)
    OBVIOUS
  <2> QED BY <2>7, <2>8, <2>9
<1>3. Inductive(D, P)
  <2> HIDE DEF P
  <2> QED BY <1>1, <1>2 DEF Inductive
<1>4. D \in P
  <2> HIDE DEF P
  <2> QED BY <1>3, AllSubsets
<1> QED BY <1>4

(* A function that is nowhere less has no smaller sum.                     *)
LEMMA SumIsMonotone ==
  ASSUME NEW D, IsFiniteSet(D), NEW f \in [D -> Int], NEW g \in [D -> Int],
         \A x \in D : f[x] <= g[x]
  PROVE  SumFunctionOnSet(f, D) <= SumFunctionOnSet(g, D)
<1> DEFINE F(s) == SumFunctionOnSet(f, s)
           G(s) == SumFunctionOnSet(g, s)
           P == {s \in SUBSET D : F(s) <= G(s)}
<1>n. ASSUME NEW s \in SUBSET D PROVE F(s) \in Int /\ G(s) \in Int
  BY IntegerSums
<1>1. {} \in P
  <2>1. F({}) = 0 /\ G({}) = 0
    BY IntegerSums
  <2> HIDE DEF F, G
  <2> QED BY <2>1
<1>2. ASSUME NEW s \in SUBSET D, s # {}, Rest(s) \in P PROVE s \in P
  <2>1. PICK x \in D, r \in SUBSET D :
          r \in P /\ F(s) = f[x] + F(r) /\ G(s) = g[x] + G(r)
    <3>1. Pick(s) \in D /\ Rest(s) \in SUBSET D
      BY <1>2 DEF Pick, Rest
    <3>2. F(s) = f[Pick(s)] + F(Rest(s)) /\ G(s) = g[Pick(s)] + G(Rest(s))
      BY <1>2, SumPicks
    <3> HIDE DEF P, F, G
    <3> QED BY <1>2, <3>1, <3>2
  <2>2. F(r) <= G(r) /\ f[x] <= g[x] /\ f[x] \in Int /\ g[x] \in Int
    BY <2>1
  <2> HIDE DEF F, G
  <2>3. F(s) <= G(s)
    BY <2>1, <2>2, <1>n
  <2> QED BY <2>3
<1>3. Inductive(D, P)
  <2> HIDE DEF P
  <2> QED BY <1>1, <1>2 DEF Inductive
<1>4. D \in P
  <2> HIDE DEF P
  <2> QED BY <1>3, AllSubsets
<1> QED BY <1>4

(* A sum does not depend on how its indices are named.                     *)
Mirrors(g, D, f, p) ==
  /\ IsFiniteSet(D) /\ f \in [D -> Int] /\ g \in [D -> Int]
  /\ p \in [D -> D]
  /\ \A x \in D : p[p[x]] = x /\ g[x] = f[p[x]]
LEMMA SumReindexed ==
  ASSUME NEW D, NEW f, NEW p, NEW g, Mirrors(g, D, f, p)
  PROVE  SumFunctionOnSet(g, D) = SumFunctionOnSet(f, D)
<1>0. /\ IsFiniteSet(D) /\ f \in [D -> Int] /\ g \in [D -> Int]
      /\ p \in [D -> D]
      /\ (\A x \in D : p[p[x]] = x) /\ \A x \in D : g[x] = f[p[x]]
  BY DEF Mirrors
<1> USE <1>0
<1> DEFINE Image(s) == {p[x] : x \in s}
           P == {s \in SUBSET D : SumFunctionOnSet(g, s) =
                                    SumFunctionOnSet(f, Image(s))}
<1>1. {} \in P
  <2>1. Image({}) = {}
    OBVIOUS
  <2> HIDE DEF Image
  <2> QED BY <2>1, IntegerSums
<1>2. ASSUME NEW s \in SUBSET D, s # {}, Rest(s) \in P PROVE s \in P
  <2>1. PICK x \in D, r \in SUBSET D :
          /\ x \in s /\ r = s \ {x} /\ r \in P
          /\ SumFunctionOnSet(g, s) = g[x] + SumFunctionOnSet(g, r)
    <3>1. Pick(s) \in D /\ Pick(s) \in s /\ Rest(s) = s \ {Pick(s)}
      BY <1>2 DEF Pick, Rest
    <3>2. Rest(s) \in SUBSET D
      BY <3>1
    <3>3. SumFunctionOnSet(g, s) = g[Pick(s)] + SumFunctionOnSet(g, Rest(s))
      BY <1>2, SumPicks
    <3> HIDE DEF P
    <3> QED BY <1>2, <3>1, <3>2, <3>3
  <2> DEFINE A == Image(r)
             B == {p[x]}
  <2>2. A \in SUBSET D /\ B \in SUBSET D /\ Image(s) = A \cup B
    BY <2>1
  <2>3. A \cap B = {}
    <3>1. ASSUME NEW y \in r PROVE p[y] # p[x]
      <4>1. y # x /\ y \in D
        BY <2>1
      <4> QED BY <4>1
    <3> QED BY <3>1
  <2>4. SumFunctionOnSet(f, B) = f[p[x]]
    BY IntegerSums
  <2>5. SumFunctionOnSet(g, r) = SumFunctionOnSet(f, A)
    BY <2>1
  <2> HIDE DEF A, B, Image
  <2>6. SumFunctionOnSet(f, A \cup B) =
          SumFunctionOnSet(f, A) + SumFunctionOnSet(f, B)
    BY <2>2, <2>3, IntegerSums
  <2>7. SumFunctionOnSet(f, A) \in Int /\ g[x] \in Int /\ g[x] = f[p[x]]
    BY <2>2, IntegerSums
  <2>8. SumFunctionOnSet(g, s) = SumFunctionOnSet(f, Image(s))
    BY <2>1, <2>2, <2>4, <2>5, <2>6, <2>7
  <2> QED BY <2>8
<1>3. Inductive(D, P)
  <2> HIDE DEF P
  <2> QED BY <1>1, <1>2 DEF Inductive
<1>4. D \in P
  <2> HIDE DEF P
  <2> QED BY <1>3, AllSubsets
<1>5. Image(D) = D
  <2>1. \A x \in D : p[x] \in D /\ x = p[p[x]]
    OBVIOUS
  <2> QED BY <2>1
<1> QED BY <1>4, <1>5

(* The sum of numbers that are not negative is not either.                 *)
LEMMA SumsAgree ==
  ASSUME NEW D, IsFiniteSet(D), NEW f \in [D -> Nat]
  PROVE  /\ SumFunctionOnSet(f, {}) = 0
         /\ \A x \in D : SumFunctionOnSet(f, {x}) = f[x]
         /\ \A A \in SUBSET D : SumFunctionOnSet(f, A) \in Nat
         /\ \A A, B \in SUBSET D : A \cap B = {} =>
              SumFunctionOnSet(f, A \cup B) =
                SumFunctionOnSet(f, A) + SumFunctionOnSet(f, B)
<1> DEFINE P == {s \in SUBSET D : SumFunctionOnSet(f, s) \in Nat}
<1>f. f \in [D -> Int]
  OBVIOUS
<1>1. {} \in P
  BY <1>f, IntegerSums
<1>2. ASSUME NEW s \in SUBSET D, s # {}, Rest(s) \in P PROVE s \in P
  <2>1. SumFunctionOnSet(f, s) = f[Pick(s)] + SumFunctionOnSet(f, Rest(s))
    BY <1>2, <1>f, SumPicks
  <2>2. f[Pick(s)] \in Nat
    BY <1>2 DEF Pick
  <2> QED BY <1>2, <2>1, <2>2
<1>3. Inductive(D, P)
  <2> HIDE DEF P
  <2> QED BY <1>1, <1>2 DEF Inductive
<1>4. SUBSET D \subseteq P
  <2> HIDE DEF P
  <2> QED BY <1>3, AllSubsets
<1>5. \A A \in SUBSET D : SumFunctionOnSet(f, A) \in Nat
  BY <1>4
<1>6. /\ SumFunctionOnSet(f, {}) = 0
      /\ \A x \in D : SumFunctionOnSet(f, {x}) = f[x]
  BY <1>f, IntegerSums
<1>7. ASSUME NEW A \in SUBSET D, NEW B \in SUBSET D, A \cap B = {}
      PROVE  SumFunctionOnSet(f, A \cup B) =
                SumFunctionOnSet(f, A) + SumFunctionOnSet(f, B)
  BY <1>f, <1>7, IntegerSums
<1> QED BY <1>5, <1>6, <1>7

(* Nor is it less than any one of them.                                    *)
LEMMA SumReaches ==
  ASSUME NEW D, IsFiniteSet(D), NEW f \in [D -> Nat], NEW x \in D
  PROVE  SumFunctionOnSet(f, D) \in Nat /\ SumFunctionOnSet(f, D) >= f[x]
<1> DEFINE A == {x}
           B == D \ {x}
<1>1. A \in SUBSET D /\ B \in SUBSET D /\ A \cap B = {} /\ A \cup B = D
  OBVIOUS
<1>2. SumFunctionOnSet(f, A) = f[x] /\ f[x] \in Nat
  BY SumsAgree
<1> HIDE DEF A, B
<1>3. SumFunctionOnSet(f, B) \in Nat
  BY <1>1, SumsAgree
<1>4. SumFunctionOnSet(f, A \cup B) =
        SumFunctionOnSet(f, A) + SumFunctionOnSet(f, B)
  BY <1>1, SumsAgree
<1>5. SumFunctionOnSet(f, D) = f[x] + SumFunctionOnSet(f, B)
  BY <1>1, <1>2, <1>4
<1> QED BY <1>2, <1>3, <1>5

(* The greatest of a finite set of numbers is one of them.                 *)
LEMMA GreatestIsIn ==
  ASSUME NEW D, IsFiniteSet(D), NEW f \in [D -> Nat], NEW S \in SUBSET D, S # {}
  PROVE  LET m == Max({f[x] : x \in S})
         IN  (\E x \in S : m = f[x]) /\ \A x \in S : f[x] <= m
<1> DEFINE P == {s \in SUBSET D :
                   s # {} => \E x \in s : \A y \in s : f[y] <= f[x]}
<1>1. {} \in P
  OBVIOUS
<1>2. ASSUME NEW s \in SUBSET D, s # {}, Rest(s) \in P PROVE s \in P
  <2> DEFINE p == Pick(s)
             r == Rest(s)
  <2>1. p \in s /\ r = s \ {p}
    BY <1>2 DEF Pick, Rest
  <2>2. r # {} => \E x \in r : \A y \in r : f[y] <= f[x]
    BY <1>2
  <2> HIDE DEF p, r
  <2>3. \A x \in s : f[x] \in Nat
    OBVIOUS
  <2>4. CASE r = {}
    <3>1. \A y \in s : y = p
      BY <2>1, <2>4
    <3>2. \A y \in s : f[y] <= f[p]
      BY <3>1, <2>1, <2>3
    <3> QED BY <3>2, <2>1
  <2>5. CASE r # {}
    <3>1. PICK x \in r : \A y \in r : f[y] <= f[x]
      BY <2>2, <2>5
    <3>2. \A y \in s : y = p \/ y \in r
      BY <2>1
    <3>3. CASE f[p] <= f[x]
      <4>1. \A y \in s : f[y] <= f[x]
        BY <3>1, <3>2, <3>3
      <4> QED BY <4>1, <2>1
    <3>4. CASE ~ (f[p] <= f[x])
      <4>1. \A y \in s : f[y] <= f[p]
        BY <3>1, <3>2, <3>4, <2>1, <2>3
      <4> QED BY <4>1, <2>1
    <3> QED BY <3>3, <3>4
  <2> QED BY <2>4, <2>5
<1>3. Inductive(D, P)
  <2> HIDE DEF P
  <2> QED BY <1>1, <1>2 DEF Inductive
<1>4. S \in P
  <2> HIDE DEF P
  <2> QED BY <1>3, AllSubsets
<1>5. PICK x \in S : \A y \in S : f[y] <= f[x]
  BY <1>4
<1> DEFINE F == {f[y] : y \in S}
<1>6. /\ F \subseteq Nat
      /\ \E a \in F : \A b \in F : a >= b
  BY <1>5
<1>7. Max(F) \in F /\ \A b \in F : Max(F) >= b
  <2> HIDE DEF F
  <2> QED BY <1>6 DEF Max
<1>8. \A y \in S : f[y] \in F
  OBVIOUS
<1>9. \E y \in S : Max(F) = f[y]
  BY <1>7
<1>10. \A y \in S : f[y] <= Max(F)
  <2> HIDE DEF F
  <2>1. \A y \in S : f[y] \in Nat /\ Max(F) \in Nat
    BY <1>6, <1>7
  <2> QED BY <2>1, <1>7, <1>8
<1> QED BY <1>9, <1>10

-----------------------------------------------------------------------------
(* What it is for q to sort S: it lists each member once, where as many do *)
(* not come after it as its place says, and in the order of the keys.      *)
Orders(q, S, key) ==
  /\ q \in [1 .. Cardinality(S) -> S]
  /\ \A i \in S : Cardinality(UpTo(S, key, i)) \in 1 .. Cardinality(S)
  /\ \A i \in S : q[Cardinality(UpTo(S, key, i))] = i
  /\ \A k \in 1 .. Cardinality(S) : Cardinality(UpTo(S, key, q[k])) = k
  /\ \A k, l \in 1 .. Cardinality(S) : k < l =>
       \/ key[q[k]] < key[q[l]]
       \/ key[q[k]] = key[q[l]] /\ q[k] < q[l]

(* Sorting by counting sorts.                                              *)
LEMMA OrderedSorts ==
  ASSUME NEW S, IsFiniteSet(S), S \subseteq Int, NEW key \in [S -> Int]
  PROVE  Orders(Ordered(S, key), S, key)
<1> DEFINE n == Cardinality(S)
           U(i) == UpTo(S, key, i)
           rank == [i \in S |-> Cardinality(U(i))]
           q == Ordered(S, key)
           Before(i, j) == key[i] < key[j] \/ (key[i] = key[j] /\ i < j)
<1>n. n \in Nat
  BY FS_CardinalityType
<1>1. ASSUME NEW i \in S
      PROVE  /\ IsFiniteSet(U(i)) /\ Cardinality(U(i)) \in 1 .. n
             /\ i \in U(i)
  <2> DEFINE A == U(i)
             m == Cardinality(A)
  <2>1. A \subseteq S /\ i \in A
    BY DEF UpTo
  <2> HIDE DEF A
  <2>2. IsFiniteSet(A) /\ m <= n
    BY <2>1, FS_Subset
  <2>3. m \in Nat
    BY <2>2, FS_CardinalityType
  <2>4. m # 0
    BY <2>1, <2>2, FS_EmptySet
  <2> HIDE DEF n, m
  <2>5. m \in 1 .. n
    BY <2>2, <2>3, <2>4, <1>n
  <2> QED BY <2>1, <2>2, <2>5 DEF A, m
<1>2. ASSUME NEW i \in S, NEW j \in S, Before(i, j) PROVE rank[i] < rank[j]
  <2>1. U(i) \subseteq U(j)
    <3>1. ASSUME NEW m \in S, key[m] < key[i] \/ (key[m] = key[i] /\ m <= i)
          PROVE  key[m] < key[j] \/ (key[m] = key[j] /\ m <= j)
      <4>1. /\ key[m] \in Int /\ key[i] \in Int /\ key[j] \in Int
            /\ m \in Int /\ i \in Int /\ j \in Int
        OBVIOUS
      <4> QED BY <4>1, <3>1, <1>2
    <3> QED BY <3>1 DEF UpTo
  <2>2. j \in U(j) /\ j \notin U(i)
    BY <1>2 DEF UpTo
  <2>3. IsFiniteSet(U(j)) /\ Cardinality(U(j)) \in 1 .. n
    BY <1>1
  <2>4. Cardinality(U(i)) \in 1 .. n
    BY <1>1
  <2> DEFINE A == U(i)
             B == U(j)
  <2>5. /\ A \subseteq B /\ j \in B /\ j \notin A /\ IsFiniteSet(B)
        /\ Cardinality(A) \in 1 .. n /\ Cardinality(B) \in 1 .. n
        /\ rank[i] = Cardinality(A) /\ rank[j] = Cardinality(B)
    BY <2>1, <2>2, <2>3, <2>4
  <2> HIDE DEF A, B, n, rank
  <2>6. Cardinality(A) <= Cardinality(B)
        /\ (Cardinality(A) = Cardinality(B) => A = B)
    BY <2>5, FS_Subset
  <2> QED BY <2>5, <2>6, <1>n
<1>3. ASSUME NEW i \in S, NEW j \in S
      PROVE  i = j \/ Before(i, j) \/ Before(j, i)
  OBVIOUS
<1>4. rank \in [S -> 1 .. n]
  BY <1>1
<1>5. \A i, j \in S : rank[i] = rank[j] => i = j
  <2> HIDE DEF rank, n
  <2>1. \A i \in S : rank[i] \in Int
    BY <1>4, <1>n
  <2> HIDE DEF Before
  <2> QED BY <1>2, <1>3, <2>1
<1>6. ASSUME NEW k \in 1 .. n PROVE \E i \in S : rank[i] = k
  <2>1. Cardinality(1 .. n) = n
    <3>1. 1 \in Int /\ n \in Int
      BY <1>n
    <3>2. Cardinality(1 .. n) = IF 1 > n THEN 0 ELSE n - 1 + 1
      BY <3>1, FS_Interval
    <3> HIDE DEF n
    <3> QED BY <3>2, <1>n
  <2>2. IsFiniteSet(1 .. n)
    <3> HIDE DEF n
    <3> QED BY <1>n, FS_Interval
  <2> HIDE DEF rank
  <2>3. rank \in Injection(S, 1 .. n)
    BY <1>4, <1>5 DEF Injection, IsInjective
  <2>4. rank \in Surjection(S, 1 .. n)
    <3> DEFINE T == 1 .. n
    <3>1. IsFiniteSet(T) /\ Cardinality(T) = Cardinality(S)
      BY <2>1, <2>2
    <3> HIDE DEF T, n
    <3>2. rank \in Injection(S, T)
      BY <2>3 DEF T
    <3>3. rank \in Surjection(S, T)
      BY <3>1, <3>2, FS_Injection
    <3> QED BY <3>3 DEF T
  <2> HIDE DEF n
  <2> QED BY <2>4 DEF Surjection
<1>7. q = [k \in 1 .. n |-> CHOOSE i \in S : rank[i] = k]
  BY DEF Ordered
<1> HIDE DEF q
<1>8. ASSUME NEW k \in 1 .. n PROVE q[k] \in S /\ rank[q[k]] = k
  <2> HIDE DEF rank, n
  <2>1. q[k] = CHOOSE i \in S : rank[i] = k
    BY <1>7
  <2> QED BY <2>1, <1>6
<1>9. ASSUME NEW i \in S PROVE q[rank[i]] = i
  <2> HIDE DEF rank, n
  <2>1. rank[i] \in 1 .. n
    BY <1>4
  <2> QED BY <2>1, <1>5, <1>8
<1>10. ASSUME NEW k \in 1 .. n, NEW l \in 1 .. n, k < l
       PROVE  Before(q[k], q[l])
  <2>1. /\ q[k] \in S /\ rank[q[k]] = k /\ q[l] \in S /\ rank[q[l]] = l
    BY <1>8
  <2>2. q[k] # q[l]
    BY <2>1, <1>10, <1>n
  <2>3. Before(q[l], q[k]) => l < k
    <3> HIDE DEF rank, Before
    <3> QED BY <2>1, <1>2
  <2>4. q[k] = q[l] \/ Before(q[k], q[l]) \/ Before(q[l], q[k])
    BY <2>1, <1>3
  <2>5. ~ (l < k)
    <3> HIDE DEF n
    <3> QED BY <1>10, <1>n
  <2> HIDE DEF rank, Before
  <2> QED BY <2>2, <2>3, <2>4, <2>5
<1>11. q \in [1 .. n -> S]
  BY <1>7, <1>8
<1>12. \A i \in S : rank[i] = Cardinality(UpTo(S, key, i))
  OBVIOUS
<1> HIDE DEF rank, n
<1>13. /\ \A i \in S : rank[i] \in 1 .. n
       /\ \A i \in S : q[rank[i]] = i
       /\ \A k \in 1 .. n : rank[q[k]] = k /\ q[k] \in S
  BY <1>4, <1>8, <1>9
<1>14. /\ \A i \in S : Cardinality(UpTo(S, key, i)) \in 1 .. n
       /\ \A i \in S : q[Cardinality(UpTo(S, key, i))] = i
       /\ \A k \in 1 .. n : Cardinality(UpTo(S, key, q[k])) = k
  BY <1>12, <1>13
<1> QED BY <1>10, <1>11, <1>14 DEF Orders, q, n

-----------------------------------------------------------------------------
(* A finite set of numbers has a least and a greatest one.                 *)
LEMMA ExtremesAreIn ==
  ASSUME NEW D, IsFiniteSet(D), D \subseteq Int, D # {}
  PROVE  /\ Min(D) \in D /\ Max(D) \in D
         /\ \A x \in D : Min(D) <= x /\ x <= Max(D)
<1> DEFINE Bounded(s) == /\ \E x \in s : \A y \in s : x <= y
                         /\ \E x \in s : \A y \in s : x >= y
           P == {s \in SUBSET D : s # {} => Bounded(s)}
<1>1. {} \in P
  OBVIOUS
<1>2. ASSUME NEW s \in SUBSET D, s # {}, Rest(s) \in P PROVE s \in P
  <2> DEFINE p == Pick(s)
             r == Rest(s)
  <2>1. p \in s /\ r = s \ {p} /\ p \in Int /\ r \subseteq Int
    BY <1>2 DEF Pick, Rest
  <2>2. r # {} => Bounded(r)
    BY <1>2
  <2> HIDE DEF p, r
  <2>3. CASE r = {}
    <3>1. \A y \in s : y = p
      BY <2>1, <2>3
    <3> QED BY <2>1, <3>1
  <2>4. CASE r # {}
    <3>1. PICK x \in r : \A y \in r : x <= y
      BY <2>2, <2>4
    <3>2. PICK z \in r : \A y \in r : z >= y
      BY <2>2, <2>4
    <3>3. \A y \in s : y = p \/ y \in r
      BY <2>1
    <3>4. x \in Int /\ z \in Int /\ x \in s /\ z \in s
      BY <2>1
    <3>5. \E u \in s : \A y \in s : u <= y
      <4>1. CASE x <= p
        BY <2>1, <3>1, <3>3, <3>4, <4>1
      <4>2. CASE p <= x
        <5>1. \A y \in r : p <= y
          BY <2>1, <3>1, <3>4, <4>2
        <5> QED BY <2>1, <3>3, <5>1
      <4> QED BY <2>1, <3>4, <4>1, <4>2
    <3>6. \E u \in s : \A y \in s : u >= y
      <4>1. CASE z >= p
        BY <2>1, <3>2, <3>3, <3>4, <4>1
      <4>2. CASE p >= z
        <5>1. \A y \in r : p >= y
          BY <2>1, <3>2, <3>4, <4>2
        <5> QED BY <2>1, <3>3, <5>1
      <4> QED BY <2>1, <3>4, <4>1, <4>2
    <3> QED BY <3>5, <3>6
  <2> QED BY <2>3, <2>4
<1>3. Inductive(D, P)
  <2> HIDE DEF P
  <2> QED BY <1>1, <1>2 DEF Inductive
<1>4. D \in P
  <2> HIDE DEF P
  <2> QED BY <1>3, AllSubsets
<1>5. /\ \E x \in D : \A y \in D : x <= y
      /\ \E x \in D : \A y \in D : x >= y
  BY <1>4
<1>6. Min(D) \in D /\ \A x \in D : Min(D) <= x
  BY <1>5 DEF Min
<1>7. Max(D) \in D /\ \A x \in D : Max(D) >= x
  BY <1>5 DEF Max
<1>8. ASSUME NEW x \in D PROVE x <= Max(D)
  <2>1. Max(D) >= x /\ Max(D) \in Int /\ x \in Int
    BY <1>7
  <2> QED BY <2>1
<1> QED BY <1>6, <1>7, <1>8

(* Of two numbers.                                                         *)
LEMMA ExtremesOfTwo ==
  ASSUME NEW a \in Int, NEW b \in Int
  PROVE  /\ Min({a, b}) \in Int /\ Min({a, b}) \in {a, b}
         /\ Min({a, b}) <= a /\ Min({a, b}) <= b
         /\ Max({a, b}) \in Int /\ Max({a, b}) \in {a, b}
         /\ a <= Max({a, b}) /\ b <= Max({a, b})
<1> DEFINE D == {a, b}
<1>1. IsFiniteSet(D)
  <2>1. D = {a} \cup {b} /\ IsFiniteSet({a}) /\ IsFiniteSet({b})
    BY FS_Singleton
  <2> HIDE DEF D
  <2> QED BY <2>1, FS_Union
<1>2. D \subseteq Int /\ a \in D /\ b \in D /\ \A x \in D : x \in Int
  OBVIOUS
<1> HIDE DEF D
<1>3. /\ Min(D) \in D /\ Max(D) \in D
      /\ \A x \in D : Min(D) <= x /\ x <= Max(D)
  BY <1>1, <1>2, ExtremesAreIn
<1>4. Min(D) \in Int /\ Max(D) \in Int
  BY <1>2, <1>3
<1> QED BY <1>2, <1>3, <1>4 DEF D

(* A sum of numbers within bounds is within as many times the bounds.      *)
LEMMA SumWithin ==
  ASSUME NEW D, IsFiniteSet(D), NEW lo \in Int, NEW hi \in Int,
         NEW f \in [D -> lo .. hi]
  PROVE  /\ SumFunctionOnSet(f, D) \in Int /\ Cardinality(D) \in Nat
         /\ lo * Cardinality(D) <= SumFunctionOnSet(f, D)
         /\ SumFunctionOnSet(f, D) <= hi * Cardinality(D)
<1> DEFINE F(s) == SumFunctionOnSet(f, s)
           P == {s \in SUBSET D : /\ lo * Cardinality(s) <= F(s)
                                  /\ F(s) <= hi * Cardinality(s)}
<1>0. f \in [D -> Int]
  OBVIOUS
<1>n. ASSUME NEW s \in SUBSET D
      PROVE  IsFiniteSet(s) /\ Cardinality(s) \in Nat /\ F(s) \in Int
  <2>1. IsFiniteSet(s)
    BY FS_Subset
  <2> QED BY <1>0, <2>1, FS_CardinalityType, IntegerSums
<1>1. {} \in P
  <2>1. F({}) = 0
    BY <1>0, IntegerSums
  <2>2. Cardinality({}) = 0
    BY FS_EmptySet
  <2> HIDE DEF F
  <2> QED BY <2>1, <2>2
<1>2. ASSUME NEW s \in SUBSET D, s # {}, Rest(s) \in P PROVE s \in P
  <2>1. PICK x \in D, r \in SUBSET D :
          /\ x \in s /\ r = s \ {x} /\ r \in P /\ F(s) = f[x] + F(r)
    <3>1. Pick(s) \in D /\ Pick(s) \in s /\ Rest(s) = s \ {Pick(s)}
      BY <1>2 DEF Pick, Rest
    <3>2. Rest(s) \in SUBSET D
      BY <3>1
    <3>3. F(s) = f[Pick(s)] + F(Rest(s))
      BY <1>0, <1>2, SumPicks
    <3> HIDE DEF P, F
    <3> QED BY <1>2, <3>1, <3>2, <3>3
  <2>2. Cardinality(r) = Cardinality(s) - 1
    BY <2>1, <1>n, FS_RemoveElement
  <2>3. lo * Cardinality(r) <= F(r) /\ F(r) <= hi * Cardinality(r)
    BY <2>1
  <2> HIDE DEF F
  <2>4. PICK m \in Int, fr \in Int, fx \in Int :
          /\ m = Cardinality(r) /\ fr = F(r) /\ fx = f[x]
          /\ lo <= fx /\ fx <= hi
    <3>1. Cardinality(r) \in Int /\ F(r) \in Int /\ f[x] \in lo .. hi
      BY <2>1, <1>n
    <3> QED BY <3>1
  <2>5. lo * m <= fr /\ fr <= hi * m
    BY <2>3, <2>4
  <2>6. Cardinality(s) = m + 1 /\ F(s) = fx + fr
    BY <2>1, <2>2, <2>4, <1>n
  <2>7. lo * (m + 1) = lo * m + lo /\ hi * (m + 1) = hi * m + hi
    OBVIOUS
  <2>8. lo * (m + 1) <= fx + fr /\ fx + fr <= hi * (m + 1)
    <3>1. PICK a \in Int, b \in Int : a = lo * m /\ b = hi * m
      OBVIOUS
    <3> QED BY <2>4, <2>5, <2>7, <3>1
  <2> QED BY <2>6, <2>8
<1>3. Inductive(D, P)
  <2> HIDE DEF P
  <2> QED BY <1>1, <1>2 DEF Inductive
<1>4. D \in P
  <2> HIDE DEF P
  <2> QED BY <1>3, AllSubsets
<1>5. D \in SUBSET D
  OBVIOUS
<1> QED BY <1>4, <1>5, <1>n

(* A quotient lies within the bounds that its dividend is multiples of.    *)
LEMMA QuotientWithin ==
  ASSUME NEW a \in Int, NEW b \in Int, b > 0, NEW lo \in Int, NEW hi \in Int,
         lo * b <= a, a <= hi * b
  PROVE  a \div b \in lo .. hi
<1>1. PICK q \in Int, r \in Int :
        q = a \div b /\ a = b * q + r /\ 0 <= r /\ r < b
  <2>1. /\ a \div b \in Int /\ (a % b) \in Int /\ 0 <= (a % b) /\ (a % b) < b
        /\ a = b * (a \div b) + (a % b)
    OBVIOUS
  <2> QED BY <2>1
<1>2. q <= hi
  <2>1. SUFFICES ASSUME q >= hi + 1 PROVE FALSE
    BY <1>1
  <2>2. b * q >= b * (hi + 1)
    BY <2>1
  <2>3. b * (hi + 1) = hi * b + b
    OBVIOUS
  <2> QED BY <1>1, <2>2, <2>3
<1>3. lo <= q
  <2>1. SUFFICES ASSUME q + 1 <= lo PROVE FALSE
    BY <1>1
  <2>2. b * (q + 1) <= b * lo
    BY <2>1
  <2>3. b * (q + 1) = b * q + b /\ b * lo = lo * b
    OBVIOUS
  <2> QED BY <1>1, <2>2, <2>3
<1> QED BY <1>1, <1>2, <1>3

(* Sequences joined are a sequence.                                        *)
LEMMA FlattenIs ==
  ASSUME NEW D, NEW seqs \in Seq(Seq(D))
  PROVE  FlattenSeq(seqs) \in Seq(D)
<1> DEFINE n == Len(seqs)
           S == Seq(D)
           g == [i \in 1 .. n |-> [v \in S |-> v \o seqs[i]]]
<1>1. n \in Nat /\ \A i \in 1 .. n : seqs[i] \in S
  OBVIOUS
<1>2. CASE n = 0
  BY <1>2, EmptySeq DEF FlattenSeq
<1>3. CASE n # 0
  <2>1. Stepping(n, S, <<>>, g)
    <3>1. \A v \in S : \A w \in S : v \o w \in S
      BY ConcatProperties
    <3>2. <<>> \in S
      OBVIOUS
    <3> HIDE DEF S
    <3>3. g \in [1 .. n -> [S -> S]]
      BY <1>1, <3>1
    <3> HIDE DEF g, n
    <3> QED BY <1>1, <3>2, <3>3 DEF Stepping
  <2>2. PICK h : Stepped(h, n, S, <<>>, g)
    <3> HIDE DEF g, S, n
    <3> QED BY <2>1, RecursionExists
  <2>3. /\ h \in [0 .. n -> S] /\ h[0] = <<>>
        /\ \A i \in 1 .. n : h[i] = g[i][h[i - 1]]
    <3> HIDE DEF g, S, n
    <3> QED BY <2>2 DEF Stepped
  <2>4. ASSUME NEW i \in 1 .. n PROVE h[i] = h[i - 1] \o seqs[i]
    <3>1. i - 1 \in 0 .. n
      BY <1>1
    <3> HIDE DEF S, n
    <3>2. h[i - 1] \in S
      BY <2>3, <3>1
    <3> QED BY <2>3, <3>2
  <2> DEFINE f == [i \in 1 .. n |-> h[i]]
  <2>5. f = [i \in 1 .. n |-> IF i = 1 THEN seqs[i] ELSE f[i - 1] \o seqs[i]]
    <3>1. ASSUME NEW i \in 1 .. n
          PROVE  f[i] = IF i = 1 THEN seqs[i] ELSE f[i - 1] \o seqs[i]
      <4>1. CASE i = 1
        <5>0. 1 \in 1 .. n /\ 1 - 1 = 0
          BY <4>1
        <5>1. h[1] = <<>> \o seqs[1]
          <6> HIDE DEF S, n, g
          <6>1. h[1] = h[1 - 1] \o seqs[1]
            BY <2>4, <5>0
          <6> QED BY <2>3, <5>0, <6>1
        <5>2. seqs[1] \in S
          BY <1>1, <4>1
        <5>3. <<>> \o seqs[1] = seqs[1]
          BY <5>2, ConcatEmptySeq
        <5> QED BY <4>1, <5>1, <5>3
      <4>2. CASE i # 1
        <5>1. i - 1 \in 1 .. n
          BY <1>1, <4>2
        <5>2. f[i] = h[i] /\ f[i - 1] = h[i - 1]
          BY <5>1
        <5> QED BY <2>4, <4>2, <5>2
      <4> QED BY <4>1, <4>2
    <3>2. DOMAIN f = 1 .. n
      OBVIOUS
    <3> QED BY <3>1
  <2>6. DOMAIN seqs = 1 .. n
    OBVIOUS
  <2> HIDE DEF f, g, S
  <2>7. PICK e : /\ e = [i \in 1 .. n |->
                          IF i = 1 THEN seqs[i] ELSE e[i - 1] \o seqs[i]]
                 /\ FlattenSeq(seqs) = e[n]
    BY <1>3, <2>5 DEF FlattenSeq
  <2> DEFINE Q == {i \in Nat : i \in 1 .. n => e[i] \in S}
  <2>8. 0 \in Q
    OBVIOUS
  <2>9. ASSUME NEW i \in Nat, i \in Q PROVE i + 1 \in Q
    <3>1. SUFFICES ASSUME i + 1 \in 1 .. n PROVE e[i + 1] \in S
      OBVIOUS
    <3>2. CASE i = 0
      <4>1. e[1] = seqs[1] /\ 1 \in 1 .. n
        BY <2>7, <3>1, <3>2
      <4> QED BY <1>1, <3>2, <4>1
    <3>3. CASE i # 0
      <4>1. i \in 1 .. n /\ i + 1 # 1 /\ (i + 1) - 1 = i
        BY <1>1, <3>1, <3>3
      <4>2. e[i + 1] = e[i] \o seqs[i + 1]
        <5> HIDE DEF n
        <5> QED BY <2>7, <3>1, <4>1
      <4>3. e[i] \in S /\ seqs[i + 1] \in S
        BY <1>1, <2>9, <3>1, <4>1
      <4> QED BY <4>2, <4>3, ConcatProperties DEF S
    <3> QED BY <3>2, <3>3
  <2>10. n \in Q
    <3> HIDE DEF Q, n
    <3>1. \A k \in 0 .. n - 1 : k \in Q => k + 1 \in Q
      BY <1>1, <2>9
    <3>2. \A k \in 0 .. n : k \in Q
      BY <1>1, <2>8, <3>1, AllNumbers
    <3> QED BY <1>1, <3>2
  <2>11. n \in 1 .. n
    BY <1>1, <1>3
  <2> QED BY <2>7, <2>10, <2>11 DEF S
<1> QED BY <1>2, <1>3
=============================================================================
