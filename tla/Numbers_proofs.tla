---------------------------- MODULE Numbers_proofs ----------------------------
(***************************************************************************)
(* Facts about numbers that the proofs about clocks and handlers need:     *)
(* induction on a set of numbers (the library's induction theorems take an *)
(* operator, this one takes the set of the numbers that are proved),       *)
(* recursion up to a number, powers of two, the maximum of a finite set.   *)
(***************************************************************************)
EXTENDS Integers, FiniteSetTheorems, FunctionTheorems, WellFoundedInduction, TLAPS

(* Every set of naturals has a least element. *)
LEMMA LeastNatural ==
  ASSUME NEW T \in SUBSET Nat, T # {}
  PROVE  \E n \in T : \A m \in T : n <= m
  <1> DEFINE R == {p \in Nat \X Nat : p[1] < p[2]}
  <1>1. R = OpToRel(<, Nat)
    BY DEF OpToRel
  <1>2. IsWellFoundedOn(R, Nat)
    BY <1>1, NatLessThanWellFounded
  <1>3. PICK n \in T : \A m \in T : <<m, n>> \notin R
    BY <1>2, WFMin
  <1>4. ASSUME NEW m \in T
        PROVE  n <= m
    <2>1. <<m, n>> \in Nat \X Nat /\ <<m, n>>[1] = m /\ <<m, n>>[2] = n
      OBVIOUS
    <2>2. ~(m < n)
      BY <1>3, <2>1
    <2> QED
      BY <2>2
  <1> HIDE DEF R
  <1> QED
    BY <1>4

(* A set that holds 0 and with each number the next is all of Nat. *)
LEMMA Induction ==
  ASSUME NEW S \in SUBSET Nat, 0 \in S, \A n \in S : n + 1 \in S
  PROVE  S = Nat
  <1> SUFFICES ASSUME S # Nat
               PROVE  FALSE
    OBVIOUS
  <1>1. PICK n \in Nat \ S : \A m \in Nat \ S : n <= m
    BY LeastNatural
  <1>2. n - 1 \in S
    BY <1>1
  <1> QED
    BY <1>1, <1>2

(* The same up to a number. *)
LEMMA InductionUpTo ==
  ASSUME NEW m \in Nat, NEW S, 0 \in S, \A i \in 0 .. m - 1 : i \in S => i + 1 \in S
  PROVE  \A i \in 0 .. m : i \in S
  <1> DEFINE T == {i \in Nat : i <= m => i \in S}
  <1>1. 0 \in T /\ \A i \in T : i + 1 \in T
    OBVIOUS
  <1>2. T = Nat
    <2>1. T \in SUBSET Nat
      OBVIOUS
    <2> HIDE DEF T
    <2> QED
      BY <1>1, <2>1, Induction
  <1>3. \A i \in 0 .. m : i \in T
    <2> HIDE DEF T
    <2> QED
      BY <1>2
  <1> QED
    BY <1>3

(* The functions up to k that begin with a and go on by steps. *)
Sequels(V, a, step, k) ==
  {g \in [0 .. k -> V] : g[0] = a /\ \A i \in 0 .. k - 1 : g[i + 1] = step[i][g[i]]}

(* A value for 0 and a step to the next: there is such a function. *)
LEMMA Recursion ==
  ASSUME NEW V, NEW a \in V, NEW step \in [Nat -> [V -> V]], NEW k \in Nat
  PROVE  Sequels(V, a, step, k) # {}
  <1> DEFINE Obeys(g, m) == /\ g \in [0 .. m -> V]
                            /\ g[0] = a
                            /\ \A i \in 0 .. m - 1 : g[i + 1] = step[i][g[i]]
             S == {m \in Nat : \E g : Obeys(g, m)}
  <1>1. 0 \in S
    <2>1. Obeys([i \in 0 .. 0 |-> a], 0)
      OBVIOUS
    <2> QED
      BY <2>1
  <1>2. ASSUME NEW m \in S
        PROVE  m + 1 \in S
    <2>1. PICK g : Obeys(g, m)
      OBVIOUS
    <2> DEFINE h == [i \in 0 .. m + 1 |-> IF i <= m THEN g[i] ELSE step[m][g[m]]]
    <2>2. step[m][g[m]] \in V
      BY <2>1
    <2>3. h \in [0 .. m + 1 -> V]
      BY <2>1, <2>2
    <2>4. h[0] = a
      BY <2>1
    <2>5. ASSUME NEW i \in 0 .. m
          PROVE  h[i + 1] = step[i][h[i]]
      <3>1. CASE i = m
        BY <3>1
      <3>2. CASE i < m
        BY <2>1, <3>2
      <3> QED
        BY <3>1, <3>2
    <2>6. Obeys(h, m + 1)
      <3> HIDE DEF h
      <3> QED
        BY <2>3, <2>4, <2>5
    <2>7. \E f : Obeys(f, m + 1)
      <3> HIDE DEF h, Obeys
      <3> QED
        BY <2>6
    <2> QED
      BY <2>7
  <1> HIDE DEF S
  <1>3. S = Nat
    <2>1. S \in SUBSET Nat
      BY DEF S
    <2> QED
      BY <1>1, <1>2, <2>1, Induction
  <1>4. PICK g : Obeys(g, k)
    BY <1>3 DEF S
  <1> QED
    BY <1>4 DEF Sequels

(* A finite, nonempty set of naturals has a greatest element. *)
LEMMA GreatestNatural ==
  ASSUME NEW T \in SUBSET Nat, T # {}, NEW b \in Nat, \A m \in T : m <= b
  PROVE  \E n \in T : \A m \in T : n >= m
  <1> DEFINE U == {k \in Nat : \A m \in T : m <= k}
  <1>1. PICK n \in U : \A k \in U : n <= k
    BY LeastNatural
  <1>2. n \in T
    <2> SUFFICES ASSUME n \notin T
                 PROVE  FALSE
      OBVIOUS
    <2>1. \A m \in T : m < n
      BY <1>1
    <2>2. PICK m \in T : TRUE
      OBVIOUS
    <2>3. n \in Nat /\ m \in Nat /\ m < n
      BY <2>1
    <2>4. n - 1 \in Nat /\ n - 1 < n
      BY <2>3
    <2>5. \A k \in T : k <= n - 1
      BY <2>1, <2>3
    <2>6. n - 1 \in U
      BY <2>4, <2>5
    <2> HIDE DEF U
    <2>7. n <= n - 1
      BY <1>1, <2>6
    <2> QED
      BY <2>3, <2>4, <2>7
  <1> QED
    BY <1>1, <1>2

-------------------------------------------------------------------------------
(* Powers of two, by counting subsets. *)

LEMMA PowerType ==
  ASSUME NEW n \in Nat
  PROVE  2^n \in Nat
  <1>1. IsFiniteSet(1 .. n) /\ Cardinality(1 .. n) = n
    BY FS_Interval
  <1>2. IsFiniteSet(SUBSET (1 .. n)) /\ Cardinality(SUBSET (1 .. n)) = 2^Cardinality(1 .. n)
    BY <1>1, FS_SUBSET
  <1>3. Cardinality(SUBSET (1 .. n)) \in Nat
    BY <1>2, FS_CardinalityType
  <1> QED
    BY <1>1, <1>2, <1>3, Zenon

LEMMA Doubling ==
  ASSUME NEW n \in Nat
  PROVE  2^(n + 1) = 2 * 2^n
  <1> DEFINE S == 1 .. n
             A == SUBSET S
             B == {T \in SUBSET (1 .. n + 1) : n + 1 \in T}
             f == [T \in A |-> T \cup {n + 1}]
  <1>1. /\ IsFiniteSet(S) /\ Cardinality(S) = n
        /\ IsFiniteSet(1 .. n + 1) /\ Cardinality(1 .. n + 1) = n + 1
    BY FS_Interval
  <1>2. /\ IsFiniteSet(A) /\ Cardinality(A) = 2^n
        /\ Cardinality(SUBSET (1 .. n + 1)) = 2^(n + 1)
    BY <1>1, FS_SUBSET, Zenon
  <1>3. SUBSET (1 .. n + 1) = A \cup B /\ A \cap B = {}
    <2>1. 1 .. n + 1 = S \cup {n + 1} /\ n + 1 \notin S
      OBVIOUS
    <2> HIDE DEF S
    <2> QED
      BY <2>1
  <1>4. ExistsBijection(A, B)
    <2>1. n + 1 \notin S /\ 1 .. n + 1 = S \cup {n + 1}
      OBVIOUS
    <2>2. f \in [A -> B]
      BY <2>1
    <2>3. \A T, U \in A : f[T] = f[U] => T = U
      BY <2>1
    <2>4. ASSUME NEW U \in B
          PROVE  \E T \in A : f[T] = U
      <3>1. U \ {n + 1} \in A /\ f[U \ {n + 1}] = U
        BY <2>1
      <3> QED
        BY <3>1
    <2> HIDE DEF A, B, f
    <2>5. f \in Bijection(A, B)
      BY <2>2, <2>3, <2>4, Fun_IsBij
    <2> QED
      BY <2>5 DEF ExistsBijection
  <1>5. IsFiniteSet(B) /\ Cardinality(B) = Cardinality(A)
    BY <1>2, <1>4, FS_Bijection
  <1>6. Cardinality(A \cup B) = Cardinality(A) + Cardinality(B) - Cardinality(A \cap B)
    BY <1>2, <1>5, FS_Union
  <1>7. Cardinality(A) \in Nat /\ Cardinality(A \cap B) = 0
    BY <1>2, <1>3, FS_EmptySet, FS_CardinalityType
  <1>8. Cardinality(A \cup B) = 2^(n + 1)
    BY <1>2, <1>3
  <1> HIDE DEF A, B
  <1> QED
    BY <1>2, <1>5, <1>6, <1>7, <1>8

LEMMA PowerPositive == \A n \in Nat : 2^n >= 1
  <1> DEFINE S == {n \in Nat : 2^n >= 1}
  <1>1. 0 \in S
    BY SMT
  <1>2. \A n \in S : n + 1 \in S
    <2> SUFFICES ASSUME NEW n \in Nat, 2^n >= 1
                 PROVE  2^(n + 1) >= 1
      OBVIOUS
    <2>1. 2^n \in Nat
      BY PowerType
    <2> QED
      BY <2>1, Doubling
  <1>3. S = Nat
    BY <1>1, <1>2, Induction
  <1> QED
    BY <1>3

LEMMA PowerMonotone == \A a, b \in Nat : a <= b => 2^a <= 2^b
  <1> DEFINE S == {d \in Nat : \A a \in Nat : 2^a <= 2^(a + d)}
  <1>1. 0 \in S
    <2>1. \A a \in Nat : a + 0 = a /\ 2^a \in Nat
      BY PowerType
    <2> QED
      BY <2>1
  <1>2. ASSUME NEW d \in S
        PROVE  d + 1 \in S
    <2>1. d \in Nat /\ d + 1 \in Nat
      OBVIOUS
    <2>2. ASSUME NEW a \in Nat
          PROVE  2^a <= 2^(a + (d + 1))
      <3> DEFINE x == 2^a
                 y == 2^(a + d)
      <3>1. a + d \in Nat /\ a + (d + 1) = (a + d) + 1
        BY <2>1
      <3>2. x <= y /\ x \in Nat /\ y \in Nat
        BY <3>1, PowerType, Zenon
      <3>3. 2^(a + (d + 1)) = 2 * y
        BY <3>1, Doubling, Zenon
      <3> HIDE DEF x, y
      <3>4. x <= 2 * y
        BY <3>2
      <3> QED
        BY <3>3, <3>4 DEF x
    <2> QED
      BY <2>1, <2>2, Zenon
  <1>3. S = Nat
    <2>1. S \in SUBSET Nat
      OBVIOUS
    <2> HIDE DEF S
    <2> QED
      BY <1>1, <1>2, <2>1, Induction
  <1> SUFFICES ASSUME NEW a \in Nat, NEW b \in Nat, a <= b
               PROVE  2^a <= 2^b
    OBVIOUS
  <1>4. b - a \in Nat /\ a + (b - a) = b
    OBVIOUS
  <1>5. 2^a <= 2^(a + (b - a))
    BY <1>3, <1>4, Zenon
  <1> QED
    BY <1>4, <1>5, Zenon
===============================================================================
