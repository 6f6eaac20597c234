---------------------------- MODULE Handlers_proofs ----------------------------
(***************************************************************************)
(* The trial division of _is_prime_handler (worker/registry.py:128-145) is *)
(* right for every integer, and counts what it tried; _collatz_handler     *)
(* gives the sequence it should, its maximum and its sum: proofs about     *)
(* Handlers, which TLC checks on small numbers only.                       *)
(***************************************************************************)
EXTENDS Handlers, Numbers_proofs, TLAPS

-------------------------------------------------------------------------------
(* Division. *)

(* A divisor comes with its quotient. *)
LEMMA Quotient ==
  ASSUME NEW a \in Nat, NEW b \in Nat \ {0}, a % b = 0
  PROVE  a \div b \in Nat /\ a = b * (a \div b)
OBVIOUS

(* A factor divides. *)
LEMMA FactorDivides ==
  ASSUME NEW b \in Nat \ {0}, NEW q \in Nat
  PROVE  (b * q) % b = 0
OBVIOUS

(* What an even number divides is even: the candidates between d and d + 2 *)
(* need no test.                                                           *)
LEMMA EvenDivisor ==
  ASSUME NEW a \in Nat, NEW b \in Nat \ {0}, b % 2 = 0, a % b = 0
  PROVE  a % 2 = 0
<1> DEFINE q == a \div b
           m == b \div 2
<1>1. q \in Nat /\ a = b * q
  BY Quotient
<1>2. m \in Nat /\ b = 2 * m
  BY SMT
<1>3. m * q \in Nat /\ a = 2 * (m * q)
  BY <1>1, <1>2, SMT
<1> HIDE DEF q, m
<1> QED
  BY <1>3, FactorDivides

(* A number without a divisor below its root has none at all: the smaller  *)
(* of two factors is at most the root.                                     *)
LEMMA RootSuffices ==
  ASSUME NEW a \in Nat, a > 2, NEW r \in Nat, r >= 3, r * r > a,
         \A k \in 2 .. r - 1 : a % k # 0
  PROVE  Prime(a)
<1> SUFFICES \A i \in 2 .. a - 1 : a % i # 0
  BY DEF Prime
<1> SUFFICES ASSUME NEW i \in 2 .. a - 1, a % i = 0
             PROVE  FALSE
  BY Zenon
<1> DEFINE q == a \div i
<1>0. i \in Nat \ {0}
  OBVIOUS
<1>1. q \in Nat /\ a = i * q
  BY <1>0, Quotient
<1>2. i >= r
  OBVIOUS
<1> HIDE DEF q
<1>3. q >= 2
  <2>1. CASE q = 0
    BY <1>1, <2>1, SMT
  <2>2. CASE q = 1
    BY <1>1, <2>2, SMT
  <2> QED
    BY <1>1, <2>1, <2>2
<1>4. q < r
  BY <1>1, <1>2, SMT
<1>5. a % q = 0
  <2>1. a = q * i
    BY <1>1, SMT
  <2> QED
    BY <1>1, <1>3, <2>1, FactorDivides
<1>6. q \in 2 .. r - 1
  BY <1>1, <1>3, <1>4
<1> QED
  BY <1>5, <1>6

-------------------------------------------------------------------------------
(* The loop of _is_prime_handler. *)

(* Inside the loop n is odd, d is the next odd candidate, and nothing      *)
(* below d divides n; before it d is 3, the start of the range.            *)
Searching ==
  /\ n \in Int /\ n > 2 /\ n % 2 # 0
  /\ d \in Nat /\ d >= 3 /\ d % 2 # 0
  /\ \A k \in 2 .. d - 1 : n % k # 0

PrimeInv ==
  /\ n \in Int \cup {NoNumber}
  /\ type = "is_prime" /\ at = "call" => d = 3
  /\ type = "is_prime" /\ at = "loop" => Searching
  /\ PrimeCorrect

(* A call begins with it. *)
LEMMA InitPrime == Init => PrimeInv
BY HandlersAssumption DEF Init, PrimeInv, PrimeCorrect

(* The answers without a loop are right, and the loop starts searching. *)
LEMMA PrimeCallInv == PrimeInv /\ PrimeCall => PrimeInv'
<1> SUFFICES ASSUME PrimeInv, PrimeCall
             PROVE  PrimeInv'
  OBVIOUS
<1>1. n \in Int /\ d = 3 /\ d' = 3 /\ n' = n /\ type' = "is_prime"
  BY HandlersAssumption DEF PrimeInv, PrimeCall, Finish, job
<1>2. CASE n < 2 /\ at' = "returned" /\ isPrime' = FALSE
  BY <1>1, <1>2 DEF PrimeInv, PrimeCorrect, Prime
<1>3. CASE n = 2 /\ at' = "returned" /\ isPrime' = TRUE
  <2>1. Prime(2)
    BY DEF Prime
  <2> QED
    BY <1>1, <1>3, <2>1 DEF PrimeInv, PrimeCorrect
<1>4. CASE n > 2 /\ n % 2 = 0 /\ at' = "returned" /\ isPrime' = FALSE
  <2>1. ~Prime(n)
    BY <1>1, <1>4 DEF Prime
  <2> QED
    BY <1>1, <1>4, <2>1 DEF PrimeInv, PrimeCorrect
<1>5. CASE n > 2 /\ n % 2 # 0 /\ at' = "loop"
  BY <1>1, <1>5 DEF PrimeInv, PrimeCorrect, Searching
<1> QED
  BY <1>2, <1>3, <1>4, <1>5 DEF PrimeCall, Finish

(* An iteration finds a divisor, passes the root, or moves on by two. *)
LEMMA PrimeStepInv == PrimeInv /\ PrimeStep => PrimeInv'
<1> SUFFICES ASSUME PrimeInv, PrimeStep
             PROVE  PrimeInv'
  OBVIOUS
<1>1. Searching /\ n \in Nat /\ d \in Nat \ {0} /\ n' = n /\ type' = "is_prime"
  BY DEF PrimeInv, PrimeStep, Finish, job, Searching
<1>2. CASE PastRoot /\ at' = "returned" /\ isPrime' = TRUE
  <2>1. Prime(n)
    BY <1>1, <1>2, RootSuffices DEF Searching, PastRoot
  <2> QED
    BY <1>1, <1>2, <2>1 DEF PrimeInv, PrimeCorrect
<1>3. CASE ~PastRoot /\ n % d = 0 /\ at' = "returned" /\ isPrime' = FALSE
  <2>1. d \in 2 .. n - 1
    BY <1>1, <1>3, SMT DEF Searching, PastRoot
  <2>2. ~Prime(n)
    BY <1>3, <2>1 DEF Prime
  <2> QED
    BY <1>1, <1>3, <2>2 DEF PrimeInv, PrimeCorrect
<1>4. CASE ~PastRoot /\ n % d # 0 /\ at' = "loop" /\ d' = d + 2
  <2>1. (d + 1) % 2 = 0 /\ d' % 2 # 0
    BY <1>1, <1>4, SMT DEF Searching
  <2>2. n % (d + 1) # 0
    <3>1. d + 1 \in Nat \ {0} /\ n % 2 # 0
      BY <1>1 DEF Searching
    <3> QED
      BY <1>1, <2>1, <3>1, EvenDivisor
  <2>3. ASSUME NEW k \in 2 .. d' - 1
        PROVE  n % k # 0
    <3>1. k \in 2 .. d - 1 \/ k = d \/ k = d + 1
      BY <1>1, <1>4
    <3> QED
      BY <1>1, <1>4, <2>2, <3>1 DEF Searching
  <2>4. Searching'
    <3>1. d' \in Nat /\ d' >= 3
      BY <1>1, <1>4 DEF Searching
    <3> QED
      BY <1>1, <2>1, <2>3, <3>1 DEF Searching
  <2> QED
    BY <1>1, <1>4, <2>4 DEF PrimeInv, PrimeCorrect
<1> QED
  BY <1>2, <1>3, <1>4 DEF PrimeStep, Finish

(* The other handlers answer no question about primes. *)
LEMMA StepPrime == PrimeInv /\ [Next]_vars => PrimeInv'
<1> SUFFICES ASSUME PrimeInv, [Next]_vars
             PROVE  PrimeInv'
  OBVIOUS
<1> USE DEF PrimeInv, PrimeCorrect, Searching, Prime, Finish, job, primeVars
<1>1. CASE Raise
  BY <1>1 DEF Raise
<1>2. CASE Return
  BY <1>2 DEF Return
<1>3. CASE CollatzCall
  BY <1>3 DEF CollatzCall
<1>4. CASE CollatzStep
  BY <1>4 DEF CollatzStep
<1>5. CASE ChainCall
  BY <1>5 DEF ChainCall
<1>6. CASE ChainStep
  BY <1>6 DEF ChainStep
<1>7. CASE UNCHANGED vars
  BY <1>7 DEF vars
<1> QED
  BY <1>1, <1>2, <1>3, <1>4, <1>5, <1>6, <1>7, PrimeCallInv, PrimeStepInv DEF Next

(* is_prime in the result is the truth about n, for every integer.         *)
THEOREM PrimeAlways == Spec => []PrimeCorrect
<1>1. PrimeInv => PrimeCorrect
  BY DEF PrimeInv
<1> QED
  BY <1>1, InitPrime, StepPrime, PTL DEF Spec

-------------------------------------------------------------------------------
(* Types: every number that a handler meets is one. *)
THEOREM HandlersTyped == Spec => []TypeOK
<1>1. Init => TypeOK
  <2>1. (CHOOSE s \in Digests : TRUE) \in Digests
    BY HandlersAssumption
  <2>2. Init => isPrime \in BOOLEAN
    BY Zenon DEF Init
  <2>3. Init => n \in Int \cup {NoNumber} /\ attempt \in Nat
    BY HandlersAssumption DEF Init
  <2> QED
    BY <2>1, <2>2, <2>3 DEF Init, TypeOK
<1>2. TypeOK /\ [Next]_vars => TypeOK'
  <2> SUFFICES ASSUME TypeOK, [Next]_vars
               PROVE  TypeOK'
    OBVIOUS
  <2> USE DEF TypeOK, Finish, job, primeVars, collatzVars, chainVars
  <2>1. CASE Raise \/ Return
    BY <2>1 DEF Raise, Return
  <2>2. CASE PrimeCall
    <3>1. isPrime' \in BOOLEAN
      BY <2>2, Zenon DEF PrimeCall
    <3>2. /\ at' \in {"returned", "loop"} /\ checked' \in Nat
          /\ UNCHANGED <<type, n, seed, attempt, d, cur, steps, top, total, current, rounds>>
      BY <2>2 DEF PrimeCall
    <3> QED
      BY <3>1, <3>2
  <2>3. CASE PrimeStep
    <3>1. isPrime' \in BOOLEAN
      BY <2>3, Zenon DEF PrimeStep
    <3>2. /\ at' \in {"returned", "loop"} /\ checked' \in Nat /\ d' \in Nat
          /\ UNCHANGED <<type, n, seed, attempt, cur, steps, top, total, current, rounds>>
      BY <2>3 DEF PrimeStep
    <3> QED
      BY <3>1, <3>2
  <2>4. CASE CollatzCall
    BY <2>4 DEF CollatzCall
  <2>5. CASE CollatzStep
    <3>1. Successor(cur) \in Int
      <4>1. cur \div 2 \in Int /\ 3 * cur + 1 \in Int
        OBVIOUS
      <4> QED
        BY <4>1 DEF Successor
    <3>2. \A b \in Int : Higher(top, b) \in Int /\ total + b \in Int
      BY DEF Higher
    <3> QED
      BY <2>5, <3>1, <3>2 DEF CollatzStep
  <2>6. CASE ChainCall
    <3>1. n \in Int => Higher(n, 0) \in Nat
      BY DEF Higher
    <3> QED
      BY <2>6, <3>1 DEF ChainCall
  <2>7. CASE ChainStep
    BY <2>7, HandlersAssumption DEF ChainStep
  <2>8. CASE UNCHANGED vars
    BY <2>8 DEF vars
  <2> QED
    BY <2>1, <2>2, <2>3, <2>4, <2>5, <2>6, <2>7, <2>8 DEF Next
<1> QED
  BY <1>1, <1>2, PTL DEF Spec

-------------------------------------------------------------------------------
(* How many candidates were tried. *)

Tried(m) == {i \in 3 .. m - 1 : i % 2 = 1}

LEMMA TriedFacts ==
  ASSUME NEW m \in Nat, m >= 3, m % 2 # 0
  PROVE  /\ IsFiniteSet(Tried(m)) /\ Cardinality(Tried(m)) \in Nat
         /\ Tried(3) = {} /\ Cardinality(Tried(3)) = 0
         /\ Tried(m + 2) = Tried(m) \cup {m} /\ m \notin Tried(m)
         /\ Cardinality(Tried(m) \cup {m}) = Cardinality(Tried(m)) + 1
<1>1. IsFiniteSet(Tried(m))
  <2>1. IsFiniteSet(3 .. m - 1) /\ Tried(m) \subseteq 3 .. m - 1
    BY FS_Interval DEF Tried
  <2> QED
    BY <2>1, FS_Subset
<1>2. Tried(3) = {}
  BY DEF Tried
<1>3. m \notin Tried(m)
  BY DEF Tried
<1>4. Tried(m + 2) = Tried(m) \cup {m}
  <2>1. m % 2 = 1 /\ (m + 1) % 2 # 1
    BY SMT
  <2>2. \A i \in Int : i \in 3 .. m + 2 - 1 <=> i \in 3 .. m - 1 \/ i = m \/ i = m + 1
    OBVIOUS
  <2> QED
    BY <2>1, <2>2 DEF Tried
<1> QED
  BY <1>1, <1>2, <1>3, <1>4, FS_AddElement, FS_EmptySet, FS_CardinalityType

(* In the loop every candidate so far was within the root and counted.     *)
Counted ==
  /\ checked = 1 + Cardinality(Tried(d))
  /\ d > 3 => (d - 2) * (d - 2) <= n

CountInv ==
  /\ type = "is_prime" /\ at = "loop" => Counted
  /\ CheckedCounts

(* Past the root, the candidates are those that were tried; at a divisor,  *)
(* it is the last of them.                                                 *)
LEMMA CandidatesPast ==
  ASSUME Searching, Counted, PastRoot
  PROVE  Candidates = Tried(d)
<1>0. n \in Nat /\ d \in Nat /\ d >= 3 /\ d * d > n
  BY DEF Searching, PastRoot
<1>1. ASSUME NEW i \in Candidates
      PROVE  i \in Tried(d)
  <2>1. i \in Nat /\ i >= 3 /\ i % 2 = 1 /\ i * i <= n
    BY <1>0 DEF Candidates
  <2>2. i < d
    <3> SUFFICES ASSUME i >= d
                 PROVE  FALSE
      BY <1>0, <2>1
    <3>1. i * i >= d * d
      BY <1>0, <2>1, SMT
    <3>2. i * i \in Nat /\ d * d \in Nat
      BY <1>0, <2>1
    <3> QED
      BY <1>0, <2>1, <3>1, <3>2
  <2> QED
    BY <1>0, <2>1, <2>2 DEF Tried
<1>2. ASSUME NEW i \in Tried(d)
      PROVE  i \in Candidates
  <2>1. i \in Nat /\ i >= 3 /\ i <= d - 2 /\ d > 3 /\ i % 2 = 1
    <3>1. i \in Nat /\ i >= 3 /\ i <= d - 1 /\ i % 2 = 1
      BY <1>0 DEF Tried
    <3>2. i # d - 1
      BY <1>0, <3>1 DEF Searching
    <3> QED
      BY <1>0, <3>1, <3>2
  <2>2. i * i <= n
    <3>1. i * i <= (d - 2) * (d - 2) /\ i * i \in Nat /\ (d - 2) * (d - 2) \in Nat
      BY <1>0, <2>1, SMT
    <3>2. (d - 2) * (d - 2) <= n
      BY <2>1 DEF Counted
    <3> QED
      BY <1>0, <3>1, <3>2
  <2>3. i <= n
    <3>1. i <= i * i /\ i * i \in Nat
      BY <2>1, SMT
    <3> QED
      BY <1>0, <2>1, <2>2, <3>1
  <2>4. \A k \in 3 .. i - 1 : n % k # 0
    <3>1. \A k \in 3 .. i - 1 : k \in 2 .. d - 1
      BY <1>0, <2>1
    <3> QED
      BY <3>1, Zenon DEF Searching
  <2>5. i \in 3 .. n
    BY <1>0, <2>1, <2>3
  <2> QED
    BY <2>1, <2>2, <2>4, <2>5, Zenon DEF Candidates
<1> QED
  BY <1>1, <1>2

LEMMA CandidatesAt ==
  ASSUME Searching, Counted, ~PastRoot, n % d = 0
  PROVE  Candidates = Tried(d) \cup {d}
<1>0. n \in Nat /\ d \in Nat /\ d >= 3 /\ d * d <= n /\ d % 2 = 1
  BY SMT DEF Searching, PastRoot
<1>1. ASSUME NEW i \in Candidates
      PROVE  i \in Tried(d) \cup {d}
  <2>1. i \in Nat /\ i >= 3 /\ i % 2 = 1
    BY <1>0 DEF Candidates
  <2>2. i <= d
    <3> SUFFICES ASSUME i > d
                 PROVE  FALSE
      BY <1>0, <2>1
    <3>1. d \in 3 .. i - 1
      BY <1>0, <2>1
    <3>2. \A k \in 3 .. i - 1 : k % 2 = 1 => n % k # 0
      BY Zenon DEF Candidates
    <3> QED
      BY <1>0, <3>1, <3>2, Zenon
  <2>3. i # d => i \in 3 .. d - 1
    BY <1>0, <2>1, <2>2
  <2> QED
    BY <2>1, <2>3, Zenon DEF Tried
<1>2. \A k \in 2 .. d - 1 : n % k # 0
  BY DEF Searching
<1>3. d \in Candidates
  <2>1. d <= n
    <3>1. d <= d * d /\ d * d \in Nat
      BY <1>0, SMT
    <3> QED
      BY <1>0, <3>1
  <2>2. d \in 3 .. n /\ \A k \in 3 .. d - 1 : k \in 2 .. d - 1
    BY <1>0, <2>1
  <2> QED
    BY <1>0, <1>2, <2>2, Zenon DEF Candidates
<1>4. ASSUME NEW i \in Tried(d)
      PROVE  i \in Candidates
  <2>1. i \in Nat /\ i >= 3 /\ i < d /\ i % 2 = 1
    BY <1>0 DEF Tried
  <2>2. i * i <= n /\ i <= n
    <3>1. i <= i * i /\ i * i <= d * d /\ i * i \in Nat /\ d * d \in Nat
      BY <1>0, <2>1, SMT
    <3> QED
      BY <1>0, <2>1, <3>1
  <2>3. i \in 3 .. n /\ \A k \in 3 .. i - 1 : k \in 2 .. d - 1
    BY <1>0, <2>1, <2>2
  <2> QED
    BY <1>2, <2>1, <2>2, <2>3, Zenon DEF Candidates
<1> QED
  BY <1>1, <1>3, <1>4

LEMMA InitCount == Init => CountInv
BY DEF Init, CountInv, CheckedCounts

LEMMA PrimeCallCount == PrimeInv /\ CountInv /\ PrimeCall => CountInv'
<1> SUFFICES ASSUME PrimeInv, PrimeCall
             PROVE  CountInv'
  OBVIOUS
<1>1. n \in Int /\ d = 3 /\ d' = 3 /\ n' = n
  BY HandlersAssumption DEF PrimeInv, PrimeCall, Finish, job
<1>2. CASE n > 2 /\ n % 2 # 0 /\ at' = "loop" /\ checked' = 1
  <2>1. Cardinality(Tried(3)) = 0
    <3>1. Tried(3) = {}
      BY DEF Tried
    <3> QED
      BY <3>1, FS_EmptySet
  <2> QED
    BY <1>1, <1>2, <2>1 DEF CountInv, Counted, CheckedCounts
<1>3. CASE n < 2 /\ at' = "returned" /\ checked' = 0
  BY <1>1, <1>3 DEF CountInv, CheckedCounts
<1>4. CASE n >= 2 /\ n % 2 = 0 /\ at' = "returned" /\ checked' = 1
  BY <1>1, <1>4 DEF CountInv, CheckedCounts
<1> QED
  BY <1>1, <1>2, <1>3, <1>4 DEF PrimeCall, Finish

LEMMA PrimeStepCount == PrimeInv /\ CountInv /\ PrimeStep => CountInv'
<1> SUFFICES ASSUME PrimeInv, CountInv, PrimeStep
             PROVE  CountInv'
  OBVIOUS
<1>0. Searching /\ Counted
  BY DEF PrimeInv, CountInv, PrimeStep
<1>1. /\ n \in Nat /\ n > 2 /\ n % 2 # 0 /\ n' = n
      /\ d \in Nat /\ d >= 3 /\ d % 2 # 0
  BY <1>0 DEF PrimeStep, Finish, job, Searching
<1>2. CASE PastRoot /\ at' = "returned" /\ UNCHANGED <<d, checked>>
  <2>1. checked' = 1 + Cardinality(Candidates)
    BY <1>0, <1>2, CandidatesPast DEF Counted
  <2>2. Candidates' = Candidates
    BY <1>1 DEF Candidates
  <2> QED
    BY <1>1, <1>2, <2>1, <2>2 DEF CountInv, CheckedCounts
<1>3. CASE ~PastRoot /\ n % d = 0 /\ at' = "returned" /\ checked' = checked + 1
  <2>1. /\ checked = 1 + Cardinality(Tried(d)) /\ Cardinality(Tried(d)) \in Nat
        /\ Cardinality(Candidates) = Cardinality(Tried(d)) + 1
    BY <1>0, <1>1, <1>3, CandidatesAt, TriedFacts DEF Counted
  <2>2. checked' = 1 + Cardinality(Candidates)
    BY <1>3, <2>1
  <2>3. Candidates' = Candidates
    BY <1>1 DEF Candidates
  <2> QED
    BY <1>1, <1>3, <2>2, <2>3 DEF CountInv, CheckedCounts
<1>4. CASE ~PastRoot /\ at' = "loop" /\ d' = d + 2 /\ checked' = checked + 1
  <2>1. /\ checked = 1 + Cardinality(Tried(d)) /\ Cardinality(Tried(d)) \in Nat
        /\ Cardinality(Tried(d + 2)) = Cardinality(Tried(d)) + 1
    BY <1>0, <1>1, TriedFacts DEF Counted
  <2>2. checked' = 1 + Cardinality(Tried(d'))
    BY <1>4, <2>1
  <2>3. (d' - 2) * (d' - 2) <= n'
    <3>1. d' - 2 = d /\ d * d <= n
      BY <1>1, <1>4, SMT DEF PastRoot
    <3> QED
      BY <1>1, <3>1
  <2> QED
    BY <1>4, <2>2, <2>3 DEF CountInv, Counted, CheckedCounts
<1> QED
  BY <1>2, <1>3, <1>4 DEF PrimeStep, Finish

(* divisors_checked is the number of candidates up to the root or the      *)
(* least divisor, for every integer.                                       *)
THEOREM CountsRight == Spec => []CheckedCounts
<1>1. PrimeInv /\ CountInv /\ [Next]_vars => CountInv'
  <2> SUFFICES ASSUME PrimeInv, CountInv, [Next]_vars
               PROVE  CountInv'
    OBVIOUS
  <2>1. CASE PrimeCall \/ PrimeStep
    BY <2>1, PrimeCallCount, PrimeStepCount
  <2>2. CASE Raise \/ Return \/ CollatzCall \/ CollatzStep \/ ChainCall \/ ChainStep
    <3>1. (type' # "is_prime" \/ at' = "raised") /\ UNCHANGED type
      BY <2>2 DEF Raise, Return, CollatzCall, CollatzStep, ChainCall, ChainStep, Finish, job
    <3> QED
      BY <3>1 DEF CountInv, CheckedCounts
  <2>3. CASE UNCHANGED vars
    BY <2>3 DEF vars, job, primeVars, CountInv, Counted, CheckedCounts, Candidates
  <2> QED
    BY <2>1, <2>2, <2>3 DEF Next
<1>2. CountInv => CheckedCounts
  BY DEF CountInv
<1> QED
  BY <1>1, <1>2, InitPrime, StepPrime, InitCount, PTL DEF Spec
-------------------------------------------------------------------------------
(* The sum of a finite sequence.                                           *)

(* What FoldFunction adds up in some order is the last of the partial      *)
(* sums.                                                                   *)
LEMMA PathSum ==
  ASSUME NEW k \in Nat, NEW p \in [0 .. k -> Int], NEW t \in [0 .. k -> Int],
         t[0] = p[0], \A i \in 0 .. k - 1 : t[i + 1] = t[i] + p[i + 1]
  PROVE  FoldFunction(+, 0, p) = t[k]
<1> DEFINE S == 0 .. k
           V == [SUBSET S -> Int]
           zero == [s \in SUBSET S |-> 0]
           step == [i \in Nat |-> [F \in V |->
                      [s \in SUBSET S |-> F[s] + IF i \in s THEN p[i] ELSE 0]]]
<1>0. /\ \A i : i \in S <=> i \in Nat /\ i <= k
      /\ p \in [S -> Int] /\ t \in [S -> Int] /\ IsFiniteSet(S)
  BY FS_Interval, SMTT(20)
<1> HIDE DEF S
(* H[j][s] is the sum of those below j. *)
<1>1. PICK H \in [0 .. k + 1 -> V] : /\ H[0] = zero
                                     /\ \A i \in S : H[i + 1] = step[i][H[i]]
  <2>1. zero \in V
    OBVIOUS
  <2>2. ASSUME NEW i \in Nat, NEW F \in V
        PROVE  [s \in SUBSET S |-> F[s] + IF i \in s THEN p[i] ELSE 0] \in V
    <3>1. ASSUME NEW s \in SUBSET S
          PROVE  F[s] + (IF i \in s THEN p[i] ELSE 0) \in Int
      <4>1. F[s] \in Int
        OBVIOUS
      <4>2. CASE i \in s
        <5>1. p[i] \in Int
          BY <1>0, <4>2
        <5> QED
          BY <4>1, <4>2, <5>1
      <4>3. CASE i \notin s
        BY <4>1, <4>3
      <4> QED
        BY <4>2, <4>3
    <3> QED
      BY <3>1
  <2>3. step \in [Nat -> [V -> V]]
    <3> HIDE DEF V
    <3> QED
      BY <2>2
  <2> HIDE DEF step, zero, V
  <2>4. k + 1 \in Nat /\ \A i : i \in 0 .. (k + 1) - 1 <=> i \in S
    BY <1>0
  <2>5. PICK H \in [0 .. k + 1 -> V] : /\ H[0] = zero
                                       /\ \A i \in 0 .. (k + 1) - 1 : H[i + 1] = step[i][H[i]]
    <3>1. Sequels(V, zero, step, k + 1) # {}
      BY <2>1, <2>3, <2>4, Recursion
    <3> QED
      BY <3>1 DEF Sequels
  <2> QED
    BY <2>4, <2>5
<1>2. \A j \in 0 .. k + 1 : H[j] \in [SUBSET S -> Int]
  BY <1>1
<1>3. \A j \in 0 .. k + 1 : \A s \in SUBSET S : H[j][s] \in Int
  BY <1>2
<1>4. \A s \in SUBSET S : H[0][s] = 0
  BY <1>1
<1>5. ASSUME NEW i \in S, NEW s \in SUBSET S
      PROVE  H[i + 1][s] = H[i][s] + IF i \in s THEN p[i] ELSE 0
  <2>1. i \in Nat /\ i \in 0 .. k + 1
    BY <1>0
  <2>2. H[i] \in V /\ H[i + 1] = step[i][H[i]]
    BY <1>1, <2>1
  <2>3. step[i][H[i]] = [u \in SUBSET S |-> H[i][u] + IF i \in u THEN p[i] ELSE 0]
    <3> HIDE DEF V
    <3> QED
      BY <2>1, <2>2
  <2> QED
    BY <2>2, <2>3
<1> HIDE DEF V, zero, step
<1>6. \A j \in 0 .. k + 1 : H[j][{}] = 0
  <2> DEFINE T == {j \in 0 .. k + 1 : H[j][{}] = 0}
  <2>1. 0 \in T
    BY <1>4
  <2>2. ASSUME NEW i \in 0 .. (k + 1) - 1, i \in T
        PROVE  i + 1 \in T
    <3>1. i \in S /\ i + 1 \in 0 .. k + 1
      BY <1>0
    <3>2. H[i + 1][{}] = H[i][{}] + 0
      BY <1>5, <3>1
    <3> QED
      BY <2>2, <3>1, <3>2
  <2> HIDE DEF T
  <2>3. \A j \in 0 .. k + 1 : j \in T
    BY <2>1, <2>2, k + 1 \in Nat, InductionUpTo
  <2> QED
    BY <2>3 DEF T
<1>7. ASSUME NEW s \in SUBSET S, NEW x \in s
      PROVE  \A j \in 0 .. k + 1 : H[j][s] = H[j][s \ {x}] + IF x < j THEN p[x] ELSE 0
  <2> DEFINE T == {j \in 0 .. k + 1 : H[j][s] = H[j][s \ {x}] + IF x < j THEN p[x] ELSE 0}
  <2>0. x \in S /\ x \in Nat /\ s \ {x} \in SUBSET S /\ p[x] \in Int
    BY <1>0
  <2>1. 0 \in T
    <3>1. H[0][s] = 0 /\ H[0][s \ {x}] = 0
      BY <1>4, <2>0
    <3>2. 0 \in 0 .. k + 1 /\ ~(x < 0)
      BY <2>0
    <3>3. H[0][s] = H[0][s \ {x}] + IF x < 0 THEN p[x] ELSE 0
      BY <3>1, <3>2
    <3> QED
      BY <3>2, <3>3
  <2>2. ASSUME NEW i \in 0 .. (k + 1) - 1, i \in T
        PROVE  i + 1 \in T
    <3>1. /\ i \in S /\ i \in Nat /\ i + 1 \in 0 .. k + 1 /\ i \in 0 .. k + 1
          /\ p[i] \in Int /\ H[i][s] \in Int /\ H[i][s \ {x}] \in Int
      <4>1. i \in S /\ i \in Nat /\ i + 1 \in 0 .. k + 1 /\ i \in 0 .. k + 1
        BY <1>0
      <4> QED
        BY <1>0, <1>3, <2>0, <4>1
    <3>2. H[i + 1][s] = H[i][s] + IF i \in s THEN p[i] ELSE 0
      BY <1>5, <3>1
    <3>3. H[i + 1][s \ {x}] = H[i][s \ {x}] + IF i \in s \ {x} THEN p[i] ELSE 0
      BY <1>5, <2>0, <3>1
    <3>4. H[i][s] = H[i][s \ {x}] + IF x < i THEN p[x] ELSE 0
      BY <2>2
    <3> DEFINE a == H[i][s]
               b == H[i][s \ {x}]
               c == p[i]
               e == p[x]
    <3>5. a \in Int /\ b \in Int /\ c \in Int /\ e \in Int
      BY <2>0, <3>1
    <3>6. H[i + 1][s] = a + (IF i \in s THEN c ELSE 0)
      BY <3>2
    <3>7. H[i + 1][s \ {x}] = b + (IF i \in s \ {x} THEN c ELSE 0)
      BY <3>3
    <3>8. a = b + (IF x < i THEN e ELSE 0)
      BY <3>4
    <3>9. x = i => c = e
      OBVIOUS
    <3> HIDE DEF a, b, c, e
    <3>10. H[i + 1][s] = H[i + 1][s \ {x}] + IF x < i + 1 THEN e ELSE 0
      <4>1. CASE x = i
        <5>1. H[i + 1][s] = a + c /\ H[i + 1][s \ {x}] = b + 0 /\ a = b + 0
          BY <3>1, <3>6, <3>7, <3>8, <4>1
        <5> QED
          BY <3>1, <3>5, <3>9, <4>1, <5>1
      <4>2. CASE x # i
        <5>1. (i \in s) <=> (i \in s \ {x})
          BY <4>2
        <5>2. (x < i + 1) <=> (x < i)
          BY <2>0, <3>1, <4>2
        <5>3. CASE i \in s
          <6>1. H[i + 1][s] = a + c /\ H[i + 1][s \ {x}] = b + c
            BY <3>6, <3>7, <5>1, <5>3
          <6> QED
            BY <3>5, <3>8, <5>2, <6>1
        <5>4. CASE i \notin s
          <6>1. H[i + 1][s] = a + 0 /\ H[i + 1][s \ {x}] = b + 0
            BY <3>6, <3>7, <5>1, <5>4
          <6> QED
            BY <3>5, <3>8, <5>2, <6>1
        <5> QED
          BY <5>3, <5>4
      <4> QED
        BY <4>1, <4>2
    <3> QED
      BY <3>1, <3>10 DEF e
  <2> HIDE DEF T
  <2>3. \A j \in 0 .. k + 1 : j \in T
    BY <2>1, <2>2, k + 1 \in Nat, InductionUpTo
  <2> QED
    BY <2>3 DEF T
<1>8. \A j \in 0 .. k : H[j + 1][S] = t[j]
  <2> DEFINE T == {j \in 0 .. k : H[j + 1][S] = t[j]}
  <2>0. \A i \in S : H[i + 1][S] = H[i][S] + p[i]
    BY <1>5
  <2>1. 0 \in T
    <3>1. 0 \in S /\ S \in SUBSET S /\ p[0] \in Int /\ 0 \in 0 .. k
      BY <1>0
    <3>2. H[0 + 1][S] = 0 + p[0]
      BY <1>4, <2>0, <3>1
    <3> QED
      BY <3>1, <3>2
  <2>2. ASSUME NEW i \in 0 .. k - 1, i \in T
        PROVE  i + 1 \in T
    <3>1. i + 1 \in 0 .. k /\ i + 1 \in S
      BY <1>0
    <3>2. H[(i + 1) + 1][S] = H[i + 1][S] + p[i + 1]
      BY <2>0, <3>1
    <3> QED
      BY <2>2, <3>1, <3>2
  <2> HIDE DEF T
  <2>3. \A j \in 0 .. k : j \in T
    BY <2>1, <2>2, InductionUpTo
  <2> QED
    BY <2>3 DEF T
(* So the last H obeys the fold, and nothing else does. *)
<1> DEFINE Folds(G) == G = [s \in SUBSET S |->
                              IF s = {} THEN 0
                              ELSE p[CHOOSE x \in s : TRUE] + G[s \ {CHOOSE x \in s : TRUE}]]
           F == H[k + 1]
<1>9. F[{}] = 0 /\ F[S] = t[k]
  BY <1>6, <1>8
<1>10. ASSUME NEW s \in SUBSET S, NEW x \in s
       PROVE  F[s] = p[x] + F[s \ {x}]
  <2>1. x \in S /\ x \in Nat /\ p[x] \in Int /\ x < k + 1 /\ s \ {x} \in SUBSET S
    BY <1>0
  <2>2. k + 1 \in 0 .. k + 1
    OBVIOUS
  <2>3. F[s \ {x}] \in Int
    BY <1>3, <2>1, <2>2
  <2>4. F[s] = F[s \ {x}] + IF x < k + 1 THEN p[x] ELSE 0
    BY <1>7, <2>2
  <2> HIDE DEF F
  <2> QED
    BY <2>1, <2>3, <2>4
<1>11. Folds(F)
  <2>1. F \in [SUBSET S -> Int]
    <3>1. k + 1 \in 0 .. k + 1
      OBVIOUS
    <3> QED
      BY <1>2, <3>1
  <2>2. ASSUME NEW s \in SUBSET S, s # {}
        PROVE  F[s] = p[CHOOSE x \in s : TRUE] + F[s \ {CHOOSE x \in s : TRUE}]
    <3>1. (CHOOSE x \in s : TRUE) \in s
      BY <2>2
    <3> HIDE DEF F
    <3> QED
      BY <1>10, <3>1
  <2> HIDE DEF F
  <2> QED
    BY <1>9, <2>1, <2>2
<1> HIDE DEF F
<1>12. ASSUME NEW G, Folds(G)
       PROVE  G[S] = F[S]
  <2> DEFINE T == {m \in Nat : \A s \in SUBSET S : Cardinality(s) = m => G[s] = F[s]}
  <2>0. \A s \in SUBSET S : IsFiniteSet(s) /\ Cardinality(s) \in Nat
    BY <1>0, FS_Subset, FS_CardinalityType
  <2>1. 0 \in T
    <3>1. \A s \in SUBSET S : Cardinality(s) = 0 => s = {}
      BY <2>0, FS_EmptySet
    <3>2. G[{}] = 0
      BY <1>12
    <3> QED
      BY <1>9, <3>1, <3>2
  <2>2. ASSUME NEW m \in T
        PROVE  m + 1 \in T
    <3>1. ASSUME NEW s \in SUBSET S, Cardinality(s) = m + 1
          PROVE  G[s] = F[s]
      <4>1. s # {}
        <5>1. m + 1 # 0
          OBVIOUS
        <5> QED
          BY <3>1, <5>1, FS_EmptySet
      <4> DEFINE x == CHOOSE y \in s : TRUE
      <4>2. x \in s
        BY <4>1
      <4>3. G[s] = p[x] + G[s \ {x}]
        BY <1>12, <4>1
      <4> HIDE DEF x
      <4>4. Cardinality(s \ {x}) = m /\ s \ {x} \in SUBSET S
        <5>1. Cardinality(s \ {x}) = Cardinality(s) - 1
          BY <2>0, <4>2, FS_RemoveElement
        <5> QED
          BY <3>1, <5>1
      <4>5. G[s \ {x}] = F[s \ {x}]
        BY <4>4
      <4>6. F[s] = p[x] + F[s \ {x}]
        BY <1>10, <4>2
      <4> QED
        BY <4>3, <4>5, <4>6
    <3> QED
      BY <3>1
  <2>3. T = Nat
    <3>1. T \in SUBSET Nat
      OBVIOUS
    <3> HIDE DEF T
    <3> QED
      BY <2>1, <2>2, <3>1, Induction
  <2>4. Cardinality(S) \in Nat /\ S \in SUBSET S
    BY <2>0
  <2> QED
    BY <2>3, <2>4
<1>13. FoldFunction(+, 0, p) = (CHOOSE G : Folds(G))[S]
  <2>1. DOMAIN p = S
    BY DEF S
  <2> QED
    BY <2>1 DEF FoldFunction, FoldFunctionOnSet, MapThenFoldSet
<1> HIDE DEF Folds
<1>14. Folds(CHOOSE G : Folds(G))
  BY <1>11
<1> QED
  BY <1>9, <1>12, <1>13, <1>14

-------------------------------------------------------------------------------
(* _collatz_handler.  The sequence f of n and its partial sums t are there *)
(* before the loop runs through them.                                      *)

IsOrbit(f) ==
  /\ f \in [0 .. MaxSteps -> Int]
  /\ f[0] = n
  /\ \A i \in 0 .. MaxSteps - 1 : f[i + 1] = Successor(f[i])

AreSums(t, f) ==
  /\ t \in [0 .. MaxSteps -> Int]
  /\ t[0] = f[0]
  /\ \A i \in 0 .. MaxSteps - 1 : t[i + 1] = t[i] + f[i + 1]

Along(f, t) ==
  /\ steps \in 0 .. MaxSteps
  /\ cur = f[steps] /\ total = t[steps]
  /\ \A i \in 0 .. steps : (i # steps => f[i] # 1) /\ f[i] <= top
  /\ \E i \in 0 .. steps : top = f[i]
  /\ at = "returned" => cur = 1

CollatzInv ==
  type = "collatz" /\ at \in {"loop", "returned"} =>
    n \in Int /\ \E f, t : IsOrbit(f) /\ AreSums(t, f) /\ Along(f, t)

(* They exist. *)
LEMMA OrbitExists ==
  ASSUME n \in Int
  PROVE  \E f, t : IsOrbit(f) /\ AreSums(t, f)
<1> DEFINE next == [i \in Nat |-> [v \in Int |-> Successor(v)]]
<1>1. next \in [Nat -> [Int -> Int]]
  <2>1. \A v \in Int : Successor(v) \in Int
    BY DEF Successor
  <2> QED
    BY <2>1
<1>2. PICK f : f \in Sequels(Int, n, next, MaxSteps)
  <2> HIDE DEF next
  <2>1. MaxSteps \in Nat
    BY HandlersAssumption
  <2>2. Sequels(Int, n, next, MaxSteps) # {}
    BY <1>1, <2>1, Recursion
  <2> QED
    BY <2>2
<1>3. IsOrbit(f)
  <2>1. /\ f \in [0 .. MaxSteps -> Int] /\ f[0] = n
        /\ \A i \in 0 .. MaxSteps - 1 : f[i + 1] = next[i][f[i]]
    <3> HIDE DEF next
    <3> QED
      BY <1>2 DEF Sequels
  <2>2. ASSUME NEW i \in 0 .. MaxSteps - 1
        PROVE  next[i][f[i]] = Successor(f[i])
    <3>1. i \in Nat /\ f[i] \in Int
      BY <2>1, HandlersAssumption
    <3> QED
      BY <3>1
  <2> HIDE DEF next
  <2> QED
    BY <2>1, <2>2 DEF IsOrbit
<1> DEFINE add == [i \in Nat |-> [v \in Int |-> v + IF i < MaxSteps THEN f[i + 1] ELSE 0]]
<1>4. add \in [Nat -> [Int -> Int]] /\ f[0] \in Int
  <2>1. ASSUME NEW i \in Nat, NEW v \in Int
        PROVE  v + (IF i < MaxSteps THEN f[i + 1] ELSE 0) \in Int
    <3>1. i < MaxSteps => f[i + 1] \in Int
      BY <1>3, HandlersAssumption DEF IsOrbit
    <3> QED
      BY <3>1
  <2>2. f[0] \in Int
    BY <1>3, HandlersAssumption DEF IsOrbit
  <2> QED
    BY <2>1, <2>2
<1>5. PICK t : t \in Sequels(Int, f[0], add, MaxSteps)
  <2> HIDE DEF add
  <2>1. MaxSteps \in Nat
    BY HandlersAssumption
  <2>2. Sequels(Int, f[0], add, MaxSteps) # {}
    BY <1>4, <2>1, Recursion
  <2> QED
    BY <2>2
<1>6. AreSums(t, f)
  <2>1. /\ t \in [0 .. MaxSteps -> Int] /\ t[0] = f[0]
        /\ \A i \in 0 .. MaxSteps - 1 : t[i + 1] = add[i][t[i]]
    <3> HIDE DEF add
    <3> QED
      BY <1>5 DEF Sequels
  <2>2. ASSUME NEW i \in 0 .. MaxSteps - 1
        PROVE  add[i][t[i]] = t[i] + f[i + 1]
    <3>1. i \in Nat /\ t[i] \in Int /\ i < MaxSteps
      BY <2>1, HandlersAssumption
    <3> QED
      BY <3>1
  <2> HIDE DEF add
  <2> QED
    BY <2>1, <2>2 DEF AreSums
<1> QED
  BY <1>3, <1>6

LEMMA CollatzCallInv == PrimeInv /\ CollatzCall => CollatzInv'
<1> SUFFICES ASSUME PrimeInv, CollatzCall
             PROVE  CollatzInv'
  OBVIOUS
<1>1. n \in Int /\ n' = n /\ cur' = n /\ steps' = 0 /\ top' = n /\ total' = n /\ at' = "loop"
  BY DEF PrimeInv, CollatzCall, Finish, job
<1>2. PICK f, t : IsOrbit(f) /\ AreSums(t, f)
  BY <1>1, OrbitExists
<1>3. IsOrbit(f)' /\ AreSums(t, f)'
  BY <1>1, <1>2 DEF IsOrbit, AreSums
<1>4. Along(f, t)'
  BY <1>1, <1>2, HandlersAssumption DEF Along, IsOrbit, AreSums
<1> QED
  BY <1>1, <1>3, <1>4 DEF CollatzInv

LEMMA CollatzStepInv == CollatzInv /\ CollatzStep => CollatzInv'
<1> SUFFICES ASSUME CollatzInv, CollatzStep
             PROVE  CollatzInv'
  OBVIOUS
<1>0. n \in Int /\ n' = n /\ at = "loop"
  BY DEF CollatzInv, CollatzStep, Finish, job
<1>1. PICK f, t : IsOrbit(f) /\ AreSums(t, f) /\ Along(f, t)
  BY DEF CollatzInv, CollatzStep
<1>2. IsOrbit(f)' /\ AreSums(t, f)'
  BY <1>0, <1>1 DEF IsOrbit, AreSums
<1>3. Along(f, t)'
  <2>1. CASE cur = 1
    <3>1. UNCHANGED collatzVars
      BY <2>1 DEF CollatzStep
    <3> QED
      BY <1>1, <2>1, <3>1 DEF Along, collatzVars
  <2>2. CASE cur # 1
    <3>1. /\ steps < MaxSteps /\ cur' = Successor(cur) /\ steps' = steps + 1
          /\ top' = Higher(top, cur') /\ total' = total + cur' /\ at' = "loop"
      BY <2>2 DEF CollatzStep, Finish
    <3>2. steps \in Nat /\ MaxSteps \in Nat /\ steps \in 0 .. MaxSteps - 1 /\ steps' \in 0 .. MaxSteps
      BY <1>1, <3>1, HandlersAssumption DEF Along
    <3>3. cur' = f[steps'] /\ total' = t[steps']
      BY <1>1, <3>1, <3>2 DEF Along, IsOrbit, AreSums
    <3>4. \A i \in 0 .. steps : f[i] \in Int /\ f[i] # 1 /\ f[i] <= top
      BY <1>1, <2>2, <3>2 DEF Along, IsOrbit
    <3>5. cur' \in Int /\ top \in Int
      BY <1>1, <3>2, <3>3, <3>4 DEF Along, IsOrbit
    <3>6. top <= top' /\ cur' <= top' /\ top' \in {top, cur'}
      BY <3>1, <3>5 DEF Higher
    <3>7. \A i \in 0 .. steps' : i \in 0 .. steps \/ i = steps'
      BY <3>1, <3>2
    <3>8. \A i \in 0 .. steps' : (i # steps' => f[i] # 1) /\ f[i] <= top'
      BY <3>3, <3>4, <3>5, <3>6, <3>7
    <3>9. \E i \in 0 .. steps' : top' = f[i]
      BY <1>1, <3>1, <3>2, <3>3, <3>6 DEF Along
    <3> QED
      BY <3>1, <3>2, <3>3, <3>8, <3>9 DEF Along
  <2> QED
    BY <2>1, <2>2
<1> QED
  BY <1>0, <1>2, <1>3 DEF CollatzInv

(* The recursive definition of the sequence has one solution. *)
LEMMA OrbitIs ==
  ASSUME n \in Int, NEW f, IsOrbit(f)
  PROVE  \A i \in 0 .. MaxSteps : Orbit[i] = f[i]
<1> DEFINE Solves(g) == g = [i \in 0 .. MaxSteps |-> IF i = 0 THEN n ELSE Successor(g[i - 1])]
<1>1. Solves(f)
  <2>1. ASSUME NEW i \in 0 .. MaxSteps
        PROVE  f[i] = IF i = 0 THEN n ELSE Successor(f[i - 1])
    <3>1. CASE i = 0
      BY <3>1 DEF IsOrbit
    <3>2. CASE i # 0
      <4>1. i - 1 \in 0 .. MaxSteps - 1 /\ (i - 1) + 1 = i
        BY <3>2, HandlersAssumption
      <4> QED
        BY <3>2, <4>1 DEF IsOrbit
    <3> QED
      BY <3>1, <3>2
  <2> QED
    BY <2>1 DEF IsOrbit
<1>2. Orbit = CHOOSE g : Solves(g)
  BY DEF Orbit
<1>3. Solves(Orbit)
  <2> HIDE DEF Solves
  <2> QED
    BY <1>1, <1>2
<1> DEFINE T == {i \in 0 .. MaxSteps : Orbit[i] = f[i]}
<1>4. 0 \in T
  BY <1>3, HandlersAssumption DEF IsOrbit
<1>5. ASSUME NEW i \in 0 .. MaxSteps - 1, i \in T
      PROVE  i + 1 \in T
  <2>1. i + 1 \in 0 .. MaxSteps /\ i + 1 # 0 /\ (i + 1) - 1 = i
    BY HandlersAssumption
  <2>2. Orbit[i + 1] = Successor(Orbit[i])
    BY <1>3, <2>1
  <2> QED
    BY <1>5, <2>1, <2>2 DEF IsOrbit
<1> HIDE DEF T
<1>6. \A i \in 0 .. MaxSteps : i \in T
  BY <1>4, <1>5, HandlersAssumption, InductionUpTo
<1> QED
  BY <1>6 DEF T

LEMMA CollatzAnswers == CollatzInv => CollatzCorrect
<1> SUFFICES ASSUME CollatzInv, at = "returned", type = "collatz"
             PROVE  LET path == [i \in 0 .. steps |-> Orbit[i]]
                    IN  /\ \A i \in 0 .. steps : path[i] = 1 <=> i = steps
                        /\ top \in Range(path) /\ \A i \in 0 .. steps : path[i] <= top
                        /\ total = FoldFunction(+, 0, path)
  BY DEF CollatzCorrect
<1> DEFINE path == [i \in 0 .. steps |-> Orbit[i]]
<1>1. n \in Int
  BY DEF CollatzInv
<1>2. PICK f, t : IsOrbit(f) /\ AreSums(t, f) /\ Along(f, t)
  BY DEF CollatzInv
<1>3. /\ steps \in Nat /\ MaxSteps \in Nat /\ steps <= MaxSteps
      /\ \A i \in 0 .. steps : i \in 0 .. MaxSteps
  BY <1>2, HandlersAssumption DEF Along
<1>4. \A i \in 0 .. steps : path[i] = f[i] /\ path[i] \in Int
  BY <1>1, <1>2, <1>3, OrbitIs DEF IsOrbit
<1>5. path \in [0 .. steps -> Int]
  BY <1>4
<1>6. DOMAIN path = 0 .. steps
  OBVIOUS
<1> HIDE DEF path
<1>7. \A i \in 0 .. steps : path[i] = 1 <=> i = steps
  BY <1>2, <1>3, <1>4 DEF Along
<1>8. top \in Range(path) /\ \A i \in 0 .. steps : path[i] <= top
  BY <1>2, <1>4, <1>6 DEF Along, Range
<1>9. total = FoldFunction(+, 0, path)
  <2> DEFINE sums == [i \in 0 .. steps |-> t[i]]
  <2>1. sums \in [0 .. steps -> Int]
    BY <1>2, <1>3 DEF AreSums
  <2>2. sums[0] = path[0]
    BY <1>2, <1>3, <1>4 DEF AreSums
  <2>3. ASSUME NEW i \in 0 .. steps - 1
        PROVE  sums[i + 1] = sums[i] + path[i + 1]
    <3>1. i \in 0 .. steps /\ i + 1 \in 0 .. steps /\ i \in 0 .. MaxSteps - 1
      BY <1>3
    <3> QED
      BY <1>2, <1>4, <3>1 DEF AreSums
  <2>4. sums[steps] = total
    BY <1>2, <1>3 DEF Along
  <2> HIDE DEF sums
  <2>5. FoldFunction(+, 0, path) = sums[steps]
    BY <1>3, <1>5, <2>1, <2>2, <2>3, PathSum
  <2> QED
    BY <2>4, <2>5
<1> QED
  BY <1>7, <1>8, <1>9 DEF path

(* What collatz answers is the 3n + 1 sequence up to its first 1, its      *)
(* maximum and its sum, whatever number it is called with.                 *)
THEOREM CollatzAlways == Spec => []CollatzCorrect
<1>1. Init => CollatzInv
  BY DEF Init, CollatzInv
<1>2. PrimeInv /\ CollatzInv /\ [Next]_vars => CollatzInv'
  <2> SUFFICES ASSUME PrimeInv, CollatzInv, [Next]_vars
               PROVE  CollatzInv'
    OBVIOUS
  <2>1. CASE CollatzCall
    BY <2>1, CollatzCallInv
  <2>2. CASE CollatzStep
    BY <2>2, CollatzStepInv
  <2>3. CASE Raise \/ Return \/ PrimeCall \/ PrimeStep \/ ChainCall \/ ChainStep
    <3>1. (type' = "collatz" /\ at' \in {"loop", "returned"}) => FALSE
      BY <2>3 DEF Raise, Return, PrimeCall, PrimeStep, ChainCall, ChainStep, Finish, job
    <3> QED
      BY <3>1 DEF CollatzInv
  <2>4. CASE UNCHANGED vars
    BY <2>4 DEF vars, job, primeVars, collatzVars, chainVars, CollatzInv, IsOrbit, AreSums, Along
  <2> QED
    BY <2>1, <2>2, <2>3, <2>4 DEF Next
<1>3. Spec => []PrimeInv
  BY InitPrime, StepPrime, PTL DEF Spec
<1> QED
  BY <1>1, <1>2, <1>3, CollatzAnswers, PTL DEF Spec

===============================================================================
