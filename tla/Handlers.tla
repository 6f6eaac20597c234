------------------------------- MODULE Handlers -------------------------------
(***************************************************************************)
(* worker/registry.py: one call of one built-in handler, from get_handler  *)
(* to the returned result or the exception.  The loops run one iteration   *)
(* per step.  asyncio.sleep and the texts of results are left out.         *)
(***************************************************************************)
EXTENDS Integers, FiniteSets, Functions

CONSTANTS
  Numbers,    \* payload["n"], attempts and rounds among them
  NoNumber,   \* the payload has no "n", or no "rounds"
  NoSeed,     \* the payload has no "seed"
  Digests,    \* byte strings that occur
  Sha,        \* hashlib.sha256 on them
  MaxSteps    \* bound on the steps of one Collatz sequence

ASSUME HandlersAssumption ==
  /\ Numbers \subseteq Int
  /\ NoNumber \notin Int
  /\ Digests # {} /\ NoSeed \notin Digests
  /\ Sha \in [Digests -> Digests]
  /\ MaxSteps \in Nat

(* The decorated handlers. *)
Registered == {"noop", "always_fail", "flaky", "slow", "echo",
               "is_prime", "collatz", "sha256_chain"}

VARIABLES
  type, n, seed, attempt,    \* columns of the job
  at,                        \* "call", "loop", "returned" or "raised"
  d, checked, isPrime,       \* locals of _is_prime_handler
  cur, steps, top, total,    \* locals of _collatz_handler
  current, rounds            \* locals of _sha256_chain_handler

job == <<type, n, seed, attempt>>
primeVars == <<d, checked, isPrime>>
collatzVars == <<cur, steps, top, total>>
chainVars == <<current, rounds>>
vars == <<job, at, primeVars, collatzVars, chainVars>>

TypeOK ==
  /\ type \in Registered \cup {"unknown"}
  /\ n \in Int \cup {NoNumber}
  /\ seed \in Digests \cup {NoSeed}
  /\ attempt \in Nat
  /\ at \in {"call", "loop", "returned", "raised"}
  /\ d \in Nat /\ checked \in Nat /\ isPrime \in BOOLEAN
  /\ cur \in Int /\ steps \in Nat /\ top \in Int /\ total \in Int
  /\ current \in Digests /\ rounds \in Nat

Init ==
  /\ type \in Registered \cup {"unknown"}
  /\ n \in Numbers \cup {NoNumber}
  /\ seed \in Digests \cup {NoSeed}
  /\ attempt \in Numbers \cap (0 .. 10)
  /\ at = "call"
  /\ d = 3 /\ checked = 0 /\ isPrime = FALSE
  /\ cur = 0 /\ steps = 0 /\ top = 0 /\ total = 0
  /\ current = (CHOOSE s \in Digests : TRUE) /\ rounds = 0
  /\ type # "flaky" => attempt = 0
  /\ type # "sha256_chain" => seed = NoSeed
  /\ type \notin {"is_prime", "collatz", "sha256_chain"} => n = NoNumber

-------------------------------------------------------------------------------
(* get_handler, and the handlers without a loop. *)

Raises ==
  \/ type \notin Registered
  \/ type = "always_fail"
  \/ type = "flaky" /\ attempt < 2
  \/ type \in {"is_prime", "collatz"} /\ n = NoNumber    \* a KeyError of the payload
  \/ type = "sha256_chain" /\ seed = NoSeed

Finish(how) ==
  /\ at' = how
  /\ UNCHANGED job

Raise ==
  /\ at = "call"
  /\ Raises
  /\ Finish("raised")
  /\ UNCHANGED <<primeVars, collatzVars, chainVars>>

Return ==
  /\ at = "call"
  /\ ~Raises
  /\ type \in {"noop", "slow", "echo", "flaky"}
  /\ Finish("returned")
  /\ UNCHANGED <<primeVars, collatzVars, chainVars>>

-------------------------------------------------------------------------------
(* _is_prime_handler. *)

(* n < 2, n == 2 and the even numbers are answered without a loop. *)
PrimeCall ==
  /\ at = "call" /\ type = "is_prime" /\ n # NoNumber
  /\ \/ n < 2 /\ Finish("returned") /\ isPrime' = FALSE /\ checked' = 0
     \/ n = 2 /\ Finish("returned") /\ isPrime' = TRUE /\ checked' = 1
     \/ n > 2 /\ n % 2 = 0 /\ Finish("returned") /\ isPrime' = FALSE /\ checked' = 1
     \/ n > 2 /\ n % 2 # 0 /\ Finish("loop") /\ checked' = 1 /\ UNCHANGED isPrime
  /\ UNCHANGED <<d, collatzVars, chainVars>>

(* Fault variant: range(3, isqrt(n), 2) misses the root itself. *)
PastRootEarly == d * d >= n

(* Fault variant: isqrt(n) + 2. *)
PastRootLate == (d - 1) * (d - 1) > n

(* d is past range(3, isqrt(n) + 1, 2): d > isqrt(n). *)
PastRoot == d * d > n

(* One iteration, or the end of the range. *)
PrimeStep ==
  /\ at = "loop" /\ type = "is_prime"
  /\ \/ /\ PastRoot
        /\ Finish("returned")
        /\ isPrime' = TRUE
        /\ UNCHANGED <<d, checked>>
     \/ /\ ~PastRoot
        /\ checked' = checked + 1
        /\ \/ n % d = 0 /\ Finish("returned") /\ isPrime' = FALSE /\ UNCHANGED d
           \/ n % d # 0 /\ Finish("loop") /\ d' = d + 2 /\ UNCHANGED isPrime
  /\ UNCHANGED <<collatzVars, chainVars>>

-------------------------------------------------------------------------------
(* _collatz_handler. *)

CollatzCall ==
  /\ at = "call" /\ type = "collatz" /\ n # NoNumber
  /\ Finish("loop")
  /\ cur' = n /\ steps' = 0 /\ top' = n /\ total' = n
  /\ UNCHANGED <<primeVars, chainVars>>

(* Fault variant: a sign in 3n + 1. *)
SuccessorMinus(k) == IF k % 2 = 0 THEN k \div 2 ELSE 3 * k - 1

Successor(k) == IF k % 2 = 0 THEN k \div 2 ELSE 3 * k + 1

(* Fault variant: the maximum is taken before the step. *)
HigherLate(a, b) == a

Higher(a, b) == IF a >= b THEN a ELSE b

CollatzStep ==
  /\ at = "loop" /\ type = "collatz"
  /\ \/ cur = 1 /\ Finish("returned") /\ UNCHANGED collatzVars
     \/ /\ cur # 1
        /\ steps < MaxSteps
        /\ Finish("loop")
        /\ cur' = Successor(cur)
        /\ steps' = steps + 1
        /\ top' = Higher(top, cur')
        /\ total' = total + cur'
  /\ UNCHANGED <<primeVars, chainVars>>

-------------------------------------------------------------------------------
(* _sha256_chain_handler; payload.get("rounds", 1000) is n here, and range *)
(* of a negative number is empty.                                          *)

(* Fault variant: a negative number of rounds is counted down. *)
ChainCallNegative ==
  /\ at = "call" /\ type = "sha256_chain" /\ seed # NoSeed
  /\ Finish("loop")
  /\ current' = seed
  /\ rounds' = IF n = NoNumber THEN 1000 ELSE n
  /\ UNCHANGED <<primeVars, collatzVars>>

ChainCall ==
  /\ at = "call" /\ type = "sha256_chain" /\ seed # NoSeed
  /\ Finish("loop")
  /\ current' = seed
  /\ rounds' = IF n = NoNumber THEN 1000 ELSE Higher(n, 0)
  /\ UNCHANGED <<primeVars, collatzVars>>

ChainStep ==
  /\ at = "loop" /\ type = "sha256_chain"
  /\ \/ rounds = 0 /\ Finish("returned") /\ UNCHANGED chainVars
     \/ /\ rounds > 0
        /\ Finish("loop")
        /\ current' = Sha[current]
        /\ rounds' = rounds - 1
  /\ UNCHANGED <<primeVars, collatzVars>>

-------------------------------------------------------------------------------
Next == \/ Raise \/ Return
        \/ PrimeCall \/ PrimeStep
        \/ CollatzCall \/ CollatzStep
        \/ ChainCall \/ ChainStep

Spec == Init /\ [][Next]_vars

(* Nothing in a handler waits for anybody. *)
FairSpec == Spec /\ WF_vars(Next)

-------------------------------------------------------------------------------
Prime(k) == k > 1 /\ \A i \in 2 .. k - 1 : k % i # 0

(* README.md:237, "Trial-division primality test": the answer is right,    *)
(* for squares of primes and next to the special cases, too.               *)
PrimeCorrect ==
  at = "returned" /\ type = "is_prime" => (isPrime <=> Prime(n))

(* divisors_checked counts 2 and the odd candidates up to the root or the  *)
(* least divisor, whichever comes first: O(sqrt(n)), as the README says.   *)
Candidates == {i \in 3 .. n : /\ i % 2 = 1 /\ i * i <= n
                              /\ \A k \in 3 .. i - 1 : k % 2 = 1 => n % k # 0}
CheckedCounts ==
  at = "returned" /\ type = "is_prime" =>
    checked = IF n < 2 THEN 0 ELSE IF n % 2 = 0 THEN 1 ELSE 1 + Cardinality(Candidates)

Orbit[i \in 0 .. MaxSteps] == IF i = 0 THEN n ELSE Successor(Orbit[i - 1])

(* steps, max_value and sequence_checksum are those of the 3n + 1 sequence *)
(* up to its first 1 (README.md:238).                                      *)
CollatzCorrect ==
  at = "returned" /\ type = "collatz" =>
    LET path == [i \in 0 .. steps |-> Orbit[i]]
    IN  /\ \A i \in 0 .. steps : path[i] = 1 <=> i = steps
        /\ top \in Range(path) /\ \A i \in 0 .. steps : path[i] <= top
        /\ total = FoldFunction(+, 0, path)

(* Every call comes to an end, except the Collatz sequence of a number     *)
(* below 1, which never reaches 1 and never yields to the event loop: what *)
(* TaskQueue's HandlerSpins and WorkerProcess's "computing" stand for.     *)
CallsEnd ==
  \/ type = "collatz" /\ n # NoNumber /\ n < 1
  \/ <>(at \in {"returned", "raised"})
===============================================================================
