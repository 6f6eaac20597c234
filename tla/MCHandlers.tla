------------------------------ MODULE MCHandlers ------------------------------
(***************************************************************************)
(* TLC instance of Handlers: every number from the special cases to beyond *)
(* the square of 11, 27 and its 111 Collatz steps among them, and a        *)
(* hash on four digests that runs into a cycle.                            *)
(***************************************************************************)
EXTENDS Handlers

SmallNumbers == -2 .. 130
FourDigests == 0 .. 3
CyclicSha == [x \in FourDigests |-> IF x = 3 THEN 1 ELSE x + 1]
===============================================================================
