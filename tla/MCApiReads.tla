------------------------------ MODULE MCApiReads ------------------------------
(***************************************************************************)
(* TLC instances of ApiReads, with the symmetry of jobs for safety runs.   *)
(***************************************************************************)
EXTENDS ApiReads, TLC

Symmetry == Permutations(Jobs)
===============================================================================
