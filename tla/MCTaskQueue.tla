------------------------------ MODULE MCTaskQueue ------------------------------
(***************************************************************************)
(* TLC instances of TaskQueue: model values for workers and jobs, and the  *)
(* symmetry of both for runs that check safety only.                       *)
(***************************************************************************)
EXTENDS TaskQueue, TLC

Symmetry == Permutations(Workers) \cup Permutations(Jobs)
===============================================================================
