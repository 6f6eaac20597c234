----------------------------- MODULE MCTimetable ------------------------------
(***************************************************************************)
(* TLC instance of Timetable: two jobs that compete for a process with two *)
(* coroutines and one with a single coroutine, which may crash.            *)
(***************************************************************************)
EXTENDS Timetable, TLC

CONSTANTS w1, w2, w3, p1, p2

HomeOf == (w1 :> p1) @@ (w2 :> p1) @@ (w3 :> p2)

Body(t, p, m, dl, sl) ==
  [type |-> t, priority |-> p, max_retries |-> m, delay |-> dl, sleep |-> sl]
FewRequests == {Body("compute", 5, 3, 0, 0), Body("always_fail", 10, 3, 1, 0),
                Body("slow", 5, 1, 0, 7)}
Same == Permutations(Jobs) \cup Permutations({w1, w2})
===============================================================================
