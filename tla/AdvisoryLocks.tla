----------------------------- MODULE AdvisoryLocks -----------------------------
(***************************************************************************)
(* PostgreSQL's session-level advisory locks, from how worker/worker.py    *)
(* uses them.  locks[s][k] counts how often session s holds key k: the     *)
(* lock is re-entrant, every unlock takes back one hold, and a session     *)
(* that ends gives up all of its holds.                                    *)
(***************************************************************************)
EXTENDS Naturals

(* pg_try_advisory_lock returns true: no other session holds k. *)
Lockable(locks, s, k) == \A t \in DOMAIN locks \ {s} : locks[t][k] = 0

(* The hold it then adds. *)
Hold(locks, s, k) == [locks EXCEPT ![s][k] = @ + 1]

(* pg_advisory_unlock; a session that does not hold k gets a warning only. *)
Unhold(locks, s, k) ==
  [locks EXCEPT ![s][k] = IF @ > 0 THEN @ - 1 ELSE 0]

(* The session's connection is closed or lost. *)
CloseSession(locks, s) ==
  [locks EXCEPT ![s] = [k \in DOMAIN @ |-> 0]]
===============================================================================
