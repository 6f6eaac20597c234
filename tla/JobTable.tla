------------------------------- MODULE JobTable -------------------------------
(***************************************************************************)
(* The rows of table jobs (db/migrations/001_init.sql) and the SQL         *)
(* statements that rewrite one row, as operators from row to row.  Columns *)
(* the control never reads (type, payload, result, error, the creation and *)
(* claim times, priority) are left out.  Time is abstracted to what a      *)
(* statement can tell apart: `due` is run_at <= NOW(), and heartbeat_at is *)
(* NULL, younger than the stale threshold, or older.                       *)
(***************************************************************************)
EXTENDS Naturals

CONSTANTS Workers,    \* worker ids: a fresh uuid for every run_worker coroutine
          NoWorker    \* the NULL of column worker_id

ASSUME NoWorkerAssumption == NoWorker \notin Workers

Stored == {"pending", "claimed", "running", "done", "dead"}

(* An id that is not in the table yet, or whose row was deleted.  Ids come *)
(* from a BIGSERIAL and are never used twice.                              *)
Absent == {"unborn", "deleted"}

Ages == {"null", "fresh", "stale"}

Row == [status : Stored \cup Absent, attempt : Nat, max_retries : Nat,
        due : BOOLEAN, heartbeat : Ages, worker_id : Workers \cup {NoWorker}]

Present(row) == row.status \in Stored

Terminal(row) == row.status \in {"done", "dead"}

-------------------------------------------------------------------------------
(* INSERT INTO jobs: column defaults, run_at in the future or not. *)
InsertRow(m, d) ==
  [status |-> "pending", attempt |-> 0, max_retries |-> m, due |-> d,
   heartbeat |-> "null", worker_id |-> NoWorker]

(* A row whose id was not handed out yet. *)
UnbornRow == [InsertRow(0, FALSE) EXCEPT !.status = "unborn"]

(* Fault variant: a cancelled row is kept, with a status the CHECK         *)
(* constraint does not know.                                               *)
CancelledRow == [InsertRow(0, FALSE) EXCEPT !.status = "cancelled"]

(* DELETE: the columns are gone with the row. *)
DeletedRow == [InsertRow(0, FALSE) EXCEPT !.status = "deleted"]

(* The claim: heartbeat_at keeps whatever an earlier run left there. *)
ClaimRow(row, w) == [row EXCEPT !.status = "claimed", !.worker_id = w]

(* Fault variant: the start of an execution does not stamp heartbeat_at. *)
RunRowUnstamped(row) == [row EXCEPT !.status = "running"]

(* The start of an execution; worker_id is not written. *)
RunRow(row) == [row EXCEPT !.status = "running", !.heartbeat = "fresh"]

DoneRow(row, w) ==
  [row EXCEPT !.status = "done", !.worker_id = w, !.heartbeat = "null",
              !.attempt = @ + 1]

(* Fault variant: the failure path forgets to count the attempt. *)
RetryRowUncounted(row) ==
  [row EXCEPT !.status = "pending", !.due = FALSE, !.worker_id = NoWorker]

(* A retry: run_at = NOW() + backoff, so the row is not due; heartbeat_at  *)
(* keeps the last value the failed execution wrote.                        *)
RetryRow(row) ==
  [row EXCEPT !.status = "pending", !.attempt = @ + 1, !.due = FALSE,
              !.worker_id = NoWorker]

(* Fault variant: the final failure is not counted in the row. *)
DeadRowUncounted(row) == [row EXCEPT !.status = "dead"]

DeadRow(row) == [row EXCEPT !.status = "dead", !.attempt = @ + 1]

(* Fault variant: the reaper counts the lost execution as an attempt. *)
ReapRowCounted(row) ==
  [row EXCEPT !.status = "pending", !.worker_id = NoWorker, !.heartbeat = "null",
              !.attempt = @ + 1]

(* The reaper: run_at and attempt stay, so the job is due at once. *)
ReapRow(row) ==
  [row EXCEPT !.status = "pending", !.worker_id = NoWorker, !.heartbeat = "null"]

BeatRow(row) == [row EXCEPT !.heartbeat = "fresh"]

-------------------------------------------------------------------------------
(* The WHERE clauses. *)
Pending(row) == row.status = "pending"

(* status = 'pending' AND run_at <= NOW() *)
Eligible(row) == Pending(row) /\ row.due

(* Fault variant: the reaper's condition on status is dropped. *)
ReapableInAnyStatus(row) == Present(row) /\ row.heartbeat = "stale"

(* A NULL heartbeat_at compares as unknown and is never selected. *)
Reapable(row) == row.status \in {"claimed", "running"} /\ row.heartbeat = "stale"

OwnedRunning(row, w) == row.status = "running" /\ row.worker_id = w

(* UPDATE ... WHERE id = j: no row, no change, and no error. *)
UpdateRow(rows, j, new) ==
  IF Present(rows[j]) THEN [rows EXCEPT ![j] = new] ELSE rows
===============================================================================
