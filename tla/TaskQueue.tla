------------------------------- MODULE TaskQueue -------------------------------
(***************************************************************************)
(* Claim, execution, retry, dead-lettering and recovery of jobs: the       *)
(* statements that worker/worker.py, worker/heartbeat.py and               *)
(* api/routes/jobs.py run against one PostgreSQL database, interleaved     *)
(* statement by statement.  An action is one statement (or one             *)
(* transaction whose intermediate states no other session sees) together   *)
(* with the control of the coroutine up to its next await.  The claim      *)
(* query alone is split: it takes its locks row by row on a snapshot.      *)
(*                                                                         *)
(* A worker id stands for a process with one run_worker coroutine, its     *)
(* heartbeat loop and its stale reaper; a restarted process has a new id.  *)
(***************************************************************************)
EXTENDS JobTable, AdvisoryLocks, Sequences, FiniteSets

CONSTANTS Jobs,         \* ids the BIGSERIAL will hand out
          NoJob,        \* no job record in hand
          RetryLimits,  \* values of max_retries that clients ask for
          Plans,        \* query plans of the claim: "index", "sort"
          Faults,       \* what may go wrong, a subset of FaultKinds
          MaxHold       \* bound on re-entrant holds: no scan begins on a
                \* pending row held that often

FaultKinds == {"kill", "session", "db_error", "lost_reply", "stall", "hang",
               "spin", "beat_loop", "shutdown"}

ASSUME NoJobAssumption == NoJob \notin Jobs
ASSUME LimitsAssumption == RetryLimits \subseteq Nat
ASSUME PlansAssumption == Plans \subseteq {"index", "sort"}
ASSUME FaultsAssumption == Faults \subseteq FaultKinds
ASSUME MaxHoldAssumption == MaxHold \in Nat \ {0}

VARIABLES
  rows,      \* table jobs
  dlq,       \* table dead_letter_jobs: column attempts, per original_id
  locks,     \* advisory-lock holds of each worker's claim_conn
  conn,      \* the claim_conn session exists in the server
  pc,        \* what each run_worker coroutine does next
  rec,       \* the record its _try_claim returned
  scan,      \* the claim query it has in flight
  beating,   \* its heartbeat_loop is alive
  stopping   \* shutdown_event of its process

vars == <<rows, dlq, locks, conn, pc, rec, scan, beating, stopping>>

(* Where a coroutine can be.  "scan": inside the SELECT of the claim;      *)
(* "selected": row read and row-locked, UPDATE and COMMIT to come; "hung"  *)
(* and "spin": in a handler that never returns, awaiting or without ever   *)
(* yielding to the event loop; "exited": the coroutine ended, the process  *)
(* lives on; "dead": the process is gone.                                  *)
Steps == {"new", "claim", "scan", "selected", "claimed", "running", "returned",
          "raised", "unlock", "wait", "hung", "spin", "exited", "dead"}

(* The coroutine has a job record in hand and owns the job by its claim. *)
Executing == {"selected", "claimed", "running", "returned", "raised", "unlock",
              "hung", "spin"}

(* The columns of the claimed row that the execution goes on to use. *)
Record == [id : Jobs \cup {NoJob}, attempt : Nat, max_retries : Nat]
NoRecord == [id |-> NoJob, attempt |-> 0, max_retries |-> 0]
RecordOf(j) == [id |-> j, attempt |-> rows[j].attempt,
                max_retries |-> rows[j].max_retries]

(* A claim query in flight: the rows its snapshot still has to test        *)
(* (todo), those with run_at <= NOW() (ripe), those that passed the WHERE  *)
(* (cand), those rewritten since the snapshot (dirty), those whose run_at  *)
(* was moved past the query's NOW() since (moved).                         *)
Scan == [plan : Plans \cup {"none"}, todo : SUBSET Jobs, ripe : SUBSET Jobs,
         cand : SUBSET Jobs, dirty : SUBSET Jobs, moved : SUBSET Jobs]
NoScan == [plan |-> "none", todo |-> {}, ripe |-> {}, cand |-> {},
           dirty |-> {}, moved |-> {}]

TypeOK ==
  /\ rows \in [Jobs -> Row]
  /\ dlq \in [Jobs -> Seq(Nat)]
  /\ locks \in [Workers -> [Jobs -> Nat]]
  /\ conn \in [Workers -> BOOLEAN]
  /\ pc \in [Workers -> Steps]
  /\ rec \in [Workers -> Record]
  /\ scan \in [Workers -> Scan]
  /\ beating \in [Workers -> BOOLEAN]
  /\ stopping \in [Workers -> BOOLEAN]

Init ==
  /\ rows = [j \in Jobs |-> UnbornRow]
  /\ dlq = [j \in Jobs |-> <<>>]
  /\ locks = [w \in Workers |-> [j \in Jobs |-> 0]]
  /\ conn = [w \in Workers |-> FALSE]
  /\ pc = [w \in Workers |-> "new"]
  /\ rec = [w \in Workers |-> NoRecord]
  /\ scan = [w \in Workers |-> NoScan]
  /\ beating = [w \in Workers |-> FALSE]
  /\ stopping = [w \in Workers |-> FALSE]

-------------------------------------------------------------------------------
(* What statements of different sessions do to one another.                *)

(* The open claim transaction of some worker holds the FOR UPDATE lock. *)
RowLocked(j) == \E v \in Workers : pc[v] = "selected" /\ rec[v].id = j

(* Every claim query in flight, after rows js got a new version and rows   *)
(* `late` of them a later run_at.                                          *)
Touched(js, late) ==
  [v \in Workers |->
     LET open == scan[v].todo \cup scan[v].cand
     IN  [scan[v] EXCEPT !.dirty = @ \cup (js \cap open),
                         !.moved = @ \cup (late \cap open)]]

(* UPDATE jobs SET ... WHERE id = j, as one committed statement. *)
WriteRow(j, new, late) ==
  /\ rows' = UpdateRow(rows, j, new)
  /\ scan' = Touched({j}, late)

(* The coroutine's finally clause closes claim_conn. *)
Leave(w, step) ==
  /\ pc' = [pc EXCEPT ![w] = step]
  /\ conn' = [conn EXCEPT ![w] = FALSE]
  /\ locks' = CloseSession(locks, w)
  /\ rec' = [rec EXCEPT ![w] = NoRecord]

(* A statement raised: not executed at all, or executed with the reply lost. *)
StatementFails(j, new) ==
  \/ "db_error" \in Faults /\ UNCHANGED <<rows, scan>>
  \/ "lost_reply" \in Faults /\ WriteRow(j, new, {})

-------------------------------------------------------------------------------
(* The API and the passage of time.                                        *)

(* POST /jobs *)
Enqueue(j) ==
  /\ rows[j].status = "unborn"
  /\ \E m \in RetryLimits, d \in BOOLEAN :
       rows' = [rows EXCEPT ![j] = InsertRow(m, d)]
  /\ UNCHANGED <<dlq, locks, conn, pc, rec, scan, beating, stopping>>

(* DELETE /jobs/{id}: one transaction; SELECT ... FOR UPDATE waits for an  *)
(* open claim.  The 404 and 409 answers change nothing.                    *)
Cancel(j) ==
  /\ Pending(rows[j])
  /\ ~RowLocked(j)
  /\ WriteRow(j, DeletedRow, {})
  /\ UNCHANGED <<dlq, locks, conn, pc, rec, beating, stopping>>

(* The clock passes run_at. *)
BecomeDue(j) ==
  /\ Pending(rows[j])
  /\ ~rows[j].due
  /\ rows' = [rows EXCEPT ![j].due = TRUE]
  /\ UNCHANGED <<dlq, locks, conn, pc, rec, scan, beating, stopping>>

(* HEARTBEAT_INTERVAL is a third of STALE_THRESHOLD: a running row whose   *)
(* owner's loop is alive is rewritten in time.                             *)
Protected(row) == \E w \in Workers : OwnedRunning(row, w) /\ beating[w]

(* The clock passes heartbeat_at + STALE_THRESHOLD.  With "stall" the loop *)
(* may be late: a handler that computes without awaiting blocks it.        *)
Expire(j) ==
  /\ Present(rows[j])
  /\ rows[j].heartbeat = "fresh"
  /\ Protected(rows[j]) => "stall" \in Faults
  /\ rows' = [rows EXCEPT ![j].heartbeat = "stale"]
  /\ UNCHANGED <<dlq, locks, conn, pc, rec, scan, beating, stopping>>

-------------------------------------------------------------------------------
(* _try_claim.                                                             *)

(* The coroutine starts: claim_conn is opened, the heartbeat loop runs. *)
Start(w) ==
  /\ pc[w] = "new"
  /\ pc' = [pc EXCEPT ![w] = "claim"]
  /\ conn' = [conn EXCEPT ![w] = TRUE]
  /\ beating' = [beating EXCEPT ![w] = TRUE]
  /\ UNCHANGED <<rows, dlq, locks, rec, scan, stopping>>

(* Fault variant: the loop never looks at shutdown_event. *)
IgnoresShutdown(w) == TRUE

(* while not shutdown_event.is_set() *)
KeepsGoing(w) == ~stopping[w]

(* The SELECT takes its snapshot.  From the partial index the due rows     *)
(* come out in order and are tested one at a time; a sequential scan under *)
(* a sort tests every pending row first, with the cheaper lock function    *)
(* before run_at <= NOW().                                                 *)
BeginScan(w) ==
  /\ pc[w] = "claim"
  /\ conn[w]
  /\ KeepsGoing(w)
  /\ \A j \in Jobs : Pending(rows[j]) => locks[w][j] < MaxHold
  /\ \E p \in Plans :
       LET ripe == {j \in Jobs : Eligible(rows[j])}
           todo == IF p = "index" THEN ripe ELSE {j \in Jobs : Pending(rows[j])}
       IN  scan' = [scan EXCEPT ![w] = [NoScan EXCEPT !.plan = p, !.todo = todo,
                                                      !.ripe = ripe]]
  /\ pc' = [pc EXCEPT ![w] = "scan"]
  /\ UNCHANGED <<rows, dlq, locks, conn, rec, beating, stopping>>

(* Fault variant: the WHERE clause without pg_try_advisory_lock. *)
ProbeUnlocked(w, j) ==
  /\ pc[w] = "scan"
  /\ j \in scan[w].todo
  /\ scan' = [scan EXCEPT ![w].todo = @ \ {j}, ![w].cand = @ \cup {j}]
  /\ UNCHANGED <<rows, dlq, locks, conn, pc, rec, beating, stopping>>

(* The WHERE clause on one row of the snapshot: pg_try_advisory_lock is    *)
(* called, whatever becomes of the row afterwards.                         *)
Probe(w, j) ==
  /\ pc[w] = "scan"
  /\ j \in scan[w].todo
  /\ scan[w].plan = "index" => scan[w].cand = {}
  /\ \/ /\ Lockable(locks, w, j)
        /\ locks' = Hold(locks, w, j)
        /\ scan' = [scan EXCEPT ![w].todo = @ \ {j},
                                ![w].cand = @ \cup ({j} \cap scan[w].ripe)]
     \/ /\ ~Lockable(locks, w, j)
        /\ scan' = [scan EXCEPT ![w].todo = @ \ {j}]
        /\ UNCHANGED locks
  /\ UNCHANGED <<rows, dlq, conn, pc, rec, beating, stopping>>

(* A row is locked only when the rows before it went through the WHERE. *)
Reached(w, j) ==
  /\ pc[w] = "scan"
  /\ j \in scan[w].cand
  /\ scan[w].plan = "sort" => scan[w].todo = {}

(* Fault variant: no second test, the row is taken as the snapshot saw it. *)
EligibleInSnapshot(w, j) == TRUE

(* A row rewritten since the snapshot is tested again on its new version,  *)
(* pg_try_advisory_lock included: the session gets a second hold.          *)
StillEligible(w, j) == Pending(rows[j]) /\ j \notin scan[w].moved

(* FOR UPDATE got the row and LIMIT 1 ends the query. *)
SelectRow(w, j) ==
  /\ Reached(w, j)
  /\ ~RowLocked(j)
  /\ StillEligible(w, j)
  /\ rec' = [rec EXCEPT ![w] = RecordOf(j)]
  /\ locks' = IF j \in scan[w].dirty THEN Hold(locks, w, j) ELSE locks
  /\ pc' = [pc EXCEPT ![w] = "selected"]
  /\ scan' = [scan EXCEPT ![w] = NoScan]
  /\ UNCHANGED <<rows, dlq, conn, beating, stopping>>

(* SKIP LOCKED, or the new version fails the WHERE: the query goes on to   *)
(* the next row and the advisory lock stays with the session.              *)
SkipRow(w, j) ==
  /\ Reached(w, j)
  /\ RowLocked(j) \/ ~StillEligible(w, j)
  /\ locks' = IF /\ ~RowLocked(j)
                 /\ Pending(rows[j])
                 /\ scan[w].plan = "sort"
              THEN Hold(locks, w, j) ELSE locks
  /\ scan' = [scan EXCEPT ![w].cand = @ \ {j}]
  /\ UNCHANGED <<rows, dlq, conn, pc, rec, beating, stopping>>

(* No row: _try_claim returns None and the worker waits. *)
FindNothing(w) ==
  /\ pc[w] = "scan"
  /\ scan[w].todo = {}
  /\ scan[w].cand = {}
  /\ pc' = [pc EXCEPT ![w] = "wait"]
  /\ scan' = [scan EXCEPT ![w] = NoScan]
  /\ UNCHANGED <<rows, dlq, locks, conn, rec, beating, stopping>>

(* UPDATE ... SET status = 'claimed' and COMMIT. *)
CommitClaim(w) ==
  /\ pc[w] = "selected"
  /\ WriteRow(rec[w].id, ClaimRow(rows[rec[w].id], w), {})
  /\ pc' = [pc EXCEPT ![w] = "claimed"]
  /\ UNCHANGED <<dlq, locks, conn, rec, beating, stopping>>

(* A NOTIFY or the POLL_INTERVAL ends the wait. *)
Wake(w) ==
  /\ pc[w] = "wait"
  /\ pc' = [pc EXCEPT ![w] = "claim"]
  /\ UNCHANGED <<rows, dlq, locks, conn, rec, scan, beating, stopping>>

-------------------------------------------------------------------------------
(* _execute_job and _handle_failure.                                       *)

(* UPDATE ... SET status = 'running', by id alone. *)
MarkRunning(w) ==
  /\ pc[w] = "claimed"
  /\ ~RowLocked(rec[w].id)
  /\ WriteRow(rec[w].id, RunRow(rows[rec[w].id]), {})
  /\ pc' = [pc EXCEPT ![w] = "running"]
  /\ UNCHANGED <<dlq, locks, conn, rec, beating, stopping>>

(* This statement is outside the try: an error ends run_worker. *)
MarkRunningFails(w) ==
  /\ pc[w] = "claimed"
  /\ ~RowLocked(rec[w].id)
  /\ StatementFails(rec[w].id, RunRow(rows[rec[w].id]))
  /\ Leave(w, "exited")
  /\ UNCHANGED <<dlq, beating, stopping>>

(* The handler returns or raises. *)
HandlerEnds(w) ==
  /\ pc[w] = "running"
  /\ \E outcome \in {"returned", "raised"} : pc' = [pc EXCEPT ![w] = outcome]
  /\ UNCHANGED <<rows, dlq, locks, conn, rec, scan, beating, stopping>>

(* UPDATE ... SET status = 'done', by id alone. *)
WriteDone(w) ==
  /\ pc[w] = "returned"
  /\ ~RowLocked(rec[w].id)
  /\ WriteRow(rec[w].id, DoneRow(rows[rec[w].id], w), {})
  /\ pc' = [pc EXCEPT ![w] = "unlock"]
  /\ UNCHANGED <<dlq, locks, conn, rec, beating, stopping>>

(* An error of that statement is handled as a failure of the handler. *)
WriteDoneFails(w) ==
  /\ pc[w] = "returned"
  /\ ~RowLocked(rec[w].id)
  /\ StatementFails(rec[w].id, DoneRow(rows[rec[w].id], w))
  /\ pc' = [pc EXCEPT ![w] = "raised"]
  /\ UNCHANGED <<dlq, locks, conn, rec, beating, stopping>>

(* Fault variant: off by one. *)
ExhaustedTooLate(w) == rec[w].attempt + 1 > rec[w].max_retries

(* attempt + 1 >= max_retries, of the record read when the job was claimed *)
Exhausted(w) == rec[w].attempt + 1 >= rec[w].max_retries

(* One transaction: INSERT INTO dead_letter_jobs, UPDATE jobs. *)
BuryJob(w) ==
  /\ dlq' = [dlq EXCEPT ![rec[w].id] = Append(@, rec[w].attempt + 1)]
  /\ WriteRow(rec[w].id, DeadRow(rows[rec[w].id]), {})

(* UPDATE ... SET status = 'pending', run_at = NOW() + backoff *)
RetryJob(w) ==
  /\ WriteRow(rec[w].id, RetryRow(rows[rec[w].id]), {rec[w].id})
  /\ UNCHANGED dlq

SettleFailure(w) ==
  \/ Exhausted(w) /\ BuryJob(w)
  \/ ~Exhausted(w) /\ RetryJob(w)

HandleFailure(w) ==
  /\ pc[w] = "raised"
  /\ ~RowLocked(rec[w].id)
  /\ SettleFailure(w)
  /\ pc' = [pc EXCEPT ![w] = "unlock"]
  /\ UNCHANGED <<locks, conn, rec, beating, stopping>>

(* An error here leaves _execute_job after its finally, and run_worker. *)
HandleFailureFails(w) ==
  /\ pc[w] = "raised"
  /\ ~RowLocked(rec[w].id)
  /\ \/ "db_error" \in Faults /\ UNCHANGED <<rows, dlq, scan>>
     \/ "lost_reply" \in Faults /\ SettleFailure(w)
  /\ Leave(w, "exited")
  /\ UNCHANGED <<beating, stopping>>

(* SELECT pg_advisory_unlock on claim_conn; an error is swallowed. *)
Unlock(w) ==
  /\ pc[w] = "unlock"
  /\ locks' = IF conn[w] THEN Unhold(locks, w, rec[w].id) ELSE locks
  /\ pc' = [pc EXCEPT ![w] = "claim"]
  /\ rec' = [rec EXCEPT ![w] = NoRecord]
  /\ UNCHANGED <<rows, dlq, conn, scan, beating, stopping>>

-------------------------------------------------------------------------------
(* heartbeat_loop and stale_reaper_loop.                                   *)

Heartbeat(w) ==
  LET mine == {j \in Jobs : OwnedRunning(rows[j], w)}
  IN  /\ beating[w]
      /\ \E j \in mine : rows[j].heartbeat # "fresh"
      /\ rows' = [j \in Jobs |-> IF j \in mine THEN BeatRow(rows[j]) ELSE rows[j]]
      /\ scan' = Touched(mine, {})
      /\ UNCHANGED <<dlq, locks, conn, pc, rec, beating, stopping>>

(* The process runs its reaper until shutdown_event, whatever became of    *)
(* its run_worker; a spinning handler blocks it with the event loop.       *)
Reaping(w) == pc[w] \notin {"new", "spin", "dead"} /\ ~stopping[w]

Reap(w) ==
  LET stale == {j \in Jobs : Reapable(rows[j])}
  IN  /\ Reaping(w)
      /\ stale # {}
      /\ rows' = [j \in Jobs |-> IF j \in stale THEN ReapRow(rows[j]) ELSE rows[j]]
      /\ scan' = Touched(stale, {})
      /\ UNCHANGED <<dlq, locks, conn, pc, rec, beating, stopping>>

-------------------------------------------------------------------------------
(* Shutdown and faults.                                                    *)

(* SIGTERM: shutdown_event is set. *)
Stop(w) ==
  /\ "shutdown" \in Faults
  /\ pc[w] \notin {"new", "dead"}
  /\ ~stopping[w]
  /\ stopping' = [stopping EXCEPT ![w] = TRUE]
  /\ UNCHANGED <<rows, dlq, locks, conn, pc, rec, scan, beating>>

(* The heartbeat loop leaves its sleep at once, even while its worker is   *)
(* still executing ("beat_loop": it died of an error it does not catch).   *)
StopBeating(w) ==
  /\ beating[w]
  /\ stopping[w] \/ "beat_loop" \in Faults
  /\ beating' = [beating EXCEPT ![w] = FALSE]
  /\ UNCHANGED <<rows, dlq, locks, conn, pc, rec, scan, stopping>>

(* run_worker leaves its loop only between jobs. *)
LeaveLoop(w) ==
  /\ pc[w] = "claim"
  /\ stopping[w]
  /\ Leave(w, "exited")
  /\ UNCHANGED <<rows, dlq, scan, beating, stopping>>

(* The claim transaction raises: claim_conn is lost, or a database error.  *)
(* Nobody catches it and nobody reconnects.                                *)
ClaimFails(w) ==
  /\ pc[w] \in {"claim", "scan", "selected"}
  /\ ~stopping[w] \/ pc[w] # "claim"
  /\ ~conn[w] \/ "db_error" \in Faults
  /\ Leave(w, "exited")
  /\ scan' = [scan EXCEPT ![w] = NoScan]
  /\ UNCHANGED <<rows, dlq, beating, stopping>>

(* COMMIT was executed, its reply lost. *)
CommitReplyLost(w) ==
  /\ "lost_reply" \in Faults
  /\ pc[w] = "selected"
  /\ WriteRow(rec[w].id, ClaimRow(rows[rec[w].id], w), {})
  /\ Leave(w, "exited")
  /\ UNCHANGED <<dlq, beating, stopping>>

(* The server drops claim_conn: the locks are free at once, while the      *)
(* coroutine notices at its next statement on that connection.             *)
LoseSession(w) ==
  /\ "session" \in Faults
  /\ conn[w]
  /\ pc[w] \notin {"scan", "selected"}
  /\ conn' = [conn EXCEPT ![w] = FALSE]
  /\ locks' = CloseSession(locks, w)
  /\ UNCHANGED <<rows, dlq, pc, rec, scan, beating, stopping>>

(* The same with a claim in flight: the statement raises, the transaction  *)
(* is rolled back.                                                         *)
LoseSessionInClaim(w) ==
  /\ "session" \in Faults
  /\ pc[w] \in {"scan", "selected"}
  /\ Leave(w, "exited")
  /\ scan' = [scan EXCEPT ![w] = NoScan]
  /\ UNCHANGED <<rows, dlq, beating, stopping>>

(* The handler awaits for ever; the process's other loops go on. *)
HandlerHangs(w) ==
  /\ "hang" \in Faults
  /\ pc[w] = "running"
  /\ pc' = [pc EXCEPT ![w] = "hung"]
  /\ UNCHANGED <<rows, dlq, locks, conn, rec, scan, beating, stopping>>

(* The handler computes for ever (collatz of 0): the event loop is blocked *)
(* and with it the heartbeat loop and the reaper of the process.           *)
HandlerSpins(w) ==
  /\ "spin" \in Faults
  /\ pc[w] = "running"
  /\ pc' = [pc EXCEPT ![w] = "spin"]
  /\ beating' = [beating EXCEPT ![w] = FALSE]
  /\ UNCHANGED <<rows, dlq, locks, conn, rec, scan, stopping>>

(* SIGKILL or a machine failure: the server ends its sessions. *)
Kill(w) ==
  /\ "kill" \in Faults
  /\ pc[w] \notin {"new", "dead"}
  /\ Leave(w, "dead")
  /\ scan' = [scan EXCEPT ![w] = NoScan]
  /\ beating' = [beating EXCEPT ![w] = FALSE]
  /\ UNCHANGED <<rows, dlq, stopping>>

-------------------------------------------------------------------------------
Claiming(w) ==
  \/ Start(w) \/ BeginScan(w) \/ FindNothing(w) \/ CommitClaim(w) \/ Wake(w)
  \/ \E j \in Jobs : Probe(w, j) \/ SelectRow(w, j) \/ SkipRow(w, j)

Running(w) ==
  \/ MarkRunning(w) \/ HandlerEnds(w) \/ WriteDone(w) \/ HandleFailure(w)
  \/ Unlock(w)

Failing(w) ==
  \/ MarkRunningFails(w) \/ WriteDoneFails(w) \/ HandleFailureFails(w)
  \/ ClaimFails(w) \/ CommitReplyLost(w) \/ LoseSession(w) \/ LoseSessionInClaim(w)
  \/ HandlerHangs(w) \/ HandlerSpins(w) \/ Kill(w)

Stopping(w) == Stop(w) \/ StopBeating(w) \/ LeaveLoop(w)

Next ==
  \/ \E j \in Jobs : Enqueue(j) \/ Cancel(j) \/ BecomeDue(j) \/ Expire(j)
  \/ \E w \in Workers :
       Claiming(w) \/ Running(w) \/ Heartbeat(w) \/ Reap(w) \/ Stopping(w) \/ Failing(w)

Spec == Init /\ [][Next]_vars

(* Clock and scheduler go on; clients, handlers' outcomes and faults owe   *)
(* nothing.  A coroutine that can take its next step takes it.             *)
Fairness ==
  /\ \A j \in Jobs : WF_vars(BecomeDue(j)) /\ WF_vars(Expire(j))
  /\ \A w \in Workers :
       /\ WF_vars(Claiming(w) \/ LeaveLoop(w) \/ (~conn[w] /\ ClaimFails(w)))
       /\ WF_vars(Running(w))
       /\ WF_vars(Heartbeat(w))
       /\ WF_vars(Reap(w))
       /\ WF_vars(stopping[w] /\ StopBeating(w))

FairSpec == Spec /\ Fairness

-------------------------------------------------------------------------------
(* Properties.                                                             *)

(* Worker w executes job j and its claim session is alive. *)
Owns(w, j) == pc[w] \in Executing /\ rec[w].id = j /\ conn[w]

(* Exactly-once, at any instant: no job is in the hands of two workers     *)
(* whose sessions are alive, from the moment the claim query returns the   *)
(* row to the unlock (_try_claim, _execute_job), even when the reaper made *)
(* the row pending again under the first of them.                          *)
MutualExclusion ==
  \A v, w \in Workers, j \in Jobs : Owns(v, j) /\ Owns(w, j) => v = w

(* _handle_failure decides between retry and dead letter from the record   *)
(* read at claim time: while the claim session lives and no reply is lost, *)
(* the row still has that attempt when the decision is taken.              *)
RecordCurrent ==
  \A w \in Workers :
    /\ pc[w] \in Executing \ {"unlock"}
    /\ conn[w]
    /\ Present(rows[rec[w].id])
    => rows[rec[w].id].attempt = rec[w].attempt

(* Dead letters agree with the jobs table: one dead-letter row per dead    *)
(* job, recording the attempts of that job, and none for a job that is not *)
(* dead; only a job deleted under its executor leaves a row behind.        *)
DeadLettersAgree ==
  \A j \in Jobs :
    /\ Len(dlq[j]) <= 1
    /\ rows[j].status = "dead" => dlq[j] = <<rows[j].attempt>>
    /\ dlq[j] # <<>> => rows[j].status \in {"dead", "deleted"}

(* A job is executed to an outcome at most max_retries times (and at least *)
(* once for max_retries = 0), whatever reaps and claims come between.      *)
Limit(j) == IF rows[j].max_retries = 0 THEN 1 ELSE rows[j].max_retries
AttemptsBounded ==
  \A j \in Jobs : Present(rows[j]) => rows[j].attempt <= Limit(j)

(* A finished job stays finished: no late UPDATE by id of a worker that    *)
(* lost the job moves its row again or counts another attempt.             *)
TerminalIsFinal ==
  [][\A j \in Jobs : Terminal(rows[j]) =>
       /\ rows'[j].status = rows[j].status
       /\ rows'[j].attempt = rows[j].attempt]_vars

(* The tables, whatever workers, reaper and clients do to them statement   *)
(* by statement, only ever show the lifecycle of the README: the detailed  *)
(* specification implements JobLifecycle as long as no claim session and   *)
(* no reply is lost.                                                       *)
Lifecycle == INSTANCE JobLifecycle WITH
  job <- [j \in Jobs |-> [status |-> rows[j].status, attempt |-> rows[j].attempt,
                          max_retries |-> rows[j].max_retries]],
  letters <- dlq
ImplementsLifecycle == Lifecycle!Spec

(* Every accepted job comes to an end: done, dead, or cancelled. *)
EveryJobSettles ==
  \A j \in Jobs : (rows[j].status # "unborn") ~>
                  (Terminal(rows[j]) \/ rows[j].status = "deleted")

(* A process is left that can still reclaim jobs. *)
Survivors == \E w \in Workers : Reaping(w)

(* A job that ran in a killed process does not stay 'running': the reaper  *)
(* of a surviving process finds its heartbeat stale.                       *)
KilledRunRecovered ==
  \A j \in Jobs, w \in Workers :
    (pc[w] = "dead" /\ OwnedRunning(rows[j], w)) ~>
    (~OwnedRunning(rows[j], w) \/ ~Survivors)

(* SIGTERM drains: a worker whose handler ends leaves its loop, after the  *)
(* job in its hands was settled and unlocked (signals.py, run_worker).     *)
ShutdownDrains == \A w \in Workers : stopping[w] ~> (pc[w] \in {"exited", "dead"})

(* The price of lost claim sessions.  The reaper may give the job of a     *)
(* worker that lost its session to another one; the first goes on and      *)
(* writes by id.  Its late 'running' and its late outcome may each reopen  *)
(* the finished row for one more execution, and its outcome counts too: at *)
(* most three attempts for each worker but the one that is left, as a      *)
(* worker whose session is lost never claims again.                        *)
SessionOverrun ==
  \A j \in Jobs : Present(rows[j]) =>
    rows[j].attempt <= Limit(j) + 3 * (Cardinality(Workers) - 1)

(* The price of a lost reply: 'done' was written, its error is handled as  *)
(* a failure of the handler, and one execution counts twice.  The retry    *)
(* may then start a job that has used up its attempts, whose own end may   *)
(* count twice; never more, and never with a second dead letter.           *)
ReplyOverrun ==
  \A j \in Jobs :
    /\ Present(rows[j]) => rows[j].attempt <= Limit(j) + 2
    /\ Len(dlq[j]) <= 1

-------------------------------------------------------------------------------
(* Statements of the repository that the code does not keep.               *)

(* heartbeat.py:82: the reaper reclaims "jobs from crashed or stalled      *)
(* workers", so never from one that is alive, with its heartbeats on.      *)
ReapsOnlyAbandoned ==
  [][\A j \in Jobs, w \in Workers :
       /\ Owns(w, j)
       /\ beating[w]
       /\ Reapable(rows[j])
       => rows'[j].status # "pending" \/ rows'[j].attempt # rows[j].attempt]_vars

(* README.md:53: the reaper reclaims work from crashed workers without any *)
(* manual intervention; here, of one killed between claim and start.       *)
KilledClaimRecovered ==
  \A j \in Jobs, w \in Workers :
    (pc[w] = "dead" /\ rows[j].status = "claimed" /\ rows[j].worker_id = w) ~>
    (rows[j].status # "claimed" \/ ~Survivors)

Stuck(w) == pc[w] \in {"hung", "spin", "exited", "dead"}

(* README.md:133: a slow worker never stalls the whole queue: a due job    *)
(* that no worker executes is taken by the workers that are not stuck.     *)
NoHeadOfLineBlocking ==
  \A j \in Jobs :
    Eligible(rows[j]) ~>
    \/ ~Eligible(rows[j])
    \/ \E w \in Workers : Owns(w, j)
    \/ \A w \in Workers : Stuck(w)
===============================================================================
