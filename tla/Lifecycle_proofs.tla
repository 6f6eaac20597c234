---------------------------- MODULE Lifecycle_proofs ----------------------------
(***************************************************************************)
(* TaskQueue implements JobLifecycle, for every set of workers and jobs,   *)
(* all retry limits and plans, and every combination of faults but two: a  *)
(* claim session that is lost under a worker that lives on, and a reply    *)
(* that is lost after the statement was executed.  With either of them the *)
(* tables leave the lifecycle; TaskQueue!SessionOverrun and ReplyOverrun   *)
(* say how far.                                                            *)
(***************************************************************************)
EXTENDS TaskQueue_proofs

(* No session is lost and no reply, whatever else may fail. *)
Reliable == "session" \notin Faults /\ "lost_reply" \notin Faults

-------------------------------------------------------------------------------
(* The invariant.  It ties the row of a job to the worker that has it in   *)
(* hand, up to the write of the outcome.                                   *)

InHand == Executing \ {"unlock"}

(* What the row may be while a coroutine stands at a step: the reaper may  *)
(* have made it pending, and then a client may have deleted it.            *)
StatusAt(step) ==
  CASE step = "selected" -> {"pending"}
    [] step = "claimed"  -> {"claimed", "pending", "deleted"}
    [] OTHER             -> {"running", "pending", "deleted"}

(* Another attempt is left. *)
Open(attempt, max) == attempt < IF max = 0 THEN 1 ELSE max

(* No coroutine goes on without its session. *)
Connected == \A w \in Workers : pc[w] \in Executing \cup {"scan"} => conn[w]

(* The record in hand is the row's, and its execution is an open attempt   *)
(* of a job that was not buried.                                           *)
HandOK(w) ==
  pc[w] \in InHand =>
    /\ rows[rec[w].id].status \in StatusAt(pc[w])
    /\ dlq[rec[w].id] = <<>>
    /\ rec[w].max_retries \in RetryLimits
    /\ Open(rec[w].attempt, rec[w].max_retries)
    /\ Present(rows[rec[w].id]) =>
         /\ rows[rec[w].id].attempt = rec[w].attempt
         /\ rows[rec[w].id].max_retries = rec[w].max_retries

(* Attempts and dead letter of a job fit its status. *)
RowOK(j) ==
  /\ Present(rows[j]) => rows[j].max_retries \in RetryLimits
  /\ rows[j].status \in {"pending", "claimed", "running"} =>
       Open(rows[j].attempt, rows[j].max_retries)
  /\ rows[j].status = "done" => rows[j].attempt <= Limit(j)
  /\ rows[j].status = "dead" => rows[j].attempt = Limit(j) /\ dlq[j] = <<rows[j].attempt>>
  /\ dlq[j] # <<>> => rows[j].status \in {"dead", "deleted"} /\ Len(dlq[j]) = 1

LifeInv == /\ Connected
           /\ \A w \in Workers : HandOK(w)
           /\ \A j \in Jobs : RowOK(j)

(* The abstract row of a job. *)
JobOf(j) == [status |-> rows[j].status, attempt |-> rows[j].attempt,
             max_retries |-> rows[j].max_retries]

-------------------------------------------------------------------------------
(* What statements do to those that do not execute them.                   *)

(* A coroutine whose job keeps its row, or only loses it to the reaper or  *)
(* to a client, goes on as before.                                         *)
LEMMA HandKept ==
  ASSUME NEW w \in Workers, HandOK(w),
         pc'[w] \in InHand => /\ pc[w] \in InHand
                              /\ StatusAt(pc[w]) \subseteq StatusAt(pc'[w])
                              /\ rec'[w] = rec[w],
         pc[w] \in InHand => \E j \in Jobs : /\ j = rec[w].id
                                            /\ JobOf(j)' = JobOf(j)
                                            /\ dlq'[j] = dlq[j]
  PROVE  HandOK(w)'
  BY DEF HandOK, JobOf, Present

(* A row whose lifecycle columns and dead letters stay is as good as it    *)
(* was.                                                                    *)
LEMMA RowKept ==
  ASSUME NEW j \in Jobs, RowOK(j), JobOf(j)' = JobOf(j), dlq'[j] = dlq[j]
  PROVE  RowOK(j)'
  BY DEF RowOK, JobOf, Present, Limit

(* So a statement that shows in no lifecycle column and moves no coroutine *)
(* to a step that asks more of the row keeps the invariant, and the        *)
(* abstract tables.                                                        *)
LEMMA Unseen ==
  ASSUME LifeInv, Connected',
         \A j \in Jobs : JobOf(j)' = JobOf(j), dlq' = dlq, HasRecord,
         \A w \in Workers : pc'[w] \in InHand =>
           /\ pc[w] \in InHand
           /\ StatusAt(pc[w]) \subseteq StatusAt(pc'[w])
           /\ rec'[w] = rec[w]
  PROVE  LifeInv' /\ UNCHANGED Lifecycle!tables
  <1>1. \A w \in Workers : HandOK(w)'
    BY HandKept DEF LifeInv, HasRecord, InHand
  <1>2. \A j \in Jobs : RowOK(j)'
    BY RowKept DEF LifeInv
  <1>3. UNCHANGED Lifecycle!tables
    BY DEF Lifecycle!tables, JobOf
  <1> QED
    BY <1>1, <1>2, <1>3 DEF LifeInv

(* A statement that writes one row changes one abstract row.               *)
LEMMA OneRow ==
  ASSUME NEW j \in Jobs, \A k \in Jobs \ {j} : rows'[k] = rows[k]
  PROVE  [k \in Jobs |-> JobOf(k)]' = [[k \in Jobs |-> JobOf(k)] EXCEPT ![j] = JobOf(j)']
  BY DEF JobOf

(* The same for a row that moves on and counts an attempt. *)
LEMMA OneRowCounted ==
  ASSUME NEW j \in Jobs, NEW to, \A k \in Jobs \ {j} : rows'[k] = rows[k],
         rows'[j].status = to, rows'[j].attempt = rows[j].attempt + 1,
         rows'[j].max_retries = rows[j].max_retries
  PROVE  [k \in Jobs |-> JobOf(k)]' =
           [[k \in Jobs |-> JobOf(k)] EXCEPT ![j].status = to, ![j].attempt = @ + 1]
  <1> DEFINE m == [k \in Jobs |-> JobOf(k)]
             moved == [status |-> to, attempt |-> rows[j].attempt,
                       max_retries |-> rows[j].max_retries]
             r == [status |-> to, attempt |-> rows[j].attempt + 1,
                   max_retries |-> rows[j].max_retries]
  <1>1. JobOf(j)' = r
    BY DEF JobOf
  <1>2. m' = [m EXCEPT ![j] = r]
    BY <1>1, OneRow
  <1>3. [m[j] EXCEPT !.status = to] = moved
    BY DEF JobOf
  <1>4. [moved EXCEPT !.attempt = @ + 1] = r
    OBVIOUS
  <1>5. [m EXCEPT ![j].status = to, ![j].attempt = @ + 1] = [m EXCEPT ![j] = r]
    BY <1>3, <1>4
  <1> QED
    BY <1>2, <1>5

(* Whose job it is not, goes on; what other rows are, they stay.           *)
LEMMA OneRowKeeps ==
  ASSUME LifeInv, HasRecord, NEW w \in Workers, NEW j \in Jobs, Connected',
         \A k \in Jobs \ {j} : rows'[k] = rows[k] /\ dlq'[k] = dlq[k],
         \A v \in Workers \ {w} : pc'[v] = pc[v] /\ rec'[v] = rec[v],
         \A v \in Workers \ {w} : pc[v] \in InHand => rec[v].id # j,
         HandOK(w)', RowOK(j)'
  PROVE  LifeInv'
  <1>1. ASSUME NEW v \in Workers \ {w}
        PROVE  HandOK(v)'
    BY <1>1, HandKept DEF LifeInv, HasRecord, InHand, JobOf
  <1>2. ASSUME NEW k \in Jobs \ {j}
        PROVE  RowOK(k)'
    BY <1>2, RowKept DEF LifeInv, JobOf
  <1> QED
    BY <1>1, <1>2 DEF LifeInv

(* No two workers have the same job in hand. *)
LEMMA OneHand ==
  ASSUME IInv, LifeInv, NEW v \in Workers, NEW w \in Workers,
         pc[v] \in Executing, pc[w] \in Executing, rec[v].id = rec[w].id
  PROVE  v = w
  BY Excluded DEF MutualExclusion, Owns, LifeInv, Connected, IInv, HasRecord

-------------------------------------------------------------------------------
(* Every step, one step of the proof per action: the invariant is kept,    *)
(* and the tables make a step of the lifecycle or none.                    *)

LifeStep == LifeInv' /\ [Lifecycle!Next]_(Lifecycle!tables)

(* The clock, idle coroutines, handlers, loops and failures move no job    *)
(* and start no execution.                                                 *)
LEMMA QuietSteps ==
  ASSUME Reliable, IInv, LifeInv
  PROVE  /\ \A j \in Jobs : BecomeDue(j) \/ Expire(j) => LifeStep
         /\ \A w \in Workers :
              \/ Start(w) \/ BeginScan(w) \/ FindNothing(w) \/ Wake(w)
              \/ HandlerEnds(w) \/ Unlock(w) \/ Heartbeat(w) \/ Stopping(w) \/ Failing(w)
              \/ \E j \in Jobs : Probe(w, j) \/ SkipRow(w, j)
              => LifeStep
  <1> USE DEF IInv, TypeOK, LifeInv, Connected, InHand, Executing, StatusAt
  <1>0. ASSUME LifeInv' /\ UNCHANGED Lifecycle!tables
        PROVE  LifeStep
    BY <1>0 DEF LifeStep
  <1>1. ASSUME NEW j \in Jobs, BecomeDue(j) \/ Expire(j)
        PROVE  LifeStep
    <2>1. \A k \in Jobs : JobOf(k)' = JobOf(k)
      <3>1. rows[j] \in Row
        OBVIOUS
      <3>2. /\ rows' = [rows EXCEPT ![j] = rows'[j]]
            /\ \/ rows'[j] = [rows[j] EXCEPT !.due = TRUE]
               \/ rows'[j] = [rows[j] EXCEPT !.heartbeat = "stale"]
        BY <1>1 DEF BecomeDue, Expire
      <3>3. JobOf(j)' = JobOf(j)
        BY <3>1, <3>2 DEF JobOf, Row
      <3>4. \A k \in Jobs \ {j} : rows'[k] = rows[k]
        BY <3>2
      <3> QED
        BY <3>3, <3>4 DEF JobOf
    <2> QED
      BY <1>0, <1>1, <2>1, Unseen DEF BecomeDue, Expire
  <1>2. ASSUME NEW w \in Workers, Start(w) \/ BeginScan(w) \/ FindNothing(w) \/ Wake(w)
                                  \/ HandlerEnds(w) \/ Unlock(w) \/ Stopping(w)
        PROVE  LifeStep
    <2>1. \A k \in Jobs : JobOf(k)' = JobOf(k)
      BY <1>2 DEF Start, BeginScan, FindNothing, Wake, HandlerEnds, Unlock, Stopping, Stop,
                  StopBeating, LeaveLoop, JobOf
    <2>0. LifeInv /\ HasRecord
      OBVIOUS
    <2>2. CASE Start(w) \/ BeginScan(w) \/ FindNothing(w) \/ Wake(w)
      <3>1. dlq' = dlq /\ Connected'
        BY <2>2 DEF Start, BeginScan, FindNothing, Wake
      <3>2. ASSUME NEW v \in Workers, pc'[v] \in InHand
            PROVE  pc[v] \in InHand /\ StatusAt(pc[v]) \subseteq StatusAt(pc'[v]) /\ rec'[v] = rec[v]
        <4> HIDE DEF StatusAt, LifeInv, Connected
        <4>1. pc'[v] = pc[v] /\ rec'[v] = rec[v]
          BY <2>2, <3>2 DEF Start, BeginScan, FindNothing, Wake
        <4> QED
          BY <3>2, <4>1
      <3> QED
        BY <1>0, <2>0, <2>1, <3>1, <3>2, Unseen DEF LifeStep
    <2>3. CASE HandlerEnds(w) \/ Unlock(w)
      <3>1. dlq' = dlq /\ Connected'
        BY <2>3 DEF HandlerEnds, Unlock
      <3>2. ASSUME NEW v \in Workers, pc'[v] \in InHand
            PROVE  pc[v] \in InHand /\ StatusAt(pc[v]) \subseteq StatusAt(pc'[v]) /\ rec'[v] = rec[v]
        BY <2>3, <3>2 DEF HandlerEnds, Unlock
      <3> QED
        BY <1>0, <2>0, <2>1, <3>1, <3>2, Unseen DEF LifeStep
    <2>4. CASE Stopping(w)
      <3>1. dlq' = dlq /\ Connected'
        BY <2>4 DEF Stopping, Stop, StopBeating, LeaveLoop, Leave
      <3>2. ASSUME NEW v \in Workers, pc'[v] \in InHand
            PROVE  pc[v] \in InHand /\ StatusAt(pc[v]) \subseteq StatusAt(pc'[v]) /\ rec'[v] = rec[v]
        <4> HIDE DEF StatusAt, LifeInv, Connected
        <4>1. pc'[v] = pc[v] /\ rec'[v] = rec[v]
          BY <2>4, <3>2 DEF Stopping, Stop, StopBeating, LeaveLoop, Leave
        <4> QED
          BY <3>2, <4>1
      <3> QED
        BY <1>0, <2>0, <2>1, <3>1, <3>2, Unseen DEF LifeStep
    <2> QED
      BY <1>2, <2>2, <2>3, <2>4
  <1>3. ASSUME NEW w \in Workers, Heartbeat(w)
        PROVE  LifeStep
    <2>1. \A k \in Jobs : JobOf(k)' = JobOf(k)
      BY <1>3 DEF Heartbeat, JobOf, BeatRow, Row
    <2> QED
      BY <1>0, <1>3, <2>1, Unseen DEF Heartbeat
  <1>4. ASSUME NEW w \in Workers, NEW j \in Jobs, Probe(w, j) \/ SkipRow(w, j)
        PROVE  LifeStep
    <2>1. \A k \in Jobs : JobOf(k)' = JobOf(k)
      BY <1>4 DEF Probe, SkipRow, JobOf
    <2> QED
      BY <1>0, <1>4, <2>1, Unseen DEF Probe, SkipRow
  <1>5. ASSUME NEW w \in Workers, Failing(w)
        PROVE  LifeStep
    <2>1. rows' = rows /\ dlq' = dlq
      BY <1>5 DEF Reliable, Failing, MarkRunningFails, WriteDoneFails, HandleFailureFails,
                  StatementFails, ClaimFails, CommitReplyLost, LoseSession,
                  LoseSessionInClaim, HandlerHangs, HandlerSpins, Kill
    <2>2. \A k \in Jobs : JobOf(k)' = JobOf(k)
      BY <2>1 DEF JobOf
    <2>3. CASE \E step \in {"exited", "dead"} : Leave(w, step)
      BY <1>0, <2>1, <2>2, <2>3, Unseen DEF Leave
    <2>4. CASE WriteDoneFails(w) \/ HandlerHangs(w) \/ HandlerSpins(w)
      BY <1>0, <2>1, <2>2, <2>4, Unseen DEF WriteDoneFails, HandlerHangs, HandlerSpins
    <2> QED
      BY <1>5, <2>3, <2>4
      DEF Reliable, Failing, MarkRunningFails, HandleFailureFails, ClaimFails,
          CommitReplyLost, LoseSession, LoseSessionInClaim, Kill
  <1> QED
    BY <1>1, <1>2, <1>3, <1>4, <1>5

(* POST and DELETE: a job that nobody has in hand is created; a pending    *)
(* one goes, under the worker that the reaper took it from, too.           *)
LEMMA ClientSteps ==
  ASSUME Reliable, IInv, LifeInv, NEW j \in Jobs, Enqueue(j) \/ Cancel(j)
  PROVE  LifeStep
  <1> USE DEF IInv, TypeOK, LifeInv, InHand
  <1>1. /\ dlq' = dlq /\ pc' = pc /\ rec' = rec /\ conn' = conn
        /\ \A k \in Jobs \ {j} : rows'[k] = rows[k]
    BY DEF Enqueue, Cancel, WriteRow, UpdateRow
  <1>2. Connected'
    BY <1>1 DEF Connected
  <1>3. ASSUME NEW w \in Workers, pc[w] \in InHand => rec[w].id # j
        PROVE  HandOK(w)'
    BY <1>1, <1>3, HandKept DEF HasRecord, JobOf
  <1>4. ASSUME NEW k \in Jobs \ {j}
        PROVE  RowOK(k)'
    BY <1>1, <1>4, RowKept DEF JobOf
  <1>5. CASE Enqueue(j)
    <2>1. PICK m \in RetryLimits, d \in BOOLEAN : rows' = [rows EXCEPT ![j] = InsertRow(m, d)]
      BY <1>5 DEF Enqueue
    <2>2. /\ rows[j].status = "unborn"
          /\ JobOf(j)' = [status |-> "pending", attempt |-> 0, max_retries |-> m]
      BY <1>5, <2>1 DEF Enqueue, InsertRow, JobOf
    <2>3. RowOK(j)'
      <3>1. /\ rows'[j].status = "pending" /\ rows'[j].attempt = 0
            /\ rows'[j].max_retries = m /\ m \in Nat
        BY <2>2, LimitsAssumption DEF JobOf
      <3>2. dlq'[j] = <<>>
        BY <1>1, <2>2 DEF RowOK
      <3> QED
        BY <3>1, <3>2 DEF RowOK, Open, Present, Stored
    <2>4. \A w \in Workers : pc[w] \in InHand => rec[w].id # j
      BY <2>2 DEF HandOK, StatusAt
    <2>5. Lifecycle!Create(j)
      BY <1>1, <2>2, OneRow DEF Lifecycle!Create, Lifecycle!State, JobOf
    <2> QED
      BY <1>2, <1>3, <1>4, <2>3, <2>4, <2>5 DEF LifeStep, Lifecycle!Next
  <1>6. CASE Cancel(j)
    <2>1. /\ rows[j].status = "pending"
          /\ rows' = [rows EXCEPT ![j] = DeletedRow]
          /\ JobOf(j)' = [status |-> "deleted", attempt |-> 0, max_retries |-> 0]
      BY <1>6 DEF Cancel, WriteRow, UpdateRow, Pending, Present, Stored, DeletedRow,
                  InsertRow, JobOf
    <2>2. RowOK(j)'
      BY <1>1, <2>1 DEF RowOK, Present, Stored, JobOf
    <2>3. ASSUME NEW w \in Workers, pc[w] \in InHand, rec[w].id = j
          PROVE  HandOK(w)'
      <3>1. pc[w] # "selected"
        BY <1>6, <2>3 DEF Cancel, RowLocked
      <3> QED
        BY <1>1, <2>1, <2>3, <3>1 DEF HandOK, StatusAt, JobOf, Present, Stored
    <2>4. Lifecycle!Cancel(j)
      BY <1>1, <2>1, OneRow DEF Lifecycle!Cancel, Lifecycle!State, JobOf
    <2> QED
      BY <1>2, <1>3, <1>4, <2>2, <2>3, <2>4 DEF LifeStep, Lifecycle!Next
  <1> QED
    BY <1>5, <1>6

(* The reaper: workers that lose their job do not notice.                  *)
LEMMA ReapStep ==
  ASSUME Reliable, IInv, LifeInv, NEW w \in Workers, Reap(w)
  PROVE  LifeStep
  <1> USE DEF IInv, TypeOK, LifeInv, InHand
  <1>0. PICK stale \in SUBSET Jobs : stale = {j \in Jobs : Reapable(rows[j])}
    OBVIOUS
  <1>1. /\ rows' = [j \in Jobs |-> IF j \in stale THEN ReapRow(rows[j]) ELSE rows[j]]
        /\ dlq' = dlq /\ pc' = pc /\ rec' = rec /\ conn' = conn /\ stale # {}
    BY <1>0 DEF Reap
  <1>2. ASSUME NEW j \in stale
        PROVE  /\ JobOf(j)' = [JobOf(j) EXCEPT !.status = "pending"]
               /\ rows[j].status \in {"claimed", "running"}
    <2>1. rows[j] \in Row /\ rows'[j] = ReapRow(rows[j]) /\ Reapable(rows[j])
      BY <1>0, <1>1
    <2>2. /\ rows'[j].status = "pending"
          /\ rows'[j].attempt = rows[j].attempt
          /\ rows'[j].max_retries = rows[j].max_retries
      BY <2>1 DEF ReapRow, Row
    <2>3. rows[j].status \in {"claimed", "running"}
      BY <2>1 DEF Reapable
    <2>4. JobOf(j)' = [JobOf(j) EXCEPT !.status = "pending"]
      BY <2>2 DEF JobOf
    <2> QED
      BY <2>3, <2>4
  <1>3. ASSUME NEW j \in Jobs \ stale
        PROVE  JobOf(j)' = JobOf(j)
    BY <1>1 DEF JobOf
  <1>4. Connected'
    BY <1>1 DEF Connected
  <1>5. ASSUME NEW j \in Jobs
        PROVE  RowOK(j)'
    <2>1. CASE j \in stale
      <3>1. /\ rows'[j].status = "pending" /\ rows[j].status \in {"claimed", "running"}
            /\ rows'[j].attempt = rows[j].attempt /\ rows'[j].max_retries = rows[j].max_retries
        BY <1>2, <2>1 DEF JobOf
      <3>2. dlq'[j] = dlq[j] /\ RowOK(j)
        BY <1>1
      <3> HIDE DEF TypeOK, IInv, LifeInv, Connected, InHand, StatusAt
      <3>3. Present(rows[j]) /\ rows'[j].status \notin {"done", "dead"}
        BY <3>1 DEF Present, Stored
      <3> QED
        BY <3>1, <3>2, <3>3 DEF RowOK
    <2> QED
      BY <1>1, <1>3, <2>1, RowKept
  <1>6. ASSUME NEW v \in Workers
        PROVE  HandOK(v)'
    <2>1. CASE pc[v] \in InHand /\ rec[v].id \in stale
      <3>1. PICK j \in stale : j = rec[v].id
        BY <2>1
      <3>2. /\ rows'[j].status = "pending"
            /\ rows'[j].attempt = rows[j].attempt
            /\ rows'[j].max_retries = rows[j].max_retries
            /\ rows[j].status \in {"claimed", "running"}
        BY <1>2 DEF JobOf
      <3>3. HandOK(v)
        OBVIOUS
      <3> QED
        BY <1>1, <2>1, <3>1, <3>2, <3>3 DEF HandOK, StatusAt, Present, Stored
    <2> QED
      BY <1>1, <1>3, <2>1, HandKept DEF HasRecord
  <1>7. Lifecycle!Reclaim(stale)
    <2>1. [j \in Jobs |-> JobOf(j)]' =
            [j \in Jobs |-> IF j \in stale THEN [JobOf(j) EXCEPT !.status = "pending"]
                            ELSE JobOf(j)]
      BY <1>2, <1>3
    <2> QED
      BY <1>1, <1>2, <2>1 DEF Lifecycle!Reclaim, JobOf
  <1>8. Lifecycle!Next
    BY <1>7 DEF Lifecycle!Next
  <1> QED
    BY <1>4, <1>5, <1>6, <1>8 DEF LifeStep

(* The claim query takes over a record that is the row's; nobody else has  *)
(* the job in hand, since the session holds its lock.                      *)
LEMMA SelectStep ==
  ASSUME Reliable, IInv, LifeInv, NEW w \in Workers, NEW j \in Jobs, SelectRow(w, j)
  PROVE  LifeStep
  <1> USE DEF IInv, TypeOK, LifeInv, InHand
  <1>1. /\ rows' = rows /\ dlq' = dlq /\ conn' = conn
        /\ pc[w] = "scan" /\ pc'[w] = "selected" /\ rec'[w] = RecordOf(j)
        /\ \A v \in Workers \ {w} : pc'[v] = pc[v] /\ rec'[v] = rec[v]
        /\ rows[j].status = "pending"
    BY DEF SelectRow, Reached, StillEligible, Pending
  <1>2. Connected'
    BY <1>1 DEF Connected, Executing
  <1>3. ASSUME NEW v \in Workers \ {w}
        PROVE  HandOK(v)'
    BY <1>1, <1>3, HandKept DEF HasRecord, JobOf
  <1>4. HandOK(w)'
    <2>1. RowOK(j)
      OBVIOUS
    <2> QED
      BY <1>1, <2>1 DEF RowOK, HandOK, RecordOf, StatusAt, Present, Stored
  <1>5. \A k \in Jobs : RowOK(k)'
    BY <1>1, RowKept DEF JobOf
  <1>6. UNCHANGED Lifecycle!tables
    BY <1>1 DEF Lifecycle!tables
  <1> QED
    BY <1>2, <1>3, <1>4, <1>5, <1>6 DEF LifeStep

(* The statements of an execution write by id, and the row is the one its  *)
(* worker knows.  What is common to them: the job in hand, and that no     *)
(* other worker has it.                                                    *)
LEMMA InHandFacts ==
  ASSUME IInv, LifeInv, NEW w \in Workers, pc[w] \in InHand
  PROVE  /\ rec[w].id \in Jobs
         /\ rows[rec[w].id] \in Row
         /\ \A v \in Workers \ {w} : pc[v] \in InHand => rec[v].id # rec[w].id
  BY OneHand DEF IInv, TypeOK, HasRecord, InHand

(* UPDATE ... SET status = 'claimed' finds the row pending, as the query   *)
(* saw it: FOR UPDATE and the advisory lock kept everybody out.            *)
LEMMA CommitStep ==
  ASSUME Reliable, IInv, LifeInv, NEW w \in Workers, CommitClaim(w)
  PROVE  LifeStep
  <1> USE DEF LifeInv, InHand
  <1>0. pc[w] \in InHand
    BY DEF CommitClaim, Executing
  <1>1. PICK j \in Jobs : j = rec[w].id
    BY <1>0, InHandFacts
  <1>2. /\ rows[j].status = "pending" /\ dlq[j] = <<>> /\ RowOK(j) /\ HandOK(w)
        /\ rows[j] \in Row
    BY <1>0, <1>1, InHandFacts DEF HandOK, StatusAt, CommitClaim
  <1>3. /\ rows' = [rows EXCEPT ![j] = ClaimRow(rows[j], w)]
        /\ dlq' = dlq /\ conn' = conn /\ rec' = rec /\ pc' = [pc EXCEPT ![w] = "claimed"]
    BY <1>1, <1>2 DEF CommitClaim, WriteRow, UpdateRow, Present, Stored
  <1>4. /\ rows'[j].status = "claimed" /\ rows'[j].attempt = rows[j].attempt
        /\ rows'[j].max_retries = rows[j].max_retries
        /\ pc'[w] = "claimed"
    BY <1>2, <1>3 DEF ClaimRow, Row, IInv, TypeOK
  <1>5. JobOf(j)' = [JobOf(j) EXCEPT !.status = "claimed"]
    BY <1>4 DEF JobOf
  <1>6. RowOK(j)' /\ HandOK(w)'
    BY <1>0, <1>1, <1>2, <1>3, <1>4 DEF RowOK, HandOK, StatusAt, Present, Stored
  <1>7. LifeInv'
    <2>1. Connected'
      BY <1>0, <1>3 DEF Connected, Executing, IInv, TypeOK
    <2> QED
      BY <1>0, <1>1, <1>3, <1>6, <2>1, InHandFacts, OneRowKeeps DEF IInv, TypeOK
  <1>8. Lifecycle!Claim(j)
    BY <1>2, <1>3, <1>5, OneRow DEF Lifecycle!Claim, Lifecycle!Move, JobOf, IInv, TypeOK
  <1> QED
    BY <1>7, <1>8 DEF LifeStep, Lifecycle!Next

(* UPDATE ... SET status = 'running': the reaper may have made the row     *)
(* pending, or a client may have deleted it after that.                    *)
LEMMA MarkStep ==
  ASSUME Reliable, IInv, LifeInv, NEW w \in Workers, MarkRunning(w)
  PROVE  LifeStep
  <1> USE DEF LifeInv, InHand
  <1>0. pc[w] \in InHand
    BY DEF MarkRunning, Executing
  <1>1. PICK j \in Jobs : j = rec[w].id
    BY <1>0, InHandFacts
  <1>2. /\ rows[j].status \in {"claimed", "pending", "deleted"} /\ dlq[j] = <<>>
        /\ RowOK(j) /\ HandOK(w) /\ rows[j] \in Row
    BY <1>0, <1>1, InHandFacts DEF HandOK, StatusAt, MarkRunning
  <1>3. /\ dlq' = dlq /\ conn' = conn /\ rec' = rec /\ pc' = [pc EXCEPT ![w] = "running"]
        /\ rows' = UpdateRow(rows, j, RunRow(rows[j])) /\ pc'[w] = "running"
    BY <1>1 DEF MarkRunning, WriteRow, IInv, TypeOK
  <1>4. Connected'
    BY <1>0, <1>3 DEF Connected, Executing, IInv, TypeOK
  <1>5. CASE Present(rows[j])
    <2>1. rows' = [rows EXCEPT ![j] = RunRow(rows[j])]
      BY <1>3, <1>5 DEF UpdateRow
    <2>2. /\ rows'[j].status = "running" /\ rows'[j].attempt = rows[j].attempt
          /\ rows'[j].max_retries = rows[j].max_retries
          /\ rows[j].status \in {"claimed", "pending"}
      BY <1>2, <1>5, <2>1 DEF RunRow, Row, Present, Stored, IInv, TypeOK
    <2>3. JobOf(j)' = [JobOf(j) EXCEPT !.status = "running"]
      BY <2>2 DEF JobOf
    <2>4. RowOK(j)' /\ HandOK(w)'
      BY <1>0, <1>1, <1>2, <1>3, <2>2 DEF RowOK, HandOK, StatusAt, Present, Stored
    <2>5. LifeInv'
      BY <1>0, <1>1, <1>3, <1>4, <2>1, <2>4, InHandFacts, OneRowKeeps DEF IInv, TypeOK
    <2>6. Lifecycle!Begin(j)
      BY <1>3, <2>1, <2>2, <2>3, OneRow
      DEF Lifecycle!Begin, Lifecycle!Move, JobOf, IInv, TypeOK
    <2> QED
      BY <2>5, <2>6 DEF LifeStep, Lifecycle!Next
  <1>6. CASE ~Present(rows[j])
    <2>1. rows' = rows
      BY <1>3, <1>6 DEF UpdateRow
    <2>2. HandOK(w)'
      BY <1>0, <1>1, <1>2, <1>3, <1>6, <2>1 DEF HandOK, StatusAt, Present, Stored
    <2>3. RowOK(j)'
      BY <1>2, <1>3, <2>1, RowKept DEF JobOf
    <2>4. LifeInv'
      BY <1>0, <1>1, <1>3, <1>4, <2>1, <2>2, <2>3, InHandFacts, OneRowKeeps DEF IInv, TypeOK
    <2> QED
      BY <1>3, <2>1, <2>4 DEF LifeStep, Lifecycle!tables
  <1> QED
    BY <1>5, <1>6

(* UPDATE ... SET status = 'done' ends an open attempt. *)
LEMMA DoneStep ==
  ASSUME Reliable, IInv, LifeInv, NEW w \in Workers, WriteDone(w)
  PROVE  LifeStep
  <1> USE DEF LifeInv, InHand
  <1>0. pc[w] \in InHand
    BY DEF WriteDone, Executing
  <1>1. PICK j \in Jobs : j = rec[w].id
    BY <1>0, InHandFacts
  <1>2. /\ rows[j].status \in {"running", "pending", "deleted"} /\ dlq[j] = <<>>
        /\ RowOK(j) /\ rows[j] \in Row
    BY <1>0, <1>1, InHandFacts DEF HandOK, StatusAt, WriteDone
  <1>3. /\ dlq' = dlq /\ conn' = conn /\ rec' = rec /\ pc' = [pc EXCEPT ![w] = "unlock"]
        /\ rows' = UpdateRow(rows, j, DoneRow(rows[j], w)) /\ pc'[w] = "unlock"
    BY <1>1 DEF WriteDone, WriteRow, IInv, TypeOK
  <1>4. Connected' /\ HandOK(w)'
    BY <1>0, <1>3 DEF Connected, HandOK, Executing, IInv, TypeOK
  <1>5. CASE Present(rows[j])
    <2>1. rows' = [rows EXCEPT ![j] = DoneRow(rows[j], w)]
      BY <1>3, <1>5 DEF UpdateRow
    <2>2. /\ rows'[j].status = "done" /\ rows'[j].attempt = rows[j].attempt + 1
          /\ rows'[j].max_retries = rows[j].max_retries
          /\ rows[j].status \in {"running", "pending"}
      BY <1>2, <1>5, <2>1 DEF DoneRow, Row, Present, Stored, IInv, TypeOK
    <2>3. rows[j].attempt \in Nat /\ rows[j].max_retries \in Nat
      BY <1>2 DEF Row
    <2>4. RowOK(j)'
      BY <1>2, <1>3, <2>2, <2>3 DEF RowOK, Open, Limit, Present, Stored
    <2>5. LifeInv'
      BY <1>0, <1>1, <1>3, <1>4, <2>1, <2>4, InHandFacts, OneRowKeeps DEF IInv, TypeOK
    <2>6. Lifecycle!Finish(j)
      <3>1. Open(rows[j].attempt, rows[j].max_retries)
        BY <1>2, <2>2 DEF RowOK
      <3> QED
        BY <1>3, <2>1, <2>2, <3>1, OneRowCounted
        DEF Lifecycle!Finish, Lifecycle!MoveCounted, Lifecycle!Budget, Open, JobOf,
            IInv, TypeOK
    <2> QED
      BY <2>5, <2>6 DEF LifeStep, Lifecycle!Next
  <1>6. CASE ~Present(rows[j])
    <2>1. rows' = rows
      BY <1>3, <1>6 DEF UpdateRow
    <2>2. RowOK(j)'
      BY <1>2, <1>3, <2>1, RowKept DEF JobOf
    <2>3. LifeInv'
      BY <1>0, <1>1, <1>3, <1>4, <2>1, <2>2, InHandFacts, OneRowKeeps DEF IInv, TypeOK
    <2> QED
      BY <1>3, <2>1, <2>3 DEF LifeStep, Lifecycle!tables
  <1> QED
    BY <1>5, <1>6

LEMMA OneLetter ==
  \A x \in Nat : /\ Append(<<>>, x) = <<x>>
                 /\ <<x>> # <<>> /\ Len(<<x>>) = 1
  OBVIOUS

(* _handle_failure: the record decides, the row is what it says.  The last *)
(* failure writes the dead letter even of a job that was deleted under its *)
(* worker.                                                                 *)
LEMMA FailureStep ==
  ASSUME Reliable, IInv, LifeInv, NEW w \in Workers, HandleFailure(w)
  PROVE  LifeStep
  <1> USE DEF LifeInv, InHand
  <1>0. pc[w] \in InHand
    BY DEF HandleFailure, Executing
  <1>1. PICK j \in Jobs : j = rec[w].id
    BY <1>0, InHandFacts
  <1>2. /\ rows[j].status \in {"running", "pending", "deleted"} /\ dlq[j] = <<>>
        /\ RowOK(j) /\ HandOK(w) /\ rows[j] \in Row
    BY <1>0, <1>1, InHandFacts DEF HandOK, StatusAt, HandleFailure
  <1>3. /\ conn' = conn /\ rec' = rec /\ pc' = [pc EXCEPT ![w] = "unlock"]
        /\ pc'[w] = "unlock"
    BY <1>1 DEF HandleFailure, IInv, TypeOK
  <1>4. Connected' /\ HandOK(w)'
    BY <1>0, <1>3 DEF Connected, HandOK, Executing, IInv, TypeOK
  <1>5. /\ rec[w].attempt \in Nat /\ rec[w].max_retries \in Nat
        /\ rec[w].max_retries \in RetryLimits
        /\ Open(rec[w].attempt, rec[w].max_retries)
        /\ Present(rows[j]) => /\ rows[j].attempt = rec[w].attempt
                               /\ rows[j].max_retries = rec[w].max_retries
    BY <1>0, <1>1, <1>2 DEF HandOK, IInv, TypeOK, Record
  <1>6. ASSUME \A k \in Jobs \ {j} : rows'[k] = rows[k] /\ dlq'[k] = dlq[k], RowOK(j)'
        PROVE  LifeInv'
    BY <1>0, <1>1, <1>3, <1>4, <1>6, InHandFacts, OneRowKeeps DEF IInv, TypeOK
  <1>7. CASE Exhausted(w) /\ BuryJob(w)
    <2>1. /\ rows' = UpdateRow(rows, j, DeadRow(rows[j]))
          /\ dlq' = [dlq EXCEPT ![j] = Append(<<>>, rec[w].attempt + 1)]
      BY <1>1, <1>2, <1>7 DEF BuryJob, WriteRow
    <2>2. /\ dlq'[j] = <<rec[w].attempt + 1>>
          /\ dlq'[j] # <<>> /\ Len(dlq'[j]) = 1
      <3>1. dlq'[j] = Append(<<>>, rec[w].attempt + 1)
        BY <2>1 DEF IInv, TypeOK
      <3> QED
        BY <3>1, <1>5, OneLetter
    <2>3. rec[w].attempt + 1 = IF rec[w].max_retries = 0 THEN 1 ELSE rec[w].max_retries
      BY <1>5, <1>7 DEF Exhausted, Open
    <2>4. CASE Present(rows[j])
      <3>1. rows' = [rows EXCEPT ![j] = DeadRow(rows[j])]
        BY <2>1, <2>4 DEF UpdateRow
      <3>2. /\ rows'[j].status = "dead" /\ rows'[j].attempt = rows[j].attempt + 1
            /\ rows'[j].max_retries = rows[j].max_retries
            /\ rows[j].status \in {"running", "pending"}
        BY <1>2, <2>4, <3>1 DEF DeadRow, Row, Present, Stored, IInv, TypeOK
      <3>3. RowOK(j)'
        BY <1>2, <1>5, <2>2, <2>3, <2>4, <3>2 DEF RowOK, Limit, Present, Stored
      <3>4. LifeInv'
        BY <1>6, <2>1, <3>1, <3>3
      <3>5. Lifecycle!Bury(j)
        BY <1>2, <1>5, <2>1, <2>2, <2>3, <2>4, <3>1, <3>2, OneRowCounted
        DEF Lifecycle!Bury, Lifecycle!MoveCounted, Lifecycle!Budget, JobOf, IInv, TypeOK
      <3> QED
        BY <3>4, <3>5 DEF LifeStep, Lifecycle!Next
    <2>5. CASE ~Present(rows[j])
      <3>1. rows' = rows /\ rows[j].status = "deleted"
        BY <1>2, <2>1, <2>5 DEF UpdateRow, Present, Stored
      <3>2. RowOK(j)'
        BY <2>2, <3>1 DEF RowOK, Present, Stored
      <3>3. LifeInv'
        BY <1>6, <2>1, <3>1, <3>2
      <3>4. Lifecycle!BuryCancelled(j)
        <4>1. dlq' = [dlq EXCEPT ![j] = <<Lifecycle!Budget(rec[w].max_retries)>>]
          BY <2>1, <2>2, <2>3 DEF Lifecycle!Budget, IInv, TypeOK
        <4> QED
          BY <1>2, <1>5, <3>1, <4>1 DEF Lifecycle!BuryCancelled
      <3> QED
        BY <3>3, <3>4 DEF LifeStep, Lifecycle!Next
    <2> QED
      BY <2>4, <2>5
  <1>8. CASE ~Exhausted(w) /\ RetryJob(w)
    <2>1. rows' = UpdateRow(rows, j, RetryRow(rows[j])) /\ dlq' = dlq
      BY <1>1, <1>8 DEF RetryJob, WriteRow
    <2>2. rec[w].attempt + 1 < rec[w].max_retries
      BY <1>5, <1>8 DEF Exhausted
    <2>3. CASE Present(rows[j])
      <3>1. rows' = [rows EXCEPT ![j] = RetryRow(rows[j])]
        BY <2>1, <2>3 DEF UpdateRow
      <3>2. /\ rows'[j].status = "pending" /\ rows'[j].attempt = rows[j].attempt + 1
            /\ rows'[j].max_retries = rows[j].max_retries
            /\ rows[j].status \in {"running", "pending"}
        BY <1>2, <2>3, <3>1 DEF RetryRow, Row, Present, Stored, IInv, TypeOK
      <3>3. RowOK(j)'
        BY <1>2, <1>5, <2>1, <2>2, <2>3, <3>2 DEF RowOK, Open, Present, Stored
      <3>4. LifeInv'
        BY <1>6, <2>1, <3>1, <3>3
      <3>5. Lifecycle!Retry(j)
        BY <1>5, <2>1, <2>2, <2>3, <3>1, <3>2, OneRowCounted
        DEF Lifecycle!Retry, Lifecycle!MoveCounted, JobOf, IInv, TypeOK
      <3> QED
        BY <3>4, <3>5 DEF LifeStep, Lifecycle!Next
    <2>4. CASE ~Present(rows[j])
      <3>1. rows' = rows
        BY <2>1, <2>4 DEF UpdateRow
      <3>2. RowOK(j)'
        BY <1>2, <2>1, <3>1, RowKept DEF JobOf
      <3> QED
        BY <1>6, <2>1, <3>1, <3>2 DEF LifeStep, Lifecycle!tables
    <2> QED
      BY <2>3, <2>4
  <1> QED
    BY <1>7, <1>8 DEF HandleFailure, SettleFailure

LEMMA NextLife ==
  ASSUME Reliable, IInv, LifeInv, [Next]_vars
  PROVE  LifeStep
  <1>1. CASE UNCHANGED vars
    <2>1. \A j \in Jobs : JobOf(j)' = JobOf(j)
      BY <1>1 DEF vars, JobOf
    <2> QED
      BY <1>1, <2>1, Unseen DEF vars, LifeStep, LifeInv, Connected, IInv
  <1>2. CASE Next
    BY <1>2, QuietSteps, ClientSteps, ReapStep, SelectStep, CommitStep, MarkStep, DoneStep,
       FailureStep DEF Next, Claiming, Running
  <1> QED
    BY <1>1, <1>2

LEMMA InitLife == Init => LifeInv /\ Lifecycle!Init
  <1> SUFFICES ASSUME Init
               PROVE  LifeInv /\ Lifecycle!Init
    OBVIOUS
  <1>1. LifeInv
    BY DEF Init, LifeInv, Connected, HandOK, RowOK, InHand, Executing, UnbornRow, InsertRow,
           Present, Stored
  <1>2. Lifecycle!Init
    BY DEF Init, Lifecycle!Init, Lifecycle!State, UnbornRow, InsertRow
  <1> QED
    BY <1>1, <1>2

LEMMA LifeInvariance ==
  ASSUME Reliable
  PROVE  Spec => []LifeInv
  <1>1. IInv /\ LifeInv /\ [Next]_vars => LifeInv'
    BY NextLife DEF LifeStep
  <1>2. Init => LifeInv
    BY InitLife
  <1> QED
    BY <1>1, <1>2, Invariance, PTL DEF Spec

-------------------------------------------------------------------------------
(* What the runs check, for every value of the constants.                  *)

(* The tables only ever show the lifecycle of the README, statement by     *)
(* statement: the detailed specification implements JobLifecycle           *)
(* (_execute_job and _handle_failure, which write by id, against the       *)
(* reaper and DELETE /jobs/{id}).                                          *)
THEOREM Refinement ==
  ASSUME Reliable
  PROVE  Spec => ImplementsLifecycle
  <1>1. Init => Lifecycle!Init
    BY InitLife
  <1>2. IInv /\ LifeInv /\ [Next]_vars => [Lifecycle!Next]_(Lifecycle!tables)
    BY NextLife DEF LifeStep
  <1> QED
    BY <1>1, <1>2, Invariance, LifeInvariance, PTL DEF Spec, ImplementsLifecycle, Lifecycle!Spec

(* When _handle_failure decides between retry and dead letter, the record  *)
(* read at claim time still has the attempt count of the row, however      *)
(* often the reaper and other workers touched it since.                    *)
THEOREM RecordStaysCurrent ==
  ASSUME Reliable
  PROVE  Spec => []RecordCurrent
  <1>1. LifeInv => RecordCurrent
    BY DEF LifeInv, HandOK, InHand, RecordCurrent
  <1> QED
    BY <1>1, LifeInvariance, PTL

(* A dead job has exactly one dead letter, with the row's attempts, and no *)
(* other stored job has any: the transaction of _handle_failure runs once  *)
(* for a job, even when the job changed hands in between.                  *)
THEOREM DeadLettersExact ==
  ASSUME Reliable
  PROVE  Spec => []DeadLettersAgree
  <1>1. IInv /\ LifeInv => DeadLettersAgree
    <2> SUFFICES ASSUME IInv, LifeInv, NEW j \in Jobs
                 PROVE  /\ Len(dlq[j]) <= 1
                        /\ rows[j].status = "dead" => dlq[j] = <<rows[j].attempt>>
                        /\ dlq[j] # <<>> => rows[j].status \in {"dead", "deleted"}
      BY DEF DeadLettersAgree
    <2>1. RowOK(j)
      BY DEF LifeInv
    <2>2. CASE dlq[j] = <<>>
      BY <2>1, <2>2 DEF RowOK
    <2>3. CASE dlq[j] # <<>>
      <3>1. Len(dlq[j]) = 1 /\ rows[j].status \in {"dead", "deleted"}
        BY <2>1, <2>3 DEF RowOK
      <3>2. rows[j].status = "dead" => dlq[j] = <<rows[j].attempt>>
        BY <2>1 DEF RowOK
      <3> QED
        BY <3>1, <3>2
    <2> QED
      BY <2>2, <2>3
  <1> QED
    BY <1>1, Invariance, LifeInvariance, PTL

(* No job is executed to an outcome more often than max_retries allows     *)
(* (and a first time in any case), whatever reaps come between.            *)
THEOREM AttemptsStayBounded ==
  ASSUME Reliable
  PROVE  Spec => []AttemptsBounded
  <1>1. IInv /\ LifeInv => AttemptsBounded
    BY LimitsAssumption
    DEF IInv, TypeOK, Row, LifeInv, RowOK, Open, Present, Stored, Limit, AttemptsBounded
  <1> QED
    BY <1>1, Invariance, LifeInvariance, PTL

(* A finished job stays finished: the UPDATEs by id of a worker that lost  *)
(* its job to the reaper never reach a row that another one has finished.  *)
(* No step of the lifecycle leaves done or dead.                           *)
THEOREM FinishedStaysFinished ==
  ASSUME Reliable
  PROVE  Spec => TerminalIsFinal
  <1>1. ASSUME IInv, LifeInv, [Next]_vars, NEW j \in Jobs, Terminal(rows[j])
        PROVE  rows'[j].status = rows[j].status /\ rows'[j].attempt = rows[j].attempt
    <2> DEFINE m == [k \in Jobs |-> JobOf(k)]
    <2>1. [Lifecycle!Next]_(Lifecycle!tables)
      BY <1>1, NextLife DEF LifeStep
    <2>2. m[j].status \in {"done", "dead"}
      BY <1>1, SMTT(20) DEF Terminal, JobOf
    <2>3. m'[j] = m[j]
      BY <2>1, <2>2
      DEF JobOf, Lifecycle!Next, Lifecycle!tables, Lifecycle!Create, Lifecycle!Cancel,
          Lifecycle!Claim, Lifecycle!Begin, Lifecycle!Finish, Lifecycle!Retry, Lifecycle!Bury,
          Lifecycle!BuryCancelled, Lifecycle!Reclaim, Lifecycle!Move, Lifecycle!MoveCounted
    <2> QED
      BY <2>3 DEF JobOf
  <1>2. IInv /\ LifeInv /\ [Next]_vars =>
          [\A j \in Jobs : Terminal(rows[j]) =>
             /\ rows'[j].status = rows[j].status
             /\ rows'[j].attempt = rows[j].attempt]_vars
    BY <1>1
  <1> QED
    BY <1>2, Invariance, LifeInvariance, PTL DEF Spec, TerminalIsFinal
===============================================================================
