----------------------------- MODULE Overrun_proofs -----------------------------
(***************************************************************************)
(* How far the tables leave the lifecycle when replies or claim sessions   *)
(* are lost, the two faults that Lifecycle_proofs excludes: by how many    *)
(* attempts max_retries is overrun, for every set of workers and jobs, all *)
(* retry limits and plans, and all other faults.                           *)
(***************************************************************************)
EXTENDS Lifecycle_proofs, FiniteSetTheorems

Active(j) == rows[j].status \in {"pending", "claimed", "running"}

-------------------------------------------------------------------------------
(* Lost replies, with sessions that last.  When the reply to 'done' is     *)
(* lost, its worker handles a failure of a job whose row is done.          *)

StatusMaybe(step) == StatusAt(step) \cup (IF step = "raised" THEN {"done"} ELSE {})

HandSound(w) ==
  pc[w] \in InHand =>
    /\ rows[rec[w].id].status \in StatusMaybe(pc[w])
    /\ dlq[rec[w].id] = <<>>
    /\ Present(rows[rec[w].id]) =>
         /\ rows[rec[w].id].max_retries = rec[w].max_retries
         /\ rows[rec[w].id].attempt <=
              rec[w].attempt + IF rows[rec[w].id].status = "done" THEN 1 ELSE 0

(* The row a retry leaves may have used up its attempts, not more; its     *)
(* next end may be counted twice.                                          *)
RowSound(j) ==
  /\ Active(j) => rows[j].attempt <= Limit(j)
  /\ rows[j].status = "done" => rows[j].attempt <= Limit(j) + 1
  /\ rows[j].status = "dead" => rows[j].attempt <= Limit(j) + 2
  /\ dlq[j] # <<>> => rows[j].status \in {"dead", "deleted"} /\ Len(dlq[j]) = 1

ReplyInv == /\ Connected
            /\ \A w \in Workers : HandSound(w)
            /\ \A j \in Jobs : RowSound(j)

LEMMA HandStays ==
  ASSUME NEW w \in Workers, HandSound(w),
         pc'[w] \in InHand => /\ pc[w] \in InHand
                              /\ StatusMaybe(pc[w]) \subseteq StatusMaybe(pc'[w])
                              /\ rec'[w] = rec[w],
         pc[w] \in InHand => \E j \in Jobs : /\ j = rec[w].id
                                             /\ JobOf(j)' = JobOf(j)
                                             /\ dlq'[j] = dlq[j]
  PROVE  HandSound(w)'
  BY DEF HandSound, JobOf, Present

LEMMA RowStays ==
  ASSUME NEW j \in Jobs, RowSound(j), JobOf(j)' = JobOf(j), dlq'[j] = dlq[j]
  PROVE  RowSound(j)'
  BY DEF RowSound, Active, JobOf, Present, Limit

(* Statements that show in no lifecycle column. *)
LEMMA ReplyUnseen ==
  ASSUME ReplyInv, Connected', HasRecord,
         \A j \in Jobs : JobOf(j)' = JobOf(j), dlq' = dlq,
         \A w \in Workers : pc'[w] \in InHand =>
           /\ pc[w] \in InHand
           /\ StatusMaybe(pc[w]) \subseteq StatusMaybe(pc'[w])
           /\ rec'[w] = rec[w]
  PROVE  ReplyInv'
  <1>1. \A w \in Workers : HandSound(w)'
    BY HandStays DEF ReplyInv, HasRecord, InHand
  <1>2. \A j \in Jobs : RowSound(j)'
    BY RowStays DEF ReplyInv
  <1> QED
    BY <1>1, <1>2 DEF ReplyInv

(* A statement of one worker, by id: nobody else has the job in hand. *)
LEMMA HandAlone ==
  ASSUME IInv, Connected, NEW w \in Workers, pc[w] \in InHand
  PROVE  /\ rec[w].id \in Jobs
         /\ rows[rec[w].id] \in Row
         /\ \A v \in Workers \ {w} : pc[v] \in InHand => rec[v].id # rec[w].id
  BY Excluded DEF MutualExclusion, Owns, Connected, IInv, TypeOK, HasRecord, InHand

LEMMA HandWrites ==
  ASSUME IInv, ReplyInv, NEW w \in Workers, NEW j \in Jobs, Connected',
         pc[w] \in InHand => rec[w].id = j,
         \A v \in Workers \ {w} : pc[v] \in InHand => rec[v].id # j,
         \A k \in Jobs \ {j} : rows'[k] = rows[k] /\ dlq'[k] = dlq[k],
         \A v \in Workers \ {w} : pc'[v] = pc[v] /\ rec'[v] = rec[v],
         HandSound(w)', RowSound(j)'
  PROVE  ReplyInv'
  <1>1. ASSUME NEW v \in Workers \ {w}
        PROVE  HandSound(v)'
    BY <1>1, HandStays DEF ReplyInv, IInv, HasRecord, InHand, JobOf
  <1>2. ASSUME NEW k \in Jobs \ {j}
        PROVE  RowSound(k)'
    BY <1>2, RowStays DEF ReplyInv, JobOf
  <1> QED
    BY <1>1, <1>2 DEF ReplyInv

(* The statements of an execution, executed, whether or not the reply      *)
(* arrives: it decides where the worker goes on, and that is all.          *)

LEMMA ClaimWrites ==
  ASSUME IInv, ReplyInv, NEW w \in Workers, CommitClaim(w) \/ CommitReplyLost(w)
  PROVE  ReplyInv'
  <1> USE DEF ReplyInv, InHand
  <1>0. pc[w] \in InHand /\ pc[w] = "selected"
    BY DEF CommitClaim, CommitReplyLost, Executing
  <1>1. PICK j \in Jobs : j = rec[w].id
    BY <1>0, HandAlone
  <1>2. /\ rows[j].status = "pending" /\ dlq[j] = <<>> /\ RowSound(j) /\ HandSound(w)
        /\ rows[j] \in Row
    BY <1>0, <1>1, HandAlone DEF HandSound, StatusAt, StatusMaybe
  <1>3. /\ rows' = [rows EXCEPT ![j] = ClaimRow(rows[j], w)] /\ dlq' = dlq
        /\ \/ pc'[w] = "claimed" /\ rec'[w] = rec[w]
           \/ pc'[w] = "exited"
        /\ \A v \in Workers \ {w} : pc'[v] = pc[v] /\ rec'[v] = rec[v] /\ conn'[v] = conn[v]
        /\ pc'[w] = "claimed" => conn'[w] = conn[w]
    BY <1>1, <1>2 DEF CommitClaim, CommitReplyLost, Leave, WriteRow, UpdateRow, Present, Stored,
                      IInv, TypeOK
  <1>4. /\ rows'[j].status = "claimed" /\ rows'[j].attempt = rows[j].attempt
        /\ rows'[j].max_retries = rows[j].max_retries
    BY <1>2, <1>3 DEF ClaimRow, Row, IInv, TypeOK
  <1>5. Connected'
    BY <1>0, <1>3 DEF Connected, Executing
  <1>6. RowSound(j)'
    BY <1>2, <1>3, <1>4 DEF RowSound, Active, Limit
  <1>7. HandSound(w)'
    BY <1>0, <1>1, <1>2, <1>3, <1>4 DEF HandSound, StatusAt, StatusMaybe, Present, Stored, Executing
  <1> QED
    BY <1>0, <1>1, <1>3, <1>5, <1>6, <1>7, HandAlone, HandWrites

LEMMA RunWrites ==
  ASSUME IInv, ReplyInv, NEW w \in Workers,
         \/ MarkRunning(w)
         \/ MarkRunningFails(w) /\ WriteRow(rec[w].id, RunRow(rows[rec[w].id]), {})
  PROVE  ReplyInv'
  <1> USE DEF ReplyInv, InHand
  <1>0. pc[w] \in InHand /\ pc[w] = "claimed"
    BY DEF MarkRunning, MarkRunningFails, Executing
  <1>1. PICK j \in Jobs : j = rec[w].id
    BY <1>0, HandAlone
  <1>2. /\ rows[j].status \in {"claimed", "pending", "deleted"} /\ dlq[j] = <<>>
        /\ RowSound(j) /\ HandSound(w) /\ rows[j] \in Row
    BY <1>0, <1>1, HandAlone DEF HandSound, StatusAt, StatusMaybe
  <1>3. /\ rows' = UpdateRow(rows, j, RunRow(rows[j])) /\ dlq' = dlq
        /\ \/ pc'[w] = "running" /\ rec'[w] = rec[w]
           \/ pc'[w] = "exited"
        /\ \A v \in Workers \ {w} : pc'[v] = pc[v] /\ rec'[v] = rec[v] /\ conn'[v] = conn[v]
        /\ pc'[w] = "running" => conn'[w] = conn[w]
    BY <1>1, <1>2 DEF MarkRunning, MarkRunningFails, Leave, WriteRow, IInv, TypeOK
  <1>4. \/ /\ rows'[j].status = "running" /\ rows'[j].attempt = rows[j].attempt
           /\ rows'[j].max_retries = rows[j].max_retries
           /\ rows[j].status \in {"claimed", "pending"}
        \/ rows'[j] = rows[j] /\ rows[j].status = "deleted"
    BY <1>2, <1>3 DEF UpdateRow, RunRow, Row, Present, Stored, IInv, TypeOK
  <1>5. Connected'
    BY <1>0, <1>3 DEF Connected, Executing
  <1>6. RowSound(j)'
    BY <1>2, <1>3, <1>4, SMTT(20) DEF RowSound, Active, Limit
  <1>7. HandSound(w)'
    BY <1>0, <1>1, <1>2, <1>3, <1>4 DEF HandSound, StatusAt, StatusMaybe, Present, Stored, Executing
  <1>8. \A k \in Jobs \ {j} : rows'[k] = rows[k] /\ dlq'[k] = dlq[k]
    BY <1>3 DEF UpdateRow
  <1> QED
    BY <1>0, <1>1, <1>3, <1>5, <1>6, <1>7, <1>8, HandAlone, HandWrites

LEMMA DoneWrites ==
  ASSUME IInv, ReplyInv, NEW w \in Workers,
         \/ WriteDone(w)
         \/ WriteDoneFails(w) /\ WriteRow(rec[w].id, DoneRow(rows[rec[w].id], w), {})
  PROVE  ReplyInv'
  <1> USE DEF ReplyInv, InHand
  <1>0. pc[w] \in InHand /\ pc[w] = "returned"
    BY DEF WriteDone, WriteDoneFails, Executing
  <1>1. PICK j \in Jobs : j = rec[w].id
    BY <1>0, HandAlone
  <1>2. /\ rows[j].status \in {"running", "pending", "deleted"} /\ dlq[j] = <<>>
        /\ RowSound(j) /\ rows[j] \in Row
        /\ Present(rows[j]) => /\ rows[j].max_retries = rec[w].max_retries
                               /\ rows[j].attempt <= rec[w].attempt
        /\ rec[w].attempt \in Nat
    <2>1. /\ rec[w].attempt \in Nat /\ rows[j] \in Row /\ rows[j].attempt \in Nat
          /\ RowSound(j) /\ HandSound(w)
      BY <1>1 DEF IInv, TypeOK, Record, Row
    <2>2. rows[j].status \in {"running", "pending", "deleted"} /\ dlq[j] = <<>>
      BY <1>0, <1>1, <2>1 DEF HandSound, StatusAt, StatusMaybe
    <2> QED
      BY <1>0, <1>1, <2>1, <2>2 DEF HandSound
  <1>3. /\ rows' = UpdateRow(rows, j, DoneRow(rows[j], w)) /\ dlq' = dlq
        /\ pc'[w] \in {"unlock", "raised"} /\ rec' = rec /\ conn' = conn
        /\ \A v \in Workers \ {w} : pc'[v] = pc[v]
    BY <1>1, <1>2 DEF WriteDone, WriteDoneFails, WriteRow, IInv, TypeOK
  <1>4. \/ /\ rows'[j].status = "done" /\ rows'[j].attempt = rows[j].attempt + 1
           /\ rows'[j].max_retries = rows[j].max_retries
           /\ rows[j].status \in {"running", "pending"} /\ rows[j].attempt \in Nat
           /\ rows[j].max_retries \in Nat
        \/ rows'[j] = rows[j] /\ rows[j].status = "deleted"
    BY <1>2, <1>3 DEF UpdateRow, DoneRow, Row, Present, Stored, IInv, TypeOK
  <1>5. Connected'
    BY <1>0, <1>3 DEF Connected, Executing
  <1>6. RowSound(j)'
    BY <1>2, <1>3, <1>4, SMTT(20) DEF RowSound, Active, Limit
  <1>7. HandSound(w)'
    BY <1>0, <1>1, <1>2, <1>3, <1>4 DEF HandSound, StatusAt, StatusMaybe, Present, Stored, Executing
  <1>8. \A k \in Jobs \ {j} : rows'[k] = rows[k] /\ dlq'[k] = dlq[k]
    BY <1>3 DEF UpdateRow
  <1> QED
    BY <1>0, <1>1, <1>3, <1>5, <1>6, <1>7, <1>8, HandAlone, HandWrites

LEMMA FailureWrites ==
  ASSUME IInv, ReplyInv, NEW w \in Workers,
         HandleFailure(w) \/ (HandleFailureFails(w) /\ SettleFailure(w))
  PROVE  ReplyInv'
  <1> USE DEF ReplyInv, InHand
  <1>0. pc[w] \in InHand /\ pc[w] = "raised" /\ SettleFailure(w)
    BY DEF HandleFailure, HandleFailureFails, Executing
  <1>1. PICK j \in Jobs : j = rec[w].id
    BY <1>0, HandAlone
  <1>2. /\ rows[j].status \in {"running", "pending", "deleted", "done"} /\ dlq[j] = <<>>
        /\ RowSound(j) /\ rows[j] \in Row
        /\ Present(rows[j]) => /\ rows[j].max_retries = rec[w].max_retries
                               /\ rows[j].attempt <= rec[w].attempt + 1
        /\ rec[w].attempt \in Nat /\ rec[w].max_retries \in Nat
        /\ rows[j].attempt \in Nat /\ rows[j].max_retries \in Nat
    <2>1. /\ rec[w].attempt \in Nat /\ rec[w].max_retries \in Nat
          /\ rows[j] \in Row /\ rows[j].attempt \in Nat /\ rows[j].max_retries \in Nat
          /\ RowSound(j) /\ HandSound(w)
      BY <1>1 DEF IInv, TypeOK, Record, Row
    <2>2. rows[j].status \in {"running", "pending", "deleted", "done"} /\ dlq[j] = <<>>
      BY <1>0, <1>1, <2>1 DEF HandSound, StatusAt, StatusMaybe
    <2> QED
      BY <1>0, <1>1, <2>1, <2>2 DEF HandSound
  <1>3. /\ pc'[w] \in {"unlock", "exited"}
        /\ \A v \in Workers \ {w} : pc'[v] = pc[v] /\ rec'[v] = rec[v] /\ conn'[v] = conn[v]
        /\ pc'[w] = "unlock" => conn'[w] = conn[w]
    BY DEF HandleFailure, HandleFailureFails, Leave, IInv, TypeOK
  <1>4. Connected' /\ HandSound(w)'
    BY <1>0, <1>3 DEF Connected, Executing, HandSound
  <1>5. ASSUME \A k \in Jobs \ {j} : rows'[k] = rows[k] /\ dlq'[k] = dlq[k], RowSound(j)'
        PROVE  ReplyInv'
    BY <1>0, <1>1, <1>3, <1>4, <1>5, HandAlone, HandWrites
  <1>6. CASE BuryJob(w)
    <2>1. /\ rows' = UpdateRow(rows, j, DeadRow(rows[j]))
          /\ dlq' = [dlq EXCEPT ![j] = Append(<<>>, rec[w].attempt + 1)]
      BY <1>1, <1>2, <1>6 DEF BuryJob, WriteRow
    <2>2. dlq'[j] # <<>> /\ Len(dlq'[j]) = 1
      <3>1. dlq'[j] = Append(<<>>, rec[w].attempt + 1)
        BY <2>1 DEF IInv, TypeOK
      <3> QED
        BY <3>1, <1>2, OneLetter
    <2>3. \/ /\ rows'[j].status = "dead" /\ rows'[j].attempt = rows[j].attempt + 1
             /\ rows'[j].max_retries = rows[j].max_retries
             /\ rows[j].status \in {"running", "pending", "done"}
          \/ rows'[j] = rows[j] /\ rows[j].status = "deleted"
      BY <1>2, <2>1 DEF UpdateRow, DeadRow, Row, Present, Stored, IInv, TypeOK
    <2>4. RowSound(j)'
      BY <1>2, <2>2, <2>3, SMTT(20) DEF RowSound, Active, Limit
    <2> QED
      BY <1>5, <2>1, <2>4 DEF UpdateRow
  <1>7. CASE ~Exhausted(w) /\ RetryJob(w)
    <2>1. rows' = UpdateRow(rows, j, RetryRow(rows[j])) /\ dlq' = dlq
      BY <1>1, <1>7 DEF RetryJob, WriteRow
    <2>2. rec[w].attempt + 1 < rec[w].max_retries
      BY <1>2, <1>7 DEF Exhausted
    <2>3. \/ /\ rows'[j].status = "pending" /\ rows'[j].attempt = rows[j].attempt + 1
             /\ rows'[j].max_retries = rows[j].max_retries
             /\ rows[j].status \in {"running", "pending", "done"} /\ Present(rows[j])
          \/ rows'[j] = rows[j] /\ rows[j].status = "deleted"
      BY <1>2, <2>1 DEF UpdateRow, RetryRow, Row, Present, Stored, IInv, TypeOK
    <2>4. RowSound(j)'
      BY <1>2, <2>1, <2>2, <2>3 DEF RowSound, Active, Limit
    <2> QED
      BY <1>5, <2>1, <2>4 DEF UpdateRow
  <1> QED
    BY <1>0, <1>6, <1>7 DEF SettleFailure

(* Clients, and the reaper. *)
LEMMA OutsideWrites ==
  ASSUME IInv, ReplyInv,
         \/ \E j \in Jobs : Enqueue(j) \/ Cancel(j)
         \/ \E w \in Workers : Reap(w)
  PROVE  ReplyInv'
  <1> USE DEF ReplyInv, InHand
  <1>1. dlq' = dlq /\ pc' = pc /\ rec' = rec /\ conn' = conn
    BY DEF Enqueue, Cancel, Reap
  <1>2. Connected'
    BY <1>1 DEF Connected
  <1>3. ASSUME NEW j \in Jobs, Enqueue(j)
        PROVE  ReplyInv'
    <2>1. PICK m \in RetryLimits, d \in BOOLEAN : rows' = [rows EXCEPT ![j] = InsertRow(m, d)]
      BY <1>3 DEF Enqueue
    <2>2. /\ rows[j].status = "unborn" /\ rows'[j].status = "pending"
          /\ rows'[j].attempt = 0 /\ rows'[j].max_retries = m /\ m \in Nat
      BY <1>3, <2>1, LimitsAssumption DEF Enqueue, InsertRow, IInv, TypeOK
    <2>0. \A k \in Jobs \ {j} : JobOf(k)' = JobOf(k)
      BY <2>1 DEF JobOf, IInv, TypeOK
    <2>3. RowSound(j)'
      BY <1>1, <2>2 DEF RowSound, Active, Limit
    <2>4. \A w \in Workers : pc[w] \in InHand => rec[w].id # j
      BY <2>2 DEF HandSound, StatusAt, StatusMaybe
    <2>5. ASSUME NEW w \in Workers
          PROVE  HandSound(w)'
      <3>1. pc[w] \in InHand => \E k \in Jobs : /\ k = rec[w].id
                                                /\ JobOf(k)' = JobOf(k)
                                                /\ dlq'[k] = dlq[k]
        BY <1>1, <2>0, <2>4, HandAlone
      <3> QED
        BY <1>1, <3>1, HandStays
    <2>6. \A k \in Jobs \ {j} : RowSound(k)'
      BY <1>1, <2>0, RowStays
    <2> QED
      BY <1>2, <2>3, <2>5, <2>6
  <1>4. ASSUME NEW j \in Jobs, Cancel(j)
        PROVE  ReplyInv'
    <2>1. rows[j].status = "pending" /\ rows' = [rows EXCEPT ![j] = DeletedRow]
      BY <1>4 DEF Cancel, WriteRow, UpdateRow, Pending, Present, Stored
    <2>0. \A k \in Jobs \ {j} : JobOf(k)' = JobOf(k)
      BY <2>1 DEF JobOf, IInv, TypeOK
    <2>2. rows'[j].status = "deleted"
      BY <2>1 DEF DeletedRow, InsertRow, IInv, TypeOK
    <2>3. RowSound(j)'
      BY <1>1, <2>1, <2>2 DEF RowSound, Active
    <2>4. ASSUME NEW w \in Workers
          PROVE  HandSound(w)'
      <3>1. CASE pc[w] \in InHand /\ rec[w].id = j
        <4>1. pc[w] # "selected"
          BY <1>4, <3>1 DEF Cancel, RowLocked
        <4> QED
          BY <1>1, <2>2, <3>1, <4>1 DEF HandSound, StatusAt, StatusMaybe, Present, Stored
      <3> QED
        <4>1. pc[w] \in InHand /\ rec[w].id # j =>
                \E k \in Jobs : /\ k = rec[w].id
                                /\ JobOf(k)' = JobOf(k)
                                /\ dlq'[k] = dlq[k]
          BY <1>1, <2>0, HandAlone
        <4> QED
          BY <1>1, <3>1, <4>1, HandStays DEF HandSound
    <2>5. \A k \in Jobs \ {j} : RowSound(k)'
      BY <1>1, <2>0, RowStays
    <2> QED
      BY <1>2, <2>3, <2>4, <2>5
  <1>5. ASSUME NEW w \in Workers, Reap(w)
        PROVE  ReplyInv'
    <2>1. ASSUME NEW j \in Jobs
          PROVE  \/ JobOf(j)' = JobOf(j)
                 \/ /\ rows'[j].status = "pending" /\ rows[j].status \in {"claimed", "running"}
                    /\ rows'[j].attempt = rows[j].attempt
                    /\ rows'[j].max_retries = rows[j].max_retries
      <3>1. rows[j] \in Row
        BY DEF IInv, TypeOK
      <3>2. rows'[j] = IF Reapable(rows[j]) THEN ReapRow(rows[j]) ELSE rows[j]
        BY <1>5 DEF Reap
      <3> QED
        BY <3>1, <3>2 DEF Reapable, ReapRow, Row, JobOf
    <2>2. \A j \in Jobs : RowSound(j)'
      BY <1>1, <2>1, RowStays DEF RowSound, Active, Limit
    <2>3. ASSUME NEW v \in Workers
          PROVE  HandSound(v)'
      <3>1. CASE pc[v] \in InHand
        <4>1. PICK j \in Jobs : j = rec[v].id
          BY <3>1, HandAlone
        <4>2. CASE JobOf(j)' = JobOf(j)
          BY <1>1, <3>1, <4>1, <4>2, HandStays
        <4>3. CASE /\ rows'[j].status = "pending" /\ rows[j].status \in {"claimed", "running"}
                   /\ rows'[j].attempt = rows[j].attempt
                   /\ rows'[j].max_retries = rows[j].max_retries
          BY <1>1, <3>1, <4>1, <4>3 DEF HandSound, StatusAt, StatusMaybe, Present, Stored
        <4> QED
          BY <2>1, <4>2, <4>3
      <3> QED
        BY <1>1, <3>1 DEF HandSound
    <2> QED
      BY <1>2, <2>2, <2>3
  <1> QED
    BY <1>3, <1>4, <1>5

LEMMA SelectSound ==
  ASSUME IInv, ReplyInv, NEW w \in Workers, NEW j \in Jobs, SelectRow(w, j)
  PROVE  ReplyInv'
  <1> USE DEF ReplyInv, InHand
  <1>1. /\ rows' = rows /\ dlq' = dlq /\ conn' = conn
        /\ pc[w] = "scan" /\ pc'[w] = "selected" /\ rec'[w] = RecordOf(j)
        /\ \A v \in Workers \ {w} : pc'[v] = pc[v] /\ rec'[v] = rec[v]
        /\ rows[j].status = "pending" /\ rows[j] \in Row
    BY DEF SelectRow, Reached, StillEligible, Pending, IInv, TypeOK
  <1>2. Connected'
    BY <1>1 DEF Connected, Executing
  <1>3. \A k \in Jobs : RowSound(k)'
    BY <1>1, RowStays DEF JobOf
  <1>4. ASSUME NEW v \in Workers \ {w}
        PROVE  HandSound(v)'
    BY <1>1, <1>4, HandStays DEF IInv, HasRecord, JobOf
  <1>5. HandSound(w)'
    <2>1. dlq[j] = <<>>
      BY <1>1 DEF RowSound
    <2> QED
      BY <1>1, <2>1 DEF HandSound, RecordOf, StatusAt, StatusMaybe, Row
  <1> QED
    BY <1>2, <1>3, <1>4, <1>5

(* Everything that leaves the lifecycle columns alone. *)
LEMMA StillSteps ==
  ASSUME "session" \notin Faults, IInv, ReplyInv,
         \/ \E j \in Jobs : BecomeDue(j) \/ Expire(j)
         \/ \E w \in Workers :
              \/ Start(w) \/ BeginScan(w) \/ FindNothing(w) \/ Wake(w)
              \/ HandlerEnds(w) \/ Unlock(w) \/ Heartbeat(w) \/ Stopping(w)
              \/ ClaimFails(w) \/ HandlerHangs(w) \/ HandlerSpins(w) \/ Kill(w)
              \/ LoseSession(w) \/ LoseSessionInClaim(w)
              \/ (MarkRunningFails(w) \/ WriteDoneFails(w)) /\ UNCHANGED rows
              \/ HandleFailureFails(w) /\ UNCHANGED <<rows, dlq>>
              \/ \E j \in Jobs : Probe(w, j) \/ SkipRow(w, j)
  PROVE  ReplyInv'
  <1> USE DEF IInv, TypeOK, ReplyInv, Connected, InHand, Executing, StatusAt, StatusMaybe
  <1>1. ASSUME NEW j \in Jobs, BecomeDue(j) \/ Expire(j)
        PROVE  ReplyInv'
    <2>1. \A k \in Jobs : JobOf(k)' = JobOf(k)
      <3>1. rows[j] \in Row
        OBVIOUS
      <3>2. /\ rows' = [rows EXCEPT ![j] = rows'[j]]
            /\ \/ rows'[j] = [rows[j] EXCEPT !.due = TRUE]
               \/ rows'[j] = [rows[j] EXCEPT !.heartbeat = "stale"]
        BY <1>1 DEF BecomeDue, Expire
      <3>3. JobOf(j)' = JobOf(j)
        BY <3>1, <3>2 DEF JobOf, Row
      <3>4. \A k \in Jobs \ {j} : rows'[k] = rows[k]
        BY <3>2
      <3> QED
        BY <3>3, <3>4 DEF JobOf
    <2> QED
      BY <1>1, <2>1, ReplyUnseen DEF BecomeDue, Expire
  <1>2. ASSUME NEW w \in Workers, Heartbeat(w)
        PROVE  ReplyInv'
    <2>1. \A k \in Jobs : JobOf(k)' = JobOf(k)
      BY <1>2 DEF Heartbeat, JobOf, BeatRow, Row
    <2> QED
      BY <1>2, <2>1, ReplyUnseen DEF Heartbeat
  <1>3. ASSUME rows' = rows
        PROVE  \A k \in Jobs : JobOf(k)' = JobOf(k)
    BY <1>3 DEF JobOf
  <1>4. ASSUME NEW w \in Workers,
               Start(w) \/ BeginScan(w) \/ FindNothing(w) \/ Wake(w)
        PROVE  ReplyInv'
    <2>1. /\ rows' = rows /\ dlq' = dlq /\ rec' = rec
          /\ \A v \in Workers \ {w} : pc'[v] = pc[v] /\ conn'[v] = conn[v]
          /\ pc'[w] \in {"claim", "wait"} \/ (pc'[w] = "scan" /\ conn'[w])
      BY <1>4 DEF Start, BeginScan, FindNothing, Wake
    <2>2. \A v \in Workers : pc'[v] \in InHand => v # w
      BY <2>1
    <2>3. Connected'
      BY <2>1
    <2> HIDE DEF TypeOK, Connected, InHand, StatusMaybe
    <2> QED
      BY <1>3, <2>1, <2>2, <2>3, ReplyUnseen
  <1>5. ASSUME NEW w \in Workers,
               HandlerEnds(w) \/ Unlock(w) \/ HandlerHangs(w) \/ HandlerSpins(w)
               \/ (WriteDoneFails(w) /\ UNCHANGED rows)
        PROVE  ReplyInv'
    BY <1>3, <1>5, ReplyUnseen DEF HandlerEnds, Unlock, HandlerHangs, HandlerSpins, WriteDoneFails
  <1>6. ASSUME NEW w \in Workers, rows' = rows, dlq' = dlq,
               \E step \in {"exited", "dead"} : Leave(w, step)
        PROVE  ReplyInv'
    BY <1>3, <1>6, ReplyUnseen DEF Leave
  <1>7. ASSUME NEW w \in Workers,
               \/ LeaveLoop(w) \/ ClaimFails(w) \/ Kill(w)
               \/ MarkRunningFails(w) /\ UNCHANGED rows
               \/ HandleFailureFails(w) /\ UNCHANGED <<rows, dlq>>
        PROVE  ReplyInv'
    BY <1>6, <1>7 DEF LeaveLoop, ClaimFails, Kill, MarkRunningFails, HandleFailureFails
  <1>8. ASSUME NEW w \in Workers, Stop(w) \/ StopBeating(w)
        PROVE  ReplyInv'
    BY <1>3, <1>8, ReplyUnseen DEF Stop, StopBeating
  <1>9. ASSUME NEW w \in Workers, NEW j \in Jobs, Probe(w, j) \/ SkipRow(w, j)
        PROVE  ReplyInv'
    BY <1>3, <1>9, ReplyUnseen DEF Probe, SkipRow
  <1>10. ASSUME NEW w \in Workers, LoseSession(w) \/ LoseSessionInClaim(w)
         PROVE  FALSE
    BY <1>10 DEF LoseSession, LoseSessionInClaim
  <1> QED
    BY <1>1, <1>2, <1>4, <1>5, <1>7, <1>8, <1>9, <1>10 DEF Stopping

LEMMA NextReply ==
  ASSUME "session" \notin Faults, IInv, ReplyInv, [Next]_vars
  PROVE  ReplyInv'
  <1>1. CASE UNCHANGED vars
    <2>1. \A j \in Jobs : JobOf(j)' = JobOf(j)
      BY <1>1 DEF vars, JobOf
    <2> QED
      BY <1>1, <2>1, ReplyUnseen DEF vars, ReplyInv, Connected, IInv
  <1>2. ASSUME NEW w \in Workers, Failing(w)
        PROVE  ReplyInv'
    <2>1. CASE MarkRunningFails(w)
      BY <2>1, RunWrites, StillSteps DEF MarkRunningFails, StatementFails
    <2>2. CASE WriteDoneFails(w)
      BY <2>2, DoneWrites, StillSteps DEF WriteDoneFails, StatementFails
    <2>3. CASE HandleFailureFails(w)
      BY <2>3, FailureWrites, StillSteps DEF HandleFailureFails
    <2>4. CASE CommitReplyLost(w)
      BY <2>4, ClaimWrites
    <2> QED
      BY <1>2, <2>1, <2>2, <2>3, <2>4, StillSteps DEF Failing
  <1>3. CASE Next
    BY <1>2, <1>3, ClaimWrites, RunWrites, DoneWrites, FailureWrites, OutsideWrites, SelectSound,
       StillSteps DEF Next, Claiming, Running
  <1> QED
    BY <1>1, <1>3

(* A lost reply to 'done' is handled as a failure (worker.py:213): one     *)
(* execution may count twice, and the end of the retry twice again, but    *)
(* the attempts never pass the limit by more than two, and a job has never *)
(* a second dead letter.                                                   *)
THEOREM RepliesCostTwo ==
  ASSUME "session" \notin Faults
  PROVE  Spec => []ReplyOverrun
  <1>1. Init => ReplyInv
    BY DEF Init, ReplyInv, Connected, HandSound, RowSound, Active, InHand, Executing, UnbornRow,
           InsertRow, Present, Stored
  <1>2. IInv /\ ReplyInv /\ [Next]_vars => ReplyInv'
    BY NextReply
  <1>3. IInv /\ ReplyInv => ReplyOverrun
    <2> SUFFICES ASSUME IInv, ReplyInv, NEW j \in Jobs
                 PROVE  /\ Present(rows[j]) => rows[j].attempt <= Limit(j) + 2
                        /\ Len(dlq[j]) <= 1
      BY DEF ReplyOverrun
    <2>1. RowSound(j) /\ rows[j] \in Row
      BY DEF ReplyInv, IInv, TypeOK
    <2>2. rows[j].attempt \in Nat /\ Limit(j) \in Nat
      BY <2>1 DEF Row, Limit
    <2>3. Present(rows[j]) => rows[j].attempt <= Limit(j) + 2
      BY <2>1, <2>2 DEF RowSound, Active, Present, Stored
    <2>4. Len(dlq[j]) <= 1
      <3>1. CASE dlq[j] = <<>>
        BY <3>1
      <3>2. CASE dlq[j] # <<>>
        <4>1. Len(dlq[j]) = 1
          BY <2>1, <3>2 DEF RowSound
        <4> QED
          BY <4>1
      <3> QED
        BY <3>1, <3>2
    <2> QED
      BY <2>3, <2>4
  <1> QED
    BY <1>1, <1>2, <1>3, Invariance, PTL DEF Spec

-------------------------------------------------------------------------------
(* Lost sessions, with replies that arrive.  A worker that lost its claim  *)
(* session in the hand of a job may cost three attempts of it, once each.  *)

Lost(w) == ~conn[w] /\ pc[w] # "new"

OnJob(w, j) == pc[w] \in InHand /\ rec[w].id = j
Hands(j) == {w \in Workers : OnJob(w, j)}

(* What it has cost so far, at most: <<w, 1>> by its late 'running', which *)
(* may reopen the row, <<w, 2>> and <<w, 3>> by its late outcome, which    *)
(* counts and may reopen the row once more.                                *)
Spent(j) ==
  {t \in Workers \X (1 .. 3) :
     Lost(t[1]) /\ (OnJob(t[1], j) => pc[t[1]] # "claimed" /\ t[2] = 1)}

Ceiling(j) == Limit(j) + Cardinality(Spent(j))

(* Attempts so far, and those to come from whoever has the job properly:   *)
(* an open row will be executed, an execution counts, and it may leave the *)
(* row open if its record says so.                                         *)
BudgetOK(j) ==
  Present(rows[j]) =>
    /\ rows[j].attempt <= Ceiling(j)
    /\ Active(j) => rows[j].attempt + 1 <= Ceiling(j)
    /\ \A w \in Workers : OnJob(w, j) /\ conn[w] =>
         /\ rows[j].attempt + 1 <= Ceiling(j)
         /\ rec[w].attempt + 1 < rec[w].max_retries => rows[j].attempt + 2 <= Ceiling(j)

Others == 3 * (Cardinality(Workers) - 1)

(* When the last session is gone nobody claims, and what is in hand counts *)
(* once.                                                                   *)
LastOnes(j) ==
  Present(rows[j]) /\ (\A w \in Workers : Lost(w)) =>
    rows[j].attempt + Cardinality(Hands(j)) <= Limit(j) + Others

(* A claim transaction ends with its session. *)
Attached == \A w \in Workers : pc[w] \in {"scan", "selected"} => conn[w]

(* Nobody has a job in hand that was not enqueued. *)
Born == \A w \in Workers : pc[w] \in InHand => rows[rec[w].id].status # "unborn"

SessionInv == /\ Attached
              /\ Born
              /\ \A j \in Jobs : BudgetOK(j) /\ LastOnes(j)
(* A finite number of workers, at least one. *)
SomeWorkers == IsFiniteSet(Workers) /\ Workers # {}

(* Counting the costs. *)
LEMMA Three == IsFiniteSet(1 .. 3) /\ Cardinality(1 .. 3) = 3
  <1>1. ASSUME NEW n \in Nat
        PROVE  IsFiniteSet(1 .. n) /\ Cardinality(1 .. n) = n
    BY FS_Interval
  <1>2. 3 \in Nat
    OBVIOUS
  <1> QED
    BY <1>1, <1>2, Zenon

LEMMA SpentFinite ==
  ASSUME SomeWorkers, NEW j \in Jobs
  PROVE  /\ IsFiniteSet(Spent(j)) /\ Cardinality(Spent(j)) \in Nat
         /\ IsFiniteSet(Hands(j))
         /\ Cardinality(Hands(j)) \in Nat
         /\ Cardinality(Workers) \in Nat /\ Cardinality(Workers) >= 1
  <1>1. IsFiniteSet(1 .. 3)
    BY Three
  <1>2. IsFiniteSet(Workers \X (1 .. 3))
    BY <1>1, FS_Product DEF SomeWorkers
  <1>3. Spent(j) \subseteq Workers \X (1 .. 3)
    BY DEF Spent
  <1>4. IsFiniteSet(Spent(j))
    BY <1>2, <1>3, FS_Subset
  <1>5. IsFiniteSet(Hands(j))
    <2>1. Hands(j) \in SUBSET Workers
      BY DEF Hands
    <2> QED
      BY <2>1, FS_Subset DEF SomeWorkers
  <1>6. Cardinality(Workers) \in Nat /\ Cardinality(Workers) # 0
    BY FS_CardinalityType, FS_EmptySet DEF SomeWorkers
  <1> QED
    BY <1>4, <1>5, <1>6, FS_CardinalityType

(* All costs but those of one worker, and one more of each of those that   *)
(* have not had their last. *)
LEMMA Room ==
  ASSUME SomeWorkers, NEW w \in Workers,
         NEW T \in SUBSET (Workers \X (1 .. 3)), \A t \in T : t[1] # w,
         NEW R \in SUBSET (Workers \ {w}), \A v \in R : <<v, 3>> \notin T
  PROVE  Cardinality(T) + Cardinality(R) <= Others
  <1> DEFINE W == Workers \ {w}
             P == W \X (1 .. 3)
             Q == R \X {3}
  <1>1. IsFiniteSet(W) /\ Cardinality(W) = Cardinality(Workers) - 1
    BY FS_RemoveElement DEF SomeWorkers
  <1>2. IsFiniteSet(1 .. 3) /\ Cardinality(1 .. 3) = 3
    BY Three
  <1>3. IsFiniteSet(P) /\ Cardinality(P) = Cardinality(W) * 3
    BY <1>1, <1>2, FS_Product
  <1>4. IsFiniteSet(R) /\ Cardinality(R) \in Nat
    BY <1>1, FS_Subset, FS_CardinalityType
  <1>5. IsFiniteSet(Q) /\ Cardinality(Q) = Cardinality(R)
    <2>1. IsFiniteSet({3}) /\ Cardinality({3}) = 1
      BY FS_Singleton
    <2>2. IsFiniteSet(Q) /\ Cardinality(Q) = Cardinality(R) * Cardinality({3})
      BY <1>4, <2>1, FS_Product
    <2> QED
      BY <1>4, <2>1, <2>2
  <1>6. T \subseteq P
    <2> SUFFICES ASSUME NEW t \in T PROVE t \in P
      OBVIOUS
    <2>1. t \in Workers \X (1 .. 3) /\ t[1] # w
      OBVIOUS
    <2> QED
      BY <2>1
  <1>7. Q \subseteq P /\ T \cap Q = {}
    OBVIOUS
  <1>8. IsFiniteSet(T) /\ Cardinality(T) \in Nat
    BY <1>3, <1>6, FS_Subset, FS_CardinalityType
  <1>9. Cardinality(T \cup Q) = Cardinality(T) + Cardinality(Q) - Cardinality(T \cap Q)
    BY <1>5, <1>8, FS_Union
  <1>10. Cardinality(T \cap Q) = 0
    BY <1>7, FS_EmptySet
  <1>11. Cardinality(T \cup Q) <= Cardinality(P)
    BY <1>3, <1>6, <1>7, FS_Subset
  <1>12. Cardinality(Workers) \in Nat
    BY FS_CardinalityType DEF SomeWorkers
  <1> HIDE DEF W, P, Q
  <1> QED
    BY <1>1, <1>3, <1>4, <1>5, <1>8, <1>9, <1>10, <1>11, <1>12 DEF Others

(* What costs there were, stay. *)
LEMMA CostsStay ==
  ASSUME SomeWorkers, NEW j \in Jobs, NEW w \in Workers,
         \A v \in Workers \ {w} : pc'[v] = pc[v] /\ conn'[v] = conn[v] /\ rec'[v] = rec[v],
         Lost(w) => Lost(w)',
         Lost(w) /\ OnJob(w, j)' => OnJob(w, j) /\ (pc'[w] = "claimed" => pc[w] = "claimed")
  PROVE  /\ Spent(j) \subseteq Spent(j)' /\ IsFiniteSet(Spent(j)')
         /\ Cardinality(Spent(j)) <= Cardinality(Spent(j)')
         /\ Cardinality(Spent(j)') \in Nat
  <1>1. Spent(j) \subseteq Spent(j)'
    <2> SUFFICES ASSUME NEW t \in Workers \X (1 .. 3),
                        Lost(t[1]), OnJob(t[1], j) => pc[t[1]] # "claimed" /\ t[2] = 1
                 PROVE  Lost(t[1])' /\ (OnJob(t[1], j)' => pc'[t[1]] # "claimed" /\ t[2] = 1)
      BY DEF Spent
    <2>1. t[1] \in Workers
      OBVIOUS
    <2>2. CASE t[1] = w
      BY <2>2
    <2>3. CASE t[1] # w
      BY <2>1, <2>3 DEF Lost, OnJob
    <2> QED
      BY <2>2, <2>3
  <1>2. IsFiniteSet(Spent(j)')
    <2>1. IsFiniteSet(Workers \X (1 .. 3))
      BY Three, FS_Product DEF SomeWorkers
    <2>2. Spent(j)' \subseteq Workers \X (1 .. 3)
      BY DEF Spent
    <2> QED
      BY <2>1, <2>2, FS_Subset
  <1> QED
    BY <1>1, <1>2, FS_Subset, FS_CardinalityType

(* The types the arithmetic needs. *)
LEMMA Sizes ==
  ASSUME SomeWorkers, IInv, NEW j \in Jobs
  PROVE  /\ rows[j].attempt \in Nat /\ rows[j].max_retries \in Nat /\ Limit(j) \in Nat
         /\ Limit(j) >= 1 /\ Limit(j) >= rows[j].max_retries
         /\ Cardinality(Spent(j)) \in Nat /\ Ceiling(j) \in Nat
         /\ Cardinality(Hands(j)) \in Nat
         /\ Others \in Nat
         /\ \A w \in Workers : rec[w].attempt \in Nat /\ rec[w].max_retries \in Nat
  <1>1. rows[j] \in Row /\ \A w \in Workers : rec[w] \in Record
    BY DEF IInv, TypeOK
  <1>2. rows[j].attempt \in Nat /\ rows[j].max_retries \in Nat
    BY <1>1 DEF Row
  <1>3. Limit(j) \in Nat /\ Limit(j) >= 1 /\ Limit(j) >= rows[j].max_retries
    BY <1>2 DEF Limit
  <1>4. Cardinality(Spent(j)) \in Nat /\ Ceiling(j) \in Nat
    BY <1>3, SpentFinite DEF Ceiling
  <1>5. Others \in Nat
    BY SpentFinite DEF Others
  <1> QED
    BY <1>1, <1>2, <1>3, <1>4, <1>5, SpentFinite DEF Record

(* Steps that count no attempt of job j, open none, and put it in nobody's *)
(* hand.                                                                   *)
LEMMA NoAttempt ==
  ASSUME SomeWorkers, IInv, IInv', NEW j \in Jobs, BudgetOK(j), LastOnes(j), NEW w \in Workers,
         Present(rows'[j]) => /\ Present(rows[j])
                              /\ rows'[j].attempt = rows[j].attempt
                              /\ rows'[j].max_retries = rows[j].max_retries
                              /\ Active(j)' => Active(j),
         \A v \in Workers \ {w} : pc'[v] = pc[v] /\ conn'[v] = conn[v] /\ rec'[v] = rec[v],
         Lost(w) => Lost(w)',
         OnJob(w, j)' => /\ OnJob(w, j) /\ rec'[w] = rec[w] /\ (conn'[w] => conn[w])
                         /\ pc'[w] = "claimed" => pc[w] = "claimed"
  PROVE  BudgetOK(j)' /\ LastOnes(j)'
  <1> SUFFICES ASSUME Present(rows'[j])
               PROVE  BudgetOK(j)' /\ LastOnes(j)'
    BY DEF BudgetOK, LastOnes
  <1>0. /\ Present(rows[j]) /\ rows'[j].attempt = rows[j].attempt
        /\ Active(j)' => Active(j)
        /\ Limit(j)' = Limit(j)
    BY DEF Limit
  <1> DEFINE a == rows[j].attempt
             l == Limit(j)
             t == Cardinality(Spent(j))
             u == Cardinality(Spent(j)')
  <1>1. a \in Nat /\ l \in Nat /\ t \in Nat /\ u \in Nat /\ t <= u
    BY Sizes, CostsStay
  <1>2. Ceiling(j) = l + t /\ Ceiling(j)' = l + u
    BY <1>0 DEF Ceiling
  <1>3. /\ a <= l + t /\ (Active(j) => a + 1 <= l + t)
        /\ \A v \in Workers : OnJob(v, j) /\ conn[v] =>
             /\ a + 1 <= l + t
             /\ rec[v].attempt + 1 < rec[v].max_retries => a + 2 <= l + t
    BY <1>0, <1>2 DEF BudgetOK
  <1>4. \A v \in Workers : OnJob(v, j)' => OnJob(v, j) /\ rec'[v] = rec[v] /\ (conn'[v] => conn[v])
    BY DEF OnJob
  <1>5. BudgetOK(j)'
    <2>1. a <= l + u /\ (Active(j)' => a + 1 <= l + u)
      BY <1>0, <1>1, <1>3
    <2>2. ASSUME NEW v \in Workers, OnJob(v, j)', conn'[v]
          PROVE  /\ a + 1 <= l + u
                 /\ rec'[v].attempt + 1 < rec'[v].max_retries => a + 2 <= l + u
      BY <1>1, <1>3, <1>4, <2>2
    <2> HIDE DEF a, l, u
    <2>3. BudgetOK(j)' <=>
            (Present(rows'[j]) =>
              /\ rows'[j].attempt <= Ceiling(j)'
              /\ Active(j)' => rows'[j].attempt + 1 <= Ceiling(j)'
              /\ \A v \in Workers : OnJob(v, j)' /\ conn'[v] =>
                   /\ rows'[j].attempt + 1 <= Ceiling(j)'
                   /\ rec'[v].attempt + 1 < rec'[v].max_retries =>
                        rows'[j].attempt + 2 <= Ceiling(j)')
      BY DEF BudgetOK
    <2>4. rows'[j].attempt = a
      BY <1>0 DEF a
    <2> QED
      BY <1>2, <2>1, <2>2, <2>3, <2>4
  <1>6. LastOnes(j)'
    <2> DEFINE H == Hands(j)
               I == Hands(j)'
    <2>0. \A v : v \in I <=> v \in Workers /\ OnJob(v, j)'
      BY DEF Hands
    <2> SUFFICES ASSUME \A v \in Workers : Lost(v)'
                 PROVE  a + Cardinality(I) <= l + Others
      BY <1>0 DEF LastOnes
    <2>1. IsFiniteSet(H) /\ Cardinality(H) \in Nat /\ Others \in Nat
      BY SpentFinite, Sizes
    <2>2. I \subseteq H
      BY <1>4 DEF Hands
    <2>3. IsFiniteSet(I) /\ Cardinality(I) \in Nat /\ Cardinality(I) <= Cardinality(H)
      BY <2>1, <2>2, FS_Subset, FS_CardinalityType
    <2>4. CASE \A v \in Workers : Lost(v)
      <3>1. a + Cardinality(H) <= l + Others
        BY <1>0, <2>4 DEF LastOnes
      <3> HIDE DEF a, l, H, I
      <3> QED
        BY <1>1, <2>1, <2>3, <3>1
    <2>5. CASE ~\A v \in Workers : Lost(v)
      <3>1. ~Lost(w)
        <4>1. \A v \in Workers \ {w} : Lost(v)' <=> Lost(v)
          BY DEF Lost
        <4> QED
          BY <2>5, <4>1
      <3>2. \A v \in I \ {w} : OnJob(v, j) /\ Lost(v)
        BY <1>4, <2>0 DEF Lost
      <3>3. /\ Spent(j) \in SUBSET (Workers \X (1 .. 3))
            /\ \A x \in Spent(j) : x[1] # w
        BY <3>1 DEF Spent
      <3>4. ASSUME NEW v \in I \ {w}
            PROVE  <<v, 3>> \notin Spent(j)
        BY <3>2 DEF Spent
      <3>5. t + Cardinality(I \ {w}) <= Others
        <4>1. I \ {w} \in SUBSET (Workers \ {w})
          BY <2>0
        <4> HIDE DEF I
        <4> QED
          BY <3>3, <3>4, <4>1, Room
      <3>6. IsFiniteSet(I \ {w}) /\ Cardinality(I \ {w}) \in Nat
        BY <2>3, FS_Subset, FS_CardinalityType
      <3>7. CASE w \in I
        <4>1. Cardinality(I) = Cardinality(I \ {w}) + 1
          <5> HIDE DEF I
          <5>1. Cardinality(I \ {w}) = Cardinality(I) - 1
            BY <2>3, <3>7, FS_RemoveElement
          <5> QED
            BY <2>3, <5>1
        <4>2. OnJob(w, j) /\ conn[w]
          <5>1. OnJob(w, j)
            BY <1>4, <2>0, <3>7
          <5>2. pc[w] # "new"
            BY <5>1 DEF OnJob, InHand, Executing
          <5> QED
            BY <3>1, <5>1, <5>2 DEF Lost
        <4>3. a + 1 <= l + t
          BY <1>3, <4>2
        <4> HIDE DEF a, l, t, I
        <4> QED
          BY <1>1, <2>1, <3>5, <3>6, <4>1, <4>3
      <3>8. CASE w \notin I
        <4>1. I \ {w} = I
          BY <3>8
        <4>2. a <= l + t
          BY <1>3
        <4> HIDE DEF a, l, t, I
        <4> QED
          BY <1>1, <2>1, <2>3, <3>5, <4>1, <4>2
      <3> QED
        BY <3>7, <3>8
    <2> QED
      BY <2>4, <2>5
  <1> QED
    BY <1>5, <1>6

(* A worker takes its job a step on, by an UPDATE that counts no attempt:  *)
(* its own if the session lives, a late 'running' otherwise.               *)
LEMMA Reopened ==
  ASSUME SomeWorkers, IInv, NEW j \in Jobs, BudgetOK(j), LastOnes(j),
         NEW w \in Workers, OnJob(w, j),
         conn' = conn, rec' = rec, pc'[w] \in InHand,
         \A v \in Workers \ {w} : pc'[v] = pc[v],
         conn[w] \/ (pc[w] = "claimed" /\ pc'[w] = "running"),
         pc'[w] # "claimed" \/ conn[w],
         Present(rows'[j]) => /\ Present(rows[j])
                              /\ rows'[j].attempt = rows[j].attempt
                              /\ rows'[j].max_retries = rows[j].max_retries
  PROVE  BudgetOK(j)' /\ LastOnes(j)'
  <1> SUFFICES ASSUME Present(rows'[j])
               PROVE  BudgetOK(j)' /\ LastOnes(j)'
    BY DEF BudgetOK, LastOnes
  <1>0. /\ Present(rows[j]) /\ rows'[j].attempt = rows[j].attempt
        /\ Limit(j)' = Limit(j)
    BY DEF Limit
  <1> DEFINE a == rows[j].attempt
             l == Limit(j)
             t == Cardinality(Spent(j))
             u == Cardinality(Spent(j)')
  <1>1. a \in Nat /\ l \in Nat /\ t \in Nat /\ u \in Nat /\ t <= u /\ IsFiniteSet(Spent(j)')
        /\ Spent(j) \subseteq Spent(j)' /\ IsFiniteSet(Spent(j))
    <2>1. Lost(w) => Lost(w)'
      BY DEF Lost, InHand, Executing
    <2>2. Lost(w) /\ OnJob(w, j)' => OnJob(w, j) /\ (pc'[w] = "claimed" => pc[w] = "claimed")
      BY DEF Lost
    <2> QED
      BY <2>1, <2>2, Sizes, CostsStay, SpentFinite
  <1>2. Ceiling(j) = l + t /\ Ceiling(j)' = l + u
    BY <1>0 DEF Ceiling
  <1>3. /\ a <= l + t
        /\ \A v \in Workers : OnJob(v, j) /\ conn[v] =>
             /\ a + 1 <= l + t
             /\ rec[v].attempt + 1 < rec[v].max_retries => a + 2 <= l + t
    BY <1>0, <1>2 DEF BudgetOK
  <1>4. \A v \in Workers : OnJob(v, j)' <=> OnJob(v, j)
    BY DEF OnJob
  <1>5. a + 1 <= l + u
    <2>1. CASE conn[w]
      <3>1. a + 1 <= l + t
        BY <1>3, <2>1
      <3> HIDE DEF a, l, t, u
      <3> QED
        BY <1>1, <3>1
    <2>2. CASE ~conn[w]
      <3>1. <<w, 1>> \in Spent(j)' /\ <<w, 1>> \notin Spent(j)
        <4>1. <<w, 1>> \in Workers \X (1 .. 3)
          OBVIOUS
        <4>2. pc[w] = "claimed" /\ pc'[w] = "running" /\ Lost(w)'
          BY <2>2 DEF Lost
        <4> QED
          BY <4>1, <4>2 DEF Spent, OnJob
      <3>2. u >= t + 1
        <4>1. Spent(j) \cup {<<w, 1>>} \in SUBSET Spent(j)'
          BY <1>1, <3>1
        <4>2. Cardinality(Spent(j) \cup {<<w, 1>>}) = t + 1
          BY <1>1, <3>1, FS_AddElement
        <4>3. Cardinality(Spent(j) \cup {<<w, 1>>}) <= u
          BY <1>1, <4>1, FS_Subset
        <4> HIDE DEF t, u
        <4> QED
          BY <1>1, <4>2, <4>3
      <3> HIDE DEF a, l, t, u
      <3> QED
        BY <1>1, <1>3, <3>2
    <2> QED
      BY <2>1, <2>2
  <1>6. BudgetOK(j)'
    <2>1. a <= l + u
      BY <1>1, <1>3
    <2>2. ASSUME NEW v \in Workers, OnJob(v, j)', conn'[v]
          PROVE  rec'[v].attempt + 1 < rec'[v].max_retries => a + 2 <= l + u
      BY <1>1, <1>3, <1>4, <2>2
    <2> HIDE DEF a, l, u
    <2>3. BudgetOK(j)' <=>
            (Present(rows'[j]) =>
              /\ rows'[j].attempt <= Ceiling(j)'
              /\ Active(j)' => rows'[j].attempt + 1 <= Ceiling(j)'
              /\ \A v \in Workers : OnJob(v, j)' /\ conn'[v] =>
                   /\ rows'[j].attempt + 1 <= Ceiling(j)'
                   /\ rec'[v].attempt + 1 < rec'[v].max_retries =>
                        rows'[j].attempt + 2 <= Ceiling(j)')
      BY DEF BudgetOK
    <2>4. rows'[j].attempt = a
      BY <1>0 DEF a
    <2> QED
      BY <1>2, <1>5, <2>1, <2>2, <2>3, <2>4
  <1>7. LastOnes(j)'
    <2>1. Hands(j)' = Hands(j)
      BY <1>4 DEF Hands
    <2>2. \A v \in Workers : Lost(v)' => Lost(v)
      BY DEF Lost, OnJob, InHand, Executing
    <2> QED
      BY <1>0, <2>1, <2>2 DEF LastOnes
  <1> QED
    BY <1>6, <1>7

(* A worker writes an outcome, which counts: its own while the session     *)
(* lives, a late one otherwise.  Nobody else has the job properly.         *)
LEMMA OutcomeWritten ==
  ASSUME SomeWorkers, IInv, NEW j \in Jobs, BudgetOK(j), LastOnes(j),
         NEW w \in Workers, OnJob(w, j),
         conn' = conn, rec' = rec, pc'[w] = "unlock",
         \A v \in Workers \ {w} : pc'[v] = pc[v],
         Present(rows'[j]) =>
           /\ Present(rows[j])
           /\ rows'[j].attempt = rows[j].attempt + 1
           /\ rows'[j].max_retries = rows[j].max_retries
           /\ Active(j)' => rec[w].attempt + 1 < rec[w].max_retries
  PROVE  BudgetOK(j)' /\ LastOnes(j)'
  <1> SUFFICES ASSUME Present(rows'[j])
               PROVE  BudgetOK(j)' /\ LastOnes(j)'
    BY DEF BudgetOK, LastOnes
  <1>0. /\ Present(rows[j]) /\ rows'[j].attempt = rows[j].attempt + 1
        /\ Limit(j)' = Limit(j)
        /\ Active(j)' => rec[w].attempt + 1 < rec[w].max_retries
    BY DEF Limit
  <1> DEFINE a == rows[j].attempt
             l == Limit(j)
             t == Cardinality(Spent(j))
             u == Cardinality(Spent(j)')
  <1>a. ~OnJob(w, j)' /\ \A v \in Workers \ {w} : OnJob(v, j)' <=> OnJob(v, j)
    BY DEF OnJob, InHand
  <1>1. a \in Nat /\ l \in Nat /\ t \in Nat /\ u \in Nat /\ t <= u /\ IsFiniteSet(Spent(j)')
        /\ Spent(j) \subseteq Spent(j)' /\ IsFiniteSet(Spent(j))
    <2>1. Lost(w) => Lost(w)'
      BY DEF Lost
    <2> QED
      BY <1>a, <2>1, Sizes, CostsStay, SpentFinite
  <1>2. Ceiling(j) = l + t /\ Ceiling(j)' = l + u
    BY <1>0 DEF Ceiling
  <1>3. /\ a <= l + t
        /\ \A v \in Workers : OnJob(v, j) /\ conn[v] =>
             /\ a + 1 <= l + t
             /\ rec[v].attempt + 1 < rec[v].max_retries => a + 2 <= l + t
    BY <1>0, <1>2 DEF BudgetOK
  <1>4. BudgetOK(j)' <=>
          /\ a + 1 <= l + u
          /\ Active(j)' => a + 1 + 1 <= l + u
          /\ \A v \in Workers : OnJob(v, j)' /\ conn'[v] =>
               /\ a + 1 + 1 <= l + u
               /\ rec[v].attempt + 1 < rec[v].max_retries => a + 1 + 2 <= l + u
    <2> HIDE DEF a, l, u
    <2>1. BudgetOK(j)' <=>
            (Present(rows'[j]) =>
              /\ rows'[j].attempt <= Ceiling(j)'
              /\ Active(j)' => rows'[j].attempt + 1 <= Ceiling(j)'
              /\ \A v \in Workers : OnJob(v, j)' /\ conn'[v] =>
                   /\ rows'[j].attempt + 1 <= Ceiling(j)'
                   /\ rec'[v].attempt + 1 < rec'[v].max_retries =>
                        rows'[j].attempt + 2 <= Ceiling(j)')
      BY DEF BudgetOK
    <2>2. rows'[j].attempt = a + 1
      BY <1>0 DEF a
    <2> QED
      BY <1>2, <2>1, <2>2
  <1>5. CASE conn[w]
    <2>1. a + 1 <= l + t /\ (Active(j)' => a + 2 <= l + t)
      BY <1>0, <1>3, <1>5
    <2>2. ASSUME NEW v \in Workers, OnJob(v, j)', conn'[v]
          PROVE  FALSE
      <3>1. v # w /\ OnJob(v, j) /\ conn[v]
        BY <1>a, <2>2
      <3>2. Owns(v, j) /\ Owns(w, j)
        BY <1>5, <3>1 DEF Owns, OnJob, InHand
      <3> QED
        BY <3>1, <3>2, Excluded DEF MutualExclusion
    <2>3. BudgetOK(j)'
      <3> HIDE DEF a, l, t, u
      <3> QED
        BY <1>1, <1>4, <2>1, <2>2
    <2>4. LastOnes(j)'
      BY <1>5 DEF LastOnes, Lost
    <2> QED
      BY <2>3, <2>4
  <1>6. CASE ~conn[w]
    <2>1. Lost(w)'
      BY <1>6 DEF Lost
    <2>2. /\ <<w, 2>> \in Spent(j)' /\ <<w, 2>> \notin Spent(j)
          /\ <<w, 3>> \in Spent(j)' /\ <<w, 3>> \notin Spent(j)
          /\ <<w, 2>> # <<w, 3>>
      <3>1. <<w, 2>> \in Workers \X (1 .. 3) /\ <<w, 3>> \in Workers \X (1 .. 3)
        OBVIOUS
      <3> QED
        BY <1>a, <2>1, <3>1 DEF Spent
    <2>3. u >= t + 2
      <3> DEFINE X == Spent(j) \cup {<<w, 2>>}
                 Y == X \cup {<<w, 3>>}
      <3>1. IsFiniteSet(X) /\ Cardinality(X) = t + 1
        BY <1>1, <2>2, FS_AddElement
      <3>2. <<w, 3>> \notin X /\ Y \in SUBSET Spent(j)'
        BY <1>1, <2>2
      <3> HIDE DEF X
      <3>3. Cardinality(Y) = Cardinality(X) + 1
        BY <3>1, <3>2, FS_AddElement
      <3>4. Cardinality(Y) <= u
        BY <1>1, <3>2, FS_Subset
      <3> HIDE DEF Y, t, u
      <3> QED
        BY <1>1, <3>1, <3>3, <3>4
    <2>4. BudgetOK(j)'
      <3>1. \A v \in Workers : OnJob(v, j)' /\ conn'[v] =>
             /\ a + 1 <= l + t
             /\ rec[v].attempt + 1 < rec[v].max_retries => a + 2 <= l + t
        BY <1>a, <1>3
      <3>2. a <= l + t
        BY <1>3
      <3> HIDE DEF a, l, t, u
      <3>3. a + 1 <= l + u /\ a + 1 + 1 <= l + u
        BY <1>1, <2>3, <3>2
      <3>4. ASSUME NEW v \in Workers, OnJob(v, j)', conn'[v],
                   rec[v].attempt + 1 < rec[v].max_retries
            PROVE  a + 1 + 2 <= l + u
        BY <1>1, <2>3, <3>1, <3>4
      <3> QED
        BY <1>4, <3>3, <3>4
    <2>5. LastOnes(j)'
      <3> SUFFICES ASSUME \A v \in Workers : Lost(v)'
                   PROVE  a + 1 + Cardinality(Hands(j)') <= l + Others
        BY <1>0 DEF LastOnes
      <3>1. \A v \in Workers : Lost(v)
        BY DEF Lost, OnJob, InHand, Executing
      <3>2. a + Cardinality(Hands(j)) <= l + Others
        BY <1>0, <3>1 DEF LastOnes
      <3>3. Hands(j)' = Hands(j) \ {w} /\ w \in Hands(j)
        BY <1>a DEF Hands
      <3>4. IsFiniteSet(Hands(j)) /\ Cardinality(Hands(j)) \in Nat
        BY SpentFinite
      <3>5. Cardinality(Hands(j) \ {w}) = Cardinality(Hands(j)) - 1
        BY <3>3, <3>4, FS_RemoveElement
      <3>6. Others \in Nat
        BY Sizes
      <3> HIDE DEF a, l
      <3> QED
        BY <1>1, <3>2, <3>3, <3>4, <3>5, <3>6
    <2> QED
      BY <2>4, <2>5
  <1> QED
    BY <1>5, <1>6

(* The claim query takes over an open row with its record. *)
LEMMA Selected ==
  ASSUME SomeWorkers, IInv, SessionInv, NEW j \in Jobs, NEW w \in Workers, SelectRow(w, j)
  PROVE  BudgetOK(j)' /\ LastOnes(j)'
  <1>1. /\ pc[w] = "scan" /\ conn[w] /\ conn' = conn /\ rows' = rows
        /\ rec'[w] = RecordOf(j) /\ pc'[w] = "selected"
        /\ \A v \in Workers \ {w} : pc'[v] = pc[v] /\ conn'[v] = conn[v] /\ rec'[v] = rec[v]
        /\ rows[j].status = "pending" /\ BudgetOK(j)
    BY DEF SelectRow, Reached, StillEligible, Pending, SessionInv, Attached, IInv, TypeOK
  <1>2. LastOnes(j)'
    BY <1>1 DEF LastOnes, Lost
  <1>3. /\ Spent(j) \subseteq Spent(j)' /\ Cardinality(Spent(j)) <= Cardinality(Spent(j)')
        /\ Cardinality(Spent(j)') \in Nat
    <2>1. ~Lost(w)
      BY <1>1 DEF Lost
    <2> QED
      BY <1>1, <2>1, CostsStay
  <1> DEFINE a == rows[j].attempt
             l == Limit(j)
             t == Cardinality(Spent(j))
             u == Cardinality(Spent(j)')
  <1>4. /\ a \in Nat /\ l \in Nat /\ t \in Nat /\ u \in Nat /\ t <= u
        /\ rows[j].max_retries \in Nat /\ rows[j].max_retries <= l
    BY <1>3, Sizes
  <1>5. Ceiling(j) = l + t /\ Ceiling(j)' = l + u
    BY <1>1 DEF Ceiling, Limit
  <1>6. /\ a + 1 <= l + t
        /\ \A v \in Workers : OnJob(v, j) /\ conn[v] =>
             (rec[v].attempt + 1 < rec[v].max_retries => a + 2 <= l + t)
    BY <1>1, <1>5 DEF BudgetOK, Active, Present, Stored
  <1>7. a <= l + u /\ a + 1 <= l + u
    BY <1>4, <1>6
  <1>8. ASSUME NEW v \in Workers, OnJob(v, j)', conn'[v],
               rec'[v].attempt + 1 < rec'[v].max_retries
        PROVE  a + 2 <= l + u
    <2>1. CASE v = w
      <3>1. rec'[w].attempt = a /\ rec'[w].max_retries = rows[j].max_retries
        BY <1>1 DEF RecordOf
      <3> HIDE DEF a, l, t, u
      <3> QED
        BY <1>4, <1>8, <2>1, <3>1
    <2>2. CASE v # w
      <3>1. OnJob(v, j) /\ conn[v] /\ rec'[v] = rec[v]
        BY <1>1, <1>8, <2>2 DEF OnJob
      <3>2. a + 2 <= l + t
        BY <1>6, <1>8, <3>1
      <3> HIDE DEF a, l, t, u
      <3> QED
        BY <1>4, <3>2
    <2> QED
      BY <2>1, <2>2
  <1>9. BudgetOK(j)'
    <2> HIDE DEF a, l, u
    <2>1. BudgetOK(j)' <=>
            (Present(rows'[j]) =>
              /\ rows'[j].attempt <= Ceiling(j)'
              /\ Active(j)' => rows'[j].attempt + 1 <= Ceiling(j)'
              /\ \A v \in Workers : OnJob(v, j)' /\ conn'[v] =>
                   /\ rows'[j].attempt + 1 <= Ceiling(j)'
                   /\ rec'[v].attempt + 1 < rec'[v].max_retries =>
                        rows'[j].attempt + 2 <= Ceiling(j)')
      BY DEF BudgetOK
    <2>2. rows'[j].attempt = a
      BY <1>1 DEF a
    <2> QED
      BY <1>5, <1>7, <1>8, <2>1, <2>2
  <1> QED
    BY <1>2, <1>9

(* A new job. *)
LEMMA Enqueued ==
  ASSUME SomeWorkers, IInv, IInv', SessionInv, NEW j \in Jobs, Enqueue(j)
  PROVE  BudgetOK(j)' /\ LastOnes(j)'
  <1>1. /\ rows[j].status = "unborn" /\ rows'[j].attempt = 0
        /\ pc' = pc /\ conn' = conn /\ rec' = rec
    <2>1. PICK m \in RetryLimits, d \in BOOLEAN : rows' = [rows EXCEPT ![j] = InsertRow(m, d)]
      BY DEF Enqueue
    <2> QED
      BY <2>1 DEF Enqueue, InsertRow, IInv, TypeOK
  <1>2. \A w \in Workers : ~OnJob(w, j)
    BY <1>1 DEF OnJob, SessionInv, Born
  <1>3. \A w \in Workers : ~OnJob(w, j)'
    BY <1>1, <1>2 DEF OnJob
  <1>4. Limit(j)' \in Nat /\ Limit(j)' >= 1
    <2>1. rows'[j] \in Row
      BY DEF IInv, TypeOK
    <2> QED
      BY <2>1 DEF Row, Limit
  <1>5. Cardinality(Spent(j)') \in Nat
    <2>1. PICK w \in Workers : TRUE
      BY DEF SomeWorkers
    <2>2. Lost(w) => Lost(w)'
      BY <1>1 DEF Lost
    <2> QED
      BY <1>1, <1>3, <2>1, <2>2, CostsStay
  <1>6. Ceiling(j)' \in Nat /\ Ceiling(j)' >= 1
    BY <1>4, <1>5 DEF Ceiling
  <1>7. BudgetOK(j)'
    BY <1>1, <1>3, <1>6 DEF BudgetOK
  <1>8. Hands(j)' = {} /\ Cardinality(Hands(j)') = 0
    BY <1>3, FS_EmptySet DEF Hands
  <1>9. Others \in Nat
    BY Sizes
  <1>10. LastOnes(j)'
    BY <1>1, <1>4, <1>8, <1>9 DEF LastOnes
  <1> QED
    BY <1>7, <1>10

-------------------------------------------------------------------------------
(* Every step.                                                             *)

(* Steps of one coroutine w, or of none, that move no attempts at all.     *)
LEMMA NoAttempts ==
  ASSUME SomeWorkers, IInv, IInv', SessionInv, NEW w \in Workers,
         \A j \in Jobs :
           /\ Present(rows'[j]) => /\ Present(rows[j])
                                   /\ rows'[j].attempt = rows[j].attempt
                                   /\ rows'[j].max_retries = rows[j].max_retries
                                   /\ Active(j)' => Active(j)
           /\ rows'[j].status = "unborn" => rows[j].status = "unborn",
         \A v \in Workers \ {w} : pc'[v] = pc[v] /\ conn'[v] = conn[v] /\ rec'[v] = rec[v],
         Lost(w) => Lost(w)',
         pc'[w] \in InHand => /\ pc[w] \in InHand /\ rec'[w] = rec[w]
                              /\ conn'[w] => conn[w]
                              /\ pc'[w] = "claimed" => pc[w] = "claimed",
         pc'[w] \in {"scan", "selected"} => conn'[w]
  PROVE  SessionInv'
  <1>1. Attached'
    BY DEF SessionInv, Attached
  <1>2. Born'
    <2> SUFFICES ASSUME NEW v \in Workers, pc'[v] \in InHand
                 PROVE  rows'[rec'[v].id].status # "unborn"
      BY DEF Born
    <2>1. pc[v] \in InHand /\ rec'[v] = rec[v]
      BY DEF InHand
    <2>2. rec[v].id \in Jobs
      BY <2>1 DEF IInv, HasRecord, InHand
    <2> QED
      BY <2>1, <2>2 DEF SessionInv, Born
  <1>3. ASSUME NEW j \in Jobs
        PROVE  BudgetOK(j)' /\ LastOnes(j)'
    <2>1. OnJob(w, j)' => /\ OnJob(w, j) /\ rec'[w] = rec[w] /\ (conn'[w] => conn[w])
                          /\ pc'[w] = "claimed" => pc[w] = "claimed"
      BY DEF OnJob
    <2> QED
      BY <2>1, NoAttempt DEF SessionInv
  <1> QED
    BY <1>1, <1>2, <1>3 DEF SessionInv

(* Statements of worker w, by id, on the job in its hand. *)
LEMMA JobWrites ==
  ASSUME SomeWorkers, IInv, IInv', SessionInv, NEW w \in Workers, NEW j \in Jobs, OnJob(w, j),
         conn' = conn, rec' = rec, pc[w] # "new", pc'[w] # "new",
         pc'[w] \notin {"scan", "selected"},
         \A v \in Workers \ {w} : pc'[v] = pc[v],
         \A k \in Jobs \ {j} : rows'[k] = rows[k],
         rows'[j].status = "unborn" => rows[j].status = "unborn",
         BudgetOK(j)' /\ LastOnes(j)'
  PROVE  SessionInv'
  <1>1. Attached'
    BY DEF SessionInv, Attached, InHand
  <1>2. Born'
    <2> SUFFICES ASSUME NEW v \in Workers, pc'[v] \in InHand
                 PROVE  rows'[rec'[v].id].status # "unborn"
      BY DEF Born
    <2>1. pc[v] \in InHand /\ rec'[v] = rec[v]
      BY DEF OnJob
    <2>2. rec[v].id \in Jobs
      BY <2>1 DEF IInv, HasRecord, InHand
    <2> QED
      BY <2>1, <2>2 DEF SessionInv, Born
  <1>3. ASSUME NEW k \in Jobs \ {j}
        PROVE  BudgetOK(k)' /\ LastOnes(k)'
    <2>1. ~OnJob(w, k)' /\ (Lost(w) => Lost(w)')
      BY DEF OnJob, Lost
    <2>2. rows'[k] = rows[k] /\ (Active(k)' => Active(k))
      BY DEF Active
    <2> QED
      BY <2>1, <2>2, NoAttempt DEF SessionInv
  <1> QED
    BY <1>1, <1>2, <1>3 DEF SessionInv

LEMMA NextSession ==
  ASSUME SomeWorkers, "lost_reply" \notin Faults, IInv, SessionInv, [Next]_vars
  PROVE  SessionInv'
  <1>0. IInv'
    BY NextTyped, NextLocked DEF IInv
  <1> USE DEF InHand, Executing
  <1>1. ASSUME UNCHANGED <<pc, conn, rec>>,
               \A j \in Jobs :
                 /\ Present(rows'[j]) => /\ Present(rows[j])
                                         /\ rows'[j].attempt = rows[j].attempt
                                         /\ rows'[j].max_retries = rows[j].max_retries
                                         /\ Active(j)' => Active(j)
                 /\ rows'[j].status = "unborn" => rows[j].status = "unborn"
        PROVE  SessionInv'
    <2>1. PICK w \in Workers : TRUE
      BY DEF SomeWorkers
    <2>2. Lost(w) => Lost(w)'
      BY <1>1 DEF Lost
    <2>3. pc'[w] \in {"scan", "selected"} => conn'[w]
      BY <1>1 DEF SessionInv, Attached
    <2> QED
      BY <1>0, <1>1, <2>1, <2>2, <2>3, NoAttempts
  <1>2. ASSUME rows' = rows
        PROVE  \A j \in Jobs :
                 /\ Present(rows'[j]) => /\ Present(rows[j])
                                         /\ rows'[j].attempt = rows[j].attempt
                                         /\ rows'[j].max_retries = rows[j].max_retries
                                         /\ Active(j)' => Active(j)
                 /\ rows'[j].status = "unborn" => rows[j].status = "unborn"
    BY <1>2 DEF Active
  <1>3. CASE UNCHANGED vars
    BY <1>1, <1>2, <1>3 DEF vars
  <1>4. ASSUME NEW j \in Jobs, Enqueue(j)
        PROVE  SessionInv'
    <2>1. /\ pc' = pc /\ conn' = conn /\ rec' = rec /\ \A k \in Jobs \ {j} : rows'[k] = rows[k]
          /\ rows'[j].status = "pending" /\ rows[j].status = "unborn"
      <3>1. PICK m \in RetryLimits, d \in BOOLEAN : rows' = [rows EXCEPT ![j] = InsertRow(m, d)]
        BY <1>4 DEF Enqueue
      <3> QED
        BY <1>4, <3>1 DEF Enqueue, InsertRow, IInv, TypeOK
    <2>2. PICK w \in Workers : TRUE
      BY DEF SomeWorkers
    <2>3. ASSUME NEW k \in Jobs \ {j}
          PROVE  BudgetOK(k)' /\ LastOnes(k)'
      <3>1. (OnJob(w, k)' => OnJob(w, k)) /\ (Lost(w) => Lost(w)') /\ (Active(k)' => Active(k))
        BY <2>1 DEF OnJob, Lost, Active
      <3> QED
        BY <1>0, <2>1, <2>2, <3>1, NoAttempt DEF SessionInv
    <2>4. Attached' /\ Born'
      BY <2>1 DEF SessionInv, Attached, Born, IInv, HasRecord
    <2> QED
      BY <1>0, <1>4, <2>3, <2>4, Enqueued DEF SessionInv
  <1>5. ASSUME NEW j \in Jobs, Cancel(j) \/ BecomeDue(j) \/ Expire(j)
        PROVE  SessionInv'
    <2>1. UNCHANGED <<pc, conn, rec>>
      BY <1>5 DEF Cancel, BecomeDue, Expire
    <2>2. PICK new : /\ rows' = [rows EXCEPT ![j] = new]
                     /\ \/ new = DeletedRow
                        \/ new = [rows[j] EXCEPT !.due = TRUE]
                        \/ new = [rows[j] EXCEPT !.heartbeat = "stale"]
      <3>1. Cancel(j) => rows' = [rows EXCEPT ![j] = DeletedRow]
        BY DEF Cancel, WriteRow, UpdateRow, Pending, Present, Stored
      <3>2. BecomeDue(j) => rows' = [rows EXCEPT ![j] = [rows[j] EXCEPT !.due = TRUE]]
        BY DEF BecomeDue
      <3>3. Expire(j) => rows' = [rows EXCEPT ![j] = [rows[j] EXCEPT !.heartbeat = "stale"]]
        BY DEF Expire
      <3> QED
        BY <1>5, <3>1, <3>2, <3>3
    <2>3. rows[j] \in Row /\ rows'[j] = new /\ \A k \in Jobs \ {j} : rows'[k] = rows[k]
      BY <2>2 DEF IInv, TypeOK
    <2>4. \/ new.status = "deleted"
          \/ /\ new.status = rows[j].status /\ new.attempt = rows[j].attempt
             /\ new.max_retries = rows[j].max_retries
      BY <2>2, <2>3 DEF Row, DeletedRow, InsertRow
    <2> QED
      BY <1>1, <2>1, <2>3, <2>4 DEF Present, Stored, Active
  <1>6. ASSUME NEW w \in Workers, Heartbeat(w) \/ Reap(w)
        PROVE  SessionInv'
    <2>1. UNCHANGED <<pc, conn, rec>>
      BY <1>6 DEF Heartbeat, Reap
    <2>2. ASSUME NEW j \in Jobs
          PROVE  /\ Present(rows'[j]) => /\ Present(rows[j])
                                         /\ rows'[j].attempt = rows[j].attempt
                                         /\ rows'[j].max_retries = rows[j].max_retries
                                         /\ Active(j)' => Active(j)
                 /\ rows'[j].status = "unborn" => rows[j].status = "unborn"
      <3>1. rows[j] \in Row
        BY DEF IInv, TypeOK
      <3>2. \/ rows'[j] = rows[j]
            \/ rows'[j] = BeatRow(rows[j])
            \/ rows'[j] = ReapRow(rows[j]) /\ rows[j].status \in {"claimed", "running"}
        BY <1>6 DEF Heartbeat, Reap, Reapable
      <3> QED
        BY <3>1, <3>2 DEF Row, BeatRow, ReapRow, Active, Present, Stored
    <2> QED
      BY <1>1, <2>1, <2>2
  <1>7. ASSUME NEW w \in Workers, Stop(w) \/ StopBeating(w)
                 \/ \E j \in Jobs : Probe(w, j) \/ SkipRow(w, j)
        PROVE  SessionInv'
    BY <1>1, <1>2, <1>7 DEF Stop, StopBeating, Probe, SkipRow
  <1>8. ASSUME NEW w \in Workers,
               \/ Start(w) \/ BeginScan(w) \/ FindNothing(w) \/ Wake(w) \/ HandlerEnds(w)
               \/ Unlock(w) \/ HandlerHangs(w) \/ HandlerSpins(w) \/ LoseSession(w)
               \/ WriteDoneFails(w)
        PROVE  SessionInv'
    <2>1. /\ rows' = rows
          /\ \A v \in Workers \ {w} : pc'[v] = pc[v] /\ conn'[v] = conn[v] /\ rec'[v] = rec[v]
      <3>1. CASE \/ Start(w) \/ BeginScan(w) \/ FindNothing(w) \/ Wake(w) \/ HandlerEnds(w)
                 \/ Unlock(w) \/ HandlerHangs(w) \/ HandlerSpins(w)
        BY <3>1 DEF Start, BeginScan, FindNothing, Wake, HandlerEnds, Unlock, HandlerHangs,
                    HandlerSpins, IInv, TypeOK
      <3>2. CASE LoseSession(w)
        BY <3>2 DEF LoseSession, IInv, TypeOK
      <3>3. CASE WriteDoneFails(w)
        <4>1. rows' = rows /\ conn' = conn /\ rec' = rec /\ pc' = [pc EXCEPT ![w] = "raised"]
          BY <3>3 DEF WriteDoneFails, StatementFails
        <4> QED
          BY <4>1 DEF IInv, TypeOK
      <3> QED
        BY <1>8, <3>1, <3>2, <3>3
    <2>2. Lost(w) => Lost(w)'
      BY <1>8 DEF Lost, Start, BeginScan, FindNothing, Wake, HandlerEnds, Unlock, HandlerHangs,
                  HandlerSpins, LoseSession, WriteDoneFails, IInv, TypeOK
    <2>3. pc'[w] \in InHand => /\ pc[w] \in InHand /\ rec'[w] = rec[w]
                               /\ conn'[w] => conn[w]
                               /\ pc'[w] = "claimed" => pc[w] = "claimed"
      BY <1>8 DEF Start, BeginScan, FindNothing, Wake, HandlerEnds, Unlock, HandlerHangs,
                  HandlerSpins, LoseSession, WriteDoneFails, IInv, TypeOK
    <2>4. pc'[w] \in {"scan", "selected"} => conn'[w]
      BY <1>8 DEF Start, BeginScan, FindNothing, Wake, HandlerEnds, Unlock, HandlerHangs,
                  HandlerSpins, LoseSession, WriteDoneFails, IInv, TypeOK
    <2> QED
      BY <1>0, <1>2, <2>1, <2>2, <2>3, <2>4, NoAttempts
  <1>9. ASSUME NEW w \in Workers,
               \/ LeaveLoop(w) \/ ClaimFails(w) \/ LoseSessionInClaim(w) \/ Kill(w)
               \/ MarkRunningFails(w) \/ HandleFailureFails(w)
        PROVE  SessionInv'
    <2>1. rows' = rows /\ \E step \in {"exited", "dead"} : Leave(w, step)
      BY <1>9 DEF LeaveLoop, ClaimFails, LoseSessionInClaim, Kill, MarkRunningFails,
                  HandleFailureFails, StatementFails
    <2>2. /\ \A v \in Workers \ {w} : pc'[v] = pc[v] /\ conn'[v] = conn[v] /\ rec'[v] = rec[v]
          /\ pc'[w] \in {"exited", "dead"} /\ ~conn'[w]
      BY <2>1 DEF Leave, IInv, TypeOK
    <2>3. Lost(w)'
      BY <2>2 DEF Lost
    <2> QED
      BY <1>0, <1>2, <2>1, <2>2, <2>3, NoAttempts
  <1>10. ASSUME NEW w \in Workers, CommitReplyLost(w)
         PROVE  FALSE
    BY <1>10 DEF CommitReplyLost
  <1>11. ASSUME NEW w \in Workers, NEW j \in Jobs, SelectRow(w, j)
         PROVE  SessionInv'
    <2>1. /\ pc[w] = "scan" /\ conn[w] /\ conn' = conn /\ rows' = rows
          /\ rec'[w].id = j /\ pc'[w] = "selected"
          /\ \A v \in Workers \ {w} : pc'[v] = pc[v] /\ conn'[v] = conn[v] /\ rec'[v] = rec[v]
          /\ rows[j].status = "pending"
      BY <1>11 DEF SelectRow, Reached, StillEligible, Pending, RecordOf, SessionInv, Attached,
                   IInv, TypeOK
    <2>2. Attached' /\ Born'
      BY <2>1 DEF SessionInv, Attached, Born
    <2>3. ASSUME NEW k \in Jobs \ {j}
          PROVE  BudgetOK(k)' /\ LastOnes(k)'
      <3>1. ~OnJob(w, k)' /\ ~Lost(w) /\ (Active(k)' => Active(k))
        BY <2>1 DEF OnJob, Lost, Active
      <3> QED
        BY <1>0, <2>1, <3>1, NoAttempt DEF SessionInv
    <2> QED
      BY <1>11, <2>2, <2>3, Selected DEF SessionInv
  <1>12. ASSUME NEW w \in Workers, CommitClaim(w) \/ MarkRunning(w)
         PROVE  SessionInv'
    <2>1. PICK j \in Jobs : j = rec[w].id
      BY <1>12 DEF CommitClaim, MarkRunning, IInv, HasRecord
    <2>2. /\ OnJob(w, j) /\ conn' = conn /\ rec' = rec
          /\ \/ pc[w] = "selected" /\ pc'[w] = "claimed" /\ conn[w]
             \/ pc[w] = "claimed" /\ pc'[w] = "running"
          /\ \A v \in Workers \ {w} : pc'[v] = pc[v]
      BY <1>12, <2>1 DEF CommitClaim, MarkRunning, OnJob, SessionInv, Attached, IInv, TypeOK
    <2>3. /\ \A k \in Jobs \ {j} : rows'[k] = rows[k]
          /\ Present(rows'[j]) => /\ Present(rows[j])
                                  /\ rows'[j].attempt = rows[j].attempt
                                  /\ rows'[j].max_retries = rows[j].max_retries
          /\ rows'[j].status = "unborn" => rows[j].status = "unborn"
      <3>1. rows[j] \in Row
        BY DEF IInv, TypeOK
      <3>2. \/ rows' = UpdateRow(rows, j, ClaimRow(rows[j], w))
            \/ rows' = UpdateRow(rows, j, RunRow(rows[j]))
        BY <1>12, <2>1 DEF CommitClaim, MarkRunning, WriteRow
      <3>3. /\ \A k \in Jobs \ {j} : rows'[k] = rows[k]
            /\ rows'[j] \in {rows[j], ClaimRow(rows[j], w), RunRow(rows[j])}
            /\ ~Present(rows[j]) => rows'[j] = rows[j]
        BY <3>2 DEF UpdateRow, IInv, TypeOK
      <3> QED
        BY <3>1, <3>3 DEF ClaimRow, RunRow, Row
    <2>4. BudgetOK(j)' /\ LastOnes(j)'
      BY <2>2, <2>3, Reopened DEF SessionInv
    <2> QED
      BY <1>0, <2>2, <2>3, <2>4, JobWrites
  <1>13. ASSUME NEW w \in Workers, WriteDone(w) \/ HandleFailure(w)
         PROVE  SessionInv'
    <2>1. PICK j \in Jobs : j = rec[w].id
      BY <1>13 DEF WriteDone, HandleFailure, IInv, HasRecord
    <2>2. /\ OnJob(w, j) /\ conn' = conn /\ rec' = rec
          /\ pc[w] # "new" /\ pc'[w] = "unlock"
          /\ \A v \in Workers \ {w} : pc'[v] = pc[v]
      BY <1>13, <2>1 DEF WriteDone, HandleFailure, OnJob, IInv, TypeOK
    <2>3. /\ \A k \in Jobs \ {j} : rows'[k] = rows[k]
          /\ Present(rows'[j]) =>
               /\ Present(rows[j])
               /\ rows'[j].attempt = rows[j].attempt + 1
               /\ rows'[j].max_retries = rows[j].max_retries
               /\ Active(j)' => rec[w].attempt + 1 < rec[w].max_retries
          /\ rows'[j].status = "unborn" => rows[j].status = "unborn"
      <3>1. rows[j] \in Row /\ rec[w].attempt \in Nat /\ rec[w].max_retries \in Nat
        BY DEF IInv, TypeOK, Record
      <3>2. \/ rows' = UpdateRow(rows, j, DoneRow(rows[j], w))
            \/ rows' = UpdateRow(rows, j, DeadRow(rows[j]))
            \/ /\ rows' = UpdateRow(rows, j, RetryRow(rows[j]))
               /\ rec[w].attempt + 1 < rec[w].max_retries
        BY <1>13, <2>1, <3>1
        DEF WriteDone, HandleFailure, SettleFailure, BuryJob, RetryJob, Exhausted, WriteRow
      <3>3. /\ \A k \in Jobs \ {j} : rows'[k] = rows[k]
            /\ \/ rows'[j] = rows[j] /\ ~Present(rows[j])
               \/ Present(rows[j]) /\ rows'[j] \in {DoneRow(rows[j], w), DeadRow(rows[j])}
               \/ /\ Present(rows[j]) /\ rows'[j] = RetryRow(rows[j])
                  /\ rec[w].attempt + 1 < rec[w].max_retries
        BY <3>2 DEF UpdateRow, IInv, TypeOK
      <3>4. /\ DoneRow(rows[j], w).attempt = rows[j].attempt + 1
            /\ DeadRow(rows[j]).attempt = rows[j].attempt + 1
            /\ RetryRow(rows[j]).attempt = rows[j].attempt + 1
            /\ DoneRow(rows[j], w).max_retries = rows[j].max_retries
            /\ DeadRow(rows[j]).max_retries = rows[j].max_retries
            /\ RetryRow(rows[j]).max_retries = rows[j].max_retries
            /\ DoneRow(rows[j], w).status = "done"
            /\ DeadRow(rows[j]).status = "dead"
            /\ RetryRow(rows[j]).status = "pending"
        BY <3>1 DEF DoneRow, DeadRow, RetryRow, Row
      <3> QED
        BY <3>3, <3>4 DEF Active
    <2>4. BudgetOK(j)' /\ LastOnes(j)'
      BY <2>2, <2>3, OutcomeWritten DEF SessionInv
    <2> QED
      BY <1>0, <2>2, <2>3, <2>4, JobWrites
  <1> HIDE DEF InHand, Executing
  <1>14. CASE Next
    BY <1>4, <1>5, <1>6, <1>7, <1>8, <1>9, <1>10, <1>11, <1>12, <1>13, <1>14
    DEF Next, Claiming, Running, Stopping, Failing
  <1> QED
    BY <1>3, <1>14

(* The claim session of a worker may be lost while it goes on with a job   *)
(* that the reaper then gives to another one; both write by id             *)
(* (worker.py:178, 207, 262).  Each worker but one costs at most three     *)
(* attempts beyond the limit, for any number of workers and losses.        *)
THEOREM SessionsCostThree ==
  ASSUME SomeWorkers, "lost_reply" \notin Faults
  PROVE  Spec => []SessionOverrun
  <1>1. Init => SessionInv
    <2> SUFFICES ASSUME Init
                 PROVE  SessionInv
      OBVIOUS
    <2>1. Attached /\ Born
      BY DEF Init, Attached, Born, InHand, Executing
    <2>2. \A j \in Jobs : BudgetOK(j) /\ LastOnes(j)
      BY DEF Init, BudgetOK, LastOnes, UnbornRow, InsertRow, Present, Stored
    <2> QED
      BY <2>1, <2>2 DEF SessionInv
  <1>2. IInv /\ SessionInv /\ [Next]_vars => SessionInv'
    BY NextSession
  <1>3. IInv /\ SessionInv => SessionOverrun
    <2> SUFFICES ASSUME IInv, SessionInv, NEW j \in Jobs, Present(rows[j])
                 PROVE  rows[j].attempt <= Limit(j) + Others
      BY DEF SessionOverrun, Others
    <2>1. /\ rows[j].attempt \in Nat /\ Limit(j) \in Nat /\ Others \in Nat
          /\ Cardinality(Spent(j)) \in Nat /\ Cardinality(Hands(j)) \in Nat
      BY Sizes
    <2>2. CASE \A w \in Workers : Lost(w)
      BY <2>1, <2>2 DEF SessionInv, LastOnes
    <2>3. CASE \E w \in Workers : ~Lost(w)
      <3>1. PICK w \in Workers : ~Lost(w)
        BY <2>3
      <3>2. Spent(j) \in SUBSET (Workers \X (1 .. 3)) /\ \A x \in Spent(j) : x[1] # w
        BY <3>1 DEF Spent
      <3>3. Cardinality(Spent(j)) + Cardinality({}) <= Others
        BY <3>2, Room
      <3>4. Cardinality(Spent(j)) <= Others
        BY <2>1, <3>3, FS_EmptySet
      <3>5. rows[j].attempt <= Limit(j) + Cardinality(Spent(j))
        BY DEF SessionInv, BudgetOK, Ceiling
      <3> QED
        BY <2>1, <3>4, <3>5
    <2> QED
      BY <2>2, <2>3
  <1> QED
    BY <1>1, <1>2, <1>3, Invariance, PTL DEF Spec

===============================================================================
