---------------------------- MODULE TaskQueue_proofs ----------------------------
(***************************************************************************)
(* Theorems about TaskQueue, for every set of workers and jobs, every      *)
(* choice of query plans and every combination of faults.                  *)
(***************************************************************************)
EXTENDS TaskQueue, TLAPS

-------------------------------------------------------------------------------
(* The operators the steps are built from.                                 *)

(* The row operators return rows. *)
LEMMA RowTypes ==
  ASSUME NEW row \in Row, NEW w \in Workers
  PROVE  /\ ClaimRow(row, w) \in Row
         /\ RunRow(row) \in Row
         /\ DoneRow(row, w) \in Row
         /\ RetryRow(row) \in Row
         /\ DeadRow(row) \in Row
         /\ ReapRow(row) \in Row
         /\ BeatRow(row) \in Row
  <1>1. row.attempt + 1 \in Nat
    BY DEF Row
  <1>2. ClaimRow(row, w) \in Row /\ RunRow(row) \in Row /\ ReapRow(row) \in Row
        /\ BeatRow(row) \in Row
    BY DEF Row, Stored, Ages, ClaimRow, RunRow, ReapRow, BeatRow
  <1>3. DoneRow(row, w) \in Row /\ RetryRow(row) \in Row /\ DeadRow(row) \in Row
    BY <1>1 DEF Row, Stored, Ages, DoneRow, RetryRow, DeadRow
  <1> QED
    BY <1>2, <1>3

LEMMA NewRowTypes ==
  /\ UnbornRow \in Row
  /\ DeletedRow \in Row
  /\ \A m \in Nat, d \in BOOLEAN : InsertRow(m, d) \in Row
  BY DEF Row, Stored, Absent, Ages, UnbornRow, DeletedRow, InsertRow

(* UPDATE by id keeps the table's type. *)
LEMMA UpdateRowType ==
  ASSUME NEW r \in [Jobs -> Row], NEW j \in Jobs, NEW new \in Row
  PROVE  UpdateRow(r, j, new) \in [Jobs -> Row]
  BY DEF UpdateRow

(* New row versions change nothing of a query in flight but what it knows  *)
(* to be outdated.                                                         *)
LEMMA TouchedScans ==
  ASSUME scan \in [Workers -> Scan], NEW js \in SUBSET Jobs, NEW late \in SUBSET Jobs
  PROVE  /\ Touched(js, late) \in [Workers -> Scan]
         /\ \A v \in Workers : /\ Touched(js, late)[v].plan = scan[v].plan
                               /\ Touched(js, late)[v].todo = scan[v].todo
                               /\ Touched(js, late)[v].cand = scan[v].cand
  <1> SUFFICES ASSUME NEW v \in Workers
               PROVE  /\ Touched(js, late)[v] \in Scan
                      /\ Touched(js, late)[v].plan = scan[v].plan
                      /\ Touched(js, late)[v].todo = scan[v].todo
                      /\ Touched(js, late)[v].cand = scan[v].cand
    BY DEF Touched
  <1> DEFINE open == scan[v].todo \cup scan[v].cand
             s == [scan[v] EXCEPT !.dirty = @ \cup (js \cap open),
                                  !.moved = @ \cup (late \cap open)]
  <1>1. Touched(js, late)[v] = s
    BY DEF Touched
  <1>2. scan[v] \in Scan
    OBVIOUS
  <1>3. s \in Scan /\ s.plan = scan[v].plan /\ s.todo = scan[v].todo /\ s.cand = scan[v].cand
    BY <1>2 DEF Scan
  <1> QED
    BY <1>1, <1>3

LEMMA NoScanType == NoScan \in Scan /\ NoScan.cand = {}
  BY DEF NoScan, Scan

(* What holding, giving back and losing a lock does to the table of holds. *)
LEMMA LockTypes ==
  ASSUME NEW l \in [Workers -> [Jobs -> Nat]], NEW w \in Workers, NEW j \in Jobs
  PROVE  /\ Hold(l, w, j) \in [Workers -> [Jobs -> Nat]]
         /\ Unhold(l, w, j) \in [Workers -> [Jobs -> Nat]]
         /\ CloseSession(l, w) \in [Workers -> [Jobs -> Nat]]
  BY DEF Hold, Unhold, CloseSession

LEMMA CloseType ==
  ASSUME NEW l \in [Workers -> [Jobs -> Nat]], NEW w \in Workers
  PROVE  CloseSession(l, w) \in [Workers -> [Jobs -> Nat]]
  BY DEF CloseSession

-------------------------------------------------------------------------------
(* Type correctness.  It needs to know that an executing worker has a      *)
(* record in hand, since rows and holds are then updated at its id.        *)

HasRecord == \A w \in Workers : pc[w] \in Executing => rec[w].id \in Jobs

LEMMA InitTyped == Init => TypeOK /\ HasRecord
  <1> SUFFICES ASSUME Init PROVE TypeOK /\ HasRecord
    OBVIOUS
  <1>1. \A j \in Jobs : dlq[j] \in Seq(Nat)
    BY DEF Init
  <1>2. NoRecord \in Record
    BY DEF NoRecord, Record
  <1> QED
    BY <1>1, <1>2, NewRowTypes, NoScanType DEF Init, TypeOK, HasRecord, Steps, Executing

(* A statement that writes one row, as far as types go. *)
LEMMA WriteTyped ==
  ASSUME TypeOK, NEW j \in Jobs, NEW new \in Row, NEW late \in SUBSET Jobs,
         WriteRow(j, new, late)
  PROVE  rows' \in [Jobs -> Row] /\ scan' \in [Workers -> Scan]
  BY UpdateRowType, TouchedScans DEF TypeOK, WriteRow

(* So is the end of a coroutine. *)
LEMMA LeaveTyped ==
  ASSUME TypeOK, HasRecord, NEW w \in Workers, NEW step \in {"exited", "dead"}, Leave(w, step)
  PROVE  /\ pc' \in [Workers -> Steps]
         /\ conn' \in [Workers -> BOOLEAN]
         /\ locks' \in [Workers -> [Jobs -> Nat]]
         /\ rec' \in [Workers -> Record]
         /\ HasRecord'
  <1>1. NoRecord \in Record
    BY DEF NoRecord, Record
  <1> QED
    BY <1>1, CloseType DEF TypeOK, Leave, Steps, HasRecord, Executing

(* Every step keeps types and records; one step of the proof per action. *)
LEMMA NextTyped ==
  ASSUME TypeOK, HasRecord, [Next]_vars
  PROVE  TypeOK' /\ HasRecord'
  <1> USE DEF TypeOK, HasRecord
  <1> DEFINE Typed == TypeOK' /\ HasRecord'
  <1>1. ASSUME NEW j \in Jobs, Enqueue(j) PROVE Typed
    <2>1. PICK m \in RetryLimits, d \in BOOLEAN :
            rows' = [rows EXCEPT ![j] = InsertRow(m, d)]
      BY <1>1 DEF Enqueue
    <2>2. InsertRow(m, d) \in Row
      BY LimitsAssumption, NewRowTypes
    <2> QED
      BY <1>1, <2>1, <2>2 DEF Enqueue
  <1>2. ASSUME NEW j \in Jobs, Cancel(j) PROVE Typed
    BY <1>2, WriteTyped, NewRowTypes DEF Cancel
  <1>3. ASSUME NEW j \in Jobs, BecomeDue(j) PROVE Typed
    <2>0. rows[j] \in Row
      OBVIOUS
    <2>1. [rows[j] EXCEPT !.due = TRUE] \in Row
      BY <2>0 DEF Row
    <2> QED
      BY <1>3, <2>1 DEF BecomeDue
  <1>4. ASSUME NEW j \in Jobs, Expire(j) PROVE Typed
    <2>0. rows[j] \in Row
      OBVIOUS
    <2>1. [rows[j] EXCEPT !.heartbeat = "stale"] \in Row
      BY <2>0 DEF Row, Ages
    <2> QED
      BY <1>4, <2>1 DEF Expire
  <1>5. ASSUME NEW w \in Workers, Start(w) PROVE Typed
    BY <1>5 DEF Start, Steps, Executing
  <1>6. ASSUME NEW w \in Workers, BeginScan(w) PROVE Typed
    <2>1. PICK p \in Plans, ripe \in SUBSET Jobs, todo \in SUBSET Jobs :
            scan' = [scan EXCEPT ![w] = [NoScan EXCEPT !.plan = p, !.todo = todo,
                                                       !.ripe = ripe]]
      BY <1>6 DEF BeginScan
    <2>2. [NoScan EXCEPT !.plan = p, !.todo = todo, !.ripe = ripe] \in Scan
      BY DEF NoScan, Scan
    <2> QED
      BY <1>6, <2>1, <2>2 DEF BeginScan, Steps, Executing
  <1>7. ASSUME NEW w \in Workers, NEW j \in Jobs, Probe(w, j) PROVE Typed
    <2>1. scan[w] \in Scan
      OBVIOUS
    <2>2. /\ [scan[w] EXCEPT !.todo = @ \ {j}] \in Scan
          /\ [scan[w] EXCEPT !.todo = @ \ {j},
                             !.cand = @ \cup ({j} \cap scan[w].ripe)] \in Scan
      BY <2>1 DEF Scan
    <2>3. locks' \in [Workers -> [Jobs -> Nat]]
      <3>1. locks' = Hold(locks, w, j) \/ locks' = locks
        BY <1>7 DEF Probe
      <3>2. Hold(locks, w, j) \in [Workers -> [Jobs -> Nat]]
        BY LockTypes
      <3> QED
        BY <3>1, <3>2
    <2>4. scan' \in [Workers -> Scan]
      BY <1>7, <2>2 DEF Probe
    <2> QED
      BY <1>7, <2>3, <2>4 DEF Probe
  <1>8. ASSUME NEW w \in Workers, NEW j \in Jobs, SelectRow(w, j) PROVE Typed
    <2>1. RecordOf(j) \in Record /\ RecordOf(j).id = j
      BY DEF RecordOf, Record, Row
    <2>2. locks' \in [Workers -> [Jobs -> Nat]]
      BY <1>8, LockTypes DEF SelectRow
    <2> QED
      BY <1>8, <2>1, <2>2, NoScanType DEF SelectRow, Steps, Executing
  <1>9. ASSUME NEW w \in Workers, NEW j \in Jobs, SkipRow(w, j) PROVE Typed
    <2>0. scan[w] \in Scan
      OBVIOUS
    <2>1. [scan[w] EXCEPT !.cand = @ \ {j}] \in Scan
      BY <2>0 DEF Scan
    <2>2. locks' \in [Workers -> [Jobs -> Nat]]
      BY <1>9, LockTypes DEF SkipRow
    <2> QED
      BY <1>9, <2>1, <2>2 DEF SkipRow
  <1>10. ASSUME NEW w \in Workers, FindNothing(w) PROVE Typed
    BY <1>10, NoScanType DEF FindNothing, Steps, Executing
  <1>11. ASSUME NEW w \in Workers, CommitClaim(w) PROVE Typed
    <2>1. rec[w].id \in Jobs
      BY <1>11 DEF CommitClaim, Executing
    <2>2. ClaimRow(rows[rec[w].id], w) \in Row
      BY <2>1, RowTypes
    <2>3. rows' \in [Jobs -> Row] /\ scan' \in [Workers -> Scan]
      BY <1>11, <2>1, <2>2, WriteTyped DEF CommitClaim
    <2> QED
      BY <1>11, <2>1, <2>3 DEF CommitClaim, Steps, Executing
  <1>12. ASSUME NEW w \in Workers, Wake(w) PROVE Typed
    BY <1>12 DEF Wake, Steps, Executing
  <1>13. ASSUME NEW w \in Workers, MarkRunning(w) PROVE Typed
    <2>1. rec[w].id \in Jobs
      BY <1>13 DEF MarkRunning, Executing
    <2> QED
      BY <1>13, <2>1, WriteTyped, RowTypes DEF MarkRunning, Steps, Executing
  <1>14. ASSUME NEW w \in Workers, HandlerEnds(w) PROVE Typed
    BY <1>14 DEF HandlerEnds, Steps, Executing
  <1>15. ASSUME NEW w \in Workers, WriteDone(w) PROVE Typed
    <2>1. rec[w].id \in Jobs
      BY <1>15 DEF WriteDone, Executing
    <2>2. DoneRow(rows[rec[w].id], w) \in Row
      BY <2>1, RowTypes
    <2>3. rows' \in [Jobs -> Row] /\ scan' \in [Workers -> Scan]
      BY <1>15, <2>1, <2>2, WriteTyped DEF WriteDone
    <2> QED
      BY <1>15, <2>1, <2>3 DEF WriteDone, Steps, Executing
  <1>16. ASSUME NEW w \in Workers, rec[w].id \in Jobs, SettleFailure(w)
         PROVE  /\ rows' \in [Jobs -> Row]
                /\ scan' \in [Workers -> Scan]
                /\ dlq' \in [Jobs -> Seq(Nat)]
    <2>1. rec[w].attempt + 1 \in Nat
      BY DEF Record
    <2>2. Append(dlq[rec[w].id], rec[w].attempt + 1) \in Seq(Nat)
      BY <1>16, <2>1
    <2>3. dlq' \in [Jobs -> Seq(Nat)]
      BY <1>16, <2>2 DEF SettleFailure, BuryJob, RetryJob
    <2>4. rows' \in [Jobs -> Row] /\ scan' \in [Workers -> Scan]
      BY <1>16, WriteTyped, RowTypes DEF SettleFailure, BuryJob, RetryJob
    <2> QED
      BY <2>3, <2>4
  <1>17. ASSUME NEW w \in Workers, HandleFailure(w) PROVE Typed
    <2>1. rec[w].id \in Jobs
      BY <1>17 DEF HandleFailure, Executing
    <2> QED
      BY <1>16, <1>17, <2>1 DEF HandleFailure, Steps, Executing
  <1>18. ASSUME NEW w \in Workers, Unlock(w) PROVE Typed
    <2>1. rec[w].id \in Jobs
      BY <1>18 DEF Unlock, Executing
    <2>2. NoRecord \in Record
      BY DEF NoRecord, Record
    <2>3. locks' \in [Workers -> [Jobs -> Nat]]
      BY <1>18, <2>1, LockTypes DEF Unlock
    <2> QED
      BY <1>18, <2>2, <2>3 DEF Unlock, Steps, Executing
  <1>19. ASSUME NEW w \in Workers, Heartbeat(w) PROVE Typed
    <2> DEFINE mine == {j \in Jobs : OwnedRunning(rows[j], w)}
    <2>1. /\ rows' = [j \in Jobs |-> IF j \in mine THEN BeatRow(rows[j]) ELSE rows[j]]
          /\ scan' = Touched(mine, {})
      BY <1>19 DEF Heartbeat
    <2>2. rows' \in [Jobs -> Row]
      BY <2>1, RowTypes
    <2>3. scan' \in [Workers -> Scan]
      BY <2>1, TouchedScans
    <2> QED
      BY <1>19, <2>2, <2>3 DEF Heartbeat
  <1>20. ASSUME NEW w \in Workers, Reap(w) PROVE Typed
    <2> DEFINE stale == {j \in Jobs : Reapable(rows[j])}
    <2>1. /\ rows' = [j \in Jobs |-> IF j \in stale THEN ReapRow(rows[j]) ELSE rows[j]]
          /\ scan' = Touched(stale, {})
      BY <1>20 DEF Reap
    <2>2. rows' \in [Jobs -> Row]
      BY <2>1, <1>20, RowTypes
    <2>3. scan' \in [Workers -> Scan]
      BY <2>1, TouchedScans
    <2> QED
      BY <1>20, <2>2, <2>3 DEF Reap
  <1>21. ASSUME NEW w \in Workers, Stopping(w) PROVE Typed
    <2>1. CASE Stop(w)
      BY <2>1 DEF Stop
    <2>2. CASE StopBeating(w)
      BY <2>2 DEF StopBeating
    <2>3. CASE LeaveLoop(w)
      BY <2>3, LeaveTyped DEF LeaveLoop
    <2> QED
      BY <1>21, <2>1, <2>2, <2>3 DEF Stopping
  <1>22. ASSUME NEW w \in Workers, Failing(w) PROVE Typed
    <2>1. ASSUME NEW j \in Jobs, NEW new \in Row, StatementFails(j, new)
          PROVE  rows' \in [Jobs -> Row] /\ scan' \in [Workers -> Scan]
      BY <2>1, WriteTyped DEF StatementFails
    <2>2. CASE MarkRunningFails(w)
      <3>1. rec[w].id \in Jobs
        BY <2>2 DEF MarkRunningFails, Executing
      <3> QED
        BY <2>1, <2>2, <3>1, RowTypes, LeaveTyped DEF MarkRunningFails
    <2>3. CASE WriteDoneFails(w)
      <3>1. rec[w].id \in Jobs
        BY <2>3 DEF WriteDoneFails, Executing
      <3> QED
        BY <2>1, <2>3, <3>1, RowTypes DEF WriteDoneFails, Steps, Executing
    <2>4. CASE HandleFailureFails(w)
      <3>1. rec[w].id \in Jobs
        BY <2>4 DEF HandleFailureFails, Executing
      <3> QED
        BY <1>16, <2>4, <3>1, LeaveTyped DEF HandleFailureFails
    <2>5. CASE ClaimFails(w)
      BY <2>5, LeaveTyped, NoScanType DEF ClaimFails
    <2>6. CASE CommitReplyLost(w)
      <3>1. rec[w].id \in Jobs
        BY <2>6 DEF CommitReplyLost, Executing
      <3>2. ClaimRow(rows[rec[w].id], w) \in Row
        BY <3>1, RowTypes
      <3>3. rows' \in [Jobs -> Row] /\ scan' \in [Workers -> Scan]
        BY <2>6, <3>1, <3>2, WriteTyped DEF CommitReplyLost
      <3> QED
        BY <2>6, <3>3, LeaveTyped DEF CommitReplyLost
    <2>7. CASE LoseSession(w)
      BY <2>7, CloseType DEF LoseSession
    <2>8. CASE LoseSessionInClaim(w)
      BY <2>8, LeaveTyped, NoScanType DEF LoseSessionInClaim
    <2>9. CASE HandlerHangs(w)
      BY <2>9 DEF HandlerHangs, Steps, Executing
    <2>10. CASE HandlerSpins(w)
      BY <2>10 DEF HandlerSpins, Steps, Executing
    <2>11. CASE Kill(w)
      BY <2>11, LeaveTyped, NoScanType DEF Kill
    <2> QED
      BY <1>22, <2>2, <2>3, <2>4, <2>5, <2>6, <2>7, <2>8, <2>9, <2>10, <2>11 DEF Failing
  <1>23. CASE UNCHANGED vars
    BY <1>23 DEF vars
  <1> QED
    BY <1>1, <1>2, <1>3, <1>4, <1>5, <1>6, <1>7, <1>8, <1>9, <1>10, <1>11, <1>12,
       <1>13, <1>14, <1>15, <1>17, <1>18, <1>19, <1>20, <1>21, <1>22, <1>23
    DEF Next, Claiming, Running

(* Every variable keeps its type: in particular no hold is given back that *)
(* was not taken, and no statement leaves a row with columns out of range. *)
THEOREM TypeCorrect == Spec => []TypeOK
  <1>1. Init => TypeOK /\ HasRecord
    BY InitTyped
  <1>2. (TypeOK /\ HasRecord) /\ [Next]_vars => (TypeOK /\ HasRecord)'
    BY NextTyped
  <1> QED
    BY <1>1, <1>2, PTL DEF Spec

-------------------------------------------------------------------------------
(* Mutual exclusion.  It follows from the exclusiveness of advisory locks, *)
(* once every row that passed the WHERE of a claim query, and every job in *)
(* execution on a live session, is known to be held by its worker.         *)

LockExclusive ==
  \A v, w \in Workers, j \in Jobs : locks[v][j] > 0 /\ locks[w][j] > 0 => v = w

CandidatesHeld ==
  \A w \in Workers : \A j \in scan[w].cand : pc[w] = "scan" /\ locks[w][j] > 0

ClaimsHeld ==
  \A w \in Workers : pc[w] \in Executing /\ conn[w] => locks[w][rec[w].id] > 0

LockInv == LockExclusive /\ CandidatesHeld /\ ClaimsHeld

IInv == TypeOK /\ HasRecord /\ LockInv

(* Steps that take no lock, give none back and start no execution. *)
LEMMA LocksUntouched ==
  ASSUME LockInv, locks' = locks,
         \A v \in Workers : scan'[v].cand = scan[v].cand,
         \A v \in Workers : pc[v] = "scan" => pc'[v] = "scan" \/ scan'[v].cand = {},
         \A v \in Workers : pc'[v] \in Executing /\ conn'[v] =>
           pc[v] \in Executing /\ conn[v] /\ rec'[v].id = rec[v].id
  PROVE  LockInv'
  <1>1. LockExclusive'
    BY DEF LockInv, LockExclusive
  <1>2. CandidatesHeld'
    BY DEF LockInv, CandidatesHeld
  <1>3. ClaimsHeld'
    BY DEF LockInv, ClaimsHeld
  <1> QED
    BY <1>1, <1>2, <1>3 DEF LockInv

(* Steps that end a session: its holds go, all others stay. *)
LEMMA SessionEnds ==
  ASSUME TypeOK, LockInv, NEW w \in Workers,
         locks' = CloseSession(locks, w),
         ~conn'[w],
         scan'[w].cand = {},
         \A v \in Workers \ {w} : scan'[v].cand = scan[v].cand,
         \A v \in Workers \ {w} :
           pc'[v] = pc[v] /\ conn'[v] = conn[v] /\ rec'[v] = rec[v]
  PROVE  LockInv'
  <1>1. \A v \in Workers, j \in Jobs : locks'[v][j] = IF v = w THEN 0 ELSE locks[v][j]
    BY DEF TypeOK, CloseSession
  <1>2. \A v \in Workers \ {w} : locks'[v] = locks[v]
    BY DEF TypeOK, CloseSession
  <1>3. LockExclusive'
    BY <1>1 DEF LockInv, LockExclusive
  <1>4. CandidatesHeld'
    BY <1>2 DEF LockInv, CandidatesHeld
  <1>5. ClaimsHeld'
    BY <1>2 DEF LockInv, ClaimsHeld
  <1> QED
    BY <1>3, <1>4, <1>5 DEF LockInv

(* Writing rows leaves the candidates of all queries as they are. *)
LEMMA WriteKeepsCandidates ==
  ASSUME TypeOK, NEW j \in Jobs, NEW new, NEW late \in SUBSET Jobs,
         WriteRow(j, new, late)
  PROVE  \A v \in Workers : scan'[v].cand = scan[v].cand
  <1>1. scan \in [Workers -> Scan] /\ {j} \in SUBSET Jobs
    BY DEF TypeOK
  <1>2. \A v \in Workers : Touched({j}, late)[v].cand = scan[v].cand
    BY <1>1, TouchedScans, Zenon
  <1> QED
    BY <1>2 DEF WriteRow

(* A hold added by a session that may lock the key. *)
LEMMA HoldGrants ==
  ASSUME TypeOK, NEW w \in Workers, NEW j \in Jobs, LockExclusive,
         Lockable(locks, w, j) \/ locks[w][j] > 0, locks' = Hold(locks, w, j)
  PROVE  /\ LockExclusive'
         /\ locks'[w][j] > 0
         /\ \A v \in Workers, k \in Jobs : locks[v][k] > 0 => locks'[v][k] > 0
  <1>1. \A v \in Workers, k \in Jobs :
          locks'[v][k] = IF v = w /\ k = j THEN locks[v][k] + 1 ELSE locks[v][k]
    BY DEF TypeOK, Hold
  <1>2. \A v \in Workers, k \in Jobs : locks[v][k] \in Nat
    BY DEF TypeOK
  <1>3. \A v \in Workers \ {w} : ~(locks[v][j] > 0)
    <2>1. CASE Lockable(locks, w, j)
      BY <1>2, <2>1 DEF Lockable, TypeOK
    <2>2. CASE locks[w][j] > 0
      BY <2>2 DEF LockExclusive
    <2> QED
      BY <2>1, <2>2
  <1>4. LockExclusive'
    BY <1>1, <1>2, <1>3 DEF LockExclusive
  <1> QED
    BY <1>1, <1>2, <1>4

LEMMA InitLocked == Init => LockInv
  BY NoScanType DEF Init, LockInv, LockExclusive, CandidatesHeld, ClaimsHeld, Executing

LEMMA NextLocked ==
  ASSUME TypeOK, HasRecord, LockInv, [Next]_vars
  PROVE  LockInv'
  <1>1. ASSUME NEW j \in Jobs, Enqueue(j) \/ BecomeDue(j) \/ Expire(j) PROVE LockInv'
    BY <1>1, LocksUntouched DEF Enqueue, BecomeDue, Expire
  <1>2. ASSUME NEW j \in Jobs, Cancel(j) PROVE LockInv'
    BY <1>2, WriteKeepsCandidates, LocksUntouched DEF Cancel
  <1>3. ASSUME NEW w \in Workers, Start(w) PROVE LockInv'
    BY <1>3, LocksUntouched DEF TypeOK, Start, Executing
  <1>4. ASSUME NEW w \in Workers, BeginScan(w) PROVE LockInv'
    <2>1. scan[w].cand = {}
      BY <1>4 DEF BeginScan, LockInv, CandidatesHeld
    <2>2. scan'[w].cand = {}
      BY <1>4 DEF BeginScan, NoScan, TypeOK
    <2>3. \A v \in Workers : scan'[v].cand = scan[v].cand
      BY <1>4, <2>1, <2>2 DEF BeginScan, TypeOK
    <2> QED
      BY <1>4, <2>3, LocksUntouched DEF TypeOK, BeginScan, Executing
  <1>5. ASSUME NEW w \in Workers, NEW j \in Jobs, Probe(w, j) PROVE LockInv'
    <2>1. pc' = pc /\ conn' = conn /\ rec' = rec /\ pc[w] = "scan"
      BY <1>5 DEF Probe
    <2>2. CASE ~Lockable(locks, w, j)
      <3>1. locks' = locks /\ scan' = [scan EXCEPT ![w].todo = @ \ {j}]
        BY <1>5, <2>2 DEF Probe
      <3>2. \A v \in Workers : scan'[v].cand = scan[v].cand
        BY <3>1 DEF TypeOK, Scan
      <3> QED
        BY <2>1, <3>1, <3>2, LocksUntouched
    <2>3. CASE Lockable(locks, w, j)
      <3>0. /\ locks' = Hold(locks, w, j)
            /\ scan' = [scan EXCEPT ![w].todo = @ \ {j},
                                    ![w].cand = @ \cup ({j} \cap scan[w].ripe)]
        BY <1>5, <2>3 DEF Probe
      <3>1. /\ LockExclusive'
            /\ locks'[w][j] > 0
            /\ \A v \in Workers, k \in Jobs : locks[v][k] > 0 => locks'[v][k] > 0
        BY <2>3, <3>0, HoldGrants DEF LockInv
      <3>2. /\ scan'[w].cand \subseteq scan[w].cand \cup {j}
            /\ \A v \in Workers \ {w} : scan'[v] = scan[v]
        BY <3>0 DEF TypeOK, Scan
      <3>3. \A v \in Workers : scan[v].cand \subseteq Jobs
        BY DEF TypeOK, Scan
      <3>4. CandidatesHeld'
        BY <2>1, <3>1, <3>2, <3>3 DEF LockInv, CandidatesHeld
      <3>5. ClaimsHeld'
        BY <2>1, <3>1 DEF LockInv, ClaimsHeld, HasRecord
      <3> QED
        BY <3>1, <3>4, <3>5 DEF LockInv
    <2> QED
      BY <1>5, <2>2, <2>3 DEF Probe
  <1>6. ASSUME NEW w \in Workers, NEW j \in Jobs, SelectRow(w, j) PROVE LockInv'
    <2>1. locks[w][j] > 0
      BY <1>6 DEF SelectRow, Reached, LockInv, CandidatesHeld
    <2>2. /\ LockExclusive'
          /\ locks'[w][j] > 0
          /\ \A v \in Workers, k \in Jobs : locks[v][k] > 0 => locks'[v][k] > 0
      <3>1. locks' = locks \/ locks' = Hold(locks, w, j)
        BY <1>6 DEF SelectRow
      <3>2. CASE locks' = locks
        BY <2>1, <3>2 DEF LockInv, LockExclusive
      <3>3. CASE locks' = Hold(locks, w, j)
        BY <2>1, <3>3, HoldGrants DEF LockInv
      <3> QED
        BY <3>1, <3>2, <3>3
    <2>3. /\ rec'[w].id = j
          /\ \A v \in Workers \ {w} : rec'[v] = rec[v] /\ pc'[v] = pc[v]
          /\ conn' = conn
          /\ scan'[w].cand = {}
          /\ \A v \in Workers \ {w} : scan'[v] = scan[v]
      BY <1>6, NoScanType DEF SelectRow, RecordOf, TypeOK
    <2>4. \A v \in Workers : scan[v].cand \subseteq Jobs
      BY DEF TypeOK, Scan
    <2>5. CandidatesHeld'
      BY <2>2, <2>3, <2>4 DEF LockInv, CandidatesHeld
    <2>6. ClaimsHeld'
      BY <2>2, <2>3 DEF LockInv, ClaimsHeld, HasRecord
    <2> QED
      BY <2>2, <2>5, <2>6 DEF LockInv
  <1>7. ASSUME NEW w \in Workers, NEW j \in Jobs, SkipRow(w, j) PROVE LockInv'
    <2>1. locks[w][j] > 0
      BY <1>7 DEF SkipRow, Reached, LockInv, CandidatesHeld
    <2>2. /\ LockExclusive'
          /\ \A v \in Workers, k \in Jobs : locks[v][k] > 0 => locks'[v][k] > 0
      <3>1. locks' = locks \/ locks' = Hold(locks, w, j)
        BY <1>7 DEF SkipRow
      <3>2. CASE locks' = locks
        BY <3>2 DEF LockInv, LockExclusive
      <3>3. CASE locks' = Hold(locks, w, j)
        BY <2>1, <3>3, HoldGrants DEF LockInv
      <3> QED
        BY <3>1, <3>2, <3>3
    <2>3. /\ pc' = pc /\ conn' = conn /\ rec' = rec
          /\ \A v \in Workers : scan'[v].cand \subseteq scan[v].cand
      BY <1>7 DEF SkipRow, TypeOK
    <2>4. \A v \in Workers : scan[v].cand \subseteq Jobs
      BY DEF TypeOK, Scan
    <2>5. CandidatesHeld'
      BY <2>2, <2>3, <2>4 DEF LockInv, CandidatesHeld
    <2>6. ClaimsHeld'
      BY <2>2, <2>3 DEF LockInv, ClaimsHeld, HasRecord
    <2> QED
      BY <2>2, <2>5, <2>6 DEF LockInv
  <1>8. ASSUME NEW w \in Workers, FindNothing(w) PROVE LockInv'
    <2>1. \A v \in Workers : scan'[v].cand = scan[v].cand
      BY <1>8, NoScanType DEF FindNothing, TypeOK
    <2> QED
      BY <1>8, <2>1, NoScanType, LocksUntouched DEF FindNothing, TypeOK, Executing
  <1>9. ASSUME NEW w \in Workers, Wake(w) PROVE LockInv'
    BY <1>9, LocksUntouched DEF Wake, TypeOK, Executing
  <1>10. ASSUME NEW w \in Workers,
                CommitClaim(w) \/ MarkRunning(w) \/ WriteDone(w) \/ WriteDoneFails(w)
         PROVE  LockInv'
    <2>1. rec[w].id \in Jobs
      BY <1>10 DEF CommitClaim, MarkRunning, WriteDone, WriteDoneFails, Executing, HasRecord
    <2>2. \A v \in Workers : scan'[v].cand = scan[v].cand
      BY <1>10, <2>1, WriteKeepsCandidates
      DEF CommitClaim, MarkRunning, WriteDone, WriteDoneFails, StatementFails
    <2> QED
      BY <1>10, <2>2, LocksUntouched
      DEF CommitClaim, MarkRunning, WriteDone, WriteDoneFails, TypeOK, Executing
  <1>11. ASSUME NEW w \in Workers, rec[w].id \in Jobs, SettleFailure(w)
         PROVE  \A v \in Workers : scan'[v].cand = scan[v].cand
    BY <1>11, WriteKeepsCandidates DEF SettleFailure, BuryJob, RetryJob
  <1>12. ASSUME NEW w \in Workers, HandleFailure(w) PROVE LockInv'
    <2>1. rec[w].id \in Jobs
      BY <1>12 DEF HandleFailure, Executing, HasRecord
    <2>2. \A v \in Workers : scan'[v].cand = scan[v].cand
      BY <1>11, <1>12, <2>1 DEF HandleFailure
    <2> QED
      BY <1>12, <2>2, LocksUntouched DEF HandleFailure, TypeOK, Executing
  <1>13. ASSUME NEW w \in Workers, HandlerEnds(w) \/ HandlerHangs(w) \/ HandlerSpins(w)
         PROVE  LockInv'
    BY <1>13, LocksUntouched DEF HandlerEnds, HandlerHangs, HandlerSpins, TypeOK, Executing
  <1>14. ASSUME NEW w \in Workers, Unlock(w) PROVE LockInv'
    <2>1. \A v \in Workers \ {w} : locks'[v] = locks[v]
      BY <1>14 DEF Unlock, Unhold, TypeOK
    <2>2. \A k \in Jobs : locks'[w][k] > 0 => locks[w][k] > 0
      <3>1. CASE locks' = locks
        BY <3>1
      <3>2. CASE locks' = Unhold(locks, w, rec[w].id)
        BY <3>2 DEF Unhold, TypeOK
      <3> QED
        BY <1>14, <3>1, <3>2 DEF Unlock
    <2>3. scan' = scan /\ conn' = conn /\ scan[w].cand = {}
      BY <1>14 DEF Unlock, LockInv, CandidatesHeld
    <2>4. /\ pc'[w] = "claim"
          /\ \A v \in Workers \ {w} : pc'[v] = pc[v] /\ rec'[v] = rec[v]
      BY <1>14 DEF Unlock, TypeOK
    <2>5. LockExclusive'
      BY <2>1, <2>2 DEF LockInv, LockExclusive
    <2>6. CandidatesHeld'
      BY <2>1, <2>3, <2>4 DEF LockInv, CandidatesHeld
    <2>7. ClaimsHeld'
      BY <2>1, <2>3, <2>4 DEF LockInv, ClaimsHeld, Executing
    <2> QED
      BY <2>5, <2>6, <2>7 DEF LockInv
  <1>15. ASSUME NEW w \in Workers, Heartbeat(w) PROVE LockInv'
    <2> DEFINE mine == {j \in Jobs : OwnedRunning(rows[j], w)}
    <2>1. scan' = Touched(mine, {})
      BY <1>15 DEF Heartbeat
    <2>2. \A v \in Workers : scan'[v].cand = scan[v].cand
      <3>0. scan \in [Workers -> Scan] /\ mine \in SUBSET Jobs /\ {} \in SUBSET Jobs
        BY DEF TypeOK
      <3>1. \A v \in Workers : Touched(mine, {})[v].cand = scan[v].cand
        BY <3>0, TouchedScans, Zenon
      <3> QED
        BY <2>1, <3>1
    <2> QED
      BY <1>15, <2>2, LocksUntouched DEF Heartbeat
  <1>16. ASSUME NEW w \in Workers, Reap(w) PROVE LockInv'
    <2> DEFINE stale == {j \in Jobs : Reapable(rows[j])}
    <2>1. scan' = Touched(stale, {})
      BY <1>16 DEF Reap
    <2>2. \A v \in Workers : scan'[v].cand = scan[v].cand
      <3>0. scan \in [Workers -> Scan] /\ stale \in SUBSET Jobs /\ {} \in SUBSET Jobs
        BY DEF TypeOK
      <3>1. \A v \in Workers : Touched(stale, {})[v].cand = scan[v].cand
        BY <3>0, TouchedScans, Zenon
      <3> QED
        BY <2>1, <3>1
    <2> QED
      BY <1>16, <2>2, LocksUntouched DEF Reap
  <1>17. ASSUME NEW w \in Workers, Stop(w) \/ StopBeating(w) PROVE LockInv'
    BY <1>17, LocksUntouched DEF Stop, StopBeating
  <1>18. ASSUME NEW w \in Workers, NEW step \in {"exited", "dead"}, Leave(w, step),
                scan'[w].cand = {},
                \A v \in Workers \ {w} : scan'[v].cand = scan[v].cand
         PROVE  LockInv'
    BY <1>18, SessionEnds DEF Leave, TypeOK
  <1>19. ASSUME NEW w \in Workers, LeaveLoop(w) PROVE LockInv'
    <2>1. scan' = scan /\ scan[w].cand = {}
      BY <1>19 DEF LeaveLoop, LockInv, CandidatesHeld
    <2> QED
      BY <1>18, <1>19, <2>1 DEF LeaveLoop
  <1>20. ASSUME NEW w \in Workers, MarkRunningFails(w) \/ HandleFailureFails(w)
                                   \/ CommitReplyLost(w)
         PROVE  LockInv'
    <2>1. rec[w].id \in Jobs /\ scan[w].cand = {}
      BY <1>20 DEF MarkRunningFails, HandleFailureFails, CommitReplyLost, Executing,
                   HasRecord, LockInv, CandidatesHeld
    <2>2. \A v \in Workers : scan'[v].cand = scan[v].cand
      BY <1>11, <1>20, <2>1, WriteKeepsCandidates
      DEF MarkRunningFails, HandleFailureFails, CommitReplyLost, StatementFails
    <2>3. Leave(w, "exited")
      BY <1>20 DEF MarkRunningFails, HandleFailureFails, CommitReplyLost
    <2> QED
      BY <1>18, <2>1, <2>2, <2>3
  <1>21. ASSUME NEW w \in Workers, ClaimFails(w) \/ LoseSessionInClaim(w) \/ Kill(w)
         PROVE  LockInv'
    <2>1. scan' = [scan EXCEPT ![w] = NoScan]
      BY <1>21 DEF ClaimFails, LoseSessionInClaim, Kill
    <2>2. scan'[w].cand = {} /\ \A v \in Workers \ {w} : scan'[v].cand = scan[v].cand
      BY <2>1, NoScanType DEF TypeOK
    <2>3. Leave(w, "exited") \/ Leave(w, "dead")
      BY <1>21 DEF ClaimFails, LoseSessionInClaim, Kill
    <2> QED
      BY <1>18, <2>2, <2>3
  <1>22. ASSUME NEW w \in Workers, LoseSession(w) PROVE LockInv'
    <2>1. scan' = scan /\ scan[w].cand = {}
      BY <1>22 DEF LoseSession, LockInv, CandidatesHeld
    <2> QED
      BY <1>22, <2>1, SessionEnds DEF LoseSession, TypeOK
  <1>23. CASE UNCHANGED vars
    BY <1>23, LocksUntouched DEF vars
  <1> QED
    BY <1>1, <1>2, <1>3, <1>4, <1>5, <1>6, <1>7, <1>8, <1>9, <1>10, <1>12, <1>13,
       <1>14, <1>15, <1>16, <1>17, <1>19, <1>20, <1>21, <1>22, <1>23
    DEF Next, Claiming, Running, Stopping, Failing

LEMMA Invariance == Spec => []IInv
  <1>1. Init => IInv
    BY InitTyped, InitLocked DEF IInv
  <1>2. IInv /\ [Next]_vars => IInv'
    BY NextTyped, NextLocked DEF IInv
  <1> QED
    BY <1>1, <1>2, PTL DEF Spec

(* Two owners of a job would both hold its lock. *)
LEMMA Excluded == IInv => MutualExclusion
  <1> SUFFICES ASSUME IInv, NEW v \in Workers, NEW w \in Workers, NEW j \in Jobs,
                      Owns(v, j), Owns(w, j)
               PROVE  v = w
    BY DEF MutualExclusion
  <1>1. locks[v][j] > 0 /\ locks[w][j] > 0
    BY DEF IInv, LockInv, ClaimsHeld, Owns
  <1> QED
    BY <1>1 DEF IInv, LockInv, LockExclusive

(* No two workers with live claim sessions have the same job in hand,      *)
(* whatever plans, faults, reaps, cancellations and re-entrant holds the   *)
(* run goes through (_try_claim, _execute_job).                            *)
THEOREM Exclusion == Spec => []MutualExclusion
  BY Excluded, Invariance, PTL
===============================================================================
