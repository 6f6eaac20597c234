------------------------------- MODULE Timetable -------------------------------
(***************************************************************************)
(* The clock of the system: run_at, priority and back-off of jobs, the     *)
(* poll of idle workers, heartbeats, the reaper and its threshold, and     *)
(* handlers that block the event loop which the timers of their process    *)
(* run on.  A tick is 5 seconds; statements take no time, so a claimed job *)
(* is at once running, with a fresh heartbeat.                             *)
(***************************************************************************)
EXTENDS Integers, FiniteSetsExt

CONSTANTS Processes, Workers,
          Home,        \* the process of each worker
          Nobody, Jobs,
          Requests,    \* bodies of POST /jobs
          MaxBlock,    \* ticks a "compute" handler keeps the event loop
          Mortal       \* processes that may crash

POLL_INTERVAL == 1
BASE_DELAY == 1
HEARTBEAT_INTERVAL == 2
REAPER_INTERVAL == 3
STALE_THRESHOLD == 6

(* What the API accepts.  "compute" stands for the mathematical handlers,  *)
(* "unknown" for a type that is not registered.                            *)
JobCreate == [type : {"noop", "always_fail", "flaky", "slow", "compute", "unknown"},
              priority : 1 .. 10, max_retries : 0 .. 10, delay : Nat, sleep : Nat]

ASSUME TimetableAssumption ==
  /\ IsFiniteSet(Workers)
  /\ Nobody \notin Workers \cup Jobs
  /\ Home \in [Workers -> Processes]
  /\ Requests \subseteq JobCreate
  /\ MaxBlock \in Nat
  /\ Mortal \subseteq Processes /\ Mortal # Processes

VARIABLES
  row,       \* table jobs; overdue is NOW() - run_at, beat NOW() - heartbeat_at
  pc,        \* each run_worker
  hand,      \* the job it executes
  timer,     \* ticks left of its wait (0: about to claim), or of its handler
  nextBeat,  \* ticks until a process's heartbeat loops wake up; -1: overdue
  nextReap,  \* the same of its reaper
  since,     \* ticks a job has been claimable, or its executor dead
  spent      \* ticks since a job was created

vars == <<row, pc, hand, timer, nextBeat, nextReap, since, spent>>

(* All coroutines of a process may keep its event loop one after another. *)
LongestBlock == MaxBlock * Max({Cardinality({w \in Workers : Home[w] = p}) : p \in Processes})

LastOrphan == STALE_THRESHOLD + REAPER_INTERVAL + LongestBlock

(* Nothing tells later moments apart: the last tick at which an orphan may *)
(* be left, and the longest row of back-offs.                              *)
Horizon == Max({LastOrphan + 1} \cup {2 ^ r.max_retries : r \in Requests})
NULL == -1
Absent == [type |-> "noop", priority |-> 1, max_retries |-> 0, sleep |-> 0, status |-> "absent",
           attempt |-> 0, overdue |-> 0, beat |-> NULL, owner |-> Nobody]

TypeOK ==
  /\ \A j \in Jobs :
       /\ row[j].status \in {"absent", "pending", "running", "done", "dead"}
       /\ row[j].attempt \in {0, 1} \cup 0 .. row[j].max_retries
       /\ row[j].overdue \in Int /\ row[j].overdue <= Horizon
       /\ row[j].beat \in NULL .. Horizon
       /\ row[j].owner \in Workers \cup {Nobody}
  /\ pc \in [Workers -> {"idle", "starting", "awaiting", "computing", "dead"}]
  /\ \A w \in Workers : hand[w] \in Jobs <=> pc[w] \in {"starting", "awaiting", "computing"}
  /\ timer \in [Workers -> Nat]
  /\ nextBeat \in [Processes -> -1 .. HEARTBEAT_INTERVAL]
  /\ nextReap \in [Processes -> -1 .. REAPER_INTERVAL]
  /\ since \in [Jobs -> 0 .. Horizon] /\ spent \in [Jobs -> 0 .. Horizon]

Init ==
  /\ row = [j \in Jobs |-> Absent]
  /\ pc = [w \in Workers |-> "idle"]
  /\ hand = [w \in Workers |-> Nobody]
  /\ timer = [w \in Workers |-> 0]
  /\ nextBeat \in [Processes -> 0 .. HEARTBEAT_INTERVAL]
  /\ nextReap = nextBeat
  /\ since = [j \in Jobs |-> 0]
  /\ spent = [j \in Jobs |-> 0]

-------------------------------------------------------------------------------
(* POST /jobs.  NOTIFY wakes some of the idle workers, or none. *)
Create(j) ==
  /\ row[j].status = "absent"
  /\ \E r \in Requests :
       row' = [row EXCEPT ![j] =
                [Absent EXCEPT !.type = r.type, !.priority = r.priority, !.sleep = r.sleep,
                               !.max_retries = r.max_retries, !.status = "pending",
                               !.overdue = -r.delay]]
  /\ \E S \in SUBSET {w \in Workers : pc[w] = "idle" /\ timer[w] > 0} :
       timer' = [w \in Workers |-> IF w \in S THEN 0 ELSE timer[w]]
  /\ UNCHANGED <<pc, hand, nextBeat, nextReap, since, spent>>

-------------------------------------------------------------------------------
(* run_worker, while its event loop is free.                               *)

Free(p) == \A w \in Workers : Home[w] = p => pc[w] \notin {"computing", "dead"}

(* status = 'pending' AND run_at <= NOW(), and nobody executes it: the     *)
(* advisory lock of a reaped job stays with the worker that goes on.       *)
Claimable(j) ==
  /\ row[j].status = "pending"
  /\ row[j].overdue >= 0
  /\ \A w \in Workers : hand[w] # j

(* ORDER BY priority DESC, run_at ASC LIMIT 1 *)
Before(i, j) ==
  \/ row[i].priority > row[j].priority
  \/ /\ row[i].priority = row[j].priority
     /\ row[i].overdue >= row[j].overdue

Claiming(w) == Free(Home[w]) /\ pc[w] = "idle" /\ timer[w] = 0

(* A worker that executed a job has awaited statements since: a handler    *)
(* that could not begin while the event loop was kept has begun.           *)
Begun(w) ==
  \A v \in Workers : Home[v] = Home[w] /\ pc[v] = "starting" => row[hand[v]].beat <= 0

(* _try_claim and the 'running' UPDATE; timers that were overdue when the  *)
(* event loop was left have run as well.                                   *)
Claim(w) ==
  /\ Claiming(w)
  /\ nextBeat[Home[w]] >= 0 /\ nextReap[Home[w]] >= 0
  /\ Begun(w)
  /\ \E j \in Jobs :
       /\ Claimable(j)
       /\ \A i \in Jobs : Claimable(i) => Before(j, i)
       /\ row' = [row EXCEPT ![j].status = "running", ![j].beat = 0, ![j].owner = w]
       /\ hand' = [hand EXCEPT ![w] = j]
       /\ pc' = [pc EXCEPT ![w] = IF row[j].type = "compute" THEN "starting" ELSE "awaiting"]
       /\ timer' = [timer EXCEPT ![w] = IF row[j].type = "slow" THEN row[j].sleep ELSE 0]
       /\ since' = [since EXCEPT ![j] = 0]
  /\ UNCHANGED <<nextBeat, nextReap, spent>>

(* A handler that keeps the event loop begins, perhaps before timers that  *)
(* are overdue.                                                            *)
Compute(w) ==
  /\ Free(Home[w])
  /\ pc[w] = "starting"
  /\ pc' = [pc EXCEPT ![w] = "computing"]
  /\ \E t \in 0 .. MaxBlock : timer' = [timer EXCEPT ![w] = t]
  /\ UNCHANGED <<row, hand, nextBeat, nextReap, since, spent>>

(* Fault variant: it sleeps as long as the heartbeat loop does. *)
WaitLong == HEARTBEAT_INTERVAL

(* timeout=POLL_INTERVAL *)
Wait == POLL_INTERVAL

FindNothing(w) ==
  /\ Claiming(w)
  /\ \A j \in Jobs : ~Claimable(j)
  /\ timer' = [timer EXCEPT ![w] = Wait]
  /\ UNCHANGED <<row, pc, hand, nextBeat, nextReap, since, spent>>

(* get_handler's KeyError, or the handler's own exception. *)
Fails(r) ==
  \/ r.type \in {"unknown", "always_fail"}
  \/ (r.type = "flaky" /\ r.attempt < 2)

(* Fault variant: > instead of >=. *)
ExhaustedTooLate(r) == r.attempt + 1 > r.max_retries

Exhausted(r) == r.attempt + 1 >= r.max_retries

(* Fault variant: attempt * BASE_DELAY. *)
BackoffLinear(a) == a * BASE_DELAY

Backoff(a) == 2 ^ a * BASE_DELAY

(* The row after its execution: done, dead, or a retry, which keeps the    *)
(* heartbeat of this execution.                                            *)
Outcome(r) ==
  LET counted == [r EXCEPT !.attempt = @ + 1]
  IN  IF Fails(r) /\ ~Exhausted(r)
      THEN [counted EXCEPT !.status = "pending", !.owner = Nobody, !.overdue = -Backoff(r.attempt)]
      ELSE [counted EXCEPT !.status = IF Fails(r) THEN "dead" ELSE "done",
                           !.overdue = 0, !.beat = NULL]

Finish(w) ==
  /\ pc[w] = "computing" \/ (pc[w] = "awaiting" /\ Free(Home[w]))
  /\ timer[w] = 0
  /\ row' = [row EXCEPT ![hand[w]] = Outcome(@)]
  /\ hand' = [hand EXCEPT ![w] = Nobody]
  /\ pc' = [pc EXCEPT ![w] = "idle"]
  /\ since' = [since EXCEPT ![hand[w]] = 0]
  /\ UNCHANGED <<timer, nextBeat, nextReap, spent>>

-------------------------------------------------------------------------------
(* The other loops of a process.  Its heartbeat loops keep step.           *)

(* Fault variant: WHERE status = 'running', without worker_id. *)
BeatsAll(p, r) == r.status = "running"

Beats(p, r) == r.status = "running" /\ r.owner # Nobody /\ Home[r.owner] = p

Heartbeat(p) ==
  /\ Free(p)
  /\ nextBeat[p] <= 0
  /\ row' = [j \in Jobs |-> IF Beats(p, row[j]) THEN [row[j] EXCEPT !.beat = 0] ELSE row[j]]
  /\ nextBeat' = [nextBeat EXCEPT ![p] = HEARTBEAT_INTERVAL]
  /\ UNCHANGED <<pc, hand, timer, nextReap, since, spent>>

(* Fault variant: heartbeat_at <= NOW() - threshold. *)
StaleEarly(r) == r.status = "running" /\ r.beat >= STALE_THRESHOLD

Stale(r) == r.status = "running" /\ r.beat > STALE_THRESHOLD

Reap(p) ==
  /\ Free(p)
  /\ nextReap[p] <= 0
  /\ row' = [j \in Jobs |-> IF Stale(row[j])
                            THEN [row[j] EXCEPT !.status = "pending", !.beat = NULL,
                                                !.owner = Nobody]
                            ELSE row[j]]
  /\ since' = [j \in Jobs |-> IF Stale(row[j]) THEN 0 ELSE since[j]]
  /\ nextReap' = [nextReap EXCEPT ![p] = REAPER_INTERVAL]
  /\ UNCHANGED <<pc, hand, timer, nextBeat, spent>>

Crash(p) ==
  LET lost == {w \in Workers : Home[w] = p}
  IN  /\ p \in Mortal
      /\ \E w \in lost : pc[w] # "dead"
      /\ pc' = [w \in Workers |-> IF w \in lost THEN "dead" ELSE pc[w]]
      /\ hand' = [w \in Workers |-> IF w \in lost THEN Nobody ELSE hand[w]]
      /\ timer' = [w \in Workers |-> IF w \in lost THEN 0 ELSE timer[w]]
      /\ nextBeat' = [nextBeat EXCEPT ![p] = 0]
      /\ nextReap' = [nextReap EXCEPT ![p] = 0]
      /\ since' = [j \in Jobs |-> IF \E w \in lost : hand[w] = j THEN 0 ELSE since[j]]
      /\ UNCHANGED <<row, spent>>

-------------------------------------------------------------------------------
(* Five seconds pass once everything that is due has happened.             *)

Up(k) == IF k < Horizon THEN k + 1 ELSE k
Later(k, bound) == IF k > bound THEN k - 1 ELSE k
Dead(p) == \A w \in Workers : Home[w] = p => pc[w] = "dead"
Settled(j) == row[j].status \in {"absent", "done", "dead"}
Orphan(j) == row[j].status = "running" /\ row[j].owner # Nobody /\ pc[row[j].owner] = "dead"

Tick ==
  /\ \A w \in Workers : pc[w] = "computing" \/ Free(Home[w]) => timer[w] > 0
  /\ \A w \in Workers : Free(Home[w]) => pc[w] # "starting"
  /\ \A p \in Processes : Free(p) => nextBeat[p] > 0 /\ nextReap[p] > 0
  /\ row' = [j \in Jobs |->
       IF Settled(j) THEN row[j]
       ELSE [row[j] EXCEPT !.overdue = Up(@), !.beat = IF @ = NULL THEN NULL ELSE Up(@)]]
  /\ timer' = [w \in Workers |-> Later(timer[w], 0)]
  /\ nextBeat' = [p \in Processes |-> Later(nextBeat[p], IF Dead(p) THEN 0 ELSE -1)]
  /\ nextReap' = [p \in Processes |-> Later(nextReap[p], IF Dead(p) THEN 0 ELSE -1)]
  /\ since' = [j \in Jobs |-> IF Claimable(j) \/ Orphan(j) THEN Up(since[j]) ELSE since[j]]
  /\ spent' = [j \in Jobs |-> IF Settled(j) THEN spent[j] ELSE Up(spent[j])]
  /\ UNCHANGED <<pc, hand>>

Next ==
  \/ Tick
  \/ \E j \in Jobs : Create(j)
  \/ \E w \in Workers : \/ Claim(w) \/ FindNothing(w) \/ Compute(w) \/ Finish(w)
  \/ \E p \in Processes : Heartbeat(p) \/ Reap(p) \/ Crash(p)

Spec == Init /\ [][Next]_vars

-------------------------------------------------------------------------------
(* README.md:483, "two heartbeat cycles plus a 10s safety margin": a job   *)
(* is never taken from a worker that is alive, however heartbeats, reaper  *)
(* and handlers fall, as long as the handlers of one process keep its      *)
(* event loop for no more than STALE_THRESHOLD between them, a heartbeat   *)
(* interval less if the worker itself awaits.                              *)
HealthyNotReaped ==
  [][\A w \in Workers :
       hand[w] \in Jobs /\ hand'[w] = hand[w] /\ row[hand[w]].status = "running"
       => row'[hand[w]].status = "running"]_vars

(* A job whose worker crashed is pending again after STALE_THRESHOLD, one  *)
(* REAPER_INTERVAL and the handlers that block the survivor at the latest. *)
RecoveryBound == \A j \in Jobs : Orphan(j) => since[j] <= LastOrphan

(* README.md:457, "worst-case dispatch latency is 5 seconds": no job that  *)
(* has been due for a poll waits on while a worker is idle and its event   *)
(* loop free, even if its NOTIFY was lost, or it was retried, or reaped.   *)
DueStartsInTime ==
  [][\A j \in Jobs :
       Claimable(j) /\ since'[j] > since[j] /\ since[j] >= POLL_INTERVAL
       => \A w \in Workers : pc[w] = "idle" => ~Free(Home[w])]_vars

(* README.md:47, exponential backoff: the a-th retry of a job never starts *)
(* before all its back-offs have passed, whatever is reaped in between.    *)
BackoffKept ==
  \A j \in Jobs :
    row[j].status \in {"running", "done", "dead"} =>
      LET failed == row[j].attempt - IF row[j].status = "running" THEN 0 ELSE 1
      IN  spent[j] >= (2 ^ failed - 1) * BASE_DELAY
===============================================================================
