# A verification model of the PostgreSQL job scheduler

The repository is a distributed job queue in Python on one PostgreSQL
database: an HTTP API inserts rows into `jobs`, worker processes claim and
execute them, heartbeat and reaper loops recover what crashed workers leave
behind. This directory holds TLA+ modules translated from that code, TLC runs
that check them on small instances, and TLAPS proofs for all instances.

## 1. The system

| Component | Code | State | Operations | Interacts through |
|---|---|---|---|---|
| Tables | `db/migrations/001_init.sql` | `jobs`, `dead_letter_jobs`; a trigger that notifies on INSERT | the SQL statements below | everything else is a client of it |
| Jobs API | `api/routes/jobs.py`, `api/schemas.py` | none of its own | `create_job`, `get_job`, `list_jobs` (two queries), `cancel_job` (SELECT FOR UPDATE, then DELETE) | rows |
| Worker | `worker/worker.py` | per coroutine: claim connection with its advisory locks, listen connection, notify event, the claimed record | `_try_claim`, `_execute_job`, `_handle_failure`, loop of `run_worker` | rows, row locks, advisory locks, NOTIFY |
| Process | `worker/worker.py` `_main` | event loop shared by several workers, their heartbeat loops and one reaper | start, SIGTERM, gather | shutdown event, one thread |
| Heartbeat and reaper | `worker/heartbeat.py` | none but the loops | `heartbeat_loop` (10 s), `stale_reaper_loop` (15 s, threshold 30 s) | `heartbeat_at`, `status`, `worker_id` |
| Handlers | `worker/registry.py` | registry | `noop`, `always_fail`, `flaky`, `slow`, `echo`, `is_prime`, `collatz`, `sha256_chain` | the claimed record; they run in the event loop |
| Metrics API | `api/routes/metrics.py` | Prometheus gauges of the API process | `get_metrics` (seven queries), `prometheus_metrics` | rows |
| Pool, lifespan | `db/pool.py`, `api/main.py` | the pool | `create_pool` with retry, `close_pool` | start-up order |
| Benchmarks, scripts, deployment | `benchmark/`, `scripts/`, docker files | - | clients and configuration | not modelled |

### What is hard about it

* **The claim query.** `pg_try_advisory_lock(id)` stands in the WHERE clause of
  a `SELECT ... FOR UPDATE SKIP LOCKED LIMIT 1`. It is called for every row the
  plan filters, on a statement snapshot, before the row lock; a row rewritten
  since the snapshot is filtered again on its new version. Session-level locks
  are re-entrant and outlive the transaction, and `_execute_job` gives back
  exactly one hold of exactly one job.
* **Writes by id.** After the claim no UPDATE tests status or owner. What keeps
  a worker from writing over another's execution is the advisory lock alone.
* **The reaper** looks at `heartbeat_at` only. It can take a row from a worker
  that still executes; that row is then `pending` while its advisory lock is
  held, and clients may cancel it.
* **Failures in the middle**: processes killed between statements, statements
  that fail or whose replies are lost, claim sessions dropped under a worker
  that does not notice, handlers that never return or block the event loop,
  heartbeat loops that end on shutdown before their workers do.

`PROJECT.json` lists the hazards at their lines with the properties that cover
them.

### What makes each component correct

* Claiming and execution: one worker at a time per job; a decision taken from
  the claimed record is still right when it is written; finished jobs stay
  finished; the retry budget is kept; dead letters and dead jobs agree.
* Recovery: a job of a crashed or hung worker returns, a job of a healthy one
  is left alone; every job settles; shutdown drains.
* API: only jobs nobody executes are cancelled.
* Metrics and lists: the numbers of one answer, read by several queries, still
  agree where the order of the queries lets them; gauges show what is there.
* Process: no wakeup is lost, a job that is due is taken, SIGTERM ends the
  process after its jobs; start-up waits for the database as long as it says.
* Timing: the heartbeat, reaper, poll and back-off intervals together leave
  healthy jobs alone, recover orphans and start due jobs in bounded time.
* Handlers: results equal those of a reference definition, and calls end.

## 2. Modules

| Module | Models |
|---|---|
| `JobTable` | a row of `jobs` and each SQL statement that rewrites one, as an operator from row to row; the WHERE clauses |
| `AdvisoryLocks` | PostgreSQL's session-level advisory locks, as the worker uses them (external) |
| `TaskQueue` | enqueue and cancel, workers, heartbeats, reaper, shutdown and faults, interleaved statement by statement; all properties |
| `JobLifecycle` | the abstract specification: what the tables show of a job, whoever executes it |
| `ApiReads` | `GET /metrics`, `GET /metrics/prometheus` and `GET /jobs`, query by query, while `JobLifecycle` moves the tables |
| `PoolStartup` | `create_pool` with its attempts and sleeps, against a database that is down, starting up or ready; `close_pool` |
| `WorkerProcess` | one worker process on its event loop: coroutines, listen connections and notify events, loops, signal, `gather`; extends `PoolStartup` and composes it with the API process that inserts |
| `Timetable` | the clock: priority and `run_at`, back-off, poll, heartbeat, reaper and threshold, handlers that block an event loop, crashes |
| `Handlers` | `get_handler` and one call of each built-in handler, iteration by iteration |
| `MCTaskQueue`, `MCApiReads`, `MCWorkerProcess`, `MCTimetable`, `MCHandlers` | instances for TLC |
| `TaskQueue_proofs` | types and mutual exclusion |
| `Lifecycle_proofs` (on `TaskQueue_proofs`) | `TaskQueue` implements `JobLifecycle`, and what follows while sessions and replies last |
| `Overrun_proofs` (on `Lifecycle_proofs`) | what lost replies and lost sessions cost |
| `ApiReads_proofs`, `WorkerProcess_proofs`, `Timetable_proofs`, `Handlers_proofs` | theorems about the module of that name |
| `Numbers_proofs` | induction and recursion on the naturals, powers of two, maxima |

`TaskQueue!ImplementsLifecycle` states that `TaskQueue` implements
`JobLifecycle` under the mapping that keeps status, attempt and max_retries of
each row. `ApiReads` composes the same `JobLifecycle` with the reading requests,
so what it shows holds of the real tables as far as that implementation holds:
while no claim session and no reply is lost (`Lifecycle_proofs!Refinement`).

### TaskQueue and the code

State: `rows` and `dlq` are the two tables; `locks` and `conn` the sessions of
the claim connections; `pc`, `rec` and `scan` say where each `run_worker`
coroutine stands, which record it holds, and what its claim query in flight has
seen; `beating` and `stopping` are the heartbeat loop and the shutdown event of
its process.

One action is one statement (an autocommitted UPDATE, or a transaction nobody
can look into) with the control up to the next await:

| Code | Actions |
|---|---|
| `create_job`, `cancel_job` | `Enqueue`, `Cancel` |
| `_try_claim`, the SELECT | `BeginScan` (snapshot), `Probe` (WHERE on one row), `SelectRow` (row lock, LIMIT 1), `SkipRow` (SKIP LOCKED or failed recheck), `FindNothing` |
| `_try_claim`, UPDATE and COMMIT | `CommitClaim`, `CommitReplyLost`, `ClaimFails` |
| `_execute_job` | `MarkRunning`, `HandlerEnds`, `WriteDone`, `Unlock`; `MarkRunningFails`, `WriteDoneFails`, `HandlerHangs`, `HandlerSpins` |
| `_handle_failure` | `HandleFailure` (`RetryJob` or `BuryJob`), `HandleFailureFails` |
| `run_worker` | `Start`, `Wake`, `LeaveLoop`, and `Leave` for its finally clause |
| `heartbeat_loop`, `stale_reaper_loop` | `Heartbeat`, `StopBeating`, `Reap` |
| signal handler; the world | `Stop`; `Kill`, `LoseSession`, `LoseSessionInClaim`, `BecomeDue`, `Expire` |

Abstractions, and why they are sound for the properties:

* *Time.* `due` stands for `run_at <= NOW()`; `heartbeat` is null, fresh or
  stale. `Expire` may age a heartbeat at any moment, except a running row whose
  owner's loop is alive: the loop writes three times per threshold. With the
  fault `"stall"` that exception goes.
* *Order.* Rows of a query are probed in any order; `priority` and the order of
  `run_at` are `Timetable`'s subject.
* *Plans.* `"index"` is the plan the partial index is made for: due rows, one at
  a time, until one is returned. `"sort"` is the sequential scan under a sort,
  which PostgreSQL prefers for small tables: the filter, and so the lock
  function, runs on every pending row before any is returned. PostgreSQL orders
  the conditions of a filter by cost, which puts the function before
  `run_at <= NOW()`.
* *A worker id is a process of its own.* The code runs `WORKER_COUNT` coroutines
  per process; what they share (event loop, reaper) is in `WorkerProcess` and
  `Timetable`.
* `"hang"` is a handler that awaits for ever, `"spin"` one that never yields.

### ApiReads and the code

`at` is the await where the coroutine of a request stands, `count` and `depth`
are its locals, `gauge` and `active` the Prometheus gauges of the process.
`get_metrics` is `AskMetrics`, `QueryDepth`, `SetGauges`, `QueryRecent` ...
`QueryLetters`, in the order of its statements; `prometheus_metrics` is
`AskScrape`, `QueryDepth`, `SetGauges`, `QueryRunning`, `Render`; `list_jobs` is
`AskList`, `QueryMatches`, `QueryPage`. A query and the code after it are one
action unless that code writes gauges: between the snapshot of the `GROUP BY`
and the resumption another request may write them. A page is its length; the
filters on type and creation time, which select a fixed part of the jobs, and
the rounding of quotients are left out. Status `failed`, which no statement
writes, is left out everywhere.

### WorkerProcess, PoolStartup and the code

`pool`, `tries`, `sleep` and `waited` are `create_pool` of each process, in
seconds; `eta` is when the database accepts connections. `pc` is the await of
each `run_worker`, `listening` its LISTEN, `inflight` a NOTIFY that was sent to
it and not yet delivered, `event` its `notify_event`; `unseen` is a history
variable, the jobs inserted while it listened since its last claim query ran on
the server. A claim is three steps (sent, run on the server, reply) because the
event loop may deliver a NOTIFY between any two of them. `_main` is `Startup`,
`Sigterm`, `HandleSignal`, `Gathered`, `Exit`. A handler is either `awaiting`,
with the event loop free, or `computing`, when nothing else of the process runs
(`Scheduled`), not even the signal handler. What an execution writes is reduced
to `taken` and `settled`; a 'running' UPDATE that raises leaves the job `stranded`
(`StartError`; what becomes of the row is in `TaskQueue`); `InsertTaken` is a job
that another process gets first.
`CannotConnectNowError`, which PostgreSQL raises while it starts up, is not
among the exceptions `create_pool` retries (pool.py:103): `Rejected` ends the
process, and `PatientStart` excepts exactly that case.

### Timetable and the code

A tick is 5 s, the greatest common divisor of the intervals. Statements take no
time, so the windows between a claim and its 'running' UPDATE, which `TaskQueue`
explores, are closed here, and a row is only `pending`, `running` or final.
`Tick` is possible when nothing that is due is left undone in a process whose
event loop is free. The heartbeat loops of a process are started together with
the same interval and are one timer. A worker that ends a job has awaited
statements before it claims again, and asyncio runs every callback that is ready
meanwhile: overdue timers have run (the second guard of `Claim`), and a handler
of the same process whose 'running' reply had arrived while the loop was kept
has begun (`Begun`). Which of the two comes first is open (`Compute`), so all
coroutines of a process can keep it one after another before it beats, but each
of them once. Clocks stop at `Horizon`, one tick past the last moment a property
compares with (`LastOrphan`, the latest recovery, and the longest sum of
back-offs).

### Handlers and the code

The variables are the locals of the three loops. `math.isqrt` is modelled by
what it decides (`PastRoot`), `hashlib.sha256` by any function on digests.
Exceptions other than `KeyError` and the intended ones (a payload that is not a
number) are left out. The docstring of `is_prime` (registry.py:123) gives 3936
divisors for 15485863, the code counts 1968.

Faults of `TaskQueue` and `WorkerProcess` are switched on by the constant `Faults`, so that each run says under
which of them its properties hold.

## 3. Runs

Workers and jobs are model values; symmetry is used where only safety is checked.

| Run | Instance | Shows |
|---|---|---|
| `claim` | 2 workers, 2 jobs, limit 2, both plans, no faults | `MutualExclusion` and `RecordCurrent` in spite of leaked holds and stale snapshots; `ImplementsLifecycle` |
| `crash` | 2 workers, 1 job, limits 0 and 2, both plans, every fault but lost sessions and replies | `MutualExclusion`, `ImplementsLifecycle`, `TerminalIsFinal`, `DeadLettersAgree`, `AttemptsBounded`: each effect once |
| `session` | 3 workers, 1 job, limit 4, lost sessions, late heartbeats | sessions that live still exclude one another; attempts overrun by at most three per other worker (`SessionOverrun`, and no smaller bound holds) |
| `settle` | 2 workers, 1 job, limits 0 and 3, late heartbeats | `EveryJobSettles`; no deadlock |
| `recover` | 2 workers, 1 job, limit 2, kills, shutdown, late heartbeats, lost replies | `KilledRunRecovered`, `ShutdownDrains`; `ReplyOverrun`: at most two attempts too many, one dead letter |
| `reads` | 2 jobs, one metrics request, one scrape or list | `MetricsConsistent`, `FinalGaugesLag`, `PageNotEmpty` |
| `process` | 2 coroutines, 1 job, the database ready after 0, 16, 30 to 33 s, all faults | `NoLostWakeup`, `DueJobTaken`, `SigtermEndsProcess`, `NothingCutShort`, `PatientStart` |
| `timetable` | 2 processes with 2 and 1 coroutines, the second mortal, 2 jobs of 3 kinds, handlers that block up to 3 ticks | `HealthyNotReaped`, `RecoveryBound`, `DueStartsInTime`, `BackoffKept` |
| `handlers` | all n from -2 to 130, 4 digests | `PrimeCorrect`, `CheckedCounts`, `CollatzCorrect`, `CallsEnd` |

Two workers and one job are the least with a race; the second job is needed for
locks leaked on a job that is not executed, the third worker for a chain of
lost sessions. Limit 0 is the boundary, 2 and more retry; the overrun of lost
sessions reaches its bound with three workers only from limit 4 on, because a
worker without a session reopens the row once with its late 'running' and once
with its outcome.
`MaxHold` bounds re-entrant holds, which a waiting worker adds to with every
sequential scan: no scan starts while a pending job is held that often. With the
index plan holds stay below the bound of 6, so the guard never blocks there,
and the liveness runs use that plan. Runs in which everybody may be killed,
stuck, stopped by `MaxHold` or answered do not check deadlock. In `reads` every
request is sent once; two of them are the least that write the gauges in turn,
and two jobs the least for a count that moves twice. In `process` the times are
the boundaries of the last attempt but one and of the 30 s; a second coroutine
is what keeps the process alive when the first has failed. A worker process may
end and every job be settled, so deadlock is not checked there, nor in
`handlers`.

In `timetable`, 3 ticks is the largest block for which `HealthyNotReaped` holds:
with 4, two handlers of one process, one after the other, keep it from beating
for more than the threshold, and another process reaps the second job while it
executes. In seconds: the blocking times of all coroutines of a process must not
add up to more than 30 s (with the default of four workers, 7.5 s for each), and
one less than all of them to more than 20 s, or the margin of README.md:483 is
gone. `LivingKept` proves that these two conditions are enough for any number of
coroutines. `RecoveryBound` is threshold, reaper interval and those blocks together.
The requests are a job that computes, one of high priority that starts later,
fails and is retried after 1 and 2 ticks, and one that awaits past the threshold.
In `handlers`, 130 is past the square of 11, and 27 needs 111 steps.

### Where the code departs from what the repository says

| Run | Statement | What happens |
|---|---|---|
| `reaped_while_healthy` | heartbeat.py:82 reclaims "from crashed or stalled workers" | a retry keeps the old `heartbeat_at`, the claim does not set it: the next claim can be reaped before it is marked running; DELETE then accepts a job whose worker goes on |
| `killed_claim` | README.md:53 crashed workers are recovered | claimed with NULL heartbeat is never reaped |
| `queue_behind_slow_worker` | README.md:133 no head-of-line blocking | a leaked advisory lock of a busy worker blocks another due job |

Visible in the same models, without a run of their own:

* When the reply to the 'done' UPDATE is lost, the job is retried although it
  was done (worker.py:213), against README.md:43 and the diagram at 189;
  `ReplyOverrun` bounds what it costs.
* `error_rate` may exceed 1 (schemas.py:126 calls it a fraction): a job that dies
  between the count of finished and of dead jobs is in the numerator only.
  `MetricsConsistent` states the relations that do hold.
* The gauge of a status that no job has any more keeps its last value, since
  GROUP BY has no group for it (metrics.py:104, 176).
* A handler that awaits for ever is kept fresh by its own heartbeat loop, and
  one that never yields (collatz of a number below 1) is reaped but keeps its
  advisory lock with its open session: in both cases nobody takes the job until
  the process is killed, although README.md:53 speaks of hung workers.

## 4. Fairness

`Fairness` is weak fairness of the clock (`BecomeDue`, `Expire`), of each
coroutine's claim steps and execution steps, of each heartbeat loop and reaper,
and of a heartbeat loop's exit once shutdown was signalled. asyncio runs every
ready coroutine and the waits have timeouts (`POLL_INTERVAL`, the loop
intervals), so each is a step that comes if it stays possible. Clients,
the outcome of handlers and faults are not fair: that handlers end when no fault
is enabled is `HandlerEnds` in the fairness of `Running`.

In `WorkerProcess` weak fairness is assumed of the start-up attempts and the
clock, of each coroutine's next step (its wait has a timeout, its statements
answer, its handler ends), of the delivery of a NOTIFY, of the signal handler
once a signal was sent, of the loops' exit and of `_main`'s end. Every one of
them is a callback that asyncio runs when it is ready. No fault is fair, no
client is, and nobody sends SIGTERM. In `Handlers` the only process is the call.

## 5. Proofs

Every invariant and every action property of the passing runs is a theorem, for
all values of the constants that satisfy the named assumptions. These say that
model values like `NoWorker` and `Nobody` are not among what they stand in for,
that limits and times are natural numbers, and that what is counted (`Jobs` of
`ApiReads`, `Workers` of `Timetable`, `Coroutines`) is finite. What more a
theorem assumes is in its statement.

### The queue

`TaskQueue_proofs`:

* `TypeCorrect`: `Spec => []TypeOK`. `TypeOK` is not inductive: rows and holds
  are updated at `rec[w].id`, so `HasRecord` (an executing worker has a record)
  is carried along.
* `Exclusion`: `Spec => []MutualExclusion`. The inductive invariant `IInv` adds
  `LockExclusive` (at most one session holds a lock), `CandidatesHeld` (every
  row that passed the WHERE of a query in flight is held by its worker) and
  `ClaimsHeld` (an executing worker with a live session holds its job). The
  lock is taken when a row is probed, long before the row is known to be the
  one returned, so `CandidatesHeld` is what carries it from `Probe` to
  `SelectRow`; that only `Unlock` and the end of a session give holds back does
  the rest. The reaper does not occur in the argument, which is the point of
  the second lock.

`Lifecycle_proofs` assumes `Reliable`: neither `"session"` nor `"lost_reply"`
is among the faults. Kills, failing statements, hanging handlers and late
heartbeats are.

* `Refinement`: `Spec => ImplementsLifecycle`. `LifeInv` ties each row to the
  coroutine that has the job in hand: the status the row may have at each step
  (`StatusAt`; the reaper may have made it pending and a client may have deleted
  it), the record equal to the row in attempt and limit while the row is there,
  the attempt open (`Open`), no dead letter yet. Since nobody else has the job
  in hand (`OneHand`, from `IInv`), the writes by id hit the row their record
  was read from; each action is then one step of `JobLifecycle` or none.
* `RecordStaysCurrent`, `DeadLettersExact` and `AttemptsStayBounded` follow
  from `LifeInv`. `FinishedStaysFinished` follows from the step: no abstract
  step leaves `done` or `dead`.

`Overrun_proofs` takes one of the two excluded faults at a time:

* `RepliesCostTwo` (no session is lost): `Spec => []ReplyOverrun`. `ReplyInv`
  allows what `LifeInv` does not: a row that is done already while its worker
  handles a failure (`StatusMaybe`), and a record behind its row. The retry it
  writes may use up the last attempt, never more (`RowSound`), so the next end
  counts one too many and its own lost reply a second one.
* `SessionsCostThree` (no reply is lost; `SomeWorkers`: finitely many, at least
  one): `Spec => []SessionOverrun`. A worker that lost its session with a job in
  hand may yet write its 'running', which reopens the row, and its outcome, which
  counts and may reopen it again. `Spent(j)` collects these as tokens, at most
  three for each worker; `BudgetOK` says that attempts made and attempts still
  owed by those who hold the job properly stay within the limit plus the tokens.
  That would give three for every worker. `LastOnes` saves those of one: as long
  as some worker has its session its tokens are unspent, and when the last
  session is gone nobody claims any more, so what is in hand counts once.

### The API

`ApiReads_proofs`, for every finite set of jobs and any requests in progress:
`ReadsTyped`, `MetricsAgree`, `GaugesOnlyLag`, `PagesAgree`, all from
`ReadInv`. Its core is that finished jobs only grow in number
(`FinalCountsGrow`, from `TablesMove`): what a request has counted is still
there (`SeenOK`), so each later count of a larger set is at least the earlier
one (`OrderOK`). `Route` says which endpoint passes which await, without which
the counts of a metrics request could be those of a list.

### The process

`WorkerProcess_proofs`, for all coroutines, jobs, start-up times and faults:

* `ProcessTyped`: `Spec => []TypeOK`; the sleep of `create_pool` is a power of
  two, a number by `Numbers_proofs!PowerType`.
* `WakeupKept`: `Spec => []NoLostWakeup`. With the types it is inductive: a claim
  query that finds nothing empties `unseen` when it runs on the server, every
  later INSERT puts a NOTIFY in flight, delivery turns it into the event, and
  the clear of the event is followed by another claim, not by another wait.
* `EndsAfterJobs`: `Spec => []NothingCutShort`. The invariant says that a locked
  or taken job is in the hands of a coroutine that is not gone (`HeldByOne`),
  and that a closed pool has only coroutines that are (`ClosedWhenGone`); that a
  closed pool is never opened again needs `OnlySleepersSleep`.
* `StartsPatiently` (six attempts or more, as in `create_pool`):
  `Spec => []PatientStart`. `StartInv` relates what a process has slept to its
  attempt, `waited + sleep + 1 = 2^tries` (`OnTime`), so that the sixth attempt
  comes after 31 s; processes that are not ready have waited equally long, since
  they share the clock; who gave up was refused at the last attempt or met a
  server that was starting up (`GaveUp`).

### The clock

`Timetable_proofs`, for all processes, coroutines, jobs and mixes of requests:

* `ClocksTyped`: `Spec => []TypeOK`, from `Basic` (types, who has what in hand,
  who keeps a loop) and `Paced`.
* `DispatchLatency`: `Spec => DueStartsInTime`, from `Prompt`: a job waits only
  while it can be claimed or its executor is dead, and what an idle worker did
  not find when it began its wait has become claimable since.
* `OrphansRecovered`: `Spec => []RecoveryBound`, from `Found(q)` for a process q
  that cannot crash: an orphan's wait, the time to q's next round and the
  handlers that may still keep q's loop before it (`Ahead`) stay within the
  bound.
* `LivingKept`: `Spec => HealthyNotReaped`, assuming `LoopKept`: the blocking
  times of all coroutines of a process fit into the threshold, and those of all
  but one into what a heartbeat leaves of it. With intervals of 10 and 30 s these
  are the 30 s and 20 s of section 3. `Beating` bounds the age of each living
  worker's heartbeat by what has kept its loop since.
* `RetriesBackOff`: `Spec => []BackoffKept`, from `Paced`: the time a job has
  spent waiting and the part of its back-off that is still to come add up to
  `2^attempt - 1`, however often it is reaped and claimed in between.

The first attempt at `LivingKept` failed, for a good reason: with only the timers
ordered before a claim, a worker could end a short handler, claim and compute
again while its sibling's handler was still about to begin, so that one process
could be kept three times in a row. That takes three jobs, one more than
`timetable` has. The code does not allow it, since the claim itself awaits; the
guard `Begun` states it. An instance of one process with two coroutines and three
jobs that compute (1.7 million states) confirmed both: with the guard
`HealthyNotReaped` holds, without it a living worker is reaped.

### The handlers

`Handlers_proofs`, for every integer, payload and digest function:

* `HandlersTyped`: `Spec => []TypeOK`.
* `PrimeAlways`: `Spec => []PrimeCorrect`. In the loop n is odd, d is odd and
  nothing below d divides n (`Searching`); `EvenDivisor` lets d skip the even
  candidates, `RootSuffices` ends the search at the root.
* `CountsRight`: `Spec => []CheckedCounts`. `checked` is one more than the odd
  numbers from 3 below d (`Tried`), all of which are within the root.
* `CollatzAlways`: `Spec => []CollatzCorrect`. The sequence and its partial sums
  exist up to `MaxSteps` before the loop runs (`OrbitExists`), and the loop runs
  `Along` them; `OrbitIs` shows that the recursive definition has no other
  solution, `PathSum` that a fold in any order is the last partial sum.

`Numbers_proofs` gets induction from the well-foundedness of the naturals, with
the set of the numbers that are proved in place of a predicate (`Induction`), and
recursion (`Recursion`) and the powers of two from that.

### What only TLC checks

Liveness under fairness is out of the prover's reach: `EveryJobSettles`,
`KilledRunRecovered`, `ShutdownDrains`, `DueJobTaken`, `SigtermEndsProcess` and
`CallsEnd`. So are the three runs that show a departure, and what happens with
lost sessions and lost replies at once, for which no bound is stated.

## 6. Plan

1. Done: `JobTable`, `AdvisoryLocks`, `TaskQueue`, `JobLifecycle`, `ApiReads`.
2. Done: `PoolStartup`, `WorkerProcess`, `Timetable`, `Handlers`.
3. Done: the theorems of section 5.
4. Next: a bound for lost sessions and lost replies together, if one holds,
   with a run that reaches it; theorems that the API's answers inherit from
   `TaskQueue` through `Refinement` (the reads of `ApiReads` beside the rows of
   `TaskQueue` instead of the abstract tables).

## 7. Not modelled

Payloads, results and error texts, formatting, logging, CORS, connection
codecs; `get_job`, which reads one row with one statement, and the response
models, which copy columns; the view `job_queue_stats`, which no code reads;
the pool's size and command timeout; the benchmarks, scripts and deployment
files. See `PROJECT.json` for the status of every part.
