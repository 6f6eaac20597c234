------------------------------- MODULE ApiReads -------------------------------
(***************************************************************************)
(* The requests of the API that read with several statements: GET /metrics *)
(* and GET /metrics/prometheus (api/routes/metrics.py), GET /jobs          *)
(* (api/routes/jobs.py).  Every query takes a snapshot of its own, while   *)
(* clients, workers and the reaper move the tables in between.  That       *)
(* environment is JobLifecycle, which TaskQueue is shown to implement.     *)
(*                                                                         *)
(* A request is a coroutine of the one API process and is sent once.  An   *)
(* action is one query with the code up to the next await; only where that *)
(* code goes on to the gauges, which all requests share, is the resumption *)
(* an action of its own.                                                   *)
(***************************************************************************)
EXTENDS Naturals, Sequences, FiniteSets

CONSTANTS Jobs, RetryLimits,
          MetricsRequests,   \* requests that may ask for the metrics,
          ScrapeRequests,    \* for the Prometheus text,
          ListRequests,      \* for a list of jobs
          Limits,    \* values of query parameter limit
          Offsets    \* values of query parameter offset

ASSUME JobsAssumption == IsFiniteSet(Jobs)
ASSUME RetryLimitsAssumption == RetryLimits \subseteq Nat
ASSUME LimitsAssumption == Limits \subseteq Nat \ {0}
ASSUME OffsetsAssumption == Offsets \subseteq Nat

Requests == MetricsRequests \cup ScrapeRequests \cup ListRequests

VARIABLES
  job, letters,   \* the tables
  gauge,          \* prom_queue_depth per label; 0 also before its first set
  active,         \* prom_active_workers
  at,             \* where the coroutine of each request stands
  kind,           \* the endpoint it serves
  wanted,         \* GET /jobs: statuses of the filter, limit, offset
  depth,          \* its depth_rows: count per status, 0 when there is no group
  count           \* its other answers, by query

tables == <<job, letters>>
vars == <<job, letters, gauge, active, at, kind, wanted, depth, count>>

Tables == INSTANCE JobLifecycle

Statuses == {"pending", "claimed", "running", "done", "dead"}
Terminal == {"done", "dead"}

(* A request waits at the query it runs next; at "gauges" and "render" the *)
(* reply is there and the coroutine was not resumed yet.                   *)
Queries == {"recent", "terminal", "errored", "average", "total", "letters",
            "running", "matches", "page"}
Points == Queries \cup {"idle", "depth", "gauges", "render", "answered"}

Page == [filter : SUBSET Statuses, limit : Nat, offset : Nat]

(* WHERE status IN (ss) *)
WithStatus(ss) == {j \in Jobs : job[j].status \in ss}
Counted(ss) == Cardinality(WithStatus(ss))

(* The rows of dead_letter_jobs. *)
LetterRows == UNION {{j} \X DOMAIN letters[j] : j \in Jobs}

TypeOK ==
  /\ gauge \in [Statuses -> Nat]
  /\ active \in Nat
  /\ at \in [Requests -> Points]
  /\ kind \in [Requests -> {"none", "metrics", "scrape", "list"}]
  /\ wanted \in [Requests -> Page]
  /\ depth \in [Requests -> [Statuses -> Nat]]
  /\ count \in [Requests -> [Queries -> Nat]]

Init ==
  /\ Tables!Init
  /\ gauge = [s \in Statuses |-> 0]
  /\ active = 0
  /\ at = [r \in Requests |-> "idle"]
  /\ kind = [r \in Requests |-> "none"]
  /\ wanted = [r \in Requests |-> [filter |-> Statuses, limit |-> 0, offset |-> 0]]
  /\ depth = [r \in Requests |-> [s \in Statuses |-> 0]]
  /\ count = [r \in Requests |-> [q \in Queries |-> 0]]

-------------------------------------------------------------------------------
(* Clients, workers and reaper. *)
MoveTables ==
  /\ Tables!Next
  /\ UNCHANGED <<gauge, active, at, kind, wanted, depth, count>>

(* A request comes in and is dispatched to its handler. *)
Ask(r, k, first) ==
  /\ at[r] = "idle"
  /\ kind' = [kind EXCEPT ![r] = k]
  /\ at' = [at EXCEPT ![r] = first]
  /\ UNCHANGED <<tables, gauge, active, depth, count>>

AskMetrics(r) == r \in MetricsRequests /\ Ask(r, "metrics", "depth") /\ UNCHANGED wanted
AskScrape(r) == r \in ScrapeRequests /\ Ask(r, "scrape", "depth") /\ UNCHANGED wanted

(* Fault variant: the status is not validated. *)
AskListUnchecked(r) ==
  /\ r \in ListRequests
  /\ Ask(r, "list", "matches")
  /\ \E f \in {{s} : s \in Statuses \cup {"cancelled"}}, l \in Limits, o \in Offsets :
       wanted' = [wanted EXCEPT ![r] = [filter |-> f, limit |-> l, offset |-> o]]

(* GET /jobs with one of the known statuses, or without a filter.  The     *)
(* filters on type and creation time select a fixed part of the jobs.      *)
AskList(r) ==
  /\ r \in ListRequests
  /\ Ask(r, "list", "matches")
  /\ \E f \in {{s} : s \in Statuses} \cup {Statuses}, l \in Limits, o \in Offsets :
       wanted' = [wanted EXCEPT ![r] = [filter |-> f, limit |-> l, offset |-> o]]

(* SELECT status, COUNT( * ) ... GROUP BY status *)
QueryDepth(r) ==
  /\ at[r] = "depth"
  /\ depth' = [depth EXCEPT ![r] = [s \in Statuses |-> Counted({s})]]
  /\ at' = [at EXCEPT ![r] = "gauges"]
  /\ UNCHANGED <<tables, gauge, active, kind, wanted, count>>

(* Fault variant: the gauges are incremented. *)
AddTo(d) == [s \in Statuses |-> gauge[s] + d[s]]

(* The gauges after the groups of one answer: a status without a row has   *)
(* no group, and its gauge keeps its value.                                *)
SetTo(d) == [s \in Statuses |-> IF d[s] > 0 THEN d[s] ELSE gauge[s]]

SetGauges(r) ==
  /\ at[r] = "gauges"
  /\ gauge' = SetTo(depth[r])
  /\ active' = IF kind[r] = "metrics" THEN depth[r]["running"] ELSE active
  /\ at' = [at EXCEPT ![r] = IF kind[r] = "metrics" THEN "recent" ELSE "running"]
  /\ UNCHANGED <<tables, kind, wanted, depth, count>>

(* A query whose answer n only its own coroutine sees. *)
Answer(r, query, n, next) ==
  /\ at[r] = query
  /\ count' = [count EXCEPT ![r][query] = n]
  /\ at' = [at EXCEPT ![r] = next]
  /\ UNCHANGED <<tables, gauge, active, kind, wanted, depth>>

(* The jobs done within the last minute are any part of those done. *)
QueryRecent(r) == \E n \in 0 .. Counted({"done"}) : Answer(r, "recent", n, "terminal")
QueryTerminal(r) == Answer(r, "terminal", Counted(Terminal), "errored")
QueryErrored(r) == Answer(r, "errored", Counted({"dead"}), "average")
(* The rows the average is taken over; without any it is NULL. *)
QueryAverage(r) == Answer(r, "average", Counted({"done"}), "total")
QueryTotal(r) == Answer(r, "total", Counted(Statuses), "letters")
QueryLetters(r) == Answer(r, "letters", Cardinality(LetterRows), "answered")

(* A scrape counts the running jobs once more and renders all gauges. *)
QueryRunning(r) == Answer(r, "running", Counted({"running"}), "render")
Render(r) ==
  /\ at[r] = "render"
  /\ active' = count[r]["running"]
  /\ at' = [at EXCEPT ![r] = "answered"]
  /\ UNCHANGED <<tables, gauge, kind, wanted, depth, count>>

(* Fault variant: the first page is taken for number 1, not 0. *)
PageLengthFromOne(matching, page) ==
  IF matching <= page.offset + 1 THEN 0
  ELSE IF matching - page.offset < page.limit THEN matching - page.offset
  ELSE page.limit

(* LIMIT and OFFSET *)
PageLength(matching, page) ==
  IF matching <= page.offset THEN 0
  ELSE IF matching - page.offset < page.limit THEN matching - page.offset
  ELSE page.limit

(* GET /jobs: the total, then the page. *)
QueryMatches(r) == Answer(r, "matches", Counted(wanted[r].filter), "page")
QueryPage(r) ==
  Answer(r, "page", PageLength(Counted(wanted[r].filter), wanted[r]), "answered")

Serve(r) ==
  \/ AskMetrics(r) \/ AskScrape(r) \/ AskList(r)
  \/ QueryDepth(r) \/ SetGauges(r)
  \/ QueryRecent(r) \/ QueryTerminal(r) \/ QueryErrored(r) \/ QueryAverage(r)
  \/ QueryTotal(r) \/ QueryLetters(r) \/ QueryRunning(r) \/ Render(r)
  \/ QueryMatches(r) \/ QueryPage(r)

Next == MoveTables \/ \E r \in Requests : Serve(r)

Spec == Init /\ [][Next]_vars

-------------------------------------------------------------------------------
Answered(r, k) == at[r] = "answered" /\ kind[r] = k

(* The numbers of one MetricsResponse come from seven snapshots; those of  *)
(* finished jobs may lag behind one another, but only in the order of the  *)
(* queries in get_metrics: done and dead are final, and a dead job has its *)
(* dead letter from the start.                                             *)
MetricsConsistent ==
  \A r \in Requests : Answered(r, "metrics") =>
    /\ depth[r]["done"] + depth[r]["dead"] <= count[r]["terminal"]
    /\ depth[r]["done"] <= count[r]["average"]
    /\ depth[r]["dead"] <= count[r]["errored"]
    /\ count[r]["recent"] <= count[r]["terminal"]
    /\ count[r]["terminal"] <= count[r]["total"]
    /\ count[r]["errored"] <= count[r]["letters"]

(* A gauge of finished jobs may be late (two requests may write it in the  *)
(* other order), but it never shows more than there are.                   *)
FinalGaugesLag == \A s \in Terminal : gauge[s] <= Counted({s})

(* list_jobs counts before it reads the page: with a filter on a final     *)
(* status, a page that starts below the total it reports has a row.        *)
PageNotEmpty ==
  \A r \in Requests :
    /\ Answered(r, "list")
    /\ wanted[r].filter \subseteq Terminal
    /\ wanted[r].offset < count[r]["matches"]
    => count[r]["page"] > 0
===============================================================================
