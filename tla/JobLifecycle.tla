----------------------------- MODULE JobLifecycle -----------------------------
(***************************************************************************)
(* What the queue promises about a job, whoever executes it and however    *)
(* often it is taken over: README.md, "Job Lifecycle", made precise.  Every *)
(* execution that is counted ends in one of three ways - done, one more    *)
(* retry, or the one dead letter - and done and dead are final.            *)
(*                                                                         *)
(* TaskQueue implements this module as long as no session and no reply is  *)
(* lost (TaskQueue!ImplementsLifecycle); ApiReads uses it as the           *)
(* environment that moves the tables while the API reads them.             *)
(***************************************************************************)
EXTENDS Naturals, Sequences

CONSTANTS Jobs,         \* ids
          RetryLimits   \* values of max_retries

VARIABLES job,      \* status, attempt and max_retries of each id
          letters   \* table dead_letter_jobs: column attempts, per original_id

tables == <<job, letters>>

State(s, a, m) == [status |-> s, attempt |-> a, max_retries |-> m]

Init ==
  /\ job = [j \in Jobs |-> State("unborn", 0, 0)]
  /\ letters = [j \in Jobs |-> <<>>]

(* Attempts a job has: one at least, also when no retry was asked for. *)
Budget(m) == IF m = 0 THEN 1 ELSE m

(* The row of job j moves from one of the statuses in `from` to `to`. *)
Move(j, from, to) ==
  /\ job[j].status \in from
  /\ job' = [job EXCEPT ![j].status = to]

(* The same at the end of an execution, which counts. *)
MoveCounted(j, from, to) ==
  /\ job[j].status \in from
  /\ job' = [job EXCEPT ![j].status = to, ![j].attempt = @ + 1]

Create(j) ==
  /\ job[j].status = "unborn"
  /\ \E m \in RetryLimits : job' = [job EXCEPT ![j] = State("pending", 0, m)]
  /\ UNCHANGED letters

Cancel(j) ==
  /\ job[j].status = "pending"
  /\ job' = [job EXCEPT ![j] = State("deleted", 0, 0)]
  /\ UNCHANGED letters

Claim(j) == Move(j, {"pending"}, "claimed") /\ UNCHANGED letters

(* The reaper may have taken the row back from its worker, which does not  *)
(* know: an execution starts and ends on a pending row as well.            *)
Begin(j) == Move(j, {"claimed", "pending"}, "running") /\ UNCHANGED letters

Finish(j) ==
  /\ job[j].attempt < Budget(job[j].max_retries)
  /\ MoveCounted(j, {"running", "pending"}, "done")
  /\ UNCHANGED letters

Retry(j) ==
  /\ job[j].attempt + 1 < job[j].max_retries
  /\ MoveCounted(j, {"running", "pending"}, "pending")
  /\ UNCHANGED letters

(* Fault variant: the status alone, the dead letter in a later statement. *)
BuryWithoutLetter(j) ==
  /\ job[j].attempt + 1 = Budget(job[j].max_retries)
  /\ MoveCounted(j, {"running", "pending"}, "dead")
  /\ UNCHANGED letters

(* The last failure: status and dead letter change together. *)
Bury(j) ==
  /\ job[j].attempt + 1 = Budget(job[j].max_retries)
  /\ MoveCounted(j, {"running", "pending"}, "dead")
  /\ letters' = [letters EXCEPT ![j] = Append(@, job[j].attempt + 1)]

(* The last failure of a job that was cancelled under its worker, after    *)
(* the reaper: the dead letter is written, the row is gone.                *)
BuryCancelled(j) ==
  /\ job[j].status = "deleted"
  /\ letters[j] = <<>>
  /\ \E m \in RetryLimits : letters' = [letters EXCEPT ![j] = <<Budget(m)>>]
  /\ UNCHANGED job

(* One statement of the reaper takes back any number of jobs. *)
Reclaim(js) ==
  /\ js # {}
  /\ \A j \in js : job[j].status \in {"claimed", "running"}
  /\ job' = [j \in Jobs |-> IF j \in js THEN [job[j] EXCEPT !.status = "pending"]
                            ELSE job[j]]
  /\ UNCHANGED letters

Next ==
  \/ \E j \in Jobs :
       \/ Create(j) \/ Cancel(j) \/ Claim(j) \/ Begin(j)
       \/ Finish(j) \/ Retry(j) \/ Bury(j) \/ BuryCancelled(j)
  \/ \E js \in SUBSET Jobs : Reclaim(js)

Spec == Init /\ [][Next]_tables
===============================================================================
