----------------------------- MODULE WorkerProcess -----------------------------
(***************************************************************************)
(* One worker process (worker.py, _main and run_worker; heartbeat.py, the  *)
(* two loops): several run_worker coroutines, a heartbeat loop for each    *)
(* and one reaper on one event loop, from create_pool to pool.close; the   *)
(* API process that inserts jobs; and the NOTIFY that tells the former     *)
(* about the latter.  What the statements do to the tables is TaskQueue's  *)
(* subject; here a job is only seen, taken and settled.                    *)
(***************************************************************************)
EXTENDS PoolStartup, FiniteSets

CONSTANTS Coroutines,   \* worker_ids
          Jobs, NoJob,
          Faults        \* a subset of FaultKinds

FaultKinds == {"connect_error", "claim_error", "start_error", "listen_lost", "loop_error"}

ASSUME ProcessAssumption ==
  /\ Processes = {"api", "worker"}
  /\ IsFiniteSet(Coroutines)
  /\ NoJob \notin Jobs
  /\ Faults \subseteq FaultKinds

VARIABLES
  status,      \* of each job
  pc, hand,    \* where each run_worker stands, the job it selected or executes
  listening,   \* its listen_conn has LISTEN job_channel
  inflight,    \* a NOTIFY is on its way to its event loop
  event,       \* notify_event
  unseen,      \* jobs inserted, while it listened, since its last claim query
  loops,       \* how many heartbeat loops and reapers are alive
  shutdown     \* SIGTERM, and shutdown_event

workerVars == <<pc, hand, listening, inflight, event, unseen>>
vars == <<startupVars, status, workerVars, loops, shutdown>>

(* "test": at the head of the while loop; "claim": the query is on its way *)
(* to the server; "commit", "empty": it ran there, with and without a row; *)
(* "awaiting" and "computing": in a handler that yields, or does not yield *)
(* to the event loop; "failed": an exception left run_worker.              *)
Steps == {"connect", "listen", "test", "claim", "commit", "empty", "waiting",
          "awaiting", "computing", "ended", "failed"}

Gone == {"ended", "failed"}

TypeOK ==
  /\ StartupTypeOK
  /\ status \in [Jobs -> {"absent", "later", "due", "locked", "taken", "settled", "stranded"}]
  /\ pc \in [Coroutines -> Steps]
  /\ hand \in [Coroutines -> Jobs \cup {NoJob}]
  /\ listening \in [Coroutines -> BOOLEAN]
  /\ inflight \in [Coroutines -> BOOLEAN]
  /\ event \in [Coroutines -> BOOLEAN]
  /\ unseen \in [Coroutines -> SUBSET Jobs]
  /\ loops \in 0 .. Cardinality(Coroutines) + 1
  /\ shutdown \in {"no", "sent", "set"}

Init ==
  /\ StartupInit
  /\ status = [j \in Jobs |-> "absent"]
  /\ pc = [w \in Coroutines |-> "connect"]
  /\ hand = [w \in Coroutines |-> NoJob]
  /\ listening = [w \in Coroutines |-> FALSE]
  /\ inflight = [w \in Coroutines |-> FALSE]
  /\ event = [w \in Coroutines |-> FALSE]
  /\ unseen = [w \in Coroutines |-> {}]
  /\ loops = Cardinality(Coroutines) + 1
  /\ shutdown = "no"

Serving == pool["worker"] = "open"

(* The tasks exist and no handler keeps the event loop to itself. *)
Scheduled == Serving /\ \A w \in Coroutines : pc[w] # "computing"

-------------------------------------------------------------------------------
(* Clients, the clock and the server.                                      *)

Startup(p) == Connecting(p) /\ UNCHANGED <<status, workerVars, loops, shutdown>>
StartupSecond == Second /\ UNCHANGED <<status, workerVars, loops, shutdown>>

(* POST /jobs: at its commit the trigger's NOTIFY goes to every session    *)
(* that listens, whenever the job is to run.                               *)
Insert(j) ==
  /\ pool["api"] = "open"
  /\ status[j] = "absent"
  /\ \E s \in {"later", "due"} : status' = [status EXCEPT ![j] = s]
  /\ inflight' = [w \in Coroutines |-> inflight[w] \/ listening[w]]
  /\ unseen' = [w \in Coroutines |->
                  IF listening[w] THEN unseen[w] \cup {j} ELSE unseen[w]]
  /\ UNCHANGED <<startupVars, pc, hand, listening, event, loops, shutdown>>

(* A job inserted now that another worker process takes at once. *)
InsertTaken ==
  /\ pool["api"] = "open"
  /\ inflight # listening
  /\ inflight' = listening
  /\ UNCHANGED <<startupVars, status, pc, hand, listening, event, unseen, loops, shutdown>>

(* run_at passes, and nobody is notified. *)
BecomeDue(j) ==
  /\ status[j] = "later"
  /\ status' = [status EXCEPT ![j] = "due"]
  /\ UNCHANGED <<startupVars, workerVars, loops, shutdown>>

(* The API's lifespan ends: close_pool. *)
StopApi ==
  /\ Close("api")
  /\ UNCHANGED <<status, workerVars, loops, shutdown>>

(* The session of listen_conn is over, and its callback has nobody to call. *)
StopListening(w) ==
  /\ listening' = [listening EXCEPT ![w] = FALSE]
  /\ inflight' = [inflight EXCEPT ![w] = FALSE]
  /\ unseen' = [unseen EXCEPT ![w] = {}]

(* The server drops listen_conn; nobody notices and nobody reconnects. *)
LoseListener(w) ==
  /\ "listen_lost" \in Faults
  /\ listening[w]
  /\ StopListening(w)
  /\ UNCHANGED <<startupVars, status, pc, hand, event, loops, shutdown>>

-------------------------------------------------------------------------------
(* run_worker.                                                             *)

Goto(w, step) == pc' = [pc EXCEPT ![w] = step]

(* The finally clause: both connections are closed, with claim_conn every  *)
(* lock of its session, and the event is taken out of _notify_events.      *)
Disconnect(w) ==
  /\ StopListening(w)
  /\ event' = [event EXCEPT ![w] = FALSE]
  /\ hand' = [hand EXCEPT ![w] = NoJob]

(* listen_conn and claim_conn are opened. *)
Connect(w) ==
  /\ Scheduled
  /\ pc[w] = "connect"
  /\ \/ Goto(w, "listen")
     \/ "connect_error" \in Faults /\ Goto(w, "failed")
  /\ UNCHANGED <<startupVars, status, hand, listening, inflight, event, unseen,
                 loops, shutdown>>

(* add_listener; like listen_conn and claim_conn outside of the try. *)
Listen(w) ==
  /\ Scheduled
  /\ pc[w] = "listen"
  /\ \/ /\ Goto(w, "test")
        /\ listening' = [listening EXCEPT ![w] = TRUE]
     \/ /\ "connect_error" \in Faults
        /\ Goto(w, "failed")
        /\ UNCHANGED listening
  /\ UNCHANGED <<startupVars, status, hand, inflight, event, unseen, loops, shutdown>>

(* _on_notify, and the notify_event.set() it schedules. *)
Notified(w) ==
  /\ Scheduled
  /\ inflight[w]
  /\ inflight' = [inflight EXCEPT ![w] = FALSE]
  /\ event' = [event EXCEPT ![w] = TRUE]
  /\ UNCHANGED <<startupVars, status, pc, hand, listening, unseen, loops, shutdown>>

(* while not shutdown_event.is_set(): _try_claim sends its query. *)
SendClaim(w) ==
  /\ Scheduled
  /\ pc[w] = "test"
  /\ shutdown # "set"
  /\ Goto(w, "claim")
  /\ UNCHANGED <<startupVars, status, hand, listening, inflight, event, unseen,
                 loops, shutdown>>

LeaveLoop(w) ==
  /\ Scheduled
  /\ pc[w] = "test"
  /\ shutdown = "set"
  /\ Goto(w, "ended")
  /\ Disconnect(w)
  /\ UNCHANGED <<startupVars, status, loops, shutdown>>

(* The server runs the query, whatever the event loop does meanwhile: a    *)
(* due row is locked, a row locked by another claim is skipped.            *)
RunClaim(w) ==
  /\ pc[w] = "claim"
  /\ unseen' = [unseen EXCEPT ![w] = {}]
  /\ \/ \E j \in Jobs :
          /\ status[j] = "due"
          /\ status' = [status EXCEPT ![j] = "locked"]
          /\ hand' = [hand EXCEPT ![w] = j]
          /\ Goto(w, "commit")
     \/ /\ \A j \in Jobs : status[j] # "due"
        /\ Goto(w, "empty")
        /\ UNCHANGED <<status, hand>>
  /\ UNCHANGED <<startupVars, listening, inflight, event, loops, shutdown>>

(* UPDATE and COMMIT, the 'running' UPDATE, and the handler is called. *)
StartJob(w) ==
  /\ Scheduled
  /\ pc[w] = "commit"
  /\ status' = [status EXCEPT ![hand[w]] = "taken"]
  /\ \E step \in {"awaiting", "computing"} : Goto(w, step)
  /\ UNCHANGED <<startupVars, hand, listening, inflight, event, unseen, loops, shutdown>>

(* The 'running' UPDATE raises: the row stays claimed, without a heartbeat *)
(* (worker.py:178), which is TaskQueue's subject.                          *)
StartError(w) ==
  /\ "start_error" \in Faults
  /\ Scheduled
  /\ pc[w] = "commit"
  /\ status' = [status EXCEPT ![hand[w]] = "stranded"]
  /\ Goto(w, "failed")
  /\ Disconnect(w)
  /\ UNCHANGED <<startupVars, loops, shutdown>>

(* Fault variant: run_worker without its finally clause. *)
ClaimErrorLeaks(w) ==
  /\ "claim_error" \in Faults
  /\ Scheduled
  /\ pc[w] \in {"commit", "empty"}
  /\ Goto(w, "failed")
  /\ UNCHANGED <<startupVars, status, hand, listening, inflight, event, unseen,
                 loops, shutdown>>

(* The claim transaction raises: rolled back, and no handler in the way of *)
(* the exception.                                                          *)
ClaimError(w) ==
  /\ "claim_error" \in Faults
  /\ Scheduled
  /\ pc[w] \in {"commit", "empty"}
  /\ status' = [j \in Jobs |-> IF j = hand[w] THEN "due" ELSE status[j]]
  /\ Goto(w, "failed")
  /\ Disconnect(w)
  /\ UNCHANGED <<startupVars, loops, shutdown>>

(* The handler ends, its outcome is written, the lock given back. *)
EndJob(w) ==
  /\ pc[w] \in {"awaiting", "computing"}
  /\ pc[w] = "awaiting" => Scheduled
  /\ status' = [status EXCEPT ![hand[w]] = "settled"]
  /\ hand' = [hand EXCEPT ![w] = NoJob]
  /\ Goto(w, "test")
  /\ UNCHANGED <<startupVars, listening, inflight, event, unseen, loops, shutdown>>

(* Fault variant: the event is cleared as the wait begins. *)
BeginWaitCleared(w) ==
  /\ Scheduled
  /\ pc[w] = "empty"
  /\ Goto(w, "waiting")
  /\ event' = [event EXCEPT ![w] = FALSE]
  /\ UNCHANGED <<startupVars, status, hand, listening, inflight, unseen, loops, shutdown>>

(* _try_claim returned None: wait_for(notify_event.wait(), POLL_INTERVAL) *)
BeginWait(w) ==
  /\ Scheduled
  /\ pc[w] = "empty"
  /\ Goto(w, "waiting")
  /\ UNCHANGED <<startupVars, status, hand, listening, inflight, event, unseen,
                 loops, shutdown>>

(* Fault variant: no POLL_INTERVAL. *)
EndWaitNotified(w) ==
  /\ Scheduled
  /\ pc[w] = "waiting"
  /\ event[w]
  /\ Goto(w, "test")
  /\ event' = [event EXCEPT ![w] = FALSE]
  /\ UNCHANGED <<startupVars, status, hand, listening, inflight, unseen, loops, shutdown>>

(* The event, or the timeout; cleared in the finally clause either way. *)
EndWait(w) ==
  /\ Scheduled
  /\ pc[w] = "waiting"
  /\ Goto(w, "test")
  /\ event' = [event EXCEPT ![w] = FALSE]
  /\ UNCHANGED <<startupVars, status, hand, listening, inflight, unseen, loops, shutdown>>

-------------------------------------------------------------------------------
(* heartbeat_loop, one for each worker id, and stale_reaper_loop have the  *)
(* same control: an iteration that succeeds, or meets a PostgresError,     *)
(* goes on to the sleep and the next one, and changes nothing here.        *)

LoopEnds ==
  /\ Scheduled
  /\ loops > 0
  /\ loops' = loops - 1
  /\ UNCHANGED <<startupVars, status, workerVars, shutdown>>

(* shutdown_event ends the sleep at once (_interruptible_sleep) or is seen *)
(* at the head of the loop.                                                *)
LeaveSleep == shutdown = "set" /\ LoopEnds

(* Any other error, of the network or a timeout, is not caught. *)
LoopError == "loop_error" \in Faults /\ LoopEnds

-------------------------------------------------------------------------------
(* _main.                                                                  *)

Sigterm ==
  /\ Serving
  /\ shutdown = "no"
  /\ shutdown' = "sent"
  /\ UNCHANGED <<startupVars, status, workerVars, loops>>

(* _handle_signal is a callback of the event loop. *)
HandleSignal ==
  /\ Scheduled
  /\ shutdown = "sent"
  /\ shutdown' = "set"
  /\ UNCHANGED <<startupVars, status, workerVars, loops>>

(* Fault variant: gather without return_exceptions. *)
GatheredOrRaised ==
  \/ loops = 0 /\ \A w \in Coroutines : pc[w] \in Gone
  \/ \E w \in Coroutines : pc[w] = "failed"

(* gather(..., return_exceptions=True): every task is over, somehow. *)
Gathered == loops = 0 /\ \A w \in Coroutines : pc[w] \in Gone

Exit ==
  /\ Scheduled
  /\ Gathered
  /\ Close("worker")
  /\ UNCHANGED <<status, workerVars, loops, shutdown>>

-------------------------------------------------------------------------------
RunWorker(w) ==
  \/ Connect(w) \/ Listen(w) \/ SendClaim(w) \/ LeaveLoop(w) \/ RunClaim(w)
  \/ StartJob(w) \/ StartError(w) \/ ClaimError(w) \/ EndJob(w) \/ BeginWait(w) \/ EndWait(w)

Next ==
  \/ \E p \in Processes : Startup(p)
  \/ StartupSecond \/ StopApi \/ InsertTaken
  \/ Sigterm \/ HandleSignal \/ LeaveSleep \/ LoopError \/ Exit
  \/ \E j \in Jobs : Insert(j) \/ BecomeDue(j)
  \/ \E w \in Coroutines : RunWorker(w) \/ Notified(w) \/ LoseListener(w)

Spec == Init /\ [][Next]_vars

(* The event loop runs what is ready, and handlers end.  Clients, signals  *)
(* and faults owe nothing.                                                 *)
Fairness ==
  /\ \A p \in Processes : WF_vars(Startup(p))
  /\ WF_vars(StartupSecond) /\ WF_vars(HandleSignal)
  /\ WF_vars(LeaveSleep) /\ WF_vars(Exit)
  /\ \A j \in Jobs : WF_vars(BecomeDue(j))
  /\ \A w \in Coroutines : WF_vars(RunWorker(w)) /\ WF_vars(Notified(w))

FairSpec == Spec /\ Fairness

-------------------------------------------------------------------------------
(* No NOTIFY is lost between the empty claim, the wait and the clear of    *)
(* the event (run_worker, worker.py:330-343): a worker that waits without  *)
(* having seen some job is about to be woken, as long as it listens.       *)
NoLostWakeup ==
  \A w \in Coroutines :
    /\ pc[w] \in {"empty", "waiting"}
    /\ listening[w]
    /\ unseen[w] # {}
    => event[w] \/ inflight[w]

(* _main returns, which cancels whatever is left on the event loop, only   *)
(* when no job is in the hands of a coroutine, even if others failed.      *)
NothingCutShort ==
  pool["worker"] = "closed" =>
    \A j \in Jobs : status[j] \notin {"locked", "taken"}

(* A due job is taken although its NOTIFY was lost, came before its time   *)
(* or came while another claim, rolled back later, had its row: a worker   *)
(* that is left polls (worker.py:339).                                     *)
DueJobTaken ==
  \A j \in Jobs :
    status[j] = "due" ~>
      \/ status[j] \in {"taken", "settled", "stranded"}
      \/ shutdown # "no"
      \/ \A w \in Coroutines : pc[w] \in Gone
      \/ pool["worker"] = "failed"

(* SIGTERM ends the process (worker.py:373-395), idle or busy, whichever   *)
(* of its tasks failed before.                                             *)
SigtermEndsProcess == shutdown = "sent" ~> pool["worker"] = "closed"
===============================================================================
