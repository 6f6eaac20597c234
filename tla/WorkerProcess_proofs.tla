-------------------------- MODULE WorkerProcess_proofs --------------------------
(***************************************************************************)
(* Proofs about WorkerProcess for every number of coroutines and jobs, all *)
(* start-up times and every combination of faults: no NOTIFY is lost, the  *)
(* process does not end under a job, and no process gives up too early on  *)
(* a server that is not ready.                                             *)
(***************************************************************************)
EXTENDS WorkerProcess, Numbers_proofs, TLAPS

(* What the arguments about NOTIFY and jobs need of the types. *)
Typed ==
  /\ pc \in [Coroutines -> Steps]
  /\ hand \in [Coroutines -> Jobs \cup {NoJob}]
  /\ listening \in [Coroutines -> BOOLEAN]
  /\ inflight \in [Coroutines -> BOOLEAN]
  /\ event \in [Coroutines -> BOOLEAN]
  /\ unseen \in [Coroutines -> SUBSET Jobs]
  /\ status \in [Jobs -> {"absent", "later", "due", "locked", "taken", "settled", "stranded"}]
  /\ pool \in [Processes -> {"connecting", "sleeping", "open", "closed", "failed"}]
  /\ DOMAIN sleep = Processes

(* A job that is locked or taken is in the hands of some coroutine. *)
Busy == {"commit", "awaiting", "computing"}
HeldByOne ==
  \A j \in Jobs : status[j] \in {"locked", "taken"} =>
    \E w \in Coroutines : pc[w] \in Busy /\ hand[w] = j

(* Only a sleeping process can wake up to connect once more. *)
OnlySleepersSleep == \A p \in Processes : pool[p] # "sleeping" => sleep[p] = 0

(* A closed pool belongs to a process whose coroutines are gone. *)
ClosedWhenGone == pool["worker"] = "closed" => \A w \in Coroutines : pc[w] \in Gone

IInv == Typed /\ NoLostWakeup /\ HeldByOne /\ OnlySleepersSleep /\ ClosedWhenGone

(* The invariant holds when the process starts. *)
LEMMA InitInv == Init => IInv
BY ProcessAssumption DEF Init, StartupInit, IInv, Typed, NoLostWakeup, HeldByOne,
   OnlySleepersSleep, ClosedWhenGone, Steps, Gone, Busy

(* Every step keeps it, action by action. *)
LEMMA StepInv == IInv /\ [Next]_vars => IInv'
<1> SUFFICES ASSUME IInv, [Next]_vars
             PROVE  IInv'
  OBVIOUS
<1> USE ProcessAssumption DEF IInv, Typed, NoLostWakeup, HeldByOne, OnlySleepersSleep,
                              ClosedWhenGone, Steps, Gone, Busy, Goto, startupVars, workerVars
<1>1. ASSUME NEW p \in Processes, Startup(p)
      PROVE  IInv'
  BY <1>1 DEF Startup, Connecting, Open, Refused, Rejected
<1>2. CASE StartupSecond
  BY <1>2 DEF StartupSecond, Second
<1>3. CASE StopApi
  BY <1>3 DEF StopApi, Close
<1>4. CASE InsertTaken
  BY <1>4 DEF InsertTaken
<1>5. CASE Sigterm
  BY <1>5 DEF Sigterm
<1>6. CASE HandleSignal
  BY <1>6 DEF HandleSignal
<1>7. CASE LeaveSleep \/ LoopError
  BY <1>7 DEF LeaveSleep, LoopError, LoopEnds
<1>8. CASE Exit
  BY <1>8 DEF Exit, Gathered, Close
<1>9. ASSUME NEW j \in Jobs, Insert(j)
      PROVE  IInv'
  BY <1>9 DEF Insert
<1>10. ASSUME NEW j \in Jobs, BecomeDue(j)
      PROVE  IInv'
  BY <1>10 DEF BecomeDue
<1>11. ASSUME NEW w \in Coroutines, Connect(w)
      PROVE  IInv'
  BY <1>11 DEF Connect
<1>12. ASSUME NEW w \in Coroutines, Listen(w)
      PROVE  IInv'
  <2>1. CASE Goto(w, "test") /\ listening' = [listening EXCEPT ![w] = TRUE]
    BY <1>12, <2>1 DEF Listen
  <2>2. CASE Goto(w, "failed") /\ UNCHANGED listening
    <3>1. HeldByOne'
      BY <1>12, <2>2 DEF Listen
    <3>2. Typed' /\ NoLostWakeup' /\ OnlySleepersSleep'
      BY <1>12, <2>2 DEF Listen
    <3>3. ClosedWhenGone'
      BY <1>12, <2>2 DEF Listen
    <3> QED
      BY <3>1, <3>2, <3>3
  <2> QED
    BY <1>12, <2>1, <2>2 DEF Listen
<1>13. ASSUME NEW w \in Coroutines, SendClaim(w)
      PROVE  IInv'
  BY <1>13 DEF SendClaim
<1>14. ASSUME NEW w \in Coroutines, LeaveLoop(w)
      PROVE  IInv'
  BY <1>14 DEF LeaveLoop, Disconnect, StopListening, Scheduled, Serving
<1>15. ASSUME NEW w \in Coroutines, RunClaim(w)
      PROVE  IInv'
  BY <1>15 DEF RunClaim
<1>16. ASSUME NEW w \in Coroutines, StartJob(w)
      PROVE  IInv'
  <2> PICK step \in {"awaiting", "computing"} : pc' = [pc EXCEPT ![w] = step]
    BY <1>16 DEF StartJob
  <2>1. Typed'
    <3>1. pc' \in [Coroutines -> Steps] /\ status' \in [Jobs -> {"absent", "later", "due", "locked",
                                                                 "taken", "settled", "stranded"}]
      BY <1>16 DEF StartJob
    <3> QED
      BY <1>16, <3>1 DEF StartJob
  <2>2. NoLostWakeup' /\ OnlySleepersSleep'
    BY <1>16 DEF StartJob
  <2>3. ClosedWhenGone'
    BY <1>16 DEF StartJob
  <2>4. HeldByOne'
    <3> SUFFICES ASSUME NEW j \in Jobs, status'[j] \in {"locked", "taken"}
                 PROVE  \E v \in Coroutines : pc'[v] \in Busy /\ hand'[v] = j
      OBVIOUS
    <3>1. hand[w] \in Jobs \cup {NoJob} /\ pc[w] \in Busy
      BY <1>16 DEF StartJob
    <3>2. CASE hand[w] = j
      BY <1>16, <3>1, <3>2 DEF StartJob
    <3>3. CASE hand[w] # j
      <4>1. status[j] \in {"locked", "taken"}
        BY <1>16, <3>1, <3>3 DEF StartJob
      <4>2. PICK v \in Coroutines : pc[v] \in Busy /\ hand[v] = j
        BY <4>1
      <4>3. v # w /\ pc'[v] = pc[v] /\ hand'[v] = hand[v]
        BY <1>16, <3>3, <4>2 DEF StartJob
      <4> QED
        BY <4>2, <4>3
    <3> QED
      BY <3>2, <3>3
  <2> QED
    BY <2>1, <2>2, <2>3, <2>4
<1>17. ASSUME NEW w \in Coroutines, ClaimError(w)
      PROVE  IInv'
  <2>1. Typed'
    BY <1>17 DEF ClaimError, Disconnect, StopListening, Scheduled, Serving
  <2>2. NoLostWakeup' /\ OnlySleepersSleep'
    BY <1>17 DEF ClaimError, Disconnect, StopListening, Scheduled, Serving
  <2>3. ClosedWhenGone'
    BY <1>17 DEF ClaimError, Disconnect, StopListening, Scheduled, Serving
  <2>4. HeldByOne'
    <3> SUFFICES ASSUME NEW j \in Jobs, status'[j] \in {"locked", "taken"}
                 PROVE  \E v \in Coroutines : pc'[v] \in Busy /\ hand'[v] = j
      OBVIOUS
    <3>1. j # hand[w] /\ status[j] \in {"locked", "taken"}
      BY <1>17 DEF ClaimError
    <3>2. PICK v \in Coroutines : pc[v] \in Busy /\ hand[v] = j
      BY <3>1
    <3>3. v # w /\ pc'[v] = pc[v] /\ hand'[v] = hand[v]
      BY <1>17, <3>1, <3>2 DEF ClaimError, Disconnect, StopListening
    <3> QED
      BY <3>2, <3>3
  <2> QED
    BY <2>1, <2>2, <2>3, <2>4
<1>18. ASSUME NEW w \in Coroutines, EndJob(w)
      PROVE  IInv'
  <2>1. Typed'
    BY <1>18 DEF EndJob
  <2>2. NoLostWakeup' /\ OnlySleepersSleep'
    BY <1>18 DEF EndJob
  <2>3. ClosedWhenGone'
    BY <1>18 DEF EndJob
  <2>4. HeldByOne'
    <3> SUFFICES ASSUME NEW j \in Jobs, status'[j] \in {"locked", "taken"}
                 PROVE  \E v \in Coroutines : pc'[v] \in Busy /\ hand'[v] = j
      OBVIOUS
    <3>1. hand[w] \in Jobs \cup {NoJob} /\ pc[w] \in Busy
      BY <1>18 DEF EndJob
    <3>2. CASE hand[w] = j
      BY <1>18, <3>1, <3>2 DEF EndJob
    <3>3. CASE hand[w] # j
      <4>1. status[j] \in {"locked", "taken"}
        BY <1>18, <3>1, <3>3 DEF EndJob
      <4>2. PICK v \in Coroutines : pc[v] \in Busy /\ hand[v] = j
        BY <4>1
      <4>3. v # w /\ pc'[v] = pc[v] /\ hand'[v] = hand[v]
        BY <1>18, <3>3, <4>2 DEF EndJob
      <4> QED
        BY <4>2, <4>3
    <3> QED
      BY <3>2, <3>3
  <2> QED
    BY <2>1, <2>2, <2>3, <2>4
<1>19. ASSUME NEW w \in Coroutines, BeginWait(w)
      PROVE  IInv'
  BY <1>19 DEF BeginWait
<1>20. ASSUME NEW w \in Coroutines, EndWait(w)
      PROVE  IInv'
  BY <1>20 DEF EndWait
<1>21. ASSUME NEW w \in Coroutines, Notified(w)
      PROVE  IInv'
  BY <1>21 DEF Notified
<1>22. ASSUME NEW w \in Coroutines, LoseListener(w)
      PROVE  IInv'
  BY <1>22 DEF LoseListener, StopListening
<1>24. ASSUME NEW w \in Coroutines, StartError(w)
      PROVE  IInv'
  <2>1. Typed'
    BY <1>24 DEF StartError, Disconnect, StopListening, Scheduled, Serving
  <2>2. NoLostWakeup' /\ OnlySleepersSleep'
    BY <1>24 DEF StartError, Disconnect, StopListening, Scheduled, Serving
  <2>3. ClosedWhenGone'
    BY <1>24 DEF StartError, Disconnect, StopListening, Scheduled, Serving
  <2>4. HeldByOne'
    <3> SUFFICES ASSUME NEW j \in Jobs, status'[j] \in {"locked", "taken"}
                 PROVE  \E v \in Coroutines : pc'[v] \in Busy /\ hand'[v] = j
      OBVIOUS
    <3>1. hand[w] \in Jobs \cup {NoJob} /\ pc[w] \in Busy
      BY <1>24 DEF StartError
    <3>2. CASE hand[w] = j
      BY <1>24, <3>1, <3>2 DEF StartError, Disconnect, StopListening, Scheduled, Serving
    <3>3. CASE hand[w] # j
      <4>1. status[j] \in {"locked", "taken"}
        BY <1>24, <3>1, <3>3 DEF StartError, Disconnect, StopListening, Scheduled, Serving
      <4>2. PICK v \in Coroutines : pc[v] \in Busy /\ hand[v] = j
        BY <4>1
      <4>3. v # w /\ pc'[v] = pc[v] /\ hand'[v] = hand[v]
        BY <1>24, <3>3, <4>2 DEF StartError, Disconnect, StopListening, Scheduled, Serving
      <4> QED
        BY <4>2, <4>3
    <3> QED
      BY <3>2, <3>3
  <2> QED
    BY <2>1, <2>2, <2>3, <2>4
<1>23. CASE UNCHANGED vars
  BY <1>23 DEF vars
<1> QED
  BY <1>1, <1>2, <1>3, <1>4, <1>5, <1>6, <1>7, <1>8, <1>9, <1>10, <1>11, <1>12, <1>13, <1>14,
     <1>15, <1>16, <1>17, <1>18, <1>19, <1>20, <1>21, <1>22, <1>23, <1>24 DEF Next, RunWorker

(* A closed pool has no coroutine left that could hold a job. *)
LEMMA EndOfJobs == IInv => NothingCutShort
BY DEF IInv, Typed, HeldByOne, ClosedWhenGone, NothingCutShort, Busy, Gone

(* run_worker (worker.py:329-343) clears notify_event after the wait, not  *)
(* before it, and asks the tables before it waits again: no NOTIFY that    *)
(* came in between is lost.                                                *)
THEOREM WakeupKept == Spec => []NoLostWakeup
<1>1. IInv => NoLostWakeup
  BY DEF IInv
<1> QED
  BY <1>1, InitInv, StepInv, PTL DEF Spec

(* gather with return_exceptions (worker.py:394) keeps the event loop      *)
(* until the last coroutine is over: no job is locked or executed by a     *)
(* process whose pool is closed, whatever failed in it before.             *)
THEOREM EndsAfterJobs == Spec => []NothingCutShort
  BY InitInv, StepInv, EndOfJobs, PTL DEF Spec

-------------------------------------------------------------------------------
(* Types, for which the sleep of create_pool has to be a number.           *)

LEMMA InitTypes == Init => TypeOK
<1>1. Cardinality(Coroutines) \in Nat
  BY ProcessAssumption, FS_CardinalityType
<1> QED
  BY <1>1, StartupAssumption DEF Init, StartupInit, TypeOK, StartupTypeOK, Steps

(* The start-up steps keep the types of their variables. *)
LEMMA StartupTypes ==
  ASSUME StartupTypeOK,
         \/ \E p \in Processes : Connecting(p) \/ Close(p)
         \/ Second
  PROVE  StartupTypeOK'
<1>1. ASSUME NEW p \in Processes, Open(p) \/ Rejected(p) \/ Close(p)
      PROVE  StartupTypeOK'
  BY <1>1, StartupAssumption DEF Open, Rejected, Close, StartupTypeOK
<1>2. ASSUME NEW p \in Processes, Refused(p)
      PROVE  StartupTypeOK'
  <2>1. CASE LastTry(p)
    BY <1>2, <2>1 DEF Refused, StartupTypeOK
  <2>2. CASE ~LastTry(p)
    <3>1. PICK nap \in Nat : nap = 2 ^ tries[p]
      BY PowerType DEF StartupTypeOK
    <3>2. /\ sleep' = [sleep EXCEPT ![p] = nap]
          /\ tries' = [tries EXCEPT ![p] = @ + 1]
          /\ pool' = [pool EXCEPT ![p] = "sleeping"]
          /\ UNCHANGED <<waited, eta>>
      BY <1>2, <2>2, <3>1 DEF Refused
    <3>3. tries[p] + 1 \in 0 .. MaxTries - 1
      BY <2>2, StartupAssumption DEF LastTry, StartupTypeOK
    <3> QED
      BY <3>2, <3>3 DEF StartupTypeOK
  <2> QED
    BY <2>1, <2>2
<1>3. CASE Second
  BY <1>3 DEF Second, StartupTypeOK
<1> QED
  BY <1>1, <1>2, <1>3 DEF Connecting

LEMMA StepTypes == TypeOK /\ [Next]_vars => TypeOK'
<1> SUFFICES ASSUME TypeOK, [Next]_vars
             PROVE  TypeOK'
  OBVIOUS
<1> DEFINE Statuses == {"absent", "later", "due", "locked", "taken", "settled", "stranded"}
           Rest == /\ status \in [Jobs -> Statuses]
                   /\ pc \in [Coroutines -> Steps]
                   /\ hand \in [Coroutines -> Jobs \cup {NoJob}]
                   /\ listening \in [Coroutines -> BOOLEAN]
                   /\ inflight \in [Coroutines -> BOOLEAN]
                   /\ event \in [Coroutines -> BOOLEAN]
                   /\ unseen \in [Coroutines -> SUBSET Jobs]
                   /\ loops \in 0 .. Cardinality(Coroutines) + 1
                   /\ shutdown \in {"no", "sent", "set"}
<1>0. Cardinality(Coroutines) \in Nat
  BY ProcessAssumption, FS_CardinalityType
<1>1. TypeOK <=> StartupTypeOK /\ Rest
  BY DEF TypeOK
<1>2. TypeOK' <=> StartupTypeOK' /\ Rest'
  BY DEF TypeOK
<1>3. StartupTypeOK /\ Rest
  BY <1>1
<1>4. ASSUME UNCHANGED startupVars
      PROVE  StartupTypeOK'
  BY <1>3, <1>4 DEF startupVars, StartupTypeOK
<1>5. ASSUME \/ \E p \in Processes : Connecting(p) \/ Close(p)
             \/ Second,
             UNCHANGED <<status, workerVars, loops, shutdown>>
      PROVE  TypeOK'
  <2>1. StartupTypeOK'
    BY <1>3, <1>5, StartupTypes
  <2>2. Rest'
    BY <1>3, <1>5 DEF workerVars
  <2> QED
    BY <1>2, <2>1, <2>2
<1>6. ASSUME UNCHANGED startupVars, Rest'
      PROVE  TypeOK'
  BY <1>2, <1>4, <1>6
<1>7. ASSUME NEW p \in Processes, Startup(p)
      PROVE  TypeOK'
  BY <1>5, <1>7 DEF Startup
<1>8. CASE StartupSecond
  BY <1>5, <1>8 DEF StartupSecond
<1>9. CASE StopApi \/ Exit
  BY <1>5, <1>9, ProcessAssumption DEF StopApi, Exit
<1>10. CASE InsertTaken
  BY <1>3, <1>6, <1>10 DEF InsertTaken
<1>11. CASE Sigterm \/ HandleSignal
  BY <1>3, <1>6, <1>11 DEF Sigterm, HandleSignal, workerVars
<1>12. CASE LeaveSleep \/ LoopError
  BY <1>0, <1>3, <1>6, <1>12 DEF LeaveSleep, LoopError, LoopEnds, workerVars
<1>13. ASSUME NEW j \in Jobs, Insert(j)
       PROVE  TypeOK'
  BY <1>3, <1>6, <1>13 DEF Insert
<1>14. ASSUME NEW j \in Jobs, BecomeDue(j)
       PROVE  TypeOK'
  BY <1>3, <1>6, <1>14 DEF BecomeDue, workerVars
<1>15. ASSUME NEW w \in Coroutines, RunWorker(w) \/ Notified(w) \/ LoseListener(w)
       PROVE  TypeOK'
  <2>1. UNCHANGED startupVars
    BY <1>15 DEF RunWorker, Connect, Listen, SendClaim, LeaveLoop, RunClaim, StartJob,
       StartError, ClaimError, EndJob, BeginWait, EndWait, Notified, LoseListener
  <2> USE <1>3 DEF Goto
  <2>2. ASSUME Connect(w) \/ Listen(w) \/ SendClaim(w) PROVE Rest'
    BY <2>2 DEF Connect, Listen, SendClaim, Steps
  <2>3. ASSUME LeaveLoop(w) PROVE Rest'
    BY <2>3 DEF LeaveLoop, Disconnect, StopListening, Steps
  <2>4. ASSUME RunClaim(w) PROVE Rest'
    BY <2>4 DEF RunClaim, Steps
  <2>5. ASSUME StartJob(w) PROVE Rest'
    BY <2>5 DEF StartJob, Steps
  <2>6. ASSUME StartError(w) PROVE Rest'
    BY <2>6 DEF StartError, Disconnect, StopListening, Steps
  <2>7. ASSUME ClaimError(w) PROVE Rest'
    BY <2>7 DEF ClaimError, Disconnect, StopListening, Steps
  <2>8. ASSUME EndJob(w) PROVE Rest'
    BY <2>8 DEF EndJob, Steps
  <2>9. ASSUME BeginWait(w) \/ EndWait(w) PROVE Rest'
    BY <2>9 DEF BeginWait, EndWait, Steps
  <2>10. ASSUME Notified(w) \/ LoseListener(w) PROVE Rest'
    BY <2>10 DEF Notified, LoseListener, StopListening
  <2>11. Rest'
    BY <1>15, <2>2, <2>3, <2>4, <2>5, <2>6, <2>7, <2>8, <2>9, <2>10 DEF RunWorker
  <2> HIDE DEF Rest
  <2> QED
    BY <1>6, <2>1, <2>11
<1>16. CASE UNCHANGED vars
  BY <1>3, <1>6, <1>16 DEF vars, workerVars
<1> QED
  BY <1>7, <1>8, <1>9, <1>10, <1>11, <1>12, <1>13, <1>14, <1>15, <1>16 DEF Next

(* Every variable keeps its type, the sleeps of create_pool and the number *)
(* of attempts included.                                                   *)
THEOREM ProcessTyped == Spec => []TypeOK
  BY InitTypes, StepTypes, PTL DEF Spec

-------------------------------------------------------------------------------
(* Patience.  The attempts of a process are made at 0, 1, 3, 7, ... s: what *)
(* it has waited and still has to sleep tells which attempt comes next.     *)

Power == [n \in Nat |-> 2^n]

Unready(p) == pool[p] \in {"connecting", "sleeping", "failed"}

OnTime(p) ==
  /\ pool[p] \in {"connecting", "sleeping"} => waited[p] + sleep[p] + 1 = Power[tries[p]]
  /\ pool[p] # "sleeping" => sleep[p] = 0
  /\ pool[p] = "sleeping" => tries[p] >= 1 /\ sleep[p] \in 1 .. Power[tries[p] - 1]

(* Who has just fallen asleep was refused, and not rejected. *)
RefusedFirst(p) ==
  pool[p] = "sleeping" /\ sleep[p] = Power[tries[p] - 1] => eta > Recovery

(* A failed process made its last attempt, or met a server starting up; as *)
(* the clock does not move any more, that is still so.                     *)
GaveUp(p) ==
  pool[p] = "failed" =>
    /\ eta # 0
    /\ eta > Recovery => waited[p] + 1 = Power[MaxTries - 1]
    /\ \A q \in Processes : pool[q] # "sleeping"

StartInv ==
  /\ StartupTypeOK
  /\ \A p \in Processes : OnTime(p) /\ RefusedFirst(p) /\ GaveUp(p)
  /\ \A p, q \in Processes : Unready(p) /\ Unready(q) => waited[p] = waited[q]

LEMMA PowerFacts ==
  /\ \A n \in Nat : Power[n] \in Nat /\ Power[n] >= 1
  /\ \A n \in Nat : Power[n + 1] = 2 * Power[n]
  /\ \A m, n \in Nat : m <= n => Power[m] <= Power[n]
  /\ Power[0] = 1
<1>1. \A n \in Nat : 2^n \in Nat
  BY PowerType
<1>2. \A n \in Nat : Power[n] = 2^n
  BY DEF Power
<1>3. \A n \in Nat : Power[n] \in Nat
  BY <1>1, <1>2
<1>4. \A n \in Nat : Power[n] >= 1
  BY <1>2, PowerPositive
<1>5. ASSUME NEW n \in Nat PROVE Power[n + 1] = 2 * Power[n]
  <2>1. n + 1 \in Nat
    OBVIOUS
  <2> QED
    BY <1>2, <2>1, Doubling, Zenon
<1>6. ASSUME NEW m \in Nat, NEW n \in Nat, m <= n PROVE Power[m] <= Power[n]
  BY <1>2, <1>6, PowerMonotone, Zenon
<1>7. Power[0] = 1
  <2>1. 2^0 = 1
    BY SMT
  <2> QED
    BY <1>2, <2>1
<1> QED
  BY <1>3, <1>4, <1>5, <1>6, <1>7

LEMMA StartInit == StartupInit => StartInv
BY PowerFacts, StartupAssumption DEF StartupInit, StartInv, StartupTypeOK, OnTime, RefusedFirst,
   GaveUp, Unready

(* A step of one process that leaves the clock alone. *)
LEMMA ConnectingPatient ==
  ASSUME StartInv, NEW p \in Processes, Connecting(p) \/ Close(p)
  PROVE  StartInv'
<1> USE StartupAssumption
<1>0. /\ StartupTypeOK /\ StartupTypeOK' /\ eta \in Nat /\ eta' = eta
      /\ \A q \in Processes : tries[q] \in Nat /\ tries[q] <= MaxTries - 1
      /\ \A q \in Processes : sleep[q] \in Nat /\ waited[q] \in Nat
      /\ \A q \in Processes \ {p} : /\ pool'[q] = pool[q] /\ tries'[q] = tries[q]
                                     /\ sleep'[q] = sleep[q] /\ waited'[q] = waited[q]
  <2>1. StartupTypeOK'
    BY StartupTypes DEF StartInv
  <2> QED
    BY <2>1 DEF StartInv, StartupTypeOK, Connecting, Open, Refused, Rejected, Close
<1>1. /\ \A q \in Processes : OnTime(q) /\ RefusedFirst(q) /\ GaveUp(q)
      /\ \A q, r \in Processes : Unready(q) /\ Unready(r) => waited[q] = waited[r]
  BY DEF StartInv
<1>2. \A q \in Processes \ {p} : OnTime(q)' /\ RefusedFirst(q)'
  BY <1>0, <1>1 DEF OnTime, RefusedFirst
<1>3. ASSUME OnTime(p)', RefusedFirst(p)',
             Unready(p)' => Unready(p) /\ waited'[p] = waited[p],
             \A q \in Processes : GaveUp(q)'
      PROVE  StartInv'
  <2>1. \A q \in Processes : OnTime(q)' /\ RefusedFirst(q)' /\ GaveUp(q)'
    BY <1>2, <1>3
  <2>2. \A q \in Processes : Unready(q)' => Unready(q) /\ waited'[q] = waited[q]
    BY <1>0, <1>3 DEF Unready
  <2> QED
    BY <1>0, <1>1, <2>1, <2>2 DEF StartInv
<1>4. CASE Open(p) \/ Close(p)
  <2>1. /\ pool'[p] \in {"open", "closed"} /\ sleep'[p] = sleep[p]
        /\ pool[p] \in {"connecting", "open"}
    BY <1>0, <1>4 DEF Open, Close, StartupTypeOK
  <2>2. OnTime(p)' /\ RefusedFirst(p)' /\ ~Unready(p)'
    BY <1>1, <2>1 DEF OnTime, RefusedFirst, Unready
  <2>3. \A q \in Processes : GaveUp(q)'
    BY <1>0, <1>1, <2>1 DEF GaveUp
  <2> QED
    BY <1>3, <2>2, <2>3
<1>5. CASE Rejected(p)
  <2>1. /\ pool[p] = "connecting" /\ pool'[p] = "failed" /\ eta \in 1 .. Recovery
        /\ sleep'[p] = sleep[p] /\ tries'[p] = tries[p] /\ waited'[p] = waited[p]
    BY <1>0, <1>5 DEF Rejected, StartupTypeOK
  <2>2. OnTime(p)' /\ RefusedFirst(p)' /\ Unready(p)
    BY <1>1, <2>1 DEF OnTime, RefusedFirst, Unready
  <2>3. ASSUME NEW q \in Processes, pool[q] = "sleeping"
        PROVE  FALSE
    <3>1. /\ waited[p] = waited[q] /\ waited[p] + 1 = Power[tries[p]]
          /\ waited[q] + sleep[q] + 1 = Power[tries[q]]
          /\ tries[q] >= 1 /\ sleep[q] \in 1 .. Power[tries[q] - 1]
      BY <1>0, <1>1, <2>1, <2>3 DEF OnTime, Unready
    <3>2. ~(tries[q] <= tries[p])
      <4>1. tries[q] <= tries[p] => Power[tries[q]] <= Power[tries[p]]
        BY <1>0, PowerFacts
      <4>2. Power[tries[q]] \in Nat /\ Power[tries[p]] \in Nat
        BY <1>0, PowerFacts
      <4> QED
        BY <1>0, <3>1, <4>1, <4>2
    <3>3. tries[q] - 1 \in Nat /\ tries[p] <= tries[q] - 1 /\ tries[q] = (tries[q] - 1) + 1
      BY <1>0, <3>1, <3>2
    <3>4. /\ Power[tries[p]] <= Power[tries[q] - 1]
          /\ Power[tries[q]] = 2 * Power[tries[q] - 1]
          /\ Power[tries[q] - 1] \in Nat
      BY <1>0, <3>3, PowerFacts
    <3>5. sleep[q] = Power[tries[q] - 1]
      BY <1>0, <3>1, <3>4
    <3>6. eta > Recovery
      BY <1>1, <2>3, <3>5 DEF RefusedFirst
    <3> QED
      BY <2>1, <3>6
  <2>4. \A q \in Processes : pool'[q] # "sleeping"
    BY <1>0, <2>1, <2>3
  <2>5. eta' # 0 /\ ~(eta' > Recovery)
    BY <1>0, <2>1
  <2>6. \A q \in Processes : GaveUp(q)'
    BY <2>4, <2>5 DEF GaveUp
  <2> QED
    BY <1>3, <2>1, <2>2, <2>6
<1>6. ASSUME Refused(p), LastTry(p)
      PROVE  StartInv'
  <2>1. /\ pool[p] = "connecting" /\ pool'[p] = "failed" /\ eta > Recovery
        /\ sleep'[p] = sleep[p] /\ tries'[p] = tries[p] /\ waited'[p] = waited[p]
        /\ tries[p] = MaxTries - 1
    BY <1>0, <1>6 DEF Refused, LastTry, StartupTypeOK
  <2>2. OnTime(p)' /\ RefusedFirst(p)' /\ Unready(p)
    BY <1>1, <2>1 DEF OnTime, RefusedFirst, Unready
  <2>3. waited[p] + 1 = Power[MaxTries - 1] /\ sleep[p] = 0
    BY <1>0, <1>1, <2>1 DEF OnTime
  <2>4. ASSUME NEW q \in Processes, pool[q] = "sleeping"
        PROVE  FALSE
    <3>1. /\ waited[p] = waited[q]
          /\ waited[q] + sleep[q] + 1 = Power[tries[q]] /\ sleep[q] >= 1
      BY <1>0, <1>1, <2>1, <2>4 DEF OnTime, Unready
    <3>2. Power[tries[q]] <= Power[MaxTries - 1]
      BY <1>0, PowerFacts
    <3>3. Power[tries[q]] \in Nat /\ Power[MaxTries - 1] \in Nat
      <4>1. tries[q] \in Nat /\ MaxTries - 1 \in Nat
        BY <1>0
      <4> QED
        BY <4>1, PowerFacts
    <3> QED
      BY <1>0, <2>3, <3>1, <3>2, <3>3
  <2>5. ASSUME NEW q \in Processes
        PROVE  GaveUp(q)'
    <3>1. \A r \in Processes : pool'[r] # "sleeping"
      BY <1>0, <2>1, <2>4
    <3>2. eta' # 0
      BY <1>0, <2>1
    <3>3. q # p => GaveUp(q) /\ pool'[q] = pool[q] /\ waited'[q] = waited[q]
      BY <1>0, <1>1
    <3>4. pool'[q] = "failed" => waited'[q] + 1 = Power[MaxTries - 1]
      BY <2>1, <2>3, <3>3 DEF GaveUp
    <3> QED
      BY <3>1, <3>2, <3>4 DEF GaveUp
  <2> QED
    BY <1>3, <2>1, <2>2, <2>5
<1>7. ASSUME Refused(p), ~LastTry(p)
      PROVE  StartInv'
  <2>1. /\ pool[p] = "connecting" /\ pool'[p] = "sleeping" /\ eta > Recovery
        /\ sleep'[p] = 2^tries[p] /\ tries'[p] = tries[p] + 1 /\ waited'[p] = waited[p]
        /\ tries[p] # MaxTries - 1
    BY <1>0, <1>7 DEF Refused, LastTry, StartupTypeOK
  <2>2. /\ sleep'[p] = Power[tries[p]] /\ Power[tries[p]] \in Nat /\ Power[tries[p]] >= 1
        /\ Power[tries'[p]] = 2 * Power[tries[p]] /\ tries'[p] - 1 = tries[p]
        /\ tries'[p] >= 1
    <3>1. sleep'[p] = Power[tries[p]]
      BY <1>0, <2>1 DEF Power
    <3>2. Power[tries[p] + 1] = 2 * Power[tries[p]] /\ Power[tries[p]] \in Nat /\ Power[tries[p]] >= 1
      BY <1>0, PowerFacts
    <3> QED
      BY <1>0, <2>1, <3>1, <3>2
  <2>3. waited[p] + 1 = Power[tries[p]]
    BY <1>0, <1>1, <2>1 DEF OnTime
  <2>4. OnTime(p)' /\ RefusedFirst(p)' /\ Unready(p)
    BY <1>0, <2>1, <2>2, <2>3 DEF OnTime, RefusedFirst, Unready
  <2>5. ASSUME NEW q \in Processes, pool[q] = "failed"
        PROVE  FALSE
    <3>1. waited[q] = waited[p] /\ waited[q] + 1 = Power[MaxTries - 1]
      BY <1>1, <2>1, <2>5 DEF GaveUp, Unready
    <3>2. tries'[p] \in Nat /\ MaxTries - 1 \in Nat /\ tries'[p] <= MaxTries - 1
      BY <1>0, <2>1
    <3>3. Power[tries'[p]] <= Power[MaxTries - 1]
      BY <3>2, PowerFacts
    <3> QED
      BY <1>0, <2>2, <2>3, <3>1, <3>3
  <2>6. \A q \in Processes : GaveUp(q)'
    BY <1>0, <2>1, <2>5 DEF GaveUp
  <2> QED
    BY <1>3, <2>1, <2>4, <2>6
<1> QED
  BY <1>4, <1>5, <1>6, <1>7 DEF Connecting

(* A second passes for those that sleep, which then are all that are not   *)
(* ready.                                                                  *)
LEMMA SecondPatient == StartInv /\ Second => StartInv'
<1> SUFFICES ASSUME StartInv, Second
             PROVE  StartInv'
  OBVIOUS
<1>1. StartupTypeOK /\ StartupTypeOK'
  BY StartupTypes DEF StartInv
<1>2. \A p \in Processes : pool[p] \notin {"connecting", "failed"}
  BY DEF Second, StartInv, GaveUp
<1>3. ASSUME NEW p \in Processes
      PROVE  /\ Unready(p)' => pool[p] = "sleeping" /\ waited'[p] = waited[p] + 1
             /\ pool'[p] # "failed" /\ OnTime(p)' /\ RefusedFirst(p)'
  <2>1. /\ OnTime(p) /\ tries'[p] = tries[p]
        /\ pool'[p] = IF sleep[p] = 1 THEN "connecting" ELSE pool[p]
        /\ sleep'[p] = IF sleep[p] = 0 THEN 0 ELSE sleep[p] - 1
        /\ waited'[p] = waited[p] + IF pool[p] = "sleeping" THEN 1 ELSE 0
        /\ tries[p] \in Nat /\ sleep[p] \in Nat /\ waited[p] \in Nat
    BY <1>1, StartupAssumption DEF Second, StartInv, StartupTypeOK
  <2>2. CASE pool[p] # "sleeping"
    <3>1. pool'[p] = pool[p] /\ sleep'[p] = 0
      BY <2>1, <2>2 DEF OnTime
    <3> QED
      BY <1>2, <2>2, <3>1 DEF OnTime, RefusedFirst, Unready
  <2>3. CASE pool[p] = "sleeping"
    <3>1. /\ waited[p] + sleep[p] + 1 = Power[tries[p]] /\ tries[p] >= 1
          /\ sleep[p] >= 1 /\ sleep[p] <= Power[tries[p] - 1]
          /\ Power[tries[p] - 1] \in Nat
      <4>1. /\ waited[p] + sleep[p] + 1 = Power[tries[p]] /\ tries[p] >= 1
            /\ sleep[p] \in 1 .. Power[tries[p] - 1]
        BY <2>1, <2>3 DEF OnTime
      <4>2. tries[p] - 1 \in Nat
        BY <2>1, <4>1
      <4>3. Power[tries[p] - 1] \in Nat
        BY <4>2, PowerFacts
      <4> QED
        BY <4>1, <4>3
    <3>2. sleep'[p] = sleep[p] - 1 /\ waited'[p] = waited[p] + 1
      BY <2>1, <2>3, <3>1
    <3>3. waited'[p] + sleep'[p] + 1 = Power[tries'[p]] /\ sleep'[p] < Power[tries'[p] - 1]
      BY <2>1, <3>1, <3>2
    <3>4. CASE sleep[p] = 1
      BY <2>1, <2>3, <3>2, <3>3, <3>4 DEF OnTime, RefusedFirst, Unready
    <3>5. CASE sleep[p] # 1
      <4>1. pool'[p] = "sleeping" /\ sleep'[p] \in 1 .. Power[tries'[p] - 1]
        BY <2>1, <2>3, <3>1, <3>2, <3>5
      <4>2. sleep'[p] # Power[tries'[p] - 1]
        BY <2>1, <3>1, <3>2
      <4> QED
        BY <2>1, <2>3, <3>1, <3>2, <3>3, <4>1, <4>2 DEF OnTime, RefusedFirst, Unready
    <3> QED
      BY <3>4, <3>5
  <2> QED
    BY <2>2, <2>3
<1>4. \A p \in Processes : GaveUp(p)'
  BY <1>3 DEF GaveUp
<1>5. \A p, q \in Processes : Unready(p)' /\ Unready(q)' => waited'[p] = waited'[q]
  BY <1>3 DEF StartInv, Unready
<1> QED
  BY <1>1, <1>3, <1>4, <1>5 DEF StartInv

LEMMA StartStep == StartInv /\ [Next]_vars => StartInv'
<1> SUFFICES ASSUME StartInv, [Next]_vars
             PROVE  StartInv'
  OBVIOUS
<1>1. ASSUME UNCHANGED startupVars
      PROVE  StartInv'
  BY <1>1 DEF startupVars, StartInv, StartupTypeOK, OnTime, RefusedFirst, GaveUp, Unready
<1>2. ASSUME NEW p \in Processes, Startup(p)
      PROVE  StartInv'
  BY <1>2, ConnectingPatient DEF Startup
<1>3. CASE StartupSecond
  BY <1>3, SecondPatient DEF StartupSecond
<1>4. CASE StopApi \/ Exit
  BY <1>4, ConnectingPatient, ProcessAssumption DEF StopApi, Exit
<1>5. ASSUME NEW j \in Jobs, Insert(j) \/ BecomeDue(j)
      PROVE  UNCHANGED startupVars
  BY <1>5 DEF Insert, BecomeDue
<1>6. ASSUME NEW w \in Coroutines, RunWorker(w) \/ Notified(w) \/ LoseListener(w)
      PROVE  UNCHANGED startupVars
  BY <1>6 DEF RunWorker, Connect, Listen, SendClaim, LeaveLoop, RunClaim, StartJob,
     StartError, ClaimError, EndJob, BeginWait, EndWait, Notified, LoseListener
<1>7. CASE InsertTaken \/ Sigterm \/ HandleSignal \/ LeaveSleep \/ LoopError \/ UNCHANGED vars
  BY <1>1, <1>7 DEF InsertTaken, Sigterm, HandleSignal, LeaveSleep, LoopError, LoopEnds, vars
<1> QED
  BY <1>1, <1>2, <1>3, <1>4, <1>5, <1>6, <1>7 DEF Next

(* create_pool (pool.py:92-113) makes six attempts; with that many or more *)
(* no process, of any number started together, gives up on a server that   *)
(* would have been ready within 30 s, if it did not meet it starting up.   *)
THEOREM StartsPatiently ==
  ASSUME MaxTries >= 6
  PROVE  Spec => []PatientStart
<1>1. StartInv => PatientStart
  <2>1. Power[5] = 32
    <3>1. /\ Power[0 + 1] = 2 * Power[0] /\ Power[1 + 1] = 2 * Power[1]
          /\ Power[2 + 1] = 2 * Power[2] /\ Power[3 + 1] = 2 * Power[3]
          /\ Power[4 + 1] = 2 * Power[4] /\ Power[0] = 1
      BY PowerFacts
    <3> QED
      BY <3>1
  <2>2. Power[MaxTries - 1] >= 32 /\ Power[MaxTries - 1] \in Nat
    <3>1. MaxTries - 1 \in Nat /\ 5 <= MaxTries - 1
      BY StartupAssumption
    <3>2. Power[5] <= Power[MaxTries - 1] /\ Power[MaxTries - 1] \in Nat
      BY <3>1, PowerFacts
    <3> QED
      BY <2>1, <3>2
  <2> SUFFICES ASSUME StartInv, NEW p \in Processes, pool[p] = "failed"
               PROVE  waited[p] + eta > 30 \/ eta \in 1 .. Recovery
    BY DEF PatientStart
  <2>3. /\ eta \in Nat /\ waited[p] \in Nat /\ eta # 0
        /\ eta > Recovery => waited[p] + 1 = Power[MaxTries - 1]
    BY DEF StartInv, StartupTypeOK, GaveUp
  <2> QED
    BY <2>2, <2>3, StartupAssumption
<1>2. Init => StartInv
  BY StartInit DEF Init
<1> QED
  BY <1>1, <1>2, StartStep, PTL DEF Spec

===============================================================================
