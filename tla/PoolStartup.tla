------------------------------ MODULE PoolStartup ------------------------------
(***************************************************************************)
(* create_pool and close_pool of db/pool.py, as every process of the       *)
(* system runs them: the worker process in _main, the API in its lifespan. *)
(* Time is in seconds; all processes are started together, before or after *)
(* the PostgreSQL server is ready.                                         *)
(***************************************************************************)
EXTENDS Naturals

CONSTANTS Processes,
          MaxTries,   \* attempts of create_pool
          Etas,       \* seconds after which the server accepts connections
          Recovery    \* before that, seconds it answers "starting up"

ASSUME StartupAssumption ==
  /\ MaxTries \in Nat \ {0}
  /\ Etas \subseteq Nat
  /\ Recovery \in Nat

VARIABLES
  pool,     \* what becomes of the pool of each process
  tries,    \* attempt, the loop variable of create_pool
  sleep,    \* seconds left of asyncio.sleep
  waited,   \* seconds since create_pool was called
  eta       \* seconds until the server accepts connections

startupVars == <<pool, tries, sleep, waited, eta>>

StartupTypeOK ==
  /\ pool \in [Processes -> {"connecting", "sleeping", "open", "closed", "failed"}]
  /\ tries \in [Processes -> 0 .. MaxTries - 1]
  /\ sleep \in [Processes -> Nat]
  /\ waited \in [Processes -> Nat]
  /\ eta \in Nat

StartupInit ==
  /\ pool = [p \in Processes |-> "connecting"]
  /\ tries = [p \in Processes |-> 0]
  /\ sleep = [p \in Processes |-> 0]
  /\ waited = [p \in Processes |-> 0]
  /\ eta \in Etas

(* Fault variant: the last attempt but one gives up. *)
OneTryLess(p) == tries[p] >= MaxTries - 2

(* Fault variant: the last attempt sleeps, too. *)
OneTryMore(p) == tries[p] = MaxTries

(* if attempt == 5: raise *)
LastTry(p) == tries[p] = MaxTries - 1

(* asyncpg.create_pool succeeds; from here on nobody looks at the clock. *)
Open(p) ==
  /\ pool[p] = "connecting"
  /\ eta = 0
  /\ pool' = [pool EXCEPT ![p] = "open"]
  /\ tries' = [tries EXCEPT ![p] = 0]
  /\ waited' = [waited EXCEPT ![p] = 0]
  /\ UNCHANGED <<sleep, eta>>

(* OSError or PostgresConnectionError: the server is not there yet. *)
Refused(p) ==
  /\ pool[p] = "connecting"
  /\ eta > Recovery
  /\ \/ /\ LastTry(p)
        /\ pool' = [pool EXCEPT ![p] = "failed"]
        /\ UNCHANGED <<tries, sleep>>
     \/ /\ ~LastTry(p)
        /\ pool' = [pool EXCEPT ![p] = "sleeping"]
        /\ sleep' = [sleep EXCEPT ![p] = 2 ^ tries[p]]
        /\ tries' = [tries EXCEPT ![p] = @ + 1]
  /\ UNCHANGED <<waited, eta>>

(* CannotConnectNowError ("the database system is starting up") is neither *)
(* of them: it leaves the loop.                                            *)
Rejected(p) ==
  /\ pool[p] = "connecting"
  /\ eta \in 1 .. Recovery
  /\ pool' = [pool EXCEPT ![p] = "failed"]
  /\ UNCHANGED <<tries, sleep, waited, eta>>

(* A second passes; an attempt itself takes no time. *)
Second ==
  /\ \A p \in Processes : pool[p] # "connecting"
  /\ \E p \in Processes : pool[p] = "sleeping"
  /\ eta' = IF eta = 0 THEN 0 ELSE eta - 1
  /\ waited' = [p \in Processes |-> waited[p] + IF pool[p] = "sleeping" THEN 1 ELSE 0]
  /\ sleep' = [p \in Processes |-> IF sleep[p] = 0 THEN 0 ELSE sleep[p] - 1]
  /\ pool' = [p \in Processes |-> IF sleep[p] = 1 THEN "connecting" ELSE pool[p]]
  /\ UNCHANGED tries

Close(p) ==
  /\ pool[p] = "open"
  /\ pool' = [pool EXCEPT ![p] = "closed"]
  /\ UNCHANGED <<tries, sleep, waited, eta>>

Connecting(p) == Open(p) \/ Refused(p) \/ Rejected(p)

(* pool.py:80, "Retries with exponential back-off for up to 30 s": no      *)
(* process gives up on a server that would have accepted it within 30 s,   *)
(* unless it met the server starting up, an error that is not retried.     *)
PatientStart ==
  \A p \in Processes :
    pool[p] = "failed" => waited[p] + eta > 30 \/ eta \in 1 .. Recovery
===============================================================================
