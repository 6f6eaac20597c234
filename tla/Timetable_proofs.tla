--------------------------- MODULE Timetable_proofs ---------------------------
(***************************************************************************)
(* Theorems about Timetable, for every set of processes, coroutines and    *)
(* jobs, every mix of requests, and any length of the handlers that keep   *)
(* the event loop.                                                         *)
(***************************************************************************)
EXTENDS Timetable, Numbers_proofs

-------------------------------------------------------------------------------
(* How long the event loop of a process may be kept.                       *)

Crew(p) == {w \in Workers : Home[w] = p}

LEMMA CrewFinite == \A p : IsFiniteSet(Crew(p)) /\ Cardinality(Crew(p)) \in Nat
                           /\ Cardinality(Crew(p)) <= Cardinality(Workers)
  <1> SUFFICES ASSUME NEW p
               PROVE  /\ IsFiniteSet(Crew(p)) /\ Cardinality(Crew(p)) \in Nat
                      /\ Cardinality(Crew(p)) <= Cardinality(Workers)
    OBVIOUS
  <1>1. Crew(p) \subseteq Workers /\ IsFiniteSet(Workers)
    BY TimetableAssumption DEF Crew
  <1> QED
    BY <1>1, FS_Subset, FS_CardinalityType

LEMMA Times ==
  ASSUME NEW m \in Nat, NEW a \in Nat, NEW b \in Nat
  PROVE  /\ m * a \in Nat
         /\ a <= b => m * a <= m * b
         /\ m * (a + 1) = m * a + m
  <1>1. m * a \in Nat /\ m * (a + 1) = m * a + m
    BY SMT
  <1>2. ASSUME a <= b
        PROVE  m * a <= m * b
    <2>1. PICK c \in Nat : b = a + c
      <3>1. b - a \in Nat /\ b = a + (b - a)
        BY <1>2
      <3> QED
        BY <3>1
    <2>2. m * b = m * a + m * c /\ m * c \in Nat
      BY <2>1, SMT
    <2> QED
      BY <1>1, <2>2
  <1> QED
    BY <1>1, <1>2

(* LongestBlock is what its comment says. *)
LEMMA LongestBlockFacts ==
  /\ LongestBlock \in Nat
  /\ \A p \in Processes : MaxBlock * Cardinality(Crew(p)) <= LongestBlock
  <1> DEFINE T == {Cardinality({w \in Workers : Home[w] = p}) : p \in Processes}
  <1>1. \A p : {w \in Workers : Home[w] = p} = Crew(p)
    BY DEF Crew
  <1>2. Cardinality(Workers) \in Nat
    BY TimetableAssumption, FS_CardinalityType
  <1>3. T \in SUBSET Nat /\ T # {} /\ \A m \in T : m <= Cardinality(Workers)
    <2>1. T = {Cardinality(Crew(p)) : p \in Processes}
      BY <1>1
    <2>2. PICK p \in Processes : TRUE
      BY TimetableAssumption
    <2>3. Cardinality(Crew(p)) \in T
      BY <2>1
    <2>4. ASSUME NEW m \in T
          PROVE  m \in Nat /\ m <= Cardinality(Workers)
      BY <2>1, <2>4, CrewFinite
    <2> QED
      BY <2>3, <2>4
  <1>4. \E n \in T : \A m \in T : n >= m
    <2> HIDE DEF T
    <2> QED
      BY <1>2, <1>3, GreatestNatural
  <1>5. Max(T) \in T /\ \A m \in T : Max(T) >= m
    <2> HIDE DEF T
    <2> QED
      BY <1>4 DEF Max
  <1>6. \A p \in Processes : Cardinality(Crew(p)) \in T
    BY <1>1
  <1>7. LongestBlock = MaxBlock * Max(T)
    BY DEF LongestBlock
  <1> HIDE DEF T
  <1>8. Max(T) \in Nat /\ MaxBlock \in Nat
    BY <1>3, <1>5, TimetableAssumption
  <1>9. ASSUME NEW p \in Processes
        PROVE  MaxBlock * Cardinality(Crew(p)) <= LongestBlock
    <2>1. Cardinality(Crew(p)) <= Max(T) /\ Cardinality(Crew(p)) \in Nat
      BY <1>3, <1>5, <1>6, CrewFinite
    <2> QED
      BY <1>7, <1>8, <2>1, Times
  <1> QED
    BY <1>7, <1>8, <1>9, Times

LEMMA HorizonFacts ==
  /\ Horizon \in Nat
  /\ LastOrphan < Horizon
  /\ LastOrphan = STALE_THRESHOLD + REAPER_INTERVAL + LongestBlock
  /\ \A r \in Requests : 2 ^ r.max_retries <= Horizon
  <1> DEFINE T == {LastOrphan + 1} \cup {2 ^ r.max_retries : r \in Requests}
             top == 2^10
  <1>1. LastOrphan \in Nat /\ LastOrphan = STALE_THRESHOLD + REAPER_INTERVAL + LongestBlock
    BY LongestBlockFacts DEF LastOrphan, STALE_THRESHOLD, REAPER_INTERVAL
  <1>2. top \in Nat
    BY PowerType
  <1>3. \A r \in Requests : 2 ^ r.max_retries \in Nat /\ 2 ^ r.max_retries <= top
    <2>1. \A r \in Requests : r.max_retries \in 0 .. 10
      BY TimetableAssumption DEF JobCreate
    <2>2. \A a \in 0 .. 10 : a \in Nat /\ a <= 10
      OBVIOUS
    <2> QED
      BY <2>1, <2>2, PowerType, PowerMonotone, 10 \in Nat, Zenon
  <1> HIDE DEF top
  <1>4. T \in SUBSET Nat /\ LastOrphan + 1 \in T /\ \A m \in T : m <= top + LastOrphan + 1
    BY <1>1, <1>2, <1>3
  <1>5. \A r \in Requests : 2 ^ r.max_retries \in T
    OBVIOUS
  <1>6. Horizon = Max(T)
    BY Zenon DEF Horizon
  <1> HIDE DEF T
  <1>7. top + LastOrphan + 1 \in Nat
    BY <1>1, <1>2
  <1>8. \E n \in T : \A m \in T : n >= m
    BY <1>4, <1>7, GreatestNatural
  <1>9. Horizon \in T /\ \A m \in T : Horizon >= m
    BY <1>6, <1>8 DEF Max
  <1>10. Horizon \in Nat /\ Horizon >= LastOrphan + 1
    BY <1>4, <1>9
  <1>11. \A r \in Requests : Horizon >= 2 ^ r.max_retries
    BY <1>5, <1>9, Zenon
  <1>12. \A r \in Requests : 2 ^ r.max_retries <= Horizon
    <2> SUFFICES ASSUME NEW r \in Requests
                 PROVE  2 ^ r.max_retries <= Horizon
      OBVIOUS
    <2> DEFINE x == 2 ^ r.max_retries
    <2>1. x \in Nat /\ Horizon >= x
      BY <1>3, <1>11, Zenon
    <2> HIDE DEF x
    <2>2. x <= Horizon
      BY <1>10, <2>1
    <2> QED
      BY <2>2 DEF x
  <1> QED
    BY <1>1, <1>10, <1>12

(* A tick on a capped clock. *)
LEMMA UpFacts ==
  ASSUME NEW k \in Int
  PROVE  /\ Up(k) \in Int /\ k <= Up(k) /\ Up(k) <= k + 1
         /\ k < Horizon => Up(k) = k + 1
         /\ k <= Horizon => Up(k) <= Horizon
  BY HorizonFacts DEF Up

-------------------------------------------------------------------------------
(* Types, and who has which job.                                           *)

JobTypes == {"noop", "always_fail", "flaky", "slow", "compute", "unknown"}
Rows == [type : JobTypes, priority : 1 .. 10, max_retries : 0 .. 10, sleep : Nat,
         status : {"absent", "pending", "running", "done", "dead"},
         attempt : Nat, overdue : Int, beat : Int, owner : Workers \cup {Nobody}]

Typed ==
  /\ row \in [Jobs -> Rows]
  /\ pc \in [Workers -> {"idle", "starting", "awaiting", "computing", "dead"}]
  /\ hand \in [Workers -> Jobs \cup {Nobody}]
  /\ timer \in [Workers -> Nat]
  /\ nextBeat \in [Processes -> -1 .. HEARTBEAT_INTERVAL]
  /\ nextReap \in [Processes -> -1 .. REAPER_INTERVAL]
  /\ since \in [Jobs -> Nat]
  /\ spent \in [Jobs -> Nat]

Executing == {"starting", "awaiting", "computing"}

(* A worker has a job in hand while it executes, and no job is in two      *)
(* hands; a running row names the worker that has it, or one that died; a  *)
(* row that the reaper took from a worker is pending and due.              *)
Hands ==
  /\ \A w \in Workers : hand[w] \in Jobs <=> pc[w] \in Executing
  /\ \A v, w \in Workers : hand[v] \in Jobs /\ hand[v] = hand[w] => v = w
  /\ \A j \in Jobs :
       row[j].status = "running" =>
         /\ row[j].owner \in Workers
         /\ hand[row[j].owner] = j \/ pc[row[j].owner] = "dead"
         /\ row[j].overdue >= 0 /\ row[j].beat >= 0
  /\ \A w \in Workers :
       hand[w] \in Jobs =>
         \/ row[hand[w]].status = "running" /\ row[hand[w]].owner = w
         \/ row[hand[w]].status = "pending" /\ row[hand[w]].overdue >= 0

(* A process lives and dies as a whole, and one coroutine at a time keeps  *)
(* its event loop.                                                         *)
Loops ==
  /\ \A w \in Workers : pc[w] = "dead" => Home[w] \in Mortal
  /\ \A v, w \in Workers : Home[v] = Home[w] /\ pc[v] = "dead" => pc[w] = "dead"
  /\ \A v, w \in Workers :
       Home[v] = Home[w] /\ pc[v] = "computing" /\ pc[w] = "computing" => v = w
  /\ \A w \in Workers : pc[w] = "computing" => timer[w] <= MaxBlock
  /\ \A w \in Workers : pc[w] = "idle" => timer[w] <= POLL_INTERVAL

Basic == Typed /\ Hands /\ Loops

(* The row operators. *)
LEMMA AbsentFacts == Absent \in Rows /\ Absent.status = "absent" /\ Absent.overdue = 0
                     /\ Absent.beat = NULL /\ NULL \in Int /\ Absent.attempt = 0
  BY DEF Absent, Rows, NULL, JobTypes

LEMMA BackoffFacts == \A a \in Nat : Backoff(a) = 2^a /\ Backoff(a) \in Nat
  <1> SUFFICES ASSUME NEW a \in Nat
               PROVE  Backoff(a) = 2^a /\ Backoff(a) \in Nat
    OBVIOUS
  <1> DEFINE p == 2^a
  <1>1. p \in Nat
    BY PowerType
  <1>2. Backoff(a) = p * 1
    BY Zenon DEF Backoff, BASE_DELAY
  <1> HIDE DEF p
  <1>3. Backoff(a) = p
    BY <1>1, <1>2
  <1> QED
    BY <1>1, <1>3 DEF p

LEMMA OutcomeFacts ==
  ASSUME NEW r \in Rows
  PROVE  /\ Outcome(r) \in Rows
         /\ Outcome(r).attempt = r.attempt + 1
         /\ Outcome(r).max_retries = r.max_retries
         /\ Outcome(r).beat \in {r.beat, NULL}
         /\ \/ Outcome(r).status \in {"done", "dead"} /\ Outcome(r).overdue = 0
            \/ /\ Outcome(r).status = "pending"
               /\ Outcome(r).overdue = -Backoff(r.attempt)
               /\ r.attempt + 1 < r.max_retries
  <1> DEFINE counted == [r EXCEPT !.attempt = @ + 1]
             b == -Backoff(r.attempt)
  <1>1. r.attempt \in Nat /\ r.attempt + 1 \in Nat /\ b \in Int /\ r.max_retries \in Nat
    BY BackoffFacts DEF Rows
  <1>2. counted \in Rows /\ counted.attempt = r.attempt + 1
        /\ counted.max_retries = r.max_retries /\ counted.beat = r.beat
    BY <1>1 DEF Rows
  <1> HIDE DEF counted
  <1>3. CASE Fails(r) /\ ~Exhausted(r)
    <2>1. Outcome(r) = [counted EXCEPT !.status = "pending", !.owner = Nobody, !.overdue = b]
      BY <1>3 DEF Outcome, counted
    <2>2. r.attempt + 1 < r.max_retries
      BY <1>1, <1>3 DEF Exhausted
    <2> HIDE DEF b
    <2> QED
      BY <1>1, <1>2, <2>1, <2>2 DEF Rows, b
  <1>4. CASE ~(Fails(r) /\ ~Exhausted(r))
    <2>1. PICK st \in {"done", "dead"} :
            Outcome(r) = [counted EXCEPT !.status = st, !.overdue = 0, !.beat = NULL]
      BY <1>4 DEF Outcome, counted
    <2> QED
      BY <1>2, <2>1, AbsentFacts DEF Rows
  <1> QED
    BY <1>3, <1>4

LEMMA InitBasic == Init => Basic
  <1> SUFFICES ASSUME Init
               PROVE  Basic
    OBVIOUS
  <1>1. Typed
    BY AbsentFacts DEF Init, Typed, HEARTBEAT_INTERVAL, REAPER_INTERVAL
  <1>2. Hands
    BY TimetableAssumption, AbsentFacts DEF Init, Hands, Executing
  <1>3. Loops
    BY DEF Init, Loops, POLL_INTERVAL
  <1> QED
    BY <1>1, <1>2, <1>3 DEF Basic

-------------------------------------------------------------------------------
(* What each action does to one row and one worker.                        *)

LEMMA CreateFacts ==
  ASSUME Basic, NEW j \in Jobs, Create(j)
  PROVE  /\ row[j].status = "absent" /\ row'[j] \in Rows /\ row' = [row EXCEPT ![j] = row'[j]]
         /\ row'[j].status = "pending" /\ row'[j].attempt = 0
         /\ \E r \in Requests : row'[j].max_retries = r.max_retries /\ row'[j].overdue = -r.delay
         /\ row'[j].beat = NULL
         /\ timer' \in [Workers -> Nat]
         /\ \A w \in Workers : timer'[w] = timer[w] \/ (pc[w] = "idle" /\ timer'[w] = 0)
         /\ UNCHANGED <<pc, hand, nextBeat, nextReap, since, spent>>
  <1>1. PICK r \in Requests :
          row' = [row EXCEPT ![j] =
                [Absent EXCEPT !.type = r.type, !.priority = r.priority, !.sleep = r.sleep,
                               !.max_retries = r.max_retries, !.status = "pending",
                               !.overdue = -r.delay]]
    BY DEF Create
  <1>2. r \in JobCreate
    BY TimetableAssumption
  <1> DEFINE n == [Absent EXCEPT !.type = r.type, !.priority = r.priority, !.sleep = r.sleep,
                                !.max_retries = r.max_retries, !.status = "pending",
                                !.overdue = -r.delay]
  <1>3. -r.delay \in Int
    BY <1>2 DEF JobCreate
  <1>4. n \in Rows
    BY <1>2, <1>3, AbsentFacts DEF JobCreate, Rows, JobTypes
  <1>5. /\ n.status = "pending" /\ n.attempt = 0 /\ n.max_retries = r.max_retries
        /\ n.overdue = -r.delay /\ n.beat = NULL
    BY AbsentFacts DEF Absent
  <1>6. row' = [row EXCEPT ![j] = n]
    BY <1>1
  <1> HIDE DEF n
  <1>7. row'[j] = n
    BY <1>6 DEF Basic, Typed
  <1>8. /\ timer' \in [Workers -> Nat]
        /\ \A w \in Workers : timer'[w] = timer[w] \/ (pc[w] = "idle" /\ timer'[w] = 0)
    <2>1. PICK S \in SUBSET {w \in Workers : pc[w] = "idle" /\ timer[w] > 0} :
            timer' = [w \in Workers |-> IF w \in S THEN 0 ELSE timer[w]]
      BY DEF Create
    <2> QED
      BY <2>1 DEF Basic, Typed
  <1>9. row[j].status = "absent" /\ UNCHANGED <<pc, hand, nextBeat, nextReap, since, spent>>
    BY DEF Create
  <1> QED
    BY <1>4, <1>5, <1>6, <1>7, <1>8, <1>9

LEMMA ClaimFacts ==
  ASSUME Basic, NEW w \in Workers, Claim(w)
  PROVE  \E j \in Jobs :
           /\ Claimable(j)
           /\ row'[j] \in Rows /\ row' = [row EXCEPT ![j] = row'[j]]
           /\ row'[j].status = "running" /\ row'[j].beat = 0 /\ row'[j].owner = w
           /\ row'[j].overdue = row[j].overdue /\ row'[j].attempt = row[j].attempt
           /\ row'[j].max_retries = row[j].max_retries
           /\ hand' = [hand EXCEPT ![w] = j]
           /\ pc[w] = "idle" /\ pc'[w] \in {"starting", "awaiting"}
           /\ pc' = [pc EXCEPT ![w] = pc'[w]]
           /\ timer' \in [Workers -> Nat]
           /\ \A v \in Workers \ {w} : timer'[v] = timer[v]
           /\ since' = [since EXCEPT ![j] = 0]
           /\ UNCHANGED <<nextBeat, nextReap, spent>>
  <1>1. PICK j \in Jobs :
       /\ Claimable(j)
       /\ row' = [row EXCEPT ![j].status = "running", ![j].beat = 0, ![j].owner = w]
       /\ hand' = [hand EXCEPT ![w] = j]
       /\ pc' = [pc EXCEPT ![w] = IF row[j].type = "compute" THEN "starting" ELSE "awaiting"]
       /\ timer' = [timer EXCEPT ![w] = IF row[j].type = "slow" THEN row[j].sleep ELSE 0]
       /\ since' = [since EXCEPT ![j] = 0]
    BY DEF Claim
  <1>2. PICK r \in Rows : r = row[j]
    BY DEF Basic, Typed
  <1>0. PICK z \in Int : z = 0
    OBVIOUS
  <1> DEFINE n == [r EXCEPT !.status = "running", !.beat = z, !.owner = w]
  <1>3. n \in Rows
    BY DEF Rows
  <1>4. row' = [row EXCEPT ![j] = n]
    BY <1>1, <1>2, <1>0 DEF Basic, Typed
  <1>5. /\ n.status = "running" /\ n.beat = 0 /\ n.owner = w
        /\ n.overdue = row[j].overdue /\ n.attempt = row[j].attempt
        /\ n.max_retries = row[j].max_retries
    BY <1>2, <1>0 DEF Rows
  <1> HIDE DEF n
  <1>6. row'[j] = n
    BY <1>4 DEF Basic, Typed
  <1>7. timer' \in [Workers -> Nat] /\ row[j].sleep \in Nat
    BY <1>1, <1>2 DEF Basic, Typed, Rows
  <1>8. pc[w] = "idle" /\ UNCHANGED <<nextBeat, nextReap, spent>>
    BY DEF Claim, Claiming
  <1>9. /\ \A v \in Workers \ {w} : timer'[v] = timer[v]
        /\ pc'[w] \in {"starting", "awaiting"} /\ pc' = [pc EXCEPT ![w] = pc'[w]]
    BY <1>1 DEF Basic, Typed
  <1> WITNESS j \in Jobs
  <1> QED
    BY <1>1, <1>3, <1>4, <1>5, <1>6, <1>7, <1>8, <1>9

LEMMA FinishFacts ==
  ASSUME Basic, NEW w \in Workers, Finish(w)
  PROVE  \E j \in Jobs :
           /\ hand[w] = j /\ pc[w] \in {"computing", "awaiting"}
           /\ row' = [row EXCEPT ![j] = Outcome(row[j])]
           /\ row'[j] = Outcome(row[j])
           /\ hand' = [hand EXCEPT ![w] = Nobody] /\ pc' = [pc EXCEPT ![w] = "idle"]
           /\ since' = [since EXCEPT ![j] = 0]
           /\ timer[w] = 0
           /\ UNCHANGED <<timer, nextBeat, nextReap, spent>>
  <1>1. PICK j \in Jobs : j = hand[w]
    BY DEF Finish, Basic, Hands, Executing
  <1> WITNESS j \in Jobs
  <1> QED
    BY <1>1 DEF Finish, Basic, Typed

LEMMA HeartbeatFacts ==
  ASSUME Basic, NEW p \in Processes, Heartbeat(p)
  PROVE  /\ \A j \in Jobs :
              /\ row'[j] \in Rows
              /\ row'[j].status = row[j].status /\ row'[j].owner = row[j].owner
              /\ row'[j].overdue = row[j].overdue /\ row'[j].attempt = row[j].attempt
              /\ row'[j].max_retries = row[j].max_retries
              /\ row'[j].beat = IF Beats(p, row[j]) THEN 0 ELSE row[j].beat
         /\ row' \in [Jobs -> Rows]
         /\ nextBeat' = [nextBeat EXCEPT ![p] = HEARTBEAT_INTERVAL]
         /\ UNCHANGED <<pc, hand, timer, nextReap, since, spent>>
  <1>1. ASSUME NEW j \in Jobs
        PROVE  /\ row[j] \in Rows
               /\ [row[j] EXCEPT !.beat = 0] \in Rows
               /\ row'[j] = IF Beats(p, row[j]) THEN [row[j] EXCEPT !.beat = 0] ELSE row[j]
    <2>1. row[j] \in Rows
      BY DEF Basic, Typed
    <2>2. [row[j] EXCEPT !.beat = 0] \in Rows
      BY <2>1 DEF Rows
    <2> QED
      BY <2>1, <2>2 DEF Heartbeat
  <1>2. row' \in [Jobs -> Rows]
    BY <1>1 DEF Heartbeat
  <1> QED
    BY <1>1, <1>2 DEF Heartbeat, Rows

LEMMA ReapFacts ==
  ASSUME Basic, NEW p \in Processes, Reap(p)
  PROVE  /\ \A j \in Jobs :
              /\ row'[j] \in Rows
              /\ row'[j].overdue = row[j].overdue /\ row'[j].attempt = row[j].attempt
              /\ row'[j].max_retries = row[j].max_retries
              /\ Stale(row[j]) => /\ row[j].status = "running" /\ row'[j].status = "pending"
                                  /\ row'[j].owner = Nobody /\ row'[j].beat = NULL
                                  /\ since'[j] = 0
              /\ ~Stale(row[j]) => row'[j] = row[j] /\ since'[j] = since[j]
         /\ row' \in [Jobs -> Rows] /\ since' \in [Jobs -> Nat]
         /\ nextReap' = [nextReap EXCEPT ![p] = REAPER_INTERVAL]
         /\ UNCHANGED <<pc, hand, timer, nextBeat, spent>>
  <1> DEFINE freed(r) == [r EXCEPT !.status = "pending", !.beat = NULL, !.owner = Nobody]
  <1>1. ASSUME NEW j \in Jobs
        PROVE  /\ row[j] \in Rows
               /\ freed(row[j]) \in Rows
               /\ row'[j] = IF Stale(row[j]) THEN freed(row[j]) ELSE row[j]
               /\ since[j] \in Nat
               /\ since'[j] = IF Stale(row[j]) THEN 0 ELSE since[j]
    <2>1. row[j] \in Rows /\ since[j] \in Nat
      BY DEF Basic, Typed
    <2>2. freed(row[j]) \in Rows
      BY <2>1, AbsentFacts DEF Rows
    <2> QED
      BY <2>1, <2>2 DEF Reap
  <1>2. row' \in [Jobs -> Rows] /\ since' \in [Jobs -> Nat]
    BY <1>1 DEF Reap
  <1>3. ASSUME NEW j \in Jobs
        PROVE  /\ freed(row[j]).status = "pending" /\ freed(row[j]).owner = Nobody
               /\ freed(row[j]).beat = NULL
               /\ freed(row[j]).overdue = row[j].overdue
               /\ freed(row[j]).attempt = row[j].attempt
               /\ freed(row[j]).max_retries = row[j].max_retries
    <2>1. row[j] \in Rows
      BY <1>1
    <2> QED
      BY <2>1 DEF Rows
  <1> HIDE DEF freed
  <1>4. \A j \in Jobs : Stale(row[j]) => row[j].status = "running"
    BY DEF Stale
  <1>5. nextReap' = [nextReap EXCEPT ![p] = REAPER_INTERVAL]
        /\ UNCHANGED <<pc, hand, timer, nextBeat, spent>>
    BY DEF Reap
  <1> QED
    BY <1>1, <1>2, <1>3, <1>4, <1>5

LEMMA TickFacts ==
  ASSUME Basic, Tick
  PROVE  /\ \A j \in Jobs :
              /\ row'[j] \in Rows
              /\ row'[j].status = row[j].status /\ row'[j].owner = row[j].owner
              /\ row'[j].attempt = row[j].attempt /\ row'[j].max_retries = row[j].max_retries
              /\ row'[j].overdue = IF Settled(j) THEN row[j].overdue ELSE Up(row[j].overdue)
              /\ row'[j].beat = IF Settled(j) \/ row[j].beat = NULL THEN row[j].beat
                                ELSE Up(row[j].beat)
         /\ row' \in [Jobs -> Rows]
         /\ timer' = [w \in Workers |-> Later(timer[w], 0)] /\ timer' \in [Workers -> Nat]
         /\ since' \in [Jobs -> Nat] /\ spent' \in [Jobs -> Nat]
         /\ UNCHANGED <<pc, hand>>
  <1>1. ASSUME NEW j \in Jobs
        PROVE  /\ row'[j] \in Rows
               /\ row'[j].status = row[j].status /\ row'[j].owner = row[j].owner
               /\ row'[j].attempt = row[j].attempt /\ row'[j].max_retries = row[j].max_retries
               /\ row'[j].overdue = IF Settled(j) THEN row[j].overdue ELSE Up(row[j].overdue)
               /\ row'[j].beat = IF Settled(j) \/ row[j].beat = NULL THEN row[j].beat
                                 ELSE Up(row[j].beat)
    <2>1. row[j] \in Rows /\ row[j].overdue \in Int /\ row[j].beat \in Int /\ NULL \in Int
      BY AbsentFacts DEF Basic, Typed, Rows
    <2>2. PICK u \in Int : u = Up(row[j].overdue)
      BY <2>1, UpFacts
    <2>3. PICK b \in Int : b = IF row[j].beat = NULL THEN NULL ELSE Up(row[j].beat)
      BY <2>1, UpFacts
    <2>4. row'[j] = IF Settled(j) THEN row[j] ELSE [row[j] EXCEPT !.overdue = u, !.beat = b]
      BY <2>2, <2>3 DEF Tick
    <2> QED
      BY <2>1, <2>2, <2>3, <2>4 DEF Rows
  <1>2. since' \in [Jobs -> Nat] /\ spent' \in [Jobs -> Nat]
    <2>1. \A k \in Nat : Up(k) \in Nat
      BY HorizonFacts DEF Up
    <2> QED
      BY <2>1 DEF Tick, Basic, Typed
  <1>3. timer' \in [Workers -> Nat]
    <2>1. \A k \in Nat : Later(k, 0) \in Nat
      BY DEF Later
    <2> QED
      BY <2>1 DEF Tick, Basic, Typed
  <1> QED
    BY <1>1, <1>2, <1>3 DEF Tick

LEMMA CrashFacts ==
  ASSUME Basic, NEW p \in Processes, Crash(p)
  PROVE  /\ p \in Mortal
         /\ \A w \in Crew(p) : pc'[w] = "dead" /\ hand'[w] = Nobody /\ timer'[w] = 0
         /\ \A w \in Workers \ Crew(p) : pc'[w] = pc[w] /\ hand'[w] = hand[w] /\ timer'[w] = timer[w]
         /\ pc' \in [Workers -> {"idle", "starting", "awaiting", "computing", "dead"}]
         /\ hand' \in [Workers -> Jobs \cup {Nobody}] /\ timer' \in [Workers -> Nat]
         /\ \A j \in Jobs : since'[j] = IF \E w \in Crew(p) : hand[w] = j THEN 0 ELSE since[j]
         /\ since' \in [Jobs -> Nat]
         /\ nextBeat' = [nextBeat EXCEPT ![p] = 0] /\ nextReap' = [nextReap EXCEPT ![p] = 0]
         /\ UNCHANGED <<row, spent>>
  BY DEF Crash, Crew, Basic, Typed

LEMMA ComputeFacts ==
  ASSUME Basic, NEW w \in Workers, Compute(w)
  PROVE  /\ pc[w] = "starting" /\ Free(Home[w])
         /\ pc' = [pc EXCEPT ![w] = "computing"]
         /\ timer' \in [Workers -> Nat] /\ timer'[w] <= MaxBlock
         /\ \A v \in Workers \ {w} : timer'[v] = timer[v]
         /\ UNCHANGED <<row, hand, nextBeat, nextReap, since, spent>>
  <1>1. PICK t \in 0 .. MaxBlock : timer' = [timer EXCEPT ![w] = t]
    BY DEF Compute
  <1>2. t \in Nat /\ t <= MaxBlock
    BY TimetableAssumption
  <1> QED
    BY <1>1, <1>2 DEF Compute, Basic, Typed

LEMMA LaterFacts == \A k \in Nat : Later(k, 0) \in Nat /\ Later(k, 0) <= k
  BY DEF Later

-------------------------------------------------------------------------------
(* Basic is inductive. *)

LEMMA CreateBasic == ASSUME Basic, NEW j \in Jobs, Create(j) PROVE Basic'
  <1>1. Typed'
    BY CreateFacts DEF Basic, Typed
  <1>2. Hands'
    BY CreateFacts, <1>1 DEF Basic, Typed, Hands, Executing
  <1>3. Loops'
    BY CreateFacts DEF Basic, Typed, Loops, POLL_INTERVAL
  <1> QED
    BY <1>1, <1>2, <1>3 DEF Basic

LEMMA ClaimBasic == ASSUME Basic, NEW w \in Workers, Claim(w) PROVE Basic'
  <1>1. PICK j \in Jobs :
           /\ Claimable(j)
           /\ row'[j] \in Rows /\ row' = [row EXCEPT ![j] = row'[j]]
           /\ row'[j].status = "running" /\ row'[j].beat = 0 /\ row'[j].owner = w
           /\ row'[j].overdue = row[j].overdue
           /\ hand' = [hand EXCEPT ![w] = j]
           /\ pc[w] = "idle" /\ pc'[w] \in {"starting", "awaiting"}
           /\ pc' = [pc EXCEPT ![w] = pc'[w]]
           /\ timer' \in [Workers -> Nat]
           /\ \A v \in Workers \ {w} : timer'[v] = timer[v]
           /\ since' = [since EXCEPT ![j] = 0]
           /\ UNCHANGED <<nextBeat, nextReap, spent>>
    BY ClaimFacts
  <1>2. Typed'
    BY <1>1 DEF Basic, Typed
  <1>3. Hands'
    <2>1. /\ hand[w] \notin Jobs /\ \A v \in Workers : hand[v] # j
          /\ row[j].status = "pending" /\ row[j].overdue >= 0
      BY <1>1 DEF Basic, Hands, Executing, Claimable
    <2>2. /\ \A i \in Jobs \ {j} : row'[i] = row[i]
          /\ \A v \in Workers \ {w} : hand'[v] = hand[v] /\ pc'[v] = pc[v]
          /\ hand'[w] = j
      BY <1>1 DEF Basic, Typed
    <2>3. \A v \in Workers : (hand[v] \in Jobs <=> pc[v] \in Executing)'
      BY <1>1, <2>2 DEF Basic, Hands, Executing
    <2>4. (\A u, v \in Workers : hand[u] \in Jobs /\ hand[u] = hand[v] => u = v)'
      BY <2>1, <2>2 DEF Basic, Hands
    <2>5. ASSUME NEW i \in Jobs, row'[i].status = "running"
          PROVE  /\ row'[i].owner \in Workers
                 /\ hand'[row'[i].owner] = i \/ pc'[row'[i].owner] = "dead"
                 /\ row'[i].overdue >= 0 /\ row'[i].beat >= 0
      <3>1. CASE i = j
        BY <1>1, <2>1, <2>2, <3>1
      <3>2. CASE i # j
        BY <1>1, <2>1, <2>2, <2>5, <3>2 DEF Basic, Hands
      <3> QED
        BY <3>1, <3>2
    <2>6. ASSUME NEW v \in Workers, hand'[v] \in Jobs
          PROVE  \/ row'[hand'[v]].status = "running" /\ row'[hand'[v]].owner = v
                 \/ row'[hand'[v]].status = "pending" /\ row'[hand'[v]].overdue >= 0
      <3>1. CASE v = w
        BY <1>1, <2>2, <3>1
      <3>2. CASE v # w
        BY <2>1, <2>2, <2>6, <3>2 DEF Basic, Hands
      <3> QED
        BY <3>1, <3>2
    <2> QED
      BY <2>3, <2>4, <2>5, <2>6 DEF Hands
  <1>4. Loops'
    <2>1. pc'[w] \notin {"dead", "computing", "idle"} /\ pc[w] # "dead"
          /\ \A v \in Workers \ {w} : pc'[v] = pc[v] /\ timer'[v] = timer[v]
      BY <1>1 DEF Basic, Typed
    <2>2. \A u, v \in Workers : Home[u] = Home[v] /\ pc'[u] = "dead" => pc'[v] = "dead"
      <3>1. \A v \in Workers : Home[v] = Home[w] => pc[v] # "dead"
        BY <2>1 DEF Basic, Loops
      <3> QED
        BY <2>1, <3>1 DEF Basic, Loops
    <2> QED
      BY <2>1, <2>2 DEF Basic, Loops
  <1> QED
    BY <1>2, <1>3, <1>4 DEF Basic

LEMMA FindNothingBasic == ASSUME Basic, NEW w \in Workers, FindNothing(w) PROVE Basic'
  <1>1. /\ pc[w] = "idle" /\ Wait = 1 /\ POLL_INTERVAL = 1
        /\ timer' = [timer EXCEPT ![w] = Wait]
        /\ UNCHANGED <<row, pc, hand, nextBeat, nextReap, since, spent>>
    BY DEF FindNothing, Claiming, Wait, POLL_INTERVAL
  <1>2. Typed' /\ Hands'
    BY <1>1 DEF Basic, Typed, Hands
  <1>3. Loops'
    BY <1>1 DEF Basic, Typed, Loops
  <1> QED
    BY <1>2, <1>3 DEF Basic

LEMMA ComputeBasic == ASSUME Basic, NEW w \in Workers, Compute(w) PROVE Basic'
  <1>1. Typed'
    BY ComputeFacts DEF Basic, Typed
  <1>2. pc[w] = "starting" /\ pc'[w] = "computing"
        /\ \A v \in Workers \ {w} : pc'[v] = pc[v] /\ timer'[v] = timer[v]
    BY ComputeFacts DEF Basic, Typed
  <1>3. Hands'
    BY <1>2, ComputeFacts DEF Basic, Hands, Executing
  <1>4. Loops'
    <2>1. \A v \in Workers : Home[v] = Home[w] => pc[v] \notin {"computing", "dead"}
      BY ComputeFacts DEF Free
    <2>2. timer'[w] <= MaxBlock
      BY ComputeFacts
    <2> QED
      BY <1>2, <2>1, <2>2 DEF Basic, Loops
  <1> QED
    BY <1>1, <1>3, <1>4 DEF Basic

LEMMA FinishBasic == ASSUME Basic, NEW w \in Workers, Finish(w) PROVE Basic'
  <1>1. PICK j \in Jobs :
           /\ hand[w] = j /\ pc[w] \in {"computing", "awaiting"}
           /\ row' = [row EXCEPT ![j] = Outcome(row[j])]
           /\ row'[j] = Outcome(row[j])
           /\ hand' = [hand EXCEPT ![w] = Nobody] /\ pc' = [pc EXCEPT ![w] = "idle"]
           /\ since' = [since EXCEPT ![j] = 0]
           /\ timer[w] = 0
           /\ UNCHANGED <<timer, nextBeat, nextReap, spent>>
    BY FinishFacts
  <1>2. row[j] \in Rows
    BY DEF Basic, Typed
  <1>3. Outcome(row[j]) \in Rows /\ Outcome(row[j]).status # "running"
    BY <1>2, OutcomeFacts
  <1>4. Typed'
    BY <1>1, <1>3 DEF Basic, Typed
  <1>5. /\ \A i \in Jobs \ {j} : row'[i] = row[i]
        /\ \A v \in Workers \ {w} : hand'[v] = hand[v] /\ pc'[v] = pc[v] /\ hand[v] # j
        /\ hand'[w] \notin Jobs /\ pc'[w] = "idle" /\ timer'[w] <= POLL_INTERVAL
    BY <1>1, TimetableAssumption DEF Basic, Typed, Hands, POLL_INTERVAL
  <1>6. Hands'
    <2>1. \A v \in Workers : (hand[v] \in Jobs <=> pc[v] \in Executing)'
      BY <1>5 DEF Basic, Hands, Executing
    <2>2. (\A u, v \in Workers : hand[u] \in Jobs /\ hand[u] = hand[v] => u = v)'
      BY <1>5 DEF Basic, Hands
    <2>3. ASSUME NEW i \in Jobs, row'[i].status = "running"
          PROVE  /\ row'[i].owner \in Workers
                 /\ hand'[row'[i].owner] = i \/ pc'[row'[i].owner] = "dead"
                 /\ row'[i].overdue >= 0 /\ row'[i].beat >= 0
      <3>1. i # j
        BY <1>1, <1>3, <2>3
      <3>2. row[i].owner # w
        BY <1>1, <1>5, <2>3, <3>1 DEF Basic, Hands
      <3> QED
        BY <1>5, <2>3, <3>1, <3>2 DEF Basic, Hands
    <2>4. ASSUME NEW v \in Workers, hand'[v] \in Jobs
          PROVE  \/ row'[hand'[v]].status = "running" /\ row'[hand'[v]].owner = v
                 \/ row'[hand'[v]].status = "pending" /\ row'[hand'[v]].overdue >= 0
      BY <1>5, <2>4 DEF Basic, Hands
    <2> QED
      BY <2>1, <2>2, <2>3, <2>4 DEF Hands
  <1>7. Loops'
    <2>1. \A v \in Workers : Home[v] = Home[w] => pc[v] # "dead"
      BY <1>1 DEF Basic, Loops
    <2> QED
      BY <1>1, <1>5, <2>1 DEF Basic, Loops
  <1> QED
    BY <1>4, <1>6, <1>7 DEF Basic

LEMMA HeartbeatBasic == ASSUME Basic, NEW p \in Processes, Heartbeat(p) PROVE Basic'
  <1>1. Typed'
    BY HeartbeatFacts DEF Basic, Typed, HEARTBEAT_INTERVAL
  <1>2. \A j \in Jobs : row[j].status = "running" => row'[j].beat >= 0
    BY HeartbeatFacts DEF Basic, Hands
  <1>3. Hands' /\ Loops'
    BY <1>2, HeartbeatFacts DEF Basic, Hands, Loops
  <1> QED
    BY <1>1, <1>3 DEF Basic

LEMMA ReapBasic == ASSUME Basic, NEW p \in Processes, Reap(p) PROVE Basic'
  <1>1. Typed'
    BY ReapFacts DEF Basic, Typed, REAPER_INTERVAL
  <1>2. \A j \in Jobs : \/ row'[j] = row[j]
                        \/ /\ row[j].status = "running" /\ row'[j].status = "pending"
                           /\ row'[j].overdue = row[j].overdue
    BY ReapFacts
  <1>3. Hands'
    BY <1>2, ReapFacts DEF Basic, Hands
  <1>4. Loops'
    BY ReapFacts DEF Basic, Loops
  <1> QED
    BY <1>1, <1>3, <1>4 DEF Basic

LEMMA CrashBasic == ASSUME Basic, NEW p \in Processes, Crash(p) PROVE Basic'
  <1>1. Typed'
    BY CrashFacts DEF Basic, Typed, HEARTBEAT_INTERVAL, REAPER_INTERVAL
  <1>2. \A w \in Workers : \/ w \in Crew(p) /\ pc'[w] = "dead" /\ hand'[w] \notin Jobs
                           \/ w \notin Crew(p) /\ pc'[w] = pc[w] /\ hand'[w] = hand[w]
                                               /\ timer'[w] = timer[w]
    BY CrashFacts, TimetableAssumption
  <1>3. Hands'
    BY <1>2, CrashFacts DEF Basic, Hands, Executing
  <1>4. Loops'
    BY <1>2, CrashFacts DEF Basic, Loops, Crew
  <1> QED
    BY <1>1, <1>3, <1>4 DEF Basic

LEMMA TickBasic == ASSUME Basic, Tick PROVE Basic'
  <1>1. nextBeat' \in [Processes -> -1 .. HEARTBEAT_INTERVAL]
        /\ nextReap' \in [Processes -> -1 .. REAPER_INTERVAL]
    <2>1. \A b \in {0, -1} : /\ \A k \in -1 .. HEARTBEAT_INTERVAL : Later(k, b) \in -1 .. HEARTBEAT_INTERVAL
                            /\ \A k \in -1 .. REAPER_INTERVAL : Later(k, b) \in -1 .. REAPER_INTERVAL
      BY DEF Later, HEARTBEAT_INTERVAL, REAPER_INTERVAL
    <2>2. \A p \in Processes : (IF Dead(p) THEN 0 ELSE -1) \in {0, -1}
      OBVIOUS
    <2>3. \A p \in Processes : /\ nextBeat[p] \in -1 .. HEARTBEAT_INTERVAL
                               /\ nextReap[p] \in -1 .. REAPER_INTERVAL
      BY DEF Basic, Typed
    <2> QED
      BY <2>1, <2>2, <2>3 DEF Tick
  <1>2. Typed'
    BY <1>1, TickFacts DEF Basic, Typed
  <1>3. \A j \in Jobs : row[j].overdue >= 0 => row'[j].overdue >= 0
    <2>1. \A j \in Jobs : row[j].overdue \in Int
      BY DEF Basic, Typed, Rows
    <2> QED
      BY <2>1, TickFacts, UpFacts
  <1>4. \A j \in Jobs : row[j].status = "running" => row'[j].beat >= 0
    <2>1. \A j \in Jobs : row[j].beat \in Int
      BY DEF Basic, Typed, Rows
    <2>2. \A j \in Jobs : row[j].status = "running" => row[j].beat >= 0
      BY DEF Basic, Hands
    <2> QED
      BY <2>1, <2>2, TickFacts, UpFacts
  <1>5. Hands'
    BY <1>3, <1>4, TickFacts DEF Basic, Hands
  <1>6. \A w \in Workers : timer'[w] <= timer[w] /\ timer'[w] \in Nat /\ timer[w] \in Nat
    BY TickFacts, LaterFacts DEF Basic, Typed
  <1>7. Loops'
    BY <1>6, TickFacts, TimetableAssumption DEF Basic, Loops, POLL_INTERVAL
  <1> QED
    BY <1>2, <1>5, <1>7 DEF Basic

LEMMA NextBasic == Basic /\ [Next]_vars => Basic'
  <1> SUFFICES ASSUME Basic, [Next]_vars
               PROVE  Basic'
    OBVIOUS
  <1>1. CASE Tick
    BY <1>1, TickBasic
  <1>2. ASSUME NEW j \in Jobs, Create(j)
        PROVE  Basic'
    BY <1>2, CreateBasic
  <1>3. ASSUME NEW w \in Workers, Claim(w) \/ FindNothing(w) \/ Compute(w) \/ Finish(w)
        PROVE  Basic'
    BY <1>3, ClaimBasic, FindNothingBasic, ComputeBasic, FinishBasic
  <1>4. ASSUME NEW p \in Processes, Heartbeat(p) \/ Reap(p) \/ Crash(p)
        PROVE  Basic'
    BY <1>4, HeartbeatBasic, ReapBasic, CrashBasic
  <1>5. CASE UNCHANGED vars
    BY <1>5 DEF vars, Basic, Typed, Hands, Loops
  <1> QED
    BY <1>1, <1>2, <1>3, <1>4, <1>5 DEF Next

LEMMA BasicInvariance == Spec => []Basic
  BY InitBasic, NextBasic, PTL DEF Spec

-------------------------------------------------------------------------------
(* A job that is due is claimed within a poll.  A job waits only while it  *)
(* can be claimed or its executor is dead; and what a worker did not find  *)
(* when it began its wait has become claimable since.                      *)

Prompt ==
  /\ \A j \in Jobs : since[j] > 0 => Claimable(j) \/ Orphan(j)
  /\ \A w \in Workers, j \in Jobs :
       pc[w] = "idle" /\ timer[w] > 0 /\ Claimable(j) => since[j] = 0

LEMMA InitPrompt == Init => Prompt
  BY DEF Init, Prompt

LEMMA CreatePrompt == ASSUME Basic, Prompt, NEW j \in Jobs, Create(j) PROVE Prompt'
  <1>1. /\ row[j].status = "absent" /\ row'[j].status = "pending"
        /\ \A i \in Jobs \ {j} : row'[i] = row[i]
        /\ \A w \in Workers : timer'[w] = timer[w] \/ timer'[w] = 0
        /\ UNCHANGED <<pc, hand, since>>
    BY CreateFacts DEF Basic, Typed
  <1>2. since[j] = 0
    BY <1>1 DEF Prompt, Claimable, Orphan, Basic, Typed
  <1> QED
    BY <1>1, <1>2 DEF Prompt, Claimable, Orphan

LEMMA ClaimPrompt == ASSUME Basic, Prompt, NEW w \in Workers, Claim(w) PROVE Prompt'
  <1>1. PICK j \in Jobs :
           /\ Claimable(j)
           /\ row' = [row EXCEPT ![j] = row'[j]] /\ row'[j].status = "running"
           /\ hand' = [hand EXCEPT ![w] = j]
           /\ pc[w] = "idle" /\ pc'[w] \in {"starting", "awaiting"}
           /\ pc' = [pc EXCEPT ![w] = pc'[w]]
           /\ \A v \in Workers \ {w} : timer'[v] = timer[v]
           /\ since' = [since EXCEPT ![j] = 0]
    BY ClaimFacts
  <1>2. /\ \A i \in Jobs \ {j} : row'[i] = row[i] /\ since'[i] = since[i]
        /\ \A v \in Workers \ {w} : hand'[v] = hand[v] /\ pc'[v] = pc[v]
        /\ since'[j] = 0 /\ hand'[w] = j /\ hand[w] \notin Jobs
    BY <1>1 DEF Basic, Typed, Hands, Executing
  <1>3. \A i \in Jobs \ {j} : (Claimable(i) <=> Claimable(i)') /\ (Orphan(i) => Orphan(i)')
    <2>1. \A i \in Jobs \ {j} : (\A v \in Workers : hand[v] # i) <=> (\A v \in Workers : hand'[v] # i)
      BY <1>2
    <2>2. \A i \in Jobs \ {j} : Orphan(i) => row[i].owner # w /\ row[i].owner \in Workers
      BY <1>1 DEF Orphan, Basic, Hands
    <2> QED
      BY <1>2, <2>1, <2>2 DEF Claimable, Orphan
  <1> QED
    BY <1>1, <1>2, <1>3 DEF Prompt

LEMMA FindNothingPrompt == ASSUME Basic, Prompt, NEW w \in Workers, FindNothing(w) PROVE Prompt'
  BY DEF Prompt, FindNothing, Claimable, Orphan

LEMMA ComputePrompt == ASSUME Basic, Prompt, NEW w \in Workers, Compute(w) PROVE Prompt'
  <1>1. /\ pc[w] = "starting" /\ pc'[w] = "computing"
        /\ \A v \in Workers \ {w} : pc'[v] = pc[v] /\ timer'[v] = timer[v]
        /\ UNCHANGED <<row, hand, since>>
    BY ComputeFacts DEF Basic, Typed
  <1>2. \A i \in Jobs : (Claimable(i) <=> Claimable(i)') /\ (Orphan(i) => Orphan(i)')
    BY <1>1 DEF Claimable, Orphan, Basic, Hands
  <1> QED
    BY <1>1, <1>2 DEF Prompt

LEMMA FinishPrompt == ASSUME Basic, Prompt, NEW w \in Workers, Finish(w) PROVE Prompt'
  <1>1. PICK j \in Jobs :
           /\ hand[w] = j /\ pc[w] \in {"computing", "awaiting"}
           /\ row' = [row EXCEPT ![j] = Outcome(row[j])]
           /\ hand' = [hand EXCEPT ![w] = Nobody] /\ pc' = [pc EXCEPT ![w] = "idle"]
           /\ since' = [since EXCEPT ![j] = 0]
           /\ timer[w] = 0 /\ timer' = timer
    BY FinishFacts
  <1>2. /\ \A i \in Jobs \ {j} : row'[i] = row[i] /\ since'[i] = since[i]
        /\ \A v \in Workers \ {w} : hand'[v] = hand[v] /\ pc'[v] = pc[v]
        /\ since'[j] = 0 /\ hand'[w] \notin Jobs
    BY <1>1, TimetableAssumption DEF Basic, Typed
  <1>3. \A i \in Jobs \ {j} : (Claimable(i) <=> Claimable(i)') /\ (Orphan(i) => Orphan(i)')
    <2>1. \A i \in Jobs \ {j} : (\A v \in Workers : hand[v] # i) <=> (\A v \in Workers : hand'[v] # i)
      BY <1>1, <1>2
    <2>2. \A i \in Jobs \ {j} : Orphan(i) => row[i].owner # w /\ row[i].owner \in Workers
      BY <1>1 DEF Orphan, Basic, Hands
    <2> QED
      BY <1>2, <2>1, <2>2 DEF Claimable, Orphan
  <1> QED
    BY <1>1, <1>2, <1>3 DEF Prompt

LEMMA HeartbeatPrompt == ASSUME Basic, Prompt, NEW p \in Processes, Heartbeat(p) PROVE Prompt'
  BY HeartbeatFacts DEF Prompt, Claimable, Orphan

LEMMA ReapPrompt == ASSUME Basic, Prompt, NEW p \in Processes, Reap(p) PROVE Prompt'
  <1>1. \A i \in Jobs : \/ since'[i] = 0
                        \/ since'[i] = since[i] /\ row'[i] = row[i]
    BY ReapFacts
  <1> QED
    BY <1>1, ReapFacts DEF Prompt, Claimable, Orphan

LEMMA CrashPrompt == ASSUME Basic, Prompt, NEW p \in Processes, Crash(p) PROVE Prompt'
  <1>1. \A w \in Workers : \/ w \in Crew(p) /\ pc'[w] = "dead" /\ hand'[w] \notin Jobs
                           \/ w \notin Crew(p) /\ pc'[w] = pc[w] /\ hand'[w] = hand[w]
                                               /\ timer'[w] = timer[w]
    BY CrashFacts, TimetableAssumption
  <1>2. \A j \in Jobs : \/ since'[j] = 0
                        \/ since'[j] = since[j] /\ \A w \in Crew(p) : hand[w] # j
    BY CrashFacts
  <1>3. \A j \in Jobs : Claimable(j) => Claimable(j)'
    BY <1>1, CrashFacts DEF Claimable
  <1>4. \A j \in Jobs : Orphan(j) => Orphan(j)'
    BY <1>1, CrashFacts DEF Orphan, Basic, Hands
  <1>5. \A j \in Jobs : Claimable(j)' /\ (\A w \in Crew(p) : hand[w] # j) => Claimable(j)
    BY <1>1, CrashFacts DEF Claimable
  <1> QED
    BY <1>1, <1>2, <1>3, <1>4, <1>5 DEF Prompt

LEMMA TickPrompt == ASSUME Basic, Prompt, Tick PROVE Prompt'
  <1>1. \A w \in Workers : pc'[w] = "idle" => timer'[w] = 0
    <2>1. \A w \in Workers : pc[w] = "idle" => timer[w] \in 0 .. 1
      BY DEF Basic, Typed, Loops, POLL_INTERVAL
    <2>2. Later(0, 0) = 0 /\ Later(1, 0) = 0
      BY DEF Later
    <2> QED
      BY <2>1, <2>2, TickFacts
  <1>2. ASSUME NEW j \in Jobs, since'[j] > 0
        PROVE  Claimable(j)' \/ Orphan(j)'
    <2>1. Claimable(j) \/ Orphan(j)
      BY <1>2 DEF Tick, Prompt
    <2>2. row[j].overdue >= 0 => row'[j].overdue >= 0
      <3>1. row[j].overdue \in Int
        BY DEF Basic, Typed, Rows
      <3> QED
        BY <3>1, TickFacts, UpFacts
    <2> QED
      BY <2>1, <2>2, TickFacts DEF Claimable, Orphan
  <1> QED
    BY <1>1, <1>2 DEF Prompt

LEMMA NextPrompt == Basic /\ Prompt /\ [Next]_vars => Prompt'
  <1> SUFFICES ASSUME Basic, Prompt, [Next]_vars
               PROVE  Prompt'
    OBVIOUS
  <1>1. CASE Tick
    BY <1>1, TickPrompt
  <1>2. ASSUME NEW j \in Jobs, Create(j)
        PROVE  Prompt'
    BY <1>2, CreatePrompt
  <1>3. ASSUME NEW w \in Workers, Claim(w) \/ FindNothing(w) \/ Compute(w) \/ Finish(w)
        PROVE  Prompt'
    BY <1>3, ClaimPrompt, FindNothingPrompt, ComputePrompt, FinishPrompt
  <1>4. ASSUME NEW p \in Processes, Heartbeat(p) \/ Reap(p) \/ Crash(p)
        PROVE  Prompt'
    BY <1>4, HeartbeatPrompt, ReapPrompt, CrashPrompt
  <1>5. CASE UNCHANGED vars
    BY <1>5 DEF vars, Prompt, Claimable, Orphan
  <1> QED
    BY <1>1, <1>2, <1>3, <1>4, <1>5 DEF Next

(* Only time makes a job wait longer. *)
LEMMA OnlyTimePasses ==
  ASSUME Basic, [Next]_vars, NEW j \in Jobs, since'[j] > since[j]
  PROVE  Tick
  <1>1. since[j] \in Nat
    BY DEF Basic, Typed
  <1>2. ASSUME NEW i \in Jobs, Create(i)
        PROVE  FALSE
    BY <1>1, <1>2, CreateFacts
  <1>3. ASSUME NEW w \in Workers, Claim(w) \/ FindNothing(w) \/ Compute(w) \/ Finish(w)
        PROVE  FALSE
    <2>1. since' = since \/ \E i \in Jobs : since' = [since EXCEPT ![i] = 0]
      BY <1>3, ClaimFacts, ComputeFacts, FinishFacts DEF FindNothing
    <2> QED
      BY <1>1, <2>1 DEF Basic, Typed
  <1>4. ASSUME NEW p \in Processes, Heartbeat(p) \/ Reap(p) \/ Crash(p)
        PROVE  FALSE
    <2>1. since'[j] = since[j] \/ since'[j] = 0
      BY <1>4, HeartbeatFacts, ReapFacts, CrashFacts
    <2> QED
      BY <1>1, <2>1
  <1>5. CASE UNCHANGED vars
    BY <1>1, <1>5 DEF vars
  <1> QED
    BY <1>2, <1>3, <1>4, <1>5 DEF Next

(* README.md:457, the dispatch latency, whatever was lost, retried or      *)
(* reaped (_wait_for_notify of worker.py, its timeout).                    *)
THEOREM DispatchLatency == Spec => DueStartsInTime
  <1>1. Basic /\ Prompt /\ [Next]_vars =>
       [\A j \in Jobs :
       Claimable(j) /\ since'[j] > since[j] /\ since[j] >= POLL_INTERVAL
       => \A w \in Workers : pc[w] = "idle" => ~Free(Home[w])]_vars
    <2> SUFFICES ASSUME Basic, Prompt, [Next]_vars,
                        NEW j \in Jobs, Claimable(j), since'[j] > since[j], since[j] >= POLL_INTERVAL,
                        NEW w \in Workers, pc[w] = "idle", Free(Home[w])
                 PROVE  FALSE
      OBVIOUS
    <2>1. timer[w] > 0
      BY OnlyTimePasses DEF Tick
    <2> QED
      BY <2>1 DEF Prompt, POLL_INTERVAL
  <1>2. Spec => []Prompt
    BY InitPrompt, NextPrompt, BasicInvariance, PTL DEF Spec
  <1> QED
    BY <1>1, <1>2, BasicInvariance, PTL DEF Spec, DueStartsInTime

-------------------------------------------------------------------------------
(* How long the event loop of a process may yet be kept: by the handler    *)
(* that keeps it, and by those that are about to begin.                    *)

Starting(p) == {w \in Crew(p) : pc[w] = "starting"}
Computing(p) == {w \in Crew(p) : pc[w] = "computing"}
Doing(p) == IF Computing(p) = {} THEN 0 ELSE timer[CHOOSE w \in Computing(p) : TRUE]
Kept(p) == MaxBlock * Cardinality(Starting(p))
Ahead(p) == Doing(p) + Kept(p)

LEMMA DoingFacts ==
  ASSUME Basic, NEW p
  PROVE  /\ Doing(p) \in Nat
         /\ Computing(p) = {} => Doing(p) = 0
         /\ \A w \in Computing(p) : Doing(p) = timer[w] /\ timer[w] <= MaxBlock
  <1>1. ASSUME NEW w \in Computing(p)
        PROVE  Computing(p) = {w} /\ w \in Workers /\ timer[w] <= MaxBlock
    BY DEF Computing, Crew, Basic, Loops
  <1>2. ASSUME NEW w \in Computing(p)
        PROVE  Doing(p) = timer[w] /\ Doing(p) \in Nat
    <2>1. (CHOOSE v \in Computing(p) : TRUE) = w
      BY <1>1
    <2> QED
      BY <1>1, <2>1 DEF Doing, Basic, Typed
  <1> QED
    BY <1>1, <1>2 DEF Doing

LEMMA StartingFacts ==
  ASSUME NEW p, NEW S, Starting(p) \subseteq S, S \subseteq Crew(p)
  PROVE  /\ IsFiniteSet(S) /\ Cardinality(S) \in Nat
         /\ Kept(p) \in Nat /\ Kept(p) <= MaxBlock * Cardinality(S)
  <1>1. IsFiniteSet(S) /\ IsFiniteSet(Starting(p))
    BY CrewFinite, FS_Subset
  <1>2. Cardinality(S) \in Nat /\ Cardinality(Starting(p)) \in Nat
        /\ Cardinality(Starting(p)) <= Cardinality(S)
    BY <1>1, FS_Subset, FS_CardinalityType
  <1> QED
    BY <1>1, <1>2, Times, TimetableAssumption DEF Kept

(* Whoever is not about to begin does not add to it, and whoever neither   *)
(* keeps the loop nor is about to, leaves one handler less.                *)
LEMMA AheadBounds ==
  ASSUME Basic, NEW p
  PROVE  /\ Kept(p) \in Nat /\ Ahead(p) \in Nat
         /\ Ahead(p) <= MaxBlock * Cardinality(Crew(p))
         /\ \A w \in Crew(p) : pc[w] \notin {"starting", "computing"} =>
              Ahead(p) <= MaxBlock * (Cardinality(Crew(p)) - 1)
  <1>1. Kept(p) \in Nat /\ Doing(p) \in Nat
    BY StartingFacts, DoingFacts DEF Starting
  <1>2. ASSUME NEW S, Starting(p) \subseteq S, Computing(p) \subseteq S, S \subseteq Crew(p)
        PROVE  Ahead(p) <= MaxBlock * Cardinality(S)
    <2>1. CASE Computing(p) = {}
      <3>1. Kept(p) <= MaxBlock * Cardinality(S)
        BY <1>2, StartingFacts
      <3>2. Ahead(p) = Kept(p)
        BY <1>1, <2>1, DoingFacts DEF Ahead
      <3> QED
        BY <3>1, <3>2
    <2>2. CASE Computing(p) # {}
      <3>1. PICK c \in Computing(p) : TRUE
        BY <2>2
      <3>2. Doing(p) <= MaxBlock
        BY <3>1, DoingFacts
      <3>3. Starting(p) \subseteq S \ {c} /\ c \in S /\ S \ {c} \subseteq Crew(p)
        BY <1>2, <3>1 DEF Starting, Computing
      <3>4. /\ Cardinality(S \ {c}) \in Nat /\ Kept(p) <= MaxBlock * Cardinality(S \ {c})
            /\ IsFiniteSet(S)
        BY <1>2, <3>3, StartingFacts
      <3>5. Cardinality(S) = Cardinality(S \ {c}) + 1
        <4>1. Cardinality(S \ {c}) = Cardinality(S) - 1
          BY <3>3, <3>4, FS_RemoveElement
        <4>2. Cardinality(S) \in Nat
          BY <3>4, FS_CardinalityType
        <4> QED
          BY <4>1, <4>2
      <3> DEFINE n == Cardinality(S \ {c})
      <3>6. MaxBlock * Cardinality(S) = MaxBlock * n + MaxBlock /\ MaxBlock * n \in Nat
        BY <3>4, <3>5, Times, TimetableAssumption
      <3> QED
        BY <1>1, <3>2, <3>4, <3>6, TimetableAssumption DEF Ahead
    <2> QED
      BY <2>1, <2>2
  <1>3. Ahead(p) <= MaxBlock * Cardinality(Crew(p))
    BY <1>2 DEF Starting, Computing
  <1>4. ASSUME NEW w \in Crew(p), pc[w] \notin {"starting", "computing"}
        PROVE  Ahead(p) <= MaxBlock * (Cardinality(Crew(p)) - 1)
    <2>1. Starting(p) \subseteq Crew(p) \ {w} /\ Computing(p) \subseteq Crew(p) \ {w}
      BY <1>4 DEF Starting, Computing
    <2>2. Cardinality(Crew(p) \ {w}) = Cardinality(Crew(p)) - 1
      BY CrewFinite, FS_RemoveElement
    <2> QED
      BY <1>2, <2>1, <2>2
  <1> QED
    BY <1>1, <1>3, <1>4 DEF Ahead

LEMMA AheadTypes == Basic => \A p \in Processes : Ahead(p) \in Nat
                                                  /\ Ahead(p) <= MaxBlock * Cardinality(Crew(p))
  BY AheadBounds

LEMMA AheadTypesNext == (Basic => \A p \in Processes : Ahead(p) \in Nat
                                 /\ Ahead(p) <= MaxBlock * Cardinality(Crew(p)))'
  BY AheadTypes, PTL

(* It depends on who is starting, and on who computes for how long. *)
LEMMA AheadSame ==
  ASSUME NEW p, \A w \in Crew(p) : pc'[w] = pc[w],
         \A w \in Crew(p) : pc[w] = "computing" => timer'[w] = timer[w]
  PROVE  Ahead(p)' = Ahead(p)
  <1>1. Starting(p)' = Starting(p) /\ Computing(p)' = Computing(p)
    BY DEF Starting, Computing, Crew
  <1>2. Doing(p)' = Doing(p)
    <2>1. CASE Computing(p) = {}
      BY <1>1, <2>1 DEF Doing
    <2>2. CASE Computing(p) # {}
      <3>1. PICK c : c = (CHOOSE w \in Computing(p) : TRUE)
        OBVIOUS
      <3>2. timer'[c] = timer[c]
        BY <2>2, <3>1 DEF Computing
      <3> QED
        BY <1>1, <2>2, <3>1, <3>2 DEF Doing
    <2> QED
      BY <2>1, <2>2
  <1> QED
    BY <1>1, <1>2 DEF Ahead, Kept

LEMMA AheadTick ==
  ASSUME Basic, Tick, NEW p, ~Free(p), ~Dead(p)
  PROVE  Ahead(p)' = Ahead(p) - 1
  <1>1. PICK c \in Computing(p) : TRUE
    BY DEF Free, Dead, Computing, Crew, Basic, Loops
  <1>2. timer[c] > 0 /\ timer[c] \in Nat /\ Doing(p) = timer[c]
    BY <1>1, DoingFacts DEF Tick, Computing, Crew, Basic, Typed
  <1>3. timer'[c] = timer[c] - 1
    BY <1>1, <1>2 DEF Tick, Later, Computing, Crew
  <1>4. Doing(p)' = timer'[c]
    <2>1. c \in Computing(p)'
      BY <1>1, TickFacts DEF Computing, Crew
    <2>2. Computing(p)' = Computing(p)
      BY TickFacts DEF Computing, Crew
    <2>3. Computing(p) = {c}
      BY <1>1 DEF Computing, Crew, Basic, Loops
    <2> QED
      BY <2>2, <2>3 DEF Doing
  <1>5. Kept(p)' = Kept(p)
    BY TickFacts DEF Kept, Starting
  <1>6. Kept(p) \in Nat
    BY AheadBounds
  <1> QED
    BY <1>2, <1>3, <1>4, <1>5, <1>6 DEF Ahead

(* No other step but a claim prolongs it. *)
LEMMA AheadShrinks ==
  ASSUME Basic, NEW p, [Next]_vars,
         ~Tick, \A w \in Crew(p) : ~Claim(w), ~Crash(p)
  PROVE  Ahead(p)' <= Ahead(p)
  <1>0. Ahead(p) \in Nat /\ Doing(p) \in Nat /\ Kept(p) \in Nat
    BY AheadBounds, DoingFacts
  <1>1. ASSUME NEW j \in Jobs, Create(j)
        PROVE  Ahead(p)' = Ahead(p)
    BY <1>1, CreateFacts, AheadSame DEF Crew
  <1>2. ASSUME NEW w \in Workers, Claim(w)
        PROVE  Ahead(p)' = Ahead(p)
    <2>1. w \notin Crew(p)
      BY <1>2
    <2>2. \A v \in Workers \ {w} : pc'[v] = pc[v] /\ timer'[v] = timer[v]
      BY <1>2, ClaimFacts DEF Basic, Typed
    <2> QED
      BY <2>1, <2>2, AheadSame DEF Crew
  <1>3. ASSUME NEW w \in Workers, FindNothing(w)
        PROVE  Ahead(p)' = Ahead(p)
    <2>1. pc' = pc /\ \A v \in Workers : pc[v] = "computing" => timer'[v] = timer[v]
      BY <1>3 DEF FindNothing, Claiming, Basic, Typed
    <2> QED
      BY <2>1, AheadSame DEF Crew
  <1>4. ASSUME NEW w \in Workers, Compute(w)
        PROVE  Ahead(p)' <= Ahead(p)
    <2>1. /\ pc[w] = "starting" /\ pc'[w] = "computing"
          /\ timer'[w] \in Nat /\ timer'[w] <= MaxBlock
          /\ \A v \in Workers \ {w} : pc'[v] = pc[v] /\ timer'[v] = timer[v]
          /\ \A v \in Workers : Home[v] = Home[w] => pc[v] # "computing"
      BY <1>4, ComputeFacts DEF Basic, Typed, Free
    <2>2. CASE w \notin Crew(p)
      BY <1>0, <2>1, <2>2, AheadSame DEF Crew
    <2>3. CASE w \in Crew(p)
      <3>1. Computing(p) = {} /\ Computing(p)' = {w}
        BY <2>1, <2>3 DEF Computing, Crew
      <3>2. Doing(p) = 0 /\ Doing(p)' = timer'[w]
        BY <3>1 DEF Doing
      <3>3. Starting(p)' = Starting(p) \ {w} /\ w \in Starting(p)
        BY <2>1, <2>3 DEF Starting, Crew
      <3>4. IsFiniteSet(Starting(p)) /\ IsFiniteSet(Starting(p) \ {w})
        BY CrewFinite, FS_Subset DEF Starting
      <3> DEFINE n == Cardinality(Starting(p) \ {w})
      <3>5. n \in Nat /\ Cardinality(Starting(p)) = n + 1
        <4>1. n = Cardinality(Starting(p)) - 1
          BY <3>3, <3>4, FS_RemoveElement
        <4>2. n \in Nat /\ Cardinality(Starting(p)) \in Nat
          BY <3>4, FS_CardinalityType
        <4> QED
          BY <4>1, <4>2
      <3>6. Kept(p)' = MaxBlock * n
        BY <3>3 DEF Kept
      <3> HIDE DEF n
      <3>7. Kept(p) = MaxBlock * n + MaxBlock /\ MaxBlock * n \in Nat
        BY <3>5, Times, TimetableAssumption DEF Kept
      <3> QED
        BY <2>1, <3>2, <3>6, <3>7, TimetableAssumption DEF Ahead
    <2> QED
      BY <2>2, <2>3
  <1>5. ASSUME NEW w \in Workers, Finish(w)
        PROVE  Ahead(p)' <= Ahead(p)
    <2>1. /\ pc[w] \in {"computing", "awaiting"} /\ pc'[w] = "idle" /\ timer' = timer
          /\ \A v \in Workers \ {w} : pc'[v] = pc[v]
      BY <1>5, FinishFacts DEF Basic, Typed
    <2>2. CASE w \notin Computing(p)
      <3>1. Starting(p)' = Starting(p) /\ Computing(p)' = Computing(p)
        BY <2>1, <2>2 DEF Starting, Computing, Crew
      <3>2. Ahead(p)' = Ahead(p)
        BY <2>1, <3>1 DEF Ahead, Kept, Doing
      <3> QED
        BY <1>0, <3>2
    <2>3. CASE w \in Computing(p)
      <3>1. Computing(p)' = {}
        BY <2>1, <2>3 DEF Computing, Crew, Basic, Loops
      <3>2. Starting(p)' = Starting(p)
        BY <2>1 DEF Starting, Crew
      <3>3. Doing(p)' = 0 /\ Kept(p)' = Kept(p)
        BY <3>1, <3>2 DEF Doing, Kept
      <3> QED
        BY <1>0, <3>3 DEF Ahead
    <2> QED
      BY <2>2, <2>3
  <1>6. ASSUME NEW q \in Processes, Heartbeat(q) \/ Reap(q)
        PROVE  Ahead(p)' = Ahead(p)
    BY <1>6, HeartbeatFacts, ReapFacts, AheadSame
  <1>7. ASSUME NEW q \in Processes, Crash(q)
        PROVE  Ahead(p)' = Ahead(p)
    <2>1. \A w \in Crew(p) : w \in Workers \ Crew(q)
      BY <1>7 DEF Crew
    <2> QED
      BY <1>7, <2>1, CrashFacts, AheadSame
  <1>8. CASE UNCHANGED vars
    BY <1>0, <1>8, AheadSame DEF vars
  <1> QED
    BY <1>0, <1>1, <1>2, <1>3, <1>4, <1>5, <1>6, <1>7, <1>8 DEF Next

-------------------------------------------------------------------------------
(* A job whose worker crashed is found by the reaper of any process that   *)
(* cannot crash: since its last round it waited no longer than the         *)
(* threshold, and that round is over when the interval has passed and the  *)
(* handlers that keep the event loop meanwhile have returned.              *)

Found(q) ==
  \A j \in Jobs :
    Orphan(j) =>
      /\ since[j] <= row[j].beat
      /\ nextReap[q] >= 0 => since[j] + nextReap[q] <= STALE_THRESHOLD + REAPER_INTERVAL
      /\ nextReap[q] = -1 => since[j] + Ahead(q) <= STALE_THRESHOLD + REAPER_INTERVAL
                                                    + MaxBlock * Cardinality(Crew(q))

LEMMA InitFound == ASSUME NEW q PROVE Init => Found(q)
  BY AbsentFacts DEF Init, Found, Orphan

LEMMA FoundSame ==
  ASSUME Basic, Basic', NEW q \in Processes, Found(q), Ahead(q)' <= Ahead(q), nextReap'[q] = nextReap[q],
         \A j \in Jobs : Orphan(j)' => /\ Orphan(j) /\ since'[j] = since[j]
                                      /\ row'[j].beat = row[j].beat
  PROVE  Found(q)'
  <1> DEFINE B == MaxBlock * Cardinality(Crew(q))
  <1>1. Ahead(q) \in Nat /\ Ahead(q)' \in Nat
    BY AheadTypes, AheadTypesNext
  <1>2. \A j \in Jobs : since[j] \in Nat
    BY DEF Basic, Typed
  <1>3. B \in Nat
    BY CrewFinite, Times, TimetableAssumption
  <1> HIDE DEF B
  <1>4. STALE_THRESHOLD \in Nat /\ REAPER_INTERVAL \in Nat
    BY DEF STALE_THRESHOLD, REAPER_INTERVAL
  <1>5. ASSUME NEW j \in Jobs, Orphan(j)'
        PROVE  /\ since'[j] <= row'[j].beat
               /\ nextReap'[q] >= 0 => since'[j] + nextReap'[q] <= STALE_THRESHOLD + REAPER_INTERVAL
               /\ nextReap'[q] = -1 => since'[j] + Ahead(q)' <= STALE_THRESHOLD + REAPER_INTERVAL + B
    <2>1. /\ since[j] <= row[j].beat
          /\ nextReap[q] >= 0 => since[j] + nextReap[q] <= STALE_THRESHOLD + REAPER_INTERVAL
          /\ nextReap[q] = -1 => since[j] + Ahead(q) <= STALE_THRESHOLD + REAPER_INTERVAL + B
      BY <1>5 DEF Found, B
    <2> QED
      BY <1>1, <1>2, <1>3, <1>4, <1>5, <2>1
  <1> QED
    BY <1>5 DEF Found, B

(* Orphans are neither made nor touched by steps of a living worker. *)
LEMMA CreateOrphans ==
  ASSUME Basic, NEW i \in Jobs, Create(i), NEW j \in Jobs, Orphan(j)'
  PROVE  Orphan(j) /\ since'[j] = since[j] /\ row'[j].beat = row[j].beat
  <1>1. i # j
    BY CreateFacts DEF Orphan
  <1>2. row'[j] = row[j] /\ pc' = pc /\ since' = since
    BY <1>1, CreateFacts DEF Basic, Typed
  <1> QED
    BY <1>2 DEF Orphan

LEMMA WorkerOrphans ==
  ASSUME Basic, NEW w \in Workers, Claim(w) \/ FindNothing(w) \/ Compute(w) \/ Finish(w),
         NEW j \in Jobs, Orphan(j)'
  PROVE  Orphan(j) /\ since'[j] = since[j] /\ row'[j].beat = row[j].beat
  <1>1. ASSUME Claim(w)
        PROVE  /\ pc'[w] # "dead" /\ \A v \in Workers \ {w} : pc'[v] = pc[v]
               /\ \E i \in Jobs : /\ row' = [row EXCEPT ![i] = row'[i]] /\ row'[i].owner = w
                                  /\ since' = [since EXCEPT ![i] = 0]
    BY <1>1, ClaimFacts DEF Basic, Typed
  <1>2. ASSUME Finish(w)
        PROVE  /\ pc'[w] # "dead" /\ \A v \in Workers \ {w} : pc'[v] = pc[v]
               /\ \E i \in Jobs : /\ row' = [row EXCEPT ![i] = row'[i]] /\ row'[i].status # "running"
                                  /\ since' = [since EXCEPT ![i] = 0]
    <2>1. PICK i \in Jobs :
           /\ hand[w] = i /\ row' = [row EXCEPT ![i] = Outcome(row[i])]
           /\ row'[i] = Outcome(row[i])
           /\ pc' = [pc EXCEPT ![w] = "idle"] /\ since' = [since EXCEPT ![i] = 0]
      BY <1>2, FinishFacts
    <2>2. Outcome(row[i]).status # "running"
      BY OutcomeFacts DEF Basic, Typed
    <2> QED
      BY <2>1, <2>2 DEF Basic, Typed
  <1>3. ASSUME FindNothing(w) \/ Compute(w)
        PROVE  /\ row' = row /\ since' = since
               /\ \A v \in Workers : pc'[v] = "dead" => pc[v] = "dead"
    BY <1>3, ComputeFacts DEF FindNothing, Basic, Typed
  <1>4. row'[j].owner \in Workers
    <2>1. Basic'
      BY ClaimBasic, FindNothingBasic, ComputeBasic, FinishBasic
    <2> QED
      BY <2>1 DEF Basic, Hands, Orphan
  <1>5. CASE Claim(w) \/ Finish(w)
    <2>1. PICK i \in Jobs : /\ row' = [row EXCEPT ![i] = row'[i]]
                            /\ row'[i].owner = w \/ row'[i].status # "running"
                            /\ since' = [since EXCEPT ![i] = 0]
      BY <1>1, <1>2, <1>5
    <2>2. pc'[w] # "dead" /\ \A v \in Workers \ {w} : pc'[v] = pc[v]
      BY <1>1, <1>2, <1>5
    <2>3. i # j
      BY <2>1, <2>2 DEF Orphan
    <2>4. row'[j] = row[j] /\ since'[j] = since[j]
      BY <2>1, <2>3 DEF Basic, Typed
    <2> QED
      BY <1>4, <2>2, <2>4 DEF Orphan
  <1>6. CASE FindNothing(w) \/ Compute(w)
    BY <1>3, <1>4, <1>6 DEF Orphan
  <1> QED
    BY <1>5, <1>6

LEMMA HeartbeatOrphans ==
  ASSUME Basic, NEW p \in Processes, Heartbeat(p), NEW j \in Jobs, Orphan(j)'
  PROVE  Orphan(j) /\ since'[j] = since[j] /\ row'[j].beat = row[j].beat
  <1>1. Orphan(j) /\ since'[j] = since[j]
    BY HeartbeatFacts DEF Orphan
  <1>2. row[j].owner \in Workers
    BY <1>1 DEF Orphan, Basic, Hands
  <1>3. ~Beats(p, row[j])
    BY <1>1, <1>2 DEF Beats, Heartbeat, Free, Orphan
  <1> QED
    BY <1>1, <1>3, HeartbeatFacts

LEMMA ReapOrphans ==
  ASSUME Basic, NEW p \in Processes, Reap(p), NEW j \in Jobs, Orphan(j)'
  PROVE  /\ Orphan(j) /\ since'[j] = since[j] /\ row'[j].beat = row[j].beat
         /\ row[j].beat <= STALE_THRESHOLD
  <1>1. ~Stale(row[j]) /\ pc' = pc
    BY ReapFacts DEF Orphan
  <1>2. row'[j] = row[j] /\ since'[j] = since[j]
    BY <1>1, ReapFacts
  <1>3. row[j].beat \in Int /\ row[j].status = "running"
    BY <1>2 DEF Basic, Typed, Rows, Orphan
  <1> QED
    BY <1>1, <1>2, <1>3 DEF Orphan, Stale, STALE_THRESHOLD

LEMMA CrashOrphans ==
  ASSUME Basic, NEW p \in Processes, Crash(p), NEW j \in Jobs, Orphan(j)'
  PROVE  /\ row'[j].beat = row[j].beat /\ row[j].beat >= 0
         /\ since'[j] = 0 \/ (Orphan(j) /\ since'[j] = since[j])
  <1>1. /\ row' = row /\ row[j].status = "running" /\ row[j].owner \in Workers
        /\ hand[row[j].owner] = j \/ pc[row[j].owner] = "dead"
        /\ row[j].beat >= 0
    BY CrashFacts DEF Orphan, Basic, Hands
  <1>2. CASE pc[row[j].owner] = "dead"
    BY <1>1, <1>2, CrashFacts, TimetableAssumption DEF Orphan
  <1>3. CASE pc[row[j].owner] # "dead"
    <2>1. row[j].owner \in Crew(p)
      BY <1>1, <1>3, CrashFacts DEF Orphan
    <2> QED
      BY <1>1, <1>3, <2>1, CrashFacts
  <1> QED
    BY <1>1, <1>2, <1>3

LEMMA ClaimFound ==
  ASSUME Basic, Basic', NEW q \in Processes, Found(q), NEW w \in Crew(q), Claim(w)
  PROVE  Found(q)'
  <1>1. nextReap'[q] = nextReap[q] /\ nextReap[q] >= 0
    BY DEF Claim, Crew
  <1>2. \A j \in Jobs : Orphan(j)' => /\ Orphan(j) /\ since'[j] = since[j]
                                      /\ row'[j].beat = row[j].beat
    BY WorkerOrphans DEF Crew
  <1> QED
    BY <1>1, <1>2 DEF Found

LEMMA ReapFound ==
  ASSUME Basic, NEW q \in Processes, Found(q), Reap(q)
  PROVE  Found(q)'
  <1>1. nextReap'[q] = REAPER_INTERVAL
    BY ReapFacts DEF Basic, Typed
  <1>2. \A j \in Jobs : since[j] \in Nat /\ row[j].beat \in Int
    BY DEF Basic, Typed, Rows
  <1>3. \A j \in Jobs : Orphan(j)' => /\ since'[j] <= row'[j].beat /\ row'[j].beat <= STALE_THRESHOLD
                                      /\ since'[j] \in Nat /\ row'[j].beat \in Int
    BY <1>2, ReapOrphans DEF Found
  <1> QED
    BY <1>1, <1>3 DEF Found, STALE_THRESHOLD, REAPER_INTERVAL

LEMMA CrashFound ==
  ASSUME Basic, Basic', NEW q \in Processes \ Mortal, Found(q), NEW p \in Processes, Crash(p)
  PROVE  Found(q)'
  <1> DEFINE B == MaxBlock * Cardinality(Crew(q))
  <1>1. p # q /\ nextReap'[q] = nextReap[q] /\ nextReap[q] <= REAPER_INTERVAL /\ nextReap[q] \in Int
    BY CrashFacts DEF Basic, Typed, REAPER_INTERVAL
  <1>2. Ahead(q)' = Ahead(q)
    <2>1. \A w \in Crew(q) : w \in Workers \ Crew(p)
      BY <1>1 DEF Crew
    <2> QED
      BY <2>1, CrashFacts, AheadSame
  <1>3. Ahead(q) \in Nat /\ Ahead(q) <= B /\ B \in Nat
    BY AheadTypes, CrewFinite, Times, TimetableAssumption
  <1> HIDE DEF B
  <1>4. ASSUME NEW j \in Jobs, Orphan(j)'
        PROVE  /\ since'[j] <= row'[j].beat
               /\ nextReap'[q] >= 0 => since'[j] + nextReap'[q] <= STALE_THRESHOLD + REAPER_INTERVAL
               /\ nextReap'[q] = -1 => since'[j] + Ahead(q)' <= STALE_THRESHOLD + REAPER_INTERVAL + B
    <2>1. /\ row'[j].beat = row[j].beat /\ row[j].beat >= 0
          /\ since'[j] = 0 \/ (Orphan(j) /\ since'[j] = since[j])
      BY <1>4, CrashOrphans
    <2>2. CASE since'[j] = 0
      BY <1>1, <1>2, <1>3, <2>1, <2>2 DEF STALE_THRESHOLD, REAPER_INTERVAL
    <2>3. CASE Orphan(j) /\ since'[j] = since[j]
      BY <1>1, <1>2, <2>1, <2>3 DEF Found, B
    <2> QED
      BY <2>1, <2>2, <2>3
  <1> QED
    BY <1>4 DEF Found, B

LEMMA TickFound ==
  ASSUME Basic, NEW q \in Processes \ Mortal, Found(q), Tick
  PROVE  Found(q)'
  <1> DEFINE B == MaxBlock * Cardinality(Crew(q))
  <1>1. Ahead(q) \in Nat /\ Ahead(q) <= B /\ B \in Nat
    BY AheadTypes, CrewFinite, Times, TimetableAssumption
  <1> HIDE DEF B
  <1>2. nextReap[q] \in Int /\ nextReap[q] >= -1 /\ nextReap[q] <= REAPER_INTERVAL
    BY DEF Basic, Typed, REAPER_INTERVAL
  <1>3. \A j \in Jobs : Orphan(j)' =>
          /\ since[j] \in Nat /\ since[j] <= row[j].beat
          /\ nextReap[q] >= 0 => since[j] + nextReap[q] <= STALE_THRESHOLD + REAPER_INTERVAL
          /\ nextReap[q] = -1 => since[j] + Ahead(q) <= STALE_THRESHOLD + REAPER_INTERVAL + B
          /\ since'[j] \in Int /\ since'[j] <= since[j] + 1 /\ since'[j] <= row'[j].beat
    <2>1. ASSUME NEW j \in Jobs, Orphan(j)'
          PROVE  Orphan(j) /\ since'[j] = Up(since[j]) /\ row'[j].beat = Up(row[j].beat)
                 /\ since[j] \in Nat /\ row[j].beat \in Int
      <3>1. Orphan(j)
        BY <2>1, TickFacts DEF Orphan
      <3>2. row[j].beat \in Int /\ row[j].beat >= 0 /\ since[j] \in Nat
        BY <3>1 DEF Orphan, Basic, Typed, Rows, Hands
      <3>3. ~Settled(j) /\ row[j].beat # NULL
        BY <3>1, <3>2 DEF Orphan, Settled, NULL
      <3> QED
        BY <3>1, <3>2, <3>3, TickFacts DEF Tick
    <2>2. \A x, y \in Int : x <= y => Up(x) <= Up(y)
      BY HorizonFacts DEF Up
    <2>3. \A j \in Jobs : Orphan(j) =>
            /\ since[j] <= row[j].beat
            /\ nextReap[q] >= 0 => since[j] + nextReap[q] <= STALE_THRESHOLD + REAPER_INTERVAL
            /\ nextReap[q] = -1 => since[j] + Ahead(q) <= STALE_THRESHOLD + REAPER_INTERVAL + B
      BY DEF Found, B
    <2>4. ASSUME NEW j \in Jobs, Orphan(j)'
          PROVE  since'[j] \in Int /\ since'[j] <= since[j] + 1 /\ since'[j] <= row'[j].beat
      <3>1. since[j] <= row[j].beat
        BY <2>1, <2>3, <2>4
      <3> QED
        BY <2>1, <2>2, <2>4, <3>1, UpFacts
    <2> QED
      BY <2>1, <2>3, <2>4
  <1>4. STALE_THRESHOLD = 6 /\ REAPER_INTERVAL = 3
    BY DEF STALE_THRESHOLD, REAPER_INTERVAL
  <1>5. CASE Free(q)
    <2>1. nextReap[q] > 0 /\ nextReap'[q] = nextReap[q] - 1
      <3>1. nextReap[q] > 0
        BY <1>5 DEF Tick
      <3>2. nextReap'[q] = Later(nextReap[q], 0) \/ nextReap'[q] = Later(nextReap[q], -1)
        BY DEF Tick
      <3> QED
        BY <1>2, <3>1, <3>2 DEF Later
    <2>2. \A j \in Jobs : Orphan(j)' =>
            since'[j] + nextReap'[q] <= STALE_THRESHOLD + REAPER_INTERVAL /\ nextReap'[q] # -1
      BY <1>2, <1>3, <1>4, <2>1
    <2> QED
      BY <1>3, <2>2 DEF Found, B
  <1>6. CASE ~Free(q)
    <2>1. ~Dead(q)
      BY <1>6 DEF Free, Dead, Basic, Loops
    <2>2. Ahead(q)' = Ahead(q) - 1
      BY <1>6, <2>1, AheadTick
    <2>3. nextReap'[q] = IF nextReap[q] > -1 THEN nextReap[q] - 1 ELSE nextReap[q]
      BY <2>1 DEF Tick, Later
    <2>4. ASSUME NEW j \in Jobs, Orphan(j)'
          PROVE  /\ since'[j] <= row'[j].beat
                 /\ nextReap'[q] >= 0 => since'[j] + nextReap'[q] <= STALE_THRESHOLD + REAPER_INTERVAL
                 /\ nextReap'[q] = -1 => since'[j] + Ahead(q)' <= STALE_THRESHOLD + REAPER_INTERVAL + B
      BY <1>1, <1>2, <1>3, <1>4, <2>2, <2>3, <2>4
    <2> QED
      BY <2>4 DEF Found, B
  <1> QED
    BY <1>5, <1>6

LEMMA NextFound ==
  ASSUME NEW q \in Processes \ Mortal
  PROVE  Basic /\ Found(q) /\ [Next]_vars => Found(q)'
  <1> SUFFICES ASSUME Basic, Found(q), [Next]_vars
               PROVE  Found(q)'
    OBVIOUS
  <1>0. Basic'
    BY NextBasic
  <1>1. CASE Tick
    BY <1>1, TickFound
  <1>2. ASSUME NEW w \in Crew(q), Claim(w)
        PROVE  Found(q)'
    BY <1>0, <1>2, ClaimFound
  <1>3. ASSUME NEW p \in Processes, Crash(p)
        PROVE  Found(q)'
    BY <1>0, <1>3, CrashFound
  <1>4. CASE Reap(q)
    BY <1>4, ReapFound
  <1>5. CASE UNCHANGED vars
    BY <1>5 DEF vars, Found, Orphan, Ahead, Doing, Kept, Computing, Starting
  <1>6. CASE ~Tick /\ (\A w \in Crew(q) : ~Claim(w)) /\ (\A p \in Processes : ~Crash(p)) /\ ~Reap(q)
             /\ ~UNCHANGED vars
    <2>1. Ahead(q)' <= Ahead(q)
      BY <1>6, AheadShrinks
    <2>2. /\ nextReap'[q] = nextReap[q]
          /\ \A j \in Jobs : Orphan(j)' => /\ Orphan(j) /\ since'[j] = since[j]
                                           /\ row'[j].beat = row[j].beat
      <3> DEFINE Same == /\ nextReap'[q] = nextReap[q]
                         /\ \A j \in Jobs : Orphan(j)' => /\ Orphan(j) /\ since'[j] = since[j]
                                                          /\ row'[j].beat = row[j].beat
      <3>1. ASSUME NEW i \in Jobs, Create(i)
            PROVE  Same
        <4>1. nextReap' = nextReap
          BY <3>1, CreateFacts
        <4>2. \A j \in Jobs : Orphan(j)' => /\ Orphan(j) /\ since'[j] = since[j]
                                            /\ row'[j].beat = row[j].beat
          BY <3>1, CreateOrphans
        <4> QED
          BY <4>1, <4>2
      <3>2. ASSUME NEW w \in Workers, Claim(w) \/ FindNothing(w) \/ Compute(w) \/ Finish(w)
            PROVE  Same
        BY <3>2, WorkerOrphans, Zenon DEF Claim, FindNothing, Compute, Finish
      <3>3. ASSUME NEW p \in Processes, Heartbeat(p)
            PROVE  Same
        BY <3>3, HeartbeatFacts, HeartbeatOrphans
      <3>4. ASSUME NEW p \in Processes \ {q}, Reap(p)
            PROVE  Same
        BY <3>4, ReapFacts, ReapOrphans DEF Basic, Typed
      <3> QED
        BY <1>6, <3>1, <3>2, <3>3, <3>4 DEF Next
    <2> QED
      BY <1>0, <2>1, <2>2, FoundSame
  <1> QED
    BY <1>1, <1>2, <1>3, <1>4, <1>5, <1>6

(* README.md:483 and _reap_stale_jobs: a job whose worker crashed is       *)
(* pending again after STALE_THRESHOLD, one REAPER_INTERVAL, and the       *)
(* handlers that keep the survivor's event loop, at the latest.            *)
THEOREM OrphansRecovered == Spec => []RecoveryBound
  <1>0. PICK q \in Processes \ Mortal : TRUE
    BY TimetableAssumption
  <1>1. Spec => [](Basic /\ Found(q))
    <2>1. Init => Found(q)
      BY InitFound
    <2>2. Basic /\ Found(q) /\ [Next]_vars => Found(q)'
      BY NextFound
    <2> QED
      BY <2>1, <2>2, BasicInvariance, PTL DEF Spec
  <1>2. Basic /\ Found(q) => RecoveryBound
    <2> SUFFICES ASSUME Basic, Found(q), NEW j \in Jobs, Orphan(j)
                 PROVE  since[j] <= LastOrphan
      BY DEF RecoveryBound
    <2> DEFINE B == MaxBlock * Cardinality(Crew(q))
    <2>1. B \in Nat /\ B <= LongestBlock /\ LongestBlock \in Nat /\ Ahead(q) \in Nat
      BY CrewFinite, Times, TimetableAssumption, LongestBlockFacts, AheadTypes
    <2> HIDE DEF B
    <2>2. since[j] \in Nat /\ nextReap[q] \in Int /\ nextReap[q] >= -1
      BY DEF Basic, Typed, REAPER_INTERVAL
    <2>3. /\ nextReap[q] >= 0 => since[j] + nextReap[q] <= STALE_THRESHOLD + REAPER_INTERVAL
          /\ nextReap[q] = -1 => since[j] + Ahead(q) <= STALE_THRESHOLD + REAPER_INTERVAL + B
      BY DEF Found, B
    <2> QED
      BY <2>1, <2>2, <2>3, HorizonFacts DEF STALE_THRESHOLD, REAPER_INTERVAL
  <1> QED
    BY <1>1, <1>2, PTL

-------------------------------------------------------------------------------
(* A living worker is never reaped.  Its heartbeat is younger than its     *)
(* loop's next round asks for, and when that round is overdue, or its own  *)
(* handler keeps the loop, younger than all that may keep it.              *)

BeatKept(w, j) ==
  /\ nextBeat[Home[w]] >= 0 => row[j].beat + nextBeat[Home[w]] <= HEARTBEAT_INTERVAL
  /\ pc[w] \in {"starting", "computing"} =>
       row[j].beat + Ahead(Home[w]) <= MaxBlock * Cardinality(Crew(Home[w]))
  /\ pc[w] = "awaiting" /\ nextBeat[Home[w]] = -1 =>
       row[j].beat + Ahead(Home[w]) <= HEARTBEAT_INTERVAL
                                       + MaxBlock * (Cardinality(Crew(Home[w])) - 1)

Has(w, j) == hand[w] = j /\ row[j].status = "running"

Beating == \A w \in Workers, j \in Jobs : Has(w, j) => BeatKept(w, j)

LEMMA InitBeating == Init => Beating
  BY AbsentFacts DEF Init, Beating, Has

LEMMA HasFacts ==
  ASSUME Basic, NEW w \in Workers, NEW j \in Jobs, Has(w, j)
  PROVE  /\ row[j].owner = w /\ pc[w] \in Executing
         /\ row[j].beat \in Nat /\ row[j].beat # NULL
         /\ Home[w] \in Processes /\ w \in Crew(Home[w])
         /\ nextBeat[Home[w]] \in Int /\ nextBeat[Home[w]] >= -1
         /\ nextBeat[Home[w]] <= HEARTBEAT_INTERVAL
  <1>1. row[j].owner = w /\ pc[w] \in Executing /\ row[j].beat >= 0
    BY DEF Basic, Hands, Has
  <1>2. row[j].beat \in Int /\ NULL = -1
    BY DEF Basic, Typed, Rows, NULL
  <1>3. Home[w] \in Processes /\ w \in Crew(Home[w])
    BY TimetableAssumption DEF Crew
  <1> QED
    BY <1>1, <1>2, <1>3 DEF Basic, Typed, HEARTBEAT_INTERVAL

(* The two lengths compared with. *)
LEMMA BlockTypes ==
  ASSUME NEW w \in Workers
  PROVE  /\ MaxBlock * Cardinality(Crew(Home[w])) \in Nat
         /\ MaxBlock * (Cardinality(Crew(Home[w])) - 1) \in Nat
  <1>1. w \in Crew(Home[w])
    BY DEF Crew
  <1>2. Cardinality(Crew(Home[w]) \ {w}) = Cardinality(Crew(Home[w])) - 1
    BY <1>1, CrewFinite, FS_RemoveElement
  <1>3. Cardinality(Crew(Home[w]) \ {w}) \in Nat
    BY CrewFinite, FS_Subset, FS_CardinalityType
  <1> QED
    BY <1>2, <1>3, CrewFinite, Times, TimetableAssumption

LEMMA BeatSame ==
  ASSUME Basic, Basic', NEW w \in Workers, NEW j \in Jobs, Has(w, j), BeatKept(w, j),
         Ahead(Home[w])' <= Ahead(Home[w]), nextBeat'[Home[w]] = nextBeat[Home[w]],
         row'[j].beat = row[j].beat,
         pc'[w] \in {"starting", "computing"} => pc[w] \in {"starting", "computing"},
         pc'[w] = "awaiting" => pc[w] = "awaiting"
  PROVE  BeatKept(w, j)'
  <1> DEFINE B == MaxBlock * Cardinality(Crew(Home[w]))
             C == MaxBlock * (Cardinality(Crew(Home[w])) - 1)
  <1>1. B \in Nat /\ C \in Nat /\ HEARTBEAT_INTERVAL = 2
    BY BlockTypes DEF HEARTBEAT_INTERVAL
  <1>2. Ahead(Home[w]) \in Nat /\ Ahead(Home[w])' \in Nat
    BY HasFacts, AheadTypes, AheadTypesNext
  <1>3. row[j].beat \in Nat /\ nextBeat[Home[w]] \in Int
    BY HasFacts
  <1> HIDE DEF B, C
  <1>4. pc'[w] \in {"starting", "computing"} => row'[j].beat + Ahead(Home[w])' <= B
    <2>1. pc[w] \in {"starting", "computing"} => row[j].beat + Ahead(Home[w]) <= B
      BY DEF BeatKept, B
    <2> QED
      BY <1>1, <1>2, <1>3, <2>1
  <1>5. pc'[w] = "awaiting" /\ nextBeat'[Home[w]] = -1 =>
          row'[j].beat + Ahead(Home[w])' <= HEARTBEAT_INTERVAL + C
    <2>1. pc[w] = "awaiting" /\ nextBeat[Home[w]] = -1 =>
            row[j].beat + Ahead(Home[w]) <= HEARTBEAT_INTERVAL + C
      BY DEF BeatKept, C
    <2> QED
      BY <1>1, <1>2, <1>3, <2>1
  <1> QED
    BY <1>4, <1>5 DEF BeatKept, B, C

(* A worker that has the job after a step, had it before, unless it        *)
(* claimed it; and only time and its own heartbeat change how old its      *)
(* heartbeat is.                                                           *)
LEMMA HasBefore ==
  ASSUME Basic, [Next]_vars, NEW w \in Workers, NEW j \in Jobs, Has(w, j)',
         ~Tick, ~Claim(w), ~Heartbeat(Home[w])
  PROVE  /\ Has(w, j) /\ row'[j].beat = row[j].beat /\ nextBeat'[Home[w]] = nextBeat[Home[w]]
         /\ pc'[w] = pc[w] \/ (pc[w] = "starting" /\ pc'[w] = "computing")
  <1> DEFINE Same == /\ Has(w, j) /\ row'[j].beat = row[j].beat
                     /\ nextBeat'[Home[w]] = nextBeat[Home[w]]
                     /\ pc'[w] = pc[w] \/ (pc[w] = "starting" /\ pc'[w] = "computing")
  <1>0. hand'[w] = j /\ row'[j].status = "running"
    BY DEF Has
  <1>1. ASSUME NEW i \in Jobs, Create(i)
        PROVE  Same
    <2>1. hand[w] = j /\ i # j
      BY <1>0, <1>1, CreateFacts DEF Basic, Hands
    <2>2. row'[j] = row[j]
      BY <1>1, <2>1, CreateFacts DEF Basic, Typed
    <2> QED
      BY <1>0, <1>1, <2>1, <2>2, CreateFacts DEF Has
  <1>2. ASSUME NEW v \in Workers, Claim(v)
        PROVE  Same
    <2>1. PICK i \in Jobs :
           /\ Claimable(i) /\ row' = [row EXCEPT ![i] = row'[i]]
           /\ hand' = [hand EXCEPT ![v] = i] /\ pc' = [pc EXCEPT ![v] = pc'[v]]
           /\ nextBeat' = nextBeat
      BY <1>2, ClaimFacts
    <2>2. v # w
      BY <1>2
    <2>3. hand[w] = j /\ pc'[w] = pc[w]
      BY <1>0, <2>1, <2>2 DEF Basic, Typed
    <2>4. i # j
      BY <2>1, <2>3 DEF Claimable
    <2>5. row'[j] = row[j]
      BY <2>1, <2>4 DEF Basic, Typed
    <2> QED
      BY <1>0, <2>1, <2>3, <2>5 DEF Has
  <1>3. ASSUME NEW v \in Workers, FindNothing(v)
        PROVE  Same
    BY <1>0, <1>3 DEF FindNothing, Has
  <1>4. ASSUME NEW v \in Workers, Compute(v)
        PROVE  Same
    BY <1>0, <1>4, ComputeFacts DEF Has, Basic, Typed
  <1>5. ASSUME NEW v \in Workers, Finish(v)
        PROVE  Same
    <2>1. PICK i \in Jobs :
           /\ hand[v] = i /\ row' = [row EXCEPT ![i] = Outcome(row[i])]
           /\ hand' = [hand EXCEPT ![v] = Nobody] /\ pc' = [pc EXCEPT ![v] = "idle"]
           /\ nextBeat' = nextBeat
      BY <1>5, FinishFacts
    <2>2. v # w
      BY <1>0, <2>1, TimetableAssumption DEF Basic, Typed
    <2>3. hand[w] = j /\ pc'[w] = pc[w]
      BY <1>0, <2>1, <2>2 DEF Basic, Typed
    <2>4. i # j
      BY <2>1, <2>2, <2>3 DEF Basic, Hands
    <2>5. row'[j] = row[j]
      BY <2>1, <2>4 DEF Basic, Typed
    <2> QED
      BY <1>0, <2>1, <2>3, <2>5 DEF Has
  <1>6. ASSUME NEW p \in Processes, Heartbeat(p)
        PROVE  Same
    <2>1. Has(w, j) /\ pc' = pc
      BY <1>0, <1>6, HeartbeatFacts DEF Has
    <2>2. p # Home[w] /\ row[j].owner = w /\ Home[w] \in Processes
      BY <1>6, <2>1, HasFacts
    <2> QED
      BY <1>6, <2>1, <2>2, HeartbeatFacts DEF Beats, Basic, Typed
  <1>7. ASSUME NEW p \in Processes, Reap(p)
        PROVE  Same
    <2>1. row'[j] = row[j]
      BY <1>0, <1>7, ReapFacts
    <2> QED
      BY <1>0, <1>7, <2>1, ReapFacts DEF Has
  <1>8. ASSUME NEW p \in Processes, Crash(p)
        PROVE  Same
    <2>1. w \notin Crew(p)
      BY <1>0, <1>8, CrashFacts, TimetableAssumption
    <2>2. p # Home[w] /\ Home[w] \in Processes
      BY <2>1, TimetableAssumption DEF Crew
    <2> QED
      BY <1>0, <1>8, <2>1, <2>2, CrashFacts DEF Has, Basic, Typed
  <1>9. ASSUME UNCHANGED vars
        PROVE  Same
    BY <1>0, <1>9 DEF vars, Has
  <1> HIDE DEF Same
  <1>10. Same
    BY <1>1, <1>2, <1>3, <1>4, <1>5, <1>6, <1>7, <1>8, <1>9 DEF Next
  <1> QED
    BY <1>10 DEF Same

LEMMA ClaimBeating ==
  ASSUME Basic, Basic', Beating, NEW v \in Workers, Claim(v),
         NEW w \in Crew(Home[v]), NEW j \in Jobs, Has(w, j)'
  PROVE  BeatKept(w, j)'
  <1> DEFINE B == MaxBlock * Cardinality(Crew(Home[w]))
  <1>1. w \in Workers /\ Home[w] = Home[v] /\ Home[w] \in Processes
    BY TimetableAssumption DEF Crew
  <1>2. /\ nextBeat[Home[w]] >= 0 /\ nextBeat[Home[w]] <= HEARTBEAT_INTERVAL
        /\ nextBeat[Home[w]] \in Int /\ nextBeat'[Home[w]] = nextBeat[Home[w]]
    BY <1>1 DEF Claim, Basic, Typed, HEARTBEAT_INTERVAL
  <1>3. Ahead(Home[w])' \in Nat /\ Ahead(Home[w])' <= B /\ B \in Nat
    BY <1>1, AheadTypesNext, BlockTypes
  <1> HIDE DEF B
  <1>4. PICK i \in Jobs :
           /\ Claimable(i) /\ row' = [row EXCEPT ![i] = row'[i]] /\ row'[i].beat = 0
           /\ hand' = [hand EXCEPT ![v] = i] /\ pc' = [pc EXCEPT ![v] = pc'[v]]
    BY ClaimFacts
  <1>5. CASE w = v
    <2>1. i = j
      BY <1>4, <1>5 DEF Has, Basic, Typed
    <2>2. row'[j].beat = 0
      BY <1>4, <2>1
    <2> QED
      BY <1>2, <1>3, <2>2 DEF BeatKept, B, HEARTBEAT_INTERVAL
  <1>6. CASE w # v
    <2>1. hand[w] = j /\ pc'[w] = pc[w]
      BY <1>1, <1>4, <1>6 DEF Has, Basic, Typed
    <2>2. i # j
      BY <1>1, <1>4, <2>1 DEF Claimable
    <2>3. row'[j] = row[j]
      BY <1>4, <2>2 DEF Basic, Typed
    <2>4. Has(w, j)
      BY <2>1, <2>3 DEF Has
    <2>5. row[j].beat + nextBeat[Home[w]] <= HEARTBEAT_INTERVAL
      BY <1>1, <1>2, <2>4 DEF Beating, BeatKept
    <2>6. pc[w] # "computing"
      BY <1>1 DEF Claim, Claiming, Free
    <2>7. pc[w] = "starting" => row[j].beat = 0
      <3>1. pc[w] = "starting" => row[j].beat <= 0
        BY <1>1, <2>1 DEF Claim, Begun
      <3> QED
        BY <1>1, <2>4, <3>1, HasFacts
    <2> QED
      BY <1>2, <1>3, <2>1, <2>3, <2>5, <2>6, <2>7 DEF BeatKept, B
  <1> QED
    BY <1>5, <1>6

LEMMA HeartbeatBeating ==
  ASSUME Basic, Basic', NEW w \in Workers, Heartbeat(Home[w]), NEW j \in Jobs, Has(w, j)'
  PROVE  BeatKept(w, j)'
  <1>1. Home[w] \in Processes
    BY TimetableAssumption
  <1>2. Has(w, j)
    BY <1>1, HeartbeatFacts DEF Has
  <1>3. row'[j].beat = 0
    <2>1. row[j].owner = w /\ w # Nobody /\ row[j].status = "running"
      BY <1>2, HasFacts, TimetableAssumption DEF Has
    <2> QED
      BY <1>1, <2>1, HeartbeatFacts DEF Beats
  <1>4. nextBeat'[Home[w]] = HEARTBEAT_INTERVAL
    BY <1>1, HeartbeatFacts DEF Basic, Typed
  <1>5. Ahead(Home[w])' \in Nat /\ Ahead(Home[w])' <= MaxBlock * Cardinality(Crew(Home[w]))
    BY <1>1, AheadTypesNext
  <1> QED
    BY <1>3, <1>4, <1>5, BlockTypes DEF BeatKept, HEARTBEAT_INTERVAL

LEMMA TickBeating ==
  ASSUME Basic, Beating, Tick, NEW w \in Workers, NEW j \in Jobs, Has(w, j)'
  PROVE  BeatKept(w, j)'
  <1> DEFINE B == MaxBlock * Cardinality(Crew(Home[w]))
             C == MaxBlock * (Cardinality(Crew(Home[w])) - 1)
             p == Home[w]
  <1>1. Has(w, j) /\ pc'[w] = pc[w]
    BY TickFacts DEF Has
  <1>2. /\ pc[w] \in Executing /\ row[j].beat \in Nat /\ p \in Processes /\ w \in Crew(p)
        /\ nextBeat[p] \in Int /\ nextBeat[p] >= -1 /\ nextBeat[p] <= HEARTBEAT_INTERVAL
        /\ row[j].beat # NULL
    BY <1>1, HasFacts
  <1>3. row'[j].beat \in Int /\ row'[j].beat <= row[j].beat + 1
    <2>1. ~Settled(j)
      BY <1>1 DEF Has, Settled
    <2> QED
      BY <1>2, <2>1, TickFacts, UpFacts
  <1>4. B \in Nat /\ C \in Nat /\ HEARTBEAT_INTERVAL = 2 /\ Ahead(p) \in Nat
    BY <1>2, BlockTypes, AheadTypes DEF HEARTBEAT_INTERVAL
  <1>5. pc[w] = "awaiting" => Ahead(p) <= C
    BY <1>2, AheadBounds
  <1>6. /\ nextBeat[p] >= 0 => row[j].beat + nextBeat[p] <= HEARTBEAT_INTERVAL
        /\ pc[w] \in {"starting", "computing"} => row[j].beat + Ahead(p) <= B
        /\ pc[w] = "awaiting" /\ nextBeat[p] = -1 => row[j].beat + Ahead(p) <= HEARTBEAT_INTERVAL + C
    BY <1>1 DEF Beating, BeatKept
  <1>7. ~Dead(p)
    BY <1>2 DEF Dead, Executing
  <1>8. nextBeat'[p] = IF nextBeat[p] > -1 THEN nextBeat[p] - 1 ELSE nextBeat[p]
    BY <1>2, <1>7 DEF Tick, Later
  <1> HIDE DEF B, C
  <1>9. /\ nextBeat'[p] >= 0 => row'[j].beat + nextBeat'[p] <= HEARTBEAT_INTERVAL
        /\ pc'[w] \in {"starting", "computing"} => row'[j].beat + Ahead(p)' <= B
        /\ pc'[w] = "awaiting" /\ nextBeat'[p] = -1 =>
             row'[j].beat + Ahead(p)' <= HEARTBEAT_INTERVAL + C
    <2>1. CASE Free(p)
      <3>1. nextBeat[p] > 0
        BY <1>2, <2>1 DEF Tick
      <3>2. pc[w] \notin {"starting", "computing"}
        BY <2>1 DEF Tick, Free
      <3> HIDE DEF p
      <3> QED
        BY <1>1, <1>2, <1>3, <1>4, <1>6, <1>8, <3>1, <3>2
    <2>2. CASE ~Free(p)
      <3>1. Ahead(p)' = Ahead(p) - 1
        BY <1>7, <2>2, AheadTick
      <3> HIDE DEF p
      <3> QED
        BY <1>1, <1>2, <1>3, <1>4, <1>5, <1>6, <1>8, <3>1
    <2> QED
      BY <2>1, <2>2
  <1> QED
    BY <1>9 DEF BeatKept, B, C

LEMMA NextBeating == Basic /\ Beating /\ [Next]_vars => Beating'
  <1> SUFFICES ASSUME Basic, Beating, [Next]_vars, NEW w \in Workers, NEW j \in Jobs, Has(w, j)'
               PROVE  BeatKept(w, j)'
    BY DEF Beating
  <1>0. Basic'
    BY NextBasic
  <1>1. CASE Tick
    BY <1>1, TickBeating
  <1>2. CASE Heartbeat(Home[w])
    BY <1>0, <1>2, HeartbeatBeating
  <1>3. ASSUME NEW v \in Crew(Home[w]), Claim(v)
        PROVE  BeatKept(w, j)'
    <2>1. v \in Workers /\ w \in Crew(Home[v])
      BY DEF Crew
    <2> QED
      BY <1>0, <1>3, <2>1, ClaimBeating
  <1>4. CASE ~Tick /\ ~Heartbeat(Home[w]) /\ \A v \in Crew(Home[w]) : ~Claim(v)
    <2>1. w \in Crew(Home[w]) /\ Home[w] \in Processes
      BY TimetableAssumption DEF Crew
    <2>2. /\ Has(w, j) /\ row'[j].beat = row[j].beat /\ nextBeat'[Home[w]] = nextBeat[Home[w]]
          /\ pc'[w] = pc[w] \/ (pc[w] = "starting" /\ pc'[w] = "computing")
      BY <1>4, <2>1, HasBefore
    <2>3. ~Crash(Home[w])
      BY <2>1, CrashFacts, TimetableAssumption DEF Has
    <2>4. Ahead(Home[w])' <= Ahead(Home[w])
      BY <1>4, <2>3, AheadShrinks
    <2>5. BeatKept(w, j)
      BY <2>2 DEF Beating
    <2> QED
      BY <1>0, <2>2, <2>4, <2>5, BeatSame
  <1> QED
    BY <1>1, <1>2, <1>3, <1>4

(* What the handlers of one process may do to its event loop between two   *)
(* of its heartbeats: all of them keep it, or all but one that awaits,     *)
(* begun when the heartbeat was due.                                       *)
LoopKept ==
  \A p \in Processes :
    /\ MaxBlock * Cardinality(Crew(p)) <= STALE_THRESHOLD
    /\ HEARTBEAT_INTERVAL + MaxBlock * (Cardinality(Crew(p)) - 1) <= STALE_THRESHOLD

(* README.md:483, _heartbeat_loop and _reap_stale_jobs: no job is taken    *)
(* from a worker that is alive.                                            *)
THEOREM LivingKept ==
  ASSUME LoopKept
  PROVE  Spec => HealthyNotReaped
  <1>1. Basic /\ Beating /\ [Next]_vars =>
     [\A w \in Workers :
       hand[w] \in Jobs /\ hand'[w] = hand[w] /\ row[hand[w]].status = "running"
       => row'[hand[w]].status = "running"]_vars
    <2> SUFFICES ASSUME Basic, Beating, [Next]_vars, NEW w \in Workers,
                        hand[w] \in Jobs, hand'[w] = hand[w], row[hand[w]].status = "running"
                 PROVE  row'[hand[w]].status = "running"
      OBVIOUS
    <2>0. PICK j \in Jobs : j = hand[w]
      OBVIOUS
    <2>1. row[j].beat <= STALE_THRESHOLD
      <3> DEFINE B == MaxBlock * Cardinality(Crew(Home[w]))
                 C == MaxBlock * (Cardinality(Crew(Home[w])) - 1)
      <3>1. Has(w, j)
        BY <2>0 DEF Has
      <3>2. /\ pc[w] \in Executing /\ row[j].beat \in Nat /\ Home[w] \in Processes
            /\ nextBeat[Home[w]] \in Int /\ nextBeat[Home[w]] >= -1
        BY <3>1, HasFacts
      <3>3. B \in Nat /\ C \in Nat /\ Ahead(Home[w]) \in Nat
        BY <3>2, BlockTypes, AheadTypes
      <3>4. B <= STALE_THRESHOLD /\ HEARTBEAT_INTERVAL + C <= STALE_THRESHOLD
        BY <3>2, LoopKept DEF LoopKept
      <3>5. /\ nextBeat[Home[w]] >= 0 => row[j].beat + nextBeat[Home[w]] <= HEARTBEAT_INTERVAL
            /\ pc[w] \in {"starting", "computing"} => row[j].beat + Ahead(Home[w]) <= B
            /\ pc[w] = "awaiting" /\ nextBeat[Home[w]] = -1 =>
                 row[j].beat + Ahead(Home[w]) <= HEARTBEAT_INTERVAL + C
        BY <3>1 DEF Beating, BeatKept
      <3> HIDE DEF B, C
      <3> QED
        BY <3>2, <3>3, <3>4, <3>5 DEF Executing, HEARTBEAT_INTERVAL, STALE_THRESHOLD
    <2>2. ASSUME NEW p \in Processes, Reap(p)
          PROVE  row'[j] = row[j]
      <3>1. ~Stale(row[j])
        BY <2>1 DEF Stale, STALE_THRESHOLD, Basic, Typed, Rows
      <3> QED
        BY <2>2, <3>1, ReapFacts
    <2>3. ASSUME NEW i \in Jobs, Create(i)
          PROVE  row'[j].status = "running"
      BY <2>0, <2>3, CreateFacts DEF Basic, Typed
    <2>4. ASSUME NEW v \in Workers, Claim(v)
          PROVE  row'[j].status = "running"
      BY <2>0, <2>4, ClaimFacts DEF Basic, Typed
    <2>5. ASSUME NEW v \in Workers, Finish(v)
          PROVE  row'[j].status = "running"
      <3>1. PICK i \in Jobs :
             /\ hand[v] = i /\ row' = [row EXCEPT ![i] = Outcome(row[i])]
             /\ hand' = [hand EXCEPT ![v] = Nobody]
        BY <2>5, FinishFacts
      <3>2. v # w
        BY <2>0, <3>1, TimetableAssumption DEF Basic, Typed
      <3>3. i # j
        BY <2>0, <3>1, <3>2 DEF Basic, Hands
      <3> QED
        BY <2>0, <3>1, <3>3 DEF Basic, Typed
    <2>6. ASSUME Tick \/ (\E v \in Workers : FindNothing(v) \/ Compute(v))
                 \/ (\E p \in Processes : Heartbeat(p) \/ Crash(p)) \/ UNCHANGED vars
          PROVE  row'[j].status = "running"
      BY <2>0, <2>6, TickFacts, ComputeFacts, HeartbeatFacts, CrashFacts DEF FindNothing, vars
    <2> QED
      BY <2>0, <2>2, <2>3, <2>4, <2>5, <2>6 DEF Next
  <1>2. Spec => []Beating
    BY InitBeating, NextBeating, BasicInvariance, PTL DEF Spec
  <1> QED
    BY <1>1, <1>2, BasicInvariance, PTL DEF Spec, HealthyNotReaped

-------------------------------------------------------------------------------
(* The clocks, and the back-off.  A job that has failed a times has been    *)
(* kept waiting 2^a - 1 ticks, the wait that is left included.             *)

Owed(r) == IF r.overdue < 0 THEN -r.overdue ELSE 0

PacedRow(r, s) ==
  /\ r.status # "absent" => 2^r.max_retries <= Horizon
  /\ r.status = "absent" => r.attempt = 0
  /\ r.status \in {"pending", "running"} =>
       /\ r.attempt = 0 \/ r.attempt < r.max_retries
       /\ s + Owed(r) >= 2^r.attempt - 1
  /\ r.status \in {"done", "dead"} =>
       /\ r.attempt = 1 \/ r.attempt \in 1 .. r.max_retries
       /\ s >= 2^(r.attempt - 1) - 1
  /\ r.overdue <= Horizon /\ r.beat >= NULL /\ r.beat <= Horizon

Paced == \A j \in Jobs : PacedRow(row[j], spent[j]) /\ spent[j] <= Horizon /\ since[j] <= Horizon

LEMMA InitPaced == Init => Paced
  <1>1. NULL = -1 /\ Horizon \in Nat
    BY HorizonFacts DEF NULL
  <1> QED
    BY <1>1, AbsentFacts DEF Init, Paced, PacedRow

(* A row that changes neither its status nor its counters. *)
LEMMA PacedSame ==
  ASSUME NEW r \in Rows, NEW n \in Rows, NEW s \in Nat, PacedRow(r, s),
         n.status = r.status \/ (r.status \in {"pending", "running"} /\ n.status \in {"pending", "running"}),
         n.attempt = r.attempt, n.max_retries = r.max_retries, n.overdue = r.overdue,
         n.beat >= NULL, n.beat <= Horizon
  PROVE  PacedRow(n, s)
  <1>1. Owed(n) = Owed(r)
    BY DEF Owed
  <1> QED
    BY <1>1, Zenon DEF PacedRow

(* Once it was due. *)
LEMMA PacedOutcome ==
  ASSUME NEW r \in Rows, NEW s \in Nat, PacedRow(r, s),
         r.status \in {"pending", "running"}, r.overdue >= 0
  PROVE  PacedRow(Outcome(r), s)
  <1> DEFINE o == Outcome(r)
             x == 2^r.attempt
  <1>1. /\ o \in Rows /\ o.attempt = r.attempt + 1 /\ o.max_retries = r.max_retries
        /\ \/ o.status \in {"done", "dead"} /\ o.overdue = 0
           \/ o.status = "pending" /\ o.overdue = -x /\ r.attempt + 1 < r.max_retries
    BY OutcomeFacts, BackoffFacts DEF Rows
  <1>2. r.attempt \in Nat /\ r.overdue \in Int /\ r.max_retries \in Nat
    BY DEF Rows
  <1>3. x \in Nat /\ 2^(r.attempt + 1) = 2 * x
    BY <1>2, PowerType, Doubling, Zenon
  <1>4. s >= x - 1 /\ (r.attempt = 0 \/ r.attempt < r.max_retries) /\ 2^r.max_retries <= Horizon
    <2>1. s + Owed(r) >= x - 1 /\ (r.attempt = 0 \/ r.attempt < r.max_retries)
          /\ 2^r.max_retries <= Horizon
      BY Zenon DEF PacedRow
    <2>2. Owed(r) = 0
      BY <1>2 DEF Owed
    <2> QED
      BY <1>3, <2>1, <2>2
  <1>5. o.beat >= NULL /\ o.beat <= Horizon
    <2>1. r.beat >= NULL /\ r.beat <= Horizon /\ o.beat \in {r.beat, NULL}
      BY OutcomeFacts, Zenon DEF PacedRow
    <2> QED
      BY <2>1, HorizonFacts DEF NULL
  <1>6. Horizon \in Nat
    BY HorizonFacts
  <1>7. 2^o.max_retries <= Horizon
    BY <1>1, <1>4, Zenon
  <1>8. CASE o.status \in {"done", "dead"} /\ o.overdue = 0
    <2>1. o.attempt = 1 \/ o.attempt \in 1 .. o.max_retries
      BY <1>1, <1>2, <1>4
    <2>2. o.attempt - 1 = r.attempt
      BY <1>1, <1>2
    <2>3. s >= 2^(o.attempt - 1) - 1
      BY <1>4, <2>2, Zenon
    <2>4. o.overdue <= Horizon /\ o.status \notin {"absent", "pending", "running"}
      BY <1>6, <1>8
    <2> QED
      BY <1>5, <1>7, <2>1, <2>3, <2>4, Zenon DEF PacedRow
  <1>9. CASE o.status = "pending" /\ o.overdue = -x /\ r.attempt + 1 < r.max_retries
    <2> DEFINE y == 2^o.attempt
    <2>1. y = 2 * x
      BY <1>1, <1>3, Zenon
    <2> HIDE DEF x, y
    <2>2. o.overdue <= Horizon /\ Owed(o) = x
      BY <1>3, <1>6, <1>9 DEF Owed
    <2>3. s + Owed(o) >= y - 1
      BY <1>3, <1>4, <2>1, <2>2
    <2>4. o.attempt < o.max_retries /\ o.status \notin {"absent", "done", "dead"}
      BY <1>1, <1>9
    <2>5. s + Owed(o) >= 2^o.attempt - 1
      BY <2>3 DEF y
    <2> QED
      BY <1>5, <1>7, <2>2, <2>4, <2>5, Zenon DEF PacedRow
  <1> QED
    BY <1>1, <1>8, <1>9

(* A tick, on a row that has not ended. *)
LEMMA PacedTick ==
  ASSUME NEW r \in Rows, NEW n \in Rows, NEW s \in Nat, s <= Horizon, PacedRow(r, s),
         r.status \in {"pending", "running"},
         n.status = r.status, n.attempt = r.attempt, n.max_retries = r.max_retries,
         n.overdue = Up(r.overdue), n.beat = IF r.beat = NULL THEN r.beat ELSE Up(r.beat)
  PROVE  PacedRow(n, Up(s))
  <1> DEFINE x == 2^r.attempt
             m == 2^r.max_retries
  <1>1. /\ r.attempt \in Nat /\ r.overdue \in Int /\ r.max_retries \in Nat /\ r.beat \in Int
        /\ NULL = -1 /\ Horizon \in Nat
    BY HorizonFacts DEF Rows, NULL
  <1>2. x \in Nat /\ m \in Nat
    BY <1>1, PowerType
  <1>3. /\ m <= Horizon
        /\ r.attempt = 0 \/ r.attempt < r.max_retries
        /\ s + Owed(r) >= x - 1
        /\ r.overdue <= Horizon /\ r.beat >= NULL /\ r.beat <= Horizon
    BY Zenon DEF PacedRow
  <1>4. x <= m
    <2>1. CASE r.attempt = 0
      <3>1. 0 <= r.max_retries /\ 0 \in Nat
        BY <1>1
      <3> QED
        BY <1>1, <2>1, <3>1, PowerMonotone, Zenon
    <2>2. CASE r.attempt < r.max_retries
      <3>1. r.attempt <= r.max_retries
        BY <1>1, <2>2
      <3> QED
        BY <1>1, <3>1, PowerMonotone, Zenon
    <2> QED
      BY <1>3, <2>1, <2>2
  <1> HIDE DEF x, m
  <1>5. Up(s) + Owed(n) >= x - 1
    <2>1. CASE s < Horizon
      <3>1. Up(s) = s + 1
        BY <2>1 DEF Up
      <3>2. Owed(n) >= Owed(r) - 1 /\ Owed(n) \in Int /\ Owed(r) \in Int
        BY <1>1 DEF Owed, Up
      <3> QED
        BY <1>2, <1>3, <3>1, <3>2
    <2>2. CASE s = Horizon
      <3>1. Up(s) = s
        BY <1>1, <2>2 DEF Up
      <3>2. Owed(n) >= 0 /\ Owed(n) \in Int
        BY <1>1 DEF Owed, Up
      <3> QED
        BY <1>1, <1>2, <1>3, <1>4, <2>2, <3>1, <3>2
    <2> QED
      BY <1>1, <2>1, <2>2
  <1>6. n.overdue <= Horizon /\ n.beat >= NULL /\ n.beat <= Horizon
    BY <1>1, <1>3 DEF Up
  <1>7. /\ 2^n.max_retries <= Horizon
        /\ Up(s) + Owed(n) >= 2^n.attempt - 1
    BY <1>3, <1>5, Zenon DEF x, m
  <1>8. n.attempt = 0 \/ n.attempt < n.max_retries
    BY <1>3
  <1>9. n.status \notin {"absent", "done", "dead"}
    OBVIOUS
  <1> QED
    BY <1>6, <1>7, <1>8, <1>9, Zenon DEF PacedRow

LEMMA PacedTypes ==
  ASSUME Basic, Paced, NEW j \in Jobs
  PROVE  /\ row[j] \in Rows /\ PacedRow(row[j], spent[j])
         /\ spent[j] \in Nat /\ spent[j] <= Horizon /\ since[j] \in Nat /\ since[j] <= Horizon
         /\ row[j].beat \in Int /\ row[j].beat >= NULL /\ row[j].beat <= Horizon
         /\ NULL = -1 /\ Horizon \in Nat /\ Horizon > 0
  <1>1. PacedRow(row[j], spent[j]) /\ spent[j] <= Horizon /\ since[j] <= Horizon
    BY DEF Paced
  <1>2. row[j].beat >= NULL /\ row[j].beat <= Horizon
    BY <1>1, Zenon DEF PacedRow
  <1>3. Horizon > 0
    BY HorizonFacts, LongestBlockFacts DEF STALE_THRESHOLD, REAPER_INTERVAL
  <1> QED
    BY <1>1, <1>2, <1>3, HorizonFacts DEF Basic, Typed, Rows, NULL

LEMMA CreatePaced == ASSUME Basic, Paced, NEW j \in Jobs, Create(j) PROVE Paced'
  <1>1. /\ row'[j] \in Rows /\ row'[j].status = "pending" /\ row'[j].attempt = 0
        /\ row'[j].beat = NULL
        /\ \A i \in Jobs \ {j} : row'[i] = row[i]
        /\ since' = since /\ spent' = spent
    BY CreateFacts DEF Basic, Typed
  <1>2. PICK r \in Requests : row'[j].max_retries = r.max_retries /\ row'[j].overdue = -r.delay
    BY CreateFacts
  <1>3. /\ spent[j] \in Nat /\ NULL = -1 /\ Horizon \in Nat /\ r.delay \in Nat
    BY PacedTypes, TimetableAssumption DEF JobCreate
  <1>4. 2^0 = 1
    BY SMT
  <1>5. spent[j] + Owed(row'[j]) >= 2^0 - 1
    <2>1. Owed(row'[j]) \in Nat
      BY <1>2, <1>3 DEF Owed
    <2> QED
      BY <1>3, <1>4, <2>1
  <1>6. 2^row'[j].max_retries <= Horizon
    BY <1>2, HorizonFacts, Zenon
  <1>7. /\ row'[j].overdue <= Horizon /\ row'[j].beat >= NULL /\ row'[j].beat <= Horizon
        /\ row'[j].status \notin {"absent", "done", "dead"}
    BY <1>1, <1>2, <1>3
  <1>8. spent[j] + Owed(row'[j]) >= 2^row'[j].attempt - 1
    BY <1>1, <1>5, Zenon
  <1>9. PacedRow(row'[j], spent[j])
    BY <1>1, <1>6, <1>7, <1>8, Zenon DEF PacedRow
  <1> QED
    BY <1>1, <1>9 DEF Paced

LEMMA WorkerPaced ==
  ASSUME Basic, Paced, NEW w \in Workers, Claim(w) \/ FindNothing(w) \/ Compute(w) \/ Finish(w)
  PROVE  Paced'
  <1>1. CASE Claim(w)
    <2>1. PICK j \in Jobs :
           /\ Claimable(j)
           /\ row'[j] \in Rows /\ row' = [row EXCEPT ![j] = row'[j]]
           /\ row'[j].status = "running" /\ row'[j].beat = 0
           /\ row'[j].overdue = row[j].overdue /\ row'[j].attempt = row[j].attempt
           /\ row'[j].max_retries = row[j].max_retries
           /\ since' = [since EXCEPT ![j] = 0] /\ spent' = spent
      BY <1>1, ClaimFacts
    <2>2. /\ \A i \in Jobs \ {j} : row'[i] = row[i] /\ since'[i] = since[i]
          /\ since'[j] = 0
      BY <2>1 DEF Basic, Typed
    <2>3. PacedRow(row'[j], spent[j])
      <3>1. row[j].status = "pending"
        BY <2>1 DEF Claimable
      <3> QED
        BY <2>1, <3>1, PacedTypes, PacedSame
    <2> QED
      BY <2>1, <2>2, <2>3, PacedTypes DEF Paced
  <1>2. CASE FindNothing(w) \/ Compute(w)
    BY <1>2, ComputeFacts DEF FindNothing, Paced
  <1>3. CASE Finish(w)
    <2>1. PICK j \in Jobs :
           /\ hand[w] = j /\ row' = [row EXCEPT ![j] = Outcome(row[j])]
           /\ row'[j] = Outcome(row[j])
           /\ since' = [since EXCEPT ![j] = 0] /\ spent' = spent
      BY <1>3, FinishFacts
    <2>2. /\ \A i \in Jobs \ {j} : row'[i] = row[i] /\ since'[i] = since[i]
          /\ since'[j] = 0
      BY <2>1 DEF Basic, Typed
    <2>3. row[j].status \in {"pending", "running"} /\ row[j].overdue >= 0
      BY <2>1 DEF Basic, Hands
    <2>4. PacedRow(row'[j], spent[j])
      BY <2>1, <2>3, PacedTypes, PacedOutcome
    <2> QED
      BY <2>1, <2>2, <2>4, PacedTypes DEF Paced
  <1> QED
    BY <1>1, <1>2, <1>3

LEMMA ProcessPaced ==
  ASSUME Basic, Paced, NEW p \in Processes, Heartbeat(p) \/ Reap(p) \/ Crash(p)
  PROVE  Paced'
  <1> SUFFICES ASSUME NEW j \in Jobs
               PROVE  PacedRow(row'[j], spent[j]) /\ since'[j] <= Horizon /\ spent'[j] = spent[j]
    BY PacedTypes DEF Paced
  <1>1. CASE Heartbeat(p)
    <2>1. /\ row'[j] \in Rows /\ row'[j].status = row[j].status
          /\ row'[j].overdue = row[j].overdue /\ row'[j].attempt = row[j].attempt
          /\ row'[j].max_retries = row[j].max_retries
          /\ row'[j].beat = 0 \/ row'[j].beat = row[j].beat
          /\ since' = since /\ spent' = spent
      BY <1>1, HeartbeatFacts
    <2> QED
      BY <2>1, PacedTypes, PacedSame
  <1>2. CASE Reap(p)
    <2>1. CASE Stale(row[j])
      <3>1. /\ row'[j] \in Rows /\ row[j].status = "running" /\ row'[j].status = "pending"
            /\ row'[j].overdue = row[j].overdue /\ row'[j].attempt = row[j].attempt
            /\ row'[j].max_retries = row[j].max_retries
            /\ row'[j].beat = NULL /\ since'[j] = 0 /\ spent' = spent
        BY <1>2, <2>1, ReapFacts
      <3> QED
        BY <3>1, PacedTypes, PacedSame
    <2>2. CASE ~Stale(row[j])
      BY <1>2, <2>2, ReapFacts, PacedTypes
    <2> QED
      BY <2>1, <2>2
  <1>3. CASE Crash(p)
    BY <1>3, CrashFacts, PacedTypes
  <1> QED
    BY <1>1, <1>2, <1>3

LEMMA TickPaced == ASSUME Basic, Paced, Tick PROVE Paced'
  <1> SUFFICES ASSUME NEW j \in Jobs
               PROVE  PacedRow(row'[j], spent'[j]) /\ since'[j] <= Horizon /\ spent'[j] <= Horizon
    BY DEF Paced
  <1>1. since'[j] <= Horizon
    <2>1. since'[j] = since[j] \/ since'[j] = Up(since[j])
      BY DEF Tick
    <2> QED
      BY <2>1, PacedTypes, UpFacts
  <1>2. /\ row'[j] \in Rows /\ row'[j].status = row[j].status
        /\ row'[j].attempt = row[j].attempt /\ row'[j].max_retries = row[j].max_retries
    BY TickFacts
  <1>3. CASE Settled(j)
    <2>1. row'[j].overdue = row[j].overdue /\ row'[j].beat = row[j].beat /\ spent'[j] = spent[j]
      BY <1>3, TickFacts DEF Tick
    <2> QED
      BY <1>1, <1>2, <2>1, PacedTypes, PacedSame
  <1>4. CASE ~Settled(j)
    <2>1. /\ row'[j].overdue = Up(row[j].overdue) /\ spent'[j] = Up(spent[j])
          /\ row'[j].beat = IF row[j].beat = NULL THEN row[j].beat ELSE Up(row[j].beat)
      BY <1>4, TickFacts DEF Tick
    <2>2. row[j].status \in {"pending", "running"}
      BY <1>4 DEF Settled, Basic, Typed, Rows
    <2>3. PacedRow(row'[j], Up(spent[j]))
      BY <1>2, <2>1, <2>2, PacedTypes, PacedTick
    <2>4. Up(spent[j]) <= Horizon
      BY PacedTypes, UpFacts
    <2> QED
      BY <1>1, <2>1, <2>3, <2>4
  <1> QED
    BY <1>3, <1>4

LEMMA PacedInvariance == Spec => []Paced
  <1>1. Basic /\ Paced /\ [Next]_vars => Paced'
    <2> SUFFICES ASSUME Basic, Paced, [Next]_vars
                 PROVE  Paced'
      OBVIOUS
    <2>1. CASE UNCHANGED vars
      BY <2>1 DEF vars, Paced
    <2> QED
      BY <2>1, TickPaced, CreatePaced, WorkerPaced, ProcessPaced DEF Next
  <1> QED
    BY <1>1, InitPaced, BasicInvariance, PTL DEF Spec

(* README.md:47, the exponential back-off of _handle_failure: however      *)
(* often a job is reaped, claimed and retried, no retry starts early.      *)
THEOREM RetriesBackOff == Spec => []BackoffKept
  <1>1. Basic /\ Paced => BackoffKept
    <2> SUFFICES ASSUME Basic, Paced, NEW j \in Jobs, row[j].status \in {"running", "done", "dead"}
                 PROVE  spent[j] >= (2 ^ (row[j].attempt - IF row[j].status = "running" THEN 0 ELSE 1)
                                     - 1) * BASE_DELAY
      BY Zenon DEF BackoffKept
    <2>1. row[j].attempt \in Nat /\ spent[j] \in Nat /\ PacedRow(row[j], spent[j])
      BY PacedTypes DEF Rows
    <2>2. PICK f \in Nat : f = row[j].attempt - IF row[j].status = "running" THEN 0 ELSE 1
      <3>1. row[j].status # "running" => row[j].attempt >= 1
        BY <2>1 DEF PacedRow
      <3> QED
        BY <2>1, <3>1
    <2>3. spent[j] >= 2^f - 1
      <3>1. CASE row[j].status = "running"
        <4>1. row[j].overdue >= 0 /\ Owed(row[j]) = 0
          <5>1. row[j].overdue >= 0
            BY <3>1 DEF Basic, Hands
          <5>2. row[j].overdue \in Int
            BY DEF Basic, Typed, Rows
          <5> QED
            BY <5>1, <5>2 DEF Owed
        <4>2. spent[j] + 0 >= 2^row[j].attempt - 1
          BY <2>1, <3>1, <4>1, Zenon DEF PacedRow
        <4>3. row[j].attempt = f /\ spent[j] + 0 = spent[j]
          BY <2>1, <2>2, <3>1
        <4> QED
          BY <4>2, <4>3, Zenon
      <3>2. CASE row[j].status # "running"
        <4>1. row[j].attempt - 1 = f
          BY <2>2, <3>2
        <4>2. row[j].status \in {"done", "dead"}
          BY <3>2
        <4> QED
          BY <2>1, <4>1, <4>2, Zenon DEF PacedRow
      <3> QED
        BY <3>1, <3>2
    <2> DEFINE x == 2^f
    <2>4. x \in Nat
      BY PowerType
    <2> HIDE DEF x
    <2>5. spent[j] >= (x - 1) * 1
      BY <2>1, <2>3, <2>4 DEF x
    <2> QED
      BY <2>2, <2>5, Zenon DEF x, BASE_DELAY
  <1> QED
    BY <1>1, BasicInvariance, PacedInvariance, PTL

(* Types, and that no clock passes the horizon before all that the other   *)
(* properties compare has happened.                                        *)
THEOREM ClocksTyped == Spec => []TypeOK
  <1>1. Basic /\ Paced => TypeOK
    <2> SUFFICES ASSUME Basic, Paced
                 PROVE  TypeOK
      OBVIOUS
    <2>1. ASSUME NEW j \in Jobs
          PROVE  /\ row[j].status \in {"absent", "pending", "running", "done", "dead"}
                 /\ row[j].attempt \in {0, 1} \cup 0 .. row[j].max_retries
                 /\ row[j].overdue \in Int /\ row[j].overdue <= Horizon
                 /\ row[j].beat \in NULL .. Horizon
                 /\ row[j].owner \in Workers \cup {Nobody}
                 /\ since[j] \in 0 .. Horizon /\ spent[j] \in 0 .. Horizon
      <3>1. row[j] \in Rows /\ PacedRow(row[j], spent[j])
        BY PacedTypes
      <3>2. /\ row[j].attempt \in Nat /\ row[j].max_retries \in Nat /\ row[j].overdue \in Int
            /\ row[j].status \in {"absent", "pending", "running", "done", "dead"}
            /\ row[j].owner \in Workers \cup {Nobody}
        BY <3>1 DEF Rows
      <3>3. \/ row[j].attempt = 0 \/ row[j].attempt < row[j].max_retries
            \/ row[j].attempt = 1 \/ row[j].attempt \in 1 .. row[j].max_retries
        BY <3>1, <3>2, Zenon DEF PacedRow
      <3>4. row[j].overdue <= Horizon
        BY <3>1, Zenon DEF PacedRow
      <3> QED
        BY <3>2, <3>3, <3>4, PacedTypes
    <2> QED
      BY <2>1 DEF TypeOK, Basic, Typed, Hands, Executing
  <1> QED
    BY <1>1, BasicInvariance, PacedInvariance, PTL
===============================================================================
