----------------------------- MODULE ApiReads_proofs -----------------------------
(***************************************************************************)
(* Theorems about ApiReads, for every finite set of jobs and any number of *)
(* requests, limits and offsets: what several queries of one request show  *)
(* together, while the tables move between them.                           *)
(***************************************************************************)
EXTENDS ApiReads, FiniteSetTheorems, TLAPS

-------------------------------------------------------------------------------
(* The tables.  They are moved by JobLifecycle alone.                      *)

Job == [status : Statuses \cup {"unborn", "deleted"}, attempt : Nat, max_retries : Nat]

(* A dead job has its dead letter, and no job has two. *)
TablesOK ==
  /\ job \in [Jobs -> Job]
  /\ letters \in [Jobs -> {<<>>} \cup {<<a>> : a \in Nat}]
  /\ \A j \in Jobs : /\ job[j].status = "dead" => letters[j] # <<>>
                     /\ letters[j] # <<>> => job[j].status \in {"dead", "deleted"}

(* The status and attempts of one row. *)
LEMMA MoveType ==
  ASSUME job \in [Jobs -> Job], NEW j \in Jobs, NEW from, NEW to \in Statuses,
         Tables!Move(j, from, to) \/ Tables!MoveCounted(j, from, to)
  PROVE  /\ job' \in [Jobs -> Job]
         /\ job[j].status \in from
         /\ job'[j].status = to
         /\ \A k \in Jobs \ {j} : job'[k] = job[k]
  <1>1. job[j] \in Job /\ job[j].attempt + 1 \in Nat
    BY DEF Job
  <1>2. CASE Tables!Move(j, from, to)
    BY <1>1, <1>2 DEF Job, Tables!Move
  <1>3. CASE Tables!MoveCounted(j, from, to)
    <2>1. PICK r \in Job : r = [job[j] EXCEPT !.status = to]
      BY <1>1 DEF Job
    <2>2. PICK q \in Job : q = [r EXCEPT !.attempt = r.attempt + 1]
      BY <1>1, <2>1 DEF Job
    <2>3. job' = [job EXCEPT ![j] = q]
      BY <1>3, <2>1, <2>2 DEF Tables!MoveCounted
    <2> QED
      BY <1>3, <2>1, <2>2, <2>3 DEF Tables!MoveCounted, Job
  <1> QED
    BY <1>2, <1>3

(* Every statement keeps the tables in order, and done and dead are final. *)
LEMMA TablesMove ==
  ASSUME TablesOK, [Tables!Next]_tables
  PROVE  /\ TablesOK'
         /\ \A j \in Jobs : job[j].status \in Terminal => job'[j].status = job[j].status
  <1> USE DEF TablesOK, Terminal, Statuses
  <1>1. ASSUME NEW j \in Jobs, Tables!Create(j)
        PROVE  /\ TablesOK'
               /\ \A k \in Jobs : job[k].status \in Terminal => job'[k].status = job[k].status
    BY <1>1, RetryLimitsAssumption DEF Tables!Create, Tables!State, Job
  <1>2. ASSUME NEW j \in Jobs, Tables!Cancel(j)
        PROVE  /\ TablesOK'
               /\ \A k \in Jobs : job[k].status \in Terminal => job'[k].status = job[k].status
    BY <1>2 DEF Tables!Cancel, Tables!State, Job
  <1>3. ASSUME NEW j \in Jobs, Tables!Claim(j) \/ Tables!Begin(j)
        PROVE  /\ TablesOK'
               /\ \A k \in Jobs : job[k].status \in Terminal => job'[k].status = job[k].status
    BY <1>3, MoveType DEF Tables!Claim, Tables!Begin
  <1>4. ASSUME NEW j \in Jobs, Tables!Finish(j) \/ Tables!Retry(j)
        PROVE  /\ TablesOK'
               /\ \A k \in Jobs : job[k].status \in Terminal => job'[k].status = job[k].status
    BY <1>4, MoveType DEF Tables!Finish, Tables!Retry
  <1>5. ASSUME NEW j \in Jobs, Tables!Bury(j)
        PROVE  /\ TablesOK'
               /\ \A k \in Jobs : job[k].status \in Terminal => job'[k].status = job[k].status
    <2>1. /\ job' \in [Jobs -> Job]
          /\ job[j].status \in {"running", "pending"}
          /\ job'[j].status = "dead"
          /\ \A k \in Jobs \ {j} : job'[k] = job[k]
      BY <1>5, MoveType DEF Tables!Bury
    <2>2. letters[j] = <<>> /\ job[j].attempt + 1 \in Nat
      <3>1. job[j] \in Job
        OBVIOUS
      <3>2. job[j].attempt + 1 \in Nat
        BY <3>1 DEF Job
      <3> QED
        BY <2>1, <3>2
    <2>3. \A a \in Nat : Append(<<>>, a) = <<a>> /\ <<a>> # <<>>
      OBVIOUS
    <2>4. letters' = [letters EXCEPT ![j] = <<job[j].attempt + 1>>]
      BY <1>5, <2>2, <2>3 DEF Tables!Bury
    <2> QED
      BY <2>1, <2>2, <2>3, <2>4
  <1>6. ASSUME NEW j \in Jobs, Tables!BuryCancelled(j)
        PROVE  /\ TablesOK'
               /\ \A k \in Jobs : job[k].status \in Terminal => job'[k].status = job[k].status
    <2>1. PICK m \in RetryLimits : letters' = [letters EXCEPT ![j] = <<Tables!Budget(m)>>]
      BY <1>6 DEF Tables!BuryCancelled
    <2>2. Tables!Budget(m) \in Nat
      BY RetryLimitsAssumption DEF Tables!Budget
    <2> QED
      BY <1>6, <2>1, <2>2 DEF Tables!BuryCancelled
  <1>7. ASSUME NEW js \in SUBSET Jobs, Tables!Reclaim(js)
        PROVE  /\ TablesOK'
               /\ \A k \in Jobs : job[k].status \in Terminal => job'[k].status = job[k].status
    BY <1>7 DEF Tables!Reclaim, Job
  <1>8. CASE UNCHANGED tables
    BY <1>8 DEF tables
  <1> QED
    BY <1>1, <1>2, <1>3, <1>4, <1>5, <1>6, <1>7, <1>8 DEF Tables!Next

-------------------------------------------------------------------------------
(* Counting.                                                               *)

(* Every count is a number, and one of more statuses is no smaller.        *)
LEMMA Counts ==
  ASSUME NEW ss, NEW tt, ss \subseteq tt
  PROVE  /\ IsFiniteSet(WithStatus(ss))
         /\ Counted(ss) \in Nat /\ Counted(tt) \in Nat
         /\ Counted(ss) <= Counted(tt)
  <1>1. WithStatus(ss) \subseteq WithStatus(tt) /\ WithStatus(tt) \subseteq Jobs
    BY DEF WithStatus
  <1>2. IsFiniteSet(WithStatus(tt))
    BY <1>1, JobsAssumption, FS_Subset
  <1>3. IsFiniteSet(WithStatus(ss)) /\ Cardinality(WithStatus(ss)) <= Cardinality(WithStatus(tt))
    BY <1>1, <1>2, FS_Subset
  <1> QED
    BY <1>2, <1>3, FS_CardinalityType DEF Counted

(* The jobs that are finished only grow in number. *)
LEMMA FinalCountsGrow ==
  ASSUME TablesOK, [Tables!Next]_tables, NEW ss \in SUBSET Terminal
  PROVE  Counted(ss)' \in Nat /\ Counted(ss) <= Counted(ss)'
  <1>1. WithStatus(ss) \subseteq WithStatus(ss)' /\ WithStatus(ss)' \subseteq Jobs
    BY TablesMove DEF WithStatus
  <1>2. IsFiniteSet(WithStatus(ss)')
    BY <1>1, JobsAssumption, FS_Subset
  <1>3. Cardinality(WithStatus(ss)) <= Cardinality(WithStatus(ss)')
    BY <1>1, <1>2, FS_Subset
  <1> QED
    BY <1>2, <1>3, FS_CardinalityType DEF Counted

(* One snapshot of the two final statuses adds up. *)
LEMMA FinalCountsAdd == Counted({"done"}) + Counted({"dead"}) = Counted(Terminal)
  <1> DEFINE S == WithStatus({"done"})
             T == WithStatus({"dead"})
  <1>1. IsFiniteSet(S) /\ IsFiniteSet(T)
    BY Counts
  <1>2. S \cup T = WithStatus(Terminal) /\ S \cap T = {}
    BY DEF WithStatus, Terminal
  <1>3. Cardinality(S \cup T) = Cardinality(S) + Cardinality(T) - Cardinality(S \cap T)
    BY <1>1, FS_Union
  <1>4. Cardinality(S) \in Nat /\ Cardinality(T) \in Nat /\ Cardinality({}) = 0
    BY <1>1, FS_CardinalityType, FS_EmptySet
  <1>5. /\ Counted({"done"}) = Cardinality(S) /\ Counted({"dead"}) = Cardinality(T)
        /\ Counted(Terminal) = Cardinality(S \cup T)
    BY <1>2 DEF Counted
  <1>6. Cardinality(S \cap T) = 0
    BY <1>2, <1>4
  <1> HIDE DEF S, T
  <1> QED
    BY <1>3, <1>4, <1>5, <1>6

(* The rows of dead_letter_jobs: at least one for each dead job. *)
LEMMA LettersCount ==
  ASSUME TablesOK
  PROVE  /\ Cardinality(LetterRows) \in Nat
         /\ Counted({"dead"}) <= Cardinality(LetterRows)
  <1> DEFINE D == WithStatus({"dead"})
  <1>1. LetterRows \subseteq Jobs \X {1}
    BY DEF TablesOK, LetterRows
  <1>2. D \X {1} \subseteq LetterRows
    <2>1. ASSUME NEW j \in D
          PROVE  <<j, 1>> \in {j} \X DOMAIN letters[j]
      <3>1. PICK a \in Nat : letters[j] = <<a>>
        BY DEF TablesOK, WithStatus
      <3> QED
        BY <3>1
    <2> QED
      BY <2>1 DEF WithStatus, LetterRows
  <1>3. IsFiniteSet(LetterRows)
    BY <1>1, JobsAssumption, FS_Singleton, FS_Product, FS_Subset
  <1>4. Cardinality(D \X {1}) = Counted({"dead"})
    <2>1. IsFiniteSet(D) /\ Cardinality(D) \in Nat /\ Cardinality(D) = Counted({"dead"})
      BY Counts DEF Counted
    <2>2. IsFiniteSet({1}) /\ Cardinality({1}) = 1
      BY FS_Singleton
    <2> HIDE DEF D
    <2>3. Cardinality(D \X {1}) = Cardinality(D) * Cardinality({1})
      BY <2>1, <2>2, FS_Product
    <2> QED
      BY <2>1, <2>2, <2>3
  <1> QED
    BY <1>2, <1>3, <1>4, FS_CardinalityType, FS_Subset

-------------------------------------------------------------------------------
(* The requests.                                                           *)

(* Which endpoint passes which point. *)
Route == [idle |-> {"none"}, depth |-> {"metrics", "scrape"}, gauges |-> {"metrics", "scrape"},
          recent |-> {"metrics"}, terminal |-> {"metrics"}, errored |-> {"metrics"},
          average |-> {"metrics"}, total |-> {"metrics"}, letters |-> {"metrics"},
          running |-> {"scrape"}, render |-> {"scrape"},
          matches |-> {"list"}, page |-> {"list"}, answered |-> {"metrics", "scrape", "list"}]

(* The points of get_metrics that come after a query. *)
After == [terminal |-> {"errored", "average", "total", "letters", "answered"},
          errored |-> {"average", "total", "letters", "answered"},
          average |-> {"total", "letters", "answered"},
          total |-> {"letters", "answered"},
          letters |-> {"answered"}]

Past(r, query) == kind[r] = "metrics" /\ at[r] \in After[query]

(* What a request saw of finished jobs is still there. *)
SeenOK(r) ==
  /\ \A s \in Terminal : depth[r][s] <= Counted({s})
  /\ count[r]["recent"] <= Counted(Terminal)
  /\ count[r]["terminal"] <= Counted(Terminal)
  /\ count[r]["errored"] <= Counted({"dead"})
  /\ /\ at[r] = "page"
     /\ wanted[r].filter \subseteq Terminal
     => count[r]["matches"] <= Counted(wanted[r].filter)

(* So each answer bounds the answers before it. *)
OrderOK(r) ==
  /\ Past(r, "terminal") => /\ depth[r]["done"] + depth[r]["dead"] <= count[r]["terminal"]
                            /\ count[r]["recent"] <= count[r]["terminal"]
  /\ Past(r, "errored") => depth[r]["dead"] <= count[r]["errored"]
  /\ Past(r, "average") => depth[r]["done"] <= count[r]["average"]
  /\ Past(r, "total") => count[r]["terminal"] <= count[r]["total"]
  /\ Past(r, "letters") => count[r]["errored"] <= count[r]["letters"]

PageOK(r) ==
  /\ kind[r] = "list" => wanted[r].limit > 0
  /\ /\ Answered(r, "list")
     /\ wanted[r].filter \subseteq Terminal
     /\ wanted[r].offset < count[r]["matches"]
     => count[r]["page"] > 0

RequestOK(r) == kind[r] \in Route[at[r]] /\ SeenOK(r) /\ OrderOK(r) /\ PageOK(r)

ReadInv ==
  /\ TypeOK
  /\ TablesOK
  /\ FinalGaugesLag
  /\ \A r \in Requests : RequestOK(r)

LEMMA InitReads == Init => ReadInv
  <1> SUFFICES ASSUME Init
               PROVE  ReadInv
    OBVIOUS
  <1> USE DEF Init, Tables!Init, Tables!State
  <1>1. TypeOK
    BY DEF TypeOK, Page, Points
  <1>2. TablesOK
    BY DEF TablesOK, Job
  <1>3. \A ss : Counted(ss) \in Nat
    BY Counts
  <1>4. FinalGaugesLag
    BY <1>3 DEF FinalGaugesLag, Terminal, Statuses
  <1>5. ASSUME NEW r \in Requests
        PROVE  RequestOK(r)
    BY <1>3 DEF RequestOK, Route, SeenOK, OrderOK, PageOK, Past, Answered, Terminal, Statuses,
                Queries
  <1> QED
    BY <1>1, <1>2, <1>4, <1>5 DEF ReadInv

(* The tables move: nothing that was seen of finished jobs goes away.      *)
LEMMA MoveReads ==
  ASSUME ReadInv, MoveTables \/ UNCHANGED vars
  PROVE  ReadInv'
  <1> USE DEF ReadInv
  <1>1. /\ [Tables!Next]_tables
        /\ gauge' = gauge /\ active' = active /\ at' = at /\ kind' = kind
        /\ wanted' = wanted /\ depth' = depth /\ count' = count
    BY DEF MoveTables, vars, tables
  <1>2. TypeOK'
    BY <1>1 DEF TypeOK
  <1>3. TablesOK'
    BY <1>1, TablesMove
  <1>4. \A ss \in SUBSET Terminal :
          Counted(ss) \in Nat /\ Counted(ss)' \in Nat /\ Counted(ss) <= Counted(ss)'
    BY <1>1, Counts, FinalCountsGrow
  <1>5. \A s \in Terminal : {s} \in SUBSET Terminal /\ s \in Statuses
    BY DEF Terminal, Statuses
  <1>6. FinalGaugesLag'
    <2> SUFFICES ASSUME NEW s \in Terminal
                 PROVE  gauge'[s] <= Counted({s})'
      BY DEF FinalGaugesLag
    <2>1. gauge[s] \in Nat /\ gauge[s] <= Counted({s})
      BY <1>5 DEF FinalGaugesLag, TypeOK
    <2> QED
      BY <1>1, <1>4, <1>5, <2>1
  <1>7. ASSUME NEW r \in Requests
        PROVE  RequestOK(r)'
    <2>1. /\ depth[r] \in [Statuses -> Nat] /\ count[r] \in [Queries -> Nat]
          /\ SeenOK(r)
      BY DEF TypeOK, RequestOK
    <2>2. SeenOK(r)'
      BY <1>1, <1>4, <1>5, <2>1 DEF SeenOK, Queries, Terminal
    <2> QED
      BY <1>1, <2>2 DEF RequestOK, OrderOK, PageOK, Past, Answered
  <1> QED
    BY <1>2, <1>3, <1>6, <1>7

(* A request that runs leaves the tables alone, and the other requests.    *)
LEMMA RequestRuns ==
  ASSUME ReadInv, TypeOK', FinalGaugesLag', UNCHANGED tables, NEW r \in Requests,
         \A v \in Requests \ {r} :
           /\ at'[v] = at[v] /\ kind'[v] = kind[v] /\ wanted'[v] = wanted[v]
           /\ depth'[v] = depth[v] /\ count'[v] = count[v],
         RequestOK(r)'
  PROVE  ReadInv'
  <1>1. TablesOK'
    BY DEF ReadInv, TablesOK, tables
  <1>2. \A ss : Counted(ss)' = Counted(ss)
    BY DEF Counted, WithStatus, tables
  <1>3. ASSUME NEW v \in Requests \ {r}
        PROVE  RequestOK(v)'
    BY <1>2, <1>3 DEF ReadInv, RequestOK, SeenOK, OrderOK, PageOK, Past, Answered
  <1> QED
    BY <1>1, <1>3 DEF ReadInv

(* The same for a query whose answer only its own request sees. *)
LEMMA AnswerKept ==
  ASSUME ReadInv, NEW r \in Requests, NEW query \in Queries, NEW n \in Nat,
         NEW next \in Points, Answer(r, query, n, next),
         RequestOK(r)'
  PROVE  ReadInv'
  <1>1. TypeOK' /\ FinalGaugesLag'
    BY DEF ReadInv, TypeOK, FinalGaugesLag, Answer, tables, Counted, WithStatus
  <1> QED
    BY <1>1, RequestRuns DEF ReadInv, TypeOK, Answer

(* What the request itself sees of that. *)
Answers(r, query, n, next) ==
  /\ count'[r][query] = n
  /\ \A q \in Queries \ {query} : count'[r][q] = count[r][q]
  /\ at[r] = query /\ at'[r] = next /\ kind[r] \in Route[query]
  /\ kind' = kind /\ wanted' = wanted /\ depth' = depth
  /\ \A ss : Counted(ss)' = Counted(ss) /\ Counted(ss) \in Nat
  /\ \A q \in Queries : count[r][q] \in Nat
  /\ \A s \in Statuses : depth[r][s] \in Nat
  /\ SeenOK(r) /\ OrderOK(r) /\ PageOK(r)

LEMMA AnswerFacts ==
  ASSUME ReadInv, NEW r \in Requests, NEW query \in Queries, NEW n,
         NEW next, Answer(r, query, n, next)
  PROVE  Answers(r, query, n, next)
  <1>1. \A ss : Counted(ss) \in Nat
    BY Counts
  <1>2. \A ss : Counted(ss)' = Counted(ss)
    BY DEF Answer, Counted, WithStatus, tables
  <1> QED
    BY <1>1, <1>2 DEF Answers, ReadInv, RequestOK, TypeOK, Answer

(* A query of get_metrics, whose answer is one of a request for metrics    *)
(* that is not over before the last of them.                               *)
LEMMA MetricsAnswer ==
  ASSUME ReadInv, NEW r \in Requests,
         NEW query \in {"recent", "terminal", "errored", "average", "total", "letters"},
         NEW n \in Nat, NEW next \in {"terminal", "errored", "average", "total", "letters", "answered"},
         next \in Points, Answer(r, query, n, next), SeenOK(r)', OrderOK(r)'
  PROVE  ReadInv'
  <1>1. query \in Queries
    BY DEF Queries
  <1>2. Answers(r, query, n, next)
    BY <1>1, AnswerFacts
  <1>3. kind[r] = "metrics"
    BY <1>2 DEF Answers, Route
  <1>4. PageOK(r)'
    BY <1>2, <1>3 DEF Answers, PageOK, Answered
  <1>5. kind'[r] \in Route[at'[r]]
    BY <1>2, <1>3 DEF Answers, Route
  <1>6. RequestOK(r)'
    BY <1>4, <1>5 DEF RequestOK
  <1> QED
    BY <1>1, <1>6, AnswerKept

(* GET /metrics: the queries after the gauges. *)
LEMMA MetricsSteps ==
  ASSUME ReadInv, NEW r \in Requests
  PROVE  /\ QueryRecent(r) \/ QueryTerminal(r) \/ QueryErrored(r) => ReadInv'
         /\ QueryAverage(r) \/ QueryTotal(r) \/ QueryLetters(r) => ReadInv'
  <1>1. CASE QueryRecent(r)
    <2>1. PICK n \in 0 .. Counted({"done"}) : Answer(r, "recent", n, "terminal")
      BY <1>1 DEF QueryRecent
    <2>2. n \in Nat /\ n <= Counted({"done"}) /\ Counted({"done"}) <= Counted(Terminal)
      BY Counts DEF Terminal
    <2>3. Answers(r, "recent", n, "terminal")
      BY <2>1, AnswerFacts DEF Queries
    <2>4. SeenOK(r)'
      BY <2>2, <2>3 DEF Answers, SeenOK, Queries, Terminal, Statuses
    <2>5. OrderOK(r)'
      BY <2>2, <2>3 DEF Answers, SeenOK, OrderOK, Past, After, Queries, Terminal, Statuses
    <2> QED
      BY <2>1, <2>2, <2>4, <2>5, MetricsAnswer DEF Points, Queries
  <1>2. CASE QueryTerminal(r)
    <2>1. Answer(r, "terminal", Counted(Terminal), "errored")
      BY <1>2 DEF QueryTerminal
    <2>2. Counted(Terminal) \in Nat /\ Counted({"done"}) + Counted({"dead"}) = Counted(Terminal)
      BY Counts, FinalCountsAdd
    <2>3. Answers(r, "terminal", Counted(Terminal), "errored")
      BY <2>1, AnswerFacts DEF Queries
    <2>4. SeenOK(r)'
      BY <2>2, <2>3 DEF Answers, SeenOK, Queries, Terminal, Statuses
    <2>5. OrderOK(r)'
      BY <2>2, <2>3 DEF Answers, SeenOK, OrderOK, Past, After, Queries, Terminal, Statuses
    <2> QED
      BY <2>1, <2>2, <2>4, <2>5, MetricsAnswer DEF Points, Queries
  <1>3. CASE QueryErrored(r)
    <2>1. Answer(r, "errored", Counted({"dead"}), "average")
      BY <1>3 DEF QueryErrored
    <2>2. Counted({"dead"}) \in Nat
      BY Counts
    <2>3. Answers(r, "errored", Counted({"dead"}), "average")
      BY <2>1, AnswerFacts DEF Queries
    <2>4. SeenOK(r)'
      BY <2>2, <2>3 DEF Answers, SeenOK, Queries, Terminal, Statuses
    <2>5. OrderOK(r)'
      BY <2>2, <2>3 DEF Answers, SeenOK, OrderOK, Past, After, Queries, Terminal, Statuses
    <2> QED
      BY <2>1, <2>2, <2>4, <2>5, MetricsAnswer DEF Points, Queries
  <1>4. CASE QueryAverage(r)
    <2>1. Answer(r, "average", Counted({"done"}), "total")
      BY <1>4 DEF QueryAverage
    <2>2. Counted({"done"}) \in Nat
      BY Counts
    <2>3. Answers(r, "average", Counted({"done"}), "total")
      BY <2>1, AnswerFacts DEF Queries
    <2>4. SeenOK(r)'
      BY <2>2, <2>3 DEF Answers, SeenOK, Queries, Terminal, Statuses
    <2>5. OrderOK(r)'
      BY <2>2, <2>3 DEF Answers, SeenOK, OrderOK, Past, After, Queries, Terminal, Statuses
    <2> QED
      BY <2>1, <2>2, <2>4, <2>5, MetricsAnswer DEF Points, Queries
  <1>5. CASE QueryTotal(r)
    <2>1. Answer(r, "total", Counted(Statuses), "letters")
      BY <1>5 DEF QueryTotal
    <2>2. Counted(Statuses) \in Nat /\ Counted(Terminal) <= Counted(Statuses)
      BY Counts DEF Terminal, Statuses
    <2>3. Answers(r, "total", Counted(Statuses), "letters")
      BY <2>1, AnswerFacts DEF Queries
    <2>4. SeenOK(r)'
      BY <2>2, <2>3 DEF Answers, SeenOK, Queries, Terminal, Statuses
    <2>5. OrderOK(r)'
      BY <2>2, <2>3 DEF Answers, SeenOK, OrderOK, Past, After, Queries, Terminal, Statuses
    <2> QED
      BY <2>1, <2>2, <2>4, <2>5, MetricsAnswer DEF Points, Queries
  <1>6. CASE QueryLetters(r)
    <2>1. Answer(r, "letters", Cardinality(LetterRows), "answered")
      BY <1>6 DEF QueryLetters
    <2>2. /\ Cardinality(LetterRows) \in Nat
          /\ Counted({"dead"}) <= Cardinality(LetterRows)
      BY LettersCount DEF ReadInv
    <2>3. Answers(r, "letters", Cardinality(LetterRows), "answered")
      BY <2>1, AnswerFacts DEF Queries
    <2>4. SeenOK(r)'
      BY <2>2, <2>3 DEF Answers, SeenOK, Queries, Terminal, Statuses
    <2>5. OrderOK(r)'
      BY <2>2, <2>3 DEF Answers, SeenOK, OrderOK, Past, After, Queries, Terminal, Statuses
    <2> QED
      BY <2>1, <2>2, <2>4, <2>5, MetricsAnswer DEF Points, Queries
  <1> QED
    BY <1>1, <1>2, <1>3, <1>4, <1>5, <1>6

(* GET /jobs: the page starts below a total that did not shrink since.     *)
LEMMA ListSteps ==
  ASSUME ReadInv, NEW r \in Requests, QueryMatches(r) \/ QueryPage(r)
  PROVE  ReadInv'
  <1> DEFINE m == Counted(wanted[r].filter)
  <1>0. m \in Nat /\ wanted[r] \in Page
    BY Counts DEF ReadInv, TypeOK
  <1>1. CASE QueryMatches(r)
    <2>1. Answer(r, "matches", m, "page")
      BY <1>1 DEF QueryMatches
    <2>2. Answers(r, "matches", m, "page")
      BY <2>1, AnswerFacts DEF Queries
    <2>3. kind[r] = "list"
      BY <2>2 DEF Answers, Route
    <2>4. SeenOK(r)'
      BY <2>2 DEF Answers, SeenOK, Queries, Terminal, Statuses
    <2>5. OrderOK(r)' /\ PageOK(r)' /\ kind'[r] \in Route[at'[r]]
      BY <2>2, <2>3 DEF Answers, OrderOK, PageOK, Past, Answered, Route
    <2>6. RequestOK(r)'
      BY <2>4, <2>5 DEF RequestOK
    <2> QED
      BY <1>0, <2>1, <2>6, AnswerKept DEF Queries, Points
  <1>2. CASE QueryPage(r)
    <2> DEFINE n == PageLength(m, wanted[r])
    <2>1. Answer(r, "page", n, "answered")
      BY <1>2 DEF QueryPage
    <2>2. wanted[r].limit \in Nat /\ wanted[r].offset \in Nat
      BY <1>0 DEF Page
    <2>3. /\ n \in Nat
          /\ wanted[r].offset < m /\ wanted[r].limit > 0 => n > 0
      BY <1>0, <2>2 DEF PageLength
    <2> HIDE DEF n, m
    <2>4. Answers(r, "page", n, "answered")
      BY <2>1, AnswerFacts DEF Queries
    <2>5. kind[r] = "list" /\ wanted[r].limit > 0
      BY <2>4 DEF Answers, Route, PageOK
    <2>6. wanted[r].filter \subseteq Terminal => count[r]["matches"] <= m
      BY <2>4 DEF Answers, SeenOK, m
    <2>7. SeenOK(r)'
      BY <2>4 DEF Answers, SeenOK, Queries, Terminal, Statuses
    <2>8. OrderOK(r)' /\ kind'[r] \in Route[at'[r]]
      BY <2>4, <2>5 DEF Answers, OrderOK, Past, Route
    <2>9. count'[r]["matches"] = count[r]["matches"] /\ count[r]["matches"] \in Nat
      BY <2>4 DEF Answers, Queries
    <2>10. count'[r]["page"] = n /\ wanted'[r] = wanted[r]
      BY <2>4 DEF Answers
    <2>11. PageOK(r)'
      BY <1>0, <2>2, <2>3, <2>5, <2>6, <2>9, <2>10 DEF PageOK
    <2>12. RequestOK(r)'
      BY <2>7, <2>8, <2>11 DEF RequestOK
    <2> QED
      BY <2>1, <2>3, <2>12, AnswerKept DEF Queries, Points
  <1> QED
    BY <1>1, <1>2

(* Every request begins with a query that has seen nothing yet. *)
LEMMA AskSteps ==
  ASSUME ReadInv, NEW r \in Requests, AskMetrics(r) \/ AskScrape(r) \/ AskList(r)
  PROVE  ReadInv'
  <1>1. PICK k \in {"metrics", "scrape", "list"} : \E first \in {"depth", "matches"} :
          /\ Ask(r, k, first) /\ k \in Route[first]
          /\ wanted' = [wanted EXCEPT ![r] = wanted'[r]] /\ wanted'[r] \in Page
          /\ k = "list" => wanted'[r].limit > 0
    <2>1. CASE AskMetrics(r) \/ AskScrape(r)
      BY <2>1 DEF ReadInv, TypeOK, AskMetrics, AskScrape, Route
    <2>2. CASE AskList(r)
      <3>1. PICK f \in SUBSET Statuses, l \in Limits, o \in Offsets :
              wanted' = [wanted EXCEPT ![r] = [filter |-> f, limit |-> l, offset |-> o]]
        BY <2>2 DEF AskList
      <3>2. wanted'[r] = [filter |-> f, limit |-> l, offset |-> o]
        BY <3>1 DEF ReadInv, TypeOK
      <3>3. l \in Nat /\ l > 0 /\ o \in Nat
        BY LimitsAssumption, OffsetsAssumption
      <3>4. wanted'[r] \in Page /\ wanted'[r].limit > 0
        BY <3>2, <3>3 DEF Page
      <3>5. Ask(r, "list", "matches") /\ "list" \in Route["matches"]
        BY <2>2 DEF AskList, Route
      <3>6. wanted' = [wanted EXCEPT ![r] = wanted'[r]]
        BY <3>1, <3>2
      <3> QED
        BY <3>4, <3>5, <3>6
    <2> QED
      BY <2>1, <2>2
  <1>2. /\ at[r] = "idle" /\ at'[r] \in {"depth", "matches"} /\ kind'[r] = k
        /\ k \in Route[at'[r]]
        /\ at' = [at EXCEPT ![r] = at'[r]] /\ kind' = [kind EXCEPT ![r] = k]
        /\ gauge' = gauge /\ active' = active /\ depth' = depth /\ count' = count
        /\ UNCHANGED tables
    BY <1>1 DEF Ask, ReadInv, TypeOK
  <1>3. TypeOK'
    <2>1. at' \in [Requests -> Points]
      BY <1>2 DEF ReadInv, TypeOK, Points, Queries
    <2>2. kind' \in [Requests -> {"none", "metrics", "scrape", "list"}]
      BY <1>2 DEF ReadInv, TypeOK
    <2>3. wanted' \in [Requests -> Page]
      BY <1>1 DEF ReadInv, TypeOK
    <2> QED
      BY <1>2, <2>1, <2>2, <2>3 DEF ReadInv, TypeOK
  <1>4. \A ss : Counted(ss)' = Counted(ss)
    BY <1>2 DEF Counted, WithStatus, tables
  <1>5. FinalGaugesLag'
    BY <1>2, <1>4 DEF ReadInv, FinalGaugesLag
  <1>6. RequestOK(r)'
    BY <1>1, <1>2, <1>4
    DEF ReadInv, RequestOK, Route, SeenOK, OrderOK, PageOK, Past, After, Answered
  <1> QED
    BY <1>1, <1>2, <1>3, <1>5, <1>6, RequestRuns DEF ReadInv, TypeOK

(* The groups of the depth query are what the gauges are set to, later and *)
(* perhaps after those of another request.                                 *)
LEMMA DepthSteps ==
  ASSUME ReadInv, NEW r \in Requests,
         QueryDepth(r) \/ SetGauges(r) \/ QueryRunning(r) \/ Render(r)
  PROVE  ReadInv'
  <1> USE DEF ReadInv
  <1>0. \A ss : Counted(ss)' = Counted(ss) /\ Counted(ss) \in Nat
    <2>1. job' = job
      BY DEF QueryDepth, SetGauges, QueryRunning, Render, Answer, tables
    <2> QED
      BY <2>1, Counts DEF Counted, WithStatus
  <1>1. /\ SeenOK(r) /\ OrderOK(r) /\ PageOK(r) /\ kind[r] \in Route[at[r]]
        /\ depth[r] \in [Statuses -> Nat] /\ count[r] \in [Queries -> Nat]
    BY DEF RequestOK, TypeOK
  <1>2. CASE QueryDepth(r)
    <2> DEFINE d == [s \in Statuses |-> Counted({s})]
    <2>1. /\ at[r] = "depth" /\ at' = [at EXCEPT ![r] = "gauges"] /\ at'[r] = "gauges"
          /\ depth' = [depth EXCEPT ![r] = d] /\ depth'[r] = d /\ d \in [Statuses -> Nat]
          /\ UNCHANGED <<tables, gauge, active, kind, wanted, count>>
      BY <1>0, <1>2 DEF QueryDepth, TypeOK
    <2>2. \A s \in Terminal : d[s] = Counted({s})
      BY DEF Terminal, Statuses
    <2> HIDE DEF d
    <2>3. TypeOK'
      BY <2>1 DEF TypeOK, Points
    <2>4. FinalGaugesLag'
      BY <1>0, <2>1 DEF FinalGaugesLag
    <2>5. SeenOK(r)' /\ kind'[r] \in Route[at'[r]]
      BY <1>0, <1>1, <2>1, <2>2 DEF SeenOK, Route
    <2>6. RequestOK(r)'
      BY <1>1, <2>1, <2>5 DEF RequestOK, OrderOK, PageOK, Past, After, Answered
    <2> QED
      BY <2>1, <2>3, <2>4, <2>6, RequestRuns DEF TypeOK
  <1>3. CASE SetGauges(r)
    <2>1. /\ at[r] = "gauges" /\ at' = [at EXCEPT ![r] = at'[r]]
          /\ at'[r] = IF kind[r] = "metrics" THEN "recent" ELSE "running"
          /\ gauge' = SetTo(depth[r])
          /\ active' = IF kind[r] = "metrics" THEN depth[r]["running"] ELSE active
          /\ UNCHANGED <<tables, kind, wanted, depth, count>>
      BY <1>3 DEF SetGauges, TypeOK
    <2>2. TypeOK'
      <3>1. gauge' \in [Statuses -> Nat] /\ active' \in Nat
        BY <1>1, <2>1 DEF TypeOK, SetTo, Statuses
      <3> QED
        BY <2>1, <3>1 DEF TypeOK, Points, Queries
    <2>3. FinalGaugesLag'
      BY <1>0, <1>1, <2>1 DEF FinalGaugesLag, SeenOK, SetTo, Terminal, Statuses
    <2>4. kind[r] \in {"metrics", "scrape"}
      BY <1>1, <2>1 DEF Route
    <2>5. SeenOK(r)' /\ kind'[r] \in Route[at'[r]]
      BY <1>0, <1>1, <2>1, <2>4 DEF SeenOK, Route
    <2>6. RequestOK(r)'
      BY <1>1, <2>1, <2>4, <2>5 DEF RequestOK, OrderOK, PageOK, Past, After, Answered
    <2> QED
      BY <2>1, <2>2, <2>3, <2>6, RequestRuns DEF TypeOK
  <1>4. CASE QueryRunning(r)
    <2>1. Answer(r, "running", Counted({"running"}), "render")
      BY <1>4 DEF QueryRunning
    <2>2. RequestOK(r)'
      BY <2>1, AnswerFacts
      DEF Answers, Queries, RequestOK, Route, SeenOK, OrderOK, PageOK, Past, After, Answered
    <2> QED
      BY <1>0, <2>1, <2>2, AnswerKept DEF Queries, Points
  <1>5. CASE Render(r)
    <2>1. /\ at[r] = "render" /\ at' = [at EXCEPT ![r] = "answered"] /\ at'[r] = "answered"
          /\ active' = count[r]["running"]
          /\ UNCHANGED <<tables, gauge, kind, wanted, depth, count>>
      BY <1>5 DEF Render, TypeOK
    <2>2. TypeOK'
      BY <1>1, <2>1 DEF TypeOK, Points, Queries
    <2>3. FinalGaugesLag'
      BY <1>0, <2>1 DEF FinalGaugesLag
    <2>4. kind[r] = "scrape"
      BY <1>1, <2>1 DEF Route
    <2>5. SeenOK(r)' /\ kind'[r] \in Route[at'[r]]
      BY <1>0, <1>1, <2>1, <2>4 DEF SeenOK, Route
    <2>6. RequestOK(r)'
      BY <1>1, <2>1, <2>4, <2>5 DEF RequestOK, OrderOK, PageOK, Past, After, Answered
    <2> QED
      BY <2>1, <2>2, <2>3, <2>6, RequestRuns DEF TypeOK
  <1> QED
    BY <1>2, <1>3, <1>4, <1>5

LEMMA NextReads == ReadInv /\ [Next]_vars => ReadInv'
  BY MoveReads, AskSteps, DepthSteps, MetricsSteps, ListSteps DEF Next, Serve

LEMMA ReadInvariance == Spec => []ReadInv
  BY InitReads, NextReads, PTL DEF Spec

-------------------------------------------------------------------------------
(* What the run checks, for every value of the constants.                  *)

(* Every answer, gauge and page parameter keeps its type: counts are       *)
(* numbers, the page length among them, whatever limit and offset are.     *)
THEOREM ReadsTyped == Spec => []TypeOK
  <1>1. ReadInv => TypeOK
    BY DEF ReadInv
  <1> QED
    BY <1>1, ReadInvariance, PTL

(* The seven snapshots of one MetricsResponse never contradict each other  *)
(* about finished jobs (get_metrics): each count bounds those before it.   *)
THEOREM MetricsAgree == Spec => []MetricsConsistent
  <1>1. ReadInv => MetricsConsistent
    BY DEF ReadInv, RequestOK, OrderOK, Past, After, Answered, MetricsConsistent
  <1> QED
    BY <1>1, ReadInvariance, PTL

(* The Prometheus gauges of done and dead jobs never show more than there  *)
(* are, in whatever order concurrent requests set them.                    *)
THEOREM GaugesOnlyLag == Spec => []FinalGaugesLag
  <1>1. ReadInv => FinalGaugesLag
    BY DEF ReadInv
  <1> QED
    BY <1>1, ReadInvariance, PTL

(* A page of finished jobs that starts below the total list_jobs reports   *)
(* with it has a row, though the two queries see different tables.         *)
THEOREM PagesAgree == Spec => []PageNotEmpty
  <1>1. ReadInv => PageNotEmpty
    BY DEF ReadInv, RequestOK, PageOK, PageNotEmpty
  <1> QED
    BY <1>1, ReadInvariance, PTL
===============================================================================
