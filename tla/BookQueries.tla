---------------------------- MODULE BookQueries ----------------------------
(***************************************************************************)
(* concurrent/FutureTest.java: six authors are asked for a book, one after *)
(* the other, through a pool with a time limit for each future, and in a   *)
(* parallel stream; then the pool is shut down.  Time is counted in units  *)
(* of 20 ms and passes only while nothing can happen at once.  Sleeping    *)
(* threads wake up late by up to Jitter units, in any order.               *)
(***************************************************************************)
EXTENDS Integers, Sequences, FiniteSetsExt

CONSTANTS
  Sleep,          \* Sleep[i]: how long queryBook sleeps for the i-th author
  WithoutBook,    \* the authors for whom queryBook returns null
  AUTHOR_NAME,    \* the author whose book each query is asserted to return
  CorePool,       \* the threads of the pool; its queue is never full, so there are no more
  Workers,        \* the threads that run the parallel stream, the caller's included
  Patience,       \* the time limit of get()
  Grace,          \* the time limit of awaitTermination()
  Jitter,
  MaxDuration     \* bound: durations are told apart up to this one

ASSUME BooksAssumption ==
  /\ {CorePool, Workers, Patience, Grace, Jitter, MaxDuration} \subseteq Nat
  /\ Sleep \in Seq(Nat) /\ AUTHOR_NAME \in DOMAIN Sleep /\ WithoutBook \subseteq DOMAIN Sleep

VARIABLES
  query,      \* what testQuery is at: one of the queries, clean(), or the end
  elapsed,    \* the time since that began
  job,        \* job[q][i]: the call of queryBook that query q makes for author i
  caller,     \* the author whose call or future the query is at, 0 before the first
  limit,      \* the time left to its get()
  ret,        \* ret of queryConcurrently: null, empty or an author
  answer,     \* answer[q]: what query q returned, null before
  duration    \* duration[q]: how long it took

bookVars == <<query, elapsed, job, caller, limit, ret, answer, duration>>

authors == DOMAIN Sleep
null == -1
empty == 0
Queries == {"sequential", "concurrent", "parallel"}
After == [sequential |-> "concurrent", concurrent |-> "parallel", parallel |-> "clean"]
Job(at) == [at |-> at, left |-> 0]

BookInit ==
  /\ query = "sequential" /\ elapsed = 0 /\ caller = 0 /\ limit = 0
  /\ job = [q \in Queries |-> [i \in authors |-> Job("none")]]
  /\ ret = null
  /\ answer = [q \in Queries |-> null]
  /\ duration = [q \in Queries |-> 0]

Jobs(q, at) == {i \in authors : job[q][i].at = at}

\* recordExecutionTime starts the stopwatch and the query, which asks for the
\* first author or submits a task for every author.
BeginQuery ==
  /\ query \in Queries /\ caller = 0
  /\ caller' = 1 /\ limit' = Patience
  /\ job' = IF query = "sequential" THEN job
            ELSE [job EXCEPT ![query] = [i \in authors |-> Job("queued")]]
  /\ UNCHANGED <<query, elapsed, ret, answer, duration>>

\* Whether a thread is there to call queryBook for author i in query q: the
\* caller itself, the pool in the order of its queue, or the stream's workers.
\* Mutant: the pool has one thread.
ThreadForOne(q, i) ==
  CASE q = "sequential" -> query = q /\ caller = i /\ job[q][i].at = "none"
    [] q = "concurrent" -> job[q][i].at = "queued" /\ i = Min(Jobs(q, "queued")) /\ Jobs(q, "running") = {}
    [] OTHER            -> job[q][i].at = "queued" /\ Cardinality(Jobs(q, "running")) < Workers

ThreadFor(q, i) ==
  CASE q = "sequential" -> query = q /\ caller = i /\ job[q][i].at = "none"
    [] q = "concurrent" -> job[q][i].at = "queued" /\ i = Min(Jobs(q, "queued"))
                           /\ Cardinality(Jobs(q, "running")) < CorePool
    [] OTHER            -> job[q][i].at = "queued" /\ Cardinality(Jobs(q, "running")) < Workers

queryBook(q, i) ==
  /\ ThreadFor(q, i)
  /\ \E late \in 0 .. Jitter : job' = [job EXCEPT ![q][i] = [at |-> "running", left |-> Sleep[i] + late]]
  /\ UNCHANGED <<query, elapsed, caller, limit, ret, answer, duration>>

Due(q, i) == job[q][i].at = "running" /\ job[q][i].left = 0

Wake(q, i) ==
  /\ Due(q, i)
  /\ job' = [job EXCEPT ![q][i] = Job("done")]
  /\ UNCHANGED <<query, elapsed, caller, limit, ret, answer, duration>>

\* The query returns; an answer that is not AUTHOR_NAME's, or null, ends
\* testQuery with an error, and clean() runs.
Return(value) ==
  /\ answer' = [answer EXCEPT ![query] = value]
  /\ duration' = [duration EXCEPT ![query] = Min({elapsed, MaxDuration})]
  /\ query' = IF value = AUTHOR_NAME THEN After[query] ELSE "clean"
  /\ elapsed' = 0 /\ caller' = 0 /\ limit' = 0
  /\ UNCHANGED job

\* The loop goes on to the next author, or ends with value.
NextOr(value) ==
  IF caller + 1 \in authors
  THEN caller' = caller + 1 /\ limit' = Patience /\ UNCHANGED <<query, elapsed, job, answer, duration>>
  ELSE Return(value)

querySequentially ==
  /\ query = "sequential" /\ caller \in Jobs(query, "done")
  /\ IF caller \notin WithoutBook THEN Return(caller) ELSE NextOr(empty)
  /\ UNCHANGED ret

GetReturns ==
  /\ query = "concurrent" /\ caller \in Jobs(query, "done")
  /\ IF caller \notin WithoutBook THEN ret' = caller /\ Return(caller) ELSE ret' = empty /\ NextOr(empty)

Expired == query = "concurrent" /\ caller \in authors \ Jobs(query, "done") /\ limit = 0

\* Mutant: what is left of one limit is all that the next get() has.
GetTimesOutForAll ==
  /\ Expired
  /\ IF caller + 1 \in authors
     THEN caller' = caller + 1 /\ UNCHANGED <<query, elapsed, limit, job, answer, duration>>
     ELSE Return(ret)
  /\ UNCHANGED ret

GetTimesOut ==
  /\ Expired
  /\ NextOr(ret)
  /\ UNCHANGED ret

queryParallelly ==
  /\ query = "parallel" /\ Jobs(query, "done") = authors
  /\ Return(IF authors \subseteq WithoutBook THEN empty ELSE Min(authors \ WithoutBook))
  /\ UNCHANGED ret

PoolIdle == Jobs("concurrent", "queued") \cup Jobs("concurrent", "running") = {}
CleanEnds == query = "clean" /\ (PoolIdle \/ elapsed = Grace)

\* awaitTermination returns and shutdownNow empties the queue; tasks that run
\* sleep on, uninterruptibly.
clean ==
  /\ CleanEnds
  /\ query' = "end"
  /\ job' = [job EXCEPT !["concurrent"] = [i \in authors |-> IF @[i].at = "queued" THEN Job("none") ELSE @[i]]]
  /\ UNCHANGED <<elapsed, caller, limit, ret, answer, duration>>

AtOnce ==
  \/ BeginQuery \/ querySequentially \/ GetReturns \/ GetTimesOut \/ queryParallelly \/ clean
  \/ \E q \in Queries, i \in authors : queryBook(q, i) \/ Wake(q, i)

Urgent ==
  \/ query \in Queries /\ caller = 0
  \/ query = "sequential" /\ caller \in Jobs(query, "done")
  \/ query = "concurrent" /\ (caller \in Jobs(query, "done") \/ Expired)
  \/ query = "parallel" /\ Jobs(query, "done") = authors
  \/ CleanEnds
  \/ \E q \in Queries, i \in authors : ThreadFor(q, i) \/ Due(q, i)

Tick ==
  /\ ~Urgent /\ query # "end"
  /\ elapsed' = elapsed + 1
  /\ limit' = IF query = "concurrent" THEN limit - 1 ELSE limit
  /\ job' = [q \in Queries |-> [i \in authors |->
               IF job[q][i].at = "running" THEN [job[q][i] EXCEPT !.left = @ - 1] ELSE job[q][i]]]
  /\ UNCHANGED <<query, caller, ret, answer, duration>>

BookNext == AtOnce \/ Tick

BookSpec == BookInit /\ [][BookNext]_bookVars

\* What the assertions of the test rest on, and no code enforces: the wanted
\* author is behind others and within the threads of the pool, the wanted book
\* is found within the limit of one get(), and the longest query takes less than
\* two short ones.
WithinTimes(shortest, longest) ==
  /\ \A i \in authors : shortest <= Sleep[i] /\ Sleep[i] + Jitter <= longest
  /\ longest < 2 * shortest /\ longest < MaxDuration /\ Len(Sleep) * longest < Grace
WellTimed ==
  /\ AUTHOR_NAME \in (2 .. CorePool) \ WithoutBook /\ 1 .. (AUTHOR_NAME - 1) \subseteq WithoutBook
  /\ Sleep[AUTHOR_NAME] + Jitter <= Patience
  /\ \E shortest, longest \in 1 .. MaxDuration : WithinTimes(shortest, longest)

(***************************************************************************)
(* Properties.                                                             *)
(***************************************************************************)
Returned(q) == duration[q] > 0

\* The assertion of recordExecutionTime on what every query returns: threads
\* that wake up late, a pool smaller than the number of tasks and limits that
\* start one after the other never make get() give up on the author's book.
AnswersAreExpected == \A q \in Queries : Returned(q) => answer[q] = AUTHOR_NAME

\* The assertion at the end of testQuery: the concurrent query takes less time
\* than the sequential one, on whatever machine; less than the parallel one if
\* that has a worker less than there are authors.  And the tasks it leaves
\* behind are done before the pool is shut down for good.
ConcurrentIsFastest ==
  /\ Returned("concurrent") /\ Returned("sequential") => duration["concurrent"] < duration["sequential"]
  /\ Returned("concurrent") /\ Returned("parallel") /\ Workers < Len(Sleep) =>
       duration["concurrent"] < duration["parallel"]
  /\ query = "end" => PoolIdle
=============================================================================
