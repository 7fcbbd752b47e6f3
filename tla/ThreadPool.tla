----------------------------- MODULE ThreadPool -----------------------------
(***************************************************************************)
(* The thread pool (src/src/models/threadpool.cpp): a parallel loop whose  *)
(* chunks are claimed by its workers and by the thread that submitted it.  *)
(*                                                                         *)
(* Every section under state_mutex_ is one step, and so is every access to *)
(* an atomic.  A thread in a condition variable's wait evaluates its       *)
(* predicate once and sleeps until it is notified; `asleep' holds the      *)
(* threads that did.  Each submitter runs one loop; when all are done the  *)
(* owner destroys the pool.                                                *)
(***************************************************************************)
EXTENDS Integers, FiniteSets, FiniteSetsExt, TLC

CONSTANTS
    Workers,          \* threads a pool may have
    Submitters,       \* threads that may call TryParallelFor
    Owner,            \* the thread that destroys the pool
    None,             \* no thread
    ChunksPerThread,  \* 4 in the code: chunks aimed at for every thread
    Configurations    \* the pools: their workers, their callers, sizes of loops

ASSUME PoolAssumption ==
    /\ ChunksPerThread \in Nat \ {0}
    /\ IsFiniteSet(Workers)
    /\ Workers \cap Submitters = {} /\ Owner \notin Workers \cup Submitters
    /\ None \notin Workers \cup Submitters \cup {Owner}
    /\ \A c \in Configurations :
        /\ c.workers \subseteq Workers /\ c.callers \subseteq Submitters
        /\ c.totals \subseteq Nat \ {0}

VARIABLES
    config,        \* which threads there are, and the bound on their loops
    pc,            \* where each thread is
    asleep,        \* threads in a wait that have not been notified
    submission,    \* holder of submission_mutex_
    shutdown, generation, remaining,
    function,      \* function_: the submitter whose loop is running
    total, chunk_size, total_chunks, next_chunk, cancelled, exception,
    observed,      \* each worker's observed_generation
    chunk,         \* the chunk each thread claimed
    size,          \* the size of each submitter's loop
    calls,         \* how often each index of each loop was called
    threw,         \* submitters whose function threw
    outcome        \* what TryParallelFor gave each submitter

vars == <<config, pc, asleep, submission, shutdown, generation, remaining, function, total,
          chunk_size, total_chunks, next_chunk, cancelled, exception, observed, chunk,
          size, calls, threw, outcome>>

job   == <<function, total, chunk_size, total_chunks>>
loop  == <<next_chunk, cancelled, exception>>
ghost == <<size, calls, threw, outcome>>

Pool == config.workers
Callers == config.callers

Threads == Workers \cup Submitters \cup {Owner}

Executing == {"check", "claim", "recheck", "call"}

Init ==
    /\ config \in Configurations
    /\ pc = [t \in Threads |-> IF t \in Pool THEN "wait"
                               ELSE IF t = Owner THEN "own"
                               ELSE IF t \in Callers THEN "submit" ELSE "absent"]
    /\ asleep = {} /\ submission = None
    /\ shutdown = FALSE /\ generation = 0 /\ remaining = 0
    /\ function = None /\ total = 0 /\ chunk_size = 0 /\ total_chunks = 0
    /\ next_chunk = 0 /\ cancelled = FALSE /\ exception = FALSE
    /\ observed = [w \in Workers |-> 0]
    /\ chunk = [t \in Threads |-> 0]
    /\ size \in [Callers -> config.totals]
    /\ calls = [s \in Callers |-> [i \in 0 .. size[s] - 1 |-> 0]]
    /\ threw = {} /\ outcome = [s \in Submitters |-> "none"]

Go(t, step) == pc' = [pc EXCEPT ![t] = step]

CeilDiv(n, d) == n \div d + (IF n % d # 0 THEN 1 ELSE 0)

-----------------------------------------------------------------------------
(* Submitting a loop. *)

(* One index, or too little work: the caller runs the loop by itself. *)
RunInline(s) ==
    /\ pc[s] = "submit" /\ size[s] = 1
    /\ calls' = [calls EXCEPT ![s][0] = @ + 1]
    /\ outcome' = [outcome EXCEPT ![s] = "ok"]
    /\ Go(s, "done")
    /\ UNCHANGED <<asleep, submission, shutdown, generation, remaining, job, loop,
                   observed, chunk, size, threw>>

LockSubmission(s) ==
    /\ pc[s] = "submit" /\ size[s] > 1
    /\ submission = None
    /\ submission' = s
    /\ Go(s, "publish")
    /\ UNCHANGED <<asleep, shutdown, generation, remaining, job, loop, observed, chunk, ghost>>

ChunkSize(n) == Max({1, CeilDiv(n, (Cardinality(Pool) + 1) * ChunksPerThread)})

Publish(s) ==
    /\ pc[s] = "publish"
    /\ function' = s /\ total' = size[s]
    /\ chunk_size' = ChunkSize(size[s])
    /\ total_chunks' = CeilDiv(size[s], ChunkSize(size[s]))
    /\ next_chunk' = 0 /\ cancelled' = FALSE /\ exception' = FALSE
    /\ remaining' = Cardinality(Pool)
    /\ generation' = generation + 1
    /\ Go(s, "notify")
    /\ UNCHANGED <<asleep, submission, shutdown, observed, chunk, ghost>>

NotifyWorkers(s) ==
    /\ pc[s] = "notify"
    /\ asleep' = asleep \ Workers
    /\ Go(s, "check")
    /\ UNCHANGED <<submission, shutdown, generation, remaining, job, loop, observed, chunk, ghost>>

-----------------------------------------------------------------------------
(* ExecuteJob, by a worker or by the submitter. *)

AfterJob(t) == IF t \in Workers THEN "report" ELSE "collect"

CheckCancelled(t) ==
    /\ pc[t] = "check"
    /\ Go(t, IF cancelled THEN AfterJob(t) ELSE "claim")
    /\ UNCHANGED <<asleep, submission, shutdown, generation, remaining, job, loop, observed,
                   chunk, ghost>>

ClaimWithoutIncrement(t) ==
    /\ pc[t] = "claim"
    /\ chunk' = [chunk EXCEPT ![t] = next_chunk]
    /\ next_chunk' = Max({next_chunk, chunk[t] + 1})
    /\ Go(t, "recheck")
    /\ UNCHANGED <<asleep, submission, shutdown, generation, remaining, job, cancelled,
                   exception, observed, ghost>>

ClaimChunk(t) ==
    /\ pc[t] = "claim"
    /\ chunk' = [chunk EXCEPT ![t] = next_chunk]
    /\ next_chunk' = next_chunk + 1
    /\ Go(t, "recheck")
    /\ UNCHANGED <<asleep, submission, shutdown, generation, remaining, job, cancelled,
                   exception, observed, ghost>>

(* The claimed number is past the last chunk, or a chunk has failed. *)
Recheck(t) ==
    /\ pc[t] = "recheck"
    /\ Go(t, IF chunk[t] >= total_chunks \/ cancelled THEN AfterJob(t) ELSE "call")
    /\ UNCHANGED <<asleep, submission, shutdown, generation, remaining, job, loop, observed,
                   chunk, ghost>>

Indices(t) ==
    LET first == chunk[t] * chunk_size
    IN  first .. (IF total - first < chunk_size THEN total ELSE first + chunk_size) - 1

(* is_thread_pool_callback *)
InCallback(t) == pc[t] \in Executing

Called(indices) ==
    calls' = [calls EXCEPT ![function] =
                [i \in DOMAIN @ |-> IF i \in indices THEN @[i] + 1 ELSE @[i]]]

(* The function returns.  It may itself submit a loop: inside a callback     *)
(* that loop runs on this thread, otherwise it would wait for the mutex its  *)
(* own submitter holds.                                                      *)
CallReturns(t) ==
    /\ pc[t] = "call"
    /\ Called(Indices(t))
    /\ Go(t, IF InCallback(t) \/ submission = None THEN "check" ELSE "nested")
    /\ UNCHANGED <<asleep, submission, shutdown, generation, remaining, job, loop, observed,
                   chunk, size, threw, outcome>>

CallThrows(t) ==
    /\ pc[t] = "call"
    /\ \E i \in Indices(t) : Called({k \in Indices(t) : k < i})
    /\ threw' = threw \cup {function}
    /\ exception' = TRUE
    /\ Go(t, "cancel")
    /\ UNCHANGED <<asleep, submission, shutdown, generation, remaining, job, next_chunk,
                   cancelled, observed, chunk, size, outcome>>

Cancel(t) ==
    /\ pc[t] = "cancel"
    /\ cancelled' = TRUE
    /\ Go(t, AfterJob(t))
    /\ UNCHANGED <<asleep, submission, shutdown, generation, remaining, job, next_chunk,
                   exception, observed, chunk, ghost>>

-----------------------------------------------------------------------------
(* The end of a loop. *)

CollectWithoutWaiting(s) ==
    /\ pc[s] = "collect"
    /\ function' = None
    /\ Go(s, "return")
    /\ UNCHANGED <<asleep, submission, shutdown, generation, remaining, total, chunk_size,
                   total_chunks, loop, observed, chunk, ghost>>

Collect(s) ==
    /\ pc[s] = "collect" /\ s \notin asleep
    /\ IF remaining = 0
       THEN /\ function' = None
            /\ Go(s, "return")
            /\ UNCHANGED asleep
       ELSE /\ asleep' = asleep \cup {s}
            /\ UNCHANGED <<function, pc>>
    /\ UNCHANGED <<submission, shutdown, generation, remaining, total, chunk_size,
                   total_chunks, loop, observed, chunk, ghost>>

Return(s) ==
    /\ pc[s] = "return"
    /\ outcome' = [outcome EXCEPT ![s] = IF exception THEN "threw" ELSE "ok"]
    /\ submission' = None
    /\ Go(s, "done")
    /\ UNCHANGED <<asleep, shutdown, generation, remaining, job, loop, observed, chunk,
                   size, calls, threw>>

-----------------------------------------------------------------------------
(* Workers. *)

HasWork(w) == generation # observed[w]

AwaitWork(w) ==
    /\ pc[w] = "wait" /\ w \notin asleep
    /\ IF shutdown THEN Go(w, "exited") /\ UNCHANGED <<asleep, observed>>
       ELSE IF HasWork(w)
            THEN /\ observed' = [observed EXCEPT ![w] = generation]
                 /\ Go(w, "check")
                 /\ UNCHANGED asleep
            ELSE asleep' = asleep \cup {w} /\ UNCHANGED <<pc, observed>>
    /\ UNCHANGED <<submission, shutdown, generation, remaining, job, loop, chunk, ghost>>

ReportSilently(w) ==
    /\ pc[w] = "report"
    /\ remaining' = remaining - 1
    /\ Go(w, "wait")
    /\ UNCHANGED <<asleep, submission, shutdown, generation, job, loop, observed, chunk, ghost>>

Report(w) ==
    /\ pc[w] = "report"
    /\ remaining' = remaining - 1
    /\ asleep' = IF remaining' = 0 THEN asleep \ Submitters ELSE asleep
    /\ Go(w, "wait")
    /\ UNCHANGED <<submission, shutdown, generation, job, loop, observed, chunk, ghost>>

(* A condition variable may wake a thread nobody notified. *)
SpuriousWakeup(t) ==
    /\ t \in asleep
    /\ asleep' = asleep \ {t}
    /\ UNCHANGED <<pc, submission, shutdown, generation, remaining, job, loop, observed,
                   chunk, ghost>>

-----------------------------------------------------------------------------
(* Destruction, once every caller has its answer. *)

RequestShutdown ==
    /\ pc[Owner] = "own" /\ \A s \in Callers : pc[s] = "done"
    /\ submission = None
    /\ submission' = Owner
    /\ shutdown' = TRUE /\ generation' = generation + 1
    /\ Go(Owner, "wake")
    /\ UNCHANGED <<asleep, remaining, job, loop, observed, chunk, ghost>>

WakeForShutdown ==
    /\ pc[Owner] = "wake"
    /\ asleep' = asleep \ Workers
    /\ Go(Owner, "join")
    /\ UNCHANGED <<submission, shutdown, generation, remaining, job, loop, observed, chunk,
                   ghost>>

Join ==
    /\ pc[Owner] = "join" /\ \A w \in Pool : pc[w] = "exited"
    /\ submission' = None
    /\ Go(Owner, "destroyed")
    /\ UNCHANGED <<asleep, shutdown, generation, remaining, job, loop, observed, chunk, ghost>>

Destroyed == pc[Owner] = "destroyed" /\ UNCHANGED vars

-----------------------------------------------------------------------------

Submit(s) ==
    RunInline(s) \/ LockSubmission(s) \/ Publish(s) \/ NotifyWorkers(s)
    \/ Collect(s) \/ Return(s)

ExecuteJob(t) ==
    CheckCancelled(t) \/ ClaimChunk(t) \/ Recheck(t) \/ CallReturns(t) \/ CallThrows(t)
    \/ Cancel(t)

WorkerLoop(w) == AwaitWork(w) \/ Report(w)

Destroy == RequestShutdown \/ WakeForShutdown \/ Join

Steps ==
    \/ \E s \in Submitters : Submit(s)
    \/ \E t \in Workers \cup Submitters : ExecuteJob(t)
    \/ \E w \in Workers : WorkerLoop(w)
    \/ \E t \in Threads : SpuriousWakeup(t)
    \/ Destroy
    \/ Destroyed

Next == Steps /\ UNCHANGED config

(* The operating system keeps running every thread that can run, and a mutex *)
(* that is free again and again is granted to whoever waits for it.          *)
Fairly(A) == A /\ UNCHANGED config

Fairness ==
    /\ \A s \in Submitters : /\ WF_vars(Fairly(Submit(s)))
                             /\ SF_vars(Fairly(LockSubmission(s)))
                             /\ WF_vars(Fairly(ExecuteJob(s)))
    /\ \A w \in Workers : /\ WF_vars(Fairly(ExecuteJob(w)))
                          /\ WF_vars(Fairly(WorkerLoop(w)))
    /\ WF_vars(Fairly(Destroy))

Spec == Init /\ [][Next]_vars /\ Fairness

-----------------------------------------------------------------------------
(* Properties. *)

(* Every variable has the shape the code gives it. *)
TypeOK ==
    /\ pc \in [Threads -> Executing \cup
         {"submit", "publish", "notify", "collect", "return", "done", "cancel", "report",
          "wait", "exited", "own", "wake", "join", "destroyed", "nested", "absent"}]
    /\ asleep \subseteq Threads /\ submission \in Threads \cup {None}
    /\ remaining \in 0 .. Cardinality(Pool)
    /\ function \in Submitters \cup {None}
    /\ observed \in [Workers -> 0 .. generation]
    /\ {shutdown, cancelled, exception} \subseteq BOOLEAN

(* No index is handed to the function twice, and a caller that gets no       *)
(* exception back has had every index of its loop called exactly once.       *)
EveryIndexOnce ==
    \A s \in Callers :
        /\ \A i \in DOMAIN calls[s] : calls[s][i] <= 1
        /\ outcome[s] = "ok" => \A i \in DOMAIN calls[s] : calls[s][i] = 1

(* The function lives on its submitter's stack: while any thread may still   *)
(* call it, that submitter is inside Run and it is the published function.   *)
FunctionOutlivesCalls ==
    \A t \in Workers \cup Submitters :
        pc[t] \in Executing \cup {"cancel"} =>
            /\ function # None
            /\ pc[function] \in Executing \cup {"notify", "cancel", "collect", "nested"}
            /\ t \in Submitters => function = t

(* A caller learns of an exception exactly when its own function threw one:  *)
(* none is lost to a late worker, none leaks into another caller's loop.     *)
ExceptionsReachTheirCaller ==
    \A s \in Callers :
        outcome[s] # "none" => (outcome[s] = "threw") = (s \in threw)

(* A loop calls its function once for every index, and its caller gets an    *)
(* exception exactly when that function threw one (threadpool.cpp).          *)
LoopsRunOnce == EveryIndexOnce /\ ExceptionsReachTheirCaller

(* Every call returns, whatever the workers do, and the pool can then be     *)
(* destroyed: no wake-up is lost and nobody waits for a lock it holds.       *)
PoolDrains == <>(pc[Owner] = "destroyed")
=============================================================================
