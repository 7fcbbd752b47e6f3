-------------------------- MODULE ThreadPoolProofs --------------------------
(***************************************************************************)
(* A loop submitted to the thread pool runs every index once, reports its  *)
(* own exception, and outlives every call of its function: for any number  *)
(* of workers and callers and any size of loop.                            *)
(***************************************************************************)
EXTENDS ThreadPool, FiniteSetTheorems, TLAPS

(* Where a worker is while it counts in remaining. *)
Helping == Executing \cup {"cancel", "report"}

(* Where a caller is while its function is published. *)
Open == Executing \cup {"notify", "cancel", "collect"}

(* Where a caller is while it holds submission_mutex_. *)
Holding == Open \cup {"publish", "return"}

(* Workers that have yet to report the current generation. *)
Pending == {w \in Pool : pc[w] \in Helping \/ observed[w] # generation}

(* A thread that has claimed a chunk and not finished with it. *)
Owns(t) == pc[t] \in {"recheck", "call"}

Span(c) == c * chunk_size .. c * chunk_size + chunk_size - 1

(* The indices below this one have been claimed. *)
Frontier == next_chunk * chunk_size

Agents == Workers \cup Submitters

Types ==
    /\ config \in Configurations
    /\ pc \in [Threads -> Holding \cup Helping \cup
                 {"submit", "done", "wait", "exited", "own", "wake", "join",
                  "destroyed", "absent"}]
    /\ \A w \in Workers : pc[w] \in Helping \cup {"wait", "exited", "absent"}
    /\ \A w \in Workers : pc[w] # "absent" => w \in Pool
    /\ \A s \in Submitters : pc[s] \in Holding \cup {"submit", "done", "absent"}
    /\ \A s \in Submitters : pc[s] = "absent" <=> s \notin Callers
    /\ generation \in Nat /\ remaining \in Nat
    /\ observed \in [Workers -> Nat]
    /\ function \in Submitters \cup {None}
    /\ total \in Nat /\ chunk_size \in Nat /\ total_chunks \in Nat /\ next_chunk \in Nat
    /\ shutdown \in BOOLEAN /\ cancelled \in BOOLEAN /\ exception \in BOOLEAN
    /\ chunk \in [Threads -> Nat]
    /\ size \in [Callers -> Nat \ {0}]
    /\ DOMAIN calls = Callers
    /\ \A s \in Callers : calls[s] \in [0 .. size[s] - 1 -> Nat]
    /\ threw \subseteq Submitters
    /\ outcome \in [Submitters -> {"none", "ok", "threw"}]

(* One caller at a time has the lock, and its function is the published one. *)
Locking ==
    /\ \A s \in Submitters : pc[s] \in Holding => submission = s
    /\ \A s \in Submitters : pc[s] \in Open <=> function = s
    /\ shutdown => \A s \in Callers : pc[s] = "done"
    /\ pc[Owner] \in {"wake", "join"} => submission = Owner

(* remaining counts the workers that have yet to report, so none is at work  *)
(* once a function has been taken back.                                      *)
Counting ==
    /\ \A w \in Workers : observed[w] <= generation
    /\ \A w \in Workers : pc[w] \in Helping => observed[w] = generation
    /\ ~shutdown => remaining = Cardinality(Pending)
    /\ shutdown => \A w \in Workers : pc[w] \notin Helping
    /\ function = None => remaining = 0

(* Chunks are claimed once. *)
Claiming ==
    /\ \A t \in Agents : Owns(t) => chunk[t] < next_chunk
    /\ \A t, u \in Agents : (Owns(t) /\ Owns(u) /\ chunk[t] = chunk[u]) => t = u

(* Every index of the loop of s was called at most once; one that was called
   is below the frontier and in no chunk a thread owns; one below the
   frontier that was not is in such a chunk, unless the function has thrown. *)
Tallied(s) ==
    \A i \in 0 .. size[s] - 1 :
        /\ calls[s][i] <= 1
        /\ calls[s][i] = 1 => /\ i < Frontier
                              /\ \A t \in Agents : Owns(t) => i \notin Span(chunk[t])
        /\ (calls[s][i] = 0 /\ ~exception) =>
              \/ i >= Frontier
              \/ \E t \in Agents : Owns(t) /\ i \in Span(chunk[t])

(* The loop of s is the one the pool describes. *)
Described(s) ==
    /\ total = size[s] /\ chunk_size # 0 /\ total <= total_chunks * chunk_size
    /\ exception <=> s \in threw
    /\ pc[s] \in {"collect", "return"} => cancelled \/ next_chunk >= total_chunks

Running ==
    /\ \A t \in Agents : pc[t] = "cancel" => exception
    /\ cancelled => exception
    /\ \A s \in Submitters : pc[s] \in Open \cup {"return"} => Described(s) /\ Tallied(s)

(* What is known of a loop that has not begun, or that has returned. *)
Answered(s) ==
    /\ outcome[s] = "none" <=> pc[s] # "done"
    /\ pc[s] \in {"submit", "publish"} =>
        s \notin threw /\ \A i \in 0 .. size[s] - 1 : calls[s][i] = 0
    /\ pc[s] = "done" =>
        /\ outcome[s] = "threw" <=> s \in threw
        /\ \A i \in 0 .. size[s] - 1 : calls[s][i] <= 1
        /\ outcome[s] = "ok" => \A i \in 0 .. size[s] - 1 : calls[s][i] = 1

Settled == \A s \in Callers : Answered(s)

PoolInv == Types /\ Locking /\ Counting /\ Claiming /\ Running /\ Settled

-----------------------------------------------------------------------------
(* Arithmetic of chunks. *)

(* Chunks of a lower number end before a higher chunk begins. *)
LEMMA Multiples ==
    ASSUME NEW k \in Nat, NEW c \in Nat, NEW d \in Nat, c < d
    PROVE  c * k + k <= d * k
OBVIOUS

(* A chunk of a higher number does not begin earlier. *)
LEMMA Monotone ==
    ASSUME NEW k \in Nat, NEW c \in Nat, NEW d \in Nat, c <= d
    PROVE  c * k <= d * k
OBVIOUS

(* Where the next chunk begins. *)
LEMMA Product ==
    ASSUME NEW k \in Nat, NEW c \in Nat
    PROVE  c * k \in Nat /\ (c + 1) * k = c * k + k
OBVIOUS

(* Different chunks have no index in common. *)
LEMMA SpansApart ==
    ASSUME chunk_size \in Nat, NEW c \in Nat, NEW d \in Nat, c # d, NEW i \in Nat,
           i \in Span(c), i \in Span(d)
    PROVE  FALSE
<1>1. CASE c < d
  BY <1>1, Multiples, Product DEF Span
<1>2. CASE d < c
  BY <1>2, Multiples, Product DEF Span
<1> QED BY <1>1, <1>2

(* Rounding up: the chunks Publish counts cover the whole loop *)
(* (threadpool.cpp).                                           *)
LEMMA CeilDivCovers ==
    ASSUME NEW n \in Nat \ {0}, NEW d \in Nat \ {0}
    PROVE  /\ CeilDiv(n, d) \in Nat \ {0}
           /\ n <= CeilDiv(n, d) * d
<1> DEFINE q == n \div d
           r == n % d
<1>1. q \in Nat /\ r \in 0 .. d - 1 /\ n = d * q + r
  OBVIOUS
<1>2. CeilDiv(n, d) = q + (IF r # 0 THEN 1 ELSE 0)
  BY DEF CeilDiv
<1> HIDE DEF q, r
<1>3. CASE r = 0
  BY <1>1, <1>2, <1>3
<1>4. CASE r # 0
  <2>1. CeilDiv(n, d) = q + 1
    BY <1>2, <1>4
  <2>2. (q + 1) * d = q * d + d /\ q * d = d * q
    BY <1>1, Product
  <2> QED BY <1>1, <2>1, <2>2
<1> QED BY <1>3, <1>4

(* Chunks are never empty. *)
LEMMA ChunkSizeType ==
    ASSUME Types, NEW n \in Nat \ {0}
    PROVE  ChunkSize(n) \in Nat \ {0}
<1> DEFINE m == (Cardinality(Pool) + 1) * ChunksPerThread
           c == CeilDiv(n, m)
<1>1. IsFiniteSet(Pool)
  BY PoolAssumption, FS_Subset DEF Types, Pool
<1>2. m \in Nat \ {0}
  <2>1. Cardinality(Pool) \in Nat
    BY <1>1, FS_CardinalityType
  <2> QED BY <2>1, PoolAssumption
<1>3. c \in Nat \ {0}
  <2> HIDE DEF m
  <2> QED BY <1>2, CeilDivCovers
<1>4. ChunkSize(n) = Max({1, c})
  BY DEF ChunkSize
<1> HIDE DEF c
<1>5. \E x \in {1, c} : \A y \in {1, c} : x >= y
  BY <1>3
<1>6. Max({1, c}) \in {1, c}
  BY <1>5 DEF Max
<1> QED BY <1>3, <1>4, <1>6

-----------------------------------------------------------------------------
(* Consequences of the invariant. *)

(* The workers that have not reported can be counted. *)
LEMMA PendingFinite ==
    ASSUME Types
    PROVE  IsFiniteSet(Pending) /\ Cardinality(Pending) \in Nat
<1>1. Pending \subseteq Workers
  BY PoolAssumption DEF Types, Pool, Pending
<1> QED BY <1>1, PoolAssumption, FS_Subset, FS_CardinalityType

(* When no function is published, every worker has reported. *)
LEMMA NobodyPending ==
    ASSUME Types, Counting, ~shutdown, remaining = 0
    PROVE  Pending = {}
BY PendingFinite, FS_EmptySet DEF Counting

(* A worker at work has a published function to work for. *)
LEMMA AtWork ==
    ASSUME Types, Locking, Counting, NEW w \in Workers, pc[w] \in Helping
    PROVE  function \in Submitters /\ pc[function] \in Open /\ submission = function
<1>1. ~shutdown
  BY DEF Counting
<1>2. w \in Pending
  BY DEF Types, Pending, Helping, Executing
<1>3. remaining # 0
  BY <1>1, <1>2, NobodyPending
<1>4. function \in Submitters
  BY <1>3 DEF Counting, Types
<1> QED BY <1>4 DEF Locking, Holding

(* So has every thread that executes chunks, and only its submitter is in    *)
(* the middle of a loop.                                                     *)
LEMMA TheLoop ==
    ASSUME Types, Locking, Counting, NEW t \in Agents, pc[t] \in Executing \cup {"cancel"}
    PROVE  /\ function \in Callers /\ function \in Submitters
           /\ pc[function] \in Open /\ submission = function
           /\ \A s \in Submitters : pc[s] \in Holding => s = function
<1>1. CASE t \in Workers
  BY <1>1, AtWork, PoolAssumption DEF Types, Locking, Helping, Open, Holding, Executing
<1>2. CASE t \in Submitters
  BY <1>2, PoolAssumption DEF Types, Locking, Open, Holding, Executing
<1> QED BY <1>1, <1>2 DEF Agents

-----------------------------------------------------------------------------
(* Steps that leave the loop as it is: no chunk changes hands. *)

(* A step that claims nothing and calls nothing keeps what is known of a *)
(* loop's calls.                                                         *)
LEMMA SameTally ==
    ASSUME NEW s, Tallied(s), \A t \in Agents : Owns(t)' <=> Owns(t),
           calls'[s] = calls[s], exception' \/ exception' = exception,
           UNCHANGED <<chunk, size, next_chunk, chunk_size>>
    PROVE  Tallied(s)'
<1>1. Frontier' = Frontier /\ \A c : Span(c)' = Span(c)
  BY DEF Frontier, Span
<1> QED BY <1>1 DEF Tallied, Agents

(* A step that leaves the open loop alone keeps Running. *)
LEMMA SameLoop ==
    ASSUME Types, Running,
           \A t \in Agents : Owns(t)' <=> Owns(t),
           \A t \in Agents : pc'[t] = "cancel" => pc[t] = "cancel",
           \A s \in Submitters :
               /\ pc'[s] \in Open \cup {"return"} => pc[s] \in Open \cup {"return"}
               /\ pc'[s] \in {"collect", "return"} =>
                      \/ pc[s] \in {"collect", "return"}
                      \/ cancelled \/ next_chunk >= total_chunks,
           UNCHANGED <<chunk, size, calls, threw, exception, next_chunk, total,
                       chunk_size, total_chunks, cancelled>>
    PROVE  Running'
<1>1. \A s \in Submitters : Tallied(s) => Tallied(s)'
  BY SameTally
<1>2. \A s \in Submitters : Described(s) => Described(s)'
  BY DEF Described
<1> QED BY <1>1, <1>2 DEF Running, Agents

(* A step that claims nothing keeps the owners of chunks distinct. *)
LEMMA SameClaims ==
    ASSUME Claiming, \A t \in Agents : Owns(t)' => Owns(t),
           UNCHANGED <<chunk, next_chunk>>
    PROVE  Claiming'
BY DEF Claiming

(* A step in which no worker starts or reports keeps Counting. *)
LEMMA SameCount ==
    ASSUME Counting, Pending' = Pending,
           \A w \in Workers : pc'[w] \in Helping => pc[w] \in Helping,
           function' = function \/ remaining = 0,
           UNCHANGED <<observed, generation, remaining, shutdown>>
    PROVE  Counting'
BY DEF Counting

(* Workers that keep on helping, or do not, stay pending or not. *)
LEMMA SamePending ==
    ASSUME Types, \A w \in Workers : pc'[w] \in Helping <=> pc[w] \in Helping,
           UNCHANGED <<config, observed, generation>>
    PROVE  Pending' = Pending
BY PoolAssumption DEF Pending, Pool, Types

(* A call counts every index of D, a part of the chunk its thread gives up. *)
LEMMA CallTypes ==
    ASSUME Types, function \in Callers, NEW D, Called(D), UNCHANGED <<config, size>>
    PROVE  /\ DOMAIN calls' = Callers
           /\ \A s \in Callers : calls'[s] \in [0 .. size[s] - 1 -> Nat]
           /\ \A s \in Callers : s # function => calls'[s] = calls[s]
           /\ \A i \in 0 .. size[function] - 1 :
                calls'[function][i] = calls[function][i] + (IF i \in D THEN 1 ELSE 0)
<1> DEFINE old == calls[function]
           new == [i \in DOMAIN old |-> IF i \in D THEN old[i] + 1 ELSE old[i]]
<1>1. /\ DOMAIN calls = Callers /\ Callers' = Callers
      /\ \A s \in Callers : size'[s] = size[s] /\ calls[s] \in [0 .. size[s] - 1 -> Nat]
  BY DEF Types, Callers
<1>2. calls' = [calls EXCEPT ![function] = new]
  BY DEF Called
<1>3. old \in [0 .. size[function] - 1 -> Nat] /\ DOMAIN old = 0 .. size[function] - 1
  BY <1>1
<1> HIDE DEF old
<1>4. /\ new \in [0 .. size[function] - 1 -> Nat]
      /\ \A i \in 0 .. size[function] - 1 : new[i] = old[i] + (IF i \in D THEN 1 ELSE 0)
  BY <1>3
<1> HIDE DEF new
<1>5. /\ DOMAIN calls' = Callers /\ calls'[function] = new
      /\ \A s \in Callers : s # function => calls'[s] = calls[s]
  BY <1>1, <1>2
<1>6. \A s \in Callers : calls'[s] \in [0 .. size[s] - 1 -> Nat]
  BY <1>1, <1>4, <1>5
<1> QED BY <1>4, <1>5, <1>6 DEF old

(* A call over a claimed chunk adds each of its indices once. *)
LEMMA CallTally ==
    ASSUME Types, Locking, Counting, Claiming, Running,
           NEW t \in Agents, pc[t] = "call",
           NEW D \in SUBSET Span(chunk[t]), Called(D),
           \A u \in Agents : Owns(u)' <=> Owns(u) /\ u # t,
           \/ exception'
           \/ exception' = exception /\ \A i \in 0 .. total - 1 : i \in Span(chunk[t]) => i \in D,
           UNCHANGED <<config, function, size, chunk, next_chunk, chunk_size>>
    PROVE  Tallied(function)'
<1> DEFINE f == function
<1>1. f \in Callers /\ f \in Submitters /\ pc[f] \in Open
  BY TheLoop DEF Executing
<1>2. Tallied(f) /\ total = size[f] /\ size[f] \in Nat \ {0}
  BY <1>1 DEF Running, Described, Types, Callers
<1>3. Frontier' = Frontier /\ \A c : Span(c)' = Span(c)
  BY DEF Frontier, Span
<1>4. Owns(t) /\ chunk[t] \in Nat /\ chunk[t] < next_chunk
  BY DEF Owns, Claiming, Types, Threads, Agents
<1>5. Frontier \in Nat /\ \A i \in Span(chunk[t]) : i < Frontier
  <2>1. chunk_size \in Nat /\ next_chunk \in Nat
    BY DEF Types
  <2>2. chunk[t] * chunk_size \in Nat /\ next_chunk * chunk_size \in Nat
    BY <1>4, <2>1, Product
  <2>3. chunk[t] * chunk_size + chunk_size <= next_chunk * chunk_size
    BY <1>4, <2>1, Multiples
  <2> QED BY <2>1, <2>2, <2>3 DEF Span, Frontier
<1>6. ASSUME NEW i \in 0 .. size[f] - 1, i \in Span(chunk[t]), NEW u \in Agents, Owns(u), u # t
      PROVE  i \notin Span(chunk[u])
  <2>1. chunk[u] # chunk[t] /\ chunk[u] \in Nat /\ chunk_size \in Nat /\ i \in Nat
    BY <1>2, <1>4, <1>6 DEF Claiming, Types, Threads, Agents
  <2> QED BY <1>4, <1>6, <2>1, SpansApart
<1> SUFFICES ASSUME NEW i \in 0 .. size[f] - 1
             PROVE  /\ calls'[f][i] <= 1
                    /\ calls'[f][i] = 1 =>
                         i < Frontier /\ \A u \in Agents : Owns(u) /\ u # t => i \notin Span(chunk[u])
                    /\ calls'[f][i] = 0 /\ ~exception' =>
                         \/ i >= Frontier
                         \/ \E u \in Agents : Owns(u) /\ u # t /\ i \in Span(chunk[u])
  BY <1>3 DEF Tallied, Agents
<1>7. calls'[f][i] = calls[f][i] + (IF i \in D THEN 1 ELSE 0) /\ calls[f][i] \in Nat
  BY <1>1, CallTypes DEF Types
<1>8. /\ calls[f][i] <= 1
      /\ calls[f][i] = 1 => i < Frontier /\ \A u \in Agents : Owns(u) => i \notin Span(chunk[u])
      /\ calls[f][i] = 0 /\ ~exception =>
            i >= Frontier \/ \E u \in Agents : Owns(u) /\ i \in Span(chunk[u])
  BY <1>2 DEF Tallied
<1> HIDE DEF f
<1>9. CASE i \in D
  <2>1. i \in Span(chunk[t]) /\ calls[f][i] = 0
    BY <1>4, <1>7, <1>8, <1>9
  <2> QED BY <1>5, <1>6, <1>7, <1>9, <2>1
<1>10. CASE i \notin D
  <2>1. calls'[f][i] = calls[f][i]
    BY <1>7, <1>10
  <2> QED BY <1>2, <1>8, <1>10, <2>1 DEF f
<1> QED BY <1>9, <1>10

(* The indices of a call are those of its chunk that the loop has. *)
LEMMA CallSpan ==
    ASSUME Types, NEW t \in Agents
    PROVE  /\ Indices(t) \subseteq Span(chunk[t])
           /\ \A i \in 0 .. total - 1 : i \in Span(chunk[t]) => i \in Indices(t)
<1> DEFINE first == chunk[t] * chunk_size
<1>1. first \in Nat /\ total \in Nat /\ chunk_size \in Nat
  BY Product DEF Types, Threads, Agents
<1> HIDE DEF first
<1>2. Indices(t) = first .. (IF total - first < chunk_size THEN total ELSE first + chunk_size) - 1
  BY DEF Indices, first
<1>3. Span(chunk[t]) = first .. first + chunk_size - 1
  BY DEF Span, first
<1> QED BY <1>1, <1>2, <1>3

-----------------------------------------------------------------------------
(* One lemma for each action. *)

(* Counts of calls stay numbers when each goes up by one. *)
LEMMA OneMoreCall ==
    ASSUME NEW S, NEW f \in [S -> Nat], NEW g, g = [i \in S |-> f[i] + 1]
    PROVE  g \in [S -> Nat]
OBVIOUS

(* A loop of one index runs on the caller alone. *)
LEMMA RunInlineStep ==
    ASSUME PoolInv, NEW s \in Submitters, RunInline(s), UNCHANGED config
    PROVE  PoolInv'
<1> USE PoolAssumption DEF PoolInv, RunInline, Go, job, loop, ghost,
           Threads, Agents, Executing, Helping, Open, Holding, Pool, Callers
<1>a. /\ s \in Callers /\ size[s] = 1
      /\ DOMAIN calls' = Callers
      /\ calls'[s] = [i \in 0 .. size[s] - 1 |-> calls[s][i] + 1]
      /\ \A x \in Callers : x # s => calls'[x] = calls[x]
  <2>1. s \in Callers /\ size[s] = 1 /\ calls[s] \in [0 .. size[s] - 1 -> Nat]
    BY DEF Types
  <2>2. 0 .. size[s] - 1 = {0}
    BY <2>1
  <2>3. DOMAIN calls = Callers
    BY DEF Types
  <2>4. calls' = [calls EXCEPT ![s] = [calls[s] EXCEPT ![0] = calls[s][0] + 1]]
    OBVIOUS
  <2>5. [calls[s] EXCEPT ![0] = calls[s][0] + 1] = [i \in 0 .. size[s] - 1 |-> calls[s][i] + 1]
    BY <2>1, <2>2
  <2> QED BY <2>1, <2>3, <2>4, <2>5
<1>1. Types'
  <2>1. pc' \in [Threads -> Holding \cup Helping \cup
                 {"submit", "done", "wait", "exited", "own", "wake", "join",
                  "destroyed", "absent"}]
    BY DEF Types
  <2>2. outcome' \in [Submitters -> {"none", "ok", "threw"}]
    BY DEF Types
  <2>3. DOMAIN calls' = Callers /\ \A x \in Callers : calls'[x] \in [0 .. size[x] - 1 -> Nat]
    <3>1. \A x \in Callers : calls[x] \in [0 .. size[x] - 1 -> Nat]
      BY DEF Types
    <3>2. calls'[s] \in [0 .. size[s] - 1 -> Nat]
      <4>1. calls[s] \in [0 .. size[s] - 1 -> Nat]
        BY <1>a, <3>1
      <4> QED BY <1>a, <4>1, OneMoreCall
    <3> QED BY <1>a, <3>1, <3>2
  <2> QED BY <2>1, <2>2, <2>3 DEF Types
<1>2. Locking'
  BY DEF Types, Locking
<1>3. Counting'
  <2>1. \A w \in Workers : pc'[w] \in Helping <=> pc[w] \in Helping
    BY DEF Types
  <2> QED BY <2>1, SamePending, SameCount
<1>4. Claiming'
  BY DEF Types, Claiming, Owns
<1>5. Running'
  <2>1. \A t \in Agents : Owns(t)' <=> Owns(t)
    BY DEF Types, Owns
  <2>2. ASSUME NEW x \in Submitters, pc[x] \in Open \cup {"return"}
        PROVE  Tallied(x)'
    <3>1. x \in Callers /\ x # s
      BY <2>2 DEF Types
    <3>2. Tallied(x)
      BY <2>2 DEF Running
    <3> QED BY <1>a, <2>1, <3>1, <3>2, SameTally
  <2> QED BY <2>2 DEF Types, Running, Described
<1>6. Settled'
  <2>1. ASSUME NEW x \in Callers, x # s
        PROVE  Answered(x)'
    <3>1. calls'[x] = calls[x] /\ Answered(x)
      BY <1>a, <2>1 DEF Settled
    <3>2. /\ outcome'[x] = outcome[x] /\ pc'[x] = pc[x]
          /\ size' = size /\ threw' = threw
      BY <2>1 DEF Types
    <3> QED BY <3>1, <3>2 DEF Answered
  <2>2. Answered(s)'
    <3>1. pc'[s] = "done" /\ outcome'[s] = "ok" /\ s \notin threw
      BY <1>a DEF Types, Settled, Answered
    <3>2. \A i \in 0 .. size[s] - 1 : calls'[s][i] = 1
      BY <1>a DEF Types, Settled, Answered
    <3> QED BY <3>1, <3>2 DEF Answered
  <2> QED BY <2>1, <2>2 DEF Settled
<1> QED BY <1>1, <1>2, <1>3, <1>4, <1>5, <1>6

(* Taking submission_mutex_ keeps the invariant. *)
LEMMA LockSubmissionStep ==
    ASSUME PoolInv, NEW s \in Submitters, LockSubmission(s), UNCHANGED config
    PROVE  PoolInv'
<1> USE PoolAssumption DEF PoolInv, LockSubmission, Go, job, loop, ghost,
           Threads, Agents, Executing, Helping, Open, Holding, Pool, Callers
<1>1. Types'
  BY DEF Types
<1>2. Locking'
  BY DEF Types, Locking
<1>3. Counting'
  <2>1. \A w \in Workers : pc'[w] \in Helping <=> pc[w] \in Helping
    BY DEF Types
  <2> QED BY <2>1, SamePending, SameCount
<1>4. Claiming'
  BY DEF Types, Claiming, Owns
<1>5. Running'
  <2>1. \A t \in Agents : Owns(t)' <=> Owns(t)
    BY DEF Types, Owns
  <2>2. \A t \in Agents : pc'[t] = "cancel" => pc[t] = "cancel"
    BY DEF Types
  <2> QED BY <2>1, <2>2, SameLoop DEF Types
<1>6. Settled'
  BY DEF Types, Settled, Answered
<1> QED BY <1>1, <1>2, <1>3, <1>4, <1>5, <1>6

(* Publishing a loop opens it with nothing claimed and every worker *)
(* pending.                                                         *)
LEMMA PublishStep ==
    ASSUME PoolInv, NEW s \in Submitters, Publish(s), UNCHANGED config
    PROVE  PoolInv'
<1> USE PoolAssumption DEF PoolInv, Publish, Go, job, loop, ghost,
           Threads, Agents, Executing, Helping, Open, Holding, Pool, Callers
<1>a. /\ s \in Callers /\ ~shutdown /\ function = None /\ remaining = 0 /\ size[s] \in Nat \ {0}
      /\ \A x \in Submitters : x # s => pc[x] \notin Holding
  BY DEF Types, Locking, Counting
<1>b. /\ chunk_size' \in Nat \ {0} /\ total_chunks' \in Nat
      /\ total' = size[s] /\ total' <= total_chunks' * chunk_size'
      /\ Cardinality(Pool) \in Nat
  <2>1. ChunkSize(size[s]) \in Nat \ {0}
    BY <1>a, ChunkSizeType
  <2>2. IsFiniteSet(Pool)
    BY FS_Subset DEF Types
  <2> QED BY <1>a, <2>1, <2>2, CeilDivCovers, FS_CardinalityType
<1>c. \A w \in Workers :
        pc[w] \notin Helping /\ (w \in Pool => observed[w] = generation)
  <2>1. Pending = {}
    BY <1>a, NobodyPending
  <2> QED BY <2>1 DEF Pending, Types
<1>e. pc'[s] = "notify" /\ \A t \in Agents : t # s => pc'[t] = pc[t]
  BY DEF Types
<1>d. \A t \in Agents : ~Owns(t)'
  <2> HIDE DEF Publish, PoolInv
  <2>1. ASSUME NEW w \in Workers PROVE pc'[w] = pc[w] /\ pc[w] \notin Helping
    BY <1>c, <1>e
  <2>2. ASSUME NEW x \in Submitters, x # s PROVE pc'[x] = pc[x] /\ pc[x] \notin Holding
    BY <1>a, <1>e, <2>2
  <2> QED BY <1>e, <2>1, <2>2 DEF Owns
<1>1. Types'
  <2>1. pc' \in [Threads -> Holding \cup Helping \cup
                 {"submit", "done", "wait", "exited", "own", "wake", "join",
                  "destroyed", "absent"}]
    BY DEF Types
  <2>2. \A w \in Workers : pc'[w] = pc[w]
    BY <1>e
  <2>3. \A x \in Submitters : x # s => pc'[x] = pc[x]
    BY <1>e
  <2>4. /\ \A w \in Workers : pc'[w] \in Helping \cup {"wait", "exited", "absent"}
        /\ \A w \in Workers : pc'[w] # "absent" => w \in Pool
        /\ \A x \in Submitters : pc'[x] \in Holding \cup {"submit", "done", "absent"}
        /\ \A x \in Submitters : pc'[x] = "absent" <=> x \notin Callers
    BY <1>a, <1>e, <2>2, <2>3 DEF Types
  <2>5. /\ generation' \in Nat /\ remaining' \in Nat /\ observed' \in [Workers -> Nat]
        /\ function' \in Submitters \cup {None}
        /\ total' \in Nat /\ chunk_size' \in Nat /\ total_chunks' \in Nat /\ next_chunk' \in Nat
    BY <1>a, <1>b DEF Types
  <2>6. shutdown' \in BOOLEAN /\ cancelled' \in BOOLEAN /\ exception' \in BOOLEAN
    BY DEF Types
  <2> QED BY <2>1, <2>4, <2>5, <2>6 DEF Types
<1>2. Locking'
  BY DEF Types, Locking
<1>3. Counting'
  <2>1. Pending' = Pool
    BY <1>c DEF Types, Pending
  <2>2. \A w \in Workers : pc'[w] \notin Helping
    BY <1>c, <1>e
  <2>3. \A w \in Workers : observed[w] <= generation + 1
    BY DEF Types, Counting
  <2> QED BY <1>a, <2>1, <2>2, <2>3 DEF Counting
<1>4. Claiming'
  BY <1>d DEF Claiming
<1>5. Running'
  <2>1. \A x \in Submitters : pc'[x] \in Open \cup {"return"} => x = s
    BY <1>a DEF Types
  <2>2. Described(s)'
    <3>1. s \notin threw
      BY <1>a DEF Settled, Answered
    <3> QED BY <1>b, <3>1 DEF Described, Types
  <2>3. Tallied(s)'
    <3>1. \A i \in 0 .. size[s] - 1 : calls[s][i] = 0
      BY <1>a DEF Settled, Answered
    <3>2. Frontier' = 0
      BY <1>b DEF Frontier
    <3> QED BY <3>1, <3>2, <1>a DEF Tallied, Types
  <2>4. \A t \in Agents : pc'[t] # "cancel"
    BY <1>a, <1>c, <1>e
  <2> QED BY <2>1, <2>2, <2>3, <2>4 DEF Running
<1>6. Settled'
  BY DEF Types, Settled, Answered
<1> QED BY <1>1, <1>2, <1>3, <1>4, <1>5, <1>6

(* The notification after the unlock changes no loop. *)
LEMMA NotifyWorkersStep ==
    ASSUME PoolInv, NEW s \in Submitters, NotifyWorkers(s), UNCHANGED config
    PROVE  PoolInv'
<1> USE PoolAssumption DEF PoolInv, NotifyWorkers, Go, job, loop, ghost,
           Threads, Agents, Executing, Helping, Open, Holding, Pool, Callers
<1>1. Types'
  BY DEF Types
<1>2. Locking'
  BY DEF Types, Locking
<1>3. Counting'
  <2>1. \A w \in Workers : pc'[w] \in Helping <=> pc[w] \in Helping
    BY DEF Types
  <2> QED BY <2>1, SamePending, SameCount
<1>4. Claiming'
  BY DEF Types, Claiming, Owns
<1>5. Running'
  <2>1. \A t \in Agents : Owns(t)' <=> Owns(t)
    BY DEF Types, Owns
  <2>2. \A t \in Agents : pc'[t] = "cancel" => pc[t] = "cancel"
    BY DEF Types
  <2> QED BY <2>1, <2>2, SameLoop DEF Types
<1>6. Settled'
  BY DEF Types, Settled, Answered
<1> QED BY <1>1, <1>2, <1>3, <1>4, <1>5, <1>6

(* The first look at cancelled keeps the invariant. *)
LEMMA CheckCancelledStep ==
    ASSUME PoolInv, NEW t \in Agents, CheckCancelled(t), UNCHANGED config
    PROVE  PoolInv'
<1> USE PoolAssumption DEF PoolInv, CheckCancelled, Go, job, loop, ghost, AfterJob,
           Threads, Agents, Executing, Helping, Open, Holding, Pool, Callers
<1>1. Types'
  BY DEF Types
<1>2. Locking'
  BY DEF Types, Locking
<1>3. Counting'
  <2>1. \A w \in Workers : pc'[w] \in Helping <=> pc[w] \in Helping
    BY DEF Types
  <2> QED BY <2>1, SamePending, SameCount
<1>4. Claiming'
  BY DEF Types, Claiming, Owns
<1>5. Running'
  <2>1. \A u \in Agents : Owns(u)' <=> Owns(u)
    BY DEF Types, Owns
  <2>2. \A u \in Agents : pc'[u] = "cancel" => pc[u] = "cancel"
    BY DEF Types
  <2> QED BY <2>1, <2>2, SameLoop DEF Types
<1>6. Settled'
  BY DEF Types, Settled, Answered
<1> QED BY <1>1, <1>2, <1>3, <1>4, <1>5, <1>6

(* The atomic increment of next_chunk gives a chunk to one thread. *)
LEMMA ClaimChunkStep ==
    ASSUME PoolInv, NEW t \in Agents, ClaimChunk(t), UNCHANGED config
    PROVE  PoolInv'
<1> USE PoolAssumption DEF PoolInv, ClaimChunk, Go, job, loop, ghost,
           Threads, Agents, Executing, Helping, Open, Holding, Pool, Callers
<1>a. /\ function \in Callers /\ function \in Submitters /\ pc[function] \in Open
      /\ \A s \in Submitters : pc[s] \in Holding => s = function
      /\ Described(function) /\ Tallied(function)
  BY TheLoop DEF Running
<1>b. chunk'[t] = next_chunk /\ \A u \in Agents : u # t => chunk'[u] = chunk[u]
  BY DEF Types
<1>1. Types'
  BY DEF Types
<1>2. Locking'
  BY DEF Types, Locking
<1>3. Counting'
  <2>1. \A w \in Workers : pc'[w] \in Helping <=> pc[w] \in Helping
    BY DEF Types
  <2> QED BY <2>1, SamePending, SameCount
<1>4. Claiming'
  <2>1. \A u \in Agents : Owns(u)' <=> Owns(u) \/ u = t
    BY DEF Types, Owns
  <2> QED BY <2>1, <1>b DEF Types, Claiming
<1>5. Running'
  <2>1. \A u \in Agents : Owns(u)' <=> Owns(u) \/ u = t
    BY DEF Types, Owns
  <2>2. ~Owns(t)
    BY DEF Owns
  <2>3. Frontier' = Frontier + chunk_size /\ Frontier \in Nat /\ chunk_size \in Nat
    BY Product DEF Types, Frontier
  <2>4. \A c : Span(c)' = Span(c)
    BY DEF Span
  <2>5. Span(next_chunk) = Frontier .. Frontier + chunk_size - 1
    BY DEF Span, Frontier
  <2>6. size[function] \in Nat \ {0} /\ calls' = calls
    BY <1>a DEF Types
  <2>7. Tallied(function)'
    BY <1>a, <1>b, <2>1, <2>2, <2>3, <2>4, <2>5, <2>6 DEF Tallied
  <2>8. Described(function)'
    BY <1>a DEF Described, Types
  <2> QED BY <1>a, <2>7, <2>8 DEF Running, Types
<1>6. Settled'
  BY DEF Types, Settled, Answered
<1> QED BY <1>1, <1>2, <1>3, <1>4, <1>5, <1>6

(* A claimed chunk past the end, or of a canceled loop, is not called. *)
LEMMA RecheckStep ==
    ASSUME PoolInv, NEW t \in Agents, Recheck(t), UNCHANGED config
    PROVE  PoolInv'
<1> USE PoolAssumption DEF PoolInv, Recheck, Go, job, loop, ghost, AfterJob,
           Threads, Agents, Executing, Helping, Open, Holding, Pool, Callers
<1>a. /\ function \in Callers /\ function \in Submitters /\ pc[function] \in Open
      /\ \A s \in Submitters : pc[s] \in Holding => s = function
      /\ Described(function) /\ Tallied(function)
  BY TheLoop DEF Running
<1>1. Types'
  BY DEF Types
<1>2. Locking'
  BY DEF Types, Locking
<1>3. Counting'
  <2>1. \A w \in Workers : pc'[w] \in Helping <=> pc[w] \in Helping
    BY DEF Types
  <2> QED BY <2>1, SamePending, SameCount
<1>4. Claiming'
  <2>1. \A u \in Agents : Owns(u)' => Owns(u)
    BY DEF Types, Owns
  <2> QED BY <2>1, SameClaims
<1>5. Running'
  <2>1. CASE pc'[t] = "call"
    <3>1. \A u \in Agents : Owns(u)' <=> Owns(u)
      BY <2>1 DEF Types, Owns
    <3>2. \A u \in Agents : pc'[u] = "cancel" => pc[u] = "cancel"
      BY <2>1 DEF Types
    <3> QED BY <2>1, <3>1, <3>2, SameLoop DEF Types
  <2>2. CASE pc'[t] # "call"
    <3>1. chunk[t] >= total_chunks \/ cancelled
      BY <2>2 DEF Types
    <3>2. \A u \in Agents : Owns(u)' <=> Owns(u) /\ u # t
      BY <2>2 DEF Types, Owns
    <3>3. Owns(t) /\ chunk[t] < next_chunk
      BY DEF Owns, Claiming
    <3>4. ASSUME NEW i \in 0 .. size[function] - 1, i \in Span(chunk[t])
          PROVE  exception
      <4>1. total = size[function] /\ total <= total_chunks * chunk_size
        BY <1>a DEF Described
      <4>2. chunk[t] * chunk_size <= i /\ total \in Nat
        BY <3>4, Product DEF Span, Types
      <4>3. chunk[t] >= total_chunks => total_chunks * chunk_size <= chunk[t] * chunk_size
        BY Monotone DEF Types
      <4>4. chunk[t] * chunk_size \in Nat /\ total_chunks * chunk_size \in Nat
        BY Product DEF Types
      <4>5. ~(chunk[t] >= total_chunks)
        BY <4>1, <4>2, <4>3, <4>4
      <4> QED BY <3>1, <4>5 DEF Running
    <3>5. Frontier' = Frontier /\ \A c : Span(c)' = Span(c)
      BY DEF Frontier, Span
    <3>6. Tallied(function)'
      BY <1>a, <3>2, <3>4, <3>5 DEF Tallied
    <3>7. Described(function)'
      BY <1>a, <3>1, <3>3 DEF Described, Types
    <3>8. \A u \in Agents : pc'[u] = "cancel" => pc[u] = "cancel"
      BY DEF Types
    <3> QED BY <1>a, <3>6, <3>7, <3>8 DEF Running, Types
  <2> QED BY <2>1, <2>2
<1>6. Settled'
  BY DEF Types, Settled, Answered
<1> QED BY <1>1, <1>2, <1>3, <1>4, <1>5, <1>6

(* A call that returns keeps the invariant. *)
LEMMA CallReturnsStep ==
    ASSUME PoolInv, NEW t \in Agents, CallReturns(t), UNCHANGED config
    PROVE  PoolInv'
<1> USE PoolAssumption DEF PoolInv, CallReturns, Go, job, loop, ghost, InCallback,
           Threads, Agents, Executing, Helping, Open, Holding, Pool, Callers
<1>b. Called(Indices(t))
  OBVIOUS
<1>a. /\ function \in Callers /\ function \in Submitters /\ pc[function] \in Open
      /\ \A s \in Submitters : pc[s] \in Holding => s = function
      /\ Described(function) /\ Tallied(function)
  BY TheLoop DEF Running
<1>c. /\ DOMAIN calls' = Callers
      /\ \A s \in Callers : calls'[s] \in [0 .. size[s] - 1 -> Nat]
      /\ \A s \in Callers : s # function => calls'[s] = calls[s]
  BY <1>a, CallTypes
<1>d. \A u \in Agents : Owns(u)' <=> Owns(u) /\ u # t
  BY DEF Types, Owns
<1>1. Types'
  <2>1. pc' \in [Threads -> Holding \cup Helping \cup
                 {"submit", "done", "wait", "exited", "own", "wake", "join",
                  "destroyed", "absent"}]
    BY DEF Types
  <2>2. /\ \A w \in Workers : pc'[w] \in Helping \cup {"wait", "exited", "absent"}
        /\ \A w \in Workers : pc'[w] # "absent" => w \in Pool
        /\ \A s \in Submitters : pc'[s] \in Holding \cup {"submit", "done", "absent"}
        /\ \A s \in Submitters : pc'[s] = "absent" <=> s \notin Callers
    BY DEF Types
  <2> QED BY <1>c, <2>1, <2>2 DEF Types
<1>2. Locking'
  BY DEF Types, Locking
<1>3. Counting'
  <2>1. \A w \in Workers : pc'[w] \in Helping <=> pc[w] \in Helping
    BY DEF Types
  <2> QED BY <2>1, SamePending, SameCount
<1>4. Claiming'
  BY <1>d, SameClaims
<1>5. Running'
  <2>1. Tallied(function)'
    BY <1>b, <1>d, CallSpan, CallTally
  <2>2. Described(function)'
    BY <1>a DEF Described, Types
  <2>3. \A u \in Agents : pc'[u] = "cancel" => pc[u] = "cancel"
    BY DEF Types
  <2>4. \A s \in Submitters : pc'[s] \in Open \cup {"return"} => s = function
    BY <1>a DEF Types
  <2> QED BY <2>1, <2>2, <2>3, <2>4 DEF Running
<1>6. Settled'
  <2>1. ASSUME NEW s \in Callers PROVE Answered(s)'
    <3>1. CASE s = function
      BY <1>a, <3>1 DEF Types, Settled, Answered
    <3>2. CASE s # function
      BY <1>c, <3>2 DEF Types, Settled, Answered
    <3> QED BY <3>1, <3>2
  <2> QED BY <2>1 DEF Settled
<1> QED BY <1>1, <1>2, <1>3, <1>4, <1>5, <1>6

(* A call that throws leaves the exception of the loop. *)
LEMMA CallThrowsStep ==
    ASSUME PoolInv, NEW t \in Agents, CallThrows(t), UNCHANGED config
    PROVE  PoolInv'
<1> USE PoolAssumption DEF PoolInv, CallThrows, Go, job, loop, ghost,
           Threads, Agents, Executing, Helping, Open, Holding, Pool, Callers
<1>e. PICK last \in Indices(t) : Called({k \in Indices(t) : k < last})
  OBVIOUS
<1> DEFINE D == {k \in Indices(t) : k < last}
<1>b. D \in SUBSET Span(chunk[t]) /\ Called(D)
  BY <1>e, CallSpan
<1> HIDE DEF D
<1>a. /\ function \in Callers /\ function \in Submitters /\ pc[function] \in Open
      /\ \A s \in Submitters : pc[s] \in Holding => s = function
      /\ Described(function) /\ Tallied(function)
  BY TheLoop DEF Running
<1>c. /\ DOMAIN calls' = Callers
      /\ \A s \in Callers : calls'[s] \in [0 .. size[s] - 1 -> Nat]
      /\ \A s \in Callers : s # function => calls'[s] = calls[s]
  BY <1>a, <1>b, CallTypes
<1>d. \A u \in Agents : Owns(u)' <=> Owns(u) /\ u # t
  BY DEF Types, Owns
<1>1. Types'
  <2>1. pc' \in [Threads -> Holding \cup Helping \cup
                 {"submit", "done", "wait", "exited", "own", "wake", "join",
                  "destroyed", "absent"}]
    BY DEF Types
  <2>2. /\ \A w \in Workers : pc'[w] \in Helping \cup {"wait", "exited", "absent"}
        /\ \A w \in Workers : pc'[w] # "absent" => w \in Pool
        /\ \A s \in Submitters : pc'[s] \in Holding \cup {"submit", "done", "absent"}
        /\ \A s \in Submitters : pc'[s] = "absent" <=> s \notin Callers
    BY DEF Types
  <2>3. threw' \subseteq Submitters /\ exception' \in BOOLEAN
    BY <1>a DEF Types
  <2> QED BY <1>c, <2>1, <2>2, <2>3 DEF Types
<1>2. Locking'
  BY DEF Types, Locking
<1>3. Counting'
  <2>1. \A w \in Workers : pc'[w] \in Helping <=> pc[w] \in Helping
    BY DEF Types
  <2> QED BY <2>1, SamePending, SameCount
<1>4. Claiming'
  BY <1>d, SameClaims
<1>5. Running'
  <2>1. Tallied(function)'
    BY <1>b, <1>d, CallTally
  <2>2. Described(function)'
    BY <1>a DEF Described, Types
  <2>3. \A s \in Submitters : pc'[s] \in Open \cup {"return"} => s = function
    BY <1>a DEF Types
  <2> QED BY <2>1, <2>2, <2>3 DEF Running
<1>6. Settled'
  <2>1. ASSUME NEW s \in Callers PROVE Answered(s)'
    <3>1. CASE s = function
      BY <1>a, <3>1 DEF Types, Settled, Answered
    <3>2. CASE s # function
      BY <1>c, <3>2 DEF Types, Settled, Answered
    <3> QED BY <3>1, <3>2
  <2> QED BY <2>1 DEF Settled
<1> QED BY <1>1, <1>2, <1>3, <1>4, <1>5, <1>6

(* Canceling after an exception keeps the invariant. *)
LEMMA CancelStep ==
    ASSUME PoolInv, NEW t \in Agents, Cancel(t), UNCHANGED config
    PROVE  PoolInv'
<1> USE PoolAssumption DEF PoolInv, Cancel, Go, job, loop, ghost, AfterJob,
           Threads, Agents, Executing, Helping, Open, Holding, Pool, Callers
<1>1. Types'
  BY DEF Types
<1>2. Locking'
  BY DEF Types, Locking
<1>3. Counting'
  <2>1. \A w \in Workers : pc'[w] \in Helping <=> pc[w] \in Helping
    BY DEF Types
  <2> QED BY <2>1, SamePending, SameCount
<1>4. Claiming'
  BY DEF Types, Claiming, Owns
<1>5. Running'
  <2>1. \A u \in Agents : Owns(u)' <=> Owns(u)
    BY DEF Types, Owns
  <2>2. \A s \in Submitters : Tallied(s) => Tallied(s)'
    BY <2>1, SameTally
  <2>3. \A s \in Submitters : Described(s) => Described(s)'
    BY DEF Described
  <2>4. \A s \in Submitters : pc'[s] \in Open \cup {"return"} => pc[s] \in Open \cup {"return"}
    BY DEF Types
  <2>5. exception' /\ \A u \in Agents : pc'[u] = "cancel" => pc[u] = "cancel"
    BY DEF Types, Running
  <2> QED BY <2>2, <2>3, <2>4, <2>5 DEF Running
<1>6. Settled'
  BY DEF Types, Settled, Answered
<1> QED BY <1>1, <1>2, <1>3, <1>4, <1>5, <1>6

(* The submitter leaves its wait only when every worker has reported. *)
LEMMA CollectStep ==
    ASSUME PoolInv, NEW s \in Submitters, Collect(s), UNCHANGED config
    PROVE  PoolInv'
<1> USE PoolAssumption DEF PoolInv, Collect, Go, job, loop, ghost,
           Threads, Agents, Executing, Helping, Open, Holding, Pool, Callers
<1>a. /\ \A t \in Threads : t # s => pc'[t] = pc[t]
      /\ pc'[s] \in {"collect", "return"}
      /\ s \in Callers
  BY DEF Types
<1>1. Types'
  <2>1. pc' \in [Threads -> Holding \cup Helping \cup
                 {"submit", "done", "wait", "exited", "own", "wake", "join",
                  "destroyed", "absent"}]
    <3>1. CASE remaining = 0
      <4>1. pc' = [pc EXCEPT ![s] = "return"]
        BY <3>1
      <4> QED BY <4>1 DEF Types
    <3>2. CASE remaining # 0
      <4>1. pc' = pc
        BY <3>2
      <4> QED BY <4>1 DEF Types
    <3> QED BY <3>1, <3>2
  <2>2. /\ \A w \in Workers : pc'[w] \in Helping \cup {"wait", "exited", "absent"}
        /\ \A w \in Workers : pc'[w] # "absent" => w \in Pool
        /\ \A x \in Submitters : pc'[x] \in Holding \cup {"submit", "done", "absent"}
        /\ \A x \in Submitters : pc'[x] = "absent" <=> x \notin Callers
    BY <1>a DEF Types
  <2> QED BY <2>1, <2>2 DEF Types
<1>2. Locking'
  <2>1. submission = s /\ function = s
    BY DEF Locking
  <2>2. (function' = s <=> pc'[s] = "collect") /\ function' \in {s, None}
    <3>1. CASE remaining = 0
      BY <2>1, <3>1 DEF Types
    <3>2. CASE remaining # 0
      BY <2>1, <3>2 DEF Types
    <3> QED BY <3>1, <3>2
  <2>3. \A x \in Submitters : x # s => pc'[x] = pc[x] /\ pc[x] \notin Holding
    BY <1>a, <2>1 DEF Locking
  <2>4. pc'[Owner] = pc[Owner] /\ \A x \in Callers : x # s => pc'[x] = pc[x]
    BY <1>a DEF Types
  <2> QED BY <1>a, <2>1, <2>2, <2>3, <2>4 DEF Locking
<1>3. Counting'
  <2>1. \A w \in Workers : pc'[w] \in Helping <=> pc[w] \in Helping
    BY DEF Types
  <2> QED BY <2>1, SamePending, SameCount
<1>4. Claiming'
  <2>1. \A t \in Agents : Owns(t)' => Owns(t)
    BY DEF Types, Owns
  <2> QED BY <2>1, SameClaims
<1>5. Running'
  <2>1. \A t \in Agents : Owns(t)' <=> Owns(t)
    BY DEF Types, Owns
  <2>2. \A t \in Agents : pc'[t] = "cancel" => pc[t] = "cancel"
    BY DEF Types
  <2> QED BY <2>1, <2>2, SameLoop DEF Types
<1>6. Settled'
  BY DEF Types, Settled, Answered
<1> QED BY <1>1, <1>2, <1>3, <1>4, <1>5, <1>6

(* The loop returns, or throws what its function threw. *)
LEMMA ReturnStep ==
    ASSUME PoolInv, NEW s \in Submitters, Return(s), UNCHANGED config
    PROVE  PoolInv'
<1> USE PoolAssumption DEF PoolInv, Return, Go, job, loop, ghost,
           Threads, Agents, Executing, Helping, Open, Holding, Pool, Callers
<1>a. /\ s \in Callers /\ ~shutdown /\ function = None /\ remaining = 0 /\ size[s] \in Nat \ {0}
      /\ \A x \in Submitters : x # s => pc[x] \notin Holding
  BY DEF Types, Locking, Counting
<1>b. \A t \in Agents : ~Owns(t)
  <2>1. Pending = {}
    BY <1>a, NobodyPending
  <2>2. \A w \in Workers : pc[w] \notin Helping
    BY <2>1 DEF Pending, Types
  <2> QED BY <1>a, <2>2 DEF Owns
<1>1. Types'
  <2>1. pc' \in [Threads -> Holding \cup Helping \cup
                 {"submit", "done", "wait", "exited", "own", "wake", "join",
                  "destroyed", "absent"}]
    BY DEF Types
  <2>2. /\ \A w \in Workers : pc'[w] \in Helping \cup {"wait", "exited", "absent"}
        /\ \A w \in Workers : pc'[w] # "absent" => w \in Pool
        /\ \A x \in Submitters : pc'[x] \in Holding \cup {"submit", "done", "absent"}
        /\ \A x \in Submitters : pc'[x] = "absent" <=> x \notin Callers
    BY DEF Types
  <2> QED BY <2>1, <2>2 DEF Types
<1>2. Locking'
  BY DEF Types, Locking
<1>3. Counting'
  <2>1. \A w \in Workers : pc'[w] \in Helping <=> pc[w] \in Helping
    BY DEF Types
  <2> QED BY <2>1, SamePending, SameCount
<1>4. Claiming'
  <2>1. \A t \in Agents : Owns(t)' => Owns(t)
    BY DEF Types, Owns
  <2> QED BY <2>1, SameClaims
<1>5. Running'
  <2>1. \A t \in Agents : Owns(t)' <=> Owns(t)
    BY DEF Types, Owns
  <2>2. \A t \in Agents : pc'[t] = "cancel" => pc[t] = "cancel"
    BY DEF Types
  <2> QED BY <2>1, <2>2, SameLoop DEF Types
<1>6. Settled'
  <2>1. Described(s) /\ Tallied(s)
    BY DEF Running
  <2>2. ~exception => \A i \in 0 .. size[s] - 1 : i < Frontier
    <3>1. ~exception => next_chunk >= total_chunks
      BY <2>1 DEF Described, Running
    <3>2. next_chunk >= total_chunks => total_chunks * chunk_size <= Frontier
      BY Monotone DEF Frontier, Types
    <3>3. total_chunks * chunk_size \in Nat /\ Frontier \in Nat
      BY Product DEF Frontier, Types
    <3> QED BY <1>a, <2>1, <3>1, <3>2, <3>3 DEF Described
  <2>3. Frontier \in Nat
    BY Product DEF Frontier, Types
  <2>4. ASSUME NEW i \in 0 .. size[s] - 1
        PROVE  calls[s][i] <= 1 /\ (~exception => calls[s][i] = 1)
    <3>1. calls[s] \in [0 .. size[s] - 1 -> Nat]
      BY <1>a DEF Types
    <3>2. calls[s][i] \in Nat /\ i \in Nat
      BY <1>a, <3>1
    <3> QED BY <1>b, <2>1, <2>2, <2>3, <2>4, <3>2 DEF Tallied
  <2>5. /\ outcome'[s] = IF exception THEN "threw" ELSE "ok"
        /\ \A x \in Callers : x # s => outcome'[x] = outcome[x] /\ pc'[x] = pc[x]
        /\ pc'[s] = "done"
    BY <1>a DEF Types
  <2>6. exception <=> s \in threw
    BY <2>1 DEF Described
  <2>7. Answered(s)'
    BY <2>4, <2>5, <2>6 DEF Answered
  <2>8. ASSUME NEW x \in Callers, x # s PROVE Answered(x)'
    BY <2>5, <2>8 DEF Answered, Settled
  <2> QED BY <2>7, <2>8 DEF Settled
<1> QED BY <1>1, <1>2, <1>3, <1>4, <1>5, <1>6

(* A worker that sees a new generation joins it once. *)
LEMMA AwaitWorkStep ==
    ASSUME PoolInv, NEW w \in Workers, AwaitWork(w), UNCHANGED config
    PROVE  PoolInv'
<1> USE PoolAssumption DEF PoolInv, AwaitWork, Go, job, loop, ghost, HasWork,
           Threads, Agents, Executing, Helping, Open, Holding, Pool, Callers
<1>a. /\ \A t \in Threads : t # w => pc'[t] = pc[t]
      /\ pc'[w] \in {"exited", "check", "wait"}
      /\ pc'[w] = "exited" => shutdown
      /\ pc'[w] = "check" => ~shutdown /\ observed[w] # generation
      /\ pc[w] = "wait" /\ w \in Pool
  BY DEF Types
<1>1. Types'
  <2>1. pc' \in [Threads -> Holding \cup Helping \cup
                 {"submit", "done", "wait", "exited", "own", "wake", "join",
                  "destroyed", "absent"}]
    <3>1. pc' = [pc EXCEPT ![w] = pc'[w]]
      BY DEF Types
    <3> QED BY <1>a, <3>1 DEF Types
  <2>2. /\ \A x \in Workers : pc'[x] \in Helping \cup {"wait", "exited", "absent"}
        /\ \A x \in Workers : pc'[x] # "absent" => x \in Pool
        /\ \A x \in Submitters : pc'[x] \in Holding \cup {"submit", "done", "absent"}
        /\ \A x \in Submitters : pc'[x] = "absent" <=> x \notin Callers
    BY <1>a DEF Types
  <2>3. observed' \in [Workers -> Nat]
    BY DEF Types
  <2> QED BY <2>1, <2>2, <2>3 DEF Types
<1>2. Locking'
  <2>1. \A s \in Submitters \cup {Owner} : pc'[s] = pc[s]
    BY <1>a
  <2> QED BY <2>1 DEF Locking, Types
<1>3. Counting'
  <2>1. CASE shutdown
    BY <1>a, <2>1 DEF Counting, Types
  <2>2. CASE ~shutdown
    <3>1. \A x \in Workers : x # w => observed'[x] = observed[x]
      BY <2>2 DEF Types
    <3>2. pc'[w] = "check" => observed'[w] = generation
      BY <2>2 DEF Types
    <3>3. pc'[w] # "check" => observed' = observed
      BY <2>2 DEF Types
    <3>4. pc[w] \notin Helping /\ (pc'[w] \in Helping <=> pc'[w] = "check")
      BY <1>a
    <3>5. ASSUME NEW x \in Workers
          PROVE  (pc'[x] \in Helping \/ observed'[x] # generation)
                    <=> (pc[x] \in Helping \/ observed[x] # generation)
      BY <1>a, <3>1, <3>2, <3>3, <3>4
    <3>6. Pending' = Pending
      BY <3>5 DEF Pending, Types
    <3>7. \A x \in Workers : observed'[x] <= generation
      <4>1. observed'[w] = generation \/ observed'[w] = observed[w]
        BY <3>2, <3>3
      <4>2. generation \in Nat /\ observed \in [Workers -> Nat]
        BY DEF Types
      <4> QED BY <3>1, <4>1, <4>2 DEF Counting
    <3>8. \A x \in Workers : pc'[x] \in Helping => observed'[x] = generation
      BY <1>a, <3>1, <3>2, <3>4 DEF Counting
    <3> QED BY <2>2, <3>6, <3>7, <3>8 DEF Counting
  <2> QED BY <2>1, <2>2
<1>d. \A t \in Agents : Owns(t)' <=> Owns(t)
  BY <1>a DEF Owns
<1>4. Claiming'
  BY <1>d, SameClaims
<1>5. Running'
  BY <1>a, <1>d, SameLoop
<1>6. Settled'
  BY <1>a DEF Types, Settled, Answered
<1> QED BY <1>1, <1>2, <1>3, <1>4, <1>5, <1>6

(* A worker that reports is no longer pending. *)
LEMMA ReportStep ==
    ASSUME PoolInv, NEW w \in Workers, Report(w), UNCHANGED config
    PROVE  PoolInv'
<1> USE PoolAssumption DEF PoolInv, Report, Go, job, loop, ghost,
           Threads, Agents, Executing, Helping, Open, Holding, Pool, Callers
<1>a. pc'[w] = "wait" /\ \A t \in Agents : t # w => pc'[t] = pc[t]
  BY DEF Types
<1>b. ~shutdown /\ observed[w] = generation /\ w \in Pool /\ function \in Submitters
  BY AtWork DEF Types, Counting
<1>c. Pending' = Pending \ {w} /\ w \in Pending
  BY <1>a, <1>b DEF Pending, Types
<1>e. remaining = Cardinality(Pending) /\ remaining' = Cardinality(Pending') /\ remaining' \in Nat
  <2>1. IsFiniteSet(Pending) /\ remaining = Cardinality(Pending)
    BY <1>b, PendingFinite DEF Counting
  <2>2. IsFiniteSet(Pending') /\ Cardinality(Pending') = Cardinality(Pending) - 1
    BY <1>c, <2>1, FS_RemoveElement
  <2> QED BY <2>1, <2>2, FS_CardinalityType
<1>1. Types'
  <2>1. pc' \in [Threads -> Holding \cup Helping \cup
                 {"submit", "done", "wait", "exited", "own", "wake", "join",
                  "destroyed", "absent"}]
    BY DEF Types
  <2>2. /\ \A x \in Workers : pc'[x] \in Helping \cup {"wait", "exited", "absent"}
        /\ \A x \in Workers : pc'[x] # "absent" => x \in Pool
        /\ \A x \in Submitters : pc'[x] \in Holding \cup {"submit", "done", "absent"}
        /\ \A x \in Submitters : pc'[x] = "absent" <=> x \notin Callers
    BY <1>a, <1>b DEF Types
  <2> QED BY <1>e, <2>1, <2>2 DEF Types
<1>2. Locking'
  BY <1>a DEF Types, Locking
<1>3. Counting'
  BY <1>a, <1>b, <1>e DEF Counting
<1>d. \A t \in Agents : Owns(t)' <=> Owns(t)
  BY <1>a DEF Owns
<1>4. Claiming'
  BY <1>d, SameClaims
<1>5. Running'
  BY <1>a, <1>d, SameLoop
<1>6. Settled'
  BY <1>a DEF Types, Settled, Answered
<1> QED BY <1>1, <1>2, <1>3, <1>4, <1>5, <1>6

(* A wakeup without a reason changes nothing. *)
LEMMA SpuriousWakeupStep ==
    ASSUME PoolInv, NEW t \in Threads, SpuriousWakeup(t), UNCHANGED config
    PROVE  PoolInv'
<1> USE PoolAssumption DEF PoolInv, SpuriousWakeup, Go, job, loop, ghost,
           Threads, Agents, Executing, Helping, Open, Holding, Pool, Callers
<1>a. \A u \in Agents : pc'[u] = pc[u]
  BY DEF Types
<1>1. Types'
  <2>1. pc' \in [Threads -> Holding \cup Helping \cup
                 {"submit", "done", "wait", "exited", "own", "wake", "join",
                  "destroyed", "absent"}]
    BY DEF Types
  <2>2. /\ \A w \in Workers : pc'[w] \in Helping \cup {"wait", "exited", "absent"}
        /\ \A w \in Workers : pc'[w] # "absent" => w \in Pool
        /\ \A x \in Submitters : pc'[x] \in Holding \cup {"submit", "done", "absent"}
        /\ \A x \in Submitters : pc'[x] = "absent" <=> x \notin Callers
    BY DEF Types
  <2> QED BY <2>1, <2>2 DEF Types
<1>2. Locking'
  BY <1>a DEF Types, Locking
<1>3. Counting'
  <2>1. \A w \in Workers : pc'[w] \in Helping <=> pc[w] \in Helping
    BY DEF Types
  <2> QED BY <2>1, SamePending, SameCount
<1>d. \A u \in Agents : Owns(u)' <=> Owns(u)
  BY <1>a DEF Owns
<1>4. Claiming'
  BY <1>d, SameClaims
<1>5. Running'
  BY <1>a, <1>d, SameLoop
<1>6. Settled'
  BY <1>a DEF Types, Settled, Answered
<1> QED BY <1>1, <1>2, <1>3, <1>4, <1>5, <1>6

(* Shutdown is requested only when no loop is open. *)
LEMMA RequestShutdownStep ==
    ASSUME PoolInv, RequestShutdown, UNCHANGED config
    PROVE  PoolInv'
<1> USE PoolAssumption DEF PoolInv, RequestShutdown, Go, job, loop, ghost,
           Threads, Agents, Executing, Helping, Open, Holding, Pool, Callers
<1>a. \A t \in Agents : pc'[t] = pc[t]
  BY DEF Types
<1>b. /\ function = None
      /\ ~shutdown => \A w \in Workers : pc[w] \notin Helping
  <2>1. function = None
    BY DEF Locking, Types
  <2>2. ~shutdown => Pending = {}
    BY <2>1, NobodyPending DEF Counting
  <2> QED BY <2>1, <2>2 DEF Pending, Types
<1>1. Types'
  <2>1. pc' \in [Threads -> Holding \cup Helping \cup
                 {"submit", "done", "wait", "exited", "own", "wake", "join",
                  "destroyed", "absent"}]
    BY DEF Types
  <2>2. /\ \A w \in Workers : pc'[w] \in Helping \cup {"wait", "exited", "absent"}
        /\ \A w \in Workers : pc'[w] # "absent" => w \in Pool
        /\ \A x \in Submitters : pc'[x] \in Holding \cup {"submit", "done", "absent"}
        /\ \A x \in Submitters : pc'[x] = "absent" <=> x \notin Callers
    BY <1>a DEF Types
  <2>3. generation' \in Nat /\ shutdown' \in BOOLEAN
    BY DEF Types
  <2> QED BY <2>1, <2>2, <2>3 DEF Types
<1>2. Locking'
  BY <1>a, <1>b DEF Types, Locking
<1>3. Counting'
  BY <1>a, <1>b DEF Types, Counting
<1>d. \A t \in Agents : Owns(t)' <=> Owns(t)
  BY <1>a DEF Owns
<1>4. Claiming'
  BY <1>d, SameClaims
<1>5. Running'
  BY <1>a, <1>d, SameLoop
<1>6. Settled'
  BY <1>a DEF Types, Settled, Answered
<1> QED BY <1>1, <1>2, <1>3, <1>4, <1>5, <1>6

(* Waking the workers for shutdown keeps the invariant. *)
LEMMA WakeForShutdownStep ==
    ASSUME PoolInv, WakeForShutdown, UNCHANGED config
    PROVE  PoolInv'
<1> USE PoolAssumption DEF PoolInv, WakeForShutdown, Go, job, loop, ghost,
           Threads, Agents, Executing, Helping, Open, Holding, Pool, Callers
<1>a. \A t \in Agents : pc'[t] = pc[t]
  BY DEF Types
<1>1. Types'
  <2>1. pc' \in [Threads -> Holding \cup Helping \cup
                 {"submit", "done", "wait", "exited", "own", "wake", "join",
                  "destroyed", "absent"}]
    BY DEF Types
  <2>2. /\ \A w \in Workers : pc'[w] \in Helping \cup {"wait", "exited", "absent"}
        /\ \A w \in Workers : pc'[w] # "absent" => w \in Pool
        /\ \A x \in Submitters : pc'[x] \in Holding \cup {"submit", "done", "absent"}
        /\ \A x \in Submitters : pc'[x] = "absent" <=> x \notin Callers
    BY DEF Types
  <2> QED BY <2>1, <2>2 DEF Types
<1>2. Locking'
  BY <1>a DEF Types, Locking
<1>3. Counting'
  <2>1. \A w \in Workers : pc'[w] \in Helping <=> pc[w] \in Helping
    BY DEF Types
  <2> QED BY <2>1, SamePending, SameCount
<1>d. \A t \in Agents : Owns(t)' <=> Owns(t)
  BY <1>a DEF Owns
<1>4. Claiming'
  BY <1>d, SameClaims
<1>5. Running'
  BY <1>a, <1>d, SameLoop
<1>6. Settled'
  BY <1>a DEF Types, Settled, Answered
<1> QED BY <1>1, <1>2, <1>3, <1>4, <1>5, <1>6

(* Joining the workers keeps the invariant. *)
LEMMA JoinStep ==
    ASSUME PoolInv, Join, UNCHANGED config
    PROVE  PoolInv'
<1> USE PoolAssumption DEF PoolInv, Join, Go, job, loop, ghost,
           Threads, Agents, Executing, Helping, Open, Holding, Pool, Callers
<1>a. \A t \in Agents : pc'[t] = pc[t]
  BY DEF Types
<1>1. Types'
  <2>1. pc' \in [Threads -> Holding \cup Helping \cup
                 {"submit", "done", "wait", "exited", "own", "wake", "join",
                  "destroyed", "absent"}]
    BY DEF Types
  <2>2. /\ \A w \in Workers : pc'[w] \in Helping \cup {"wait", "exited", "absent"}
        /\ \A w \in Workers : pc'[w] # "absent" => w \in Pool
        /\ \A x \in Submitters : pc'[x] \in Holding \cup {"submit", "done", "absent"}
        /\ \A x \in Submitters : pc'[x] = "absent" <=> x \notin Callers
    BY DEF Types
  <2> QED BY <2>1, <2>2 DEF Types
<1>2. Locking'
  BY <1>a DEF Types, Locking
<1>3. Counting'
  <2>1. \A w \in Workers : pc'[w] \in Helping <=> pc[w] \in Helping
    BY DEF Types
  <2> QED BY <2>1, SamePending, SameCount
<1>d. \A t \in Agents : Owns(t)' <=> Owns(t)
  BY <1>a DEF Owns
<1>4. Claiming'
  BY <1>d, SameClaims
<1>5. Running'
  BY <1>a, <1>d, SameLoop
<1>6. Settled'
  BY <1>a DEF Types, Settled, Answered
<1> QED BY <1>1, <1>2, <1>3, <1>4, <1>5, <1>6

-----------------------------------------------------------------------------

(* A new pool satisfies the invariant. *)
LEMMA InitPoolInv == Init => PoolInv
<1> SUFFICES ASSUME Init PROVE PoolInv
  OBVIOUS
<1> USE PoolAssumption DEF Init, Threads, Agents, Executing, Helping, Open, Holding,
          Pool, Callers
<1>a. \A t \in Agents : pc[t] \in {"wait", "submit", "absent"}
  OBVIOUS
<1>1. Types
  <2>1. pc \in [Threads -> Holding \cup Helping \cup
                 {"submit", "done", "wait", "exited", "own", "wake", "join",
                  "destroyed", "absent"}]
    OBVIOUS
  <2>2. size \in [Callers -> Nat \ {0}]
    OBVIOUS
  <2>3. \A s \in Callers : calls[s] \in [0 .. size[s] - 1 -> Nat]
    OBVIOUS
  <2> QED BY <2>1, <2>2, <2>3 DEF Types
<1>2. Locking
  BY DEF Locking
<1>3. Counting
  <2>1. Pending = {}
    BY DEF Pending
  <2> QED BY <2>1, FS_EmptySet DEF Counting
<1>4. Claiming
  BY <1>a DEF Claiming, Owns
<1>5. Running
  BY <1>a DEF Running
<1>6. Settled
  BY DEF Settled, Answered
<1> QED BY <1>1, <1>2, <1>3, <1>4, <1>5, <1>6 DEF PoolInv

(* Every step keeps the invariant. *)
LEMMA NextPoolInv == PoolInv /\ [Next]_vars => PoolInv'
<1> SUFFICES ASSUME PoolInv, [Next]_vars PROVE PoolInv'
  OBVIOUS
<1>1. ASSUME NEW s \in Submitters, Submit(s), UNCHANGED config PROVE PoolInv'
  BY <1>1, RunInlineStep, LockSubmissionStep, PublishStep, NotifyWorkersStep, CollectStep,
     ReturnStep DEF Submit
<1>2. ASSUME NEW t \in Agents, ExecuteJob(t), UNCHANGED config PROVE PoolInv'
  BY <1>2, CheckCancelledStep, ClaimChunkStep, RecheckStep, CallReturnsStep, CallThrowsStep,
     CancelStep DEF ExecuteJob
<1>3. ASSUME NEW w \in Workers, WorkerLoop(w), UNCHANGED config PROVE PoolInv'
  BY <1>3, AwaitWorkStep, ReportStep DEF WorkerLoop
<1>4. ASSUME NEW t \in Threads, SpuriousWakeup(t), UNCHANGED config PROVE PoolInv'
  BY <1>4, SpuriousWakeupStep
<1>5. ASSUME Destroy, UNCHANGED config PROVE PoolInv'
  BY <1>5, RequestShutdownStep, WakeForShutdownStep, JoinStep DEF Destroy
<1>6. ASSUME UNCHANGED vars PROVE PoolInv'
  BY <1>6 DEF vars, PoolInv, Types, Locking, Counting, Claiming, Running, Settled, Described,
     Tallied, Answered, Frontier, Span, Owns, Pending, Pool, Callers
<1> QED BY <1>1, <1>2, <1>3, <1>4, <1>5, <1>6 DEF Next, Steps, Agents, Destroyed

(* The lock, the count of workers still to report, the claimed chunks and    *)
(* the running loop agree in every state of the pool (ThreadPool::Run,       *)
(* ExecuteJob and WorkerLoop), for every set of workers and callers.         *)
THEOREM PoolInvariance == Spec => []PoolInv
<1>1. Init => PoolInv
  BY InitPoolInv
<1>2. PoolInv /\ [Next]_vars => PoolInv'
  BY NextPoolInv
<1> QED BY <1>1, <1>2, PTL DEF Spec

(* ThreadPool::TryParallelFor calls its function once for every index, and   *)
(* throws exactly when that function threw: however chunks are claimed, at   *)
(* whichever index a worker fails and whoever fails first.                   *)
THEOREM LoopsAreExact == Spec => []LoopsRunOnce
<1>1. PoolInv => LoopsRunOnce
  <2> SUFFICES ASSUME PoolInv, NEW s \in Callers
               PROVE  /\ \A i \in DOMAIN calls[s] : calls[s][i] <= 1
                      /\ outcome[s] = "ok" => \A i \in DOMAIN calls[s] : calls[s][i] = 1
                      /\ outcome[s] # "none" => (outcome[s] = "threw") = (s \in threw)
    BY DEF LoopsRunOnce, EveryIndexOnce, ExceptionsReachTheirCaller
  <2>1. /\ s \in Submitters /\ DOMAIN calls[s] = 0 .. size[s] - 1 /\ Answered(s)
        /\ pc[s] \in Open \cup {"return"} => Tallied(s)
        /\ pc[s] \in Holding \cup {"submit", "done"}
    BY PoolAssumption DEF PoolInv, Types, Running, Settled, Callers
  <2>2. \A i \in DOMAIN calls[s] : calls[s][i] <= 1
    BY <2>1 DEF Answered, Tallied, Holding
  <2> QED BY <2>1, <2>2 DEF Answered
<1> QED BY <1>1, PoolInvariance, PTL

(* No thread calls a function after its submitter has left Run: the worker   *)
(* that is last to report is what lets ThreadPool::Run take it back.         *)
THEOREM FunctionLifetime == Spec => []FunctionOutlivesCalls
<1>1. PoolInv => FunctionOutlivesCalls
  <2> SUFFICES ASSUME PoolInv, NEW t \in Agents, pc[t] \in Executing \cup {"cancel"}
               PROVE  /\ function # None
                      /\ pc[function] \in Executing \cup {"notify", "cancel", "collect", "nested"}
                      /\ t \in Submitters => function = t
    BY DEF FunctionOutlivesCalls, Agents
  <2>1. /\ function \in Submitters /\ pc[function] \in Open
        /\ \A s \in Submitters : pc[s] \in Holding => s = function
    BY TheLoop DEF PoolInv
  <2> QED BY <2>1, PoolAssumption DEF Open, Holding
<1> QED BY <1>1, PoolInvariance, PTL
=============================================================================
