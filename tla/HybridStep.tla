----------------------------- MODULE HybridStep -----------------------------
(***************************************************************************)
(* One engine step of a hybrid model: the composite transaction over the   *)
(* paged key/value tables and the fixed-state pool, from the plan to the   *)
(* prefix checkpoints it publishes. Both caches have to cross the same     *)
(* token boundary, in every step, whatever fails.                          *)
(*                                                                         *)
(* The paged side is reduced to the committed slots of a request's table   *)
(* (module PagedCache has its blocks), and the prefix index to the         *)
(* endpoints that carry a fixed-state checkpoint (module HybridPrefix has  *)
(* their paths). A request's tokens are a fixed Stream, prompt first.      *)
(***************************************************************************)
EXTENDS FixedStatePool

CONSTANTS
    BlockSize,       \* token slots of a paged block
    Configurations   \* what an engine and its work may be like

ASSUME StepAssumption ==
    /\ BlockSize \in Nat \ {0}
    /\ \A c \in Configurations :
        /\ c.maxDrafts \in Nat /\ c.maxGeneration \in Nat
        /\ c.faults \in BOOLEAN /\ c.views \in BOOLEAN /\ c.caching \in BOOLEAN
        /\ DOMAIN c.stream \subseteq Requests
        /\ \A r \in DOMAIN c.stream : /\ c.stream[r] \in Seq(Nat)
                                      /\ c.prompt[r] \in 1 .. Len(c.stream[r])

VARIABLES
    config,     \* the member of Configurations this engine runs with
    pool,       \* the fixed-state pool
    res,        \* the live fixed-state reservation
    paged,      \* committed slots of each request's block table
    target,     \* the paged reservation: proposed slots per request
    resident,   \* cache_allocated_requests_
    length,     \* CurrentSequenceLength; 0 before admission
    processed,  \* ProcessedSequenceLength
    plan,       \* step_plan_.requests
    endpoints,  \* index entries that carry a checkpoint
    cursor,     \* the row SealCommittedBlocks is at
    phase,      \* how far the step is
    fault       \* why the engine stopped, NoFault while it is healthy

vars == <<config, pool, res, paged, target, resident, length, processed, plan,
          endpoints, cursor, phase, fault>>
engineVars == <<length, processed, plan, endpoints, cursor>>

Stream == config.stream        \* the tokens each request will ever hold
Prompt == config.prompt        \* how many of them are its prompt
MaxDrafts == config.maxDrafts  \* MaxDraftTokensPerStep, within the captures
Faults == config.faults        \* whether the device and the model may fail
MaxGeneration == config.maxGeneration  \* bound on the generations of a slot

NoTable == -1
NoFault == "none"
Wrong == 0
Rows == DOMAIN plan
IsPlanned(r) == \E i \in Rows : plan[i].request = r

Init ==
    /\ config \in Configurations
    /\ pool = EmptyPool(config.views) /\ res = NoReservation
    /\ paged = [r \in Requests |-> NoTable]
    /\ target = [r \in Requests |-> NoTable]
    /\ resident = {}
    /\ length = [r \in Requests |-> 0]
    /\ processed = [r \in Requests |-> 0]
    /\ plan = <<>> /\ endpoints = {} /\ cursor = 0
    /\ phase = "idle" /\ fault = NoFault

Prefix(r, n) == SubSeq(Stream[r], 1, n)

---------------------------------------------------------------------------
(* Planning. *)

AddRequest(r) ==
    /\ phase = "idle" /\ length[r] = 0 /\ r \in DOMAIN Stream
    /\ length' = [length EXCEPT ![r] = Prompt[r]]
    /\ UNCHANGED <<pool, res, paged, target, resident, processed, plan,
                   endpoints, cursor, phase, fault>>

IsExecutable(r) == length[r] # 0 /\ length[r] \in 1 .. Len(Stream[r]) - 1

\* A hit leaves at least the last token of the request to execute. Which of
\* the usable endpoints still has all its blocks is the index's affair.
Matches(r) ==
    {NoCheckpoint} \cup
    {e.ckpt : e \in {x \in endpoints :
                        /\ Len(x.tokens) < length[r]
                        /\ x.tokens = Prefix(r, Len(x.tokens))}}

Entries(r) ==
    LET newly == r \notin resident
        prefill == processed[r] < Prompt[r] IN
    {[request |-> r, newly |-> newly, prefill |-> prefill, ckpt |-> h,
      start |-> IF newly THEN h.count ELSE processed[r],
      count |-> n, drafts |-> d, good |-> g, before |-> length[r]] :
        h \in IF newly THEN Matches(r) ELSE {NoCheckpoint},
        n \in 1 .. length[r],
        d \in 0 .. MaxDrafts, g \in 0 .. MaxDrafts}

\* A prefill takes any chunk of what is left, a decode one token and drafts.
IsPlannable(e) ==
    /\ e.start + e.count <= e.before
    /\ e.prefill => e.drafts = 0
    /\ ~e.prefill => e.start + e.count = e.before
    /\ e.good <= e.drafts
    /\ e.drafts < Len(Stream[e.request]) - e.before

\* Drafts are dropped from a step that also holds a prefill.
WithoutMixedDrafts(es) ==
    IF \E i, j \in DOMAIN es : es[i].prefill /\ es[j].drafts # 0
    THEN [i \in DOMAIN es |-> [es[i] EXCEPT !.drafts = 0, !.good = 0]]
    ELSE es

\* Residents alone run in slot order; with an admission, in plan order.
IsOrdered(es) ==
    (\A i \in DOMAIN es : ~es[i].newly) =>
        \A i, j \in DOMAIN es :
            i < j => pool.index[es[i].request] < pool.index[es[j].request]

Batches ==
    LET runnable == {r \in Requests : IsExecutable(r)}
        Admits(s) == Cardinality(resident \cup ToSet(s)) <= Capacity
    IN  UNION {{s \in [1 .. n -> runnable] : IsInjective(s) /\ Admits(s)} :
               n \in 1 .. Capacity}

Plans ==
    UNION {{es \in [DOMAIN s -> UNION {{e \in Entries(r) : IsPlannable(e)} :
                                       r \in ToSet(s)}] :
                /\ \A i \in DOMAIN s : es[i].request = s[i]
                /\ IsOrdered(es)} : s \in Batches}

\* The two ownership systems and the requests agree before a step is built.
Consistent(es) ==
    /\ CommittedSlotCount(pool) = Cardinality(resident)
    /\ \A r \in resident : /\ OwnsCommittedSlot(pool, r)
                           /\ paged[r] = processed[r]
                           /\ CommittedTokens(pool, r) = processed[r]
    /\ \A i \in DOMAIN es : es[i].newly # OwnsCommittedSlot(pool, es[i].request)
    /\ Cardinality({i \in DOMAIN es : es[i].newly}) <= AvailableSlots(pool)

Die(reason) == phase' = "dead" /\ fault' = reason

PlanStep ==
    /\ phase = "idle"
    /\ \E es \in Plans :
        /\ plan' = WithoutMixedDrafts(es)
        /\ IF Consistent(es) THEN phase' = "planned" /\ UNCHANGED fault
                             ELSE Die("consistency")
    /\ UNCHANGED <<pool, res, paged, target, resident, length, processed,
                   endpoints, cursor>>

---------------------------------------------------------------------------
(* Reservation: paged blocks first, then fixed slots. *)

FixedRequests ==
    [i \in Rows |-> [request |-> plan[i].request,
                     target |-> plan[i].start + plan[i].count + plan[i].drafts,
                     capture |-> plan[i].drafts, ckpt |-> plan[i].ckpt]]

\* Bounds the generations; the code throws at the end of 64 bits.
WithinGenerations ==
    \A i \in Rows : plan[i].newly =>
        \A s \in FreeSlots(pool) : pool.slot[s].generation < MaxGeneration

ReserveStep ==
    /\ phase = "planned" /\ WithinGenerations
    /\ IF ReserveAccepts(pool, FixedRequests)
       THEN LET v == Reserve(pool, FixedRequests) IN
            /\ pool' = v.pool /\ res' = v.res
            /\ target' = [r \in Requests |->
                    LET e == plan[RowOf(plan, r)]
                    IN  IF IsPlanned(r) THEN e.start + e.count + e.drafts ELSE NoTable]
            /\ phase' = "reserved" /\ UNCHANGED fault
       ELSE Die("contract") /\ UNCHANGED <<pool, res, target>>
    /\ UNCHANGED <<paged, resident, length, processed, plan, endpoints, cursor>>

\* The pending replay cannot be launched.
FlushFault ==
    /\ Faults /\ phase = "planned" /\ pool.replay # {}
    /\ pool' = FlushFailed(pool) /\ Die("flush")
    /\ UNCHANGED <<res, paged, target, resident, engineVars>>

\* A gather or normalisation copy fails.
GatherFault ==
    /\ Faults /\ phase = "planned"
    /\ pool' = ReserveFailed(pool) /\ Die("device")
    /\ UNCHANGED <<res, paged, target, resident, engineVars>>

---------------------------------------------------------------------------
(* Rollback. The reservation object dies with the call: what it still holds *)
(* is discarded, then the pool's lock is returned.                          *)

Unwind(p, v) == Finish(Discard(p, v).pool)

ReleaseReservation(p, v) ==
    /\ pool' = Unwind(p, v) /\ res' = NoReservation
    /\ target' = [r \in Requests |-> NoTable]
    /\ UNCHANGED <<paged, resident, engineVars>>

\* A failed execution, scheduled-request construction or post-processing is
\* rolled back; the failure is retryable or it stops the engine.
RolledBack ==
    \/ phase' = "idle" /\ UNCHANGED fault
    \/ Die("execution")

ExecutionFault ==
    /\ Faults /\ phase = "reserved"
    /\ ReleaseReservation(ExecuteFailed(pool, res), res)
    /\ RolledBack

---------------------------------------------------------------------------
(* Execution and acceptance. *)

\* What a row feeds: its tokens, the drafts that are right, the wrong ones.
RunTokens(e) ==
    SubSeq(Stream[e.request], e.start + 1, e.start + e.count + e.good)
        \o [k \in 1 .. e.drafts - e.good |-> Wrong]

Decode ==
    /\ phase = "reserved"
    /\ pool' = Execute(pool, res, [i \in Rows |-> RunTokens(plan[i])])
    /\ phase' = "executed"
    /\ UNCHANGED <<res, paged, target, resident, engineVars, fault>>

\* Each row is narrowed on both sides, the fixed one first.
NarrowRows(v, accepted) ==
    [v EXCEPT !.rows = [i \in DOMAIN v.rows |->
        IF plan[i].drafts = 0 THEN v.rows[i]
        ELSE CommitPrefix(v.rows[i], plan[i].count + plan[i].drafts,
                          plan[i].count + accepted[i])]]

\* A narrowing that leaves the paged boundary where it was planned.
KeepTarget(t, accepted) == t

\* The paged boundary drops by the rejected drafts.
NarrowTarget(t, accepted) ==
    [r \in Requests |->
        IF IsPlanned(r)
        THEN t[r] - (plan[RowOf(plan, r)].drafts - accepted[RowOf(plan, r)])
        ELSE t[r]]

Acceptances ==
    {a \in [Rows -> 0 .. MaxDrafts] : \A i \in Rows : a[i] <= plan[i].good}

PostProcess ==
    /\ phase = "executed"
    /\ \E accepted \in Acceptances :
        IF \A i \in Rows : plan[i].drafts # 0 =>
                PrefixAccepted(res, i, plan[i].count + plan[i].drafts,
                               plan[i].count + accepted[i])
        THEN /\ res' = NarrowRows(res, accepted)
             /\ target' = NarrowTarget(target, accepted)
             /\ phase' = "accepted" /\ UNCHANGED fault
        ELSE Die("contract") /\ UNCHANGED <<res, target>>
    /\ UNCHANGED <<pool, paged, resident, engineVars>>

\* Sampling or drafting fails before anything is staged.
PostProcessFault ==
    /\ Faults /\ phase \in {"executed", "accepted"}
    /\ ReleaseReservation(pool, res)
    /\ RolledBack

---------------------------------------------------------------------------
(* Commit. *)

PrepareStep ==
    /\ phase = "accepted"
    /\ IF ValidateCommit(pool, res)
       THEN /\ pool' = PrepareCommit(pool, res).pool
            /\ res' = PrepareCommit(pool, res).res
            /\ phase' = "prepared" /\ UNCHANGED fault
       ELSE Die("contract") /\ UNCHANGED <<pool, res>>
    /\ UNCHANGED <<paged, target, resident, engineVars>>

\* A staging copy fails, or a later participant cannot prepare: the step is
\* rolled back and the engine stops.
PrepareFault ==
    /\ Faults
    /\ \/ /\ phase = "accepted"
          /\ LET failed == PrepareFailed(pool, res)
             IN  ReleaseReservation(failed.pool, failed.res)
       \/ phase = "prepared" /\ ReleaseReservation(pool, res)
    /\ Die("device")

\* Paged occupancy is published first.
CommitPaged ==
    /\ phase = "prepared"
    /\ paged' = [r \in Requests |-> IF target[r] = NoTable THEN paged[r] ELSE target[r]]
    /\ phase' = "published"
    /\ UNCHANGED <<pool, res, target, resident, engineVars, fault>>

\* The bank flip cannot fail; reaching it unprepared terminates.
CommitFixed ==
    /\ phase = "published"
    /\ IF MayPublish(res)
       THEN /\ pool' = PublishCommit(pool, res).pool
            /\ res' = PublishCommit(pool, res).res
            /\ resident' = resident \cup {plan[i].request : i \in Rows}
            /\ phase' = "committed" /\ UNCHANGED fault
       ELSE Die("contract") /\ UNCHANGED <<pool, res, resident>>
    /\ UNCHANGED <<paged, target, engineVars>>

\* The request folds in the accepted drafts and, at the end of its
\* sequence, the sampled token. The plan's leases end here.
CommitRequests ==
    /\ phase = "committed"
    /\ processed' = [r \in Requests |-> IF IsPlanned(r) THEN paged[r] ELSE processed[r]]
    /\ length' = [r \in Requests |->
            IF IsPlanned(r) /\ paged[r] >= length[r] THEN paged[r] + 1 ELSE length[r]]
    /\ plan' = [i \in Rows |-> [plan[i] EXCEPT !.ckpt = NoCheckpoint]]
    /\ phase' = "sealing" /\ cursor' = 1
    /\ UNCHANGED <<pool, res, paged, target, resident, endpoints, fault>>

\* Past the commit boundary every failure stops the engine.
CommitFault ==
    /\ Faults /\ phase \in {"prepared", "committed", "sealing"}
    /\ ReleaseReservation(pool, res)
    /\ Die("commit")

---------------------------------------------------------------------------
(* Sealing: a prefill that ended on a block boundary leaves a checkpoint.   *)
(* The index may refuse a row for reasons of its own (a duplicate, a hash   *)
(* collision, its block budget), so a row may always be passed over.        *)

IsLeased(e) == \E i \in Rows : plan[i].ckpt = e.ckpt

CanSeal(i) ==
    LET e == plan[i] IN
    /\ config.caching /\ e.prefill
    /\ paged[e.request] = e.start + e.count + e.drafts
    /\ paged[e.request] % BlockSize = 0

EndpointFor(r, handle) == [ckpt |-> handle, tokens |-> Prefix(r, paged[r])]

SealRow ==
    /\ phase = "sealing" /\ cursor \in Rows /\ CanSeal(cursor)
    /\ LET r == plan[cursor].request
           free == AvailableCheckpoints(pool)
           Seal(p, c, kept) ==
               LET captured == CapturePrefixCheckpoint(p, r, c) IN
               /\ pool' = captured.pool
               /\ endpoints' = kept \cup {EndpointFor(r, captured.handle)}
       IN  \/ /\ free # {}
              /\ LET c == CHOOSE x \in free : \A y \in free : x <= y IN
                 /\ pool.ckpt[c].generation < MaxGeneration
                 /\ Seal(pool, c, endpoints)
           \/ /\ free = {}
              /\ paged[r] # plan[cursor].before
              /\ \E e \in endpoints :
                  /\ ~IsLeased(e) /\ e.ckpt.generation < MaxGeneration
                  /\ Seal(ReleasePrefixCheckpoint(pool, e.ckpt), e.ckpt.row,
                          endpoints \ {e})
    /\ cursor' = cursor + 1
    /\ UNCHANGED <<res, paged, target, resident, length, processed, plan,
                   phase, fault>>

PassRow ==
    /\ phase = "sealing" /\ cursor \in Rows
    /\ cursor' = cursor + 1
    /\ UNCHANGED <<pool, res, paged, target, resident, length, processed, plan,
                   endpoints, phase, fault>>

\* The checkpoint copy fails: its row may hold anything, and if the row was
\* reclaimed for this capture its endpoint is gone.
CaptureFault ==
    /\ Faults /\ phase = "sealing" /\ cursor \in Rows /\ CanSeal(cursor)
    /\ \E c \in Checkpoints :
        /\ \/ c \in AvailableCheckpoints(pool) /\ UNCHANGED endpoints
           \/ \E e \in endpoints : /\ e.ckpt.row = c /\ ~IsLeased(e)
                                   /\ endpoints' = endpoints \ {e}
        /\ pool' = Unwind(CaptureFailed([pool EXCEPT !.ckpt[c].occupied = FALSE], c), res)
    /\ res' = NoReservation /\ target' = [r \in Requests |-> NoTable]
    /\ Die("device")
    /\ UNCHANGED <<paged, resident, length, processed, plan, cursor>>

EndStep ==
    /\ phase = "sealing" /\ cursor \notin Rows
    /\ pool' = Finish(pool) /\ res' = NoReservation
    /\ target' = [r \in Requests |-> NoTable]
    /\ plan' = <<>> /\ cursor' = 0 /\ phase' = "idle"
    /\ UNCHANGED <<paged, resident, length, processed, endpoints, fault>>

---------------------------------------------------------------------------
(* Between steps. *)

\* The index gives blocks back, and the endpoint's checkpoint with them,
\* while a step makes room; leased endpoints are protected.
EvictEndpoint ==
    /\ phase = "planned"
    /\ \E e \in endpoints :
        /\ ~IsLeased(e)
        /\ endpoints' = endpoints \ {e}
        /\ pool' = ReleasePrefixCheckpoint(pool, e.ckpt)
    /\ UNCHANGED <<res, paged, target, resident, length, processed, plan,
                   cursor, phase, fault>>

\* Fixed and paged ownership are validated together, then released.
ReleaseOwnership(r) ==
    IF r \notin resident THEN UNCHANGED <<pool, paged, resident, fault>>
    ELSE IF ValidateRelease(pool, r) /\ paged[r] # NoTable
    THEN /\ pool' = ReleaseValidated(pool, r)
         /\ paged' = [paged EXCEPT ![r] = NoTable]
         /\ resident' = resident \ {r}
         /\ UNCHANGED fault
    ELSE fault' = "contract" /\ UNCHANGED <<pool, paged, resident>>

\* Removal works after a fatal error too.
Deallocate(r) ==
    /\ phase \in {"idle", "dead"} /\ length[r] # 0
    /\ ReleaseOwnership(r)
    /\ length' = [length EXCEPT ![r] = 0]
    /\ processed' = [processed EXCEPT ![r] = 0]
    /\ UNCHANGED <<res, target, plan, endpoints, cursor, phase>>

\* A finished turn is rewound: its state is recomputed from the start.
ReleaseForRewind(r) ==
    /\ phase = "idle" /\ length[r] # 0 /\ length[r] = Len(Stream[r])
    /\ ReleaseOwnership(r)
    /\ length' = [length EXCEPT ![r] = Prompt[r]]
    /\ processed' = [processed EXCEPT ![r] = 0]
    /\ UNCHANGED <<res, target, plan, endpoints, cursor, phase>>

Steps ==
    \/ \E r \in Requests : AddRequest(r) \/ Deallocate(r) \/ ReleaseForRewind(r)
    \/ PlanStep \/ ReserveStep \/ Decode \/ PostProcess \/ PrepareStep
    \/ CommitPaged \/ CommitFixed \/ CommitRequests \/ SealRow \/ PassRow \/ EndStep
    \/ EvictEndpoint
    \/ FlushFault \/ GatherFault \/ ExecutionFault \/ PostProcessFault
    \/ PrepareFault \/ CommitFault \/ CaptureFault

Next == Steps /\ UNCHANGED config

Spec == Init /\ [][Next]_vars

---------------------------------------------------------------------------
(* Properties. *)

TypeOK ==
    /\ DOMAIN pool = DOMAIN EmptyPool(config.views)
    /\ pool.index \in [Requests -> Slots \cup {NoSlot}]
    /\ \A s \in Slots : /\ pool.slot[s].ownership \in {"Free", "Reserved", "Committed"}
                        /\ pool.slot[s].request \in Requests \cup {Nobody}
                        /\ pool.slot[s].active_bank \in Banks
                        /\ pool.slot[s].generation \in 0 .. MaxGeneration
    /\ pool.healthy \in BOOLEAN /\ pool.live \in BOOLEAN
    /\ paged \in [Requests -> Nat \cup {NoTable}]
    /\ target \in [Requests -> Nat \cup {NoTable}]
    /\ resident \subseteq Requests
    /\ \A r \in Requests : /\ length[r] \in Nat
                           /\ processed[r] \in 0 .. length[r]
    /\ phase \in {"idle", "planned", "reserved", "executed", "accepted", "prepared",
                  "published", "committed", "sealing", "dead"}
    /\ fault \in {NoFault, "consistency", "contract", "flush", "device",
                  "execution", "commit"}

\* The state a request owns is the state of exactly its committed tokens: the
\* bank the selector names, once the replay that is pending on it has run, in
\* spite of ping-pong banks, direct bindings that write into the other bank,
\* normalisation, drafts rejected after the fact and steps that were rolled
\* back. Only a replay that could not be launched loses it (StageRows,
\* PublishCommit, Reserve in fixed_state_pool.cpp).
VisibleStateIsCommitted ==
    fault # "flush" =>
        \A r \in Requests : OwnsCommittedSlot(pool, r) =>
            VisibleRow(pool, pool.index[r]) = Prefix(r, CommittedTokens(pool, r))

\* Paged tables and fixed slots are published one after the other, and no
\* failure can be observed between the two: outside that window the same
\* requests own both, at the same token boundary (Commit, Deallocate and
\* ReleaseForRewind in cache_manager.cpp).
BoundariesAgree ==
    phase # "published" =>
        \A r \in Requests :
            /\ OwnsCommittedSlot(pool, r) <=> r \in resident
            /\ r \in resident => paged[r] = CommittedTokens(pool, r)
            /\ r \notin resident => paged[r] = NoTable

\* No slot has two owners or none that can release it: committed slots are
\* exactly what the ownership index names, and a slot is Reserved only for a
\* row of the reservation that is still open.
SlotsAreOwnedOnce ==
    /\ \A r \in Requests : OwnsCommittedSlot(pool, r) =>
            /\ pool.slot[pool.index[r]].request = r
            /\ pool.slot[pool.index[r]].ownership = "Committed"
    /\ \A s \in Slots : pool.slot[s].ownership = "Committed" =>
            pool.index[pool.slot[s].request] = s
    /\ \A s \in Slots : pool.slot[s].ownership = "Reserved" =>
            /\ pool.live
            /\ \E i \in DOMAIN res.rows : res.rows[i].slot = s /\ res.rows[i].provisional

\* A checkpoint the index offers, or a planned admission holds, still is the
\* state of exactly the tokens it is filed under: its row was not reused, and
\* it was captured at the boundary of its paged prefix
\* (CapturePrefixCheckpoint, ReclaimCheckpoint, MatchPrefix).
CheckpointsAreExact ==
    /\ \A e \in endpoints :
        /\ ValidCheckpoint(pool, e.ckpt)
        /\ e.ckpt.count = Len(e.tokens)
        /\ pool.ckpt[e.ckpt.row].row = e.tokens
    /\ phase \in {"planned", "reserved"} =>
        \A i \in Rows : plan[i].ckpt # NoCheckpoint =>
            /\ ValidCheckpoint(pool, plan[i].ckpt)
            /\ pool.ckpt[plan[i].ckpt.row].row = Prefix(plan[i].request, plan[i].ckpt.count)

\* A checkpoint row is occupied exactly as long as an endpoint or a plan
\* holds it: none leaks, so the checkpoint bank never runs dry by itself.
CheckpointRowsAreHeld ==
    phase # "dead" =>
        \A c \in Checkpoints : pool.ckpt[c].occupied <=>
            \/ \E e \in endpoints : e.ckpt.row = c
            \/ \E i \in Rows : plan[i].ckpt.row = c

\* None of the checks that say "impossible" in the code ever fires: the
\* planner's cross-checks, the pool's refusals and terminations, and the
\* validations of a removal, including one after a fatal error.
ContractHolds == fault \notin {"consistency", "contract"}

\* Slots and checkpoint rows have exactly the owners the code believes they have,
\* after every commit, rollback, removal and fatal error.
PoolIsSound == ContractHolds /\ SlotsAreOwnedOnce /\ CheckpointRowsAreHeld

\* What a reader sees of a request: its tables, its tokens and its state.
CommittedView(r) ==
    IF r \notin resident THEN <<"absent">>
    ELSE <<CommittedTokens(pool, r), VisibleRow(pool, pool.index[r])>>

\* What is committed only moves at the commit of a step the request is part
\* of, forward, or by giving the request's state up. In particular neither a
\* rollback nor the deferred replay nor another request's step changes it.
CommittedOnlyAtCommit ==
    [][\A r \in Requests :
          CommittedView(r)' # CommittedView(r) =>
            \/ r \notin resident'
            \/ fault' = "flush"
            \/ /\ phase = "published"
               /\ IsPlanned(r)
               /\ r \in resident => CommittedTokens(pool', r) > CommittedTokens(pool, r)]_vars
=============================================================================
