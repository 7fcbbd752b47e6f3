----------------------------- MODULE PagedCache -----------------------------
(***************************************************************************)
(* Continuous batching over a paged key/value cache: requests begin turns, *)
(* the scheduler plans a step against the block pool and the prefix index, *)
(* the step reserves its blocks, executes, and either commits or is rolled *)
(* back whole.                                                             *)
(*                                                                         *)
(* One owner thread drives the Engine, so nothing interleaves with the     *)
(* phases of a step; they are separate actions because a step can fail     *)
(* between any two of them.                                                *)
(***************************************************************************)
EXTENDS PrefixCache, DecodeFirstPolicy

CONSTANTS
    Requests,       \* Request objects; a closed one may be created again
    Configurations  \* what the Engine may have been created with

ASSUME EngineAssumption ==
    /\ IsFiniteSet(Requests)
    /\ \A c \in Configurations :
        /\ c.maxBatch \in Nat \ {0} /\ c.maxScheduledTokens \in Nat \ {0}
        /\ c.prefillChunk \in Nat /\ c.maxSession \in Nat \ {0}
        /\ c.maxIndexed \in Nat /\ c.maxDrafts \in Nat
        /\ c.maxTurns \in Nat /\ c.maxOpen \in Nat
        /\ c.tokens \subseteq Nat \ {0}
        /\ \A p \in c.prompts : p \in Seq(c.tokens) /\ p # <<>>

VARIABLES
    config,     \* the member of Configurations this Engine runs with
    cache,      \* the block pool and the prefix index (PrefixCache)
    table,      \* [Requests -> block table], EmptyTable when not resident
    residents,  \* cache_allocated_requests_, in admission order
    pool,       \* the scheduler's requests_pool_, in arrival order
    req,        \* [Requests -> request state]
    plan,       \* the step plan: one entry per scheduled request
    rsv,        \* the reservation: one delta per plan entry
    phase       \* where the step transaction is

vars == <<config, cache, table, residents, pool, req, plan, rsv, phase>>

Tokens == config.tokens                \* the vocabulary
Prompts == config.prompts              \* the inputs a turn may begin with
MaxBatch == config.maxBatch            \* dynamic_batching.max_batch_size
MaxScheduledTokens == config.maxScheduledTokens
PrefillChunk == config.prefillChunk    \* search.chunk_size, 0 when unset
MaxSession == config.maxSession        \* max_session_tokens of every request
MaxDrafts == config.maxDrafts          \* drafts a step may verify per request
MaxTurns == config.maxTurns            \* bound: turns a request may begin
MaxOpen == config.maxOpen              \* bound: requests open at a time

NoToken == 0
EmptyTable == [blocks |-> <<>>, committed |-> 0, sealed |-> 0,
               sealedId |-> NoId, stopped |-> FALSE]
NoRequest == [status |-> "Absent", tokens |-> <<>>, processed |-> 0,
              prompt |-> 0, starts |-> <<>>, drafts |-> <<>>]

IsExecutable(r) == req[r].status \in {"Queued", "Active"}
IsResident(r) == \E i \in DOMAIN residents : residents[i] = r
IsPrefill(r) == req[r].processed < req[r].prompt

Init ==
    /\ config \in Configurations
    /\ cache = EmptyCache(config.maxIndexed)
    /\ table = [r \in Requests |-> EmptyTable]
    /\ residents = <<>>
    /\ pool = <<>>
    /\ req = [r \in Requests |-> NoRequest]
    /\ plan = <<>>
    /\ rsv = <<>>
    /\ phase = "idle"

---------------------------------------------------------------------------
(* Planning. An entry of the plan is a record                              *)
(*   r, new, prefill : the request, whether it is admitted by this step    *)
(*   match           : the indexed blocks it would adopt                   *)
(*   base            : tokens already in the cache for it                  *)
(*   n, d            : tokens the step feeds it, and how many are drafts   *)

Larger(a, b) == IF a >= b THEN a ELSE b

MatchPrefix(r) ==
    IF cache.limit = 0 THEN <<>>
    ELSE Match(cache, req[r].tokens, Len(req[r].tokens) - 1)

\* Entries are offered with the single token every request needs.
Candidate(r, new) ==
    LET match == IF new THEN MatchPrefix(r) ELSE <<>>
    IN  [r |-> r, new |-> new, prefill |-> IsPrefill(r), match |-> match,
         base |-> IF match = <<>> THEN req[r].processed
                  ELSE Len(match) * BlockSize,
         n |-> 1, d |-> 0]

\* Requests that wait for admission offered before the residents.
AdmissionFirst ==
    LET old == Keep(residents, {r \in Requests : req[r].status # "TurnComplete"})
        new == Keep(pool, {r \in Requests :
                                req[r].status = "Queued" /\ ~IsResident(r)})
    IN  [i \in 1 .. Len(new) |-> Candidate(new[i], TRUE)]
        \o [i \in 1 .. Len(old) |-> Candidate(old[i], FALSE)]

Candidates ==
    LET old == Keep(residents, {r \in Requests : req[r].status # "TurnComplete"})
        new == Keep(pool, {r \in Requests :
                                req[r].status = "Queued" /\ ~IsResident(r)})
    IN  [i \in 1 .. Len(old) |-> Candidate(old[i], FALSE)]
        \o [i \in 1 .. Len(new) |-> Candidate(new[i], TRUE)]

\* Growth for the tokens of this step alone.
GrowthForStepOnly(e) ==
    LET held == IF e.new THEN Len(e.match) ELSE Len(table[e.r].blocks)
    IN  BlocksNeeded(Larger(e.base + e.n - held * BlockSize, 0))

\* Blocks the request still has to be given. They are taken for its whole
\* sequence, however few tokens this step feeds.
NewBlocks(e) ==
    LET held == IF e.new THEN Len(e.match) ELSE Len(table[e.r].blocks)
        slots == Larger(Len(req[e.r].tokens), e.base + e.n)
    IN  BlocksNeeded(Larger(slots - held * BlockSize, 0))

ProposedBlocks(e) ==
    NewBlocks(e) + (IF e.new THEN Len(e.match) ELSE Len(table[e.r].blocks))

\* Adopted blocks that count as available only because they are reclaimable,
\* and that no entry selected before has already been charged for.
ClaimedBlocks(e, charged) ==
    {b \in ToSet(e.match) : IsReclaimable(cache, b)} \ charged

\* The cache selects the entries it can serve together, in plan order.
PlanStepResources(entries) ==
    LET available == AvailableBlocks(cache) + ReclaimableBlocks(cache)
        limit == DecodeFirstProvisionalRequestLimit(MaxScheduledTokens, MaxBatch)
        Consider(acc, e) ==
            LET claimed == ClaimedBlocks(e, acc.charged)
                cost == NewBlocks(e) + Cardinality(claimed)
            IN  IF ProposedBlocks(e) > NumBlocks
                THEN [acc EXCEPT !.unserviceable =
                        IF @ = {} THEN {e.r} ELSE @]
                ELSE IF \/ Len(acc.chosen) >= limit
                        \/ e.new /\ Len(residents) + acc.new >= MaxBatch
                        \/ acc.planned + cost > available
                THEN acc
                ELSE [acc EXCEPT !.chosen = Append(@, e),
                                 !.planned = @ + cost,
                                 !.charged = @ \cup claimed,
                                 !.new = IF e.new THEN @ + 1 ELSE @]
    IN  FoldLeft(Consider, [chosen |-> <<>>, planned |-> 0, charged |-> {},
                            new |-> 0, unserviceable |-> {}], entries)

\* What the entry could use of the step's budget.
Wish(e) ==
    [prefill |-> e.prefill,
     pending |-> Len(req[e.r].tokens) - e.base,
     cap |-> PrefillChunk,
     extra |-> IF e.prefill THEN 0 ELSE Smaller(Len(req[e.r].drafts), MaxDrafts)]

Budgeted(entries) ==
    LET counts == AllocateDecodeFirstTokenBudget(
                    [i \in DOMAIN entries |-> Wish(entries[i])],
                    MaxScheduledTokens)
    IN  [i \in DOMAIN entries |->
            [entries[i] EXCEPT !.n = counts[i],
                               !.d = IF entries[i].prefill THEN 0
                                     ELSE counts[i] - 1]]

FewerDrafts(e) == [e EXCEPT !.n = @ - 1, !.d = @ - 1]

\* One round of taking drafts away from a plan the cache did not accept
\* whole: from every request it left out, or from the last one that has any.
ReduceDrafts(entries, kept) ==
    LET left == {i \in DOMAIN entries : entries[i].d # 0 /\
                    \A k \in DOMAIN kept : kept[k].r # entries[i].r}
        drafting == {i \in DOMAIN entries : entries[i].d # 0}
        cut == IF left # {} THEN left
               ELSE {i \in drafting : \A j \in drafting : j <= i}
    IN  [i \in DOMAIN entries |->
            IF i \in cut THEN FewerDrafts(entries[i]) ELSE entries[i]]

\* The loop that fits the drafts into the cache. fits[k] is the plan after k
\* rounds; a plan the cache accepts whole stays as it is.
Accepted(entries) == Len(PlanStepResources(entries).chosen) = Len(entries)

FitDrafts(entries) ==
    LET rounds == Len(entries) * MaxDrafts
        fits[k \in 0 .. rounds] ==
            IF k = 0 THEN entries
            ELSE IF Accepted(fits[k - 1]) THEN fits[k - 1]
            ELSE ReduceDrafts(fits[k - 1],
                              PlanStepResources(fits[k - 1]).chosen)
    IN  fits[rounds]

Ordered(entries) ==
    LET order == DecodeFirstCandidateOrder(entries)
    IN  [i \in DOMAIN entries |-> entries[order[i]]]

Probe == PlanStepResources(Ordered(Candidates))

HasPendingRequests == \E i \in DOMAIN pool : IsExecutable(pool[i])

\* Nothing can run now, and nothing is wrong: the step reports that it is
\* blocked on capacity and leaves every request pending.
CapacityDeferred ==
    /\ phase = "idle" /\ Candidates # <<>>
    /\ Probe.chosen = <<>> /\ Probe.unserviceable = {}

Adopts(entries, r) ==
    \E i \in DOMAIN entries : entries[i].r = r /\ entries[i].match # <<>>

\* Staging an adoption moves the request past the adopted tokens before the
\* step runs.
StagePrefixAdoption(entries) ==
    [r \in Requests |->
        IF Adopts(entries, r)
        THEN LET e == CHOOSE e \in ToSet(entries) : e.r = r
             IN  [req[r] EXCEPT !.processed = e.base]
        ELSE req[r]]

RollbackPrefixAdoption(entries) ==
    [r \in Requests |->
        IF Adopts(entries, r) THEN [req[r] EXCEPT !.processed = 0] ELSE req[r]]

PlansDrafts(entries) == \E i \in DOMAIN entries : entries[i].d # 0

\* Every candidate has a token left to feed.
CandidatesConsistent ==
    \A i \in DOMAIN Candidates :
        Candidates[i].base < Len(req[Candidates[i].r].tokens)

\* Only a plan with drafts is offered to the cache a second time.
PlanStep ==
    /\ phase = "idle" /\ HasPendingRequests
    /\ ~CapacityDeferred
    /\ Probe.unserviceable = {}
    /\ LET budgeted == Budgeted(Probe.chosen)
           fitted == IF PlansDrafts(budgeted) THEN FitDrafts(budgeted)
                     ELSE budgeted
       IN  IF /\ CandidatesConsistent
              /\ fitted # <<>>
              /\ PlansDrafts(budgeted) => Accepted(fitted)
           THEN /\ plan' = fitted
                /\ req' = StagePrefixAdoption(fitted)
                /\ phase' = "planned"
           ELSE /\ phase' = "unhealthy"
                /\ UNCHANGED <<plan, req>>
    /\ UNCHANGED <<cache, table, residents, pool, rsv>>

---------------------------------------------------------------------------
(* Reserving. A delta records, for one plan entry, the boundary it starts  *)
(* from, the boundary it commits to, and the blocks it adopts and takes.   *)

Target(e) == e.base + e.n

\* The resident blocks the entry's tokens will be written into.
GrowthBlocks(e) ==
    {table[e.r].blocks[j + 1] :
        j \in e.base \div BlockSize ..
              Smaller(Len(table[e.r].blocks), BlocksNeeded(Target(e))) - 1}

\* What the reservation checks before it takes anything.
ReservationConsistent ==
    /\ \A i \in DOMAIN plan :
        LET e == plan[i]
            t == table[e.r]
        IN  /\ e.new <=> ~IsResident(e.r)
            /\ \A k \in DOMAIN e.match : /\ cache.ref[e.match[k]] > 0
                                         /\ cache.size[e.match[k]] = BlockSize
                                         /\ cache.ident[e.match[k]] # NoId
            /\ e.match # <<>> => e.new /\ e.base < Target(e)
            /\ ~e.new =>
                /\ e.base = t.committed
                /\ t.committed <= Len(t.blocks) * BlockSize
                /\ \A j \in e.base \div BlockSize ..
                            Smaller(Len(t.blocks), BlocksNeeded(Target(e))) - 1 :
                        cache.size[t.blocks[j + 1]] =
                            (IF j = e.base \div BlockSize
                             THEN e.base % BlockSize ELSE 0)
    /\ \A i, k \in DOMAIN plan :
        (i # k /\ ~plan[i].new /\ ~plan[k].new) =>
            GrowthBlocks(plan[i]) \cap GrowthBlocks(plan[k]) = {}

\* Reserved blocks are handed to the deltas in plan order.
BlocksBefore(i) ==
    LET sum[k \in 0 .. Len(plan)] ==
            IF k = 0 THEN 0 ELSE sum[k - 1] + NewBlocks(plan[k])
    IN  sum[i - 1]

IdentityRoots(tables) == {tables[r].sealedId : r \in Requests}

ReserveStep ==
    /\ phase = "planned"
    /\ LET adopted == FlattenSeq([i \in DOMAIN plan |-> plan[i].match])
           need == BlocksBefore(Len(plan) + 1)
           held == FoldLeft(AddRef, cache, adopted)
           shortfall == need - AvailableBlocks(held)
           room == IF shortfall > 0 THEN Reclaim(held, shortfall) ELSE held
           taken == LowestFreeBlocks(room, need)
       IN  IF ReservationConsistent /\ need <= AvailableBlocks(room)
           THEN /\ cache' = CollectIdentities(ReserveBlocks(room, need),
                                              IdentityRoots(table))
                /\ rsv' = [i \in DOMAIN plan |->
                            [r |-> plan[i].r, from |-> plan[i].base,
                             target |-> Target(plan[i]),
                             adopted |-> plan[i].match,
                             new |-> SubSeq(taken, BlocksBefore(i) + 1,
                                            BlocksBefore(i + 1))]]
                /\ phase' = "reserved"
           ELSE /\ phase' = "unhealthy"
                /\ UNCHANGED <<cache, rsv>>
    /\ UNCHANGED <<table, residents, pool, req, plan>>

---------------------------------------------------------------------------
(* Executing. The model writes the keys and values of the tokens it is fed *)
(* through the block table of the reservation.                             *)

\* A table that lists the fresh blocks before the adopted ones.
FreshBlocksFirst(i) ==
    IF plan[i].new THEN rsv[i].new \o rsv[i].adopted
    ELSE table[rsv[i].r].blocks \o rsv[i].new

BlockTable(i) ==
    (IF plan[i].new THEN rsv[i].adopted ELSE table[rsv[i].r].blocks)
    \o rsv[i].new

BlockOf(i, p) == BlockTable(i)[(p - 1) \div BlockSize + 1]
SlotOf(p) == ((p - 1) % BlockSize) + 1

FedTokens(e) == req[e.r].tokens \o SubSeq(req[e.r].drafts, 1, e.d)

Execute ==
    /\ phase = "reserved"
    /\ LET Writes(b, s) ==
            {w \in (DOMAIN plan) \X (1 .. MaxSession) :
                /\ w[2] > rsv[w[1]].from /\ w[2] <= rsv[w[1]].target
                /\ BlockOf(w[1], w[2]) = b /\ SlotOf(w[2]) = s}
       IN  cache' = [cache EXCEPT !.kv = [b \in Blocks |->
                [s \in 1 .. BlockSize |->
                    IF Writes(b, s) = {} THEN cache.kv[b][s]
                    ELSE LET w == CHOOSE w \in Writes(b, s) : TRUE
                         IN  SubSeq(FedTokens(plan[w[1]]), 1, w[2])]]]
    /\ phase' = "executed"
    /\ UNCHANGED <<table, residents, pool, req, plan, rsv>>

---------------------------------------------------------------------------
(* Rolling back. Everything the step took goes back, reserved blocks first.*)

Taken == FlattenSeq([i \in DOMAIN rsv |-> rsv[i].new])
Adopted == FlattenSeq([i \in DOMAIN rsv |-> rsv[i].adopted])

\* A rollback that returns the reserved blocks and keeps the adopted ones.
ReleaseReservedOnly(c) == FreeValidated(c, Taken)

ReleaseReservation(c) == FreeValidated(FreeValidated(c, Taken), Adopted)

AbortStep ==
    /\ phase \in {"reserved", "executed"}
    /\ cache' = CollectIdentities(ReleaseReservation(cache),
                                  IdentityRoots(table))
    /\ req' = RollbackPrefixAdoption(plan)
    /\ plan' = <<>> /\ rsv' = <<>> /\ phase' = "idle"
    /\ UNCHANGED <<table, residents, pool>>

---------------------------------------------------------------------------
(* Committing. A result says how many drafts the target accepted, which    *)
(* token it sampled after them, and whether that ended the turn.           *)

ReachesTail(e) == e.base + e.n - e.d = Len(req[e.r].tokens)

\* A prefill chunk short of the tail samples nothing; an end-of-sequence
\* token ends the turn without being appended.
StepResults(e) ==
    IF ~ReachesTail(e)
    THEN {[acc |-> 0, tok |-> NoToken, done |-> FALSE]}
    ELSE {x \in [acc : 0 .. e.d, tok : Tokens \cup {NoToken}, done : BOOLEAN] :
            /\ x.tok = NoToken => x.done
            /\ Len(req[e.r].tokens) + x.acc + 1 >= MaxSession => x.done}

Results == {f \in [DOMAIN plan -> UNION {StepResults(plan[i]) : i \in DOMAIN plan}] :
                \A i \in DOMAIN plan : f[i] \in StepResults(plan[i])}

\* The boundary that commits: the slots of rejected drafts are left behind.
KeptTarget(i, x) == rsv[i].target - (plan[i].d - x.acc)

AdvancedTable(i, x) ==
    [(IF plan[i].new
      THEN [EmptyTable EXCEPT
                !.sealed = Len(rsv[i].adopted),
                !.sealedId = IF rsv[i].adopted = <<>> THEN NoId
                             ELSE cache.ident[Last(rsv[i].adopted)]]
      ELSE table[plan[i].r])
     EXCEPT !.blocks = BlockTable(i), !.committed = KeptTarget(i, x)]

\* What the commit checks again before it publishes anything.
CommitConsistent ==
    \A i \in DOMAIN rsv :
        /\ plan[i].new <=> ~IsResident(rsv[i].r)
        /\ \A b \in ToSet(rsv[i].adopted) :
            cache.ref[b] > 0 /\ cache.size[b] = BlockSize /\ cache.ident[b] # NoId
        /\ \A b \in ToSet(rsv[i].new) : cache.ref[b] > 0 /\ cache.size[b] = 0
        /\ rsv[i].target <= Len(BlockTable(i)) * BlockSize
        /\ \A j \in rsv[i].from \div BlockSize .. BlocksNeeded(rsv[i].target) - 1 :
            cache.size[BlockTable(i)[j + 1]] =
                (IF j = rsv[i].from \div BlockSize
                 THEN rsv[i].from % BlockSize ELSE 0)

\* Block sizes that count the slots of rejected drafts.
SizesWithRejected(x) ==
    [b \in Blocks |-> cache.size[b] + Cardinality(
        {w \in (DOMAIN rsv) \X (1 .. MaxSession) :
            /\ w[2] > rsv[w[1]].from /\ w[2] <= rsv[w[1]].target
            /\ BlockOf(w[1], w[2]) = b})]

\* Committed slots of every block once the boundaries have advanced.
AdvancedSizes(x) ==
    [b \in Blocks |-> cache.size[b] + Cardinality(
        {w \in (DOMAIN rsv) \X (1 .. MaxSession) :
            /\ w[2] > rsv[w[1]].from /\ w[2] <= KeptTarget(w[1], x[w[1]])
            /\ BlockOf(w[1], w[2]) = b})]

\* The drafts the step verified replace what it staged of them.
AcceptedTokens(q, x) == q.tokens \o SubSeq(q.drafts, 1, x.acc)

CommittedRequest(i, x) ==
    LET q == req[plan[i].r]
    IN  [q EXCEPT
            !.tokens = AcceptedTokens(q, x)
                         \o (IF x.tok = NoToken THEN <<>> ELSE <<x.tok>>),
            !.processed = Target(plan[i]) - (plan[i].d - x.acc),
            !.status = IF x.done THEN "TurnComplete" ELSE "Active",
            !.drafts = <<>>]

\* One block has been registered, or has not: a refusal ends the sealing of
\* the table, and one for want of room is tried again after a later step.
SealOutcome(s, j, reg) ==
    IF reg.id = NoId
    THEN [cache |-> reg.cache, open |-> FALSE,
          table |-> [s.table EXCEPT !.stopped = StopsSealing(reg.status)]]
    ELSE [cache |-> reg.cache, open |-> TRUE,
          table |-> [s.table EXCEPT !.sealed = j, !.sealedId = reg.id]]

\* Indexes the full blocks of one table that are not indexed yet, until one
\* is refused.
SealTable(c, t, tokens) ==
    LET pending == [k \in 1 .. t.committed \div BlockSize - t.sealed |->
                        t.sealed + k]
        Seal(s, j) ==
            IF ~s.open THEN s
            ELSE SealOutcome(s, j, Register(s.cache, t.blocks[j],
                                            Chunk(tokens, j), s.table.sealedId))
        start == [cache |-> c, table |-> t, open |-> TRUE]
    IN  IF c.limit = 0 \/ t.stopped THEN start
        ELSE FoldLeft(Seal, start, pending)

SealCommittedBlocks(c, tables, requests) ==
    LET SealInto(s, r, one) == [cache |-> one.cache,
                                tables |-> [s.tables EXCEPT ![r] = one.table]]
        SealOne(s, e) ==
            SealInto(s, e.r, SealTable(s.cache, s.tables[e.r],
                                       requests[e.r].tokens))
    IN  FoldLeft(SealOne, [cache |-> c, tables |-> tables], plan)

InPlan(r) == \E i \in DOMAIN plan : plan[i].r = r
RowOf(r) == CHOOSE i \in DOMAIN plan : plan[i].r = r

\* The pool, once the boundaries have advanced and the committed adoptions
\* have refreshed their chains.
AdvancedCache(x) ==
    FoldLeft(RecordAdoption, [cache EXCEPT !.size = AdvancedSizes(x)],
             [i \in DOMAIN rsv |-> rsv[i].adopted])

Publish(requests, sealing) ==
    LET admitted == Keep(plan, {e \in ToSet(plan) : e.new})
    IN  /\ cache' = CollectIdentities(sealing.cache,
                                      IdentityRoots(sealing.tables))
        /\ table' = sealing.tables
        /\ residents' = residents \o [i \in DOMAIN admitted |-> admitted[i].r]
        /\ req' = requests
        /\ phase' = "idle"

\* Indexing is best effort: when memory for it runs out, the committed step
\* stands and the blocks are indexed after a later one.
Commit(c, tables, requests) ==
    \E sealing \in {SealCommittedBlocks(c, tables, requests),
                    [cache |-> c, tables |-> tables]} : Publish(requests, sealing)

CommitStep ==
    /\ phase = "executed"
    /\ IF CommitConsistent
       THEN \E x \in Results :
                Commit(AdvancedCache(x),
                       [r \in Requests |->
                            IF InPlan(r) THEN AdvancedTable(RowOf(r), x[RowOf(r)])
                            ELSE table[r]],
                       [r \in Requests |->
                            IF InPlan(r) THEN CommittedRequest(RowOf(r), x[RowOf(r)])
                            ELSE req[r]])
       ELSE /\ phase' = "unhealthy"
            /\ UNCHANGED <<cache, table, residents, req>>
    /\ plan' = <<>> /\ rsv' = <<>>
    /\ UNCHANGED pool

---------------------------------------------------------------------------
(* Request operations, taken between steps. *)

\* The request's table gives up its blocks in order, and the request leaves
\* the resident set.
RemoveFromCache(r) ==
    LET emptied == [table EXCEPT ![r] = EmptyTable]
    IN  /\ cache' = CollectIdentities(FreeValidated(cache, table[r].blocks),
                                      IdentityRoots(emptied))
        /\ table' = emptied
        /\ residents' = RemoveFirst(residents, r)

BeginTurn(r, input) ==
    /\ phase = "idle"
    /\ req[r].status \in {"Absent", "TurnComplete"}
    /\ Len(req[r].tokens) + Len(input) < MaxSession
    /\ Len(req[r].starts) < MaxTurns
    /\ req[r].status = "Absent" =>
            Cardinality({q \in Requests : req[q].status # "Absent"}) < MaxOpen
    /\ req' = [req EXCEPT ![r] =
                [req[r] EXCEPT !.status = "Queued",
                               !.tokens = req[r].tokens \o input,
                               !.prompt = Len(req[r].tokens) + Len(input),
                               !.starts = Append(req[r].starts, Len(req[r].tokens))]]
    /\ pool' = IF req[r].status = "Absent" THEN Append(pool, r) ELSE pool
    /\ UNCHANGED <<cache, table, residents, plan, rsv, phase>>

CancelRequest(r) ==
    /\ phase = "idle" /\ IsExecutable(r)
    /\ req' = [req EXCEPT ![r].status = "TurnComplete", ![r].drafts = <<>>]
    /\ UNCHANGED <<cache, table, residents, pool, plan, rsv, phase>>

SetDraftTokens(r, drafts) ==
    /\ phase = "idle" /\ req[r].status = "Active" /\ ~IsPrefill(r)
    /\ Len(req[r].tokens) + Len(drafts) < MaxSession
    /\ req[r].drafts # drafts
    /\ req' = [req EXCEPT ![r].drafts = drafts]
    /\ UNCHANGED <<cache, table, residents, pool, plan, rsv, phase>>

\* Returns to the start of an earlier turn: the cache is given up and the
\* retained tokens are replayed by the next turn.
RewindRequestToStartOfTurn(r, k) ==
    /\ phase = "idle" /\ req[r].status = "TurnComplete"
    /\ RemoveFromCache(r)
    /\ req' = [req EXCEPT ![r] =
                [req[r] EXCEPT !.tokens = SubSeq(req[r].tokens, 1, req[r].starts[k]),
                               !.starts = SubSeq(req[r].starts, 1, k - 1),
                               !.processed = 0, !.prompt = 0, !.drafts = <<>>]]
    /\ UNCHANGED <<pool, plan, rsv, phase>>

CloseRequest(r) ==
    /\ phase = "idle" /\ req[r].status # "Absent"
    /\ RemoveFromCache(r)
    /\ pool' = RemoveFirst(pool, r)
    /\ req' = [req EXCEPT ![r] = NoRequest]
    /\ UNCHANGED <<plan, rsv, phase>>

\* A request no pool of this size could ever serve fails alone; the step does
\* nothing else.
FailUnserviceableRequest ==
    /\ phase = "idle" /\ HasPendingRequests
    /\ \E r \in Probe.unserviceable :
        /\ RemoveFromCache(r)
        /\ pool' = RemoveFirst(pool, r)
        /\ req' = [req EXCEPT ![r].status = "Failed", ![r].drafts = <<>>]
    /\ UNCHANGED <<plan, rsv, phase>>

DraftSequences == UNION {[1 .. n -> Tokens] : n \in 0 .. MaxDrafts}

Steps ==
    \/ PlanStep
    \/ ReserveStep
    \/ Execute
    \/ AbortStep
    \/ CommitStep
    \/ FailUnserviceableRequest
    \/ \E r \in Requests, input \in Prompts : BeginTurn(r, input)
    \/ \E r \in Requests : CancelRequest(r)
    \/ \E r \in Requests : CloseRequest(r)
    \/ \E r \in Requests, drafts \in DraftSequences : SetDraftTokens(r, drafts)
    \/ \E r \in Requests : \E k \in DOMAIN req[r].starts :
            RewindRequestToStartOfTurn(r, k)

Next == Steps /\ UNCHANGED config

Spec == Init /\ [][Next]_vars

\* The owner keeps calling Run, and a step that fails retryably does not fail
\* for ever. Each conjunct is the weak or strong fairness of one action, with
\* the action's enabling condition and its effect written out: PlanStep alone
\* enters "planned", Execute alone enters "executed", and of the two actions
\* that leave "executed" only CommitStep changes a table.
CanPlan ==
    /\ phase = "idle" /\ HasPendingRequests
    /\ ~CapacityDeferred /\ Probe.unserviceable = {}
CanFail == phase = "idle" /\ HasPendingRequests /\ Probe.unserviceable # {}

FairSpec ==
    /\ Spec
    /\ []<>CanPlan => []<>(phase = "planned")
    /\ []<>(phase # "planned")
    /\ []<>(phase = "reserved") => []<>(phase = "executed")
    /\ []<>(phase = "executed") =>
            []<><<phase = "executed" /\ table' # table>>_vars
    /\ []<>~CanFail

---------------------------------------------------------------------------
(* Properties *)

\* Every variable has the shape the code gives it.
TypeOK ==
    /\ cache.ref \in [Blocks -> Nat]
    /\ cache.size \in [Blocks -> 0 .. BlockSize]
    /\ cache.ident \in [Blocks -> Ids \cup {NoId}]
    /\ ToSet(cache.recency) \subseteq Blocks
    /\ \A r \in Requests : /\ ToSet(table[r].blocks) \subseteq Blocks
                           /\ table[r].committed \in 0 .. MaxSession
                           /\ req[r].tokens \in Seq(Tokens)
                           /\ req[r].processed \in 0 .. MaxSession
    /\ phase \in {"idle", "planned", "reserved", "executed", "unhealthy"}

\* The consistency checks of the planner, of the reservation and of the commit
\* never fire: a plan the cache accepted can always be reserved, and a
\* reservation can always be committed.
NeverUnhealthy == phase # "unhealthy"

\* The keys and values a request attends to are those of its own tokens: slot
\* p of its table was computed from exactly the first p tokens it has.
CommittedSlotsHoldOwnTokens ==
    \A r \in Requests : \A p \in 1 .. table[r].committed :
        /\ p <= Len(req[r].tokens)
        /\ cache.kv[table[r].blocks[(p - 1) \div BlockSize + 1]][SlotOf(p)]
            = SubSeq(req[r].tokens, 1, p)

\* References are exact: one per table that lists the block, one per pending
\* adoption or reservation of it, and one for the index.
ReferencesAreExact ==
    \A b \in Blocks :
        cache.ref[b] =
            Cardinality({r \in Requests : b \in ToSet(table[r].blocks)})
            + Cardinality({i \in DOMAIN rsv :
                    b \in ToSet(rsv[i].adopted) \cup ToSet(rsv[i].new)})
            + (IF b \in Indexed(cache) THEN 1 ELSE 0)

\* The reclaimable list is exactly the indexed blocks nobody else references,
\* each once, so planning never counts a block it could not get.
ReclaimableListIsExact ==
    /\ ToSet(cache.reclaimable) = {b \in Indexed(cache) : cache.ref[b] = 1}
    /\ Cardinality(ToSet(cache.reclaimable)) = Len(cache.reclaimable)

\* The pool and the index agree with their users after every adoption, eviction,
\* rollback and release (block.cpp, prefix_cache.cpp).
BookkeepingIsExact == ReferencesAreExact /\ ReclaimableListIsExact

\* What a request has in the cache, and what an open step has claimed for it.
Held == [r \in Requests |-> ToSet(table[r].blocks)]
Claimed == [r \in Requests |->
    UNION {ToSet(rsv[i].adopted) \cup ToSet(rsv[i].new) :
            i \in {i \in DOMAIN rsv : rsv[i].r = r}}]

\* A step writes only into blocks that no other request has in its table or
\* in the same step, and that no later request can adopt from the index.
StepWritesAreExclusive ==
    phase \in {"reserved", "executed"} =>
        \A i \in DOMAIN rsv : \A p \in rsv[i].from + 1 .. rsv[i].target :
            /\ BlockOf(i, p) \notin Indexed(cache)
            /\ \A r \in Requests \ {rsv[i].r} :
                    BlockOf(i, p) \notin Held[r] \cup Claimed[r]

\* A prompt that has started to execute owns the blocks of all of it, so a
\* chunked prefill cannot stall part way for want of blocks.
StartedPrefillOwnsItsPrompt ==
    \A r \in Requests :
        (req[r].status = "Active" /\ IsPrefill(r)) =>
            Len(table[r].blocks) * BlockSize >= req[r].prompt

\* Everything a request has processed is in its committed table; a request
\* that is not resident has processed nothing.
ProcessedIsCommitted ==
    phase = "idle" =>
        \A r \in Requests : req[r].status # "Failed" =>
            req[r].processed = table[r].committed

\* What a request believes and what its table owns agree: a prefill that started
\* can finish, and processed tokens are committed ones (request.cpp,
\* PlanStepResources, Rewind).
TablesMatchRequests == StartedPrefillOwnsItsPrompt /\ ProcessedIsCommitted

\* Eviction never takes a block that a retained block chains from: every index
\* entry can still be reached from the head of its chain.
ChainsAreEvictedFromTheirTail ==
    \A b \in Indexed(cache) :
        LET parent == cache.idents[cache.ident[b]].parent
        IN  parent = NoId \/ FindEntry(cache, parent) # NoBlock

\* A step feeds no more than its token budget and at least one token to every
\* request in it. A prefill gets more than one only when every decode of the
\* step, and every prefill before it, has all it could use; and budget is left
\* over only when all have. Drafts are cut besides only when the cache has no
\* room for all that the decodes of the step could use.
BudgetIsSharedOut ==
    LET Satisfied(e) == e.n = 1 + ExtraTokensWanted(Wish(e))
        Uncut == [i \in DOMAIN plan |->
                    IF plan[i].prefill THEN plan[i]
                    ELSE [plan[i] EXCEPT !.n = 1 + ExtraTokensWanted(Wish(plan[i])),
                                         !.d = ExtraTokensWanted(Wish(plan[i]))]]
        Cut == \E i \in DOMAIN plan : ~plan[i].prefill /\ ~Satisfied(plan[i])
        Prefills == {i \in DOMAIN plan : plan[i].prefill}
        Total == FoldLeft(LAMBDA sum, e : sum + e.n, 0, plan)
    IN  phase = "planned" =>
            /\ Total <= MaxScheduledTokens
            /\ \A i \in DOMAIN plan :
                    plan[i].n \in 1 .. 1 + ExtraTokensWanted(Wish(plan[i]))
            /\ \A j \in Prefills : plan[j].n > 1 =>
                    /\ \A i \in Prefills : i < j => Satisfied(plan[i])
                    /\ Cut => ~Accepted(Uncut)
            /\ Total < MaxScheduledTokens =>
                    \/ Cut
                    \/ \A i \in Prefills : Satisfied(plan[i])

Ledger == INSTANCE BlockLedger WITH
    ref <- cache.ref, held <- Held, claimed <- Claimed, indexed <- Indexed(cache)

\* The reservation, the prefix index and the tables together implement the
\* ledger of block ownership.
ImplementsLedger == Ledger!Spec

\* A resident turn finishes, or the engine is left with nothing it can run and
\* says so. New arrivals cannot keep it waiting.
ResidentTurnsFinish ==
    \A r \in Requests :
        (IsExecutable(r) /\ IsResident(r)) ~> (~IsExecutable(r) \/ CapacityDeferred)
=============================================================================
