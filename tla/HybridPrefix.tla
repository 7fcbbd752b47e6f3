---------------------------- MODULE HybridPrefix ----------------------------
(***************************************************************************)
(* Engine steps of a hybrid model over its prefix index: matching at       *)
(* planning time, reservation with reclamation, commit, publication of     *)
(* checkpointed prefixes and of the draft checkpoints behind them. What    *)
(* the fixed-state rows hold, and what may fail in them, is HybridStep's   *)
(* part; here a row is a checkpoint of the index.                          *)
(*                                                                         *)
(* A match leases its endpoint from planning on: the fixed-state           *)
(* checkpoint until the commit, the draft checkpoint until the drafter has *)
(* consumed it. Everything that reclaims works under those leases.         *)
(***************************************************************************)
EXTENDS CheckpointIndex

CONSTANTS
    Requests,
    Configurations   \* what an engine and its work may be like

HybridPrefixAssumption ==
    \A c \in Configurations :
        /\ c.prefillChunk \in Nat \ {0} /\ c.drafter \in BOOLEAN
        /\ c.maxIndexed \in Nat \ {0} /\ c.maxCheckpoints \in Nat \ {0}
        /\ DOMAIN c.stream \subseteq Requests
        /\ \A r \in DOMAIN c.stream : c.prompt[r] \in 1 .. Len(c.stream[r])

VARIABLES
    config,     \* the member of Configurations this engine runs with
    index,      \* the prefix index and the pool under it
    table,      \* block tables, NoTable of a request that has none
    residents,  \* cache_allocated_requests_
    queue,      \* admitted requests without a table, oldest first
    plan,       \* step_plan_.requests with what the step reserved for them
    feeds,      \* the draft checkpoints the drafter has yet to consume
    phase       \* idle, reserved, sealed, or unhealthy

vars == <<config, index, table, residents, queue, plan, feeds, phase>>

Stream == config.stream              \* the tokens a request will ever hold
Prompt == config.prompt              \* how many of them are its prompt
PrefillChunk == config.prefillChunk  \* tokens of a prefill chunk, at most
Drafter == config.drafter            \* a block drafter keeps checkpoints too
MaxCheckpoints == config.maxCheckpoints
Clients == DOMAIN Stream             \* the requests that take part

NoTable == [blocks |-> <<>>, committed |-> 0, sealed |-> 0, sealedId |-> NoId,
            stopped |-> FALSE]

Init ==
    /\ config \in Configurations
    /\ index = EmptyIndex(config.maxIndexed, config.maxCheckpoints)
    /\ table = [r \in Requests |-> NoTable]
    /\ residents = <<>> /\ queue = <<>> /\ plan = <<>> /\ feeds = {}
    /\ phase = "idle"

Rows == DOMAIN plan
Prefix(r, n) == SubSeq(Stream[r], 1, n)

\* Identities stay as long as a table, a plan or a feed reaches them.
Roots(tables, entries, ids) ==
    {tables[r].sealedId : r \in Requests}
    \cup {entries[i].match.id : i \in DOMAIN entries} \cup ids

Settle(h, tables, entries, ids) ==
    [h EXCEPT !.c = CollectIdentities(@, Roots(tables, entries, ids))]

---------------------------------------------------------------------------
(* Planning. *)

AddRequest(r) ==
    /\ phase = "idle" /\ r \notin ToSet(queue) \cup ToSet(residents)
    /\ queue' = Append(queue, r)
    /\ UNCHANGED <<index, table, residents, plan, feeds, phase>>

\* A request holds its prompt, and the token sampled behind the last commit.
Length(r) == Max({Prompt[r], table[r].committed + 1})

Candidate(r) ==
    LET new == r \notin ToSet(residents)
        match == IF new THEN MatchCheckpoint(index, Prefix(r, Length(r)),
                                             Length(r) - 1)
                 ELSE NoMatch
    IN  [r |-> r, new |-> new, match |-> match,
         base |-> IF new THEN Len(match.blocks) * BlockSize
                  ELSE table[r].committed,
         before |-> Length(r), prefill |-> table[r].committed < Prompt[r],
         n |-> 1, fresh |-> <<>>]

IsTurnComplete(r) == table[r].committed = Len(Stream[r])

StepCandidates ==
    LET all == SelectSeq(residents \o queue, LAMBDA r : ~IsTurnComplete(r))
    IN  [i \in DOMAIN all |-> Candidate(all[i])]

Leases(entries) == {entries[i].match.id : i \in DOMAIN entries} \ {NoId}

\* Blocks the entry has to take: the whole sequence is reserved at once.
NewBlocks(e) ==
    LET held == IF e.new THEN Len(e.match.blocks) ELSE Len(table[e.r].blocks)
        slots == Max({e.before, e.base + e.n})
    IN  Max({0, BlocksNeeded(slots) - held})

\* Available blocks when leases are not looked at.
AvailableIgnoringLeases(L) ==
    AvailableBlocks(index.c) + Len(index.c.reclaimable)

\* Free blocks and those that reclamation can still hand out. Every
\* candidate's match is alive while the cache plans.
AvailableToPlan(L) ==
    AvailableBlocks(index.c) + Len(UnleasedBlocks(index, L))

\* Candidates are taken in order as long as they fit.
Selected(entries, L) ==
    LET available == AvailableToPlan(L)
        Take(s, e) ==
            IF \/ e.new /\ Len(residents) + s.new >= MaxCheckpoints
               \/ s.blocks + NewBlocks(e) > available
            THEN s
            ELSE [chosen |-> Append(s.chosen, e),
                  blocks |-> s.blocks + NewBlocks(e),
                  new |-> s.new + (IF e.new THEN 1 ELSE 0)]
    IN  FoldLeft(Take, [chosen |-> <<>>, blocks |-> 0, new |-> 0],
                 entries).chosen

\* The chunk sizes the token budget may give the chosen entries.
Budgets(entries) ==
    {f \in [DOMAIN entries -> 1 .. PrefillChunk] :
        \A i \in DOMAIN entries :
            f[i] <= IF entries[i].prefill THEN entries[i].before - entries[i].base
                    ELSE 1}

Needed(entries, i) ==
    FoldLeft(LAMBDA n, e : n + NewBlocks(e), 0, SubSeq(entries, 1, i))

---------------------------------------------------------------------------
(* A step reserves all it planned or nothing: adopted blocks are           *)
(* referenced first, then the shortfall is reclaimed under the leases the  *)
(* plan still holds.                                                       *)

\* The index once the adopted blocks are held and the shortfall reclaimed.
RoomFor(entries) ==
    LET adopted == FlattenSeq([i \in DOMAIN entries |-> entries[i].match.blocks])
        held == [index EXCEPT !.c = FoldLeft(AddRef, @, adopted)]
    IN  ReclaimBlocks(held, Leases(entries),
                      Max({0, Needed(entries, Len(entries))
                                - AvailableBlocks(held.c)}))

\* Reserved blocks are handed out in plan order.
HandOut(entries, room) ==
    LET taken == LowestFreeBlocks(room.c, Needed(entries, Len(entries)))
    IN  [i \in DOMAIN entries |-> [entries[i] EXCEPT
            !.fresh = SubSeq(taken, Needed(entries, i - 1) + 1,
                             Needed(entries, i))]]

BeginStep ==
    /\ phase = "idle"
    /\ LET candidates == StepCandidates
           chosen == Selected(candidates, Leases(candidates)) IN
       /\ chosen # <<>>
       /\ \E f \in Budgets(chosen) :
            LET entries == [i \in DOMAIN chosen |-> [chosen[i] EXCEPT !.n = f[i]]]
                room == RoomFor(entries)
                need == Needed(entries, Len(entries))
            IN  IF need <= AvailableBlocks(room.c)
                THEN /\ plan' = HandOut(entries, room)
                     /\ index' = Settle([room EXCEPT !.c = ReserveBlocks(@, need)],
                                        table, entries, {})
                     /\ phase' = "reserved"
                ELSE /\ phase' = "unhealthy"
                     /\ UNCHANGED <<plan, index>>
    /\ UNCHANGED <<table, residents, queue, feeds>>

Fresh == FlattenSeq([i \in Rows |-> plan[i].fresh])
Adopted == FlattenSeq([i \in Rows |-> plan[i].match.blocks])

\* A rollback that keeps the references on the adopted blocks.
ReleaseReservedOnly(c) == FreeValidated(c, Fresh)

\* Reserved blocks go back first, then the adopted references.
ReleaseReservation(c) == FreeValidated(FreeValidated(c, Fresh), Adopted)

AbortStep ==
    /\ phase = "reserved"
    /\ index' = Settle([index EXCEPT !.c = ReleaseReservation(@)],
                       table, <<>>, {})
    /\ plan' = <<>> /\ phase' = "idle"
    /\ UNCHANGED <<table, residents, queue, feeds>>

---------------------------------------------------------------------------
(* Commit: the tables advance, the adoptions are recorded, and the matches *)
(* end. The drafter's feeds keep the draft checkpoints.                    *)

\* A table that lists the fresh blocks before the adopted ones.
FreshBlocksFirst(e) ==
    IF ~e.new THEN [table[e.r] EXCEPT !.blocks = @ \o e.fresh,
                                      !.committed = e.base + e.n]
    ELSE [NoTable EXCEPT !.blocks = e.fresh \o e.match.blocks,
                         !.sealed = Len(e.match.blocks),
                         !.sealedId = e.match.id,
                         !.committed = e.base + e.n]

AdvancedTable(e) ==
    LET t == IF ~e.new THEN table[e.r]
             ELSE [NoTable EXCEPT !.blocks = e.match.blocks,
                                  !.sealed = Len(e.match.blocks),
                                  !.sealedId = e.match.id]
    IN  [t EXCEPT !.blocks = @ \o e.fresh, !.committed = e.base + e.n]

AdvancedTables ==
    [r \in Requests |->
        IF \E i \in Rows : plan[i].r = r
        THEN AdvancedTable(plan[CHOOSE i \in Rows : plan[i].r = r])
        ELSE table[r]]

\* What the step wrote: each committed token behind everything before it.
Written(c, tables) ==
    LET Owner(b) == {i \in Rows : b \in ToSet(tables[plan[i].r].blocks)
                                  /\ b \notin ToSet(plan[i].match.blocks)}
        Position(i, b, s) ==
            (SelectInSeq(tables[plan[i].r].blocks, LAMBDA x : x = b) - 1)
                * BlockSize + s
        Fed(i, b, s) == Position(i, b, s) \in plan[i].base + 1 ..
                                              plan[i].base + plan[i].n
        Writer(b, s) == {i \in Owner(b) : Fed(i, b, s)}
    IN  [c EXCEPT
            !.kv = [b \in Blocks |-> [s \in 1 .. BlockSize |->
                IF Writer(b, s) = {} THEN c.kv[b][s]
                ELSE LET i == CHOOSE i \in Writer(b, s) : TRUE
                     IN  Prefix(plan[i].r, Position(i, b, s))]],
            !.size = [b \in Blocks |-> c.size[b] +
                Cardinality({s \in 1 .. BlockSize : Writer(b, s) # {}})]]

Adoptions(h) ==
    FoldLeft(LAMBDA g, e : RecordAdoptedPath(g, e.match.blocks), h, plan)

DraftLeases == {plan[i].match.id : i \in {j \in Rows : plan[j].match.draft}}

---------------------------------------------------------------------------
(* Publication. A prefill that ends on a block boundary offers its whole   *)
(* private suffix; g is the index and the tables so far.                   *)

Offers(t, e) ==
    /\ e.prefill /\ ~t.stopped
    /\ t.committed = e.base + e.n /\ t.committed % BlockSize = 0
    /\ t.sealed < t.committed \div BlockSize

\* Publishes whatever boundary it reaches, the end of the prompt too.
HasRowAtEveryBoundary(h, L, t, e) ==
    \/ Len(h.order) < MaxCheckpoints
    \/ ReclaimableCheckpoint(h, L, t.sealedId) # NoBlock

\* With no row left, the boundary at the end of the prompt is not worth an
\* earlier checkpoint: no replay of the prompt could use it.
HasRow(h, L, t, e) ==
    \/ Len(h.order) < MaxCheckpoints
    \/ /\ t.committed # e.before
       /\ ReclaimableCheckpoint(h, L, t.sealedId) # NoBlock

SealCheckpointedPrefix(g, L, e) ==
    LET t == g.table[e.r]
        total == t.committed \div BlockSize
        suffix == SubSeq(t.blocks, t.sealed + 1, total)
        tokens == Prefix(e.r, t.committed)
        status == PublicationStatus(g.index, L, tokens, Len(suffix))
        next == ReplaceCheckpointedPrefix(g.index, L, suffix, tokens, t.sealedId)
    IN  IF ~Offers(t, e) THEN g
        ELSE IF status = "HashCollision"
        THEN [g EXCEPT !.table[e.r].stopped = TRUE]
        ELSE IF status # "Indexed" \/ ~HasRow(g.index, L, t, e) THEN g
        ELSE [index |-> next,
              table |-> [g.table EXCEPT
                ![e.r].sealed = total,
                ![e.r].sealedId = next.c.ident[Last(suffix)]]]

\* Allocation may fail at any entry; what is published by then stays.
CommitStep ==
    /\ phase = "reserved"
    /\ LET tables == AdvancedTables
           committed == Adoptions([index EXCEPT !.c = Written(@, tables)])
           L == IF Drafter THEN DraftLeases ELSE {}
       IN  \E upTo \in 0 .. Len(plan) :
            LET g == FoldLeft(LAMBDA x, e : SealCheckpointedPrefix(x, L, e),
                              [index |-> committed, table |-> tables],
                              SubSeq(plan, 1, upTo))
            IN  /\ index' = Settle(g.index, g.table, plan, L)
                /\ table' = g.table
                /\ feeds' = L
    /\ LET new == SelectSeq(plan, LAMBDA e : e.new)
           admitted == [i \in DOMAIN new |-> new[i].r]
       IN  /\ residents' = residents \o admitted
           /\ queue' = SelectSeq(queue, LAMBDA r : r \notin ToSet(admitted))
    /\ phase' = "sealed"
    /\ UNCHANGED plan

---------------------------------------------------------------------------
(* The drafter consumes its feeds, then captures its own state behind the  *)
(* boundaries that were published. Room for that is made by evicting draft *)
(* checkpoints nobody leases; a refused capture attaches nothing.          *)

DraftBoundary(e) ==
    LET t == table[e.r] IN
    IF /\ e.prefill /\ t.committed = e.base + e.n
       /\ t.committed % BlockSize = 0 /\ t.sealed = t.committed \div BlockSize
       /\ FindEntry(index.c, t.sealedId) \in ToSet(index.order) \ index.draft
       /\ Len(index.state[FindEntry(index.c, t.sealedId)]) = t.committed
    THEN {FindEntry(index.c, t.sealedId)} ELSE {}

PublishDrafts ==
    /\ phase = "sealed"
    /\ feeds' = {}
    /\ \E captured \in SUBSET (IF Drafter THEN UNION {DraftBoundary(plan[i]) : i \in Rows}
                               ELSE {}),
          evicted \in SUBSET index.draft :
        /\ captured = {} => evicted = {}
        /\ index' = Settle([index EXCEPT !.draft = (@ \ evicted) \cup captured],
                           table, <<>>, {})
    /\ plan' = <<>> /\ phase' = "idle"
    /\ UNCHANGED <<table, residents, queue>>

\* A finished or cancelled request gives its blocks back, root first.
Release(r) ==
    /\ phase = "idle" /\ r \in ToSet(residents)
    /\ LET tables == [table EXCEPT ![r] = NoTable]
       IN  /\ table' = tables
           /\ index' = Settle([index EXCEPT
                            !.c = FreeValidated(@, table[r].blocks)],
                            tables, <<>>, {})
    /\ residents' = Remove(residents, r)
    /\ UNCHANGED <<queue, plan, feeds, phase>>

RemoveQueued(r) ==
    /\ phase = "idle" /\ r \in ToSet(queue)
    /\ queue' = Remove(queue, r)
    /\ UNCHANGED <<index, table, residents, plan, feeds, phase>>

Steps ==
    \/ \E r \in Clients : AddRequest(r) \/ Release(r) \/ RemoveQueued(r)
    \/ BeginStep \/ AbortStep \/ CommitStep \/ PublishDrafts

Next == Steps /\ UNCHANGED config

Spec == Init /\ [][Next]_vars

---------------------------------------------------------------------------
(* Properties. *)

TypeOK ==
    /\ phase \in {"idle", "reserved", "sealed", "unhealthy"}
    /\ DOMAIN index.c.ref = Blocks
    /\ ToSet(index.order) \subseteq Indexed(index.c) /\ IsInjective(index.order)
    /\ index.draft \subseteq ToSet(index.order)
    /\ \A r \in Clients : /\ table[r].committed \in 0 .. Len(Stream[r])
                            /\ table[r].sealed <= Len(table[r].blocks)
    /\ ToSet(residents) \cap ToSet(queue) = {}
    /\ feeds \subseteq Ids

HoldsPrefix(blocks, r, n) ==
    \A p \in 1 .. n :
        index.c.kv[blocks[(p - 1) \div BlockSize + 1]][((p - 1) % BlockSize) + 1]
            = Prefix(r, p)

\* MatchPrefix (prefix_cache.cpp:116) pairs blocks with a checkpoint found
\* through the endpoint. Whatever was adopted, published, replaced, evicted
\* or rolled back before, a request is only offered blocks that hold exactly
\* its own leading tokens, and a fixed state computed from exactly those; and
\* what a planned request adopted stays so while its step runs.
HitsAreExact ==
    /\ \A r \in Clients \ ToSet(residents) :
        LET m == MatchCheckpoint(index, Prefix(r, Prompt[r]), Prompt[r] - 1)
            n == Len(m.blocks) * BlockSize
        IN  m # NoMatch =>
                /\ n < Prompt[r] /\ HoldsPrefix(m.blocks, r, n)
                /\ index.state[Last(m.blocks)] = Prefix(r, n)
    /\ \A i \in Rows :
        LET m == plan[i].match
            n == Len(m.blocks) * BlockSize
        IN  phase = "reserved" /\ m.id # NoId =>
                /\ HoldsPrefix(m.blocks, plan[i].r, n)
                /\ index.state[Last(m.blocks)] = Prefix(plan[i].r, n)

\* A resident's table holds the keys and values of its own tokens up to its
\* committed boundary, whichever of its blocks are shared.
CommittedSlotsHoldOwnTokens ==
    \A r \in Requests : HoldsPrefix(table[r].blocks, r, table[r].committed)

\* PlanCheckpointedPrefix refuses a suffix that is not private, and the
\* publication a parent that left the index (prefix_cache.cpp:337, 465); both
\* are fatal. Blocks of a table are indexed exactly up to the boundary the
\* table has published or adopted, and that boundary stays in the index.
TablesAgreeWithIndex ==
    \A r \in Requests :
        LET t == table[r] IN
        /\ \A i \in DOMAIN t.blocks :
            (index.c.ident[t.blocks[i]] # NoId) <=> i <= t.sealed
        /\ t.sealed > 0 =>
            PathBlocks(index.c, t.blocks[t.sealed]) = SubSeq(t.blocks, 1, t.sealed)
        /\ FindEntry(index.c, t.sealedId) =
            IF t.sealed = 0 THEN NoBlock ELSE t.blocks[t.sealed]

\* Reclaim and publication run between a match and the use of it
\* (paged_cache_reservation.cpp:293, engine.cpp:2761). An endpoint that is
\* leased, by a planned match or by a draft checkpoint the drafter has not
\* consumed, stays in the index with every block of its path.
LeasedPathsStay ==
    \A id \in feeds \cup IF phase = "reserved" THEN Leases(plan) ELSE {} :
        \E b \in ToSet(index.order) :
            /\ index.c.ident[b] = id
            /\ \A e \in ToSet(PathBlocks(index.c, b)) : e # NoBlock

\* Eviction takes one block at a time (prefix_cache.cpp:748). It never
\* leaves an endpoint behind that has lost part of its path: such a
\* checkpoint could not be matched and would still occupy a row.
EndpointsAreReachable ==
    \A b \in ToSet(index.order) :
        /\ HasRetainedPhysicalPath(index.c, b, Len(index.state[b]) \div BlockSize)
        /\ PathTokens(index.c, index.c.ident[b]) = index.state[b]

\* Two requests may compute one prefix side by side; only the first may
\* publish it (prefix_cache.cpp:361). No row is spent on a second endpoint
\* for the same tokens, and neither budget of the index is exceeded.
RowsAreNotWasted ==
    /\ Len(index.order) <= MaxCheckpoints
    /\ Len(index.c.recency) <= index.c.limit
    /\ \A a, b \in ToSet(index.order) :
        index.state[a] = index.state[b] => a = b

\* A block's references are its entry in the index, the tables it is in and
\* the plan that holds it, after every adoption, replacement and rollback.
ReferencesAreExact ==
    \A b \in Blocks :
        index.c.ref[b] =
            Cardinality({r \in Requests : b \in ToSet(table[r].blocks)})
            + (IF phase = "reserved"
               THEN Cardinality({i \in Rows : b \in ToSet(plan[i].fresh)
                                        \cup ToSet(plan[i].match.blocks)})
               ELSE 0)
            + (IF b \in Indexed(index.c) THEN 1 ELSE 0)

\* Index, checkpoints and tables are consistent between any two steps, whatever
\* was matched, leased, published, evicted or rolled back in between.
IndexIsSound ==
    /\ EndpointsAreReachable /\ LeasedPathsStay /\ RowsAreNotWasted
    /\ TablesAgreeWithIndex /\ ReferencesAreExact

\* The planner charges no block to a hybrid adoption and relies on the leases
\* of all candidates (paged_key_value_cache.cpp:1086). The reservation then
\* always finds the blocks the plan counted on.
PlansAlwaysFit == phase # "unhealthy"

\* SealCommittedBlocks (cache_manager.cpp:499) keeps the newest earlier
\* checkpoint rather than publish the end of a prompt: a step takes an
\* endpoint away only for one that a replay of its own prompt can use.
RowsGoToUsableEndpoints ==
    [][phase = "reserved" /\ phase' = "sealed" /\
       ~(ToSet(index.order) \subseteq ToSet(index'.order)) =>
        \E i \in Rows :
            /\ table'[plan[i].r].sealed > table[plan[i].r].sealed
            /\ table'[plan[i].r].committed < plan[i].before]_vars
=============================================================================
