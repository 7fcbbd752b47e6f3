---------------------------- MODULE BlockDrafter ----------------------------
(***************************************************************************)
(* The block drafter (src/src/dflash2_drafter.cpp) and the part of the     *)
(* engine that feeds it (src/src/engine/engine.cpp).                       *)
(*                                                                         *)
(* The drafter keeps its own paged cache of rows computed from the hidden  *)
(* states of the tokens the target committed.  A windowed drafter gives    *)
(* every request a ring of blocks that old positions share with new ones;  *)
(* a full-attention drafter grows a table that mirrors the target's.  A    *)
(* request joins at position zero, from a captured checkpoint, or in the   *)
(* middle of its context, when it must rebuild a whole window before it    *)
(* may draft.  Any failure makes the drafter forget every request.         *)
(*                                                                         *)
(* A cached row is named by the request, the incarnation and the position  *)
(* it was computed for, so that a row read through a stale table, an       *)
(* aliased ring column or the wrong checkpoint is told from the right one. *)
(***************************************************************************)
EXTENDS Integers, Sequences, FiniteSets, SequencesExt, FiniteSetsExt, Functions

CONSTANT Configurations   \* the drafters and the work the engine may give them

\* What the constructor accepts.
GeometryAssumption ==
    \A c \in Configurations :
        /\ c.pagedBlock \in Nat \ {0} /\ c.queryBlock \in Nat \ {0, 1}
        /\ c.slidingWindow \in Nat /\ c.numDrafts \in Nat \ {0}
        /\ c.maxRequests \in Nat \ {0} /\ c.targetBlocks \in Nat \ {0}
        /\ c.failureThreshold \in Nat \ {0} /\ c.dspark \in BOOLEAN

VARIABLES
    config,     \* the member of Configurations that is run
    seq,        \* rows the target has committed for each request
    gen,        \* incarnation of each request: a rewind replays new rows
    pending,    \* drafts each request takes into its next step
    drafter,    \* the Dflash2Drafter
    failures,   \* dflash2_consecutive_failures_
    injected,   \* failures injected so far (bound only)
    disabled    \* dflash2_disabled_

vars == <<config, seq, gen, pending, drafter, failures, injected, disabled>>

Requests == config.requests            \* as small naturals
PagedBlock == config.pagedBlock        \* paged_block_size_
QueryBlock == config.queryBlock        \* config_.block_size
SlidingWindow == config.slidingWindow  \* 0 for full attention
NumDrafts == config.numDrafts          \* config_.num_draft_tokens
MaxRequests == config.maxRequests      \* the engine's max_batch_size
TargetBlocks == config.targetBlocks    \* blocks of the target's pool
Dspark == config.dspark                \* config_.is_dspark
FailureThreshold == config.failureThreshold
MaxLen == config.maxLen                \* bound: positions of a request
RowCounts == config.rowCounts          \* bound: rows of a prefill chunk
Policies == config.policies            \* bound: what a step's requests ask for
MaxSnapshots == config.maxSnapshots    \* bound: checkpoints kept at a time
MaxReleases == config.maxReleases      \* bound: closes, failures and rewinds
MaxFailures == config.maxFailures      \* bound: injected failures

-----------------------------------------------------------------------------
(* Geometry. *)

CeilDiv(n, d) == (n + d - 1) \div d

Windowed == SlidingWindow > 0

ContextWindow == IF Windowed THEN SlidingWindow + QueryBlock ELSE 0

RingOfOneWindow == IF Windowed THEN CeilDiv(SlidingWindow, PagedBlock) ELSE 0

RingBlocks ==
    IF Windowed THEN CeilDiv(ContextWindow + QueryBlock, PagedBlock) + 1 ELSE 0

QuerySpillBlocks == (QueryBlock - 1) \div PagedBlock + 1

PoolBlocks ==
    IF Windowed
    THEN MaxRequests * (CeilDiv(SlidingWindow + 2 * QueryBlock, PagedBlock) + 1)
    ELSE TargetBlocks + MaxRequests * QuerySpillBlocks

Blocks == 0 .. PoolBlocks - 1

(* What a slot holds that is no committed row: zeros, or a query block's K/V. *)
Scratch == <<0, 0, -1>>

Rows == (Requests \X (0 .. MaxReleases) \X (0 .. MaxLen - 1)) \cup {Scratch}

-----------------------------------------------------------------------------
(* The drafter's tables. *)

NewDrafter ==
    [tracked |-> <<>>,
     free    |-> [i \in 1 .. PoolBlocks |-> PoolBlocks - i],
     cache   |-> [b \in Blocks |-> [o \in 0 .. PagedBlock - 1 |-> Scratch]],
     saved   |-> {},
     error   |-> "none"]

Tracks(d, r) == r \in DOMAIN d.tracked

WithState(d, r, state) ==
    [d EXCEPT !.tracked = [q \in DOMAIN d.tracked \cup {r} |->
                              IF q = r THEN state ELSE d.tracked[q]]]

(* The cache slot the block table sends position p of a request to. *)
SlotOf(blocks, p) ==
    LET column == p \div PagedBlock
    IN  <<blocks[(IF Windowed THEN column % Len(blocks) ELSE column) + 1],
          p % PagedBlock>>

RowAt(d, blocks, p) == LET at == SlotOf(blocks, p) IN d.cache[at[1]][at[2]]

HasContext(state, end) ==
    \/ state.start = 0
    \/ /\ Windowed
       /\ end >= state.start
       /\ end - state.start >= ContextWindow

TakeBlocks(d, r, taken, short) ==
    [d EXCEPT !.tracked[r].blocks =
                  @ \o [i \in 1 .. taken |-> d.free[Len(d.free) - i + 1]],
              !.free  = SubSeq(d.free, 1, Len(d.free) - taken),
              !.error = IF short THEN "exhausted" ELSE @]

(* A ring is whole from the start; a table grows to the positions. *)
EnsureBlocks(d, r, positions) ==
    LET needed == IF Windowed THEN RingBlocks ELSE CeilDiv(positions, PagedBlock)
        count  == Max({0, needed - Len(d.tracked[r].blocks)})
    IN  TakeBlocks(d, r, Min({count, Len(d.free)}), count > Len(d.free))

Release(d, r) ==
    IF ~Tracks(d, r) THEN d
    ELSE [d EXCEPT !.free = @ \o d.tracked[r].blocks,
                   !.tracked = [q \in DOMAIN @ \ {r} |-> @[q]]]

ReleaseAllForgetsBlocks(d) == [d EXCEPT !.tracked = <<>>]

(* The hash map's order does not matter: one block is as good as another. *)
ReleaseAll(d) ==
    FoldLeft(Release, d, SetToSortSeq(DOMAIN d.tracked, <))

-----------------------------------------------------------------------------
(* Joining. *)

CanJoin(feed) == feed.eligible /\ (feed.first = 0 \/ (Windowed /\ ~Dspark))

(* A checkpoint is the ring's blocks in ring order. *)
WriteRing(d, blocks, rows) ==
    [d EXCEPT !.cache = [b \in Blocks |->
        IF \E i \in DOMAIN blocks : blocks[i] = b
        THEN rows[CHOOSE i \in DOMAIN blocks : blocks[i] = b]
        ELSE @[b]]]

DirtyRing == [i \in 1 .. RingBlocks |-> [o \in 0 .. PagedBlock - 1 |-> Scratch]]

(* A read that fails leaves the blocks dirty and still free; an I/O error    *)
(* also discards the checkpoint, running out of memory keeps it.             *)
RestoreInto(d, feed, blocks, c) ==
    CASE feed.restore = "ok" ->
           [WithState(WriteRing(d, blocks, c.ring), feed.req,
                      [blocks |-> blocks, cached |-> feed.first, start |-> 0])
              EXCEPT !.free = SubSeq(d.free, 1, Len(d.free) - Len(blocks))]
      [] feed.restore = "system_error" ->
           [WriteRing(d, blocks, DirtyRing) EXCEPT !.saved = @ \ {c}]
      [] feed.restore = "bad_alloc" -> WriteRing(d, blocks, DirtyRing)

RestorePrefix(d, feed) ==
    IF /\ Windowed /\ Len(d.free) >= RingBlocks
       /\ \E c \in feed.hit : c \in d.saved /\ Len(c.prefix) = feed.first
    THEN RestoreInto(d, feed,
                     SubSeq(d.free, Len(d.free) - RingBlocks + 1, Len(d.free)),
                     CHOOSE c \in feed.hit : TRUE)
    ELSE d

(* A request that is not restored starts its context where its feed does. *)
Join(d, feed) ==
    IF \/ Tracks(d, feed.req)
       \/ feed.first # 0 /\ feed.hit \cap d.saved # {}
       \/ ~CanJoin(feed)
       \/ Windowed /\ Len(d.free) < RingBlocks
       \/ ~Windowed /\ \/ Cardinality(DOMAIN d.tracked) >= MaxRequests
                       \/ Len(d.free) < QuerySpillBlocks
    THEN d
    ELSE EnsureBlocks(
           WithState(d, feed.req,
                     [blocks |-> <<>>, cached |-> feed.first, start |-> feed.first]),
           feed.req, 0)

Admit(d, feed) ==
    Join(IF ~Tracks(d, feed.req) /\ feed.eligible /\ feed.first # 0
         THEN RestorePrefix(d, feed) ELSE d,
         feed)

-----------------------------------------------------------------------------
(* A proposal. *)

Dropped(feed) ==
    IF Windowed /\ feed.rows > ContextWindow THEN feed.rows - ContextWindow ELSE 0

EndOf(feed) == feed.first + feed.rows

Served(d, feeds) == SelectSeq(feeds, LAMBDA f : Tracks(d, f.req))

Drafting(d, served) ==
    {f \in Range(served) : f.wants /\ HasContext(d.tracked[f.req], EndOf(f))}

(* Requests with a query block; with none asked for, the first served feed   *)
(* lends its slot and its lattice is dropped.                                *)
QueryBlockOwners(d, served) ==
    IF Drafting(d, served) # {} THEN Drafting(d, served) ELSE {served[1]}

(* One packed attention call writes every context row and query block.       *)
Ingest(d, feed, owners, committed) ==
    LET blocks == d.tracked[feed.req].blocks
        rows   == feed.first + Dropped(feed) ..
                  EndOf(feed) + (IF feed \in owners THEN QueryBlock ELSE 0) - 1
        writing(b, o) == {p \in rows : SlotOf(blocks, p) = <<b, o>>}
        row(p) == IF p < EndOf(feed) THEN committed[feed.req][p + 1] ELSE Scratch
    IN  [d EXCEPT !.cache = [b \in Blocks |->
            IF b \notin Range(blocks) THEN @[b]
            ELSE [o \in 0 .. PagedBlock - 1 |->
                    IF writing(b, o) = {} THEN @[b][o] ELSE row(Max(writing(b, o)))]]]

Claim(d, feed, owners) ==
    EnsureBlocks(d, feed.req, EndOf(feed) + (IF feed \in owners THEN QueryBlock ELSE 0))

Advance(d, feed) == [d EXCEPT !.tracked[feed.req].cached = EndOf(feed)]

(* The packed pass over the feeds that have their blocks. *)
Run(d, served, owners, committed) ==
    IF d.error # "none" THEN d
    ELSE FoldLeft(LAMBDA e, f : Advance(Ingest(e, f, owners, committed), f), d, served)

ProposeFor(d, served, owners, committed) ==
    Run(FoldLeft(LAMBDA e, f : Claim(e, f, owners), d, served), served, owners, committed)

ProposeServed(d, served, committed) ==
    IF served = <<>> THEN d
    ELSE IF \E f \in Range(served) : d.tracked[f.req].cached # f.first
         THEN [d EXCEPT !.error = "contract"]
    ELSE ProposeFor(d, served, QueryBlockOwners(d, served), committed)

ProposeAdmitted(d, feeds, committed) == ProposeServed(d, Served(d, feeds), committed)

Propose(d, feeds, committed) ==
    ProposeAdmitted(FoldLeft(Admit, d, feeds), feeds, committed)

CaptureWhileRebuilding(d, feed) ==
    /\ Windowed /\ Tracks(d, feed.req)
    /\ Len(d.tracked[feed.req].blocks) = RingBlocks

CanCapturePrefix(d, feed) ==
    /\ Windowed /\ Tracks(d, feed.req)
    /\ LET state == d.tracked[feed.req]
       IN  /\ state.cached = EndOf(feed)
           /\ HasContext(state, EndOf(feed))
           /\ Len(state.blocks) = RingBlocks

CapturePrefix(d, feed, committed) ==
    IF ~(feed.capture /\ feed.eligible /\ CanCapturePrefix(d, feed)
         /\ Cardinality(d.saved) < MaxSnapshots)
    THEN d
    ELSE [d EXCEPT !.saved = @ \cup
            {[prefix |-> committed[feed.req],
              ring   |-> [i \in 1 .. RingBlocks |-> d.cache[d.tracked[feed.req].blocks[i]]]]}]

-----------------------------------------------------------------------------
(* The target's side of a step. *)

Init ==
    /\ config \in Configurations
    /\ seq = [r \in Requests |-> <<>>]
    /\ gen = [r \in Requests |-> 0]
    /\ pending = [r \in Requests |-> 0]
    /\ drafter = NewDrafter
    /\ failures = 0 /\ injected = 0 /\ disabled = FALSE

(* Prefix caching is off for DSpark and for a cache that mirrors the target. *)
PrefixCaching == Windowed /\ ~Dspark

(* Prefixes a new request may adopt: one some request committed, with the    *)
(* drafter's checkpoint or without it.                                       *)
PrefixHits ==
    {[prefix |-> <<>>, hit |-> {}]} \cup
    (IF ~PrefixCaching THEN {}
     ELSE {[prefix |-> SubSeq(seq[q], 1, n), hit |-> {}] :
             <<q, n>> \in {<<q, n>> \in Requests \X (1 .. MaxLen - 1) :
                             n <= Len(seq[q]) /\ n % PagedBlock = 0}}
          \cup {[prefix |-> c.prefix, hit |-> {c}] : c \in drafter.saved})

Matches(r) ==
    IF seq[r] = <<>> THEN PrefixHits ELSE {[prefix |-> seq[r], hit |-> {}]}

(* Rows of a step that survive: a chunk of the prompt, or the sampled token  *)
(* and the drafts the target accepted.                                       *)
ValidRows(r) == IF pending[r] > 0 THEN 1 .. pending[r] + 1 ELSE RowCounts

DraftWidth(end) ==
    IF MaxLen - end - 2 <= 0 THEN 0 ELSE Min({NumDrafts, MaxLen - end - 2})

PrepareFeed(r, match, rows, policy) ==
    LET first == Len(match.prefix)
    IN  [req |-> r, base |-> match.prefix, hit |-> match.hit,
         first |-> first, rows |-> rows,
         eligible |-> policy # "sampled",
         wants    |-> policy = "draft" /\ DraftWidth(first + rows) > 0,
         capture  |-> policy = "capture", restore |-> "ok"]

(* A capture needs a prompt chunk that ends at a sealed block boundary.      *)
Feeds(r) ==
    {f \in {PrepareFeed(r, match, rows, policy) :
              match \in Matches(r), rows \in ValidRows(r),
              policy \in Policies} :
       /\ EndOf(f) <= MaxLen
       /\ f.capture => /\ PrefixCaching /\ pending[r] = 0
                        /\ EndOf(f) % PagedBlock = 0}

(* Batches of one or two requests, in any order. *)
Batches ==
    UNION {{<<f>> : f \in Feeds(r)} : r \in Requests}
    \cup (IF MaxRequests = 1 THEN {}
          ELSE UNION {{<<f, g>> : f \in Feeds(p), g \in Feeds(q)} :
                        <<p, q>> \in {<<p, q>> \in Requests \X Requests : p # q}})

Committed(feeds) ==
    [r \in Requests |->
        IF \E f \in Range(feeds) : f.req = r
        THEN LET f == CHOOSE f \in Range(feeds) : f.req = r
             IN  f.base \o [i \in 1 .. f.rows |-> <<r, gen[r], f.first + i - 1>>]
        ELSE seq[r]]

(* Requests share the blocks of an adopted prefix. *)
TargetBlocksOf(committed) ==
    {committed[at[1]][at[2] * PagedBlock + 1] :
        at \in {<<r, j>> \in Requests \X (0 .. MaxLen - 1) :
                  j * PagedBlock < Len(committed[r])}}

TargetFits(committed) == Cardinality(TargetBlocksOf(committed)) <= TargetBlocks

-----------------------------------------------------------------------------
(* Steps. *)

InBatch(feeds, r) == \E f \in Range(feeds) : f.req = r

RecordFailure(d, contract) ==
    /\ drafter' = ReleaseAll(d)
    /\ failures' = failures + 1
    /\ disabled' = (contract \/ failures + 1 >= FailureThreshold)

(* The drafts of a batch are consumed by the step that carries them. *)
DropDrafts(feeds) ==
    pending' = [r \in Requests |-> IF InBatch(feeds, r) THEN 0 ELSE pending[r]]

PublishDrafts(d, feeds) ==
    LET drafting == Drafting(d, Served(d, feeds))
    IN  pending' = [r \in Requests |->
            IF ~InBatch(feeds, r) THEN pending[r]
            ELSE LET mine == {f \in drafting : f.req = r}
                 IN  IF mine = {} THEN 0
                     ELSE DraftWidth(EndOf(CHOOSE f \in mine : TRUE))]

TargetCommits(committed) ==
    /\ TargetFits(committed)
    /\ seq' = committed
    /\ UNCHANGED gen

(* The drafter is told of every committed step while it is enabled. *)
Observe(feeds, committed, proposed) ==
    IF proposed.error # drafter.error
    THEN /\ RecordFailure(proposed, proposed.error = "contract")
         /\ DropDrafts(feeds)
    ELSE /\ drafter' = FoldLeft(LAMBDA d, f : CapturePrefix(d, f, committed),
                                proposed, feeds)
         /\ failures' = 0
         /\ PublishDrafts(proposed, feeds)
         /\ UNCHANGED disabled

StepOf(feeds, committed) ==
    /\ ~disabled
    /\ TargetCommits(committed)
    /\ Observe(feeds, committed, Propose(drafter, feeds, committed))

Step(feeds) == StepOf(feeds, Committed(feeds)) /\ UNCHANGED injected

(* A checkpoint cannot be read back: the disk fails, or memory runs out.  It *)
(* is no failure of the drafter.                                             *)
StepWithFailedRestore(feeds, cause) ==
    /\ injected < MaxFailures
    /\ \E f \in Range(feeds) : f.hit # {}
    /\ StepOf([i \in DOMAIN feeds |-> [feeds[i] EXCEPT !.restore = cause]],
              Committed(feeds))
    /\ injected' = injected + 1

(* The feeds cannot be built, the session fails, or publishing fails after   *)
(* the session has written its rows; the target's step is committed anyway.  *)
LeftBehind(cause, proposed) ==
    CASE cause = "prepare" -> drafter
      [] cause = "run" -> [proposed EXCEPT !.cache = drafter.cache]
      [] cause = "publish" -> proposed

StepWithFailure(feeds, cause) ==
    /\ injected < MaxFailures
    /\ ~disabled
    /\ TargetCommits(Committed(feeds))
    /\ RecordFailure(
          LeftBehind(cause, Propose(drafter, feeds, Committed(feeds))), FALSE)
    /\ DropDrafts(feeds)
    /\ injected' = injected + 1

StepWithoutDrafter(feeds) ==
    /\ disabled
    /\ TargetCommits(Committed(feeds))
    /\ DropDrafts(feeds)
    /\ UNCHANGED <<drafter, failures, injected, disabled>>

(* Close, fail and rewind all release the drafter's context; a rewound       *)
(* request replays its sequence with other tokens.                           *)
ReleaseRequest(r) ==
    /\ seq[r] # <<>> /\ SumFunction(gen) < MaxReleases
    /\ seq' = [seq EXCEPT ![r] = <<>>]
    /\ gen' = [gen EXCEPT ![r] = @ + 1]
    /\ pending' = [pending EXCEPT ![r] = 0]
    /\ drafter' = Release(drafter, r)
    /\ UNCHANGED <<failures, injected, disabled>>

(* The snapshot store gives a checkpoint's memory to another one. *)
EvictCheckpoint(c) ==
    /\ drafter' = [drafter EXCEPT !.saved = @ \ {c}]
    /\ UNCHANGED <<seq, gen, pending, failures, injected, disabled>>

Steps ==
    \/ \E feeds \in Batches : Step(feeds)
    \/ \E feeds \in Batches, cause \in {"system_error", "bad_alloc"} :
          StepWithFailedRestore(feeds, cause)
    \/ \E feeds \in Batches, cause \in {"prepare", "run", "publish"} :
          StepWithFailure(feeds, cause)
    \/ \E feeds \in Batches : StepWithoutDrafter(feeds)
    \/ \E r \in Requests : ReleaseRequest(r)
    \/ \E c \in drafter.saved : EvictCheckpoint(c)

Next == Steps /\ UNCHANGED config

Spec == Init /\ [][Next]_vars

-----------------------------------------------------------------------------
(* Properties. *)

(* Every variable has the shape the code gives it. *)
TypeOK ==
    /\ \A r \in Requests : seq[r] \in Seq(Rows) /\ Len(seq[r]) <= MaxLen
    /\ gen \in [Requests -> 0 .. MaxReleases]
    /\ pending \in [Requests -> 0 .. NumDrafts]
    /\ DOMAIN drafter.tracked \subseteq Requests
    /\ \A r \in DOMAIN drafter.tracked :
          /\ Range(drafter.tracked[r].blocks) \subseteq Blocks
          /\ drafter.tracked[r].cached \in 0 .. MaxLen
          /\ drafter.tracked[r].start \in 0 .. MaxLen
    /\ Range(drafter.free) \subseteq Blocks
    /\ \A b \in Blocks, o \in 0 .. PagedBlock - 1 : drafter.cache[b][o] \in Rows
    /\ drafter.error \in {"none", "contract", "exhausted"}
    /\ failures \in Nat /\ injected \in 0 .. MaxFailures /\ disabled \in BOOLEAN

(* Whatever the target did in between (accepted or rejected drafts, a        *)
(* sampled turn, a rewind, a step the drafter failed in), the positions the  *)
(* next query block attends to hold that request's own committed rows: no    *)
(* ring column still live is overwritten, no scratch row of an earlier query *)
(* block survives, no restored or recycled block shows another context.      *)
WindowHoldsCommittedRows ==
    \A r \in DOMAIN drafter.tracked :
        LET state == drafter.tracked[r]
            low   == IF Windowed /\ state.cached > SlidingWindow
                     THEN state.cached - SlidingWindow ELSE 0
        IN  HasContext(state, state.cached) =>
                \A p \in low .. state.cached - 1 :
                    RowAt(drafter, state.blocks, p) = seq[r][p + 1]

(* A request the drafter follows is followed to the target's last committed  *)
(* row, so the contiguity check of a proposal never fires.                   *)
ContextFollowsTarget ==
    \A r \in DOMAIN drafter.tracked : drafter.tracked[r].cached = Len(seq[r])

(* The drafter never brings itself down: with the pool sized from the        *)
(* target's blocks and the batch, no proposal runs out of blocks or breaks   *)
(* its own contract.                                                         *)
NeverFailsByItself == drafter.error = "none"

(* No block is leaked or owned twice, and while fewer requests are followed  *)
(* than the pool was sized for, one more still fits.                         *)
PoolServesItsBatch ==
    /\ LET held == FoldLeft(LAMBDA s, r : s \o drafter.tracked[r].blocks, drafter.free,
                            SetToSortSeq(DOMAIN drafter.tracked, <))
       IN  IsInjective(held) /\ Len(held) = PoolBlocks
    /\ Cardinality(DOMAIN drafter.tracked) < MaxRequests =>
          Len(drafter.free) >= IF Windowed THEN RingBlocks ELSE QuerySpillBlocks

(* A checkpoint that can be restored holds the window of the prefix it is    *)
(* attached to, even after its donor moved on or was rewound.                *)
CheckpointsHoldTheirPrefix ==
    \A c \in drafter.saved :
        LET n == Len(c.prefix)
        IN  \A p \in (IF n > SlidingWindow THEN n - SlidingWindow ELSE 0) .. n - 1 :
                c.ring[((p \div PagedBlock) % RingBlocks) + 1][p % PagedBlock]
                    = c.prefix[p + 1]
=============================================================================
