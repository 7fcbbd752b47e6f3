# TLA+ models of onnxruntime-genai

This directory specifies the parts of onnxruntime-genai in which several pieces of
state have to move together: the continuous-batching Engine (`src/src/engine/`),
the drafters and generators that speculate ahead of a model (`src/src/decoding/`,
`src/src/generator/`, `src/src/dflash2_drafter.cpp`), and the threads that run
beside them (`src/src/models/threadpool.cpp`, `src/src/worker_thread.h`). The modules
are checked with TLC on small instances. The paged cache with its scheduler, the ownership of
blocks, the reporting of turns, the step of a hybrid model and the thread pool are also proved
with TLAPS, for instances of any size.

Paths below are relative to `src/src/engine/` unless they say otherwise.

## 1. Inventory

### Components, their state and their operations

| Component | State | Operations |
|---|---|---|
| Block pool (`block.cpp`) | block slots, reference count, committed slots and identity per block | allocate the lowest free blocks, add reference, release, validate ownership |
| Prefix index (`prefix_cache.cpp`) | hash buckets of entries, a recency list, a reclaimable list, a "promote on release" flag per entry | Match, Register, RecordAdoption, Reclaim, Evict, callbacks on reference transitions |
| Reservation (`paged_cache_reservation.cpp`) | one delta per request: adopted blocks, new blocks, source and target boundary | construct (validate, adopt, reclaim, reserve), CommitPrefix, validate, commit, release |
| Paged cache (`paged_key_value_cache.cpp`, `cache_manager.cpp`) | block table per resident request, sealed prefix of each table, admission order | plan resources, reserve, commit, seal, remove |
| Scheduler (`scheduler.cpp`, `decode_first_scheduler_policy.cpp`) | pool of requests in arrival order | add, remove, PlanStep |
| Request (`request.cpp`) | status, finish reason, tokens, processed boundary, turn starts, drafts | begin turn, cancel, fail, rewind, close, stage and roll back an adoption, stage and commit a step |
| Engine (`engine.cpp`) | tracked requests, pending events, health, fatal error and fatal events, abandonment marker | CreateRequest, BeginTurn, Run, HasPendingRequests, CancelRequest, RewindRequestToStartOfTurn, CloseRequest |
| External handles (`../smartptrs.h`) | external reference count, pointer to the marker | final ExternalRelease raises the marker |
| Fixed-state pool (`fixed_state_pool.cpp`) | slots with two banks of recurrent state, ownership index, deferred replays, checkpoint rows | reserve, prepare, publish, commit, replay, capture, release |
| Snapshot cache (`prefix_snapshot_cache.cpp`) | snapshots in three tiers, bytes used per tier, leases | allocate, capture, touch, demote, restore, discard, evict |
| Block drafter (`../dflash2_drafter.cpp`) | a pool of blocks, a ring or table per request, checkpoints | Admit, Propose, CapturePrefix, RestorePrefix, Release |
| Speculative strategies (`../decoding/`) | target and draft caches, a round of buffered tokens, a grammar, an n-gram history | GenerateNextToken, AppendTokens, RewindToLength, GetLogits, SetLogits |
| MTP generator (`../generator/mtp_generator.cpp`) | main model with attention and recurrent state, a head with its own cache, pending tokens | prefill, single, multi and sampled rounds, rewind |
| Thread pool, worker thread (`../models/threadpool.cpp`, `../worker_thread.h`) | a job with chunks, a queue of tasks | Compute, worker loop, destructor; Enqueue, worker loop, join |
| Pipelined decoder (`../models/decoder_only_pipeline.cpp`, `../models/io/windowed_kv_cache.cpp`) | stages, a windowed cache per layer, outstanding updates | Run, partial update, transition, slide |
| Search, stop strings, guidance (`../search.cpp`, `../stop_string_matcher.cpp`, `../constrained_logits_processor.cpp`) | sequences, beams, matcher positions | select, append, match |
| Everything else (models, execution providers, configuration, telemetry, bindings) | - | binding of tensors, parsing, output |

`PROJECT.json` lists all of them with the files and what is, or is not, modelled.

### How they interact

The owner thread makes every Engine call; nothing runs concurrently with a call
except the release of a last Request handle. `Engine::Run` asks the scheduler
for a plan. The scheduler collects candidates (residents in admission order,
then queued requests in arrival order, each of those with a prefix match), asks the
cache which of them it can serve together, shares out the token budget and
gives up drafts until the cache accepts the whole plan. The plan is *not*
a reservation: reclaimable index blocks are counted as available, and only the
reservation evicts them. A reservation takes references on adopted blocks first
and then reserves blocks for writing. The model executes and writes keys and
values into device memory at once; whether those slots count is decided by
commit, which advances the boundary of each table, refreshes the recency of adopted
chains and indexes blocks that have become full. Any failure before commit rolls the
step back through the reservation and the requests.

Calls that create, begin, rewind or run start by looking at the abandonment
marker and closing the requests whose last handle is gone. Events that do not
fit the buffer of `Run` stay pending in the Engine and come out first in
the next call. A failure that leaves state unknown marks the Engine unhealthy for good; the
turns it ends are still reported. So is every other turn that has ended, but for those that the
failing step itself had just completed (section 6).

A model with recurrent layers adds a second store to each step. The composite
reservation prepares the fixed-state rows, publishes paged tables and banks one after
the other, and both have to end at the same token. A prefix of such a model is
usable only where a checkpoint of its fixed state exists, so blocks and
checkpoints are matched, leased and evicted together. The block drafter is fed after
each commit and keeps its own cache; its checkpoints live in the snapshot cache.

A generator outside the Engine holds a single sequence. A speculative strategy computes
several tokens at once and hands them out one call at a time, so between
two calls its caches are ahead of what its caller sees.

### What is hard

- A step can fail between any two of its phases after having changed reference counts,
  the reclaim order, requests and device memory.
- Three parties (tables, an open step, the index) refer to the same blocks,
  and the pool knows only a count.
- A plan relies on blocks that are still indexed and may be adopted by the same plan.
- Verified drafts write slots that are not committed.
- Cancellation, failure, completion and rewind race with events that have been
  produced but not delivered.
- The last handle of a request can be released while the Engine scans for
  abandoned requests, and the scan itself can fail half way.
- After a fatal failure nothing may be allocated, yet everything must be reported.
- A step can also fail after it has been committed: requests and caches have moved on, turns have
  ended, and the events that would say so are not staged yet.
- Accepted prefixes of fixed state are replayed one step late, and the replay can fail.
- Rings and windowed caches reuse positions; whether a row is the right one
  depends on how many tokens were rejected, skipped or restored before.
- The caller may append, rewind or read logits while buffered tokens are not yet
  public, and three kinds of state (rows, convolution, recurrence) go back by different means.
- Jobs and updates are handed over with condition variables and flags.

`hazards` in `PROJECT.json` places each of these at its line and names the
properties that would catch it.

### What makes each component correct

- *Pool, reservation, index*: counts are exact, the reclaimable list is exact,
  eviction takes nothing that is in use, a block that is written to has one
  user, and a step that is rolled back leaves no reference behind.
- *Paged cache*: each slot a request attends to holds the key and value of that
  request's own token in the context of that request's own prefix.
- *Scheduler*: the budget is respected and used up, decodes come first, a
  plan the cache accepted can always be reserved, resident turns finish.
- *Request*: the token boundary and the cache boundary agree whenever no step is
  open.
- *Engine*: each turn is reported exactly once and last of all, nothing stale is
  reported, no release of a handle is lost, reporting a failure needs no memory.
- *Fixed-state pool*: what a reader sees of a request is the state after exactly
  its committed tokens, and only a commit moves it.
- *Prefixes of hybrid models*: a match pairs blocks and state of one boundary, an
  endpoint in the index can be matched, what is leased stays.
- *Drafter*: the window a query block attends to holds the request's own rows.
- *Generators*: each token was selected from logits over exactly the tokens before it,
  and to its caller a speculative generator is a plain one.
- *Threads*: each index once, no call after its loop returned, everything ends.

## 2. Modules

    DecodeFirstPolicy --+
    PrefixCache --------+--> PagedCache ---> MCPagedCache        (paged progress tail)
         |                   |  +--> PagedCacheLemmas --> PagedCacheProofs (TLAPS)
         |                   | implements
         |                   BlockLedger --> MCBlockLedger       (ledger), BlockLedgerProofs (TLAPS)
         +--> CheckpointIndex --> HybridPrefix ----+
    FixedStatePool -------------> HybridStep ------+-> MCHybrid  (hybrid)
                                     +--> HybridStepProofs (TLAPS)
    EngineTurns ---------------------> MCEngineTurns             (turns delivery reported)
         +--> EngineTurnsProofs (TLAPS)
    PrefixSnapshotCache, BlockDrafter -> MCDrafter               (drafter)
    ThreadPool, PipelineCache -------> MCThreads                 (threads)
         +--> ThreadPoolProofs (TLAPS)
    SpeculativeRounds, MtpRounds ----> MCGenerators              (generators interrupt)
         | both implement
    PlainGenerator

The proofs share `SequenceLemmas` and `FoldLemmas`, which have their own.

Two idioms recur. A module that is checked in several settings has a constant
`Configurations`, a set of records, and a variable `config` that is one of them and never
changes; its parameters are definitions such as `MaxDrafts == config.maxDrafts`. One
run then explores all settings. An MC module for two unrelated
components has a variable `which` that says which of them a behaviour is about;
the other one stays in an initial state.

**BlockLedger** is the abstract specification: a reference count per block and
the three parties that rely on it. `Reserve`, `Abort`, `Commit` and `Release`
say only which references move where.

**PrefixCache** has the pool and the index as pure operations on one record:
`AddRef`, `ReleaseRef`, `ReserveBlocks`, `Match`, `Register`, `Reclaim`,
`Evict`, `RecordAdoption`, the two callbacks, and both orders they
maintain. The content of a slot is modelled by the token prefix its key and
value were computed from, which is what decides whether attending to it is right.
Identities are numbers because the code compares them by address; `CollectIdentities`
stands for `std::shared_ptr` dropping those nobody refers to.

**DecodeFirstPolicy** has the candidate order, the provisional limit and the
token budget as operators.

**PagedCache** is the step transaction. Its variables are the cache record, the
tables, `cache_allocated_requests_`, the scheduler's pool, the requests, the plan
and the reservation. Its actions are

| Action | Code |
|---|---|
| `PlanStep` | `DynamicBatchScheduler::PlanStep` and `StagePrefixAdoption` |
| `ReserveStep` | the constructor of `PagedCacheReservation` |
| `Execute` | writing the keys and values of all fed tokens, drafts included |
| `AbortStep` | any rolled back failure of `Engine::RunDynamic`: `Release` and `RollbackPrefixAdoption` |
| `CommitStep` | `StageGeneration`, `CommitPrefix`, validation, commit, adoption, sealing, `Request::CommitStep` |
| `FailUnserviceableRequest` | the request that no pool of this size could serve |
| `BeginTurn`, `CancelRequest`, `CloseRequest`, `SetDraftTokens`, `RewindRequestToStartOfTurn` | the Engine calls between steps |

The consistency checks the code makes while planning, reserving and committing
(`logic_error` paths) are kept as guards; where one fails, the phase becomes
`unhealthy`, and `NeverUnhealthy` says that none does. Which tokens
are sampled, how many drafts are accepted and when a turn ends are
nondeterministic.

**EngineTurns** is the Engine as its owner sees it. What a step computes is
abstracted to its outcome. Calls that begin with the scan for abandoned
requests are split into steps (`Enter`, `ScanPass`, `ScanClose`,
`ScanOutOfMemory`, `ScanFatal`, `ScanDone`, then the body), because
`ExternalRelease` may run on another thread between any two of them; the
other calls are single actions. A call of `Run` ends in one of

| Action | Code |
|---|---|
| `RunWithoutStep` | nothing to execute, or the Engine is already unhealthy |
| `StepCommitted` | the step goes through and its events are staged |
| `StepUnserviceable` | the request that no pool of this size could serve fails alone |
| `StepWithoutEffect`, `StepThrows` | nothing fits now, or the step was undone; planning ran out of memory |
| `StepFatal` | a failure up to the commit boundary that cannot be undone: every running turn ends with its failure event (`MarkUnhealthyAndThrow`) |
| `StepCommitFails` | a failure behind the boundary: `CommitStep` has completed any of the batch's turns, sealing or publishing drafts then throws, and `MarkUnhealthyAndThrow` reports only the turns that still run (`engine.cpp:2752-2802`, `2992-3032`) |

`told` and `unreported` are history variables: how often the owner has been handed a
terminal event of each turn, and which turns completed in a step whose commit failed.

**FixedStatePool** has slots, banks and checkpoint rows as operations on one record:
`Reserve` (with `GatheredInput` and `Normalize`), `Execute`, `CommitPrefix`, `PrepareCommit`,
`PublishCommit`, `Discard`, `FlushDeferredReplay`, `CapturePrefixCheckpoint` and
`ReleaseValidated`. A bank holds the token sequence it was computed over, so a stale or
half-written bank is told from the right one. **HybridStep** is the composite transaction over it and
the paged boundaries (`cache_manager.cpp`, `Engine::RunDynamic`):

| Actions | Code |
|---|---|
| `PlanStep`, `ReserveStep` | the plan with its leases, and both reservations behind the flush of the last step's replays |
| `Decode`, `PostProcess` | the run, and narrowing both sides to the accepted drafts |
| `PrepareStep`, `CommitPaged`, `CommitFixed`, `CommitRequests` | the composite commit in its order |
| `SealRow`, `PassRow`, `EndStep` | a checkpoint at a block boundary, or none; the end of the reservation |
| `AddRequest`, `Deallocate`, `ReleaseForRewind`, `EvictEndpoint` | the calls between steps, and eviction while a step makes room |
| `FlushFault`, `GatherFault`, `ExecutionFault`, `PostProcessFault`, `PrepareFault`, `CommitFault`, `CaptureFault` | the failures, with their rollback or fatal end |

**CheckpointIndex** adds checkpoints, leases and their reclaim to `PrefixCache`;
**HybridPrefix** composes it with the tables, a plan and the drafter's leases: `AddRequest`,
`BeginStep` (match, lease, plan, reserve), `AbortStep`, `CommitStep` (commit, adopt, seal),
`PublishDrafts`, `Release` and `RemoveQueued`.

**PrefixSnapshotCache** is the tiered store: three tiers with budgets, demotion that
cascades and take-over of the oldest snapshot's storage. Its actions are `Capture` with
`Write` or `WriteFails`, `Lease`, `Unlease`, `DropFromIndex` and `Restore`, and a disk tier may fail in any
of them. **BlockDrafter** is the DFlash 2 drafter with the part of the
Engine that feeds it. A cached row is named by the request, incarnation and position it
was computed for. A step carries any batch of one or two requests; what the target
accepted is open.

**ThreadPool** has one action per critical section or atomic operation of a caller and a worker,
with waits that can be woken spuriously. **PipelineCache** is a run of the
pipelined decoder with the worker that updates its windowed cache; rows are
the positions they were computed for, and masks and position inputs are modelled by the rows they
describe.

**PlainGenerator** says what a generator promises its caller: `AppendTokens`, one token per
`GenerateNextToken`, `RewindToLength`. **SpeculativeRounds** is the speculative strategy
with a draft model, an n-gram lookup or a pruned target: rounds, draining of buffered
tokens, folds, cooldown, adaptive width, the RoPE switch, guided rounds with forced tokens, and
each call between two tokens. **MtpRounds** is the MTP generator in its single, multi and
sampled modes, with three ways to take recurrent state back (snapshot, compact
replay, window). In both, a cache row is the token it was computed from and logits are
the prefix they were computed over, and `emission` or `emitted` record the
prefix behind each token handed out.

The definitions and the lines they stand for are in `map` of `PROJECT.json`.
Definitions that precede an operator and differ from it in one respect
are altered variants, used as `mutants`: replacing the operator by the
variant must violate a property. `TypeOK` of a module documents the shape of its state and
is not listed in the runs. Those of the ledger and of PagedCache are proved; the other proofs have a typing of their own, `Types`,
in the invariant.

## 3. Runs

| Run | Instances | States | Question |
|---|---|---|---|
| `ledger` | 3 blocks, 3 requests | 1 448 (symmetry) | do reserving, rolling back, committing, releasing and evicting in any order keep counts exact and evictions harmless? |
| `paged` | shared prompts; a session with turns, rewinds and drafts; two drafting requests; chains with one hash | 106 814 | does every slot hold its owner's token, do all accounts agree, can what was planned be reserved, is the budget shared out? `ImplementsLedger` is checked here |
| `progress` | 2 requests, 1 token a step, 3 blocks for a wish of 4 | 7 197, with fairness | does a resident turn finish, or capacity get reported? |
| `tail` | a chain of two blocks and an unrelated one | stops at the violation | are chains evicted from their tail? (No; section 6.) |
| `turns` | 2 requests with 2 turns and buffers of 1 and 3; 3 requests in a batch of 1 | 3 111 508 | is each turn reported at most once and last, exactly once unless the commit of its last step failed, is nothing stale pending, is no release lost, do fatal events fit? |
| `delivery` | 2 requests, buffer of 1 | 57 659, with fairness | are ended turns reported and abandoned requests closed? |
| `reported` | 2 requests with one turn | stops at the violation | is every turn that ended reported? (No; section 6.) |
| `hybrid` | steps: every failure; two drafts a step; 3 requests on 2 slots. Index: parting prompts with a drafter; replays of a prompt; colliding hashes with one checkpoint | 2 098 963 | do paged and fixed state cross the same token, is what is visible what was committed, do slots and rows keep their owners? Do matches pair blocks and state of one boundary, is every endpoint reachable, do plans fit, are rows spent well? |
| `drafter` | a ring gone round; restores; full attention with 3 requests; failures; a store of 3 entries in three tiers or on the device | 222 807 | does the window hold the request's rows, does a restored or demoted snapshot hold its own, are blocks and bytes accounted for? |
| `threads` | 2 workers, 1 caller; 1 worker, 2 callers; common and split stages over 2 and 3 layers | 67 951, with fairness | each index once, no late call, no update beside a stage, and does everything end? |
| `generators` | draft model with cooldown and moving width, over dynamic and over shared caches; chained n-grams; pruned target; RoPE switch; grammar; each with a rewind at any point; MTP in four modes | 244 360 | does each token come from its own prefix, do all caches follow the sequence, does the grammar follow the output, and are both plain generators? |
| `interrupt` | the grammar instance with a second append | stops at the violation | does the grammar stay with the output when a guided round is interrupted? (No; section 6.) |

Deadlock is checked in all runs but `hybrid`, `drafter`, `generators` and `interrupt`, whose
behaviours end: requests reach their length, or a bound on appends, clock ticks, failures or
slot generations is used up. (`threads` ends in a state that its specification repeats.)

### Bounds, and why they suffice

- `NumBlocks`, `BlockSize`: three blocks for two requests are the least with
  which a request can hold one shared block and one of its own while another
  waits; two slots a block give full, partly filled and empty blocks.
- `maxIndexed` is 2 of 3 blocks when prefixes are shared, 1 in the session, so that
  registration is refused while the entry is in use, and 0 where prefix caching is
  off. The code's own limit is the number of blocks.
- `MaxIdentities` bounds the identity objects alive at a time, never the number
  ever made. It is larger than blocks plus tables can refer to.
- `maxSession` is the real limit `max_session_tokens`, set so that at least one
  decode crosses a block boundary. `maxTurns` bounds the turns of one
  session. Closed requests of PagedCache can be created again, so its
  sequences of operations have no bound.
- `maxVisible` is `kMaxGeneratedTokensPerStep`; `bufferSizes` holds one size
  below and one above it so that events are split over calls. The crowd of `turns` has more
  requests than a batch, since that is where reserving for a step alone is too little.
- `hybrid`, steps: two slots and one checkpoint row, so that three requests reuse a
  slot (`maxGeneration` 2) and endpoints compete for the row; six tokens, so that drafts are
  accepted and rejected on both sides of a block boundary.
- `hybrid`, index: blocks of one token, so that a path is as long as its tokens; four blocks
  for two or three prompts, so that sealing has to reclaim; one or two checkpoints (the code's
  limit is `max_batch_size`).
- `drafter`: a request passes its ring once (`maxLen` 9 with a ring of 8 positions);
  chunks of 1 and 5 rows are below and above the window. Batches hold at most two requests.
  `failureThreshold` is 2 where failures are injected, 3 (the code's value) elsewhere. The store has
  four snapshots over three entries, tiers of one unit and payloads of one or two, so that
  a capture moves one snapshot from each tier to the next, and a payload skips the small tiers.
- `threads`: `ChunksPerThread` is 1 (4 in the code), with 1 to 4 indices. The windows of 2 and 3
  positions meet prompts shorter than, equal to and longer than one and two windows.
- `generators`: up to 7 tokens with rounds of at most 3 drafts, so that a round meets
  `max_length`, the RoPE threshold and each append or rewind point at every offset. Zero-accept
  rounds before a cooldown are 2 (3 in the code). Two tokens and an end token suffice, as
  what matters is whether a draft and a selection agree.

Requests of the first modules and snapshots are interchangeable, so their safety runs use symmetry;
the runs with liveness do not.

### Fairness

`PagedCache!FairSpec`: the owner keeps calling `Run` (a plan is made if one is
possible again and again), a planned step is reserved, and steps that fail
retryably do not fail for ever, so a step is executed and committed if tried
infinitely often. A request that can never be served is failed. No fairness is
assumed of hosts that begin, cancel or close. The conjuncts are written as
temporal formulas on phases instead of `WF` and `SF` since the enabling
condition of a step is as expensive to evaluate as the step itself.

`ThreadPool!Fairness` and `PipelineCache!Fairness`: every thread that can run
does (weak fairness of each step), and a caller that keeps finding the submission
lock free gets it (strong fairness of `LockSubmission`), which is what an
operating system's scheduler and mutex give. Spurious wake-ups and exceptions have
none. Neither do the calls of a client.

`EngineTurns!FairSpec`: a call that was entered returns (weak fairness of its
steps), the owner keeps calling `Run` between other calls (strong fairness,
since other calls come in between), and closing an abandoned request
is not out of memory every time (strong fairness of `ScanClose`). `Run` returning is
what the code guarantees: it has no loop without a bound. That the owner
calls it again is what its API asks of the host (`HasPendingRequests` then
`Run`). Failures have no fairness.

## 4. What the checks show

Paged cache, scheduler and step transaction (`paged`, `progress`, `ledger`):

- The keys and values a request attends to are those of its own tokens, also
  when blocks are adopted, evicted, taken again, partly filled with rejected
  drafts, or when all hashes collide (`CommittedSlotsHoldOwnTokens`).
- References and the reclaimable list are exact in every reachable state,
  those inside an open step included (`BookkeepingIsExact`), and the transaction
  implements `BlockLedger` (`ImplementsLedger`).
- A step writes only into blocks no one else can see (`StepWritesAreExclusive`).
- None of the `logic_error` checks of planning, reservation and commit can fire
  (`NeverUnhealthy`): planning charges exactly what the reservation needs.
- Outside a step, a request has processed what its table has committed, and a chunked
  prefill that has started owns the blocks of its whole prompt, so it cannot
  stall for them (`TablesMatchRequests`). A resident turn finishes unless the
  Engine reports that capacity defers it (`ResidentTurnsFinish`).
- The token budget is neither exceeded nor wasted, and drafts are given up only when the cache
  would have refused the whole of them (`BudgetIsSharedOut`).

Engine (`turns`, `delivery`):

- Each turn that ends has exactly one terminal event, after all its tokens
  (`OneTerminalPerTurn`, `NothingAfterTerminal`), delivered through a
  buffer of any size, even after a fatal failure (`TerminalsAreDelivered`), and no event
  of an earlier turn or a closed request comes out (`PendingEventsAreCurrent`). The exception is
  exact: a turn completed by a step whose commit then fails (`unreported`) has no terminal event, ever
  (section 6).
- No release of a last handle is lost while the Engine is healthy, in any
  interleaving with the scan and when memory runs out during it
  (`NoLostRelease`, `AbandonedAreClosed`).
- The storage reserved at `CreateRequest` suffices for the events of a fatal
  failure at any time (`FatalEventsFit`).

Hybrid models (`hybrid`):

- A reader of a request's fixed state sees the state after exactly its committed tokens,
  over ping-pong banks, direct bindings, normalisation, deferred replays,
  rejected drafts and rolled back steps; only a replay that cannot be launched
  loses it, and that stops the Engine (`VisibleStateIsCommitted`). Only a commit of
  the request's own step moves it (`CommittedOnlyAtCommit`).
- Paged tables and fixed state are at the same token outside the one publish
  window (`BoundariesAgree`), and no slot or checkpoint row leaks or has two owners
  (`PoolIsSound`).
- A checkpoint that is offered holds the state of its own tokens (`CheckpointsAreExact`),
  a match pairs blocks and state of one boundary (`HitsAreExact`), what the index
  holds can be matched and what is leased stays (`IndexIsSound`), an admitted
  plan can be reserved (`PlansAlwaysFit`), and no checkpoint row is spent on a boundary
  that no prompt can use (`RowsGoToUsableEndpoints`).

Drafter and snapshots (`drafter`):

- The window a query block attends to holds the request's own committed rows in order,
  over rejections, rewinds, skipped steps, failures and restores
  (`WindowHoldsCommittedRows`); the pool always serves the batch it was sized for
  (`PoolServesItsBatch`).
- A snapshot holds the prefix it is filed under in whichever tier it is, and in the
  drafter after a restore (`SnapshotsHoldTheirPrefix`). Bytes are accounted for in
  the tier they are in and budgets hold (`AccountsAreSound`). What a request leased
  is not taken away (`LeasedStay`).

Threads (`threads`):

- Each index of a loop is run once, an exception reaches its caller
  (`LoopsRunOnce`), and no worker calls a function whose `Compute` has returned
  (`FunctionOutlivesCalls`).
- A stage of the pipeline reads its own history, never beside an update of the same
  buffers (`StagesAndUpdatesAgree`), and everything that was started ends
  (`EverythingEnds`).

Generators (`generators`), with a rewind at every point:

- Every token was selected from logits over exactly the tokens before it and, where RoPE
  factors change, with the factors of its side (`EveryTokenComesFromItsPrefix`).
- Target, draft and head caches, recurrent state, the proposer's logits and the n-gram
  history are at the public sequence between rounds, and no run, rewind or crop the
  generators make for themselves is refused (`EveryCacheFollowsTheSequence`).
- Both hold without exception for MTP and, for the speculative strategy, after every rewind that goes
  back behind the round at hand. One that stops within it is *late*: it cuts caches by length, and they may
  already hold other rows there. `late` records that one happened, and only three claims
  are then given up, each where section 6 shows them to fail: a guided generator's rows
  (`RowsMayBeOthers`), the last row of a draft model over shared buffers
  (`DraftMayLackRow`), and success of the rewind itself over dynamic caches. Everything else is required
  of late rewinds too: the n-gram, pruned and RoPE configurations never take an exception but the last.
- The grammar follows the output (`GrammarFollowsOutput`), with the exception of section 6.
- Both implement `PlainGenerator` (`BothImplementPlain`): rounds never show.

Each property is paired with a change of the code it would notice (`mutants`).

## 5. What is proved

Theorems are in modules of their own, which extend the module they are about. They hold
for every value of the constants that satisfies its assumptions.

| Module | Theorem | Property of a run |
|---|---|---|
| `BlockLedgerProofs` | `LedgerInvariance`, `LedgerTypeCorrect` | |
| | `LedgerCounts` | `CountsAreExact` |
| | `LedgerSharing` | `SharedOnlyThroughIndex` |
| | `SafeEviction` | `EvictedBlocksAreUnused` |
| `PagedCacheProofs` | `EngineInvariance`, `EngineTypeCorrect` | |
| | `ExactBookkeeping` | `BookkeepingIsExact` |
| | `LedgerRefined` | `ImplementsLedger` |
| | `ExclusiveWrites` | `StepWritesAreExclusive` |
| | `TablesMatch` | `TablesMatchRequests` |
| | `BudgetSharing` | `BudgetIsSharedOut` |
| | `NeverFails` | `NeverUnhealthy` |
| `EngineTurnsProofs` | `TurnsInvariance` | |
| | `TerminalsAreExact` | `OneTerminalPerTurn` |
| | `TerminalsComeLast` | `NothingAfterTerminal` |
| | `EventsAreCurrent` | `PendingEventsAreCurrent` |
| | `ReleasesAreKept` | `NoLostRelease` |
| | `FatalReportsFit` | `FatalEventsFit` |
| `HybridStepProofs` | `HybridInvariance` | |
| | `VisibleStateTheorem` | `VisibleStateIsCommitted` |
| | `BoundariesTheorem` | `BoundariesAgree` |
| | `CheckpointsTheorem` | `CheckpointsAreExact` |
| | `PoolTheorem` | `PoolIsSound` |
| | `CommittedTheorem` | `CommittedOnlyAtCommit` |
| `ThreadPoolProofs` | `PoolInvariance` | |
| | `LoopsAreExact` | `LoopsRunOnce` |
| | `FunctionLifetime` | `FunctionOutlivesCalls` |

### The ledger

For every finite pool and every finite set of requests (`FiniteAssumption`;
cardinalities need it). The invariant `LedgerInv` is `TypeOK /\ CountsAreExact /\ SharedOnlyThroughIndex /\
ClaimsAreNew`. `CountsAreExact` alone is not inductive: `Commit` moves claims
into tables without touching the count, and the number of users adds up only if no request
claims a block it already holds (`ClaimsAreNew`).
`SharedOnlyThroughIndex` survives an eviction because the count of the evicted
block is exact, hence it has no user; it survives a reservation because a free
block has count zero and, again by exactness, no user. The lemmas `UsersAddUp`
and `UsersWithout` are the two cardinality facts, `ReclaimableUnused` and
`FreeUnused` turn a count into the absence of users, and there is one
lemma per action.

### The paged cache

For every finite set of requests, every pool, block size, hash and set of configurations: any vocabulary and
prompts, budget, batch, chunk, session and index size, number of drafts, turns and open requests
(`EngineAssumption`, and that of PrefixCache). The invariant `StepInv` is

- `PoolInv`: each of the two lists has its blocks once, the reclaimable list is the indexed blocks with one
  reference, and exactly the indexed blocks have an identity, which names them and is not its own parent;
- the ledger's invariant `LedgerInv`, under the refinement mapping;
- `RequestsOK`, `QueuesOK`, `TablesOK`, `PlanOK`, `RsvOK`: the two lists of requests, tables without
  repetition, plan entries that say of request and table what is so, and one delta per entry with what it asked for;
- `StagingOK`: a request has processed what its table has committed, or what the open step is about to
  adopt for it;
- `PhaseOK`, `SizesOK` and `StartedPrefillOwnsItsPrompt`: what is known in each phase, and how many slots
  each user of a block has committed in it.

`PagedCacheLemmas` says what each operation of pool and index does to counts, lists and identities,
and what the planner selects, shares out and fits; `PagedCacheProofs` takes the steps one at a time. Each
step is shown to be a step of the ledger (or none), so exactness of the counts comes from an instance of
`BlockLedgerProofs` and carries the rest: a block that eviction or reservation takes has no user *because* its count is exact.
The hard step is the reservation. It adopts for every entry before it makes room for any, so what it
evicts is not what the planner counted; `HeldCache` and `RoomCache` name the two intermediate caches, and the
blocks taken are shared out by counting (`SpanOf`).

`NeverFails` rests on a second invariant, `HealthInv`: the entries of a plan can be served together for as
long as the plan stands. Free and reclaimable blocks are counted together, adoption takes from the
reclaimable ones exactly what the plan charged for, and eviction turns one into the other (`RoomIsEnough`).
`BudgetSharing` rests on `BudgetInv`: decodes precede prefills in the plan, and it is what the budget's two passes grant.

### Turns and events

For every set of requests and any number of turns, batch size, buffer size and number of
events a step may produce (`TurnsAssumption`: the bounds are numbers, sizes are positive,
and the stand-in for "no request" is not one). The invariant `TurnsInv` is

- `Types`;
- `Tracking`: the open requests are those in `requests_`, each once;
- `Calling`: the request a call was made with is still open when the scan is over.
  The scan closes requests between `Enter` and the body, and only those without a
  handle, while the caller holds one;
- `Sound`: every pending event is of the current turn of an open request, that turn has
  handed out no terminal yet, and nothing of a request follows its terminal;
- `Reported`: past turns of a request that has an owner have handed out one terminal, the
  current one has if it has ended, its terminal is not pending and it is not in `unreported`, and later turns
  none;
- `NoLostRelease`, which is inductive given `Tracking`, with the scan position as the
  boundary between requests already looked at and those still to come.

`TurnsInvariance` adds `Unreported`: the turns that a step completed and never reported are current ones of
a failed Engine in which nothing runs any more, none of them has been told or has a terminal pending, and none ever will.
Without it the exception in `Reported` could excuse turns that end later. A failure behind
the commit boundary merges failure events for the turns that still run only (`Failing`, `FatalSound`), whatever
the step had completed before.

`OneTerminalPerTurn` counts what was handed out and what is pending, and is not inductive:
`DrainEvents` moves a terminal from one to the other, which keeps the sum only if
there was at most one, and `CloseRequest` takes events away, which is
harmless only for a request without an owner. `Sound` speaks of positions for
that reason. What `remove_if` and `std::partition` leave of a sequence is a numbering of the positions
kept (`KeptNumbers`), from which `KeptSound` follows once for all callers.

`FatalEventsFit` needs a second invariant, `RoomInv`: the storage reserved is at
least `MaxStepEvents + Len(tracked) + 1`, and the pending events that are not terminals are at
most `MaxStepEvents` while the Engine is healthy. Terminals are at most one per
tracked request (`Sound`), so the sum bounds what a failure has to keep,
at any point of a call; the turns the failing step had completed only make the bound looser.

### The hybrid step

For every set of requests, every number of slots and checkpoint rows, every block size, and every
configuration: streams of any length, any number of drafts, with or without faults,
direct bindings and caching (`PoolAssumption`, `StepAssumption`). The invariant `HybridInv` is

- `Types`, `Control` (health of the engine and state of the reservation in each phase) and `Progress`
  (a request is in its prompt, or exactly one of its tokens is not processed yet);
- `Boundaries`: tables and slots agree, and between the two publications the tables of
  the step are at their targets;
- `Slotting`: every slot has one owner, and is reserved only in an open step;
- `Planning` and `Reserving`: the plan has distinct requests, and every row of the reservation
  names the slot, target and kept tokens its entry asked for (`Narrowed`, `Holds`);
- `Contents`: what the inactive bank, the staging rows and the queued replays hold in each phase;
- `VisibleStateIsCommitted`;
- `Filing`: an endpoint or a lease refers to an occupied checkpoint row of the right tokens.

`VisibleStateIsCommitted` alone is not inductive. `PublishCommit` flips every bank of
the batch, so before it the bank that is not visible (`HiddenRow`) has to be the state of the
target boundary. That follows, backwards through the step, from what was staged, from how the row was narrowed
after the run, from what the run read, and from each row of the reservation having a slot that no
other row has. New rows take the free slots in order; that they are distinct is a fact about ranks
(`KthLowest`, `RankFacts`, `PlanRowsFacts`). A rollback keeps the invariant because the
active bank was not written: the run and `PrepareCommit` write the other one, a deferred replay writes what a
reader of the bank would be given anyway, and `Normalize` copies a bank before it makes the copy the active one. `CommittedOnlyAtCommit` follows from the
invariant on both sides of a step: the view of a request is its boundary and the prefix of
that length, so only a change of boundary can move it, and `StepEffects` lists the actions that change one.

The first half of `HybridStepProofs` describes each operation of the pool once, as a relation between the
pool before and after (`Flushed`, `ReservedAs`, `Executed`, `Staged`, `Published`, `Released`,
`Finished`), and proves it of the operator; the lemmas of the second half, one per
action, use the relations only. `TypeOK` of HybridStep also bounds generations by the
configuration's `maxGeneration`, a bound of the model; `Types` is the typing that is proved.

### Thread pool

For every finite set of workers, every set of callers, every size of loop and any number of
chunks per thread (`PoolAssumption`). The invariant `PoolInv` is `Types`, `Locking` (who holds
`submission_mutex_`, whose function is published), `Counting` (`remaining` is the number
of workers that have not reported the current generation), `Claiming` (a chunk
has one owner), `Running` and `Settled`. `Running` says of each index of the open loop that it
was called at most once, that a called index is below `next_chunk` and in no claimed chunk, and
that an index below it that was not called is in a chunk some thread has claimed, unless
the function threw. `LoopsRunOnce` then follows when nobody owns a chunk and
`next_chunk` is past the end. `FunctionOutlivesCalls` rests on `Counting`: the submitter
takes its function back at `remaining = 0`, when no worker is at work (`NobodyPending`, `AtWork`).

### How inductions over numbers are done

`SequenceLemmas` has the facts about sequences the proofs share. The folds of the community modules are
recursive functions over an interval; what they compute is proved by taking the least element of a set of numbers
(`NatLeast`, `NatSetInduction`), which needs no theorem with an operator as parameter. `FoldLemmas` does this once:
it has the operator of the fold as a constant, takes the induction principle as a hypothesis and shows that a fold has a run, a
function from the number of elements taken to the state reached. An instance per fold (`EvictFold`, `SealFold`,
`ConsiderFold`, ...) then gives the run to the proof, which follows it element by element.

Two definitions of the model are written for the provers: the record updates of `BeginTurn` and
`RewindRequestToStartOfTurn` name the request instead of nesting `@`, and `Smaller` is shared by the policy and the planner.

### What is only model-checked

- Liveness: `ResidentTurnsFinish`, `TerminalsAreDelivered`, `AbandonedAreClosed`,
  `EverythingEnds`. They rest on fairness and `ENABLED`, which this prover does not handle.
- `CommittedSlotsHoldOwnTokens`: the invariant of the proofs says which slots are whose, not what they hold.
- `BothImplementPlain`: the refinement of a plain generator.
- PrefixSnapshotCache and the modules with recursive operators (demotion cascades and making room
  recurse): the prover has no SMT backend where one is declared.
- HybridPrefix, BlockDrafter, PipelineCache and the generators.

## 6. Findings

**Reclaim order of a chain** (run `tail`). `prefix_cache.cpp:236-238` says "Order the entry just behind
its parent, so a chain is always evicted from its tail". The recency list has that order, but
`Reclaim` takes from the reclaimable list, and `OnBlockBecameReclaimable` (lines
855-862) inserts a block whose release is neutral before the next reclaimable
entry *in recency order*, wherever that entry is in the reclaimable list. The run
shows a chain A0-A1 and a block X released earlier: a step adopts
only A0 and is rolled back; A0 goes before X, which is at the front; the next
eviction takes A0 and leaves A1 indexed but unreachable. Retention is wasted; no
request sees wrong content.

**A turn that is never reported** (run `reported`). `src/docs/paged_attention_engine.md:706` says "Every completed
Turn publishes exactly one terminal event." Behind the commit boundary `RunDynamic` calls `CommitStep` for
every request of the step (`engine.cpp:2752-2755`), which makes a finished turn `TurnComplete`; then it seals
blocks (2760), publishes MTP drafts (2765) and records a failure of the drafter (2780). When one of these throws, the
handler at 2783 fails the Engine before `AppendEventsFromStep` (2796-2802) has staged the step's events, and
`MarkUnhealthyAndThrow` makes failure events only for requests that are still executable (2992-2993). The turn
has ended, and its owner is told at most that the Engine has failed. `StepCommitFails` is this path. The properties of
`turns` and `delivery` say what holds besides: no other turn is lost so, and none of those is reported
twice, late, or after something else.

**Grammar of an interrupted round** (run `interrupt`).
`src/docs/SpeculativeDecodingArchitecture.md:373` says "Guidance lookahead must not advance the
public grammar cursor for tokens that might be rejected or discarded." `RunGuidanceRound` commits
each token of a guided round to the public grammar while the round is built.
`AppendTokens` in the middle of it drops the buffered tokens
(`PrepareForAppend`, `speculative_decoding_strategy.cpp:215`) and leaves the grammar ahead, so the
continuation is constrained as if they had been generated.

Four more disagreements of the speculative strategy with the same document are reached by the instances of
`generators`. The first three need a late rewind, one that stops within the round at hand;
`EveryCacheFollowsTheSequence` and `EveryTokenComesFromItsPrefix` name them as their only exceptions, and
dropping one of these shows it:

- A rewind while the forced tail of a guided correction is handed out goes by length only
  (`../generator/generators.cpp:1044`); the target cache still holds the rejected proposal
  at those positions (line 484 of the document: "cannot expose stale buffered work"). This is
  `RowsMayBeOthers`, in the configuration `Grammar`.
- A bonus token that reaches `max_length` ends the search before the round is finalized
  (`speculative_decoding_strategy.cpp:824`), so the draft cache lacks a row that a later rewind
  keeps (line 482: "Target and proposer agree at every externally stable boundary"). This is
  `DraftMayLackRow`, in `SharedDraft`; dynamic caches refuse the rewind instead.
- A rewind by one token after a folded round, or to the row a cache lacks, is refused by a dynamic cache
  (`../models/io/dynamic_kv_cache.cpp:49`) after the search has been rewound, where line 406
  says of `RewindTo` in this state: "Rewinds state and resets strategy/pending work". `NoInternalErrors` allows
  the error `rewind refused` for a late rewind over dynamic caches, and for no other.
- `GetLogits` is refused after a step that proposed nothing or ran in cooldown
  (`speculative_decoding_strategy.cpp:287`), where line 407 says it "otherwise reconciles". The
  model replies `refused`, and no property asks for more.

## 7. Not modelled

Parts with state that are left out:

- Static batching (`StaticCacheManager`, its scheduler): rows of a shared batch that
  outlive a closed request.
- The pool of sliding-window blocks and its ring; append-only indexer keys in the fixed-state pool.
- The MTP head inside an Engine step. PagedCache takes any drafts from the host.
- Search with several sequences, beams, penalties, the random-number
  checkpoints of speculative sampling; stop strings; the inside of the grammar library.
- Memory running out part way through sealing: sealing is done or skipped as a
  whole for each step.
- In EngineTurns: the owner's own `CloseRequest` failing part way, a handle
  being acquired again after its last release, the exhaustion of turn ids, and a
  release between the two passes of `MarkUnhealthyAndThrow` over the tracked
  requests, which are one action.

Assumptions about callers and settings:

- A client of a generator does not call `GenerateNextToken` once the search is done, and drops the
  generator after an exception. `GetLogits` and `SetLogits` on an ended or empty
  sequence are refusals without effect.
- The throughput measurements behind the adaptive width are open: the width may move by one or stay.
  RoPE switches and grammars are not combined. The guided instance has a draft model, no cooldown, one
  rewind at any point, and one append, for a second one may interrupt a guided round (section 6).
- In MtpRounds the drafts, what is accepted and what is selected are open. The tie-breaking of nearly
  equal logits, the device-side draft chain and the sampling distributions are left out.
- The index may refuse a checkpoint or a block for its own reasons, so sealing may pass any
  row in HybridStep; HybridPrefix models those reasons.

Parts without behaviour to model: numeric kernels and execution providers, the binding of tensors to
sessions, model families that only differ in their inputs, audio and image
preprocessing, configuration and JSON parsing, telemetry and logging, the C API and
the language bindings. They are most of the repository: of about 106 600
implementation lines the engine, the drafters, the strategies and
the generators are roughly 30 000, and the map covers 10.9 % of the whole. What is left of those
30 000 lines is validation of arguments and options, packing of inputs, statistics and
sizing of buffers.

## 8. Plan

Done: `BlockLedger`, `PagedCache`, `EngineTurns`, `HybridStep` and `ThreadPool` with their proofs, `PrefixCache`,
`DecodeFirstPolicy`, `FixedStatePool`, `CheckpointIndex` and
`HybridPrefix`, `PrefixSnapshotCache`, `BlockDrafter`, `PipelineCache`,
`SpeculativeRounds` and `MtpRounds` with their refinement of `PlainGenerator`.

Next, in this order:

1. Proofs: `CommittedSlotsHoldOwnTokens` over the invariant of PagedCache, with what each slot holds added to it;
   `StagesAndUpdatesAgree` of PipelineCache.
2. Static batching.
3. `StopStringMatcher` and the window ring as pure functions against a reference definition.
4. An abstract specification of HybridStep, a pair of boundaries that advance together.

## 9. Running

    tlc -config MCPagedCache.cfg MCPagedCache
    tlapm EngineTurnsProofs.tla

`runs` in `PROJECT.json` pairs each module with its configuration.
