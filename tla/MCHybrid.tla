------------------------------ MODULE MCHybrid ------------------------------
(***************************************************************************)
(* Small instances of the two halves of a hybrid engine: its steps over    *)
(* the composite transaction (HybridStep), and its prefix index            *)
(* (HybridPrefix).  `which' says which of them a behaviour is about; the   *)
(* other is never used.                                                    *)
(***************************************************************************)
EXTENDS HybridStep

VARIABLES which, engine, index, table, residents, queue, entries, feeds, stage

prefixVars == <<engine, index, table, residents, queue, entries, feeds, stage>>

-----------------------------------------------------------------------------
(* Steps.  The prompts share their first block.                            *)

PairPrompt == "r1" :> 3 @@ "r2" :> 3

\* Every failure, one request long enough for a draft to be rejected.
Failing ==
    [stream |-> "r1" :> <<1, 2, 3, 4, 5, 6>> @@ "r2" :> <<1, 2, 6, 7>>,
     prompt |-> PairPrompt, maxDrafts |-> 1, maxGeneration |-> 1,
     faults |-> TRUE, views |-> TRUE, caching |-> TRUE]
\* Two drafts a step, gathered rows, no checkpoints.
Drafting ==
    [stream |-> "r1" :> <<1, 2, 3, 4, 5, 6>> @@ "r2" :> <<1, 2, 6, 7, 8, 9>>,
     prompt |-> PairPrompt, maxDrafts |-> 2, maxGeneration |-> 1,
     faults |-> FALSE, views |-> FALSE, caching |-> FALSE]
\* More requests than slots, the third with a prompt of the common block only.
Sharing ==
    [stream |-> "r1" :> <<1, 2, 3>> @@ "r2" :> <<1, 2, 6, 7>> @@ "r3" :> <<1, 2, 9>>,
     prompt |-> PairPrompt @@ "r3" :> 2, maxDrafts |-> 0, maxGeneration |-> 2,
     faults |-> FALSE, views |-> TRUE, caching |-> TRUE]

StepConfigurations == {Failing, Drafting, Sharing}

-----------------------------------------------------------------------------
(* The prefix index.  Tokens above 5 are the ones whose blocks collide.    *)

PoolBlocks == 4

Basic ==
    [stream |-> "r1" :> <<1>>, prompt |-> "r1" :> 1, prefillChunk |-> 2,
     drafter |-> TRUE, maxIndexed |-> PoolBlocks, maxCheckpoints |-> 2]

\* Two prompts that part at the second token, with a drafter.
Parting == [Basic EXCEPT
    !.stream = "r1" :> <<1, 2>> @@ "r2" :> <<1, 3>>,
    !.prompt = "r1" :> 2 @@ "r2" :> 2]
\* Two replays of one prompt, and a prompt that leaves it at the last token.
Replayed == [Basic EXCEPT
    !.stream = "r1" :> <<1, 2, 3>> @@ "r2" :> <<1, 2, 3>> @@ "r3" :> <<1, 2, 4>>,
    !.prompt = "r1" :> 3 @@ "r2" :> 3 @@ "r3" :> 3, !.drafter = FALSE]
\* Prompts that part at the first token, with a token to decode, colliding
\* hashes and a single checkpoint.
Apart == [Basic EXCEPT
    !.stream = "r1" :> <<6, 7, 8>> @@ "r2" :> <<6, 7, 8>> @@ "r3" :> <<7, 7, 8>>,
    !.prompt = "r1" :> 3 @@ "r2" :> 3 @@ "r3" :> 2, !.maxCheckpoints = 1]
PrefixConfigurations == {Parting, Replayed, Apart}

\* A hash that cannot tell any two blocks of the colliding tokens apart.
SomeHash(chunk) == IF Head(chunk) > 5 THEN 0 ELSE chunk

Index == INSTANCE HybridPrefix WITH
    Configurations <- PrefixConfigurations, NumBlocks <- PoolBlocks,
    BlockSize <- 1, MaxIdentities <- 7, ChunkHash <- SomeHash,
    config <- engine, plan <- entries, phase <- stage

ASSUME Index!HybridPrefixAssumption

-----------------------------------------------------------------------------

allVars == <<which, vars, prefixVars>>

HybridInit ==
    /\ which \in {"steps", "prefixes"}
    /\ Init /\ Index!Init
    /\ which = "steps" => engine = Parting
    /\ which = "prefixes" => config = Sharing

HybridNext ==
    \/ which = "steps" /\ Next /\ UNCHANGED <<which, prefixVars>>
    \/ which = "prefixes" /\ Index!Next /\ UNCHANGED <<which, vars>>

HybridSpec == HybridInit /\ [][HybridNext]_allVars

-----------------------------------------------------------------------------
(* Properties of the prefix index, stated in HybridPrefix.                 *)

\* A match offers blocks and a fixed state of exactly the request's own leading
\* tokens, now and while the step that planned it runs (MatchPrefix).
HitsAreExact == which = "prefixes" => Index!HitsAreExact

\* Index, checkpoints, leases, tables and references stay consistent under
\* publication, replacement, eviction and rollback (prefix_cache.cpp).
IndexIsSound == which = "prefixes" => Index!IndexIsSound

\* What the planner promised can be reserved (paged_key_value_cache.cpp).
PlansAlwaysFit == which = "prefixes" => Index!PlansAlwaysFit

\* A checkpoint goes only for one that a replay of its prompt can use
\* (SealCommittedBlocks).
RowsGoToUsableEndpoints == Index!RowsGoToUsableEndpoints
=============================================================================
