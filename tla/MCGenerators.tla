---------------------------- MODULE MCGenerators ----------------------------
(***************************************************************************)
(* Small instances of the two speculative generators.  A program creates   *)
(* one or the other; `which' says which, and the other stays unused.       *)
(***************************************************************************)
EXTENDS SpeculativeRounds, TLC

CONSTANTS a, b, eos

VARIABLES which, mtpConfig, s, requests

-----------------------------------------------------------------------------
(* Speculative decoding with a draft model or an n-gram lookup. *)

\* No token is forced; or the first token forces the second twice.
NothingForced == [t \in Vocab |-> <<>>]
FirstForces == [t \in Vocab |-> IF t = a THEN <<b, b>> ELSE <<>>]

Basic ==
    [maxLength |-> 6, minK |-> 2, maxK |-> 2, proposer |-> "draft",
     ngramSize |-> 2, chained |-> FALSE, multi |-> TRUE,
     cacheKind |-> "dynamic", threshold |-> 0, cooldown |-> FALSE,
     failureThreshold |-> 2, guided |-> FALSE, forcedBy |-> NothingForced,
     prompts |-> {<<a>>}, continuations |-> {<<b>>},
     maxAppends |-> 2, maxRewinds |-> 1, logitsCalls |-> TRUE]

\* K moves, and failures lead to a cooldown.
Draft == [Basic EXCEPT !.minK = 1, !.cooldown = TRUE]
\* The same over shared buffers, which take any rewind.
SharedDraft == [Draft EXCEPT !.maxLength = 5, !.cacheKind = "shared"]
\* A lookup in a repetitive prompt, over shared buffers.
NGram == [Basic EXCEPT !.maxLength = 7, !.maxK = 3, !.proposer = "ngram",
                       !.chained = TRUE, !.cacheKind = "shared",
                       !.cooldown = TRUE, !.prompts = {<<a, b, a>>}]
\* The target returns the last logits row only.
Pruned == [Basic EXCEPT !.maxLength = 5, !.multi = FALSE]
\* The RoPE factors switch at four tokens.
Rope == [Basic EXCEPT !.maxK = 3, !.threshold = 4, !.logitsCalls = FALSE]
\* A grammar that forces tokens.
Grammar == [Basic EXCEPT !.maxK = 3, !.guided = TRUE, !.forcedBy = FirstForces,
                         !.maxAppends = 1]
RoundConfigurations == {Draft, SharedDraft, NGram, Pruned, Rope, Grammar}

\* The caller appends in the middle of a guided round.
Interrupted == [Grammar EXCEPT !.maxK = 2, !.maxAppends = 2, !.maxRewinds = 0]
InterruptedConfigurations == {Interrupted}

-----------------------------------------------------------------------------
(* Multi-token prediction. *)

BasicMtp ==
    [maxLength |-> 7, drafts |-> 3, mode |-> "multi", recurrent |-> "snapshot",
     window |-> 1, chunk |-> 0, prompts |-> {<<a>>, <<a, b, a>>},
     maxRequests |-> 2]

Single == [BasicMtp EXCEPT !.drafts = 1, !.mode = "single", !.chunk = 2]
Many == [BasicMtp EXCEPT !.prompts = {<<a>>, <<b, a>>, <<a, a, a, a, a, a, a>>}]
Compact == [BasicMtp EXCEPT !.recurrent = "compact", !.window = 3, !.chunk = 2]
Sample == [BasicMtp EXCEPT !.mode = "sample", !.recurrent = "window", !.window = 4]
MtpConfigurations == {Single, Many, Compact, Sample}

Mtp == INSTANCE MtpRounds WITH
    config <- mtpConfig, Configurations <- MtpConfigurations

ASSUME Mtp!MtpAssumption

-----------------------------------------------------------------------------

mtpVars == <<mtpConfig, s, requests>>
allVars == <<which, vars, mtpVars>>

GeneratorInit ==
    /\ which \in {"rounds", "mtp"}
    /\ Init /\ Mtp!Init
    /\ which = "rounds" => mtpConfig = Single
    /\ which = "mtp" => config = Draft

GeneratorNext ==
    \/ which = "rounds" /\ Next /\ UNCHANGED <<which, mtpVars>>
    \/ which = "mtp" /\ Mtp!Next /\ UNCHANGED <<which, vars>>

GeneratorSpec == GeneratorInit /\ [][GeneratorNext]_allVars

-----------------------------------------------------------------------------
(* Properties of both. *)

\* Every token that either generator hands out was selected from logits over
\* exactly the tokens before it: a verify row is never used once a rejection, a
\* rewind, a fold or an interruption has made it another prefix's
\* (speculative_decoding_strategy.cpp, mtp_generator.cpp).  The logits a caller
\* reads in the middle of a round are those of the public sequence, too.  The
\* exception: after a rewind into an unsettled guided round neither holds.
EveryTokenComesFromItsPrefix ==
    /\ TokensComeFromTheirPrefix /\ ExternalLogitsAreCurrent
    /\ Mtp!TokensComeFromTheirPrefix

\* Between rounds no cache holds a row of a rejected draft or lacks one of a
\* committed token: the target's and the draft's, the main model's recurrent
\* state, and the head's rows with the hidden states they were paired with
\* (PrepareForAppend, FinalizeRound, GenerateStepMulti).  The logits the next
\* proposal starts from and the n-gram history follow it, too.  Nor is any of
\* the runs, rewinds and crops that keep them so refused.  A rewind that goes
\* back behind the round at hand is never an exception; one that stops within
\* it may be refused by dynamic caches, leaves a guided generator's caches and
\* a shared draft buffer in doubt, and harms no other configuration.
EveryCacheFollowsTheSequence ==
    /\ TargetFollowsTheSequence /\ DraftFollowsTheSequence /\ HistoryIsPublic
    /\ NoInternalErrors
    /\ Mtp!MainFollowsSequence /\ Mtp!HeadFollowsSequence /\ Mtp!NeverRefused

\* To its caller each is a plain generator: a call adds one token or ends the
\* search, and buffered tokens never show (generators.cpp).
BothImplementPlain == ImplementsPlain /\ Mtp!ImplementsPlain
=============================================================================
