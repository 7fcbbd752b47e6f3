--------------------------- MODULE SpeculativeRounds ---------------------------
(***************************************************************************)
(* Speculative decoding in a generator                                     *)
(* (src/src/decoding/speculative_decoding_strategy.cpp with the draft      *)
(* model's proposer in base_speculative_strategy.cpp and the n-gram        *)
(* proposer in n_gram_decoding_strategy.cpp, driven by the calls of        *)
(* src/src/generator/generators.cpp).                                      *)
(*                                                                         *)
(* A round proposes up to K tokens, runs the target over all of them,      *)
(* keeps an accepted prefix and one correction or bonus token, and hands   *)
(* them out one per GenerateNextToken.  Until the last one is out, the     *)
(* caches are ahead of the public sequence; after it, a "fold" may leave   *)
(* the target one token behind.  The caller may append, rewind, read or    *)
(* replace logits between any two tokens.                                  *)
(*                                                                         *)
(* A cache is the sequence of rows it holds: the token each was computed   *)
(* from and which RoPE factors the run used.  Logits are the rows they     *)
(* were computed over.  Which tokens are proposed, accepted and selected   *)
(* is left open, so greedy and sampled decoding are both covered.          *)
(***************************************************************************)
EXTENDS Integers, Sequences, SequencesExt, FiniteSetsExt

CONSTANTS
    Tokens,          \* the ordinary tokens
    Eos,             \* model.eos_token_id
    NoToken,         \* no pending anchor
    Configurations   \* the configurations a generator may be created with

Vocab == Tokens \union {Eos}

ASSUME SpeculativeAssumption ==
    /\ Eos \notin Tokens /\ NoToken \notin Vocab
    /\ \A c \in Configurations :
        /\ c.maxLength \in Nat \ {0} /\ c.minK \in 1..16 /\ c.maxK \in c.minK..16
        /\ c.proposer \in {"draft", "ngram"} /\ c.ngramSize \in Nat \ {0, 1}
        /\ c.cacheKind \in {"dynamic", "shared"} /\ c.threshold \in Nat
        /\ c.failureThreshold \in Nat \ {0}
        /\ {c.chained, c.multi, c.cooldown, c.guided} \subseteq BOOLEAN
        /\ c.forcedBy \in [Vocab -> Seq(Tokens)]
        \* N-gram decoding is refused for a pruned target.
        /\ c.proposer = "ngram" => c.multi

VARIABLES
    config,    \* the generator's configuration and the bounds of its client
    g,         \* the generator: search, states, caches, strategy and round
    reply,     \* what the last call returned to the caller
    appends,   \* appends so far (bound only)
    rewinds    \* rewinds so far (bound only)

vars == <<config, g, reply, appends, rewinds>>

MaxLength == config.maxLength                \* search.max_length
MinK == config.minK                          \* adaptive_k_.MinimumK(), or max_draft_tokens
MaxK == config.maxK                          \* the largest K the controller may reach
Proposer == config.proposer                  \* BaseSpeculativeStrategy, or "ngram"
NGramSize == config.ngramSize                \* speculative.ngram_size
Chained == config.chained                    \* speculative.ngram_chained_lookup
Multi == config.multi                        \* the target returns a logits row per token
CacheKind == config.cacheKind                \* "dynamic" or "shared" buffers
Threshold == config.threshold                \* phi3_rope_threshold_, 0 for none
Cooldown == config.cooldown                  \* speculative.cooldown
FailureThreshold == config.failureThreshold  \* kFailureThreshold
Guided == config.guided                      \* guidance_logits_processor_ is set
ForcedBy == config.forcedBy                  \* what the grammar forces after a token

\* Bounds: token lists of the first and of later appends, appends and rewinds
\* of one generator, and whether the caller reads and replaces logits.
Prompts == config.prompts
Continuations == config.continuations
MaxAppends == config.maxAppends
MaxRewinds == config.maxRewinds
LogitsCalls == config.logitsCalls

-----------------------------------------------------------------------------
(* Caches, logits and the search. *)

Long(total) == Threshold # 0 /\ total >= Threshold

Row(tok, total) == [tok |-> tok, long |-> Long(total)]

\* A row of a shared buffer that was never written.
Garbage == [tok |-> NoToken, long |-> FALSE]

\* What a caller's SetLogits leaves in the search.
Replaced == <<[tok |-> Eos, long |-> FALSE]>>

\* The basis of a token the grammar forced: no logits row was consulted.
NotSelected == <<>>

TokensOf(rows) == [i \in DOMAIN rows |-> rows[i].tok]

Resize(cache, n) ==
    [i \in 1..n |-> IF i <= Len(cache) THEN cache[i] ELSE Garbage]

\* The rows a run reads when it is told of n earlier ones: a dynamic cache
\* feeds all it holds, a shared buffer the first n, written or not.
Past(cache, n) == IF CacheKind = "dynamic" THEN cache ELSE Resize(cache, n)

\* One run over toks, for a total length of total.
Run(cache, toks, total) ==
    Past(cache, total - Len(toks))
        \o [i \in DOMAIN toks |-> Row(toks[i], total)]

\* One run per token, from base rows on.
RunEach(cache, toks, base) ==
    Past(cache, base) \o [i \in DOMAIN toks |-> Row(toks[i], base + i)]

\* A dynamic cache refuses a rewind that drops no row.
CanRewind(cache, n) == CacheKind = "shared" \/ n < Len(cache)

Throw(s, bad, why) ==
    [s EXCEPT !.error = IF @ = "none" /\ bad THEN why ELSE @]

SearchAppend(s, toks) ==
    [s EXCEPT !.seq = @ \o toks, !.next = Last(toks), !.done = FALSE]

SearchRewind(s, n) ==
    [s EXCEPT !.seq = SubSeq(@, 1, n),
              !.next = IF n > 0 THEN s.seq[n + 1] ELSE NoToken,
              !.done = FALSE]

\* Mutant: reaching max_length does not end the search.
CommitTokenWithoutLimit(s, tok, basis) ==
    [s EXCEPT !.next = tok,
              !.seq  = IF tok = Eos THEN @ ELSE Append(@, tok),
              !.done = tok = Eos,
              !.answer = IF Guided /\ tok # Eos THEN Append(@, tok) ELSE @,
              !.emission = [prefix |-> s.seq, basis |-> basis,
                            mixed |-> s.mixed]]

\* search_->CommitToken and the tail of SelectTop and the samplers; emission
\* and answer record what was committed, after what, and from which logits.
CommitToken(s, tok, basis) ==
    [s EXCEPT !.next = tok,
              !.seq  = IF tok = Eos THEN @ ELSE Append(@, tok),
              !.done = tok = Eos \/ Len(s.seq) + 1 = MaxLength,
              !.answer = IF Guided /\ tok # Eos THEN Append(@, tok) ELSE @,
              !.emission = [prefix |-> s.seq, basis |-> basis,
                            mixed |-> s.mixed]]

-----------------------------------------------------------------------------
(* The generator's runs outside a round. *)

\* state_->Run: a draft-model state runs the draft first and keeps its logits.
StateRun(s, toks) ==
    LET total == Len(s.seq)
        draft == IF Proposer = "draft" THEN Run(s.draft, toks, total) ELSE <<>>
        target == Run(s.target, toks, total)
    IN  [s EXCEPT !.draft = draft, !.draftLogits = draft,
                  !.target = target, !.logits = target]

\* CommitTokens takes one token per batch row, and leaves the cursor behind
\* the tokens it forces.
GrammarCommit(grammar, tok) == grammar \o <<tok>> \o ForcedBy[tok]

ComputeLogits(s, toks) ==
    LET commits == Guided /\ s.last = "generated"
        forced  == IF commits THEN ForcedBy[Head(toks)] ELSE <<>>
        ran     == StateRun(s, toks)
        full    == IF forced = <<>> THEN ran
                   ELSE StateRun(SearchAppend(ran, forced), forced)
    IN  [full EXCEPT
            !.grammar = IF commits THEN GrammarCommit(@, Head(toks)) ELSE @,
            !.answer = @ \o forced,
            !.last = "standard", !.computed = TRUE]

\* Run the next token, which a rewind has first to put back.
RefreshLogits(s) ==
    LET back == IF s.last = "rewound" THEN SearchAppend(s, <<s.next>>) ELSE s
    IN  ComputeLogits(back, <<s.next>>)

RunStandardDecodingStep(s, tok) ==
    LET ready == IF s.computed THEN s ELSE RefreshLogits(s)
    IN  CommitToken([ready EXCEPT !.computed = FALSE, !.last = "generated"],
                    tok, ready.logits)

RunGeneratedToken(s) ==
    IF s.last # "generated" \/ s.computed \/ s.done THEN s
    ELSE [ComputeLogits(s, <<s.next>>) EXCEPT !.last = "generated"]

-----------------------------------------------------------------------------
(* The n-gram lookup: its index maps a key to its latest start that has a  *)
(* continuation, so it is a function of the history it was built from.     *)

Key(history, start) == SubSeq(history, start, start + NGramSize - 2)

Occurrences(history, key) ==
    {i \in 1..(Len(history) - NGramSize + 1) : Key(history, i) = key}

Sync(s) ==
    IF Proposer = "draft" THEN s
    ELSE [s EXCEPT !.history =
             IF Len(s.seq) < Len(@) THEN s.seq
             ELSE @ \o SubSeq(s.seq, Len(@) + 1, Len(s.seq))]

\* The token that followed the latest occurrence of the context's last tokens.
Follow(history, context) ==
    LET at == Occurrences(history, Key(context, Len(context) - NGramSize + 2))
    IN  IF at = {} THEN <<>> ELSE <<history[Max(at) + NGramSize - 1]>>

Lookup(history, k) ==
    IF Len(history) < NGramSize - 1 THEN <<>>
    ELSE IF Chained
    THEN LET grown == FoldLeft(LAMBDA c, i : c \o Follow(history, c),
                               history, [i \in 1..k |-> i])
         IN  SubSeq(grown, Len(history) + 1, Len(grown))
    ELSE LET at == Occurrences(history,
                               Key(history, Len(history) - NGramSize + 2))
             from == Max(at) + NGramSize - 1
         IN  IF at = {} THEN <<>>
             ELSE SubSeq(history, from, Min({from + k - 1, Len(history)}))

-----------------------------------------------------------------------------
(* Settling a round. *)

ClearPendingExternalLogits(s) ==
    [s EXCEPT !.rows = <<>>, !.row0 = 0, !.current = -1,
              !.emittedDirect = 0, !.cachedDirect = 0]

\* cooldown_.RecordCompletedRound: failures at the smallest K in a row.
RecordCooldown(s) ==
    IF ~Cooldown \/ s.evaluated = 0 THEN s
    ELSE IF s.accepted > 0 \/ s.k # MinK THEN [s EXCEPT !.zeros = 0]
    ELSE IF s.zeros + 1 = FailureThreshold
    THEN [s EXCEPT !.zeros = 0, !.cooldown = 1]
    ELSE [s EXCEPT !.zeros = @ + 1]

\* adaptive_k_.RecordCompletedRound, with its throughput measurements left
\* open: K stays, or moves to the neighbour w the measurements favour.
RecordAdaptiveK(s, w) ==
    [s EXCEPT !.width =
        IF s.k = @ /\ s.evaluated > 0 /\ s.filled /\ w \in MinK..MaxK
           /\ w \in (@ - 1)..(@ + 1)
        THEN w ELSE @]

\* The details of a settled round are never read again; they are dropped here
\* to keep equal states equal.
FinishRound(s, final, w) ==
    IF s.phase \notin {"draining", "finalizing"} THEN s
    ELSE LET checked == Throw(s, s.pending # <<>>, "settled with buffered tokens")
             counted == IF s.discarded THEN checked
                        ELSE RecordAdaptiveK(RecordCooldown(checked), w)
         IN  [counted EXCEPT
                 !.phase = IF s.discarded THEN "reconcile" ELSE final,
                 !.discarded = FALSE, !.evaluated = 0, !.accepted = 0,
                 !.filled = FALSE, !.k = 0, !.nDirect = 0, !.tokens = <<>>,
                 !.final = NoToken, !.committed = <<>>, !.verifyPrefix = 0,
                 !.lastRow = <<>>]

DiscardPendingTokens(s, w) ==
    FinishRound([s EXCEPT !.discarded = @ \/ s.pending # <<>>,
                          !.pending = <<>>, !.basis = <<>>],
                "reconcile", w)

\* Strategy Reset, with ResetProposer.
Reset(s) ==
    [ClearPendingExternalLogits(DiscardPendingTokens(s, s.width)) EXCEPT
        !.anchor = NoToken, !.phase = "idle", !.kind = "standard",
        !.carry = <<>>, !.width = MinK, !.zeros = 0, !.cooldown = 0,
        !.history = <<>>]

\* Rewind the target and the proposer to floor and run the public tail again.
ReplayCommittedTail(s, floor) ==
    LET tail  == SubSeq(s.seq, floor + 1, Len(s.seq))
        again(cache) == Run(Resize(cache, floor), tail, Len(s.seq))
        bad   == \/ ~CanRewind(s.target, floor)
                 \/ Proposer = "draft" /\ ~CanRewind(s.draft, floor)
        draft == IF Proposer = "draft" THEN again(s.draft) ELSE <<>>
    IN  [Throw(s, bad, "replay refused") EXCEPT
            !.target = again(s.target),
            !.draft = draft, !.draftLogits = draft,
            !.history = IF Proposer = "ngram" THEN s.seq ELSE @]

Floor(s) == Max({s.seed - 1, 0})

PrepareForAppend(s) ==
    IF s.phase = "idle" THEN s
    ELSE LET dropped ==
                 [ClearPendingExternalLogits(DiscardPendingTokens(s, s.width))
                     EXCEPT !.anchor = NoToken, !.phase = "idle",
                            !.kind = "standard", !.carry = <<>>]
         IN  IF Floor(s) >= Len(s.seq) THEN dropped
             ELSE ReplayCommittedTail(dropped, Floor(s))

\* The target alone runs the folded token, so that a standard step can follow.
RunAnchor(s) ==
    LET target == Run(s.target, <<s.anchor>>, Len(s.seq))
    IN  [s EXCEPT !.target = target, !.logits = target, !.computed = TRUE,
                  !.anchor = NoToken, !.phase = "idle"]

PrepareForCooldownStep(s) ==
    IF s.phase = "idle" THEN s
    ELSE IF s.phase = "reconcile" /\ s.anchor # NoToken THEN RunAnchor(s)
    ELSE Throw(s, TRUE, "cooldown without an anchor")

-----------------------------------------------------------------------------
(* Building a round. *)

\* K is clamped by max_length and, below the RoPE switch, so that the verify
\* run stays below it; at the last position K = 1 only judges its first token.
RoundK(s) ==
    LET fit == Min({s.width, MaxLength - Len(s.seq)})
    IN  IF Threshold # 0 /\ Len(s.seq) < Threshold
        THEN Min({fit, Max({1, Threshold - Len(s.seq) - 1})})
        ELSE fit

\* The queue of forced tokens left after a proposal, when it takes every token
\* the grammar forces; a proposal that does not is not one.
ForcedQueue(carry, toks) ==
    FoldLeft(LAMBDA q, t :
                 IF ~q.ok THEN q
                 ELSE IF q.left # <<>>
                 THEN [ok |-> t = Head(q.left), left |-> Tail(q.left)]
                 ELSE [ok |-> TRUE, left |-> ForcedBy[t]],
             [ok |-> TRUE, left |-> carry], toks)

Proposals(s, k) ==
    IF Proposer = "ngram" THEN {Lookup(s.history, k)}
    ELSE {toks \in [1..k -> Vocab] :
             Guided => ForcedQueue(s.carry, toks).ok}

\* The draft runs on every token it proposed but the last.
Propose(s, toks) ==
    IF Proposer = "ngram" \/ toks = <<>> THEN s
    ELSE [Throw(s, s.draftLogits = <<>>, "no draft logits") EXCEPT
             !.draft = RunEach(@, Front(toks), Len(s.seq))]

BeginRound(s, kind, k, n, evaluated, filled) ==
    LET checked == Throw(Throw(s, s.phase \in {"draining", "finalizing"},
                               "round begun twice"),
                         s.pending = <<>>, "round without output")
    IN  [checked EXCEPT
            !.phase = "draining", !.kind = kind, !.discarded = FALSE, !.k = k,
            !.nDirect = n, !.evaluated = evaluated, !.accepted = n,
            !.filled = filled, !.seed = Len(s.seq)]

\* The target's rows for the run over toks: row j follows the j-th input.
Verify(s, toks, total) ==
    IF Multi THEN Run(s.target, toks, total)
    ELSE RunEach(s.target, toks, total - Len(toks))

\* Mutant: the first proposed token is always judged by the search's logits.
JudgesFromSearch(s, rows, row0) ==
    <<s.logits>> \o SubSeq(rows, row0 + 1, Len(rows))

\* The logits that judge each proposed token, and select the bonus one: the
\* first comes from the search, or from the anchor's row of this run.
Judges(s, rows, row0) ==
    <<IF row0 = 0 THEN s.logits ELSE rows[1]>> \o SubSeq(rows, row0 + 1, Len(rows))

\* A round that accepts the first n of toks and then selects final.
RunRound(s, toks, n, final, filled) ==
    LET k      == Len(toks)
        seed   == Len(s.seq)
        lead   == IF s.anchor = NoToken THEN <<>> ELSE <<s.anchor>>
        target == Verify(s, lead \o toks, seed + k)
        row0   == Len(lead)
        rows   == [j \in 1..(row0 + k) |-> SubSeq(target, 1, seed - row0 + j)]
        queued == [Throw(s, lead # <<>> /\ ~Multi, "fold on a pruned target")
                   EXCEPT !.target = target, !.rows = rows, !.row0 = row0,
                          !.current = -1, !.emittedDirect = 0,
                          !.cachedDirect = n, !.anchor = NoToken,
                          !.pending = Append(SubSeq(toks, 1, n), final),
                          !.basis = SubSeq(Judges(s, rows, row0), 1, n + 1),
                          !.final = final, !.tokens = toks]
    IN  BeginRound(queued, "standard", k, n, Min({n + 1, k}), filled)

\* A guided round walks the proposal: a forced position is taken as it is, a
\* free one is judged; after a rejection, or an end-of-sequence token, the walk
\* stops.  stop is how many positions it takes, pick the token selected at the
\* rejected position, or NoToken when nothing is rejected.
GuidedWalk(s, toks, stop) ==
    FoldLeft(LAMBDA w, t :
                 IF w.left # <<>>
                 THEN [w EXCEPT !.left = Tail(@)]
                 ELSE [left |-> ForcedBy[t], free |-> w.free + 1,
                       grammar |-> IF t = Eos THEN w.grammar
                                   ELSE GrammarCommit(w.grammar, t)],
             [left |-> s.carry, free |-> 0, grammar |-> s.grammar],
             SubSeq(toks, 1, stop))

\* Mutant: the forced tokens beyond the budget are forgotten.
ForgetForced(walk, clean) == <<>>

\* The forced tokens that did not fit the budget are carried to the next round.
Carried(walk, clean) == IF clean THEN walk.left ELSE <<>>

RunGuidanceRound(s, toks, stop, pick, filled) ==
    LET k      == Len(toks)
        seed   == Len(s.seq)
        target == Verify(s, toks, seed + k)
        rows   == [j \in 1..k |-> SubSeq(target, 1, seed + j)]
        judge  == Judges(s, rows, 0)
        walk   == GuidedWalk(s, toks, stop)
        kept   == SubSeq(toks, 1, stop)
        tail   == IF pick = NoToken THEN <<>> ELSE <<pick>> \o ForcedBy[pick]
        ended  == stop > 0 /\ toks[stop] = Eos
        queued == [s EXCEPT
            !.target = target, !.rows = <<>>, !.row0 = 0, !.current = -1,
            !.emittedDirect = 0, !.cachedDirect = 0,
            !.grammar = IF pick \in Tokens THEN GrammarCommit(walk.grammar, pick)
                        ELSE walk.grammar,
            !.carry = Carried(walk, stop = k /\ ~ended),
            !.pending = kept \o tail,
            !.basis = [i \in 1..Len(kept \o tail) |->
                          IF i <= stop + 1 THEN judge[i] ELSE NotSelected],
            !.committed = kept \o tail, !.verifyPrefix = stop,
            !.lastRow = IF stop > 0 THEN rows[stop] ELSE <<>>,
            !.tokens = toks]
    IN  BeginRound(queued, "guidance", k, walk.free,
                   walk.free + (IF stop < k /\ ~ended THEN 1 ELSE 0), filled)

\* How a guided walk over toks may end: at the budget, at an accepted
\* end-of-sequence token, or at a free position whose token is rejected, where
\* a correction is selected (greedy defers it unless the position is the first).
GuidedEndings(s, toks) ==
    LET k == Len(toks)
        firstEos == Min({i \in 1..k : toks[i] = Eos} \union {k})
        free(i) == GuidedWalk(s, toks, i).left = <<>>
    IN  {[stop |-> firstEos, pick |-> NoToken]}
        \union {[stop |-> i, pick |-> t] :
                   i \in {i \in 0..(firstEos - 1) : free(i)}, t \in Vocab}
        \union {[stop |-> i, pick |-> NoToken] :
                   i \in {i \in 1..(firstEos - 1) : free(i)}}

-----------------------------------------------------------------------------
(* Handing a round out and finishing it. *)

\* The draft catches up with what was accepted, then runs the final token.
Advance(s) ==
    IF Proposer = "ngram" THEN Sync(s)
    ELSE LET k == Len(s.tokens)
             ahead == IF s.nDirect = k
                      THEN Run(s.draft, <<s.tokens[k]>>, s.seed + k)
                      ELSE s.draft
             cut == IF s.nDirect < k - 1
                    THEN Resize(ahead, s.seed + s.nDirect) ELSE ahead
             draft == Run(cut, <<s.final>>, s.seed + s.nDirect + 1)
         IN  [s EXCEPT !.draft = draft, !.draftLogits = draft]

Folds(s) ==
    /\ Multi
    /\ s.k >= 2
    /\ ~(Threshold # 0 /\ Len(s.seq) + 1 = Threshold)

\* The rejected rows leave the target; the final token is run now, or folded
\* into the next round's verify run.
FinalizeStandard(s) ==
    LET kept == IF s.nDirect < s.k THEN Resize(s.target, s.seed + s.nDirect)
                ELSE s.target
        next == Run(kept, <<s.final>>, s.seed + s.nDirect + 1)
    IN  IF Folds(s)
        THEN Advance([s EXCEPT !.target = kept, !.anchor = s.final])
        ELSE Advance([s EXCEPT !.target = next, !.logits = next,
                               !.computed = TRUE])

\* The tokens of a guided round that were not in its verify batch.
GuidedTail(s) == SubSeq(s.committed, s.verifyPrefix + 1, Len(s.committed))

\* A guided round runs what the verify batch did not hold, one token at a
\* time, or takes the saved row when it held everything.
FinalizeGuidanceRound(s) ==
    LET back  == IF s.k > 1 THEN Resize(s.draft, s.seed) ELSE s.draft
        draft == RunEach(back, s.committed, s.seed)
        proposed == IF Proposer = "ngram" THEN Sync(s)
                    ELSE [s EXCEPT !.draft = draft, !.draftLogits = draft]
        tail  == GuidedTail(s)
        kept  == IF s.verifyPrefix < s.k
                 THEN Resize(s.target, s.seed + s.verifyPrefix) ELSE s.target
        again == RunEach(kept, tail, s.seed + s.verifyPrefix)
    IN  [proposed EXCEPT
            !.target = again,
            !.logits = IF tail = <<>> THEN s.lastRow ELSE again,
            !.computed = TRUE, !.kind = "standard"]

FinalizeRound(s, w) ==
    LET final == IF s.kind = "guidance" THEN FinalizeGuidanceRound(s)
                 ELSE FinalizeStandard(s)
    IN  FinishRound(final,
                    IF final.anchor = NoToken THEN "idle" ELSE "reconcile", w)

\* Drop the rest of a round that may not go on.
Interrupt(s, w) ==
    [ClearPendingExternalLogits(DiscardPendingTokens(s, w)) EXCEPT
        !.phase = "reconcile"]

\* The verify row of the last token handed out.
CurrentRow(s) == s.row0 + s.emittedDirect

\* One buffered token becomes public; w is where the adaptive K moves when
\* this completes the round.
DrainOne(s, w) ==
    LET out == CommitToken([s EXCEPT !.pending = Tail(@), !.basis = Tail(@),
                                     !.computed = FALSE],
                           Head(s.pending), Head(s.basis))
        sent == [out EXCEPT !.discarded = @ \/ Head(s.pending) = Eos]
        row == [Throw(sent, sent.emittedDirect >= sent.cachedDirect,
                      "buffered tokens without logits")
                EXCEPT !.current = CurrentRow(sent),
                       !.emittedDirect = @ + 1]
    IN  IF \/ sent.done
           \/ Threshold # 0 /\ Len(sent.seq) = Threshold
        THEN Interrupt(sent, w)
        ELSE IF sent.pending # <<>>
        THEN IF sent.kind = "standard" THEN row ELSE sent
        ELSE FinalizeRound(
                 ClearPendingExternalLogits([sent EXCEPT !.phase = "finalizing"]),
                 w)

-----------------------------------------------------------------------------
(* The calls of the generator. *)

NewGenerator ==
    [seq |-> <<>>, next |-> NoToken, done |-> FALSE, logits |-> <<>>,
     computed |-> FALSE, last |-> "standard", error |-> "none",
     target |-> <<>>, draft |-> <<>>, draftLogits |-> <<>>, history |-> <<>>,
     phase |-> "idle", kind |-> "standard", discarded |-> FALSE,
     pending |-> <<>>, basis |-> <<>>, rows |-> <<>>, row0 |-> 0,
     current |-> -1, emittedDirect |-> 0, cachedDirect |-> 0,
     tokens |-> <<>>, final |-> NoToken, nDirect |-> 0, seed |-> 0, k |-> 0,
     evaluated |-> 0, accepted |-> 0, filled |-> FALSE,
     committed |-> <<>>, verifyPrefix |-> 0, lastRow |-> <<>>,
     anchor |-> NoToken, carry |-> <<>>, grammar |-> <<>>,
     width |-> MinK, zeros |-> 0, cooldown |-> 0,
     \* ghosts
     answer |-> <<>>, mixed |-> FALSE, late |-> FALSE,
     emission |-> [prefix |-> <<>>, basis |-> NotSelected, mixed |-> FALSE]]

Quiet == [kind |-> "none", rows |-> <<>>]

Init ==
    /\ config \in Configurations
    /\ g = NewGenerator
    /\ reply = Quiet
    /\ appends = 0
    /\ rewinds = 0

\* Generator::RewindToLength for n below the current length.  The search is
\* rewound before the states, which may refuse.
RewindToLength(s, n) ==
    LET bad == \/ ~CanRewind(s.target, n)
               \/ Proposer = "draft" /\ ~CanRewind(s.draft, n)
        cut(cache) == IF bad THEN cache ELSE Resize(cache, n)
        back == SearchRewind(s, n)
        kept == [Throw(back, bad, "rewind refused") EXCEPT
                    !.target = cut(@),
                    !.draft = IF Proposer = "draft" THEN cut(@) ELSE @,
                    !.draftLogits = <<>>]
    IN  IF bad THEN kept
        ELSE [Reset(kept) EXCEPT !.grammar = <<>>, !.answer = <<>>,
                                 !.computed = FALSE, !.last = "rewound"]

\* Generator::AppendTokens.
AppendToSequence(s, toks) ==
    LET ready == RunGeneratedToken(PrepareForAppend(s))
    IN  ComputeLogits([SearchAppend(ready, toks) EXCEPT !.computed = FALSE], toks)

\* Whether rows were computed with other factors than a sequence of n tokens
\* calls for.  An append over the RoPE switch and a rewind back over it leave
\* such rows, as they do without speculation; g.mixed remembers it.
WrongFactors(rows, n) == \E i \in DOMAIN rows : rows[i].long # Long(n)

AppendTokens(toks) ==
    LET s == AppendToSequence(g, toks) IN
    /\ g.error = "none"
    /\ appends < MaxAppends
    /\ toks \in IF g.seq = <<>> THEN Prompts ELSE Continuations
    /\ Len(g.seq) + Len(toks) <= MaxLength
    /\ g' = [s EXCEPT !.mixed = g.mixed \/ WrongFactors(s.target, Len(s.seq))]
    /\ appends' = appends + 1
    /\ reply' = Quiet
    /\ UNCHANGED rewinds

\* At the RoPE switch the whole sequence is run again with the long factors.
RecomputeAtThreshold(s) ==
    IF Threshold # 0 /\ Len(s.seq) = Threshold
    THEN [AppendToSequence(RewindToLength(s, 0), s.seq) EXCEPT
             !.answer = s.answer, !.mixed = FALSE]
    ELSE s

\* The calls a GenerateNextToken that starts no round makes before it selects
\* or proposes: the logits, or the folded token, must be there.
RoundReady(s) ==
    IF s.computed \/ s.anchor # NoToken THEN s ELSE RefreshLogits(s)

CanGenerate == g.error = "none" /\ ~g.done /\ Len(g.seq) \in 1..(MaxLength - 1)

Generated(s) ==
    /\ g' = s
    /\ reply' = Quiet
    /\ UNCHANGED <<appends, rewinds>>

\* A cooldown step: the round is skipped once.
CooldownStep(tok) ==
    LET s == RecomputeAtThreshold(g) IN
    /\ CanGenerate
    /\ s.pending = <<>>
    /\ s.cooldown > 0
    /\ s.carry = <<>>
    /\ Generated([RunStandardDecodingStep(PrepareForCooldownStep(s), tok)
                     EXCEPT !.cooldown = @ - 1])

\* RunRound refuses when the token a rewind left has filled the sequence.
ExhaustedStep ==
    LET s == RoundReady(RecomputeAtThreshold(g)) IN
    /\ CanGenerate
    /\ s.pending = <<>>
    /\ ~(s.cooldown > 0 /\ s.carry = <<>>)
    /\ Len(s.seq) >= MaxLength
    /\ Generated(Throw(s, TRUE, "at max_length"))

\* Where the adaptive controller may leave K after a round.
Widths(s) == {w \in MinK..MaxK : w \in (s.width - 1)..(s.width + 1)}

\* A step that builds a round: what a proposal can be, and how it starts.
RoundStart ==
    LET s == Sync(RoundReady(RecomputeAtThreshold(g)))
    IN  [s |-> s, k |-> RoundK(s)]

StartsRound(s) ==
    /\ CanGenerate
    /\ s.pending = <<>>
    /\ ~(s.cooldown > 0 /\ s.carry = <<>>)
    /\ Len(s.seq) < MaxLength

Filled(s, k, toks) == k = s.width /\ Len(toks) = k

\* With nothing proposed, a step is a standard one.
FallbackStep(tok) ==
    LET s == RoundStart.s
        ready == IF s.anchor = NoToken THEN s ELSE RunAnchor(s)
    IN
    /\ StartsRound(s)
    /\ <<>> \in Proposals(s, RoundStart.k)
    /\ Generated(RunStandardDecodingStep(ready, tok))

\* A step that runs a round and hands out its first token.
RoundStep ==
    LET s == RoundStart.s
        k == RoundStart.k
    IN
    /\ ~Guided
    /\ StartsRound(s)
    /\ \E toks \in Proposals(s, k) \ {<<>>}, final \in Vocab, w \in Widths(s) :
          \E n \in 0..Len(toks) :
             Generated(DrainOne(RunRound(Propose(s, toks), toks, n, final,
                                         Filled(s, k, toks)), w))

GuidedStep ==
    LET s == RoundStart.s
        k == RoundStart.k
    IN
    /\ Guided
    /\ StartsRound(s)
    /\ \E toks \in Proposals(s, k) \ {<<>>}, w \in Widths(s) :
          \E end \in GuidedEndings(s, toks) :
             Generated(DrainOne(RunGuidanceRound(Propose(s, toks), toks,
                                    end.stop, end.pick,
                                    Filled(s, k, toks)), w))

\* A step that only hands out a buffered token.
DrainStep ==
    /\ CanGenerate
    /\ g.pending # <<>>
    /\ \E w \in Widths(g) : Generated(DrainOne(g, w))

\* The public sequence the models have been run on: a standard step's token
\* is run by the next call.
Processed(s) ==
    IF s.last = "generated" /\ ~s.computed /\ s.next # Eos
    THEN Front(s.seq) ELSE s.seq

\* The tokens that every cache certainly holds and that no buffered round can
\* change: those of the rounds that are settled, or those already run.
Stable(s) ==
    IF s.phase = "idle" THEN Len(Processed(s))
    ELSE IF s.anchor # NoToken THEN Len(s.seq) - 1
    ELSE s.seed

\* g.late remembers a rewind that kept all of them.
RewindTo(n) ==
    LET s == RewindToLength(g, n) IN
    /\ g.error = "none"
    /\ rewinds < MaxRewinds
    /\ n < Len(g.seq)
    /\ g' = [s EXCEPT !.mixed = WrongFactors(s.target, n + 1),
                      !.late = @ \/ n >= Stable(g)]
    /\ rewinds' = rewinds + 1
    /\ reply' = Quiet
    /\ UNCHANGED appends

\* Reconcile a round, or run the token a rewind left, so that the search holds
\* the logits of the public sequence; with nothing to do it is the identity.
\* After a standard step the logits are refused.
LogitsRefused(s) ==
    \/ s.phase # "idle" /\ (Guided \/ Floor(s) >= Len(s.seq))
    \/ s.phase = "idle" /\ ~s.computed
          /\ (s.seq = <<>> \/ s.last # "rewound")

PrepareForSetLogits(s) ==
    IF s.phase # "idle"
    THEN LET again == ReplayCommittedTail(Reset(s), Floor(s))
         IN  [again EXCEPT !.logits = again.target, !.computed = TRUE,
                           !.last = "standard"]
    ELSE IF s.computed THEN s
    ELSE RefreshLogits(s)

CanUseLogits == LogitsCalls /\ g.error = "none" /\ ~g.done /\ g.seq # <<>>

\* The row cached for the last token handed out, while tokens are buffered.
RowHeld ==
    ~Guided /\ g.current \in g.row0..(g.row0 + g.cachedDirect - 1)

\* GetLogits: that row, or the search's logits once they are current.
GetLogits ==
    /\ CanUseLogits
    /\ UNCHANGED <<appends, rewinds>>
    /\ \/ /\ g.pending # <<>>
          /\ RowHeld
          /\ reply' = [kind |-> "logits", rows |-> g.rows[g.current + 1]]
          /\ UNCHANGED g
       \/ /\ IF g.pending # <<>> THEN ~RowHeld ELSE LogitsRefused(g)
          /\ reply' = [kind |-> "refused", rows |-> <<>>]
          /\ UNCHANGED g
       \/ /\ g.pending = <<>>
          /\ ~LogitsRefused(g)
          /\ g' = PrepareForSetLogits(g)
          /\ reply' = [kind |-> "logits", rows |-> g'.logits]

\* SetLogits: reconcile, then replace the search's logits.
SetLogits ==
    /\ CanUseLogits
    /\ ~LogitsRefused(g)
    /\ g' = [PrepareForSetLogits(g) EXCEPT !.logits = Replaced,
                                           !.computed = TRUE]
    /\ reply' = Quiet
    /\ UNCHANGED <<appends, rewinds>>

\* IsDone() of a finished guided search resets the grammar.
PollDone ==
    /\ Guided
    /\ g.error = "none"
    /\ g.done
    /\ ~g.computed
    /\ g.grammar # <<>> \/ g.last # "standard"
    /\ g' = [g EXCEPT !.grammar = <<>>, !.answer = <<>>, !.last = "standard"]
    /\ reply' = Quiet
    /\ UNCHANGED <<appends, rewinds>>

Call ==
    \/ \E toks \in Prompts \union Continuations : AppendTokens(toks)
    \/ \E tok \in Vocab : CooldownStep(tok)
    \/ \E tok \in Vocab : FallbackStep(tok)
    \/ ExhaustedStep
    \/ RoundStep
    \/ GuidedStep
    \/ DrainStep
    \/ \E n \in 0..(MaxLength - 1) : RewindTo(n)
    \/ GetLogits
    \/ SetLogits
    \/ PollDone

Next == Call /\ UNCHANGED config

Spec == Init /\ [][Next]_vars

-----------------------------------------------------------------------------
(* Properties. *)

Rows == [tok : Vocab \union {NoToken}, long : BOOLEAN]

IsRows(rows) == \A i \in DOMAIN rows : rows[i] \in Rows

\* Every field has its type, the sequence stays within max_length, K within
\* its bounds, and tokens are buffered exactly while a round is draining.
TypeOK ==
    /\ \A i \in DOMAIN g.seq : g.seq[i] \in Tokens
    /\ Len(g.seq) <= MaxLength
    /\ IsRows(g.target) /\ IsRows(g.draft) /\ IsRows(g.logits)
    /\ g.width \in MinK..MaxK
    /\ g.cooldown \in 0..1 /\ g.zeros \in 0..(FailureThreshold - 1)
    /\ g.phase \in {"idle", "draining", "reconcile"}
    /\ g.error = "none" => (g.phase = "draining" <=> g.pending # <<>>)
    /\ Len(g.basis) = Len(g.pending)
    /\ g.anchor # NoToken => g.phase = "reconcile"

\* What a late rewind spoils, for it cuts by length alone. In the middle of a
\* guided round the rows it keeps may be those of rejected tokens
\* (generators.cpp:1044); the draft's shared buffer may lack the last token of
\* a round that ended early (speculative_decoding_strategy.cpp:824).
RowsMayBeOthers == g.late /\ Guided
DraftMayLackRow == g.late /\ CacheKind = "shared"

\* Every token that becomes public was selected from logits computed over
\* exactly the public sequence before it, with one kind of RoPE factors unless
\* an append or a rewind crossed their switch: a verify row is never used after
\* a rejection, a rewind, a fold or an interruption has made it another
\* prefix's (RunRound, DrainOne, FinalizeRound, ReplayCommittedTail).
TokensComeFromTheirPrefix ==
    \/ RowsMayBeOthers
    \/ g.emission.basis \in {Replaced, NotSelected}
    \/ /\ TokensOf(g.emission.basis) = g.emission.prefix
       /\ ~g.emission.mixed =>
             ~WrongFactors(g.emission.basis, Len(g.emission.prefix))

\* Between rounds the target holds exactly the public tokens, but for a folded
\* one; and while a round is unsettled it still holds the tokens a replay will
\* start from.
TargetFollowsTheSequence ==
    g.error = "none" /\ ~RowsMayBeOthers =>
      /\ g.phase = "idle" => TokensOf(g.target) = Processed(g)
      /\ g.anchor # NoToken => Append(TokensOf(g.target), g.anchor) = g.seq
      /\ g.phase # "idle" =>
            IsPrefix(SubSeq(g.seq, 1, Floor(g)), TokensOf(g.target))

\* So does the draft, which never lacks a folded token; and the logits the
\* next proposal starts from, when they are valid, are those of these tokens.
DraftFollowsTheSequence ==
    Proposer = "draft" /\ g.error = "none" /\ ~RowsMayBeOthers /\ ~DraftMayLackRow =>
      /\ g.phase = "idle" => TokensOf(g.draft) = Processed(g)
      /\ g.anchor # NoToken => TokensOf(g.draft) = g.seq
      /\ g.phase # "idle" =>
            IsPrefix(SubSeq(g.seq, 1, Floor(g)), TokensOf(g.draft))
      /\ (g.phase = "idle" \/ g.anchor # NoToken) /\ g.draftLogits # <<>> =>
            TokensOf(g.draftLogits) = Processed(g)

\* GetLogits answers for the public sequence, in the middle of a round too.
ExternalLogitsAreCurrent ==
    reply.kind = "logits" /\ g.error = "none" /\ ~RowsMayBeOthers =>
      reply.rows = Replaced \/ TokensOf(reply.rows) = g.seq

\* No run, replay or crop of a round is ever refused, and of the caller's
\* rewinds only a late one, by a cache that would drop no row
\* (dynamic_kv_cache.cpp:49). What a rewind leaves may have no room for a round.
NoInternalErrors ==
    \/ g.error = "none"
    \/ g.error = "rewind refused" /\ g.late /\ CacheKind = "dynamic"
    \/ g.error = "at max_length" /\ Len(g.seq) = MaxLength /\ rewinds > 0

\* No unverified token enters the n-gram history, and no token that a rewind
\* took back stays in it.
HistoryIsPublic == IsPrefix(g.history, g.seq)

\* Between rounds the grammar has consumed exactly the answer handed out,
\* followed by the forced tokens still to come.
GrammarFollowsOutput ==
    (Guided /\ g.phase = "idle" /\ g.error = "none") =>
        g.grammar = (IF g.last = "generated" /\ ~g.computed /\ g.next # Eos
                     THEN Front(g.answer) ELSE g.answer) \o g.carry

\* To its caller a speculative generator is a plain one: a call adds one token
\* and buffered tokens never show.  A rewind that a cache refuses throws after
\* it has rewound the search.
Plain == INSTANCE PlainGenerator WITH
    max_length <- MaxLength, guided <- Guided,
    seq <- g.seq,
    done <- g.done,
    boundary <- IF /\ g.last = "rewound" \/ g.error = "rewind refused"
                   /\ g.seq # <<>>
                THEN <<g.next>> ELSE <<>>

ImplementsPlain == Plain!Spec
=============================================================================
