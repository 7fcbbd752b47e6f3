------------------------------- MODULE MtpRounds -------------------------------
(***************************************************************************)
(* Self-speculative decoding with a multi-token-prediction head            *)
(* (src/src/generator/mtp_generator.cpp), over the main model's recurrent  *)
(* state (src/src/models/io/recurrent_state.cpp).                          *)
(*                                                                         *)
(* Two generators are driven in step.  The main model verifies the last    *)
(* committed token and the drafts in one run; it holds attention rows,     *)
(* which can be cut anywhere, and a recurrent state, which can only go     *)
(* back to a snapshot or to a slot of its window.  The head holds one row  *)
(* per generated token: the token and the hidden state it was paired with, *)
(* the main model's for a committed token and the head's own for a draft.  *)
(*                                                                         *)
(* A state, a hidden state and a logits row are the tokens they were       *)
(* computed over.  What is drafted, accepted and selected is left open, so *)
(* greedy decoding and speculative sampling are both covered.              *)
(***************************************************************************)
EXTENDS Integers, Sequences, SequencesExt, FiniteSetsExt

CONSTANTS
    Tokens,          \* the ordinary tokens
    Eos,             \* model.eos_token_id
    NoToken,         \* next_token_ before the first prompt
    Configurations   \* the configurations a generator may be created with

Vocab == Tokens \union {Eos}

VARIABLES
    config,     \* the generator's configuration and the bounds of its client
    s,          \* the MtpGenerator with its two generators
    requests    \* requests so far (bound only)

vars == <<config, s, requests>>

MaxLength == config.maxLength    \* search.max_length
Drafts == config.drafts          \* speculative.max_draft_tokens
Mode == config.mode              \* "single", "multi" or "sample"
Recurrent == config.recurrent    \* "none", "snapshot", "window" or "compact"
Window == config.window          \* state_window of a windowed recurrent state
Chunk == config.chunk            \* prefill_chunk_, 0 for none

\* Bounds: the prompts of a request, and the requests of one generator.
Prompts == config.prompts
MaxRequests == config.maxRequests

\* num_speculative_tokens_ after the constructor's clamp to the state window.
NumSpeculativeTokens ==
    IF Recurrent \in {"window", "compact"} THEN Min({Drafts, Window - 1}) ELSE Drafts

\* What the constructor accepts.
MtpAssumption ==
    /\ Eos \notin Tokens /\ NoToken \notin Vocab
    /\ \A c \in Configurations :
        /\ c.maxLength \in Nat \ {0} /\ c.drafts \in Nat \ {0} /\ c.chunk \in Nat
        /\ c.mode \in {"single", "multi", "sample"}
        /\ c.recurrent \in {"none", "snapshot", "window", "compact"}
        /\ c.window \in Nat \ {0}
        /\ c.recurrent \in {"window", "compact"} => c.window > 1
        /\ c.mode = "single" => c.drafts = 1

-----------------------------------------------------------------------------
(* The main model: attention rows, convolution and recurrent states.       *)

\* What a model that saw exactly p holds.
Over(p) == [kv |-> p, conv |-> p, rec |-> p]

Extend(at, toks) ==
    [kv |-> at.kv \o toks, conv |-> at.conv \o toks, rec |-> at.rec \o toks]

NewMain ==
    [at |-> Over(<<>>), forward |-> <<>>, rows |-> <<>>,
     snapValid |-> FALSE, snapAt |-> 0, snap |-> Over(<<>>), error |-> "none"]

Refuse(x, bad, why) == [x EXCEPT !.error = IF @ = "none" /\ bad THEN why ELSE @]

\* main_->AppendTokens: one run, one row of logits and of hidden states a token.
MainAppend(mn, toks) ==
    [Refuse(mn, Len(mn.at.kv) + Len(toks) > MaxLength, "over max_length") EXCEPT
        !.at = Extend(@, toks),
        !.forward = toks,
        !.rows = [j \in DOMAIN toks |-> Extend(mn.at, SubSeq(toks, 1, j))]]

SnapshotState(mn) ==
    IF Recurrent = "none" THEN mn
    ELSE [mn EXCEPT !.snapValid = TRUE, !.snapAt = Len(mn.at.kv), !.snap = mn.at]

\* main_->RewindToLength: the attention rows are cut, a recurrent state goes
\* back to its snapshot, which must have been taken at that length.
MainRewind(mn, n) ==
    LET cut == SubSeq(mn.at.kv, 1, n)
        ok  == Recurrent = "none" \/ n = 0 \/ (mn.snapValid /\ mn.snapAt = n)
    IN  IF n = Len(mn.at.kv) THEN mn
        ELSE IF n = 0 THEN [mn EXCEPT !.at = Over(<<>>), !.snapValid = FALSE]
        ELSE [Refuse(mn, ~ok, "rewind without its snapshot") EXCEPT
                 !.at = IF Recurrent = "none" THEN Over(cut)
                        ELSE [mn.snap EXCEPT !.kv = cut]]

CanCropRecurrentState == Recurrent \in {"window", "compact"}

\* main_->CropToAccepted: the state after the verify token at position.  A
\* window keeps the last states of the run; a compact one rebuilds its
\* recurrent part from the snapshot and the captured updates.
CropToAccepted(mn, n, position) ==
    LET f    == Len(mn.forward)
        slot == position + Window - f
        kept == SubSeq(mn.forward, 1, position + 1)
        bad  == \/ slot \notin 0..(Window - 1)
                \/ /\ Recurrent = "compact"
                   /\ \/ f < 2 \/ position + 1 >= f
                      \/ position + 1 > Window - 1 \/ ~mn.snapValid
        then == IF bad THEN mn.at ELSE mn.rows[position + 1]
    IN  [Refuse(mn, bad, "crop outside the window") EXCEPT
            !.at = [kv   |-> SubSeq(mn.at.kv, 1, n),
                    conv |-> then.conv,
                    rec  |-> IF Recurrent = "compact" THEN mn.snap.rec \o kept
                             ELSE then.rec]]

-----------------------------------------------------------------------------
(* The head. *)

\* The hidden state a chained draft is paired with: the head's own output.
Own == Over(<<NoToken>>)

Pair(tok, hidden) == [tok |-> tok, hidden |-> hidden]

Pairs(toks, hiddens) == [i \in DOMAIN toks |-> Pair(toks[i], hiddens[i])]

\* mtp_->RewindToLength: refused beyond the current length.
HeadRewind(x, n) ==
    [Refuse(x, n > Len(x.head), "head rewound forwards") EXCEPT
        !.head = SubSeq(@, 1, Min({n, Len(@)}))]

\* The drafts of a round after the head's first run: each is fed back with the
\* head's own hidden state, but for the last one.
ChainDrafts(x, drafts) ==
    [x EXCEPT !.head = @ \o [i \in 1..(Len(drafts) - 1) |-> Pair(drafts[i], Own)]]

-----------------------------------------------------------------------------
(* Rounds. *)

New ==
    [sequence |-> <<>>, emitted |-> <<>>, pending |-> <<>>, next |-> NoToken,
     length |-> 0, primed |-> FALSE, done |-> FALSE,
     main |-> NewMain, head |-> <<>>, headLen |-> 0, slice |-> Own,
     hasDraft |-> FALSE,
     refeedCount |-> -1, refeedLen |-> 0, refeedTokens |-> <<>>, refeedHidden |-> <<>>,
     error |-> "none",
     \* ghosts: the row next was selected from; what was committed after what
     nextFrom |-> Over(<<>>), commits |-> <<>>, prompt |-> 0]

Error(x) == IF x.error # "none" THEN x.error ELSE x.main.error

\* A token enters sequence_; from is the row that selected it.
Commit(x, tok, from) ==
    LET grown == Append(x.sequence, tok) IN
    [x EXCEPT !.sequence = grown,
              !.done = tok = Eos \/ Len(grown) >= MaxLength,
              !.commits = Append(@, [prefix |-> x.sequence, from |-> from])]

\* The accepted drafts, up to the first that ends the generation.
CommitDrafts(x, drafts, rows) ==
    FoldLeft(LAMBDA y, i : IF y.done THEN y ELSE Commit(y, drafts[i], rows[i]),
             x, [i \in DOMAIN drafts |-> i])

\* The next token to commit, selected from row, and the hidden state it will be
\* paired with.
Select(x, tok, row) ==
    [x EXCEPT !.next = tok, !.nextFrom = row, !.slice = row]

\* GenerateStepSingle: one draft.  An accepted draft is fed to the head together
\* with the next token, which already yields the next round's draft.
StepSingle(x, t, d, accept, tok) ==
    LET drafted == IF x.hasDraft THEN x
                   ELSE [x EXCEPT !.head = Append(@, Pair(t, x.slice))]
        main == MainAppend(SnapshotState(x.main), <<t, d>>)
        took == Commit([drafted EXCEPT !.main = main, !.hasDraft = FALSE], d,
                       main.rows[1])
        again == MainAppend(MainRewind(main, x.length), <<t>>)
    IN  IF ~accept
        THEN [Select(drafted, tok, again.rows[1]) EXCEPT
                 !.main = again, !.hasDraft = FALSE, !.length = @ + 1]
        ELSE IF took.done THEN took
        ELSE [took EXCEPT
                 !.head = @ \o Pairs(<<d, tok>>, main.rows),
                 !.next = tok, !.nextFrom = main.rows[2],
                 !.hasDraft = TRUE, !.length = @ + 2]

\* N of a round.
RoundDrafts(x) == Min({NumSpeculativeTokens, MaxLength - x.length - 1})

\* Mutant: the rejected drafts stay in the head.
FirstDraftWithoutRewind(x, t) ==
    IF x.refeedCount > 0
    THEN [x EXCEPT !.head = @ \o Pairs(Append(x.refeedTokens, t), x.refeedHidden)]
    ELSE [x EXCEPT !.head = Append(@, Pair(t, x.slice))]

\* The head's first run of a greedy round: the previous round's drafts leave,
\* its accepted ones come back paired with the main model's hidden states, and
\* t follows, in one run.
FirstDraft(x, t) ==
    LET back == IF x.refeedCount >= 0 THEN HeadRewind(x, x.refeedLen) ELSE x
    IN  IF x.refeedCount > 0
        THEN [back EXCEPT !.head = @ \o Pairs(Append(x.refeedTokens, t), x.refeedHidden)]
        ELSE [back EXCEPT !.head = Append(@, Pair(t, x.slice))]

\* A state that is not cropped from its window needs a snapshot first, and so
\* does one that is rebuilt from it.
BeforeVerify(mn) ==
    IF Recurrent = "window" THEN mn ELSE SnapshotState(mn)

\* The main model after a verify run that accepted a drafts: as it is, cropped,
\* or restored and run again over what was accepted.
SettleMain(x, main, t, drafts, a) ==
    IF a = Len(drafts) THEN main
    ELSE IF CanCropRecurrentState THEN CropToAccepted(main, x.length + a + 1, a)
    ELSE MainAppend(MainRewind(main, x.length), <<t>> \o SubSeq(drafts, 1, a))

\* The row the next token's hidden state comes from.
SettledRow(main, settled, a) ==
    IF CanCropRecurrentState THEN main.rows[a + 1] ELSE settled.rows[a + 1]

\* GenerateStepMulti: the accepted drafts are kept aside for the next round's
\* first run of the head.
StepMulti(x, t, drafts, a, tok) ==
    LET drafted  == ChainDrafts(FirstDraft(x, t), drafts)
        start    == Len(FirstDraft(x, t).head) - 1
        main     == MainAppend(BeforeVerify(x.main), <<t>> \o drafts)
        accepted == SubSeq(drafts, 1, a)
        took     == CommitDrafts([drafted EXCEPT !.main = main, !.refeedCount = -1],
                                 accepted, main.rows)
        settled  == SettleMain(x, main, t, drafts, a)
        row      == SettledRow(main, settled, a)
    IN  IF took.done THEN took
        ELSE [Select(took, tok, row) EXCEPT
                 !.main = settled, !.length = @ + a + 1,
                 !.refeedCount = a, !.refeedLen = start + 1,
                 !.refeedTokens = accepted,
                 !.refeedHidden = IF a > 0 THEN Append(SubSeq(main.rows, 1, a), row)
                                  ELSE <<>>]

\* The head keeps t and gets the accepted drafts again, paired with the main
\* model's hidden states.
Refeed(x, start, accepted, rows) ==
    LET back == HeadRewind(x, start + 1)
    IN  [back EXCEPT !.head = @ \o Pairs(accepted, rows),
                     !.headLen = start + 1 + Len(accepted)]

\* The row of the verify run that a correction, or the bonus, is drawn from.
CorrectionRow(main, a) == main.rows[a + 1]

\* GenerateStepMultiSample: the head is settled at once; a correction was drawn
\* from the verify run, whichever run its hidden state comes from.
StepSample(x, t, drafts, a, tok) ==
    LET drafted  == ChainDrafts([x EXCEPT !.head = Append(@, Pair(t, x.slice))], drafts)
        main     == MainAppend(BeforeVerify(x.main), <<t>> \o drafts)
        accepted == SubSeq(drafts, 1, a)
        took     == CommitDrafts([drafted EXCEPT !.main = main], accepted, main.rows)
        settled  == SettleMain(x, main, t, drafts, a)
    IN  IF took.done THEN took
        ELSE [Select(Refeed(took, x.headLen, accepted, main.rows), tok,
                     SettledRow(main, settled, a)) EXCEPT
                 !.main = settled, !.length = @ + a + 1,
                 !.nextFrom = CorrectionRow(main, a)]

\* RunRound: commit the token predicted last, then draft and verify.
Rounds(x) ==
    LET t == x.next
        y == Commit([x EXCEPT !.commits = <<>>], t, x.nextFrom)
        n == RoundDrafts(x)
    IN  IF y.done THEN {y}
        ELSE CASE Mode = "single" ->
                    {StepSingle(y, t, d, accept, tok) :
                        d \in Vocab, accept \in BOOLEAN, tok \in Vocab}
             [] Mode = "multi" ->
                    {StepMulti(y, t, drafts, a, tok) :
                        drafts \in [1..n -> Vocab], a \in 0..n, tok \in Vocab}
             [] Mode = "sample" ->
                    {StepSample(y, t, drafts, a, tok) :
                        drafts \in [1..n -> Vocab], a \in 0..n, tok \in Vocab}

-----------------------------------------------------------------------------
(* The calls. *)

Init == config \in Configurations /\ s = New /\ requests = 0

\* The prompt, in chunks; the last chunk's last row selects the first token.
Prefill(mn, toks) ==
    LET size == IF Chunk > 0 /\ Len(toks) > Chunk THEN Chunk ELSE Len(toks)
        count == (Len(toks) + size - 1) \div size
        part(i) == SubSeq(toks, (i - 1) * size + 1, Min({i * size, Len(toks)}))
    IN  FoldLeft(LAMBDA x, i : MainAppend(x, part(i)), mn, [i \in 1..count |-> i])

AppendTokens(toks, tok) ==
    LET main == Prefill(s.main, toks)
        full == Len(toks) >= MaxLength
        x == [s EXCEPT !.main = main, !.length = Len(toks), !.sequence = toks,
                       !.emitted = toks, !.done = full, !.primed = TRUE,
                       !.prompt = Len(toks)]
    IN
    /\ Error(s) = "none"
    /\ ~s.primed
    /\ requests < MaxRequests
    /\ s' = IF full THEN x
            ELSE [Select(x, tok, Last(main.rows)) EXCEPT
                     !.hasDraft = FALSE, !.refeedCount = -1]
    /\ requests' = requests + 1

\* One token becomes visible.
Emit(x) ==
    IF x.pending = <<>> THEN x
    ELSE [x EXCEPT !.emitted = Append(@, Head(x.pending)), !.pending = Tail(@)]

GenerateNextToken ==
    /\ Error(s) = "none"
    /\ s.primed
    /\ IF s.pending = <<>> /\ ~s.done
       THEN \E x \in Rounds(s) :
               s' = Emit([x EXCEPT !.pending =
                             SubSeq(x.sequence, Len(s.sequence) + 1, Len(x.sequence))])
       ELSE s.pending # <<>> /\ s' = Emit(s)
    /\ UNCHANGED requests

\* Both generators go back to an empty sequence; buffers whose contents are
\* never read again are dropped.
ResetState(x) ==
    [New EXCEPT !.main = [MainRewind(x.main, 0) EXCEPT !.forward = <<>>, !.rows = <<>>,
                                                       !.snap = Over(<<>>), !.snapAt = 0]]

Reset ==
    /\ Error(s) = "none"
    /\ s.primed
    /\ s' = ResetState(s)
    /\ UNCHANGED requests

Call ==
    \/ \E toks \in Prompts, tok \in Vocab : AppendTokens(toks, tok)
    \/ GenerateNextToken
    \/ Reset

Next == Call /\ UNCHANGED config

Spec == Init /\ [][Next]_vars

-----------------------------------------------------------------------------
(* Properties. *)

IsDone == s.done /\ s.pending = <<>>

\* The next call will run a round.
Ready == s.primed /\ ~s.done /\ Error(s) = "none"

\* Lookahead is exactly what is committed and not yet visible, and nothing is
\* buffered beyond the first token that ends the generation.
TypeOK ==
    /\ s.sequence = s.emitted \o s.pending
    /\ Len(s.sequence) <= MaxLength
    /\ \A i \in 1..(Len(s.sequence) - 1) : i > s.prompt => s.sequence[i] # Eos
    /\ s.refeedCount \in -1..NumSpeculativeTokens
    /\ requests \in 0..MaxRequests

\* Every committed token was selected from a row computed over exactly the
\* sequence before it: attention rows, convolution and recurrent state alike.
TokensComeFromTheirPrefix ==
    \A i \in DOMAIN s.commits : s.commits[i].from = Over(s.commits[i].prefix)

\* Between rounds the main model holds exactly the committed tokens, so that a
\* partly rejected verify run leaves nothing of the rejected drafts behind.
MainFollowsSequence ==
    Ready => s.main.at = Over(s.sequence) /\ s.length = Len(s.sequence)

\* The rows the head will have read when it makes the next draft.
HeadHistory ==
    IF s.hasDraft THEN s.head
    ELSE LET kept == IF s.refeedCount >= 0 THEN SubSeq(s.head, 1, s.refeedLen) ELSE s.head
         IN  kept \o (IF s.refeedCount > 0
                      THEN Pairs(Append(s.refeedTokens, s.next), s.refeedHidden)
                      ELSE <<Pair(s.next, s.slice)>>)

\* The head drafts from every generated token, each paired with the main
\* model's hidden state over the tokens before it; no draft's own hidden state
\* stays behind.
HeadFollowsSequence ==
    Ready =>
        LET generated == SubSeq(Append(s.sequence, s.next), s.prompt + 1, s.length + 1)
        IN  HeadHistory =
                [i \in DOMAIN generated |->
                    Pair(generated[i], Over(SubSeq(s.sequence, 1, s.prompt + i - 1)))]

\* No run goes over max_length, no rewind misses its snapshot, no crop its
\* window: the inner generators never refuse what a round asks of them.
NeverRefused == Error(s) = "none"

\* To its caller the generator adds one token a call, up to an end-of-sequence
\* token, which it shows, or max_length.
Plain == INSTANCE PlainGenerator WITH
    max_length <- MaxLength, guided <- FALSE, appends <- requests,
    seq <- SelectSeq(s.emitted, LAMBDA t : t # Eos),
    done <- IsDone /\ Len(s.emitted) > s.prompt,
    boundary <- <<>>

ImplementsPlain == Plain!Spec
=============================================================================
