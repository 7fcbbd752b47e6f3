---------------------------- MODULE PlainGenerator ----------------------------
(***************************************************************************)
(* What a generator promises its caller whichever decoding strategy it     *)
(* uses: one sequence, extended by the caller's appends and by one token   *)
(* per GenerateNextToken, until an end-of-sequence token or max_length     *)
(* ends the search.  Rounds, buffers and caches are invisible here.        *)
(***************************************************************************)
EXTENDS Sequences, Naturals, SequencesExt

CONSTANT Tokens   \* the ordinary tokens; an end-of-sequence token is never kept

VARIABLES
    max_length,   \* search.max_length, fixed when the generator is created
    guided,       \* whether a grammar may force tokens, fixed as well
    seq,          \* the public sequence
    done,         \* search_->IsDone()
    boundary,     \* <<t>> when a rewind left the dropped token t to be replayed
    appends       \* how often the caller has appended: tells its tokens from others

vars == <<max_length, guided, seq, done, boundary, appends>>

Init ==
    /\ max_length \in Nat /\ guided \in BOOLEAN
    /\ seq = <<>>
    /\ done = FALSE
    /\ boundary = <<>>
    /\ appends = 0

\* Tokens a call adds behind base; only a grammar makes it add more than wanted.
Extends(base, wanted) ==
    /\ IsPrefix(base, seq')
    /\ seq' \in Seq(Tokens) /\ Len(seq') <= max_length
    /\ Len(seq') <= Len(base) + wanted \/ guided

\* The caller's n tokens are added; a token waiting to be replayed is dropped.
AppendTokens(n) ==
    /\ Extends(seq, n) /\ Len(seq') >= Len(seq) + n
    /\ done' = FALSE
    /\ boundary' = <<>>
    /\ appends' = appends + 1

\* One new token, or the end.  The boundary token a rewind left comes back
\* first, unless the whole sequence is run again for other RoPE factors.
Generate ==
    /\ ~done
    /\ Len(seq) \in 1..(max_length - 1)
    /\ boundary' = <<>>
    /\ \E base \in {seq, seq \o boundary} :
          /\ Extends(base, 1)
          /\ seq' = base \/ Len(seq') = max_length => done'
          /\ done' => seq' = base \/ Len(seq') = max_length \/ guided
    /\ UNCHANGED appends

\* Reading or replacing the logits may replay the boundary token.
Inspect ==
    /\ seq' = seq \o boundary
    /\ boundary' = <<>>
    /\ UNCHANGED <<done, appends>>

RewindTo(n) ==
    /\ n < Len(seq)
    /\ seq' = SubSeq(seq, 1, n)
    /\ done' = FALSE
    /\ boundary' = IF n > 0 THEN <<seq[n + 1]>> ELSE <<>>
    /\ UNCHANGED appends

Call ==
    \/ Generate
    \/ Inspect
    \/ \E n \in 0..(max_length - 1) : RewindTo(n)
    \/ \E n \in 1..max_length : AppendTokens(n)

Next == Call /\ UNCHANGED <<max_length, guided>>

Spec == Init /\ [][Next]_vars
=============================================================================
