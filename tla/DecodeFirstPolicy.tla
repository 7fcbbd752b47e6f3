------------------------- MODULE DecodeFirstPolicy -------------------------
(***************************************************************************)
(* The decode-first scheduling policy: the order in which candidates are   *)
(* offered to the cache, how many of them one step may hold, and how the   *)
(* step's token budget is shared among the ones that were selected.        *)
(*                                                                         *)
(* A candidate is a record                                                 *)
(*   prefill : it still has prompt tokens to push through                  *)
(*   pending : tokens it has not processed (at least one)                  *)
(*   cap     : its prefill chunk limit, 0 when it has none                 *)
(*   extra   : draft tokens a decode would like verified in this step      *)
(***************************************************************************)
EXTENDS Integers, Sequences, SequencesExt

\* The elements of a sequence that are in a set, in their order.
Keep(s, S) ==
    FoldLeft(LAMBDA kept, x : IF x \in S THEN Append(kept, x) ELSE kept, <<>>, s)

Smaller(a, b) == IF a <= b THEN a ELSE b

\* Decodes first, prefills after, each class in its original order.
DecodeFirstCandidateOrder(candidates) ==
    LET indices == [i \in 1 .. Len(candidates) |-> i]
        prefills == {i \in 1 .. Len(candidates) : candidates[i].prefill}
    IN  Keep(indices, (1 .. Len(candidates)) \ prefills) \o Keep(indices, prefills)

DecodeFirstProvisionalRequestLimit(maxScheduledTokens, maxBatchSize) ==
    Smaller(maxScheduledTokens, maxBatchSize)

\* What a candidate could use beyond the one token every selected request gets.
ExtraTokensWanted(candidate) ==
    IF ~candidate.prefill THEN candidate.extra
    ELSE (IF candidate.cap # 0 THEN Smaller(candidate.pending, candidate.cap)
          ELSE candidate.pending) - 1

\* A budget that forgets the token each selected request already has.
WholeBudgetIsSpare(candidates, maxScheduledTokens) == maxScheduledTokens

\* The tokens left once every selected request has its one token.
SpareTokens(candidates, maxScheduledTokens) ==
    maxScheduledTokens - Len(candidates)

\* The order in which the spare tokens are handed out: the two passes of the
\* function, over the decodes and then over the prefills.
GrantOrder(candidates) == DecodeFirstCandidateOrder(candidates)

\* remaining[k] is the budget left after the first k candidates of the order.
AllocateDecodeFirstTokenBudget(candidates, maxScheduledTokens) ==
    LET order == GrantOrder(candidates)
        Granted(k, left) == Smaller(ExtraTokensWanted(candidates[order[k]]), left)
        remaining[k \in 0 .. Len(candidates)] ==
            IF k = 0 THEN SpareTokens(candidates, maxScheduledTokens)
            ELSE remaining[k - 1] - Granted(k, remaining[k - 1])
        rank == [i \in 1 .. Len(candidates) |->
                    CHOOSE k \in 1 .. Len(candidates) : order[k] = i]
    IN  [i \in 1 .. Len(candidates) |->
            1 + Granted(rank[i], remaining[rank[i] - 1])]
=============================================================================
