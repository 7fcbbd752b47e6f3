---------------------------- MODULE MCPagedCache ----------------------------
(***************************************************************************)
(* Small instances of PagedCache. Tokens are numbers, so that prompts can  *)
(* be written down; tokens above 2 are the ones whose blocks collide.      *)
(***************************************************************************)
EXTENDS PagedCache

Basic ==
    [tokens |-> {1, 2}, prompts |-> {}, maxIndexed |-> 0, maxBatch |-> 2,
     maxScheduledTokens |-> 3, prefillChunk |-> 0, maxSession |-> 5,
     maxDrafts |-> 0, maxTurns |-> 1, maxOpen |-> 2]

\* Two prompts that share one full block and differ in the next token.
Sharing == [Basic EXCEPT !.prompts = {<<1, 1, 1>>, <<1, 1, 2>>},
                         !.maxIndexed = 2, !.prefillChunk = 2]
\* One request that begins turns, rewinds them and verifies drafts.
Session == [Basic EXCEPT !.prompts = {<<1>>, <<2>>}, !.maxIndexed = 1,
                         !.prefillChunk = 2, !.maxDrafts = 1, !.maxTurns = 2,
                         !.maxOpen = 1]
\* Two requests that draft in their own block and into the next one, without
\* prefix caching.
Drafting == [Basic EXCEPT !.prompts = {<<1>>, <<1, 1, 1>>}, !.maxSession = 4, !.maxDrafts = 1]
\* Chains whose blocks have one hash, and agree in the second block's tokens
\* but not in what precedes them.
Colliding == [Basic EXCEPT !.tokens = {3, 4}, !.maxIndexed = 3,
                           !.prompts = {<<3, 3, 3, 3, 3>>, <<4, 4, 3, 3, 3>>},
                           !.maxSession = 6, !.maxBatch = 1]
EveryConfiguration == {Sharing, Session, Drafting, Colliding}

\* Prompts of one block and of two, over a budget of one token.
Trickle == {[Basic EXCEPT !.tokens = {1}, !.prompts = {<<1>>, <<1, 1, 1>>},
                          !.maxScheduledTokens = 1, !.maxSession = 4]}

\* A chain of two blocks and an unrelated block.
TailFirst == {[Basic EXCEPT !.prompts = {<<1, 1>>, <<2>>}, !.maxIndexed = 3,
                       !.maxScheduledTokens = 2, !.maxSession = 3]}

\* A hash that cannot tell any two blocks of the colliding tokens apart.
SomeHash(chunk) == IF Head(chunk) > 2 THEN 0 ELSE chunk

\* Requests are interchangeable.
RequestSymmetry == Permutations(Requests)
=============================================================================
