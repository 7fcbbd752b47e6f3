----------------------------- MODULE BlockLedger -----------------------------
(***************************************************************************)
(* Who owns the blocks of the pool: what the block pool, the reservations  *)
(* and the prefix index promise each other, without tokens, positions or   *)
(* scheduling. PagedCache implements it.                                   *)
(*                                                                         *)
(*   ref[b]     the reference count of block b, 0 when it is free          *)
(*   held[r]    the blocks in the table of request r                       *)
(*   claimed[r] the blocks an open step has adopted or taken for r         *)
(*   indexed    the blocks the prefix index can hand out again             *)
(*                                                                         *)
(* The count is all the pool itself knows; the other three variables are   *)
(* the parties that count on it.                                           *)
(***************************************************************************)
EXTENDS Integers, FiniteSets

CONSTANTS Blocks, Requests

ASSUME FiniteAssumption == IsFiniteSet(Blocks) /\ IsFiniteSet(Requests)

VARIABLES ref, held, claimed, indexed

vars == <<ref, held, claimed, indexed>>

NoBlocks == [r \in Requests |-> {}]
One(condition) == IF condition THEN 1 ELSE 0

\* The requests that refer to a block through one of the two functions.
Users(f, b) == {r \in Requests : b \in f[r]}

Init ==
    /\ ref = [b \in Blocks |-> 0]
    /\ held = NoBlocks
    /\ claimed = NoBlocks
    /\ indexed = {}

\* An index that gives up blocks other parties still refer to.
WholeIndex == indexed

\* Blocks only the index refers to: it may give them up at any time.
Reclaimable == {b \in indexed : ref[b] = 1}

\* A reservation that also takes blocks with a single reference.
TakeableWhenUnshared == {b \in Blocks : ref[b] <= 1}

\* What a reservation may take: blocks that are free, or that it has just made
\* the index give up.
Takeable == {b \in Blocks : ref[b] = 0} \cup (indexed \ indexed')

\* A step adopts blocks that stay indexed and takes blocks for writing, each
\* for one request only. The index gives up what the taken blocks need.
Reserve ==
    /\ claimed = NoBlocks
    /\ claimed' \in [Requests -> SUBSET Blocks]
    /\ indexed' \in SUBSET indexed
    /\ indexed \ indexed' \subseteq Reclaimable
    /\ \A r \in Requests : claimed'[r] \subseteq indexed' \cup Takeable
    /\ \A r \in Requests : claimed'[r] \cap held[r] = {}
    /\ \A r, s \in Requests :
            r # s => claimed'[r] \cap claimed'[s] \subseteq indexed'
    /\ ref' = [b \in Blocks |->
            (IF b \in indexed \ indexed' THEN 0 ELSE ref[b])
            + Cardinality(Users(claimed', b))]
    /\ UNCHANGED held

\* A rollback that forgets the references taken on adopted blocks.
AbortTakenOnly ==
    /\ claimed # NoBlocks
    /\ ref' = [b \in Blocks |-> 
            IF b \in indexed THEN ref[b]
            ELSE ref[b] - Cardinality(Users(claimed, b))]
    /\ claimed' = NoBlocks
    /\ UNCHANGED <<held, indexed>>

\* The step is rolled back: every claim is released.
Abort ==
    /\ claimed # NoBlocks
    /\ ref' = [b \in Blocks |-> ref[b] - Cardinality(Users(claimed, b))]
    /\ claimed' = NoBlocks
    /\ UNCHANGED <<held, indexed>>

\* The step is committed: claims move into the tables without a change of the
\* count, and the index takes a reference of its own on the full blocks it
\* starts to share, giving up others where it has no room.
Commit ==
    /\ held' = [r \in Requests |-> held[r] \cup claimed[r]]
    /\ claimed' = NoBlocks
    /\ indexed' \in SUBSET Blocks
    /\ indexed \ indexed' \subseteq Reclaimable
    /\ indexed' \ indexed \subseteq UNION {held'[r] : r \in Requests}
    /\ ref' = [b \in Blocks |->
            IF b \in indexed \ indexed' THEN 0
            ELSE ref[b] + One(b \in indexed' \ indexed)]

\* A table gives up its blocks: the request is closed, rewound or failed.
Release(r) ==
    /\ claimed = NoBlocks
    /\ held[r] # {}
    /\ ref' = [b \in Blocks |-> ref[b] - One(b \in held[r])]
    /\ held' = [held EXCEPT ![r] = {}]
    /\ UNCHANGED <<claimed, indexed>>

Next ==
    \/ Reserve
    \/ Abort
    \/ Commit
    \/ \E r \in Requests : Release(r)

Spec == Init /\ [][Next]_vars

---------------------------------------------------------------------------
(* Properties *)

\* Counts are natural numbers and every party refers to blocks of the pool.
TypeOK ==
    /\ ref \in [Blocks -> Nat]
    /\ held \in [Requests -> SUBSET Blocks]
    /\ claimed \in [Requests -> SUBSET Blocks]
    /\ indexed \in SUBSET Blocks

\* The count of a block is exactly the number of its references: releasing a
\* table, rolling a step back and evicting an entry, in any order, neither
\* leak a block nor free one that is in use.
CountsAreExact ==
    \A b \in Blocks :
        ref[b] = Cardinality(Users(held, b)) + Cardinality(Users(claimed, b))
                 + One(b \in indexed)

\* A block two requests can see, through a table or a claim, is one the index
\* shares. All other blocks have one writer.
SharedOnlyThroughIndex ==
    \A b \in Blocks \ indexed : \A r, s \in Requests :
        (b \in held[r] \cup claimed[r] /\ b \in held[s] \cup claimed[s]) => r = s

\* A step never claims a block for a request that already holds it.
ClaimsAreNew == \A r \in Requests : held[r] \cap claimed[r] = {}

\* The four together are inductive.
LedgerInv == TypeOK /\ CountsAreExact /\ SharedOnlyThroughIndex /\ ClaimsAreNew

\* The index only ever gives up a block that no table lists and no open step
\* has claimed, although all it looks at is the count.
EvictedBlocksAreUnused ==
    [][\A b \in indexed \ indexed' :
            Users(held, b) = {} /\ Users(claimed, b) = {}]_vars
=============================================================================
