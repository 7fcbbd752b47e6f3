-------------------------- MODULE BlockLedgerProofs --------------------------
(***************************************************************************)
(* LedgerInv is an invariant of BlockLedger for every set of blocks and    *)
(* every set of requests, and with it exact counts, exclusive ownership    *)
(* and safe eviction.                                                      *)
(***************************************************************************)
EXTENDS BlockLedger, FiniteSetTheorems, TLAPS

\* Users of a block are finitely many, and there are none exactly when the
\* count is zero.
LEMMA UsersFinite ==
    ASSUME NEW f, NEW b
    PROVE  /\ IsFiniteSet(Users(f, b))
           /\ Cardinality(Users(f, b)) \in Nat
           /\ Cardinality(Users(f, b)) = 0 <=> Users(f, b) = {}
<1>1. Users(f, b) \in SUBSET Requests
  BY DEF Users
<1>2. IsFiniteSet(Users(f, b))
  BY <1>1, FS_Subset, FiniteAssumption
<1> QED
  BY <1>2, FS_CardinalityType, FS_EmptySet

\* Nobody uses a block through an empty table.
LEMMA NoUsers ==
    ASSUME NEW b
    PROVE  Users(NoBlocks, b) = {} /\ Cardinality(Users(NoBlocks, b)) = 0
<1>1. Users(NoBlocks, b) = {}
  BY DEF Users, NoBlocks
<1> QED
  BY <1>1, FS_EmptySet

\* When the claims of a step move into the tables, the users of a block add
\* up: no request is counted twice.
LEMMA UsersAddUp ==
    ASSUME NEW f, NEW g, NEW h, NEW b,
           \A r \in Requests : f[r] \cap g[r] = {},
           \A r \in Requests : h[r] = f[r] \cup g[r]
    PROVE  Cardinality(Users(h, b))
             = Cardinality(Users(f, b)) + Cardinality(Users(g, b))
<1>1. Users(h, b) = Users(f, b) \cup Users(g, b)
  BY DEF Users
<1>2. Users(f, b) \cap Users(g, b) = {}
  BY DEF Users
<1>3. /\ IsFiniteSet(Users(f, b)) /\ IsFiniteSet(Users(g, b))
      /\ Cardinality(Users(f, b)) \in Nat /\ Cardinality(Users(g, b)) \in Nat
  BY UsersFinite
<1>4. Cardinality(Users(f, b) \cup Users(g, b))
        = Cardinality(Users(f, b)) + Cardinality(Users(g, b))
          - Cardinality(Users(f, b) \cap Users(g, b))
  BY <1>3, FS_Union
<1> QED
  BY <1>1, <1>2, <1>3, <1>4, FS_EmptySet

\* Emptying the table of r takes exactly r away from the users of a block.
LEMMA UsersWithout ==
    ASSUME NEW f, NEW r \in Requests, NEW h, NEW b,
           h[r] = {},
           \A s \in Requests \ {r} : h[s] = f[s]
    PROVE  Cardinality(Users(h, b))
             = Cardinality(Users(f, b)) - One(b \in f[r])
<1>1. Users(h, b) = Users(f, b) \ {r}
  BY DEF Users
<1>2. r \in Users(f, b) <=> b \in f[r]
  BY DEF Users
<1>3. IsFiniteSet(Users(f, b)) /\ Cardinality(Users(f, b)) \in Nat
  BY UsersFinite
<1>4. Cardinality(Users(f, b) \ {r}) =
        IF r \in Users(f, b) THEN Cardinality(Users(f, b)) - 1
        ELSE Cardinality(Users(f, b))
  BY <1>3, FS_RemoveElement
<1> QED
  BY <1>1, <1>2, <1>3, <1>4 DEF One

\* A reclaimable block has no user: its one reference is the index's.
LEMMA ReclaimableUnused ==
    ASSUME LedgerInv, NEW b \in Reclaimable
    PROVE  Users(held, b) = {} /\ Users(claimed, b) = {}
<1>1. b \in Blocks /\ b \in indexed /\ ref[b] = 1
  BY DEF Reclaimable, LedgerInv, TypeOK
<1>2. 1 = Cardinality(Users(held, b)) + Cardinality(Users(claimed, b)) + 1
  BY <1>1 DEF LedgerInv, CountsAreExact, One
<1>3. Cardinality(Users(held, b)) = 0 /\ Cardinality(Users(claimed, b)) = 0
  BY <1>2, UsersFinite
<1> QED
  BY <1>3, UsersFinite

\* A free block has no user and is not indexed.
LEMMA FreeUnused ==
    ASSUME LedgerInv, NEW b \in Blocks, ref[b] = 0
    PROVE  Users(held, b) = {} /\ Users(claimed, b) = {} /\ b \notin indexed
<1>1. 0 = Cardinality(Users(held, b)) + Cardinality(Users(claimed, b))
          + One(b \in indexed)
  BY DEF LedgerInv, CountsAreExact
<1>2. Cardinality(Users(held, b)) = 0 /\ Cardinality(Users(claimed, b)) = 0
      /\ b \notin indexed
  BY <1>1, UsersFinite DEF One
<1> QED
  BY <1>2, UsersFinite

\* A new pool, with nobody referring to any block, satisfies the invariant.
LEMMA LedgerInit == Init => LedgerInv
<1> SUFFICES ASSUME Init PROVE LedgerInv
  OBVIOUS
<1>1. TypeOK
  BY DEF Init, NoBlocks, TypeOK
<1>2. CountsAreExact
  <2> SUFFICES ASSUME NEW b \in Blocks
               PROVE  ref[b] = Cardinality(Users(held, b))
                        + Cardinality(Users(claimed, b)) + One(b \in indexed)
    BY DEF CountsAreExact
  <2>1. Cardinality(Users(held, b)) = 0 /\ Cardinality(Users(claimed, b)) = 0
    BY NoUsers DEF Init
  <2>2. ref[b] = 0 /\ One(b \in indexed) = 0
    BY DEF Init, One
  <2> QED
    BY <2>1, <2>2
<1>3. SharedOnlyThroughIndex /\ ClaimsAreNew
  BY DEF Init, NoBlocks, SharedOnlyThroughIndex, ClaimsAreNew
<1> QED
  BY <1>1, <1>2, <1>3 DEF LedgerInv

\* A reservation counts the references it takes, and takes for writing only
\* blocks that nobody refers to.
LEMMA ReservePreserves ==
    ASSUME LedgerInv, Reserve
    PROVE  LedgerInv'
<1>1. TypeOK'
  <2>1. \A b \in Blocks : Cardinality(Users(claimed', b)) \in Nat
    BY UsersFinite
  <2>2. ref' \in [Blocks -> Nat]
    BY <2>1 DEF Reserve, LedgerInv, TypeOK
  <2> QED
    BY <2>2 DEF Reserve, LedgerInv, TypeOK
<1>2. ASSUME NEW b \in Blocks, b \in indexed \ indexed'
      PROVE  b \in Reclaimable /\ Users(held, b) = {}
  BY <1>2, ReclaimableUnused DEF Reserve
<1>3. CountsAreExact'
  <2> SUFFICES ASSUME NEW b \in Blocks
               PROVE  ref'[b] = Cardinality(Users(held', b))
                        + Cardinality(Users(claimed', b)) + One(b \in indexed')
    BY DEF CountsAreExact
  <2>1. held' = held /\ indexed' \subseteq indexed
    BY DEF Reserve
  <2>2. /\ Cardinality(Users(held, b)) \in Nat
        /\ Cardinality(Users(claimed', b)) \in Nat
    BY UsersFinite
  <2>3. ref[b] = Cardinality(Users(held, b)) + One(b \in indexed)
    <3>1. Cardinality(Users(claimed, b)) = 0
      BY NoUsers DEF Reserve
    <3> QED
      BY <2>2, <3>1 DEF LedgerInv, CountsAreExact, One
  <2>4. CASE b \in indexed \ indexed'
    <3>1. Cardinality(Users(held, b)) = 0
      BY <1>2, <2>4, FS_EmptySet
    <3>2. ref'[b] = 0 + Cardinality(Users(claimed', b))
      BY <2>4 DEF Reserve
    <3> QED
      BY <2>1, <2>2, <2>4, <3>1, <3>2 DEF One
  <2>5. CASE b \notin indexed \ indexed'
    <3>1. ref'[b] = ref[b] + Cardinality(Users(claimed', b))
      BY <2>5 DEF Reserve
    <3>2. One(b \in indexed) = One(b \in indexed')
      BY <2>1, <2>5 DEF One
    <3> QED
      BY <2>1, <2>2, <2>3, <3>1, <3>2 DEF One
  <2> QED
    BY <2>4, <2>5
<1>4. SharedOnlyThroughIndex'
  <2> SUFFICES ASSUME NEW b \in Blocks, b \notin indexed',
                      NEW r \in Requests, NEW s \in Requests,
                      b \in held[r] \cup claimed'[r],
                      b \in held[s] \cup claimed'[s]
               PROVE  r = s
    BY DEF SharedOnlyThroughIndex, Reserve
  <2>1. CASE b \in indexed
    <3>1. Users(held, b) = {}
      BY <1>2, <2>1
    <3>2. b \in claimed'[r] /\ b \in claimed'[s]
      BY <3>1 DEF Users
    <3> QED
      BY <3>2 DEF Reserve
  <2>2. CASE b \notin indexed
    <3>1. ASSUME NEW q \in Requests, b \in claimed'[q]
          PROVE  Users(held, b) = {}
      <4>1. b \in Takeable
        BY <3>1 DEF Reserve
      <4>2. ref[b] = 0
        BY <2>2, <4>1 DEF Takeable
      <4> QED
        BY <4>2, FreeUnused
    <3>2. CASE b \in claimed'[r] \/ b \in claimed'[s]
      <4>1. Users(held, b) = {}
        BY <3>1, <3>2
      <4>2. b \in claimed'[r] /\ b \in claimed'[s]
        BY <4>1 DEF Users
      <4> QED
        BY <4>2 DEF Reserve
    <3>3. CASE b \notin claimed'[r] /\ b \notin claimed'[s]
      BY <2>2, <3>3 DEF LedgerInv, SharedOnlyThroughIndex
    <3> QED
      BY <3>2, <3>3
  <2> QED
    BY <2>1, <2>2
<1>5. ClaimsAreNew'
  BY DEF Reserve, ClaimsAreNew
<1> QED
  BY <1>1, <1>3, <1>4, <1>5 DEF LedgerInv

\* A rollback releases exactly the references the reservation took.
LEMMA AbortPreserves ==
    ASSUME LedgerInv, Abort
    PROVE  LedgerInv'
<1>1. \A b \in Blocks :
        /\ Cardinality(Users(held, b)) \in Nat
        /\ Cardinality(Users(claimed, b)) \in Nat
        /\ Cardinality(Users(claimed', b)) = 0
  BY UsersFinite, NoUsers DEF Abort
<1>2. \A b \in Blocks :
        ref'[b] = Cardinality(Users(held, b)) + One(b \in indexed)
  BY <1>1 DEF Abort, LedgerInv, CountsAreExact, One
<1>3. TypeOK'
  <2>1. ref' \in [Blocks -> Nat]
    BY <1>1, <1>2 DEF Abort, One
  <2> QED
    BY <2>1 DEF Abort, NoBlocks, LedgerInv, TypeOK
<1>4. CountsAreExact'
  <2>1. held' = held /\ indexed' = indexed
    BY DEF Abort
  <2> QED
    BY <1>1, <1>2, <2>1 DEF CountsAreExact, One
<1>5. SharedOnlyThroughIndex' /\ ClaimsAreNew'
  BY DEF Abort, NoBlocks, LedgerInv, SharedOnlyThroughIndex, ClaimsAreNew
<1> QED
  BY <1>3, <1>4, <1>5 DEF LedgerInv

\* A commit moves claims into tables and counts the references of the index.
LEMMA CommitPreserves ==
    ASSUME LedgerInv, Commit
    PROVE  LedgerInv'
<1>1. TypeOK'
  <2>1. ref' \in [Blocks -> Nat]
    BY DEF Commit, LedgerInv, TypeOK, One
  <2> QED
    BY <2>1 DEF Commit, NoBlocks, LedgerInv, TypeOK
<1>2. ASSUME NEW b \in Blocks, b \in indexed \ indexed'
      PROVE  Users(held, b) = {} /\ Users(claimed, b) = {}
  BY <1>2, ReclaimableUnused DEF Commit
<1>3. CountsAreExact'
  <2> SUFFICES ASSUME NEW b \in Blocks
               PROVE  ref'[b] = Cardinality(Users(held', b))
                        + Cardinality(Users(claimed', b)) + One(b \in indexed')
    BY DEF CountsAreExact
  <2>1. Cardinality(Users(claimed', b)) = 0
    BY NoUsers DEF Commit
  <2>2. /\ Cardinality(Users(held, b)) \in Nat
        /\ Cardinality(Users(claimed, b)) \in Nat
    BY UsersFinite
  <2>3. Cardinality(Users(held', b))
          = Cardinality(Users(held, b)) + Cardinality(Users(claimed, b))
    <3>1. /\ \A r \in Requests : held[r] \cap claimed[r] = {}
          /\ \A r \in Requests : held'[r] = held[r] \cup claimed[r]
      BY DEF Commit, LedgerInv, ClaimsAreNew
    <3> QED
      BY <3>1, UsersAddUp
  <2>4. CASE b \in indexed \ indexed'
    <3>1. /\ Cardinality(Users(held, b)) = 0
          /\ Cardinality(Users(claimed, b)) = 0
      BY <1>2, <2>4, FS_EmptySet
    <3>2. ref'[b] = 0
      BY <2>4 DEF Commit
    <3> QED
      BY <2>1, <2>3, <2>4, <3>1, <3>2 DEF One
  <2>5. CASE b \notin indexed \ indexed'
    <3>1. ref'[b] = ref[b] + One(b \in indexed' \ indexed)
      BY <2>5 DEF Commit
    <3>2. ref[b] = Cardinality(Users(held, b)) + Cardinality(Users(claimed, b))
                   + One(b \in indexed)
      BY DEF LedgerInv, CountsAreExact
    <3> QED
      BY <2>1, <2>2, <2>3, <2>5, <3>1, <3>2 DEF One
  <2> QED
    BY <2>4, <2>5
<1>4. SharedOnlyThroughIndex'
  <2> SUFFICES ASSUME NEW b \in Blocks, b \notin indexed',
                      NEW r \in Requests, NEW s \in Requests,
                      b \in held[r] \cup claimed[r],
                      b \in held[s] \cup claimed[s]
               PROVE  r = s
    BY DEF SharedOnlyThroughIndex, Commit, NoBlocks
  <2>1. b \notin indexed
    BY <1>2 DEF Users
  <2> QED
    BY <2>1 DEF LedgerInv, SharedOnlyThroughIndex
<1>5. ClaimsAreNew'
  BY DEF Commit, NoBlocks, ClaimsAreNew
<1> QED
  BY <1>1, <1>3, <1>4, <1>5 DEF LedgerInv

\* Releasing a table returns one reference of each of its blocks.
LEMMA ReleasePreserves ==
    ASSUME LedgerInv, NEW r \in Requests, Release(r)
    PROVE  LedgerInv'
<1>1. /\ held'[r] = {}
      /\ \A s \in Requests \ {r} : held'[s] = held[s]
      /\ held' \in [Requests -> SUBSET Blocks]
      /\ claimed' = claimed /\ indexed' = indexed
      /\ ref' = [b \in Blocks |-> ref[b] - One(b \in held[r])]
  BY DEF Release, LedgerInv, TypeOK
<1>2. ASSUME NEW b \in Blocks
      PROVE  /\ Cardinality(Users(held', b))
                   = Cardinality(Users(held, b)) - One(b \in held[r])
             /\ Cardinality(Users(held, b)) \in Nat
             /\ Cardinality(Users(held', b)) \in Nat
             /\ Cardinality(Users(claimed, b)) \in Nat
  BY <1>1, UsersWithout, UsersFinite
<1>3. \A b \in Blocks :
        ref'[b] = Cardinality(Users(held', b)) + Cardinality(Users(claimed, b))
                  + One(b \in indexed)
  BY <1>1, <1>2 DEF LedgerInv, CountsAreExact, One
<1>4. TypeOK'
  <2>1. ref' \in [Blocks -> Nat]
    BY <1>1, <1>2, <1>3 DEF One
  <2> QED
    BY <1>1, <2>1 DEF LedgerInv, TypeOK
<1>5. CountsAreExact'
  BY <1>1, <1>3 DEF CountsAreExact
<1>6. SharedOnlyThroughIndex' /\ ClaimsAreNew'
  BY <1>1 DEF LedgerInv, SharedOnlyThroughIndex, ClaimsAreNew
<1> QED
  BY <1>4, <1>5, <1>6 DEF LedgerInv

\* LedgerInv holds in every state, whatever the blocks and the requests: the
\* reference counts of block.cpp never leak a block or free one in use.
THEOREM LedgerInvariance == Spec => []LedgerInv
<1>1. LedgerInv /\ [Next]_vars => LedgerInv'
  <2> SUFFICES ASSUME LedgerInv, [Next]_vars PROVE LedgerInv'
    OBVIOUS
  <2>1. CASE Reserve
    BY <2>1, ReservePreserves
  <2>2. CASE Abort
    BY <2>2, AbortPreserves
  <2>3. CASE Commit
    BY <2>3, CommitPreserves
  <2>4. CASE \E r \in Requests : Release(r)
    BY <2>4, ReleasePreserves
  <2>5. CASE UNCHANGED vars
    BY <2>5 DEF vars, LedgerInv, TypeOK, CountsAreExact, Users,
                SharedOnlyThroughIndex, ClaimsAreNew
  <2> QED
    BY <2>1, <2>2, <2>3, <2>4, <2>5 DEF Next
<1> QED
  BY <1>1, LedgerInit, PTL DEF Spec

\* Reference counts stay natural numbers: no release goes below zero.
THEOREM LedgerTypeCorrect == Spec => []TypeOK
<1>1. LedgerInv => TypeOK
  BY DEF LedgerInv
<1> QED
  BY <1>1, LedgerInvariance, PTL

\* The reference count BlockPool keeps of a block is the number of its owners:
\* the tables, the claims of open steps and the prefix index.
THEOREM LedgerCounts == Spec => []CountsAreExact
<1>1. LedgerInv => CountsAreExact
  BY DEF LedgerInv
<1> QED
  BY <1>1, LedgerInvariance, PTL

\* A block that two requests can see is one PrefixCache has indexed: no write
\* of a step can reach a block another request reads.
THEOREM LedgerSharing == Spec => []SharedOnlyThroughIndex
<1>1. LedgerInv => SharedOnlyThroughIndex
  BY DEF LedgerInv
<1> QED
  BY <1>1, LedgerInvariance, PTL

\* Eviction never takes a block from a table or from an open step.
THEOREM SafeEviction == Spec => EvictedBlocksAreUnused
<1>1. ASSUME LedgerInv, [Next]_vars
      PROVE  [\A b \in indexed \ indexed' :
                Users(held, b) = {} /\ Users(claimed, b) = {}]_vars
  <2> SUFFICES ASSUME Next, NEW b \in indexed \ indexed'
               PROVE  Users(held, b) = {} /\ Users(claimed, b) = {}
    BY <1>1
  <2>1. b \in Reclaimable
    BY DEF Next, Reserve, Abort, Commit, Release
  <2> QED
    BY <1>1, <2>1, ReclaimableUnused
<1> QED
  BY <1>1, LedgerInvariance, PTL DEF Spec, EvictedBlocksAreUnused
=============================================================================
