-------------------------- MODULE PagedCacheLemmas --------------------------
(***************************************************************************)
(* The lemmas that the proofs about the paged cache rest on.               *)
(*                                                                         *)
(* First, what the operations of the block pool and of the prefix index do *)
(* to the counts, to the two lists and to the identities of the blocks.    *)
(* Then the inductive invariant of PagedCache, what request operations do  *)
(* to it, and the planner: candidates, the selection of what the cache can *)
(* serve together, the token budget, and fitting the drafts.               *)
(***************************************************************************)
EXTENDS PagedCache, SequenceLemmas, FiniteSetTheorems, SequenceTheorems

---------------------------------------------------------------------------
(* The invariant of the pool and its index. *)

(* V holds what the blocks and the identities say of their contents.       *)
Identity(V) ==
    [hash : V, chunk : V, parent : Ids \cup {NoId}, block : Blocks \cup {NoBlock}]

(* The cache, with contents and hashes from some set V. *)
CacheType(V) ==
    [ref : [Blocks -> Nat], size : [Blocks -> V], kv : [Blocks -> V],
     ident : [Blocks -> Ids \cup {NoId}],
     recency : Seq(Blocks), reclaimable : Seq(Blocks), promote : SUBSET Blocks,
     idents : [Ids -> Identity(V)], limit : Nat]

(* Some such set holds all that the cache holds. *)
IsCache(c) == \E V : c \in CacheType(V)

(* The reclaimable list is exactly the indexed blocks with one reference. *)
ListsOK(c) ==
    /\ Distinct(c.recency) /\ Distinct(c.reclaimable)
    /\ ToSet(c.reclaimable) = {b \in Indexed(c) : c.ref[b] = 1}

(* The indexed blocks are the ones with an identity, which names them and  *)
(* is not its own parent.                                                  *)
IndexOK(c) ==
    \A b \in Blocks :
        IF b \in Indexed(c)
        THEN /\ c.ref[b] >= 1 /\ c.ident[b] # NoId
             /\ c.idents[c.ident[b]].block = b
             /\ c.idents[c.ident[b]].parent # c.ident[b]
        ELSE c.ident[b] = NoId

(* The invariant of the pool and its index. *)
PoolInv(c) == IsCache(c) /\ ListsOK(c) /\ IndexOK(c)

(* A condition, as a number. *)
Bit(p) == IF p THEN 1 ELSE 0

(* Nothing of what the blocks hold has changed but that the blocks in F    *)
(* have been emptied.                                                      *)
ClearedIn(c, d, F) ==
    /\ d.size = [b \in Blocks |-> IF b \in F THEN 0 ELSE c.size[b]]
    /\ d.kv = [b \in Blocks |-> IF b \in F THEN EmptyBlock ELSE c.kv[b]]
    /\ d.ident = [b \in Blocks |-> IF b \in F THEN NoId ELSE c.ident[b]]
    /\ d.idents = c.idents /\ d.limit = c.limit

(* d is what became of c: the counts are R, the indexed blocks I, and the  *)
(* blocks in F have been emptied.                                          *)
Became(c, d, R, I, F) ==
    PoolInv(d) /\ d.ref = R /\ Indexed(d) = I /\ ClearedIn(c, d, F)

(* The types of the fields, one by one. *)
LEMMA FieldTypes ==
    ASSUME NEW c, IsCache(c)
    PROVE  /\ c.ref \in [Blocks -> Nat]
           /\ c.size = [b \in Blocks |-> c.size[b]] /\ c.kv = [b \in Blocks |-> c.kv[b]]
           /\ c.ident \in [Blocks -> Ids \cup {NoId}]
           /\ c.recency \in Seq(Blocks) /\ c.reclaimable \in Seq(Blocks)
           /\ c.promote \in SUBSET Blocks /\ c.limit \in Nat
           /\ c.idents = [i \in Ids |-> c.idents[i]]
           /\ \A i \in Ids : /\ c.idents[i].parent \in Ids \cup {NoId}
                            /\ c.idents[i].block \in Blocks \cup {NoBlock}
<1>1. PICK V : c \in CacheType(V)
  BY DEF IsCache
<1>2. c.idents \in [Ids -> Identity(V)]
  BY <1>1 DEF CacheType
<1>3. \A i \in Ids : c.idents[i] \in Identity(V)
  BY <1>2
<1> QED BY <1>1, <1>2, <1>3 DEF CacheType, Identity

(* Block numbers are natural, and NoBlock is none of them. *)
LEMMA BlocksFacts ==
    /\ Blocks \subseteq Nat /\ NoBlock \notin Blocks
    /\ NoId \notin Ids /\ Ids \subseteq Nat
BY PoolAssumption DEF Blocks, NoBlock, NoId, Ids

(* The elements of a list of blocks are blocks. *)
LEMMA ListBlocks ==
    ASSUME NEW s \in Seq(Blocks)
    PROVE  ToSet(s) \in SUBSET Blocks
BY DEF ToSet

(* The indexed blocks are blocks. *)
LEMMA IndexedBlocks ==
    ASSUME NEW c, IsCache(c)
    PROVE  Indexed(c) \in SUBSET Blocks
<1>1. c.recency \in Seq(Blocks)
  BY FieldTypes
<1> QED BY <1>1, ListBlocks DEF Indexed

(* Emptying twice. *)
LEMMA ClearedTwice ==
    ASSUME NEW c, NEW d, NEW e, NEW F, NEW G, ClearedIn(c, d, F), ClearedIn(d, e, G)
    PROVE  ClearedIn(c, e, F \cup G)
<1>1. e.size = [b \in Blocks |-> IF b \in F \cup G THEN 0 ELSE c.size[b]]
  BY DEF ClearedIn
<1>2. e.kv = [b \in Blocks |-> IF b \in F \cup G THEN EmptyBlock ELSE c.kv[b]]
  BY DEF ClearedIn
<1>3. e.ident = [b \in Blocks |-> IF b \in F \cup G THEN NoId ELSE c.ident[b]]
  BY DEF ClearedIn
<1> QED BY <1>1, <1>2, <1>3 DEF ClearedIn

(* Nothing changed is nothing emptied. *)
LEMMA ClearedNone ==
    ASSUME NEW c, IsCache(c), NEW d, d.size = c.size, d.kv = c.kv, d.ident = c.ident,
           d.idents = c.idents, d.limit = c.limit
    PROVE  ClearedIn(c, d, {})
BY FieldTypes DEF ClearedIn

(* A cache that still is what it was. *)
LEMMA BecameItself ==
    ASSUME NEW c, PoolInv(c)
    PROVE  Became(c, c, c.ref, Indexed(c), {})
BY ClearedNone DEF Became, PoolInv

(* The cache with other counts and other lists. *)
Relisted(c, R, S, L, P) ==
    [c EXCEPT !.ref = R, !.recency = S, !.reclaimable = L, !.promote = P]

(* d has these counts and lists, and is c otherwise. *)
HasLists(d, c, R, S, L, P) ==
    /\ IsCache(d) /\ d.ref = R /\ d.recency = S /\ d.reclaimable = L
    /\ d.promote = P /\ ClearedIn(c, d, {})
    /\ d.size = c.size /\ d.kv = c.kv /\ d.ident = c.ident
    /\ d.idents = c.idents /\ d.limit = c.limit

(* That is what Relisted makes. *)
LEMMA RelistedFacts ==
    ASSUME NEW c, IsCache(c), NEW R \in [Blocks -> Nat], NEW S \in Seq(Blocks),
           NEW L \in Seq(Blocks), NEW P \in SUBSET Blocks
    PROVE  HasLists(Relisted(c, R, S, L, P), c, R, S, L, P)
<1> DEFINE d == Relisted(c, R, S, L, P)
<1>1. PICK V : c \in CacheType(V)
  BY DEF IsCache
<1>2. /\ d \in CacheType(V) /\ d.ref = R /\ d.recency = S /\ d.reclaimable = L
      /\ d.promote = P /\ d.size = c.size /\ d.kv = c.kv /\ d.ident = c.ident
      /\ d.idents = c.idents /\ d.limit = c.limit
  BY <1>1 DEF CacheType, Relisted
<1> HIDE DEF d
<1>3. ClearedIn(c, d, {})
  BY <1>2, ClearedNone
<1>4. IsCache(d)
  BY <1>2 DEF IsCache
<1>5. HasLists(d, c, R, S, L, P)
  BY <1>2, <1>3, <1>4 DEF HasLists
<1> QED BY <1>5 DEF d

(* What a lookup by identity returns. *)
LEMMA FindEntryFacts ==
    ASSUME NEW c, PoolInv(c), NEW id \in Ids \cup {NoId}
    PROVE  \/ FindEntry(c, id) = NoBlock
           \/ /\ FindEntry(c, id) \in Indexed(c) /\ FindEntry(c, id) \in Blocks
              /\ c.ident[FindEntry(c, id)] = id /\ id \in Ids
<1>1. IsCache(c)
  BY DEF PoolInv
<1>2. Indexed(c) \subseteq Blocks
  BY <1>1, IndexedBlocks
<1> QED BY <1>2 DEF FindEntry

(* The parent that an indexed block chains from. *)
LEMMA ParentFacts ==
    ASSUME NEW c, PoolInv(c), NEW b \in Indexed(c)
    PROVE  /\ b \in Blocks /\ c.ident[b] \in Ids /\ c.ref[b] >= 1
           /\ c.idents[c.ident[b]].parent \in Ids \cup {NoId}
           /\ c.idents[c.ident[b]].block = b
           /\ FindEntry(c, c.idents[c.ident[b]].parent) # b
<1>1. IsCache(c) /\ IndexOK(c)
  BY DEF PoolInv
<1>2. b \in Blocks
  BY <1>1, IndexedBlocks
<1>3. c.ident[b] \in Ids /\ c.idents[c.ident[b]].block = b /\ c.ref[b] >= 1
      /\ c.idents[c.ident[b]].parent # c.ident[b]
  <2>1. c.ident \in [Blocks -> Ids \cup {NoId}]
    BY <1>1, FieldTypes
  <2>2. c.ident[b] # NoId /\ c.idents[c.ident[b]].block = b /\ c.ref[b] >= 1
        /\ c.idents[c.ident[b]].parent # c.ident[b]
    BY <1>1, <1>2 DEF IndexOK
  <2> QED BY <1>2, <2>1, <2>2
<1>4. c.idents[c.ident[b]].parent \in Ids \cup {NoId}
  BY <1>1, <1>3, FieldTypes
<1>5. FindEntry(c, c.idents[c.ident[b]].parent) # b
  <2> DEFINE i == c.idents[c.ident[b]].parent
  <2>1. i \in Ids \cup {NoId} /\ i # c.ident[b]
    BY <1>3, <1>4
  <2> HIDE DEF i
  <2>2. FindEntry(c, i) = NoBlock \/ c.ident[FindEntry(c, i)] = i
    BY <2>1, FindEntryFacts
  <2>3. b # NoBlock
    BY <1>2, BlocksFacts
  <2>4. FindEntry(c, i) # b
    BY <2>1, <2>2, <2>3
  <2> QED BY <2>4 DEF i
<1> QED BY <1>2, <1>3, <1>4, <1>5

(* Inserting a block before another one of a list. *)
LEMMA InsertBeforeDistinct ==
    ASSUME NEW E, NEW s \in Seq(E), Distinct(s), NEW x \in E, x \notin ToSet(s),
           NEW y, y \in ToSet(s)
    PROVE  Grown(InsertBefore(s, x, y), s, x, E)
<1> DEFINE p == Position(s, y)
<1>1. p \in 1 .. Len(s)
  BY PositionFacts
<1>2. InsertBefore(s, x, y) = InsertAt(s, p, x)
  BY DEF InsertBefore, SelectInSeq, Position
<1> HIDE DEF p
<1>3. p \in 1 .. Len(s) + 1
  BY <1>1
<1>4. InsertedAt(InsertAt(s, p, x), s, p, x, E)
  BY <1>3, InsertAtFacts
<1> QED BY <1>2, <1>3, <1>4, InsertDistinct

---------------------------------------------------------------------------
(* References. *)

(* The invariant of a cache with other counts and another reclaimable list. *)
LEMMA RecountedInv ==
    ASSUME NEW c, PoolInv(c), NEW d, IsCache(d), d.recency = c.recency,
           d.ident = c.ident, d.idents = c.idents, Distinct(d.reclaimable),
           ToSet(d.reclaimable) = {x \in Indexed(c) : d.ref[x] = 1},
           \A x \in Indexed(c) : d.ref[x] >= 1
    PROVE  PoolInv(d)
<1>1. Indexed(d) = Indexed(c)
  BY DEF Indexed
<1>2. ListsOK(d)
  BY <1>1 DEF PoolInv, ListsOK
<1>3. IndexOK(d)
  BY <1>1 DEF PoolInv, IndexOK
<1> QED BY <1>2, <1>3 DEF PoolInv

(* The same for a cache made by Relisted. *)
LEMMA RecountedBecame ==
    ASSUME NEW c, PoolInv(c), NEW R \in [Blocks -> Nat], NEW L \in Seq(Blocks),
           NEW P \in SUBSET Blocks, Distinct(L),
           ToSet(L) = {x \in Indexed(c) : R[x] = 1},
           \A x \in Indexed(c) : R[x] >= 1
    PROVE  Became(c, Relisted(c, R, c.recency, L, P), R, Indexed(c), {})
<1> DEFINE d == Relisted(c, R, c.recency, L, P)
<1>0. IsCache(c)
  BY DEF PoolInv
<1>1. c.recency \in Seq(Blocks)
  BY <1>0, FieldTypes
<1>2. /\ IsCache(d) /\ d.ref = R /\ d.recency = c.recency /\ d.reclaimable = L
      /\ ClearedIn(c, d, {}) /\ d.ident = c.ident /\ d.idents = c.idents
  BY <1>0, <1>1, RelistedFacts DEF HasLists
<1> HIDE DEF d
<1>3. PoolInv(d)
  BY <1>2, RecountedInv
<1>4. Indexed(d) = Indexed(c)
  BY <1>2 DEF Indexed
<1>5. Became(c, d, R, Indexed(c), {})
  BY <1>2, <1>3, <1>4 DEF Became
<1> QED BY <1>5 DEF d

(* One more reference on a block that has one (BlockPool::AddRef). *)
LEMMA AddRefEffect ==
    ASSUME NEW c, PoolInv(c), NEW b \in Blocks, c.ref[b] >= 1
    PROVE  Became(c, AddRef(c, b), [x \in Blocks |-> c.ref[x] + Bit(x = b)], Indexed(c), {})
<1> DEFINE R == [x \in Blocks |-> c.ref[x] + Bit(x = b)]
           lost == c.ref[b] = 1 /\ b \in Indexed(c)
           L == IF lost THEN RemoveFirst(c.reclaimable, b) ELSE c.reclaimable
           P == IF lost THEN c.promote \ {b} ELSE c.promote
<1>0. IsCache(c)
  BY DEF PoolInv
<1>1. c.ref \in [Blocks -> Nat] /\ c.reclaimable \in Seq(Blocks) /\ c.promote \in SUBSET Blocks
  BY <1>0, FieldTypes
<1>2. \A x \in Blocks : R[x] \in Nat /\ R[x] = IF x = b THEN c.ref[x] + 1 ELSE c.ref[x]
  BY <1>1 DEF Bit
<1>3. R = [c.ref EXCEPT ![b] = @ + 1] /\ R \in [Blocks -> Nat]
  <2>1. R = [x \in Blocks |-> R[x]]
    OBVIOUS
  <2> HIDE DEF R
  <2> QED BY <1>1, <1>2, <2>1
<1> HIDE DEF R
<1>4. AddRef(c, b) = Relisted(c, R, c.recency, L, P)
  <2>1. PICK V : c \in CacheType(V)
    BY <1>0 DEF IsCache
  <2>2. CASE lost
    BY <1>3, <2>1, <2>2 DEF AddRef, OnBlockBecameReferenced, Relisted, CacheType
  <2>3. CASE ~lost
    BY <1>3, <2>1, <2>3 DEF AddRef, Relisted, CacheType
  <2> QED BY <2>2, <2>3
<1>5. Distinct(c.reclaimable) /\ ToSet(c.reclaimable) = {x \in Indexed(c) : c.ref[x] = 1}
  BY DEF PoolInv, ListsOK
<1>6. Indexed(c) \subseteq Blocks
  BY <1>0, IndexedBlocks
<1>7. L \in Seq(Blocks) /\ Distinct(L) /\ ToSet(L) = {x \in Indexed(c) : R[x] = 1}
  <2>1. CASE lost
    <3>1. Shrunk(L, c.reclaimable, b, Blocks)
      BY <1>1, <1>5, <2>1, RemoveDistinct
    <3>2. L \in Seq(Blocks) /\ Distinct(L) /\ ToSet(L) = ToSet(c.reclaimable) \ {b}
      BY <3>1 DEF Shrunk
    <3> HIDE DEF L
    <3> QED BY <1>1, <1>2, <1>5, <1>6, <2>1, <3>2
  <2>2. CASE ~lost
    BY <1>1, <1>2, <1>5, <1>6, <2>2
  <2> QED BY <2>1, <2>2
<1>8. P \in SUBSET Blocks
  BY <1>1
<1>9. \A x \in Indexed(c) : R[x] >= 1
  BY <1>1, <1>2, <1>6 DEF PoolInv, IndexOK
<1> HIDE DEF L, P, lost
<1>10. Became(c, Relisted(c, R, c.recency, L, P), R, Indexed(c), {})
  BY <1>3, <1>7, <1>8, <1>9, RecountedBecame
<1> QED BY <1>4, <1>10 DEF R

(* The place in the reclaimable list is before a block of that list. *)
LEMMA ReclaimableInsert ==
    ASSUME NEW c, IsCache(c), Distinct(c.reclaimable), NEW b \in Indexed(c),
           b \notin ToSet(c.reclaimable)
    PROVE  Grown(OnBlockBecameReclaimable(c, b).reclaimable, c.reclaimable, b, Blocks)
<1> DEFINE parent == c.idents[c.ident[b]].parent
           entry == FindEntry(c, parent)
           followers == {i \in DOMAIN c.recency :
                           /\ i > Position(c.recency, b)
                           /\ IsReclaimable(c, c.recency[i])}
           next == IF b \in c.promote
                   THEN IF parent = NoId THEN NoBlock
                        ELSE IF entry = NoBlock
                        THEN IF c.reclaimable = <<>> THEN NoBlock
                             ELSE Head(c.reclaimable)
                        ELSE IF IsReclaimable(c, entry) THEN entry ELSE NoBlock
                   ELSE IF followers = {} THEN NoBlock
                   ELSE c.recency[Min(followers)]
           L == IF next = NoBlock THEN Append(c.reclaimable, b)
                ELSE InsertBefore(c.reclaimable, b, next)
<1>1. c.recency \in Seq(Blocks) /\ c.reclaimable \in Seq(Blocks) /\ b \in Blocks
  BY FieldTypes, IndexedBlocks
<1>2. OnBlockBecameReclaimable(c, b).reclaimable = L
  <2>1. PICK V : c \in CacheType(V)
    BY DEF IsCache
  <2> QED BY <2>1 DEF OnBlockBecameReclaimable, Position, SelectInSeq, CacheType
<1>3. followers = {} \/ c.recency[Min(followers)] \in ToSet(c.reclaimable)
  <2>1. followers \in SUBSET Nat
    BY <1>1
  <2>2. CASE followers # {}
    <3>1. Min(followers) \in followers
      <4> HIDE DEF followers
      <4> QED BY <2>1, <2>2, MinFacts
    <3> QED BY <3>1 DEF IsReclaimable
  <2> QED BY <2>2
<1>4. c.reclaimable = <<>> \/ Head(c.reclaimable) \in ToSet(c.reclaimable)
  BY <1>1 DEF ToSet
<1>5. next = NoBlock \/ next \in ToSet(c.reclaimable)
  <2> HIDE DEF followers, entry, parent
  <2> QED BY <1>3, <1>4 DEF IsReclaimable
<1> HIDE DEF next
<1>7. CASE next = NoBlock
  BY <1>1, <1>2, <1>7, AppendDistinct
<1>8. CASE next \in ToSet(c.reclaimable) /\ next # NoBlock
  BY <1>1, <1>2, <1>8, InsertBeforeDistinct
<1> QED BY <1>5, <1>7, <1>8

(* What the pool slot of a block is after the block has been given up. *)
LEMMA ClearBlockFacts ==
    ASSUME NEW c, IsCache(c), NEW b \in Blocks, NEW d, d = ClearBlock(c, b)
    PROVE  /\ IsCache(d) /\ d.ref = [c.ref EXCEPT ![b] = 0]
           /\ d.recency = c.recency /\ d.reclaimable = c.reclaimable
           /\ d.promote = c.promote /\ ClearedIn(c, d, {b})
<1>1. PICK V : c \in CacheType(V)
  BY DEF IsCache
<1> DEFINE W == V \cup {0, EmptyBlock}
<1>2. /\ d = [c EXCEPT !.ref = [c.ref EXCEPT ![b] = 0], !.size = [c.size EXCEPT ![b] = 0],
                        !.ident = [c.ident EXCEPT ![b] = NoId],
                        !.kv = [c.kv EXCEPT ![b] = EmptyBlock]]
  BY <1>1 DEF ClearBlock, CacheType
<1>3. /\ d.ref = [c.ref EXCEPT ![b] = 0] /\ d.size = [c.size EXCEPT ![b] = 0]
      /\ d.ident = [c.ident EXCEPT ![b] = NoId] /\ d.kv = [c.kv EXCEPT ![b] = EmptyBlock]
      /\ d.recency = c.recency /\ d.reclaimable = c.reclaimable /\ d.promote = c.promote
      /\ d.idents = c.idents /\ d.limit = c.limit
      /\ d = [ref |-> d.ref, size |-> d.size, kv |-> d.kv, ident |-> d.ident,
              recency |-> d.recency, reclaimable |-> d.reclaimable, promote |-> d.promote,
              idents |-> d.idents, limit |-> d.limit]
  BY <1>1, <1>2 DEF CacheType
<1>4. /\ c.ref \in [Blocks -> Nat] /\ c.size \in [Blocks -> V] /\ c.kv \in [Blocks -> V]
      /\ c.ident \in [Blocks -> Ids \cup {NoId}] /\ c.recency \in Seq(Blocks)
      /\ c.reclaimable \in Seq(Blocks) /\ c.promote \in SUBSET Blocks
      /\ c.idents \in [Ids -> Identity(V)] /\ c.limit \in Nat
  BY <1>1 DEF CacheType
<1>5. c.idents \in [Ids -> Identity(W)]
  <2>1. ASSUME NEW i \in Ids PROVE c.idents[i] \in Identity(W)
    BY <1>4 DEF Identity
  <2> QED BY <1>4, <2>1
<1>6. /\ d.ref \in [Blocks -> Nat] /\ d.ident \in [Blocks -> Ids \cup {NoId}]
  BY <1>3, <1>4
<1>7. d.size \in [Blocks -> W] /\ d.kv \in [Blocks -> W]
  BY <1>3, <1>4
<1>8. d \in CacheType(W)
  <2> HIDE DEF W
  <2> QED BY <1>3, <1>4, <1>5, <1>6, <1>7 DEF CacheType
<1>9. ClearedIn(c, d, {b})
  BY <1>3, <1>4 DEF ClearedIn
<1> QED BY <1>3, <1>8, <1>9 DEF IsCache

(* A block that is not indexed loses its last reference. *)
LEMMA ClearUnindexed ==
    ASSUME NEW c, PoolInv(c), NEW b \in Blocks, b \notin Indexed(c)
    PROVE  Became(c, ClearBlock(c, b), [x \in Blocks |-> IF x = b THEN 0 ELSE c.ref[x]],
                  Indexed(c), {b})
<1> DEFINE d == ClearBlock(c, b)
<1>0. IsCache(c)
  BY DEF PoolInv
<1>1. /\ IsCache(d) /\ d.ref = [c.ref EXCEPT ![b] = 0] /\ d.recency = c.recency
      /\ d.reclaimable = c.reclaimable /\ ClearedIn(c, d, {b})
  BY <1>0, ClearBlockFacts
<1> HIDE DEF d
<1>2. Indexed(d) = Indexed(c) /\ Indexed(c) \subseteq Blocks
  BY <1>0, <1>1, IndexedBlocks DEF Indexed
<1>3. c.ref \in [Blocks -> Nat]
  BY <1>0, FieldTypes
<1>4. \A x \in Indexed(c) : d.ref[x] = c.ref[x]
  BY <1>1, <1>2, <1>3
<1>5. d.ident = [x \in Blocks |-> IF x \in {b} THEN NoId ELSE c.ident[x]]
      /\ d.idents = c.idents
  BY <1>1 DEF ClearedIn
<1>6. ListsOK(d)
  BY <1>1, <1>2, <1>4 DEF PoolInv, ListsOK
<1>7. IndexOK(d)
  BY <1>2, <1>4, <1>5 DEF PoolInv, IndexOK
<1>8. d.ref = [x \in Blocks |-> IF x = b THEN 0 ELSE c.ref[x]]
  BY <1>1, <1>3
<1>9. Became(c, d, [x \in Blocks |-> IF x = b THEN 0 ELSE c.ref[x]], Indexed(c), {b})
  BY <1>1, <1>2, <1>6, <1>7, <1>8 DEF Became, PoolInv
<1> QED BY <1>9 DEF d

(* One reference less on a block that somebody other than the index refers *)
(* to (BlockPool::ReleaseRef).                                             *)
LEMMA ReleaseRefEffect ==
    ASSUME NEW c, PoolInv(c), NEW b \in Blocks, c.ref[b] >= 1 + Bit(b \in Indexed(c))
    PROVE  Became(c, ReleaseRef(c, b), [x \in Blocks |-> c.ref[x] - Bit(x = b)], Indexed(c),
                  {x \in {b} : c.ref[x] = 1})
<1> DEFINE R == [x \in Blocks |-> c.ref[x] - Bit(x = b)]
           back == c.ref[b] = 2 /\ b \in Indexed(c)
           counted == [c EXCEPT !.ref[b] = @ - 1]
<1>0. IsCache(c)
  BY DEF PoolInv
<1>1. /\ c.ref \in [Blocks -> Nat] /\ c.recency \in Seq(Blocks)
      /\ c.reclaimable \in Seq(Blocks) /\ c.promote \in SUBSET Blocks
  BY <1>0, FieldTypes
<1>2. c.ref[b] >= 1 /\ (b \in Indexed(c) => c.ref[b] >= 2)
  BY <1>1 DEF Bit
<1>3. \A x \in Blocks : R[x] \in Nat /\ R[x] = IF x = b THEN c.ref[x] - 1 ELSE c.ref[x]
  BY <1>1, <1>2 DEF Bit
<1>4. R = [c.ref EXCEPT ![b] = @ - 1] /\ R \in [Blocks -> Nat]
  <2>1. R = [x \in Blocks |-> R[x]]
    OBVIOUS
  <2> HIDE DEF R
  <2> QED BY <1>1, <1>3, <2>1
<1> HIDE DEF R
<1>5. counted = Relisted(c, R, c.recency, c.reclaimable, c.promote)
  <2>1. PICK V : c \in CacheType(V)
    BY <1>0 DEF IsCache
  <2> QED BY <1>4, <2>1 DEF Relisted, CacheType
<1> HIDE DEF counted
<1>6. /\ IsCache(counted) /\ counted.ref = R /\ counted.recency = c.recency
      /\ counted.reclaimable = c.reclaimable /\ counted.promote = c.promote
  <2>1. HasLists(counted, c, R, c.recency, c.reclaimable, c.promote)
    BY <1>0, <1>1, <1>4, <1>5, RelistedFacts
  <2> QED BY <2>1 DEF HasLists
<1>7. Distinct(c.reclaimable) /\ ToSet(c.reclaimable) = {x \in Indexed(c) : c.ref[x] = 1}
  BY DEF PoolInv, ListsOK
<1>8. Indexed(c) \subseteq Blocks /\ Indexed(counted) = Indexed(c)
  BY <1>0, <1>6, IndexedBlocks DEF Indexed
<1>9. \A x \in Indexed(c) : R[x] >= 1
  BY <1>1, <1>2, <1>3, <1>8 DEF PoolInv, IndexOK
<1>10. CASE back
  <2> DEFINE d == OnBlockBecameReclaimable(counted, b)
             L == d.reclaimable
             P == c.promote \cup {b}
  <2>1. ReleaseRef(c, b) = d
    BY <1>10 DEF ReleaseRef, counted
  <2>2. Grown(L, c.reclaimable, b, Blocks)
    <3>1. b \in Indexed(counted) /\ b \notin ToSet(counted.reclaimable)
      BY <1>6, <1>7, <1>8, <1>10
    <3>2. Distinct(counted.reclaimable)
      BY <1>6, <1>7
    <3>3. Grown(L, counted.reclaimable, b, Blocks)
      BY <1>6, <3>1, <3>2, ReclaimableInsert
    <3> QED BY <1>6, <3>3
  <2>3. L \in Seq(Blocks) /\ Distinct(L) /\ ToSet(L) = ToSet(c.reclaimable) \cup {b}
    BY <2>2 DEF Grown
  <2>4. P \in SUBSET Blocks
    BY <1>1
  <2>5. d = [counted EXCEPT !.reclaimable = L, !.promote = P]
    <3>1. PICK V : counted \in CacheType(V)
      BY <1>6 DEF IsCache
    <3> QED BY <1>6, <3>1 DEF OnBlockBecameReclaimable, CacheType
  <2> HIDE DEF d
  <2> HIDE DEF L, P
  <2>6. d = Relisted(c, R, c.recency, L, P)
    <3>1. PICK V : c \in CacheType(V)
      BY <1>0 DEF IsCache
    <3> QED BY <1>5, <2>5, <3>1 DEF Relisted, CacheType
  <2>7. ToSet(L) = {x \in Indexed(c) : R[x] = 1}
    BY <1>1, <1>3, <1>7, <1>8, <1>10, <2>3
  <2>8. Became(c, Relisted(c, R, c.recency, L, P), R, Indexed(c), {})
    BY <1>4, <1>9, <2>3, <2>4, <2>7, RecountedBecame
  <2>9. {x \in {b} : c.ref[x] = 1} = {}
    BY <1>10
  <2> QED BY <2>1, <2>6, <2>8, <2>9 DEF R
<1>11. CASE ~back /\ c.ref[b] = 1
  <2>1. ReleaseRef(c, b) = ClearBlock(c, b)
    BY <1>11 DEF ReleaseRef
  <2>2. b \notin Indexed(c)
    BY <1>2, <1>11
  <2>3. R = [x \in Blocks |-> IF x = b THEN 0 ELSE c.ref[x]]
    BY <1>1, <1>4, <1>11
  <2>4. {x \in {b} : c.ref[x] = 1} = {b}
    BY <1>11
  <2>5. Became(c, ClearBlock(c, b), R, Indexed(c), {b})
    BY <2>2, <2>3, ClearUnindexed
  <2> QED BY <2>1, <2>4, <2>5 DEF R
<1>12. CASE ~back /\ c.ref[b] # 1
  <2>1. ReleaseRef(c, b) = counted
    BY <1>12 DEF ReleaseRef, counted
  <2>2. ToSet(c.reclaimable) = {x \in Indexed(c) : R[x] = 1}
    <3>1. ASSUME NEW x \in Indexed(c) PROVE R[x] = 1 <=> c.ref[x] = 1
      <4>1. x \in Blocks
        BY <1>8
      <4>2. CASE x = b
        BY <1>1, <1>2, <1>3, <1>12, <4>1, <4>2
      <4>3. CASE x # b
        BY <1>3, <4>1, <4>3
      <4> QED BY <4>2, <4>3
    <3> QED BY <1>7, <3>1
  <2>3. Became(c, Relisted(c, R, c.recency, c.reclaimable, c.promote), R, Indexed(c), {})
    BY <1>1, <1>4, <1>7, <1>9, <2>2, RecountedBecame
  <2>4. {x \in {b} : c.ref[x] = 1} = {}
    BY <1>12
  <2> QED BY <1>5, <2>1, <2>3, <2>4 DEF R
<1> QED BY <1>10, <1>11, <1>12

---------------------------------------------------------------------------
(* Eviction and reclamation. *)

(* An entry nobody else refers to is dropped, and its block with it        *)
(* (PrefixCache::Evict).                                                   *)
LEMMA EvictEffect ==
    ASSUME NEW c, PoolInv(c), NEW b \in ToSet(c.reclaimable)
    PROVE  Became(c, Evict(c, b), [x \in Blocks |-> IF x = b THEN 0 ELSE c.ref[x]],
                  Indexed(c) \ {b}, {b})
<1> DEFINE S == RemoveFirst(c.recency, b)
           L == RemoveFirst(c.reclaimable, b)
           P == c.promote \ {b}
           e == Relisted(c, c.ref, S, L, P)
           d == ClearBlock(e, b)
<1>0. IsCache(c)
  BY DEF PoolInv
<1>1. /\ c.ref \in [Blocks -> Nat] /\ c.recency \in Seq(Blocks)
      /\ c.reclaimable \in Seq(Blocks) /\ c.promote \in SUBSET Blocks
  BY <1>0, FieldTypes
<1>2. /\ Distinct(c.recency) /\ Distinct(c.reclaimable)
      /\ ToSet(c.reclaimable) = {x \in Indexed(c) : c.ref[x] = 1}
  BY DEF PoolInv, ListsOK
<1>3. b \in Indexed(c) /\ b \in Blocks /\ c.ref[b] = 1 /\ Indexed(c) \subseteq Blocks
  BY <1>0, <1>2, IndexedBlocks
<1>4. Shrunk(S, c.recency, b, Blocks) /\ Shrunk(L, c.reclaimable, b, Blocks)
  BY <1>1, <1>2, RemoveDistinct
<1>5. /\ S \in Seq(Blocks) /\ Distinct(S) /\ ToSet(S) = Indexed(c) \ {b}
      /\ L \in Seq(Blocks) /\ Distinct(L) /\ ToSet(L) = ToSet(c.reclaimable) \ {b}
  BY <1>4 DEF Shrunk, Indexed
<1>6. P \in SUBSET Blocks
  BY <1>1
<1> HIDE DEF S, L, P
<1>7. e = [c EXCEPT !.recency = S, !.reclaimable = L, !.promote = P]
  <2>1. PICK V : c \in CacheType(V)
    BY <1>0 DEF IsCache
  <2> QED BY <2>1 DEF Relisted, CacheType
<1>8. e = [c EXCEPT !.recency = RemoveFirst(@, b), !.reclaimable = RemoveFirst(@, b),
                    !.promote = @ \ {b}]
  BY <1>7 DEF S, L, P
<1> HIDE DEF e
<1>9. /\ IsCache(e) /\ e.ref = c.ref /\ e.recency = S /\ e.reclaimable = L
      /\ e.promote = P /\ ClearedIn(c, e, {})
  <2>1. HasLists(e, c, c.ref, S, L, P)
    BY <1>0, <1>1, <1>5, <1>6, RelistedFacts DEF e
  <2> QED BY <2>1 DEF HasLists
<1>10. Evict(c, b) = d
  <2>1. Evict(c, b) = ReleaseRef(e, b)
    BY <1>8 DEF Evict
  <2>2. b \notin Indexed(e)
    BY <1>5, <1>9 DEF Indexed
  <2>3. e.ref[b] = 1
    BY <1>3, <1>9
  <2> QED BY <2>1, <2>2, <2>3 DEF ReleaseRef
<1>11. /\ IsCache(d) /\ d.ref = [c.ref EXCEPT ![b] = 0] /\ d.recency = S
       /\ d.reclaimable = L /\ ClearedIn(e, d, {b})
  BY <1>3, <1>9, ClearBlockFacts
<1> HIDE DEF d
<1>12. ClearedIn(c, d, {b})
  <2>1. ClearedIn(c, d, {} \cup {b})
    BY <1>9, <1>11, ClearedTwice
  <2>2. {} \cup {b} = {b}
    OBVIOUS
  <2> QED BY <2>1, <2>2
<1>13. Indexed(d) = Indexed(c) \ {b}
  BY <1>5, <1>11 DEF Indexed
<1>14. d.ref = [x \in Blocks |-> IF x = b THEN 0 ELSE c.ref[x]]
  BY <1>1, <1>11
<1>15. ListsOK(d)
  <2>1. ToSet(d.reclaimable) = {x \in Indexed(d) : d.ref[x] = 1}
    BY <1>2, <1>3, <1>5, <1>11, <1>13, <1>14
  <2> QED BY <1>5, <1>11, <2>1 DEF ListsOK
<1>16. IndexOK(d)
  <2>1. d.ident = [x \in Blocks |-> IF x \in {b} THEN NoId ELSE c.ident[x]]
        /\ d.idents = c.idents
    BY <1>12 DEF ClearedIn
  <2>2. IndexOK(c)
    BY DEF PoolInv
  <2> QED BY <1>13, <1>14, <2>1, <2>2 DEF IndexOK
<1>17. Became(c, d, [x \in Blocks |-> IF x = b THEN 0 ELSE c.ref[x]], Indexed(c) \ {b}, {b})
  BY <1>11, <1>12, <1>13, <1>14, <1>15, <1>16 DEF Became, PoolInv
<1> QED BY <1>10, <1>17

(* Two changes, one after the other. *)
LEMMA BecameTwice ==
    ASSUME NEW c, NEW d, NEW e, NEW Q, NEW I, NEW F, NEW R, NEW J, NEW G,
           Became(c, d, Q, I, F), Became(d, e, R, J, G)
    PROVE  Became(c, e, R, J, F \cup G)
<1>1. ClearedIn(c, e, F \cup G)
  BY ClearedTwice DEF Became
<1> QED BY <1>1 DEF Became

(* The blocks at the head of the reclaimable list. *)
FirstReclaimable(c, n) ==
    {c.reclaimable[i] : i \in 1 .. (IF n < Len(c.reclaimable) THEN n ELSE Len(c.reclaimable))}

(* Evicting blocks in order, as a fold. *)
EvictStep(u, v, c, b) == Evict(c, b)
EvictFold == INSTANCE FoldLemmas WITH Op <- EvictStep

(* Reclaim gives up the first n reclaimable blocks, or all there are. *)
LEMMA ReclaimEffect ==
    ASSUME NEW c, PoolInv(c), NEW n \in Nat
    PROVE  Became(c, Reclaim(c, n),
                  [x \in Blocks |-> IF x \in FirstReclaimable(c, n) THEN 0 ELSE c.ref[x]],
                  Indexed(c) \ FirstReclaimable(c, n), FirstReclaimable(c, n))
<1> DEFINE m == IF n < Len(c.reclaimable) THEN n ELSE Len(c.reclaimable)
           s == SubSeq(c.reclaimable, 1, m)
           T(k) == {c.reclaimable[i] : i \in 1 .. k}
           R(k) == [x \in Blocks |-> IF x \in T(k) THEN 0 ELSE c.ref[x]]
<1>0. IsCache(c)
  BY DEF PoolInv
<1>1. c.ref \in [Blocks -> Nat] /\ c.reclaimable \in Seq(Blocks)
  BY <1>0, FieldTypes
<1>2. m \in 0 .. Len(c.reclaimable) /\ m \in Nat
  BY <1>1
<1>3. Reclaim(c, n) = EvictFold!FoldedBy(0, 0, c, s)
  BY DEF Reclaim, EvictFold!FoldedBy, FoldLeft, MapThenFoldSet,
         EvictFold!Greatest, Max, EvictStep
<1>4. T(m) = FirstReclaimable(c, n)
  BY DEF FirstReclaimable
<1> HIDE DEF m
<1>5. DOMAIN s = 1 .. m /\ \A i \in 1 .. m : s[i] = c.reclaimable[i]
  BY <1>1, <1>2
<1> HIDE DEF s
<1>ind. EvictFold!Induction
  BY NatSetInduction DEF EvictFold!Induction
<1>6. PICK h : EvictFold!FoldRun(0, 0, h, c, s, m) /\ EvictFold!FoldedBy(0, 0, c, s) = h[m]
  BY <1>ind, <1>2, <1>5, EvictFold!FoldRuns
<1>7. h[0] = c /\ \A i \in 1 .. m : h[i] = Evict(h[i - 1], s[i])
  BY <1>6 DEF EvictFold!FoldRun, EvictStep
<1>8. /\ Distinct(c.reclaimable)
      /\ ToSet(c.reclaimable) = {x \in Indexed(c) : c.ref[x] = 1}
  BY DEF PoolInv, ListsOK
<1>9. Indexed(c) \subseteq Blocks
  BY <1>0, IndexedBlocks
<1> DEFINE S == {k \in 0 .. m : Became(c, h[k], R(k), Indexed(c) \ T(k), T(k))}
<1>10. 0 \in S
  <2>1. T(0) = {}
    OBVIOUS
  <2>2. R(0) = c.ref /\ Indexed(c) \ T(0) = Indexed(c)
    BY <1>1, <2>1
  <2>3. Became(c, c, c.ref, Indexed(c), {})
    BY BecameItself
  <2>4. Became(c, h[0], R(0), Indexed(c) \ T(0), T(0))
    BY <1>7, <2>1, <2>2, <2>3
  <2> QED BY <1>2, <2>4
<1>11. ASSUME NEW k \in 0 .. m - 1, k \in S PROVE k + 1 \in S
  <2> DEFINE b == s[k + 1]
             d == h[k]
             e == h[k + 1]
  <2>1. k + 1 \in 1 .. m /\ (k + 1) - 1 = k /\ k \in Nat /\ k + 1 \in 0 .. m
        /\ k + 1 \in 1 .. Len(c.reclaimable)
    BY <1>2
  <2>2. e = Evict(d, b)
    BY <1>7, <2>1
  <2>3. b = c.reclaimable[k + 1] /\ b \in ToSet(c.reclaimable)
    BY <1>1, <1>5, <2>1 DEF ToSet
  <2>4. Became(c, d, R(k), Indexed(c) \ T(k), T(k))
    BY <1>11
  <2>5. b \notin T(k)
    <3> SUFFICES ASSUME NEW i \in 1 .. k, c.reclaimable[i] = b PROVE FALSE
      OBVIOUS
    <3>1. i \in DOMAIN c.reclaimable /\ k + 1 \in DOMAIN c.reclaimable /\ i # k + 1
      BY <1>1, <1>2, <2>1
    <3> QED BY <1>8, <2>3, <3>1 DEF Distinct
  <2>6. T(k + 1) = T(k) \cup {b}
    BY <2>1, <2>3
  <2> HIDE DEF b, d, e, T
  <2>7. b \in Indexed(c) /\ b \in Blocks /\ c.ref[b] = 1
    BY <1>8, <1>9, <2>3
  <2>8. b \in ToSet(d.reclaimable)
    <3>1. ListsOK(d) /\ d.ref = R(k) /\ Indexed(d) = Indexed(c) \ T(k)
      BY <2>4 DEF Became, PoolInv
    <3>2. d.ref[b] = 1
      BY <2>5, <2>7, <3>1
    <3> QED BY <2>5, <2>7, <3>1, <3>2 DEF ListsOK
  <2>9. Became(d, e, [x \in Blocks |-> IF x = b THEN 0 ELSE d.ref[x]], Indexed(d) \ {b}, {b})
    BY <2>2, <2>4, <2>8, EvictEffect DEF Became
  <2>10. [x \in Blocks |-> IF x = b THEN 0 ELSE d.ref[x]] = R(k + 1)
    BY <2>4, <2>6 DEF Became
  <2>11. Indexed(d) \ {b} = Indexed(c) \ T(k + 1)
    BY <2>4, <2>6 DEF Became
  <2>12. Became(c, e, R(k + 1), Indexed(c) \ T(k + 1), T(k) \cup {b})
    <3> HIDE DEF R
    <3> QED BY <2>4, <2>9, <2>10, <2>11, BecameTwice
  <2> QED BY <2>1, <2>6, <2>12 DEF e
<1>12. m \in S
  <2> HIDE DEF S
  <2>1. 0 .. m \subseteq S
    BY <1>2, <1>10, <1>11, RangeInduction
  <2> QED BY <1>2, <2>1
<1> QED BY <1>3, <1>4, <1>6, <1>12

(* The blocks that Reclaim gives up: indexed ones that nobody else uses. *)
LEMMA FirstReclaimableFacts ==
    ASSUME NEW c, PoolInv(c), NEW n \in Nat
    PROVE  /\ FirstReclaimable(c, n) \subseteq {b \in Indexed(c) : c.ref[b] = 1}
           /\ FirstReclaimable(c, n) \subseteq Blocks
<1>0. IsCache(c)
  BY DEF PoolInv
<1>1. c.reclaimable \in Seq(Blocks)
  BY <1>0, FieldTypes
<1>2. ToSet(c.reclaimable) = {x \in Indexed(c) : c.ref[x] = 1}
  BY DEF PoolInv, ListsOK
<1>3. FirstReclaimable(c, n) \subseteq ToSet(c.reclaimable)
  BY <1>1 DEF FirstReclaimable, ToSet
<1> QED BY <1>0, <1>2, <1>3, IndexedBlocks

---------------------------------------------------------------------------
(* The order of the index. *)

(* Both lists keep their elements (PrefixCache::Reorder). *)
LEMMA ReorderEffect ==
    ASSUME NEW c, PoolInv(c), NEW b \in Indexed(c), NEW p \in Ids \cup {NoId},
           FindEntry(c, p) # b
    PROVE  Became(c, Reorder(c, b, p), c.ref, Indexed(c), {})
<1> DEFINE entry == FindEntry(c, p)
           rest == RemoveFirst(c.recency, b)
           pending == RemoveFirst(c.reclaimable, b)
           S == IF p = NoId THEN Append(rest, b)
                ELSE IF entry = NoBlock THEN <<b>> \o rest
                ELSE InsertBefore(rest, b, entry)
           L == IF ~IsReclaimable(c, b) THEN c.reclaimable
                ELSE IF p # NoId /\ entry = NoBlock THEN <<b>> \o pending
                ELSE IF p # NoId /\ IsReclaimable(c, entry)
                THEN InsertBefore(pending, b, entry)
                ELSE Append(pending, b)
           d == Relisted(c, c.ref, S, L, c.promote)
<1>0. IsCache(c)
  BY DEF PoolInv
<1>1. /\ c.ref \in [Blocks -> Nat] /\ c.recency \in Seq(Blocks)
      /\ c.reclaimable \in Seq(Blocks) /\ c.promote \in SUBSET Blocks
  BY <1>0, FieldTypes
<1>2. /\ Distinct(c.recency) /\ Distinct(c.reclaimable)
      /\ ToSet(c.reclaimable) = {x \in Indexed(c) : c.ref[x] = 1}
  BY DEF PoolInv, ListsOK
<1>3. b \in Blocks
  BY <1>0, IndexedBlocks
<1>4. entry = NoBlock \/ entry \in Indexed(c)
  BY FindEntryFacts
<1>5. Reorder(c, b, p) = d
  <2>1. PICK V : c \in CacheType(V)
    BY <1>0 DEF IsCache
  <2>2. Reorder(c, b, p) = [c EXCEPT !.recency = S, !.reclaimable = L]
    BY DEF Reorder
  <2> HIDE DEF S, L
  <2> QED BY <2>1, <2>2 DEF Relisted, CacheType
<1>6. Shrunk(rest, c.recency, b, Blocks) /\ Shrunk(pending, c.reclaimable, b, Blocks)
  BY <1>1, <1>2, RemoveDistinct
<1>7. /\ rest \in Seq(Blocks) /\ Distinct(rest) /\ ToSet(rest) = Indexed(c) \ {b}
      /\ pending \in Seq(Blocks) /\ Distinct(pending)
      /\ ToSet(pending) = ToSet(c.reclaimable) \ {b}
  BY <1>6 DEF Shrunk, Indexed
<1> HIDE DEF rest, pending, d
<1>8. S \in Seq(Blocks) /\ Distinct(S) /\ ToSet(S) = Indexed(c)
  <2>1. b \notin ToSet(rest)
    BY <1>7
  <2>2. Grown(S, rest, b, Blocks)
    <3>1. CASE p = NoId
      BY <1>3, <1>7, <2>1, <3>1, AppendDistinct
    <3>2. CASE p # NoId /\ entry = NoBlock
      BY <1>3, <1>7, <2>1, <3>2, PrependDistinct
    <3>3. CASE p # NoId /\ entry # NoBlock
      <4>1. entry \in ToSet(rest)
        BY <1>4, <1>7, <3>3
      <4> HIDE DEF entry
      <4> QED BY <1>3, <1>7, <2>1, <3>3, <4>1, InsertBeforeDistinct
    <3> QED BY <3>1, <3>2, <3>3
  <2> HIDE DEF S
  <2> QED BY <1>7, <2>2 DEF Grown
<1>9. L \in Seq(Blocks) /\ Distinct(L) /\ ToSet(L) = ToSet(c.reclaimable)
  <2>1. CASE ~IsReclaimable(c, b)
    BY <1>1, <1>2, <2>1
  <2>2. CASE IsReclaimable(c, b)
    <3>1. b \notin ToSet(pending) /\ b \in ToSet(c.reclaimable)
      BY <1>7, <2>2 DEF IsReclaimable
    <3>2. Grown(L, pending, b, Blocks)
      <4>1. CASE p # NoId /\ entry = NoBlock
        BY <1>3, <1>7, <2>2, <3>1, <4>1, PrependDistinct
      <4>2. CASE p # NoId /\ entry # NoBlock /\ IsReclaimable(c, entry)
        <5>1. entry \in ToSet(pending)
          BY <1>7, <4>2 DEF IsReclaimable
        <5> HIDE DEF entry
        <5> QED BY <1>3, <1>7, <2>2, <3>1, <4>2, <5>1, InsertBeforeDistinct
      <4>3. CASE ~(p # NoId /\ entry = NoBlock) /\ ~(p # NoId /\ IsReclaimable(c, entry))
        BY <1>3, <1>7, <2>2, <3>1, <4>3, AppendDistinct
      <4> QED BY <4>1, <4>2, <4>3
    <3> HIDE DEF L
    <3> QED BY <1>7, <3>1, <3>2 DEF Grown
  <2> QED BY <2>1, <2>2
<1> HIDE DEF S, L
<1>10. HasLists(d, c, c.ref, S, L, c.promote)
  BY <1>0, <1>1, <1>8, <1>9, RelistedFacts DEF d
<1>11. /\ IsCache(d) /\ d.ref = c.ref /\ d.recency = S /\ d.reclaimable = L
       /\ ClearedIn(c, d, {}) /\ d.ident = c.ident /\ d.idents = c.idents
  BY <1>10 DEF HasLists
<1>12. Indexed(d) = Indexed(c)
  BY <1>8, <1>11 DEF Indexed
<1>13. ListsOK(d)
  BY <1>2, <1>8, <1>9, <1>11, <1>12 DEF ListsOK
<1>14. IndexOK(d)
  BY <1>11, <1>12 DEF PoolInv, IndexOK
<1> QED BY <1>5, <1>11, <1>12, <1>13, <1>14 DEF Became, PoolInv

(* Refreshing one block of an adopted chain. *)
UseStep(u, v, d, b) ==
    Reorder([d EXCEPT !.promote = @ \cup {b}], b, d.idents[d.ident[b]].parent)
UseFold == INSTANCE FoldLemmas WITH Op <- UseStep

(* One block of an adopted chain is refreshed. *)
LEMMA UseEffect ==
    ASSUME NEW c, PoolInv(c), NEW b \in Indexed(c)
    PROVE  Became(c, UseStep(0, 0, c, b), c.ref, Indexed(c), {})
<1> DEFINE d == Relisted(c, c.ref, c.recency, c.reclaimable, c.promote \cup {b})
           p == c.idents[c.ident[b]].parent
<1>0. IsCache(c)
  BY DEF PoolInv
<1>1. /\ c.ref \in [Blocks -> Nat] /\ c.reclaimable \in Seq(Blocks)
      /\ c.recency \in Seq(Blocks) /\ c.promote \in SUBSET Blocks
  BY <1>0, FieldTypes
<1>2. b \in Blocks /\ p \in Ids \cup {NoId} /\ FindEntry(c, p) # b
  BY ParentFacts
<1>3. /\ Distinct(c.reclaimable) /\ ToSet(c.reclaimable) = {x \in Indexed(c) : c.ref[x] = 1}
      /\ \A x \in Indexed(c) : c.ref[x] >= 1
  BY ParentFacts DEF PoolInv, ListsOK
<1>4. Became(c, d, c.ref, Indexed(c), {})
  <2>1. c.promote \cup {b} \in SUBSET Blocks
    BY <1>1, <1>2
  <2> QED BY <1>1, <1>3, <2>1, RecountedBecame
<1>5. HasLists(d, c, c.ref, c.recency, c.reclaimable, c.promote \cup {b})
  <2>1. c.promote \cup {b} \in SUBSET Blocks
    BY <1>1, <1>2
  <2> QED BY <1>0, <1>1, <2>1, RelistedFacts
<1>6. UseStep(0, 0, c, b) = Reorder(d, b, p)
  <2>1. PICK V : c \in CacheType(V)
    BY <1>0 DEF IsCache
  <2>2. d = [c EXCEPT !.promote = @ \cup {b}]
    BY <2>1 DEF Relisted, CacheType
  <2> HIDE DEF d
  <2> QED BY <2>2 DEF UseStep
<1> HIDE DEF d, p
<1>7. d.ref = c.ref /\ Indexed(d) = Indexed(c) /\ PoolInv(d)
  BY <1>4 DEF Became
<1>8. FindEntry(d, p) = FindEntry(c, p)
  BY <1>5, <1>7 DEF FindEntry, HasLists
<1>9. Became(d, Reorder(d, b, p), d.ref, Indexed(d), {})
  BY <1>2, <1>7, <1>8, ReorderEffect
<1>10. Became(c, Reorder(d, b, p), c.ref, Indexed(c), {} \cup {})
  BY <1>4, <1>7, <1>9, BecameTwice
<1>11. {} \cup {} = {}
  OBVIOUS
<1> QED BY <1>6, <1>10, <1>11

(* A committed adoption changes the order of the index and nothing else    *)
(* (PrefixCache::RecordAdoption).                                          *)
LEMMA RecordAdoptionEffect ==
    ASSUME NEW c, PoolInv(c), NEW s \in Seq(Indexed(c))
    PROVE  Became(c, RecordAdoption(c, s), c.ref, Indexed(c), {})
<1>1. RecordAdoption(c, s) = UseFold!FoldedBy(0, 0, c, s)
  BY DEF RecordAdoption, UseFold!FoldedBy, FoldLeft, MapThenFoldSet,
         UseFold!Greatest, Max, UseStep
<1> DEFINE n == Len(s)
<1>2. n \in Nat /\ DOMAIN s = 1 .. n
  OBVIOUS
<1>ind. UseFold!Induction
  BY NatSetInduction DEF UseFold!Induction
<1>3. PICK h : UseFold!FoldRun(0, 0, h, c, s, n) /\ UseFold!FoldedBy(0, 0, c, s) = h[n]
  BY <1>ind, <1>2, UseFold!FoldRuns
<1>4. h[0] = c /\ \A i \in 1 .. n : h[i] = UseStep(0, 0, h[i - 1], s[i])
  BY <1>3 DEF UseFold!FoldRun
<1> DEFINE S == {k \in 0 .. n : Became(c, h[k], c.ref, Indexed(c), {})}
<1>5. 0 \in S
  BY <1>2, <1>4, BecameItself
<1>6. ASSUME NEW k \in 0 .. n - 1, k \in S PROVE k + 1 \in S
  <2>1. k + 1 \in 1 .. n /\ (k + 1) - 1 = k /\ k + 1 \in 0 .. n
    BY <1>2
  <2>2. h[k + 1] = UseStep(0, 0, h[k], s[k + 1]) /\ s[k + 1] \in Indexed(c)
    BY <1>2, <1>4, <2>1
  <2>3. Became(c, h[k], c.ref, Indexed(c), {})
    BY <1>6
  <2>4. PoolInv(h[k]) /\ Indexed(h[k]) = Indexed(c) /\ h[k].ref = c.ref
    BY <2>3 DEF Became
  <2>5. Became(h[k], h[k + 1], h[k].ref, Indexed(h[k]), {})
    BY <2>2, <2>4, UseEffect
  <2>6. Became(c, h[k + 1], c.ref, Indexed(c), {} \cup {})
    BY <2>3, <2>4, <2>5, BecameTwice
  <2>7. {} \cup {} = {}
    OBVIOUS
  <2> QED BY <2>1, <2>6, <2>7
<1>7. n \in S
  <2> HIDE DEF S, n
  <2>1. 0 .. n \subseteq S
    BY <1>2, <1>5, <1>6, RangeInduction
  <2> QED BY <1>2, <2>1
<1> QED BY <1>1, <1>3, <1>7

(* Recording the adoptions of a step, as a fold. *)
AdoptionStep(u, v, c, s) == RecordAdoption(c, s)
AdoptionFold == INSTANCE FoldLemmas WITH Op <- AdoptionStep

(* The adoptions of a whole step, one after the other. *)
LEMMA RecordAdoptionsEffect ==
    ASSUME NEW c, PoolInv(c), NEW n \in Nat, NEW ms, DOMAIN ms = 1 .. n,
           \A i \in 1 .. n : ms[i] \in Seq(Indexed(c))
    PROVE  Became(c, FoldLeft(RecordAdoption, c, ms), c.ref, Indexed(c), {})
<1>ind. AdoptionFold!Induction
  BY NatSetInduction DEF AdoptionFold!Induction
<1>1. FoldLeft(RecordAdoption, c, ms) = AdoptionFold!FoldedBy(0, 0, c, ms)
  BY DEF AdoptionFold!FoldedBy, FoldLeft, MapThenFoldSet, AdoptionFold!Greatest, Max, AdoptionStep
<1>2. PICK h : AdoptionFold!FoldRun(0, 0, h, c, ms, n)
               /\ AdoptionFold!FoldedBy(0, 0, c, ms) = h[n]
  BY <1>ind, AdoptionFold!FoldRuns
<1>3. h[0] = c /\ \A i \in 1 .. n : h[i] = RecordAdoption(h[i - 1], ms[i])
  BY <1>2 DEF AdoptionFold!FoldRun, AdoptionStep
<1> DEFINE S == {k \in 0 .. n : Became(c, h[k], c.ref, Indexed(c), {})}
<1>4. 0 \in S
  BY <1>3, BecameItself
<1>5. ASSUME NEW k \in 0 .. n - 1, k \in S PROVE k + 1 \in S
  <2>1. k + 1 \in 1 .. n /\ (k + 1) - 1 = k /\ k + 1 \in 0 .. n
    OBVIOUS
  <2>2. h[k + 1] = RecordAdoption(h[k], ms[k + 1]) /\ ms[k + 1] \in Seq(Indexed(c))
    BY <1>3, <2>1
  <2>3. Became(c, h[k], c.ref, Indexed(c), {})
    BY <1>5
  <2>4. PoolInv(h[k]) /\ Indexed(h[k]) = Indexed(c) /\ h[k].ref = c.ref
    BY <2>3 DEF Became
  <2>5. Became(h[k], h[k + 1], c.ref, Indexed(c), {})
    <3>1. Became(h[k], RecordAdoption(h[k], ms[k + 1]), h[k].ref, Indexed(h[k]), {})
      BY <2>2, <2>4, RecordAdoptionEffect
    <3> QED BY <2>2, <2>4, <3>1
  <2>6. Became(c, h[k + 1], c.ref, Indexed(c), {} \cup {})
    BY <2>3, <2>5, BecameTwice
  <2>7. {} \cup {} = {}
    OBVIOUS
  <2> QED BY <2>1, <2>6, <2>7
<1>6. n \in S
  <2> HIDE DEF S
  <2>1. 0 .. n \subseteq S
    BY <1>4, <1>5, RangeInduction
  <2> QED BY <2>1
<1> QED BY <1>1, <1>2, <1>6

---------------------------------------------------------------------------
(* References taken and given up along sequences of blocks. *)

(* How many of the first n sequences list x. *)
Count(ms, n, x) == Cardinality({i \in 1 .. n : x \in ToSet(ms[i])})

(* The count, one sequence at a time. *)
LEMMA CountStep ==
    ASSUME NEW ms, NEW x, NEW n \in Nat
    PROVE  /\ Count(ms, 0, x) = 0 /\ Count(ms, n, x) \in Nat
           /\ Count(ms, n + 1, x) = Count(ms, n, x) + Bit(x \in ToSet(ms[n + 1]))
<1> DEFINE U(k) == {i \in 1 .. k : x \in ToSet(ms[i])}
<1>1. ASSUME NEW k \in Nat PROVE IsFiniteSet(U(k)) /\ Cardinality(U(k)) \in Nat
  <2>1. IsFiniteSet(1 .. k)
    BY FS_Interval
  <2>2. U(k) \subseteq 1 .. k
    OBVIOUS
  <2>3. IsFiniteSet(U(k))
    BY <2>1, <2>2, FS_Subset
  <2> QED BY <2>3, FS_CardinalityType
<1>2. U(0) = {}
  OBVIOUS
<1>3. Count(ms, 0, x) = 0
  BY <1>2, FS_EmptySet DEF Count
<1>4. CASE x \in ToSet(ms[n + 1])
  <2>1. U(n + 1) = U(n) \cup {n + 1} /\ n + 1 \notin U(n)
    BY <1>4
  <2>2. Cardinality(U(n) \cup {n + 1}) = Cardinality(U(n)) + 1
    <3> HIDE DEF U
    <3> QED BY <1>1, <2>1, FS_AddElement
  <2> QED BY <1>1, <1>3, <1>4, <2>1, <2>2 DEF Count, Bit
<1>5. CASE x \notin ToSet(ms[n + 1])
  <2>1. U(n + 1) = U(n)
    BY <1>5
  <2>2. Cardinality(U(n + 1)) = Cardinality(U(n)) + 0 /\ Cardinality(U(n)) \in Nat
    <3> HIDE DEF U
    <3> QED BY <1>1, <2>1
  <2> QED BY <1>3, <1>5, <2>2 DEF Count, Bit
<1> QED BY <1>4, <1>5

(* Adding references in order, as a fold. *)
AddRefStep(u, v, c, b) == AddRef(c, b)
AddRefFold == INSTANCE FoldLemmas WITH Op <- AddRefStep

(* One reference on each block of a sequence. *)
LEMMA AddRefSeq ==
    ASSUME NEW c, PoolInv(c), NEW s \in Seq(Blocks), Distinct(s),
           \A x \in ToSet(s) : c.ref[x] >= 1
    PROVE  Became(c, AddRefFold!FoldedBy(0, 0, c, s),
                  [x \in Blocks |-> c.ref[x] + Bit(x \in ToSet(s))], Indexed(c), {})
<1> DEFINE n == Len(s)
           T(k) == {s[i] : i \in 1 .. k}
           R(k) == [x \in Blocks |-> c.ref[x] + Bit(x \in T(k))]
<1>0. c.ref \in [Blocks -> Nat]
  BY FieldTypes DEF PoolInv
<1>2. n \in Nat /\ DOMAIN s = 1 .. n
  OBVIOUS
<1>ind. AddRefFold!Induction
  BY NatSetInduction DEF AddRefFold!Induction
<1>3. PICK h : AddRefFold!FoldRun(0, 0, h, c, s, n)
               /\ AddRefFold!FoldedBy(0, 0, c, s) = h[n]
  BY <1>ind, <1>2, AddRefFold!FoldRuns
<1>4. h[0] = c /\ \A i \in 1 .. n : h[i] = AddRef(h[i - 1], s[i])
  BY <1>3 DEF AddRefFold!FoldRun, AddRefStep
<1> DEFINE S == {k \in 0 .. n : Became(c, h[k], R(k), Indexed(c), {})}
<1>5. 0 \in S
  <2>1. T(0) = {}
    OBVIOUS
  <2>2. R(0) = c.ref
    BY <1>0, <2>1 DEF Bit
  <2>3. Became(c, h[0], R(0), Indexed(c), {})
    BY <1>4, <2>2, BecameItself
  <2> QED BY <1>2, <2>3
<1>6. ASSUME NEW k \in 0 .. n - 1, k \in S PROVE k + 1 \in S
  <2> DEFINE b == s[k + 1]
             d == h[k]
             e == h[k + 1]
  <2>1. k + 1 \in 1 .. n /\ (k + 1) - 1 = k /\ k + 1 \in 0 .. n /\ k \in Nat
    BY <1>2
  <2>2. e = AddRef(d, b) /\ b \in Blocks /\ b \in ToSet(s)
    BY <1>2, <1>4, <2>1 DEF ToSet
  <2>3. Became(c, d, R(k), Indexed(c), {})
    BY <1>6
  <2>4. b \notin T(k)
    <3> SUFFICES ASSUME NEW i \in 1 .. k, s[i] = b PROVE FALSE
      OBVIOUS
    <3>1. i \in DOMAIN s /\ k + 1 \in DOMAIN s /\ i # k + 1
      BY <1>2, <2>1
    <3> QED BY <3>1 DEF Distinct
  <2>5. T(k + 1) = T(k) \cup {b}
    BY <2>1
  <2> HIDE DEF T, b, d, e, n
  <2>6. PoolInv(d) /\ Indexed(d) = Indexed(c) /\ d.ref = R(k)
    BY <2>3 DEF Became
  <2>7. d.ref[b] >= 1
    BY <1>0, <2>2, <2>6 DEF Bit
  <2>8. Became(d, e, [x \in Blocks |-> d.ref[x] + Bit(x = b)], Indexed(d), {})
    BY <2>2, <2>6, <2>7, AddRefEffect
  <2>9. [x \in Blocks |-> d.ref[x] + Bit(x = b)] = R(k + 1)
    <3>1. ASSUME NEW x \in Blocks PROVE d.ref[x] + Bit(x = b) = R(k + 1)[x]
      <4>1. d.ref[x] = c.ref[x] + Bit(x \in T(k)) /\ c.ref[x] \in Nat
        BY <1>0, <2>6
      <4>2. R(k + 1)[x] = c.ref[x] + Bit(x \in T(k) \cup {b})
        BY <2>5
      <4> QED BY <2>4, <4>1, <4>2 DEF Bit
    <3> QED BY <3>1
  <2>10. Became(c, e, R(k + 1), Indexed(c), {} \cup {})
    <3> HIDE DEF R
    <3> QED BY <2>3, <2>6, <2>8, <2>9, BecameTwice
  <2>11. {} \cup {} = {}
    OBVIOUS
  <2> QED BY <2>1, <2>10, <2>11 DEF e
<1>7. n \in S
  <2> HIDE DEF S, n
  <2>1. 0 .. n \subseteq S
    BY <1>2, <1>5, <1>6, RangeInduction
  <2> QED BY <1>2, <2>1
<1>8. T(n) = ToSet(s)
  BY DEF ToSet
<1> QED BY <1>3, <1>7, <1>8

(* References on the blocks of several sequences, as a reservation takes   *)
(* them: a block gets one for each sequence that lists it.                 *)
LEMMA AddRefsEffect ==
    ASSUME NEW c, PoolInv(c), NEW n \in Nat, NEW ms \in [1 .. n -> Seq(Blocks)],
           \A i \in 1 .. n : Distinct(ms[i]) /\ \A x \in ToSet(ms[i]) : c.ref[x] >= 1
    PROVE  Became(c, FoldLeft(AddRef, c, FlattenSeq(ms)),
                  [x \in Blocks |-> c.ref[x] + Count(ms, n, x)], Indexed(c), {})
<1>0. c.ref \in [Blocks -> Nat]
  BY FieldTypes DEF PoolInv
<1>1. FoldLeft(AddRef, c, FlattenSeq(ms)) = AddRefFold!FoldedBy(0, 0, c, FlattenSeq(ms))
  BY DEF AddRefFold!FoldedBy, FoldLeft, MapThenFoldSet,
         AddRefFold!Greatest, Max, AddRefStep
<1>2. PICK f \in [0 .. n -> Seq(Blocks)] : Concatenates(f, ms, n)
  BY FlattenPieces
<1>f. f[0] = <<>> /\ FlattenSeq(ms) = f[n] /\ \A i \in 1 .. n : f[i] = f[i - 1] \o ms[i]
  BY <1>2 DEF Concatenates
<1>ind. AddRefFold!Induction
  BY NatSetInduction DEF AddRefFold!Induction
<1>3. PICK g : AddRefFold!SequenceRun(0, 0, g, c, ms, n)
               /\ AddRefFold!FoldedBy(0, 0, c, f[n]) = g[n]
  <2>1. AddRefFold!Pieces(f, ms, n, Blocks)
    BY <1>f DEF AddRefFold!Pieces
  <2>2. AddRefFold!RunsByPieces(0, 0, c, f, ms, n)
    BY <1>ind, <2>1, AddRefFold!FoldPieces
  <2> QED BY <2>2 DEF AddRefFold!RunsByPieces
<1>4. g[0] = c /\ \A i \in 1 .. n : g[i] = AddRefFold!FoldedBy(0, 0, g[i - 1], ms[i])
  BY <1>3 DEF AddRefFold!SequenceRun
<1> DEFINE R(k) == [x \in Blocks |-> c.ref[x] + Count(ms, k, x)]
           S == {k \in 0 .. n : Became(c, g[k], R(k), Indexed(c), {})}
<1>5. 0 \in S
  <2>1. R(0) = c.ref
    BY <1>0, CountStep
  <2>2. Became(c, g[0], R(0), Indexed(c), {})
    BY <1>4, <2>1, BecameItself
  <2> QED BY <2>2
<1>6. ASSUME NEW k \in 0 .. n - 1, k \in S PROVE k + 1 \in S
  <2> DEFINE s == ms[k + 1]
             d == g[k]
             e == g[k + 1]
  <2>1. k + 1 \in 1 .. n /\ (k + 1) - 1 = k /\ k + 1 \in 0 .. n /\ k \in Nat
    OBVIOUS
  <2>2. /\ e = AddRefFold!FoldedBy(0, 0, d, s) /\ s \in Seq(Blocks) /\ Distinct(s)
        /\ \A x \in ToSet(s) : c.ref[x] >= 1
    BY <1>4, <2>1
  <2>3. Became(c, d, R(k), Indexed(c), {})
    BY <1>6
  <2> HIDE DEF d, e
  <2>6. PoolInv(d) /\ Indexed(d) = Indexed(c) /\ d.ref = R(k)
    BY <2>3 DEF Became
  <2>7. \A x \in ToSet(s) : d.ref[x] >= 1
    <3> SUFFICES ASSUME NEW x \in ToSet(s) PROVE d.ref[x] >= 1
      OBVIOUS
    <3>1. x \in Blocks /\ c.ref[x] >= 1 /\ c.ref[x] \in Nat
      BY <1>0, <2>2, ListBlocks
    <3>2. Count(ms, k, x) \in Nat
      BY <2>1, CountStep
    <3> QED BY <2>6, <3>1, <3>2
  <2>8. Became(d, e, [x \in Blocks |-> d.ref[x] + Bit(x \in ToSet(s))], Indexed(d), {})
    BY <2>2, <2>6, <2>7, AddRefSeq
  <2>9. [x \in Blocks |-> d.ref[x] + Bit(x \in ToSet(s))] = R(k + 1)
    <3>1. ASSUME NEW x \in Blocks PROVE d.ref[x] + Bit(x \in ToSet(s)) = R(k + 1)[x]
      <4>1. d.ref[x] = c.ref[x] + Count(ms, k, x) /\ c.ref[x] \in Nat
        BY <1>0, <2>6
      <4>2. Count(ms, k, x) \in Nat
            /\ Count(ms, k + 1, x) = Count(ms, k, x) + Bit(x \in ToSet(s))
        BY <2>1, CountStep
      <4>3. Bit(x \in ToSet(s)) \in Nat
        BY DEF Bit
      <4> QED BY <4>1, <4>2, <4>3
    <3> QED BY <3>1
  <2>10. Became(c, e, R(k + 1), Indexed(c), {} \cup {})
    <3> HIDE DEF R
    <3> QED BY <2>3, <2>6, <2>8, <2>9, BecameTwice
  <2>11. {} \cup {} = {}
    OBVIOUS
  <2> QED BY <2>1, <2>10, <2>11 DEF e
<1>7. n \in S
  <2> HIDE DEF S
  <2>1. 0 .. n \subseteq S
    BY <1>5, <1>6, RangeInduction
  <2> QED BY <2>1
<1> QED BY <1>1, <1>3, <1>7, <1>f

(* Releasing references in order, as a fold. *)
ReleaseStep(u, v, c, b) == ReleaseRef(c, b)
ReleaseFold == INSTANCE FoldLemmas WITH Op <- ReleaseStep

(* FreeValidated is a fold of ReleaseRef. *)
LEMMA FreeIsFold ==
    ASSUME NEW c, NEW s
    PROVE  FreeValidated(c, s) = ReleaseFold!FoldedBy(0, 0, c, s)
BY DEF FreeValidated, ReleaseFold!FoldedBy, FoldLeft, MapThenFoldSet,
       ReleaseFold!Greatest, Max, ReleaseStep

(* A table gives up its blocks: each loses a reference, and the ones that  *)
(* had no other are emptied.                                               *)
LEMMA ReleaseSeq ==
    ASSUME NEW c, PoolInv(c), NEW s \in Seq(Blocks), Distinct(s),
           \A x \in ToSet(s) : c.ref[x] >= 1 + Bit(x \in Indexed(c))
    PROVE  Became(c, FreeValidated(c, s), [x \in Blocks |-> c.ref[x] - Bit(x \in ToSet(s))],
                  Indexed(c), {x \in ToSet(s) : c.ref[x] = 1})
<1> DEFINE n == Len(s)
           T(k) == {s[i] : i \in 1 .. k}
           R(k) == [x \in Blocks |-> c.ref[x] - Bit(x \in T(k))]
           F(k) == {x \in T(k) : c.ref[x] = 1}
<1>0. c.ref \in [Blocks -> Nat]
  BY FieldTypes DEF PoolInv
<1>2. n \in Nat /\ DOMAIN s = 1 .. n
  OBVIOUS
<1>ind. ReleaseFold!Induction
  BY NatSetInduction DEF ReleaseFold!Induction
<1>3. PICK h : ReleaseFold!FoldRun(0, 0, h, c, s, n)
               /\ ReleaseFold!FoldedBy(0, 0, c, s) = h[n]
  BY <1>ind, <1>2, ReleaseFold!FoldRuns
<1>4. h[0] = c /\ \A i \in 1 .. n : h[i] = ReleaseRef(h[i - 1], s[i])
  BY <1>3 DEF ReleaseFold!FoldRun, ReleaseStep
<1> DEFINE S == {k \in 0 .. n : Became(c, h[k], R(k), Indexed(c), F(k))}
<1>5. 0 \in S
  <2>1. T(0) = {} /\ F(0) = {}
    OBVIOUS
  <2>2. R(0) = c.ref
    BY <1>0, <2>1 DEF Bit
  <2>3. Became(c, h[0], R(0), Indexed(c), F(0))
    <3> HIDE DEF R, F
    <3> QED BY <1>4, <2>1, <2>2, BecameItself
  <2> QED BY <1>2, <2>3
<1>6. ASSUME NEW k \in 0 .. n - 1, k \in S PROVE k + 1 \in S
  <2> DEFINE b == s[k + 1]
             d == h[k]
             e == h[k + 1]
  <2>1. k + 1 \in 1 .. n /\ (k + 1) - 1 = k /\ k + 1 \in 0 .. n /\ k \in Nat
    BY <1>2
  <2>2. e = ReleaseRef(d, b) /\ b \in Blocks /\ b \in ToSet(s)
    BY <1>2, <1>4, <2>1 DEF ToSet
  <2>3. Became(c, d, R(k), Indexed(c), F(k))
    BY <1>6
  <2>4. b \notin T(k)
    <3> SUFFICES ASSUME NEW i \in 1 .. k, s[i] = b PROVE FALSE
      OBVIOUS
    <3>1. i \in DOMAIN s /\ k + 1 \in DOMAIN s /\ i # k + 1
      BY <1>2, <2>1
    <3> QED BY <3>1 DEF Distinct
  <2>5. T(k + 1) = T(k) \cup {b}
    BY <2>1
  <2> HIDE DEF T, b, d, e, n
  <2>6. PoolInv(d) /\ Indexed(d) = Indexed(c) /\ d.ref = R(k)
    BY <2>3 DEF Became
  <2>7. d.ref[b] = c.ref[b] /\ d.ref[b] >= 1 + Bit(b \in Indexed(d))
    <3>1. d.ref[b] = c.ref[b] - Bit(b \in T(k)) /\ c.ref[b] \in Nat
      BY <1>0, <2>2, <2>6
    <3>2. d.ref[b] = c.ref[b]
      BY <2>4, <3>1 DEF Bit
    <3> QED BY <2>2, <2>6, <3>2
  <2>8. Became(d, e, [x \in Blocks |-> d.ref[x] - Bit(x = b)], Indexed(d),
               {x \in {b} : d.ref[x] = 1})
    BY <2>2, <2>6, <2>7, ReleaseRefEffect
  <2>9. [x \in Blocks |-> d.ref[x] - Bit(x = b)] = R(k + 1)
    <3>1. ASSUME NEW x \in Blocks PROVE d.ref[x] - Bit(x = b) = R(k + 1)[x]
      <4>1. d.ref[x] = c.ref[x] - Bit(x \in T(k)) /\ c.ref[x] \in Nat
        BY <1>0, <2>6
      <4>2. R(k + 1)[x] = c.ref[x] - Bit(x \in T(k) \cup {b})
        BY <2>5
      <4> QED BY <2>4, <4>1, <4>2 DEF Bit
    <3> QED BY <3>1
  <2>10. F(k) \cup {x \in {b} : d.ref[x] = 1} = F(k + 1)
    BY <2>5, <2>7
  <2>11. Became(c, e, R(k + 1), Indexed(c), F(k + 1))
    <3> HIDE DEF R, F
    <3>1. Became(c, e, R(k + 1), Indexed(c), F(k) \cup {x \in {b} : d.ref[x] = 1})
      BY <2>3, <2>6, <2>8, <2>9, BecameTwice
    <3> QED BY <2>10, <3>1
  <2> QED BY <2>1, <2>11 DEF e
<1>7. n \in S
  <2> HIDE DEF S, n
  <2>1. 0 .. n \subseteq S
    BY <1>2, <1>5, <1>6, RangeInduction
  <2> QED BY <1>2, <2>1
<1>8. T(n) = ToSet(s)
  BY DEF ToSet
<1> QED BY <1>3, <1>7, <1>8, FreeIsFold

(* More sequences list a block at least as often. *)
LEMMA CountGrows ==
    ASSUME NEW ms, NEW x, NEW n \in Nat, NEW k \in 0 .. n
    PROVE  Count(ms, k, x) <= Count(ms, n, x)
<1>1. IsFiniteSet(1 .. n)
  BY FS_Interval
<1>2. IsFiniteSet({i \in 1 .. n : x \in ToSet(ms[i])})
  BY <1>1, FS_Subset
<1>3. {i \in 1 .. k : x \in ToSet(ms[i])} \subseteq {i \in 1 .. n : x \in ToSet(ms[i])}
  OBVIOUS
<1> QED BY <1>2, <1>3, FS_Subset DEF Count

(* A rollback: every reference of several sequences is given up. *)
LEMMA ReleasesEffect ==
    ASSUME NEW c, PoolInv(c), NEW n \in Nat, NEW ms \in [1 .. n -> Seq(Blocks)],
           \A i \in 1 .. n : Distinct(ms[i]),
           \A x \in Blocks : c.ref[x] >= Count(ms, n, x) + Bit(x \in Indexed(c))
    PROVE  Became(c, FreeValidated(c, FlattenSeq(ms)),
                  [x \in Blocks |-> c.ref[x] - Count(ms, n, x)], Indexed(c),
                  {x \in Blocks : Count(ms, n, x) >= 1 /\ c.ref[x] = Count(ms, n, x)})
<1>0. c.ref \in [Blocks -> Nat]
  BY FieldTypes DEF PoolInv
<1>1. FreeValidated(c, FlattenSeq(ms)) = ReleaseFold!FoldedBy(0, 0, c, FlattenSeq(ms))
  BY FreeIsFold
<1>2. PICK f \in [0 .. n -> Seq(Blocks)] : Concatenates(f, ms, n)
  BY FlattenPieces
<1>f. f[0] = <<>> /\ FlattenSeq(ms) = f[n] /\ \A i \in 1 .. n : f[i] = f[i - 1] \o ms[i]
  BY <1>2 DEF Concatenates
<1>3. PICK g : ReleaseFold!SequenceRun(0, 0, g, c, ms, n)
               /\ ReleaseFold!FoldedBy(0, 0, c, f[n]) = g[n]
  <2>1. ReleaseFold!Pieces(f, ms, n, Blocks)
    BY <1>f DEF ReleaseFold!Pieces
  <2>2. ReleaseFold!Induction
    BY NatSetInduction DEF ReleaseFold!Induction
  <2>3. ReleaseFold!RunsByPieces(0, 0, c, f, ms, n)
    BY <2>1, <2>2, ReleaseFold!FoldPieces
  <2> QED BY <2>3 DEF ReleaseFold!RunsByPieces
<1>4. g[0] = c /\ \A i \in 1 .. n : g[i] = FreeValidated(g[i - 1], ms[i])
  BY <1>3, FreeIsFold DEF ReleaseFold!SequenceRun
<1> DEFINE R(k) == [x \in Blocks |-> c.ref[x] - Count(ms, k, x)]
           F(k) == {x \in Blocks : Count(ms, k, x) >= 1 /\ c.ref[x] = Count(ms, k, x)}
           S == {k \in 0 .. n : Became(c, g[k], R(k), Indexed(c), F(k))}
<1>5. 0 \in S
  <2>1. \A x : Count(ms, 0, x) = 0
    BY CountStep
  <2>2. R(0) = c.ref /\ F(0) = {}
    BY <1>0, <2>1
  <2>3. Became(c, g[0], R(0), Indexed(c), F(0))
    <3> HIDE DEF R, F
    <3> QED BY <1>4, <2>2, BecameItself
  <2> QED BY <2>3
<1>6. ASSUME NEW k \in 0 .. n - 1, k \in S PROVE k + 1 \in S
  <2> DEFINE s == ms[k + 1]
             d == g[k]
             e == g[k + 1]
  <2>1. k + 1 \in 1 .. n /\ (k + 1) - 1 = k /\ k + 1 \in 0 .. n /\ k \in Nat
    OBVIOUS
  <2>2. e = FreeValidated(d, s) /\ s \in Seq(Blocks) /\ Distinct(s)
    BY <1>4, <2>1
  <2>3. Became(c, d, R(k), Indexed(c), F(k))
    BY <1>6
  <2> HIDE DEF d, e
  <2>4. PoolInv(d) /\ Indexed(d) = Indexed(c) /\ d.ref = R(k)
    BY <2>3 DEF Became
  <2>5. ToSet(s) \subseteq Blocks
    BY <2>2, ListBlocks
  <2> HIDE DEF s
  <2>6. ASSUME NEW x \in Blocks
        PROVE  /\ Count(ms, k, x) \in Nat /\ c.ref[x] \in Nat
               /\ Count(ms, k + 1, x) = Count(ms, k, x) + Bit(x \in ToSet(s))
               /\ c.ref[x] >= Count(ms, k + 1, x) + Bit(x \in Indexed(c))
               /\ d.ref[x] = c.ref[x] - Count(ms, k, x)
    <3>1. /\ Count(ms, k, x) \in Nat
          /\ Count(ms, k + 1, x) = Count(ms, k, x) + Bit(x \in ToSet(s))
      BY <2>1, CountStep DEF s
    <3>2. Count(ms, k + 1, x) <= Count(ms, n, x) /\ Count(ms, n, x) \in Nat
      BY <2>1, CountGrows, CountStep
    <3>3. d.ref[x] = c.ref[x] - Count(ms, k, x) /\ c.ref[x] \in Nat
      BY <1>0, <2>4
    <3>4. c.ref[x] >= Count(ms, n, x) + Bit(x \in Indexed(c))
      OBVIOUS
    <3>5. Bit(x \in Indexed(c)) \in Nat /\ Bit(x \in ToSet(s)) \in Nat
      BY DEF Bit
    <3>6. c.ref[x] >= Count(ms, k + 1, x) + Bit(x \in Indexed(c))
      <4> DEFINE p == Count(ms, k + 1, x)
                 q == Count(ms, n, x)
                 w == Bit(x \in Indexed(c))
                 v == c.ref[x]
      <4>1. p \in Nat
        <5>1. k + 1 \in Nat
          BY <2>1
        <5> QED BY <5>1, CountStep
      <4>2. q \in Nat /\ w \in Nat /\ v \in Nat /\ p <= q /\ v >= q + w
        BY <3>2, <3>3, <3>4, <3>5
      <4> HIDE DEF p, q, w, v
      <4>3. v >= p + w
        BY <4>1, <4>2
      <4> QED BY <4>3 DEF p, w, v
    <3> QED BY <3>1, <3>3, <3>6
  <2>7. \A x \in ToSet(s) : d.ref[x] >= 1 + Bit(x \in Indexed(d))
    <3> SUFFICES ASSUME NEW x \in ToSet(s) PROVE d.ref[x] >= 1 + Bit(x \in Indexed(d))
      OBVIOUS
    <3>1. x \in Blocks
      BY <2>5
    <3>2. Bit(x \in ToSet(s)) = 1 /\ Bit(x \in Indexed(c)) \in Nat
      BY DEF Bit
    <3>3. /\ Count(ms, k, x) \in Nat /\ c.ref[x] \in Nat
          /\ Count(ms, k + 1, x) = Count(ms, k, x) + Bit(x \in ToSet(s))
          /\ c.ref[x] >= Count(ms, k + 1, x) + Bit(x \in Indexed(c))
          /\ d.ref[x] = c.ref[x] - Count(ms, k, x)
      BY <2>6, <3>1
    <3> QED BY <2>4, <3>2, <3>3
  <2>8. Became(d, e, [x \in Blocks |-> d.ref[x] - Bit(x \in ToSet(s))], Indexed(d),
               {x \in ToSet(s) : d.ref[x] = 1})
    BY <2>2, <2>4, <2>7, ReleaseSeq
  <2>9. [x \in Blocks |-> d.ref[x] - Bit(x \in ToSet(s))] = R(k + 1)
    <3>1. ASSUME NEW x \in Blocks PROVE d.ref[x] - Bit(x \in ToSet(s)) = R(k + 1)[x]
      <4>1. Bit(x \in ToSet(s)) \in Nat
        BY DEF Bit
      <4> QED BY <2>6, <4>1
    <3> QED BY <3>1
  <2>10. F(k) \cup {x \in ToSet(s) : d.ref[x] = 1} = F(k + 1)
    <3>1. ASSUME NEW x \in Blocks
          PROVE  x \in F(k + 1) <=> x \in F(k) \/ (x \in ToSet(s) /\ d.ref[x] = 1)
      <4>1. CASE x \in ToSet(s)
        <5>1. Bit(x \in ToSet(s)) = 1 /\ Bit(x \in Indexed(c)) \in Nat
          BY <4>1 DEF Bit
        <5>2. /\ Count(ms, k, x) \in Nat /\ c.ref[x] \in Nat
              /\ Count(ms, k + 1, x) = Count(ms, k, x) + 1
              /\ c.ref[x] >= Count(ms, k + 1, x)
              /\ d.ref[x] = c.ref[x] - Count(ms, k, x)
          BY <2>6, <5>1
        <5>3. /\ d.ref[x] = 1 <=> c.ref[x] = Count(ms, k + 1, x)
              /\ c.ref[x] # Count(ms, k, x) /\ Count(ms, k + 1, x) >= 1
          <6> DEFINE a == Count(ms, k, x)
                     b == Count(ms, k + 1, x)
                     r == c.ref[x]
                     q == d.ref[x]
          <6>1. a \in Nat /\ r \in Nat /\ b = a + 1 /\ r >= b /\ q = r - a
            BY <5>2
          <6> HIDE DEF a, b, r, q
          <6>2. (q = 1 <=> r = b) /\ r # a /\ b >= 1
            BY <6>1
          <6> QED BY <6>2 DEF a, b, r, q
        <5> QED BY <4>1, <5>3
      <4>2. CASE x \notin ToSet(s)
        BY <2>6, <4>2 DEF Bit
      <4> QED BY <4>1, <4>2
    <3> QED BY <2>5, <3>1
  <2>11. Became(c, e, R(k + 1), Indexed(c), F(k + 1))
    <3> HIDE DEF R, F
    <3>1. Became(c, e, R(k + 1), Indexed(c), F(k) \cup {x \in ToSet(s) : d.ref[x] = 1})
      BY <2>3, <2>4, <2>8, <2>9, BecameTwice
    <3> QED BY <2>10, <3>1
  <2> QED BY <2>1, <2>11 DEF e
<1>7. n \in S
  <2> HIDE DEF S
  <2>1. 0 .. n \subseteq S
    BY <1>5, <1>6, RangeInduction
  <2> QED BY <2>1
<1> QED BY <1>1, <1>3, <1>7, <1>f

---------------------------------------------------------------------------
(* Fresh blocks. *)

(* How many elements of S are below b. *)
Below(S, b) == {a \in S : a < b}

(* A finite set of numbers has an element of every rank. *)
LEMMA RankExists ==
    ASSUME NEW S \in SUBSET Nat, IsFiniteSet(S), NEW k \in Nat, k < Cardinality(S)
    PROVE  \E b \in S : Cardinality(Below(S, b)) = k
<1> DEFINE Q == {j \in Nat : j < Cardinality(S) => \E b \in S : Cardinality(Below(S, b)) = j}
<1>0. Cardinality(S) \in Nat
  BY FS_CardinalityType
<1>1. 0 \in Q
  <2> SUFFICES ASSUME 0 < Cardinality(S) PROVE \E b \in S : Cardinality(Below(S, b)) = 0
    OBVIOUS
  <2>1. S # {}
    BY FS_EmptySet
  <2>2. PICK b \in S : \A a \in S : b <= a
    BY <2>1, NatLeast
  <2>3. Below(S, b) = {}
    <3> SUFFICES ASSUME NEW a \in S, a < b PROVE FALSE
      BY DEF Below
    <3>1. a \in Nat /\ b \in Nat /\ b <= a
      BY <2>2
    <3> QED BY <3>1
  <2> QED BY <2>3, FS_EmptySet
<1>2. ASSUME NEW j \in Nat, j \in Q PROVE j + 1 \in Q
  <2> SUFFICES ASSUME j + 1 < Cardinality(S)
               PROVE  \E b \in S : Cardinality(Below(S, b)) = j + 1
    OBVIOUS
  <2>1. PICK b \in S : Cardinality(Below(S, b)) = j
    BY <1>0, <1>2
  <2> DEFINE U == Below(S, b) \cup {b}
  <2>2. Below(S, b) \in SUBSET S /\ b \notin Below(S, b)
    BY DEF Below
  <2>3. IsFiniteSet(Below(S, b)) /\ Cardinality(U) = j + 1 /\ U \subseteq S
    BY <2>1, <2>2, FS_Subset, FS_AddElement
  <2>4. S \ U # {} /\ S \ U \in SUBSET Nat
    <3>1. U # S
      BY <1>0, <2>3
    <3> QED BY <2>3, <3>1
  <2>5. PICK e \in S \ U : \A a \in S \ U : e <= a
    <3> HIDE DEF U
    <3> QED BY <2>4, NatLeast
  <2>6. Below(S, e) = U
    <3>1. b < e
      BY <2>5 DEF Below
    <3>2. ASSUME NEW a \in S PROVE a < e <=> a \in U
      <4>1. a \in Nat /\ b \in Nat /\ e \in Nat
        BY <2>5
      <4>2. a \in U <=> a < b \/ a = b
        BY DEF Below
      <4>3. a \notin U => e <= a
        BY <2>5
      <4> QED BY <3>1, <4>1, <4>2, <4>3
    <3> QED BY <2>3, <3>2 DEF Below
  <2> QED BY <2>3, <2>5, <2>6
<1>3. Nat \subseteq Q
  <2> HIDE DEF Q
  <2> QED BY <1>1, <1>2, NatSetInduction
<1> QED BY <1>3

(* The pool is finite. *)
LEMMA BlocksFinite == IsFiniteSet(Blocks)
<1>1. 0 \in Int /\ NumBlocks - 1 \in Int
  BY PoolAssumption
<1> QED BY <1>1, FS_Interval DEF Blocks

(* s lists n elements of S, each once. *)
Picks(s, n, S) == s \in Seq(S) /\ Len(s) = n /\ Distinct(s) /\ ToSet(s) \subseteq S

(* The lowest elements of a set of blocks are that many elements of it. *)
LEMMA LowestFacts ==
    ASSUME NEW S \in SUBSET Blocks, NEW n \in Nat, n <= Cardinality(S)
    PROVE  Picks(Lowest(S, n), n, S)
<1> DEFINE s == Lowest(S, n)
<1>1. S \in SUBSET Nat /\ IsFiniteSet(S) /\ Cardinality(S) \in Nat
  BY BlocksFacts, BlocksFinite, FS_Subset, FS_CardinalityType
<1>2. ASSUME NEW k \in 1 .. n
      PROVE  s[k] \in S /\ Cardinality(Below(S, s[k])) = k - 1
  <2>1. k - 1 \in Nat /\ k - 1 < Cardinality(S)
    BY <1>1
  <2>2. \E b \in S : Cardinality(Below(S, b)) = k - 1
    BY <1>1, <2>1, RankExists
  <2>3. s[k] = CHOOSE b \in S : Cardinality(Below(S, b)) = k - 1
    BY DEF Lowest, Below
  <2> QED BY <2>2, <2>3
<1>3. DOMAIN s = 1 .. n /\ s = [k \in 1 .. n |-> s[k]]
  <2> DEFINE e(k) == CHOOSE b \in S : Cardinality({a \in S : a < b}) = k - 1
  <2>1. s = [k \in 1 .. n |-> e(k)]
    BY DEF Lowest
  <2> HIDE DEF e, s
  <2> QED BY <2>1
<1> HIDE DEF s
<1>4. s \in Seq(S) /\ Len(s) = n
  BY <1>2, <1>3
<1>5. Distinct(s)
  <2> SUFFICES ASSUME NEW i \in 1 .. n, NEW j \in 1 .. n, s[i] = s[j] PROVE i = j
    BY <1>3 DEF Distinct
  <2>1. i - 1 = j - 1
    BY <1>2
  <2> QED BY <2>1
<1>6. ToSet(s) \subseteq S
  BY <1>4 DEF ToSet
<1>7. Picks(s, n, S)
  BY <1>4, <1>5, <1>6 DEF Picks
<1> QED BY <1>7 DEF s

(* Taking fresh blocks changes the counts of free blocks only. *)
LEMMA ReserveBlocksEffect ==
    ASSUME NEW c, PoolInv(c), NEW n \in Nat, n <= AvailableBlocks(c)
    PROVE  /\ Picks(LowestFreeBlocks(c, n), n, FreeBlocks(c))
           /\ Became(c, ReserveBlocks(c, n),
                     [x \in Blocks |-> c.ref[x] + Bit(x \in ToSet(LowestFreeBlocks(c, n)))],
                     Indexed(c), {})
<1> DEFINE T == ToSet(LowestFreeBlocks(c, n))
           R == [x \in Blocks |-> IF x \in T THEN 1 ELSE c.ref[x]]
           d == ReserveBlocks(c, n)
<1>0. IsCache(c)
  BY DEF PoolInv
<1>1. /\ c.ref \in [Blocks -> Nat] /\ c.recency \in Seq(Blocks)
      /\ c.reclaimable \in Seq(Blocks) /\ c.promote \in SUBSET Blocks
  BY <1>0, FieldTypes
<1>2. Picks(LowestFreeBlocks(c, n), n, FreeBlocks(c))
  <2>1. FreeBlocks(c) \in SUBSET Blocks /\ n <= Cardinality(FreeBlocks(c))
    BY DEF FreeBlocks, AvailableBlocks
  <2> QED BY <2>1, LowestFacts DEF LowestFreeBlocks
<1>3. \A x \in T : x \in Blocks /\ c.ref[x] = 0
  BY <1>2 DEF Picks, FreeBlocks
<1>4. d = Relisted(c, R, c.recency, c.reclaimable, c.promote)
  <2>1. PICK V : c \in CacheType(V)
    BY <1>0 DEF IsCache
  <2>2. d = [c EXCEPT !.ref = R]
    BY DEF ReserveBlocks
  <2> HIDE DEF R, d
  <2> QED BY <2>1, <2>2 DEF Relisted, CacheType
<1> HIDE DEF T, d
<1>5. R \in [Blocks -> Nat]
  BY <1>1
<1>6. Indexed(c) \subseteq Blocks /\ \A x \in Indexed(c) : c.ref[x] >= 1
  BY <1>0, IndexedBlocks, ParentFacts
<1>7. \A x \in Indexed(c) : R[x] = c.ref[x]
  BY <1>1, <1>3, <1>6
<1>8. /\ Distinct(c.reclaimable) /\ ToSet(c.reclaimable) = {x \in Indexed(c) : R[x] = 1}
      /\ \A x \in Indexed(c) : R[x] >= 1
  <2> HIDE DEF R
  <2> QED BY <1>6, <1>7 DEF PoolInv, ListsOK
<1>9. Became(c, d, R, Indexed(c), {})
  <2> HIDE DEF R
  <2> QED BY <1>1, <1>4, <1>5, <1>8, RecountedBecame
<1>10. R = [x \in Blocks |-> c.ref[x] + Bit(x \in T)]
  <2>1. ASSUME NEW x \in Blocks
        PROVE  (IF x \in T THEN 1 ELSE c.ref[x]) = c.ref[x] + Bit(x \in T)
    BY <1>1, <1>3 DEF Bit
  <2> QED BY <2>1
<1> HIDE DEF R
<1>11. Became(c, d, [x \in Blocks |-> c.ref[x] + Bit(x \in T)], Indexed(c), {})
  BY <1>9, <1>10
<1> QED BY <1>2, <1>11 DEF T, d

---------------------------------------------------------------------------
(* Registration. *)

(* d is c with the block b indexed under the new identity id. *)
Entered(c, d, b, id, chunk, parent) ==
    /\ PoolInv(d) /\ id \in Ids /\ c.idents[id] = Unused
    /\ d.ref = [x \in Blocks |-> c.ref[x] + Bit(x = b)]
    /\ Indexed(d) = Indexed(c) \cup {b}
    /\ d.size = c.size /\ d.kv = c.kv /\ d.limit = c.limit
    /\ d.ident = [c.ident EXCEPT ![b] = id]
    /\ d.idents = [c.idents EXCEPT ![id] = [hash |-> PathHash(c, parent, chunk),
                            chunk |-> chunk, parent |-> parent, block |-> b]]

(* Indexing a block that its owner holds, under a parent that is alive     *)
(* (PrefixCache::InsertEntry).                                             *)
LEMMA InsertEntryEffect ==
    ASSUME NEW c, PoolInv(c), NEW b \in Blocks, b \notin Indexed(c), c.ref[b] >= 1,
           NEW chunk, NEW parent \in Ids \cup {NoId},
           parent # NoId => c.idents[parent] # Unused,
           \E i \in Ids : c.idents[i] = Unused
    PROVE  \E id : Entered(c, InsertEntry(c, b, chunk, parent), b, id, chunk, parent)
<1> DEFINE id == CHOOSE i \in Ids : /\ c.idents[i] = Unused
                                    /\ \A j \in Ids : c.idents[j] = Unused => i <= j
           entry == FindEntry(c, parent)
           new == [hash |-> PathHash(c, parent, chunk), chunk |-> chunk,
                   parent |-> parent, block |-> b]
           S == IF entry = NoBlock THEN Append(c.recency, b)
                ELSE InsertBefore(c.recency, b, entry)
           P == c.promote \cup {b}
           R == [x \in Blocks |-> c.ref[x] + Bit(x = b)]
           d == InsertEntry(c, b, chunk, parent)
<1>0. IsCache(c)
  BY DEF PoolInv
<1>1. PICK V : c \in CacheType(V)
  BY <1>0 DEF IsCache
<1>2. /\ c.ref \in [Blocks -> Nat] /\ c.size \in [Blocks -> V] /\ c.kv \in [Blocks -> V]
      /\ c.ident \in [Blocks -> Ids \cup {NoId}] /\ c.recency \in Seq(Blocks)
      /\ c.reclaimable \in Seq(Blocks) /\ c.promote \in SUBSET Blocks
      /\ c.idents \in [Ids -> Identity(V)] /\ c.limit \in Nat
  BY <1>1 DEF CacheType
<1>3. id \in Ids /\ c.idents[id] = Unused
  <2> DEFINE U == {i \in Ids : c.idents[i] = Unused}
  <2>1. U \in SUBSET Nat /\ U # {}
    BY BlocksFacts
  <2>2. PICK i \in U : \A j \in U : i <= j
    <3> HIDE DEF U
    <3> QED BY <2>1, NatLeast
  <2> QED BY <2>2
<1>4. \A x \in Blocks : R[x] \in Nat /\ R[x] = IF x = b THEN c.ref[x] + 1 ELSE c.ref[x]
  BY <1>2 DEF Bit
<1>5. R = [c.ref EXCEPT ![b] = @ + 1] /\ R \in [Blocks -> Nat]
  <2>1. R = [x \in Blocks |-> R[x]]
    OBVIOUS
  <2> HIDE DEF R
  <2> QED BY <1>2, <1>4, <2>1
<1>6. d = [c EXCEPT !.idents[id] = new, !.ident[b] = id, !.ref[b] = @ + 1,
                    !.recency = S, !.promote = P]
  BY DEF InsertEntry
<1> HIDE DEF id, R, S, d
<1>7. d = [c EXCEPT !.idents = [c.idents EXCEPT ![id] = new],
                    !.ident = [c.ident EXCEPT ![b] = id],
                    !.ref = R, !.recency = S, !.promote = P]
  <2> HIDE DEF new, P
  <2> QED BY <1>1, <1>3, <1>5, <1>6 DEF CacheType
<1>8. Distinct(c.recency) /\ b \notin ToSet(c.recency)
  BY DEF PoolInv, ListsOK, Indexed
<1>9. Grown(S, c.recency, b, Blocks)
  <2>1. CASE entry = NoBlock
    BY <1>2, <1>8, <2>1, AppendDistinct DEF S
  <2>2. CASE entry # NoBlock
    <3>1. entry \in ToSet(c.recency)
      BY <2>2, FindEntryFacts DEF Indexed
    <3>2. S = InsertBefore(c.recency, b, entry)
      BY <2>2 DEF S
    <3> HIDE DEF entry
    <3> QED BY <1>2, <1>8, <3>1, <3>2, InsertBeforeDistinct
  <2> QED BY <2>1, <2>2
<1>10. S \in Seq(Blocks) /\ Distinct(S) /\ ToSet(S) = Indexed(c) \cup {b}
  BY <1>9 DEF Grown, Indexed
<1>11. P \in SUBSET Blocks
  BY <1>2
<1> DEFINE W == V \cup {PathHash(c, parent, chunk), chunk}
<1>12. new \in Identity(W)
  BY DEF Identity
<1>13. c.idents \in [Ids -> Identity(W)]
  <2>1. ASSUME NEW i \in Ids PROVE c.idents[i] \in Identity(W)
    BY <1>2 DEF Identity
  <2> QED BY <1>2, <2>1
<1> HIDE DEF P, new
<1>14. /\ d.ref = R /\ d.size = c.size /\ d.kv = c.kv
       /\ d.ident = [c.ident EXCEPT ![b] = id] /\ d.recency = S
       /\ d.reclaimable = c.reclaimable /\ d.promote = P
       /\ d.idents = [c.idents EXCEPT ![id] = new] /\ d.limit = c.limit
       /\ d = [ref |-> d.ref, size |-> d.size, kv |-> d.kv, ident |-> d.ident,
              recency |-> d.recency, reclaimable |-> d.reclaimable, promote |-> d.promote,
              idents |-> d.idents, limit |-> d.limit]
  BY <1>1, <1>7 DEF CacheType
<1>15. /\ d.size \in [Blocks -> W] /\ d.kv \in [Blocks -> W]
  BY <1>2, <1>14
<1> HIDE DEF W
<1>16. d.ident \in [Blocks -> Ids \cup {NoId}] /\ d.idents \in [Ids -> Identity(W)]
  BY <1>2, <1>3, <1>12, <1>13, <1>14
<1>17. IsCache(d)
  <2>1. d \in CacheType(W)
    BY <1>2, <1>5, <1>10, <1>11, <1>14, <1>15, <1>16 DEF CacheType
  <2> QED BY <2>1 DEF IsCache
<1>18. Indexed(d) = Indexed(c) \cup {b} /\ Indexed(c) \subseteq Blocks
  BY <1>0, <1>10, <1>14, IndexedBlocks DEF Indexed
<1>19. ListsOK(d)
  <2>1. ToSet(c.reclaimable) = {x \in Indexed(c) : c.ref[x] = 1} /\ Distinct(c.reclaimable)
    BY DEF PoolInv, ListsOK
  <2>2. R[b] # 1
    BY <1>2, <1>4
  <2>3. \A x \in Indexed(c) : R[x] = c.ref[x]
    BY <1>4, <1>18
  <2> QED BY <1>10, <1>14, <1>18, <2>1, <2>2, <2>3 DEF ListsOK
<1>20. IndexOK(d)
  <2> SUFFICES ASSUME NEW x \in Blocks
               PROVE  IF x \in Indexed(d)
                      THEN /\ d.ref[x] >= 1 /\ d.ident[x] # NoId
                           /\ d.idents[d.ident[x]].block = x
                           /\ d.idents[d.ident[x]].parent # d.ident[x]
                      ELSE d.ident[x] = NoId
    BY DEF IndexOK
  <2>1. CASE x = b
    <3>1. d.ident[x] = id /\ d.idents[id] = new /\ id # NoId
      BY <1>2, <1>3, <1>14, <2>1, BlocksFacts
    <3>2. new.block = b /\ new.parent = parent
      BY DEF new
    <3>3. parent # id
      BY <1>3, BlocksFacts
    <3>4. d.ref[x] >= 1
      BY <1>2, <1>4, <1>14, <2>1
    <3> QED BY <1>18, <2>1, <3>1, <3>2, <3>3, <3>4
  <2>2. CASE x # b /\ x \in Indexed(c)
    <3>1. /\ c.ref[x] >= 1 /\ c.ident[x] \in Ids /\ c.ident[x] # NoId
          /\ c.idents[c.ident[x]].block = x
          /\ c.idents[c.ident[x]].parent # c.ident[x]
      <4>1. c.ident[x] \in Ids
        BY <2>2, ParentFacts
      <4> QED BY <2>2, <4>1 DEF PoolInv, IndexOK
    <3>2. c.ident[x] # id
      <4>1. Unused.block = NoBlock
        BY DEF Unused
      <4> QED BY <1>3, <3>1, <4>1, BlocksFacts
    <3>3. d.ident[x] = c.ident[x] /\ d.idents[c.ident[x]] = c.idents[c.ident[x]]
      BY <1>2, <1>14, <2>2, <3>1, <3>2
    <3>4. d.ref[x] >= 1
      BY <1>4, <1>14, <2>2, <3>1
    <3> QED BY <1>18, <2>2, <3>1, <3>3, <3>4
  <2>3. CASE x # b /\ x \notin Indexed(c)
    <3>1. c.ident[x] = NoId
      BY <2>3 DEF PoolInv, IndexOK
    <3>2. d.ident[x] = NoId
      BY <1>2, <1>14, <2>3, <3>1
    <3> QED BY <1>18, <2>3, <3>2
  <2> QED BY <2>1, <2>2, <2>3
<1>21. Entered(c, d, b, id, chunk, parent)
  BY <1>3, <1>14, <1>17, <1>18, <1>19, <1>20 DEF Entered, PoolInv, R, new
<1> QED BY <1>21 DEF d

(* What a lookup by content returns. *)
LEMMA FindPhysicalFacts ==
    ASSUME NEW c, PoolInv(c), NEW parent, NEW chunk, NEW b,
           b = FindPhysical(c, parent, chunk), b # NoBlock
    PROVE  /\ b \in Indexed(c) /\ c.idents[c.ident[b]].parent = parent
           /\ c.idents[c.ident[b]].chunk = chunk
<1> DEFINE found == {x \in Indexed(c) : /\ c.idents[c.ident[x]].parent = parent
                                        /\ c.idents[c.ident[x]].chunk = chunk}
<1>1. b = IF found = {} THEN NoBlock ELSE CHOOSE x \in found : TRUE
  BY DEF FindPhysical
<1>2. b \in found
  <2> HIDE DEF found
  <2> QED BY <1>1
<1> QED BY <1>2

(* What a registration did: the blocks of T were evicted for it, and N is  *)
(* {b} when b has been indexed by it and {} otherwise.                     *)
Registered(c, reg, b, chunk, parent, T, N) ==
    /\ T \subseteq {x \in Indexed(c) : c.ref[x] = 1} /\ N \subseteq {b} \ Indexed(c)
    /\ PoolInv(reg.cache) /\ reg.cache.limit = c.limit
    /\ reg.cache.ref = [x \in Blocks |-> IF x \in T THEN 0 ELSE c.ref[x] + Bit(x \in N)]
    /\ Indexed(reg.cache) = (Indexed(c) \ T) \cup N
    /\ reg.cache.size = [x \in Blocks |-> IF x \in T THEN 0 ELSE c.size[x]]
    /\ reg.cache.kv = [x \in Blocks |-> IF x \in T THEN EmptyBlock ELSE c.kv[x]]
    /\ \A x \in Blocks \ N : reg.cache.ident[x] = IF x \in T THEN NoId ELSE c.ident[x]
    /\ \A i \in Ids : \/ reg.cache.idents[i] = c.idents[i]
                      \/ /\ c.idents[i] = Unused /\ b \in N /\ reg.cache.ident[b] = i
                         /\ reg.cache.idents[i].chunk = chunk
                         /\ reg.cache.idents[i].parent = parent
    /\ b \in N => /\ reg.cache.ident[b] \in Ids /\ c.idents[reg.cache.ident[b]] = Unused
                  /\ reg.cache.idents[reg.cache.ident[b]].chunk = chunk
                  /\ reg.cache.idents[reg.cache.ident[b]].parent = parent
    /\ reg.id = NoId \/ (b \in Indexed(reg.cache) /\ reg.cache.ident[b] = reg.id)

(* A cache without what a registration evicted and with nothing indexed. *)
LEMMA RegisteredNothing ==
    ASSUME NEW c, PoolInv(c), NEW T, T \subseteq {x \in Indexed(c) : c.ref[x] = 1},
           NEW d, Became(c, d, [x \in Blocks |-> IF x \in T THEN 0 ELSE c.ref[x]],
                         Indexed(c) \ T, T),
           NEW reg, reg.cache = d, NEW b, NEW chunk, NEW parent,
           reg.id = NoId \/ (b \in Indexed(d) /\ d.ident[b] = reg.id)
    PROVE  Registered(c, reg, b, chunk, parent, T, {})
<1>1. c.ref \in [Blocks -> Nat]
  BY FieldTypes DEF PoolInv
<1>2. /\ PoolInv(d) /\ d.ref = [x \in Blocks |-> IF x \in T THEN 0 ELSE c.ref[x]]
      /\ Indexed(d) = Indexed(c) \ T
  BY DEF Became
<1>3. /\ d.size = [x \in Blocks |-> IF x \in T THEN 0 ELSE c.size[x]]
      /\ d.kv = [x \in Blocks |-> IF x \in T THEN EmptyBlock ELSE c.kv[x]]
      /\ d.ident = [x \in Blocks |-> IF x \in T THEN NoId ELSE c.ident[x]]
      /\ d.idents = c.idents /\ d.limit = c.limit
  BY DEF Became, ClearedIn
<1>4. d.ref = [x \in Blocks |-> IF x \in T THEN 0 ELSE c.ref[x] + Bit(x \in {})]
  <2>1. ASSUME NEW x \in Blocks PROVE c.ref[x] + Bit(x \in {}) = c.ref[x]
    BY <1>1 DEF Bit
  <2> QED BY <1>2, <2>1
<1> QED BY <1>2, <1>3, <1>4 DEF Registered

(* Making room evicts a block nobody else uses, or none. *)
LEMMA RoomEffect ==
    ASSUME NEW c, PoolInv(c), NEW full
    PROVE  \E T : /\ T \subseteq {x \in Indexed(c) : c.ref[x] = 1}
                  /\ Became(c, IF full THEN Reclaim(c, 1) ELSE c,
                            [x \in Blocks |-> IF x \in T THEN 0 ELSE c.ref[x]],
                            Indexed(c) \ T, T)
<1>1. CASE full
  BY <1>1, ReclaimEffect, FirstReclaimableFacts
<1>2. CASE ~full
  <2>1. c.ref \in [Blocks -> Nat]
    BY FieldTypes DEF PoolInv
  <2>2. [x \in Blocks |-> IF x \in {} THEN 0 ELSE c.ref[x]] = c.ref
        /\ Indexed(c) \ {} = Indexed(c)
    BY <2>1
  <2>3. Became(c, c, [x \in Blocks |-> IF x \in {} THEN 0 ELSE c.ref[x]],
               Indexed(c) \ {}, {})
    BY <2>2, BecameItself
  <2> QED BY <1>2, <2>3
<1> QED BY <1>1, <1>2

(* Registering a block that its owner holds (PrefixCache::Register). *)
LEMMA RegisterEffect ==
    ASSUME NEW c, PoolInv(c), NEW b \in Blocks, c.ref[b] >= 1,
           NEW chunk, NEW parent \in Ids \cup {NoId},
           parent # NoId => c.idents[parent] # Unused
    PROVE  \E T, N : Registered(c, Register(c, b, chunk, parent), b, chunk, parent, T, N)
<1> DEFINE existing == FindPhysical(c, parent, chunk)
           taken == \E e \in Indexed(c) :
                        c.idents[c.ident[e]].hash = PathHash(c, parent, chunk)
           full == Len(c.recency) >= c.limit
           room == IF full THEN Reclaim(c, 1) ELSE c
           reg == Register(c, b, chunk, parent)
<1>1. c.ref \in [Blocks -> Nat]
  BY FieldTypes DEF PoolInv
<1>2. reg = IF c.ident[b] # NoId THEN IndexedAs(c, b)
        ELSE IF existing # NoBlock
        THEN Refused(Reorder(c, existing, parent), "Duplicate")
        ELSE IF taken THEN Refused(c, "HashCollision")
        ELSE IF full /\ c.reclaimable = <<>> THEN Refused(c, "CapacityRefused")
        ELSE IF \A i \in Ids : c.idents[i] # Unused
        THEN Refused(room, "OutOfMemory")
        ELSE IndexedAs(InsertEntry(room, b, chunk, parent), b)
  BY DEF Register
<1>3. /\ {} \subseteq {x \in Indexed(c) : c.ref[x] = 1}
      /\ [x \in Blocks |-> IF x \in {} THEN 0 ELSE c.ref[x]] = c.ref
      /\ Indexed(c) \ {} = Indexed(c)
  BY <1>1
<1>4. PICK T : /\ T \subseteq {x \in Indexed(c) : c.ref[x] = 1}
               /\ Became(c, room, [x \in Blocks |-> IF x \in T THEN 0 ELSE c.ref[x]],
                         Indexed(c) \ T, T)
  BY RoomEffect
<1> HIDE DEF reg, existing, taken, full, room
<1>5. CASE c.ident[b] # NoId
  <2>1. reg.cache = c /\ reg.id = c.ident[b]
    BY <1>2, <1>5 DEF IndexedAs
  <2>2. b \in Indexed(c)
    BY <1>5 DEF PoolInv, IndexOK
  <2>3. Became(c, c, c.ref, Indexed(c), {})
    BY BecameItself
  <2>4. Registered(c, reg, b, chunk, parent, {}, {})
    BY <1>3, <2>1, <2>2, <2>3, RegisteredNothing
  <2> QED BY <2>4 DEF reg
<1>6. CASE c.ident[b] = NoId /\ existing # NoBlock
  <2>1. reg.cache = Reorder(c, existing, parent) /\ reg.id = NoId
    BY <1>2, <1>6 DEF Refused
  <2>2. existing \in Indexed(c) /\ c.idents[c.ident[existing]].parent = parent
    BY <1>6, FindPhysicalFacts DEF existing
  <2>3. FindEntry(c, parent) # existing
    BY <2>2, ParentFacts
  <2>4. Became(c, Reorder(c, existing, parent), c.ref, Indexed(c), {})
    BY <2>2, <2>3, ReorderEffect
  <2>5. Registered(c, reg, b, chunk, parent, {}, {})
    BY <1>3, <2>1, <2>4, RegisteredNothing
  <2> QED BY <2>5 DEF reg
<1>7. CASE /\ c.ident[b] = NoId /\ existing = NoBlock
           /\ taken \/ (full /\ c.reclaimable = <<>>)
  <2>1. reg.cache = c /\ reg.id = NoId
    BY <1>2, <1>7 DEF Refused
  <2>2. Became(c, c, c.ref, Indexed(c), {})
    BY BecameItself
  <2>3. Registered(c, reg, b, chunk, parent, {}, {})
    BY <1>3, <2>1, <2>2, RegisteredNothing
  <2> QED BY <2>3 DEF reg
<1>8. CASE /\ c.ident[b] = NoId /\ existing = NoBlock
           /\ ~taken /\ ~(full /\ c.reclaimable = <<>>)
           /\ \A i \in Ids : c.idents[i] # Unused
  <2>1. reg.cache = room /\ reg.id = NoId
    BY <1>2, <1>8 DEF Refused
  <2>2. Registered(c, reg, b, chunk, parent, T, {})
    BY <1>4, <2>1, RegisteredNothing
  <2> QED BY <2>2 DEF reg
<1>9. CASE /\ c.ident[b] = NoId /\ existing = NoBlock
           /\ ~taken /\ ~(full /\ c.reclaimable = <<>>)
           /\ \E i \in Ids : c.idents[i] = Unused
  <2> DEFINE e == InsertEntry(room, b, chunk, parent)
  <2>1. reg.cache = e /\ reg.id = e.ident[b]
    BY <1>2, <1>9 DEF IndexedAs
  <2>2. /\ PoolInv(room) /\ room.ref = [x \in Blocks |-> IF x \in T THEN 0 ELSE c.ref[x]]
        /\ Indexed(room) = Indexed(c) \ T
    BY <1>4 DEF Became
  <2>3. /\ room.size = [x \in Blocks |-> IF x \in T THEN 0 ELSE c.size[x]]
        /\ room.kv = [x \in Blocks |-> IF x \in T THEN EmptyBlock ELSE c.kv[x]]
        /\ room.ident = [x \in Blocks |-> IF x \in T THEN NoId ELSE c.ident[x]]
        /\ room.idents = c.idents /\ room.limit = c.limit
    BY <1>4 DEF Became, ClearedIn
  <2>4. b \notin Indexed(c) /\ b \notin T
    <3>1. b \notin Indexed(c)
      BY <1>9 DEF PoolInv, IndexOK
    <3> QED BY <1>4, <3>1
  <2>5. b \notin Indexed(room) /\ room.ref[b] >= 1
    BY <2>2, <2>4
  <2>6. PICK id : Entered(room, e, b, id, chunk, parent)
    <3>1. /\ \E i \in Ids : room.idents[i] = Unused
          /\ parent # NoId => room.idents[parent] # Unused
      BY <1>9, <2>3
    <3> QED BY <2>2, <2>5, <3>1, InsertEntryEffect
  <2> HIDE DEF e
  <2>7. /\ PoolInv(e) /\ id \in Ids /\ c.idents[id] = Unused
        /\ e.ref = [x \in Blocks |-> room.ref[x] + Bit(x = b)]
        /\ Indexed(e) = (Indexed(c) \ T) \cup {b}
        /\ e.size = room.size /\ e.kv = room.kv /\ e.limit = c.limit
        /\ e.ident = [room.ident EXCEPT ![b] = id]
        /\ e.idents = [c.idents EXCEPT ![id] = [hash |-> PathHash(room, parent, chunk),
                            chunk |-> chunk, parent |-> parent, block |-> b]]
    BY <2>2, <2>3, <2>6 DEF Entered
  <2>8. c.ident \in [Blocks -> Ids \cup {NoId}] /\ c.idents = [i \in Ids |-> c.idents[i]]
    BY FieldTypes DEF PoolInv
  <2>9. /\ e.ident[b] = id
        /\ \A x \in Blocks \ {b} : e.ident[x] = IF x \in T THEN NoId ELSE c.ident[x]
    BY <2>3, <2>7
  <2>10. \A i \in Ids : \/ e.idents[i] = c.idents[i]
                       \/ /\ c.idents[i] = Unused /\ e.ident[b] = i
                          /\ e.idents[i].chunk = chunk /\ e.idents[i].parent = parent
    BY <2>7, <2>8, <2>9
  <2>11. e.ref = [x \in Blocks |-> IF x \in T THEN 0 ELSE c.ref[x] + Bit(x \in {b})]
    <3>1. ASSUME NEW x \in Blocks
          PROVE  room.ref[x] + Bit(x = b)
                  = IF x \in T THEN 0 ELSE c.ref[x] + Bit(x \in {b})
      BY <1>1, <2>2, <2>4 DEF Bit
    <3> QED BY <2>7, <3>1
  <2>12. e.ident[b] \in Ids /\ c.idents[e.ident[b]] = Unused
         /\ e.idents[e.ident[b]].chunk = chunk /\ e.idents[e.ident[b]].parent = parent
    BY <2>7, <2>8, <2>9
  <2>13. Registered(c, reg, b, chunk, parent, T, {b})
    BY <1>4, <2>1, <2>3, <2>4, <2>7, <2>9, <2>10, <2>11, <2>12 DEF Registered
  <2> QED BY <2>13 DEF reg
<1> QED BY <1>5, <1>6, <1>7, <1>8, <1>9

---------------------------------------------------------------------------
(* The identities that stay alive. *)

Parents(c, ids) == {c.idents[i].parent : i \in ids \ {NoId}}

(* One round of following the parents of identities. *)
ReachStep(c, v, ids, n) == ids \cup {c.idents[i].parent : i \in ids \ {NoId}}
ReachFold == INSTANCE FoldLemmas WITH Op <- ReachStep

(* d is c with the identities outside K collected. K has the roots and the *)
(* identities of all blocks, and with an identity its parent.              *)
Collected(c, d, roots, K) ==
    /\ PoolInv(d) /\ d.ref = c.ref /\ Indexed(d) = Indexed(c) /\ d.size = c.size
    /\ d.kv = c.kv /\ d.ident = c.ident /\ d.limit = c.limit
    /\ d.idents = [i \in Ids |-> IF i \in K THEN c.idents[i] ELSE Unused]
    /\ roots \subseteq K /\ {c.ident[b] : b \in Blocks} \subseteq K
    /\ Parents(c, K) \subseteq K

(* The walk along the parents ends within as many steps as there are       *)
(* identities.                                                             *)
LEMMA ReachIsClosed ==
    ASSUME NEW c, IsCache(c), NEW base \in SUBSET (Ids \cup {NoId}), base # {},
           NEW K, K = ReachFold!FoldedBy(c, 0, base, [n \in Ids |-> n])
    PROVE  /\ base \subseteq K /\ K \subseteq Ids \cup {NoId} /\ Parents(c, K) \subseteq K
<1> DEFINE M == MaxIdentities
           All == Ids \cup {NoId}
           seq == [n \in Ids |-> n]
<1>1. M \in Nat /\ DOMAIN seq = 1 .. M /\ All = 0 .. M
  BY PoolAssumption DEF Ids, NoId
<1>2. \A X \in SUBSET All : Parents(c, X) \subseteq All
  <2>1. \A i \in Ids : c.idents[i].parent \in All
    BY FieldTypes
  <2> QED BY <2>1 DEF Parents
<1> HIDE DEF seq
<1>ind. ReachFold!Induction
  BY NatSetInduction DEF ReachFold!Induction
<1>3. PICK h : ReachFold!FoldRun(c, 0, h, base, seq, M)
               /\ ReachFold!FoldedBy(c, 0, base, seq) = h[M]
  BY <1>ind, <1>1, ReachFold!FoldRuns
<1>4. h[0] = base /\ \A i \in 1 .. M : h[i] = h[i - 1] \cup Parents(c, h[i - 1])
  BY <1>3 DEF ReachFold!FoldRun, ReachStep, Parents
<1>5. IsFiniteSet(All) /\ Cardinality(All) = M + 1
  <2>1. 0 \in Int /\ M \in Int
    BY <1>1
  <2>2. IsFiniteSet(0 .. M) /\ Cardinality(0 .. M) = IF 0 > M THEN 0 ELSE M - 0 + 1
    BY <2>1, FS_Interval
  <2>3. (IF 0 > M THEN 0 ELSE M - 0 + 1) = M + 1
    BY <1>1
  <2> HIDE DEF M, All
  <2> QED BY <1>1, <2>2, <2>3
<1> HIDE DEF All, M
<1> DEFINE Good(k) == /\ base \subseteq h[k] /\ h[k] \subseteq All
                      /\ Parents(c, h[k]) \subseteq h[k] \/ Cardinality(h[k]) >= k + 1
           S == {k \in 0 .. M : Good(k)}
<1>6. 0 \in S
  <2>1. base \in SUBSET All
    BY DEF All
  <2>2. IsFiniteSet(base) /\ Cardinality(base) \in Nat /\ Cardinality(base) # 0
    BY <1>5, <2>1, FS_Subset, FS_CardinalityType, FS_EmptySet
  <2>3. Good(0)
    BY <1>4, <2>1, <2>2
  <2> QED BY <1>1, <2>3
<1>7. ASSUME NEW k \in 0 .. M - 1, k \in S PROVE k + 1 \in S
  <2>1. k + 1 \in 1 .. M /\ (k + 1) - 1 = k /\ k + 1 \in 0 .. M /\ k \in Nat
    BY <1>1
  <2> DEFINE X == h[k]
             Y == h[k + 1]
  <2>2. Y = X \cup Parents(c, X)
    BY <1>4, <2>1
  <2>3. /\ base \subseteq X /\ X \subseteq All
        /\ Parents(c, X) \subseteq X \/ Cardinality(X) >= k + 1
    BY <1>7
  <2>4. base \subseteq Y /\ Y \subseteq All
    <3> HIDE DEF X, Y
    <3> QED BY <1>2, <2>2, <2>3
  <2>5. Parents(c, Y) \subseteq Y \/ Cardinality(Y) >= (k + 1) + 1
    <3> HIDE DEF X, Y
    <3>1. CASE Parents(c, X) \subseteq X
      <4>1. Y = X
        BY <2>2, <3>1
      <4> QED BY <3>1, <4>1
    <3>2. CASE ~(Parents(c, X) \subseteq X)
      <4>1. X \subseteq Y /\ X # Y
        BY <2>2, <3>2
      <4>2. IsFiniteSet(Y) /\ Cardinality(Y) \in Nat
        BY <1>5, <2>4, FS_Subset, FS_CardinalityType
      <4>3. Cardinality(X) < Cardinality(Y) /\ IsFiniteSet(X)
        <5>1. X \in SUBSET Y
          BY <4>1
        <5>2. /\ IsFiniteSet(X) /\ Cardinality(X) <= Cardinality(Y)
              /\ Cardinality(Y) # Cardinality(X)
          BY <4>1, <4>2, <5>1, FS_Subset
        <5>3. Cardinality(X) \in Nat
          BY <5>2, FS_CardinalityType
        <5> QED BY <4>2, <5>2, <5>3
      <4>4. Cardinality(X) \in Nat /\ Cardinality(X) >= k + 1
        BY <2>3, <3>2, <4>3, FS_CardinalityType
      <4> QED BY <2>1, <4>2, <4>3, <4>4
    <3> QED BY <3>1, <3>2
  <2>6. Good(k + 1)
    BY <2>4, <2>5
  <2> HIDE DEF Good
  <2> QED BY <2>1, <2>6
<1>8. Good(M)
  <2> HIDE DEF Good
  <2>1. 0 .. M \subseteq S
    <3> HIDE DEF S
    <3> QED BY <1>1, <1>6, <1>7, RangeInduction
  <2>2. M \in 0 .. M
    BY <1>1
  <2> QED BY <2>1, <2>2
<1>9. K = h[M]
  BY <1>3 DEF seq, M
<1>10. base \subseteq K /\ K \subseteq All
  BY <1>8, <1>9
<1>11. Parents(c, K) \subseteq K
  <2>1. CASE Cardinality(K) >= M + 1
    <3>1. K = All
      <4>1. IsFiniteSet(K) /\ Cardinality(K) \in Nat
        BY <1>5, <1>10, FS_Subset, FS_CardinalityType
      <4>2. K \in SUBSET All
        BY <1>10
      <4>3. Cardinality(K) <= M + 1 /\ (Cardinality(K) = M + 1 => K = All)
        BY <1>5, <4>2, FS_Subset
      <4> QED BY <1>1, <2>1, <4>1, <4>3
    <3> QED BY <1>2, <3>1
  <2> QED BY <1>8, <1>9, <2>1
<1> QED BY <1>10, <1>11 DEF All

(* Identities are collected only when nothing refers to them. *)
LEMMA CollectEffect ==
    ASSUME NEW c, PoolInv(c), NEW roots \in SUBSET (Ids \cup {NoId})
    PROVE  \E K : Collected(c, CollectIdentities(c, roots), roots, K)
<1> DEFINE base == roots \cup {c.ident[b] : b \in Blocks}
           K == ReachFold!FoldedBy(c, 0, base, [n \in Ids |-> n])
           J == [i \in Ids |-> IF i \in K THEN c.idents[i] ELSE Unused]
           d == CollectIdentities(c, roots)
<1>0. IsCache(c)
  BY DEF PoolInv
<1>1. d = [c EXCEPT !.idents = J]
  BY DEF CollectIdentities, ReachFold!FoldedBy, FoldLeft, MapThenFoldSet,
         ReachFold!Greatest, Max, ReachStep
<1>2. c.ident \in [Blocks -> Ids \cup {NoId}]
  BY <1>0, FieldTypes
<1>3. base \in SUBSET (Ids \cup {NoId}) /\ base # {}
  <2>1. 0 \in Blocks
    BY PoolAssumption DEF Blocks
  <2> QED BY <1>2, <2>1
<1> HIDE DEF base
<1>4. base \subseteq K /\ K \subseteq Ids \cup {NoId} /\ Parents(c, K) \subseteq K
  BY <1>0, <1>3, ReachIsClosed
<1> HIDE DEF K, d
<1>5. PICK V : c \in CacheType(V)
  BY <1>0 DEF IsCache
<1> DEFINE W == V \cup {<<>>}
<1>6. /\ c.ref \in [Blocks -> Nat] /\ c.size \in [Blocks -> V] /\ c.kv \in [Blocks -> V]
      /\ c.recency \in Seq(Blocks)
      /\ c.reclaimable \in Seq(Blocks) /\ c.promote \in SUBSET Blocks
      /\ c.idents \in [Ids -> Identity(V)] /\ c.limit \in Nat
  BY <1>5 DEF CacheType
<1>7. J \in [Ids -> Identity(W)]
  <2>1. Unused \in Identity(W)
    BY DEF Unused, Identity
  <2>2. ASSUME NEW i \in Ids PROVE c.idents[i] \in Identity(W)
    BY <1>6 DEF Identity
  <2> HIDE DEF W
  <2> QED BY <2>1, <2>2
<1>8. c.size \in [Blocks -> W] /\ c.kv \in [Blocks -> W]
  BY <1>6
<1> HIDE DEF J, W
<1>9. /\ d.ref = c.ref /\ d.size = c.size /\ d.kv = c.kv /\ d.ident = c.ident
      /\ d.recency = c.recency /\ d.reclaimable = c.reclaimable /\ d.promote = c.promote
      /\ d.idents = J /\ d.limit = c.limit
      /\ d = [ref |-> d.ref, size |-> d.size, kv |-> d.kv, ident |-> d.ident,
              recency |-> d.recency, reclaimable |-> d.reclaimable, promote |-> d.promote,
              idents |-> d.idents, limit |-> d.limit]
  BY <1>1, <1>5 DEF CacheType
<1>10. IsCache(d)
  <2>1. d \in CacheType(W)
    BY <1>2, <1>6, <1>7, <1>8, <1>9 DEF CacheType
  <2> QED BY <2>1 DEF IsCache
<1>11. Indexed(d) = Indexed(c)
  BY <1>9 DEF Indexed
<1>12. \A b \in Blocks : c.ident[b] \in Ids => J[c.ident[b]] = c.idents[c.ident[b]]
  BY <1>4 DEF J, base
<1>13. ListsOK(d)
  BY <1>9, <1>11 DEF PoolInv, ListsOK
<1>14. IndexOK(d)
  <2> SUFFICES ASSUME NEW x \in Blocks
               PROVE  IF x \in Indexed(d)
                      THEN /\ d.ref[x] >= 1 /\ d.ident[x] # NoId
                           /\ d.idents[d.ident[x]].block = x
                           /\ d.idents[d.ident[x]].parent # d.ident[x]
                      ELSE d.ident[x] = NoId
    BY DEF IndexOK
  <2>1. IndexOK(c)
    BY DEF PoolInv
  <2>2. CASE x \in Indexed(c)
    <3>1. c.ident[x] \in Ids
      BY <2>2, ParentFacts
    <3>2. d.idents[d.ident[x]] = c.idents[c.ident[x]]
      BY <1>9, <1>12, <3>1
    <3> QED BY <1>9, <1>11, <2>1, <2>2, <3>2 DEF IndexOK
  <2>3. CASE x \notin Indexed(c)
    BY <1>9, <1>11, <2>1, <2>3 DEF IndexOK
  <2> QED BY <2>2, <2>3
<1>15. roots \subseteq K /\ {c.ident[b] : b \in Blocks} \subseteq K
  BY <1>4 DEF base
<1>16. Collected(c, d, roots, K)
  BY <1>4, <1>9, <1>10, <1>11, <1>13, <1>14, <1>15 DEF Collected, PoolInv, J
<1> QED BY <1>16 DEF d

---------------------------------------------------------------------------
(* Lookup of a prefix. *)

(* The blocks s are full, hold the first blocks of the tokens, and each    *)
(* chains from the one before it.                                          *)
Chained(c, tokens, s) ==
    /\ s \in Seq(Indexed(c))
    /\ \A j \in 1 .. Len(s) :
        /\ c.size[s[j]] = BlockSize
        /\ c.idents[c.ident[s[j]]].chunk = Chunk(tokens, j)
        /\ c.idents[c.ident[s[j]]].parent = IF j = 1 THEN NoId ELSE c.ident[s[j - 1]]

(* Walking one block further down the index. *)
MatchStep(c, tokens, m, i) ==
    LET b == FindPhysical(c, m.parent, Chunk(tokens, i))
    IN  IF ~m.open \/ b = NoBlock \/ c.size[b] # BlockSize
        THEN [m EXCEPT !.open = FALSE]
        ELSE [m EXCEPT !.blocks = Append(@, b), !.parent = c.ident[b]]
MatchFold == INSTANCE FoldLemmas WITH Op <- MatchStep

(* The blocks a lookup has found after i chunks. *)
Walked(c, tokens, m, i) ==
    /\ m \in [blocks : Seq(Indexed(c)), parent : Ids \cup {NoId}, open : BOOLEAN]
    /\ Chained(c, tokens, m.blocks) /\ Len(m.blocks) <= i
    /\ m.open => /\ Len(m.blocks) = i
                 /\ m.parent = IF i = 0 THEN NoId ELSE c.ident[m.blocks[i]]

(* One more chunk. *)
LEMMA WalkStep ==
    ASSUME NEW c, PoolInv(c), NEW tokens, NEW i \in Nat, NEW m, Walked(c, tokens, m, i)
    PROVE  Walked(c, tokens, MatchStep(c, tokens, m, i + 1), i + 1)
<1> DEFINE b == FindPhysical(c, m.parent, Chunk(tokens, i + 1))
           w == MatchStep(c, tokens, m, i + 1)
<1>1. /\ m \in [blocks : Seq(Indexed(c)), parent : Ids \cup {NoId}, open : BOOLEAN]
      /\ Chained(c, tokens, m.blocks) /\ Len(m.blocks) <= i
  BY DEF Walked
<1>2. CASE ~m.open \/ b = NoBlock \/ c.size[b] # BlockSize
  <2>1. w = [m EXCEPT !.open = FALSE]
    BY <1>2 DEF MatchStep
  <2> HIDE DEF w
  <2>2. /\ w \in [blocks : Seq(Indexed(c)), parent : Ids \cup {NoId}, open : BOOLEAN]
        /\ w.blocks = m.blocks /\ w.open = FALSE
    BY <1>1, <2>1
  <2>3. Len(w.blocks) <= i + 1
    BY <1>1, <2>2
  <2>4. Walked(c, tokens, w, i + 1)
    BY <1>1, <2>2, <2>3 DEF Walked
  <2> QED BY <2>4 DEF w
<1>3. CASE m.open /\ b # NoBlock /\ c.size[b] = BlockSize
  <2>1. w = [m EXCEPT !.blocks = Append(m.blocks, b), !.parent = c.ident[b]]
    BY <1>3 DEF MatchStep
  <2>2. /\ b \in Indexed(c) /\ c.idents[c.ident[b]].parent = m.parent
        /\ c.idents[c.ident[b]].chunk = Chunk(tokens, i + 1)
    BY <1>3, FindPhysicalFacts
  <2>3. c.ident[b] \in Ids \cup {NoId}
    BY <2>2, ParentFacts
  <2> HIDE DEF w, b
  <2>4. /\ Len(m.blocks) = i
        /\ m.parent = IF i = 0 THEN NoId ELSE c.ident[m.blocks[i]]
    BY <1>3 DEF Walked
  <2>5. /\ w.blocks = Append(m.blocks, b) /\ w.parent = c.ident[b] /\ w.open = m.open
        /\ w \in [blocks : Seq(Indexed(c)), parent : Ids \cup {NoId}, open : BOOLEAN]
    <3>1. m.blocks \in Seq(Indexed(c))
      BY <1>1
    <3>2. Append(m.blocks, b) \in Seq(Indexed(c))
      BY <2>2, <3>1
    <3> DEFINE A == Append(m.blocks, b)
    <3> HIDE DEF A
    <3>3. w = [m EXCEPT !.blocks = A, !.parent = c.ident[b]] /\ A \in Seq(Indexed(c))
      BY <2>1, <3>2 DEF A
    <3>4. /\ w.blocks = A /\ w.parent = c.ident[b] /\ w.open = m.open
          /\ w \in [blocks : Seq(Indexed(c)), parent : Ids \cup {NoId}, open : BOOLEAN]
      BY <1>1, <2>3, <3>3
    <3> QED BY <3>4 DEF A
  <2>6. /\ w.blocks \in Seq(Indexed(c)) /\ Len(w.blocks) = i + 1 /\ w.blocks[i + 1] = b
        /\ \A j \in 1 .. i : w.blocks[j] = m.blocks[j]
    BY <1>1, <2>2, <2>4, <2>5
  <2>7. Chained(c, tokens, w.blocks)
    <3> SUFFICES ASSUME NEW j \in 1 .. i + 1
                 PROVE  /\ c.size[w.blocks[j]] = BlockSize
                        /\ c.idents[c.ident[w.blocks[j]]].chunk = Chunk(tokens, j)
                        /\ c.idents[c.ident[w.blocks[j]]].parent
                             = IF j = 1 THEN NoId ELSE c.ident[w.blocks[j - 1]]
      BY <2>6 DEF Chained
    <3>1. CASE j = i + 1
      <4>1. i # 0 => w.blocks[i] = m.blocks[i]
        BY <2>6
      <4>2. j = 1 <=> i = 0
        BY <3>1
      <4>3. j - 1 = i
        BY <3>1
      <4> QED BY <1>3, <2>2, <2>4, <2>6, <3>1, <4>1, <4>2, <4>3
    <3>2. CASE j # i + 1
      <4>1. j \in 1 .. i /\ (j # 1 => j - 1 \in 1 .. i) /\ j \in 1 .. Len(m.blocks)
        BY <2>4, <3>2
      <4>2. w.blocks[j] = m.blocks[j] /\ (j # 1 => w.blocks[j - 1] = m.blocks[j - 1])
        BY <2>6, <4>1
      <4>3. /\ c.size[m.blocks[j]] = BlockSize
            /\ c.idents[c.ident[m.blocks[j]]].chunk = Chunk(tokens, j)
            /\ c.idents[c.ident[m.blocks[j]]].parent
                 = IF j = 1 THEN NoId ELSE c.ident[m.blocks[j - 1]]
        BY <1>1, <4>1 DEF Chained
      <4> QED BY <4>2, <4>3
    <3> QED BY <3>1, <3>2
  <2>8. i + 1 # 0 /\ Len(w.blocks) <= i + 1
    BY <2>6
  <2>9. Walked(c, tokens, w, i + 1)
    BY <2>5, <2>6, <2>7, <2>8 DEF Walked
  <2> QED BY <2>9 DEF w
<1> QED BY <1>1, <1>2, <1>3

(* A lookup returns a chain from the root of the index. *)
LEMMA MatchFacts ==
    ASSUME NEW c, PoolInv(c), NEW tokens, NEW max \in Int
    PROVE  /\ Chained(c, tokens, Match(c, tokens, max))
           /\ Len(Match(c, tokens, max)) * BlockSize <= max
              \/ Match(c, tokens, max) = <<>>
<1> DEFINE base == [blocks |-> <<>>, parent |-> NoId, open |-> TRUE]
           q == max \div BlockSize
           n == IF q < 0 THEN 0 ELSE q
           seq == [i \in 1 .. q |-> i]
<1>1. q \in Int /\ n \in Nat /\ 1 .. q = 1 .. n
  <2>1. q \in Int
    BY PoolAssumption
  <2> QED BY <2>1
<1>2. DOMAIN seq = 1 .. n /\ \A i \in 1 .. n : seq[i] = i
  BY <1>1
<1>3. Match(c, tokens, max) = MatchFold!FoldedBy(c, tokens, base, seq).blocks
  BY DEF Match, MatchFold!FoldedBy, FoldLeft, MapThenFoldSet,
         MatchFold!Greatest, Max, MatchStep
<1> HIDE DEF seq
<1>ind. MatchFold!Induction
  BY NatSetInduction DEF MatchFold!Induction
<1>4. PICK h : MatchFold!FoldRun(c, tokens, h, base, seq, n)
               /\ MatchFold!FoldedBy(c, tokens, base, seq) = h[n]
  BY <1>ind, <1>1, <1>2, MatchFold!FoldRuns
<1>5. h[0] = base /\ \A i \in 1 .. n : h[i] = MatchStep(c, tokens, h[i - 1], i)
  BY <1>2, <1>4 DEF MatchFold!FoldRun
<1> DEFINE S == {k \in 0 .. n : Walked(c, tokens, h[k], k)}
<1>6. 0 \in S
  <2>1. <<>> \in Seq(Indexed(c)) /\ Len(<<>>) = 0
    OBVIOUS
  <2>2. Chained(c, tokens, <<>>)
    BY <2>1 DEF Chained
  <2>3. Walked(c, tokens, base, 0)
    BY <2>1, <2>2 DEF Walked
  <2> QED BY <1>1, <1>5, <2>3
<1>7. ASSUME NEW k \in 0 .. n - 1, k \in S PROVE k + 1 \in S
  <2>1. k + 1 \in 1 .. n /\ (k + 1) - 1 = k /\ k + 1 \in 0 .. n /\ k \in Nat
    BY <1>1
  <2>2. Walked(c, tokens, h[k + 1], k + 1)
    BY <1>5, <1>7, <2>1, WalkStep
  <2> QED BY <2>1, <2>2
<1>8. Walked(c, tokens, h[n], n)
  <2> HIDE DEF S, n
  <2>1. 0 .. n \subseteq S
    BY <1>1, <1>6, <1>7, RangeInduction
  <2> QED BY <1>1, <2>1 DEF S
<1> DEFINE s == h[n].blocks
<1>9. Chained(c, tokens, s) /\ s \in Seq(Indexed(c)) /\ Len(s) <= n
  BY <1>8 DEF Walked
<1>10. Len(s) * BlockSize <= max \/ s = <<>>
  <2> HIDE DEF s
  <2>1. CASE q < 0
    <3>1. Len(s) = 0
      BY <1>9, <2>1
    <3> QED BY <1>9, <3>1
  <2>2. CASE q >= 0
    <3>1. n = q /\ BlockSize \in Nat \ {0}
      BY <1>1, <2>2, PoolAssumption
    <3>2. q * BlockSize <= max
      BY <3>1
    <3>3. Len(s) * BlockSize <= q * BlockSize
      <4>1. Len(s) \in Nat /\ q \in Nat /\ Len(s) <= q /\ BlockSize \in Nat
        BY <1>1, <1>9, <2>2, <3>1
      <4> HIDE DEF q, n
      <4> QED BY <4>1
    <3>4. Len(s) * BlockSize \in Int /\ q * BlockSize \in Int
      BY <1>1, <1>9, <3>1
    <3> HIDE DEF q
    <3> QED BY <3>2, <3>3, <3>4
  <2> QED BY <1>1, <2>1, <2>2
<1> QED BY <1>3, <1>4, <1>9, <1>10

(* No block occurs twice in a chain. *)
LEMMA ChainedDistinct ==
    ASSUME NEW c, PoolInv(c), NEW tokens, NEW s, Chained(c, tokens, s)
    PROVE  Distinct(s)
<1>1. s \in Seq(Indexed(c)) /\ DOMAIN s = 1 .. Len(s) /\ Len(s) \in Nat
  BY DEF Chained
<1>2. \A x \in Indexed(c) : c.ident[x] \in Ids /\ c.idents[c.ident[x]].block = x
  BY ParentFacts
<1>3. \A j \in 1 .. Len(s) : /\ s[j] \in Indexed(c)
                            /\ c.idents[c.ident[s[j]]].parent
                                 = IF j = 1 THEN NoId ELSE c.ident[s[j - 1]]
  BY <1>1 DEF Chained
<1> DEFINE n == Len(s)
           S == {i \in Nat : \A j \in 1 .. n : (i + 1 < j /\ i + 1 <= n) => s[i + 1] # s[j]}
<1> HIDE DEF n
<1>4. 0 \in S
  <2> SUFFICES ASSUME NEW j \in 1 .. n, 1 < j, 1 <= n, s[1] = s[j] PROVE FALSE
    OBVIOUS
  <2>1. j - 1 \in 1 .. n /\ 1 \in 1 .. n /\ j # 1
    BY <1>1 DEF n
  <2>2. c.idents[c.ident[s[1]]].parent = NoId
    BY <1>3, <2>1 DEF n
  <2>3. c.idents[c.ident[s[j]]].parent = c.ident[s[j - 1]] /\ s[j - 1] \in Indexed(c)
    BY <1>3, <2>1 DEF n
  <2> QED BY <1>2, <2>2, <2>3, BlocksFacts
<1>5. ASSUME NEW i \in Nat, i \in S PROVE i + 1 \in S
  <2> SUFFICES ASSUME NEW j \in 1 .. n, (i + 1) + 1 < j, (i + 1) + 1 <= n,
                      s[(i + 1) + 1] = s[j]
               PROVE  FALSE
    OBVIOUS
  <2> DEFINE k == (i + 1) + 1
  <2>1. /\ j - 1 \in 1 .. n /\ k \in 1 .. n /\ i + 1 \in 1 .. n /\ k # 1 /\ j # 1
        /\ k - 1 = i + 1 /\ i + 1 < j - 1
    BY <1>1 DEF n
  <2>2. c.idents[c.ident[s[k]]].parent = c.ident[s[i + 1]] /\ s[i + 1] \in Indexed(c)
    BY <1>3, <2>1 DEF n
  <2>3. c.idents[c.ident[s[j]]].parent = c.ident[s[j - 1]] /\ s[j - 1] \in Indexed(c)
    BY <1>3, <2>1 DEF n
  <2>4. s[i + 1] = s[j - 1]
    BY <1>2, <2>2, <2>3
  <2>5. i + 1 <= n
    BY <2>1
  <2> QED BY <1>5, <2>1, <2>4, <2>5
<1>6. Nat \subseteq S
  <2> HIDE DEF S
  <2> QED BY <1>4, <1>5, NatSetInduction
<1>7. ASSUME NEW i \in 1 .. n, NEW j \in 1 .. n, i < j PROVE s[i] # s[j]
  <2>1. i - 1 \in Nat /\ (i - 1) + 1 = i /\ i <= n
    BY <1>1
  <2>2. i - 1 \in S
    BY <1>6, <2>1
  <2> QED BY <1>7, <2>1, <2>2
<1> SUFFICES ASSUME NEW i \in 1 .. n, NEW j \in 1 .. n, s[i] = s[j] PROVE i = j
  BY <1>1 DEF Distinct, n
<1>8. i \in Int /\ j \in Int
  OBVIOUS
<1> QED BY <1>7, <1>8
---------------------------------------------------------------------------
(* The ledger of block ownership, and what is proved about it. *)
LP == INSTANCE BlockLedgerProofs WITH
    ref <- cache.ref, held <- Held, claimed <- Claimed, indexed <- Indexed(cache)

---------------------------------------------------------------------------
(* The inductive invariant. *)

Statuses == {"Absent", "Queued", "Active", "TurnComplete", "Failed"}

(* Statuses of the requests the scheduler still knows. *)
Open == {"Queued", "Active", "TurnComplete"}

(* What the code keeps of a request. *)
RequestType ==
    [status : Statuses, tokens : Seq(Tokens), processed : Nat, prompt : Nat,
     starts : Seq(Nat), drafts : Seq(Tokens)]

(* The lengths a request keeps of its session agree with each other. *)
SessionOK(q) ==
    /\ Len(q.tokens) <= MaxSession
    /\ q.prompt <= Len(q.tokens) /\ q.processed <= Len(q.tokens)
    /\ \A k \in 1 .. Len(q.starts) : q.starts[k] <= Len(q.tokens)
    /\ \A k, m \in 1 .. Len(q.starts) : k <= m => q.starts[k] <= q.starts[m]
    /\ q.status \in {"Queued", "Active"} =>
            /\ q.processed < Len(q.tokens)
            /\ Len(q.tokens) + Len(q.drafts) < MaxSession
    /\ q.status # "Active" => q.drafts = <<>>

(* Every request has such a state. *)
RequestsOK ==
    req \in [Requests -> RequestType] /\ \A r \in Requests : SessionOK(req[r])

(* The two lists of requests. *)
QueuesOK ==
    /\ residents \in Seq(Requests) /\ Distinct(residents)
    /\ pool \in Seq(Requests) /\ Distinct(pool)
    /\ \A r \in ToSet(residents) \cup ToSet(pool) : req[r].status \in Open
    /\ \A r \in Requests : req[r].status = "Active" => r \in ToSet(residents)

(* A block table. *)
TableType ==
    [blocks : Seq(Blocks), committed : Nat, sealed : Nat,
     sealedId : Ids \cup {NoId}, stopped : BOOLEAN]

(* An identity that is pointed at has not been collected. *)
Alive(c, id) == id # NoId => c.idents[id] # Unused

(* No table lists a block twice or commits more than it has room for. *)
TablesOK ==
    /\ table \in [Requests -> TableType]
    /\ \A r \in Requests :
        /\ Distinct(table[r].blocks)
        /\ table[r].committed <= Len(table[r].blocks) * BlockSize
        /\ Alive(cache, table[r].sealedId)
        /\ r \notin ToSet(residents) => table[r] = EmptyTable

(* An entry of the plan, against the request it is about. *)
EntryType ==
    [r : Requests, new : BOOLEAN, prefill : BOOLEAN, match : Seq(Blocks),
     base : Nat, n : Nat, d : Nat]

(* What an entry says holds of the request and of its table. *)
EntryOK(e) ==
    /\ e \in EntryType
    /\ IsExecutable(e.r) /\ (e.new => req[e.r].status = "Queued")
    /\ e.new <=> e.r \notin ToSet(residents)
    /\ IF e.new THEN e.base = Len(e.match) * BlockSize
       ELSE e.match = <<>> /\ e.base = table[e.r].committed
    /\ Distinct(e.match)
    /\ e.d < e.n /\ e.d <= Len(req[e.r].drafts)
    /\ e.base + e.n - e.d <= Len(req[e.r].tokens)

(* No request has two entries. *)
DistinctRequests(entries) ==
    \A i, j \in DOMAIN entries : entries[i].r = entries[j].r => i = j

(* The step plan, while there is one. *)
PlanOK ==
    /\ plan \in Seq(EntryType) /\ DistinctRequests(plan)
    /\ \A i \in 1 .. Len(plan) : EntryOK(plan[i])

(* What a request has processed is what its table has committed, or what   *)
(* an open step is about to adopt for it.                                  *)
StagingOK ==
    \A r \in Requests : req[r].status # "Failed" =>
        \/ req[r].processed = table[r].committed /\ ~Adopts(plan, r)
        \/ \E i \in 1 .. Len(plan) : /\ plan[i].r = r /\ plan[i].match # <<>>
                                     /\ req[r].processed = plan[i].base

(* The delta that a reservation made for an entry of the plan. *)
DeltaType ==
    [r : Requests, from : Nat, target : Nat, adopted : Seq(Blocks), new : Seq(Blocks)]

(* The i-th delta is the one its entry asked for. *)
DeltaOK(i) ==
    /\ rsv[i] \in DeltaType
    /\ rsv[i].r = plan[i].r /\ rsv[i].from = plan[i].base
    /\ rsv[i].target = Target(plan[i]) /\ rsv[i].adopted = plan[i].match
    /\ Distinct(rsv[i].new)
    /\ ToSet(rsv[i].adopted) \subseteq Indexed(cache)
    /\ ToSet(rsv[i].new) \cap Indexed(cache) = {}
    /\ Len(BlockTable(i)) * BlockSize >= Larger(Len(req[plan[i].r].tokens), rsv[i].target)

(* A reservation is open. *)
Reserved == phase \in {"reserved", "executed"}

(* There is a delta for every entry, or no reservation. *)
RsvOK ==
    IF Reserved
    THEN rsv \in Seq(DeltaType) /\ Len(rsv) = Len(plan)
         /\ \A i \in 1 .. Len(plan) : DeltaOK(i)
    ELSE rsv = <<>>

(* What is known in each phase of the step. *)
PhaseOK ==
    /\ phase \in {"idle", "planned", "reserved", "executed", "unhealthy"}
    /\ phase = "idle" => plan = <<>>
    /\ phase = "planned" => \A i \in 1 .. Len(plan) :
            Chained(cache, req[plan[i].r].tokens, plan[i].match)

(* Committed slots of the j-th block of a table that has k tokens. *)
Filled(k, j) ==
    IF j * BlockSize <= k THEN BlockSize
    ELSE IF k <= (j - 1) * BlockSize THEN 0 ELSE k - (j - 1) * BlockSize

(* Every block counts the slots that its users have committed. *)
SizesOK ==
    /\ \A b \in Blocks : cache.ref[b] = 0 => cache.size[b] = 0
    /\ \A b \in Indexed(cache) : cache.size[b] = BlockSize
    /\ \A r \in Requests : \A j \in 1 .. Len(table[r].blocks) :
            cache.size[table[r].blocks[j]] = Filled(table[r].committed, j)
    /\ \A i \in 1 .. Len(rsv) : \A b \in ToSet(rsv[i].new) : cache.size[b] = 0

(* The inductive invariant. *)
StepInv ==
    /\ config \in Configurations
    /\ PoolInv(cache) /\ LP!LedgerInv
    /\ RequestsOK /\ QueuesOK /\ TablesOK /\ PlanOK /\ StagingOK /\ RsvOK
    /\ PhaseOK /\ SizesOK /\ StartedPrefillOwnsItsPrompt

---------------------------------------------------------------------------
(* Facts about the constants, and arithmetic on blocks. *)

(* What every configuration of the Engine provides. *)
LEMMA ConfigFacts ==
    ASSUME config \in Configurations
    PROVE  /\ MaxSession \in Nat /\ MaxDrafts \in Nat /\ Tokens \subseteq Nat
           /\ MaxScheduledTokens \in Nat \ {0} /\ MaxBatch \in Nat \ {0}
           /\ PrefillChunk \in Nat /\ config.maxIndexed \in Nat
           /\ \A p \in Prompts : p \in Seq(Tokens) /\ p # <<>>
BY EngineAssumption DEF MaxSession, MaxDrafts, Tokens, MaxScheduledTokens, MaxBatch,
   PrefillChunk, Prompts

(* Numbers of slots are linear in numbers of blocks. *)
LEMMA TimesBlockSize ==
    ASSUME NEW j \in Int, NEW k \in Int
    PROVE  /\ j * BlockSize \in Int
           /\ (j + 1) * BlockSize = j * BlockSize + BlockSize
           /\ (j - 1) * BlockSize = j * BlockSize - BlockSize
           /\ (j + k) * BlockSize = j * BlockSize + k * BlockSize
           /\ j <= k <=> j * BlockSize <= k * BlockSize
           /\ j >= 0 => j * BlockSize >= 0
<1>1. BlockSize \in Int /\ BlockSize >= 1
  BY PoolAssumption
<1>2. ASSUME NEW a \in Int, NEW b \in Int, a <= b PROVE a * BlockSize <= b * BlockSize
  <2>1. (b - a) * BlockSize >= 0
    BY <1>1, <1>2
  <2> QED BY <1>1, <2>1
<1>3. ASSUME NEW a \in Int, NEW b \in Int, a * BlockSize <= b * BlockSize PROVE a <= b
  <2>1. SUFFICES ASSUME b + 1 <= a PROVE FALSE
    BY <1>3
  <2>2. (b + 1) * BlockSize <= a * BlockSize
    BY <2>1, <1>2
  <2> QED BY <2>2, <1>1, <1>3
<1>4. j <= k <=> j * BlockSize <= k * BlockSize
  BY <1>2, <1>3
<1>5. j >= 0 => j * BlockSize >= 0
  BY <1>1
<1> QED BY <1>1, <1>4, <1>5

(* Division by the size of a block. *)
LEMMA DivBlockSize ==
    ASSUME NEW k \in Int
    PROVE  /\ k \div BlockSize \in Int /\ k % BlockSize \in 0 .. BlockSize - 1
           /\ k = (k \div BlockSize) * BlockSize + (k % BlockSize)
           /\ k >= 0 => k \div BlockSize >= 0
<1>1. BlockSize \in Int /\ BlockSize > 0
  BY PoolAssumption
<1>2. k \div BlockSize \in Int /\ k % BlockSize \in 0 .. BlockSize - 1
  BY <1>1
<1>3. k = BlockSize * (k \div BlockSize) + (k % BlockSize)
  BY <1>1
<1>4. BlockSize * (k \div BlockSize) = (k \div BlockSize) * BlockSize
  BY <1>1, <1>2
<1>5. k >= 0 => k \div BlockSize >= 0
  BY <1>1
<1> QED BY <1>2, <1>3, <1>4, <1>5

(* The block that a position is in. *)
LEMMA BlockOfPosition ==
    ASSUME NEW p \in Nat \ {0}, NEW j, j = (p - 1) \div BlockSize + 1
    PROVE  /\ j \in Nat \ {0} /\ (j - 1) * BlockSize < p /\ p <= j * BlockSize
           /\ SlotOf(p) = p - (j - 1) * BlockSize /\ SlotOf(p) \in 1 .. BlockSize
           /\ \A k \in Int : (k - 1) * BlockSize < p /\ p <= k * BlockSize => k = j
<1>1. /\ (p - 1) \div BlockSize \in Int /\ (p - 1) % BlockSize \in 0 .. BlockSize - 1
      /\ p - 1 = ((p - 1) \div BlockSize) * BlockSize + ((p - 1) % BlockSize)
      /\ (p - 1) \div BlockSize >= 0
  BY DivBlockSize
<1>2. j \in Nat \ {0} /\ j - 1 = (p - 1) \div BlockSize
  BY <1>1
<1>3. /\ p - 1 = (j - 1) * BlockSize + ((p - 1) % BlockSize)
      /\ j * BlockSize \in Int /\ (j - 1) * BlockSize = j * BlockSize - BlockSize
  BY <1>1, <1>2, TimesBlockSize
<1>4. BlockSize \in Nat
  BY PoolAssumption
<1>5. (j - 1) * BlockSize < p /\ p <= j * BlockSize
  BY <1>1, <1>3, <1>4
<1>6. SlotOf(p) = p - (j - 1) * BlockSize /\ SlotOf(p) \in 1 .. BlockSize
  BY <1>1, <1>3, <1>4 DEF SlotOf
<1>7. ASSUME NEW k \in Int, (k - 1) * BlockSize < p, p <= k * BlockSize PROVE k = j
  <2> DEFINE i == j - 1
             l == k - 1
  <2>0. i \in Int /\ l \in Int /\ j \in Int
    BY <1>2
  <2>a. ASSUME NEW a \in Int, NEW b \in Int
        PROVE  a * BlockSize \in Int /\ (a <= b <=> a * BlockSize <= b * BlockSize)
    BY TimesBlockSize
  <2> HIDE DEF i, l
  <2>1. l * BlockSize \in Int /\ k * BlockSize \in Int /\ j * BlockSize \in Int
        /\ (k <= i <=> k * BlockSize <= i * BlockSize)
        /\ (j <= l <=> j * BlockSize <= l * BlockSize)
    BY <2>0, <2>a
  <2> USE DEF i, l
  <2>2. ~ (k * BlockSize <= (j - 1) * BlockSize) /\ ~ (j * BlockSize <= (k - 1) * BlockSize)
    BY <1>3, <1>4, <1>5, <1>7, <2>1
  <2>3. ~ (k <= j - 1) /\ ~ (j <= k - 1)
    BY <2>1, <2>2
  <2> QED BY <2>3, <1>2
<1> QED BY <1>2, <1>5, <1>6, <1>7

(* As many blocks as a number of slots needs. *)
LEMMA BlocksNeededFacts ==
    ASSUME NEW s \in Nat, NEW k \in Nat
    PROVE  /\ BlocksNeeded(s) \in Nat /\ s <= BlocksNeeded(s) * BlockSize
           /\ s <= k * BlockSize => BlocksNeeded(s) <= k
<1> DEFINE q == (s + BlockSize - 1) \div BlockSize
           m == (s + BlockSize - 1) % BlockSize
<1>1. BlockSize \in Nat /\ BlockSize >= 1
  BY PoolAssumption
<1>2. /\ q \in Int /\ m \in 0 .. BlockSize - 1 /\ q >= 0
      /\ s + BlockSize - 1 = q * BlockSize + m
  <2>1. s + BlockSize - 1 \in Int /\ s + BlockSize - 1 >= 0
    BY <1>1
  <2> QED BY <2>1, DivBlockSize
<1>3. BlocksNeeded(s) = q
  BY DEF BlocksNeeded
<1> HIDE DEF q, m
<1>4. s <= q * BlockSize
  <2>1. q * BlockSize \in Int
    BY <1>2, TimesBlockSize
  <2> QED BY <1>1, <1>2, <2>1
<1>5. ASSUME s <= k * BlockSize PROVE q <= k
  <2>1. /\ q * BlockSize \in Int /\ k * BlockSize \in Int
        /\ (q - 1) * BlockSize = q * BlockSize - BlockSize
    BY <1>2, TimesBlockSize
  <2>2. ~ (k * BlockSize <= (q - 1) * BlockSize)
    BY <1>1, <1>2, <1>5, <2>1
  <2>3. ~ (k <= q - 1)
    BY <2>2, <1>2, TimesBlockSize
  <2> QED BY <2>3, <1>2
<1> QED BY <1>2, <1>3, <1>4, <1>5

---------------------------------------------------------------------------
(* The ledger. *)

(* The ledger counts as PagedCache counts. *)
LEMMA LedgerCounts ==
    /\ \A S : LP!IsFiniteSet(S) = IsFiniteSet(S)
    /\ \A S : LP!Cardinality(S) = Cardinality(S)
    /\ LP!IsFiniteSet(Blocks) /\ LP!IsFiniteSet(Requests)
<1>1. \A S : LP!IsFiniteSet(S) = IsFiniteSet(S)
  BY DEF LP!IsFiniteSet, IsFiniteSet
<1>2. \A S : LP!Cardinality(S) = Cardinality(S)
  BY DEF LP!Cardinality, Cardinality, LP!IsFiniteSet, IsFiniteSet
<1> QED BY <1>1, <1>2, BlocksFinite, EngineAssumption

(* A step of the ledger keeps its invariant. *)
LEMMA LedgerStep ==
    ASSUME LP!LedgerInv, [LP!Next]_(LP!vars)
    PROVE  LP!LedgerInv'
<1>1. CASE UNCHANGED LP!vars
  BY <1>1 DEF LP!vars, LP!LedgerInv, LP!TypeOK, LP!CountsAreExact, LP!Users, LP!One,
     LP!SharedOnlyThroughIndex, LP!ClaimsAreNew
<1>2. CASE LP!Reserve
  BY <1>2, LedgerCounts, LP!ReservePreserves
<1>3. CASE LP!Abort
  BY <1>3, LedgerCounts, LP!AbortPreserves
<1>4. CASE LP!Commit
  BY <1>4, LedgerCounts, LP!CommitPreserves
<1>5. ASSUME NEW r \in Requests, LP!Release(r) PROVE LP!LedgerInv'
  BY <1>5, LedgerCounts, LP!ReleasePreserves
<1> QED BY <1>1, <1>2, <1>3, <1>4, <1>5 DEF LP!Next

(* A party that refers to a block is counted. *)
LEMMA UsersCount ==
    ASSUME LP!LedgerInv, NEW f, f \in {Held, Claimed}, NEW r \in Requests, NEW b \in f[r]
    PROVE  b \in Blocks /\ cache.ref[b] >= 1 + Bit(b \in Indexed(cache))
<1>1. Held \in [Requests -> SUBSET Blocks] /\ Claimed \in [Requests -> SUBSET Blocks]
  BY DEF LP!LedgerInv, LP!TypeOK
<1>2. b \in Blocks
  BY <1>1
<1>3. cache.ref[b] = LP!Cardinality(LP!Users(Held, b)) + LP!Cardinality(LP!Users(Claimed, b))
                     + LP!One(b \in Indexed(cache))
  BY <1>2 DEF LP!LedgerInv, LP!CountsAreExact
<1>4. \A g : /\ LP!Cardinality(LP!Users(g, b)) \in Nat
             /\ LP!Cardinality(LP!Users(g, b)) = 0 <=> LP!Users(g, b) = {}
  BY LedgerCounts, LP!UsersFinite
<1>5. r \in LP!Users(f, b)
  BY DEF LP!Users
<1>6. LP!Cardinality(LP!Users(f, b)) >= 1
  BY <1>4, <1>5
<1>7. LP!One(b \in Indexed(cache)) = Bit(b \in Indexed(cache)) /\ Bit(b \in Indexed(cache)) \in Nat
  BY DEF LP!One, Bit
<1> HIDE DEF Held, Claimed
<1> QED BY <1>2, <1>3, <1>4, <1>6, <1>7

(* A block that nobody but the index refers to is in no table and in no    *)
(* open step.                                                              *)
LEMMA UnusedBlocks ==
    ASSUME LP!LedgerInv, NEW b \in Blocks, cache.ref[b] <= Bit(b \in Indexed(cache)),
           NEW r \in Requests
    PROVE  b \notin Held[r] /\ b \notin Claimed[r]
<1>1. Bit(b \in Indexed(cache)) \in Nat /\ cache.ref[b] \in Nat
  BY DEF Bit, LP!LedgerInv, LP!TypeOK
<1>2. ASSUME NEW f, f \in {Held, Claimed}, b \in f[r] PROVE FALSE
  <2>1. cache.ref[b] >= 1 + Bit(b \in Indexed(cache))
    BY <1>2, UsersCount
  <2> QED BY <1>1, <2>1
<1> QED BY <1>2

(* The blocks that deltas claim for a request. *)
ClaimedOf(q) == [r \in Requests |->
    UNION {ToSet(q[i].adopted) \cup ToSet(q[i].new) : i \in {i \in DOMAIN q : q[i].r = r}}]

(* Deltas that say for which request they are, at most one for each. *)
AreDeltas(q, n) ==
    /\ DOMAIN q = 1 .. n /\ DistinctRequests(q)
    /\ \A i \in 1 .. n : q[i].r \in Requests

(* A request claims a block when its delta does. *)
LEMMA ClaimedByDelta ==
    ASSUME NEW n \in Nat, NEW q, AreDeltas(q, n), NEW i \in 1 .. n
    PROVE  ClaimedOf(q)[q[i].r] = ToSet(q[i].adopted) \cup ToSet(q[i].new)
<1>1. {k \in DOMAIN q : q[k].r = q[i].r} = {i}
  BY DEF AreDeltas, DistinctRequests
<1>2. q[i].r \in Requests
  BY DEF AreDeltas
<1> QED BY <1>1, <1>2 DEF ClaimedOf

(* As many requests claim a block as there are deltas that list it. *)
LEMMA ClaimCount ==
    ASSUME NEW n \in Nat, NEW q, AreDeltas(q, n), NEW b
    PROVE  LP!Cardinality(LP!Users(ClaimedOf(q), b))
             = Cardinality({i \in 1 .. n : b \in ToSet(q[i].adopted) \cup ToSet(q[i].new)})
<1> DEFINE S == {i \in 1 .. n : b \in ToSet(q[i].adopted) \cup ToSet(q[i].new)}
           T == LP!Users(ClaimedOf(q), b)
           f == [i \in S |-> q[i].r]
<1>1. ASSUME NEW i \in S PROVE q[i].r \in T
  BY <1>1, ClaimedByDelta DEF LP!Users, AreDeltas
<1>2. ASSUME NEW r \in T PROVE \E i \in S : q[i].r = r
  <2>1. r \in Requests /\ b \in ClaimedOf(q)[r]
    BY DEF LP!Users
  <2>2. PICK i \in DOMAIN q : q[i].r = r /\ b \in ToSet(q[i].adopted) \cup ToSet(q[i].new)
    BY <2>1 DEF ClaimedOf
  <2> QED BY <2>2 DEF AreDeltas
<1>3. ASSUME NEW i \in S, NEW k \in S, q[i].r = q[k].r PROVE i = k
  BY <1>3 DEF AreDeltas, DistinctRequests
<1>4. ExistsBijection(S, T)
  <2>1. f \in Bijection(S, T)
    <3> HIDE DEF S, T
    <3>1. f \in [S -> T]
      BY <1>1
    <3>2. f \in Injection(S, T)
      BY <3>1, <1>3 DEF Injection, IsInjective
    <3>3. f \in Surjection(S, T)
      BY <3>1, <1>2 DEF Surjection
    <3> QED BY <3>2, <3>3 DEF Bijection
  <2> QED BY <2>1 DEF ExistsBijection
<1>5. IsFiniteSet(S)
  <2>1. IsFiniteSet(1 .. n) /\ S \in SUBSET (1 .. n)
    BY FS_Interval
  <2> QED BY <2>1, FS_Subset
<1>6. Cardinality(S) = Cardinality(T)
  <2> HIDE DEF S, T
  <2> QED BY <1>4, <1>5, FS_Bijection
<1> QED BY <1>6, LedgerCounts

---------------------------------------------------------------------------
(* The initial state. *)

(* A new pool, with nothing indexed. *)
LEMMA EmptyCacheInv ==
    ASSUME NEW limit \in Nat
    PROVE  /\ PoolInv(EmptyCache(limit)) /\ Indexed(EmptyCache(limit)) = {}
           /\ EmptyCache(limit).ref = [b \in Blocks |-> 0]
           /\ EmptyCache(limit).size = [b \in Blocks |-> 0]
           /\ EmptyCache(limit).idents = [i \in Ids |-> Unused]
<1> DEFINE c == EmptyCache(limit)
           V == {0, EmptyBlock, <<>>}
<1>1. /\ c.ref = [b \in Blocks |-> 0] /\ c.size = [b \in Blocks |-> 0]
      /\ c.kv = [b \in Blocks |-> EmptyBlock] /\ c.ident = [b \in Blocks |-> NoId]
      /\ c.recency = <<>> /\ c.reclaimable = <<>> /\ c.promote = {}
      /\ c.idents = [i \in Ids |-> Unused] /\ c.limit = limit
  BY DEF EmptyCache
<1>2. Unused \in Identity(V)
  BY DEF Unused, Identity
<1>3. c \in CacheType(V)
  <2>1. c = [ref |-> c.ref, size |-> c.size, kv |-> c.kv, ident |-> c.ident,
             recency |-> c.recency, reclaimable |-> c.reclaimable,
             promote |-> c.promote, idents |-> c.idents, limit |-> c.limit]
    BY DEF EmptyCache
  <2>2. /\ c.ref \in [Blocks -> Nat] /\ c.size \in [Blocks -> V]
        /\ c.kv \in [Blocks -> V] /\ c.ident \in [Blocks -> Ids \cup {NoId}]
        /\ c.recency \in Seq(Blocks) /\ c.reclaimable \in Seq(Blocks)
        /\ c.promote \in SUBSET Blocks /\ c.idents \in [Ids -> Identity(V)]
        /\ c.limit \in Nat
    BY <1>1, <1>2
  <2> HIDE DEF c, V
  <2> QED BY <2>1, <2>2 DEF CacheType
<1> HIDE DEF V
<1>4. IsCache(c)
  BY <1>3 DEF IsCache
<1>5. ToSet(<<>>) = {}
  BY DEF ToSet
<1>6. Indexed(c) = {}
  BY <1>1, <1>5 DEF Indexed
<1>7. ListsOK(c)
  BY <1>1, <1>5, <1>6 DEF ListsOK, Distinct
<1>8. IndexOK(c)
  BY <1>1, <1>6 DEF IndexOK
<1> QED BY <1>1, <1>4, <1>6, <1>7, <1>8 DEF PoolInv

(* Nothing is claimed when nothing is reserved. *)
LEMMA NothingClaimed ==
    ASSUME NEW q, q = <<>>
    PROVE  ClaimedOf(q) = [r \in Requests |-> {}]
BY DEF ClaimedOf

(* The parts of the invariant that speak of the step hold between steps. *)
LEMMA BetweenSteps ==
    ASSUME phase = "idle", plan = <<>>, rsv = <<>>
    PROVE  /\ PlanOK /\ RsvOK /\ PhaseOK
           /\ StagingOK <=> \A r \in Requests : req[r].status # "Failed" =>
                                req[r].processed = table[r].committed
<1>1. PlanOK
  BY DEF PlanOK, DistinctRequests
<1>2. RsvOK /\ PhaseOK
  BY DEF RsvOK, PhaseOK, Reserved
<1> QED BY <1>1, <1>2 DEF StagingOK, Adopts

(* The same after a step. *)
LEMMA BetweenStepsAgain ==
    ASSUME phase' = "idle", plan' = <<>>, rsv' = <<>>,
           \A r \in Requests : req'[r].status # "Failed" =>
                                req'[r].processed = table'[r].committed
    PROVE  PlanOK' /\ RsvOK' /\ PhaseOK' /\ StagingOK'
<1>1. PlanOK'
  BY DEF PlanOK, DistinctRequests
<1>2. RsvOK' /\ PhaseOK'
  BY DEF RsvOK, PhaseOK, Reserved
<1> QED BY <1>1, <1>2 DEF StagingOK, Adopts

(* The Engine as it is created. *)
LEMMA StepInit == Init => StepInv
<1> SUFFICES ASSUME Init PROVE StepInv
  OBVIOUS
<1> USE DEF Init
<1>1. config \in Configurations /\ config.maxIndexed \in Nat /\ MaxSession \in Nat
  BY ConfigFacts
<1>2. /\ PoolInv(cache) /\ Indexed(cache) = {} /\ cache.ref = [b \in Blocks |-> 0]
      /\ cache.size = [b \in Blocks |-> 0] /\ cache.idents = [i \in Ids |-> Unused]
  BY <1>1, EmptyCacheInv
<1>3. ToSet(<<>>) = {}
  BY DEF ToSet
<1>4. Held = [r \in Requests |-> {}] /\ Claimed = [r \in Requests |-> {}]
  BY <1>3 DEF Held, Claimed, EmptyTable
<1>5. LP!LedgerInv
  <2>1. LP!Init
    BY <1>2, <1>4 DEF LP!Init, LP!NoBlocks
  <2> QED BY <2>1, LedgerCounts, LP!LedgerInit
<1>6. RequestsOK
  <2>1. NoRequest \in RequestType
    BY DEF NoRequest, RequestType, Statuses
  <2>2. SessionOK(NoRequest)
    BY <1>1 DEF NoRequest, SessionOK
  <2> QED BY <2>1, <2>2 DEF RequestsOK
<1>7. QueuesOK
  BY <1>3 DEF QueuesOK, Distinct, NoRequest
<1>8. TablesOK
  <2>1. EmptyTable \in TableType /\ Distinct(EmptyTable.blocks) /\ Alive(cache, EmptyTable.sealedId)
        /\ EmptyTable.committed <= Len(EmptyTable.blocks) * BlockSize
    BY PoolAssumption DEF EmptyTable, TableType, Distinct, Alive
  <2> QED BY <2>1 DEF TablesOK
<1>9. PlanOK /\ RsvOK /\ PhaseOK /\ StagingOK
  BY BetweenSteps DEF NoRequest, EmptyTable
<1>10. SizesOK
  BY <1>2 DEF SizesOK, EmptyTable
<1>11. StartedPrefillOwnsItsPrompt
  BY DEF StartedPrefillOwnsItsPrompt, NoRequest
<1> QED BY <1>1, <1>2, <1>5, <1>6, <1>7, <1>8, <1>9, <1>10, <1>11 DEF StepInv

---------------------------------------------------------------------------
(* Request operations between steps. *)

(* The record of one request becomes q, and nothing changes for others. *)
LEMMA RequestUpdate ==
    ASSUME StepInv, phase = "idle", phase' = phase, plan' = plan, rsv' = rsv,
           config' = config, PoolInv(cache)', LP!LedgerInv', TablesOK', SizesOK',
           NEW r \in Requests, NEW q \in RequestType, SessionOK(q),
           req' = [req EXCEPT ![r] = q],
           \A s \in Requests \ {r} : table'[s] = table[s],
           residents' \in Seq(Requests), Distinct(residents'),
           ToSet(residents') \ {r} = ToSet(residents) \ {r},
           pool' \in Seq(Requests), Distinct(pool'), ToSet(pool') \ {r} = ToSet(pool) \ {r},
           r \in ToSet(residents') \cup ToSet(pool') => q.status \in Open,
           q.status = "Active" => r \in ToSet(residents'),
           q.status # "Failed" => q.processed = table'[r].committed,
           q.status = "Active" /\ q.processed < q.prompt =>
                Len(table'[r].blocks) * BlockSize >= q.prompt
    PROVE  StepInv'
<1>1. /\ req \in [Requests -> RequestType] /\ \A s \in Requests : SessionOK(req[s])
      /\ plan = <<>> /\ rsv = <<>>
  BY DEF StepInv, RequestsOK, PhaseOK, RsvOK, Reserved
<1>2. /\ req' \in [Requests -> RequestType] /\ req'[r] = q
      /\ \A s \in Requests \ {r} : req'[s] = req[s]
  BY <1>1
<1>3. RequestsOK'
  <2>1. RequestType' = RequestType
    BY DEF RequestType, Tokens
  <2>2. ASSUME NEW s \in Requests PROVE SessionOK(req[s])'
    <3>1. SessionOK(req'[s])
      BY <1>1, <1>2
    <3>2. MaxSession' = MaxSession
      BY DEF MaxSession
    <3> QED BY <3>1, <3>2 DEF SessionOK
  <2> QED BY <1>2, <2>1, <2>2 DEF RequestsOK
<1>4. QueuesOK'
  <2>1. /\ \A s \in ToSet(residents) \cup ToSet(pool) : req[s].status \in Open
        /\ \A s \in Requests : req[s].status = "Active" => s \in ToSet(residents)
        /\ residents \in Seq(Requests) /\ pool \in Seq(Requests)
    BY DEF StepInv, QueuesOK
  <2>2. ToSet(residents') \subseteq Requests /\ ToSet(pool') \subseteq Requests
    BY DEF ToSet
  <2>3. ASSUME NEW s \in ToSet(residents') \cup ToSet(pool') PROVE req'[s].status \in Open
    <3>1. CASE s = r
      BY <3>1, <1>2
    <3>2. CASE s # r
      <4>1. s \in ToSet(residents) \cup ToSet(pool) /\ s \in Requests
        BY <3>2, <2>2
      <4> QED BY <4>1, <3>2, <2>1, <1>2
    <3> QED BY <3>1, <3>2
  <2>4. ASSUME NEW s \in Requests, req'[s].status = "Active" PROVE s \in ToSet(residents')
    <3>1. CASE s = r
      BY <3>1, <1>2, <2>4
    <3>2. CASE s # r
      BY <3>2, <1>2, <2>1, <2>4
    <3> QED BY <3>1, <3>2
  <2> QED BY <2>3, <2>4 DEF QueuesOK
<1>5. PlanOK' /\ RsvOK' /\ PhaseOK' /\ StagingOK'
  <2>1. \A s \in Requests : req[s].status # "Failed" => req[s].processed = table[s].committed
    BY <1>1, BetweenSteps DEF StepInv
  <2>2. \A s \in Requests : req'[s].status # "Failed" => req'[s].processed = table'[s].committed
    BY <1>2, <2>1
  <2>3. phase' = "idle" /\ plan' = <<>> /\ rsv' = <<>>
    BY <1>1
  <2> QED BY <2>2, <2>3, BetweenStepsAgain
<1>6. StartedPrefillOwnsItsPrompt'
  <2> SUFFICES ASSUME NEW s \in Requests, req'[s].status = "Active",
                      req'[s].processed < req'[s].prompt
               PROVE  Len(table'[s].blocks) * BlockSize >= req'[s].prompt
    BY DEF StartedPrefillOwnsItsPrompt, IsPrefill
  <2>1. CASE s = r
    BY <2>1, <1>2
  <2>2. CASE s # r
    BY <2>2, <1>2 DEF StepInv, StartedPrefillOwnsItsPrompt, IsPrefill
  <2> QED BY <2>1, <2>2
<1> QED BY <1>3, <1>4, <1>5, <1>6 DEF StepInv

(* The cache and the tables stay as they are. *)
LEMMA CacheUntouched ==
    ASSUME StepInv, UNCHANGED <<config, cache, table, residents, rsv>>
    PROVE  /\ PoolInv(cache)' /\ UNCHANGED LP!vars /\ LP!LedgerInv' /\ TablesOK' /\ SizesOK'
           /\ residents' \in Seq(Requests) /\ Distinct(residents')
<1>1. UNCHANGED LP!vars
  BY DEF LP!vars, Held, Claimed
<1>2. LP!LedgerInv'
  BY <1>1, LedgerStep DEF StepInv
<1> QED BY <1>1, <1>2 DEF StepInv, TablesOK, SizesOK, QueuesOK, Alive

(* What is appended to a sequence comes last. *)
LEMMA AppendFacts ==
    ASSUME NEW E, NEW s \in Seq(E), NEW x \in E
    PROVE  /\ Append(s, x) \in Seq(E) /\ Len(Append(s, x)) = Len(s) + 1
           /\ \A k \in 1 .. Len(s) : Append(s, x)[k] = s[k]
           /\ Append(s, x)[Len(s) + 1] = x
OBVIOUS

(* A request begins a turn (Engine::BeginTurn, AddRequest). *)
LEMMA BeginTurnPreserves ==
    ASSUME StepInv, NEW r \in Requests, NEW input \in Prompts, BeginTurn(r, input),
           config' = config
    PROVE  StepInv' /\ UNCHANGED LP!vars
<1> DEFINE q == [req[r] EXCEPT !.status = "Queued",
                                !.tokens = req[r].tokens \o input,
                                !.prompt = Len(req[r].tokens) + Len(input),
                                !.starts = Append(req[r].starts, Len(req[r].tokens))]
           old == req[r]
<1>0. /\ phase = "idle" /\ old.status \in {"Absent", "TurnComplete"}
      /\ Len(old.tokens) + Len(input) < MaxSession
      /\ req' = [req EXCEPT ![r] = q]
      /\ pool' = IF old.status = "Absent" THEN Append(pool, r) ELSE pool
      /\ UNCHANGED <<cache, table, residents, plan, rsv, phase>>
  <2>1. req \in [Requests -> RequestType]
    BY DEF StepInv, RequestsOK
  <2> QED BY <2>1 DEF BeginTurn
<1>1. /\ old \in RequestType /\ SessionOK(old) /\ input \in Seq(Tokens) /\ Len(input) >= 1
      /\ MaxSession \in Nat
  <2>1. input \in Seq(Tokens) /\ input # <<>> /\ MaxSession \in Nat
    BY ConfigFacts DEF StepInv
  <2>2. Len(input) >= 1
    BY <2>1
  <2> QED BY <2>1, <2>2 DEF StepInv, RequestsOK
<1>2. /\ q.status = "Queued" /\ q.tokens = old.tokens \o input
      /\ q.prompt = Len(old.tokens) + Len(input)
      /\ q.starts = Append(old.starts, Len(old.tokens))
      /\ q.processed = old.processed /\ q.drafts = old.drafts /\ q \in RequestType
  <2>1. /\ old.tokens \in Seq(Tokens) /\ old.processed \in Nat /\ old.starts \in Seq(Nat)
        /\ old.drafts \in Seq(Tokens) /\ Len(old.tokens) \in Nat
        /\ old.tokens \o input \in Seq(Tokens) /\ Len(old.tokens) + Len(input) \in Nat
        /\ Append(old.starts, Len(old.tokens)) \in Seq(Nat)
    BY <1>1 DEF RequestType
  <2>2. q = [status |-> "Queued", tokens |-> old.tokens \o input,
             processed |-> old.processed, prompt |-> Len(old.tokens) + Len(input),
             starts |-> Append(old.starts, Len(old.tokens)), drafts |-> old.drafts]
    <3>1. q = [old EXCEPT !.status = "Queued", !.tokens = old.tokens \o input,
                          !.prompt = Len(old.tokens) + Len(input),
                          !.starts = Append(old.starts, Len(old.tokens))]
      OBVIOUS
    <3> HIDE DEF q, old
    <3> QED BY <1>1, <3>1 DEF RequestType
  <2> HIDE DEF q, old
  <2> QED BY <2>1, <2>2 DEF RequestType, Statuses
<1>3. /\ Len(q.tokens) = Len(old.tokens) + Len(input) /\ Len(q.tokens) \in Nat
      /\ Len(q.starts) = Len(old.starts) + 1 /\ Len(old.starts) \in Nat
      /\ \A k \in 1 .. Len(old.starts) : q.starts[k] = old.starts[k] /\ old.starts[k] \in Nat
      /\ q.starts[Len(old.starts) + 1] = Len(old.tokens) /\ Len(old.tokens) \in Nat
      /\ Len(input) \in Nat /\ old.processed \in Nat
  <2>1. old.tokens \in Seq(Tokens) /\ old.starts \in Seq(Nat) /\ old.processed \in Nat
    BY <1>1 DEF RequestType
  <2> HIDE DEF q, old
  <2>2. Len(q.tokens) = Len(old.tokens) + Len(input) /\ Len(old.tokens) \in Nat /\ Len(input) \in Nat
    BY <2>1, <1>1, <1>2
  <2>3. /\ Len(q.starts) = Len(old.starts) + 1 /\ Len(old.starts) \in Nat
        /\ \A k \in 1 .. Len(old.starts) : q.starts[k] = old.starts[k] /\ old.starts[k] \in Nat
        /\ q.starts[Len(old.starts) + 1] = Len(old.tokens)
    <3>1. \A k \in 1 .. Len(old.starts) : old.starts[k] \in Nat
      BY <2>1
    <3> QED BY <2>1, <2>2, <1>2, <3>1, AppendFacts
  <2>4. old.processed \in Nat /\ Len(input) \in Nat
    BY <2>1, <2>2
  <2> QED BY <2>2, <2>3, <2>4
<1> HIDE DEF q, old
<1>4. SessionOK(q)
  <2>1. /\ \A k \in 1 .. Len(old.starts) : old.starts[k] <= Len(old.tokens)
        /\ \A k, m \in 1 .. Len(old.starts) : k <= m => old.starts[k] <= old.starts[m]
        /\ old.processed <= Len(old.tokens) /\ old.drafts = <<>>
    BY <1>0, <1>1 DEF SessionOK
  <2>2. ASSUME NEW k \in 1 .. Len(q.starts)
        PROVE  q.starts[k] <= Len(q.tokens) /\ q.starts[k] <= Len(old.tokens)
    <3>1. CASE k = Len(old.starts) + 1
      BY <3>1, <1>1, <1>3
    <3>2. CASE k \in 1 .. Len(old.starts)
      BY <3>2, <2>1, <1>1, <1>3
    <3> QED BY <3>1, <3>2, <1>3
  <2>3. ASSUME NEW k \in 1 .. Len(q.starts), NEW m \in 1 .. Len(q.starts), k <= m
        PROVE  q.starts[k] <= q.starts[m]
    <3>1. CASE m = Len(old.starts) + 1
      BY <3>1, <2>2, <1>3
    <3>2. CASE m \in 1 .. Len(old.starts)
      <4>1. k \in 1 .. Len(old.starts)
        BY <3>2, <2>3, <1>3
      <4> QED BY <4>1, <3>2, <2>1, <2>3, <1>3
    <3> QED BY <3>1, <3>2, <1>3
  <2>4. /\ Len(q.tokens) <= MaxSession /\ q.prompt <= Len(q.tokens)
        /\ q.processed < Len(q.tokens) /\ q.processed <= Len(q.tokens)
        /\ Len(q.tokens) + Len(q.drafts) < MaxSession
    BY <2>1, <1>0, <1>1, <1>2, <1>3
  <2> QED BY <2>1, <2>2, <2>3, <2>4, <1>2 DEF SessionOK
<1>5. /\ pool \in Seq(Requests) /\ Distinct(pool)
      /\ r \in ToSet(pool) => old.status \in Open
      /\ residents \in Seq(Requests)
  BY DEF StepInv, QueuesOK, old
<1>6. pool' \in Seq(Requests) /\ Distinct(pool') /\ ToSet(pool') \ {r} = ToSet(pool) \ {r}
  <2>1. CASE old.status = "Absent"
    <3>1. r \notin ToSet(pool)
      BY <2>1, <1>5 DEF Open
    <3>2. Grown(Append(pool, r), pool, r, Requests)
      BY <3>1, <1>5, AppendDistinct
    <3> QED BY <3>2, <2>1, <1>0 DEF Grown
  <2>2. CASE old.status # "Absent"
    BY <2>2, <1>0, <1>5
  <2> QED BY <2>1, <2>2
<1>7. /\ PoolInv(cache)' /\ UNCHANGED LP!vars /\ LP!LedgerInv' /\ TablesOK' /\ SizesOK'
      /\ residents' \in Seq(Requests) /\ Distinct(residents')
  BY <1>0, CacheUntouched
<1>8. q.processed = table'[r].committed
  <2>1. old.processed = table[r].committed
    <3>1. plan = <<>> /\ rsv = <<>>
      BY <1>0 DEF StepInv, PhaseOK, RsvOK, Reserved
    <3> QED BY <3>1, <1>0, BetweenSteps DEF StepInv, old
  <2> QED BY <2>1, <1>0, <1>2
<1>9. q.status \in Open /\ q.status # "Active"
  BY <1>2 DEF Open
<1> QED BY <1>0, <1>2, <1>4, <1>6, <1>7, <1>8, <1>9, RequestUpdate

(* A request is cancelled between two steps. *)
LEMMA CancelPreserves ==
    ASSUME StepInv, NEW r \in Requests, CancelRequest(r), config' = config
    PROVE  StepInv' /\ UNCHANGED LP!vars
<1> DEFINE q == [req[r] EXCEPT !.status = "TurnComplete", !.drafts = <<>>]
           old == req[r]
<1>1. old \in RequestType /\ SessionOK(old) /\ req \in [Requests -> RequestType]
  BY DEF StepInv, RequestsOK
<1>0. /\ phase = "idle" /\ old.status \in {"Queued", "Active"}
      /\ req' = [req EXCEPT ![r] = q]
      /\ UNCHANGED <<cache, table, residents, pool, plan, rsv, phase>>
  BY <1>1 DEF CancelRequest, IsExecutable
<1>2. /\ q.status = "TurnComplete" /\ q.tokens = old.tokens /\ q.prompt = old.prompt
      /\ q.starts = old.starts /\ q.processed = old.processed /\ q.drafts = <<>>
      /\ q \in RequestType
  <2>1. /\ old.tokens \in Seq(Tokens) /\ old.processed \in Nat /\ old.starts \in Seq(Nat)
        /\ old.prompt \in Nat
    BY <1>1 DEF RequestType
  <2>2. q = [status |-> "TurnComplete", tokens |-> old.tokens,
             processed |-> old.processed, prompt |-> old.prompt,
             starts |-> old.starts, drafts |-> <<>>]
    <3>1. q = [old EXCEPT !.status = "TurnComplete", !.drafts = <<>>]
      OBVIOUS
    <3> HIDE DEF q, old
    <3> QED BY <1>1, <3>1 DEF RequestType
  <2> HIDE DEF q, old
  <2> QED BY <2>1, <2>2 DEF RequestType, Statuses
<1> HIDE DEF q, old
<1>3. SessionOK(q)
  BY <1>1, <1>2 DEF SessionOK
<1>4. pool \in Seq(Requests) /\ Distinct(pool)
  BY DEF StepInv, QueuesOK
<1>5. /\ PoolInv(cache)' /\ UNCHANGED LP!vars /\ LP!LedgerInv' /\ TablesOK' /\ SizesOK'
      /\ residents' \in Seq(Requests) /\ Distinct(residents')
  BY <1>0, CacheUntouched
<1>6. q.processed = table'[r].committed
  <2>1. old.processed = table[r].committed
    <3>1. plan = <<>> /\ rsv = <<>>
      BY <1>0 DEF StepInv, PhaseOK, RsvOK, Reserved
    <3> QED BY <3>1, <1>0, BetweenSteps DEF StepInv, old
  <2> QED BY <2>1, <1>0, <1>2
<1>7. q.status \in Open /\ q.status # "Active"
  BY <1>2 DEF Open
<1> QED BY <1>0, <1>2, <1>3, <1>4, <1>5, <1>6, <1>7, RequestUpdate

(* Draft tokens are offered for a decoding request. *)
LEMMA SetDraftsPreserves ==
    ASSUME StepInv, NEW r \in Requests, NEW drafts \in DraftSequences,
           SetDraftTokens(r, drafts), config' = config
    PROVE  StepInv' /\ UNCHANGED LP!vars
<1> DEFINE q == [req[r] EXCEPT !.drafts = drafts]
           old == req[r]
<1>1. old \in RequestType /\ SessionOK(old) /\ req \in [Requests -> RequestType]
  BY DEF StepInv, RequestsOK
<1>0. /\ phase = "idle" /\ old.status = "Active" /\ ~ (old.processed < old.prompt)
      /\ Len(old.tokens) + Len(drafts) < MaxSession
      /\ req' = [req EXCEPT ![r] = q]
      /\ UNCHANGED <<cache, table, residents, pool, plan, rsv, phase>>
  BY <1>1 DEF SetDraftTokens, IsPrefill
<1>2. /\ q.status = "Active" /\ q.tokens = old.tokens /\ q.prompt = old.prompt
      /\ q.starts = old.starts /\ q.processed = old.processed /\ q.drafts = drafts
      /\ q \in RequestType
  <2>1. drafts \in Seq(Tokens)
    BY DEF DraftSequences
  <2> QED BY <1>0, <1>1, <2>1 DEF RequestType, Statuses
<1> HIDE DEF q, old
<1>3. SessionOK(q)
  BY <1>0, <1>1, <1>2 DEF SessionOK
<1>4. pool \in Seq(Requests) /\ Distinct(pool) /\ r \in ToSet(residents)
  BY <1>0 DEF StepInv, QueuesOK, old
<1>5. /\ PoolInv(cache)' /\ UNCHANGED LP!vars /\ LP!LedgerInv' /\ TablesOK' /\ SizesOK'
      /\ residents' \in Seq(Requests) /\ Distinct(residents')
  BY <1>0, CacheUntouched
<1>6. q.processed = table'[r].committed
  <2>1. old.processed = table[r].committed
    <3>1. plan = <<>> /\ rsv = <<>>
      BY <1>0 DEF StepInv, PhaseOK, RsvOK, Reserved
    <3> QED BY <3>1, <1>0, BetweenSteps DEF StepInv, old
  <2> QED BY <2>1, <1>0, <1>2
<1>7. q.status \in Open /\ ~ (q.processed < q.prompt)
  BY <1>0, <1>2 DEF Open
<1> QED BY <1>0, <1>2, <1>3, <1>4, <1>5, <1>6, <1>7, RequestUpdate

(* A block in two tables is one that the index refers to as well. *)
LEMMA SharedBlock ==
    ASSUME LP!LedgerInv, NEW r \in Requests, NEW s \in Requests, r # s,
           NEW b \in Held[r] \cup Claimed[r], b \in Held[s] \cup Claimed[s]
    PROVE  b \in Indexed(cache)
<1>1. b \in Blocks
  BY DEF LP!LedgerInv, LP!TypeOK
<1> QED BY <1>1 DEF LP!LedgerInv, LP!SharedOnlyThroughIndex

(* The identities the tables chain from are identities. *)
LEMMA RootsType ==
    ASSUME NEW tables \in [Requests -> TableType]
    PROVE  IdentityRoots(tables) \in SUBSET (Ids \cup {NoId})
BY DEF IdentityRoots, TableType

(* What a table's release does to the cache. *)
LEMMA ReleasedCache ==
    ASSUME StepInv, NEW r \in Requests, RemoveFromCache(r)
    PROVE  /\ table' = [table EXCEPT ![r] = EmptyTable] /\ table' \in [Requests -> TableType]
           /\ \E d, K :
                /\ Became(cache, d, [x \in Blocks |-> cache.ref[x] - Bit(x \in Held[r])],
                          Indexed(cache), {x \in Held[r] : cache.ref[x] = 1})
                /\ Collected(d, cache', IdentityRoots(table'), K)
<1> DEFINE s == table[r].blocks
           d == FreeValidated(cache, s)
<1>1. /\ table \in [Requests -> TableType] /\ Distinct(s) /\ s \in Seq(Blocks)
      /\ PoolInv(cache)
  BY DEF StepInv, TablesOK, TableType
<1>2. Held[r] = ToSet(s)
  BY DEF Held
<1>3. Became(cache, d, [x \in Blocks |-> cache.ref[x] - Bit(x \in ToSet(s))],
             Indexed(cache), {x \in ToSet(s) : cache.ref[x] = 1})
  <2>1. ASSUME NEW x \in ToSet(s) PROVE cache.ref[x] >= 1 + Bit(x \in Indexed(cache))
    BY <1>2, UsersCount DEF StepInv
  <2> QED BY <1>1, <2>1, ReleaseSeq
<1>4. /\ table' = [table EXCEPT ![r] = EmptyTable]
      /\ cache' = CollectIdentities(d, IdentityRoots(table'))
  BY DEF RemoveFromCache
<1>5. EmptyTable \in TableType
  BY DEF EmptyTable, TableType
<1>6. table' \in [Requests -> TableType]
  BY <1>1, <1>4, <1>5
<1> HIDE DEF s, d
<1>7. \E K : Collected(d, cache', IdentityRoots(table'), K)
  <2>1. IdentityRoots(table') \in SUBSET (Ids \cup {NoId})
    BY <1>6, RootsType
  <2>2. PoolInv(d)
    BY <1>3 DEF Became
  <2> QED BY <2>1, <2>2, <1>4, CollectEffect
<1> QED BY <1>2, <1>3, <1>4, <1>6, <1>7

(* An identity that stays alive. *)
LEMMA StaysAlive ==
    ASSUME NEW d, NEW e, NEW roots, NEW K, Collected(d, e, roots, K), NEW id \in Ids \cup {NoId},
           id \in K, Alive(d, id)
    PROVE  Alive(e, id)
BY DEF Collected, Alive

(* A table is given up between two steps: the ledger releases it. *)
LEMMA TableReleased ==
    ASSUME StepInv, phase = "idle", NEW r \in Requests, RemoveFromCache(r),
           rsv' = rsv, config' = config
    PROVE  /\ PoolInv(cache)' /\ (LP!Release(r) \/ UNCHANGED LP!vars) /\ LP!LedgerInv'
           /\ TablesOK' /\ SizesOK' /\ table' = [table EXCEPT ![r] = EmptyTable]
           /\ residents' \in Seq(Requests) /\ Distinct(residents')
           /\ ToSet(residents') = ToSet(residents) \ {r}
<1>1. /\ table' = [table EXCEPT ![r] = EmptyTable] /\ table' \in [Requests -> TableType]
      /\ table \in [Requests -> TableType]
  BY ReleasedCache DEF StepInv, TablesOK
<1>2. PICK d, K :
        /\ Became(cache, d, [x \in Blocks |-> cache.ref[x] - Bit(x \in Held[r])],
                  Indexed(cache), {x \in Held[r] : cache.ref[x] = 1})
        /\ Collected(d, cache', IdentityRoots(table'), K)
  BY ReleasedCache
<1>3. /\ PoolInv(cache') /\ cache'.ref = [x \in Blocks |-> cache.ref[x] - Bit(x \in Held[r])]
      /\ Indexed(cache') = Indexed(cache)
      /\ cache'.size = [x \in Blocks |-> IF x \in {y \in Held[r] : cache.ref[y] = 1}
                                        THEN 0 ELSE cache.size[x]]
      /\ d.idents = cache.idents /\ IdentityRoots(table') \subseteq K
  BY <1>2 DEF Became, ClearedIn, Collected
<1>4. rsv = <<>> /\ rsv' = <<>>
  BY DEF StepInv, RsvOK, Reserved
<1>5. Claimed = [s \in Requests |-> {}] /\ Claimed' = Claimed
  BY <1>4 DEF Claimed
<1>6. Held' = [Held EXCEPT ![r] = {}]
  <2>1. ToSet(<<>>) = {}
    BY DEF ToSet
  <2> QED BY <1>1, <2>1 DEF Held, EmptyTable
<1>7. LP!Release(r) \/ UNCHANGED LP!vars
  <2>1. Bit(FALSE) = 0
    BY DEF Bit
  <2>2. CASE Held[r] = {}
    <3>1. cache'.ref = cache.ref
      <4>1. cache.ref \in [Blocks -> Nat]
        BY DEF StepInv, LP!LedgerInv, LP!TypeOK
      <4>2. \A x \in Blocks : cache.ref[x] - Bit(x \in Held[r]) = cache.ref[x]
        BY <2>2, <4>1 DEF Bit
      <4> QED BY <1>3, <4>1, <4>2
    <3>2. Held' = Held
      BY <1>6, <2>2 DEF Held
    <3> QED BY <3>1, <3>2, <1>3, <1>5 DEF LP!vars
  <2>3. CASE Held[r] # {}
    <3>1. cache'.ref = [b \in Blocks |-> cache.ref[b] - LP!One(b \in Held[r])]
      BY <1>3 DEF LP!One, Bit
    <3> QED BY <3>1, <2>3, <1>3, <1>5, <1>6 DEF LP!Release, LP!NoBlocks
  <2> QED BY <2>2, <2>3
<1>8. LP!LedgerInv'
  BY <1>7, LedgerStep DEF StepInv, LP!Next
<1>9. /\ residents' \in Seq(Requests) /\ Distinct(residents')
      /\ ToSet(residents') = ToSet(residents) \ {r}
  <2>1. residents \in Seq(Requests) /\ Distinct(residents)
    BY DEF StepInv, QueuesOK
  <2>2. Shrunk(RemoveFirst(residents, r), residents, r, Requests)
    BY <2>1, RemoveDistinct
  <2> QED BY <2>2 DEF Shrunk, RemoveFromCache
<1>10. TablesOK'
  <2> SUFFICES ASSUME NEW s \in Requests
               PROVE  /\ Distinct(table'[s].blocks)
                      /\ table'[s].committed <= Len(table'[s].blocks) * BlockSize
                      /\ Alive(cache', table'[s].sealedId)
                      /\ s \notin ToSet(residents') => table'[s] = EmptyTable
    BY <1>1 DEF TablesOK
  <2>1. CASE s = r
    <3>1. table'[s] = EmptyTable
      BY <2>1, <1>1
    <3> QED BY <3>1, PoolAssumption DEF EmptyTable, Distinct, Alive
  <2>2. CASE s # r
    <3>1. table'[s] = table[s] /\ table'[s] \in TableType
      BY <2>2, <1>1
    <3>2. /\ Distinct(table[s].blocks) /\ Alive(cache, table[s].sealedId)
          /\ table[s].committed <= Len(table[s].blocks) * BlockSize
          /\ s \notin ToSet(residents) => table[s] = EmptyTable
      BY DEF StepInv, TablesOK
    <3>3. Alive(cache', table'[s].sealedId)
      <4>1. Alive(d, table'[s].sealedId) /\ table'[s].sealedId \in Ids \cup {NoId}
        BY <3>1, <3>2, <1>3 DEF Alive, TableType
      <4>2. table'[s].sealedId \in K
        BY <1>3 DEF IdentityRoots
      <4> QED BY <4>1, <4>2, <1>2, StaysAlive
    <3> QED BY <3>1, <3>2, <3>3, <2>2, <1>9
  <2> QED BY <2>1, <2>2
<1>11. SizesOK'
  <2>1. /\ \A b \in Blocks : cache.ref[b] = 0 => cache.size[b] = 0
        /\ \A b \in Indexed(cache) : cache.size[b] = BlockSize
        /\ \A s \in Requests : \A j \in 1 .. Len(table[s].blocks) :
            cache.size[table[s].blocks[j]] = Filled(table[s].committed, j)
    BY DEF StepInv, SizesOK
  <2>2. cache.ref \in [Blocks -> Nat] /\ Indexed(cache) \in SUBSET Blocks
    BY DEF StepInv, LP!LedgerInv, LP!TypeOK
  <2>3. ASSUME NEW b \in Blocks, cache'.ref[b] = 0 PROVE cache'.size[b] = 0
    <3>1. cache.ref[b] = Bit(b \in Held[r])
      BY <2>2, <2>3, <1>3 DEF Bit
    <3> QED BY <3>1, <2>1, <1>3 DEF Bit
  <2>4. ASSUME NEW s \in Requests, NEW b \in Indexed(cache) \cup Held'[s]
        PROVE  b \in Blocks /\ cache'.size[b] = cache.size[b]
    <3>1. b \in Blocks
      BY <2>2, <1>8 DEF LP!LedgerInv, LP!TypeOK
    <3>2. SUFFICES ASSUME b \in Held[r], cache.ref[b] = 1 PROVE FALSE
      BY <3>1, <1>3
    <3>3. b \notin Indexed(cache)
      <4>1. cache.ref[b] >= 1 + Bit(b \in Indexed(cache))
        BY <3>2, UsersCount DEF StepInv
      <4> QED BY <4>1, <3>2 DEF Bit
    <3>4. s # r /\ b \in Held[s]
      BY <3>3, <1>6, <2>4 DEF Held
    <3> QED BY <3>2, <3>3, <3>4, SharedBlock DEF StepInv
  <2>5. ASSUME NEW s \in Requests, NEW j \in 1 .. Len(table'[s].blocks)
        PROVE  cache'.size[table'[s].blocks[j]] = Filled(table'[s].committed, j)
    <3>1. s # r
      BY <2>5, <1>1 DEF EmptyTable
    <3>2. table'[s] = table[s]
      BY <3>1, <1>1
    <3>3. table'[s].blocks[j] \in Held'[s]
      BY DEF Held, ToSet
    <3>4. cache'.size[table'[s].blocks[j]] = cache.size[table[s].blocks[j]]
      BY <3>2, <3>3, <2>4
    <3> QED BY <3>2, <3>4, <2>1
  <2>6. \A b \in Indexed(cache') : cache'.size[b] = BlockSize
    BY <2>1, <2>4, <1>3
  <2> QED BY <2>3, <2>5, <2>6, <1>4 DEF SizesOK
<1> QED BY <1>1, <1>3, <1>7, <1>8, <1>9, <1>10, <1>11

(* The beginning of a sequence. *)
LEMMA PrefixFacts ==
    ASSUME NEW E, NEW s \in Seq(E), NEW n \in 0 .. Len(s)
    PROVE  /\ SubSeq(s, 1, n) \in Seq(E) /\ Len(SubSeq(s, 1, n)) = n
           /\ \A k \in 1 .. n : SubSeq(s, 1, n)[k] = s[k]
OBVIOUS

(* A request returns to the start of a turn (Request::RewindToStartOfTurn). *)
LEMMA RewindPreserves ==
    ASSUME StepInv, NEW r \in Requests, NEW k \in DOMAIN req[r].starts,
           RewindRequestToStartOfTurn(r, k), config' = config
    PROVE  StepInv' /\ (LP!Release(r) \/ UNCHANGED LP!vars)
<1> DEFINE old == req[r]
           q == [req[r] EXCEPT !.tokens = SubSeq(req[r].tokens, 1, req[r].starts[k]),
                               !.starts = SubSeq(req[r].starts, 1, k - 1),
                               !.processed = 0, !.prompt = 0, !.drafts = <<>>]
           m == old.starts[k]
<1>1. /\ old \in RequestType /\ SessionOK(old) /\ req \in [Requests -> RequestType]
      /\ MaxSession \in Nat
  BY ConfigFacts DEF StepInv, RequestsOK
<1>0. /\ phase = "idle" /\ old.status = "TurnComplete" /\ RemoveFromCache(r)
      /\ req' = [req EXCEPT ![r] = q] /\ UNCHANGED <<pool, plan, rsv, phase>>
  BY <1>1 DEF RewindRequestToStartOfTurn
<1>2. /\ old.tokens \in Seq(Tokens) /\ old.starts \in Seq(Nat) /\ k \in 1 .. Len(old.starts)
      /\ m \in Nat /\ m <= Len(old.tokens)
  BY <1>1 DEF RequestType, SessionOK
<1>3. q = [status |-> "TurnComplete", tokens |-> SubSeq(old.tokens, 1, m),
           processed |-> 0, prompt |-> 0, starts |-> SubSeq(old.starts, 1, k - 1),
           drafts |-> <<>>]
  <2>1. q = [old EXCEPT !.tokens = SubSeq(old.tokens, 1, m),
                        !.starts = SubSeq(old.starts, 1, k - 1),
                        !.processed = 0, !.prompt = 0, !.drafts = <<>>]
    OBVIOUS
  <2> HIDE DEF q, old, m
  <2> QED BY <1>0, <1>1, <2>1 DEF RequestType
<1> HIDE DEF q, old
<1>4. /\ SubSeq(old.tokens, 1, m) \in Seq(Tokens) /\ Len(SubSeq(old.tokens, 1, m)) = m
      /\ SubSeq(old.starts, 1, k - 1) \in Seq(Nat) /\ Len(SubSeq(old.starts, 1, k - 1)) = k - 1
      /\ \A i \in 1 .. k - 1 : SubSeq(old.starts, 1, k - 1)[i] = old.starts[i]
  <2> HIDE DEF m
  <2>1. m \in 0 .. Len(old.tokens) /\ k - 1 \in 0 .. Len(old.starts)
    BY <1>2
  <2> QED BY <1>2, <2>1, PrefixFacts
<1>5. q \in RequestType /\ q.status = "TurnComplete" /\ q.processed = 0
  <2> HIDE DEF m
  <2> QED BY <1>3, <1>4 DEF RequestType, Statuses
<1>6. SessionOK(q)
  <2>1. \A i, j \in 1 .. Len(old.starts) : i <= j => old.starts[i] <= old.starts[j]
    BY <1>1 DEF SessionOK
  <2>2. /\ \A i \in 1 .. k - 1 : old.starts[i] <= m
        /\ \A i, j \in 1 .. k - 1 : i <= j => old.starts[i] <= old.starts[j]
    <3>1. Len(old.starts) \in Nat /\ k \in Nat
      BY <1>2
    <3>2. \A i \in 1 .. k - 1 : i \in 1 .. Len(old.starts) /\ i <= k
      BY <1>2, <3>1
    <3> QED BY <1>2, <2>1, <3>2
  <2>3. Len(old.tokens) <= MaxSession /\ Len(old.tokens) \in Nat
    BY <1>1, <1>2 DEF SessionOK
  <2> HIDE DEF m
  <2>4. /\ q.status = "TurnComplete" /\ Len(q.tokens) = m /\ q.prompt = 0 /\ q.processed = 0
        /\ Len(q.starts) = k - 1 /\ q.drafts = <<>>
        /\ \A i \in 1 .. k - 1 : q.starts[i] = old.starts[i]
    BY <1>3, <1>4
  <2>5. m <= MaxSession /\ 0 <= m
    BY <1>1, <1>2, <2>3
  <2> QED BY <2>2, <2>4, <2>5 DEF SessionOK
<1>7. /\ PoolInv(cache)' /\ (LP!Release(r) \/ UNCHANGED LP!vars) /\ LP!LedgerInv'
      /\ TablesOK' /\ SizesOK' /\ table' = [table EXCEPT ![r] = EmptyTable]
      /\ residents' \in Seq(Requests) /\ Distinct(residents')
      /\ ToSet(residents') = ToSet(residents) \ {r}
  BY <1>0, TableReleased
<1>8. /\ table'[r].committed = 0 /\ \A s \in Requests \ {r} : table'[s] = table[s]
      /\ ToSet(residents') \ {r} = ToSet(residents) \ {r}
  <2>1. table \in [Requests -> TableType]
    BY DEF StepInv, TablesOK
  <2> QED BY <1>7, <2>1 DEF EmptyTable
<1>9. pool \in Seq(Requests) /\ Distinct(pool) /\ q.status \in Open /\ q.status # "Active"
  BY <1>5 DEF StepInv, QueuesOK, Open
<1> QED BY <1>0, <1>5, <1>6, <1>7, <1>8, <1>9, RequestUpdate

(* A request is closed (Engine::CloseRequest). *)
LEMMA ClosePreserves ==
    ASSUME StepInv, NEW r \in Requests, CloseRequest(r), config' = config
    PROVE  StepInv' /\ (LP!Release(r) \/ UNCHANGED LP!vars)
<1>0. /\ phase = "idle" /\ RemoveFromCache(r) /\ pool' = RemoveFirst(pool, r)
      /\ req' = [req EXCEPT ![r] = NoRequest] /\ UNCHANGED <<plan, rsv, phase>>
  BY DEF CloseRequest
<1>1. NoRequest \in RequestType /\ SessionOK(NoRequest) /\ NoRequest.processed = 0
      /\ NoRequest.status = "Absent"
  <2>1. MaxSession \in Nat
    BY ConfigFacts DEF StepInv
  <2> QED BY <2>1 DEF NoRequest, RequestType, Statuses, SessionOK
<1>2. pool' \in Seq(Requests) /\ Distinct(pool') /\ ToSet(pool') = ToSet(pool) \ {r}
  <2>1. pool \in Seq(Requests) /\ Distinct(pool)
    BY DEF StepInv, QueuesOK
  <2>2. Shrunk(RemoveFirst(pool, r), pool, r, Requests)
    BY <2>1, RemoveDistinct
  <2> QED BY <2>2, <1>0 DEF Shrunk
<1>7. /\ PoolInv(cache)' /\ (LP!Release(r) \/ UNCHANGED LP!vars) /\ LP!LedgerInv'
      /\ TablesOK' /\ SizesOK' /\ table' = [table EXCEPT ![r] = EmptyTable]
      /\ residents' \in Seq(Requests) /\ Distinct(residents')
      /\ ToSet(residents') = ToSet(residents) \ {r}
  BY <1>0, TableReleased
<1>8. /\ table'[r].committed = 0 /\ \A s \in Requests \ {r} : table'[s] = table[s]
      /\ ToSet(residents') \ {r} = ToSet(residents) \ {r}
      /\ ToSet(pool') \ {r} = ToSet(pool) \ {r}
      /\ r \notin ToSet(residents') \cup ToSet(pool')
  <2>1. table \in [Requests -> TableType]
    BY DEF StepInv, TablesOK
  <2> QED BY <1>2, <1>7, <2>1 DEF EmptyTable
<1> QED BY <1>0, <1>1, <1>2, <1>7, <1>8, RequestUpdate

(* A request that is a candidate fails: no pool of this size could serve   *)
(* it.                                                                     *)
LEMMA FailPreserves ==
    ASSUME StepInv, NEW r \in Requests, phase = "idle", RemoveFromCache(r),
           pool' = RemoveFirst(pool, r),
           req' = [req EXCEPT ![r].status = "Failed", ![r].drafts = <<>>],
           UNCHANGED <<plan, rsv, phase>>, config' = config
    PROVE  StepInv' /\ (LP!Release(r) \/ UNCHANGED LP!vars)
<1> DEFINE q == [req[r] EXCEPT !.status = "Failed", !.drafts = <<>>]
           old == req[r]
<1>1. old \in RequestType /\ SessionOK(old) /\ req \in [Requests -> RequestType]
  BY DEF StepInv, RequestsOK
<1>2. req' = [req EXCEPT ![r] = q]
  BY <1>1
<1>3. /\ q.status = "Failed" /\ q.tokens = old.tokens /\ q.prompt = old.prompt
      /\ q.starts = old.starts /\ q.processed = old.processed /\ q.drafts = <<>>
      /\ q \in RequestType
  <2>1. /\ old.tokens \in Seq(Tokens) /\ old.processed \in Nat /\ old.starts \in Seq(Nat)
        /\ old.prompt \in Nat
    BY <1>1 DEF RequestType
  <2>2. q = [status |-> "Failed", tokens |-> old.tokens,
             processed |-> old.processed, prompt |-> old.prompt,
             starts |-> old.starts, drafts |-> <<>>]
    <3>1. q = [old EXCEPT !.status = "Failed", !.drafts = <<>>]
      OBVIOUS
    <3> HIDE DEF q, old
    <3> QED BY <1>1, <3>1 DEF RequestType
  <2> HIDE DEF q, old
  <2> QED BY <2>1, <2>2 DEF RequestType, Statuses
<1> HIDE DEF q, old
<1>4. SessionOK(q)
  BY <1>1, <1>3 DEF SessionOK
<1>5. pool' \in Seq(Requests) /\ Distinct(pool') /\ ToSet(pool') = ToSet(pool) \ {r}
  <2>1. pool \in Seq(Requests) /\ Distinct(pool)
    BY DEF StepInv, QueuesOK
  <2>2. Shrunk(RemoveFirst(pool, r), pool, r, Requests)
    BY <2>1, RemoveDistinct
  <2> QED BY <2>2 DEF Shrunk
<1>7. /\ PoolInv(cache)' /\ (LP!Release(r) \/ UNCHANGED LP!vars) /\ LP!LedgerInv'
      /\ TablesOK' /\ SizesOK' /\ table' = [table EXCEPT ![r] = EmptyTable]
      /\ residents' \in Seq(Requests) /\ Distinct(residents')
      /\ ToSet(residents') = ToSet(residents) \ {r}
  BY TableReleased
<1>8. /\ \A s \in Requests \ {r} : table'[s] = table[s]
      /\ ToSet(residents') \ {r} = ToSet(residents) \ {r}
      /\ ToSet(pool') \ {r} = ToSet(pool) \ {r}
      /\ r \notin ToSet(residents') \cup ToSet(pool')
  <2>1. table \in [Requests -> TableType]
    BY DEF StepInv, TablesOK
  <2> QED BY <1>5, <1>7, <2>1
<1> QED BY <1>2, <1>3, <1>4, <1>5, <1>7, <1>8, RequestUpdate

---------------------------------------------------------------------------
(* The sequences the planner works with. *)

(* t lists the elements of S among the first n of s, the k-th of them at   *)
(* the position f[k] of s.                                                 *)
Selects(t, s, S, f, n) ==
    /\ DOMAIN t = 1 .. Len(t) /\ Len(t) \in Nat
    /\ f \in [1 .. Len(t) -> 1 .. n]
    /\ \A k, m \in 1 .. Len(t) : k < m => f[k] < f[m]
    /\ \A k \in 1 .. Len(t) : t[k] = s[f[k]] /\ s[f[k]] \in S
    /\ \A i \in 1 .. n : s[i] \in S => \E k \in 1 .. Len(t) : f[k] = i

(* Filtering a sequence, as a fold. *)
KeepStep(S, v, kept, x) == IF x \in S THEN Append(kept, x) ELSE kept
KeepFold == INSTANCE FoldLemmas WITH Op <- KeepStep

(* One more element is selected or not. *)
LEMMA SelectStep ==
    ASSUME NEW E, NEW s \in Seq(E), NEW S, NEW n \in 0 .. Len(s) - 1, NEW t \in Seq(E), NEW f,
           Selects(t, s, S, f, n)
    PROVE  KeepStep(S, 0, t, s[n + 1]) \in Seq(E)
           /\ \E g : Selects(KeepStep(S, 0, t, s[n + 1]), s, S, g, n + 1)
<1> DEFINE x == s[n + 1]
           m == Len(t)
<1>1. x \in E /\ m \in Nat /\ n \in Nat
  OBVIOUS
<1>2. CASE x \notin S
  <2>1. KeepStep(S, 0, t, x) = t
    BY <1>2 DEF KeepStep
  <2>2. Selects(t, s, S, f, n + 1)
    <3>1. f \in [1 .. Len(t) -> 1 .. n + 1]
      BY <1>1 DEF Selects
    <3>2. \A i \in 1 .. n + 1 : s[i] \in S => i \in 1 .. n
      BY <1>1, <1>2
    <3> QED BY <3>1, <3>2 DEF Selects
  <2> QED BY <2>1, <2>2
<1>3. CASE x \in S
  <2> DEFINE u == Append(t, x)
             g == [k \in 1 .. m + 1 |-> IF k = m + 1 THEN n + 1 ELSE f[k]]
  <2>1. KeepStep(S, 0, t, x) = u
    BY <1>3 DEF KeepStep
  <2>2. /\ u \in Seq(E) /\ Len(u) = m + 1 /\ u[m + 1] = x /\ \A k \in 1 .. m : u[k] = t[k]
    BY <1>1, AppendFacts
  <2>3. /\ f \in [1 .. m -> 1 .. n] /\ \A k, l \in 1 .. m : k < l => f[k] < f[l]
        /\ \A k \in 1 .. m : t[k] = s[f[k]] /\ s[f[k]] \in S
        /\ \A i \in 1 .. n : s[i] \in S => \E k \in 1 .. m : f[k] = i
    BY DEF Selects
  <2>4. /\ g[m + 1] = n + 1 /\ \A k \in 1 .. m : g[k] = f[k]
        /\ g \in [1 .. m + 1 -> 1 .. n + 1]
    BY <1>1, <2>3
  <2> HIDE DEF g, u, m, x
  <2>5. \A k, l \in 1 .. m + 1 : k < l => g[k] < g[l]
    <3> SUFFICES ASSUME NEW k \in 1 .. m + 1, NEW l \in 1 .. m + 1, k < l PROVE g[k] < g[l]
      OBVIOUS
    <3>1. k \in 1 .. m /\ f[k] \in 1 .. n
      BY <1>1, <2>3
    <3>2. CASE l = m + 1
      BY <3>1, <3>2, <2>4, <1>1
    <3>3. CASE l \in 1 .. m
      BY <3>1, <3>3, <2>3, <2>4
    <3> QED BY <3>2, <3>3, <1>1
  <2>6. ASSUME NEW k \in 1 .. m + 1 PROVE u[k] = s[g[k]] /\ s[g[k]] \in S
    <3>1. CASE k = m + 1
      BY <3>1, <2>2, <2>4, <1>3 DEF x
    <3>2. CASE k \in 1 .. m
      BY <3>2, <2>2, <2>3, <2>4
    <3> QED BY <3>1, <3>2, <1>1
  <2>7. ASSUME NEW i \in 1 .. n + 1, s[i] \in S PROVE \E k \in 1 .. m + 1 : g[k] = i
    <3>1. CASE i = n + 1
      BY <3>1, <2>4, <1>1
    <3>2. CASE i \in 1 .. n
      <4>1. PICK k \in 1 .. m : f[k] = i
        BY <3>2, <2>3, <2>7
      <4>2. k \in 1 .. m + 1
        BY <1>1
      <4> QED BY <4>1, <4>2, <2>4
    <3> QED BY <3>1, <3>2, <1>1
  <2>8. DOMAIN u = 1 .. Len(u) /\ Len(u) \in Nat
    BY <2>2, <1>1
  <2>9. Selects(u, s, S, g, n + 1)
    BY <2>2, <2>4, <2>5, <2>6, <2>7, <2>8 DEF Selects
  <2> QED BY <2>1, <2>2, <2>9 DEF x
<1> QED BY <1>2, <1>3

(* Keep selects, in order, the elements that are in the set. *)
LEMMA KeepSelects ==
    ASSUME NEW E, NEW s \in Seq(E), NEW S
    PROVE  Keep(s, S) \in Seq(E) /\ \E f : Selects(Keep(s, S), s, S, f, Len(s))
<1> DEFINE n == Len(s)
<1>1. n \in Nat /\ DOMAIN s = 1 .. n
  OBVIOUS
<1>2. Keep(s, S) = KeepFold!FoldedBy(S, 0, <<>>, s)
  BY DEF Keep, KeepFold!FoldedBy, FoldLeft, MapThenFoldSet,
     KeepFold!Greatest, Max, KeepStep
<1>ind. KeepFold!Induction
  BY NatSetInduction DEF KeepFold!Induction
<1>3. PICK h : KeepFold!FoldRun(S, 0, h, <<>>, s, n) /\ KeepFold!FoldedBy(S, 0, <<>>, s) = h[n]
  <2> HIDE DEF n
  <2> QED BY <1>ind, <1>1, KeepFold!FoldRuns
<1>4. h[0] = <<>> /\ \A i \in 1 .. n : h[i] = KeepStep(S, 0, h[i - 1], s[i])
  BY <1>3 DEF KeepFold!FoldRun, KeepStep
<1> DEFINE I == {i \in 0 .. n : h[i] \in Seq(E) /\ \E f : Selects(h[i], s, S, f, i)}
<1>5. 0 \in I
  <2> DEFINE f == [k \in 1 .. 0 |-> 0]
  <2>1. Selects(<<>>, s, S, f, 0)
    BY DEF Selects
  <2> HIDE DEF f
  <2>2. Selects(h[0], s, S, f, 0) /\ h[0] \in Seq(E) /\ 0 \in 0 .. n
    BY <2>1, <1>1, <1>4
  <2> QED BY <2>2
<1>6. ASSUME NEW i \in 0 .. n - 1, i \in I PROVE i + 1 \in I
  <2>1. PICK f : Selects(h[i], s, S, f, i)
    BY <1>6
  <2>2. i + 1 \in 1 .. n /\ i + 1 \in 0 .. n /\ h[i + 1] = KeepStep(S, 0, h[i], s[i + 1])
    BY <1>1, <1>4
  <2>3. h[i] \in Seq(E)
    BY <1>6
  <2>4. h[i + 1] \in Seq(E) /\ \E g : Selects(h[i + 1], s, S, g, i + 1)
    BY <2>1, <2>2, <2>3, SelectStep
  <2> QED BY <2>2, <2>4
<1>7. n \in I
  <2> HIDE DEF I, n
  <2>1. 0 .. n \subseteq I
    BY <1>1, <1>5, <1>6, RangeInduction
  <2> QED BY <2>1, <1>1
<1> QED BY <1>2, <1>3, <1>7

(* What a selection has. *)
LEMMA SelectionFacts ==
    ASSUME NEW E, NEW s \in Seq(E), NEW S
    PROVE  /\ Keep(s, S) \in Seq(E) /\ ToSet(Keep(s, S)) = ToSet(s) \cap S
           /\ Distinct(s) => Distinct(Keep(s, S))
<1> DEFINE t == Keep(s, S)
<1>1. t \in Seq(E)
  BY KeepSelects
<1>2. PICK f : Selects(t, s, S, f, Len(s))
  BY KeepSelects
<1> HIDE DEF t
<1>3. /\ f \in [1 .. Len(t) -> 1 .. Len(s)]
      /\ \A k, m \in 1 .. Len(t) : k < m => f[k] < f[m]
      /\ \A k \in 1 .. Len(t) : t[k] = s[f[k]] /\ s[f[k]] \in S
      /\ \A i \in 1 .. Len(s) : s[i] \in S => \E k \in 1 .. Len(t) : f[k] = i
  BY <1>2 DEF Selects
<1>4. ToSet(t) = ToSet(s) \cap S
  <2>1. ASSUME NEW x \in ToSet(t) PROVE x \in ToSet(s) \cap S
    <3>1. PICK k \in 1 .. Len(t) : x = t[k]
      BY <1>1 DEF ToSet
    <3> QED BY <3>1, <1>3 DEF ToSet
  <2>2. ASSUME NEW x \in ToSet(s), x \in S PROVE x \in ToSet(t)
    <3>1. PICK i \in 1 .. Len(s) : x = s[i]
      BY DEF ToSet
    <3>2. PICK k \in 1 .. Len(t) : f[k] = i
      BY <3>1, <2>2, <1>3
    <3>3. x = t[k]
      BY <3>1, <3>2, <1>3
    <3> QED BY <3>3, <1>1 DEF ToSet
  <2> QED BY <2>1, <2>2
<1>5. ASSUME Distinct(s) PROVE Distinct(t)
  <2> SUFFICES ASSUME NEW k \in 1 .. Len(t), NEW m \in 1 .. Len(t), t[k] = t[m] PROVE k = m
    BY <1>1 DEF Distinct
  <2>1. f[k] = f[m]
    <3>1. s[f[k]] = s[f[m]] /\ f[k] \in 1 .. Len(s) /\ f[m] \in 1 .. Len(s)
      BY <1>3
    <3> QED BY <3>1, <1>5 DEF Distinct
  <2>2. f[k] \in 1 .. Len(s) /\ f[m] \in 1 .. Len(s)
    BY <1>3
  <2>3. (k < m => f[k] < f[m]) /\ (m < k => f[m] < f[k])
    BY <1>3
  <2> QED BY <2>1, <2>2, <2>3
<1> QED BY <1>1, <1>4, <1>5 DEF t

---------------------------------------------------------------------------
(* Planning: the candidates and the order they are offered in. *)

(* Entries the cache could serve, at most one for each request. *)
EntriesOK(es) ==
    /\ es \in Seq(EntryType) /\ DistinctRequests(es)
    /\ \A i \in 1 .. Len(es) :
            EntryOK(es[i]) /\ Chained(cache, req[es[i].r].tokens, es[i].match)

(* What the invariant says of a request between two steps. *)
LEMMA IdleRequest ==
    ASSUME StepInv, phase = "idle", NEW r \in Requests
    PROVE  /\ req[r] \in RequestType /\ SessionOK(req[r]) /\ table[r] \in TableType
           /\ req[r].status # "Failed" => req[r].processed = table[r].committed
           /\ r \notin ToSet(residents) => table[r] = EmptyTable
           /\ IsResident(r) <=> r \in ToSet(residents)
           /\ PoolInv(cache)
<1>1. plan = <<>> /\ rsv = <<>>
  BY DEF StepInv, PhaseOK, RsvOK, Reserved
<1>2. req[r].status # "Failed" => req[r].processed = table[r].committed
  BY <1>1, BetweenSteps DEF StepInv
<1>3. IsResident(r) <=> r \in ToSet(residents)
  BY DEF IsResident, ToSet
<1> QED BY <1>2, <1>3 DEF StepInv, RequestsOK, TablesOK

(* A request is offered with one token and what the index has of it. *)
LEMMA CandidateFacts ==
    ASSUME StepInv, phase = "idle", NEW r \in Requests, NEW new \in BOOLEAN,
           IsExecutable(r), new => req[r].status = "Queued", new <=> ~IsResident(r),
           NEW e, e = Candidate(r, new)
    PROVE  /\ EntryOK(e) /\ Chained(cache, req[r].tokens, e.match) /\ e.r = r
           /\ e.n = 1 /\ e.d = 0 /\ e.prefill = IsPrefill(r)
           /\ e.base < Len(req[r].tokens)
<1> DEFINE m == IF new THEN MatchPrefix(r) ELSE <<>>
           tokens == req[r].tokens
<1>1. /\ req[r] \in RequestType /\ SessionOK(req[r]) /\ table[r] \in TableType
      /\ req[r].status # "Failed" => req[r].processed = table[r].committed
      /\ r \notin ToSet(residents) => table[r] = EmptyTable
      /\ IsResident(r) <=> r \in ToSet(residents)
      /\ PoolInv(cache)
  BY IdleRequest
<1>2. /\ tokens \in Seq(Tokens) /\ req[r].processed \in Nat /\ Len(tokens) \in Nat
      /\ req[r].processed < Len(tokens) /\ req[r].processed = table[r].committed
      /\ req[r].prompt \in Nat /\ req[r].drafts \in Seq(Tokens)
  <2>1. req[r].status \in {"Queued", "Active"}
    BY DEF IsExecutable
  <2>2. /\ tokens \in Seq(Tokens) /\ req[r].processed \in Nat
        /\ req[r].prompt \in Nat /\ req[r].drafts \in Seq(Tokens)
    BY <1>1 DEF RequestType
  <2>3. req[r].processed < Len(tokens) /\ req[r].processed = table[r].committed
    BY <1>1, <2>1 DEF SessionOK
  <2>4. Len(tokens) \in Nat
    BY <2>2
  <2> HIDE DEF tokens
  <2> QED BY <2>2, <2>3, <2>4
<1>3. e = [r |-> r, new |-> new, prefill |-> IsPrefill(r), match |-> m,
           base |-> IF m = <<>> THEN req[r].processed ELSE Len(m) * BlockSize,
           n |-> 1, d |-> 0]
  BY DEF Candidate
<1>4. Chained(cache, tokens, <<>>)
  BY DEF Chained
<1>5. Chained(cache, tokens, m) /\ (m = <<>> \/ Len(m) * BlockSize <= Len(tokens) - 1)
  <2>1. Len(tokens) - 1 \in Int
    BY <1>2
  <2>2. CASE new /\ cache.limit # 0
    BY <1>1, <2>1, <2>2, MatchFacts DEF MatchPrefix
  <2>3. CASE ~ (new /\ cache.limit # 0)
    BY <1>4, <2>3 DEF MatchPrefix
  <2> QED BY <2>2, <2>3
<1> HIDE DEF m
<1>6. Distinct(m) /\ m \in Seq(Blocks) /\ Len(m) \in Nat
  <2>1. Indexed(cache) \in SUBSET Blocks
    BY <1>1, IndexedBlocks DEF PoolInv
  <2>2. m \in Seq(Indexed(cache))
    BY <1>5 DEF Chained
  <2>3. m \in Seq(Blocks) /\ Len(m) \in Nat
    BY <2>1, <2>2
  <2> QED BY <1>1, <1>5, <2>3, ChainedDistinct
<1>7. ~new => m = <<>>
  BY DEF m
<1>8. /\ e.r = r /\ e.new = new /\ e.prefill = IsPrefill(r) /\ e.match = m /\ e.n = 1
      /\ e.d = 0 /\ e.base = IF m = <<>> THEN req[r].processed ELSE Len(m) * BlockSize
  BY <1>3
<1>9. /\ e.base \in Nat /\ e.base < Len(tokens)
      /\ IF new THEN e.base = Len(m) * BlockSize ELSE e.base = table[r].committed
  <2>1. Len(m) * BlockSize \in Nat
    <3>1. Len(m) \in Int /\ Len(m) >= 0
      BY <1>6
    <3>2. Len(m) * BlockSize \in Int /\ Len(m) * BlockSize >= 0
      BY <3>1, TimesBlockSize
    <3> QED BY <3>2
  <2>2. CASE m = <<>>
    <3>1. new => table[r].committed = 0
      BY <1>1 DEF EmptyTable
    <3>2. Len(m) * BlockSize = 0
      BY <2>2, PoolAssumption
    <3> QED BY <2>2, <3>1, <3>2, <1>2, <1>8
  <2>3. CASE m # <<>>
    <3>1. e.base = Len(m) * BlockSize /\ new
      BY <2>3, <1>7, <1>8
    <3>2. Len(m) * BlockSize <= Len(tokens) - 1
      BY <2>3, <1>5
    <3> HIDE DEF tokens
    <3>3. e.base < Len(tokens)
      <4>1. e.base <= Len(tokens) - 1 /\ e.base \in Nat /\ Len(tokens) \in Nat
        BY <3>1, <3>2, <2>1, <1>2
      <4> QED BY <4>1
    <3> QED BY <3>1, <3>3, <2>1
  <2> QED BY <2>2, <2>3
<1>10. e \in EntryType
  <2>1. IsPrefill(r) \in BOOLEAN
    BY <1>2 DEF IsPrefill
  <2> QED BY <1>3, <1>6, <1>8, <1>9, <2>1 DEF EntryType
<1>11. e.base + e.n - e.d <= Len(tokens) /\ e.d < e.n /\ e.d <= Len(req[r].drafts)
  <2>1. Len(req[r].drafts) \in Nat
    BY <1>2
  <2> HIDE DEF tokens
  <2>2. e.base < Len(tokens) /\ e.base \in Nat /\ Len(tokens) \in Nat
    BY <1>2, <1>9
  <2> QED BY <2>1, <2>2, <1>8
<1>12. EntryOK(e)
  BY <1>1, <1>6, <1>7, <1>8, <1>9, <1>10, <1>11 DEF EntryOK
<1> QED BY <1>5, <1>8, <1>9, <1>12

(* A function on 1 .. n is a sequence. *)
LEMMA FunctionIsSeq ==
    ASSUME NEW E, NEW n \in Nat, NEW s \in [1 .. n -> E]
    PROVE  s \in Seq(E) /\ Len(s) = n
OBVIOUS

(* An entry as it is offered to the cache first. *)
IsOffer(e) == e.n = 1 /\ e.d = 0 /\ e.base < Len(req[e.r].tokens)

(* A list of such entries. *)
Offers(es) == EntriesOK(es) /\ \A i \in 1 .. Len(es) : IsOffer(es[i])

(* The residents that can run and the queued requests that are not         *)
(* resident are the candidates, each once.                                 *)
LEMMA CandidatesFacts ==
    ASSUME StepInv, phase = "idle"
    PROVE  Offers(Candidates) /\ (HasPendingRequests => Candidates # <<>>)
<1> DEFINE A == {r \in Requests : req[r].status # "TurnComplete"}
           B == {r \in Requests : req[r].status = "Queued" /\ ~IsResident(r)}
           old == Keep(residents, A)
           new == Keep(pool, B)
           s == [i \in 1 .. Len(old) |-> Candidate(old[i], FALSE)]
           t == [i \in 1 .. Len(new) |-> Candidate(new[i], TRUE)]
           c == Candidates
<1>1. /\ residents \in Seq(Requests) /\ Distinct(residents)
      /\ pool \in Seq(Requests) /\ Distinct(pool)
      /\ \A r \in ToSet(residents) \cup ToSet(pool) : req[r].status \in Open
      /\ \A r \in Requests : req[r].status = "Active" => r \in ToSet(residents)
  BY DEF StepInv, QueuesOK
<1>2. /\ old \in Seq(Requests) /\ ToSet(old) = ToSet(residents) \cap A /\ Distinct(old)
      /\ new \in Seq(Requests) /\ ToSet(new) = ToSet(pool) \cap B /\ Distinct(new)
  BY <1>1, SelectionFacts
<1>3. c = s \o t
  BY DEF Candidates
<1>4. \A r \in Requests : IsResident(r) <=> r \in ToSet(residents)
  BY DEF IsResident, ToSet
<1> DEFINE Good(e, r, b) ==
        /\ EntryOK(e) /\ Chained(cache, req[r].tokens, e.match) /\ e.r = r /\ e.n = 1
        /\ e.d = 0 /\ e.base < Len(req[r].tokens) /\ e \in EntryType
<1>5. ASSUME NEW r \in ToSet(old) PROVE Good(Candidate(r, FALSE), r, FALSE)
  <2>1. r \in Requests /\ r \in ToSet(residents) /\ req[r].status # "TurnComplete"
    BY <1>2
  <2>2. IsExecutable(r) /\ IsResident(r)
    BY <2>1, <1>1, <1>4 DEF IsExecutable, Open
  <2>3. EntryOK(Candidate(r, FALSE)) => Candidate(r, FALSE) \in EntryType
    BY DEF EntryOK
  <2> QED BY <2>1, <2>2, <2>3, CandidateFacts
<1>6. ASSUME NEW r \in ToSet(new) PROVE Good(Candidate(r, TRUE), r, TRUE)
  <2>1. r \in Requests /\ req[r].status = "Queued" /\ ~IsResident(r)
    BY <1>2
  <2>2. IsExecutable(r)
    BY <2>1 DEF IsExecutable
  <2>3. EntryOK(Candidate(r, TRUE)) => Candidate(r, TRUE) \in EntryType
    BY DEF EntryOK
  <2> QED BY <2>1, <2>2, <2>3, CandidateFacts
<1>7. /\ Len(old) \in Nat /\ Len(new) \in Nat
      /\ \A i \in 1 .. Len(old) : old[i] \in ToSet(old)
      /\ \A i \in 1 .. Len(new) : new[i] \in ToSet(new)
  <2> HIDE DEF old, new
  <2> QED BY <1>2 DEF ToSet
<1>a. ASSUME NEW r \in ToSet(old) PROVE r \notin ToSet(new)
  <2>1. r \in Requests /\ r \in ToSet(residents)
    BY <1>2
  <2>2. r \notin B
    BY <2>1, <1>4
  <2> HIDE DEF B
  <2> QED BY <2>2, <1>2
<1> HIDE DEF A, B, old, new
<1>8. /\ s \in Seq(EntryType) /\ Len(s) = Len(old)
      /\ \A i \in 1 .. Len(old) : Good(s[i], old[i], FALSE)
  <2>1. ASSUME NEW i \in 1 .. Len(old) PROVE s[i] \in EntryType /\ Good(s[i], old[i], FALSE)
    <3>1. s[i] = Candidate(old[i], FALSE) /\ old[i] \in ToSet(old)
      BY <1>7
    <3> HIDE DEF s
    <3> QED BY <3>1, <1>5
  <2>2. DOMAIN s = 1 .. Len(old) /\ s = [i \in 1 .. Len(old) |-> s[i]]
    OBVIOUS
  <2> HIDE DEF s, Good
  <2>3. s \in [1 .. Len(old) -> EntryType]
    BY <2>1, <2>2
  <2> QED BY <2>1, <2>3, <1>7, FunctionIsSeq
<1>9. /\ t \in Seq(EntryType) /\ Len(t) = Len(new)
      /\ \A i \in 1 .. Len(new) : Good(t[i], new[i], TRUE)
  <2>1. ASSUME NEW i \in 1 .. Len(new) PROVE t[i] \in EntryType /\ Good(t[i], new[i], TRUE)
    <3>1. t[i] = Candidate(new[i], TRUE) /\ new[i] \in ToSet(new)
      BY <1>7
    <3> HIDE DEF t
    <3> QED BY <3>1, <1>6
  <2>2. DOMAIN t = 1 .. Len(new) /\ t = [i \in 1 .. Len(new) |-> t[i]]
    OBVIOUS
  <2> HIDE DEF t, Good
  <2>3. t \in [1 .. Len(new) -> EntryType]
    BY <2>1, <2>2
  <2> QED BY <2>1, <2>3, <1>7, FunctionIsSeq
<1> HIDE DEF s, t, c, Good
<1>10. /\ c \in Seq(EntryType) /\ Len(c) = Len(old) + Len(new)
       /\ \A i \in 1 .. Len(old) : c[i] = s[i]
       /\ \A i \in Len(old) + 1 .. Len(old) + Len(new) : c[i] = t[i - Len(old)]
  <2>1. /\ c \in Seq(EntryType) /\ Len(c) = Len(s) + Len(t)
        /\ \A i \in 1 .. Len(s) : c[i] = s[i]
        /\ \A i \in Len(s) + 1 .. Len(s) + Len(t) : c[i] = t[i - Len(s)]
    <3>1. s \in Seq(EntryType) /\ t \in Seq(EntryType)
      BY <1>8, <1>9
    <3> HIDE DEF Good
    <3> QED BY <3>1, <1>3, ConcatFacts
  <2> QED BY <2>1, <1>8, <1>9
<1> USE DEF Good
<1>11. ASSUME NEW i \in 1 .. Len(c)
       PROVE  \/ i \in 1 .. Len(old) /\ c[i].r = old[i] /\ Good(c[i], old[i], FALSE)
              \/ i - Len(old) \in 1 .. Len(new) /\ c[i].r = new[i - Len(old)]
                 /\ Good(c[i], new[i - Len(old)], TRUE)
  <2>1. CASE i \in 1 .. Len(old)
    BY <2>1, <1>8, <1>10
  <2>2. CASE i \in Len(old) + 1 .. Len(old) + Len(new)
    <3>1. i - Len(old) \in 1 .. Len(new)
      BY <2>2, <1>7
    <3> QED BY <3>1, <2>2, <1>9, <1>10
  <2> QED BY <2>1, <2>2, <1>7, <1>10
<1>12. ASSUME NEW i \in 1 .. Len(c)
       PROVE  EntryOK(c[i]) /\ Chained(cache, req[c[i].r].tokens, c[i].match) /\ IsOffer(c[i])
  BY <1>11 DEF IsOffer
<1>13. ASSUME NEW i \in 1 .. Len(c), NEW j \in 1 .. Len(c), c[i].r = c[j].r PROVE i = j
  <2> HIDE DEF Good
  <2>1. CASE i \in 1 .. Len(old) /\ c[i].r = old[i] /\ j \in 1 .. Len(old) /\ c[j].r = old[j]
    <3>1. old[i] = old[j]
      BY <2>1, <1>13
    <3> QED BY <3>1, <2>1, <1>2 DEF Distinct
  <2>2. CASE /\ i - Len(old) \in 1 .. Len(new) /\ c[i].r = new[i - Len(old)]
             /\ j - Len(old) \in 1 .. Len(new) /\ c[j].r = new[j - Len(old)]
    <3>1. new[i - Len(old)] = new[j - Len(old)]
      BY <2>2, <1>13
    <3>2. i - Len(old) = j - Len(old)
      BY <3>1, <2>2, <1>2 DEF Distinct
    <3> QED BY <3>2, <1>7
  <2>3. CASE /\ i \in 1 .. Len(old) /\ c[i].r = old[i]
             /\ j - Len(old) \in 1 .. Len(new) /\ c[j].r = new[j - Len(old)]
    BY <2>3, <1>7, <1>13, <1>a
  <2>4. CASE /\ j \in 1 .. Len(old) /\ c[j].r = old[j]
             /\ i - Len(old) \in 1 .. Len(new) /\ c[i].r = new[i - Len(old)]
    BY <2>4, <1>7, <1>13, <1>a
  <2> QED BY <2>1, <2>2, <2>3, <2>4, <1>11
<1>14. DOMAIN c = 1 .. Len(c)
  BY <1>10
<1>15. Offers(c)
  BY <1>10, <1>12, <1>13, <1>14 DEF Offers, EntriesOK, DistinctRequests
<1>16. ASSUME HasPendingRequests PROVE c # <<>>
  <2>1. PICK i \in DOMAIN pool : IsExecutable(pool[i])
    BY <1>16 DEF HasPendingRequests
  <2> DEFINE r == pool[i]
  <2>2. r \in Requests /\ r \in ToSet(pool) /\ req[r].status \in {"Queued", "Active"}
    BY <2>1, <1>1 DEF ToSet, IsExecutable
  <2>3. r \in ToSet(old) \/ r \in ToSet(new)
    BY <2>2, <1>1, <1>2, <1>4 DEF A, B
  <2>4. Len(old) # 0 \/ Len(new) # 0
    BY <2>3, <1>2 DEF ToSet
  <2> QED BY <2>4, <1>7, <1>10
<1> QED BY <1>15, <1>16 DEF c

(* Entries picked from others, each at most once, can be offered as well. *)
LEMMA PickedOffers ==
    ASSUME NEW es, Offers(es), NEW t \in Seq(EntryType), NEW f \in [1 .. Len(t) -> 1 .. Len(es)],
           \A k, m \in 1 .. Len(t) : f[k] = f[m] => k = m,
           \A k \in 1 .. Len(t) : t[k] = es[f[k]]
    PROVE  Offers(t)
<1>1. /\ es \in Seq(EntryType) /\ DistinctRequests(es) /\ DOMAIN es = 1 .. Len(es)
      /\ DOMAIN t = 1 .. Len(t)
      /\ \A i \in 1 .. Len(es) : EntryOK(es[i]) /\ IsOffer(es[i])
                                 /\ Chained(cache, req[es[i].r].tokens, es[i].match)
  BY DEF Offers, EntriesOK
<1>2. ASSUME NEW k \in 1 .. Len(t)
      PROVE  EntryOK(t[k]) /\ Chained(cache, req[t[k].r].tokens, t[k].match) /\ IsOffer(t[k])
  BY <1>1
<1>3. ASSUME NEW k \in 1 .. Len(t), NEW m \in 1 .. Len(t), t[k].r = t[m].r PROVE k = m
  <2>1. f[k] \in 1 .. Len(es) /\ f[m] \in 1 .. Len(es) /\ es[f[k]].r = es[f[m]].r
    BY <1>3
  <2>2. f[k] = f[m]
    BY <2>1, <1>1 DEF DistinctRequests
  <2> QED BY <2>2
<1> QED BY <1>1, <1>2, <1>3 DEF Offers, EntriesOK, DistinctRequests

(* order lists the numbers 1 .. n, those of decodes before those of        *)
(* prefills and each kind in ascending order. m are decodes.               *)
IsOrder(order, es, n, m) ==
    /\ order \in [1 .. n -> 1 .. n] /\ m \in 0 .. n
    /\ \A k, l \in 1 .. n : order[k] = order[l] => k = l
    /\ \A i \in 1 .. n : \E k \in 1 .. n : order[k] = i
    /\ \A k \in 1 .. m : ~es[order[k]].prefill
    /\ \A k \in m + 1 .. n : es[order[k]].prefill
    /\ \A k, l \in 1 .. m : k < l => order[k] < order[l]
    /\ \A k, l \in m + 1 .. n : k < l => order[k] < order[l]

(* The numbers up to n, in order. *)
Numbers(n) == [i \in 1 .. n |-> i]

(* The selected numbers of 1 .. n, in ascending order. *)
LEMMA KeepNumbers ==
    ASSUME NEW n \in Nat, NEW S \in SUBSET (1 .. n), NEW t, t = Keep(Numbers(n), S)
    PROVE  /\ t \in Seq(1 .. n) /\ Len(t) = Cardinality(S) /\ IsFiniteSet(S)
           /\ \A k \in 1 .. Len(t) : t[k] \in S
           /\ \A k, l \in 1 .. Len(t) : k < l => t[k] < t[l]
           /\ \A i \in S : \E k \in 1 .. Len(t) : t[k] = i
<1> DEFINE s == [i \in 1 .. n |-> i]
<1>1. s \in Seq(1 .. n) /\ Len(s) = n /\ Distinct(s) /\ ToSet(s) = 1 .. n
  <2>1. s \in [1 .. n -> 1 .. n] /\ \A i \in 1 .. n : s[i] = i
    OBVIOUS
  <2> HIDE DEF s
  <2>2. s \in Seq(1 .. n) /\ Len(s) = n /\ DOMAIN s = 1 .. n
    BY <2>1, FunctionIsSeq
  <2> QED BY <2>1, <2>2 DEF Distinct, ToSet
<1>2. \A i \in 1 .. n : s[i] = i
  OBVIOUS
<1> HIDE DEF s
<1>3. t \in Seq(1 .. n) /\ Distinct(t) /\ ToSet(t) = S
  <2>1. t = Keep(s, S)
    BY DEF s, Numbers
  <2>2. /\ Keep(s, S) \in Seq(1 .. n) /\ ToSet(Keep(s, S)) = ToSet(s) \cap S
        /\ Distinct(s) => Distinct(Keep(s, S))
    BY <1>1, SelectionFacts
  <2> QED BY <2>1, <2>2, <1>1
<1>4. PICK f : Selects(t, s, S, f, n)
  <2>1. t = Keep(s, S)
    BY DEF s, Numbers
  <2> QED BY <2>1, <1>1, KeepSelects
<1>5. \A k \in 1 .. Len(t) : t[k] = f[k] /\ t[k] \in S
  BY <1>2, <1>4 DEF Selects
<1>6. \A k, l \in 1 .. Len(t) : k < l => t[k] < t[l]
  BY <1>4, <1>5 DEF Selects
<1>7. \A i \in S : \E k \in 1 .. Len(t) : t[k] = i
  BY <1>3 DEF ToSet
<1>8. IsFiniteSet(S) /\ Len(t) = Cardinality(S)
  BY <1>3, DistinctCount
<1> QED BY <1>3, <1>5, <1>6, <1>7, <1>8

(* Decodes first (DecodeFirstCandidateOrder). *)
LEMMA OrderFacts ==
    ASSUME NEW n \in Nat, NEW es, Len(es) = n
    PROVE  \E m : IsOrder(DecodeFirstCandidateOrder(es), es, n, m)
<1> DEFINE P == {i \in 1 .. n : es[i].prefill}
           D == (1 .. n) \ P
           a == Keep(Numbers(n), D)
           b == Keep(Numbers(n), P)
           o == DecodeFirstCandidateOrder(es)
           m == Len(a)
<1>1. o = a \o b
  BY DEF DecodeFirstCandidateOrder, Numbers
<1>2. P \in SUBSET (1 .. n) /\ D \in SUBSET (1 .. n) /\ D \cap P = {} /\ D \cup P = 1 .. n
  OBVIOUS
<1>p. /\ \A i \in P : es[i].prefill
      /\ \A i \in D : ~es[i].prefill
  OBVIOUS
<1> HIDE DEF P, D, o
<1>3. /\ a \in Seq(1 .. n) /\ Len(a) = Cardinality(D) /\ IsFiniteSet(D)
      /\ \A k \in 1 .. Len(a) : a[k] \in D
      /\ \A k, l \in 1 .. Len(a) : k < l => a[k] < a[l]
      /\ \A i \in D : \E k \in 1 .. Len(a) : a[k] = i
  <2>1. D \in SUBSET (1 .. n) /\ a = Keep(Numbers(n), D)
    BY <1>2
  <2> HIDE DEF a, b
  <2> QED BY <2>1, KeepNumbers
<1>4. /\ b \in Seq(1 .. n) /\ Len(b) = Cardinality(P) /\ IsFiniteSet(P)
      /\ \A k \in 1 .. Len(b) : b[k] \in P
      /\ \A k, l \in 1 .. Len(b) : k < l => b[k] < b[l]
      /\ \A i \in P : \E k \in 1 .. Len(b) : b[k] = i
  <2>1. P \in SUBSET (1 .. n) /\ b = Keep(Numbers(n), P)
    BY <1>2
  <2> HIDE DEF a, b
  <2> QED BY <2>1, KeepNumbers
<1>5. Len(a) + Len(b) = n /\ Len(a) \in Nat /\ Len(b) \in Nat
  <2>0. IsFiniteSet(D) /\ IsFiniteSet(P)
    BY <1>3, <1>4
  <2>a. Cardinality(D \cup P) = Cardinality(D) + Cardinality(P) - Cardinality(D \cap P)
    BY <2>0, FS_Union
  <2>b. Cardinality(D \cap P) = 0
    BY <1>2, FS_EmptySet
  <2>c. Cardinality(D) \in Nat /\ Cardinality(P) \in Nat
    BY <2>0, FS_CardinalityType
  <2>1. Cardinality(D \cup P) = Cardinality(D) + Cardinality(P)
    BY <2>a, <2>b, <2>c
  <2>2. Cardinality(1 .. n) = n
    BY FS_Interval
  <2>3. Cardinality(D) + Cardinality(P) = n
    BY <2>1, <2>2, <1>2
  <2> HIDE DEF a, b
  <2> QED BY <2>3, <2>c, <1>3, <1>4
<1>6. /\ o \in Seq(1 .. n) /\ Len(o) = Len(a) + Len(b)
      /\ \A i \in 1 .. Len(a) : o[i] = a[i]
      /\ \A i \in Len(a) + 1 .. Len(a) + Len(b) : o[i] = b[i - Len(a)]
  <2>1. a \in Seq(1 .. n) /\ b \in Seq(1 .. n)
    BY <1>3, <1>4
  <2> HIDE DEF a, b
  <2> QED BY <2>1, <1>1, ConcatFacts
<1> HIDE DEF a, b
<1>7. /\ m \in 0 .. n /\ m \in Nat /\ \A k \in m + 1 .. n : k - m \in 1 .. Len(b)
      /\ \A k \in 1 .. Len(b) : k + m \in m + 1 .. n /\ k + m - m = k
  BY <1>5
<1>8. /\ \A k \in 1 .. m : o[k] = a[k] /\ o[k] \in D
      /\ \A k \in m + 1 .. n : o[k] = b[k - m] /\ o[k] \in P
  <2>1. \A k \in 1 .. m : o[k] = a[k] /\ o[k] \in D
    BY <1>3, <1>6
  <2>2. \A k \in m + 1 .. n : o[k] = b[k - m]
    BY <1>5, <1>6
  <2> QED BY <2>1, <2>2, <1>4, <1>7
<1>9. \A k, l \in 1 .. m : k < l => o[k] < o[l]
  BY <1>3, <1>8
<1>10. \A k, l \in m + 1 .. n : k < l => o[k] < o[l]
  <2> SUFFICES ASSUME NEW k \in m + 1 .. n, NEW l \in m + 1 .. n, k < l PROVE o[k] < o[l]
    OBVIOUS
  <2>1. k - m \in 1 .. Len(b) /\ l - m \in 1 .. Len(b) /\ k - m < l - m
    BY <1>5, <1>7
  <2> QED BY <2>1, <1>4, <1>8
<1>11. o \in [1 .. n -> 1 .. n]
  BY <1>5, <1>6
<1>12. ASSUME NEW k \in 1 .. n, NEW l \in 1 .. n, o[k] = o[l] PROVE k = l
  <2>0. o[k] \in Int /\ o[l] \in Int
    BY <1>11
  <2>1. k \in 1 .. m \/ k \in m + 1 .. n
    BY <1>7
  <2>2. l \in 1 .. m \/ l \in m + 1 .. n
    BY <1>7
  <2>3. (k \in 1 .. m /\ l \in 1 .. m) \/ (k \in m + 1 .. n /\ l \in m + 1 .. n)
    BY <2>1, <2>2, <1>2, <1>8, <1>12
  <2>4. ~ (k < l) /\ ~ (l < k)
    BY <2>0, <2>3, <1>9, <1>10, <1>12
  <2> QED BY <2>4
<1>13. ASSUME NEW i \in 1 .. n PROVE \E k \in 1 .. n : o[k] = i
  <2>1. CASE i \in D
    <3>1. PICK k \in 1 .. Len(a) : a[k] = i
      BY <2>1, <1>3
    <3>2. k \in 1 .. n
      BY <1>7
    <3> QED BY <3>1, <3>2, <1>8
  <2>2. CASE i \in P
    <3>1. PICK k \in 1 .. Len(b) : b[k] = i
      BY <2>2, <1>4
    <3>2. k + m \in m + 1 .. n /\ k + m - m = k /\ k + m \in 1 .. n
      BY <1>7
    <3>3. o[k + m] = i
      BY <3>1, <3>2, <1>8
    <3> QED BY <3>2, <3>3
  <2> QED BY <2>1, <2>2, <1>2
<1>14. IsOrder(o, es, n, m)
  <2> HIDE DEF m
  <2>1. /\ \A k \in 1 .. m : ~es[o[k]].prefill
        /\ \A k \in m + 1 .. n : es[o[k]].prefill
    BY <1>8, <1>p
  <2> QED BY <1>7, <1>9, <1>10, <1>11, <1>12, <1>13, <2>1 DEF IsOrder
<1> QED BY <1>14 DEF o

(* No decode comes after a prefill. *)
DecodesFirst(es) == \A i, j \in 1 .. Len(es) : i < j /\ es[i].prefill => es[j].prefill

(* The candidates in the order in which the cache considers them. *)
LEMMA OrderedFacts ==
    ASSUME NEW es, Offers(es)
    PROVE  Offers(Ordered(es)) /\ Len(Ordered(es)) = Len(es) /\ DecodesFirst(Ordered(es))
<1> DEFINE n == Len(es)
           o == DecodeFirstCandidateOrder(es)
           t == Ordered(es)
<1>1. n \in Nat /\ es \in Seq(EntryType) /\ DOMAIN es = 1 .. n /\ Len(es) = n
      /\ \A i \in 1 .. n : es[i] \in EntryType
  BY DEF Offers, EntriesOK
<1>2. t = [i \in 1 .. n |-> es[o[i]]]
  BY <1>1 DEF Ordered
<1> HIDE DEF n, o, t
<1>3. PICK m : IsOrder(o, es, n, m)
  BY <1>1, OrderFacts DEF o
<1>4. /\ o \in [1 .. n -> 1 .. n] /\ m \in 0 .. n
      /\ \A k, l \in 1 .. n : o[k] = o[l] => k = l
  BY <1>3 DEF IsOrder
<1>5. t \in [1 .. n -> EntryType] /\ \A i \in 1 .. n : t[i] = es[o[i]]
  BY <1>1, <1>2, <1>4
<1>6. t \in Seq(EntryType) /\ Len(t) = n
  BY <1>1, <1>5, FunctionIsSeq
<1>7. Offers(t)
  <2>1. o \in [1 .. Len(t) -> 1 .. Len(es)]
    BY <1>1, <1>4, <1>6
  <2> QED BY <2>1, <1>4, <1>5, <1>6, PickedOffers
<1>8. ASSUME NEW i \in 1 .. n, NEW j \in 1 .. n, i < j, t[i].prefill PROVE t[j].prefill
  <2>1. i \notin 1 .. m
    BY <1>3, <1>5, <1>8 DEF IsOrder
  <2>2. j \in m + 1 .. n
    BY <2>1, <1>1, <1>4, <1>8
  <2> QED BY <2>2, <1>3, <1>5 DEF IsOrder
<1> QED BY <1>1, <1>6, <1>7, <1>8 DEF t, DecodesFirst

---------------------------------------------------------------------------
(* What the cache can serve together. *)

(* Blocks the request of an entry has, or adopts. *)
HeldBlocks(e) == IF e.new THEN Len(e.match) ELSE Len(table[e.r].blocks)

(* Slots the table of an entry must have. *)
Slots(e) == Larger(Len(req[e.r].tokens), e.base + e.n)

(* New blocks make up what the held ones lack. *)
LEMMA EntryBlocks ==
    ASSUME StepInv, NEW e \in EntryType
    PROVE  /\ NewBlocks(e) \in Nat /\ ProposedBlocks(e) \in Nat /\ HeldBlocks(e) \in Nat
           /\ ProposedBlocks(e) = NewBlocks(e) + HeldBlocks(e) /\ Slots(e) \in Nat
           /\ NewBlocks(e) = BlocksNeeded(Larger(Slots(e) - HeldBlocks(e) * BlockSize, 0))
           /\ Slots(e) <= (HeldBlocks(e) + NewBlocks(e)) * BlockSize
<1> DEFINE h == HeldBlocks(e)
           s == Slots(e)
           k == h * BlockSize
           l == Larger(s - k, 0)
<1>1. /\ e.r \in Requests /\ e.match \in Seq(Blocks) /\ e.base \in Nat /\ e.n \in Nat
      /\ e.new \in BOOLEAN
  BY DEF EntryType
<1>2. req[e.r].tokens \in Seq(Tokens) /\ table[e.r].blocks \in Seq(Blocks)
  BY <1>1 DEF StepInv, RequestsOK, RequestType, TablesOK, TableType
<1>3. h \in Nat
  BY <1>1, <1>2 DEF HeldBlocks
<1>4. s \in Nat
  BY <1>1, <1>2 DEF Slots, Larger
<1>5. NewBlocks(e) = BlocksNeeded(l) /\ ProposedBlocks(e) = NewBlocks(e) + h
  BY DEF NewBlocks, ProposedBlocks, HeldBlocks, Slots
<1> HIDE DEF h, s
<1>6. k \in Int /\ k >= 0
  BY <1>3, TimesBlockSize
<1>7. l \in Nat /\ s - k <= l
  <2> HIDE DEF k
  <2> QED BY <1>4, <1>6 DEF Larger
<1> HIDE DEF l
<1>8. BlocksNeeded(l) \in Nat /\ l <= BlocksNeeded(l) * BlockSize
  BY <1>7, BlocksNeededFacts
<1>9. (h + NewBlocks(e)) * BlockSize = k + BlocksNeeded(l) * BlockSize
      /\ BlocksNeeded(l) * BlockSize \in Int
  BY <1>3, <1>5, <1>8, TimesBlockSize
<1>10. s <= (h + NewBlocks(e)) * BlockSize
  <2> HIDE DEF k
  <2> QED BY <1>4, <1>6, <1>7, <1>8, <1>9
<1> QED BY <1>3, <1>4, <1>5, <1>8, <1>10 DEF h, s, l, k

(* The new blocks of the first i entries. *)
BlocksOf(es, i) ==
    LET sum[k \in 0 .. Len(es)] ==
            IF k = 0 THEN 0 ELSE sum[k - 1] + NewBlocks(es[k])
    IN  sum[i]

(* Adding up the blocks of a list of entries, as a fold. *)
SumStep(es, v, x, k) == x + NewBlocks(es[k])
SumFold == INSTANCE FoldLemmas WITH Op <- SumStep

(* BlocksOf adds them up. *)
LEMMA BlocksOfFacts ==
    ASSUME StepInv, NEW t \in Seq(EntryType)
    PROVE  /\ BlocksOf(t, 0) = 0 /\ \A i \in 0 .. Len(t) : BlocksOf(t, i) \in Nat
           /\ \A i \in 1 .. Len(t) : BlocksOf(t, i) = BlocksOf(t, i - 1) + NewBlocks(t[i])
<1> DEFINE n == Len(t)
           Solves(f) == f = [k \in 0 .. n |-> IF k = 0 THEN 0 ELSE f[k - 1] + NewBlocks(t[k])]
           f == CHOOSE g : Solves(g)
<1>1. n \in Nat /\ \A i \in 1 .. n : t[i] \in EntryType
  OBVIOUS
<1>2. \A i : BlocksOf(t, i) = f[i]
  BY DEF BlocksOf
<1> HIDE DEF n
<1>3. Solves(f)
  <2>ind. SumFold!Induction
    BY NatSetInduction DEF SumFold!Induction
  <2>1. PICK g : SumFold!Recursion(t, 0, g, 0, n)
    BY <2>ind, <1>1, SumFold!RecursionExists
  <2>2. Solves(g)
    BY <2>1 DEF SumStep, SumFold!Recursion
  <2> HIDE DEF Solves
  <2> QED BY <2>2
<1> HIDE DEF f
<1>4. f[0] = 0 /\ \A i \in 1 .. n : f[i] = f[i - 1] + NewBlocks(t[i])
  <2>1. 0 \in 0 .. n /\ \A i \in 1 .. n : i \in 0 .. n /\ i # 0
    BY <1>1
  <2> QED BY <1>3, <2>1
<1> HIDE DEF Solves
<1> DEFINE I == {i \in 0 .. n : f[i] \in Nat}
<1>5. 0 .. n \subseteq I
  <2>1. 0 \in I
    BY <1>1, <1>4
  <2>2. ASSUME NEW i \in 0 .. n - 1, i \in I PROVE i + 1 \in I
    <3>1. i + 1 \in 1 .. n /\ i + 1 - 1 = i /\ i + 1 \in 0 .. n
      BY <1>1
    <3>2. f[i + 1] = f[i] + NewBlocks(t[i + 1]) /\ NewBlocks(t[i + 1]) \in Nat /\ f[i] \in Nat
      BY <3>1, <1>1, <1>4, <2>2, EntryBlocks
    <3> QED BY <3>1, <3>2
  <2> HIDE DEF I
  <2> QED BY <2>1, <2>2, <1>1, RangeInduction
<1> QED BY <1>2, <1>4, <1>5 DEF n

(* Entries that need the same blocks add up to the same. *)
LEMMA SameBlocks ==
    ASSUME StepInv, NEW t \in Seq(EntryType), NEW u \in Seq(EntryType), NEW n \in Nat,
           n <= Len(t), n <= Len(u), \A i \in 1 .. n : NewBlocks(t[i]) = NewBlocks(u[i])
    PROVE  \A i \in 0 .. n : BlocksOf(t, i) = BlocksOf(u, i)
<1> DEFINE I == {i \in 0 .. n : BlocksOf(t, i) = BlocksOf(u, i)}
<1>1. /\ BlocksOf(t, 0) = 0
      /\ \A i \in 1 .. n : BlocksOf(t, i) = BlocksOf(t, i - 1) + NewBlocks(t[i])
  BY BlocksOfFacts
<1>2. /\ BlocksOf(u, 0) = 0
      /\ \A i \in 1 .. n : BlocksOf(u, i) = BlocksOf(u, i - 1) + NewBlocks(u[i])
  BY BlocksOfFacts
<1>3. 0 \in I
  BY <1>1, <1>2
<1>4. ASSUME NEW i \in 0 .. n - 1, i \in I PROVE i + 1 \in I
  <2>1. i + 1 \in 1 .. n /\ i + 1 - 1 = i /\ i + 1 \in 0 .. n
    OBVIOUS
  <2> QED BY <2>1, <1>1, <1>2, <1>4
<1> HIDE DEF I
<1>5. 0 .. n \subseteq I
  BY <1>3, <1>4, RangeInduction
<1> QED BY <1>5 DEF I

(* The entries that are admitted. *)
News(t) == {i \in 1 .. Len(t) : t[i].new}

(* Reclaimable blocks that the entries would adopt. *)
ChargedBy(t) == {b \in UNION {ToSet(t[i].match) : i \in 1 .. Len(t)} : IsReclaimable(cache, b)}

(* Most requests a step may have. *)
Limit == DecodeFirstProvisionalRequestLimit(MaxScheduledTokens, MaxBatch)

(* Blocks the pool could still hand out. *)
Usable == AvailableBlocks(cache) + ReclaimableBlocks(cache)

(* The cache can serve these entries together. *)
Fits(t) ==
    /\ Len(t) <= Limit
    /\ \A i \in 1 .. Len(t) : ProposedBlocks(t[i]) <= NumBlocks
    /\ \A i \in 1 .. Len(t) : t[i].new => Len(residents) + Cardinality(News(t)) <= MaxBatch
    /\ BlocksOf(t, Len(t)) + Cardinality(ChargedBy(t)) <= Usable

(* The numbers that planning compares. *)
LEMMA PlanNumbers ==
    ASSUME StepInv
    PROVE  /\ Limit \in Nat /\ Usable \in Nat /\ Len(residents) \in Nat /\ MaxBatch \in Nat
           /\ NumBlocks \in Nat /\ Limit <= MaxScheduledTokens /\ Limit <= MaxBatch
<1>1. MaxScheduledTokens \in Nat /\ MaxBatch \in Nat
  BY ConfigFacts DEF StepInv
<1>2. Limit \in Nat /\ Limit <= MaxScheduledTokens /\ Limit <= MaxBatch
  BY <1>1 DEF Limit, DecodeFirstProvisionalRequestLimit, Smaller
<1>3. IsCache(cache)
  BY DEF StepInv, PoolInv
<1>4. ReclaimableBlocks(cache) \in Nat
  BY <1>3, FieldTypes DEF ReclaimableBlocks
<1>5. AvailableBlocks(cache) \in Nat
  <2>1. IsFiniteSet(FreeBlocks(cache))
    BY BlocksFinite, FS_Subset DEF FreeBlocks
  <2> QED BY <2>1, FS_CardinalityType DEF AvailableBlocks
<1>6. residents \in Seq(Requests)
  BY DEF StepInv, QueuesOK
<1>7. NumBlocks \in Nat
  BY PoolAssumption
<1> QED BY <1>1, <1>2, <1>4, <1>5, <1>6, <1>7 DEF Usable

(* Sets of planned blocks are finite. *)
LEMMA ChargedFinite ==
    ASSUME StepInv, NEW S, S \subseteq ToSet(cache.reclaimable)
    PROVE  IsFiniteSet(S) /\ Cardinality(S) \in Nat
<1>1. IsCache(cache)
  BY DEF StepInv, PoolInv
<1>2. S \subseteq Blocks
  BY <1>1, FieldTypes, ListBlocks
<1>3. IsFiniteSet(S)
  BY <1>2, BlocksFinite, FS_Subset
<1> QED BY <1>3, FS_CardinalityType

(* u has one entry more than t. *)
Extends(u, t, e, c) ==
    /\ u \in Seq(EntryType) /\ Len(u) = Len(t) + 1
    /\ \A k \in 1 .. Len(t) : u[k] = t[k]
    /\ u[Len(t) + 1] = e
    /\ Cardinality(News(t)) \in Nat
    /\ Cardinality(News(u)) = Cardinality(News(t)) + Bit(e.new)
    /\ ChargedBy(u) = ChargedBy(t) \cup c
    /\ Cardinality(c) \in Nat /\ Cardinality(ChargedBy(t)) \in Nat
    /\ Cardinality(ChargedBy(u)) = Cardinality(ChargedBy(t)) + Cardinality(c)
    /\ BlocksOf(t, Len(t)) \in Nat
    /\ BlocksOf(u, Len(u)) = BlocksOf(t, Len(t)) + NewBlocks(e)

(* One more entry. *)
LEMMA OneMoreEntry ==
    ASSUME StepInv, NEW t \in Seq(EntryType), NEW e \in EntryType, NEW u, u = Append(t, e),
           NEW c, c = ClaimedBlocks(e, ChargedBy(t))
    PROVE  Extends(u, t, e, c)
<1> DEFINE n == Len(t)
<1>1. /\ u \in Seq(EntryType) /\ Len(u) = n + 1 /\ n \in Nat
      /\ \A k \in 1 .. n : u[k] = t[k]
      /\ u[n + 1] = e
  BY AppendFacts
<1>2. n = Len(t)
  OBVIOUS
<1> HIDE DEF n
<1>3. Cardinality(News(t)) \in Nat /\ Cardinality(News(u)) = Cardinality(News(t)) + Bit(e.new)
  <2>1. IsFiniteSet(News(t))
    <3>1. IsFiniteSet(1 .. n) /\ News(t) \subseteq 1 .. n
      BY <1>1, <1>2, FS_Interval DEF News
    <3> QED BY <3>1, FS_Subset
  <2>2. Cardinality(News(t)) \in Nat
    BY <2>1, FS_CardinalityType
  <2>3. CASE e.new
    <3>1. News(u) = News(t) \cup {n + 1} /\ n + 1 \notin News(t)
      BY <2>3, <1>1, <1>2 DEF News
    <3>2. Cardinality(News(t) \cup {n + 1}) = Cardinality(News(t)) + 1
      BY <3>1, <2>1, FS_AddElement
    <3> QED BY <3>1, <3>2, <2>2, <2>3 DEF Bit
  <2>4. CASE ~e.new
    <3>1. News(u) = News(t)
      BY <2>4, <1>1, <1>2 DEF News
    <3> QED BY <3>1, <2>2, <2>4 DEF Bit
  <2> QED BY <2>2, <2>3, <2>4
<1>4. ChargedBy(u) = ChargedBy(t) \cup c /\ ChargedBy(t) \cap c = {}
  <2>1. UNION {ToSet(u[i].match) : i \in 1 .. n + 1}
          = (UNION {ToSet(t[i].match) : i \in 1 .. n}) \cup ToSet(e.match)
    <3>1. /\ \A i \in 1 .. n : i \in 1 .. n + 1
          /\ \A i \in 1 .. n + 1 : i \in 1 .. n \/ i = n + 1
          /\ n + 1 \in 1 .. n + 1
      BY <1>1
    <3>2. ASSUME NEW b, NEW i \in 1 .. n + 1, b \in ToSet(u[i].match)
          PROVE  (\E j \in 1 .. n : b \in ToSet(t[j].match)) \/ b \in ToSet(e.match)
      BY <3>1, <3>2, <1>1
    <3>3. ASSUME NEW b, (\E j \in 1 .. n : b \in ToSet(t[j].match)) \/ b \in ToSet(e.match)
          PROVE  \E i \in 1 .. n + 1 : b \in ToSet(u[i].match)
      BY <3>1, <3>3, <1>1
    <3>4. ASSUME NEW b
          PROVE  b \in UNION {ToSet(u[i].match) : i \in 1 .. n + 1}
                   <=> b \in (UNION {ToSet(t[i].match) : i \in 1 .. n}) \cup ToSet(e.match)
      <4>1. b \in UNION {ToSet(u[i].match) : i \in 1 .. n + 1}
              <=> \E i \in 1 .. n + 1 : b \in ToSet(u[i].match)
        OBVIOUS
      <4>2. b \in UNION {ToSet(t[i].match) : i \in 1 .. n}
              <=> \E i \in 1 .. n : b \in ToSet(t[i].match)
        OBVIOUS
      <4> QED BY <3>2, <3>3, <4>1, <4>2
    <3> QED BY <3>4
  <2> QED BY <2>1, <1>1, <1>2 DEF ChargedBy, ClaimedBlocks
<1>5. c \subseteq ToSet(cache.reclaimable) /\ ChargedBy(t) \subseteq ToSet(cache.reclaimable)
  BY DEF ChargedBy, ClaimedBlocks, IsReclaimable
<1>6. /\ IsFiniteSet(c) /\ Cardinality(c) \in Nat
      /\ IsFiniteSet(ChargedBy(t)) /\ Cardinality(ChargedBy(t)) \in Nat
  BY <1>5, ChargedFinite
<1>7. Cardinality(ChargedBy(u)) = Cardinality(ChargedBy(t)) + Cardinality(c)
  <2>1. Cardinality(ChargedBy(t) \cup c)
          = Cardinality(ChargedBy(t)) + Cardinality(c) - Cardinality(ChargedBy(t) \cap c)
    BY <1>6, FS_Union
  <2>2. Cardinality(ChargedBy(t) \cap c) = 0
    BY <1>4, FS_EmptySet
  <2> QED BY <2>1, <2>2, <1>4, <1>6
<1>8. BlocksOf(t, n) \in Nat
  BY <1>1, <1>2, BlocksOfFacts
<1>9. BlocksOf(u, n + 1) = BlocksOf(t, n) + NewBlocks(e)
  <2>0. \A i \in 1 .. n : NewBlocks(t[i]) = NewBlocks(u[i])
    BY <1>1
  <2>a. \A i \in 0 .. n : BlocksOf(t, i) = BlocksOf(u, i)
    <3>1. n <= Len(t) /\ n <= Len(u)
      BY <1>1, <1>2
    <3> QED BY <3>1, <2>0, <1>1, SameBlocks
  <2>b. \A i \in 1 .. Len(u) : BlocksOf(u, i) = BlocksOf(u, i - 1) + NewBlocks(u[i])
    BY <1>1, BlocksOfFacts
  <2>1. BlocksOf(u, n) = BlocksOf(t, n)
    BY <2>a, <1>1
  <2>2. n + 1 \in 1 .. Len(u) /\ n + 1 - 1 = n
    BY <1>1
  <2>3. BlocksOf(u, n + 1) = BlocksOf(u, n) + NewBlocks(u[n + 1])
    BY <2>2, <2>b, <1>1
  <2> QED BY <2>1, <2>3, <1>1
<1> QED BY <1>1, <1>2, <1>3, <1>4, <1>6, <1>7, <1>8, <1>9 DEF Extends

---------------------------------------------------------------------------
(* The planning pass (PlanStepResources). *)

PassType ==
    [chosen : Seq(EntryType), planned : Nat, charged : SUBSET Blocks, new : Nat,
     unserviceable : SUBSET Requests]

(* t is taken from the first n entries of es, in their order. *)
PickedFrom(t, es, n) ==
    \E f \in [1 .. Len(t) -> 1 .. n] :
        /\ \A k, m \in 1 .. Len(t) : k < m => f[k] < f[m]
        /\ \A k \in 1 .. Len(t) : t[k] = es[f[k]]

(* The pass after the first n entries. *)
Passed(acc, es, n) ==
    /\ acc \in PassType /\ PickedFrom(acc.chosen, es, n) /\ Fits(acc.chosen)
    /\ acc.planned = BlocksOf(acc.chosen, Len(acc.chosen)) + Cardinality(ChargedBy(acc.chosen))
    /\ acc.charged = ChargedBy(acc.chosen) /\ acc.new = Cardinality(News(acc.chosen))
    /\ \A r \in acc.unserviceable : \E i \in 1 .. n : es[i].r = r

(* Selecting entries, as a fold. *)
ConsiderStep(limit, available, acc, e) ==
    LET claimed == ClaimedBlocks(e, acc.charged)
        cost == NewBlocks(e) + Cardinality(claimed)
    IN  IF ProposedBlocks(e) > NumBlocks
        THEN [acc EXCEPT !.unserviceable =
                IF @ = {} THEN {e.r} ELSE @]
        ELSE IF \/ Len(acc.chosen) >= limit
                \/ e.new /\ Len(residents) + acc.new >= MaxBatch
                \/ acc.planned + cost > available
        THEN acc
        ELSE [acc EXCEPT !.chosen = Append(@, e),
                         !.planned = @ + cost,
                         !.charged = @ \cup claimed,
                         !.new = IF e.new THEN @ + 1 ELSE @]

ConsiderFold == INSTANCE FoldLemmas WITH Op <- ConsiderStep

(* Where the selection starts. *)
NothingChosen == [chosen |-> <<>>, planned |-> 0, charged |-> {}, new |-> 0,
                  unserviceable |-> {}]

(* One more entry can be picked, or passed over. *)
LEMMA PickOneMore ==
    ASSUME NEW E, NEW t \in Seq(E), NEW es, NEW n \in Nat, PickedFrom(t, es, n), es[n + 1] \in E
    PROVE  PickedFrom(t, es, n + 1) /\ PickedFrom(Append(t, es[n + 1]), es, n + 1)
<1> DEFINE u == Append(t, es[n + 1])
           m == Len(t)
<1>1. PICK f \in [1 .. m -> 1 .. n] :
        /\ \A k, l \in 1 .. m : k < l => f[k] < f[l]
        /\ \A k \in 1 .. m : t[k] = es[f[k]]
  BY DEF PickedFrom
<1>2. m \in Nat /\ Len(t) = m
  OBVIOUS
<1>3. Len(u) = m + 1 /\ (\A k \in 1 .. m : u[k] = t[k]) /\ u[m + 1] = es[n + 1]
  BY AppendFacts
<1> HIDE DEF u, m
<1>4. f \in [1 .. m -> 1 .. n + 1]
  <2>1. \A k \in 1 .. m : f[k] \in 1 .. n /\ f[k] \in 1 .. n + 1
    OBVIOUS
  <2> QED BY <2>1
<1>5. PickedFrom(t, es, n + 1)
  BY <1>1, <1>2, <1>4 DEF PickedFrom
<1> DEFINE g == [k \in 1 .. m + 1 |-> IF k = m + 1 THEN n + 1 ELSE f[k]]
<1>6. /\ g[m + 1] = n + 1
      /\ \A k \in 1 .. m : g[k] = f[k] /\ g[k] \in 1 .. n
      /\ DOMAIN g = 1 .. m + 1 /\ g = [k \in 1 .. m + 1 |-> g[k]]
      /\ \A k \in 1 .. m + 1 : k \in 1 .. m \/ k = m + 1
      /\ \A k \in 1 .. m : k \in 1 .. m + 1
  BY <1>2
<1> HIDE DEF g
<1>7. g \in [1 .. m + 1 -> 1 .. n + 1]
  <2>1. \A k \in 1 .. m + 1 : g[k] \in 1 .. n + 1
    <3>1. n + 1 \in 1 .. n + 1 /\ \A k \in 1 .. n : k \in 1 .. n + 1
      OBVIOUS
    <3> QED BY <3>1, <1>6
  <2> QED BY <2>1, <1>6
<1>8. ASSUME NEW k \in 1 .. m + 1, NEW l \in 1 .. m + 1, k < l PROVE g[k] < g[l]
  <2>1. k \in 1 .. m
    BY <1>2, <1>8
  <2>2. CASE l = m + 1
    <3>1. g[k] \in 1 .. n /\ g[l] = n + 1
      BY <2>1, <2>2, <1>6
    <3> QED BY <3>1
  <2>3. CASE l \in 1 .. m
    BY <2>1, <2>3, <1>1, <1>6, <1>8
  <2> QED BY <2>2, <2>3, <1>6
<1>9. \A k \in 1 .. m + 1 : u[k] = es[g[k]]
  BY <1>1, <1>3, <1>6
<1>10. PickedFrom(u, es, n + 1)
  BY <1>3, <1>7, <1>8, <1>9 DEF PickedFrom
<1> QED BY <1>5, <1>10 DEF u

(* A chosen entry that fits. *)
LEMMA FitsOneMore ==
    ASSUME StepInv, NEW t \in Seq(EntryType), Fits(t), NEW e \in EntryType,
           ProposedBlocks(e) <= NumBlocks, Len(t) < Limit,
           e.new => Len(residents) + Cardinality(News(t)) < MaxBatch,
           BlocksOf(t, Len(t)) + Cardinality(ChargedBy(t)) + NewBlocks(e)
             + Cardinality(ClaimedBlocks(e, ChargedBy(t))) <= Usable
    PROVE  Fits(Append(t, e))
<1> DEFINE u == Append(t, e)
           c == ClaimedBlocks(e, ChargedBy(t))
           n == Len(t)
<1>0. n \in Nat
  OBVIOUS
<1>1. /\ u \in Seq(EntryType) /\ Len(u) = Len(t) + 1
      /\ \A k \in 1 .. Len(t) : u[k] = t[k]
      /\ u[Len(t) + 1] = e
      /\ Cardinality(News(t)) \in Nat
      /\ Cardinality(News(u)) = Cardinality(News(t)) + Bit(e.new)
      /\ Cardinality(c) \in Nat /\ Cardinality(ChargedBy(t)) \in Nat
      /\ Cardinality(ChargedBy(u)) = Cardinality(ChargedBy(t)) + Cardinality(c)
      /\ BlocksOf(t, Len(t)) \in Nat
      /\ BlocksOf(u, Len(u)) = BlocksOf(t, Len(t)) + NewBlocks(e)
  <2>1. u = Append(t, e) /\ c = ClaimedBlocks(e, ChargedBy(t))
    OBVIOUS
  <2> HIDE DEF u, c
  <2>2. Extends(u, t, e, c)
    BY <2>1, OneMoreEntry
  <2> QED BY <2>2 DEF Extends
<1>2. /\ Limit \in Nat /\ Usable \in Nat /\ Len(residents) \in Nat /\ MaxBatch \in Nat
      /\ NewBlocks(e) \in Nat
  BY PlanNumbers, EntryBlocks
<1>3. n = Len(t)
  OBVIOUS
<1> HIDE DEF u, c, n
<1>4. \A k \in 1 .. n + 1 : k \in 1 .. n \/ k = n + 1
  BY <1>0
<1>5. Len(u) <= Limit
  BY <1>0, <1>1, <1>2, <1>3
<1>6. \A i \in 1 .. Len(u) : ProposedBlocks(u[i]) <= NumBlocks
  BY <1>0, <1>1, <1>3, <1>4 DEF Fits
<1>7. BlocksOf(u, Len(u)) + Cardinality(ChargedBy(u)) <= Usable
  BY <1>1, <1>2 DEF c
<1>8. ASSUME NEW i \in 1 .. Len(u), u[i].new PROVE Len(residents) + Cardinality(News(u)) <= MaxBatch
  <2> DEFINE k == Cardinality(News(t))
             m == Cardinality(News(u))
             L == Len(residents)
  <2>1. k \in Nat /\ m = k + Bit(e.new) /\ L \in Nat /\ MaxBatch \in Nat
    BY <1>1, <1>2
  <2>2. IF e.new THEN L + k < MaxBatch ELSE L + k <= MaxBatch
    <3>1. CASE ~e.new
      <4>1. i \in 1 .. n /\ t[i].new
        BY <3>1, <1>0, <1>1, <1>3, <1>4, <1>8
      <4> QED BY <3>1, <4>1, <1>3 DEF Fits
    <3> QED BY <3>1
  <2>3. L + m <= MaxBatch
    <3> HIDE DEF k, m, L
    <3> QED BY <2>1, <2>2 DEF Bit
  <2> QED BY <2>3
<1> QED BY <1>5, <1>6, <1>7, <1>8 DEF Fits, u

(* The pass over one more entry. *)
LEMMA ConsiderOne ==
    ASSUME StepInv, NEW es \in Seq(EntryType), NEW n \in 0 .. Len(es) - 1, NEW acc,
           Passed(acc, es, n), NEW e, e = es[n + 1],
           NEW nxt, nxt = ConsiderStep(Limit, Usable, acc, e)
    PROVE  /\ Passed(nxt, es, n + 1)
           /\ Fits(Append(acc.chosen, e)) => nxt.chosen = Append(acc.chosen, e)
<1> DEFINE t == acc.chosen
           c == ClaimedBlocks(e, ChargedBy(t))
           u == Append(t, e)
<1>1. /\ acc \in PassType /\ PickedFrom(t, es, n) /\ Fits(t)
      /\ acc.planned = BlocksOf(t, Len(t)) + Cardinality(ChargedBy(t))
      /\ acc.charged = ChargedBy(t) /\ acc.new = Cardinality(News(t))
      /\ \A r \in acc.unserviceable : \E i \in 1 .. n : es[i].r = r
  BY DEF Passed
<1>2. /\ t \in Seq(EntryType) /\ acc.planned \in Nat /\ acc.charged \in SUBSET Blocks
      /\ acc.new \in Nat /\ acc.unserviceable \in SUBSET Requests
  BY <1>1 DEF PassType
<1>3. n \in Nat /\ n + 1 \in 1 .. Len(es) /\ e \in EntryType /\ e.r \in Requests /\ e.new \in BOOLEAN
  <2>1. n \in Nat /\ n + 1 \in 1 .. Len(es)
    OBVIOUS
  <2>2. e \in EntryType
    BY <2>1
  <2> QED BY <2>1, <2>2 DEF EntryType
<1>4. Extends(u, t, e, c)
  <2>1. u = Append(t, e) /\ c = ClaimedBlocks(e, ChargedBy(t))
    OBVIOUS
  <2> HIDE DEF u, c, t
  <2> QED BY <2>1, <1>2, <1>3, OneMoreEntry
<1>5. /\ Limit \in Nat /\ Usable \in Nat /\ Len(residents) \in Nat /\ MaxBatch \in Nat
      /\ NewBlocks(e) \in Nat /\ ProposedBlocks(e) \in Nat /\ NumBlocks \in Nat
  BY <1>3, PlanNumbers, EntryBlocks
<1>6. PickedFrom(t, es, n + 1) /\ PickedFrom(u, es, n + 1)
  <2> HIDE DEF t
  <2> QED BY <1>1, <1>2, <1>3, PickOneMore
<1>7. nxt = IF ProposedBlocks(e) > NumBlocks
            THEN [acc EXCEPT !.unserviceable = IF acc.unserviceable = {} THEN {e.r}
                                               ELSE acc.unserviceable]
            ELSE IF \/ Len(t) >= Limit
                    \/ e.new /\ Len(residents) + acc.new >= MaxBatch
                    \/ acc.planned + (NewBlocks(e) + Cardinality(c)) > Usable
            THEN acc
            ELSE [acc EXCEPT !.chosen = u,
                             !.planned = acc.planned + (NewBlocks(e) + Cardinality(c)),
                             !.charged = acc.charged \cup c,
                             !.new = IF e.new THEN acc.new + 1 ELSE acc.new]
  BY <1>1 DEF ConsiderStep
<1>8. acc = [chosen |-> t, planned |-> acc.planned, charged |-> acc.charged, new |-> acc.new,
             unserviceable |-> acc.unserviceable]
  BY <1>1 DEF PassType
<1> HIDE DEF t, c, u
<1>9. /\ Len(u) = Len(t) + 1 /\ u \in Seq(EntryType) /\ u[Len(t) + 1] = e
      /\ Cardinality(News(u)) = Cardinality(News(t)) + Bit(e.new)
      /\ Cardinality(ChargedBy(u)) = Cardinality(ChargedBy(t)) + Cardinality(c)
      /\ Cardinality(ChargedBy(t)) \in Nat /\ Cardinality(c) \in Nat
      /\ ChargedBy(u) = ChargedBy(t) \cup c
      /\ BlocksOf(u, Len(u)) = BlocksOf(t, Len(t)) + NewBlocks(e)
      /\ BlocksOf(t, Len(t)) \in Nat /\ Len(t) \in Nat
  BY <1>2, <1>4 DEF Extends
<1>n. /\ acc.planned = BlocksOf(t, Len(t)) + Cardinality(ChargedBy(t))
      /\ Cardinality(ChargedBy(u)) = Cardinality(ChargedBy(t)) + Cardinality(c)
      /\ BlocksOf(u, Len(u)) = BlocksOf(t, Len(t)) + NewBlocks(e)
      /\ Cardinality(ChargedBy(t)) \in Nat /\ Cardinality(c) \in Nat
      /\ BlocksOf(t, Len(t)) \in Nat /\ NewBlocks(e) \in Nat /\ Usable \in Nat
  BY <1>1, <1>5, <1>9
<1>w. \A i \in 1 .. n : i \in 1 .. n + 1
  BY <1>3
<1>10. CASE ProposedBlocks(e) > NumBlocks
  <2> DEFINE U == IF acc.unserviceable = {} THEN {e.r} ELSE acc.unserviceable
  <2>1. nxt = [acc EXCEPT !.unserviceable = U]
    BY <1>7, <1>10
  <2>2. U \in SUBSET Requests /\ \A r \in U : r = e.r \/ r \in acc.unserviceable
    BY <1>2, <1>3
  <2>3. \A r \in U : \E i \in 1 .. n + 1 : es[i].r = r
    <3>1. n + 1 \in 1 .. n + 1
      BY <1>3
    <3> QED BY <3>1, <2>2, <1>1, <1>w
  <2> HIDE DEF U
  <2>4. nxt = [chosen |-> t, planned |-> acc.planned, charged |-> acc.charged, new |-> acc.new,
               unserviceable |-> U]
    BY <2>1, <1>8
  <2>5. nxt \in PassType
    BY <2>2, <2>4, <1>2 DEF PassType
  <2>6. Passed(nxt, es, n + 1)
    BY <2>3, <2>4, <2>5, <1>1, <1>6 DEF Passed, t
  <2>7. ~Fits(u)
    <3>1. Len(t) + 1 \in 1 .. Len(u)
      BY <1>9
    <3>2. ASSUME Fits(u) PROVE ProposedBlocks(u[Len(t) + 1]) <= NumBlocks
      BY <3>1, <3>2 DEF Fits
    <3> QED BY <3>2, <1>5, <1>9, <1>10
  <2> QED BY <2>6, <2>7 DEF u, t
<1> DEFINE Full == \/ Len(t) >= Limit
                   \/ e.new /\ Len(residents) + acc.new >= MaxBatch
                   \/ acc.planned + (NewBlocks(e) + Cardinality(c)) > Usable
<1>11. CASE ProposedBlocks(e) <= NumBlocks /\ Full
  <2>1. nxt = acc
    BY <1>5, <1>7, <1>11
  <2>2. \A r \in acc.unserviceable : \E i \in 1 .. n + 1 : es[i].r = r
    BY <1>1, <1>w
  <2>3. Passed(nxt, es, n + 1)
    BY <2>1, <2>2, <1>1, <1>6 DEF Passed, t
  <2>4. ~Fits(u)
    <3>1. CASE Len(t) >= Limit
      BY <3>1, <1>5, <1>9 DEF Fits
    <3>2. CASE e.new /\ Len(residents) + acc.new >= MaxBatch
      <4>1. Len(t) + 1 \in 1 .. Len(u)
        BY <1>9
      <4>2. Cardinality(News(u)) = acc.new + 1
        BY <3>2, <1>1, <1>9 DEF Bit
      <4>3. ASSUME Fits(u), u[Len(t) + 1].new
            PROVE  Len(residents) + Cardinality(News(u)) <= MaxBatch
        BY <4>1, <4>3 DEF Fits
      <4>4. u[Len(t) + 1].new
        BY <3>2, <1>9
      <4>5. ~ (Len(residents) + Cardinality(News(u)) <= MaxBatch)
        BY <3>2, <4>2, <1>2, <1>5
      <4> QED BY <4>3, <4>4, <4>5
    <3>3. CASE acc.planned + (NewBlocks(e) + Cardinality(c)) > Usable
      BY <3>3, <1>n DEF Fits
    <3> QED BY <3>1, <3>2, <3>3, <1>11
  <2> QED BY <2>3, <2>4 DEF u, t
<1>12. CASE ProposedBlocks(e) <= NumBlocks /\ ~Full
  <2> DEFINE k == acc.planned + (NewBlocks(e) + Cardinality(c))
             w == IF e.new THEN acc.new + 1 ELSE acc.new
             C == acc.charged \cup c
  <2>1. nxt = [acc EXCEPT !.chosen = u, !.planned = k, !.charged = C, !.new = w]
    BY <1>5, <1>7, <1>12
  <2>a. k \in Nat /\ k = BlocksOf(u, Len(u)) + Cardinality(ChargedBy(u))
    BY <1>n
  <2>b. w \in Nat /\ w = Cardinality(News(u))
    BY <1>1, <1>2, <1>3, <1>9 DEF Bit
  <2>2. k \in Nat /\ w \in Nat /\ k = BlocksOf(u, Len(u)) + Cardinality(ChargedBy(u))
        /\ w = Cardinality(News(u)) /\ C = ChargedBy(u)
    BY <2>a, <2>b, <1>1, <1>9
  <2>3. Fits(u)
    <3>1. Len(t) < Limit
      BY <1>5, <1>9, <1>12
    <3>2. e.new => Len(residents) + Cardinality(News(t)) < MaxBatch
      BY <1>1, <1>2, <1>5, <1>12
    <3>3. BlocksOf(t, Len(t)) + Cardinality(ChargedBy(t)) + NewBlocks(e)
             + Cardinality(ClaimedBlocks(e, ChargedBy(t))) <= Usable
      <4>1. ~ (acc.planned + (NewBlocks(e) + Cardinality(c)) > Usable)
        BY <1>12
      <4>2. BlocksOf(t, Len(t)) + Cardinality(ChargedBy(t)) + NewBlocks(e) + Cardinality(c)
              <= Usable
        BY <4>1, <1>n
      <4> QED BY <4>2 DEF c
    <3> HIDE DEF Full
    <3> QED BY <3>1, <3>2, <3>3, <1>1, <1>2, <1>3, <1>12, FitsOneMore DEF u
  <2>4. C \in SUBSET Blocks
    <3>1. IsCache(cache)
      BY DEF StepInv, PoolInv
    <3>2. ToSet(cache.reclaimable) \subseteq Blocks
      BY <3>1, FieldTypes, ListBlocks
    <3> QED BY <3>2, <1>2 DEF c, ClaimedBlocks, IsReclaimable
  <2> HIDE DEF k, w, C, Full
  <2>5. nxt = [chosen |-> u, planned |-> k, charged |-> C, new |-> w,
               unserviceable |-> acc.unserviceable]
    BY <2>1, <1>8
  <2>6. nxt \in PassType
    BY <2>2, <2>4, <2>5, <1>2, <1>9 DEF PassType
  <2>7. \A r \in acc.unserviceable : \E i \in 1 .. n + 1 : es[i].r = r
    BY <1>1, <1>w
  <2>8. Passed(nxt, es, n + 1)
    BY <2>2, <2>3, <2>5, <2>6, <2>7, <1>6 DEF Passed
  <2> QED BY <2>5, <2>8 DEF u, t
<1>13. ProposedBlocks(e) > NumBlocks \/ ProposedBlocks(e) <= NumBlocks
  BY <1>5
<1> QED BY <1>10, <1>11, <1>12, <1>13

(* The pass before the first entry. *)
LEMMA NothingPassed ==
    ASSUME StepInv, NEW es
    PROVE  Passed(NothingChosen, es, 0)
<1> DEFINE t == NothingChosen.chosen
<1>1. t = <<>> /\ t \in Seq(EntryType) /\ Len(t) = 0
  BY DEF NothingChosen
<1>2. News(t) = {} /\ ChargedBy(t) = {}
  BY <1>1 DEF News, ChargedBy
<1>3. Cardinality(News(t)) = 0 /\ Cardinality(ChargedBy(t)) = 0
  BY <1>2, FS_EmptySet
<1>4. BlocksOf(t, Len(t)) = 0
  BY <1>1, BlocksOfFacts
<1>5. PickedFrom(t, es, 0)
  <2> DEFINE f == [k \in 1 .. 0 |-> 0]
  <2>1. 1 .. 0 = {} /\ f \in [1 .. 0 -> 1 .. 0]
    OBVIOUS
  <2> QED BY <2>1, <1>1 DEF PickedFrom
<1>6. Fits(t)
  <2>1. 1 .. Len(t) = {}
    BY <1>1
  <2> QED BY <2>1, <1>1, <1>3, <1>4, PlanNumbers DEF Fits
<1>7. NothingChosen \in PassType
  BY <1>1 DEF NothingChosen, PassType
<1>8. /\ NothingChosen.planned = 0 /\ NothingChosen.charged = {} /\ NothingChosen.new = 0
      /\ NothingChosen.unserviceable = {}
  BY DEF NothingChosen
<1> QED BY <1>2, <1>3, <1>4, <1>5, <1>6, <1>7, <1>8 DEF Passed

(* PlanStepResources is this pass. *)
LEMMA PlanIsPass ==
    ASSUME NEW es
    PROVE  PlanStepResources(es) = ConsiderFold!FoldedBy(Limit, Usable, NothingChosen, es)
BY DEF PlanStepResources, ConsiderFold!FoldedBy, FoldLeft, MapThenFoldSet,
   ConsiderFold!Greatest, Max, ConsiderStep, NothingChosen, Limit, Usable

(* The run of the pass over entries. *)
LEMMA PassRuns ==
    ASSUME StepInv, NEW n \in Nat, NEW es \in Seq(EntryType), Len(es) = n
    PROVE  \E h : /\ \A i \in 0 .. n : Passed(h[i], es, i)
                  /\ h[0] = NothingChosen /\ PlanStepResources(es) = h[n]
                  /\ \A i \in 1 .. n : h[i] = ConsiderStep(Limit, Usable, h[i - 1], es[i])
<1>1. DOMAIN es = 1 .. n
  OBVIOUS
<1>ind. ConsiderFold!Induction
  BY NatSetInduction DEF ConsiderFold!Induction
<1>2. PICK h : /\ ConsiderFold!FoldRun(Limit, Usable, h, NothingChosen, es, n)
               /\ ConsiderFold!FoldedBy(Limit, Usable, NothingChosen, es) = h[n]
  BY <1>ind, <1>1, ConsiderFold!FoldRuns
<1>3. /\ h[0] = NothingChosen
      /\ \A i \in 1 .. n : h[i] = ConsiderStep(Limit, Usable, h[i - 1], es[i])
  BY <1>2 DEF ConsiderFold!FoldRun
<1> DEFINE I == {i \in 0 .. n : Passed(h[i], es, i)}
<1>4. 0 \in I
  BY <1>3, NothingPassed
<1>5. ASSUME NEW i \in 0 .. n - 1, i \in I PROVE i + 1 \in I
  <2>1. i + 1 \in 1 .. n /\ i + 1 - 1 = i /\ i + 1 \in 0 .. n
    OBVIOUS
  <2>2. h[i + 1] = ConsiderStep(Limit, Usable, h[i], es[i + 1])
    BY <2>1, <1>3
  <2>3. Passed(h[i + 1], es, i + 1)
    BY <2>2, <1>5, ConsiderOne
  <2> QED BY <2>1, <2>3
<1> HIDE DEF I
<1>6. 0 .. n \subseteq I
  BY <1>4, <1>5, RangeInduction
<1>7. PlanStepResources(es) = h[n]
  BY <1>2, PlanIsPass
<1> QED BY <1>3, <1>6, <1>7 DEF I

(* What the pass has selected. *)
LEMMA PlanFacts ==
    ASSUME StepInv, NEW es \in Seq(EntryType)
    PROVE  Passed(PlanStepResources(es), es, Len(es))
<1>1. Len(es) \in Nat
  OBVIOUS
<1>2. PICK h : /\ \A i \in 0 .. Len(es) : Passed(h[i], es, i)
               /\ PlanStepResources(es) = h[Len(es)]
  BY <1>1, PassRuns
<1> QED BY <1>1, <1>2

(* An increasing function on 1 .. n is the identity. *)
LEMMA IncreasingIsIdentity ==
    ASSUME NEW n \in Nat, NEW f \in [1 .. n -> 1 .. n],
           \A k, m \in 1 .. n : k < m => f[k] < f[m]
    PROVE  \A k \in 1 .. n : f[k] = k
<1> DEFINE I == {k \in 0 .. n : k = 0 \/ f[k] >= k}
           J == {k \in 0 .. n : k = n \/ f[n - k] <= n - k}
<1>1. 0 .. n \subseteq I
  <2>1. 0 \in I
    OBVIOUS
  <2>2. ASSUME NEW k \in 0 .. n - 1, k \in I PROVE k + 1 \in I
    <3>1. k + 1 \in 1 .. n /\ f[k + 1] \in 1 .. n
      OBVIOUS
    <3>2. CASE k = 0
      BY <3>1, <3>2
    <3>3. CASE k # 0
      <4>1. k \in 1 .. n /\ f[k] \in 1 .. n /\ f[k] >= k /\ k < k + 1
        BY <3>3, <2>2
      <4>2. f[k] < f[k + 1]
        BY <3>1, <4>1
      <4> QED BY <3>1, <4>1, <4>2
    <3> QED BY <3>2, <3>3
  <2> HIDE DEF I
  <2> QED BY <2>1, <2>2, RangeInduction
<1>2. 0 .. n \subseteq J
  <2>1. 0 \in J
    <3>1. n = 0 \/ (n - 0 \in 1 .. n /\ f[n - 0] \in 1 .. n)
      OBVIOUS
    <3> QED BY <3>1
  <2>2. ASSUME NEW k \in 0 .. n - 1, k \in J PROVE k + 1 \in J
    <3> DEFINE p == n - k
               q == n - (k + 1)
    <3>1. p \in 1 .. n /\ f[p] \in 1 .. n /\ f[p] <= p /\ q = p - 1 /\ q \in 0 .. n
          /\ k + 1 \in 0 .. n /\ (q = 0 => k + 1 = n)
      BY <2>2
    <3>2. CASE q = 0
      BY <3>1, <3>2
    <3>3. CASE q # 0
      <4>1. q \in 1 .. n /\ f[q] \in 1 .. n /\ q < p
        BY <3>1, <3>3
      <4>2. f[q] < f[p]
        BY <3>1, <4>1
      <4>3. f[q] <= q
        BY <3>1, <4>1, <4>2
      <4> QED BY <3>1, <4>3
    <3> QED BY <3>2, <3>3
  <2> HIDE DEF J
  <2> QED BY <2>1, <2>2, RangeInduction
<1>3. ASSUME NEW k \in 1 .. n PROVE f[k] = k
  <2>1. f[k] >= k
    <3>1. k \in I
      BY <1>1
    <3> QED BY <3>1
  <2>2. f[k] <= k
    <3>1. n - k \in 0 .. n /\ n - (n - k) = k /\ n - k # n
      OBVIOUS
    <3>2. n - k \in J
      <4> HIDE DEF J
      <4> QED BY <3>1, <1>2
    <3> QED BY <3>1, <3>2
  <2>3. f[k] \in 1 .. n
    OBVIOUS
  <2> QED BY <2>1, <2>2, <2>3
<1> QED BY <1>3

(* New blocks only add up. *)
LEMMA BlocksOfGrow ==
    ASSUME StepInv, NEW t \in Seq(EntryType), NEW m \in 0 .. Len(t), NEW n \in m .. Len(t)
    PROVE  BlocksOf(t, m) <= BlocksOf(t, n)
<1> DEFINE l == Len(t) - m
           I == {k \in 0 .. l : BlocksOf(t, m) <= BlocksOf(t, m + k)}
<1>1. Len(t) \in Nat /\ l \in Nat /\ m \in Nat
  OBVIOUS
<1>2. /\ \A i \in 0 .. Len(t) : BlocksOf(t, i) \in Nat
      /\ \A i \in 1 .. Len(t) : BlocksOf(t, i) = BlocksOf(t, i - 1) + NewBlocks(t[i])
  BY BlocksOfFacts
<1>3. 0 \in I
  <2>1. m + 0 = m /\ 0 \in 0 .. l /\ BlocksOf(t, m) \in Nat
    BY <1>1, <1>2
  <2> QED BY <2>1
<1>4. ASSUME NEW k \in 0 .. l - 1, k \in I PROVE k + 1 \in I
  <2>1. /\ m + (k + 1) \in 1 .. Len(t) /\ m + (k + 1) - 1 = m + k /\ k + 1 \in 0 .. l
        /\ m + k \in 0 .. Len(t) /\ m + (k + 1) \in 0 .. Len(t)
    BY <1>1
  <2>2. BlocksOf(t, m + (k + 1)) = BlocksOf(t, m + k) + NewBlocks(t[m + (k + 1)])
    BY <2>1, <1>2
  <2>3. NewBlocks(t[m + (k + 1)]) \in Nat
    <3>1. t[m + (k + 1)] \in EntryType
      BY <2>1
    <3> QED BY <3>1, EntryBlocks
  <2>4. BlocksOf(t, m) \in Nat /\ BlocksOf(t, m + k) \in Nat /\ BlocksOf(t, m) <= BlocksOf(t, m + k)
    BY <2>1, <1>2, <1>4
  <2>5. BlocksOf(t, m) <= BlocksOf(t, m + (k + 1))
    BY <2>2, <2>3, <2>4
  <2> QED BY <2>1, <2>5
<1> HIDE DEF I
<1>5. 0 .. l \subseteq I
  BY <1>1, <1>3, <1>4, RangeInduction
<1>6. n - m \in 0 .. l /\ m + (n - m) = n
  BY <1>1
<1>7. n - m \in I
  BY <1>5, <1>6
<1> USE DEF I
<1> HIDE DEF l
<1> QED BY <1>6, <1>7

(* Fewer entries fit as well. *)
LEMMA PrefixFits ==
    ASSUME StepInv, NEW t \in Seq(EntryType), Fits(t), NEW u \in Seq(EntryType), NEW n \in Nat,
           Len(u) = n, n <= Len(t), \A k \in 1 .. n : u[k] = t[k]
    PROVE  Fits(u)
<1> DEFINE m == Len(t)
<1>1. m \in Nat /\ n <= m /\ \A k \in 1 .. n : k \in 1 .. m
  OBVIOUS
<1>2. BlocksOf(u, n) = BlocksOf(t, n) /\ BlocksOf(t, n) <= BlocksOf(t, m)
      /\ BlocksOf(t, n) \in Nat /\ BlocksOf(t, m) \in Nat
  <2>1. \A i \in 1 .. n : NewBlocks(t[i]) = NewBlocks(u[i])
    OBVIOUS
  <2>2. n <= Len(t) /\ n <= Len(u) /\ n \in 0 .. Len(t) /\ m \in n .. Len(t) /\ n \in 0 .. n
        /\ m \in 0 .. Len(t)
    BY <1>1
  <2>3. \A i \in 0 .. n : BlocksOf(t, i) = BlocksOf(u, i)
    BY <2>1, <2>2, SameBlocks
  <2>4. BlocksOf(t, n) <= BlocksOf(t, m)
    <3> HIDE DEF m
    <3> QED BY <2>2, BlocksOfGrow
  <2> QED BY <2>2, <2>3, <2>4, BlocksOfFacts
<1>3. ChargedBy(u) \subseteq ChargedBy(t) /\ ChargedBy(t) \subseteq ToSet(cache.reclaimable)
  BY <1>1 DEF ChargedBy, IsReclaimable
<1>4. /\ Cardinality(ChargedBy(u)) \in Nat /\ Cardinality(ChargedBy(t)) \in Nat
      /\ Cardinality(ChargedBy(u)) <= Cardinality(ChargedBy(t))
  BY <1>3, ChargedFinite, FS_Subset
<1>5. News(u) \subseteq News(t) /\ News(t) \subseteq 1 .. m
  BY <1>1 DEF News
<1>6. /\ Cardinality(News(u)) \in Nat /\ Cardinality(News(t)) \in Nat
      /\ Cardinality(News(u)) <= Cardinality(News(t))
  <2>1. IsFiniteSet(1 .. m)
    BY <1>1, FS_Interval
  <2>2. IsFiniteSet(News(t))
    BY <2>1, <1>5, FS_Subset
  <2>3. IsFiniteSet(News(u)) /\ Cardinality(News(u)) <= Cardinality(News(t))
    BY <2>2, <1>5, FS_Subset
  <2> QED BY <2>2, <2>3, FS_CardinalityType
<1>7. /\ Limit \in Nat /\ Usable \in Nat /\ Len(residents) \in Nat /\ MaxBatch \in Nat
  BY PlanNumbers
<1>8. Len(u) <= Limit /\ \A i \in 1 .. Len(u) : ProposedBlocks(u[i]) <= NumBlocks
  BY <1>1, <1>7 DEF Fits
<1>9. BlocksOf(u, Len(u)) + Cardinality(ChargedBy(u)) <= Usable
  <2>1. BlocksOf(t, m) + Cardinality(ChargedBy(t)) <= Usable
    BY DEF Fits
  <2> QED BY <2>1, <1>2, <1>4, <1>7
<1>10. ASSUME NEW i \in 1 .. Len(u), u[i].new PROVE Len(residents) + Cardinality(News(u)) <= MaxBatch
  <2>1. Len(residents) + Cardinality(News(t)) <= MaxBatch
    BY <1>1, <1>10 DEF Fits
  <2> QED BY <2>1, <1>6, <1>7
<1> QED BY <1>8, <1>9, <1>10 DEF Fits

(* The cache accepts entries whole exactly when it can serve them together. *)
LEMMA AcceptedFits ==
    ASSUME StepInv, NEW t \in Seq(EntryType)
    PROVE  Accepted(t) <=> Fits(t)
<1> DEFINE n == Len(t)
<1>1. n \in Nat /\ Len(t) = n /\ DOMAIN t = 1 .. n /\ \A i \in 1 .. n : t[i] \in EntryType
  OBVIOUS
<1> HIDE DEF n
<1>2. ASSUME Accepted(t) PROVE Fits(t)
  <2> DEFINE c == PlanStepResources(t).chosen
  <2>1. c \in Seq(EntryType) /\ PickedFrom(c, t, n) /\ Fits(c)
    BY <1>1, PlanFacts DEF Passed, PassType
  <2>2. Len(c) = n /\ DOMAIN c = 1 .. n
    BY <2>1, <1>1, <1>2 DEF Accepted
  <2> HIDE DEF c
  <2>3. PICK f \in [1 .. n -> 1 .. n] :
            /\ \A k, m \in 1 .. n : k < m => f[k] < f[m]
            /\ \A k \in 1 .. n : c[k] = t[f[k]]
    BY <2>1, <2>2 DEF PickedFrom
  <2>4. \A k \in 1 .. n : f[k] = k
    BY <2>3, <1>1, IncreasingIsIdentity
  <2>5. \A k \in 1 .. n : c[k] = t[k]
    BY <2>3, <2>4
  <2>6. n <= Len(c)
    BY <2>2, <1>1
  <2> QED BY <2>1, <2>2, <2>5, <2>6, <1>1, PrefixFits
<1>3. ASSUME Fits(t) PROVE Accepted(t)
  <2>1. PICK h : /\ \A i \in 0 .. n : Passed(h[i], t, i)
                 /\ h[0] = NothingChosen /\ PlanStepResources(t) = h[n]
                 /\ \A i \in 1 .. n : h[i] = ConsiderStep(Limit, Usable, h[i - 1], t[i])
    BY <1>1, PassRuns
  <2> DEFINE I == {i \in 0 .. n : Len(h[i].chosen) = i /\ \A k \in 1 .. i : h[i].chosen[k] = t[k]}
  <2>2. 0 \in I
    BY <2>1, <1>1 DEF NothingChosen
  <2>3. ASSUME NEW i \in 0 .. n - 1, i \in I PROVE i + 1 \in I
    <3> DEFINE c == h[i].chosen
               e == t[i + 1]
               u == Append(c, e)
    <3>1. i + 1 \in 1 .. n /\ i + 1 - 1 = i /\ i + 1 \in 0 .. n /\ i \in 0 .. n /\ i \in Nat
          /\ i + 1 <= n /\ i \in 0 .. Len(t) - 1
      BY <1>1
    <3>2. Passed(h[i], t, i) /\ h[i + 1] = ConsiderStep(Limit, Usable, h[i], e)
      BY <3>1, <2>1
    <3>3. c \in Seq(EntryType) /\ Len(c) = i /\ (\A k \in 1 .. i : c[k] = t[k]) /\ e \in EntryType
      BY <3>1, <3>2, <2>3, <1>1 DEF Passed, PassType
    <3>4. /\ u \in Seq(EntryType) /\ Len(u) = i + 1
          /\ \A k \in 1 .. i : u[k] = c[k]
          /\ u[i + 1] = e
      <4> HIDE DEF c, e
      <4> QED BY <3>3, AppendFacts
    <3>5. \A k \in 1 .. i + 1 : u[k] = t[k]
      <4>1. \A k \in 1 .. i + 1 : k \in 1 .. i \/ k = i + 1
        BY <3>1
      <4> HIDE DEF c, u
      <4> QED BY <4>1, <3>3, <3>4
    <3>6. Fits(u)
      <4> HIDE DEF c, e, u
      <4>1. i + 1 \in Nat /\ i + 1 <= Len(t)
        BY <3>1, <1>1
      <4> QED BY <4>1, <3>4, <3>5, <1>3, PrefixFits
    <3>7. h[i + 1].chosen = u
      <4> HIDE DEF I
      <4> QED BY <3>1, <3>2, <3>6, ConsiderOne
    <3> HIDE DEF c, e, u
    <3> QED BY <3>1, <3>4, <3>5, <3>7
  <2> HIDE DEF I
  <2>4. 0 .. n \subseteq I
    BY <2>2, <2>3, <1>1, RangeInduction
  <2> USE DEF I
  <2>5. Len(h[n].chosen) = n
    BY <2>4, <1>1
  <2> HIDE DEF I
  <2> QED BY <2>1, <2>5, <1>1 DEF Accepted
<1> QED BY <1>2, <1>3

---------------------------------------------------------------------------
(* The token budget of a step. *)

(* Candidates that have the decodes first are granted in their own order. *)
LEMMA OwnOrder ==
    ASSUME NEW n \in Nat, NEW w, Len(w) = n, DecodesFirst(w)
    PROVE  /\ DecodeFirstCandidateOrder(w) \in [1 .. n -> 1 .. n]
           /\ \A k \in 1 .. n : DecodeFirstCandidateOrder(w)[k] = k
<1> DEFINE o == DecodeFirstCandidateOrder(w)
<1>1. PICK m : IsOrder(o, w, n, m)
  BY OrderFacts
<1> HIDE DEF o
<1>2. /\ o \in [1 .. n -> 1 .. n] /\ m \in 0 .. n
      /\ \A k, l \in 1 .. n : o[k] = o[l] => k = l
      /\ \A k \in 1 .. m : ~w[o[k]].prefill
      /\ \A k \in m + 1 .. n : w[o[k]].prefill
      /\ \A k, l \in 1 .. m : k < l => o[k] < o[l]
      /\ \A k, l \in m + 1 .. n : k < l => o[k] < o[l]
  BY <1>1 DEF IsOrder
<1>3. ASSUME NEW k \in 1 .. n, NEW l \in 1 .. n, k < l PROVE o[k] < o[l]
  <2>1. o[k] \in 1 .. n /\ o[l] \in 1 .. n /\ o[k] # o[l]
    BY <1>2, <1>3
  <2>2. \/ k \in 1 .. m /\ l \in 1 .. m
        \/ k \in m + 1 .. n /\ l \in m + 1 .. n
        \/ k \in 1 .. m /\ l \in m + 1 .. n
    BY <1>2, <1>3
  <2>3. CASE k \in 1 .. m /\ l \in m + 1 .. n
    <3>1. ~w[o[k]].prefill /\ w[o[l]].prefill
      BY <2>3, <1>2
    <3>2. ~ (o[l] < o[k])
      BY <3>1, <2>1 DEF DecodesFirst
    <3> QED BY <3>2, <2>1
  <2> QED BY <2>2, <2>3, <1>2, <1>3
<1>4. \A k \in 1 .. n : o[k] = k
  BY <1>2, <1>3, IncreasingIsIdentity
<1> QED BY <1>2, <1>4 DEF o

(* Tokens an entry could use beyond its first. *)
Wanted(e) == ExtraTokensWanted(Wish(e))

(* Budget left once the first k entries have had their share. *)
Shares(rem, es, n) ==
    /\ rem \in [0 .. n -> Nat] /\ rem[0] = MaxScheduledTokens - n
    /\ \A i \in 1 .. n : rem[i] = rem[i - 1] - Smaller(Wanted(es[i]), rem[i - 1])

(* What is left of the budget, as a fold. *)
RemStep(w, order, x, k) == x - Smaller(ExtraTokensWanted(w[order[k]]), x)
RemFold == INSTANCE FoldLemmas WITH Op <- RemStep

(* rem is the budget left after each grant. *)
Allocates(rem, w, n, M) ==
    /\ rem \in [0 .. n -> Nat] /\ rem[0] = M - n
    /\ \A i \in 1 .. n : rem[i] = rem[i - 1] - Smaller(ExtraTokensWanted(w[i]), rem[i - 1])
    /\ AllocateDecodeFirstTokenBudget(w, M)
          = [i \in 1 .. n |-> 1 + Smaller(ExtraTokensWanted(w[i]), rem[i - 1])]

(* The grants of AllocateDecodeFirstTokenBudget. *)
LEMMA Allocation ==
    ASSUME NEW n \in Nat, NEW w, Len(w) = n, DecodesFirst(w), NEW M \in Nat, n <= M,
           \A i \in 1 .. n : ExtraTokensWanted(w[i]) \in Nat
    PROVE  \E rem : Allocates(rem, w, n, M)
<1> DEFINE o == DecodeFirstCandidateOrder(w)
           Solves(f) == f = [k \in 0 .. n |->
                            IF k = 0 THEN M - n
                            ELSE f[k - 1] - Smaller(ExtraTokensWanted(w[o[k]]), f[k - 1])]
           f == CHOOSE g : Solves(g)
           rank == [i \in 1 .. n |-> CHOOSE k \in 1 .. n : o[k] = i]
<1>1. AllocateDecodeFirstTokenBudget(w, M)
        = [i \in 1 .. n |-> 1 + Smaller(ExtraTokensWanted(w[o[rank[i]]]), f[rank[i] - 1])]
  BY DEF AllocateDecodeFirstTokenBudget, GrantOrder, SpareTokens
<1>2. o \in [1 .. n -> 1 .. n] /\ \A k \in 1 .. n : o[k] = k
  BY OwnOrder
<1>3. Solves(f)
  <2>ind. RemFold!Induction
    BY NatSetInduction DEF RemFold!Induction
  <2>1. PICK g : RemFold!Recursion(w, o, g, M - n, n)
    BY <2>ind, RemFold!RecursionExists
  <2>2. Solves(g)
    BY <2>1 DEF RemFold!Recursion, RemStep
  <2> HIDE DEF Solves
  <2> QED BY <2>2
<1> HIDE DEF o, f
<1>4. DOMAIN f = 0 .. n /\ f = [k \in 0 .. n |-> f[k]] /\ f[0] = M - n
  <2>1. 0 \in 0 .. n
    OBVIOUS
  <2> QED BY <2>1, <1>3
<1>5. \A i \in 1 .. n : f[i] = f[i - 1] - Smaller(ExtraTokensWanted(w[i]), f[i - 1])
  <2>1. \A i \in 1 .. n : i \in 0 .. n /\ i # 0
    OBVIOUS
  <2>2. \A i \in 1 .. n : f[i] = f[i - 1] - Smaller(ExtraTokensWanted(w[o[i]]), f[i - 1])
    BY <2>1, <1>3
  <2> QED BY <2>2, <1>2
<1> HIDE DEF Solves
<1>6. \A i \in 1 .. n : rank[i] = i
  BY <1>2
<1> HIDE DEF rank
<1>7. AllocateDecodeFirstTokenBudget(w, M)
        = [i \in 1 .. n |-> 1 + Smaller(ExtraTokensWanted(w[i]), f[i - 1])]
  BY <1>1, <1>2, <1>6
<1> DEFINE I == {i \in 0 .. n : f[i] \in Nat}
<1>8. 0 .. n \subseteq I
  <2>1. 0 \in I
    BY <1>4
  <2>2. ASSUME NEW i \in 0 .. n - 1, i \in I PROVE i + 1 \in I
    <3>1. i + 1 \in 1 .. n /\ i + 1 - 1 = i /\ i + 1 \in 0 .. n
      OBVIOUS
    <3>2. /\ f[i + 1] = f[i] - Smaller(ExtraTokensWanted(w[i + 1]), f[i]) /\ f[i] \in Nat
          /\ ExtraTokensWanted(w[i + 1]) \in Nat
      BY <3>1, <1>5, <2>2
    <3>3. f[i + 1] \in Nat
      BY <3>2 DEF Smaller
    <3> QED BY <3>1, <3>3
  <2> HIDE DEF I
  <2> QED BY <2>1, <2>2, RangeInduction
<1>9. f \in [0 .. n -> Nat]
  BY <1>4, <1>8
<1>10. Allocates(f, w, n, M)
  BY <1>4, <1>5, <1>7, <1>9 DEF Allocates
<1> QED BY <1>10

(* e is es but for the tokens it is fed: a prefill gets a part of its      *)
(* chunk, a decode one token and drafts.                                   *)
FedAs(e, f) ==
    /\ e \in EntryType /\ e.r = f.r /\ e.new = f.new /\ e.prefill = f.prefill
    /\ e.match = f.match /\ e.base = f.base
    /\ IF e.prefill THEN e.d = 0 /\ e.n \in 1 .. 1 + Wanted(f)
       ELSE e.n = 1 + e.d /\ e.d \in 0 .. Wanted(f)

(* The plan t feeds the entries es, each at least one token. *)
Feeds(t, es) ==
    t \in Seq(EntryType) /\ Len(t) = Len(es) /\ \A i \in 1 .. Len(es) : FedAs(t[i], es[i])

(* What an entry could use besides its one token. *)
LEMMA WantedFacts ==
    ASSUME StepInv, NEW e \in EntryType, EntryOK(e), IsOffer(e)
    PROVE  /\ Wanted(e) \in Nat
           /\ e.prefill => e.base + 1 + Wanted(e) <= Len(req[e.r].tokens)
           /\ ~e.prefill => Wanted(e) <= Len(req[e.r].drafts) /\ Wanted(e) <= MaxDrafts
<1> DEFINE q == req[e.r]
<1>1. e.r \in Requests /\ e.base \in Nat /\ e.base < Len(q.tokens) /\ e.prefill \in BOOLEAN
  BY DEF EntryType, IsOffer
<1>2. Len(q.tokens) \in Nat /\ Len(q.drafts) \in Nat
  BY <1>1 DEF StepInv, RequestsOK, RequestType
<1>3. PrefillChunk \in Nat /\ MaxDrafts \in Nat
  BY ConfigFacts DEF StepInv
<1> HIDE DEF q
<1>4. CASE e.prefill
  <2>1. Wanted(e) = (IF PrefillChunk # 0 THEN Smaller(Len(q.tokens) - e.base, PrefillChunk)
                     ELSE Len(q.tokens) - e.base) - 1
    BY <1>4 DEF Wanted, ExtraTokensWanted, Wish, q
  <2>2. Wanted(e) \in Nat /\ e.base + 1 + Wanted(e) <= Len(q.tokens)
    BY <2>1, <1>1, <1>2, <1>3 DEF Smaller
  <2> QED BY <2>2, <1>4 DEF q
<1>5. CASE ~e.prefill
  <2>1. Wanted(e) = Smaller(Len(q.drafts), MaxDrafts)
    BY <1>5 DEF Wanted, ExtraTokensWanted, Wish, q
  <2>2. Wanted(e) \in Nat /\ Wanted(e) <= Len(q.drafts) /\ Wanted(e) <= MaxDrafts
    BY <2>1, <1>2, <1>3 DEF Smaller
  <2> QED BY <2>2, <1>5 DEF q
<1> QED BY <1>4, <1>5

(* What Budgeted gives its entries. *)
LEMMA BudgetedFacts ==
    ASSUME StepInv, NEW n \in Nat, NEW es, Offers(es), Len(es) = n, DecodesFirst(es),
           n <= MaxScheduledTokens, NEW t, t = Budgeted(es)
    PROVE  /\ Feeds(t, es)
           /\ \E rem : /\ Shares(rem, es, n)
                       /\ \A i \in 1 .. n : t[i].n = 1 + Smaller(Wanted(es[i]), rem[i - 1])
<1> DEFINE w == [i \in 1 .. n |-> Wish(es[i])]
           M == MaxScheduledTokens
           a == AllocateDecodeFirstTokenBudget(w, M)
<1>1. /\ es \in Seq(EntryType) /\ DOMAIN es = 1 .. n
      /\ \A i \in 1 .. n : es[i] \in EntryType /\ EntryOK(es[i]) /\ IsOffer(es[i])
  BY DEF Offers, EntriesOK
<1>2. M \in Nat
  BY ConfigFacts DEF StepInv
<1>3. t = [i \in 1 .. n |-> [es[i] EXCEPT !.n = a[i],
                                          !.d = IF es[i].prefill THEN 0 ELSE a[i] - 1]]
  BY <1>1 DEF Budgeted
<1>4. /\ \A i \in 1 .. n : w[i] = Wish(es[i]) /\ w[i].prefill = es[i].prefill
      /\ DOMAIN w = 1 .. n /\ Len(w) = n
  <2>1. \A i \in 1 .. n : Wish(es[i]).prefill = es[i].prefill
    BY DEF Wish
  <2>2. DOMAIN w = 1 .. n /\ w \in Seq({Wish(es[i]) : i \in 1 .. n}) /\ Len(w) = n
    <3>1. w \in [1 .. n -> {Wish(es[i]) : i \in 1 .. n}]
      OBVIOUS
    <3> HIDE DEF w
    <3> QED BY <3>1, FunctionIsSeq
  <2> QED BY <2>1, <2>2
<1> HIDE DEF w, M
<1>5. DecodesFirst(w)
  BY <1>4 DEF DecodesFirst
<1>6. \A i \in 1 .. n : ExtraTokensWanted(w[i]) = Wanted(es[i]) /\ Wanted(es[i]) \in Nat
  BY <1>1, <1>4, WantedFacts DEF Wanted
<1>a. PICK rem : Allocates(rem, w, n, M)
  <2>1. n <= M
    BY DEF M
  <2>2. \A i \in 1 .. n : ExtraTokensWanted(w[i]) \in Nat
    BY <1>6
  <2> QED BY <2>1, <2>2, <1>2, <1>4, <1>5, Allocation
<1>7. /\ rem \in [0 .. n -> Nat] /\ rem[0] = M - n
      /\ \A i \in 1 .. n : rem[i] = rem[i - 1] - Smaller(ExtraTokensWanted(w[i]), rem[i - 1])
      /\ a = [i \in 1 .. n |-> 1 + Smaller(ExtraTokensWanted(w[i]), rem[i - 1])]
  BY <1>a DEF Allocates
<1> HIDE DEF a
<1>8. \A i \in 1 .. n : rem[i] = rem[i - 1] - Smaller(Wanted(es[i]), rem[i - 1])
  BY <1>6, <1>7
<1>9. Shares(rem, es, n)
  BY <1>7, <1>8 DEF Shares, M
<1>10. ASSUME NEW i \in 1 .. n
       PROVE  /\ a[i] = 1 + Smaller(Wanted(es[i]), rem[i - 1]) /\ a[i] \in 1 .. 1 + Wanted(es[i])
  <2>1. a[i] = 1 + Smaller(Wanted(es[i]), rem[i - 1])
    BY <1>6, <1>7
  <2>2. i - 1 \in 0 .. n
    OBVIOUS
  <2>3. rem[i - 1] \in Nat /\ Wanted(es[i]) \in Nat
    BY <2>2, <1>6, <1>7
  <2> QED BY <2>1, <2>3 DEF Smaller
<1>11. ASSUME NEW i \in 1 .. n
       PROVE  FedAs(t[i], es[i]) /\ t[i].n = 1 + Smaller(Wanted(es[i]), rem[i - 1])
  <2> DEFINE f == es[i]
             d == IF f.prefill THEN 0 ELSE a[i] - 1
             e == t[i]
             x == a[i]
  <2>1. e = [f EXCEPT !.n = x, !.d = d] /\ f \in EntryType
    BY <1>1, <1>3
  <2>2. x \in 1 .. 1 + Wanted(f) /\ Wanted(f) \in Nat /\ x \in Nat
    BY <1>6, <1>10
  <2>3. f.prefill \in BOOLEAN
    BY <2>1 DEF EntryType
  <2>4. d \in Nat /\ (f.prefill => d = 0) /\ (~f.prefill => x = 1 + d /\ d \in 0 .. Wanted(f))
    <3> HIDE DEF f
    <3> QED BY <2>2, <2>3
  <2> HIDE DEF f, d, e, x
  <2>5. e = [r |-> f.r, new |-> f.new, prefill |-> f.prefill, match |-> f.match,
             base |-> f.base, n |-> x, d |-> d]
    BY <2>1 DEF EntryType
  <2>6. e \in EntryType
    BY <2>1, <2>2, <2>4, <2>5 DEF EntryType
  <2>7. FedAs(e, f)
    BY <2>2, <2>4, <2>5, <2>6 DEF FedAs
  <2>8. e.n = x
    BY <2>5
  <2> QED BY <2>7, <2>8, <1>10 DEF e, f, x
<1>12. t \in Seq(EntryType) /\ Len(t) = n
  <2>1. DOMAIN t = 1 .. n /\ t = [i \in 1 .. n |-> t[i]]
    BY <1>3
  <2>2. t \in [1 .. n -> EntryType]
    BY <2>1, <1>11 DEF FedAs
  <2> QED BY <2>2, FunctionIsSeq
<1> QED BY <1>9, <1>11, <1>12 DEF Feeds

(* An entry that is fed its share is as good as the one it was offered as, *)
(* and without drafts it needs the same blocks.                            *)
LEMMA FedFacts ==
    ASSUME StepInv, NEW f \in EntryType, EntryOK(f), IsOffer(f), NEW e, FedAs(e, f)
    PROVE  /\ EntryOK(e) /\ HeldBlocks(e) = HeldBlocks(f) /\ e.d <= MaxDrafts /\ e.d \in Nat
           /\ e.d = 0 => NewBlocks(e) = NewBlocks(f) /\ ProposedBlocks(e) = ProposedBlocks(f)
<1> DEFINE L == Len(req[f.r].tokens)
           D == Len(req[f.r].drafts)
<1>1. /\ e \in EntryType /\ e.r = f.r /\ e.new = f.new /\ e.prefill = f.prefill
      /\ e.match = f.match /\ e.base = f.base
      /\ IF e.prefill THEN e.d = 0 /\ e.n \in 1 .. 1 + Wanted(f)
         ELSE e.n = 1 + e.d /\ e.d \in 0 .. Wanted(f)
  BY DEF FedAs
<1>2. /\ Wanted(f) \in Nat
      /\ f.prefill => f.base + 1 + Wanted(f) <= L
      /\ ~f.prefill => Wanted(f) <= D /\ Wanted(f) <= MaxDrafts
  BY WantedFacts
<1>3. /\ f.r \in Requests /\ f.base \in Nat /\ f.prefill \in BOOLEAN /\ e.n \in Nat /\ e.d \in Nat
      /\ f.n = 1 /\ f.base < L
  BY <1>1 DEF EntryType, IsOffer
<1>4. L \in Nat /\ D \in Nat
  BY <1>3 DEF StepInv, RequestsOK, RequestType
<1>5. MaxDrafts \in Nat
  BY ConfigFacts DEF StepInv
<1> HIDE DEF L, D
<1>6. e.d < e.n /\ e.d <= D /\ e.base + e.n - e.d <= L /\ e.d <= MaxDrafts
      /\ (e.d = 0 => e.base + e.n <= L)
  <2>1. CASE f.prefill
    <3>1. e.d = 0 /\ e.n >= 1 /\ e.n <= 1 + Wanted(f) /\ f.base + 1 + Wanted(f) <= L
      BY <2>1, <1>1, <1>2
    <3> QED BY <3>1, <1>1, <1>2, <1>3, <1>4, <1>5
  <2>2. CASE ~f.prefill
    <3>1. e.n = 1 + e.d /\ e.d <= Wanted(f) /\ Wanted(f) <= D /\ Wanted(f) <= MaxDrafts
      BY <2>2, <1>1, <1>2
    <3> QED BY <3>1, <1>1, <1>2, <1>3, <1>4, <1>5
  <2> QED BY <2>1, <2>2, <1>3
<1>7. EntryOK(e)
  <2>1. e.base + e.n - e.d <= Len(req[e.r].tokens) /\ e.d <= Len(req[e.r].drafts)
    BY <1>1, <1>6 DEF L, D
  <2> QED BY <2>1, <1>1, <1>6 DEF EntryOK
<1>8. HeldBlocks(e) = HeldBlocks(f)
  BY <1>1 DEF HeldBlocks
<1>9. ASSUME e.d = 0 PROVE NewBlocks(e) = NewBlocks(f) /\ ProposedBlocks(e) = ProposedBlocks(f)
  <2>1. Slots(e) = L /\ Slots(f) = L
    <3>1. e.base + e.n <= L /\ f.base + f.n <= L /\ e.base + e.n \in Nat /\ f.base + f.n \in Nat
      BY <1>1, <1>3, <1>4, <1>6, <1>9
    <3>2. Larger(L, e.base + e.n) = L /\ Larger(L, f.base + f.n) = L
      BY <3>1, <1>4 DEF Larger
    <3> QED BY <3>2, <1>1 DEF Slots, L
  <2>2. NewBlocks(e) = BlocksNeeded(Larger(Slots(e) - HeldBlocks(e) * BlockSize, 0))
        /\ ProposedBlocks(e) = NewBlocks(e) + HeldBlocks(e)
    BY <1>1, EntryBlocks
  <2>3. NewBlocks(f) = BlocksNeeded(Larger(Slots(f) - HeldBlocks(f) * BlockSize, 0))
        /\ ProposedBlocks(f) = NewBlocks(f) + HeldBlocks(f)
    BY EntryBlocks
  <2> QED BY <2>1, <2>2, <2>3, <1>8
<1> QED BY <1>3, <1>6, <1>7, <1>8, <1>9

(* Entries that are fed their shares can be planned. *)
LEMMA FeedsFacts ==
    ASSUME StepInv, NEW n \in Nat, NEW es, Offers(es), Len(es) = n, NEW t, Feeds(t, es)
    PROVE  /\ EntriesOK(t) /\ Len(t) = n
           /\ (\A i \in 1 .. n : t[i].d = 0) /\ Fits(es) => Fits(t)
<1>1. /\ es \in Seq(EntryType) /\ DOMAIN es = 1 .. n /\ DistinctRequests(es)
      /\ \A i \in 1 .. n : /\ es[i] \in EntryType /\ EntryOK(es[i]) /\ IsOffer(es[i])
                           /\ Chained(cache, req[es[i].r].tokens, es[i].match)
  BY DEF Offers, EntriesOK
<1>2. /\ t \in Seq(EntryType) /\ Len(t) = n /\ DOMAIN t = 1 .. n
      /\ \A i \in 1 .. n : FedAs(t[i], es[i])
  BY DEF Feeds
<1>3. \A i \in 1 .. n : /\ t[i].r = es[i].r /\ t[i].match = es[i].match /\ t[i].new = es[i].new
                        /\ t[i] \in EntryType
  BY <1>2 DEF FedAs
<1>4. EntriesOK(t)
  <2>1. \A i \in 1 .. n : EntryOK(t[i])
    BY <1>1, <1>2, FedFacts
  <2>2. DistinctRequests(t)
    BY <1>1, <1>2, <1>3 DEF DistinctRequests
  <2> QED BY <2>1, <2>2, <1>1, <1>2, <1>3 DEF EntriesOK
<1>5. ASSUME \A i \in 1 .. n : t[i].d = 0, Fits(es) PROVE Fits(t)
  <2>1. \A i \in 1 .. n : NewBlocks(t[i]) = NewBlocks(es[i]) /\ ProposedBlocks(t[i]) = ProposedBlocks(es[i])
    BY <1>1, <1>2, <1>5, FedFacts
  <2>2. BlocksOf(t, n) = BlocksOf(es, n)
    <3>1. n <= Len(t) /\ n <= Len(es) /\ n \in 0 .. n
      BY <1>2
    <3>2. \A i \in 0 .. n : BlocksOf(t, i) = BlocksOf(es, i)
      BY <3>1, <2>1, <1>1, <1>2, SameBlocks
    <3> QED BY <3>1, <3>2
  <2>3. News(t) = News(es)
    BY <1>2, <1>3 DEF News
  <2>4. ChargedBy(t) = ChargedBy(es)
    <3>1. UNION {ToSet(t[i].match) : i \in 1 .. n} = UNION {ToSet(es[i].match) : i \in 1 .. n}
      BY <1>3
    <3> QED BY <3>1, <1>2 DEF ChargedBy
  <2> QED BY <2>1, <2>2, <2>3, <2>4, <1>2, <1>3, <1>5 DEF Fits
<1> QED BY <1>2, <1>4, <1>5

(* The drafts of the entries, as places in the plan. *)
Drafts(t, n) == {w \in (1 .. n) \X (1 .. MaxDrafts) : w[2] <= t[w[1]].d}

(* t has no more drafts than s, and the same prefills. *)
FewerThan(t, s, n) == \A i \in 1 .. n : t[i] = s[i] \/ (~s[i].prefill /\ t[i].n < s[i].n)

(* There are as many drafts as entries allow. *)
LEMMA DraftsFinite ==
    ASSUME StepInv, NEW n \in Nat, NEW t
    PROVE  /\ IsFiniteSet(Drafts(t, n)) /\ Cardinality(Drafts(t, n)) \in Nat
           /\ n * MaxDrafts \in Nat /\ Cardinality(Drafts(t, n)) <= n * MaxDrafts
<1>1. MaxDrafts \in Nat
  BY ConfigFacts DEF StepInv
<1>2. /\ IsFiniteSet(1 .. n) /\ Cardinality(1 .. n) = n
      /\ IsFiniteSet(1 .. MaxDrafts) /\ Cardinality(1 .. MaxDrafts) = MaxDrafts
  <2>1. ASSUME NEW m \in Nat PROVE IsFiniteSet(1 .. m) /\ Cardinality(1 .. m) = m
    <3>1. IsFiniteSet(1 .. m) /\ Cardinality(1 .. m) = IF 1 > m THEN 0 ELSE m - 1 + 1
      BY FS_Interval
    <3> QED BY <3>1
  <2> QED BY <2>1, <1>1
<1>3. /\ IsFiniteSet((1 .. n) \X (1 .. MaxDrafts))
      /\ Cardinality((1 .. n) \X (1 .. MaxDrafts)) = n * MaxDrafts
  <2> DEFINE A == 1 .. n
             B == 1 .. MaxDrafts
  <2>1. IsFiniteSet(A) /\ IsFiniteSet(B) /\ Cardinality(A) = n /\ Cardinality(B) = MaxDrafts
    BY <1>2
  <2> HIDE DEF A, B
  <2>2. IsFiniteSet(A \X B) /\ Cardinality(A \X B) = Cardinality(A) * Cardinality(B)
    BY <2>1, FS_Product
  <2>3. IsFiniteSet(A \X B) /\ Cardinality(A \X B) = n * MaxDrafts
    BY <2>1, <2>2
  <2> QED BY <2>3 DEF A, B
<1>4. Drafts(t, n) \subseteq (1 .. n) \X (1 .. MaxDrafts)
  BY DEF Drafts
<1>5. IsFiniteSet(Drafts(t, n)) /\ Cardinality(Drafts(t, n)) <= n * MaxDrafts
  BY <1>3, <1>4, FS_Subset
<1> QED BY <1>1, <1>5, FS_CardinalityType

(* One round of taking drafts away. *)
LEMMA ReduceFacts ==
    ASSUME StepInv, NEW n \in Nat, NEW es, Offers(es), Len(es) = n, NEW t, Feeds(t, es),
           NEW kept, NEW u, u = ReduceDrafts(t, kept)
    PROVE  /\ Feeds(u, es) /\ FewerThan(u, t, n)
           /\ (\E i \in 1 .. n : t[i].d # 0) =>
                Cardinality(Drafts(u, n)) < Cardinality(Drafts(t, n))
<1> DEFINE left == {i \in 1 .. n : t[i].d # 0 /\
                        \A k \in DOMAIN kept : kept[k].r # t[i].r}
           drafting == {i \in 1 .. n : t[i].d # 0}
           cut == IF left # {} THEN left
                  ELSE {i \in drafting : \A j \in drafting : j <= i}
<1>1. /\ t \in Seq(EntryType) /\ Len(t) = n /\ DOMAIN t = 1 .. n
      /\ \A i \in 1 .. n : FedAs(t[i], es[i])
      /\ \A i \in 1 .. n : t[i] \in EntryType
  BY DEF Feeds
<1>2. u = [i \in 1 .. n |-> IF i \in cut THEN FewerDrafts(t[i]) ELSE t[i]]
  BY <1>1 DEF ReduceDrafts
<1>3. cut \subseteq drafting /\ drafting \subseteq 1 .. n
  OBVIOUS
<1>4. ASSUME drafting # {} PROVE cut # {}
  <2>1. CASE left # {}
    BY <2>1
  <2>2. CASE left = {}
    <3> DEFINE T == {n - i : i \in drafting}
    <3>1. T \in SUBSET Nat /\ T # {}
      BY <1>4
    <3>2. PICK k \in T : \A m \in T : k <= m
      <4> HIDE DEF T
      <4> QED BY <3>1, NatLeast
    <3>3. PICK i \in drafting : k = n - i
      OBVIOUS
    <3>4. ASSUME NEW j \in drafting PROVE j <= i
      <4>1. i \in 1 .. n /\ j \in 1 .. n /\ n - j \in T
        OBVIOUS
      <4>2. n - i <= n - j
        BY <3>2, <3>3, <4>1
      <4> QED BY <4>1, <4>2
    <3>5. i \in cut
      BY <2>2, <3>4
    <3> QED BY <3>5
  <2> QED BY <2>1, <2>2
<1>5. \A i \in drafting : t[i].d # 0
  OBVIOUS
<1>6. \A i \in 1 .. n : t[i].d # 0 => i \in drafting
  OBVIOUS
<1> HIDE DEF cut, drafting, left
<1>7. /\ \A i \in cut : u[i] = FewerDrafts(t[i])
      /\ \A i \in (1 .. n) \ cut : u[i] = t[i]
      /\ DOMAIN u = 1 .. n /\ u = [i \in 1 .. n |-> u[i]]
  BY <1>2, <1>3
<1>8. ASSUME NEW i \in cut
      PROVE  /\ FedAs(u[i], es[i]) /\ ~t[i].prefill /\ u[i].n < t[i].n /\ u[i].d = t[i].d - 1
             /\ t[i].d \in Nat \ {0}
  <2> DEFINE e == t[i]
             f == es[i]
             g == u[i]
  <2>0. i \in 1 .. n /\ e.d # 0 /\ FedAs(e, f) /\ EntryOK(f) /\ IsOffer(f) /\ f \in EntryType
    <3>1. i \in 1 .. n /\ i \in drafting
      BY <1>3
    <3> QED BY <3>1, <1>1, <1>5 DEF Offers, EntriesOK
  <2>1. Wanted(f) \in Nat
    BY <2>0, WantedFacts
  <2>2. g = [e EXCEPT !.n = e.n - 1, !.d = e.d - 1]
    BY <1>7 DEF FewerDrafts
  <2> HIDE DEF e, f, g
  <2>3. /\ e \in EntryType /\ e.r = f.r /\ e.new = f.new /\ e.prefill = f.prefill
        /\ e.match = f.match /\ e.base = f.base /\ ~e.prefill
        /\ e.n = 1 + e.d /\ e.d \in 0 .. Wanted(f) /\ e.d # 0
    BY <2>0 DEF FedAs
  <2>4. e.d \in Nat \ {0} /\ e.d - 1 \in 0 .. Wanted(f) /\ e.n - 1 = 1 + (e.d - 1) /\ e.n - 1 < e.n
        /\ e.n - 1 \in Nat /\ e.d - 1 \in Nat
    BY <2>1, <2>3
  <2>5. g = [r |-> e.r, new |-> e.new, prefill |-> e.prefill, match |-> e.match,
             base |-> e.base, n |-> e.n - 1, d |-> e.d - 1]
    BY <2>2, <2>3 DEF EntryType
  <2>6. g \in EntryType
    BY <2>3, <2>4, <2>5 DEF EntryType
  <2>7. FedAs(g, f)
    BY <2>3, <2>4, <2>5, <2>6 DEF FedAs
  <2> QED BY <2>3, <2>4, <2>5, <2>7 DEF e, f, g
<1>9. \A i \in 1 .. n : FedAs(u[i], es[i])
  BY <1>1, <1>7, <1>8
<1>10. Feeds(u, es)
  <2>1. u \in [1 .. n -> EntryType]
    BY <1>7, <1>9 DEF FedAs
  <2>2. u \in Seq(EntryType) /\ Len(u) = n
    BY <2>1, FunctionIsSeq
  <2> QED BY <2>2, <1>9 DEF Feeds
<1>11. FewerThan(u, t, n)
  BY <1>7, <1>8 DEF FewerThan
<1>12. ASSUME NEW i \in 1 .. n, t[i].d # 0
       PROVE  Cardinality(Drafts(u, n)) < Cardinality(Drafts(t, n))
  <2>1. PICK j \in cut : TRUE
    BY <1>4, <1>6, <1>12
  <2>2. j \in 1 .. n /\ u[j].d = t[j].d - 1 /\ t[j].d \in Nat \ {0} /\ FedAs(t[j], es[j])
    BY <1>1, <1>3, <1>8
  <2>3. t[j].d <= MaxDrafts /\ MaxDrafts \in Nat
    <3>1. EntryOK(es[j]) /\ IsOffer(es[j]) /\ es[j] \in EntryType
      BY <2>2 DEF Offers, EntriesOK
    <3> QED BY <3>1, <2>2, FedFacts, ConfigFacts DEF StepInv
  <2>4. Drafts(u, n) \subseteq Drafts(t, n)
    <3> SUFFICES ASSUME NEW k \in 1 .. n, NEW m \in 1 .. MaxDrafts, m <= u[k].d PROVE m <= t[k].d
      BY DEF Drafts
    <3>1. CASE k \in cut
      BY <3>1, <1>8, <2>3
    <3>2. CASE k \notin cut
      BY <3>2, <1>7
    <3> QED BY <3>1, <3>2
  <2>5. <<j, t[j].d>> \in Drafts(t, n)
    BY <2>2, <2>3 DEF Drafts
  <2>6. <<j, t[j].d>> \notin Drafts(u, n)
    BY <2>2 DEF Drafts
  <2>7. Drafts(u, n) # Drafts(t, n)
    BY <2>5, <2>6
  <2>8. IsFiniteSet(Drafts(t, n)) /\ Cardinality(Drafts(t, n)) \in Nat
        /\ Cardinality(Drafts(u, n)) \in Nat
    BY DraftsFinite
  <2>9. Cardinality(Drafts(u, n)) <= Cardinality(Drafts(t, n))
        /\ (Cardinality(Drafts(u, n)) = Cardinality(Drafts(t, n)) => Drafts(u, n) = Drafts(t, n))
    BY <2>4, <2>8, FS_Subset
  <2> QED BY <2>7, <2>8, <2>9
<1> QED BY <1>10, <1>11, <1>12

(* One round of fitting the drafts, as a fold. *)
FitStep(u, v, t, k) ==
    IF Accepted(t) THEN t ELSE ReduceDrafts(t, PlanStepResources(t).chosen)
FitFold == INSTANCE FoldLemmas WITH Op <- FitStep

(* Entries with no drafts are accepted like the ones they were offered as. *)
LEMMA Undrafted ==
    ASSUME StepInv, NEW n \in Nat, NEW es, Offers(es), Len(es) = n, Fits(es), NEW t, Feeds(t, es),
           ~Accepted(t)
    PROVE  \E i \in 1 .. n : t[i].d # 0
<1>1. t \in Seq(EntryType)
  BY DEF Feeds
<1>2. ~Fits(t)
  BY <1>1, AcceptedFits
<1> QED BY <1>2, FeedsFacts

(* Fewer drafts, in two steps. *)
LEMMA FewerTwice ==
    ASSUME NEW n \in Nat, NEW r, NEW s, NEW t, FewerThan(t, s, n), FewerThan(s, r, n),
           \A i \in 1 .. n : r[i].n \in Nat /\ s[i].n \in Nat /\ t[i].n \in Nat
                             /\ s[i].prefill = r[i].prefill
    PROVE  FewerThan(t, r, n)
BY DEF FewerThan

(* Taking drafts away ends with a plan that the cache accepts whole. *)
LEMMA FitDraftsFacts ==
    ASSUME StepInv, NEW n \in Nat, NEW es, Offers(es), Len(es) = n, Fits(es), NEW t, Feeds(t, es),
           NEW u, u = FitDrafts(t)
    PROVE  Feeds(u, es) /\ Accepted(u) /\ FewerThan(u, t, n) /\ (u # t => ~Accepted(t))
<1> DEFINE R == n * MaxDrafts
           Solves(f) == f = [k \in 0 .. R |->
                            IF k = 0 THEN t
                            ELSE IF Accepted(f[k - 1]) THEN f[k - 1]
                            ELSE ReduceDrafts(f[k - 1], PlanStepResources(f[k - 1]).chosen)]
           f == CHOOSE g : Solves(g)
<1>0. Len(t) = n
  BY DEF Feeds
<1>1. u = f[R]
  BY <1>0 DEF FitDrafts
<1>2. R \in Nat
  BY DraftsFinite
<1> HIDE DEF R
<1>3. Solves(f)
  <2>ind. FitFold!Induction
    BY NatSetInduction DEF FitFold!Induction
  <2>1. PICK g : FitFold!Recursion(0, 0, g, t, R)
    BY <2>ind, <1>2, FitFold!RecursionExists
  <2>2. Solves(g)
    BY <2>1 DEF FitFold!Recursion, FitStep
  <2> HIDE DEF Solves
  <2> QED BY <2>2
<1> HIDE DEF f
<1>4. f[0] = t
  <2>1. 0 \in 0 .. R
    BY <1>2
  <2> QED BY <2>1, <1>3
<1>5. \A k \in 1 .. R : f[k] = IF Accepted(f[k - 1]) THEN f[k - 1]
                              ELSE ReduceDrafts(f[k - 1], PlanStepResources(f[k - 1]).chosen)
  <2>1. \A k \in 1 .. R : k \in 0 .. R /\ k # 0
    BY <1>2
  <2> QED BY <2>1, <1>3
<1> HIDE DEF Solves
<1>6. \A x : Cardinality(Drafts(x, n)) \in Nat /\ Cardinality(Drafts(x, n)) <= R
  BY DraftsFinite DEF R
<1>7. \A x : Feeds(x, es) => \A i \in 1 .. n : x[i].n \in Nat /\ x[i].prefill = es[i].prefill
  BY DEF Feeds, FedAs, EntryType
<1> DEFINE Good(x, k) == /\ Feeds(x, es) /\ FewerThan(x, t, n) /\ (x # t => ~Accepted(t))
                         /\ Accepted(x) \/ Cardinality(Drafts(x, n)) <= R - k
           I == {k \in 0 .. R : Good(f[k], k)}
<1>8. 0 \in I
  <2>1. FewerThan(t, t, n)
    BY DEF FewerThan
  <2>2. Cardinality(Drafts(t, n)) <= R - 0
    BY <1>2, <1>6
  <2> QED BY <2>1, <2>2, <1>2, <1>4
<1>9. ASSUME NEW k \in 0 .. R - 1, k \in I PROVE k + 1 \in I
  <2> DEFINE x == f[k]
             y == f[k + 1]
  <2>0. k + 1 \in 1 .. R /\ k + 1 - 1 = k /\ k + 1 \in 0 .. R /\ k \in Nat
    BY <1>2
  <2>1. y = IF Accepted(x) THEN x ELSE ReduceDrafts(x, PlanStepResources(x).chosen)
    BY <2>0, <1>5
  <2>2. Good(x, k)
    BY <1>9
  <2> HIDE DEF x, y, Good
  <2>3. CASE Accepted(x)
    <3>1. Good(x, k + 1)
      BY <2>2, <2>3 DEF Good
    <3> QED BY <3>1, <2>0, <2>1, <2>3 DEF y
  <2>4. CASE ~Accepted(x)
    <3>1. y = ReduceDrafts(x, PlanStepResources(x).chosen) /\ Feeds(x, es) /\ FewerThan(x, t, n)
      BY <2>1, <2>2, <2>4 DEF Good
    <3>2. Feeds(y, es) /\ FewerThan(y, x, n)
      BY <3>1, ReduceFacts
    <3>3. Cardinality(Drafts(y, n)) < Cardinality(Drafts(x, n))
      <4>1. \E i \in 1 .. n : x[i].d # 0
        BY <3>1, <2>4, Undrafted
      <4> QED BY <4>1, <3>1, ReduceFacts
    <3>4. FewerThan(y, t, n)
      BY <3>1, <3>2, <1>7, FewerTwice
    <3>5. ~Accepted(t)
      BY <2>2, <2>4 DEF Good
    <3>6. Cardinality(Drafts(y, n)) <= R - (k + 1)
      <4>1. Cardinality(Drafts(x, n)) <= R - k
        BY <2>2, <2>4 DEF Good
      <4> QED BY <4>1, <3>3, <1>2, <1>6, <2>0
    <3>7. Good(y, k + 1)
      BY <3>2, <3>4, <3>5, <3>6 DEF Good
    <3> QED BY <3>7, <2>0 DEF y
  <2> QED BY <2>3, <2>4
<1> HIDE DEF I
<1>10. 0 .. R \subseteq I
  BY <1>2, <1>8, <1>9, RangeInduction
<1>11. Good(u, R)
  <2> HIDE DEF Good
  <2> QED BY <1>1, <1>2, <1>10 DEF I
<1>12. Accepted(u)
  <2> SUFFICES ASSUME ~Accepted(u) PROVE FALSE
    OBVIOUS
  <2>1. Cardinality(Drafts(u, n)) = 0 /\ Feeds(u, es)
    BY <1>2, <1>6, <1>11
  <2>2. Drafts(u, n) = {}
    BY <2>1, DraftsFinite, FS_EmptySet
  <2>3. PICK i \in 1 .. n : u[i].d # 0
    BY <2>1, Undrafted
  <2>4. EntryOK(es[i]) /\ IsOffer(es[i]) /\ es[i] \in EntryType /\ FedAs(u[i], es[i])
    BY <2>1 DEF Offers, EntriesOK, Feeds
  <2>5. u[i].d \in 1 .. MaxDrafts
    <3>1. u[i].d <= MaxDrafts /\ u[i].d \in Nat /\ MaxDrafts \in Nat
      BY <2>4, FedFacts, ConfigFacts DEF StepInv
    <3> QED BY <3>1, <2>3
  <2>6. <<i, u[i].d>> \in Drafts(u, n)
    BY <2>5 DEF Drafts
  <2> QED BY <2>2, <2>6
<1> QED BY <1>11, <1>12

---------------------------------------------------------------------------
(* Planning a step. *)

(* Entries picked in order keep the decodes first, and stay offers. *)
LEMMA PickedFacts ==
    ASSUME NEW es, Offers(es), DecodesFirst(es), NEW t \in Seq(EntryType),
           PickedFrom(t, es, Len(es))
    PROVE  Offers(t) /\ DecodesFirst(t)
<1> DEFINE n == Len(es)
           m == Len(t)
<1>1. n \in Nat /\ m \in Nat /\ Len(es) = n /\ Len(t) = m
  BY DEF Offers, EntriesOK
<1>2. PICK f \in [1 .. m -> 1 .. n] :
        /\ \A k, l \in 1 .. m : k < l => f[k] < f[l]
        /\ \A k \in 1 .. m : t[k] = es[f[k]]
  BY DEF PickedFrom
<1> HIDE DEF n, m
<1>3. ASSUME NEW k \in 1 .. m, NEW l \in 1 .. m, f[k] = f[l] PROVE k = l
  <2>1. ~ (k < l) /\ ~ (l < k)
    BY <1>2, <1>3
  <2> QED BY <2>1, <1>1
<1>4. Offers(t)
  BY <1>1, <1>2, <1>3, PickedOffers
<1>5. DecodesFirst(t)
  BY <1>1, <1>2 DEF DecodesFirst
<1> QED BY <1>4, <1>5

(* What the planner starts from. *)
LEMMA ProbeFacts ==
    ASSUME StepInv, phase = "idle"
    PROVE  /\ Offers(Probe.chosen) /\ DecodesFirst(Probe.chosen) /\ Fits(Probe.chosen)
           /\ Len(Probe.chosen) \in Nat /\ Len(Probe.chosen) <= MaxScheduledTokens
           /\ Probe.unserviceable \subseteq Requests /\ CandidatesConsistent
<1> DEFINE c == Ordered(Candidates)
<1>1. Offers(Candidates)
  BY CandidatesFacts
<1>2. Offers(c) /\ DecodesFirst(c)
  BY <1>1, OrderedFacts
<1>3. Probe = PlanStepResources(c)
  BY DEF Probe
<1> HIDE DEF c
<1>4. Passed(Probe, c, Len(c))
  BY <1>2, <1>3, PlanFacts DEF Offers, EntriesOK
<1>5. /\ Probe.chosen \in Seq(EntryType) /\ PickedFrom(Probe.chosen, c, Len(c))
      /\ Fits(Probe.chosen) /\ Probe.unserviceable \subseteq Requests
  BY <1>4 DEF Passed, PassType
<1>6. Offers(Probe.chosen) /\ DecodesFirst(Probe.chosen)
  BY <1>2, <1>5, PickedFacts
<1>7. Len(Probe.chosen) \in Nat /\ Len(Probe.chosen) <= MaxScheduledTokens
  <2>1. Len(Probe.chosen) \in Nat /\ Len(Probe.chosen) <= Limit
    BY <1>5 DEF Fits
  <2> QED BY <2>1, PlanNumbers, ConfigFacts DEF StepInv
<1>8. CandidatesConsistent
  <2>1. DOMAIN Candidates = 1 .. Len(Candidates)
    BY <1>1 DEF Offers, EntriesOK
  <2> QED BY <2>1, <1>1 DEF CandidatesConsistent, Offers, IsOffer
<1> QED BY <1>5, <1>6, <1>7, <1>8

(* The plan that the planner ends with. *)
Fitted == IF PlansDrafts(Budgeted(Probe.chosen)) THEN FitDrafts(Budgeted(Probe.chosen))
          ELSE Budgeted(Probe.chosen)

(* The plan that the planner arrives at. *)
LEMMA PlannedFacts ==
    ASSUME StepInv, phase = "idle"
    PROVE  /\ Feeds(Budgeted(Probe.chosen), Probe.chosen) /\ Feeds(Fitted, Probe.chosen)
           /\ EntriesOK(Fitted) /\ Len(Fitted) = Len(Probe.chosen) /\ Fits(Fitted)
           /\ PlansDrafts(Budgeted(Probe.chosen)) => Accepted(Fitted)
           /\ FewerThan(Fitted, Budgeted(Probe.chosen), Len(Probe.chosen))
           /\ Fitted # Budgeted(Probe.chosen) => ~Accepted(Budgeted(Probe.chosen))
<1> DEFINE c == Probe.chosen
           b == Budgeted(c)
           n == Len(c)
<1>1. /\ Offers(c) /\ DecodesFirst(c) /\ Fits(c) /\ n \in Nat /\ Len(c) = n
      /\ n <= MaxScheduledTokens
  BY ProbeFacts
<1>2. Fitted = IF PlansDrafts(b) THEN FitDrafts(b) ELSE b
  BY DEF Fitted
<1> HIDE DEF c, n
<1>3. b = Budgeted(c)
  OBVIOUS
<1> HIDE DEF b
<1>4. Feeds(b, c)
  BY <1>1, <1>3, BudgetedFacts
<1>5. b \in Seq(EntryType) /\ DOMAIN b = 1 .. n
  BY <1>1, <1>4 DEF Feeds
<1>6. CASE PlansDrafts(b)
  <2>1. Feeds(Fitted, c) /\ Accepted(Fitted) /\ FewerThan(Fitted, b, n)
        /\ (Fitted # b => ~Accepted(b))
    BY <1>1, <1>2, <1>4, <1>6, FitDraftsFacts
  <2>2. Fitted \in Seq(EntryType)
    BY <2>1 DEF Feeds
  <2>3. Fits(Fitted)
    BY <2>1, <2>2, AcceptedFits
  <2>4. EntriesOK(Fitted) /\ Len(Fitted) = n
    BY <2>1, <1>1, FeedsFacts
  <2> QED BY <2>1, <2>3, <2>4, <1>1, <1>4 DEF b, c, n
<1>7. CASE ~PlansDrafts(b)
  <2>1. Fitted = b /\ \A i \in 1 .. n : b[i].d = 0
    BY <1>2, <1>5, <1>7 DEF PlansDrafts
  <2>2. EntriesOK(b) /\ Len(b) = n /\ Fits(b)
    BY <2>1, <1>1, <1>4, FeedsFacts
  <2>3. FewerThan(b, b, n)
    BY DEF FewerThan
  <2> QED BY <2>1, <2>2, <2>3, <1>1, <1>4, <1>7 DEF b, c, n
<1> QED BY <1>6, <1>7

(* Planning can always go ahead. *)
LEMMA PlanGoesAhead ==
    ASSUME StepInv, PlanStep
    PROVE  /\ plan' = Fitted /\ req' = StagePrefixAdoption(Fitted) /\ phase' = "planned"
           /\ phase = "idle" /\ UNCHANGED <<cache, table, residents, pool, rsv>>
<1>1. /\ phase = "idle" /\ HasPendingRequests /\ ~CapacityDeferred /\ Probe.unserviceable = {}
      /\ UNCHANGED <<cache, table, residents, pool, rsv>>
      /\ IF /\ CandidatesConsistent
            /\ Fitted # <<>>
            /\ PlansDrafts(Budgeted(Probe.chosen)) => Accepted(Fitted)
         THEN /\ plan' = Fitted
              /\ req' = StagePrefixAdoption(Fitted)
              /\ phase' = "planned"
         ELSE /\ phase' = "unhealthy"
              /\ UNCHANGED <<plan, req>>
  BY DEF PlanStep, Fitted
<1>2. Probe.chosen # <<>>
  BY <1>1, CandidatesFacts DEF CapacityDeferred
<1>3. Fitted # <<>>
  <2>1. Probe.chosen \in Seq(EntryType)
    BY <1>1, ProbeFacts DEF Offers, EntriesOK
  <2>2. Len(Fitted) # 0
    BY <2>1, <1>1, <1>2, PlannedFacts
  <2> QED BY <2>2
<1>4. CandidatesConsistent
  BY <1>1, ProbeFacts
<1>5. PlansDrafts(Budgeted(Probe.chosen)) => Accepted(Fitted)
  BY <1>1, PlannedFacts
<1> QED BY <1>1, <1>3, <1>4, <1>5

(* Staging an adoption changes only what a request has processed. *)
LEMMA StagedFacts ==
    ASSUME StepInv, phase = "idle", NEW es, EntriesOK(es), NEW r \in Requests,
           NEW q, q = StagePrefixAdoption(es)[r]
    PROVE  /\ q \in RequestType
           /\ q.status = req[r].status /\ q.tokens = req[r].tokens /\ q.prompt = req[r].prompt
           /\ q.starts = req[r].starts /\ q.drafts = req[r].drafts
           /\ \/ ~Adopts(es, r) /\ q = req[r]
              \/ \E i \in 1 .. Len(es) : /\ es[i].r = r /\ es[i].match # <<>>
                                         /\ q.processed = es[i].base
<1> DEFINE old == req[r]
<1>1. old \in RequestType
  BY DEF StepInv, RequestsOK
<1>2. es \in Seq(EntryType) /\ DOMAIN es = 1 .. Len(es) /\ DistinctRequests(es)
  BY DEF EntriesOK
<1>3. CASE ~Adopts(es, r)
  <2>1. q = old
    BY <1>3 DEF StagePrefixAdoption
  <2> QED BY <2>1, <1>1, <1>3
<1>4. CASE Adopts(es, r)
  <2>1. PICK i \in 1 .. Len(es) : es[i].r = r /\ es[i].match # <<>>
    BY <1>2, <1>4 DEF Adopts
  <2> DEFINE e == CHOOSE x \in ToSet(es) : x.r = r
  <2>2. e = es[i]
    <3>1. es[i] \in ToSet(es)
      BY <1>2 DEF ToSet
    <3>2. e \in ToSet(es) /\ e.r = r
      BY <3>1, <2>1
    <3>3. PICK j \in 1 .. Len(es) : e = es[j]
      BY <3>2, <1>2 DEF ToSet
    <3> HIDE DEF e
    <3> QED BY <2>1, <3>2, <3>3, <1>2 DEF DistinctRequests
  <2>3. q = [old EXCEPT !.processed = e.base]
    BY <1>4 DEF StagePrefixAdoption
  <2>4. e.base \in Nat
    <3>1. es[i] \in EntryType
      BY <1>2
    <3> QED BY <3>1, <2>2 DEF EntryType
  <2> HIDE DEF e, old
  <2>5. q = [status |-> old.status, tokens |-> old.tokens, processed |-> e.base,
             prompt |-> old.prompt, starts |-> old.starts, drafts |-> old.drafts]
    BY <2>3, <1>1 DEF RequestType
  <2>6. q \in RequestType
    BY <2>4, <2>5, <1>1 DEF RequestType
  <2> QED BY <2>1, <2>2, <2>5, <2>6 DEF old
<1> QED BY <1>3, <1>4

(* The step is planned. *)
LEMMA PlanPreserves ==
    ASSUME StepInv, PlanStep, config' = config
    PROVE  StepInv' /\ UNCHANGED LP!vars
<1> DEFINE t == Fitted
           n == Len(t)
<1>1. /\ plan' = t /\ req' = StagePrefixAdoption(t) /\ phase' = "planned"
      /\ phase = "idle" /\ UNCHANGED <<cache, table, residents, pool, rsv>>
  BY PlanGoesAhead
<1>2. EntriesOK(t) /\ Feeds(t, Probe.chosen) /\ Offers(Probe.chosen) /\ Len(t) = Len(Probe.chosen)
  BY <1>1, PlannedFacts, ProbeFacts
<1>o. Len(Probe.chosen) = n
  BY <1>2
<1> HIDE DEF t, n
<1>3. /\ t \in Seq(EntryType) /\ DistinctRequests(t) /\ DOMAIN t = 1 .. n /\ Len(t) = n /\ n \in Nat
      /\ \A i \in 1 .. n : EntryOK(t[i]) /\ Chained(cache, req[t[i].r].tokens, t[i].match)
                           /\ t[i].r \in Requests
  BY <1>2 DEF EntriesOK, EntryOK, EntryType, n
<1>4. \A i \in 1 .. n : t[i].base < Len(req[t[i].r].tokens)
  BY <1>2, <1>o DEF Feeds, FedAs, Offers, IsOffer
<1>e. ASSUME NEW i \in 1 .. n
      PROVE  /\ t[i] \in EntryType /\ t[i].base \in Nat /\ t[i].r \in Requests
             /\ t[i].new \in BOOLEAN
  BY <1>3 DEF EntryOK, EntryType
<1>5. /\ PoolInv(cache)' /\ UNCHANGED LP!vars /\ LP!LedgerInv' /\ TablesOK' /\ SizesOK'
      /\ residents' \in Seq(Requests) /\ Distinct(residents')
  BY <1>1, CacheUntouched
<1>6. ASSUME NEW r \in Requests
      PROVE  /\ req'[r] \in RequestType
             /\ req'[r].status = req[r].status /\ req'[r].tokens = req[r].tokens
             /\ req'[r].prompt = req[r].prompt
             /\ req'[r].starts = req[r].starts /\ req'[r].drafts = req[r].drafts
             /\ \/ ~Adopts(t, r) /\ req'[r] = req[r]
                \/ \E i \in 1 .. n : /\ t[i].r = r /\ t[i].match # <<>>
                                     /\ req'[r].processed = t[i].base
  <2>1. req'[r] = StagePrefixAdoption(t)[r]
    BY <1>1
  <2> QED BY <2>1, <1>1, <1>2, <1>3, StagedFacts
<1>7. /\ req \in [Requests -> RequestType] /\ \A r \in Requests : SessionOK(req[r])
      /\ \A r \in Requests : Len(req[r].tokens) \in Nat
  BY DEF StepInv, RequestsOK, RequestType
<1>8. RequestsOK'
  <2>1. RequestType' = RequestType
    BY DEF RequestType, Tokens
  <2>2. ASSUME NEW r \in Requests PROVE SessionOK(req[r])'
    <3>1. SessionOK(req[r])
      BY <1>7
    <3>2. req'[r].processed <= Len(req[r].tokens)
          /\ (req[r].status \in {"Queued", "Active"} => req'[r].processed < Len(req[r].tokens))
      <4>1. CASE req'[r] = req[r]
        BY <4>1, <3>1 DEF SessionOK
      <4>2. ASSUME NEW i \in 1 .. n, t[i].r = r, req'[r].processed = t[i].base
            PROVE  req'[r].processed <= Len(req[r].tokens) /\ req'[r].processed < Len(req[r].tokens)
        <5>1. t[i].base < Len(req[r].tokens) /\ t[i].base \in Nat /\ Len(req[r].tokens) \in Nat
          BY <4>2, <1>e, <1>4, <1>7
        <5> QED BY <5>1, <4>2
      <4> QED BY <4>1, <4>2, <1>6
    <3>3. MaxSession' = MaxSession
      BY DEF MaxSession
    <3> QED BY <3>1, <3>2, <3>3, <1>6 DEF SessionOK
  <2>3. req' \in [Requests -> RequestType]
    <3>1. req' = [r \in Requests |-> req'[r]]
      BY <1>1 DEF StagePrefixAdoption
    <3> QED BY <3>1, <1>6
  <2> QED BY <2>1, <2>2, <2>3 DEF RequestsOK
<1>9. QueuesOK'
  <2>1. /\ residents \in Seq(Requests) /\ Distinct(residents)
        /\ pool \in Seq(Requests) /\ Distinct(pool)
        /\ \A r \in ToSet(residents) \cup ToSet(pool) : req[r].status \in Open
        /\ \A r \in Requests : req[r].status = "Active" => r \in ToSet(residents)
    BY DEF StepInv, QueuesOK
  <2>2. ToSet(residents) \subseteq Requests /\ ToSet(pool) \subseteq Requests
    BY <2>1 DEF ToSet
  <2> QED BY <2>1, <2>2, <1>1, <1>6 DEF QueuesOK
<1>10. PlanOK'
  <2>1. EntryType' = EntryType
    BY DEF EntryType
  <2>2. ASSUME NEW i \in 1 .. n PROVE EntryOK(plan[i])'
    <3>1. EntryOK(t[i]) /\ t[i].r \in Requests /\ plan'[i] = t[i]
      BY <1>1, <1>3
    <3> HIDE DEF EntryType
    <3>2. /\ req'[t[i].r].status = req[t[i].r].status /\ req'[t[i].r].tokens = req[t[i].r].tokens
          /\ req'[t[i].r].drafts = req[t[i].r].drafts
      BY <3>1, <1>6
    <3> QED BY <3>1, <3>2, <2>1, <1>1 DEF EntryOK, IsExecutable
  <2>3. \A i, j \in 1 .. n : plan'[i].r = plan'[j].r => i = j
    BY <1>1, <1>3 DEF DistinctRequests
  <2>4. plan' \in Seq(EntryType) /\ DOMAIN plan' = 1 .. n /\ Len(plan') = n
    BY <1>1, <1>3
  <2> QED BY <2>1, <2>2, <2>3, <2>4 DEF PlanOK, DistinctRequests
<1>11. StagingOK'
  <2> SUFFICES ASSUME NEW r \in Requests, req'[r].status # "Failed"
               PROVE  \/ req'[r].processed = table'[r].committed /\ ~Adopts(t, r)
                      \/ \E i \in 1 .. n : /\ t[i].r = r /\ t[i].match # <<>>
                                           /\ req'[r].processed = t[i].base
    BY <1>1, <1>3 DEF StagingOK, Adopts
  <2>1. req[r].processed = table[r].committed
    BY <1>1, <1>6, IdleRequest
  <2> QED BY <2>1, <1>1, <1>6
<1>12. RsvOK'
  BY <1>1 DEF StepInv, RsvOK, Reserved
<1>13. PhaseOK'
  <2>1. \A i \in 1 .. n : Chained(cache', req'[t[i].r].tokens, t[i].match)
    BY <1>1, <1>3, <1>6
  <2> QED BY <2>1, <1>1, <1>3 DEF PhaseOK
<1>14. StartedPrefillOwnsItsPrompt'
  <2> SUFFICES ASSUME NEW r \in Requests, req'[r].status = "Active",
                      req'[r].processed < req'[r].prompt
               PROVE  Len(table'[r].blocks) * BlockSize >= req'[r].prompt
    BY DEF StartedPrefillOwnsItsPrompt, IsPrefill
  <2>1. ASSUME NEW i \in 1 .. n, t[i].r = r, t[i].match # <<>> PROVE FALSE
    <3>1. EntryOK(t[i])
      BY <1>3
    <3>2. t[i].new
      BY <3>1, <2>1 DEF EntryOK
    <3>3. req[r].status = "Queued"
      BY <3>1, <3>2, <2>1 DEF EntryOK
    <3> QED BY <3>3, <1>6
  <2>2. req'[r] = req[r]
    BY <2>1, <1>6
  <2> QED BY <2>2, <1>1 DEF StepInv, StartedPrefillOwnsItsPrompt, IsPrefill
<1>15. config' \in Configurations
  BY DEF StepInv
<1> QED BY <1>5, <1>8, <1>9, <1>10, <1>11, <1>12, <1>13, <1>14, <1>15 DEF StepInv
=============================================================================
