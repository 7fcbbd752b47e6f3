---------------------------- MODULE PrefixCache ----------------------------
(***************************************************************************)
(* The block pool and the content-addressed prefix index over it, as       *)
(* operations on one record c:                                             *)
(*                                                                         *)
(*   ref[b]      references held on block b; 0 when the pool slot is empty *)
(*   size[b]     committed slots of the block                              *)
(*   kv[b][i]    what slot i physically holds: the token prefix its key    *)
(*               and value were computed from, Garbage when unknown        *)
(*   ident[b]    the block's content identity, NoId when it has none       *)
(*   recency     every indexed block, least recently used first            *)
(*   reclaimable the indexed blocks only the index references, in the      *)
(*               order Reclaim takes them                                  *)
(*   promote     indexed blocks whose release counts as a use              *)
(*   idents[i]   the identity objects that are still referenced            *)
(*   limit       options_.max_blocks; 0 disables prefix caching            *)
(*                                                                         *)
(* Identities are compared by pointer in the code, so they are modelled by *)
(* number: two identities with the same content are still different.       *)
(* Only paged (full-attention) prefixes are modelled here; the index of a  *)
(* hybrid model also carries fixed-state checkpoints.                      *)
(***************************************************************************)
EXTENDS Integers, Sequences, FiniteSets, SequencesExt

CONSTANTS
    NumBlocks,       \* blocks in the pool
    BlockSize,       \* token slots in a block
    MaxIdentities,   \* bound on identity objects alive at once
    ChunkHash(_)     \* the hash of one block's tokens, collisions allowed

ASSUME PoolAssumption ==
    /\ NumBlocks \in Nat \ {0}
    /\ BlockSize \in Nat \ {0}
    /\ MaxIdentities \in Nat

Blocks == 0 .. NumBlocks - 1
NoBlock == -1
Ids == 1 .. MaxIdentities
NoId == 0
Garbage == <<>>
Unused == [hash |-> <<>>, chunk |-> <<>>, parent |-> NoId, block |-> NoBlock]

EmptyBlock == [i \in 1 .. BlockSize |-> Garbage]

EmptyCache(maxIndexed) ==
    [ref         |-> [b \in Blocks |-> 0],
     size        |-> [b \in Blocks |-> 0],
     kv          |-> [b \in Blocks |-> EmptyBlock],
     ident       |-> [b \in Blocks |-> NoId],
     recency     |-> <<>>,
     reclaimable |-> <<>>,
     promote     |-> {},
     idents      |-> [i \in Ids |-> Unused],
     limit       |-> maxIndexed]

BlocksNeeded(slots) == (slots + BlockSize - 1) \div BlockSize
FreeBlocks(c) == {b \in Blocks : c.ref[b] = 0}
AvailableBlocks(c) == Cardinality(FreeBlocks(c))
Indexed(c) == ToSet(c.recency)
ReclaimableBlocks(c) == Len(c.reclaimable)
IsReclaimable(c, b) == b \in ToSet(c.reclaimable)

InsertBefore(s, x, y) ==
    LET IsY(z) == z = y IN InsertAt(s, SelectInSeq(s, IsY), x)

---------------------------------------------------------------------------
(* Lookup. *)

\* The indexed block whose identity is exactly the object id, if there is one.
FindEntry(c, id) ==
    IF id # NoId /\ c.idents[id].block \in Indexed(c)
                 /\ c.ident[c.idents[id].block] = id
    THEN c.idents[id].block
    ELSE NoBlock

\* A lookup that trusts the hash and compares neither parent nor tokens.
FindByHashOnly(c, parent, chunk) ==
    LET found == {b \in Indexed(c) :
                    c.idents[c.ident[b]].hash =
                        Append(IF parent = NoId THEN <<>>
                               ELSE c.idents[parent].hash, ChunkHash(chunk))}
    IN  IF found = {} THEN NoBlock ELSE CHOOSE b \in found : TRUE

\* The entry that chains from exactly this parent and holds exactly these
\* tokens. The hash bucket is implied by the two.
FindPhysical(c, parent, chunk) ==
    LET found == {b \in Indexed(c) : /\ c.idents[c.ident[b]].parent = parent
                                     /\ c.idents[c.ident[b]].chunk = chunk}
    IN  IF found = {} THEN NoBlock ELSE CHOOSE b \in found : TRUE

Chunk(tokens, i) == SubSeq(tokens, (i - 1) * BlockSize + 1, i * BlockSize)

\* The longest run of indexed blocks that covers whole leading blocks of the
\* first maxAdoptable tokens.
Match(c, tokens, maxAdoptable) ==
    LET Walk(m, i) ==
            LET b == FindPhysical(c, m.parent, Chunk(tokens, i))
            IN  IF ~m.open \/ b = NoBlock \/ c.size[b] # BlockSize
                THEN [m EXCEPT !.open = FALSE]
                ELSE [m EXCEPT !.blocks = Append(@, b), !.parent = c.ident[b]]
        chunks == [i \in 1 .. maxAdoptable \div BlockSize |-> i]
    IN  FoldLeft(Walk, [blocks |-> <<>>, parent |-> NoId, open |-> TRUE],
                 chunks).blocks

---------------------------------------------------------------------------
(* Reference transitions, and the order the index keeps behind them. *)

\* An adopted block that stays on the reclaimable list.
StaysReclaimable(c, b) == [c EXCEPT !.promote = @ \ {b}]

\* A first reference besides the index's own takes the block off the
\* reclaimable list and makes its release neutral until an adoption commits.
OnBlockBecameReferenced(c, b) ==
    [c EXCEPT !.reclaimable = RemoveFirst(@, b), !.promote = @ \ {b}]

OnBlockBecameReclaimable(c, b) ==
    LET parent == c.idents[c.ident[b]].parent
        entry == FindEntry(c, parent)
        IsB(z) == z = b
        followers == {i \in DOMAIN c.recency :
                        /\ i > SelectInSeq(c.recency, IsB)
                        /\ IsReclaimable(c, c.recency[i])}
        next == IF b \in c.promote
                THEN IF parent = NoId THEN NoBlock
                     ELSE IF entry = NoBlock
                     THEN IF c.reclaimable = <<>> THEN NoBlock
                          ELSE Head(c.reclaimable)
                     ELSE IF IsReclaimable(c, entry) THEN entry ELSE NoBlock
                ELSE IF followers = {} THEN NoBlock
                ELSE c.recency[Min(followers)]
    IN  [c EXCEPT
            !.reclaimable = IF next = NoBlock THEN Append(@, b)
                            ELSE InsertBefore(@, b, next),
            !.promote = @ \cup {b}]

AddRef(c, b) ==
    LET counted == [c EXCEPT !.ref[b] = @ + 1]
    IN  IF c.ref[b] = 1 /\ b \in Indexed(c)
        THEN OnBlockBecameReferenced(counted, b)
        ELSE counted

\* The pool slot becomes empty; what the memory still holds is unspecified.
ClearBlock(c, b) ==
    [c EXCEPT !.ref[b] = 0, !.size[b] = 0, !.ident[b] = NoId,
              !.kv[b] = EmptyBlock]

ReleaseRef(c, b) ==
    LET counted == [c EXCEPT !.ref[b] = @ - 1]
    IN  IF c.ref[b] = 2 /\ b \in Indexed(c)
        THEN OnBlockBecameReclaimable(counted, b)
        ELSE IF c.ref[b] = 1 THEN ClearBlock(c, b)
        ELSE counted

\* Releases every handle of a sequence, in order.
FreeValidated(c, handles) == FoldLeft(ReleaseRef, c, handles)

\* The n lowest elements of a set of blocks, in order: the k-th has k - 1 of
\* them below it.
Lowest(S, n) ==
    [k \in 1 .. n |-> CHOOSE b \in S : Cardinality({a \in S : a < b}) = k - 1]

\* A pool that takes a block without committed slots for a free one.
LowestUnwrittenBlocks(c, n) ==
    Lowest({b \in Blocks : c.size[b] = 0}, n)

\* The n empty pool slots with the lowest ids, as fresh blocks with one
\* reference and no committed slot.
LowestFreeBlocks(c, n) == Lowest(FreeBlocks(c), n)

ReserveBlocks(c, n) ==
    [c EXCEPT !.ref = [b \in Blocks |->
        IF b \in ToSet(LowestFreeBlocks(c, n)) THEN 1 ELSE c.ref[b]]]

\* Keeps an entry immediately before the one it chains from.
Reorder(c, b, parent) ==
    LET entry == FindEntry(c, parent)
        rest == RemoveFirst(c.recency, b)
        pending == RemoveFirst(c.reclaimable, b)
        recency == IF parent = NoId THEN Append(rest, b)
                   ELSE IF entry = NoBlock THEN <<b>> \o rest
                   ELSE InsertBefore(rest, b, entry)
        reclaimable == IF ~IsReclaimable(c, b) THEN c.reclaimable
                       ELSE IF parent # NoId /\ entry = NoBlock
                       THEN <<b>> \o pending
                       ELSE IF parent # NoId /\ IsReclaimable(c, entry)
                       THEN InsertBefore(pending, b, entry)
                       ELSE Append(pending, b)
    IN  [c EXCEPT !.recency = recency, !.reclaimable = reclaimable]

\* A committed adoption refreshes its chain, root to deepest.
RecordAdoption(c, blocks) ==
    LET Use(d, b) == Reorder([d EXCEPT !.promote = @ \cup {b}], b,
                             d.idents[d.ident[b]].parent)
    IN  FoldLeft(Use, c, blocks)

\* Drops the entry and the index's reference with it.
Evict(c, b) ==
    ReleaseRef([c EXCEPT !.recency = RemoveFirst(@, b),
                         !.reclaimable = RemoveFirst(@, b),
                         !.promote = @ \ {b}], b)

\* Hands back up to n blocks nobody else references, least recent first.
Reclaim(c, n) ==
    FoldLeft(Evict, c,
             SubSeq(c.reclaimable, 1,
                    IF n < Len(c.reclaimable) THEN n ELSE Len(c.reclaimable)))

---------------------------------------------------------------------------
(* Registration of a full block: the result is the cache, the identity the *)
(* next block chains from, and the status.                                 *)

PathHash(c, parent, chunk) ==
    Append(IF parent = NoId THEN <<>> ELSE c.idents[parent].hash,
           ChunkHash(chunk))

\* Indexes the block under a fresh identity, just behind its parent.
InsertEntry(c, b, chunk, parent) ==
    LET id == CHOOSE i \in Ids : /\ c.idents[i] = Unused
                                 /\ \A j \in Ids : c.idents[j] = Unused => i <= j
        entry == FindEntry(c, parent)
    IN  [c EXCEPT
            !.idents[id] = [hash |-> PathHash(c, parent, chunk),
                            chunk |-> chunk, parent |-> parent, block |-> b],
            !.ident[b] = id,
            !.ref[b] = @ + 1,
            !.recency = IF entry = NoBlock THEN Append(@, b)
                        ELSE InsertBefore(@, b, entry),
            !.promote = @ \cup {b}]

Refused(c, status) == [cache |-> c, id |-> NoId, status |-> status]
IndexedAs(c, b) == [cache |-> c, id |-> c.ident[b], status |-> "Indexed"]

\* A full index makes room by evicting, if it may evict anything. Identities
\* are objects on the heap; past the bound, allocating one fails.
Register(c, b, chunk, parent) ==
    LET existing == FindPhysical(c, parent, chunk)
        taken == \E e \in Indexed(c) :
                    c.idents[c.ident[e]].hash = PathHash(c, parent, chunk)
        full == Len(c.recency) >= c.limit
        room == IF full THEN Reclaim(c, 1) ELSE c
    IN  IF c.ident[b] # NoId THEN IndexedAs(c, b)
        ELSE IF existing # NoBlock
        THEN Refused(Reorder(c, existing, parent), "Duplicate")
        ELSE IF taken THEN Refused(c, "HashCollision")
        ELSE IF full /\ c.reclaimable = <<>> THEN Refused(c, "CapacityRefused")
        ELSE IF \A i \in Ids : c.idents[i] # Unused
        THEN Refused(room, "OutOfMemory")
        ELSE IndexedAs(InsertEntry(room, b, chunk, parent), b)

StopsSealing(status) == status \in {"Duplicate", "HashCollision"}

\* Identity objects live as long as a block, a table or a later identity in
\* the chain still points at them.
CollectIdentities(c, roots) ==
    LET Reach(ids, n) == ids \cup {c.idents[i].parent : i \in ids \ {NoId}}
        live == FoldLeft(Reach, roots \cup {c.ident[b] : b \in Blocks},
                         [n \in Ids |-> n])
    IN  [c EXCEPT !.idents = [i \in Ids |->
            IF i \in live THEN c.idents[i] ELSE Unused]]
=============================================================================
