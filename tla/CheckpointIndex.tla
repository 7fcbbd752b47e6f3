-------------------------- MODULE CheckpointIndex --------------------------
(***************************************************************************)
(* The prefix index of a hybrid model. Key/value blocks alone are no hit:  *)
(* a hit is a physical path of blocks that ends at an entry with a         *)
(* fixed-state checkpoint. The index is a record h:                        *)
(*                                                                         *)
(*   c         the pool and the entries, as in PrefixCache                 *)
(*   order     checkpoint_entries_: the entries with a checkpoint, least   *)
(*             recently used first                                         *)
(*   state[b]  the tokens the checkpoint of block b was computed from,     *)
(*             Garbage when the entry has none                             *)
(*   draft     the entries whose draft checkpoint is alive (an entry that  *)
(*             keeps an evicted one behaves as an entry without)           *)
(*                                                                         *)
(* A lease is a shared pointer to a checkpoint outside the index. L is the *)
(* set of the identities whose checkpoint, or draft checkpoint, is leased. *)
(***************************************************************************)
EXTENDS PrefixCache

\* rows is options_.max_checkpoints, the rows of the state pool.
EmptyIndex(maxIndexed, maxCheckpoints) ==
    [c |-> EmptyCache(maxIndexed), order |-> <<>>, draft |-> {},
     state |-> [b \in Blocks |-> Garbage], rows |-> maxCheckpoints]

---------------------------------------------------------------------------
(* Paths. *)

\* The identities from id up to its root.
RECURSIVE PathIds(_, _)
PathIds(c, id) ==
    IF id = NoId THEN <<>> ELSE <<id>> \o PathIds(c, c.idents[id].parent)

\* The logical identity: every token from the root of the path on.
PathTokens(c, id) ==
    LET ids == Reverse(PathIds(c, id))
    IN  FlattenSeq([i \in DOMAIN ids |-> c.idents[ids[i]].chunk])

\* The blocks of the path to b, root first.
PathBlocks(c, b) ==
    LET ids == Reverse(PathIds(c, c.ident[b]))
    IN  [i \in DOMAIN ids |-> FindEntry(c, ids[i])]

HasRetainedPhysicalPath(c, b, count) ==
    /\ Len(PathBlocks(c, b)) = count
    /\ \A e \in ToSet(PathBlocks(c, b)) : e # NoBlock /\ c.size[e] = BlockSize

NoMatch == [blocks |-> <<>>, id |-> NoId, draft |-> FALSE]

MatchOf(h, b) == [blocks |-> PathBlocks(h.c, b), id |-> h.c.ident[b],
                  draft |-> b \in h.draft]

\* A lookup that takes a block path for a hit wherever it ends.
MatchWithoutEndpoint(h, tokens, adoptable) ==
    LET usable == {b \in Indexed(h.c) :
            LET path == PathTokens(h.c, h.c.ident[b])
            IN  /\ Len(path) <= adoptable /\ path = SubSeq(tokens, 1, Len(path))
                /\ HasRetainedPhysicalPath(h.c, b, Len(path) \div BlockSize)}
    IN  IF usable = {} THEN NoMatch
        ELSE MatchOf(h, CHOOSE b \in usable : \A e \in usable :
                Len(PathBlocks(h.c, e)) <= Len(PathBlocks(h.c, b)))

\* The longest endpoint that holds a prefix of the adoptable tokens; of two
\* that are as long, the more recently used one.
MatchCheckpoint(h, tokens, adoptable) ==
    LET Count(i) == Len(h.state[h.order[i]])
        usable == {i \in DOMAIN h.order :
            /\ Count(i) <= (adoptable \div BlockSize) * BlockSize
            /\ HasRetainedPhysicalPath(h.c, h.order[i], Count(i) \div BlockSize)
            /\ PathTokens(h.c, h.c.ident[h.order[i]]) =
                    SubSeq(tokens, 1, Count(i))}
        best == {i \in usable : \A j \in usable : Count(j) <= Count(i)}
    IN  IF usable = {} THEN NoMatch ELSE MatchOf(h, h.order[Max(best)])

---------------------------------------------------------------------------
(* Leases. *)

\* The reclaimable blocks some leased endpoint needs.
LeasedAncestry(h, L) ==
    {b \in ToSet(h.c.reclaimable) : \E e \in ToSet(h.order) :
        /\ h.c.ident[e] \in L
        /\ h.c.ident[b] \in ToSet(PathIds(h.c, h.c.ident[e]))}

UnleasedBlocks(h, L) ==
    LET leased == LeasedAncestry(h, L)
    IN  SelectSeq(h.c.reclaimable, LAMBDA b : b \notin leased)

\* A checkpoint is unleased when neither it nor its draft is shared.
IsCheckpointUnleased(h, L, b) == b \in ToSet(h.order) /\ h.c.ident[b] \notin L

HasCheckpointedDescendant(h, b) ==
    \E e \in ToSet(h.order) \ {b} :
        h.c.ident[b] \in ToSet(PathIds(h.c, h.c.ident[e]))

DropCheckpoint(h, b) ==
    [h EXCEPT !.order = Remove(@, b), !.state[b] = Garbage,
              !.draft = @ \ {b}]

\* The checkpoint to give up: the deepest on the publisher's own path, else
\* one with a checkpointed descendant, else any, least recent first.
ReclaimableCheckpoint(h, L, path) ==
    LET ids == PathIds(h.c, path)
        own == SelectSeq([i \in DOMAIN ids |-> FindEntry(h.c, ids[i])],
                         LAMBDA b : IsCheckpointUnleased(h, L, b))
        free == SelectSeq(h.order, LAMBDA b : IsCheckpointUnleased(h, L, b))
        inner == SelectSeq(free, LAMBDA b : HasCheckpointedDescendant(h, b))
    IN  IF own # <<>> THEN Head(own)
        ELSE IF inner # <<>> THEN Head(inner)
        ELSE IF free # <<>> THEN Head(free) ELSE NoBlock

EvictEntry(h, b) == [DropCheckpoint(h, b) EXCEPT !.c = Evict(@, b)]

\* Reclamation from the recent end of the list.
ReclaimNewestBlocks(h, L, n) ==
    LET list == Reverse(UnleasedBlocks(h, L))
    IN  FoldLeft(EvictEntry, h,
                 SubSeq(list, 1, IF n < Len(list) THEN n ELSE Len(list)))

\* Hands back up to n blocks, never one that a leased endpoint needs.
ReclaimBlocks(h, L, n) ==
    LET list == UnleasedBlocks(h, L)
    IN  FoldLeft(EvictEntry, h,
                 SubSeq(list, 1, IF n < Len(list) THEN n ELSE Len(list)))

\* Adoption refreshes the path, and every checkpoint on it.
RecordAdoptedPath(h, blocks) ==
    LET Promote(s, b) == IF b \in ToSet(s) THEN Append(Remove(s, b), b) ELSE s
    IN  [h EXCEPT !.c = RecordAdoption(@, blocks),
                  !.order = FoldLeft(Promote, @, blocks)]

---------------------------------------------------------------------------
(* Publication of a suffix: the blocks behind parent, which are still      *)
(* private, become entries, and the last of them gets the checkpoint.      *)
(* tokens holds everything up to the new boundary.                         *)

Variants(h, tokens) ==
    {b \in Indexed(h.c) : PathTokens(h.c, h.c.ident[b]) = tokens}

HashOf(tokens) ==
    [i \in 1 .. Len(tokens) \div BlockSize |-> ChunkHash(Chunk(tokens, i))]

Collides(h, tokens) ==
    /\ Variants(h, tokens) = {}
    /\ \E b \in Indexed(h.c) : h.c.idents[h.c.ident[b]].hash = HashOf(tokens)

\* Only a complete, usable endpoint is a duplicate.
IsDuplicate(h, tokens) ==
    \E b \in Variants(h, tokens) \cap ToSet(h.order) :
        HasRetainedPhysicalPath(h.c, b, Len(tokens) \div BlockSize)

\* The first entry the suffix repeats, NoBlock when it repeats none. One
\* checkpoint never leaves two variants to choose from.
DuplicateRoot(h, tokens, count) ==
    LET repeated == {i \in Len(tokens) \div BlockSize - count + 1
                            .. Len(tokens) \div BlockSize :
                        Variants(h, SubSeq(tokens, 1, i * BlockSize)) # {}}
    IN  IF repeated = {} THEN NoBlock
        ELSE CHOOSE b \in Variants(h, SubSeq(tokens, 1,
                                             Min(repeated) * BlockSize)) : TRUE

\* With one checkpoint the repeated suffix is replaced as a whole.
ReplacedSuffix(h, root) ==
    IF h.rows > 1 \/ root = NoBlock THEN <<>>
    ELSE SelectSeq(h.c.recency, LAMBDA b :
            h.c.ident[root] \in ToSet(PathIds(h.c, h.c.ident[b])))

\* What has to leave the index: the replaced suffix, then unleased entries
\* until count blocks fit.
RetiringBlocks(h, L, root, count) ==
    LET replaced == ReplacedSuffix(h, root)
        others == SelectSeq(UnleasedBlocks(h, L),
                            LAMBDA b : b \notin ToSet(replaced))
        excess == Len(h.c.recency) - Len(replaced) + count - h.c.limit
    IN  replaced \o SubSeq(others, 1, Min({Max({0, excess}), Len(others)}))

PublicationStatus(h, L, tokens, count) ==
    LET total == Len(tokens) \div BlockSize
        root == DuplicateRoot(h, tokens, count)
        retiring == RetiringBlocks(h, L, root, count)
    IN  IF \E i \in total - count + 1 .. total :
                Collides(h, SubSeq(tokens, 1, i * BlockSize))
        THEN "HashCollision"
        ELSE IF IsDuplicate(h, tokens) THEN "Duplicate"
        ELSE IF \/ \E b \in ToSet(ReplacedSuffix(h, root)) :
                        h.c.ref[b] # 1 \/ h.c.ident[b] \in L
                \/ count > h.c.limit
                \/ Len(h.c.recency) - Len(retiring) + count > h.c.limit
                \/ /\ Len(h.order) >= h.rows
                   /\ \A b \in ToSet(h.order) : ~IsCheckpointUnleased(h, L, b)
        THEN "CapacityRefused"
        ELSE "Indexed"

\* The new entries, each behind the one before it.
InsertSuffix(h, blocks, tokens, parent) ==
    LET first == Len(tokens) \div BlockSize - Len(blocks)
        Insert(g, i) == [g EXCEPT !.c = InsertEntry(@, blocks[i],
                            Chunk(tokens, first + i),
                            IF i = 1 THEN parent ELSE g.c.ident[blocks[i - 1]])]
        inserted == FoldLeft(Insert, h, [i \in DOMAIN blocks |-> i])
    IN  [inserted EXCEPT !.order = Append(@, Last(blocks)),
                         !.state[Last(blocks)] = tokens]

\* The row for the new checkpoint: a free one, or the row of the checkpoint
\* that is given up for it.
CaptureRow(h, L, parent) ==
    IF Len(h.order) < h.rows THEN h
    ELSE DropCheckpoint(h, ReclaimableCheckpoint(h, L, parent))

\* Once the new checkpoint exists the old suffix goes.
ReplaceCheckpointedPrefix(h, L, blocks, tokens, parent) ==
    LET retiring == RetiringBlocks(h, L, DuplicateRoot(h, tokens, Len(blocks)),
                                   Len(blocks))
        retired == FoldLeft(EvictEntry, CaptureRow(h, L, parent), retiring)
    IN  InsertSuffix(retired, blocks, tokens, parent)
=============================================================================
