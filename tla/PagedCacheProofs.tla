-------------------------- MODULE PagedCacheProofs --------------------------
(***************************************************************************)
(* Continuous batching over the paged cache keeps its books: the inductive *)
(* invariant of PagedCache, the ownership ledger it implements, and the    *)
(* properties of the step transaction that follow.                         *)
(***************************************************************************)
EXTENDS PagedCacheLemmas

---------------------------------------------------------------------------
(* Reserving. *)

(* The blocks taken for entry i of t. *)
Share(t, taken, i) == SubSeq(taken, BlocksOf(t, i - 1) + 1, BlocksOf(t, i))

(* Every taken block is for one entry. *)
LEMMA SpanOf ==
    ASSUME StepInv, NEW t \in Seq(EntryType), NEW k \in 1 .. BlocksOf(t, Len(t))
    PROVE  /\ \E i \in 1 .. Len(t) : BlocksOf(t, i - 1) < k /\ k <= BlocksOf(t, i)
           /\ \A i, j \in 1 .. Len(t) :
                /\ BlocksOf(t, i - 1) < k /\ k <= BlocksOf(t, i)
                /\ BlocksOf(t, j - 1) < k /\ k <= BlocksOf(t, j)
                => i = j
<1> DEFINE n == Len(t)
           T == {i \in 0 .. n : k <= BlocksOf(t, i)}
<1>1. n \in Nat /\ BlocksOf(t, 0) = 0 /\ \A i \in 0 .. n : BlocksOf(t, i) \in Nat
  BY BlocksOfFacts
<1>2. \A i \in 0 .. n : \A j \in i .. n : BlocksOf(t, i) <= BlocksOf(t, j)
  BY BlocksOfGrow
<1> HIDE DEF n
<1>3. T \in SUBSET Nat /\ T # {}
  <2>1. n \in T
    BY <1>1 DEF n
  <2> QED BY <2>1, <1>1
<1>4. PICK i \in T : \A m \in T : i <= m
  BY <1>3, NatLeast
<1>5. i \in 1 .. n /\ k <= BlocksOf(t, i)
  BY <1>4, <1>1
<1>6. BlocksOf(t, i - 1) < k
  <2>1. i - 1 \in 0 .. n /\ i - 1 \notin T /\ BlocksOf(t, i - 1) \in Nat
    BY <1>4, <1>5, <1>1
  <2>2. ~(k <= BlocksOf(t, i - 1))
    BY <2>1
  <2> QED BY <2>1, <2>2, <1>1
<1>7. ASSUME NEW a \in 1 .. n, NEW b \in 1 .. n, BlocksOf(t, a - 1) < k, k <= BlocksOf(t, a),
             BlocksOf(t, b - 1) < k, k <= BlocksOf(t, b), a < b
      PROVE  FALSE
  <2>1. BlocksOf(t, a) <= BlocksOf(t, b - 1)
    <3>1. a \in 0 .. n /\ b - 1 \in a .. n
      BY <1>7, <1>1
    <3> QED BY <3>1, <1>2
  <2>2. BlocksOf(t, a) \in Nat /\ BlocksOf(t, b - 1) \in Nat
    <3>1. a \in 0 .. n /\ b - 1 \in 0 .. n
      BY <1>1
    <3> QED BY <3>1, <1>1
  <2> QED BY <2>1, <2>2, <1>7
<1>8. ASSUME NEW a \in 1 .. n, NEW b \in 1 .. n, BlocksOf(t, a - 1) < k, k <= BlocksOf(t, a),
             BlocksOf(t, b - 1) < k, k <= BlocksOf(t, b)
      PROVE  a = b
  <2>1. ~(a < b) /\ ~(b < a)
    BY <1>7, <1>8
  <2> QED BY <2>1, <1>1
<1> QED BY <1>5, <1>6, <1>8 DEF n

(* What the share of an entry is. *)
Shared(t, taken, E) ==
    /\ \A i \in 1 .. Len(t) :
        /\ Share(t, taken, i) \in Seq(E) /\ Len(Share(t, taken, i)) = NewBlocks(t[i])
        /\ Distinct(Share(t, taken, i)) /\ ToSet(Share(t, taken, i)) \subseteq ToSet(taken)
    /\ \A b \in ToSet(taken) : \E i \in 1 .. Len(t) : b \in ToSet(Share(t, taken, i))
    /\ \A i, j \in 1 .. Len(t) :
            i # j => ToSet(Share(t, taken, i)) \cap ToSet(Share(t, taken, j)) = {}

(* A piece of a sequence. *)
LEMMA PieceFacts ==
    ASSUME NEW E, NEW s \in Seq(E), NEW a \in Nat, NEW b \in Nat, a <= b, b <= Len(s),
           NEW u, u = SubSeq(s, a + 1, b)
    PROVE  /\ u \in Seq(E) /\ Len(u) = b - a /\ Len(u) \in Nat
           /\ \A k \in 1 .. Len(u) : u[k] = s[a + k]
<1>1. \A i \in (a + 1) .. b : s[i] \in E
  OBVIOUS
<1>2. Len(u) = IF a + 1 <= b THEN b - (a + 1) + 1 ELSE 0
  BY SubSeqProperties
<1>3. \A k \in 1 .. b - a : u[k] = s[a + k]
  BY SubSeqProperties
<1> QED BY <1>1, <1>2, <1>3, SubSeqProperties

(* The taken blocks are shared out. *)
LEMMA TakenIsSharedOut ==
    ASSUME StepInv, NEW t \in Seq(EntryType), NEW E, NEW taken \in Seq(E), Distinct(taken),
           Len(taken) = BlocksOf(t, Len(t))
    PROVE  Shared(t, taken, E)
<1> DEFINE n == Len(t)
           m == Len(taken)
           B(i) == BlocksOf(t, i)
           S(i) == Share(t, taken, i)
<1>1. /\ n \in Nat /\ m \in Nat /\ DOMAIN taken = 1 .. m /\ m = B(n)
      /\ \A i \in 0 .. n : B(i) \in Nat /\ B(i) <= m
      /\ \A i \in 1 .. n : B(i) = B(i - 1) + NewBlocks(t[i]) /\ NewBlocks(t[i]) \in Nat
  <2>1. /\ n \in Nat /\ m \in Nat /\ DOMAIN taken = 1 .. m /\ m = B(n)
        /\ \A i \in 0 .. n : B(i) \in Nat
        /\ \A i \in 1 .. n : B(i) = B(i - 1) + NewBlocks(t[i])
    BY BlocksOfFacts
  <2>2. \A i \in 0 .. n : B(i) <= m
    <3>1. ASSUME NEW i \in 0 .. n PROVE BlocksOf(t, i) <= BlocksOf(t, n)
      <4>1. n \in i .. Len(t)
        BY <2>1
      <4> QED BY <4>1, BlocksOfGrow
    <3> QED BY <3>1, <2>1
  <2>3. ASSUME NEW i \in 1 .. n PROVE NewBlocks(t[i]) \in Nat
    <3>1. t[i] \in EntryType
      OBVIOUS
    <3> QED BY <3>1, EntryBlocks
  <2> QED BY <2>1, <2>2, <2>3
<1>2. ASSUME NEW i \in 1 .. n
      PROVE  /\ B(i - 1) \in Nat /\ B(i) \in Nat /\ B(i - 1) <= B(i) /\ B(i) <= m
             /\ B(i) - B(i - 1) = NewBlocks(t[i])
  <2>1. i \in 0 .. n /\ i - 1 \in 0 .. n
    BY <1>1
  <2>2. /\ B(i - 1) \in Nat /\ B(i) \in Nat /\ B(i) <= m
        /\ B(i) = B(i - 1) + NewBlocks(t[i]) /\ NewBlocks(t[i]) \in Nat
    BY <2>1, <1>1
  <2> HIDE DEF B
  <2> QED BY <2>2
<1>3. ASSUME NEW i \in 1 .. n
      PROVE  /\ S(i) \in Seq(E) /\ Len(S(i)) = NewBlocks(t[i]) /\ Len(S(i)) \in Nat
             /\ DOMAIN S(i) = 1 .. Len(S(i))
             /\ \A k \in 1 .. Len(S(i)) : S(i)[k] = taken[B(i - 1) + k]
                                          /\ B(i - 1) + k \in 1 .. m
                                          /\ B(i - 1) < B(i - 1) + k /\ B(i - 1) + k <= B(i)
  <2>1. S(i) = SubSeq(taken, B(i - 1) + 1, B(i))
    BY DEF Share
  <2> HIDE DEF B, S, m
  <2>2. m = Len(taken)
    BY DEF m
  <2>3. /\ S(i) \in Seq(E) /\ Len(S(i)) = B(i) - B(i - 1) /\ Len(S(i)) \in Nat
        /\ \A k \in 1 .. Len(S(i)) : S(i)[k] = taken[B(i - 1) + k]
    <3> DEFINE a == B(i - 1)
               b == B(i)
               u == S(i)
    <3>1. a \in Nat /\ b \in Nat /\ a <= b /\ b <= Len(taken) /\ u = SubSeq(taken, a + 1, b)
      BY <2>1, <2>2, <1>2
    <3> HIDE DEF a, b, u
    <3>2. /\ u \in Seq(E) /\ Len(u) = b - a /\ Len(u) \in Nat
          /\ \A k \in 1 .. Len(u) : u[k] = taken[a + k]
      BY <3>1, PieceFacts
    <3> QED BY <3>2 DEF a, b, u
  <2>4. \A k \in 1 .. Len(S(i)) : /\ B(i - 1) + k \in 1 .. m
                                  /\ B(i - 1) < B(i - 1) + k /\ B(i - 1) + k <= B(i)
    BY <2>3, <1>2, <1>1
  <2> QED BY <2>3, <2>4, <1>2
<1>4. ASSUME NEW i \in 1 .. n PROVE Distinct(S(i)) /\ ToSet(S(i)) \subseteq ToSet(taken)
  <2> HIDE DEF S, B, m
  <2>1. ASSUME NEW k \in 1 .. Len(S(i)), NEW l \in 1 .. Len(S(i)), S(i)[k] = S(i)[l]
        PROVE  k = l
    <3>1. B(i - 1) + k = B(i - 1) + l
      BY <2>1, <1>3, <1>1 DEF Distinct
    <3> QED BY <3>1, <1>2
  <2>2. ToSet(S(i)) \subseteq ToSet(taken)
    <3> SUFFICES ASSUME NEW b \in ToSet(S(i)) PROVE b \in ToSet(taken)
      OBVIOUS
    <3>1. PICK k \in 1 .. Len(S(i)) : b = S(i)[k]
      BY <1>3 DEF ToSet
    <3>2. b = taken[B(i - 1) + k] /\ B(i - 1) + k \in 1 .. m
      BY <3>1, <1>3
    <3> QED BY <3>2, <1>1 DEF ToSet
  <2> QED BY <2>1, <2>2, <1>3 DEF Distinct
<1>5. ASSUME NEW k \in 1 .. m, NEW i \in 1 .. n, B(i - 1) < k, k <= B(i)
      PROVE  taken[k] \in ToSet(S(i))
  <2> HIDE DEF S, B, m
  <2>1. k - B(i - 1) \in 1 .. Len(S(i)) /\ B(i - 1) + (k - B(i - 1)) = k
    BY <1>5, <1>2, <1>3, <1>1
  <2>2. S(i)[k - B(i - 1)] = taken[k]
    BY <2>1, <1>3
  <2> QED BY <2>1, <2>2, <1>3 DEF ToSet
<1>6. ASSUME NEW k \in 1 .. m
      PROVE  /\ \E i \in 1 .. n : B(i - 1) < k /\ k <= B(i)
             /\ \A i, j \in 1 .. n : /\ B(i - 1) < k /\ k <= B(i)
                                     /\ B(j - 1) < k /\ k <= B(j)
                                     => i = j
  BY SpanOf
<1> HIDE DEF B, S, n, m
<1>7. \A b \in ToSet(taken) : \E i \in 1 .. n : b \in ToSet(S(i))
  BY <1>1, <1>5, <1>6 DEF ToSet
<1>8. ASSUME NEW i \in 1 .. n, NEW j \in 1 .. n, i # j, NEW b \in ToSet(S(i)), b \in ToSet(S(j))
      PROVE  FALSE
  <2>1. PICK k \in 1 .. Len(S(i)) : b = S(i)[k]
    BY <1>3, <1>8 DEF ToSet
  <2>2. PICK l \in 1 .. Len(S(j)) : b = S(j)[l]
    BY <1>3, <1>8 DEF ToSet
  <2>3. B(i - 1) + k = B(j - 1) + l
    <3>1. /\ B(i - 1) + k \in 1 .. m /\ B(j - 1) + l \in 1 .. m
          /\ taken[B(i - 1) + k] = taken[B(j - 1) + l]
      BY <2>1, <2>2, <1>3
    <3> QED BY <3>1, <1>1 DEF Distinct
  <2> QED BY <2>3, <1>3, <1>6, <1>8
<1> QED BY <1>3, <1>4, <1>7, <1>8 DEF Shared, S, n

(* An entry of the plan. *)
LEMMA PlanEntry ==
    ASSUME StepInv, NEW i \in 1 .. Len(plan)
    PROVE  /\ EntryOK(plan[i]) /\ plan[i] \in EntryType /\ plan[i].r \in Requests
           /\ plan[i].new \in BOOLEAN /\ plan[i].prefill \in BOOLEAN
           /\ plan[i].match \in Seq(Blocks) /\ plan[i].base \in Nat
           /\ plan[i].n \in Nat /\ plan[i].d \in Nat /\ Target(plan[i]) \in Nat
<1>1. EntryOK(plan[i])
  BY DEF StepInv, PlanOK
<1>2. plan[i] \in EntryType
  BY <1>1 DEF EntryOK
<1>3. /\ plan[i].r \in Requests
      /\ plan[i].new \in BOOLEAN /\ plan[i].prefill \in BOOLEAN
      /\ plan[i].match \in Seq(Blocks) /\ plan[i].base \in Nat
      /\ plan[i].n \in Nat /\ plan[i].d \in Nat
  BY <1>2 DEF EntryType
<1> QED BY <1>1, <1>2, <1>3 DEF Target

(* The blocks that each entry adopts. *)
Adoptions(t) == [i \in DOMAIN t |-> t[i].match]

(* The blocks a plan adopts are indexed and referenced. *)
LEMMA PlanAdoptions ==
    ASSUME StepInv, phase = "planned", NEW n, n = Len(plan)
    PROVE  /\ n \in Nat /\ DOMAIN plan = 1 .. n /\ Adoptions(plan) \in [1 .. n -> Seq(Blocks)]
           /\ \A i \in 1 .. n : Distinct(Adoptions(plan)[i])
           /\ \A i \in 1 .. n : \A x \in ToSet(Adoptions(plan)[i]) :
                    x \in Indexed(cache) /\ x \in Blocks /\ cache.ref[x] >= 1
<1>1. /\ plan \in Seq(EntryType) /\ n \in Nat /\ DOMAIN plan = 1 .. n
      /\ \A i \in 1 .. n : /\ EntryOK(plan[i]) /\ plan[i] \in EntryType
                           /\ Chained(cache, req[plan[i].r].tokens, plan[i].match)
  BY DEF StepInv, PlanOK, PhaseOK
<1>2. \A i \in 1 .. n : /\ Adoptions(plan)[i] = plan[i].match
                        /\ plan[i].match \in Seq(Blocks) /\ Distinct(plan[i].match)
                        /\ plan[i].match \in Seq(Indexed(cache))
  BY <1>1 DEF Adoptions, EntryType, EntryOK, Chained
<1>3. Adoptions(plan) \in [1 .. n -> Seq(Blocks)]
  BY <1>1, <1>2 DEF Adoptions
<1>4. ASSUME NEW b \in Indexed(cache) PROVE b \in Blocks /\ cache.ref[b] >= 1
  BY ParentFacts DEF StepInv
<1>5. ASSUME NEW i \in 1 .. n, NEW x \in ToSet(Adoptions(plan)[i])
      PROVE  x \in Indexed(cache)
  BY <1>2 DEF ToSet
<1> QED BY <1>1, <1>2, <1>3, <1>4, <1>5

(* Adopting adds one reference for every entry that adopts the block. *)
LEMMA AdoptedCache ==
    ASSUME StepInv, phase = "planned"
    PROVE  Became(cache, FoldLeft(AddRef, cache, FlattenSeq(Adoptions(plan))),
                  [x \in Blocks |-> cache.ref[x] + Count(Adoptions(plan), Len(plan), x)],
                  Indexed(cache), {})
<1>1. PoolInv(cache)
  BY DEF StepInv
<1> DEFINE n == Len(plan)
           ms == Adoptions(plan)
<1>2. /\ n \in Nat /\ ms \in [1 .. n -> Seq(Blocks)]
      /\ \A i \in 1 .. n : Distinct(ms[i]) /\ \A x \in ToSet(ms[i]) : cache.ref[x] >= 1
  BY PlanAdoptions
<1> HIDE DEF n, ms
<1>3. Became(cache, FoldLeft(AddRef, cache, FlattenSeq(ms)),
             [x \in Blocks |-> cache.ref[x] + Count(ms, n, x)], Indexed(cache), {})
  BY <1>1, <1>2, AddRefsEffect
<1> QED BY <1>3 DEF n, ms

(* The cache once the plan's adoptions hold their references, and the room *)
(* the reservation makes in it.                                            *)
HeldCache == FoldLeft(AddRef, cache, FlattenSeq(Adoptions(plan)))

(* The pool when room has been made. *)
RoomCache ==
    LET shortfall == BlocksOf(plan, Len(plan)) - AvailableBlocks(HeldCache)
    IN  IF shortfall > 0 THEN Reclaim(HeldCache, shortfall) ELSE HeldCache

(* The blocks that are reserved. *)
TakenBlocks == LowestFreeBlocks(RoomCache, BlocksOf(plan, Len(plan)))

(* What the reservation does, in these terms. *)
LEMMA ReserveOutcome ==
    ASSUME StepInv, ReserveStep
    PROVE  /\ phase = "planned" /\ UNCHANGED <<table, residents, pool, req, plan>>
           /\ IF ReservationConsistent
                 /\ BlocksOf(plan, Len(plan)) <= AvailableBlocks(RoomCache)
              THEN /\ cache' = CollectIdentities(
                                 ReserveBlocks(RoomCache, BlocksOf(plan, Len(plan))),
                                 IdentityRoots(table))
                   /\ rsv' = [i \in DOMAIN plan |->
                                [r |-> plan[i].r, from |-> plan[i].base,
                                 target |-> Target(plan[i]), adopted |-> plan[i].match,
                                 new |-> Share(plan, TakenBlocks, i)]]
                   /\ phase' = "reserved"
              ELSE phase' = "unhealthy" /\ UNCHANGED <<cache, rsv>>
<1>1. Len(plan) \in Nat /\ DOMAIN plan = 1 .. Len(plan)
  BY DEF StepInv, PlanOK
<1>2. \A i \in Int : BlocksBefore(i) = BlocksOf(plan, i - 1)
  BY DEF BlocksBefore, BlocksOf
<1>3. BlocksBefore(Len(plan) + 1) = BlocksOf(plan, Len(plan))
  <2>1. Len(plan) + 1 \in Int /\ Len(plan) + 1 - 1 = Len(plan)
    BY <1>1
  <2> QED BY <2>1, <1>2
<1>4. ASSUME NEW i \in DOMAIN plan
      PROVE  SubSeq(TakenBlocks, BlocksBefore(i) + 1, BlocksBefore(i + 1))
                = Share(plan, TakenBlocks, i)
  <2>1. i \in Int /\ i + 1 \in Int /\ i + 1 - 1 = i
    BY <1>1
  <2>2. BlocksBefore(i) = BlocksOf(plan, i - 1) /\ BlocksBefore(i + 1) = BlocksOf(plan, i)
    BY <2>1, <1>2
  <2> QED BY <2>2 DEF Share
<1>5. [i \in DOMAIN plan |-> [r |-> plan[i].r, from |-> plan[i].base,
             target |-> Target(plan[i]), adopted |-> plan[i].match,
             new |-> SubSeq(TakenBlocks, BlocksBefore(i) + 1, BlocksBefore(i + 1))]]
       = [i \in DOMAIN plan |-> [r |-> plan[i].r, from |-> plan[i].base,
             target |-> Target(plan[i]), adopted |-> plan[i].match,
             new |-> Share(plan, TakenBlocks, i)]]
  <2> DEFINE F(i, s) == [r |-> plan[i].r, from |-> plan[i].base, target |-> Target(plan[i]),
                         adopted |-> plan[i].match, new |-> s]
  <2> HIDE DEF F
  <2>1. [i \in DOMAIN plan |-> F(i, SubSeq(TakenBlocks, BlocksBefore(i) + 1, BlocksBefore(i + 1)))]
          = [i \in DOMAIN plan |-> F(i, Share(plan, TakenBlocks, i))]
    BY <1>4
  <2> QED BY <2>1 DEF F
<1> QED BY <1>3, <1>5, Zenon DEF ReserveStep, HeldCache, RoomCache, TakenBlocks, Adoptions

(* Making room evicts blocks that only the index refers to. *)
RoomMade(T) ==
    /\ T \subseteq {b \in Indexed(cache) : cache.ref[b] = 1}
    /\ \A b \in T : Count(Adoptions(plan), Len(plan), b) = 0
    /\ Became(cache, RoomCache,
              [b \in Blocks |-> IF b \in T THEN 0
                                ELSE cache.ref[b] + Count(Adoptions(plan), Len(plan), b)],
              Indexed(cache) \ T, T)

(* Making room is such a change. *)
LEMMA RoomFacts ==
    ASSUME StepInv, phase = "planned"
    PROVE  \E T : RoomMade(T)
<1> DEFINE n == Len(plan)
           C(b) == Count(Adoptions(plan), Len(plan), b)
           R == [x \in Blocks |-> cache.ref[x] + C(x)]
           shortfall == BlocksOf(plan, n) - AvailableBlocks(HeldCache)
<1>1. Became(cache, HeldCache, R, Indexed(cache), {})
  BY AdoptedCache DEF HeldCache
<1>2. /\ cache.ref \in [Blocks -> Nat] /\ PoolInv(cache)
      /\ \A b \in Indexed(cache) : b \in Blocks /\ cache.ref[b] >= 1
  BY ParentFacts DEF StepInv, LP!LedgerInv, LP!TypeOK
<1>3. \A b \in Blocks : C(b) \in Nat
  <2>1. n \in Nat
    BY PlanAdoptions
  <2> QED BY <2>1, CountStep
<1>4. PoolInv(HeldCache) /\ HeldCache.ref = R /\ Indexed(HeldCache) = Indexed(cache)
  BY <1>1 DEF Became
<1>5. shortfall \in Int
  <2>1. BlocksOf(plan, n) \in Int
    BY BlocksOfFacts DEF StepInv, PlanOK
  <2>2. AvailableBlocks(HeldCache) \in Int
    <3>1. IsFiniteSet(FreeBlocks(HeldCache))
      BY BlocksFinite, FS_Subset DEF FreeBlocks
    <3> QED BY <3>1, FS_CardinalityType DEF AvailableBlocks
  <2> QED BY <2>1, <2>2
<1> HIDE DEF C, R, shortfall
<1>6. CASE shortfall > 0
  <2> DEFINE T == FirstReclaimable(HeldCache, shortfall)
  <2>1. RoomCache = Reclaim(HeldCache, shortfall) /\ shortfall \in Nat
    BY <1>5, <1>6 DEF RoomCache, shortfall
  <2>2. /\ Became(HeldCache, RoomCache,
                  [x \in Blocks |-> IF x \in T THEN 0 ELSE HeldCache.ref[x]],
                  Indexed(HeldCache) \ T, T)
        /\ T \subseteq {b \in Indexed(HeldCache) : HeldCache.ref[b] = 1}
    BY <2>1, <1>4, ReclaimEffect, FirstReclaimableFacts
  <2> HIDE DEF T
  <2>3. ASSUME NEW b \in T PROVE b \in Indexed(cache) /\ cache.ref[b] = 1 /\ C(b) = 0
    <3>1. b \in Indexed(cache) /\ b \in Blocks /\ R[b] = 1
      BY <2>2, <1>2, <1>4
    <3>2. cache.ref[b] + C(b) = 1 /\ cache.ref[b] >= 1 /\ cache.ref[b] \in Nat /\ C(b) \in Nat
      BY <3>1, <1>2, <1>3 DEF R
    <3> QED BY <3>1, <3>2
  <2>4. [x \in Blocks |-> IF x \in T THEN 0 ELSE HeldCache.ref[x]]
          = [x \in Blocks |-> IF x \in T THEN 0 ELSE cache.ref[x] + C(x)]
    BY <1>4 DEF R
  <2>5. Became(cache, RoomCache, [x \in Blocks |-> IF x \in T THEN 0 ELSE cache.ref[x] + C(x)],
               Indexed(cache) \ T, {} \cup T)
    BY <1>1, <1>4, <2>2, <2>4, BecameTwice
  <2>6. {} \cup T = T
    OBVIOUS
  <2> QED BY <2>3, <2>5, <2>6 DEF RoomMade, C
<1>7. CASE ~(shortfall > 0)
  <2>1. RoomCache = HeldCache
    BY <1>7 DEF RoomCache, shortfall
  <2>2. R = [x \in Blocks |-> IF x \in {} THEN 0 ELSE cache.ref[x] + C(x)]
        /\ Indexed(cache) = Indexed(cache) \ {}
    BY DEF R
  <2>3. RoomMade({})
    BY <1>1, <2>1, <2>2 DEF RoomMade, C
  <2> QED BY <2>3
<1> QED BY <1>6, <1>7

(* What a reservation did to the cache: T was evicted and s was taken. *)
Took(T, s) ==
    /\ T \subseteq {b \in Indexed(cache) : cache.ref[b] = 1}
    /\ \A b \in T : Count(Adoptions(plan), Len(plan), b) = 0
    /\ Picks(s, BlocksOf(plan, Len(plan)), {b \in Blocks : b \in T \/ cache.ref[b] = 0})
    /\ \E d, K :
        /\ Became(cache, d,
                  [b \in Blocks |-> (IF b \in T THEN 0 ELSE cache.ref[b])
                                    + Count(Adoptions(plan), Len(plan), b) + Bit(b \in ToSet(s))],
                  Indexed(cache) \ T, T)
        /\ Collected(d, cache', IdentityRoots(table), K)
    /\ rsv' = [i \in DOMAIN plan |->
                [r |-> plan[i].r, from |-> plan[i].base, target |-> Target(plan[i]),
                 adopted |-> plan[i].match, new |-> Share(plan, s, i)]]

(* A reservation that succeeds takes its blocks that way. *)
LEMMA ReservedCache ==
    ASSUME StepInv, ReserveStep, phase' = "reserved"
    PROVE  \E T, s : Took(T, s)
<1> DEFINE n == BlocksOf(plan, Len(plan))
           C(b) == Count(Adoptions(plan), Len(plan), b)
           d == ReserveBlocks(RoomCache, n)
<1>1. /\ phase = "planned" /\ n <= AvailableBlocks(RoomCache)
      /\ cache' = CollectIdentities(d, IdentityRoots(table))
      /\ rsv' = [i \in DOMAIN plan |->
                    [r |-> plan[i].r, from |-> plan[i].base, target |-> Target(plan[i]),
                     adopted |-> plan[i].match, new |-> Share(plan, TakenBlocks, i)]]
  <2>1. ~(ReservationConsistent /\ n <= AvailableBlocks(RoomCache)) => phase' = "unhealthy"
    BY ReserveOutcome
  <2>2. ReservationConsistent /\ n <= AvailableBlocks(RoomCache)
    BY <2>1
  <2> QED BY <2>2, ReserveOutcome
<1>2. n \in Nat
  BY BlocksOfFacts DEF StepInv, PlanOK
<1>3. PICK T : RoomMade(T)
  BY <1>1, RoomFacts
<1>4. \A b \in Blocks : C(b) \in Nat
  <2>1. Len(plan) \in Nat
    BY <1>1, PlanAdoptions
  <2> QED BY <2>1, CountStep
<1>5. /\ cache.ref \in [Blocks -> Nat] /\ T \subseteq Blocks
      /\ T \subseteq {b \in Indexed(cache) : cache.ref[b] = 1}
  BY <1>3, IndexedBlocks DEF StepInv, LP!LedgerInv, LP!TypeOK, RoomMade
<1> DEFINE R == [b \in Blocks |-> IF b \in T THEN 0 ELSE cache.ref[b] + C(b)]
<1>6. /\ Became(cache, RoomCache, R, Indexed(cache) \ T, T) /\ \A b \in T : C(b) = 0
      /\ PoolInv(RoomCache) /\ RoomCache.ref = R /\ Indexed(RoomCache) = Indexed(cache) \ T
  BY <1>3 DEF RoomMade, Became
<1> HIDE DEF n, C
<1>7. /\ Picks(TakenBlocks, n, FreeBlocks(RoomCache))
      /\ Became(RoomCache, d, [x \in Blocks |-> RoomCache.ref[x] + Bit(x \in ToSet(TakenBlocks))],
                Indexed(RoomCache), {})
  <2>1. TakenBlocks = LowestFreeBlocks(RoomCache, n)
    BY DEF TakenBlocks, n
  <2> QED BY <2>1, <1>1, <1>2, <1>6, ReserveBlocksEffect
<1> HIDE DEF R
<1>8. FreeBlocks(RoomCache) \subseteq {b \in Blocks : b \in T \/ cache.ref[b] = 0}
  <2> SUFFICES ASSUME NEW b \in Blocks, R[b] = 0, b \notin T PROVE cache.ref[b] = 0
    BY <1>6 DEF FreeBlocks
  <2>1. cache.ref[b] + C(b) = 0 /\ cache.ref[b] \in Nat /\ C(b) \in Nat
    BY <1>4, <1>5 DEF R
  <2> QED BY <2>1
<1>9. Picks(TakenBlocks, n, {b \in Blocks : b \in T \/ cache.ref[b] = 0})
  <2>1. /\ TakenBlocks \in Seq(FreeBlocks(RoomCache)) /\ Len(TakenBlocks) = n
        /\ Distinct(TakenBlocks) /\ ToSet(TakenBlocks) \subseteq FreeBlocks(RoomCache)
    BY <1>7 DEF Picks
  <2>2. TakenBlocks \in Seq({b \in Blocks : b \in T \/ cache.ref[b] = 0})
    BY <2>1, <1>8
  <2> QED BY <2>1, <2>2, <1>8 DEF Picks
<1>10. [x \in Blocks |-> RoomCache.ref[x] + Bit(x \in ToSet(TakenBlocks))]
         = [b \in Blocks |-> (IF b \in T THEN 0 ELSE cache.ref[b]) + C(b)
                             + Bit(b \in ToSet(TakenBlocks))]
  <2>1. ASSUME NEW b \in Blocks
        PROVE  RoomCache.ref[b] = (IF b \in T THEN 0 ELSE cache.ref[b]) + C(b)
    BY <1>4, <1>5, <1>6 DEF R
  <2> QED BY <2>1
<1>11. Became(cache, d, [b \in Blocks |-> (IF b \in T THEN 0 ELSE cache.ref[b]) + C(b)
                             + Bit(b \in ToSet(TakenBlocks))], Indexed(cache) \ T, T \cup {})
  BY <1>6, <1>7, <1>10, BecameTwice
<1>12. \E K : Collected(d, cache', IdentityRoots(table), K)
  <2>1. IdentityRoots(table) \in SUBSET (Ids \cup {NoId})
    BY RootsType DEF StepInv, TablesOK
  <2>2. PoolInv(d)
    BY <1>11 DEF Became
  <2> HIDE DEF d
  <2> QED BY <2>1, <2>2, <1>1, CollectEffect
<1>13. T \cup {} = T
  OBVIOUS
<1> HIDE DEF d
<1>14. Took(T, TakenBlocks)
  BY <1>1, <1>5, <1>6, <1>9, <1>11, <1>12, <1>13 DEF Took, n, C
<1> QED BY <1>14

(* The deltas of a reservation, and the cache it leaves. *)
Deltas(T, s) ==
    /\ AreDeltas(rsv', Len(plan)) /\ rsv' \in Seq(DeltaType) /\ Len(rsv') = Len(plan)
    /\ \A i \in 1 .. Len(plan) :
        /\ rsv'[i].r = plan[i].r /\ rsv'[i].from = plan[i].base
        /\ rsv'[i].target = Target(plan[i]) /\ rsv'[i].adopted = plan[i].match
        /\ rsv'[i].new = Share(plan, s, i)
        /\ ToSet(rsv'[i].adopted) \subseteq Indexed(cache) \ T
        /\ ToSet(rsv'[i].new) \subseteq ToSet(s)
        /\ Distinct(rsv'[i].new) /\ Len(rsv'[i].new) = NewBlocks(plan[i])
    /\ \A i, j \in 1 .. Len(plan) :
            i # j => ToSet(rsv'[i].new) \cap ToSet(rsv'[j].new) = {}
    /\ \A b \in ToSet(s) : b \in Blocks /\ (b \in T \/ cache.ref[b] = 0)
                           /\ \E i \in 1 .. Len(plan) : b \in ToSet(rsv'[i].new)
    /\ \A b \in T : b \in Indexed(cache) /\ b \in Blocks /\ cache.ref[b] = 1

(* The deltas it makes share out what it took. *)
LEMMA DeltaFacts ==
    ASSUME StepInv, phase = "planned", NEW T, NEW s, Took(T, s)
    PROVE  Deltas(T, s)
<1> DEFINE n == Len(plan)
           ms == Adoptions(plan)
           Z == {b \in Blocks : b \in T \/ cache.ref[b] = 0}
<1>1. /\ n \in Nat /\ DOMAIN plan = 1 .. n /\ ms \in [1 .. n -> Seq(Blocks)]
      /\ \A i \in 1 .. n : ms[i] = plan[i].match
      /\ \A i \in 1 .. n : \A x \in ToSet(ms[i]) : x \in Indexed(cache) /\ x \in Blocks
  BY PlanAdoptions DEF Adoptions
<1>2. /\ plan \in Seq(EntryType) /\ DistinctRequests(plan)
      /\ \A i \in 1 .. n : plan[i] \in EntryType
  BY DEF StepInv, PlanOK
<1>3. /\ s \in Seq(Z) /\ Distinct(s) /\ Len(s) = BlocksOf(plan, Len(plan)) /\ ToSet(s) \subseteq Z
      /\ T \subseteq {b \in Indexed(cache) : cache.ref[b] = 1}
      /\ \A b \in T : Count(ms, n, b) = 0
      /\ rsv' = [i \in DOMAIN plan |->
                [r |-> plan[i].r, from |-> plan[i].base, target |-> Target(plan[i]),
                 adopted |-> plan[i].match, new |-> Share(plan, s, i)]]
  BY DEF Took, Picks
<1>4. Shared(plan, s, Z)
  <2> HIDE DEF Z
  <2> QED BY <1>2, <1>3, TakenIsSharedOut
<1>5. ASSUME NEW i \in 1 .. n
      PROVE  /\ Share(plan, s, i) \in Seq(Blocks) /\ Len(Share(plan, s, i)) = NewBlocks(plan[i])
             /\ Distinct(Share(plan, s, i)) /\ ToSet(Share(plan, s, i)) \subseteq ToSet(s)
  <2>1. /\ Share(plan, s, i) \in Seq(Z) /\ Len(Share(plan, s, i)) = NewBlocks(plan[i])
        /\ Distinct(Share(plan, s, i)) /\ ToSet(Share(plan, s, i)) \subseteq ToSet(s)
    BY <1>4 DEF Shared
  <2>2. Z \subseteq Blocks
    OBVIOUS
  <2> HIDE DEF Z
  <2> QED BY <2>1, <2>2
<1>6. ASSUME NEW i \in 1 .. n PROVE ToSet(ms[i]) \cap T = {}
  <2> SUFFICES ASSUME NEW b \in ToSet(ms[i]), b \in T PROVE FALSE
    OBVIOUS
  <2>1. {k \in 1 .. n : b \in ToSet(ms[k])} # {}
    OBVIOUS
  <2>2. IsFiniteSet({k \in 1 .. n : b \in ToSet(ms[k])})
    <3>1. IsFiniteSet(1 .. n)
      BY <1>1, FS_Interval
    <3> QED BY <3>1, FS_Subset
  <2>3. Cardinality({k \in 1 .. n : b \in ToSet(ms[k])}) # 0
    BY <2>1, <2>2, FS_EmptySet
  <2> QED BY <2>3, <1>3 DEF Count
<1>7. ASSUME NEW i \in 1 .. n
      PROVE  /\ rsv'[i].r = plan[i].r /\ rsv'[i].from = plan[i].base
             /\ rsv'[i].target = Target(plan[i]) /\ rsv'[i].adopted = plan[i].match
             /\ rsv'[i].new = Share(plan, s, i)
             /\ rsv'[i] \in DeltaType /\ rsv'[i].r \in Requests
  <2>1. rsv'[i] = [r |-> plan[i].r, from |-> plan[i].base, target |-> Target(plan[i]),
                   adopted |-> plan[i].match, new |-> Share(plan, s, i)]
    BY <1>1, <1>3
  <2>2. plan[i].r \in Requests /\ plan[i].base \in Nat /\ plan[i].n \in Nat
        /\ plan[i].match \in Seq(Blocks)
    <3>1. plan[i] \in EntryType
      BY <1>2
    <3> QED BY <3>1 DEF EntryType
  <2>3. Target(plan[i]) \in Nat
    BY <2>2 DEF Target
  <2> QED BY <2>1, <2>2, <2>3, <1>5 DEF DeltaType
<1>8. rsv' \in [1 .. n -> DeltaType]
  BY <1>1, <1>3, <1>7
<1>9. rsv' \in Seq(DeltaType) /\ Len(rsv') = n /\ DOMAIN rsv' = 1 .. n
  BY <1>1, <1>8, FunctionIsSeq
<1>10. AreDeltas(rsv', n)
  <2>1. \A i \in 1 .. n : rsv'[i].r = plan[i].r /\ rsv'[i].r \in Requests
    BY <1>7
  <2>2. \A i, j \in 1 .. n : plan[i].r = plan[j].r => i = j
    BY <1>1, <1>2 DEF DistinctRequests
  <2> QED BY <2>1, <2>2, <1>9 DEF AreDeltas, DistinctRequests
<1> HIDE DEF Z
<1>11. ASSUME NEW i \in 1 .. n
       PROVE  /\ rsv'[i].r = plan[i].r /\ rsv'[i].from = plan[i].base
              /\ rsv'[i].target = Target(plan[i]) /\ rsv'[i].adopted = plan[i].match
              /\ rsv'[i].new = Share(plan, s, i)
              /\ ToSet(rsv'[i].adopted) \subseteq Indexed(cache) \ T
              /\ ToSet(rsv'[i].new) \subseteq ToSet(s)
              /\ Distinct(rsv'[i].new) /\ Len(rsv'[i].new) = NewBlocks(plan[i])
  <2>1. /\ rsv'[i].r = plan[i].r /\ rsv'[i].from = plan[i].base
        /\ rsv'[i].target = Target(plan[i]) /\ rsv'[i].adopted = plan[i].match
        /\ rsv'[i].new = Share(plan, s, i)
    BY <1>7
  <2>2. ms[i] = plan[i].match /\ ToSet(ms[i]) \subseteq Indexed(cache) /\ ToSet(ms[i]) \cap T = {}
    BY <1>1, <1>6
  <2> HIDE DEF ms
  <2> QED BY <2>1, <2>2, <1>5
<1>12. ASSUME NEW i \in 1 .. n, NEW j \in 1 .. n, i # j
       PROVE  ToSet(rsv'[i].new) \cap ToSet(rsv'[j].new) = {}
  BY <1>4, <1>11, <1>12 DEF Shared
<1>13. ASSUME NEW b \in ToSet(s)
       PROVE  b \in Blocks /\ (b \in T \/ cache.ref[b] = 0)
              /\ \E i \in 1 .. n : b \in ToSet(rsv'[i].new)
  BY <1>3, <1>4, <1>11 DEF Shared, Z
<1>14. \A b \in T : b \in Indexed(cache) /\ b \in Blocks /\ cache.ref[b] = 1
  BY <1>3, IndexedBlocks DEF StepInv, PoolInv
<1> QED BY <1>9, <1>10, <1>11, <1>12, <1>13, <1>14 DEF Deltas

(* How often a block is claimed. *)
LEMMA ReservedCount ==
    ASSUME StepInv, phase = "planned", NEW T, NEW s, Took(T, s), NEW b \in Blocks
    PROVE  LP!Cardinality(LP!Users(Claimed', b))
             = Count(Adoptions(plan), Len(plan), b) + Bit(b \in ToSet(s))
<1> DEFINE n == Len(plan)
           ms == Adoptions(plan)
           U == {i \in 1 .. n : b \in ToSet(rsv'[i].adopted) \cup ToSet(rsv'[i].new)}
<1>1. Deltas(T, s) /\ n \in Nat
  BY DeltaFacts, PlanAdoptions
<1>2. LP!Cardinality(LP!Users(Claimed', b)) = Cardinality(U)
  <2>1. Claimed' = ClaimedOf(rsv')
    BY DEF Claimed, ClaimedOf
  <2>2. AreDeltas(rsv', n)
    BY <1>1 DEF Deltas
  <2> QED BY <2>1, <2>2, <1>1, ClaimCount
<1>3. \A i \in 1 .. n : rsv'[i].adopted = ms[i]
  BY <1>1, PlanAdoptions DEF Deltas, Adoptions
<1>4. CASE b \notin ToSet(s)
  <2>1. U = {i \in 1 .. n : b \in ToSet(ms[i])}
    BY <1>1, <1>3, <1>4 DEF Deltas
  <2>2. Count(ms, n, b) \in Nat
    BY <1>1, CountStep
  <2>3. Cardinality(U) = Count(ms, n, b)
    BY <2>1 DEF Count
  <2> HIDE DEF U, ms, n
  <2>4. Bit(b \in ToSet(s)) = 0
    BY <1>4 DEF Bit
  <2> QED BY <2>2, <2>3, <2>4, <1>2 DEF ms, n
<1>5. CASE b \in ToSet(s)
  <2>1. PICK k \in 1 .. n : b \in ToSet(rsv'[k].new)
    BY <1>1, <1>5 DEF Deltas
  <2>2. \A i \in 1 .. n : b \notin ToSet(rsv'[i].adopted)
    <3>1. b \in T \/ cache.ref[b] = 0
      BY <1>1, <1>5 DEF Deltas
    <3>2. b \notin Indexed(cache) \ T
      BY <3>1, ParentFacts DEF StepInv
    <3> QED BY <3>2, <1>1 DEF Deltas
  <2>3. \A i \in 1 .. n : b \in ToSet(rsv'[i].new) => i = k
    BY <2>1, <1>1 DEF Deltas
  <2>4. U = {k}
    BY <2>1, <2>2, <2>3
  <2>5. {i \in 1 .. n : b \in ToSet(ms[i])} = {}
    BY <2>2, <1>3
  <2>6. Cardinality(U) = 1 /\ Count(ms, n, b) = 0
    BY <2>4, <2>5, FS_Singleton, FS_EmptySet DEF Count
  <2>7. Bit(b \in ToSet(s)) = 1
    BY <1>5 DEF Bit
  <2> HIDE DEF U, ms, n
  <2> QED BY <2>6, <2>7, <1>2 DEF ms, n
<1> QED BY <1>4, <1>5

(* What the reservation leaves of the cache, field by field. *)
ReservedFields(T, s) ==
    /\ PoolInv(cache')
    /\ cache'.ref = [b \in Blocks |-> (IF b \in T THEN 0 ELSE cache.ref[b])
                                      + Count(Adoptions(plan), Len(plan), b) + Bit(b \in ToSet(s))]
    /\ Indexed(cache') = Indexed(cache) \ T
    /\ cache'.size = [b \in Blocks |-> IF b \in T THEN 0 ELSE cache.size[b]]
    /\ cache'.kv = [b \in Blocks |-> IF b \in T THEN EmptyBlock ELSE cache.kv[b]]
    /\ cache'.ident = [b \in Blocks |-> IF b \in T THEN NoId ELSE cache.ident[b]]
    /\ cache'.limit = cache.limit
    /\ \E K : /\ cache'.idents = [i \in Ids |-> IF i \in K THEN cache.idents[i] ELSE Unused]
              /\ IdentityRoots(table) \subseteq K /\ {cache'.ident[b] : b \in Blocks} \subseteq K
              /\ Parents(cache, K) \subseteq K

(* What a reservation leaves in each field of the cache. *)
LEMMA ReservedFieldsFacts ==
    ASSUME StepInv, NEW T, NEW s, Took(T, s)
    PROVE  ReservedFields(T, s)
<1> DEFINE R == [b \in Blocks |-> (IF b \in T THEN 0 ELSE cache.ref[b])
                                  + Count(Adoptions(plan), Len(plan), b) + Bit(b \in ToSet(s))]
<1>1. PICK d, K : /\ Became(cache, d, R, Indexed(cache) \ T, T)
                  /\ Collected(d, cache', IdentityRoots(table), K)
  BY DEF Took
<1> HIDE DEF R
<1>2. /\ d.ref = R /\ Indexed(d) = Indexed(cache) \ T
      /\ d.size = [b \in Blocks |-> IF b \in T THEN 0 ELSE cache.size[b]]
      /\ d.kv = [b \in Blocks |-> IF b \in T THEN EmptyBlock ELSE cache.kv[b]]
      /\ d.ident = [b \in Blocks |-> IF b \in T THEN NoId ELSE cache.ident[b]]
      /\ d.limit = cache.limit /\ d.idents = cache.idents
  BY <1>1 DEF Became, ClearedIn
<1>3. /\ PoolInv(cache') /\ cache'.ref = d.ref /\ Indexed(cache') = Indexed(d)
      /\ cache'.size = d.size /\ cache'.kv = d.kv /\ cache'.ident = d.ident
      /\ cache'.limit = d.limit
      /\ cache'.idents = [i \in Ids |-> IF i \in K THEN d.idents[i] ELSE Unused]
      /\ IdentityRoots(table) \subseteq K /\ {d.ident[b] : b \in Blocks} \subseteq K
      /\ Parents(d, K) \subseteq K
  BY <1>1 DEF Collected
<1>4. Parents(d, K) = Parents(cache, K)
  BY <1>2 DEF Parents
<1> QED BY <1>2, <1>3, <1>4 DEF ReservedFields, R

(* The ledger reserves. *)
LEMMA ReserveLedger ==
    ASSUME StepInv, ReserveStep, phase' = "reserved", NEW T, NEW s, Took(T, s)
    PROVE  LP!Reserve
<1> DEFINE n == Len(plan)
           C(b) == Count(Adoptions(plan), Len(plan), b)
<1>1. /\ phase = "planned" /\ table' = table /\ rsv = <<>>
      /\ Deltas(T, s) /\ ReservedFields(T, s) /\ n \in Nat
  BY ReserveOutcome, DeltaFacts, ReservedFieldsFacts, PlanAdoptions DEF StepInv, RsvOK, Reserved
<1>2. Claimed = LP!NoBlocks
  BY <1>1 DEF Claimed, LP!NoBlocks
<1>3. Claimed' = ClaimedOf(rsv') /\ AreDeltas(rsv', n) /\ Held' = Held
  BY <1>1 DEF Claimed, ClaimedOf, Held, Deltas
<1>4. ASSUME NEW r \in Requests, NEW b \in Claimed'[r]
      PROVE  \E i \in 1 .. n : /\ rsv'[i].r = r /\ plan[i].r = r
                               /\ b \in ToSet(rsv'[i].adopted) \cup ToSet(rsv'[i].new)
  BY <1>1, <1>3 DEF ClaimedOf, AreDeltas, Deltas
<1>5. \A b \in Indexed(cache) : b \in Blocks /\ cache.ref[b] >= 1
  BY ParentFacts DEF StepInv
<1>6. ASSUME NEW r \in Requests, NEW b \in Claimed'[r]
      PROVE  /\ b \in Blocks
             /\ b \in Indexed(cache) \ T \/ b \in ToSet(s)
  BY <1>1, <1>4, <1>5 DEF Deltas
<1>7. Indexed(cache') = Indexed(cache) \ T /\ Indexed(cache) \ Indexed(cache') = T
      /\ T \subseteq {b \in Indexed(cache) : cache.ref[b] = 1}
  BY <1>1 DEF ReservedFields, Deltas
<1>8. Claimed' \in [Requests -> SUBSET Blocks]
  <2>1. Claimed' = [r \in Requests |-> Claimed'[r]]
    BY <1>3 DEF ClaimedOf
  <2> QED BY <2>1, <1>6
<1>9. \A r \in Requests : Claimed'[r] \subseteq Indexed(cache') \cup LP!Takeable
  <2> SUFFICES ASSUME NEW r \in Requests, NEW b \in Claimed'[r]
               PROVE  b \in Indexed(cache') \cup LP!Takeable
    OBVIOUS
  <2>1. b \in Blocks /\ (b \in Indexed(cache') \/ b \in T \/ cache.ref[b] = 0)
    BY <1>1, <1>6, <1>7 DEF Deltas
  <2> QED BY <2>1, <1>7 DEF LP!Takeable
<1>10. ASSUME NEW b \in ToSet(s), NEW r \in Requests PROVE b \notin Held[r]
  <2>1. b \in Blocks /\ (b \in T \/ cache.ref[b] = 0)
    BY <1>1 DEF Deltas
  <2>2. cache.ref[b] <= Bit(b \in Indexed(cache))
    <3>1. CASE b \in T
      BY <3>1, <1>7 DEF Bit
    <3>2. CASE cache.ref[b] = 0
      BY <3>2 DEF Bit
    <3> QED BY <2>1, <3>1, <3>2
  <2> QED BY <2>1, <2>2, UnusedBlocks DEF StepInv
<1>11. ASSUME NEW r \in Requests PROVE Claimed'[r] \cap Held[r] = {}
  <2> SUFFICES ASSUME NEW b \in Claimed'[r], b \in Held[r] PROVE FALSE
    OBVIOUS
  <2>1. PICK i \in 1 .. n : /\ plan[i].r = r
                            /\ b \in ToSet(rsv'[i].adopted) \cup ToSet(rsv'[i].new)
    BY <1>4
  <2>2. b \notin ToSet(s)
    BY <1>10
  <2>3. b \in ToSet(plan[i].match)
    BY <2>1, <2>2, <1>1 DEF Deltas
  <2>4. EntryOK(plan[i]) /\ plan[i].new \in BOOLEAN
    BY PlanEntry
  <2>5. plan[i].new
    <3>1. ~plan[i].new => plan[i].match = <<>>
      BY <2>4 DEF EntryOK
    <3> QED BY <3>1, <2>3, <2>4 DEF ToSet
  <2>6. table[r] = EmptyTable
    BY <2>1, <2>4, <2>5 DEF StepInv, TablesOK, EntryOK
  <2> QED BY <2>6 DEF Held, EmptyTable, ToSet
<1>12. ASSUME NEW r \in Requests, NEW q \in Requests, r # q
       PROVE  Claimed'[r] \cap Claimed'[q] \subseteq Indexed(cache')
  <2> SUFFICES ASSUME NEW b \in Claimed'[r], b \in Claimed'[q], b \notin Indexed(cache') PROVE FALSE
    OBVIOUS
  <2>1. PICK i \in 1 .. n : /\ rsv'[i].r = r
                            /\ b \in ToSet(rsv'[i].adopted) \cup ToSet(rsv'[i].new)
    BY <1>4
  <2>2. PICK j \in 1 .. n : /\ rsv'[j].r = q
                            /\ b \in ToSet(rsv'[j].adopted) \cup ToSet(rsv'[j].new)
    BY <1>4
  <2>3. b \in ToSet(rsv'[i].new) /\ b \in ToSet(rsv'[j].new) /\ i # j
    BY <2>1, <2>2, <1>1, <1>7, <1>12 DEF Deltas
  <2> QED BY <2>3, <1>1 DEF Deltas
<1>13. cache'.ref = [b \in Blocks |->
            (IF b \in Indexed(cache) \ Indexed(cache') THEN 0 ELSE cache.ref[b])
            + LP!Cardinality(LP!Users(Claimed', b))]
  <2> DEFINE A(b) == IF b \in T THEN 0 ELSE cache.ref[b]
             D(b) == LP!Cardinality(LP!Users(Claimed', b))
  <2>1. cache'.ref = [b \in Blocks |-> A(b) + C(b) + Bit(b \in ToSet(s))]
    BY <1>1 DEF ReservedFields
  <2>2. ASSUME NEW b \in Blocks PROVE A(b) + C(b) + Bit(b \in ToSet(s)) = A(b) + D(b)
    <3>1. D(b) = C(b) + Bit(b \in ToSet(s))
      BY <1>1, ReservedCount
    <3>2. A(b) \in Int /\ C(b) \in Int /\ Bit(b \in ToSet(s)) \in Int
      <4>1. cache.ref \in [Blocks -> Nat]
        BY DEF StepInv, LP!LedgerInv, LP!TypeOK
      <4>2. C(b) \in Nat
        BY <1>1, CountStep
      <4> QED BY <4>1, <4>2 DEF Bit
    <3> HIDE DEF A, C, D
    <3> QED BY <3>1, <3>2
  <2>3. [b \in Blocks |-> A(b) + C(b) + Bit(b \in ToSet(s))] = [b \in Blocks |-> A(b) + D(b)]
    <3> HIDE DEF A, C, D
    <3> QED BY <2>2
  <2> QED BY <2>1, <2>3, <1>7
<1> QED BY <1>2, <1>3, <1>7, <1>8, <1>9, <1>11, <1>12, <1>13 DEF LP!Reserve, LP!Reclaimable

(* Nothing a plan says changes while requests, residents and tables stay. *)
LEMMA PlanUntouched ==
    ASSUME StepInv, UNCHANGED <<config, table, residents, pool, req, plan>>
    PROVE  RequestsOK' /\ QueuesOK' /\ PlanOK' /\ StagingOK' /\ StartedPrefillOwnsItsPrompt'
           /\ config' \in Configurations
<1>1. RequestType' = RequestType /\ MaxSession' = MaxSession /\ EntryType' = EntryType
  BY DEF RequestType, Tokens, MaxSession, EntryType
<1>2. RequestsOK'
  BY <1>1 DEF StepInv, RequestsOK, SessionOK
<1>3. QueuesOK'
  BY DEF StepInv, QueuesOK
<1>4. PlanOK'
  <2>1. \A i \in 1 .. Len(plan) : EntryOK(plan[i])'
    <3> SUFFICES ASSUME NEW i \in 1 .. Len(plan) PROVE EntryOK(plan[i])'
      OBVIOUS
    <3>1. EntryOK(plan[i])
      BY PlanEntry
    <3> QED BY <3>1, <1>1 DEF EntryOK, IsExecutable
  <2> QED BY <2>1, <1>1 DEF StepInv, PlanOK, DistinctRequests
<1>5. StagingOK'
  BY DEF StepInv, StagingOK, Adopts
<1>6. StartedPrefillOwnsItsPrompt'
  BY DEF StepInv, StartedPrefillOwnsItsPrompt, IsPrefill
<1>7. config' \in Configurations
  BY DEF StepInv
<1> QED BY <1>2, <1>3, <1>4, <1>5, <1>6, <1>7

(* The table a delta would commit. *)
LEMMA DeltaTable ==
    ASSUME StepInv, NEW i \in 1 .. Len(plan), NEW new \in Seq(Blocks),
           Len(new) = NewBlocks(plan[i]), NEW u,
           u = (IF plan[i].new THEN plan[i].match ELSE table[plan[i].r].blocks) \o new
    PROVE  /\ u \in Seq(Blocks) /\ Len(u) = HeldBlocks(plan[i]) + Len(new)
           /\ Len(u) * BlockSize >= Larger(Len(req[plan[i].r].tokens), Target(plan[i]))
<1> DEFINE e == plan[i]
           old == IF e.new THEN e.match ELSE table[e.r].blocks
<1>1. e \in EntryType /\ e.match \in Seq(Blocks) /\ e.r \in Requests
  BY PlanEntry
<1>2. table[e.r].blocks \in Seq(Blocks)
  <2>1. table[e.r] \in TableType
    BY <1>1 DEF StepInv, TablesOK
  <2> QED BY <2>1 DEF TableType
<1>3. old \in Seq(Blocks) /\ Len(old) = HeldBlocks(e) /\ u = old \o new
  BY <1>1, <1>2 DEF HeldBlocks
<1> HIDE DEF old, e
<1>4. u \in Seq(Blocks) /\ Len(u) = Len(old) + Len(new)
  <2>1. \A E : \A a, b \in Seq(E) : a \o b \in Seq(E) /\ Len(a \o b) = Len(a) + Len(b)
    BY ConcatFacts
  <2> QED BY <1>3, <2>1, ZenonT(30)
<1>5. Slots(e) <= (HeldBlocks(e) + NewBlocks(e)) * BlockSize
      /\ Slots(e) \in Nat /\ (HeldBlocks(e) + NewBlocks(e)) * BlockSize \in Int
  <2>1. HeldBlocks(e) + NewBlocks(e) \in Int
    BY <1>1, EntryBlocks
  <2> QED BY <2>1, <1>1, EntryBlocks, TimesBlockSize
<1>6. Len(u) = HeldBlocks(e) + NewBlocks(e)
  BY <1>3, <1>4 DEF e
<1>7. Len(u) * BlockSize >= Slots(e)
  BY <1>5, <1>6
<1> QED BY <1>3, <1>4, <1>7 DEF Slots, Target, e

(* The step reserves its blocks, or finds that it cannot. *)
LEMMA ReservePreserves ==
    ASSUME StepInv, ReserveStep, config' = config
    PROVE  StepInv' /\ (LP!Reserve \/ UNCHANGED LP!vars)
<1>1. /\ phase = "planned" /\ UNCHANGED <<config, table, residents, pool, req, plan>>
      /\ rsv = <<>>
  BY ReserveOutcome DEF StepInv, RsvOK, Reserved
<1>2. /\ RequestsOK' /\ QueuesOK' /\ PlanOK' /\ StagingOK' /\ StartedPrefillOwnsItsPrompt'
      /\ config' \in Configurations
  BY <1>1, PlanUntouched
<1>3. CASE phase' # "reserved"
  <2>1. phase' = "unhealthy" /\ UNCHANGED <<cache, rsv>>
    BY <1>3, ReserveOutcome
  <2>2. PoolInv(cache)' /\ UNCHANGED LP!vars /\ LP!LedgerInv' /\ TablesOK' /\ SizesOK'
    BY <2>1, <1>1, CacheUntouched
  <2>3. RsvOK' /\ PhaseOK'
    BY <2>1, <1>1 DEF RsvOK, Reserved, PhaseOK
  <2> QED BY <2>2, <2>3, <1>2 DEF StepInv
<1>4. CASE phase' = "reserved"
  <2>1. PICK T, s : Took(T, s)
    BY <1>4, ReservedCache
  <2>2. LP!Reserve
    BY <2>1, <1>4, ReserveLedger
  <2>3. LP!LedgerInv'
    BY <2>2, LedgerStep DEF StepInv, LP!Next
  <2>4. Deltas(T, s) /\ ReservedFields(T, s)
    BY <2>1, <1>1, DeltaFacts, ReservedFieldsFacts
  <2>5. /\ \A b \in T : b \in Indexed(cache) /\ b \in Blocks /\ cache.ref[b] = 1
        /\ \A b \in ToSet(s) : b \in Blocks /\ (b \in T \/ cache.ref[b] = 0)
        /\ \A b \in Indexed(cache) : b \in Blocks /\ cache.ref[b] >= 1
    BY <2>4, ParentFacts DEF Deltas, StepInv
  <2>6. PoolInv(cache)' /\ Indexed(cache') = Indexed(cache) \ T
        /\ cache'.size = [b \in Blocks |-> IF b \in T THEN 0 ELSE cache.size[b]]
    BY <2>4 DEF ReservedFields
  <2>7. TablesOK'
    <3>1. \A r \in Requests : Alive(cache', table[r].sealedId)
      <4> SUFFICES ASSUME NEW r \in Requests PROVE Alive(cache', table[r].sealedId)
        OBVIOUS
      <4>1. PICK K : /\ cache'.idents = [i \in Ids |-> IF i \in K THEN cache.idents[i] ELSE Unused]
                     /\ IdentityRoots(table) \subseteq K
        BY <2>4 DEF ReservedFields
      <4>2. table[r].sealedId \in K
        BY <4>1 DEF IdentityRoots
      <4>3. table[r] \in TableType /\ Alive(cache, table[r].sealedId)
        BY DEF StepInv, TablesOK
      <4>4. table[r].sealedId \in Ids \cup {NoId}
        BY <4>3 DEF TableType
      <4> QED BY <4>1, <4>2, <4>3, <4>4 DEF Alive
    <3>2. TableType' = TableType
      BY DEF TableType
    <3> QED BY <3>1, <3>2, <1>1 DEF StepInv, TablesOK
  <2>8. SizesOK'
    <3>1. /\ \A b \in Blocks : cache.ref[b] = 0 => cache.size[b] = 0
          /\ \A b \in Indexed(cache) : cache.size[b] = BlockSize
          /\ \A r \in Requests : \A j \in 1 .. Len(table[r].blocks) :
                cache.size[table[r].blocks[j]] = Filled(table[r].committed, j)
      BY DEF StepInv, SizesOK
    <3>2. ASSUME NEW b \in Blocks, cache'.ref[b] = 0 PROVE cache'.size[b] = 0
      <4>1. CASE b \in T
        BY <4>1, <2>6
      <4>2. CASE b \notin T
        <5>1. cache.ref[b] \in Nat /\ Count(Adoptions(plan), Len(plan), b) \in Nat
          <6>1. cache.ref \in [Blocks -> Nat]
            BY DEF StepInv, LP!LedgerInv, LP!TypeOK
          <6>2. Len(plan) \in Nat
            BY <1>1, PlanAdoptions
          <6> QED BY <6>1, <6>2, CountStep
        <5>2. cache'.ref[b] = cache.ref[b] + Count(Adoptions(plan), Len(plan), b)
                              + Bit(b \in ToSet(s))
          BY <4>2, <2>4 DEF ReservedFields
        <5>3. cache.ref[b] = 0
          BY <3>2, <5>1, <5>2 DEF Bit
        <5> QED BY <5>3, <3>1, <2>6
      <4> QED BY <4>1, <4>2
    <3>3. ASSUME NEW b \in Indexed(cache') PROVE cache'.size[b] = BlockSize
      BY <3>1, <2>5, <2>6
    <3>4. ASSUME NEW r \in Requests, NEW j \in 1 .. Len(table[r].blocks)
          PROVE  cache'.size[table[r].blocks[j]] = cache.size[table[r].blocks[j]]
      <4> DEFINE b == table[r].blocks[j]
      <4>1. b \in Held[r]
        <5>1. table[r].blocks \in Seq(Blocks)
          BY DEF StepInv, TablesOK, TableType
        <5> QED BY <5>1 DEF Held, ToSet
      <4> HIDE DEF b
      <4>2. b \in Blocks /\ cache.ref[b] >= 1 + Bit(b \in Indexed(cache))
        BY <4>1, UsersCount DEF StepInv
      <4>3. b \notin T
        BY <4>2, <2>5 DEF Bit
      <4> QED BY <4>2, <4>3, <2>6 DEF b
    <3>5. ASSUME NEW i \in 1 .. Len(rsv'), NEW b \in ToSet(rsv'[i].new) PROVE cache'.size[b] = 0
      <4>1. b \in ToSet(s)
        BY <2>4 DEF Deltas
      <4> QED BY <4>1, <2>5, <2>6, <3>1
    <3> QED BY <3>1, <3>2, <3>3, <3>4, <3>5, <1>1 DEF SizesOK, Filled
  <2>9. RsvOK'
    <3>1. ASSUME NEW i \in 1 .. Len(plan) PROVE DeltaOK(i)'
      <4>1. /\ rsv'[i].r = plan[i].r /\ rsv'[i].from = plan[i].base
            /\ rsv'[i].target = Target(plan[i]) /\ rsv'[i].adopted = plan[i].match
            /\ ToSet(rsv'[i].adopted) \subseteq Indexed(cache) \ T
            /\ ToSet(rsv'[i].new) \subseteq ToSet(s)
            /\ Distinct(rsv'[i].new) /\ Len(rsv'[i].new) = NewBlocks(plan[i])
            /\ rsv' \in Seq(DeltaType) /\ Len(rsv') = Len(plan)
        BY <2>4 DEF Deltas
      <4>2. rsv'[i] \in DeltaType
        BY <4>1
      <4>3. rsv'[i].new \in Seq(Blocks)
        BY <4>2 DEF DeltaType
      <4>4. ToSet(rsv'[i].new) \cap Indexed(cache') = {}
        BY <4>1, <2>5, <2>6
      <4>5. BlockTable(i)' = (IF plan[i].new THEN plan[i].match ELSE table[plan[i].r].blocks)
                             \o rsv'[i].new
        BY <4>1, <1>1 DEF BlockTable
      <4>6. Len(BlockTable(i)') * BlockSize
              >= Larger(Len(req[plan[i].r].tokens), Target(plan[i]))
        BY <4>1, <4>3, <4>5, DeltaTable
      <4>7. Target(plan[i])' = Target(plan[i]) /\ DeltaType' = DeltaType
        BY <1>1 DEF Target, DeltaType
      <4>8. Larger(Len(req[plan[i].r].tokens), rsv[i].target)'
               = Larger(Len(req[plan[i].r].tokens), Target(plan[i]))
        BY <4>1, <1>1 DEF Larger
      <4> QED BY <4>1, <4>2, <4>4, <4>6, <4>7, <4>8, <2>6, <1>1 DEF DeltaOK
    <3>2. DeltaType' = DeltaType
      BY DEF DeltaType
    <3>3. rsv' \in Seq(DeltaType) /\ Len(rsv') = Len(plan)
      BY <2>4 DEF Deltas
    <3> QED BY <3>1, <3>2, <3>3, <1>1, <1>4 DEF RsvOK, Reserved
  <2>10. PhaseOK'
    BY <1>4 DEF PhaseOK
  <2> QED BY <2>2, <2>3, <2>6, <2>7, <2>8, <2>9, <2>10, <1>2 DEF StepInv
<1> QED BY <1>3, <1>4

---------------------------------------------------------------------------
(* Executing. *)

(* The cache with other sizes and other contents. *)
Rewritten(c, S, F) == [c EXCEPT !.size = S, !.kv = F]

(* Nothing else depends on them. *)
LEMMA RewrittenFacts ==
    ASSUME NEW c, PoolInv(c), NEW S, S = [b \in Blocks |-> S[b]],
           NEW F, F = [b \in Blocks |-> F[b]], NEW d, d = Rewritten(c, S, F)
    PROVE  /\ PoolInv(d) /\ d.ref = c.ref /\ Indexed(d) = Indexed(c) /\ d.size = S /\ d.kv = F
           /\ d.ident = c.ident /\ d.idents = c.idents /\ d.limit = c.limit
<1>1. PICK V : c \in CacheType(V)
  BY DEF PoolInv, IsCache
<1> DEFINE W == V \cup {S[b] : b \in Blocks} \cup {F[b] : b \in Blocks}
<1>2. S \in [Blocks -> W] /\ F \in [Blocks -> W] /\ V \subseteq W
  OBVIOUS
<1> HIDE DEF W
<1>3. /\ c.ref \in [Blocks -> Nat] /\ c.ident \in [Blocks -> Ids \cup {NoId}]
      /\ c.recency \in Seq(Blocks) /\ c.reclaimable \in Seq(Blocks) /\ c.promote \in SUBSET Blocks
      /\ c.idents \in [Ids -> Identity(V)] /\ c.limit \in Nat
  BY <1>1 DEF CacheType
<1>4. c.idents \in [Ids -> Identity(W)]
  <2>1. Identity(V) \subseteq Identity(W)
    BY <1>2 DEF Identity
  <2> QED BY <2>1, <1>3
<1>5. d = [ref |-> c.ref, size |-> S, kv |-> F, ident |-> c.ident, recency |-> c.recency,
           reclaimable |-> c.reclaimable, promote |-> c.promote, idents |-> c.idents,
           limit |-> c.limit]
  BY <1>1 DEF Rewritten, CacheType
<1>6. d \in CacheType(W)
  <2>1. [ref |-> c.ref, size |-> S, kv |-> F, ident |-> c.ident, recency |-> c.recency,
         reclaimable |-> c.reclaimable, promote |-> c.promote, idents |-> c.idents,
         limit |-> c.limit] \in CacheType(W)
    BY <1>2, <1>3, <1>4, Zenon DEF CacheType
  <2> QED BY <2>1, <1>5
<1>7. IsCache(d)
  BY <1>6 DEF IsCache
<1>8. /\ d.ref = c.ref /\ d.ident = c.ident /\ d.recency = c.recency /\ d.size = S /\ d.kv = F
      /\ d.reclaimable = c.reclaimable /\ d.idents = c.idents /\ d.limit = c.limit
  BY <1>5
<1>9. Distinct(c.reclaimable) /\ ToSet(c.reclaimable) = {x \in Indexed(c) : c.ref[x] = 1}
      /\ \A x \in Indexed(c) : c.ref[x] >= 1
  BY ParentFacts DEF PoolInv, ListsOK
<1>10. PoolInv(d)
  BY <1>7, <1>8, <1>9, RecountedInv
<1> QED BY <1>8, <1>10 DEF Indexed

(* The slots a step writes, and what it writes into them. *)
WritesTo(b, s) ==
    {w \in (DOMAIN plan) \X (1 .. MaxSession) :
        /\ w[2] > rsv[w[1]].from /\ w[2] <= rsv[w[1]].target
        /\ BlockOf(w[1], w[2]) = b /\ SlotOf(w[2]) = s}

(* The contents that executing leaves. *)
Written ==
    [b \in Blocks |-> [s \in 1 .. BlockSize |->
        IF WritesTo(b, s) = {} THEN cache.kv[b][s]
        ELSE LET w == CHOOSE w \in WritesTo(b, s) : TRUE
             IN  SubSeq(FedTokens(plan[w[1]]), 1, w[2])]]

(* Executing changes the contents alone. *)
LEMMA ExecutedCache ==
    ASSUME StepInv, Execute
    PROVE  /\ PoolInv(cache') /\ cache'.ref = cache.ref /\ Indexed(cache') = Indexed(cache)
           /\ cache'.size = cache.size /\ cache'.kv = Written
           /\ cache'.ident = cache.ident /\ cache'.idents = cache.idents
           /\ cache'.limit = cache.limit
<1>1. PoolInv(cache) /\ IsCache(cache)
  BY DEF StepInv, PoolInv
<1>2. cache' = [cache EXCEPT !.kv = Written]
  BY DEF Execute, Written, WritesTo
<1>3. cache' = Rewritten(cache, cache.size, Written)
  <2>1. PICK V : cache \in CacheType(V)
    BY <1>1 DEF IsCache
  <2> QED BY <2>1, <1>2 DEF Rewritten, CacheType
<1>4. Written = [b \in Blocks |-> Written[b]]
  BY DEF Written
<1>5. cache.size = [b \in Blocks |-> cache.size[b]]
  BY <1>1, FieldTypes
<1> QED BY <1>1, <1>3, <1>4, <1>5, RewrittenFacts

(* Executing changes nothing but the contents. *)
LEMMA ExecutePreserves ==
    ASSUME StepInv, Execute, config' = config
    PROVE  StepInv' /\ UNCHANGED LP!vars
<1>1. /\ phase = "reserved" /\ phase' = "executed"
      /\ UNCHANGED <<config, table, residents, pool, req, plan, rsv>>
  BY DEF Execute
<1>2. /\ PoolInv(cache') /\ cache'.ref = cache.ref /\ Indexed(cache') = Indexed(cache)
      /\ cache'.size = cache.size /\ cache'.idents = cache.idents
  BY ExecutedCache
<1>3. /\ RequestsOK' /\ QueuesOK' /\ PlanOK' /\ StagingOK' /\ StartedPrefillOwnsItsPrompt'
      /\ config' \in Configurations
  BY <1>1, PlanUntouched
<1>4. UNCHANGED LP!vars
  BY <1>1, <1>2 DEF LP!vars, Held, Claimed
<1>5. LP!LedgerInv'
  BY <1>4, LedgerStep DEF StepInv
<1>6. TablesOK'
  <2>1. TableType' = TableType
    BY DEF TableType
  <2> QED BY <2>1, <1>1, <1>2 DEF StepInv, TablesOK, Alive
<1>7. SizesOK'
  BY <1>1, <1>2 DEF StepInv, SizesOK, Filled
<1>8. RsvOK'
  <2>1. DeltaType' = DeltaType
    BY DEF DeltaType
  <2>2. /\ rsv \in Seq(DeltaType) /\ Len(rsv) = Len(plan)
        /\ \A i \in 1 .. Len(plan) : DeltaOK(i)
    BY <1>1 DEF StepInv, RsvOK, Reserved
  <2>3. ASSUME NEW i \in 1 .. Len(plan) PROVE DeltaOK(i)'
    <3>1. DeltaOK(i) /\ BlockTable(i)' = BlockTable(i)
      BY <2>2, <1>1 DEF BlockTable
    <3> QED BY <3>1, <2>1, <1>1, <1>2 DEF DeltaOK, Target
  <2> QED BY <2>1, <2>2, <2>3, <1>1 DEF RsvOK, Reserved
<1>9. PhaseOK'
  BY <1>1 DEF PhaseOK
<1> QED BY <1>2, <1>3, <1>4, <1>5, <1>6, <1>7, <1>8, <1>9 DEF StepInv

---------------------------------------------------------------------------
(* Rolling back. *)

NewsOf == [i \in DOMAIN rsv |-> rsv[i].new]

(* The blocks that each delta adopts. *)
AdoptedOf == [i \in DOMAIN rsv |-> rsv[i].adopted]

(* The deltas of an open reservation. *)
LEMMA OpenDeltas ==
    ASSUME StepInv, Reserved, NEW n, n = Len(plan)
    PROVE  /\ n \in Nat /\ DOMAIN rsv = 1 .. n /\ DOMAIN plan = 1 .. n /\ Len(rsv) = n
           /\ NewsOf \in [1 .. n -> Seq(Blocks)] /\ AdoptedOf \in [1 .. n -> Seq(Blocks)]
           /\ AreDeltas(rsv, n)
           /\ \A i \in 1 .. n :
                /\ DeltaOK(i) /\ NewsOf[i] = rsv[i].new /\ AdoptedOf[i] = rsv[i].adopted
                /\ rsv[i] \in DeltaType /\ rsv[i].r = plan[i].r
                /\ Distinct(NewsOf[i]) /\ Distinct(AdoptedOf[i])
                /\ ToSet(AdoptedOf[i]) \subseteq Indexed(cache)
                /\ ToSet(NewsOf[i]) \cap Indexed(cache) = {}
<1>1. /\ plan \in Seq(EntryType) /\ rsv \in Seq(DeltaType) /\ Len(rsv) = n
      /\ \A i \in 1 .. n : DeltaOK(i)
  BY DEF StepInv, PlanOK, RsvOK
<1>2. n \in Nat /\ DOMAIN rsv = 1 .. n /\ DOMAIN plan = 1 .. n
  BY <1>1
<1>3. ASSUME NEW i \in 1 .. n
      PROVE  /\ NewsOf[i] = rsv[i].new /\ AdoptedOf[i] = rsv[i].adopted
             /\ rsv[i] \in DeltaType /\ rsv[i].r = plan[i].r /\ rsv[i].r \in Requests
             /\ rsv[i].new \in Seq(Blocks) /\ rsv[i].adopted \in Seq(Blocks)
             /\ Distinct(rsv[i].new) /\ Distinct(rsv[i].adopted)
             /\ ToSet(rsv[i].adopted) \subseteq Indexed(cache)
             /\ ToSet(rsv[i].new) \cap Indexed(cache) = {}
  <2>1. DeltaOK(i)
    BY <1>1
  <2>2. rsv[i] \in DeltaType
    BY <2>1 DEF DeltaOK
  <2>3. rsv[i].r \in Requests /\ rsv[i].new \in Seq(Blocks) /\ rsv[i].adopted \in Seq(Blocks)
    BY <2>2 DEF DeltaType
  <2>4. Distinct(rsv[i].adopted)
    <3>1. Distinct(plan[i].match)
      BY PlanEntry DEF EntryOK
    <3> QED BY <3>1, <2>1 DEF DeltaOK
  <2> QED BY <1>2, <2>1, <2>2, <2>3, <2>4 DEF DeltaOK, NewsOf, AdoptedOf
<1>4. NewsOf \in [1 .. n -> Seq(Blocks)] /\ AdoptedOf \in [1 .. n -> Seq(Blocks)]
  BY <1>2, <1>3 DEF NewsOf, AdoptedOf
<1>5. AreDeltas(rsv, n)
  <2>1. \A i, j \in 1 .. n : plan[i].r = plan[j].r => i = j
    BY <1>2 DEF StepInv, PlanOK, DistinctRequests
  <2> QED BY <2>1, <1>2, <1>3 DEF AreDeltas, DistinctRequests
<1> QED BY <1>1, <1>2, <1>3, <1>4, <1>5

(* The references of a block while a reservation is open. *)
LEMMA OpenCount ==
    ASSUME StepInv, Reserved, NEW n, n = Len(plan), NEW b \in Blocks,
           NEW cn, cn = Count(NewsOf, n, b), NEW ca, ca = Count(AdoptedOf, n, b),
           NEW h, h = LP!Cardinality(LP!Users(Held, b))
    PROVE  /\ cn \in Nat /\ ca \in Nat /\ h \in Nat
           /\ LP!Cardinality(LP!Users(Claimed, b)) = cn + ca
           /\ cache.ref[b] = h + cn + ca + Bit(b \in Indexed(cache))
           /\ cn >= 1 => b \notin Indexed(cache)
           /\ ca >= 1 => b \in Indexed(cache)
           /\ \A r \in Requests : b \in Held[r] => h >= 1
<1> DEFINE U == {i \in 1 .. n : b \in ToSet(rsv[i].adopted) \cup ToSet(rsv[i].new)}
           N == {i \in 1 .. n : b \in ToSet(NewsOf[i])}
           A == {i \in 1 .. n : b \in ToSet(AdoptedOf[i])}
<1>1. /\ n \in Nat /\ AreDeltas(rsv, n)
      /\ \A i \in 1 .. n :
            /\ NewsOf[i] = rsv[i].new /\ AdoptedOf[i] = rsv[i].adopted
            /\ ToSet(AdoptedOf[i]) \subseteq Indexed(cache)
            /\ ToSet(NewsOf[i]) \cap Indexed(cache) = {}
  BY OpenDeltas
<1>2. LP!Cardinality(LP!Users(Claimed, b)) = Cardinality(U)
  <2>1. Claimed = ClaimedOf(rsv)
    BY DEF Claimed, ClaimedOf
  <2> QED BY <2>1, <1>1, ClaimCount
<1>3. U = N \cup A /\ N \cap A = {}
  BY <1>1
<1>4. IsFiniteSet(N) /\ IsFiniteSet(A)
  <2>1. IsFiniteSet(1 .. n)
    BY <1>1, FS_Interval
  <2> QED BY <2>1, FS_Subset
<1>5. cn = Cardinality(N) /\ ca = Cardinality(A)
  BY DEF Count
<1> HIDE DEF U, N, A
<1>6. cn \in Nat /\ ca \in Nat
  BY <1>4, <1>5, FS_CardinalityType
<1>7. Cardinality(U) = cn + ca
  <2>1. Cardinality(N \cup A) = Cardinality(N) + Cardinality(A) - Cardinality(N \cap A)
    BY <1>4, FS_Union
  <2>2. Cardinality(N \cap A) = 0
    BY <1>3, FS_EmptySet
  <2> QED BY <2>1, <2>2, <1>3, <1>5, <1>6
<1>8. cn >= 1 => b \notin Indexed(cache)
  <2> SUFFICES ASSUME b \in Indexed(cache) PROVE ~(cn >= 1)
    OBVIOUS
  <2>1. N = {}
    BY <1>1 DEF N
  <2> QED BY <2>1, <1>5, FS_EmptySet
<1>9. ca >= 1 => b \in Indexed(cache)
  <2> SUFFICES ASSUME b \notin Indexed(cache) PROVE ~(ca >= 1)
    OBVIOUS
  <2>1. A = {}
    BY <1>1 DEF A
  <2> QED BY <2>1, <1>5, FS_EmptySet
<1>10. /\ LP!IsFiniteSet(LP!Users(Held, b)) /\ h \in Nat
       /\ h = 0 <=> LP!Users(Held, b) = {}
  BY LP!UsersFinite, LedgerCounts
<1>11. cache.ref[b] = h + Cardinality(U) + LP!One(b \in Indexed(cache))
  BY <1>2 DEF StepInv, LP!LedgerInv, LP!CountsAreExact
<1>12. LP!One(b \in Indexed(cache)) = Bit(b \in Indexed(cache))
       /\ Bit(b \in Indexed(cache)) \in Nat
  BY DEF LP!One, Bit
<1>13. cache.ref[b] = h + cn + ca + Bit(b \in Indexed(cache))
  BY <1>6, <1>7, <1>10, <1>11, <1>12
<1>14. ASSUME NEW r \in Requests, b \in Held[r] PROVE h >= 1
  <2>1. LP!Users(Held, b) # {}
    BY <1>14 DEF LP!Users
  <2> QED BY <2>1, <1>10
<1> QED BY <1>2, <1>6, <1>7, <1>8, <1>9, <1>10, <1>13, <1>14

(* The blocks a rollback empties: the ones the step had taken for itself. *)
Emptied == {b \in Blocks : Count(NewsOf, Len(plan), b) >= 1}

(* What a rollback does to the cache. *)
LEMMA RolledBackCache ==
    ASSUME StepInv, AbortStep
    PROVE  \E d, K :
             /\ Became(cache, d, [b \in Blocks |-> cache.ref[b]
                                    - LP!Cardinality(LP!Users(Claimed, b))],
                       Indexed(cache), Emptied)
             /\ Collected(d, cache', IdentityRoots(table), K)
<1> DEFINE n == Len(plan)
           N(b) == Count(NewsOf, Len(plan), b)
           A(b) == Count(AdoptedOf, Len(plan), b)
           H(b) == LP!Cardinality(LP!Users(Held, b))
           D(b) == LP!Cardinality(LP!Users(Claimed, b))
           I == Indexed(cache)
           c1 == FreeValidated(cache, FlattenSeq(NewsOf))
           c2 == FreeValidated(c1, FlattenSeq(AdoptedOf))
<1>1. Reserved
  BY DEF AbortStep, Reserved
<1>2. /\ n \in Nat /\ NewsOf \in [1 .. n -> Seq(Blocks)] /\ AdoptedOf \in [1 .. n -> Seq(Blocks)]
      /\ \A i \in 1 .. n : Distinct(NewsOf[i]) /\ Distinct(AdoptedOf[i])
  BY <1>1, OpenDeltas
<1>3. ASSUME NEW b \in Blocks
      PROVE  /\ N(b) \in Nat /\ A(b) \in Nat /\ H(b) \in Nat /\ D(b) = N(b) + A(b)
             /\ cache.ref[b] = H(b) + N(b) + A(b) + Bit(b \in I)
             /\ N(b) >= 1 => b \notin I
             /\ A(b) >= 1 => b \in I
             /\ \A r \in Requests : b \in Held[r] => H(b) >= 1
  BY <1>1, OpenCount
<1>4. cache' = CollectIdentities(c2, IdentityRoots(table))
  BY DEF AbortStep, ReleaseReservation, Taken, Adopted, NewsOf, AdoptedOf
<1>5. \A b \in Blocks : Bit(b \in I) \in Nat /\ (b \in I => Bit(b \in I) = 1)
                        /\ (b \notin I => Bit(b \in I) = 0)
  BY DEF Bit
<1>6. PoolInv(cache)
  BY DEF StepInv
<1> HIDE DEF N, A, H, D, n
<1>7. Became(cache, c1, [x \in Blocks |-> cache.ref[x] - N(x)], I,
             {x \in Blocks : N(x) >= 1 /\ cache.ref[x] = N(x)})
  <2>1. \A x \in Blocks : cache.ref[x] >= N(x) + Bit(x \in I)
    BY <1>3, <1>5
  <2> QED BY <2>1, <1>2, <1>6, ReleasesEffect DEF N, n
<1>8. PoolInv(c1) /\ c1.ref = [x \in Blocks |-> cache.ref[x] - N(x)] /\ Indexed(c1) = I
  BY <1>7 DEF Became
<1> HIDE DEF c1
<1>9. Became(c1, c2, [x \in Blocks |-> c1.ref[x] - A(x)], I,
             {x \in Blocks : A(x) >= 1 /\ c1.ref[x] = A(x)})
  <2>1. \A x \in Blocks : c1.ref[x] >= A(x) + Bit(x \in Indexed(c1))
    BY <1>3, <1>5, <1>8
  <2> QED BY <2>1, <1>2, <1>8, ReleasesEffect DEF A, n
<1>10. {x \in Blocks : A(x) >= 1 /\ c1.ref[x] = A(x)} = {}
  <2> SUFFICES ASSUME NEW x \in Blocks, A(x) >= 1, c1.ref[x] = A(x) PROVE FALSE
    OBVIOUS
  <2>1. cache.ref[x] - N(x) = A(x) /\ Bit(x \in I) = 1
    BY <1>3, <1>5, <1>8
  <2> QED BY <2>1, <1>3
<1>11. {x \in Blocks : N(x) >= 1 /\ cache.ref[x] = N(x)} = Emptied
  <2>1. ASSUME NEW x \in Blocks, N(x) >= 1 PROVE cache.ref[x] = N(x)
    <3>1. x \notin I
      BY <2>1, <1>3
    <3>2. A(x) = 0
      BY <3>1, <1>3
    <3>3. H(x) = 0
      \* A block in a table and in a claim is shared, and so indexed.
      <4>1. SUFFICES ASSUME H(x) # 0 PROVE FALSE
        OBVIOUS
      <4>2. LP!Users(Held, x) # {} /\ LP!Users(Claimed, x) # {}
        <5>1. D(x) # 0
          BY <2>1, <1>3
        <5> QED BY <5>1, <4>1, LP!UsersFinite, LedgerCounts DEF H, D
      <4>3. PICK r \in Requests, q \in Requests : x \in Held[r] /\ x \in Claimed[q]
        BY <4>2 DEF LP!Users
      <4>4. Held[r] \cap Claimed[r] = {}
        BY DEF StepInv, LP!LedgerInv, LP!ClaimsAreNew
      <4>5. r # q
        BY <4>3, <4>4
      <4> QED BY <4>3, <4>5, <3>1, SharedBlock DEF StepInv
    <3>4. Bit(x \in I) = 0
      BY <3>1, <1>5
    <3> QED BY <3>2, <3>3, <3>4, <1>3
  <2> QED BY <2>1 DEF Emptied, N
<1>12. [x \in Blocks |-> c1.ref[x] - A(x)] = [b \in Blocks |-> cache.ref[b] - D(b)]
  <2>1. ASSUME NEW b \in Blocks PROVE c1.ref[b] - A(b) = cache.ref[b] - D(b)
    <3>1. c1.ref[b] = cache.ref[b] - N(b) /\ cache.ref[b] \in Int
      BY <1>3, <1>5, <1>8
    <3> QED BY <3>1, <1>3
  <2> QED BY <2>1
<1>13. Became(cache, c2, [b \in Blocks |-> cache.ref[b] - D(b)], I, Emptied \cup {})
  BY <1>7, <1>9, <1>10, <1>11, <1>12, BecameTwice
<1>14. \E K : Collected(c2, cache', IdentityRoots(table), K)
  <2>1. IdentityRoots(table) \in SUBSET (Ids \cup {NoId})
    BY RootsType DEF StepInv, TablesOK
  <2>2. PoolInv(c2)
    BY <1>13 DEF Became
  <2> HIDE DEF c2
  <2> QED BY <2>1, <2>2, <1>4, CollectEffect
<1>15. Emptied \cup {} = Emptied
  OBVIOUS
<1> QED BY <1>13, <1>14, <1>15 DEF D

(* e is what became of c once the identities nobody needs are gone. *)
Settled(c, e, R, I, F, roots, K) ==
    /\ PoolInv(e) /\ e.ref = R /\ Indexed(e) = I
    /\ e.size = [b \in Blocks |-> IF b \in F THEN 0 ELSE c.size[b]]
    /\ e.kv = [b \in Blocks |-> IF b \in F THEN EmptyBlock ELSE c.kv[b]]
    /\ e.ident = [b \in Blocks |-> IF b \in F THEN NoId ELSE c.ident[b]]
    /\ e.limit = c.limit
    /\ e.idents = [i \in Ids |-> IF i \in K THEN c.idents[i] ELSE Unused]
    /\ roots \subseteq K /\ {e.ident[b] : b \in Blocks} \subseteq K
    /\ Parents(c, K) \subseteq K

(* Freeing blocks and collecting identities, field by field. *)
LEMMA SettledFacts ==
    ASSUME NEW c, NEW d, NEW e, NEW R, NEW I, NEW F, NEW roots, NEW K,
           Became(c, d, R, I, F), Collected(d, e, roots, K)
    PROVE  Settled(c, e, R, I, F, roots, K)
<1>1. /\ d.ref = R /\ Indexed(d) = I
      /\ d.size = [b \in Blocks |-> IF b \in F THEN 0 ELSE c.size[b]]
      /\ d.kv = [b \in Blocks |-> IF b \in F THEN EmptyBlock ELSE c.kv[b]]
      /\ d.ident = [b \in Blocks |-> IF b \in F THEN NoId ELSE c.ident[b]]
      /\ d.limit = c.limit /\ d.idents = c.idents
  BY DEF Became, ClearedIn
<1>2. /\ PoolInv(e) /\ e.ref = d.ref /\ Indexed(e) = Indexed(d)
      /\ e.size = d.size /\ e.kv = d.kv /\ e.ident = d.ident /\ e.limit = d.limit
      /\ e.idents = [i \in Ids |-> IF i \in K THEN d.idents[i] ELSE Unused]
      /\ roots \subseteq K /\ {d.ident[b] : b \in Blocks} \subseteq K
      /\ Parents(d, K) \subseteq K
  BY DEF Collected
<1>3. Parents(d, K) = Parents(c, K)
  BY <1>1 DEF Parents
<1> QED BY <1>1, <1>2, <1>3 DEF Settled

(* Tables that stay keep their identities. *)
LEMMA TablesSettled ==
    ASSUME StepInv, UNCHANGED <<table, residents>>, NEW R, NEW I, NEW F, NEW K,
           Settled(cache, cache', R, I, F, IdentityRoots(table), K)
    PROVE  TablesOK'
<1>1. ASSUME NEW r \in Requests PROVE Alive(cache', table[r].sealedId)
  <2>1. table[r] \in TableType /\ Alive(cache, table[r].sealedId)
    BY DEF StepInv, TablesOK
  <2>2. table[r].sealedId \in Ids \cup {NoId} /\ table[r].sealedId \in IdentityRoots(table)
    BY <2>1 DEF TableType, IdentityRoots
  <2>3. /\ cache'.idents = [i \in Ids |-> IF i \in K THEN cache.idents[i] ELSE Unused]
        /\ IdentityRoots(table) \subseteq K
    BY DEF Settled
  <2> QED BY <2>1, <2>2, <2>3 DEF Alive
<1>2. TableType' = TableType
  BY DEF TableType
<1> QED BY <1>1, <1>2 DEF StepInv, TablesOK

(* The requests of a step that is rolled back. *)
LEMMA RolledBackRequests ==
    ASSUME StepInv, AbortStep, config' = config
    PROVE  /\ RequestsOK' /\ QueuesOK' /\ StartedPrefillOwnsItsPrompt'
           /\ \A r \in Requests : /\ req'[r].tokens = req[r].tokens
                                  /\ req'[r].status # "Failed" =>
                                        req'[r].processed = table[r].committed
<1>1. req' = RollbackPrefixAdoption(plan) /\ UNCHANGED <<table, residents, pool>>
  BY DEF AbortStep
<1>2. DOMAIN plan = 1 .. Len(plan)
  BY DEF StepInv, PlanOK
<1>3. ASSUME NEW r \in Requests
      PROVE  /\ req[r] \in RequestType /\ req'[r] \in RequestType
             /\ SessionOK(req[r]) /\ SessionOK(req'[r])
             /\ req'[r].status = req[r].status /\ req'[r].tokens = req[r].tokens
             /\ req'[r].prompt = req[r].prompt
             /\ req'[r].status # "Failed" => req'[r].processed = table[r].committed
             /\ req'[r].status = "Active" => req'[r].processed = req[r].processed
  <2> DEFINE q == req[r]
             p == req'[r]
  <2>1. q \in RequestType /\ SessionOK(q)
    BY DEF StepInv, RequestsOK
  <2>2. q.status # "Failed" =>
            \/ q.processed = table[r].committed /\ ~Adopts(plan, r)
            \/ \E i \in 1 .. Len(plan) : plan[i].r = r /\ plan[i].match # <<>>
    BY DEF StepInv, StagingOK
  <2>3. CASE ~Adopts(plan, r)
    <3>1. p = q
      BY <2>3, <1>1 DEF RollbackPrefixAdoption
    <3>2. q.status # "Failed" => q.processed = table[r].committed
      BY <2>2, <2>3, <1>2 DEF Adopts
    <3> QED BY <3>1, <3>2, <2>1
  <2>4. CASE Adopts(plan, r)
    <3>1. PICK i \in 1 .. Len(plan) : plan[i].r = r /\ plan[i].match # <<>>
      BY <2>4, <1>2 DEF Adopts
    <3>2. EntryOK(plan[i]) /\ plan[i].new \in BOOLEAN
      BY PlanEntry
    <3>3. plan[i].new /\ q.status = "Queued" /\ r \notin ToSet(residents)
      BY <3>1, <3>2 DEF EntryOK
    <3>4. table[r].committed = 0
      BY <3>3 DEF StepInv, TablesOK, EmptyTable
    <3>5. p = [q EXCEPT !.processed = 0]
      BY <2>4, <1>1 DEF RollbackPrefixAdoption
    <3> HIDE DEF p, q
    <3>6. p = [status |-> q.status, tokens |-> q.tokens, processed |-> 0,
               prompt |-> q.prompt, starts |-> q.starts, drafts |-> q.drafts]
      BY <3>5, <2>1 DEF RequestType
    <3>7. p \in RequestType
      BY <3>6, <2>1 DEF RequestType
    <3>8. /\ p.status = q.status /\ p.tokens = q.tokens /\ p.processed = 0
          /\ p.prompt = q.prompt /\ p.starts = q.starts /\ p.drafts = q.drafts
      BY <3>6
    <3>9. Len(q.tokens) \in Nat /\ q.processed \in Nat
      BY <2>1 DEF RequestType
    <3>10. SessionOK(p)
      <4>1. 0 <= Len(q.tokens) /\ (q.status \in {"Queued", "Active"} => 0 < Len(q.tokens))
        <5>1. q.status \in {"Queued", "Active"} => q.processed < Len(q.tokens)
          BY <2>1 DEF SessionOK
        <5> QED BY <5>1, <3>9
      <4> QED BY <3>8, <4>1, <2>1 DEF SessionOK
    <3> QED BY <3>3, <3>4, <3>7, <3>8, <3>10, <2>1 DEF p, q
  <2> QED BY <2>3, <2>4
<1>4. RequestsOK'
  <2>1. RequestType' = RequestType /\ MaxSession' = MaxSession
    BY DEF RequestType, Tokens, MaxSession
  <2>2. req' = [r \in Requests |-> req'[r]]
    BY <1>1 DEF RollbackPrefixAdoption
  <2>3. req' \in [Requests -> RequestType]
    BY <2>2, <1>3
  <2>4. ASSUME NEW r \in Requests PROVE SessionOK(req[r])'
    BY <1>3, <2>1 DEF SessionOK
  <2> QED BY <2>1, <2>3, <2>4 DEF RequestsOK
<1>5. QueuesOK'
  <2>1. /\ residents \in Seq(Requests) /\ Distinct(residents)
        /\ pool \in Seq(Requests) /\ Distinct(pool)
        /\ \A r \in ToSet(residents) \cup ToSet(pool) : req[r].status \in Open
        /\ \A r \in Requests : req[r].status = "Active" => r \in ToSet(residents)
    BY DEF StepInv, QueuesOK
  <2>2. ToSet(residents) \subseteq Requests /\ ToSet(pool) \subseteq Requests
    BY <2>1 DEF ToSet
  <2> QED BY <2>1, <2>2, <1>1, <1>3 DEF QueuesOK
<1>6. StartedPrefillOwnsItsPrompt'
  BY <1>1, <1>3 DEF StepInv, StartedPrefillOwnsItsPrompt, IsPrefill
<1> QED BY <1>3, <1>4, <1>5, <1>6

(* The step is rolled back. *)
LEMMA AbortPreserves ==
    ASSUME StepInv, AbortStep, config' = config
    PROVE  StepInv' /\ (LP!Abort \/ UNCHANGED LP!vars)
<1> DEFINE D(b) == LP!Cardinality(LP!Users(Claimed, b))
           H(b) == LP!Cardinality(LP!Users(Held, b))
           R == [b \in Blocks |-> cache.ref[b] - D(b)]
<1>1. /\ Reserved /\ phase' = "idle" /\ plan' = <<>> /\ rsv' = <<>>
      /\ UNCHANGED <<table, residents, pool>>
  BY DEF AbortStep, Reserved
<1>2. PICK d, K : /\ Became(cache, d, R, Indexed(cache), Emptied)
                  /\ Collected(d, cache', IdentityRoots(table), K)
  BY RolledBackCache
<1> HIDE DEF R
<1>3. Settled(cache, cache', R, Indexed(cache), Emptied, IdentityRoots(table), K)
  BY <1>2, SettledFacts
<1>4. /\ PoolInv(cache)' /\ cache'.ref = R /\ Indexed(cache') = Indexed(cache)
      /\ cache'.size = [b \in Blocks |-> IF b \in Emptied THEN 0 ELSE cache.size[b]]
  BY <1>3 DEF Settled
<1>5. cache.ref \in [Blocks -> Nat] /\ Claimed' = LP!NoBlocks /\ Held' = Held
  BY <1>1 DEF StepInv, LP!LedgerInv, LP!TypeOK, Claimed, Held, LP!NoBlocks
<1>6. LP!Abort \/ UNCHANGED LP!vars
  <2>1. CASE Claimed # LP!NoBlocks
    BY <2>1, <1>4, <1>5 DEF LP!Abort, R
  <2>2. CASE Claimed = LP!NoBlocks
    <3>1. \A b \in Blocks : D(b) = 0
      BY <2>2, LP!NoUsers, LedgerCounts
    <3> HIDE DEF D
    <3>2. R = cache.ref
      BY <3>1, <1>5 DEF R
    <3> QED BY <3>2, <2>2, <1>4, <1>5 DEF LP!vars
  <2> QED BY <2>1, <2>2
<1>7. LP!LedgerInv'
  BY <1>6, LedgerStep DEF StepInv, LP!Next
<1>8. /\ RequestsOK' /\ QueuesOK' /\ StartedPrefillOwnsItsPrompt'
      /\ \A r \in Requests : req'[r].status # "Failed" =>
                                req'[r].processed = table'[r].committed
  BY <1>1, RolledBackRequests
<1>9. PlanOK' /\ RsvOK' /\ PhaseOK' /\ StagingOK'
  BY <1>1, <1>8, BetweenStepsAgain
<1>10. TablesOK'
  BY <1>1, <1>3, TablesSettled
<1>11. ASSUME NEW b \in Blocks
       PROVE  /\ D(b) \in Nat /\ H(b) \in Nat /\ Count(NewsOf, Len(plan), b) \in Nat
              /\ cache.ref[b] = H(b) + D(b) + Bit(b \in Indexed(cache))
              /\ Count(NewsOf, Len(plan), b) >= 1 => b \notin Indexed(cache)
              /\ D(b) >= 1 /\ b \notin Indexed(cache) => Count(NewsOf, Len(plan), b) >= 1
              /\ \A r \in Requests : b \in Held[r] => H(b) >= 1
  <2> DEFINE cn == Count(NewsOf, Len(plan), b)
             ca == Count(AdoptedOf, Len(plan), b)
             h == H(b)
  <2>1. /\ cn \in Nat /\ ca \in Nat /\ h \in Nat /\ D(b) = cn + ca
        /\ cache.ref[b] = h + cn + ca + Bit(b \in Indexed(cache))
        /\ cn >= 1 => b \notin Indexed(cache)
        /\ ca >= 1 => b \in Indexed(cache)
        /\ \A r \in Requests : b \in Held[r] => h >= 1
    BY <1>1, OpenCount
  <2>2. Bit(b \in Indexed(cache)) \in Nat
    BY DEF Bit
  <2> HIDE DEF cn, ca, h, D
  <2>3. /\ D(b) \in Nat /\ h \in Nat /\ cn \in Nat
        /\ cache.ref[b] = h + D(b) + Bit(b \in Indexed(cache))
        /\ cn >= 1 => b \notin Indexed(cache)
        /\ D(b) >= 1 /\ b \notin Indexed(cache) => cn >= 1
        /\ \A r \in Requests : b \in Held[r] => h >= 1
    BY <2>1, <2>2
  <2> QED BY <2>3 DEF cn, h
<1>12. SizesOK'
  <2>1. /\ \A b \in Blocks : cache.ref[b] = 0 => cache.size[b] = 0
        /\ \A b \in Indexed(cache) : cache.size[b] = BlockSize /\ b \in Blocks
        /\ \A r \in Requests : \A j \in 1 .. Len(table[r].blocks) :
            cache.size[table[r].blocks[j]] = Filled(table[r].committed, j)
    BY ParentFacts DEF StepInv, SizesOK
  <2>2. ASSUME NEW b \in Blocks, cache'.ref[b] = 0 PROVE cache'.size[b] = 0
    <3> SUFFICES ASSUME b \notin Emptied PROVE cache.size[b] = 0
      BY <1>4
    <3>1. cache.ref[b] - D(b) = 0
      BY <2>2, <1>4 DEF R
    <3> HIDE DEF D, H
    <3>2. H(b) = 0 /\ b \notin Indexed(cache)
      BY <3>1, <1>11 DEF Bit
    <3>3. D(b) = 0
      BY <3>2, <1>11 DEF Emptied
    <3>4. cache.ref[b] = 0
      <4>1. Bit(b \in Indexed(cache)) = 0
        BY <3>2 DEF Bit
      <4>2. cache.ref[b] = H(b) + D(b) + Bit(b \in Indexed(cache))
        BY <1>11
      <4> QED BY <3>2, <3>3, <4>1, <4>2
    <3> QED BY <3>4, <2>1
  <2>3. ASSUME NEW b \in Indexed(cache) PROVE cache'.size[b] = BlockSize
    BY <2>1, <1>4, <1>11 DEF Emptied
  <2>4. ASSUME NEW r \in Requests, NEW j \in 1 .. Len(table[r].blocks)
        PROVE  cache'.size[table[r].blocks[j]] = cache.size[table[r].blocks[j]]
    <3> DEFINE b == table[r].blocks[j]
    <3>1. b \in Held[r]
      <4>1. table[r].blocks \in Seq(Blocks)
        BY DEF StepInv, TablesOK, TableType
      <4> QED BY <4>1 DEF Held, ToSet
    <3> HIDE DEF b
    <3>2. b \in Blocks
      BY <3>1, UsersCount DEF StepInv
    <3>3. b \notin Emptied
      <4> SUFFICES ASSUME b \in Emptied PROVE FALSE
        OBVIOUS
      <4>1. b \notin Indexed(cache)
        BY <3>2, <1>11 DEF Emptied
      <4>2. PICK i \in 1 .. Len(plan) : b \in ToSet(NewsOf[i])
        <5>1. {i \in 1 .. Len(plan) : b \in ToSet(NewsOf[i])} # {}
          <6>1. Cardinality({i \in 1 .. Len(plan) : b \in ToSet(NewsOf[i])}) # 0
            BY DEF Emptied, Count
          <6> QED BY <6>1, FS_EmptySet
        <5> QED BY <5>1
      <4>3. b \in Claimed[plan[i].r] /\ plan[i].r \in Requests
        <5>1. /\ AreDeltas(rsv, Len(plan)) /\ Len(plan) \in Nat /\ NewsOf[i] = rsv[i].new
              /\ rsv[i].r = plan[i].r
          BY <1>1, OpenDeltas
        <5>2. ClaimedOf(rsv)[rsv[i].r] = ToSet(rsv[i].adopted) \cup ToSet(rsv[i].new)
          BY <5>1, ClaimedByDelta
        <5>3. Claimed = ClaimedOf(rsv)
          BY DEF Claimed, ClaimedOf
        <5> QED BY <5>1, <5>2, <5>3, <4>2 DEF AreDeltas
      <4>4. r # plan[i].r
        BY <3>1, <4>3 DEF StepInv, LP!LedgerInv, LP!ClaimsAreNew
      <4> QED BY <3>1, <4>1, <4>3, <4>4, SharedBlock DEF StepInv
    <3> QED BY <3>2, <3>3, <1>4 DEF b
  <2>5. \A i \in 1 .. Len(rsv') : FALSE
    BY <1>1
  <2>6. \A r \in Requests : \A j \in 1 .. Len(table'[r].blocks) :
            cache'.size[table'[r].blocks[j]] = Filled(table'[r].committed, j)
    BY <2>1, <2>4, <1>1
  <2> QED BY <2>2, <2>3, <2>5, <2>6, <1>4 DEF SizesOK, Filled
<1>13. config' \in Configurations
  BY DEF StepInv
<1> QED BY <1>4, <1>6, <1>7, <1>8, <1>9, <1>10, <1>12, <1>13 DEF StepInv

---------------------------------------------------------------------------
(* The rows of an open step. *)

(* One sequence after another that shares nothing with it. *)
Joined(u, s, t, E) ==
    /\ u \in Seq(E) /\ Len(u) = Len(s) + Len(t) /\ Len(s) \in Nat /\ Len(t) \in Nat
    /\ Distinct(u) /\ ToSet(u) = ToSet(s) \cup ToSet(t)
    /\ \A i \in 1 .. Len(s) : u[i] = s[i]
    /\ \A i \in Len(s) + 1 .. Len(s) + Len(t) : u[i] = t[i - Len(s)]
                                                /\ i - Len(s) \in 1 .. Len(t)

(* Two lists without a common element, one after the other. *)
LEMMA ConcatDistinct ==
    ASSUME NEW E, NEW s \in Seq(E), NEW t \in Seq(E), Distinct(s), Distinct(t),
           ToSet(s) \cap ToSet(t) = {}, NEW u, u = s \o t
    PROVE  Joined(u, s, t, E)
<1> DEFINE m == Len(s)
           n == Len(t)
<1>1. /\ u \in Seq(E) /\ Len(u) = m + n
      /\ \A i \in 1 .. m : u[i] = s[i]
      /\ \A i \in m + 1 .. m + n : u[i] = t[i - m]
  BY ConcatFacts
<1>2. /\ m \in Nat /\ n \in Nat /\ DOMAIN s = 1 .. m /\ DOMAIN t = 1 .. n
      /\ DOMAIN u = 1 .. m + n
  BY <1>1
<1> HIDE DEF m, n
<1>3. \A i \in m + 1 .. m + n : i - m \in 1 .. n
  BY <1>2
<1>4. \A k \in 1 .. n : k + m \in m + 1 .. m + n /\ (k + m) - m = k
  BY <1>2
<1>5. \A i \in 1 .. m + n : i \in 1 .. m \/ i \in m + 1 .. m + n
  BY <1>2
<1>6. \A i \in 1 .. m : u[i] \in ToSet(s)
  BY <1>1, <1>2 DEF ToSet
<1>7. \A i \in m + 1 .. m + n : u[i] \in ToSet(t)
  BY <1>1, <1>2, <1>3 DEF ToSet
<1>8. Distinct(u)
  <2> SUFFICES ASSUME NEW i \in 1 .. m + n, NEW j \in 1 .. m + n, u[i] = u[j] PROVE i = j
    BY <1>2 DEF Distinct
  <2>1. CASE i \in 1 .. m /\ j \in 1 .. m
    BY <2>1, <1>1, <1>2 DEF Distinct
  <2>2. CASE i \in m + 1 .. m + n /\ j \in m + 1 .. m + n
    <3>1. /\ i - m \in 1 .. n /\ j - m \in 1 .. n
          /\ u[i] = t[i - m] /\ u[j] = t[j - m]
      BY <2>2, <1>1, <1>3
    <3> DEFINE a == i - m
               b == j - m
    <3>3. a \in DOMAIN t /\ b \in DOMAIN t /\ t[a] = t[b]
      BY <3>1, <1>2
    <3> HIDE DEF a, b
    <3>4. a = b
      BY <3>3 DEF Distinct
    <3>2. i - m = j - m
      BY <3>4 DEF a, b
    <3> QED BY <3>2, <1>2
  <2> QED BY <2>1, <2>2, <1>5, <1>6, <1>7
<1>9. ToSet(u) = ToSet(s) \cup ToSet(t)
  <2>1. ToSet(u) \subseteq ToSet(s) \cup ToSet(t)
    BY <1>2, <1>5, <1>6, <1>7 DEF ToSet
  <2>2. ToSet(s) \subseteq ToSet(u)
    <3>1. \A i \in 1 .. m : i \in 1 .. m + n
      BY <1>2
    <3> QED BY <3>1, <1>1, <1>2 DEF ToSet
  <2>3. ToSet(t) \subseteq ToSet(u)
    <3> SUFFICES ASSUME NEW k \in 1 .. n PROVE t[k] \in ToSet(u)
      BY <1>2 DEF ToSet
    <3>1. u[k + m] = t[k] /\ k + m \in 1 .. m + n
      BY <1>1, <1>2, <1>4
    <3> QED BY <3>1, <1>2 DEF ToSet
  <2> QED BY <2>1, <2>2, <2>3
<1> QED BY <1>1, <1>2, <1>3, <1>8, <1>9 DEF m, n, Joined

(* The parts of a row: what the request already has, and what is new. *)
RowIs(i, u, from, target) ==
    /\ u \in Seq(Blocks) /\ Len(u) \in Nat /\ Distinct(u)
    /\ ToSet(u) = Held[plan[i].r] \cup Claimed[plan[i].r]
    /\ from \in Nat /\ target \in Nat /\ from < target /\ target < MaxSession
    /\ target <= Len(u) * BlockSize /\ Len(u) * BlockSize >= Len(req[plan[i].r].tokens)
    /\ \A j \in 1 .. Len(u) : cache.size[u[j]] = Filled(from, j)

(* The table of every row of an open step is such a row. *)
LEMMA RowFacts ==
    ASSUME StepInv, Reserved, NEW i \in 1 .. Len(plan)
    PROVE  RowIs(i, BlockTable(i), rsv[i].from, rsv[i].target)
<1> DEFINE e == plan[i]
           r == plan[i].r
           D == rsv[i]
           old == IF e.new THEN D.adopted ELSE table[r].blocks
           nw == D.new
           u == old \o nw
<1>1. /\ EntryOK(e) /\ e.new \in BOOLEAN /\ r \in Requests /\ e.base \in Nat /\ e.n \in Nat
      /\ e.d \in Nat /\ e.match \in Seq(Blocks)
  BY PlanEntry
<1>2. /\ D.r = r /\ D.from = e.base /\ D.target = Target(e) /\ D.adopted = e.match
      /\ Distinct(D.new) /\ Distinct(D.adopted) /\ D.new \in Seq(Blocks)
      /\ D.adopted \in Seq(Blocks) /\ DeltaOK(i)
      /\ ToSet(D.adopted) \subseteq Indexed(cache) /\ ToSet(D.new) \cap Indexed(cache) = {}
  <2>1. DeltaOK(i) /\ D \in DeltaType /\ Distinct(AdoptedOf[i]) /\ AdoptedOf[i] = D.adopted
    BY OpenDeltas
  <2>2. D.new \in Seq(Blocks) /\ D.adopted \in Seq(Blocks)
    BY <2>1 DEF DeltaType
  <2> QED BY <2>1, <2>2 DEF DeltaOK
<1>3. BlockTable(i) = u
  <2>1. BlockTable(i) = (IF plan[i].new THEN rsv[i].adopted ELSE table[rsv[i].r].blocks)
                        \o rsv[i].new
    BY DEF BlockTable
  <2>2. rsv[i].r = plan[i].r
    BY <1>2, Zenon
  <2> QED BY <2>1, <2>2
<1>4. Claimed[r] = ToSet(D.adopted) \cup ToSet(D.new)
  <2>1. AreDeltas(rsv, Len(plan)) /\ Len(plan) \in Nat
    BY OpenDeltas
  <2>2. ClaimedOf(rsv)[D.r] = ToSet(D.adopted) \cup ToSet(D.new)
    BY <2>1, ClaimedByDelta
  <2> QED BY <2>2, <1>2 DEF Claimed, ClaimedOf
<1>5. /\ table[r].blocks \in Seq(Blocks) /\ Distinct(table[r].blocks)
      /\ table[r].committed \in Nat /\ table[r].committed <= Len(table[r].blocks) * BlockSize
      /\ r \notin ToSet(residents) => table[r] = EmptyTable
  <2>1. table[r] \in TableType
    BY <1>1 DEF StepInv, TablesOK
  <2> QED BY <2>1, <1>1 DEF StepInv, TablesOK, TableType
<1>6. Held[r] = ToSet(table[r].blocks)
  BY <1>1 DEF Held
<1>7. Held[r] \cap Claimed[r] = {}
  BY <1>1 DEF StepInv, LP!LedgerInv, LP!ClaimsAreNew
<1>8. /\ old \in Seq(Blocks) /\ Distinct(old) /\ ToSet(old) \cap ToSet(D.new) = {}
      /\ ToSet(old) \cup ToSet(D.new) = Held[r] \cup Claimed[r]
  <2>1. CASE e.new
    <3>1. Held[r] = {}
      BY <2>1, <1>1, <1>5, <1>6 DEF EntryOK, EmptyTable, ToSet
    <3> QED BY <3>1, <2>1, <1>2, <1>4
  <2>2. CASE ~e.new
    <3>1. ToSet(D.adopted) = {}
      BY <2>2, <1>1, <1>2 DEF EntryOK, ToSet
    <3> QED BY <3>1, <2>2, <1>4, <1>5, <1>6, <1>7
  <2> QED BY <2>1, <2>2, <1>1
<1>9. D.from <= Len(old) * BlockSize
      /\ \A j \in 1 .. Len(old) : cache.size[old[j]] = Filled(D.from, j)
  <2>1. CASE e.new
    <3>1. old = D.adopted /\ D.from = Len(old) * BlockSize
      BY <2>1, <1>1, <1>2 DEF EntryOK
    <3>2. ASSUME NEW j \in 1 .. Len(old) PROVE cache.size[old[j]] = Filled(D.from, j)
      <4>1. old[j] \in Indexed(cache)
        BY <3>1, <1>2 DEF ToSet
      <4>2. cache.size[old[j]] = BlockSize
        BY <4>1 DEF StepInv, SizesOK
      <4> HIDE DEF old
      <4>3. j \in Int /\ Len(old) \in Int /\ j <= Len(old)
        BY <1>8
      <4>4. j * BlockSize <= Len(old) * BlockSize
        BY <4>3, TimesBlockSize
      <4> QED BY <4>2, <4>4, <3>1 DEF Filled
    <3>3. Len(old) * BlockSize \in Int
      <4> HIDE DEF old
      <4>1. Len(old) \in Int
        BY <1>8
      <4> QED BY <4>1, TimesBlockSize
    <3> QED BY <3>1, <3>2, <3>3
  <2>2. CASE ~e.new
    <3>1. old = table[r].blocks /\ D.from = table[r].committed
      BY <2>2, <1>1, <1>2 DEF EntryOK
    <3>2. \A j \in 1 .. Len(table[r].blocks) :
            cache.size[table[r].blocks[j]] = Filled(table[r].committed, j)
      BY <1>1 DEF StepInv, SizesOK
    <3> QED BY <3>1, <3>2, <1>5
  <2> QED BY <2>1, <2>2, <1>1
<1> HIDE DEF old
<1> nw \in Seq(Blocks) /\ Distinct(nw) /\ ToSet(old) \cap ToSet(nw) = {}
  BY <1>2, <1>8
<1> HIDE DEF nw
<1>10. /\ u \in Seq(Blocks) /\ Len(u) = Len(old) + Len(nw) /\ Distinct(u)
       /\ Len(old) \in Nat /\ Len(nw) \in Nat
       /\ ToSet(u) = ToSet(old) \cup ToSet(nw)
       /\ \A j \in 1 .. Len(old) : u[j] = old[j]
       /\ \A j \in Len(old) + 1 .. Len(old) + Len(nw) : u[j] = nw[j - Len(old)]
                                                 /\ j - Len(old) \in 1 .. Len(nw)
  <2>1. u = old \o nw
    OBVIOUS
  <2>2. old \in Seq(Blocks) /\ Distinct(old)
    BY <1>8
  <2> HIDE DEF u
  <2>3. Joined(u, old, nw, Blocks)
    BY <2>1, <2>2, ConcatDistinct
  <2> QED BY <2>3 DEF Joined
<1> HIDE DEF u
<1>11. ASSUME NEW j \in 1 .. Len(u) PROVE cache.size[u[j]] = Filled(D.from, j)
  <2>1. CASE j <= Len(old)
    <3>1. j \in 1 .. Len(old)
      BY <2>1, <1>10
    <3> QED BY <3>1, <1>9, <1>10
  <2>2. CASE ~(j <= Len(old))
    <3>1. j \in Len(old) + 1 .. Len(old) + Len(nw)
      BY <2>2, <1>10
    <3>2. u[j] \in ToSet(nw)
      <4>1. u[j] = nw[j - Len(old)] /\ j - Len(old) \in DOMAIN nw
        BY <3>1, <1>10
      <4> QED BY <4>1 DEF ToSet
    <3>3. cache.size[u[j]] = 0
      <4>1. i \in 1 .. Len(rsv)
        BY OpenDeltas
      <4> QED BY <4>1, <3>2 DEF StepInv, SizesOK, nw
    <3>4. Filled(D.from, j) = 0
      <4>1. Len(old) \in Int /\ j \in Int /\ j - 1 \in Int /\ Len(old) <= j - 1 /\ D.from \in Nat
        BY <3>1, <1>1, <1>2, <1>10
      <4>2. /\ Len(old) * BlockSize <= (j - 1) * BlockSize /\ j * BlockSize \in Int
            /\ (j - 1) * BlockSize = j * BlockSize - BlockSize
            /\ (j - 1) * BlockSize \in Int /\ Len(old) * BlockSize \in Int
        BY <4>1, TimesBlockSize
      <4>3. BlockSize \in Nat \ {0}
        BY PoolAssumption
      <4> DEFINE f == D.from
                 a == Len(old) * BlockSize
                 g == (j - 1) * BlockSize
                 k == j * BlockSize
      <4>5. f \in Nat /\ f <= a /\ a <= g /\ g = k - BlockSize /\ a \in Int /\ g \in Int /\ k \in Int
        BY <4>1, <4>2, <1>9
      <4> HIDE DEF f, a, g, k
      <4>6. f <= g /\ ~(k <= f)
        BY <4>3, <4>5
      <4>4. D.from <= (j - 1) * BlockSize /\ ~(j * BlockSize <= D.from)
        BY <4>6 DEF f, g, k
      <4> QED BY <4>4 DEF Filled
    <3> QED BY <3>3, <3>4
  <2> QED BY <2>1, <2>2
<1>12. /\ D.from \in Nat /\ D.target \in Nat /\ D.from < D.target /\ D.target < MaxSession
  <2>1. /\ e.d < e.n /\ e.d <= Len(req[r].drafts) /\ e.base + e.n - e.d <= Len(req[r].tokens)
        /\ IsExecutable(r)
    BY <1>1 DEF EntryOK
  <2>2. req[r] \in RequestType /\ SessionOK(req[r])
    BY <1>1 DEF StepInv, RequestsOK
  <2>3. Len(req[r].tokens) + Len(req[r].drafts) < MaxSession
    BY <2>1, <2>2 DEF SessionOK, IsExecutable
  <2>4. Len(req[r].tokens) \in Nat /\ Len(req[r].drafts) \in Nat
    <3>1. req[r].tokens \in Seq(Tokens) /\ req[r].drafts \in Seq(Tokens)
      BY <2>2, Zenon DEF RequestType
    <3> QED BY <3>1
  <2>5. MaxSession \in Nat
    BY ConfigFacts DEF StepInv
  <2>6. D.target = e.base + e.n
    BY <1>2 DEF Target
  <2> DEFINE bs == e.base
             nn == e.n
             dd == e.d
             tl == Len(req[r].tokens)
             dl == Len(req[r].drafts)
  <2>7. /\ bs \in Nat /\ nn \in Nat /\ dd \in Nat /\ tl \in Nat /\ dl \in Nat
        /\ dd < nn /\ dd <= dl /\ bs + nn - dd <= tl /\ tl + dl < MaxSession
    BY <2>1, <2>3, <2>4, <1>1
  <2>8. D.from = bs /\ D.target = bs + nn
    BY <1>2, <2>6
  <2> HIDE DEF bs, nn, dd, tl, dl
  <2>9. bs + nn \in Nat /\ bs < bs + nn /\ bs + nn < MaxSession
    BY <2>5, <2>7
  <2> QED BY <2>7, <2>8, <2>9
<1>13. D.target <= Len(u) * BlockSize /\ Len(u) * BlockSize >= Len(req[r].tokens)
  <2>1. Len(u) * BlockSize >= Larger(Len(req[r].tokens), D.target)
    BY <1>2, <1>3 DEF DeltaOK
  <2>2. Len(u) * BlockSize \in Int
    <3>1. Len(u) \in Int
      BY <1>10
    <3> QED BY <3>1, TimesBlockSize
  <2>3. Len(req[r].tokens) \in Nat
    BY <1>1 DEF StepInv, RequestsOK, RequestType
  <2> QED BY <2>1, <2>2, <2>3, <1>12 DEF Larger
<1> QED BY <1>3, <1>8, <1>10, <1>11, <1>12, <1>13 DEF RowIs, nw

---------------------------------------------------------------------------
(* The commit. *)

(* Slots of a block of a table, and what the step's own block starts with. *)
LEMMA FilledFacts ==
    ASSUME NEW k \in Nat, NEW j \in Nat \ {0}
    PROVE  /\ Filled(k, j) \in 0 .. BlockSize
           /\ Filled(k, j) = BlockSize <=> j * BlockSize <= k
<1> DEFINE a == (j - 1) * BlockSize
           b == j * BlockSize
<1>1. a \in Int /\ b \in Int /\ a = b - BlockSize
  BY TimesBlockSize
<1>2. BlockSize \in Nat \ {0}
  BY PoolAssumption
<1>3. Filled(k, j) = IF b <= k THEN BlockSize ELSE IF k <= a THEN 0 ELSE k - a
  BY DEF Filled
<1> HIDE DEF a, b
<1>4. Filled(k, j) \in 0 .. BlockSize /\ (Filled(k, j) = BlockSize <=> b <= k)
  BY <1>1, <1>2, <1>3
<1> QED BY <1>4 DEF b

(* The first block a step writes holds what is left over of the boundary, *)
(* the ones after it hold nothing.                                         *)
LEMMA FilledFrom ==
    ASSUME NEW k \in Nat, NEW j \in Int, j >= k \div BlockSize
    PROVE  Filled(k, j + 1) = IF j = k \div BlockSize THEN k % BlockSize ELSE 0
<1> DEFINE q == k \div BlockSize
           m == k % BlockSize
           a == j * BlockSize
           b == (j + 1) * BlockSize
           h == q * BlockSize
           g == (q + 1) * BlockSize
<1>1. q \in Int /\ m \in 0 .. BlockSize - 1 /\ k = h + m
  BY DivBlockSize
<1>2. BlockSize \in Nat \ {0}
  BY PoolAssumption
<1>3. a \in Int /\ b = a + BlockSize /\ (j + 1) - 1 = j
  BY TimesBlockSize
<1>4. h \in Int /\ g = h + BlockSize
  BY <1>1, TimesBlockSize
<1>5. q <= j /\ (q <= j => h <= a)
  BY <1>1, TimesBlockSize
<1>6. q # j => g <= a
  <2>1. q # j => q + 1 <= j
    BY <1>1, <1>5
  <2>2. q + 1 \in Int
    BY <1>1
  <2>3. q + 1 <= j => g <= a
    BY <2>2, TimesBlockSize
  <2> QED BY <2>1, <2>3
<1>7. q = j => h = a
  OBVIOUS
<1>8. Filled(k, j + 1) = IF b <= k THEN BlockSize ELSE IF k <= a THEN 0 ELSE k - a
  BY <1>3 DEF Filled
<1> HIDE DEF q, m, a, b, h, g
<1>9. Filled(k, j + 1) = IF j = q THEN m ELSE 0
  <2>1. CASE q = j
    BY <2>1, <1>1, <1>2, <1>3, <1>4, <1>7, <1>8
  <2>2. CASE q # j
    BY <2>2, <1>1, <1>2, <1>3, <1>4, <1>6, <1>8
  <2> QED BY <2>1, <2>2
<1> QED BY <1>9 DEF q, m

(* What a reservation took, the commit still finds: its checks pass. *)
LEMMA CommitIsConsistent ==
    ASSUME StepInv, Reserved
    PROVE  CommitConsistent
<1> DEFINE n == Len(plan)
<1>1. n \in Nat /\ DOMAIN rsv = 1 .. n /\ AreDeltas(rsv, n)
  BY OpenDeltas
<1> SUFFICES ASSUME NEW i \in 1 .. n
    PROVE  /\ plan[i].new <=> ~IsResident(rsv[i].r)
           /\ \A b \in ToSet(rsv[i].adopted) :
                cache.ref[b] > 0 /\ cache.size[b] = BlockSize /\ cache.ident[b] # NoId
           /\ \A b \in ToSet(rsv[i].new) : cache.ref[b] > 0 /\ cache.size[b] = 0
           /\ rsv[i].target <= Len(BlockTable(i)) * BlockSize
           /\ \A j \in rsv[i].from \div BlockSize .. BlocksNeeded(rsv[i].target) - 1 :
                cache.size[BlockTable(i)[j + 1]] =
                    (IF j = rsv[i].from \div BlockSize
                     THEN rsv[i].from % BlockSize ELSE 0)
  BY <1>1 DEF CommitConsistent
<1>2. /\ DeltaOK(i) /\ rsv[i].r = plan[i].r /\ rsv[i] \in DeltaType
      /\ AdoptedOf[i] = rsv[i].adopted /\ NewsOf[i] = rsv[i].new
      /\ ToSet(AdoptedOf[i]) \subseteq Indexed(cache)
      /\ AdoptedOf[i] \in Seq(Blocks) /\ NewsOf[i] \in Seq(Blocks)
  BY OpenDeltas
<1>3. EntryOK(plan[i]) /\ plan[i].r \in Requests
  BY PlanEntry
<1>4. RowIs(i, BlockTable(i), rsv[i].from, rsv[i].target)
  BY RowFacts
<1>5. plan[i].new <=> ~IsResident(rsv[i].r)
  <2>1. plan[i].new <=> plan[i].r \notin ToSet(residents)
    BY <1>3 DEF EntryOK
  <2> QED BY <2>1, <1>2 DEF IsResident, ToSet
<1>6. PoolInv(cache) /\ LP!LedgerInv
  BY DEF StepInv
<1>7. ASSUME NEW b \in ToSet(rsv[i].adopted)
      PROVE  cache.ref[b] > 0 /\ cache.size[b] = BlockSize /\ cache.ident[b] # NoId
  <2>1. b \in Indexed(cache)
    BY <1>2
  <2>2. b \in Blocks /\ cache.ident[b] \in Ids /\ cache.ref[b] >= 1
    BY <1>6, <2>1, ParentFacts
  <2>3. cache.size[b] = BlockSize
    BY <2>1 DEF StepInv, SizesOK
  <2>4. cache.ref[b] \in Nat
    BY <2>2, <1>6, FieldTypes DEF PoolInv
  <2> QED BY <2>2, <2>3, <2>4, BlocksFacts
<1>8. ASSUME NEW b \in ToSet(rsv[i].new) PROVE cache.ref[b] > 0 /\ cache.size[b] = 0
  <2>1. ClaimedOf(rsv)[rsv[i].r] = ToSet(rsv[i].adopted) \cup ToSet(rsv[i].new)
    BY <1>1, ClaimedByDelta
  <2>2. b \in Claimed[plan[i].r]
    BY <2>1, <1>2 DEF Claimed, ClaimedOf
  <2>3. b \in Blocks /\ cache.ref[b] >= 1 + Bit(b \in Indexed(cache))
    BY <1>3, <1>6, <2>2, UsersCount
  <2>4. cache.ref[b] \in Nat
    BY <2>3, <1>6, FieldTypes DEF PoolInv
  <2>7. Bit(b \in Indexed(cache)) \in 0 .. 1
    BY DEF Bit
  <2>5. i \in 1 .. Len(rsv)
    BY OpenDeltas
  <2>6. cache.size[b] = 0
    BY <2>5 DEF StepInv, SizesOK
  <2> QED BY <2>3, <2>4, <2>6, <2>7
<1>9. ASSUME NEW j \in rsv[i].from \div BlockSize .. BlocksNeeded(rsv[i].target) - 1
      PROVE  cache.size[BlockTable(i)[j + 1]] =
                (IF j = rsv[i].from \div BlockSize THEN rsv[i].from % BlockSize ELSE 0)
  <2> DEFINE u == BlockTable(i)
             from == rsv[i].from
             target == rsv[i].target
  <2>1. /\ Len(u) \in Nat /\ from \in Nat /\ target \in Nat /\ target <= Len(u) * BlockSize
        /\ \A l \in 1 .. Len(u) : cache.size[u[l]] = Filled(from, l)
    BY <1>4 DEF RowIs
  <2> HIDE DEF u, from, target
  <2>2. BlocksNeeded(target) \in Nat /\ BlocksNeeded(target) <= Len(u)
    BY <2>1, BlocksNeededFacts
  <2>8. from \in Int /\ from >= 0
    BY <2>1
  <2>3. from \div BlockSize \in Int /\ from \div BlockSize >= 0
    BY <2>8, DivBlockSize
  <2>4. j \in from \div BlockSize .. BlocksNeeded(target) - 1
    BY DEF from, target
  <2>5. j \in Int /\ j >= from \div BlockSize /\ j + 1 \in 1 .. Len(u)
    BY <2>1, <2>2, <2>3, <2>4
  <2>6. cache.size[u[j + 1]] = Filled(from, j + 1)
    BY <2>1, <2>5
  <2>7. Filled(from, j + 1) = IF j = from \div BlockSize THEN from % BlockSize ELSE 0
    BY <2>1, <2>5, FilledFrom
  <2> QED BY <2>6, <2>7 DEF u, from
<1>10. rsv[i].target <= Len(BlockTable(i)) * BlockSize
  BY <1>4 DEF RowIs
<1> QED BY <1>5, <1>7, <1>8, <1>9, <1>10

(* A position the step writes is in a block of its own row that has room. *)
LEMMA WrittenPosition ==
    ASSUME StepInv, Reserved, NEW i \in 1 .. Len(plan), NEW p \in Int,
           rsv[i].from < p, p <= rsv[i].target, NEW j, j = (p - 1) \div BlockSize + 1
    PROVE  /\ p \in Nat \ {0} /\ j \in 1 .. Len(BlockTable(i))
           /\ BlockOf(i, p) = BlockTable(i)[j] /\ BlockOf(i, p) \in Blocks
           /\ (j - 1) * BlockSize < p /\ p <= j * BlockSize
           /\ BlockOf(i, p) \in Held[plan[i].r] \cup Claimed[plan[i].r]
           /\ BlockOf(i, p) \notin Indexed(cache)
<1> DEFINE u == BlockTable(i)
           from == rsv[i].from
           target == rsv[i].target
<1>1. RowIs(i, u, from, target)
  BY RowFacts
<1>2. from < p /\ p <= target
  OBVIOUS
<1>3. BlockOf(i, p) = u[j]
  BY DEF BlockOf
<1> HIDE DEF u, from, target
<1>4. /\ Len(u) \in Nat /\ from \in Nat /\ target \in Nat /\ target <= Len(u) * BlockSize
      /\ \A l \in 1 .. Len(u) : cache.size[u[l]] = Filled(from, l)
      /\ u \in Seq(Blocks) /\ ToSet(u) = Held[plan[i].r] \cup Claimed[plan[i].r]
  BY <1>1 DEF RowIs
<1>5. p \in Nat \ {0}
  BY <1>2, <1>4
<1>6. /\ j \in Nat \ {0} /\ (j - 1) * BlockSize < p /\ p <= j * BlockSize
  <2>1. \A m : m = (p - 1) \div BlockSize + 1 =>
            m \in Nat \ {0} /\ (m - 1) * BlockSize < p /\ p <= m * BlockSize
    BY <1>5, BlockOfPosition, Zenon
  <2> QED BY <2>1
<1>7. j \in 1 .. Len(u)
  <2> SUFFICES ASSUME ~(j <= Len(u)) PROVE FALSE
    BY <1>4, <1>6
  <2>1. Len(u) \in Int /\ j - 1 \in Int /\ Len(u) <= j - 1
    BY <1>4, <1>6
  <2>2. /\ Len(u) * BlockSize <= (j - 1) * BlockSize /\ Len(u) * BlockSize \in Int
        /\ (j - 1) * BlockSize \in Int
    BY <2>1, TimesBlockSize
  <2> QED BY <2>2, <1>2, <1>4, <1>6
<1>8. u[j] \in Blocks /\ u[j] \in ToSet(u)
  BY <1>4, <1>7 DEF ToSet
<1>9. u[j] \notin Indexed(cache)
  <2> SUFFICES ASSUME u[j] \in Indexed(cache) PROVE FALSE
    OBVIOUS
  <2>1. cache.size[u[j]] = BlockSize
    BY DEF StepInv, SizesOK
  <2>2. Filled(from, j) = BlockSize
    BY <2>1, <1>4, <1>7
  <2>3. j * BlockSize <= from
    BY <2>2, <1>4, <1>6, FilledFacts
  <2>4. j * BlockSize \in Int
    BY <1>6, TimesBlockSize
  <2> QED BY <2>3, <2>4, <1>2, <1>4, <1>6
<1> QED BY <1>3, <1>4, <1>5, <1>6, <1>7, <1>8, <1>9 DEF u

(* A step writes only into blocks nobody else has. *)
LEMMA WritesAreExclusive == StepInv => StepWritesAreExclusive
<1> SUFFICES ASSUME StepInv, Reserved, NEW i \in DOMAIN rsv,
                    NEW p \in rsv[i].from + 1 .. rsv[i].target
    PROVE  /\ BlockOf(i, p) \notin Indexed(cache)
           /\ \A r \in Requests \ {rsv[i].r} : BlockOf(i, p) \notin Held[r] \cup Claimed[r]
  BY DEF StepWritesAreExclusive, Reserved
<1>1. i \in 1 .. Len(plan) /\ rsv[i].r = plan[i].r
  BY OpenDeltas
<1>2. plan[i].r \in Requests
  BY <1>1, PlanEntry
<1>3. p \in Int /\ rsv[i].from < p /\ p <= rsv[i].target
  <2>1. RowIs(i, BlockTable(i), rsv[i].from, rsv[i].target)
    BY <1>1, RowFacts
  <2>2. rsv[i].from \in Nat /\ rsv[i].target \in Nat
    BY <2>1 DEF RowIs
  <2> QED BY <2>2
<1>4. /\ BlockOf(i, p) \in Held[plan[i].r] \cup Claimed[plan[i].r]
      /\ BlockOf(i, p) \notin Indexed(cache)
  BY <1>1, <1>3, WrittenPosition
<1>5. LP!LedgerInv
  BY DEF StepInv
<1> QED BY <1>1, <1>2, <1>4, <1>5, SharedBlock

(* What the model may answer for an entry, with the lengths it leaves. *)
ResultOK(e, x, len, k) ==
    /\ x.acc \in Nat /\ x.acc <= e.d /\ x.tok \in Tokens \cup {NoToken} /\ x.done \in BOOLEAN
    /\ k = e.base + e.n - e.d + x.acc /\ k \in Nat /\ len \in Nat
    /\ e.base < k /\ k <= Target(e) /\ k <= len + x.acc
    /\ \/ k = len + x.acc /\ (x.tok = NoToken => x.done)
          /\ (len + x.acc + 1 >= MaxSession => x.done)
       \/ k < len /\ x.acc = 0 /\ x.tok = NoToken /\ ~x.done

(* A result accepts drafts the step fed, and ends the session at its limit. *)
LEMMA ResultFacts ==
    ASSUME StepInv, Reserved, NEW x \in Results, NEW i \in 1 .. Len(plan)
    PROVE  /\ ResultOK(plan[i], x[i], Len(req[plan[i].r].tokens), KeptTarget(i, x[i]))
           /\ KeptTarget(i, x[i]) = Target(plan[i]) - (plan[i].d - x[i].acc)
<1> DEFINE e == plan[i]
           y == x[i]
           len == Len(req[plan[i].r].tokens)
           k == KeptTarget(i, x[i])
<1>1. /\ EntryOK(e) /\ e.r \in Requests /\ e.base \in Nat /\ e.n \in Nat /\ e.d \in Nat
  BY PlanEntry
<1>2. rsv[i].target = Target(e) /\ DOMAIN plan = 1 .. Len(plan)
  BY OpenDeltas DEF DeltaOK
<1>3. y \in StepResults(e)
  BY <1>2 DEF Results
<1>4. e.d < e.n /\ e.base + e.n - e.d <= len
  BY <1>1 DEF EntryOK
<1>5. len \in Nat
  <2>1. req[e.r] \in RequestType
    BY <1>1 DEF StepInv, RequestsOK
  <2>2. req[e.r].tokens \in Seq(Tokens)
    BY <2>1, Zenon DEF RequestType
  <2> QED BY <2>2
<1>6. k = Target(e) - (e.d - y.acc) /\ Target(e) = e.base + e.n
  BY <1>2 DEF KeptTarget, Target
<1>7. ReachesTail(e) <=> e.base + e.n - e.d = len
  BY DEF ReachesTail
<1>8. CASE ReachesTail(e)
  <2>1. /\ y \in [acc : 0 .. e.d, tok : Tokens \cup {NoToken}, done : BOOLEAN]
        /\ y.tok = NoToken => y.done
        /\ len + y.acc + 1 >= MaxSession => y.done
    BY <1>3, <1>8 DEF StepResults
  <2>2. y.acc \in 0 .. e.d /\ y.tok \in Tokens \cup {NoToken} /\ y.done \in BOOLEAN
    BY <2>1
  <2> HIDE DEF e, y, len, k
  <2> DEFINE bs == e.base
             nn == e.n
             dd == e.d
             ac == y.acc
             tg == Target(e)
  <2>5. /\ bs \in Nat /\ nn \in Nat /\ dd \in Nat /\ len \in Nat /\ dd < nn
        /\ bs + nn - dd <= len /\ tg = bs + nn /\ k = tg - (dd - ac)
        /\ (ReachesTail(e) <=> bs + nn - dd = len) /\ ac \in 0 .. dd
    BY <2>2, <1>1, <1>4, <1>5, <1>6, <1>7
  <2>6. ReachesTail(e)
    BY <2>2, <1>8
  <2> HIDE DEF bs, nn, dd, ac, tg
  <2>7. /\ ac \in Nat /\ ac <= dd /\ k = bs + nn - dd + ac /\ k \in Nat
        /\ bs < k /\ k <= tg /\ k = len + ac /\ k <= len + ac
    BY <2>5, <2>6
  <2>3. /\ y.acc \in Nat /\ y.acc <= e.d /\ k = e.base + e.n - e.d + y.acc /\ k \in Nat
        /\ e.base < k /\ k <= Target(e) /\ k = len + y.acc /\ k <= len + y.acc
    BY <2>7 DEF bs, nn, dd, ac, tg
  <2>4. ResultOK(e, y, len, k)
    BY <2>1, <2>2, <2>3, <1>5 DEF ResultOK
  <2> QED BY <2>4, <1>6 DEF e, y, len, k
<1>9. CASE ~ReachesTail(e)
  <2>1. y = [acc |-> 0, tok |-> NoToken, done |-> FALSE]
    BY <1>3, <1>9 DEF StepResults
  <2>2. y.acc = 0 /\ y.tok = NoToken /\ y.done = FALSE
    BY <2>1
  <2> HIDE DEF e, y, len, k
  <2> DEFINE bs == e.base
             nn == e.n
             dd == e.d
             ac == y.acc
             tg == Target(e)
  <2>5. /\ bs \in Nat /\ nn \in Nat /\ dd \in Nat /\ len \in Nat /\ dd < nn
        /\ bs + nn - dd <= len /\ tg = bs + nn /\ k = tg - (dd - ac)
        /\ (ReachesTail(e) <=> bs + nn - dd = len) /\ ac \in 0 .. dd
    BY <2>2, <1>1, <1>4, <1>5, <1>6, <1>7
  <2>6. ~ReachesTail(e) /\ ac = 0
    BY <2>2, <1>9
  <2> HIDE DEF bs, nn, dd, ac, tg
  <2>7. /\ ac \in Nat /\ ac <= dd /\ k = bs + nn - dd + ac /\ k \in Nat
        /\ bs < k /\ k <= tg /\ k < len /\ k <= len + ac
    BY <2>5, <2>6
  <2>3. /\ y.acc \in Nat /\ y.acc <= e.d /\ k = e.base + e.n - e.d + y.acc /\ k \in Nat
        /\ e.base < k /\ k <= Target(e) /\ k < len /\ k <= len + y.acc
    BY <2>7 DEF bs, nn, dd, ac, tg
  <2>4. ResultOK(e, y, len, k)
    BY <2>2, <2>3, <1>5 DEF ResultOK
  <2> QED BY <2>4, <1>6 DEF e, y, len, k
<1> QED BY <1>8, <1>9

(* The tokens that a result appends: the drafts it accepted, what it sampled. *)
SampledTokens(x) == IF x.tok = NoToken THEN <<>> ELSE <<x.tok>>

(* What committing leaves in the state of a request. *)
CommittedFields(i, x, q) ==
    /\ q \in RequestType /\ SessionOK(q)
    /\ q.tokens = AcceptedTokens(req[plan[i].r], x) \o SampledTokens(x)
    /\ q.processed = KeptTarget(i, x) /\ q.drafts = <<>>
    /\ q.status \in {"Active", "TurnComplete"}
    /\ q.prompt = req[plan[i].r].prompt /\ q.starts = req[plan[i].r].starts

(* The committed request keeps the lengths of its session in order. *)
LEMMA CommittedFacts ==
    ASSUME StepInv, Reserved, NEW x \in Results, NEW i \in 1 .. Len(plan), NEW q,
           q = CommittedRequest(i, x[i])
    PROVE  CommittedFields(i, x[i], q)
<1> DEFINE e == plan[i]
           y == x[i]
           old == req[plan[i].r]
           len == Len(req[plan[i].r].tokens)
           k == KeptTarget(i, x[i])
           a == SubSeq(old.drafts, 1, y.acc)
           s == SampledTokens(y)
           st == IF y.done THEN "TurnComplete" ELSE "Active"
<1>1. /\ EntryOK(e) /\ e.r \in Requests /\ e.base \in Nat /\ e.n \in Nat /\ e.d \in Nat
  BY PlanEntry
<1>2. ResultOK(e, y, len, k) /\ k = Target(e) - (e.d - y.acc)
  BY ResultFacts
<1>3. old \in RequestType /\ SessionOK(old)
  BY <1>1 DEF StepInv, RequestsOK
<1>4. e.d <= Len(old.drafts) /\ old.status \in {"Queued", "Active"}
  BY <1>1 DEF EntryOK, IsExecutable
<1>5. q = [old EXCEPT !.tokens = AcceptedTokens(old, y) \o s, !.processed = k,
                      !.status = st, !.drafts = <<>>]
  BY <1>2 DEF CommittedRequest, SampledTokens
<1>6. AcceptedTokens(old, y) = old.tokens \o a
  BY DEF AcceptedTokens
<1>7. MaxSession \in Nat
  BY ConfigFacts DEF StepInv
<1> HIDE DEF e, y, old, k, s, st
<1>8. /\ old.tokens \in Seq(Tokens) /\ old.drafts \in Seq(Tokens) /\ old.processed \in Nat
      /\ old.prompt \in Nat /\ old.starts \in Seq(Nat)
  BY <1>3, Zenon DEF RequestType
<1>9. /\ y.acc \in Nat /\ y.acc <= e.d /\ y.tok \in Tokens \cup {NoToken} /\ y.done \in BOOLEAN
      /\ k \in Nat /\ len \in Nat /\ k <= len + y.acc
      /\ \/ k = len + y.acc /\ (y.tok = NoToken => y.done)
            /\ (len + y.acc + 1 >= MaxSession => y.done)
         \/ k < len /\ y.acc = 0 /\ y.tok = NoToken /\ ~y.done
  BY <1>2 DEF ResultOK
<1>10. a \in Seq(Tokens) /\ Len(a) = y.acc
  <2>1. Len(old.drafts) \in Nat /\ y.acc \in 0 .. Len(old.drafts)
    BY <1>1, <1>4, <1>8, <1>9 DEF e
  <2> QED BY <2>1, <1>8, PrefixFacts
<1>11. s \in Seq(Tokens) /\ Len(s) = IF y.tok = NoToken THEN 0 ELSE 1
  BY <1>9 DEF s, SampledTokens
<1> HIDE DEF a
<1>12. /\ old.tokens \o a \in Seq(Tokens) /\ Len(old.tokens \o a) = len + y.acc
  <2>1. len = Len(old.tokens)
    BY DEF old
  <2> HIDE DEF len
  <2>2. \A f, g \in Seq(Tokens) : f \o g \in Seq(Tokens) /\ Len(f \o g) = Len(f) + Len(g)
    OBVIOUS
  <2> QED BY <2>1, <2>2, <1>8, <1>10
<1> DEFINE u == old.tokens \o a
           v == u \o s
<1> HIDE DEF u
<1>13. v \in Seq(Tokens) /\ Len(v) = len + y.acc + Len(s)
  <2>1. u \in Seq(Tokens) /\ Len(u) = len + y.acc
    BY <1>12 DEF u
  <2>2. v \in Seq(Tokens) /\ Len(v) = Len(u) + Len(s)
    <3>1. s \in Seq(Tokens)
      BY <1>11
    <3> QED BY <2>1, <3>1
  <2> HIDE DEF v, len
  <2> QED BY <2>1, <2>2
<1>14. st \in Statuses /\ st \in {"Active", "TurnComplete"} /\ (st = "Active" <=> ~y.done)
  BY <1>9 DEF st, Statuses
<1>15. q = [status |-> st, tokens |-> v, processed |-> k, prompt |-> old.prompt,
            starts |-> old.starts, drafts |-> <<>>]
  <2>1. q = [old EXCEPT !.tokens = v, !.processed = k, !.status = st, !.drafts = <<>>]
    BY <1>5, <1>6 DEF u
  <2> HIDE DEF v
  <2> QED BY <2>1, <1>3 DEF RequestType
<1>16. v = AcceptedTokens(old, y) \o s
  BY <1>6 DEF u
<1> HIDE DEF v
<1>17. /\ q.status = st /\ q.tokens = v /\ q.processed = k /\ q.prompt = old.prompt
       /\ q.starts = old.starts /\ q.drafts = <<>>
  BY <1>15
<1>18. q \in RequestType
  <2>1. <<>> \in Seq(Tokens)
    OBVIOUS
  <2> QED BY <2>1, <1>8, <1>9, <1>13, <1>14, <1>15 DEF RequestType
<1>19. SessionOK(q)
  <2>1. /\ len <= MaxSession /\ old.prompt <= len
        /\ \A j \in 1 .. Len(old.starts) : old.starts[j] <= len
        /\ \A j, m \in 1 .. Len(old.starts) : j <= m => old.starts[j] <= old.starts[m]
        /\ len + Len(old.drafts) < MaxSession
    BY <1>3, <1>4 DEF SessionOK, old
  <2>2. Len(old.drafts) \in Nat /\ Len(s) \in 0 .. 1 /\ y.acc <= Len(old.drafts)
    <3>1. Len(old.drafts) \in Nat
      BY <1>8
    <3> QED BY <3>1, <1>1, <1>4, <1>9, <1>11 DEF e
  <2> HIDE DEF len
  <2>3. Len(v) \in Nat /\ Len(v) >= len /\ Len(v) <= MaxSession /\ k <= Len(v) /\ old.prompt <= Len(v)
    <3> DEFINE lv == Len(v)
               ls == Len(s)
               ac == y.acc
               ld == Len(old.drafts)
               pr == old.prompt
    <3>1. /\ lv = len + ac + ls /\ ls \in 0 .. 1 /\ ac \in Nat /\ ac <= ld /\ ld \in Nat
          /\ len \in Nat /\ k \in Nat /\ k <= len + ac /\ pr <= len /\ pr \in Nat
          /\ len + ld < MaxSession /\ MaxSession \in Nat
      BY <2>1, <2>2, <1>7, <1>8, <1>9, <1>13
    <3> HIDE DEF lv, ls, ac, ld, pr
    <3>2. lv \in Nat /\ lv >= len /\ lv <= MaxSession /\ k <= lv /\ pr <= lv
      BY <3>1
    <3> QED BY <3>2 DEF lv, pr
  <2>4. \A j \in 1 .. Len(old.starts) : old.starts[j] <= Len(v)
    <3> SUFFICES ASSUME NEW j \in 1 .. Len(old.starts) PROVE old.starts[j] <= Len(v)
      OBVIOUS
    <3>1. old.starts[j] \in Nat /\ old.starts[j] <= len
      BY <1>8, <2>1
    <3> QED BY <3>1, <2>3, <1>9
  <2>5. ~y.done => k < Len(v) /\ Len(v) < MaxSession
    <3>1. CASE k = len + y.acc /\ (y.tok = NoToken => y.done)
               /\ (len + y.acc + 1 >= MaxSession => y.done)
      BY <3>1, <1>7, <1>9, <1>11, <1>13
    <3>2. CASE k < len /\ y.acc = 0 /\ y.tok = NoToken /\ ~y.done
      BY <3>2, <2>1, <2>2, <1>7, <1>9, <1>11, <1>13
    <3> QED BY <3>1, <3>2, <1>9
  <2>6. Len(q.drafts) = 0
    BY <1>17
  <2>7. q.status \in {"Queued", "Active"} => Len(q.tokens) + Len(q.drafts) < MaxSession
    BY <2>3, <2>5, <2>6, <1>7, <1>14, <1>17
  <2> QED BY <2>1, <2>3, <2>4, <2>5, <2>7, <1>14, <1>17 DEF SessionOK
<1> QED BY <1>14, <1>16, <1>17, <1>18, <1>19 DEF CommittedFields, old, y, k, s

(* Every block has a number of committed slots. *)
LEMMA SizesAreCounts ==
    ASSUME StepInv, NEW b \in Blocks
    PROVE  cache.size[b] \in 0 .. BlockSize
<1>1. /\ BlockSize \in Nat
      /\ cache.ref[b] = 0 => cache.size[b] = 0
      /\ b \in Indexed(cache) => cache.size[b] = BlockSize
  BY PoolAssumption DEF StepInv, SizesOK
<1>2. ASSUME NEW r \in Requests, b \in Held[r] PROVE cache.size[b] \in 0 .. BlockSize
  <2>1. table[r] \in TableType /\ b \in ToSet(table[r].blocks)
    BY <1>2 DEF Held, StepInv, TablesOK
  <2>2. PICK j \in 1 .. Len(table[r].blocks) : b = table[r].blocks[j]
    BY <2>1 DEF ToSet, TableType
  <2>3. cache.size[b] = Filled(table[r].committed, j)
    BY <2>2 DEF StepInv, SizesOK
  <2>4. table[r].committed \in Nat /\ j \in Nat \ {0}
    BY <2>1 DEF TableType
  <2> QED BY <2>3, <2>4, FilledFacts
<1>3. ASSUME NEW r \in Requests, b \in Claimed[r], b \notin Indexed(cache)
      PROVE  cache.size[b] = 0
  <2>1. Claimed = ClaimedOf(rsv)
    BY DEF Claimed, ClaimedOf
  <2>2. PICK i \in DOMAIN rsv : b \in ToSet(rsv[i].adopted) \cup ToSet(rsv[i].new)
    BY <1>3, <2>1 DEF ClaimedOf
  <2>3. Reserved
    <3> SUFFICES ASSUME ~Reserved PROVE FALSE
      OBVIOUS
    <3>1. rsv = <<>>
      BY DEF StepInv, RsvOK
    <3> QED BY <2>2, <3>1
  <2>4. i \in 1 .. Len(rsv) /\ ToSet(rsv[i].adopted) \subseteq Indexed(cache)
    <3>1. i \in 1 .. Len(plan) /\ DOMAIN rsv = 1 .. Len(plan) /\ Len(rsv) = Len(plan)
      BY <2>2, <2>3, OpenDeltas
    <3> QED BY <2>3, <3>1, OpenDeltas
  <2>5. b \in ToSet(rsv[i].new)
    BY <1>3, <2>2, <2>4
  <2> QED BY <2>4, <2>5 DEF StepInv, SizesOK
<1>4. CASE b \in Indexed(cache)
  BY <1>1, <1>4
<1>5. CASE b \notin Indexed(cache) /\ cache.ref[b] # 0
  <2>1. LP!Cardinality(LP!Users(Held, b)) # 0 \/ LP!Cardinality(LP!Users(Claimed, b)) # 0
    <3>1. cache.ref[b] = LP!Cardinality(LP!Users(Held, b))
                         + LP!Cardinality(LP!Users(Claimed, b)) + LP!One(b \in Indexed(cache))
      BY DEF StepInv, LP!LedgerInv, LP!CountsAreExact
    <3>2. LP!One(b \in Indexed(cache)) = 0
      BY <1>5 DEF LP!One
    <3> QED BY <1>5, <3>1, <3>2
  <2>2. LP!Users(Held, b) # {} \/ LP!Users(Claimed, b) # {}
    BY <2>1, LedgerCounts, LP!UsersFinite
  <2>3. \E r \in Requests : b \in Held[r] \/ b \in Claimed[r]
    BY <2>2 DEF LP!Users
  <2> QED BY <1>1, <1>2, <1>3, <1>5, <2>3
<1> QED BY <1>1, <1>4, <1>5

---------------------------------------------------------------------------
(* Committing: the boundaries advance. *)

(* The positions that the commit keeps, in a block. *)
KeptIn(x, b) ==
    {w \in (DOMAIN rsv) \X (1 .. MaxSession) :
        /\ w[2] > rsv[w[1]].from /\ w[2] <= KeptTarget(w[1], x[w[1]])
        /\ BlockOf(w[1], w[2]) = b}

(* What the boundaries of a row are. *)
LEMMA KeptBoundary ==
    ASSUME StepInv, Reserved, NEW x \in Results, NEW i \in 1 .. Len(plan)
    PROVE  /\ rsv[i].from \in Nat /\ KeptTarget(i, x[i]) \in Nat /\ rsv[i].target \in Nat
           /\ rsv[i].from < KeptTarget(i, x[i]) /\ KeptTarget(i, x[i]) <= rsv[i].target
           /\ rsv[i].target < MaxSession /\ MaxSession \in Nat
           /\ rsv[i].target <= Len(BlockTable(i)) * BlockSize
<1>1. RowIs(i, BlockTable(i), rsv[i].from, rsv[i].target)
  BY RowFacts
<1>2. ResultOK(plan[i], x[i], Len(req[plan[i].r].tokens), KeptTarget(i, x[i]))
  BY ResultFacts
<1>3. rsv[i].from = plan[i].base /\ rsv[i].target = Target(plan[i])
  BY OpenDeltas DEF DeltaOK
<1>4. MaxSession \in Nat
  BY ConfigFacts DEF StepInv
<1>5. /\ KeptTarget(i, x[i]) \in Nat /\ plan[i].base < KeptTarget(i, x[i])
      /\ KeptTarget(i, x[i]) <= Target(plan[i])
  BY <1>2 DEF ResultOK
<1> QED BY <1>1, <1>3, <1>4, <1>5 DEF RowIs

(* The position p of row i, in the row's j-th block, is one the commit keeps. *)
KeptAt(x, b, w, i, p, j) ==
    /\ i \in 1 .. Len(plan) /\ p \in Nat \ {0} /\ w = <<i, p>>
    /\ rsv[i].from < p /\ p <= KeptTarget(i, x[i])
    /\ j \in 1 .. Len(BlockTable(i)) /\ BlockTable(i)[j] = b
    /\ (j - 1) * BlockSize < p /\ p <= j * BlockSize
    /\ b \in Held[plan[i].r] \cup Claimed[plan[i].r] /\ b \in Blocks
    /\ b \notin Indexed(cache)

(* A position that the commit keeps is one that the step wrote. *)
LEMMA KeptPosition ==
    ASSUME StepInv, Reserved, NEW x \in Results, NEW b, NEW w \in KeptIn(x, b),
           NEW i, i = w[1], NEW p, p = w[2], NEW j, j = (p - 1) \div BlockSize + 1
    PROVE  KeptAt(x, b, w, i, p, j)
<1>1. /\ i \in DOMAIN rsv /\ p \in 1 .. MaxSession /\ w = <<i, p>>
      /\ p > rsv[i].from /\ p <= KeptTarget(i, x[i]) /\ BlockOf(i, p) = b
  BY DEF KeptIn
<1>2. i \in 1 .. Len(plan)
  BY <1>1, OpenDeltas
<1>3. /\ rsv[i].from \in Nat /\ KeptTarget(i, x[i]) \in Nat /\ rsv[i].target \in Nat
      /\ KeptTarget(i, x[i]) <= rsv[i].target
  BY <1>2, KeptBoundary
<1>4. p \in Int /\ rsv[i].from < p /\ p <= rsv[i].target
  BY <1>1, <1>3
<1> HIDE DEF Reserved
<1>5. /\ p \in Nat \ {0} /\ j \in 1 .. Len(BlockTable(i))
      /\ BlockOf(i, p) = BlockTable(i)[j] /\ BlockOf(i, p) \in Blocks
      /\ (j - 1) * BlockSize < p /\ p <= j * BlockSize
      /\ BlockOf(i, p) \in Held[plan[i].r] \cup Claimed[plan[i].r]
      /\ BlockOf(i, p) \notin Indexed(cache)
  BY <1>2, <1>4, WrittenPosition
<1> QED BY <1>1, <1>2, <1>4, <1>5 DEF KeptAt

(* No position is kept in a block that no row lists, or that is indexed. *)
LEMMA UnwrittenBlock ==
    ASSUME StepInv, Reserved, NEW x \in Results, NEW b \in Blocks,
           \/ b \in Indexed(cache)
           \/ \A i \in 1 .. Len(plan) : b \notin Held[plan[i].r] \cup Claimed[plan[i].r]
    PROVE  AdvancedSizes(x)[b] = cache.size[b]
<1>1. KeptIn(x, b) = {}
  BY KeptPosition DEF KeptAt
<1>2. AdvancedSizes(x)[b] = cache.size[b] + Cardinality(KeptIn(x, b))
  BY DEF AdvancedSizes, KeptIn
<1>3. Cardinality(KeptIn(x, b)) = 0
  BY <1>1, FS_EmptySet
<1>4. cache.size[b] \in Int
  BY SizesAreCounts, PoolAssumption
<1> QED BY <1>2, <1>3, <1>4

(* Positions lo + 1 to hi of row i, as pairs. *)
IsSpan(W, i, lo, hi) == W = {<<i, p>> : p \in lo + 1 .. hi}

(* There are as many of them as the bounds say. *)
LEMMA PairCount ==
    ASSUME NEW i, NEW lo \in Nat, NEW hi \in Nat, NEW W, IsSpan(W, i, lo, hi)
    PROVE  Cardinality(W) = IF lo >= hi THEN 0 ELSE hi - lo
<1> DEFINE S == lo + 1 .. hi
           f == [p \in S |-> <<i, p>>]
<1>1. IsFiniteSet(S) /\ Cardinality(S) = IF lo + 1 > hi THEN 0 ELSE hi - (lo + 1) + 1
  <2>1. lo + 1 \in Int /\ hi \in Int
    OBVIOUS
  <2> QED BY <2>1, FS_Interval
<1>2. Cardinality(S) = IF lo >= hi THEN 0 ELSE hi - lo
  BY <1>1
<1> HIDE DEF S
<1>3. f \in [S -> W]
  BY DEF S, IsSpan
<1>4. f \in Injection(S, W)
  BY <1>3 DEF Injection, IsInjective
<1>5. f \in Surjection(S, W)
  BY <1>3 DEF Surjection, S, IsSpan
<1>6. ExistsBijection(S, W)
  BY <1>4, <1>5 DEF ExistsBijection, Bijection
<1>7. Cardinality(W) = Cardinality(S)
  BY <1>1, <1>6, FS_Bijection
<1> QED BY <1>2, <1>7

(* The slots of a row's block that the commit keeps. *)
LEMMA KeptOfRow ==
    ASSUME StepInv, Reserved, NEW x \in Results, NEW i \in 1 .. Len(plan), NEW u,
           u = BlockTable(i), NEW j \in 1 .. Len(u), NEW from, from = rsv[i].from,
           NEW k, k = KeptTarget(i, x[i]),
           NEW A, A = (j - 1) * BlockSize, NEW B, B = j * BlockSize
    PROVE  IsSpan(KeptIn(x, u[j]), i, IF A >= from THEN A ELSE from, IF B <= k THEN B ELSE k)
<1>1. RowIs(i, u, from, rsv[i].target)
  BY RowFacts
<1>2. /\ from \in Nat /\ k \in Nat /\ rsv[i].target \in Nat /\ k <= rsv[i].target
      /\ rsv[i].target < MaxSession /\ MaxSession \in Nat
  BY KeptBoundary
<1>3. u \in Seq(Blocks) /\ Len(u) \in Nat /\ Distinct(u) /\ DOMAIN u = 1 .. Len(u)
      /\ u[j] \in ToSet(u) /\ ToSet(u) = Held[plan[i].r] \cup Claimed[plan[i].r]
  BY <1>1 DEF RowIs, ToSet
<1>4. j \in Int /\ j - 1 \in Int /\ A \in Int /\ B \in Int /\ BlockSize \in Nat
  <2>1. Len(u) \in Nat /\ j \in Int /\ j - 1 \in Int
    BY <1>3
  <2> QED BY <2>1, TimesBlockSize, PoolAssumption
<1> DEFINE lo == IF A >= from THEN A ELSE from
           hi == IF B <= k THEN B ELSE k
<1>5. lo \in Int /\ hi \in Int
  BY <1>2, <1>4
<1>6. ASSUME NEW w \in KeptIn(x, u[j])
      PROVE  w \in {<<i, p>> : p \in lo + 1 .. hi}
  <2> DEFINE l == w[1]
             p == w[2]
             m == (p - 1) \div BlockSize + 1
  <2>1. /\ l \in 1 .. Len(plan) /\ p \in Nat \ {0} /\ w = <<l, p>>
        /\ rsv[l].from < p /\ p <= KeptTarget(l, x[l])
        /\ m \in 1 .. Len(BlockTable(l)) /\ BlockTable(l)[m] = u[j]
        /\ (m - 1) * BlockSize < p /\ p <= m * BlockSize
        /\ u[j] \in Held[plan[l].r] \cup Claimed[plan[l].r]
        /\ u[j] \notin Indexed(cache)
    <3>1. KeptAt(x, u[j], w, l, p, m)
      BY KeptPosition
    <3> HIDE DEF l, p, m
    <3> QED BY <3>1 DEF KeptAt
  <2> HIDE DEF l, p, m
  <2>2. l = i
    <3> SUFFICES ASSUME l # i PROVE FALSE
      OBVIOUS
    <3>1. plan[l].r # plan[i].r /\ plan[l].r \in Requests /\ plan[i].r \in Requests
      <4>1. DistinctRequests(plan) /\ l \in DOMAIN plan /\ i \in DOMAIN plan
        BY <2>1 DEF StepInv, PlanOK
      <4> QED BY <2>1, <4>1, PlanEntry DEF DistinctRequests
    <3>2. u[j] \in Held[plan[i].r] \cup Claimed[plan[i].r]
      BY <1>3
    <3> QED BY <2>1, <3>1, <3>2, SharedBlock DEF StepInv
  <2>3. m = j
    <3>1. m \in DOMAIN u /\ j \in DOMAIN u /\ u[m] = u[j]
      BY <2>1, <2>2, <1>3
    <3> QED BY <3>1, <1>3 DEF Distinct
  <2>4. A < p /\ p <= B /\ from < p /\ p <= k /\ p \in Int
    BY <2>1, <2>2, <2>3
  <2>5. p \in lo + 1 .. hi
    BY <2>4, <1>2, <1>4
  <2> QED BY <2>1, <2>2, <2>5
<1>7. ASSUME NEW p \in lo + 1 .. hi
      PROVE  <<i, p>> \in KeptIn(x, u[j])
  <2>1. p \in Int /\ A < p /\ p <= B /\ from < p /\ p <= k
    BY <1>2, <1>4, <1>5
  <2>2. p \in Nat \ {0} /\ p <= rsv[i].target /\ p \in 1 .. MaxSession
    BY <2>1, <1>2
  <2> DEFINE m == (p - 1) \div BlockSize + 1
  <2>3. BlockOf(i, p) = u[m]
    BY DEF BlockOf
  <2>4. m = j
    <3>1. \A n \in Int : (n - 1) * BlockSize < p /\ p <= n * BlockSize => n = m
      BY <2>2, BlockOfPosition
    <3> HIDE DEF m
    <3> QED BY <3>1, <2>1, <1>4
  <2> HIDE DEF m
  <2>5. i \in DOMAIN rsv
    BY OpenDeltas
  <2>6. <<i, p>>[1] = i /\ <<i, p>>[2] = p
    OBVIOUS
  <2>7. <<i, p>> \in (DOMAIN rsv) \X (1 .. MaxSession)
    BY <2>2, <2>5
  <2>8. p > rsv[i].from /\ p <= KeptTarget(i, x[i]) /\ BlockOf(i, p) = u[j]
    BY <2>1, <2>3, <2>4, <1>2
  <2> QED BY <2>6, <2>7, <2>8 DEF KeptIn
<1>8. KeptIn(x, u[j]) = {<<i, p>> : p \in lo + 1 .. hi}
  BY <1>6, <1>7
<1> QED BY <1>8 DEF IsSpan

(* A row's block has as many committed slots as the new boundary says. *)
LEMMA AdvancedRow ==
    ASSUME StepInv, Reserved, NEW x \in Results, NEW i \in 1 .. Len(plan), NEW u,
           u = BlockTable(i), NEW j \in 1 .. Len(u)
    PROVE  AdvancedSizes(x)[u[j]] = Filled(KeptTarget(i, x[i]), j)
<1> DEFINE from == rsv[i].from
           k == KeptTarget(i, x[i])
           A == (j - 1) * BlockSize
           B == j * BlockSize
           lo == IF A >= from THEN A ELSE from
           hi == IF B <= k THEN B ELSE k
           b == u[j]
<1>1. RowIs(i, u, from, rsv[i].target)
  BY RowFacts
<1>2. from \in Nat /\ k \in Nat /\ from < k
  BY KeptBoundary
<1>3. b \in Blocks /\ cache.size[b] = Filled(from, j) /\ j \in Nat \ {0}
  <2>1. u \in Seq(Blocks) /\ Len(u) \in Nat /\ cache.size[b] = Filled(from, j)
    BY <1>1 DEF RowIs
  <2> QED BY <2>1
<1>4. AdvancedSizes(x)[b] = cache.size[b] + Cardinality(KeptIn(x, b))
  BY <1>3 DEF AdvancedSizes, KeptIn
<1>5. IsSpan(KeptIn(x, b), i, lo, hi)
  BY KeptOfRow
<1>6. A \in Nat /\ B = A + BlockSize /\ BlockSize \in Nat \ {0}
  <2>1. j - 1 \in Nat /\ j - 1 \in Int /\ j \in Int /\ (j - 1) + 1 = j
    BY <1>3
  <2>2. A \in Int /\ ((j - 1) + 1) * BlockSize = A + BlockSize /\ A >= 0
    BY <2>1, TimesBlockSize
  <2> QED BY <2>1, <2>2, PoolAssumption
<1>7. Filled(from, j) = IF B <= from THEN BlockSize ELSE IF from <= A THEN 0 ELSE from - A
  BY DEF Filled
<1>8. Filled(k, j) = IF B <= k THEN BlockSize ELSE IF k <= A THEN 0 ELSE k - A
  BY DEF Filled
<1> HIDE DEF from, k, A, B, b
<1>9. Cardinality(KeptIn(x, b)) = IF lo >= hi THEN 0 ELSE hi - lo
  <2>1. lo \in Nat /\ hi \in Nat
    BY <1>2, <1>6
  <2> HIDE DEF lo, hi
  <2> QED BY <2>1, <1>5, PairCount
<1>10. AdvancedSizes(x)[b] = Filled(k, j)
  <2> DEFINE s == cache.size[b]
             m == Cardinality(KeptIn(x, b))
             z == AdvancedSizes(x)[b]
             BS == BlockSize
             fk == Filled(k, j)
  <2>1. /\ z = s + m /\ m = (IF lo >= hi THEN 0 ELSE hi - lo)
        /\ s = (IF B <= from THEN BS ELSE IF from <= A THEN 0 ELSE from - A)
        /\ fk = (IF B <= k THEN BS ELSE IF k <= A THEN 0 ELSE k - A)
        /\ BS \in Nat \ {0} /\ A \in Nat /\ B = A + BS /\ from \in Nat /\ k \in Nat /\ from < k
    BY <1>2, <1>3, <1>4, <1>6, <1>7, <1>8, <1>9
  <2> HIDE DEF s, m, z, BS, fk
  <2>2. z = fk
    BY <2>1
  <2> QED BY <2>2 DEF z, fk
<1> QED BY <1>10 DEF b, k

(* The pool, once the boundaries have advanced. *)
AdvancedFields(x, c) ==
    /\ PoolInv(c) /\ c.ref = cache.ref /\ Indexed(c) = Indexed(cache)
    /\ c.size = AdvancedSizes(x) /\ c.kv = cache.kv /\ c.ident = cache.ident
    /\ c.idents = cache.idents /\ c.limit = cache.limit

(* Recording the adoptions changes no more than the order of the index. *)
LEMMA AdvancedCacheFacts ==
    ASSUME StepInv, Reserved, NEW x \in Results
    PROVE  AdvancedFields(x, AdvancedCache(x))
<1> DEFINE c == Rewritten(cache, AdvancedSizes(x), cache.kv)
           n == Len(plan)
<1>1. PoolInv(cache)
  BY DEF StepInv
<1>2. /\ PoolInv(c) /\ c.ref = cache.ref /\ Indexed(c) = Indexed(cache)
      /\ c.size = AdvancedSizes(x) /\ c.kv = cache.kv
      /\ c.ident = cache.ident /\ c.idents = cache.idents /\ c.limit = cache.limit
  <2>1. AdvancedSizes(x) = [b \in Blocks |-> AdvancedSizes(x)[b]]
    BY DEF AdvancedSizes
  <2>2. cache.kv = [b \in Blocks |-> cache.kv[b]]
    BY <1>1, FieldTypes DEF PoolInv
  <2> QED BY <1>1, <2>1, <2>2, RewrittenFacts
<1>3. [cache EXCEPT !.size = AdvancedSizes(x)] = c
  <2>1. PICK V : cache \in CacheType(V)
    BY <1>1 DEF PoolInv, IsCache
  <2>2. [cache EXCEPT !.kv = cache.kv] = cache
    BY <2>1 DEF CacheType
  <2> QED BY <2>1, <2>2 DEF CacheType, Rewritten
<1>4. AdvancedCache(x) = FoldLeft(RecordAdoption, c, AdoptedOf)
  BY <1>3 DEF AdvancedCache, AdoptedOf
<1> HIDE DEF c
<1>5. n \in Nat /\ DOMAIN AdoptedOf = 1 .. n
  BY OpenDeltas
<1>6. \A i \in 1 .. n : AdoptedOf[i] \in Seq(Indexed(c))
  <2> SUFFICES ASSUME NEW i \in 1 .. n PROVE AdoptedOf[i] \in Seq(Indexed(cache))
    BY <1>2
  <2>1. AdoptedOf[i] \in Seq(Blocks) /\ ToSet(AdoptedOf[i]) \subseteq Indexed(cache)
    BY OpenDeltas
  <2>2. \A k \in 1 .. Len(AdoptedOf[i]) : AdoptedOf[i][k] \in Indexed(cache)
    BY <2>1 DEF ToSet
  <2>3. AdoptedOf[i] \in [1 .. Len(AdoptedOf[i]) -> Indexed(cache)] /\ Len(AdoptedOf[i]) \in Nat
    BY <2>1, <2>2
  <2> QED BY <2>3, FunctionIsSeq
<1> HIDE DEF n
<1>7. Became(c, FoldLeft(RecordAdoption, c, AdoptedOf), c.ref, Indexed(c), {})
  BY <1>2, <1>5, <1>6, RecordAdoptionsEffect
<1>8. Became(c, AdvancedCache(x), c.ref, Indexed(c), {})
  BY <1>4, <1>7
<1>9. /\ c.size = [b \in Blocks |-> c.size[b]] /\ c.kv = [b \in Blocks |-> c.kv[b]]
      /\ c.ident = [b \in Blocks |-> c.ident[b]]
  <2>1. c.ident \in [Blocks -> Ids \cup {NoId}]
    BY <1>2, FieldTypes DEF PoolInv
  <2> QED BY <1>2, <2>1, FieldTypes DEF PoolInv
<1> QED BY <1>2, <1>8, <1>9 DEF Became, ClearedIn, AdvancedFields

---------------------------------------------------------------------------
(* Sealing: full blocks of the tables enter the index. *)

(* Full blocks that a table refers to. *)
InUse(c, U) ==
    /\ U \subseteq Blocks
    /\ \A b \in U : c.size[b] = BlockSize /\ c.ref[b] >= 1 + Bit(b \in Indexed(c))

(* The index gave up blocks nobody refers to, and took some of U. *)
Gone(c, d) == Indexed(c) \ Indexed(d)

(* Blocks that have been indexed between two caches. *)
Came(c, d) == Indexed(d) \ Indexed(c)

(* The index has evicted blocks of its own, and taken in blocks of U. *)
Reindexed(c, d, U) ==
    /\ PoolInv(d) /\ d.limit = c.limit
    /\ Gone(c, d) \subseteq {b \in Indexed(c) : c.ref[b] = 1}
    /\ Came(c, d) \subseteq U
    /\ \A b \in Blocks :
        /\ d.ref[b] = IF b \in Gone(c, d) THEN 0 ELSE c.ref[b] + Bit(b \in Came(c, d))
        /\ d.size[b] = IF b \in Gone(c, d) THEN 0 ELSE c.size[b]
        /\ d.kv[b] = IF b \in Gone(c, d) THEN EmptyBlock ELSE c.kv[b]
        /\ b \notin Gone(c, d) \cup Came(c, d) => d.ident[b] = c.ident[b]
    /\ \A i \in Ids : c.idents[i] # Unused => d.idents[i] = c.idents[i]

(* An index that did not change. *)
LEMMA ReindexedItself ==
    ASSUME NEW c, PoolInv(c), NEW U
    PROVE  Reindexed(c, c, U)
<1>1. c.ref \in [Blocks -> Nat]
  BY FieldTypes DEF PoolInv
<1>2. Gone(c, c) = {} /\ Came(c, c) = {}
  BY DEF Gone, Came
<1>3. \A b \in Blocks : Bit(b \in {}) = 0 /\ c.ref[b] + Bit(b \in {}) = c.ref[b]
  BY <1>1 DEF Bit
<1> QED BY <1>2, <1>3 DEF Reindexed

(* Blocks in use stay in use: they are never the ones given up. *)
LEMMA StillInUse ==
    ASSUME NEW c, PoolInv(c), NEW U, InUse(c, U), NEW d, Reindexed(c, d, U)
    PROVE  InUse(d, U) /\ U \cap Gone(c, d) = {}
<1>1. ASSUME NEW b \in U PROVE b \notin Gone(c, d)
  <2> SUFFICES ASSUME b \in Gone(c, d) PROVE FALSE
    OBVIOUS
  <2>1. c.ref[b] = 1 /\ Bit(b \in Indexed(c)) = 1
    BY DEF Reindexed, Gone, Bit
  <2> QED BY <2>1 DEF InUse
<1>2. ASSUME NEW b \in U
      PROVE  d.size[b] = BlockSize /\ d.ref[b] >= 1 + Bit(b \in Indexed(d))
  <2>1. b \in Blocks /\ c.size[b] = BlockSize /\ c.ref[b] >= 1 + Bit(b \in Indexed(c))
    BY DEF InUse
  <2>2. d.ref[b] = c.ref[b] + Bit(b \in Came(c, d)) /\ d.size[b] = c.size[b]
    BY <1>1, <2>1 DEF Reindexed
  <2>3. c.ref[b] \in Nat
    BY <2>1, FieldTypes DEF PoolInv
  <2>4. b \in Indexed(d) <=> b \in Came(c, d) \/ b \in Indexed(c)
    BY <1>1 DEF Came, Gone
  <2>5. b \in Came(c, d) => b \notin Indexed(c)
    BY DEF Came
  <2>6. Bit(b \in Indexed(d)) = Bit(b \in Came(c, d)) + Bit(b \in Indexed(c))
    BY <2>4, <2>5 DEF Bit
  <2>7. Bit(b \in Came(c, d)) \in Nat /\ Bit(b \in Indexed(c)) \in Nat
    BY DEF Bit
  <2> QED BY <2>1, <2>2, <2>3, <2>6, <2>7
<1> QED BY <1>1, <1>2 DEF InUse

(* One change of the index after another. *)
LEMMA ReindexedTwice ==
    ASSUME NEW c, PoolInv(c), NEW U, InUse(c, U), NEW d, Reindexed(c, d, U),
           NEW e, Reindexed(d, e, U)
    PROVE  Reindexed(c, e, U)
<1>1. U \cap Gone(c, d) = {} /\ U \cap Gone(d, e) = {} /\ PoolInv(d) /\ PoolInv(e)
  <2>1. InUse(d, U) /\ U \cap Gone(c, d) = {} /\ PoolInv(d)
    BY StillInUse DEF Reindexed
  <2> QED BY <2>1, StillInUse DEF Reindexed
<1>2. /\ Came(c, d) \subseteq U /\ Came(d, e) \subseteq U
      /\ Gone(c, d) \subseteq Indexed(c) /\ Gone(d, e) \subseteq Indexed(d)
  BY DEF Reindexed, Gone
<1>3. Came(c, e) = Came(c, d) \cup Came(d, e) /\ Gone(c, e) = Gone(c, d) \cup Gone(d, e)
  BY <1>1, <1>2 DEF Came, Gone
<1>4. /\ c.ref \in [Blocks -> Nat] /\ d.ref \in [Blocks -> Nat]
      /\ Indexed(c) \subseteq Blocks /\ Indexed(d) \subseteq Blocks
  BY <1>1, FieldTypes, IndexedBlocks DEF PoolInv
<1>5. Gone(c, e) \subseteq {b \in Indexed(c) : c.ref[b] = 1}
  <2> SUFFICES ASSUME NEW b \in Gone(d, e), b \notin Gone(c, d)
               PROVE  b \in Indexed(c) /\ c.ref[b] = 1
    BY <1>3 DEF Reindexed
  <2>1. b \in Indexed(d) /\ d.ref[b] = 1 /\ b \in Blocks
    BY <1>4 DEF Reindexed, Gone
  <2>2. b \in Indexed(c) /\ b \notin Came(c, d)
    BY <1>1, <1>2, <2>1 DEF Came
  <2>3. d.ref[b] = c.ref[b] + Bit(b \in Came(c, d)) /\ c.ref[b] \in Nat
    BY <1>4, <2>1 DEF Reindexed
  <2>4. Bit(b \in Came(c, d)) = 0
    BY <2>2 DEF Bit
  <2> QED BY <2>1, <2>2, <2>3, <2>4
<1>6. ASSUME NEW b \in Blocks
      PROVE  /\ e.ref[b] = IF b \in Gone(c, e) THEN 0 ELSE c.ref[b] + Bit(b \in Came(c, e))
             /\ e.size[b] = IF b \in Gone(c, e) THEN 0 ELSE c.size[b]
             /\ e.kv[b] = IF b \in Gone(c, e) THEN EmptyBlock ELSE c.kv[b]
             /\ b \notin Gone(c, e) \cup Came(c, e) => e.ident[b] = c.ident[b]
  <2>1. /\ d.ref[b] = IF b \in Gone(c, d) THEN 0 ELSE c.ref[b] + Bit(b \in Came(c, d))
        /\ d.size[b] = IF b \in Gone(c, d) THEN 0 ELSE c.size[b]
        /\ d.kv[b] = IF b \in Gone(c, d) THEN EmptyBlock ELSE c.kv[b]
        /\ b \notin Gone(c, d) \cup Came(c, d) => d.ident[b] = c.ident[b]
    BY DEF Reindexed
  <2>2. /\ e.ref[b] = IF b \in Gone(d, e) THEN 0 ELSE d.ref[b] + Bit(b \in Came(d, e))
        /\ e.size[b] = IF b \in Gone(d, e) THEN 0 ELSE d.size[b]
        /\ e.kv[b] = IF b \in Gone(d, e) THEN EmptyBlock ELSE d.kv[b]
        /\ b \notin Gone(d, e) \cup Came(d, e) => e.ident[b] = d.ident[b]
    BY DEF Reindexed
  <2>3. /\ b \in Came(c, e) <=> b \in Came(c, d) \/ b \in Came(d, e)
        /\ b \in Gone(c, e) <=> b \in Gone(c, d) \/ b \in Gone(d, e)
        /\ ~(b \in Came(c, d) /\ b \in Came(d, e))
        /\ b \in Gone(c, d) => b \notin Came(d, e) /\ b \notin Came(c, d)
    BY <1>1, <1>2, <1>3 DEF Came
  <2>4. c.ref[b] \in Nat
    BY <1>4
  <2>5. e.ref[b] = IF b \in Gone(c, e) THEN 0 ELSE c.ref[b] + Bit(b \in Came(c, e))
    <3>1. CASE b \in Gone(d, e)
      BY <3>1, <2>2, <2>3
    <3>2. CASE b \in Gone(c, d) /\ b \notin Gone(d, e)
      BY <3>2, <2>1, <2>2, <2>3 DEF Bit
    <3>3. CASE b \notin Gone(c, d) /\ b \notin Gone(d, e)
      <4>1. e.ref[b] = c.ref[b] + Bit(b \in Came(c, d)) + Bit(b \in Came(d, e))
        BY <3>3, <2>1, <2>2
      <4>2. Bit(b \in Came(c, d)) + Bit(b \in Came(d, e)) = Bit(b \in Came(c, e))
            /\ Bit(b \in Came(c, d)) \in Nat /\ Bit(b \in Came(d, e)) \in Nat
            /\ Bit(b \in Came(c, e)) \in Nat
        BY <2>3 DEF Bit
      <4>3. b \notin Gone(c, e)
        BY <3>3, <2>3
      <4> DEFINE z == e.ref[b]
                 s == c.ref[b]
                 u == Bit(b \in Came(c, d))
                 v == Bit(b \in Came(d, e))
                 w == Bit(b \in Came(c, e))
      <4>4. z = s + u + v /\ u + v = w /\ u \in Nat /\ v \in Nat /\ w \in Nat /\ s \in Nat
        BY <4>1, <4>2, <2>4
      <4> HIDE DEF z, s, u, v, w
      <4>5. z = s + w
        BY <4>4
      <4> QED BY <4>3, <4>5 DEF z, s, w
    <3> QED BY <3>1, <3>2, <3>3
  <2> QED BY <2>1, <2>2, <2>3, <2>5
<1>7. \A i \in Ids : c.idents[i] # Unused => e.idents[i] = c.idents[i]
  BY DEF Reindexed
<1>8. PoolInv(e) /\ e.limit = c.limit /\ Came(c, e) \subseteq U
  BY <1>1, <1>2, <1>3 DEF Reindexed
<1> QED BY <1>5, <1>6, <1>7, <1>8 DEF Reindexed

(* Registering a block in use. *)
LEMMA RegisteredReindexes ==
    ASSUME NEW c, PoolInv(c), NEW U, InUse(c, U), NEW b \in U, NEW reg, NEW chunk, NEW parent,
           NEW T, NEW N, Registered(c, reg, b, chunk, parent, T, N)
    PROVE  /\ Reindexed(c, reg.cache, U) /\ Gone(c, reg.cache) = T /\ Came(c, reg.cache) = N
           /\ reg.id = NoId \/ (reg.id \in Ids /\ reg.cache.idents[reg.id] # Unused)
<1> DEFINE d == reg.cache
<1>1. /\ T \subseteq {x \in Indexed(c) : c.ref[x] = 1} /\ N \subseteq {b} \ Indexed(c)
      /\ PoolInv(d) /\ d.limit = c.limit
      /\ d.ref = [x \in Blocks |-> IF x \in T THEN 0 ELSE c.ref[x] + Bit(x \in N)]
      /\ Indexed(d) = (Indexed(c) \ T) \cup N
      /\ d.size = [x \in Blocks |-> IF x \in T THEN 0 ELSE c.size[x]]
      /\ d.kv = [x \in Blocks |-> IF x \in T THEN EmptyBlock ELSE c.kv[x]]
      /\ \A x \in Blocks \ N : d.ident[x] = IF x \in T THEN NoId ELSE c.ident[x]
      /\ \A i \in Ids : d.idents[i] = c.idents[i] \/ c.idents[i] = Unused
      /\ reg.id = NoId \/ (b \in Indexed(d) /\ d.ident[b] = reg.id)
  BY DEF Registered
<1> HIDE DEF d
<1>2. Gone(c, d) = T /\ Came(c, d) = N
  BY <1>1 DEF Gone, Came
<1>3. Reindexed(c, d, U)
  BY <1>1, <1>2 DEF Reindexed
<1>4. reg.id = NoId \/ (reg.id \in Ids /\ d.idents[reg.id] # Unused)
  <2> SUFFICES ASSUME b \in Indexed(d), d.ident[b] = reg.id
               PROVE  reg.id \in Ids /\ d.idents[reg.id] # Unused
    BY <1>1
  <2>1. b \in Blocks /\ d.ident[b] \in Ids /\ d.idents[d.ident[b]].block = b
    BY <1>1, ParentFacts
  <2>2. Unused.block = NoBlock /\ NoBlock \notin Blocks
    BY BlocksFacts DEF Unused
  <2> QED BY <2>1, <2>2
<1> QED BY <1>2, <1>3, <1>4 DEF d

(* Sealing one table, as a fold. *)
SealStep(t, tokens, s, j) ==
    IF ~s.open THEN s
    ELSE SealOutcome(s, j, Register(s.cache, t.blocks[j], Chunk(tokens, j), s.table.sealedId))
SealFold == INSTANCE FoldLemmas WITH Op <- SealStep

(* The sealing of table t so far. *)
SealedSoFar(c, t, s, U) ==
    /\ Reindexed(c, s.cache, U)
    /\ s.table \in TableType /\ s.table.blocks = t.blocks /\ s.table.committed = t.committed
    /\ Alive(s.cache, s.table.sealedId)

(* What is alive stays alive. *)
LEMMA AliveReindexed ==
    ASSUME NEW c, NEW d, NEW U, Reindexed(c, d, U), NEW id \in Ids \cup {NoId}, Alive(c, id)
    PROVE  Alive(d, id)
BY DEF Alive, Reindexed

(* One block, registered or not. *)
LEMMA SealOne ==
    ASSUME NEW c, PoolInv(c), NEW U, InUse(c, U), NEW t, NEW tokens, NEW s,
           SealedSoFar(c, t, s, U), NEW j \in Nat, t.blocks[j] \in U
    PROVE  /\ SealedSoFar(c, t, SealStep(t, tokens, s, j), U)
           /\ PoolInv(s.cache) /\ InUse(s.cache, U)
           /\ \E T, N : Registered(s.cache,
                            Register(s.cache, t.blocks[j], Chunk(tokens, j), s.table.sealedId),
                            t.blocks[j], Chunk(tokens, j), s.table.sealedId, T, N)
<1> DEFINE d == s.cache
           b == t.blocks[j]
           p == s.table.sealedId
           reg == Register(d, b, Chunk(tokens, j), p)
<1>1. /\ Reindexed(c, d, U) /\ PoolInv(d) /\ s.table \in TableType /\ p \in Ids \cup {NoId}
      /\ s.table.blocks = t.blocks /\ s.table.committed = t.committed /\ Alive(d, p)
  BY DEF SealedSoFar, Reindexed, TableType
<1>2. InUse(d, U)
  BY <1>1, StillInUse
<1>3. b \in Blocks /\ d.ref[b] >= 1
  <2>1. b \in Blocks /\ d.ref[b] >= 1 + Bit(b \in Indexed(d)) /\ Bit(b \in Indexed(d)) \in Nat
    BY <1>2 DEF InUse, Bit
  <2>2. d.ref[b] \in Nat
    BY <1>1, <2>1, FieldTypes DEF PoolInv
  <2> QED BY <2>1, <2>2
<1> HIDE DEF d, b, p
<1>4. PICK T, N : Registered(d, reg, b, Chunk(tokens, j), p, T, N)
  BY <1>1, <1>3, RegisterEffect DEF Alive
<1> HIDE DEF reg
<1>5. /\ Reindexed(d, reg.cache, U)
      /\ reg.id = NoId \/ (reg.id \in Ids /\ reg.cache.idents[reg.id] # Unused)
  BY <1>1, <1>2, <1>4, RegisteredReindexes DEF b
<1>6. Reindexed(c, reg.cache, U)
  BY <1>1, <1>5, ReindexedTwice
<1>7. SealedSoFar(c, t, SealOutcome(s, j, reg), U)
  <2>1. CASE reg.id = NoId
    <3> DEFINE v == [s.table EXCEPT !.stopped = StopsSealing(reg.status)]
    <3>1. v \in TableType /\ v.blocks = t.blocks /\ v.committed = t.committed /\ v.sealedId = p
      <4> DEFINE st == StopsSealing(reg.status)
      <4>1. st \in BOOLEAN
        BY DEF StopsSealing
      <4> HIDE DEF st
      <4>2. v = [s.table EXCEPT !.stopped = st]
        BY DEF st
      <4> HIDE DEF v
      <4>3. v \in TableType /\ v.blocks = s.table.blocks /\ v.committed = s.table.committed
            /\ v.sealedId = s.table.sealedId
        BY <4>1, <4>2, <1>1 DEF TableType
      <4> QED BY <4>3, <1>1 DEF p
    <3>2. Alive(reg.cache, p)
      BY <1>1, <1>5, AliveReindexed
    <3>3. SealOutcome(s, j, reg).cache = reg.cache /\ SealOutcome(s, j, reg).table = v
      BY <2>1 DEF SealOutcome
    <3> HIDE DEF v
    <3> QED BY <1>6, <3>1, <3>2, <3>3 DEF SealedSoFar
  <2>2. CASE reg.id # NoId
    <3> DEFINE v == [s.table EXCEPT !.sealed = j, !.sealedId = reg.id]
    <3>1. v \in TableType /\ v.blocks = t.blocks /\ v.committed = t.committed /\ v.sealedId = reg.id
      BY <1>1, <1>5, <2>2 DEF TableType
    <3>2. Alive(reg.cache, reg.id)
      BY <1>5, <2>2 DEF Alive
    <3>3. SealOutcome(s, j, reg).cache = reg.cache /\ SealOutcome(s, j, reg).table = v
      BY <2>2 DEF SealOutcome
    <3> HIDE DEF v
    <3> QED BY <1>6, <3>1, <3>2, <3>3 DEF SealedSoFar
  <2> QED BY <2>1, <2>2
<1>8. SealStep(t, tokens, s, j) = IF ~s.open THEN s ELSE SealOutcome(s, j, reg)
  BY DEF SealStep, reg, d, b, p
<1> QED BY <1>1, <1>2, <1>4, <1>7, <1>8 DEF reg, d, b, p

(* The blocks of a table that are full. *)
FullBlocks(t) == {t.blocks[j] : j \in 1 .. t.committed \div BlockSize}

(* h is the run of the sealing of one table. *)
SealRun(h, n, c, t, tokens, U) ==
    /\ n \in Nat /\ SealTable(c, t, tokens) = h[n]
    /\ h[0] = [cache |-> c, table |-> t, open |-> TRUE]
    /\ \A i \in 0 .. n : SealedSoFar(c, t, h[i], U)
    /\ \A i \in 1 .. n : /\ h[i] = SealStep(t, tokens, h[i - 1], t.sealed + i)
                         /\ t.sealed + i \in 1 .. t.committed \div BlockSize

(* Sealing a table registers full blocks of it, one after the other. *)
LEMMA SealTableRuns ==
    ASSUME NEW c, PoolInv(c), NEW U, InUse(c, U), NEW t \in TableType, Alive(c, t.sealedId),
           NEW tokens, FullBlocks(t) \subseteq U
    PROVE  \E h, n : SealRun(h, n, c, t, tokens, U)
<1> DEFINE start == [cache |-> c, table |-> t, open |-> TRUE]
           full == t.committed \div BlockSize
           seq == [k \in 1 .. full - t.sealed |-> t.sealed + k]
           n == IF full - t.sealed >= 0 THEN full - t.sealed ELSE 0
<1>1. /\ t.sealed \in Nat /\ full \in Nat /\ n \in Nat
  <2>1. t.sealed \in Nat /\ t.committed \in Nat
    BY DEF TableType
  <2>2. full \in Int /\ full >= 0
    BY <2>1, DivBlockSize
  <2> QED BY <2>1, <2>2
<1>2. SealedSoFar(c, t, start, U)
  <2>1. Reindexed(c, c, U)
    BY ReindexedItself
  <2>2. start.cache = c /\ start.table = t
    OBVIOUS
  <2> HIDE DEF start
  <2> QED BY <2>1, <2>2 DEF SealedSoFar
<1>3. CASE c.limit = 0 \/ t.stopped
  <2>1. SealTable(c, t, tokens) = start
    BY <1>3 DEF SealTable
  <2> DEFINE h == [k \in {0} |-> start]
  <2>2. h[0] = start /\ \A i \in 0 .. 0 : i = 0
    OBVIOUS
  <2> HIDE DEF h, start
  <2>3. /\ 0 \in Nat /\ SealTable(c, t, tokens) = h[0] /\ h[0] = start
        /\ \A i \in 0 .. 0 : SealedSoFar(c, t, h[i], U)
    BY <1>2, <2>1, <2>2
  <2>4. \A i \in 1 .. 0 : FALSE
    OBVIOUS
  <2>5. SealRun(h, 0, c, t, tokens, U)
    BY <2>3, <2>4 DEF SealRun, start
  <2> QED BY <2>5
<1>4. CASE ~(c.limit = 0 \/ t.stopped)
  <2>ind. SealFold!Induction
    BY NatSetInduction DEF SealFold!Induction
  <2>1. SealTable(c, t, tokens) = SealFold!FoldedBy(t, tokens, start, seq)
    BY <1>4 DEF SealTable, SealFold!FoldedBy, FoldLeft, MapThenFoldSet, SealFold!Greatest,
                Max, SealStep
  <2>2. DOMAIN seq = 1 .. n /\ \A i \in 1 .. n : seq[i] = t.sealed + i
    BY <1>1
  <2> HIDE DEF seq
  <2>3. PICK h : SealFold!FoldRun(t, tokens, h, start, seq, n)
                 /\ SealFold!FoldedBy(t, tokens, start, seq) = h[n]
    <3> HIDE DEF start, n
    <3> QED BY <2>ind, <2>2, <1>1, SealFold!FoldRuns
  <2>4. /\ h[0] = start
        /\ \A i \in 1 .. n : h[i] = SealStep(t, tokens, h[i - 1], seq[i])
    <3> HIDE DEF start, n
    <3> QED BY <2>3 DEF SealFold!FoldRun
  <2>5. \A i \in 1 .. n : t.sealed + i \in 1 .. full
    BY <1>1
  <2> DEFINE S == {k \in 0 .. n : SealedSoFar(c, t, h[k], U)}
  <2> HIDE DEF start, full, n
  <2>6. 0 \in S
    BY <1>1, <1>2, <2>4
  <2>7. ASSUME NEW k \in 0 .. n - 1, k \in S PROVE k + 1 \in S
    <3>1. k + 1 \in 1 .. n /\ (k + 1) - 1 = k /\ k + 1 \in 0 .. n
      BY <1>1
    <3> DEFINE j == t.sealed + (k + 1)
    <3>2. h[k + 1] = SealStep(t, tokens, h[k], j) /\ j \in 1 .. full
      BY <2>2, <2>4, <2>5, <3>1
    <3>3. j \in Nat /\ t.blocks[j] \in U
      <4>1. t.blocks[j] \in FullBlocks(t)
        BY <3>2 DEF FullBlocks, full
      <4> QED BY <3>2, <4>1, <1>1
    <3>4. SealedSoFar(c, t, h[k], U)
      BY <2>7
    <3> HIDE DEF j
    <3>5. SealedSoFar(c, t, h[k + 1], U)
      BY <3>2, <3>3, <3>4, SealOne
    <3> QED BY <3>1, <3>5
  <2>8. \A i \in 0 .. n : SealedSoFar(c, t, h[i], U)
    <3> HIDE DEF S
    <3>1. 0 .. n \subseteq S
      BY <1>1, <2>6, <2>7, RangeInduction
    <3> QED BY <3>1 DEF S
  <2>9. SealRun(h, n, c, t, tokens, U)
    BY <1>1, <2>1, <2>2, <2>3, <2>4, <2>5, <2>8 DEF SealRun, start, full
  <2> QED BY <2>9
<1> QED BY <1>3, <1>4

(* Sealing the tables of a step, as a fold. *)
SealAllStep(requests, v, s, e) ==
    LET one == SealTable(s.cache, s.tables[e.r], requests[e.r].tokens)
    IN  [cache |-> one.cache, tables |-> [s.tables EXCEPT ![e.r] = one.table]]
SealAllFold == INSTANCE FoldLemmas WITH Op <- SealAllStep

(* A sealed table still lists the same blocks. *)
SameTables(tables, s) ==
    /\ s.tables \in [Requests -> TableType]
    /\ \A r \in Requests :
        /\ s.tables[r].blocks = tables[r].blocks /\ s.tables[r].committed = tables[r].committed
        /\ Alive(s.cache, s.tables[r].sealedId)
        /\ ~InPlan(r) => s.tables[r] = tables[r]

(* Tables whose full blocks are in use. *)
Sealable(c, tables, U) ==
    /\ PoolInv(c) /\ InUse(c, U) /\ tables \in [Requests -> TableType]
    /\ \A r \in Requests : Alive(c, tables[r].sealedId) /\ FullBlocks(tables[r]) \subseteq U

(* The sealing of all tables of a step so far. *)
Sealed(c, tables, s, U) == Reindexed(c, s.cache, U) /\ SameTables(tables, s)

(* One table sealed. *)
LEMMA SealTableEffect ==
    ASSUME NEW c, PoolInv(c), NEW U, InUse(c, U), NEW t \in TableType, Alive(c, t.sealedId),
           NEW tokens, FullBlocks(t) \subseteq U
    PROVE  SealedSoFar(c, t, SealTable(c, t, tokens), U)
<1>1. PICK h, n : SealRun(h, n, c, t, tokens, U)
  BY SealTableRuns
<1>2. n \in Nat /\ SealTable(c, t, tokens) = h[n] /\ \A i \in 0 .. n : SealedSoFar(c, t, h[i], U)
  BY <1>1 DEF SealRun
<1> QED BY <1>2

(* The next table sealed. *)
LEMMA SealNext ==
    ASSUME NEW c, NEW tables, NEW U, Sealable(c, tables, U), NEW requests, NEW s,
           Sealed(c, tables, s, U), NEW e, e.r \in Requests, InPlan(e.r)
    PROVE  Sealed(c, tables, SealAllStep(requests, 0, s, e), U)
<1> DEFINE r == e.r
           d == s.cache
           t == s.tables[r]
           one == SealTable(d, t, requests[r].tokens)
           w == SealAllStep(requests, 0, s, e)
<1>1. /\ PoolInv(c) /\ InUse(c, U) /\ Reindexed(c, d, U) /\ r \in Requests
      /\ tables \in [Requests -> TableType] /\ s.tables \in [Requests -> TableType]
      /\ \A q \in Requests :
            /\ s.tables[q].blocks = tables[q].blocks /\ s.tables[q].committed = tables[q].committed
            /\ Alive(d, s.tables[q].sealedId)
            /\ ~InPlan(q) => s.tables[q] = tables[q]
            /\ FullBlocks(tables[q]) \subseteq U
  BY DEF Sealable, Sealed, SameTables
<1>2. PoolInv(d) /\ InUse(d, U)
  BY <1>1, StillInUse DEF Reindexed
<1>3. t \in TableType /\ Alive(d, t.sealedId) /\ FullBlocks(t) \subseteq U
  BY <1>1 DEF FullBlocks
<1>4. w.cache = one.cache /\ w.tables = [s.tables EXCEPT ![r] = one.table]
  BY DEF SealAllStep
<1> HIDE DEF r, d, t, w
<1>5. SealedSoFar(d, t, one, U)
  BY <1>2, <1>3, SealTableEffect
<1> HIDE DEF one
<1>6. /\ Reindexed(d, one.cache, U) /\ one.table \in TableType /\ one.table.blocks = t.blocks
      /\ one.table.committed = t.committed /\ Alive(one.cache, one.table.sealedId)
  BY <1>5 DEF SealedSoFar
<1>7. Reindexed(c, w.cache, U)
  BY <1>1, <1>4, <1>6, ReindexedTwice
<1>8. w.tables \in [Requests -> TableType]
  BY <1>1, <1>4, <1>6
<1>9. ASSUME NEW q \in Requests
      PROVE  /\ w.tables[q].blocks = tables[q].blocks /\ w.tables[q].committed = tables[q].committed
             /\ Alive(w.cache, w.tables[q].sealedId)
             /\ ~InPlan(q) => w.tables[q] = tables[q]
  <2>1. CASE q = r
    <3>1. w.tables[q] = one.table /\ InPlan(q)
      BY <2>1, <1>1, <1>4 DEF r
    <3> QED BY <2>1, <3>1, <1>1, <1>4, <1>6 DEF t
  <2>2. CASE q # r
    <3>1. w.tables[q] = s.tables[q]
      BY <2>2, <1>1, <1>4
    <3>2. s.tables[q].sealedId \in Ids \cup {NoId}
      BY <1>1 DEF TableType
    <3>3. Alive(one.cache, s.tables[q].sealedId)
      BY <1>1, <1>6, <3>2, AliveReindexed
    <3> QED BY <3>1, <3>3, <1>1, <1>4
  <2> QED BY <2>1, <2>2
<1> QED BY <1>7, <1>8, <1>9 DEF Sealed, SameTables, w

(* Sealing the tables of a step. *)
SealAllRun(h, n, c, tables, requests, U) ==
    /\ n = Len(plan) /\ n \in Nat
    /\ SealCommittedBlocks(c, tables, requests) = h[n]
    /\ h[0] = [cache |-> c, tables |-> tables]
    /\ \A i \in 0 .. n : Sealed(c, tables, h[i], U)
    /\ \A i \in 1 .. n : /\ h[i] = SealAllStep(requests, 0, h[i - 1], plan[i])
                         /\ plan[i].r \in Requests /\ InPlan(plan[i].r)

(* Sealing the tables of a step runs through such states. *)
LEMMA SealingRuns ==
    ASSUME StepInv, NEW c, NEW tables, NEW U, Sealable(c, tables, U), NEW requests
    PROVE  \E h, n : SealAllRun(h, n, c, tables, requests, U)
<1> DEFINE start == [cache |-> c, tables |-> tables]
           n == Len(plan)
<1>ind. SealAllFold!Induction
  BY NatSetInduction DEF SealAllFold!Induction
<1>1. n \in Nat /\ DOMAIN plan = 1 .. n
  BY DEF StepInv, PlanOK
<1>2. \A i \in 1 .. n : plan[i].r \in Requests /\ InPlan(plan[i].r)
  BY <1>1, PlanEntry DEF InPlan
<1>3. SealCommittedBlocks(c, tables, requests) = SealAllFold!FoldedBy(requests, 0, start, plan)
  BY DEF SealCommittedBlocks, SealAllFold!FoldedBy, FoldLeft, MapThenFoldSet,
         SealAllFold!Greatest, Max, SealAllStep
<1>4. Sealed(c, tables, start, U)
  <2>1. Reindexed(c, c, U)
    BY ReindexedItself DEF Sealable
  <2>2. start.cache = c /\ start.tables = tables
    OBVIOUS
  <2> HIDE DEF start
  <2> QED BY <2>1, <2>2 DEF Sealable, Sealed, SameTables
<1> HIDE DEF start, n
<1>5. PICK h : SealAllFold!FoldRun(requests, 0, h, start, plan, n)
               /\ SealAllFold!FoldedBy(requests, 0, start, plan) = h[n]
  BY <1>ind, <1>1, SealAllFold!FoldRuns
<1>6. /\ h[0] = start
      /\ \A i \in 1 .. n : h[i] = SealAllStep(requests, 0, h[i - 1], plan[i])
  BY <1>5 DEF SealAllFold!FoldRun
<1> DEFINE S == {k \in 0 .. n : Sealed(c, tables, h[k], U)}
<1>7. 0 \in S
  BY <1>1, <1>4, <1>6
<1>8. ASSUME NEW k \in 0 .. n - 1, k \in S PROVE k + 1 \in S
  <2>1. k + 1 \in 1 .. n /\ (k + 1) - 1 = k /\ k + 1 \in 0 .. n
    BY <1>1
  <2>2. h[k + 1] = SealAllStep(requests, 0, h[k], plan[k + 1])
        /\ plan[k + 1].r \in Requests /\ InPlan(plan[k + 1].r)
    BY <1>2, <1>6, <2>1
  <2>3. Sealed(c, tables, h[k], U)
    BY <1>8
  <2>4. Sealed(c, tables, h[k + 1], U)
    BY <2>2, <2>3, SealNext
  <2> QED BY <2>1, <2>4
<1>9. \A i \in 0 .. n : Sealed(c, tables, h[i], U)
  <2> HIDE DEF S
  <2>1. 0 .. n \subseteq S
    BY <1>1, <1>7, <1>8, RangeInduction
  <2> QED BY <2>1 DEF S
<1>10. SealAllRun(h, n, c, tables, requests, U)
  BY <1>1, <1>2, <1>3, <1>5, <1>6, <1>9 DEF SealAllRun, start, n
<1> QED BY <1>10

---------------------------------------------------------------------------
(* Committing: tables, requests and the resident set. *)

(* The tables and the requests that the commit publishes. *)
NextTables(x) ==
    [r \in Requests |-> IF InPlan(r) THEN AdvancedTable(RowOf(r), x[RowOf(r)]) ELSE table[r]]

(* The requests when a step has been committed. *)
NextRequests(x) ==
    [r \in Requests |-> IF InPlan(r) THEN CommittedRequest(RowOf(r), x[RowOf(r)]) ELSE req[r]]

(* A request of the plan has one row in it. *)
LEMMA PlanRow ==
    ASSUME StepInv
    PROVE  /\ \A r \in Requests : InPlan(r) =>
                RowOf(r) \in 1 .. Len(plan) /\ plan[RowOf(r)].r = r
           /\ \A i \in 1 .. Len(plan) : InPlan(plan[i].r) /\ RowOf(plan[i].r) = i
<1>1. DOMAIN plan = 1 .. Len(plan) /\ DistinctRequests(plan)
  BY DEF StepInv, PlanOK
<1>2. ASSUME NEW r \in Requests, InPlan(r)
      PROVE  RowOf(r) \in 1 .. Len(plan) /\ plan[RowOf(r)].r = r
  BY <1>1, <1>2 DEF InPlan, RowOf
<1>3. ASSUME NEW i \in 1 .. Len(plan)
      PROVE  InPlan(plan[i].r) /\ RowOf(plan[i].r) = i
  <2>1. InPlan(plan[i].r) /\ plan[i].r \in Requests
    BY <1>1, PlanEntry DEF InPlan
  <2>2. RowOf(plan[i].r) \in DOMAIN plan /\ plan[RowOf(plan[i].r)].r = plan[i].r
    BY <1>1, <1>2, <2>1
  <2> QED BY <1>1, <2>1, <2>2 DEF DistinctRequests
<1> QED BY <1>2, <1>3

(* A table whose row has been committed. *)
LEMMA AdvancedTableFacts ==
    ASSUME StepInv, Reserved, NEW x \in Results, NEW i \in 1 .. Len(plan), NEW t,
           t = AdvancedTable(i, x[i])
    PROVE  /\ t \in TableType /\ t.blocks = BlockTable(i) /\ t.committed = KeptTarget(i, x[i])
           /\ Alive(cache, t.sealedId)
<1> DEFINE u == BlockTable(i)
           k == KeptTarget(i, x[i])
           s == rsv[i].adopted
           id == IF s = <<>> THEN NoId ELSE cache.ident[Last(s)]
           old == table[plan[i].r]
<1>1. u \in Seq(Blocks) /\ k \in Nat
  BY RowFacts, KeptBoundary DEF RowIs
<1>2. /\ plan[i].r \in Requests /\ plan[i].new \in BOOLEAN /\ old \in TableType
      /\ Alive(cache, old.sealedId)
  BY PlanEntry DEF StepInv, TablesOK
<1>3. s \in Seq(Blocks) /\ ToSet(s) \subseteq Indexed(cache)
  BY OpenDeltas
<1>4. id \in Ids \cup {NoId} /\ Alive(cache, id)
  <2>1. CASE s = <<>>
    BY <2>1 DEF Alive
  <2>2. CASE s # <<>>
    <3>1. Last(s) \in Indexed(cache)
      <4>1. Len(s) \in 1 .. Len(s) /\ DOMAIN s = 1 .. Len(s)
        BY <1>3, <2>2
      <4> QED BY <1>3, <4>1 DEF Last, ToSet
    <3>2. /\ Last(s) \in Blocks /\ cache.ident[Last(s)] \in Ids
          /\ cache.idents[cache.ident[Last(s)]].block = Last(s)
      BY <3>1, ParentFacts DEF StepInv
    <3>3. Unused.block = NoBlock /\ NoBlock \notin Blocks
      BY BlocksFacts DEF Unused
    <3> QED BY <2>2, <3>2, <3>3 DEF Alive
  <2> QED BY <2>1, <2>2
<1>5. Len(s) \in Nat
  BY <1>3
<1>6. t = [(IF plan[i].new THEN [EmptyTable EXCEPT !.sealed = Len(s), !.sealedId = id]
            ELSE old) EXCEPT !.blocks = u, !.committed = k]
  BY DEF AdvancedTable
<1> HIDE DEF u, k, s, id, old
<1>7. CASE plan[i].new
  <2>1. t = [blocks |-> u, committed |-> k, sealed |-> Len(s), sealedId |-> id, stopped |-> FALSE]
    BY <1>6, <1>7 DEF EmptyTable
  <2> QED BY <2>1, <1>1, <1>4, <1>5 DEF TableType, u, k
<1>8. CASE ~plan[i].new
  <2>1. t = [old EXCEPT !.blocks = u, !.committed = k]
    BY <1>6, <1>8
  <2>2. t \in TableType /\ t.blocks = u /\ t.committed = k /\ t.sealedId = old.sealedId
    BY <2>1, <1>1, <1>2 DEF TableType
  <2> QED BY <2>2, <1>2 DEF u, k
<1> QED BY <1>7, <1>8

(* The blocks of the next table of a request. *)
LEMMA NextTableFacts ==
    ASSUME StepInv, Reserved, NEW x \in Results, NEW r \in Requests, NEW t,
           t = NextTables(x)[r]
    PROVE  /\ t \in TableType /\ Alive(cache, t.sealedId) /\ Distinct(t.blocks)
           /\ ToSet(t.blocks) = Held[r] \cup Claimed[r]
           /\ t.committed <= Len(t.blocks) * BlockSize
           /\ \A j \in 1 .. Len(t.blocks) :
                AdvancedSizes(x)[t.blocks[j]] = Filled(t.committed, j)
           /\ ~InPlan(r) => t = table[r]
<1>1. CASE InPlan(r)
  <2> DEFINE i == RowOf(r)
             u == BlockTable(i)
  <2>1. i \in 1 .. Len(plan) /\ plan[i].r = r
    BY <1>1, PlanRow
  <2>2. t = AdvancedTable(i, x[i])
    BY <1>1 DEF NextTables
  <2> HIDE DEF i
  <2>3. /\ t \in TableType /\ t.blocks = u /\ t.committed = KeptTarget(i, x[i])
        /\ Alive(cache, t.sealedId)
    BY <2>1, <2>2, AdvancedTableFacts
  <2>4. Distinct(u) /\ ToSet(u) = Held[r] \cup Claimed[r]
    <3>1. RowIs(i, u, rsv[i].from, rsv[i].target)
      BY <2>1, RowFacts
    <3> HIDE DEF u
    <3> QED BY <2>1, <3>1 DEF RowIs
  <2>5. t.committed <= Len(u) * BlockSize
    <3>1. /\ KeptTarget(i, x[i]) \in Nat /\ rsv[i].target \in Nat
          /\ KeptTarget(i, x[i]) <= rsv[i].target /\ rsv[i].target <= Len(u) * BlockSize
      BY <2>1, KeptBoundary
    <3>2. Len(u) * BlockSize \in Int
      <4>1. Len(u) \in Int
        BY <2>3 DEF TableType
      <4> QED BY <4>1, TimesBlockSize
    <3> HIDE DEF u
    <3> DEFINE z == Len(u) * BlockSize
    <3>3. z \in Int /\ rsv[i].target <= z
      BY <3>1, <3>2
    <3> HIDE DEF z
    <3>4. t.committed <= z
      BY <2>3, <3>1, <3>3
    <3> QED BY <3>4 DEF z
  <2>6. \A j \in 1 .. Len(u) : AdvancedSizes(x)[u[j]] = Filled(KeptTarget(i, x[i]), j)
    BY <2>1, AdvancedRow
  <2> HIDE DEF u
  <2> QED BY <1>1, <2>3, <2>4, <2>5, <2>6
<1>2. CASE ~InPlan(r)
  <2>1. t = table[r]
    BY <1>2 DEF NextTables
  <2>2. /\ t \in TableType /\ Alive(cache, t.sealedId) /\ Distinct(t.blocks)
        /\ t.committed <= Len(t.blocks) * BlockSize
        /\ \A j \in 1 .. Len(t.blocks) : cache.size[t.blocks[j]] = Filled(t.committed, j)
    BY <2>1 DEF StepInv, TablesOK, SizesOK
  <2>3. Claimed[r] = {} /\ Held[r] = ToSet(t.blocks)
    <3>1. {i \in DOMAIN rsv : rsv[i].r = r} = {}
      <4> SUFFICES ASSUME NEW i \in DOMAIN rsv PROVE rsv[i].r # r
        OBVIOUS
      <4>1. i \in DOMAIN plan /\ rsv[i].r = plan[i].r
        BY OpenDeltas
      <4> QED BY <4>1, <1>2 DEF InPlan
    <3> QED BY <2>1, <3>1 DEF Claimed, Held
  <2>4. ASSUME NEW j \in 1 .. Len(t.blocks)
        PROVE  AdvancedSizes(x)[t.blocks[j]] = Filled(t.committed, j)
    <3> DEFINE b == t.blocks[j]
    <3>1. b \in Blocks /\ b \in Held[r]
      <4>1. t.blocks \in Seq(Blocks)
        BY <2>2 DEF TableType
      <4> QED BY <4>1, <2>3 DEF ToSet
    <3>2. b \in Indexed(cache) \/ \A i \in 1 .. Len(plan) : b \notin Held[plan[i].r] \cup Claimed[plan[i].r]
      <4> SUFFICES ASSUME NEW i \in 1 .. Len(plan), b \in Held[plan[i].r] \cup Claimed[plan[i].r]
                   PROVE  b \in Indexed(cache)
        OBVIOUS
      <4>1. plan[i].r \in Requests /\ plan[i].r # r
        BY <1>2, PlanEntry, PlanRow
      <4> HIDE DEF b
      <4> QED BY <3>1, <4>1, SharedBlock DEF StepInv
    <3> HIDE DEF b
    <3>3. AdvancedSizes(x)[b] = cache.size[b]
      BY <3>1, <3>2, UnwrittenBlock
    <3> QED BY <3>3, <2>2 DEF b
  <2> QED BY <2>1, <2>2, <2>3, <2>4
<1> QED BY <1>1, <1>2

(* The full blocks of the next tables. *)
NextFull(x) == UNION {FullBlocks(NextTables(x)[r]) : r \in Requests}

(* They are full and in use. *)
LEMMA NextSealable ==
    ASSUME StepInv, Reserved, NEW x \in Results
    PROVE  Sealable(AdvancedCache(x), NextTables(x), NextFull(x))
<1> DEFINE c == AdvancedCache(x)
           N == NextTables(x)
<1>1. AdvancedFields(x, c)
  BY AdvancedCacheFacts
<1>2. /\ PoolInv(c) /\ c.ref = cache.ref /\ Indexed(c) = Indexed(cache)
      /\ c.size = AdvancedSizes(x) /\ c.idents = cache.idents
  BY <1>1 DEF AdvancedFields
<1> HIDE DEF c
<1>3. \A r \in Requests : N[r] \in TableType /\ Alive(cache, N[r].sealedId)
  BY NextTableFacts
<1>4. N \in [Requests -> TableType]
  BY <1>3 DEF NextTables
<1> HIDE DEF N
<1>5. ASSUME NEW r \in Requests, NEW b \in FullBlocks(N[r])
      PROVE  /\ b \in Blocks /\ c.size[b] = BlockSize
             /\ c.ref[b] >= 1 + Bit(b \in Indexed(c))
  <2> DEFINE t == N[r]
             u == t.blocks
  <2>1. PICK j \in 1 .. t.committed \div BlockSize : b = u[j]
    BY DEF FullBlocks
  <2>2. /\ t \in TableType /\ ToSet(u) = Held[r] \cup Claimed[r]
        /\ t.committed <= Len(u) * BlockSize
        /\ \A m \in 1 .. Len(u) : c.size[u[m]] = Filled(t.committed, m)
    BY <1>2, NextTableFacts DEF N
  <2> HIDE DEF t
  <2>3. t.committed \in Nat /\ u \in Seq(Blocks) /\ Len(u) \in Nat
    BY <2>2 DEF TableType
  <2>4. j \in Nat \ {0} /\ j * BlockSize <= t.committed
    <3> DEFINE k == t.committed
               q == k \div BlockSize
               m == k % BlockSize
    <3>0. k \in Int /\ k >= 0
      BY <2>3
    <3>2. j \in 1 .. q
      OBVIOUS
    <3> HIDE DEF k
    <3>1. q \in Int /\ m \in 0 .. BlockSize - 1 /\ k = q * BlockSize + m /\ q >= 0
      BY <3>0, DivBlockSize
    <3> HIDE DEF q, m
    <3>3. j \in Int /\ j <= q /\ j \in Nat \ {0}
      BY <3>1, <3>2
    <3>4. j * BlockSize \in Int /\ q * BlockSize \in Int /\ j * BlockSize <= q * BlockSize
      BY <3>1, <3>3, TimesBlockSize
    <3> DEFINE jb == j * BlockSize
               qb == q * BlockSize
    <3>5. jb \in Int /\ qb \in Int /\ jb <= qb /\ k = qb + m /\ m \in Nat
      BY <3>0, <3>1, <3>4, PoolAssumption
    <3> HIDE DEF jb, qb
    <3>6. jb <= k
      BY <3>5
    <3> QED BY <3>3, <3>6 DEF jb, k
  <2>5. j <= Len(u)
    <3> DEFINE jb == j * BlockSize
               lb == Len(u) * BlockSize
               k == t.committed
    <3>1. j \in Int /\ Len(u) \in Int
      BY <2>3, <2>4
    <3>2. jb \in Int /\ lb \in Int /\ (j <= Len(u) <=> jb <= lb)
      BY <3>1, TimesBlockSize
    <3>3. jb <= k /\ k <= lb /\ k \in Nat
      BY <2>2, <2>3, <2>4
    <3> HIDE DEF jb, lb, k
    <3>4. jb <= lb
      BY <3>2, <3>3
    <3> QED BY <3>2, <3>4
  <2>6. j \in 1 .. Len(u)
    BY <2>3, <2>4, <2>5
  <2>7. c.size[b] = BlockSize
    <3>1. c.size[b] = Filled(t.committed, j)
      BY <2>1, <2>2, <2>6
    <3>2. Filled(t.committed, j) = BlockSize
      BY <2>3, <2>4, FilledFacts
    <3> QED BY <3>1, <3>2
  <2>8. b \in Held[r] \cup Claimed[r]
    <3>1. b \in ToSet(u)
      BY <2>1, <2>3, <2>6 DEF ToSet
    <3> QED BY <3>1, <2>2
  <2>9. b \in Blocks /\ cache.ref[b] >= 1 + Bit(b \in Indexed(cache))
    <3>1. LP!LedgerInv
      BY DEF StepInv
    <3>2. CASE b \in Held[r]
      BY <3>1, <3>2, UsersCount
    <3>3. CASE b \in Claimed[r]
      BY <3>1, <3>3, UsersCount
    <3> QED BY <2>8, <3>2, <3>3
  <2> QED BY <1>2, <2>7, <2>9
<1>6. InUse(c, NextFull(x))
  BY <1>5 DEF InUse, NextFull, N
<1>7. \A r \in Requests : Alive(c, N[r].sealedId) /\ FullBlocks(N[r]) \subseteq NextFull(x)
  BY <1>2, <1>3 DEF Alive, NextFull, N
<1> QED BY <1>2, <1>4, <1>6, <1>7 DEF Sealable, c, N

(* What a commit does, whether the blocks were indexed or not. *)
Commits(x, s) ==
    /\ x \in Results /\ Sealed(AdvancedCache(x), NextTables(x), s, NextFull(x))
    /\ s = SealCommittedBlocks(AdvancedCache(x), NextTables(x), NextRequests(x))
       \/ s = [cache |-> AdvancedCache(x), tables |-> NextTables(x)]
    /\ cache' = CollectIdentities(s.cache, IdentityRoots(s.tables))
    /\ table' = s.tables
    /\ residents' = residents \o [i \in DOMAIN Keep(plan, {e \in ToSet(plan) : e.new})
                                    |-> Keep(plan, {e \in ToSet(plan) : e.new})[i].r]
    /\ req' = NextRequests(x)
    /\ phase' = "idle" /\ plan' = <<>> /\ rsv' = <<>> /\ pool' = pool

(* A commit is such a change. *)
LEMMA CommitOutcome ==
    ASSUME StepInv, CommitStep
    PROVE  Reserved /\ \E x, s : Commits(x, s)
<1>1. phase = "executed" /\ Reserved
  BY DEF CommitStep, Reserved
<1>2. CommitConsistent
  BY <1>1, CommitIsConsistent
<1>3. PICK x \in Results : Commit(AdvancedCache(x), NextTables(x), NextRequests(x))
  BY <1>2 DEF CommitStep, NextTables, NextRequests
<1>4. plan' = <<>> /\ rsv' = <<>> /\ pool' = pool
  BY DEF CommitStep
<1> DEFINE c == AdvancedCache(x)
           N == NextTables(x)
           Q == NextRequests(x)
           U == NextFull(x)
<1>5. Sealable(c, N, U)
  BY <1>1, NextSealable
<1> HIDE DEF c, N, Q, U
<1>6. PICK s \in {SealCommittedBlocks(c, N, Q), [cache |-> c, tables |-> N]} : Publish(Q, s)
  BY <1>3 DEF Commit, c, N, Q
<1>7. Sealed(c, N, s, U)
  <2>1. CASE s = SealCommittedBlocks(c, N, Q)
    <3>1. PICK h, n : SealAllRun(h, n, c, N, Q, U)
      BY <1>5, SealingRuns
    <3>2. n \in Nat /\ s = h[n] /\ \A i \in 0 .. n : Sealed(c, N, h[i], U)
      BY <2>1, <3>1 DEF SealAllRun
    <3> QED BY <3>2
  <2>2. CASE s = [cache |-> c, tables |-> N]
    <3>1. Reindexed(c, c, U)
      BY <1>5, ReindexedItself DEF Sealable
    <3>2. s.cache = c /\ s.tables = N
      BY <2>2
    <3> QED BY <3>1, <3>2, <1>5 DEF Sealable, Sealed, SameTables
  <2> QED BY <1>6, <2>1, <2>2
<1>8. /\ cache' = CollectIdentities(s.cache, IdentityRoots(s.tables))
      /\ table' = s.tables /\ req' = Q /\ phase' = "idle"
      /\ residents' = residents \o [i \in DOMAIN Keep(plan, {e \in ToSet(plan) : e.new})
                                    |-> Keep(plan, {e \in ToSet(plan) : e.new})[i].r]
  BY <1>6 DEF Publish
<1> QED BY <1>1, <1>4, <1>6, <1>7, <1>8 DEF Commits, c, N, Q, U

(* What becomes of the cache and of the tables when a step commits. *)
Published(x) ==
    /\ PoolInv(cache') /\ cache'.limit = cache.limit
    /\ Gone(cache, cache') \subseteq {b \in Indexed(cache) : cache.ref[b] = 1}
    /\ Came(cache, cache') \subseteq NextFull(x)
    /\ InUse(cache', NextFull(x)) /\ NextFull(x) \cap Gone(cache, cache') = {}
    /\ \A b \in Blocks :
        /\ cache'.ref[b] = IF b \in Gone(cache, cache') THEN 0
                           ELSE cache.ref[b] + Bit(b \in Came(cache, cache'))
        /\ cache'.size[b] = IF b \in Gone(cache, cache') THEN 0 ELSE AdvancedSizes(x)[b]
    /\ SameTables(NextTables(x), [cache |-> cache', tables |-> table'])

(* The collection of the identities after the commit leaves the pool as the *)
(* sealing left it, and the identities the tables chain from.               *)
LEMMA CommitPublishes ==
    ASSUME StepInv, Reserved, NEW x, NEW s, Commits(x, s)
    PROVE  Published(x)
<1> DEFINE c == AdvancedCache(x)
           N == NextTables(x)
           U == NextFull(x)
           e == s.cache
<1>1. x \in Results /\ Reindexed(c, e, U) /\ SameTables(N, s)
  BY DEF Commits, Sealed
<1>2. AdvancedFields(x, c)
  BY <1>1, AdvancedCacheFacts
<1>3. PoolInv(c) /\ c.ref = cache.ref /\ Indexed(c) = Indexed(cache)
      /\ c.size = AdvancedSizes(x) /\ c.limit = cache.limit
  BY <1>2 DEF AdvancedFields
<1>4. Sealable(c, N, U)
  BY <1>1, NextSealable
<1>5. InUse(c, U)
  BY <1>4 DEF Sealable
<1> HIDE DEF c, N, U
<1>6. PoolInv(e) /\ e.limit = c.limit
  BY <1>1 DEF Reindexed
<1>7. InUse(e, U) /\ U \cap Gone(c, e) = {}
  BY <1>1, <1>3, <1>5, StillInUse
<1>8. s.tables \in [Requests -> TableType] /\ cache' = CollectIdentities(e, IdentityRoots(s.tables))
      /\ table' = s.tables
  BY <1>1 DEF Commits, SameTables, N
<1>9. PICK K : Collected(e, cache', IdentityRoots(s.tables), K)
  BY <1>6, <1>8, RootsType, CollectEffect
<1> HIDE DEF e
<1>10. /\ PoolInv(cache') /\ cache'.ref = e.ref /\ Indexed(cache') = Indexed(e)
       /\ cache'.size = e.size /\ cache'.limit = e.limit /\ IdentityRoots(s.tables) \subseteq K
  BY <1>9 DEF Collected
<1>11. /\ Gone(cache, cache') = Gone(c, e) /\ Came(cache, cache') = Came(c, e)
  BY <1>3, <1>10 DEF Gone, Came
<1>12. /\ Gone(c, e) \subseteq {b \in Indexed(cache) : cache.ref[b] = 1} /\ Came(c, e) \subseteq U
       /\ \A b \in Blocks :
            /\ cache'.ref[b] = IF b \in Gone(c, e) THEN 0 ELSE cache.ref[b] + Bit(b \in Came(c, e))
            /\ cache'.size[b] = IF b \in Gone(c, e) THEN 0 ELSE AdvancedSizes(x)[b]
  BY <1>1, <1>3, <1>10 DEF Reindexed
<1>13. InUse(cache', U)
  BY <1>7, <1>10 DEF InUse
<1>14. SameTables(N, [cache |-> cache', tables |-> table'])
  <2>1. \A r \in Requests :
            /\ s.tables[r].blocks = N[r].blocks /\ s.tables[r].committed = N[r].committed
            /\ Alive(e, s.tables[r].sealedId) /\ (~InPlan(r) => s.tables[r] = N[r])
    BY <1>1 DEF SameTables, e
  <2>2. ASSUME NEW r \in Requests PROVE Alive(cache', table'[r].sealedId)
    <3>1. s.tables[r].sealedId \in Ids \cup {NoId} /\ s.tables[r].sealedId \in K
      BY <1>8, <1>10 DEF TableType, IdentityRoots
    <3>2. Alive(cache', s.tables[r].sealedId)
      BY <1>9, <2>1, <3>1, StaysAlive
    <3> QED BY <1>8, <3>2
  <2> QED BY <1>8, <2>1, <2>2 DEF SameTables
<1> QED BY <1>3, <1>6, <1>7, <1>10, <1>11, <1>12, <1>13, <1>14 DEF Published, N, U

(* The full blocks of a table are blocks it lists. *)
LEMMA FullInTable ==
    ASSUME NEW t \in TableType, t.committed <= Len(t.blocks) * BlockSize, NEW b \in FullBlocks(t)
    PROVE  b \in ToSet(t.blocks)
<1> DEFINE u == t.blocks
           k == t.committed
           q == k \div BlockSize
           m == k % BlockSize
           n == Len(u)
<1>1. PICK j \in 1 .. q : b = u[j]
  BY DEF FullBlocks
<1>2. k \in Int /\ k >= 0 /\ u \in Seq(Blocks) /\ n \in Nat /\ k <= n * BlockSize
  BY DEF TableType
<1> HIDE DEF u, k, n
<1>3. q \in Int /\ m \in 0 .. BlockSize - 1 /\ k = q * BlockSize + m
  BY <1>2, DivBlockSize
<1> HIDE DEF q, m
<1>4. q * BlockSize \in Int /\ n * BlockSize \in Int
      /\ (q <= n <=> q * BlockSize <= n * BlockSize)
  BY <1>2, <1>3, TimesBlockSize
<1> DEFINE qb == q * BlockSize
           nb == n * BlockSize
<1>5. qb \in Int /\ nb \in Int /\ (q <= n <=> qb <= nb) /\ k = qb + m /\ k <= nb /\ m \in Nat
  BY <1>2, <1>3, <1>4, PoolAssumption
<1> HIDE DEF qb, nb
<1>6. q <= n
  BY <1>2, <1>5
<1>7. j \in 1 .. n
  BY <1>1, <1>2, <1>3, <1>6
<1> QED BY <1>1, <1>2, <1>7 DEF ToSet, u, n

(* The ledger commits: the claims move into the tables, and the index takes  *)
(* a reference of its own on the full blocks it has room for.                *)
LEMMA CommitLedger ==
    ASSUME StepInv, Reserved, NEW x \in Results, Published(x), rsv' = <<>>
    PROVE  LP!Commit
<1>1. table' \in [Requests -> TableType]
      /\ \A r \in Requests : table'[r].blocks = NextTables(x)[r].blocks
  BY DEF Published, SameTables
<1>2. Held' = [r \in Requests |-> Held[r] \cup Claimed[r]]
  <2>1. ASSUME NEW r \in Requests PROVE ToSet(table'[r].blocks) = Held[r] \cup Claimed[r]
    BY <1>1, NextTableFacts
  <2>2. Held' = [r \in Requests |-> ToSet(table'[r].blocks)]
    BY DEF Held
  <2> QED BY <2>1, <2>2
<1>3. Claimed' = LP!NoBlocks
  <2>1. Claimed' = ClaimedOf(rsv')
    BY DEF Claimed, ClaimedOf
  <2> QED BY <2>1, NothingClaimed DEF LP!NoBlocks
<1>4. PoolInv(cache') /\ PoolInv(cache)
  BY DEF Published, StepInv
<1>5. Indexed(cache') \in SUBSET Blocks /\ Indexed(cache) \in SUBSET Blocks
  BY <1>4, IndexedBlocks DEF PoolInv
<1>6. Indexed(cache) \ Indexed(cache') \subseteq LP!Reclaimable
  BY DEF Published, Gone, LP!Reclaimable
<1>7. Indexed(cache') \ Indexed(cache) \subseteq UNION {Held'[r] : r \in Requests}
  <2> SUFFICES ASSUME NEW b \in Indexed(cache') \ Indexed(cache)
               PROVE  \E r \in Requests : b \in Held'[r]
    OBVIOUS
  <2>1. b \in NextFull(x)
    BY DEF Published, Came
  <2>2. PICK r \in Requests : b \in FullBlocks(NextTables(x)[r])
    BY <2>1 DEF NextFull
  <2> DEFINE t == NextTables(x)[r]
  <2>4. t \in TableType /\ ToSet(t.blocks) = Held[r] \cup Claimed[r]
        /\ t.committed <= Len(t.blocks) * BlockSize
    BY NextTableFacts
  <2> HIDE DEF t
  <2>5. b \in ToSet(t.blocks)
    BY <2>2, <2>4, FullInTable DEF t
  <2> QED BY <1>2, <2>4, <2>5
<1>8. cache'.ref = [b \in Blocks |->
            IF b \in Indexed(cache) \ Indexed(cache') THEN 0
            ELSE cache.ref[b] + LP!One(b \in Indexed(cache') \ Indexed(cache))]
  <2>1. cache'.ref \in [Blocks -> Nat]
    BY <1>4, FieldTypes DEF PoolInv
  <2>2. \A b \in Blocks :
            cache'.ref[b] = IF b \in Indexed(cache) \ Indexed(cache') THEN 0
                            ELSE cache.ref[b] + LP!One(b \in Indexed(cache') \ Indexed(cache))
    BY DEF Published, Gone, Came, Bit, LP!One
  <2> QED BY <2>1, <2>2
<1>9. Indexed(cache)' = Indexed(cache')
  BY DEF Indexed
<1> QED BY <1>2, <1>3, <1>5, <1>6, <1>7, <1>8, <1>9 DEF LP!Commit

(* What becomes of every request when a step commits. *)
LEMMA NextRequestFacts ==
    ASSUME StepInv, Reserved, NEW x \in Results, NEW r \in Requests, NEW q,
           q = NextRequests(x)[r]
    PROVE  /\ q \in RequestType /\ SessionOK(q)
           /\ InPlan(r) => /\ RowOf(r) \in 1 .. Len(plan) /\ plan[RowOf(r)].r = r
                           /\ CommittedFields(RowOf(r), x[RowOf(r)], q)
           /\ ~InPlan(r) => q = req[r]
<1>1. CASE InPlan(r)
  <2> DEFINE i == RowOf(r)
  <2>1. i \in 1 .. Len(plan) /\ plan[i].r = r
    BY <1>1, PlanRow
  <2>2. q = CommittedRequest(i, x[i])
    BY <1>1 DEF NextRequests
  <2> HIDE DEF i
  <2>3. CommittedFields(i, x[i], q)
    BY <2>1, <2>2, CommittedFacts
  <2>4. q \in RequestType /\ SessionOK(q)
    BY <2>3 DEF CommittedFields
  <2> QED BY <1>1, <2>1, <2>3, <2>4 DEF i
<1>2. CASE ~InPlan(r)
  <2>1. q = req[r]
    BY <1>2 DEF NextRequests
  <2> QED BY <1>2, <2>1 DEF StepInv, RequestsOK
<1> QED BY <1>1, <1>2

(* The requests a step admits, in the order of the plan. *)
Admitted == [i \in DOMAIN Keep(plan, {e \in ToSet(plan) : e.new})
                |-> Keep(plan, {e \in ToSet(plan) : e.new})[i].r]

(* They are those of the plan that are not resident yet, each once. *)
LEMMA AdmittedFacts ==
    ASSUME StepInv
    PROVE  /\ Admitted \in Seq(Requests) /\ Distinct(Admitted)
           /\ \A r \in Requests : r \in ToSet(Admitted) <=> InPlan(r) /\ r \notin ToSet(residents)
<1> DEFINE S == {e \in ToSet(plan) : e.new}
           A == Keep(plan, S)
<1>1. plan \in Seq(EntryType) /\ DistinctRequests(plan)
  BY DEF StepInv, PlanOK
<1>2. A \in Seq(EntryType) /\ \E f : Selects(A, plan, S, f, Len(plan))
  BY <1>1, KeepSelects
<1>3. Admitted = [i \in DOMAIN A |-> A[i].r]
  BY DEF Admitted
<1>4. \A i \in 1 .. Len(plan) : plan[i] \in S <=> plan[i].new
  BY <1>1 DEF ToSet
<1> HIDE DEF S, A
<1>5. PICK f : Selects(A, plan, S, f, Len(plan))
  BY <1>2
<1> DEFINE n == Len(A)
<1>6. n \in Nat /\ DOMAIN A = 1 .. n /\ DOMAIN plan = 1 .. Len(plan) /\ Len(plan) \in Nat
  BY <1>1, <1>2
<1>7. \A i \in 1 .. n : f[i] \in 1 .. Len(plan) /\ A[i] = plan[f[i]] /\ plan[f[i]] \in S
  BY <1>5 DEF Selects
<1>8. \A i, j \in 1 .. n : i < j => f[i] < f[j]
  BY <1>5 DEF Selects
<1>9. \A i \in 1 .. Len(plan) : plan[i] \in S => \E k \in 1 .. n : f[k] = i
  BY <1>5 DEF Selects
<1> HIDE DEF n
<1>10. \A i \in 1 .. n : A[i].r \in Requests
  BY <1>7, PlanEntry
<1>11. Admitted \in [1 .. n -> Requests]
  BY <1>3, <1>6, <1>10
<1>12. Admitted \in Seq(Requests) /\ Len(Admitted) = n
  BY <1>6, <1>11, FunctionIsSeq
<1>13. \A i \in 1 .. n : Admitted[i] = plan[f[i]].r
  BY <1>3, <1>6, <1>7
<1>14. Distinct(Admitted)
  <2> SUFFICES ASSUME NEW i \in 1 .. n, NEW j \in 1 .. n, Admitted[i] = Admitted[j]
               PROVE  i = j
    BY <1>12 DEF Distinct
  <2>1. f[i] = f[j]
    BY <1>1, <1>6, <1>7, <1>13 DEF DistinctRequests
  <2>2. ~(i < j) /\ ~(j < i)
    <3>1. f[i] \in Int /\ f[j] \in Int
      BY <1>7
    <3> QED BY <1>8, <2>1, <3>1
  <2> QED BY <1>6, <2>2
<1>15. ASSUME NEW r \in Requests
       PROVE  r \in ToSet(Admitted) <=> InPlan(r) /\ r \notin ToSet(residents)
  <2>1. r \in ToSet(Admitted) <=> \E k \in 1 .. n : plan[f[k]].r = r
    BY <1>11, <1>12, <1>13 DEF ToSet
  <2>2. \A i \in 1 .. Len(plan) : plan[i].new <=> plan[i].r \notin ToSet(residents)
    BY PlanEntry DEF EntryOK
  <2>3. ASSUME NEW k \in 1 .. n, plan[f[k]].r = r
        PROVE  InPlan(r) /\ r \notin ToSet(residents)
    <3>1. f[k] \in 1 .. Len(plan) /\ plan[f[k]].new
      BY <1>4, <1>7
    <3> QED BY <1>6, <2>2, <2>3, <3>1 DEF InPlan
  <2>4. ASSUME InPlan(r), r \notin ToSet(residents)
        PROVE  \E k \in 1 .. n : plan[f[k]].r = r
    <3>1. PICK i \in 1 .. Len(plan) : plan[i].r = r
      BY <1>6, <2>4 DEF InPlan
    <3>2. plan[i] \in S
      BY <1>4, <2>2, <2>4, <3>1
    <3>3. PICK k \in 1 .. n : f[k] = i
      BY <1>9, <3>2
    <3> QED BY <3>1, <3>3
  <2> QED BY <2>1, <2>3, <2>4
<1> QED BY <1>12, <1>14, <1>15

(* A commit admits the requests of the step, and every one of them is left   *)
(* executable or with its turn complete.                                     *)
LEMMA CommitQueues ==
    ASSUME StepInv, Reserved, NEW x \in Results, residents' = residents \o Admitted,
           req' = NextRequests(x), pool' = pool, config' = config
    PROVE  /\ QueuesOK' /\ RequestsOK'
           /\ \A r \in Requests : r \in ToSet(residents') <=> r \in ToSet(residents) \/ InPlan(r)
<1>1. /\ residents \in Seq(Requests) /\ Distinct(residents) /\ pool \in Seq(Requests)
      /\ Distinct(pool)
      /\ \A r \in ToSet(residents) \cup ToSet(pool) : req[r].status \in Open
      /\ \A r \in Requests : req[r].status = "Active" => r \in ToSet(residents)
  BY DEF StepInv, QueuesOK
<1>2. Admitted \in Seq(Requests) /\ Distinct(Admitted)
      /\ \A r \in Requests : r \in ToSet(Admitted) <=> InPlan(r) /\ r \notin ToSet(residents)
  BY AdmittedFacts
<1>3. ToSet(residents) \cap ToSet(Admitted) = {}
  <2>1. ToSet(Admitted) \subseteq Requests
    BY <1>2 DEF ToSet
  <2> QED BY <1>2, <2>1
<1>4. Joined(residents', residents, Admitted, Requests)
  BY <1>1, <1>2, <1>3, ConcatDistinct
<1>5. residents' \in Seq(Requests) /\ Distinct(residents')
      /\ ToSet(residents') = ToSet(residents) \cup ToSet(Admitted)
  BY <1>4 DEF Joined
<1>6. \A r \in Requests : r \in ToSet(residents') <=> r \in ToSet(residents) \/ InPlan(r)
  BY <1>2, <1>5
<1>7. \A r \in Requests :
        /\ req'[r] \in RequestType /\ SessionOK(req'[r])
        /\ InPlan(r) => req'[r].status \in {"Active", "TurnComplete"}
        /\ ~InPlan(r) => req'[r] = req[r]
  BY NextRequestFacts DEF CommittedFields
<1>8. RequestsOK'
  <2>1. RequestType' = RequestType /\ MaxSession' = MaxSession
    BY DEF RequestType, Tokens, MaxSession
  <2>2. req' \in [Requests -> RequestType]
    <3>1. req' = [r \in Requests |-> req'[r]]
      BY DEF NextRequests
    <3> QED BY <1>7, <3>1
  <2>3. (\A r \in Requests : SessionOK(req[r]))'
    BY <1>7, <2>1 DEF SessionOK
  <2> QED BY <2>1, <2>2, <2>3 DEF RequestsOK
<1>9. QueuesOK'
  <2>1. ASSUME NEW r \in ToSet(residents') \cup ToSet(pool') PROVE req'[r].status \in Open
    <3>1. r \in Requests
      BY <1>1, <1>5 DEF ToSet
    <3>2. CASE InPlan(r)
      BY <1>7, <3>1, <3>2 DEF Open
    <3>3. CASE ~InPlan(r)
      <4>1. r \in ToSet(residents) \cup ToSet(pool)
        BY <1>6, <2>1, <3>1, <3>3
      <4> QED BY <1>1, <1>7, <3>1, <3>3, <4>1
    <3> QED BY <3>2, <3>3
  <2>2. ASSUME NEW r \in Requests, req'[r].status = "Active" PROVE r \in ToSet(residents')
    BY <1>1, <1>6, <1>7, <2>2
  <2> QED BY <1>1, <1>5, <2>1, <2>2 DEF QueuesOK
<1> QED BY <1>6, <1>8, <1>9

(* The tables a commit publishes are those of the reservation. *)
LEMMA CommitTables ==
    ASSUME StepInv, Reserved, NEW x \in Results, Published(x),
           \A r \in Requests : r \in ToSet(residents') <=> r \in ToSet(residents) \/ InPlan(r)
    PROVE  TablesOK'
<1>1. /\ table' \in [Requests -> TableType]
      /\ \A r \in Requests :
            /\ table'[r].blocks = NextTables(x)[r].blocks
            /\ table'[r].committed = NextTables(x)[r].committed
            /\ Alive(cache', table'[r].sealedId)
            /\ ~InPlan(r) => table'[r] = NextTables(x)[r]
  BY DEF Published, SameTables
<1>2. ASSUME NEW r \in Requests
      PROVE  /\ Distinct(table'[r].blocks)
             /\ table'[r].committed <= Len(table'[r].blocks) * BlockSize
             /\ ~InPlan(r) => table'[r] = table[r]
  BY <1>1, NextTableFacts
<1>3. ASSUME NEW r \in Requests, r \notin ToSet(residents') PROVE table'[r] = EmptyTable
  <2>1. r \notin ToSet(residents) /\ ~InPlan(r)
    BY <1>3
  <2> QED BY <1>2, <2>1 DEF StepInv, TablesOK
<1>4. (\A r \in Requests : Alive(cache, table[r].sealedId))'
  BY <1>1 DEF Alive
<1> QED BY <1>1, <1>2, <1>3, <1>4 DEF TablesOK

(* The blocks of every table hold the slots it has committed. *)
LEMMA CommitSizes ==
    ASSUME StepInv, Reserved, NEW x \in Results, Published(x), LP!LedgerInv', rsv' = <<>>
    PROVE  SizesOK'
<1> DEFINE G == Gone(cache, cache')
           C == Came(cache, cache')
<1>1. /\ G \subseteq {b \in Indexed(cache) : cache.ref[b] = 1}
      /\ C \subseteq NextFull(x) /\ InUse(cache', NextFull(x))
      /\ \A b \in Blocks :
            /\ cache'.ref[b] = IF b \in G THEN 0 ELSE cache.ref[b] + Bit(b \in C)
            /\ cache'.size[b] = IF b \in G THEN 0 ELSE AdvancedSizes(x)[b]
  BY DEF Published
<1>2. PoolInv(cache) /\ PoolInv(cache') /\ LP!LedgerInv
  BY DEF Published, StepInv
<1>3. cache.ref \in [Blocks -> Nat] /\ Indexed(cache) \subseteq Blocks /\ Indexed(cache') \subseteq Blocks
  BY <1>2, FieldTypes, IndexedBlocks DEF PoolInv
<1>4. G = Indexed(cache) \ Indexed(cache') /\ C = Indexed(cache') \ Indexed(cache)
  BY DEF Gone, Came
<1> HIDE DEF G, C
<1>5. /\ \A b \in Blocks : cache.ref[b] = 0 => cache.size[b] = 0
      /\ \A b \in Indexed(cache) : cache.size[b] = BlockSize
  BY DEF StepInv, SizesOK
<1>6. ASSUME NEW b \in Blocks, cache'.ref[b] = 0 PROVE cache'.size[b] = 0
  <2>1. CASE b \in G
    BY <1>1, <2>1
  <2>2. CASE b \notin G
    <3>1. cache.ref[b] = 0
      BY <1>1, <1>3, <1>6, <2>2 DEF Bit
    <3>2. \A i \in 1 .. Len(plan) : b \notin Held[plan[i].r] \cup Claimed[plan[i].r]
      <4> SUFFICES ASSUME NEW i \in 1 .. Len(plan)
                   PROVE  b \notin Held[plan[i].r] \cup Claimed[plan[i].r]
        OBVIOUS
      <4>1. plan[i].r \in Requests
        BY PlanEntry
      <4>2. cache.ref[b] <= Bit(b \in Indexed(cache))
        BY <3>1 DEF Bit
      <4> QED BY <1>2, <4>1, <4>2, UnusedBlocks
    <3>3. AdvancedSizes(x)[b] = cache.size[b]
      BY <3>2, UnwrittenBlock
    <3> QED BY <1>1, <1>5, <2>2, <3>1, <3>3
  <2> QED BY <2>1, <2>2
<1>7. ASSUME NEW b \in Indexed(cache') PROVE cache'.size[b] = BlockSize
  <2>1. CASE b \in Indexed(cache)
    <3>1. b \in Blocks /\ b \notin G
      BY <1>3, <1>4, <1>7, <2>1
    <3>2. AdvancedSizes(x)[b] = cache.size[b]
      BY <2>1, <3>1, UnwrittenBlock
    <3> QED BY <1>1, <1>5, <2>1, <3>1, <3>2
  <2>2. CASE b \notin Indexed(cache)
    <3>1. b \in NextFull(x)
      BY <1>1, <1>4, <1>7, <2>2
    <3> QED BY <1>1, <3>1 DEF InUse
  <2> QED BY <2>1, <2>2
<1>8. ASSUME NEW r \in Requests, NEW j \in 1 .. Len(table'[r].blocks)
      PROVE  cache'.size[table'[r].blocks[j]] = Filled(table'[r].committed, j)
  <2> DEFINE t == NextTables(x)[r]
             b == t.blocks[j]
  <2>1. table'[r].blocks = t.blocks /\ table'[r].committed = t.committed
    BY DEF Published, SameTables
  <2>2. t \in TableType /\ ToSet(t.blocks) = Held[r] \cup Claimed[r]
        /\ \A m \in 1 .. Len(t.blocks) : AdvancedSizes(x)[t.blocks[m]] = Filled(t.committed, m)
    BY NextTableFacts
  <2> HIDE DEF t
  <2>3. b \in ToSet(t.blocks)
    BY <1>8, <2>1, <2>2 DEF ToSet, TableType
  <2>4. AdvancedSizes(x)[b] = Filled(t.committed, j)
    BY <1>8, <2>1, <2>2
  <2> HIDE DEF b
  <2>5. b \in Blocks /\ cache.ref[b] >= 1 + Bit(b \in Indexed(cache))
    <3>1. CASE b \in Held[r]
      BY <1>2, <3>1, UsersCount
    <3>2. CASE b \in Claimed[r]
      BY <1>2, <3>2, UsersCount
    <3> QED BY <2>2, <2>3, <3>1, <3>2
  <2>6. b \notin G
    <3>1. b \in Indexed(cache) => cache.ref[b] >= 2
      BY <1>3, <2>5 DEF Bit
    <3> QED BY <1>1, <1>3, <2>5, <3>1
  <2>7. cache'.size[b] = Filled(t.committed, j)
    BY <1>1, <2>4, <2>5, <2>6
  <2> QED BY <2>1, <2>7 DEF b
<1>9. (\A i \in 1 .. Len(rsv) : \A b \in ToSet(rsv[i].new) : cache.size[b] = 0)'
  BY DEF ToSet
<1>10. (\A b \in Blocks : cache.ref[b] = 0 => cache.size[b] = 0)'
  BY <1>6
<1>11. (\A b \in Indexed(cache) : cache.size[b] = BlockSize)'
  BY <1>7 DEF Indexed
<1>12. (\A r \in Requests : \A j \in 1 .. Len(table[r].blocks) :
            cache.size[table[r].blocks[j]] = Filled(table[r].committed, j))'
  BY <1>8 DEF Filled
<1> QED BY <1>9, <1>10, <1>11, <1>12 DEF SizesOK

(* The requests agree with the tables again. *)
LEMMA CommitStaging ==
    ASSUME StepInv, Reserved, NEW x \in Results, Published(x), req' = NextRequests(x)
    PROVE  /\ StartedPrefillOwnsItsPrompt'
           /\ \A r \in Requests : req'[r].status # "Failed" =>
                                    req'[r].processed = table'[r].committed
<1> SUFFICES ASSUME NEW r \in Requests
             PROVE  /\ req'[r].status # "Failed" => req'[r].processed = table'[r].committed
                    /\ req'[r].status = "Active" /\ req'[r].processed < req'[r].prompt =>
                            Len(table'[r].blocks) * BlockSize >= req'[r].prompt
  BY DEF StartedPrefillOwnsItsPrompt, IsPrefill
<1>1. /\ table'[r].blocks = NextTables(x)[r].blocks
      /\ table'[r].committed = NextTables(x)[r].committed
      /\ ~InPlan(r) => table'[r] = NextTables(x)[r]
  BY DEF Published, SameTables
<1>2. CASE InPlan(r)
  <2> DEFINE i == RowOf(r)
  <2>1. i \in 1 .. Len(plan) /\ plan[i].r = r /\ CommittedFields(i, x[i], req'[r])
    BY <1>2, NextRequestFacts
  <2>2. NextTables(x)[r] = AdvancedTable(i, x[i])
    BY <1>2 DEF NextTables
  <2> HIDE DEF i
  <2>3. table'[r].blocks = BlockTable(i) /\ table'[r].committed = KeptTarget(i, x[i])
    BY <1>1, <2>1, <2>2, AdvancedTableFacts
  <2>4. req'[r].processed = KeptTarget(i, x[i]) /\ req'[r].prompt = req[r].prompt
    BY <2>1 DEF CommittedFields
  <2>5. RowIs(i, BlockTable(i), rsv[i].from, rsv[i].target)
    BY <2>1, RowFacts
  <2> DEFINE u == BlockTable(i)
             z == Len(u) * BlockSize
  <2>6. Len(u) \in Nat /\ z >= Len(req[r].tokens)
    BY <2>1, <2>5 DEF RowIs
  <2>7. req[r].prompt \in Nat /\ Len(req[r].tokens) \in Nat /\ req[r].prompt <= Len(req[r].tokens)
    <3>1. req[r] \in RequestType /\ SessionOK(req[r])
      BY DEF StepInv, RequestsOK
    <3> QED BY <3>1 DEF RequestType, SessionOK
  <2>8. z \in Int
    <3> HIDE DEF u
    <3>1. Len(u) \in Int
      BY <2>6
    <3> QED BY <3>1, TimesBlockSize
  <2> HIDE DEF z
  <2>9. z >= req[r].prompt
    BY <2>6, <2>7, <2>8
  <2> QED BY <2>3, <2>4, <2>9 DEF z
<1>3. CASE ~InPlan(r)
  <2>1. req'[r] = req[r] /\ table'[r] = table[r]
    BY <1>1, <1>3, NextRequestFacts DEF NextTables
  <2>2. ~Adopts(plan, r)
    BY <1>3 DEF Adopts, InPlan
  <2>3. req[r].status # "Failed" => req[r].processed = table[r].committed
    <3>1. Len(plan) \in Nat /\ DOMAIN plan = 1 .. Len(plan)
      BY DEF StepInv, PlanOK
    <3> QED BY <1>3, <3>1 DEF StepInv, StagingOK, InPlan
  <2> QED BY <2>1, <2>3 DEF StepInv, StartedPrefillOwnsItsPrompt, IsPrefill
<1> QED BY <1>2, <1>3

(* A commit keeps the invariant, and is a commit of the ledger. *)
LEMMA CommitPreserves ==
    ASSUME StepInv, CommitStep, config' = config
    PROVE  StepInv' /\ LP!Commit
<1>1. Reserved /\ \E x, s : Commits(x, s)
  BY CommitOutcome
<1>2. PICK x, s : Commits(x, s)
  BY <1>1
<1>3. /\ x \in Results /\ residents' = residents \o Admitted /\ req' = NextRequests(x)
      /\ phase' = "idle" /\ plan' = <<>> /\ rsv' = <<>> /\ pool' = pool
  BY <1>2 DEF Commits, Admitted
<1>4. Published(x)
  BY <1>1, <1>2, CommitPublishes
<1>5. LP!Commit
  BY <1>1, <1>3, <1>4, CommitLedger
<1>6. LP!LedgerInv'
  BY <1>5, LedgerStep DEF StepInv, LP!Next
<1>7. /\ QueuesOK' /\ RequestsOK'
      /\ \A r \in Requests : r \in ToSet(residents') <=> r \in ToSet(residents) \/ InPlan(r)
  BY <1>1, <1>3, CommitQueues
<1>8. TablesOK' /\ SizesOK'
  BY <1>1, <1>3, <1>4, <1>6, <1>7, CommitTables, CommitSizes
<1>9. /\ StartedPrefillOwnsItsPrompt'
      /\ \A r \in Requests : req'[r].status # "Failed" =>
                                req'[r].processed = table'[r].committed
  BY <1>1, <1>3, <1>4, CommitStaging
<1>10. PlanOK' /\ RsvOK' /\ PhaseOK' /\ StagingOK'
  BY <1>3, <1>9, BetweenStepsAgain
<1>11. config' \in Configurations /\ PoolInv(cache)'
  BY <1>4 DEF StepInv, Published, PoolInv, IsCache, ListsOK, IndexOK, Indexed
<1> QED BY <1>5, <1>6, <1>7, <1>8, <1>9, <1>10, <1>11 DEF StepInv

(* A request no pool could serve fails alone. *)
LEMMA UnserviceablePreserves ==
    ASSUME StepInv, FailUnserviceableRequest, config' = config
    PROVE  StepInv' /\ ((\E r \in Requests : LP!Release(r)) \/ UNCHANGED LP!vars)
<1>1. PICK r \in Probe.unserviceable :
        /\ phase = "idle" /\ RemoveFromCache(r) /\ pool' = RemoveFirst(pool, r)
        /\ req' = [req EXCEPT ![r].status = "Failed", ![r].drafts = <<>>]
        /\ UNCHANGED <<plan, rsv, phase>>
  BY DEF FailUnserviceableRequest
<1>2. r \in Requests
  BY <1>1, ProbeFacts
<1> QED BY <1>1, <1>2, FailPreserves

(* Every step of the engine keeps the invariant, and is a step of the ledger *)
(* or leaves the ledger alone.                                               *)
LEMMA StepPreserves ==
    ASSUME StepInv, Next
    PROVE  StepInv' /\ [LP!Next]_(LP!vars)
<1>1. config' = config /\ Steps
  BY DEF Next
<1>2. CASE PlanStep
  BY <1>1, <1>2, PlanPreserves
<1>3. CASE ReserveStep
  BY <1>1, <1>3, ReservePreserves DEF LP!Next
<1>4. CASE Execute
  BY <1>1, <1>4, ExecutePreserves
<1>5. CASE AbortStep
  BY <1>1, <1>5, AbortPreserves DEF LP!Next
<1>6. CASE CommitStep
  BY <1>1, <1>6, CommitPreserves DEF LP!Next
<1>7. CASE FailUnserviceableRequest
  BY <1>1, <1>7, UnserviceablePreserves DEF LP!Next
<1>8. ASSUME NEW r \in Requests, NEW input \in Prompts, BeginTurn(r, input)
      PROVE  StepInv' /\ UNCHANGED LP!vars
  BY <1>1, <1>8, BeginTurnPreserves
<1>9. ASSUME NEW r \in Requests, CancelRequest(r)
      PROVE  StepInv' /\ UNCHANGED LP!vars
  BY <1>1, <1>9, CancelPreserves
<1>10. ASSUME NEW r \in Requests, CloseRequest(r)
       PROVE  StepInv' /\ (LP!Release(r) \/ UNCHANGED LP!vars)
  BY <1>1, <1>10, ClosePreserves
<1>11. ASSUME NEW r \in Requests, NEW drafts \in DraftSequences, SetDraftTokens(r, drafts)
       PROVE  StepInv' /\ UNCHANGED LP!vars
  BY <1>1, <1>11, SetDraftsPreserves
<1>12. ASSUME NEW r \in Requests, NEW k \in DOMAIN req[r].starts, RewindRequestToStartOfTurn(r, k)
       PROVE  StepInv' /\ (LP!Release(r) \/ UNCHANGED LP!vars)
  BY <1>1, <1>12, RewindPreserves
<1> QED BY <1>1, <1>2, <1>3, <1>4, <1>5, <1>6, <1>7, <1>8, <1>9, <1>10, <1>11, <1>12
        DEF Steps, LP!Next

(* Stuttering changes nothing the invariant speaks of. *)
LEMMA StutterPreserves ==
    ASSUME StepInv, UNCHANGED vars
    PROVE  StepInv' /\ UNCHANGED LP!vars
<1>1. UNCHANGED <<config, cache, table, residents, pool, req, plan, rsv, phase>>
  BY DEF vars
<1>2. /\ PoolInv(cache)' /\ UNCHANGED LP!vars /\ LP!LedgerInv' /\ TablesOK' /\ SizesOK'
  BY <1>1, CacheUntouched
<1>3. RequestsOK' /\ QueuesOK' /\ PlanOK' /\ StagingOK' /\ StartedPrefillOwnsItsPrompt'
      /\ config' \in Configurations
  BY <1>1, PlanUntouched
<1>4. RsvOK'
  <2>1. ASSUME NEW i PROVE DeltaOK(i)' <=> DeltaOK(i)
    <3>1. BlockTable(i)' = BlockTable(i)
      BY <1>1 DEF BlockTable
    <3>2. Target(plan[i])' = Target(plan[i])
      BY <1>1
    <3> QED BY <1>1, <3>1, <3>2 DEF DeltaOK, DeltaType
  <2>2. Reserved' <=> Reserved
    BY <1>1 DEF Reserved
  <2> QED BY <1>1, <2>1, <2>2 DEF StepInv, RsvOK, DeltaType
<1>5. PhaseOK'
  <2>1. \A i : Chained(cache, req[plan[i].r].tokens, plan[i].match)'
                <=> Chained(cache, req[plan[i].r].tokens, plan[i].match)
    BY <1>1 DEF Chained
  <2> QED BY <1>1, <2>1 DEF StepInv, PhaseOK
<1> QED BY <1>2, <1>3, <1>4, <1>5 DEF StepInv

(* The invariant holds in every reachable state: the pool, the index, the    *)
(* tables, the plan and the reservation agree with one another whatever      *)
(* requests arrive and however steps fail (PagedKeyValueCache).              *)
THEOREM EngineInvariance == Spec => []StepInv
<1>1. Init => StepInv
  BY StepInit
<1>2. StepInv /\ [Next]_vars => StepInv'
  BY StepPreserves, StutterPreserves
<1> QED BY <1>1, <1>2, PTL DEF Spec

---------------------------------------------------------------------------
(* What the invariant gives: the bookkeeping and the ledger. *)

(* The counts and the reclaimable list are exact in every state.            *)
LEMMA BookkeepingFollows == StepInv => BookkeepingIsExact
<1> SUFFICES ASSUME StepInv PROVE BookkeepingIsExact
  OBVIOUS
<1>1. LP!LedgerInv /\ PoolInv(cache)
  BY DEF StepInv
<1>2. ASSUME NEW b \in Blocks
      PROVE  cache.ref[b] =
                Cardinality({r \in Requests : b \in ToSet(table[r].blocks)})
                + Cardinality({i \in DOMAIN rsv : b \in ToSet(rsv[i].adopted) \cup ToSet(rsv[i].new)})
                + (IF b \in Indexed(cache) THEN 1 ELSE 0)
  <2>1. cache.ref[b] = LP!Cardinality(LP!Users(Held, b)) + LP!Cardinality(LP!Users(Claimed, b))
                       + LP!One(b \in Indexed(cache))
    BY <1>1 DEF LP!LedgerInv, LP!CountsAreExact
  <2>2. LP!Users(Held, b) = {r \in Requests : b \in ToSet(table[r].blocks)}
    BY DEF LP!Users, Held
  <2>3. \E n \in Nat : AreDeltas(rsv, n)
    <3>1. CASE Reserved
      <4>1. Len(plan) \in Nat
        BY DEF StepInv, PlanOK
      <4> QED BY <3>1, <4>1, OpenDeltas
    <3>2. CASE ~Reserved
      <4>1. rsv = <<>>
        BY <3>2 DEF StepInv, RsvOK
      <4>2. AreDeltas(rsv, 0)
        BY <4>1 DEF AreDeltas, DistinctRequests
      <4> QED BY <4>2
    <3> QED BY <3>1, <3>2
  <2>4. PICK n \in Nat : AreDeltas(rsv, n)
    BY <2>3
  <2>5. DOMAIN rsv = 1 .. n
    BY <2>4 DEF AreDeltas
  <2>6. Claimed = ClaimedOf(rsv)
    BY DEF Claimed, ClaimedOf
  <2>7. LP!Cardinality(LP!Users(ClaimedOf(rsv), b))
            = Cardinality({i \in 1 .. n : b \in ToSet(rsv[i].adopted) \cup ToSet(rsv[i].new)})
    BY <2>4, ClaimCount
  <2>8. LP!Cardinality(LP!Users(Held, b)) = Cardinality({r \in Requests : b \in ToSet(table[r].blocks)})
    BY <2>2, LedgerCounts
  <2> QED BY <2>1, <2>5, <2>6, <2>7, <2>8 DEF LP!One
<1>3. ReferencesAreExact
  BY <1>2 DEF ReferencesAreExact
<1>4. ReclaimableListIsExact
  <2>1. ListsOK(cache) /\ cache.reclaimable \in Seq(Blocks)
    BY <1>1, FieldTypes DEF PoolInv
  <2>2. Cardinality(ToSet(cache.reclaimable)) = Len(cache.reclaimable)
    BY <2>1, DistinctCount DEF ListsOK
  <2> QED BY <2>1, <2>2 DEF ListsOK, ReclaimableListIsExact
<1> QED BY <1>3, <1>4 DEF BookkeepingIsExact

(* Every block's count is the number of the tables, pending adoptions,       *)
(* reservations and index entries that refer to it, and the reclaimable list *)
(* is exactly the blocks only the index refers to, each once (block.cpp,     *)
(* prefix_cache.cpp).                                                        *)
THEOREM ExactBookkeeping == Spec => []BookkeepingIsExact
  BY EngineInvariance, BookkeepingFollows, PTL

(* Every step of the engine is a step of the ledger of block ownership, or   *)
(* leaves the ledger alone: the reservation, the commit, the rollback and    *)
(* the release of a table do to the pool what the ledger says they do.       *)
THEOREM LedgerRefined == Spec => ImplementsLedger
<1>1. Init => Ledger!Init
  <2> SUFFICES ASSUME Init PROVE Ledger!Init
    OBVIOUS
  <2>1. config.maxIndexed \in Nat /\ cache = EmptyCache(config.maxIndexed)
    BY ConfigFacts DEF Init
  <2>2. cache.ref = [b \in Blocks |-> 0] /\ Indexed(cache) = {}
    BY <2>1, EmptyCacheInv
  <2>3. Held = [r \in Requests |-> {}]
    BY DEF Init, Held, EmptyTable, ToSet
  <2>4. Claimed = [r \in Requests |-> {}]
    BY NothingClaimed DEF Init, Claimed, ClaimedOf
  <2> QED BY <2>2, <2>3, <2>4 DEF Ledger!Init, Ledger!NoBlocks
<1>2. \A S : LP!Cardinality(S) = Ledger!Cardinality(S)
  BY DEF LP!Cardinality, Ledger!Cardinality
<1>3. StepInv /\ [Next]_vars => [Ledger!Next]_(Ledger!vars)
  <2> SUFFICES ASSUME StepInv, [Next]_vars PROVE [Ledger!Next]_(Ledger!vars)
    OBVIOUS
  <2>1. [LP!Next]_(LP!vars)
    BY StepPreserves, StutterPreserves
  <2>2. CASE UNCHANGED LP!vars
    BY <2>2 DEF LP!vars, Ledger!vars
  <2>3. CASE LP!Reserve
    BY <1>2, <2>3 DEF LP!Reserve, Ledger!Reserve, Ledger!Next, LP!NoBlocks, Ledger!NoBlocks,
       LP!Reclaimable, Ledger!Reclaimable, LP!Takeable, Ledger!Takeable, LP!Users, Ledger!Users
  <2>4. CASE LP!Abort
    BY <1>2, <2>4 DEF LP!Abort, Ledger!Abort, Ledger!Next, LP!NoBlocks, Ledger!NoBlocks,
       LP!Users, Ledger!Users
  <2>5. CASE LP!Commit
    BY <2>5 DEF LP!Commit, Ledger!Commit, Ledger!Next, LP!NoBlocks, Ledger!NoBlocks,
       LP!Reclaimable, Ledger!Reclaimable, LP!One, Ledger!One
  <2>6. ASSUME NEW r \in Requests, LP!Release(r) PROVE Ledger!Next
    BY <2>6 DEF LP!Release, Ledger!Release, Ledger!Next, LP!NoBlocks, Ledger!NoBlocks,
       LP!One, Ledger!One
  <2> QED BY <2>1, <2>2, <2>3, <2>4, <2>5, <2>6 DEF LP!Next
<1> QED BY <1>1, <1>3, EngineInvariance, PTL DEF Spec, ImplementsLedger, Ledger!Spec

(* No step writes into a block that another request can read, or that the    *)
(* index can hand out later.                                                 *)
THEOREM ExclusiveWrites == Spec => []StepWritesAreExclusive
  BY EngineInvariance, WritesAreExclusive, PTL

(* A prefill that started owns the blocks of its whole prompt, and between   *)
(* steps what a request has processed is what its table has committed        *)
(* (request.cpp, PlanStepResources, Rewind).                                 *)
THEOREM TablesMatch == Spec => []TablesMatchRequests
<1>1. StepInv => TablesMatchRequests
  <2> SUFFICES ASSUME StepInv PROVE TablesMatchRequests
    OBVIOUS
  <2>1. phase = "idle" => plan = <<>>
    BY DEF StepInv, PhaseOK
  <2>2. StagingOK /\ StartedPrefillOwnsItsPrompt
    BY DEF StepInv
  <2>3. ProcessedIsCommitted
    BY <2>1, <2>2 DEF StagingOK, ProcessedIsCommitted
  <2> QED BY <2>2, <2>3 DEF TablesMatchRequests
<1> QED BY <1>1, EngineInvariance, PTL

(* Every variable has the shape the code gives it. *)
THEOREM EngineTypeCorrect == Spec => []TypeOK
<1>1. StepInv => TypeOK
  <2> SUFFICES ASSUME StepInv PROVE TypeOK
    OBVIOUS
  <2>1. PoolInv(cache) /\ RequestsOK /\ QueuesOK /\ TablesOK /\ StagingOK /\ PhaseOK
    BY DEF StepInv
  <2>2. cache.ref \in [Blocks -> Nat] /\ cache.ident \in [Blocks -> Ids \cup {NoId}]
        /\ cache.size = [b \in Blocks |-> cache.size[b]]
    BY <2>1, FieldTypes DEF PoolInv
  <2>3. cache.size \in [Blocks -> 0 .. BlockSize]
    BY <2>2, SizesAreCounts
  <2>4. ToSet(cache.recency) \subseteq Blocks
    BY <2>1, IndexedBlocks DEF PoolInv, Indexed
  <2>5. ASSUME NEW r \in Requests
        PROVE  /\ ToSet(table[r].blocks) \subseteq Blocks /\ table[r].committed \in 0 .. MaxSession
               /\ req[r].tokens \in Seq(Tokens) /\ req[r].processed \in 0 .. MaxSession
    <3>1. table[r] \in TableType /\ req[r] \in RequestType /\ SessionOK(req[r])
      BY <2>1 DEF TablesOK, RequestsOK
    <3>2. ToSet(table[r].blocks) \subseteq Blocks /\ req[r].tokens \in Seq(Tokens)
      BY <3>1, ListBlocks DEF TableType, RequestType
    <3>3. req[r].processed \in Nat /\ req[r].processed <= MaxSession
      <4>1. /\ req[r].processed \in Nat /\ Len(req[r].tokens) \in Nat
            /\ req[r].processed <= Len(req[r].tokens) /\ Len(req[r].tokens) <= MaxSession
        BY <3>1 DEF SessionOK, RequestType
      <4>2. MaxSession \in Nat
        BY ConfigFacts DEF StepInv
      <4> QED BY <4>1, <4>2
    <3>4. MaxSession \in Nat
      BY ConfigFacts DEF StepInv
    <3>5. table[r].committed = req[r].processed \/ table[r] = EmptyTable
      <4>1. CASE req[r].status = "Failed"
        <5>1. r \notin ToSet(residents)
          BY <2>1, <4>1 DEF QueuesOK, Open
        <5> QED BY <2>1, <5>1 DEF TablesOK
      <4>2. CASE req[r].status # "Failed" /\ ~(req[r].processed = table[r].committed)
        <5>1. PICK i \in 1 .. Len(plan) : plan[i].r = r /\ plan[i].match # <<>>
          BY <2>1, <4>2 DEF StagingOK
        <5>2. r \notin ToSet(residents)
          BY <5>1, PlanEntry DEF EntryOK
        <5> QED BY <2>1, <5>2 DEF TablesOK
      <4> QED BY <4>1, <4>2
    <3>6. table[r].committed \in 0 .. MaxSession
      BY <3>3, <3>4, <3>5 DEF EmptyTable
    <3> QED BY <3>2, <3>3, <3>4, <3>6
  <2> QED BY <2>1, <2>2, <2>3, <2>4, <2>5 DEF TypeOK, PhaseOK
<1> QED BY <1>1, EngineInvariance, PTL

---------------------------------------------------------------------------
(* The budget of a step. *)

(* The blocks the entries need, added up one by one: as a formula of the     *)
(* first order, so that it reads the same in two states that give every      *)
(* entry the same blocks.                                                    *)
Adds(f, t) ==
    /\ f \in [0 .. Len(t) -> Nat] /\ f[0] = 0
    /\ \A i \in 1 .. Len(t) : f[i] = f[i - 1] + NewBlocks(t[i])

(* The cache can serve the entries together. *)
ServedTogether(t) ==
    /\ Len(t) <= Limit
    /\ \A i \in 1 .. Len(t) : ProposedBlocks(t[i]) <= NumBlocks
    /\ \A i \in 1 .. Len(t) : t[i].new => Len(residents) + Cardinality(News(t)) <= MaxBatch
    /\ \E f : Adds(f, t) /\ f[Len(t)] + Cardinality(ChargedBy(t)) <= Usable

(* There is one way to add them up. *)
LEMMA AddsUp ==
    ASSUME StepInv, NEW t \in Seq(EntryType)
    PROVE  /\ \E f : Adds(f, t)
           /\ \A f : Adds(f, t) => f[Len(t)] = BlocksOf(t, Len(t))
<1> DEFINE n == Len(t)
           g == [i \in 0 .. n |-> BlocksOf(t, i)]
<1>1. n \in Nat
  OBVIOUS
<1>2. /\ BlocksOf(t, 0) = 0 /\ \A i \in 0 .. n : BlocksOf(t, i) \in Nat
      /\ \A i \in 1 .. n : BlocksOf(t, i) = BlocksOf(t, i - 1) + NewBlocks(t[i])
  BY BlocksOfFacts
<1>3. Adds(g, t)
  <2>1. \A i \in 1 .. n : i \in 0 .. n /\ i - 1 \in 0 .. n
    BY <1>1
  <2>2. \A i \in 1 .. n : g[i] = g[i - 1] + NewBlocks(t[i])
    BY <1>2, <2>1
  <2>3. g[0] = 0 /\ g \in [0 .. n -> Nat]
    BY <1>1, <1>2
  <2> QED BY <2>2, <2>3 DEF Adds
<1>4. ASSUME NEW f, Adds(f, t) PROVE f[n] = BlocksOf(t, n)
  <2>1. f[0] = 0 /\ \A i \in 1 .. n : f[i] = f[i - 1] + NewBlocks(t[i])
    BY <1>4 DEF Adds
  <2> HIDE DEF n
  <2> DEFINE I == {i \in 0 .. n : f[i] = BlocksOf(t, i)}
  <2>2. 0 \in I
    BY <1>1, <1>2, <2>1
  <2>3. ASSUME NEW i \in 0 .. n - 1, i \in I PROVE i + 1 \in I
    <3>1. i + 1 \in 1 .. n /\ (i + 1) - 1 = i /\ i + 1 \in 0 .. n
      BY <1>1
    <3> QED BY <1>2, <2>1, <2>3, <3>1
  <2> HIDE DEF I
  <2>4. 0 .. n \subseteq I
    BY <1>1, <2>2, <2>3, RangeInduction
  <2>5. n \in I
    BY <1>1, <2>4
  <2> QED BY <2>5 DEF I
<1> QED BY <1>3, <1>4

(* What can be served together is what the cache accepts. *)
LEMMA ServedIsAccepted ==
    ASSUME StepInv, NEW t \in Seq(EntryType)
    PROVE  ServedTogether(t) <=> Accepted(t)
<1>1. /\ \E f : Adds(f, t)
      /\ \A f : Adds(f, t) => f[Len(t)] = BlocksOf(t, Len(t))
  BY AddsUp
<1>2. (\E f : Adds(f, t) /\ f[Len(t)] + Cardinality(ChargedBy(t)) <= Usable)
        <=> BlocksOf(t, Len(t)) + Cardinality(ChargedBy(t)) <= Usable
  BY <1>1
<1>3. ServedTogether(t) <=> Fits(t)
  BY <1>2 DEF ServedTogether, Fits
<1> QED BY <1>3, AcceptedFits

(* The budget was shared out in the order of the plan, and drafts were taken *)
(* away afterwards only if the cache could not serve what it gave: t is the  *)
(* plan before that, and rem what was left after each of its entries.        *)
SharesOut(p, t, rem) ==
    /\ t \in Seq(EntryType) /\ Len(t) = Len(p)
    /\ rem \in [0 .. Len(p) -> Nat] /\ rem[0] = MaxScheduledTokens - Len(p)
    /\ \A i \in 1 .. Len(p) :
        /\ FedAs(p[i], p[i]) /\ FedAs(t[i], p[i]) /\ Wanted(p[i]) \in Nat
        /\ rem[i] = rem[i - 1] - Smaller(Wanted(p[i]), rem[i - 1])
        /\ t[i].n = 1 + Smaller(Wanted(p[i]), rem[i - 1])
    /\ FewerThan(p, t, Len(p))
    /\ p # t => ~ServedTogether(t)

(* What the budget property needs of the invariant. *)
BudgetInv ==
    phase = "planned" => DecodesFirst(plan) /\ \E t, rem : SharesOut(plan, t, rem)

(* The plan of a step shares the budget out. *)
LEMMA FittedSharesOut ==
    ASSUME StepInv, phase = "idle"
    PROVE  DecodesFirst(Fitted) /\ \E t, rem : SharesOut(Fitted, t, rem)
<1> DEFINE es == Probe.chosen
           t == Budgeted(es)
           p == Fitted
           n == Len(es)
<1>1. /\ Offers(es) /\ DecodesFirst(es) /\ n \in Nat /\ n <= MaxScheduledTokens
  BY ProbeFacts
<1>2. /\ Feeds(t, es) /\ Feeds(p, es) /\ Len(p) = n /\ FewerThan(p, t, n)
      /\ p # t => ~Accepted(t)
  BY PlannedFacts
<1> HIDE DEF p, es, t, n
<1>3. PICK rem : Shares(rem, es, n) /\ \A i \in 1 .. n : t[i].n = 1 + Smaller(Wanted(es[i]), rem[i - 1])
  BY <1>1, BudgetedFacts DEF t, n
<1>4. t \in Seq(EntryType) /\ p \in Seq(EntryType) /\ Len(t) = n
      /\ \A i \in 1 .. n : FedAs(t[i], es[i]) /\ FedAs(p[i], es[i])
  BY <1>2 DEF Feeds, n
<1>5. ASSUME NEW i \in 1 .. n
      PROVE  Wanted(p[i]) = Wanted(es[i]) /\ FedAs(p[i], p[i]) /\ FedAs(t[i], p[i])
             /\ p[i].prefill = es[i].prefill /\ Wanted(p[i]) \in Nat
  <2>1. /\ p[i].r = es[i].r /\ p[i].prefill = es[i].prefill /\ p[i].base = es[i].base
        /\ p[i].new = es[i].new /\ p[i].match = es[i].match
    BY <1>4 DEF FedAs
  <2>2. Wanted(p[i]) = Wanted(es[i])
    BY <2>1 DEF Wanted, Wish
  <2>3. FedAs(t[i], es[i]) /\ FedAs(p[i], es[i])
    BY <1>4
  <2>4. Wanted(es[i]) \in Nat
    <3>1. es[i] \in EntryType /\ EntryOK(es[i]) /\ IsOffer(es[i])
      BY <1>1 DEF Offers, EntriesOK, n
    <3> QED BY <3>1, WantedFacts
  <2> QED BY <2>1, <2>2, <2>3, <2>4 DEF FedAs
<1>6. DecodesFirst(p)
  BY <1>1, <1>2, <1>5 DEF DecodesFirst, n
<1>7. p # t => ~ServedTogether(t)
  BY <1>2, <1>4, ServedIsAccepted
<1>8. /\ rem \in [0 .. n -> Nat] /\ rem[0] = MaxScheduledTokens - n
      /\ \A i \in 1 .. n : rem[i] = rem[i - 1] - Smaller(Wanted(es[i]), rem[i - 1])
  BY <1>3 DEF Shares
<1>9. \A i \in 1 .. n : /\ rem[i] = rem[i - 1] - Smaller(Wanted(p[i]), rem[i - 1])
                        /\ t[i].n = 1 + Smaller(Wanted(p[i]), rem[i - 1])
  BY <1>3, <1>5, <1>8
<1>10. Len(p) = n
  BY <1>2
<1>11. SharesOut(p, t, rem)
  BY <1>2, <1>4, <1>5, <1>7, <1>8, <1>9, <1>10 DEF SharesOut
<1> QED BY <1>6, <1>11 DEF p

(* Staging an adoption changes neither the blocks an entry needs nor the     *)
(* tokens it could use.                                                      *)
LEMMA StagingKeepsWishes ==
    ASSUME StepInv, phase = "idle", EntriesOK(Fitted), req' = StagePrefixAdoption(Fitted),
           UNCHANGED <<config, cache, table, residents>>
    PROVE  /\ \A e \in EntryType : /\ NewBlocks(e)' = NewBlocks(e)
                                   /\ ProposedBlocks(e)' = ProposedBlocks(e)
                                   /\ Wanted(e)' = Wanted(e)
           /\ \A t \in Seq(EntryType) : ServedTogether(t)' <=> ServedTogether(t)
           /\ MaxScheduledTokens' = MaxScheduledTokens /\ EntryType' = EntryType
<1>1. \A r \in Requests : req'[r].tokens = req[r].tokens /\ req'[r].drafts = req[r].drafts
  BY StagedFacts
<1>2. ASSUME NEW e \in EntryType
      PROVE  /\ NewBlocks(e)' = NewBlocks(e) /\ ProposedBlocks(e)' = ProposedBlocks(e)
             /\ Wanted(e)' = Wanted(e)
  <2>1. e.r \in Requests
    BY DEF EntryType
  <2>2. req'[e.r].tokens = req[e.r].tokens /\ req'[e.r].drafts = req[e.r].drafts
    BY <1>1, <2>1
  <2>3. NewBlocks(e)' = NewBlocks(e)
    BY <2>2 DEF NewBlocks
  <2>4. Wish(e)' = Wish(e)
    BY <2>2 DEF Wish, PrefillChunk, MaxDrafts
  <2> QED BY <2>3, <2>4 DEF ProposedBlocks, Wanted
<1>3. ASSUME NEW t \in Seq(EntryType) PROVE ServedTogether(t)' <=> ServedTogether(t)
  <2>1. Len(t) \in Nat /\ \A i \in 1 .. Len(t) : t[i] \in EntryType
    OBVIOUS
  <2>2. Limit' = Limit /\ MaxBatch' = MaxBatch /\ Usable' = Usable
    BY DEF Limit, MaxScheduledTokens, MaxBatch, Usable
  <2>3. ChargedBy(t)' = ChargedBy(t)
    BY DEF ChargedBy
  <2>4. ASSUME NEW f PROVE Adds(f, t)' <=> Adds(f, t)
    BY <1>2, <2>1 DEF Adds
  <2> QED BY <1>2, <2>1, <2>2, <2>3, <2>4 DEF ServedTogether
<1>4. MaxScheduledTokens' = MaxScheduledTokens /\ EntryType' = EntryType
  BY DEF MaxScheduledTokens, EntryType
<1> QED BY <1>2, <1>3, <1>4

(* Planning shares the budget out. *)
LEMMA PlanSharesOut ==
    ASSUME StepInv, PlanStep, config' = config
    PROVE  BudgetInv'
<1>1. /\ plan' = Fitted /\ req' = StagePrefixAdoption(Fitted) /\ phase = "idle"
      /\ UNCHANGED <<config, cache, table, residents>>
  BY PlanGoesAhead
<1>2. EntriesOK(Fitted)
  BY <1>1, PlannedFacts
<1>3. /\ \A e \in EntryType : Wanted(e)' = Wanted(e)
      /\ \A t \in Seq(EntryType) : ServedTogether(t)' <=> ServedTogether(t)
      /\ MaxScheduledTokens' = MaxScheduledTokens /\ EntryType' = EntryType
  BY <1>1, <1>2, StagingKeepsWishes
<1>p. PICK p : p = Fitted
  OBVIOUS
<1> DEFINE n == Len(p)
<1>4. DecodesFirst(p)
  BY <1>p, <1>1, FittedSharesOut
<1>0. PICK t, rem : SharesOut(p, t, rem)
  BY <1>p, <1>1, FittedSharesOut
<1>5. /\ t \in Seq(EntryType) /\ Len(t) = n
      /\ rem \in [0 .. n -> Nat]
      /\ rem[0] = MaxScheduledTokens - n
      /\ \A i \in 1 .. n :
            /\ FedAs(p[i], p[i]) /\ FedAs(t[i], p[i]) /\ Wanted(p[i]) \in Nat
            /\ rem[i] = rem[i - 1] - Smaller(Wanted(p[i]), rem[i - 1])
            /\ t[i].n = 1 + Smaller(Wanted(p[i]), rem[i - 1])
      /\ FewerThan(p, t, n)
      /\ p # t => ~ServedTogether(t)
  BY <1>0 DEF SharesOut
<1>6. p \in Seq(EntryType)
  BY <1>p, <1>2 DEF EntriesOK
<1>7. plan' = p
  BY <1>p, <1>1
<1>8. ASSUME NEW e \in EntryType, NEW f \in EntryType
      PROVE  FedAs(e, f)' <=> FedAs(e, f)
  BY <1>3 DEF FedAs
<1>9. \A i \in 1 .. n : p[i] \in EntryType /\ t[i] \in EntryType
  BY <1>5, <1>6
<1>10. SharesOut(plan, t, rem)'
  <2>1. ASSUME NEW i \in 1 .. n
        PROVE  /\ FedAs(plan[i], plan[i])' /\ FedAs(t[i], plan[i])' /\ Wanted(p[i])' \in Nat
               /\ rem[i] = rem[i - 1] - Smaller(Wanted(p[i])', rem[i - 1])
               /\ t[i].n = 1 + Smaller(Wanted(p[i])', rem[i - 1])
    <3>1. p[i] \in EntryType /\ t[i] \in EntryType
      BY <1>9
    <3>2. FedAs(p[i], p[i])' /\ FedAs(t[i], p[i])'
      BY <1>5, <1>8, <3>1
    <3>3. Wanted(p[i])' = Wanted(p[i])
      BY <1>3, <3>1
    <3> QED BY <1>5, <1>7, <3>2, <3>3
  <2>2. FewerThan(plan', t, Len(plan'))
    BY <1>5, <1>7
  <2>3. plan' # t => ~ServedTogether(t)'
    BY <1>3, <1>5, <1>7
  <2> QED BY <1>3, <1>5, <1>7, <2>1, <2>2, <2>3 DEF SharesOut
<1> QED BY <1>4, <1>7, <1>10 DEF BudgetInv, DecodesFirst

(* Adding up the tokens of a plan, as a fold. *)
TotalStep(u, v, x, e) == x + e.n
TotalFold == INSTANCE FoldLemmas WITH Op <- TotalStep

(* The total of a plan is added up entry by entry. *)
LEMMA TotalRuns ==
    ASSUME NEW n \in Nat, NEW p, DOMAIN p = 1 .. n
    PROVE  \E h : /\ h[0] = 0 /\ \A i \in 1 .. n : h[i] = h[i - 1] + p[i].n
                  /\ FoldLeft(LAMBDA sum, e : sum + e.n, 0, p) = h[n]
<1>1. FoldLeft(LAMBDA sum, e : sum + e.n, 0, p) = TotalFold!FoldedBy(0, 0, 0, p)
  BY DEF TotalFold!FoldedBy, FoldLeft, MapThenFoldSet, TotalFold!Greatest, Max, TotalStep
<1>ind. TotalFold!Induction
  BY NatSetInduction DEF TotalFold!Induction
<1>2. PICK h : TotalFold!FoldRun(0, 0, h, 0, p, n) /\ TotalFold!FoldedBy(0, 0, 0, p) = h[n]
  BY <1>ind, TotalFold!FoldRuns
<1>3. h[0] = 0 /\ \A i \in 1 .. n : h[i] = h[i - 1] + p[i].n
  BY <1>2 DEF TotalFold!FoldRun, TotalStep
<1> QED BY <1>1, <1>2, <1>3

(* What is left of a budget, and what has been given of it: w are the wishes *)
(* and g what each entry got before drafts were taken away.                  *)
Spends(n, M, w, g, rem) ==
    /\ n \in Nat /\ M \in Nat /\ w \in [1 .. n -> Nat] /\ g \in [1 .. n -> Nat]
    /\ rem \in [0 .. n -> Nat] /\ rem[0] = M - n
    /\ \A i \in 1 .. n : /\ rem[i] = rem[i - 1] - Smaller(w[i], rem[i - 1])
                         /\ g[i] = 1 + Smaller(w[i], rem[i - 1])

(* As long as something is left, everyone has got all they wished. *)
LEMMA LeftOver ==
    ASSUME NEW n, NEW M, NEW w, NEW g, NEW rem, Spends(n, M, w, g, rem), NEW j \in 0 .. n, rem[j] > 0
    PROVE  \A i \in 1 .. j : g[i] = 1 + w[i]
<1>1. /\ n \in Nat /\ w \in [1 .. n -> Nat] /\ g \in [1 .. n -> Nat] /\ rem \in [0 .. n -> Nat]
      /\ \A i \in 1 .. n : /\ rem[i] = rem[i - 1] - Smaller(w[i], rem[i - 1])
                           /\ g[i] = 1 + Smaller(w[i], rem[i - 1])
  BY DEF Spends
<1> DEFINE I == {k \in 0 .. n : rem[k] > 0 => \A i \in 1 .. k : g[i] = 1 + w[i]}
<1>2. 0 \in I
  BY <1>1
<1>3. ASSUME NEW k \in 0 .. n - 1, k \in I PROVE k + 1 \in I
  <2>1. k + 1 \in 1 .. n /\ (k + 1) - 1 = k /\ k \in 0 .. n
    BY <1>1
  <2>2. /\ rem[k + 1] = rem[k] - Smaller(w[k + 1], rem[k])
        /\ g[k + 1] = 1 + Smaller(w[k + 1], rem[k])
        /\ rem[k] \in Nat /\ rem[k + 1] \in Nat /\ w[k + 1] \in Nat
    BY <1>1, <2>1
  <2>3. ASSUME rem[k + 1] > 0 PROVE g[k + 1] = 1 + w[k + 1] /\ rem[k] > 0
    BY <2>2, <2>3 DEF Smaller
  <2>4. ASSUME rem[k + 1] > 0, NEW i \in 1 .. k + 1 PROVE g[i] = 1 + w[i]
    <3>1. CASE i = k + 1
      BY <2>3, <2>4, <3>1
    <3>2. CASE i # k + 1
      <4>1. i \in 1 .. k
        BY <3>2
      <4> QED BY <1>3, <2>3, <2>4, <4>1
    <3> QED BY <3>1, <3>2
  <2> QED BY <2>1, <2>4
<1> HIDE DEF I
<1>4. 0 .. n \subseteq I
  BY <1>1, <1>2, <1>3, RangeInduction
<1>5. j \in I
  BY <1>4
<1> QED BY <1>5 DEF I

(* Feeding q, with h the running totals, is feeding nobody more than g does. *)
FeedsWithin(n, q, g, h) ==
    /\ q \in [1 .. n -> Nat]
    /\ \A i \in 1 .. n : q[i] <= g[i]
    /\ h[0] = 0
    /\ \A i \in 1 .. n : h[i] = h[i - 1] + q[i]

(* A plan that feeds nobody more than that spends no more than the budget,   *)
(* and all that is not left over if it feeds everybody just that.            *)
LEMMA SpentInAll ==
    ASSUME NEW n, NEW M, NEW w, NEW g, NEW rem, Spends(n, M, w, g, rem),
           NEW q, NEW h, FeedsWithin(n, q, g, h)
    PROVE  /\ h[n] \in Nat /\ h[n] <= M
           /\ (\A i \in 1 .. n : q[i] = g[i]) => h[n] = M - rem[n]
<1>0. /\ q \in [1 .. n -> Nat] /\ \A i \in 1 .. n : q[i] <= g[i]
      /\ h[0] = 0 /\ \A i \in 1 .. n : h[i] = h[i - 1] + q[i]
  BY DEF FeedsWithin
<1>1. /\ n \in Nat /\ M \in Nat /\ g \in [1 .. n -> Nat] /\ rem \in [0 .. n -> Nat]
      /\ rem[0] = M - n
      /\ \A i \in 1 .. n : rem[i] = rem[i - 1] - (g[i] - 1)
  <2>1. /\ n \in Nat /\ M \in Nat /\ w \in [1 .. n -> Nat] /\ g \in [1 .. n -> Nat]
        /\ rem \in [0 .. n -> Nat] /\ rem[0] = M - n
        /\ \A i \in 1 .. n : /\ rem[i] = rem[i - 1] - Smaller(w[i], rem[i - 1])
                             /\ g[i] = 1 + Smaller(w[i], rem[i - 1])
    BY DEF Spends
  <2>2. ASSUME NEW i \in 1 .. n PROVE rem[i] = rem[i - 1] - (g[i] - 1)
    <3> DEFINE s == Smaller(w[i], rem[i - 1])
    <3>1. rem[i - 1] \in Nat /\ w[i] \in Nat
      BY <2>1
    <3>2. s \in Nat /\ rem[i] = rem[i - 1] - s /\ g[i] = 1 + s
      BY <2>1, <3>1 DEF Smaller
    <3> HIDE DEF s
    <3> QED BY <3>1, <3>2
  <2> QED BY <2>1, <2>2
<1> DEFINE I == {k \in 0 .. n : /\ h[k] \in Nat /\ h[k] <= k + rem[0] - rem[k]
                                /\ (\A i \in 1 .. k : q[i] = g[i]) => h[k] = k + rem[0] - rem[k]}
<1>2. 0 \in I
  <2>1. 0 \in 0 .. n /\ rem[0] \in Nat
    BY <1>1
  <2>2. h[0] <= 0 + rem[0] - rem[0] /\ h[0] = 0 + rem[0] - rem[0]
    BY <1>0, <2>1
  <2> QED BY <2>1, <2>2
<1>3. ASSUME NEW k \in 0 .. n - 1, k \in I PROVE k + 1 \in I
  <2>1. k + 1 \in 1 .. n /\ (k + 1) - 1 = k /\ k \in 0 .. n /\ k + 1 \in 0 .. n /\ k \in Nat
    BY <1>1
  <2> DEFINE a == h[k]
             b == h[k + 1]
             u == rem[k]
             v == rem[k + 1]
             z == rem[0]
             y == q[k + 1]
             x == g[k + 1]
  <2>5. a \in Nat /\ a <= k + z - u
    BY <1>3
  <2>6. b = h[(k + 1) - 1] + y /\ v = rem[(k + 1) - 1] - (x - 1)
    BY <1>0, <1>1, <2>1
  <2>7. u \in Nat /\ v \in Nat /\ z \in Nat /\ y \in Nat /\ x \in Nat /\ y <= x
    BY <1>0, <1>1, <2>1
  <2>8. (\A i \in 1 .. k : q[i] = g[i]) => a = k + z - u
    BY <1>3
  <2>9. b = a + y /\ v = u - (x - 1)
    BY <2>1, <2>6
  <2>2. (\A i \in 1 .. k + 1 : q[i] = g[i]) => y = x /\ \A i \in 1 .. k : q[i] = g[i]
    BY <2>1
  <2> HIDE DEF a, b, u, v, z, y, x
  <2>3. b \in Nat /\ b <= (k + 1) + z - v
    BY <2>1, <2>5, <2>7, <2>9
  <2>4. (\A i \in 1 .. k + 1 : q[i] = g[i]) => b = (k + 1) + z - v
    <3>1. a = k + z - u /\ y = x => b = (k + 1) + z - v
      BY <2>1, <2>5, <2>7, <2>9
    <3> QED BY <2>2, <2>8, <3>1
  <2> QED BY <2>1, <2>3, <2>4 DEF b, z, v
<1> HIDE DEF I
<1>4. 0 .. n \subseteq I
  BY <1>1, <1>2, <1>3, RangeInduction
<1>5. n \in I /\ rem[n] \in Nat
  BY <1>1, <1>4
<1>6. /\ h[n] \in Nat /\ h[n] <= n + rem[0] - rem[n]
      /\ (\A i \in 1 .. n : q[i] = g[i]) => h[n] = n + rem[0] - rem[n]
  BY <1>5 DEF I
<1> DEFINE a == h[n]
           r == rem[n]
           z == rem[0]
<1>7. a \in Nat /\ a <= n + z - r /\ r \in Nat /\ z = M - n /\ n \in Nat /\ M \in Nat
  BY <1>1, <1>5, <1>6
<1>8. (\A i \in 1 .. n : q[i] = g[i]) => a = n + z - r
  BY <1>6
<1> HIDE DEF a, r, z
<1>9. a <= M /\ n + z - r = M - r
  BY <1>7
<1>10. a \in Nat /\ a <= M /\ ((\A i \in 1 .. n : q[i] = g[i]) => a = M - r)
  BY <1>7, <1>8, <1>9
<1> QED BY <1>10 DEF a, r

(* The parts of the property, by name. *)
HasAll(e) == e.n = 1 + Wanted(e)

(* An entry that has all it could use. *)
UncutEntry(e) == IF e.prefill THEN e ELSE [e EXCEPT !.n = 1 + Wanted(e), !.d = Wanted(e)]

(* The plan with every decode given all it could use. *)
UncutPlan == [i \in DOMAIN plan |-> UncutEntry(plan[i])]

(* Some decode does not have all it could use. *)
DraftsCut == \E i \in DOMAIN plan : ~plan[i].prefill /\ ~HasAll(plan[i])

(* Tokens the plan feeds. *)
TotalFed == FoldLeft(LAMBDA sum, e : sum + e.n, 0, plan)

(* The budget property, in these terms. *)
SharedFairly ==
    /\ TotalFed <= MaxScheduledTokens
    /\ \A i \in DOMAIN plan : plan[i].n \in 1 .. 1 + Wanted(plan[i])
    /\ \A j \in DOMAIN plan : plan[j].prefill /\ plan[j].n > 1 =>
        /\ \A i \in DOMAIN plan : plan[i].prefill /\ i < j => HasAll(plan[i])
        /\ DraftsCut => ~Accepted(UncutPlan)
    /\ TotalFed < MaxScheduledTokens =>
        DraftsCut \/ \A i \in DOMAIN plan : plan[i].prefill => HasAll(plan[i])

(* An entry that has all it can use is its uncut form. *)
LEMMA UncutFacts ==
    ASSUME NEW e \in EntryType, NEW f, FedAs(f, e), NEW w \in Nat, Wanted(e) = w,
           ~e.prefill, f.n = 1 + w
    PROVE  UncutEntry(e) = f
<1>1. /\ f \in EntryType /\ f.r = e.r /\ f.new = e.new /\ f.prefill = e.prefill
      /\ f.match = e.match /\ f.base = e.base /\ f.n = 1 + f.d
  BY DEF FedAs
<1>2. f.n \in Nat /\ f.d \in Nat /\ f.d = w
  <2>1. f.n \in Nat /\ f.d \in Nat
    BY <1>1 DEF EntryType
  <2> QED BY <1>1, <2>1
<1>3. f = [r |-> f.r, new |-> f.new, prefill |-> f.prefill, match |-> f.match, base |-> f.base,
           n |-> f.n, d |-> f.d]
  BY <1>1 DEF EntryType
<1>4. UncutEntry(e) = [r |-> e.r, new |-> e.new, prefill |-> e.prefill, match |-> e.match,
                       base |-> e.base, n |-> 1 + w, d |-> w]
  BY DEF UncutEntry, EntryType
<1> QED BY <1>1, <1>2, <1>3, <1>4

(* A plan that shares the budget out shares it fairly. *)
LEMMA SharesOutFairly ==
    ASSUME StepInv, DecodesFirst(plan), NEW t, NEW rem, SharesOut(plan, t, rem)
    PROVE  SharedFairly
<1> DEFINE n == Len(plan)
           M == MaxScheduledTokens
           w == [i \in 1 .. n |-> Wanted(plan[i])]
           g == [i \in 1 .. n |-> t[i].n]
           q == [i \in 1 .. n |-> plan[i].n]
<1>1. n \in Nat /\ DOMAIN plan = 1 .. n /\ M \in Nat
      /\ \A i \in 1 .. n : plan[i] \in EntryType /\ plan[i].prefill \in BOOLEAN
  BY PlanEntry, ConfigFacts DEF StepInv, PlanOK
<1>2. /\ t \in Seq(EntryType) /\ Len(t) = n
      /\ rem \in [0 .. n -> Nat] /\ rem[0] = M - n
      /\ \A i \in 1 .. n :
            /\ FedAs(plan[i], plan[i]) /\ FedAs(t[i], plan[i]) /\ Wanted(plan[i]) \in Nat
            /\ rem[i] = rem[i - 1] - Smaller(Wanted(plan[i]), rem[i - 1])
            /\ t[i].n = 1 + Smaller(Wanted(plan[i]), rem[i - 1])
      /\ FewerThan(plan, t, n) /\ (plan # t => ~ServedTogether(t))
  BY DEF SharesOut
<1> HIDE DEF n, M
<1>3. ASSUME NEW i \in 1 .. n
      PROVE  /\ plan[i].n \in Nat /\ t[i].n \in Nat /\ t[i].n >= 1 /\ t[i].n <= 1 + Wanted(plan[i])
             /\ plan[i].n \in 1 .. 1 + Wanted(plan[i]) /\ plan[i].n <= t[i].n
             /\ (plan[i].n = t[i].n => plan[i] = t[i])
             /\ (plan[i].prefill => plan[i] = t[i])
  <2>1. /\ plan[i] \in EntryType /\ t[i] \in EntryType /\ t[i].prefill = plan[i].prefill
        /\ Wanted(plan[i]) \in Nat /\ rem[i - 1] \in Nat
    BY <1>1, <1>2 DEF FedAs
  <2>2. plan[i].n \in Nat /\ t[i].n \in Nat /\ plan[i].d \in Nat
    BY <2>1 DEF EntryType
  <2>3. Smaller(Wanted(plan[i]), rem[i - 1]) \in 0 .. Wanted(plan[i])
    BY <2>1 DEF Smaller
  <2>4. t[i].n \in 1 .. 1 + Wanted(plan[i])
    <3> DEFINE s == Smaller(Wanted(plan[i]), rem[i - 1])
               x == t[i].n
               y == Wanted(plan[i])
    <3>1. x = 1 + s /\ s \in 0 .. y /\ y \in Nat
      BY <1>2, <2>1, <2>3
    <3> HIDE DEF s, x, y
    <3>2. x \in 1 .. 1 + y
      BY <3>1
    <3> QED BY <3>2 DEF x, y
  <2>5. plan[i] = t[i] \/ (~t[i].prefill /\ plan[i].n < t[i].n)
    BY <1>2 DEF FewerThan
  <2>6. plan[i].n \in 1 .. 1 + Wanted(plan[i])
    <3>1. FedAs(plan[i], plan[i])
      BY <1>2
    <3>2. CASE plan[i].prefill
      BY <3>1, <3>2 DEF FedAs
    <3>3. CASE ~plan[i].prefill
      <4>1. plan[i].n = 1 + plan[i].d /\ plan[i].d \in 0 .. Wanted(plan[i])
        BY <3>1, <3>3 DEF FedAs
      <4> QED BY <2>1, <2>2, <4>1
    <3> QED BY <3>2, <3>3
  <2> QED BY <2>1, <2>2, <2>4, <2>5, <2>6
<1>4. Spends(n, M, w, g, rem)
  <2>1. w \in [1 .. n -> Nat] /\ g \in [1 .. n -> Nat]
    BY <1>2, <1>3
  <2> QED BY <1>1, <1>2, <2>1 DEF Spends
<1>5. q \in [1 .. n -> Nat] /\ \A i \in 1 .. n : q[i] <= g[i]
  BY <1>3
<1>6. PICK h : /\ h[0] = 0 /\ \A i \in 1 .. n : h[i] = h[i - 1] + plan[i].n
               /\ TotalFed = h[n]
  BY <1>1, TotalRuns DEF TotalFed
<1>7. h[0] = 0 /\ \A i \in 1 .. n : h[i] = h[i - 1] + q[i]
  BY <1>6
<1>8. \A i \in 1 .. n : w[i] = Wanted(plan[i]) /\ g[i] = t[i].n /\ q[i] = plan[i].n
  OBVIOUS
<1>w. FeedsWithin(n, q, g, h)
  <2> HIDE DEF q, g
  <2> QED BY <1>5, <1>7 DEF FeedsWithin
<1> HIDE DEF w, g, q
<1>9. /\ h[n] \in Nat /\ h[n] <= M
      /\ (\A i \in 1 .. n : q[i] = g[i]) => h[n] = M - rem[n]
  BY <1>4, <1>w, SpentInAll
<1>10. ASSUME NEW j \in 1 .. n, plan[j].prefill, plan[j].n > 1
       PROVE  \A i \in 1 .. j - 1 : t[i].n = 1 + Wanted(plan[i])
  <2>1. t[j].n > 1 /\ t[j].n = 1 + Smaller(Wanted(plan[j]), rem[j - 1])
    BY <1>2, <1>3, <1>10
  <2>2. j - 1 \in 0 .. n /\ rem[j - 1] \in Nat /\ Wanted(plan[j]) \in Nat
    BY <1>1, <1>2
  <2>3. rem[j - 1] > 0
    BY <2>1, <2>2 DEF Smaller
  <2>4. \A i \in 1 .. j - 1 : g[i] = 1 + w[i]
    BY <1>4, <2>2, <2>3, LeftOver
  <2>5. \A i \in 1 .. j - 1 : i \in 1 .. n
    BY <1>1
  <2> QED BY <1>8, <2>4, <2>5
<1>11. ASSUME NEW j \in 1 .. n, plan[j].prefill, plan[j].n > 1, DraftsCut
       PROVE  ~Accepted(UncutPlan)
  <2>1. ASSUME NEW i \in 1 .. n, ~plan[i].prefill PROVE t[i].n = 1 + Wanted(plan[i])
    <3>1. i < j
      <4>1. ~(j < i) /\ i # j
        BY <1>1, <1>11, <2>1 DEF DecodesFirst, n
      <4> QED BY <1>1, <4>1
    <3>2. i \in 1 .. j - 1
      BY <1>1, <3>1
    <3> QED BY <1>10, <1>11, <3>2
  <2>2. ASSUME NEW i \in 1 .. n PROVE UncutEntry(plan[i]) = t[i]
    <3>1. CASE plan[i].prefill
      BY <1>3, <3>1 DEF UncutEntry
    <3>2. CASE ~plan[i].prefill
      <4>1. FedAs(t[i], plan[i]) /\ Wanted(plan[i]) \in Nat /\ plan[i] \in EntryType
        BY <1>1, <1>2
      <4>2. t[i].n = 1 + Wanted(plan[i])
        BY <2>1, <3>2
      <4> QED BY <3>2, <4>1, <4>2, UncutFacts
    <3> QED BY <3>1, <3>2
  <2>3. UncutPlan = t
    <3>1. t = [i \in 1 .. n |-> t[i]]
      BY <1>2
    <3> QED BY <1>1, <2>2, <3>1 DEF UncutPlan
  <2>4. plan # t
    <3>1. PICK i \in 1 .. n : ~plan[i].prefill /\ plan[i].n # 1 + Wanted(plan[i])
      BY <1>1, <1>11 DEF DraftsCut, HasAll
    <3>2. t[i].n = 1 + Wanted(plan[i])
      BY <2>1, <3>1
    <3> QED BY <3>1, <3>2
  <2>5. ~ServedTogether(t)
    BY <1>2, <2>4
  <2> QED BY <1>2, <2>3, <2>5, ServedIsAccepted
<1>12. ASSUME TotalFed < M, ~DraftsCut, NEW i \in 1 .. n, plan[i].prefill
       PROVE  HasAll(plan[i])
  <2>1. ASSUME NEW k \in 1 .. n PROVE plan[k].n = t[k].n
    <3>1. CASE plan[k].prefill
      BY <1>3, <3>1
    <3>2. CASE ~plan[k].prefill
      <4>1. plan[k].n = 1 + Wanted(plan[k])
        BY <1>1, <1>12, <3>2 DEF DraftsCut, HasAll
      <4>2. plan[k].n <= t[k].n /\ t[k].n <= 1 + Wanted(plan[k]) /\ plan[k].n \in Nat /\ t[k].n \in Nat
        BY <1>3
      <4> QED BY <4>1, <4>2
    <3> QED BY <3>1, <3>2
  <2>2. \A k \in 1 .. n : q[k] = g[k]
    BY <1>8, <2>1
  <2>3. h[n] = M - rem[n] /\ h[n] < M
    BY <1>6, <1>9, <1>12, <2>2
  <2>4. n \in 0 .. n /\ rem[n] \in Nat
    BY <1>1, <1>2
  <2>5. rem[n] > 0
    BY <1>1, <2>3, <2>4
  <2>6. \A k \in 1 .. n : g[k] = 1 + w[k]
    BY <1>4, <2>4, <2>5, LeftOver
  <2> QED BY <1>8, <2>1, <2>6 DEF HasAll
<1>13. \A i \in 1 .. n : plan[i].n \in 1 .. 1 + Wanted(plan[i])
  BY <1>3
<1>14. ASSUME NEW j \in 1 .. n, plan[j].prefill, plan[j].n > 1, NEW i \in 1 .. n,
              plan[i].prefill, i < j
       PROVE  HasAll(plan[i])
  <2>1. i \in 1 .. j - 1
    BY <1>1, <1>14
  <2>2. t[i].n = 1 + Wanted(plan[i]) /\ plan[i] = t[i]
    BY <1>3, <1>10, <1>14, <2>1
  <2> QED BY <2>2 DEF HasAll
<1>15. TotalFed <= M
  BY <1>6, <1>9
<1> QED BY <1>1, <1>11, <1>12, <1>13, <1>14, <1>15 DEF SharedFairly, M

(* The budget of the plan the cache accepted is shared out fairly. *)
LEMMA BudgetFollows ==
    ASSUME StepInv, BudgetInv
    PROVE  BudgetIsSharedOut
<1> SUFFICES ASSUME phase = "planned" PROVE BudgetIsSharedOut
  BY DEF BudgetIsSharedOut
<1>1. SharedFairly
  BY SharesOutFairly DEF BudgetInv
<1> QED BY <1>1 DEF BudgetIsSharedOut, SharedFairly, TotalFed, UncutPlan, UncutEntry, HasAll,
        DraftsCut, Wanted

(* Whether entries can be served together does not change by stuttering. *)
LEMMA StutterServes ==
    ASSUME UNCHANGED vars, NEW t
    PROVE  ServedTogether(t)' <=> ServedTogether(t)
<1>1. UNCHANGED <<config, cache, table, residents, pool, req, plan, rsv, phase>>
  BY DEF vars
<1>2. \A e : NewBlocks(e)' = NewBlocks(e) /\ ProposedBlocks(e)' = ProposedBlocks(e)
  BY <1>1 DEF NewBlocks, ProposedBlocks
<1>3. \A f : Adds(f, t)' <=> Adds(f, t)
  BY <1>2 DEF Adds
<1>4. Limit' = Limit /\ MaxBatch' = MaxBatch /\ Usable' = Usable /\ ChargedBy(t)' = ChargedBy(t)
  BY <1>1 DEF Limit, MaxScheduledTokens, MaxBatch, Usable, ChargedBy
<1> QED BY <1>1, <1>2, <1>3, <1>4 DEF ServedTogether

(* A step feeds no more than its token budget, and what is left of it after  *)
(* the decodes goes to the prefills in their order; drafts are cut besides   *)
(* only for want of room (AllocateDecodeFirstTokenBudget, FitDrafts).        *)
THEOREM BudgetSharing == Spec => []BudgetIsSharedOut
<1>1. Init => BudgetInv
  BY DEF Init, BudgetInv
<1>2. StepInv /\ BudgetInv /\ [Next]_vars => BudgetInv'
  <2> SUFFICES ASSUME StepInv, BudgetInv, [Next]_vars PROVE BudgetInv'
    OBVIOUS
  <2>1. CASE PlanStep /\ config' = config
    BY <2>1, PlanSharesOut
  <2>2. CASE UNCHANGED vars
    <3>1. UNCHANGED <<config, cache, table, residents, pool, req, plan, rsv, phase>>
      BY <2>2 DEF vars
    <3>2. \A e : Wanted(e)' = Wanted(e)
      BY <3>1 DEF Wanted, Wish, PrefillChunk, MaxDrafts
    <3>4. \A t : ServedTogether(t)' <=> ServedTogether(t)
      BY <2>2, StutterServes
    <3>5. \A e, f : FedAs(e, f)' <=> FedAs(e, f)
      BY <3>2 DEF FedAs, EntryType
    <3>6. ASSUME NEW t, NEW rem PROVE SharesOut(plan, t, rem)' <=> SharesOut(plan, t, rem)
      <4>1. MaxScheduledTokens' = MaxScheduledTokens /\ EntryType' = EntryType
        BY <3>1 DEF MaxScheduledTokens, EntryType
      <4> QED BY <3>1, <3>2, <3>4, <3>5, <4>1 DEF SharesOut, FewerThan
    <3> QED BY <3>1, <3>6 DEF BudgetInv, DecodesFirst
  <2>3. CASE Next /\ ~PlanStep
    <3>1. phase' # "planned"
      BY <2>3 DEF Next, Steps, ReserveStep, Execute, AbortStep, CommitStep, Commit, Publish,
         FailUnserviceableRequest, BeginTurn, CancelRequest, CloseRequest, SetDraftTokens,
         RewindRequestToStartOfTurn
    <3> QED BY <3>1 DEF BudgetInv
  <2> QED BY <2>1, <2>2, <2>3 DEF Next
<1> QED BY <1>1, <1>2, EngineInvariance, BudgetFollows, PTL DEF Spec

---------------------------------------------------------------------------
(* The checks of a step never fail. *)

(* A resident block an entry's tokens are written into: the committed slots  *)
(* end in it or before it.                                                   *)
LEMMA GrowthSize ==
    ASSUME StepInv, NEW i \in 1 .. Len(plan), ~plan[i].new, NEW e, e = plan[i],
           NEW j \in e.base \div BlockSize ..
                     Smaller(Len(table[e.r].blocks), BlocksNeeded(Target(e))) - 1
    PROVE  /\ j + 1 \in 1 .. Len(table[e.r].blocks)
           /\ cache.size[table[e.r].blocks[j + 1]]
                = (IF j = e.base \div BlockSize THEN e.base % BlockSize ELSE 0)
<1> DEFINE u == table[e.r].blocks
           k == e.base
<1>1. /\ e.r \in Requests /\ k \in Nat /\ k = table[e.r].committed /\ Target(e) \in Nat
      /\ u \in Seq(Blocks) /\ Len(u) \in Nat
  <2>1. EntryOK(e) /\ e.r \in Requests /\ e.base \in Nat /\ Target(e) \in Nat
    BY PlanEntry
  <2>2. table[e.r].blocks \in Seq(Blocks)
    BY <2>1 DEF StepInv, TablesOK, TableType
  <2> QED BY <2>1, <2>2 DEF EntryOK
<1>2. k \div BlockSize \in Int /\ k \div BlockSize >= 0
  <2>1. k \in Int /\ k >= 0
    BY <1>1
  <2> HIDE DEF k
  <2> QED BY <2>1, DivBlockSize
<1>3. BlocksNeeded(Target(e)) \in Nat
  BY <1>1, BlocksNeededFacts
<1>4. j \in k \div BlockSize .. Smaller(Len(u), BlocksNeeded(Target(e))) - 1
  OBVIOUS
<1> HIDE DEF k, u
<1>5. j \in Int /\ j >= 0 /\ j >= k \div BlockSize /\ j + 1 <= Len(u)
  BY <1>1, <1>2, <1>3, <1>4 DEF Smaller
<1>6. j + 1 \in 1 .. Len(u)
  BY <1>1, <1>5
<1>7. cache.size[u[j + 1]] = Filled(k, j + 1)
  BY <1>1, <1>6 DEF StepInv, SizesOK, u
<1>8. Filled(k, j + 1) = IF j = k \div BlockSize THEN k % BlockSize ELSE 0
  BY <1>1, <1>5, FilledFrom
<1> QED BY <1>6, <1>7, <1>8 DEF u, k

(* Such a block is the request's own, and it is not full. *)
LEMMA GrowthFacts ==
    ASSUME StepInv, NEW i \in 1 .. Len(plan), ~plan[i].new, NEW b \in GrowthBlocks(plan[i])
    PROVE  b \in Held[plan[i].r] /\ cache.size[b] # BlockSize
<1> DEFINE u == table[plan[i].r].blocks
<1>1. /\ plan[i].r \in Requests /\ plan[i].base \in Int
      /\ u \in Seq(Blocks)
  <2>1. plan[i].r \in Requests /\ plan[i].base \in Nat
    BY PlanEntry
  <2> QED BY <2>1 DEF StepInv, TablesOK, TableType
<1>2. PICK j \in plan[i].base \div BlockSize ..
                 Smaller(Len(table[plan[i].r].blocks), BlocksNeeded(Target(plan[i]))) - 1 :
            b = u[j + 1]
  BY DEF GrowthBlocks
<1>3. /\ j + 1 \in 1 .. Len(u)
      /\ cache.size[u[j + 1]] = (IF j = plan[i].base \div BlockSize
                                THEN plan[i].base % BlockSize ELSE 0)
  BY GrowthSize
<1>4. Held[plan[i].r] = ToSet(u)
  BY <1>1 DEF Held
<1>5. plan[i].base % BlockSize \in 0 .. BlockSize - 1
  <2>1. \A k \in Int : k % BlockSize \in 0 .. BlockSize - 1
    BY DivBlockSize
  <2> QED BY <1>1, <2>1
<1>6. plan[i].base % BlockSize # BlockSize /\ BlockSize # 0
  BY <1>5, PoolAssumption
<1> HIDE DEF u
<1>7. cache.size[b] # BlockSize
  BY <1>2, <1>3, <1>6
<1>8. b \in ToSet(u)
  BY <1>1, <1>2, <1>3 DEF ToSet
<1> QED BY <1>4, <1>7, <1>8

(* No two residents of a plan write into the same block. *)
LEMMA GrowthIsExclusive ==
    ASSUME StepInv, NEW i \in 1 .. Len(plan), NEW k \in 1 .. Len(plan), i # k,
           ~plan[i].new, ~plan[k].new
    PROVE  GrowthBlocks(plan[i]) \cap GrowthBlocks(plan[k]) = {}
<1> SUFFICES ASSUME NEW b \in GrowthBlocks(plan[i]), b \in GrowthBlocks(plan[k]) PROVE FALSE
  OBVIOUS
<1>1. plan[i].r \in Requests /\ plan[k].r \in Requests /\ plan[i].r # plan[k].r
  <2>1. plan[i].r # plan[k].r
    BY DEF StepInv, PlanOK, DistinctRequests
  <2> QED BY <2>1, PlanEntry
<1>2. b \in Held[plan[i].r] /\ b \in Held[plan[k].r] /\ cache.size[b] # BlockSize
  BY GrowthFacts
<1>3. b \in Indexed(cache)
  BY <1>1, <1>2, SharedBlock DEF StepInv
<1> QED BY <1>2, <1>3 DEF StepInv, SizesOK

(* What the reservation checks before it takes anything holds of every plan. *)
LEMMA ReservationHolds ==
    ASSUME StepInv, phase = "planned"
    PROVE  ReservationConsistent
<1>1. DOMAIN plan = 1 .. Len(plan) /\ Len(plan) \in Nat
  BY DEF StepInv, PlanOK
<1>2. ASSUME NEW i \in 1 .. Len(plan), NEW e, e = plan[i], NEW t, t = table[e.r]
      PROVE  /\ e.new <=> ~IsResident(e.r)
             /\ \A k \in DOMAIN e.match : /\ cache.ref[e.match[k]] > 0
                                          /\ cache.size[e.match[k]] = BlockSize
                                          /\ cache.ident[e.match[k]] # NoId
             /\ e.match # <<>> => e.new /\ e.base < Target(e)
             /\ ~e.new =>
                /\ e.base = t.committed
                /\ t.committed <= Len(t.blocks) * BlockSize
                /\ \A j \in e.base \div BlockSize ..
                            Smaller(Len(t.blocks), BlocksNeeded(Target(e))) - 1 :
                        cache.size[t.blocks[j + 1]] =
                            (IF j = e.base \div BlockSize THEN e.base % BlockSize ELSE 0)
  <2>1. /\ EntryOK(e) /\ e.r \in Requests /\ e.base \in Nat /\ e.n \in Nat /\ e.d \in Nat
        /\ e.new \in BOOLEAN
    BY <1>2, PlanEntry
  <2>2. e.new <=> ~IsResident(e.r)
    BY <2>1 DEF EntryOK, IsResident, ToSet
  <2>3. Chained(cache, req[e.r].tokens, e.match)
    BY <1>2 DEF StepInv, PhaseOK
  <2>4. ASSUME NEW k \in DOMAIN e.match
        PROVE  /\ cache.ref[e.match[k]] > 0 /\ cache.size[e.match[k]] = BlockSize
               /\ cache.ident[e.match[k]] # NoId
    <3>1. e.match[k] \in Indexed(cache) /\ cache.size[e.match[k]] = BlockSize
      BY <2>3 DEF Chained
    <3>2. /\ e.match[k] \in Blocks /\ cache.ident[e.match[k]] \in Ids
          /\ cache.ref[e.match[k]] >= 1
      BY <3>1, ParentFacts DEF StepInv
    <3>3. cache.ref[e.match[k]] \in Nat
      BY <3>2, FieldTypes DEF StepInv, PoolInv
    <3> QED BY <3>1, <3>2, <3>3, BlocksFacts
  <2>5. e.match # <<>> => e.new /\ e.base < Target(e)
    BY <2>1 DEF EntryOK, Target
  <2>6. ~e.new => e.base = t.committed /\ t.committed <= Len(t.blocks) * BlockSize
    BY <1>2, <2>1 DEF EntryOK, StepInv, TablesOK
  <2>7. ASSUME ~e.new, NEW j \in e.base \div BlockSize ..
                                  Smaller(Len(t.blocks), BlocksNeeded(Target(e))) - 1
        PROVE  cache.size[t.blocks[j + 1]] =
                  (IF j = e.base \div BlockSize THEN e.base % BlockSize ELSE 0)
    BY <1>2, <2>7, GrowthSize
  <2> QED BY <2>2, <2>4, <2>5, <2>6, <2>7
<1>3. \A i, k \in 1 .. Len(plan) : (i # k /\ ~plan[i].new /\ ~plan[k].new) =>
            GrowthBlocks(plan[i]) \cap GrowthBlocks(plan[k]) = {}
  BY GrowthIsExclusive
<1> QED BY <1>1, <1>2, <1>3 DEF ReservationConsistent

(* Adopting for a plan takes exactly what it was charged for off the         *)
(* reclaimable list, and no free block.                                      *)
LEMMA AdoptionCost ==
    ASSUME StepInv, phase = "planned"
    PROVE  /\ PoolInv(HeldCache)
           /\ FreeBlocks(HeldCache) = FreeBlocks(cache)
           /\ Cardinality(ChargedBy(plan)) \in Nat
           /\ Len(HeldCache.reclaimable) \in Nat /\ ReclaimableBlocks(cache) \in Nat
           /\ Len(HeldCache.reclaimable) = ReclaimableBlocks(cache) - Cardinality(ChargedBy(plan))
<1> DEFINE n == Len(plan)
           ms == Adoptions(plan)
           C(b) == Count(ms, n, b)
<1>1. /\ n \in Nat /\ DOMAIN plan = 1 .. n /\ ms \in [1 .. n -> Seq(Blocks)]
      /\ \A i \in 1 .. n : ms[i] = plan[i].match
      /\ \A i \in 1 .. n : \A x \in ToSet(ms[i]) :
                    x \in Indexed(cache) /\ x \in Blocks /\ cache.ref[x] >= 1
  BY PlanAdoptions DEF Adoptions
<1>2. /\ PoolInv(HeldCache) /\ Indexed(HeldCache) = Indexed(cache)
      /\ HeldCache.ref = [x \in Blocks |-> cache.ref[x] + C(x)]
  BY AdoptedCache DEF Became, HeldCache
<1>3. /\ cache.ref \in [Blocks -> Nat] /\ PoolInv(cache) /\ ListsOK(cache)
      /\ cache.reclaimable \in Seq(Blocks) /\ Indexed(cache) \subseteq Blocks
  BY FieldTypes, IndexedBlocks DEF StepInv, PoolInv
<1>4. ListsOK(HeldCache) /\ HeldCache.reclaimable \in Seq(Blocks)
  BY <1>2, FieldTypes DEF PoolInv
<1>5. ASSUME NEW b \in Blocks
      PROVE  C(b) \in Nat /\ (C(b) = 0 <=> \A i \in 1 .. n : b \notin ToSet(ms[i]))
  <2> DEFINE S == {i \in 1 .. n : b \in ToSet(ms[i])}
  <2>1. IsFiniteSet(1 .. n)
    BY <1>1, FS_Interval
  <2>2. IsFiniteSet(S)
    BY <2>1, FS_Subset
  <2>3. C(b) = Cardinality(S)
    BY DEF Count
  <2>4. C(b) \in Nat /\ (C(b) = 0 <=> S = {})
    BY <2>2, <2>3, FS_CardinalityType, FS_EmptySet
  <2> QED BY <2>4
<1>6. ASSUME NEW b \in Blocks PROVE HeldCache.ref[b] = 0 <=> cache.ref[b] = 0
  <2>1. HeldCache.ref[b] = cache.ref[b] + C(b) /\ cache.ref[b] \in Nat /\ C(b) \in Nat
    BY <1>2, <1>3, <1>5
  <2>2. C(b) # 0 => cache.ref[b] >= 1
    BY <1>1, <1>5
  <2> HIDE DEF C
  <2> QED BY <2>1, <2>2
<1>7. FreeBlocks(HeldCache) = FreeBlocks(cache)
  BY <1>6 DEF FreeBlocks
<1>8. ToSet(HeldCache.reclaimable) = ToSet(cache.reclaimable) \ ChargedBy(plan)
  <2>1. ToSet(HeldCache.reclaimable) = {b \in Indexed(cache) : HeldCache.ref[b] = 1}
        /\ ToSet(cache.reclaimable) = {b \in Indexed(cache) : cache.ref[b] = 1}
    BY <1>2, <1>3, <1>4 DEF ListsOK
  <2>2. ASSUME NEW b \in Indexed(cache)
        PROVE  HeldCache.ref[b] = 1 <=> cache.ref[b] = 1 /\ C(b) = 0
    <3>1. /\ HeldCache.ref[b] = cache.ref[b] + C(b) /\ cache.ref[b] \in Nat /\ C(b) \in Nat
          /\ cache.ref[b] >= 1
      BY <1>2, <1>3, <1>5, ParentFacts
    <3> HIDE DEF C
    <3> QED BY <3>1
  <2>3. ASSUME NEW b \in ToSet(cache.reclaimable)
        PROVE  b \in ChargedBy(plan) <=> \E i \in 1 .. n : b \in ToSet(ms[i])
    BY <1>1, <2>3 DEF ChargedBy, IsReclaimable
  <2>4. ASSUME NEW b \in Indexed(cache), cache.ref[b] = 1
        PROVE  C(b) = 0 <=> b \notin ChargedBy(plan)
    <3>1. b \in ToSet(cache.reclaimable) /\ b \in Blocks
      BY <1>3, <2>1, <2>4
    <3> QED BY <1>5, <2>3, <3>1
  <2> HIDE DEF C
  <2> QED BY <2>1, <2>2, <2>4
<1>9. ChargedBy(plan) \subseteq ToSet(cache.reclaimable)
  BY DEF ChargedBy, IsReclaimable
<1>10. /\ IsFiniteSet(ToSet(cache.reclaimable))
       /\ Cardinality(ToSet(cache.reclaimable)) = Len(cache.reclaimable)
       /\ Cardinality(ToSet(HeldCache.reclaimable)) = Len(HeldCache.reclaimable)
  BY <1>3, <1>4, DistinctCount DEF ListsOK
<1>11. /\ IsFiniteSet(ChargedBy(plan)) /\ Cardinality(ChargedBy(plan)) \in Nat
       /\ ToSet(cache.reclaimable) \cap ChargedBy(plan) = ChargedBy(plan)
  BY <1>9, ChargedFinite
<1>12. Cardinality(ToSet(cache.reclaimable) \ ChargedBy(plan))
         = Cardinality(ToSet(cache.reclaimable)) - Cardinality(ChargedBy(plan))
  <2> DEFINE S == ToSet(cache.reclaimable)
             G == ChargedBy(plan)
  <2>1. IsFiniteSet(S) /\ S \cap G = G
    BY <1>10, <1>11
  <2> HIDE DEF S, G
  <2>2. Cardinality(S \ G) = Cardinality(S) - Cardinality(S \cap G)
    BY <2>1, FS_Difference
  <2>3. Cardinality(S \ G) = Cardinality(S) - Cardinality(G)
    BY <2>1, <2>2
  <2> QED BY <2>3 DEF S, G
<1> QED BY <1>2, <1>3, <1>4, <1>7, <1>8, <1>10, <1>11, <1>12 DEF ReclaimableBlocks

(* A plan the cache accepted finds its blocks: what is free, and what can be *)
(* evicted without touching what the plan adopts.                            *)
LEMMA RoomIsEnough ==
    ASSUME StepInv, phase = "planned", ServedTogether(plan)
    PROVE  BlocksOf(plan, Len(plan)) <= AvailableBlocks(RoomCache)
<1> DEFINE need == BlocksOf(plan, Len(plan))
           free == AvailableBlocks(cache)
           list == Len(HeldCache.reclaimable)
           charge == Cardinality(ChargedBy(plan))
           k == need - free
<1>1. /\ PoolInv(HeldCache) /\ FreeBlocks(HeldCache) = FreeBlocks(cache)
      /\ charge \in Nat /\ list \in Nat /\ list = ReclaimableBlocks(cache) - charge
      /\ ReclaimableBlocks(cache) \in Nat
  BY AdoptionCost
<1>2. need \in Nat /\ plan \in Seq(EntryType) /\ Len(plan) \in Nat
  BY BlocksOfFacts DEF StepInv, PlanOK
<1>3. IsFiniteSet(FreeBlocks(cache)) /\ free \in Nat /\ AvailableBlocks(HeldCache) = free
  <2>1. IsFiniteSet(FreeBlocks(cache))
    BY BlocksFinite, FS_Subset DEF FreeBlocks
  <2> QED BY <1>1, <2>1, FS_CardinalityType DEF AvailableBlocks
<1>4. need + charge <= free + ReclaimableBlocks(cache)
  <2>1. PICK f : Adds(f, plan) /\ f[Len(plan)] + charge <= Usable
    BY DEF ServedTogether
  <2>2. f[Len(plan)] = need
    BY <1>2, <2>1, AddsUp
  <2> QED BY <2>1, <2>2 DEF Usable
<1> HIDE DEF need, free, list, charge
<1>5. k \in Int /\ k <= list
  BY <1>1, <1>2, <1>3, <1>4
<1>6. RoomCache = IF k > 0 THEN Reclaim(HeldCache, k) ELSE HeldCache
  BY <1>3 DEF RoomCache, need
<1>7. CASE ~(k > 0)
  <2>1. AvailableBlocks(RoomCache) = free
    BY <1>3, <1>6, <1>7
  <2> QED BY <1>2, <1>3, <1>5, <1>7, <2>1 DEF need
<1>8. CASE k > 0
  <2> DEFINE T == FirstReclaimable(HeldCache, k)
  <2>0. k \in Nat
    BY <1>5, <1>8
  <2>1. /\ RoomCache.ref = [x \in Blocks |-> IF x \in T THEN 0 ELSE HeldCache.ref[x]]
        /\ T \subseteq {b \in Indexed(HeldCache) : HeldCache.ref[b] = 1} /\ T \subseteq Blocks
    BY <1>1, <1>6, <1>8, <2>0, ReclaimEffect, FirstReclaimableFacts DEF Became
  <2>2. FreeBlocks(RoomCache) = FreeBlocks(cache) \cup T
    BY <1>1, <2>1 DEF FreeBlocks
  <2>3. FreeBlocks(cache) \cap T = {}
    <3>1. \A b \in FreeBlocks(HeldCache) : HeldCache.ref[b] = 0
      BY DEF FreeBlocks
    <3> QED BY <1>1, <2>1, <3>1
  <2>4. IsFiniteSet(T) /\ Cardinality(T) = k
    <3> DEFINE s == HeldCache.reclaimable
               t == [i \in 1 .. k |-> s[i]]
    <3>1. s \in Seq(Blocks) /\ Distinct(s) /\ Len(s) = list
      BY <1>1, FieldTypes DEF PoolInv, ListsOK, list
    <3>2. \A i \in 1 .. k : i \in 1 .. Len(s)
      BY <1>1, <1>5, <2>0, <3>1
    <3>3. t \in [1 .. k -> Blocks]
      BY <3>1, <3>2
    <3>4. t \in Seq(Blocks) /\ Len(t) = k
      BY <2>0, <3>3, FunctionIsSeq
    <3>5. Distinct(t)
      BY <3>1, <3>2, <3>4 DEF Distinct
    <3>6. T = {s[i] : i \in 1 .. k}
      <4>1. (IF k < Len(s) THEN k ELSE Len(s)) = k
        BY <1>1, <1>5, <2>0, <3>1
      <4> QED BY <4>1 DEF FirstReclaimable
    <3>7. ToSet(t) = T
      BY <3>4, <3>6 DEF ToSet
    <3> QED BY <3>4, <3>5, <3>7, DistinctCount
  <2>5. Cardinality(FreeBlocks(cache) \cup T) = Cardinality(FreeBlocks(cache)) + Cardinality(T)
    <3> DEFINE S == FreeBlocks(cache)
    <3>1. IsFiniteSet(S) /\ IsFiniteSet(T) /\ S \cap T = {}
      BY <1>3, <2>3, <2>4
    <3>2. Cardinality(S) \in Nat /\ Cardinality(T) \in Nat
      BY <3>1, FS_CardinalityType
    <3> HIDE DEF S, T
    <3>3. Cardinality(S \cup T) = Cardinality(S) + Cardinality(T) - Cardinality(S \cap T)
      BY <3>1, FS_Union
    <3>4. Cardinality(S \cap T) = 0
      BY <3>1, FS_EmptySet
    <3>5. Cardinality(S \cup T) = Cardinality(S) + Cardinality(T)
      BY <3>2, <3>3, <3>4
    <3> QED BY <3>5 DEF S
  <2>6. AvailableBlocks(RoomCache) = free + k
    BY <2>2, <2>4, <2>5 DEF AvailableBlocks, free
  <2> QED BY <1>2, <1>3, <2>6 DEF need
<1> QED BY <1>7, <1>8

(* What keeps the checks from failing: the entries of a plan can be served   *)
(* together for as long as the plan stands.                                  *)
HealthInv ==
    /\ phase # "unhealthy"
    /\ phase = "planned" => ServedTogether(plan)

(* A plan the cache accepted is one it can serve. *)
LEMMA PlanIsServed ==
    ASSUME StepInv, PlanStep, config' = config
    PROVE  HealthInv'
<1>1. /\ plan' = Fitted /\ req' = StagePrefixAdoption(Fitted) /\ phase = "idle"
      /\ phase' = "planned" /\ UNCHANGED <<config, cache, table, residents>>
  BY PlanGoesAhead
<1>2. EntriesOK(Fitted) /\ Fits(Fitted)
  BY <1>1, PlannedFacts
<1>3. \A t \in Seq(EntryType) : ServedTogether(t)' <=> ServedTogether(t)
  BY <1>1, <1>2, StagingKeepsWishes
<1>4. PICK p : p = Fitted
  OBVIOUS
<1>5. p \in Seq(EntryType) /\ Fits(p)
  BY <1>2, <1>4 DEF EntriesOK
<1>6. ServedTogether(p)
  BY <1>5, AcceptedFits, ServedIsAccepted
<1>7. ServedTogether(p)'
  BY <1>3, <1>5, <1>6
<1>8. plan' = p
  BY <1>1, <1>4
<1>9. ServedTogether(plan)'
  BY <1>7, <1>8 DEF ServedTogether, Adds, News, ChargedBy
<1> QED BY <1>1, <1>9 DEF HealthInv

(* The consistency checks of the planner, of the reservation and of the      *)
(* commit never fire, whatever the configuration: a plan the cache accepted  *)
(* can be reserved and a reservation can be committed (PlanStep,             *)
(* ReserveStep and CommitStep of the paged key/value cache).                 *)
THEOREM NeverFails == Spec => []NeverUnhealthy
<1>1. Init => HealthInv
  BY DEF Init, HealthInv
<1>2. StepInv /\ HealthInv /\ [Next]_vars => HealthInv'
  <2> SUFFICES ASSUME StepInv, HealthInv, [Next]_vars PROVE HealthInv'
    OBVIOUS
  <2>1. CASE PlanStep /\ config' = config
    BY <2>1, PlanIsServed
  <2>2. CASE UNCHANGED vars
    <3>1. phase' = phase /\ plan' = plan
      BY <2>2 DEF vars
    <3>2. PICK p : p = plan
      OBVIOUS
    <3>3. ServedTogether(p)' <=> ServedTogether(p)
      BY <2>2, StutterServes
    <3>4. phase = "planned" => ServedTogether(p)
      BY <3>2 DEF HealthInv
    <3>5. ServedTogether(p)' <=> ServedTogether(plan)'
      BY <3>1, <3>2 DEF ServedTogether, Adds, News, ChargedBy
    <3> QED BY <3>1, <3>3, <3>4, <3>5 DEF HealthInv
  <2>3. CASE ReserveStep
    <3>1. phase = "planned" /\ ServedTogether(plan)
      BY <2>3 DEF ReserveStep, HealthInv
    <3>2. phase' = "reserved"
      BY <2>3, <3>1, ReserveOutcome, ReservationHolds, RoomIsEnough
    <3> QED BY <3>2 DEF HealthInv
  <2>4. CASE CommitStep
    <3>1. phase' = "idle"
      BY <2>4, CommitOutcome DEF Commits
    <3> QED BY <3>1 DEF HealthInv
  <2>5. CASE Next /\ ~PlanStep /\ ~ReserveStep /\ ~CommitStep
    <3>1. phase' \in {"idle", "executed"}
      BY <2>5 DEF Next, Steps, Execute, AbortStep, FailUnserviceableRequest, BeginTurn,
         CancelRequest, CloseRequest, SetDraftTokens, RewindRequestToStartOfTurn
    <3> QED BY <3>1 DEF HealthInv
  <2> QED BY <2>1, <2>2, <2>3, <2>4, <2>5 DEF Next
<1>3. HealthInv => NeverUnhealthy
  BY DEF HealthInv, NeverUnhealthy
<1> QED BY <1>1, <1>2, <1>3, EngineInvariance, PTL DEF Spec

=============================================================================
