-------------------------- MODULE HybridStepProofs --------------------------
(***************************************************************************)
(* Paged tables and fixed state of a hybrid model cross the same tokens,   *)
(* for any number of requests, slots, drafts and checkpoint rows: the      *)
(* properties of HybridStep, proved.                                       *)
(***************************************************************************)
EXTENDS HybridStep, SequenceLemmas, FiniteSetTheorems, SequenceTheorems

(***************************************************************************)
(* What the operations of the fixed-state pool do, field by field. Each    *)
(* operation is stated as a predicate of the pool before and the pool      *)
(* after it, so that the proofs about an engine step never look inside an  *)
(* update.                                                                 *)
(***************************************************************************)

(* What a well-formed pool and reservation are. *)

SlotSet == [request : Requests \cup {Nobody}, generation : Nat, state_generation : Nat,
            committed_tokens : Nat, active_bank : Banks,
            ownership : {"Free", "Reserved", "Committed"}]

HandleSet == [row : Nat, generation : Nat, count : Nat]

CheckpointSet == [generation : Nat, count : Nat, occupied : BOOLEAN, row : Seq(Int)]

ReplaySet == [row : Nat, slot : Slots, bank : Banks, kept : Nat, direct : BOOLEAN]

RowSet == [request : Requests, slot : Slots, generation : Nat, provisional : BOOLEAN,
           expected : Nat, target : Nat, capture : Nat, ckpt : HandleSet, step : Nat,
           kept : Nat]

ReservationSet == [rows : Seq(RowSet), direct : BOOLEAN, captures : BOOLEAN,
                   state : {"None", "Reserved", "Prepared", "Committed", "Failed", "Discarded"}]

RequestSet == [request : Requests, target : Nat, capture : Nat, ckpt : HandleSet]

PoolFields == {"slot", "bank", "index", "input", "output", "update", "replay", "ckpt",
               "healthy", "live", "views"}

(* The banks and the staging rows may hold anything. *)
IsPool(p) ==
    /\ DOMAIN p = PoolFields /\ p = [f \in PoolFields |-> p[f]]
    /\ p.slot \in [Slots -> SlotSet]
    /\ p.bank = [s \in Slots |-> [b \in Banks |-> p.bank[s][b]]]
    /\ p.index \in [Requests -> Slots \cup {NoSlot}]
    /\ p.replay \subseteq ReplaySet
    /\ p.ckpt \in [Checkpoints -> CheckpointSet]
    /\ p.healthy \in BOOLEAN /\ p.live \in BOOLEAN /\ p.views \in BOOLEAN

-----------------------------------------------------------------------------
(* Sequences and counting. *)

(* Length and elements of a subsequence. *)
LEMMA SubSeqFacts ==
    ASSUME NEW E, NEW s \in Seq(E), NEW m \in Nat, NEW n \in Nat, m <= n, n <= Len(s),
           NEW t, t = SubSeq(s, m + 1, n)
    PROVE  /\ t \in Seq(E) /\ Len(t) = n - m
           /\ \A i \in 1 .. n - m : t[i] = s[m + i]
<1> DEFINE k == m + 1
<1>1. k \in Nat /\ k = m + 1
  OBVIOUS
<1> HIDE DEF k
<1>2. /\ SubSeq(s, k, n) \in Seq(E)
      /\ Len(SubSeq(s, k, n)) = IF k <= n THEN n - k + 1 ELSE 0
      /\ \A i \in 1 .. n - k + 1 : SubSeq(s, k, n)[i] = s[k + i - 1]
  BY <1>1, SubSeqProperties
<1>3. t = SubSeq(s, k, n)
  BY <1>1
<1>4. t \in Seq(E) /\ Len(t) = n - m
  BY <1>1, <1>2, <1>3
<1>5. ASSUME NEW i \in 1 .. n - m PROVE t[i] = s[m + i]
  <2>1. i \in 1 .. n - k + 1 /\ k + i - 1 = m + i
    BY <1>1
  <2> QED BY <1>2, <1>3, <2>1
<1> QED BY <1>4, <1>5

(* Length and elements of a concatenation. *)
LEMMA IntConcat ==
    ASSUME NEW s \in Seq(Int), NEW t \in Seq(Int)
    PROVE  /\ s \o t \in Seq(Int) /\ Len(s \o t) = Len(s) + Len(t)
           /\ \A i \in 1 .. Len(s) : (s \o t)[i] = s[i]
           /\ \A i \in Len(s) + 1 .. Len(s) + Len(t) : (s \o t)[i] = t[i - Len(s)]
<1> DEFINE u == s \o t
<1>1. u = s \o t
  OBVIOUS
<1> HIDE DEF u
<1>2. /\ u \in Seq(Int) /\ Len(u) = Len(s) + Len(t)
      /\ \A i \in 1 .. Len(s) : u[i] = s[i]
      /\ \A i \in Len(s) + 1 .. Len(s) + Len(t) : u[i] = t[i - Len(s)]
  BY <1>1, ConcatFacts
<1> QED BY <1>2 DEF u

(* Two adjacent subsequences make one. *)
LEMMA Spliced ==
    ASSUME NEW a \in Seq(Int), NEW u \in Seq(Int), NEW b \in Seq(Int),
           Len(b) = Len(a) + Len(u), \A i \in 1 .. Len(a) : b[i] = a[i],
           \A i \in 1 .. Len(u) : b[Len(a) + i] = u[i]
    PROVE  a \o u = b
<1> DEFINE c == a \o u
           m == Len(a)
           k == Len(u)
<1>1. m \in Nat /\ k \in Nat
  OBVIOUS
<1>2. /\ c \in Seq(Int) /\ Len(c) = m + k /\ \A i \in 1 .. m : c[i] = a[i]
      /\ \A i \in m + 1 .. m + k : c[i] = u[i - m]
  BY IntConcat
<1>3. /\ Len(b) = m + k /\ \A i \in 1 .. m : b[i] = a[i]
      /\ \A i \in 1 .. k : b[m + i] = u[i]
  OBVIOUS
<1> HIDE DEF c, m, k
<1>4. ASSUME NEW i \in 1 .. m + k PROVE c[i] = b[i]
  <2>1. CASE i <= m
    <3>1. i \in 1 .. m
      BY <2>1, <1>1
    <3> QED BY <1>2, <1>3, <3>1
  <2>2. CASE i > m
    <3>1. i \in m + 1 .. m + k /\ i - m \in 1 .. k /\ m + (i - m) = i
      BY <1>1, <2>2
    <3>2. b[m + (i - m)] = u[i - m]
      BY <1>3, <3>1
    <3> QED BY <1>2, <3>1, <3>2
  <2> QED BY <1>1, <2>1, <2>2
<1>5. c = b
  BY <1>2, <1>3, <1>4, SeqEqual
<1> QED BY <1>5 DEF c

Lower(F, s) == {t \in F : t < s}

UpTo(N, i) == {j \in 1 .. i : j \in N}

(* The elements below the next one up. *)
LEMMA LowerFacts ==
    ASSUME NEW F \in SUBSET Nat, NEW s \in F
    PROVE  /\ Lower(F, s) \in SUBSET F /\ s \notin Lower(F, s)
           /\ (\A m \in F : s <= m) => Lower(F, s) = {}
           /\ (\A t \in F : ~(s < t)) => F = Lower(F, s) \cup {s}
           /\ \A m \in F : (s < m /\ \A t \in F : s < t => m <= t)
                                => Lower(F, m) = Lower(F, s) \cup {s}
<1>1. \A t \in F : t \in Nat
  OBVIOUS
<1>2. ASSUME \A m \in F : s <= m PROVE Lower(F, s) = {}
  <2>1. \A t \in F : ~(t < s)
    BY <1>1, <1>2
  <2> QED BY <2>1 DEF Lower
<1>3. ASSUME \A t \in F : ~(s < t) PROVE F = Lower(F, s) \cup {s}
  <2>1. \A t \in F : t < s \/ t = s
    BY <1>1, <1>3
  <2> QED BY <2>1 DEF Lower
<1>4. ASSUME NEW m \in F, s < m, \A t \in F : s < t => m <= t
      PROVE  Lower(F, m) = Lower(F, s) \cup {s}
  <2>1. \A t \in F : t < m <=> (t < s \/ t = s)
    BY <1>1, <1>4
  <2> QED BY <2>1 DEF Lower
<1>5. Lower(F, s) \in SUBSET F /\ s \notin Lower(F, s)
  BY DEF Lower
<1> QED BY <1>2, <1>3, <1>4, <1>5

(* A finite set of numbers has a k-th lowest element. *)
LEMMA KthLowest ==
    ASSUME NEW F \in SUBSET Nat, IsFiniteSet(F), NEW k \in Nat, k < Cardinality(F)
    PROVE  \E s \in F : Cardinality(Lower(F, s)) = k
<1> DEFINE S == {n \in Nat : n < Cardinality(F) => \E s \in F : Cardinality(Lower(F, s)) = n}
<1>1. 0 \in S
  <2> SUFFICES ASSUME 0 < Cardinality(F) PROVE \E s \in F : Cardinality(Lower(F, s)) = 0
    OBVIOUS
  <2>1. F # {}
    BY FS_EmptySet
  <2>2. PICK s \in F : \A m \in F : s <= m
    BY <2>1, NatLeast
  <2>3. Lower(F, s) = {}
    BY <2>2, LowerFacts
  <2> QED BY <2>3, FS_EmptySet
<1>2. ASSUME NEW n \in Nat, n \in S PROVE n + 1 \in S
  <2> SUFFICES ASSUME n + 1 < Cardinality(F) PROVE \E s \in F : Cardinality(Lower(F, s)) = n + 1
    OBVIOUS
  <2>1. Cardinality(F) \in Nat
    BY FS_CardinalityType
  <2>2. PICK s \in F : Cardinality(Lower(F, s)) = n
    BY <1>2, <2>1
  <2>3. Cardinality(Lower(F, s) \cup {s}) = n + 1
    <3>1. Lower(F, s) \in SUBSET F /\ s \notin Lower(F, s)
      BY LowerFacts
    <3>2. IsFiniteSet(Lower(F, s))
      BY <3>1, FS_Subset
    <3> QED BY <2>2, <3>1, <3>2, FS_AddElement
  <2> DEFINE Up == {t \in F : s < t}
  <2>4. Up # {}
    <3> SUFFICES ASSUME Up = {} PROVE FALSE
      OBVIOUS
    <3>1. \A t \in F : ~(s < t)
      OBVIOUS
    <3>2. F = Lower(F, s) \cup {s}
      BY <3>1, LowerFacts
    <3>3. Cardinality(F) = n + 1
      BY <2>3, <3>2
    <3> QED BY <2>1, <3>3
  <2>5. PICK m \in Up : \A t \in Up : m <= t
    BY <2>4, NatLeast
  <2>6. m \in F /\ s < m /\ \A t \in F : s < t => m <= t
    BY <2>5
  <2>7. Lower(F, m) = Lower(F, s) \cup {s}
    BY <2>6, LowerFacts
  <2> QED BY <2>3, <2>6, <2>7
<1> HIDE DEF S
<1>3. Nat \subseteq S
  BY <1>1, <1>2, NatSetInduction
<1> QED BY <1>3 DEF S

(* Ranks count up to the size of the set, and differ. *)
LEMMA RankFacts ==
    ASSUME NEW n \in Nat, NEW N \in SUBSET (1 .. n), NEW i \in N
    PROVE  /\ Cardinality(N) \in Nat /\ Cardinality(UpTo(N, i)) \in 1 .. Cardinality(N)
           /\ \A k \in N : i < k => Cardinality(UpTo(N, i)) # Cardinality(UpTo(N, k))
<1> DEFINE A(k) == {j \in 1 .. k : j \in N}
<1>1. IsFiniteSet(N)
  <2>1. IsFiniteSet(1 .. n)
    BY FS_Interval
  <2> QED BY <2>1, FS_Subset
<1>2. \A k \in N : A(k) \in SUBSET N /\ i \in A(i) /\ (i < k => A(i) \in SUBSET A(k))
                     /\ (i < k => k \in A(k) /\ k \notin A(i))
  OBVIOUS
<1> HIDE DEF A
<1>3. \A k \in N : IsFiniteSet(A(k)) /\ Cardinality(A(k)) <= Cardinality(N)
  BY <1>1, <1>2, FS_Subset
<1>4. Cardinality(A(i)) \in Nat /\ Cardinality(N) \in Nat
  BY <1>1, <1>3, FS_CardinalityType
<1>5. Cardinality(A(i)) # 0
  BY <1>2, <1>3, FS_EmptySet
<1>6. ASSUME NEW k \in N, i < k PROVE Cardinality(A(i)) # Cardinality(A(k))
  <2>1. A(i) # A(k)
    BY <1>2, <1>6
  <2>2. A(i) \in SUBSET A(k) /\ IsFiniteSet(A(k))
    BY <1>2, <1>3, <1>6
  <2> QED BY <2>1, <2>2, FS_Subset
<1> QED BY <1>3, <1>4, <1>5, <1>6 DEF A, UpTo

(* The slots can be counted. *)
LEMMA SlotsFinite ==
    IsFiniteSet(Slots) /\ Cardinality(Slots) = Capacity
<1>1. 0 \in Int /\ Capacity - 1 \in Int /\ Capacity \in Nat \ {0}
  BY PoolAssumption
<1>2. IsFiniteSet(0 .. Capacity - 1) /\
      Cardinality(0 .. Capacity - 1) = IF 0 > Capacity - 1 THEN 0 ELSE (Capacity - 1) - 0 + 1
  BY <1>1, FS_Interval
<1> QED BY <1>1, <1>2 DEF Slots

-----------------------------------------------------------------------------
(* Banks, deferred replays and what a reader sees. *)

(* The row a slot would show if its banks were flipped now. *)
HiddenRow(p, s) == FlushDeferredReplay(p).bank[s][Other(p.slot[s].active_bank)]

(* There are two banks. *)
LEMMA OtherBank ==
    ASSUME NEW b \in Banks
    PROVE  Other(b) \in Banks /\ Other(b) # b /\ Other(Other(b)) = b
BY DEF Banks, Other

(* Every slot has a record, and its selector names a bank. *)
LEMMA ActiveBank ==
    ASSUME NEW p, IsPool(p), NEW s \in Slots
    PROVE  p.slot[s] \in SlotSet /\ p.slot[s].active_bank \in Banks
BY DEF IsPool, SlotSet

(* A flush writes the banks and forgets the replays, nothing else. *)
LEMMA FlushFacts ==
    ASSUME NEW p, IsPool(p), NEW q, q = FlushDeferredReplay(p)
    PROVE  /\ IsPool(q) /\ q.replay = {}
           /\ q.slot = p.slot /\ q.index = p.index /\ q.ckpt = p.ckpt
           /\ q.input = p.input /\ q.output = p.output /\ q.update = p.update
           /\ q.healthy = p.healthy /\ q.live = p.live /\ q.views = p.views
           /\ q.bank = [s \in Slots |-> [b \in Banks |->
                  IF \E d \in p.replay : d.slot = s /\ d.bank = b
                  THEN ReplayedRow(p, ReplayOf(p.replay, s, b)) ELSE p.bank[s][b]]]
BY DEF FlushDeferredReplay, IsPool, PoolFields

Flushed(p, q) ==
    /\ IsPool(q) /\ q.replay = {}
    /\ q.slot = p.slot /\ q.index = p.index /\ q.ckpt = p.ckpt
    /\ q.input = p.input /\ q.output = p.output /\ q.update = p.update
    /\ q.healthy = p.healthy /\ q.live = p.live /\ q.views = p.views

(* The same, as one named predicate. *)
LEMMA FlushFields ==
    ASSUME NEW p, IsPool(p)
    PROVE  Flushed(p, FlushDeferredReplay(p))
<1> DEFINE B == [s \in Slots |-> [b \in Banks |->
                  IF \E d \in p.replay : d.slot = s /\ d.bank = b
                  THEN ReplayedRow(p, ReplayOf(p.replay, s, b)) ELSE p.bank[s][b]]]
           q == [p EXCEPT !.bank = B, !.replay = {}]
<1>1. FlushDeferredReplay(p) = q
  BY DEF FlushDeferredReplay
<1>2. B = [s \in Slots |-> [b \in Banks |-> B[s][b]]]
  OBVIOUS
<1> HIDE DEF B
<1>3. /\ q.bank = B /\ q.replay = {} /\ q.slot = p.slot /\ q.index = p.index /\ q.ckpt = p.ckpt
      /\ q.input = p.input /\ q.output = p.output /\ q.update = p.update
      /\ q.healthy = p.healthy /\ q.live = p.live /\ q.views = p.views
      /\ DOMAIN q = PoolFields /\ q = [f \in PoolFields |-> q[f]]
  BY DEF IsPool, PoolFields
<1> HIDE DEF q
<1>4. IsPool(q)
  BY <1>2, <1>3 DEF IsPool
<1>5. Flushed(p, q)
  BY <1>3, <1>4 DEF Flushed
<1> QED BY <1>1, <1>5

(* A bank a replay names holds the replayed row, any other its old row. *)
LEMMA FlushedBank ==
    ASSUME NEW p, IsPool(p), NEW B, B = FlushDeferredReplay(p).bank
    PROVE  /\ B = [s \in Slots |-> [b \in Banks |-> B[s][b]]]
           /\ \A s \in Slots, b \in Banks :
                /\ (\E d \in p.replay : d.slot = s /\ d.bank = b)
                        => B[s][b] = ReplayedRow(p, ReplayOf(p.replay, s, b))
                /\ (\A d \in p.replay : ~(d.slot = s /\ d.bank = b))
                        => B[s][b] = p.bank[s][b]
<1>1. B = [s \in Slots |-> [b \in Banks |->
               IF \E d \in p.replay : d.slot = s /\ d.bank = b
               THEN ReplayedRow(p, ReplayOf(p.replay, s, b)) ELSE p.bank[s][b]]]
  BY DEF FlushDeferredReplay, IsPool, PoolFields
<1> QED BY <1>1

(* What a flush would write depends on the banks, the replays and, while a   *)
(* replay is pending, the staging rows.                                      *)
LEMMA SameRows ==
    ASSUME NEW p, IsPool(p), NEW q, IsPool(q), q.bank = p.bank, q.replay = p.replay,
           q.replay # {} => q.input = p.input /\ q.update = p.update
    PROVE  FlushDeferredReplay(q).bank = FlushDeferredReplay(p).bank
<1> DEFINE B == FlushDeferredReplay(p).bank
           C == FlushDeferredReplay(q).bank
<1>1. /\ B = [s \in Slots |-> [b \in Banks |-> B[s][b]]]
      /\ \A s \in Slots, b \in Banks :
           /\ (\E d \in p.replay : d.slot = s /\ d.bank = b)
                   => B[s][b] = ReplayedRow(p, ReplayOf(p.replay, s, b))
           /\ (\A d \in p.replay : ~(d.slot = s /\ d.bank = b))
                   => B[s][b] = p.bank[s][b]
  <2> HIDE DEF B
  <2> QED BY FlushedBank DEF B
<1>2. /\ C = [s \in Slots |-> [b \in Banks |-> C[s][b]]]
      /\ \A s \in Slots, b \in Banks :
           /\ (\E d \in q.replay : d.slot = s /\ d.bank = b)
                   => C[s][b] = ReplayedRow(q, ReplayOf(q.replay, s, b))
           /\ (\A d \in q.replay : ~(d.slot = s /\ d.bank = b))
                   => C[s][b] = q.bank[s][b]
  <2> HIDE DEF C
  <2> QED BY FlushedBank DEF C
<1>3. q.replay # {} => \A d : ReplayedRow(q, d) = ReplayedRow(p, d)
  BY DEF ReplayedRow
<1> HIDE DEF B, C
<1>4. \A s \in Slots, b \in Banks : B[s][b] = C[s][b]
  BY <1>1, <1>2, <1>3
<1>5. B = C
  BY <1>1, <1>2, <1>4
<1> QED BY <1>5 DEF B, C

(* A bank no replay names keeps its row. *)
LEMMA UntouchedRow ==
    ASSUME NEW p, IsPool(p), NEW s \in Slots, NEW b \in Banks,
           \A d \in p.replay : ~(d.slot = s /\ d.bank = b)
    PROVE  FlushDeferredReplay(p).bank[s][b] = p.bank[s][b]
<1> DEFINE B == FlushDeferredReplay(p).bank
<1>1. B[s][b] = p.bank[s][b]
  <2> HIDE DEF B
  <2> QED BY FlushedBank DEF B
<1> QED BY <1>1

(* A bank a replay names gets the row that replay computes. *)
LEMMA RewrittenRow ==
    ASSUME NEW p, IsPool(p), NEW s \in Slots, NEW b \in Banks, NEW d \in p.replay,
           d.slot = s, d.bank = b
    PROVE  FlushDeferredReplay(p).bank[s][b] = ReplayedRow(p, ReplayOf(p.replay, s, b))
<1> DEFINE B == FlushDeferredReplay(p).bank
<1>1. \E x \in p.replay : x.slot = s /\ x.bank = b
  OBVIOUS
<1>2. \A u \in Slots, a \in Banks : (\E x \in p.replay : x.slot = u /\ x.bank = a)
                                        => B[u][a] = ReplayedRow(p, ReplayOf(p.replay, u, a))
  <2> HIDE DEF B
  <2> QED BY FlushedBank DEF B
<1> HIDE DEF B
<1>3. B[s][b] = ReplayedRow(p, ReplayOf(p.replay, s, b))
  BY <1>1, <1>2
<1> QED BY <1>3 DEF B

(* With nothing deferred a flush changes no bank. *)
LEMMA NoReplay ==
    ASSUME NEW p, IsPool(p), p.replay = {}
    PROVE  FlushDeferredReplay(p).bank = p.bank
<1> DEFINE B == FlushDeferredReplay(p).bank
<1>1. /\ B = [s \in Slots |-> [b \in Banks |-> B[s][b]]]
      /\ \A s \in Slots, b \in Banks : B[s][b] = p.bank[s][b]
  <2> HIDE DEF B
  <2> QED BY FlushedBank DEF B
<1>2. p.bank = [s \in Slots |-> [b \in Banks |-> p.bank[s][b]]]
  BY DEF IsPool
<1> HIDE DEF B
<1>3. B = p.bank
  BY <1>1, <1>2
<1> QED BY <1>3 DEF B

(* With nothing deferred a reader sees the bank the selector names. *)
LEMMA VisibleBank ==
    ASSUME NEW p, IsPool(p), p.replay = {}, NEW s \in Slots
    PROVE  VisibleRow(p, s) = p.bank[s][p.slot[s].active_bank]
BY NoReplay DEF VisibleRow

(* RowAt finds the only row of a slot. *)
LEMMA RowAtFacts ==
    ASSUME NEW rows, NEW i \in DOMAIN rows,
           \A j \in DOMAIN rows : rows[j].slot = rows[i].slot => j = i
    PROVE  RowAt(rows, rows[i].slot) = i
BY DEF RowAt

(* RowOf finds the only row of a request. *)
LEMMA RowOfFacts ==
    ASSUME NEW rows, NEW i \in DOMAIN rows,
           \A j \in DOMAIN rows : rows[j].request = rows[i].request => j = i
    PROVE  RowOf(rows, rows[i].request) = i
BY DEF RowOf

-----------------------------------------------------------------------------
(* Reserve. *)

(* FreeSlotAt takes the k-th lowest free slot. *)
LEMMA FreeSlotAtFacts ==
    ASSUME NEW p, NEW k \in 1 .. AvailableSlots(p)
    PROVE  /\ FreeSlotAt(p, k) \in FreeSlots(p)
           /\ Cardinality(Lower(FreeSlots(p), FreeSlotAt(p, k))) = k - 1
<1>1. FreeSlots(p) \in SUBSET Slots /\ FreeSlots(p) \in SUBSET Nat
  BY PoolAssumption DEF FreeSlots, Slots
<1>2. IsFiniteSet(FreeSlots(p)) /\ AvailableSlots(p) = Cardinality(FreeSlots(p))
  BY <1>1, SlotsFinite, FS_Subset DEF AvailableSlots, FreeSlots
<1>3. Cardinality(FreeSlots(p)) \in Nat
  BY <1>2, FS_CardinalityType
<1>4. k - 1 \in Nat /\ k - 1 < Cardinality(FreeSlots(p))
  BY <1>2, <1>3
<1>5. \E s \in FreeSlots(p) : Cardinality(Lower(FreeSlots(p), s)) = k - 1
  BY <1>1, <1>2, <1>4, KthLowest
<1> QED BY <1>5 DEF FreeSlotAt, Lower

Planned(p, reqs, rows) ==
    /\ DOMAIN rows = DOMAIN reqs /\ rows \in Seq(RowSet)
    /\ \A i \in DOMAIN reqs :
        /\ rows[i].request = reqs[i].request /\ rows[i].target = reqs[i].target
        /\ rows[i].capture = reqs[i].capture /\ rows[i].ckpt = reqs[i].ckpt
        /\ rows[i].step = 0 /\ rows[i].kept = 0
        /\ rows[i].provisional <=> ~OwnsCommittedSlot(p, reqs[i].request)
        /\ ~OwnsCommittedSlot(p, reqs[i].request) =>
            /\ rows[i].slot \in FreeSlots(p) /\ rows[i].expected = 0
            /\ rows[i].generation = p.slot[rows[i].slot].generation + 1
        /\ OwnsCommittedSlot(p, reqs[i].request) =>
            /\ rows[i].slot = p.index[reqs[i].request]
            /\ rows[i].expected = p.slot[rows[i].slot].state_generation
            /\ rows[i].generation = p.slot[rows[i].slot].generation
    /\ \A i, j \in DOMAIN reqs : rows[i].slot = rows[j].slot => i = j

(* PlanRows gives every request of the batch a slot of its own. *)
LEMMA PlanRowsFacts ==
    ASSUME NEW p, IsPool(p), NEW reqs \in Seq(RequestSet),
           \A i, j \in DOMAIN reqs : reqs[i].request = reqs[j].request => i = j,
           Cardinality({i \in DOMAIN reqs : ~OwnsCommittedSlot(p, reqs[i].request)})
               <= AvailableSlots(p),
           \A r \in Requests : OwnsCommittedSlot(p, r) =>
               /\ p.slot[p.index[r]].ownership = "Committed"
               /\ p.slot[p.index[r]].request = r
    PROVE  Planned(p, reqs, PlanRows(p, reqs))
<1> DEFINE n == Len(reqs)
           Own(i) == OwnsCommittedSlot(p, reqs[i].request)
           N == {i \in 1 .. n : ~Own(i)}
           Rank(i) == Cardinality({j \in 1 .. i : ~Own(j)})
           Slot(i) == IF Own(i) THEN p.index[reqs[i].request] ELSE FreeSlotAt(p, Rank(i))
           rows == PlanRows(p, reqs)
<1>1. n \in Nat /\ DOMAIN reqs = 1 .. n
  OBVIOUS
<1>2. rows = [i \in 1 .. n |->
                IF ~Own(i)
                THEN NewRow(reqs[i].request, Slot(i), p.slot[Slot(i)].generation + 1, TRUE, 0, reqs[i])
                ELSE NewRow(reqs[i].request, Slot(i), p.slot[Slot(i)].generation, FALSE,
                            p.slot[Slot(i)].state_generation, reqs[i])]
  BY DEF PlanRows
<1>3. \A i \in 1 .. n : reqs[i] \in RequestSet
  OBVIOUS
<1>4. Cardinality(N) <= AvailableSlots(p) /\ N \in SUBSET (1 .. n)
  BY <1>1
<1>5. AvailableSlots(p) \in Nat
  <2>1. FreeSlots(p) \in SUBSET Slots /\ AvailableSlots(p) = Cardinality(FreeSlots(p))
    BY DEF FreeSlots, AvailableSlots
  <2>2. IsFiniteSet(FreeSlots(p))
    BY <2>1, SlotsFinite, FS_Subset
  <2> QED BY <2>1, <2>2, FS_CardinalityType
<1>6. \A i \in N : {j \in 1 .. i : ~Own(j)} = UpTo(N, i)
  BY <1>1 DEF UpTo
<1>7. \A i \in N : Rank(i) \in 1 .. AvailableSlots(p)
  <2> SUFFICES ASSUME NEW i \in N PROVE Rank(i) \in 1 .. AvailableSlots(p)
    OBVIOUS
  <2>1. Rank(i) = Cardinality(UpTo(N, i))
    BY <1>6
  <2> HIDE DEF Rank, N, n
  <2>2. Cardinality(N) \in Nat /\ Rank(i) \in 1 .. Cardinality(N)
    <3>1. n \in Nat /\ N \in SUBSET (1 .. n)
      BY <1>1, <1>4
    <3>2. Cardinality(N) \in Nat /\ Cardinality(UpTo(N, i)) \in 1 .. Cardinality(N)
      BY ONLY <3>1, i \in N, RankFacts
    <3> QED BY <2>1, <3>2
  <2> QED BY <1>4, <1>5, <2>2
<1>8. \A i, j \in N : i < j => Rank(i) # Rank(j)
  <2> SUFFICES ASSUME NEW i \in N, NEW j \in N, i < j PROVE Rank(i) # Rank(j)
    OBVIOUS
  <2>1. Rank(i) = Cardinality(UpTo(N, i)) /\ Rank(j) = Cardinality(UpTo(N, j))
    BY <1>6
  <2> HIDE DEF Rank, N, n
  <2> QED BY <1>1, <1>4, <2>1, RankFacts
<1>9. \A i \in N : /\ Slot(i) \in FreeSlots(p)
                   /\ Cardinality(Lower(FreeSlots(p), Slot(i))) = Rank(i) - 1
  <2> SUFFICES ASSUME NEW i \in N
               PROVE  /\ Slot(i) \in FreeSlots(p)
                      /\ Cardinality(Lower(FreeSlots(p), Slot(i))) = Rank(i) - 1
    OBVIOUS
  <2>1. Slot(i) = FreeSlotAt(p, Rank(i)) /\ Rank(i) \in 1 .. AvailableSlots(p)
    BY <1>7
  <2> HIDE DEF Rank, Slot
  <2> QED BY <2>1, FreeSlotAtFacts
<1>10. \A i \in 1 .. n : Slot(i) \in Slots
  <2> SUFFICES ASSUME NEW i \in 1 .. n PROVE Slot(i) \in Slots
    OBVIOUS
  <2>1. CASE Own(i)
    BY <1>3, <2>1 DEF OwnsCommittedSlot, IsPool, RequestSet
  <2>2. CASE ~Own(i)
    <3>1. Slot(i) \in FreeSlots(p)
      BY <1>9, <2>2
    <3> QED BY <3>1 DEF FreeSlots
  <2> QED BY <2>1, <2>2
<1>11. \A i, j \in 1 .. n : Slot(i) = Slot(j) => i = j
  <2> SUFFICES ASSUME NEW i \in 1 .. n, NEW j \in 1 .. n, Slot(i) = Slot(j) PROVE i = j
    OBVIOUS
  <2>1. CASE Own(i) /\ Own(j)
    <3>1. Slot(i) = p.index[reqs[i].request] /\ Slot(j) = p.index[reqs[j].request]
      BY <2>1
    <3>2. reqs[i].request \in Requests /\ reqs[j].request \in Requests
      BY <1>3 DEF RequestSet
    <3>3. p.slot[Slot(i)].request = reqs[i].request /\ p.slot[Slot(j)].request = reqs[j].request
      BY <2>1, <3>1, <3>2
    <3> QED BY <1>1, <3>3
  <2>2. CASE ~Own(i) /\ ~Own(j)
    <3>1. i \in N /\ j \in N
      BY <2>2
    <3>2. Rank(i) - 1 = Rank(j) - 1 /\ Rank(i) \in Nat /\ Rank(j) \in Nat
      <4> HIDE DEF Rank, Slot, N
      <4> QED BY <1>5, <1>7, <1>9, <3>1
    <3>3. Rank(i) = Rank(j)
      <4> HIDE DEF Rank
      <4> QED BY <3>2
    <3> HIDE DEF Rank, Slot, N
    <3> QED BY <1>1, <1>8, <3>1, <3>3
  <2>3. \A k \in 1 .. n : Own(k) => p.slot[Slot(k)].ownership = "Committed"
    BY <1>3 DEF RequestSet
  <2>4. \A k \in 1 .. n : ~Own(k) => p.slot[Slot(k)].ownership = "Free"
    BY <1>9 DEF FreeSlots
  <2>5. Own(i) <=> Own(j)
    <3> HIDE DEF Own, Slot
    <3> QED BY <2>3, <2>4
  <2> QED BY <2>1, <2>2, <2>5
<1> HIDE DEF Slot, Rank, N
<1>12. \A i \in 1 .. n : p.slot[Slot(i)].generation \in Nat /\ p.slot[Slot(i)].state_generation \in Nat
  BY <1>10, ActiveBank DEF SlotSet
<1>13. \A i \in 1 .. n :
        /\ rows[i].request = reqs[i].request /\ rows[i].target = reqs[i].target
        /\ rows[i].capture = reqs[i].capture /\ rows[i].ckpt = reqs[i].ckpt
        /\ rows[i].step = 0 /\ rows[i].kept = 0 /\ rows[i].slot = Slot(i)
        /\ rows[i].provisional <=> ~Own(i)
        /\ ~Own(i) => /\ rows[i].expected = 0
                      /\ rows[i].generation = p.slot[rows[i].slot].generation + 1
        /\ Own(i) => /\ rows[i].expected = p.slot[rows[i].slot].state_generation
                     /\ rows[i].generation = p.slot[rows[i].slot].generation
  <2> SUFFICES ASSUME NEW i \in 1 .. n PROVE
        /\ rows[i].request = reqs[i].request /\ rows[i].target = reqs[i].target
        /\ rows[i].capture = reqs[i].capture /\ rows[i].ckpt = reqs[i].ckpt
        /\ rows[i].step = 0 /\ rows[i].kept = 0 /\ rows[i].slot = Slot(i)
        /\ rows[i].provisional <=> ~Own(i)
        /\ ~Own(i) => /\ rows[i].expected = 0
                      /\ rows[i].generation = p.slot[rows[i].slot].generation + 1
        /\ Own(i) => /\ rows[i].expected = p.slot[rows[i].slot].state_generation
                     /\ rows[i].generation = p.slot[rows[i].slot].generation
    OBVIOUS
  <2>1. CASE Own(i)
    <3>1. rows[i] = NewRow(reqs[i].request, Slot(i), p.slot[Slot(i)].generation, FALSE,
                            p.slot[Slot(i)].state_generation, reqs[i])
      BY <1>2, <2>1
    <3>2. /\ rows[i].request = reqs[i].request /\ rows[i].target = reqs[i].target
          /\ rows[i].capture = reqs[i].capture /\ rows[i].ckpt = reqs[i].ckpt
          /\ rows[i].step = 0 /\ rows[i].kept = 0 /\ rows[i].slot = Slot(i)
          /\ rows[i].provisional = FALSE /\ rows[i].expected = p.slot[Slot(i)].state_generation
          /\ rows[i].generation = p.slot[Slot(i)].generation
      BY <3>1 DEF NewRow
    <3> HIDE DEF rows, Own
    <3> QED BY <2>1, <3>2
  <2>2. CASE ~Own(i)
    <3>1. rows[i] = NewRow(reqs[i].request, Slot(i), p.slot[Slot(i)].generation + 1, TRUE, 0, reqs[i])
      BY <1>2, <2>2
    <3>2. /\ rows[i].request = reqs[i].request /\ rows[i].target = reqs[i].target
          /\ rows[i].capture = reqs[i].capture /\ rows[i].ckpt = reqs[i].ckpt
          /\ rows[i].step = 0 /\ rows[i].kept = 0 /\ rows[i].slot = Slot(i)
          /\ rows[i].provisional = TRUE /\ rows[i].expected = 0
          /\ rows[i].generation = p.slot[Slot(i)].generation + 1
      BY <3>1 DEF NewRow
    <3> HIDE DEF rows, Own
    <3> QED BY <2>2, <3>2
  <2> QED BY <2>1, <2>2
<1>14. \A i \in 1 .. n : rows[i] \in RowSet
  <2> SUFFICES ASSUME NEW i \in 1 .. n PROVE rows[i] \in RowSet
    OBVIOUS
  <2>1. /\ reqs[i].request \in Requests /\ reqs[i].target \in Nat /\ reqs[i].capture \in Nat
        /\ reqs[i].ckpt \in HandleSet
    BY <1>3 DEF RequestSet
  <2>2. /\ Slot(i) \in Slots /\ p.slot[Slot(i)].generation \in Nat
        /\ p.slot[Slot(i)].state_generation \in Nat /\ p.slot[Slot(i)].generation + 1 \in Nat
    BY <1>10, <1>12
  <2>3. CASE Own(i)
    <3>1. rows[i] = NewRow(reqs[i].request, Slot(i), p.slot[Slot(i)].generation, FALSE,
                            p.slot[Slot(i)].state_generation, reqs[i])
      BY <1>2, <2>3
    <3> QED BY <2>1, <2>2, <3>1 DEF NewRow, RowSet
  <2>4. CASE ~Own(i)
    <3>1. rows[i] = NewRow(reqs[i].request, Slot(i), p.slot[Slot(i)].generation + 1, TRUE, 0, reqs[i])
      BY <1>2, <2>4
    <3> QED BY <2>1, <2>2, <3>1 DEF NewRow, RowSet
  <2> QED BY <2>3, <2>4
<1>15. DOMAIN rows = 1 .. n /\ rows = [i \in 1 .. n |-> rows[i]]
  BY <1>2
<1> HIDE DEF rows
<1>16. rows \in Seq(RowSet)
  BY <1>1, <1>14, <1>15
<1>17. \A i \in 1 .. n : ~Own(i) => rows[i].slot \in FreeSlots(p)
  <2> SUFFICES ASSUME NEW i \in 1 .. n, ~Own(i) PROVE rows[i].slot \in FreeSlots(p)
    OBVIOUS
  <2>1. i \in N
    BY DEF N
  <2>2. Slot(i) \in FreeSlots(p)
    BY <1>9, <2>1
  <2> QED BY <1>13, <2>2
<1>18. \A i \in 1 .. n : Own(i) => rows[i].slot = p.index[reqs[i].request]
  BY <1>13 DEF Slot
<1>19. \A i, j \in 1 .. n : rows[i].slot = rows[j].slot => i = j
  BY <1>11, <1>13
<1>20. Planned(p, reqs, rows)
  BY <1>1, <1>13, <1>15, <1>16, <1>17, <1>18, <1>19 DEF Planned
<1> QED BY <1>20 DEF rows

(* Binding the inputs, directly or by a gather, moves nothing a reader sees. *)
Bound(f, rows, b) ==
    /\ IsPool(b) /\ b.index = f.index /\ b.ckpt = f.ckpt /\ b.replay = f.replay
    /\ b.live = f.live /\ b.healthy = f.healthy /\ b.views = f.views
    /\ \A s \in Slots :
        /\ b.slot[s].request = f.slot[s].request
        /\ b.slot[s].generation = f.slot[s].generation
        /\ b.slot[s].state_generation = f.slot[s].state_generation
        /\ b.slot[s].committed_tokens = f.slot[s].committed_tokens
        /\ b.slot[s].ownership = f.slot[s].ownership
        /\ b.bank[s][b.slot[s].active_bank] = f.bank[s][f.slot[s].active_bank]

(* Normalisation copies before it flips: every slot shows the row it showed. *)
LEMMA NormalizeFacts ==
    ASSUME NEW f, IsPool(f), NEW rows \in Seq(RowSet), 1 \in DOMAIN rows
    PROVE  Bound(f, rows, Normalize(f, rows))
<1> DEFINE b == DirectBank(f, rows)
           S == [s \in Slots |-> IF s \in SlotsOf(rows)
                                 THEN [f.slot[s] EXCEPT !.active_bank = b] ELSE f.slot[s]]
           B == [s \in Slots |-> IF s \in SlotsOf(rows)
                                 THEN [f.bank[s] EXCEPT ![b] = f.bank[s][f.slot[s].active_bank]]
                                 ELSE f.bank[s]]
           q == [f EXCEPT !.bank = B, !.slot = S]
<1>1. Normalize(f, rows) = q
  BY DEF Normalize
<1>2. b \in Banks
  <2>1. rows[1] \in RowSet
    OBVIOUS
  <2>2. rows[1].slot \in Slots
    BY <2>1 DEF RowSet
  <2>3. f.slot[rows[1].slot].active_bank \in Banks
    BY <2>2, ActiveBank
  <2> QED BY <2>3 DEF DirectBank, Banks
<1> HIDE DEF b
<1>3. \A s \in Slots : /\ S[s] \in SlotSet
                       /\ S[s].request = f.slot[s].request
                       /\ S[s].generation = f.slot[s].generation
                       /\ S[s].state_generation = f.slot[s].state_generation
                       /\ S[s].committed_tokens = f.slot[s].committed_tokens
                       /\ S[s].ownership = f.slot[s].ownership
                       /\ S[s].active_bank = IF s \in SlotsOf(rows) THEN b
                                             ELSE f.slot[s].active_bank
  <2> SUFFICES ASSUME NEW s \in Slots
               PROVE  /\ S[s] \in SlotSet
                      /\ S[s].request = f.slot[s].request
                      /\ S[s].generation = f.slot[s].generation
                      /\ S[s].state_generation = f.slot[s].state_generation
                      /\ S[s].committed_tokens = f.slot[s].committed_tokens
                      /\ S[s].ownership = f.slot[s].ownership
                      /\ S[s].active_bank = IF s \in SlotsOf(rows) THEN b
                                            ELSE f.slot[s].active_bank
    OBVIOUS
  <2>1. f.slot[s] \in SlotSet
    BY ActiveBank
  <2>2. CASE s \in SlotsOf(rows)
    <3>1. S[s] = [f.slot[s] EXCEPT !.active_bank = b]
      BY <2>2
    <3> QED BY <1>2, <2>1, <2>2, <3>1 DEF SlotSet
  <2>3. CASE s \notin SlotsOf(rows)
    <3>1. S[s] = f.slot[s]
      BY <2>3
    <3> QED BY <2>1, <2>3, <3>1
  <2> QED BY <2>2, <2>3
<1>4. \A s \in Slots : /\ B[s] = [a \in Banks |-> B[s][a]]
                       /\ B[s][S[s].active_bank] = f.bank[s][f.slot[s].active_bank]
  <2> SUFFICES ASSUME NEW s \in Slots
               PROVE  /\ B[s] = [a \in Banks |-> B[s][a]]
                      /\ B[s][S[s].active_bank] = f.bank[s][f.slot[s].active_bank]
    OBVIOUS
  <2>1. f.bank[s] = [a \in Banks |-> f.bank[s][a]]
    BY DEF IsPool
  <2>2. CASE s \in SlotsOf(rows)
    <3>1. B[s] = [f.bank[s] EXCEPT ![b] = f.bank[s][f.slot[s].active_bank]] /\ S[s].active_bank = b
      BY <1>3, <2>2
    <3> HIDE DEF S, B
    <3> QED BY <1>2, <2>1, <3>1
  <2>3. CASE s \notin SlotsOf(rows)
    <3>1. B[s] = f.bank[s] /\ S[s] = f.slot[s]
      BY <2>3
    <3> HIDE DEF S, B
    <3> QED BY <2>1, <3>1
  <2> QED BY <2>2, <2>3
<1>5. B = [s \in Slots |-> [a \in Banks |-> B[s][a]]] /\ S \in [Slots -> SlotSet]
  <2>1. B = [s \in Slots |-> B[s]] /\ S = [s \in Slots |-> S[s]]
    OBVIOUS
  <2> HIDE DEF B, S
  <2> QED BY <1>3, <1>4, <2>1
<1> HIDE DEF S, B
<1>6. /\ q.bank = B /\ q.slot = S /\ q.replay = f.replay /\ q.index = f.index /\ q.ckpt = f.ckpt
      /\ q.healthy = f.healthy /\ q.live = f.live /\ q.views = f.views
      /\ DOMAIN q = PoolFields /\ q = [x \in PoolFields |-> q[x]]
  BY DEF IsPool, PoolFields
<1> HIDE DEF q
<1>7. IsPool(q)
  BY <1>5, <1>6 DEF IsPool
<1>8. Bound(f, rows, q)
  BY <1>3, <1>4, <1>6, <1>7 DEF Bound
<1> QED BY <1>1, <1>8

(* New rows start on one of the two banks. *)
LEMMA ProvisionalBankFacts ==
    ASSUME NEW p, IsPool(p), NEW rows \in Seq(RowSet)
    PROVE  ProvisionalBank(p, rows) \in Banks
<1>1. ResidentBanks(p, rows) \in SUBSET Banks
  <2>0. \A i \in DOMAIN rows : rows[i] \in RowSet
    OBVIOUS
  <2>1. \A i \in DOMAIN rows : rows[i].slot \in Slots
    BY <2>0 DEF RowSet
  <2>2. \A i \in DOMAIN rows : p.slot[rows[i].slot].active_bank \in Banks
    BY <2>1, ActiveBank
  <2> QED BY <2>2 DEF ResidentBanks
<1>2. IsFiniteSet(Banks)
  <2>1. Banks = {0} \cup {1} /\ IsFiniteSet({0})
    BY FS_Singleton DEF Banks
  <2> QED BY <2>1, FS_AddElement
<1>3. IsFiniteSet(ResidentBanks(p, rows))
  BY <1>1, <1>2, FS_Subset
<1>4. Cardinality(ResidentBanks(p, rows)) = 1 => \E x \in ResidentBanks(p, rows) : TRUE
  BY <1>3, FS_Singleton
<1> QED BY <1>1, <1>4 DEF ProvisionalBank, Banks

Provided(b, rows, q) ==
    /\ IsPool(q) /\ q.index = b.index /\ q.ckpt = b.ckpt /\ q.replay = b.replay
    /\ q.bank = b.bank /\ q.input = b.input /\ q.healthy = b.healthy /\ q.live
    /\ \A i \in DOMAIN rows : rows[i].provisional =>
        /\ q.slot[rows[i].slot].request = rows[i].request
        /\ q.slot[rows[i].slot].generation = rows[i].generation
        /\ q.slot[rows[i].slot].state_generation = 0
        /\ q.slot[rows[i].slot].committed_tokens = rows[i].ckpt.count
        /\ q.slot[rows[i].slot].ownership = "Reserved"
    /\ \A s \in Slots : (\A i \in DOMAIN rows : rows[i].provisional => rows[i].slot # s)
                            => q.slot[s] = b.slot[s]

(* Publishing provisional ownership touches the new slots only. *)
LEMMA ProvideFacts ==
    ASSUME NEW b, IsPool(b), NEW rows \in Seq(RowSet),
           \A i, j \in DOMAIN rows : rows[i].slot = rows[j].slot => i = j
    PROVE  Provided(b, rows, PublishProvisional(b, rows))
<1> DEFINE New(row) == [request |-> row.request, generation |-> row.generation,
                        state_generation |-> 0, committed_tokens |-> row.ckpt.count,
                        active_bank |-> ProvisionalBank(b, rows), ownership |-> "Reserved"]
           S == [s \in Slots |-> IF s \in SlotsOf(rows) /\ rows[RowAt(rows, s)].provisional
                                 THEN New(rows[RowAt(rows, s)]) ELSE b.slot[s]]
           q == [b EXCEPT !.slot = S, !.live = TRUE]
<1>1. PublishProvisional(b, rows) = q
  BY DEF PublishProvisional
<1>2. \A i \in DOMAIN rows : rows[i] \in RowSet /\ rows[i].slot \in Slots
                              /\ RowAt(rows, rows[i].slot) = i
  <2> SUFFICES ASSUME NEW i \in DOMAIN rows
               PROVE  rows[i] \in RowSet /\ rows[i].slot \in Slots /\ RowAt(rows, rows[i].slot) = i
    OBVIOUS
  <2>1. rows[i] \in RowSet
    OBVIOUS
  <2> QED BY <2>1, RowAtFacts DEF RowSet
<1>3. \A i \in DOMAIN rows : New(rows[i]) \in SlotSet
  <2> SUFFICES ASSUME NEW i \in DOMAIN rows PROVE New(rows[i]) \in SlotSet
    OBVIOUS
  <2>1. rows[i].request \in Requests /\ rows[i].generation \in Nat /\ rows[i].ckpt.count \in Nat
    BY <1>2 DEF RowSet, HandleSet
  <2>2. ProvisionalBank(b, rows) \in Banks
    BY ProvisionalBankFacts
  <2> QED BY <2>1, <2>2 DEF SlotSet
<1>4. \A i \in DOMAIN rows : rows[i].provisional => S[rows[i].slot] = New(rows[i])
  <2> SUFFICES ASSUME NEW i \in DOMAIN rows, rows[i].provisional
               PROVE  S[rows[i].slot] = New(rows[i])
    OBVIOUS
  <2>1. rows[i].slot \in SlotsOf(rows)
    BY DEF SlotsOf
  <2> HIDE DEF New
  <2> QED BY <1>2, <2>1
<1>5. \A s \in Slots : (\A i \in DOMAIN rows : rows[i].provisional => rows[i].slot # s)
                            => S[s] = b.slot[s]
  <2> SUFFICES ASSUME NEW s \in Slots, \A i \in DOMAIN rows : rows[i].provisional => rows[i].slot # s
               PROVE  S[s] = b.slot[s]
    OBVIOUS
  <2>1. ~(s \in SlotsOf(rows) /\ rows[RowAt(rows, s)].provisional)
    <3> SUFFICES ASSUME s \in SlotsOf(rows) PROVE ~rows[RowAt(rows, s)].provisional
      OBVIOUS
    <3>1. PICK i \in DOMAIN rows : rows[i].slot = s
      BY DEF SlotsOf
    <3> QED BY <1>2, <3>1
  <2> HIDE DEF New
  <2> QED BY <2>1
<1>6. \A s \in Slots : S[s] \in SlotSet
  <2> SUFFICES ASSUME NEW s \in Slots PROVE S[s] \in SlotSet
    OBVIOUS
  <2>1. CASE \E i \in DOMAIN rows : rows[i].provisional /\ rows[i].slot = s
    <3>1. PICK i \in DOMAIN rows : rows[i].provisional /\ rows[i].slot = s
      BY <2>1
    <3> HIDE DEF S, New
    <3> QED BY <1>3, <1>4, <3>1
  <2>2. CASE \A i \in DOMAIN rows : rows[i].provisional => rows[i].slot # s
    <3>1. S[s] = b.slot[s] /\ b.slot[s] \in SlotSet
      BY <1>5, <2>2, ActiveBank
    <3> HIDE DEF S, New
    <3> QED BY <3>1
  <2> QED BY <2>1, <2>2
<1>7. S \in [Slots -> SlotSet]
  <2>1. S = [s \in Slots |-> S[s]]
    OBVIOUS
  <2> HIDE DEF S
  <2> QED BY <1>6, <2>1
<1>8. \A i \in DOMAIN rows : rows[i].provisional =>
        /\ S[rows[i].slot].request = rows[i].request
        /\ S[rows[i].slot].generation = rows[i].generation
        /\ S[rows[i].slot].state_generation = 0
        /\ S[rows[i].slot].committed_tokens = rows[i].ckpt.count
        /\ S[rows[i].slot].ownership = "Reserved"
  <2> SUFFICES ASSUME NEW i \in DOMAIN rows, rows[i].provisional
               PROVE  /\ S[rows[i].slot].request = rows[i].request
                      /\ S[rows[i].slot].generation = rows[i].generation
                      /\ S[rows[i].slot].state_generation = 0
                      /\ S[rows[i].slot].committed_tokens = rows[i].ckpt.count
                      /\ S[rows[i].slot].ownership = "Reserved"
    OBVIOUS
  <2>1. S[rows[i].slot] = New(rows[i])
    BY <1>4
  <2> HIDE DEF S
  <2> QED BY <2>1
<1> HIDE DEF S
<1>9. /\ q.bank = b.bank /\ q.slot = S /\ q.replay = b.replay /\ q.index = b.index /\ q.ckpt = b.ckpt
      /\ q.healthy = b.healthy /\ q.live = TRUE /\ q.views = b.views /\ q.input = b.input
      /\ DOMAIN q = PoolFields /\ q = [x \in PoolFields |-> q[x]]
  BY DEF IsPool, PoolFields
<1> HIDE DEF q
<1>10. IsPool(q)
  BY <1>7, <1>9 DEF IsPool
<1>11. Provided(b, rows, q)
  BY <1>5, <1>8, <1>9, <1>10 DEF Provided
<1> QED BY <1>1, <1>11

(* What Reserve leaves behind: rows as planned, provisional slots, inputs, and *)
(* every other slot as it was.                                                 *)
ReservedAs(p, reqs, q, v) ==
    /\ Planned(p, reqs, v.rows) /\ v \in ReservationSet /\ v.state = "Reserved"
    /\ v.direct => \A i \in DOMAIN v.rows : ~v.rows[i].provisional
    /\ v.captures <=> \E i \in DOMAIN v.rows : v.rows[i].capture # 0
    /\ IsPool(q) /\ q.index = p.index /\ q.ckpt = p.ckpt /\ q.replay = {}
    /\ q.healthy = p.healthy /\ q.live
    /\ \A i \in DOMAIN v.rows : v.rows[i].provisional =>
        /\ q.slot[v.rows[i].slot].request = v.rows[i].request
        /\ q.slot[v.rows[i].slot].generation = v.rows[i].generation
        /\ q.slot[v.rows[i].slot].state_generation = 0
        /\ q.slot[v.rows[i].slot].committed_tokens = v.rows[i].ckpt.count
        /\ q.slot[v.rows[i].slot].ownership = "Reserved"
    /\ \A s \in Slots : (\A i \in DOMAIN v.rows : v.rows[i].provisional => v.rows[i].slot # s) =>
        /\ q.slot[s].request = p.slot[s].request
        /\ q.slot[s].generation = p.slot[s].generation
        /\ q.slot[s].state_generation = p.slot[s].state_generation
        /\ q.slot[s].committed_tokens = p.slot[s].committed_tokens
        /\ q.slot[s].ownership = p.slot[s].ownership
        /\ VisibleRow(q, s) = VisibleRow(p, s)
    /\ ~v.direct => \A i \in DOMAIN v.rows :
        /\ ~v.rows[i].provisional => q.input[i] = VisibleRow(p, v.rows[i].slot)
        /\ v.rows[i].provisional /\ v.rows[i].ckpt # NoCheckpoint
                => q.input[i] = p.ckpt[v.rows[i].ckpt.row].row
        /\ v.rows[i].provisional /\ v.rows[i].ckpt = NoCheckpoint => q.input[i] = ZeroRow

(* What Reserve leaves behind. *)
LEMMA ReserveFacts ==
    ASSUME NEW p, IsPool(p), NEW reqs \in Seq(RequestSet), 1 \in DOMAIN reqs,
           \A i, j \in DOMAIN reqs : reqs[i].request = reqs[j].request => i = j,
           Cardinality({i \in DOMAIN reqs : ~OwnsCommittedSlot(p, reqs[i].request)})
               <= AvailableSlots(p),
           \A r \in Requests : OwnsCommittedSlot(p, r) =>
               /\ p.slot[p.index[r]].ownership = "Committed"
               /\ p.slot[p.index[r]].request = r
    PROVE  ReservedAs(p, reqs, Reserve(p, reqs).pool, Reserve(p, reqs).res)
<1> DEFINE f == FlushDeferredReplay(p)
           rows == PlanRows(f, reqs)
           direct == IsDirect(p, rows)
           X == GatheredInput(f, rows)
           b == IF direct THEN Normalize(f, rows) ELSE [f EXCEPT !.input = X]
           q == PublishProvisional(b, rows)
           v == [rows |-> rows, direct |-> direct, state |-> "Reserved",
                 captures |-> \E i \in DOMAIN rows : rows[i].capture # 0]
<1>1. Reserve(p, reqs).pool = q /\ Reserve(p, reqs).res = v
  BY DEF Reserve
<1>2. Flushed(p, f)
  BY FlushFields
<1>3. \A s \in Slots : VisibleRow(p, s) = f.bank[s][f.slot[s].active_bank]
  <2>1. f.slot = p.slot
    BY <1>2 DEF Flushed
  <2>2. \A s : VisibleRow(p, s) = f.bank[s][p.slot[s].active_bank]
    BY DEF VisibleRow
  <2> HIDE DEF f
  <2> QED BY <2>1, <2>2
<1> HIDE DEF f
<1>4. /\ IsPool(f) /\ f.replay = {} /\ f.slot = p.slot /\ f.index = p.index /\ f.ckpt = p.ckpt
      /\ f.healthy = p.healthy
  BY <1>2 DEF Flushed
<1>5. /\ \A r : OwnsCommittedSlot(f, r) <=> OwnsCommittedSlot(p, r)
      /\ FreeSlots(f) = FreeSlots(p) /\ AvailableSlots(f) = AvailableSlots(p)
  BY <1>4 DEF OwnsCommittedSlot, FreeSlots, AvailableSlots
<1>6. Planned(p, reqs, rows)
  <2>1. {i \in DOMAIN reqs : ~OwnsCommittedSlot(f, reqs[i].request)}
           = {i \in DOMAIN reqs : ~OwnsCommittedSlot(p, reqs[i].request)}
    BY <1>5
  <2>2. Cardinality({i \in DOMAIN reqs : ~OwnsCommittedSlot(f, reqs[i].request)})
            <= AvailableSlots(f)
    BY <1>5, <2>1
  <2>3. \A r \in Requests : OwnsCommittedSlot(f, r) =>
               /\ f.slot[f.index[r]].ownership = "Committed"
               /\ f.slot[f.index[r]].request = r
    BY <1>4, <1>5
  <2>4. Planned(f, reqs, rows)
    BY <1>4, <2>2, <2>3, PlanRowsFacts
  <2> HIDE DEF rows
  <2> QED BY <1>4, <1>5, <2>4 DEF Planned
<1> HIDE DEF rows
<1>7. /\ DOMAIN rows = DOMAIN reqs /\ rows \in Seq(RowSet)
      /\ \A i, j \in DOMAIN rows : rows[i].slot = rows[j].slot => i = j
  BY <1>6 DEF Planned
<1>8. direct \in BOOLEAN /\ (direct => \A i \in DOMAIN rows : ~rows[i].provisional)
  BY DEF IsDirect
<1> HIDE DEF direct, X
<1>9. Bound(f, rows, b) /\ (~direct => b.input = X)
  <2>1. CASE direct
    <3>1. b = Normalize(f, rows)
      BY <2>1
    <3>2. Bound(f, rows, Normalize(f, rows))
      BY <1>4, <1>7, NormalizeFacts
    <3> HIDE DEF b
    <3> QED BY <2>1, <3>1, <3>2
  <2>2. CASE ~direct
    <3>1. b = [f EXCEPT !.input = X]
      BY <2>2
    <3> HIDE DEF b
    <3>2. /\ b.bank = f.bank /\ b.slot = f.slot /\ b.replay = f.replay /\ b.index = f.index
          /\ b.ckpt = f.ckpt /\ b.input = X
          /\ b.healthy = f.healthy /\ b.live = f.live /\ b.views = f.views
          /\ DOMAIN b = PoolFields /\ b = [x \in PoolFields |-> b[x]]
      BY <1>4, <3>1 DEF IsPool, PoolFields
    <3>3. IsPool(b)
      BY <1>4, <3>2 DEF IsPool
    <3> QED BY <3>2, <3>3 DEF Bound
  <2> QED BY <2>1, <2>2
<1> HIDE DEF b
<1>10. /\ IsPool(b) /\ b.index = f.index /\ b.ckpt = f.ckpt /\ b.replay = f.replay
       /\ b.healthy = f.healthy
       /\ \A s \in Slots :
            /\ b.slot[s].request = f.slot[s].request
            /\ b.slot[s].generation = f.slot[s].generation
            /\ b.slot[s].state_generation = f.slot[s].state_generation
            /\ b.slot[s].committed_tokens = f.slot[s].committed_tokens
            /\ b.slot[s].ownership = f.slot[s].ownership
            /\ b.bank[s][b.slot[s].active_bank] = f.bank[s][f.slot[s].active_bank]
  BY <1>9 DEF Bound
<1>11. Provided(b, rows, q)
  BY <1>7, <1>10, ProvideFacts
<1> HIDE DEF q
<1>12. /\ IsPool(q) /\ q.index = b.index /\ q.ckpt = b.ckpt /\ q.replay = b.replay
       /\ q.bank = b.bank /\ q.input = b.input /\ q.healthy = b.healthy /\ q.live
       /\ \A i \in DOMAIN rows : rows[i].provisional =>
            /\ q.slot[rows[i].slot].request = rows[i].request
            /\ q.slot[rows[i].slot].generation = rows[i].generation
            /\ q.slot[rows[i].slot].state_generation = 0
            /\ q.slot[rows[i].slot].committed_tokens = rows[i].ckpt.count
            /\ q.slot[rows[i].slot].ownership = "Reserved"
       /\ \A s \in Slots : (\A i \in DOMAIN rows : rows[i].provisional => rows[i].slot # s)
                               => q.slot[s] = b.slot[s]
  BY <1>11 DEF Provided
<1>13. ASSUME NEW s \in Slots, \A i \in DOMAIN rows : rows[i].provisional => rows[i].slot # s
       PROVE  /\ q.slot[s].request = p.slot[s].request
              /\ q.slot[s].generation = p.slot[s].generation
              /\ q.slot[s].state_generation = p.slot[s].state_generation
              /\ q.slot[s].committed_tokens = p.slot[s].committed_tokens
              /\ q.slot[s].ownership = p.slot[s].ownership
              /\ VisibleRow(q, s) = VisibleRow(p, s)
  <2>1. q.slot[s] = b.slot[s]
    BY <1>12, <1>13
  <2>2. VisibleRow(q, s) = q.bank[s][q.slot[s].active_bank]
    BY <1>4, <1>10, <1>12, VisibleBank
  <2> QED BY <1>3, <1>4, <1>10, <1>12, <2>1, <2>2
<1>14. v \in ReservationSet /\ v.rows = rows /\ v.direct = direct /\ v.state = "Reserved"
       /\ (v.captures <=> \E i \in DOMAIN rows : rows[i].capture # 0)
  <2>1. v.rows = rows /\ v.direct = direct /\ v.state = "Reserved"
    OBVIOUS
  <2>2. (\E i \in DOMAIN rows : rows[i].capture # 0) \in BOOLEAN
    OBVIOUS
  <2>3. v \in ReservationSet
    BY <1>7, <1>8, <2>2 DEF ReservationSet
  <2>4. v.captures <=> \E i \in DOMAIN rows : rows[i].capture # 0
    OBVIOUS
  <2> QED BY <2>1, <2>3, <2>4
<1>15. \A i \in DOMAIN rows : rows[i].slot \in Slots
  <2>1. \A i \in DOMAIN rows : rows[i] \in RowSet
    BY <1>7
  <2> QED BY <2>1 DEF RowSet
<1>16. ASSUME ~direct, NEW i \in DOMAIN rows
       PROVE  /\ ~rows[i].provisional => q.input[i] = VisibleRow(p, rows[i].slot)
              /\ rows[i].provisional /\ rows[i].ckpt # NoCheckpoint
                     => q.input[i] = p.ckpt[rows[i].ckpt.row].row
              /\ rows[i].provisional /\ rows[i].ckpt = NoCheckpoint => q.input[i] = ZeroRow
  <2>1. q.input[i] = IF ~rows[i].provisional
                     THEN f.bank[rows[i].slot][f.slot[rows[i].slot].active_bank]
                     ELSE IF rows[i].ckpt # NoCheckpoint THEN f.ckpt[rows[i].ckpt.row].row
                     ELSE ZeroRow
    <3>1. X[i] = IF ~rows[i].provisional
                 THEN f.bank[rows[i].slot][f.slot[rows[i].slot].active_bank]
                 ELSE IF rows[i].ckpt # NoCheckpoint THEN f.ckpt[rows[i].ckpt.row].row
                 ELSE ZeroRow
      BY DEF X, GatheredInput
    <3>2. q.input = X
      BY <1>9, <1>12, <1>16
    <3> QED BY <3>1, <3>2
  <2> QED BY <1>3, <1>4, <1>15, <2>1
<1> HIDE DEF v
<1>17. ReservedAs(p, reqs, q, v)
  <2>1. /\ Planned(p, reqs, v.rows) /\ v \in ReservationSet /\ v.state = "Reserved"
        /\ v.direct => \A i \in DOMAIN v.rows : ~v.rows[i].provisional
        /\ v.captures <=> \E i \in DOMAIN v.rows : v.rows[i].capture # 0
    BY <1>6, <1>8, <1>14
  <2>2. /\ IsPool(q) /\ q.index = p.index /\ q.ckpt = p.ckpt /\ q.replay = {}
        /\ q.healthy = p.healthy /\ q.live
    BY <1>4, <1>10, <1>12
  <2> QED BY <1>12, <1>13, <1>14, <1>16, <2>1, <2>2 DEF ReservedAs
<1> QED BY <1>1, <1>17

-----------------------------------------------------------------------------
(* The run, and what fails half way. *)

(* Writing only the bank that is not shown, of the slots in T. *)
WriteHidden(p, T, X, h) ==
    [p EXCEPT !.bank = [s \in Slots |->
                  IF s \in T THEN [p.bank[s] EXCEPT ![Other(p.slot[s].active_bank)] = X[s]]
                  ELSE p.bank[s]],
              !.healthy = h]

HiddenWritten(p, T, X, h, q) ==
    /\ IsPool(q) /\ q.slot = p.slot /\ q.index = p.index /\ q.ckpt = p.ckpt
    /\ q.replay = p.replay /\ q.input = p.input /\ q.output = p.output
    /\ q.update = p.update /\ q.healthy = h /\ q.live = p.live /\ q.views = p.views
    /\ \A s \in Slots : /\ q.bank[s][p.slot[s].active_bank] = p.bank[s][p.slot[s].active_bank]
                        /\ s \notin T => q.bank[s] = p.bank[s]
                        /\ s \in T => q.bank[s][Other(p.slot[s].active_bank)] = X[s]

(* Writing the banks that are not shown changes nothing a reader sees. *)
LEMMA HiddenWrite ==
    ASSUME NEW p, IsPool(p), NEW T, NEW X, NEW h \in BOOLEAN
    PROVE  HiddenWritten(p, T, X, h, WriteHidden(p, T, X, h))
<1> DEFINE q == WriteHidden(p, T, X, h)
<1> DEFINE B == [s \in Slots |->
                    IF s \in T THEN [p.bank[s] EXCEPT ![Other(p.slot[s].active_bank)] = X[s]]
                    ELSE p.bank[s]]
<1>1. /\ q.bank = B /\ q.slot = p.slot /\ q.index = p.index /\ q.ckpt = p.ckpt
      /\ q.replay = p.replay /\ q.input = p.input /\ q.output = p.output
      /\ q.update = p.update /\ q.healthy = h /\ q.live = p.live /\ q.views = p.views
      /\ DOMAIN q = PoolFields /\ q = [f \in PoolFields |-> q[f]]
  <2> HIDE DEF B
  <2>1. q = [p EXCEPT !.bank = B, !.healthy = h]
    BY DEF B, WriteHidden
  <2> HIDE DEF q
  <2> QED BY <2>1 DEF IsPool, PoolFields
<1>2. \A s \in Slots : p.bank[s] = [b \in Banks |-> p.bank[s][b]]
  BY DEF IsPool
<1>3. \A s \in Slots : /\ p.slot[s].active_bank \in Banks /\ Other(p.slot[s].active_bank) \in Banks
                       /\ Other(p.slot[s].active_bank) # p.slot[s].active_bank
  BY ActiveBank, OtherBank
<1>4. \A s \in Slots : /\ B[s] = [b \in Banks |-> B[s][b]]
                       /\ B[s][p.slot[s].active_bank] = p.bank[s][p.slot[s].active_bank]
                       /\ s \notin T => B[s] = p.bank[s]
                       /\ s \in T => B[s][Other(p.slot[s].active_bank)] = X[s]
  BY <1>2, <1>3
<1>5. B = [s \in Slots |-> [b \in Banks |-> B[s][b]]]
  BY <1>4
<1> HIDE DEF B, q
<1>6. IsPool(q)
  <2>1. q.healthy \in BOOLEAN /\ q.live \in BOOLEAN /\ q.views \in BOOLEAN
    BY <1>1 DEF IsPool
  <2>2. q.bank = [s \in Slots |-> [b \in Banks |-> q.bank[s][b]]]
    BY <1>1, <1>5
  <2> QED BY <1>1, <2>1, <2>2 DEF IsPool
<1>7. HiddenWritten(p, T, X, h, q)
  BY <1>1, <1>4, <1>6 DEF HiddenWritten
<1> QED BY <1>7 DEF q

Executed(p, v, tokens, q) ==
    /\ IsPool(q) /\ q.slot = p.slot /\ q.index = p.index /\ q.ckpt = p.ckpt
    /\ q.replay = p.replay /\ q.input = p.input /\ q.healthy = p.healthy /\ q.live = p.live
    /\ v.captures => q.update = tokens
    /\ ~v.direct => \A i \in DOMAIN v.rows : q.output[i] = InputOf(p, v, i) \o tokens[i]
    /\ \A s \in Slots : q.bank[s][p.slot[s].active_bank] = p.bank[s][p.slot[s].active_bank]
    /\ v.direct => \A i \in DOMAIN v.rows :
            q.bank[v.rows[i].slot][Other(p.slot[v.rows[i].slot].active_bank)] =
                InputOf(p, v, i) \o tokens[i]

(* A run writes the staging rows or, bound directly, the banks that are not  *)
(* shown.                                                                    *)
LEMMA ExecuteFacts ==
    ASSUME NEW p, IsPool(p), NEW v \in ReservationSet, NEW tokens,
           \A i, j \in DOMAIN v.rows : v.rows[i].slot = v.rows[j].slot => i = j
    PROVE  Executed(p, v, tokens, Execute(p, v, tokens))
<1> DEFINE out == [i \in DOMAIN v.rows |-> InputOf(p, v, i) \o tokens[i]]
           T == IF v.direct THEN SlotsOf(v.rows) ELSE {}
           X == [s \in Slots |-> out[RowAt(v.rows, s)]]
           B == [s \in Slots |->
                  IF s \in T THEN [p.bank[s] EXCEPT ![Other(p.slot[s].active_bank)] = X[s]]
                  ELSE p.bank[s]]
           O == IF v.direct THEN p.output ELSE out
           U == IF v.captures THEN tokens ELSE p.update
           w == WriteHidden(p, T, X, p.healthy)
           q == Execute(p, v, tokens)
<1>1. q = [p EXCEPT !.output = O, !.update = U, !.bank = B]
  <2> DEFINE C == [s \in Slots |->
                     IF v.direct /\ s \in SlotsOf(v.rows)
                     THEN [p.bank[s] EXCEPT ![Other(p.slot[s].active_bank)] = out[RowAt(v.rows, s)]]
                     ELSE p.bank[s]]
  <2>1. q = [p EXCEPT !.output = O, !.update = U, !.bank = C]
    BY DEF Execute
  <2>2. C = B
    <3> HIDE DEF out
    <3> QED OBVIOUS
  <2> HIDE DEF B, C, O, U, q
  <2> QED BY <2>1, <2>2
<1>2. w = [p EXCEPT !.bank = B, !.healthy = p.healthy]
  BY DEF WriteHidden
<1>3. \A i \in DOMAIN v.rows : RowAt(v.rows, v.rows[i].slot) = i /\ v.rows[i].slot \in Slots
  <2>1. \A i \in DOMAIN v.rows : v.rows[i] \in RowSet
    BY DEF ReservationSet
  <2> QED BY <2>1, RowAtFacts DEF RowSet
<1>4. v.direct => \A i \in DOMAIN v.rows : /\ v.rows[i].slot \in T
                                           /\ X[v.rows[i].slot] = InputOf(p, v, i) \o tokens[i]
  BY <1>3 DEF SlotsOf
<1>5. /\ ~v.direct => \A i \in DOMAIN v.rows : O[i] = InputOf(p, v, i) \o tokens[i]
      /\ v.captures => U = tokens
  OBVIOUS
<1>6. p.healthy \in BOOLEAN
  BY DEF IsPool
<1> HIDE DEF T, X
<1>7. HiddenWritten(p, T, X, p.healthy, w)
  BY <1>6, HiddenWrite
<1> HIDE DEF B, O, U, w, q
<1>8. w.bank = B
  BY <1>2 DEF IsPool, PoolFields
<1>9. /\ q.output = O /\ q.update = U /\ q.bank = B /\ q.slot = p.slot /\ q.index = p.index
      /\ q.ckpt = p.ckpt /\ q.replay = p.replay /\ q.input = p.input /\ q.healthy = p.healthy
      /\ q.live = p.live /\ q.views = p.views
      /\ DOMAIN q = PoolFields /\ q = [f \in PoolFields |-> q[f]]
  BY <1>1 DEF IsPool, PoolFields
<1>10. B = [s \in Slots |-> [b \in Banks |-> B[s][b]]]
  BY <1>7, <1>8 DEF HiddenWritten, IsPool
<1>11. IsPool(q)
  BY <1>9, <1>10 DEF IsPool
<1>12. /\ \A s \in Slots : q.bank[s][p.slot[s].active_bank] = p.bank[s][p.slot[s].active_bank]
       /\ \A s \in Slots : s \in T => q.bank[s][Other(p.slot[s].active_bank)] = X[s]
  BY <1>7, <1>8, <1>9 DEF HiddenWritten
<1>13. v.direct => \A i \in DOMAIN v.rows :
            q.bank[v.rows[i].slot][Other(p.slot[v.rows[i].slot].active_bank)] =
                InputOf(p, v, i) \o tokens[i]
  BY <1>3, <1>4, <1>12
<1>14. Executed(p, v, tokens, q)
  BY <1>5, <1>9, <1>11, <1>12, <1>13 DEF Executed
<1> QED BY <1>14 DEF q

(* A run or a staging copy that fails half way. *)
TornBy(p, q, v) ==
    /\ IsPool(q) /\ q.slot = p.slot /\ q.index = p.index /\ q.ckpt = p.ckpt
    /\ q.replay = p.replay /\ q.live = p.live
    /\ \A s \in Slots : q.bank[s][p.slot[s].active_bank] = p.bank[s][p.slot[s].active_bank]

(* A run that fails half way tears only banks that are not shown. *)
LEMMA ExecuteFailedFacts ==
    ASSUME NEW p, IsPool(p), NEW v
    PROVE  TornBy(p, ExecuteFailed(p, v), v) /\ ExecuteFailed(p, v).healthy = p.healthy
<1> DEFINE q == ExecuteFailed(p, v)
           T == IF v.direct THEN SlotsOf(v.rows) ELSE {}
           X == [s \in Slots |-> Garbage]
           B == [s \in Slots |->
                  IF s \in T THEN [p.bank[s] EXCEPT ![Other(p.slot[s].active_bank)] = X[s]]
                  ELSE p.bank[s]]
<1>1. q = [p EXCEPT !.bank = B]
  BY DEF ExecuteFailed
<1>2. q = WriteHidden(p, T, X, p.healthy)
  <2>1. WriteHidden(p, T, X, p.healthy) = [p EXCEPT !.bank = B, !.healthy = p.healthy]
    BY DEF WriteHidden
  <2> HIDE DEF B, q
  <2> QED BY <1>1, <2>1 DEF IsPool, PoolFields
<1>3. p.healthy \in BOOLEAN
  BY DEF IsPool
<1> HIDE DEF T, X, q
<1>4. HiddenWritten(p, T, X, p.healthy, q)
  BY <1>2, <1>3, HiddenWrite
<1>5. TornBy(p, q, v) /\ q.healthy = p.healthy
  BY <1>4 DEF TornBy, HiddenWritten
<1> QED BY <1>5 DEF q

(* So does a staging copy. *)
LEMMA PrepareFailedFacts ==
    ASSUME NEW p, IsPool(p), NEW v
    PROVE  \E q : TornBy(p, q, v) /\ PrepareFailed(p, v).pool = ReleaseProvisionalSlots(q, v)
<1> DEFINE T == SlotsOf(v.rows)
           X == [s \in Slots |-> Garbage]
           B == [s \in Slots |->
                  IF s \in T THEN [p.bank[s] EXCEPT ![Other(p.slot[s].active_bank)] = X[s]]
                  ELSE p.bank[s]]
           q == WriteHidden(p, T, X, FALSE)
<1>1. PrepareFailed(p, v).pool = ReleaseProvisionalSlots(q, v)
  BY DEF PrepareFailed, WriteHidden
<1>2. TornBy(p, q, v)
  <2> HIDE DEF T, X
  <2>1. HiddenWritten(p, T, X, FALSE, q)
    BY HiddenWrite
  <2> HIDE DEF q
  <2> QED BY <2>1 DEF TornBy, HiddenWritten
<1> QED BY <1>1, <1>2

-----------------------------------------------------------------------------
(* Commit and discard. *)

(* CommitPrefix narrows a row and leaves its slot alone. *)
LEMMA NarrowFacts ==
    ASSUME NEW row \in RowSet, NEW step \in Nat, NEW kept \in Nat, kept <= step,
           step - kept <= row.target
    PROVE  LET t == CommitPrefix(row, step, kept) IN
           /\ t \in RowSet /\ t.target = row.target - (step - kept) /\ t.step = step
           /\ t.kept = kept /\ t.request = row.request /\ t.slot = row.slot
           /\ t.generation = row.generation /\ t.provisional = row.provisional
           /\ t.expected = row.expected
<1> DEFINE n == row.target - (step - kept)
           t == [row EXCEPT !.target = n, !.step = step, !.kept = kept]
           F == {"request", "slot", "generation", "provisional", "expected", "target",
                 "capture", "ckpt", "step", "kept"}
<1>1. n \in Nat
  BY DEF RowSet
<1>2. CommitPrefix(row, step, kept) = t
  BY DEF CommitPrefix
<1> HIDE DEF n
<1>3. DOMAIN row = F /\ row = [f \in F |-> row[f]]
  BY DEF RowSet
<1>4. DOMAIN t = F /\ t = [f \in F |-> t[f]]
  BY <1>3
<1>5. /\ t.target = n /\ t.step = step /\ t.kept = kept /\ t.request = row.request
      /\ t.slot = row.slot /\ t.generation = row.generation
      /\ t.provisional = row.provisional /\ t.expected = row.expected
      /\ t.capture = row.capture /\ t.ckpt = row.ckpt
  BY <1>3
<1> HIDE DEF t
<1>6. t \in RowSet
  BY <1>1, <1>4, <1>5 DEF RowSet
<1> QED BY <1>2, <1>5, <1>6 DEF n

Descriptor(p, v, i) ==
    [row |-> i, slot |-> v.rows[i].slot, bank |-> Other(p.slot[v.rows[i].slot].active_bank),
     kept |-> v.rows[i].kept, direct |-> v.direct]

Partial(v) == {i \in DOMAIN v.rows : IsPartial(v.rows[i])}

Staged(p, v, q) ==
    /\ IsPool(q) /\ q.slot = p.slot /\ q.index = p.index /\ q.ckpt = p.ckpt
    /\ q.input = p.input /\ q.update = p.update /\ q.healthy = p.healthy /\ q.live = p.live
    /\ q.replay = {Descriptor(p, v, i) : i \in Partial(v)}
    /\ \A s \in Slots : q.bank[s][p.slot[s].active_bank] = p.bank[s][p.slot[s].active_bank]
    /\ \A i \in DOMAIN v.rows : ~IsPartial(v.rows[i]) =>
         LET s == v.rows[i].slot
             b == Other(p.slot[s].active_bank)
         IN  q.bank[s][b] = IF v.direct THEN p.bank[s][b] ELSE p.output[i]

(* PrepareCommit stages whole rows, and defers exactly the partial ones. *)
LEMMA StageFacts ==
    ASSUME NEW p, IsPool(p), p.replay = {}, NEW v \in ReservationSet,
           \A i, j \in DOMAIN v.rows : v.rows[i].slot = v.rows[j].slot => i = j
    PROVE  Staged(p, v, StageRows(p, v))
<1> DEFINE f == FlushDeferredReplay(p)
           whole == {v.rows[i].slot : i \in {j \in DOMAIN v.rows : ~IsPartial(v.rows[j])}}
           T == IF v.direct THEN {} ELSE whole
           X == [s \in Slots |-> p.output[RowAt(v.rows, s)]]
           B == [s \in Slots |->
                  IF s \in T THEN [p.bank[s] EXCEPT ![Other(p.slot[s].active_bank)] = X[s]]
                  ELSE p.bank[s]]
           C == [s \in Slots |->
                  IF ~v.direct /\ s \in whole
                  THEN [f.bank[s] EXCEPT ![Other(p.slot[s].active_bank)] =
                          p.output[RowAt(v.rows, s)]]
                  ELSE f.bank[s]]
           D == {Descriptor(p, v, i) : i \in Partial(v)}
           w == WriteHidden(p, T, X, p.healthy)
           q == StageRows(p, v)
<1>1. /\ IsPool(f) /\ f.replay = {} /\ f.slot = p.slot /\ f.index = p.index /\ f.ckpt = p.ckpt
      /\ f.input = p.input /\ f.output = p.output /\ f.update = p.update
      /\ f.healthy = p.healthy /\ f.live = p.live /\ f.views = p.views
  <2>1. Flushed(p, f)
    BY FlushFields
  <2> HIDE DEF f
  <2> QED BY <2>1 DEF Flushed
<1>2. f.bank = p.bank
  BY NoReplay
<1>3. q = [f EXCEPT !.bank = C, !.replay = D]
  BY DEF StageRows, Descriptor, Partial
<1> HIDE DEF f
<1>4. C = B
  <2> HIDE DEF whole
  <2> QED BY <1>2
<1>5. \A i \in DOMAIN v.rows : /\ v.rows[i] \in RowSet /\ v.rows[i].slot \in Slots
                               /\ v.rows[i].kept \in Nat /\ i \in Nat
                               /\ RowAt(v.rows, v.rows[i].slot) = i
  <2>1. \A i \in DOMAIN v.rows : v.rows[i] \in RowSet /\ i \in Nat
    BY DEF ReservationSet
  <2> QED BY <2>1, RowAtFacts DEF RowSet
<1>6. w = [p EXCEPT !.bank = B, !.healthy = p.healthy]
  BY DEF WriteHidden
<1>7. \A i \in DOMAIN v.rows : ~IsPartial(v.rows[i]) /\ ~v.direct =>
            v.rows[i].slot \in T /\ X[v.rows[i].slot] = p.output[i]
  BY <1>5
<1>8. v.direct => T = {}
  OBVIOUS
<1>9. p.healthy \in BOOLEAN
  BY DEF IsPool
<1> HIDE DEF T, X
<1>10. HiddenWritten(p, T, X, p.healthy, w)
  BY <1>9, HiddenWrite
<1>11. D \subseteq ReplaySet
  <2>1. ASSUME NEW i \in Partial(v) PROVE Descriptor(p, v, i) \in ReplaySet
    <3>1. i \in DOMAIN v.rows
      BY DEF Partial
    <3>2. Other(p.slot[v.rows[i].slot].active_bank) \in Banks
      BY <1>5, <3>1, ActiveBank, OtherBank
    <3>3. v.direct \in BOOLEAN
      BY DEF ReservationSet
    <3> QED BY <1>5, <3>1, <3>2, <3>3 DEF Descriptor, ReplaySet
  <2> QED BY <2>1
<1> HIDE DEF B, C, D, w, q
<1>12. w.bank = B
  BY <1>6 DEF IsPool, PoolFields
<1>13. /\ q.bank = B /\ q.replay = D /\ q.slot = f.slot /\ q.index = f.index /\ q.ckpt = f.ckpt
       /\ q.input = f.input /\ q.update = f.update /\ q.healthy = f.healthy
       /\ q.live = f.live /\ q.views = f.views
       /\ DOMAIN q = PoolFields /\ q = [x \in PoolFields |-> q[x]]
  BY <1>1, <1>3, <1>4 DEF IsPool, PoolFields
<1>14. B = [s \in Slots |-> [b \in Banks |-> B[s][b]]]
  BY <1>10, <1>12 DEF HiddenWritten, IsPool
<1>15. IsPool(q)
  BY <1>1, <1>11, <1>13, <1>14 DEF IsPool
<1>16. /\ \A s \in Slots : q.bank[s][p.slot[s].active_bank] = p.bank[s][p.slot[s].active_bank]
       /\ \A s \in Slots : s \in T => q.bank[s][Other(p.slot[s].active_bank)] = X[s]
       /\ \A s \in Slots : s \notin T => q.bank[s] = p.bank[s]
  BY <1>10, <1>12, <1>13 DEF HiddenWritten
<1>17. ASSUME NEW i \in DOMAIN v.rows, ~IsPartial(v.rows[i])
       PROVE  LET s == v.rows[i].slot
                  b == Other(p.slot[s].active_bank)
              IN  q.bank[s][b] = IF v.direct THEN p.bank[s][b] ELSE p.output[i]
  <2>1. v.rows[i].slot \in Slots
    BY <1>5
  <2>2. CASE v.direct
    BY <1>8, <1>16, <2>1, <2>2
  <2>3. CASE ~v.direct
    BY <1>7, <1>16, <1>17, <2>1, <2>3
  <2> QED BY <2>2, <2>3
<1>18. Staged(p, v, q)
  BY <1>1, <1>13, <1>15, <1>16, <1>17 DEF Staged, D
<1> QED BY <1>18 DEF q

(* The record of a slot after the flip. *)
LEMMA PublishedFacts ==
    ASSUME NEW slot \in SlotSet, NEW row \in RowSet
    PROVE  LET t == PublishedSlot(slot, row) IN
           /\ t \in SlotSet /\ t.request = slot.request /\ t.generation = slot.generation
           /\ t.committed_tokens = row.target /\ t.ownership = "Committed"
           /\ t.active_bank = Other(slot.active_bank)
<1>1. Other(slot.active_bank) \in Banks
  BY OtherBank DEF SlotSet
<1>2. /\ slot.state_generation + 1 \in Nat /\ row.target \in Nat
      /\ slot.request \in Requests \cup {Nobody} /\ slot.generation \in Nat
  BY DEF SlotSet, RowSet
<1>3. PublishedSlot(slot, row) =
        [request |-> slot.request, generation |-> slot.generation,
         state_generation |-> slot.state_generation + 1, committed_tokens |-> row.target,
         active_bank |-> Other(slot.active_bank), ownership |-> "Committed"]
  <2> DEFINE a == Other(slot.active_bank)
             g == slot.state_generation + 1
             n == row.target
             t == [slot EXCEPT !.active_bank = a, !.state_generation = g,
                               !.committed_tokens = n, !.ownership = "Committed"]
             F == {"request", "generation", "state_generation", "committed_tokens",
                   "active_bank", "ownership"}
  <2>1. PublishedSlot(slot, row) = t
    BY DEF PublishedSlot
  <2> HIDE DEF a, g, n
  <2>2. DOMAIN slot = F /\ slot = [f \in F |-> slot[f]]
    BY DEF SlotSet
  <2>3. DOMAIN t = F /\ t = [f \in F |-> t[f]]
    BY <2>2
  <2>4. /\ t.request = slot.request /\ t.generation = slot.generation
        /\ t.state_generation = g /\ t.committed_tokens = n /\ t.active_bank = a
        /\ t.ownership = "Committed"
    BY <2>2
  <2> HIDE DEF t
  <2>5. t = [request |-> slot.request, generation |-> slot.generation, state_generation |-> g,
             committed_tokens |-> n, active_bank |-> a, ownership |-> "Committed"]
    BY <2>3, <2>4
  <2> QED BY <2>1, <2>5 DEF a, g, n
<1> QED BY <1>1, <1>2, <1>3 DEF SlotSet

Published(p, v, q) ==
    /\ IsPool(q) /\ q.ckpt = p.ckpt /\ q.healthy = p.healthy /\ q.live = p.live
    /\ FlushDeferredReplay(q).bank = FlushDeferredReplay(p).bank
    /\ \A i \in DOMAIN v.rows :
         /\ q.slot[v.rows[i].slot] = PublishedSlot(p.slot[v.rows[i].slot], v.rows[i])
         /\ v.rows[i].provisional => q.index[v.rows[i].request] = v.rows[i].slot
    /\ \A s \in Slots : s \notin SlotsOf(v.rows) => q.slot[s] = p.slot[s]
    /\ \A r \in Requests :
         (\A i \in DOMAIN v.rows : v.rows[i].request = r => ~v.rows[i].provisional)
            => q.index[r] = p.index[r]

(* The flip moves the slots of the reservation only, and indexes the new     *)
(* ones.                                                                     *)
LEMMA PublishFacts ==
    ASSUME NEW p, IsPool(p), NEW v \in ReservationSet,
           \A i, j \in DOMAIN v.rows : v.rows[i].slot = v.rows[j].slot => i = j,
           \A i, j \in DOMAIN v.rows : v.rows[i].request = v.rows[j].request => i = j
    PROVE  Published(p, v, PublishCommit(p, v).pool)
<1> DEFINE S == [s \in Slots |->
                   IF s \in SlotsOf(v.rows)
                   THEN PublishedSlot(p.slot[s], v.rows[RowAt(v.rows, s)]) ELSE p.slot[s]]
           I == [r \in Requests |->
                   IF \E i \in DOMAIN v.rows : v.rows[i].request = r /\ v.rows[i].provisional
                   THEN v.rows[RowOf(v.rows, r)].slot ELSE p.index[r]]
           q == PublishCommit(p, v).pool
<1>1. \A i \in DOMAIN v.rows : /\ v.rows[i] \in RowSet /\ v.rows[i].slot \in Slots
                               /\ v.rows[i].request \in Requests
  <2>1. \A i \in DOMAIN v.rows : v.rows[i] \in RowSet
    BY DEF ReservationSet
  <2> QED BY <2>1 DEF RowSet
<1>2. \A i \in DOMAIN v.rows : /\ RowAt(v.rows, v.rows[i].slot) = i
                               /\ RowOf(v.rows, v.rows[i].request) = i
  BY RowAtFacts, RowOfFacts
<1>3. \A i \in DOMAIN v.rows : S[v.rows[i].slot] = PublishedSlot(p.slot[v.rows[i].slot], v.rows[i])
  BY <1>1, <1>2 DEF SlotsOf
<1>4. \A s \in Slots : s \notin SlotsOf(v.rows) => S[s] = p.slot[s]
  OBVIOUS
<1>5. \A i \in DOMAIN v.rows : v.rows[i].provisional => I[v.rows[i].request] = v.rows[i].slot
  BY <1>1, <1>2
<1>6. \A r \in Requests :
         (\A i \in DOMAIN v.rows : v.rows[i].request = r => ~v.rows[i].provisional)
            => I[r] = p.index[r]
  OBVIOUS
<1>7. S \in [Slots -> SlotSet]
  <2>1. ASSUME NEW s \in Slots PROVE S[s] \in SlotSet
    <3>1. p.slot[s] \in SlotSet
      BY ActiveBank
    <3>2. CASE s \in SlotsOf(v.rows)
      <4>1. PICK i \in DOMAIN v.rows : v.rows[i].slot = s
        BY <3>2 DEF SlotsOf
      <4>2. PublishedSlot(p.slot[s], v.rows[i]) \in SlotSet
        BY <1>1, <3>1, <4>1, PublishedFacts
      <4> HIDE DEF S
      <4> QED BY <1>3, <4>1, <4>2
    <3> QED BY <1>4, <3>1, <3>2
  <2>2. S = [s \in Slots |-> S[s]]
    OBVIOUS
  <2> HIDE DEF S
  <2> QED BY <2>1, <2>2
<1>8. I \in [Requests -> Slots \cup {NoSlot}]
  <2>1. ASSUME NEW r \in Requests PROVE I[r] \in Slots \cup {NoSlot}
    <3>1. p.index[r] \in Slots \cup {NoSlot}
      BY DEF IsPool
    <3>2. CASE \A i \in DOMAIN v.rows : v.rows[i].request = r => ~v.rows[i].provisional
      <4> HIDE DEF I
      <4> QED BY <1>6, <3>1, <3>2
    <3>3. ASSUME NEW i \in DOMAIN v.rows, v.rows[i].request = r, v.rows[i].provisional
          PROVE  I[r] \in Slots
      <4> HIDE DEF I
      <4> QED BY <1>1, <1>5, <3>3
    <3> HIDE DEF I
    <3> QED BY <3>2, <3>3
  <2>2. I = [r \in Requests |-> I[r]]
    OBVIOUS
  <2> HIDE DEF I
  <2> QED BY <2>1, <2>2
<1>9. q = [p EXCEPT !.slot = S, !.index = I]
  BY DEF PublishCommit
<1> HIDE DEF S, I, q
<1>10. /\ q.slot = S /\ q.index = I /\ q.ckpt = p.ckpt /\ q.bank = p.bank /\ q.replay = p.replay
       /\ q.input = p.input /\ q.update = p.update /\ q.healthy = p.healthy
       /\ q.live = p.live /\ q.views = p.views
       /\ DOMAIN q = PoolFields /\ q = [f \in PoolFields |-> q[f]]
  BY <1>9 DEF IsPool, PoolFields
<1>11. IsPool(q)
  BY <1>7, <1>8, <1>10 DEF IsPool
<1>12. FlushDeferredReplay(q).bank = FlushDeferredReplay(p).bank
  BY <1>10, <1>11, SameRows
<1>13. Published(p, v, q)
  BY <1>3, <1>4, <1>5, <1>6, <1>10, <1>11, <1>12 DEF Published
<1> QED BY <1>13 DEF q

Finished(p, q) ==
    /\ IsPool(q) /\ q.live = FALSE /\ q.slot = p.slot /\ q.index = p.index
    /\ q.ckpt = p.ckpt /\ q.bank = p.bank /\ q.replay = p.replay
    /\ q.healthy = p.healthy /\ q.views = p.views
    /\ FlushDeferredReplay(q).bank = FlushDeferredReplay(p).bank

(* Returning the lock loses nothing a reader or a pending replay needs. *)
LEMMA FinishFacts ==
    ASSUME NEW p, IsPool(p)
    PROVE  Finished(p, Finish(p))
<1> DEFINE q == Finish(p)
<1>1. /\ IsPool(q) /\ q.live = FALSE /\ q.slot = p.slot /\ q.index = p.index
      /\ q.ckpt = p.ckpt /\ q.bank = p.bank /\ q.replay = p.replay
      /\ q.healthy = p.healthy /\ q.views = p.views
  BY DEF Finish, IsPool, PoolFields
<1>2. p.replay # {} => q.input = p.input /\ q.update = p.update
  BY DEF Finish, IsPool, PoolFields
<1> HIDE DEF q
<1>3. Finished(p, q)
  BY <1>1, <1>2, SameRows DEF Finished
<1> QED BY <1>3 DEF q

(* The slots a reservation made Reserved. *)
IsProvisional(p, v, s) ==
    \E i \in DOMAIN v.rows :
        /\ v.rows[i].provisional /\ v.rows[i].slot = s
        /\ p.slot[s].ownership = "Reserved"
        /\ p.slot[s].request = v.rows[i].request
        /\ p.slot[s].generation = v.rows[i].generation

(* ReleaseProvisionalSlots frees the provisional slots only. *)
LEMMA ReleaseFacts ==
    ASSUME NEW p, IsPool(p), NEW v, NEW q, q = ReleaseProvisionalSlots(p, v)
    PROVE  /\ IsPool(q) /\ q.live = p.live /\ q.index = p.index /\ q.ckpt = p.ckpt
           /\ q.bank = p.bank /\ q.replay = p.replay /\ q.input = p.input
           /\ q.update = p.update /\ q.healthy = p.healthy /\ q.views = p.views
           /\ q.slot = [s \in Slots |->
                IF IsProvisional(p, v, s)
                THEN FreeSlot(p.slot[s].generation, p.slot[s].active_bank) ELSE p.slot[s]]
<1> DEFINE X == [s \in Slots |->
                IF IsProvisional(p, v, s)
                THEN FreeSlot(p.slot[s].generation, p.slot[s].active_bank) ELSE p.slot[s]]
<1>1. q = [p EXCEPT !.slot = X]
  BY DEF ReleaseProvisionalSlots, IsProvisional
<1>2. X \in [Slots -> SlotSet]
  BY DEF IsPool, SlotSet, FreeSlot
<1> HIDE DEF X
<1>3. IsPool(q) /\ q.slot = X
  BY <1>1, <1>2 DEF IsPool, PoolFields
<1>4. /\ q.live = p.live /\ q.index = p.index /\ q.ckpt = p.ckpt
      /\ q.bank = p.bank /\ q.replay = p.replay /\ q.input = p.input
      /\ q.update = p.update /\ q.healthy = p.healthy /\ q.views = p.views
  BY <1>1 DEF IsPool, PoolFields
<1> QED BY <1>3, <1>4 DEF X

-----------------------------------------------------------------------------
(* Release and checkpoints. *)

Released(p, r, q) ==
    /\ IsPool(q) /\ q.live = p.live /\ q.ckpt = p.ckpt /\ q.healthy = p.healthy
    /\ FlushDeferredReplay(q).bank = FlushDeferredReplay(p).bank
    /\ q.index = [p.index EXCEPT ![r] = NoSlot]
    /\ q.slot = [p.slot EXCEPT ![p.index[r]] =
         FreeSlot(p.slot[p.index[r]].generation, p.slot[p.index[r]].active_bank)]

(* Releasing a committed slot frees that slot and its index entry only. *)
LEMMA ReleaseValidatedFacts ==
    ASSUME NEW p, IsPool(p), NEW r \in Requests, p.index[r] \in Slots
    PROVE  Released(p, r, ReleaseValidated(p, r))
<1> DEFINE q == ReleaseValidated(p, r)
<1> DEFINE X == [p.slot EXCEPT ![p.index[r]] =
                FreeSlot(p.slot[p.index[r]].generation, p.slot[p.index[r]].active_bank)]
           I == [p.index EXCEPT ![r] = NoSlot]
<1>1. q = [p EXCEPT !.slot = X, !.index = I]
  BY DEF ReleaseValidated, IsPool, PoolFields
<1>2. X \in [Slots -> SlotSet]
  BY DEF IsPool, SlotSet, FreeSlot
<1>3. I \in [Requests -> Slots \cup {NoSlot}]
  BY DEF IsPool
<1> HIDE DEF X, I, q
<1>5. /\ q.live = p.live /\ q.ckpt = p.ckpt /\ q.healthy = p.healthy /\ q.views = p.views
      /\ q.bank = p.bank /\ q.replay = p.replay /\ q.input = p.input /\ q.update = p.update
      /\ q.slot = X /\ q.index = I
      /\ DOMAIN q = PoolFields /\ q = [f \in PoolFields |-> q[f]]
  BY <1>1 DEF IsPool, PoolFields
<1>4. IsPool(q)
  BY <1>2, <1>3, <1>5 DEF IsPool
<1>6. FlushDeferredReplay(q).bank = FlushDeferredReplay(p).bank
  BY <1>4, <1>5, SameRows
<1>7. Released(p, r, q)
  BY <1>4, <1>5, <1>6 DEF Released, X, I
<1> QED BY <1>7 DEF q

(* A pool in which only the checkpoint rows and the pending replays differ. *)
Rowwise(p, q) ==
    /\ IsPool(q) /\ q.slot = p.slot /\ q.index = p.index /\ q.live = p.live
    /\ q.healthy = p.healthy /\ q.views = p.views
    /\ FlushDeferredReplay(q).bank = FlushDeferredReplay(p).bank

(* Releasing a checkpoint row touches that row only. *)
LEMMA DropFacts ==
    ASSUME NEW p, IsPool(p), NEW h, h.row \in Checkpoints, p.ckpt[h.row].occupied,
           p.ckpt[h.row].generation = h.generation,
           NEW q, q = ReleasePrefixCheckpoint(p, h)
    PROVE  /\ Rowwise(p, q)
           /\ \A c \in Checkpoints : c # h.row => q.ckpt[c] = p.ckpt[c]
           /\ ~q.ckpt[h.row].occupied
<1> DEFINE K == [p.ckpt EXCEPT ![h.row] = [p.ckpt[h.row] EXCEPT !.occupied = FALSE, !.count = 0]]
<1>1. p.ckpt \in [Checkpoints -> CheckpointSet]
  BY DEF IsPool
<1>2. q = [p EXCEPT !.ckpt = K]
  BY <1>1 DEF ReleasePrefixCheckpoint, IsPool, PoolFields, CheckpointSet
<1>3. K \in [Checkpoints -> CheckpointSet] /\ ~K[h.row].occupied
      /\ \A c \in Checkpoints : c # h.row => K[c] = p.ckpt[c]
  BY <1>1 DEF CheckpointSet
<1> HIDE DEF K
<1>4. /\ q.ckpt = K /\ q.slot = p.slot /\ q.index = p.index /\ q.live = p.live
      /\ q.healthy = p.healthy /\ q.views = p.views /\ q.bank = p.bank /\ q.replay = p.replay
      /\ q.input = p.input /\ q.update = p.update
      /\ DOMAIN q = PoolFields /\ q = [f \in PoolFields |-> q[f]]
  BY <1>2 DEF IsPool, PoolFields
<1>5. IsPool(q)
  BY <1>3, <1>4 DEF IsPool
<1>6. FlushDeferredReplay(q).bank = FlushDeferredReplay(p).bank
  BY <1>4, <1>5, SameRows
<1>7. Rowwise(p, q)
  BY <1>4, <1>5, <1>6 DEF Rowwise
<1> QED BY <1>3, <1>4, <1>7

(* A capture copies the visible row of the request, behind the pending       *)
(* replay.                                                                   *)
LEMMA CaptureFacts ==
    ASSUME NEW p, IsPool(p), NEW r \in Requests, p.index[r] \in Slots, NEW c \in Checkpoints,
           VisibleRow(p, p.index[r]) \in Seq(Int),
           NEW q, q = CapturePrefixCheckpoint(p, r, c).pool,
           NEW h, h = CapturePrefixCheckpoint(p, r, c).handle
    PROVE  /\ Rowwise(p, q)
           /\ \A x \in Checkpoints : x # c => q.ckpt[x] = p.ckpt[x]
           /\ h \in HandleSet /\ h.row = c /\ h.count = CommittedTokens(p, r)
           /\ q.ckpt[c].occupied /\ q.ckpt[c].generation = h.generation
           /\ q.ckpt[c].count = h.count /\ q.ckpt[c].row = VisibleRow(p, p.index[r])
<1> DEFINE f == FlushDeferredReplay(p)
           row == VisibleRow(p, p.index[r])
           k == [generation |-> h.generation, count |-> h.count, occupied |-> TRUE, row |-> row]
           K == [p.ckpt EXCEPT ![c] = k]
<1>1. /\ p.ckpt \in [Checkpoints -> CheckpointSet]
      /\ p.ckpt[c].generation \in Nat /\ CommittedTokens(p, r) \in Nat
  BY DEF IsPool, CheckpointSet, SlotSet, CommittedTokens
<1>2. h = [row |-> c, generation |-> p.ckpt[c].generation + 1, count |-> CommittedTokens(p, r)]
  BY DEF CapturePrefixCheckpoint, CommittedTokens
<1>3. /\ h \in HandleSet /\ h.row = c /\ h.count = CommittedTokens(p, r)
      /\ h.generation \in Nat
  BY <1>1, <1>2, PoolAssumption DEF HandleSet, Checkpoints
<1>4. /\ IsPool(f) /\ f.replay = {} /\ f.slot = p.slot /\ f.index = p.index /\ f.ckpt = p.ckpt
      /\ f.healthy = p.healthy /\ f.live = p.live /\ f.views = p.views
  BY FlushFacts
<1>5. f.bank[p.index[r]][p.slot[p.index[r]].active_bank] = row
  BY DEF VisibleRow
<1>6. q = [f EXCEPT !.ckpt = [f.ckpt EXCEPT ![c] = k]]
  BY <1>1, <1>2, <1>4, <1>5 DEF CapturePrefixCheckpoint, CommittedTokens, IsPool, PoolFields
<1>7. q = [f EXCEPT !.ckpt = K]
  BY <1>4, <1>6
<1>8. /\ k \in CheckpointSet /\ k.occupied /\ k.generation = h.generation
      /\ k.count = h.count /\ k.row = row
  BY <1>1, <1>3 DEF CheckpointSet
<1> HIDE DEF f, k
<1>9. K \in [Checkpoints -> CheckpointSet] /\ K[c] = k
      /\ \A x \in Checkpoints : x # c => K[x] = p.ckpt[x]
  BY <1>1, <1>8
<1> HIDE DEF K
<1>10. /\ q.ckpt = K /\ q.slot = f.slot /\ q.index = f.index /\ q.live = f.live
       /\ q.healthy = f.healthy /\ q.views = f.views /\ q.bank = f.bank /\ q.replay = f.replay
       /\ DOMAIN q = PoolFields /\ q = [x \in PoolFields |-> q[x]]
  BY <1>4, <1>7 DEF IsPool, PoolFields
<1>11. IsPool(q)
  BY <1>4, <1>9, <1>10 DEF IsPool
<1>12. FlushDeferredReplay(q).bank = FlushDeferredReplay(p).bank
  BY <1>4, <1>10, <1>11, NoReplay DEF f
<1>13. Rowwise(p, q)
  BY <1>4, <1>10, <1>11, <1>12 DEF Rowwise
<1> HIDE DEF row
<1>14. \A x \in Checkpoints : x # c => q.ckpt[x] = p.ckpt[x]
  BY <1>9, <1>10
<1>15. q.ckpt[c] = k
  BY <1>9, <1>10
<1>16. /\ q.ckpt[c].occupied /\ q.ckpt[c].generation = h.generation
       /\ q.ckpt[c].count = h.count /\ q.ckpt[c].row = row
  BY <1>8, <1>15
<1> QED BY <1>3, <1>13, <1>14, <1>16 DEF row

(* A capture that fails tears its own row only. *)
LEMMA CaptureFailedFacts ==
    ASSUME NEW p, IsPool(p), NEW c \in Checkpoints
    PROVE  LET q == CaptureFailed([p EXCEPT !.ckpt[c].occupied = FALSE], c) IN
           /\ IsPool(q) /\ q.slot = p.slot /\ q.index = p.index
           /\ FlushDeferredReplay(q).bank = FlushDeferredReplay(p).bank
           /\ \A x \in Checkpoints : x # c => q.ckpt[x] = p.ckpt[x]
<1> DEFINE K == [p.ckpt EXCEPT ![c] = [p.ckpt[c] EXCEPT !.occupied = FALSE]]
           a == [p EXCEPT !.ckpt = K]
           f == FlushDeferredReplay(a)
           L == [K EXCEPT ![c] = [K[c] EXCEPT !.row = Garbage]]
           q == [f EXCEPT !.healthy = FALSE, !.ckpt = L]
<1>1. p.ckpt \in [Checkpoints -> CheckpointSet]
  BY DEF IsPool
<1>2. K \in [Checkpoints -> CheckpointSet] /\ \A x \in Checkpoints : x # c => K[x] = p.ckpt[x]
  BY <1>1 DEF CheckpointSet
<1>3. a = [p EXCEPT !.ckpt[c].occupied = FALSE]
  BY <1>1 DEF IsPool, PoolFields
<1> HIDE DEF K
<1>4. L \in [Checkpoints -> CheckpointSet] /\ \A x \in Checkpoints : x # c => L[x] = K[x]
  <2>1. Garbage \in Seq(Int)
    BY DEF Garbage
  <2> QED BY <1>2, <2>1 DEF CheckpointSet
<1>5. /\ a.ckpt = K /\ a.slot = p.slot /\ a.index = p.index /\ a.live = p.live
      /\ a.healthy = p.healthy /\ a.views = p.views /\ a.bank = p.bank /\ a.replay = p.replay
      /\ a.input = p.input /\ a.update = p.update
      /\ DOMAIN a = PoolFields /\ a = [x \in PoolFields |-> a[x]]
  BY DEF IsPool, PoolFields
<1>6. IsPool(a)
  <2> HIDE DEF a
  <2> QED BY <1>2, <1>5 DEF IsPool
<1>7. FlushDeferredReplay(a).bank = FlushDeferredReplay(p).bank
  <2> HIDE DEF a
  <2> QED BY <1>5, <1>6, SameRows
<1> HIDE DEF a
<1>8. /\ IsPool(f) /\ f.replay = {} /\ f.slot = a.slot /\ f.index = a.index /\ f.ckpt = a.ckpt
      /\ f.live = a.live /\ f.views = a.views
  BY <1>6, FlushFacts
<1>9. CaptureFailed(a, c) = q
  <2>1. CaptureFailed(a, c) = [f EXCEPT !.healthy = FALSE, !.ckpt[c].row = Garbage]
    BY DEF CaptureFailed
  <2> HIDE DEF f
  <2> QED BY <1>5, <1>8, <2>1 DEF IsPool, PoolFields
<1> HIDE DEF f, L
<1>10. /\ q.ckpt = L /\ q.slot = f.slot /\ q.index = f.index /\ q.live = f.live
       /\ q.healthy = FALSE /\ q.views = f.views /\ q.bank = f.bank /\ q.replay = f.replay
       /\ DOMAIN q = PoolFields /\ q = [x \in PoolFields |-> q[x]]
  BY <1>8 DEF IsPool, PoolFields
<1> HIDE DEF q
<1>11. IsPool(q)
  BY <1>4, <1>8, <1>10 DEF IsPool
<1>12. FlushDeferredReplay(q).bank = FlushDeferredReplay(p).bank
  BY <1>7, <1>8, <1>10, <1>11, NoReplay DEF f
<1>13. \A x \in Checkpoints : x # c => q.ckpt[x] = p.ckpt[x]
  BY <1>2, <1>4, <1>10
<1> QED BY <1>3, <1>5, <1>8, <1>9, <1>10, <1>11, <1>12, <1>13
-----------------------------------------------------------------------------
(***************************************************************************)
(* The step of the engine.                                                 *)
(***************************************************************************)

(* Phases in which a reservation is open, and those of them before and       *)
(* after the flip of the banks.                                              *)
Flipping == {"reserved", "executed", "accepted", "prepared", "published"}

Flipped == {"committed", "sealing"}

Open == Flipping \cup Flipped

EntrySet == [request : Requests, newly : BOOLEAN, prefill : BOOLEAN, ckpt : HandleSet,
             start : Nat, count : Nat \ {0}, drafts : Nat, good : Nat, before : Nat]

EndpointSet == [ckpt : HandleSet, tokens : Seq(Int)]

(* The typing; generations have no bound here. *)
Types ==
    /\ config \in Configurations
    /\ IsPool(pool) /\ res \in ReservationSet
    /\ paged \in [Requests -> Nat \cup {NoTable}]
    /\ target \in [Requests -> Nat \cup {NoTable}]
    /\ resident \subseteq Requests
    /\ length \in [Requests -> Nat] /\ processed \in [Requests -> Nat]
    /\ plan \in Seq(EntrySet) /\ endpoints \subseteq EndpointSet
    /\ phase \in {"idle", "planned", "dead"} \cup Open

(* The engine is healthy until it is dead, and no check of the code fired. *)
Control ==
    /\ phase # "dead" => fault = NoFault /\ pool.healthy
    /\ ContractHolds
    /\ pool.live <=> phase \in Open
    /\ phase \in {"reserved", "executed", "accepted"} => res.state = "Reserved"
    /\ phase \in {"prepared", "published"} => res.state = "Prepared"
    /\ phase \in Flipped => res.state = "Committed"

(* A request is in its prompt, or exactly one token is not processed yet. *)
Progress ==
    \A r \in Requests :
        /\ length[r] = 0 => processed[r] = 0
        /\ length[r] # 0 =>
            /\ r \in DOMAIN Stream /\ length[r] <= Len(Stream[r])
            /\ \/ processed[r] < Prompt[r] /\ length[r] = Prompt[r]
               \/ processed[r] >= Prompt[r] /\ length[r] = processed[r] + 1
        /\ r \notin resident => processed[r] = 0

(* Where the paged table and the committed slot of a request are. *)
Boundaries ==
    \A r \in Requests :
        /\ OwnsCommittedSlot(pool, r) <=> r \in resident
        /\ (phase # "published" \/ ~IsPlanned(r)) =>
            /\ r \in resident => paged[r] = CommittedTokens(pool, r)
            /\ r \notin resident => paged[r] = NoTable
        /\ phase = "published" /\ IsPlanned(r) => paged[r] = target[r]
        /\ r \in resident =>
            /\ phase \notin {"published", "committed", "dead"} => paged[r] = processed[r]
            /\ phase \in {"published", "committed"} /\ ~IsPlanned(r) => paged[r] = processed[r]
        /\ paged[r] # NoTable => r \in DOMAIN Stream /\ paged[r] <= Len(Stream[r])

(* Every slot has one owner, and is reserved only while a step is open. *)
Slotting ==
    /\ SlotsAreOwnedOnce
    /\ \A s \in Slots : pool.slot[s].ownership = "Reserved" => phase \in Flipping
    /\ \A s \in Slots : pool.slot[s].ownership = "Committed" => pool.slot[s].request \in Requests

(* What a planned row may ask for. *)
Feasible(e) ==
    /\ e.request \in DOMAIN Stream
    /\ e.before = length[e.request] /\ e.before # 0
    /\ e.prefill <=> processed[e.request] < Prompt[e.request]
    /\ e.start + e.count <= e.before
    /\ e.prefill => e.drafts = 0
    /\ ~e.prefill => e.start + e.count = e.before
    /\ e.good <= e.drafts
    /\ e.before + e.drafts < Len(Stream[e.request])
    /\ e.newly => e.start = e.ckpt.count
    /\ ~e.newly => e.ckpt = NoCheckpoint /\ e.start = processed[e.request]

(* The plan has distinct requests, every one still as it was planned. *)
Planning ==
    /\ \A i, j \in Rows : plan[i].request = plan[j].request => i = j
    /\ phase \in {"planned", "committed"} \cup Flipping => \A i \in Rows : Feasible(plan[i])
    /\ phase \in {"planned"} \cup Flipping =>
        \A i \in Rows : plan[i].newly <=> plan[i].request \notin resident
    /\ phase = "committed" => \A i \in Rows :
        LET e == plan[i] IN paged[e.request] \in e.start + e.count .. e.start + e.count + e.drafts
    /\ phase \in Flipped => \A i \in Rows : plan[i].request \in resident
    /\ phase = "planned" =>
        /\ Len(plan) \in 1 .. Capacity
        /\ Cardinality({i \in Rows : plan[i].newly}) <= AvailableSlots(pool)

(* How a row is narrowed to the drafts that were accepted. *)
Narrowed(row, e) ==
    \/ /\ phase \in {"reserved", "executed"} \/ e.drafts = 0
       /\ row.target = e.start + e.count + e.drafts
       /\ row.capture = e.drafts /\ row.kept = 0 /\ row.step = 0
    \/ /\ phase \notin {"reserved", "executed"} /\ e.drafts # 0
       /\ row.kept \in e.count .. e.count + e.good
       /\ row.step = e.count + e.drafts
       /\ row.target = e.start + row.kept

(* A row of the reservation holds the slot it was planned with. *)
Holds(row, slot, e) ==
    /\ row.request = e.request /\ row.provisional = e.newly
    /\ slot.request = row.request /\ slot.generation = row.generation
    /\ slot.state_generation = row.expected
    /\ slot.ownership = IF row.provisional THEN "Reserved" ELSE "Committed"
    /\ slot.committed_tokens = e.start

(* The reservation has the rows of the plan, each on a slot of its own. *)
Reserving ==
    phase \in Flipping =>
        /\ DOMAIN res.rows = Rows
        /\ \A i, j \in Rows : res.rows[i].slot = res.rows[j].slot => i = j
        /\ \A i \in Rows :
            /\ Holds(res.rows[i], pool.slot[res.rows[i].slot], plan[i])
            /\ Narrowed(res.rows[i], plan[i])
            /\ target[plan[i].request] = res.rows[i].target
            /\ plan[i].drafts # 0 => res.captures
            /\ res.direct => ~plan[i].newly
        /\ \A r \in Requests : ~IsPlanned(r) => target[r] = NoTable

(* The state the run computes for a row: all its tokens, drafts included. *)
RunOutput(e) == Prefix(e.request, e.start) \o RunTokens(e)

(* What the run has read and written, and what PrepareCommit has staged. *)
Contents ==
    /\ phase \in Flipping /\ ~res.direct =>
        \A i \in Rows : pool.input[i] = Prefix(plan[i].request, plan[i].start)
    /\ phase \in {"reserved", "executed", "accepted"} => pool.replay = {}
    /\ phase \in {"executed", "accepted"} =>
        \A i \in Rows :
            /\ plan[i].drafts # 0 => pool.update[i] = RunTokens(plan[i])
            /\ ~res.direct => pool.output[i] = RunOutput(plan[i])
            /\ res.direct => HiddenRow(pool, res.rows[i].slot) = RunOutput(plan[i])
    /\ phase \in {"prepared", "published"} =>
        /\ \A d \in pool.replay : d.bank = Other(pool.slot[d.slot].active_bank)
        /\ \A i \in Rows : HiddenRow(pool, res.rows[i].slot) =
                               Prefix(plan[i].request, res.rows[i].target)

(* Endpoints hold their checkpoint rows, and a planned row leases one. *)
Filing ==
    /\ \A e \in endpoints :
        /\ ValidCheckpoint(pool, e.ckpt)
        /\ e.ckpt.count = Len(e.tokens)
        /\ pool.ckpt[e.ckpt.row].row = e.tokens
    /\ \A i \in Rows : plan[i].ckpt # NoCheckpoint =>
        \E e \in endpoints : /\ e.ckpt = plan[i].ckpt
                             /\ e.tokens = Prefix(plan[i].request, e.ckpt.count)
    /\ phase # "dead" =>
        \A c \in Checkpoints : pool.ckpt[c].occupied => \E e \in endpoints : e.ckpt.row = c

(* The inductive invariant. *)
HybridInv ==
    /\ Types /\ Control /\ Progress /\ Boundaries /\ Slotting /\ Planning /\ Reserving
    /\ Contents /\ VisibleStateIsCommitted /\ Filing

-----------------------------------------------------------------------------
(* Unwinding a reservation. *)

(* Unwinding a reservation frees its provisional slots and drops what it     *)
(* staged; what a reader of another slot sees is not touched.                *)
Unwound(p, v, q) ==
    /\ IsPool(q) /\ q.live = FALSE /\ q.index = p.index /\ q.ckpt = p.ckpt
    /\ q.bank = p.bank /\ q.healthy = p.healthy
    /\ q.slot = [s \in Slots |->
         IF IsProvisional(p, v, s)
         THEN FreeSlot(p.slot[s].generation, p.slot[s].active_bank) ELSE p.slot[s]]
    /\ v.state = "Prepared" => q.replay = {}
    /\ v.state # "Prepared" => /\ q.replay = p.replay
                               /\ FlushDeferredReplay(q).bank = FlushDeferredReplay(p).bank

(* What is left of a pool after Unwind. *)
LEMMA UnwindFacts ==
    ASSUME NEW p, IsPool(p), NEW v, v.state \in {"Reserved", "Prepared", "Committed"}
    PROVE  Unwound(p, v, Unwind(p, v))
<1> DEFINE q == Unwind(p, v)
<1> DEFINE a == IF v.state = "Prepared" THEN [p EXCEPT !.replay = {}] ELSE p
           b == ReleaseProvisionalSlots(a, v)
<1>1. q = Finish(b)
  BY DEF Unwind, Discard
<1>2. /\ IsPool(a) /\ a.slot = p.slot /\ a.live = p.live /\ a.index = p.index /\ a.ckpt = p.ckpt
      /\ a.bank = p.bank /\ a.input = p.input
      /\ a.update = p.update /\ a.healthy = p.healthy /\ a.views = p.views
      /\ a.replay = IF v.state = "Prepared" THEN {} ELSE p.replay
  BY DEF IsPool, PoolFields
<1>3. \A s \in Slots : IsProvisional(a, v, s) <=> IsProvisional(p, v, s)
  BY <1>2 DEF IsProvisional
<1> HIDE DEF a
<1>4. /\ IsPool(b) /\ b.index = p.index /\ b.ckpt = p.ckpt
      /\ b.bank = p.bank /\ b.replay = a.replay /\ b.input = p.input
      /\ b.update = p.update /\ b.healthy = p.healthy /\ b.views = p.views
      /\ b.slot = [s \in Slots |->
                IF IsProvisional(p, v, s)
                THEN FreeSlot(p.slot[s].generation, p.slot[s].active_bank) ELSE p.slot[s]]
  BY <1>2, <1>3, ReleaseFacts
<1> HIDE DEF b
<1>5. v.state # "Prepared" => FlushDeferredReplay(b).bank = FlushDeferredReplay(p).bank
  BY <1>2, <1>4, SameRows
<1>6. /\ IsPool(q) /\ q.live = FALSE /\ q.slot = b.slot /\ q.index = b.index
      /\ q.ckpt = b.ckpt /\ q.bank = b.bank /\ q.replay = b.replay
      /\ q.healthy = b.healthy /\ q.views = b.views
      /\ FlushDeferredReplay(q).bank = FlushDeferredReplay(b).bank
  <2>1. Finished(b, q)
    BY <1>1, <1>4, FinishFacts
  <2> HIDE DEF q
  <2> QED BY <2>1 DEF Finished
<1> HIDE DEF q
<1>7. Unwound(p, v, q)
  BY <1>2, <1>4, <1>5, <1>6 DEF Unwound
<1> QED BY <1>7 DEF q

-----------------------------------------------------------------------------
(* Ending a step that is not committed. *)

(* The invariant holds before the first request. *)
LEMMA InitHybridInv ==
    ASSUME Init
    PROVE  HybridInv
<1> USE DEF Init
<1>1. plan = <<>> /\ Rows = {} /\ Len(plan) = 0
  BY DEF Rows
<1>2. IsPool(pool)
  <2>1. config.views \in BOOLEAN
    BY StepAssumption
  <2>2. pool.slot \in [Slots -> SlotSet]
    BY DEF EmptyPool, FreeSlot, SlotSet, Banks
  <2>3. pool.ckpt \in [Checkpoints -> CheckpointSet]
    BY DEF EmptyPool, CheckpointSet, Garbage
  <2>4. pool.bank = [s \in Slots |-> [b \in Banks |-> pool.bank[s][b]]]
    BY DEF EmptyPool
  <2> QED BY <2>1, <2>2, <2>3, <2>4 DEF EmptyPool, IsPool, PoolFields
<1>3. Types
  BY <1>1, <1>2 DEF Types, NoReservation, ReservationSet, NoTable
<1>4. Control
  BY DEF Control, EmptyPool, ContractHolds, Open, Flipping, Flipped, NoFault
<1>5. Progress
  BY DEF Progress
<1>6. Boundaries
  BY <1>1 DEF Boundaries, EmptyPool, OwnsCommittedSlot, NoTable, NoSlot, IsPlanned
<1>7. Slotting
  BY DEF Slotting, SlotsAreOwnedOnce, EmptyPool, OwnsCommittedSlot, FreeSlot
<1>8. Planning
  BY <1>1 DEF Planning, Flipping, Flipped
<1>9. Reserving /\ Contents /\ VisibleStateIsCommitted
  BY DEF Reserving, Contents, VisibleStateIsCommitted, Flipping, EmptyPool, OwnsCommittedSlot
<1>10. Filing
  BY <1>1 DEF Filing, EmptyPool
<1> QED BY <1>3, <1>4, <1>5, <1>6, <1>7, <1>8, <1>9, <1>10 DEF HybridInv

(* The slots a rollback frees are exactly the Reserved ones. *)
LEMMA ProvisionalSlots ==
    ASSUME HybridInv, NEW p, p.slot = pool.slot, NEW v, v.rows = res.rows, NEW s \in Slots
    PROVE  IsProvisional(p, v, s) <=> pool.slot[s].ownership = "Reserved"
<1>1. IsProvisional(p, v, s) => pool.slot[s].ownership = "Reserved"
  BY DEF IsProvisional
<1>2. ASSUME pool.slot[s].ownership = "Reserved" PROVE IsProvisional(p, v, s)
  <2>1. phase \in Flipping
    BY <1>2 DEF HybridInv, Slotting
  <2>2. PICK i \in DOMAIN res.rows : res.rows[i].slot = s /\ res.rows[i].provisional
    BY <1>2 DEF HybridInv, Slotting, SlotsAreOwnedOnce
  <2>3. Holds(res.rows[i], pool.slot[s], plan[i])
    BY <2>1, <2>2 DEF HybridInv, Reserving
  <2> QED BY <1>2, <2>2, <2>3 DEF IsProvisional, Holds
<1> QED BY <1>1, <1>2

(* A prefix does not depend on the step. *)
LEMMA SamePrefix ==
    ASSUME UNCHANGED config
    PROVE  /\ \A r, n : Prefix(r, n)' = Prefix(r, n)
           /\ Stream' = Stream /\ Prompt' = Prompt
           /\ \A e : RunTokens(e)' = RunTokens(e) /\ RunOutput(e)' = RunOutput(e)
<1>1. \A r, n : Prefix(r, n)' = Prefix(r, n)
  BY DEF Prefix, Stream
<1>2. Stream' = Stream /\ Prompt' = Prompt
  BY DEF Stream, Prompt
<1>3. \A e : RunTokens(e)' = RunTokens(e)
  BY DEF RunTokens, Stream
<1>4. \A e : RunOutput(e)' = RunOutput(e)
  BY <1>1, <1>3 DEF RunOutput
<1> QED BY <1>1, <1>2, <1>3, <1>4

(* A step that ends without a commit, or stops the engine after one, keeps   *)
(* the invariant.                                                            *)
LEMMA UndoneStep ==
    ASSUME HybridInv, UNCHANGED <<config, paged, resident, length, processed, plan>>,
           phase \in Open \ {"published"}, res' = NoReservation,
           target' = [r \in Requests |-> NoTable], endpoints' \subseteq EndpointSet, Filing',
           \/ /\ phase' = "idle" /\ fault' = fault /\ pool'.healthy
              /\ phase \in {"reserved", "executed", "accepted"}
           \/ phase' = "dead" /\ fault' \in {"execution", "device", "commit"},
           IsPool(pool'), pool'.live = FALSE, pool'.index = pool.index,
           pool'.slot = [s \in Slots |->
                IF pool.slot[s].ownership = "Reserved"
                THEN FreeSlot(pool.slot[s].generation, pool.slot[s].active_bank)
                ELSE pool.slot[s]],
           \A s \in Slots : pool.slot[s].ownership = "Committed" =>
                VisibleRow(pool', s) = VisibleRow(pool, s)
    PROVE  HybridInv'
<1>1. Rows' = Rows /\ \A r : IsPlanned(r)' <=> IsPlanned(r)
  BY DEF Rows, IsPlanned
<1>2. Types'
  BY DEF HybridInv, Types, NoReservation, ReservationSet, NoTable
<1>3. Control'
  BY DEF HybridInv, Control, ContractHolds, Open, Flipping, Flipped
<1>4. Progress'
  BY SamePrefix DEF HybridInv, Progress
<1>5. \A r \in Requests : OwnsCommittedSlot(pool, r) =>
        /\ pool.index[r] \in Slots
        /\ pool.slot[pool.index[r]].ownership = "Committed"
        /\ pool'.slot[pool'.index[r]] = pool.slot[pool.index[r]]
  <2>1. \A r \in Requests : OwnsCommittedSlot(pool, r) => pool.index[r] \in Slots
    BY DEF OwnsCommittedSlot, HybridInv, Types, IsPool
  <2>2. \A r \in Requests : OwnsCommittedSlot(pool, r) =>
            pool.slot[pool.index[r]].ownership = "Committed"
    BY DEF HybridInv, Slotting, SlotsAreOwnedOnce
  <2> QED BY <2>1, <2>2
<1>6. \A r \in Requests : OwnsCommittedSlot(pool', r) <=> OwnsCommittedSlot(pool, r)
  BY DEF OwnsCommittedSlot
<1>7. \A r \in Requests : OwnsCommittedSlot(pool, r) =>
        CommittedTokens(pool', r) = CommittedTokens(pool, r)
  BY <1>5 DEF CommittedTokens
<1>8. Boundaries'
  BY <1>1, <1>6, <1>7, SamePrefix DEF HybridInv, Boundaries
<1>9. Slotting'
  <2>1. \A s \in Slots : pool'.slot[s].ownership # "Reserved"
    BY DEF FreeSlot, HybridInv, Types, IsPool, SlotSet
  <2>2. \A s \in Slots : pool'.slot[s].ownership = "Committed" =>
            pool'.index[pool'.slot[s].request] = s
    BY DEF FreeSlot, HybridInv, Slotting, SlotsAreOwnedOnce
  <2>3. \A r \in Requests : OwnsCommittedSlot(pool', r) =>
            /\ pool'.slot[pool'.index[r]].request = r
            /\ pool'.slot[pool'.index[r]].ownership = "Committed"
    BY <1>5, <1>6 DEF HybridInv, Slotting, SlotsAreOwnedOnce
  <2>4. \A s \in Slots : pool'.slot[s].ownership = "Committed" => pool'.slot[s].request \in Requests
    BY DEF FreeSlot, HybridInv, Slotting
  <2> QED BY <2>1, <2>2, <2>3, <2>4 DEF Slotting, SlotsAreOwnedOnce
<1>10. Planning'
  BY <1>1 DEF HybridInv, Planning, Flipping, Flipped
<1>11. Reserving' /\ Contents'
  BY DEF Reserving, Contents, Flipping
<1>12. VisibleStateIsCommitted'
  <2> SUFFICES ASSUME NEW r \in Requests, OwnsCommittedSlot(pool', r)
               PROVE  VisibleRow(pool', pool'.index[r]) = Prefix(r, CommittedTokens(pool, r))'
    BY DEF VisibleStateIsCommitted
  <2>1. fault # "flush"
    BY DEF HybridInv, Control, Open, Flipping, Flipped, NoFault
  <2>2. VisibleRow(pool, pool.index[r]) = Prefix(r, CommittedTokens(pool, r))
    BY <1>6, <2>1 DEF HybridInv, VisibleStateIsCommitted
  <2>3. VisibleRow(pool', pool'.index[r]) = VisibleRow(pool, pool.index[r])
    BY <1>5, <1>6
  <2>4. Prefix(r, CommittedTokens(pool, r))' = Prefix(r, CommittedTokens(pool, r))
    BY <1>6, <1>7, SamePrefix DEF Prefix, Stream
  <2> QED BY <2>2, <2>3, <2>4
<1> QED BY <1>2, <1>3, <1>4, <1>8, <1>9, <1>10, <1>11, <1>12 DEF HybridInv

(* Until the flip, nothing is pending on the bank a reader sees. *)
LEMMA VisibleNow ==
    ASSUME HybridInv, phase \in Flipping, NEW s \in Slots
    PROVE  VisibleRow(pool, s) = pool.bank[s][pool.slot[s].active_bank]
<1>1. IsPool(pool)
  BY DEF HybridInv, Types
<1>2. pool.slot[s].active_bank \in Banks
  BY <1>1, ActiveBank
<1>3. \A d \in pool.replay : d.bank = Other(pool.slot[d.slot].active_bank)
  BY DEF HybridInv, Contents, Flipping
<1>4. \A d \in pool.replay : ~(d.slot = s /\ d.bank = pool.slot[s].active_bank)
  BY <1>2, <1>3, OtherBank
<1> QED BY <1>1, <1>2, <1>4, UntouchedRow DEF VisibleRow

(* Endpoints and leases stay filed while the checkpoint rows do not change. *)
LEMMA SameFiling ==
    ASSUME Filing, pool'.ckpt = pool.ckpt, UNCHANGED <<config, endpoints, plan>>,
           phase' # "dead" => phase # "dead"
    PROVE  Filing'
BY SamePrefix DEF Filing, ValidCheckpoint, Rows

(* Unwinding an open reservation keeps the invariant. *)
LEMMA UnwoundStep ==
    ASSUME HybridInv, UNCHANGED <<config, paged, resident, length, processed, plan, endpoints>>,
           phase \in Open \ {"published"}, res' = NoReservation,
           target' = [r \in Requests |-> NoTable],
           NEW p, IsPool(p), p.slot = pool.slot, p.index = pool.index, p.ckpt = pool.ckpt,
           p.replay = pool.replay, phase \in Flipped => p = pool,
           \A s \in Slots : p.bank[s][pool.slot[s].active_bank] =
                                pool.bank[s][pool.slot[s].active_bank],
           pool' = Unwind(p, res),
           \/ /\ phase' = "idle" /\ fault' = fault /\ p.healthy
              /\ phase \in {"reserved", "executed", "accepted"}
           \/ phase' = "dead" /\ fault' \in {"execution", "device", "commit"}
    PROVE  HybridInv'
<1>1. res.state \in {"Reserved", "Prepared", "Committed"} /\ (phase \in Flipped => res.state = "Committed")
      /\ (phase \in {"reserved", "executed", "accepted"} => res.state = "Reserved")
      /\ (phase = "prepared" => res.state = "Prepared")
  BY DEF HybridInv, Control, Open, Flipping, Flipped
<1>2. /\ IsPool(pool') /\ pool'.live = FALSE /\ pool'.index = p.index /\ pool'.ckpt = p.ckpt
      /\ pool'.bank = p.bank /\ pool'.healthy = p.healthy
      /\ pool'.slot = [s \in Slots |->
           IF IsProvisional(p, res, s)
           THEN FreeSlot(p.slot[s].generation, p.slot[s].active_bank) ELSE p.slot[s]]
      /\ res.state = "Prepared" => pool'.replay = {}
      /\ res.state # "Prepared" => /\ pool'.replay = p.replay
                                   /\ FlushDeferredReplay(pool').bank = FlushDeferredReplay(p).bank
  <2>1. Unwound(p, res, pool')
    BY <1>1, UnwindFacts
  <2> QED BY <2>1 DEF Unwound
<1>3. pool'.slot = [s \in Slots |->
           IF pool.slot[s].ownership = "Reserved"
           THEN FreeSlot(pool.slot[s].generation, pool.slot[s].active_bank) ELSE pool.slot[s]]
  BY <1>2, ProvisionalSlots
<1>4. IsPool(pool)
  BY DEF HybridInv, Types
<1>5. \A s \in Slots : pool.slot[s].ownership = "Committed" =>
            VisibleRow(pool', s) = VisibleRow(pool, s)
  <2> SUFFICES ASSUME NEW s \in Slots, pool.slot[s].ownership = "Committed"
               PROVE  VisibleRow(pool', s) = VisibleRow(pool, s)
    OBVIOUS
  <2>1. pool'.slot[s] = pool.slot[s]
    BY <1>3
  <2>2. CASE phase \in Flipped
    BY <1>1, <1>2, <2>1, <2>2 DEF VisibleRow
  <2>3. CASE phase \in Flipping
    <3>1. pool'.replay = {}
      BY <1>1, <1>2, <2>3 DEF HybridInv, Contents, Flipping, Flipped, Open
    <3> QED BY <1>2, <1>4, <2>1, <2>3, <3>1, VisibleBank, VisibleNow
  <2> QED BY <2>2, <2>3 DEF Open
<1>6. Filing'
  <2>1. phase # "dead"
    BY DEF Open, Flipping, Flipped
  <2> QED BY <1>2, <2>1, SameFiling DEF HybridInv
<1>7. endpoints' \subseteq EndpointSet
  BY DEF HybridInv, Types
<1> QED BY <1>2, <1>3, <1>5, <1>6, <1>7, UndoneStep

(* The pool is well formed, and healthy until the engine is dead. *)
LEMMA PhaseFacts ==
    ASSUME HybridInv
    PROVE  IsPool(pool) /\ (phase # "dead" => pool.healthy)
BY DEF HybridInv, Types, Control

(* A failed run is rolled back. *)
LEMMA ExecutionFaultStep ==
    ASSUME HybridInv, ExecutionFault, UNCHANGED config
    PROVE  HybridInv'
<1> DEFINE p == ExecuteFailed(pool, res)
<1>1. IsPool(pool) /\ pool.healthy /\ phase = "reserved"
  BY PhaseFacts DEF ExecutionFault
<1>2. TornBy(pool, p, res) /\ p.healthy
  BY <1>1, ExecuteFailedFacts
<1>3. /\ pool' = Unwind(p, res) /\ res' = NoReservation
      /\ target' = [r \in Requests |-> NoTable]
      /\ UNCHANGED <<paged, resident, length, processed, plan, endpoints, cursor>>
      /\ (phase' = "idle" /\ fault' = fault) \/ (phase' = "dead" /\ fault' = "execution")
  BY DEF ExecutionFault, ReleaseReservation, RolledBack, Die, engineVars
<1> HIDE DEF p
<1>4. phase \in Open \ {"published"} /\ phase \notin Flipped
  BY <1>1 DEF Open, Flipping, Flipped
<1> QED BY <1>1, <1>2, <1>3, <1>4, UnwoundStep DEF TornBy

(* Failed sampling or drafting is rolled back. *)
LEMMA PostProcessFaultStep ==
    ASSUME HybridInv, PostProcessFault, UNCHANGED config
    PROVE  HybridInv'
<1>1. IsPool(pool) /\ pool.healthy /\ phase \in {"executed", "accepted"}
  BY PhaseFacts DEF PostProcessFault
<1>3. /\ pool' = Unwind(pool, res) /\ res' = NoReservation
      /\ target' = [r \in Requests |-> NoTable]
      /\ UNCHANGED <<paged, resident, length, processed, plan, endpoints, cursor>>
      /\ (phase' = "idle" /\ fault' = fault) \/ (phase' = "dead" /\ fault' = "execution")
  BY DEF PostProcessFault, ReleaseReservation, RolledBack, Die, engineVars
<1>4. phase \in Open \ {"published"} /\ phase \notin Flipped
  BY <1>1 DEF Open, Flipping, Flipped
<1> QED BY <1>1, <1>3, <1>4, UnwoundStep

(* A failure past the commit boundary stops the engine. *)
LEMMA CommitFaultStep ==
    ASSUME HybridInv, CommitFault, UNCHANGED config
    PROVE  HybridInv'
<1>1. IsPool(pool) /\ phase \in {"prepared", "committed", "sealing"}
  BY PhaseFacts DEF CommitFault
<1>3. /\ pool' = Unwind(pool, res) /\ res' = NoReservation
      /\ target' = [r \in Requests |-> NoTable]
      /\ UNCHANGED <<paged, resident, length, processed, plan, endpoints, cursor>>
      /\ phase' = "dead" /\ fault' = "commit"
  BY DEF CommitFault, ReleaseReservation, Die, engineVars
<1>4. phase \in Open \ {"published"}
  BY <1>1 DEF Open, Flipping, Flipped
<1> QED BY <1>1, <1>3, <1>4, UnwoundStep

(* A failed PrepareCommit is rolled back and stops the engine. *)
LEMMA PrepareFaultStep ==
    ASSUME HybridInv, PrepareFault, UNCHANGED config
    PROVE  HybridInv'
<1>1. IsPool(pool) /\ phase \in {"accepted", "prepared"} /\ phase # "dead"
  BY PhaseFacts DEF PrepareFault
<1>2. phase \in Open \ {"published"} /\ phase \in Flipping
  BY <1>1 DEF Open, Flipping, Flipped
<1>3. phase' = "dead" /\ fault' = "device"
  BY DEF PrepareFault, Die
<1>4. CASE phase = "prepared"
  <2>1. /\ pool' = Unwind(pool, res) /\ res' = NoReservation
        /\ target' = [r \in Requests |-> NoTable]
        /\ UNCHANGED <<paged, resident, length, processed, plan, endpoints, cursor>>
    BY <1>4 DEF PrepareFault, ReleaseReservation, engineVars
  <2> QED BY <1>1, <1>2, <1>3, <2>1, UnwoundStep
<1>5. CASE phase = "accepted"
  <2> DEFINE a == PrepareFailed(pool, res).pool
             v == PrepareFailed(pool, res).res
  <2>1. /\ pool' = Unwind(a, v) /\ res' = NoReservation
        /\ target' = [r \in Requests |-> NoTable]
        /\ UNCHANGED <<paged, resident, length, processed, plan, endpoints, cursor>>
    BY <1>5 DEF PrepareFault, ReleaseReservation, engineVars
  <2>2. v.state = "Failed"
    BY DEF PrepareFailed, HybridInv, Types, ReservationSet
  <2>3. pool' = Finish(a)
    BY <2>1, <2>2 DEF Unwind, Discard
  <2>4. PICK q : TornBy(pool, q, res) /\ a = ReleaseProvisionalSlots(q, res)
    BY <1>1, PrepareFailedFacts
  <2> HIDE DEF a, v
  <2>5. IsPool(q)
    BY <2>4 DEF TornBy
  <2>6. /\ IsPool(a) /\ a.index = q.index /\ a.ckpt = q.ckpt
        /\ a.bank = q.bank /\ a.replay = q.replay
        /\ a.slot = [s \in Slots |->
             IF IsProvisional(q, res, s)
             THEN FreeSlot(q.slot[s].generation, q.slot[s].active_bank) ELSE q.slot[s]]
    BY <2>4, <2>5, ReleaseFacts
  <2>7. q.slot = pool.slot /\ q.index = pool.index /\ q.ckpt = pool.ckpt /\ q.replay = pool.replay
    BY <2>4 DEF TornBy
  <2>8. /\ IsPool(pool') /\ pool'.live = FALSE /\ pool'.slot = a.slot /\ pool'.index = a.index
        /\ pool'.ckpt = a.ckpt /\ pool'.bank = a.bank /\ pool'.replay = a.replay
    BY <2>3, <2>6, FinishFacts DEF Finished
  <2>9. pool'.slot = [s \in Slots |->
             IF pool.slot[s].ownership = "Reserved"
             THEN FreeSlot(pool.slot[s].generation, pool.slot[s].active_bank) ELSE pool.slot[s]]
    BY <2>6, <2>7, <2>8, ProvisionalSlots
  <2>10. \A s \in Slots : pool.slot[s].ownership = "Committed" =>
            VisibleRow(pool', s) = VisibleRow(pool, s)
    <3> SUFFICES ASSUME NEW s \in Slots, pool.slot[s].ownership = "Committed"
                 PROVE  VisibleRow(pool', s) = VisibleRow(pool, s)
      OBVIOUS
    <3>1. pool'.slot[s] = pool.slot[s]
      BY <2>9
    <3>2. pool'.replay = {}
      BY <1>5, <2>6, <2>7, <2>8 DEF HybridInv, Contents
    <3>3. pool'.bank[s][pool.slot[s].active_bank] = pool.bank[s][pool.slot[s].active_bank]
      BY <2>4, <2>6, <2>8 DEF TornBy
    <3> QED BY <1>2, <2>8, <3>1, <3>2, <3>3, VisibleBank, VisibleNow
  <2>11. Filing'
    BY <1>1, <2>1, <2>6, <2>7, <2>8, SameFiling DEF HybridInv
  <2>12. endpoints' \subseteq EndpointSet
    BY <2>1 DEF HybridInv, Types
  <2> QED BY <1>2, <1>3, <2>1, <2>6, <2>7, <2>8, <2>9, <2>10, <2>11, <2>12, UndoneStep
<1> QED BY <1>1, <1>4, <1>5

-----------------------------------------------------------------------------
(* Between steps. *)

(* The slot the index names is committed and belongs to the request. *)
LEMMA OwnerFacts ==
    ASSUME HybridInv, NEW r \in Requests, OwnsCommittedSlot(pool, r)
    PROVE  /\ pool.index[r] \in Slots
           /\ pool.slot[pool.index[r]].ownership = "Committed"
           /\ pool.slot[pool.index[r]].request = r
           /\ pool.slot[pool.index[r]] \in SlotSet
           /\ CommittedTokens(pool, r) \in Nat
<1>1. pool.index[r] \in Slots
  BY DEF OwnsCommittedSlot, HybridInv, Types, IsPool
<1>2. pool.slot[pool.index[r]] \in SlotSet
  BY <1>1 DEF HybridInv, Types, IsPool
<1> QED BY <1>1, <1>2 DEF HybridInv, Slotting, SlotsAreOwnedOnce, CommittedTokens, SlotSet

(* Owners that keep their boundary and their visible row keep the property. *)
LEMMA VisibleKept ==
    ASSUME HybridInv, UNCHANGED config,
           fault' # "flush" =>
             /\ fault # "flush"
             /\ \A r \in Requests : OwnsCommittedSlot(pool', r) =>
                    /\ OwnsCommittedSlot(pool, r)
                    /\ VisibleRow(pool', pool'.index[r]) = VisibleRow(pool, pool.index[r])
                    /\ CommittedTokens(pool', r) = CommittedTokens(pool, r)
    PROVE  VisibleStateIsCommitted'
<1> SUFFICES ASSUME fault' # "flush", NEW r \in Requests, OwnsCommittedSlot(pool', r)
             PROVE  VisibleRow(pool', pool'.index[r]) = Prefix(r, CommittedTokens(pool, r))'
  BY DEF VisibleStateIsCommitted
<1>1. VisibleRow(pool, pool.index[r]) = Prefix(r, CommittedTokens(pool, r))
  BY DEF HybridInv, VisibleStateIsCommitted
<1>2. Prefix(r, CommittedTokens(pool, r))' = Prefix(r, CommittedTokens(pool, r))
  BY SamePrefix DEF Prefix, Stream
<1> QED BY <1>1, <1>2

(* The same owners at the same boundaries. *)
LEMMA SameOwners ==
    ASSUME HybridInv, pool'.slot = pool.slot, pool'.index = pool.index
    PROVE  /\ \A r \in Requests : OwnsCommittedSlot(pool', r) <=> OwnsCommittedSlot(pool, r)
           /\ \A r \in Requests : CommittedTokens(pool', r) = CommittedTokens(pool, r)
           /\ AvailableSlots(pool') = AvailableSlots(pool)
           /\ (pool'.live = pool.live /\ res'.rows = res.rows) => SlotsAreOwnedOnce'
BY DEF OwnsCommittedSlot, CommittedTokens, AvailableSlots, HybridInv, Slotting, SlotsAreOwnedOnce

(* An engine that stops before it reserved anything keeps the invariant. *)
LEMMA DyingStep ==
    ASSUME HybridInv, phase = "planned", phase' = "dead", fault' \in {"flush", "device"},
           UNCHANGED <<config, res, paged, target, resident, length, processed, plan, endpoints>>,
           IsPool(pool'), pool'.slot = pool.slot, pool'.index = pool.index,
           pool'.ckpt = pool.ckpt, pool'.live = pool.live,
           fault' # "flush" => FlushDeferredReplay(pool').bank = FlushDeferredReplay(pool).bank
    PROVE  HybridInv'
<1>1. Rows' = Rows /\ \A r : IsPlanned(r)' <=> IsPlanned(r)
  BY DEF Rows, IsPlanned
<1>2. Types'
  BY DEF HybridInv, Types
<1>3. Control'
  BY DEF HybridInv, Control, ContractHolds, Open, Flipping, Flipped
<1>4. Progress'
  BY SamePrefix DEF HybridInv, Progress
<1>5. Boundaries'
  BY <1>1, SamePrefix, SameOwners DEF HybridInv, Boundaries
<1>6. Slotting'
  BY SameOwners DEF HybridInv, Slotting, Flipping
<1>7. Planning'
  BY <1>1 DEF HybridInv, Planning, Flipping, Flipped
<1>8. Reserving' /\ Contents'
  BY DEF Reserving, Contents, Flipping
<1>9. VisibleStateIsCommitted'
  <2>1. fault # "flush"
    BY DEF HybridInv, Control, NoFault
  <2> QED BY <2>1, SameOwners, VisibleKept DEF VisibleRow
<1>10. Filing'
  BY SameFiling DEF HybridInv
<1> QED BY <1>2, <1>3, <1>4, <1>5, <1>6, <1>7, <1>8, <1>9, <1>10 DEF HybridInv

(* A replay that cannot be launched stops the engine. *)
LEMMA FlushFaultStep ==
    ASSUME HybridInv, FlushFault, UNCHANGED config
    PROVE  HybridInv'
<1>1. IsPool(pool)
  BY PhaseFacts
<1>2. /\ phase = "planned" /\ phase' = "dead" /\ fault' = "flush"
      /\ pool' = [pool EXCEPT !.replay = {}, !.healthy = FALSE]
      /\ UNCHANGED <<res, paged, target, resident, length, processed, plan, endpoints>>
  BY DEF FlushFault, Die, engineVars, FlushFailed
<1>3. /\ IsPool(pool') /\ pool'.slot = pool.slot /\ pool'.index = pool.index
      /\ pool'.ckpt = pool.ckpt /\ pool'.live = pool.live
  BY <1>1, <1>2 DEF IsPool, PoolFields
<1> QED BY <1>2, <1>3, DyingStep

(* So does a gather or a normalisation that fails. *)
LEMMA GatherFaultStep ==
    ASSUME HybridInv, GatherFault, UNCHANGED config
    PROVE  HybridInv'
<1> DEFINE q == FlushDeferredReplay(pool)
<1>1. IsPool(pool)
  BY PhaseFacts
<1>2. /\ phase = "planned" /\ phase' = "dead" /\ fault' = "device"
      /\ pool' = [q EXCEPT !.healthy = FALSE]
      /\ UNCHANGED <<res, paged, target, resident, length, processed, plan, endpoints>>
  BY DEF GatherFault, Die, engineVars, ReserveFailed
<1>3. /\ IsPool(q) /\ q.replay = {} /\ q.slot = pool.slot /\ q.index = pool.index
      /\ q.ckpt = pool.ckpt /\ q.live = pool.live
  BY <1>1, FlushFacts
<1> HIDE DEF q
<1>4. /\ IsPool(pool') /\ pool'.slot = q.slot /\ pool'.index = q.index
      /\ pool'.ckpt = q.ckpt /\ pool'.live = q.live /\ pool'.replay = {} /\ pool'.bank = q.bank
  BY <1>2, <1>3 DEF IsPool, PoolFields
<1>5. FlushDeferredReplay(pool').bank = FlushDeferredReplay(pool).bank
  BY <1>4, NoReplay DEF q
<1> QED BY <1>2, <1>3, <1>4, <1>5, DyingStep

(* A new request owns nothing yet. *)
LEMMA AddRequestStep ==
    ASSUME HybridInv, NEW r \in Requests, AddRequest(r), UNCHANGED config
    PROVE  HybridInv'
<1>1. /\ phase = "idle" /\ length[r] = 0 /\ r \in DOMAIN Stream
      /\ length' = [length EXCEPT ![r] = Prompt[r]]
      /\ UNCHANGED <<pool, res, paged, target, resident, processed, plan, endpoints, phase, fault>>
  BY DEF AddRequest
<1>2. Prompt[r] \in 1 .. Len(Stream[r]) /\ Prompt[r] \in Nat /\ Stream[r] \in Seq(Nat)
  BY <1>1, StepAssumption DEF HybridInv, Types, Stream, Prompt
<1>3. Rows' = Rows /\ \A x : IsPlanned(x)' <=> IsPlanned(x)
  BY <1>1 DEF Rows, IsPlanned
<1>4. Types'
  BY <1>1, <1>2 DEF HybridInv, Types
<1>5. Control'
  BY <1>1 DEF HybridInv, Control, ContractHolds
<1>6. Progress'
  BY <1>1, <1>2, SamePrefix DEF HybridInv, Progress, Types
<1>7. Boundaries'
  BY <1>1, <1>3, SamePrefix DEF HybridInv, Boundaries
<1>8. Slotting'
  BY <1>1 DEF HybridInv, Slotting, SlotsAreOwnedOnce
<1>9. Planning'
  BY <1>1, <1>3 DEF HybridInv, Planning, Flipping, Flipped
<1>10. Reserving' /\ Contents'
  BY <1>1 DEF Reserving, Contents, Flipping
<1>11. VisibleStateIsCommitted'
  BY <1>1, VisibleKept
<1>12. Filing'
  BY <1>1, SameFiling DEF HybridInv
<1> QED BY <1>4, <1>5, <1>6, <1>7, <1>8, <1>9, <1>10, <1>11, <1>12 DEF HybridInv

(* Passing a row over seals nothing. *)
LEMMA PassRowStep ==
    ASSUME HybridInv, PassRow, UNCHANGED config
    PROVE  HybridInv'
<1>1. UNCHANGED <<config, pool, res, paged, target, resident, length, processed, plan, endpoints,
                  phase, fault>>
  BY DEF PassRow
<1>2. Types' /\ Control' /\ Progress' /\ Boundaries'
  BY <1>1 DEF HybridInv, Types, Control, ContractHolds, Progress, Boundaries, Stream, Prompt,
     IsPlanned, Rows
<1>3. Slotting' /\ Planning' /\ Reserving'
  BY <1>1 DEF HybridInv, Slotting, SlotsAreOwnedOnce, Planning, Feasible, Reserving, Stream,
     Prompt, IsPlanned, Rows, Narrowed
<1>4. Filing' /\ VisibleStateIsCommitted'
  BY <1>1, SameFiling, VisibleKept DEF HybridInv
<1>5. Contents'
  BY <1>1 DEF PassRow, Contents, Flipping
<1> QED BY <1>2, <1>3, <1>4, <1>5 DEF HybridInv

(* Closing or rewinding a request gives up what it owns in both caches. *)
LEMMA ReleaseOwnershipStep ==
    ASSUME HybridInv, NEW r \in Requests, phase \in {"idle", "dead"}, ReleaseOwnership(r),
           UNCHANGED <<config, res, target, plan, endpoints, phase>>, NEW n \in Nat,
           length' = [length EXCEPT ![r] = n], processed' = [processed EXCEPT ![r] = 0],
           n # 0 => /\ r \in DOMAIN Stream /\ n <= Len(Stream[r])
                    /\ Prompt[r] \in Nat \ {0} /\ n = Prompt[r]
    PROVE  HybridInv'
<1>1. Rows' = Rows /\ \A x : IsPlanned(x)' <=> IsPlanned(x)
  BY DEF Rows, IsPlanned
<1>2. CASE r \notin resident
  <2>0. UNCHANGED <<pool, paged, resident, fault>>
    BY <1>2 DEF ReleaseOwnership
  <2>1. Types' /\ Control'
    BY <2>0 DEF HybridInv, Types, Control, ContractHolds
  <2>2. Progress'
    BY <2>0, SamePrefix DEF HybridInv, Progress, Types
  <2>3. Boundaries'
    BY <1>1, <1>2, <2>0, SamePrefix DEF HybridInv, Boundaries, Types
  <2>4. Slotting'
    BY <2>0 DEF HybridInv, Slotting, SlotsAreOwnedOnce
  <2>5. Planning'
    BY <1>1, <2>0 DEF HybridInv, Planning, Flipping, Flipped
  <2>6. Reserving' /\ Contents'
    BY DEF Reserving, Contents, Flipping
  <2>7. VisibleStateIsCommitted' /\ Filing'
    BY <2>0, VisibleKept, SameFiling DEF HybridInv
  <2> QED BY <2>1, <2>2, <2>3, <2>4, <2>5, <2>6, <2>7 DEF HybridInv
<1>3. CASE r \in resident
  <2>1. OwnsCommittedSlot(pool, r) /\ paged[r] = CommittedTokens(pool, r)
    BY <1>3 DEF HybridInv, Boundaries
  <2>2. /\ pool.index[r] \in Slots /\ pool.slot[pool.index[r]].ownership = "Committed"
        /\ pool.slot[pool.index[r]].request = r /\ CommittedTokens(pool, r) \in Nat
    BY <2>1, OwnerFacts
  <2>3. IsPool(pool) /\ ~pool.live
    BY DEF HybridInv, Types, Control, Open, Flipping, Flipped
  <2>4. ValidateRelease(pool, r) /\ paged[r] # NoTable
    BY <2>1, <2>2, <2>3 DEF ValidateRelease, OwnsCommittedSlot, NoTable
  <2>5. /\ pool' = ReleaseValidated(pool, r) /\ paged' = [paged EXCEPT ![r] = NoTable]
        /\ resident' = resident \ {r} /\ fault' = fault
    BY <1>3, <2>4 DEF ReleaseOwnership
  <2> DEFINE s == pool.index[r]
  <2>6. /\ IsPool(pool') /\ pool'.live = pool.live /\ pool'.ckpt = pool.ckpt
        /\ pool'.healthy = pool.healthy
        /\ FlushDeferredReplay(pool').bank = FlushDeferredReplay(pool).bank
        /\ pool'.index = [pool.index EXCEPT ![r] = NoSlot]
        /\ pool'.slot = [pool.slot EXCEPT ![s] =
             FreeSlot(pool.slot[s].generation, pool.slot[s].active_bank)]
    <3>1. Released(pool, r, pool')
      BY <2>2, <2>3, <2>5, ReleaseValidatedFacts
    <3> QED BY <3>1 DEF Released
  <2>7. s \in Slots /\ pool.slot \in [Slots -> SlotSet]
        /\ pool.index \in [Requests -> Slots \cup {NoSlot}]
    BY <2>2, <2>3 DEF IsPool
  <2>8. \A x \in Requests : OwnsCommittedSlot(pool', x) =>
            /\ x # r /\ OwnsCommittedSlot(pool, x)
            /\ pool'.index[x] = pool.index[x]
            /\ pool.index[x] # s
            /\ pool'.slot[pool.index[x]] = pool.slot[pool.index[x]]
    <3> SUFFICES ASSUME NEW x \in Requests, OwnsCommittedSlot(pool', x)
                 PROVE  /\ x # r /\ OwnsCommittedSlot(pool, x)
                        /\ pool'.index[x] = pool.index[x]
                        /\ pool.index[x] # s
                        /\ pool'.slot[pool.index[x]] = pool.slot[pool.index[x]]
      OBVIOUS
    <3>1. x # r /\ OwnsCommittedSlot(pool, x) /\ pool'.index[x] = pool.index[x]
      BY <2>6, <2>7 DEF OwnsCommittedSlot
    <3>2. pool.slot[pool.index[x]].request = x /\ pool.index[x] \in Slots
      BY <3>1, OwnerFacts
    <3> HIDE DEF s
    <3>3. pool.index[x] # s
      BY <2>2, <3>1, <3>2 DEF s
    <3> QED BY <2>6, <2>7, <3>1, <3>2, <3>3
  <2>9. \A x \in Requests : x # r =>
            (OwnsCommittedSlot(pool', x) <=> OwnsCommittedSlot(pool, x))
    BY <2>6, <2>7 DEF OwnsCommittedSlot
  <2>10. ~OwnsCommittedSlot(pool', r)
    BY <2>6, <2>7 DEF OwnsCommittedSlot
  <2>11. \A x \in Requests : OwnsCommittedSlot(pool', x) =>
            CommittedTokens(pool', x) = CommittedTokens(pool, x)
    BY <2>8 DEF CommittedTokens
  <2> HIDE DEF s
  <2>12. Types'
    BY <2>5, <2>6 DEF HybridInv, Types, NoTable
  <2>13. Control'
    BY <2>5, <2>6 DEF HybridInv, Control, ContractHolds
  <2>14. Progress'
    BY <2>5, SamePrefix DEF HybridInv, Progress, Types
  <2>15. Boundaries'
    <3>1. paged \in [Requests -> Nat \cup {NoTable}] /\ processed \in [Requests -> Nat]
      BY DEF HybridInv, Types
    <3> SUFFICES ASSUME NEW x \in Requests
                 PROVE  /\ OwnsCommittedSlot(pool', x) <=> x \in resident'
                        /\ x \in resident' => paged'[x] = CommittedTokens(pool', x)
                        /\ x \notin resident' => paged'[x] = NoTable
                        /\ x \in resident' /\ phase # "dead" => paged'[x] = processed'[x]
                        /\ paged'[x] # NoTable => x \in DOMAIN Stream' /\ paged'[x] <= Len(Stream'[x])
      BY <1>1 DEF Boundaries
    <3>2. CASE x = r
      BY <2>5, <2>10, <3>1, <3>2
    <3>3. CASE x # r
      <4>1. /\ paged'[x] = paged[x] /\ processed'[x] = processed[x]
            /\ x \in resident' <=> x \in resident
        BY <2>5, <3>1, <3>3
      <4>2. /\ OwnsCommittedSlot(pool, x) <=> x \in resident
            /\ x \in resident => paged[x] = CommittedTokens(pool, x)
            /\ x \notin resident => paged[x] = NoTable
            /\ x \in resident /\ phase # "dead" => paged[x] = processed[x]
            /\ paged[x] # NoTable => x \in DOMAIN Stream /\ paged[x] <= Len(Stream[x])
        BY DEF HybridInv, Boundaries
      <4> QED BY <2>9, <2>11, <3>3, <4>1, <4>2, SamePrefix
    <3> QED BY <3>2, <3>3
  <2>16. Slotting'
    <3>1. \A x \in Slots : pool'.slot[x].ownership # "Free" => x # s /\ pool'.slot[x] = pool.slot[x]
      BY <2>6, <2>7 DEF FreeSlot
    <3>2. \A x \in Slots : pool'.slot[x].ownership # "Reserved"
      BY <3>1 DEF HybridInv, Slotting, Flipping
    <3>3. \A x \in Slots : pool'.slot[x].ownership = "Committed" =>
              pool'.index[pool'.slot[x].request] = x
      <4> SUFFICES ASSUME NEW x \in Slots, pool'.slot[x].ownership = "Committed"
                   PROVE  pool'.index[pool'.slot[x].request] = x
        OBVIOUS
      <4>1. pool'.slot[x] = pool.slot[x] /\ x # s
        BY <3>1
      <4>2. pool.index[pool.slot[x].request] = x
        BY <4>1 DEF HybridInv, Slotting, SlotsAreOwnedOnce
      <4>3. pool.slot[x].request # r
        BY <4>1, <4>2 DEF s
      <4> QED BY <2>6, <2>7, <4>1, <4>2, <4>3
    <3>4. \A x \in Requests : OwnsCommittedSlot(pool', x) =>
              /\ pool'.slot[pool'.index[x]].request = x
              /\ pool'.slot[pool'.index[x]].ownership = "Committed"
      BY <2>8, OwnerFacts
    <3>5. \A x \in Slots : pool'.slot[x].ownership = "Committed" => pool'.slot[x].request \in Requests
      BY <3>1 DEF HybridInv, Slotting
    <3> QED BY <3>2, <3>3, <3>4, <3>5 DEF Slotting, SlotsAreOwnedOnce
  <2>17. Planning'
    BY <1>1 DEF HybridInv, Planning, Flipping, Flipped
  <2>18. Reserving' /\ Contents'
    BY DEF Reserving, Contents, Flipping
  <2>19. VisibleStateIsCommitted'
    BY <2>5, <2>6, <2>8, <2>11, VisibleKept DEF VisibleRow
  <2>20. Filing'
    BY <2>6, SameFiling DEF HybridInv
  <2> QED BY <2>12, <2>13, <2>14, <2>15, <2>16, <2>17, <2>18, <2>19, <2>20 DEF HybridInv
<1> QED BY <1>2, <1>3

(* A removal gives both kinds of ownership back. *)
LEMMA DeallocateStep ==
    ASSUME HybridInv, NEW r \in Requests, Deallocate(r), UNCHANGED config
    PROVE  HybridInv'
BY ReleaseOwnershipStep DEF Deallocate

(* So does a rewind. *)
LEMMA ReleaseForRewindStep ==
    ASSUME HybridInv, NEW r \in Requests, ReleaseForRewind(r), UNCHANGED config
    PROVE  HybridInv'
<1>1. length[r] # 0 /\ phase = "idle"
  BY DEF ReleaseForRewind
<1>2. r \in DOMAIN Stream
  BY <1>1 DEF HybridInv, Progress
<1>3. Prompt[r] \in 1 .. Len(Stream[r]) /\ Prompt[r] \in Nat \ {0} /\ Stream[r] \in Seq(Nat)
  BY <1>2, StepAssumption DEF HybridInv, Types, Stream, Prompt
<1>4. /\ ReleaseOwnership(r) /\ UNCHANGED <<config, res, target, plan, endpoints, phase>>
      /\ length' = [length EXCEPT ![r] = Prompt[r]] /\ processed' = [processed EXCEPT ![r] = 0]
  BY DEF ReleaseForRewind
<1>5. Prompt[r] <= Len(Stream[r])
  BY <1>3
<1> QED BY <1>1, <1>2, <1>3, <1>4, <1>5, ReleaseOwnershipStep

-----------------------------------------------------------------------------
(* Prefixes and checkpoints. *)

(* Streams are sequences of tokens that start with their prompt. *)
LEMMA StreamFacts ==
    ASSUME Types, NEW r \in DOMAIN Stream
    PROVE  Stream[r] \in Seq(Nat) /\ Len(Stream[r]) \in Nat /\ Prompt[r] \in 1 .. Len(Stream[r])
<1>1. Stream[r] \in Seq(Nat) /\ Prompt[r] \in 1 .. Len(Stream[r])
  BY StepAssumption DEF Types, Stream, Prompt
<1> QED BY <1>1

(* Length and elements of a prefix of a request's tokens. *)
LEMMA PrefixFacts ==
    ASSUME Types, NEW r \in DOMAIN Stream, NEW n \in Nat, n <= Len(Stream[r])
    PROVE  /\ Prefix(r, n) \in Seq(Int) /\ Len(Prefix(r, n)) = n
           /\ \A i \in 1 .. n : Prefix(r, n)[i] = Stream[r][i]
<1>1. Stream[r] \in Seq(Int)
  BY StreamFacts
<1>2. Prefix(r, n) = SubSeq(Stream[r], 0 + 1, n)
  BY DEF Prefix
<1> HIDE DEF Stream
<1>3. /\ Prefix(r, n) \in Seq(Int) /\ Len(Prefix(r, n)) = n - 0
      /\ \A i \in 1 .. n - 0 : Prefix(r, n)[i] = Stream[r][0 + i]
  BY <1>1, <1>2, SubSeqFacts
<1> QED BY <1>1, <1>3

(* Two endpoints do not share a checkpoint row. *)
LEMMA EndpointsApart ==
    ASSUME HybridInv, NEW e \in endpoints, NEW f \in endpoints, e.ckpt.row = f.ckpt.row
    PROVE  e = f
<1>1. /\ e \in EndpointSet /\ f \in EndpointSet
      /\ e.ckpt \in HandleSet /\ f.ckpt \in HandleSet
  BY DEF HybridInv, Types, EndpointSet
<1>2. e.tokens = f.tokens /\ e.ckpt.generation = f.ckpt.generation /\ e.ckpt.count = f.ckpt.count
  BY DEF HybridInv, Filing, ValidCheckpoint
<1>3. e.ckpt = f.ckpt
  BY <1>1, <1>2 DEF HandleSet
<1> QED BY <1>1, <1>2, <1>3 DEF EndpointSet

(* A step that only moves checkpoint rows keeps the rest of the invariant. *)
LEMMA RowwiseStep ==
    ASSUME HybridInv, phase \in {"planned", "sealing"}, Rowwise(pool, pool'),
           UNCHANGED <<config, res, paged, target, resident, length, processed, plan, phase, fault>>,
           endpoints' \subseteq EndpointSet, Filing'
    PROVE  HybridInv'
<1>1. /\ IsPool(pool') /\ pool'.slot = pool.slot /\ pool'.index = pool.index
      /\ pool'.live = pool.live /\ pool'.healthy = pool.healthy
      /\ FlushDeferredReplay(pool').bank = FlushDeferredReplay(pool).bank
  BY DEF Rowwise
<1>2. Rows' = Rows /\ \A x : IsPlanned(x)' <=> IsPlanned(x)
  BY DEF Rows, IsPlanned
<1>3. Types'
  BY <1>1 DEF HybridInv, Types
<1>4. Control'
  BY <1>1 DEF HybridInv, Control, ContractHolds
<1>5. Progress'
  BY SamePrefix DEF HybridInv, Progress
<1>6. Boundaries'
  BY <1>1, <1>2, SamePrefix, SameOwners DEF HybridInv, Boundaries
<1>7. Slotting'
  BY <1>1, SameOwners DEF HybridInv, Slotting
<1>8. Planning'
  <2>1. \A e : Feasible(e)' <=> Feasible(e)
    BY SamePrefix DEF Feasible
  <2> QED BY <1>1, <1>2, <2>1, SameOwners DEF HybridInv, Planning
<1>9. Reserving' /\ Contents'
  BY DEF Reserving, Contents, Flipping
<1>10. VisibleStateIsCommitted'
  BY <1>1, SameOwners, VisibleKept DEF VisibleRow, HybridInv, Control, NoFault
<1> QED BY <1>3, <1>4, <1>5, <1>6, <1>7, <1>8, <1>9, <1>10 DEF HybridInv

(* An eviction takes the endpoint and its checkpoint row together. *)
LEMMA EvictEndpointStep ==
    ASSUME HybridInv, EvictEndpoint, UNCHANGED config
    PROVE  HybridInv'
<1>1. PICK e \in endpoints : /\ ~IsLeased(e) /\ endpoints' = endpoints \ {e}
                             /\ pool' = ReleasePrefixCheckpoint(pool, e.ckpt)
  BY DEF EvictEndpoint
<1>2. /\ phase = "planned"
      /\ UNCHANGED <<res, paged, target, resident, length, processed, plan, phase, fault>>
  BY DEF EvictEndpoint
<1>3. /\ e.ckpt.row \in Checkpoints /\ pool.ckpt[e.ckpt.row].occupied
      /\ pool.ckpt[e.ckpt.row].generation = e.ckpt.generation
  BY DEF HybridInv, Filing, ValidCheckpoint
<1>4. /\ Rowwise(pool, pool') /\ ~pool'.ckpt[e.ckpt.row].occupied
      /\ \A c \in Checkpoints : c # e.ckpt.row => pool'.ckpt[c] = pool.ckpt[c]
  BY <1>1, <1>3, PhaseFacts, DropFacts
<1>5. \A f \in endpoints' : f \in endpoints /\ f.ckpt.row # e.ckpt.row
  BY <1>1, EndpointsApart
<1>6. Filing'
  <2>1. \A f \in endpoints' : /\ ValidCheckpoint(pool', f.ckpt) /\ f.ckpt.count = Len(f.tokens)
                              /\ pool'.ckpt[f.ckpt.row].row = f.tokens
    BY <1>4, <1>5 DEF HybridInv, Filing, ValidCheckpoint
  <2>2. Rows' = Rows
    BY <1>2 DEF Rows
  <2>3. ASSUME NEW i \in Rows, plan[i].ckpt # NoCheckpoint
        PROVE  \E f \in endpoints' : /\ f.ckpt = plan[i].ckpt
                                     /\ f.tokens = Prefix(plan[i].request, f.ckpt.count)
    <3>1. PICK f \in endpoints : /\ f.ckpt = plan[i].ckpt
                                 /\ f.tokens = Prefix(plan[i].request, f.ckpt.count)
      BY <2>3 DEF HybridInv, Filing
    <3>2. f # e
      BY <1>1, <3>1 DEF IsLeased
    <3> QED BY <1>1, <3>1, <3>2
  <2>4. \A c \in Checkpoints : pool'.ckpt[c].occupied => \E f \in endpoints' : f.ckpt.row = c
    <3> SUFFICES ASSUME NEW c \in Checkpoints, pool'.ckpt[c].occupied
                 PROVE  \E f \in endpoints' : f.ckpt.row = c
      OBVIOUS
    <3>1. c # e.ckpt.row /\ pool.ckpt[c].occupied
      BY <1>4
    <3>2. PICK f \in endpoints : f.ckpt.row = c
      BY <1>2, <3>1 DEF HybridInv, Filing
    <3> QED BY <1>1, <3>1, <3>2
  <2>5. \A i \in Rows' : plan'[i].ckpt # NoCheckpoint =>
            \E f \in endpoints' : /\ f.ckpt = plan'[i].ckpt
                                  /\ f.tokens = Prefix(plan[i].request, f.ckpt.count)'
    BY <1>2, <2>2, <2>3, SamePrefix
  <2> QED BY <2>1, <2>4, <2>5 DEF Filing
<1>7. endpoints' \subseteq EndpointSet
  BY <1>1 DEF HybridInv, Types
<1> QED BY <1>2, <1>4, <1>6, <1>7, RowwiseStep

(* Filing a captured row under the tokens of its paged prefix keeps Filing. *)
LEMMA SealFacts ==
    ASSUME HybridInv, phase = "sealing", NEW r \in Requests, r \in resident,
           UNCHANGED <<config, res, paged, target, resident, length, processed, plan, phase, fault>>,
           NEW p, Rowwise(pool, p), NEW c \in Checkpoints,
           \A x \in Checkpoints : x # c => p.ckpt[x] = pool.ckpt[x],
           NEW kept, kept \subseteq endpoints,
           \A f \in endpoints : f \in kept <=> f.ckpt.row # c,
           \A i \in Rows : plan[i].ckpt # NoCheckpoint => \A f \in endpoints :
                f.ckpt = plan[i].ckpt => f \in kept,
           pool' = CapturePrefixCheckpoint(p, r, c).pool,
           endpoints' = kept \cup {EndpointFor(r, CapturePrefixCheckpoint(p, r, c).handle)}
    PROVE  HybridInv'
<1> DEFINE n == paged[r]
           h == CapturePrefixCheckpoint(p, r, c).handle
           new == EndpointFor(r, h)
<1>1. /\ OwnsCommittedSlot(pool, r) /\ n = CommittedTokens(pool, r) /\ n # NoTable
      /\ pool.index[r] \in Slots /\ n \in Nat
  <2>1. OwnsCommittedSlot(pool, r) /\ n = CommittedTokens(pool, r)
    BY DEF HybridInv, Boundaries
  <2> QED BY <2>1, OwnerFacts DEF NoTable
<1>2. Types /\ r \in DOMAIN Stream /\ n <= Len(Stream[r])
  BY <1>1 DEF HybridInv, Boundaries
<1>3. Prefix(r, n) \in Seq(Int) /\ Len(Prefix(r, n)) = n
  BY <1>1, <1>2, PrefixFacts
<1>4. /\ IsPool(p) /\ p.slot = pool.slot /\ p.index = pool.index
      /\ p.live = pool.live /\ p.healthy = pool.healthy /\ p.views = pool.views
      /\ FlushDeferredReplay(p).bank = FlushDeferredReplay(pool).bank
  BY DEF Rowwise
<1>5. VisibleRow(p, p.index[r]) = Prefix(r, n) /\ CommittedTokens(p, r) = n
  <2>1. VisibleRow(pool, pool.index[r]) = Prefix(r, n)
    BY <1>1 DEF HybridInv, VisibleStateIsCommitted, Control, NoFault
  <2> QED BY <1>1, <1>4, <2>1 DEF VisibleRow, CommittedTokens
<1>6. /\ Rowwise(p, pool')
      /\ \A x \in Checkpoints : x # c => pool'.ckpt[x] = p.ckpt[x]
      /\ h \in HandleSet /\ h.row = c /\ h.count = n
      /\ pool'.ckpt[c].occupied /\ pool'.ckpt[c].generation = h.generation
      /\ pool'.ckpt[c].count = h.count /\ pool'.ckpt[c].row = Prefix(r, n)
  <2> HIDE DEF h, n
  <2>1. VisibleRow(p, p.index[r]) \in Seq(Int) /\ p.index[r] \in Slots
    BY <1>1, <1>3, <1>4, <1>5
  <2>2. h = CapturePrefixCheckpoint(p, r, c).handle
    BY DEF h
  <2> QED BY <1>4, <1>5, <2>1, <2>2, CaptureFacts
<1>7. new = [ckpt |-> h, tokens |-> Prefix(r, n)] /\ new \in EndpointSet
  <2> HIDE DEF h
  <2> QED BY <1>3, <1>6 DEF EndpointFor, EndpointSet
<1>8. endpoints' = kept \cup {new}
  OBVIOUS
<1> HIDE DEF h, n, new
<1>9. Rowwise(pool, pool')
  BY <1>4, <1>6 DEF Rowwise
<1>10. endpoints' \subseteq EndpointSet
  BY <1>7, <1>8 DEF HybridInv, Types
<1>11. \A x \in Checkpoints : x # c => pool'.ckpt[x] = pool.ckpt[x]
  BY <1>6
<1>12. Filing'
  <2>1. \A f \in endpoints' : /\ ValidCheckpoint(pool', f.ckpt) /\ f.ckpt.count = Len(f.tokens)
                              /\ pool'.ckpt[f.ckpt.row].row = f.tokens
    <3> SUFFICES ASSUME NEW f \in endpoints'
                 PROVE  /\ ValidCheckpoint(pool', f.ckpt) /\ f.ckpt.count = Len(f.tokens)
                        /\ pool'.ckpt[f.ckpt.row].row = f.tokens
      OBVIOUS
    <3>1. CASE f \in kept
      <4>1. /\ f.ckpt.row # c /\ ValidCheckpoint(pool, f.ckpt) /\ f.ckpt.count = Len(f.tokens)
            /\ pool.ckpt[f.ckpt.row].row = f.tokens
        BY <3>1 DEF HybridInv, Filing
      <4> QED BY <1>11, <4>1 DEF ValidCheckpoint
    <3>2. CASE f = new
      BY <1>3, <1>6, <1>7, <3>2 DEF ValidCheckpoint
    <3> QED BY <1>8, <3>1, <3>2
  <2>2. Rows' = Rows
    BY DEF Rows
  <2>3. ASSUME NEW i \in Rows, plan[i].ckpt # NoCheckpoint
        PROVE  \E f \in endpoints' : /\ f.ckpt = plan[i].ckpt
                                     /\ f.tokens = Prefix(plan[i].request, f.ckpt.count)
    <3>1. PICK f \in endpoints : /\ f.ckpt = plan[i].ckpt
                                 /\ f.tokens = Prefix(plan[i].request, f.ckpt.count)
      BY <2>3 DEF HybridInv, Filing
    <3>2. f \in kept
      BY <2>3, <3>1
    <3> QED BY <1>8, <3>1, <3>2
  <2>4. \A x \in Checkpoints : pool'.ckpt[x].occupied => \E f \in endpoints' : f.ckpt.row = x
    <3> SUFFICES ASSUME NEW x \in Checkpoints, pool'.ckpt[x].occupied
                 PROVE  \E f \in endpoints' : f.ckpt.row = x
      OBVIOUS
    <3>1. CASE x = c
      BY <1>6, <1>7, <1>8, <3>1
    <3>2. CASE x # c
      <4>1. PICK f \in endpoints : f.ckpt.row = x
        BY <1>11, <3>2 DEF HybridInv, Filing
      <4> QED BY <1>8, <3>2, <4>1
    <3> QED BY <3>1, <3>2
  <2>5. \A i \in Rows' : plan'[i].ckpt # NoCheckpoint =>
            \E f \in endpoints' : /\ f.ckpt = plan'[i].ckpt
                                  /\ f.tokens = Prefix(plan[i].request, f.ckpt.count)'
    BY <2>2, <2>3, SamePrefix
  <2> QED BY <2>1, <2>4, <2>5 DEF Filing
<1> QED BY <1>9, <1>10, <1>12, RowwiseStep

(* Sealing keeps the invariant, with a free row or with a reclaimed one. *)
LEMMA SealRowStep ==
    ASSUME HybridInv, SealRow, UNCHANGED config
    PROVE  HybridInv'
<1> DEFINE r == plan[cursor].request
           free == AvailableCheckpoints(pool)
           Seal(p, c, kept) == /\ pool' = CapturePrefixCheckpoint(p, r, c).pool
                               /\ endpoints' = kept \cup
                                    {EndpointFor(r, CapturePrefixCheckpoint(p, r, c).handle)}
<1>1. /\ phase = "sealing" /\ cursor \in Rows
      /\ UNCHANGED <<res, paged, target, resident, length, processed, plan, phase, fault>>
      /\ \/ /\ free # {}
            /\ Seal(pool, CHOOSE x \in free : \A y \in free : x <= y, endpoints)
         \/ \E e \in endpoints :
              /\ ~IsLeased(e)
              /\ Seal(ReleasePrefixCheckpoint(pool, e.ckpt), e.ckpt.row, endpoints \ {e})
  BY DEF SealRow
<1>2. r \in Requests /\ r \in resident
  <2>1. plan[cursor] \in EntrySet
    BY <1>1 DEF HybridInv, Types, Rows
  <2> QED BY <1>1, <2>1 DEF HybridInv, Planning, Flipped, EntrySet
<1>3. IsPool(pool)
  BY PhaseFacts
<1>4. CASE /\ free # {}
           /\ Seal(pool, CHOOSE x \in free : \A y \in free : x <= y, endpoints)
  <2> DEFINE c == CHOOSE x \in free : \A y \in free : x <= y
  <2>1. free \in SUBSET Nat
    BY PoolAssumption DEF AvailableCheckpoints, Checkpoints
  <2>2. c \in free
    <3>1. \E x \in free : \A y \in free : x <= y
      BY <1>4, <2>1, NatLeast
    <3> QED BY <3>1
  <2>3. c \in Checkpoints /\ ~pool.ckpt[c].occupied
    BY <2>2 DEF AvailableCheckpoints
  <2>4. pool' = CapturePrefixCheckpoint(pool, r, c).pool
        /\ endpoints' = endpoints \cup {EndpointFor(r, CapturePrefixCheckpoint(pool, r, c).handle)}
    BY <1>4
  <2> HIDE DEF c, r
  <2>5. \A f \in endpoints : f.ckpt.row # c
    BY <2>3 DEF HybridInv, Filing, ValidCheckpoint
  <2>6. Rowwise(pool, pool)
    BY <1>3 DEF Rowwise
  <2> QED BY <1>1, <1>2, <2>3, <2>4, <2>5, <2>6, SealFacts
<1>5. ASSUME NEW e \in endpoints, ~IsLeased(e),
             Seal(ReleasePrefixCheckpoint(pool, e.ckpt), e.ckpt.row, endpoints \ {e})
      PROVE  HybridInv'
  <2> DEFINE p == ReleasePrefixCheckpoint(pool, e.ckpt)
             c == e.ckpt.row
             kept == endpoints \ {e}
  <2>1. /\ c \in Checkpoints /\ pool.ckpt[c].occupied
        /\ pool.ckpt[c].generation = e.ckpt.generation
    BY <1>5 DEF HybridInv, Filing, ValidCheckpoint
  <2>2. pool' = CapturePrefixCheckpoint(p, r, c).pool
        /\ endpoints' = kept \cup {EndpointFor(r, CapturePrefixCheckpoint(p, r, c).handle)}
    BY <1>5
  <2>3. Rowwise(pool, p) /\ \A x \in Checkpoints : x # c => p.ckpt[x] = pool.ckpt[x]
    BY <1>3, <2>1, DropFacts
  <2>4. \A f \in endpoints : f \in kept <=> f.ckpt.row # c
    BY <1>5, EndpointsApart
  <2>5. \A i \in Rows : plan[i].ckpt # NoCheckpoint => \A f \in endpoints :
            f.ckpt = plan[i].ckpt => f \in kept
    BY <1>5 DEF IsLeased
  <2>6. kept \subseteq endpoints
    OBVIOUS
  <2> HIDE DEF p, c, kept, r
  <2> QED BY <1>1, <1>2, <2>1, <2>2, <2>3, <2>4, <2>5, <2>6, SealFacts
<1> QED BY <1>1, <1>4, <1>5

(* A failed capture stops the engine with its row unfiled. *)
LEMMA CaptureFaultStep ==
    ASSUME HybridInv, CaptureFault, UNCHANGED config
    PROVE  HybridInv'
<1>1. /\ phase = "sealing" /\ phase' = "dead" /\ fault' = "device"
      /\ res' = NoReservation /\ target' = [x \in Requests |-> NoTable]
      /\ UNCHANGED <<paged, resident, length, processed, plan>>
  BY DEF CaptureFault, Die
<1>2. PICK c \in Checkpoints :
        /\ \/ c \in AvailableCheckpoints(pool) /\ UNCHANGED endpoints
           \/ \E e \in endpoints : /\ e.ckpt.row = c /\ ~IsLeased(e)
                                   /\ endpoints' = endpoints \ {e}
        /\ pool' = Unwind(CaptureFailed([pool EXCEPT !.ckpt[c].occupied = FALSE], c), res)
  BY DEF CaptureFault
<1> DEFINE q == CaptureFailed([pool EXCEPT !.ckpt[c].occupied = FALSE], c)
<1>3. /\ IsPool(q) /\ q.slot = pool.slot /\ q.index = pool.index
      /\ FlushDeferredReplay(q).bank = FlushDeferredReplay(pool).bank
      /\ \A x \in Checkpoints : x # c => q.ckpt[x] = pool.ckpt[x]
  BY PhaseFacts, CaptureFailedFacts
<1>4. pool' = Unwind(q, res)
  BY <1>2
<1> HIDE DEF q
<1>5. res.state = "Committed" /\ phase \in Open \ {"published"}
  BY <1>1 DEF HybridInv, Control, Flipped, Open
<1>6. /\ IsPool(pool') /\ pool'.live = FALSE /\ pool'.index = q.index /\ pool'.ckpt = q.ckpt
      /\ pool'.slot = [s \in Slots |->
           IF IsProvisional(q, res, s)
           THEN FreeSlot(q.slot[s].generation, q.slot[s].active_bank) ELSE q.slot[s]]
      /\ FlushDeferredReplay(pool').bank = FlushDeferredReplay(q).bank
  <2>1. Unwound(q, res, pool')
    BY <1>3, <1>4, <1>5, UnwindFacts
  <2> QED BY <1>5, <2>1 DEF Unwound
<1>7. pool'.slot = [s \in Slots |->
           IF pool.slot[s].ownership = "Reserved"
           THEN FreeSlot(pool.slot[s].generation, pool.slot[s].active_bank) ELSE pool.slot[s]]
  BY <1>3, <1>6, ProvisionalSlots
<1>8. \A s \in Slots : pool.slot[s].ownership = "Committed" =>
            VisibleRow(pool', s) = VisibleRow(pool, s)
  BY <1>3, <1>6, <1>7 DEF VisibleRow
<1>9. /\ endpoints' \subseteq endpoints
      /\ \A f \in endpoints' : f.ckpt.row # c
      /\ \A f \in endpoints : f \in endpoints' \/ ~IsLeased(f)
  <2>1. CASE c \in AvailableCheckpoints(pool) /\ UNCHANGED endpoints
    BY <2>1 DEF AvailableCheckpoints, HybridInv, Filing, ValidCheckpoint
  <2>2. CASE \E e \in endpoints : /\ e.ckpt.row = c /\ ~IsLeased(e)
                                  /\ endpoints' = endpoints \ {e}
    BY <2>2, EndpointsApart
  <2> QED BY <1>2, <2>1, <2>2
<1>10. Filing'
  <2>1. ASSUME NEW f \in endpoints'
        PROVE  /\ ValidCheckpoint(pool', f.ckpt) /\ f.ckpt.count = Len(f.tokens)
               /\ pool'.ckpt[f.ckpt.row].row = f.tokens
    <3>1. /\ f.ckpt.row # c /\ ValidCheckpoint(pool, f.ckpt) /\ f.ckpt.count = Len(f.tokens)
          /\ pool.ckpt[f.ckpt.row].row = f.tokens
      BY <1>9 DEF HybridInv, Filing
    <3> QED BY <1>3, <1>6, <3>1 DEF ValidCheckpoint
  <2>2. Rows' = Rows
    BY <1>1 DEF Rows
  <2>3. ASSUME NEW i \in Rows, plan[i].ckpt # NoCheckpoint
        PROVE  \E f \in endpoints' : /\ f.ckpt = plan[i].ckpt
                                     /\ f.tokens = Prefix(plan[i].request, f.ckpt.count)
    <3>1. PICK f \in endpoints : /\ f.ckpt = plan[i].ckpt
                                 /\ f.tokens = Prefix(plan[i].request, f.ckpt.count)
      BY <2>3 DEF HybridInv, Filing
    <3> QED BY <1>9, <3>1 DEF IsLeased
  <2>4. \A i \in Rows' : plan'[i].ckpt # NoCheckpoint =>
            \E f \in endpoints' : /\ f.ckpt = plan'[i].ckpt
                                  /\ f.tokens = Prefix(plan[i].request, f.ckpt.count)'
    BY <1>1, <2>2, <2>3, SamePrefix
  <2> QED BY <1>1, <2>1, <2>4 DEF Filing
<1>11. endpoints' \subseteq EndpointSet
  BY <1>9 DEF HybridInv, Types
<1> QED BY <1>1, <1>3, <1>5, <1>6, <1>7, <1>8, <1>10, <1>11, UndoneStep

-----------------------------------------------------------------------------
(* The end of a committed step. *)

(* The end of a committed step. *)
LEMMA EndStepStep ==
    ASSUME HybridInv, EndStep, UNCHANGED config
    PROVE  HybridInv'
<1>1. /\ phase = "sealing" /\ pool' = Finish(pool) /\ res' = NoReservation
      /\ target' = [r \in Requests |-> NoTable]
      /\ plan' = <<>> /\ phase' = "idle"
      /\ UNCHANGED <<config, paged, resident, length, processed, endpoints, fault>>
  BY DEF EndStep
<1>2. /\ IsPool(pool') /\ pool'.live = FALSE /\ pool'.slot = pool.slot
      /\ pool'.index = pool.index /\ pool'.ckpt = pool.ckpt /\ pool'.healthy = pool.healthy
      /\ FlushDeferredReplay(pool').bank = FlushDeferredReplay(pool).bank
  BY <1>1, PhaseFacts, FinishFacts DEF Finished
<1>3. Rows' = {} /\ \A r : ~IsPlanned(r)'
  BY <1>1 DEF Rows, IsPlanned
<1>4. Types'
  <2>1. plan' \in Seq(EntrySet)
    BY <1>1
  <2> QED BY <1>1, <1>2, <2>1 DEF HybridInv, Types, NoReservation, ReservationSet, NoTable
<1>5. Control'
  BY <1>1, <1>2 DEF HybridInv, Control, ContractHolds, Open, Flipping, Flipped
<1>6. Progress'
  BY <1>1, SamePrefix DEF HybridInv, Progress
<1>7. Boundaries'
  BY <1>1, <1>2, <1>3, SamePrefix, SameOwners DEF HybridInv, Boundaries
<1>8. Slotting'
  <2>1. \A s \in Slots : pool'.slot[s].ownership # "Reserved"
    BY <1>1, <1>2 DEF HybridInv, Slotting, Flipping
  <2> QED BY <1>2, <2>1, SameOwners DEF HybridInv, Slotting, SlotsAreOwnedOnce
<1>9. Planning'
  BY <1>1, <1>3 DEF Planning, Flipping, Flipped
<1>10. Reserving' /\ Contents'
  BY <1>1 DEF Reserving, Contents, Flipping
<1>11. VisibleStateIsCommitted'
  BY <1>1, <1>2, SameOwners, VisibleKept DEF VisibleRow, HybridInv, Control, NoFault
<1>12. Filing'
  BY <1>1, <1>2, <1>3 DEF HybridInv, Filing, ValidCheckpoint
<1> QED BY <1>4, <1>5, <1>6, <1>7, <1>8, <1>9, <1>10, <1>11, <1>12 DEF HybridInv

(* A row of an open reservation ends where its paged table will. *)
LEMMA RowFacts ==
    ASSUME HybridInv, phase \in Flipping, NEW i \in Rows
    PROVE  LET e == plan[i]
               row == res.rows[i] IN
           /\ e \in EntrySet /\ row \in RowSet /\ i \in DOMAIN res.rows /\ row.slot \in Slots
           /\ e.request \in DOMAIN Stream /\ IsPlanned(e.request)
           /\ row.target = target[e.request] /\ row.target # NoTable
           /\ row.target \in e.start + e.count .. e.start + e.count + e.drafts
           /\ row.target < Len(Stream[e.request])
<1> DEFINE e == plan[i]
           row == res.rows[i]
<1>1. e \in EntrySet /\ i \in DOMAIN res.rows
  BY DEF HybridInv, Types, Rows, Reserving
<1>2. row \in RowSet
  BY <1>1 DEF HybridInv, Types, ReservationSet
<1>3. row.target = target[e.request] /\ Narrowed(row, e)
  BY DEF HybridInv, Reserving
<1>4. Feasible(e)
  BY DEF HybridInv, Planning
<1> HIDE DEF e, row
<1>5. /\ e.request \in Requests /\ e.start \in Nat /\ e.count \in Nat /\ e.drafts \in Nat
      /\ e.good \in Nat /\ e.before \in Nat
      /\ row.target \in Nat /\ row.kept \in Nat /\ row.slot \in Slots
  BY <1>1, <1>2 DEF EntrySet, RowSet
<1>6. e.request \in DOMAIN Stream
  BY <1>4 DEF Feasible
<1>7. Len(Stream[e.request]) \in Nat
  BY <1>6, StreamFacts DEF HybridInv
<1>8. e.good <= e.drafts /\ e.start + e.count <= e.before
      /\ e.before + e.drafts < Len(Stream[e.request])
  BY <1>4 DEF Feasible
<1>9. row.target \in e.start + e.count .. e.start + e.count + e.drafts
  <2>1. CASE row.target = e.start + e.count + e.drafts
    BY <1>5, <2>1
  <2>2. CASE row.kept \in e.count .. e.count + e.good /\ row.target = e.start + row.kept
    <3> DEFINE a == e.start
               c == e.count
               d == e.drafts
               g == e.good
               k == row.kept
    <3>1. /\ a \in Nat /\ c \in Nat /\ d \in Nat /\ g \in Nat /\ k \in Nat
          /\ g <= d /\ k \in c .. c + g
      BY <1>5, <1>8, <2>2
    <3> HIDE DEF a, c, d, g, k
    <3>2. a + k \in a + c .. a + c + d
      BY <3>1
    <3> QED BY <2>2, <3>2 DEF a, c, d, k
  <2> QED BY <1>3, <2>1, <2>2 DEF Narrowed
<1>10. row.target < Len(Stream[e.request])
  BY <1>5, <1>7, <1>8, <1>9
<1>11. IsPlanned(e.request)
  BY DEF IsPlanned, e
<1> QED BY <1>1, <1>2, <1>3, <1>5, <1>6, <1>9, <1>10, <1>11 DEF e, row, NoTable

(* The paged tables are published first. *)
LEMMA CommitPagedStep ==
    ASSUME HybridInv, CommitPaged, UNCHANGED config
    PROVE  HybridInv'
<1>1. /\ phase = "prepared" /\ phase' = "published"
      /\ paged' = [r \in Requests |-> IF target[r] = NoTable THEN paged[r] ELSE target[r]]
      /\ UNCHANGED <<config, pool, res, target, resident, length, processed, plan, endpoints, fault>>
  BY DEF CommitPaged, engineVars
<1>2. Rows' = Rows /\ \A r : IsPlanned(r)' <=> IsPlanned(r)
  BY <1>1 DEF Rows, IsPlanned
<1>3. ASSUME NEW r \in Requests, IsPlanned(r)
      PROVE  /\ target[r] # NoTable /\ paged'[r] = target[r]
             /\ r \in DOMAIN Stream /\ target[r] <= Len(Stream[r])
  <2>1. PICK i \in Rows : plan[i].request = r
    BY <1>3 DEF IsPlanned
  <2>2. phase \in Flipping
    BY <1>1 DEF Flipping
  <2>3. /\ r \in DOMAIN Stream /\ res.rows[i].target = target[r] /\ target[r] # NoTable
        /\ target[r] < Len(Stream[r]) /\ res.rows[i] \in RowSet
    BY <2>1, <2>2, RowFacts
  <2>4. Len(Stream[r]) \in Nat /\ target[r] \in Nat
    BY <2>3, StreamFacts DEF HybridInv, RowSet
  <2> QED BY <1>1, <2>3, <2>4
<1>4. ASSUME NEW r \in Requests, ~IsPlanned(r)
      PROVE  paged'[r] = paged[r]
  BY <1>1, <1>4 DEF HybridInv, Reserving, Flipping
<1>5. Types'
  BY <1>1 DEF HybridInv, Types, Open, Flipping
<1>6. Control'
  BY <1>1 DEF HybridInv, Control, ContractHolds, Open, Flipping, Flipped
<1>7. Progress'
  BY <1>1, SamePrefix DEF HybridInv, Progress
<1>8. Boundaries'
  <2> SUFFICES ASSUME NEW r \in Requests
               PROVE  /\ OwnsCommittedSlot(pool', r) <=> r \in resident'
                      /\ ~IsPlanned(r) =>
                          /\ r \in resident' => paged'[r] = CommittedTokens(pool', r)
                          /\ r \notin resident' => paged'[r] = NoTable
                      /\ IsPlanned(r) => paged'[r] = target'[r]
                      /\ r \in resident' /\ ~IsPlanned(r) => paged'[r] = processed'[r]
                      /\ paged'[r] # NoTable => r \in DOMAIN Stream' /\ paged'[r] <= Len(Stream'[r])
    BY <1>1, <1>2 DEF Boundaries
  <2>1. /\ OwnsCommittedSlot(pool, r) <=> r \in resident
        /\ r \in resident => paged[r] = CommittedTokens(pool, r)
        /\ r \notin resident => paged[r] = NoTable
        /\ r \in resident => paged[r] = processed[r]
        /\ paged[r] # NoTable => r \in DOMAIN Stream /\ paged[r] <= Len(Stream[r])
    BY <1>1 DEF HybridInv, Boundaries
  <2>2. CASE IsPlanned(r)
    BY <1>1, <1>3, <2>1, <2>2, SamePrefix
  <2>3. CASE ~IsPlanned(r)
    BY <1>1, <1>4, <2>1, <2>3, SamePrefix
  <2> QED BY <2>2, <2>3
<1>9. Slotting'
  BY <1>1 DEF HybridInv, Slotting, SlotsAreOwnedOnce, Flipping
<1>10. Planning'
  <2>1. \A e : Feasible(e)' <=> Feasible(e)
    BY <1>1, SamePrefix DEF Feasible
  <2> QED BY <1>1, <1>2, <2>1 DEF HybridInv, Planning, Flipping, Flipped
<1>11. Reserving'
  <2>1. \A i \in Rows : Narrowed(res.rows[i], plan[i]) =>
            Narrowed(res.rows[i], plan[i])'
    BY <1>1 DEF Narrowed
  <2>2. \A i \in Rows : Holds(res.rows[i], pool.slot[res.rows[i].slot], plan[i]) =>
            Holds(res.rows[i], pool.slot[res.rows[i].slot], plan[i])'
    BY <1>1 DEF Holds
  <2> QED BY <1>1, <1>2, <2>1, <2>2 DEF HybridInv, Reserving, Flipping
<1>12. Contents'
  <2>1. \A s : HiddenRow(pool', s) = HiddenRow(pool, s)
    BY <1>1
  <2> QED BY <1>1, <1>2, <2>1, SamePrefix DEF HybridInv, Contents, Flipping
<1>13. VisibleStateIsCommitted'
  BY <1>1, VisibleKept DEF HybridInv, Control, NoFault
<1>14. Filing'
  BY <1>1, SameFiling DEF HybridInv
<1> QED BY <1>5, <1>6, <1>7, <1>8, <1>9, <1>10, <1>11, <1>12, <1>13, <1>14 DEF HybridInv

(* The flip shows, for every row, the state of exactly the tokens its table  *)
(* holds.                                                                    *)
LEMMA CommitFixedStep ==
    ASSUME HybridInv, CommitFixed, UNCHANGED config
    PROVE  HybridInv'
<1>1. /\ phase = "published" /\ res.state = "Prepared" /\ phase \in Flipping
  BY DEF CommitFixed, HybridInv, Control, Flipping
<1>2. /\ pool' = PublishCommit(pool, res).pool /\ res' = [res EXCEPT !.state = "Committed"]
      /\ resident' = resident \cup {plan[i].request : i \in Rows}
      /\ phase' = "committed"
      /\ UNCHANGED <<config, paged, target, length, processed, plan, endpoints, fault>>
  BY <1>1 DEF CommitFixed, MayPublish, PublishCommit, engineVars
<1>3. IsPool(pool) /\ res \in ReservationSet
  BY DEF HybridInv, Types
<1>4. /\ DOMAIN res.rows = Rows
      /\ \A i, j \in Rows : res.rows[i].slot = res.rows[j].slot => i = j
      /\ \A i \in Rows : /\ Holds(res.rows[i], pool.slot[res.rows[i].slot], plan[i])
                         /\ res.rows[i].request = plan[i].request
                         /\ res.rows[i].provisional = plan[i].newly
  BY <1>1 DEF HybridInv, Reserving, Holds
<1>5. \A i, j \in Rows : res.rows[i].request = res.rows[j].request => i = j
  BY <1>4 DEF HybridInv, Planning
<1>6. Published(pool, res, pool')
  BY <1>2, <1>3, <1>4, <1>5, PublishFacts
<1>7. /\ IsPool(pool') /\ pool'.ckpt = pool.ckpt /\ pool'.healthy = pool.healthy
      /\ pool'.live = pool.live
      /\ FlushDeferredReplay(pool').bank = FlushDeferredReplay(pool).bank
  BY <1>6 DEF Published
<1>8. ASSUME NEW i \in Rows
      PROVE  LET s == res.rows[i].slot IN
             /\ s \in Slots /\ pool'.slot[s].request = plan[i].request
             /\ pool'.slot[s].committed_tokens = res.rows[i].target
             /\ pool'.slot[s].ownership = "Committed"
             /\ pool'.slot[s].active_bank = Other(pool.slot[s].active_bank)
  <2>1. res.rows[i] \in RowSet /\ res.rows[i].slot \in Slots
    BY <1>1, RowFacts
  <2>2. pool.slot[res.rows[i].slot] \in SlotSet
    BY <1>3, <2>1, ActiveBank
  <2>3. pool'.slot[res.rows[i].slot] = PublishedSlot(pool.slot[res.rows[i].slot], res.rows[i])
    BY <1>4, <1>6 DEF Published
  <2>4. pool.slot[res.rows[i].slot].request = plan[i].request
    BY <1>4 DEF Holds
  <2> QED BY <2>1, <2>2, <2>3, <2>4, PublishedFacts
<1>9. ASSUME NEW i \in Rows, ~plan[i].newly
      PROVE  pool.index[plan[i].request] = res.rows[i].slot
  <2>1. pool.slot[res.rows[i].slot].ownership = "Committed"
        /\ pool.slot[res.rows[i].slot].request = plan[i].request
    BY <1>4, <1>9 DEF Holds
  <2> QED BY <1>8, <2>1 DEF HybridInv, Slotting, SlotsAreOwnedOnce
<1>10. ASSUME NEW i \in Rows
       PROVE  /\ plan[i].request \in Requests /\ IsPlanned(plan[i].request)
              /\ pool'.index[plan[i].request] = res.rows[i].slot
              /\ res.rows[i].target = target[plan[i].request]
              /\ res.rows[i].target \in
                    plan[i].start + plan[i].count .. plan[i].start + plan[i].count + plan[i].drafts
  <2>1. /\ plan[i] \in EntrySet /\ IsPlanned(plan[i].request)
        /\ res.rows[i].target = target[plan[i].request]
        /\ res.rows[i].target \in
               plan[i].start + plan[i].count .. plan[i].start + plan[i].count + plan[i].drafts
    BY <1>1, RowFacts
  <2>2. plan[i].request \in Requests
    BY <2>1 DEF EntrySet
  <2>3. CASE plan[i].newly
    BY <1>4, <1>6, <2>1, <2>2, <2>3 DEF Published
  <2>4. CASE ~plan[i].newly
    <3>1. \A j \in DOMAIN res.rows :
             res.rows[j].request = plan[i].request => ~res.rows[j].provisional
      BY <1>4, <1>5, <2>4
    <3>2. pool'.index[plan[i].request] = pool.index[plan[i].request]
      BY <1>6, <2>2, <3>1 DEF Published
    <3> QED BY <1>9, <2>1, <2>2, <2>4, <3>2
  <2> QED BY <2>3, <2>4
<1>11. ASSUME NEW r \in Requests, ~IsPlanned(r)
       PROVE  /\ pool'.index[r] = pool.index[r]
              /\ OwnsCommittedSlot(pool, r) =>
                    /\ pool'.slot[pool.index[r]] = pool.slot[pool.index[r]]
                    /\ pool.index[r] \notin SlotsOf(res.rows)
  <2>1. \A j \in DOMAIN res.rows : res.rows[j].request # r
    BY <1>4, <1>11 DEF IsPlanned
  <2>2. pool'.index[r] = pool.index[r]
    BY <1>6, <2>1 DEF Published
  <2>3. ASSUME OwnsCommittedSlot(pool, r)
        PROVE  /\ pool'.slot[pool.index[r]] = pool.slot[pool.index[r]]
               /\ pool.index[r] \notin SlotsOf(res.rows)
    <3>1. pool.index[r] \in Slots /\ pool.slot[pool.index[r]].request = r
      BY <2>3, OwnerFacts
    <3>2. pool.index[r] \notin SlotsOf(res.rows)
      BY <1>4, <2>1, <3>1 DEF SlotsOf, Holds
    <3> QED BY <1>6, <3>1, <3>2 DEF Published
  <2> QED BY <2>2, <2>3
<1>12. \A r \in Requests : r \in resident' <=> r \in resident \/ IsPlanned(r)
  BY <1>2 DEF IsPlanned
<1>13. Rows' = Rows /\ \A r : IsPlanned(r)' <=> IsPlanned(r)
  BY <1>2 DEF Rows, IsPlanned
<1>14. \A s \in Slots : s # NoSlot
  BY PoolAssumption DEF Slots, NoSlot
<1>15. Types'
  <2>1. resident' \subseteq Requests
    BY <1>2, <1>10 DEF HybridInv, Types
  <2>2. res' \in ReservationSet
    BY <1>2, <1>3 DEF ReservationSet
  <2> QED BY <1>2, <1>7, <2>1, <2>2 DEF HybridInv, Types, Open, Flipped
<1>16. Control'
  <2>1. res'.state = "Committed"
    BY <1>2, <1>3 DEF ReservationSet
  <2> QED BY <1>1, <1>2, <1>7, <2>1 DEF HybridInv, Control, ContractHolds, Open, Flipping, Flipped
<1>17. Progress'
  BY <1>2, <1>12, SamePrefix DEF HybridInv, Progress
<1>18. Boundaries'
  <2> SUFFICES ASSUME NEW r \in Requests
               PROVE  /\ OwnsCommittedSlot(pool', r) <=> r \in resident'
                      /\ r \in resident' => paged'[r] = CommittedTokens(pool', r)
                      /\ r \notin resident' => paged'[r] = NoTable
                      /\ r \in resident' /\ ~IsPlanned(r) => paged'[r] = processed'[r]
                      /\ paged'[r] # NoTable => r \in DOMAIN Stream' /\ paged'[r] <= Len(Stream'[r])
    BY <1>2, <1>13 DEF Boundaries
  <2>1. paged[r] # NoTable => r \in DOMAIN Stream /\ paged[r] <= Len(Stream[r])
    BY DEF HybridInv, Boundaries
  <2>2. CASE IsPlanned(r)
    <3>1. PICK i \in Rows : plan[i].request = r
      BY <2>2 DEF IsPlanned
    <3>2. paged[r] = target[r]
      BY <1>1, <2>2 DEF HybridInv, Boundaries
    <3>3. OwnsCommittedSlot(pool', r) /\ CommittedTokens(pool', r) = target[r]
      BY <1>8, <1>10, <1>14, <3>1 DEF OwnsCommittedSlot, CommittedTokens
    <3> QED BY <1>2, <1>12, <2>1, <2>2, <3>2, <3>3, SamePrefix
  <2>3. CASE ~IsPlanned(r)
    <3>1. /\ OwnsCommittedSlot(pool, r) <=> r \in resident
          /\ r \in resident => paged[r] = CommittedTokens(pool, r)
          /\ r \notin resident => paged[r] = NoTable
          /\ r \in resident => paged[r] = processed[r]
      BY <1>1, <2>3 DEF HybridInv, Boundaries
    <3>2. OwnsCommittedSlot(pool', r) <=> OwnsCommittedSlot(pool, r)
      BY <1>11, <2>3 DEF OwnsCommittedSlot
    <3>3. OwnsCommittedSlot(pool, r) => CommittedTokens(pool', r) = CommittedTokens(pool, r)
      BY <1>11, <2>3 DEF CommittedTokens
    <3> QED BY <1>2, <1>12, <2>1, <2>3, <3>1, <3>2, <3>3, SamePrefix
  <2> QED BY <2>2, <2>3
<1>19. ASSUME NEW s \in Slots, s \notin SlotsOf(res.rows)
       PROVE  pool'.slot[s] = pool.slot[s] /\ pool.slot[s].ownership # "Reserved"
  <2>1. pool'.slot[s] = pool.slot[s]
    BY <1>6, <1>19 DEF Published
  <2>2. pool.slot[s].ownership # "Reserved"
    BY <1>19 DEF HybridInv, Slotting, SlotsAreOwnedOnce, SlotsOf
  <2> QED BY <2>1, <2>2
<1>20. Slotting'
  <2>1. \A s \in Slots : pool'.slot[s].ownership # "Reserved"
    BY <1>4, <1>8, <1>19 DEF SlotsOf
  <2>2. ASSUME NEW s \in Slots, pool'.slot[s].ownership = "Committed"
        PROVE  pool'.slot[s].request \in Requests /\ pool'.index[pool'.slot[s].request] = s
    <3>1. CASE s \in SlotsOf(res.rows)
      <4>1. PICK i \in Rows : res.rows[i].slot = s
        BY <1>4, <3>1 DEF SlotsOf
      <4> QED BY <1>8, <1>10, <4>1
    <3>2. CASE s \notin SlotsOf(res.rows)
      <4> DEFINE r == pool.slot[s].request
      <4>1. pool'.slot[s] = pool.slot[s] /\ pool.slot[s].ownership = "Committed"
        BY <1>19, <2>2, <3>2
      <4>2. r \in Requests /\ pool.index[r] = s
        BY <4>1 DEF HybridInv, Slotting, SlotsAreOwnedOnce
      <4>3. ~IsPlanned(r)
        <5> SUFFICES ASSUME NEW i \in Rows, plan[i].request = r PROVE FALSE
          BY DEF IsPlanned
        <5>1. r \in resident
          BY <1>14, <4>2 DEF HybridInv, Boundaries, OwnsCommittedSlot
        <5>2. ~plan[i].newly
          BY <1>1, <5>1 DEF HybridInv, Planning
        <5>3. s = res.rows[i].slot
          BY <1>9, <4>2, <5>2
        <5> QED BY <1>4, <3>2, <5>3 DEF SlotsOf
      <4> QED BY <1>11, <4>1, <4>2, <4>3
    <3> QED BY <3>1, <3>2
  <2>3. ASSUME NEW r \in Requests, OwnsCommittedSlot(pool', r)
        PROVE  /\ pool'.slot[pool'.index[r]].request = r
               /\ pool'.slot[pool'.index[r]].ownership = "Committed"
    <3>1. CASE IsPlanned(r)
      BY <1>8, <1>10, <3>1 DEF IsPlanned
    <3>2. CASE ~IsPlanned(r)
      <4>1. OwnsCommittedSlot(pool, r)
        BY <1>11, <2>3, <3>2 DEF OwnsCommittedSlot
      <4> QED BY <1>11, <3>2, <4>1, OwnerFacts
    <3> QED BY <3>1, <3>2
  <2> QED BY <2>1, <2>2, <2>3 DEF Slotting, SlotsAreOwnedOnce
<1>21. Planning'
  <2>1. \A e : Feasible(e)' <=> Feasible(e)
    BY <1>2, SamePrefix DEF Feasible
  <2>2. \A i \in Rows : Feasible(plan[i])
    BY <1>1 DEF HybridInv, Planning
  <2>3. \A i \in Rows : paged[plan[i].request] \in
            plan[i].start + plan[i].count .. plan[i].start + plan[i].count + plan[i].drafts
    <3> SUFFICES ASSUME NEW i \in Rows
                 PROVE  paged[plan[i].request] = res.rows[i].target
      BY <1>10
    <3> QED BY <1>1, <1>10 DEF HybridInv, Boundaries
  <2>4. \A i \in Rows : plan[i].request \in resident'
    BY <1>2
  <2>5. \A i, j \in Rows : plan[i].request = plan[j].request => i = j
    BY DEF HybridInv, Planning
  <2> QED BY <1>2, <1>13, <2>1, <2>2, <2>3, <2>4, <2>5 DEF Planning, Flipping
<1>22. Reserving' /\ Contents'
  BY <1>2 DEF Reserving, Contents, Flipping
<1>23. VisibleStateIsCommitted'
  <2> SUFFICES ASSUME NEW r \in Requests, OwnsCommittedSlot(pool', r)
               PROVE  VisibleRow(pool', pool'.index[r]) = Prefix(r, CommittedTokens(pool, r))'
    BY DEF VisibleStateIsCommitted
  <2>1. CASE IsPlanned(r)
    <3>1. PICK i \in Rows : plan[i].request = r
      BY <2>1 DEF IsPlanned
    <3>2. HiddenRow(pool, res.rows[i].slot) = Prefix(r, res.rows[i].target)
      BY <1>1, <3>1 DEF HybridInv, Contents
    <3>3. VisibleRow(pool', pool'.index[r]) = HiddenRow(pool, res.rows[i].slot)
      BY <1>7, <1>8, <1>10, <3>1 DEF VisibleRow, HiddenRow
    <3>4. CommittedTokens(pool, r)' = res.rows[i].target
      BY <1>8, <1>10, <3>1 DEF CommittedTokens
    <3> QED BY <3>2, <3>3, <3>4, SamePrefix DEF Prefix, Stream
  <2>2. CASE ~IsPlanned(r)
    <3>1. OwnsCommittedSlot(pool, r) /\ pool'.index[r] = pool.index[r]
      BY <1>11, <2>2 DEF OwnsCommittedSlot
    <3>2. pool'.slot[pool.index[r]] = pool.slot[pool.index[r]]
      BY <1>11, <2>2, <3>1
    <3>3. VisibleRow(pool, pool.index[r]) = Prefix(r, CommittedTokens(pool, r))
      BY <1>1, <3>1 DEF HybridInv, VisibleStateIsCommitted, Control, NoFault
    <3>4. VisibleRow(pool', pool'.index[r]) = VisibleRow(pool, pool.index[r])
      BY <1>7, <3>1, <3>2 DEF VisibleRow
    <3>5. CommittedTokens(pool, r)' = CommittedTokens(pool, r)
      BY <3>1, <3>2 DEF CommittedTokens
    <3> QED BY <3>3, <3>4, <3>5, SamePrefix DEF Prefix, Stream
  <2> QED BY <2>1, <2>2
<1>24. Filing'
  BY <1>1, <1>2, <1>7, SameFiling DEF HybridInv
<1> QED BY <1>15, <1>16, <1>17, <1>18, <1>20, <1>21, <1>22, <1>23, <1>24 DEF HybridInv

(* The requests follow their tables. *)
LEMMA CommitRequestsStep ==
    ASSUME HybridInv, CommitRequests, UNCHANGED config
    PROVE  HybridInv'
<1>1. /\ phase = "committed" /\ phase' = "sealing"
      /\ processed' = [r \in Requests |-> IF IsPlanned(r) THEN paged[r] ELSE processed[r]]
      /\ length' = [r \in Requests |->
              IF IsPlanned(r) /\ paged[r] >= length[r] THEN paged[r] + 1 ELSE length[r]]
      /\ plan' = [i \in Rows |-> [plan[i] EXCEPT !.ckpt = NoCheckpoint]]
      /\ UNCHANGED <<config, pool, res, paged, target, resident, endpoints, fault>>
  BY DEF CommitRequests
<1>2. /\ plan' \in Seq(EntrySet) /\ Rows' = Rows
      /\ \A i \in Rows : plan'[i].request = plan[i].request /\ plan'[i].ckpt = NoCheckpoint
  <2>1. NoCheckpoint \in HandleSet
    BY DEF NoCheckpoint, HandleSet
  <2>2. \A i \in Rows : plan[i] \in EntrySet
    BY DEF HybridInv, Types, Rows
  <2>3. plan \in Seq(EntrySet) /\ Rows = 1 .. Len(plan) /\ Len(plan) \in Nat
    BY DEF HybridInv, Types, Rows
  <2>4. ASSUME NEW i \in Rows
        PROVE  /\ plan'[i] \in EntrySet
               /\ plan'[i].request = plan[i].request /\ plan'[i].ckpt = NoCheckpoint
    <3> DEFINE t == [plan[i] EXCEPT !.ckpt = NoCheckpoint]
    <3>1. plan'[i] = t
      BY <1>1
    <3>2. t \in EntrySet /\ t.request = plan[i].request /\ t.ckpt = NoCheckpoint
      BY <2>1, <2>2 DEF EntrySet
    <3> QED BY <3>1, <3>2
  <2>5. DOMAIN plan' = 1 .. Len(plan) /\ plan' = [i \in 1 .. Len(plan) |-> plan'[i]]
    BY <1>1, <2>3
  <2>6. plan' \in Seq(EntrySet)
    BY <2>3, <2>4, <2>5
  <2>7. Rows' = Rows
    BY <2>3, <2>5 DEF Rows
  <2> QED BY <2>4, <2>6, <2>7
<1>3. \A r : IsPlanned(r)' <=> IsPlanned(r)
  BY <1>2 DEF IsPlanned
<1>4. ASSUME NEW r \in Requests, IsPlanned(r)
      PROVE  /\ r \in resident /\ paged[r] \in Nat /\ r \in DOMAIN Stream
             /\ length[r] # 0 /\ length[r] \in Nat
             /\ paged[r] < Len(Stream[r]) /\ Len(Stream[r]) \in Nat /\ length[r] <= Len(Stream[r])
             /\ \/ paged[r] < Prompt[r] /\ length[r] = Prompt[r]
                \/ paged[r] >= Prompt[r] /\ length[r] <= paged[r] + 1
  <2>1. PICK i \in Rows : plan[i].request = r
    BY <1>4 DEF IsPlanned
  <2> DEFINE e == plan[i]
  <2>2. e \in EntrySet /\ Feasible(e) /\ r \in resident
        /\ paged[r] \in e.start + e.count .. e.start + e.count + e.drafts
    BY <1>1, <2>1 DEF HybridInv, Types, Rows, Planning, Flipped
  <2> HIDE DEF e
  <2>3. /\ e.start \in Nat /\ e.count \in Nat \ {0} /\ e.drafts \in Nat /\ e.before \in Nat
        /\ e.request = r /\ e.prefill \in BOOLEAN
    BY <2>1, <2>2 DEF EntrySet, e
  <2>4. r \in DOMAIN Stream
    BY <2>2, <2>3 DEF Feasible
  <2>5. Len(Stream[r]) \in Nat /\ Prompt[r] \in 1 .. Len(Stream[r])
    BY <2>4, StreamFacts DEF HybridInv
  <2>6. /\ e.before = length[r] /\ e.before # 0 /\ (e.prefill <=> processed[r] < Prompt[r])
        /\ e.start + e.count <= e.before /\ (e.prefill => e.drafts = 0)
        /\ (~e.prefill => e.start + e.count = e.before)
        /\ e.before + e.drafts < Len(Stream[r])
    BY <2>2, <2>3 DEF Feasible
  <2>7. \/ processed[r] < Prompt[r] /\ length[r] = Prompt[r]
        \/ processed[r] >= Prompt[r] /\ length[r] = processed[r] + 1
    BY <2>6 DEF HybridInv, Progress
  <2>8. processed[r] \in Nat
    BY DEF HybridInv, Types
  <2>9. paged[r] \in Nat /\ paged[r] < Len(Stream[r])
    BY <2>2, <2>3, <2>5, <2>6
  <2>10. \/ paged[r] < Prompt[r] /\ length[r] = Prompt[r]
         \/ paged[r] >= Prompt[r] /\ length[r] <= paged[r] + 1
    BY <2>2, <2>3, <2>5, <2>6, <2>7, <2>8, <2>9
  <2> QED BY <2>2, <2>3, <2>4, <2>5, <2>6, <2>9, <2>10
<1>5. Types'
  <2>1. processed' \in [Requests -> Nat]
    BY <1>1, <1>4 DEF HybridInv, Types
  <2>2. length' \in [Requests -> Nat]
    BY <1>1, <1>4 DEF HybridInv, Types
  <2> QED BY <1>1, <1>2, <2>1, <2>2 DEF HybridInv, Types, Open, Flipped
<1>6. Control'
  BY <1>1 DEF HybridInv, Control, ContractHolds, Open, Flipping, Flipped
<1>7. Progress'
  <2> SUFFICES ASSUME NEW r \in Requests
               PROVE  /\ length'[r] = 0 => processed'[r] = 0
                      /\ length'[r] # 0 =>
                          /\ r \in DOMAIN Stream /\ length'[r] <= Len(Stream[r])
                          /\ \/ processed'[r] < Prompt[r] /\ length'[r] = Prompt[r]
                             \/ processed'[r] >= Prompt[r] /\ length'[r] = processed'[r] + 1
                      /\ r \notin resident => processed'[r] = 0
    BY <1>1, SamePrefix DEF Progress
  <2>1. CASE ~IsPlanned(r)
    <3>1. length'[r] = length[r] /\ processed'[r] = processed[r]
      BY <1>1, <2>1
    <3> QED BY <3>1 DEF HybridInv, Progress
  <2>2. CASE IsPlanned(r)
    <3>1. /\ processed'[r] = paged[r]
          /\ length'[r] = IF paged[r] >= length[r] THEN paged[r] + 1 ELSE length[r]
      BY <1>1, <2>2
    <3>2. Prompt[r] \in Nat
      <4>1. Prompt[r] \in 1 .. Len(Stream[r]) /\ Len(Stream[r]) \in Nat
        BY <1>4, <2>2, StreamFacts DEF HybridInv
      <4> QED BY <4>1
    <3> QED BY <1>4, <2>2, <3>1, <3>2
  <2> QED BY <2>1, <2>2
<1>8. Boundaries'
  <2> SUFFICES ASSUME NEW r \in Requests
               PROVE  /\ OwnsCommittedSlot(pool, r) <=> r \in resident
                      /\ r \in resident => paged[r] = CommittedTokens(pool, r)
                      /\ r \notin resident => paged[r] = NoTable
                      /\ r \in resident => paged[r] = processed'[r]
                      /\ paged[r] # NoTable => r \in DOMAIN Stream /\ paged[r] <= Len(Stream[r])
    BY <1>1, SamePrefix DEF Boundaries
  <2>1. paged[r] = processed'[r] \/ r \notin resident
    BY <1>1 DEF HybridInv, Boundaries
  <2> QED BY <1>1, <2>1 DEF HybridInv, Boundaries
<1>9. Slotting'
  BY <1>1 DEF HybridInv, Slotting, SlotsAreOwnedOnce, Flipping
<1>10. Planning'
  <2>1. \A i, j \in Rows' : plan'[i].request = plan'[j].request => i = j
    BY <1>2 DEF HybridInv, Planning
  <2>2. \A i \in Rows' : plan'[i].request \in resident'
    BY <1>1, <1>2 DEF HybridInv, Planning, Flipped
  <2> QED BY <1>1, <2>1, <2>2 DEF Planning, Flipping
<1>11. Reserving' /\ Contents'
  BY <1>1 DEF Reserving, Contents, Flipping
<1>12. VisibleStateIsCommitted'
  BY <1>1, VisibleKept DEF HybridInv, Control, NoFault
<1>13. Filing'
  <2>1. \A i \in Rows' : plan'[i].ckpt = NoCheckpoint
    BY <1>2
  <2> QED BY <1>1, <2>1 DEF HybridInv, Filing, ValidCheckpoint
<1> QED BY <1>5, <1>6, <1>7, <1>8, <1>9, <1>10, <1>11, <1>12, <1>13 DEF HybridInv

-----------------------------------------------------------------------------
(* Execution and acceptance. *)

(* A step inside an open reservation that changes nothing visible. *)
LEMMA OpenStep ==
    ASSUME HybridInv, phase \in {"reserved", "executed", "accepted"},
           phase' \in {"executed", "accepted", "prepared"},
           UNCHANGED <<config, paged, resident, length, processed, plan, endpoints, fault>>,
           IsPool(pool'), pool'.slot = pool.slot, pool'.index = pool.index,
           pool'.ckpt = pool.ckpt, pool'.live = pool.live, pool'.healthy = pool.healthy,
           \A s \in Slots : VisibleRow(pool', s) = VisibleRow(pool, s),
           res' \in ReservationSet, target' \in [Requests -> Nat \cup {NoTable}],
           DOMAIN res'.rows = DOMAIN res.rows,
           \A i \in DOMAIN res.rows : /\ res'.rows[i].slot = res.rows[i].slot
                                      /\ res'.rows[i].provisional = res.rows[i].provisional,
           res'.state = IF phase' = "prepared" THEN "Prepared" ELSE "Reserved",
           Reserving', Contents'
    PROVE  HybridInv'
<1>1. Rows' = Rows /\ \A r : IsPlanned(r)' <=> IsPlanned(r)
  BY DEF Rows, IsPlanned
<1>2. phase # "dead" /\ phase \in Flipping /\ phase' \in Flipping /\ phase' # "published"
  BY DEF Flipping
<1>3. Types'
  BY <1>2 DEF HybridInv, Types, Open
<1>4. Control'
  BY DEF HybridInv, Control, ContractHolds, Open, Flipping, Flipped
<1>5. Progress'
  BY SamePrefix DEF HybridInv, Progress
<1>6. Boundaries'
  BY <1>1, <1>2, SamePrefix, SameOwners DEF HybridInv, Boundaries
<1>7. Slotting'
  <2>1. \A s \in Slots : pool'.slot[s].ownership = "Reserved" =>
            /\ pool'.live
            /\ \E i \in DOMAIN res'.rows : res'.rows[i].slot = s /\ res'.rows[i].provisional
    <3> SUFFICES ASSUME NEW s \in Slots, pool'.slot[s].ownership = "Reserved"
                 PROVE  /\ pool'.live
                        /\ \E i \in DOMAIN res'.rows :
                               res'.rows[i].slot = s /\ res'.rows[i].provisional
      OBVIOUS
    <3>1. pool.live /\ \E i \in DOMAIN res.rows : res.rows[i].slot = s /\ res.rows[i].provisional
      BY DEF HybridInv, Slotting, SlotsAreOwnedOnce
    <3> QED BY <3>1
  <2> QED BY <1>2, <2>1, SameOwners DEF HybridInv, Slotting, SlotsAreOwnedOnce
<1>8. Planning'
  <2>1. \A e : Feasible(e)' <=> Feasible(e)
    BY SamePrefix DEF Feasible
  <2> QED BY <1>1, <1>2, <2>1 DEF HybridInv, Planning, Flipping, Flipped
<1>9. VisibleStateIsCommitted'
  <2>1. fault # "flush"
    BY <1>2 DEF HybridInv, Control, NoFault
  <2>2. \A r \in Requests : OwnsCommittedSlot(pool', r) => pool.index[r] \in Slots
    BY SameOwners, OwnerFacts
  <2> QED BY <2>1, <2>2, SameOwners, VisibleKept
<1>10. Filing'
  BY <1>2, SameFiling DEF HybridInv
<1> QED BY <1>3, <1>4, <1>5, <1>6, <1>7, <1>8, <1>9, <1>10 DEF HybridInv

(* A resident's row holds its own slot, and starts at its boundary. *)
LEMMA ResidentRow ==
    ASSUME HybridInv, phase \in Flipping, NEW i \in Rows, ~plan[i].newly
    PROVE  /\ pool.index[plan[i].request] = res.rows[i].slot
           /\ VisibleRow(pool, res.rows[i].slot) = Prefix(plan[i].request, plan[i].start)
<1>1. plan[i].request \in Requests /\ res.rows[i].slot \in Slots
  BY RowFacts DEF EntrySet
<1>2. Holds(res.rows[i], pool.slot[res.rows[i].slot], plan[i])
  BY DEF HybridInv, Reserving
<1>3. /\ pool.slot[res.rows[i].slot].ownership = "Committed"
      /\ pool.slot[res.rows[i].slot].request = plan[i].request
      /\ pool.slot[res.rows[i].slot].committed_tokens = plan[i].start
  BY <1>2 DEF Holds
<1>4. pool.index[plan[i].request] = res.rows[i].slot
  BY <1>1, <1>3 DEF HybridInv, Slotting, SlotsAreOwnedOnce
<1>5. OwnsCommittedSlot(pool, plan[i].request)
  BY <1>1, <1>4, PoolAssumption DEF OwnsCommittedSlot, Slots, NoSlot
<1>6. fault # "flush"
  BY DEF HybridInv, Control, NoFault, Flipping
<1> QED BY <1>1, <1>3, <1>4, <1>5, <1>6 DEF HybridInv, VisibleStateIsCommitted, CommittedTokens

(* The run leaves in every row the state of its input and its tokens. *)
LEMMA DecodeStep ==
    ASSUME HybridInv, Decode, UNCHANGED config
    PROVE  HybridInv'
<1> DEFINE tokens == [i \in Rows |-> RunTokens(plan[i])]
<1>1. /\ phase = "reserved" /\ phase' = "executed" /\ phase \in Flipping
      /\ pool' = Execute(pool, res, tokens)
      /\ UNCHANGED <<res, paged, target, resident, length, processed, plan, endpoints, fault>>
  BY DEF Decode, engineVars, Flipping
<1>2. \A i \in Rows : tokens[i] = RunTokens(plan[i])
  OBVIOUS
<1> HIDE DEF tokens
<1>3. /\ IsPool(pool) /\ res \in ReservationSet /\ pool.replay = {} /\ DOMAIN res.rows = Rows
      /\ \A i, j \in Rows : res.rows[i].slot = res.rows[j].slot => i = j
      /\ res.state = "Reserved"
  BY <1>1 DEF HybridInv, Types, Contents, Reserving, Control
<1>4. Executed(pool, res, tokens, pool')
  BY <1>1, <1>3, ExecuteFacts
<1>5. /\ IsPool(pool') /\ pool'.slot = pool.slot /\ pool'.index = pool.index
      /\ pool'.ckpt = pool.ckpt /\ pool'.replay = {} /\ pool'.input = pool.input
      /\ pool'.healthy = pool.healthy /\ pool'.live = pool.live
      /\ res.captures => pool'.update = tokens
      /\ ~res.direct => \A i \in Rows : pool'.output[i] = InputOf(pool, res, i) \o tokens[i]
      /\ \A s \in Slots : pool'.bank[s][pool.slot[s].active_bank] =
                              pool.bank[s][pool.slot[s].active_bank]
      /\ res.direct => \A i \in Rows :
            pool'.bank[res.rows[i].slot][Other(pool.slot[res.rows[i].slot].active_bank)] =
                InputOf(pool, res, i) \o tokens[i]
  BY <1>3, <1>4 DEF Executed
<1>6. \A i \in Rows : InputOf(pool, res, i) = Prefix(plan[i].request, plan[i].start)
  <2> SUFFICES ASSUME NEW i \in Rows
               PROVE  InputOf(pool, res, i) = Prefix(plan[i].request, plan[i].start)
    OBVIOUS
  <2>1. CASE res.direct
    <3>1. ~plan[i].newly /\ res.rows[i].slot \in Slots
      BY <1>1, <2>1, RowFacts DEF HybridInv, Reserving
    <3>2. InputOf(pool, res, i) = pool.bank[res.rows[i].slot][pool.slot[res.rows[i].slot].active_bank]
      BY <2>1 DEF InputOf
    <3> QED BY <1>1, <3>1, <3>2, ResidentRow, VisibleNow
  <2>2. CASE ~res.direct
    BY <1>1, <2>2 DEF InputOf, HybridInv, Contents
  <2> QED BY <2>1, <2>2
<1>7. \A i \in Rows : InputOf(pool, res, i) \o tokens[i] = RunOutput(plan[i])
  BY <1>2, <1>6 DEF RunOutput
<1>8. Rows' = Rows /\ \A r : IsPlanned(r)' <=> IsPlanned(r)
  BY <1>1 DEF Rows, IsPlanned
<1>9. \A s \in Slots : VisibleRow(pool', s) = VisibleRow(pool, s)
  <2> SUFFICES ASSUME NEW s \in Slots PROVE VisibleRow(pool', s) = VisibleRow(pool, s)
    OBVIOUS
  <2>1. VisibleRow(pool, s) = pool.bank[s][pool.slot[s].active_bank]
    BY <1>3, VisibleBank
  <2>2. VisibleRow(pool', s) = pool'.bank[s][pool'.slot[s].active_bank]
    BY <1>5, VisibleBank
  <2> QED BY <1>5, <2>1, <2>2
<1>10. Reserving'
  <2>1. \A i \in Rows : Narrowed(res.rows[i], plan[i]) => Narrowed(res.rows[i], plan[i])'
    BY <1>1 DEF Narrowed
  <2>2. \A i \in Rows : Holds(res.rows[i], pool.slot[res.rows[i].slot], plan[i]) =>
            Holds(res.rows[i], pool.slot[res.rows[i].slot], plan[i])'
    BY <1>1, <1>5 DEF Holds
  <2> QED BY <1>1, <1>8, <2>1, <2>2 DEF HybridInv, Reserving, Flipping
<1>11. Contents'
  <2>1. ~res.direct => \A i \in Rows : pool'.input[i] = Prefix(plan[i].request, plan[i].start)
    BY <1>1, <1>5 DEF HybridInv, Contents
  <2>2. \A i \in Rows : plan[i].drafts # 0 => pool'.update[i] = RunTokens(plan[i])
    BY <1>1, <1>2, <1>5 DEF HybridInv, Reserving
  <2>3. ~res.direct => \A i \in Rows : pool'.output[i] = RunOutput(plan[i])
    BY <1>5, <1>7
  <2>4. res.direct => \A i \in Rows : HiddenRow(pool', res.rows[i].slot) = RunOutput(plan[i])
    <3> SUFFICES ASSUME res.direct, NEW i \in Rows
                 PROVE  HiddenRow(pool', res.rows[i].slot) = RunOutput(plan[i])
      OBVIOUS
    <3>1. HiddenRow(pool', res.rows[i].slot) =
            pool'.bank[res.rows[i].slot][Other(pool.slot[res.rows[i].slot].active_bank)]
      BY <1>5, NoReplay DEF HiddenRow
    <3> QED BY <1>5, <1>7, <3>1
  <2>5. phase' \notin {"prepared", "published"}
    BY <1>1
  <2>6. ~res'.direct => \A i \in Rows' : pool'.input[i] = Prefix(plan[i].request, plan[i].start)'
    BY <1>1, <1>8, <2>1, SamePrefix
  <2>7. \A i \in Rows' : plan'[i].drafts # 0 => pool'.update[i] = RunTokens(plan[i])'
    BY <1>1, <1>8, <2>2, SamePrefix
  <2>8. ~res'.direct => \A i \in Rows' : pool'.output[i] = RunOutput(plan[i])'
    BY <1>1, <1>8, <2>3, SamePrefix
  <2>9. res'.direct => \A i \in Rows' : HiddenRow(pool', res'.rows[i].slot) = RunOutput(plan[i])'
    BY <1>1, <1>8, <2>4, SamePrefix
  <2> QED BY <1>5, <2>5, <2>6, <2>7, <2>8, <2>9 DEF Contents
<1>12. target' \in [Requests -> Nat \cup {NoTable}]
  BY <1>1 DEF HybridInv, Types
<1> QED BY <1>1, <1>3, <1>5, <1>9, <1>10, <1>11, <1>12, OpenStep

(* Drafts follow a single token. *)
LEMMA DraftsFollowOne ==
    ASSUME HybridInv, phase \in Flipping, NEW i \in Rows, plan[i].drafts # 0
    PROVE  plan[i].count = 1
<1> DEFINE e == plan[i]
<1>1. e \in EntrySet /\ e.request \in DOMAIN Stream
  BY RowFacts
<1>2. Feasible(e) /\ (e.newly <=> e.request \notin resident)
  BY DEF HybridInv, Planning
<1> HIDE DEF e
<1>3. e.request \in Requests /\ e.count \in Nat /\ e.start \in Nat /\ e.before \in Nat
  BY <1>1 DEF EntrySet
<1>4. Len(Stream[e.request]) \in Nat /\ Prompt[e.request] \in 1 .. Len(Stream[e.request])
  BY <1>1, StreamFacts DEF HybridInv
<1>5. e.drafts # 0
  BY DEF e
<1>6. /\ ~e.prefill /\ processed[e.request] >= Prompt[e.request]
      /\ e.start + e.count = length[e.request] /\ length[e.request] # 0
  <2>1. ~e.prefill /\ ~(processed[e.request] < Prompt[e.request])
    BY <1>2, <1>5 DEF Feasible
  <2>2. processed[e.request] \in Nat
    BY <1>3 DEF HybridInv, Types
  <2> QED BY <1>2, <1>4, <2>1, <2>2 DEF Feasible
<1>7. length[e.request] = processed[e.request] + 1 /\ processed[e.request] \in Nat
  <2>1. processed[e.request] \in Nat
    BY <1>3 DEF HybridInv, Types
  <2> QED BY <1>3, <1>4, <1>6, <2>1 DEF HybridInv, Progress
<1>8. e.request \in resident
  BY <1>3, <1>4, <1>6 DEF HybridInv, Progress
<1>9. e.start = processed[e.request]
  BY <1>2, <1>8 DEF Feasible
<1>10. e.count = 1
  BY <1>3, <1>6, <1>7, <1>9
<1> QED BY <1>10 DEF e

(* Both sides drop the rejected drafts. *)
LEMMA PostProcessStep ==
    ASSUME HybridInv, PostProcess, UNCHANGED config
    PROVE  HybridInv'
<1>1. /\ phase = "executed" /\ phase \in Flipping
      /\ UNCHANGED <<pool, paged, resident, length, processed, plan, endpoints>>
  BY DEF PostProcess, engineVars, Flipping
<1>2. PICK a \in Acceptances :
        IF \A i \in Rows : plan[i].drafts # 0 =>
                PrefixAccepted(res, i, plan[i].count + plan[i].drafts, plan[i].count + a[i])
        THEN /\ res' = NarrowRows(res, a) /\ target' = NarrowTarget(target, a)
             /\ phase' = "accepted" /\ UNCHANGED fault
        ELSE Die("contract") /\ UNCHANGED <<res, target>>
  BY DEF PostProcess
<1>3. /\ res \in ReservationSet /\ res.state = "Reserved" /\ DOMAIN res.rows = Rows
      /\ \A i, j \in Rows : res.rows[i].slot = res.rows[j].slot => i = j
      /\ res.rows \in Seq(RowSet)
  BY <1>1 DEF HybridInv, Types, Reserving, Control, ReservationSet
<1>4. ASSUME NEW i \in Rows
      PROVE  /\ plan[i].request \in Requests /\ plan[i].start \in Nat
             /\ plan[i].count \in Nat \ {0} /\ plan[i].drafts \in Nat /\ plan[i].good \in Nat
             /\ res.rows[i] \in RowSet
             /\ a[i] \in Nat /\ a[i] <= plan[i].good /\ plan[i].good <= plan[i].drafts
             /\ res.rows[i].target = plan[i].start + plan[i].count + plan[i].drafts
             /\ res.rows[i].capture = plan[i].drafts
             /\ res.rows[i].kept = 0 /\ res.rows[i].step = 0
             /\ target[plan[i].request] = res.rows[i].target
             /\ plan[i].drafts # 0 => res.captures /\ plan[i].count = 1
  <2>1. plan[i] \in EntrySet /\ res.rows[i] \in RowSet
    BY <1>1, RowFacts
  <2>2. a[i] \in 0 .. MaxDrafts /\ a[i] <= plan[i].good
    BY DEF Acceptances
  <2>3. a[i] \in Nat
    BY <2>2, StepAssumption DEF MaxDrafts, HybridInv, Types
  <2>4. plan[i].good <= plan[i].drafts
    BY <1>1 DEF HybridInv, Planning, Feasible
  <2>5. /\ Narrowed(res.rows[i], plan[i]) /\ target[plan[i].request] = res.rows[i].target
        /\ plan[i].drafts # 0 => res.captures
    BY <1>1 DEF HybridInv, Reserving
  <2>6. /\ res.rows[i].target = plan[i].start + plan[i].count + plan[i].drafts
        /\ res.rows[i].capture = plan[i].drafts
        /\ res.rows[i].kept = 0 /\ res.rows[i].step = 0
    BY <1>1, <2>5 DEF Narrowed
  <2>7. plan[i].drafts # 0 => plan[i].count = 1
    BY <1>1, DraftsFollowOne
  <2>8. /\ plan[i].request \in Requests /\ plan[i].start \in Nat
        /\ plan[i].count \in Nat \ {0} /\ plan[i].drafts \in Nat /\ plan[i].good \in Nat
    BY <2>1 DEF EntrySet
  <2> QED BY <2>1, <2>2, <2>3, <2>4, <2>5, <2>6, <2>7, <2>8
<1>5. ASSUME NEW i \in Rows, plan[i].drafts # 0
      PROVE  /\ PrefixAccepted(res, i, plan[i].count + plan[i].drafts, plan[i].count + a[i])
             /\ plan[i].count + plan[i].drafts \in Nat /\ plan[i].count + a[i] \in Nat
             /\ plan[i].count + a[i] <= plan[i].count + plan[i].drafts
             /\ (plan[i].count + plan[i].drafts) - (plan[i].count + a[i]) <= res.rows[i].target
             /\ res.rows[i].target - ((plan[i].count + plan[i].drafts) - (plan[i].count + a[i]))
                    = plan[i].start + (plan[i].count + a[i])
             /\ plan[i].count + a[i] \in plan[i].count .. plan[i].count + plan[i].good
  <2>1. /\ plan[i].count + plan[i].drafts \in Nat /\ plan[i].count + a[i] \in Nat
        /\ plan[i].count + a[i] <= plan[i].count + plan[i].drafts
        /\ (plan[i].count + plan[i].drafts) - (plan[i].count + a[i]) <= res.rows[i].target
        /\ res.rows[i].target - ((plan[i].count + plan[i].drafts) - (plan[i].count + a[i]))
                    = plan[i].start + (plan[i].count + a[i])
        /\ plan[i].count + a[i] \in plan[i].count .. plan[i].count + plan[i].good
    BY <1>4
  <2>2. /\ plan[i].count + a[i] \in 1 .. plan[i].count + plan[i].drafts
        /\ plan[i].count + plan[i].drafts = res.rows[i].capture + 1 /\ res.rows[i].capture # 0
    BY <1>4, <1>5
  <2>3. PrefixAccepted(res, i, plan[i].count + plan[i].drafts, plan[i].count + a[i])
    BY <1>3, <1>4, <1>5, <2>1, <2>2 DEF PrefixAccepted
  <2> QED BY <2>1, <2>3
<1>6. /\ res' = NarrowRows(res, a) /\ target' = NarrowTarget(target, a)
      /\ phase' = "accepted" /\ UNCHANGED fault
  BY <1>2, <1>5
<1> DEFINE R(i) == IF plan[i].drafts = 0 THEN res.rows[i]
                   ELSE CommitPrefix(res.rows[i], plan[i].count + plan[i].drafts,
                                     plan[i].count + a[i])
<1>7. /\ res'.rows = [i \in Rows |-> R(i)] /\ res'.state = res.state
      /\ res'.direct = res.direct /\ res'.captures = res.captures
      /\ DOMAIN res' = DOMAIN res /\ res' = [f \in DOMAIN res |-> res'[f]]
  BY <1>3, <1>6 DEF NarrowRows, ReservationSet
<1>8. ASSUME NEW i \in Rows
      PROVE  LET t == res'.rows[i] IN
             /\ t \in RowSet /\ t.request = res.rows[i].request /\ t.slot = res.rows[i].slot
             /\ t.generation = res.rows[i].generation
             /\ t.provisional = res.rows[i].provisional /\ t.expected = res.rows[i].expected
             /\ t.target = plan[i].start + plan[i].count + a[i]
             /\ plan[i].drafts = 0 => t = res.rows[i]
             /\ plan[i].drafts # 0 => /\ t.kept = plan[i].count + a[i]
                                      /\ t.step = plan[i].count + plan[i].drafts
  <2>1. res'.rows[i] = R(i)
    BY <1>7
  <2>2. CASE plan[i].drafts = 0
    BY <1>4, <2>1, <2>2
  <2>3. CASE plan[i].drafts # 0
    <3> DEFINE t == res'.rows[i]
               row == res.rows[i]
               step == plan[i].count + plan[i].drafts
               kept == plan[i].count + a[i]
    <3>1. t = CommitPrefix(row, step, kept)
      BY <2>1, <2>3
    <3>2. /\ row \in RowSet /\ step \in Nat /\ kept \in Nat /\ kept <= step
          /\ step - kept <= row.target /\ row.target - (step - kept) = plan[i].start + kept
      BY <1>4, <1>5, <2>3
    <3>3. plan[i].start + kept = plan[i].start + plan[i].count + a[i]
      BY <1>4
    <3> HIDE DEF t, row, step, kept
    <3>4. /\ t \in RowSet /\ t.target = row.target - (step - kept) /\ t.step = step
          /\ t.kept = kept /\ t.request = row.request /\ t.slot = row.slot
          /\ t.generation = row.generation /\ t.provisional = row.provisional
          /\ t.expected = row.expected
      BY <3>1, <3>2, NarrowFacts
    <3> QED BY <2>3, <3>2, <3>3, <3>4 DEF t, row, step, kept
  <2> QED BY <2>2, <2>3
<1>9. Rows' = Rows /\ \A r : IsPlanned(r)' <=> IsPlanned(r)
  BY <1>1 DEF Rows, IsPlanned
<1>10. DOMAIN res'.rows = Rows
  BY <1>7
<1> HIDE DEF R
<1>11. res' \in ReservationSet
  <2>1. Rows = 1 .. Len(res.rows) /\ Len(res.rows) \in Nat
    BY <1>3
  <2>2. res'.rows = [i \in 1 .. Len(res.rows) |-> res'.rows[i]]
    BY <1>7, <2>1
  <2>3. \A i \in 1 .. Len(res.rows) : res'.rows[i] \in RowSet
    BY <1>8, <2>1
  <2>4. res'.rows \in Seq(RowSet)
    BY <2>1, <2>2, <2>3
  <2> QED BY <1>3, <1>7, <2>4 DEF ReservationSet
<1>12. ASSUME NEW i \in Rows
       PROVE  target'[plan[i].request] = res'.rows[i].target
  <2>1. RowOf(plan, plan[i].request) = i
    <3>1. \A j \in DOMAIN plan : plan[j].request = plan[i].request => j = i
      BY DEF HybridInv, Planning, Rows
    <3> QED BY <3>1, RowOfFacts DEF Rows
  <2>2. IsPlanned(plan[i].request) /\ plan[i].request \in Requests
    BY <1>4 DEF IsPlanned
  <2>3. target'[plan[i].request] = target[plan[i].request] - (plan[i].drafts - a[i])
    BY <1>6, <2>1, <2>2 DEF NarrowTarget
  <2> QED BY <1>4, <1>8, <2>3
<1>13. \A r \in Requests : ~IsPlanned(r) => target'[r] = NoTable
  <2>1. \A r \in Requests : ~IsPlanned(r) => target'[r] = target[r]
    BY <1>6 DEF NarrowTarget
  <2> QED BY <1>1, <2>1 DEF HybridInv, Reserving
<1>14. target' \in [Requests -> Nat \cup {NoTable}]
  <2>1. ASSUME NEW r \in Requests PROVE target'[r] \in Nat \cup {NoTable}
    <3>1. CASE IsPlanned(r)
      <4>1. PICK i \in Rows : plan[i].request = r
        BY <3>1 DEF IsPlanned
      <4>2. target'[r] = res'.rows[i].target /\ res'.rows[i] \in RowSet
        BY <1>8, <1>12, <4>1
      <4> QED BY <4>2 DEF RowSet
    <3> QED BY <1>13, <3>1
  <2>2. target' = [r \in Requests |-> target'[r]]
    BY <1>6 DEF NarrowTarget
  <2> QED BY <2>1, <2>2
<1>15. Reserving'
  <2>1. ASSUME NEW i \in Rows PROVE Narrowed(res.rows[i], plan[i])'
    <3>1. CASE plan[i].drafts = 0
      <4>1. res'.rows[i] = res.rows[i]
        BY <1>8, <3>1
      <4> QED BY <1>1, <1>4, <1>6, <3>1, <4>1 DEF Narrowed
    <3>2. CASE plan[i].drafts # 0
      <4>1. /\ res'.rows[i].kept = plan[i].count + a[i]
            /\ res'.rows[i].step = plan[i].count + plan[i].drafts
            /\ res'.rows[i].target = plan[i].start + plan[i].count + a[i]
        BY <1>8, <3>2
      <4>2. plan[i].start + plan[i].count + a[i] = plan[i].start + (plan[i].count + a[i])
        BY <1>4
      <4> QED BY <1>1, <1>5, <1>6, <3>2, <4>1, <4>2 DEF Narrowed
    <3> QED BY <3>1, <3>2
  <2>2. ASSUME NEW i \in Rows
        PROVE  Holds(res.rows[i], pool.slot[res.rows[i].slot], plan[i])'
    <3>1. Holds(res.rows[i], pool.slot[res.rows[i].slot], plan[i])
      BY <1>1 DEF HybridInv, Reserving
    <3> QED BY <1>1, <1>8, <3>1 DEF Holds
  <2>3. \A i, j \in Rows : res'.rows[i].slot = res'.rows[j].slot => i = j
    BY <1>3, <1>8
  <2>4. \A i \in Rows : /\ target'[plan'[i].request] = res'.rows[i].target
                        /\ plan'[i].drafts # 0 => res'.captures
                        /\ res'.direct => ~plan'[i].newly
    BY <1>1, <1>7, <1>12 DEF HybridInv, Reserving
  <2>5. \A r \in Requests : ~IsPlanned(r)' => target'[r] = NoTable
    BY <1>9, <1>13
  <2> QED BY <1>9, <1>10, <2>1, <2>2, <2>3, <2>4, <2>5 DEF Reserving
<1>16. Contents'
  <2>1. \A i \in Rows : HiddenRow(pool', res'.rows[i].slot) = HiddenRow(pool, res.rows[i].slot)
    BY <1>1, <1>8
  <2> QED BY <1>1, <1>6, <1>7, <1>9, <2>1, SamePrefix DEF HybridInv, Contents
<1>17. \A i \in DOMAIN res.rows : /\ res'.rows[i].slot = res.rows[i].slot
                                  /\ res'.rows[i].provisional = res.rows[i].provisional
  BY <1>3, <1>8
<1>18. IsPool(pool)
  BY PhaseFacts
<1> QED BY <1>1, <1>3, <1>6, <1>7, <1>10, <1>11, <1>14, <1>15, <1>16, <1>17, <1>18, OpenStep

-----------------------------------------------------------------------------
(* What the run leaves is a prefix of the request's tokens. *)

(* The tokens a row feeds are its own as far as its drafts are right. *)
LEMMA RunTokensFacts ==
    ASSUME Types, NEW e \in EntrySet, e.request \in DOMAIN Stream, e.good <= e.drafts,
           e.start + e.count + e.good <= Len(Stream[e.request]),
           NEW t, t = RunTokens(e)
    PROVE  /\ t \in Seq(Int) /\ Len(t) = e.count + e.drafts
           /\ \A i \in 1 .. e.count + e.good : t[i] = Stream[e.request][e.start + i]
<1> DEFINE S == Stream[e.request]
           m == e.start
           k == e.count
           g == e.good
           d == e.drafts
           n == m + k + g
           u == SubSeq(S, m + 1, n)
           w == [x \in 1 .. d - g |-> Wrong]
<1>1. m \in Nat /\ k \in Nat /\ g \in Nat /\ d \in Nat
  BY DEF EntrySet
<1>2. S \in Seq(Int) /\ Len(S) \in Nat
  BY StreamFacts
<1>3. n <= Len(S) /\ g <= d
  OBVIOUS
<1>4. t = u \o w
  BY DEF RunTokens
<1> HIDE DEF S, m, k, g, d
<1>5. n \in Nat /\ m <= n /\ n - m = k + g
  BY <1>1
<1>6. w \in Seq(Int) /\ Len(w) = d - g
  <2>1. d - g \in Nat
    BY <1>1, <1>3
  <2>2. Wrong \in Int
    BY DEF Wrong
  <2> QED BY <2>1, <2>2
<1> HIDE DEF n, w
<1>7. u \in Seq(Int) /\ Len(u) = n - m /\ \A i \in 1 .. n - m : u[i] = S[m + i]
  <2>1. u = SubSeq(S, m + 1, n)
    OBVIOUS
  <2> HIDE DEF u
  <2> QED BY <1>1, <1>2, <1>3, <1>5, <2>1, SubSeqFacts
<1> HIDE DEF u
<1>8. /\ t \in Seq(Int) /\ Len(t) = Len(u) + Len(w)
      /\ \A i \in 1 .. Len(u) : t[i] = u[i]
  <2>1. /\ u \o w \in Seq(Int) /\ Len(u \o w) = Len(u) + Len(w)
        /\ \A i \in 1 .. Len(u) : (u \o w)[i] = u[i]
    BY <1>6, <1>7, IntConcat
  <2> QED BY <1>4, <2>1
<1>9. Len(t) = k + d
  BY <1>1, <1>5, <1>6, <1>7, <1>8
<1>10. \A i \in 1 .. k + g : t[i] = S[m + i]
  BY <1>5, <1>7, <1>8
<1> QED BY <1>8, <1>9, <1>10 DEF S, m, k, g, d

(* A prefix and the next tokens make the longer prefix. *)
LEMMA SplicedPrefix ==
    ASSUME Types, NEW r \in DOMAIN Stream, NEW m \in Nat, NEW k \in Nat,
           m + k <= Len(Stream[r]), NEW u \in Seq(Int), Len(u) = k,
           \A i \in 1 .. k : u[i] = Stream[r][m + i]
    PROVE  Prefix(r, m) \o u = Prefix(r, m + k)
<1> DEFINE S == Stream[r]
           a == Prefix(r, m)
           b == Prefix(r, m + k)
<1>1. S \in Seq(Int) /\ Len(S) \in Nat
  BY StreamFacts
<1>2. m <= Len(S) /\ m + k \in Nat
  BY <1>1
<1>3. a \in Seq(Int) /\ Len(a) = m /\ \A i \in 1 .. m : a[i] = S[i]
  BY <1>2, PrefixFacts
<1>4. b \in Seq(Int) /\ Len(b) = m + k /\ \A i \in 1 .. m + k : b[i] = S[i]
  BY <1>2, PrefixFacts
<1>5. \A i \in 1 .. k : u[i] = S[m + i]
  OBVIOUS
<1> HIDE DEF a, b, S
<1>6. \A i \in 1 .. Len(a) : b[i] = a[i]
  <2>1. \A i \in 1 .. m : i \in 1 .. m + k
    OBVIOUS
  <2> QED BY <1>3, <1>4, <2>1
<1>7. \A i \in 1 .. Len(u) : b[Len(a) + i] = u[i]
  <2>1. \A i \in 1 .. k : m + i \in 1 .. m + k
    OBVIOUS
  <2> QED BY <1>3, <1>4, <1>5, <2>1
<1>8. a \o u = b
  BY <1>3, <1>4, <1>6, <1>7, Spliced
<1> QED BY <1>8 DEF a, b

(* Replaying the kept updates of a row gives the prefix it commits. *)
LEMMA KeptPrefix ==
    ASSUME Types, NEW e \in EntrySet, e.request \in DOMAIN Stream, e.good <= e.drafts,
           e.start + e.count + e.good <= Len(Stream[e.request]),
           NEW k \in Nat, k <= e.count + e.good
    PROVE  /\ Prefix(e.request, e.start) \o SubSeq(RunTokens(e), 1, k) = Prefix(e.request, e.start + k)
           /\ e.good = e.drafts => RunOutput(e) = Prefix(e.request, e.start + e.count + e.drafts)
<1> DEFINE t == RunTokens(e)
           u == SubSeq(t, 0 + 1, k)
<1>1. /\ e.start \in Nat /\ e.count \in Nat /\ e.good \in Nat /\ e.drafts \in Nat
  BY DEF EntrySet
<1>2. /\ t \in Seq(Int) /\ Len(t) = e.count + e.drafts
      /\ \A i \in 1 .. e.count + e.good : t[i] = Stream[e.request][e.start + i]
  BY RunTokensFacts
<1>3. Len(Stream[e.request]) \in Nat
  BY StreamFacts
<1>4. RunOutput(e) = Prefix(e.request, e.start) \o t
  BY DEF RunOutput
<1> HIDE DEF t
<1>5. /\ u \in Seq(Int) /\ Len(u) = k /\ \A i \in 1 .. k : u[i] = t[i]
  <2>1. /\ 0 \in Nat /\ 0 <= k /\ k <= Len(t)
    BY <1>1, <1>2
  <2>2. u \in Seq(Int) /\ Len(u) = k - 0 /\ \A i \in 1 .. k - 0 : u[i] = t[0 + i]
    <3>1. u = SubSeq(t, 0 + 1, k)
      OBVIOUS
    <3> HIDE DEF u
    <3> QED BY <1>2, <2>1, <3>1, SubSeqFacts
  <2> QED BY <1>2, <2>2
<1>6. u = SubSeq(t, 1, k)
  OBVIOUS
<1> HIDE DEF u
<1>7. \A i \in 1 .. k : u[i] = Stream[e.request][e.start + i]
  <2> SUFFICES ASSUME NEW i \in 1 .. k PROVE u[i] = Stream[e.request][e.start + i]
    OBVIOUS
  <2>1. i \in 1 .. e.count + e.good
    BY <1>1
  <2> QED BY <1>2, <1>5, <2>1
<1>8. e.start + k <= Len(Stream[e.request])
  BY <1>1, <1>3
<1>9. Prefix(e.request, e.start) \o u = Prefix(e.request, e.start + k)
  <2> DEFINE r == e.request
             m == e.start
  <2>1. r \in DOMAIN Stream /\ m \in Nat
    BY <1>1
  <2>2. m + k <= Len(Stream[r])
    BY <1>8
  <2>3. u \in Seq(Int) /\ Len(u) = k
    BY <1>5
  <2>4. \A i \in 1 .. k : u[i] = Stream[r][m + i]
    BY <1>7
  <2> HIDE DEF r, m
  <2>5. Prefix(r, m) \o u = Prefix(r, m + k)
    BY <2>1, <2>2, <2>3, <2>4, SplicedPrefix
  <2> QED BY <2>5 DEF r, m
<1>10. ASSUME e.good = e.drafts
       PROVE  RunOutput(e) = Prefix(e.request, e.start + e.count + e.drafts)
  <2>1. /\ e.count + e.drafts \in Nat /\ e.start + (e.count + e.drafts) <= Len(Stream[e.request])
        /\ e.start + (e.count + e.drafts) = e.start + e.count + e.drafts
    BY <1>1, <1>3, <1>10
  <2>2. \A i \in 1 .. e.count + e.drafts : t[i] = Stream[e.request][e.start + i]
    BY <1>2, <1>10
  <2>3. Prefix(e.request, e.start) \o t = Prefix(e.request, e.start + (e.count + e.drafts))
    <3> DEFINE r == e.request
               m == e.start
               n == e.count + e.drafts
    <3>1. r \in DOMAIN Stream /\ m \in Nat /\ n \in Nat
      BY <1>1
    <3>2. m + n <= Len(Stream[r])
      BY <2>1
    <3>3. t \in Seq(Int) /\ Len(t) = n
      BY <1>2
    <3>4. \A i \in 1 .. n : t[i] = Stream[r][m + i]
      BY <2>2
    <3> HIDE DEF r, m, n
    <3>5. Prefix(r, m) \o t = Prefix(r, m + n)
      BY <3>1, <3>2, <3>3, <3>4, SplicedPrefix
    <3> QED BY <3>5 DEF r, m, n
  <2> QED BY <1>4, <2>1, <2>3
<1> QED BY <1>6, <1>9, <1>10 DEF t

-----------------------------------------------------------------------------
(* Preparing the commit. *)

(* What is staged or deferred is the state of the tokens to be published. *)
LEMMA PrepareStepStep ==
    ASSUME HybridInv, PrepareStep, UNCHANGED config
    PROVE  HybridInv'
<1>1. /\ phase = "accepted" /\ phase \in Flipping
      /\ UNCHANGED <<paged, target, resident, length, processed, plan, endpoints>>
  BY DEF PrepareStep, engineVars, Flipping
<1>2. /\ IsPool(pool) /\ pool.healthy /\ pool.live /\ pool.replay = {}
      /\ res \in ReservationSet /\ res.state = "Reserved" /\ DOMAIN res.rows = Rows
      /\ \A i, j \in Rows : res.rows[i].slot = res.rows[j].slot => i = j
  BY <1>1 DEF HybridInv, Types, Reserving, Control, Contents, Open
<1>3. ASSUME NEW i \in Rows
      PROVE  /\ plan[i] \in EntrySet /\ res.rows[i] \in RowSet /\ res.rows[i].slot \in Slots
             /\ plan[i].request \in DOMAIN Stream
             /\ res.rows[i].target \in plan[i].start + plan[i].count ..
                                       plan[i].start + plan[i].count + plan[i].drafts
             /\ Holds(res.rows[i], pool.slot[res.rows[i].slot], plan[i])
             /\ Narrowed(res.rows[i], plan[i]) /\ Feasible(plan[i])
             /\ plan[i].start \in Nat /\ plan[i].count \in Nat \ {0} /\ plan[i].good \in Nat
             /\ plan[i].drafts \in Nat /\ plan[i].before \in Nat
  <2>1. /\ plan[i] \in EntrySet /\ res.rows[i] \in RowSet /\ res.rows[i].slot \in Slots
        /\ plan[i].request \in DOMAIN Stream
        /\ res.rows[i].target \in plan[i].start + plan[i].count ..
                                       plan[i].start + plan[i].count + plan[i].drafts
    BY <1>1, RowFacts
  <2>2. /\ Holds(res.rows[i], pool.slot[res.rows[i].slot], plan[i])
        /\ Narrowed(res.rows[i], plan[i]) /\ Feasible(plan[i])
    BY <1>1 DEF HybridInv, Reserving, Planning
  <2>3. /\ plan[i].start \in Nat /\ plan[i].count \in Nat \ {0} /\ plan[i].good \in Nat
        /\ plan[i].drafts \in Nat /\ plan[i].before \in Nat
    BY <2>1 DEF EntrySet
  <2> QED BY <2>1, <2>2, <2>3
<1>4. ValidateCommit(pool, res)
  <2>1. ASSUME NEW i \in Rows
        PROVE  LET row == res.rows[i]
                   slot == pool.slot[row.slot] IN
               /\ slot.ownership = IF row.provisional THEN "Reserved" ELSE "Committed"
               /\ slot.request = row.request /\ slot.generation = row.generation
               /\ slot.state_generation = row.expected
               /\ row.target >= slot.committed_tokens
    <3>1. res.rows[i].target >= plan[i].start
      BY <1>3
    <3> QED BY <1>3, <3>1 DEF Holds
  <2> QED BY <1>2, <2>1 DEF ValidateCommit
<1>5. /\ pool' = StageRows(pool, res) /\ res' = [res EXCEPT !.state = "Prepared"]
      /\ phase' = "prepared" /\ UNCHANGED fault
  BY <1>4 DEF PrepareStep, PrepareCommit
<1>6. /\ res' \in ReservationSet /\ res'.rows = res.rows /\ res'.direct = res.direct
      /\ res'.captures = res.captures /\ res'.state = "Prepared"
  BY <1>2, <1>5 DEF ReservationSet
<1>7. Staged(pool, res, pool')
  BY <1>2, <1>5, StageFacts
<1>8. /\ IsPool(pool') /\ pool'.slot = pool.slot /\ pool'.index = pool.index
      /\ pool'.ckpt = pool.ckpt /\ pool'.input = pool.input /\ pool'.update = pool.update
      /\ pool'.healthy = pool.healthy /\ pool'.live = pool.live
      /\ pool'.replay = {Descriptor(pool, res, i) : i \in Partial(res)}
      /\ \A s \in Slots : pool'.bank[s][pool.slot[s].active_bank] =
                              pool.bank[s][pool.slot[s].active_bank]
      /\ \A i \in Rows : ~IsPartial(res.rows[i]) =>
           LET s == res.rows[i].slot
               b == Other(pool.slot[s].active_bank)
           IN  pool'.bank[s][b] = IF res.direct THEN pool.bank[s][b] ELSE pool.output[i]
  BY <1>2, <1>7 DEF Staged
<1>9. Rows' = Rows /\ \A r : IsPlanned(r)' <=> IsPlanned(r)
  BY <1>1 DEF Rows, IsPlanned
<1>10. /\ \A d \in pool'.replay : d.bank = Other(pool.slot[d.slot].active_bank)
       /\ \A d \in pool'.replay : \E i \in Partial(res) : d = Descriptor(pool, res, i)
  <2>1. pool'.replay = {Descriptor(pool, res, i) : i \in Partial(res)}
    BY <1>8
  <2>2. ASSUME NEW i, NEW d, d = Descriptor(pool, res, i)
        PROVE  d.bank = Other(pool.slot[d.slot].active_bank)
    BY <2>2 DEF Descriptor
  <2> QED BY <2>1, <2>2
<1>11. ASSUME NEW s \in Slots
       PROVE  /\ VisibleRow(pool', s) = VisibleRow(pool, s)
              /\ VisibleRow(pool, s) = pool.bank[s][pool.slot[s].active_bank]
  <2>1. pool.slot[s].active_bank \in Banks
    BY <1>2, ActiveBank
  <2>2. \A d \in pool'.replay : ~(d.slot = s /\ d.bank = pool.slot[s].active_bank)
    BY <1>10, <2>1, OtherBank
  <2>3. FlushDeferredReplay(pool').bank[s][pool.slot[s].active_bank] =
            pool'.bank[s][pool.slot[s].active_bank]
    <3>1. IsPool(pool')
      BY <1>8
    <3> QED BY <2>1, <2>2, <3>1, UntouchedRow
  <2>4. VisibleRow(pool, s) = pool.bank[s][pool.slot[s].active_bank]
    BY <1>2, VisibleBank
  <2>5. VisibleRow(pool', s) = FlushDeferredReplay(pool').bank[s][pool'.slot[s].active_bank]
    BY DEF VisibleRow
  <2> QED BY <1>8, <2>3, <2>4, <2>5
<1>12. ASSUME NEW i \in Rows
       PROVE  HiddenRow(pool', res.rows[i].slot) = Prefix(plan[i].request, res.rows[i].target)
  <2> DEFINE s == res.rows[i].slot
             b == Other(pool.slot[s].active_bank)
             e == plan[i]
             row == res.rows[i]
  <2>1. HiddenRow(pool', s) = FlushDeferredReplay(pool').bank[s][b]
    BY <1>8 DEF HiddenRow
  <2>2. /\ s \in Slots /\ b \in Banks /\ Other(b) = pool.slot[s].active_bank
        /\ pool.slot[s].active_bank \in Banks
    BY <1>2, <1>3, ActiveBank, OtherBank
  <2>3. /\ Types /\ e \in EntrySet /\ e.request \in DOMAIN Stream /\ e.good <= e.drafts
        /\ e.start + e.count + e.good <= Len(Stream[e.request])
    <3>1. /\ Types /\ e \in EntrySet /\ e.request \in DOMAIN Stream /\ e.good <= e.drafts
          /\ e.start + e.count <= e.before /\ e.before + e.drafts < Len(Stream[e.request])
      BY <1>3 DEF HybridInv, Feasible
    <3>2. Len(Stream[e.request]) \in Nat
      BY <3>1, StreamFacts
    <3> HIDE DEF e
    <3>3. e.start \in Nat /\ e.count \in Nat /\ e.good \in Nat /\ e.drafts \in Nat /\ e.before \in Nat
      BY <3>1 DEF EntrySet
    <3> QED BY <3>1, <3>2, <3>3
  <2>4. CASE IsPartial(row)
    <3>1. /\ e.drafts # 0 /\ row.kept \in e.count .. e.count + e.good
          /\ row.target = e.start + row.kept /\ row.kept \in Nat /\ row.kept <= e.count + e.good
      BY <1>1, <1>3, <2>4 DEF IsPartial, Narrowed
    <3>2. Prefix(e.request, e.start) \o SubSeq(RunTokens(e), 1, row.kept) =
              Prefix(e.request, row.target)
      <4> HIDE DEF e, row
      <4> QED BY <2>3, <3>1, KeptPrefix
    <3>3. Descriptor(pool, res, i) \in pool'.replay
      BY <1>2, <1>8, <2>4 DEF Partial
    <3>4. ReplayOf(pool'.replay, s, b) = Descriptor(pool, res, i)
      <4>1. \A d \in pool'.replay : d.slot = s => d = Descriptor(pool, res, i)
        BY <1>2, <1>10 DEF Partial, Descriptor
      <4>2. Descriptor(pool, res, i).slot = s /\ Descriptor(pool, res, i).bank = b
        BY DEF Descriptor
      <4> QED BY <3>3, <4>1, <4>2 DEF ReplayOf
    <3> DEFINE d == Descriptor(pool, res, i)
    <3>5. d.slot = s /\ d.bank = b /\ d.row = i /\ d.kept = row.kept /\ d.direct = res.direct
      BY DEF Descriptor
    <3> HIDE DEF d
    <3>6. ReplayedRow(pool', d) = Prefix(e.request, row.target)
      <4>1. pool'.update[i] = RunTokens(e)
        BY <1>1, <1>8, <3>1 DEF HybridInv, Contents
      <4>2. (IF res.direct THEN pool'.bank[s][Other(b)] ELSE pool'.input[i]) =
                Prefix(e.request, e.start)
        <5>1. CASE res.direct
          <6>1. ~e.newly
            BY <1>1, <5>1 DEF HybridInv, Reserving
          <6>2. VisibleRow(pool, s) = Prefix(e.request, e.start)
            BY <1>1, <6>1, ResidentRow
          <6>3. VisibleRow(pool, s) = pool.bank[s][pool.slot[s].active_bank]
            BY <1>11, <2>2
          <6>4. pool'.bank[s][pool.slot[s].active_bank] = pool.bank[s][pool.slot[s].active_bank]
            BY <1>8, <2>2
          <6> QED BY <2>2, <5>1, <6>2, <6>3, <6>4
        <5>2. CASE ~res.direct
          BY <1>1, <1>8, <5>2 DEF HybridInv, Contents
        <5> QED BY <5>1, <5>2
      <4>3. ReplayedRow(pool', d) =
              (IF res.direct THEN pool'.bank[s][Other(b)] ELSE pool'.input[i])
                  \o SubSeq(pool'.update[i], 1, row.kept)
        BY <3>5 DEF ReplayedRow
      <4> QED BY <3>2, <4>1, <4>2, <4>3
    <3>7. FlushDeferredReplay(pool').bank[s][b] = ReplayedRow(pool', ReplayOf(pool'.replay, s, b))
      <4>1. d \in pool'.replay /\ IsPool(pool')
        BY <1>8, <3>3 DEF d
      <4> HIDE DEF s, b
      <4> QED BY <2>2, <3>5, <4>1, RewrittenRow
    <3> QED BY <2>1, <3>4, <3>6, <3>7 DEF d
  <2>5. CASE ~IsPartial(row)
    <3>1. \A d \in pool'.replay : ~(d.slot = s /\ d.bank = b)
      BY <1>2, <1>10, <2>5 DEF Partial, Descriptor
    <3>2. FlushDeferredReplay(pool').bank[s][b] = pool'.bank[s][b]
      <4>1. IsPool(pool')
        BY <1>8
      <4> HIDE DEF s, b
      <4> QED BY <2>2, <3>1, <4>1, UntouchedRow
    <3>3. e.good = e.drafts /\ row.target = e.start + e.count + e.drafts
      <4>1. \/ e.drafts = 0 /\ row.target = e.start + e.count + e.drafts
            \/ /\ row.kept \in e.count .. e.count + e.good /\ row.kept = e.count + e.drafts
               /\ row.target = e.start + row.kept
        BY <1>1, <1>3, <2>5 DEF IsPartial, Narrowed
      <4> QED BY <1>3, <2>3, <4>1
    <3>4. RunOutput(e) = Prefix(e.request, row.target)
      <4>1. 0 \in Nat /\ 0 <= e.count + e.good
        BY <1>3
      <4> HIDE DEF e, row
      <4> QED BY <2>3, <3>3, <4>1, KeptPrefix
    <3>5. pool'.bank[s][b] = IF res.direct THEN pool.bank[s][b] ELSE pool.output[i]
      BY <1>8, <2>5
    <3>6. CASE res.direct
      <4>1. HiddenRow(pool, s) = RunOutput(e)
        BY <1>1, <3>6 DEF HybridInv, Contents
      <4>2. HiddenRow(pool, s) = pool.bank[s][b]
        BY <1>2, NoReplay DEF HiddenRow
      <4> QED BY <2>1, <3>2, <3>4, <3>5, <3>6, <4>1, <4>2
    <3>7. CASE ~res.direct
      <4>1. pool.output[i] = RunOutput(e)
        BY <1>1, <3>7 DEF HybridInv, Contents
      <4> QED BY <2>1, <3>2, <3>4, <3>5, <3>7, <4>1
    <3> QED BY <3>6, <3>7
  <2> QED BY <2>4, <2>5
<1>13. Reserving'
  <2>1. \A i \in Rows : Narrowed(res.rows[i], plan[i]) => Narrowed(res.rows[i], plan[i])'
    BY <1>1, <1>5, <1>6 DEF Narrowed
  <2>2. \A i \in Rows : Holds(res.rows[i], pool.slot[res.rows[i].slot], plan[i]) =>
            Holds(res.rows[i], pool.slot[res.rows[i].slot], plan[i])'
    BY <1>1, <1>6, <1>8 DEF Holds
  <2> QED BY <1>1, <1>5, <1>6, <1>9, <2>1, <2>2 DEF HybridInv, Reserving, Flipping
<1>14. Contents'
  <2>1. ~res'.direct => \A i \in Rows' : pool'.input[i] = Prefix(plan[i].request, plan[i].start)'
    BY <1>1, <1>6, <1>8, <1>9, SamePrefix DEF HybridInv, Contents
  <2>2. \A d \in pool'.replay : d.bank = Other(pool'.slot[d.slot].active_bank)
    BY <1>8, <1>10
  <2>3. \A i \in Rows' : HiddenRow(pool', res'.rows[i].slot) =
                             Prefix(plan[i].request, res.rows[i].target)'
    BY <1>1, <1>6, <1>9, <1>12, SamePrefix
  <2> QED BY <1>5, <2>1, <2>2, <2>3 DEF Contents
<1>15. target' \in [Requests -> Nat \cup {NoTable}]
  BY <1>1 DEF HybridInv, Types
<1> QED BY <1>1, <1>5, <1>6, <1>8, <1>11, <1>13, <1>14, <1>15, OpenStep

-----------------------------------------------------------------------------
(* Planning. *)

(* Between steps every slot is free or a resident's. *)
LEMMA FreeCount ==
    ASSUME HybridInv, phase = "idle"
    PROVE  /\ IsFiniteSet(resident) /\ Cardinality(resident) \in Nat
           /\ AvailableSlots(pool) = Capacity - Cardinality(resident)
<1> DEFINE C == {s \in Slots : pool.slot[s].ownership = "Committed"}
           f == [r \in resident |-> pool.index[r]]
<1>1. resident \subseteq Requests /\ \A r \in resident : OwnsCommittedSlot(pool, r)
  BY DEF HybridInv, Types, Boundaries
<1>2. \A r \in resident : pool.index[r] \in C /\ pool.slot[pool.index[r]].request = r
  BY <1>1, OwnerFacts
<1>3. f \in Injection(resident, C)
  <2>1. f \in [resident -> C]
    BY <1>2
  <2>2. \A a, b \in resident : f[a] = f[b] => a = b
    BY <1>2
  <2> QED BY <2>1, <2>2 DEF Injection, IsInjective
<1>4. f \in Surjection(resident, C)
  <2>1. f \in [resident -> C]
    BY <1>2
  <2>2. ASSUME NEW s \in C PROVE \E r \in resident : f[r] = s
    <3>1. pool.slot[s].request \in Requests /\ pool.index[pool.slot[s].request] = s
      BY <2>2 DEF HybridInv, Slotting, SlotsAreOwnedOnce
    <3>2. s # NoSlot
      BY <2>2, PoolAssumption DEF Slots, NoSlot
    <3>3. pool.slot[s].request \in resident
      BY <3>1, <3>2 DEF HybridInv, Boundaries, OwnsCommittedSlot
    <3> QED BY <3>1, <3>3
  <2> QED BY <2>1, <2>2 DEF Surjection
<1>5. C \in SUBSET Slots
  OBVIOUS
<1> HIDE DEF C, f
<1>6. IsFiniteSet(C)
  BY <1>5, SlotsFinite, FS_Subset
<1>7. IsFiniteSet(resident) /\ Cardinality(resident) = Cardinality(C)
  BY <1>3, <1>4, <1>6, FS_Injection
<1>8. Slots \ C = {s \in Slots : pool.slot[s].ownership = "Free"} /\ Slots \cap C = C
  <2>1. \A s \in Slots : pool.slot[s].ownership \in {"Free", "Committed"}
    <3>1. \A s \in Slots : pool.slot[s] \in SlotSet
      BY PhaseFacts, ActiveBank
    <3> QED BY <3>1 DEF HybridInv, Slotting, Flipping, SlotSet
  <2> QED BY <2>1 DEF C
<1>9. Cardinality(Slots \ C) = Cardinality(Slots) - Cardinality(Slots \cap C)
  BY SlotsFinite, FS_Difference
<1>10. Cardinality(resident) \in Nat
  BY <1>7, FS_CardinalityType
<1> QED BY <1>7, <1>8, <1>9, <1>10, SlotsFinite DEF AvailableSlots

(* What a plannable entry may ask for. *)
LEMMA EntryFacts ==
    ASSUME HybridInv, phase = "idle", NEW r \in Requests, IsExecutable(r),
           NEW e \in Entries(r), IsPlannable(e)
    PROVE  /\ e \in EntrySet /\ e.request = r /\ Feasible(e)
           /\ e.newly <=> r \notin resident
           /\ e.ckpt # NoCheckpoint => \E x \in endpoints :
                  x.ckpt = e.ckpt /\ x.tokens = Prefix(r, x.ckpt.count)
<1>1. PICK h \in (IF r \notin resident THEN Matches(r) ELSE {NoCheckpoint}), n \in 1 .. length[r],
           d \in 0 .. MaxDrafts, g \in 0 .. MaxDrafts :
        e = [request |-> r, newly |-> (r \notin resident), prefill |-> (processed[r] < Prompt[r]),
             ckpt |-> h, start |-> IF r \notin resident THEN h.count ELSE processed[r],
             count |-> n, drafts |-> d, good |-> g, before |-> length[r]]
  BY DEF Entries
<1>2. length[r] \in Nat /\ length[r] # 0 /\ processed[r] \in Nat /\ r \in DOMAIN Stream
  BY DEF IsExecutable, HybridInv, Types, Progress
<1>3. Len(Stream[r]) \in Nat /\ Prompt[r] \in Nat
  <2>1. Prompt[r] \in 1 .. Len(Stream[r]) /\ Len(Stream[r]) \in Nat
    BY <1>2, StreamFacts DEF HybridInv
  <2> QED BY <2>1
<1>4. length[r] <= Len(Stream[r]) - 1
  BY <1>2, <1>3 DEF IsExecutable
<1>5. n \in Nat \ {0} /\ d \in Nat /\ g \in Nat
  <2>1. MaxDrafts \in Nat
    BY StepAssumption DEF MaxDrafts, HybridInv, Types
  <2> QED BY <1>2, <2>1
<1>6. /\ h \in HandleSet
      /\ h # NoCheckpoint => \E x \in endpoints : x.ckpt = h /\ x.tokens = Prefix(r, x.ckpt.count)
      /\ r \in resident => h = NoCheckpoint
  <2>1. NoCheckpoint \in HandleSet
    BY DEF NoCheckpoint, HandleSet
  <2>2. CASE h = NoCheckpoint
    BY <2>1, <2>2
  <2>3. CASE h # NoCheckpoint
    <3>1. r \notin resident /\ h \in Matches(r)
      BY <1>1, <2>3
    <3>2. PICK x \in endpoints : x.ckpt = h /\ x.tokens = Prefix(r, Len(x.tokens))
      BY <2>3, <3>1 DEF Matches
    <3>3. x.ckpt.count = Len(x.tokens)
      BY <3>2 DEF HybridInv, Filing
    <3>4. x.ckpt \in HandleSet
      BY <3>2 DEF HybridInv, Types, EndpointSet
    <3> QED BY <3>1, <3>2, <3>3, <3>4
  <2> QED BY <2>2, <2>3
<1>7. /\ e.request = r /\ (e.newly <=> r \notin resident)
      /\ (e.prefill <=> processed[r] < Prompt[r]) /\ e.ckpt = h
      /\ e.start = (IF r \notin resident THEN h.count ELSE processed[r])
      /\ e.count = n /\ e.drafts = d /\ e.good = g /\ e.before = length[r]
  BY <1>1
<1>8. e.start \in Nat
  BY <1>2, <1>6, <1>7 DEF HandleSet
<1>9. e \in EntrySet
  <2>1. (IF r \notin resident THEN h.count ELSE processed[r]) \in Nat
    BY <1>7, <1>8
  <2> DEFINE a == r \notin resident
             b == processed[r] < Prompt[r]
             m == IF r \notin resident THEN h.count ELSE processed[r]
  <2>2. a \in BOOLEAN /\ b \in BOOLEAN /\ m \in Nat
    BY <2>1
  <2>3. e = [request |-> r, newly |-> a, prefill |-> b, ckpt |-> h, start |-> m,
             count |-> n, drafts |-> d, good |-> g, before |-> length[r]]
    BY <1>1
  <2> HIDE DEF a, b, m
  <2> QED BY <1>2, <1>5, <1>6, <2>2, <2>3 DEF EntrySet
<1>10. Feasible(e)
  <2>1. /\ e.start + e.count <= e.before /\ (e.prefill => e.drafts = 0)
        /\ (~e.prefill => e.start + e.count = e.before) /\ e.good <= e.drafts
        /\ e.drafts < Len(Stream[r]) - e.before
    BY <1>7 DEF IsPlannable
  <2>2. e.before + e.drafts < Len(Stream[r])
    BY <1>2, <1>3, <1>5, <1>7, <2>1
  <2> QED BY <1>2, <1>6, <1>7, <2>1, <2>2 DEF Feasible
<1> QED BY <1>6, <1>7, <1>9, <1>10

(* What dropping the drafts of a mixed step leaves of a planned row. *)
LEMMA DroppedDrafts ==
    ASSUME HybridInv, phase = "idle", NEW r \in Requests, IsExecutable(r),
           NEW e \in EntrySet, e.request = r, Feasible(e)
    PROVE  LET t == [e EXCEPT !.drafts = 0, !.good = 0] IN
           /\ t \in EntrySet /\ t.request = e.request /\ t.newly = e.newly /\ t.ckpt = e.ckpt
           /\ Feasible(t)
<1> DEFINE t == [e EXCEPT !.drafts = 0, !.good = 0]
           F == {"request", "newly", "prefill", "ckpt", "start", "count", "drafts", "good", "before"}
<1>1. DOMAIN e = F /\ e = [f \in F |-> e[f]]
  BY DEF EntrySet
<1>2. DOMAIN t = F /\ t = [f \in F |-> t[f]]
  BY <1>1
<1>3. /\ t.request = e.request /\ t.newly = e.newly /\ t.prefill = e.prefill /\ t.ckpt = e.ckpt
      /\ t.start = e.start /\ t.count = e.count /\ t.drafts = 0 /\ t.good = 0
      /\ t.before = e.before
  BY <1>1
<1> HIDE DEF t
<1>4. t \in EntrySet
  BY <1>2, <1>3 DEF EntrySet
<1>5. e.before \in Nat /\ e.before = length[r] /\ r \in DOMAIN Stream
  BY DEF EntrySet, Feasible
<1>6. Len(Stream[r]) \in Nat
  BY <1>5, StreamFacts DEF HybridInv
<1>7. e.before + 0 < Len(Stream[r])
  BY <1>5, <1>6 DEF IsExecutable
<1>8. Feasible(t)
  BY <1>3, <1>7 DEF Feasible
<1> QED BY <1>3, <1>4, <1>8 DEF t

(* A batch, its rows, and what every one of them is like. *)
IsPlan(es, n) ==
    /\ n \in 1 .. Capacity /\ DOMAIN es = 1 .. n /\ es = [i \in 1 .. n |-> es[i]]
    /\ \A i \in 1 .. n :
         /\ es[i] \in EntrySet /\ Feasible(es[i])
         /\ es[i].newly <=> es[i].request \notin resident
         /\ es[i].ckpt # NoCheckpoint => \E x \in endpoints :
                x.ckpt = es[i].ckpt /\ x.tokens = Prefix(es[i].request, x.ckpt.count)
    /\ \A i, j \in 1 .. n : es[i].request = es[j].request => i = j
    /\ Cardinality({i \in 1 .. n : es[i].newly}) <= AvailableSlots(pool)

(* A batch that is admitted finds enough free slots. *)
LEMMA PlanFits ==
    ASSUME HybridInv, phase = "idle", NEW n \in Nat, NEW s, DOMAIN s = 1 .. n,
           \A i \in 1 .. n : s[i] \in Requests, \A i, j \in 1 .. n : s[i] = s[j] => i = j,
           Cardinality(resident \cup ToSet(s)) <= Capacity
    PROVE  Cardinality({i \in 1 .. n : s[i] \notin resident}) <= AvailableSlots(pool)
<1> DEFINE I == {i \in 1 .. n : s[i] \notin resident}
           N == {s[i] : i \in I}
           f == [i \in I |-> s[i]]
<1>1. /\ IsFiniteSet(resident) /\ Cardinality(resident) \in Nat
      /\ AvailableSlots(pool) = Capacity - Cardinality(resident)
  BY FreeCount
<1>2. f \in Injection(I, N) /\ f \in Surjection(I, N)
  <2>1. f \in [I -> N]
    OBVIOUS
  <2>2. \A i, j \in I : f[i] = f[j] => i = j
    OBVIOUS
  <2>3. \A x \in N : \E i \in I : f[i] = x
    OBVIOUS
  <2> QED BY <2>1, <2>2, <2>3 DEF Injection, Surjection, IsInjective
<1>3. resident \cup ToSet(s) = resident \cup N /\ resident \cap N = {}
  BY DEF ToSet
<1>4. I \in SUBSET (1 .. n)
  OBVIOUS
<1>5. IsFiniteSet(1 .. n)
  BY FS_Interval
<1> HIDE DEF I, N, f
<1>6. IsFiniteSet(I) /\ Cardinality(I) \in Nat
  BY <1>4, <1>5, FS_Subset, FS_CardinalityType
<1>7. IsFiniteSet(N) /\ Cardinality(N) = Cardinality(I)
  BY <1>2, <1>6, FS_Surjection
<1>8. Cardinality(resident \cup N) =
        Cardinality(resident) + Cardinality(N) - Cardinality(resident \cap N)
  BY <1>1, <1>7, FS_Union
<1>9. Cardinality(resident \cap N) = 0
  BY <1>3, FS_EmptySet
<1>10. Cardinality(I) <= Capacity - Cardinality(resident)
  <2>1. Cardinality(resident \cup N) <= Capacity
    BY <1>3
  <2> QED BY <1>1, <1>6, <1>7, <1>8, <1>9, <2>1, PoolAssumption
<1> QED BY <1>1, <1>10 DEF I

(* Every plan is feasible, with its mixed drafts or without. *)
LEMMA PlansFacts ==
    ASSUME HybridInv, phase = "idle", NEW es \in Plans
    PROVE  \E n \in Nat : IsPlan(es, n) /\ IsPlan(WithoutMixedDrafts(es), n)
<1>1. PICK s \in Batches :
        /\ es \in [DOMAIN s -> UNION {{e \in Entries(r) : IsPlannable(e)} : r \in ToSet(s)}]
        /\ \A i \in DOMAIN s : es[i].request = s[i]
  BY DEF Plans
<1>2. PICK n \in 1 .. Capacity :
        /\ s \in [1 .. n -> {r \in Requests : IsExecutable(r)}]
        /\ IsInjective(s) /\ Cardinality(resident \cup ToSet(s)) <= Capacity
  BY DEF Batches
<1>3. n \in Nat /\ DOMAIN s = 1 .. n /\ \A i \in 1 .. n : s[i] \in Requests /\ IsExecutable(s[i])
  BY <1>2, PoolAssumption
<1>4. \A i, j \in 1 .. n : s[i] = s[j] => i = j
  BY <1>2, <1>3 DEF IsInjective
<1>5. Cardinality({i \in 1 .. n : s[i] \notin resident}) <= AvailableSlots(pool)
  BY <1>2, <1>3, <1>4, PlanFits
<1>6. ASSUME NEW i \in 1 .. n
      PROVE  /\ es[i] \in EntrySet /\ es[i].request = s[i] /\ Feasible(es[i])
             /\ es[i].newly <=> s[i] \notin resident
             /\ es[i].ckpt # NoCheckpoint => \E x \in endpoints :
                    x.ckpt = es[i].ckpt /\ x.tokens = Prefix(s[i], x.ckpt.count)
  <2>1. PICK r \in ToSet(s) : es[i] \in Entries(r) /\ IsPlannable(es[i])
    BY <1>1, <1>3
  <2>2. r \in Requests /\ IsExecutable(r)
    BY <1>3, <2>1 DEF ToSet
  <2>3. /\ es[i] \in EntrySet /\ es[i].request = r /\ Feasible(es[i])
        /\ es[i].newly <=> r \notin resident
        /\ es[i].ckpt # NoCheckpoint => \E x \in endpoints :
                    x.ckpt = es[i].ckpt /\ x.tokens = Prefix(r, x.ckpt.count)
    BY <2>1, <2>2, EntryFacts
  <2>4. r = s[i]
    BY <1>1, <1>3, <2>3
  <2> QED BY <2>3, <2>4
<1>7. DOMAIN es = 1 .. n /\ es = [i \in 1 .. n |-> es[i]]
  BY <1>1, <1>3
<1>8. {i \in 1 .. n : es[i].newly} = {i \in 1 .. n : s[i] \notin resident}
  BY <1>6
<1>9. IsPlan(es, n)
  <2>1. Cardinality({i \in 1 .. n : es[i].newly}) <= AvailableSlots(pool)
    BY <1>5, <1>8
  <2>2. \A i, j \in 1 .. n : es[i].request = es[j].request => i = j
    BY <1>4, <1>6
  <2> QED BY <1>2, <1>6, <1>7, <2>1, <2>2 DEF IsPlan
<1>10. ASSUME \E i, j \in DOMAIN es : es[i].prefill /\ es[j].drafts # 0
       PROVE  IsPlan(WithoutMixedDrafts(es), n)
  <2> DEFINE ds == [i \in 1 .. n |-> [es[i] EXCEPT !.drafts = 0, !.good = 0]]
  <2>1. WithoutMixedDrafts(es) = ds
    BY <1>7, <1>10 DEF WithoutMixedDrafts
  <2>2. ASSUME NEW i \in 1 .. n
        PROVE  /\ ds[i] \in EntrySet /\ ds[i].request = es[i].request
               /\ ds[i].newly = es[i].newly /\ ds[i].ckpt = es[i].ckpt /\ Feasible(ds[i])
    <3>1. ds[i] = [es[i] EXCEPT !.drafts = 0, !.good = 0]
      OBVIOUS
    <3>2. /\ es[i] \in EntrySet /\ es[i].request = s[i] /\ Feasible(es[i])
          /\ s[i] \in Requests /\ IsExecutable(s[i])
      BY <1>3, <1>6
    <3> HIDE DEF ds
    <3> QED BY <3>1, <3>2, DroppedDrafts
  <2>3. DOMAIN ds = 1 .. n /\ ds = [i \in 1 .. n |-> ds[i]]
    OBVIOUS
  <2> HIDE DEF ds
  <2>4. {i \in 1 .. n : ds[i].newly} = {i \in 1 .. n : s[i] \notin resident}
    BY <1>6, <2>2
  <2>5. Cardinality({i \in 1 .. n : ds[i].newly}) <= AvailableSlots(pool)
    BY <1>5, <2>4
  <2>6. \A i, j \in 1 .. n : ds[i].request = ds[j].request => i = j
    BY <1>4, <1>6, <2>2
  <2>7. ASSUME NEW i \in 1 .. n
        PROVE  /\ ds[i].newly <=> ds[i].request \notin resident
               /\ ds[i].ckpt # NoCheckpoint => \E x \in endpoints :
                    x.ckpt = ds[i].ckpt /\ x.tokens = Prefix(ds[i].request, x.ckpt.count)
    BY <1>6, <2>2
  <2>8. IsPlan(ds, n)
    BY <1>2, <2>2, <2>3, <2>5, <2>6, <2>7 DEF IsPlan
  <2> QED BY <2>1, <2>8
<1>11. ASSUME ~(\E i, j \in DOMAIN es : es[i].prefill /\ es[j].drafts # 0)
       PROVE  IsPlan(WithoutMixedDrafts(es), n)
  <2>1. WithoutMixedDrafts(es) = es
    BY <1>11 DEF WithoutMixedDrafts
  <2> QED BY <1>9, <2>1
<1> QED BY <1>3, <1>9, <1>10, <1>11

(* The cross-checks of the planner pass. *)
LEMMA PlanStepStep ==
    ASSUME HybridInv, PlanStep, UNCHANGED config
    PROVE  HybridInv'
<1>1. /\ phase = "idle"
      /\ UNCHANGED <<config, pool, res, paged, target, resident, length, processed, endpoints>>
  BY DEF PlanStep
<1>2. PICK es \in Plans : /\ plan' = WithoutMixedDrafts(es)
                          /\ IF Consistent(es) THEN phase' = "planned" /\ UNCHANGED fault
                                               ELSE Die("consistency")
  BY DEF PlanStep
<1>3. PICK n \in Nat : IsPlan(es, n) /\ IsPlan(WithoutMixedDrafts(es), n)
  BY <1>1, PlansFacts
<1>4. Consistent(es)
  <2>1. \A r \in Requests : /\ OwnsCommittedSlot(pool, r) <=> r \in resident
                            /\ r \in resident => /\ paged[r] = CommittedTokens(pool, r)
                                                 /\ paged[r] = processed[r]
    BY <1>1 DEF HybridInv, Boundaries
  <2>2. resident \subseteq Requests
    BY DEF HybridInv, Types
  <2>3. CommittedSlotCount(pool) = Cardinality(resident)
    <3>1. {r \in Requests : pool.index[r] # NoSlot} = resident
      BY <2>1, <2>2 DEF OwnsCommittedSlot
    <3> QED BY <3>1 DEF CommittedSlotCount
  <2>4. \A i \in DOMAIN es : es[i].newly # OwnsCommittedSlot(pool, es[i].request)
    <3> SUFFICES ASSUME NEW i \in 1 .. n
                 PROVE  es[i].newly # OwnsCommittedSlot(pool, es[i].request)
      BY <1>3 DEF IsPlan
    <3>1. /\ es[i] \in EntrySet /\ (es[i].newly <=> es[i].request \notin resident)
      BY <1>3 DEF IsPlan
    <3>2. es[i].request \in Requests /\ es[i].newly \in BOOLEAN
      BY <3>1 DEF EntrySet
    <3>3. es[i].newly <=> ~OwnsCommittedSlot(pool, es[i].request)
      BY <2>1, <3>1, <3>2
    <3>4. OwnsCommittedSlot(pool, es[i].request) \in BOOLEAN
      BY DEF OwnsCommittedSlot
    <3> QED BY <3>2, <3>3, <3>4
  <2>5. Cardinality({i \in DOMAIN es : es[i].newly}) <= AvailableSlots(pool)
    BY <1>3 DEF IsPlan
  <2> QED BY <2>1, <2>2, <2>3, <2>4, <2>5 DEF Consistent
<1>5. phase' = "planned" /\ UNCHANGED fault
  BY <1>2, <1>4
<1>6. IsPlan(plan', n)
  BY <1>2, <1>3
<1>7. /\ n \in 1 .. Capacity /\ DOMAIN plan' = 1 .. n /\ plan' = [i \in 1 .. n |-> plan'[i]]
      /\ \A i \in 1 .. n :
           /\ plan'[i] \in EntrySet /\ Feasible(plan'[i])
           /\ plan'[i].newly <=> plan'[i].request \notin resident
           /\ plan'[i].ckpt # NoCheckpoint => \E x \in endpoints :
                  x.ckpt = plan'[i].ckpt /\ x.tokens = Prefix(plan'[i].request, x.ckpt.count)
      /\ \A i, j \in 1 .. n : plan'[i].request = plan'[j].request => i = j
      /\ Cardinality({i \in 1 .. n : plan'[i].newly}) <= AvailableSlots(pool)
  BY <1>6 DEF IsPlan
<1>8. plan' \in Seq(EntrySet) /\ Len(plan') = n /\ Rows' = 1 .. n
  <2>1. plan' \in Seq(EntrySet)
    BY <1>7
  <2>2. Len(plan') = n
    BY <1>7, <2>1
  <2> QED BY <1>7, <2>1, <2>2 DEF Rows
<1>9. Types'
  BY <1>1, <1>5, <1>8 DEF HybridInv, Types
<1>10. Control'
  BY <1>1, <1>5 DEF HybridInv, Control, ContractHolds, Open, Flipping, Flipped
<1>11. Progress'
  BY <1>1, SamePrefix DEF HybridInv, Progress
<1>12. Boundaries'
  BY <1>1, <1>5, SamePrefix DEF HybridInv, Boundaries
<1>13. Slotting'
  BY <1>1, <1>5 DEF HybridInv, Slotting, SlotsAreOwnedOnce, Flipping
<1>14. Planning'
  <2>1. \A e : Feasible(e)' <=> Feasible(e)
    BY <1>1, SamePrefix DEF Feasible
  <2>2. \A i \in Rows' : Feasible(plan[i])'
    <3> SUFFICES ASSUME NEW i \in 1 .. n PROVE Feasible(plan[i])'
      BY <1>8
    <3>1. Feasible(plan'[i])
      BY <1>7
    <3> QED BY <1>1, <3>1, SamePrefix DEF Feasible
  <2>3. AvailableSlots(pool)' = AvailableSlots(pool)
    BY <1>1
  <2>4. Cardinality({i \in Rows' : plan'[i].newly}) <= AvailableSlots(pool)'
    BY <1>7, <1>8, <2>3
  <2> QED BY <1>1, <1>5, <1>7, <1>8, <2>2, <2>4 DEF Planning, Flipping, Flipped
<1>15. Reserving' /\ Contents'
  BY <1>5 DEF Reserving, Contents, Flipping
<1>16. VisibleStateIsCommitted'
  BY <1>1, <1>5, VisibleKept DEF HybridInv, Control, NoFault
<1>17. Filing'
  <2>1. \A i \in Rows' : plan'[i].ckpt # NoCheckpoint =>
            \E x \in endpoints' : /\ x.ckpt = plan'[i].ckpt
                                  /\ x.tokens = Prefix(plan[i].request, x.ckpt.count)'
    <3> SUFFICES ASSUME NEW i \in 1 .. n, plan'[i].ckpt # NoCheckpoint
                 PROVE  \E x \in endpoints' : /\ x.ckpt = plan'[i].ckpt
                                              /\ x.tokens = Prefix(plan[i].request, x.ckpt.count)'
      BY <1>8
    <3>1. PICK x \in endpoints :
              x.ckpt = plan'[i].ckpt /\ x.tokens = Prefix(plan'[i].request, x.ckpt.count)
      BY <1>7
    <3>2. Prefix(plan[i].request, x.ckpt.count)' = Prefix(plan'[i].request, x.ckpt.count)
      BY <1>1 DEF Prefix, Stream
    <3> QED BY <1>1, <3>1, <3>2
  <2> QED BY <1>1, <1>5, <2>1 DEF HybridInv, Filing, ValidCheckpoint
<1> QED BY <1>9, <1>10, <1>11, <1>12, <1>13, <1>14, <1>15, <1>16, <1>17 DEF HybridInv

-----------------------------------------------------------------------------
(* Reservation. *)

(* Reserve accepts every plan, and binds each row to the state it starts     *)
(* from.                                                                     *)
LEMMA ReserveStepStep ==
    ASSUME HybridInv, ReserveStep, UNCHANGED config
    PROVE  HybridInv'
<1> DEFINE reqs == FixedRequests
<1>1. /\ phase = "planned" /\ IsPool(pool) /\ pool.healthy /\ ~pool.live /\ fault = NoFault
      /\ UNCHANGED <<config, paged, resident, length, processed, plan, endpoints>>
  <2>1. phase = "planned" /\ UNCHANGED <<config, paged, resident, length, processed, plan, endpoints>>
    BY DEF ReserveStep
  <2> QED BY <2>1 DEF HybridInv, Types, Control, Open, Flipping, Flipped
<1>2. /\ plan \in Seq(EntrySet) /\ Len(plan) \in 1 .. Capacity /\ Rows = 1 .. Len(plan)
      /\ \A i, j \in Rows : plan[i].request = plan[j].request => i = j
      /\ Cardinality({i \in Rows : plan[i].newly}) <= AvailableSlots(pool)
  BY <1>1 DEF HybridInv, Types, Planning, Rows
<1>3. \A i \in Rows : plan[i] \in EntrySet
  BY <1>2
<1>4. \A i \in Rows :
        /\ plan[i].request \in Requests /\ plan[i].newly \in BOOLEAN /\ plan[i].ckpt \in HandleSet
        /\ plan[i].start \in Nat /\ plan[i].count \in Nat \ {0} /\ plan[i].drafts \in Nat
  BY <1>3 DEF EntrySet
<1>5. \A i \in Rows :
        /\ Feasible(plan[i])
        /\ plan[i].newly <=> plan[i].request \notin resident
  BY <1>1 DEF HybridInv, Planning
<1>6. \A r \in Requests :
        /\ OwnsCommittedSlot(pool, r) <=> r \in resident
        /\ r \in resident => paged[r] = CommittedTokens(pool, r) /\ paged[r] = processed[r]
        /\ r \notin resident => paged[r] = NoTable
  BY <1>1 DEF HybridInv, Boundaries
<1>7. \A i \in Rows : OwnsCommittedSlot(pool, plan[i].request) <=> ~plan[i].newly
  BY <1>4, <1>5, <1>6
<1>8. /\ DOMAIN reqs = Rows
      /\ \A i \in Rows : /\ reqs[i].request = plan[i].request /\ reqs[i].ckpt = plan[i].ckpt
                         /\ reqs[i].target = plan[i].start + plan[i].count + plan[i].drafts
                         /\ reqs[i].capture = plan[i].drafts
                         /\ reqs[i] \in RequestSet
  <2>1. DOMAIN reqs = Rows
    BY DEF FixedRequests
  <2> SUFFICES ASSUME NEW i \in Rows
               PROVE  /\ reqs[i].request = plan[i].request /\ reqs[i].ckpt = plan[i].ckpt
                      /\ reqs[i].target = plan[i].start + plan[i].count + plan[i].drafts
                      /\ reqs[i].capture = plan[i].drafts
                      /\ reqs[i] \in RequestSet
    BY <2>1
  <2>2. plan[i].start + plan[i].count + plan[i].drafts \in Nat
    BY <1>4
  <2>3. reqs[i] = [request |-> plan[i].request,
                   target |-> plan[i].start + plan[i].count + plan[i].drafts,
                   capture |-> plan[i].drafts, ckpt |-> plan[i].ckpt]
    BY DEF FixedRequests
  <2> HIDE DEF reqs
  <2> QED BY <1>4, <2>2, <2>3 DEF RequestSet
<1>9. reqs \in Seq(RequestSet) /\ Len(reqs) = Len(plan) /\ 1 \in DOMAIN reqs
  <2>1. reqs = [i \in 1 .. Len(plan) |-> reqs[i]]
    BY <1>2 DEF FixedRequests
  <2> HIDE DEF reqs
  <2>2. reqs \in Seq(RequestSet)
    BY <1>2, <1>8, <2>1
  <2>3. Len(reqs) = Len(plan)
    BY <1>2, <1>8, <2>2
  <2> QED BY <1>2, <1>8, <2>2, <2>3
<1> HIDE DEF reqs
<1> DEFINE new == {i \in DOMAIN reqs : ~OwnsCommittedSlot(pool, reqs[i].request)}
<1>10. new = {i \in Rows : plan[i].newly}
  BY <1>7, <1>8
<1>11. Cardinality(new) <= AvailableSlots(pool)
  BY <1>2, <1>10
<1>12. \A i, j \in DOMAIN reqs : reqs[i].request = reqs[j].request => i = j
  BY <1>2, <1>8
<1>13. \A i \in Rows : plan[i].ckpt # NoCheckpoint =>
        /\ plan[i].newly /\ plan[i].start = plan[i].ckpt.count
        /\ ValidCheckpoint(pool, plan[i].ckpt)
        /\ pool.ckpt[plan[i].ckpt.row].row = Prefix(plan[i].request, plan[i].start)
  <2> SUFFICES ASSUME NEW i \in Rows, plan[i].ckpt # NoCheckpoint
               PROVE  /\ plan[i].newly /\ plan[i].start = plan[i].ckpt.count
                      /\ ValidCheckpoint(pool, plan[i].ckpt)
                      /\ pool.ckpt[plan[i].ckpt.row].row = Prefix(plan[i].request, plan[i].start)
    OBVIOUS
  <2>1. plan[i].newly /\ plan[i].start = plan[i].ckpt.count
    BY <1>4, <1>5 DEF Feasible
  <2>2. PICK e \in endpoints : /\ e.ckpt = plan[i].ckpt
                               /\ e.tokens = Prefix(plan[i].request, e.ckpt.count)
    BY DEF HybridInv, Filing
  <2>3. ValidCheckpoint(pool, e.ckpt) /\ pool.ckpt[e.ckpt.row].row = e.tokens
    BY DEF HybridInv, Filing
  <2> QED BY <2>1, <2>2, <2>3
<1>14. ReserveAccepts(pool, reqs)
  <2>1. \A i \in DOMAIN reqs : reqs[i].ckpt # NoCheckpoint =>
            /\ ValidCheckpoint(pool, reqs[i].ckpt)
            /\ reqs[i].ckpt.count < reqs[i].target
            /\ i \in new
    <3> SUFFICES ASSUME NEW i \in Rows, plan[i].ckpt # NoCheckpoint
                 PROVE  /\ ValidCheckpoint(pool, plan[i].ckpt)
                        /\ plan[i].ckpt.count < plan[i].start + plan[i].count + plan[i].drafts
                        /\ i \in new
      BY <1>8
    <3>1. ValidCheckpoint(pool, plan[i].ckpt)
      BY <1>13
    <3>2. plan[i].start = plan[i].ckpt.count
      BY <1>13
    <3>3. plan[i].start < plan[i].start + plan[i].count + plan[i].drafts
      <4> DEFINE a == plan[i].start
                 b == plan[i].count
                 c == plan[i].drafts
      <4>1. a \in Nat /\ b \in Nat \ {0} /\ c \in Nat
        BY <1>4
      <4> HIDE DEF a, b, c
      <4>2. a < a + b + c
        BY <4>1
      <4> QED BY <4>2 DEF a, b, c
    <3>4. i \in new
      BY <1>10, <1>13
    <3> QED BY <3>1, <3>2, <3>3, <3>4
  <2>2. Len(reqs) \in 1 .. Capacity
    BY <1>2, <1>9
  <2> QED BY <1>1, <1>11, <1>12, <2>1, <2>2 DEF ReserveAccepts
<1>15. /\ pool' = Reserve(pool, reqs).pool /\ res' = Reserve(pool, reqs).res
       /\ target' = [r \in Requests |->
               LET e == plan[RowOf(plan, r)]
               IN  IF IsPlanned(r) THEN e.start + e.count + e.drafts ELSE NoTable]
       /\ phase' = "reserved" /\ UNCHANGED fault
  BY <1>14 DEF ReserveStep, reqs
<1>16. \A r \in Requests : OwnsCommittedSlot(pool, r) =>
               /\ pool.index[r] \in Slots
               /\ pool.slot[pool.index[r]].ownership = "Committed"
               /\ pool.slot[pool.index[r]].request = r
  BY OwnerFacts
<1>17. ReservedAs(pool, reqs, pool', res')
  <2>1. ReservedAs(pool, reqs, Reserve(pool, reqs).pool, Reserve(pool, reqs).res)
    BY <1>1, <1>9, <1>11, <1>12, <1>16, ReserveFacts
  <2> QED BY <1>15, <2>1
<1>18. /\ Planned(pool, reqs, res'.rows) /\ res' \in ReservationSet /\ res'.state = "Reserved"
       /\ res'.direct => \A i \in DOMAIN res'.rows : ~res'.rows[i].provisional
       /\ res'.captures <=> \E i \in DOMAIN res'.rows : res'.rows[i].capture # 0
       /\ IsPool(pool') /\ pool'.index = pool.index /\ pool'.ckpt = pool.ckpt /\ pool'.replay = {}
       /\ pool'.healthy = pool.healthy /\ pool'.live
  BY <1>17 DEF ReservedAs
<1>19. /\ DOMAIN res'.rows = Rows
       /\ \A i, j \in Rows : res'.rows[i].slot = res'.rows[j].slot => i = j
       /\ \A i \in Rows :
            /\ res'.rows[i].request = plan[i].request
            /\ res'.rows[i].target = plan[i].start + plan[i].count + plan[i].drafts
            /\ res'.rows[i].capture = plan[i].drafts /\ res'.rows[i].ckpt = plan[i].ckpt
            /\ res'.rows[i].step = 0 /\ res'.rows[i].kept = 0
            /\ res'.rows[i].provisional <=> plan[i].newly
            /\ plan[i].newly =>
                /\ res'.rows[i].slot \in FreeSlots(pool) /\ res'.rows[i].expected = 0
            /\ ~plan[i].newly =>
                /\ res'.rows[i].slot = pool.index[plan[i].request]
                /\ res'.rows[i].expected = pool.slot[res'.rows[i].slot].state_generation
                /\ res'.rows[i].generation = pool.slot[res'.rows[i].slot].generation
  <2>1. Planned(pool, reqs, res'.rows)
    BY <1>18
  <2>2. /\ DOMAIN res'.rows = Rows
        /\ \A i, j \in Rows : res'.rows[i].slot = res'.rows[j].slot => i = j
    BY <1>8, <2>1 DEF Planned
  <2> SUFFICES ASSUME NEW i \in Rows
               PROVE  /\ res'.rows[i].request = plan[i].request
                      /\ res'.rows[i].target = plan[i].start + plan[i].count + plan[i].drafts
                      /\ res'.rows[i].capture = plan[i].drafts /\ res'.rows[i].ckpt = plan[i].ckpt
                      /\ res'.rows[i].step = 0 /\ res'.rows[i].kept = 0
                      /\ res'.rows[i].provisional <=> plan[i].newly
                      /\ plan[i].newly =>
                          /\ res'.rows[i].slot \in FreeSlots(pool) /\ res'.rows[i].expected = 0
                      /\ ~plan[i].newly =>
                          /\ res'.rows[i].slot = pool.index[plan[i].request]
                          /\ res'.rows[i].expected = pool.slot[res'.rows[i].slot].state_generation
                          /\ res'.rows[i].generation = pool.slot[res'.rows[i].slot].generation
    BY <2>2
  <2>3. /\ res'.rows[i].request = reqs[i].request /\ res'.rows[i].target = reqs[i].target
        /\ res'.rows[i].capture = reqs[i].capture /\ res'.rows[i].ckpt = reqs[i].ckpt
        /\ res'.rows[i].step = 0 /\ res'.rows[i].kept = 0
        /\ res'.rows[i].provisional <=> ~OwnsCommittedSlot(pool, reqs[i].request)
        /\ ~OwnsCommittedSlot(pool, reqs[i].request) =>
            /\ res'.rows[i].slot \in FreeSlots(pool) /\ res'.rows[i].expected = 0
        /\ OwnsCommittedSlot(pool, reqs[i].request) =>
            /\ res'.rows[i].slot = pool.index[reqs[i].request]
            /\ res'.rows[i].expected = pool.slot[res'.rows[i].slot].state_generation
            /\ res'.rows[i].generation = pool.slot[res'.rows[i].slot].generation
    BY <1>8, <2>1 DEF Planned
  <2>4. reqs[i].request = plan[i].request /\ reqs[i].ckpt = plan[i].ckpt
        /\ reqs[i].target = plan[i].start + plan[i].count + plan[i].drafts
        /\ reqs[i].capture = plan[i].drafts
    BY <1>8
  <2>5. OwnsCommittedSlot(pool, reqs[i].request) <=> ~plan[i].newly
    BY <1>7, <2>4
  <2> QED BY <2>3, <2>4, <2>5
<1>20. \A i \in Rows : res'.rows[i].slot \in Slots /\ res'.rows[i].provisional = plan[i].newly
  <2>1. \A i \in Rows : res'.rows[i] \in RowSet
    BY <1>18, <1>19 DEF ReservationSet
  <2>2. \A i \in Rows : res'.rows[i].slot \in Slots /\ res'.rows[i].provisional \in BOOLEAN
    BY <2>1 DEF RowSet
  <2> QED BY <1>4, <1>19, <2>2
(* The slots of the admissions. *)
<1>21. \A i \in Rows : plan[i].newly =>
        /\ pool'.slot[res'.rows[i].slot].request = plan[i].request
        /\ pool'.slot[res'.rows[i].slot].generation = res'.rows[i].generation
        /\ pool'.slot[res'.rows[i].slot].state_generation = res'.rows[i].expected
        /\ pool'.slot[res'.rows[i].slot].committed_tokens = plan[i].start
        /\ pool'.slot[res'.rows[i].slot].ownership = "Reserved"
  <2> SUFFICES ASSUME NEW i \in Rows, plan[i].newly
               PROVE  /\ pool'.slot[res'.rows[i].slot].request = plan[i].request
                      /\ pool'.slot[res'.rows[i].slot].generation = res'.rows[i].generation
                      /\ pool'.slot[res'.rows[i].slot].state_generation = res'.rows[i].expected
                      /\ pool'.slot[res'.rows[i].slot].committed_tokens = plan[i].start
                      /\ pool'.slot[res'.rows[i].slot].ownership = "Reserved"
    OBVIOUS
  <2>1. i \in DOMAIN res'.rows /\ res'.rows[i].provisional
    BY <1>19
  <2>2. /\ pool'.slot[res'.rows[i].slot].request = res'.rows[i].request
        /\ pool'.slot[res'.rows[i].slot].generation = res'.rows[i].generation
        /\ pool'.slot[res'.rows[i].slot].state_generation = 0
        /\ pool'.slot[res'.rows[i].slot].committed_tokens = res'.rows[i].ckpt.count
        /\ pool'.slot[res'.rows[i].slot].ownership = "Reserved"
    BY <1>17, <2>1 DEF ReservedAs
  <2>3. plan[i].start = plan[i].ckpt.count
    BY <1>5 DEF Feasible
  <2> QED BY <1>19, <2>2, <2>3
(* Every other slot. *)
<1>22. ASSUME NEW s \in Slots, \A i \in Rows : plan[i].newly => res'.rows[i].slot # s
       PROVE  /\ pool'.slot[s].request = pool.slot[s].request
              /\ pool'.slot[s].generation = pool.slot[s].generation
              /\ pool'.slot[s].state_generation = pool.slot[s].state_generation
              /\ pool'.slot[s].committed_tokens = pool.slot[s].committed_tokens
              /\ pool'.slot[s].ownership = pool.slot[s].ownership
              /\ VisibleRow(pool', s) = VisibleRow(pool, s)
  <2>1. \A i \in DOMAIN res'.rows : res'.rows[i].provisional => res'.rows[i].slot # s
    BY <1>19, <1>22
  <2> QED BY <1>17, <2>1 DEF ReservedAs
<1>23. \A s \in Slots : pool.slot[s].ownership # "Free" =>
            \A i \in Rows : plan[i].newly => res'.rows[i].slot # s
  BY <1>19 DEF FreeSlots
<1>24. \A r \in Requests :
        /\ OwnsCommittedSlot(pool', r) <=> OwnsCommittedSlot(pool, r)
        /\ OwnsCommittedSlot(pool, r) =>
            /\ pool'.slot[pool.index[r]].ownership = "Committed"
            /\ pool'.slot[pool.index[r]].request = r
            /\ CommittedTokens(pool', r) = CommittedTokens(pool, r)
            /\ VisibleRow(pool', pool'.index[r]) = VisibleRow(pool, pool.index[r])
  <2> SUFFICES ASSUME NEW r \in Requests, OwnsCommittedSlot(pool, r)
               PROVE  /\ pool'.slot[pool.index[r]].ownership = "Committed"
                      /\ pool'.slot[pool.index[r]].request = r
                      /\ CommittedTokens(pool', r) = CommittedTokens(pool, r)
                      /\ VisibleRow(pool', pool'.index[r]) = VisibleRow(pool, pool.index[r])
    BY <1>18 DEF OwnsCommittedSlot
  <2>1. /\ pool.index[r] \in Slots /\ pool.slot[pool.index[r]].ownership = "Committed"
        /\ pool.slot[pool.index[r]].request = r
    BY <1>16
  <2>2. \A i \in Rows : plan[i].newly => res'.rows[i].slot # pool.index[r]
    BY <1>23, <2>1
  <2>3. /\ pool'.slot[pool.index[r]].request = pool.slot[pool.index[r]].request
        /\ pool'.slot[pool.index[r]].committed_tokens = pool.slot[pool.index[r]].committed_tokens
        /\ pool'.slot[pool.index[r]].ownership = pool.slot[pool.index[r]].ownership
        /\ VisibleRow(pool', pool.index[r]) = VisibleRow(pool, pool.index[r])
    BY <1>22, <2>1, <2>2
  <2> QED BY <1>18, <2>1, <2>3 DEF CommittedTokens
<1>25. Rows' = Rows /\ \A r : IsPlanned(r)' <=> IsPlanned(r)
  BY <1>1 DEF Rows, IsPlanned
<1>26. \A i \in Rows : target'[plan[i].request] = plan[i].start + plan[i].count + plan[i].drafts
  <2> SUFFICES ASSUME NEW i \in Rows
               PROVE  target'[plan[i].request] = plan[i].start + plan[i].count + plan[i].drafts
    OBVIOUS
  <2>1. RowOf(plan, plan[i].request) = i
    BY <1>2, RowOfFacts DEF Rows
  <2>2. IsPlanned(plan[i].request) /\ plan[i].request \in Requests
    BY <1>4 DEF IsPlanned
  <2> QED BY <1>15, <2>1, <2>2
<1>27. \A r \in Requests : ~IsPlanned(r) => target'[r] = NoTable
  BY <1>15
<1>28. target' \in [Requests -> Nat \cup {NoTable}]
  <2>1. target' = [r \in Requests |-> target'[r]]
    BY <1>15
  <2>2. \A r \in Requests : target'[r] \in Nat \cup {NoTable}
    <3> SUFFICES ASSUME NEW r \in Requests PROVE target'[r] \in Nat \cup {NoTable}
      OBVIOUS
    <3>1. CASE IsPlanned(r)
      <4>1. PICK i \in Rows : plan[i].request = r
        BY <3>1 DEF IsPlanned
      <4>2. plan[i].start + plan[i].count + plan[i].drafts \in Nat
        BY <1>4
      <4> QED BY <1>26, <4>1, <4>2
    <3>2. CASE ~IsPlanned(r)
      BY <1>27, <3>2
    <3> QED BY <3>1, <3>2
  <2> QED BY <2>1, <2>2
<1>29. Types'
  BY <1>1, <1>15, <1>18, <1>28 DEF HybridInv, Types, Open, Flipping
<1>30. Control'
  BY <1>1, <1>15, <1>18 DEF HybridInv, Control, ContractHolds, Open, Flipping, Flipped
<1>31. Progress'
  BY <1>1, SamePrefix DEF HybridInv, Progress
<1>32. Boundaries'
  <2>1. \A r \in Requests : OwnsCommittedSlot(pool', r) <=> OwnsCommittedSlot(pool, r)
    BY <1>24
  <2>2. \A r \in Requests : r \in resident => CommittedTokens(pool', r) = CommittedTokens(pool, r)
    BY <1>6, <1>24
  <2>3. phase' # "published" /\ phase' # "committed" /\ phase' # "dead"
    BY <1>15
  <2> QED BY <1>1, <1>6, <2>1, <2>2, <2>3, SamePrefix DEF HybridInv, Boundaries
<1>33. Slotting'
  <2>1. \A r \in Requests : OwnsCommittedSlot(pool', r) =>
            /\ pool'.slot[pool'.index[r]].request = r
            /\ pool'.slot[pool'.index[r]].ownership = "Committed"
    BY <1>18, <1>24
  <2>2. ASSUME NEW s \in Slots, pool'.slot[s].ownership = "Committed"
        PROVE  pool'.index[pool'.slot[s].request] = s /\ pool'.slot[s].request \in Requests
    <3>1. \A i \in Rows : plan[i].newly => res'.rows[i].slot # s
      BY <1>21, <2>2
    <3>2. pool.slot[s].ownership = "Committed" /\ pool'.slot[s].request = pool.slot[s].request
      BY <1>22, <2>2, <3>1
    <3> QED BY <1>18, <3>2 DEF HybridInv, Slotting, SlotsAreOwnedOnce
  <2>3. ASSUME NEW s \in Slots, pool'.slot[s].ownership = "Reserved"
        PROVE  \E i \in DOMAIN res'.rows : res'.rows[i].slot = s /\ res'.rows[i].provisional
    <3>1. CASE \E i \in Rows : plan[i].newly /\ res'.rows[i].slot = s
      BY <1>19, <3>1
    <3>2. CASE \A i \in Rows : plan[i].newly => res'.rows[i].slot # s
      <4>1. pool.slot[s].ownership = "Reserved"
        BY <1>22, <2>3, <3>2
      <4> QED BY <1>1, <4>1 DEF HybridInv, Slotting, Flipping
    <3> QED BY <3>1, <3>2
  <2>4. phase' \in Flipping
    BY <1>15 DEF Flipping
  <2>5. SlotsAreOwnedOnce'
    BY <1>18, <2>1, <2>2, <2>3 DEF SlotsAreOwnedOnce
  <2> QED BY <2>2, <2>4, <2>5 DEF Slotting
<1>34. Planning'
  <2>1. \A i \in Rows : Feasible(plan[i])'
    BY <1>1, <1>5, SamePrefix DEF Feasible
  <2>2. phase' \notin {"planned", "committed", "sealing"}
    BY <1>15
  <2> QED BY <1>1, <1>2, <1>5, <1>25, <2>1, <2>2 DEF Planning, Flipped
<1>35. \A i \in Rows : Holds(res'.rows[i], pool'.slot[res'.rows[i].slot], plan[i])
  <2> SUFFICES ASSUME NEW i \in Rows
               PROVE  Holds(res'.rows[i], pool'.slot[res'.rows[i].slot], plan[i])
    OBVIOUS
  <2>1. res'.rows[i].request = plan[i].request /\ res'.rows[i].provisional = plan[i].newly
    BY <1>19, <1>20
  <2>2. CASE plan[i].newly
    BY <1>21, <2>1, <2>2 DEF Holds
  <2>3. CASE ~plan[i].newly
    <3> DEFINE s == res'.rows[i].slot
    <3>1. /\ s \in Slots /\ s = pool.index[plan[i].request]
          /\ res'.rows[i].expected = pool.slot[s].state_generation
          /\ res'.rows[i].generation = pool.slot[s].generation
      BY <1>19, <1>20, <2>3
    <3>2. OwnsCommittedSlot(pool, plan[i].request) /\ plan[i].request \in Requests
      BY <1>4, <1>7, <2>3
    <3>3. pool.slot[s].ownership = "Committed" /\ pool.slot[s].request = plan[i].request
      BY <1>16, <3>1, <3>2
    <3>4. pool.slot[s].committed_tokens = plan[i].start
      <4>1. plan[i].start = processed[plan[i].request]
        BY <1>5, <2>3 DEF Feasible
      <4>2. CommittedTokens(pool, plan[i].request) = processed[plan[i].request]
        BY <1>6, <3>2
      <4> QED BY <3>1, <4>1, <4>2 DEF CommittedTokens
    <3>5. \A j \in Rows : plan[j].newly => res'.rows[j].slot # s
      BY <1>23, <3>1, <3>3
    <3>6. /\ pool'.slot[s].request = pool.slot[s].request
          /\ pool'.slot[s].generation = pool.slot[s].generation
          /\ pool'.slot[s].state_generation = pool.slot[s].state_generation
          /\ pool'.slot[s].committed_tokens = pool.slot[s].committed_tokens
          /\ pool'.slot[s].ownership = pool.slot[s].ownership
      BY <1>22, <3>1, <3>5
    <3> HIDE DEF s
    <3>7. Holds(res'.rows[i], pool'.slot[s], plan[i])
      BY <2>1, <2>3, <3>1, <3>3, <3>4, <3>6 DEF Holds
    <3> QED BY <3>7 DEF s
  <2> QED BY <1>4, <2>2, <2>3
<1>36. Reserving'
  <2>1. ASSUME NEW i \in Rows
        PROVE  /\ Narrowed(res.rows[i], plan[i])'
               /\ target'[plan[i].request] = res'.rows[i].target
               /\ plan[i].drafts # 0 => res'.captures
               /\ res'.direct => ~plan[i].newly
    <3>1. Narrowed(res.rows[i], plan[i])'
      BY <1>1, <1>15, <1>19 DEF Narrowed
    <3>2. target'[plan[i].request] = res'.rows[i].target
      BY <1>19, <1>26
    <3>3. plan[i].drafts # 0 => res'.captures
      BY <1>18, <1>19
    <3>4. res'.direct => ~plan[i].newly
      BY <1>18, <1>19
    <3> QED BY <3>1, <3>2, <3>3, <3>4
  <2>2. \A i \in Rows : Holds(res.rows[i], pool.slot[res.rows[i].slot], plan[i])'
    BY <1>1, <1>35
  <2> QED BY <1>1, <1>19, <1>25, <1>27, <2>1, <2>2 DEF Reserving
<1>37. ASSUME ~res'.direct, NEW i \in Rows
       PROVE  pool'.input[i] = Prefix(plan[i].request, plan[i].start)
  <2>1. /\ ~res'.rows[i].provisional => pool'.input[i] = VisibleRow(pool, res'.rows[i].slot)
        /\ res'.rows[i].provisional /\ res'.rows[i].ckpt # NoCheckpoint
                => pool'.input[i] = pool.ckpt[res'.rows[i].ckpt.row].row
        /\ res'.rows[i].provisional /\ res'.rows[i].ckpt = NoCheckpoint
                => pool'.input[i] = ZeroRow
    BY <1>17, <1>19, <1>37 DEF ReservedAs
  <2>2. /\ res'.rows[i].provisional <=> plan[i].newly
        /\ res'.rows[i].ckpt = plan[i].ckpt
    BY <1>19
  <2>3. CASE ~plan[i].newly
    <3>1. OwnsCommittedSlot(pool, plan[i].request) /\ plan[i].request \in Requests
      BY <1>4, <1>7, <2>3
    <3>2. res'.rows[i].slot = pool.index[plan[i].request]
      BY <1>19, <2>3
    <3>3. plan[i].start = processed[plan[i].request]
      BY <1>5, <2>3 DEF Feasible
    <3>4. CommittedTokens(pool, plan[i].request) = processed[plan[i].request]
      BY <1>6, <3>1
    <3>5. VisibleRow(pool, pool.index[plan[i].request])
            = Prefix(plan[i].request, CommittedTokens(pool, plan[i].request))
      BY <1>1, <3>1 DEF HybridInv, VisibleStateIsCommitted, NoFault
    <3> QED BY <2>1, <2>2, <2>3, <3>2, <3>3, <3>4, <3>5
  <2>4. CASE plan[i].newly /\ plan[i].ckpt # NoCheckpoint
    BY <1>13, <2>1, <2>2, <2>4
  <2>5. CASE plan[i].newly /\ plan[i].ckpt = NoCheckpoint
    <3>1. plan[i].request \in DOMAIN Stream /\ plan[i].start = plan[i].ckpt.count
      BY <1>5, <2>5 DEF Feasible
    <3>2. plan[i].start = 0
      BY <2>5, <3>1 DEF NoCheckpoint
    <3>3. 0 <= Len(Stream[plan[i].request])
      BY <3>1, StreamFacts DEF HybridInv
    <3>4. Prefix(plan[i].request, 0) \in Seq(Int) /\ Len(Prefix(plan[i].request, 0)) = 0
      BY <3>1, <3>3, PrefixFacts DEF HybridInv
    <3>5. Prefix(plan[i].request, 0) = <<>>
      BY <3>4
    <3> QED BY <2>1, <2>2, <2>5, <3>2, <3>5 DEF ZeroRow
  <2> QED BY <1>4, <2>3, <2>4, <2>5
<1>38. Contents'
  <2>1. \A i \in Rows : ~res'.direct => pool'.input[i] = Prefix(plan[i].request, plan[i].start)'
    BY <1>1, <1>37, SamePrefix
  <2> QED BY <1>1, <1>15, <1>18, <1>25, <2>1 DEF Contents
<1>39. VisibleStateIsCommitted'
  BY <1>1, <1>15, <1>24, VisibleKept DEF NoFault
<1>40. Filing'
  BY <1>1, <1>15, <1>18, SameFiling DEF HybridInv
<1> QED BY <1>29, <1>30, <1>31, <1>32, <1>33, <1>34, <1>36, <1>38, <1>39, <1>40 DEF HybridInv

-----------------------------------------------------------------------------
(* The invariant, and what follows from it. *)

(* The invariant speaks of nothing but the variables. *)
LEMMA StutterStep ==
    ASSUME HybridInv, UNCHANGED vars
    PROVE  HybridInv'
<1>1. /\ config' = config /\ pool' = pool /\ res' = res /\ paged' = paged /\ target' = target
      /\ resident' = resident /\ length' = length /\ processed' = processed /\ plan' = plan
      /\ endpoints' = endpoints /\ phase' = phase /\ fault' = fault
  BY DEF vars
<1>2. /\ Rows' = Rows /\ (\A r : IsPlanned(r)' <=> IsPlanned(r))
      /\ \A e : Feasible(e)' <=> Feasible(e)
  <2>1. Rows' = Rows /\ \A r : IsPlanned(r)' <=> IsPlanned(r)
    BY <1>1 DEF Rows, IsPlanned
  <2>2. \A e : Feasible(e)' <=> Feasible(e)
    BY <1>1, SamePrefix DEF Feasible
  <2> QED BY <2>1, <2>2
<1>3. Types'
  BY <1>1 DEF HybridInv, Types
<1>4. Control'
  BY <1>1 DEF HybridInv, Control, ContractHolds
<1>5. Progress'
  BY <1>1, SamePrefix DEF HybridInv, Progress
<1>6. Boundaries'
  BY <1>1, <1>2, SamePrefix DEF HybridInv, Boundaries
<1>7. Slotting'
  BY <1>1 DEF HybridInv, Slotting, SlotsAreOwnedOnce
<1>8. Planning'
  <2>1. \A i \in Rows : Feasible(plan[i])' <=> Feasible(plan[i])
    BY <1>1, SamePrefix DEF Feasible
  <2> QED BY <1>1, <1>2, <2>1 DEF HybridInv, Planning
<1>9. Reserving'
  <2>1. \A i : /\ Holds(res.rows[i], pool.slot[res.rows[i].slot], plan[i])'
                    <=> Holds(res.rows[i], pool.slot[res.rows[i].slot], plan[i])
               /\ Narrowed(res.rows[i], plan[i])' <=> Narrowed(res.rows[i], plan[i])
    BY <1>1 DEF Narrowed
  <2> QED BY <1>1, <1>2, <2>1 DEF HybridInv, Reserving
<1>10. Contents'
  <2>1. \A i : /\ Prefix(plan[i].request, plan[i].start)' = Prefix(plan[i].request, plan[i].start)
               /\ Prefix(plan[i].request, res.rows[i].target)'
                      = Prefix(plan[i].request, res.rows[i].target)
               /\ RunTokens(plan[i])' = RunTokens(plan[i])
               /\ RunOutput(plan[i])' = RunOutput(plan[i])
    BY <1>1, SamePrefix
  <2> QED BY <1>1, <1>2, <2>1 DEF HybridInv, Contents
<1>11. VisibleStateIsCommitted'
  <2>1. \A r : Prefix(r, CommittedTokens(pool, r))' = Prefix(r, CommittedTokens(pool, r))
    BY <1>1, SamePrefix
  <2> QED BY <1>1, <2>1 DEF HybridInv, VisibleStateIsCommitted
<1>12. Filing'
  BY <1>1, SameFiling DEF HybridInv
<1> QED BY <1>3, <1>4, <1>5, <1>6, <1>7, <1>8, <1>9, <1>10, <1>11, <1>12 DEF HybridInv

(* Every step keeps the invariant. *)
LEMMA NextHybridInv ==
    ASSUME HybridInv, [Next]_vars
    PROVE  HybridInv'
<1>1. CASE UNCHANGED vars
  BY <1>1, StutterStep
<1>2. ASSUME Next PROVE HybridInv'
  <2>1. Steps /\ UNCHANGED config
    BY <1>2 DEF Next
  <2>2. CASE \E r \in Requests : AddRequest(r) \/ Deallocate(r) \/ ReleaseForRewind(r)
    BY <2>1, <2>2, AddRequestStep, DeallocateStep, ReleaseForRewindStep
  <2>3. CASE PlanStep \/ ReserveStep \/ Decode \/ PostProcess \/ PrepareStep
    BY <2>1, <2>3, PlanStepStep, ReserveStepStep, DecodeStep, PostProcessStep, PrepareStepStep
  <2>4. CASE CommitPaged \/ CommitFixed \/ CommitRequests \/ SealRow \/ PassRow \/ EndStep
    BY <2>1, <2>4, CommitPagedStep, CommitFixedStep, CommitRequestsStep, SealRowStep, PassRowStep,
       EndStepStep
  <2>5. CASE EvictEndpoint \/ FlushFault \/ GatherFault \/ ExecutionFault \/ PostProcessFault
    BY <2>1, <2>5, EvictEndpointStep, FlushFaultStep, GatherFaultStep, ExecutionFaultStep,
       PostProcessFaultStep
  <2>6. CASE PrepareFault \/ CommitFault \/ CaptureFault
    BY <2>1, <2>6, PrepareFaultStep, CommitFaultStep, CaptureFaultStep
  <2> QED BY <2>1, <2>2, <2>3, <2>4, <2>5, <2>6 DEF Steps
<1> QED BY <1>1, <1>2

(* The inductive invariant holds of every behaviour: what the reservation, the *)
(* staging rows, the banks and the paged tables hold in each phase of a step.  *)
THEOREM HybridInvariance ==
    Spec => []HybridInv
<1>1. Init => HybridInv
  BY InitHybridInv
<1>2. HybridInv /\ [Next]_vars => HybridInv'
  BY NextHybridInv
<1> QED BY <1>1, <1>2, PTL DEF Spec

(* The state a request owns is the state of exactly its committed tokens,      *)
(* whatever was staged, flipped, normalised, replayed late or rolled back      *)
(* (StageRows, PublishCommit and Reserve in fixed_state_pool.cpp).             *)
THEOREM VisibleStateTheorem ==
    Spec => []VisibleStateIsCommitted
<1>1. HybridInv => VisibleStateIsCommitted
  BY DEF HybridInv
<1> QED BY <1>1, HybridInvariance, PTL

(* Paged tables and fixed slots have the same owners at the same token          *)
(* boundary, except between the two publications of one commit (Commit,         *)
(* Deallocate and ReleaseForRewind in cache_manager.cpp).                       *)
THEOREM BoundariesTheorem ==
    Spec => []BoundariesAgree
<1>1. HybridInv => BoundariesAgree
  BY DEF HybridInv, Boundaries, BoundariesAgree
<1> QED BY <1>1, HybridInvariance, PTL

(* A checkpoint that is offered or leased is still the state of exactly the     *)
(* tokens it is filed under (CapturePrefixCheckpoint, ReclaimCheckpoint and     *)
(* MatchPrefix).                                                                *)
THEOREM CheckpointsTheorem ==
    Spec => []CheckpointsAreExact
<1>1. ASSUME HybridInv PROVE CheckpointsAreExact
  <2>1. \A e \in endpoints :
            /\ ValidCheckpoint(pool, e.ckpt) /\ e.ckpt.count = Len(e.tokens)
            /\ pool.ckpt[e.ckpt.row].row = e.tokens
    BY <1>1 DEF HybridInv, Filing
  <2>2. ASSUME NEW i \in Rows, plan[i].ckpt # NoCheckpoint
        PROVE  /\ ValidCheckpoint(pool, plan[i].ckpt)
               /\ pool.ckpt[plan[i].ckpt.row].row = Prefix(plan[i].request, plan[i].ckpt.count)
    <3>1. PICK e \in endpoints : /\ e.ckpt = plan[i].ckpt
                                 /\ e.tokens = Prefix(plan[i].request, e.ckpt.count)
      BY <1>1, <2>2 DEF HybridInv, Filing
    <3> QED BY <2>1, <3>1
  <2> QED BY <2>1, <2>2 DEF CheckpointsAreExact
<1> QED BY <1>1, HybridInvariance, PTL

(* None of the checks the code calls impossible ever fires, every slot has one  *)
(* owner, and a checkpoint row is occupied exactly while it is held (Reserve,   *)
(* ValidateCommit, ValidateRelease, ReleaseProvisionalSlots).                   *)
THEOREM PoolTheorem ==
    Spec => []PoolIsSound
<1>1. ASSUME HybridInv PROVE PoolIsSound
  <2>1. ContractHolds /\ SlotsAreOwnedOnce
    BY <1>1 DEF HybridInv, Control, Slotting
  <2>2. ASSUME phase # "dead", NEW c \in Checkpoints, pool.ckpt[c].occupied
        PROVE  \E e \in endpoints : e.ckpt.row = c
    BY <1>1, <2>2 DEF HybridInv, Filing
  <2>3. ASSUME NEW e \in endpoints PROVE pool.ckpt[e.ckpt.row].occupied
    BY <1>1, <2>3 DEF HybridInv, Filing, ValidCheckpoint
  <2>4. ASSUME NEW c \in Checkpoints, NEW i \in Rows, plan[i].ckpt.row = c
        PROVE  \E e \in endpoints : e.ckpt.row = c
    <3>1. plan[i].ckpt # NoCheckpoint
      BY <2>4, PoolAssumption DEF NoCheckpoint, Checkpoints
    <3> QED BY <1>1, <2>4, <3>1 DEF HybridInv, Filing
  <2>5. IsPool(pool) /\ \A c \in Checkpoints : pool.ckpt[c].occupied \in BOOLEAN
    BY <1>1 DEF HybridInv, Types, IsPool, CheckpointSet
  <2>6. CheckpointRowsAreHeld
    BY <2>2, <2>3, <2>4, <2>5 DEF CheckpointRowsAreHeld
  <2> QED BY <2>1, <2>6 DEF PoolIsSound
<1> QED BY <1>1, HybridInvariance, PTL

(* What a step does to the owners and to the paged tables of those that stay. *)
StepEffects ==
    /\ phase # "published" => resident' \subseteq resident
    /\ phase = "published" => /\ UNCHANGED <<plan, paged, fault>> /\ phase' = "committed"
                              /\ resident' = resident \cup {plan[i].request : i \in Rows}
    /\ phase' = "published" => pool' = pool
    /\ phase' # "published" => \A r \in resident' \cap resident : paged'[r] = paged[r]
    /\ fault = "flush" => fault' # NoFault /\ (fault' = "flush" \/ fault' = "contract")

(* Ownership grows at the flip only, and tables move only before it. *)
LEMMA StepEffectsFacts ==
    ASSUME HybridInv, Next
    PROVE  StepEffects
<1>1. Steps
  BY DEF Next
<1>2. /\ phase # "dead" => fault = NoFault
      /\ phase \in {"prepared", "published"} => res.state = "Prepared"
  BY DEF HybridInv, Control
<1>3. ASSUME NEW r \in Requests, ReleaseOwnership(r), phase' = phase, phase \in {"idle", "dead"}
      PROVE  StepEffects
  <2>1. CASE r \notin resident
    BY <1>3, <2>1 DEF ReleaseOwnership, StepEffects, NoFault
  <2>2. CASE r \in resident /\ ~(ValidateRelease(pool, r) /\ paged[r] # NoTable)
    BY <1>3, <2>2 DEF ReleaseOwnership, StepEffects, NoFault
  <2>3. CASE r \in resident /\ ValidateRelease(pool, r) /\ paged[r] # NoTable
    <3>1. /\ paged' = [paged EXCEPT ![r] = NoTable] /\ resident' = resident \ {r}
          /\ UNCHANGED fault
      BY <1>3, <2>3 DEF ReleaseOwnership
    <3>2. \A x \in resident' \cap resident : paged'[x] = paged[x]
      BY <3>1 DEF HybridInv, Types
    <3> QED BY <1>3, <3>1, <3>2 DEF StepEffects, NoFault
  <2> QED BY <2>1, <2>2, <2>3
<1>4. ASSUME NEW r \in Requests, AddRequest(r) \/ Deallocate(r) \/ ReleaseForRewind(r)
      PROVE  StepEffects
  <2>1. CASE AddRequest(r)
    BY <2>1 DEF AddRequest, StepEffects, NoFault
  <2>2. CASE Deallocate(r)
    BY <1>3, <2>2 DEF Deallocate
  <2>3. CASE ReleaseForRewind(r)
    BY <1>3, <2>3 DEF ReleaseForRewind
  <2> QED BY <1>4, <2>1, <2>2, <2>3
<1>5. ASSUME PlanStep \/ ReserveStep PROVE StepEffects
  BY <1>2, <1>5 DEF PlanStep, ReserveStep, Die, StepEffects, NoFault
<1>6. ASSUME Decode \/ PostProcess \/ PrepareStep PROVE StepEffects
  BY <1>2, <1>6 DEF Decode, PostProcess, PrepareStep, Die, StepEffects, NoFault, engineVars
<1>7. ASSUME CommitPaged PROVE StepEffects
  BY <1>2, <1>7 DEF CommitPaged, StepEffects, NoFault, engineVars
<1>8. ASSUME CommitFixed PROVE StepEffects
  BY <1>2, <1>8 DEF CommitFixed, MayPublish, StepEffects, NoFault, engineVars
<1>9. ASSUME CommitRequests \/ PassRow \/ EndStep \/ EvictEndpoint PROVE StepEffects
  BY <1>2, <1>9 DEF CommitRequests, PassRow, EndStep, EvictEndpoint, StepEffects, NoFault
<1>10. ASSUME SealRow PROVE StepEffects
  <2>1. phase = "sealing" /\ UNCHANGED <<paged, resident, phase, fault>>
    BY <1>10 DEF SealRow
  <2> QED BY <1>2, <2>1 DEF StepEffects, NoFault
<1>11. ASSUME FlushFault \/ GatherFault PROVE StepEffects
  BY <1>2, <1>11 DEF FlushFault, GatherFault, Die, StepEffects, NoFault
<1>12. ASSUME ExecutionFault \/ PostProcessFault \/ PrepareFault \/ CommitFault PROVE StepEffects
  <2>1. /\ phase \in {"reserved", "executed", "accepted", "prepared", "committed", "sealing"}
        /\ UNCHANGED <<paged, resident>> /\ phase' \in {"idle", "dead"}
    BY <1>12 DEF ExecutionFault, PostProcessFault, PrepareFault, CommitFault, ReleaseReservation,
       RolledBack, Die
  <2> QED BY <1>2, <2>1 DEF StepEffects, NoFault
<1>13. ASSUME CaptureFault PROVE StepEffects
  <2>1. phase = "sealing" /\ UNCHANGED <<paged, resident>> /\ phase' = "dead"
    BY <1>13 DEF CaptureFault, Die
  <2> QED BY <1>2, <2>1 DEF StepEffects, NoFault
<1> QED BY <1>1, <1>4, <1>5, <1>6, <1>7, <1>8, <1>9, <1>10, <1>11, <1>12, <1>13 DEF Steps

(* A row of a step that is published moves its request forward. *)
LEMMA PublishedForward ==
    ASSUME HybridInv, phase = "published", NEW i \in Rows, plan[i].request \in resident
    PROVE  paged[plan[i].request] > CommittedTokens(pool, plan[i].request)
<1>1. phase \in Flipping
  BY DEF Flipping
<1>2. /\ plan[i].request \in Requests /\ plan[i].newly \in BOOLEAN
      /\ plan[i].start \in Nat /\ plan[i].count \in Nat \ {0} /\ plan[i].drafts \in Nat
  BY <1>1, RowFacts DEF EntrySet
<1>3. ~plan[i].newly
  BY <1>1, <1>2 DEF HybridInv, Planning
<1>4. pool.index[plan[i].request] = res.rows[i].slot
  BY <1>1, <1>3, ResidentRow
<1>5. /\ Holds(res.rows[i], pool.slot[res.rows[i].slot], plan[i]) /\ Narrowed(res.rows[i], plan[i])
      /\ target[plan[i].request] = res.rows[i].target
  BY <1>1 DEF HybridInv, Reserving
<1>6. CommittedTokens(pool, plan[i].request) = plan[i].start
  BY <1>4, <1>5 DEF Holds, CommittedTokens
<1>7. paged[plan[i].request] = res.rows[i].target
  <2>1. IsPlanned(plan[i].request)
    BY DEF IsPlanned
  <2> QED BY <1>2, <1>5, <2>1 DEF HybridInv, Boundaries
<1>8. res.rows[i].target > plan[i].start
  <2> DEFINE a == plan[i].start
             b == plan[i].count
             c == plan[i].drafts
             g == plan[i].good
             k == res.rows[i].kept
             t == res.rows[i].target
  <2>1. a \in Nat /\ b \in Nat \ {0} /\ c \in Nat
    BY <1>2
  <2>2. g \in Nat /\ k \in Nat
    BY <1>1, RowFacts DEF EntrySet, RowSet
  <2>3. t = a + b + c \/ (k \in b .. b + g /\ t = a + k)
    BY <1>5 DEF Narrowed
  <2> HIDE DEF a, b, c, g, k, t
  <2>4. t > a
    BY <2>1, <2>2, <2>3
  <2> QED BY <2>4 DEF a, t
<1> QED BY <1>6, <1>7, <1>8

(* A step that changes what is committed of a request is its own commit. *)
LEMMA CommittedStep ==
    ASSUME HybridInv, HybridInv', Next, NEW r \in Requests,
           CommittedView(r)' # CommittedView(r)
    PROVE  \/ r \notin resident'
           \/ fault' = "flush"
           \/ /\ phase = "published"
              /\ IsPlanned(r)
              /\ r \in resident => CommittedTokens(pool', r) > CommittedTokens(pool, r)
<1> SUFFICES ASSUME r \in resident', fault' # "flush"
             PROVE  /\ phase = "published"
                    /\ IsPlanned(r)
                    /\ r \in resident => CommittedTokens(pool', r) > CommittedTokens(pool, r)
  OBVIOUS
<1>1. StepEffects /\ UNCHANGED config
  BY StepEffectsFacts DEF Next
<1>2. fault # "flush"
  BY <1>1 DEF StepEffects, HybridInv, Control, ContractHolds
<1>3. OwnsCommittedSlot(pool', r) /\ (r \in resident => OwnsCommittedSlot(pool, r))
  BY DEF HybridInv, Boundaries
<1>4. CommittedView(r)' = <<CommittedTokens(pool', r), Prefix(r, CommittedTokens(pool, r))'>>
  BY <1>3 DEF CommittedView, HybridInv, VisibleStateIsCommitted
<1>5. r \in resident =>
        CommittedView(r) = <<CommittedTokens(pool, r), Prefix(r, CommittedTokens(pool, r))>>
  BY <1>2, <1>3 DEF CommittedView, HybridInv, VisibleStateIsCommitted
<1>6. r \in resident => CommittedTokens(pool', r) # CommittedTokens(pool, r)
  <2> SUFFICES ASSUME r \in resident, CommittedTokens(pool', r) = CommittedTokens(pool, r)
               PROVE  FALSE
    OBVIOUS
  <2>1. Prefix(r, CommittedTokens(pool, r))' = Prefix(r, CommittedTokens(pool, r))
    BY <1>1 DEF Prefix, Stream
  <2> QED BY <1>4, <1>5, <2>1
<1>7. phase' = "published" => r \in resident /\ phase = "published"
  <2> SUFFICES ASSUME phase' = "published" PROVE phase = "published" /\ r \in resident
    OBVIOUS
  <2>1. pool' = pool
    BY <1>1 DEF StepEffects
  <2>2. phase # "published" => r \in resident
    BY <1>1 DEF StepEffects
  <2> QED BY <1>1, <1>6, <2>1, <2>2 DEF StepEffects
<1>8. phase' # "published"
  BY <1>1, <1>7 DEF StepEffects
<1>9. CommittedTokens(pool', r) = paged'[r]
  BY <1>8 DEF HybridInv, Boundaries
<1>10. r \in resident => paged'[r] = paged[r]
  BY <1>1, <1>8 DEF StepEffects
<1>11. ~(phase = "published" /\ IsPlanned(r)) /\ r \in resident => paged[r] = CommittedTokens(pool, r)
  BY DEF HybridInv, Boundaries
<1>12. phase = "published" /\ IsPlanned(r)
  <2>1. CASE r \in resident
    BY <1>6, <1>9, <1>10, <1>11, <2>1
  <2>2. CASE r \notin resident
    <3>1. phase = "published"
      BY <1>1, <2>2 DEF StepEffects
    <3> QED BY <1>1, <2>2, <3>1 DEF StepEffects, IsPlanned
  <2> QED BY <2>1, <2>2
<1>13. ASSUME r \in resident PROVE CommittedTokens(pool', r) > CommittedTokens(pool, r)
  <2>1. PICK i \in Rows : plan[i].request = r
    BY <1>12 DEF IsPlanned
  <2>2. paged[r] > CommittedTokens(pool, r)
    BY <1>12, <1>13, <2>1, PublishedForward
  <2> QED BY <1>9, <1>10, <1>13, <2>2
<1> QED BY <1>12, <1>13

(* What is committed of a request only moves forward, at the commit of a step   *)
(* the request is part of, or is given up: no rollback, no deferred replay and  *)
(* no other request's step changes it (PublishCommit, Discard and               *)
(* ReleaseProvisionalSlots in fixed_state_pool.cpp).                            *)
THEOREM CommittedTheorem ==
    Spec => CommittedOnlyAtCommit
<1>1. ASSUME HybridInv, HybridInv', [Next]_vars
      PROVE  [\A r \in Requests :
                CommittedView(r)' # CommittedView(r) =>
                  \/ r \notin resident'
                  \/ fault' = "flush"
                  \/ /\ phase = "published"
                     /\ IsPlanned(r)
                     /\ r \in resident =>
                            CommittedTokens(pool', r) > CommittedTokens(pool, r)]_vars
  <2>1. CASE UNCHANGED vars
    BY <2>1
  <2>2. CASE Next
    BY <1>1, <2>2, CommittedStep
  <2> QED BY <1>1, <2>1, <2>2
<1> QED BY <1>1, HybridInvariance, PTL DEF Spec, CommittedOnlyAtCommit
=============================================================================
