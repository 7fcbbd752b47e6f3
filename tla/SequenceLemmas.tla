--------------------------- MODULE SequenceLemmas ---------------------------
(***************************************************************************)
(* Facts about natural numbers and flattened sequences that the proofs of  *)
(* the components share.                                                   *)
(***************************************************************************)
EXTENDS Integers, Sequences, SequencesExt, WellFoundedInduction,
        FiniteSetTheorems, TLAPS

(* A set of natural numbers that has an element has a least one. *)
LEMMA NatLeast ==
    ASSUME NEW T \in SUBSET Nat, T # {}
    PROVE  \E n \in T : \A m \in T : n <= m
<1> DEFINE R == OpToRel(<, Nat)
<1>1. IsWellFoundedOn(R, Nat)
  BY NatLessThanWellFounded
<1>2. PICK n \in T : \A m \in T : ~(<<m, n>> \in R)
  <2> HIDE DEF R
  <2> QED BY <1>1, WFMin
<1>3. \A m \in T : ~(m < n)
  BY <1>2 DEF OpToRel
<1> QED BY <1>3

(* Induction, for a set of numbers instead of a predicate. *)
LEMMA NatSetInduction ==
    ASSUME NEW S, 0 \in S, \A n \in Nat : n \in S => n + 1 \in S
    PROVE  Nat \subseteq S
<1> SUFFICES ASSUME Nat \ S # {} PROVE FALSE
  OBVIOUS
<1>1. PICK n \in Nat \ S : \A m \in Nat \ S : n <= m
  BY NatLeast
<1>2. n # 0 /\ n - 1 \in Nat
  BY <1>1
<1>3. n - 1 \in S
  BY <1>1, <1>2
<1> QED BY <1>1, <1>2, <1>3

(* Where the elements of a concatenation come from. *)
LEMMA ConcatFacts ==
    ASSUME NEW E, NEW s \in Seq(E), NEW t \in Seq(E), NEW u, u = s \o t
    PROVE  /\ u \in Seq(E) /\ Len(u) = Len(s) + Len(t)
           /\ \A i \in 1 .. Len(s) : u[i] = s[i]
           /\ \A i \in Len(s) + 1 .. Len(s) + Len(t) : u[i] = t[i - Len(s)]
<1>1. Len(s \o t) = Len(s) + Len(t)
  OBVIOUS
<1> QED BY <1>1

(* The recursion in FlattenSeq has a solution. *)
LEMMA FlattenExists ==
    ASSUME NEW b, NEW n \in Nat \ {0}
    PROVE  \E f : f = [i \in 1 .. n |-> IF i = 1 THEN b[i] ELSE f[i - 1] \o b[i]]
<1> DEFINE P(k) == \E f : f = [i \in 1 .. k |-> IF i = 1 THEN b[i] ELSE f[i - 1] \o b[i]]
           S == {k \in Nat : P(k)}
<1>1. 0 \in S
  <2>1. 1 .. 0 = {}
    OBVIOUS
  <2> DEFINE g == [i \in 1 .. 0 |-> 0]
  <2>2. g = [i \in 1 .. 0 |-> IF i = 1 THEN b[i] ELSE g[i - 1] \o b[i]]
    BY <2>1
  <2> QED BY <2>2
<1>2. ASSUME NEW k \in Nat, k \in S PROVE k + 1 \in S
  <2>1. PICK f : f = [i \in 1 .. k |-> IF i = 1 THEN b[i] ELSE f[i - 1] \o b[i]]
    BY <1>2
  <2> DEFINE g == [i \in 1 .. k + 1 |-> IF i <= k THEN f[i]
                                         ELSE IF i = 1 THEN b[i] ELSE f[i - 1] \o b[i]]
  <2>2. \A i \in 1 .. k : f[i] = IF i = 1 THEN b[i] ELSE f[i - 1] \o b[i]
    BY <2>1
  <2>3. ASSUME NEW i \in 1 .. k + 1
        PROVE  g[i] = IF i = 1 THEN b[i] ELSE g[i - 1] \o b[i]
    <3>1. CASE i <= k
      <4>1. g[i] = f[i] /\ (i # 1 => g[i - 1] = f[i - 1])
        BY <3>1
      <4> QED BY <2>2, <3>1, <4>1
    <3>2. CASE i = k + 1
      <4>1. g[i] = (IF i = 1 THEN b[i] ELSE f[i - 1] \o b[i]) /\ (i # 1 => g[i - 1] = f[i - 1])
        BY <3>2
      <4> QED BY <4>1
    <3> QED BY <3>1, <3>2
  <2>4. g = [i \in 1 .. k + 1 |-> IF i = 1 THEN b[i] ELSE g[i - 1] \o b[i]]
    <3>1. DOMAIN g = 1 .. k + 1
      OBVIOUS
    <3> HIDE DEF g
    <3>2. g = [i \in 1 .. k + 1 |-> g[i]]
      <4>1. g \in [1 .. k + 1 -> {g[i] : i \in 1 .. k + 1}]
        BY DEF g
      <4> QED BY <4>1
    <3> QED BY <2>3, <3>2
  <2> HIDE DEF g
  <2>5. P(k + 1)
    BY <2>4
  <2> HIDE DEF P
  <2> QED BY <2>5
<1>3. Nat \subseteq S
  <2> HIDE DEF S
  <2> QED BY <1>1, <1>2, NatSetInduction
<1> QED BY <1>3

(* f[i] is what FlattenSeq makes of the first i blocks of b. *)
Flattens(f, b, n) ==
    /\ f[1] = b[1]
    /\ \A i \in 2 .. n : f[i] = f[i - 1] \o b[i]
    /\ FlattenSeq(b) = f[n]

(* The partial concatenations that FlattenSeq computes. *)
LEMMA FlattenPrefixes ==
    ASSUME NEW E, NEW n \in Nat \ {0}, NEW b \in [1 .. n -> Seq(E)]
    PROVE  \E f \in [1 .. n -> Seq(E)] : Flattens(f, b, n)
<1> DEFINE F == CHOOSE f : f = [i \in 1 .. n |-> IF i = 1 THEN b[i] ELSE f[i - 1] \o b[i]]
<1>1. Len(b) = n
  OBVIOUS
<1>2. FlattenSeq(b) = F[n]
  BY <1>1 DEF FlattenSeq
<1>3. F = [i \in 1 .. n |-> IF i = 1 THEN b[i] ELSE F[i - 1] \o b[i]]
  BY FlattenExists
<1> HIDE DEF F
<1>4. F[1] = b[1] /\ \A i \in 2 .. n : F[i] = F[i - 1] \o b[i]
  <2>1. \A i \in 1 .. n : F[i] = IF i = 1 THEN b[i] ELSE F[i - 1] \o b[i]
    BY <1>3
  <2>2. 1 \in 1 .. n /\ \A i \in 2 .. n : i \in 1 .. n /\ i # 1
    OBVIOUS
  <2> QED BY <2>1, <2>2
<1>5. \A i \in 1 .. n : F[i] \in Seq(E)
  <2> DEFINE S == {k \in Nat : k + 1 <= n => F[k + 1] \in Seq(E)}
  <2>1. 0 \in S
    BY <1>4
  <2>2. ASSUME NEW k \in Nat, k \in S PROVE k + 1 \in S
    <3> SUFFICES ASSUME k + 2 <= n PROVE F[k + 2] \in Seq(E)
      BY DEF S
    <3>1. k + 2 \in 2 .. n /\ (k + 2) - 1 = k + 1 /\ k + 1 <= n
      OBVIOUS
    <3>2. F[k + 2] = F[k + 1] \o b[k + 2]
      BY <1>4, <3>1
    <3>3. F[k + 1] \in Seq(E) /\ b[k + 2] \in Seq(E)
      BY <2>2, <3>1
    <3> QED BY <3>2, <3>3
  <2>3. Nat \subseteq S
    <3> HIDE DEF S
    <3> QED BY <2>1, <2>2, NatSetInduction
  <2>4. ASSUME NEW i \in 1 .. n PROVE F[i] \in Seq(E)
    <3>1. i - 1 \in Nat /\ (i - 1) + 1 = i /\ i <= n
      OBVIOUS
    <3>2. i - 1 \in S
      BY <2>3, <3>1
    <3> QED BY <3>1, <3>2
  <2> QED BY <2>4
<1>6. F \in [1 .. n -> Seq(E)]
  BY <1>3, <1>5
<1> QED BY <1>2, <1>4, <1>6 DEF Flattens

(* The same, from the empty sequence on. *)
Concatenates(f, b, n) ==
    /\ f[0] = <<>>
    /\ \A i \in 1 .. n : f[i] = f[i - 1] \o b[i]
    /\ FlattenSeq(b) = f[n]

(* FlattenSeq concatenates its sequences one after the other, if any. *)
LEMMA FlattenPieces ==
    ASSUME NEW E, NEW n \in Nat, NEW b \in [1 .. n -> Seq(E)]
    PROVE  \E f \in [0 .. n -> Seq(E)] : Concatenates(f, b, n)
<1>1. CASE n = 0
  <2> DEFINE f == [i \in 0 .. n |-> <<>>]
  <2>1. Len(b) = 0 /\ b = <<>>
    BY <1>1
  <2>2. FlattenSeq(b) = <<>>
    BY <2>1 DEF FlattenSeq
  <2>3. f \in [0 .. n -> Seq(E)] /\ f[0] = <<>> /\ f[n] = <<>>
    BY <1>1
  <2>4. \A i \in 1 .. n : FALSE
    BY <1>1
  <2> HIDE DEF f
  <2> QED BY <2>2, <2>3, <2>4 DEF Concatenates
<1>2. CASE n # 0
  <2>1. PICK g \in [1 .. n -> Seq(E)] : Flattens(g, b, n)
    BY <1>2, FlattenPrefixes
  <2>2. g[1] = b[1] /\ FlattenSeq(b) = g[n] /\ \A i \in 2 .. n : g[i] = g[i - 1] \o b[i]
    BY <2>1 DEF Flattens
  <2> DEFINE f == [i \in 0 .. n |-> IF i = 0 THEN <<>> ELSE g[i]]
  <2>3. f[0] = <<>> /\ \A i \in 1 .. n : f[i] = g[i]
    OBVIOUS
  <2>4. f \in [0 .. n -> Seq(E)]
    <3>1. \A i \in 0 .. n : i = 0 \/ i \in 1 .. n
      OBVIOUS
    <3>2. <<>> \in Seq(E) /\ \A i \in 1 .. n : g[i] \in Seq(E)
      OBVIOUS
    <3> QED BY <3>1, <3>2
  <2> HIDE DEF f
  <2>5. ASSUME NEW i \in 1 .. n PROVE f[i] = f[i - 1] \o b[i]
    <3>1. CASE i = 1
      <4>1. i - 1 = 0 /\ b[1] \in Seq(E)
        BY <3>1
      <4>2. b[1] = <<>> \o b[1]
        BY <4>1
      <4> QED BY <2>2, <2>3, <3>1, <4>1, <4>2
    <3>2. CASE i # 1
      <4>1. i \in 2 .. n /\ i - 1 \in 1 .. n
        BY <3>2
      <4> QED BY <2>2, <2>3, <4>1
    <3> QED BY <3>1, <3>2
  <2>6. f[n] = g[n]
    BY <1>2, <2>3
  <2> QED BY <2>2, <2>3, <2>4, <2>5, <2>6 DEF Concatenates
<1> QED BY <1>1, <1>2

(* No element occurs twice. *)
Distinct(s) == \A i, j \in DOMAIN s : s[i] = s[j] => i = j

(* Induction up to a bound. *)
LEMMA RangeInduction ==
    ASSUME NEW n \in Nat, NEW S, 0 \in S,
           \A k \in 0 .. n - 1 : k \in S => k + 1 \in S
    PROVE  0 .. n \subseteq S
<1> DEFINE T == {k \in Nat : k <= n => k \in S}
<1>1. 0 \in T
  OBVIOUS
<1>2. ASSUME NEW k \in Nat, k \in T PROVE k + 1 \in T
  <2> SUFFICES ASSUME k + 1 <= n PROVE k + 1 \in S
    OBVIOUS
  <2>1. k \in 0 .. n - 1 /\ k <= n
    OBVIOUS
  <2> QED BY <1>2, <2>1
<1>3. Nat \subseteq T
  <2> HIDE DEF T
  <2> QED BY <1>1, <1>2, NatSetInduction
<1> QED BY <1>3

(* The least element of a set of positive numbers, as Min finds it. *)
LEMMA MinFacts ==
    ASSUME NEW S \in SUBSET Nat, S # {}
    PROVE  Min(S) \in S /\ \A x \in S : Min(S) <= x
<1>1. PICK m \in S : \A x \in S : m <= x
  BY NatLeast
<1> QED BY <1>1 DEF Min

(* Where an element of a list is. *)
Position(s, x) == SelectInSeq(s, LAMBDA z : z = x)

(* An element of a list is where Position says. *)
LEMMA PositionFacts ==
    ASSUME NEW E, NEW s \in Seq(E), NEW x, x \in ToSet(s)
    PROVE  Position(s, x) \in 1 .. Len(s) /\ s[Position(s, x)] = x
<1> DEFINE I == {i \in 1 .. Len(s) : s[i] = x}
<1>1. I \in SUBSET Nat /\ I # {}
  BY DEF ToSet
<1>2. Position(s, x) = Min(I)
  BY <1>1 DEF Position, SelectInSeq
<1>3. Min(I) \in I
  <2> HIDE DEF I
  <2> QED BY <1>1, MinFacts
<1> QED BY <1>2, <1>3

(* t is s with x inserted as its i-th element. *)
InsertedAt(t, s, i, x, E) ==
    /\ t \in Seq(E) /\ Len(t) = Len(s) + 1
    /\ \A k \in 1 .. i - 1 : t[k] = s[k]
    /\ t[i] = x
    /\ \A k \in i + 1 .. Len(s) + 1 : t[k] = s[k - 1]

(* A list with one element inserted. *)
LEMMA InsertAtFacts ==
    ASSUME NEW E, NEW s \in Seq(E), NEW i \in 1 .. Len(s) + 1, NEW x \in E
    PROVE  InsertedAt(InsertAt(s, i, x), s, i, x, E)
<1> DEFINE t == InsertAt(s, i, x)
<1> DEFINE a == SubSeq(s, 1, i - 1)
           b == SubSeq(s, i, Len(s))
<1>1. a \in Seq(E) /\ Len(a) = i - 1 /\ \A k \in 1 .. i - 1 : a[k] = s[k]
  OBVIOUS
<1>2. b \in Seq(E) /\ Len(b) = Len(s) - i + 1 /\ \A k \in 1 .. Len(s) - i + 1 : b[k] = s[k + i - 1]
  OBVIOUS
<1>3. t = (a \o <<x>>) \o b
  BY DEF InsertAt
<1> HIDE DEF a, b, t
<1>4. <<x>> \in Seq(E) /\ Len(<<x>>) = 1 /\ <<x>>[1] = x
  OBVIOUS
<1> DEFINE c == a \o <<x>>
<1>5. c \in Seq(E) /\ Len(c) = i /\ (\A k \in 1 .. i - 1 : c[k] = s[k]) /\ c[i] = x
  <2>1. /\ c \in Seq(E) /\ Len(c) = Len(a) + Len(<<x>>)
        /\ \A k \in 1 .. Len(a) : c[k] = a[k]
        /\ \A k \in Len(a) + 1 .. Len(a) + Len(<<x>>) : c[k] = <<x>>[k - Len(a)]
    <3>1. a \in Seq(E) /\ <<x>> \in Seq(E) /\ c = a \o <<x>>
      BY <1>1, <1>4
    <3> HIDE DEF c
    <3> QED BY <3>1, ConcatFacts
  <2> HIDE DEF c
  <2>2. i \in Len(a) + 1 .. Len(a) + Len(<<x>>) /\ i - Len(a) = 1
    BY <1>1, <1>4
  <2>3. c[i] = <<x>>[i - Len(a)]
    BY <2>1, <2>2
  <2>4. Len(c) = i
    BY <1>1, <1>4, <2>1
  <2> QED BY <1>1, <1>4, <2>1, <2>2, <2>3, <2>4
<1> HIDE DEF c
<1>6. /\ t \in Seq(E) /\ Len(t) = Len(c) + Len(b)
      /\ \A k \in 1 .. Len(c) : t[k] = c[k]
      /\ \A k \in Len(c) + 1 .. Len(c) + Len(b) : t[k] = b[k - Len(c)]
  <2>1. t = c \o b
    BY <1>3 DEF c
  <2>2. c \in Seq(E) /\ b \in Seq(E)
    BY <1>2, <1>5
  <2> QED BY <2>1, <2>2, ConcatFacts
<1>7. ASSUME NEW k \in i + 1 .. Len(s) + 1 PROVE t[k] = s[k - 1]
  <2>1. k \in Len(c) + 1 .. Len(c) + Len(b)
    BY <1>2, <1>5
  <2>2. t[k] = b[k - i]
    BY <1>5, <1>6, <2>1
  <2>3. k - i \in 1 .. Len(s) - i + 1 /\ (k - i) + i - 1 = k - 1
    OBVIOUS
  <2>4. b[k - i] = s[(k - i) + i - 1]
    BY <1>2, <2>3
  <2> QED BY <2>2, <2>3, <2>4
<1>8. InsertedAt(t, s, i, x, E)
  BY <1>2, <1>5, <1>6, <1>7 DEF InsertedAt
<1> QED BY <1>8 DEF t

(* t has the elements of s and x, once each. *)
Grown(t, s, x, E) ==
    t \in Seq(E) /\ Distinct(t) /\ ToSet(t) = ToSet(s) \cup {x} /\ Len(t) = Len(s) + 1

(* Inserting a new element keeps a list free of duplicates. *)
LEMMA InsertDistinct ==
    ASSUME NEW E, NEW s \in Seq(E), Distinct(s), NEW i \in 1 .. Len(s) + 1,
           NEW x \in E, x \notin ToSet(s), NEW t, InsertedAt(t, s, i, x, E)
    PROVE  Grown(t, s, x, E)
<1>1. /\ t \in Seq(E) /\ Len(t) = Len(s) + 1
      /\ \A k \in 1 .. i - 1 : t[k] = s[k]
      /\ t[i] = x
      /\ \A k \in i + 1 .. Len(s) + 1 : t[k] = s[k - 1]
  BY DEF InsertedAt
<1>2. DOMAIN s = 1 .. Len(s) /\ DOMAIN t = 1 .. Len(s) + 1
  BY <1>1
<1> DEFINE From(k) == IF k < i THEN k ELSE k - 1
<1>3. ASSUME NEW k \in 1 .. Len(s) + 1, k # i PROVE From(k) \in 1 .. Len(s) /\ t[k] = s[From(k)]
  BY <1>1, <1>3
<1>4. ASSUME NEW k \in 1 .. Len(s) PROVE \E m \in 1 .. Len(s) + 1 : t[m] = s[k]
  <2>1. CASE k < i
    BY <1>1, <2>1
  <2>2. CASE k >= i
    <3>1. k + 1 \in i + 1 .. Len(s) + 1 /\ (k + 1) - 1 = k
      BY <2>2
    <3>2. t[k + 1] = s[(k + 1) - 1]
      BY <1>1, <3>1
    <3> QED BY <3>1, <3>2
  <2> QED BY <2>1, <2>2
<1>5. ToSet(t) = ToSet(s) \cup {x}
  <2>1. ASSUME NEW k \in 1 .. Len(s) + 1 PROVE t[k] \in ToSet(s) \cup {x}
    BY <1>1, <1>2, <1>3 DEF ToSet
  <2>2. ASSUME NEW k \in 1 .. Len(s) PROVE s[k] \in ToSet(t)
    BY <1>2, <1>4 DEF ToSet
  <2>3. x \in ToSet(t)
    BY <1>1, <1>2 DEF ToSet
  <2> QED BY <1>2, <2>1, <2>2, <2>3 DEF ToSet
<1>6. ASSUME NEW k \in 1 .. Len(s) + 1, NEW m \in 1 .. Len(s) + 1, t[k] = t[m] PROVE k = m
  <2>1. CASE k = i /\ m = i
    BY <2>1
  <2>2. ASSUME NEW j \in 1 .. Len(s) + 1, j # i PROVE t[j] # x
    <3>1. t[j] = s[From(j)] /\ From(j) \in 1 .. Len(s)
      BY <1>3, <2>2
    <3> QED BY <1>2, <3>1 DEF ToSet
  <2>3. CASE k # i /\ m # i
    <3>1. From(k) = From(m)
      <4>1. t[k] = s[From(k)] /\ From(k) \in DOMAIN s
        BY <1>2, <1>3, <2>3
      <4>2. t[m] = s[From(m)] /\ From(m) \in DOMAIN s
        BY <1>2, <1>3, <2>3
      <4> HIDE DEF From
      <4> QED BY <1>6, <4>1, <4>2 DEF Distinct
    <3> QED BY <2>3, <3>1
  <2> QED BY <1>1, <1>6, <2>1, <2>2, <2>3
<1> QED BY <1>1, <1>2, <1>5, <1>6 DEF Distinct, Grown

(* Appending a new element. *)
LEMMA AppendDistinct ==
    ASSUME NEW E, NEW s \in Seq(E), Distinct(s), NEW x \in E, x \notin ToSet(s)
    PROVE  Grown(Append(s, x), s, x, E)
<1> DEFINE i == Len(s) + 1
           t == Append(s, x)
<1>1. i \in 1 .. Len(s) + 1
  OBVIOUS
<1>2. InsertedAt(t, s, i, x, E)
  BY DEF InsertedAt
<1> HIDE DEF i, t
<1>3. Grown(t, s, x, E)
  BY <1>1, <1>2, InsertDistinct
<1> QED BY <1>3 DEF t

(* Putting a new element in front. *)
LEMMA PrependDistinct ==
    ASSUME NEW E, NEW s \in Seq(E), Distinct(s), NEW x \in E, x \notin ToSet(s)
    PROVE  Grown(<<x>> \o s, s, x, E)
<1> DEFINE t == <<x>> \o s
<1>1. 1 \in 1 .. Len(s) + 1
  OBVIOUS
<1>2. t \in Seq(E) /\ Len(t) = Len(s) + 1
  OBVIOUS
<1>3. t[1] = x
  OBVIOUS
<1>4. ASSUME NEW k \in 2 .. Len(s) + 1 PROVE t[k] = s[k - 1]
  OBVIOUS
<1> HIDE DEF t
<1>5. InsertedAt(t, s, 1, x, E)
  BY <1>2, <1>3, <1>4 DEF InsertedAt
<1>6. Grown(t, s, x, E)
  BY <1>1, <1>5, InsertDistinct
<1> QED BY <1>6 DEF t

(* t has the elements of s but x, once each. *)
Shrunk(t, s, x, E) ==
    /\ t \in Seq(E) /\ Distinct(t) /\ ToSet(t) = ToSet(s) \ {x}
    /\ x \in ToSet(s) => Len(t) = Len(s) - 1
    /\ x \notin ToSet(s) => t = s

(* Erasing an element of a list without duplicates. *)
LEMMA RemoveDistinct ==
    ASSUME NEW E, NEW s \in Seq(E), Distinct(s), NEW x
    PROVE  Shrunk(RemoveFirst(s, x), s, x, E)
<1>1. DOMAIN s = 1 .. Len(s)
  OBVIOUS
<1>2. CASE x \notin ToSet(s)
  <2>1. RemoveFirst(s, x) = s
    BY <1>1, <1>2 DEF RemoveFirst, ToSet
  <2> QED BY <1>2, <2>1 DEF Shrunk
<1>3. CASE x \in ToSet(s)
  <2> DEFINE p == Position(s, x)
             t == RemoveFirst(s, x)
  <2>1. p \in 1 .. Len(s) /\ s[p] = x
    BY <1>3, PositionFacts
  <2>2. t = RemoveAt(s, p)
    BY <1>1, <1>3 DEF RemoveFirst, ToSet, Position, SelectInSeq
  <2> HIDE DEF p, t
  <2> DEFINE a == SubSeq(s, 1, p - 1)
             b == SubSeq(s, p + 1, Len(s))
  <2>3. a \in Seq(E) /\ Len(a) = p - 1 /\ \A k \in 1 .. p - 1 : a[k] = s[k]
    BY <2>1
  <2>4. b \in Seq(E) /\ Len(b) = Len(s) - p /\ \A k \in 1 .. Len(s) - p : b[k] = s[k + p]
    BY <2>1
  <2>5. t = a \o b
    BY <2>2 DEF RemoveAt
  <2> HIDE DEF a, b
  <2>6. /\ t \in Seq(E) /\ Len(t) = Len(a) + Len(b)
        /\ \A k \in 1 .. Len(a) : t[k] = a[k]
        /\ \A k \in Len(a) + 1 .. Len(a) + Len(b) : t[k] = b[k - Len(a)]
    <3>1. a \in Seq(E) /\ b \in Seq(E)
      BY <2>3, <2>4
    <3> QED BY <2>5, <3>1, ConcatFacts
  <2>7. Len(t) = Len(s) - 1 /\ DOMAIN t = 1 .. Len(s) - 1
    BY <2>1, <2>3, <2>4, <2>6
  <2> DEFINE From(k) == IF k < p THEN k ELSE k + 1
  <2>8. ASSUME NEW k \in 1 .. Len(s) - 1
        PROVE  From(k) \in 1 .. Len(s) /\ From(k) # p /\ t[k] = s[From(k)]
    <3>1. CASE k < p
      BY <2>1, <2>3, <2>6, <3>1
    <3>2. CASE k >= p
      <4>1. k \in Len(a) + 1 .. Len(a) + Len(b) /\ k - Len(a) \in 1 .. Len(s) - p
            /\ (k - Len(a)) + p = k + 1
        BY <2>1, <2>3, <2>4, <3>2
      <4>2. t[k] = b[k - Len(a)]
        BY <2>6, <4>1
      <4>3. b[k - Len(a)] = s[(k - Len(a)) + p]
        BY <2>4, <4>1
      <4>4. From(k) = k + 1 /\ k + 1 \in 1 .. Len(s) /\ k + 1 # p
        BY <2>1, <3>2
      <4> HIDE DEF From
      <4> QED BY <4>1, <4>2, <4>3, <4>4
    <3> QED BY <2>1, <3>1, <3>2
  <2>9. ASSUME NEW k \in 1 .. Len(s), k # p
        PROVE  \E m \in 1 .. Len(s) - 1 : t[m] = s[k]
    <3>1. CASE k < p
      <4>1. k \in 1 .. Len(s) - 1 /\ From(k) = k
        BY <2>1, <3>1
      <4> QED BY <2>8, <4>1
    <3>2. CASE k > p
      <4>1. k - 1 \in 1 .. Len(s) - 1 /\ From(k - 1) = k
        BY <2>1, <3>2
      <4> QED BY <2>8, <4>1
    <3> QED BY <2>1, <2>9, <3>1, <3>2
  <2>10. ASSUME NEW k \in 1 .. Len(s), k # p PROVE s[k] # x
    BY <1>1, <2>1, <2>10 DEF Distinct
  <2>11. ToSet(t) = ToSet(s) \ {x}
    <3>1. ASSUME NEW k \in 1 .. Len(s) - 1 PROVE t[k] \in ToSet(s) \ {x}
      <4>1. From(k) \in 1 .. Len(s) /\ From(k) # p /\ t[k] = s[From(k)]
        BY <2>8
      <4> HIDE DEF From
      <4> QED BY <1>1, <2>10, <4>1 DEF ToSet
    <3>2. ASSUME NEW k \in 1 .. Len(s), s[k] # x PROVE s[k] \in ToSet(t)
      BY <2>1, <2>7, <2>9, <3>2 DEF ToSet
    <3> QED BY <1>1, <2>7, <3>1, <3>2 DEF ToSet
  <2>12. Distinct(t)
    <3>1. ASSUME NEW k \in 1 .. Len(s) - 1, NEW m \in 1 .. Len(s) - 1, t[k] = t[m]
          PROVE  k = m
      <4>1. From(k) \in DOMAIN s /\ t[k] = s[From(k)]
        BY <1>1, <2>8
      <4>2. From(m) \in DOMAIN s /\ t[m] = s[From(m)]
        BY <1>1, <2>8
      <4>3. From(k) = From(m)
        <5> HIDE DEF From
        <5> QED BY <3>1, <4>1, <4>2 DEF Distinct
      <4> QED BY <2>1, <4>3
    <3> QED BY <2>7, <3>1 DEF Distinct
  <2> QED BY <1>3, <2>6, <2>7, <2>11, <2>12 DEF Shrunk, t
<1> QED BY <1>2, <1>3

(* A list without duplicates is as long as its set of elements. *)
LEMMA DistinctCount ==
    ASSUME NEW E, NEW s \in Seq(E), Distinct(s)
    PROVE  IsFiniteSet(ToSet(s)) /\ Cardinality(ToSet(s)) = Len(s)
<1>1. DOMAIN s = 1 .. Len(s) /\ Len(s) \in Nat
  OBVIOUS
<1>2. s \in [1 .. Len(s) -> ToSet(s)]
  BY <1>1 DEF ToSet
<1>3. s \in Bijection(1 .. Len(s), ToSet(s))
  BY <1>1, <1>2 DEF Bijection, Injection, Surjection, IsInjective, Distinct, ToSet
<1>4. ExistsBijection(1 .. Len(s), ToSet(s))
  BY <1>3 DEF ExistsBijection
<1>5. IsFiniteSet(ToSet(s))
  BY <1>1, <1>4, FS_NatBijection
<1> QED BY <1>1, <1>4, <1>5, FS_CountingElements
=============================================================================
