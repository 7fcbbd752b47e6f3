----------------------------- MODULE FoldLemmas -----------------------------
(***************************************************************************)
(* What FoldLeft computes, for an operator that an instance of this module *)
(* gives: the provers cannot instantiate a lemma about every operator.     *)
(* Every instance repeats what this module extends, so it extends little:  *)
(* FoldLeft is written out, and the lemmas take the induction principle of *)
(* the natural numbers (NatSetInduction) as an assumption.                 *)
(***************************************************************************)
EXTENDS Integers, Sequences, TLAPS

CONSTANT Op(_, _, _, _)   \* two values the step may depend on, the state, the element

Induction ==
    \A S : 0 \in S /\ (\A n \in Nat : n \in S => n + 1 \in S) => Nat \subseteq S

Greatest(s) == CHOOSE x \in s : \A y \in s : x >= y

(* The left fold of Op over a sequence. *)
FoldedBy(u, v, base, seq) ==
    LET iter[s \in SUBSET DOMAIN seq] ==
            IF s = {} THEN base
            ELSE LET x == Greatest(s) IN Op(u, v, iter[s \ {x}], seq[x])
    IN  iter[DOMAIN seq]

(* h is the run of the fold over the first n elements of seq. *)
FoldRun(u, v, h, base, seq, n) ==
    /\ DOMAIN h = 0 .. n
    /\ h[0] = base
    /\ \A i \in 1 .. n : h[i] = Op(u, v, h[i - 1], seq[i])

(* A set of numbers below a bound has a greatest element. *)
LEMMA GreatestFacts ==
    ASSUME Induction, NEW k \in Nat, NEW s \in SUBSET (1 .. k), s # {}
    PROVE  Greatest(s) \in s /\ \A x \in s : Greatest(s) >= x
<1> DEFINE P(m) == \A z \in SUBSET (1 .. m) : z # {} => \E x \in z : \A y \in z : x >= y
           S == {m \in Nat : P(m)}
<1>1. 0 \in S
  <2>1. \A z \in SUBSET (1 .. 0) : z = {}
    OBVIOUS
  <2> QED BY <2>1
<1>2. ASSUME NEW m \in Nat, m \in S PROVE m + 1 \in S
  <2> SUFFICES ASSUME NEW z \in SUBSET (1 .. m + 1), z # {}
               PROVE  \E x \in z : \A y \in z : x >= y
    OBVIOUS
  <2>1. CASE m + 1 \in z
    <3>1. \A y \in z : m + 1 >= y
      OBVIOUS
    <3> QED BY <3>1, <2>1
  <2>2. CASE m + 1 \notin z
    <3>1. z \in SUBSET (1 .. m)
      <4>1. ASSUME NEW y \in z PROVE y \in 1 .. m
        <5>1. y \in 1 .. m + 1 /\ y # m + 1
          BY <2>2
        <5> QED BY <5>1
      <4> QED BY <4>1
    <3> QED BY <3>1, <1>2
  <2> QED BY <2>1, <2>2
<1>3. Nat \subseteq S
  <2> HIDE DEF S
  <2> QED BY <1>1, <1>2 DEF Induction
<1>4. \E x \in s : \A y \in s : x >= y
  BY <1>3
<1> QED BY <1>4 DEF Greatest

(* f solves the recursion in FoldLeft, over the subsets of 1 .. n. *)
Solves(u, v, f, base, seq, n) ==
    f = [s \in SUBSET (1 .. n) |->
            IF s = {} THEN base ELSE Op(u, v, f[s \ {Greatest(s)}], seq[Greatest(s)])]

(* The recursion in FoldLeft has a solution. *)
LEMMA FoldExists ==
    ASSUME Induction, NEW u, NEW v, NEW base, NEW seq, NEW n \in Nat
    PROVE  \E f : Solves(u, v, f, base, seq, n)
<1> DEFINE P(k) == \E f : Solves(u, v, f, base, seq, k)
           S == {k \in Nat : P(k)}
<1>1. 0 \in S
  <2>1. SUBSET (1 .. 0) = {{}}
    OBVIOUS
  <2> DEFINE g == [s \in SUBSET (1 .. 0) |-> base]
  <2>2. g = [s \in SUBSET (1 .. 0) |-> IF s = {} THEN base
                        ELSE Op(u, v, g[s \ {Greatest(s)}], seq[Greatest(s)])]
    BY <2>1
  <2> HIDE DEF g
  <2> QED BY <2>2 DEF Solves
<1>2. ASSUME NEW k \in Nat, k \in S PROVE k + 1 \in S
  <2>1. PICK f : f = [s \in SUBSET (1 .. k) |-> IF s = {} THEN base
                        ELSE Op(u, v, f[s \ {Greatest(s)}], seq[Greatest(s)])]
    BY <1>2 DEF Solves
  <2> DEFINE g == [s \in SUBSET (1 .. k + 1) |->
                    IF k + 1 \in s THEN Op(u, v, f[s \ {k + 1}], seq[k + 1]) ELSE f[s]]
  <2>2. ASSUME NEW s \in SUBSET (1 .. k)
        PROVE  f[s] = IF s = {} THEN base ELSE Op(u, v, f[s \ {Greatest(s)}], seq[Greatest(s)])
    BY <2>1
  <2>3. ASSUME NEW s \in SUBSET (1 .. k) PROVE g[s] = f[s]
    <3>1. s \in SUBSET (1 .. k + 1) /\ k + 1 \notin s
      OBVIOUS
    <3> QED BY <3>1
  <2>4. ASSUME NEW s \in SUBSET (1 .. k + 1)
        PROVE  g[s] = IF s = {} THEN base ELSE Op(u, v, g[s \ {Greatest(s)}], seq[Greatest(s)])
    <3>1. CASE k + 1 \in s
      <4>1. Greatest(s) = k + 1
        <5>1. Greatest(s) \in s /\ \A x \in s : Greatest(s) >= x
          <6>1. k + 1 \in Nat /\ s # {}
            BY <3>1
          <6> HIDE DEF g
          <6> QED BY <6>1, GreatestFacts
        <5>2. Greatest(s) \in 1 .. k + 1 /\ Greatest(s) >= k + 1
          BY <3>1, <5>1
        <5> QED BY <5>2
      <4>2. s \ {k + 1} \in SUBSET (1 .. k)
        OBVIOUS
      <4>3. g[s \ {k + 1}] = f[s \ {k + 1}]
        BY <2>3, <4>2
      <4>4. g[s] = Op(u, v, f[s \ {k + 1}], seq[k + 1])
        BY <3>1
      <4> HIDE DEF g
      <4> QED BY <3>1, <4>1, <4>3, <4>4
    <3>2. CASE k + 1 \notin s
      <4>1. s \in SUBSET (1 .. k) /\ s \ {Greatest(s)} \in SUBSET (1 .. k)
        <5>1. ASSUME NEW x \in s PROVE x \in 1 .. k
          <6>1. x \in 1 .. k + 1 /\ x # k + 1
            BY <3>2
          <6> QED BY <6>1
        <5> QED BY <5>1
      <4>2. g[s] = f[s] /\ g[s \ {Greatest(s)}] = f[s \ {Greatest(s)}]
        BY <2>3, <4>1
      <4> HIDE DEF g
      <4> QED BY <2>2, <4>1, <4>2
    <3> QED BY <3>1, <3>2
  <2>5. g = [s \in SUBSET (1 .. k + 1) |-> g[s]]
    OBVIOUS
  <2> HIDE DEF g
  <2>6. g = [s \in SUBSET (1 .. k + 1) |-> IF s = {} THEN base
                ELSE Op(u, v, g[s \ {Greatest(s)}], seq[Greatest(s)])]
    BY <2>4, <2>5, Zenon
  <2>7. P(k + 1)
    BY <2>6 DEF Solves
  <2> HIDE DEF P
  <2> QED BY <2>7
<1>3. Nat \subseteq S
  <2> HIDE DEF S
  <2> QED BY <1>1, <1>2 DEF Induction
<1> QED BY <1>3

(* A fold is the last state of its run. *)
LEMMA FoldRuns ==
    ASSUME Induction, NEW u, NEW v, NEW base, NEW n \in Nat, NEW seq, DOMAIN seq = 1 .. n
    PROVE  \E h : FoldRun(u, v, h, base, seq, n) /\ FoldedBy(u, v, base, seq) = h[n]
<1> DEFINE F == CHOOSE f : Solves(u, v, f, base, seq, n)
<1>1. FoldedBy(u, v, base, seq) = F[1 .. n]
  BY DEF FoldedBy, Solves
<1>2. F = [s \in SUBSET (1 .. n) |-> IF s = {} THEN base
                        ELSE Op(u, v, F[s \ {Greatest(s)}], seq[Greatest(s)])]
  <2>1. Solves(u, v, F, base, seq, n)
    BY FoldExists
  <2> HIDE DEF F
  <2> QED BY <2>1 DEF Solves
<1> HIDE DEF F
<1> DEFINE h == [k \in 0 .. n |-> F[1 .. k]]
<1>3. h[0] = base
  <2>1. 1 .. 0 = {} /\ 0 \in 0 .. n
    OBVIOUS
  <2>2. F[{}] = base
    BY <1>2
  <2> QED BY <2>1, <2>2
<1>4. ASSUME NEW i \in 1 .. n PROVE h[i] = Op(u, v, h[i - 1], seq[i])
  <2>1. 1 .. i \in SUBSET (1 .. n) /\ 1 .. i # {} /\ 1 .. i \in SUBSET (1 .. i)
    <3>1. i \in Nat /\ i \in 1 .. i /\ i <= n
      OBVIOUS
    <3>2. \A x \in 1 .. i : x \in 1 .. n
      BY <3>1
    <3> QED BY <3>1, <3>2
  <2>2. Greatest(1 .. i) = i
    <3>1. i \in Nat /\ i \in 1 .. i
      OBVIOUS
    <3>2. Greatest(1 .. i) \in 1 .. i /\ \A x \in 1 .. i : Greatest(1 .. i) >= x
      BY <2>1, <3>1, GreatestFacts
    <3> QED BY <3>1, <3>2
  <2>3. (1 .. i) \ {i} = 1 .. i - 1
    OBVIOUS
  <2>4. F[1 .. i] = Op(u, v, F[(1 .. i) \ {Greatest(1 .. i)}], seq[Greatest(1 .. i)])
    BY <1>2, <2>1
  <2>5. F[1 .. i] = Op(u, v, F[1 .. i - 1], seq[i])
    BY <2>2, <2>3, <2>4
  <2>6. h[i] = F[1 .. i] /\ h[i - 1] = F[1 .. i - 1]
    OBVIOUS
  <2> QED BY <2>5, <2>6
<1>5. DOMAIN h = 0 .. n /\ h[n] = F[1 .. n]
  OBVIOUS
<1> HIDE DEF h
<1> QED BY <1>1, <1>3, <1>4, <1>5 DEF FoldRun

(* A run of a fold is determined by where it starts. *)
LEMMA FoldRunUnique ==
    ASSUME Induction, NEW u, NEW v, NEW base, NEW seq, NEW n \in Nat, NEW m \in Nat, n <= m,
           NEW g, NEW h, FoldRun(u, v, g, base, seq, n), FoldRun(u, v, h, base, seq, m)
    PROVE  \A i \in 0 .. n : g[i] = h[i]
<1> DEFINE S == {k \in Nat : k <= n => g[k] = h[k]}
<1>1. 0 \in S
  BY DEF FoldRun
<1>2. ASSUME NEW k \in Nat, k \in S PROVE k + 1 \in S
  <2> SUFFICES ASSUME k + 1 <= n PROVE g[k + 1] = h[k + 1]
    OBVIOUS
  <2>1. k + 1 \in 1 .. n /\ k + 1 \in 1 .. m /\ (k + 1) - 1 = k /\ g[k] = h[k]
    BY <1>2
  <2>2. g[k + 1] = Op(u, v, g[(k + 1) - 1], seq[k + 1])
    BY <2>1 DEF FoldRun
  <2>3. h[k + 1] = Op(u, v, h[(k + 1) - 1], seq[k + 1])
    BY <2>1 DEF FoldRun
  <2> QED BY <2>1, <2>2, <2>3
<1>3. Nat \subseteq S
  <2> HIDE DEF S
  <2> QED BY <1>1, <1>2 DEF Induction
<1> QED BY <1>3

(* Folding over nothing changes nothing. *)
LEMMA FoldEmpty ==
    ASSUME Induction, NEW u, NEW v, NEW base
    PROVE  FoldedBy(u, v, base, << >>) = base
<1>1. DOMAIN << >> = 1 .. 0
  OBVIOUS
<1>2. PICK h : FoldRun(u, v, h, base, << >>, 0) /\ FoldedBy(u, v, base, << >>) = h[0]
  BY <1>1, FoldRuns
<1> QED BY <1>2 DEF FoldRun

(* Folding over one sequence and then another. *)
LEMMA FoldConcat ==
    ASSUME Induction, NEW u, NEW v, NEW base, NEW E, NEW s \in Seq(E), NEW t \in Seq(E)
    PROVE  FoldedBy(u, v, base, s \o t) = FoldedBy(u, v, FoldedBy(u, v, base, s), t)
<1> DEFINE n == Len(s)
           m == Len(t)
           w == s \o t
           mid == FoldedBy(u, v, base, s)
<1>1. n \in Nat /\ m \in Nat /\ n + m \in Nat /\ DOMAIN s = 1 .. n /\ DOMAIN t = 1 .. m
  OBVIOUS
<1>2. /\ DOMAIN w = 1 .. n + m
      /\ \A i \in 1 .. n : w[i] = s[i]
      /\ \A i \in n + 1 .. n + m : w[i] = t[i - n]
  <2>1. w \in Seq(E) /\ Len(w) = n + m
    OBVIOUS
  <2> QED BY <2>1
<1> HIDE DEF n, m, w
<1>3. PICK g : FoldRun(u, v, g, base, s, n) /\ mid = g[n]
  BY <1>1, FoldRuns
<1> HIDE DEF mid
<1>4. PICK h : FoldRun(u, v, h, mid, t, m) /\ FoldedBy(u, v, mid, t) = h[m]
  BY <1>1, FoldRuns
<1>5. PICK k : FoldRun(u, v, k, base, w, n + m) /\ FoldedBy(u, v, base, w) = k[n + m]
  BY <1>1, <1>2, FoldRuns
<1> DEFINE front == [i \in 0 .. n |-> k[i]]
           back == [i \in 0 .. m |-> k[n + i]]
<1>6. FoldRun(u, v, front, base, s, n)
  <2>1. front[0] = base
    BY <1>1, <1>5 DEF FoldRun
  <2>2. ASSUME NEW i \in 1 .. n PROVE front[i] = Op(u, v, front[i - 1], s[i])
    <3>1. i \in 1 .. n + m /\ i \in 0 .. n /\ i - 1 \in 0 .. n
      BY <1>1
    <3>2. k[i] = Op(u, v, k[i - 1], w[i])
      BY <1>5, <3>1 DEF FoldRun
    <3> QED BY <1>2, <3>1, <3>2
  <2>3. DOMAIN front = 0 .. n
    OBVIOUS
  <2> HIDE DEF front
  <2> QED BY <2>1, <2>2, <2>3 DEF FoldRun
<1>7. k[n] = mid
  <2>1. front[n] = k[n] /\ n <= n /\ n \in 0 .. n
    BY <1>1
  <2> HIDE DEF front
  <2>2. \A i \in 0 .. n : front[i] = g[i]
    BY <1>1, <1>3, <1>6, <2>1, FoldRunUnique
  <2> QED BY <1>3, <2>1, <2>2
<1>8. FoldRun(u, v, back, mid, t, m)
  <2>1. back[0] = mid
    BY <1>1, <1>7
  <2>2. ASSUME NEW i \in 1 .. m PROVE back[i] = Op(u, v, back[i - 1], t[i])
    <3>1. /\ n + i \in 1 .. n + m /\ n + i \in n + 1 .. n + m
          /\ i \in 0 .. m /\ i - 1 \in 0 .. m
          /\ (n + i) - 1 = n + (i - 1) /\ (n + i) - n = i
      BY <1>1
    <3>2. k[n + i] = Op(u, v, k[(n + i) - 1], w[n + i])
      BY <1>5, <3>1 DEF FoldRun
    <3>3. w[n + i] = t[i]
      BY <1>2, <3>1
    <3>4. back[i] = k[n + i] /\ back[i - 1] = k[n + (i - 1)]
      BY <3>1
    <3> QED BY <3>1, <3>2, <3>3, <3>4
  <2>3. DOMAIN back = 0 .. m
    OBVIOUS
  <2> HIDE DEF back
  <2> QED BY <2>1, <2>2, <2>3 DEF FoldRun
<1>9. k[n + m] = h[m]
  <2>1. back[m] = k[n + m] /\ m <= m /\ m \in 0 .. m
    BY <1>1
  <2> HIDE DEF back
  <2>2. FoldRun(u, v, h, mid, t, m)
    BY <1>4
  <2>3. m \in Nat
    BY <1>1
  <2>4. \A i \in 0 .. m : back[i] = h[i]
    BY <1>8, <2>1, <2>2, <2>3, FoldRunUnique
  <2> QED BY <2>1, <2>4
<1> QED BY <1>4, <1>5, <1>9 DEF mid, w

(* The run of a fold over the concatenation of sequences, one at a time. *)
SequenceRun(u, v, g, base, ms, n) ==
    /\ DOMAIN g = 0 .. n
    /\ g[0] = base
    /\ \A i \in 1 .. n : g[i] = FoldedBy(u, v, g[i - 1], ms[i])

(* f[i] is the concatenation of the first i sequences of ms. *)
Pieces(f, ms, n, E) ==
    /\ ms \in [1 .. n -> Seq(E)] /\ f \in [0 .. n -> Seq(E)] /\ f[0] = <<>>
    /\ \A i \in 1 .. n : f[i] = f[i - 1] \o ms[i]

(* The fold over the concatenation f[n] is the last state of such a run. *)
RunsByPieces(u, v, base, f, ms, n) ==
    \E g : SequenceRun(u, v, g, base, ms, n) /\ FoldedBy(u, v, base, f[n]) = g[n]

(* Folding over a concatenation is folding over each of its parts in turn. *)
LEMMA FoldPieces ==
    ASSUME Induction, NEW u, NEW v, NEW base, NEW E, NEW n \in Nat, NEW ms, NEW f,
           Pieces(f, ms, n, E)
    PROVE  RunsByPieces(u, v, base, f, ms, n)
<1>0. /\ ms \in [1 .. n -> Seq(E)] /\ f \in [0 .. n -> Seq(E)] /\ f[0] = <<>>
      /\ \A i \in 1 .. n : f[i] = f[i - 1] \o ms[i]
  BY DEF Pieces
<1> DEFINE g == [i \in 0 .. n |-> FoldedBy(u, v, base, f[i])]
<1>1. g[0] = base
  BY <1>0, FoldEmpty
<1>2. ASSUME NEW i \in 1 .. n PROVE g[i] = FoldedBy(u, v, g[i - 1], ms[i])
  <2>0. i \in 0 .. n /\ i - 1 \in 0 .. n
    OBVIOUS
  <2>1. i \in 0 .. n /\ i - 1 \in 0 .. n /\ f[i - 1] \in Seq(E) /\ ms[i] \in Seq(E)
    BY <1>0, <2>0
  <2>2. FoldedBy(u, v, base, f[i - 1] \o ms[i])
          = FoldedBy(u, v, FoldedBy(u, v, base, f[i - 1]), ms[i])
    BY <2>1, FoldConcat
  <2>3. g[i - 1] = FoldedBy(u, v, base, f[i - 1]) /\ g[i] = FoldedBy(u, v, base, f[i])
    BY <2>1
  <2> QED BY <1>0, <2>2, <2>3
<1>3. DOMAIN g = 0 .. n /\ g[n] = FoldedBy(u, v, base, f[n])
  OBVIOUS
<1> HIDE DEF g
<1> QED BY <1>1, <1>2, <1>3 DEF SequenceRun, RunsByPieces

(* f is defined by recursion over 0 .. n. *)
Recursion(u, v, f, base, n) ==
    f = [k \in 0 .. n |-> IF k = 0 THEN base ELSE Op(u, v, f[k - 1], k)]

(* Such a function exists. *)
LEMMA RecursionExists ==
    ASSUME Induction, NEW u, NEW v, NEW base, NEW n \in Nat
    PROVE  \E f : Recursion(u, v, f, base, n)
<1> DEFINE Rec(f, m) == f = [k \in 0 .. m |-> IF k = 0 THEN base ELSE Op(u, v, f[k - 1], k)]
           S == {m \in Nat : \E f : Rec(f, m)}
<1>1. 0 \in S
  <2> DEFINE f == [k \in 0 .. 0 |-> base]
  <2>1. Rec(f, 0)
    <3>1. \A k \in 0 .. 0 : k = 0
      OBVIOUS
    <3> QED BY <3>1
  <2> HIDE DEF f, Rec
  <2> QED BY <2>1
<1>2. ASSUME NEW m \in Nat, m \in S PROVE m + 1 \in S
  <2> HIDE DEF Rec
  <2>1. PICK f : Rec(f, m)
    BY <1>2
  <2> USE DEF Rec
  <2> DEFINE g == [k \in 0 .. m + 1 |-> IF k = m + 1 THEN Op(u, v, f[m], m + 1) ELSE f[k]]
  <2>2. \A k \in 0 .. m : f[k] = IF k = 0 THEN base ELSE Op(u, v, f[k - 1], k)
    BY <2>1
  <2>3. (\A k \in 0 .. m : g[k] = f[k]) /\ g[m + 1] = Op(u, v, f[m], m + 1)
    OBVIOUS
  <2>4. ASSUME NEW k \in 0 .. m + 1
        PROVE  g[k] = IF k = 0 THEN base ELSE Op(u, v, g[k - 1], k)
    <3>1. CASE k = m + 1
      <4>1. k # 0 /\ k - 1 = m /\ g[k - 1] = f[m]
        BY <3>1, <2>3
      <4> HIDE DEF g
      <4> QED BY <4>1, <3>1, <2>3
    <3>2. CASE k \in 0 .. m
      <4>1. k = 0 \/ k - 1 \in 0 .. m
        BY <3>2
      <4> HIDE DEF g
      <4> QED BY <4>1, <3>2, <2>2, <2>3
    <3> QED BY <3>1, <3>2
  <2>5. DOMAIN g = 0 .. m + 1 /\ g = [k \in 0 .. m + 1 |-> g[k]]
    OBVIOUS
  <2> HIDE DEF g
  <2>6. Rec(g, m + 1)
    BY <2>4, <2>5
  <2> HIDE DEF Rec
  <2> QED BY <2>6
<1>3. Nat \subseteq S
  <2> HIDE DEF S
  <2> QED BY <1>1, <1>2 DEF Induction
<1>4. n \in S
  BY <1>3
<1> QED BY <1>4 DEF Recursion
=============================================================================
