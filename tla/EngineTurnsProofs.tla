-------------------------- MODULE EngineTurnsProofs --------------------------
(***************************************************************************)
(* Turns end once and are reported once, for any number of requests, turns *)
(* and events: the invariants of EngineTurns, proved.                      *)
(***************************************************************************)
EXTENDS EngineTurns, SequenceLemmas, FiniteSetTheorems

Reasons == {"None", "Completed", "Canceled", "Failed", "Retry"}

EventSet == [r : Requests \cup {NoRequest}, turn : Nat, done : BOOLEAN, reason : Reasons]

(* What one event says agrees with the statuses st, the current turns tn and *)
(* the terminals td handed out so far.                                       *)
Timely(e, st, tn, td) ==
    IF e.r = NoRequest THEN ~e.done
    ELSE /\ st[e.r] \notin {"Absent", "Closed"}
         /\ e.turn = tn[e.r] /\ tn[e.r] \in TurnIds /\ td[e.r][tn[e.r]] = 0
         /\ e.done => st[e.r] = "TurnComplete"

(* So does a sequence of events, in which nothing follows a terminal. *)
Sound(evs, st, tn, td) ==
    /\ evs \in Seq(EventSet)
    /\ \A i \in 1 .. Len(evs) : Timely(evs[i], st, tn, td)
    /\ \A i, j \in 1 .. Len(evs) : (i < j /\ evs[i].r = evs[j].r) => ~evs[i].done

HasTerminal(evs, r) == \E i \in 1 .. Len(evs) : evs[i].r = r /\ evs[i].done

(* The events that are not terminal. *)
Unfinished(evs) == {i \in 1 .. Len(evs) : ~evs[i].done}

Types ==
    /\ config \in Configurations
    /\ status \in [Requests -> {"Absent", "Unassigned", "Executable", "TurnComplete", "Closed"}]
    /\ turn \in [Requests -> 0 .. MaxTurns]
    /\ told \in [Requests -> [TurnIds -> Nat]]
    /\ tracked \in Seq(Requests)
    /\ abandoned \subseteq Requests
    /\ healthy \in BOOLEAN /\ marker \in BOOLEAN
    /\ at \in Nat
    /\ pc \in {"out", "scan", "body", "drain"}

(* Requests are tracked once while they are open; a turn that runs or has    *)
(* ended was begun.                                                          *)
Tracking ==
    /\ \A i, j \in 1 .. Len(tracked) : tracked[i] = tracked[j] => i = j
    /\ \A r \in Requests : IsOpen(r) <=> \E i \in 1 .. Len(tracked) : tracked[i] = r
    /\ \A r \in Requests :
        /\ status[r] \in {"Absent", "Unassigned"} => turn[r] = 0
        /\ status[r] \in {"Executable", "TurnComplete"} => turn[r] # 0
        /\ status[r] = "Absent" => r \notin abandoned

(* The call the owner is in still finds the request it was made with. *)
Calling ==
    /\ pc = "out" => call = Idle
    /\ pc = "drain" => call.op = "Run"
    /\ call.op = "Run" => call.k \in Nat
    /\ call.op = "CreateRequest" => call.r \in Requests /\ status[call.r] = "Absent"
    /\ call.op \in {"BeginTurn", "Rewind"} =>
        call.r \in Requests /\ IsOpen(call.r) /\ call.r \notin abandoned
    /\ call.op = "BeginTurn" => turn[call.r] < MaxTurns
    /\ pc = "scan" => at # 0

(* A turn that has not ended has handed out no terminal; one that has ended  *)
(* has handed out its own unless that is pending, or lost with the events of *)
(* a step whose commit failed.                                               *)
Reported ==
    \A r \in Requests :
        /\ \A t \in TurnIds :
            (t > turn[r] \/ (t = turn[r] /\ status[r] = "Executable")) => told[r][t] = 0
        /\ (IsOpen(r) /\ r \notin abandoned) =>
            /\ \A t \in TurnIds : t < turn[r] => told[r][t] = 1
            /\ (status[r] = "TurnComplete" /\ ~HasTerminal(events, r)
                    /\ <<r, turn[r]>> \notin unreported) => told[r][turn[r]] = 1

(* Only the last turns of an Engine that has failed are lost so, and nothing *)
(* reports one of them later.                                                *)
Unreported ==
    /\ unreported \subseteq Requests \X TurnIds
    /\ unreported # {} => ~healthy /\ \A r \in Requests : status[r] # "Executable"
    /\ \A r \in Requests, t \in TurnIds : <<r, t>> \in unreported =>
        /\ t = turn[r] /\ status[r] \in {"TurnComplete", "Closed"}
        /\ told[r][t] = 0 /\ ~HasTerminal(events, r)

TurnsInv ==
    /\ Types /\ Tracking /\ Calling
    /\ Sound(events, status, turn, told)
    /\ Reported /\ NoLostRelease

-----------------------------------------------------------------------------
(* What remove_if leaves of a sequence. *)

(* m numbers the positions of s that are in kept, in their order. *)
Numbers(m, t, s, kept) ==
    /\ m \in [1 .. Len(t) -> 1 .. Len(s)]
    /\ \A k \in 1 .. Len(t) : m[k] \in kept /\ t[k] = s[m[k]]
    /\ \A k, l \in 1 .. Len(t) : k < l => m[k] < m[l]
    /\ \A i \in 1 .. Len(s) : i \in kept => \E k \in 1 .. Len(t) : m[k] = i

(* The positions kept can be numbered in order. *)
LEMMA KeptNumbers ==
    ASSUME NEW E, NEW s \in Seq(E), NEW kept
    PROVE  Kept(s, kept) \in Seq(E) /\ \E m : Numbers(m, Kept(s, kept), s, kept)
<1> DEFINE n == Len(s)
           b == [i \in DOMAIN s |-> IF i \in kept THEN <<s[i]>> ELSE <<>>]
           t == Kept(s, kept)
<1>1. n \in Nat /\ DOMAIN s = 1 .. n /\ \A i \in 1 .. n : s[i] \in E
  OBVIOUS
<1>2. b \in [1 .. n -> Seq(E)]
  BY <1>1
<1>3. CASE n = 0
  <2>1. b = <<>> /\ Len(b) = 0
    BY <1>1, <1>3
  <2>2. t = <<>>
    BY <2>1 DEF Kept, FlattenSeq
  <2>3. Numbers(<<>>, t, s, kept)
    BY <1>1, <1>3, <2>2 DEF Numbers
  <2> QED BY <2>2, <2>3
<1>4. CASE n # 0
  <2> HIDE DEF n
  <2>0. PICK f \in [1 .. n -> Seq(E)] : Flattens(f, b, n)
    <3>1. n \in Nat \ {0}
      BY <1>1, <1>4
    <3> HIDE DEF b
    <3> QED BY <1>2, <3>1, FlattenPrefixes
  <2>1. /\ f \in [1 .. n -> Seq(E)]
        /\ f[1] = b[1] /\ (\A i \in 2 .. n : f[i] = f[i - 1] \o b[i]) /\ FlattenSeq(b) = f[n]
    BY <2>0 DEF Flattens
  <2> DEFINE N(m, j) ==
                /\ m \in [1 .. Len(f[j]) -> 1 .. j]
                /\ \A k \in 1 .. Len(f[j]) : m[k] \in kept /\ f[j][k] = s[m[k]]
                /\ \A k, l \in 1 .. Len(f[j]) : k < l => m[k] < m[l]
                /\ \A i \in 1 .. j : i \in kept => \E k \in 1 .. Len(f[j]) : m[k] = i
             S == {j \in Nat : j + 1 <= n => \E m : N(m, j + 1)}
  <2>2. 0 \in S
    <3>1. f[1] = IF 1 \in kept THEN <<s[1]>> ELSE <<>>
      BY <1>1, <1>4, <2>1
    <3>2. CASE 1 \in kept
      <4>1. f[1] = <<s[1]>> /\ Len(f[1]) = 1
        BY <3>1, <3>2
      <4>2. N([k \in 1 .. 1 |-> 1], 1)
        BY <3>2, <4>1
      <4> QED BY <4>2
    <3>3. CASE 1 \notin kept
      <4>1. f[1] = <<>> /\ Len(f[1]) = 0
        BY <3>1, <3>3
      <4>2. N([k \in 1 .. 0 |-> 1], 1)
        BY <3>3, <4>1
      <4> QED BY <4>2
    <3> QED BY <3>2, <3>3
  <2>3. ASSUME NEW j \in Nat, j \in S PROVE j + 1 \in S
    <3> SUFFICES ASSUME j + 2 <= n PROVE \E m : N(m, j + 2)
      OBVIOUS
    <3> DEFINE g == f[j + 1]
               h == f[j + 2]
    <3>1. j + 2 \in 2 .. n /\ j + 1 \in 1 .. n /\ (j + 2) - 1 = j + 1
      BY <1>1
    <3>2. g \in Seq(E) /\ h \in Seq(E) /\ h = g \o b[j + 2]
      <4> HIDE DEF b
      <4>1. f[j + 2] = f[(j + 2) - 1] \o b[j + 2]
        BY <2>1, <3>1
      <4>2. j + 2 \in 1 .. n
        BY <1>1
      <4> QED BY <2>1, <3>1, <4>1, <4>2
    <3>3. b[j + 2] = IF j + 2 \in kept THEN <<s[j + 2]>> ELSE <<>>
      BY <1>1, <3>1
    <3>4. PICK m : N(m, j + 1)
      BY <2>3, <3>1
    <3>5. /\ m \in [1 .. Len(g) -> 1 .. j + 1]
          /\ \A k \in 1 .. Len(g) : m[k] \in kept /\ g[k] = s[m[k]]
          /\ \A k, l \in 1 .. Len(g) : k < l => m[k] < m[l]
          /\ \A i \in 1 .. j + 1 : i \in kept => \E k \in 1 .. Len(g) : m[k] = i
      BY <3>4
    <3>6. SUFFICES \E x : /\ x \in [1 .. Len(h) -> 1 .. j + 2]
                          /\ \A k \in 1 .. Len(h) : x[k] \in kept /\ h[k] = s[x[k]]
                          /\ \A k, l \in 1 .. Len(h) : k < l => x[k] < x[l]
                          /\ \A i \in 1 .. j + 2 : i \in kept => \E k \in 1 .. Len(h) : x[k] = i
      OBVIOUS
    <3> HIDE DEF g, h, N, S, b
    <3>7. CASE j + 2 \notin kept
      <4>1. h = g
        BY <3>2, <3>3, <3>7
      <4> QED BY <3>5, <3>7, <4>1
    <3>8. CASE j + 2 \in kept
      <4>1. h = Append(g, s[j + 2])
        BY <3>2, <3>3, <3>8, <1>1, <3>1
      <4>2. Len(h) = Len(g) + 1 /\ h[Len(g) + 1] = s[j + 2] /\ Len(g) \in Nat
            /\ \A k \in 1 .. Len(g) : h[k] = g[k]
        BY <3>2, <4>1
      <4> DEFINE x == [k \in 1 .. Len(g) + 1 |-> IF k <= Len(g) THEN m[k] ELSE j + 2]
      <4>3. /\ x \in [1 .. Len(g) + 1 -> 1 .. j + 2]
            /\ x[Len(g) + 1] = j + 2
            /\ \A k \in 1 .. Len(g) : x[k] = m[k] /\ m[k] < j + 2
        <5>1. \A k \in 1 .. Len(g) : m[k] \in 1 .. j + 1
          BY <3>5
        <5>2. \A k \in 1 .. Len(g) + 1 : x[k] = IF k <= Len(g) THEN m[k] ELSE j + 2
          OBVIOUS
        <5>3. \A k \in 1 .. Len(g) : x[k] = m[k] /\ m[k] < j + 2
          BY <4>2, <5>1, <5>2
        <5>4. x[Len(g) + 1] = j + 2
          BY <4>2, <5>2
        <5>5. \A k \in 1 .. Len(g) + 1 : x[k] \in 1 .. j + 2
          BY <4>2, <5>1, <5>2
        <5> QED BY <5>3, <5>4, <5>5
      <4> HIDE DEF x
      <4>4. \A k \in 1 .. Len(h) : x[k] \in kept /\ h[k] = s[x[k]]
        BY <3>5, <3>8, <4>2, <4>3
      <4>5. \A k, l \in 1 .. Len(h) : k < l => x[k] < x[l]
        <5> SUFFICES ASSUME NEW k \in 1 .. Len(h), NEW l \in 1 .. Len(h), k < l
                     PROVE  x[k] < x[l]
          OBVIOUS
        <5>1. k \in 1 .. Len(g) /\ (l \in 1 .. Len(g) \/ l = Len(g) + 1)
          BY <4>2
        <5>2. CASE l = Len(g) + 1
          BY <4>3, <5>1, <5>2
        <5>3. CASE l \in 1 .. Len(g)
          <6>1. m[k] < m[l]
            BY <3>5, <5>1, <5>3
          <6>2. x[k] = m[k] /\ x[l] = m[l]
            BY <4>3, <5>1, <5>3
          <6> QED BY <6>1, <6>2
        <5> QED BY <5>1, <5>2, <5>3
      <4>6. \A i \in 1 .. j + 2 : i \in kept => \E k \in 1 .. Len(h) : x[k] = i
        <5> SUFFICES ASSUME NEW i \in 1 .. j + 2, i \in kept
                     PROVE  \E k \in 1 .. Len(h) : x[k] = i
          OBVIOUS
        <5>1. CASE i = j + 2
          BY <4>2, <4>3, <5>1
        <5>2. CASE i # j + 2
          <6>1. PICK k \in 1 .. Len(g) : m[k] = i
            BY <3>5, <5>2
          <6> QED BY <4>2, <4>3, <6>1
        <5> QED BY <5>1, <5>2
      <4> QED BY <4>2, <4>3, <4>4, <4>5, <4>6
    <3> QED BY <3>7, <3>8
  <2>4. Nat \subseteq S
    <3> HIDE DEF S
    <3> QED BY <2>2, <2>3, NatSetInduction
  <2>5. n - 1 \in Nat /\ (n - 1) + 1 = n
    BY <1>1, <1>4
  <2>6. PICK m : N(m, n)
    <3>1. n - 1 \in S
      BY <2>4, <2>5
    <3> HIDE DEF N
    <3> QED BY <1>1, <2>5, <3>1
  <2>7. t = f[n]
    BY <2>1 DEF Kept
  <2>8. Numbers(m, t, s, kept)
    BY <2>6, <2>7, <1>1 DEF Numbers, n
  <2> QED BY <1>1, <1>4, <2>1, <2>7, <2>8
<1> QED BY <1>3, <1>4

(* What is kept is what was at the kept positions, in the same order. *)
LEMMA KeptFacts ==
    ASSUME NEW E, NEW s \in Seq(E), NEW kept
    PROVE  /\ Kept(s, kept) \in Seq(E)
           /\ \A k \in 1 .. Len(Kept(s, kept)) :
                \E i \in 1 .. Len(s) : i \in kept /\ Kept(s, kept)[k] = s[i]
           /\ \A i \in 1 .. Len(s) : i \in kept =>
                \E k \in 1 .. Len(Kept(s, kept)) : Kept(s, kept)[k] = s[i]
           /\ \A k, l \in 1 .. Len(Kept(s, kept)) : k < l =>
                \E i, j \in 1 .. Len(s) :
                    i < j /\ Kept(s, kept)[k] = s[i] /\ Kept(s, kept)[l] = s[j]
<1> DEFINE t == Kept(s, kept)
<1>1. t \in Seq(E)
  BY KeptNumbers
<1>2. PICK m : Numbers(m, t, s, kept)
  BY KeptNumbers
<1> HIDE DEF t
<1>3. \A k \in 1 .. Len(t) : m[k] \in 1 .. Len(s)
  BY <1>2 DEF Numbers
<1>4. \A k \in 1 .. Len(t) : m[k] \in kept /\ t[k] = s[m[k]]
  BY <1>2 DEF Numbers
<1>5. \A i \in 1 .. Len(s) : i \in kept => \E k \in 1 .. Len(t) : t[k] = s[i]
  BY <1>2, <1>4 DEF Numbers
<1>6. \A k, l \in 1 .. Len(t) : k < l =>
        m[k] < m[l] /\ m[k] \in 1 .. Len(s) /\ m[l] \in 1 .. Len(s)
            /\ t[k] = s[m[k]] /\ t[l] = s[m[l]]
  BY <1>2, <1>3, <1>4 DEF Numbers
<1>7. \A k, l \in 1 .. Len(t) : k < l =>
        \E i, j \in 1 .. Len(s) : i < j /\ t[k] = s[i] /\ t[l] = s[j]
  BY <1>6
<1> QED BY <1>1, <1>3, <1>4, <1>5, <1>7 DEF t

(* Keeping some elements of a sequence without repetition repeats none. *)
LEMMA KeptInjective ==
    ASSUME NEW E, NEW s \in Seq(E), NEW kept,
           \A i, j \in 1 .. Len(s) : s[i] = s[j] => i = j
    PROVE  \A k, l \in 1 .. Len(Kept(s, kept)) : Kept(s, kept)[k] = Kept(s, kept)[l] => k = l
<1> DEFINE t == Kept(s, kept)
<1>1. t \in Seq(E) /\ \A k, l \in 1 .. Len(t) : k < l =>
        \E i, j \in 1 .. Len(s) : i < j /\ t[k] = s[i] /\ t[l] = s[j]
  BY KeptFacts
<1> HIDE DEF t
<1>2. \A k, l \in 1 .. Len(t) : k < l => t[k] # t[l]
  BY <1>1
<1>3. \A k, l \in 1 .. Len(t) : t[k] = t[l] => k = l
  BY <1>1, <1>2
<1> QED BY <1>3 DEF t

(* KeptFacts for a sequence that goes by another name. *)
LEMMA KeptAs ==
    ASSUME NEW E, NEW s \in Seq(E), NEW kept, NEW t, t = Kept(s, kept)
    PROVE  /\ t \in Seq(E)
           /\ \A k \in 1 .. Len(t) : \E i \in 1 .. Len(s) : i \in kept /\ t[k] = s[i]
           /\ \A i \in 1 .. Len(s) : i \in kept => \E k \in 1 .. Len(t) : t[k] = s[i]
<1>1. t \in Seq(E)
  BY KeptNumbers
<1>2. PICK m : Numbers(m, t, s, kept)
  BY KeptNumbers
<1>3. \A k \in 1 .. Len(t) : m[k] \in 1 .. Len(s) /\ m[k] \in kept /\ t[k] = s[m[k]]
  BY <1>2 DEF Numbers
<1>4. \A i \in 1 .. Len(s) : i \in kept => \E k \in 1 .. Len(t) : m[k] = i
  BY <1>2 DEF Numbers
<1>5. \A k \in 1 .. Len(t) : \E i \in 1 .. Len(s) : i \in kept /\ t[k] = s[i]
  BY <1>3
<1>6. ASSUME NEW i \in 1 .. Len(s), i \in kept PROVE \E k \in 1 .. Len(t) : t[k] = s[i]
  <2>1. PICK k \in 1 .. Len(t) : m[k] = i
    BY <1>4, <1>6
  <2> QED BY <1>3, <2>1
<1> QED BY <1>1, <1>5, <1>6

(* The last of some positions. *)
LEMMA LastPosition ==
    ASSUME NEW n \in Nat, NEW I \in SUBSET (1 .. n), I # {}
    PROVE  \E i \in I : \A j \in I : j <= i
<1> DEFINE T == {n - i : i \in I}
<1>1. T \in SUBSET Nat /\ T # {}
  <2>1. PICK i \in I : TRUE
    OBVIOUS
  <2>2. \A j \in I : n - j \in Nat
    OBVIOUS
  <2>3. n - i \in T
    BY <2>1
  <2> QED BY <2>2, <2>3
<1>2. PICK x \in T : \A y \in T : x <= y
  BY <1>1, NatLeast
<1>3. PICK i \in I : x = n - i
  BY <1>2
<1>4. \A j \in I : n - i <= n - j
  BY <1>2, <1>3
<1> QED BY <1>4

-----------------------------------------------------------------------------
(* Sequences of events. *)

(* Removing events keeps the rest sound (remove_if in engine.cpp). *)
LEMMA SoundKept ==
    ASSUME NEW evs, NEW st, NEW tn, NEW td, Sound(evs, st, tn, td), NEW kept
    PROVE  /\ Sound(Kept(evs, kept), st, tn, td)
           /\ \A r : HasTerminal(Kept(evs, kept), r) => HasTerminal(evs, r)
           /\ \A r : (\A i \in 1 .. Len(evs) : evs[i].r = r => i \in kept) =>
                    (HasTerminal(evs, r) => HasTerminal(Kept(evs, kept), r))
<1> DEFINE t == Kept(evs, kept)
<1>1. evs \in Seq(EventSet)
  BY DEF Sound
<1>2. /\ t \in Seq(EventSet)
      /\ \A k \in 1 .. Len(t) : \E i \in 1 .. Len(evs) : i \in kept /\ t[k] = evs[i]
      /\ \A i \in 1 .. Len(evs) : i \in kept => \E k \in 1 .. Len(t) : t[k] = evs[i]
      /\ \A k, l \in 1 .. Len(t) : k < l =>
            \E i, j \in 1 .. Len(evs) : i < j /\ t[k] = evs[i] /\ t[l] = evs[j]
  BY <1>1, KeptFacts
<1> HIDE DEF t
<1>3. \A k \in 1 .. Len(t) : Timely(t[k], st, tn, td)
  BY <1>2 DEF Sound
<1>4. \A k, l \in 1 .. Len(t) : (k < l /\ t[k].r = t[l].r) => ~t[k].done
  <2> SUFFICES ASSUME NEW k \in 1 .. Len(t), NEW l \in 1 .. Len(t), k < l, t[k].r = t[l].r
               PROVE  ~t[k].done
    OBVIOUS
  <2>1. PICK i, j \in 1 .. Len(evs) : i < j /\ t[k] = evs[i] /\ t[l] = evs[j]
    BY <1>2
  <2> QED BY <2>1 DEF Sound
<1>5. Sound(t, st, tn, td)
  BY <1>2, <1>3, <1>4 DEF Sound
<1>6. \A r : HasTerminal(t, r) => HasTerminal(evs, r)
  BY <1>2 DEF HasTerminal
<1>7. \A r : (\A i \in 1 .. Len(evs) : evs[i].r = r => i \in kept) =>
            (HasTerminal(evs, r) => HasTerminal(t, r))
  BY <1>2 DEF HasTerminal
<1> QED BY <1>5, <1>6, <1>7 DEF t

(* Sound events are a sequence of events. *)
LEMMA SoundTypes ==
    ASSUME NEW evs, NEW st, NEW tn, NEW td, Sound(evs, st, tn, td)
    PROVE  /\ evs \in Seq(EventSet) /\ Len(evs) \in Nat /\ DOMAIN evs = 1 .. Len(evs)
           /\ \A i \in 1 .. Len(evs) :
                evs[i] \in EventSet /\ evs[i].r \in Requests \cup {NoRequest}
<1>1. evs \in Seq(EventSet)
  BY DEF Sound
<1>2. \A i \in 1 .. Len(evs) : evs[i] \in EventSet
  BY <1>1
<1>3. \A e \in EventSet : e.r \in Requests \cup {NoRequest}
  BY DEF EventSet
<1> QED BY <1>1, <1>2, <1>3

(* A sound event is of the current turn of an open request. *)
LEMMA SoundOpen ==
    ASSUME NEW evs, Sound(evs, status, turn, told)
    PROVE  \A i \in 1 .. Len(evs) : evs[i].r # NoRequest =>
                /\ evs[i].r \in Requests /\ IsOpen(evs[i].r)
                /\ evs[i].turn = turn[evs[i].r] /\ turn[evs[i].r] \in TurnIds
                /\ told[evs[i].r][turn[evs[i].r]] = 0
                /\ evs[i].done => status[evs[i].r] = "TurnComplete"
<1> SUFFICES ASSUME NEW i \in 1 .. Len(evs), evs[i].r # NoRequest
             PROVE  /\ evs[i].r \in Requests /\ IsOpen(evs[i].r)
                    /\ evs[i].turn = turn[evs[i].r] /\ turn[evs[i].r] \in TurnIds
                    /\ told[evs[i].r][turn[evs[i].r]] = 0
                    /\ evs[i].done => status[evs[i].r] = "TurnComplete"
  OBVIOUS
<1>1. evs[i].r \in Requests
  BY SoundTypes
<1>2. Timely(evs[i], status, turn, told)
  BY DEF Sound
<1> QED BY <1>1, <1>2 DEF Timely, IsOpen

(* Events stay sound while their own requests are left alone. *)
LEMMA SoundStays ==
    ASSUME NEW evs, NEW st, NEW tn, NEW td, Sound(evs, st, tn, td),
           NEW st2, NEW tn2, NEW td2,
           \A i \in 1 .. Len(evs) : evs[i].r # NoRequest =>
                /\ st2[evs[i].r] = st[evs[i].r]
                /\ tn2[evs[i].r] = tn[evs[i].r]
                /\ td2[evs[i].r] = td[evs[i].r]
    PROVE  Sound(evs, st2, tn2, td2)
<1>1. \A i \in 1 .. Len(evs) : Timely(evs[i], st2, tn2, td2)
  BY DEF Sound, Timely
<1> QED BY <1>1 DEF Sound

(* The requests in list have turns that run and that end in st, and st only  *)
(* ends turns of the requests with events in evs.                            *)
MayEnd(evs, list, st) ==
    /\ list \in Seq(Requests)
    /\ \A i, j \in 1 .. Len(list) : list[i] = list[j] => i = j
    /\ \A i \in 1 .. Len(list) :
        /\ status[list[i]] = "Executable" /\ st[list[i]] = "TurnComplete"
        /\ turn[list[i]] \in TurnIds /\ told[list[i]][turn[list[i]]] = 0
    /\ \A i \in 1 .. Len(evs) : evs[i].r # NoRequest =>
        \/ st[evs[i].r] = status[evs[i].r]
        \/ status[evs[i].r] = "Executable" /\ st[evs[i].r] = "TurnComplete"

(* MergeTerminals ends each turn of the list with one terminal, after its *)
(* other events.                                                          *)
LEMMA MergeSound ==
    ASSUME Types, NEW evs, Sound(evs, status, turn, told), NEW list, NEW st,
           MayEnd(evs, list, st), NEW reason \in Reasons
    PROVE  /\ Sound(MergeTerminals(evs, list, reason), st, turn, told)
           /\ \A i \in 1 .. Len(list) : HasTerminal(MergeTerminals(evs, list, reason), list[i])
           /\ \A r : HasTerminal(evs, r) =>
                    HasTerminal(MergeTerminals(evs, list, reason), r)
           /\ \A r : HasTerminal(MergeTerminals(evs, list, reason), r) =>
                    HasTerminal(evs, r) \/ r \in ToSet(list)
           /\ Unfinished(MergeTerminals(evs, list, reason)) \subseteq Unfinished(evs)
<1> USE DEF MayEnd
<1> DEFINE M == MergeTerminals(evs, list, reason)
           n == Len(evs)
           Same(i, j) == evs[j].r = evs[i].r /\ evs[j].turn = evs[i].turn
           Ends(i) == /\ evs[i].r \in ToSet(list) /\ evs[i].turn = turn[evs[i].r]
                      /\ \A j \in i + 1 .. n : ~Same(i, j)
           K == {i \in DOMAIN list : ~HasEvent(evs, list[i], turn[list[i]])}
           silent == Kept(list, K)
           H == [i \in DOMAIN evs |->
                    IF Ends(i) THEN Event(evs[i].r, evs[i].turn, TRUE, reason) ELSE evs[i]]
           T == [k \in DOMAIN silent |-> Event(silent[k], turn[silent[k]], TRUE, reason)]
<1>1. evs \in Seq(EventSet) /\ n \in Nat /\ DOMAIN evs = 1 .. n
      /\ \A i \in 1 .. n : evs[i] \in EventSet
  BY DEF Sound
<1>2. M = H \o T
  BY DEF MergeTerminals
<1>3. ToSet(list) = {list[i] : i \in 1 .. Len(list)} /\ DOMAIN list = 1 .. Len(list)
  BY DEF ToSet
<1>4. /\ silent \in Seq(Requests)
      /\ \A k \in 1 .. Len(silent) : \E i \in 1 .. Len(list) :
            silent[k] = list[i] /\ ~HasEvent(evs, list[i], turn[list[i]])
      /\ \A i \in 1 .. Len(list) : ~HasEvent(evs, list[i], turn[list[i]]) =>
            \E k \in 1 .. Len(silent) : silent[k] = list[i]
      /\ \A k, l \in 1 .. Len(silent) : silent[k] = silent[l] => k = l
  <2>1. \A i \in 1 .. Len(list) : i \in K <=> ~HasEvent(evs, list[i], turn[list[i]])
    BY <1>3
  <2> HIDE DEF K
  <2>2. /\ silent \in Seq(Requests)
        /\ \A k \in 1 .. Len(silent) : \E i \in 1 .. Len(list) : i \in K /\ silent[k] = list[i]
        /\ \A i \in 1 .. Len(list) : i \in K => \E k \in 1 .. Len(silent) : silent[k] = list[i]
    <3>1. silent \in Seq(Requests)
      BY KeptFacts
    <3>2. \A k \in 1 .. Len(silent) : \E i \in 1 .. Len(list) : i \in K /\ silent[k] = list[i]
      BY KeptFacts
    <3>3. \A i \in 1 .. Len(list) : i \in K => \E k \in 1 .. Len(silent) : silent[k] = list[i]
      BY KeptFacts
    <3> QED BY <3>1, <3>2, <3>3
  <2>3. \A k, l \in 1 .. Len(silent) : silent[k] = silent[l] => k = l
    BY KeptInjective
  <2> HIDE DEF silent
  <2> QED BY <2>1, <2>2, <2>3
<1>5. \A i \in 1 .. n : evs[i].r # NoRequest => evs[i].turn = turn[evs[i].r]
  BY DEF Sound, Timely
<1>6. \A r \in Requests, i \in 1 .. n : ~HasEvent(evs, r, turn[r]) => evs[i].r # r
  BY <1>1, <1>5, TurnsAssumption DEF HasEvent
<1> HIDE DEF silent, Ends, n
<1>7. DOMAIN silent = 1 .. Len(silent) /\ Len(silent) \in Nat
  BY <1>4
<1>8. \A k \in 1 .. Len(silent) :
        /\ silent[k] \in Requests /\ st[silent[k]] = "TurnComplete"
        /\ turn[silent[k]] \in TurnIds /\ told[silent[k]][turn[silent[k]]] = 0
        /\ \A i \in 1 .. n : evs[i].r # silent[k]
  BY <1>4, <1>6
<1>9. \A i \in 1 .. n : Ends(i) =>
        /\ evs[i].r \in ToSet(list) /\ evs[i].r \in Requests
        /\ \A j \in 1 .. n : i < j => evs[j].r # evs[i].r
  <2> SUFFICES ASSUME NEW i \in 1 .. n, Ends(i), NEW j \in 1 .. n, i < j, evs[j].r = evs[i].r
               PROVE  FALSE
    BY <1>3 DEF Ends
  <2>1. evs[i].r \in Requests
    BY <1>3 DEF Ends
  <2>2. evs[i].turn = evs[j].turn
    BY <1>5, <2>1, TurnsAssumption
  <2>3. j \in i + 1 .. n
    BY <1>1
  <2> QED BY <2>2, <2>3 DEF Ends
<1>10. /\ H \in Seq(EventSet) /\ Len(H) = n
       /\ \A i \in 1 .. n : H[i] = IF Ends(i) THEN Event(evs[i].r, evs[i].turn, TRUE, reason)
                                               ELSE evs[i]
  <2>1. \A i \in 1 .. n : Ends(i) => Event(evs[i].r, evs[i].turn, TRUE, reason) \in EventSet
    BY <1>1, <1>9 DEF Event, EventSet
  <2>2. H \in [1 .. n -> EventSet]
    BY <1>1, <2>1
  <2>3. \A i \in 1 .. n : H[i] = IF Ends(i) THEN Event(evs[i].r, evs[i].turn, TRUE, reason)
                                            ELSE evs[i]
    BY <1>1
  <2> HIDE DEF H
  <2>4. H \in Seq(EventSet) /\ Len(H) = n
    BY <1>1, <2>2
  <2> QED BY <2>3, <2>4
<1>11. /\ T \in Seq(EventSet) /\ Len(T) = Len(silent)
       /\ \A k \in 1 .. Len(silent) : T[k] = Event(silent[k], turn[silent[k]], TRUE, reason)
  <2>1. \A k \in 1 .. Len(silent) : Event(silent[k], turn[silent[k]], TRUE, reason) \in EventSet
    BY <1>8 DEF Event, EventSet, TurnIds
  <2>2. T \in [1 .. Len(silent) -> EventSet]
    BY <1>7, <2>1
  <2>3. \A k \in 1 .. Len(silent) : T[k] = Event(silent[k], turn[silent[k]], TRUE, reason)
    BY <1>7
  <2> HIDE DEF T
  <2>4. T \in Seq(EventSet) /\ Len(T) = Len(silent)
    BY <1>7, <2>2
  <2> QED BY <2>3, <2>4
<1> HIDE DEF H, T, M
<1>12. /\ M \in Seq(EventSet) /\ Len(M) = n + Len(silent)
       /\ \A i \in 1 .. n : M[i] = H[i]
       /\ \A i \in n + 1 .. n + Len(silent) : M[i] = T[i - n]
  <2>1. /\ H \in Seq(EventSet) /\ Len(H) = n /\ T \in Seq(EventSet) /\ Len(T) = Len(silent)
    BY <1>10, <1>11
  <2>2. M \in Seq(EventSet) /\ Len(M) = Len(H) + Len(T)
    <3>1. H \in Seq(EventSet) /\ T \in Seq(EventSet) /\ M = H \o T
      BY <1>2, <2>1
    <3> QED BY <3>1, ConcatFacts
  <2>3. \A i \in 1 .. n : M[i] = H[i]
    BY <1>1, <1>2, <1>7, <2>1
  <2>4. \A i \in n + 1 .. n + Len(silent) : M[i] = T[i - n]
    BY <1>1, <1>2, <1>7, <2>1
  <2> QED BY <2>1, <2>2, <2>3, <2>4
<1>13. \A i \in 1 .. n : M[i].r = evs[i].r /\ M[i].turn = evs[i].turn
                        /\ (M[i].done <=> evs[i].done \/ Ends(i))
  BY <1>1, <1>10, <1>12 DEF Event, EventSet
<1>14. \A i \in n + 1 .. n + Len(silent) :
          /\ i - n \in 1 .. Len(silent)
          /\ M[i].r = silent[i - n] /\ M[i].turn = turn[silent[i - n]] /\ M[i].done
  <2> SUFFICES ASSUME NEW i \in n + 1 .. n + Len(silent)
               PROVE  /\ i - n \in 1 .. Len(silent)
                      /\ M[i].r = silent[i - n] /\ M[i].turn = turn[silent[i - n]] /\ M[i].done
    OBVIOUS
  <2>1. i - n \in 1 .. Len(silent)
    BY <1>1, <1>7
  <2>2. M[i] = Event(silent[i - n], turn[silent[i - n]], TRUE, reason)
    BY <1>11, <1>12, <2>1
  <2> QED BY <2>1, <2>2 DEF Event
<1>15. ASSUME NEW i \in 1 .. Len(M) PROVE Timely(M[i], st, turn, told)
  <2>1. CASE i \in 1 .. n
    <3>1. Timely(evs[i], status, turn, told)
      BY <2>1 DEF Sound, n
    <3>2. CASE evs[i].r = NoRequest
      BY <1>9, <1>13, <2>1, <3>1, <3>2, TurnsAssumption DEF Timely
    <3>3. CASE evs[i].r # NoRequest /\ evs[i].r \in ToSet(list)
      BY <1>3, <1>13, <2>1, <3>1, <3>3 DEF Timely
    <3>4. CASE evs[i].r # NoRequest /\ evs[i].r \notin ToSet(list)
      BY <1>9, <1>13, <2>1, <3>1, <3>4 DEF Timely, n
    <3> QED BY <3>2, <3>3, <3>4
  <2>2. CASE i \in n + 1 .. n + Len(silent)
    BY <1>8, <1>14, <2>2, TurnsAssumption DEF Timely
  <2> QED BY <1>1, <1>7, <1>12, <2>1, <2>2
<1>16. ASSUME NEW i \in 1 .. Len(M), NEW j \in 1 .. Len(M), i < j, M[i].r = M[j].r
       PROVE  ~M[i].done
  <2>1. CASE i \in 1 .. n /\ j \in 1 .. n
    BY <1>9, <1>13, <1>16, <2>1 DEF Sound, n
  <2>2. CASE i \in 1 .. n /\ j \in n + 1 .. n + Len(silent)
    BY <1>8, <1>13, <1>14, <1>16, <2>2
  <2>3. CASE i \in n + 1 .. n + Len(silent) /\ j \in n + 1 .. n + Len(silent)
    <3>1. silent[i - n] = silent[j - n] /\ i - n \in 1 .. Len(silent) /\ j - n \in 1 .. Len(silent)
      BY <1>14, <1>16, <2>3
    <3>2. i - n = j - n
      BY <1>4, <3>1
    <3> QED BY <1>1, <1>7, <1>16, <2>3, <3>2
  <2> QED BY <1>1, <1>7, <1>12, <1>16, <2>1, <2>2, <2>3
<1>17. Sound(M, st, turn, told)
  BY <1>12, <1>15, <1>16 DEF Sound
<1>18. ASSUME NEW i \in 1 .. Len(list) PROVE HasTerminal(M, list[i])
  <2>1. CASE HasEvent(evs, list[i], turn[list[i]])
    <3> DEFINE I == {k \in 1 .. n : evs[k].r = list[i]}
    <3>1. I # {} /\ I \in SUBSET (1 .. n)
      BY <1>1, <2>1 DEF HasEvent
    <3>2. PICK k \in I : \A j \in I : j <= k
      BY <1>1, <3>1, LastPosition
    <3>3. Ends(k)
      BY <1>1, <1>3, <1>5, <3>2, TurnsAssumption DEF Ends
    <3> QED BY <1>1, <1>7, <1>12, <1>13, <3>2, <3>3 DEF HasTerminal
  <2>2. CASE ~HasEvent(evs, list[i], turn[list[i]])
    <3>1. PICK k \in 1 .. Len(silent) : silent[k] = list[i]
      BY <1>4, <2>2
    <3>2. n + k \in n + 1 .. n + Len(silent) /\ (n + k) - n = k /\ n + k \in 1 .. Len(M)
      BY <1>1, <1>7, <1>12
    <3> QED BY <1>14, <3>1, <3>2 DEF HasTerminal
  <2> QED BY <2>1, <2>2
<1>19. \A r : HasTerminal(evs, r) => HasTerminal(M, r)
  BY <1>1, <1>7, <1>12, <1>13 DEF HasTerminal, n
<1>20. ASSUME NEW r, HasTerminal(M, r) PROVE HasTerminal(evs, r) \/ r \in ToSet(list)
  <2>1. PICK i \in 1 .. Len(M) : M[i].r = r /\ M[i].done
    BY <1>20 DEF HasTerminal
  <2>2. CASE i \in 1 .. n
    BY <1>9, <1>13, <2>1, <2>2 DEF HasTerminal, n
  <2>3. CASE i \in n + 1 .. n + Len(silent)
    BY <1>3, <1>4, <1>14, <2>1, <2>3
  <2> QED BY <1>1, <1>7, <1>12, <2>1, <2>2, <2>3
<1>21. Unfinished(M) \subseteq Unfinished(evs)
  <2> SUFFICES ASSUME NEW i \in 1 .. Len(M), ~M[i].done PROVE i \in 1 .. n /\ ~evs[i].done
    BY DEF Unfinished, n
  <2>1. i \in 1 .. n
    <3>1. i \in 1 .. n \/ i \in n + 1 .. n + Len(silent)
      BY <1>1, <1>7, <1>12
    <3> QED BY <1>14, <3>1
  <2> QED BY <1>13, <2>1
<1> QED BY <1>17, <1>18, <1>19, <1>20, <1>21 DEF M

-----------------------------------------------------------------------------
(* Effects that several calls share. *)

(* A close takes the request out of the list and its events out of the queue. *)
LEMMA CloseEffect ==
    ASSUME TurnsInv, NEW r \in Requests, IsOpen(r), Close(r),
           UNCHANGED <<told, abandoned, unreported>>
    PROVE  /\ tracked' \in Seq(Requests) /\ Tracking'
           /\ Sound(events, status, turn, told)' /\ Reported'
           /\ \A x \in Requests : x # r => status'[x] = status[x]
<1> USE DEF TurnsInv, Close
<1>1. /\ status' = [status EXCEPT ![r] = "Closed"]
      /\ \A x \in Requests : x # r => status'[x] = status[x]
      /\ status'[r] = "Closed" /\ turn' = turn
  BY DEF Types
<1>2. tracked' \in Seq(Requests) /\ Tracking'
  <2> DEFINE K == {i \in DOMAIN tracked : tracked[i] # r}
  <2>1. tracked \in Seq(Requests) /\ tracked' = Kept(tracked, K)
    BY DEF Types, Untracked
  <2>2. \A i \in 1 .. Len(tracked) : i \in K <=> tracked[i] # r
    BY <2>1
  <2> HIDE DEF K
  <2>3. tracked' \in Seq(Requests)
    BY <2>1, KeptAs
  <2>4. \A k \in 1 .. Len(tracked') :
            \E i \in 1 .. Len(tracked) : i \in K /\ tracked'[k] = tracked[i]
    BY <2>1, KeptAs
  <2>5. \A i \in 1 .. Len(tracked) : i \in K =>
            \E k \in 1 .. Len(tracked') : tracked'[k] = tracked[i]
    BY <2>1, KeptAs
  <2>6. \A k, l \in 1 .. Len(tracked') : tracked'[k] = tracked'[l] => k = l
    BY <2>1, KeptInjective DEF Tracking
  <2>7. \A x \in Requests : IsOpen(x)' <=> \E k \in 1 .. Len(tracked') : tracked'[k] = x
    BY <1>1, <2>2, <2>4, <2>5 DEF Tracking, IsOpen
  <2> QED BY <1>1, <2>3, <2>6, <2>7 DEF Tracking
<1> DEFINE K == {i \in DOMAIN events : events[i].r # r}
<1>3. events \in Seq(EventSet) /\ events' = Kept(events, K)
  BY DEF Sound, WithoutEventsOf
<1>4. \A i \in 1 .. Len(events) : i \in K <=> events[i].r # r
  BY <1>3
<1> HIDE DEF K
<1>5. Sound(events', status, turn, told)
  BY <1>3, SoundKept
<1>6. \A x \in Requests : x # r => (HasTerminal(events, x) => HasTerminal(events', x))
  BY <1>3, <1>4, SoundKept
<1>7. \A k \in 1 .. Len(events') : events'[k].r # r
  BY <1>3, <1>4, KeptFacts
<1>8. Sound(events, status, turn, told)'
  <2>1. \A k \in 1 .. Len(events') : events'[k].r # NoRequest =>
            /\ status'[events'[k].r] = status[events'[k].r]
            /\ turn'[events'[k].r] = turn[events'[k].r]
            /\ told'[events'[k].r] = told[events'[k].r]
    BY <1>1, <1>5, <1>7, SoundTypes
  <2> HIDE DEF Close, TurnsInv
  <2> QED BY <1>5, <2>1, SoundStays
<1>9. Reported'
  BY <1>1, <1>6 DEF Reported, IsOpen
<1> QED BY <1>1, <1>2, <1>8, <1>9

(* The requests in list are those with events, each of them once, and st     *)
(* ends their turns.                                                         *)
Failing(evs, list, st) ==
    /\ list \in Seq(Requests)
    /\ \A i, j \in 1 .. Len(list) : list[i] = list[j] => i = j
    /\ \A i \in 1 .. Len(evs) : evs[i].r # NoRequest => evs[i].r \in ToSet(list)
    /\ \A r \in Requests : r \in ToSet(list) =>
        st[r] = IF status[r] = "Executable" THEN "TurnComplete" ELSE status[r]

(* A failure ends the turns that run of the requests in list, those in ended *)
(* without a terminal, and keeps what is pending.                            *)
LEMMA FatalSound ==
    ASSUME TurnsInv, NEW evs, Sound(evs, status, turn, told), NEW list, NEW ended, NEW st,
           Failing(evs, list, st)
    PROVE  /\ Sound(FatalEvents(evs, list, ended), st, turn, told)
           /\ \A r \in Requests : (r \in ToSet(list) /\ r \notin abandoned) =>
                (((status[r] = "Executable" /\ r \notin ended) \/ HasTerminal(evs, r)) =>
                    HasTerminal(FatalEvents(evs, list, ended), r))
           /\ \A r : HasTerminal(FatalEvents(evs, list, ended), r) =>
                HasTerminal(evs, r) \/ r \notin ended
           /\ Unfinished(FatalEvents(evs, list, ended)) \ {Len(FatalEvents(evs, list, ended))}
                \subseteq Unfinished(Kept(evs, {i \in DOMAIN evs : evs[i].r \notin abandoned}))
<1> USE DEF Failing
<1> DEFINE L == ToSet(list)
           KE == {i \in DOMAIN evs : evs[i].r \notin abandoned}
           KL == {i \in DOMAIN list : /\ IsExecutable(list[i]) /\ list[i] \notin ended
                                      /\ list[i] \notin abandoned}
           surviving == Kept(evs, KE)
           failing == Kept(list, KL)
           M == MergeTerminals(surviving, failing, "Failed")
           R == IF failing = <<>> THEN <<Event(NoRequest, 0, FALSE, "Failed")>> ELSE <<>>
           F == FatalEvents(evs, list, ended)
<1>1. F = M \o R
  BY DEF FatalEvents
<1>2. /\ \A r \in Requests : r \in L /\ status[r] = "Executable" => st[r] = "TurnComplete"
      /\ \A r \in Requests : r \in L /\ status[r] # "Executable" => st[r] = status[r]
  OBVIOUS
<1>3. \A r \in Requests : r \in L <=> \E i \in 1 .. Len(list) : list[i] = r
  BY DEF ToSet
<1>5. evs \in Seq(EventSet)
  BY DEF Sound
<1>6. \A i \in 1 .. Len(evs) : i \in KE <=> evs[i].r \notin abandoned
  BY <1>5
<1>7. \A i \in 1 .. Len(list) : i \in KL <=>
        status[list[i]] = "Executable" /\ list[i] \notin ended /\ list[i] \notin abandoned
  BY DEF IsExecutable
<1> HIDE DEF KE, KL, L
<1>8. /\ Sound(surviving, status, turn, told)
      /\ \A r \in Requests : r \notin abandoned /\ HasTerminal(evs, r) => HasTerminal(surviving, r)
      /\ \A r : HasTerminal(surviving, r) => HasTerminal(evs, r)
  BY <1>6, SoundKept
<1>9. \A k \in 1 .. Len(surviving) :
        surviving[k].r # NoRequest => surviving[k].r \in L /\ surviving[k].r \notin abandoned
  <2>0. surviving = Kept(evs, KE)
    OBVIOUS
  <2> HIDE DEF surviving
  <2>1. \A k \in 1 .. Len(surviving) : \E i \in 1 .. Len(evs) : i \in KE /\ surviving[k] = evs[i]
    BY <1>5, <2>0, KeptAs, SMTT(40)
  <2> QED BY <1>6, <2>1 DEF L
<1>10. failing \in Seq(Requests)
  BY KeptFacts
<1>11. \A k \in 1 .. Len(failing) : \E i \in 1 .. Len(list) : i \in KL /\ failing[k] = list[i]
  BY KeptFacts
<1>12. \A i \in 1 .. Len(list) : i \in KL => \E k \in 1 .. Len(failing) : failing[k] = list[i]
  BY KeptFacts
<1>13. \A k, l \in 1 .. Len(failing) : failing[k] = failing[l] => k = l
  BY KeptInjective
<1> HIDE DEF surviving, failing
<1>14. \A k \in 1 .. Len(failing) :
        /\ failing[k] \in Requests /\ failing[k] \in L /\ failing[k] \notin ended
        /\ status[failing[k]] = "Executable" /\ st[failing[k]] = "TurnComplete"
        /\ turn[failing[k]] \in TurnIds /\ told[failing[k]][turn[failing[k]]] = 0
  <2> SUFFICES ASSUME NEW k \in 1 .. Len(failing)
               PROVE  /\ failing[k] \in Requests /\ failing[k] \in L /\ failing[k] \notin ended
                      /\ status[failing[k]] = "Executable" /\ st[failing[k]] = "TurnComplete"
                      /\ turn[failing[k]] \in TurnIds /\ told[failing[k]][turn[failing[k]]] = 0
    OBVIOUS
  <2>1. /\ failing[k] \in Requests /\ failing[k] \in L /\ failing[k] \notin ended
        /\ status[failing[k]] = "Executable"
    <3>1. PICK i \in 1 .. Len(list) : i \in KL /\ failing[k] = list[i]
      BY <1>11
    <3>2. list[i] \in Requests
      OBVIOUS
    <3> QED BY <1>3, <1>7, <3>1, <3>2
  <2>2. turn[failing[k]] \in TurnIds
    BY <2>1 DEF TurnsInv, Tracking, Types, TurnIds
  <2> QED BY <1>2, <2>1, <2>2 DEF TurnsInv, Reported
<1>15. ASSUME NEW r \in Requests, r \in L, status[r] = "Executable", r \notin ended,
              r \notin abandoned
       PROVE  \E k \in 1 .. Len(failing) : failing[k] = r
  BY <1>3, <1>7, <1>12, <1>15
<1>16. \A k \in 1 .. Len(surviving) : surviving[k].r # NoRequest =>
          \/ st[surviving[k].r] = status[surviving[k].r]
          \/ status[surviving[k].r] = "Executable" /\ st[surviving[k].r] = "TurnComplete"
  BY <1>2, <1>8, <1>9, SoundTypes
<1>17. /\ Sound(M, st, turn, told)
       /\ \A k \in 1 .. Len(failing) : HasTerminal(M, failing[k])
       /\ \A r : HasTerminal(surviving, r) => HasTerminal(M, r)
       /\ \A r : HasTerminal(M, r) => HasTerminal(surviving, r) \/ r \in ToSet(failing)
       /\ Unfinished(M) \subseteq Unfinished(surviving)
  <2>1. "Failed" \in Reasons /\ Types
    BY DEF Reasons, TurnsInv
  <2>2. MayEnd(surviving, failing, st) /\ Sound(surviving, status, turn, told)
    BY <1>8, <1>10, <1>13, <1>14, <1>16 DEF MayEnd
  <2>3. Sound(M, st, turn, told)
    BY <2>1, <2>2, MergeSound
  <2>4. \A k \in 1 .. Len(failing) : HasTerminal(M, failing[k])
    BY <2>1, <2>2, MergeSound
  <2>5. \A r : HasTerminal(surviving, r) => HasTerminal(M, r)
    BY <2>1, <2>2, MergeSound
  <2>6. Unfinished(M) \subseteq Unfinished(surviving)
    BY <2>1, <2>2, MergeSound
  <2>7. \A r : HasTerminal(M, r) => HasTerminal(surviving, r) \/ r \in ToSet(failing)
    BY <2>1, <2>2, MergeSound
  <2> QED BY <2>3, <2>4, <2>5, <2>6, <2>7
<1> HIDE DEF M, F
<1>18. /\ Sound(F, st, turn, told)
       /\ \A r : HasTerminal(M, r) <=> HasTerminal(F, r)
       /\ Unfinished(F) \ {Len(F)} \subseteq Unfinished(M)
  <2>1. CASE failing = <<>>
    <3> DEFINE e == Event(NoRequest, 0, FALSE, "Failed")
    <3>1. F = M \o <<e>> /\ M \in Seq(EventSet)
      BY <1>1, <1>17, <2>1, SoundTypes
    <3>2. e \in EventSet /\ e.r = NoRequest /\ ~e.done
      BY DEF Event, EventSet, Reasons
    <3> HIDE DEF e
    <3>3. /\ F \in Seq(EventSet) /\ Len(F) = Len(M) + 1 /\ Len(M) \in Nat
          /\ F[Len(M) + 1] = e
          /\ \A i \in 1 .. Len(M) : F[i] = M[i]
      BY <3>1, <3>2
    <3>4. \A i \in 1 .. Len(F) : Timely(F[i], st, turn, told)
      BY <1>17, <3>2, <3>3 DEF Sound, Timely
    <3>5. \A i, j \in 1 .. Len(F) : (i < j /\ F[i].r = F[j].r) => ~F[i].done
      <4> SUFFICES ASSUME NEW i \in 1 .. Len(F), NEW j \in 1 .. Len(F),
                          i < j, F[i].r = F[j].r
                   PROVE  ~F[i].done
        OBVIOUS
      <4>1. CASE j = Len(M) + 1
        BY <3>2, <3>3, <3>4, <4>1 DEF Timely
      <4>2. CASE j # Len(M) + 1
        <5>1. i \in 1 .. Len(M) /\ j \in 1 .. Len(M)
          BY <3>3, <4>2
        <5> QED BY <1>17, <3>3, <5>1 DEF Sound
      <4> QED BY <4>1, <4>2
    <3>6. Sound(F, st, turn, told)
      BY <3>3, <3>4, <3>5 DEF Sound
    <3>7. \A i \in 1 .. Len(M) : i \in 1 .. Len(F)
      BY <3>3
    <3>8. \A i \in 1 .. Len(F) : i # Len(F) => i \in 1 .. Len(M)
      BY <3>3
    <3>9. Unfinished(F) \ {Len(F)} \subseteq Unfinished(M)
      BY <3>3, <3>8 DEF Unfinished
    <3>10. ~F[Len(F)].done
      BY <3>2, <3>3
    <3> QED BY <3>3, <3>6, <3>7, <3>8, <3>9, <3>10 DEF HasTerminal
  <2>2. CASE failing # <<>>
    <3>1. F = M
      BY <1>1, <1>17, <2>2 DEF Sound
    <3> QED BY <1>17, <3>1
  <2> QED BY <2>1, <2>2
<1>19. ASSUME NEW r \in Requests, r \in L, r \notin abandoned,
              (status[r] = "Executable" /\ r \notin ended) \/ HasTerminal(evs, r)
       PROVE  HasTerminal(F, r)
  <2>1. CASE status[r] = "Executable" /\ r \notin ended
    BY <1>15, <1>17, <1>18, <1>19, <2>1
  <2>2. CASE HasTerminal(evs, r)
    BY <1>8, <1>17, <1>18, <1>19, <2>2
  <2> QED BY <1>19, <2>1, <2>2
<1>20. Unfinished(F) \ {Len(F)} \subseteq Unfinished(surviving)
  BY <1>17, <1>18
<1>21. ASSUME NEW r, HasTerminal(F, r), r \in ended PROVE HasTerminal(evs, r)
  <2>1. r \notin ToSet(failing)
    BY <1>10, <1>14, <1>21 DEF ToSet
  <2> QED BY <1>8, <1>17, <1>18, <1>21, <2>1
<1> QED BY <1>18, <1>19, <1>20, <1>21 DEF L, F, surviving, KE

(* A failure ends every turn that runs: the requests in list are those that  *)
(* stay open, those in ended have completed their turns unreported.          *)
LEMMA FatalEffect ==
    ASSUME TurnsInv, NEW evs, NEW list \in Seq(Requests), NEW ended,
           MarkUnhealthy(evs, list, ended), UNCHANGED <<turn, told, abandoned>>,
           \A r \in Requests : <<r, turn[r]>> \notin unreported' =>
                r \notin ended /\ <<r, turn[r]>> \notin unreported,
           Sound(evs, status, turn, told),
           \A i, j \in 1 .. Len(list) : list[i] = list[j] => i = j,
           \A r \in Requests : r \in ToSet(list) => IsOpen(r),
           \A i \in 1 .. Len(evs) : evs[i].r # NoRequest => evs[i].r \in ToSet(list),
           \A r \in Requests : r \in ToSet(list) /\ HasTerminal(events, r) => HasTerminal(evs, r)
    PROVE  /\ status' \in [Requests -> {"Absent", "Unassigned", "Executable", "TurnComplete",
                                        "Closed"}]
           /\ \A r \in Requests : IsOpen(r)' <=> r \in ToSet(list)
           /\ \A r \in Requests : status'[r] \in {"Absent", "Unassigned"} => status'[r] = status[r]
           /\ \A r \in Requests : status'[r] \in {"Executable", "TurnComplete"} =>
                                    status[r] \in {"Executable", "TurnComplete"}
           /\ Sound(events, status, turn, told)' /\ Reported'
<1> DEFINE L == ToSet(list)
<1>1. events' = FatalEvents(evs, list, ended)
  BY DEF MarkUnhealthy
<1>2. /\ \A r \in Requests : r \in L /\ status[r] = "Executable" => status'[r] = "TurnComplete"
      /\ \A r \in Requests : r \in L /\ status[r] # "Executable" => status'[r] = status[r]
      /\ \A r \in Requests : r \notin L => status'[r] \in {"Absent", "Closed"}
      /\ \A r \in Requests : status'[r] = "Absent" => status[r] = "Absent"
      /\ status' \in [Requests -> {"Absent", "Unassigned", "Executable", "TurnComplete", "Closed"}]
  <2> HIDE DEF L
  <2>1. status \in [Requests -> {"Absent", "Unassigned", "Executable", "TurnComplete", "Closed"}]
    BY DEF TurnsInv, Types
  <2>2. status' = [r \in Requests |->
            IF status[r] = "Executable" /\ r \in L THEN "TurnComplete"
            ELSE IF r \notin L /\ IsOpen(r) THEN "Closed"
            ELSE status[r]]
    BY DEF MarkUnhealthy, FailTurns, IsExecutable, L
  <2>3. \A r \in Requests : r \in L => IsOpen(r)
    BY DEF L
  <2> QED BY <2>1, <2>2, <2>3 DEF IsOpen
<1>3. \A r \in Requests : IsOpen(r)' <=> r \in L
  BY <1>2 DEF IsOpen
<1>4. /\ Sound(events', status', turn, told)
      /\ \A r \in Requests : (r \in L /\ r \notin abandoned) =>
            (((status[r] = "Executable" /\ r \notin ended) \/ HasTerminal(evs, r)) =>
                HasTerminal(events', r))
  <2>1. Failing(evs, list, status')
    BY <1>2 DEF Failing
  <2> HIDE DEF L
  <2> QED BY <1>1, <2>1, FatalSound DEF L
<1>5. Reported'
  <2> SUFFICES ASSUME NEW r \in Requests
               PROVE  /\ \A t \in TurnIds :
                            (t > turn[r] \/ (t = turn[r] /\ status'[r] = "Executable")) => told[r][t] = 0
                      /\ (IsOpen(r)' /\ r \notin abandoned) =>
                            /\ \A t \in TurnIds : t < turn[r] => told[r][t] = 1
                            /\ (status'[r] = "TurnComplete" /\ ~HasTerminal(events', r)
                                    /\ <<r, turn[r]>> \notin unreported') => told[r][turn[r]] = 1
    BY DEF Reported
  <2>1. status'[r] = "Executable" => status[r] = "Executable"
    BY <1>2
  <2>2. IsOpen(r)' => r \in L /\ IsOpen(r)
    BY <1>3 DEF L
  <2>3. ASSUME IsOpen(r)', r \notin abandoned, status'[r] = "TurnComplete", ~HasTerminal(events', r),
               <<r, turn[r]>> \notin unreported'
        PROVE  told[r][turn[r]] = 1
    <3>0. r \notin ended /\ <<r, turn[r]>> \notin unreported
      BY <2>3
    <3>1. CASE status[r] = "Executable"
      BY <1>4, <2>2, <2>3, <3>0, <3>1
    <3>2. CASE status[r] # "Executable"
      <4>1. status[r] = "TurnComplete"
        BY <1>2, <2>2, <2>3, <3>2
      <4>2. ~HasTerminal(events, r)
        BY <1>4, <2>2, <2>3 DEF L
      <4> QED BY <2>2, <2>3, <3>0, <4>1, <4>2 DEF TurnsInv, Reported
    <3> QED BY <3>1, <3>2
  <2> QED BY <2>1, <2>2, <2>3 DEF TurnsInv, Reported
<1> QED BY <1>2, <1>3, <1>4, <1>5 DEF L

(* The events of a committed step: for each request of the batch its tokens, *)
(* the last of them or one event more ending the turns that are done.        *)
StepSequence(q, batch, x, j) ==
    /\ q \in Seq(EventSet) /\ Len(q) <= j * MaxVisible
    /\ \A k \in 1 .. Len(q) : \E i \in 1 .. j :
        /\ q[k].r = batch[i] /\ q[k].turn = turn[batch[i]]
        /\ q[k].done => x[i].done
    /\ \A k, l \in 1 .. Len(q) : (k < l /\ q[k].r = q[l].r) => ~q[k].done
    /\ \A i \in 1 .. j : x[i].done => HasTerminal(q, batch[i])

(* One more block of events fits one more share of the room. *)
LEMMA BlocksFit ==
    ASSUME NEW j \in Nat, NEW v \in Nat, NEW a \in Nat, NEW b \in Nat, a <= j * v, b <= v
    PROVE  a + b <= (j + 1) * v
<1>1. (j + 1) * v = j * v + v
  OBVIOUS
<1> QED BY <1>1

(* The events a step has for one request, its terminal last. *)
LEMMA BlockSequence ==
    ASSUME Types, NEW r \in Requests, NEW x \in StepResult
    PROVE  /\ StepEvents(r, x) \in Seq(EventSet) /\ Len(StepEvents(r, x)) <= MaxVisible
           /\ \A k \in 1 .. Len(StepEvents(r, x)) :
                /\ StepEvents(r, x)[k].r = r /\ StepEvents(r, x)[k].turn = turn[r]
                /\ StepEvents(r, x)[k].done <=> x.done /\ k = Len(StepEvents(r, x))
           /\ x.done => Len(StepEvents(r, x)) # 0
<1> DEFINE B == StepEvents(r, x)
           V == [k \in 1 .. x.visible |->
                    Event(r, turn[r], x.done /\ k = x.visible,
                          IF x.done /\ k = x.visible THEN "Completed" ELSE "None")]
           e == Event(r, turn[r], TRUE, "Completed")
<1>1. x.visible \in Nat /\ x.visible <= MaxVisible /\ MaxVisible \in Nat \ {0}
  BY TurnsAssumption DEF StepResult, Types, MaxVisible
<1>2. turn[r] \in Nat
  BY TurnsAssumption DEF Types
<1>3. B = V \o (IF x.done /\ x.visible = 0 THEN <<e>> ELSE <<>>)
  BY DEF StepEvents
<1>4. /\ V \in [1 .. x.visible -> EventSet]
      /\ \A k \in 1 .. x.visible : /\ V[k].r = r /\ V[k].turn = turn[r]
                                   /\ V[k].done <=> x.done /\ k = x.visible
  <2>1. ASSUME NEW k \in 1 .. x.visible
        PROVE  Event(r, turn[r], x.done /\ k = x.visible,
                     IF x.done /\ k = x.visible THEN "Completed" ELSE "None") \in EventSet
    <3>1. (x.done /\ k = x.visible) \in BOOLEAN
      OBVIOUS
    <3>2. (IF x.done /\ k = x.visible THEN "Completed" ELSE "None") \in Reasons
      BY DEF Reasons
    <3> QED BY <1>2, <3>1, <3>2 DEF Event, EventSet
  <2>2. V \in [1 .. x.visible -> EventSet]
    BY <2>1
  <2>3. \A k \in 1 .. x.visible : V[k] = Event(r, turn[r], x.done /\ k = x.visible,
                          IF x.done /\ k = x.visible THEN "Completed" ELSE "None")
    OBVIOUS
  <2>6. ASSUME NEW c, NEW d
        PROVE  /\ Event(r, turn[r], c, d).r = r /\ Event(r, turn[r], c, d).turn = turn[r]
               /\ Event(r, turn[r], c, d).done = c
    BY DEF Event
  <2> HIDE DEF V
  <2>4. \A k \in 1 .. x.visible : V[k].r = r /\ V[k].turn = turn[r]
    BY <2>3, <2>6
  <2>5. \A k \in 1 .. x.visible : V[k].done = (x.done /\ k = x.visible)
    BY <2>3, <2>6
  <2> QED BY <2>2, <2>4, <2>5
<1>5. e \in EventSet /\ e.r = r /\ e.turn = turn[r] /\ e.done
  BY <1>2 DEF Event, EventSet, Reasons
<1> HIDE DEF V, e, B
<1>6. V \in Seq(EventSet) /\ Len(V) = x.visible
  BY <1>1, <1>4
<1>7. CASE x.done /\ x.visible = 0
  <2>1. B = <<e>>
    <3>1. V = <<>>
      BY <1>6, <1>7
    <3> QED BY <1>3, <1>7, <3>1
  <2> QED BY <1>1, <1>5, <1>7, <2>1 DEF B
<1>8. CASE ~(x.done /\ x.visible = 0)
  <2>1. B = V
    BY <1>3, <1>6, <1>8
  <2> QED BY <1>1, <1>4, <1>6, <1>8, <2>1 DEF B
<1> QED BY <1>7, <1>8

(* The events of a whole step are the blocks of its requests, one after *)
(* the other.                                                           *)
LEMMA StepSequences ==
    ASSUME Types, NEW n \in Nat \ {0}, NEW batch \in [1 .. n -> Requests],
           \A i, j \in 1 .. n : batch[i] = batch[j] => i = j,
           NEW x \in [1 .. n -> StepResult]
    PROVE  StepSequence(FlattenSeq([i \in 1 .. n |-> StepEvents(batch[i], x[i])]), batch, x, n)
<1> DEFINE b == [i \in 1 .. n |-> StepEvents(batch[i], x[i])]
<1>0. MaxVisible \in Nat
  BY TurnsAssumption DEF Types, MaxVisible
<1>1. \A i \in 1 .. n : b[i] = StepEvents(batch[i], x[i])
  OBVIOUS
<1>2. ASSUME NEW i \in 1 .. n
      PROVE  /\ b[i] \in Seq(EventSet) /\ Len(b[i]) \in Nat /\ Len(b[i]) <= MaxVisible
             /\ \A k \in 1 .. Len(b[i]) : /\ b[i][k].r = batch[i] /\ b[i][k].turn = turn[batch[i]]
                                          /\ b[i][k].done <=> x[i].done /\ k = Len(b[i])
             /\ x[i].done => Len(b[i]) # 0
  <2> DEFINE B == StepEvents(batch[i], x[i])
  <2>1. /\ B \in Seq(EventSet) /\ Len(B) <= MaxVisible
        /\ \A k \in 1 .. Len(B) : /\ B[k].r = batch[i] /\ B[k].turn = turn[batch[i]]
                                  /\ B[k].done <=> x[i].done /\ k = Len(B)
        /\ x[i].done => Len(B) # 0
    <3>1. batch[i] \in Requests /\ x[i] \in StepResult
      OBVIOUS
    <3> HIDE DEF B
    <3> QED BY <3>1, BlockSequence DEF B
  <2>2. b[i] = B
    BY <1>1
  <2> HIDE DEF B, b
  <2> QED BY <2>1, <2>2
<1>3. b \in [1 .. n -> Seq(EventSet)]
  BY <1>2
<1> HIDE DEF b
<1>4. PICK f \in [1 .. n -> Seq(EventSet)] : Flattens(f, b, n)
  BY <1>3, FlattenPrefixes
<1>5. /\ f[1] = b[1] /\ FlattenSeq(b) = f[n]
      /\ \A i \in 2 .. n : f[i] = f[i - 1] \o b[i]
  BY <1>4 DEF Flattens
<1> DEFINE S == {j \in Nat : j + 1 <= n => StepSequence(f[j + 1], batch, x, j + 1)}
<1>6. 0 \in S
  <2>1. 1 \in 1 .. n
    OBVIOUS
  <2>2. StepSequence(f[1], batch, x, 1)
    <3> DEFINE q == f[1]
    <3>1. /\ q \in Seq(EventSet) /\ Len(q) \in Nat /\ Len(q) <= MaxVisible
          /\ \A k \in 1 .. Len(q) : /\ q[k].r = batch[1] /\ q[k].turn = turn[batch[1]]
                                    /\ q[k].done <=> x[1].done /\ k = Len(q)
          /\ x[1].done => Len(q) # 0
      <4>1. /\ b[1] \in Seq(EventSet) /\ Len(b[1]) \in Nat /\ Len(b[1]) <= MaxVisible
            /\ \A k \in 1 .. Len(b[1]) : /\ b[1][k].r = batch[1] /\ b[1][k].turn = turn[batch[1]]
                                         /\ b[1][k].done <=> x[1].done /\ k = Len(b[1])
            /\ x[1].done => Len(b[1]) # 0
        BY <1>2, <2>1
      <4>2. q = b[1]
        BY <1>5
      <4> HIDE DEF q
      <4> QED BY <4>1, <4>2
    <3> HIDE DEF q
    <3>2. \A k \in 1 .. Len(q) : \E i \in 1 .. 1 :
            q[k].r = batch[i] /\ q[k].turn = turn[batch[i]] /\ (q[k].done => x[i].done)
      BY <3>1
    <3>3. \A k, l \in 1 .. Len(q) : (k < l /\ q[k].r = q[l].r) => ~q[k].done
      BY <3>1
    <3>4. \A i \in 1 .. 1 : x[i].done => HasTerminal(q, batch[i])
      <4>1. x[1].done => Len(q) \in 1 .. Len(q)
        BY <3>1
      <4> QED BY <3>1, <4>1 DEF HasTerminal
    <3>5. Len(q) <= 1 * MaxVisible
      BY <1>0, <3>1
    <3> QED BY <3>1, <3>2, <3>3, <3>4, <3>5 DEF StepSequence, q
  <2> QED BY <2>2
<1>7. ASSUME NEW j \in Nat, j \in S PROVE j + 1 \in S
  <2> SUFFICES ASSUME j + 2 <= n PROVE StepSequence(f[j + 2], batch, x, j + 2)
    OBVIOUS
  <2> DEFINE p == f[j + 1]
             q == f[j + 2]
             B == b[j + 2]
             m == Len(p)
  <2>1. j + 2 \in 2 .. n /\ j + 2 \in 1 .. n /\ j + 1 \in 1 .. n /\ (j + 2) - 1 = j + 1
    OBVIOUS
  <2>2. StepSequence(p, batch, x, j + 1)
    BY <1>7, <2>1
  <2>3. q = p \o B
    BY <1>5, <2>1
  <2>4. /\ B \in Seq(EventSet) /\ Len(B) \in Nat /\ Len(B) <= MaxVisible
        /\ \A k \in 1 .. Len(B) : /\ B[k].r = batch[j + 2] /\ B[k].turn = turn[batch[j + 2]]
                                  /\ B[k].done <=> x[j + 2].done /\ k = Len(B)
        /\ x[j + 2].done => Len(B) # 0
    BY <1>2, <2>1
  <2> HIDE DEF p, q, B, S
  <2>5. p \in Seq(EventSet) /\ m \in Nat
    BY <2>2 DEF StepSequence
  <2>6. /\ q \in Seq(EventSet) /\ Len(q) = m + Len(B)
        /\ \A k \in 1 .. m : q[k] = p[k]
        /\ \A k \in m + 1 .. m + Len(B) : q[k] = B[k - m]
    BY <2>3, <2>4, <2>5, ConcatFacts
  <2> HIDE DEF m
  <2>7. \A k \in m + 1 .. m + Len(B) :
          /\ k - m \in 1 .. Len(B)
          /\ q[k].r = batch[j + 2] /\ q[k].turn = turn[batch[j + 2]]
          /\ q[k].done <=> x[j + 2].done /\ k = m + Len(B)
    <3> SUFFICES ASSUME NEW k \in m + 1 .. m + Len(B)
                 PROVE  /\ k - m \in 1 .. Len(B)
                        /\ q[k].r = batch[j + 2] /\ q[k].turn = turn[batch[j + 2]]
                        /\ q[k].done <=> x[j + 2].done /\ k = m + Len(B)
      OBVIOUS
    <3>1. k - m \in 1 .. Len(B) /\ (k - m = Len(B) <=> k = m + Len(B))
      BY <2>4, <2>5
    <3>2. q[k] = B[k - m]
      BY <2>6
    <3> QED BY <2>4, <3>1, <3>2
  <2>8. \A k \in 1 .. m : \E i \in 1 .. j + 1 :
          /\ q[k].r = batch[i] /\ q[k].turn = turn[batch[i]] /\ (q[k].done => x[i].done)
    <3>1. \A k \in 1 .. m : \E i \in 1 .. j + 1 :
            /\ p[k].r = batch[i] /\ p[k].turn = turn[batch[i]] /\ (p[k].done => x[i].done)
      BY <2>2 DEF StepSequence, m
    <3>2. \A k \in 1 .. m : q[k] = p[k]
      BY <2>6
    <3>3. ASSUME NEW k \in 1 .. m
          PROVE  \E i \in 1 .. j + 1 :
                    /\ q[k].r = batch[i] /\ q[k].turn = turn[batch[i]] /\ (q[k].done => x[i].done)
      <4>1. PICK i \in 1 .. j + 1 :
              /\ p[k].r = batch[i] /\ p[k].turn = turn[batch[i]] /\ (p[k].done => x[i].done)
        BY <3>1
      <4> QED BY <3>2, <4>1
    <3> QED BY <3>3
  <2>9. \A k \in 1 .. Len(q) : k \in 1 .. m \/ k \in m + 1 .. m + Len(B)
    BY <2>4, <2>5, <2>6
  <2>10. \A k \in 1 .. m : q[k].r # batch[j + 2]
    <3>1. \A i \in 1 .. j + 1 : i \in 1 .. n /\ i # j + 2
      BY <2>1
    <3> QED BY <2>1, <2>8, <3>1
  <2>11. ASSUME NEW k \in 1 .. Len(q)
         PROVE  \E i \in 1 .. j + 2 :
                  /\ q[k].r = batch[i] /\ q[k].turn = turn[batch[i]] /\ (q[k].done => x[i].done)
    <3>1. CASE k \in 1 .. m
      <4>1. PICK i \in 1 .. j + 1 :
              /\ q[k].r = batch[i] /\ q[k].turn = turn[batch[i]] /\ (q[k].done => x[i].done)
        BY <2>8, <3>1
      <4>2. i \in 1 .. j + 2
        OBVIOUS
      <4> QED BY <4>1, <4>2
    <3>2. CASE k \in m + 1 .. m + Len(B)
      <4>1. j + 2 \in 1 .. j + 2
        OBVIOUS
      <4> QED BY <2>7, <3>2, <4>1
    <3> QED BY <2>9, <3>1, <3>2
  <2>12. ASSUME NEW k \in 1 .. Len(q), NEW l \in 1 .. Len(q), k < l, q[k].r = q[l].r
         PROVE  ~q[k].done
    <3>1. CASE k \in 1 .. m /\ l \in 1 .. m
      BY <2>2, <2>6, <2>12, <3>1 DEF StepSequence, m
    <3>2. CASE k \in 1 .. m /\ l \in m + 1 .. m + Len(B)
      BY <2>7, <2>10, <2>12, <3>2
    <3>3. CASE k \in m + 1 .. m + Len(B)
      BY <2>4, <2>5, <2>6, <2>7, <2>12, <3>3
    <3> QED BY <2>4, <2>5, <2>9, <2>12, <3>1, <3>2, <3>3
  <2>13. ASSUME NEW i \in 1 .. j + 2, x[i].done PROVE HasTerminal(q, batch[i])
    <3>1. CASE i = j + 2
      <4>1. m + Len(B) \in m + 1 .. m + Len(B) /\ m + Len(B) \in 1 .. Len(q)
        BY <2>4, <2>5, <2>6, <2>13, <3>1
      <4> QED BY <2>7, <2>13, <3>1, <4>1 DEF HasTerminal
    <3>2. CASE i # j + 2
      <4>1. HasTerminal(p, batch[i])
        BY <2>2, <2>13, <3>2 DEF StepSequence
      <4>2. PICK k \in 1 .. m : p[k].r = batch[i] /\ p[k].done
        BY <4>1 DEF HasTerminal, m
      <4>3. k \in 1 .. Len(q)
        BY <2>4, <2>5, <2>6
      <4> QED BY <2>6, <4>2, <4>3 DEF HasTerminal
    <3> QED BY <3>1, <3>2
  <2>14. Len(q) <= (j + 2) * MaxVisible
    <3>1. m <= (j + 1) * MaxVisible
      BY <2>2 DEF StepSequence, m
    <3>2. j + 1 \in Nat /\ (j + 1) + 1 = j + 2
      OBVIOUS
    <3> QED BY <1>0, <2>4, <2>5, <2>6, <3>1, <3>2, BlocksFit
  <2> QED BY <2>6, <2>11, <2>12, <2>13, <2>14 DEF StepSequence, q
<1>8. Nat \subseteq S
  <2> HIDE DEF S
  <2> QED BY <1>6, <1>7, NatSetInduction
<1>9. n - 1 \in Nat /\ (n - 1) + 1 = n
  OBVIOUS
<1>10. StepSequence(f[n], batch, x, n)
  <2>1. n - 1 \in S
    BY <1>8, <1>9
  <2> QED BY <1>9, <2>1
<1> QED BY <1>5, <1>10 DEF b

-----------------------------------------------------------------------------
(* Steps that change no request and no event. *)

(* A step that changes no turn and no event keeps the invariant. *)
LEMMA QuietStep ==
    ASSUME TurnsInv, UNCHANGED <<config, status, turn, tracked, events, told, abandoned, unreported>>,
           healthy' \in BOOLEAN, marker' \in BOOLEAN, at' \in Nat,
           pc' \in {"out", "scan", "body", "drain"},
           Calling', NoLostRelease'
    PROVE  TurnsInv'
BY DEF TurnsInv, Types, Tracking, Reported, IsOpen

(* After a return no call is under way. *)
LEMMA ReturnIsIdle ==
    ASSUME Return
    PROVE  Calling' /\ at' \in Nat /\ pc' = "out"
BY DEF Return, Calling, Idle

(* A step that opens no abandoned request loses no release. *)
LEMMA ReleaseKept ==
    ASSUME NoLostRelease, pc # "scan", healthy' => healthy,
           \A r \in abandoned : IsOpen(r)' => IsOpen(r), UNCHANGED <<abandoned, marker>>
    PROVE  NoLostRelease'
BY DEF NoLostRelease

(* Entering a call exchanges the marker and starts the scan. *)
LEMMA EnterStep ==
    ASSUME TurnsInv, NEW c \in Calls, Enter(c), UNCHANGED <<config, unreported>>
    PROVE  TurnsInv'
<1> USE DEF Enter, request
<1>1. /\ c.op = "Run" => c.k \in Nat
      /\ c.op = "CreateRequest" => c.r \in Requests /\ status[c.r] = "Absent"
      /\ c.op \in {"BeginTurn", "Rewind"} =>
            c.r \in Requests /\ IsOpen(c.r) /\ c.r \notin abandoned
      /\ c.op = "BeginTurn" => turn[c.r] < MaxTurns
  <2>1. CASE c \in {[op |-> "Run", r |-> NoRequest, k |-> n] : n \in BufferSizes}
    BY <2>1, TurnsAssumption DEF TurnsInv, Types, BufferSizes
  <2>2. CASE c \in {[op |-> "HasPendingRequests", r |-> NoRequest, k |-> 0]}
    BY <2>2
  <2>3. CASE c \in {[op |-> "CreateRequest", r |-> r, k |-> 0] :
            r \in {r \in Requests : /\ status[r] = "Absent"
                                    /\ Cardinality(Created) < config.maxRequests}}
    BY <2>3
  <2>4. CASE c \in {[op |-> "BeginTurn", r |-> r, k |-> 0] :
            r \in {r \in Requests : /\ IsOpen(r) /\ r \notin abandoned
                                    /\ turn[r] < config.maxTurns}}
    <3>1. config.maxTurns \in 0 .. MaxTurns /\ MaxTurns \in Nat
      BY TurnsAssumption DEF TurnsInv, Types
    <3>2. \A r \in Requests : turn[r] \in Nat
      BY TurnsAssumption DEF TurnsInv, Types
    <3> QED BY <2>4, <3>1, <3>2
  <2>5. CASE c \in {[op |-> "Rewind", r |-> r, k |-> t] :
            r \in {r \in Requests : IsOpen(r) /\ r \notin abandoned},
            t \in TurnIds}
    BY <2>5
  <2> QED BY <2>1, <2>2, <2>3, <2>4, <2>5 DEF Calls
<1>2. Calling'
  BY <1>1 DEF Calling, IsOpen
<1>3. NoLostRelease'
  <2> SUFFICES ASSUME healthy, NEW r \in abandoned, IsOpen(r)
               PROVE  pc' = "scan" /\ \E i \in 1 .. Len(tracked) : tracked[i] = r
    BY DEF NoLostRelease, IsOpen
  <2>1. marker
    BY DEF TurnsInv, NoLostRelease
  <2>2. r \in Requests
    BY DEF TurnsInv, Types
  <2> QED BY <2>1, <2>2 DEF TurnsInv, Tracking
<1>4. pc' \in {"out", "scan", "body", "drain"} /\ healthy' \in BOOLEAN /\ marker' \in BOOLEAN /\ at' \in Nat
  BY DEF TurnsInv, Types
<1> QED BY <1>2, <1>3, <1>4, QuietStep

(* The scan passes a request that still has a handle. *)
LEMMA ScanPassStep ==
    ASSUME TurnsInv, ScanPass, UNCHANGED <<config, unreported>>
    PROVE  TurnsInv'
<1> USE DEF ScanPass, request, handles, Looking
<1>1. at \in Nat /\ at # 0 /\ at <= Len(tracked) /\ Len(tracked) \in Nat
  BY DEF TurnsInv, Types, Calling
<1>2. NoLostRelease'
  <2> SUFFICES ASSUME healthy, NEW r \in abandoned, IsOpen(r), ~marker
               PROVE  \E i \in at + 1 .. Len(tracked) : tracked[i] = r
    BY DEF NoLostRelease, IsOpen
  <2>1. PICK i \in at .. Len(tracked) : tracked[i] = r
    BY DEF TurnsInv, NoLostRelease
  <2>2. i # at
    BY <2>1
  <2> QED BY <1>1, <2>1, <2>2
<1>3. Calling'
  BY <1>1 DEF TurnsInv, Calling, IsOpen
<1>4. healthy' \in BOOLEAN /\ marker' \in BOOLEAN /\ at' \in Nat /\ pc' \in {"out", "scan", "body", "drain"}
  BY <1>1 DEF TurnsInv, Types
<1> QED BY <1>2, <1>3, <1>4, QuietStep

(* The scan ends and the body begins. *)
LEMMA ScanDoneStep ==
    ASSUME TurnsInv, ScanDone, UNCHANGED <<config, unreported>>
    PROVE  TurnsInv'
<1> USE DEF ScanDone, request, handles
<1>1. NoLostRelease'
  <2> SUFFICES ASSUME healthy, NEW r \in abandoned, IsOpen(r)
               PROVE  marker
    BY DEF NoLostRelease, IsOpen
  <2>1. at .. Len(tracked) = {}
    BY DEF TurnsInv, Types
  <2> QED BY <2>1 DEF TurnsInv, NoLostRelease
<1>2. Calling'
  BY DEF TurnsInv, Calling, IsOpen
<1>3. healthy' \in BOOLEAN /\ marker' \in BOOLEAN /\ at' \in Nat /\ pc' \in {"out", "scan", "body", "drain"}
  BY DEF TurnsInv, Types
<1> QED BY <1>1, <1>2, <1>3, QuietStep

(* A scan that runs out of memory raises the marker again. *)
LEMMA ScanOutOfMemoryStep ==
    ASSUME TurnsInv, ScanOutOfMemory, UNCHANGED <<config, unreported>>
    PROVE  TurnsInv'
<1>1. NoLostRelease'
  BY DEF ScanOutOfMemory, NoLostRelease
<1>2. Calling' /\ at' \in Nat /\ pc' = "out"
  BY ReturnIsIdle DEF ScanOutOfMemory
<1>3. /\ UNCHANGED <<config, status, turn, tracked, events, told, abandoned, unreported>>
      /\ healthy' \in BOOLEAN /\ marker' \in BOOLEAN
  BY DEF ScanOutOfMemory, TurnsInv, Types
<1> QED BY <1>1, <1>2, <1>3, QuietStep

(* A call that returns without an effect. *)
LEMMA ReturnStep ==
    ASSUME TurnsInv, pc # "scan", Return,
           UNCHANGED <<config, status, turn, tracked, events, told, abandoned, healthy, marker,
                       unreported>>
    PROVE  TurnsInv'
<1>1. NoLostRelease'
  BY ReleaseKept DEF TurnsInv, IsOpen
<1>2. Calling' /\ at' \in Nat /\ pc' = "out"
  BY ReturnIsIdle
<1>3. healthy' \in BOOLEAN /\ marker' \in BOOLEAN
  BY DEF TurnsInv, Types
<1> QED BY <1>1, <1>2, <1>3, QuietStep

(* Rewinding to the start of a turn changes no turn and no event. *)
LEMMA RewindStep ==
    ASSUME TurnsInv, RewindRequestToStartOfTurn, UNCHANGED <<config, unreported>>
    PROVE  TurnsInv'
<1>1. pc # "scan" /\ Return
      /\ UNCHANGED <<status, turn, tracked, events, told, abandoned, healthy, marker>>
  BY DEF RewindRequestToStartOfTurn, In, handles
<1> QED BY <1>1, ReturnStep

(* A query keeps the invariant. *)
LEMMA HasPendingRequestsStep ==
    ASSUME TurnsInv, HasPendingRequests, UNCHANGED <<config, unreported>>
    PROVE  TurnsInv'
BY ReturnStep DEF HasPendingRequests, In, request, handles

(* A step that throws before it changes anything keeps the invariant. *)
LEMMA StepThrowsStep ==
    ASSUME TurnsInv, StepThrows, UNCHANGED <<config, unreported>>
    PROVE  TurnsInv'
BY ReturnStep DEF StepThrows, CanStep, In, request, handles

(* Run with pending events, or nothing to do, keeps the invariant. *)
LEMMA RunWithoutStepStep ==
    ASSUME TurnsInv, RunWithoutStep, UNCHANGED <<config, unreported>>
    PROVE  TurnsInv'
<1> USE DEF RunWithoutStep, In, request, handles
<1>1. CASE events = <<>>
  BY <1>1, ReturnStep
<1>2. CASE events # <<>>
  <2>1. NoLostRelease'
    BY <1>2, ReleaseKept DEF TurnsInv, IsOpen
  <2>2. Calling'
    BY <1>2 DEF TurnsInv, Calling, IsOpen
  <2>3. healthy' \in BOOLEAN /\ marker' \in BOOLEAN /\ at' \in Nat /\ pc' = "drain"
    BY <1>2 DEF TurnsInv, Types
  <2> QED BY <2>1, <2>2, <2>3, QuietStep
<1> QED BY <1>1, <1>2

(* Another thread gives up the last handle at any point of a call. *)
LEMMA ExternalReleaseStep ==
    ASSUME TurnsInv, NEW r \in Requests, ExternalRelease(r), UNCHANGED <<config, unreported>>
    PROVE  TurnsInv'
<1> USE DEF ExternalRelease, request, control
<1>1. Types'
  BY DEF TurnsInv, Types
<1>2. Tracking'
  BY DEF TurnsInv, Tracking, IsOpen
<1>3. Calling'
  BY DEF TurnsInv, Calling, IsOpen
<1>4. Sound(events, status, turn, told)'
  BY DEF TurnsInv
<1>5. Reported'
  BY DEF TurnsInv, Reported, IsOpen
<1>6. NoLostRelease'
  BY DEF NoLostRelease
<1> QED BY <1>1, <1>2, <1>3, <1>4, <1>5, <1>6 DEF TurnsInv

-----------------------------------------------------------------------------
(* Steps that close requests or end turns. *)

(* The scan closes an abandoned request. *)
LEMMA ScanCloseStep ==
    ASSUME TurnsInv, ScanClose, UNCHANGED <<config, unreported>>
    PROVE  TurnsInv'
<1> DEFINE r == tracked[at]
<1>1. at \in 1 .. Len(tracked) /\ r \in Requests /\ r \in abandoned /\ IsOpen(r)
  <2>1. at \in 1 .. Len(tracked) /\ r \in abandoned
    BY DEF ScanClose, Looking, TurnsInv, Types, Calling
  <2>2. r \in Requests
    BY <2>1 DEF TurnsInv, Types
  <2> QED BY <2>1, <2>2 DEF TurnsInv, Tracking
<1>2. Close(r) /\ UNCHANGED <<told, abandoned, marker, healthy, call, pc>> /\ at' = 1 /\ pc = "scan"
  BY DEF ScanClose, handles, Looking
<1> HIDE DEF r
<1>3. /\ tracked' \in Seq(Requests) /\ Tracking'
      /\ Sound(events, status, turn, told)' /\ Reported'
      /\ \A x \in Requests : x # r => status'[x] = status[x]
  BY <1>1, <1>2, CloseEffect
<1>4. status' = [status EXCEPT ![r] = "Closed"] /\ turn' = turn
  BY <1>2 DEF Close
<1>5. Types'
  BY <1>1, <1>2, <1>3, <1>4 DEF TurnsInv, Types
<1>6. Calling'
  BY <1>1, <1>2, <1>3, <1>4 DEF TurnsInv, Calling, IsOpen
<1>7. NoLostRelease'
  <2> SUFFICES ASSUME NEW x \in abandoned', IsOpen(x)'
               PROVE  \E i \in 1 .. Len(tracked') : tracked'[i] = x
    BY <1>2 DEF NoLostRelease
  <2>1. x \in Requests
    BY <1>2 DEF TurnsInv, Types
  <2> QED BY <1>3, <2>1 DEF Tracking
<1> QED BY <1>3, <1>5, <1>6, <1>7 DEF TurnsInv

(* The owner closes a request, with events pending or not. *)
LEMMA CloseRequestStep ==
    ASSUME TurnsInv, NEW r \in Requests, CloseRequest(r), UNCHANGED <<config, unreported>>
    PROVE  TurnsInv'
<1>1. /\ IsOpen(r) /\ Close(r) /\ pc = "out"
      /\ UNCHANGED <<told, abandoned, marker, healthy, call, pc, at>>
  BY DEF CloseRequest, handles, control
<1>2. /\ tracked' \in Seq(Requests) /\ Tracking'
      /\ Sound(events, status, turn, told)' /\ Reported'
      /\ \A x \in Requests : x # r => status'[x] = status[x]
  BY <1>1, CloseEffect
<1>3. status' = [status EXCEPT ![r] = "Closed"] /\ turn' = turn
  BY <1>1 DEF Close
<1>4. Types'
  BY <1>1, <1>2, <1>3 DEF TurnsInv, Types
<1>5. Calling'
  BY <1>1 DEF TurnsInv, Calling, Idle
<1>6. NoLostRelease'
  <2>1. \A x \in abandoned : IsOpen(x)' => IsOpen(x)
    BY <1>1, <1>2 DEF TurnsInv, Types, IsOpen
  <2> QED BY <1>1, <2>1, ReleaseKept DEF TurnsInv
<1> QED BY <1>2, <1>4, <1>5, <1>6 DEF TurnsInv

(* The list of tracked requests as a set. *)
LEMMA TrackedSet ==
    ASSUME TurnsInv
    PROVE  \A r \in Requests : r \in ToSet(tracked) <=> IsOpen(r)
<1>1. DOMAIN tracked = 1 .. Len(tracked)
  BY DEF TurnsInv, Types
<1> QED BY <1>1 DEF TurnsInv, Tracking, ToSet

(* What is left of requests_ when one is taken out. *)
LEMMA UntrackedFacts ==
    ASSUME TurnsInv, NEW r \in Requests
    PROVE  /\ Untracked(r) \in Seq(Requests)
           /\ \A k, l \in 1 .. Len(Untracked(r)) : Untracked(r)[k] = Untracked(r)[l] => k = l
           /\ \A x \in Requests : x \in ToSet(Untracked(r)) <=> IsOpen(x) /\ x # r
<1> DEFINE K == {i \in DOMAIN tracked : tracked[i] # r}
           t == Untracked(r)
<1>1. tracked \in Seq(Requests) /\ t = Kept(tracked, K)
  BY DEF TurnsInv, Types, Untracked
<1>2. \A i \in 1 .. Len(tracked) : i \in K <=> tracked[i] # r
  BY <1>1
<1> HIDE DEF K, t
<1>3. t \in Seq(Requests)
  BY <1>1, KeptAs
<1>4. \A k \in 1 .. Len(t) : \E i \in 1 .. Len(tracked) : i \in K /\ t[k] = tracked[i]
  BY <1>1, KeptAs
<1>5. \A i \in 1 .. Len(tracked) : i \in K => \E k \in 1 .. Len(t) : t[k] = tracked[i]
  BY <1>1, KeptAs
<1>6. \A k, l \in 1 .. Len(t) : t[k] = t[l] => k = l
  BY <1>1, KeptInjective DEF TurnsInv, Tracking
<1>7. \A x \in Requests : x \in ToSet(t) <=> \E k \in 1 .. Len(t) : t[k] = x
  BY <1>3 DEF ToSet
<1>8. \A x \in Requests : IsOpen(x) <=> \E i \in 1 .. Len(tracked) : tracked[i] = x
  BY DEF TurnsInv, Tracking
<1>9. ASSUME NEW x \in Requests, x \in ToSet(t) PROVE IsOpen(x) /\ x # r
  <2>1. PICK k \in 1 .. Len(t) : t[k] = x
    BY <1>7, <1>9
  <2>2. PICK i \in 1 .. Len(tracked) : i \in K /\ t[k] = tracked[i]
    BY <1>4
  <2> QED BY <1>2, <1>8, <2>1, <2>2
<1>10. ASSUME NEW x \in Requests, IsOpen(x), x # r PROVE x \in ToSet(t)
  <2>1. PICK i \in 1 .. Len(tracked) : tracked[i] = x
    BY <1>8, <1>10
  <2>2. PICK k \in 1 .. Len(t) : t[k] = tracked[i]
    BY <1>2, <1>5, <1>10, <2>1
  <2> QED BY <1>7, <2>1, <2>2
<1> QED BY <1>3, <1>6, <1>9, <1>10 DEF t

(* A fatal failure ends every running turn, with one terminal unless the *)
(* turn is in ended.                                                     *)
LEMMA FatalStep ==
    ASSUME TurnsInv, NEW ended, MarkUnhealthy(events, tracked, ended), Calling',
           at' \in Nat, pc' \in {"out", "scan", "body", "drain"},
           UNCHANGED <<config, turn, told, tracked, abandoned, marker>>,
           \A r \in Requests : <<r, turn[r]>> \notin unreported' =>
                r \notin ended /\ <<r, turn[r]>> \notin unreported
    PROVE  TurnsInv'
<1>1. \A r \in Requests : r \in ToSet(tracked) <=> IsOpen(r)
  BY TrackedSet
<1>2. /\ Sound(events, status, turn, told) /\ tracked \in Seq(Requests)
      /\ \A i, j \in 1 .. Len(tracked) : tracked[i] = tracked[j] => i = j
  BY DEF TurnsInv, Types, Tracking
<1>3. \A i \in 1 .. Len(events) : events[i].r # NoRequest => events[i].r \in ToSet(tracked)
  <2>1. \A i \in 1 .. Len(events) : events[i].r # NoRequest =>
            events[i].r \in Requests /\ IsOpen(events[i].r)
    BY <1>2, SoundOpen
  <2> QED BY <1>1, <2>1
<1>4. /\ status' \in [Requests -> {"Absent", "Unassigned", "Executable", "TurnComplete", "Closed"}]
      /\ \A r \in Requests : IsOpen(r)' <=> r \in ToSet(tracked)
      /\ \A r \in Requests : status'[r] \in {"Absent", "Unassigned"} => status'[r] = status[r]
      /\ \A r \in Requests : status'[r] \in {"Executable", "TurnComplete"} =>
                              status[r] \in {"Executable", "TurnComplete"}
      /\ Sound(events, status, turn, told)' /\ Reported'
  BY <1>1, <1>2, <1>3, FatalEffect
<1>5. healthy' = FALSE
  BY DEF MarkUnhealthy
<1>6. Types'
  BY <1>4, <1>5 DEF TurnsInv, Types
<1>7. Tracking'
  <2>1. \A r \in Requests : IsOpen(r)' <=> IsOpen(r)
    BY <1>1, <1>4
  <2> QED BY <1>4, <2>1 DEF TurnsInv, Tracking
<1>8. NoLostRelease'
  BY <1>5 DEF NoLostRelease
<1> QED BY <1>4, <1>6, <1>7, <1>8 DEF TurnsInv

(* A failure inside a step keeps the invariant. *)
LEMMA StepFatalStep ==
    ASSUME TurnsInv, StepFatal, UNCHANGED <<config, unreported>>
    PROVE  TurnsInv'
<1>1. /\ MarkUnhealthy(events, tracked, {}) /\ call.op = "Run" /\ pc' = "drain" /\ at' \in Nat
      /\ UNCHANGED <<turn, told, tracked, abandoned, marker, call>>
  BY DEF StepFatal, CanStep, In, handles, TurnsInv, Types
<1>2. Calling'
  BY <1>1 DEF TurnsInv, Calling
<1> QED BY <1>1, <1>2, FatalStep

(* A failure while a step is published keeps the invariant: the turns the *)
(* step completed are accounted for as unreported.                        *)
LEMMA StepCommitFailsStep ==
    ASSUME TurnsInv, StepCommitFails, UNCHANGED config
    PROVE  TurnsInv'
<1>1. /\ call.op = "Run" /\ pc' = "drain" /\ at' \in Nat
      /\ UNCHANGED <<turn, told, tracked, abandoned, marker, call>>
  BY DEF StepCommitFails, CanStep, In, handles, TurnsInv, Types
<1>2. PICK ended : /\ MarkUnhealthy(events, tracked, ended)
                   /\ unreported' = unreported \cup {<<r, turn[r]>> : r \in ended}
  BY Zenon DEF StepCommitFails
<1>3. Calling'
  BY <1>1 DEF TurnsInv, Calling
<1> QED BY <1>1, <1>2, <1>3, FatalStep

(* A failure while closing an abandoned request keeps the invariant. *)
LEMMA ScanFatalStep ==
    ASSUME TurnsInv, ScanFatal, UNCHANGED <<config, unreported>>
    PROVE  TurnsInv'
<1>1. Calling' /\ at' \in Nat /\ pc' \in {"out", "drain"}
  <2>1. CASE call.op = "Run" /\ events' # <<>>
    <3>1. pc' = "drain" /\ UNCHANGED <<call, at>>
      BY <2>1 DEF ScanFatal
    <3> QED BY <2>1, <3>1 DEF TurnsInv, Calling, Types
  <2>2. CASE ~(call.op = "Run" /\ events' # <<>>)
    BY <2>2, ReturnIsIdle DEF ScanFatal
  <2> QED BY <2>1, <2>2
<1>2. UNCHANGED <<turn, told, tracked, abandoned, marker>>
  BY DEF ScanFatal, handles
<1>3. CASE healthy
  <2>1. MarkUnhealthy(events, tracked, {})
    BY <1>3 DEF ScanFatal
  <2> QED BY <1>1, <1>2, <2>1, FatalStep
<1>4. CASE ~healthy
  <2>1. UNCHANGED <<status, events, healthy>>
    BY <1>4 DEF ScanFatal
  <2>2. NoLostRelease'
    BY <1>4, <2>1 DEF NoLostRelease
  <2>3. healthy' \in BOOLEAN /\ marker' \in BOOLEAN
    BY <1>2, <2>1 DEF TurnsInv, Types
  <2> QED BY <1>1, <1>2, <2>1, <2>2, <2>3, QuietStep
<1> QED BY <1>3, <1>4

(* A failure while a turn begins keeps the invariant. *)
LEMMA BeginTurnFatalStep ==
    ASSUME TurnsInv, BeginTurnFatal, UNCHANGED <<config, unreported>>
    PROVE  TurnsInv'
<1> DEFINE r == call.r
           K == {i \in DOMAIN events : events[i].r # r}
           evs == WithoutEventsOf(r)
           list == Untracked(r)
<1>1. /\ MarkUnhealthy(evs, list, {}) /\ tracked' = list /\ Return
      /\ call.op = "BeginTurn" /\ UNCHANGED <<turn, told, abandoned, marker>>
  BY DEF BeginTurnFatal, In, handles
<1>2. r \in Requests
  BY <1>1 DEF TurnsInv, Calling
<1>3. /\ list \in Seq(Requests)
      /\ \A k, l \in 1 .. Len(list) : list[k] = list[l] => k = l
      /\ \A x \in Requests : x \in ToSet(list) <=> IsOpen(x) /\ x # r
  BY <1>2, UntrackedFacts
<1>4. events \in Seq(EventSet) /\ evs = Kept(events, K) /\ Sound(events, status, turn, told)
  BY DEF WithoutEventsOf, TurnsInv, Sound
<1>5. \A i \in 1 .. Len(events) : i \in K <=> events[i].r # r
  BY <1>4
<1> HIDE DEF K, evs, list, r
<1>6. /\ Sound(evs, status, turn, told)
      /\ \A x \in Requests : x # r => (HasTerminal(events, x) => HasTerminal(evs, x))
  BY <1>4, <1>5, SoundKept
<1>7. \A k \in 1 .. Len(evs) : evs[k].r # NoRequest => evs[k].r \in ToSet(list)
  <2>1. \A k \in 1 .. Len(evs) : evs[k].r # r
    BY <1>4, <1>5, KeptAs
  <2>2. \A k \in 1 .. Len(evs) : evs[k].r # NoRequest =>
            evs[k].r \in Requests /\ IsOpen(evs[k].r)
    BY <1>6, SoundOpen
  <2> QED BY <1>3, <2>1, <2>2
<1>8. /\ status' \in [Requests -> {"Absent", "Unassigned", "Executable", "TurnComplete", "Closed"}]
      /\ \A x \in Requests : IsOpen(x)' <=> x \in ToSet(list)
      /\ \A x \in Requests : status'[x] \in {"Absent", "Unassigned"} => status'[x] = status[x]
      /\ \A x \in Requests : status'[x] \in {"Executable", "TurnComplete"} =>
                              status[x] \in {"Executable", "TurnComplete"}
      /\ Sound(events, status, turn, told)' /\ Reported'
  <2>1. /\ \A x \in Requests : x \in ToSet(list) => IsOpen(x)
        /\ \A x \in Requests : x \in ToSet(list) /\ HasTerminal(events, x) => HasTerminal(evs, x)
        /\ \A x \in Requests : <<x, turn[x]>> \notin unreported' =>
            x \notin {} /\ <<x, turn[x]>> \notin unreported
    BY <1>3, <1>6
  <2>2. /\ list \in Seq(Requests) /\ \A i, j \in 1 .. Len(list) : list[i] = list[j] => i = j
        /\ Sound(evs, status, turn, told) /\ UNCHANGED <<turn, told, abandoned>>
    BY <1>1, <1>3, <1>6
  <2> QED BY <1>1, <1>7, <2>1, <2>2, FatalEffect
<1>9. Calling' /\ at' \in Nat /\ pc' = "out" /\ healthy' = FALSE
  BY <1>1, ReturnIsIdle DEF MarkUnhealthy
<1>10. Types'
  BY <1>1, <1>3, <1>8, <1>9 DEF TurnsInv, Types
<1>11. Tracking'
  <2>1. \A x \in Requests : x \in ToSet(list) <=> \E i \in 1 .. Len(list) : list[i] = x
    BY <1>3 DEF ToSet
  <2> QED BY <1>1, <1>3, <1>8, <2>1 DEF TurnsInv, Tracking
<1>12. NoLostRelease'
  BY <1>9 DEF NoLostRelease
<1> QED BY <1>8, <1>9, <1>10, <1>11, <1>12 DEF TurnsInv

(* A new request is tracked once and has nothing pending. *)
LEMMA CreateRequestStep ==
    ASSUME TurnsInv, CreateRequest, UNCHANGED <<config, unreported>>
    PROVE  TurnsInv'
<1> DEFINE r == call.r
<1>1. /\ pc # "scan" /\ Return /\ r \in Requests /\ status[r] = "Absent"
      /\ UNCHANGED <<turn, events, told, abandoned, healthy, marker>>
  BY DEF CreateRequest, In, handles, TurnsInv, Calling
<1>2. CASE ~healthy
  <2>1. UNCHANGED <<status, tracked>>
    BY <1>2 DEF CreateRequest
  <2> QED BY <1>1, <2>1, ReturnStep
<1>3. CASE healthy
  <2>1. status' = [status EXCEPT ![r] = "Unassigned"] /\ tracked' = Append(tracked, r)
    BY <1>3 DEF CreateRequest
  <2> HIDE DEF r
  <2>2. /\ status'[r] = "Unassigned"
        /\ \A x \in Requests : x # r => status'[x] = status[x]
        /\ tracked' \in Seq(Requests) /\ Len(tracked) \in Nat
        /\ Len(tracked') = Len(tracked) + 1 /\ tracked'[Len(tracked) + 1] = r
        /\ \A i \in 1 .. Len(tracked) : tracked'[i] = tracked[i] /\ tracked[i] \in Requests
    BY <1>1, <2>1 DEF TurnsInv, Types
  <2>3. \A i \in 1 .. Len(tracked) : tracked[i] # r
    BY <1>1 DEF TurnsInv, Tracking, IsOpen
  <2>4. \A i \in 1 .. Len(events) : events[i].r # r
    BY <1>1, SoundOpen, TurnsAssumption DEF TurnsInv, IsOpen
  <2>5. Calling' /\ at' \in Nat /\ pc' = "out"
    BY <1>1, ReturnIsIdle
  <2>6. Types'
    <3>1. status' \in [Requests -> {"Absent", "Unassigned", "Executable", "TurnComplete", "Closed"}]
      BY <2>1 DEF TurnsInv, Types
    <3> QED BY <1>1, <2>2, <2>5, <3>1 DEF TurnsInv, Types
  <2>7. Tracking'
    <3>1. \A i, j \in 1 .. Len(tracked') : tracked'[i] = tracked'[j] => i = j
      BY <2>2, <2>3 DEF TurnsInv, Tracking
    <3>2. ASSUME NEW x \in Requests, IsOpen(x)' PROVE \E i \in 1 .. Len(tracked') : tracked'[i] = x
      <4>1. CASE x = r
        BY <2>2, <4>1
      <4>2. CASE x # r
        <5>1. PICK i \in 1 .. Len(tracked) : tracked[i] = x
          BY <2>2, <3>2, <4>2 DEF TurnsInv, Tracking, IsOpen
        <5> QED BY <2>2, <5>1
      <4> QED BY <4>1, <4>2
    <3>3. ASSUME NEW x \in Requests, NEW i \in 1 .. Len(tracked'), tracked'[i] = x
          PROVE  IsOpen(x)'
      <4>1. CASE i = Len(tracked) + 1
        BY <2>2, <3>3, <4>1 DEF IsOpen
      <4>2. CASE i # Len(tracked) + 1
        <5>1. i \in 1 .. Len(tracked)
          BY <2>2, <4>2
        <5>2. x # r /\ IsOpen(x)
          BY <2>2, <2>3, <3>3, <5>1 DEF TurnsInv, Tracking
        <5> QED BY <2>2, <5>2 DEF IsOpen
      <4> QED BY <4>1, <4>2
    <3>4. \A x \in Requests :
            /\ status'[x] \in {"Absent", "Unassigned"} => turn'[x] = 0
            /\ status'[x] \in {"Executable", "TurnComplete"} => turn'[x] # 0
            /\ status'[x] = "Absent" => x \notin abandoned'
      BY <1>1, <2>2 DEF TurnsInv, Tracking
    <3> QED BY <3>1, <3>2, <3>3, <3>4 DEF Tracking
  <2>8. Sound(events, status, turn, told)'
    <3>1. \A i \in 1 .. Len(events) : events[i].r # NoRequest =>
            /\ status'[events[i].r] = status[events[i].r]
            /\ turn'[events[i].r] = turn[events[i].r]
            /\ told'[events[i].r] = told[events[i].r]
      BY <1>1, <2>2, <2>4, SoundOpen DEF TurnsInv
    <3>2. Sound(events, status', turn', told')
      BY <3>1, SoundStays DEF TurnsInv
    <3> QED BY <1>1, <3>2
  <2>9. Reported'
    <3> SUFFICES ASSUME NEW x \in Requests
                 PROVE  /\ \A t \in TurnIds :
                            (t > turn[x] \/ (t = turn[x] /\ status'[x] = "Executable")) => told[x][t] = 0
                        /\ (IsOpen(x)' /\ x \notin abandoned) =>
                            /\ \A t \in TurnIds : t < turn[x] => told[x][t] = 1
                            /\ (status'[x] = "TurnComplete" /\ ~HasTerminal(events, x)
                                    /\ <<x, turn[x]>> \notin unreported) => told[x][turn[x]] = 1
      BY <1>1 DEF Reported
    <3>1. CASE x = r
      <4>1. turn[x] = 0
        BY <1>1, <3>1 DEF TurnsInv, Tracking
      <4> QED BY <2>2, <3>1, <4>1 DEF TurnsInv, Reported, TurnIds
    <3>2. CASE x # r
      BY <2>2, <3>2 DEF TurnsInv, Reported, IsOpen
    <3> QED BY <3>1, <3>2
  <2>10. NoLostRelease'
    <3>1. \A x \in abandoned : IsOpen(x)' => IsOpen(x)
      BY <1>1, <2>2 DEF TurnsInv, Types, Tracking, IsOpen
    <3> QED BY <1>1, <3>1, ReleaseKept DEF TurnsInv
  <2> QED BY <2>5, <2>6, <2>7, <2>8, <2>9, <2>10 DEF TurnsInv
<1> QED BY <1>2, <1>3

(* The next turn begins with nothing pending of the last. *)
LEMMA BeginTurnStep ==
    ASSUME TurnsInv, Unreported, BeginTurn, UNCHANGED <<config, unreported>>
    PROVE  TurnsInv'
<1> DEFINE r == call.r
<1>1. /\ pc # "scan" /\ Return /\ r \in Requests /\ turn[r] < MaxTurns /\ r \notin abandoned
      /\ UNCHANGED <<tracked, events, told, abandoned, healthy, marker>>
  BY DEF BeginTurn, In, handles, TurnsInv, Calling
<1>2. CASE ~(healthy /\ (status[r] = "Unassigned" \/ CanContinue(r)))
  <2>1. UNCHANGED <<status, turn>>
    BY <1>2 DEF BeginTurn
  <2> QED BY <1>1, <2>1, ReturnStep
<1>3. CASE healthy /\ (status[r] = "Unassigned" \/ CanContinue(r))
  <2>1. /\ status' = [status EXCEPT ![r] = "Executable"]
        /\ turn' = [turn EXCEPT ![r] = @ + 1]
    BY <1>3 DEF BeginTurn
  <2>2. /\ status[r] \in {"Unassigned", "TurnComplete"}
        /\ status[r] = "TurnComplete" => ~PendingOf(r)
    BY <1>3 DEF CanContinue
  <2> HIDE DEF r
  <2>3. /\ status'[r] = "Executable" /\ turn'[r] = turn[r] + 1 /\ turn[r] \in Nat
        /\ \A x \in Requests : x # r => status'[x] = status[x] /\ turn'[x] = turn[x]
    BY <1>1, <2>1, TurnsAssumption DEF TurnsInv, Types
  <2>4. \A i \in 1 .. Len(events) : events[i].r # r
    <3>1. CASE status[r] = "Unassigned"
      <4>1. turn[r] = 0
        BY <1>1, <3>1 DEF TurnsInv, Tracking
      <4>2. turn[r] \notin TurnIds
        BY <4>1 DEF TurnIds
      <4>3. r # NoRequest
        BY <1>1, TurnsAssumption
      <4> QED BY <4>2, <4>3, SoundOpen DEF TurnsInv
    <3>2. CASE status[r] = "TurnComplete"
      <4>1. DOMAIN events = 1 .. Len(events)
        BY SoundTypes DEF TurnsInv
      <4> QED BY <2>2, <3>2, <4>1 DEF PendingOf
    <3> QED BY <2>2, <3>1, <3>2
  <2>5. Calling' /\ at' \in Nat /\ pc' = "out"
    BY <1>1, ReturnIsIdle
  <2>6. Types'
    <3>1. status' \in [Requests -> {"Absent", "Unassigned", "Executable", "TurnComplete", "Closed"}]
      BY <2>1 DEF TurnsInv, Types
    <3>2. turn' \in [Requests -> 0 .. MaxTurns]
      BY <1>1, <2>1, TurnsAssumption DEF TurnsInv, Types
    <3> QED BY <1>1, <2>5, <3>1, <3>2 DEF TurnsInv, Types
  <2>7. \A x \in Requests : IsOpen(x)' <=> IsOpen(x)
    BY <2>2, <2>3 DEF IsOpen
  <2>8. Tracking'
    <3>1. \A x \in Requests :
            /\ status'[x] \in {"Absent", "Unassigned"} => turn'[x] = 0
            /\ status'[x] \in {"Executable", "TurnComplete"} => turn'[x] # 0
            /\ status'[x] = "Absent" => x \notin abandoned'
      BY <1>1, <2>3 DEF TurnsInv, Tracking
    <3> QED BY <1>1, <2>7, <3>1 DEF TurnsInv, Tracking
  <2>9. Sound(events, status, turn, told)'
    <3>1. \A i \in 1 .. Len(events) : events[i].r # NoRequest =>
            /\ status'[events[i].r] = status[events[i].r]
            /\ turn'[events[i].r] = turn[events[i].r]
            /\ told'[events[i].r] = told[events[i].r]
      BY <1>1, <2>3, <2>4, SoundOpen DEF TurnsInv
    <3>2. Sound(events, status', turn', told')
      BY <3>1, SoundStays DEF TurnsInv
    <3> QED BY <1>1, <3>2
  <2>10. Reported'
    <3> SUFFICES ASSUME NEW x \in Requests
                 PROVE  /\ \A t \in TurnIds :
                            (t > turn'[x] \/ (t = turn'[x] /\ status'[x] = "Executable")) => told[x][t] = 0
                        /\ (IsOpen(x)' /\ x \notin abandoned) =>
                            /\ \A t \in TurnIds : t < turn'[x] => told[x][t] = 1
                            /\ (status'[x] = "TurnComplete" /\ ~HasTerminal(events, x)
                                    /\ <<x, turn'[x]>> \notin unreported) => told[x][turn'[x]] = 1
      BY <1>1 DEF Reported
    <3>1. CASE x = r
      <4>1. \A t \in TurnIds : t > turn[r] => told[r][t] = 0
        BY <1>1 DEF TurnsInv, Reported
      <4>2. \A t \in TurnIds : t < turn[r] => told[r][t] = 1
        BY <1>1, <2>2 DEF TurnsInv, Reported, IsOpen
      <4>3. turn[r] \in TurnIds => told[r][turn[r]] = 1
        <5>1. ~HasTerminal(events, r)
          BY <2>4 DEF HasTerminal
        <5>2. CASE status[r] = "Unassigned"
          BY <1>1, <5>2 DEF TurnsInv, Tracking, TurnIds
        <5>3. CASE status[r] = "TurnComplete"
          BY <1>1, <1>3, <5>1, <5>3 DEF TurnsInv, Reported, Unreported, IsOpen
        <5> QED BY <2>2, <5>2, <5>3
      <4>4. \A t \in TurnIds : t \in Nat
        BY TurnsAssumption DEF TurnIds
      <4>5. \A t \in TurnIds : t >= turn[r] + 1 => told[r][t] = 0
        BY <2>3, <4>1, <4>4
      <4>6. \A t \in TurnIds : t < turn[r] + 1 => told[r][t] = 1
        BY <2>3, <4>2, <4>3, <4>4
      <4> QED BY <2>3, <3>1, <4>4, <4>5, <4>6
    <3>2. CASE x # r
      BY <2>3, <3>2 DEF TurnsInv, Reported, IsOpen
    <3> QED BY <3>1, <3>2
  <2>11. NoLostRelease'
    <3>1. \A x \in abandoned : IsOpen(x)' => IsOpen(x)
      BY <2>7 DEF TurnsInv, Types
    <3> QED BY <1>1, <3>1, ReleaseKept DEF TurnsInv
  <2> QED BY <2>5, <2>6, <2>8, <2>9, <2>10, <2>11 DEF TurnsInv
<1> QED BY <1>2, <1>3

(* The turns of the requests in D end and every one of them is reported.     *)
LEMMA TurnsEnd ==
    ASSUME TurnsInv, pc # "scan",
           UNCHANGED <<config, turn, told, tracked, abandoned, marker, healthy, unreported>>,
           Calling', at' \in Nat, pc' \in {"out", "scan", "body", "drain"},
           NEW D, \A r \in Requests : r \in D => status[r] = "Executable",
           status' = [r \in Requests |-> IF r \in D THEN "TurnComplete" ELSE status[r]],
           Sound(events', status', turn, told),
           \A r \in Requests : r \in D => HasTerminal(events', r),
           \A r \in Requests : HasTerminal(events, r) => HasTerminal(events', r)
    PROVE  TurnsInv'
<1>1. /\ \A r \in Requests : r \in D => status'[r] = "TurnComplete"
      /\ \A r \in Requests : r \notin D => status'[r] = status[r]
  OBVIOUS
<1>2. Types'
  <2>1. status' \in [Requests -> {"Absent", "Unassigned", "Executable", "TurnComplete", "Closed"}]
    BY DEF TurnsInv, Types
  <2> QED BY <2>1 DEF TurnsInv, Types
<1>3. \A r \in Requests : IsOpen(r)' <=> IsOpen(r)
  BY <1>1 DEF IsOpen
<1>4. Tracking'
  <2>1. \A x \in Requests :
            /\ status'[x] \in {"Absent", "Unassigned"} => turn'[x] = 0
            /\ status'[x] \in {"Executable", "TurnComplete"} => turn'[x] # 0
            /\ status'[x] = "Absent" => x \notin abandoned'
    BY <1>1 DEF TurnsInv, Tracking
  <2> QED BY <1>3, <2>1 DEF TurnsInv, Tracking
<1>5. Sound(events, status, turn, told)'
  OBVIOUS
<1>6. Reported'
  <2> SUFFICES ASSUME NEW r \in Requests
               PROVE  /\ \A t \in TurnIds :
                            (t > turn[r] \/ (t = turn[r] /\ status'[r] = "Executable")) => told[r][t] = 0
                      /\ (IsOpen(r)' /\ r \notin abandoned) =>
                            /\ \A t \in TurnIds : t < turn[r] => told[r][t] = 1
                            /\ (status'[r] = "TurnComplete" /\ ~HasTerminal(events', r)
                                    /\ <<r, turn[r]>> \notin unreported') => told[r][turn[r]] = 1
    BY DEF Reported
  <2>1. CASE r \in D
    BY <1>1, <1>3, <2>1 DEF TurnsInv, Reported
  <2>2. CASE r \notin D
    BY <1>1, <1>3, <2>2 DEF TurnsInv, Reported
  <2> QED BY <2>1, <2>2
<1>7. NoLostRelease'
  <2>1. \A x \in abandoned : IsOpen(x)' => IsOpen(x)
    BY <1>3 DEF TurnsInv, Types
  <2> QED BY <2>1, ReleaseKept DEF TurnsInv
<1> QED BY <1>2, <1>4, <1>5, <1>6, <1>7 DEF TurnsInv

(* Before a step nothing is pending, and a running turn has not been told of. *)
LEMMA BeforeStep ==
    ASSUME TurnsInv, CanStep, pc' = "drain", UNCHANGED <<call, at>>
    PROVE  /\ \A r : ~HasTerminal(events, r)
           /\ \A r \in Requests : status[r] = "Executable" =>
                turn[r] \in TurnIds /\ told[r][turn[r]] = 0
           /\ Calling' /\ at' \in Nat /\ pc # "scan"
<1>1. events = <<>> /\ call.op = "Run" /\ pc # "scan"
  BY DEF CanStep, In
<1>2. \A r : ~HasTerminal(events, r)
  BY <1>1 DEF HasTerminal
<1>3. \A r \in Requests : status[r] = "Executable" => turn[r] \in TurnIds
  BY TurnsAssumption DEF TurnsInv, Types, Tracking, TurnIds
<1>4. \A r \in Requests : status[r] = "Executable" => told[r][turn[r]] = 0
  BY <1>3 DEF TurnsInv, Reported
<1>5. Calling' /\ at' \in Nat
  BY <1>1 DEF TurnsInv, Calling, Types
<1> QED BY <1>1, <1>2, <1>3, <1>4, <1>5

(* A step without effect reports one event that is of no request. *)
LEMMA StepWithoutEffectStep ==
    ASSUME TurnsInv, StepWithoutEffect, UNCHANGED <<config, unreported>>
    PROVE  TurnsInv'
<1> DEFINE e == Event(NoRequest, 0, FALSE, "Retry")
<1>1. /\ CanStep /\ events' = <<e>> /\ pc' = "drain" /\ UNCHANGED <<call, at>>
      /\ UNCHANGED <<status, turn, told, tracked, abandoned, marker, healthy>>
  BY DEF StepWithoutEffect, request, handles
<1>2. \A r : ~HasTerminal(events, r)
  BY <1>1, BeforeStep
<1>3. Calling' /\ at' \in Nat /\ pc # "scan"
  BY <1>1, BeforeStep
<1>4. e \in EventSet /\ e.r = NoRequest /\ ~e.done
  BY DEF Event, EventSet, Reasons
<1> HIDE DEF e
<1>5. Sound(events', status', turn, told)
  BY <1>1, <1>4 DEF Sound, Timely
<1>6. status' = [r \in Requests |-> IF r \in {} THEN "TurnComplete" ELSE status[r]]
  BY <1>1 DEF TurnsInv, Types
<1> DEFINE D == {}
<1>7. /\ status' = [r \in Requests |-> IF r \in D THEN "TurnComplete" ELSE status[r]]
      /\ \A r \in Requests : r \in D => status[r] = "Executable"
      /\ \A r \in Requests : r \in D => HasTerminal(events', r)
  BY <1>6
<1> HIDE DEF D
<1> QED BY <1>1, <1>2, <1>3, <1>5, <1>7, TurnsEnd

(* A request that can never be served ends with one terminal. *)
LEMMA StepUnserviceableStep ==
    ASSUME TurnsInv, StepUnserviceable, UNCHANGED <<config, unreported>>
    PROVE  TurnsInv'
<1>1. PICK r \in Executable :
        /\ status' = [status EXCEPT ![r] = "TurnComplete"]
        /\ events' = <<Event(r, turn[r], TRUE, "Failed")>>
  BY DEF StepUnserviceable
<1>2. /\ CanStep /\ pc' = "drain" /\ UNCHANGED <<call, at>>
      /\ UNCHANGED <<turn, told, tracked, abandoned, marker, healthy>>
  BY DEF StepUnserviceable, handles
<1> DEFINE e == Event(r, turn[r], TRUE, "Failed")
           D == {r}
<1>3. r \in Requests /\ status[r] = "Executable"
  BY DEF Executable, IsExecutable
<1>4. \A x : ~HasTerminal(events, x)
  BY <1>2, BeforeStep
<1>5. Calling' /\ at' \in Nat /\ pc # "scan"
  BY <1>2, BeforeStep
<1>6. turn[r] \in TurnIds /\ told[r][turn[r]] = 0 /\ turn[r] \in Nat
  BY <1>2, <1>3, BeforeStep DEF TurnIds
<1>7. e \in EventSet /\ e.r = r /\ e.turn = turn[r] /\ e.done
  BY <1>3, <1>6 DEF Event, EventSet, Reasons
<1> HIDE DEF e
<1>8. events' = <<e>> /\ status'[r] = "TurnComplete" /\ r # NoRequest
  BY <1>1, <1>3, TurnsAssumption DEF e, TurnsInv, Types
<1>9. Sound(events', status', turn, told)
  BY <1>6, <1>7, <1>8 DEF Sound, Timely
<1>10. /\ status' = [x \in Requests |-> IF x \in D THEN "TurnComplete" ELSE status[x]]
       /\ \A x \in Requests : x \in D => status[x] = "Executable"
  BY <1>1, <1>3 DEF TurnsInv, Types
<1>11. \A x \in Requests : x \in D => HasTerminal(events', x)
  BY <1>7, <1>8 DEF HasTerminal
<1> HIDE DEF D
<1> QED BY <1>2, <1>4, <1>5, <1>9, <1>10, <1>11, TurnsEnd

(* A committed step appends the events of its batch. *)
LEMMA StepCommittedStep ==
    ASSUME TurnsInv, StepCommitted, UNCHANGED <<config, unreported>>
    PROVE  TurnsInv'
<1> DEFINE Done(n, batch, x, r) == \E i \in 1 .. n : batch[i] = r /\ x[i].done
           Commits(n, batch, x) ==
                /\ events' = FlattenSeq([i \in 1 .. n |-> StepEvents(batch[i], x[i])])
                /\ status' = [r \in Requests |->
                        IF Done(n, batch, x, r) THEN "TurnComplete" ELSE status[r]]
                /\ finish' = [r \in Requests |->
                        IF Done(n, batch, x, r) THEN "Completed" ELSE finish[r]]
                /\ resident' = resident \cup ToSet(batch)
                /\ replay' = replay \ ToSet(batch)
<1>a. PICK n \in 1 .. MaxBatch : \E batch \in Injection(1 .. n, Executable) :
        \E x \in [1 .. n -> StepResult] : Commits(n, batch, x)
  BY DEF StepCommitted
<1>b. PICK batch \in Injection(1 .. n, Executable) :
        \E x \in [1 .. n -> StepResult] : Commits(n, batch, x)
  <2> HIDE DEF Commits
  <2> QED BY <1>a
<1>c. PICK x \in [1 .. n -> StepResult] : Commits(n, batch, x)
  <2> HIDE DEF Commits
  <2> QED BY <1>b
<1>1. /\ events' = FlattenSeq([i \in 1 .. n |-> StepEvents(batch[i], x[i])])
      /\ status' = [r \in Requests |->
            IF \E i \in 1 .. n : batch[i] = r /\ x[i].done THEN "TurnComplete" ELSE status[r]]
  BY <1>c
<1>2. /\ CanStep /\ pc' = "drain" /\ UNCHANGED <<call, at>>
      /\ UNCHANGED <<turn, told, tracked, abandoned, marker, healthy>>
  BY DEF StepCommitted, handles
<1> DEFINE D == {r \in Requests : \E i \in 1 .. n : batch[i] = r /\ x[i].done}
<1>3. n \in Nat \ {0}
  BY TurnsAssumption DEF TurnsInv, Types, MaxBatch
<1>4. /\ batch \in [1 .. n -> Executable]
      /\ \A i, j \in 1 .. n : batch[i] = batch[j] => i = j
  BY DEF Injection, IsInjective
<1>5. \A r \in Executable : r \in Requests /\ status[r] = "Executable"
  BY DEF Executable, IsExecutable
<1>6. batch \in [1 .. n -> Requests] /\ \A i \in 1 .. n : status[batch[i]] = "Executable"
  BY <1>4, <1>5
<1>7. StepSequence(events', batch, x, n)
  BY <1>1, <1>3, <1>4, <1>6, StepSequences DEF TurnsInv
<1>8. \A r : ~HasTerminal(events, r)
  BY <1>2, BeforeStep
<1>9. Calling' /\ at' \in Nat /\ pc # "scan"
  BY <1>2, BeforeStep
<1>10. \A r \in D : r \in Requests /\ \E i \in 1 .. n : batch[i] = r /\ x[i].done
  OBVIOUS
<1>11. \A r \in Requests : r \in D <=> \E i \in 1 .. n : batch[i] = r /\ x[i].done
  OBVIOUS
<1> HIDE DEF D
<1>12. status' = [r \in Requests |-> IF r \in D THEN "TurnComplete" ELSE status[r]]
  BY <1>1, <1>11
<1>13. \A r \in Requests : r \in D => status[r] = "Executable"
  BY <1>6, <1>11
<1>14. \A r \in Requests : r \in D => HasTerminal(events', r)
  BY <1>7, <1>11 DEF StepSequence
<1>15. ASSUME NEW k \in 1 .. Len(events') PROVE Timely(events'[k], status', turn, told)
  <2>1. PICK i \in 1 .. n : /\ events'[k].r = batch[i] /\ events'[k].turn = turn[batch[i]]
                            /\ events'[k].done => x[i].done
    BY <1>7 DEF StepSequence
  <2>2. batch[i] \in Requests /\ status[batch[i]] = "Executable" /\ batch[i] # NoRequest
    BY <1>6, TurnsAssumption
  <2>3. turn[batch[i]] \in TurnIds /\ told[batch[i]][turn[batch[i]]] = 0
    BY <1>2, <2>2, BeforeStep
  <2>4. /\ status'[batch[i]] \in {"Executable", "TurnComplete"}
        /\ x[i].done => status'[batch[i]] = "TurnComplete"
    BY <1>11, <1>12, <2>2
  <2> QED BY <2>1, <2>2, <2>3, <2>4 DEF Timely
<1>16. Sound(events', status', turn, told)
  BY <1>7, <1>15 DEF Sound, StepSequence
<1> QED BY <1>2, <1>8, <1>9, <1>12, <1>13, <1>14, <1>16, TurnsEnd

(* A cancellation leaves the turn's events sound and its end reported. *)
LEMMA CancelMerge ==
    ASSUME TurnsInv, NEW r \in Requests, NEW t \in TurnIds, CancelRequest(r, t)
    PROVE  /\ Sound(events', status', turn, told)
           /\ HasTerminal(events', r)
           /\ \A x : HasTerminal(events, x) => HasTerminal(events', x)
           /\ Unfinished(events') \subseteq Unfinished(events)
<1> DEFINE list == <<r>>
           M == MergeTerminals(events, list, "Canceled")
<1>1. /\ t = turn[r] /\ status[r] = "Executable"
      /\ status' = [status EXCEPT ![r] = "TurnComplete"] /\ events' = M
  BY DEF CancelRequest, IsExecutable
<1>2. list \in Seq(Requests) /\ Len(list) = 1 /\ list[1] = r /\ ToSet(list) = {r}
  BY DEF ToSet
<1>3. told[r][turn[r]] = 0 /\ turn[r] \in TurnIds
  BY <1>1 DEF TurnsInv, Reported
<1>4. status'[r] = "TurnComplete" /\ \A x \in Requests : x # r => status'[x] = status[x]
  BY <1>1 DEF TurnsInv, Types
<1> HIDE DEF list
<1>5. \A i, j \in 1 .. Len(list) : list[i] = list[j] => i = j
  BY <1>2
<1>6. \A i \in 1 .. Len(list) :
        /\ status[list[i]] = "Executable" /\ status'[list[i]] = "TurnComplete"
        /\ turn[list[i]] \in TurnIds /\ told[list[i]][turn[list[i]]] = 0
  BY <1>1, <1>2, <1>3, <1>4
<1>7. \A i \in 1 .. Len(events) : events[i].r # NoRequest =>
        events[i].r = r \/ status'[events[i].r] = status[events[i].r]
  BY <1>4, SoundOpen DEF TurnsInv
<1>8. /\ "Canceled" \in Reasons /\ Types /\ Sound(events, status, turn, told)
      /\ MayEnd(events, list, status')
  BY <1>1, <1>2, <1>4, <1>5, <1>6, <1>7 DEF Reasons, TurnsInv, MayEnd
<1>9. Sound(M, status', turn, told)
  BY <1>8, MergeSound
<1>10. \A i \in 1 .. Len(list) : HasTerminal(M, list[i])
  BY <1>8, MergeSound
<1>11. \A x : HasTerminal(events, x) => HasTerminal(M, x)
  BY <1>8, MergeSound
<1>12. Unfinished(M) \subseteq Unfinished(events)
  BY <1>8, MergeSound
<1>13. 1 \in 1 .. Len(list)
  BY <1>2
<1> HIDE DEF M
<1> QED BY <1>1, <1>2, <1>9, <1>10, <1>11, <1>12, <1>13

(* Canceling appends a terminal only to a turn that runs. *)
LEMMA CancelRequestStep ==
    ASSUME TurnsInv, NEW r \in Requests, NEW t \in TurnIds, CancelRequest(r, t), UNCHANGED <<config, unreported>>
    PROVE  TurnsInv'
<1> DEFINE D == {r}
<1>1. /\ pc = "out" /\ status[r] = "Executable"
      /\ status' = [status EXCEPT ![r] = "TurnComplete"]
      /\ UNCHANGED <<turn, told, tracked, abandoned, marker, healthy, call, pc, at>>
  BY DEF CancelRequest, IsExecutable, handles, control
<1>2. /\ Sound(events', status', turn, told)
      /\ HasTerminal(events', r)
      /\ \A x : HasTerminal(events, x) => HasTerminal(events', x)
  BY CancelMerge
<1>3. status' = [x \in Requests |-> IF x \in D THEN "TurnComplete" ELSE status[x]]
  BY <1>1 DEF TurnsInv, Types
<1>4. /\ \A x \in Requests : x \in D => status[x] = "Executable"
      /\ \A x \in Requests : x \in D => HasTerminal(events', x)
  BY <1>1, <1>2
<1>5. Calling' /\ at' \in Nat /\ pc' \in {"out", "scan", "body", "drain"}
  BY <1>1 DEF TurnsInv, Calling, Types, Idle
<1> HIDE DEF D
<1> QED BY <1>1, <1>2, <1>3, <1>4, <1>5, TurnsEnd

(* Among the first n events a request has at most one terminal event, of its *)
(* current turn.                                                             *)
LEMMA TerminalsBefore ==
    ASSUME TurnsInv, NEW n \in 0 .. Len(events), NEW r \in Requests, NEW t \in TurnIds,
           NEW S, S = {i \in 1 .. n : events[i].r = r /\ events[i].turn = t /\ events[i].done}
    PROVE  Cardinality(S) = IF t = turn[r] /\ \E i \in 1 .. n : events[i].r = r /\ events[i].done
                            THEN 1 ELSE 0
<1>1. Len(events) \in Nat /\ r # NoRequest
  BY SoundTypes, TurnsAssumption DEF TurnsInv
<1>2. \A i \in 1 .. n : i \in 1 .. Len(events)
  BY <1>1
<1>3. \A i \in 1 .. n : events[i].r = r => events[i].turn = turn[r]
  BY <1>1, <1>2, SoundOpen DEF TurnsInv
<1>4. CASE t = turn[r] /\ \E i \in 1 .. n : events[i].r = r /\ events[i].done
  <2>1. PICK i \in 1 .. n : events[i].r = r /\ events[i].done
    BY <1>4
  <2>2. \A j \in 1 .. n : events[j].r = r /\ events[j].done => j = i
    <3> SUFFICES ASSUME NEW j \in 1 .. n, events[j].r = r, events[j].done, j # i
                 PROVE  FALSE
      OBVIOUS
    <3>1. i \in 1 .. Len(events) /\ j \in 1 .. Len(events) /\ (i < j \/ j < i)
      BY <1>1
    <3> QED BY <2>1, <3>1 DEF TurnsInv, Sound
  <2>3. S = {i}
    BY <1>3, <1>4, <2>1, <2>2
  <2> QED BY <1>4, <2>3, FS_Singleton
<1>5. CASE ~(t = turn[r] /\ \E i \in 1 .. n : events[i].r = r /\ events[i].done)
  <2>1. S = {}
    BY <1>3, <1>5
  <2> QED BY <1>5, <2>1, FS_EmptySet
<1> QED BY <1>4, <1>5

(* Handing out events moves terminals from pending to told. *)
LEMMA DrainPendingEventsStep ==
    ASSUME TurnsInv, DrainPendingEvents, UNCHANGED <<config, unreported>>
    PROVE  TurnsInv'
<1> DEFINE n == IF call.k < Len(events) THEN call.k ELSE Len(events)
           Handed(r) == \E i \in 1 .. n : events[i].r = r /\ events[i].done
           H(r, t) == {i \in 1 .. n : events[i].r = r /\ events[i].turn = t /\ events[i].done}
<1>1. /\ pc = "drain" /\ Return
      /\ events' = SubSeq(events, n + 1, Len(events))
      /\ told' = [r \in Requests |-> [t \in TurnIds |-> told[r][t] + Cardinality(H(r, t))]]
      /\ UNCHANGED <<status, turn, tracked, abandoned, marker, healthy>>
  BY DEF DrainPendingEvents, request, handles
<1>2. events \in Seq(EventSet) /\ Len(events) \in Nat
  BY SoundTypes DEF TurnsInv
<1>3. n \in 0 .. Len(events)
  BY <1>1, <1>2 DEF TurnsInv, Calling
<1> HIDE DEF n
<1>4. \A r \in Requests, t \in TurnIds :
        Cardinality(H(r, t)) = IF t = turn[r] /\ Handed(r) THEN 1 ELSE 0
  BY <1>3, TerminalsBefore
<1>5. \A r \in Requests, t \in TurnIds :
        told'[r][t] = told[r][t] + (IF t = turn[r] /\ Handed(r) THEN 1 ELSE 0)
  <2>1. \A r \in Requests, t \in TurnIds : told'[r][t] = told[r][t] + Cardinality(H(r, t))
    BY <1>1
  <2> HIDE DEF H, Handed
  <2> QED BY <1>4, <2>1
<1>6. told' \in [Requests -> [TurnIds -> Nat]]
  <2>1. told' = [r \in Requests |-> [t \in TurnIds |-> told'[r][t]]]
    BY <1>1
  <2>2. \A r \in Requests, t \in TurnIds : told[r][t] \in Nat
    BY DEF TurnsInv, Types
  <2>3. \A r \in Requests, t \in TurnIds : told'[r][t] \in Nat
    <3> HIDE DEF H, Handed
    <3> QED BY <1>5, <2>2
  <2> QED BY <2>1, <2>3
<1> HIDE DEF H
<1>7. /\ events' \in Seq(EventSet) /\ Len(events') = Len(events) - n
      /\ \A k \in 1 .. Len(events') : events'[k] = events[n + k] /\ n + k \in 1 .. Len(events)
                                       /\ n + k \in n + 1 .. Len(events)
  BY <1>1, <1>2, <1>3
<1>8. Calling' /\ at' \in Nat /\ pc' = "out"
  BY <1>1, ReturnIsIdle
<1>9. Types'
  BY <1>1, <1>6, <1>8 DEF TurnsInv, Types
<1>10. Tracking'
  BY <1>1 DEF TurnsInv, Tracking, IsOpen
<1>11. \A k \in n + 1 .. Len(events) : \A r : events[k].r = r => ~Handed(r)
  BY <1>2, <1>3 DEF TurnsInv, Sound
<1>12. ASSUME NEW k \in 1 .. Len(events') PROVE Timely(events'[k], status', turn', told')
  <2>1. events'[k] = events[n + k] /\ n + k \in 1 .. Len(events) /\ n + k \in n + 1 .. Len(events)
    BY <1>7
  <2> DEFINE e == events[n + k]
  <2>2. Timely(e, status, turn, told)
    BY <2>1 DEF TurnsInv, Sound
  <2>3. CASE e.r = NoRequest
    BY <2>1, <2>2, <2>3 DEF Timely
  <2>4. CASE e.r # NoRequest
    <3>1. e.r \in Requests /\ turn[e.r] \in TurnIds /\ told[e.r][turn[e.r]] = 0
      BY <2>1, <2>4, SoundOpen DEF TurnsInv
    <3>2. ~Handed(e.r)
      BY <1>11, <2>1
    <3> HIDE DEF Handed, e
    <3>3. told'[e.r][turn[e.r]] = 0
      BY <1>5, <3>1, <3>2
    <3> QED BY <1>1, <2>1, <2>2, <2>4, <3>3 DEF Timely, e
  <2> QED BY <2>3, <2>4
<1>13. ASSUME NEW k \in 1 .. Len(events'), NEW l \in 1 .. Len(events'), k < l,
              events'[k].r = events'[l].r
       PROVE  ~events'[k].done
  <2>1. /\ n + k \in 1 .. Len(events) /\ n + l \in 1 .. Len(events) /\ n + k < n + l
        /\ events'[k] = events[n + k] /\ events'[l] = events[n + l]
    BY <1>2, <1>3, <1>7, <1>13
  <2> QED BY <1>13, <2>1 DEF TurnsInv, Sound
<1>14. Sound(events, status, turn, told)'
  BY <1>7, <1>12, <1>13 DEF Sound
<1>15. Reported'
  <2> SUFFICES ASSUME NEW r \in Requests
               PROVE  /\ \A t \in TurnIds :
                            (t > turn[r] \/ (t = turn[r] /\ status[r] = "Executable")) => told'[r][t] = 0
                      /\ (IsOpen(r) /\ r \notin abandoned) =>
                            /\ \A t \in TurnIds : t < turn[r] => told'[r][t] = 1
                            /\ (status[r] = "TurnComplete" /\ ~HasTerminal(events', r)
                                    /\ <<r, turn[r]>> \notin unreported) => told'[r][turn[r]] = 1
    BY <1>1 DEF Reported, IsOpen
  <2>1. Handed(r) => HasTerminal(events, r) /\ status[r] = "TurnComplete" /\ turn[r] \in TurnIds
                        /\ told[r][turn[r]] = 0
    <3> SUFFICES ASSUME NEW i \in 1 .. n, events[i].r = r, events[i].done
                 PROVE  HasTerminal(events, r) /\ status[r] = "TurnComplete" /\ turn[r] \in TurnIds
                        /\ told[r][turn[r]] = 0
      OBVIOUS
    <3>1. i \in 1 .. Len(events) /\ r # NoRequest
      BY <1>2, <1>3, TurnsAssumption
    <3> QED BY <3>1, SoundOpen DEF TurnsInv, HasTerminal
  <2>2. HasTerminal(events, r) /\ ~HasTerminal(events', r) => Handed(r)
    <3> SUFFICES ASSUME NEW i \in 1 .. Len(events), events[i].r = r, events[i].done, i \notin 1 .. n
                 PROVE  HasTerminal(events', r)
      BY DEF HasTerminal
    <3>1. i - n \in 1 .. Len(events') /\ n + (i - n) = i
      BY <1>2, <1>3, <1>7
    <3>2. events'[i - n] = events[i]
      BY <1>7, <3>1
    <3> QED BY <3>1, <3>2 DEF HasTerminal
  <2>3. turn[r] \in Nat /\ \A t \in TurnIds : t \in Nat /\ told[r][t] \in Nat
    <3>1. told \in [Requests -> [TurnIds -> Nat]] /\ turn \in [Requests -> 0 .. MaxTurns]
      BY DEF TurnsInv, Types
    <3> QED BY <3>1, TurnsAssumption DEF TurnIds
  <2> HIDE DEF Handed
  <2>4. ASSUME NEW t \in TurnIds, t > turn[r] \/ (t = turn[r] /\ status[r] = "Executable")
        PROVE  told'[r][t] = 0
    <3>1. told[r][t] = 0
      BY <2>4 DEF TurnsInv, Reported
    <3>2. ~(t = turn[r] /\ Handed(r))
      BY <2>1, <2>3, <2>4
    <3> QED BY <1>5, <3>1, <3>2
  <2>5. ASSUME IsOpen(r), r \notin abandoned, NEW t \in TurnIds, t < turn[r]
        PROVE  told'[r][t] = 1
    <3>1. told[r][t] = 1
      BY <2>5 DEF TurnsInv, Reported
    <3>2. t # turn[r]
      BY <2>3, <2>5
    <3> QED BY <1>5, <3>1, <3>2
  <2>6. ASSUME IsOpen(r), r \notin abandoned, status[r] = "TurnComplete", ~HasTerminal(events', r),
               <<r, turn[r]>> \notin unreported
        PROVE  told'[r][turn[r]] = 1
    <3>1. turn[r] \in TurnIds
      BY <2>6 DEF TurnsInv, Tracking, Types, TurnIds
    <3>2. CASE Handed(r)
      BY <1>5, <2>1, <3>1, <3>2
    <3>3. CASE ~Handed(r)
      <4>1. told[r][turn[r]] = 1
        BY <2>2, <2>6, <3>3 DEF TurnsInv, Reported
      <4> QED BY <1>5, <3>1, <3>3, <4>1
    <3> QED BY <3>2, <3>3
  <2> QED BY <2>4, <2>5, <2>6
<1>16. NoLostRelease'
  BY <1>1, ReleaseKept DEF TurnsInv, IsOpen
<1> QED BY <1>8, <1>9, <1>10, <1>14, <1>15, <1>16 DEF TurnsInv

-----------------------------------------------------------------------------
(* The room for the events of a failure. *)

(* While the Engine is healthy the room is enough for the events of a step,  *)
(* a terminal event of every request and one event without a request; what   *)
(* is pending and not terminal came from one step.                           *)
RoomInv ==
    /\ fatalRoom \in Nat
    /\ healthy => /\ fatalRoom >= MaxStepEvents + Len(tracked) + 1
                  /\ Cardinality(Unfinished(events)) <= MaxStepEvents

(* A union has at most as many elements as its parts together. *)
LEMMA UnionBound ==
    ASSUME NEW S, NEW T, IsFiniteSet(S), IsFiniteSet(T)
    PROVE  /\ IsFiniteSet(S \cup T) /\ Cardinality(S \cup T) \in Nat
           /\ Cardinality(S \cup T) <= Cardinality(S) + Cardinality(T)
<1>1. /\ IsFiniteSet(S \cup T)
      /\ Cardinality(S \cup T) = Cardinality(S) + Cardinality(T) - Cardinality(S \cap T)
  BY FS_Union
<1>2. IsFiniteSet(S \cap T)
  <2>1. (S \cap T) \in SUBSET S
    OBVIOUS
  <2> QED BY <2>1, FS_Subset
<1>3. /\ Cardinality(S) \in Nat /\ Cardinality(T) \in Nat /\ Cardinality(S \cap T) \in Nat
      /\ Cardinality(S \cup T) \in Nat
  BY <1>1, <1>2, FS_CardinalityType
<1> QED BY <1>1, <1>3

(* The first n numbers are n. *)
LEMMA FirstNumbers ==
    ASSUME NEW n \in Nat
    PROVE  IsFiniteSet(1 .. n) /\ Cardinality(1 .. n) = n
<1>1. 1 \in Int /\ n \in Int
  OBVIOUS
<1>2. IsFiniteSet(1 .. n) /\ Cardinality(1 .. n) = IF 1 > n THEN 0 ELSE n - 1 + 1
  BY <1>1, FS_Interval
<1> QED BY <1>2

(* Events that are not terminals can be counted. *)
LEMMA UnfinishedFinite ==
    ASSUME NEW evs, Len(evs) \in Nat
    PROVE  /\ IsFiniteSet(Unfinished(evs)) /\ Cardinality(Unfinished(evs)) \in Nat
           /\ Cardinality(Unfinished(evs)) <= Len(evs)
<1>1. IsFiniteSet(1 .. Len(evs)) /\ Cardinality(1 .. Len(evs)) = Len(evs)
  BY FirstNumbers
<1>2. Unfinished(evs) \in SUBSET (1 .. Len(evs))
  BY DEF Unfinished
<1> QED BY <1>1, <1>2, FS_Subset, FS_CardinalityType

(* Removing events adds no event that is not a terminal. *)
LEMMA KeptUnfinished ==
    ASSUME NEW evs \in Seq(EventSet), NEW kept
    PROVE  Cardinality(Unfinished(Kept(evs, kept))) <= Cardinality(Unfinished(evs))
<1> DEFINE t == Kept(evs, kept)
<1>1. PICK m : Numbers(m, t, evs, kept)
  BY KeptNumbers
<1>2. t \in Seq(EventSet) /\ Len(t) \in Nat
  BY KeptNumbers
<1> HIDE DEF t
<1> DEFINE S == Unfinished(t)
           T == Unfinished(evs)
           f == [k \in S |-> m[k]]
<1>3. \A k \in S : k \in 1 .. Len(t) /\ m[k] \in T
  BY <1>1 DEF Numbers, Unfinished
<1>4. \A k, l \in S : m[k] = m[l] => k = l
  BY <1>1, <1>2, <1>3 DEF Numbers
<1>5. IsFiniteSet(T)
  BY UnfinishedFinite
<1> HIDE DEF S, T
<1>6. f \in Injection(S, T)
  BY <1>3, <1>4 DEF Injection, IsInjective
<1>7. Cardinality(S) <= Cardinality(T)
  BY <1>5, <1>6, FS_Injection
<1> QED BY <1>7 DEF S, T, t

(* Removing events makes a sequence no longer. *)
LEMMA KeptShorter ==
    ASSUME NEW E, NEW s \in Seq(E), NEW kept
    PROVE  Len(Kept(s, kept)) <= Len(s)
<1> DEFINE t == Kept(s, kept)
<1>1. PICK m : Numbers(m, t, s, kept)
  BY KeptNumbers
<1>2. t \in Seq(E) /\ Len(t) \in Nat /\ Len(s) \in Nat
  BY KeptNumbers
<1> HIDE DEF t
<1>3. m \in [1 .. Len(t) -> 1 .. Len(s)]
  BY <1>1 DEF Numbers
<1>4. \A k, l \in 1 .. Len(t) : m[k] = m[l] => k = l
  <2>1. \A k, l \in 1 .. Len(t) : k < l => m[k] < m[l]
    BY <1>1 DEF Numbers
  <2> QED BY <1>2, <1>3, <2>1
<1>5. m \in Injection(1 .. Len(t), 1 .. Len(s))
  BY <1>3, <1>4 DEF Injection, IsInjective
<1>6. /\ IsFiniteSet(1 .. Len(s)) /\ Cardinality(1 .. Len(s)) = Len(s)
      /\ Cardinality(1 .. Len(t)) = Len(t)
  BY <1>2, FirstNumbers
<1>7. Cardinality(1 .. Len(t)) <= Cardinality(1 .. Len(s))
  BY <1>5, <1>6, FS_Injection
<1> QED BY <1>6, <1>7 DEF t

(* A failure never reports more than the room holds. *)
LEMMA RoomSuffices ==
    ASSUME TurnsInv, RoomInv
    PROVE  FatalEventsFit
<1> SUFFICES ASSUME healthy, NEW ended \in SUBSET Executable
             PROVE  Len(FatalEvents(events, tracked, ended)) <= fatalRoom
  BY DEF FatalEventsFit
<1> DEFINE F == FatalEvents(events, tracked, ended)
           KE == {i \in DOMAIN events : events[i].r \notin abandoned}
           st == [r \in Requests |-> IF status[r] = "Executable" THEN "TurnComplete" ELSE status[r]]
           last == {Len(F)}
           A == Unfinished(F) \ last
           B == {i \in 1 .. Len(F) : F[i].done}
<1>1. /\ tracked \in Seq(Requests) /\ Sound(events, status, turn, told) /\ events \in Seq(EventSet)
      /\ \A i, j \in 1 .. Len(tracked) : tracked[i] = tracked[j] => i = j
  BY DEF TurnsInv, Types, Tracking, Sound
<1>2. \A i \in 1 .. Len(events) : events[i].r # NoRequest => events[i].r \in ToSet(tracked)
  BY <1>1, SoundOpen, TrackedSet
<1>3. /\ \A r \in Requests : r \in ToSet(tracked) /\ status[r] = "Executable" => st[r] = "TurnComplete"
      /\ \A r \in Requests : r \in ToSet(tracked) /\ status[r] # "Executable" => st[r] = status[r]
      /\ \A r \in Requests : st[r] \notin {"Absent", "Closed"} => IsOpen(r)
  BY DEF IsOpen
<1> HIDE DEF st
<1>a. Failing(events, tracked, st)
  BY <1>1, <1>2, <1>3 DEF Failing
<1>4. Sound(F, st, turn, told)
  BY <1>1, <1>a, FatalSound
<1>5. A \subseteq Unfinished(Kept(events, KE))
  BY <1>1, <1>a, FatalSound
<1> HIDE DEF KE
<1> HIDE DEF F
<1>6. F \in Seq(EventSet) /\ Len(F) \in Nat /\ \A i \in 1 .. Len(F) : F[i].r \in Requests \cup {NoRequest}
  BY <1>4, SoundTypes
<1>7. /\ IsFiniteSet(A) /\ Cardinality(A) \in Nat
      /\ Cardinality(A) <= Cardinality(Unfinished(Kept(events, KE)))
      /\ Cardinality(Unfinished(Kept(events, KE))) \in Nat
  <2>1. Len(Kept(events, KE)) \in Nat
    BY <1>1, KeptNumbers
  <2>2. /\ IsFiniteSet(Unfinished(Kept(events, KE)))
        /\ Cardinality(Unfinished(Kept(events, KE))) \in Nat
    BY <2>1, UnfinishedFinite
  <2>3. A \in SUBSET Unfinished(Kept(events, KE))
    BY <1>5
  <2> HIDE DEF A
  <2> QED BY <2>2, <2>3, FS_Subset, FS_CardinalityType
<1>8. Cardinality(Unfinished(Kept(events, KE))) <= Cardinality(Unfinished(events))
  BY <1>1, KeptUnfinished
<1>9. /\ MaxStepEvents \in Nat /\ Len(tracked) \in Nat /\ fatalRoom \in Nat
      /\ Cardinality(Unfinished(events)) \in Nat
      /\ Cardinality(Unfinished(events)) <= MaxStepEvents
      /\ fatalRoom >= MaxStepEvents + Len(tracked) + 1
  <2>1. MaxStepEvents \in Nat
    BY TurnsAssumption DEF MaxStepEvents, MaxBatch, MaxVisible, TurnsInv, Types
  <2>2. Cardinality(Unfinished(events)) \in Nat
    BY <1>1, UnfinishedFinite
  <2> QED BY <1>1, <2>1, <2>2 DEF RoomInv
<1>10. IsFiniteSet(B) /\ Cardinality(B) \in Nat /\ Cardinality(B) <= Len(tracked)
  <2>1. \A i \in B : i \in 1 .. Len(F) /\ F[i].done /\ Timely(F[i], st, turn, told)
    BY <1>4 DEF Sound
  <2>2. \A i \in B : F[i].r \in Requests /\ IsOpen(F[i].r)
    BY <1>3, <1>6, <2>1 DEF Timely
  <2>3. \A i, j \in B : F[i].r = F[j].r => i = j
    <3> SUFFICES ASSUME NEW i \in B, NEW j \in B, F[i].r = F[j].r, i # j PROVE FALSE
      OBVIOUS
    <3>1. i < j \/ j < i
      BY <1>6
    <3> QED BY <1>4, <2>1, <3>1 DEF Sound
  <2>4. \A r \in Requests : IsOpen(r) => \E k \in 1 .. Len(tracked) : tracked[k] = r
    BY DEF TurnsInv, Tracking
  <2> DEFINE g == [i \in B |-> CHOOSE k \in 1 .. Len(tracked) : tracked[k] = F[i].r]
  <2>5. \A i \in B : g[i] \in 1 .. Len(tracked) /\ tracked[g[i]] = F[i].r
    BY <2>2, <2>4
  <2> HIDE DEF B
  <2>6. g \in [B -> 1 .. Len(tracked)]
    BY <2>5
  <2> HIDE DEF g
  <2>7. g \in Injection(B, 1 .. Len(tracked))
    BY <2>3, <2>5, <2>6 DEF Injection, IsInjective
  <2>8. IsFiniteSet(1 .. Len(tracked)) /\ Cardinality(1 .. Len(tracked)) = Len(tracked)
    BY <1>9, FirstNumbers
  <2> QED BY <2>7, <2>8, FS_Injection, FS_CardinalityType
<1>11. (1 .. Len(F)) \subseteq (A \cup B) \cup last
  BY DEF Unfinished
<1> HIDE DEF A, B, last
<1>12. Len(F) <= Cardinality(A) + Cardinality(B) + 1
  <2>1. IsFiniteSet(last) /\ Cardinality(last) = 1
    BY FS_Singleton DEF last
  <2>2. /\ IsFiniteSet(A \cup B) /\ Cardinality(A \cup B) \in Nat
        /\ Cardinality(A \cup B) <= Cardinality(A) + Cardinality(B)
    BY <1>7, <1>10, UnionBound
  <2>3. /\ IsFiniteSet((A \cup B) \cup last) /\ Cardinality((A \cup B) \cup last) \in Nat
        /\ Cardinality((A \cup B) \cup last) <= Cardinality(A \cup B) + 1
    BY <2>1, <2>2, UnionBound
  <2>4. Cardinality(1 .. Len(F)) = Len(F)
    BY <1>6, FirstNumbers
  <2>5. Cardinality(1 .. Len(F)) <= Cardinality((A \cup B) \cup last)
    BY <1>11, <2>3, FS_Subset
  <2> QED BY <1>6, <1>7, <1>10, <2>2, <2>3, <2>4, <2>5
<1> QED BY <1>6, <1>7, <1>8, <1>9, <1>10, <1>12 DEF F

-----------------------------------------------------------------------------
(* The invariant, and the properties that follow from it. *)

(* A new Engine satisfies the invariant. *)
LEMMA InitTurnsInv == Init => TurnsInv /\ Unreported
<1> SUFFICES ASSUME Init PROVE TurnsInv /\ Unreported
  OBVIOUS
<1> USE DEF Init
<1>1. Types
  <2>1. 0 \in 0 .. MaxTurns /\ 0 \in Nat
    BY TurnsAssumption
  <2>2. /\ turn \in [Requests -> 0 .. MaxTurns] /\ told \in [Requests -> [TurnIds -> Nat]]
        /\ at \in Nat
    BY <2>1
  <2>3. /\ config \in Configurations /\ tracked \in Seq(Requests) /\ abandoned \subseteq Requests
        /\ status \in [Requests -> {"Absent", "Unassigned", "Executable", "TurnComplete", "Closed"}]
        /\ pc \in {"out", "scan", "body", "drain"}
    OBVIOUS
  <2>4. healthy \in BOOLEAN /\ marker \in BOOLEAN
    OBVIOUS
  <2> QED BY <2>2, <2>3, <2>4 DEF Types
<1>2. Tracking
  BY DEF Tracking, IsOpen
<1>3. Calling
  BY DEF Calling, Idle
<1>4. Sound(events, status, turn, told)
  BY DEF Sound
<1>5. Reported
  BY DEF Reported, IsOpen
<1>6. NoLostRelease
  BY DEF NoLostRelease
<1>7. Unreported
  BY DEF Unreported
<1> QED BY <1>1, <1>2, <1>3, <1>4, <1>5, <1>6, <1>7 DEF TurnsInv

(* Every step keeps the invariant. *)
LEMMA NextTurnsInv == TurnsInv /\ Unreported /\ [Next]_vars => TurnsInv'
<1> SUFFICES ASSUME TurnsInv, Unreported, [Next]_vars PROVE TurnsInv'
  OBVIOUS
<1>1. CASE UNCHANGED vars
  <2>1. UNCHANGED <<config, status, turn, tracked, events, told, abandoned, healthy, marker,
                    call, pc, at, unreported>>
    BY <1>1 DEF vars, request, handles, control
  <2>2. healthy' \in BOOLEAN /\ marker' \in BOOLEAN /\ at' \in Nat
        /\ pc' \in {"out", "scan", "body", "drain"}
    BY <2>1 DEF TurnsInv, Types
  <2>3. Calling'
    BY <2>1 DEF TurnsInv, Calling, IsOpen
  <2>4. NoLostRelease'
    BY <2>1 DEF TurnsInv, NoLostRelease, IsOpen
  <2> QED BY <2>1, <2>2, <2>3, <2>4, QuietStep
<1>2. CASE StepCommitFails /\ UNCHANGED config
  BY <1>2, StepCommitFailsStep
<1>3. CASE Steps /\ UNCHANGED <<config, unreported>>
  <2>0. Steps /\ UNCHANGED <<config, unreported>>
    BY <1>3
  <2>1. CASE \E c \in Calls : Enter(c)
    BY <2>0, <2>1, EnterStep
  <2>2. CASE ScanPass
    BY <2>0, <2>2, ScanPassStep
  <2>3. CASE ScanClose
    BY <2>0, <2>3, ScanCloseStep
  <2>4. CASE ScanOutOfMemory
    BY <2>0, <2>4, ScanOutOfMemoryStep
  <2>5. CASE ScanFatal
    BY <2>0, <2>5, ScanFatalStep
  <2>6. CASE ScanDone
    BY <2>0, <2>6, ScanDoneStep
  <2>7. CASE CreateRequest
    BY <2>0, <2>7, CreateRequestStep
  <2>8. CASE BeginTurn
    BY <2>0, <2>8, BeginTurnStep
  <2>9. CASE BeginTurnFatal
    BY <2>0, <2>9, BeginTurnFatalStep
  <2>10. CASE RewindRequestToStartOfTurn
    BY <2>0, <2>10, RewindStep
  <2>11. CASE HasPendingRequests
    BY <2>0, <2>11, HasPendingRequestsStep
  <2>12. CASE RunWithoutStep
    BY <2>0, <2>12, RunWithoutStepStep
  <2>13. CASE StepCommitted
    BY <2>0, <2>13, StepCommittedStep
  <2>14. CASE StepUnserviceable
    BY <2>0, <2>14, StepUnserviceableStep
  <2>15. CASE StepWithoutEffect
    BY <2>0, <2>15, StepWithoutEffectStep
  <2>16. CASE StepThrows
    BY <2>0, <2>16, StepThrowsStep
  <2>17. CASE StepFatal
    BY <2>0, <2>17, StepFatalStep
  <2>18. CASE DrainPendingEvents
    BY <2>0, <2>18, DrainPendingEventsStep
  <2>19. CASE \E r \in Requests, t \in TurnIds : CancelRequest(r, t)
    BY <2>0, <2>19, CancelRequestStep
  <2>20. CASE \E r \in Requests : CloseRequest(r)
    BY <2>0, <2>20, CloseRequestStep
  <2>21. CASE \E r \in Requests : ExternalRelease(r)
    BY <2>0, <2>21, ExternalReleaseStep
  <2> QED BY <2>0, <2>1, <2>2, <2>3, <2>4, <2>5, <2>6, <2>7, <2>8, <2>9, <2>10, <2>11, <2>12,
             <2>13, <2>14, <2>15, <2>16, <2>17, <2>18, <2>19, <2>20, <2>21 DEF Steps
<1> QED BY <1>1, <1>2, <1>3 DEF Next

(* Every step keeps account of the turns that are never reported: there are *)
(* none while the Engine is healthy, and afterwards no turn runs.           *)
LEMMA NextUnreported == TurnsInv /\ Unreported /\ [Next]_vars => Unreported'
<1> SUFFICES ASSUME TurnsInv, Unreported, [Next]_vars PROVE Unreported'
  OBVIOUS
<1>1. ASSUME unreported' = {} PROVE Unreported'
  BY <1>1 DEF Unreported
<1>2. ASSUME UNCHANGED <<unreported, turn, told, healthy>>,
             \A r \in Requests : status'[r] = status[r] \/ status'[r] = "Closed",
             \A r \in Requests : HasTerminal(events', r) => HasTerminal(events, r)
      PROVE  Unreported'
  <2>1. unreported' # {} => ~healthy' /\ \A r \in Requests : status'[r] # "Executable"
    BY <1>2 DEF Unreported
  <2>2. ASSUME NEW r \in Requests, NEW t \in TurnIds, <<r, t>> \in unreported
        PROVE  /\ t = turn'[r] /\ status'[r] \in {"TurnComplete", "Closed"}
               /\ told'[r][t] = 0 /\ ~HasTerminal(events', r)
    BY <1>2, <2>2 DEF Unreported
  <2> QED BY <1>2, <2>1, <2>2 DEF Unreported
<1>3. CASE UNCHANGED vars
  BY <1>2, <1>3 DEF vars, request
<1>4. CASE StepCommitFails /\ UNCHANGED config
  <2>1. PICK batch \in SUBSET Executable : \E ended \in SUBSET batch :
            /\ MarkUnhealthy(events, tracked, ended)
            /\ unreported' = unreported \cup {<<r, turn[r]>> : r \in ended}
    BY <1>4, Zenon DEF StepCommitFails
  <2>2. PICK ended \in SUBSET batch :
            /\ MarkUnhealthy(events, tracked, ended)
            /\ unreported' = unreported \cup {<<r, turn[r]>> : r \in ended}
    BY <2>1
  <2>3. healthy /\ events = <<>> /\ UNCHANGED <<turn, told>>
    BY <1>4 DEF StepCommitFails, CanStep
  <2>4. \A r \in ended : r \in Requests /\ status[r] = "Executable"
    BY <2>1, <2>2 DEF Executable, IsExecutable
  <2>5. unreported' = {<<r, turn[r]>> : r \in ended} /\ ~healthy'
    BY <2>2, <2>3 DEF Unreported, MarkUnhealthy
  <2>6. \A r \in Requests : r \in ToSet(tracked) <=> IsOpen(r)
    BY TrackedSet
  <2>7. /\ \A r \in Requests : status[r] = "Executable" => status'[r] = "TurnComplete"
        /\ \A r \in Requests : status[r] # "Executable" => status'[r] = status[r]
    <3>1. \A r \in Requests : status'[r] =
            IF status[r] = "Executable" /\ r \in ToSet(tracked) THEN "TurnComplete"
            ELSE IF r \notin ToSet(tracked) /\ IsOpen(r) THEN "Closed" ELSE status[r]
      BY <2>2 DEF MarkUnhealthy, FailTurns, IsExecutable
    <3> QED BY <2>6, <3>1 DEF IsOpen
  <2>8. \A r \in Requests : status[r] = "Executable" =>
            turn[r] \in TurnIds /\ told[r][turn[r]] = 0
    <3>1. \A r \in Requests : status[r] = "Executable" => turn[r] \in TurnIds
      BY TurnsAssumption DEF TurnsInv, Types, Tracking, TurnIds
    <3> QED BY <3>1 DEF TurnsInv, Reported
  <2>9. \A r : HasTerminal(events', r) => r \notin ended
    <3>1. /\ Sound(events, status, turn, told) /\ tracked \in Seq(Requests)
          /\ \A i, j \in 1 .. Len(tracked) : tracked[i] = tracked[j] => i = j
          /\ \A i \in 1 .. Len(events) : events[i].r # NoRequest => events[i].r \in ToSet(tracked)
      BY <2>3 DEF TurnsInv, Types, Tracking
    <3>2. \A r : HasTerminal(FatalEvents(events, tracked, ended), r) =>
            HasTerminal(events, r) \/ r \notin ended
      <4>1. Failing(events, tracked, status')
        BY <2>7, <3>1 DEF Failing
      <4> QED BY <3>1, <4>1, FatalSound
    <3>3. \A r : ~HasTerminal(events, r)
      BY <2>3 DEF HasTerminal
    <3> QED BY <2>2, <3>2, <3>3 DEF MarkUnhealthy
  <2>10. unreported' \subseteq Requests \X TurnIds
    BY <2>4, <2>5, <2>8
  <2>11. \A r \in Requests : status'[r] # "Executable"
    BY <2>7
  <2>12. ASSUME NEW r \in Requests, NEW t \in TurnIds, <<r, t>> \in unreported'
         PROVE  /\ t = turn'[r] /\ status'[r] \in {"TurnComplete", "Closed"}
                /\ told'[r][t] = 0 /\ ~HasTerminal(events', r)
    <3>1. r \in ended /\ t = turn[r]
      BY <2>5, <2>12
    <3> QED BY <2>3, <2>4, <2>7, <2>8, <2>9, <3>1
  <2> QED BY <2>5, <2>10, <2>11, <2>12 DEF Unreported
<1>5. CASE Steps /\ UNCHANGED <<config, unreported>>
  <2>1. CASE unreported = {}
    BY <1>1, <1>5, <2>1
  <2>2. CASE unreported # {}
    <3>1. ~healthy /\ \A r \in Requests : ~IsExecutable(r)
      BY <2>2 DEF Unreported, IsExecutable
    <3>2. CASE \/ \E c \in Calls : Enter(c)
               \/ ScanPass \/ ScanOutOfMemory \/ ScanFatal \/ ScanDone \/ CreateRequest
               \/ BeginTurn \/ RewindRequestToStartOfTurn \/ HasPendingRequests
               \/ RunWithoutStep \/ \E r \in Requests : ExternalRelease(r)
      <4>1. UNCHANGED <<status, turn, told, events, healthy>>
        BY <3>1, <3>2 DEF Enter, ScanPass, ScanOutOfMemory, ScanFatal, ScanDone, CreateRequest,
                          BeginTurn, RewindRequestToStartOfTurn, HasPendingRequests,
                          RunWithoutStep, ExternalRelease, request
      <4> QED BY <1>2, <1>5, <4>1
    <3>3. CASE ScanClose \/ \E r \in Requests : CloseRequest(r)
      <4>1. PICK r : Close(r) /\ UNCHANGED <<told, healthy>>
        BY <3>3 DEF ScanClose, CloseRequest
      <4>2. /\ UNCHANGED <<turn, told, healthy>>
            /\ \A x \in Requests : status'[x] = status[x] \/ status'[x] = "Closed"
        BY <4>1 DEF Close, TurnsInv, Types
      <4>3. \A x : HasTerminal(events', x) => HasTerminal(events, x)
        BY <4>1, SoundKept DEF Close, WithoutEventsOf, TurnsInv
      <4> QED BY <1>2, <1>5, <4>2, <4>3
    <3>4. CASE DrainPendingEvents
      <4> DEFINE n == IF call.k < Len(events) THEN call.k ELSE Len(events)
                 H(r, t) == {i \in 1 .. n :
                                events[i].r = r /\ events[i].turn = t /\ events[i].done}
      <4>1. /\ events' = SubSeq(events, n + 1, Len(events)) /\ pc = "drain"
            /\ told' = [r \in Requests |-> [t \in TurnIds |-> told[r][t] + Cardinality(H(r, t))]]
            /\ UNCHANGED <<status, turn, healthy>>
        BY <3>4 DEF DrainPendingEvents, request
      <4>2. events \in Seq(EventSet) /\ Len(events) \in Nat
        BY SoundTypes DEF TurnsInv
      <4>3. n \in 0 .. Len(events)
        BY <4>1, <4>2 DEF TurnsInv, Calling
      <4> HIDE DEF n
      <4>4. \A k \in 1 .. Len(events') : events'[k] = events[n + k] /\ n + k \in 1 .. Len(events)
        BY <4>1, <4>2, <4>3
      <4>5. \A r : HasTerminal(events', r) => HasTerminal(events, r)
        BY <4>4 DEF HasTerminal
      <4>6. ASSUME NEW r \in Requests, NEW t \in TurnIds, <<r, t>> \in unreported
            PROVE  told'[r][t] = 0
        <5>1. ~HasTerminal(events, r) /\ told[r][t] = 0
          BY <4>6 DEF Unreported
        <5>2. H(r, t) = {}
          BY <4>2, <4>3, <5>1 DEF HasTerminal
        <5>3. Cardinality(H(r, t)) = 0
          BY <5>2, FS_EmptySet
        <5>4. told'[r][t] = told[r][t] + Cardinality(H(r, t))
          BY <4>1
        <5> QED BY <5>1, <5>3, <5>4
      <4> QED BY <1>5, <4>1, <4>5, <4>6 DEF Unreported
    <3>5. CASE \/ BeginTurnFatal \/ StepCommitted \/ StepUnserviceable \/ StepWithoutEffect
               \/ StepThrows \/ StepFatal \/ \E r \in Requests, t \in TurnIds : CancelRequest(r, t)
      BY <3>1, <3>5 DEF BeginTurnFatal, StepCommitted, StepUnserviceable, StepWithoutEffect,
                        StepThrows, StepFatal, CanStep, CancelRequest
    <3> QED BY <1>5, <3>2, <3>3, <3>4, <3>5 DEF Steps
  <2> QED BY <2>1, <2>2
<1> QED BY <1>3, <1>4, <1>5 DEF Next

(* Steps that leave the room alone and pend nothing that is not terminal. *)
LEMMA RoomKept ==
    ASSUME TurnsInv, TurnsInv', RoomInv, UNCHANGED <<config, fatalRoom>>, healthy' => healthy,
           healthy' => /\ Len(tracked') <= Len(tracked)
                       /\ Cardinality(Unfinished(events')) <= Cardinality(Unfinished(events))
    PROVE  RoomInv'
<1>1. Len(tracked) \in Nat /\ Len(tracked') \in Nat /\ Len(events) \in Nat /\ Len(events') \in Nat
  BY DEF TurnsInv, Types, Sound
<1>2. Cardinality(Unfinished(events)) \in Nat /\ Cardinality(Unfinished(events')) \in Nat
  BY <1>1, UnfinishedFinite
<1>3. MaxStepEvents \in Nat /\ MaxStepEvents' = MaxStepEvents
  BY TurnsAssumption DEF MaxStepEvents, MaxBatch, MaxVisible, TurnsInv, Types
<1>4. Unfinished(events)' = Unfinished(events')
  BY DEF Unfinished
<1>5. healthy' => /\ fatalRoom' >= MaxStepEvents' + Len(tracked') + 1
                  /\ Cardinality(Unfinished(events')) <= MaxStepEvents'
  BY <1>1, <1>2, <1>3 DEF RoomInv
<1> QED BY <1>4, <1>5 DEF RoomInv

(* Closing a request leaves no more to keep than before. *)
LEMMA CloseRoom ==
    ASSUME TurnsInv, TurnsInv', RoomInv, UNCHANGED <<config, fatalRoom, healthy>>,
           NEW r, Close(r)
    PROVE  RoomInv'
<1>1. tracked \in Seq(Requests) /\ events \in Seq(EventSet)
  BY DEF TurnsInv, Types, Sound
<1>2. Len(tracked') <= Len(tracked)
  BY <1>1, KeptShorter DEF Close, Untracked
<1>3. Cardinality(Unfinished(events')) <= Cardinality(Unfinished(events))
  BY <1>1, KeptUnfinished DEF Close, WithoutEventsOf
<1> QED BY <1>2, <1>3, RoomKept

(* The events of a step. *)
LEMMA StepRoom ==
    ASSUME TurnsInv, TurnsInv', RoomInv, UNCHANGED <<config, fatalRoom, healthy, tracked>>,
           Len(events') <= MaxStepEvents
    PROVE  RoomInv'
<1>1. Len(events') \in Nat
  BY DEF TurnsInv, Sound
<1>2. /\ Cardinality(Unfinished(events')) \in Nat
      /\ Cardinality(Unfinished(events')) <= Len(events')
  BY <1>1, UnfinishedFinite
<1>3. MaxStepEvents \in Nat /\ MaxStepEvents' = MaxStepEvents
  BY TurnsAssumption DEF MaxStepEvents, MaxBatch, MaxVisible, TurnsInv, Types
<1>4. Unfinished(events)' = Unfinished(events')
  BY DEF Unfinished
<1>5. Cardinality(Unfinished(events')) <= MaxStepEvents'
  BY <1>1, <1>2, <1>3
<1> QED BY <1>3, <1>4, <1>5 DEF RoomInv

(* A step has at most MaxStepEvents events. *)
LEMMA StepCommittedRoom ==
    ASSUME TurnsInv, StepCommitted, UNCHANGED <<config, unreported>>
    PROVE  Len(events') <= MaxStepEvents
<1>1. PICK n \in 1 .. MaxBatch : \E batch \in Injection(1 .. n, Executable) :
        \E x \in [1 .. n -> StepResult] :
            events' = FlattenSeq([i \in 1 .. n |-> StepEvents(batch[i], x[i])])
  BY Zenon DEF StepCommitted
<1>2. PICK batch \in Injection(1 .. n, Executable) : \E x \in [1 .. n -> StepResult] :
            events' = FlattenSeq([i \in 1 .. n |-> StepEvents(batch[i], x[i])])
  BY <1>1
<1>3. PICK x \in [1 .. n -> StepResult] :
            events' = FlattenSeq([i \in 1 .. n |-> StepEvents(batch[i], x[i])])
  BY <1>2
<1>4. MaxBatch \in Nat /\ MaxVisible \in Nat
  BY TurnsAssumption DEF TurnsInv, Types, MaxBatch, MaxVisible
<1>5. n \in Nat \ {0} /\ n <= MaxBatch
  BY <1>4
<1>6. \A r \in Executable : r \in Requests
  BY DEF Executable
<1>7. batch \in [1 .. n -> Executable] /\ \A i, j \in 1 .. n : batch[i] = batch[j] => i = j
  BY DEF Injection, IsInjective
<1>8. batch \in [1 .. n -> Requests]
  BY <1>6, <1>7
<1>9. StepSequence(events', batch, x, n)
  BY <1>3, <1>5, <1>7, <1>8, StepSequences DEF TurnsInv
<1>10. Len(events') <= n * MaxVisible /\ Len(events') \in Nat
  BY <1>9 DEF StepSequence
<1>11. n * MaxVisible <= MaxBatch * MaxVisible
  BY <1>4, <1>5
<1> QED BY <1>4, <1>5, <1>10, <1>11 DEF MaxStepEvents

(* A cancellation adds a terminal, which the share of its request pays *)
(* for.                                                                *)
LEMMA CancelRoom ==
    ASSUME TurnsInv, TurnsInv', RoomInv, NEW r \in Requests, NEW t \in TurnIds,
           CancelRequest(r, t), UNCHANGED <<config, unreported>>
    PROVE  RoomInv'
<1>1. UNCHANGED <<tracked, healthy, fatalRoom>>
  BY DEF CancelRequest
<1>2. Len(events) \in Nat /\ Len(tracked) \in Nat
  BY DEF TurnsInv, Types, Sound
<1>3. Unfinished(events') \in SUBSET Unfinished(events)
  BY CancelMerge
<1>4. IsFiniteSet(Unfinished(events))
  BY <1>2, UnfinishedFinite
<1>5. Cardinality(Unfinished(events')) <= Cardinality(Unfinished(events))
  BY <1>3, <1>4, FS_Subset
<1> QED BY <1>1, <1>2, <1>5, RoomKept

(* Handing out events needs no room. *)
LEMMA DrainRoom ==
    ASSUME TurnsInv, TurnsInv', RoomInv, DrainPendingEvents, UNCHANGED <<config, unreported>>
    PROVE  RoomInv'
<1> DEFINE n == IF call.k < Len(events) THEN call.k ELSE Len(events)
           S == Unfinished(events')
           T == Unfinished(events)
           f == [k \in S |-> n + k]
<1>1. /\ events' = SubSeq(events, n + 1, Len(events)) /\ pc = "drain"
      /\ UNCHANGED <<tracked, healthy, fatalRoom>>
  BY DEF DrainPendingEvents, request
<1>2. events \in Seq(EventSet) /\ Len(events) \in Nat /\ Len(tracked) \in Nat
  BY DEF TurnsInv, Types, Sound
<1>3. n \in 0 .. Len(events)
  BY <1>1, <1>2 DEF TurnsInv, Calling
<1> HIDE DEF n
<1>4. \A k \in 1 .. Len(events') : events'[k] = events[n + k] /\ n + k \in 1 .. Len(events)
  BY <1>1, <1>2, <1>3
<1>5. \A k \in S : k \in Int /\ n + k \in T
  BY <1>4 DEF Unfinished
<1>6. \A k, l \in S : n + k = n + l => k = l
  BY <1>3, <1>5
<1>7. IsFiniteSet(T)
  BY <1>2, UnfinishedFinite
<1> HIDE DEF S, T
<1>8. f \in Injection(S, T)
  BY <1>5, <1>6 DEF Injection, IsInjective
<1>9. Cardinality(S) <= Cardinality(T)
  BY <1>7, <1>8, FS_Injection
<1> QED BY <1>1, <1>2, <1>9, RoomKept DEF S, T

(* A new request reserves its room before it is tracked. *)
LEMMA CreateRoom ==
    ASSUME TurnsInv, TurnsInv', RoomInv, CreateRequest, UNCHANGED <<config, unreported>>
    PROVE  RoomInv'
<1>1. tracked \in Seq(Requests) /\ Len(tracked) \in Nat /\ fatalRoom \in Nat
  BY DEF TurnsInv, Types, RoomInv
<1>2. MaxStepEvents \in Nat /\ MaxStepEvents' = MaxStepEvents
  BY TurnsAssumption DEF MaxStepEvents, MaxBatch, MaxVisible, TurnsInv, Types
<1>3. UNCHANGED <<events, healthy>>
  BY DEF CreateRequest
<1>4. CASE ~healthy
  <2>1. UNCHANGED fatalRoom
    BY <1>4 DEF CreateRequest
  <2> QED BY <1>1, <1>3, <1>4, <2>1 DEF RoomInv
<1>5. CASE healthy
  <2>1. /\ tracked' = Append(tracked, call.r)
        /\ fatalRoom' = IF MaxStepEvents + Len(tracked) + 2 > fatalRoom
                        THEN MaxStepEvents + Len(tracked) + 2 ELSE fatalRoom
    BY <1>5 DEF CreateRequest, ReserveFatalRoom
  <2>2. Len(tracked') = Len(tracked) + 1
    BY <1>1, <2>1
  <2>3. fatalRoom' \in Nat /\ fatalRoom' >= MaxStepEvents + Len(tracked') + 1
    BY <1>1, <1>2, <2>1, <2>2
  <2> QED BY <1>2, <1>3, <1>5, <2>3 DEF RoomInv, Unfinished
<1> QED BY <1>4, <1>5

(* Every step keeps the room a failure needs. *)
LEMMA NextRoomInv == TurnsInv /\ Unreported /\ RoomInv /\ [Next]_vars => RoomInv'
<1> SUFFICES ASSUME TurnsInv, Unreported, RoomInv, [Next]_vars PROVE RoomInv'
  OBVIOUS
<1>1. TurnsInv'
  BY NextTurnsInv
<1>2. ASSUME UNCHANGED <<config, tracked, events, healthy, fatalRoom>> PROVE RoomInv'
  BY <1>2 DEF RoomInv, MaxStepEvents, MaxBatch, MaxVisible, Unfinished
<1>3. ASSUME UNCHANGED fatalRoom, ~healthy' PROVE RoomInv'
  BY <1>3 DEF RoomInv
<1>4. CASE UNCHANGED vars
  BY <1>2, <1>4 DEF vars, request
<1>5. CASE StepCommitFails
  BY <1>3, <1>5 DEF StepCommitFails, MarkUnhealthy
<1>6. CASE Steps /\ UNCHANGED <<config, unreported>>
  <2>0. Steps /\ UNCHANGED <<config, unreported>>
    BY <1>6
  <2>1. CASE \/ \E c \in Calls : Enter(c)
             \/ ScanPass \/ ScanOutOfMemory \/ ScanDone \/ BeginTurn
             \/ RewindRequestToStartOfTurn \/ HasPendingRequests \/ RunWithoutStep
             \/ StepThrows \/ \E r \in Requests : ExternalRelease(r)
    <3>1. UNCHANGED <<tracked, events, healthy, fatalRoom>>
      BY <2>1 DEF Enter, ScanPass, ScanOutOfMemory, ScanDone, BeginTurn,
                  RewindRequestToStartOfTurn, HasPendingRequests, RunWithoutStep, StepThrows,
                  ExternalRelease, request
    <3> QED BY <1>2, <2>0, <3>1
  <2>2. CASE ScanClose \/ \E r \in Requests : CloseRequest(r)
    <3>1. PICK r : Close(r) /\ UNCHANGED <<fatalRoom, healthy>>
      BY <2>2 DEF ScanClose, CloseRequest
    <3> QED BY <1>1, <2>0, <3>1, CloseRoom
  <2>3. CASE ScanFatal
    <3>1. CASE healthy
      BY <1>3, <2>3, <3>1 DEF ScanFatal, MarkUnhealthy
    <3>2. CASE ~healthy
      BY <1>3, <2>3, <3>2 DEF ScanFatal
    <3> QED BY <3>1, <3>2
  <2>4. CASE BeginTurnFatal
    BY <1>3, <2>4 DEF BeginTurnFatal, MarkUnhealthy
  <2>5. CASE StepFatal
    BY <1>3, <2>5 DEF StepFatal, MarkUnhealthy
  <2>6. CASE CreateRequest
    BY <1>1, <2>0, <2>6, CreateRoom
  <2>7. CASE StepCommitted
    <3>1. Len(events') <= MaxStepEvents
      BY <2>0, <2>7, StepCommittedRoom
    <3>2. UNCHANGED <<fatalRoom, healthy, tracked>>
      BY <2>7 DEF StepCommitted
    <3> QED BY <1>1, <2>0, <3>1, <3>2, StepRoom
  <2>8. CASE StepUnserviceable \/ StepWithoutEffect
    <3>1. Len(events') = 1 /\ UNCHANGED <<fatalRoom, healthy, tracked>>
      BY <2>8 DEF StepUnserviceable, StepWithoutEffect, request
    <3>2. MaxBatch \in Nat \ {0} /\ MaxVisible \in Nat \ {0}
      BY TurnsAssumption DEF TurnsInv, Types, MaxBatch, MaxVisible
    <3>3. 1 <= MaxBatch * MaxVisible
      BY <3>2
    <3> QED BY <1>1, <2>0, <3>1, <3>3, StepRoom DEF MaxStepEvents
  <2>9. CASE DrainPendingEvents
    BY <1>1, <2>0, <2>9, DrainRoom
  <2>10. CASE \E r \in Requests, t \in TurnIds : CancelRequest(r, t)
    BY <1>1, <2>0, <2>10, CancelRoom
  <2> QED BY <2>0, <2>1, <2>2, <2>3, <2>4, <2>5, <2>6, <2>7, <2>8, <2>9, <2>10 DEF Steps
<1> QED BY <1>4, <1>5, <1>6 DEF Next

(* What Engine keeps of its requests, turns, events and handles is           *)
(* consistent between any two steps of the owner and of the threads that     *)
(* release handles: engine.cpp's Run, CreateRequest, BeginTurn,              *)
(* CancelRequest, CloseRequest and ReclaimAbandonedRequests preserve it,     *)
(* wherever they fail, and the only turns that end unreported are those      *)
(* CommitStep completes in a step that fails before its events are staged.   *)
THEOREM TurnsInvariance == Spec => [](TurnsInv /\ Unreported)
<1>1. Init => TurnsInv /\ Unreported
  BY InitTurnsInv
<1>2. TurnsInv /\ Unreported /\ [Next]_vars => (TurnsInv /\ Unreported)'
  BY NextTurnsInv, NextUnreported
<1> QED BY <1>1, <1>2, PTL DEF Spec

(* Every turn that ends, by completion, cancellation, a failure of its own   *)
(* or of the Engine, is reported to the owner by exactly one terminal event, *)
(* pending in Engine::pending_events_ or handed out by DrainPendingEvents,   *)
(* except that a turn CommitStep completes in a step that fails before       *)
(* AppendEventsFromStep has none, ever, and that Engine is unhealthy.        *)
THEOREM TerminalsAreExact == Spec => []OneTerminalPerTurn
<1>1. TurnsInv /\ Unreported => OneTerminalPerTurn
  <2> SUFFICES ASSUME TurnsInv, Unreported, NEW r \in Requests, IsOpen(r), r \notin abandoned,
                      NEW t \in TurnIds
               PROVE  told[r][t] + PendingTerminals(r, t) =
                        IF Ended(r, t) /\ <<r, t>> \notin unreported THEN 1 ELSE 0
    BY DEF OneTerminalPerTurn, Unreported
  <2> DEFINE S == {i \in 1 .. Len(events) :
                    events[i].r = r /\ events[i].turn = t /\ events[i].done}
  <2>1. Len(events) \in Nat /\ DOMAIN events = 1 .. Len(events)
    BY SoundTypes DEF TurnsInv
  <2>2. Cardinality(S) = IF t = turn[r] /\ HasTerminal(events, r) THEN 1 ELSE 0
    <3>1. Len(events) \in 0 .. Len(events)
      BY <2>1
    <3> QED BY <3>1, TerminalsBefore DEF HasTerminal
  <2>3. PendingTerminals(r, t) = Cardinality(S)
    BY <2>1 DEF PendingTerminals
  <2> HIDE DEF S
  <2>4. turn[r] \in Nat /\ t \in Nat
    BY TurnsAssumption DEF TurnsInv, Types, TurnIds
  <2>a. /\ t > turn[r] \/ (t = turn[r] /\ status[r] = "Executable") => told[r][t] = 0
        /\ t < turn[r] => told[r][t] = 1
    BY DEF TurnsInv, Reported
  <2>5. HasTerminal(events, r) => status[r] = "TurnComplete" /\ told[r][turn[r]] = 0
    <3>1. r # NoRequest
      BY TurnsAssumption
    <3> QED BY <3>1, SoundOpen DEF TurnsInv, HasTerminal
  <2>6. CASE t > turn[r]
    <3>1. told[r][t] = 0 /\ ~Ended(r, t)
      BY <2>4, <2>6, <2>a DEF Ended
    <3> QED BY <2>2, <2>3, <2>4, <2>6, <3>1
  <2>7. CASE t < turn[r]
    <3>1. told[r][t] = 1 /\ Ended(r, t) /\ <<r, t>> \notin unreported
      BY <2>4, <2>7, <2>a DEF Ended, Unreported
    <3> QED BY <2>2, <2>3, <2>4, <2>7, <3>1
  <2>8. CASE t = turn[r] /\ status[r] = "TurnComplete"
    <3>1. CASE <<r, t>> \notin unreported
      <4>1. Ended(r, t) /\ (~HasTerminal(events, r) => told[r][t] = 1)
        BY <2>8, <3>1 DEF TurnsInv, Reported, Ended
      <4> QED BY <2>2, <2>3, <2>5, <2>8, <3>1, <4>1
    <3>2. CASE <<r, t>> \in unreported
      <4>1. told[r][t] = 0 /\ ~HasTerminal(events, r)
        BY <3>2 DEF Unreported
      <4> QED BY <2>2, <2>3, <3>2, <4>1
    <3> QED BY <3>1, <3>2
  <2>9. CASE t = turn[r] /\ status[r] # "TurnComplete"
    <3>1. status[r] = "Executable"
      <4>1. turn[r] # 0
        BY <2>9 DEF TurnIds
      <4> QED BY <2>9, <4>1 DEF TurnsInv, Types, Tracking, IsOpen
    <3>2. told[r][t] = 0 /\ ~Ended(r, t)
      BY <2>4, <2>9, <2>a, <3>1 DEF Ended
    <3> QED BY <2>2, <2>3, <2>5, <2>9, <3>2
  <2> QED BY <2>4, <2>6, <2>7, <2>8, <2>9
<1> QED BY <1>1, TurnsInvariance, PTL

(* The owner hears nothing of a turn after its terminal event: the events    *)
(* that wait in Engine::pending_events_ behind one are of other turns.       *)
THEOREM TerminalsComeLast == Spec => []NothingAfterTerminal
<1>1. TurnsInv => NothingAfterTerminal
  <2> SUFFICES ASSUME TurnsInv, NEW i \in DOMAIN events, events[i].r # NoRequest
               PROVE  /\ told[events[i].r][events[i].turn] = 0
                      /\ \A j \in i + 1 .. Len(events) :
                            (events[j].r = events[i].r /\ events[j].turn = events[i].turn)
                                => ~events[i].done
    BY DEF NothingAfterTerminal
  <2>1. Len(events) \in Nat /\ i \in 1 .. Len(events)
    BY SoundTypes DEF TurnsInv
  <2>2. told[events[i].r][events[i].turn] = 0
    BY <2>1, SoundOpen DEF TurnsInv
  <2>3. \A j \in i + 1 .. Len(events) : j \in 1 .. Len(events) /\ i < j
    BY <2>1
  <2> QED BY <2>1, <2>2, <2>3 DEF TurnsInv, Sound
<1> QED BY <1>1, TurnsInvariance, PTL

(* No call makes a pending event stale: CloseRequest takes the events of its *)
(* request away, and BeginTurn waits until those of the last turn are gone.  *)
THEOREM EventsAreCurrent == Spec => []PendingEventsAreCurrent
<1>1. TurnsInv => PendingEventsAreCurrent
  <2> SUFFICES ASSUME TurnsInv, NEW i \in DOMAIN events, events[i].r # NoRequest
               PROVE  IsOpen(events[i].r) /\ events[i].turn = turn[events[i].r]
    BY DEF PendingEventsAreCurrent
  <2>1. i \in 1 .. Len(events)
    BY SoundTypes DEF TurnsInv
  <2> QED BY <2>1, SoundOpen DEF TurnsInv
<1> QED BY <1>1, TurnsInvariance, PTL

(* A handle released on any thread at any time, also while                   *)
(* ReclaimAbandonedRequests is looking, is never forgotten by a healthy      *)
(* Engine.                                                                   *)
THEOREM ReleasesAreKept == Spec => []NoLostRelease
<1>1. TurnsInv => NoLostRelease
  BY DEF TurnsInv
<1> QED BY <1>1, TurnsInvariance, PTL

(* The room CreateRequest reserves in Engine::fatal_events_ holds whatever   *)
(* MarkUnhealthyAndThrow would have to keep, at any time a failure may come  *)
(* and whichever turns the step has completed: reporting it never allocates. *)
THEOREM FatalReportsFit == Spec => []FatalEventsFit
<1>1. Init => RoomInv
  <2> SUFFICES ASSUME Init PROVE RoomInv
    OBVIOUS
  <2>1. MaxStepEvents \in Nat
    BY TurnsAssumption DEF Init, MaxStepEvents, MaxBatch, MaxVisible
  <2>2. Unfinished(events) = {}
    BY DEF Init, Unfinished
  <2>3. Len(tracked) = 0 /\ fatalRoom = MaxStepEvents + 1
    BY DEF Init
  <2> QED BY <2>1, <2>2, <2>3, FS_EmptySet DEF RoomInv
<1>2. TurnsInv /\ Unreported /\ RoomInv /\ [Next]_vars => RoomInv'
  BY NextRoomInv
<1>3. TurnsInv /\ RoomInv => FatalEventsFit
  BY RoomSuffices
<1> QED BY <1>1, <1>2, <1>3, TurnsInvariance, PTL DEF Spec
=============================================================================
