----------------------------- MODULE FoldFacts -----------------------------
(***************************************************************************)
(* What FoldLeft computes, for any operator op: the last of a run of       *)
(* values, each made from the one before it and an element of the          *)
(* sequence.  FoldLeft is a choice of a function on sets of positions, so  *)
(* that there is such a function has to be proved first.  A module that    *)
(* folds an operator of its own instantiates this one with it.             *)
(***************************************************************************)
EXTENDS Integers, Sequences, SequencesExt, NaturalsInduction, WellFoundedInduction, TLAPS

CONSTANT op(_, _)

\* Induction, for a set of numbers
LEMMA SetInduction ==
    ASSUME NEW S, 0 \in S, \A k \in Nat : k \in S => k + 1 \in S
    PROVE  Nat \subseteq S
<1> DEFINE R == {ss \in Nat \X Nat : ss[1] < ss[2]}
           T == Nat \ S
<1>1. IsWellFoundedOn(R, Nat)
  BY NatLessThanWellFounded, Zenon DEF OpToRel
<1> HIDE DEF R
<1> SUFFICES ASSUME T # {} PROVE FALSE
  OBVIOUS
<1>2. PICK x \in T : \A y \in T : <<y, x>> \notin R
  <2>1. T \subseteq Nat
    OBVIOUS
  <2> HIDE DEF T
  <2> QED BY <1>1, <2>1, WFMin, Zenon
<1>3. x \in Nat /\ x # 0 /\ x \notin S
  BY <1>2
<1>4. x - 1 \in Nat /\ x - 1 < x /\ (x - 1) + 1 = x
  BY <1>3
<1>5. <<x - 1, x>> \in R
  BY <1>3, <1>4 DEF R
<1>6. x - 1 \notin T
  BY <1>2, <1>5
<1>7. x - 1 \in S
  BY <1>4, <1>6
<1> QED BY <1>3, <1>4, <1>7

LEMMA MaxOf ==
    ASSUME NEW k \in Int, NEW T \in SUBSET Int, k \in T, \A y \in T : y <= k
    PROVE  Max(T) = k
<1>1. \E x \in T : \A y \in T : x >= y
  OBVIOUS
<1>2. Max(T) \in T /\ \A y \in T : Max(T) >= y
  BY <1>1, Zenon DEF Max
<1>3. Max(T) >= k /\ Max(T) <= k /\ Max(T) \in Int
  BY <1>2
<1> QED BY <1>3

\* An element of a set of positions that has the greatest
LEMMA MaxExists ==
    ASSUME NEW k \in Nat, NEW T \in SUBSET (1 .. k), T # {}
    PROVE  Max(T) \in T /\ \A y \in T : y <= Max(T)
<1> DEFINE S == {m \in Nat : \A U \in SUBSET (1 .. m) : U # {} => \E x \in U : \A y \in U : y <= x}
<1>1. 0 \in S
  <2>1. 1 .. 0 = {}
    OBVIOUS
  <2> QED BY <2>1
<1>2. ASSUME NEW m \in Nat, m \in S PROVE m + 1 \in S
  <2> SUFFICES ASSUME NEW U \in SUBSET (1 .. m + 1), U # {}
               PROVE  \E x \in U : \A y \in U : y <= x
    OBVIOUS
  <2>1. CASE m + 1 \in U
    BY <2>1
  <2>2. CASE m + 1 \notin U
    <3>1. U \in SUBSET (1 .. m)
      BY <2>2
    <3> QED BY <1>2, <3>1
  <2> QED BY <2>1, <2>2
<1> HIDE DEF S
<1>3. k \in S
  BY <1>1, <1>2, SetInduction
<1>4. PICK x \in T : \A y \in T : y <= x
  BY <1>3 DEF S
<1>5. Max(T) = x
  BY <1>4, MaxOf
<1> QED BY <1>4, <1>5

-----------------------------------------------------------------------------

\* The function FoldLeft chooses, on the sets of positions up to k
IsFold(f, b, s, k) ==
    f = [T \in SUBSET (1 .. k) |->
            IF T = {} THEN b ELSE op(f[T \ {Max(T)}], s[Max(T)])]

LEMMA FoldExists ==
    ASSUME NEW b, NEW s, NEW k \in Nat
    PROVE  \E f : IsFold(f, b, s, k)
<1> DEFINE Is(f, m) == IsFold(f, b, s, m)
           S == {m \in Nat : \E f : Is(f, m)}
<1> USE DEF IsFold
<1>1. 0 \in S
  <2> DEFINE f == [T \in SUBSET (1 .. 0) |-> b]
  <2>1. \A T \in SUBSET (1 .. 0) : T = {}
    OBVIOUS
  <2>2. Is(f, 0)
    BY <2>1
  <2> QED BY <2>2
<1>2. ASSUME NEW m \in Nat, m \in S PROVE m + 1 \in S
  <2>1. PICK f : Is(f, m)
    BY <1>2
  <2>a. ASSUME NEW T \in SUBSET (1 .. m)
        PROVE  f[T] = IF T = {} THEN b ELSE op(f[T \ {Max(T)}], s[Max(T)])
    BY <2>1
  <2> DEFINE g == [T \in SUBSET (1 .. m + 1) |->
                     IF m + 1 \in T THEN op(f[T \ {m + 1}], s[m + 1]) ELSE f[T]]
             h == [T \in SUBSET (1 .. m + 1) |->
                     IF T = {} THEN b ELSE op(g[T \ {Max(T)}], s[Max(T)])]
  <2>2. ASSUME NEW T \in SUBSET (1 .. m + 1) PROVE g[T] = h[T]
    <3>1. CASE m + 1 \in T
      <4>1. Max(T) = m + 1
        BY <3>1, MaxOf
      <4>2. T \ {m + 1} \in SUBSET (1 .. m + 1) /\ m + 1 \notin T \ {m + 1}
        OBVIOUS
      <4>3. g[T \ {m + 1}] = f[T \ {m + 1}]
        BY <4>2
      <4>4. g[T] = op(f[T \ {m + 1}], s[m + 1])
        BY <3>1
      <4>5. h[T] = op(g[T \ {m + 1}], s[m + 1])
        BY <3>1, <4>1
      <4> QED BY <4>3, <4>4, <4>5
    <3>2. CASE m + 1 \notin T /\ T # {}
      <4>1. T \in SUBSET (1 .. m)
        BY <3>2
      <4>2. T \ {Max(T)} \in SUBSET (1 .. m + 1) /\ m + 1 \notin T \ {Max(T)}
        BY <3>2
      <4>3. g[T \ {Max(T)}] = f[T \ {Max(T)}]
        BY <4>2
      <4>4. g[T] = f[T]
        BY <3>2
      <4>5. h[T] = op(g[T \ {Max(T)}], s[Max(T)])
        BY <3>2
      <4> QED BY <2>a, <3>2, <4>1, <4>3, <4>4, <4>5
    <3>3. CASE T = {}
      <4>1. T \in SUBSET (1 .. m) /\ m + 1 \notin T
        BY <3>3
      <4> QED BY <2>a, <3>3, <4>1
    <3> QED BY <3>1, <3>2, <3>3
  <2>3. g = h
    BY <2>2
  <2>4. Is(g, m + 1)
    BY <2>3
  <2> HIDE DEF g, h, Is
  <2> QED BY <2>4
<1> HIDE DEF Is
<1>3. k \in S
  <2> HIDE DEF S
  <2> QED BY <1>1, <1>2, SetInduction
<1>4. PICK f : Is(f, k)
  BY <1>3
<1> QED BY <1>4 DEF Is

\* FoldLeft(op, b, s), without op as an argument
Fold(b, s, n) == (CHOOSE f : IsFold(f, b, s, n))[1 .. n]

LEMMA FoldIsFoldLeft ==
    ASSUME NEW n \in Nat, NEW b, NEW s, DOMAIN s = 1 .. n
    PROVE  FoldLeft(op, b, s) = Fold(b, s, n)
BY DEF FoldLeft, MapThenFoldSet, Fold, IsFold

\* Values made one from another along a sequence of n elements
IsRun(run, b, s, n) ==
    run[0] = b /\ \A i \in 1 .. n : run[i] = op(run[i - 1], s[i])

\* A fold is the end of a run along the sequence
THEOREM FoldRuns ==
    ASSUME NEW n \in Nat, NEW b, NEW s, DOMAIN s = 1 .. n
    PROVE  \E run : IsRun(run, b, s, n) /\ run[n] = Fold(b, s, n)
<1> DEFINE iter == CHOOSE f : IsFold(f, b, s, n)
           run  == [i \in 0 .. n |-> iter[1 .. i]]
<1>1. IsFold(iter, b, s, n)
  BY FoldExists, Zenon
<1>2. Fold(b, s, n) = iter[1 .. n]
  BY DEF Fold
<1> HIDE DEF iter
<1> USE DEF IsFold
<1>3. run[0] = b
  <2>1. 1 .. 0 = {} /\ {} \in SUBSET (1 .. n)
    OBVIOUS
  <2>2. iter[{}] = b
    BY <1>1, <2>1
  <2> QED BY <2>1, <2>2
<1>4. ASSUME NEW i \in 1 .. n PROVE run[i] = op(run[i - 1], s[i])
  <2>1. 1 .. i \in SUBSET (1 .. n) /\ 1 .. i # {} /\ (1 .. i) \ {i} = 1 .. (i - 1)
        /\ i - 1 \in 0 .. n /\ i \in 0 .. n
    <3>1. \A x \in Int : x \in (1 .. i) \ {i} <=> x \in 1 .. (i - 1)
      OBVIOUS
    <3>2. (1 .. i) \ {i} \subseteq Int /\ 1 .. (i - 1) \subseteq Int
      OBVIOUS
    <3>3. (1 .. i) \ {i} = 1 .. (i - 1)
      BY <3>1, <3>2
    <3> QED BY <3>3
  <2>2. Max(1 .. i) = i
    <3>1. 1 .. i \in SUBSET Int /\ i \in 1 .. i /\ i \in Int /\ \A y \in 1 .. i : y <= i
      OBVIOUS
    <3> QED BY <3>1, MaxOf
  <2>3. iter[1 .. i] = op(iter[(1 .. i) \ {i}], s[i])
    BY <1>1, <2>1, <2>2
  <2> QED BY <2>1, <2>3
<1>5. run[n] = Fold(b, s, n)
  BY <1>2
<1>6. IsRun(run, b, s, n)
  BY <1>3, <1>4 DEF IsRun
<1> QED BY <1>5, <1>6

\* A fold over one element more
THEOREM FoldAppend ==
    ASSUME NEW n \in Nat, NEW b, NEW s, NEW t, DOMAIN s = 1 .. n, DOMAIN t = 1 .. n + 1,
           \A i \in 1 .. n : s[i] = t[i]
    PROVE  Fold(b, t, n + 1) = op(Fold(b, s, n), t[n + 1])
<1>1. PICK p : IsRun(p, b, s, n) /\ p[n] = Fold(b, s, n)
  BY FoldRuns
<1>2. PICK q : IsRun(q, b, t, n + 1) /\ q[n + 1] = Fold(b, t, n + 1)
  BY FoldRuns
<1> DEFINE S == {m \in Nat : m <= n => p[m] = q[m]}
<1>3. 0 \in S
  BY <1>1, <1>2 DEF IsRun
<1>4. ASSUME NEW m \in Nat, m \in S PROVE m + 1 \in S
  <2> SUFFICES ASSUME m + 1 <= n PROVE p[m + 1] = q[m + 1]
    OBVIOUS
  <2>1. m + 1 \in 1 .. n /\ m + 1 \in 1 .. n + 1 /\ (m + 1) - 1 = m /\ p[m] = q[m]
    BY <1>4
  <2>2. p[m + 1] = op(p[m], s[m + 1]) /\ q[m + 1] = op(q[m], t[m + 1])
    BY <1>1, <1>2, <2>1 DEF IsRun
  <2> QED BY <2>1, <2>2
<1> HIDE DEF S
<1>5. n \in S
  BY <1>3, <1>4, SetInduction
<1>6. p[n] = q[n]
  BY <1>5 DEF S
<1>7. n + 1 \in 1 .. n + 1 /\ (n + 1) - 1 = n
  OBVIOUS
<1>8. q[n + 1] = op(q[n], t[n + 1])
  BY <1>2, <1>7 DEF IsRun
<1> QED BY <1>1, <1>2, <1>6, <1>8

LEMMA FoldNothing ==
    ASSUME NEW b
    PROVE  Fold(b, <<>>, 0) = b
<1>1. DOMAIN <<>> = 1 .. 0
  OBVIOUS
<1>2. PICK p : IsRun(p, b, <<>>, 0) /\ p[0] = Fold(b, <<>>, 0)
  BY <1>1, FoldRuns
<1> QED BY <1>2 DEF IsRun
-----------------------------------------------------------------------------
(* Sequences put together. *)

\* The function FlattenSeq chooses, up to the m-th sequence
IsFlat(f, ss, m) == f = [i \in 1 .. m |-> IF i = 1 THEN ss[i] ELSE f[i - 1] \o ss[i]]

LEMMA FlatExists ==
    ASSUME NEW ss, NEW n \in Nat
    PROVE  \E f : IsFlat(f, ss, n)
<1> DEFINE N == {m \in Nat : \E f : IsFlat(f, ss, m)}
<1>1. 0 \in N
  <2> DEFINE f == [i \in 1 .. 0 |-> ss[i]]
             g == [i \in 1 .. 0 |-> IF i = 1 THEN ss[i] ELSE f[i - 1] \o ss[i]]
  <2>1. 1 .. 0 = {}
    OBVIOUS
  <2>2. f = g
    BY <2>1
  <2>3. IsFlat(f, ss, 0)
    BY <2>2 DEF IsFlat
  <2> HIDE DEF f
  <2> QED BY <2>3
<1>2. ASSUME NEW m \in Nat, m \in N PROVE m + 1 \in N
  <2>1. PICK f : IsFlat(f, ss, m)
    BY <1>2
  <2> DEFINE g == [i \in 1 .. m + 1 |-> IF i = 1 THEN ss[i] ELSE f[i - 1] \o ss[i]]
             h == [i \in 1 .. m + 1 |-> IF i = 1 THEN ss[i] ELSE g[i - 1] \o ss[i]]
  <2>2. ASSUME NEW i \in 1 .. m + 1 PROVE g[i] = h[i]
    <3>1. CASE i # 1
      <4>1. i - 1 \in 1 .. m /\ i - 1 \in 1 .. m + 1
        BY <3>1
      <4>2. f[i - 1] = IF i - 1 = 1 THEN ss[i - 1] ELSE f[(i - 1) - 1] \o ss[i - 1]
        BY <2>1, <4>1 DEF IsFlat
      <4>3. g[i - 1] = IF i - 1 = 1 THEN ss[i - 1] ELSE f[(i - 1) - 1] \o ss[i - 1]
        BY <4>1
      <4>4. g[i] = f[i - 1] \o ss[i] /\ h[i] = g[i - 1] \o ss[i]
        BY <3>1
      <4>5. f[i - 1] = g[i - 1]
        BY <4>2, <4>3
      <4> QED BY <4>4, <4>5
    <3> QED BY <3>1
  <2>3. g = h
    BY <2>2
  <2>4. IsFlat(g, ss, m + 1)
    BY <2>3 DEF IsFlat
  <2> HIDE DEF g
  <2> QED BY <2>4
<1>3. n \in N
  <2> HIDE DEF N
  <2> QED BY <1>1, <1>2, SetInduction
<1> QED BY <1>3

\* A sequence of sequences is a sequence
LEMMA FlattenType ==
    ASSUME NEW W, NEW ss \in Seq(Seq(W))
    PROVE  FlattenSeq(ss) \in Seq(W)
<1> DEFINE n       == Len(ss)
           flatten == CHOOSE f : IsFlat(f, ss, n)
<1>0. n \in Nat /\ \A i \in 1 .. n : ss[i] \in Seq(W)
  OBVIOUS
<1>4. IsFlat(flatten, ss, n)
  BY <1>0, FlatExists, Zenon
<1>5. n # 0 => FlattenSeq(ss) = flatten[n]
  BY DEF FlattenSeq, IsFlat
<1> HIDE DEF flatten
<1> DEFINE M == {m \in Nat : m \in 1 .. n => flatten[m] \in Seq(W)}
<1>6. 0 \in M
  OBVIOUS
<1>7. ASSUME NEW m \in Nat, m \in M PROVE m + 1 \in M
  <2> SUFFICES ASSUME m + 1 \in 1 .. n PROVE flatten[m + 1] \in Seq(W)
    OBVIOUS
  <2>1. flatten[m + 1] = IF m + 1 = 1 THEN ss[m + 1] ELSE flatten[m] \o ss[m + 1]
    <3>1. (m + 1) - 1 = m
      OBVIOUS
    <3> QED BY <1>4, <3>1 DEF IsFlat
  <2>2. CASE m = 0
    BY <1>0, <2>1, <2>2
  <2>3. CASE m # 0
    <3>1. flatten[m] \in Seq(W) /\ ss[m + 1] \in Seq(W)
      BY <1>0, <1>7, <2>3
    <3> QED BY <2>1, <2>3, <3>1
  <2> QED BY <2>2, <2>3
<1>8. n \in M
  <2> HIDE DEF M
  <2> QED BY <1>0, <1>6, <1>7, SetInduction
<1>9. CASE n = 0
  <2>1. FlattenSeq(ss) = <<>>
    BY <1>9 DEF FlattenSeq
  <2> QED BY <2>1
<1>10. CASE n # 0
  BY <1>0, <1>5, <1>8, <1>10
<1> QED BY <1>9, <1>10

\* As long as each sequence has one element, so many elements has the whole
LEMMA FlattenLength ==
    ASSUME NEW W, NEW ss \in Seq(Seq(W)), NEW k \in 0 .. Len(ss),
           \A i \in 1 .. k : Len(ss[i]) = 1
    PROVE  Len(FlattenSeq(ss)) >= k
<1> DEFINE n       == Len(ss)
           flatten == CHOOSE f : IsFlat(f, ss, n)
<1>0. n \in Nat /\ k \in Nat /\ k <= n /\ \A i \in 1 .. n : ss[i] \in Seq(W)
  OBVIOUS
<1>1. IsFlat(flatten, ss, n)
  BY <1>0, FlatExists, Zenon
<1>2. n # 0 => FlattenSeq(ss) = flatten[n]
  BY DEF FlattenSeq, IsFlat
<1> HIDE DEF flatten
<1> DEFINE Long(m) == flatten[m] \in Seq(W) /\ (m <= k => Len(flatten[m]) = m)
                                           /\ (m >= k => Len(flatten[m]) >= k)
           M == {m \in Nat : m \in 1 .. n => Long(m)}
<1>3. 0 \in M
  OBVIOUS
<1>4. ASSUME NEW m \in Nat, m \in M PROVE m + 1 \in M
  <2> SUFFICES ASSUME m + 1 \in 1 .. n PROVE Long(m + 1)
    OBVIOUS
  <2>1. flatten[m + 1] = IF m + 1 = 1 THEN ss[m + 1] ELSE flatten[m] \o ss[m + 1]
    <3>1. (m + 1) - 1 = m
      OBVIOUS
    <3> QED BY <1>1, <3>1 DEF IsFlat
  <2>2. ss[m + 1] \in Seq(W) /\ (m + 1 <= k => Len(ss[m + 1]) = 1) /\ Len(ss[m + 1]) \in Nat
    BY <1>0
  <2>3. CASE m = 0
    <3>1. flatten[m + 1] = ss[m + 1]
      BY <2>1, <2>3
    <3>2. m + 1 >= k => k = 0 \/ k = 1
      BY <1>0, <2>3
    <3> DEFINE b  == ss[m + 1]
               lb == Len(b)
    <3>3. b \in Seq(W) /\ lb \in Nat /\ (m + 1 <= k => lb = 1)
      BY <2>2
    <3> HIDE DEF b, lb
    <3>4. (m + 1 <= k => lb = m + 1) /\ (m + 1 >= k => lb >= k)
      BY <1>0, <2>3, <3>2, <3>3
    <3> QED BY <3>1, <3>3, <3>4 DEF b, lb
  <2>4. CASE m # 0
    <3>1. Long(m)
      <4>1. m \in 1 .. n
        BY <1>0, <2>4
      <4> QED BY <1>4, <4>1
    <3>2. flatten[m + 1] = flatten[m] \o ss[m + 1]
      <4>1. m + 1 # 1
        BY <2>4
      <4> QED BY <2>1, <4>1
    <3> DEFINE a == flatten[m]
               b == ss[m + 1]
    <3>3. a \in Seq(W) /\ b \in Seq(W) /\ (m <= k => Len(a) = m) /\ (m >= k => Len(a) >= k)
      BY <2>2, <3>1
    <3>4. m + 1 <= k => Len(b) = 1
      BY <2>2
    <3> HIDE DEF a, b
    <3>5. a \o b \in Seq(W) /\ Len(a \o b) = Len(a) + Len(b) /\ Len(a) \in Nat /\ Len(b) \in Nat
      BY <3>3
    <3>6. /\ m + 1 <= k => Len(a \o b) = m + 1
          /\ m + 1 >= k => Len(a \o b) >= k
      <4> DEFINE la == Len(a)
                 lb == Len(b)
                 lc == Len(a \o b)
      <4>1. /\ lc = la + lb /\ la \in Nat /\ lb \in Nat /\ m \in Nat /\ k \in Nat
            /\ (m <= k => la = m) /\ (m >= k => la >= k) /\ (m + 1 <= k => lb = 1)
        BY <1>0, <3>3, <3>4, <3>5
      <4> HIDE DEF la, lb, lc
      <4>2. /\ m + 1 <= k => lc = m + 1
            /\ m + 1 >= k => lc >= k
        BY <4>1
      <4> QED BY <4>2 DEF lc
    <3> QED BY <3>2, <3>5, <3>6 DEF a, b
  <2> QED BY <2>3, <2>4
<1>5. n \in M
  <2> HIDE DEF M
  <2> QED BY <1>0, <1>3, <1>4, SetInduction
<1>6. CASE n = 0
  <2>1. FlattenSeq(ss) = ss
    BY <1>6 DEF FlattenSeq
  <2> QED BY <1>0, <1>6, <2>1
<1>7. CASE n # 0
  BY <1>0, <1>2, <1>5, <1>7
<1> QED BY <1>6, <1>7
=============================================================================
