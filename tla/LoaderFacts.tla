---------------------------- MODULE LoaderFacts ----------------------------
(***************************************************************************)
(* What the operators of DocumentLoader return, for every document: calls  *)
(* of words that are words.                                                *)
(***************************************************************************)
EXTENDS DocumentLoader, FiniteSetTheorems, SequenceTheorems, TLAPS

Joined(s, t) == s \o t

JoinedFold == INSTANCE FoldFacts WITH op <- Joined

RecordFold == INSTANCE FoldFacts WITH op <- record_word

-----------------------------------------------------------------------------
(* Positions in their order. *)

LEMMA FinitePositions ==
    ASSUME NEW n \in Nat, NEW S \in SUBSET (1 .. n)
    PROVE  IsFiniteSet(S) /\ Cardinality(S) \in Nat
<1>1. IsFiniteSet(1 .. n)
  BY FS_Interval
<1>2. IsFiniteSet(S)
  BY <1>1, FS_Subset
<1> QED BY <1>2, FS_CardinalityType

\* There is a position with any number of others before it
LEMMA PositionExists ==
    ASSUME NEW n \in Nat, NEW S \in SUBSET (1 .. n), NEW k \in 1 .. Cardinality(S)
    PROVE  \E i \in S : Cardinality({j \in S : j < i}) = k - 1
<1> DEFINE Has(T, m) == \E i \in T : Cardinality({j \in T : j < i}) = m - 1
           N == {m \in Nat : \A T \in SUBSET (1 .. m) : \A q \in 1 .. Cardinality(T) : Has(T, q)}
<1>1. 0 \in N
  <2>1. ASSUME NEW T \in SUBSET (1 .. 0) PROVE Cardinality(T) = 0
    <3>1. T = {}
      OBVIOUS
    <3> QED BY <3>1, FS_EmptySet
  <2>2. \A T \in SUBSET (1 .. 0) : 1 .. Cardinality(T) = {}
    BY <2>1
  <2> QED BY <2>2
<1>2. ASSUME NEW m \in Nat, m \in N PROVE m + 1 \in N
  <2> SUFFICES ASSUME NEW T \in SUBSET (1 .. m + 1), NEW q \in 1 .. Cardinality(T)
               PROVE  Has(T, q)
    OBVIOUS
  <2>1. CASE m + 1 \notin T
    <3>1. T \in SUBSET (1 .. m)
      BY <2>1
    <3> HIDE DEF Has
    <3> QED BY <1>2, <3>1
  <2>2. CASE m + 1 \in T
    <3> DEFINE U == T \ {m + 1}
    <3>1. U \in SUBSET (1 .. m)
      OBVIOUS
    <3>2. IsFiniteSet(U) /\ Cardinality(U) \in Nat
      BY <3>1, FinitePositions
    <3>3. T = U \cup {m + 1} /\ m + 1 \notin U
      BY <2>2
    <3>4. Cardinality(T) = Cardinality(U) + 1
      BY <3>2, <3>3, FS_AddElement
    <3>5. CASE q \in 1 .. Cardinality(U)
      <4>1. PICK i \in U : Cardinality({j \in U : j < i}) = q - 1
        BY <1>2, <3>1, <3>5
      <4>2. i <= m
        BY <3>1, <4>1
      <4>3. \A j \in T : j < i <=> j \in U /\ j < i
        BY <3>1, <4>2
      <4>4. {j \in T : j < i} = {j \in U : j < i}
        BY <4>3
      <4> QED BY <4>1, <4>4
    <3>6. CASE q = Cardinality(T)
      <4>a. \A j \in T : j < m + 1 <=> j \in U
        BY <3>1
      <4>1. {j \in T : j < m + 1} = U
        BY <4>a
      <4>2. Cardinality(U) = q - 1
        BY <3>2, <3>4, <3>6
      <4> QED BY <2>2, <4>1, <4>2
    <3> QED BY <3>2, <3>4, <3>5, <3>6
  <2> QED BY <2>1, <2>2
<1>3. n \in N
  <2> HIDE DEF N
  <2> QED BY <1>1, <1>2, JoinedFold!SetInduction
<1> QED BY <1>3

LEMMA InOrderType ==
    ASSUME NEW n \in Nat, NEW S \in SUBSET (1 .. n)
    PROVE  InOrder(S) \in Seq(S)
<1>1. Cardinality(S) \in Nat
  BY FinitePositions
<1>2. ASSUME NEW k \in 1 .. Cardinality(S)
      PROVE  (CHOOSE i \in S : Cardinality({j \in S : j < i}) = k - 1) \in S
  <2>1. \E i \in S : Cardinality({j \in S : j < i}) = k - 1
    BY PositionExists
  <2> QED BY <2>1, Zenon
<1>3. InOrder(S) \in [1 .. Cardinality(S) -> S]
  BY <1>2 DEF InOrder
<1> QED BY <1>1, <1>3, SeqDef

LEMMA SeqOver ==
    ASSUME NEW A, NEW B, A \subseteq B, NEW s \in Seq(A)
    PROVE  s \in Seq(B)
<1>1. Len(s) \in Nat /\ s \in [1 .. Len(s) -> A]
  OBVIOUS
<1>2. s \in [1 .. Len(s) -> B]
  BY <1>1
<1> QED BY <1>1, <1>2, SeqDef

Below(S, i) == {j \in S : j < i}

\* Which position is where in the order
LEMMA InOrderAt ==
    ASSUME NEW n \in Nat, NEW S \in SUBSET (1 .. n), NEW k \in 1 .. Cardinality(S)
    PROVE  /\ InOrder(S)[k] \in S
           /\ Cardinality(Below(S, InOrder(S)[k])) = k - 1
<1> DEFINE at == CHOOSE i \in S : Cardinality({j \in S : j < i}) = k - 1
<1>1. \E i \in S : Cardinality({j \in S : j < i}) = k - 1
  BY PositionExists
<1>2. at \in S /\ Cardinality({j \in S : j < at}) = k - 1
  BY <1>1, Zenon
<1>3. InOrder(S)[k] = at
  BY DEF InOrder
<1> HIDE DEF at
<1> QED BY <1>2, <1>3 DEF Below

LEMMA PositionUnique ==
    ASSUME NEW n \in Nat, NEW S \in SUBSET (1 .. n), NEW i \in S, NEW m \in S,
           Cardinality(Below(S, i)) = Cardinality(Below(S, m))
    PROVE  i = m
<1>1. ASSUME NEW a \in S, NEW b \in S, a < b
      PROVE  Cardinality(Below(S, a)) # Cardinality(Below(S, b))
  <2> DEFINE A == {j \in S : j < a}
             B == {j \in S : j < b}
  <2>1. A \in SUBSET (1 .. n) /\ B \in SUBSET (1 .. n)
    OBVIOUS
  <2>2. a \notin A /\ A \cup {a} \subseteq B
    <3>1. a \in Int /\ b \in Int /\ \A j \in S : j \in Int
      OBVIOUS
    <3>2. \A j \in S : j < a => j < b
      BY <1>1, <3>1
    <3>3. a \notin A
      BY <3>1
    <3>4. a \in B
      BY <1>1
    <3>5. A \subseteq B
      BY <3>2
    <3> QED BY <3>3, <3>4, <3>5
  <2> HIDE DEF A, B
  <2>3. /\ IsFiniteSet(A) /\ IsFiniteSet(B)
        /\ Cardinality(A) \in Nat /\ Cardinality(B) \in Nat
    BY <2>1, FinitePositions
  <2>4. Cardinality(A \cup {a}) = Cardinality(A) + 1
    BY <2>2, <2>3, FS_AddElement
  <2>5. Cardinality(A \cup {a}) <= Cardinality(B)
    BY <2>2, <2>3, FS_Subset
  <2>6. Cardinality(A) # Cardinality(B)
    BY <2>3, <2>4, <2>5
  <2> QED BY <2>6 DEF A, B, Below
<1>2. i \in Int /\ m \in Int
  OBVIOUS
<1>3. ~(i < m) /\ ~(m < i)
  BY <1>1
<1> QED BY <1>2, <1>3

\* A position behind all others comes last
LEMMA InOrderAppend ==
    ASSUME NEW n \in Nat, NEW S \in SUBSET (1 .. n)
    PROVE  InOrder(S \cup {n + 1}) = Append(InOrder(S), n + 1)
<1> DEFINE T == S \cup {n + 1}
           c == Cardinality(S)
<1>1. c \in Nat /\ IsFiniteSet(S)
  BY FinitePositions
<1>m. PICK m \in Nat : m = n + 1
  OBVIOUS
<1>2. T \in SUBSET (1 .. m) /\ n + 1 \notin S /\ n + 1 \in T
  BY <1>m
<1>3. Cardinality(T) = c + 1
  BY <1>1, <1>2, FS_AddElement
<1>4. ASSUME NEW i \in S PROVE Below(T, i) = Below(S, i)
  <2>1. i <= n
    OBVIOUS
  <2>2. \A j \in T : j < i <=> j \in S /\ j < i
    BY <2>1
  <2> QED BY <2>2 DEF Below
<1>5. Below(T, n + 1) = S
  <2>1. \A j \in T : j < n + 1 <=> j \in S
    OBVIOUS
  <2> QED BY <2>1 DEF Below
<1> HIDE DEF T, c
<1>6. ASSUME NEW k \in 1 .. c PROVE InOrder(T)[k] = InOrder(S)[k]
  <2>1. InOrder(S)[k] \in S /\ Cardinality(Below(S, InOrder(S)[k])) = k - 1
    BY InOrderAt DEF c
  <2>2. k \in 1 .. Cardinality(T)
    BY <1>1, <1>3
  <2>3. InOrder(T)[k] \in T /\ Cardinality(Below(T, InOrder(T)[k])) = k - 1
    BY <1>2, <2>2, InOrderAt, <1>m
  <2>4. InOrder(S)[k] \in T
    BY <2>1 DEF T
  <2>5. Cardinality(Below(T, InOrder(S)[k])) = k - 1
    BY <1>4, <2>1
  <2> QED BY <1>2, <2>3, <2>4, <2>5, PositionUnique
<1>7. InOrder(T)[c + 1] = n + 1
  <2>1. c + 1 \in 1 .. Cardinality(T)
    BY <1>1, <1>3
  <2>2. InOrder(T)[c + 1] \in T /\ Cardinality(Below(T, InOrder(T)[c + 1])) = (c + 1) - 1
    BY <1>2, <2>1, InOrderAt
  <2>3. (c + 1) - 1 = c
    BY <1>1
  <2>4. n + 1 \in T /\ Cardinality(Below(T, n + 1)) = c
    BY <1>5 DEF T, c
  <2> QED BY <1>2, <2>2, <2>3, <2>4, PositionUnique
<1>8. /\ InOrder(T) \in Seq(T) /\ Len(InOrder(T)) = c + 1
      /\ InOrder(S) \in Seq(S) /\ Len(InOrder(S)) = c
  <2>1. InOrder(T) \in Seq(T) /\ InOrder(S) \in Seq(S)
    BY <1>2, InOrderType
  <2>2. DOMAIN InOrder(T) = 1 .. c + 1 /\ DOMAIN InOrder(S) = 1 .. c
    BY <1>3 DEF InOrder, c
  <2>3. Len(InOrder(T)) = c + 1 /\ Len(InOrder(S)) = c
    BY <1>1, <2>1, <2>2
  <2> QED BY <2>1, <2>3
<1>9. InOrder(T) = Append(InOrder(S), n + 1)
  <2> DEFINE s == InOrder(S)
             t == InOrder(T)
  <2>1. /\ s \in Seq(Int) /\ t \in Seq(Int) /\ Len(s) = c /\ Len(t) = c + 1
        /\ \A k \in 1 .. c : t[k] = s[k]
        /\ t[c + 1] = n + 1
    <3>1. S \subseteq Int /\ T \subseteq Int
      BY <1>2
    <3>2. s \in Seq(Int) /\ t \in Seq(Int)
      BY <1>8, <3>1, SeqOver
    <3> QED BY <1>6, <1>7, <1>8, <3>2
  <2> HIDE DEF s, t
  <2>2. t = Append(s, n + 1)
    BY <1>1, <2>1
  <2> QED BY <2>2 DEF s, t
<1> QED BY <1>9 DEF T

LEMMA PickedType ==
    ASSUME NEW W, NEW s \in Seq(W), NEW S \in SUBSET (1 .. Len(s))
    PROVE  Picked(s, S) \in Seq(W)
<1> DEFINE at == InOrder(S)
<1>1. Len(s) \in Nat
  OBVIOUS
<1>2. at \in Seq(S)
  BY <1>1, InOrderType
<1> HIDE DEF at
<1>3. Len(at) \in Nat /\ DOMAIN at = 1 .. Len(at) /\ \A k \in 1 .. Len(at) : at[k] \in S
  BY <1>2
<1>4. Picked(s, S) = [k \in 1 .. Len(at) |-> s[at[k]]]
  BY <1>3 DEF Picked, at
<1>5. \A k \in 1 .. Len(at) : s[at[k]] \in W
  <2>1. \A i \in S : s[i] \in W
    OBVIOUS
  <2> QED BY <1>3, <2>1
<1> QED BY <1>3, <1>4, <1>5

LEMMA PickedNothing == ASSUME NEW s PROVE Picked(s, {}) = <<>>
<1>1. Cardinality({}) = 0
  BY FS_EmptySet
<1>2. DOMAIN InOrder({}) = 1 .. 0 /\ 1 .. 0 = {}
  BY <1>1 DEF InOrder
<1> QED BY <1>2 DEF Picked

\* What is picked depends on the elements there only
LEMMA PickedSame ==
    ASSUME NEW n \in Nat, NEW S \in SUBSET (1 .. n), NEW s, NEW t, \A i \in S : s[i] = t[i]
    PROVE  Picked(s, S) = Picked(t, S)
<1>1. InOrder(S) \in Seq(S)
  BY InOrderType
<1> DEFINE at == InOrder(S)
<1>2. \A k \in DOMAIN at : s[at[k]] = t[at[k]]
  <2>1. \A k \in DOMAIN at : at[k] \in S
    BY <1>1
  <2> QED BY <2>1
<1> QED BY <1>2 DEF Picked

LEMMA PickedLength ==
    ASSUME NEW W, NEW s \in Seq(W), NEW S \in SUBSET (1 .. Len(s))
    PROVE  Len(Picked(s, S)) = Cardinality(S)
<1>1. Len(s) \in Nat
  OBVIOUS
<1>2. Cardinality(S) \in Nat
  BY <1>1, FinitePositions
<1>3. DOMAIN Picked(s, S) = 1 .. Cardinality(S)
  BY DEF Picked, InOrder
<1>4. Picked(s, S) \in Seq(W)
  BY PickedType
<1> QED BY <1>2, <1>3, <1>4

\* One element more at the end
LEMMA PickedAppend ==
    ASSUME NEW W, NEW s \in Seq(W), NEW n \in Nat, n + 1 <= Len(s), NEW S \in SUBSET (1 .. n)
    PROVE  Picked(s, S \cup {n + 1}) = Append(Picked(s, S), s[n + 1])
<1> DEFINE at == InOrder(S)
<1>1. at \in Seq(S) /\ Len(at) \in Nat
  <2>1. at \in Seq(S)
    BY InOrderType
  <2> HIDE DEF at
  <2> QED BY <2>1
<1>2. InOrder(S \cup {n + 1}) = Append(at, n + 1)
  BY InOrderAppend
<1>3. Picked(s, S) \in Seq(W)
  <2>1. S \in SUBSET (1 .. Len(s))
    OBVIOUS
  <2> QED BY <2>1, PickedType
<1>4. Picked(s, S) = [k \in 1 .. Len(at) |-> s[at[k]]]
  <2>1. DOMAIN at = 1 .. Len(at)
    BY <1>1
  <2> QED BY <2>1 DEF Picked
<1> DEFINE up == Append(at, n + 1)
<1>5. up \in Seq(Int) /\ Len(up) = Len(at) + 1 /\ DOMAIN up = 1 .. Len(at) + 1
      /\ up[Len(at) + 1] = n + 1 /\ \A k \in 1 .. Len(at) : up[k] = at[k]
  <2>1. at \in Seq(Int) /\ n + 1 \in Int
    <3>1. S \subseteq Int
      OBVIOUS
    <3> HIDE DEF at
    <3>2. at \in Seq(Int)
      BY <1>1, <3>1, SeqOver
    <3> QED BY <3>2
  <2> HIDE DEF at
  <2> QED BY <2>1
<1>6. Picked(s, S \cup {n + 1}) = [k \in 1 .. Len(at) + 1 |-> s[up[k]]]
  BY <1>2, <1>5 DEF Picked
<1> HIDE DEF at, up
<1> DEFINE p == Picked(s, S)
           q == Append(p, s[n + 1])
<1>7. Len(p) = Len(at)
  BY <1>1, <1>4
<1>8. q \in Seq(W) /\ DOMAIN q = 1 .. Len(at) + 1
      /\ \A k \in 1 .. Len(at) + 1 : q[k] = IF k = Len(at) + 1 THEN s[n + 1] ELSE p[k]
  <2>1. s[n + 1] \in W
    OBVIOUS
  <2> HIDE DEF p
  <2>2. p \in Seq(W)
    BY <1>3 DEF p
  <2> QED BY <1>1, <1>7, <2>1, <2>2
<1>9. \A k \in 1 .. Len(at) : p[k] = s[at[k]]
  BY <1>4
<1> HIDE DEF p, q
<1>10. \A k \in 1 .. Len(at) + 1 : q[k] = s[up[k]]
  <2> SUFFICES ASSUME NEW k \in 1 .. Len(at) + 1 PROVE q[k] = s[up[k]]
    OBVIOUS
  <2>1. CASE k = Len(at) + 1
    BY <1>5, <1>8, <2>1
  <2>2. CASE k # Len(at) + 1
    <3>1. k \in 1 .. Len(at)
      BY <1>1, <2>2
    <3>2. q[k] = p[k]
      BY <1>8, <2>2
    <3> QED BY <1>5, <1>9, <3>1, <3>2
  <2> QED BY <2>1, <2>2
<1>11. q = [k \in 1 .. Len(at) + 1 |-> s[up[k]]]
  BY <1>8, <1>10
<1> QED BY <1>6, <1>11 DEF p, q

LEMMA AmongType ==
    ASSUME NEW W, NEW s \in Seq(W), NEW T
    PROVE  Among(s, T) \in Seq(W)
<1>1. {i \in DOMAIN s : s[i] \in T} \in SUBSET (1 .. Len(s))
  OBVIOUS
<1> QED BY <1>1, PickedType DEF Among

-----------------------------------------------------------------------------
(* Words. *)

\* What Stem is, up to n calls
IsStem(f, n) ==
    f = [k \in 0 .. n |-> IF k = 0 THEN [w \in Words |-> w]
                                    ELSE [w \in Words |-> Morpha[f[k - 1][w]]]]

LEMMA StemExists ==
    ASSUME NEW n \in Nat
    PROVE  \E f : IsStem(f, n)
<1> DEFINE N == {m \in Nat : \E f : IsStem(f, m)}
           Next(v) == [w \in Words |-> Morpha[v[w]]]
           None == [w \in Words |-> w]
<1>a. \A f, m : IsStem(f, m) <=> f = [k \in 0 .. m |-> IF k = 0 THEN None ELSE Next(f[k - 1])]
  BY DEF IsStem
<1> HIDE DEF None, Next
<1>1. 0 \in N
  <2> DEFINE f == [k \in 0 .. 0 |-> None]
             g == [k \in 0 .. 0 |-> IF k = 0 THEN None ELSE Next(f[k - 1])]
  <2>1. f = g
    OBVIOUS
  <2>2. IsStem(f, 0)
    BY <1>a, <2>1
  <2> HIDE DEF f
  <2> QED BY <2>2
<1>2. ASSUME NEW m \in Nat, m \in N PROVE m + 1 \in N
  <2>1. PICK f : IsStem(f, m)
    BY <1>2
  <2>a. f = [k \in 0 .. m |-> IF k = 0 THEN None ELSE Next(f[k - 1])]
    BY <1>a, <2>1
  <2> DEFINE g == [k \in 0 .. m + 1 |-> IF k = 0 THEN None ELSE Next(f[k - 1])]
             h == [k \in 0 .. m + 1 |-> IF k = 0 THEN None ELSE Next(g[k - 1])]
  <2>2. ASSUME NEW k \in 0 .. m + 1 PROVE g[k] = h[k]
    <3>1. CASE k # 0
      <4>1. k - 1 \in 0 .. m /\ k - 1 \in 0 .. m + 1
        BY <3>1
      <4>2. f[k - 1] = IF k - 1 = 0 THEN None ELSE Next(f[(k - 1) - 1])
        BY <2>a, <4>1
      <4>3. g[k - 1] = IF k - 1 = 0 THEN None ELSE Next(f[(k - 1) - 1])
        BY <4>1
      <4>4. f[k - 1] = g[k - 1]
        BY <4>2, <4>3
      <4>5. g[k] = Next(f[k - 1]) /\ h[k] = Next(g[k - 1])
        BY <3>1
      <4> QED BY <4>4, <4>5
    <3> QED BY <3>1
  <2>3. g = h
    BY <2>2
  <2>4. IsStem(g, m + 1)
    BY <1>a, <2>3
  <2> HIDE DEF g
  <2> QED BY <2>4
<1>3. n \in N
  <2> HIDE DEF N
  <2> QED BY <1>1, <1>2, JoinedFold!SetInduction
<1> QED BY <1>3

\* Stemming a word gives a word
LEMMA StemType == full_morpha_stem \in [Words -> Words]
<1> DEFINE c    == Cardinality(Words)
           stem == CHOOSE f : IsStem(f, c)
<1>0. c \in Nat /\ Morpha \in [Words -> Words]
  BY LoaderAssumption, FS_CardinalityType
<1>1. IsStem(stem, c)
  BY <1>0, StemExists, Zenon
<1>2. Stem = stem
  BY DEF Stem, IsStem
<1> HIDE DEF stem
<1> DEFINE M == {m \in Nat : m \in 0 .. c => stem[m] \in [Words -> Words]}
<1>3. 0 \in M
  <2>1. stem[0] = [w \in Words |-> w]
    BY <1>0, <1>1 DEF IsStem
  <2> QED BY <2>1
<1>4. ASSUME NEW m \in Nat, m \in M PROVE m + 1 \in M
  <2> SUFFICES ASSUME m + 1 \in 0 .. c PROVE stem[m + 1] \in [Words -> Words]
    OBVIOUS
  <2>1. m \in 0 .. c /\ (m + 1) - 1 = m /\ m + 1 # 0
    BY <1>0
  <2>2. stem[m + 1] = [w \in Words |-> Morpha[stem[m][w]]]
    BY <1>1, <2>1 DEF IsStem
  <2>3. \A w \in Words : Morpha[stem[m][w]] \in Words
    BY <1>0, <1>4, <2>1
  <2> QED BY <2>2, <2>3
<1>5. c \in M
  <2> HIDE DEF M
  <2> QED BY <1>0, <1>3, <1>4, JoinedFold!SetInduction
<1>6. stem[c] \in [Words -> Words]
  BY <1>0, <1>5
<1> QED BY <1>2, <1>6 DEF full_morpha_stem

LEMMA WordStringType ==
    ASSUME NEW w \in Words, NEW flags
    PROVE  WordString(w, flags) \in Words
<1>1. \A v \in Words : full_morpha_stem[v] \in Words
  BY StemType
<1>2. Normalized[w] \in Words
  BY LoaderAssumption
<1> QED BY <1>1, <1>2 DEF WordString

\* The words of a paragraph, whatever is done with them
LEMMA WordsOfType ==
    ASSUME NEW p, p.sentences \in Seq(Seq(Words)), NEW flags
    PROVE  WordsOf(p, flags) \in Seq(Words)
<1> DEFINE Sentence(i) ==
               [k \in DOMAIN p.sentences[i] |-> WordString(p.sentences[i][k], flags)]
           End == IF "mark" \in flags THEN <<EndOfSentence>> ELSE <<>>
           ss == [i \in DOMAIN p.sentences |-> Sentence(i) \o End]
<1>1. End \in Seq(Words)
  BY LoaderAssumption
<1>2. ASSUME NEW i \in DOMAIN p.sentences PROVE Sentence(i) \o End \in Seq(Words)
  <2>1. p.sentences[i] \in Seq(Words)
    OBVIOUS
  <2>2. \A k \in DOMAIN p.sentences[i] : WordString(p.sentences[i][k], flags) \in Words
    BY <2>1, WordStringType
  <2>3. Sentence(i) \in Seq(Words)
    BY <2>1, <2>2
  <2> HIDE DEF Sentence, End
  <2> QED BY <1>1, <2>3
<1>3. ss \in Seq(Seq(Words))
  <2>1. DOMAIN p.sentences = 1 .. Len(p.sentences) /\ Len(p.sentences) \in Nat
    OBVIOUS
  <2> HIDE DEF Sentence, End
  <2> QED BY <1>2, <2>1
<1>4. WordsOf(p, flags) = FlattenSeq(ss)
  BY DEF WordsOf
<1> HIDE DEF ss
<1>5. FlattenSeq(ss) = JoinedFold!FlattenSeq(ss)
  BY DEF FlattenSeq, JoinedFold!FlattenSeq
<1> QED BY <1>3, <1>4, <1>5, JoinedFold!FlattenType

-----------------------------------------------------------------------------
(* Calls. *)

\* What the callback gets
Callback == [words : Seq(Words), node : Nat]

LEMMA SelectedType ==
    ASSUME NEW doc \in Seq(Paragraph), NEW xpath
    PROVE  Len(doc) \in Nat /\ Selected(doc, xpath) \in SUBSET (1 .. Len(doc))
BY DEF Selected

LEMMA NodesType ==
    ASSUME NEW doc \in Seq(Paragraph), NEW xpath
    PROVE  Nodes(doc, xpath) \in Seq(1 .. Len(doc))
<1>1. Nodes(doc, xpath) \in Seq(Selected(doc, xpath))
  BY SelectedType, InOrderType DEF Nodes
<1> QED BY <1>1, SelectedType

LEMMA CallsType ==
    ASSUME NEW doc \in Seq(Paragraph), NEW xpath, NEW flags
    PROVE  Calls(doc, xpath, flags) \in Seq(Callback)
<1> DEFINE S    == {i \in Selected(doc, xpath) : ~doc[i].short}
           long == InOrder(S)
<1>1. CASE Selected(doc, xpath) = {}
  <2>1. Calls(doc, xpath, flags) = <<[words |-> <<>>, node |-> 0]>>
    BY <1>1 DEF Calls
  <2>2. [words |-> <<>>, node |-> 0] \in Callback
    BY DEF Callback
  <2> QED BY <2>1, <2>2
<1>2. CASE Selected(doc, xpath) # {}
  <2>1. S \in SUBSET (1 .. Len(doc)) /\ Len(doc) \in Nat
    BY SelectedType
  <2>2. long \in Seq(S)
    BY <2>1, InOrderType
  <2> DEFINE made == [k \in DOMAIN long |->
                         [words |-> WordsOf(doc[long[k]], flags), node |-> long[k]]]
  <2>3. Calls(doc, xpath, flags) = made
    BY <1>2 DEF Calls
  <2>4. ASSUME NEW k \in DOMAIN long
        PROVE  [words |-> WordsOf(doc[long[k]], flags), node |-> long[k]] \in Callback
    <3>1. long[k] \in 1 .. Len(doc)
      BY <2>1, <2>2
    <3>2. doc[long[k]] \in Paragraph
      BY <3>1
    <3>3. doc[long[k]].sentences \in Seq(Seq(Words))
      BY <3>2 DEF Paragraph
    <3>4. WordsOf(doc[long[k]], flags) \in Seq(Words) /\ long[k] \in Nat
      BY <3>1, <3>3, WordsOfType
    <3> QED BY <3>4 DEF Callback
  <2>5. DOMAIN long = 1 .. Len(long) /\ Len(long) \in Nat
    BY <2>2
  <2>6. made \in Seq(Callback)
    <3> HIDE DEF long
    <3> QED BY <2>4, <2>5
  <2> QED BY <2>3, <2>6
<1> QED BY <1>1, <1>2

-----------------------------------------------------------------------------
(* Words counted: the hash of a set of places in the calls of a pass. *)

\* Where the words of the first n calls are
Places(cs, n) == {p \in (1 .. n) \X Nat : p[2] \in DOMAIN cs[p[1]].words}

WordAt(cs, p) == cs[p[1]].words[p[2]]

\* How often a word is at a set of places
HashOf(cs, P) ==
    [w \in {WordAt(cs, p) : p \in P} |-> Cardinality({p \in P : WordAt(cs, p) = w})]

\* The words of the first n calls, with how often they are there
Counted(cs, n) == HashOf(cs, Places(cs, n))

LEMMA NoPlaces ==
    ASSUME NEW cs
    PROVE  HashOf(cs, {}) = Empty
BY DEF HashOf, Empty

\* record_word counts one place more
LEMMA OnePlaceMore ==
    ASSUME NEW cs, NEW P, IsFiniteSet(P), NEW q, q \notin P
    PROVE  HashOf(cs, P \cup {q}) = record_word(HashOf(cs, P), WordAt(cs, q))
<1> DEFINE Q  == P \cup {q}
           v  == WordAt(cs, q)
           At(w, S) == {p \in S : WordAt(cs, p) = w}
           old == HashOf(cs, P)
           D  == {WordAt(cs, p) : p \in P}
           E  == {WordAt(cs, p) : p \in Q}
<1>1. E = D \cup {v}
  OBVIOUS
<1>2. DOMAIN old = D /\ \A w \in D : old[w] = Cardinality(At(w, P))
  BY DEF HashOf
<1>3. ASSUME NEW w PROVE IsFiniteSet(At(w, P)) /\ Cardinality(At(w, P)) \in Nat
  <2>1. At(w, P) \subseteq P
    OBVIOUS
  <2> HIDE DEF At
  <2> QED BY <2>1, FS_Subset, FS_CardinalityType
<1>4. ASSUME NEW w PROVE Count(old, w) = Cardinality(At(w, P))
  <2>1. CASE w \in D
    BY <1>2, <2>1 DEF Count
  <2>2. CASE w \notin D
    <3>1. At(w, P) = {}
      BY <2>2
    <3>2. Count(old, w) = 0
      BY <1>2, <2>2 DEF Count
    <3> HIDE DEF At
    <3> QED BY <3>1, <3>2, FS_EmptySet
  <2> QED BY <2>1, <2>2
<1>5. ASSUME NEW w PROVE Cardinality(At(w, Q)) = Count(old, w) + IF w = v THEN 1 ELSE 0
  <2>1. CASE w = v
    <3>1. At(w, Q) = At(w, P) \cup {q} /\ q \notin At(w, P)
      BY <2>1
    <3> HIDE DEF At
    <3>2. Cardinality(At(w, Q)) = Cardinality(At(w, P)) + 1
      BY <1>3, <3>1, FS_AddElement
    <3> QED BY <1>4, <2>1, <3>2
  <2>2. CASE w # v
    <3>1. At(w, Q) = At(w, P)
      BY <2>2
    <3> HIDE DEF At
    <3> QED BY <1>3, <1>4, <2>2, <3>1
  <2> QED BY <2>1, <2>2
<1>6. HashOf(cs, Q) = [w \in E |-> Cardinality(At(w, Q))]
  BY DEF HashOf
<1>7. record_word(old, v) = [w \in D \cup {v} |-> Count(old, w) + IF w = v THEN 1 ELSE 0]
  BY <1>2 DEF record_word
<1> HIDE DEF old, At, D, E, v
<1>8. [w \in E |-> Cardinality(At(w, Q))]
         = [w \in D \cup {v} |-> Count(old, w) + IF w = v THEN 1 ELSE 0]
  BY <1>1, <1>5
<1>9. HashOf(cs, Q) = record_word(old, v)
  BY <1>6, <1>7, <1>8
<1> QED BY <1>9 DEF old, v

LEMMA PlacesFinite ==
    ASSUME NEW cs \in Seq(Callback), NEW n \in 0 .. Len(cs)
    PROVE  IsFiniteSet(Places(cs, n))
<1> DEFINE N == {m \in Nat : m <= Len(cs) => IsFiniteSet(Places(cs, m))}
<1>1. 0 \in N
  <2>1. 1 .. 0 = {}
    OBVIOUS
  <2>2. Places(cs, 0) = {}
    BY <2>1 DEF Places
  <2> QED BY <2>2, FS_EmptySet
<1>2. ASSUME NEW m \in Nat, m \in N PROVE m + 1 \in N
  <2> SUFFICES ASSUME m + 1 <= Len(cs) PROVE IsFiniteSet(Places(cs, m + 1))
    OBVIOUS
  <2>1. IsFiniteSet(Places(cs, m))
    BY <1>2
  <2> DEFINE D   == DOMAIN cs[m + 1].words
             new == {<<m + 1, j>> : j \in D}
  <2>2. cs[m + 1] \in Callback
    OBVIOUS
  <2>3. D = 1 .. Len(cs[m + 1].words) /\ Len(cs[m + 1].words) \in Nat
    BY <2>2 DEF Callback
  <2>4. IsFiniteSet(D)
    <3>1. \A k \in Nat : IsFiniteSet(1 .. k)
      BY FS_Interval
    <3> QED BY <2>3, <3>1
  <2>5. IsFiniteSet(new)
    <3> HIDE DEF D
    <3>1. IsFiniteSet({m + 1} \X D)
      BY <2>4, FS_Singleton, FS_Product
    <3>2. new \subseteq {m + 1} \X D
      OBVIOUS
    <3> QED BY <3>1, <3>2, FS_Subset
  <2>6. Places(cs, m + 1) \subseteq Places(cs, m) \cup new
    <3> SUFFICES ASSUME NEW p \in Places(cs, m + 1)
                 PROVE  p \in Places(cs, m) \cup new
      OBVIOUS
    <3>1. p \in (1 .. m + 1) \X Nat /\ p[2] \in DOMAIN cs[p[1]].words
      BY DEF Places
    <3>2. p = <<p[1], p[2]>> /\ p[1] \in 1 .. m + 1 /\ p[2] \in Nat
      BY <3>1
    <3>3. CASE p[1] = m + 1
      BY <3>1, <3>2, <3>3
    <3>4. CASE p[1] # m + 1
      <4>1. p[1] \in 1 .. m
        BY <3>2, <3>4
      <4>2. p \in (1 .. m) \X Nat
        BY <3>2, <4>1
      <4> QED BY <3>1, <4>2 DEF Places
    <3> QED BY <3>3, <3>4
  <2>7. IsFiniteSet(Places(cs, m) \cup new)
    <3> HIDE DEF new
    <3> QED BY <2>1, <2>5, FS_Union
  <2> HIDE DEF new
  <2> QED BY <2>6, <2>7, FS_Subset
<1>3. n \in N
  <2> HIDE DEF N
  <2> QED BY <1>1, <1>2, JoinedFold!SetInduction
<1> QED BY <1>3

-----------------------------------------------------------------------------
(* A callback that counts its words. *)

LEMMA RecordRuns ==
    ASSUME NEW n \in Nat, NEW b, NEW s, DOMAIN s = 1 .. n
    PROVE  \E run : RecordFold!IsRun(run, b, s, n) /\ run[n] = FoldLeft(record_word, b, s)
<1>1. FoldLeft(record_word, b, s) = RecordFold!Fold(b, s, n)
  BY DEF FoldLeft, MapThenFoldSet, RecordFold!Fold, RecordFold!IsFold, Max, RecordFold!Max
<1> QED BY <1>1, RecordFold!FoldRuns

\* The words of a call are counted one after the other
LEMMA CallCounted ==
    ASSUME NEW cs \in Seq(Callback), NEW n \in Nat, n + 1 <= Len(cs)
    PROVE  FoldLeft(record_word, Counted(cs, n), cs[n + 1].words) = Counted(cs, n + 1)
<1> DEFINE words == cs[n + 1].words
           len   == Len(words)
           P(i)  == Places(cs, n) \cup {<<n + 1, j>> : j \in 1 .. i}
<1>0. words \in Seq(Words) /\ len \in Nat /\ DOMAIN words = 1 .. len
  <2>1. cs[n + 1] \in Callback
    OBVIOUS
  <2>2. words \in Seq(Words)
    BY <2>1 DEF Callback
  <2> HIDE DEF words
  <2> QED BY <2>2
<1>r. PICK run : /\ RecordFold!IsRun(run, Counted(cs, n), words, len)
                 /\ run[len] = FoldLeft(record_word, Counted(cs, n), words)
  <2> HIDE DEF words, len
  <2>1. DOMAIN words = 1 .. len /\ len \in Nat
    BY <1>0
  <2> QED BY <2>1, RecordRuns
<1>1. /\ run[0] = Counted(cs, n)
      /\ run[len] = FoldLeft(record_word, Counted(cs, n), words)
      /\ \A i \in 1 .. len : run[i] = record_word(run[i - 1], words[i])
  BY <1>r DEF RecordFold!IsRun
<1> DEFINE N == {i \in Nat : i <= len => IsFiniteSet(P(i)) /\ run[i] = HashOf(cs, P(i))}
<1>2. 0 \in N
  <2>1. P(0) = Places(cs, n)
    <3>1. 1 .. 0 = {}
      OBVIOUS
    <3> QED BY <3>1
  <2>2. IsFiniteSet(Places(cs, n))
    BY PlacesFinite
  <2> HIDE DEF P
  <2> QED BY <1>1, <2>1, <2>2 DEF Counted
<1>3. ASSUME NEW i \in Nat, i \in N PROVE i + 1 \in N
  <2> SUFFICES ASSUME i + 1 <= len
               PROVE  IsFiniteSet(P(i + 1)) /\ run[i + 1] = HashOf(cs, P(i + 1))
    OBVIOUS
  <2> DEFINE q == <<n + 1, i + 1>>
  <2>1. IsFiniteSet(P(i)) /\ run[i] = HashOf(cs, P(i))
    BY <1>0, <1>3
  <2>2. P(i + 1) = P(i) \cup {q}
    <3>1. \A j : j \in 1 .. i + 1 <=> j \in 1 .. i \/ j = i + 1
      OBVIOUS
    <3> QED BY <3>1
  <2>3. q \notin P(i)
    <3>1. q \notin Places(cs, n)
      BY DEF Places
    <3>2. \A j \in 1 .. i : <<n + 1, j>> # q
      OBVIOUS
    <3> QED BY <3>1, <3>2
  <2>4. WordAt(cs, q) = words[i + 1]
    BY DEF WordAt
  <2>5. run[i + 1] = record_word(run[i], words[i + 1])
    BY <1>0, <1>1
  <2>6. IsFiniteSet(P(i) \cup {q})
    <3> HIDE DEF P, q
    <3> QED BY <2>1, FS_AddElement
  <2> HIDE DEF P, q, words
  <2>7. HashOf(cs, P(i) \cup {q}) = record_word(HashOf(cs, P(i)), WordAt(cs, q))
    BY <2>1, <2>3, OnePlaceMore
  <2> QED BY <2>1, <2>2, <2>4, <2>5, <2>6, <2>7
<1>4. len \in N
  <2> HIDE DEF N, len
  <2> QED BY <1>0, <1>2, <1>3, JoinedFold!SetInduction
<1>5. run[len] = HashOf(cs, P(len))
  <2> HIDE DEF P, words, len
  <2> QED BY <1>0, <1>4
<1>6. P(len) = Places(cs, n + 1)
  <2>1. ASSUME NEW p \in P(len) PROVE p \in Places(cs, n + 1)
    <3>1. CASE p \in Places(cs, n)
      <4>1. p \in (1 .. n) \X Nat /\ p[2] \in DOMAIN cs[p[1]].words
        BY <3>1 DEF Places
      <4>2. p \in (1 .. n + 1) \X Nat
        BY <4>1
      <4> QED BY <4>1, <4>2 DEF Places
    <3>2. CASE p \notin Places(cs, n)
      <4>1. PICK j \in 1 .. len : p = <<n + 1, j>>
        BY <2>1, <3>2
      <4>2. p \in (1 .. n + 1) \X Nat /\ p[1] = n + 1 /\ p[2] = j
        BY <1>0, <4>1
      <4>3. p[2] \in DOMAIN cs[p[1]].words
        BY <1>0, <4>2
      <4> QED BY <4>2, <4>3 DEF Places
    <3> QED BY <3>1, <3>2
  <2>2. ASSUME NEW p \in Places(cs, n + 1) PROVE p \in P(len)
    <3>1. p \in (1 .. n + 1) \X Nat /\ p[2] \in DOMAIN cs[p[1]].words
      BY DEF Places
    <3>2. p = <<p[1], p[2]>> /\ p[1] \in 1 .. n + 1 /\ p[2] \in Nat
      BY <3>1
    <3>3. CASE p[1] = n + 1
      <4>1. p[2] \in 1 .. len
        BY <1>0, <3>1, <3>3
      <4> QED BY <3>2, <3>3, <4>1
    <3>4. CASE p[1] # n + 1
      <4>1. p[1] \in 1 .. n
        BY <3>2, <3>4
      <4>2. p \in (1 .. n) \X Nat
        BY <3>2, <4>1
      <4> QED BY <3>1, <4>2 DEF Places
    <3> QED BY <3>3, <3>4
  <2> HIDE DEF P
  <2> QED BY <2>1, <2>2
<1> HIDE DEF P, words
<1> QED BY <1>1, <1>5, <1>6 DEF Counted, words

\* What is counted are words, and each at least once
LEMMA CountedType ==
    ASSUME NEW cs \in Seq(Callback), NEW n \in 0 .. Len(cs)
    PROVE  /\ DOMAIN Counted(cs, n) \subseteq Words
           /\ \A w \in DOMAIN Counted(cs, n) : Counted(cs, n)[w] \in Nat \ {0}
<1> DEFINE P     == Places(cs, n)
           At(w) == {p \in P : WordAt(cs, p) = w}
<1>1. ASSUME NEW p \in P PROVE WordAt(cs, p) \in Words
  <2>1. p[1] \in 1 .. n /\ p[2] \in DOMAIN cs[p[1]].words
    BY DEF Places
  <2>2. cs[p[1]] \in Callback
    BY <2>1
  <2>3. cs[p[1]].words \in Seq(Words)
    BY <2>2 DEF Callback
  <2> QED BY <2>1, <2>3 DEF WordAt
<1>2. DOMAIN Counted(cs, n) = {WordAt(cs, p) : p \in P}
      /\ \A w \in DOMAIN Counted(cs, n) : Counted(cs, n)[w] = Cardinality(At(w))
  BY DEF Counted, HashOf
<1>3. ASSUME NEW w \in DOMAIN Counted(cs, n) PROVE Cardinality(At(w)) \in Nat \ {0}
  <2>1. IsFiniteSet(P) /\ At(w) \subseteq P
    BY PlacesFinite
  <2>2. IsFiniteSet(At(w))
    BY <2>1, FS_Subset
  <2>3. At(w) # {}
    BY <1>2
  <2> HIDE DEF At
  <2> QED BY <2>2, <2>3, FS_EmptySet, FS_CardinalityType
<1> HIDE DEF P, At
<1> QED BY <1>1, <1>2, <1>3

\* More calls have the words of fewer, as often or more often
LEMMA CountedGrows ==
    ASSUME NEW cs \in Seq(Callback), NEW n \in 0 .. Len(cs), NEW m \in n .. Len(cs)
    PROVE  /\ DOMAIN Counted(cs, n) \subseteq DOMAIN Counted(cs, m)
           /\ \A w \in DOMAIN Counted(cs, n) : Counted(cs, n)[w] <= Counted(cs, m)[w]
<1> DEFINE P == Places(cs, n)
           Q == Places(cs, m)
           At(w, S) == {p \in S : WordAt(cs, p) = w}
<1>1. P \subseteq Q
  <2> SUFFICES ASSUME NEW p \in P PROVE p \in Q
    OBVIOUS
  <2>1. p \in (1 .. n) \X Nat /\ p[2] \in DOMAIN cs[p[1]].words
    BY DEF Places
  <2>2. p \in (1 .. m) \X Nat
    BY <2>1
  <2> QED BY <2>1, <2>2 DEF Places
<1>2. /\ DOMAIN Counted(cs, n) = {WordAt(cs, p) : p \in P}
      /\ \A w \in DOMAIN Counted(cs, n) : Counted(cs, n)[w] = Cardinality(At(w, P))
      /\ DOMAIN Counted(cs, m) = {WordAt(cs, p) : p \in Q}
      /\ \A w \in DOMAIN Counted(cs, m) : Counted(cs, m)[w] = Cardinality(At(w, Q))
  BY DEF Counted, HashOf
<1>3. ASSUME NEW w PROVE Cardinality(At(w, P)) <= Cardinality(At(w, Q))
  <2>1. IsFiniteSet(Q)
    <3>1. m \in 0 .. Len(cs)
      OBVIOUS
    <3> QED BY <3>1, PlacesFinite
  <2>2. At(w, Q) \subseteq Q /\ At(w, P) \subseteq At(w, Q)
    BY <1>1
  <2> HIDE DEF At
  <2>3. IsFiniteSet(At(w, Q))
    BY <2>1, <2>2, FS_Subset
  <2> QED BY <2>2, <2>3, FS_Subset
<1>4. DOMAIN Counted(cs, n) \subseteq DOMAIN Counted(cs, m)
  <2> HIDE DEF P, Q
  <2> QED BY <1>1, <1>2
<1> HIDE DEF P, Q, At
<1> QED BY <1>2, <1>3, <1>4

\* When all calls are counted, so is every word of each
LEMMA CountedAll ==
    ASSUME NEW cs \in Seq(Callback), NEW k \in 1 .. Len(cs)
    PROVE  ToSet(cs[k].words) \subseteq DOMAIN Counted(cs, Len(cs))
<1> SUFFICES ASSUME NEW j \in DOMAIN cs[k].words
             PROVE  cs[k].words[j] \in DOMAIN Counted(cs, Len(cs))
  BY DEF ToSet
<1>1. cs[k].words \in Seq(Words)
  <2>1. cs[k] \in Callback
    OBVIOUS
  <2> QED BY <2>1 DEF Callback
<1>2. j \in Nat
  BY <1>1
<1> DEFINE p == <<k, j>>
<1>3. p \in Places(cs, Len(cs))
  BY <1>2 DEF Places
<1>4. WordAt(cs, p) = cs[k].words[j]
  BY DEF WordAt
<1> HIDE DEF p
<1> QED BY <1>3, <1>4 DEF Counted, HashOf


-----------------------------------------------------------------------------
(* Calls one after the other. *)

\* What is left of the calls of a pass when n have been made
IsRest(left, cs, n) == n \in 0 .. Len(cs) /\ left = SubSeq(cs, n + 1, Len(cs))

LEMMA AllLeft ==
    ASSUME NEW cs \in Seq(Callback)
    PROVE  IsRest(cs, cs, 0)
BY DEF IsRest

LEMMA RestCount ==
    ASSUME NEW cs \in Seq(Callback), NEW left, NEW n \in Nat, IsRest(left, cs, n)
    PROVE  n = Len(cs) - Len(left)
<1>1. Len(cs) \in Nat /\ n <= Len(cs) /\ left = SubSeq(cs, n + 1, Len(cs))
  BY DEF IsRest
<1>2. Len(left) = Len(cs) - n
  BY <1>1
<1> QED BY <1>1, <1>2

\* The first call that is left, and what is left behind it
LEMMA NextOfRest ==
    ASSUME NEW cs \in Seq(Callback), NEW left, NEW n \in Nat, IsRest(left, cs, n), left # <<>>
    PROVE  /\ n + 1 \in 1 .. Len(cs)
           /\ Head(left) = cs[n + 1]
           /\ IsRest(Tail(left), cs, n + 1)
<1>1. Len(cs) \in Nat /\ n <= Len(cs) /\ left = SubSeq(cs, n + 1, Len(cs))
  BY DEF IsRest
<1>2. n + 1 <= Len(cs)
  BY <1>1
<1>3. Head(left) = cs[n + 1]
  BY <1>1, <1>2
<1>4. Tail(left) = SubSeq(cs, (n + 1) + 1, Len(cs))
  BY <1>1, <1>2
<1> QED BY <1>1, <1>2, <1>3, <1>4 DEF IsRest

LEMMA NothingLeft ==
    ASSUME NEW cs \in Seq(Callback), NEW n \in Nat, IsRest(<<>>, cs, n)
    PROVE  n = Len(cs)
<1>1. Len(cs) \in Nat
  OBVIOUS
<1>2. n = Len(cs) - Len(<<>>)
  BY RestCount
<1> QED BY <1>1, <1>2
=============================================================================
