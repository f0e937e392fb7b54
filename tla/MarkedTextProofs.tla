-------------------------- MODULE MarkedTextProofs --------------------------
(***************************************************************************)
(* Theorems about MarkedText: for documents with any number of sentences   *)
(* of any length, any words and any stopwords.                             *)
(***************************************************************************)
EXTENDS MarkedText, FiniteSetTheorems, SequenceTheorems, TLAPS

MeetFold == INSTANCE FoldFacts WITH op <- Meet

-----------------------------------------------------------------------------
(* The n-grams of a text, and the hash they are counted in. *)

Grams == UNION {[1 .. n -> Words] : n \in 0 .. 3}

\* g is counted at i, where a text has it or, behind its end, the empty word
Met(ws, i, g) ==
    \/ /\ Len(g) # 0 /\ i + Len(g) - 1 <= Len(ws)
       /\ \A x \in 1 .. Len(g) : g[x] = ws[i + x - 1] /\ g[x] \notin Stopwords
    \/ Len(g) = 0 /\ i = Len(ws) + 1 /\ EndsInStopwords(ws)

\* The places of an n-gram in the texts before the n-th, and in that one before i
Before(ts, n, i) ==
    [g \in Grams |->
        {p \in (1 .. n) \X Nat : /\ p[2] \in 1 .. Len(ts[p[1]]) + 1 /\ (p[1] < n \/ p[2] < i)
                                 /\ Met(ts[p[1]], p[2], g)}]

\* The table of n-grams at the places E
IsTable(t, E) ==
    /\ DOMAIN t = {g \in Grams : E[g] # {}}
    /\ \A g \in DOMAIN t : IsFiniteSet(E[g]) /\ t[g] = Cardinality(E[g])

LEMMA GramFacts ==
    ASSUME NEW g \in Grams
    PROVE  /\ g \in Seq(Words) /\ Len(g) \in Nat /\ Len(g) <= 3 /\ DOMAIN g = 1 .. Len(g)
<1>1. PICK n \in 0 .. 3 : g \in [1 .. n -> Words]
  BY DEF Grams
<1>2. g \in Seq(Words) /\ Len(g) = n
  BY <1>1
<1> QED BY <1>1, <1>2

LEMMA GramsAre ==
    ASSUME NEW n \in 0 .. 3, NEW g \in [1 .. n -> Words]
    PROVE  g \in Grams /\ Len(g) = n
<1>1. g \in Grams
  BY DEF Grams
<1>2. Len(g) = n
  OBVIOUS
<1> QED BY <1>1, <1>2

\* Meet counts one place more
LEMMA MeetCounts ==
    ASSUME NEW E, NEW t, IsTable(t, E), NEW g \in Grams, NEW q, q \notin E[g],
           NEW F, F[g] = E[g] \cup {q}, \A f \in Grams : f # g => F[f] = E[f]
    PROVE  IsTable(Meet(t, g), F)
<1> DEFINE S == E[g]
           T == F[g]
           new == Meet(t, g)
<1>1. /\ DOMAIN new = DOMAIN t \cup {g}
      /\ \A f \in DOMAIN t : f # g => new[f] = t[f] + 0
      /\ new[g] = (IF g \in DOMAIN t THEN t[g] ELSE 0) + 1
  BY DEF Meet
<1>2. IsFiniteSet(S) /\ (IF g \in DOMAIN t THEN t[g] ELSE 0) = Cardinality(S)
  <2>1. CASE g \in DOMAIN t
    BY <2>1 DEF IsTable
  <2>2. CASE g \notin DOMAIN t
    <3>1. S = {}
      BY <2>2 DEF IsTable
    <3> QED BY <2>2, <3>1, FS_EmptySet
  <2> QED BY <2>1, <2>2
<1>3. T = S \cup {q} /\ q \notin S
  OBVIOUS
<1>4. ASSUME NEW f \in DOMAIN t, f # g
      PROVE  IsFiniteSet(F[f]) /\ new[f] = Cardinality(F[f])
  <2>1. IsFiniteSet(E[f]) /\ t[f] = Cardinality(E[f]) /\ F[f] = E[f]
    BY <1>4 DEF IsTable
  <2>2. t[f] \in Nat
    BY <2>1, FS_CardinalityType
  <2>3. new[f] = t[f] + 0
    BY <1>1, <1>4
  <2> HIDE DEF new
  <2> QED BY <2>1, <2>2, <2>3
<1>5. DOMAIN new = {f \in Grams : F[f] # {}}
  <2>1. F[g] # {}
    OBVIOUS
  <2> HIDE DEF new
  <2> QED BY <1>1, <2>1 DEF IsTable
<1> HIDE DEF S, T
<1>6. IsFiniteSet(T) /\ Cardinality(T) = Cardinality(S) + 1
  BY <1>2, <1>3, FS_AddElement
<1>7. new[g] = Cardinality(T)
  BY <1>1, <1>2, <1>6
<1> HIDE DEF new
<1>8. \A f \in DOMAIN new : IsFiniteSet(F[f]) /\ new[f] = Cardinality(F[f])
  BY <1>1, <1>4, <1>6, <1>7 DEF T
<1> QED BY <1>5, <1>8 DEF IsTable, new

\* G has the place q more than E, for the n different n-grams gs
AtOnePlace(E, G, gs, n, q) ==
    /\ DOMAIN gs = 1 .. n
    /\ \A k \in 1 .. n : gs[k] \in Grams
    /\ \A k, l \in 1 .. n : gs[k] = gs[l] => k = l
    /\ \A g \in Grams : q \notin E[g]
    /\ \A g \in Grams : \A p :
          p \in G[g] <=> p \in E[g] \/ (p = q /\ \E k \in 1 .. n : gs[k] = g)

\* The n-grams of one place are counted one after the other
LEMMA MeetAllCounts ==
    ASSUME NEW n \in Nat, NEW gs, NEW E, NEW G, NEW q, AtOnePlace(E, G, gs, n, q),
           NEW t, IsTable(t, E)
    PROVE  IsTable(MeetFold!Fold(t, gs, n), G)
<1> USE DEF AtOnePlace
<1> DEFINE F(m) == [g \in Grams |-> E[g] \cup IF \E k \in 1 .. m : gs[k] = g THEN {q} ELSE {}]
<1>2. PICK run : MeetFold!IsRun(run, t, gs, n) /\ run[n] = MeetFold!Fold(t, gs, n)
  BY MeetFold!FoldRuns
<1> DEFINE M == {m \in Nat : m <= n => IsTable(run[m], F(m))}
<1>3. 0 \in M
  <2>1. run[0] = t
    BY <1>2 DEF MeetFold!IsRun
  <2>2. \A g \in Grams : F(0)[g] = E[g]
    OBVIOUS
  <2> HIDE DEF F
  <2>3. IsTable(t, F(0))
    BY <2>2 DEF IsTable
  <2> QED BY <2>1, <2>3
<1>4. ASSUME NEW m \in Nat, m \in M PROVE m + 1 \in M
  <2>0. m + 1 \in Nat
    OBVIOUS
  <2> SUFFICES ASSUME m + 1 <= n PROVE IsTable(run[m + 1], F(m + 1))
    BY <2>0, Zenon
  <2>1. m + 1 \in 1 .. n /\ (m + 1) - 1 = m /\ m <= n
    OBVIOUS
  <2>2. run[m + 1] = Meet(run[m], gs[m + 1])
    BY <1>2, <2>1 DEF MeetFold!IsRun
  <2>3. IsTable(run[m], F(m))
    BY <1>4, <2>1
  <2>4. gs[m + 1] \in Grams /\ \A k \in 1 .. m : gs[k] # gs[m + 1]
    BY <2>1
  <2>5. F(m + 1)[gs[m + 1]] = F(m)[gs[m + 1]] \cup {q} /\ q \notin F(m)[gs[m + 1]]
    BY <2>1, <2>4
  <2>6. \A f \in Grams : f # gs[m + 1] => F(m + 1)[f] = F(m)[f]
    <3>1. \A k \in 1 .. m + 1 : k \in 1 .. m \/ k = m + 1
      OBVIOUS
    <3>2. \A k \in 1 .. m : k \in 1 .. m + 1
      OBVIOUS
    <3> SUFFICES ASSUME NEW f \in Grams, f # gs[m + 1] PROVE F(m + 1)[f] = F(m)[f]
      OBVIOUS
    <3>3. (\E k \in 1 .. m + 1 : gs[k] = f) <=> (\E k \in 1 .. m : gs[k] = f)
      BY <3>1, <3>2
    <3> QED BY <3>3
  <2> HIDE DEF F
  <2> QED BY <2>2, <2>3, <2>4, <2>5, <2>6, MeetCounts
<1>5. n \in M
  <2> HIDE DEF M
  <2> QED BY <1>3, <1>4, MeetFold!SetInduction
<1>6. IsTable(MeetFold!Fold(t, gs, n), F(n))
  BY <1>2, <1>5
<1>7. \A g \in Grams : G[g] = F(n)[g]
  OBVIOUS
<1> HIDE DEF F
<1> QED BY <1>6, <1>7 DEF IsTable

-----------------------------------------------------------------------------
(* Texts. *)

LEMMA ContentsType ==
    ASSUME NEW node \in Node
    PROVE  Contents(node) \in Seq(Words)
<1>1. <<MathExpression>> \in Seq(Words) /\ <<Number>> \in Seq(Words)
  BY MarkedTextAssumption
<1>2. node.text \in Seq(Words)
  BY DEF Node
<1> QED BY <1>1, <1>2 DEF Contents

LEMMA ContentsOf ==
    ASSUME NEW nodes \in Seq(Node)
    PROVE  /\ [i \in DOMAIN nodes |-> Contents(nodes[i])] \in Seq(Seq(Words))
           /\ Len([i \in DOMAIN nodes |-> Contents(nodes[i])]) = Len(nodes)
<1>1. \A i \in DOMAIN nodes : Contents(nodes[i]) \in Seq(Words)
  BY ContentsType
<1>2. Len(nodes) \in Nat /\ DOMAIN nodes = 1 .. Len(nodes)
  OBVIOUS
<1> QED BY <1>1, <1>2

LEMMA WordInputType ==
    ASSUME NEW nodes \in Seq(Node)
    PROVE  WordInput(nodes) \in Seq(Words)
<1> DEFINE ss == [i \in DOMAIN nodes |-> Contents(nodes[i])]
<1>1. ss \in Seq(Seq(Words))
  BY ContentsOf
<1>2. WordInput(nodes) = MeetFold!FlattenSeq(ss)
  BY DEF WordInput, FlattenSeq, MeetFold!FlattenSeq
<1> HIDE DEF ss
<1> QED BY <1>1, <1>2, MeetFold!FlattenType

LEMMA TextType ==
    ASSUME NEW nodes \in Seq(Node)
    PROVE  TextOf(nodes) \in Seq(Words)
<1> DEFINE ws == WordInput(nodes)
<1>1. ws \in Seq(Words)
  BY WordInputType
<1>2. TextOf(nodes) = [i \in DOMAIN ws |-> Morpha[ws[i]]]
  BY DEF TextOf
<1>3. Morpha \in [Words -> Words]
  BY MarkedTextAssumption
<1> HIDE DEF ws
<1>4. Len(ws) \in Nat /\ DOMAIN ws = 1 .. Len(ws) /\ \A i \in DOMAIN ws : Morpha[ws[i]] \in Words
  BY <1>1, <1>3
<1> QED BY <1>2, <1>4

\* Preparing a node leaves a node, under its id or the empty one
LEMMA PreparedType ==
    ASSUME NEW node \in Node
    PROVE  Prepared(node) \in Node /\ Prepared(node).id \in {node.id, EmptyId}
<1>1. <<MathFormula>> \in Seq(Words)
  BY MarkedTextAssumption
<1>2. /\ node.id \in Ids \cup {NoId, EmptyId} /\ node.type \in {"word", "math", "anchor"}
      /\ node.text \in Seq(Words)
      /\ node = [id |-> node.id, type |-> node.type, text |-> node.text]
  BY DEF Node
<1>3. \/ Prepared(node) = [id |-> Value(node.id), type |-> "word", text |-> <<MathFormula>>]
      \/ Prepared(node) = [id |-> Value(node.id), type |-> "word", text |-> node.text]
      \/ Prepared(node) = node
  BY DEF Prepared
<1>4. Value(node.id) \in {node.id, EmptyId} /\ Value(node.id) \in Ids \cup {NoId, EmptyId}
  <2>1. Value(node.id) = EmptyId \/ Value(node.id) = node.id
    BY DEF Value
  <2> QED BY <1>2, <2>1
<1>5. ASSUME NEW text2 \in Seq(Words),
             Prepared(node) = [id |-> Value(node.id), type |-> "word", text |-> text2]
      PROVE  Prepared(node) \in Node /\ Prepared(node).id \in {node.id, EmptyId}
  <2> DEFINE v == Value(node.id)
  <2>1. /\ Prepared(node) = [id |-> v, type |-> "word", text |-> text2]
        /\ v \in {node.id, EmptyId} /\ v \in Ids \cup {NoId, EmptyId}
    BY <1>4, <1>5
  <2> HIDE DEF v
  <2>2. Prepared(node).id = v
    BY <2>1
  <2> QED BY <2>1, <2>2 DEF Node
<1> QED BY <1>1, <1>2, <1>3, <1>5

\* The texts of the sentences
Texts == [s \in DOMAIN doc |-> TextOf(doc[s])]

LEMMA TextsKept ==
    ASSUME kind' = kind
    PROVE  \A nodes : TextOf(nodes)' = TextOf(nodes) /\ WordInput(nodes)' = WordInput(nodes)
<1>1. \A node : Contents(node)' = Contents(node)
  BY DEF Contents
<1>2. \A nodes : WordInput(nodes)' = WordInput(nodes)
  BY <1>1 DEF WordInput
<1> QED BY <1>2 DEF TextOf

-----------------------------------------------------------------------------
(* The loops over a sentence. *)

L == Len(text)

\* From index on there are nonstopcounter words that are no stopwords, all that are left
\* of the sentence but for one stopword if foundEnd says so
WordsAhead ==
    /\ \A i \in index .. index + nonstopcounter - 1 : i <= L /\ text[i] \notin Stopwords
    /\ foundEnd =>
         /\ ~EndsInStopwords(text)
         /\ \/ index + nonstopcounter = L + 1
            \/ index + nonstopcounter = L /\ L # 0 /\ text[L] \in Stopwords

\* Behind the sentence there is the empty word, to be counted or counted
EmptyAhead ==
    /\ foundEnd /\ EndsInStopwords(text)
    /\ index + nonstopcounter = L + 2 /\ nonstopcounter \in {0, 1}

StripInv ==
    \/ index = 1 \/ index < L
    \/ index = L /\ text[L - 1] \in Stopwords

CountInv ==
    \/ /\ WordsAhead
       /\ ~foundEnd => index + nonstopcounter <= L
       /\ nonstopcounter = 0 => ~foundEnd /\ text[index] \notin Stopwords
    \/ EmptyAhead /\ nonstopcounter = 1

NgramsInv ==
    \/ /\ WordsAhead
       /\ ~foundEnd => /\ index + nonstopcounter < L
                       /\ text[index + nonstopcounter] \in Stopwords
    \/ EmptyAhead

Shape ==
    /\ kind \in Kinds /\ doc \in Seq(Seq(Node))
    /\ pc \in {"prepare", "sentence", "strip", "count", "ngrams", "end", "undefined"}
    /\ sentence \in 0 .. Len(doc) + 1
    /\ pc = "prepare" => doc \in Documents /\ sentence = 0 /\ DOMAIN table = {} /\ DOMAIN tags = {}
    /\ pc # "prepare" => sentence # 0
    /\ pc = "end" => sentence = Len(doc) + 1
    /\ pc = "undefined" => kind # "ngrams"
    /\ pc \in {"strip", "count", "ngrams"} =>
          kind = "ngrams" /\ sentence <= Len(doc) /\ text = Texts[sentence]
    /\ text \in Seq(Words) /\ index \in 1 .. L + 2
    /\ foundEnd \in BOOLEAN /\ nonstopcounter \in Nat
    /\ pc \notin {"count", "ngrams"} => nonstopcounter = 0

LoopInv ==
    /\ pc = "strip" => StripInv
    /\ pc = "count" => CountInv
    /\ pc = "ngrams" => NgramsInv

\* How far the sentence is counted
Reached == IF pc \in {"strip", "count", "ngrams"} THEN index ELSE 1

TableInv ==
    /\ kind = "ngrams" => IsTable(table, Before(Texts, sentence, Reached)) /\ DOMAIN tags = {}
    /\ kind # "ngrams" => DOMAIN table = {}

Inv == Shape /\ LoopInv /\ TableInv

\* At a stopword nothing is counted
LEMMA NoneAtStopword ==
    ASSUME NEW ws \in Seq(Words), NEW i \in 1 .. Len(ws), ws[i] \in Stopwords, NEW g \in Grams
    PROVE  ~Met(ws, i, g)
<1>1. Len(g) \in Nat
  BY GramFacts
<1>2. ASSUME Len(g) # 0 PROVE 1 \in 1 .. Len(g) /\ i + 1 - 1 = i
  BY <1>1, <1>2
<1>3. i # Len(ws) + 1
  OBVIOUS
<1> QED BY <1>2, <1>3 DEF Met

\* Where the sentence is passed with nothing counted the places are the same
LEMMA SamePlaces ==
    ASSUME NEW ts, NEW n \in Nat, NEW i \in Nat, NEW j \in Nat, i <= j,
           \A m \in i .. j - 1 : \A g \in Grams : m \in 1 .. Len(ts[n]) + 1 => ~Met(ts[n], m, g)
    PROVE  \A g \in Grams : Before(ts, n, j)[g] = Before(ts, n, i)[g]
<1> SUFFICES ASSUME NEW g \in Grams PROVE Before(ts, n, j)[g] = Before(ts, n, i)[g]
  OBVIOUS
<1>1. ASSUME NEW p \in Before(ts, n, j)[g] PROVE p \in Before(ts, n, i)[g]
  <2>1. /\ p \in (1 .. n) \X Nat /\ p[2] \in 1 .. Len(ts[p[1]]) + 1 /\ (p[1] < n \/ p[2] < j)
        /\ Met(ts[p[1]], p[2], g)
    BY DEF Before
  <2>2. p[1] < n \/ p[2] < i
    <3> SUFFICES ASSUME ~(p[1] < n), ~(p[2] < i) PROVE FALSE
      OBVIOUS
    <3>1. p[1] = n /\ p[2] \in i .. j - 1
      BY <2>1
    <3> QED BY <2>1, <3>1
  <2> QED BY <2>1, <2>2 DEF Before
<1>2. ASSUME NEW p \in Before(ts, n, i)[g] PROVE p \in Before(ts, n, j)[g]
  <2>1. /\ p \in (1 .. n) \X Nat /\ p[2] \in 1 .. Len(ts[p[1]]) + 1 /\ (p[1] < n \/ p[2] < i)
        /\ Met(ts[p[1]], p[2], g)
    BY DEF Before
  <2>2. p[1] < n \/ p[2] < j
    BY <2>1
  <2> QED BY <2>1, <2>2 DEF Before
<1> QED BY <1>1, <1>2

\* When it is passed to its end the next one begins
LEMMA NextSentence ==
    ASSUME NEW ts, NEW n \in Nat, NEW i \in Nat,
           \A m \in Nat : \A g \in Grams : m >= i /\ m \in 1 .. Len(ts[n]) + 1 => ~Met(ts[n], m, g)
    PROVE  \A g \in Grams : Before(ts, n + 1, 1)[g] = Before(ts, n, i)[g]
<1> SUFFICES ASSUME NEW g \in Grams PROVE Before(ts, n + 1, 1)[g] = Before(ts, n, i)[g]
  OBVIOUS
<1>1. ASSUME NEW p \in Before(ts, n + 1, 1)[g] PROVE p \in Before(ts, n, i)[g]
  <2>1. /\ p \in (1 .. n + 1) \X Nat /\ p[2] \in 1 .. Len(ts[p[1]]) + 1 /\ (p[1] < n + 1 \/ p[2] < 1)
        /\ Met(ts[p[1]], p[2], g)
    BY DEF Before
  <2>2. p[1] \in 1 .. n
    <3>1. p[1] \in Nat /\ p[2] \in Nat /\ p[2] >= 1
      <4>1. p[2] \in Nat /\ p[1] \in Nat
        BY <2>1
      <4>2. ASSUME NEW x, p[2] \in 1 .. x PROVE p[2] >= 1
        BY <4>2
      <4> QED BY <2>1, <4>1, <4>2
    <3> QED BY <2>1, <3>1
  <2>3. p[1] < n \/ p[2] < i
    <3> SUFFICES ASSUME ~(p[1] < n), ~(p[2] < i) PROVE FALSE
      OBVIOUS
    <3>1. p[1] = n /\ p[2] >= i /\ p[2] \in Nat
      BY <2>1, <2>2
    <3> QED BY <2>1, <3>1
  <2> QED BY <2>1, <2>2, <2>3 DEF Before
<1>2. ASSUME NEW p \in Before(ts, n, i)[g] PROVE p \in Before(ts, n + 1, 1)[g]
  <2>1. /\ p \in (1 .. n) \X Nat /\ p[2] \in 1 .. Len(ts[p[1]]) + 1
        /\ Met(ts[p[1]], p[2], g)
    BY DEF Before
  <2>2. p \in (1 .. n + 1) \X Nat /\ p[1] < n + 1
    BY <2>1
  <2> QED BY <2>1, <2>2 DEF Before
<1> QED BY <1>1, <1>2

\* Places that are the same are the same table
LEMMA SameTable ==
    ASSUME NEW t, NEW E, NEW F, IsTable(t, E), \A g \in Grams : F[g] = E[g]
    PROVE  IsTable(t, F)
BY DEF IsTable

-----------------------------------------------------------------------------
(* Steps. *)

LEMMA TextsSame ==
    ASSUME kind' = kind, doc' = doc
    PROVE  Texts' = Texts
BY TextsKept DEF Texts

LEMMA TextOfSentence ==
    ASSUME Shape, sentence \in 1 .. Len(doc)
    PROVE  Texts[sentence] = TextOf(doc[sentence]) /\ Texts[sentence] \in Seq(Words)
<1>1. sentence \in DOMAIN doc /\ doc[sentence] \in Seq(Node)
  BY DEF Shape
<1> QED BY <1>1, TextType DEF Texts

LEMMA NothingBefore ==
    ASSUME NEW ts, NEW n \in {0, 1}, NEW g \in Grams
    PROVE  Before(ts, n, 1)[g] = {}
<1> SUFFICES ASSUME NEW p \in Before(ts, n, 1)[g] PROVE FALSE
  OBVIOUS
<1>1. p \in (1 .. n) \X Nat /\ p[2] \in 1 .. Len(ts[p[1]]) + 1 /\ (p[1] < n \/ p[2] < 1)
  BY DEF Before
<1>2. ASSUME NEW x, p[2] \in 1 .. x PROVE p[2] >= 1
  BY <1>2
<1>3. p[1] \in Nat /\ p[1] >= 1 /\ p[1] <= n /\ p[2] \in Nat /\ p[2] >= 1
  BY <1>1, <1>2
<1> QED BY <1>1, <1>3

LEMMA InitInv ==
    ASSUME Init
    PROVE  Inv
<1>1. Shape
  <2>1. doc \in Documents /\ doc \in Seq(Seq(Node)) /\ kind \in Kinds
    BY MarkedTextAssumption DEF Init
  <2>2. text = <<>> /\ text \in Seq(Words) /\ Len(text) = 0
    BY DEF Init
  <2>3. DOMAIN table = {} /\ DOMAIN tags = {}
    BY DEF Init
  <2>4. 0 \in 0 .. Len(doc) + 1
    <3>1. Len(doc) \in Nat
      BY <2>1
    <3> QED BY <3>1
  <2>5. 1 \in 1 .. L + 2
    BY <2>2 DEF L
  <2>6. /\ pc = "prepare" /\ sentence = 0 /\ index = 1 /\ foundEnd = FALSE /\ nonstopcounter = 0
    BY DEF Init
  <2> HIDE DEF Init
  <2> QED BY <2>1, <2>2, <2>3, <2>4, <2>5, <2>6 DEF Shape
<1>2. LoopInv
  BY DEF Init, LoopInv
<1>3. TableInv
  <2>1. DOMAIN table = {} /\ DOMAIN tags = {} /\ sentence = 0 /\ Reached = 1
    BY DEF Init, Reached
  <2>2. \A g \in Grams : Before(Texts, 0, 1)[g] = {}
    BY NothingBefore
  <2>3. IsTable(table, Before(Texts, 0, 1))
    BY <2>1, <2>2 DEF IsTable
  <2> QED BY <2>1, <2>3 DEF TableInv
<1> QED BY <1>1, <1>2, <1>3 DEF Inv

LEMMA PrepareStep ==
    ASSUME Inv, Prepare
    PROVE  Inv'
<1>0. /\ doc \in Seq(Seq(Node)) /\ pc = "prepare" /\ pc' = "sentence" /\ sentence' = 1 /\ kind' = kind
      /\ table' = table /\ tags' = tags /\ DOMAIN table = {} /\ DOMAIN tags = {}
  BY DEF Prepare, Inv, Shape
<1>1. doc' \in Seq(Seq(Node))
  <2> DEFINE new(s) == [i \in DOMAIN doc[s] |-> Prepared(doc[s][i])]
  <2>1. ASSUME NEW s \in DOMAIN doc PROVE new(s) \in Seq(Node)
    <3> DEFINE nodes == doc[s]
    <3>1. nodes \in Seq(Node)
      BY <1>0
    <3> HIDE DEF nodes
    <3>2. ASSUME NEW i \in DOMAIN nodes PROVE Prepared(nodes[i]) \in Node
      <4>1. nodes[i] \in Node
        BY <3>1
      <4> QED BY <4>1, PreparedType
    <3>3. Len(nodes) \in Nat /\ DOMAIN nodes = 1 .. Len(nodes)
      BY <3>1
    <3>4. [i \in DOMAIN nodes |-> Prepared(nodes[i])] \in Seq(Node)
      BY <3>2, <3>3
    <3> QED BY <3>4 DEF nodes
  <2>2. doc' = [s \in DOMAIN doc |-> new(s)]
    BY DEF Prepare
  <2>3. Len(doc) \in Nat /\ DOMAIN doc = 1 .. Len(doc)
    BY <1>0
  <2> HIDE DEF new
  <2> QED BY <2>1, <2>2, <2>3
<1>2. Shape'
  <2>1. Len(doc') \in Nat
    BY <1>1
  <2>2. L' = L
    BY DEF Prepare, L
  <2> QED BY <1>0, <1>1, <2>1, <2>2 DEF Inv, Shape, Prepare
<1>3. LoopInv'
  BY <1>0 DEF LoopInv
<1>4. TableInv'
  <2>1. \A g \in Grams : Before(Texts', 1, 1)[g] = {}
    BY NothingBefore
  <2>2. IsTable(table', Before(Texts', 1, 1))
    BY <1>0, <2>1 DEF IsTable
  <2>3. Reached' = 1
    BY <1>0 DEF Reached
  <2> QED BY <1>0, <2>2, <2>3 DEF TableInv
<1> QED BY <1>2, <1>3, <1>4 DEF Inv

\* A step that counts nothing
LEMMA TableStays ==
    ASSUME TableInv, kind' = kind, doc' = doc, table' = table, kind = "ngrams" => tags' = tags,
           kind = "ngrams" => \A g \in Grams :
               Before(Texts, sentence', Reached')[g] = Before(Texts, sentence, Reached)[g]
    PROVE  TableInv'
<1>1. Texts' = Texts
  BY TextsSame
<1>2. kind = "ngrams" => IsTable(table, Before(Texts, sentence', Reached'))
  BY SameTable DEF TableInv
<1> QED BY <1>1, <1>2 DEF TableInv

LEMMA FinishStep ==
    ASSUME Inv, Finish
    PROVE  Inv'
<1>1. /\ pc = "sentence" /\ pc' = "end" /\ doc' = doc /\ kind' = kind /\ sentence' = sentence
      /\ table' = table /\ tags' = tags /\ text' = text
  BY DEF Finish
<1>2. Len(doc) \in Nat /\ sentence = Len(doc) + 1
  BY DEF Inv, Shape, Finish
<1>3. Shape'
  BY <1>1, <1>2 DEF Inv, Shape, Finish, L
<1>4. LoopInv'
  BY <1>1 DEF LoopInv
<1>5. TableInv'
  <2>1. Reached' = Reached
    BY <1>1 DEF Reached
  <2> QED BY <1>1, <2>1, TableStays DEF Inv
<1> QED BY <1>3, <1>4, <1>5 DEF Inv

LEMMA TagSentenceStep ==
    ASSUME Inv, TagSentence
    PROVE  Inv'
<1>1. /\ pc = "sentence" /\ pc' \in {"undefined", "sentence"} /\ doc' = doc /\ kind' = kind
      /\ sentence' = sentence + 1 /\ sentence <= Len(doc) /\ kind # "ngrams"
      /\ table' = table /\ text' = text
  BY DEF TagSentence
<1>2. Shape'
  BY <1>1 DEF Inv, Shape, TagSentence, L
<1>3. LoopInv'
  BY <1>1 DEF LoopInv
<1>4. TableInv'
  BY <1>1, TableStays DEF Inv
<1> QED BY <1>2, <1>3, <1>4 DEF Inv

LEMMA WithoutIdStep ==
    ASSUME Inv, WithoutId
    PROVE  Inv'
<1>1. /\ pc = "sentence" /\ pc' = "undefined" /\ doc' = doc /\ kind' = kind
      /\ sentence' = sentence /\ kind # "ngrams" /\ table' = table /\ text' = text
  BY DEF WithoutId
<1>2. Shape'
  BY <1>1 DEF Inv, Shape, WithoutId, L
<1>3. LoopInv'
  BY <1>1 DEF LoopInv
<1>4. TableInv'
  BY <1>1, TableStays DEF Inv
<1> QED BY <1>2, <1>3, <1>4 DEF Inv

LEMMA ReadStep ==
    ASSUME Inv, Read
    PROVE  Inv'
<1>1. /\ pc = "sentence" /\ pc' = "strip" /\ doc' = doc /\ kind' = kind /\ kind = "ngrams"
      /\ sentence' = sentence /\ sentence <= Len(doc) /\ nonstopcounter' = nonstopcounter
      /\ table' = table /\ tags' = tags /\ index' = 1 /\ foundEnd' = FALSE
  BY DEF Read
<1>2. sentence \in 1 .. Len(doc) /\ nonstopcounter = 0
  BY <1>1 DEF Inv, Shape
<1>3. Texts' = Texts
  BY <1>1, TextsSame
<1>4. text' = Texts[sentence] /\ text' \in Seq(Words)
  <2>1. text' = TextOf(doc[sentence])
    BY DEF Read, TextOf, Nodes
  <2> QED BY <1>2, <2>1, TextOfSentence DEF Inv
<1>5. Shape'
  <2>1. L' \in Nat
    BY <1>4 DEF L
  <2>2. index' \in 1 .. L' + 2 /\ foundEnd' \in BOOLEAN /\ nonstopcounter' = 0
    <3>1. index' = 1 /\ foundEnd' \in BOOLEAN
      BY <1>1
    <3>2. nonstopcounter' = 0
      BY <1>1, <1>2
    <3>3. 1 \in 1 .. L' + 2
      <4> DEFINE l == L'
      <4>1. l \in Nat
        BY <2>1
      <4> HIDE DEF l
      <4>2. 1 \in 1 .. l + 2
        BY <4>1
      <4> QED BY <4>2 DEF l
    <3> QED BY <3>1, <3>2, <3>3
  <2>3. sentence' \in 0 .. Len(doc') + 1 /\ sentence' # 0 /\ doc' \in Seq(Seq(Node))
    BY <1>1, <1>2 DEF Inv, Shape
  <2>4. text' = Texts'[sentence']
    BY <1>1, <1>3, <1>4
  <2>5. kind' \in Kinds /\ sentence' <= Len(doc')
    BY <1>1 DEF Inv, Shape
  <2> QED BY <1>1, <1>4, <2>2, <2>3, <2>4, <2>5 DEF Shape
<1>6. LoopInv'
  BY <1>1 DEF LoopInv, StripInv
<1>7. TableInv'
  <2>1. Reached' = Reached
    BY <1>1 DEF Reached
  <2> QED BY <1>1, <2>1, TableStays DEF Inv
<1> QED BY <1>5, <1>6, <1>7 DEF Inv

LEMMA InSentence ==
    ASSUME Inv, pc \in {"strip", "count", "ngrams"}
    PROVE  /\ kind = "ngrams" /\ sentence \in 1 .. Len(doc) /\ sentence \in Nat
           /\ text = Texts[sentence] /\ text \in Seq(Words)
           /\ L \in Nat /\ DOMAIN text = 1 .. L /\ L = Len(text)
           /\ index \in Nat /\ 1 <= index /\ index <= L + 2 /\ nonstopcounter \in Nat
           /\ foundEnd \in BOOLEAN /\ Reached = index
<1>1. text \in Seq(Words) /\ L = Len(text) /\ L \in Nat /\ DOMAIN text = 1 .. L
  BY DEF Inv, Shape, L
<1>2. kind = "ngrams" /\ text = Texts[sentence] /\ sentence \in 1 .. Len(doc)
  BY DEF Inv, Shape
<1>3. index \in 1 .. L + 2 /\ nonstopcounter \in Nat /\ foundEnd \in BOOLEAN
  BY DEF Inv, Shape
<1>4. Reached = index
  BY DEF Reached
<1>5. index \in Nat /\ 1 <= index /\ index <= L + 2
  BY <1>1, <1>3
<1> QED BY <1>1, <1>2, <1>3, <1>4, <1>5

\* What the loops over a sentence keep
LEMMA ShapeStays ==
    ASSUME Inv, pc \in {"strip", "count", "ngrams"}, pc' \in {"strip", "count", "ngrams"},
           UNCHANGED <<kind, doc, sentence, text>>,
           index' \in Nat, 1 <= index', index' <= L + 2, foundEnd' \in BOOLEAN,
           nonstopcounter' \in Nat, pc' = "strip" => nonstopcounter' = 0
    PROVE  Shape'
<1>1. Texts' = Texts
  BY TextsSame
<1>2. L' = L /\ index' \in 1 .. L' + 2
  <2>1. L' = L /\ L \in Nat
    BY InSentence DEF L
  <2> QED BY <2>1
<1> QED BY <1>1, <1>2 DEF Inv, Shape

\* The word at the end, or the one before it
LEMMA EndsWhen ==
    /\ L \in Nat /\ DOMAIN text = 1 .. L =>
         /\ L # 0 /\ text[L] \notin Stopwords => ~EndsInStopwords(text)
         /\ L > 1 /\ text[L - 1] \notin Stopwords => ~EndsInStopwords(text)
         /\ (L # 0 => text[L] \in Stopwords) /\ (L > 1 => text[L - 1] \in Stopwords)
               => EndsInStopwords(text)
<1> SUFFICES ASSUME L \in Nat, DOMAIN text = 1 .. L
             PROVE  /\ L # 0 /\ text[L] \notin Stopwords => ~EndsInStopwords(text)
                    /\ L > 1 /\ text[L - 1] \notin Stopwords => ~EndsInStopwords(text)
                    /\ (L # 0 => text[L] \in Stopwords) /\ (L > 1 => text[L - 1] \in Stopwords)
                          => EndsInStopwords(text)
  OBVIOUS
<1>1. EndsInStopwords(text) <=> \A i \in 1 .. L : i >= L - 1 => text[i] \in Stopwords
  BY DEF EndsInStopwords, L
<1>2. L # 0 => L \in 1 .. L /\ L >= L - 1
  OBVIOUS
<1>3. L > 1 => L - 1 \in 1 .. L /\ L - 1 >= L - 1
  OBVIOUS
<1>4. \A i \in 1 .. L : i >= L - 1 => i = L \/ (i = L - 1 /\ L > 1)
  OBVIOUS
<1> QED BY <1>1, <1>2, <1>3, <1>4

LEMMA StripStep ==
    ASSUME Inv, Strip
    PROVE  Inv'
<1>0. /\ kind = "ngrams" /\ sentence \in 1 .. Len(doc) /\ sentence \in Nat
      /\ text = Texts[sentence] /\ text \in Seq(Words)
      /\ L \in Nat /\ DOMAIN text = 1 .. L /\ L = Len(text)
      /\ index \in Nat /\ 1 <= index /\ index <= L + 2 /\ nonstopcounter = 0 /\ Reached = index
  BY InSentence DEF Strip, Inv, Shape
<1>1. /\ pc = "strip" /\ kind' = kind /\ doc' = doc /\ sentence' = sentence /\ text' = text
      /\ table' = table /\ tags' = tags /\ L' = L
      /\ foundEnd' = (index >= L) /\ foundEnd' \in BOOLEAN
  BY DEF Strip, L
<1>2. StripInv
  BY <1>1 DEF Inv, LoopInv
<1>3. index = 1 \/ index <= L
  BY <1>0, <1>2 DEF StripInv
<1>4. ASSUME pc' \in {"strip", "count"}, index' \in Nat, 1 <= index', index' <= L + 2,
             nonstopcounter' \in Nat, pc' = "strip" => nonstopcounter' = 0,
             pc' = "strip" => StripInv', pc' = "count" => CountInv',
             \/ index' = index
             \/ index' = index + 1 /\ index \in 1 .. L /\ text[index] \in Stopwords
      PROVE  Inv'
  <2>1. Shape'
    BY <1>1, <1>4, ShapeStays
  <2>2. LoopInv'
    BY <1>4 DEF LoopInv
  <2>3. Reached' = index'
    BY <1>4 DEF Reached
  <2>4. \A g \in Grams : Before(Texts, sentence, index')[g] = Before(Texts, sentence, index)[g]
    <3>1. CASE index' = index
      BY <3>1
    <3>2. CASE index' = index + 1 /\ index \in 1 .. L /\ text[index] \in Stopwords
      <4>1. ASSUME NEW m \in index .. (index + 1) - 1, NEW g \in Grams PROVE ~Met(Texts[sentence], m, g)
        <5>1. m = index
          BY <1>0
        <5> QED BY <1>0, <3>2, <5>1, NoneAtStopword
      <4>2. index + 1 \in Nat /\ index <= index + 1
        BY <1>0
      <4>3. \A g \in Grams : Before(Texts, sentence, index + 1)[g] = Before(Texts, sentence, index)[g]
        BY <1>0, <4>1, <4>2, SamePlaces
      <4> QED BY <3>2, <4>3
    <3> QED BY <1>4, <3>1, <3>2
  <2>5. TableInv'
    BY <1>0, <1>1, <2>3, <2>4, TableStays DEF Inv
  <2> QED BY <2>1, <2>2, <2>5 DEF Inv
<1>5. CASE IsStopwordAt(index) /\ ~(index >= L)
  <2>1. pc' = pc /\ nonstopcounter' = nonstopcounter /\ index' = index + 1
    <3>1. ~foundEnd' /\ IsStopwordAt(index)
      BY <1>1, <1>5
    <3>2. pc' = pc /\ nonstopcounter' = nonstopcounter
      BY <3>1 DEF Strip
    <3>3. index <= Len(text)
      BY <1>0, <1>5
    <3>4. index' = index + 1
      BY <3>1, <3>3 DEF Strip
    <3> QED BY <3>2, <3>4
  <2>2. index < L /\ index \in 1 .. L /\ text[index] \in Stopwords
    <3>1. index < L
      BY <1>0, <1>5
    <3> QED BY <1>0, <1>5, <3>1 DEF IsStopwordAt, L
  <2>3. StripInv'
    <3>1. index' < L \/ (index' = L /\ text[L - 1] \in Stopwords)
      <4>1. index + 1 = L => L - 1 = index
        BY <1>0
      <4>2. index + 1 < L \/ index + 1 = L
        BY <1>0, <2>2
      <4> QED BY <2>1, <2>2, <4>1, <4>2
    <3> QED BY <1>1, <3>1 DEF StripInv
  <2>4. index' \in Nat /\ 1 <= index' /\ index' <= L + 2
    BY <1>0, <2>1, <2>2
  <2> QED BY <1>0, <1>1, <1>4, <2>1, <2>2, <2>3, <2>4
<1>6. CASE ~IsStopwordAt(index)
  <2>1. index <= L /\ text[index] \notin Stopwords
    BY <1>6 DEF IsStopwordAt, L
  <2>2. pc' = "count" /\ index' = index /\ nonstopcounter' = IF index >= L THEN 1 ELSE 0
    BY <1>1, <1>6 DEF Strip, L
  <2>3. CountInv'
    <3>1. CASE index >= L
      <4>1. index = L /\ L # 0 /\ nonstopcounter' = 1 /\ index' = L /\ foundEnd' = TRUE
        <5>1. index = L /\ L # 0
          BY <1>0, <2>1, <3>1
        <5>2. foundEnd' = TRUE
          BY <1>1, <3>1
        <5> QED BY <2>2, <3>1, <5>1, <5>2
      <4>2. ~EndsInStopwords(text)
        BY <1>0, <2>1, <4>1, EndsWhen
      <4>3. \A i \in index' .. index' + nonstopcounter' - 1 : i <= L /\ text[i] \notin Stopwords
        <5>1. \A i \in L .. L + 1 - 1 : i = L
          BY <1>0
        <5> QED BY <1>0, <2>1, <4>1, <5>1
      <4>4. index' + nonstopcounter' = L + 1
        BY <4>1
      <4>5. WordsAhead'
        BY <1>1, <4>2, <4>3, <4>4 DEF WordsAhead
      <4> QED BY <4>1, <4>5 DEF CountInv
    <3>2. CASE ~(index >= L)
      <4>1. nonstopcounter' = 0 /\ index' = index /\ foundEnd' = FALSE
        BY <1>1, <2>2, <3>2
      <4>2. \A i \in index' .. index' + nonstopcounter' - 1 : FALSE
        BY <1>0, <4>1
      <4>3. WordsAhead'
        BY <4>1, <4>2 DEF WordsAhead
      <4>4. index' + nonstopcounter' <= L
        BY <1>0, <2>1, <4>1
      <4> QED BY <1>1, <2>1, <4>1, <4>3, <4>4 DEF CountInv
    <3> QED BY <3>1, <3>2
  <2>4. nonstopcounter' \in Nat
    BY <2>2
  <2> QED BY <1>0, <1>4, <2>2, <2>3, <2>4
<1>7. CASE IsStopwordAt(index) /\ index >= L
  <2>1. pc' = "count" /\ nonstopcounter' = 1 /\ index' = (IF index <= L THEN index + 1 ELSE index)
        /\ foundEnd' = TRUE
    BY <1>1, <1>7 DEF Strip, L
  <2>2. \/ index = L /\ L # 0 /\ index' = index + 1 /\ text[index] \in Stopwords
        \/ L = 0 /\ index = 1 /\ index' = index
    <3>1. index <= L => text[index] \in Stopwords
      BY <1>7 DEF IsStopwordAt, L
    <3> QED BY <1>0, <1>3, <1>7, <2>1, <3>1
  <2>3. index' = L + 1
    BY <1>0, <2>2
  <2>4. EndsInStopwords(text)
    <3>1. L # 0 => text[L] \in Stopwords
      BY <2>2
    <3>2. L > 1 => text[L - 1] \in Stopwords
      <4>1. L > 1 => index # 1 /\ ~(index < L)
        BY <1>0, <2>2
      <4> QED BY <1>2, <4>1 DEF StripInv
    <3> QED BY <1>0, <3>1, <3>2, EndsWhen
  <2>5. index' + nonstopcounter' = L + 2
    BY <1>0, <2>1, <2>3
  <2>6. CountInv'
    BY <1>1, <2>1, <2>4, <2>5 DEF CountInv, EmptyAhead
  <2>7. index' \in Nat /\ 1 <= index' /\ index' <= L + 2 /\ nonstopcounter' \in Nat
    BY <1>0, <2>1, <2>3
  <2>8. \/ index' = index
        \/ index' = index + 1 /\ index \in 1 .. L /\ text[index] \in Stopwords
    BY <1>0, <2>2
  <2> QED BY <1>4, <2>1, <2>6, <2>7, <2>8
<1> QED BY <1>5, <1>6, <1>7

LEMMA CountWordsStep ==
    ASSUME Inv, CountWords
    PROVE  Inv'
<1> DEFINE tmp1 == index + nonstopcounter
<1>0. /\ kind = "ngrams" /\ text \in Seq(Words)
      /\ L \in Nat /\ DOMAIN text = 1 .. L
      /\ index \in Nat /\ 1 <= index /\ index <= L + 2 /\ nonstopcounter \in Nat
      /\ foundEnd \in BOOLEAN /\ Reached = index
  BY InSentence DEF CountWords
<1>1. /\ pc = "count" /\ kind' = kind /\ doc' = doc /\ sentence' = sentence /\ text' = text
      /\ table' = table /\ tags' = tags /\ L' = L /\ index' = index
  BY DEF CountWords, L
<1>2. CountInv
  BY <1>1 DEF Inv, LoopInv
<1>3. ASSUME pc' \in {"count", "ngrams"}, nonstopcounter' \in Nat, foundEnd' \in BOOLEAN,
             pc' = "count" => CountInv', pc' = "ngrams" => NgramsInv'
      PROVE  Inv'
  <2>1. Shape'
    BY <1>0, <1>1, <1>3, ShapeStays
  <2>2. LoopInv'
    BY <1>3 DEF LoopInv
  <2>3. Reached' = Reached
    BY <1>0, <1>1, <1>3 DEF Reached
  <2>4. TableInv'
    BY <1>1, <2>3, TableStays DEF Inv
  <2> QED BY <2>1, <2>2, <2>4 DEF Inv
<1>4. CASE foundEnd
  <2>1. pc' = "ngrams" /\ foundEnd' = foundEnd /\ nonstopcounter' = nonstopcounter
    BY <1>4 DEF CountWords
  <2>2. CASE WordsAhead
    <3>1. WordsAhead'
      BY <1>1, <2>1, <2>2 DEF WordsAhead
    <3> QED BY <1>0, <1>3, <1>4, <2>1, <3>1 DEF NgramsInv
  <2>3. CASE EmptyAhead
    <3>1. EmptyAhead'
      BY <1>1, <2>1, <2>3 DEF EmptyAhead
    <3> QED BY <1>0, <1>3, <1>4, <2>1, <3>1 DEF NgramsInv
  <2> QED BY <1>2, <2>2, <2>3 DEF CountInv
<1>5. CASE ~foundEnd
  <2>0. WordsAhead
    BY <1>2, <1>5 DEF CountInv, EmptyAhead
  <2>1. /\ tmp1 <= L /\ tmp1 \in Nat /\ 1 <= tmp1
        /\ nonstopcounter = 0 => text[tmp1] \notin Stopwords
    <3>1. nonstopcounter = 0 => tmp1 = index
      BY <1>0
    <3> QED BY <1>0, <1>2, <1>5, <3>1 DEF CountInv, EmptyAhead
  <2>2. /\ (foundEnd' <=> tmp1 >= L) /\ foundEnd' \in BOOLEAN
        /\ IF IsStopwordAt(tmp1) THEN pc' = "ngrams" /\ nonstopcounter' = nonstopcounter
           ELSE pc' = "count" /\ nonstopcounter' = nonstopcounter + 1
    <3>1. foundEnd' = (tmp1 >= Len(text))
      BY <1>5, Zenon DEF CountWords
    <3>2. IF IsStopwordAt(tmp1) THEN pc' = "ngrams" /\ nonstopcounter' = nonstopcounter
          ELSE pc' = pc /\ nonstopcounter' = nonstopcounter + 1
      BY <1>5, Zenon DEF CountWords
    <3>3. (foundEnd' <=> tmp1 >= L) /\ foundEnd' \in BOOLEAN
      <4>1. (tmp1 >= Len(text)) \in BOOLEAN
        OBVIOUS
      <4> HIDE DEF tmp1
      <4> QED BY <3>1, <4>1, Zenon DEF L
    <3> QED BY <1>1, <3>2, <3>3
  <2>3. IsStopwordAt(tmp1) <=> text[tmp1] \in Stopwords
    BY <2>1 DEF IsStopwordAt, L
  <2>4. \A i \in index .. tmp1 - 1 : i <= L /\ text[i] \notin Stopwords
    <3>1. \A i \in index .. index + nonstopcounter - 1 : i <= L /\ text[i] \notin Stopwords
      BY <2>0, Zenon DEF WordsAhead
    <3>2. index .. index + nonstopcounter - 1 = index .. tmp1 - 1
      BY <1>0
    <3> QED BY <3>1, <3>2
  <2>5. tmp1 >= L => tmp1 = L
    BY <1>0, <2>1
  <2>6. CASE text[tmp1] \in Stopwords
    <3>1. pc' = "ngrams" /\ nonstopcounter' = nonstopcounter
      BY <2>2, <2>3, <2>6
    <3>2. nonstopcounter # 0
      BY <2>1, <2>6
    <3>3. tmp1 - 1 \in index .. tmp1 - 1 /\ tmp1 - 1 >= 1
      BY <1>0, <2>1, <3>2
    <3>4. text[tmp1 - 1] \notin Stopwords
      BY <2>4, <3>3
    <3>5. tmp1 >= L => L > 1 /\ text[L - 1] \notin Stopwords
      BY <1>0, <2>5, <3>3, <3>4
    <3>6. tmp1 >= L => ~EndsInStopwords(text)
      BY <1>0, <3>5, EndsWhen
    <3>7. WordsAhead'
      <4>2. index' + nonstopcounter' = tmp1
        BY <1>1, <3>1
      <4>1. \A i \in index' .. index' + nonstopcounter' - 1 : i <= L /\ text[i] \notin Stopwords
        <5>1. index' .. index' + nonstopcounter' - 1 = index .. tmp1 - 1
          BY <1>0, <1>1, <3>1
        <5> HIDE DEF tmp1
        <5> QED BY <2>4, <5>1
      <4>3. foundEnd' => /\ ~EndsInStopwords(text)
                         /\ tmp1 = L /\ L # 0 /\ text[L] \in Stopwords
        BY <2>1, <2>2, <2>5, <2>6, <3>6
      <4> QED BY <1>1, <4>1, <4>2, <4>3 DEF WordsAhead
    <3>8. NgramsInv'
      <4>1. ~foundEnd' => tmp1 < L
        BY <1>0, <2>1, <2>2
      <4>2. index' + nonstopcounter' = tmp1
        BY <1>1, <3>1
      <4> QED BY <1>1, <2>6, <3>7, <4>1, <4>2 DEF NgramsInv
    <3> QED BY <1>0, <1>3, <2>2, <3>1, <3>8
  <2>7. CASE text[tmp1] \notin Stopwords
    <3>1. pc' = "count" /\ nonstopcounter' = nonstopcounter + 1 /\ nonstopcounter' \in Nat
      BY <1>0, <2>2, <2>3, <2>7
    <3>2. index' + nonstopcounter' = tmp1 + 1
      BY <1>0, <1>1, <3>1
    <3>3. \A i \in index' .. index' + nonstopcounter' - 1 : i <= L /\ text[i] \notin Stopwords
      <4>1. \A i \in index .. (tmp1 + 1) - 1 : i \in index .. tmp1 - 1 \/ i = tmp1
        BY <1>0
      <4>2. \A i \in index .. (tmp1 + 1) - 1 : i <= L /\ text[i] \notin Stopwords
        BY <2>1, <2>4, <2>7, <4>1, Zenon
      <4>3. index' .. index' + nonstopcounter' - 1 = index .. (tmp1 + 1) - 1
        BY <1>0, <1>1, <3>1
      <4> HIDE DEF tmp1
      <4> QED BY <4>2, <4>3
    <3>4. tmp1 >= L => ~EndsInStopwords(text) /\ tmp1 + 1 = L + 1
      <4>1. tmp1 >= L => L # 0 /\ text[L] \notin Stopwords
        BY <1>0, <2>1, <2>5, <2>7
      <4> QED BY <1>0, <2>5, <4>1, EndsWhen
    <3>5. WordsAhead'
      BY <1>1, <2>2, <3>2, <3>3, <3>4 DEF WordsAhead
    <3>6. ~foundEnd' => index' + nonstopcounter' <= L
      BY <1>0, <2>1, <2>2, <3>2
    <3>7. nonstopcounter' # 0
      BY <1>0, <3>1
    <3>8. CountInv'
      BY <1>1, <3>5, <3>6, <3>7 DEF CountInv
    <3> QED BY <1>3, <2>2, <3>1, <3>8
  <2> QED BY <2>6, <2>7
<1> QED BY <1>0, <1>4, <1>5

LEMMA EndOfRunStep ==
    ASSUME Inv, EndOfRun
    PROVE  Inv'
<1>0. /\ kind = "ngrams" /\ sentence \in 1 .. Len(doc) /\ sentence \in Nat
      /\ text = Texts[sentence] /\ text \in Seq(Words)
      /\ L \in Nat /\ DOMAIN text = 1 .. L /\ L = Len(text)
      /\ index \in Nat /\ 1 <= index /\ index <= L + 2 /\ nonstopcounter = 0
      /\ foundEnd \in BOOLEAN /\ Reached = index
  BY InSentence DEF EndOfRun
<1>1. /\ pc = "ngrams" /\ kind' = kind /\ doc' = doc /\ text' = text
      /\ table' = table /\ tags' = tags /\ L' = L /\ index' = index
      /\ foundEnd' = foundEnd /\ nonstopcounter' = 0
  BY DEF EndOfRun, L
<1>2. NgramsInv
  BY <1>1 DEF Inv, LoopInv
<1>3. CASE ~foundEnd
  <2>1. pc' = "strip" /\ sentence' = sentence
    BY <1>3 DEF EndOfRun
  <2>2. index < L
    BY <1>0, <1>2, <1>3 DEF NgramsInv, EmptyAhead
  <2>3. Shape'
    BY <1>0, <1>1, <2>1, ShapeStays
  <2>4. LoopInv'
    BY <1>1, <2>1, <2>2 DEF LoopInv, StripInv
  <2>5. Reached' = Reached
    BY <1>0, <1>1, <2>1 DEF Reached
  <2>6. TableInv'
    BY <1>1, <2>1, <2>5, TableStays DEF Inv
  <2> QED BY <2>3, <2>4, <2>6 DEF Inv
<1>4. CASE foundEnd
  <2>1. pc' = "sentence" /\ sentence' = sentence + 1
    BY <1>4 DEF EndOfRun
  <2>2. Shape'
    <3>1. Len(doc) \in Nat /\ doc \in Seq(Seq(Node)) /\ kind \in Kinds
      BY DEF Inv, Shape
    <3>2. sentence' \in 0 .. Len(doc') + 1 /\ sentence' # 0
      BY <1>0, <1>1, <2>1, <3>1
    <3>3. index' \in 1 .. L' + 2 /\ text' \in Seq(Words)
      BY <1>0, <1>1
    <3> QED BY <1>0, <1>1, <2>1, <3>1, <3>2, <3>3 DEF Shape
  <2>3. LoopInv'
    BY <2>1 DEF LoopInv
  <2>4. Reached' = 1
    BY <2>1 DEF Reached
  <2>5. ASSUME NEW m \in Nat, NEW g \in Grams, m >= index, m \in 1 .. L + 1
        PROVE  ~Met(text, m, g)
    <3>1. Len(g) \in Nat
      BY GramFacts
    <3>2. CASE EmptyAhead
      <4>1. index = L + 2
        BY <1>0, <3>2 DEF EmptyAhead
      <4> QED BY <1>0, <2>5, <4>1
    <3>3. CASE WordsAhead
      <4>1. /\ ~EndsInStopwords(text)
            /\ index = L + 1 \/ (index = L /\ L # 0 /\ text[L] \in Stopwords)
        <5>1. index + nonstopcounter = index
          BY <1>0
        <5> QED BY <1>4, <3>3, <5>1 DEF WordsAhead
      <4>2. CASE m = L + 1
        <5>1. Len(g) # 0 => ~(m + Len(g) - 1 <= L)
          BY <1>0, <3>1, <4>2
        <5> QED BY <1>0, <4>1, <5>1 DEF Met
      <4>3. CASE m # L + 1
        <5>1. m = L /\ L # 0 /\ text[L] \in Stopwords
          BY <1>0, <2>5, <4>1, <4>3
        <5>2. L \in 1 .. Len(text)
          BY <1>0, <5>1
        <5> QED BY <1>0, <5>1, <5>2, NoneAtStopword
      <4> QED BY <4>2, <4>3
    <3> QED BY <1>2, <1>4, <3>2, <3>3 DEF NgramsInv
  <2>6. \A g \in Grams : Before(Texts, sentence + 1, 1)[g] = Before(Texts, sentence, index)[g]
    <3>1. \A m \in Nat : \A g \in Grams :
             m >= index /\ m \in 1 .. Len(Texts[sentence]) + 1 => ~Met(Texts[sentence], m, g)
      BY <1>0, <2>5
    <3> QED BY <1>0, <3>1, NextSentence
  <2>7. TableInv'
    BY <1>0, <1>1, <2>1, <2>4, <2>6, TableStays DEF Inv
  <2> QED BY <2>2, <2>3, <2>7 DEF Inv
<1> QED BY <1>0, <1>3, <1>4

LEMMA MinOfTwo ==
    ASSUME NEW a \in Int, NEW b \in Int
    PROVE  Min({a, b}) = IF a <= b THEN a ELSE b
<1> DEFINE S == {a, b}
           m == IF a <= b THEN a ELSE b
<1>1. m \in S /\ m \in Int /\ \A y \in S : m <= y
  OBVIOUS
<1>2. S \subseteq Int
  OBVIOUS
<1> HIDE DEF S, m
<1>3. Min(S) \in S /\ \A y \in S : Min(S) <= y
  BY <1>1, Zenon DEF Min
<1>4. Min(S) \in Int /\ Min(S) <= m /\ m <= Min(S)
  BY <1>1, <1>2, <1>3
<1>5. Min(S) = m
  BY <1>1, <1>4
<1> QED BY <1>5 DEF S, m

LEMMA SubSeqOfText ==
    ASSUME NEW ws \in Seq(Words), NEW i \in 1 .. Len(ws) + 1, NEW n \in 0 .. 3, i + n - 1 <= Len(ws)
    PROVE  /\ SubSeq(ws, i, i + n - 1) \in Grams /\ Len(SubSeq(ws, i, i + n - 1)) = n
           /\ \A x \in 1 .. n : SubSeq(ws, i, i + n - 1)[x] = ws[i + x - 1]
<1> DEFINE e == i + n - 1
           l == Len(ws)
<1>1. l \in Nat /\ i \in Nat /\ 1 <= i /\ n \in Nat /\ n <= 3 /\ e \in Int /\ e - i + 1 = n /\ e <= l
  OBVIOUS
<1>2. \A x \in i .. e : ws[x] \in Words
  <2>1. DOMAIN ws = 1 .. l
    OBVIOUS
  <2> HIDE DEF l
  <2>2. \A x \in i .. e : x \in 1 .. l
    BY <1>1
  <2> QED BY <2>1, <2>2
<1> DEFINE g == SubSeq(ws, i, e)
<1>3. /\ g \in Seq(Words) /\ Len(g) = (IF i <= e THEN e - i + 1 ELSE 0)
      /\ \A x \in 1 .. e - i + 1 : g[x] = ws[i + x - 1]
  BY <1>1, <1>2, SubSeqProperties
<1>4. Len(g) = n
  <2> HIDE DEF g
  <2> QED BY <1>1, <1>3
<1>5. g \in Grams
  <2> HIDE DEF g
  <2>1. g \in [1 .. n -> Words]
    BY <1>3, <1>4
  <2> QED BY <2>1, GramsAre
<1>6. \A x \in 1 .. n : g[x] = ws[i + x - 1]
  <2> HIDE DEF g
  <2> QED BY <1>1, <1>3
<1> QED BY <1>4, <1>5, <1>6

\* Equal as sequences
LEMMA SameGram ==
    ASSUME NEW g \in Grams, NEW h \in Grams, Len(g) = Len(h), \A x \in 1 .. Len(g) : g[x] = h[x]
    PROVE  g = h
<1>1. Len(g) \in Nat /\ DOMAIN g = 1 .. Len(g) /\ g \in Seq(Words)
  BY GramFacts
<1>2. DOMAIN h = 1 .. Len(h) /\ h \in Seq(Words)
  BY GramFacts
<1> QED BY <1>1, <1>2

\* The n-grams at index are those that are met there
LEMMA GramsHere ==
    ASSUME Inv, pc = "ngrams", nonstopcounter > 0
    PROVE  \E n \in Nat :
              /\ DOMAIN NgramsAt(index) = 1 .. n
              /\ \A k \in 1 .. n : NgramsAt(index)[k] \in Grams
              /\ \A k, l \in 1 .. n : NgramsAt(index)[k] = NgramsAt(index)[l] => k = l
              /\ \A g \in Grams : (\E k \in 1 .. n : NgramsAt(index)[k] = g) <=> Met(text, index, g)
              /\ index <= L + 1
<1>0. /\ text \in Seq(Words)
      /\ L \in Nat /\ DOMAIN text = 1 .. L /\ L = Len(text)
      /\ index \in Nat /\ 1 <= index /\ index <= L + 2 /\ nonstopcounter \in Nat
      /\ foundEnd \in BOOLEAN
  BY InSentence
<1>1. NgramsInv
  BY DEF Inv, LoopInv
<1> DEFINE n  == IF 3 <= nonstopcounter THEN 3 ELSE nonstopcounter
           gs == NgramsAt(index)
<1>2. n \in 1 .. 3 /\ n \in Nat /\ n <= nonstopcounter
  BY <1>0
<1>3. gs = [k \in 1 .. n |-> SubSeq(text, index, Min({index + k - 1, L}))]
  <2>1. Min({3, nonstopcounter}) = n
    BY <1>0, MinOfTwo
  <2> QED BY <2>1 DEF NgramsAt, L
<1>4. CASE WordsAhead
  <2>1. \A i \in index .. index + nonstopcounter - 1 : i <= L /\ text[i] \notin Stopwords
    BY <1>4 DEF WordsAhead
  <2>2. index + nonstopcounter - 1 <= L
    <3>1. index + nonstopcounter - 1 \in index .. index + nonstopcounter - 1
      BY <1>0
    <3> QED BY <2>1, <3>1
  <2>3. ASSUME NEW k \in 1 .. n
        PROVE  /\ gs[k] \in Grams /\ Len(gs[k]) = k
               /\ \A x \in 1 .. k : gs[k][x] = text[index + x - 1]
               /\ index + k - 1 <= L
    <3>1. /\ k \in 0 .. 3 /\ index + k - 1 <= L /\ index + k - 1 \in Int
          /\ index \in 1 .. L + 1
      BY <1>0, <1>2, <2>2
    <3>2. Min({index + k - 1, L}) = index + k - 1
      BY <1>0, <3>1, MinOfTwo
    <3>3. gs[k] = SubSeq(text, index, index + k - 1)
      BY <1>3, <3>2
    <3> QED BY <1>0, <3>1, <3>3, SubSeqOfText
  <2>4. ASSUME NEW k \in 1 .. n, NEW l \in 1 .. n, gs[k] = gs[l] PROVE k = l
    BY <2>3, <2>4
  <2>5. ASSUME NEW k \in 1 .. n PROVE Met(text, index, gs[k])
    <3>1. Len(gs[k]) # 0 /\ index + Len(gs[k]) - 1 <= Len(text)
      BY <1>0, <2>3
    <3>2. ASSUME NEW x \in 1 .. k PROVE text[index + x - 1] \notin Stopwords
      <4>1. index + x - 1 \in index .. index + nonstopcounter - 1
        BY <1>0, <1>2
      <4> QED BY <2>1, <4>1
    <3>3. \A x \in 1 .. Len(gs[k]) : gs[k][x] = text[index + x - 1] /\ gs[k][x] \notin Stopwords
      BY <2>3, <3>2
    <3> HIDE DEF gs
    <3> QED BY <3>1, <3>3 DEF Met
  <2>6. ASSUME NEW g \in Grams, Met(text, index, g) PROVE \E k \in 1 .. n : gs[k] = g
    <3>1. Len(g) \in Nat /\ Len(g) <= 3
      BY GramFacts
    <3>2. /\ Len(g) # 0 /\ index + Len(g) - 1 <= L
          /\ \A x \in 1 .. Len(g) : g[x] = text[index + x - 1] /\ g[x] \notin Stopwords
      <4>1. index # L + 1
        BY <1>0, <2>2
      <4> QED BY <1>0, <2>6, <4>1 DEF Met
    <3> DEFINE k == Len(g)
    <3> HIDE DEF k
    <3>3. k \in Nat /\ k <= 3 /\ k # 0 /\ index + k - 1 <= L
      BY <3>1, <3>2 DEF k
    <3>4. k <= nonstopcounter
      <4> SUFFICES ASSUME ~(k <= nonstopcounter) PROVE FALSE
        OBVIOUS
      <4>1. nonstopcounter + 1 \in 1 .. k /\ index + (nonstopcounter + 1) - 1 = index + nonstopcounter
        BY <1>0, <3>3
      <4>2. text[index + nonstopcounter] \notin Stopwords
        BY <3>2, <4>1 DEF k
      <4>3. index + nonstopcounter <= L
        BY <1>0, <3>3
      <4>4. ~foundEnd => text[index + nonstopcounter] \in Stopwords
        BY <1>1 DEF NgramsInv, EmptyAhead
      <4>5. foundEnd => index + nonstopcounter = L + 1 \/ (index + nonstopcounter = L /\ text[L] \in Stopwords)
        BY <1>4 DEF WordsAhead
      <4> DEFINE e == index + nonstopcounter
      <4>6. foundEnd /\ e = L /\ text[L] \in Stopwords
        <5>1. e # L + 1
          BY <1>0, <4>3
        <5> HIDE DEF e
        <5> QED BY <1>0, <4>2, <4>4, <4>5, <5>1 DEF e
      <4> HIDE DEF e
      <4> QED BY <4>2, <4>6 DEF e
    <3>5. k \in 1 .. n
      BY <1>0, <3>3, <3>4
    <3>6. gs[k] = g
      <4> HIDE DEF gs, n
      <4>1. gs[k] \in Grams /\ Len(gs[k]) = k /\ \A x \in 1 .. k : gs[k][x] = text[index + x - 1]
        BY <2>3, <3>5
      <4>2. Len(g) = Len(gs[k]) /\ \A x \in 1 .. Len(g) : g[x] = gs[k][x]
        BY <3>2, <4>1 DEF k
      <4> QED BY <4>1, <4>2, SameGram
    <3> QED BY <3>5, <3>6
  <2>7. DOMAIN gs = 1 .. n /\ index <= L + 1
    BY <1>0, <1>3, <2>2
  <2> HIDE DEF gs, n
  <2>8. \A g \in Grams : (\E k \in 1 .. n : gs[k] = g) <=> Met(text, index, g)
    BY <2>5, <2>6
  <2>9. \A k \in 1 .. n : gs[k] \in Grams
    BY <2>3
  <2> QED BY <1>2, <2>4, <2>7, <2>8, <2>9 DEF gs
<1>5. CASE EmptyAhead
  <2>1. nonstopcounter = 1 /\ index = L + 1 /\ EndsInStopwords(text)
    BY <1>0, <1>5 DEF EmptyAhead
  <2>2. n = 1 /\ Min({index + 1 - 1, L}) = L /\ L = index + 0 - 1
    <3>1. index + 1 - 1 = L + 1 /\ L + 1 \in Int
      BY <1>0, <2>1
    <3>2. Min({L + 1, L}) = L
      BY <1>0, MinOfTwo
    <3> QED BY <1>0, <2>1, <3>1, <3>2
  <2>3. gs[1] = SubSeq(text, index, index + 0 - 1) /\ DOMAIN gs = 1 .. 1
    <3>1. DOMAIN gs = 1 .. 1 /\ 1 \in 1 .. 1
      BY <1>3, <2>2
    <3>2. gs[1] = SubSeq(text, index, Min({index + 1 - 1, L}))
      <4> HIDE DEF gs, n
      <4> QED BY <1>3, <2>2, <3>1
    <3> HIDE DEF gs
    <3> QED BY <2>2, <3>1, <3>2
  <2>4. gs[1] \in Grams /\ Len(gs[1]) = 0
    <3>1. index \in 1 .. Len(text) + 1 /\ 0 \in 0 .. 3 /\ index + 0 - 1 <= Len(text)
      BY <1>0, <2>1
    <3>2. SubSeq(text, index, index + 0 - 1) \in Grams /\ Len(SubSeq(text, index, index + 0 - 1)) = 0
      BY <1>0, <3>1, SubSeqOfText
    <3> HIDE DEF gs
    <3> QED BY <2>3, <3>2
  <2>5. ASSUME NEW g \in Grams PROVE (\E k \in 1 .. 1 : gs[k] = g) <=> Met(text, index, g)
    <3>1. Len(g) \in Nat
      BY GramFacts
    <3>2. Met(text, index, g) <=> Len(g) = 0
      BY <1>0, <2>1, <3>1 DEF Met
    <3> HIDE DEF gs
    <3>3. Len(g) = 0 => g = gs[1]
      BY <2>4, SameGram
    <3>4. g = gs[1] => Len(g) = 0
      BY <2>4
    <3> QED BY <3>2, <3>3, <3>4
  <2> HIDE DEF gs, n
  <2>6. 1 \in Nat /\ index <= L + 1 /\ \A k, l \in 1 .. 1 : k = l
    BY <1>0, <2>1
  <2>7. \A k \in 1 .. 1 : gs[k] \in Grams
    BY <2>4
  <2> QED BY <2>3, <2>5, <2>6, <2>7 DEF gs
<1> QED BY <1>1, <1>4, <1>5 DEF NgramsInv

\* The places up to the next one
LEMMA NextPlace ==
    ASSUME NEW ts, NEW n \in Nat \ {0}, NEW i \in Nat, i \in 1 .. Len(ts[n]) + 1, NEW g \in Grams
    PROVE  /\ <<n, i>> \notin Before(ts, n, i)[g]
           /\ \A p : p \in Before(ts, n, i + 1)[g] <=>
                        p \in Before(ts, n, i)[g] \/ (p = <<n, i>> /\ Met(ts[n], i, g))
<1>1. ASSUME NEW p PROVE p \in Before(ts, n, i + 1)[g] <=>
                            p \in Before(ts, n, i)[g] \/ (p = <<n, i>> /\ Met(ts[n], i, g))
  <2>1. ASSUME p \in Before(ts, n, i + 1)[g], p \notin Before(ts, n, i)[g]
        PROVE  p = <<n, i>> /\ Met(ts[n], i, g)
    <3>1. /\ p \in (1 .. n) \X Nat /\ p[2] \in 1 .. Len(ts[p[1]]) + 1 /\ (p[1] < n \/ p[2] < i + 1)
          /\ Met(ts[p[1]], p[2], g)
      BY <2>1 DEF Before
    <3>2. ~(p[1] < n \/ p[2] < i)
      BY <2>1, <3>1 DEF Before
    <3>3. p[1] = n /\ p[2] = i
      BY <3>1, <3>2
    <3> QED BY <3>1, <3>3
  <2>2. ASSUME p \in Before(ts, n, i)[g] PROVE p \in Before(ts, n, i + 1)[g]
    <3>1. /\ p \in (1 .. n) \X Nat /\ p[2] \in 1 .. Len(ts[p[1]]) + 1 /\ (p[1] < n \/ p[2] < i)
          /\ Met(ts[p[1]], p[2], g)
      BY <2>2 DEF Before
    <3>2. p[1] < n \/ p[2] < i + 1
      BY <3>1
    <3> QED BY <3>1, <3>2 DEF Before
  <2>3. ASSUME p = <<n, i>>, Met(ts[n], i, g) PROVE p \in Before(ts, n, i + 1)[g]
    <3>1. p[1] = n /\ p[2] = i /\ p \in (1 .. n) \X Nat /\ p[2] < i + 1
      BY <2>3
    <3> QED BY <2>3, <3>1 DEF Before
  <2> QED BY <2>1, <2>2, <2>3
<1>2. <<n, i>> \notin Before(ts, n, i)[g]
  BY DEF Before
<1> QED BY <1>1, <1>2

LEMMA CountNgramsStep ==
    ASSUME Inv, CountNgrams
    PROVE  Inv'
<1>0. /\ kind = "ngrams" /\ sentence \in Nat \ {0}
      /\ text = Texts[sentence] /\ text \in Seq(Words)
      /\ L \in Nat /\ DOMAIN text = 1 .. L /\ L = Len(text)
      /\ index \in Nat /\ 1 <= index /\ index <= L + 2 /\ nonstopcounter \in Nat
      /\ foundEnd \in BOOLEAN /\ Reached = index
  BY InSentence DEF CountNgrams
<1>1. /\ pc = "ngrams" /\ pc' = "ngrams" /\ kind' = kind /\ doc' = doc /\ sentence' = sentence
      /\ text' = text /\ tags' = tags /\ L' = L /\ foundEnd' = foundEnd
      /\ nonstopcounter > 0 /\ index' = index + 1 /\ nonstopcounter' = nonstopcounter - 1
      /\ table' = FoldLeft(Meet, table, NgramsAt(index))
  BY DEF CountNgrams, L
<1>2. PICK n \in Nat :
        /\ DOMAIN NgramsAt(index) = 1 .. n
        /\ \A k \in 1 .. n : NgramsAt(index)[k] \in Grams
        /\ \A k, l \in 1 .. n : NgramsAt(index)[k] = NgramsAt(index)[l] => k = l
        /\ \A g \in Grams : (\E k \in 1 .. n : NgramsAt(index)[k] = g) <=> Met(text, index, g)
        /\ index <= L + 1
  BY <1>1, GramsHere
<1>3. NgramsInv
  BY <1>1 DEF Inv, LoopInv
<1>4. Shape'
  BY <1>0, <1>1, <1>2, ShapeStays
<1>5. NgramsInv'
  <2>1. index' + nonstopcounter' = index + nonstopcounter /\ nonstopcounter' \in Nat /\ index' \in Nat
    BY <1>0, <1>1
  <2>2. CASE WordsAhead
    <3>1. \A i \in index' .. index' + nonstopcounter' - 1 : i \in index .. index + nonstopcounter - 1
      BY <1>0, <1>1
    <3>2. WordsAhead'
      BY <1>1, <2>1, <2>2, <3>1 DEF WordsAhead
    <3>3. ~foundEnd => index + nonstopcounter < L /\ text[index + nonstopcounter] \in Stopwords
      BY <1>3 DEF NgramsInv, EmptyAhead
    <3> QED BY <1>1, <2>1, <3>2, <3>3 DEF NgramsInv
  <2>3. CASE EmptyAhead
    <3>1. nonstopcounter' \in {0, 1}
      BY <1>1, <2>3 DEF EmptyAhead
    <3>2. EmptyAhead'
      BY <1>1, <2>1, <2>3, <3>1 DEF EmptyAhead
    <3> QED BY <3>2 DEF NgramsInv
  <2> QED BY <1>3, <2>2, <2>3 DEF NgramsInv
<1>6. LoopInv'
  BY <1>1, <1>5 DEF LoopInv
<1>7. TableInv'
  <2> DEFINE E  == Before(Texts, sentence, index)
             q  == <<sentence, index>>
             gs == NgramsAt(index)
             F  == Before(Texts, sentence, index + 1)
  <2>1. IsTable(table, E) /\ DOMAIN tags = {}
    BY <1>0 DEF Inv, TableInv
  <2>2. index \in 1 .. Len(Texts[sentence]) + 1
    BY <1>0, <1>2
  <2>3. \A g \in Grams : q \notin E[g]
    BY <1>0, <2>2, NextPlace
  <2>4. ASSUME NEW g \in Grams, NEW p
        PROVE  p \in F[g] <=> p \in E[g] \/ (p = q /\ \E k \in 1 .. n : gs[k] = g)
    <3>1. p \in F[g] <=> p \in E[g] \/ (p = q /\ Met(text, index, g))
      <4>1. p \in F[g] <=> p \in E[g] \/ (p = q /\ Met(Texts[sentence], index, g))
        BY <1>0, <2>2, NextPlace
      <4> HIDE DEF E, F, q, gs
      <4> QED BY <1>0, <4>1
    <3>2. (\E k \in 1 .. n : gs[k] = g) <=> Met(text, index, g)
      BY <1>2
    <3> HIDE DEF E, F, q, gs
    <3> QED BY <3>1, <3>2
  <2>5. /\ DOMAIN gs = 1 .. n /\ \A k \in 1 .. n : gs[k] \in Grams
        /\ \A k, l \in 1 .. n : gs[k] = gs[l] => k = l
    BY <1>2
  <2>6. IsTable(table', F)
    <3>1. FoldLeft(Meet, table, gs) = MeetFold!Fold(table, gs, n)
      <4> HIDE DEF E, F, q, gs
      <4> QED BY <2>5 DEF FoldLeft, MapThenFoldSet, MeetFold!Fold, MeetFold!IsFold, Max, MeetFold!Max
    <3>2. table' = FoldLeft(Meet, table, gs)
      BY <1>1
    <3> HIDE DEF E, F, q, gs
    <3>4. AtOnePlace(E, F, gs, n, q)
      BY <2>3, <2>4, <2>5 DEF AtOnePlace
    <3>3. IsTable(MeetFold!Fold(table, gs, n), F)
      BY <2>1, <3>4, MeetAllCounts
    <3> QED BY <3>1, <3>2, <3>3
  <2>7. Texts' = Texts /\ Reached' = index + 1
    BY <1>1, TextsSame DEF Reached
  <2> QED BY <1>0, <1>1, <2>1, <2>6, <2>7 DEF TableInv
<1> QED BY <1>4, <1>6, <1>7 DEF Inv

LEMMA StutterStep ==
    ASSUME Inv, UNCHANGED vars
    PROVE  Inv'
<1>1. /\ kind' = kind /\ doc' = doc /\ sentence' = sentence /\ pc' = pc /\ text' = text /\ index' = index
      /\ foundEnd' = foundEnd /\ nonstopcounter' = nonstopcounter /\ table' = table /\ tags' = tags
  BY DEF vars
<1>2. Texts' = Texts /\ L' = L /\ Reached' = Reached
  BY <1>1, TextsSame DEF L, Reached
<1>3. Shape'
  BY <1>1, <1>2 DEF Inv, Shape
<1>4. LoopInv'
  BY <1>1, <1>2 DEF Inv, LoopInv, StripInv, CountInv, NgramsInv, WordsAhead, EmptyAhead, EndsInStopwords
<1>5. TableInv'
  BY <1>1, <1>2, TableStays DEF Inv
<1> QED BY <1>3, <1>4, <1>5 DEF Inv

\* The inductive invariant
THEOREM Invariance == Spec => []Inv
<1>1. Inv /\ [Next]_vars => Inv'
  BY PrepareStep, FinishStep, TagSentenceStep, WithoutIdStep, ReadStep, StripStep, CountWordsStep, CountNgramsStep,
     EndOfRunStep, StutterStep DEF Next
<1> QED BY <1>1, InitInv, PTL DEF Spec

-----------------------------------------------------------------------------
(* What it means for the table. *)

\* The table: counts that are positive, of at most three words each
LEMMA TypeOf ==
    ASSUME Inv
    PROVE  TypeOK
<1> DEFINE l == Len(text)
<1>0. l \in Nat /\ L = l /\ text \in Seq(Words) /\ nonstopcounter \in Nat /\ index \in 1 .. l + 2
  BY DEF Inv, Shape, L
<1>1. nonstopcounter <= l \/ nonstopcounter <= 1
  <2> HIDE DEF l
  <2>1. index \in Nat /\ index >= 1
    BY <1>0
  <2>2. CASE pc = "count"
    <3>1. index + nonstopcounter <= l + 1 \/ nonstopcounter = 1
      BY <1>0, <2>1, <2>2 DEF Inv, LoopInv, CountInv, WordsAhead
    <3> QED BY <1>0, <2>1, <3>1
  <2>3. CASE pc = "ngrams"
    <3>1. index + nonstopcounter <= l + 1 \/ nonstopcounter <= 1
      BY <1>0, <2>1, <2>3 DEF Inv, LoopInv, NgramsInv, WordsAhead, EmptyAhead
    <3> QED BY <1>0, <2>1, <3>1
  <2>4. CASE pc \notin {"count", "ngrams"}
    BY <2>4 DEF Inv, Shape
  <2> QED BY <2>2, <2>3, <2>4
<1>2. Max({l, 1}) >= l /\ Max({l, 1}) >= 1 /\ Max({l, 1}) \in Int
  <2> HIDE DEF l
  <2>1. Max({l, 1}) = MeetFold!Max({l, 1})
    BY DEF Max, MeetFold!Max
  <2> DEFINE m == IF l >= 1 THEN l ELSE 1
             T == {l, 1}
  <2>2. T \in SUBSET Int /\ m \in Int /\ m \in T /\ \A y \in T : y <= m
    BY <1>0
  <2>3. MeetFold!Max(T) = m
    <3> HIDE DEF T, m
    <3> QED BY <2>2, MeetFold!MaxOf
  <2> QED BY <1>0, <2>1, <2>3
<1>3. nonstopcounter \in 0 .. Max({Len(text), 1})
  <2> HIDE DEF l
  <2>1. nonstopcounter \in 0 .. Max({l, 1})
    BY <1>0, <1>1, <1>2
  <2> QED BY <2>1 DEF l
<1>4. \A g \in DOMAIN table : g \in Seq(Words) /\ Len(g) <= 3 /\ table[g] \in Nat \ {0}
  <2> SUFFICES ASSUME NEW g \in DOMAIN table
               PROVE  g \in Seq(Words) /\ Len(g) <= 3 /\ table[g] \in Nat \ {0}
    OBVIOUS
  <2>1. IsTable(table, Before(Texts, sentence, Reached))
    BY DEF Inv, TableInv
  <2> DEFINE E == Before(Texts, sentence, Reached)[g]
  <2>2. g \in Grams /\ E # {} /\ IsFiniteSet(E) /\ table[g] = Cardinality(E)
    BY <2>1 DEF IsTable
  <2> HIDE DEF E
  <2>3. Cardinality(E) \in Nat /\ Cardinality(E) # 0
    BY <2>2, FS_CardinalityType, FS_EmptySet
  <2> QED BY <2>2, <2>3, GramFacts
<1> QED BY <1>0, <1>3, <1>4 DEF TypeOK, Inv, Shape, TableInv

\* Types of the analyses: counts are positive and of at most three words, the numbers of the
\* loops stay within the sentence, and only the programs for tags read behind an array
THEOREM TypeCorrect == Spec => []TypeOK
<1>1. Inv => TypeOK
  BY TypeOf
<1> QED BY <1>1, Invariance, PTL

\* n-grams are those of a text, and met where they occur
LEMMA MetMeans ==
    ASSUME NEW ws \in Seq(Words), NEW g \in Grams, Len(g) # 0
    PROVE  /\ \A i \in Nat : i >= 1 =>
                 (Met(ws, i, g) <=> i \in Occurrences(ws, g) /\ ToSet(g) \cap Stopwords = {})
           /\ (\E i \in Nat : i >= 1 /\ Met(ws, i, g)) <=> g \in NgramsOf(ws)
<1> DEFINE n == Len(g)
           l == Len(ws)
<1>0. n \in 1 .. 3 /\ n \in 0 .. 3 /\ l \in Nat /\ DOMAIN g = 1 .. n /\ DOMAIN ws = 1 .. l
  <2>1. n \in Nat /\ n <= 3 /\ n # 0 /\ DOMAIN g = 1 .. n
    BY GramFacts
  <2>2. l \in Nat /\ DOMAIN ws = 1 .. l
    OBVIOUS
  <2> HIDE DEF n, l
  <2> QED BY <2>1, <2>2
<1>1. ToSet(g) \cap Stopwords = {} <=> \A x \in 1 .. n : g[x] \notin Stopwords
  <2> HIDE DEF n
  <2> QED BY <1>0 DEF ToSet
<1>2. ASSUME NEW i \in Nat, i >= 1, i + n - 1 <= l
      PROVE  SubSeq(ws, i, i + n - 1) = g <=> \A x \in 1 .. n : g[x] = ws[i + x - 1]
  <2> DEFINE h == SubSeq(ws, i, i + n - 1)
  <2>1. i \in 1 .. l + 1
    BY <1>0, <1>2
  <2>2. h \in Grams /\ Len(h) = n /\ \A x \in 1 .. n : h[x] = ws[i + x - 1]
    BY <1>0, <1>2, <2>1, SubSeqOfText
  <2> HIDE DEF h
  <2>3. (\A x \in 1 .. n : g[x] = ws[i + x - 1]) => h = g
    <3> SUFFICES ASSUME \A x \in 1 .. n : g[x] = ws[i + x - 1] PROVE g = h
      OBVIOUS
    <3>1. Len(g) = Len(h) /\ \A x \in 1 .. Len(g) : g[x] = h[x]
      BY <2>2
    <3> QED BY <2>2, <3>1, SameGram
  <2>4. h = g => \A x \in 1 .. n : g[x] = ws[i + x - 1]
    BY <2>2
  <2> QED BY <2>3, <2>4 DEF h
<1>3. ASSUME NEW i \in Nat, i >= 1
      PROVE  i \in Occurrences(ws, g) <=>
                i + n - 1 <= l /\ \A x \in 1 .. n : g[x] = ws[i + x - 1]
  <2>1. i \in 1 .. l - n + 1 <=> i + n - 1 <= l
    <3> HIDE DEF n, l
    <3> QED BY <1>0, <1>3
  <2>2. i \in Occurrences(ws, g) <=> i + n - 1 <= l /\ SubSeq(ws, i, i + n - 1) = g
    BY <2>1 DEF Occurrences
  <2> HIDE DEF n, l
  <2> QED BY <1>2, <1>3, <2>2
<1>4. ASSUME NEW i \in Nat, i >= 1
      PROVE  Met(ws, i, g) <=> i \in Occurrences(ws, g) /\ ToSet(g) \cap Stopwords = {}
  <2>1. Met(ws, i, g) <=> /\ i + n - 1 <= l
                          /\ \A x \in 1 .. n : g[x] = ws[i + x - 1] /\ g[x] \notin Stopwords
    BY DEF Met
  <2> HIDE DEF n, l
  <2> QED BY <1>1, <1>3, <1>4, <2>1
<1>5. ASSUME NEW i \in Nat, i >= 1, Met(ws, i, g) PROVE g \in NgramsOf(ws)
  <2>1. i + n - 1 <= l /\ \A x \in 1 .. n : g[x] = ws[i + x - 1]
    BY <1>3, <1>4, <1>5
  <2>2. SubSeq(ws, i, i + n - 1) = g
    BY <1>2, <1>5, <2>1
  <2>3. i \in DOMAIN ws /\ i + n - 1 \in DOMAIN ws
    <3> HIDE DEF n, l
    <3> QED BY <1>0, <1>5, <2>1
  <2>4. g \in {SubSeq(ws, a, b) : a \in DOMAIN ws, b \in DOMAIN ws}
    <3> HIDE DEF n, l
    <3> DEFINE e == i + n - 1
    <3>1. g = SubSeq(ws, i, e) /\ i \in DOMAIN ws /\ e \in DOMAIN ws
      BY <2>2, <2>3
    <3> HIDE DEF e
    <3> DEFINE D == DOMAIN ws
               Sub(a, b) == SubSeq(ws, a, b)
    <3>2. g = Sub(i, e) /\ i \in D /\ e \in D
      BY <3>1
    <3> HIDE DEF D, Sub
    <3>3. g \in {Sub(a, b) : a \in D, b \in D}
      BY <3>2
    <3> QED BY <3>3 DEF D, Sub
  <2>5. Len(g) \in 1 .. 3 /\ ToSet(g) \cap Stopwords = {}
    BY <1>0, <1>4, <1>5
  <2> DEFINE S == {SubSeq(ws, a, b) : a \in DOMAIN ws, b \in DOMAIN ws}
  <2>6. NgramsOf(ws) = {h \in S : Len(h) \in 1 .. 3 /\ ToSet(h) \cap Stopwords = {}}
    BY DEF NgramsOf
  <2> HIDE DEF n, l, S
  <2> QED BY <2>4, <2>5, <2>6 DEF S
<1>6. ASSUME g \in NgramsOf(ws) PROVE \E i \in Nat : i >= 1 /\ Met(ws, i, g)
  <2>1. PICK a \in DOMAIN ws, b \in DOMAIN ws : g = SubSeq(ws, a, b)
    BY <1>6 DEF NgramsOf
  <2>2. a \in 1 .. l /\ b \in 1 .. l /\ a \in Nat /\ b \in Nat /\ a >= 1 /\ b <= l
    BY <1>0, <2>1
  <2>3. \A x \in a .. b : ws[x] \in Words
    <3>1. \A x \in a .. b : x \in 1 .. l
      <4> HIDE DEF l
      <4> QED BY <1>0, <2>2
    <3> QED BY <3>1
  <2>4. n = (IF a <= b THEN b - a + 1 ELSE 0) /\ \A x \in 1 .. b - a + 1 : g[x] = ws[a + x - 1]
    BY <2>1, <2>2, <2>3, SubSeqProperties
  <2>5. b = a + n - 1 /\ a + n - 1 <= l /\ n = b - a + 1
    <3> HIDE DEF n, l
    <3> QED BY <1>0, <2>2, <2>4
  <2>6. a \in Occurrences(ws, g)
    BY <1>3, <2>2, <2>4, <2>5
  <2>7. ToSet(g) \cap Stopwords = {}
    BY <1>6 DEF NgramsOf
  <2> QED BY <1>4, <2>2, <2>6, <2>7
<1> QED BY <1>4, <1>5, <1>6

\* The places before the n-th text
LEMMA PlacesBefore ==
    ASSUME NEW ts, NEW n \in Nat, NEW g \in Grams, NEW p
    PROVE  p \in Before(ts, n, 1)[g] <=>
              \E s \in 1 .. n - 1 : \E i \in 1 .. Len(ts[s]) + 1 :
                 p = <<s, i>> /\ i \in Nat /\ i >= 1 /\ Met(ts[s], i, g)
<1>1. ASSUME p \in Before(ts, n, 1)[g]
      PROVE  \E s \in 1 .. n - 1 : \E i \in 1 .. Len(ts[s]) + 1 :
                p = <<s, i>> /\ i \in Nat /\ i >= 1 /\ Met(ts[s], i, g)
  <2>1. /\ p \in (1 .. n) \X Nat /\ p[2] \in 1 .. Len(ts[p[1]]) + 1 /\ (p[1] < n \/ p[2] < 1)
        /\ Met(ts[p[1]], p[2], g)
    BY <1>1 DEF Before
  <2>2. ASSUME NEW x, p[2] \in 1 .. x PROVE p[2] >= 1
    BY <2>2
  <2>3. p[2] \in Nat /\ p[2] >= 1
    BY <2>1, <2>2
  <2>4. p[1] \in 1 .. n - 1 /\ p = <<p[1], p[2]>>
    BY <2>1, <2>3
  <2> QED BY <2>1, <2>3, <2>4
<1>2. ASSUME NEW s \in 1 .. n - 1, NEW i \in 1 .. Len(ts[s]) + 1,
             p = <<s, i>>, i \in Nat, Met(ts[s], i, g)
      PROVE  p \in Before(ts, n, 1)[g]
  <2>1. p[1] = s /\ p[2] = i /\ p \in (1 .. n) \X Nat /\ p[1] < n
    BY <1>2
  <2> QED BY <1>2, <2>1 DEF Before
<1> QED BY <1>1, <1>2

LEMMA PlacesOfNgram ==
    ASSUME NEW ts, NEW n \in Nat, \A s \in 1 .. n - 1 : ts[s] \in Seq(Words),
           NEW g \in Grams, Len(g) # 0
    PROVE  /\ Before(ts, n, 1)[g] # {} <=> \E s \in 1 .. n - 1 : g \in NgramsOf(ts[s])
           /\ Before(ts, n, 1)[g] # {} =>
                 Before(ts, n, 1)[g] = UNION {{s} \X Occurrences(ts[s], g) : s \in 1 .. n - 1}
<1> DEFINE E == Before(ts, n, 1)[g]
           U == UNION {{s} \X Occurrences(ts[s], g) : s \in 1 .. n - 1}
<1>0. \A p : p \in E <=> \E s \in 1 .. n - 1 : \E i \in 1 .. Len(ts[s]) + 1 :
                            p = <<s, i>> /\ i \in Nat /\ i >= 1 /\ Met(ts[s], i, g)
  BY PlacesBefore
<1> HIDE DEF E
<1>1. ASSUME NEW s \in 1 .. n - 1, NEW i \in Nat, i >= 1, Met(ts[s], i, g)
      PROVE  <<s, i>> \in E
  <2>1. i <= Len(ts[s]) + 1 /\ Len(ts[s]) \in Nat
    <3>1. Len(g) \in Nat /\ Len(ts[s]) \in Nat
      BY GramFacts
    <3>2. i + Len(g) - 1 <= Len(ts[s])
      BY <1>1 DEF Met
    <3> DEFINE a == Len(g)
               b == Len(ts[s])
    <3> HIDE DEF a, b
    <3>3. a \in Nat /\ b \in Nat /\ i + a - 1 <= b
      BY <3>1, <3>2 DEF a, b
    <3>4. i <= b + 1
      BY <3>3
    <3> QED BY <3>1, <3>4 DEF b
  <2>2. i \in 1 .. Len(ts[s]) + 1
    BY <1>1, <2>1
  <2> QED BY <1>0, <1>1, <2>2
<1>2. E # {} <=> \E s \in 1 .. n - 1 : g \in NgramsOf(ts[s])
  <2>1. ASSUME NEW p \in E PROVE \E s \in 1 .. n - 1 : g \in NgramsOf(ts[s])
    <3>1. PICK s \in 1 .. n - 1, i \in Nat : i >= 1 /\ Met(ts[s], i, g)
      BY <1>0
    <3> QED BY <3>1, MetMeans
  <2>2. ASSUME NEW s \in 1 .. n - 1, g \in NgramsOf(ts[s]) PROVE E # {}
    <3>1. PICK i \in Nat : i >= 1 /\ Met(ts[s], i, g)
      BY <2>2, MetMeans
    <3> QED BY <1>1, <3>1
  <2> QED BY <2>1, <2>2
<1>3. ASSUME E # {} PROVE E = U
  <2>1. ToSet(g) \cap Stopwords = {}
    <3>1. PICK s \in 1 .. n - 1, i \in Nat : i >= 1 /\ Met(ts[s], i, g)
      BY <1>0, <1>3
    <3> QED BY <3>1, MetMeans
  <2>2. ASSUME NEW p \in E PROVE p \in U
    <3>1. PICK s \in 1 .. n - 1, i \in Nat : p = <<s, i>> /\ i >= 1 /\ Met(ts[s], i, g)
      BY <1>0
    <3>2. i \in Occurrences(ts[s], g)
      BY <3>1, MetMeans
    <3> QED BY <3>1, <3>2
  <2>3. ASSUME NEW p \in U PROVE p \in E
    <3>1. PICK s \in 1 .. n - 1 : p \in {s} \X Occurrences(ts[s], g)
      OBVIOUS
    <3>2. PICK i \in Occurrences(ts[s], g) : p = <<s, i>>
      BY <3>1
    <3>3. i \in Nat /\ i >= 1
      <4>1. Len(ts[s]) - Len(g) + 1 \in Int
        <5>1. Len(g) \in Nat /\ Len(ts[s]) \in Nat
          BY GramFacts
        <5> QED BY <5>1
      <4>2. i \in 1 .. Len(ts[s]) - Len(g) + 1
        BY DEF Occurrences
      <4> QED BY <4>1, <4>2
    <3>4. Met(ts[s], i, g)
      BY <2>1, <3>3, MetMeans
    <3> QED BY <1>1, <3>2, <3>3, <3>4
  <2> HIDE DEF U
  <2> QED BY <2>2, <2>3
<1> QED BY <1>2, <1>3 DEF E

LEMMA PlacesOfEmpty ==
    ASSUME NEW ts, NEW n \in Nat, \A s \in 1 .. n - 1 : ts[s] \in Seq(Words),
           NEW g \in Grams, Len(g) = 0
    PROVE  LET S == {s \in 1 .. n - 1 : EndsInStopwords(ts[s])}
           IN  /\ IsFiniteSet(S) /\ Cardinality(Before(ts, n, 1)[g]) = Cardinality(S)
               /\ Before(ts, n, 1)[g] = {} <=> S = {}
<1> DEFINE S == {s \in 1 .. n - 1 : EndsInStopwords(ts[s])}
           E == Before(ts, n, 1)[g]
           f == [s \in S |-> <<s, Len(ts[s]) + 1>>]
<1>1. IsFiniteSet(S)
  <2>1. IsFiniteSet(1 .. n - 1)
    BY FS_Interval
  <2> QED BY <2>1, FS_Subset
<1>2. \A p : p \in E <=> \E s \in S : p = <<s, Len(ts[s]) + 1>>
  <2>1. \A p : p \in E <=> \E s \in 1 .. n - 1 : \E i \in 1 .. Len(ts[s]) + 1 :
                              p = <<s, i>> /\ i \in Nat /\ i >= 1 /\ Met(ts[s], i, g)
    BY PlacesBefore
  <2> HIDE DEF E
  <2>2. ASSUME NEW s \in 1 .. n - 1, NEW i PROVE Met(ts[s], i, g) <=> i = Len(ts[s]) + 1 /\ s \in S
    BY DEF Met
  <2>3. ASSUME NEW s \in 1 .. n - 1
        PROVE  Len(ts[s]) + 1 \in 1 .. Len(ts[s]) + 1 /\ Len(ts[s]) + 1 \in Nat /\ Len(ts[s]) + 1 >= 1
    <3>1. Len(ts[s]) \in Nat
      OBVIOUS
    <3> QED BY <3>1
  <2>4. \A s \in S : s \in 1 .. n - 1
    OBVIOUS
  <2> HIDE DEF S
  <2>5. ASSUME NEW p \in E PROVE \E s \in S : p = <<s, Len(ts[s]) + 1>>
    <3>1. PICK s \in 1 .. n - 1, i \in Nat : p = <<s, i>> /\ Met(ts[s], i, g)
      BY <2>1
    <3> QED BY <2>2, <3>1
  <2>6. ASSUME NEW s \in S PROVE <<s, Len(ts[s]) + 1>> \in E
    <3>1. Met(ts[s], Len(ts[s]) + 1, g) /\ s \in 1 .. n - 1
      BY <2>2, <2>4
    <3> QED BY <2>1, <2>3, <3>1
  <2> QED BY <2>5, <2>6
<1> HIDE DEF E, S
<1>3. f \in Surjection(S, E)
  <2>1. f \in [S -> E]
    BY <1>2
  <2>2. \A p \in E : \E s \in S : f[s] = p
    BY <1>2
  <2> HIDE DEF f
  <2> QED BY <2>1, <2>2 DEF Surjection
<1>4. f \in Injection(S, E)
  <2>1. f \in [S -> E]
    BY <1>2
  <2>2. \A a, b \in S : f[a] = f[b] => a = b
    OBVIOUS
  <2> HIDE DEF f
  <2> QED BY <2>1, <2>2 DEF Injection, IsInjective
<1>5. Cardinality(E) = Cardinality(S)
  <2> HIDE DEF f
  <2> QED BY <1>1, <1>3, <1>4, FS_Surjection
<1>6. E = {} <=> S = {}
  BY <1>2
<1> QED BY <1>1, <1>5, <1>6 DEF E, S

LEMMA CountedOf ==
    ASSUME Inv
    PROVE  NgramsCounted
<1> SUFFICES ASSUME kind = "ngrams", pc \in {"sentence", "end"}
             PROVE  NgramsCounted
  BY DEF NgramsCounted
<1> DEFINE done  == [s \in 1 .. sentence - 1 |-> TextOf(doc[s])]
           S     == {s \in DOMAIN done : EndsInStopwords(done[s])}
           E     == Before(Texts, sentence, 1)
           T     == {s \in 1 .. sentence - 1 : EndsInStopwords(Texts[s])}
           Places(g) == UNION {{s} \X Occurrences(Texts[s], g) : s \in 1 .. sentence - 1}
<1>1. doc \in Seq(Seq(Node)) /\ sentence \in Nat /\ \A s \in 1 .. sentence - 1 : s \in DOMAIN doc
  BY DEF Inv, Shape
<1>2. DOMAIN done = 1 .. sentence - 1 /\ \A s \in 1 .. sentence - 1 : done[s] = Texts[s]
  BY <1>1 DEF Texts
<1>3. \A s \in 1 .. sentence - 1 : Texts[s] \in Seq(Words)
  BY <1>1, TextType DEF Texts
<1>4. IsTable(table, E)
  BY DEF Inv, TableInv, Reached
<1> DEFINE none == <<>>
<1>5. none \in Grams /\ Len(none) = 0 /\ \A g \in Grams : g # none => Len(g) # 0
  <2>1. none \in [1 .. 0 -> Words]
    OBVIOUS
  <2>2. none \in Grams /\ Len(none) = 0
    <3>1. 0 \in 0 .. 3
      OBVIOUS
    <3> HIDE DEF none
    <3> QED BY <2>1, <3>1, GramsAre
  <2> HIDE DEF none
  <2> QED BY <2>2, SameGram
<1>6. S = T
  BY <1>2
<1>7. \A g : UNION {{s} \X Occurrences(done[s], g) : s \in DOMAIN done} = Places(g)
  BY <1>2
<1>8. \A g \in Grams : g # none =>
         /\ E[g] # {} <=> \E s \in 1 .. sentence - 1 : g \in NgramsOf(Texts[s])
         /\ E[g] # {} => E[g] = Places(g)
  BY <1>1, <1>3, <1>5, PlacesOfNgram
<1>9. IsFiniteSet(T) /\ Cardinality(E[none]) = Cardinality(T) /\ (E[none] = {} <=> T = {})
  BY <1>1, <1>3, <1>5, PlacesOfEmpty
<1>10. \A s \in 1 .. sentence - 1 : NgramsOf(Texts[s]) \subseteq Grams \ {none}
  <2> SUFFICES ASSUME NEW s \in 1 .. sentence - 1, NEW g \in NgramsOf(Texts[s])
               PROVE  g \in Grams \ {none}
    OBVIOUS
  <2> DEFINE ws == Texts[s]
  <2>1. ws \in Seq(Words)
    BY <1>3
  <2> HIDE DEF ws
  <2>2. PICK a \in DOMAIN ws, b \in DOMAIN ws : g = SubSeq(ws, a, b)
    BY DEF NgramsOf, ws
  <2>3. Len(g) \in 1 .. 3
    BY DEF NgramsOf
  <2>4. \A x \in a .. b : ws[x] \in Words
    <3>1. DOMAIN ws = 1 .. Len(ws) /\ Len(ws) \in Nat
      BY <2>1
    <3>2. \A x \in a .. b : x \in 1 .. Len(ws)
      BY <2>2, <3>1
    <3> QED BY <2>1, <3>1, <3>2
  <2>5. g \in Seq(Words)
    BY <2>1, <2>2, <2>4, SubSeqProperties
  <2>6. g \in [1 .. Len(g) -> Words] /\ Len(g) \in 0 .. 3 /\ Len(g) # 0
    <3>1. g \in [1 .. Len(g) -> Words]
      BY <2>5
    <3> DEFINE l == Len(g)
    <3>3. l \in 1 .. 3
      BY <2>3
    <3> HIDE DEF l
    <3>2. l \in 0 .. 3 /\ l # 0
      BY <3>3
    <3> QED BY <3>1, <3>2 DEF l
  <2> HIDE DEF none
  <2> QED BY <1>5, <2>6, GramsAre
<1>11. DOMAIN table \ {none} = UNION {NgramsOf(done[s]) : s \in DOMAIN done}
  <2>1. UNION {NgramsOf(done[s]) : s \in DOMAIN done} = UNION {NgramsOf(Texts[s]) : s \in 1 .. sentence - 1}
    BY <1>2
  <2>2. DOMAIN table = {g \in Grams : E[g] # {}}
    BY <1>4 DEF IsTable
  <2> HIDE DEF none, E
  <2>3. ASSUME NEW g \in DOMAIN table, g # none PROVE \E s \in 1 .. sentence - 1 : g \in NgramsOf(Texts[s])
    BY <1>8, <2>2, <2>3
  <2>4. ASSUME NEW s \in 1 .. sentence - 1, NEW g \in NgramsOf(Texts[s]) PROVE g \in DOMAIN table /\ g # none
    BY <1>8, <1>10, <2>2
  <2> HIDE DEF done
  <2> QED BY <2>1, <2>3, <2>4
<1>12. \A g \in DOMAIN table \ {none} :
          table[g] = Cardinality(UNION {{s} \X Occurrences(done[s], g) : s \in DOMAIN done})
  <2> SUFFICES ASSUME NEW g \in DOMAIN table, g # none PROVE table[g] = Cardinality(Places(g))
    BY <1>7
  <2> HIDE DEF E, Places, none
  <2>1. g \in Grams /\ E[g] # {} /\ table[g] = Cardinality(E[g])
    BY <1>4 DEF IsTable
  <2>2. E[g] = Places(g)
    BY <1>8, <2>1
  <2> QED BY <2>1, <2>2
<1>13. IF Cardinality(S) = 0 THEN none \notin DOMAIN table
       ELSE none \in DOMAIN table /\ table[none] = Cardinality(S)
  <2> HIDE DEF E, T, S, none, done
  <2>1. Cardinality(T) = 0 <=> T = {}
    BY <1>9, FS_EmptySet
  <2>2. none \in DOMAIN table <=> E[none] # {}
    BY <1>4, <1>5 DEF IsTable
  <2>3. none \in DOMAIN table => table[none] = Cardinality(E[none])
    BY <1>4 DEF IsTable
  <2> QED BY <1>6, <1>9, <2>1, <2>2, <2>3
<1> HIDE DEF done
<1> QED BY <1>11, <1>12, <1>13, Zenon DEF NgramsCounted, done

\* llamapun_get_ngrams counts every n-gram of up to three words without a stopword as often as
\* it occurs, in sentences of any length, and the empty word where a sentence ends in stopwords
THEOREM NgramsAreCounted == Spec => []NgramsCounted
<1>1. Inv => NgramsCounted
  BY CountedOf
<1> QED BY <1>1, Invariance, PTL

-----------------------------------------------------------------------------
(* Tags. *)

\* Nodes have ids of their own, if they have any
OwnIds(d) ==
    \A s, t \in DOMAIN d : \A i \in DOMAIN d[s], k \in DOMAIN d[t] :
        d[s][i].id \notin {EmptyId, NoId} /\ d[s][i].id = d[t][k].id => s = t /\ i = k

\* What the i-th node of the s-th sentence has its tag under
NameAt(s, i) == IF kind = "dom" THEN <<s, i>> ELSE doc[s][i].id

TagsRight ==
    kind # "ngrams" =>
        \A s \in 1 .. sentence - 1 : s \in DOMAIN doc => \A i \in Leading(doc[s]) :
            (kind = "json" => doc[s][i].id # EmptyId) =>
                /\ NameAt(s, i) \in DOMAIN tags
                /\ tags[NameAt(s, i)] = Tag(WordInput(doc[s]), i)

TagInv == (kind = "json" => OwnIds(doc)) /\ TagsRight

\* A node that has its name for itself gets the tag of its word
LEMMA TaggedRight ==
    ASSUME Nodes \in Seq(Node), NEW i \in Leading(Nodes),
           \A k \in DOMAIN Nodes : Name(k) = Name(i) => k = i
    PROVE  LET words == WordInput(Nodes)
           IN  Name(i) \in DOMAIN Tagged(words) /\ Tagged(words)[Name(i)] = Tag(words, i)
<1> DEFINE nodes == Nodes
           words == WordInput(Nodes)
           ss    == [k \in DOMAIN nodes |-> Contents(nodes[k])]
           l     == Len(words)
           n     == Len(nodes)
           B     == {k \in DOMAIN nodes : k <= l /\ Name(k) = Name(i)}
<1>1. ss \in Seq(Seq(Words)) /\ Len(ss) = n /\ n \in Nat /\ DOMAIN nodes = 1 .. n
  BY ContentsOf
<1>2. i \in 1 .. n /\ \A k \in 1 .. i : Len(Contents(nodes[k])) = 1
  BY <1>1 DEF Leading
<1>3. i <= l /\ l \in Nat
  <2>1. words = MeetFold!FlattenSeq(ss)
    BY DEF WordInput, FlattenSeq, MeetFold!FlattenSeq
  <2>2. words \in Seq(Words)
    BY WordInputType
  <2>3. \A k \in 1 .. i : Len(ss[k]) = 1
    <3>1. \A k \in 1 .. i : k \in DOMAIN nodes
      <4> HIDE DEF nodes, n
      <4> QED BY <1>1, <1>2
    <3> QED BY <1>2, <3>1
  <2>4. i \in 0 .. Len(ss)
    <3> HIDE DEF ss, n
    <3> QED BY <1>1, <1>2
  <2> HIDE DEF ss, words
  <2>5. Len(MeetFold!FlattenSeq(ss)) >= i
    BY <1>1, <2>3, <2>4, MeetFold!FlattenLength
  <2>6. l \in Nat /\ l >= i
    BY <2>1, <2>2, <2>5
  <2> HIDE DEF l, n
  <2> QED BY <1>1, <1>2, <2>6
<1>4. Min({l, n}) = IF l <= n THEN l ELSE n
  <2> HIDE DEF l, n
  <2> QED BY <1>1, <1>3, MinOfTwo
<1>5. i \in 1 .. Min({l, n})
  <2> HIDE DEF l, n
  <2> QED BY <1>1, <1>2, <1>3, <1>4
<1>6. B = {i}
  <2>1. i \in B
    BY <1>1, <1>2, <1>3
  <2> QED BY <2>1
<1>7. Max(B) = i
  <2>1. Max({i}) = MeetFold!Max({i})
    BY DEF Max, MeetFold!Max
  <2>2. i \in Int /\ {i} \in SUBSET Int /\ i \in {i} /\ \A y \in {i} : y <= i
    <3> HIDE DEF n
    <3> QED BY <1>1, <1>2
  <2>3. MeetFold!Max({i}) = i
    BY <2>2, MeetFold!MaxOf
  <2> HIDE DEF B
  <2> QED BY <1>6, <2>1, <2>3
<1>8. Tagged(words) = [x \in {Name(k) : k \in 1 .. Min({l, n})} |->
                          Tag(words, Max({k \in DOMAIN nodes : k <= l /\ Name(k) = x}))]
  BY DEF Tagged
<1>9. Name(i) \in {Name(k) : k \in 1 .. Min({l, n})}
  BY <1>5
<1>10. Tagged(words)[Name(i)] = Tag(words, Max(B))
  <2> HIDE DEF words, l, n, nodes
  <2> QED BY <1>8, <1>9
<1>11. Name(i) \in DOMAIN Tagged(words)
  <2> HIDE DEF words, l, n, nodes
  <2> QED BY <1>8, <1>9
<1> HIDE DEF B
<1> QED BY <1>7, <1>10, <1>11

\* The names of tags are those of nodes of the sentence
LEMMA TaggedNames ==
    ASSUME Nodes \in Seq(Node), NEW x \in DOMAIN Tagged(WordInput(Nodes))
    PROVE  \E k \in DOMAIN Nodes : Name(k) = x
<1> DEFINE words == WordInput(Nodes)
           l == Len(words)
           n == Len(Nodes)
<1>1. n \in Nat /\ l \in Nat /\ DOMAIN Nodes = 1 .. n
  BY WordInputType
<1>2. Tagged(words) = [z \in {Name(k) : k \in 1 .. Min({l, n})} |->
                          Tag(words, Max({k \in DOMAIN Nodes : k <= l /\ Name(k) = z}))]
  BY DEF Tagged
<1>3. PICK k \in 1 .. Min({l, n}) : Name(k) = x
  <2>1. DOMAIN Tagged(words) = {Name(k) : k \in 1 .. Min({l, n})}
    <3> HIDE DEF words, l, n
    <3> QED BY <1>2
  <2> HIDE DEF l, n
  <2> QED BY <2>1
<1>4. k \in 1 .. n
  <2> HIDE DEF l, n
  <2> QED BY <1>1, MinOfTwo
<1> QED BY <1>1, <1>3, <1>4

LEMMA TagKept ==
    ASSUME kind' = kind, doc' = doc
    PROVE  /\ \A nodes : Leading(nodes)' = Leading(nodes)
           /\ \A s, i : NameAt(s, i)' = NameAt(s, i)
           /\ \A nodes : WordInput(nodes)' = WordInput(nodes)
<1>1. \A node : Contents(node)' = Contents(node)
  BY DEF Contents
<1> QED BY <1>1, TextsKept DEF Leading, NameAt

LEMMA TagSentenceTags ==
    ASSUME Inv, TagInv, TagSentence
    PROVE  TagInv'
<1>0. /\ doc \in Seq(Seq(Node)) /\ kind \in Kinds /\ sentence \in Nat /\ sentence # 0
      /\ doc' = doc /\ kind' = kind /\ sentence' = sentence + 1 /\ sentence <= Len(doc) /\ kind # "ngrams"
  BY DEF Inv, Shape, TagSentence
<1> DEFINE words == WordInput(Nodes)
           given == Tagged(words)
<1>1. tags' = [x \in DOMAIN given \cup DOMAIN tags |-> IF x \in DOMAIN given THEN given[x] ELSE tags[x]]
  BY Zenon DEF TagSentence
<1>2. sentence \in DOMAIN doc /\ Nodes = doc[sentence] /\ Nodes \in Seq(Node)
  BY <1>0 DEF Nodes
<1>3. \A i : Name(i) = NameAt(sentence, i)
  BY DEF Name, NameAt, Nodes
<1> HIDE DEF given
<1>10. \A k \in DOMAIN Nodes : Nodes[k].id # NoId
  BY DEF TagSentence, HaveIds
<1>4. ASSUME NEW s \in DOMAIN doc, NEW i \in DOMAIN doc[s], kind = "json" => doc[s][i].id # EmptyId,
             NEW k \in DOMAIN Nodes, Name(k) = NameAt(s, i)
      PROVE  s = sentence /\ k = i
  <2>1. CASE kind = "dom"
    <3>1. Name(k) = <<sentence, k>> /\ NameAt(s, i) = <<s, i>>
      BY <2>1 DEF Name, NameAt
    <3>2. <<sentence, k>> = <<s, i>>
      BY <1>4, <3>1
    <3> QED BY <3>2
  <2>2. CASE kind # "dom"
    <3>1. kind = "json"
      BY <1>0, <2>2, MarkedTextAssumption
    <3>2. doc[s][i].id \notin {EmptyId, NoId} /\ doc[s][i].id = doc[sentence][k].id
      BY <1>2, <1>4, <1>10, <3>1 DEF Name, NameAt
    <3>3. k \in DOMAIN doc[sentence]
      BY <1>2
    <3> QED BY <1>2, <3>1, <3>2, <3>3 DEF TagInv, OwnIds
  <2> QED BY <2>1, <2>2
<1>5. ASSUME NEW s \in 1 .. sentence, s \in DOMAIN doc, NEW i \in Leading(doc[s]),
             kind = "json" => doc[s][i].id # EmptyId
      PROVE  NameAt(s, i) \in DOMAIN tags' /\ tags'[NameAt(s, i)] = Tag(WordInput(doc[s]), i)
  <2>0. i \in DOMAIN doc[s]
    BY DEF Leading
  <2>1. CASE s = sentence
    <3>1. i \in Leading(Nodes) /\ NameAt(s, i) = Name(i)
      BY <1>2, <1>3, <1>5, <2>1
    <3>2. \A k \in DOMAIN Nodes : Name(k) = Name(i) => k = i
      BY <1>4, <1>5, <2>0, <3>1
    <3>3. Name(i) \in DOMAIN given /\ given[Name(i)] = Tag(words, i)
      BY <1>2, <3>1, <3>2, TaggedRight DEF given
    <3> QED BY <1>1, <1>2, <2>1, <3>1, <3>3
  <2>2. CASE s # sentence
    <3>1. s \in 1 .. sentence - 1
      BY <1>0, <2>2
    <3>2. NameAt(s, i) \in DOMAIN tags /\ tags[NameAt(s, i)] = Tag(WordInput(doc[s]), i)
      BY <1>0, <1>5, <3>1 DEF TagInv, TagsRight
    <3>3. NameAt(s, i) \notin DOMAIN given
      <4> SUFFICES ASSUME NameAt(s, i) \in DOMAIN given PROVE FALSE
        OBVIOUS
      <4>1. PICK k \in DOMAIN Nodes : Name(k) = NameAt(s, i)
        BY <1>2, TaggedNames DEF given
      <4> QED BY <1>4, <1>5, <2>0, <2>2, <4>1
    <3> QED BY <1>1, <3>2, <3>3
  <2> QED BY <2>1, <2>2
<1>6. TagsRight'
  <2>1. \A s \in 1 .. sentence' - 1 : s \in 1 .. sentence
    BY <1>0
  <2> HIDE DEF words
  <2>2. \A s \in 1 .. sentence' - 1 : s \in DOMAIN doc => \A i \in Leading(doc[s]) :
            (kind = "json" => doc[s][i].id # EmptyId) =>
                NameAt(s, i) \in DOMAIN tags' /\ tags'[NameAt(s, i)] = Tag(WordInput(doc[s]), i)
    BY <1>5, <2>1
  <2>3. /\ \A nodes : Leading(nodes)' = Leading(nodes) /\ WordInput(nodes)' = WordInput(nodes)
        /\ \A s, i : NameAt(s, i)' = NameAt(s, i)
    BY <1>0, TagKept
  <2> QED BY <1>0, <2>2, <2>3, Zenon DEF TagsRight
<1>7. kind' = "json" => OwnIds(doc')
  BY <1>0 DEF TagInv
<1> QED BY <1>6, <1>7 DEF TagInv

LEMMA PrepareTags ==
    ASSUME Inv, TagInv, Prepare
    PROVE  TagInv'
<1>0. /\ doc \in Seq(Seq(Node)) /\ sentence' = 1 /\ kind' = kind
      /\ doc' = [s \in DOMAIN doc |-> [i \in DOMAIN doc[s] |-> Prepared(doc[s][i])]]
  BY DEF Inv, Shape, Prepare
<1>1. ASSUME NEW s \in DOMAIN doc, NEW i \in DOMAIN doc[s] 
      PROVE  doc'[s][i].id \in {doc[s][i].id, EmptyId}
  <2>1. doc[s][i] \in Node
    BY <1>0
  <2>2. doc'[s][i] = Prepared(doc[s][i])
    BY <1>0
  <2> QED BY <2>1, <2>2, PreparedType
<1>2. DOMAIN doc' = DOMAIN doc /\ \A s \in DOMAIN doc : DOMAIN doc'[s] = DOMAIN doc[s]
  BY <1>0
<1>3. OwnIds(doc) => OwnIds(doc')
  <2> DEFINE e == doc'
  <2>1. /\ \A s \in DOMAIN doc : \A i \in DOMAIN doc[s] : e[s][i].id \in {doc[s][i].id, EmptyId}
        /\ DOMAIN e = DOMAIN doc /\ \A s \in DOMAIN doc : DOMAIN e[s] = DOMAIN doc[s]
    BY <1>1, <1>2
  <2> HIDE DEF e
  <2>2. OwnIds(doc) => OwnIds(e)
    <3> SUFFICES ASSUME OwnIds(doc), NEW s \in DOMAIN e, NEW t \in DOMAIN e,
                        NEW i \in DOMAIN e[s], NEW k \in DOMAIN e[t],
                        e[s][i].id \notin {EmptyId, NoId} /\ e[s][i].id = e[t][k].id
                 PROVE  s = t /\ i = k
      BY Zenon DEF OwnIds
    <3>1. s \in DOMAIN doc /\ t \in DOMAIN doc /\ i \in DOMAIN doc[s] /\ k \in DOMAIN doc[t]
      BY <2>1
    <3>2. doc[s][i].id \notin {EmptyId, NoId} /\ doc[s][i].id = doc[t][k].id
      BY <2>1, <3>1
    <3> DEFINE Id(a, x) == doc[a][x].id
               D == DOMAIN doc
               I(a) == DOMAIN doc[a]
    <3>3. \A a, b \in D : \A x \in I(a) : \A y \in I(b) :
             Id(a, x) \notin {EmptyId, NoId} /\ Id(a, x) = Id(b, y) => a = b /\ x = y
      BY Zenon DEF OwnIds
    <3>4. s \in D /\ t \in D /\ i \in I(s) /\ k \in I(t)
          /\ Id(s, i) \notin {EmptyId, NoId} /\ Id(s, i) = Id(t, k)
      BY <3>1, <3>2
    <3> HIDE DEF e, Id, D, I
    <3> QED BY <3>3, <3>4
  <2> QED BY <2>2 DEF e
<1>4. TagsRight'
  <2>1. \A s \in 1 .. sentence' - 1 : FALSE
    BY <1>0
  <2> QED BY <2>1 DEF TagsRight
<1> QED BY <1>0, <1>3, <1>4 DEF TagInv

\* The other steps give no tags
LEMMA OtherTags ==
    ASSUME TagInv, UNCHANGED <<kind, doc, tags>>, kind # "ngrams" => sentence' = sentence
    PROVE  TagInv'
<1>1. kind' = kind /\ doc' = doc /\ tags' = tags
  OBVIOUS
<1>2. TagsRight'
  BY <1>1, TagKept DEF TagInv, TagsRight
<1> QED BY <1>1, <1>2 DEF TagInv

LEMMA TagsStep ==
    ASSUME Inv, TagInv, [Next]_vars
    PROVE  TagInv'
<1>1. CASE Prepare
  BY <1>1, PrepareTags
<1>2. CASE TagSentence
  BY <1>2, TagSentenceTags
<1>10. CASE WithoutId
  BY <1>10, OtherTags DEF WithoutId
<1>3. CASE Finish
  BY <1>3, OtherTags DEF Finish
<1>4. CASE Read
  BY <1>4, OtherTags DEF Read
<1>5. CASE Strip
  BY <1>5, OtherTags DEF Strip
<1>6. CASE CountWords
  BY <1>6, OtherTags DEF CountWords
<1>7. CASE CountNgrams
  BY <1>7, OtherTags DEF CountNgrams
<1>8. CASE EndOfRun
  <2>1. kind = "ngrams"
    BY <1>8 DEF EndOfRun, Inv, Shape
  <2> QED BY <1>8, <2>1, OtherTags DEF EndOfRun
<1>9. CASE UNCHANGED vars
  BY <1>9, OtherTags DEF vars
<1> QED BY <1>1, <1>2, <1>3, <1>4, <1>5, <1>6, <1>7, <1>8, <1>9, <1>10 DEF Next

LEMMA DocFacts ==
    ASSUME Inv
    PROVE  Len(doc) \in Nat /\ DOMAIN doc = 1 .. Len(doc) /\ sentence - 1 \in Int
<1>1. doc \in Seq(Seq(Node)) /\ sentence \in 0 .. Len(doc) + 1
  BY DEF Inv, Shape
<1>2. Len(doc) \in Nat /\ DOMAIN doc = 1 .. Len(doc)
  BY <1>1
<1>3. sentence \in Int
  BY <1>1, <1>2
<1> QED BY <1>2, <1>3

LEMMA UpToBoth ==
    ASSUME NEW m \in Int, NEW l \in Nat, NEW s \in 1 .. Min({m, l})
    PROVE  s \in 1 .. m /\ s \in 1 .. l
<1>1. Min({m, l}) = IF m <= l THEN m ELSE l
  BY MinOfTwo
<1> DEFINE min == Min({m, l})
<1> HIDE DEF min
<1>2. min = (IF m <= l THEN m ELSE l) /\ s \in 1 .. min
  BY <1>1 DEF min
<1> QED BY <1>2

LEMMA LeadingOf ==
    ASSUME Inv, TagInv
    PROVE  LeadingTags
<1> SUFFICES ASSUME NEW s \in 1 .. Min({sentence - 1, Len(doc)}), NEW i \in Leading(doc[s]),
                    kind # "ngrams", kind = "json" => doc[s][i].id # EmptyId
             PROVE  LET x == IF kind = "dom" THEN <<s, i>> ELSE doc[s][i].id
                    IN  x \in DOMAIN tags /\ tags[x] = Tag(WordInput(doc[s]), i)
  BY DEF LeadingTags
<1>3. s \in 1 .. sentence - 1 /\ s \in DOMAIN doc
  BY DocFacts, UpToBoth
<1> QED BY <1>3 DEF TagInv, TagsRight, NameAt

\* dom_to_pos_annotations and annotateDOM: up to the first node that is not one word the tags of
\* a sentence are those of its own words, for sentences of any length; where tags are kept under
\* ids, of documents whose nodes have ids of their own
THEOREM LeadingTagsRight ==
    ASSUME "json" \in Kinds => \A d \in Documents : OwnIds(d)
    PROVE  Spec => []LeadingTags
<1>1. Init => TagInv
  <2> SUFFICES ASSUME Init PROVE TagInv
    OBVIOUS
  <2>1. kind = "json" => OwnIds(doc)
    BY DEF Init
  <2>2. TagsRight
    <3>1. \A s \in 1 .. sentence - 1 : FALSE
      BY DEF Init
    <3> QED BY <3>1 DEF TagsRight
  <2> QED BY <2>1, <2>2 DEF TagInv
<1>2. Inv /\ TagInv /\ [Next]_vars => TagInv'
  BY TagsStep
<1>3. Inv /\ TagInv => LeadingTags
  BY LeadingOf
<1> QED BY <1>1, <1>2, <1>3, Invariance, PTL DEF Spec
=============================================================================
