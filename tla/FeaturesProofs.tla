--------------------------- MODULE FeaturesProofs ---------------------------
(***************************************************************************)
(* Theorems about Features: for collections of any number of documents of  *)
(* any length, any words and any tables.                                   *)
(***************************************************************************)
EXTENDS Features, LoaderFacts, TLAPS

OccurFold  == INSTANCE FoldFacts WITH op <- Occur
AddFold    == INSTANCE FoldFacts WITH op <- AddTfIdf
GramFold   == INSTANCE FoldFacts WITH op <- GramStep

-----------------------------------------------------------------------------
(* What parallel_libsvm_input_occurence folds over the words of a paragraph. *)

LEMMA OccurRuns ==
    ASSUME NEW n \in Nat, NEW b, NEW s, DOMAIN s = 1 .. n
    PROVE  \E run : OccurFold!IsRun(run, b, s, n) /\ run[n] = FoldLeft(Occur, b, s)
<1>1. FoldLeft(Occur, b, s) = OccurFold!Fold(b, s, n)
  BY DEF FoldLeft, MapThenFoldSet, OccurFold!Fold, OccurFold!IsFold, Max, OccurFold!Max
<1> QED BY <1>1, OccurFold!FoldRuns

-----------------------------------------------------------------------------
(* The calls of a pass. *)

LEMMA CallsOfType ==
    ASSUME NEW d \in Seq(Paragraph), NEW x, NEW pass
    PROVE  CallsOf(d, x, pass) \in Seq(Callback)
<1>1. CASE kind \in Parallel
  BY <1>1, CallsType DEF CallsOf
<1>2. CASE kind \notin Parallel
  <2> DEFINE nodes == Nodes(d, x)
             Made(k) == [words |-> WordsOf(OnlyContent(d[nodes[k]]), Flags(pass)),
                         node  |-> nodes[k]]
  <2>1. nodes \in Seq(1 .. Len(d)) /\ Len(d) \in Nat
    BY NodesType
  <2>2. CallsOf(d, x, pass) = [k \in DOMAIN nodes |-> Made(k)]
    BY <1>2 DEF CallsOf
  <2> HIDE DEF nodes
  <2>3. ASSUME NEW k \in DOMAIN nodes PROVE Made(k) \in Callback
    <3>1. nodes[k] \in 1 .. Len(d)
      BY <2>1
    <3> DEFINE p == d[nodes[k]]
               q == OnlyContent(p)
    <3>2. p \in Paragraph
      BY <3>1
    <3>3. p.sentences \in Seq(Seq(Words)) /\ "sentences" \in DOMAIN p
      BY <3>2 DEF Paragraph
    <3> HIDE DEF p
    <3>4. q.sentences = [i \in DOMAIN p.sentences |-> tokenize_words(p.sentences[i])]
      BY <3>3 DEF OnlyContent
    <3>5. ASSUME NEW i \in DOMAIN p.sentences
          PROVE  tokenize_words(p.sentences[i]) \in Seq(Words)
      <4>1. p.sentences[i] \in Seq(Words)
        BY <3>3
      <4> QED BY <4>1, AmongType DEF tokenize_words
    <3>6. DOMAIN p.sentences = 1 .. Len(p.sentences) /\ Len(p.sentences) \in Nat
      BY <3>3
    <3> HIDE DEF q
    <3>7. q.sentences \in Seq(Seq(Words))
      BY <3>4, <3>5, <3>6
    <3>8. WordsOf(q, Flags(pass)) \in Seq(Words)
      BY <3>7, WordsOfType
    <3>9. nodes[k] \in Nat
      BY <2>1, <3>1
    <3>10. Made(k) = [words |-> WordsOf(q, Flags(pass)), node |-> nodes[k]]
      BY DEF q, p
    <3> HIDE DEF Made
    <3> QED BY <3>8, <3>9, <3>10 DEF Callback
  <2>4. DOMAIN nodes = 1 .. Len(nodes) /\ Len(nodes) \in Nat
    BY <2>1
  <2> HIDE DEF Made
  <2> QED BY <2>2, <2>3, <2>4
<1> QED BY <1>1, <1>2

\* Where there is no paragraph to select there is no word to read
LEMMA NothingToRead ==
    ASSUME NEW d \in Seq(Paragraph), NEW x, NEW pass, ~Found(d, x),
           NEW k \in 1 .. Len(CallsOf(d, x, pass))
    PROVE  CallsOf(d, x, pass)[k].words = <<>>
<1> DEFINE cs == CallsOf(d, x, pass)
<1>1. Selected(d, x) = {}
  BY DEF Found
<1>2. CASE kind \in Parallel
  <2>1. cs = <<[words |-> <<>>, node |-> 0]>>
    BY <1>1, <1>2 DEF CallsOf, Calls
  <2>2. k = 1
    BY <2>1
  <2> QED BY <2>1, <2>2
<1>3. CASE kind \notin Parallel
  <2>1. Nodes(d, x) \in Seq({})
    <3>1. {} \in SUBSET (1 .. 0)
      OBVIOUS
    <3> QED BY <1>1, <3>1, InOrderType DEF Nodes
  <2>2. DOMAIN Nodes(d, x) = {}
    BY <2>1
  <2>3. DOMAIN cs = {}
    BY <1>3, <2>2 DEF CallsOf
  <2>4. cs \in Seq(Callback)
    BY CallsOfType
  <2>5. Len(cs) = 0
    <3> HIDE DEF cs
    <3>1. Len(cs) \in Nat /\ DOMAIN cs = 1 .. Len(cs)
      BY <2>4
    <3> QED BY <2>3, <3>1
  <2> QED BY <2>5
<1> QED BY <1>2, <1>3

\* Nor one to count
LEMMA NothingFound ==
    ASSUME NEW d \in Seq(Paragraph), NEW x, NEW pass, ~Found(d, x),
           NEW n \in 0 .. Len(CallsOf(d, x, pass))
    PROVE  Counted(CallsOf(d, x, pass), n) = Empty
<1> DEFINE cs == CallsOf(d, x, pass)
<1>1. \A k \in 1 .. n : cs[k].words = <<>>
  <2>1. cs \in Seq(Callback)
    BY CallsOfType
  <2>2. \A k \in 1 .. n : k \in 1 .. Len(cs)
    <3> HIDE DEF cs
    <3>1. n \in 0 .. Len(cs) /\ Len(cs) \in Nat
      BY <2>1 DEF cs
    <3> QED BY <3>1
  <2> QED BY <2>2, NothingToRead
<1> HIDE DEF cs
<1>2. Places(cs, n) = {}
  <2> SUFFICES ASSUME NEW p \in Places(cs, n) PROVE FALSE
    OBVIOUS
  <2>1. p[1] \in 1 .. n /\ p[2] \in DOMAIN cs[p[1]].words
    BY DEF Places
  <2>2. cs[p[1]].words = <<>>
    BY <1>1, <2>1
  <2> QED BY <2>1, <2>2
<1> QED BY <1>2, NoPlaces DEF Counted, cs

\* The tasks that look words up in DF prepare them alike in both passes, but one
LEMMA SameCalls ==
    ASSUME NEW d, NEW x, kind \in {"tfidf", "occurrence", "serial"}
    PROVE  CallsOf(d, x, "pre") = CallsOf(d, x, "process")
<1>1. Flags("pre") = Flags("process")
  BY DEF Flags
<1> QED BY <1>1 DEF CallsOf

-----------------------------------------------------------------------------
(* What a row should be depends on the task alone, which never changes. *)

LEMMA BinsKept ==
    ASSUME UNCHANGED kind
    PROVE  \A w : HasBin(w)' = HasBin(w) /\ Bin(w)' = Bin(w)
<1>1. Common' = Common
  BY DEF Common
<1>2. ASSUME NEW w PROVE HasBin(w)' = HasBin(w) /\ Bin(w)' = Bin(w)
  BY <1>1 DEF HasBin, Bin, Entries
<1> QED BY <1>2

LEMMA CallsOfKept ==
    ASSUME UNCHANGED kind, NEW d
    PROVE  /\ \A x, pass : CallsOf(d, x, pass)' = CallsOf(d, x, pass)
           /\ Paragraphs(d)' = Paragraphs(d)
<1>1. ASSUME NEW x, NEW pass PROVE CallsOf(d, x, pass)' = CallsOf(d, x, pass)
  BY DEF CallsOf, Flags
<1>2. Paragraphs(d)' = Paragraphs(d)
  BY <1>1 DEF Paragraphs
<1> QED BY <1>1, <1>2

LEMMA HasRowKept ==
    ASSUME UNCHANGED kind, NEW c
    PROVE  HasRow(c)' = HasRow(c)
<1>1. Binned(c.words)' = Binned(c.words)
  BY BinsKept DEF Binned
<1> QED BY <1>1 DEF HasRow

LEMMA WithRowKept ==
    ASSUME UNCHANGED kind, NEW d
    PROVE  WithRow(d)' = WithRow(d)
BY CallsOfKept, HasRowKept DEF WithRow

LEMMA IsRowKept ==
    ASSUME UNCHANGED kind, NEW d, NEW row, NEW r, NEW k
    PROVE  IsRow(row, d, r, k)' = IsRow(row, d, r, k)
<1>1. Paragraphs(d)' = Paragraphs(d)
  BY CallsOfKept
<1>2. \A w : PlacesOf(d, w)' = PlacesOf(d, w)
  BY <1>1 DEF PlacesOf
<1>3. AllWords(d)' = AllWords(d)
  BY <1>1 DEF AllWords
<1>4. MaxTimes(d)' = MaxTimes(d)
  BY <1>2, <1>3 DEF MaxTimes
<1>5. \A words : Binned(words)' = Binned(words)
  BY BinsKept DEF Binned
<1>6. \A w : Weight(d, w)' = Weight(d, w)
  BY <1>2 DEF Weight
<1>7. SquaresIn(d)' = SquaresIn(d)
  BY <1>3, <1>6 DEF SquaresIn
<1>8. \A j : InDocument(d, k, j)' = InDocument(d, k, j)
  BY <1>1, <1>2 DEF InDocument
<1>9. \A n, t : Passing(d, k, n, t)' = Passing(d, k, n, t)
  BY <1>1, <1>6, <1>7, <1>8, BinsKept DEF Passing
<1>10. \A c : IsTfIdfRow(row, d, c)' = IsTfIdfRow(row, d, c)
  <2>1. \A words, w : TfIdfIn(d, words, w)' = TfIdfIn(d, words, w)
    BY <1>2, <1>4 DEF TfIdfIn
  <2> QED BY <1>2, <1>4, <1>5, <2>1, BinsKept DEF IsTfIdfRow
<1>11. IsOccurrenceRow(row, d, k)' = IsOccurrenceRow(row, d, k)
  <2>1. \A words, w : TfcIn(d, words, w)' = TfcIn(d, words, w)
    BY <1>6 DEF TfcIn
  <2>2. Weighty(d, Paragraphs(d)[k].words)' = Weighty(d, Paragraphs(d)[k].words)
    BY <1>1, <1>5, <1>7, <2>1 DEF Weighty
  <2> QED BY <1>1, <1>7, <1>9, <2>1, <2>2, BinsKept DEF IsOccurrenceRow
<1>12. Told(d)' = Told(d)
  BY <1>1 DEF Told
<1>13. \A words : IsGramRow(row, d, r, words)' = IsGramRow(row, d, r, words)
  BY <1>12 DEF IsGramRow
<1> QED BY <1>1, <1>10, <1>11, <1>13 DEF IsRow

-----------------------------------------------------------------------------
(* The inductive invariant. *)

\* The calls of the two passes, with the expression the document is read with
PreCalls     == CallsOf(doc, xpath, "pre")
ProcessCalls == CallsOf(doc, xpath, "process")

\* n of the calls of a pass have been made
Made(cs, n) == IsRest(calls, cs, n)

\* In the first pass the words of the calls made are counted, from nothing
PreInv ==
    pc = "pre" =>
        /\ files # <<>> /\ DF_prime = Empty
        /\ kind # "ngrams" => \E n \in Nat : Made(PreCalls, n) /\ DF = Counted(PreCalls, n)

\* In the second all words of the first are, and those of its own calls once more
ProcessInv ==
    pc \in {"process", "crashed", "undefined"} =>
        /\ files # <<>>
        /\ pc = "process" => doc_max_count = Max({DF[w] : w \in DOMAIN DF} \cup {0})
        /\ kind # "ngrams" => DF = Counted(PreCalls, Len(PreCalls))
        /\ \E n \in Nat :
              /\ Made(ProcessCalls, n)
              /\ kind = "occurrence" => DF_prime = Counted(ProcessCalls, n)

\* Between two documents nothing is counted
IdleInv == pc \in {"idle", "aborted"} => DF = Empty /\ DF_prime = Empty

Shape ==
    /\ kind \in Kinds
    /\ files \in Seq(Seq(Paragraph)) /\ done \in Seq(Seq(Paragraph))
    /\ done \o files \in Collections
    /\ pc \in {"idle", "pre", "process", "crashed", "undefined", "aborted"}
    /\ xpath \in {"section", "relaxed"}
    /\ calls \in Seq(Callback)
    /\ number_of_paragraphs \in Nat /\ paragraph_number \in Nat
    /\ BINS = {}

Inv ==
    /\ Shape /\ PreInv /\ ProcessInv /\ IdleInv
    /\ kind = "ngrams" => DF = Empty
    /\ kind # "occurrence" => DF_prime = Empty
    /\ pc = "crashed" => kind = "serial2"

LEMMA DocType ==
    ASSUME Shape, files # <<>>
    PROVE  doc \in Seq(Paragraph)
BY DEF Shape, doc

\* What the calls of a pass are depends on nothing a pass changes
LEMMA CallsKept ==
    ASSUME UNCHANGED <<kind, files, xpath>>
    PROVE  PreCalls' = PreCalls /\ ProcessCalls' = ProcessCalls
BY DEF PreCalls, ProcessCalls, CallsOf, Flags, doc

LEMMA InitInv ==
    ASSUME Init
    PROVE  Inv
<1>1. Shape
  <2>1. Collections \subseteq Seq(Seq(Paragraph)) /\ files \in Collections
    BY FeaturesAssumption DEF Init
  <2>2. files \in Seq(Seq(Paragraph)) /\ <<>> \o files = files
    BY <2>1
  <2> QED BY <2>1, <2>2 DEF Init, Shape
<1>2. IdleInv /\ PreInv /\ ProcessInv
  BY DEF Init, IdleInv, PreInv, ProcessInv
<1> QED BY <1>1, <1>2 DEF Init, Inv

LEMMA NextCall ==
    ASSUME NEW cs \in Seq(Callback), NEW n \in Nat, Made(cs, n), calls # <<>>
    PROVE  /\ n + 1 \in 1 .. Len(cs) /\ Head(calls) = cs[n + 1]
           /\ IsRest(Tail(calls), cs, n + 1)
BY NextOfRest DEF Made

LEMMA AllMade ==
    ASSUME NEW cs \in Seq(Callback), NEW n \in Nat, Made(cs, n), calls = <<>>
    PROVE  n = Len(cs)
BY NothingLeft DEF Made

LEMMA NoneMade ==
    ASSUME NEW cs \in Seq(Callback)
    PROVE  cs = SubSeq(cs, 1, Len(cs)) /\ 0 \in 0 .. Len(cs) /\ Counted(cs, 0) = Empty
<1>1. Places(cs, 0) = {}
  <2>1. 1 .. 0 = {}
    OBVIOUS
  <2> QED BY <2>1 DEF Places
<1>2. Counted(cs, 0) = Empty
  BY <1>1, NoPlaces DEF Counted
<1>3. cs = SubSeq(cs, 1, Len(cs)) /\ 0 \in 0 .. Len(cs)
  OBVIOUS
<1> QED BY <1>2, <1>3

-----------------------------------------------------------------------------
(* Steps. *)

LEMMA LoadStep ==
    ASSUME Inv, Load
    PROVE  Inv'
<1>0. doc \in Seq(Paragraph)
  BY DocType DEF Inv, Load
<1> DEFINE cs == CallsOf(doc, "section", "pre")
<1>1. cs \in Seq(Callback)
  BY <1>0, CallsOfType
<1>2. PreCalls' = cs
  BY DEF Load, PreCalls, CallsOf, Flags, doc
<1>3. calls' = cs /\ DF' = Empty /\ DF_prime' = Empty /\ pc' = "pre" /\ files' # <<>>
  BY DEF Load, Inv, IdleInv
<1> HIDE DEF cs
<1>4. Shape'
  BY <1>1, <1>3 DEF Load, Inv, Shape
<1>5. Made(PreCalls, 0)' /\ DF' = Counted(PreCalls', 0)
  BY <1>1, <1>2, <1>3, NoneMade, AllLeft DEF Made
<1>6. PreInv'
  <2>1. 0 \in Nat
    OBVIOUS
  <2> QED BY <1>3, <1>5, <2>1 DEF PreInv
<1>7. ProcessInv' /\ IdleInv'
  BY <1>3 DEF ProcessInv, IdleInv
<1> QED BY <1>3, <1>4, <1>6, <1>7 DEF Load, Inv

LEMMA PreProcessStep ==
    ASSUME Inv, PreProcess
    PROVE  Inv'
<1>0. doc \in Seq(Paragraph) /\ PreCalls \in Seq(Callback)
  BY DocType, CallsOfType DEF Inv, PreInv, PreProcess, PreCalls
<1>1. PreCalls' = PreCalls
  BY CallsKept DEF PreProcess
<1>2. Shape'
  <2>1. Tail(calls) \in Seq(Callback)
    BY DEF Inv, Shape, PreProcess
  <2> QED BY <2>1 DEF PreProcess, Inv, Shape
<1>3. PreInv'
  <2> SUFFICES ASSUME kind # "ngrams"
               PROVE  \E n \in Nat : Made(PreCalls, n)' /\ DF' = Counted(PreCalls, n)'
    BY DEF PreProcess, Inv, PreInv
  <2>1. PICK n \in Nat : Made(PreCalls, n) /\ DF = Counted(PreCalls, n)
    BY DEF Inv, PreInv, PreProcess
  <2>2. /\ n + 1 <= Len(PreCalls)
        /\ Head(calls) = PreCalls[n + 1]
        /\ IsRest(Tail(calls), PreCalls, n + 1)
    BY <1>0, <2>1, NextCall DEF PreProcess
  <2>3. DF' = FoldLeft(record_word, DF, PreCalls[n + 1].words)
    BY <2>2 DEF PreProcess
  <2>4. DF' = Counted(PreCalls, n + 1)
    BY <1>0, <2>1, <2>2, <2>3, CallCounted
  <2>5. PICK m \in Nat : m = n + 1
    OBVIOUS
  <2>6. IsRest(calls', PreCalls, m)
    BY <2>2, <2>5 DEF PreProcess
  <2>7. Made(PreCalls, m)' /\ DF' = Counted(PreCalls, m)'
    BY <1>1, <2>4, <2>5, <2>6 DEF Made
  <2> QED BY <2>7
<1>4. ProcessInv' /\ IdleInv'
  BY DEF PreProcess, ProcessInv, IdleInv
<1> QED BY <1>2, <1>3, <1>4 DEF PreProcess, Inv

LEMMA RelaxStep ==
    ASSUME Inv, Relax
    PROVE  Inv'
<1>0. doc \in Seq(Paragraph) /\ PreCalls \in Seq(Callback)
  BY DocType, CallsOfType DEF Inv, PreInv, Relax, PreCalls
<1> DEFINE cs == CallsOf(doc, "relaxed", "pre")
<1>1. cs \in Seq(Callback)
  BY <1>0, CallsOfType
<1>2. PreCalls' = cs
  BY DEF Relax, PreCalls, CallsOf, Flags, doc
<1>3. calls' = cs /\ DF' = DF /\ DF_prime' = DF_prime /\ pc' = "pre" /\ files' = files
  BY DEF Relax
<1>4. ASSUME kind # "ngrams" PROVE DF = Empty
  <2>1. PICK n \in Nat : Made(PreCalls, n) /\ DF = Counted(PreCalls, n)
    BY <1>4 DEF Inv, PreInv, Relax
  <2>2. ~Found(doc, xpath)
    BY DEF Relax
  <2>3. n \in 0 .. Len(PreCalls)
    BY <2>1 DEF Made, IsRest
  <2> QED BY <1>0, <2>1, <2>2, <2>3, NothingFound DEF PreCalls
<1> HIDE DEF cs
<1>5. Shape'
  BY <1>1, <1>3 DEF Relax, Inv, Shape
<1>6. Made(PreCalls, 0)'
  BY <1>1, <1>2, <1>3, NoneMade, AllLeft DEF Made
<1>7. PreInv'
  <2>1. 0 \in Nat
    OBVIOUS
  <2>2. kind' # "ngrams" => DF' = Counted(PreCalls', 0)
    BY <1>1, <1>2, <1>3, <1>4, NoneMade DEF Relax
  <2>3. files # <<>> /\ DF_prime = Empty
    BY DEF Relax, Inv, PreInv
  <2> QED BY <1>3, <1>6, <2>1, <2>2, <2>3 DEF PreInv
<1>8. ProcessInv' /\ IdleInv'
  BY <1>3 DEF ProcessInv, IdleInv
<1> QED BY <1>3, <1>5, <1>7, <1>8 DEF Relax, Inv

LEMMA InBetweenStep ==
    ASSUME Inv, InBetween
    PROVE  Inv'
<1>0. /\ doc \in Seq(Paragraph)
      /\ PreCalls \in Seq(Callback) /\ ProcessCalls \in Seq(Callback)
  BY DocType, CallsOfType DEF Inv, PreInv, InBetween, PreCalls, ProcessCalls
<1>1. PreCalls' = PreCalls /\ ProcessCalls' = ProcessCalls
  BY CallsKept DEF InBetween
<1>2. calls' = ProcessCalls
  BY DEF InBetween, ProcessCalls
<1>3. /\ DF' = DF /\ DF_prime' = DF_prime /\ pc' = "process"
      /\ files' = files /\ kind' = kind
      /\ doc_max_count' = Max({DF[w] : w \in DOMAIN DF} \cup {0})
  BY DEF InBetween
<1>4. ASSUME kind # "ngrams" PROVE DF = Counted(PreCalls, Len(PreCalls))
  <2>1. PICK n \in Nat : Made(PreCalls, n) /\ DF = Counted(PreCalls, n)
    BY <1>4 DEF Inv, PreInv, InBetween
  <2>2. n = Len(PreCalls)
    BY <1>0, <2>1, AllMade DEF InBetween
  <2> QED BY <2>1, <2>2
<1>5. Shape'
  BY <1>0, <1>2 DEF InBetween, Inv, Shape
<1>6. Made(ProcessCalls, 0)'
  BY <1>0, <1>1, <1>2, NoneMade, AllLeft DEF Made
<1>7. files # <<>> /\ DF_prime = Empty
  BY DEF InBetween, Inv, PreInv
<1>8. ProcessInv'
  <2>1. 0 \in Nat
    OBVIOUS
  <2>2. DF_prime' = Counted(ProcessCalls', 0)
    BY <1>0, <1>1, <1>3, <1>7, NoneMade
  <2>3. doc_max_count' = Max({DF'[w] : w \in DOMAIN DF'} \cup {0})
    BY <1>3
  <2>4. kind' # "ngrams" => DF' = Counted(PreCalls', Len(PreCalls'))
    BY <1>1, <1>3, <1>4
  <2> QED BY <1>3, <1>6, <1>7, <2>1, <2>2, <2>3, <2>4 DEF ProcessInv
<1>9. PreInv' /\ IdleInv'
  BY <1>3 DEF PreInv, IdleInv
<1> QED BY <1>3, <1>5, <1>8, <1>9 DEF InBetween, Inv

\* What a word does to the hash of words met, whatever else it does
LEMMA OccurRecords ==
    ASSUME NEW a, NEW w, "prime" \in DOMAIN a
    PROVE  "prime" \in DOMAIN Occur(a, w) /\ Occur(a, w).prime = record_word(a.prime, w)
BY DEF Occur

\* parallel_libsvm_input_occurence counts in DF_prime what record_word counts in DF
LEMMA OccurPrime ==
    ASSUME NEW words, NEW len \in Nat, DOMAIN words = 1 .. len
    PROVE  Occurrences(words).prime = FoldLeft(record_word, DF_prime, words)
<1> DEFINE start == [prime |-> DF_prime, bins |-> Empty,
                     counters |-> [k \in (1 .. 3) \X (1 .. 4) |-> 0]]
<1>1. Occurrences(words) = FoldLeft(Occur, start, words)
  BY DEF Occurrences
<1>2. "prime" \in DOMAIN start /\ start.prime = DF_prime
  OBVIOUS
<1> HIDE DEF start
<1>3. PICK r : /\ RecordFold!IsRun(r, DF_prime, words, len)
               /\ r[len] = FoldLeft(record_word, DF_prime, words)
  BY RecordRuns
<1>4. PICK o : /\ OccurFold!IsRun(o, start, words, len)
               /\ o[len] = FoldLeft(Occur, start, words)
  BY OccurRuns
<1>5. r[0] = DF_prime /\ \A i \in 1 .. len : r[i] = record_word(r[i - 1], words[i])
  BY <1>3 DEF RecordFold!IsRun
<1>6. o[0] = start /\ \A i \in 1 .. len : o[i] = Occur(o[i - 1], words[i])
  BY <1>4 DEF OccurFold!IsRun
<1> DEFINE N == {i \in Nat : i <= len => "prime" \in DOMAIN o[i] /\ o[i].prime = r[i]}
<1>7. 0 \in N
  BY <1>2, <1>5, <1>6
<1>8. ASSUME NEW i \in Nat, i \in N PROVE i + 1 \in N
  <2> SUFFICES ASSUME i + 1 <= len
               PROVE  "prime" \in DOMAIN o[i + 1] /\ o[i + 1].prime = r[i + 1]
    OBVIOUS
  <2>1. "prime" \in DOMAIN o[i] /\ o[i].prime = r[i]
    BY <1>8
  <2>2. o[i + 1] = Occur(o[i], words[i + 1]) /\ r[i + 1] = record_word(r[i], words[i + 1])
    <3>1. i + 1 \in 1 .. len /\ (i + 1) - 1 = i
      OBVIOUS
    <3> QED BY <1>5, <1>6, <3>1
  <2>3. /\ "prime" \in DOMAIN Occur(o[i], words[i + 1])
        /\ Occur(o[i], words[i + 1]).prime = record_word(o[i].prime, words[i + 1])
    BY <2>1, OccurRecords
  <2> QED BY <2>1, <2>2, <2>3
<1>9. len \in N
  <2> HIDE DEF N
  <2> QED BY <1>7, <1>8, JoinedFold!SetInduction
<1>10. o[len].prime = r[len]
  BY <1>9
<1> QED BY <1>1, <1>3, <1>4, <1>10

\* But for gen_libsvm_input_2, what the second pass follows into DF is there
LEMMA LookedCounted ==
    ASSUME Inv, Process, kind # "serial2"
    PROVE  Looked(Head(calls).words) \subseteq DOMAIN DF
<1>1. CASE kind = "ngrams"
  BY <1>1 DEF Looked
<1>2. CASE kind # "ngrams"
  <2>0. kind \in {"tfidf", "occurrence", "serial"}
    BY <1>2, FeaturesAssumption DEF Inv, Shape, Parallel
  <2>1. doc \in Seq(Paragraph) /\ PreCalls \in Seq(Callback)
    BY DocType, CallsOfType DEF Inv, ProcessInv, Process, PreCalls
  <2>2. ProcessCalls = PreCalls
    BY <2>0, SameCalls DEF PreCalls, ProcessCalls
  <2>3. PICK n \in Nat : Made(PreCalls, n)
    BY <2>2 DEF Inv, ProcessInv, Process
  <2>4. n + 1 <= Len(PreCalls) /\ Head(calls) = PreCalls[n + 1]
    BY <2>1, <2>3, NextCall DEF Process
  <2>5. DF = Counted(PreCalls, Len(PreCalls))
    BY <1>2 DEF Inv, ProcessInv, Process
  <2>6. ToSet(Head(calls).words) \subseteq DOMAIN DF
    <3>1. n + 1 \in 1 .. Len(PreCalls)
      BY <2>1, <2>4
    <3> QED BY <2>1, <2>4, <2>5, <3>1, CountedAll
  <2>7. Looked(Head(calls).words) \subseteq ToSet(Head(calls).words)
    BY DEF Looked
  <2> QED BY <2>6, <2>7
<1> QED BY <1>1, <1>2

LEMMA NothingMissing ==
    ASSUME Inv, Process, kind # "serial2"
    PROVE  Missing(Head(calls).words) = {}
BY LookedCounted DEF Missing

LEMMA ProcessStep ==
    ASSUME Inv, Process
    PROVE  Inv'
<1> DEFINE c == Head(calls)
           fine == Missing(c.words) \cup Beyond(c.words) = {}
<1>0. /\ doc \in Seq(Paragraph)
      /\ PreCalls \in Seq(Callback) /\ ProcessCalls \in Seq(Callback)
  BY DocType, CallsOfType DEF Inv, ProcessInv, Process, PreCalls, ProcessCalls
<1>1. PreCalls' = PreCalls /\ ProcessCalls' = ProcessCalls
  BY CallsKept DEF Process
<1>2. /\ kind' = kind /\ files' = files /\ done' = done /\ xpath' = xpath
      /\ DF' = DF /\ doc_max_count' = doc_max_count
      /\ number_of_paragraphs' = number_of_paragraphs
      /\ pc = "process" /\ calls # <<>>
  BY DEF Process
<1>3. CASE ~fine
  <2>1. /\ pc' \in {"crashed", "undefined"} /\ calls' = calls /\ DF_prime' = DF_prime
        /\ paragraph_number' = paragraph_number /\ BINS' = BINS
        /\ pc' = "crashed" => Min(Missing(c.words) \cup Beyond(c.words)) \in Missing(c.words)
    BY <1>3 DEF Process
  <2>2. pc' = "crashed" => kind = "serial2"
    BY <2>1, NothingMissing
  <2>3. Shape'
    BY <1>2, <2>1 DEF Inv, Shape
  <2>4. ProcessInv'
    <3>1. PICK n \in Nat : /\ Made(ProcessCalls, n)
                           /\ kind = "occurrence" => DF_prime = Counted(ProcessCalls, n)
      BY <1>2 DEF Inv, ProcessInv
    <3>2. Made(ProcessCalls, n)'
      BY <1>1, <2>1, <3>1 DEF Made
    <3>3. files # <<>> /\ (kind # "ngrams" => DF = Counted(PreCalls, Len(PreCalls)))
      BY <1>2 DEF Inv, ProcessInv
    <3>4. kind' # "ngrams" => DF' = Counted(PreCalls', Len(PreCalls'))
      BY <1>1, <1>2, <3>3
    <3>5. kind' = "occurrence" => DF_prime' = Counted(ProcessCalls', n)
      BY <1>1, <1>2, <2>1, <3>1
    <3> QED BY <1>2, <2>1, <3>2, <3>3, <3>4, <3>5 DEF ProcessInv
  <2>5. PreInv' /\ IdleInv'
    BY <2>1 DEF PreInv, IdleInv
  <2>6. kind' = "ngrams" => DF' = Empty
    BY <1>2 DEF Inv
  <2>7. kind' # "occurrence" => DF_prime' = Empty
    BY <1>2, <2>1 DEF Inv
  <2> QED BY <1>2, <2>2, <2>3, <2>4, <2>5, <2>6, <2>7 DEF Inv
<1>4. CASE fine
  <2>1. /\ calls' = Tail(calls) /\ pc' = pc
        /\ DF_prime' = IF kind = "occurrence" THEN Occurrences(c.words).prime ELSE DF_prime
    BY <1>4 DEF Process
  <2>2. BINS' = {}
    BY <1>4 DEF Process, Inv, Shape
  <2>3. paragraph_number' \in Nat
    <3>1. paragraph_number' \in {paragraph_number, paragraph_number + 1}
      BY <1>4 DEF Process
    <3> QED BY <3>1 DEF Inv, Shape
  <2>4. Shape'
    <3>1. Tail(calls) \in Seq(Callback)
      BY <1>2 DEF Inv, Shape
    <3> QED BY <1>2, <2>1, <2>2, <2>3, <3>1 DEF Inv, Shape
  <2>5. PICK n \in Nat : /\ Made(ProcessCalls, n)
                         /\ kind = "occurrence" => DF_prime = Counted(ProcessCalls, n)
    BY <1>2 DEF Inv, ProcessInv
  <2>6. /\ n + 1 <= Len(ProcessCalls)
        /\ c = ProcessCalls[n + 1]
        /\ IsRest(Tail(calls), ProcessCalls, n + 1)
    BY <1>0, <1>2, <2>5, NextCall
  <2>7. PICK m \in Nat : m = n + 1
    OBVIOUS
  <2>8. Made(ProcessCalls, m)'
    <3>1. IsRest(calls', ProcessCalls, m)
      BY <2>1, <2>6, <2>7
    <3> QED BY <1>1, <3>1 DEF Made
  <2>9. ASSUME kind = "occurrence" PROVE DF_prime' = Counted(ProcessCalls, m)
    <3>1. c.words \in Seq(Words)
      <4>1. c \in Callback
        BY <1>0, <2>6
      <4> QED BY <4>1 DEF Callback
    <3>2. DF_prime' = Occurrences(c.words).prime
      BY <2>1, <2>9
    <3> DEFINE words == c.words
    <3>3. DOMAIN words = 1 .. Len(words) /\ Len(words) \in Nat
      BY <3>1
    <3>4. Occurrences(words).prime = FoldLeft(record_word, DF_prime, words)
      <4> HIDE DEF words
      <4> QED BY <3>3, OccurPrime
    <3>5. DF_prime' = FoldLeft(record_word, Counted(ProcessCalls, n), ProcessCalls[n + 1].words)
      BY <2>5, <2>6, <2>9, <3>2, <3>4
    <3> QED BY <1>0, <2>6, <2>7, <3>5, CallCounted
  <2>10. ProcessInv'
    <3>1. files # <<>> /\ (kind # "ngrams" => DF = Counted(PreCalls, Len(PreCalls)))
      BY <1>2 DEF Inv, ProcessInv
    <3>2. doc_max_count = Max({DF[w] : w \in DOMAIN DF} \cup {0})
      BY <1>2 DEF Inv, ProcessInv
    <3>3. doc_max_count' = Max({DF'[w] : w \in DOMAIN DF'} \cup {0})
      BY <1>2, <3>2
    <3>4. kind' # "ngrams" => DF' = Counted(PreCalls', Len(PreCalls'))
      BY <1>1, <1>2, <3>1
    <3>5. kind' = "occurrence" => DF_prime' = Counted(ProcessCalls', m)
      BY <1>1, <1>2, <2>9
    <3> QED BY <1>2, <2>8, <3>1, <3>3, <3>4, <3>5 DEF ProcessInv
  <2>11. PreInv' /\ IdleInv'
    BY <1>2, <2>1 DEF PreInv, IdleInv
  <2>12. /\ kind' = "ngrams" => DF' = Empty
         /\ kind' # "occurrence" => DF_prime' = Empty
         /\ pc' # "crashed"
    BY <1>2, <2>1 DEF Inv
  <2> QED BY <2>4, <2>10, <2>11, <2>12 DEF Inv
<1> QED BY <1>3, <1>4

LEMMA FinishStep ==
    ASSUME Inv, Finish
    PROVE  Inv'
<1>1. /\ pc' \in {"idle", "aborted"} /\ kind' = kind /\ xpath' = xpath /\ calls' = calls
      /\ files' = Tail(files) /\ done' = Append(done, Head(files))
      /\ DF' = Empty /\ DF_prime' = Empty /\ BINS' = BINS
      /\ number_of_paragraphs' = number_of_paragraphs /\ paragraph_number' = paragraph_number
  BY DEF Finish, doc
<1>2. files \in Seq(Seq(Paragraph)) /\ files # <<>> /\ done \in Seq(Seq(Paragraph))
  BY DEF Finish, Inv, Shape, ProcessInv
<1>3. /\ Tail(files) \in Seq(Seq(Paragraph))
      /\ Append(done, Head(files)) \in Seq(Seq(Paragraph))
      /\ Append(done, Head(files)) \o Tail(files) = done \o files
  BY <1>2
<1>4. Shape'
  BY <1>1, <1>3 DEF Inv, Shape
<1>5. PreInv' /\ ProcessInv' /\ IdleInv'
  BY <1>1 DEF PreInv, ProcessInv, IdleInv
<1> QED BY <1>1, <1>4, <1>5 DEF Inv

LEMMA InvHolds ==
    Spec => []Inv
<1>1. ASSUME Inv, UNCHANGED vars PROVE Inv'
  <2>1. PreCalls' = PreCalls /\ ProcessCalls' = ProcessCalls
    BY <1>1, CallsKept DEF vars
  <2>2. Shape'
    BY <1>1 DEF Inv, Shape, vars
  <2>3. PreInv'
    BY <1>1, <2>1 DEF Inv, PreInv, Made, vars
  <2>4. ProcessInv'
    BY <1>1, <2>1 DEF Inv, ProcessInv, Made, vars
  <2>5. IdleInv'
    BY <1>1 DEF Inv, IdleInv, vars
  <2> QED BY <1>1, <2>2, <2>3, <2>4, <2>5 DEF Inv, vars
<1>2. Inv /\ [Next]_vars => Inv'
  BY <1>1, LoadStep, PreProcessStep, RelaxStep, InBetweenStep, ProcessStep, FinishStep
     DEF Next
<1> QED BY InitInv, <1>2, PTL DEF Spec

-----------------------------------------------------------------------------
(* What follows for the counts. *)

LEMMA CountsType ==
    ASSUME Inv
    PROVE  /\ DOMAIN DF \subseteq Words /\ DOMAIN DF_prime \subseteq DOMAIN DF
           /\ \A w \in DOMAIN DF_prime : DF_prime[w] \in 1 .. DF[w]
<1>0. DOMAIN Empty = {}
  BY DEF Empty
<1>1. CASE DF = Empty /\ DF_prime = Empty
  BY <1>0, <1>1
<1>2. CASE pc = "pre" /\ kind # "ngrams"
  <2>1. PreCalls \in Seq(Callback)
    BY <1>2, DocType, CallsOfType DEF Inv, PreInv, PreCalls
  <2>2. PICK n \in Nat : Made(PreCalls, n) /\ DF = Counted(PreCalls, n)
    BY <1>2 DEF Inv, PreInv
  <2>3. DF_prime = Empty
    BY <1>2 DEF Inv, PreInv
  <2>4. n \in 0 .. Len(PreCalls)
    BY <2>2 DEF Made, IsRest
  <2>5. DOMAIN DF \subseteq Words
    BY <2>1, <2>2, <2>4, CountedType
  <2> QED BY <1>0, <2>3, <2>5
<1>3. CASE pc \in {"process", "crashed", "undefined"} /\ kind # "ngrams"
  <2>1. PreCalls \in Seq(Callback) /\ ProcessCalls \in Seq(Callback)
    BY <1>3, DocType, CallsOfType DEF Inv, ProcessInv, PreCalls, ProcessCalls
  <2>2. DF = Counted(PreCalls, Len(PreCalls))
    BY <1>3 DEF Inv, ProcessInv
  <2>3. Len(PreCalls) \in 0 .. Len(PreCalls) /\ Len(PreCalls) \in Nat
    BY <2>1
  <2>4. DOMAIN DF \subseteq Words /\ \A w \in DOMAIN DF : DF[w] \in Nat \ {0}
    BY <2>1, <2>2, <2>3, CountedType
  <2>5. CASE kind # "occurrence"
    <3>1. DF_prime = Empty
      BY <2>5 DEF Inv
    <3> QED BY <1>0, <2>4, <3>1
  <2>6. CASE kind = "occurrence"
    <3>1. ProcessCalls = PreCalls
      BY <2>6, SameCalls DEF PreCalls, ProcessCalls
    <3>2. PICK n \in Nat : Made(PreCalls, n) /\ DF_prime = Counted(PreCalls, n)
      BY <1>3, <2>6, <3>1 DEF Inv, ProcessInv
    <3>3. n \in 0 .. Len(PreCalls) /\ Len(PreCalls) \in n .. Len(PreCalls)
      BY <2>3, <3>2 DEF Made, IsRest
    <3>4. \A w \in DOMAIN DF_prime : DF_prime[w] \in Nat \ {0}
      BY <2>1, <3>2, <3>3, CountedType
    <3>5. /\ DOMAIN DF_prime \subseteq DOMAIN DF
          /\ \A w \in DOMAIN DF_prime : DF_prime[w] <= DF[w]
      BY <2>1, <2>2, <3>2, <3>3, CountedGrows
    <3>6. ASSUME NEW w \in DOMAIN DF_prime PROVE DF_prime[w] \in 1 .. DF[w]
      BY <2>4, <3>4, <3>5
    <3> QED BY <2>4, <3>5, <3>6
  <2> QED BY <2>5, <2>6
<1>4. CASE kind = "ngrams"
  <2>1. DF = Empty /\ DF_prime = Empty
    BY <1>4 DEF Inv
  <2> QED BY <1>1, <2>1
<1>5. CASE pc \in {"idle", "aborted"}
  <2>1. DF = Empty /\ DF_prime = Empty
    BY <1>5 DEF Inv, IdleInv
  <2> QED BY <1>1, <2>1
<1> QED BY <1>2, <1>3, <1>4, <1>5 DEF Inv, Shape

\* The invariant TypeOK of Features, for all documents, words and tables: between two
\* documents no count is left of the one before, what the second pass of
\* parallel_libsvm_input_occurence.c has met of a word never exceeds what the first
\* has counted, and doc_max_count is the greatest count while rows are made.
THEOREM TypeCorrect ==
    Spec => []TypeOK
<1>1. ASSUME Inv PROVE TypeOK
  <2>1. /\ DOMAIN DF \subseteq Words /\ DOMAIN DF_prime \subseteq DOMAIN DF
        /\ \A w \in DOMAIN DF_prime : DF_prime[w] \in 1 .. DF[w]
    BY <1>1, CountsType
  <2>2. ASSUME NEW k \in DOMAIN calls PROVE ToSet(calls[k].words) \subseteq Words
    <3>1. calls[k] \in Callback
      BY <1>1 DEF Inv, Shape
    <3>2. calls[k].words \in Seq(Words)
      BY <3>1 DEF Callback
    <3> QED BY <3>2 DEF ToSet
  <2>3. pc = "process" => doc_max_count = Max({DF[w] : w \in DOMAIN DF} \cup {0})
    BY <1>1 DEF Inv, ProcessInv
  <2>4. BINS \subseteq Nat /\ {paragraph_number, number_of_paragraphs} \subseteq Nat
    BY <1>1 DEF Inv, Shape
  <2>5. /\ kind \in Kinds /\ done \o files \in Collections
        /\ pc \in {"idle", "pre", "process", "crashed", "undefined", "aborted"}
        /\ xpath \in {"section", "relaxed"}
    BY <1>1 DEF Inv, Shape
  <2>6. pc \in {"idle", "aborted"} => DF = Empty /\ DF_prime = Empty
    BY <1>1 DEF Inv, IdleInv
  <2> QED BY <2>1, <2>2, <2>3, <2>4, <2>5, <2>6 DEF TypeOK
<1> QED BY InvHolds, <1>1, PTL

\* Every task but gen_libsvm_input_2 finds in DF each word whose entry its second
\* pass follows without a look (HASH_FIND_STR, then ->count): both passes take the
\* same paragraphs, after the relaxed expression too, and bring words into one form.
THEOREM EveryWordFound ==
    Spec => [](kind # "serial2" => EveryWordCounted)
<1>1. Inv => (kind # "serial2" => EveryWordCounted)
  BY DEF Inv, EveryWordCounted
<1> QED BY InvHolds, <1>1, PTL

\* When rows are made, the counts in DF are those of the words in the first pass
\* over this document and nothing else: neither a document read before it nor the
\* pass that found no paragraph in a section has left anything behind.
THEOREM CountsAreOfTheDocument ==
    Spec => [](pc = "process" /\ kind # "ngrams" => DF = Counted(PreCalls, Len(PreCalls)))
<1>1. Inv => (pc = "process" /\ kind # "ngrams" => DF = Counted(PreCalls, Len(PreCalls)))
  BY DEF Inv, ProcessInv
<1> QED BY InvHolds, <1>1, PTL

-----------------------------------------------------------------------------
(* Sets in their order. *)

LEMMA InOrderShape ==
    ASSUME NEW n \in Nat, NEW S \in SUBSET (1 .. n)
    PROVE  /\ InOrder(S) \in Seq(S) /\ Len(InOrder(S)) = Cardinality(S)
           /\ DOMAIN InOrder(S) = 1 .. Cardinality(S) /\ Cardinality(S) \in Nat
<1>1. Cardinality(S) \in Nat
  BY FinitePositions
<1>2. DOMAIN InOrder(S) = 1 .. Cardinality(S)
  BY DEF InOrder
<1>3. InOrder(S) \in Seq(S)
  BY InOrderType
<1> QED BY <1>1, <1>2, <1>3

\* What is in the order is each once, from the least to the greatest
LEMMA InOrderAscends ==
    ASSUME NEW n \in Nat, NEW S \in SUBSET (1 .. n),
           NEW k \in 1 .. Cardinality(S), NEW m \in 1 .. Cardinality(S), k < m
    PROVE  InOrder(S)[k] < InOrder(S)[m]
<1> DEFINE x == InOrder(S)[k]
           y == InOrder(S)[m]
<1>1. /\ x \in S /\ Cardinality(Below(S, x)) = k - 1
      /\ y \in S /\ Cardinality(Below(S, y)) = m - 1
  BY InOrderAt
<1> HIDE DEF x, y
<1>2. Cardinality(S) \in Nat
  BY FinitePositions
<1>3. SUFFICES ASSUME ~(x < y) PROVE FALSE
  BY DEF x, y
<1>4. x \in Int /\ y \in Int
  BY <1>1
<1>5. Below(S, y) \subseteq Below(S, x)
  <2>1. \A j \in S : j \in Int
    OBVIOUS
  <2>2. \A j \in S : j < y => j < x
    BY <1>3, <1>4, <2>1
  <2> QED BY <2>2 DEF Below
<1>6. Below(S, x) \in SUBSET (1 .. n)
  BY DEF Below
<1>7. IsFiniteSet(Below(S, x)) /\ Cardinality(Below(S, x)) \in Nat
  BY <1>6, FinitePositions
<1>8. Cardinality(Below(S, y)) <= Cardinality(Below(S, x))
  BY <1>5, <1>7, FS_Subset
<1> QED BY <1>1, <1>2, <1>8

LEMMA InOrderAll ==
    ASSUME NEW n \in Nat, NEW S \in SUBSET (1 .. n), NEW i \in S
    PROVE  \E k \in 1 .. Cardinality(S) : InOrder(S)[k] = i
<1> DEFINE c == Cardinality(Below(S, i))
<1>1. IsFiniteSet(S) /\ Cardinality(S) \in Nat
  BY FinitePositions
<1>2. i \in Int /\ i \notin Below(S, i) /\ Below(S, i) \cup {i} \subseteq S
  BY DEF Below
<1>3. Below(S, i) \in SUBSET (1 .. n)
  BY DEF Below
<1>4. IsFiniteSet(Below(S, i)) /\ c \in Nat
  BY <1>3, FinitePositions
<1>5. Cardinality(Below(S, i) \cup {i}) = c + 1
  BY <1>2, <1>4, FS_AddElement
<1>6. Cardinality(Below(S, i) \cup {i}) <= Cardinality(S)
  BY <1>1, <1>2, FS_Subset
<1>7. c + 1 \in 1 .. Cardinality(S)
  <2> HIDE DEF c
  <2> QED BY <1>1, <1>4, <1>5, <1>6
<1>8. InOrder(S)[c + 1] \in S /\ Cardinality(Below(S, InOrder(S)[c + 1])) = (c + 1) - 1
  <2> HIDE DEF c
  <2> QED BY <1>7, InOrderAt
<1>9. InOrder(S)[c + 1] = i
  <2>1. (c + 1) - 1 = c
    <3> HIDE DEF c
    <3> QED BY <1>4
  <2> QED BY <1>8, <2>1, PositionUnique
<1> HIDE DEF c
<1> QED BY <1>7, <1>9

\* Features with their numbers ascending
Rises(fs) == \A a, b \in DOMAIN fs : a < b => fs[a][1] < fs[b][1]

Pairs == Int \X Int

LEMMA SortedShape ==
    ASSUME NEW n \in Nat, NEW bins, DOMAIN bins \in SUBSET (1 .. n),
           \A b \in DOMAIN bins : bins[b] \in Int
    PROVE  /\ Sorted(bins) \in Seq(Pairs) /\ Rises(Sorted(bins))
           /\ DOMAIN Sorted(bins) = 1 .. Len(Sorted(bins))
           /\ \A k \in DOMAIN Sorted(bins) : Sorted(bins)[k][1] \in DOMAIN bins
           /\ ToSet(Sorted(bins)) = {<<b, bins[b]>> : b \in DOMAIN bins}
<1> DEFINE S  == DOMAIN bins
           at == InOrder(S)
           c  == Cardinality(S)
           fs == Sorted(bins)
<1>1. at \in Seq(S) /\ DOMAIN at = 1 .. c /\ c \in Nat
  BY InOrderShape
<1>2. fs = [k \in 1 .. c |-> <<at[k], bins[at[k]]>>]
  BY <1>1 DEF Sorted
<1>3. ASSUME NEW k \in 1 .. c
      PROVE  at[k] \in S /\ at[k] \in Int /\ bins[at[k]] \in Int
  <2>1. at[k] \in S
    BY <1>1
  <2> QED BY <2>1
<1>4. \A k, m \in 1 .. c : k < m => at[k] < at[m]
  BY InOrderAscends
<1>5. \A i \in S : \E k \in 1 .. c : at[k] = i
  BY InOrderAll
<1> HIDE DEF at, c, fs
<1>6. fs \in Seq(Pairs)
  BY <1>1, <1>2, <1>3 DEF Pairs
<1>7. Rises(fs)
  BY <1>2, <1>4 DEF Rises
<1>8. ToSet(fs) = {<<b, bins[b]>> : b \in DOMAIN bins}
  <2>1. ToSet(fs) = {fs[k] : k \in 1 .. c}
    BY <1>2 DEF ToSet
  <2>2. \A k \in 1 .. c : fs[k] = <<at[k], bins[at[k]]>>
    BY <1>2
  <2>3. ASSUME NEW x \in ToSet(fs) PROVE x \in {<<b, bins[b]>> : b \in DOMAIN bins}
    BY <1>3, <2>1, <2>2
  <2>4. ASSUME NEW b \in DOMAIN bins PROVE <<b, bins[b]>> \in ToSet(fs)
    BY <1>5, <2>1, <2>2
  <2> QED BY <2>3, <2>4
<1>9. \A k \in DOMAIN fs : fs[k][1] \in DOMAIN bins
  BY <1>2, <1>3
<1>10. DOMAIN fs = 1 .. Len(fs)
  BY <1>6
<1> QED BY <1>6, <1>7, <1>8, <1>9, <1>10 DEF fs

\* The bins that are printed
Shown(bins) == {b \in DOMAIN bins : Above(bins[b])}

LEMMA WrittenShape ==
    ASSUME NEW n \in Nat, NEW bins, DOMAIN bins \in SUBSET (1 .. n),
           \A b \in DOMAIN bins : bins[b] \in Int
    PROVE  /\ Written(bins) \in Seq(Pairs) /\ Rises(Written(bins))
           /\ DOMAIN Written(bins) = 1 .. Len(Written(bins))
           /\ \A k \in DOMAIN Written(bins) : Written(bins)[k][1] \in DOMAIN bins
           /\ ToSet(Written(bins)) = {<<b, bins[b]>> : b \in Shown(bins)}
<1> DEFINE some == Restrict(bins, Shown(bins))
<1>1. /\ DOMAIN some = Shown(bins) /\ Shown(bins) \subseteq DOMAIN bins
      /\ \A b \in Shown(bins) : some[b] = bins[b]
  BY DEF Restrict, Shown
<1>2. Written(bins) = Sorted(some)
  BY DEF Written, Shown
<1> HIDE DEF some
<1>3. DOMAIN some \in SUBSET (1 .. n) /\ \A b \in DOMAIN some : some[b] \in Int
  BY <1>1
<1>4. /\ Sorted(some) \in Seq(Pairs) /\ Rises(Sorted(some))
      /\ DOMAIN Sorted(some) = 1 .. Len(Sorted(some))
      /\ \A k \in DOMAIN Sorted(some) : Sorted(some)[k][1] \in DOMAIN some
      /\ ToSet(Sorted(some)) = {<<b, some[b]>> : b \in DOMAIN some}
  BY <1>3, SortedShape
<1>5. {<<b, some[b]>> : b \in DOMAIN some} = {<<b, bins[b]>> : b \in Shown(bins)}
  BY <1>1
<1> QED BY <1>1, <1>2, <1>4, <1>5

\* A row whose head and features rise, the features above the head
LEMMA RowAscends ==
    ASSUME NEW row, row.head \in Seq(Pairs), row.features \in Seq(Pairs),
           Rises(row.head), Rises(row.features),
           \A a \in DOMAIN row.head, b \in DOMAIN row.features :
              row.head[a][1] < row.features[b][1]
    PROVE  Ascending(row)
<1> DEFINE h == row.head
           f == row.features
           all == h \o f
<1>1. /\ h \in Seq(Pairs) /\ f \in Seq(Pairs) /\ Rises(h) /\ Rises(f)
      /\ \A a \in DOMAIN h, b \in DOMAIN f : h[a][1] < f[b][1]
  OBVIOUS
<1> HIDE DEF h, f
<1>2. /\ Len(h) \in Nat /\ Len(f) \in Nat
      /\ DOMAIN h = 1 .. Len(h) /\ DOMAIN f = 1 .. Len(f)
      /\ DOMAIN all = 1 .. Len(h) + Len(f)
      /\ \A a \in DOMAIN all : all[a] = IF a <= Len(h) THEN h[a] ELSE f[a - Len(h)]
  BY <1>1
<1> HIDE DEF all
<1>3. ASSUME NEW a \in DOMAIN all, NEW b \in DOMAIN all, a < b PROVE all[a][1] < all[b][1]
  <2>1. CASE b <= Len(h)
    <3>1. a \in DOMAIN h /\ b \in DOMAIN h /\ all[a] = h[a] /\ all[b] = h[b]
      BY <1>2, <1>3, <2>1
    <3> QED BY <1>1, <1>3, <3>1 DEF Rises
  <2>2. CASE a > Len(h)
    <3>1. /\ a - Len(h) \in DOMAIN f /\ b - Len(h) \in DOMAIN f /\ a - Len(h) < b - Len(h)
          /\ all[a] = f[a - Len(h)] /\ all[b] = f[b - Len(h)]
      BY <1>2, <1>3, <2>2
    <3> QED BY <1>1, <3>1 DEF Rises
  <2>3. CASE a <= Len(h) /\ b > Len(h)
    <3>1. a \in DOMAIN h /\ b - Len(h) \in DOMAIN f /\ all[a] = h[a] /\ all[b] = f[b - Len(h)]
      BY <1>2, <1>3, <2>3
    <3> QED BY <1>1, <3>1
  <2> QED BY <1>2, <2>1, <2>2, <2>3
<1> QED BY <1>3 DEF Ascending, all, h, f

-----------------------------------------------------------------------------
(* How many rows there are. *)

\* RowsBefore, for any sequence of documents
RowsOf(ds, n) == Cardinality(UNION {{m} \X DOMAIN WithRow(ds[m]) : m \in 1 .. n - 1})

\* The rows of a document follow each other behind the first from rows
RowsAt(rows, from, d, ks) ==
    \A r \in DOMAIN ks : from + r <= Len(rows) /\ IsRow(rows[from + r], d, r, ks[r])

\* The rows of the documents ds are what they should be
RowsOfAll(rows, ds) == \A n \in DOMAIN ds : RowsAt(rows, RowsOf(ds, n), ds[n], WithRow(ds[n]))

LEMMA ParagraphsType ==
    ASSUME NEW d \in Seq(Paragraph)
    PROVE  Paragraphs(d) \in Seq(Callback)
BY CallsOfType DEF Paragraphs

LEMMA WithRowType ==
    ASSUME NEW d \in Seq(Paragraph)
    PROVE  /\ DOMAIN WithRow(d) = 1 .. Len(WithRow(d)) /\ Len(WithRow(d)) \in Nat
<1> DEFINE S == {k \in DOMAIN Paragraphs(d) : HasRow(Paragraphs(d)[k])}
           n == Len(Paragraphs(d))
<1>1. n \in Nat /\ S \in SUBSET (1 .. n)
  BY ParagraphsType
<1>2. WithRow(d) = InOrder(S)
  BY DEF WithRow
<1> HIDE DEF S, n
<1> QED BY <1>1, <1>2, InOrderShape

\* One document more has so many rows more
LEMMA RowsOfStep ==
    ASSUME NEW ds \in Seq(Seq(Paragraph)), NEW n \in 1 .. Len(ds)
    PROVE  /\ RowsOf(ds, n) \in Nat
           /\ RowsOf(ds, n + 1) = RowsOf(ds, n) + Len(WithRow(ds[n]))
<1> DEFINE W(m) == {m} \X DOMAIN WithRow(ds[m])
           U(m) == UNION {W(h) : h \in 1 .. m - 1}
<1>1. ASSUME NEW m \in 1 .. Len(ds)
      PROVE  IsFiniteSet(W(m)) /\ Cardinality(W(m)) = Len(WithRow(ds[m])) /\ Len(WithRow(ds[m])) \in Nat
  <2>1. DOMAIN WithRow(ds[m]) = 1 .. Len(WithRow(ds[m])) /\ Len(WithRow(ds[m])) \in Nat
    <3>1. ds[m] \in Seq(Paragraph)
      OBVIOUS
    <3> QED BY <3>1, WithRowType
  <2> DEFINE D == DOMAIN WithRow(ds[m])
             l == Len(WithRow(ds[m]))
  <2> HIDE DEF D, l
  <2>2. D = 1 .. l /\ l \in Nat
    BY <2>1 DEF D, l
  <2>3. IsFiniteSet(D) /\ Cardinality(D) = l
    <3>1. IsFiniteSet(1 .. l) /\ Cardinality(1 .. l) = IF 1 > l THEN 0 ELSE l - 1 + 1
      BY <2>2, FS_Interval
    <3> QED BY <2>2, <3>1
  <2>4. IsFiniteSet({m}) /\ Cardinality({m}) = 1
    BY FS_Singleton
  <2>5. IsFiniteSet({m} \X D) /\ Cardinality({m} \X D) = 1 * l
    BY <2>3, <2>4, FS_Product
  <2>6. 1 * l = l
    BY <2>2
  <2> QED BY <2>2, <2>5, <2>6 DEF D, l
<1>2. ASSUME NEW m \in 1 .. Len(ds)
      PROVE  U(m + 1) = U(m) \cup W(m) /\ U(m) \cap W(m) = {}
  <2>1. \A h : h \in 1 .. (m + 1) - 1 <=> h \in 1 .. m - 1 \/ h = m
    OBVIOUS
  <2>2. U(m + 1) = U(m) \cup W(m)
    <3> HIDE DEF W
    <3> QED BY <2>1
  <2>3. ASSUME NEW p \in U(m), p \in W(m) PROVE FALSE
    <3>1. PICK h \in 1 .. m - 1 : p \in W(h)
      OBVIOUS
    <3>2. p[1] = h /\ p[1] = m
      BY <2>3, <3>1
    <3> QED BY <3>1, <3>2
  <2> HIDE DEF U, W
  <2> QED BY <2>2, <2>3
<1> DEFINE N == {m \in Nat : m \in 1 .. Len(ds) + 1 => IsFiniteSet(U(m))}
<1>3. 0 \in N
  OBVIOUS
<1>4. ASSUME NEW m \in Nat, m \in N PROVE m + 1 \in N
  <2> SUFFICES ASSUME m + 1 \in 1 .. Len(ds) + 1 PROVE IsFiniteSet(U(m + 1))
    OBVIOUS
  <2>1. CASE m = 0
    <3>1. 1 .. (m + 1) - 1 = {}
      BY <2>1
    <3>2. U(m + 1) = {}
      BY <3>1
    <3> HIDE DEF U
    <3> QED BY <3>2, FS_EmptySet
  <2>2. CASE m # 0
    <3>1. m \in 1 .. Len(ds) /\ m \in 1 .. Len(ds) + 1
      BY <2>2
    <3>2. IsFiniteSet(U(m)) /\ IsFiniteSet(W(m)) /\ U(m + 1) = U(m) \cup W(m)
      BY <1>1, <1>2, <1>4, <3>1
    <3> DEFINE A == U(m)
               B == W(m)
    <3>3. IsFiniteSet(A) /\ IsFiniteSet(B) /\ U(m + 1) = A \cup B
      BY <3>2
    <3> HIDE DEF A, B, U
    <3>4. IsFiniteSet(A \cup B)
      BY <3>3, FS_Union
    <3> QED BY <3>3, <3>4
  <2> QED BY <2>1, <2>2
<1>5. n \in N
  <2> HIDE DEF N
  <2>1. n \in Nat
    OBVIOUS
  <2> QED BY <1>3, <1>4, <2>1, JoinedFold!SetInduction
<1>6. IsFiniteSet(U(n))
  BY <1>5
<1>7. RowsOf(ds, n) = Cardinality(U(n)) /\ RowsOf(ds, n + 1) = Cardinality(U(n + 1))
  BY DEF RowsOf
<1>8. /\ IsFiniteSet(W(n)) /\ Cardinality(W(n)) = Len(WithRow(ds[n]))
      /\ U(n + 1) = U(n) \cup W(n) /\ U(n) \cap W(n) = {}
      /\ Len(WithRow(ds[n])) \in Nat
  BY <1>1, <1>2
<1> DEFINE A == U(n)
           B == W(n)
<1>9. /\ IsFiniteSet(A) /\ IsFiniteSet(B) /\ A \cap B = {}
      /\ RowsOf(ds, n) = Cardinality(A) /\ RowsOf(ds, n + 1) = Cardinality(A \cup B)
      /\ Cardinality(B) = Len(WithRow(ds[n])) /\ Len(WithRow(ds[n])) \in Nat
  BY <1>6, <1>7, <1>8
<1> HIDE DEF A, B, U, W
<1>10. Cardinality(A \cup B) = Cardinality(A) + Cardinality(B) - Cardinality(A \cap B)
  BY <1>9, FS_Union
<1>11. Cardinality(A \cap B) = 0 /\ Cardinality(A) \in Nat /\ Cardinality(B) \in Nat
  BY <1>9, FS_EmptySet, FS_CardinalityType
<1>12. Cardinality(A \cup B) = Cardinality(A) + Cardinality(B)
  BY <1>10, <1>11
<1> QED BY <1>9, <1>11, <1>12

LEMMA RowsOfNone == ASSUME NEW ds PROVE RowsOf(ds, 1) = 0
<1>1. 1 .. 1 - 1 = {}
  OBVIOUS
<1> QED BY <1>1, FS_EmptySet DEF RowsOf

LEMMA RowsOfSame ==
    ASSUME NEW ds, NEW es, NEW n \in Nat, \A m \in 1 .. n - 1 : ds[m] = es[m]
    PROVE  RowsOf(ds, n) = RowsOf(es, n)
<1>1. {{m} \X DOMAIN WithRow(ds[m]) : m \in 1 .. n - 1}
         = {{m} \X DOMAIN WithRow(es[m]) : m \in 1 .. n - 1}
  OBVIOUS
<1> QED BY <1>1 DEF RowsOf

LEMMA RowsOfType ==
    ASSUME NEW ds \in Seq(Seq(Paragraph)), NEW n \in 1 .. Len(ds) + 1
    PROVE  RowsOf(ds, n) \in Nat
<1>1. CASE n = 1
  BY <1>1, RowsOfNone
<1>2. CASE n # 1
  <2>1. n - 1 \in 1 .. Len(ds) /\ (n - 1) + 1 = n
    BY <1>2
  <2>2. RowsOf(ds, n - 1) \in Nat /\ RowsOf(ds, n) = RowsOf(ds, n - 1) + Len(WithRow(ds[n - 1]))
    BY <2>1, RowsOfStep
  <2>3. Len(WithRow(ds[n - 1])) \in Nat
    <3>1. ds[n - 1] \in Seq(Paragraph)
      BY <2>1
    <3> QED BY <3>1, WithRowType
  <2> QED BY <2>2, <2>3
<1> QED BY <1>1, <1>2

\* A row behind the others leaves them right
LEMMA AppendRow ==
    ASSUME NEW S, NEW rows \in Seq(S), NEW row
    PROVE  /\ Append(rows, row) \in Seq(S \cup {row})
           /\ Len(Append(rows, row)) = Len(rows) + 1 /\ Len(rows) \in Nat
           /\ Append(rows, row)[Len(rows) + 1] = row
           /\ \A i \in 1 .. Len(rows) : Append(rows, row)[i] = rows[i]
<1>1. rows \in Seq(S \cup {row}) /\ row \in S \cup {row}
  BY SeqOver
<1> QED BY <1>1

LEMMA RowsAtAppend ==
    ASSUME NEW S, NEW rows \in Seq(S), NEW row, NEW from \in Nat, NEW d, NEW ks,
           DOMAIN ks = 1 .. Len(ks), RowsAt(rows, from, d, ks)
    PROVE  RowsAt(Append(rows, row), from, d, ks)
<1> SUFFICES ASSUME NEW r \in DOMAIN ks
             PROVE  /\ from + r <= Len(Append(rows, row))
                    /\ IsRow(Append(rows, row)[from + r], d, r, ks[r])
  BY DEF RowsAt
<1>1. from + r <= Len(rows) /\ IsRow(rows[from + r], d, r, ks[r])
  BY DEF RowsAt
<1>2. r \in 1 .. Len(ks) /\ r \in Int /\ r >= 1
  OBVIOUS
<1>3. from + r \in 1 .. Len(rows) /\ Len(rows) \in Nat
  BY <1>1, <1>2
<1>4. Append(rows, row)[from + r] = rows[from + r] /\ Len(Append(rows, row)) = Len(rows) + 1
  BY <1>3, AppendRow
<1> QED BY <1>1, <1>3, <1>4

LEMMA RowsOfAllAppend ==
    ASSUME NEW S, NEW rows \in Seq(S), NEW row, NEW ds \in Seq(Seq(Paragraph)),
           RowsOfAll(rows, ds)
    PROVE  RowsOfAll(Append(rows, row), ds)
<1> SUFFICES ASSUME NEW n \in DOMAIN ds
             PROVE  RowsAt(Append(rows, row), RowsOf(ds, n), ds[n], WithRow(ds[n]))
  BY DEF RowsOfAll
<1>1. RowsAt(rows, RowsOf(ds, n), ds[n], WithRow(ds[n]))
  BY DEF RowsOfAll
<1>2. n \in 1 .. Len(ds) /\ n \in 1 .. Len(ds) + 1 /\ ds[n] \in Seq(Paragraph)
  OBVIOUS
<1>3. RowsOf(ds, n) \in Nat
  BY <1>2, RowsOfType
<1>4. DOMAIN WithRow(ds[n]) = 1 .. Len(WithRow(ds[n]))
  BY <1>2, WithRowType
<1> QED BY <1>1, <1>3, <1>4, RowsAtAppend

\* A document whose rows are there is one of those that are done
LEMMA RowsOfAllDone ==
    ASSUME NEW rows, NEW ds \in Seq(Seq(Paragraph)), NEW d \in Seq(Paragraph),
           RowsOfAll(rows, ds), RowsAt(rows, RowsOf(ds, Len(ds) + 1), d, WithRow(d))
    PROVE  /\ RowsOfAll(rows, Append(ds, d))
           /\ RowsOf(Append(ds, d), Len(ds) + 2) = RowsOf(ds, Len(ds) + 1) + Len(WithRow(d))
<1> DEFINE es == Append(ds, d)
           l  == Len(ds)
<1>1. /\ es \in Seq(Seq(Paragraph)) /\ Len(es) = l + 1 /\ l \in Nat
      /\ es[l + 1] = d /\ \A m \in 1 .. l : es[m] = ds[m]
      /\ DOMAIN es = 1 .. l + 1 /\ DOMAIN ds = 1 .. l
  OBVIOUS
<1> HIDE DEF es, l
<1>2. ASSUME NEW n \in 1 .. l + 1 PROVE RowsOf(es, n) = RowsOf(ds, n)
  <2>1. n \in Nat /\ \A m \in 1 .. n - 1 : es[m] = ds[m]
    BY <1>1
  <2> QED BY <2>1, RowsOfSame
<1>3. ASSUME NEW n \in 1 .. l + 1
      PROVE  RowsAt(rows, RowsOf(es, n), es[n], WithRow(es[n]))
  <2>1. CASE n = l + 1
    BY <1>1, <1>2, <2>1 DEF l
  <2>2. CASE n # l + 1
    <3>1. n \in 1 .. l
      BY <1>1, <2>2
    <3>2. es[n] = ds[n] /\ RowsOf(es, n) = RowsOf(ds, n)
      BY <1>1, <1>2, <3>1
    <3>3. RowsAt(rows, RowsOf(ds, n), ds[n], WithRow(ds[n]))
      BY <1>1, <3>1 DEF RowsOfAll
    <3> QED BY <3>2, <3>3
  <2> QED BY <2>1, <2>2
<1>4. RowsOfAll(rows, es)
  BY <1>1, <1>3 DEF RowsOfAll
<1>5. RowsOf(es, l + 2) = RowsOf(ds, l + 1) + Len(WithRow(d))
  <2>1. l + 1 \in 1 .. Len(es) /\ (l + 1) + 1 = l + 2 /\ l + 1 \in 1 .. l + 1
    BY <1>1
  <2>2. RowsOf(es, (l + 1) + 1) = RowsOf(es, l + 1) + Len(WithRow(es[l + 1]))
    BY <1>1, <2>1, RowsOfStep
  <2>3. RowsOf(es, l + 1) = RowsOf(ds, l + 1)
    BY <1>2, <2>1
  <2> QED BY <1>1, <2>1, <2>2, <2>3
<1> QED BY <1>4, <1>5 DEF es, l

-----------------------------------------------------------------------------
(* Bins of words. *)

\* The common entries that come no later than one of them
UpTo(e) == {i \in Common : \/ Idf[i][2] < Idf[e][2]
                           \/ Idf[i][2] = Idf[e][2] /\ i <= e}

LEMMA CommonFinite == Common \in SUBSET (1 .. Len(Idf)) /\ Len(Idf) \in Nat
<1>1. Idf \in Seq(Words \X Nat)
  BY FeaturesAssumption
<1>2. DOMAIN Idf = 1 .. Len(Idf) /\ Len(Idf) \in Nat
  BY <1>1
<1> QED BY <1>2 DEF Common

LEMMA EntryType ==
    ASSUME NEW i \in DOMAIN Idf
    PROVE  i \in Int /\ Idf[i][2] \in Nat
<1>1. Idf \in Seq(Words \X Nat)
  BY FeaturesAssumption
<1> QED BY <1>1

\* No word has two entries
LEMMA OneEntry ==
    ASSUME NEW w, NEW e \in Entries(w)
    PROVE  Entries(w) = {e} /\ Min(Entries(w)) = e
<1>1. \A i, j \in DOMAIN Idf : Idf[i][1] = Idf[j][1] => i = j
  BY FeaturesAssumption DEF IsInjective
<1>2. Entries(w) = {e}
  BY <1>1 DEF Entries
<1>3. e \in Int
  BY EntryType DEF Entries
<1> QED BY <1>2, <1>3 DEF Min

LEMMA ScoreType == ASSUME NEW w PROVE Score(w) \in Nat
<1>1. CASE Entries(w) = {}
  BY <1>1 DEF Score
<1>2. CASE Entries(w) # {}
  <2>1. PICK e \in Entries(w) : TRUE
    BY <1>2
  <2>2. Min(Entries(w)) = e /\ e \in DOMAIN Idf
    BY OneEntry DEF Entries
  <2> QED BY <1>2, <2>2, EntryType DEF Score
<1> QED BY <1>1, <1>2

LEMMA BinOfEntry ==
    ASSUME NEW w, HasBin(w)
    PROVE  \E e \in Common : Idf[e][1] = w /\ Bin(w) = Cardinality(UpTo(e))
<1>1. PICK e \in Entries(w) : e \in Common
  BY DEF HasBin
<1>2. Min(Entries(w)) = e
  BY OneEntry
<1>3. Idf[e][1] = w
  BY DEF Entries
<1> QED BY <1>1, <1>2, <1>3 DEF Bin, UpTo

LEMMA BinType ==
    ASSUME NEW w, HasBin(w)
    PROVE  Bin(w) \in 1 .. Cardinality(Common)
<1>1. PICK e \in Common : Bin(w) = Cardinality(UpTo(e))
  BY BinOfEntry
<1>2. e \in DOMAIN Idf
  BY DEF Common
<1>3. e \in UpTo(e) /\ UpTo(e) \subseteq Common
  BY <1>2, EntryType DEF UpTo
<1>4. IsFiniteSet(Common) /\ Cardinality(Common) \in Nat
  BY CommonFinite, FinitePositions
<1>5. IsFiniteSet(UpTo(e)) /\ Cardinality(UpTo(e)) <= Cardinality(Common)
  BY <1>3, <1>4, FS_Subset
<1>6. Cardinality(UpTo(e)) \in Nat /\ Cardinality(UpTo(e)) # 0
  BY <1>3, <1>5, FS_CardinalityType, FS_EmptySet
<1> QED BY <1>1, <1>4, <1>5, <1>6

\* Of two common entries the later one has more before it
LEMMA LaterEntry ==
    ASSUME NEW e \in Common, NEW f \in Common,
           Idf[e][2] < Idf[f][2] \/ (Idf[e][2] = Idf[f][2] /\ e < f)
    PROVE  Cardinality(UpTo(e)) # Cardinality(UpTo(f))
<1>1. \A i \in Common : i \in Int /\ Idf[i][2] \in Nat
  BY EntryType DEF Common
<1>2. f \notin UpTo(e) /\ UpTo(e) \cup {f} \subseteq UpTo(f)
  <2>1. f \notin UpTo(e)
    BY <1>1 DEF UpTo
  <2>2. f \in UpTo(f)
    BY <1>1 DEF UpTo
  <2>3. ASSUME NEW i \in UpTo(e) PROVE i \in UpTo(f)
    <3>1. i \in Common /\ (Idf[i][2] < Idf[e][2] \/ (Idf[i][2] = Idf[e][2] /\ i <= e))
      BY DEF UpTo
    <3>2. Idf[i][2] < Idf[f][2] \/ (Idf[i][2] = Idf[f][2] /\ i <= f)
      BY <1>1, <3>1
    <3> QED BY <3>1, <3>2 DEF UpTo
  <2> QED BY <2>1, <2>2, <2>3
<1>3. UpTo(e) \in SUBSET (1 .. Len(Idf)) /\ UpTo(f) \in SUBSET (1 .. Len(Idf))
  BY CommonFinite DEF UpTo
<1>4. /\ IsFiniteSet(UpTo(e)) /\ IsFiniteSet(UpTo(f))
      /\ Cardinality(UpTo(e)) \in Nat /\ Cardinality(UpTo(f)) \in Nat
  BY <1>3, CommonFinite, FinitePositions
<1>5. Cardinality(UpTo(e) \cup {f}) = Cardinality(UpTo(e)) + 1
  BY <1>2, <1>4, FS_AddElement
<1>6. Cardinality(UpTo(e) \cup {f}) <= Cardinality(UpTo(f))
  BY <1>2, <1>4, FS_Subset
<1> QED BY <1>4, <1>5, <1>6

\* frequencies_hash_to_bins gives no two words one bin
LEMMA BinsDiffer ==
    ASSUME NEW v, NEW w, HasBin(v), HasBin(w), Bin(v) = Bin(w)
    PROVE  v = w
<1>1. PICK e \in Common : Idf[e][1] = v /\ Bin(v) = Cardinality(UpTo(e))
  BY BinOfEntry
<1>2. PICK f \in Common : Idf[f][1] = w /\ Bin(w) = Cardinality(UpTo(f))
  BY BinOfEntry
<1>3. e \in Int /\ f \in Int /\ Idf[e][2] \in Nat /\ Idf[f][2] \in Nat
  BY EntryType DEF Common
<1>4. Cardinality(UpTo(e)) = Cardinality(UpTo(f))
  BY <1>1, <1>2
<1>5. e = f
  <2>1. ~(Idf[e][2] < Idf[f][2] \/ (Idf[e][2] = Idf[f][2] /\ e < f))
    BY <1>4, LaterEntry
  <2>2. ~(Idf[f][2] < Idf[e][2] \/ (Idf[f][2] = Idf[e][2] /\ f < e))
    BY <1>4, LaterEntry
  <2> QED BY <1>3, <2>1, <2>2
<1> QED BY <1>1, <1>2, <1>5

-----------------------------------------------------------------------------
(* The bins of a paragraph. *)

\* How often a word is among the first i
Seen(words, i, w) == Cardinality({j \in 1 .. i : words[j] = w})

\* What the hash is after the first i words, if a word weighs V[w]
IsBins(bins, words, i, V) ==
    /\ DOMAIN bins = {Bin(words[j]) : j \in {h \in 1 .. i : HasBin(words[h])}}
    /\ \A j \in 1 .. i : HasBin(words[j]) =>
          bins[Bin(words[j])] = Seen(words, i, words[j]) * V[words[j]]

LEMMA SeenType ==
    ASSUME NEW words, NEW i \in Nat, NEW w
    PROVE  Seen(words, i, w) \in Nat
<1>1. {j \in 1 .. i : words[j] = w} \in SUBSET (1 .. i)
  OBVIOUS
<1> QED BY <1>1, FinitePositions DEF Seen

LEMMA SeenNever ==
    ASSUME NEW words, NEW i \in Nat, NEW w, \A j \in 1 .. i : words[j] # w
    PROVE  Seen(words, i, w) = 0
<1>1. {j \in 1 .. i : words[j] = w} = {}
  OBVIOUS
<1> QED BY <1>1, FS_EmptySet DEF Seen

LEMMA SeenStep ==
    ASSUME NEW words, NEW i \in Nat, NEW w
    PROVE  Seen(words, i + 1, w) = Seen(words, i, w) + IF words[i + 1] = w THEN 1 ELSE 0
<1> DEFINE A == {j \in 1 .. i : words[j] = w}
           B == {j \in 1 .. i + 1 : words[j] = w}
<1>1. A \in SUBSET (1 .. i) /\ i + 1 \notin A
  OBVIOUS
<1>2. IsFiniteSet(A) /\ Cardinality(A) \in Nat
  BY <1>1, FinitePositions
<1>3. \A j : j \in 1 .. i + 1 <=> j \in 1 .. i \/ j = i + 1
  OBVIOUS
<1>4. CASE words[i + 1] = w
  <2>1. B = A \cup {i + 1}
    BY <1>3, <1>4
  <2> HIDE DEF A, B
  <2>2. Cardinality(B) = Cardinality(A) + 1
    BY <1>1, <1>2, <2>1, FS_AddElement
  <2> QED BY <1>4, <2>2 DEF Seen, A, B
<1>5. CASE words[i + 1] # w
  <2>1. B = A
    BY <1>3, <1>5
  <2> HIDE DEF A, B
  <2> QED BY <1>2, <1>5, <2>1 DEF Seen, A, B
<1> QED BY <1>4, <1>5

\* Word i + 1 adds what it weighs to its bin
LEMMA BinsStep ==
    ASSUME NEW bins, NEW words, NEW i \in Nat, NEW V, IsBins(bins, words, i, V),
           HasBin(words[i + 1]), V[words[i + 1]] \in Int,
           \A j \in 1 .. i : V[words[j]] \in Int
    PROVE  IsBins(AddTo(bins, Bin(words[i + 1]), V[words[i + 1]]), words, i + 1, V)
<1> DEFINE w   == words[i + 1]
           new == AddTo(bins, Bin(w), V[w])
           D(m) == {Bin(words[j]) : j \in {h \in 1 .. m : HasBin(words[h])}}
<1>1. \A j : j \in 1 .. i + 1 <=> j \in 1 .. i \/ j = i + 1
  OBVIOUS
<1>2. DOMAIN bins = D(i)
  BY DEF IsBins
<1>3. /\ DOMAIN new = DOMAIN bins \cup {Bin(w)}
      /\ \A b \in DOMAIN new : new[b] = Count(bins, b) + IF b = Bin(w) THEN V[w] ELSE 0
  BY DEF AddTo
<1>4. D(i + 1) = D(i) \cup {Bin(w)}
  BY <1>1
<1> HIDE DEF new
<1>5. ASSUME NEW j \in 1 .. i + 1, HasBin(words[j])
      PROVE  new[Bin(words[j])] = Seen(words, i + 1, words[j]) * V[words[j]]
  <2> DEFINE v == words[j]
  <2>0. V[v] \in Int /\ HasBin(v) /\ (v # w => j \in 1 .. i)
    BY <1>1, <1>5
  <2>1. Bin(v) \in DOMAIN new
    BY <1>1, <1>2, <1>3, <1>4, <1>5
  <2>2. Seen(words, i, v) \in Nat
    BY SeenType
  <2>3. Count(bins, Bin(v)) = Seen(words, i, v) * V[v]
    <3>1. CASE Bin(v) \in DOMAIN bins
      <4>1. PICK h \in 1 .. i : HasBin(words[h]) /\ Bin(words[h]) = Bin(v)
        BY <1>2, <3>1
      <4>2. words[h] = v
        BY <2>0, <4>1, BinsDiffer
      <4>3. bins[Bin(v)] = Seen(words, i, v) * V[v]
        BY <4>1, <4>2 DEF IsBins
      <4> QED BY <3>1, <4>3 DEF Count
    <3>2. CASE Bin(v) \notin DOMAIN bins
      <4>1. \A h \in 1 .. i : words[h] # v
        BY <1>2, <2>0, <3>2
      <4>2. Seen(words, i, v) = 0
        BY <4>1, SeenNever
      <4>3. 0 * V[v] = 0
        BY <2>0
      <4> QED BY <3>2, <4>2, <4>3 DEF Count
    <3> QED BY <3>1, <3>2
  <2> HIDE DEF v
  <2>4. CASE v = w
    <3> DEFINE s == Seen(words, i, v)
               u == V[v]
    <3>1. Seen(words, i + 1, v) = s + 1
      BY <2>4, SeenStep DEF v
    <3>2. new[Bin(v)] = s * u + u
      BY <1>3, <2>1, <2>3, <2>4
    <3>3. s \in Nat /\ u \in Int
      BY <2>0, <2>2
    <3> HIDE DEF s, u
    <3>4. s * u + u = (s + 1) * u
      BY <3>3
    <3> QED BY <3>1, <3>2, <3>4 DEF v, u
  <2>5. CASE v # w
    <3>1. Bin(v) # Bin(w)
      BY <2>0, <2>5, BinsDiffer
    <3>2. Seen(words, i + 1, v) = Seen(words, i, v)
      BY <2>2, <2>5, SeenStep DEF w
    <3>3. new[Bin(v)] = Seen(words, i, v) * V[v] + 0
      BY <1>3, <2>1, <2>3, <3>1
    <3>4. Seen(words, i, v) * V[v] \in Int
      BY <2>0, <2>2
    <3> QED BY <3>2, <3>3, <3>4 DEF v
  <2> QED BY <2>4, <2>5
<1>6. DOMAIN new = D(i + 1)
  BY <1>2, <1>3, <1>4
<1> QED BY <1>5, <1>6 DEF IsBins, new

LEMMA BinsSame ==
    ASSUME NEW bins, NEW words, NEW i \in Nat, NEW V, IsBins(bins, words, i, V),
           ~HasBin(words[i + 1])
    PROVE  IsBins(bins, words, i + 1, V)
<1> DEFINE D(m) == {Bin(words[j]) : j \in {h \in 1 .. m : HasBin(words[h])}}
<1>1. \A j : j \in 1 .. i + 1 <=> j \in 1 .. i \/ j = i + 1
  OBVIOUS
<1>2. D(i + 1) = D(i)
  BY <1>1
<1>3. ASSUME NEW j \in 1 .. i + 1, HasBin(words[j])
      PROVE  bins[Bin(words[j])] = Seen(words, i + 1, words[j]) * V[words[j]]
  <2>1. j \in 1 .. i /\ words[j] # words[i + 1]
    BY <1>1, <1>3
  <2>2. Seen(words, i + 1, words[j]) = Seen(words, i, words[j])
    BY <2>1, SeenStep, SeenType
  <2> QED BY <1>3, <2>1, <2>2 DEF IsBins
<1> QED BY <1>2, <1>3 DEF IsBins

LEMMA NoBins ==
    ASSUME NEW words, NEW V
    PROVE  IsBins(Empty, words, 0, V)
<1>1. 1 .. 0 = {}
  OBVIOUS
<1> QED BY <1>1 DEF IsBins, Empty

\* How often a word is in a sequence, and in the first of it
LEMMA SeenAll ==
    ASSUME NEW words \in Seq(Words), NEW i \in 0 .. Len(words), NEW w
    PROVE  Times(SubSeq(words, 1, i), w) = Seen(words, i, w)
<1> DEFINE s == SubSeq(words, 1, i)
<1>1. DOMAIN s = 1 .. i /\ \A j \in 1 .. i : s[j] = words[j]
  BY SubSeqProperties
<1> HIDE DEF s
<1>2. {j \in DOMAIN s : s[j] = w} = {j \in 1 .. i : words[j] = w}
  BY <1>1
<1> QED BY <1>2 DEF Times, Seen, s

LEMMA SeenWhole ==
    ASSUME NEW words \in Seq(Words), NEW w
    PROVE  Times(words, w) = Seen(words, Len(words), w)
<1>1. DOMAIN words = 1 .. Len(words)
  OBVIOUS
<1> QED BY <1>1 DEF Times, Seen

\* The words of a paragraph that have a bin and weigh enough to be printed
Heavy(words, V) == {w \in Binned(words) : Above(Times(words, w) * V[w])}

\* The features of a paragraph, from the hash after its last word
LEMMA BinFeatures ==
    ASSUME NEW words \in Seq(Words), NEW bins, NEW V, IsBins(bins, words, Len(words), V),
           \A w \in ToSet(words) : V[w] \in Int
    PROVE  /\ DOMAIN bins \in SUBSET (1 .. Cardinality(Common)) /\ Cardinality(Common) \in Nat
           /\ \A b \in DOMAIN bins : bins[b] \in Int
           /\ {<<b, bins[b]>> : b \in Shown(bins)}
                 = {<<Bin(w), Times(words, w) * V[w]>> : w \in Heavy(words, V)}
<1> DEFINE n == Len(words)
<1>1. n \in Nat /\ ToSet(words) = {words[j] : j \in 1 .. n}
  BY DEF ToSet
<1>2. Cardinality(Common) \in Nat
  BY CommonFinite, FinitePositions
<1>3. ASSUME NEW w \in Binned(words)
      PROVE  Bin(w) \in DOMAIN bins /\ bins[Bin(w)] = Times(words, w) * V[w] /\ bins[Bin(w)] \in Int
  <2>1. PICK j \in 1 .. n : words[j] = w
    BY <1>1 DEF Binned
  <2>2. HasBin(w) /\ V[w] \in Int
    BY DEF Binned
  <2>3. Bin(w) \in DOMAIN bins /\ bins[Bin(w)] = Seen(words, n, w) * V[w]
    BY <2>1, <2>2 DEF IsBins
  <2>4. Seen(words, n, w) \in Nat
    BY <1>1, SeenType
  <2>5. Seen(words, n, w) * V[w] \in Int
    BY <2>2, <2>4
  <2> QED BY <2>3, <2>5, SeenWhole
<1>4. ASSUME NEW b \in DOMAIN bins
      PROVE  \E w \in Binned(words) : Bin(w) = b
  <2>1. PICK j \in 1 .. n : HasBin(words[j]) /\ b = Bin(words[j])
    BY DEF IsBins
  <2> QED BY <1>1, <2>1 DEF Binned
<1>5. DOMAIN bins \in SUBSET (1 .. Cardinality(Common))
  <2>1. \A w \in Binned(words) : Bin(w) \in 1 .. Cardinality(Common)
    BY BinType DEF Binned
  <2> QED BY <1>4, <2>1
<1> HIDE DEF n
<1>6. {<<b, bins[b]>> : b \in Shown(bins)}
         = {<<Bin(w), Times(words, w) * V[w]>> : w \in Heavy(words, V)}
  <2>1. ASSUME NEW b \in Shown(bins)
        PROVE  \E w \in Heavy(words, V) : <<b, bins[b]>> = <<Bin(w), Times(words, w) * V[w]>>
    <3>1. b \in DOMAIN bins /\ Above(bins[b])
      BY DEF Shown
    <3>2. PICK w \in Binned(words) : Bin(w) = b
      BY <1>4, <3>1
    <3>3. bins[b] = Times(words, w) * V[w]
      BY <1>3, <3>2
    <3>4. w \in Heavy(words, V)
      BY <3>1, <3>3 DEF Heavy
    <3> QED BY <3>2, <3>3, <3>4
  <2>2. ASSUME NEW w \in Heavy(words, V)
        PROVE  Bin(w) \in Shown(bins) /\ bins[Bin(w)] = Times(words, w) * V[w]
    BY <1>3 DEF Heavy, Shown
  <2> QED BY <2>1, <2>2
<1>7. \A b \in DOMAIN bins : bins[b] \in Int
  BY <1>3, <1>4
<1> QED BY <1>2, <1>5, <1>6, <1>7

-----------------------------------------------------------------------------
(* The words of a document and their places. *)

LEMMA AddRuns ==
    ASSUME NEW n \in Nat, NEW b, NEW s, DOMAIN s = 1 .. n
    PROVE  \E run : AddFold!IsRun(run, b, s, n) /\ run[n] = FoldLeft(AddTfIdf, b, s)
<1>1. FoldLeft(AddTfIdf, b, s) = AddFold!Fold(b, s, n)
  BY DEF FoldLeft, MapThenFoldSet, AddFold!Fold, AddFold!IsFold, Max, AddFold!Max
<1> QED BY <1>1, AddFold!FoldRuns

\* The places of a word in the calls of the second pass are those in the document
LEMMA PlacesSame ==
    ASSUME NEW d \in Seq(Paragraph), NEW cs, cs \in Seq(Callback), Paragraphs(d) = cs, NEW w
    PROVE  {p \in Places(cs, Len(cs)) : WordAt(cs, p) = w} = PlacesOf(d, w)
<1> DEFINE A == {p \in Places(cs, Len(cs)) : WordAt(cs, p) = w}
           B(k) == {k} \X {i \in DOMAIN cs[k].words : cs[k].words[i] = w}
<1>1. DOMAIN cs = 1 .. Len(cs)
  OBVIOUS
<1>2. PlacesOf(d, w) = UNION {B(k) : k \in DOMAIN cs}
  BY DEF PlacesOf
<1>3. ASSUME NEW k \in DOMAIN cs PROVE \A i \in DOMAIN cs[k].words : i \in Nat
  <2>1. cs[k] \in Callback
    BY <1>1
  <2>2. cs[k].words \in Seq(Words)
    BY <2>1 DEF Callback
  <2> QED BY <2>2
<1>4. ASSUME NEW p \in A PROVE \E k \in DOMAIN cs : p \in B(k)
  <2>1. /\ p \in (1 .. Len(cs)) \X Nat /\ p[2] \in DOMAIN cs[p[1]].words
        /\ cs[p[1]].words[p[2]] = w
    BY DEF Places, WordAt
  <2>2. p = <<p[1], p[2]>> /\ p[1] \in DOMAIN cs
    BY <1>1, <2>1
  <2>3. p \in B(p[1])
    BY <2>1, <2>2
  <2> QED BY <2>2, <2>3
<1>5. ASSUME NEW k \in DOMAIN cs, NEW p \in B(k) PROVE p \in A
  <2>1. p = <<k, p[2]>> /\ p[1] = k /\ p[2] \in DOMAIN cs[k].words /\ cs[k].words[p[2]] = w
    OBVIOUS
  <2>2. p[2] \in Nat
    BY <1>3, <2>1
  <2>3. p \in (1 .. Len(cs)) \X Nat
    BY <1>1, <2>1, <2>2
  <2> QED BY <2>1, <2>3 DEF Places, WordAt
<1> HIDE DEF A, B
<1>6. A = UNION {B(k) : k \in DOMAIN cs}
  BY <1>4, <1>5
<1> QED BY <1>2, <1>6 DEF A

\* What is counted over a whole pass are the words of the document
LEMMA CountedWhole ==
    ASSUME NEW d \in Seq(Paragraph), NEW cs, cs \in Seq(Callback), Paragraphs(d) = cs
    PROVE  /\ DOMAIN Counted(cs, Len(cs)) = AllWords(d)
           /\ \A w \in AllWords(d) : Counted(cs, Len(cs))[w] = Cardinality(PlacesOf(d, w))
<1> DEFINE P == Places(cs, Len(cs))
           At(w) == {p \in P : WordAt(cs, p) = w}
<1>1. /\ DOMAIN Counted(cs, Len(cs)) = {WordAt(cs, p) : p \in P}
      /\ \A w \in DOMAIN Counted(cs, Len(cs)) : Counted(cs, Len(cs))[w] = Cardinality(At(w))
  BY DEF Counted, HashOf
<1>2. \A w : At(w) = PlacesOf(d, w)
  BY PlacesSame
<1>3. DOMAIN cs = 1 .. Len(cs) /\ Len(cs) \in Nat
  OBVIOUS
<1>4. ASSUME NEW w \in AllWords(d) PROVE w \in {WordAt(cs, p) : p \in P}
  <2>1. PICK k \in DOMAIN cs : w \in ToSet(cs[k].words)
    BY DEF AllWords
  <2>2. k \in 1 .. Len(cs) /\ Len(cs) \in 0 .. Len(cs)
    BY <1>3
  <2>3. w \in DOMAIN Counted(cs, Len(cs))
    BY <2>1, <2>2, CountedAll
  <2> QED BY <1>1, <2>3
<1>5. ASSUME NEW p \in P PROVE WordAt(cs, p) \in AllWords(d)
  <2>1. p[1] \in DOMAIN cs /\ p[2] \in DOMAIN cs[p[1]].words
    BY <1>3 DEF Places
  <2>2. WordAt(cs, p) \in ToSet(cs[p[1]].words)
    BY <2>1 DEF WordAt, ToSet
  <2> QED BY <2>1, <2>2 DEF AllWords
<1> HIDE DEF P, At
<1> QED BY <1>1, <1>2, <1>4, <1>5

\* The greatest of the counts of a pass, and 0 if there is none
LEMMA MaxCounted ==
    ASSUME NEW cs \in Seq(Callback), NEW f, f = Counted(cs, Len(cs))
    PROVE  Max({f[w] : w \in DOMAIN f} \cup {0}) \in Nat
<1> DEFINE T == {f[w] : w \in DOMAIN f}
           P == Places(cs, Len(cs))
           b == Cardinality(P)
<1>0. Len(cs) \in 0 .. Len(cs)
  OBVIOUS
<1>1. IsFiniteSet(P)
  BY <1>0, PlacesFinite
<1>2. b \in Nat
  BY <1>1, FS_CardinalityType
<1>3. ASSUME NEW w \in DOMAIN f PROVE f[w] \in 1 .. b
  <2>1. f[w] \in Nat \ {0}
    BY <1>0, CountedType
  <2>2. f[w] = Cardinality({p \in P : WordAt(cs, p) = w})
    BY DEF Counted, HashOf
  <2>3. Cardinality({p \in P : WordAt(cs, p) = w}) <= b
    <3>1. {p \in P : WordAt(cs, p) = w} \subseteq P
      OBVIOUS
    <3> HIDE DEF P
    <3> QED BY <1>1, <3>1, FS_Subset
  <2> QED BY <1>2, <2>1, <2>2, <2>3
<1> HIDE DEF b
<1>4. T \in SUBSET (1 .. b)
  BY <1>3
<1> HIDE DEF T
<1> DEFINE U == T \cup {0}
<1>5. \E x \in U : \A y \in U : x >= y
  <2>1. CASE T = {}
    BY <2>1
  <2>2. CASE T # {}
    <3>1. PICK x \in T : \A y \in T : y <= x
      BY <1>2, <1>4, <2>2, JoinedFold!MaxExists
    <3>2. x \in U /\ x \in Nat /\ \A y \in U : x >= y
      BY <1>4, <3>1
    <3> QED BY <3>2
  <2> QED BY <2>1, <2>2
<1>6. U \subseteq Nat
  BY <1>4
<1> HIDE DEF U
<1>7. Max(U) \in U
  BY <1>5, Zenon DEF Max
<1> QED BY <1>6, <1>7 DEF U, T

\* What the tasks that look words up know in the second pass
LEMMA PassKnown ==
    ASSUME Inv, pc = "process", kind \in {"tfidf", "occurrence", "serial"},
           Paragraphs(doc) = ProcessCalls
    PROVE  /\ doc \in Seq(Paragraph) /\ ProcessCalls \in Seq(Callback)
           /\ DF = Counted(ProcessCalls, Len(ProcessCalls))
           /\ DOMAIN DF = AllWords(doc)
           /\ \A w \in AllWords(doc) : DF[w] \in Nat /\ DF[w] = Cardinality(PlacesOf(doc, w))
           /\ doc_max_count = MaxTimes(doc) /\ doc_max_count \in Nat
<1>1. doc \in Seq(Paragraph)
  BY DocType DEF Inv, ProcessInv
<1>2. ProcessCalls \in Seq(Callback) /\ PreCalls = ProcessCalls
  BY <1>1, CallsOfType, SameCalls DEF ProcessCalls, PreCalls
<1>3. DF = Counted(ProcessCalls, Len(ProcessCalls))
  BY <1>2 DEF Inv, ProcessInv
<1>4. /\ DOMAIN DF = AllWords(doc)
      /\ \A w \in AllWords(doc) : DF[w] = Cardinality(PlacesOf(doc, w))
  BY <1>1, <1>2, <1>3, CountedWhole
<1>5. \A w \in DOMAIN DF : DF[w] \in Nat
  <2>1. Len(ProcessCalls) \in 0 .. Len(ProcessCalls)
    BY <1>2
  <2> QED BY <1>2, <1>3, <2>1, CountedType
<1>6. doc_max_count = Max({DF[w] : w \in DOMAIN DF} \cup {0})
  BY DEF Inv, ProcessInv
<1>7. doc_max_count \in Nat
  BY <1>2, <1>3, <1>6, MaxCounted
<1>8. {DF[w] : w \in DOMAIN DF} = {Cardinality(PlacesOf(doc, w)) : w \in AllWords(doc)}
  BY <1>4
<1>9. doc_max_count = MaxTimes(doc)
  BY <1>6, <1>8 DEF MaxTimes
<1> QED BY <1>1, <1>2, <1>3, <1>4, <1>5, <1>7, <1>9

-----------------------------------------------------------------------------
(* Rows of parallel_libsvm_input and gen_libsvm_input. *)

LEMMA TfIdfBinsRight ==
    ASSUME NEW words \in Seq(Words), NEW V, \A w \in ToSet(words) : V[w] = TfIdf(w),
           \A w \in ToSet(words) : V[w] \in Int
    PROVE  IsBins(TfIdfBins(words), words, Len(words), V)
<1> DEFINE n == Len(words)
<1>1. DOMAIN words = 1 .. n /\ n \in Nat /\ \A j \in 1 .. n : words[j] \in ToSet(words)
  BY DEF ToSet
<1>2. PICK run : /\ AddFold!IsRun(run, Empty, words, n)
                 /\ run[n] = FoldLeft(AddTfIdf, Empty, words)
  BY <1>1, AddRuns
<1>3. run[0] = Empty /\ \A i \in 1 .. n : run[i] = AddTfIdf(run[i - 1], words[i])
  BY <1>2 DEF AddFold!IsRun
<1> HIDE DEF n
<1> DEFINE N == {i \in Nat : i <= n => IsBins(run[i], words, i, V)}
<1>4. 0 \in N
  BY <1>3, NoBins
<1>5. ASSUME NEW i \in Nat, i \in N PROVE i + 1 \in N
  <2> SUFFICES ASSUME i + 1 <= n PROVE IsBins(run[i + 1], words, i + 1, V)
    OBVIOUS
  <2>1. i + 1 \in 1 .. n /\ (i + 1) - 1 = i /\ \A j \in 1 .. i : j \in 1 .. n
    BY <1>1
  <2>2. run[i + 1] = AddTfIdf(run[i], words[i + 1])
    BY <1>3, <2>1
  <2>3. IsBins(run[i], words, i, V)
    BY <1>1, <1>5
  <2>4. V[words[i + 1]] = TfIdf(words[i + 1]) /\ V[words[i + 1]] \in Int
        /\ \A j \in 1 .. i : V[words[j]] \in Int
    BY <1>1, <2>1
  <2>5. CASE HasBin(words[i + 1])
    <3>1. run[i + 1] = AddTo(run[i], Bin(words[i + 1]), V[words[i + 1]])
      BY <2>2, <2>4, <2>5 DEF AddTfIdf
    <3>2. IsBins(AddTo(run[i], Bin(words[i + 1]), V[words[i + 1]]), words, i + 1, V)
      BY <2>3, <2>4, <2>5, BinsStep
    <3> QED BY <3>1, <3>2
  <2>6. CASE ~HasBin(words[i + 1])
    <3>1. run[i + 1] = run[i]
      BY <2>2, <2>6 DEF AddTfIdf
    <3> QED BY <2>3, <2>6, <3>1, BinsSame
  <2> QED BY <2>5, <2>6
<1>6. n \in N
  <2> HIDE DEF N
  <2> QED BY <1>1, <1>4, <1>5, JoinedFold!SetInduction
<1>7. IsBins(run[n], words, n, V)
  BY <1>1, <1>6
<1> QED BY <1>2, <1>7 DEF TfIdfBins, n

LEMMA Factors ==
    ASSUME NEW a \in Int, NEW b \in Int, NEW c \in Int
    PROVE  a * (b * c) = a * b * c
OBVIOUS

LEMMA TfIdfRowRight ==
    ASSUME Inv, pc = "process", kind \in {"tfidf", "serial"},
           Paragraphs(doc) = ProcessCalls, NEW k \in 1 .. Len(ProcessCalls), NEW r
    PROVE  IsRow(TfIdfRow(ProcessCalls[k]), doc, r, k)
<1> DEFINE c     == ProcessCalls[k]
           words == c.words
           row   == TfIdfRow(c)
           V     == [w \in ToSet(words) |-> TfIdf(w)]
           bins  == TfIdfBins(words)
<1>1. /\ doc \in Seq(Paragraph) /\ ProcessCalls \in Seq(Callback)
      /\ DOMAIN DF = AllWords(doc)
      /\ \A w \in AllWords(doc) : DF[w] \in Nat /\ DF[w] = Cardinality(PlacesOf(doc, w))
      /\ doc_max_count = MaxTimes(doc) /\ doc_max_count \in Nat
  BY PassKnown
<1>2. words \in Seq(Words) /\ Paragraphs(doc)[k] = c
  <2>1. c \in Callback
    BY <1>1
  <2> QED BY <2>1 DEF Callback
<1>3. ToSet(words) \subseteq AllWords(doc)
  <2>1. k \in DOMAIN Paragraphs(doc)
    BY <1>1
  <2> QED BY <2>1 DEF AllWords
<1>4. ASSUME NEW w \in ToSet(words)
      PROVE  /\ V[w] \in Int
             /\ V[w] = (MaxTimes(doc) + Cardinality(PlacesOf(doc, w))) * Score(w)
  <2>1. V[w] = (doc_max_count + DF[w]) * Score(w)
    BY DEF TfIdf
  <2>2. DF[w] \in Nat /\ DF[w] = Cardinality(PlacesOf(doc, w)) /\ Score(w) \in Nat
    BY <1>1, <1>3, ScoreType
  <2>3. (doc_max_count + DF[w]) * Score(w) \in Int
    BY <1>1, <2>2
  <2> QED BY <1>1, <2>1, <2>2, <2>3
<1>5. \A w \in ToSet(words) : V[w] = TfIdf(w)
  OBVIOUS
<1> HIDE DEF V, c, words
<1>6. IsBins(bins, words, Len(words), V)
  BY <1>2, <1>4, <1>5, TfIdfBinsRight
<1> HIDE DEF bins
<1>7. /\ DOMAIN bins \in SUBSET (1 .. Cardinality(Common)) /\ Cardinality(Common) \in Nat
      /\ \A b \in DOMAIN bins : bins[b] \in Int
      /\ {<<b, bins[b]>> : b \in Shown(bins)}
            = {<<Bin(w), Times(words, w) * V[w]>> : w \in Heavy(words, V)}
  BY <1>2, <1>4, <1>6, BinFeatures
<1>8. /\ Written(bins) \in Seq(Pairs) /\ Rises(Written(bins))
      /\ ToSet(Written(bins)) = {<<b, bins[b]>> : b \in Shown(bins)}
  BY <1>7, WrittenShape
<1>9. /\ row.label = Label(c.node) /\ row.head = <<>> /\ row.features = Written(bins)
      /\ row.over = <<doc_max_count, Len(words)>>
  BY DEF TfIdfRow, Norm, bins, words
<1>10. row.label = LabelIn(doc, c)
  BY <1>9 DEF Label, LabelIn
<1> HIDE DEF row
<1>11. Ascending(row)
  <2>1. row.head \in Seq(Pairs) /\ Rises(row.head) /\ DOMAIN row.head = {}
    BY <1>9 DEF Rises
  <2> QED BY <1>8, <1>9, <2>1, RowAscends
<1>12. ASSUME NEW w \in Binned(words)
       PROVE  Times(words, w) * V[w] = TfIdfIn(doc, words, w)
  <2>1. w \in ToSet(words)
    BY DEF Binned
  <2>2. Times(words, w) \in Nat
    <3>1. Len(words) \in Nat
      BY <1>2
    <3> QED BY <1>2, <3>1, SeenWhole, SeenType
  <2>3. V[w] = (MaxTimes(doc) + Cardinality(PlacesOf(doc, w))) * Score(w)
    BY <1>4, <2>1
  <2>4. MaxTimes(doc) + Cardinality(PlacesOf(doc, w)) \in Int /\ Score(w) \in Int
    BY <1>1, <1>3, <2>1, ScoreType
  <2> QED BY <2>2, <2>3, <2>4, Factors DEF TfIdfIn
<1>13. IsTfIdfRow(row, doc, c)
  <2>1. row.over[1] = MaxTimes(doc) /\ row.over[2] = Len(words)
    BY <1>1, <1>9
  <2>2. ToSet(row.features) = {<<Bin(w), Times(words, w) * V[w]>> : w \in Heavy(words, V)}
    BY <1>7, <1>8, <1>9
  <2> DEFINE big == {v \in Binned(words) : 250 * TfIdfIn(doc, words, v) > MaxTimes(doc)}
  <2>3. Heavy(words, V) = big
    BY <1>1, <1>12 DEF Heavy, Above
  <2>4. {<<Bin(w), Times(words, w) * V[w]>> : w \in Heavy(words, V)}
          = {<<Bin(w), TfIdfIn(doc, words, w)>> : w \in big}
    BY <1>12, <2>3
  <2> QED BY <2>1, <2>2, <2>4 DEF IsTfIdfRow, words
<1> QED BY <1>2, <1>10, <1>11, <1>13 DEF IsRow, row

-----------------------------------------------------------------------------
(* Rows of parallel_libsvm_ngrams_extended. *)

LEMMA GramRuns ==
    ASSUME NEW n \in Nat, NEW b, NEW s, DOMAIN s = 1 .. n
    PROVE  \E run : GramFold!IsRun(run, b, s, n) /\ run[n] = FoldLeft(GramStep, b, s)
<1>1. FoldLeft(GramStep, b, s) = GramFold!Fold(b, s, n)
  BY DEF FoldLeft, MapThenFoldSet, GramFold!Fold, GramFold!IsFold, Max, GramFold!Max
<1> QED BY <1>1, GramFold!FoldRuns

\* A word that is one and has a bin of its own
IsUnigram(words, i) ==
    words[i] \in Alnum /\ words[i] # EndOfSentence /\ HasGram(<<words[i]>>)

LEMMA OneWord ==
    ASSUME NEW words \in Seq(Words), NEW i \in 1 .. Len(words)
    PROVE  SubSeq(words, i, i) = <<words[i]>>
<1> DEFINE s == SubSeq(words, i, i)
<1>1. Len(words) \in Nat /\ words[i] \in Words
  OBVIOUS
<1>2. s \in Seq(Words) /\ Len(s) = 1 /\ s[1] = words[i]
  BY <1>1
<1> HIDE DEF s
<1>3. s = <<words[i]>>
  BY <1>1, <1>2
<1> QED BY <1>3 DEF s

LEMMA UnigramEnds ==
    ASSUME NEW words \in Seq(Words), NEW i \in Int
    PROVE  i \in Ends(words, 1) <=> i \in 1 .. Len(words) /\ IsUnigram(words, i)
<1>1. i - 1 + 1 = i
  OBVIOUS
<1>2. \A k : k \in i .. i <=> k = i
  OBVIOUS
<1>3. i \in 1 .. Len(words) => SubSeq(words, i, i) = <<words[i]>>
  BY OneWord
<1>4. i \in Ends(words, 1) <=>
         /\ i \in 1 .. Len(words)
         /\ words[i] \in Alnum /\ words[i] # EndOfSentence
         /\ HasGram(SubSeq(words, i, i))
  BY <1>1, <1>2 DEF Ends
<1> QED BY <1>3, <1>4 DEF IsUnigram

LEMMA BigramEnds ==
    ASSUME NEW words \in Seq(Words), NEW i \in Int
    PROVE  i \in Ends(words, 2) <=>
              /\ i - 1 \in Ends(words, 1) /\ i \in Ends(words, 1)
              /\ HasGram(SubSeq(words, i - 1, i))
<1>1. i - 2 + 1 = i - 1 /\ Len(words) \in Nat
  OBVIOUS
<1>2. \A k : k \in i - 1 .. i <=> k = i - 1 \/ k = i
  OBVIOUS
<1>3. i \in Ends(words, 2) <=>
         /\ i \in 2 .. Len(words)
         /\ words[i] \in Alnum /\ words[i] # EndOfSentence
         /\ words[i - 1] \in Alnum /\ words[i - 1] # EndOfSentence
         /\ HasGram(SubSeq(words, i, i)) /\ HasGram(SubSeq(words, i - 1, i - 1))
         /\ HasGram(SubSeq(words, i - 1, i))
  <2>1. (\A k \in i - 1 .. i : words[k] \in Alnum /\ words[k] # EndOfSentence)
          <=> /\ words[i] \in Alnum /\ words[i] # EndOfSentence
              /\ words[i - 1] \in Alnum /\ words[i - 1] # EndOfSentence
    BY <1>2
  <2>2. (\A from, to \in i - 1 .. i : from <= to => HasGram(SubSeq(words, from, to)))
          <=> /\ HasGram(SubSeq(words, i, i)) /\ HasGram(SubSeq(words, i - 1, i - 1))
              /\ HasGram(SubSeq(words, i - 1, i))
    <3>1. i - 1 <= i /\ i - 1 <= i - 1 /\ i <= i /\ ~(i <= i - 1)
      OBVIOUS
    <3> QED BY <1>2, <3>1
  <2> QED BY <1>1, <2>1, <2>2 DEF Ends
<1>4. i \in 2 .. Len(words) <=> i \in 1 .. Len(words) /\ i - 1 \in 1 .. Len(words)
  BY <1>1
<1>5. i \in Ends(words, 1) <=> i \in 1 .. Len(words) /\ IsUnigram(words, i)
  BY UnigramEnds
<1>6. i - 1 \in Ends(words, 1) <=> i - 1 \in 1 .. Len(words) /\ IsUnigram(words, i - 1)
  <2>1. i - 1 \in Int
    OBVIOUS
  <2> QED BY <2>1, UnigramEnds
<1>7. /\ i \in 1 .. Len(words) => SubSeq(words, i, i) = <<words[i]>>
      /\ i - 1 \in 1 .. Len(words) => SubSeq(words, i - 1, i - 1) = <<words[i - 1]>>
  BY OneWord
<1> QED BY <1>3, <1>4, <1>5, <1>6, <1>7 DEF IsUnigram

LEMMA TrigramEnds ==
    ASSUME NEW words \in Seq(Words), NEW i \in Int
    PROVE  i \in Ends(words, 3) <=>
              /\ i - 1 \in Ends(words, 2) /\ i \in Ends(words, 2)
              /\ HasGram(SubSeq(words, i - 2, i))
<1> DEFINE isWord(k) == words[k] \in Alnum /\ words[k] # EndOfSentence
           Has(from, to) == HasGram(SubSeq(words, from, to))
<1>1. /\ i - 3 + 1 = i - 2 /\ i - 2 + 1 = i - 1 /\ (i - 1) - 2 + 1 = i - 2
      /\ Len(words) \in Nat
  OBVIOUS
<1>2. /\ \A k : k \in i - 2 .. i <=> k = i - 2 \/ k = i - 1 \/ k = i
      /\ \A k : k \in i - 1 .. i <=> k = i - 1 \/ k = i
      /\ \A k : k \in i - 2 .. i - 1 <=> k = i - 2 \/ k = i - 1
  OBVIOUS
<1>3. /\ \A j \in Int : j \in Ends(words, 3) <=>
            /\ j \in 3 .. Len(words) /\ \A k \in j - 3 + 1 .. j : isWord(k)
            /\ \A from, to \in j - 3 + 1 .. j : from <= to => Has(from, to)
      /\ \A j \in Int : j \in Ends(words, 2) <=>
            /\ j \in 2 .. Len(words) /\ \A k \in j - 2 + 1 .. j : isWord(k)
            /\ \A from, to \in j - 2 + 1 .. j : from <= to => Has(from, to)
  BY DEF Ends
<1> HIDE DEF isWord, Has
<1>4. i \in Ends(words, 3) <=>
         /\ i \in 3 .. Len(words)
         /\ isWord(i - 2) /\ isWord(i - 1) /\ isWord(i)
         /\ Has(i - 2, i - 2) /\ Has(i - 1, i - 1) /\ Has(i, i)
         /\ Has(i - 2, i - 1) /\ Has(i - 1, i) /\ Has(i - 2, i)
  <2>1. (\A k \in i - 2 .. i : isWord(k)) <=> isWord(i - 2) /\ isWord(i - 1) /\ isWord(i)
    BY <1>2
  <2>2. (\A from, to \in i - 2 .. i : from <= to => Has(from, to))
          <=> /\ Has(i - 2, i - 2) /\ Has(i - 1, i - 1) /\ Has(i, i)
              /\ Has(i - 2, i - 1) /\ Has(i - 1, i) /\ Has(i - 2, i)
    <3>1. /\ i - 2 <= i - 2 /\ i - 1 <= i - 1 /\ i <= i
          /\ i - 2 <= i - 1 /\ i - 1 <= i /\ i - 2 <= i
          /\ ~(i <= i - 1) /\ ~(i <= i - 2) /\ ~(i - 1 <= i - 2)
      OBVIOUS
    <3>2. /\ i - 2 \in i - 2 .. i /\ i - 1 \in i - 2 .. i /\ i \in i - 2 .. i
      OBVIOUS
    <3> QED BY <1>2, <3>1, <3>2
  <2>3. i \in Ends(words, 3) <=>
           /\ i \in 3 .. Len(words) /\ \A k \in i - 2 .. i : isWord(k)
           /\ \A from, to \in i - 2 .. i : from <= to => Has(from, to)
    BY <1>1, <1>3
  <2> QED BY <2>1, <2>2, <2>3
<1>5. i \in Ends(words, 2) <=>
         /\ i \in 2 .. Len(words)
         /\ isWord(i - 1) /\ isWord(i)
         /\ Has(i - 1, i - 1) /\ Has(i, i) /\ Has(i - 1, i)
  BY <1>1, <1>2, <1>3
<1>6. i - 1 \in Ends(words, 2) <=>
         /\ i - 1 \in 2 .. Len(words)
         /\ isWord(i - 2) /\ isWord(i - 1)
         /\ Has(i - 2, i - 2) /\ Has(i - 1, i - 1) /\ Has(i - 2, i - 1)
  <2>1. i - 1 \in Int
    OBVIOUS
  <2> QED BY <1>1, <1>2, <1>3, <2>1
<1>7. i \in 3 .. Len(words) <=> i \in 2 .. Len(words) /\ i - 1 \in 2 .. Len(words)
  BY <1>1
<1> QED BY <1>4, <1>5, <1>6, <1>7 DEF Has

\* The bins of the n-grams that end with word j, and of those that end up to word i
EndingWith(words, j) ==
    {GramBin(SubSeq(words, j - n + 1, j)) : n \in {m \in 1 .. 3 : j \in Ends(words, m)}}

GramsUpTo(words, i) == UNION {EndingWith(words, j) : j \in 1 .. i}

\* What the fold has after i words
GramInv(a, words, i, bins) ==
    /\ a = [len |-> a.len, bins |-> bins \cup GramsUpTo(words, i)]
    /\ a.len \in Nat
    /\ a.len >= 1 <=> i \in Ends(words, 1)
    /\ a.len >= 2 <=> i \in Ends(words, 2)

LEMMA EndsBelow ==
    ASSUME NEW words \in Seq(Words), NEW j \in Int
    PROVE  /\ j \in Ends(words, 1) => j \in 1 .. Len(words)
           /\ j \in Ends(words, 2) => j \in Ends(words, 1)
           /\ j \in Ends(words, 3) => j \in Ends(words, 2)
BY UnigramEnds, BigramEnds, TrigramEnds

LEMMA GramsStep ==
    ASSUME NEW words \in Seq(Words), NEW i \in 0 .. Len(words) - 1, NEW a, NEW bins,
           GramInv(a, words, i, bins)
    PROVE  GramInv(GramStep(a, [words |-> words, i |-> i + 1]), words, i + 1, bins)
<1> DEFINE j    == i + 1
           uni  == <<words[j]>>
           bi   == SubSeq(words, j - 1, j)
           tri  == SubSeq(words, j - 2, j)
           new  == GramStep(a, [words |-> words, i |-> j])
           u    == a.bins \cup {GramBin(uni)}
           b    == u \cup {GramBin(bi)}
           E(n) == j \in Ends(words, n)
<1>0. j \in 1 .. Len(words) /\ i \in Int /\ j \in Int /\ j - 1 = i
  OBVIOUS
<1>1. new = IF words[j] \notin Alnum \/ words[j] = EndOfSentence \/ ~HasGram(uni)
            THEN [a EXCEPT !.len = 0]
            ELSE IF a.len = 0 THEN [len |-> 1, bins |-> u]
            ELSE IF ~HasGram(bi) THEN [len |-> 1, bins |-> u]
            ELSE IF a.len >= 2 /\ HasGram(tri)
                 THEN [len |-> a.len + 1, bins |-> b \cup {GramBin(tri)}]
                 ELSE [len |-> a.len + 1, bins |-> b]
  BY DEF GramStep
<1>2. E(1) <=> words[j] \in Alnum /\ words[j] # EndOfSentence /\ HasGram(uni)
  BY <1>0, UnigramEnds DEF IsUnigram
<1>3. E(2) <=> i \in Ends(words, 1) /\ E(1) /\ HasGram(bi)
  BY <1>0, BigramEnds
<1>4. E(3) <=> i \in Ends(words, 2) /\ E(2) /\ HasGram(tri)
  BY <1>0, TrigramEnds
<1>5. /\ a = [len |-> a.len, bins |-> bins \cup GramsUpTo(words, i)]
      /\ a.len \in Nat
      /\ a.len >= 1 <=> i \in Ends(words, 1)
      /\ a.len >= 2 <=> i \in Ends(words, 2)
  BY DEF GramInv
<1>6. GramsUpTo(words, j) = GramsUpTo(words, i) \cup EndingWith(words, j)
  <2>1. \A k : k \in 1 .. j <=> k \in 1 .. i \/ k = j
    BY <1>0
  <2> HIDE DEF j
  <2> QED BY <2>1 DEF GramsUpTo
<1>7. SubSeq(words, j - 1 + 1, j) = uni /\ SubSeq(words, j - 2 + 1, j) = bi
      /\ SubSeq(words, j - 3 + 1, j) = tri
  <2>1. j - 1 + 1 = j /\ j - 2 + 1 = j - 1 /\ j - 3 + 1 = j - 2
    OBVIOUS
  <2>2. SubSeq(words, j, j) = uni
    BY <1>0, OneWord
  <2> HIDE DEF uni, j
  <2> QED BY <2>1, <2>2
<1>8. \A x : x \in EndingWith(words, j) <=>
         \/ E(1) /\ x = GramBin(uni)
         \/ E(2) /\ x = GramBin(bi)
         \/ E(3) /\ x = GramBin(tri)
  <2>1. \A x : x \in EndingWith(words, j) <=>
           \/ E(1) /\ x = GramBin(SubSeq(words, j - 1 + 1, j))
           \/ E(2) /\ x = GramBin(SubSeq(words, j - 2 + 1, j))
           \/ E(3) /\ x = GramBin(SubSeq(words, j - 3 + 1, j))
    <3>1. \A n : n \in 1 .. 3 <=> n = 1 \/ n = 2 \/ n = 3
      OBVIOUS
    <3> HIDE DEF j
    <3> QED BY <3>1 DEF EndingWith
  <2> HIDE DEF uni, bi, tri, j
  <2> QED BY <1>7, <2>1
<1> HIDE DEF E, new, uni, bi, tri, j
<1>9. /\ new = [len |-> new.len, bins |-> a.bins \cup EndingWith(words, j)]
      /\ new.len \in Nat /\ (new.len >= 1 <=> E(1)) /\ (new.len >= 2 <=> E(2))
  <2>1. CASE ~E(1)
    <3>1. new = [a EXCEPT !.len = 0] /\ ~E(2) /\ ~E(3)
      BY <1>1, <1>2, <1>3, <1>4, <2>1
    <3>2. EndingWith(words, j) = {}
      BY <1>8, <2>1, <3>1
    <3>3. new = [len |-> 0, bins |-> a.bins]
      BY <1>5, <3>1
    <3>4. a.bins \cup EndingWith(words, j) = a.bins /\ new.len = 0
      BY <3>2, <3>3
    <3>5. new = [len |-> new.len, bins |-> a.bins \cup EndingWith(words, j)]
      BY <3>3, <3>4
    <3>6. new.len \in Nat /\ ~(new.len >= 1) /\ ~(new.len >= 2)
      BY <3>4
    <3> QED BY <2>1, <3>1, <3>5, <3>6
  <2>2. CASE E(1) /\ ~E(2)
    <3>1. new = [len |-> 1, bins |-> u] /\ ~E(3)
      BY <1>1, <1>2, <1>3, <1>4, <1>5, <2>2
    <3>2. EndingWith(words, j) = {GramBin(uni)}
      BY <1>8, <2>2, <3>1
    <3> QED BY <2>2, <3>1, <3>2
  <2>3. CASE E(2) /\ ~E(3)
    <3>1. new = [len |-> a.len + 1, bins |-> b] /\ E(1) /\ a.len >= 1
      BY <1>1, <1>2, <1>3, <1>4, <1>5, <2>3
    <3>2. EndingWith(words, j) = {GramBin(uni), GramBin(bi)}
      BY <1>8, <2>3, <3>1
    <3>3. a.len + 1 \in Nat /\ a.len + 1 >= 1 /\ a.len + 1 >= 2
      BY <1>5, <3>1
    <3> QED BY <2>3, <3>1, <3>2, <3>3
  <2>4. CASE E(3)
    <3>1. /\ new = [len |-> a.len + 1, bins |-> b \cup {GramBin(tri)}]
          /\ E(1) /\ E(2) /\ a.len >= 1
      BY <1>1, <1>2, <1>3, <1>4, <1>5, <2>4
    <3>2. EndingWith(words, j) = {GramBin(uni), GramBin(bi), GramBin(tri)}
      BY <1>8, <2>4, <3>1
    <3>3. a.len + 1 \in Nat /\ a.len + 1 >= 1 /\ a.len + 1 >= 2
      BY <1>5, <3>1
    <3> QED BY <2>4, <3>1, <3>2, <3>3
  <2> QED BY <1>3, <2>1, <2>2, <2>3, <2>4
<1>10. a.bins \cup EndingWith(words, j) = bins \cup GramsUpTo(words, j)
  <2>1. a.bins = bins \cup GramsUpTo(words, i)
    BY <1>5
  <2> QED BY <1>6, <2>1
<1> QED BY <1>9, <1>10 DEF GramInv, new, E, j

\* The n-grams of a paragraph
LEMMA GramsAre ==
    ASSUME NEW words \in Seq(Words), BINS = {}
    PROVE  GramsFound(words)
              = UNION {{GramBin(SubSeq(words, i - n + 1, i)) : i \in Ends(words, n)} : n \in 1 .. 3}
<1> DEFINE len == Len(words)
           ats == [i \in DOMAIN words |-> [words |-> words, i |-> i]]
           start == [len |-> 0, bins |-> BINS]
           all == UNION {{GramBin(SubSeq(words, i - n + 1, i)) : i \in Ends(words, n)} : n \in 1 .. 3}
<1>1. DOMAIN ats = 1 .. len /\ len \in Nat /\ \A i \in 1 .. len : ats[i] = [words |-> words, i |-> i]
  OBVIOUS
<1>2. GramsFound(words) = FoldLeft(GramStep, start, ats).bins
  BY DEF GramsFound
<1> HIDE DEF ats
<1>3. PICK run : GramFold!IsRun(run, start, ats, len) /\ run[len] = FoldLeft(GramStep, start, ats)
  BY <1>1, GramRuns
<1>4. run[0] = start /\ \A i \in 1 .. len : run[i] = GramStep(run[i - 1], ats[i])
  BY <1>3 DEF GramFold!IsRun
<1> DEFINE N == {i \in Nat : i <= len => GramInv(run[i], words, i, {})}
<1>5. 0 \in N
  <2>1. GramsUpTo(words, 0) = {}
    <3>1. 1 .. 0 = {}
      OBVIOUS
    <3> QED BY <3>1 DEF GramsUpTo
  <2>2. 0 \notin Ends(words, 1) /\ 0 \notin Ends(words, 2)
    BY EndsBelow
  <2>3. start.len = 0 /\ start = [len |-> start.len, bins |-> {} \cup GramsUpTo(words, 0)]
    BY <2>1
  <2> HIDE DEF start, len
  <2> QED BY <1>4, <2>1, <2>2, <2>3 DEF GramInv
<1>6. ASSUME NEW i \in Nat, i \in N PROVE i + 1 \in N
  <2> SUFFICES ASSUME i + 1 <= len PROVE GramInv(run[i + 1], words, i + 1, {})
    OBVIOUS
  <2>1. i + 1 \in 1 .. len /\ (i + 1) - 1 = i /\ i \in 0 .. len - 1
    BY <1>1
  <2>2. run[i + 1] = GramStep(run[i], [words |-> words, i |-> i + 1])
    BY <1>1, <1>4, <2>1
  <2>3. GramInv(run[i], words, i, {})
    BY <1>1, <1>6
  <2> QED BY <2>1, <2>2, <2>3, GramsStep
<1>7. GramInv(run[len], words, len, {})
  <2>1. len \in N
    <3> HIDE DEF N, len
    <3> QED BY <1>1, <1>5, <1>6, JoinedFold!SetInduction
  <2> QED BY <1>1, <2>1
<1>8. run[len].bins = GramsUpTo(words, len)
  <2> HIDE DEF len
  <2> QED BY <1>7 DEF GramInv
<1>9. ASSUME NEW n \in 1 .. 3, NEW i \in Ends(words, n) PROVE i \in 1 .. len
  BY DEF Ends
<1> HIDE DEF len, start
<1>10. GramsUpTo(words, len) = all
  <2>1. \A x : x \in GramsUpTo(words, len) <=>
           \E j \in 1 .. len, n \in 1 .. 3 :
              j \in Ends(words, n) /\ x = GramBin(SubSeq(words, j - n + 1, j))
    BY DEF GramsUpTo, EndingWith
  <2>2. \A x : x \in all <=>
           \E n \in 1 .. 3 : \E i \in Ends(words, n) : x = GramBin(SubSeq(words, i - n + 1, i))
    OBVIOUS
  <2> HIDE DEF all
  <2> QED BY <1>9, <2>1, <2>2
<1> QED BY <1>2, <1>3, <1>8, <1>10

\* How many bins the n-grams need
GramBins == Len(Grams[1]) + Len(Grams[2]) + Len(Grams[3])

LEMMA GramBinType ==
    ASSUME NEW g, HasGram(g), Len(g) \in 1 .. 3
    PROVE  GramBins \in Nat /\ GramBin(g) \in Nat /\ GramBin(g) < GramBins
<1> DEFINE n == Len(g)
           at == CHOOSE i \in DOMAIN Grams[n] : Grams[n][i] = g
           L(m) == Len(Grams[m])
<1>1. Grams \in [1 .. 3 -> Seq(Seq(Words))]
  BY FeaturesAssumption
<1>2. at \in DOMAIN Grams[n]
  BY Zenon DEF HasGram
<1>3. \A m \in 1 .. 3 : L(m) \in Nat /\ DOMAIN Grams[m] = 1 .. L(m)
  BY <1>1
<1>4. L(1) \in Nat /\ L(2) \in Nat /\ L(3) \in Nat
  BY <1>3
<1>5. GramBin(g) = at - 1 + (IF n > 1 THEN L(1) ELSE 0) + (IF n > 2 THEN L(2) ELSE 0)
  BY DEF GramBin
<1>6. GramBins = L(1) + L(2) + L(3)
  BY DEF GramBins
<1> HIDE DEF at, n
<1>7. n \in 1 .. 3 /\ at \in 1 .. L(n)
  BY <1>2, <1>3 DEF n
<1> HIDE DEF L
<1>8. n = 1 \/ n = 2 \/ n = 3
  BY <1>7
<1> QED BY <1>4, <1>5, <1>6, <1>7, <1>8

\* An n-gram that ends somewhere is in its list
LEMMA EndsGram ==
    ASSUME NEW words \in Seq(Words), NEW n \in 1 .. 3, NEW i \in Ends(words, n)
    PROVE  HasGram(SubSeq(words, i - n + 1, i)) /\ Len(SubSeq(words, i - n + 1, i)) = n
<1>1. i \in n .. Len(words) /\ Len(words) \in Nat
  BY DEF Ends
<1>2. i - n + 1 \in i - n + 1 .. i /\ i \in i - n + 1 .. i /\ i - n + 1 <= i
  BY <1>1
<1>3. HasGram(SubSeq(words, i - n + 1, i))
  BY <1>2 DEF Ends
<1>4. Len(SubSeq(words, i - n + 1, i)) = n
  <2>1. i - n + 1 \in 1 .. Len(words)
    BY <1>1
  <2> QED BY <1>1, <2>1
<1> QED BY <1>3, <1>4

\* A paragraph has a row if it has a unigram
LEMMA GramsNone ==
    ASSUME NEW words \in Seq(Words), BINS = {}
    PROVE  GramsFound(words) = {} <=> Ends(words, 1) = {}
<1> DEFINE F(n) == {GramBin(SubSeq(words, i - n + 1, i)) : i \in Ends(words, n)}
<1>1. GramsFound(words) = UNION {F(n) : n \in 1 .. 3}
  BY GramsAre
<1>2. \A n \in 1 .. 3 : F(n) = {} <=> Ends(words, n) = {}
  OBVIOUS
<1>3. Ends(words, 1) = {} => Ends(words, 2) = {} /\ Ends(words, 3) = {}
  <2>1. \A n \in 1 .. 3 : \A i \in Ends(words, n) : i \in Int
    BY DEF Ends
  <2> QED BY <2>1, EndsBelow
<1>4. \A n : n \in 1 .. 3 <=> n = 1 \/ n = 2 \/ n = 3
  OBVIOUS
<1> HIDE DEF F
<1> QED BY <1>1, <1>2, <1>3, <1>4

LEMMA GramRowRight ==
    ASSUME BINS = {}, kind = "ngrams", ProcessCalls \in Seq(Callback),
           Paragraphs(doc) = ProcessCalls, number_of_paragraphs = Told(doc),
           number_of_paragraphs \in Nat, paragraph_number \in Nat,
           NEW k \in 1 .. Len(ProcessCalls)
    PROVE  IsRow(GramRow(ProcessCalls[k], GramsFound(ProcessCalls[k].words)), doc,
                 paragraph_number + 1, k)
<1> DEFINE c     == ProcessCalls[k]
           words == c.words
           found == GramsFound(words)
           row   == GramRow(c, found)
           D     == {i + 3 : i \in found}
           bins  == [b \in D |-> 1]
           G(n)  == {GramBin(SubSeq(words, i - n + 1, i)) : i \in Ends(words, n)}
           H(n)  == {3 + GramBin(SubSeq(words, i - n + 1, i)) : i \in Ends(words, n)}
           p     == paragraph_number + 1
<1>1. words \in Seq(Words) /\ Paragraphs(doc)[k] = c /\ Len(words) \in Nat
  <2>1. c \in Callback
    OBVIOUS
  <2> QED BY <2>1 DEF Callback
<1>2. /\ row.label = Label(c.node) /\ row.features = Sorted(bins)
      /\ row.head = <<<<0, Len(words)>>, <<1, number_of_paragraphs>>, <<2, p>>>>
  BY DEF GramRow
<1>3. p \in Nat
  OBVIOUS
<1> HIDE DEF row, words, c, found, p
<1>4. found = UNION {G(n) : n \in 1 .. 3}
  BY <1>1, GramsAre DEF found
<1>5. ASSUME NEW x \in found PROVE x \in Nat /\ x < GramBins /\ GramBins \in Nat
  <2>1. PICK n \in 1 .. 3 : \E i \in Ends(words, n) : x = GramBin(SubSeq(words, i - n + 1, i))
    BY <1>4
  <2>2. PICK i \in Ends(words, n) : x = GramBin(SubSeq(words, i - n + 1, i))
    BY <2>1
  <2>3. HasGram(SubSeq(words, i - n + 1, i)) /\ Len(SubSeq(words, i - n + 1, i)) \in 1 .. 3
    BY <1>1, EndsGram
  <2> QED BY <2>2, <2>3, GramBinType
<1>6. DOMAIN bins = D /\ \A b \in D : b \in Int /\ b >= 3 /\ bins[b] \in Int
  BY <1>5
<1>7. \E m \in Nat : D \in SUBSET (1 .. m)
  <2>1. CASE found = {}
    <3>1. D \in SUBSET (1 .. 0)
      BY <2>1
    <3>2. 0 \in Nat
      OBVIOUS
    <3> QED BY <3>1, <3>2
  <2>2. CASE found # {}
    <3>1. GramBins \in Nat /\ GramBins + 3 \in Nat
      BY <1>5, <2>2
    <3>2. \A x \in found : x + 3 \in 1 .. GramBins + 3
      BY <1>5, <3>1
    <3>3. D \in SUBSET (1 .. GramBins + 3)
      BY <3>2
    <3> HIDE DEF D
    <3> QED BY <3>1, <3>3
  <2> QED BY <2>1, <2>2
<1> HIDE DEF bins
<1>8. /\ Sorted(bins) \in Seq(Pairs) /\ Rises(Sorted(bins))
      /\ DOMAIN Sorted(bins) = 1 .. Len(Sorted(bins))
      /\ \A a \in DOMAIN Sorted(bins) : Sorted(bins)[a][1] \in D
      /\ ToSet(Sorted(bins)) = {<<b, bins[b]>> : b \in D}
  <2>1. PICK m \in Nat : D \in SUBSET (1 .. m)
    BY <1>7
  <2> HIDE DEF D
  <2> QED BY <1>6, <2>1, SortedShape
<1>9. Ascending(row)
  <2>1. /\ row.head \in Seq(Pairs) /\ DOMAIN row.head = 1 .. 3
        /\ row.head[1] = <<0, Len(words)>> /\ row.head[2] = <<1, number_of_paragraphs>>
        /\ row.head[3] = <<2, p>>
    BY <1>1, <1>2, <1>3 DEF Pairs
  <2>2. \A a \in 1 .. 3 : row.head[a][1] = a - 1
    <3>1. \A a \in 1 .. 3 : a = 1 \/ a = 2 \/ a = 3
      OBVIOUS
    <3> QED BY <2>1, <3>1
  <2>3. Rises(row.head)
    BY <2>1, <2>2 DEF Rises
  <2>4. \A a \in DOMAIN row.head, b \in DOMAIN row.features :
           row.head[a][1] < row.features[b][1]
    <3> SUFFICES ASSUME NEW a \in 1 .. 3, NEW b \in DOMAIN row.features
                 PROVE  row.head[a][1] < row.features[b][1]
      BY <2>1
    <3>1. row.features[b][1] \in D
      BY <1>2, <1>8
    <3>2. row.features[b][1] \in Int /\ row.features[b][1] >= 3
      BY <1>6, <3>1
    <3> QED BY <2>2, <3>2
  <2> QED BY <1>2, <1>8, <2>1, <2>3, <2>4, RowAscends
<1>10. {row.features[a][1] : a \in DOMAIN row.features} = UNION {H(n) : n \in 1 .. 3}
  <2>1. D = UNION {H(n) : n \in 1 .. 3}
    <3>1. ASSUME NEW x \in D PROVE x \in UNION {H(n) : n \in 1 .. 3}
      <4>1. PICK y \in found : x = y + 3
        OBVIOUS
      <4>2. PICK n \in 1 .. 3 : \E i \in Ends(words, n) : y = GramBin(SubSeq(words, i - n + 1, i))
        BY <1>4
      <4>3. x = 3 + y
        BY <1>5, <4>1
      <4>4. x \in H(n)
        BY <4>2, <4>3
      <4> QED BY <4>4
    <3>2. ASSUME NEW n \in 1 .. 3, NEW x \in H(n) PROVE x \in D
      <4>1. PICK i \in Ends(words, n) : x = 3 + GramBin(SubSeq(words, i - n + 1, i))
        OBVIOUS
      <4> DEFINE y == GramBin(SubSeq(words, i - n + 1, i))
      <4>2. y \in found
        BY <1>4
      <4>3. x = y + 3
        BY <1>5, <4>1, <4>2
      <4> QED BY <4>2, <4>3
    <3> HIDE DEF D, H
    <3> QED BY <3>1, <3>2
  <2> DEFINE fs == Sorted(bins)
  <2>2. {fs[a][1] : a \in DOMAIN fs} = D
    <3>1. ASSUME NEW a \in DOMAIN fs PROVE fs[a][1] \in D
      BY <1>8
    <3>2. ASSUME NEW b \in D PROVE \E a \in DOMAIN fs : fs[a][1] = b
      <4>1. <<b, bins[b]>> \in ToSet(fs)
        BY <1>8
      <4>2. PICK a \in DOMAIN fs : fs[a] = <<b, bins[b]>>
        BY <4>1 DEF ToSet
      <4> QED BY <4>2
    <3> HIDE DEF fs, D
    <3> QED BY <3>1, <3>2
  <2> HIDE DEF D, H
  <2> QED BY <1>2, <2>1, <2>2
<1>11. IsGramRow(row, doc, p, words)
  <2>1. /\ row.head[1] = <<0, Len(words)>> /\ row.head[2] = <<1, Told(doc)>>
        /\ row.head[3] = <<2, p>>
    BY <1>2
  <2> QED BY <1>10, <2>1 DEF IsGramRow
<1>12. row.label = LabelIn(doc, c)
  BY <1>2 DEF Label, LabelIn
<1>13. IsRow(row, doc, p, k)
  BY <1>1, <1>9, <1>11, <1>12 DEF IsRow, words
<1> QED BY <1>13 DEF row, found, words, c, p

-----------------------------------------------------------------------------
(* Rows of parallel_libsvm_input_occurence. *)

\* The places up to word i of the call after the first n
PlacesUpTo(cs, n, i) == Places(cs, n) \cup {<<n + 1, j>> : j \in 1 .. i}

\* What the fold over the words of a call has after i of them
OccurInv(a, n, i, V) ==
    LET words == ProcessCalls[n + 1].words
    IN  /\ a = [prime |-> a.prime, bins |-> a.bins, counters |-> a.counters]
        /\ a.prime = HashOf(ProcessCalls, PlacesUpTo(ProcessCalls, n, i))
        /\ IsBins(a.bins, words, i, V)
        /\ a.counters = [x \in (1 .. 3) \X (1 .. 4) |->
                            Cardinality({j \in Passing(doc, n + 1, x[1], x[2]) : j <= i})]

LEMMA PlacesUpToFinite ==
    ASSUME NEW cs \in Seq(Callback), NEW n \in 0 .. Len(cs), NEW i \in Nat
    PROVE  IsFiniteSet(PlacesUpTo(cs, n, i))
<1>1. IsFiniteSet(1 .. i)
  BY FS_Interval
<1>2. IsFiniteSet({<<n + 1, j>> : j \in 1 .. i})
  <2>1. IsFiniteSet({n + 1} \X (1 .. i))
    BY <1>1, FS_Singleton, FS_Product
  <2>2. {<<n + 1, j>> : j \in 1 .. i} \subseteq {n + 1} \X (1 .. i)
    OBVIOUS
  <2> QED BY <2>1, <2>2, FS_Subset
<1>3. IsFiniteSet(Places(cs, n))
  BY PlacesFinite
<1> QED BY <1>2, <1>3, FS_Union DEF PlacesUpTo

LEMMA PlacesUpToStep ==
    ASSUME NEW cs, NEW n \in Nat, NEW i \in Nat
    PROVE  /\ PlacesUpTo(cs, n, i + 1) = PlacesUpTo(cs, n, i) \cup {<<n + 1, i + 1>>}
           /\ <<n + 1, i + 1>> \notin PlacesUpTo(cs, n, i)
           /\ PlacesUpTo(cs, n, 0) = Places(cs, n)
<1>1. \A j : j \in 1 .. i + 1 <=> j \in 1 .. i \/ j = i + 1
  OBVIOUS
<1>2. PlacesUpTo(cs, n, i + 1) = PlacesUpTo(cs, n, i) \cup {<<n + 1, i + 1>>}
  BY <1>1 DEF PlacesUpTo
<1>3. <<n + 1, i + 1>> \notin Places(cs, n)
  BY DEF Places
<1>4. \A j \in 1 .. i : <<n + 1, j>> # <<n + 1, i + 1>>
  OBVIOUS
<1>5. <<n + 1, i + 1>> \notin PlacesUpTo(cs, n, i)
  BY <1>3, <1>4 DEF PlacesUpTo
<1>6. 1 .. 0 = {}
  OBVIOUS
<1> QED BY <1>2, <1>5, <1>6 DEF PlacesUpTo

\* How often a word has been met is how often it is at the places up to there
LEMMA MetSoFar ==
    ASSUME NEW d \in Seq(Paragraph), NEW cs, cs \in Seq(Callback), Paragraphs(d) = cs,
           NEW n \in Nat, n + 1 <= Len(cs), NEW i \in 1 .. Len(cs[n + 1].words)
    PROVE  InDocument(d, n + 1, i)
              = HashOf(cs, PlacesUpTo(cs, n, i))[cs[n + 1].words[i]]
<1> DEFINE w == cs[n + 1].words[i]
           P == PlacesUpTo(cs, n, i)
           A == {p \in PlacesOf(d, w) : p[1] < n + 1 \/ (p[1] = n + 1 /\ p[2] <= i)}
           B == {p \in P : WordAt(cs, p) = w}
<1>1. cs[n + 1].words \in Seq(Words) /\ Len(cs) \in Nat
  <2>1. cs[n + 1] \in Callback
    OBVIOUS
  <2> QED BY <2>1 DEF Callback
<1>2. PlacesOf(d, w) = {p \in Places(cs, Len(cs)) : WordAt(cs, p) = w}
  BY PlacesSame
<1>3. \A p : p \in Places(cs, Len(cs)) <=>
                p \in (1 .. Len(cs)) \X Nat /\ p[2] \in DOMAIN cs[p[1]].words
  BY DEF Places
<1>4. \A p : p \in Places(cs, n) <=>
                p \in (1 .. n) \X Nat /\ p[2] \in DOMAIN cs[p[1]].words
  BY DEF Places
<1>5. ASSUME NEW p \in A PROVE p \in B
  <2>1. /\ p \in (1 .. Len(cs)) \X Nat /\ p[2] \in DOMAIN cs[p[1]].words /\ WordAt(cs, p) = w
        /\ p[1] < n + 1 \/ (p[1] = n + 1 /\ p[2] <= i)
    BY <1>2, <1>3
  <2>2. p = <<p[1], p[2]>> /\ p[1] \in 1 .. Len(cs) /\ p[2] \in Nat
    BY <2>1
  <2>3. CASE p[1] < n + 1
    <3>1. p[1] \in 1 .. n
      BY <2>2, <2>3
    <3>2. p \in (1 .. n) \X Nat
      BY <2>2, <3>1
    <3> QED BY <1>4, <2>1, <3>2 DEF PlacesUpTo
  <2>4. CASE p[1] = n + 1 /\ p[2] <= i
    <3>1. p[2] \in 1 .. i
      <4>1. p[2] \in 1 .. Len(cs[n + 1].words)
        BY <1>1, <2>1, <2>4
      <4> QED BY <2>4, <4>1
    <3>2. p \in {<<n + 1, j>> : j \in 1 .. i}
      BY <2>2, <2>4, <3>1
    <3> QED BY <2>1, <3>2 DEF PlacesUpTo
  <2> QED BY <2>1, <2>3, <2>4
<1>6. ASSUME NEW p \in B PROVE p \in A
  <2>1. p \in P /\ WordAt(cs, p) = w
    OBVIOUS
  <2>2. CASE p \in Places(cs, n)
    <3>1. p \in (1 .. n) \X Nat /\ p[2] \in DOMAIN cs[p[1]].words
      BY <1>4, <2>2
    <3>2. p = <<p[1], p[2]>> /\ p[1] \in 1 .. n /\ p[2] \in Nat
      BY <3>1
    <3>3. p[1] \in 1 .. Len(cs) /\ p[1] < n + 1
      BY <1>1, <3>2
    <3>4. p \in (1 .. Len(cs)) \X Nat
      BY <3>2, <3>3
    <3> QED BY <1>2, <1>3, <2>1, <3>1, <3>3, <3>4
  <2>3. CASE p \notin Places(cs, n)
    <3>1. PICK j \in 1 .. i : p = <<n + 1, j>>
      BY <2>1, <2>3 DEF PlacesUpTo
    <3>2. p[1] = n + 1 /\ p[2] = j /\ p[2] <= i /\ j \in 1 .. Len(cs[n + 1].words) /\ j \in Nat
      BY <1>1, <3>1
    <3>3. p \in (1 .. Len(cs)) \X Nat
      BY <1>1, <3>1, <3>2
    <3>4. p[2] \in DOMAIN cs[p[1]].words
      BY <1>1, <3>2
    <3> QED BY <1>2, <1>3, <2>1, <3>2, <3>3, <3>4
  <2> QED BY <2>2, <2>3
<1>7. A = B
  BY <1>5, <1>6
<1>8. w \in {WordAt(cs, p) : p \in P}
  <2>1. <<n + 1, i>> \in P /\ WordAt(cs, <<n + 1, i>>) = w
    BY DEF PlacesUpTo, WordAt
  <2> QED BY <2>1
<1>9. HashOf(cs, P)[w] = Cardinality(B)
  BY <1>8 DEF HashOf
<1>10. InDocument(d, n + 1, i) = Cardinality(A)
  BY DEF InDocument
<1> HIDE DEF A, B, P
<1> QED BY <1>7, <1>9, <1>10 DEF w, P

\* One position more in a set that is counted up to a position
LEMMA CountedUpTo ==
    ASSUME NEW n \in Nat, NEW S \in SUBSET (1 .. n), NEW i \in Nat
    PROVE  /\ Cardinality({j \in S : j <= i}) \in Nat
           /\ Cardinality({j \in S : j <= i + 1})
                 = Cardinality({j \in S : j <= i}) + IF i + 1 \in S THEN 1 ELSE 0
           /\ Cardinality({j \in S : j <= 0}) = 0
<1> DEFINE A == {j \in S : j <= i}
           B == {j \in S : j <= i + 1}
<1>0. \A j \in S : j \in 1 .. n /\ j \in Int /\ j >= 1
  OBVIOUS
<1>1. A \in SUBSET (1 .. n) /\ i + 1 \notin A
  <2>1. ~(i + 1 <= i)
    OBVIOUS
  <2> QED BY <1>0, <2>1
<1>2. IsFiniteSet(A) /\ Cardinality(A) \in Nat
  BY <1>1, FinitePositions
<1>3. \A j \in S : j <= i + 1 <=> j <= i \/ j = i + 1
  OBVIOUS
<1>4. Cardinality(B) = Cardinality(A) + IF i + 1 \in S THEN 1 ELSE 0
  <2>1. CASE i + 1 \in S
    <3>1. B = A \cup {i + 1}
      BY <1>3, <2>1
    <3> HIDE DEF A, B
    <3>2. Cardinality(B) = Cardinality(A) + 1
      BY <1>1, <1>2, <3>1, FS_AddElement
    <3> QED BY <2>1, <3>2
  <2>2. CASE i + 1 \notin S
    <3>1. B = A
      BY <1>3, <2>2
    <3> HIDE DEF A, B
    <3> QED BY <1>2, <2>2, <3>1
  <2> QED BY <2>1, <2>2
<1>5. Cardinality({j \in S : j <= 0}) = 0
  <2>1. {j \in S : j <= 0} = {}
    <3>1. \A j \in S : ~(j <= 0)
      BY <1>0
    <3> QED BY <3>1
  <2> QED BY <2>1, FS_EmptySet
<1> QED BY <1>2, <1>4, <1>5

\* The document is read by parallel_libsvm_input_occurence, and has paragraphs
Occurring ==
    Inv /\ pc = "process" /\ kind = "occurrence" /\ Paragraphs(doc) = ProcessCalls

\* What a row of parallel_libsvm_input_occurence should be
LEMMA IsRowOfOccurrences ==
    ASSUME kind = "occurrence", NEW row, NEW d, NEW r, NEW k, NEW c, Paragraphs(d)[k] = c,
           row.label = LabelIn(d, c), Ascending(row), IsOccurrenceRow(row, d, k)
    PROVE  IsRow(row, d, r, k)
BY DEF IsRow

\* What a word of the document weighs
WeightIn(d) == [w \in AllWords(d) |-> Weight(d, w)]

LEMMA WeightsKnown ==
    ASSUME Occurring
    PROVE  /\ \A w \in AllWords(doc) :
                 WeightIn(doc)[w] = DF[w] * Score(w) /\ WeightIn(doc)[w] \in Int
                 /\ WeightIn(doc)[w] = Weight(doc, w)
           /\ Divisor2 = SquaresIn(doc)
<1>1. /\ DOMAIN DF = AllWords(doc)
      /\ \A w \in AllWords(doc) : DF[w] \in Nat /\ DF[w] = Cardinality(PlacesOf(doc, w))
  BY PassKnown DEF Occurring
<1>2. ASSUME NEW w \in AllWords(doc)
      PROVE  /\ WeightIn(doc)[w] = DF[w] * Score(w) /\ WeightIn(doc)[w] \in Int
             /\ WeightIn(doc)[w] = Weight(doc, w)
  <2>1. DF[w] \in Nat /\ Score(w) \in Nat
    BY <1>1, ScoreType
  <2>2. DF[w] * Score(w) \in Int
    BY <2>1
  <2>3. Weight(doc, w) = DF[w] * Score(w)
    BY <1>1 DEF Weight
  <2> QED BY <2>2, <2>3 DEF WeightIn
<1>3. [w \in DOMAIN DF |-> DF[w] * Score(w)] = [w \in AllWords(doc) |-> Weight(doc, w)]
  <2>1. \A w \in AllWords(doc) : DF[w] * Score(w) = Weight(doc, w)
    BY <1>1 DEF Weight
  <2> QED BY <1>1, <2>1
<1>4. Divisor2 = SquaresIn(doc)
  BY <1>3 DEF Divisor2, SquaresIn
<1> QED BY <1>2, <1>4

LEMMA PassingType ==
    ASSUME NEW d, NEW k, Paragraphs(d)[k].words \in Seq(Words), NEW m, NEW t
    PROVE  Passing(d, k, m, t) \in SUBSET (1 .. Len(Paragraphs(d)[k].words))
BY DEF Passing

\* One word more in parallel_libsvm_input_occurence
LEMMA OccurStep ==
    ASSUME Occurring, NEW n \in Nat, n + 1 <= Len(ProcessCalls),
           NEW i \in 0 .. Len(ProcessCalls[n + 1].words) - 1, NEW a,
           OccurInv(a, n, i, WeightIn(doc))
    PROVE  OccurInv(Occur(a, ProcessCalls[n + 1].words[i + 1]), n, i + 1, WeightIn(doc))
<1> DEFINE cs    == ProcessCalls
           words == cs[n + 1].words
           len   == Len(words)
           j     == i + 1
           w     == words[j]
           V     == WeightIn(doc)
           new   == Occur(a, w)
           prime == record_word(a.prime, w)
           bins  == AddTo(a.bins, Bin(w), V[w])
           D     == (1 .. 3) \X (1 .. 4)
           Pass(x) == Passing(doc, n + 1, x[1], x[2])
<1>1. doc \in Seq(Paragraph) /\ cs \in Seq(Callback) /\ Paragraphs(doc) = cs
  BY PassKnown DEF Occurring
<1>2. words \in Seq(Words) /\ len \in Nat
  <2>1. cs[n + 1] \in Callback
    BY <1>1
  <2>2. words \in Seq(Words)
    BY <2>1 DEF Callback
  <2> HIDE DEF words
  <2> QED BY <2>2
<1>3. \A h \in 1 .. len : words[h] \in AllWords(doc)
  <2>1. n + 1 \in DOMAIN cs
    BY <1>1
  <2>2. \A h \in 1 .. len : words[h] \in ToSet(words)
    BY <1>2 DEF ToSet
  <2> QED BY <1>1, <2>1, <2>2 DEF AllWords
<1>4. /\ \A v \in AllWords(doc) : V[v] = DF[v] * Score(v) /\ V[v] \in Int /\ V[v] = Weight(doc, v)
      /\ Divisor2 = SquaresIn(doc)
  BY WeightsKnown
<1>5. /\ a = [prime |-> a.prime, bins |-> a.bins, counters |-> a.counters]
      /\ a.prime = HashOf(cs, PlacesUpTo(cs, n, i))
      /\ IsBins(a.bins, words, i, V)
      /\ a.counters = [x \in D |-> Cardinality({h \in Pass(x) : h <= i})]
  BY DEF OccurInv
<1>6. j \in 1 .. len /\ i \in Nat /\ j \in Nat /\ n \in 0 .. Len(cs)
  BY <1>1, <1>2
<1>7. prime = HashOf(cs, PlacesUpTo(cs, n, j))
  <2>1. IsFiniteSet(PlacesUpTo(cs, n, i))
    BY <1>1, <1>6, PlacesUpToFinite
  <2>2. /\ PlacesUpTo(cs, n, j) = PlacesUpTo(cs, n, i) \cup {<<n + 1, j>>}
        /\ <<n + 1, j>> \notin PlacesUpTo(cs, n, i)
    <3>1. i \in Nat
      BY <1>6
    <3> HIDE DEF cs
    <3> QED BY <3>1, PlacesUpToStep
  <2>3. WordAt(cs, <<n + 1, j>>) = w
    BY DEF WordAt
  <2> HIDE DEF j, w
  <2>4. HashOf(cs, PlacesUpTo(cs, n, i) \cup {<<n + 1, j>>})
           = record_word(HashOf(cs, PlacesUpTo(cs, n, i)), WordAt(cs, <<n + 1, j>>))
    BY <2>1, <2>2, OnePlaceMore
  <2> QED BY <1>5, <2>2, <2>3, <2>4
<1>8. ASSUME NEW x \in D
      PROVE  Cardinality({h \in Pass(x) : h <= j})
                = Cardinality({h \in Pass(x) : h <= i}) + (IF j \in Pass(x) THEN 1 ELSE 0)
             /\ Cardinality({h \in Pass(x) : h <= i}) \in Nat
  <2>1. Pass(x) \in SUBSET (1 .. len)
    BY <1>1, <1>2, PassingType
  <2> DEFINE S == Pass(x)
  <2> HIDE DEF len, S
  <2>2. S \in SUBSET (1 .. len) /\ i \in Nat
    BY <1>6, <2>1 DEF S
  <2>3. /\ Cardinality({h \in S : h <= i}) \in Nat
        /\ Cardinality({h \in S : h <= i + 1})
              = Cardinality({h \in S : h <= i}) + IF i + 1 \in S THEN 1 ELSE 0
    BY <1>2, <2>2, CountedUpTo
  <2> QED BY <2>3 DEF S
<1>9. \A x \in D : j \in Pass(x) <=>
         /\ HasBin(w) /\ InDocument(doc, n + 1, j) = x[1]
         /\ x[2] \in Passed(Score(w), InParagraph(words, j) * Weight(doc, w), SquaresIn(doc))
  <2>1. j \in DOMAIN words
    BY <1>2, <1>6
  <2> QED BY <1>1, <2>1 DEF Passing
<1>10. CASE ~HasBin(w)
  <2>1. new = [a EXCEPT !.prime = prime]
    BY <1>10 DEF Occur
  <2>2. new = [prime |-> prime, bins |-> a.bins, counters |-> a.counters]
    BY <1>5, <2>1
  <2>3. IsBins(a.bins, words, j, V)
    BY <1>5, <1>6, <1>10, BinsSame
  <2>4. a.counters = [x \in D |-> Cardinality({h \in Pass(x) : h <= j})]
    <3>1. \A x \in D : Cardinality({h \in Pass(x) : h <= j}) = Cardinality({h \in Pass(x) : h <= i})
      BY <1>8, <1>9, <1>10
    <3> HIDE DEF Pass, D, j
    <3> QED BY <1>5, <3>1
  <2> HIDE DEF new, prime, V, Pass
  <2> QED BY <1>7, <2>2, <2>3, <2>4 DEF OccurInv, new, V, Pass
<1>11. CASE HasBin(w)
  <2>1. V[w] = DF[w] * Score(w)
    BY <1>3, <1>4, <1>6
  <2> DEFINE counters == [x \in DOMAIN a.counters |->
                  a.counters[x] + IF /\ x[1] = prime[w]
                                     /\ x[2] \in Passed(Score(w), bins[Bin(w)], Divisor2)
                                  THEN 1 ELSE 0]
  <2>2. new = [prime |-> prime, bins |-> bins, counters |-> counters]
    BY <1>11, <2>1 DEF Occur
  <2>3. IsBins(bins, words, j, V)
    <3>1. V[words[i + 1]] \in Int /\ \A h \in 1 .. i : V[words[h]] \in Int
      BY <1>3, <1>4, <1>6
    <3> HIDE DEF V, words
    <3> QED BY <1>5, <1>6, <1>11, <3>1, BinsStep
  <2>4. bins[Bin(w)] = InParagraph(words, j) * Weight(doc, w)
    <3>1. bins[Bin(w)] = Seen(words, j, w) * V[w]
      BY <1>6, <1>11, <2>3 DEF IsBins
    <3>2. InParagraph(words, j) = Seen(words, j, w)
      <4>1. j \in 0 .. Len(words)
        BY <1>2, <1>6
      <4> QED BY <1>2, <4>1, SeenAll DEF InParagraph
    <3>3. V[w] = Weight(doc, w)
      BY <1>3, <1>4, <1>6
    <3> QED BY <3>1, <3>2, <3>3
  <2>5. prime[w] = InDocument(doc, n + 1, j)
    BY <1>1, <1>6, <1>7, MetSoFar
  <2>6. counters = [x \in D |-> Cardinality({h \in Pass(x) : h <= j})]
    <3>1. DOMAIN a.counters = D /\ \A x \in D : a.counters[x] = Cardinality({h \in Pass(x) : h <= i})
      BY <1>5
    <3>2. ASSUME NEW x \in D
          PROVE  counters[x] = Cardinality({h \in Pass(x) : h <= j})
      <4>1. j \in Pass(x) <=> /\ x[1] = prime[w]
                              /\ x[2] \in Passed(Score(w), bins[Bin(w)], Divisor2)
        <5>1. j \in Pass(x) <=>
                 /\ HasBin(w) /\ InDocument(doc, n + 1, j) = x[1]
                 /\ x[2] \in Passed(Score(w), InParagraph(words, j) * Weight(doc, w), SquaresIn(doc))
          BY <1>9
        <5> HIDE DEF Pass, prime, bins, w, words, j
        <5> QED BY <1>4, <1>11, <2>4, <2>5, <5>1
      <4>2. counters[x] = a.counters[x] + IF j \in Pass(x) THEN 1 ELSE 0
        <5> HIDE DEF Pass, D, prime, bins, w, j
        <5> QED BY <3>1, <4>1
      <4> HIDE DEF counters, Pass, D, j
      <4> QED BY <1>8, <3>1, <4>2
    <3>3. counters = [x \in D |-> counters[x]]
      BY <3>1
    <3> HIDE DEF counters, Pass, D, j
    <3> QED BY <3>2, <3>3
  <2> HIDE DEF new, prime, V, Pass, counters, bins
  <2> QED BY <1>7, <2>2, <2>3, <2>6 DEF OccurInv, new, V, Pass
<1> QED BY <1>10, <1>11

\* What the words of a paragraph have come to
LEMMA OccurrencesAre ==
    ASSUME Occurring, NEW n \in Nat, n + 1 <= Len(ProcessCalls),
           DF_prime = Counted(ProcessCalls, n)
    PROVE  LET words == ProcessCalls[n + 1].words
           IN  OccurInv(Occurrences(words), n, Len(words), WeightIn(doc))
<1> DEFINE cs    == ProcessCalls
           words == cs[n + 1].words
           len   == Len(words)
           V     == WeightIn(doc)
           D     == (1 .. 3) \X (1 .. 4)
           start == [prime |-> DF_prime, bins |-> Empty, counters |-> [k \in D |-> 0]]
<1>1. doc \in Seq(Paragraph) /\ cs \in Seq(Callback) /\ Paragraphs(doc) = cs
  BY PassKnown DEF Occurring
<1>2. words \in Seq(Words) /\ len \in Nat /\ DOMAIN words = 1 .. len
  <2>1. cs[n + 1] \in Callback
    BY <1>1
  <2>2. words \in Seq(Words)
    BY <2>1 DEF Callback
  <2> HIDE DEF words
  <2> QED BY <2>2
<1>3. Occurrences(words) = FoldLeft(Occur, start, words)
  BY DEF Occurrences
<1>4. OccurInv(start, n, 0, V)
  <2>1. PlacesUpTo(cs, n, 0) = Places(cs, n)
    <3>1. 0 \in Nat
      OBVIOUS
    <3> QED BY <3>1, PlacesUpToStep
  <2>2. start.prime = HashOf(cs, PlacesUpTo(cs, n, 0))
    BY <2>1 DEF Counted
  <2>3. IsBins(start.bins, words, 0, V)
    BY NoBins
  <2>4. start.counters = [x \in D |-> Cardinality({j \in Passing(doc, n + 1, x[1], x[2]) : j <= 0})]
    <3>1. ASSUME NEW x \in D
          PROVE  Cardinality({j \in Passing(doc, n + 1, x[1], x[2]) : j <= 0}) = 0
      <4>1. Passing(doc, n + 1, x[1], x[2]) \in SUBSET (1 .. len)
        BY <1>1, <1>2, PassingType
      <4>2. 0 \in Nat
        OBVIOUS
      <4> HIDE DEF len
      <4> QED BY <1>2, <4>1, <4>2, CountedUpTo
    <3> HIDE DEF D
    <3> QED BY <3>1
  <2>5. start = [prime |-> start.prime, bins |-> start.bins, counters |-> start.counters]
    OBVIOUS
  <2> HIDE DEF start, V
  <2> QED BY <2>2, <2>3, <2>4, <2>5 DEF OccurInv
<1> HIDE DEF start, words, len, V
<1>5. PICK run : OccurFold!IsRun(run, start, words, len) /\ run[len] = FoldLeft(Occur, start, words)
  BY <1>2, OccurRuns
<1>6. run[0] = start /\ \A i \in 1 .. len : run[i] = Occur(run[i - 1], words[i])
  BY <1>5 DEF OccurFold!IsRun
<1> DEFINE N == {i \in Nat : i <= len => OccurInv(run[i], n, i, V)}
<1>7. 0 \in N
  BY <1>4, <1>6
<1>8. ASSUME NEW i \in Nat, i \in N PROVE i + 1 \in N
  <2> SUFFICES ASSUME i + 1 <= len PROVE OccurInv(run[i + 1], n, i + 1, V)
    OBVIOUS
  <2>1. i + 1 \in 1 .. len /\ (i + 1) - 1 = i /\ i \in 0 .. len - 1
    BY <1>2
  <2>2. run[i + 1] = Occur(run[i], words[i + 1])
    BY <1>6, <2>1
  <2>3. OccurInv(run[i], n, i, V)
    BY <1>2, <1>8
  <2>4. OccurInv(Occur(run[i], words[i + 1]), n, i + 1, V)
    BY <2>1, <2>3, OccurStep DEF V, words, len
  <2> QED BY <2>2, <2>4
<1>9. len \in N
  <2> HIDE DEF N
  <2> QED BY <1>2, <1>7, <1>8, JoinedFold!SetInduction
<1>10. OccurInv(Occurrences(words), n, len, V)
  BY <1>2, <1>3, <1>5, <1>9
<1> QED BY <1>10 DEF words, len, V

LEMMA CounterPlaces ==
    ASSUME NEW n \in 1 .. 3, NEW t \in 1 .. 4
    PROVE  LET i == 4 * (n - 1) + t
           IN  /\ i \in 1 .. 12
               /\ ((i - 1) \div 4) + 1 = n
               /\ ((i - 1) % 4) + 1 = t
<1>1. n = 1 \/ n = 2 \/ n = 3
  OBVIOUS
<1>2. t = 1 \/ t = 2 \/ t = 3 \/ t = 4
  OBVIOUS
<1> QED BY <1>1, <1>2

\* The head of a row, from the counters and the number of words
CounterRow(c, len) ==
    [i \in 1 .. 12 |-> <<i - 1, c[<<((i - 1) \div 4) + 1, ((i - 1) % 4) + 1>>]>>]
        \o <<<<13, len>>>>

IsCounterRow(head, c, len) ==
    /\ head \in Seq(Pairs) /\ Rises(head)
    /\ \A i \in DOMAIN head : head[i][1] <= 13
    /\ head[13] = <<13, len>>
    /\ \A n \in 1 .. 3, t \in 1 .. 4 :
          head[4 * (n - 1) + t] = <<4 * (n - 1) + t - 1, c[<<n, t>>]>>

LEMMA CounterHead ==
    ASSUME NEW c, NEW len \in Nat, \A x \in (1 .. 3) \X (1 .. 4) : c[x] \in Nat
    PROVE  IsCounterRow(CounterRow(c, len), c, len)
<1> DEFINE head  == CounterRow(c, len)
           At(i) == <<((i - 1) \div 4) + 1, ((i - 1) % 4) + 1>>
           first == [i \in 1 .. 12 |-> <<i - 1, c[At(i)]>>]
           last  == <<<<13, len>>>>
<1>1. \A i \in 1 .. 12 : At(i) \in (1 .. 3) \X (1 .. 4)
  <2> SUFFICES ASSUME NEW i \in 1 .. 12 PROVE At(i) \in (1 .. 3) \X (1 .. 4)
    OBVIOUS
  <2>1. ((i - 1) \div 4) + 1 \in 1 .. 3 /\ ((i - 1) % 4) + 1 \in 1 .. 4
    OBVIOUS
  <2> QED BY <2>1
<1> HIDE DEF At
<1>2. \A i \in 1 .. 12 : <<i - 1, c[At(i)]>> \in Pairs
  BY <1>1 DEF Pairs
<1>3. first \in Seq(Pairs) /\ Len(first) = 12 /\ \A i \in 1 .. 12 : first[i] = <<i - 1, c[At(i)]>>
  BY <1>2
<1>4. last \in Seq(Pairs) /\ Len(last) = 1 /\ last[1] = <<13, len>>
  BY DEF Pairs
<1>5. head = first \o last
  BY DEF At, CounterRow
<1> HIDE DEF first, last, head
<1>6. /\ head \in Seq(Pairs) /\ DOMAIN head = 1 .. 13
      /\ \A i \in 1 .. 12 : head[i] = first[i]
      /\ head[13] = last[1]
  <2>1. \A i \in 1 .. 12 : i \in 1 .. 13 /\ i <= 12
    OBVIOUS
  <2>2. /\ head \in Seq(Pairs) /\ Len(head) = Len(first) + Len(last)
        /\ \A i \in 1 .. Len(first) + Len(last) :
              head[i] = IF i <= Len(first) THEN first[i] ELSE last[i - Len(first)]
    BY <1>3, <1>4, <1>5, ConcatProperties
  <2>3. DOMAIN head = 1 .. 13
    BY <1>3, <1>4, <2>2
  <2>4. \A i \in 1 .. 13 : head[i] = IF i <= 12 THEN first[i] ELSE last[i - 12]
    BY <1>3, <1>4, <2>2
  <2>5. head[13] = last[1]
    BY <2>4
  <2> QED BY <2>1, <2>2, <2>3, <2>4, <2>5
<1>7. \A i \in 1 .. 12 : head[i] = <<i - 1, c[At(i)]>>
  BY <1>3, <1>6
<1>8. \A i \in 1 .. 13 : head[i][1] = IF i = 13 THEN 13 ELSE i - 1
  <2> SUFFICES ASSUME NEW i \in 1 .. 13 PROVE head[i][1] = IF i = 13 THEN 13 ELSE i - 1
    OBVIOUS
  <2>1. CASE i = 13
    BY <1>4, <1>6, <2>1
  <2>2. CASE i # 13
    <3>1. i \in 1 .. 12
      BY <2>2
    <3> QED BY <1>7, <2>2, <3>1
  <2> QED BY <2>1, <2>2
<1>9. Rises(head) /\ \A i \in DOMAIN head : head[i][1] <= 13
  <2>1. \A i \in 1 .. 13 : (IF i = 13 THEN 13 ELSE i - 1) <= 13
    OBVIOUS
  <2>2. \A i \in 1 .. 13 : head[i][1] <= 13
    BY <1>8, <2>1
  <2>3. ASSUME NEW a \in 1 .. 13, NEW b \in 1 .. 13, a < b PROVE head[a][1] < head[b][1]
    <3>1. a # 13 /\ head[a][1] = a - 1
      BY <1>8, <2>3
    <3>2. head[b][1] = b - 1 \/ (b = 13 /\ head[b][1] = 13)
      BY <1>8
    <3> QED BY <2>3, <3>1, <3>2
  <2> QED BY <1>6, <2>2, <2>3 DEF Rises
<1>10. ASSUME NEW n \in 1 .. 3, NEW t \in 1 .. 4
       PROVE  head[4 * (n - 1) + t] = <<4 * (n - 1) + t - 1, c[<<n, t>>]>>
  <2> DEFINE i == 4 * (n - 1) + t
  <2>1. i \in 1 .. 12 /\ At(i) = <<n, t>>
    BY CounterPlaces DEF At
  <2> HIDE DEF i
  <2>2. head[i] = <<i - 1, c[<<n, t>>]>>
    BY <1>7, <2>1
  <2> QED BY <2>2 DEF i
<1> QED BY <1>4, <1>6, <1>9, <1>10 DEF IsCounterRow, head

LEMMA OccurrenceRowRight ==
    ASSUME Occurring, NEW n \in Nat, n + 1 <= Len(ProcessCalls),
           DF_prime = Counted(ProcessCalls, n), NEW r
    PROVE  IsRow(OccurrenceRow(ProcessCalls[n + 1]), doc, r, n + 1)
<1> DEFINE k     == n + 1
           c     == ProcessCalls[k]
           words == c.words
           o     == Occurrences(words)
           row   == OccurrenceRow(c)
           fs    == Written(o.bins)
           V     == WeightIn(doc)
<1>1. doc \in Seq(Paragraph) /\ ProcessCalls \in Seq(Callback) /\ Paragraphs(doc) = ProcessCalls
  BY PassKnown DEF Occurring
<1>2. words \in Seq(Words) /\ Len(words) \in Nat /\ k \in DOMAIN ProcessCalls
  <2>1. c \in Callback /\ k \in DOMAIN ProcessCalls
    BY <1>1
  <2>2. words \in Seq(Words)
    BY <2>1 DEF Callback
  <2> HIDE DEF words
  <2> QED BY <2>1, <2>2
<1>3. ToSet(words) \subseteq AllWords(doc)
  BY <1>1, <1>2 DEF AllWords
<1>4. /\ \A w \in AllWords(doc) : V[w] \in Int /\ V[w] = Weight(doc, w)
      /\ Divisor2 = SquaresIn(doc)
  BY WeightsKnown
<1>5. OccurInv(o, n, Len(words), V)
  BY OccurrencesAre
<1>6. /\ IsBins(o.bins, words, Len(words), V)
      /\ o.counters = [x \in (1 .. 3) \X (1 .. 4) |->
                          Cardinality({j \in Passing(doc, k, x[1], x[2]) : j <= Len(words)})]
  BY <1>5 DEF OccurInv
<1>7. /\ row.label = Label(c.node) /\ row.over = <<Divisor2>>
      /\ row.head = CounterRow(o.counters, Len(words))
      /\ row.features = [h \in DOMAIN fs |-> <<13 + fs[h][1], fs[h][2]>>]
  BY DEF OccurrenceRow, CounterRow
<1> HIDE DEF row, o, V, words, c, k
<1>8. ASSUME NEW m \in 1 .. 3, NEW t \in 1 .. 4
      PROVE  /\ o.counters[<<m, t>>] = Cardinality(Passing(doc, k, m, t))
             /\ o.counters[<<m, t>>] \in Nat
  <2>1. Passing(doc, k, m, t) \in SUBSET (1 .. Len(words))
    BY <1>1, <1>2, PassingType DEF words, c
  <2>2. Cardinality(Passing(doc, k, m, t)) \in Nat
    BY <1>2, <2>1, FinitePositions
  <2>3. \A j \in Passing(doc, k, m, t) : j <= Len(words)
    BY <2>1
  <2>4. {j \in Passing(doc, k, m, t) : j <= Len(words)} = Passing(doc, k, m, t)
    BY <2>3
  <2>5. <<m, t>> \in (1 .. 3) \X (1 .. 4) /\ <<m, t>>[1] = m /\ <<m, t>>[2] = t
    OBVIOUS
  <2>6. o.counters[<<m, t>>] = Cardinality({j \in Passing(doc, k, m, t) : j <= Len(words)})
    BY <1>6, <2>5
  <2> QED BY <2>2, <2>4, <2>6
<1>9. /\ row.head \in Seq(Pairs) /\ Rises(row.head)
      /\ \A i \in DOMAIN row.head : row.head[i][1] <= 13
      /\ row.head[13] = <<13, Len(words)>>
      /\ \A m \in 1 .. 3, t \in 1 .. 4 :
            row.head[4 * (m - 1) + t] = <<4 * (m - 1) + t - 1, o.counters[<<m, t>>]>>
  <2>1. \A x \in (1 .. 3) \X (1 .. 4) : o.counters[x] \in Nat
    <3>1. \A x \in (1 .. 3) \X (1 .. 4) : x = <<x[1], x[2]>> /\ x[1] \in 1 .. 3 /\ x[2] \in 1 .. 4
      OBVIOUS
    <3> QED BY <1>8, <3>1
  <2>2. IsCounterRow(row.head, o.counters, Len(words))
    BY <1>2, <1>7, <2>1, CounterHead
  <2> QED BY <2>2 DEF IsCounterRow
<1>10. /\ DOMAIN o.bins \in SUBSET (1 .. Cardinality(Common)) /\ Cardinality(Common) \in Nat
       /\ \A b \in DOMAIN o.bins : o.bins[b] \in Int
       /\ {<<b, o.bins[b]>> : b \in Shown(o.bins)}
             = {<<Bin(w), Times(words, w) * V[w]>> : w \in Heavy(words, V)}
  <2>1. \A w \in ToSet(words) : V[w] \in Int
    BY <1>3, <1>4
  <2> QED BY <1>2, <1>6, <2>1, BinFeatures
<1>11. /\ fs \in Seq(Pairs) /\ Rises(fs) /\ DOMAIN fs = 1 .. Len(fs)
       /\ \A h \in DOMAIN fs : fs[h][1] \in DOMAIN o.bins
       /\ ToSet(fs) = {<<b, o.bins[b]>> : b \in Shown(o.bins)}
  BY <1>10, WrittenShape
<1> HIDE DEF fs
<1>12. ASSUME NEW h \in DOMAIN fs PROVE fs[h][1] \in Int /\ fs[h][1] >= 1 /\ fs[h][2] \in Int
  <2>1. fs[h][1] \in 1 .. Cardinality(Common)
    BY <1>10, <1>11
  <2>2. fs[h] \in Pairs
    BY <1>11
  <2> QED BY <1>10, <2>1, <2>2 DEF Pairs
<1>13. Ascending(row)
  <2>1. row.features \in Seq(Pairs)
    <3>1. Len(fs) \in Nat /\ \A h \in 1 .. Len(fs) : <<13 + fs[h][1], fs[h][2]>> \in Pairs
      BY <1>11, <1>12 DEF Pairs
    <3> QED BY <1>7, <1>11, <3>1
  <2>2. Rises(row.features)
    <3>1. \A a, b \in DOMAIN fs : a < b => 13 + fs[a][1] < 13 + fs[b][1]
      BY <1>11, <1>12 DEF Rises
    <3> QED BY <1>7, <3>1 DEF Rises
  <2>3. \A a \in DOMAIN row.head, b \in DOMAIN row.features :
           row.head[a][1] < row.features[b][1]
    <3> SUFFICES ASSUME NEW a \in DOMAIN row.head, NEW b \in DOMAIN row.features
                 PROVE  row.head[a][1] < row.features[b][1]
      OBVIOUS
    <3>1. row.head[a] \in Pairs
      BY <1>9
    <3>2. row.head[a][1] \in Int /\ row.head[a][1] <= 13
      BY <1>9, <3>1 DEF Pairs
    <3>3. b \in DOMAIN fs /\ row.features[b][1] = 13 + fs[b][1]
      BY <1>7
    <3>4. fs[b][1] \in Int /\ fs[b][1] >= 1
      BY <1>12, <3>3
    <3> QED BY <3>2, <3>3, <3>4
  <2> QED BY <1>9, <2>1, <2>2, <2>3, RowAscends
<1> DEFINE big == Weighty(doc, words)
<1>14. ToSet(row.features) = {<<13 + Bin(w), TfcIn(doc, words, w)>> : w \in big}
  <2> DEFINE F == {<<Bin(w), Times(words, w) * V[w]>> : w \in Heavy(words, V)}
             G == {<<13 + Bin(w), TfcIn(doc, words, w)>> : w \in big}
  <2>1. {fs[h] : h \in DOMAIN fs} = F
    BY <1>10, <1>11 DEF ToSet
  <2>2. ToSet(row.features) = {<<13 + fs[h][1], fs[h][2]>> : h \in DOMAIN fs}
    BY <1>7 DEF ToSet
  <2>0. \A w \in Binned(words) : Times(words, w) * V[w] = TfcIn(doc, words, w)
    BY <1>3, <1>4 DEF Binned, TfcIn
  <2>3. Heavy(words, V) = big
    BY <1>4, <2>0 DEF Heavy, Above, Occurring, Weighty
  <2>6. \A w \in big : Times(words, w) * V[w] = TfcIn(doc, words, w)
    BY <2>0 DEF Weighty
  <2> HIDE DEF big
  <2>4. ASSUME NEW h \in DOMAIN fs PROVE <<13 + fs[h][1], fs[h][2]>> \in G
    <3>1. fs[h] \in F
      BY <2>1
    <3>2. PICK w \in big : fs[h] = <<Bin(w), Times(words, w) * V[w]>>
      BY <2>3, <3>1
    <3>3. Times(words, w) * V[w] = TfcIn(doc, words, w)
      BY <2>6
    <3> QED BY <3>2, <3>3
  <2>5. ASSUME NEW w \in big
        PROVE  \E h \in DOMAIN fs : <<13 + fs[h][1], fs[h][2]>>
                                       = <<13 + Bin(w), TfcIn(doc, words, w)>>
    <3>0. Times(words, w) * V[w] = TfcIn(doc, words, w)
      BY <2>6
    <3>1. <<Bin(w), Times(words, w) * V[w]>> \in F
      BY <2>3
    <3> HIDE DEF F
    <3>2. PICK h \in DOMAIN fs : fs[h] = <<Bin(w), Times(words, w) * V[w]>>
      BY <2>1, <3>1
    <3> QED BY <3>0, <3>2
  <2> QED BY <2>2, <2>4, <2>5
<1>15. IsOccurrenceRow(row, doc, k)
  <2>1. Paragraphs(doc)[k].words = words
    BY <1>1 DEF words, c
  <2>2. row.over = <<SquaresIn(doc)>>
    BY <1>4, <1>7
  <2>3. \A m \in 1 .. 3, t \in 1 .. 4 :
           row.head[4 * (m - 1) + t] = <<4 * (m - 1) + t - 1, Cardinality(Passing(doc, k, m, t))>>
    BY <1>8, <1>9
  <2> QED BY <1>9, <1>14, <2>1, <2>2, <2>3 DEF IsOccurrenceRow
<1>16. row.label = LabelIn(doc, c) /\ Paragraphs(doc)[k] = c
  BY <1>1, <1>7 DEF Label, LabelIn, c
<1>17. kind = "occurrence"
  BY DEF Occurring
<1> HIDE DEF row, c, k
<1>18. IsRow(row, doc, r, k)
  BY <1>13, <1>15, <1>16, <1>17, IsRowOfOccurrences
<1> QED BY <1>18 DEF row, c, k

-----------------------------------------------------------------------------
(* The rows of the document that is read. *)

\* Where its rows begin, and the paragraphs of the first n calls that have one
From == RowsOf(done, Len(done) + 1)
SoFar(n) == InOrder({k \in 1 .. n : HasRow(ProcessCalls[k])})

\* What is known when n calls of the second pass are made
ReadInv(n) ==
    /\ Made(ProcessCalls, n)
    /\ RowsAt(out, From, doc, SoFar(n)) /\ Len(out) = From + Len(SoFar(n))
    /\ kind = "ngrams" => paragraph_number = Len(SoFar(n))

\* The first pass of parallel_libsvm_ngrams_extended counts its calls, and one for the
\* expression that finds nothing
CountInv(n) ==
    /\ Made(PreCalls, n)
    /\ number_of_paragraphs = n + IF xpath = "relaxed" THEN 1 ELSE 0

RowsInv ==
    kind # "serial2" =>
        /\ \E S : out \in Seq(S)
        /\ RowsOfAll(out, done)
        /\ pc \in {"idle", "pre"} => Len(out) = From
        /\ pc = "pre" =>
              /\ xpath = "relaxed" => ~Found(doc, "section")
              /\ kind = "ngrams" => paragraph_number = 0 /\ \E n \in Nat : CountInv(n)
        /\ pc = "process" =>
              /\ xpath = Scope(doc)
              /\ kind = "ngrams" /\ Found(doc, xpath) => number_of_paragraphs = Told(doc)
              /\ \E n \in Nat : ReadInv(n)

LEMMA SoFarShape ==
    ASSUME NEW n \in Nat
    PROVE  /\ DOMAIN SoFar(n) = 1 .. Len(SoFar(n)) /\ Len(SoFar(n)) \in Nat
           /\ SoFar(n) \in Seq(1 .. n)
<1> DEFINE S == {k \in 1 .. n : HasRow(ProcessCalls[k])}
<1>1. S \in SUBSET (1 .. n)
  OBVIOUS
<1>2. SoFar(n) = InOrder(S)
  BY DEF SoFar
<1> HIDE DEF S
<1>3. SoFar(n) \in Seq(1 .. n)
  BY <1>1, <1>2, InOrderShape, SeqOver
<1> QED BY <1>3

LEMMA SoFarNone == SoFar(0) = <<>>
<1> DEFINE S == {k \in 1 .. 0 : HasRow(ProcessCalls[k])}
<1>1. S = {}
  OBVIOUS
<1>2. SoFar(0) = InOrder({})
  BY <1>1 DEF SoFar
<1>3. {} \in SUBSET (1 .. 0)
  OBVIOUS
<1>4. InOrder({}) \in Seq({}) /\ Len(InOrder({})) = 0
  BY <1>3, InOrderShape, FS_EmptySet
<1> QED BY <1>2, <1>4

LEMMA SoFarStep ==
    ASSUME NEW n \in Nat
    PROVE  SoFar(n + 1) = IF HasRow(ProcessCalls[n + 1]) THEN Append(SoFar(n), n + 1) ELSE SoFar(n)
<1> DEFINE S == {k \in 1 .. n : HasRow(ProcessCalls[k])}
           T == {k \in 1 .. n + 1 : HasRow(ProcessCalls[k])}
<1>1. \A k : k \in 1 .. n + 1 <=> k \in 1 .. n \/ k = n + 1
  OBVIOUS
<1>2. T = IF HasRow(ProcessCalls[n + 1]) THEN S \cup {n + 1} ELSE S
  BY <1>1
<1>3. S \in SUBSET (1 .. n)
  OBVIOUS
<1>4. SoFar(n) = InOrder(S) /\ SoFar(n + 1) = InOrder(T)
  BY DEF SoFar
<1> HIDE DEF S, T
<1>5. InOrder(S \cup {n + 1}) = Append(InOrder(S), n + 1)
  BY <1>3, InOrderAppend
<1> QED BY <1>2, <1>4, <1>5

\* A paragraph that has a row is one of a document that has paragraphs
LEMMA RowsFound ==
    ASSUME NEW k \in 1 .. Len(ProcessCalls), HasRow(ProcessCalls[k]), doc \in Seq(Paragraph)
    PROVE  Found(doc, xpath)
<1> SUFFICES ASSUME ~Found(doc, xpath) PROVE FALSE
  OBVIOUS
<1>1. ProcessCalls[k].words = <<>>
  BY NothingToRead DEF ProcessCalls
<1>2. Binned(<<>>) = {}
  BY DEF Binned, ToSet
<1>3. Ends(<<>>, 1) = {}
  <2>1. 1 .. Len(<<>>) = {}
    OBVIOUS
  <2> QED BY <2>1 DEF Ends
<1> QED BY <1>1, <1>2, <1>3 DEF HasRow

\* When the second pass is over, the rows are those of the document
LEMMA WholeDocument ==
    ASSUME doc \in Seq(Paragraph), ProcessCalls \in Seq(Callback), xpath = Scope(doc)
    PROVE  WithRow(doc) = SoFar(Len(ProcessCalls))
<1>1. CASE Found(doc, xpath)
  <2>1. Paragraphs(doc) = ProcessCalls
    BY <1>1 DEF Paragraphs, ProcessCalls
  <2>2. DOMAIN ProcessCalls = 1 .. Len(ProcessCalls)
    OBVIOUS
  <2> QED BY <2>1, <2>2 DEF WithRow, SoFar
<1>2. CASE ~Found(doc, xpath)
  <2>1. {k \in 1 .. Len(ProcessCalls) : HasRow(ProcessCalls[k])} = {}
    BY <1>2, RowsFound
  <2>2. Paragraphs(doc) = <<>>
    BY <1>2 DEF Paragraphs
  <2>3. {k \in DOMAIN Paragraphs(doc) : HasRow(Paragraphs(doc)[k])} = {}
    BY <2>2
  <2> QED BY <2>1, <2>3 DEF WithRow, SoFar
<1> QED BY <1>1, <1>2

\* All rows behind the first from are those of the paragraphs ks
RowsEnd(rows, from, d, ks) == RowsAt(rows, from, d, ks) /\ Len(rows) = from + Len(ks)

\* One row more of the document
LEMMA RowsAtMore ==
    ASSUME NEW S, NEW rows \in Seq(S), NEW row, NEW from \in Nat, NEW d, NEW W, NEW ks \in Seq(W),
           NEW k \in W, RowsEnd(rows, from, d, ks), NEW r, r = Len(ks) + 1, IsRow(row, d, r, k)
    PROVE  RowsEnd(Append(rows, row), from, d, Append(ks, k))
<1> DEFINE up   == Append(ks, k)
           more == Append(rows, row)
<1>1. /\ DOMAIN up = 1 .. Len(ks) + 1 /\ Len(up) = Len(ks) + 1 /\ Len(ks) \in Nat
      /\ up[Len(ks) + 1] = k /\ \A i \in 1 .. Len(ks) : up[i] = ks[i]
      /\ DOMAIN ks = 1 .. Len(ks)
  OBVIOUS
<1>2. /\ Len(more) = Len(rows) + 1 /\ Len(rows) \in Nat /\ more[Len(rows) + 1] = row
  BY AppendRow
<1>3. RowsAt(more, from, d, ks)
  BY <1>1, RowsAtAppend DEF RowsEnd
<1> HIDE DEF up, more
<1>4. ASSUME NEW i \in DOMAIN up
      PROVE  from + i <= Len(more) /\ IsRow(more[from + i], d, i, up[i])
  <2>1. CASE i = Len(ks) + 1
    <3>1. from + i = Len(rows) + 1
      BY <1>1, <2>1 DEF RowsEnd
    <3> QED BY <1>1, <1>2, <2>1, <3>1
  <2>2. CASE i # Len(ks) + 1
    <3>1. i \in DOMAIN ks /\ up[i] = ks[i]
      BY <1>1, <2>2
    <3> QED BY <1>3, <3>1 DEF RowsAt
  <2> QED BY <2>1, <2>2
<1>5. Len(more) = from + Len(up)
  BY <1>1, <1>2 DEF RowsEnd
<1> QED BY <1>4, <1>5 DEF RowsEnd, RowsAt, up, more

-----------------------------------------------------------------------------
(* What is known of the rows does not depend on which state looks at them. *)

LEMMA RowsOfKept ==
    ASSUME UNCHANGED kind
    PROVE  /\ \A ds, n : RowsOf(ds, n)' = RowsOf(ds, n)
           /\ \A rows, from, d, ks : RowsAt(rows, from, d, ks)' = RowsAt(rows, from, d, ks)
           /\ \A rows, ds : RowsOfAll(rows, ds)' = RowsOfAll(rows, ds)
<1>1. ASSUME NEW ds, NEW n PROVE RowsOf(ds, n)' = RowsOf(ds, n)
  BY WithRowKept DEF RowsOf
<1>2. ASSUME NEW rows, NEW from, NEW d, NEW ks
      PROVE  RowsAt(rows, from, d, ks)' = RowsAt(rows, from, d, ks)
  <2>1. \A r : IsRow(rows[from + r], d, r, ks[r])' = IsRow(rows[from + r], d, r, ks[r])
    BY IsRowKept
  <2> QED BY <2>1 DEF RowsAt
<1>3. ASSUME NEW rows, NEW ds PROVE RowsOfAll(rows, ds)' = RowsOfAll(rows, ds)
  <2>1. \A n : RowsAt(rows, RowsOf(ds, n), ds[n], WithRow(ds[n]))'
                 = RowsAt(rows, RowsOf(ds, n), ds[n], WithRow(ds[n]))
    BY <1>1, <1>2, WithRowKept
  <2> QED BY <2>1 DEF RowsOfAll
<1> QED BY <1>1, <1>2, <1>3

LEMMA RowsThen ==
    ASSUME UNCHANGED kind
    PROVE  /\ RowsOfAll(out, done)' <=> RowsOfAll(out', done')
           /\ From' = RowsOf(done', Len(done') + 1)
<1>1. From' = RowsOf(done', Len(done') + 1)
  BY RowsOfKept DEF From
<1>2. RowsOfAll(out, done)' <=> RowsOfAll(out', done')
  BY RowsOfKept
<1> QED BY <1>1, <1>2

LEMMA DocKept ==
    ASSUME UNCHANGED <<kind, files>>
    PROVE  /\ doc' = doc /\ Scope(doc)' = Scope(doc) /\ Told(doc)' = Told(doc)
           /\ \A x : Found(doc, x)' = Found(doc, x)
<1>1. doc' = doc
  BY DEF doc
<1>2. Paragraphs(doc)' = Paragraphs(doc)
  <2>1. \A d : Paragraphs(d)' = Paragraphs(d)
    BY CallsOfKept
  <2> QED BY <1>1, <2>1
<1>3. \A x : Found(doc, x)' = Found(doc, x)
  BY <1>1 DEF Found, Selected
<1> QED BY <1>1, <1>2, <1>3 DEF Scope, Told

LEMMA SoFarKept ==
    ASSUME UNCHANGED <<kind, files, xpath>>
    PROVE  \A n : SoFar(n)' = SoFar(n)
<1>1. ProcessCalls' = ProcessCalls
  BY CallsKept
<1>2. ASSUME NEW n PROVE SoFar(n)' = SoFar(n)
  BY <1>1, HasRowKept DEF SoFar
<1> QED BY <1>2

\* A step that makes no row and finishes no document
LEMMA OutKept ==
    ASSUME UNCHANGED <<kind, done, out>>, \E S : out \in Seq(S), RowsOfAll(out, done)
    PROVE  /\ (\E S : out \in Seq(S))' /\ RowsOfAll(out, done)'
           /\ From' = From
<1>1. From' = From
  BY RowsThen DEF From
<1> QED BY <1>1, RowsThen

\* The conditions of RowsInv on a document that is read, and on none
LEMMA RowsShape ==
    ASSUME Inv, RowsInv, kind # "serial2"
    PROVE  /\ kind \in {"tfidf", "occurrence", "ngrams", "serial"}
           /\ From \in Nat
           /\ files # <<>> => doc \in Seq(Paragraph) /\ PreCalls \in Seq(Callback)
                                 /\ ProcessCalls \in Seq(Callback)
<1>1. kind \in {"tfidf", "occurrence", "ngrams", "serial"}
  BY FeaturesAssumption DEF Inv, Shape, Parallel
<1>2. From \in Nat
  <2>1. done \in Seq(Seq(Paragraph)) /\ Len(done) + 1 \in 1 .. Len(done) + 1
    BY DEF Inv, Shape
  <2> QED BY <2>1, RowsOfType DEF From
<1>3. files # <<>> => doc \in Seq(Paragraph)
  BY DocType DEF Inv
<1> QED BY <1>1, <1>2, <1>3, CallsOfType DEF PreCalls, ProcessCalls

-----------------------------------------------------------------------------
(* The steps, and what they do to the rows. *)

LEMMA InitRows ==
    ASSUME Init
    PROVE  RowsInv
<1>1. out = <<>> /\ done = <<>> /\ pc = "idle"
  BY DEF Init
<1>2. From = 0
  <2>1. Len(done) + 1 = 1
    BY <1>1
  <2> QED BY <2>1, RowsOfNone DEF From
<1>3. RowsOfAll(out, done)
  BY <1>1 DEF RowsOfAll
<1>4. out \in Seq({}) /\ Len(out) = From
  BY <1>1, <1>2
<1> QED BY <1>1, <1>3, <1>4 DEF RowsInv

LEMMA LoadRows ==
    ASSUME Inv, RowsInv, Load
    PROVE  RowsInv'
<1> SUFFICES ASSUME kind # "serial2" PROVE RowsInv'
  BY DEF RowsInv, Load
<1>0. doc \in Seq(Paragraph)
  BY DocType DEF Inv, Load
<1>1. /\ kind' = kind /\ done' = done /\ out' = out /\ files' = files
      /\ pc = "idle" /\ pc' = "pre" /\ xpath' = "section"
      /\ number_of_paragraphs' = 0 /\ paragraph_number' = 0
  BY DEF Load
<1>2. (\E S : out \in Seq(S)) /\ RowsOfAll(out, done) /\ Len(out) = From
  BY <1>1 DEF RowsInv
<1>3. (\E S : out \in Seq(S))' /\ RowsOfAll(out, done)' /\ From' = From
  BY <1>1, <1>2, OutKept
<1> DEFINE cs == CallsOf(doc, "section", "pre")
<1>4. cs \in Seq(Callback)
  BY <1>0, CallsOfType
<1>5. PreCalls' = cs /\ calls' = cs
  BY DEF Load, PreCalls, CallsOf, Flags, doc
<1> HIDE DEF cs
<1>6. CountInv(0)'
  BY <1>1, <1>4, <1>5, AllLeft DEF CountInv, Made
<1>7. \E n \in Nat : CountInv(n)'
  <2>1. 0 \in Nat
    OBVIOUS
  <2> QED BY <1>6, <2>1
<1>8. Len(out') = From'
  BY <1>1, <1>2, <1>3
<1> QED BY <1>1, <1>3, <1>7, <1>8 DEF RowsInv

LEMMA PreProcessRows ==
    ASSUME Inv, RowsInv, PreProcess
    PROVE  RowsInv'
<1> SUFFICES ASSUME kind # "serial2" PROVE RowsInv'
  BY DEF RowsInv, PreProcess
<1>0. doc \in Seq(Paragraph) /\ PreCalls \in Seq(Callback)
  BY DocType, CallsOfType DEF Inv, PreInv, PreProcess, PreCalls
<1>1. /\ kind' = kind /\ done' = done /\ out' = out /\ files' = files
      /\ pc = "pre" /\ pc' = "pre" /\ xpath' = xpath /\ calls' = Tail(calls) /\ calls # <<>>
      /\ paragraph_number' = paragraph_number
  BY DEF PreProcess
<1>2. /\ (\E S : out \in Seq(S)) /\ RowsOfAll(out, done) /\ Len(out) = From
      /\ xpath = "relaxed" => ~Found(doc, "section")
      /\ kind = "ngrams" => paragraph_number = 0
  BY <1>1 DEF RowsInv
<1>3. (\E S : out \in Seq(S))' /\ RowsOfAll(out, done)' /\ From' = From
  BY <1>1, <1>2, OutKept
<1>4. ~Found(doc, "section")' <=> ~Found(doc, "section")
  BY <1>1, DocKept
<1>5. ASSUME kind = "ngrams" PROVE \E n \in Nat : CountInv(n)'
  <2>1. PICK n \in Nat : CountInv(n)
    BY <1>1, <1>5 DEF RowsInv
  <2>2. IsRest(Tail(calls), PreCalls, n + 1)
    BY <1>0, <1>1, <2>1, NextCall DEF CountInv
  <2>3. PICK m \in Nat : m = n + 1
    OBVIOUS
  <2>4. IsRest(calls', PreCalls, m) /\ PreCalls' = PreCalls
    BY <1>1, <2>2, <2>3, CallsKept
  <2>5. number_of_paragraphs' = m + IF xpath' = "relaxed" THEN 1 ELSE 0
    <3>1. number_of_paragraphs' = number_of_paragraphs + 1
      BY <1>5 DEF PreProcess
    <3> QED BY <1>1, <2>1, <2>3, <3>1 DEF CountInv
  <2>6. CountInv(m)'
    BY <2>4, <2>5 DEF CountInv, Made
  <2> QED BY <2>6
<1>6. Len(out') = From'
  BY <1>1, <1>2, <1>3
<1> QED BY <1>1, <1>2, <1>3, <1>4, <1>5, <1>6 DEF RowsInv

\* An expression that finds nothing in parallel_libsvm_ngrams_extended makes one call
LEMMA NullCall ==
    ASSUME kind = "ngrams", NEW d, NEW x, NEW pass, ~Found(d, x)
    PROVE  Len(CallsOf(d, x, pass)) = 1
<1>1. Selected(d, x) = {} /\ kind \in Parallel
  BY DEF Found, Parallel
<1>2. CallsOf(d, x, pass) = <<[words |-> <<>>, node |-> 0]>>
  BY <1>1 DEF CallsOf, Calls
<1> QED BY <1>2

\* The passes of a document make equally many calls, whatever becomes of the words
LEMMA SameNumber ==
    ASSUME kind = "ngrams", NEW d \in Seq(Paragraph), NEW x, Found(d, x)
    PROVE  Len(CallsOf(d, x, "pre")) = Len(CallsOf(d, x, "process"))
<1> DEFINE long == InOrder({i \in Selected(d, x) : ~d[i].short})
           S(pass) == [k \in DOMAIN long |->
                 [words |-> WordsOf(d[long[k]], Flags(pass)), node |-> long[k]]]
<1>1. kind \in Parallel /\ Selected(d, x) # {}
  BY DEF Found, Parallel
<1>2. \A pass : CallsOf(d, x, pass) = S(pass)
  BY <1>1 DEF CallsOf, Calls
<1>3. \A pass : DOMAIN S(pass) = DOMAIN long
  OBVIOUS
<1> HIDE DEF S, long
<1> DEFINE a == CallsOf(d, x, "pre")
           b == CallsOf(d, x, "process")
<1>4. a \in Seq(Callback) /\ b \in Seq(Callback)
  BY CallsOfType
<1>5. DOMAIN a = DOMAIN b
  BY <1>2, <1>3
<1> HIDE DEF a, b
<1>6. DOMAIN a = 1 .. Len(a) /\ DOMAIN b = 1 .. Len(b) /\ Len(a) \in Nat /\ Len(b) \in Nat
  BY <1>4
<1>7. Len(a) = Len(b)
  <2>1. PICK m \in Nat : m = Len(a)
    BY <1>6
  <2>2. PICK n \in Nat : n = Len(b)
    BY <1>6
  <2>3. \A i : i \in 1 .. m <=> i \in 1 .. n
    BY <1>5, <1>6, <2>1, <2>2
  <2>4. m \in 1 .. n \/ m = 0
    <3>1. m \in 1 .. m \/ m = 0
      OBVIOUS
    <3> QED BY <2>3, <3>1
  <2>5. n \in 1 .. m \/ n = 0
    <3>1. n \in 1 .. n \/ n = 0
      OBVIOUS
    <3> QED BY <2>3, <3>1
  <2>6. m = n
    BY <2>4, <2>5
  <2> QED BY <2>1, <2>2, <2>6
<1> QED BY <1>7 DEF a, b

LEMMA RelaxRows ==
    ASSUME Inv, RowsInv, Relax
    PROVE  RowsInv'
<1> SUFFICES ASSUME kind # "serial2" PROVE RowsInv'
  BY DEF RowsInv, Relax
<1>0. doc \in Seq(Paragraph) /\ PreCalls \in Seq(Callback)
  BY DocType, CallsOfType DEF Inv, PreInv, Relax, PreCalls
<1>1. /\ kind' = kind /\ done' = done /\ out' = out /\ files' = files
      /\ pc = "pre" /\ pc' = "pre" /\ xpath = "section" /\ xpath' = "relaxed" /\ calls = <<>>
      /\ number_of_paragraphs' = number_of_paragraphs /\ paragraph_number' = paragraph_number
      /\ ~Found(doc, "section")
  BY DEF Relax
<1>2. /\ (\E S : out \in Seq(S)) /\ RowsOfAll(out, done) /\ Len(out) = From
      /\ kind = "ngrams" => paragraph_number = 0
  BY <1>1 DEF RowsInv
<1>3. (\E S : out \in Seq(S))' /\ RowsOfAll(out, done)' /\ From' = From
  BY <1>1, <1>2, OutKept
<1>4. ~Found(doc, "section")'
  BY <1>1, DocKept
<1> DEFINE cs == CallsOf(doc, "relaxed", "pre")
<1>5. cs \in Seq(Callback)
  BY <1>0, CallsOfType
<1>6. PreCalls' = cs /\ calls' = cs
  BY DEF Relax, PreCalls, CallsOf, Flags, doc
<1> HIDE DEF cs
<1>7. ASSUME kind = "ngrams" PROVE \E n \in Nat : CountInv(n)'
  <2>1. PICK n \in Nat : CountInv(n)
    BY <1>1, <1>7 DEF RowsInv
  <2>2. n = Len(PreCalls)
    BY <1>0, <1>1, <2>1, AllMade DEF CountInv
  <2>3. Len(PreCalls) = 1
    BY <1>1, <1>7, NullCall DEF PreCalls
  <2>4. number_of_paragraphs' = 0 + 1
    BY <1>1, <2>1, <2>2, <2>3 DEF CountInv
  <2>5. CountInv(0)'
    BY <1>1, <1>5, <1>6, <2>4, AllLeft DEF CountInv, Made
  <2>6. 0 \in Nat
    OBVIOUS
  <2> QED BY <2>5, <2>6
<1>8. Len(out') = From'
  BY <1>1, <1>2, <1>3
<1> QED BY <1>1, <1>2, <1>3, <1>4, <1>7, <1>8 DEF RowsInv

LEMMA InBetweenRows ==
    ASSUME Inv, RowsInv, InBetween
    PROVE  RowsInv'
<1> SUFFICES ASSUME kind # "serial2" PROVE RowsInv'
  BY DEF RowsInv, InBetween
<1>0. /\ doc \in Seq(Paragraph)
      /\ PreCalls \in Seq(Callback) /\ ProcessCalls \in Seq(Callback)
  BY DocType, CallsOfType DEF Inv, PreInv, InBetween, PreCalls, ProcessCalls
<1>1. /\ kind' = kind /\ done' = done /\ out' = out /\ files' = files
      /\ pc = "pre" /\ pc' = "process" /\ xpath' = xpath /\ calls = <<>> /\ calls' = ProcessCalls
      /\ number_of_paragraphs' = number_of_paragraphs /\ paragraph_number' = paragraph_number
      /\ xpath = "section" => Found(doc, "section")
      /\ xpath \in {"section", "relaxed"}
  BY DEF InBetween, ProcessCalls, Inv, Shape
<1>2. /\ (\E S : out \in Seq(S)) /\ RowsOfAll(out, done) /\ Len(out) = From
      /\ xpath = "relaxed" => ~Found(doc, "section")
      /\ kind = "ngrams" => paragraph_number = 0
  BY <1>1 DEF RowsInv
<1>3. (\E S : out \in Seq(S))' /\ RowsOfAll(out, done)' /\ From' = From
  BY <1>1, <1>2, OutKept
<1>4. xpath = Scope(doc)
  BY <1>1, <1>2 DEF Scope
<1>5. ASSUME kind = "ngrams", Found(doc, xpath) PROVE number_of_paragraphs = Told(doc)
  <2>1. PICK n \in Nat : CountInv(n)
    BY <1>1, <1>5 DEF RowsInv
  <2>2. n = Len(PreCalls)
    BY <1>0, <1>1, <2>1, AllMade DEF CountInv
  <2>3. Len(PreCalls) = Len(ProcessCalls)
    BY <1>0, <1>5, SameNumber DEF PreCalls, ProcessCalls
  <2>4. Paragraphs(doc) = ProcessCalls
    BY <1>4, <1>5 DEF Paragraphs, ProcessCalls
  <2>5. number_of_paragraphs = Len(ProcessCalls) + IF xpath = "relaxed" THEN 1 ELSE 0
    BY <2>1, <2>2, <2>3 DEF CountInv
  <2> QED BY <1>1, <1>2, <2>4, <2>5 DEF Told
<1>6. ReadInv(0)'
  <2>1. ProcessCalls' = ProcessCalls /\ SoFar(0)' = SoFar(0) /\ SoFar(0) = <<>>
    BY <1>1, CallsKept, SoFarKept, SoFarNone
  <2>2. Made(ProcessCalls, 0)'
    BY <1>0, <1>1, <2>1, AllLeft DEF Made
  <2>3. SoFar(0)' = <<>> /\ Len(<<>>) = 0 /\ DOMAIN <<>> = {}
    BY <2>1
  <2>4. RowsAt(out, From, doc, SoFar(0))'
    BY <2>3 DEF RowsAt
  <2>5. Len(out)' = From' + Len(SoFar(0)')
    <3>1. From \in Nat
      BY RowsShape
    <3> QED BY <1>1, <1>2, <1>3, <2>3, <3>1
  <2>6. kind' = "ngrams" => paragraph_number' = Len(SoFar(0)')
    BY <1>1, <1>2, <2>3
  <2> QED BY <2>2, <2>4, <2>5, <2>6 DEF ReadInv
<1>7. \E n \in Nat : ReadInv(n)'
  <2>1. 0 \in Nat
    OBVIOUS
  <2> QED BY <1>6, <2>1
<1>8. /\ xpath' = Scope(doc)'
      /\ kind' = "ngrams" /\ Found(doc, xpath)' => number_of_paragraphs' = Told(doc)'
  <2>1. Found(doc, xpath)' = Found(doc, xpath)
    BY <1>1, DocKept DEF Found, Selected
  <2>2. Scope(doc)' = Scope(doc) /\ Told(doc)' = Told(doc)
    BY <1>1, DocKept
  <2> QED BY <1>1, <1>4, <1>5, <2>1, <2>2
<1> QED BY <1>1, <1>3, <1>7, <1>8 DEF RowsInv

LEMMA FinishRows ==
    ASSUME Inv, RowsInv, Finish
    PROVE  RowsInv'
<1> SUFFICES ASSUME kind # "serial2" PROVE RowsInv'
  BY DEF RowsInv, Finish
<1>1. /\ kind' = kind /\ done' = Append(done, doc) /\ out' = out
      /\ pc = "process" /\ pc' = "idle" /\ calls = <<>>
  BY DEF Finish
<1>2. files # <<>> /\ done \in Seq(Seq(Paragraph))
  BY <1>1 DEF Inv, Shape, ProcessInv
<1>3. doc \in Seq(Paragraph) /\ ProcessCalls \in Seq(Callback) /\ From \in Nat
  BY <1>2, RowsShape
<1>4. (\E S : out \in Seq(S)) /\ RowsOfAll(out, done) /\ xpath = Scope(doc)
  BY <1>1 DEF RowsInv
<1>5. PICK n \in Nat : ReadInv(n)
  BY <1>1 DEF RowsInv
<1>6. n = Len(ProcessCalls)
  BY <1>1, <1>3, <1>5, AllMade DEF ReadInv
<1>7. SoFar(n) = WithRow(doc)
  BY <1>3, <1>4, <1>6, WholeDocument
<1>8. RowsAt(out, From, doc, WithRow(doc)) /\ Len(out) = From + Len(WithRow(doc))
  BY <1>5, <1>7 DEF ReadInv
<1>9. /\ RowsOfAll(out, Append(done, doc))
      /\ RowsOf(Append(done, doc), Len(done) + 2) = From + Len(WithRow(doc))
  BY <1>2, <1>3, <1>4, <1>8, RowsOfAllDone DEF From
<1>10. RowsOfAll(out, done)'
  BY <1>1, <1>9, RowsThen
<1>11. Len(out') = From'
  <2>1. Len(Append(done, doc)) + 1 = Len(done) + 2
    BY <1>2
  <2>2. From' = RowsOf(Append(done, doc), Len(done) + 2)
    BY <1>1, <2>1, RowsThen
  <2> QED BY <1>1, <1>8, <1>9, <2>2
<1>12. (\E S : out \in Seq(S))'
  BY <1>1, <1>4
<1> QED BY <1>1, <1>10, <1>11, <1>12 DEF RowsInv

\* The row that the next call makes
RowOf(c) ==
    CASE kind = "occurrence" -> OccurrenceRow(c)
      [] kind = "ngrams" -> GramRow(c, GramsFound(c.words))
      [] OTHER -> TfIdfRow(c)

\* The next call of the second pass makes a row if its paragraph should have one
LEMMA RowMade ==
    ASSUME Inv, Process, kind # "serial2", pc' = "process"
    PROVE  LET c == Head(calls)
           IN  /\ calls' = Tail(calls) /\ pc' = pc
               /\ out' = IF HasRow(c) THEN Append(out, RowOf(c)) ELSE out
               /\ kind = "ngrams" =>
                     paragraph_number' = paragraph_number + IF HasRow(c) THEN 1 ELSE 0
<1> DEFINE c == Head(calls)
<1>1. Missing(c.words) \cup Beyond(c.words) = {}
  BY DEF Process
<1>2. calls' = Tail(calls) /\ pc' = pc
  BY <1>1 DEF Process
<1>3. CASE kind = "ngrams"
  <2>1. c \in Callback /\ BINS = {}
    BY DEF Inv, Shape, Process
  <2>2. c.words \in Seq(Words)
    BY <2>1 DEF Callback
  <2>3. GramsFound(c.words) = {} <=> ~HasRow(c)
    BY <1>3, <2>1, <2>2, GramsNone DEF HasRow
  <2>4. RowOf(c) = GramRow(c, GramsFound(c.words))
    BY <1>3 DEF RowOf
  <2>5. /\ GramsFound(c.words) = {} => out' = out /\ paragraph_number' = paragraph_number
        /\ GramsFound(c.words) # {} =>
              /\ paragraph_number' = paragraph_number + 1
              /\ out' = Append(out, GramRow(c, GramsFound(c.words)))
    BY <1>1, <1>3 DEF Process
  <2>6. paragraph_number \in Nat
    BY DEF Inv, Shape
  <2>7. CASE HasRow(c)
    BY <1>2, <2>3, <2>4, <2>5, <2>7
  <2>8. CASE ~HasRow(c)
    <3>1. paragraph_number + 0 = paragraph_number
      BY <2>6
    <3> QED BY <1>2, <2>3, <2>5, <2>8, <3>1
  <2> QED BY <2>7, <2>8
<1>4. CASE kind # "ngrams"
  <2>1. (\E w \in ToSet(c.words) : HasBin(w)) <=> HasRow(c)
    BY <1>4 DEF HasRow, Binned
  <2>2. out' = IF HasRow(c)
               THEN Append(out, IF kind = "occurrence" THEN OccurrenceRow(c) ELSE TfIdfRow(c))
               ELSE out
    BY <1>1, <1>4, <2>1 DEF Process
  <2>3. RowOf(c) = IF kind = "occurrence" THEN OccurrenceRow(c) ELSE TfIdfRow(c)
    BY <1>4 DEF RowOf
  <2> QED BY <1>2, <1>4, <2>2, <2>3
<1> QED BY <1>3, <1>4

\* And the row is what it should be
LEMMA RowRight ==
    ASSUME Inv, RowsInv, Process, kind # "serial2", NEW n \in Nat, ReadInv(n),
           HasRow(ProcessCalls[n + 1])
    PROVE  IsRow(RowOf(ProcessCalls[n + 1]), doc, Len(SoFar(n)) + 1, n + 1)
<1>1. pc = "process" /\ calls # <<>>
  BY DEF Process
<1>2. files # <<>>
  BY <1>1 DEF Inv, ProcessInv
<1>3. /\ doc \in Seq(Paragraph) /\ ProcessCalls \in Seq(Callback)
      /\ kind \in {"tfidf", "occurrence", "ngrams", "serial"}
  BY <1>2, RowsShape
<1>4. Made(ProcessCalls, n)
  BY DEF ReadInv
<1>5. n + 1 \in 1 .. Len(ProcessCalls)
  BY <1>1, <1>3, <1>4, NextCall
<1>6. Found(doc, xpath) /\ xpath = Scope(doc)
  <2>1. xpath = Scope(doc)
    BY <1>1 DEF RowsInv
  <2> DEFINE k == n + 1
  <2>2. k \in 1 .. Len(ProcessCalls) /\ HasRow(ProcessCalls[k])
    BY <1>5
  <2> HIDE DEF k
  <2> QED BY <1>3, <2>1, <2>2, RowsFound
<1>7. Paragraphs(doc) = ProcessCalls
  BY <1>6 DEF Paragraphs, ProcessCalls
<1> DEFINE k == n + 1
           r == Len(SoFar(n)) + 1
<1>8. CASE kind \in {"tfidf", "serial"}
  <2>1. k \in 1 .. Len(ProcessCalls)
    BY <1>5
  <2>2. RowOf(ProcessCalls[k]) = TfIdfRow(ProcessCalls[k])
    BY <1>8 DEF RowOf
  <2> HIDE DEF k, r
  <2>3. IsRow(TfIdfRow(ProcessCalls[k]), doc, r, k)
    BY <1>1, <1>7, <1>8, <2>1, TfIdfRowRight
  <2> QED BY <2>2, <2>3 DEF k, r
<1>9. CASE kind = "occurrence"
  <2>1. PICK m \in Nat : Made(ProcessCalls, m) /\ DF_prime = Counted(ProcessCalls, m)
    BY <1>1, <1>9 DEF Inv, ProcessInv
  <2>2. m = n
    <3>1. m = Len(ProcessCalls) - Len(calls) /\ n = Len(ProcessCalls) - Len(calls)
      BY <1>3, <1>4, <2>1, RestCount DEF Made
    <3> QED BY <3>1
  <2>3. Occurring
    BY <1>1, <1>7, <1>9 DEF Occurring
  <2>4. n + 1 <= Len(ProcessCalls) /\ DF_prime = Counted(ProcessCalls, n)
    BY <1>3, <1>5, <2>1, <2>2
  <2> HIDE DEF r
  <2>5. IsRow(OccurrenceRow(ProcessCalls[n + 1]), doc, r, n + 1)
    BY <2>3, <2>4, OccurrenceRowRight
  <2> QED BY <1>9, <2>5 DEF RowOf, r
<1>10. CASE kind = "ngrams"
  <2>1. k \in 1 .. Len(ProcessCalls)
    BY <1>5
  <2>2. /\ number_of_paragraphs = Told(doc) /\ paragraph_number = Len(SoFar(n))
        /\ number_of_paragraphs \in Nat /\ paragraph_number \in Nat /\ BINS = {}
    BY <1>1, <1>6, <1>10 DEF RowsInv, ReadInv, Inv, Shape
  <2> HIDE DEF k
  <2>3. IsRow(GramRow(ProcessCalls[k], GramsFound(ProcessCalls[k].words)), doc,
              paragraph_number + 1, k)
    BY <1>3, <1>7, <1>10, <2>1, <2>2, GramRowRight
  <2>4. RowOf(ProcessCalls[k]) = GramRow(ProcessCalls[k], GramsFound(ProcessCalls[k].words))
    BY <1>10 DEF RowOf
  <2>5. IsRow(RowOf(ProcessCalls[k]), doc, Len(SoFar(n)) + 1, k)
    BY <2>2, <2>3, <2>4
  <2> QED BY <2>5 DEF k
<1> QED BY <1>3, <1>8, <1>9, <1>10

LEMMA ProcessRows ==
    ASSUME Inv, RowsInv, Process
    PROVE  RowsInv'
<1> SUFFICES ASSUME kind # "serial2" PROVE RowsInv'
  BY DEF RowsInv, Process
<1> SUFFICES ASSUME pc' = "process" PROVE RowsInv'
  <2>1. CASE pc' # "process"
    <3>1. pc' \in {"crashed", "undefined"} /\ UNCHANGED <<kind, done, out>>
      BY <2>1 DEF Process
    <3>2. (\E S : out \in Seq(S)) /\ RowsOfAll(out, done)
      BY DEF RowsInv
    <3>3. (\E S : out \in Seq(S))' /\ RowsOfAll(out, done)'
      BY <3>1, <3>2, OutKept
    <3> QED BY <3>1, <3>3 DEF RowsInv
  <2> QED BY <2>1
<1> DEFINE c == Head(calls)
<1>1. /\ kind' = kind /\ done' = done /\ files' = files /\ xpath' = xpath
      /\ number_of_paragraphs' = number_of_paragraphs /\ pc = "process" /\ calls # <<>>
  BY DEF Process
<1>2. /\ calls' = Tail(calls) /\ pc' = "process"
      /\ out' = IF HasRow(c) THEN Append(out, RowOf(c)) ELSE out
      /\ kind = "ngrams" => paragraph_number' = paragraph_number + IF HasRow(c) THEN 1 ELSE 0
  BY <1>1, RowMade
<1>3. files # <<>> /\ done \in Seq(Seq(Paragraph)) /\ paragraph_number \in Nat
  BY <1>1 DEF Inv, Shape, ProcessInv
<1>4. doc \in Seq(Paragraph) /\ ProcessCalls \in Seq(Callback) /\ From \in Nat
  BY <1>3, RowsShape
<1>5. /\ RowsOfAll(out, done) /\ xpath = Scope(doc)
      /\ kind = "ngrams" /\ Found(doc, xpath) => number_of_paragraphs = Told(doc)
  BY <1>1 DEF RowsInv
<1>6. PICK S : out \in Seq(S)
  BY DEF RowsInv
<1>7. PICK n \in Nat : ReadInv(n)
  BY <1>1 DEF RowsInv
<1>8. /\ n + 1 \in 1 .. Len(ProcessCalls) /\ c = ProcessCalls[n + 1]
      /\ IsRest(Tail(calls), ProcessCalls, n + 1)
  BY <1>1, <1>4, <1>7, NextCall DEF ReadInv
<1>9. /\ RowsAt(out, From, doc, SoFar(n)) /\ Len(out) = From + Len(SoFar(n))
      /\ kind = "ngrams" => paragraph_number = Len(SoFar(n))
  BY <1>7 DEF ReadInv
<1>10. SoFar(n) \in Seq(1 .. n) /\ Len(SoFar(n)) \in Nat
  BY SoFarShape
<1> DEFINE m == n + 1
\* Whatever the call does, its row, if any, is behind the right ones
<1>11. /\ \E T : out' \in Seq(T)
       /\ RowsOfAll(out', done)
       /\ RowsAt(out', From, doc, SoFar(m)) /\ Len(out') = From + Len(SoFar(m))
       /\ kind = "ngrams" => paragraph_number' = Len(SoFar(m))
  <2>1. CASE HasRow(c)
    <3> DEFINE row == RowOf(c)
    <3>1. out' = Append(out, row) /\ SoFar(m) = Append(SoFar(n), m)
      BY <1>2, <1>8, <2>1, SoFarStep
    <3>2. IsRow(row, doc, Len(SoFar(n)) + 1, m)
      <4>1. HasRow(ProcessCalls[n + 1])
        BY <1>8, <2>1
      <4>2. IsRow(RowOf(ProcessCalls[n + 1]), doc, Len(SoFar(n)) + 1, n + 1)
        BY <1>7, <4>1, RowRight
      <4> QED BY <1>8, <4>2
    <3>3. SoFar(n) \in Seq(1 .. m) /\ m \in 1 .. m /\ m \in Nat
      <4>1. \A k \in 1 .. n : k \in 1 .. m
        OBVIOUS
      <4> QED BY <1>10, <4>1, SeqOver
    <3> HIDE DEF row, m
    <3>4. Append(out, row) \in Seq(S \cup {row})
      BY <1>6, AppendRow
    <3>5. RowsOfAll(Append(out, row), done)
      BY <1>3, <1>5, <1>6, RowsOfAllAppend
    <3>6. /\ RowsAt(Append(out, row), From, doc, Append(SoFar(n), m))
          /\ Len(Append(out, row)) = From + Len(Append(SoFar(n), m))
      <4> DEFINE W  == 1 .. m
                 ks == SoFar(n)
                 r  == Len(SoFar(n)) + 1
      <4>1. ks \in Seq(W) /\ m \in W /\ IsRow(row, doc, r, m) /\ r = Len(ks) + 1
        BY <3>2, <3>3
      <4>2. RowsEnd(out, From, doc, ks)
        BY <1>9 DEF RowsEnd
      <4> HIDE DEF W, ks, r
      <4>3. RowsEnd(Append(out, row), From, doc, Append(ks, m))
        BY <1>4, <1>6, <4>1, <4>2, RowsAtMore
      <4> QED BY <4>3 DEF RowsEnd, ks
    <3>7. Len(Append(SoFar(n), m)) = Len(SoFar(n)) + 1
      BY <3>3
    <3>8. kind = "ngrams" => paragraph_number' = Len(SoFar(n)) + 1
      BY <1>2, <1>9, <2>1
    <3> QED BY <3>1, <3>4, <3>5, <3>6, <3>7, <3>8
  <2>2. CASE ~HasRow(c)
    <3>1. out' = out /\ SoFar(m) = SoFar(n)
      BY <1>2, <1>8, <2>2, SoFarStep
    <3>2. kind = "ngrams" => paragraph_number' = Len(SoFar(n))
      BY <1>2, <1>3, <1>9, <2>2
    <3> QED BY <1>5, <1>6, <1>9, <3>1, <3>2
  <2> QED BY <2>1, <2>2
<1>12. /\ From' = From /\ SoFar(m)' = SoFar(m) /\ ProcessCalls' = ProcessCalls
       /\ doc' = doc /\ Scope(doc)' = Scope(doc) /\ Told(doc)' = Told(doc)
       /\ Found(doc, xpath)' = Found(doc, xpath)
  <2>1. From' = From
    BY <1>1, RowsThen DEF From
  <2>2. SoFar(m)' = SoFar(m) /\ ProcessCalls' = ProcessCalls
    BY <1>1, SoFarKept, CallsKept
  <2>3. doc' = doc /\ Scope(doc)' = Scope(doc) /\ Told(doc)' = Told(doc)
    BY <1>1, DocKept
  <2>4. Found(doc, xpath)' = Found(doc, xpath)
    BY <1>1, <2>3 DEF Found, Selected
  <2> QED BY <2>1, <2>2, <2>3, <2>4
<1>13. RowsOfAll(out, done)'
  BY <1>1, <1>11, RowsThen
<1>14. RowsAt(out, From, doc, SoFar(m))'
  BY <1>1, <1>11, <1>12, RowsOfKept
<1>15. Made(ProcessCalls, m)'
  BY <1>2, <1>8, <1>12 DEF Made
<1>16. ReadInv(m)'
  BY <1>1, <1>11, <1>12, <1>14, <1>15 DEF ReadInv
<1>17. \E k \in Nat : ReadInv(k)'
  <2>1. m \in Nat
    OBVIOUS
  <2> HIDE DEF m
  <2> QED BY <1>16, <2>1
<1>18. (\E T : out \in Seq(T))'
  BY <1>11
<1> QED BY <1>1, <1>2, <1>5, <1>12, <1>13, <1>17, <1>18 DEF RowsInv

-----------------------------------------------------------------------------
(* What follows for the rows. *)

LEMMA RowsHold ==
    Spec => [](Inv /\ RowsInv)
<1>1. Inv /\ RowsInv /\ [Next]_vars => RowsInv'
  <2> SUFFICES ASSUME Inv, RowsInv, [Next]_vars PROVE RowsInv'
    OBVIOUS
  <2>1. CASE UNCHANGED vars
    <3> SUFFICES ASSUME kind # "serial2" PROVE RowsInv'
      BY <2>1 DEF RowsInv, vars
    <3>1. /\ UNCHANGED <<kind, done, out>> /\ UNCHANGED <<kind, files>> /\ UNCHANGED <<kind, files, xpath>>
          /\ calls' = calls /\ pc' = pc /\ xpath' = xpath
          /\ number_of_paragraphs' = number_of_paragraphs /\ paragraph_number' = paragraph_number
      BY <2>1 DEF vars
    <3>2. (\E S : out \in Seq(S)) /\ RowsOfAll(out, done)
      BY DEF RowsInv
    <3>3. (\E S : out \in Seq(S))' /\ RowsOfAll(out, done)' /\ From' = From
      BY <3>1, <3>2, OutKept
    <3>4. /\ doc' = doc /\ Scope(doc)' = Scope(doc) /\ Told(doc)' = Told(doc)
          /\ Found(doc, "section")' = Found(doc, "section")
          /\ Found(doc, xpath)' = Found(doc, xpath)
      <4>1. Found(doc, xpath)' = Found(doc, xpath)
        BY <3>1, DocKept DEF Found, Selected
      <4> QED BY <3>1, <4>1, DocKept
    <3>5. PreCalls' = PreCalls /\ ProcessCalls' = ProcessCalls /\ \A n : SoFar(n)' = SoFar(n)
      BY <3>1, CallsKept, SoFarKept
    <3>6. \A n \in Nat : CountInv(n) => CountInv(n)'
      BY <3>1, <3>5 DEF CountInv, Made
    <3>7. ASSUME NEW n \in Nat, ReadInv(n) PROVE ReadInv(n)'
      <4>1. RowsAt(out, From, doc, SoFar(n))'
        <5>1. RowsAt(out, From, doc, SoFar(n))
          BY <3>7 DEF ReadInv
        <5> QED BY <3>1, <3>3, <3>4, <3>5, <5>1, RowsOfKept
      <4> QED BY <3>1, <3>3, <3>5, <3>7, <4>1 DEF ReadInv, Made
    <3>8. pc \in {"idle", "pre"} => Len(out') = From'
      BY <3>1, <3>3 DEF RowsInv
    <3>9. pc = "pre" =>
             /\ xpath = "relaxed" => ~Found(doc, "section")'
             /\ kind = "ngrams" => paragraph_number' = 0 /\ \E n \in Nat : CountInv(n)'
      BY <3>1, <3>4, <3>6 DEF RowsInv
    <3>10. pc = "process" =>
             /\ xpath' = Scope(doc)'
             /\ kind = "ngrams" /\ Found(doc, xpath)' => number_of_paragraphs' = Told(doc)'
             /\ \E n \in Nat : ReadInv(n)'
      BY <3>1, <3>4, <3>7 DEF RowsInv
    <3> QED BY <3>1, <3>3, <3>8, <3>9, <3>10 DEF RowsInv
  <2> QED BY <2>1, LoadRows, PreProcessRows, RelaxRows, InBetweenRows, ProcessRows, FinishRows
          DEF Next
<1> QED BY InvHolds, InitRows, <1>1, PTL DEF Spec

\* The invariant RowsRight of Features, for all documents, words, and tables of words
\* and n-grams: the rows that parallel_libsvm_input.c, parallel_libsvm_input_occurence.c,
\* parallel_libsvm_ngrams_extended.c and gen_libsvm_input.c write are those of the
\* paragraphs of the documents read, in order; every number in a row can be told from
\* its document and the tables alone, so that no count of an earlier document, paragraph
\* or pass is in it; the numbers of the features ascend.  The passes of
\* gen_libsvm_input_2.c bring words into different forms, and it may read a count that is
\* not there: nothing is claimed of it.
THEOREM RowsAreRight ==
    Spec => [](kind # "serial2" => RowsRight)
<1>1. ASSUME Inv, RowsInv, kind # "serial2", pc = "idle"
      PROVE  /\ Len(out) = RowsBefore(Len(done) + 1)
             /\ \A n \in DOMAIN done : \A r \in DOMAIN WithRow(done[n]) :
                   IsRow(out[RowsBefore(n) + r], done[n], r, WithRow(done[n])[r])
  <2>1. \A n : RowsBefore(n) = RowsOf(done, n)
    BY DEF RowsBefore, RowsOf
  <2>2. Len(out) = From /\ RowsOfAll(out, done)
    BY <1>1 DEF RowsInv
  <2> QED BY <2>1, <2>2 DEF From, RowsOfAll, RowsAt
<1>2. Inv /\ RowsInv => (kind # "serial2" => RowsRight)
  BY <1>1 DEF RowsRight
<1> QED BY RowsHold, <1>2, PTL
=============================================================================
