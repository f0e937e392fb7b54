------------------------- MODULE CorpusTasksProofs -------------------------
(***************************************************************************)
(* Theorems about CorpusTasks: for directories with any number of files,   *)
(* documents of any length, any words and any flow of tasks.               *)
(***************************************************************************)
EXTENDS CorpusTasks, LoaderFacts, TLAPS

-----------------------------------------------------------------------------
(* The calls of a pass. *)

LEMMA CallsOfType ==
    ASSUME NEW d \in Seq(Paragraph), NEW x
    PROVE  CallsOf(d, x) \in Seq(Callback)
<1>1. CASE kind \notin Serial
  BY <1>1, CallsType DEF CallsOf
<1>2. CASE kind \in Serial
  <2> DEFINE nodes == Nodes(d, x)
             Text(k) == IF kind = "tf_idf" THEN OnlyContent(d[nodes[k]]) ELSE d[nodes[k]]
             Call(k) == [words |-> WordsOf(Text(k), Flags), node |-> nodes[k]]
  <2>1. nodes \in Seq(1 .. Len(d)) /\ Len(d) \in Nat
    BY NodesType
  <2>2. CallsOf(d, x) = [k \in DOMAIN nodes |-> Call(k)]
    BY <1>2 DEF CallsOf
  <2> HIDE DEF nodes
  <2>3. ASSUME NEW k \in DOMAIN nodes PROVE Call(k) \in Callback
    <3>1. nodes[k] \in 1 .. Len(d) /\ nodes[k] \in Nat
      BY <2>1
    <3> DEFINE p == d[nodes[k]]
               q == OnlyContent(p)
    <3>2. p \in Paragraph
      BY <3>1
    <3>3. p.sentences \in Seq(Seq(Words)) /\ "sentences" \in DOMAIN p
      BY <3>2 DEF Paragraph
    <3> HIDE DEF p
    <3>4. q.sentences = [i \in DOMAIN p.sentences |-> Among(p.sentences[i], Content)]
      BY <3>3 DEF OnlyContent
    <3>5. ASSUME NEW i \in DOMAIN p.sentences
          PROVE  Among(p.sentences[i], Content) \in Seq(Words)
      <4>1. p.sentences[i] \in Seq(Words)
        BY <3>3
      <4> QED BY <4>1, AmongType
    <3>6. DOMAIN p.sentences = 1 .. Len(p.sentences) /\ Len(p.sentences) \in Nat
      BY <3>3
    <3> HIDE DEF q
    <3>7. q.sentences \in Seq(Seq(Words))
      BY <3>4, <3>5, <3>6
    <3>8. WordsOf(Text(k), Flags) \in Seq(Words)
      <4>1. Text(k) = IF kind = "tf_idf" THEN q ELSE p
        BY DEF q, p
      <4>2. Text(k).sentences \in Seq(Seq(Words))
        BY <3>3, <3>7, <4>1
      <4> HIDE DEF Text
      <4> QED BY <4>2, WordsOfType
    <3> HIDE DEF Text
    <3> QED BY <3>1, <3>8 DEF Callback
  <2>4. DOMAIN nodes = 1 .. Len(nodes) /\ Len(nodes) \in Nat
    BY <2>1
  <2> HIDE DEF Call
  <2> QED BY <2>2, <2>3, <2>4
<1> QED BY <1>1, <1>2

\* Where there is no paragraph to select there is no word
LEMMA NoWordsFound ==
    ASSUME NEW d \in Seq(Paragraph), NEW x, ~Found(d, x), NEW k \in 1 .. Len(CallsOf(d, x))
    PROVE  CallsOf(d, x)[k].words = <<>>
<1>1. Selected(d, x) = {}
  BY DEF Found
<1>2. CASE kind \notin Serial
  <2>1. CallsOf(d, x) = <<[words |-> <<>>, node |-> 0]>>
    BY <1>1, <1>2 DEF CallsOf, Calls
  <2> QED BY <2>1
<1>3. CASE kind \in Serial
  <2>1. Nodes(d, x) \in Seq({})
    <3>1. {} \in SUBSET (1 .. 0)
      OBVIOUS
    <3> QED BY <1>1, <3>1, InOrderType DEF Nodes
  <2>2. DOMAIN Nodes(d, x) = {}
    BY <2>1
  <2>3. DOMAIN CallsOf(d, x) = {}
    BY <1>3, <2>2 DEF CallsOf
  <2>4. k \in DOMAIN CallsOf(d, x)
    <3>1. CallsOf(d, x) \in Seq(Callback)
      BY CallsOfType
    <3> DEFINE cs == CallsOf(d, x)
    <3> HIDE DEF cs
    <3>2. k \in DOMAIN cs
      BY <3>1 DEF cs
    <3> QED BY <3>2 DEF cs
  <2> QED BY <2>3, <2>4
<1> QED BY <1>2, <1>3

-----------------------------------------------------------------------------
(* The walk. *)

\* The calls of the current pass, and how many have been made
CallsNow == CallsOf(entry.doc, xpath)
made     == Len(CallsNow) - Len(calls)

InDocument ==
    /\ entries # <<>> /\ entry.type = "file"
    /\ kind \in Serial => Found(entry.doc, "relaxed")
    /\ kind \in Serial /\ xpath = "section" => Found(entry.doc, "section")
    /\ xpath = "relaxed" => ~Found(entry.doc, "section")
    /\ IsRest(calls, CallsNow, made)

Walk ==
    /\ kind \in Kinds \cup {"rnnlm"}
    /\ entries \in Seq(Entry) /\ done \in Seq(Entry)
    /\ done \o entries \in Corpora /\ counted \in Corpora \cup {<<>>}
    /\ pc \in {"walk", "document", "end"} /\ xpath \in {"section", "relaxed"}
    /\ calls \in Seq(Callback)
    /\ FILE_COUNTER = Len(Files) + IF pc = "document" THEN 1 ELSE 0
    /\ pc = "document" => InDocument
    /\ pc # "document" => calls = <<>>
    /\ pc = "end" => entries = <<>>

\* One element more in a sequence some elements of which are picked
LEMMA PickedNext ==
    ASSUME NEW W, NEW s \in Seq(W), NEW e \in W, NEW S \in SUBSET (1 .. Len(s))
    PROVE  /\ Picked(Append(s, e), S) = Picked(s, S)
           /\ Picked(Append(s, e), S \cup {Len(s) + 1}) = Append(Picked(s, S), e)
<1> DEFINE t == Append(s, e)
<1>1. /\ Len(s) \in Nat /\ t \in Seq(W) /\ Len(t) = Len(s) + 1 /\ t[Len(s) + 1] = e
      /\ \A i \in 1 .. Len(s) : t[i] = s[i]
  OBVIOUS
<1> HIDE DEF t
<1>2. Picked(t, S) = Picked(s, S)
  <2>1. \A i \in S : t[i] = s[i]
    BY <1>1
  <2> QED BY <1>1, <2>1, PickedSame
<1>3. Picked(t, S \cup {Len(s) + 1}) = Append(Picked(t, S), t[Len(s) + 1])
  BY <1>1, PickedAppend
<1> QED BY <1>1, <1>2, <1>3 DEF t

FilesOf(s) == Picked(s, {i \in DOMAIN s : s[i].type = "file"})

LEMMA FilesAppend ==
    ASSUME NEW s \in Seq(Entry), NEW e \in Entry
    PROVE  FilesOf(Append(s, e)) = IF e.type = "file" THEN Append(FilesOf(s), e) ELSE FilesOf(s)
<1> DEFINE S == {i \in DOMAIN s : s[i].type = "file"}
           t == Append(s, e)
           T == {i \in DOMAIN t : t[i].type = "file"}
<1>1. Len(s) \in Nat /\ DOMAIN s = 1 .. Len(s) /\ S \in SUBSET (1 .. Len(s))
  OBVIOUS
<1>2. /\ DOMAIN t = 1 .. Len(s) + 1 /\ t[Len(s) + 1] = e
      /\ \A i \in 1 .. Len(s) : t[i] = s[i]
  OBVIOUS
<1> HIDE DEF t
<1>3. T = IF e.type = "file" THEN S \cup {Len(s) + 1} ELSE S
  BY <1>1, <1>2
<1> HIDE DEF S, T
<1>4. /\ Picked(t, S) = Picked(s, S)
      /\ Picked(t, S \cup {Len(s) + 1}) = Append(Picked(s, S), e)
  BY <1>1, PickedNext DEF t
<1>5. Picked(t, T) = IF e.type = "file" THEN Append(Picked(s, S), e) ELSE Picked(s, S)
  BY <1>3, <1>4
<1> QED BY <1>5 DEF FilesOf, S, T, t

LEMMA FilesType ==
    ASSUME NEW s \in Seq(Entry)
    PROVE  FilesOf(s) \in Seq(Entry) /\ Len(FilesOf(s)) \in Nat
<1>1. {i \in DOMAIN s : s[i].type = "file"} \in SUBSET (1 .. Len(s))
  OBVIOUS
<1>2. FilesOf(s) \in Seq(Entry)
  BY <1>1, PickedType DEF FilesOf
<1> QED BY <1>2

LEMMA FilesAreThoseOf == Files = FilesOf(done) /\ Files' = FilesOf(done')
BY DEF Files, FilesOf

LEMMA NextEntry ==
    ASSUME Walk, entries # <<>>
    PROVE  /\ entry \in Entry /\ entry.doc \in Seq(Paragraph)
           /\ Tail(entries) \in Seq(Entry) /\ Append(done, entry) \in Seq(Entry)
           /\ Append(done, entry) \o Tail(entries) = done \o entries
<1>1. entries \in Seq(Entry) /\ done \in Seq(Entry)
  BY DEF Walk
<1>2. /\ entry \in Entry
      /\ Tail(entries) \in Seq(Entry) /\ Append(done, entry) \in Seq(Entry)
      /\ Append(done, entry) \o Tail(entries) = done \o entries
  BY <1>1 DEF entry
<1>3. entry.doc \in Seq(Paragraph)
  BY <1>2 DEF Entry
<1> QED BY <1>2, <1>3

LEMMA CallsNowType ==
    ASSUME Walk, pc = "document"
    PROVE  CallsNow \in Seq(Callback) /\ made \in 0 .. Len(CallsNow)
<1>1. CallsNow \in Seq(Callback)
  BY NextEntry, CallsOfType DEF Walk, InDocument, CallsNow
<1>2. IsRest(calls, CallsNow, made)
  BY DEF Walk, InDocument
<1> QED BY <1>1, <1>2 DEF IsRest

-----------------------------------------------------------------------------
(* What steps do to the walk. *)

\* A call is made
Called == CountNgrams \/ CountWords \/ WriteLine \/ WriteSentences

LEMMA CalledFacts ==
    ASSUME Walk, Called
    PROVE  /\ pc = "document" /\ pc' = pc /\ calls # <<>>
           /\ kind' = kind /\ entries' = entries /\ done' = done /\ xpath' = xpath
           /\ counted' = counted /\ FILE_COUNTER' = FILE_COUNTER /\ corpus_size' = corpus_size
           /\ CF' = CF /\ documents' = documents /\ result' = result
           /\ calls' = Tail(calls)
           /\ CallsNow' = CallsNow /\ made' = made + 1
           /\ made + 1 \in 1 .. Len(CallsNow) /\ Head(calls) = CallsNow[made + 1]
           /\ IsRest(calls', CallsNow, made + 1)
<1>1. /\ pc = "document" /\ pc' = pc /\ calls # <<>>
      /\ kind' = kind /\ entries' = entries /\ done' = done /\ xpath' = xpath
      /\ counted' = counted /\ FILE_COUNTER' = FILE_COUNTER /\ corpus_size' = corpus_size
      /\ CF' = CF /\ documents' = documents /\ result' = result
      /\ calls' = Tail(calls)
  BY DEF Called, CountNgrams, CountWords, WriteLine, WriteSentences
<1>2. CallsNow' = CallsNow
  BY <1>1 DEF CallsNow, CallsOf, Flags, entry
<1>3. CallsNow \in Seq(Callback) /\ made \in 0 .. Len(CallsNow) /\ made \in Nat
  BY <1>1, CallsNowType
<1>4. IsRest(calls, CallsNow, made)
  BY <1>1 DEF Walk, InDocument
<1>5. /\ made + 1 \in 1 .. Len(CallsNow) /\ Head(calls) = CallsNow[made + 1]
      /\ IsRest(calls', CallsNow, made + 1)
  <2> DEFINE cs == CallsNow
             n  == made
  <2>1. cs \in Seq(Callback) /\ n \in Nat /\ IsRest(calls, cs, n)
    BY <1>3, <1>4
  <2> HIDE DEF cs, n
  <2>2. n + 1 \in 1 .. Len(cs) /\ Head(calls) = cs[n + 1] /\ IsRest(calls', cs, n + 1)
    BY <1>1, <2>1, NextOfRest
  <2> QED BY <2>2 DEF cs, n
<1>6. made' = made + 1
  <2>1. made' = Len(CallsNow) - Len(calls')
    BY <1>2 DEF made
  <2>2. made + 1 \in Nat
    BY <1>3
  <2>3. made + 1 = Len(CallsNow) - Len(calls')
    BY <1>3, <1>5, <2>2, RestCount
  <2> QED BY <2>1, <2>3
<1> QED BY <1>1, <1>2, <1>5, <1>6

LEMMA OpenFacts ==
    ASSUME Walk, Open
    PROVE  /\ pc = "walk" /\ pc' = "document" /\ calls' = CallsNow' /\ made' = 0
           /\ kind' = kind /\ entries' = entries /\ done' = done /\ entry' = entry
           /\ entry.doc \in Seq(Paragraph) /\ entry.type = "file" /\ entries # <<>>
           /\ CallsNow' \in Seq(Callback)
<1>1. /\ pc = "walk" /\ pc' = "document" /\ entry' = entry /\ entries # <<>>
      /\ kind' = kind /\ entries' = entries /\ done' = done /\ entry.type = "file"
  BY DEF Open, entry
<1>2. entry.doc \in Seq(Paragraph)
  BY <1>1, NextEntry
<1>3. calls' = CallsOf(entry.doc, xpath')
  BY DEF Open
<1>4. CallsNow' = CallsOf(entry.doc, xpath')
  BY <1>1 DEF CallsNow, CallsOf, Flags
<1>5. CallsOf(entry.doc, xpath') \in Seq(Callback)
  BY <1>2, CallsOfType
<1>6. made' = 0
  <2> DEFINE cs == CallsOf(entry.doc, xpath')
  <2>1. made' = Len(cs) - Len(cs)
    BY <1>3, <1>4 DEF made
  <2>2. Len(cs) \in Nat
    BY <1>5
  <2> HIDE DEF cs
  <2> QED BY <2>1, <2>2
<1> QED BY <1>1, <1>2, <1>3, <1>4, <1>5, <1>6

\* Nothing found in a section, and the tasks without code of their own try once more
LEMMA RelaxFacts ==
    ASSUME Walk, Relax
    PROVE  /\ pc = "document" /\ pc' = "document" /\ calls' = CallsNow' /\ made' = 0
           /\ kind' = kind /\ kind \notin Serial /\ entries' = entries /\ done' = done
           /\ FILE_COUNTER' = FILE_COUNTER /\ UNCHANGED tables /\ result' = result
           /\ xpath' = "relaxed" /\ entry.doc \in Seq(Paragraph)
           /\ CallsNow' \in Seq(Callback)
           /\ made = Len(CallsNow)
           /\ \A k \in 1 .. Len(CallsNow) : CallsNow[k].words = <<>>
<1>1. /\ pc = "document" /\ pc' = "document" /\ kind' = kind /\ kind \notin Serial
      /\ entries' = entries /\ done' = done /\ calls = <<>> /\ xpath = "section"
      /\ FILE_COUNTER' = FILE_COUNTER /\ UNCHANGED tables /\ result' = result
      /\ xpath' = "relaxed" /\ calls' = CallsOf(entry.doc, "relaxed")
      /\ ~Found(entry.doc, xpath)
  BY DEF Relax
<1>2. entry.doc \in Seq(Paragraph)
  BY <1>1, NextEntry DEF Walk, InDocument
<1>3. CallsNow' = CallsOf(entry.doc, "relaxed")
  BY <1>1 DEF CallsNow, CallsOf, Flags, entry
<1>4. CallsOf(entry.doc, "relaxed") \in Seq(Callback)
  BY <1>2, CallsOfType
<1>5. made' = 0
  <2> DEFINE cs == CallsOf(entry.doc, "relaxed")
  <2>1. made' = Len(cs) - Len(cs)
    BY <1>1, <1>3 DEF made
  <2>2. Len(cs) \in Nat
    BY <1>4
  <2> HIDE DEF cs
  <2> QED BY <2>1, <2>2
<1>6. made = Len(CallsNow)
  <2>1. CallsNow \in Seq(Callback) /\ made \in Nat
    BY <1>1, CallsNowType
  <2>2. IsRest(<<>>, CallsNow, made)
    BY <1>1 DEF Walk, InDocument
  <2> QED BY <2>1, <2>2, NothingLeft
<1>7. \A k \in 1 .. Len(CallsNow) : CallsNow[k].words = <<>>
  BY <1>1, <1>2, NoWordsFound DEF CallsNow
<1> QED BY <1>1, <1>2, <1>3, <1>4, <1>5, <1>6, <1>7

\* When a document is closed all its calls have been made, those of Paragraphs
LEMMA CloseFacts ==
    ASSUME Walk, Close
    PROVE  /\ pc = "document" /\ pc' = "walk" /\ kind' = kind
           /\ entries' = Tail(entries) /\ done' = Append(done, entry)
           /\ calls' = <<>> /\ made = Len(CallsNow) /\ CallsNow = Paragraphs(entry.doc)
           /\ entry.type = "file" /\ entries # <<>> /\ Files' = Append(Files, entry)
           /\ entry \in Entry
<1>1. /\ pc = "document" /\ pc' = "walk" /\ kind' = kind
      /\ entries' = Tail(entries) /\ done' = Append(done, entry)
      /\ calls = <<>> /\ calls' = calls
      /\ xpath = "section" => Found(entry.doc, "section")
  BY DEF Close
<1>2. /\ entries # <<>> /\ entry.type = "file" /\ IsRest(calls, CallsNow, made)
      /\ xpath = "relaxed" => ~Found(entry.doc, "section")
      /\ xpath \in {"section", "relaxed"} /\ done \in Seq(Entry)
  BY <1>1 DEF Walk, InDocument
<1>3. made = Len(CallsNow)
  <2>1. CallsNow \in Seq(Callback) /\ made \in Nat
    BY <1>1, CallsNowType
  <2> QED BY <1>1, <1>2, <2>1, NothingLeft
<1>4. xpath = Scope(entry.doc)
  BY <1>1, <1>2 DEF Scope
<1>5. CallsNow = Paragraphs(entry.doc)
  BY <1>4 DEF CallsNow, Paragraphs
<1>6. entry \in Entry
  BY <1>2, NextEntry
<1>7. FilesOf(Append(done, entry)) = Append(FilesOf(done), entry)
  BY <1>2, <1>6, FilesAppend
<1>8. Files' = Append(Files, entry)
  BY <1>1, <1>7, FilesAreThoseOf
<1> QED BY <1>1, <1>2, <1>3, <1>5, <1>6, <1>8

\* A directory, or to the serial tasks a file without content
LEMMA SkipFacts ==
    ASSUME Walk, Skip
    PROVE  /\ pc = "walk" /\ pc' = pc /\ kind' = kind /\ entries # <<>>
           /\ entries' = Tail(entries) /\ done' = Append(done, entry) /\ entry \in Entry
           /\ UNCHANGED tables /\ calls' = calls /\ result' = result
           /\ entry.type = "directory" \/ (kind \in Serial /\ ~Found(entry.doc, "relaxed"))
           /\ Files' = IF entry.type = "file" THEN Append(Files, entry) ELSE Files
           /\ entry.type \in {"directory", "file"}
<1>1. /\ pc = "walk" /\ pc' = pc /\ kind' = kind /\ entries # <<>>
      /\ entries' = Tail(entries) /\ done' = Append(done, entry)
      /\ UNCHANGED tables /\ calls' = calls /\ result' = result
      /\ entry.type = "directory" \/ (kind \in Serial /\ ~Found(entry.doc, "relaxed"))
  BY DEF Skip, IsEmpty
<1>2. entry \in Entry /\ done \in Seq(Entry)
  BY <1>1, NextEntry DEF Walk
<1>3. Files' = IF entry.type = "file" THEN Append(Files, entry) ELSE Files
  BY <1>1, <1>2, FilesAppend, FilesAreThoseOf
<1>4. entry.type \in {"directory", "file"}
  BY <1>2 DEF Entry
<1> QED BY <1>1, <1>2, <1>3, <1>4

LEMMA WalkInit ==
    ASSUME Init
    PROVE  Walk
<1>1. Corpora \subseteq Seq(Entry) /\ entries \in Corpora
  BY CorpusAssumption DEF Init
<1>2. entries \in Seq(Entry) /\ <<>> \o entries = entries
  BY <1>1
<1>3. Files = <<>>
  <2>1. {i \in DOMAIN <<>> : <<>>[i].type = "file"} = {}
    OBVIOUS
  <2> QED BY <2>1, PickedNothing DEF Init, Files
<1>4. Len(Files) = 0
  BY <1>3
<1> QED BY <1>2, <1>4 DEF Init, Walk

LEMMA WalkStep ==
    ASSUME Walk, Next
    PROVE  Walk'
<1>0. Len(Files) \in Nat
  BY FilesType, FilesAreThoseOf DEF Walk
<1>1. CASE Skip
  <2>1. FILE_COUNTER' = FILE_COUNTER + (IF entry.type = "file" THEN 1 ELSE 0) /\ xpath' = xpath
    BY <1>1 DEF Skip
  <2>2. Len(Files') = Len(Files) + IF entry.type = "file" THEN 1 ELSE 0
    <3>1. Files \in Seq(Entry) /\ entry \in Entry
      BY <1>1, SkipFacts, FilesType, FilesAreThoseOf DEF Walk
    <3>2. Files' = IF entry.type = "file" THEN Append(Files, entry) ELSE Files
      BY <1>1, SkipFacts
    <3> QED BY <1>0, <3>1, <3>2
  <2>3. FILE_COUNTER' = Len(Files')
    <3>1. FILE_COUNTER = Len(Files)
      BY <1>0, <1>1, SkipFacts DEF Walk
    <3>2. CASE entry.type = "file"
      BY <2>1, <2>2, <3>1, <3>2
    <3>3. CASE entry.type # "file"
      BY <1>0, <2>1, <2>2, <3>1, <3>3
    <3> QED BY <3>2, <3>3
  <2>4. counted' = counted
    BY <1>1, SkipFacts DEF tables
  <2>5. done' \in Seq(Entry) /\ entries' \in Seq(Entry) /\ done' \o entries' \in Corpora
    BY <1>1, SkipFacts, NextEntry DEF Walk
  <2>6. pc' = "walk" /\ kind' = kind /\ calls' = calls
    BY <1>1, SkipFacts
  <2>7. calls' = <<>>
    BY <1>1, <2>6, SkipFacts DEF Walk
  <2>8. Len(Files') \in Nat
    BY <1>0, <2>2
  <2>9. FILE_COUNTER' = Len(Files') + IF pc' = "document" THEN 1 ELSE 0
    BY <2>3, <2>6, <2>8
  <2>10. kind' \in Kinds \cup {"rnnlm"} /\ xpath' \in {"section", "relaxed"}
         /\ counted' \in Corpora \cup {<<>>} /\ calls' \in Seq(Callback)
    BY <2>1, <2>4, <2>6, <2>7 DEF Walk
  <2> QED BY <2>5, <2>6, <2>7, <2>9, <2>10 DEF Walk
<1>2. CASE Open
  <2>1. /\ FILE_COUNTER' = FILE_COUNTER + 1 /\ counted' = counted
        /\ xpath' = IF kind \in Serial /\ ~Found(entry.doc, "section") THEN "relaxed" ELSE "section"
        /\ ~IsEmpty
    BY <1>2 DEF Open
  <2>2. IsRest(calls', CallsNow', made')
    BY <1>2, OpenFacts, AllLeft
  <2>3. InDocument'
    <3>1. /\ entries' # <<>> /\ entry'.type = "file" /\ entry' = entry /\ kind' = kind
      BY <1>2, OpenFacts
    <3>2. kind \in Serial => Found(entry.doc, "relaxed")
      BY <2>1 DEF IsEmpty
    <3>3. /\ kind \in Serial /\ xpath' = "section" => Found(entry.doc, "section")
          /\ xpath' = "relaxed" => ~Found(entry.doc, "section")
      BY <2>1
    <3> QED BY <2>2, <3>1, <3>2, <3>3 DEF InDocument
  <2>4. Files' = Files
    BY <1>2, OpenFacts DEF Files
  <2>5. FILE_COUNTER' = Len(Files') + 1
    BY <1>0, <1>2, <2>1, <2>4, OpenFacts DEF Walk
  <2> QED BY <1>2, <2>1, <2>3, <2>5, OpenFacts DEF Walk
<1>3. CASE Called
  <2>1. Files' = Files
    BY <1>3, CalledFacts DEF Files
  <2>2. InDocument'
    <3>1. entry' = entry
      BY <1>3, CalledFacts DEF entry
    <3>2. IsRest(calls', CallsNow', made')
      BY <1>3, CalledFacts
    <3> QED BY <1>3, <3>1, <3>2, CalledFacts DEF Walk, InDocument
  <2>3. Tail(calls) \in Seq(Callback)
    <3>1. calls # <<>> /\ calls \in Seq(Callback)
      BY <1>3, CalledFacts DEF Walk
    <3> QED BY <3>1
  <2>4. calls' \in Seq(Callback)
    BY <1>3, <2>3, CalledFacts
  <2> QED BY <1>3, <2>1, <2>2, <2>4, CalledFacts DEF Walk
<1>4. CASE Relax
  <2>1. Files' = Files /\ entry' = entry
    BY <1>4, RelaxFacts DEF Files, entry
  <2>2. IsRest(calls', CallsNow', made')
    BY <1>4, RelaxFacts, AllLeft
  <2>3. ~Found(entry.doc, "section")
    BY <1>4 DEF Relax
  <2>4. InDocument'
    BY <1>4, <2>1, <2>2, <2>3, RelaxFacts DEF Walk, InDocument
  <2>5. counted' = counted
    BY <1>4, RelaxFacts DEF tables
  <2> QED BY <1>4, <2>1, <2>4, <2>5, RelaxFacts DEF Walk
<1>5. CASE Close
  <2>1. Len(Files') = Len(Files) + 1
    <3>1. Files \in Seq(Entry) /\ entry \in Entry
      BY <1>5, CloseFacts, FilesType, FilesAreThoseOf DEF Walk
    <3> QED BY <1>5, <3>1, CloseFacts
  <2>2. FILE_COUNTER' = FILE_COUNTER /\ counted' = counted /\ xpath' = xpath
    BY <1>5 DEF Close
  <2>3. FILE_COUNTER' = Len(Files')
    BY <1>0, <1>5, <2>1, <2>2, CloseFacts DEF Walk
  <2>4. done' \in Seq(Entry) /\ entries' \in Seq(Entry) /\ done' \o entries' \in Corpora
    BY <1>5, CloseFacts, NextEntry DEF Walk
  <2>5. pc' = "walk" /\ kind' = kind /\ calls' = <<>>
    BY <1>5, CloseFacts
  <2> QED BY <2>2, <2>3, <2>4, <2>5 DEF Walk
<1>6. CASE Report
  <2>1. Files' = Files
    BY <1>6 DEF Report, Files
  <2> QED BY <1>6, <2>1 DEF Report, Walk, tables
<1>7. CASE Continue
  <2>1. /\ kind' = "rnnlm" /\ pc' = "walk" /\ done' = <<>> /\ FILE_COUNTER' = 0
        /\ counted' = done /\ xpath' = xpath /\ calls' = calls
        /\ entries' \in {done} \cup {c \in Corpora : Len(c) <= 1}
    BY <1>7 DEF Continue
  <2>2. Files' = <<>>
    <3>1. {i \in DOMAIN <<>> : <<>>[i].type = "file"} = {}
      OBVIOUS
    <3>2. Files' = Picked(<<>>, {i \in DOMAIN <<>> : <<>>[i].type = "file"})
      BY <2>1 DEF Files
    <3> QED BY <3>1, <3>2, PickedNothing
  <2>3. done \in Corpora
    <3>1. done \o <<>> = done /\ entries = <<>>
      BY <1>7 DEF Continue, Walk
    <3> QED BY <3>1 DEF Walk
  <2>4. entries' \in Corpora
    BY <2>1, <2>3
  <2>5. entries' \in Seq(Entry) /\ <<>> \o entries' = entries'
    <3>1. entries' \in Seq(Entry)
      BY <2>4, CorpusAssumption
    <3> QED BY <3>1
  <2>6. Len(Files') = 0
    BY <2>2
  <2> QED BY <1>7, <2>1, <2>3, <2>4, <2>5, <2>6 DEF Continue, Walk
<1> QED BY <1>1, <1>2, <1>3, <1>4, <1>5, <1>6, <1>7 DEF Next, Called

LEMMA WalkStutters ==
    ASSUME Walk, UNCHANGED vars
    PROVE  /\ Walk' /\ CallsNow' = CallsNow /\ made' = made /\ Files' = Files
           /\ entry' = entry
<1>1. CallsNow' = CallsNow /\ Files' = Files /\ entry' = entry
  BY DEF vars, CallsNow, CallsOf, Flags, entry, Files
<1>2. made' = made
  BY <1>1 DEF vars, made
<1> QED BY <1>1, <1>2 DEF Walk, InDocument, vars, tables

LEMMA WalkHolds == Spec => []Walk
<1>1. Walk /\ [Next]_vars => Walk'
  BY WalkStep, WalkStutters
<1> QED BY WalkInit, <1>1, PTL DEF Spec

-----------------------------------------------------------------------------
(* simplify_documents: the numbers of words. *)

IdFold == INSTANCE FoldFacts WITH op <- IdStep

Tables == UNION {[D -> Nat] : D \in SUBSET Words}
IdState == [ids : Tables, next : Nat, line : Seq(Nat)]

\* The numbers up to next, one for a word
OneToOne(ids, next) ==
    /\ ids \in Tables /\ next \in Nat
    /\ \A w \in DOMAIN ids : ids[w] \in 0 .. next - 1
    /\ \A v, w \in DOMAIN ids : ids[v] = ids[w] => v = w
    /\ \A i \in 0 .. next - 1 : \E w \in DOMAIN ids : ids[w] = i

Extends(new, old) == DOMAIN old \subseteq DOMAIN new /\ \A w \in DOMAIN old : new[w] = old[w]

Numbered(ids, words) == [i \in DOMAIN words |-> ids[words[i]]]

\* A word is given its number, an old one or the next
LEMMA OneNumber ==
    ASSUME NEW a \in IdState, OneToOne(a.ids, a.next), NEW w \in Words
    PROVE  LET b == IdStep(a, w)
           IN  /\ b \in IdState /\ OneToOne(b.ids, b.next) /\ Extends(b.ids, a.ids)
               /\ w \in DOMAIN b.ids /\ b.line = Append(a.line, b.ids[w])
<1> DEFINE b == IdStep(a, w)
<1>1. /\ a.ids \in Tables /\ a.next \in Nat /\ a.line \in Seq(Nat)
      /\ DOMAIN a.ids \in SUBSET Words /\ \A v \in DOMAIN a.ids : a.ids[v] \in Nat
  BY DEF IdState, Tables
<1>2. CASE w \in DOMAIN a.ids
  <2>1. a = [ids |-> a.ids, next |-> a.next, line |-> a.line]
    BY DEF IdState
  <2>2. b = [ids |-> a.ids, next |-> a.next, line |-> Append(a.line, a.ids[w])]
    BY <1>2, <2>1 DEF IdStep
  <2>3. Append(a.line, a.ids[w]) \in Seq(Nat)
    BY <1>1, <1>2
  <2> HIDE DEF b
  <2>4. b \in IdState
    BY <1>1, <2>2, <2>3 DEF IdState
  <2>5. b.ids = a.ids /\ b.next = a.next /\ b.line = Append(a.line, a.ids[w])
    BY <2>2
  <2> QED BY <1>2, <2>4, <2>5 DEF Extends, b
<1>3. CASE w \notin DOMAIN a.ids
  <2> DEFINE new == [v \in DOMAIN a.ids \cup {w} |-> IF v = w THEN a.next ELSE a.ids[v]]
  <2>1. b = [ids |-> new, next |-> a.next + 1, line |-> Append(a.line, a.next)]
    BY <1>3 DEF IdStep
  <2>2. /\ new \in [DOMAIN a.ids \cup {w} -> Nat] /\ DOMAIN a.ids \cup {w} \in SUBSET Words
        /\ new[w] = a.next /\ \A v \in DOMAIN a.ids : new[v] = a.ids[v]
        /\ DOMAIN new = DOMAIN a.ids \cup {w}
    BY <1>1, <1>3
  <2> HIDE DEF new, b
  <2>3. new \in Tables
    BY <2>2 DEF Tables
  <2>4. Append(a.line, a.next) \in Seq(Nat) /\ a.next + 1 \in Nat
    BY <1>1
  <2>5. b \in IdState
    BY <2>1, <2>3, <2>4 DEF IdState
  <2>6. b.ids = new /\ b.next = a.next + 1 /\ b.line = Append(a.line, a.next)
    BY <2>1
  <2>7. Extends(b.ids, a.ids) /\ w \in DOMAIN b.ids /\ b.ids[w] = a.next
    BY <2>2, <2>6 DEF Extends
  <2>8. \A v \in DOMAIN new : new[v] \in 0 .. (a.next + 1) - 1
    BY <1>1, <2>2 DEF OneToOne
  <2>9. \A u, v \in DOMAIN new : new[u] = new[v] => u = v
    <3>1. \A v \in DOMAIN a.ids : new[v] # a.next
      BY <1>1, <2>2 DEF OneToOne
    <3> QED BY <2>2, <3>1 DEF OneToOne
  <2>10. ASSUME NEW i \in 0 .. (a.next + 1) - 1 PROVE \E v \in DOMAIN new : new[v] = i
    <3>1. CASE i = a.next
      BY <2>2, <3>1
    <3>2. CASE i # a.next
      <4>1. i \in 0 .. a.next - 1
        BY <1>1, <3>2
      <4>2. PICK v \in DOMAIN a.ids : a.ids[v] = i
        BY <4>1 DEF OneToOne
      <4> QED BY <2>2, <4>2
    <3> QED BY <3>1, <3>2
  <2>11. OneToOne(b.ids, b.next)
    BY <2>3, <2>4, <2>6, <2>8, <2>9, <2>10 DEF OneToOne
  <2> QED BY <2>5, <2>6, <2>7, <2>11 DEF b
<1> QED BY <1>2, <1>3

\* The words of a paragraph are given theirs
LEMMA WordsNumbered ==
    ASSUME NEW ids, NEW next, OneToOne(ids, next), NEW words \in Seq(Words)
    PROVE  LET a == FoldLeft(IdStep, [ids |-> ids, next |-> next, line |-> <<>>], words)
           IN  /\ OneToOne(a.ids, a.next) /\ Extends(a.ids, ids)
               /\ ToSet(words) \subseteq DOMAIN a.ids
               /\ a.line = Numbered(a.ids, words) /\ a.line \in Seq(Nat)
<1> DEFINE base == [ids |-> ids, next |-> next, line |-> <<>>]
           len  == Len(words)
<1>0. len \in Nat /\ DOMAIN words = 1 .. len /\ \A i \in 1 .. len : words[i] \in Words
  OBVIOUS
<1> HIDE DEF len
<1>1. base \in IdState /\ base.ids = ids /\ base.next = next /\ base.line = <<>>
  BY DEF OneToOne, IdState
<1> HIDE DEF base
<1>2. PICK run : IdFold!IsRun(run, base, words, len) /\ run[len] = FoldLeft(IdStep, base, words)
  <2>1. FoldLeft(IdStep, base, words) = IdFold!Fold(base, words, len)
    BY <1>0 DEF FoldLeft, MapThenFoldSet, IdFold!Fold, IdFold!IsFold, Max, IdFold!Max
  <2> QED BY <1>0, <2>1, IdFold!FoldRuns
<1> DEFINE Right(m) ==
               /\ run[m] \in IdState /\ OneToOne(run[m].ids, run[m].next)
               /\ Extends(run[m].ids, ids)
               /\ Len(run[m].line) = m
               /\ \A i \in 1 .. m : /\ words[i] \in DOMAIN run[m].ids
                                    /\ run[m].line[i] = run[m].ids[words[i]]
           N == {m \in Nat : m <= len => Right(m)}
<1>3. 0 \in N
  <2>1. run[0] = base
    BY <1>2 DEF IdFold!IsRun
  <2> QED BY <1>1, <2>1 DEF Extends
<1>4. ASSUME NEW m \in Nat, m \in N PROVE m + 1 \in N
  <2> SUFFICES ASSUME m + 1 <= len PROVE Right(m + 1)
    OBVIOUS
  <2>1. m + 1 \in 1 .. len /\ (m + 1) - 1 = m /\ Right(m) /\ words[m + 1] \in Words
    BY <1>0, <1>4
  <2>2. run[m + 1] = IdStep(run[m], words[m + 1])
    BY <1>2, <2>1 DEF IdFold!IsRun
  <2> DEFINE a == run[m]
             b == run[m + 1]
             w == words[m + 1]
  <2>3. a \in IdState /\ OneToOne(a.ids, a.next) /\ Extends(a.ids, ids) /\ w \in Words
    BY <2>1
  <2>4. Len(a.line) = m /\ \A i \in 1 .. m : words[i] \in DOMAIN a.ids /\ a.line[i] = a.ids[words[i]]
    BY <2>1
  <2>5. b = IdStep(a, w)
    BY <2>2
  <2> HIDE DEF a, b
  <2>6. /\ b \in IdState /\ OneToOne(b.ids, b.next) /\ Extends(b.ids, a.ids)
        /\ w \in DOMAIN b.ids /\ b.line = Append(a.line, b.ids[w])
    BY <2>3, <2>5, OneNumber
  <2>7. Extends(b.ids, ids)
    BY <2>3, <2>6 DEF Extends
  <2>8. a.line \in Seq(Nat)
    BY <2>3 DEF IdState
  <2>9. Len(b.line) = m + 1 /\ b.line[m + 1] = b.ids[w] /\ \A i \in 1 .. m : b.line[i] = a.line[i]
    BY <2>4, <2>6, <2>8
  <2>10. ASSUME NEW i \in 1 .. m + 1
         PROVE  words[i] \in DOMAIN b.ids /\ b.line[i] = b.ids[words[i]]
    <3>1. CASE i = m + 1
      BY <2>6, <2>9, <3>1
    <3>2. CASE i \in 1 .. m
      BY <2>4, <2>6, <2>9, <3>2 DEF Extends
    <3> QED BY <3>1, <3>2
  <2> QED BY <2>6, <2>7, <2>9, <2>10 DEF b
<1> HIDE DEF N
<1>5. len \in N
  BY <1>0, <1>3, <1>4, IdFold!SetInduction
<1>6. Right(len)
  BY <1>0, <1>5 DEF N
<1> DEFINE a == run[len]
<1>7. a \in IdState /\ a.line \in Seq(Nat) /\ Len(a.line) = len
  BY <1>6 DEF IdState
<1>8. a.line = Numbered(a.ids, words)
  <2>1. \A i \in 1 .. len : a.line[i] = a.ids[words[i]]
    BY <1>6
  <2> HIDE DEF a
  <2>2. DOMAIN a.line = 1 .. len /\ a.line = [i \in 1 .. len |-> a.line[i]]
    BY <1>0, <1>7
  <2> QED BY <1>0, <2>1, <2>2 DEF Numbered
<1>9. ToSet(words) \subseteq DOMAIN a.ids
  BY <1>0, <1>6 DEF ToSet
<1>10. a = FoldLeft(IdStep, base, words)
  BY <1>2
<1>11. OneToOne(a.ids, a.next) /\ Extends(a.ids, ids)
  BY <1>6
<1> HIDE DEF a
<1> QED BY <1>7, <1>8, <1>9, <1>10, <1>11 DEF base

-----------------------------------------------------------------------------
(* simplify_documents: the lines of a document. *)

\* The lines that the first n calls make with these numbers
Full(cs, n) == {k \in 1 .. n : cs[k].words # <<>>}

Line(ids, d, c) == [label |-> LabelIn(d, c), words |-> Numbered(ids, c.words)]

Texts(ids, d, cs, n) ==
    LET lines == Picked(cs, Full(cs, n)) IN [k \in DOMAIN lines |-> Line(ids, d, lines[k])]

\* All their words have a number
Known(ids, cs, n) == \A k \in 1 .. n : ToSet(cs[k].words) \subseteq DOMAIN ids

LEMMA FullType ==
    ASSUME NEW cs \in Seq(Callback), NEW n \in 0 .. Len(cs)
    PROVE  /\ Full(cs, n) \in SUBSET (1 .. n) /\ Full(cs, n) \in SUBSET (1 .. Len(cs))
           /\ Picked(cs, Full(cs, n)) \in Seq(Callback)
           /\ \A k \in DOMAIN Picked(cs, Full(cs, n)) :
                 \E m \in 1 .. n : Picked(cs, Full(cs, n))[k] = cs[m]
<1>1. Full(cs, n) \in SUBSET (1 .. n) /\ Full(cs, n) \in SUBSET (1 .. Len(cs))
  BY DEF Full
<1>2. Picked(cs, Full(cs, n)) \in Seq(Callback)
  BY <1>1, PickedType
<1>3. InOrder(Full(cs, n)) \in Seq(Full(cs, n))
  <2>1. n \in Nat
    OBVIOUS
  <2> QED BY <1>1, <2>1, InOrderType
<1>4. \A k \in DOMAIN Picked(cs, Full(cs, n)) :
         \E m \in 1 .. n : Picked(cs, Full(cs, n))[k] = cs[m]
  <2> DEFINE at == InOrder(Full(cs, n))
  <2>1. Picked(cs, Full(cs, n)) = [k \in DOMAIN at |-> cs[at[k]]]
    BY DEF Picked
  <2>2. \A k \in DOMAIN at : at[k] \in 1 .. n
    BY <1>1, <1>3
  <2> HIDE DEF at
  <2> QED BY <2>1, <2>2
<1> QED BY <1>1, <1>2, <1>4

LEMMA NoTextWithoutWords ==
    ASSUME NEW ids, NEW d, NEW cs, NEW n, \A k \in 1 .. n : cs[k].words = <<>>
    PROVE  Texts(ids, d, cs, n) = <<>>
<1>1. Full(cs, n) = {}
  BY DEF Full
<1>2. Picked(cs, {}) = <<>>
  BY PickedNothing
<1> QED BY <1>1, <1>2 DEF Texts

LEMMA NoTexts ==
    ASSUME NEW ids, NEW d, NEW cs
    PROVE  Texts(ids, d, cs, 0) = <<>>
<1>1. \A k \in 1 .. 0 : cs[k].words = <<>>
  OBVIOUS
<1> QED BY <1>1, NoTextWithoutWords

\* One call more
LEMMA TextsNext ==
    ASSUME NEW ids, NEW d, NEW cs \in Seq(Callback), NEW n \in Nat, n + 1 <= Len(cs)
    PROVE  Texts(ids, d, cs, n + 1) = IF cs[n + 1].words = <<>> THEN Texts(ids, d, cs, n)
                                      ELSE Append(Texts(ids, d, cs, n), Line(ids, d, cs[n + 1]))
<1>1. n \in 0 .. Len(cs) /\ n + 1 \in 1 .. Len(cs) /\ cs[n + 1] \in Callback
  OBVIOUS
<1>2. CASE cs[n + 1].words = <<>>
  <2>1. Full(cs, n + 1) = Full(cs, n)
    BY <1>1, <1>2 DEF Full
  <2> QED BY <1>2, <2>1 DEF Texts
<1>3. CASE cs[n + 1].words # <<>>
  <2> DEFINE l == Picked(cs, Full(cs, n))
             c == cs[n + 1]
             F(x) == Line(ids, d, x)
             old == [k \in DOMAIN l |-> F(l[k])]
  <2>1. Full(cs, n + 1) = Full(cs, n) \cup {n + 1}
    BY <1>1, <1>3 DEF Full
  <2>2. Full(cs, n) \in SUBSET (1 .. n) /\ l \in Seq(Callback) /\ c \in Callback
    BY <1>1, FullType
  <2>3. Picked(cs, Full(cs, n + 1)) = Append(l, c)
    BY <2>1, <2>2, PickedAppend
  <2>4. Texts(ids, d, cs, n) = old
    BY DEF Texts
  <2>5. Texts(ids, d, cs, n + 1) = [k \in DOMAIN Append(l, c) |-> F(Append(l, c)[k])]
    BY <2>3 DEF Texts
  <2> HIDE DEF l, c, F
  <2>6. /\ DOMAIN l = 1 .. Len(l) /\ Len(l) \in Nat /\ DOMAIN Append(l, c) = 1 .. Len(l) + 1
        /\ Append(l, c)[Len(l) + 1] = c /\ \A k \in 1 .. Len(l) : Append(l, c)[k] = l[k]
    BY <2>2
  <2>7. old \in Seq({F(l[k]) : k \in DOMAIN l}) /\ Len(old) = Len(l)
    BY <2>6
  <2>8. /\ Append(old, F(c)) = [k \in 1 .. Len(l) + 1 |-> Append(old, F(c))[k]]
        /\ Append(old, F(c))[Len(l) + 1] = F(c)
        /\ \A k \in 1 .. Len(l) : Append(old, F(c))[k] = old[k]
    BY <2>6, <2>7
  <2>9. \A k \in 1 .. Len(l) : old[k] = F(l[k])
    BY <2>6
  <2> HIDE DEF old
  <2>10. \A k \in 1 .. Len(l) + 1 : Append(old, F(c))[k] = F(Append(l, c)[k])
    BY <2>6, <2>8, <2>9
  <2>11. [k \in 1 .. Len(l) + 1 |-> Append(old, F(c))[k]] = [k \in 1 .. Len(l) + 1 |-> F(Append(l, c)[k])]
    BY <2>10
  <2>12. Append(old, F(c)) = Texts(ids, d, cs, n + 1)
    BY <2>5, <2>6, <2>8, <2>11
  <2> QED BY <1>3, <2>4, <2>12 DEF F, c
<1> QED BY <1>2, <1>3

\* Old numbers stay
LEMMA TextsSame ==
    ASSUME NEW ids, NEW new, NEW d, Extends(new, ids), NEW cs \in Seq(Callback), NEW n \in 0 .. Len(cs),
           Known(ids, cs, n)
    PROVE  Texts(new, d, cs, n) = Texts(ids, d, cs, n) /\ Known(new, cs, n)
<1> DEFINE l == Picked(cs, Full(cs, n))
<1>1. \A k \in DOMAIN l : \E m \in 1 .. n : l[k] = cs[m]
  BY FullType
<1>2. ASSUME NEW k \in DOMAIN l PROVE Line(new, d, l[k]) = Line(ids, d, l[k])
  <2>1. PICK m \in 1 .. n : l[k] = cs[m]
    BY <1>1
  <2>2. \A i \in DOMAIN cs[m].words : cs[m].words[i] \in DOMAIN ids
    BY DEF Known, ToSet
  <2>3. Numbered(new, l[k].words) = Numbered(ids, l[k].words)
    BY <2>1, <2>2 DEF Numbered, Extends
  <2> QED BY <2>3 DEF Line
<1>3. Known(new, cs, n)
  BY DEF Known, Extends
<1> HIDE DEF l
<1>4. [k \in DOMAIN l |-> Line(new, d, l[k])] = [k \in DOMAIN l |-> Line(ids, d, l[k])]
  BY <1>2
<1> QED BY <1>3, <1>4 DEF Texts, l

-----------------------------------------------------------------------------
(* simplify_documents: the theorem. *)

FileWritten(ids, lines, d) ==
    /\ Known(ids, Paragraphs(d), Len(Paragraphs(d)))
    /\ lines = Texts(ids, d, Paragraphs(d), Len(Paragraphs(d)))

\* The names of the outputs
Outputs ==
    {Files[n].name : n \in DOMAIN Files} \cup (IF pc = "document" THEN {entry.name} ELSE {})

\* The output of the n-th file has not been overwritten
Kept(n) == LastOfName(n) /\ (pc = "document" => entry.name # Files[n].name)

Output(n) == simple[Files[n].name]

\* The numbers, and the lines of every output under them, those of the current as far as it is
Numbering ==
    /\ kind # "simplify" => WORD_TO_ID = Empty /\ ID_COUNTER = 0 /\ simple = Empty
    /\ kind = "simplify" =>
        /\ OneToOne(WORD_TO_ID, ID_COUNTER)
        /\ DOMAIN simple = Outputs
        /\ \A n \in DOMAIN Files : Kept(n) => FileWritten(WORD_TO_ID, Output(n), Files[n].doc)
        /\ pc = "document" =>
              /\ Known(WORD_TO_ID, CallsNow, made)
              /\ simple[entry.name] = Texts(WORD_TO_ID, entry.doc, CallsNow, made)
        /\ pc = "end" => result = WORD_TO_ID

LEMMA FilesFacts ==
    ASSUME Walk
    PROVE  /\ Files \in Seq(Entry) /\ Len(Files) \in Nat /\ DOMAIN Files = 1 .. Len(Files)
           /\ \A n \in DOMAIN Files : /\ Files[n].doc \in Seq(Paragraph)
                                      /\ Paragraphs(Files[n].doc) \in Seq(Callback)
           /\ FILE_COUNTER \in Nat
<1>1. Files \in Seq(Entry) /\ Len(Files) \in Nat
  BY FilesType, FilesAreThoseOf DEF Walk
<1>2. ASSUME NEW n \in DOMAIN Files PROVE Files[n].doc \in Seq(Paragraph)
  <2>1. Files[n] \in Entry
    BY <1>1
  <2> QED BY <2>1 DEF Entry
<1>3. \A n \in DOMAIN Files : Paragraphs(Files[n].doc) \in Seq(Callback)
  BY <1>2, CallsOfType DEF Paragraphs
<1>4. FILE_COUNTER \in Nat
  BY <1>1 DEF Walk
<1> QED BY <1>1, <1>2, <1>3, <1>4

LEMMA SameParagraphs ==
    ASSUME kind' = kind
    PROVE  \A d : Paragraphs(d)' = Paragraphs(d)
BY DEF Paragraphs, CallsOf, Flags

LEMMA NumberingInit ==
    ASSUME Init, Walk
    PROVE  Numbering
<1>1. /\ pc = "walk" /\ FILE_COUNTER = 0 /\ WORD_TO_ID = Empty /\ ID_COUNTER = 0 /\ simple = Empty
  BY DEF Init
<1>2. OneToOne(Empty, 0)
  <2>1. Empty \in [{} -> Nat] /\ {} \in SUBSET Words /\ DOMAIN Empty = {} /\ 0 .. 0 - 1 = {}
    BY DEF Empty
  <2>2. Empty \in Tables
    BY <2>1 DEF Tables
  <2> QED BY <2>1, <2>2 DEF OneToOne
<1>3. DOMAIN Files = {}
  <2>1. Len(Files) = 0
    BY <1>1, FilesFacts DEF Walk
  <2> QED BY <2>1, FilesFacts
<1>4. DOMAIN Empty = Outputs
  BY <1>1, <1>3 DEF Empty, Outputs
<1> QED BY <1>1, <1>2, <1>3, <1>4 DEF Numbering

\* Words get numbers while the lines of the files before are there
LEMMA LineWritten ==
    ASSUME Walk, Numbering, WriteLine
    PROVE  Numbering'
<1> DEFINE words == Head(calls).words
           a == FoldLeft(IdStep, [ids |-> WORD_TO_ID, next |-> ID_COUNTER, line |-> <<>>], words)
           cs == CallsNow
           n == made
<1>1. /\ pc = "document" /\ pc' = pc /\ kind = "simplify" /\ kind' = kind
      /\ WORD_TO_ID' = a.ids /\ ID_COUNTER' = a.next
      /\ simple' = IF words = <<>> THEN simple
                   ELSE [simple EXCEPT ![entry.name] =
                            Append(@, [label |-> LabelIn(entry.doc, Head(calls)), words |-> a.line])]
  BY DEF WriteLine
<1>2. /\ entries' = entries /\ done' = done
      /\ CallsNow' = cs /\ made' = n + 1 /\ n + 1 \in 1 .. Len(cs) /\ Head(calls) = cs[n + 1]
  BY CalledFacts DEF Called
<1>3. cs \in Seq(Callback) /\ n \in Nat /\ n \in 0 .. Len(cs)
  BY <1>1, CallsNowType
<1>4. /\ Files' = Files /\ entry' = entry /\ Outputs' = Outputs /\ entry.name \in Outputs
      /\ \A m : Kept(m)' = Kept(m)
  BY <1>1, <1>2 DEF Files, entry, Outputs, Kept, LastOfName
<1>5. /\ OneToOne(WORD_TO_ID, ID_COUNTER)
      /\ DOMAIN simple = Outputs
      /\ \A m \in DOMAIN Files : Kept(m) => FileWritten(WORD_TO_ID, Output(m), Files[m].doc)
      /\ Known(WORD_TO_ID, cs, n) /\ simple[entry.name] = Texts(WORD_TO_ID, entry.doc, cs, n)
  BY <1>1 DEF Numbering
<1>6. words = cs[n + 1].words /\ words \in Seq(Words)
  <2>1. cs[n + 1] \in Callback
    BY <1>2, <1>3
  <2>2. words = cs[n + 1].words
    BY <1>2
  <2> HIDE DEF words
  <2> QED BY <2>1, <2>2 DEF Callback
<1> HIDE DEF words, cs, n
<1>7. /\ OneToOne(a.ids, a.next) /\ Extends(a.ids, WORD_TO_ID) /\ ToSet(words) \subseteq DOMAIN a.ids
      /\ a.line = Numbered(a.ids, words) /\ a.line \in Seq(Nat)
  BY <1>5, <1>6, WordsNumbered
<1> HIDE DEF a
<1>8. Known(a.ids, cs, n + 1)
  <2>1. Known(a.ids, cs, n)
    BY <1>3, <1>5, <1>7, TextsSame
  <2>2. \A k \in 1 .. n + 1 : k \in 1 .. n \/ k = n + 1
    BY <1>3
  <2> QED BY <1>6, <1>7, <2>1, <2>2 DEF Known
<1>9. /\ DOMAIN simple' = Outputs
      /\ \A f \in Outputs : f # entry.name => simple'[f] = simple[f]
      /\ simple'[entry.name] = IF words = <<>> THEN simple[entry.name]
                               ELSE Append(simple[entry.name], Line(a.ids, entry.doc, cs[n + 1]))
  <2> DEFINE line == [label |-> LabelIn(entry.doc, Head(calls)), words |-> a.line]
  <2>1. line = Line(a.ids, entry.doc, cs[n + 1])
    BY <1>2, <1>6, <1>7 DEF Line
  <2>2. simple' = IF words = <<>> THEN simple
                  ELSE [simple EXCEPT ![entry.name] = Append(@, line)]
    BY <1>1
  <2> HIDE DEF line
  <2> QED BY <1>4, <1>5, <2>1, <2>2
<1>10. simple'[entry.name] = Texts(a.ids, entry.doc, cs, n + 1)
  <2> DEFINE d == entry.doc
  <2>1. simple[entry.name] = Texts(WORD_TO_ID, d, cs, n)
    BY <1>5
  <2>2. simple'[entry.name] = IF words = <<>> THEN simple[entry.name]
                              ELSE Append(simple[entry.name], Line(a.ids, d, cs[n + 1]))
    BY <1>9
  <2> HIDE DEF d
  <2>3. Texts(a.ids, d, cs, n) = Texts(WORD_TO_ID, d, cs, n)
    BY <1>3, <1>5, <1>7, TextsSame
  <2>4. n + 1 <= Len(cs)
    BY <1>2, <1>3
  <2>5. Texts(a.ids, d, cs, n + 1) = IF cs[n + 1].words = <<>> THEN Texts(a.ids, d, cs, n)
                                     ELSE Append(Texts(a.ids, d, cs, n), Line(a.ids, d, cs[n + 1]))
    BY <1>3, <2>4, TextsNext
  <2>6. simple'[entry.name] = Texts(a.ids, d, cs, n + 1)
    BY <1>6, <2>1, <2>2, <2>3, <2>5
  <2> QED BY <2>6 DEF d
<1>11. ASSUME NEW m \in DOMAIN Files, Kept(m)
       PROVE  FileWritten(WORD_TO_ID, Output(m), Files[m].doc)'
  <2> DEFINE ps == Paragraphs(Files[m].doc)
  <2>1. ps \in Seq(Callback) /\ m \in 1 .. Len(Files) /\ Len(ps) \in 0 .. Len(ps)
    BY FilesFacts
  <2> DEFINE d == Files[m].doc
  <2>2. Known(WORD_TO_ID, ps, Len(ps)) /\ Output(m) = Texts(WORD_TO_ID, d, ps, Len(ps))
    BY <1>5, <1>11 DEF FileWritten
  <2>3. Paragraphs(Files[m].doc)' = ps
    BY <1>1, <1>4, SameParagraphs
  <2>5. Output(m)' = Output(m)
    <3>1. Files[m].name \in Outputs /\ Files[m].name # entry.name
      BY <1>1, <1>11 DEF Outputs, Kept
    <3> QED BY <1>4, <1>9, <3>1 DEF Output
  <2> HIDE DEF ps, d
  <2>4. Known(a.ids, ps, Len(ps)) /\ Output(m) = Texts(a.ids, d, ps, Len(ps))
    BY <1>7, <2>1, <2>2, TextsSame
  <2>6. Files[m].doc' = d
    BY <1>4 DEF d
  <2> QED BY <1>1, <2>3, <2>4, <2>5, <2>6 DEF FileWritten
<1>12. \A m \in DOMAIN Files' : Kept(m)' => FileWritten(WORD_TO_ID, Output(m), Files[m].doc)'
  BY <1>4, <1>11
<1>13. OneToOne(WORD_TO_ID, ID_COUNTER)' /\ DOMAIN simple' = Outputs'
  BY <1>1, <1>4, <1>7, <1>9
<1>14. Known(WORD_TO_ID, CallsNow, made)' /\ simple'[entry'.name] = Texts(WORD_TO_ID, entry.doc, CallsNow, made)'
  BY <1>1, <1>2, <1>4, <1>8, <1>10
<1> QED BY <1>1, <1>12, <1>13, <1>14 DEF Numbering

\* Nothing of an output changes while the numbers, its lines and the task stay
LEMMA FilesStayWritten ==
    ASSUME Walk, Numbering, kind = "simplify", kind' = kind, WORD_TO_ID' = WORD_TO_ID,
           NEW n \in DOMAIN Files, Kept(n), Files'[n] = Files[n], Output(n)' = Output(n)
    PROVE  FileWritten(WORD_TO_ID, Output(n), Files[n].doc)'
<1>1. FileWritten(WORD_TO_ID, Output(n), Files[n].doc)
  BY DEF Numbering
<1>2. Paragraphs(Files[n].doc)' = Paragraphs(Files[n].doc)
  BY SameParagraphs
<1> QED BY <1>1, <1>2 DEF FileWritten

\* Nor does it if no file is opened or closed
LEMMA OutputsStay ==
    ASSUME Walk, Numbering, kind = "simplify", kind' = kind, WORD_TO_ID' = WORD_TO_ID,
           ID_COUNTER' = ID_COUNTER, simple' = simple, Files' = Files, entry' = entry,
           (pc' = "document") = (pc = "document")
    PROVE  /\ OneToOne(WORD_TO_ID, ID_COUNTER)' /\ DOMAIN simple' = Outputs'
           /\ \A n \in DOMAIN Files' : Kept(n)' => FileWritten(WORD_TO_ID, Output(n), Files[n].doc)'
<1>1. OneToOne(WORD_TO_ID, ID_COUNTER)'
  BY DEF Numbering
<1>2. DOMAIN simple' = Outputs'
  BY DEF Numbering, Outputs
<1>3. ASSUME NEW n \in DOMAIN Files, Kept(n)'
      PROVE  FileWritten(WORD_TO_ID, Output(n), Files[n].doc)'
  <2>1. Kept(n) /\ Output(n)' = Output(n)
    BY <1>3 DEF Kept, LastOfName, Output
  <2> QED BY <2>1, FilesStayWritten
<1> QED BY <1>1, <1>2, <1>3

LEMMA NumberingStep ==
    ASSUME Walk, Walk', Numbering, Next
    PROVE  Numbering'
<1>0. /\ Files \in Seq(Entry) /\ Len(Files) \in Nat /\ DOMAIN Files = 1 .. Len(Files)
  BY FilesFacts DEF Walk
<1>1. CASE kind # "simplify"
  <2>1. kind' # "simplify"
    BY <1>1 DEF Next, Skip, Open, CountNgrams, CountWords, WriteLine, WriteSentences, Relax, Close,
                Report, Continue
  <2>2. WORD_TO_ID' = WORD_TO_ID /\ ID_COUNTER' = ID_COUNTER /\ simple' = simple
    BY <1>1 DEF Next, Skip, Open, CountNgrams, CountWords, WriteLine, WriteSentences, Relax, Close,
                Report, Continue, tables
  <2> QED BY <1>1, <2>1, <2>2 DEF Numbering
<1>2. CASE kind = "simplify"
  <2>0. OneToOne(WORD_TO_ID, ID_COUNTER) /\ DOMAIN simple = Outputs
    BY <1>2 DEF Numbering
  <2>1. CASE Skip
    <3>1. /\ pc = "walk" /\ pc' = pc /\ kind' = kind /\ WORD_TO_ID' = WORD_TO_ID
          /\ ID_COUNTER' = ID_COUNTER /\ simple' = simple /\ Files' = Files
      <4>1. entry.type = "directory" /\ kind' = kind /\ pc = "walk" /\ pc' = pc
            /\ UNCHANGED tables /\ Files' = IF entry.type = "file" THEN Append(Files, entry) ELSE Files
        BY <1>2, <2>1, SkipFacts DEF Serial
      <4> QED BY <4>1 DEF tables
    <3>2. DOMAIN simple' = Outputs'
      BY <2>0, <3>1 DEF Outputs
    <3>3. ASSUME NEW n \in DOMAIN Files, Kept(n)'
          PROVE  FileWritten(WORD_TO_ID, Output(n), Files[n].doc)'
      <4>1. Kept(n) /\ Output(n)' = Output(n)
        BY <3>1, <3>3 DEF Kept, LastOfName, Output
      <4> QED BY <1>2, <3>1, <4>1, FilesStayWritten
    <3> QED BY <1>2, <2>0, <3>1, <3>2, <3>3 DEF Numbering
  <2>2. CASE Open
    <3>1. /\ pc = "walk" /\ pc' = "document" /\ kind' = kind /\ made' = 0
          /\ WORD_TO_ID' = WORD_TO_ID /\ ID_COUNTER' = ID_COUNTER /\ done' = done /\ entry' = entry
          /\ simple' = [f \in DOMAIN simple \cup {entry.name} |->
                           IF f = entry.name THEN <<>> ELSE simple[f]]
      BY <1>2, <2>2, OpenFacts DEF Open
    <3>2. Files' = Files
      BY <3>1 DEF Files
    <3>3. DOMAIN simple' = Outputs' /\ simple'[entry.name] = <<>>
      BY <2>0, <3>1, <3>2 DEF Outputs
    <3>4. ASSUME NEW n \in DOMAIN Files, Kept(n)'
          PROVE  FileWritten(WORD_TO_ID, Output(n), Files[n].doc)'
      <4>1. Kept(n) /\ entry.name # Files[n].name /\ Files[n].name \in DOMAIN simple
        BY <2>0, <3>1, <3>2, <3>4 DEF Kept, LastOfName, Outputs
      <4>2. Output(n)' = Output(n)
        BY <3>1, <3>2, <4>1 DEF Output
      <4> QED BY <1>2, <3>1, <3>2, <4>1, <4>2, FilesStayWritten
    <3>5. Texts(WORD_TO_ID, entry.doc, CallsNow', 0) = <<>> /\ Known(WORD_TO_ID, CallsNow', 0)
      <4>1. 1 .. 0 = {}
        OBVIOUS
      <4> QED BY <4>1, NoTexts DEF Known
    <3> QED BY <1>2, <2>0, <3>1, <3>2, <3>3, <3>4, <3>5 DEF Numbering
  <2>3. CASE Called
    <3>1. WriteLine
      BY <1>2, <2>3 DEF Called, CountNgrams, CountWords, WriteSentences, Ngrams
    <3> QED BY <3>1, LineWritten
  <2>4. CASE Relax
    <3>1. /\ pc = "document" /\ pc' = pc /\ kind' = kind /\ made' = 0
          /\ WORD_TO_ID' = WORD_TO_ID /\ ID_COUNTER' = ID_COUNTER /\ simple' = simple
          /\ done' = done /\ entries' = entries
          /\ \A k \in 1 .. Len(CallsNow) : CallsNow[k].words = <<>>
          /\ made = Len(CallsNow)
      BY <2>4, RelaxFacts DEF tables
    <3>2. Files' = Files /\ entry' = entry
      BY <3>1 DEF Files, entry
    <3>3. /\ OneToOne(WORD_TO_ID, ID_COUNTER)' /\ DOMAIN simple' = Outputs'
          /\ \A n \in DOMAIN Files' : Kept(n)' => FileWritten(WORD_TO_ID, Output(n), Files[n].doc)'
      BY <1>2, <3>1, <3>2, OutputsStay
    <3>4. simple[entry.name] = <<>>
      BY <1>2, <3>1, NoTextWithoutWords DEF Numbering
    <3>5. Texts(WORD_TO_ID, entry.doc, CallsNow', 0) = <<>> /\ Known(WORD_TO_ID, CallsNow', 0)
      <4>1. 1 .. 0 = {}
        OBVIOUS
      <4> QED BY <4>1, NoTexts DEF Known
    <3> QED BY <1>2, <3>1, <3>2, <3>3, <3>4, <3>5 DEF Numbering
  <2>5. CASE Close
    <3>1. /\ pc = "document" /\ pc' = "walk" /\ kind' = kind
          /\ WORD_TO_ID' = WORD_TO_ID /\ ID_COUNTER' = ID_COUNTER /\ simple' = simple
          /\ made = Len(CallsNow) /\ CallsNow = Paragraphs(entry.doc)
          /\ Files' = Append(Files, entry) /\ entry \in Entry
      BY <2>5, CloseFacts DEF Close
    <3>2. /\ DOMAIN Files' = 1 .. Len(Files) + 1 /\ Files'[Len(Files) + 1] = entry
          /\ \A n \in 1 .. Len(Files) : Files'[n] = Files[n]
      BY <1>0, <3>1
    <3>3. Outputs' = Outputs
      <4>1. \A n : n \in DOMAIN Files' <=> n \in DOMAIN Files \/ n = Len(Files) + 1
        BY <1>0, <3>2
      <4>2. Outputs' = {Files'[n].name : n \in DOMAIN Files'}
        BY <3>1 DEF Outputs
      <4>3. Outputs = {Files[n].name : n \in DOMAIN Files} \cup {entry.name}
        BY <3>1 DEF Outputs
      <4>4. \A n \in DOMAIN Files : Files'[n] = Files[n]
        BY <1>0, <3>2
      <4> QED BY <3>2, <4>1, <4>2, <4>3, <4>4
    <3>4. ASSUME NEW n \in DOMAIN Files', Kept(n)'
          PROVE  FileWritten(WORD_TO_ID, Output(n), Files[n].doc)'
      <4>1. CASE n \in DOMAIN Files
        <5>1. Files'[n] = Files[n] /\ n \in 1 .. Len(Files)
          BY <1>0, <3>2, <4>1
        <5>2. \A m \in 1 .. Len(Files) + 1 : m > n => Files'[m].name # Files'[n].name
          BY <3>2, <3>4 DEF Kept, LastOfName
        <5>3. entry.name # Files[n].name
          BY <1>0, <3>2, <5>1, <5>2
        <5>4. Kept(n)
          BY <1>0, <3>2, <5>1, <5>2, <5>3 DEF Kept, LastOfName
        <5>5. Output(n)' = Output(n)
          BY <3>1, <5>1 DEF Output
        <5> QED BY <1>2, <3>1, <4>1, <5>1, <5>4, <5>5, FilesStayWritten
      <4>2. CASE n = Len(Files) + 1
        <5>1. Output(n)' = simple[entry.name] /\ Files'[n].doc = entry.doc
          BY <3>1, <3>2, <4>2 DEF Output
        <5>2. /\ Known(WORD_TO_ID, CallsNow, made)
              /\ simple[entry.name] = Texts(WORD_TO_ID, entry.doc, CallsNow, made)
          BY <1>2, <3>1 DEF Numbering
        <5>3. Paragraphs(Files[n].doc)' = Paragraphs(entry.doc)
          BY <3>1, <3>2, <4>2, SameParagraphs
        <5> QED BY <3>1, <5>1, <5>2, <5>3 DEF FileWritten
      <4>3. n \in DOMAIN Files \/ n = Len(Files) + 1
        BY <1>0, <3>2
      <4> QED BY <4>1, <4>2, <4>3
    <3> QED BY <1>2, <2>0, <3>1, <3>3, <3>4 DEF Numbering
  <2>6. CASE Report
    <3>1. /\ pc = "walk" /\ pc' = "end" /\ kind' = kind /\ result' = WORD_TO_ID
          /\ WORD_TO_ID' = WORD_TO_ID /\ ID_COUNTER' = ID_COUNTER /\ simple' = simple
          /\ done' = done /\ entries' = entries
      BY <1>2, <2>6 DEF Report, tables
    <3>2. Files' = Files /\ entry' = entry
      BY <3>1 DEF Files, entry
    <3>3. /\ OneToOne(WORD_TO_ID, ID_COUNTER)' /\ DOMAIN simple' = Outputs'
          /\ \A n \in DOMAIN Files' : Kept(n)' => FileWritten(WORD_TO_ID, Output(n), Files[n].doc)'
      BY <1>2, <3>1, <3>2, OutputsStay
    <3> QED BY <1>2, <3>1, <3>3 DEF Numbering
  <2>7. CASE Continue
    BY <1>2, <2>7 DEF Continue
  <2> QED BY <2>1, <2>2, <2>3, <2>4, <2>5, <2>6, <2>7 DEF Next, Called
<1> QED BY <1>1, <1>2

LEMMA NumberingStutters ==
    ASSUME Walk, Numbering, UNCHANGED vars
    PROVE  Numbering'
<1>1. /\ pc' = pc /\ kind' = kind /\ result' = result /\ entries' = entries
      /\ WORD_TO_ID' = WORD_TO_ID /\ ID_COUNTER' = ID_COUNTER /\ simple' = simple
  BY DEF vars, tables
<1>2. Files' = Files /\ CallsNow' = CallsNow /\ made' = made /\ entry' = entry
  BY <1>1, WalkStutters DEF entry
<1>3. kind = "simplify" =>
        /\ OneToOne(WORD_TO_ID, ID_COUNTER)' /\ DOMAIN simple' = Outputs'
        /\ \A n \in DOMAIN Files' : Kept(n)' => FileWritten(WORD_TO_ID, Output(n), Files[n].doc)'
  BY <1>1, <1>2, OutputsStay
<1> QED BY <1>1, <1>2, <1>3 DEF Numbering

LEMMA NumberingHolds == Spec => []Numbering
<1>1. Init => Numbering
  BY WalkInit, NumberingInit
<1>2. Walk /\ Walk' /\ Numbering /\ [Next]_vars => Numbering'
  BY NumberingStep, NumberingStutters
<1> QED BY <1>1, <1>2, WalkHolds, PTL DEF Spec

\* simplify_documents, src/src/tasks/simplify_documents.c: with map.txt the .simple file of
\* every name gives back the paragraphs that have words of the last document of that name
THEOREM TextsCanBeDecoded == Spec => []Decodable
<1>1. Walk /\ Numbering => Decodable
  <2> SUFFICES ASSUME Walk, Numbering, pc = "end", kind = "simplify"
               PROVE  Decodable
    BY DEF Decodable
  <2>1. /\ OneToOne(WORD_TO_ID, ID_COUNTER) /\ DOMAIN simple = Outputs /\ result = WORD_TO_ID
        /\ \A n \in DOMAIN Files : Kept(n) => FileWritten(WORD_TO_ID, Output(n), Files[n].doc)
    BY DEF Numbering
  <2>2. IsInjective(result)
    BY <2>1 DEF IsInjective, OneToOne
  <2>3. {result[w] : w \in DOMAIN result} = 0 .. ID_COUNTER - 1
    BY <2>1 DEF OneToOne
  <2>4. DOMAIN simple = {Files[n].name : n \in DOMAIN Files}
    BY <2>1 DEF Outputs
  <2>5. ASSUME NEW n \in DOMAIN Files, LastOfName(n)
        PROVE  LET text  == Paragraphs(Files[n].doc)
                   lines == Picked(text, {k \in DOMAIN text : text[k].words # <<>>})
               IN  simple[Files[n].name] =
                      [k \in DOMAIN lines |->
                          [label |-> LabelIn(Files[n].doc, lines[k]),
                           words |-> [i \in DOMAIN lines[k].words |-> result[lines[k].words[i]]]]]
    <3> DEFINE text == Paragraphs(Files[n].doc)
               d == Files[n].doc
    <3>1. Kept(n)
      BY <2>5 DEF Kept
    <3>2. text \in Seq(Callback) /\ simple[Files[n].name] = Texts(result, d, text, Len(text))
      BY <2>1, <3>1, FilesFacts DEF FileWritten, Output
    <3> HIDE DEF text, d
    <3>3. Full(text, Len(text)) = {k \in DOMAIN text : text[k].words # <<>>}
      BY <3>2 DEF Full
    <3> QED BY <3>2, <3>3 DEF Texts, Line, Numbered, text, d
  <2> QED BY <2>2, <2>3, <2>4, <2>5 DEF Decodable
<1> QED BY <1>1, WalkHolds, NumberingHolds, PTL

-----------------------------------------------------------------------------
(* gen_IDF and gen_TF_IDF: the words of a document. *)

LEMMA SameTimes ==
    ASSUME kind' = kind
    PROVE  \A d, w : Times(d, w)' = Times(d, w)
<1>1. SUFFICES ASSUME NEW d, NEW w PROVE Times(d, w)' = Times(d, w)
  OBVIOUS
<1>2. Paragraphs(d)' = Paragraphs(d)
  BY SameParagraphs
<1> QED BY <1>2 DEF Times

\* Times counts as record_word does
LEMMA TimesCounted ==
    ASSUME NEW d \in Seq(Paragraph), NEW w
    PROVE  LET cs == Paragraphs(d)
           IN  /\ Times(d, w) \in Nat
               /\ Times(d, w) > 0 <=> w \in DOMAIN Counted(cs, Len(cs))
               /\ w \in DOMAIN Counted(cs, Len(cs)) =>
                      w \in Words /\ Counted(cs, Len(cs))[w] = Times(d, w)
<1> DEFINE cs == Paragraphs(d)
           n  == Len(cs)
           P  == Places(cs, n)
           At == {p \in P : WordAt(cs, p) = w}
           U  == UNION {{k} \X {i \in DOMAIN cs[k].words : cs[k].words[i] = w} : k \in DOMAIN cs}
<1>1. cs \in Seq(Callback) /\ n \in Nat /\ DOMAIN cs = 1 .. n /\ n \in 0 .. n
  BY CallsOfType DEF Paragraphs
<1>2. Times(d, w) = Cardinality(U)
  BY DEF Times
<1>3. U = At
  <2>1. ASSUME NEW k \in 1 .. n
        PROVE  cs[k].words \in Seq(Words) /\ DOMAIN cs[k].words \subseteq Nat
    <3>1. cs[k] \in Callback
      BY <1>1
    <3> QED BY <3>1 DEF Callback
  <2> HIDE DEF cs, n
  <2>2. ASSUME NEW p \in U PROVE p \in At
    <3>1. PICK k \in DOMAIN cs : p \in {k} \X {i \in DOMAIN cs[k].words : cs[k].words[i] = w}
      OBVIOUS
    <3>2. PICK i \in DOMAIN cs[k].words : p = <<k, i>> /\ cs[k].words[i] = w
      BY <3>1
    <3>3. k \in 1 .. n /\ i \in Nat
      BY <1>1, <2>1
    <3>4. p \in P
      BY <3>2, <3>3 DEF Places
    <3> QED BY <3>2, <3>4 DEF WordAt
  <2>3. ASSUME NEW p \in At PROVE p \in U
    <3>1. PICK k \in 1 .. n, i \in Nat : p = <<k, i>> /\ i \in DOMAIN cs[k].words
      BY DEF Places
    <3>2. cs[k].words[i] = w /\ k \in DOMAIN cs
      BY <1>1, <3>1 DEF WordAt
    <3>3. p \in {k} \X {j \in DOMAIN cs[k].words : cs[k].words[j] = w}
      BY <3>1, <3>2
    <3> QED BY <3>2, <3>3
  <2> HIDE DEF U, At
  <2> QED BY <2>2, <2>3
<1>4. Counted(cs, n) = [v \in {WordAt(cs, p) : p \in P} |-> Cardinality({p \in P : WordAt(cs, p) = v})]
  BY DEF Counted, HashOf
<1>5. IsFiniteSet(P)
  <2> HIDE DEF cs, n
  <2> QED BY <1>1, PlacesFinite
<1>6. IsFiniteSet(At) /\ Cardinality(At) \in Nat
  <2>1. At \subseteq P
    OBVIOUS
  <2> HIDE DEF At, P
  <2> QED BY <1>5, <2>1, FS_Subset, FS_CardinalityType
<1>7. Cardinality(At) > 0 <=> w \in {WordAt(cs, p) : p \in P}
  <2>1. Cardinality(At) = 0 <=> At = {}
    <3> HIDE DEF At
    <3> QED BY <1>6, FS_EmptySet
  <2>2. At = {} <=> w \notin {WordAt(cs, p) : p \in P}
    <3> HIDE DEF P, cs, n
    <3> QED OBVIOUS
  <2> HIDE DEF At, P
  <2> QED BY <1>6, <2>1, <2>2
<1>8. DOMAIN Counted(cs, n) = {WordAt(cs, p) : p \in P}
  BY <1>4
<1>9. w \in DOMAIN Counted(cs, n) => w \in Words
  <2> HIDE DEF cs, n
  <2> QED BY <1>1, CountedType
<1>10. w \in DOMAIN Counted(cs, n) => Counted(cs, n)[w] = Cardinality(At)
  BY <1>4
<1> HIDE DEF U, At, P
<1> QED BY <1>2, <1>3, <1>6, <1>7, <1>8, <1>9, <1>10

-----------------------------------------------------------------------------
(* gen_IDF and gen_TF_IDF: the words of all documents with content. *)

DocumentFold == INSTANCE FoldFacts WITH op <- record_words

\* The documents in which a word is, counted one document after the other
LEMMA DocumentsFold ==
    ASSUME NEW b, NEW s, NEW n \in Nat, DOMAIN s = 1 .. n
    PROVE  FoldLeft(record_words, b, s) = DocumentFold!Fold(b, s, n)
BY DEF FoldLeft, MapThenFoldSet, DocumentFold!Fold, DocumentFold!IsFold, Max, DocumentFold!Max

LEMMA DocumentsFoldNothing ==
    ASSUME NEW b
    PROVE  FoldLeft(record_words, b, <<>>) = b
<1>1. DOMAIN <<>> = 1 .. 0
  OBVIOUS
<1>2. FoldLeft(record_words, b, <<>>) = DocumentFold!Fold(b, <<>>, 0)
  BY <1>1, DocumentsFold
<1> QED BY <1>2, DocumentFold!FoldNothing

LEMMA DocumentsFoldAppend ==
    ASSUME NEW W, NEW s \in Seq(W), NEW e \in W, NEW b
    PROVE  FoldLeft(record_words, b, Append(s, e)) = record_words(FoldLeft(record_words, b, s), e)
<1> DEFINE t == Append(s, e)
           n == Len(s)
<1>1. /\ n \in Nat /\ DOMAIN s = 1 .. n /\ DOMAIN t = 1 .. n + 1 /\ t[n + 1] = e
      /\ \A i \in 1 .. n : s[i] = t[i]
  OBVIOUS
<1> HIDE DEF t, n
<1>2. FoldLeft(record_words, b, s) = DocumentFold!Fold(b, s, n)
  BY <1>1, DocumentsFold
<1>3. FoldLeft(record_words, b, t) = DocumentFold!Fold(b, t, n + 1)
  <2>1. n + 1 \in Nat
    BY <1>1
  <2> QED BY <1>1, <2>1, DocumentsFold
<1>4. DocumentFold!Fold(b, t, n + 1) = record_words(DocumentFold!Fold(b, s, n), t[n + 1])
  BY <1>1, DocumentFold!FoldAppend
<1> QED BY <1>1, <1>2, <1>3, <1>4 DEF t

\* Every word with the number of documents it is in
ContentTable == [w \in {v \in Words : ContentWith(v) > 0} |-> ContentWith(w)]

LEMMA ContentType ==
    ASSUME Walk
    PROVE  /\ HaveContent \in SUBSET (1 .. Len(done)) /\ Len(done) \in Nat
           /\ IsFiniteSet(HaveContent) /\ Cardinality(HaveContent) \in Nat
           /\ \A w : /\ ContentWith(w) \in Nat /\ ContentWith(w) <= Cardinality(HaveContent)
                     /\ IsFiniteSet({i \in HaveContent : Times(done[i].doc, w) > 0})
<1>1. done \in Seq(Entry)
  BY DEF Walk
<1>2. HaveContent \in SUBSET (1 .. Len(done)) /\ Len(done) \in Nat
  BY <1>1 DEF HaveContent
<1>3. IsFiniteSet(HaveContent) /\ Cardinality(HaveContent) \in Nat
  BY <1>2, FinitePositions
<1>4. ASSUME NEW w
      PROVE  /\ ContentWith(w) \in Nat /\ ContentWith(w) <= Cardinality(HaveContent)
             /\ IsFiniteSet({i \in HaveContent : Times(done[i].doc, w) > 0})
  <2> DEFINE S == {i \in HaveContent : Times(done[i].doc, w) > 0}
  <2>1. S \subseteq HaveContent
    OBVIOUS
  <2>2. ContentWith(w) = Cardinality(S)
    BY DEF ContentWith
  <2>3. IsFiniteSet(S) /\ Cardinality(S) <= Cardinality(HaveContent)
    <3> HIDE DEF S
    <3> QED BY <1>3, <2>1, FS_Subset
  <2>4. Cardinality(S) \in Nat
    BY <2>3, FS_CardinalityType
  <2> HIDE DEF S
  <2>5. ContentWith(w) \in Nat /\ ContentWith(w) <= Cardinality(HaveContent)
    BY <2>2, <2>3, <2>4
  <2> QED BY <2>3, <2>5 DEF S
<1> QED BY <1>2, <1>3, <1>4

\* Skipped entries have no content for the tasks that skip
LEMMA ContentSkip ==
    ASSUME Walk, Skip, kind \in Serial
    PROVE  /\ HaveContent' = HaveContent /\ WithContent' = WithContent
           /\ \A w : ContentWith(w)' = ContentWith(w)
<1>1. /\ done \in Seq(Entry) /\ done' = Append(done, entry) /\ entry \in Entry /\ kind' = kind
      /\ entry.type = "directory" \/ ~Found(entry.doc, "relaxed")
  BY SkipFacts DEF Walk
<1>2. /\ DOMAIN done' = 1 .. Len(done) + 1 /\ DOMAIN done = 1 .. Len(done) /\ Len(done) \in Nat
      /\ done'[Len(done) + 1] = entry /\ \A i \in 1 .. Len(done) : done'[i] = done[i]
  BY <1>1
<1>3. HaveContent' = HaveContent
  BY <1>1, <1>2 DEF HaveContent
<1>4. \A i \in HaveContent : done'[i] = done[i]
  BY <1>2 DEF HaveContent
<1>5. WithContent' = WithContent
  <2>1. Picked(done', HaveContent) = Picked(done, HaveContent)
    <3>1. HaveContent \in SUBSET (1 .. Len(done)) /\ Len(done) \in Nat
      BY ContentType
    <3> QED BY <1>4, <3>1, PickedSame
  <2> QED BY <1>3, <2>1 DEF WithContent
<1>6. \A d, w : Times(d, w)' = Times(d, w)
  BY <1>1, SameTimes
<1>7. ASSUME NEW w PROVE ContentWith(w)' = ContentWith(w)
  <2>1. {i \in HaveContent : Times(done[i].doc, w) > 0}' = {i \in HaveContent : Times(done[i].doc, w) > 0}
    BY <1>3, <1>4, <1>6
  <2> QED BY <2>1 DEF ContentWith
<1> QED BY <1>3, <1>5, <1>7

\* A document with content more
LEMMA ContentClose ==
    ASSUME Walk, Close, kind \in Serial
    PROVE  /\ HaveContent' = HaveContent \cup {Len(done) + 1}
           /\ Cardinality(HaveContent') = Cardinality(HaveContent) + 1
           /\ WithContent' = Append(WithContent, entry)
           /\ \A w : ContentWith(w)' =
                        ContentWith(w) + IF Times(entry.doc, w) > 0 THEN 1 ELSE 0
<1>1. /\ done \in Seq(Entry) /\ done' = Append(done, entry) /\ entry \in Entry /\ kind' = kind
      /\ entry.type = "file" /\ Found(entry.doc, "relaxed")
  BY CloseFacts DEF Walk, InDocument
<1>2. /\ DOMAIN done' = 1 .. Len(done) + 1 /\ DOMAIN done = 1 .. Len(done) /\ Len(done) \in Nat
      /\ done'[Len(done) + 1] = entry /\ \A i \in 1 .. Len(done) : done'[i] = done[i]
  BY <1>1
<1>3. HaveContent' = HaveContent \cup {Len(done) + 1}
  BY <1>1, <1>2 DEF HaveContent
<1>4. /\ HaveContent \in SUBSET (1 .. Len(done)) /\ IsFiniteSet(HaveContent)
      /\ Cardinality(HaveContent) \in Nat /\ Len(done) + 1 \notin HaveContent
  BY <1>2, ContentType
<1>5. Cardinality(HaveContent') = Cardinality(HaveContent) + 1
  BY <1>3, <1>4, FS_AddElement
<1>6. WithContent' = Append(WithContent, entry)
  <2>1. Picked(Append(done, entry), HaveContent \cup {Len(done) + 1}) = Append(Picked(done, HaveContent), entry)
    BY <1>1, <1>4, PickedNext
  <2> QED BY <1>1, <1>3, <2>1 DEF WithContent
<1>7. \A d, w : Times(d, w)' = Times(d, w)
  BY <1>1, SameTimes
<1>8. ASSUME NEW w
      PROVE  ContentWith(w)' = ContentWith(w) + IF Times(entry.doc, w) > 0 THEN 1 ELSE 0
  <2> DEFINE S == {i \in HaveContent : Times(done[i].doc, w) > 0}
             T == {i \in HaveContent' : Times(done'[i].doc, w) > 0}
  <2>1. ContentWith(w) = Cardinality(S)
    BY DEF ContentWith
  <2>2. ContentWith(w)' = Cardinality(T)
    BY <1>7 DEF ContentWith
  <2>3. IsFiniteSet(S) /\ Len(done) + 1 \notin S /\ Cardinality(S) \in Nat
    <3>1. IsFiniteSet(S) /\ Cardinality(S) \in Nat
      BY <2>1, ContentType
    <3> QED BY <1>4, <3>1
  <2>4. T = IF Times(entry.doc, w) > 0 THEN S \cup {Len(done) + 1} ELSE S
    BY <1>2, <1>3, <1>4
  <2> HIDE DEF S, T
  <2>5. Cardinality(S \cup {Len(done) + 1}) = Cardinality(S) + 1
    BY <2>3, FS_AddElement
  <2> QED BY <2>1, <2>2, <2>3, <2>4, <2>5
<1> QED BY <1>3, <1>5, <1>6, <1>8

\* record_words is what it takes
LEMMA TableClose ==
    ASSUME Walk, Close, kind \in Serial
    PROVE  ContentTable' = record_words(ContentTable, Counted(CallsNow, made))
<1> DEFINE t == Counted(CallsNow, made)
           D == {v \in Words : ContentWith(v) > 0}
           E == {v \in Words : ContentWith(v)' > 0}
<1>1. /\ entry.doc \in Seq(Paragraph) /\ CallsNow = Paragraphs(entry.doc) /\ made = Len(CallsNow)
  BY CloseFacts, NextEntry
<1>2. \A w : /\ Times(entry.doc, w) \in Nat /\ (Times(entry.doc, w) > 0 <=> w \in DOMAIN t)
             /\ w \in DOMAIN t => w \in Words
  BY <1>1, TimesCounted
<1> HIDE DEF t
<1>3. \A w : ContentWith(w)' = ContentWith(w) + IF w \in DOMAIN t THEN 1 ELSE 0
  BY <1>2, ContentClose
<1>4. \A w : ContentWith(w) \in Nat
  BY ContentType
<1>5. E = D \cup DOMAIN t
  BY <1>2, <1>3, <1>4
<1>6. \A w \in Words : Count(ContentTable, w) = ContentWith(w)
  BY <1>4 DEF Count, ContentTable
<1>7. DOMAIN ContentTable = D
  BY DEF ContentTable
<1>8. ContentTable' = [w \in E |-> ContentWith(w)']
  BY DEF ContentTable
<1>9. record_words(ContentTable, t)
         = [w \in D \cup DOMAIN t |-> Count(ContentTable, w) + IF w \in DOMAIN t THEN 1 ELSE 0]
  BY <1>7 DEF record_words
<1>10. \A w \in E : ContentWith(w)' = Count(ContentTable, w) + IF w \in DOMAIN t THEN 1 ELSE 0
  BY <1>3, <1>6
<1> HIDE DEF D, E
<1> QED BY <1>5, <1>8, <1>9, <1>10 DEF t

-----------------------------------------------------------------------------
(* gen_IDF, gen_TF_IDF and gen_rnnlm_input: the tables. *)

\* The words of the corpus gen_rnnlm_input has the counts of
CountedTable == [w \in {v \in Words : CountedWith(v) > 0} |-> CountedWith(w)]

Frequencies ==
    /\ DF = IF kind \in {"idf", "tf_idf"} /\ pc = "document" THEN Counted(CallsNow, made) ELSE Empty
    /\ kind = "idf" => CF = ContentTable /\ corpus_size = Cardinality(HaveContent)
    /\ kind # "idf" => corpus_size = 0
    /\ kind = "rnnlm" => CF = CountedTable
    /\ kind \notin {"idf", "rnnlm"} => CF = Empty
    /\ kind = "tf_idf" =>
        /\ documents \in Seq(Tables) /\ WithContent \in Seq(Entry)
        /\ Len(documents) = Len(WithContent)
        /\ \A n \in DOMAIN WithContent :
              LET cs == Paragraphs(WithContent[n].doc) IN documents[n] = Counted(cs, Len(cs))
        /\ FoldLeft(record_words, Empty, documents) = ContentTable
    /\ kind # "tf_idf" => documents = <<>>
    /\ pc = "end" /\ kind = "idf" => result = compute_idf
    /\ pc = "end" /\ kind = "tf_idf" => result = compute_tf_idf

LEMMA FrequenciesInit ==
    ASSUME Init, Walk
    PROVE  Frequencies
<1>1. /\ pc = "walk" /\ done = <<>> /\ DF = Empty /\ CF = Empty /\ corpus_size = 0
      /\ documents = <<>> /\ kind \in Kinds
  BY DEF Init
<1>2. kind # "rnnlm"
  BY <1>1, CorpusAssumption DEF Ngrams
<1>3. HaveContent = {}
  BY <1>1 DEF HaveContent
<1>4. Cardinality({}) = 0
  BY FS_EmptySet
<1>5. ASSUME NEW w PROVE ContentWith(w) = 0
  <2>1. {i \in {} : Times(done[i].doc, w) > 0} = {}
    OBVIOUS
  <2> QED BY <1>3, <1>4, <2>1 DEF ContentWith
<1>6. ContentTable = Empty
  <2>1. {v \in Words : ContentWith(v) > 0} = {}
    BY <1>5
  <2> QED BY <2>1 DEF ContentTable, Empty
<1>7. WithContent = <<>>
  BY <1>1, <1>3, PickedNothing DEF WithContent
<1>8. FoldLeft(record_words, Empty, <<>>) = Empty
  BY DocumentsFoldNothing
<1>9. <<>> \in Seq(Tables) /\ <<>> \in Seq(Entry) /\ Len(<<>>) = 0 /\ DOMAIN <<>> = {}
  OBVIOUS
<1> QED BY <1>1, <1>2, <1>3, <1>4, <1>6, <1>7, <1>8, <1>9 DEF Frequencies

LEMMA ContentSame ==
    ASSUME kind' = kind, done' = done
    PROVE  /\ HaveContent' = HaveContent /\ WithContent' = WithContent
           /\ ContentTable' = ContentTable
<1>1. HaveContent' = HaveContent /\ WithContent' = WithContent
  BY DEF HaveContent, WithContent
<1>2. \A w : ContentWith(w)' = ContentWith(w)
  <2> SUFFICES ASSUME NEW w PROVE ContentWith(w)' = ContentWith(w)
    OBVIOUS
  <2>1. \A d : Times(d, w)' = Times(d, w)
    BY SameTimes
  <2> QED BY <1>1, <2>1 DEF ContentWith
<1> QED BY <1>1, <1>2 DEF ContentTable

\* The table of gen_IDF is that of the corpus it has gone through
LEMMA TableContinue ==
    ASSUME Walk, Continue
    PROVE  CountedTable' = ContentTable
<1>1. kind = "idf" /\ counted' = done /\ done \in Seq(Entry)
  BY DEF Continue, Walk
<1>2. ASSUME NEW d \in Seq(Paragraph), NEW w
      PROVE  /\ (\E k \in DOMAIN TextOf(d) : w \in ToSet(TextOf(d)[k].words)) <=> Times(d, w) > 0
             /\ Times(d, w) > 0 => Found(d, "relaxed")
  <2> DEFINE x     == Scope(d)
             nodes == Nodes(d, x)
             cs    == Paragraphs(d)
             n     == Len(cs)
             text(k) == WordsOf(d[nodes[k]], {"normalize", "stem"})
  <2>1. cs = [k \in DOMAIN nodes |-> [words |-> text(k), node |-> nodes[k]]]
    BY <1>1 DEF Paragraphs, CallsOf, Flags, Serial
  <2>2. TextOf(d) = [k \in DOMAIN nodes |-> [words |-> text(k), definition |-> d[nodes[k]].definition]]
    BY DEF TextOf
  <2>3. cs \in Seq(Callback) /\ n \in Nat /\ DOMAIN cs = 1 .. n
    BY CallsOfType DEF Paragraphs
  <2>4. nodes \in Seq(Selected(d, x))
    BY SelectedType, InOrderType DEF Nodes
  <2>5. Times(d, w) > 0 <=> w \in DOMAIN Counted(cs, n)
    BY TimesCounted
  <2> HIDE DEF text
  <2>6. DOMAIN TextOf(d) = DOMAIN cs /\ \A k \in DOMAIN cs : TextOf(d)[k].words = cs[k].words
    <3> HIDE DEF nodes, cs
    <3> QED BY <2>1, <2>2
  <2>7. ASSUME NEW k \in DOMAIN cs, w \in ToSet(cs[k].words) PROVE w \in DOMAIN Counted(cs, n)
    <3> HIDE DEF cs
    <3> QED BY <2>3, <2>7, CountedAll
  <2>8. ASSUME w \in DOMAIN Counted(cs, n) PROVE \E k \in DOMAIN cs : w \in ToSet(cs[k].words)
    <3> HIDE DEF cs, n
    <3>1. PICK p \in Places(cs, n) : WordAt(cs, p) = w
      BY <2>8 DEF Counted, HashOf
    <3>2. p[1] \in 1 .. n /\ p[2] \in DOMAIN cs[p[1]].words /\ cs[p[1]].words[p[2]] = w
      BY <3>1 DEF Places, WordAt
    <3> QED BY <2>3, <3>2 DEF ToSet
  <2>9. ASSUME NEW k \in DOMAIN cs PROVE Found(d, "relaxed")
    <3>1. k \in DOMAIN nodes
      BY <2>1
    <3>2. nodes[k] \in Selected(d, x)
      <4> HIDE DEF nodes
      <4> QED BY <2>4, <3>1
    <3>3. nodes[k] \in Selected(d, "relaxed")
      BY <3>2 DEF Selected
    <3> QED BY <3>3 DEF Found
  <2> HIDE DEF cs, n, nodes
  <2> QED BY <2>5, <2>6, <2>7, <2>8, <2>9
<1>3. ASSUME NEW w PROVE CountedWith(w)' = ContentWith(w)
  <2> DEFINE A == {i \in DOMAIN done : done[i].type = "file" /\
                      \E k \in DOMAIN TextOf(done[i].doc) : w \in ToSet(TextOf(done[i].doc)[k].words)}
             B == {i \in HaveContent : Times(done[i].doc, w) > 0}
  <2>1. \A i \in DOMAIN done : done[i].doc \in Seq(Paragraph)
    <3>1. \A i \in DOMAIN done : done[i] \in Entry
      BY <1>1
    <3> QED BY <3>1 DEF Entry
  <2>2. A = B
    BY <1>2, <2>1 DEF HaveContent
  <2>3. CountedWith(w)' = Cardinality(A)
    BY <1>1 DEF CountedWith
  <2>4. ContentWith(w) = Cardinality(B)
    BY DEF ContentWith
  <2> QED BY <2>2, <2>3, <2>4
<1> QED BY <1>3 DEF CountedTable, ContentTable

LEMMA CountedSame ==
    ASSUME counted' = counted
    PROVE  CountedTable' = CountedTable
BY DEF CountedTable, CountedWith

LEMMA CountedIsTable ==
    ASSUME NEW cs \in Seq(Callback), NEW n \in 0 .. Len(cs)
    PROVE  Counted(cs, n) \in Tables
<1> DEFINE t == Counted(cs, n)
<1>1. DOMAIN t \in SUBSET Words /\ \A w \in DOMAIN t : t[w] \in Nat
  BY CountedType
<1>2. t = [w \in DOMAIN t |-> t[w]]
  BY DEF Counted, HashOf
<1> HIDE DEF t
<1> QED BY <1>1, <1>2 DEF Tables, t

\* A step that leaves the tables, the task, the corpus so far and what is written
LEMMA FrequenciesStay ==
    ASSUME Frequencies, kind' = kind, CF' = CF, corpus_size' = corpus_size, documents' = documents,
           counted' = counted,
           kind \in Serial => /\ HaveContent' = HaveContent /\ WithContent' = WithContent
                              /\ ContentTable' = ContentTable,
           DF' = (IF kind \in {"idf", "tf_idf"} /\ pc = "document" THEN Counted(CallsNow, made) ELSE Empty)',
           pc' = "end" /\ kind = "idf" => result' = compute_idf,
           pc' = "end" /\ kind = "tf_idf" => result' = compute_tf_idf
    PROVE  Frequencies'
<1>1. CountedTable' = CountedTable
  BY CountedSame
<1>2. compute_idf' = compute_idf /\ compute_tf_idf' = compute_tf_idf
  BY DEF compute_idf, compute_tf_idf
<1>3. kind = "idf" => CF' = ContentTable' /\ corpus_size' = Cardinality(HaveContent)'
  BY DEF Frequencies, Serial
<1>4. kind = "tf_idf" =>
        /\ documents' \in Seq(Tables) /\ WithContent' \in Seq(Entry)
        /\ Len(documents)' = Len(WithContent)'
        /\ FoldLeft(record_words, Empty, documents)' = ContentTable'
  BY DEF Frequencies, Serial
<1>5. kind = "tf_idf" =>
        (\A n \in DOMAIN WithContent :
              LET cs == Paragraphs(WithContent[n].doc) IN documents[n] = Counted(cs, Len(cs)))'
  <2> SUFFICES ASSUME kind = "tf_idf", NEW n \in DOMAIN WithContent
               PROVE  (LET cs == Paragraphs(WithContent[n].doc) IN documents[n] = Counted(cs, Len(cs)))'
    BY DEF Serial
  <2>1. Paragraphs(WithContent[n].doc)' = Paragraphs(WithContent[n].doc)
    BY SameParagraphs DEF Serial
  <2> QED BY <2>1 DEF Frequencies
<1>6. /\ kind # "idf" => corpus_size' = 0
      /\ kind = "rnnlm" => CF' = CountedTable'
      /\ kind \notin {"idf", "rnnlm"} => CF' = Empty
      /\ kind # "tf_idf" => documents' = <<>>
  BY <1>1 DEF Frequencies
<1> QED BY <1>2, <1>3, <1>4, <1>5, <1>6 DEF Frequencies

LEMMA FrequenciesStep ==
    ASSUME Walk, Walk', Frequencies, Next
    PROVE  Frequencies'
<1> DEFINE InText == kind \in {"idf", "tf_idf"} /\ pc = "document"
<1>1. CASE Skip
  <2>1. /\ kind' = kind /\ pc' = "walk" /\ pc = "walk" /\ CF' = CF /\ corpus_size' = corpus_size
        /\ documents' = documents /\ counted' = counted /\ DF' = DF
    BY <1>1, SkipFacts DEF tables
  <2>2. kind \in Serial => /\ HaveContent' = HaveContent /\ WithContent' = WithContent
                           /\ ContentTable' = ContentTable
    BY <1>1, ContentSkip DEF ContentTable
  <2>3. DF = Empty
    BY <2>1 DEF Frequencies
  <2> QED BY <2>1, <2>2, <2>3, FrequenciesStay
<1>2. CASE Open
  <2>1. /\ kind' = kind /\ pc' = "document" /\ pc = "walk" /\ CF' = CF /\ corpus_size' = corpus_size
        /\ documents' = documents /\ counted' = counted /\ DF' = DF /\ done' = done /\ made' = 0
        /\ CallsNow' \in Seq(Callback)
    BY <1>2, OpenFacts DEF Open
  <2>2. DF = Empty
    BY <2>1 DEF Frequencies
  <2>3. Counted(CallsNow', 0) = Empty
    <3>1. Places(CallsNow', 0) = {}
      <4>1. (1 .. 0) \X Nat = {}
        OBVIOUS
      <4> QED BY <4>1 DEF Places
    <3> QED BY <3>1, NoPlaces DEF Counted
  <2> QED BY <2>1, <2>2, <2>3, ContentSame, FrequenciesStay
<1>3. CASE Called
  <2>1. /\ kind' = kind /\ pc' = "document" /\ pc = "document" /\ CF' = CF /\ corpus_size' = corpus_size
        /\ documents' = documents /\ counted' = counted /\ done' = done
        /\ CallsNow' = CallsNow /\ made' = made + 1 /\ made + 1 \in 1 .. Len(CallsNow)
        /\ Head(calls) = CallsNow[made + 1]
    BY <1>3, CalledFacts
  <2>2. DF' = IF kind \in {"idf", "tf_idf"} THEN Counted(CallsNow, made + 1) ELSE Empty
    <3>1. CASE kind \in {"idf", "tf_idf"}
      <4>1. CountWords
        BY <1>3, <3>1 DEF Called, CountNgrams, WriteLine, WriteSentences, Ngrams
      <4>2. DF' = FoldLeft(record_word, DF, CallsNow[made + 1].words)
        BY <2>1, <4>1 DEF CountWords
      <4>3. DF = Counted(CallsNow, made)
        BY <2>1, <3>1 DEF Frequencies
      <4>4. CallsNow \in Seq(Callback) /\ made \in Nat /\ made + 1 <= Len(CallsNow)
        BY <2>1, CallsNowType
      <4> HIDE DEF CallsNow, made
      <4> QED BY <3>1, <4>2, <4>3, <4>4, CallCounted
    <3>2. CASE kind \notin {"idf", "tf_idf"}
      <4>1. DF' = DF
        BY <1>3, <3>2 DEF Called, CountNgrams, CountWords, WriteLine, WriteSentences
      <4> QED BY <3>2, <4>1 DEF Frequencies
    <3> QED BY <3>1, <3>2
  <2> QED BY <2>1, <2>2, ContentSame, FrequenciesStay
<1>4. CASE Relax
  <2>1. /\ kind' = kind /\ pc' = "document" /\ pc = "document" /\ CF' = CF /\ corpus_size' = corpus_size
        /\ documents' = documents /\ counted' = counted /\ done' = done /\ DF' = DF
        /\ kind \notin {"idf", "tf_idf"}
    BY <1>4, RelaxFacts DEF tables, Serial
  <2>2. DF = Empty
    BY <2>1 DEF Frequencies
  <2> QED BY <2>1, <2>2, ContentSame, FrequenciesStay
<1>5. CASE Close
  <2>1. /\ kind' = kind /\ pc' = "walk" /\ pc = "document" /\ counted' = counted /\ DF' = Empty
        /\ corpus_size' = corpus_size + (IF kind = "idf" THEN 1 ELSE 0)
        /\ CF' = IF kind = "idf" THEN record_words(CF, DF) ELSE CF
        /\ documents' = IF kind = "tf_idf" THEN Append(documents, DF) ELSE documents
        /\ done' = Append(done, entry)
    BY <1>5, CloseFacts DEF Close
  <2>2. CountedTable' = CountedTable
    BY <2>1, CountedSame
  <2>3. CASE kind \notin {"idf", "tf_idf"}
    <3>1. /\ CF' = CF /\ documents' = documents /\ documents = <<>>
          /\ kind = "rnnlm" => CF = CountedTable
          /\ kind # "rnnlm" => CF = Empty
          /\ corpus_size = 0
      BY <2>1, <2>3 DEF Frequencies
    <3>2. corpus_size' = 0
      BY <2>1, <2>3, <3>1
    <3> QED BY <2>1, <2>2, <2>3, <3>1, <3>2 DEF Frequencies
  <2>4. kind \in {"idf", "tf_idf"} =>
          /\ DF = Counted(CallsNow, made)
          /\ ContentTable' = record_words(ContentTable, DF)
    BY <1>5, <2>1, TableClose DEF Frequencies, Serial
  <2>5. CASE kind = "idf"
    <3>1. /\ CF = ContentTable /\ corpus_size = Cardinality(HaveContent) /\ documents = <<>>
      BY <2>5 DEF Frequencies
    <3>2. corpus_size' = Cardinality(HaveContent')
      BY <1>5, <2>1, <2>5, <3>1, ContentClose DEF Serial
    <3>3. CF' = ContentTable' /\ documents' = <<>>
      BY <2>1, <2>4, <2>5, <3>1
    <3> QED BY <2>1, <2>5, <3>2, <3>3 DEF Frequencies
  <2>6. CASE kind = "tf_idf"
    <3>1. /\ documents \in Seq(Tables) /\ WithContent \in Seq(Entry)
          /\ Len(documents) = Len(WithContent) /\ CF = Empty /\ corpus_size = 0
          /\ \A n \in DOMAIN WithContent :
                LET cs == Paragraphs(WithContent[n].doc) IN documents[n] = Counted(cs, Len(cs))
          /\ FoldLeft(record_words, Empty, documents) = ContentTable
      BY <2>6 DEF Frequencies
    <3>2. /\ entry \in Entry /\ CallsNow = Paragraphs(entry.doc) /\ made = Len(CallsNow)
          /\ entry.doc \in Seq(Paragraph)
      BY <1>5, CloseFacts, NextEntry
    <3>3. DF \in Tables /\ DF = Counted(Paragraphs(entry.doc), Len(Paragraphs(entry.doc)))
      <4>1. Paragraphs(entry.doc) \in Seq(Callback)
        BY <3>2, CallsOfType DEF Paragraphs
      <4> DEFINE cs == Paragraphs(entry.doc)
      <4>2. Len(cs) \in 0 .. Len(cs)
        BY <4>1
      <4>3. DF = Counted(cs, Len(cs))
        BY <2>4, <2>6, <3>2
      <4> HIDE DEF cs
      <4>4. Counted(cs, Len(cs)) \in Tables
        BY <4>1, <4>2, CountedIsTable DEF cs
      <4> QED BY <4>3, <4>4 DEF cs
    <3>4. WithContent' = Append(WithContent, entry) /\ documents' = Append(documents, DF)
      BY <1>5, <2>1, <2>6, ContentClose DEF Serial
    <3>5. FoldLeft(record_words, Empty, documents') = ContentTable'
      <4>1. FoldLeft(record_words, Empty, Append(documents, DF))
               = record_words(FoldLeft(record_words, Empty, documents), DF)
        BY <3>1, <3>3, DocumentsFoldAppend
      <4> QED BY <2>4, <2>6, <3>1, <3>4, <4>1
    <3>6. /\ documents' \in Seq(Tables) /\ WithContent' \in Seq(Entry)
          /\ Len(documents') = Len(WithContent')
          /\ Len(WithContent) \in Nat /\ DOMAIN WithContent' = 1 .. Len(WithContent) + 1
          /\ DOMAIN WithContent = 1 .. Len(WithContent)
          /\ WithContent'[Len(WithContent) + 1] = entry /\ documents'[Len(WithContent) + 1] = DF
          /\ \A n \in 1 .. Len(WithContent) : /\ WithContent'[n] = WithContent[n]
                                              /\ documents'[n] = documents[n]
      BY <3>1, <3>2, <3>3, <3>4
    <3>7. ASSUME NEW n \in DOMAIN WithContent'
          PROVE  (LET cs == Paragraphs(WithContent[n].doc) IN documents[n] = Counted(cs, Len(cs)))'
      <4> DEFINE d == WithContent'[n].doc
      <4>1. Paragraphs(WithContent[n].doc)' = Paragraphs(d)
        BY <2>1, SameParagraphs
      <4>2. n \in 1 .. Len(WithContent) \/ n = Len(WithContent) + 1
        <5>1. n \in 1 .. Len(WithContent) + 1 /\ Len(WithContent) \in Nat
          BY <3>6
        <5> QED BY <5>1
      <4>3. documents'[n] = Counted(Paragraphs(d), Len(Paragraphs(d)))
        BY <3>1, <3>3, <3>6, <4>2
      <4> HIDE DEF d
      <4> QED BY <4>1, <4>3
    <3>8. CF' = Empty /\ corpus_size' = 0
      BY <2>1, <2>6, <3>1
    <3> QED BY <2>1, <2>6, <3>5, <3>6, <3>7, <3>8 DEF Frequencies
  <2> QED BY <2>3, <2>5, <2>6
<1>6. CASE Report
  <2>1. /\ kind' = kind /\ pc' = "end" /\ pc = "walk" /\ CF' = CF /\ corpus_size' = corpus_size
        /\ documents' = documents /\ counted' = counted /\ done' = done /\ DF' = DF
        /\ kind = "idf" => result' = compute_idf
        /\ kind = "tf_idf" => result' = compute_tf_idf
    BY <1>6 DEF Report, tables
  <2>2. DF = Empty
    BY <2>1 DEF Frequencies
  <2> QED BY <2>1, <2>2, ContentSame, FrequenciesStay
<1>7. CASE Continue
  <2>1. /\ kind = "idf" /\ kind' = "rnnlm" /\ pc' = "walk" /\ pc = "end" /\ CF' = CF /\ DF' = DF
        /\ corpus_size' = 0 /\ documents' = documents
    BY <1>7 DEF Continue
  <2>2. CountedTable' = ContentTable
    BY <1>7, TableContinue
  <2>3. DF = Empty /\ CF = ContentTable /\ documents = <<>>
    BY <2>1 DEF Frequencies
  <2> QED BY <2>1, <2>2, <2>3 DEF Frequencies
<1> QED BY <1>1, <1>2, <1>3, <1>4, <1>5, <1>6, <1>7 DEF Next, Called

LEMMA FrequenciesHold == Spec => []Frequencies
<1>1. Init => Frequencies
  BY WalkInit, FrequenciesInit
<1>2. ASSUME Walk, Frequencies, UNCHANGED vars PROVE Frequencies'
  <2>1. /\ kind' = kind /\ pc' = pc /\ CF' = CF /\ corpus_size' = corpus_size /\ result' = result
        /\ documents' = documents /\ counted' = counted /\ done' = done /\ DF' = DF
    BY <1>2 DEF vars, tables
  <2>2. CallsNow' = CallsNow /\ made' = made
    BY <1>2, WalkStutters
  <2>3. DF' = (IF kind \in {"idf", "tf_idf"} /\ pc = "document" THEN Counted(CallsNow, made) ELSE Empty)'
    BY <1>2, <2>1, <2>2 DEF Frequencies
  <2> QED BY <1>2, <2>1, <2>3, ContentSame, FrequenciesStay DEF Frequencies
<1>3. Walk /\ Walk' /\ Frequencies /\ [Next]_vars => Frequencies'
  BY <1>2, FrequenciesStep
<1> QED BY <1>1, <1>3, WalkHolds, PTL DEF Spec

-----------------------------------------------------------------------------
(* gen_rnnlm_input: the lines. *)

TextAt(fs, p) == TextOf(fs[p[1]].doc)[p[2]]

\* Of some paragraphs those that make a line of a file
LinesAmong(fs, P, file) ==
    {p \in P : TextAt(fs, p).words # <<>> /\ (TextAt(fs, p).definition <=> file = "positive")}

\* The line of a paragraph
LineFor(words) == [i \in DOMAIN words |-> IF Count(CF, words[i]) > Rare THEN words[i] ELSE Unknown]

Written(out, fs, L) ==
    /\ IsFiniteSet(L) /\ Len(out) = Cardinality(L)
    /\ \A p \in L : out[LineOf(p, L)] = LineFor(TextAt(fs, p).words)

\* A line more, behind all others
LEMMA LineMore ==
    ASSUME NEW W, NEW out \in Seq(W), NEW fs, NEW L, Written(out, fs, L),
           NEW q, q \notin L, NotBehind(q, q), \A p \in L : NotBehind(p, p) /\ NotBehind(p, q) /\ ~NotBehind(q, p),
           LineFor(TextAt(fs, q).words) \in W
    PROVE  Written(Append(out, LineFor(TextAt(fs, q).words)), fs, L \cup {q})
<1> DEFINE M    == L \cup {q}
           line == LineFor(TextAt(fs, q).words)
           new  == Append(out, line)
<1>1. IsFiniteSet(L) /\ Len(out) = Cardinality(L) /\ Cardinality(L) \in Nat
  BY FS_CardinalityType DEF Written
<1>2. IsFiniteSet(M) /\ Cardinality(M) = Cardinality(L) + 1
  BY <1>1, FS_AddElement
<1>3. Len(new) = Cardinality(M) /\ new[Cardinality(M)] = line
      /\ \A i \in 1 .. Cardinality(L) : new[i] = out[i]
  <2> HIDE DEF line, M
  <2> QED BY <1>1, <1>2
<1>4. LineOf(q, M) = Cardinality(M)
  <2>1. {r \in M : NotBehind(r, q)} = M
    OBVIOUS
  <2> QED BY <2>1 DEF LineOf
<1>5. ASSUME NEW p \in L
      PROVE  LineOf(p, M) = LineOf(p, L) /\ LineOf(p, L) \in 1 .. Cardinality(L)
  <2> DEFINE B == {r \in L : NotBehind(r, p)}
  <2>1. {r \in M : NotBehind(r, p)} = B
    OBVIOUS
  <2>2. p \in B /\ B \subseteq L
    OBVIOUS
  <2>3. LineOf(p, M) = Cardinality(B) /\ LineOf(p, L) = Cardinality(B)
    BY <2>1 DEF LineOf
  <2> HIDE DEF B
  <2>4. IsFiniteSet(B) /\ Cardinality(B) <= Cardinality(L)
    BY <1>1, <2>2, FS_Subset
  <2>5. Cardinality(B) \in Nat /\ Cardinality(B) # 0
    BY <2>2, <2>4, FS_CardinalityType, FS_EmptySet
  <2> QED BY <1>1, <2>3, <2>4, <2>5
<1>6. ASSUME NEW p \in M PROVE new[LineOf(p, M)] = LineFor(TextAt(fs, p).words)
  <2>1. CASE p \in L
    BY <1>3, <1>5, <2>1 DEF Written
  <2>2. CASE p = q
    BY <1>3, <1>4, <2>2
  <2> QED BY <2>1, <2>2
<1> HIDE DEF M, new
<1> QED BY <1>2, <1>3, <1>6 DEF Written, M, new, line

\* What is written is about the texts of the paragraphs only
LEMMA WrittenSame ==
    ASSUME NEW out, NEW fs, NEW gs, NEW P, NEW file, \A p \in P : TextAt(gs, p) = TextAt(fs, p)
    PROVE  /\ LinesAmong(gs, P, file) = LinesAmong(fs, P, file)
           /\ Written(out, fs, LinesAmong(fs, P, file)) => Written(out, gs, LinesAmong(gs, P, file))
<1>1. LinesAmong(gs, P, file) = LinesAmong(fs, P, file)
  BY DEF LinesAmong
<1>2. \A p \in LinesAmong(fs, P, file) : TextAt(gs, p) = TextAt(fs, p)
  BY DEF LinesAmong
<1> QED BY <1>1, <1>2 DEF Written

\* The paragraphs gone through
PairsOf(fs) == UNION {{n} \X DOMAIN TextOf(fs[n].doc) : n \in DOMAIN fs}

PairsNow == PairsOf(Files) \cup IF pc = "document" THEN {Len(Files) + 1} \X (1 .. made) ELSE {}

FilesNow == IF pc = "document" THEN Append(Files, entry) ELSE Files

LineWords == Words \cup {Unknown}

LanguageModel ==
    /\ kind # "rnnlm" => lm = [positive |-> <<>>, negative |-> <<>>]
    /\ lm \in [positive : Seq(Seq(LineWords)), negative : Seq(Seq(LineWords))]
    /\ kind = "rnnlm" =>
          \A file \in {"positive", "negative"} :
              Written(lm[file], FilesNow, LinesAmong(FilesNow, PairsNow, file))

\* The texts of a document
LEMMA TextType ==
    ASSUME NEW d \in Seq(Paragraph)
    PROVE  /\ DOMAIN TextOf(d) = 1 .. Len(TextOf(d)) /\ Len(TextOf(d)) \in Nat
           /\ \A k \in DOMAIN TextOf(d) :
                 TextOf(d)[k].words \in Seq(Words) /\ TextOf(d)[k].definition \in BOOLEAN
           /\ ~Found(d, "relaxed") => DOMAIN TextOf(d) = {}
<1> DEFINE nodes == Nodes(d, Scope(d))
           text(k) == WordsOf(d[nodes[k]], {"normalize", "stem"})
<1>1. TextOf(d) = [k \in DOMAIN nodes |-> [words |-> text(k), definition |-> d[nodes[k]].definition]]
  BY DEF TextOf
<1>2. nodes \in Seq(1 .. Len(d)) /\ Len(nodes) \in Nat /\ DOMAIN nodes = 1 .. Len(nodes)
  <2>1. nodes \in Seq(1 .. Len(d))
    BY NodesType
  <2> HIDE DEF nodes
  <2> QED BY <2>1
<1>3. ASSUME NEW k \in DOMAIN nodes
      PROVE  text(k) \in Seq(Words) /\ d[nodes[k]].definition \in BOOLEAN
  <2>1. nodes[k] \in 1 .. Len(d)
    <3> HIDE DEF nodes
    <3> QED BY <1>2
  <2>2. d[nodes[k]] \in Paragraph
    BY <2>1
  <2>3. d[nodes[k]].sentences \in Seq(Seq(Words)) /\ d[nodes[k]].definition \in BOOLEAN
    BY <2>2 DEF Paragraph
  <2> QED BY <2>3, WordsOfType
<1>4. ~Found(d, "relaxed") => DOMAIN nodes = {}
  <2> SUFFICES ASSUME ~Found(d, "relaxed"), NEW k \in DOMAIN nodes PROVE FALSE
    OBVIOUS
  <2>1. nodes \in Seq(Selected(d, Scope(d)))
    BY SelectedType, InOrderType DEF Nodes
  <2>2. nodes[k] \in Selected(d, Scope(d))
    <3> HIDE DEF nodes
    <3> QED BY <2>1
  <2> HIDE DEF nodes
  <2>3. nodes[k] \in Selected(d, "relaxed")
    BY <2>2 DEF Selected
  <2> QED BY <2>3 DEF Found
<1> HIDE DEF nodes, text
<1>5. DOMAIN TextOf(d) = DOMAIN nodes /\ Len(TextOf(d)) = Len(nodes)
      /\ \A k \in DOMAIN nodes : /\ TextOf(d)[k].words = text(k)
                                 /\ TextOf(d)[k].definition = d[nodes[k]].definition
  BY <1>1, <1>2
<1> QED BY <1>2, <1>3, <1>4, <1>5

LEMMA LineType ==
    ASSUME NEW words \in Seq(Words)
    PROVE  LineFor(words) \in Seq(LineWords)
<1>1. DOMAIN words = 1 .. Len(words) /\ Len(words) \in Nat /\ \A i \in DOMAIN words : words[i] \in Words
  OBVIOUS
<1>2. \A i \in DOMAIN words : (IF Count(CF, words[i]) > Rare THEN words[i] ELSE Unknown) \in LineWords
  BY <1>1 DEF LineWords
<1> QED BY <1>1, <1>2 DEF LineFor

\* The calls of gen_rnnlm_input are the texts
LEMMA CallsAreTexts ==
    ASSUME Walk, pc = "document", kind = "rnnlm"
    PROVE  /\ DOMAIN CallsNow = DOMAIN TextOf(entry.doc) /\ Len(CallsNow) = Len(TextOf(entry.doc))
           /\ \A k \in DOMAIN CallsNow :
                 /\ CallsNow[k].words = TextOf(entry.doc)[k].words
                 /\ entry.doc[CallsNow[k].node].definition = TextOf(entry.doc)[k].definition
<1> DEFINE d     == entry.doc
           nodes == Nodes(d, Scope(d))
           text(k) == WordsOf(d[nodes[k]], {"normalize", "stem"})
<1>1. xpath = Scope(d)
  BY DEF Walk, InDocument, Scope, Serial
<1>2. CallsNow = [k \in DOMAIN nodes |-> [words |-> text(k), node |-> nodes[k]]]
  BY <1>1 DEF CallsNow, CallsOf, Flags, Serial
<1>3. TextOf(d) = [k \in DOMAIN nodes |-> [words |-> text(k), definition |-> d[nodes[k]].definition]]
  BY DEF TextOf
<1>4. CallsNow \in Seq(Callback) /\ d \in Seq(Paragraph)
  BY CallsNowType, NextEntry DEF Walk, InDocument
<1>5. DOMAIN TextOf(d) = 1 .. Len(TextOf(d)) /\ Len(TextOf(d)) \in Nat
  BY <1>4, TextType
<1> HIDE DEF nodes, text
<1>6. DOMAIN CallsNow = DOMAIN TextOf(d)
  BY <1>2, <1>3
<1>7. Len(CallsNow) = Len(TextOf(d))
  <2>1. DOMAIN CallsNow = 1 .. Len(CallsNow) /\ Len(CallsNow) \in Nat
    BY <1>4
  <2> QED BY <1>5, <1>6, <2>1
<1>8. \A k \in DOMAIN CallsNow :
         /\ CallsNow[k].words = TextOf(d)[k].words
         /\ d[CallsNow[k].node].definition = TextOf(d)[k].definition
  BY <1>2, <1>3
<1> QED BY <1>6, <1>7, <1>8

LEMMA PairsAppend ==
    ASSUME NEW fs \in Seq(Entry), NEW e \in Entry
    PROVE  /\ PairsOf(Append(fs, e)) = PairsOf(fs) \cup {Len(fs) + 1} \X DOMAIN TextOf(e.doc)
           /\ \A p \in PairsOf(fs) : TextAt(Append(fs, e), p) = TextAt(fs, p)
           /\ \A p \in PairsOf(fs) : p[1] \in 1 .. Len(fs)
<1> DEFINE gs == Append(fs, e)
           Of(s, n) == {n} \X DOMAIN TextOf(s[n].doc)
<1>1. /\ Len(fs) \in Nat /\ DOMAIN fs = 1 .. Len(fs) /\ DOMAIN gs = 1 .. Len(fs) + 1
      /\ gs[Len(fs) + 1] = e /\ \A n \in 1 .. Len(fs) : gs[n] = fs[n]
  OBVIOUS
<1> HIDE DEF gs
<1>2. PairsOf(gs) = UNION {Of(gs, n) : n \in DOMAIN gs} /\ PairsOf(fs) = UNION {Of(fs, n) : n \in DOMAIN fs}
  BY DEF PairsOf
<1>3. /\ \A n \in 1 .. Len(fs) : Of(gs, n) = Of(fs, n)
      /\ Of(gs, Len(fs) + 1) = {Len(fs) + 1} \X DOMAIN TextOf(e.doc)
  BY <1>1
<1>4. DOMAIN gs = DOMAIN fs \cup {Len(fs) + 1}
  BY <1>1
<1>5. \A p \in PairsOf(fs) : p[1] \in 1 .. Len(fs)
  BY <1>1 DEF PairsOf
<1>6. \A p \in PairsOf(fs) : TextAt(gs, p) = TextAt(fs, p)
  BY <1>1, <1>5 DEF TextAt
<1> HIDE DEF Of
<1>7. PairsOf(gs) = PairsOf(fs) \cup Of(gs, Len(fs) + 1)
  BY <1>1, <1>2, <1>3, <1>4
<1> QED BY <1>3, <1>5, <1>6, <1>7 DEF gs

LEMMA LanguageModelStays ==
    ASSUME LanguageModel, kind' = kind, CF' = CF, lm' = lm, kind = "rnnlm" => PairsNow' = PairsNow,
           kind = "rnnlm" => \A p \in PairsNow : TextAt(FilesNow', p) = TextAt(FilesNow, p)
    PROVE  LanguageModel'
<1> SUFFICES ASSUME kind = "rnnlm", NEW file \in {"positive", "negative"}
             PROVE  Written(lm[file], FilesNow, LinesAmong(FilesNow, PairsNow, file))'
  BY DEF LanguageModel
<1>1. Written(lm[file], FilesNow', LinesAmong(FilesNow', PairsNow, file))
  BY WrittenSame DEF LanguageModel
<1>2. Written(lm[file], FilesNow, LinesAmong(FilesNow, PairsNow, file))'
         <=> Written(lm[file], FilesNow', LinesAmong(FilesNow', PairsNow, file))
  BY DEF Written, LineFor
<1> QED BY <1>1, <1>2

LEMMA SentencesWritten ==
    ASSUME Walk, LanguageModel, WriteSentences
    PROVE  LanguageModel'
<1> DEFINE words == Head(calls).words
           to    == IF entry.doc[Head(calls).node].definition THEN "positive" ELSE "negative"
           q     == <<Len(Files) + 1, made + 1>>
           fs    == FilesNow
           P     == PairsNow
<1>1. /\ pc = "document" /\ pc' = pc /\ kind = "rnnlm" /\ kind' = kind /\ CF' = CF /\ entry' = entry
      /\ made' = made + 1 /\ made + 1 \in 1 .. Len(CallsNow) /\ Head(calls) = CallsNow[made + 1]
      /\ done' = done
      /\ lm' = IF words = <<>> THEN lm ELSE [lm EXCEPT ![to] = Append(@, LineFor(words))]
  BY CalledFacts DEF WriteSentences, Called, LineFor, entry
<1>2. Files' = Files /\ FilesNow' = fs
  BY <1>1 DEF Files, FilesNow
<1>3. /\ Files \in Seq(Entry) /\ Len(Files) \in Nat /\ entry \in Entry /\ entry.doc \in Seq(Paragraph)
      /\ made \in Nat /\ CallsNow \in Seq(Callback)
  BY <1>1, FilesFacts, NextEntry, CallsNowType DEF Walk, InDocument
<1>4. fs = Append(Files, entry) /\ fs[Len(Files) + 1] = entry
  BY <1>1, <1>3 DEF FilesNow
<1>5. PairsNow' = P \cup {q} /\ q \notin P
      /\ \A p \in P : \/ p[1] \in 1 .. Len(Files) /\ p[2] \in Nat
                      \/ p[1] = Len(Files) + 1 /\ p[2] \in 1 .. made
  <2>1. \A p \in PairsOf(Files) : p[1] \in 1 .. Len(Files)
    BY <1>3, PairsAppend
  <2>2. \A p \in PairsOf(Files) : p[2] \in Nat
    <3>1. \A n \in DOMAIN Files : DOMAIN TextOf(Files[n].doc) \subseteq Nat
      <4>1. \A n \in DOMAIN Files : Files[n].doc \in Seq(Paragraph)
        BY FilesFacts
      <4>2. ASSUME NEW n \in DOMAIN Files PROVE DOMAIN TextOf(Files[n].doc) \subseteq Nat
        <5>1. /\ DOMAIN TextOf(Files[n].doc) = 1 .. Len(TextOf(Files[n].doc))
              /\ Len(TextOf(Files[n].doc)) \in Nat
          BY <4>1, TextType
        <5> QED BY <5>1
      <4> QED BY <4>2
    <3> QED BY <3>1 DEF PairsOf
  <2> DEFINE N == Len(Files) + 1
             m == made
  <2>3. P = PairsOf(Files) \cup ({N} \X (1 .. m)) /\ PairsNow' = PairsOf(Files) \cup ({N} \X (1 .. m + 1))
    BY <1>1, <1>2 DEF PairsNow
  <2>4. m \in Nat /\ N \in Nat /\ N \notin 1 .. Len(Files) /\ q = <<N, m + 1>>
    BY <1>3
  <2> HIDE DEF N, m, P, q
  <2>5. {N} \X (1 .. m + 1) = ({N} \X (1 .. m)) \cup {q}
    <3>1. 1 .. m + 1 = (1 .. m) \cup {m + 1}
      BY <2>4
    <3> QED BY <2>4, <3>1
  <2>6. q \notin P
    <3>1. q \notin PairsOf(Files)
      BY <2>1, <2>4
    <3>2. q \notin {N} \X (1 .. m)
      BY <2>4
    <3> QED BY <2>3, <3>1, <3>2
  <2>7. PairsNow' = P \cup {q}
    BY <2>3, <2>5
  <2>8. \A p \in P : \/ p[1] \in 1 .. Len(Files) /\ p[2] \in Nat
                     \/ p[1] = N /\ p[2] \in 1 .. m
    BY <2>1, <2>2, <2>3
  <2> QED BY <2>6, <2>7, <2>8 DEF N, m
<1>6. NotBehind(q, q) /\ \A p \in P : NotBehind(p, p) /\ NotBehind(p, q) /\ ~NotBehind(q, p)
  <2>1. q[1] = Len(Files) + 1 /\ q[2] = made + 1
    OBVIOUS
  <2> HIDE DEF q, P
  <2>2. Len(Files) \in Nat /\ made \in Nat
    BY <1>3
  <2>3. NotBehind(q, q)
    BY <2>1, <2>2 DEF NotBehind
  <2>4. ASSUME NEW p \in P PROVE NotBehind(p, p) /\ NotBehind(p, q) /\ ~NotBehind(q, p)
    <3>1. \/ p[1] \in 1 .. Len(Files) /\ p[2] \in Nat
          \/ p[1] = Len(Files) + 1 /\ p[2] \in 1 .. made
      BY <1>5
    <3> HIDE DEF made
    <3> QED BY <2>1, <2>2, <3>1 DEF NotBehind
  <2> QED BY <2>3, <2>4
<1>7. /\ TextAt(fs, q).words = words /\ words \in Seq(Words)
      /\ TextAt(fs, q).definition = entry.doc[Head(calls).node].definition
      /\ TextAt(fs, q).definition \in BOOLEAN
  <2>1. TextAt(fs, q) = TextOf(entry.doc)[made + 1]
    BY <1>4 DEF TextAt
  <2>2. made + 1 \in DOMAIN CallsNow
    BY <1>1, <1>3
  <2>3. made + 1 \in DOMAIN TextOf(entry.doc)
    BY <1>1, <2>2, CallsAreTexts
  <2>4. TextOf(entry.doc)[made + 1].words \in Seq(Words) /\ TextOf(entry.doc)[made + 1].definition \in BOOLEAN
    BY <1>3, <2>3, TextType
  <2>5. /\ CallsNow[made + 1].words = TextOf(entry.doc)[made + 1].words
        /\ entry.doc[CallsNow[made + 1].node].definition = TextOf(entry.doc)[made + 1].definition
    BY <1>1, <2>2, CallsAreTexts
  <2> QED BY <1>1, <2>1, <2>4, <2>5
<1>8. lm \in [positive : Seq(Seq(LineWords)), negative : Seq(Seq(LineWords))]
  BY DEF LanguageModel
<1>9. LineFor(words) \in Seq(LineWords)
  BY <1>7, LineType
<1>10. /\ lm' \in [positive : Seq(Seq(LineWords)), negative : Seq(Seq(LineWords))]
       /\ \A file \in {"positive", "negative"} :
             lm'[file] = IF words # <<>> /\ file = to THEN Append(lm[file], LineFor(words)) ELSE lm[file]
  <2> DEFINE line == LineFor(words)
  <2>1. /\ lm' = IF words = <<>> THEN lm ELSE [lm EXCEPT ![to] = Append(@, line)]
        /\ line \in Seq(LineWords) /\ to \in {"positive", "negative"}
    BY <1>1, <1>9
  <2> HIDE DEF words, line, to
  <2>2. lm.positive \in Seq(Seq(LineWords)) /\ lm.negative \in Seq(Seq(LineWords))
    BY <1>8
  <2>3. /\ Append(lm.positive, line) \in Seq(Seq(LineWords))
        /\ Append(lm.negative, line) \in Seq(Seq(LineWords))
    BY <2>1, <2>2
  <2>4. CASE words = <<>>
    BY <1>8, <2>1, <2>4
  <2>5. CASE words # <<>> /\ to = "positive"
    <3> DEFINE new == Append(lm.positive, line)
    <3>1. lm' = [lm EXCEPT !.positive = new]
      BY <2>1, <2>5
    <3>2. new \in Seq(Seq(LineWords))
      BY <2>3
    <3> HIDE DEF new
    <3>3. lm' \in [positive : Seq(Seq(LineWords)), negative : Seq(Seq(LineWords))]
      BY <1>8, <3>1, <3>2
    <3>4. lm'.positive = new /\ lm'.negative = lm.negative
      BY <1>8, <3>1
    <3>5. lm'["positive"] = Append(lm["positive"], line) /\ lm'["negative"] = lm["negative"]
      BY <3>4 DEF new
    <3>6. ASSUME NEW file \in {"positive", "negative"}
          PROVE  lm'[file] = IF words # <<>> /\ file = to THEN Append(lm[file], line) ELSE lm[file]
      BY <2>5, <3>5
    <3> QED BY <3>3, <3>6 DEF line
  <2>6. CASE words # <<>> /\ to = "negative"
    <3> DEFINE new == Append(lm.negative, line)
    <3>1. lm' = [lm EXCEPT !.negative = new]
      BY <2>1, <2>6
    <3>2. new \in Seq(Seq(LineWords))
      BY <2>3
    <3> HIDE DEF new
    <3>3. lm' \in [positive : Seq(Seq(LineWords)), negative : Seq(Seq(LineWords))]
      BY <1>8, <3>1, <3>2
    <3>4. lm'.negative = new /\ lm'.positive = lm.positive
      BY <1>8, <3>1
    <3>5. lm'["negative"] = Append(lm["negative"], line) /\ lm'["positive"] = lm["positive"]
      BY <3>4 DEF new
    <3>6. ASSUME NEW file \in {"positive", "negative"}
          PROVE  lm'[file] = IF words # <<>> /\ file = to THEN Append(lm[file], line) ELSE lm[file]
      BY <2>6, <3>5
    <3> QED BY <3>3, <3>6 DEF line
  <2> QED BY <2>1, <2>4, <2>5, <2>6 DEF line
<1>11. ASSUME NEW file \in {"positive", "negative"}
       PROVE  Written(lm[file], FilesNow, LinesAmong(FilesNow, PairsNow, file))'
  <2> DEFINE L == LinesAmong(fs, P, file)
  <2>1. Written(lm[file], fs, L) /\ lm[file] \in Seq(Seq(LineWords))
    BY <1>1, <1>8 DEF LanguageModel
  <2>2. LinesAmong(fs, PairsNow', file) = IF words # <<>> /\ file = to THEN L \cup {q} ELSE L
    <3>1. q \in LinesAmong(fs, PairsNow', file) <=> words # <<>> /\ file = to
      <4> HIDE DEF q, fs, P
      <4>1. q \in LinesAmong(fs, PairsNow', file)
              <=> words # <<>> /\ (TextAt(fs, q).definition <=> file = "positive")
        BY <1>5, <1>7 DEF LinesAmong
      <4>2. file = to <=> (TextAt(fs, q).definition <=> file = "positive")
        BY <1>7
      <4> QED BY <4>1, <4>2
    <3>2. L \subseteq LinesAmong(fs, PairsNow', file) /\ LinesAmong(fs, PairsNow', file) \subseteq L \cup {q}
      <4> HIDE DEF q, fs, P
      <4> QED BY <1>5 DEF LinesAmong
    <3> HIDE DEF L, q, fs, P, words, to
    <3> QED BY <3>1, <3>2
  <2>3. Written(lm'[file], fs, LinesAmong(fs, PairsNow', file))
    <3>1. CASE words # <<>> /\ file = to
      <4>1. q \notin L /\ L \subseteq P
        BY <1>5 DEF LinesAmong
      <4>2. TextAt(fs, q).words = words
        BY <1>7
      <4> DEFINE line == LineFor(TextAt(fs, q).words)
      <4>3. line \in Seq(LineWords) /\ line = LineFor(words)
        BY <1>9, <4>2
      <4> HIDE DEF L, q, fs, P, words, to
      <4>4. Written(Append(lm[file], line), fs, L \cup {q})
        BY <1>6, <2>1, <4>1, <4>3, LineMore
      <4> QED BY <1>10, <2>2, <3>1, <4>3, <4>4
    <3>2. CASE ~(words # <<>> /\ file = to)
      BY <1>10, <2>1, <2>2, <3>2
    <3> QED BY <3>1, <3>2
  <2> HIDE DEF fs, P
  <2> QED BY <1>1, <1>2, <2>3 DEF Written, LineFor
<1> QED BY <1>1, <1>10, <1>11 DEF LanguageModel

LEMMA LanguageModelStep ==
    ASSUME Walk, Walk', LanguageModel, Next
    PROVE  LanguageModel'
<1>0. /\ Files \in Seq(Entry) /\ Len(Files) \in Nat /\ done \in Seq(Entry)
  BY FilesFacts DEF Walk
<1>1. CASE Skip
  <2>1. /\ kind' = kind /\ CF' = CF /\ lm' = lm /\ pc = "walk" /\ pc' = pc
        /\ Files' = IF entry.type = "file" THEN Append(Files, entry) ELSE Files
        /\ entry \in Entry /\ entry.doc \in Seq(Paragraph)
        /\ kind = "rnnlm" => entry.type = "directory" \/ ~Found(entry.doc, "relaxed")
        /\ entry.type \in {"directory", "file"}
    BY <1>1, SkipFacts, NextEntry DEF tables
  <2>2. CASE entry.type = "directory"
    <3>1. Files' = Files
      BY <2>1, <2>2
    <3>2. PairsNow' = PairsNow /\ FilesNow' = FilesNow
      BY <2>1, <3>1 DEF PairsNow, FilesNow
    <3> QED BY <2>1, <3>2, LanguageModelStays
  <2>3. CASE entry.type = "file"
    <3>1. Files' = Append(Files, entry)
      BY <2>1, <2>3
    <3>2. PairsNow = PairsOf(Files) /\ PairsNow' = PairsOf(Files') /\ FilesNow = Files /\ FilesNow' = Files'
      BY <2>1 DEF PairsNow, FilesNow
    <3>3. /\ PairsOf(Append(Files, entry)) = PairsOf(Files) \cup {Len(Files) + 1} \X DOMAIN TextOf(entry.doc)
          /\ \A p \in PairsOf(Files) : TextAt(Append(Files, entry), p) = TextAt(Files, p)
      BY <1>0, <2>1, PairsAppend
    <3>4. kind = "rnnlm" => DOMAIN TextOf(entry.doc) = {}
      BY <2>1, <2>3, TextType
    <3>5. kind = "rnnlm" => PairsNow' = PairsNow
      BY <3>1, <3>2, <3>3, <3>4
    <3> QED BY <2>1, <3>1, <3>2, <3>3, <3>5, LanguageModelStays
  <2> QED BY <2>1, <2>2, <2>3
<1>2. CASE Open
  <2>1. /\ kind' = kind /\ CF' = CF /\ lm' = lm /\ pc = "walk" /\ pc' = "document" /\ made' = 0
        /\ done' = done /\ entry' = entry /\ entries # <<>>
    BY <1>2, OpenFacts DEF Open
  <2>2. Files' = Files /\ entry \in Entry
    BY <2>1, NextEntry DEF Files
  <2>3. PairsNow = PairsOf(Files) /\ PairsNow' = PairsOf(Files) \cup ({Len(Files) + 1} \X (1 .. 0))
    BY <2>1, <2>2 DEF PairsNow
  <2>4. {Len(Files) + 1} \X (1 .. 0) = {}
    OBVIOUS
  <2>5. FilesNow = Files /\ FilesNow' = Append(Files, entry)
    BY <2>1, <2>2 DEF FilesNow
  <2>6. \A p \in PairsOf(Files) : TextAt(Append(Files, entry), p) = TextAt(Files, p)
    BY <1>0, <2>2, PairsAppend
  <2> QED BY <2>1, <2>3, <2>4, <2>5, <2>6, LanguageModelStays
<1>3. CASE Called
  <2>1. CASE kind = "rnnlm"
    <3>1. WriteSentences
      BY <1>3, <2>1 DEF Called, CountNgrams, CountWords, WriteLine, Ngrams
    <3> QED BY <3>1, SentencesWritten
  <2>2. CASE kind # "rnnlm"
    <3>1. kind' = kind /\ CF' = CF /\ lm' = lm
      BY <1>3, <2>2 DEF Called, CountNgrams, CountWords, WriteLine, WriteSentences
    <3> QED BY <2>2, <3>1, LanguageModelStays
  <2> QED BY <2>1, <2>2
<1>4. CASE Relax
  <2>1. kind' = kind /\ CF' = CF /\ lm' = lm /\ kind # "rnnlm"
    BY <1>4, RelaxFacts DEF tables, Serial
  <2> QED BY <2>1, LanguageModelStays
<1>5. CASE Close
  <2>1. /\ kind' = kind /\ lm' = lm /\ pc = "document" /\ pc' = "walk" /\ made = Len(CallsNow)
        /\ Files' = Append(Files, entry) /\ entry \in Entry
        /\ kind # "idf" => CF' = CF
    BY <1>5, CloseFacts DEF Close
  <2>2. CASE kind # "rnnlm"
    BY <2>1, <2>2 DEF LanguageModel
  <2>3. CASE kind = "rnnlm"
    <3>1. FilesNow = Append(Files, entry) /\ FilesNow' = Append(Files, entry)
      BY <2>1 DEF FilesNow
    <3>2. entry.doc \in Seq(Paragraph) /\ DOMAIN TextOf(entry.doc) = 1 .. made
      <4>1. entry.doc \in Seq(Paragraph)
        BY <1>5, CloseFacts, NextEntry
      <4>2. Len(CallsNow) = Len(TextOf(entry.doc))
        BY <2>1, <2>3, CallsAreTexts
      <4> QED BY <2>1, <4>1, <4>2, TextType
    <3>3. PairsNow = PairsOf(Files) \cup {Len(Files) + 1} \X (1 .. made) /\ PairsNow' = PairsOf(Append(Files, entry))
      BY <2>1 DEF PairsNow
    <3>4. PairsOf(Append(Files, entry)) = PairsOf(Files) \cup {Len(Files) + 1} \X DOMAIN TextOf(entry.doc)
      BY <1>0, <2>1, PairsAppend
    <3> QED BY <2>1, <2>3, <3>1, <3>2, <3>3, <3>4, LanguageModelStays
  <2> QED BY <2>2, <2>3
<1>6. CASE Report
  <2>1. /\ kind' = kind /\ CF' = CF /\ lm' = lm /\ pc = "walk" /\ pc' = "end" /\ done' = done
    BY <1>6 DEF Report, tables
  <2>2. Files' = Files
    BY <2>1 DEF Files
  <2>3. PairsNow' = PairsNow /\ FilesNow' = FilesNow
    BY <2>1, <2>2 DEF PairsNow, FilesNow
  <2> QED BY <2>1, <2>3, LanguageModelStays
<1>7. CASE Continue
  <2>1. kind' = "rnnlm" /\ lm' = lm /\ pc' = "walk" /\ done' = <<>> /\ kind = "idf"
    BY <1>7 DEF Continue
  <2>2. lm = [positive |-> <<>>, negative |-> <<>>]
    BY <2>1 DEF LanguageModel
  <2>3. Files' = <<>>
    <3>1. {i \in DOMAIN <<>> : <<>>[i].type = "file"} = {}
      OBVIOUS
    <3>2. Files' = Picked(<<>>, {i \in DOMAIN <<>> : <<>>[i].type = "file"})
      BY <2>1 DEF Files
    <3> QED BY <3>1, <3>2, PickedNothing
  <2>4. PairsNow' = {}
    <3>1. PairsNow' = PairsOf(<<>>)
      BY <2>1, <2>3 DEF PairsNow
    <3>2. DOMAIN <<>> = {}
      OBVIOUS
    <3> QED BY <3>1, <3>2 DEF PairsOf
  <2>5. ASSUME NEW file \in {"positive", "negative"}
        PROVE  Written(lm[file], FilesNow, LinesAmong(FilesNow, PairsNow, file))'
    <3>1. LinesAmong(FilesNow, PairsNow, file)' = {}
      BY <2>4 DEF LinesAmong
    <3>2. lm'[file] = <<>> /\ Len(<<>>) = 0
      BY <2>1, <2>2
    <3>3. IsFiniteSet({}) /\ Cardinality({}) = 0
      BY FS_EmptySet
    <3> QED BY <3>1, <3>2, <3>3 DEF Written
  <2> QED BY <2>1, <2>2, <2>5 DEF LanguageModel
<1> QED BY <1>1, <1>2, <1>3, <1>4, <1>5, <1>6, <1>7 DEF Next, Called

LEMMA LanguageModelHolds == Spec => []LanguageModel
<1>1. ASSUME Init PROVE LanguageModel
  <2>1. kind # "rnnlm" /\ lm = [positive |-> <<>>, negative |-> <<>>]
    BY <1>1, CorpusAssumption DEF Init, Ngrams
  <2>2. <<>> \in Seq(Seq(LineWords))
    OBVIOUS
  <2> QED BY <2>1, <2>2 DEF LanguageModel
<1>2. ASSUME Walk, LanguageModel, UNCHANGED vars PROVE LanguageModel'
  <2>1. kind' = kind /\ pc' = pc /\ CF' = CF /\ lm' = lm
    BY <1>2 DEF vars, tables
  <2>2. Files' = Files /\ entry' = entry /\ made' = made
    BY <1>2, WalkStutters
  <2>3. PairsNow' = PairsNow /\ FilesNow' = FilesNow
    BY <2>1, <2>2 DEF PairsNow, FilesNow
  <2> QED BY <1>2, <2>1, <2>3, LanguageModelStays
<1>3. Walk /\ Walk' /\ LanguageModel /\ [Next]_vars => LanguageModel'
  BY <1>2, LanguageModelStep
<1> QED BY <1>1, <1>3, WalkHolds, PTL DEF Spec

\* gen_rnnlm_input after gen_IDF, src/src/tasks/gen_rnnlm_input.c: the lines of the two files are
\* the paragraphs that have words, in the order of the walk, and a word is unknown if and only if
\* it is in no more than Rare documents of the corpus that was counted
THEOREM LinesAreTheText == Spec => []LanguageModelInput
<1>1. Walk /\ Frequencies /\ LanguageModel => LanguageModelInput
  <2> SUFFICES ASSUME Walk, Frequencies, LanguageModel, kind = "rnnlm", pc # "document",
                      NEW file \in {"positive", "negative"}
               PROVE  /\ Len(lm[file]) = Cardinality(Lines(file))
                      /\ \A p \in Lines(file) :
                            LET words == TextOf(Files[p[1]].doc)[p[2]].words
                            IN  lm[file][LineOf(p, Lines(file))] =
                                   [i \in DOMAIN words |->
                                       IF CountedWith(words[i]) > Rare THEN words[i] ELSE Unknown]
    BY DEF LanguageModelInput
  <2>1. FilesNow = Files /\ PairsNow = PairsOf(Files)
    BY DEF FilesNow, PairsNow
  <2>2. LinesAmong(Files, PairsOf(Files), file) = Lines(file)
    BY DEF LinesAmong, PairsOf, Lines, TextAt
  <2>3. Written(lm[file], Files, Lines(file))
    BY <2>1, <2>2 DEF LanguageModel
  <2>4. CF = CountedTable
    BY DEF Frequencies
  <2>5. ASSUME NEW w \in Words PROVE Count(CF, w) = CountedWith(w)
    <3> DEFINE S == {i \in DOMAIN counted :
                       /\ counted[i].type = "file"
                       /\ \E k \in DOMAIN TextOf(counted[i].doc) :
                             w \in ToSet(TextOf(counted[i].doc)[k].words)}
    <3>1. CountedWith(w) = Cardinality(S)
      BY DEF CountedWith
    <3>2. counted \in Seq(Entry)
      <4>1. counted \in Corpora \cup {<<>>} /\ Corpora \subseteq Seq(Entry)
        BY CorpusAssumption DEF Walk
      <4>2. <<>> \in Seq(Entry)
        OBVIOUS
      <4> QED BY <4>1, <4>2
    <3>3. S \in SUBSET (1 .. Len(counted)) /\ Len(counted) \in Nat
      BY <3>2
    <3> HIDE DEF S
    <3>4. CountedWith(w) \in Nat
      BY <3>1, <3>3, FinitePositions
    <3> QED BY <2>4, <3>4 DEF Count, CountedTable
  <2>6. ASSUME NEW p \in Lines(file)
        PROVE  LET words == TextOf(Files[p[1]].doc)[p[2]].words
               IN  lm[file][LineOf(p, Lines(file))] =
                      [i \in DOMAIN words |->
                          IF CountedWith(words[i]) > Rare THEN words[i] ELSE Unknown]
    <3> DEFINE words == TextOf(Files[p[1]].doc)[p[2]].words
    <3>1. lm[file][LineOf(p, Lines(file))] = LineFor(words)
      BY <2>3 DEF Written, TextAt
    <3>2. PICK n \in DOMAIN Files : p[1] = n /\ p[2] \in DOMAIN TextOf(Files[n].doc)
      BY DEF Lines
    <3>3. words \in Seq(Words)
      <4>1. Files[n].doc \in Seq(Paragraph)
        BY FilesFacts
      <4> QED BY <3>2, <4>1, TextType
    <3> HIDE DEF words
    <3>4. \A i \in DOMAIN words : words[i] \in Words
      BY <3>3
    <3>5. LineFor(words) = [i \in DOMAIN words |->
                               IF CountedWith(words[i]) > Rare THEN words[i] ELSE Unknown]
      BY <2>5, <3>4 DEF LineFor
    <3> QED BY <3>1, <3>5 DEF words
  <2> QED BY <2>3, <2>6 DEF Written
<1> QED BY <1>1, WalkHolds, FrequenciesHold, LanguageModelHolds, PTL

-----------------------------------------------------------------------------
(* extract_ngrams and compute_ngram_idf: an n-gram is met. *)

MeetFold  == INSTANCE FoldFacts WITH op <- Meet
NgramFold == INSTANCE FoldFacts WITH op <- NgramStep

Grams == UNION {[1 .. n -> Words] : n \in 1 .. 3}

\* A place is a file, and in it a paragraph and a position
FilesIn(S) == {p[1] : p \in S}

\* What the table has of an n-gram that is at some places
EntryRight(e, S) ==
    /\ IsFiniteSet(S)
    /\ e.counter = IF kind = "extract" THEN Cardinality(S) ELSE Cardinality(FilesIn(S))
    /\ e.lastOccurence \in FilesIn(S) /\ \A n \in FilesIn(S) : n <= e.lastOccurence

\* The table of n-grams at the places E
IsTable(h, E) ==
    /\ DOMAIN h = {g \in Grams : E[g] # {}}
    /\ \A g \in DOMAIN h : EntryRight(h[g], E[g])

LEMMA FilesFinite ==
    ASSUME NEW S, IsFiniteSet(S)
    PROVE  /\ IsFiniteSet(FilesIn(S)) /\ Cardinality(FilesIn(S)) \in Nat
           /\ Cardinality(FilesIn(S)) <= Cardinality(S)
           /\ S # {} => Cardinality(FilesIn(S)) # 0
<1> DEFINE f == [p \in S |-> p[1]]
<1>1. FilesIn(S) = {f[p] : p \in S}
  BY DEF FilesIn
<1>2. f \in Surjection(S, FilesIn(S))
  BY <1>1 DEF Surjection
<1> HIDE DEF f
<1>3. IsFiniteSet(FilesIn(S)) /\ Cardinality(FilesIn(S)) <= Cardinality(S)
  BY <1>2, FS_Surjection
<1>4. S # {} => FilesIn(S) # {}
  BY DEF FilesIn
<1> QED BY <1>3, <1>4, FS_CardinalityType, FS_EmptySet

\* Meet counts one place more, or the file of it if that is a new one
LEMMA MeetCounts ==
    ASSUME kind \in Ngrams, FILE_COUNTER \in Nat, NEW E, NEW h, IsTable(h, E), NEW g \in Grams,
           NEW q, q[1] = FILE_COUNTER, q \notin E[g],
           \A p \in E[g] : p[1] \in Nat /\ p[1] <= FILE_COUNTER,
           NEW F, F[g] = E[g] \cup {q}, \A f \in Grams : f # g => F[f] = E[f]
    PROVE  IsTable(Meet(h, g), F)
<1> DEFINE S == E[g]
           T == F[g]
           new == Meet(h, g)
<1>1. DOMAIN new = DOMAIN h \cup {g} /\ \A f \in DOMAIN h : f # g => new[f] = h[f]
  BY DEF Meet
<1>2. DOMAIN new = {f \in Grams : F[f] # {}}
  <2>1. F[g] # {}
    OBVIOUS
  <2> HIDE DEF new
  <2> QED BY <1>1, <2>1 DEF IsTable
<1>3. \A f \in DOMAIN new : f # g => EntryRight(new[f], F[f])
  <2> HIDE DEF new
  <2> QED BY <1>1 DEF IsTable
<1>4. new[g].lastOccurence = FILE_COUNTER
  BY DEF Meet
<1>5. T = S \cup {q} /\ q \notin S /\ FilesIn(T) = FilesIn(S) \cup {FILE_COUNTER}
  BY DEF FilesIn
<1>6. \A n \in FilesIn(S) : n \in Nat /\ n <= FILE_COUNTER
  BY DEF FilesIn
<1>7. IsFiniteSet(S)
  <2>1. CASE g \in DOMAIN h
    BY <2>1 DEF IsTable, EntryRight
  <2>2. CASE g \notin DOMAIN h
    <3>1. S = {}
      BY <2>2 DEF IsTable
    <3> QED BY <3>1, FS_EmptySet
  <2> QED BY <2>1, <2>2
<1> HIDE DEF S, T
<1>8. IsFiniteSet(T) /\ Cardinality(T) = Cardinality(S) + 1
  BY <1>5, <1>7, FS_AddElement
<1>9. IsFiniteSet(FilesIn(S)) /\ Cardinality(S) \in Nat
  <2>1. IsFiniteSet(FilesIn(S))
    BY <1>7, FilesFinite
  <2>2. Cardinality(S) \in Nat
    BY <1>7, FS_CardinalityType
  <2> QED BY <2>1, <2>2
<1>10. new[g].lastOccurence \in FilesIn(T) /\ \A n \in FilesIn(T) : n <= new[g].lastOccurence
  <2>1. FILE_COUNTER \in FilesIn(T)
    BY <1>5
  <2>2. \A n \in FilesIn(T) : n <= FILE_COUNTER
    <3>1. FILE_COUNTER <= FILE_COUNTER
      OBVIOUS
    <3> QED BY <1>5, <1>6, <3>1
  <2> HIDE DEF new
  <2> QED BY <1>4, <2>1, <2>2
<1>11. new[g].counter = IF kind = "extract" THEN Cardinality(T) ELSE Cardinality(FilesIn(T))
  <2>1. CASE g \notin DOMAIN h
    <3>1. S = {}
      BY <2>1 DEF IsTable, S
    <3>2. T = {q} /\ FilesIn(T) = {FILE_COUNTER}
      <4>1. T = {q}
        BY <1>5, <3>1
      <4>2. FilesIn({}) = {}
        BY DEF FilesIn
      <4> QED BY <1>5, <3>1, <4>1, <4>2
    <3>3. new[g].counter = 1
      BY <2>1 DEF Meet
    <3> QED BY <3>2, <3>3, FS_Singleton
  <2>2. CASE g \in DOMAIN h /\ kind = "extract"
    <3>1. new[g].counter = h[g].counter + 1
      BY <2>2 DEF Meet
    <3>2. h[g].counter = Cardinality(S)
      BY <2>2 DEF IsTable, EntryRight, S
    <3> QED BY <1>8, <2>2, <3>1, <3>2
  <2>3. CASE g \in DOMAIN h /\ kind = "ngram_idf"
    <3>1. /\ h[g].counter = Cardinality(FilesIn(S)) /\ h[g].lastOccurence \in FilesIn(S)
          /\ \A n \in FilesIn(S) : n <= h[g].lastOccurence
      BY <2>3 DEF IsTable, EntryRight, S
    <3>2. CASE h[g].lastOccurence = FILE_COUNTER
      <4>1. new[g].counter = h[g].counter
        <5>1. new[g].counter = h[g].counter + 0
          BY <2>3, <3>2 DEF Meet
        <5>2. h[g].counter \in Nat
          BY <1>7, <3>1, FilesFinite
        <5> HIDE DEF new
        <5> QED BY <5>1, <5>2
      <4>2. FILE_COUNTER \in FilesIn(S)
        BY <3>1, <3>2
      <4>3. FilesIn(T) = FilesIn(S)
        BY <1>5, <4>2
      <4> QED BY <2>3, <3>1, <4>1, <4>3
    <3>3. CASE h[g].lastOccurence # FILE_COUNTER
      <4>1. new[g].counter = h[g].counter + 1
        BY <2>3, <3>3 DEF Meet
      <4>2. FILE_COUNTER \notin FilesIn(S)
        BY <1>6, <3>1, <3>3
      <4>3. Cardinality(FilesIn(T)) = Cardinality(FilesIn(S)) + 1
        BY <1>5, <1>9, <4>2, FS_AddElement
      <4> QED BY <2>3, <3>1, <4>1, <4>3
    <3> QED BY <3>2, <3>3
  <2> QED BY <2>1, <2>2, <2>3 DEF Ngrams
<1>12. EntryRight(new[g], T)
  BY <1>8, <1>10, <1>11 DEF EntryRight
<1> HIDE DEF new
<1> QED BY <1>2, <1>3, <1>12 DEF IsTable, new, T

-----------------------------------------------------------------------------
(* extract_ngrams and compute_ngram_idf: the words before. *)

\* b are the last words of the first i of ws
LastWords(b, ws, i) ==
    /\ b \in Seq(Words) /\ Len(b) \in 0 .. i
    /\ \A x \in 1 .. Len(b) : b[x] = ws[i - Len(b) + x] /\ IsWord(b[x])

\* and as many as there are within a sentence, or the most that are kept
Longest(b, ws, i, most) ==
    /\ Len(b) <= most
    /\ Len(b) = most \/ Len(b) = i \/ ~IsWord(ws[i - Len(b)])

LEMMA TailFacts ==
    ASSUME NEW S, NEW s \in Seq(S), s # <<>>
    PROVE  /\ Tail(s) \in Seq(S) /\ Len(Tail(s)) = Len(s) - 1
           /\ \A x \in 1 .. Len(s) - 1 : Tail(s)[x] = s[x + 1]
OBVIOUS

LEMMA WordsGrow ==
    ASSUME NEW ws \in Seq(Words), NEW i \in Nat, i + 1 <= Len(ws), IsWord(ws[i + 1]),
           NEW b, LastWords(b, ws, i), Longest(b, ws, i, 2)
    PROVE  LET upTo == Append(b, ws[i + 1])
               kept == IF Len(upTo) > 2 THEN Tail(upTo) ELSE upTo
           IN  /\ LastWords(upTo, ws, i + 1) /\ Longest(upTo, ws, i + 1, 3) /\ Len(upTo) \in 1 .. 3
               /\ LastWords(kept, ws, i + 1) /\ Longest(kept, ws, i + 1, 2)
<1> DEFINE w    == ws[i + 1]
           n    == Len(b)
           upTo == Append(b, w)
           rest == Tail(upTo)
           kept == IF Len(upTo) > 2 THEN rest ELSE upTo
<1>1. w \in Words /\ b \in Seq(Words) /\ n \in 0 .. 2 /\ n \in 0 .. i
  <2>1. i + 1 \in 1 .. Len(ws) /\ Len(ws) \in Nat
    OBVIOUS
  <2>2. w \in Words
    BY <2>1
  <2>3. b \in Seq(Words) /\ n \in 0 .. i
    BY DEF LastWords
  <2>4. n <= 2
    BY DEF Longest
  <2>5. n \in 0 .. 2
    <3> HIDE DEF n
    <3>1. n \in Nat
      BY <2>3
    <3> QED BY <2>4, <3>1
  <2> QED BY <2>2, <2>3, <2>5
<1>2. /\ upTo \in Seq(Words) /\ Len(upTo) = n + 1 /\ upTo[n + 1] = w
      /\ \A x \in 1 .. n : upTo[x] = b[x]
  BY <1>1
<1>3. \A x \in 1 .. n : b[x] = ws[i - n + x] /\ IsWord(b[x])
  BY DEF LastWords
<1>4. n = 2 \/ n = i \/ ~IsWord(ws[i - n])
  BY DEF Longest
<1> HIDE DEF w, n, upTo
<1>5. LastWords(upTo, ws, i + 1)
  <2>1. Len(upTo) \in 0 .. i + 1
    BY <1>1, <1>2
  <2>2. ASSUME NEW x \in 1 .. n + 1
        PROVE  upTo[x] = ws[(i + 1) - (n + 1) + x] /\ IsWord(upTo[x])
    <3>1. (i + 1) - (n + 1) + x = i - n + x
      BY <1>1
    <3>2. CASE x = n + 1
      <4>1. i - n + x = i + 1
        BY <1>1, <3>2
      <4> QED BY <1>2, <3>1, <3>2, <4>1 DEF w
    <3>3. CASE x \in 1 .. n
      BY <1>2, <1>3, <3>1, <3>3
    <3> QED BY <1>1, <3>2, <3>3
  <2> QED BY <1>2, <2>1, <2>2 DEF LastWords
<1>6. Longest(upTo, ws, i + 1, 3)
  <2>1. (i + 1) - (n + 1) = i - n
    BY <1>1
  <2>2. n + 1 <= 3
    BY <1>1
  <2> QED BY <1>2, <1>4, <2>1, <2>2 DEF Longest
<1>7. Len(upTo) \in 1 .. 3
  BY <1>1, <1>2
<1>8. CASE n + 1 > 2
  <2>1. n = 2
    BY <1>1, <1>8
  <2>2. rest \in Seq(Words) /\ Len(rest) = 2 /\ \A x \in 1 .. 2 : rest[x] = upTo[x + 1]
    <3>1. upTo \in Seq(Words) /\ Len(upTo) = 3
      BY <1>2, <2>1
    <3>2. upTo # <<>>
      <4>1. Len(<<>>) = 0
        OBVIOUS
      <4> SUFFICES ASSUME upTo = <<>> PROVE FALSE
        OBVIOUS
      <4> QED BY <3>1, <4>1
    <3>3. rest \in Seq(Words) /\ Len(rest) = Len(upTo) - 1
      BY <3>1, <3>2, TailFacts
    <3>4. \A x \in 1 .. Len(upTo) - 1 : rest[x] = upTo[x + 1]
      BY <3>1, <3>2, TailFacts
    <3> HIDE DEF rest
    <3>5. Len(upTo) - 1 = 2
      BY <3>1
    <3> QED BY <3>3, <3>4, <3>5
  <2> HIDE DEF rest
  <2>3. ASSUME NEW x \in 1 .. 2
        PROVE  rest[x] = ws[(i + 1) - 2 + x] /\ IsWord(rest[x])
    <3>1. x + 1 \in 1 .. Len(upTo) /\ Len(upTo) = 3
      BY <1>2, <2>1
    <3>2. upTo[x + 1] = ws[(i + 1) - 3 + (x + 1)] /\ IsWord(upTo[x + 1])
      BY <1>5, <3>1 DEF LastWords
    <3>3. (i + 1) - 3 + (x + 1) = (i + 1) - 2 + x
      OBVIOUS
    <3> QED BY <2>2, <3>2, <3>3
  <2>4. 2 \in 0 .. i + 1
    BY <1>1, <2>1
  <2>5. LastWords(rest, ws, i + 1)
    BY <2>2, <2>3, <2>4 DEF LastWords
  <2>6. Longest(rest, ws, i + 1, 2)
    BY <2>2 DEF Longest
  <2>7. kept = rest
    BY <1>2, <1>8
  <2>8. LastWords(kept, ws, i + 1) /\ Longest(kept, ws, i + 1, 2)
    BY <2>5, <2>6, <2>7
  <2> HIDE DEF kept
  <2> QED BY <1>5, <1>6, <1>7, <2>8 DEF kept, upTo, rest, w
<1>9. CASE ~(n + 1 > 2)
  <2>1. kept = upTo
    BY <1>2, <1>9
  <2>2. Longest(upTo, ws, i + 1, 2)
    <3>1. Len(upTo) <= 2 /\ Len(upTo) # 3
      BY <1>1, <1>2, <1>9
    <3> QED BY <1>6, <3>1 DEF Longest
  <2>3. LastWords(kept, ws, i + 1) /\ Longest(kept, ws, i + 1, 2)
    BY <1>5, <2>1, <2>2
  <2> HIDE DEF kept
  <2> QED BY <1>5, <1>6, <1>7, <2>3 DEF kept, upTo, w
<1> QED BY <1>8, <1>9

\* The n-grams that end at a word are those of the words before
LEMMA GramsAtWord ==
    ASSUME NEW ws \in Seq(Words), NEW i \in 1 .. Len(ws), NEW b, LastWords(b, ws, i),
           Longest(b, ws, i, 3)
    PROVE  LET Gram(j) == SubSeq(b, Len(b) - j + 1, Len(b))
           IN  /\ \A j \in 1 .. Len(b) : Gram(j) \in Grams /\ Len(Gram(j)) = j
               /\ \A g \in Grams : i \in Ends(ws, g) <=> Len(g) \in 1 .. Len(b) /\ g = Gram(Len(g))
<1> DEFINE m == Len(b)
           Gram(j) == SubSeq(b, m - j + 1, m)
<1>1. b \in Seq(Words) /\ m \in 0 .. 3 /\ m \in 0 .. i
  <2>1. b \in Seq(Words) /\ m \in 0 .. i
    BY DEF LastWords
  <2>2. m <= 3
    BY DEF Longest
  <2>3. m \in 0 .. 3
    <3> HIDE DEF m
    <3>1. m \in Nat
      BY <2>1
    <3> QED BY <2>2, <3>1
  <2> QED BY <2>1, <2>3
<1>2. \A x \in 1 .. m : b[x] = ws[i - m + x] /\ IsWord(b[x]) /\ b[x] \in Words
  BY <1>1 DEF LastWords
<1>3. i \in Nat /\ i <= Len(ws) /\ Len(ws) \in Nat
  OBVIOUS
<1>4. ASSUME NEW j \in 1 .. m
      PROVE  /\ Gram(j) \in [1 .. j -> Words] /\ Len(Gram(j)) = j
             /\ \A x \in 1 .. j : Gram(j)[x] = ws[i - j + x] /\ IsWord(Gram(j)[x])
  <2>1. m - j + 1 \in Nat /\ m - (m - j + 1) + 1 = j /\ j \in Nat
    BY <1>1
  <2>2. Gram(j) = [x \in 1 .. j |-> b[(m - j + 1) + x - 1]]
    BY <1>1, <2>1
  <2>3. ASSUME NEW x \in 1 .. j
        PROVE  b[(m - j + 1) + x - 1] = ws[i - j + x] /\ IsWord(b[(m - j + 1) + x - 1])
               /\ b[(m - j + 1) + x - 1] \in Words
    <3>0. j \in Nat /\ j <= m /\ x \in Nat /\ 1 <= x /\ x <= j /\ m \in Nat
      BY <1>1
    <3>1. PICK y \in 1 .. m : y = (m - j + 1) + x - 1
      <4> DEFINE y == (m - j + 1) + x - 1
      <4>1. y \in 1 .. m
        BY <3>0
      <4> QED BY <4>1
    <3>2. i - m + y = i - j + x
      BY <3>0, <3>1, <1>3
    <3> QED BY <1>2, <3>1, <3>2
  <2> HIDE DEF Gram
  <2>4. Gram(j) \in [1 .. j -> Words] /\ \A x \in 1 .. j : Gram(j)[x] = b[(m - j + 1) + x - 1]
    BY <2>2, <2>3
  <2>5. Len(Gram(j)) = j
    BY <2>1, <2>4
  <2> QED BY <2>3, <2>4, <2>5
<1>5. ASSUME NEW j \in 1 .. m PROVE Gram(j) \in Grams /\ Len(Gram(j)) = j
  <2>1. m \in Nat /\ m <= 3 /\ j \in Nat /\ 1 <= j /\ j <= m
    <3> HIDE DEF m
    <3> QED BY <1>1
  <2>2. j \in 1 .. 3
    BY <2>1
  <2> HIDE DEF Gram
  <2> QED BY <1>4, <2>2 DEF Grams
<1>6. ASSUME NEW g \in Grams
      PROVE  i \in Ends(ws, g) <=> Len(g) \in 1 .. m /\ g = Gram(Len(g))
  <2>1. PICK n \in 1 .. 3 : g \in [1 .. n -> Words]
    BY DEF Grams
  <2>2. n \in Nat /\ Len(g) = n /\ g \in Seq(Words)
    BY <2>1
  <2> DEFINE s == SubSeq(ws, i - n + 1, i)
  <2>3. ASSUME n <= i
        PROVE  s \in [1 .. n -> Words] /\ \A x \in 1 .. n : s[x] = ws[i - n + x]
    <3>1. i - n + 1 \in 1 .. Len(ws) + 1 /\ i - (i - n + 1) + 1 = n /\ i - n \in Nat
      BY <1>3, <2>2, <2>3
    <3>2. s = [x \in 1 .. n |-> ws[(i - n + 1) + x - 1]]
      BY <1>3, <3>1
    <3>3. ASSUME NEW x \in 1 .. n
          PROVE  ws[(i - n + 1) + x - 1] = ws[i - n + x] /\ ws[i - n + x] \in Words
      <4>1. (i - n + 1) + x - 1 = i - n + x /\ i - n + x \in 1 .. Len(ws)
        BY <1>3, <2>2, <2>3
      <4> QED BY <4>1
    <3> HIDE DEF s
    <3> QED BY <3>2, <3>3
  <2> HIDE DEF s
  <2>4. i \in Ends(ws, g) <=> n <= i /\ s = g /\ \A x \in 1 .. n : IsWord(g[x])
    <3>1. i \in n .. Len(ws) <=> n <= i
      BY <1>3, <2>2
    <3> QED BY <2>2, <3>1 DEF Ends, s
  <2> HIDE DEF Gram
  <2>5. ASSUME n \in 1 .. m, g = Gram(n) PROVE i \in Ends(ws, g)
    <3>1. n <= i
      BY <1>1, <2>5
    <3>2. \A x \in 1 .. n : g[x] = ws[i - n + x] /\ IsWord(g[x])
      BY <1>4, <2>5
    <3>3. s = g
      <4>1. s = [x \in 1 .. n |-> s[x]] /\ g = [x \in 1 .. n |-> g[x]]
        BY <2>1, <2>3, <3>1
      <4>2. \A x \in 1 .. n : s[x] = g[x]
        BY <2>3, <3>1, <3>2
      <4> QED BY <4>1, <4>2
    <3> QED BY <2>4, <3>1, <3>2, <3>3
  <2>6. ASSUME i \in Ends(ws, g) PROVE n \in 1 .. m /\ g = Gram(n)
    <3>1. n <= i /\ s = g /\ \A x \in 1 .. n : IsWord(g[x])
      BY <2>4, <2>6
    <3>2. \A x \in 1 .. n : g[x] = ws[i - n + x]
      BY <2>3, <3>1
    <3>3. n <= m
      <4> SUFFICES ASSUME n > m PROVE FALSE
        BY <1>1, <2>2
      <4>1. n - m \in 1 .. n /\ i - n + (n - m) = i - m /\ m # 3 /\ m # i
        BY <1>1, <1>3, <2>2, <3>1
      <4>2. ~IsWord(ws[i - m])
        BY <4>1 DEF Longest
      <4>3. g[n - m] = ws[i - m] /\ IsWord(g[n - m])
        BY <3>1, <3>2, <4>1
      <4> QED BY <4>2, <4>3
    <3>4. n \in 1 .. m
      BY <1>1, <3>3
    <3>5. g = Gram(n)
      <4>1. Gram(n) = [x \in 1 .. n |-> Gram(n)[x]] /\ g = [x \in 1 .. n |-> g[x]]
        BY <1>4, <2>1, <3>4
      <4>2. \A x \in 1 .. n : Gram(n)[x] = g[x]
        BY <1>4, <3>2, <3>4
      <4> QED BY <4>1, <4>2
    <3> QED BY <3>4, <3>5
  <2> QED BY <2>2, <2>5, <2>6
<1> QED BY <1>5, <1>6

-----------------------------------------------------------------------------
(* extract_ngrams and compute_ngram_idf: the words of a paragraph. *)

\* The ends of an n-gram before a position, and there up to some length
EndsUpTo(ws, g, i, j) == {e \in Ends(ws, g) : e < i \/ (e = i /\ Len(g) <= j)}

\* The places E, and those in the paragraph k of the file at hand
With(E, k, ws, i, j) ==
    [g \in Grams |-> E[g] \cup {FILE_COUNTER} \X ({k} \X EndsUpTo(ws, g, i, j))]

\* Places of other paragraphs
Elsewhere(E, k) ==
    \A g \in Grams : \A p \in E[g] :
        p[1] \in Nat /\ p[1] <= FILE_COUNTER /\ (p[1] = FILE_COUNTER => p[2][1] # k)

LEMMA GramLength == \A g \in Grams : Len(g) \in 1 .. 3 /\ Len(g) <= 3 /\ g \in Seq(Words)
<1> SUFFICES ASSUME NEW g \in Grams PROVE Len(g) \in 1 .. 3 /\ Len(g) <= 3 /\ g \in Seq(Words)
  OBVIOUS
<1>1. PICK n \in 1 .. 3 : g \in [1 .. n -> Words]
  BY DEF Grams
<1>2. n \in Nat
  OBVIOUS
<1> QED BY <1>1, <1>2

\* Meet for the n-grams that end at a word, from the shortest to the longest
LEMMA MeetAllCounts ==
    ASSUME kind \in Ngrams, FILE_COUNTER \in Nat, NEW E, NEW k, Elsewhere(E, k),
           NEW ws \in Seq(Words), NEW i \in 1 .. Len(ws),
           NEW b, LastWords(b, ws, i), Longest(b, ws, i, 3),
           NEW h, IsTable(h, With(E, k, ws, i, 0))
    PROVE  IsTable(FoldLeft(Meet, h, [n \in DOMAIN b |-> SubSeq(b, Len(b) - n + 1, Len(b))]),
                   With(E, k, ws, i, 3))
<1> DEFINE m == Len(b)
           Gram(j) == SubSeq(b, m - j + 1, m)
           grams == [n \in DOMAIN b |-> Gram(n)]
<1>1. m \in Nat /\ m <= 3 /\ DOMAIN b = 1 .. m
  <2>1. b \in Seq(Words)
    BY DEF LastWords
  <2>2. m <= 3
    BY DEF Longest
  <2> QED BY <2>1, <2>2
<1>2. \A j \in 1 .. m : Gram(j) \in Grams /\ Len(Gram(j)) = j
  BY GramsAtWord
<1>3. \A g \in Grams : i \in Ends(ws, g) <=> Len(g) \in 1 .. m /\ g = Gram(Len(g))
  BY GramsAtWord
<1> HIDE DEF m, Gram
<1>4. DOMAIN grams = 1 .. m
  BY <1>1
<1>5. FoldLeft(Meet, h, grams) = MeetFold!Fold(h, grams, m)
  <2> HIDE DEF grams
  <2> QED BY <1>1, <1>4
       DEF FoldLeft, MapThenFoldSet, MeetFold!Fold, MeetFold!IsFold, Max, MeetFold!Max
<1>6. PICK run : MeetFold!IsRun(run, h, grams, m) /\ run[m] = FoldLeft(Meet, h, grams)
  <2> HIDE DEF grams
  <2> QED BY <1>1, <1>4, <1>5, MeetFold!FoldRuns
<1>7. run[0] = h /\ \A j \in 1 .. m : run[j] = Meet(run[j - 1], Gram(j))
  BY <1>1, <1>6 DEF MeetFold!IsRun
<1> DEFINE P(j) == IsTable(run[j], With(E, k, ws, i, j))
           S == {j \in Nat : j <= m => P(j)}
<1>8. 0 \in S
  BY <1>7
<1>9. ASSUME NEW j \in Nat, j \in S PROVE j + 1 \in S
  <2> SUFFICES ASSUME j + 1 <= m PROVE P(j + 1)
    OBVIOUS
  <2>1. j + 1 \in 1 .. m /\ (j + 1) - 1 = j /\ j <= m
    BY <1>1
  <2>2. P(j)
    BY <1>9, <2>1
  <2> DEFINE g == Gram(j + 1)
             q == <<FILE_COUNTER, <<k, i>>>>
             D == With(E, k, ws, i, j)
             F == With(E, k, ws, i, j + 1)
  <2>3. run[j + 1] = Meet(run[j], g)
    BY <1>7, <2>1
  <2>4. g \in Grams /\ Len(g) = j + 1 /\ i \in Ends(ws, g)
    <3>1. g \in Grams /\ Len(g) = j + 1
      BY <1>2, <2>1
    <3> HIDE DEF g
    <3>2. g = Gram(Len(g))
      BY <3>1 DEF g
    <3> QED BY <1>3, <2>1, <3>1, <3>2
  <2> HIDE DEF g
  <2>5. \A f \in Grams : D[f] = E[f] \cup {FILE_COUNTER} \X ({k} \X EndsUpTo(ws, f, i, j))
    BY DEF With
  <2>6. \A f \in Grams : F[f] = E[f] \cup {FILE_COUNTER} \X ({k} \X EndsUpTo(ws, f, i, j + 1))
    BY DEF With
  <2>7. ASSUME NEW f \in Grams, f # g
        PROVE  EndsUpTo(ws, f, i, j + 1) = EndsUpTo(ws, f, i, j)
    <3>1. i \in Ends(ws, f) => Len(f) # j + 1
      BY <1>3, <2>7 DEF g
    <3>2. Len(f) \in Nat
      BY GramLength
    <3>3. i \in Ends(ws, f) => (Len(f) <= j + 1 <=> Len(f) <= j)
      BY <3>1, <3>2
    <3> QED BY <3>3 DEF EndsUpTo
  <2>8. EndsUpTo(ws, g, i, j + 1) = EndsUpTo(ws, g, i, j) \cup {i}
    <3>1. ~(Len(g) <= j) /\ Len(g) <= j + 1
      BY <2>4
    <3> QED BY <2>4, <3>1 DEF EndsUpTo
  <2>9. i \notin EndsUpTo(ws, g, i, j)
    <3>1. ~(Len(g) <= j) /\ ~(i < i)
      BY <2>4
    <3> QED BY <3>1 DEF EndsUpTo
  <2>10. q \notin D[g]
    <3>1. q \notin E[g]
      BY <2>4 DEF Elsewhere
    <3> QED BY <2>4, <2>5, <2>9, <3>1
  <2>11. F[g] = D[g] \cup {q}
    BY <2>4, <2>5, <2>6, <2>8
  <2>12. \A f \in Grams : f # g => F[f] = D[f]
    BY <2>5, <2>6, <2>7
  <2>13. \A p \in D[g] : p[1] \in Nat /\ p[1] <= FILE_COUNTER
    <3> TAKE p \in D[g]
    <3>1. CASE p \in E[g]
      BY <2>4, <3>1 DEF Elsewhere
    <3>2. CASE p \in {FILE_COUNTER} \X ({k} \X EndsUpTo(ws, g, i, j))
      <4>1. p[1] = FILE_COUNTER
        BY <3>2
      <4> QED BY <4>1
    <3> QED BY <2>4, <2>5, <3>1, <3>2
  <2>14. q[1] = FILE_COUNTER
    OBVIOUS
  <2> HIDE DEF D, F, q
  <2>15. IsTable(run[j], D)
    BY <2>2 DEF D
  <2>16. IsTable(Meet(run[j], g), F)
    BY <2>4, <2>10, <2>11, <2>12, <2>13, <2>14, <2>15, MeetCounts
  <2> QED BY <2>3, <2>16 DEF F
<1> HIDE DEF P, S
<1>10. m \in S
  BY <1>1, <1>8, <1>9, MeetFold!SetInduction
<1>11. P(m)
  BY <1>1, <1>10 DEF S
<1>12. With(E, k, ws, i, m) = With(E, k, ws, i, 3)
  <2>1. ASSUME NEW g \in Grams PROVE EndsUpTo(ws, g, i, m) = EndsUpTo(ws, g, i, 3)
    <3>1. i \in Ends(ws, g) => Len(g) <= m
      BY <1>1, <1>3
    <3>2. Len(g) <= 3
      BY GramLength, Zenon
    <3> QED BY <3>1, <3>2 DEF EndsUpTo
  <2> QED BY <2>1 DEF With
<1> QED BY <1>6, <1>11, <1>12 DEF P, m, Gram, grams

LEMMA SameTable ==
    ASSUME NEW h, NEW D, NEW E, \A g \in Grams : D[g] = E[g], IsTable(h, D)
    PROVE  IsTable(h, E)
BY Zenon DEF IsTable

LEMMA EndsType ==
    ASSUME NEW ws \in Seq(Words), NEW g \in Grams
    PROVE  Ends(ws, g) \subseteq 1 .. Len(ws)
<1>1. Len(g) \in 1 .. 3 /\ Len(ws) \in Nat
  BY GramLength
<1>2. Ends(ws, g) \subseteq Len(g) .. Len(ws)
  BY DEF Ends
<1>3. Len(g) .. Len(ws) \subseteq 1 .. Len(ws)
  BY <1>1
<1> QED BY <1>2, <1>3

\* No n-gram ends at what is no word
LEMMA NoGramEnds ==
    ASSUME NEW ws \in Seq(Words), NEW g \in Grams, NEW i \in 1 .. Len(ws), ~IsWord(ws[i])
    PROVE  i \notin Ends(ws, g)
<1> SUFFICES ASSUME i \in Ends(ws, g) PROVE FALSE
  OBVIOUS
<1> DEFINE n == Len(g)
           s == SubSeq(ws, i - n + 1, i)
<1>1. n \in Nat /\ 1 <= n /\ i \in Nat /\ Len(ws) \in Nat /\ i <= Len(ws)
  <2>1. n \in 1 .. 3
    BY GramLength
  <2> HIDE DEF n
  <2> QED BY <2>1
<1>2. i \in n .. Len(ws) /\ s = g /\ \A x \in 1 .. n : IsWord(g[x])
  BY DEF Ends
<1> HIDE DEF n, s
<1>3. n \in 1 .. n /\ n <= i
  BY <1>1, <1>2
<1>4. s[n] = ws[i]
  <2>1. i - n + 1 \in Nat /\ 1 <= i - n + 1 /\ i - (i - n + 1) + 1 = n /\ (i - n + 1) + n - 1 = i
    BY <1>1, <1>3
  <2>2. s = [x \in 1 .. i - (i - n + 1) + 1 |-> ws[(i - n + 1) + x - 1]]
    BY <1>1, <2>1 DEF s
  <2>3. s = [x \in 1 .. n |-> ws[(i - n + 1) + x - 1]]
    BY <2>1, <2>2
  <2> QED BY <1>3, <2>1, <2>3
<1> QED BY <1>2, <1>3, <1>4

\* ngram_parse2, for a paragraph
LEMMA ParagraphCounts ==
    ASSUME kind \in Ngrams, FILE_COUNTER \in Nat, NEW E, NEW k, Elsewhere(E, k),
           NEW ws \in Seq(Words), NEW h, IsTable(h, E)
    PROVE  IsTable(FoldLeft(NgramStep, [before |-> <<>>, hash |-> h], ws).hash,
                   [g \in Grams |-> E[g] \cup {FILE_COUNTER} \X ({k} \X Ends(ws, g))])
<1> DEFINE n    == Len(ws)
           base == [before |-> <<>>, hash |-> h]
<1>0. n \in Nat /\ DOMAIN ws = 1 .. n
  OBVIOUS
<1> HIDE DEF n
<1>1. base.before = <<>> /\ base.hash = h /\ base = [before |-> base.before, hash |-> base.hash]
  OBVIOUS
<1> HIDE DEF base
<1>2. PICK run : NgramFold!IsRun(run, base, ws, n) /\ run[n] = FoldLeft(NgramStep, base, ws)
  <2>1. FoldLeft(NgramStep, base, ws) = NgramFold!Fold(base, ws, n)
    BY <1>0 DEF FoldLeft, MapThenFoldSet, NgramFold!Fold, NgramFold!IsFold, Max, NgramFold!Max
  <2> QED BY <1>0, <2>1, NgramFold!FoldRuns
<1>3. run[0] = base /\ \A i \in 1 .. n : run[i] = NgramStep(run[i - 1], ws[i])
  BY <1>2 DEF NgramFold!IsRun
<1> DEFINE P(i) == /\ run[i] = [before |-> run[i].before, hash |-> run[i].hash]
                   /\ LastWords(run[i].before, ws, i) /\ Longest(run[i].before, ws, i, 2)
                   /\ IsTable(run[i].hash, With(E, k, ws, i, 3))
           S == {i \in Nat : i <= n => P(i)}
<1>4. 0 \in S
  <2>1. LastWords(<<>>, ws, 0) /\ Longest(<<>>, ws, 0, 2)
    <3>1. <<>> \in Seq(Words) /\ Len(<<>>) = 0 /\ 0 \in 0 .. 0 /\ 1 .. 0 = {}
      OBVIOUS
    <3> QED BY <3>1 DEF LastWords, Longest
  <2>2. \A g \in Grams : E[g] = With(E, k, ws, 0, 3)[g]
    <3> TAKE g \in Grams
    <3>1. EndsUpTo(ws, g, 0, 3) = {}
      BY EndsType DEF EndsUpTo
    <3> QED BY <3>1 DEF With
  <2>3. IsTable(h, With(E, k, ws, 0, 3))
    BY <2>2, SameTable
  <2> QED BY <1>1, <1>3, <2>1, <2>3
<1>5. ASSUME NEW i \in Nat, i \in S PROVE i + 1 \in S
  <2> SUFFICES ASSUME i + 1 <= n PROVE P(i + 1)
    OBVIOUS
  <2>1. i + 1 \in 1 .. n /\ (i + 1) - 1 = i /\ i <= n /\ i + 1 <= Len(ws) /\ i + 1 \in 1 .. Len(ws)
    BY <1>0 DEF n
  <2>2. P(i)
    BY <1>5, <2>1
  <2> DEFINE a == run[i]
             b == run[i + 1]
             w == ws[i + 1]
  <2>3. b = NgramStep(a, w)
    BY <1>3, <2>1
  <2>4. /\ a = [before |-> a.before, hash |-> a.hash]
        /\ LastWords(a.before, ws, i) /\ Longest(a.before, ws, i, 2)
        /\ IsTable(a.hash, With(E, k, ws, i, 3))
    BY <2>2
  <2>5. IsTable(a.hash, With(E, k, ws, i + 1, 0))
    <3>1. \A g \in Grams : With(E, k, ws, i, 3)[g] = With(E, k, ws, i + 1, 0)[g]
      <4> TAKE g \in Grams
      <4>1. Len(g) <= 3 /\ ~(Len(g) <= 0)
        <5>1. Len(g) \in 1 .. 3
          BY GramLength, Zenon
        <5>2. Len(g) <= 3
          BY GramLength, Zenon
        <5> DEFINE l == Len(g)
        <5>3. l \in 1 .. 3
          BY <5>1
        <5> HIDE DEF l
        <5>4. ~(l <= 0)
          BY <5>3
        <5> QED BY <5>2, <5>4 DEF l
      <4>2. \A e \in Ends(ws, g) : e \in Int
        BY EndsType
      <4>3. \A e \in Ends(ws, g) : e < i \/ e = i <=> e < i + 1
        BY <4>2
      <4>4. EndsUpTo(ws, g, i, 3) = EndsUpTo(ws, g, i + 1, 0)
        BY <4>1, <4>3, Zenon DEF EndsUpTo
      <4> QED BY <4>4 DEF With
    <3> QED BY <2>4, <3>1, SameTable
  <2>6. CASE IsWord(w)
    <3> DEFINE upTo == Append(a.before, w)
               kept == IF Len(upTo) > 2 THEN Tail(upTo) ELSE upTo
               new  == FoldLeft(Meet, a.hash,
                           [x \in DOMAIN upTo |-> SubSeq(upTo, Len(upTo) - x + 1, Len(upTo))])
    <3>1. b = [before |-> kept, hash |-> new]
      BY <2>3, <2>6 DEF NgramStep, MeetAll
    <3>2. /\ LastWords(upTo, ws, i + 1) /\ Longest(upTo, ws, i + 1, 3)
          /\ LastWords(kept, ws, i + 1) /\ Longest(kept, ws, i + 1, 2)
      <4> HIDE DEF a
      <4> QED BY <2>1, <2>4, <2>6, WordsGrow
    <3> HIDE DEF upTo, a, b, kept
    <3>3. IsTable(new, With(E, k, ws, i + 1, 3))
      BY <2>1, <2>5, <3>2, MeetAllCounts
    <3> HIDE DEF new
    <3>4. b.before = kept /\ b.hash = new
      BY <3>1
    <3>5. b = [before |-> b.before, hash |-> b.hash]
      BY <3>1, <3>4
    <3> QED BY <3>2, <3>3, <3>4, <3>5 DEF b
  <2>7. CASE ~IsWord(w)
    <3>1. b = [a EXCEPT !.before = <<>>]
      BY <2>3, <2>7 DEF NgramStep
    <3> HIDE DEF a, b
    <3>2. b = [before |-> <<>>, hash |-> a.hash]
      BY <2>4, <3>1
    <3>3. b.before = <<>> /\ b.hash = a.hash /\ b = [before |-> b.before, hash |-> b.hash]
      BY <3>2
    <3>4. LastWords(<<>>, ws, i + 1) /\ Longest(<<>>, ws, i + 1, 2)
      <4>1. <<>> \in Seq(Words) /\ Len(<<>>) = 0 /\ 0 \in 0 .. i + 1 /\ 1 .. 0 = {} /\ (i + 1) - 0 = i + 1
        OBVIOUS
      <4> QED BY <2>7, <4>1 DEF LastWords, Longest
    <3>5. \A g \in Grams : With(E, k, ws, i + 1, 0)[g] = With(E, k, ws, i + 1, 3)[g]
      <4> TAKE g \in Grams
      <4>1. i + 1 \notin Ends(ws, g)
        BY <2>1, <2>7, NoGramEnds
      <4>2. EndsUpTo(ws, g, i + 1, 0) = EndsUpTo(ws, g, i + 1, 3)
        BY <4>1 DEF EndsUpTo
      <4> QED BY <4>2 DEF With
    <3>6. IsTable(a.hash, With(E, k, ws, i + 1, 3))
      BY <2>5, <3>5, SameTable
    <3> QED BY <3>3, <3>4, <3>6 DEF b
  <2> QED BY <2>6, <2>7
<1> HIDE DEF P, S
<1>6. n \in S
  BY <1>0, <1>4, <1>5, NgramFold!SetInduction
<1>7. P(n)
  BY <1>0, <1>6 DEF S
<1>8. ASSUME NEW g \in Grams
      PROVE  With(E, k, ws, n, 3)[g] = E[g] \cup {FILE_COUNTER} \X ({k} \X Ends(ws, g))
  <2>1. Len(g) <= 3
    BY GramLength, Zenon
  <2>2. \A e \in Ends(ws, g) : e < n \/ e = n
    BY <1>0, EndsType DEF n
  <2>3. EndsUpTo(ws, g, n, 3) = Ends(ws, g)
    BY <2>1, <2>2, Zenon DEF EndsUpTo
  <2> QED BY <2>3 DEF With
<1> DEFINE F == [g \in Grams |-> E[g] \cup {FILE_COUNTER} \X ({k} \X Ends(ws, g))]
<1>9. \A g \in Grams : With(E, k, ws, n, 3)[g] = F[g]
  BY <1>8
<1> HIDE DEF F
<1>10. IsTable(run[n].hash, F)
  BY <1>7, <1>9, SameTable DEF P
<1> QED BY <1>2, <1>10 DEF F, base

-----------------------------------------------------------------------------
(* extract_ngrams and compute_ngram_idf: the table. *)

\* The places of an n-gram in the first n paragraphs of cs, and in the files fs
PlacesIn(cs, n, g) == UNION {{k} \X Ends(cs[k].words, g) : k \in 1 .. n}
PlacesOf(fs, g)    == UNION {{n} \X Occurrences(fs[n].doc, g) : n \in DOMAIN fs}

\* The places that have been read so far
Seen ==
    [g \in Grams |-> PlacesOf(Files, g) \cup
        IF pc = "document" THEN {Len(Files) + 1} \X PlacesIn(CallsNow, made, g) ELSE {}]

NgramTable ==
    /\ kind \in Ngrams => IsTable(hash, Seen)
    /\ kind \notin Ngrams => hash = Empty

LEMMA SameOccurrences ==
    ASSUME kind' = kind, NEW fs
    PROVE  /\ \A d, g : Occurrences(d, g)' = Occurrences(d, g)
           /\ \A g : PlacesOf(fs, g)' = PlacesOf(fs, g)
<1>1. \A d, g : Occurrences(d, g)' = Occurrences(d, g)
  BY SameParagraphs DEF Occurrences, Ends, IsWord
<1> QED BY <1>1 DEF PlacesOf

LEMMA SeenPrimed ==
    ASSUME kind' = kind, NEW g \in Grams
    PROVE  Seen'[g] = PlacesOf(Files', g) \cup
              IF pc' = "document" THEN {Len(Files') + 1} \X PlacesIn(CallsNow', made', g) ELSE {}
<1>1. \A d, f : Occurrences(d, f)' = Occurrences(d, f)
  BY SameOccurrences
<1>2. PlacesOf(Files, g)' = PlacesOf(Files', g)
  BY <1>1 DEF PlacesOf
<1>3. PlacesIn(CallsNow, made, g)' = PlacesIn(CallsNow', made', g)
  BY DEF PlacesIn, Ends, IsWord
<1> QED BY <1>2, <1>3 DEF Seen

LEMMA PlacesAppend ==
    ASSUME NEW fs \in Seq(Entry), NEW e \in Entry, NEW g
    PROVE  PlacesOf(Append(fs, e), g) = PlacesOf(fs, g) \cup {Len(fs) + 1} \X Occurrences(e.doc, g)
<1> DEFINE gs == Append(fs, e)
           Of(s, n) == {n} \X Occurrences(s[n].doc, g)
<1>1. /\ Len(fs) \in Nat /\ DOMAIN fs = 1 .. Len(fs) /\ DOMAIN gs = 1 .. Len(fs) + 1
      /\ gs[Len(fs) + 1] = e /\ \A n \in 1 .. Len(fs) : gs[n] = fs[n]
  OBVIOUS
<1> HIDE DEF gs
<1>2. PlacesOf(gs, g) = UNION {Of(gs, n) : n \in DOMAIN gs} /\ PlacesOf(fs, g) = UNION {Of(fs, n) : n \in DOMAIN fs}
  BY DEF PlacesOf
<1>3. /\ \A n \in 1 .. Len(fs) : Of(gs, n) = Of(fs, n)
      /\ Of(gs, Len(fs) + 1) = {Len(fs) + 1} \X Occurrences(e.doc, g)
  BY <1>1
<1>4. DOMAIN gs = DOMAIN fs \cup {Len(fs) + 1}
  BY <1>1
<1> HIDE DEF Of
<1>5. PlacesOf(gs, g) = PlacesOf(fs, g) \cup Of(gs, Len(fs) + 1)
  BY <1>1, <1>2, <1>3, <1>4
<1> QED BY <1>3, <1>5 DEF gs

LEMMA PlacesInNext ==
    ASSUME NEW cs, NEW n \in Nat, NEW g
    PROVE  /\ PlacesIn(cs, n + 1, g) = PlacesIn(cs, n, g) \cup {n + 1} \X Ends(cs[n + 1].words, g)
           /\ \A p \in PlacesIn(cs, n, g) : p[1] \in 1 .. n
           /\ PlacesIn(cs, 0, g) = {}
<1> DEFINE Of(k) == {k} \X Ends(cs[k].words, g)
<1>1. 1 .. n + 1 = (1 .. n) \cup {n + 1} /\ 1 .. 0 = {}
  OBVIOUS
<1>2. \A k \in 1 .. n : \A p \in Of(k) : p[1] = k
  OBVIOUS
<1>3. \A m : PlacesIn(cs, m, g) = UNION {Of(k) : k \in 1 .. m}
  BY DEF PlacesIn
<1> HIDE DEF Of
<1>4. PlacesIn(cs, n + 1, g) = PlacesIn(cs, n, g) \cup Of(n + 1)
  BY <1>1, <1>3
<1>5. \A p \in PlacesIn(cs, n, g) : p[1] \in 1 .. n
  BY <1>2, <1>3
<1>6. PlacesIn(cs, 0, g) = {}
  BY <1>1, <1>3
<1> QED BY <1>4, <1>5, <1>6 DEF Of

LEMMA NgramTableStays ==
    ASSUME NgramTable, kind' = kind, hash' = hash,
           kind \in Ngrams => \A g \in Grams : Seen'[g] = Seen[g]
    PROVE  NgramTable'
<1>1. CASE kind \in Ngrams
  <2>1. IsTable(hash, Seen)
    BY <1>1 DEF NgramTable
  <2>2. IsTable(hash, Seen')
    BY <1>1, <2>1, SameTable
  <2>3. IsTable(hash, Seen)' <=> IsTable(hash', Seen')
    BY DEF IsTable, EntryRight
  <2>4. IsTable(hash', Seen')
    BY <2>2
  <2> QED BY <1>1, <2>3, <2>4 DEF NgramTable
<1>2. CASE kind \notin Ngrams
  BY <1>2 DEF NgramTable
<1> QED BY <1>1, <1>2

LEMMA NgramsCounted ==
    ASSUME Walk, NgramTable, CountNgrams
    PROVE  NgramTable'
<1>1. Called /\ kind \in Ngrams
  BY DEF Called, CountNgrams
<1> DEFINE cs == CallsNow
           n  == made
           ws == cs[n + 1].words
           F  == [g \in Grams |-> Seen[g] \cup {FILE_COUNTER} \X ({n + 1} \X Ends(ws, g))]
<1>2. /\ pc = "document" /\ pc' = "document" /\ kind' = kind /\ done' = done
      /\ CallsNow' = cs /\ made' = n + 1 /\ Head(calls) = cs[n + 1]
      /\ n + 1 \in 1 .. Len(cs)
  BY <1>1, CalledFacts
<1>3. cs \in Seq(Callback) /\ n \in Nat
  BY <1>2, CallsNowType
<1>4. ws \in Seq(Words)
  <2> HIDE DEF cs, n
  <2>1. cs[n + 1] \in Callback
    BY <1>2, <1>3
  <2> QED BY <2>1 DEF Callback
<1>5. Len(Files) \in Nat /\ FILE_COUNTER = Len(Files) + 1 /\ DOMAIN Files = 1 .. Len(Files)
  BY <1>2, FilesFacts DEF Walk
<1>6. Elsewhere(Seen, n + 1)
  <2> SUFFICES ASSUME NEW g \in Grams, NEW p \in Seen[g]
               PROVE  p[1] \in Nat /\ p[1] <= FILE_COUNTER /\ (p[1] = FILE_COUNTER => p[2][1] # n + 1)
    BY DEF Elsewhere
  <2>1. p \in PlacesOf(Files, g) \/ p \in {Len(Files) + 1} \X PlacesIn(cs, n, g)
    BY <1>2 DEF Seen
  <2>2. CASE p \in PlacesOf(Files, g)
    <3>1. p[1] \in 1 .. Len(Files)
      BY <1>5, <2>2 DEF PlacesOf
    <3> QED BY <1>5, <3>1
  <2>3. CASE p \in {Len(Files) + 1} \X PlacesIn(cs, n, g)
    <3>1. p[1] = Len(Files) + 1 /\ p[2] \in PlacesIn(cs, n, g)
      BY <2>3
    <3> HIDE DEF cs, n
    <3>2. p[2][1] \in 1 .. n
      BY <1>3, <3>1, PlacesInNext
    <3>3. p[2][1] # n + 1
      BY <1>3, <3>2
    <3> QED BY <1>5, <3>1, <3>3
  <2> QED BY <2>1, <2>2, <2>3
<1>7. hash' = FoldLeft(NgramStep, [before |-> <<>>, hash |-> hash], ws).hash
  BY <1>2 DEF CountNgrams
<1> HIDE DEF ws, n, cs
<1>8. IsTable(hash', F)
  <2>1. IsTable(hash, Seen)
    BY <1>1 DEF NgramTable
  <2>2. FILE_COUNTER \in Nat
    BY <1>5
  <2>3. IsTable(FoldLeft(NgramStep, [before |-> <<>>, hash |-> hash], ws).hash, F)
    BY <1>1, <1>4, <1>6, <2>1, <2>2, ParagraphCounts
  <2> HIDE DEF F
  <2> QED BY <1>7, <2>3
<1>9. ASSUME NEW g \in Grams PROVE F[g] = Seen'[g]
  <2>1. Files' = Files
    BY <1>2 DEF Files
  <2>2. Seen'[g] = PlacesOf(Files, g) \cup {Len(Files) + 1} \X PlacesIn(cs, n + 1, g)
    BY <1>2, <2>1, SeenPrimed
  <2>3. Seen[g] = PlacesOf(Files, g) \cup {Len(Files) + 1} \X PlacesIn(cs, n, g)
    BY <1>2 DEF Seen, cs, n
  <2>4. PlacesIn(cs, n + 1, g) = PlacesIn(cs, n, g) \cup {n + 1} \X Ends(ws, g)
    BY <1>3, PlacesInNext DEF ws
  <2>5. F[g] = Seen[g] \cup {Len(Files) + 1} \X ({n + 1} \X Ends(ws, g))
    BY <1>5
  <2> QED BY <2>2, <2>3, <2>4, <2>5
<1> HIDE DEF F
<1>10. IsTable(hash', Seen')
  BY <1>8, <1>9, SameTable
<1>11. IsTable(hash, Seen)' <=> IsTable(hash', Seen')
  BY <1>2 DEF IsTable, EntryRight
<1> QED BY <1>1, <1>2, <1>10, <1>11 DEF NgramTable

\* A document is the paragraphs it has been read as
LEMMA PlacesInDocument ==
    ASSUME NEW d \in Seq(Paragraph), NEW g
    PROVE  Occurrences(d, g) = PlacesIn(Paragraphs(d), Len(Paragraphs(d)), g)
<1>1. DOMAIN Paragraphs(d) = 1 .. Len(Paragraphs(d))
  BY CallsOfType DEF Paragraphs
<1> QED BY <1>1 DEF Occurrences, PlacesIn

LEMMA NgramTableStep ==
    ASSUME Walk, Walk', NgramTable, Next
    PROVE  NgramTable'
<1>0. Files \in Seq(Entry) /\ Len(Files) \in Nat
  BY FilesFacts
<1>1. CASE Skip
  <2>1. /\ kind' = kind /\ hash' = hash /\ pc = "walk" /\ pc' = pc
        /\ Files' = IF entry.type = "file" THEN Append(Files, entry) ELSE Files
        /\ kind \in Ngrams => entry.type = "directory"
    BY <1>1, SkipFacts DEF tables, Serial, Ngrams
  <2>2. ASSUME kind \in Ngrams, NEW g \in Grams PROVE Seen'[g] = Seen[g]
    <3>1. Files' = Files
      BY <2>1, <2>2
    <3>2. Seen'[g] = PlacesOf(Files, g) /\ Seen[g] = PlacesOf(Files, g)
      BY <2>1, <3>1, SeenPrimed DEF Seen
    <3> QED BY <3>2
  <2> QED BY <2>1, <2>2, NgramTableStays
<1>2. CASE Open
  <2>1. /\ kind' = kind /\ hash' = hash /\ pc = "walk" /\ pc' = "document" /\ made' = 0 /\ done' = done
    BY <1>2, OpenFacts DEF Open
  <2>2. ASSUME NEW g \in Grams PROVE Seen'[g] = Seen[g]
    <3>1. Files' = Files
      BY <2>1 DEF Files
    <3>2. Seen'[g] = PlacesOf(Files, g) \cup {Len(Files) + 1} \X PlacesIn(CallsNow', 0, g)
      BY <2>1, <3>1, SeenPrimed
    <3>3. PlacesIn(CallsNow', 0, g) = {}
      BY PlacesInNext
    <3>4. Seen[g] = PlacesOf(Files, g)
      BY <2>1 DEF Seen
    <3> QED BY <3>2, <3>3, <3>4
  <2> QED BY <2>1, <2>2, NgramTableStays
<1>3. CASE Called
  <2>1. CASE kind \in Ngrams
    <3>1. CountNgrams
      BY <1>3, <2>1 DEF Called, CountWords, WriteLine, WriteSentences, Ngrams
    <3> QED BY <3>1, NgramsCounted
  <2>2. CASE kind \notin Ngrams
    <3>1. kind' = kind /\ hash' = hash
      BY <1>3, <2>2 DEF Called, CountNgrams, CountWords, WriteLine, WriteSentences
    <3> QED BY <2>2, <3>1, NgramTableStays
  <2> QED BY <2>1, <2>2
<1>4. CASE Relax
  <2>1. /\ kind' = kind /\ hash' = hash /\ pc = "document" /\ pc' = "document" /\ made' = 0 /\ done' = done
        /\ made = Len(CallsNow) /\ \A k \in 1 .. Len(CallsNow) : CallsNow[k].words = <<>>
    BY <1>4, RelaxFacts DEF tables
  <2>2. ASSUME NEW g \in Grams PROVE Seen'[g] = Seen[g]
    <3>1. Files' = Files
      BY <2>1 DEF Files
    <3>2. Seen'[g] = PlacesOf(Files, g) \cup {Len(Files) + 1} \X PlacesIn(CallsNow', 0, g)
      BY <2>1, <3>1, SeenPrimed
    <3>3. PlacesIn(CallsNow', 0, g) = {}
      BY PlacesInNext
    <3>4. Ends(<<>>, g) = {}
      <4>1. <<>> \in Seq(Words) /\ Len(<<>>) = 0 /\ 1 .. 0 = {}
        OBVIOUS
      <4> QED BY <4>1, EndsType
    <3>5. PlacesIn(CallsNow, made, g) = {}
      BY <2>1, <3>4 DEF PlacesIn
    <3>6. Seen[g] = PlacesOf(Files, g) \cup {Len(Files) + 1} \X PlacesIn(CallsNow, made, g)
      BY <2>1 DEF Seen
    <3> QED BY <3>2, <3>3, <3>5, <3>6
  <2> QED BY <2>1, <2>2, NgramTableStays
<1>5. CASE Close
  <2>1. /\ kind' = kind /\ hash' = hash /\ pc = "document" /\ pc' = "walk" /\ made = Len(CallsNow)
        /\ Files' = Append(Files, entry) /\ entry \in Entry /\ CallsNow = Paragraphs(entry.doc)
    BY <1>5, CloseFacts DEF Close
  <2>2. ASSUME NEW g \in Grams PROVE Seen'[g] = Seen[g]
    <3>1. Seen'[g] = PlacesOf(Append(Files, entry), g)
      BY <2>1, SeenPrimed
    <3>2. PlacesOf(Append(Files, entry), g) = PlacesOf(Files, g) \cup {Len(Files) + 1} \X Occurrences(entry.doc, g)
      BY <1>0, <2>1, PlacesAppend
    <3>3. entry.doc \in Seq(Paragraph)
      BY <2>1 DEF Entry
    <3>4. Occurrences(entry.doc, g) = PlacesIn(CallsNow, made, g)
      BY <2>1, <3>3, PlacesInDocument
    <3>5. Seen[g] = PlacesOf(Files, g) \cup {Len(Files) + 1} \X PlacesIn(CallsNow, made, g)
      BY <2>1 DEF Seen
    <3> QED BY <3>1, <3>2, <3>4, <3>5
  <2> QED BY <2>1, <2>2, NgramTableStays
<1>6. CASE Report
  <2>1. kind' = kind /\ hash' = hash /\ pc = "walk" /\ pc' = "end" /\ done' = done
    BY <1>6 DEF Report, tables
  <2>2. ASSUME NEW g \in Grams PROVE Seen'[g] = Seen[g]
    <3>1. Files' = Files
      BY <2>1 DEF Files
    <3> QED BY <2>1, <3>1, SeenPrimed DEF Seen
  <2> QED BY <2>1, <2>2, NgramTableStays
<1>7. CASE Continue
  <2>1. kind = "idf" /\ kind' = "rnnlm" /\ hash' = hash
    BY <1>7 DEF Continue
  <2> QED BY <2>1 DEF NgramTable, Ngrams
<1> QED BY <1>1, <1>2, <1>3, <1>4, <1>5, <1>6, <1>7 DEF Next, Called

LEMMA NgramTableHolds == Spec => []NgramTable
<1>1. ASSUME Init PROVE NgramTable
  <2>1. Walk
    BY <1>1, WalkInit
  <2>2. Len(Files) = 0 /\ DOMAIN Files = {}
    <3>1. Len(Files) = 0 /\ DOMAIN Files = 1 .. Len(Files)
      BY <1>1, <2>1, FilesFacts DEF Init, Walk
    <3>2. 1 .. 0 = {}
      OBVIOUS
    <3> QED BY <3>1, <3>2
  <2>3. \A g \in Grams : Seen[g] = {}
    BY <1>1, <2>2 DEF Seen, PlacesOf, Init
  <2>4. hash = Empty /\ DOMAIN Empty = {}
    BY <1>1 DEF Init, Empty
  <2>5. IsTable(hash, Seen)
    BY <2>3, <2>4 DEF IsTable
  <2> QED BY <2>4, <2>5 DEF NgramTable
<1>2. ASSUME Walk, NgramTable, UNCHANGED vars PROVE NgramTable'
  <2>1. kind' = kind /\ pc' = pc /\ hash' = hash
    BY <1>2 DEF vars, tables
  <2>2. Files' = Files /\ made' = made /\ CallsNow' = CallsNow
    BY <1>2, WalkStutters
  <2>3. \A g \in Grams : Seen'[g] = Seen[g]
    BY <2>1, <2>2, SeenPrimed DEF Seen
  <2> QED BY <1>2, <2>1, <2>3, NgramTableStays
<1>3. Walk /\ Walk' /\ NgramTable /\ [Next]_vars => NgramTable'
  BY <1>2, NgramTableStep
<1> QED BY <1>1, <1>3, WalkHolds, PTL DEF Spec

-----------------------------------------------------------------------------
(* extract_ngrams and compute_ngram_idf: the counts. *)

\* A place is an end of the n-gram in a paragraph, and so is each end of another there
LEMMA PlaceOfGram ==
    ASSUME Walk, NEW g \in Grams, NEW p \in Seen[g]
    PROVE  \E ws \in Seq(Words) :
              /\ p = <<p[1], <<p[2][1], p[2][2]>>>> /\ p[2][2] \in Ends(ws, g)
              /\ \A f \in Grams : \A e \in Ends(ws, f) : <<p[1], <<p[2][1], e>>>> \in Seen[f]
<1>1. p \in PlacesOf(Files, g) \/ (pc = "document" /\ p \in {Len(Files) + 1} \X PlacesIn(CallsNow, made, g))
  BY DEF Seen
<1>2. CASE p \in PlacesOf(Files, g)
  <2>1. PICK n \in DOMAIN Files : p \in {n} \X Occurrences(Files[n].doc, g)
    BY <1>2 DEF PlacesOf
  <2> DEFINE cs == Paragraphs(Files[n].doc)
  <2>2. cs \in Seq(Callback)
    BY FilesFacts
  <2>3. p[1] = n /\ p[2] \in Occurrences(Files[n].doc, g) /\ p = <<p[1], p[2]>>
    BY <2>1
  <2>4. PICK k \in DOMAIN cs : p[2] \in {k} \X Ends(cs[k].words, g)
    BY <2>3 DEF Occurrences
  <2>5. p[2][1] = k /\ p[2][2] \in Ends(cs[k].words, g) /\ p[2] = <<p[2][1], p[2][2]>>
    BY <2>4
  <2>6. cs[k].words \in Seq(Words)
    <3> HIDE DEF cs
    <3>1. cs[k] \in Callback
      BY <2>2
    <3> QED BY <3>1 DEF Callback
  <2>7. \A f \in Grams : \A e \in Ends(cs[k].words, f) : <<n, <<k, e>>>> \in Seen[f]
    <3> TAKE f \in Grams
    <3> TAKE e \in Ends(cs[k].words, f)
    <3>1. <<k, e>> \in Occurrences(Files[n].doc, f)
      BY DEF Occurrences
    <3>2. <<n, <<k, e>>>> \in PlacesOf(Files, f)
      BY <3>1 DEF PlacesOf
    <3> QED BY <3>2 DEF Seen
  <2> HIDE DEF cs
  <2> WITNESS cs[k].words \in Seq(Words)
  <2> QED BY <2>3, <2>5, <2>7
<1>3. CASE pc = "document" /\ p \in {Len(Files) + 1} \X PlacesIn(CallsNow, made, g)
  <2> DEFINE cs == CallsNow
             n  == Len(Files) + 1
  <2>2. cs \in Seq(Callback) /\ made \in 0 .. Len(cs)
    BY <1>3, CallsNowType
  <2>3. p[1] = n /\ p[2] \in PlacesIn(cs, made, g) /\ p = <<p[1], p[2]>>
    BY <1>3
  <2>4. PICK k \in 1 .. made : p[2] \in {k} \X Ends(cs[k].words, g)
    BY <2>3 DEF PlacesIn
  <2>5. p[2][1] = k /\ p[2][2] \in Ends(cs[k].words, g) /\ p[2] = <<p[2][1], p[2][2]>>
    BY <2>4
  <2>6. cs[k].words \in Seq(Words)
    <3> HIDE DEF cs
    <3>1. cs[k] \in Callback
      BY <2>2
    <3> QED BY <3>1 DEF Callback
  <2>7. \A f \in Grams : \A e \in Ends(cs[k].words, f) : <<n, <<k, e>>>> \in Seen[f]
    <3> TAKE f \in Grams
    <3> TAKE e \in Ends(cs[k].words, f)
    <3>1. <<k, e>> \in PlacesIn(CallsNow, made, f)
      BY DEF PlacesIn
    <3> QED BY <1>3, <3>1 DEF Seen
  <2> HIDE DEF cs, n
  <2> WITNESS cs[k].words \in Seq(Words)
  <2> QED BY <2>3, <2>5, <2>7
<1> QED BY <1>1, <1>2, <1>3

\* A part of an n-gram ends where the n-gram does, less the words behind it
LEMMA PartEnds ==
    ASSUME NEW ws \in Seq(Words), NEW g \in Grams, NEW i \in 1 .. Len(g), NEW j \in i .. Len(g),
           NEW e \in Ends(ws, g)
    PROVE  SubSeq(g, i, j) \in Grams /\ e - (Len(g) - j) \in Ends(ws, SubSeq(g, i, j))
<1> DEFINE n    == Len(g)
           m    == j - i + 1
           part == SubSeq(g, i, j)
           d    == e - (n - j)
           s    == SubSeq(ws, e - n + 1, e)
           t    == SubSeq(ws, d - m + 1, d)
<1>1. /\ n \in Nat /\ n <= 3 /\ g \in Seq(Words) /\ i \in Nat /\ j \in Nat /\ 1 <= i /\ i <= j /\ j <= n
      /\ Len(ws) \in Nat
  <2>1. n \in Nat /\ n <= 3 /\ g \in Seq(Words)
    BY GramLength
  <2> HIDE DEF n
  <2>2. i \in 1 .. n /\ j \in i .. n
    BY DEF n
  <2> QED BY <2>1, <2>2
<1>2. e \in n .. Len(ws) /\ s = g /\ \A x \in 1 .. n : IsWord(g[x])
  BY DEF Ends
<1> HIDE DEF n
<1>3. m \in 1 .. 3 /\ m \in Nat /\ d \in m .. Len(ws) /\ e \in Nat /\ d \in Nat
  BY <1>1, <1>2
<1>4. part \in [1 .. m -> Words] /\ \A x \in 1 .. m : part[x] = g[i + x - 1] /\ i + x - 1 \in 1 .. n
  <2>1. part = [x \in 1 .. j - i + 1 |-> g[i + x - 1]]
    BY <1>1
  <2>2. \A x \in 1 .. m : i + x - 1 \in 1 .. n
    BY <1>1
  <2>3. \A x \in 1 .. m : g[i + x - 1] \in Words
    BY <1>1, <2>2 DEF n
  <2> HIDE DEF part
  <2> QED BY <2>1, <2>2, <2>3
<1>5. Len(part) = m
  <2> HIDE DEF part, m
  <2> QED BY <1>3, <1>4
<1>6. part \in Grams
  <2> HIDE DEF part, m
  <2> QED BY <1>3, <1>4 DEF Grams
<1>7. \A y \in 1 .. n : g[y] = ws[e - n + y]
  <2>1. s = [x \in 1 .. e - (e - n + 1) + 1 |-> ws[(e - n + 1) + x - 1]]
    BY <1>1, <1>2, <1>3
  <2> HIDE DEF s
  <2>2. e - (e - n + 1) + 1 = n
    BY <1>1, <1>3
  <2>3. s = [x \in 1 .. n |-> ws[(e - n + 1) + x - 1]]
    BY <2>1, <2>2
  <2> SUFFICES ASSUME NEW y \in 1 .. n PROVE g[y] = ws[e - n + y]
    OBVIOUS
  <2>4. (e - n + 1) + y - 1 = e - n + y
    BY <1>1, <1>3
  <2> QED BY <1>2, <2>3, <2>4
<1>8. t = part
  <2>1. t = [x \in 1 .. d - (d - m + 1) + 1 |-> ws[(d - m + 1) + x - 1]]
    <3> HIDE DEF d, m
    <3>1. d - m + 1 \in 1 .. Len(ws) + 1 /\ d \in 1 .. Len(ws)
      BY <1>1, <1>3
    <3> QED BY <1>1, <1>3, <3>1
  <2>2. d - (d - m + 1) + 1 = m
    BY <1>3
  <2> HIDE DEF t, part
  <2>3. t = [x \in 1 .. m |-> ws[(d - m + 1) + x - 1]]
    BY <2>1, <2>2
  <2>4. ASSUME NEW x \in 1 .. m PROVE part[x] = ws[(d - m + 1) + x - 1]
    <3>1. part[x] = g[i + x - 1] /\ i + x - 1 \in 1 .. n
      BY <1>4
    <3>2. e - n + (i + x - 1) = (d - m + 1) + x - 1
      BY <1>1, <1>3
    <3> QED BY <1>7, <3>1, <3>2
  <2>5. part = [x \in 1 .. m |-> part[x]]
    <3> HIDE DEF m
    <3> QED BY <1>4
  <2> HIDE DEF m, d
  <2> QED BY <2>3, <2>4, <2>5
<1>9. \A x \in 1 .. Len(part) : IsWord(part[x])
  <2> HIDE DEF part, m
  <2> QED BY <1>2, <1>4, <1>5
<1>10. d \in Ends(ws, part)
  <2> HIDE DEF part, m, d
  <2> QED BY <1>3, <1>5, <1>8, <1>9 DEF Ends, t
<1> QED BY <1>6, <1>10 DEF part, d, n

LEMMA PartsAreCounted ==
    ASSUME Walk, NgramTable
    PROVE  PartsCounted
<1> SUFFICES ASSUME NEW g \in DOMAIN hash, NEW i \in DOMAIN g, NEW j \in i .. Len(g)
             PROVE  /\ SubSeq(g, i, j) \in DOMAIN hash
                    /\ hash[SubSeq(g, i, j)].counter >= hash[g].counter
  BY DEF PartsCounted
<1> DEFINE part == SubSeq(g, i, j)
           c    == Len(g) - j
           f    == [p \in Seen[g] |-> <<p[1], <<p[2][1], p[2][2] - c>>>>]
<1>1. kind \in Ngrams /\ IsTable(hash, Seen)
  <2>1. CASE kind \notin Ngrams
    BY <2>1 DEF NgramTable, Empty
  <2> QED BY <2>1 DEF NgramTable
<1>2. g \in Grams /\ Seen[g] # {} /\ EntryRight(hash[g], Seen[g])
  BY <1>1 DEF IsTable
<1>3. i \in 1 .. Len(g) /\ c \in Int
  <2>1. g \in Seq(Words) /\ Len(g) \in Nat
    BY <1>2, GramLength
  <2>2. i \in 1 .. Len(g) /\ j \in Int
    BY <2>1
  <2> QED BY <2>1, <2>2
<1> HIDE DEF c
<1>4. ASSUME NEW p \in Seen[g]
      PROVE  /\ p = <<p[1], <<p[2][1], p[2][2]>>>> /\ p[2][2] \in Int
             /\ <<p[1], <<p[2][1], p[2][2] - c>>>> \in Seen[part]
             /\ part \in Grams
  <2>1. PICK ws \in Seq(Words) :
              /\ p = <<p[1], <<p[2][1], p[2][2]>>>> /\ p[2][2] \in Ends(ws, g)
              /\ \A h \in Grams : \A e \in Ends(ws, h) : <<p[1], <<p[2][1], e>>>> \in Seen[h]
    BY <1>2, PlaceOfGram
  <2>2. part \in Grams /\ p[2][2] - c \in Ends(ws, part)
    BY <1>2, <1>3, <2>1, PartEnds DEF c
  <2>3. p[2][2] \in Int
    BY <1>2, <2>1, EndsType
  <2> HIDE DEF part
  <2>4. <<p[1], <<p[2][1], p[2][2] - c>>>> \in Seen[part]
    BY <2>1, <2>2
  <2> QED BY <2>1, <2>2, <2>3, <2>4
<1> HIDE DEF part
<1>5. part \in Grams /\ Seen[part] # {}
  BY <1>2, <1>4
<1>6. part \in DOMAIN hash /\ EntryRight(hash[part], Seen[part])
  BY <1>1, <1>5 DEF IsTable
<1>7. f \in Injection(Seen[g], Seen[part])
  <2>1. f \in [Seen[g] -> Seen[part]]
    BY <1>4
  <2>2. ASSUME NEW p \in Seen[g], NEW q \in Seen[g], f[p] = f[q] PROVE p = q
    <3>1. <<p[1], <<p[2][1], p[2][2] - c>>>> = <<q[1], <<q[2][1], q[2][2] - c>>>>
      BY <2>2
    <3>2. p[1] = q[1] /\ p[2][1] = q[2][1] /\ p[2][2] - c = q[2][2] - c
      BY <3>1
    <3>3. p[2][2] \in Int /\ q[2][2] \in Int
      BY <1>4
    <3>4. p[2][2] = q[2][2]
      BY <1>3, <3>2, <3>3
    <3>5. p = <<p[1], <<p[2][1], p[2][2]>>>> /\ q = <<q[1], <<q[2][1], q[2][2]>>>>
      BY <1>4
    <3> QED BY <3>2, <3>4, <3>5
  <2> HIDE DEF f
  <2> QED BY <2>1, <2>2 DEF Injection, IsInjective
<1> HIDE DEF f
<1>8. IsFiniteSet(Seen[part]) /\ IsFiniteSet(Seen[g])
  BY <1>2, <1>6 DEF EntryRight
<1>9. Cardinality(Seen[g]) <= Cardinality(Seen[part])
  BY <1>7, <1>8, FS_Injection
<1>10. Cardinality(FilesIn(Seen[g])) <= Cardinality(FilesIn(Seen[part]))
  <2>1. FilesIn(Seen[g]) \subseteq FilesIn(Seen[part])
    <3> SUFFICES ASSUME NEW p \in Seen[g] PROVE p[1] \in FilesIn(Seen[part])
      BY DEF FilesIn
    <3> DEFINE q == <<p[1], <<p[2][1], p[2][2] - c>>>>
    <3>1. q \in Seen[part] /\ q[1] = p[1]
      BY <1>4
    <3> HIDE DEF q
    <3> QED BY <3>1 DEF FilesIn
  <2>2. IsFiniteSet(FilesIn(Seen[part]))
    BY <1>8, FilesFinite
  <2> QED BY <2>1, <2>2, FS_Subset
<1>11. /\ Cardinality(Seen[g]) \in Nat /\ Cardinality(Seen[part]) \in Nat
       /\ Cardinality(FilesIn(Seen[g])) \in Nat /\ Cardinality(FilesIn(Seen[part])) \in Nat
  BY <1>8, FilesFinite, FS_CardinalityType
<1>12. hash[part].counter >= hash[g].counter
  <2>1. CASE kind = "extract"
    <3>1. hash[g].counter = Cardinality(Seen[g]) /\ hash[part].counter = Cardinality(Seen[part])
      BY <1>2, <1>6, <2>1 DEF EntryRight
    <3> QED BY <1>9, <1>11, <3>1
  <2>2. CASE kind = "ngram_idf"
    <3>1. /\ hash[g].counter = Cardinality(FilesIn(Seen[g]))
          /\ hash[part].counter = Cardinality(FilesIn(Seen[part]))
      BY <1>2, <1>6, <2>2 DEF EntryRight
    <3> QED BY <1>10, <1>11, <3>1
  <2> QED BY <1>1, <2>1, <2>2 DEF Ngrams
<1> QED BY <1>6, <1>12 DEF part

\* The n-grams of the files
LEMMA TheNgrams ==
    ASSUME Walk
    PROVE  AllNgrams = {g \in Grams : Everywhere(g) # {}}
<1> DEFINE Subs(ws) == {SubSeq(ws, i, j) : i \in DOMAIN ws, j \in DOMAIN ws}
           TheSubs  == UNION {UNION {Subs(p.words) : p \in ToSet(Paragraphs(Files[n].doc))} : n \in DOMAIN Files}
<1>1. AllNgrams = {g \in TheSubs : Len(g) \in 1 .. 3 /\ Everywhere(g) # {}}
  BY DEF AllNgrams
<1>2. ASSUME NEW g \in TheSubs, Len(g) \in 1 .. 3 PROVE g \in Grams
  <2>1. PICK n \in DOMAIN Files : \E p \in ToSet(Paragraphs(Files[n].doc)) : g \in Subs(p.words)
    BY <1>2
  <2> DEFINE cs == Paragraphs(Files[n].doc)
  <2>2. PICK p \in ToSet(cs) : g \in Subs(p.words)
    BY <2>1
  <2>3. cs \in Seq(Callback)
    BY FilesFacts
  <2> HIDE DEF cs
  <2>4. p \in Callback
    BY <2>2, <2>3 DEF ToSet
  <2>5. p.words \in Seq(Words)
    BY <2>4 DEF Callback
  <2>6. PICK i \in DOMAIN p.words, j \in DOMAIN p.words : g = SubSeq(p.words, i, j)
    BY <2>2
  <2>7. g \in Seq(Words)
    <3>1. i \in 1 .. Len(p.words) /\ j \in 1 .. Len(p.words) /\ Len(p.words) \in Nat
      BY <2>5, <2>6
    <3>2. \A x \in i .. j : p.words[x] \in Words
      BY <2>5, <3>1
    <3>3. SubSeq(p.words, i, j) \in Seq(Words)
      BY <2>5, <3>1, <3>2
    <3> QED BY <2>6, <3>3
  <2>8. g \in [1 .. Len(g) -> Words]
    BY <2>7
  <2> QED BY <1>2, <2>8 DEF Grams
<1>3. ASSUME NEW g \in Grams, Everywhere(g) # {} PROVE g \in TheSubs /\ Len(g) \in 1 .. 3
  <2>1. PICK n \in DOMAIN Files : Occurrences(Files[n].doc, g) # {}
    BY <1>3 DEF Everywhere
  <2> DEFINE cs == Paragraphs(Files[n].doc)
  <2>2. PICK k \in DOMAIN cs : Ends(cs[k].words, g) # {}
    BY <2>1 DEF Occurrences
  <2>3. cs \in Seq(Callback)
    BY FilesFacts
  <2> HIDE DEF cs
  <2>4. cs[k] \in ToSet(cs) /\ cs[k] \in Callback
    BY <2>3 DEF ToSet
  <2>5. cs[k].words \in Seq(Words)
    BY <2>4 DEF Callback
  <2> DEFINE ws == cs[k].words
  <2>6. PICK e \in Ends(ws, g) : TRUE
    BY <2>2
  <2> HIDE DEF ws
  <2>7. ws \in Seq(Words) /\ Len(ws) \in Nat /\ DOMAIN ws = 1 .. Len(ws)
    BY <2>5 DEF ws
  <2>8. e \in Len(g) .. Len(ws) /\ SubSeq(ws, e - Len(g) + 1, e) = g
    BY <2>6 DEF Ends
  <2>9. Len(g) \in 1 .. 3
    BY GramLength
  <2>10. e \in DOMAIN ws /\ e - Len(g) + 1 \in DOMAIN ws
    <3> DEFINE l == Len(g)
    <3>1. l \in 1 .. 3 /\ e \in l .. Len(ws)
      BY <2>8, <2>9
    <3> HIDE DEF l
    <3>2. e \in 1 .. Len(ws) /\ e - l + 1 \in 1 .. Len(ws)
      BY <2>7, <3>1
    <3> QED BY <2>7, <3>2 DEF l
  <2>11. g \in Subs(ws)
    BY <2>8, <2>10
  <2> HIDE DEF Subs
  <2>12. g \in UNION {Subs(p.words) : p \in ToSet(cs)}
    BY <2>4, <2>11 DEF ws
  <2>13. g \in TheSubs
    BY <2>12 DEF cs
  <2> QED BY <2>9, <2>13
<1> HIDE DEF TheSubs
<1> QED BY <1>1, <1>2, <1>3

LEMMA FewerThan ==
    ASSUME NEW n \in Nat, NEW S \in SUBSET (1 .. n)
    PROVE  IsFiniteSet(S) /\ Cardinality(S) \in Nat /\ Cardinality(S) <= n
<1>1. IsFiniteSet(1 .. n) /\ Cardinality(1 .. n) = IF 1 > n THEN 0 ELSE n - 1 + 1
  BY FS_Interval
<1>2. Cardinality(1 .. n) = n
  BY <1>1
<1>3. IsFiniteSet(S) /\ Cardinality(S) <= Cardinality(1 .. n)
  BY <1>1, FS_Subset
<1> QED BY <1>2, <1>3, FS_CardinalityType

\* The table between two documents
LEMMA NgramsBetweenFiles ==
    ASSUME Walk, NgramTable, kind \in Ngrams, pc # "document"
    PROVE  /\ DOMAIN hash = AllNgrams
           /\ \A g \in DOMAIN hash :
                /\ kind = "extract" => hash[g].counter = Cardinality(Everywhere(g))
                /\ kind = "ngram_idf" => hash[g].counter = DocumentsWith(g)
                /\ DocumentsWith(g) \in 1 .. Len(Files)
<1>1. IsTable(hash, Seen)
  BY DEF NgramTable
<1>2. \A g \in Grams : Seen[g] = Everywhere(g)
  BY DEF Seen, PlacesOf, Everywhere
<1>3. DOMAIN hash = AllNgrams
  BY <1>1, <1>2, TheNgrams DEF IsTable
<1> SUFFICES ASSUME NEW g \in DOMAIN hash
             PROVE  /\ kind = "extract" => hash[g].counter = Cardinality(Everywhere(g))
                    /\ kind = "ngram_idf" => hash[g].counter = DocumentsWith(g)
                    /\ DocumentsWith(g) \in 1 .. Len(Files)
  BY <1>3
<1>4. g \in Grams /\ EntryRight(hash[g], Everywhere(g)) /\ Everywhere(g) # {}
  BY <1>1, <1>2 DEF IsTable
<1>5. FilesIn(Everywhere(g)) = {n \in DOMAIN Files : Occurrences(Files[n].doc, g) # {}}
  <2> DEFINE Of(n) == Occurrences(Files[n].doc, g)
  <2>1. Everywhere(g) = UNION {{n} \X Of(n) : n \in DOMAIN Files}
    BY DEF Everywhere
  <2> HIDE DEF Of
  <2>2. ASSUME NEW n \in DOMAIN Files, Of(n) # {} PROVE n \in FilesIn(Everywhere(g))
    <3>1. PICK o \in Of(n) : TRUE
      BY <2>2
    <3>2. <<n, o>> \in Everywhere(g) /\ <<n, o>>[1] = n
      BY <2>1, <3>1
    <3> QED BY <3>2 DEF FilesIn
  <2>3. ASSUME NEW p \in Everywhere(g) PROVE p[1] \in DOMAIN Files /\ Of(p[1]) # {}
    BY <2>1
  <2> QED BY <2>2, <2>3 DEF FilesIn, Of
<1>6. DocumentsWith(g) = Cardinality(FilesIn(Everywhere(g)))
  BY <1>5 DEF DocumentsWith
<1>7. DocumentsWith(g) \in 1 .. Len(Files)
  <2>1. DOMAIN Files = 1 .. Len(Files) /\ Len(Files) \in Nat
    BY FilesFacts
  <2>3. FilesIn(Everywhere(g)) \subseteq 1 .. Len(Files)
    BY <1>5, <2>1
  <2>4. DocumentsWith(g) <= Len(Files)
    BY <1>6, <2>1, <2>3, FewerThan
  <2>5. DocumentsWith(g) \in Nat /\ DocumentsWith(g) # 0
    <3>1. IsFiniteSet(Everywhere(g))
      BY <1>4 DEF EntryRight
    <3> QED BY <1>4, <1>6, <3>1, FilesFinite
  <2> QED BY <2>1, <2>4, <2>5
<1> QED BY <1>4, <1>6, <1>7 DEF EntryRight

\* extract_ngrams, compute_ngram_idf, gen_IDF, src/src/tasks: between two documents the table has
\* every n-gram, or word, of the files read, and no other, each with the number of its occurrences
\* or of the documents it is in; at any time it has the parts of an n-gram at least as often
THEOREM CountsAreOfTheCorpus == Spec => []CountsRight
<1>1. ASSUME Walk, NgramTable, Frequencies PROVE CountsRight
  <2>1. PartsCounted
    BY <1>1, PartsAreCounted
  <2>2. ASSUME pc # "document", kind = "extract"
        PROVE  DOMAIN hash = AllNgrams /\ \A g \in DOMAIN hash : hash[g].counter = Cardinality(Everywhere(g))
    BY <1>1, <2>2, NgramsBetweenFiles DEF Ngrams
  <2>3. ASSUME pc # "document", kind = "ngram_idf"
        PROVE  DOMAIN hash = AllNgrams /\ \A g \in DOMAIN hash : hash[g].counter = DocumentsWith(g)
    BY <1>1, <2>3, NgramsBetweenFiles DEF Ngrams
  <2>4. ASSUME kind = "idf"
        PROVE  DOMAIN CF = {w \in Words : ContentWith(w) > 0} /\ \A w \in DOMAIN CF : CF[w] = ContentWith(w)
    <3>1. CF = ContentTable
      BY <1>1, <2>4 DEF Frequencies
    <3> QED BY <3>1 DEF ContentTable
  <2> QED BY <2>1, <2>2, <2>3, <2>4 DEF CountsRight
<1> QED BY <1>1, WalkHolds, NgramTableHolds, FrequenciesHold, PTL

-----------------------------------------------------------------------------
(* The scores. *)

NgramScores == pc = "end" /\ kind = "ngram_idf" => result = [g \in DOMAIN hash |-> NgramScore(g)]

LEMMA NgramScoresHold == Spec => []NgramScores
<1>1. ASSUME Init PROVE NgramScores
  BY <1>1 DEF Init, NgramScores
<1>2. ASSUME Walk, NgramScores, [Next]_vars PROVE NgramScores'
  <2>1. CASE UNCHANGED vars
    BY <1>2, <2>1 DEF vars, tables, NgramScores, NgramScore
  <2>2. CASE Report
    <3> SUFFICES ASSUME kind' = "ngram_idf" PROVE result' = [g \in DOMAIN hash |-> NgramScore(g)]'
      BY DEF NgramScores
    <3>1. kind = "ngram_idf" /\ hash' = hash /\ FILE_COUNTER' = FILE_COUNTER
      BY <2>2 DEF Report, tables
    <3>2. result' = [g \in DOMAIN hash |-> NgramScore(g)]
      BY <2>2, <3>1 DEF Report
    <3>3. \A g \in DOMAIN hash : NgramScore(g)' = NgramScore(g)
      BY <3>1 DEF NgramScore
    <3> QED BY <3>1, <3>2, <3>3
  <2>3. CASE Skip \/ Open \/ Called \/ Relax \/ Close \/ Continue
    <3>1. pc' # "end"
      BY <2>3 DEF Skip, Open, Called, CountNgrams, CountWords, WriteLine, WriteSentences, Relax, Close, Continue
    <3> QED BY <3>1 DEF NgramScores
  <2> QED BY <1>2, <2>1, <2>2, <2>3 DEF Next, Called
<1> QED BY <1>1, <1>2, WalkHolds, PTL DEF Spec

\* The logarithm of a score of an n-gram exists, or not
LEMMA ScoreOfNgram ==
    ASSUME NEW a \in Nat, NEW c \in 1 .. a
    PROVE  a \div (1 + c) = 0 <=> c = a
<1>1. CASE c = a
  BY <1>1
<1>2. CASE c # a
  <2>1. a >= 1 + c /\ 1 + c \in Nat /\ 1 + c > 0
    BY <1>2
  <2>2. a \div (1 + c) >= 1
    BY <2>1
  <2> QED BY <1>2, <2>2
<1> QED BY <1>1, <1>2

LEMMA WithContentFacts ==
    ASSUME Walk
    PROVE  /\ Len(WithContent) = Cardinality(HaveContent) /\ WithContent \in Seq(Entry)
           /\ \A n \in DOMAIN WithContent : \E i \in HaveContent : WithContent[n] = done[i]
<1>1. /\ HaveContent \in SUBSET (1 .. Len(done)) /\ Len(done) \in Nat /\ done \in Seq(Entry)
  BY ContentType DEF Walk
<1>2. Len(WithContent) = Cardinality(HaveContent) /\ WithContent \in Seq(Entry)
  BY <1>1, PickedLength, PickedType DEF WithContent
<1>3. ASSUME NEW n \in DOMAIN WithContent PROVE \E i \in HaveContent : WithContent[n] = done[i]
  <2>1. InOrder(HaveContent) \in Seq(HaveContent)
    BY <1>1, InOrderType
  <2>2. n \in DOMAIN InOrder(HaveContent) /\ WithContent[n] = done[InOrder(HaveContent)[n]]
    BY DEF WithContent, Picked
  <2> QED BY <2>1, <2>2
<1> QED BY <1>2, <1>3

\* gen_TF_IDF: the scores of a document
LEMMA DocumentScores ==
    ASSUME Walk, Frequencies, kind = "tf_idf", pc = "end", NEW n \in DOMAIN WithContent
    PROVE  LET d   == WithContent[n].doc
               max == Max({Times(d, w) : w \in WordsIn(d)} \cup {0})
           IN  n \in DOMAIN documents /\
               compute_tf_idf[n] = [w \in WordsIn(d) |->
                            [tf  |-> <<max + Times(d, w), 2 * max>>,
                             idf |-> <<Len(WithContent), 1 + ContentWith(w)>>]]
<1> DEFINE d  == WithContent[n].doc
           cs == Paragraphs(d)
           t  == Counted(cs, Len(cs))
           idf == FoldLeft(record_words, Empty, documents)
           max == Max({Times(d, w) : w \in WordsIn(d)} \cup {0})
           big == Max({documents[n][w] : w \in DOMAIN documents[n]} \cup {0})
<1>1. /\ Len(documents) = Len(WithContent) /\ documents[n] = t /\ idf = ContentTable
      /\ documents \in Seq(Tables) /\ WithContent \in Seq(Entry)
  BY DEF Frequencies
<1>2. n \in DOMAIN documents
  BY <1>1
<1>3. d \in Seq(Paragraph)
  <2>1. WithContent[n] \in Entry
    BY <1>1
  <2> QED BY <2>1 DEF Entry
<1>4. /\ \A w : Times(d, w) > 0 <=> w \in DOMAIN t
      /\ \A w \in DOMAIN t : w \in Words /\ t[w] = Times(d, w)
  <2> HIDE DEF d
  <2> QED BY <1>3, TimesCounted
<1>5. DOMAIN t = WordsIn(d)
  <2> HIDE DEF d, t
  <2> QED BY <1>4 DEF WordsIn
<1>6. big = max
  <2> HIDE DEF d, t
  <2>1. {documents[n][w] : w \in DOMAIN documents[n]} = {Times(d, w) : w \in WordsIn(d)}
    BY <1>1, <1>4, <1>5
  <2> QED BY <2>1
<1>7. ASSUME NEW w \in WordsIn(d) PROVE idf[w] = ContentWith(w)
  <2>1. PICK i \in HaveContent : WithContent[n] = done[i]
    BY WithContentFacts
  <2>2. i \in {j \in HaveContent : Times(done[j].doc, w) > 0}
    BY <2>1 DEF WordsIn
  <2>3. IsFiniteSet({j \in HaveContent : Times(done[j].doc, w) > 0}) /\ ContentWith(w) \in Nat
    BY ContentType
  <2>4. ContentWith(w) > 0
    <3>1. ContentWith(w) # 0
      BY <2>2, <2>3, FS_EmptySet DEF ContentWith
    <3> QED BY <2>3, <3>1
  <2>5. w \in Words
    BY DEF WordsIn
  <2> QED BY <1>1, <2>4, <2>5 DEF ContentTable
<1>8. compute_tf_idf[n] = [w \in DOMAIN documents[n] |->
          [tf |-> <<big + documents[n][w], 2 * big>>, idf |-> <<Len(documents), 1 + idf[w]>>]]
  BY <1>2, Zenon DEF compute_tf_idf
<1>9. DOMAIN documents[n] = WordsIn(d) /\ \A w \in WordsIn(d) : documents[n][w] = Times(d, w)
  <2> HIDE DEF t, d
  <2> QED BY <1>1, <1>4, <1>5
<1> HIDE DEF t, d, idf, max, big
<1>10. compute_tf_idf[n] = [w \in WordsIn(d) |->
          [tf |-> <<max + Times(d, w), 2 * max>>, idf |-> <<Len(WithContent), 1 + ContentWith(w)>>]]
  BY <1>1, <1>6, <1>7, <1>8, <1>9
<1> QED BY <1>2, <1>10 DEF d, max

\* gen_IDF, gen_TF_IDF and compute_ngram_idf, src/src/tasks: the scores at the end are those of the
\* documents with content, or of the files, and it is known which have no logarithm
THEOREM ScoresAreOfTheCorpus == Spec => []ScoresRight
<1>1. ASSUME Walk, NgramTable, Frequencies, NgramScores, pc = "end" PROVE ScoresRight
  <2>0. FILE_COUNTER = Len(Files) /\ Len(Files) \in Nat
    BY <1>1, FilesFacts DEF Walk
  <2>1. ASSUME kind = "ngram_idf", NEW g \in DOMAIN result
        PROVE  result[g][1] = 0 <=> Len(g) > 1 /\ DocumentsWith(g) = Len(Files)
    <3>1. result = [f \in DOMAIN hash |-> NgramScore(f)]
      BY <1>1, <2>1 DEF NgramScores
    <3>2. g \in DOMAIN hash /\ result[g] = NgramScore(g)
      BY <2>1, <3>1
    <3>3. hash[g].counter = DocumentsWith(g) /\ DocumentsWith(g) \in 1 .. Len(Files)
      BY <1>1, <2>1, <3>2, NgramsBetweenFiles DEF Ngrams
    <3>4. Len(g) \in 1 .. 3
      <4>1. g \in Grams
        BY <1>1, <2>1, <3>2 DEF NgramTable, Ngrams, IsTable
      <4> QED BY <4>1, GramLength
    <3>5. CASE Len(g) = 1
      <4>1. result[g][1] = Len(Files)
        BY <2>0, <3>2, <3>5 DEF NgramScore
      <4>2. Len(Files) # 0
        BY <2>0, <3>3
      <4> QED BY <3>5, <4>1, <4>2
    <3>6. CASE Len(g) # 1
      <4>1. result[g][1] = Len(Files) \div (1 + DocumentsWith(g))
        BY <2>0, <3>2, <3>3, <3>6 DEF NgramScore
      <4>2. Len(Files) \div (1 + DocumentsWith(g)) = 0 <=> DocumentsWith(g) = Len(Files)
        BY <2>0, <3>3, ScoreOfNgram
      <4>3. Len(g) > 1
        <5> DEFINE l == Len(g)
        <5>1. l \in 1 .. 3 /\ l # 1
          BY <3>4, <3>6
        <5> HIDE DEF l
        <5>2. l > 1
          BY <5>1
        <5> QED BY <5>2 DEF l
      <4> QED BY <4>1, <4>2, <4>3
    <3> QED BY <3>5, <3>6
  <2>2. ASSUME kind = "idf", NEW w \in DOMAIN result
        PROVE  /\ result[w] = <<Len(WithContent), 1 + ContentWith(w)>>
               /\ 2 * result[w][1] >= result[w][2]
    <3>1. result = compute_idf /\ CF = ContentTable /\ corpus_size = Cardinality(HaveContent)
      BY <1>1, <2>2 DEF Frequencies
    <3>2. w \in DOMAIN ContentTable /\ result[w] = <<corpus_size, 1 + ContentTable[w]>>
      BY <2>2, <3>1 DEF compute_idf
    <3>3. ContentTable[w] = ContentWith(w) /\ ContentWith(w) > 0
      BY <3>2 DEF ContentTable
    <3>4. ContentWith(w) \in Nat /\ ContentWith(w) <= corpus_size /\ corpus_size \in Nat
      BY <1>1, <3>1, ContentType
    <3>5. result[w] = <<corpus_size, 1 + ContentWith(w)>>
      BY <3>2, <3>3
    <3>6. 2 * corpus_size >= 1 + ContentWith(w)
      BY <3>3, <3>4
    <3>7. Len(WithContent) = corpus_size
      BY <1>1, <3>1, WithContentFacts
    <3> QED BY <3>5, <3>6, <3>7
  <2>3. ASSUME kind = "tf_idf"
        PROVE  /\ Len(result) = Len(WithContent)
               /\ \A n \in DOMAIN result :
                    LET d   == WithContent[n].doc
                        max == Max({Times(d, w) : w \in WordsIn(d)} \cup {0})
                    IN  result[n] = [w \in WordsIn(d) |->
                            [tf  |-> <<max + Times(d, w), 2 * max>>,
                             idf |-> <<Len(WithContent), 1 + ContentWith(w)>>]]
    <3>1. /\ result = compute_tf_idf /\ documents \in Seq(Tables) /\ Len(documents) = Len(WithContent)
          /\ WithContent \in Seq(Entry)
      BY <1>1, <2>3 DEF Frequencies
    <3>2. DOMAIN result = DOMAIN documents
      BY <3>1 DEF compute_tf_idf
    <3>3. DOMAIN result = 1 .. Len(WithContent) /\ DOMAIN result = DOMAIN WithContent
          /\ Len(WithContent) \in Nat
      BY <3>1, <3>2
    <3>4. Len(result) = Len(WithContent)
      <4>1. result = [n \in 1 .. Len(WithContent) |-> result[n]]
        BY <3>1, <3>3 DEF compute_tf_idf
      <4> QED BY <3>3, <4>1
    <3> QED BY <1>1, <2>3, <3>1, <3>3, <3>4, DocumentScores
  <2> QED BY <1>1, <2>1, <2>2, <2>3 DEF ScoresRight
<1>2. ASSUME pc # "end" PROVE ScoresRight
  BY <1>2 DEF ScoresRight
<1>3. Walk /\ NgramTable /\ Frequencies /\ NgramScores => ScoresRight
  BY <1>1, <1>2
<1> QED BY <1>3, WalkHolds, NgramTableHolds, FrequenciesHold, NgramScoresHold, PTL

-----------------------------------------------------------------------------
(* The types. *)

LEMMA CounterOfFiles ==
    ASSUME Walk
    PROVE  FILE_COUNTER = Len(Files) \/ FILE_COUNTER = Len(Files) + 1
<1>1. Len(Files) \in Nat
  BY FilesFacts
<1> QED BY <1>1 DEF Walk

LEMMA HashType ==
    ASSUME Walk, NgramTable, NEW g \in DOMAIN hash
    PROVE  /\ Len(g) \in 1 .. 3 /\ ToSet(g) \subseteq Words
           /\ hash[g].lastOccurence \in 1 .. FILE_COUNTER /\ hash[g].counter \in Nat \ {0}
<1>1. kind \in Ngrams /\ IsTable(hash, Seen)
  <2>1. CASE kind \notin Ngrams
    BY <2>1 DEF NgramTable, Empty
  <2> QED BY <2>1 DEF NgramTable
<1>2. g \in Grams /\ Seen[g] # {} /\ EntryRight(hash[g], Seen[g])
  BY <1>1 DEF IsTable
<1>3. Len(g) \in 1 .. 3 /\ ToSet(g) \subseteq Words
  <2>1. Len(g) \in 1 .. 3 /\ g \in Seq(Words)
    BY <1>2, GramLength
  <2>2. ToSet(g) \subseteq Words
    BY <2>1 DEF ToSet
  <2> QED BY <2>1, <2>2
<1>4. ASSUME NEW p \in Seen[g] PROVE p[1] \in 1 .. FILE_COUNTER
  <2>1. DOMAIN Files = 1 .. Len(Files) /\ Len(Files) \in Nat
    BY FilesFacts
  <2>2. p \in PlacesOf(Files, g) \/ (pc = "document" /\ p \in {Len(Files) + 1} \X PlacesIn(CallsNow, made, g))
    BY <1>2 DEF Seen
  <2>3. CASE p \in PlacesOf(Files, g)
    <3>1. p[1] \in 1 .. Len(Files)
      BY <2>1, <2>3 DEF PlacesOf
    <3>2. FILE_COUNTER = Len(Files) \/ FILE_COUNTER = Len(Files) + 1
      BY CounterOfFiles
    <3> QED BY <2>1, <3>1, <3>2
  <2>4. CASE pc = "document" /\ p \in {Len(Files) + 1} \X PlacesIn(CallsNow, made, g)
    <3>1. FILE_COUNTER = Len(Files) + 1
      BY <2>4 DEF Walk
    <3>2. p[1] = Len(Files) + 1
      BY <2>4
    <3> QED BY <2>1, <3>1, <3>2
  <2> QED BY <2>2, <2>3, <2>4
<1>5. hash[g].lastOccurence \in 1 .. FILE_COUNTER
  BY <1>2, <1>4 DEF EntryRight, FilesIn
<1>6. hash[g].counter \in Nat \ {0}
  <2> DEFINE S == Seen[g]
  <2>1. IsFiniteSet(S) /\ S # {}
    BY <1>2 DEF EntryRight
  <2>2. hash[g].counter = IF kind = "extract" THEN Cardinality(S) ELSE Cardinality(FilesIn(S))
    BY <1>2 DEF EntryRight
  <2> HIDE DEF S
  <2>3. Cardinality(S) \in Nat /\ Cardinality(S) # 0
    BY <2>1, FS_EmptySet, FS_CardinalityType
  <2>4. Cardinality(FilesIn(S)) \in Nat /\ Cardinality(FilesIn(S)) # 0
    BY <2>1, FilesFinite
  <2> QED BY <2>2, <2>3, <2>4
<1> QED BY <1>3, <1>5, <1>6

\* No more documents have content than there are files
LEMMA ContentIsFiles ==
    ASSUME Walk
    PROVE  Cardinality(HaveContent) <= Len(Files) /\ Len(Files) <= FILE_COUNTER
<1> DEFINE F == {i \in DOMAIN done : done[i].type = "file"}
<1>1. done \in Seq(Entry) /\ Len(done) \in Nat /\ DOMAIN done = 1 .. Len(done)
  BY DEF Walk
<1>2. F \in SUBSET (1 .. Len(done)) /\ HaveContent \subseteq F
  BY <1>1 DEF HaveContent
<1>3. Len(Files) = Cardinality(F)
  BY <1>1, <1>2, PickedLength DEF Files
<1> HIDE DEF F
<1>4. IsFiniteSet(F)
  BY <1>1, <1>2, FinitePositions
<1>5. Cardinality(HaveContent) <= Cardinality(F)
  BY <1>2, <1>4, FS_Subset
<1>6. Len(Files) <= FILE_COUNTER
  <2>1. Len(Files) \in Nat
    BY FilesFacts
  <2>2. FILE_COUNTER = Len(Files) \/ FILE_COUNTER = Len(Files) + 1
    BY CounterOfFiles
  <2> QED BY <2>1, <2>2
<1> QED BY <1>3, <1>5, <1>6

LEMMA CountedWithType ==
    ASSUME Walk, NEW w
    PROVE  CountedWith(w) \in Nat
<1> DEFINE S == {i \in DOMAIN counted :
                  /\ counted[i].type = "file"
                  /\ \E k \in DOMAIN TextOf(counted[i].doc) : w \in ToSet(TextOf(counted[i].doc)[k].words)}
<1>1. counted \in Seq(Entry)
  <2>1. <<>> \in Seq(Entry)
    OBVIOUS
  <2> QED BY <2>1, CorpusAssumption DEF Walk
<1>2. DOMAIN counted = 1 .. Len(counted) /\ Len(counted) \in Nat
  BY <1>1
<1>3. S \in SUBSET (1 .. Len(counted))
  BY <1>2
<1>4. CountedWith(w) = Cardinality(S)
  BY DEF CountedWith
<1> HIDE DEF S
<1> QED BY <1>2, <1>3, <1>4, FinitePositions

LEMMA TablesType ==
    ASSUME Walk, Frequencies, NEW t \in {DF, CF}
    PROVE  DOMAIN t \subseteq Words /\ \A w \in DOMAIN t : t[w] \in Nat \ {0}
<1>1. CASE t = Empty
  BY <1>1 DEF Empty
<1>2. CASE pc = "document" /\ t = Counted(CallsNow, made)
  BY <1>2, CallsNowType, CountedType
<1>3. CASE t = ContentTable
  <2>1. \A w : ContentWith(w) \in Nat
    BY ContentType
  <2>2. \A w \in DOMAIN t : w \in Words /\ t[w] = ContentWith(w) /\ ContentWith(w) > 0
    BY <1>3 DEF ContentTable
  <2> QED BY <2>1, <2>2
<1>4. CASE t = CountedTable
  <2>1. \A w : CountedWith(w) \in Nat
    BY CountedWithType
  <2>2. \A w \in DOMAIN t : w \in Words /\ t[w] = CountedWith(w) /\ CountedWith(w) > 0
    BY <1>4 DEF CountedTable
  <2> QED BY <2>1, <2>2
<1> QED BY <1>1, <1>2, <1>3, <1>4 DEF Frequencies

\* The tasks that walk over a directory, src/src/tasks: their tables are of words and n-grams of the
\* text with counts, and none has been told of more documents than there were files
THEOREM TypeCorrect == Spec => []TypeOK
<1>1. ASSUME Walk, Numbering, Frequencies, NgramTable PROVE TypeOK
  <2>1. /\ Len(Files) <= FILE_COUNTER /\ Cardinality(HaveContent) <= Len(Files)
        /\ FILE_COUNTER \in Nat /\ Len(Files) \in Nat /\ Cardinality(HaveContent) \in Nat
    BY <1>1, ContentIsFiles, FilesFacts, ContentType
  <2>2. corpus_size \in 0 .. FILE_COUNTER
    <3>1. corpus_size = 0 \/ corpus_size = Cardinality(HaveContent)
      BY <1>1 DEF Frequencies
    <3> QED BY <2>1, <3>1
  <2>3. DOMAIN WORD_TO_ID \subseteq Words /\ ID_COUNTER \in Nat
    <3>1. CASE kind = "simplify"
      BY <1>1, <3>1 DEF Numbering, OneToOne, Tables
    <3>2. CASE kind # "simplify"
      BY <1>1, <3>2 DEF Numbering, Empty
    <3> QED BY <3>1, <3>2
  <2>4. Len(<<>>) = 0
    OBVIOUS
  <2>5. DOMAIN simple \subseteq Names
    <3>1. CASE kind = "simplify"
      <4>1. DOMAIN simple = Outputs /\ Files \in Seq(Entry) /\ DOMAIN Files = 1 .. Len(Files)
        BY <1>1, <3>1, FilesFacts DEF Numbering
      <4>2. ASSUME NEW n \in DOMAIN Files PROVE Files[n].name \in Names
        <5>1. Files[n] \in Entry
          BY <4>1
        <5> QED BY <5>1 DEF Entry
      <4>3. pc = "document" => entry.name \in Names
        BY <1>1, NextEntry DEF Walk, InDocument, Entry
      <4> QED BY <4>1, <4>2, <4>3 DEF Outputs
    <3>2. CASE kind # "simplify"
      BY <1>1, <3>2 DEF Numbering, Empty
    <3> QED BY <3>1, <3>2
  <2>6. Len(documents) <= FILE_COUNTER
    <3>1. Len(documents) = Len(WithContent) \/ documents = <<>>
      BY <1>1 DEF Frequencies
    <3>2. Len(WithContent) <= FILE_COUNTER
      BY <1>1, <2>1, WithContentFacts
    <3> QED BY <2>1, <2>4, <3>1, <3>2
  <2>7. pc # "document" => DF = Empty /\ calls = <<>>
    BY <1>1 DEF Walk, Frequencies
  <2>8. \A t \in {DF, CF} : DOMAIN t \subseteq Words /\ \A w \in DOMAIN t : t[w] \in Nat \ {0}
    BY <1>1, TablesType
  <2>9. \A g \in DOMAIN hash :
          /\ Len(g) \in 1 .. 3 /\ ToSet(g) \subseteq Words
          /\ hash[g].lastOccurence \in 1 .. FILE_COUNTER /\ hash[g].counter \in Nat \ {0}
    BY <1>1, HashType
  <2>10. /\ kind \in Kinds \cup {"rnnlm"} /\ done \o entries \in Corpora
         /\ counted \in Corpora \cup {<<>>}
         /\ pc \in {"walk", "document", "end"} /\ xpath \in {"section", "relaxed"}
    BY <1>1 DEF Walk
  <2> QED BY <2>1, <2>2, <2>3, <2>5, <2>6, <2>7, <2>8, <2>9, <2>10 DEF TypeOK
<1>2. Walk /\ Numbering /\ Frequencies /\ NgramTable => TypeOK
  BY <1>1
<1> QED BY <1>2, WalkHolds, NumberingHolds, FrequenciesHold, NgramTableHolds, PTL
=============================================================================
