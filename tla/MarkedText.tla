----------------------------- MODULE MarkedText -----------------------------
(***************************************************************************)
(* The analyses of documents in which sentences and words are marked with  *)
(* span.ltx_sentence and span.ltx_word:                                    *)
(*   "ngrams"  llamapun_get_ngrams (src/src/llamapun/ngrams.c)             *)
(*   "json"    dom_to_pos_annotations (src/src/llamapun/senna_pos.c)       *)
(*   "dom"     annotateDOM (src/src/tasks/addPostToDom.c)                  *)
(* All of them turn the nodes of a sentence into one string, and have      *)
(* something done to the words of that string afterwards.                  *)
(*                                                                         *)
(* A document is a sequence of sentences, a sentence is a sequence of      *)
(* nodes: words, formulas and anchors, each with its id and the words of   *)
(* its text.  A sentence within a sentence (in a footnote) has nodes that  *)
(* the outer one has too.                                                  *)
(***************************************************************************)
EXTENDS Integers, Sequences, SequencesExt, FiniteSetsExt

CONSTANTS
    Kinds,     \* the analyses to look at
    Documents,
    Ids,       \* the ids of nodes
    Words,     \* the words of texts, and those they become
    Numbers,   \* words made of digits and periods
    Stopwords,
    Morpha     \* morpha_stem, as a function on Words

\* What formulas and numbers become
MathFormula == "MathFormula"
MathExpression == "MathExpression"
Number == "[number]"

\* The id of a node without the attribute, and of one whose attribute has no value
NoId == "no id"
EmptyId == ""

Node == [id : Ids \cup {NoId, EmptyId}, type : {"word", "math", "anchor"}, text : Seq(Words)]

ASSUME MarkedTextAssumption ==
    /\ Kinds \subseteq {"ngrams", "json", "dom"}
    /\ {MathFormula, MathExpression, Number} \subseteq Words
    /\ Numbers \cup Stopwords \subseteq Words
    /\ Morpha \in [Words -> Words]
    /\ Documents \subseteq Seq(Seq(Node))
    /\ \A d \in Documents : \A s \in ToSet(d) : \A n \in ToSet(s) :
          n.type = "word" => Len(n.text) = 1

VARIABLES
    kind,          \* the analysis
    doc,           \* the document; its nodes become words
    sentence,      \* sentence_index, from 1; 0 before the document is prepared
    pc,            \* "prepare", "sentence", "strip", "count", "ngrams", "end" or "undefined"
    text,          \* the words of word_input_string, stemmed
    index,         \* where in text the analysis is
    foundEnd, nonstopcounter,
    table,         \* unigram_hash, bigram_hash and trigram_hash
    tags           \* the tags of ids (json) or of nodes (dom)

vars == <<kind, doc, sentence, pc, text, index, foundEnd, nonstopcounter, table, tags>>

-----------------------------------------------------------------------------
(* Words from nodes. *)

\* xmlSetProp of an id that was not there makes one without a value
Value(id) == IF id = NoId THEN EmptyId ELSE id

\* ltx_word spans with the ids and texts of what they replace; addPostToDom leaves
\* formulas in the document
Prepared(node) ==
    IF node.type = "math" /\ kind # "dom"
    THEN [id |-> Value(node.id), type |-> "word", text |-> <<MathFormula>>]
    ELSE IF node.type = "anchor" THEN [id |-> Value(node.id), type |-> "word", text |-> node.text]
    ELSE node

\* A node as words of the string.  Text made of digits and periods only, be it empty,
\* is a number for n-grams
Contents(node) ==
    IF node.type = "math" THEN <<MathExpression>>
    ELSE IF kind = "ngrams" /\ Len(node.text) <= 1 /\ ToSet(node.text) \subseteq Numbers
    THEN <<Number>>
    ELSE node.text

Nodes == doc[sentence]

\* What a tag is kept under
Name(i) == IF kind = "dom" THEN <<sentence, i>> ELSE Nodes[i].id

\* word_input_string as the words SENNA and the loops below find in it
WordInput(nodes) == FlattenSeq([i \in DOMAIN nodes |-> Contents(nodes[i])])

Init ==
    /\ kind \in Kinds /\ doc \in Documents
    /\ sentence = 0 /\ pc = "prepare"
    /\ text = <<>> /\ index = 1 /\ foundEnd = FALSE /\ nonstopcounter = 0
    /\ table = [g \in {} |-> 0] /\ tags = [x \in {} |-> 0]

Prepare ==
    /\ pc = "prepare"
    /\ doc' = [s \in DOMAIN doc |-> [i \in DOMAIN doc[s] |-> Prepared(doc[s][i])]]
    /\ sentence' = 1 /\ pc' = "sentence"
    /\ UNCHANGED <<kind, text, index, foundEnd, nonstopcounter, table, tags>>

Finish ==
    /\ pc = "sentence" /\ sentence > Len(doc)
    /\ pc' = "end"
    /\ UNCHANGED <<kind, doc, sentence, text, index, foundEnd, nonstopcounter, table, tags>>

-----------------------------------------------------------------------------
(* Part-of-speech tags.  A tag is named by what SENNA was given, the words of a sentence, *)
(* and by the word it is for.                                                             *)

Tag(words, i) == <<words, i>>

\* Mutant: the first tag is passed over
Tagged_FromSecond(words) ==
    [x \in {Name(i) : i \in 1 .. Min({Len(words), Len(Nodes)})} |->
        Tag(words, Min({Len(words), 1 + Max({i \in DOMAIN Nodes : i <= Len(words) /\ Name(i) = x})}))]

\* The n-th tag goes to the n-th node, or to its id; of equal ids the last one keeps its tag
Tagged(words) ==
    [x \in {Name(i) : i \in 1 .. Min({Len(words), Len(Nodes)})} |->
        Tag(words, Max({i \in DOMAIN Nodes : i <= Len(words) /\ Name(i) = x}))]

HaveIds == \A i \in DOMAIN Nodes : Nodes[i].id # NoId

\* The id of every node is copied, be it used or not: strdup(NULL) for one without
WithoutId ==
    /\ pc = "sentence" /\ sentence <= Len(doc) /\ kind # "ngrams" /\ ~HaveIds
    /\ pc' = "undefined"
    /\ UNCHANGED <<kind, doc, sentence, text, index, foundEnd, nonstopcounter, table, tags>>

\* With more words than nodes the loop reads behind the array of ids or nodes
TagSentence ==
    /\ pc = "sentence" /\ sentence <= Len(doc) /\ kind # "ngrams" /\ HaveIds
    /\ LET words == WordInput(Nodes)
           given == Tagged(words)
       IN  /\ tags' = [x \in DOMAIN given \cup DOMAIN tags |->
                          IF x \in DOMAIN given THEN given[x] ELSE tags[x]]
           /\ pc' = IF Len(words) > Len(Nodes) THEN "undefined" ELSE "sentence"
    /\ sentence' = sentence + 1
    /\ UNCHANGED <<kind, doc, text, index, foundEnd, nonstopcounter, table>>

-----------------------------------------------------------------------------
(* N-grams. *)

Read ==
    /\ pc = "sentence" /\ sentence <= Len(doc) /\ kind = "ngrams"
    /\ text' = [i \in DOMAIN WordInput(Nodes) |-> Morpha[WordInput(Nodes)[i]]]
    /\ index' = 1 /\ foundEnd' = FALSE
    /\ pc' = "strip"
    /\ UNCHANGED <<kind, doc, sentence, nonstopcounter, table, tags>>

\* The empty word behind the text is a stopword (load_stopwords fills the table with it)
IsStopwordAt(i) == i <= Len(text) => text[i] \in Stopwords

\* step 1: remove leading stop words
Strip ==
    /\ pc = "strip"
    /\ foundEnd' = (index >= Len(text))
    /\ index' = IF IsStopwordAt(index) /\ index <= Len(text) THEN index + 1 ELSE index
    /\ IF IsStopwordAt(index) /\ ~foundEnd' THEN UNCHANGED <<pc, nonstopcounter>>
       ELSE pc' = "count" /\ nonstopcounter' = IF foundEnd' THEN 1 ELSE 0
    /\ UNCHANGED <<kind, doc, sentence, text, table, tags>>

\* Mutant: a stopword at the end is counted with the others
Count_LastWord ==
    /\ pc = "count"
    /\ LET tmp1 == index + nonstopcounter
       IN  IF foundEnd THEN pc' = "ngrams" /\ UNCHANGED <<foundEnd, nonstopcounter>>
           ELSE /\ foundEnd' = (tmp1 >= Len(text))
                /\ IF IsStopwordAt(tmp1) /\ ~foundEnd' THEN pc' = "ngrams" /\ UNCHANGED nonstopcounter
                   ELSE nonstopcounter' = nonstopcounter + 1 /\ UNCHANGED pc
    /\ UNCHANGED <<kind, doc, sentence, text, index, table, tags>>

\* step 2: count leading "non-stop" words
CountWords ==
    /\ pc = "count"
    /\ LET tmp1 == index + nonstopcounter
       IN  IF foundEnd THEN pc' = "ngrams" /\ UNCHANGED <<foundEnd, nonstopcounter>>
           ELSE /\ foundEnd' = (tmp1 >= Len(text))
                /\ IF IsStopwordAt(tmp1) THEN pc' = "ngrams" /\ UNCHANGED nonstopcounter
                   ELSE nonstopcounter' = nonstopcounter + 1 /\ UNCHANGED pc
    /\ UNCHANGED <<kind, doc, sentence, text, index, table, tags>>

Meet(t, g) ==
    [f \in DOMAIN t \cup {g} |-> (IF f \in DOMAIN t THEN t[f] ELSE 0) + IF f = g THEN 1 ELSE 0]

\* The n-grams at index, as long as there are words for them; none has no word, but for the
\* one behind the text
NgramsAt(i) ==
    [n \in 1 .. Min({3, nonstopcounter}) |-> SubSeq(text, i, Min({i + n - 1, Len(text)}))]

\* Mutant: the loop is left one round too late
CountNgrams_OnceMore ==
    /\ pc = "ngrams" /\ nonstopcounter >= 0
    /\ table' = FoldLeft(Meet, table, NgramsAt(index))
    /\ nonstopcounter' = nonstopcounter - 1
    /\ index' = index + 1
    /\ UNCHANGED <<kind, doc, sentence, pc, text, foundEnd, tags>>

\* step 3: process leading "non-stop" words.  The one at the end of the text has its terminator
\* replaced by a blank, and the bytes behind it are read up to the first that is no white space.
\* The blank ends the word as the terminator did; a position behind it is kept, but the loops are
\* through (foundEnd), so the outcome is the one below whatever those bytes are
CountNgrams ==
    /\ pc = "ngrams" /\ nonstopcounter > 0
    /\ table' = FoldLeft(Meet, table, NgramsAt(index))
    /\ nonstopcounter' = nonstopcounter - 1
    /\ index' = index + 1
    /\ UNCHANGED <<kind, doc, sentence, pc, text, foundEnd, tags>>

EndOfRun ==
    /\ pc = "ngrams" /\ nonstopcounter = 0
    /\ IF foundEnd THEN pc' = "sentence" /\ sentence' = sentence + 1
       ELSE pc' = "strip" /\ UNCHANGED sentence
    /\ UNCHANGED <<kind, doc, text, index, foundEnd, nonstopcounter, table, tags>>

Next ==
    \/ Prepare \/ Finish
    \/ TagSentence \/ WithoutId
    \/ Read \/ Strip \/ CountWords \/ CountNgrams \/ EndOfRun

Spec == Init /\ [][Next]_vars

-----------------------------------------------------------------------------

TypeOK ==
    /\ kind \in Kinds /\ sentence \in 0 .. Len(doc) + 1
    /\ pc \in {"prepare", "sentence", "strip", "count", "ngrams", "end", "undefined"}
    /\ text \in Seq(Words) /\ index \in 1 .. Len(text) + 2
    /\ foundEnd \in BOOLEAN
    /\ nonstopcounter \in 0 .. Max({Len(text), 1})
    /\ \A g \in DOMAIN table : g \in Seq(Words) /\ Len(g) <= 3 /\ table[g] \in Nat \ {0}
    /\ kind # "ngrams" => DOMAIN table = {}
    /\ kind = "ngrams" => DOMAIN tags = {}
    /\ pc = "undefined" => kind # "ngrams"

\* The text of a sentence as the n-grams are to be taken from it
TextOf(nodes) == [i \in DOMAIN WordInput(nodes) |-> Morpha[WordInput(nodes)[i]]]

Occurrences(words, g) ==
    {i \in 1 .. Len(words) - Len(g) + 1 : SubSeq(words, i, i + Len(g) - 1) = g}

\* Behind these there is nothing left but the empty word
EndsInStopwords(words) ==
    \A i \in DOMAIN words : i >= Len(words) - 1 => words[i] \in Stopwords

NgramsOf(words) ==
    {g \in {SubSeq(words, i, j) : i \in DOMAIN words, j \in DOMAIN words} :
        Len(g) \in 1 .. 3 /\ ToSet(g) \cap Stopwords = {}}

\* llamapun_get_ngrams: after a sentence the hashes have exactly the n-grams of up to three
\* words without a stopword in the sentences so far, with the numbers of their occurrences,
\* wherever stopwords and the ends of sentences are; and, for each sentence that has no word
\* or ends with two stopwords (or one stopword is all it has), the empty word once
NgramsCounted ==
    kind = "ngrams" /\ pc \in {"sentence", "end"} =>
        LET done == [s \in 1 .. sentence - 1 |-> TextOf(doc[s])]
            empty == Cardinality({s \in DOMAIN done : EndsInStopwords(done[s])})
        IN  /\ DOMAIN table \ {<<>>} = UNION {NgramsOf(done[s]) : s \in DOMAIN done}
            /\ \A g \in DOMAIN table \ {<<>>} :
                  table[g] = Cardinality(UNION {{s} \X Occurrences(done[s], g) : s \in DOMAIN done})
            /\ IF empty = 0 THEN <<>> \notin DOMAIN table
               ELSE <<>> \in DOMAIN table /\ table[<<>>] = empty

\* The nodes of a sentence up to the first that has not exactly one word
Leading(nodes) ==
    {i \in DOMAIN nodes : \A k \in 1 .. i : Len(Contents(nodes[k])) = 1}

\* dom_to_pos_annotations and annotateDOM: as long as every node of a sentence has been one
\* word, formulas and one-word anchors among them, a node has the tag of its own word in its
\* own sentence.  (What was replaced and had no id has the empty one, a name shared with others,
\* whose last tag counts.)
LeadingTags ==
    \A s \in 1 .. Min({sentence - 1, Len(doc)}) : \A i \in Leading(doc[s]) :
        kind # "ngrams" /\ (kind = "json" => doc[s][i].id # EmptyId) =>
            LET x == IF kind = "dom" THEN <<s, i>> ELSE doc[s][i].id
            IN  x \in DOMAIN tags /\ tags[x] = Tag(WordInput(doc[s]), i)
=============================================================================
