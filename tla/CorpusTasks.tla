----------------------------- MODULE CorpusTasks -----------------------------
(***************************************************************************)
(* The tasks that walk over a directory and keep tables of the whole       *)
(* corpus until they have seen its last file:                              *)
(*   "extract"    src/src/tasks/extract_ngrams.c, how often an n-gram is   *)
(*   "ngram_idf"  src/src/tasks/compute_ngram_idf.c, in how many documents *)
(*   "idf"        src/src/tasks/gen_IDF.c, the same for words              *)
(*   "tf_idf"     src/src/tasks/gen_TF_IDF.c, scores of words per document *)
(*   "simplify"   src/src/tasks/simplify_documents.c, words to numbers     *)
(*   "rnnlm"      src/src/tasks/gen_rnnlm_input.c, text for a language     *)
(*                model; it reads the frequencies that gen_IDF has written *)
(* gen_IDF, gen_TF_IDF and gen_rnnlm_input walk by themselves; the others  *)
(* let document_loader.c walk.                                             *)
(*                                                                         *)
(* Numbers: the argument of log2 is kept as a fraction <<a, b>>.           *)
(***************************************************************************)
EXTENDS DocumentLoader

CONSTANTS
    Kinds,   \* the tasks to look at
    Names,   \* the names of files and directories, without the path
    Corpora, \* what ftw finds: sequences of directories and files
    Content, \* words with a letter that are no stopwords
    Alnum,   \* words that begin with a letter, a digit or an apostrophe
    Rare     \* a word in that many documents or fewer is rare (4 in the code)

\* These two select paragraphs and cut them into words by code of their own
Serial == {"idf", "tf_idf", "rnnlm"}
Ngrams == {"extract", "ngram_idf"}

Entry == [type : {"directory", "file"}, name : Names, doc : Seq(Paragraph)]

ASSUME CorpusAssumption ==
    /\ Kinds \subseteq {"idf", "tf_idf", "simplify"} \cup Ngrams
    /\ Corpora \subseteq Seq(Entry)
    /\ Rare \in Nat

\* "<unk>"
Unknown == "unk"

VARIABLES
    kind,          \* the task
    entries, done, \* what ftw has still to report, and what it has
    pc,            \* "walk", "document" or "end"
    xpath, calls,  \* the expression, and the callbacks still to make
    FILE_COUNTER,  \* files so far
    corpus_size,   \* documents with content so far (idf)
    hash,          \* n-grams, with counter and lastOccurence (extract, ngram_idf)
    DF,            \* words of the document (idf, tf_idf)
    CF,            \* words of the corpus (idf; rnnlm reads it from corpus_frequencies.json)
    counted,       \* the corpus that CF was made from (rnnlm)
    lm,            \* the lines of the .positive and the .negative file (rnnlm)
    documents,     \* the DF of every document (tf_idf)
    WORD_TO_ID, ID_COUNTER,
    simple,        \* the lines of every .simple file in the destination directory (simplify)
    result         \* what is written at the end

tables == <<corpus_size, hash, DF, CF, counted, lm, documents, WORD_TO_ID, ID_COUNTER, simple>>
vars == <<kind, entries, done, pc, xpath, calls, FILE_COUNTER, tables, result>>

\* A loop of record_word over the words of a document: each once, however often it is there
record_words(table, words) ==
    [v \in DOMAIN table \cup DOMAIN words |-> Count(table, v) + IF v \in DOMAIN words THEN 1 ELSE 0]

-----------------------------------------------------------------------------
(* The words of a document. *)

\* Mutant: gen_rnnlm_input leaves numbers as they are
Flags_RawNumbers ==
    CASE kind \in {"tf_idf", "rnnlm"} -> {"stem"}
      [] kind = "idf" -> {"normalize", "stem"}
      [] OTHER -> {"normalize", "stem", "mark"}

\* gen_TF_IDF calls normalize_word without having compiled its expression, so
\* nothing is found to be a number
Flags ==
    CASE kind = "tf_idf" -> {"stem"}
      [] kind \in {"idf", "rnnlm"} -> {"normalize", "stem"}
      [] OTHER -> {"normalize", "stem", "mark"}

\* TOKENIZER_ALPHA_ONLY | TOKENIZER_FILTER_STOPWORDS
OnlyContent(p) ==
    [p EXCEPT !.sentences = [i \in DOMAIN @ |-> Among(@[i], Content)]]

CallsOf(d, x) ==
    IF kind \in Serial
    THEN [k \in DOMAIN Nodes(d, x) |->
             LET p == d[Nodes(d, x)[k]]
             IN  [words |-> WordsOf(IF kind = "tf_idf" THEN OnlyContent(p) ELSE p, Flags),
                  node  |-> Nodes(d, x)[k]]]
    ELSE Calls(d, x, Flags)

IsWord(w) == w \in Alnum /\ w # EndOfSentence

\* Mutant: the check is there for single words only
Meet_CheckWordsOnly(h, g) ==
    [f \in DOMAIN h \cup {g} |->
        IF f # g THEN h[f]
        ELSE [counter |-> IF g \notin DOMAIN h THEN 1
                          ELSE h[g].counter + IF /\ kind = "ngram_idf" /\ Len(g) = 1
                                                 /\ h[g].lastOccurence = FILE_COUNTER THEN 0 ELSE 1,
              lastOccurence |-> FILE_COUNTER]]

\* An n-gram is met once more; compute_ngram_idf counts it if the last time was in
\* another file
Meet(h, g) ==
    [f \in DOMAIN h \cup {g} |->
        IF f # g THEN h[f]
        ELSE [counter |-> IF g \notin DOMAIN h THEN 1
                          ELSE h[g].counter + IF /\ kind = "ngram_idf"
                                                 /\ h[g].lastOccurence = FILE_COUNTER THEN 0 ELSE 1,
              lastOccurence |-> FILE_COUNTER]]

\* before: penultimate_word and last_word, as far as they are not NULL
MeetAll(a, w) ==
    LET upTo == Append(a.before, w)
    IN  [before |-> IF Len(upTo) > 2 THEN Tail(upTo) ELSE upTo,
         hash   |-> FoldLeft(Meet, a.hash,
                        [n \in DOMAIN upTo |-> SubSeq(upTo, Len(upTo) - n + 1, Len(upTo))])]

\* Mutant: what is no word is passed over
NgramStep_NoReset(a, w) == IF IsWord(w) THEN MeetAll(a, w) ELSE a

NgramStep(a, w) == IF IsWord(w) THEN MeetAll(a, w) ELSE [a EXCEPT !.before = <<>>]

\* A word of simplify_documents has a number, or it gets the next one
IdStep(a, w) ==
    IF w \in DOMAIN a.ids THEN [a EXCEPT !.line = Append(@, a.ids[w])]
    ELSE [ids  |-> [v \in DOMAIN a.ids \cup {w} |-> IF v = w THEN a.next ELSE a.ids[v]],
          next |-> a.next + 1,
          line |-> Append(a.line, a.next)]

-----------------------------------------------------------------------------
(* The walk. *)

entry == Head(entries)

Init ==
    /\ kind \in Kinds
    /\ entries \in Corpora
    \* these give any text to the tokenizer, which wants two characters
    /\ kind \in Serial =>
          \A i \in DOMAIN entries : \A k \in DOMAIN entries[i].doc : ~entries[i].doc[k].short
    /\ done = <<>> /\ pc = "walk" /\ xpath = "section" /\ calls = <<>>
    /\ FILE_COUNTER = 0 /\ corpus_size = 0
    /\ hash = Empty /\ DF = Empty /\ CF = Empty /\ documents = <<>>
    /\ counted = <<>> /\ lm = [positive |-> <<>>, negative |-> <<>>]
    /\ WORD_TO_ID = Empty /\ ID_COUNTER = 0 /\ simple = Empty
    /\ result = <<>>

\* The serial tasks leave a file that cannot be parsed or has no paragraph.  (A file that
\* cannot be parsed is one without paragraphs to the others.)
IsEmpty == kind \in Serial /\ ~Found(entry.doc, "relaxed")

Skip ==
    /\ pc = "walk" /\ entries # <<>>
    /\ entry.type = "directory" \/ IsEmpty
    /\ FILE_COUNTER' = FILE_COUNTER + IF entry.type = "file" THEN 1 ELSE 0
    /\ entries' = Tail(entries) /\ done' = Append(done, entry)
    /\ UNCHANGED <<kind, pc, xpath, calls, tables, result>>

\* Mutant: the output file is opened to append
Open_Append ==
    /\ pc = "walk" /\ entries # <<>>
    /\ entry.type = "file" /\ ~IsEmpty
    /\ pc' = "document"
    /\ FILE_COUNTER' = FILE_COUNTER + 1
    /\ xpath' = IF kind \in Serial /\ ~Found(entry.doc, "section") THEN "relaxed" ELSE "section"
    /\ calls' = CallsOf(entry.doc, xpath')
    /\ simple' = IF kind = "simplify"
                 THEN [f \in DOMAIN simple \cup {entry.name} |->
                          IF f \in DOMAIN simple THEN simple[f] ELSE <<>>]
                 ELSE simple
    /\ UNCHANGED <<kind, entries, done, corpus_size, hash, DF, CF, counted, lm, documents,
                   WORD_TO_ID, ID_COUNTER, result>>

\* A document.  simplify_documents names its output by what follows the last slash: a
\* file of the same name in another directory has its output overwritten.
Open ==
    /\ pc = "walk" /\ entries # <<>>
    /\ entry.type = "file" /\ ~IsEmpty
    /\ pc' = "document"
    /\ FILE_COUNTER' = FILE_COUNTER + 1
    /\ xpath' = IF kind \in Serial /\ ~Found(entry.doc, "section") THEN "relaxed" ELSE "section"
    /\ calls' = CallsOf(entry.doc, xpath')
    /\ simple' = IF kind = "simplify"
                 THEN [f \in DOMAIN simple \cup {entry.name} |->
                          IF f = entry.name THEN <<>> ELSE simple[f]]
                 ELSE simple
    /\ UNCHANGED <<kind, entries, done, corpus_size, hash, DF, CF, counted, lm, documents,
                   WORD_TO_ID, ID_COUNTER, result>>

\* ngram_parse2: the words of a paragraph, with none before the first
CountNgrams ==
    /\ pc = "document" /\ calls # <<>> /\ kind \in Ngrams
    /\ hash' = FoldLeft(NgramStep, [before |-> <<>>, hash |-> hash], Head(calls).words).hash
    /\ calls' = Tail(calls)
    /\ UNCHANGED <<kind, entries, done, pc, xpath, FILE_COUNTER, corpus_size, DF, CF, counted, lm, documents,
                   WORD_TO_ID, ID_COUNTER, simple, result>>

CountWords ==
    /\ pc = "document" /\ calls # <<>> /\ kind \in {"idf", "tf_idf"}
    /\ DF' = FoldLeft(record_word, DF, Head(calls).words)
    /\ calls' = Tail(calls)
    /\ UNCHANGED <<kind, entries, done, pc, xpath, FILE_COUNTER, corpus_size, hash, CF, counted, lm, documents,
                   WORD_TO_ID, ID_COUNTER, simple, result>>

\* What a line of a .simple file begins with
LabelIn(d, c) == IF d[c.node].definition THEN 1 ELSE -1

\* process_paragraph of simplify_documents: a line, unless there is no word
WriteLine ==
    /\ pc = "document" /\ calls # <<>> /\ kind = "simplify"
    /\ LET words == Head(calls).words
           a == FoldLeft(IdStep, [ids |-> WORD_TO_ID, next |-> ID_COUNTER, line |-> <<>>], words)
       IN  /\ WORD_TO_ID' = a.ids /\ ID_COUNTER' = a.next
           /\ simple' = IF words = <<>> THEN simple
                        ELSE [simple EXCEPT ![entry.name] =
                                 Append(@, [label |-> LabelIn(entry.doc, Head(calls)),
                                            words |-> a.line])]
    /\ calls' = Tail(calls)
    /\ UNCHANGED <<kind, entries, done, pc, xpath, FILE_COUNTER, corpus_size, hash, DF, CF,
                   counted, lm, documents, result>>

\* gen_rnnlm_input: a line of the words, with those that are rare made unknown, goes to
\* the file of the definitions or to the other; no line without a word
WriteSentences ==
    /\ pc = "document" /\ calls # <<>> /\ kind = "rnnlm"
    /\ LET words == Head(calls).words
           file  == IF entry.doc[Head(calls).node].definition THEN "positive" ELSE "negative"
       IN  lm' = IF words = <<>> THEN lm
                 ELSE [lm EXCEPT ![file] =
                          Append(@, [i \in DOMAIN words |->
                              IF Count(CF, words[i]) > Rare THEN words[i] ELSE Unknown])]
    /\ calls' = Tail(calls)
    /\ UNCHANGED <<kind, entries, done, pc, xpath, FILE_COUNTER, corpus_size, hash, DF, CF, counted,
                   documents, WORD_TO_ID, ID_COUNTER, simple, result>>

\* Mutant: the relaxed expression is tried in any case
Relax_Always ==
    /\ pc = "document" /\ calls = <<>> /\ kind \notin Serial /\ xpath = "section"
    /\ xpath' = "relaxed"
    /\ calls' = CallsOf(entry.doc, "relaxed")
    /\ UNCHANGED <<kind, entries, done, pc, FILE_COUNTER, tables, result>>

\* "if xpath doesn't correspond to any node, try relaxed version"
Relax ==
    /\ pc = "document" /\ calls = <<>> /\ kind \notin Serial /\ xpath = "section"
    /\ ~Found(entry.doc, "section")
    /\ xpath' = "relaxed"
    /\ calls' = CallsOf(entry.doc, "relaxed")
    /\ UNCHANGED <<kind, entries, done, pc, FILE_COUNTER, tables, result>>

\* Mutant: gen_IDF adds up how often a word is in the documents
Close_AddCounts ==
    /\ pc = "document" /\ calls = <<>> /\ (xpath = "section" => Found(entry.doc, "section"))
    /\ pc' = "walk"
    /\ entries' = Tail(entries) /\ done' = Append(done, entry)
    /\ corpus_size' = corpus_size + IF kind = "idf" THEN 1 ELSE 0
    /\ CF' = IF kind = "idf"
             THEN [w \in DOMAIN CF \cup DOMAIN DF |-> Count(CF, w) + Count(DF, w)] ELSE CF
    /\ documents' = IF kind = "tf_idf" THEN Append(documents, DF) ELSE documents
    /\ DF' = Empty
    /\ UNCHANGED <<kind, xpath, calls, FILE_COUNTER, hash, counted, lm, WORD_TO_ID, ID_COUNTER, simple, result>>

\* Mutant: the words of a document are kept for the next
Close_KeepWords ==
    /\ pc = "document" /\ calls = <<>> /\ (xpath = "section" => Found(entry.doc, "section"))
    /\ pc' = "walk"
    /\ entries' = Tail(entries) /\ done' = Append(done, entry)
    /\ corpus_size' = corpus_size + IF kind = "idf" THEN 1 ELSE 0
    /\ CF' = IF kind = "idf" THEN record_words(CF, DF) ELSE CF
    /\ documents' = IF kind = "tf_idf" THEN Append(documents, DF) ELSE documents
    /\ UNCHANGED <<kind, xpath, calls, FILE_COUNTER, hash, DF, counted, lm, WORD_TO_ID, ID_COUNTER, simple, result>>

\* The document has content.  "For IDF we are recording _IF_ a term occurred in a
\* document, NOT how often"
Close ==
    /\ pc = "document" /\ calls = <<>> /\ (xpath = "section" => Found(entry.doc, "section"))
    /\ pc' = "walk"
    /\ entries' = Tail(entries) /\ done' = Append(done, entry)
    /\ corpus_size' = corpus_size + IF kind = "idf" THEN 1 ELSE 0
    /\ CF' = IF kind = "idf" THEN record_words(CF, DF) ELSE CF
    /\ documents' = IF kind = "tf_idf" THEN Append(documents, DF) ELSE documents
    /\ DF' = Empty
    /\ UNCHANGED <<kind, xpath, calls, FILE_COUNTER, hash, counted, lm, WORD_TO_ID, ID_COUNTER, simple, result>>

-----------------------------------------------------------------------------
(* What is written at the end. *)

\* Mutant: no division is one of integers
NgramScore_Fraction(g) == <<FILE_COUNTER, 1 + hash[g].counter>>

\* FILE_COUNTER/(1+counter) for longer n-grams, FILE_COUNTER/(1.0+counter) for words
NgramScore(g) ==
    IF Len(g) = 1 THEN <<FILE_COUNTER, 1 + hash[g].counter>>
    ELSE <<FILE_COUNTER \div (1 + hash[g].counter), 1>>

compute_idf == [w \in DOMAIN CF |-> <<corpus_size, 1 + CF[w]>>]

compute_tf_idf ==
    LET idf == FoldLeft(record_words, Empty, documents)
    IN  [n \in DOMAIN documents |->
            LET d   == documents[n]
                max == Max({d[w] : w \in DOMAIN d} \cup {0})
            IN  [w \in DOMAIN d |->
                    [tf |-> <<max + d[w], 2 * max>>, idf |-> <<Len(documents), 1 + idf[w]>>]]]

Report ==
    /\ pc = "walk" /\ entries = <<>>
    /\ pc' = "end"
    /\ result' = CASE kind = "extract" -> [g \in DOMAIN hash |-> hash[g].counter]
                   [] kind = "ngram_idf" -> [g \in DOMAIN hash |-> NgramScore(g)]
                   [] kind = "idf" -> compute_idf
                   [] kind = "tf_idf" -> compute_tf_idf
                   [] kind = "simplify" -> WORD_TO_ID
                   [] kind = "rnnlm" -> lm
    /\ UNCHANGED <<kind, entries, done, xpath, calls, FILE_COUNTER, tables>>

\* gen_rnnlm_input is started where gen_IDF has left its corpus_frequencies.json: over the
\* same directory, or over one with a file at most
Continue ==
    /\ pc = "end" /\ kind = "idf"
    /\ kind' = "rnnlm" /\ pc' = "walk"
    /\ entries' \in {done} \cup {c \in Corpora : Len(c) <= 1}
    /\ done' = <<>> /\ FILE_COUNTER' = 0 /\ corpus_size' = 0
    /\ counted' = done
    /\ result' = <<>>
    /\ UNCHANGED <<xpath, calls, hash, DF, CF, lm, documents, WORD_TO_ID, ID_COUNTER, simple>>

Next ==
    \/ Skip \/ Open
    \/ CountNgrams \/ CountWords \/ WriteLine \/ WriteSentences
    \/ Relax \/ Close \/ Report \/ Continue

Spec == Init /\ [][Next]_vars

-----------------------------------------------------------------------------
(* What the tables have to hold, by the text of the documents. *)

\* The files that are done
Files == Picked(done, {i \in DOMAIN done : done[i].type = "file"})

\* The paragraphs of a document with their words, or the call with NULL, which has none
Scope(d) == IF Found(d, "section") THEN "section" ELSE "relaxed"
Paragraphs(d) == CallsOf(d, Scope(d))

\* Where an n-gram ends in a paragraph, a document and in all files
Ends(words, g) ==
    {i \in Len(g) .. Len(words) :
        /\ SubSeq(words, i - Len(g) + 1, i) = g
        /\ \A k \in 1 .. Len(g) : IsWord(g[k])}

Occurrences(d, g) ==
    UNION {{k} \X Ends(Paragraphs(d)[k].words, g) : k \in DOMAIN Paragraphs(d)}

Everywhere(g) == UNION {{n} \X Occurrences(Files[n].doc, g) : n \in DOMAIN Files}

DocumentsWith(g) == Cardinality({n \in DOMAIN Files : Occurrences(Files[n].doc, g) # {}})

AllNgrams ==
    {g \in UNION {UNION {{SubSeq(p.words, i, j) : i \in DOMAIN p.words, j \in DOMAIN p.words} :
                            p \in ToSet(Paragraphs(Files[n].doc))} : n \in DOMAIN Files} :
        Len(g) \in 1 .. 3 /\ Everywhere(g) # {}}

\* How often a word is in a document
Times(d, w) ==
    Cardinality(UNION {{k} \X {i \in DOMAIN Paragraphs(d)[k].words : Paragraphs(d)[k].words[i] = w} :
                          k \in DOMAIN Paragraphs(d)})

\* The documents with content, and the number of those a word is in
HaveContent == {i \in DOMAIN done : done[i].type = "file" /\ Found(done[i].doc, "relaxed")}
WithContent == Picked(done, HaveContent)

ContentWith(w) == Cardinality({i \in HaveContent : Times(done[i].doc, w) > 0})

WordsIn(d) == {w \in Words : Times(d, w) > 0}

TypeOK ==
    /\ kind \in Kinds \cup {"rnnlm"} /\ done \o entries \in Corpora
    /\ counted \in Corpora \cup {<<>>}
    /\ pc \in {"walk", "document", "end"} /\ xpath \in {"section", "relaxed"}
    /\ FILE_COUNTER \in Nat /\ corpus_size \in 0 .. FILE_COUNTER
    /\ \A g \in DOMAIN hash :
          /\ Len(g) \in 1 .. 3 /\ ToSet(g) \subseteq Words
          /\ hash[g].lastOccurence \in 1 .. FILE_COUNTER /\ hash[g].counter \in Nat \ {0}
    /\ \A t \in {DF, CF} : DOMAIN t \subseteq Words /\ \A w \in DOMAIN t : t[w] \in Nat \ {0}
    /\ pc # "document" => DF = Empty /\ calls = <<>>
    /\ DOMAIN WORD_TO_ID \subseteq Words /\ ID_COUNTER \in Nat
    /\ Len(documents) <= FILE_COUNTER /\ DOMAIN simple \subseteq Names

\* The parts of an n-gram are in the table and have been counted as often or more often
PartsCounted ==
    \A g \in DOMAIN hash : \A i \in DOMAIN g : \A j \in i .. Len(g) :
        LET part == SubSeq(g, i, j)
        IN  part \in DOMAIN hash /\ hash[part].counter >= hash[g].counter

\* extract_ngrams: the table has exactly the n-grams that lie within a sentence and
\* hold nothing but words, each with the number of its occurrences in the corpus.
\* compute_ngram_idf and gen_IDF: each n-gram, each word, has the number of documents
\* it is in, however often and in however many paragraphs of one.  Also within a
\* document no n-gram is in the table without its parts
CountsRight ==
    /\ PartsCounted
    /\ pc # "document" =>
        /\ kind = "extract" =>
              /\ DOMAIN hash = AllNgrams
              /\ \A g \in DOMAIN hash :
                    hash[g].counter = Cardinality(Everywhere(g))
        /\ kind = "ngram_idf" =>
              /\ DOMAIN hash = AllNgrams
              /\ \A g \in DOMAIN hash : hash[g].counter = DocumentsWith(g)
        /\ kind = "idf" =>
              /\ DOMAIN CF = {w \in Words : ContentWith(w) > 0}
              /\ \A w \in DOMAIN CF : CF[w] = ContentWith(w)

\* gen_IDF and gen_TF_IDF: the scores are those of the documents that have a paragraph
\* (other files do not make a word rarer), whatever the order of the walk, and no
\* score of idf.json is below 0, 1 + log2 of its fraction.  compute_ngram_idf: the
\* logarithm exists, but for n-grams of two or three words that are in every file
ScoresRight ==
    pc = "end" =>
        /\ kind = "ngram_idf" => \A g \in DOMAIN result :
              result[g][1] = 0 <=> Len(g) > 1 /\ DocumentsWith(g) = Len(Files)
        /\ kind = "idf" => \A w \in DOMAIN result :
              /\ result[w] = <<Len(WithContent), 1 + ContentWith(w)>>
              /\ 2 * result[w][1] >= result[w][2]
        /\ kind = "tf_idf" =>
              /\ Len(result) = Len(WithContent)
              /\ \A n \in DOMAIN result :
                    LET d   == WithContent[n].doc
                        max == Max({Times(d, w) : w \in WordsIn(d)} \cup {0})
                    IN  result[n] = [w \in WordsIn(d) |->
                            [tf  |-> <<max + Times(d, w), 2 * max>>,
                             idf |-> <<Len(WithContent), 1 + ContentWith(w)>>]]

\* The words of a document as gen_IDF is to count them and gen_rnnlm_input to look them up
TextOf(d) ==
    LET nodes == Nodes(d, Scope(d))
    IN  [k \in DOMAIN nodes |-> [words      |-> WordsOf(d[nodes[k]], {"normalize", "stem"}),
                                 definition |-> d[nodes[k]].definition]]

CountedWith(w) ==
    Cardinality({i \in DOMAIN counted :
        /\ counted[i].type = "file"
        /\ \E k \in DOMAIN TextOf(counted[i].doc) : w \in ToSet(TextOf(counted[i].doc)[k].words)})

\* The paragraphs that make a line of a file, and the number of the line each makes
Lines(file) ==
    {p \in UNION {{n} \X DOMAIN TextOf(Files[n].doc) : n \in DOMAIN Files} :
        LET t == TextOf(Files[p[1]].doc)[p[2]]
        IN  t.words # <<>> /\ (t.definition <=> file = "positive")}

NotBehind(p, q) == p[1] < q[1] \/ (p[1] = q[1] /\ p[2] <= q[2])
LineOf(p, lines) == Cardinality({q \in lines : NotBehind(q, p)})

\* gen_rnnlm_input after gen_IDF: the two files hold the paragraphs with words, those of
\* definitions in one and the others in the other, in the order of the walk; a word is
\* unknown if and only if it is in no more than Rare documents of the corpus gen_IDF has
\* counted, be it a number, an inflected form or a word that corpus does not have
LanguageModelInput ==
    kind = "rnnlm" /\ pc # "document" =>
        \A file \in {"positive", "negative"} :
            /\ Len(lm[file]) = Cardinality(Lines(file))
            /\ \A p \in Lines(file) :
                  LET words == TextOf(Files[p[1]].doc)[p[2]].words
                  IN  lm[file][LineOf(p, Lines(file))] =
                         [i \in DOMAIN words |->
                             IF CountedWith(words[i]) > Rare THEN words[i] ELSE Unknown]

\* No file of this name comes behind the n-th
LastOfName(n) == \A m \in DOMAIN Files : m > n => Files[m].name # Files[n].name

\* simplify_documents: map.txt has one number for a word and one word for a number.
\* There is a .simple file for every name, and with map.txt it gives back the paragraphs
\* that have words, with what is a definition and what is not, of the last document of
\* that name and of no other
Decodable ==
    pc = "end" /\ kind = "simplify" =>
        /\ IsInjective(result)
        /\ {result[w] : w \in DOMAIN result} = 0 .. ID_COUNTER - 1
        /\ DOMAIN simple = {Files[n].name : n \in DOMAIN Files}
        /\ \A n \in DOMAIN Files : LastOfName(n) =>
              LET text  == Paragraphs(Files[n].doc)
                  lines == Picked(text, {k \in DOMAIN text : text[k].words # <<>>})
              IN  simple[Files[n].name] =
                      [k \in DOMAIN lines |->
                          [label |-> LabelIn(Files[n].doc, lines[k]),
                           words |-> [i \in DOMAIN lines[k].words |-> result[lines[k].words[i]]]]]
=============================================================================
