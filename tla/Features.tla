------------------------------ MODULE Features ------------------------------
(***************************************************************************)
(* What a process does with its documents to get rows of features:         *)
(*   "tfidf"       src/src/tasks/parallel_libsvm_input.c                   *)
(*   "occurrence"  src/src/tasks/parallel_libsvm_input_occurence.c         *)
(*   "ngrams"      src/src/tasks/parallel_libsvm_ngrams_extended.c         *)
(*   "serial"      src/src/tasks/gen_libsvm_input.c                        *)
(*   "serial2"     src/src/tasks/gen_libsvm_input_2.c                      *)
(* All read the paragraphs of a document twice.  The first pass counts, the *)
(* second writes one row per paragraph with what the first has found and   *)
(* what the process knows of the corpus.  The counts are global variables  *)
(* that outlive a callback, and some a document.                           *)
(*                                                                         *)
(* Numbers: scores are given in halves.  A weight is kept as the integer   *)
(* the sum in bins[] is a multiple of, with its divisor where it decides:  *)
(* 0.5 + 0.5*count/max is (max + count) / (2*max).                         *)
(***************************************************************************)
EXTENDS DocumentLoader

CONSTANTS
    Kinds,       \* the tasks to look at
    Collections, \* the sequences of documents a process gets
    Idf,         \* idf.json: a sequence of words with their scores, in halves
    Content,     \* words with a letter that are no stopwords (the serial tasks)
    Alnum,       \* words that begin with a letter, a digit or an apostrophe
    Grams,       \* unigrams.list, bigrams.list, trigrams.list: sequences of n-grams
    MaxBins      \* the size of bins[]; 20000 in the code

Parallel == {"tfidf", "occurrence", "ngrams"}

ASSUME FeaturesAssumption ==
    /\ Kinds \subseteq Parallel \cup {"serial", "serial2"}
    /\ Collections \subseteq Seq(Seq(Paragraph))
    /\ Idf \in Seq(Words \X Nat)
    /\ IsInjective([i \in DOMAIN Idf |-> Idf[i][1]])
    /\ Grams \in [1 .. 3 -> Seq(Seq(Words))]
    /\ \A n \in 1 .. 3 : IsInjective(Grams[n]) /\ \A i \in DOMAIN Grams[n] : Len(Grams[n][i]) = n
    /\ MaxBins \in Nat

VARIABLES
    kind,                \* the task
    files,               \* documents the process has not read yet
    done,                \* documents it has
    pc,                  \* "idle", "pre", "process"; "crashed" (followed NULL), "undefined"
    xpath,               \* the expression of the current pass
    calls,               \* callbacks the current pass has still to make
    DF, DF_prime,        \* words of the document, in all and so far in the second pass
    doc_max_count,
    number_of_paragraphs, paragraph_number,
    BINS,                \* the n-grams found in the paragraph
    out                  \* the rows of the result file

vars == <<kind, files, done, pc, xpath, calls, DF, DF_prime, doc_max_count,
          number_of_paragraphs, paragraph_number, BINS, out>>

-----------------------------------------------------------------------------
(* What the process knows of the corpus. *)

Entries(w) == {i \in DOMAIN Idf : Idf[i][1] = w}

\* A word without an entry counts as one that is in one document only: 13
Score(w) == IF Entries(w) = {} THEN 26 ELSE Idf[Min(Entries(w))][2]

\* "Filter >4 frequent words": below 11.509115, or 10.5
Common == {i \in DOMAIN Idf : Idf[i][2] <= IF kind = "occurrence" THEN 20 ELSE 23}

HasBin(w) == Entries(w) \cap Common # {}

\* Mutant: the bins are numbered from 0
Bin_FromZero(w) ==
    LET e == Min(Entries(w))
    IN  Cardinality({i \in Common : \/ Idf[i][2] < Idf[e][2]
                                    \/ Idf[i][2] = Idf[e][2] /\ i < e})

\* frequencies_hash_to_bins: the common words sorted by their score, which keeps the
\* order of equal ones, numbered from 1
Bin(w) ==
    LET e == Min(Entries(w))
    IN  Cardinality({i \in Common : \/ Idf[i][2] < Idf[e][2]
                                    \/ Idf[i][2] = Idf[e][2] /\ i <= e})

\* load_ngrams numbers the n-grams of a list from 0
HasGram(g) == \E i \in DOMAIN Grams[Len(g)] : Grams[Len(g)][i] = g

\* Where an n-gram is in BINS: the longer ones come behind the shorter
GramBin(g) ==
    (CHOOSE i \in DOMAIN Grams[Len(g)] : Grams[Len(g)][i] = g) - 1
        + (IF Len(g) > 1 THEN Len(Grams[1]) ELSE 0)
        + (IF Len(g) > 2 THEN Len(Grams[2]) ELSE 0)

-----------------------------------------------------------------------------
(* The two passes over a document. *)

\* How the words of a pass are prepared.  gen_libsvm_input calls normalize_word
\* without having compiled its expression, so nothing is found to be a number.
Flags(pass) ==
    CASE kind \in {"tfidf", "occurrence"} -> {"normalize", "stem"}
      [] kind = "ngrams" -> IF pass = "pre" THEN {} ELSE {"normalize", "stem", "mark"}
      [] kind = "serial" -> {"stem"}
      [] kind = "serial2" -> IF pass = "pre" THEN {"normalize", "stem"} ELSE {"stem"}

\* tokenize_words with TOKENIZER_ALPHA_ONLY | TOKENIZER_FILTER_STOPWORDS
tokenize_words(sentence) == Among(sentence, Content)

OnlyContent(p) ==
    [p EXCEPT !.sentences = [i \in DOMAIN @ |-> tokenize_words(@[i])]]

\* The paragraphs a pass takes, with their words; the serial tasks do without
\* with_words_at_xpath
CallsOf(d, x, pass) ==
    IF kind \in Parallel THEN Calls(d, x, Flags(pass))
    ELSE [k \in DOMAIN Nodes(d, x) |->
             [words |-> WordsOf(OnlyContent(d[Nodes(d, x)[k]]), Flags(pass)),
              node  |-> Nodes(d, x)[k]]]

doc == Head(files)

Init ==
    /\ kind \in Kinds
    /\ files \in Collections
    \* the serial tasks give any text to the tokenizer, which wants two characters
    /\ kind \notin Parallel => \A i \in DOMAIN files : \A k \in DOMAIN files[i] : ~files[i][k].short
    /\ done = <<>> /\ pc = "idle" /\ xpath = "section" /\ calls = <<>>
    /\ DF = Empty /\ DF_prime = Empty /\ doc_max_count = 0
    /\ number_of_paragraphs = 0 /\ paragraph_number = 0
    /\ BINS = {} /\ out = <<>>

\* Mutant: the number of the paragraph goes on from the last document
Load_KeepNumber ==
    /\ pc = "idle" /\ files # <<>>
    /\ pc' = "pre" /\ xpath' = "section"
    /\ calls' = CallsOf(doc, "section", "pre")
    /\ number_of_paragraphs' = 0
    /\ UNCHANGED <<kind, files, done, DF, DF_prime, doc_max_count, paragraph_number, BINS, out>>

\* A document was read; prepare_preprocessing, and the first pass begins
Load ==
    /\ pc = "idle" /\ files # <<>>
    /\ pc' = "pre" /\ xpath' = "section"
    /\ calls' = CallsOf(doc, "section", "pre")
    /\ number_of_paragraphs' = 0 /\ paragraph_number' = 0
    /\ UNCHANGED <<kind, files, done, DF, DF_prime, doc_max_count, BINS, out>>

\* pre_process_paragraph
PreProcess ==
    /\ pc = "pre" /\ calls # <<>>
    /\ calls' = Tail(calls)
    /\ IF kind = "ngrams"
       THEN number_of_paragraphs' = number_of_paragraphs + 1 /\ UNCHANGED DF
       ELSE /\ DF' = FoldLeft(record_word, DF, Head(calls).words)
            /\ UNCHANGED number_of_paragraphs
    /\ UNCHANGED <<kind, files, done, pc, xpath, DF_prime, doc_max_count, paragraph_number, BINS, out>>

\* No paragraph is in a section: the first pass once more, with all paragraphs
Relax ==
    /\ pc = "pre" /\ calls = <<>> /\ xpath = "section" /\ ~Found(doc, xpath)
    /\ xpath' = "relaxed"
    /\ calls' = CallsOf(doc, "relaxed", "pre")
    /\ UNCHANGED <<kind, files, done, pc, DF, DF_prime, doc_max_count, number_of_paragraphs,
                   paragraph_number, BINS, out>>

\* Mutant: the second pass is the one that is relaxed
InBetween_OtherParagraphs ==
    /\ pc = "pre" /\ calls = <<>> /\ (xpath = "section" => Found(doc, xpath))
    /\ pc' = "process"
    /\ calls' = CallsOf(doc, "relaxed", "process")
    /\ doc_max_count' = Max({DF[w] : w \in DOMAIN DF} \cup {0})
    /\ UNCHANGED <<kind, files, done, xpath, DF, DF_prime, number_of_paragraphs,
                   paragraph_number, BINS, out>>

\* in_between_processing, and the second pass begins
InBetween ==
    /\ pc = "pre" /\ calls = <<>> /\ (xpath = "section" => Found(doc, xpath))
    /\ pc' = "process"
    /\ calls' = CallsOf(doc, xpath, "process")
    /\ doc_max_count' = Max({DF[w] : w \in DOMAIN DF} \cup {0})
    /\ UNCHANGED <<kind, files, done, xpath, DF, DF_prime, number_of_paragraphs,
                   paragraph_number, BINS, out>>

-----------------------------------------------------------------------------
(* Rows. *)

\* The features of a hash of bins, in the order of the bins
Sorted(bins) ==
    LET at == InOrder(DOMAIN bins) IN [k \in DOMAIN at |-> <<at[k], bins[at[k]]>>]

Label(i) == IF doc[i].definition THEN 1 ELSE -1

\* bins[bin] += weight, in a hash of the bins that are not 0
AddTo(bins, bin, weight) ==
    [b \in DOMAIN bins \cup {bin} |-> Count(bins, b) + IF b = bin THEN weight ELSE 0]

\* TF times IDF of a word, as a multiple of 1/(4*doc_max_count)
TfIdf(w) == (doc_max_count + DF[w]) * Score(w)

AddTfIdf(bins, w) == IF HasBin(w) THEN AddTo(bins, Bin(w), TfIdf(w)) ELSE bins

TfIdfBins(words) == FoldLeft(AddTfIdf, Empty, words)

\* What the values of a row are divided by: the number of words, or the root of 1 and
\* the sum of the squares
Norm(words) ==
    IF kind = "serial2"
    THEN FoldLeft(LAMBDA n, w : n + IF HasBin(w) THEN TfIdf(w) * TfIdf(w) ELSE 0,
                  16 * doc_max_count * doc_max_count, words)
    ELSE Len(words)

SumOfSquares(f) == MapThenSumSet(LAMBDA x : f[x] * f[x], DOMAIN f)

\* The square of tfc_doc_normalization_divisor
Divisor2 == SumOfSquares([w \in DOMAIN DF |-> DF[w] * Score(w)])

\* Mutant: every bin with an entry is printed
Above_Any(weight) == TRUE

\* A bin is printed if it is more than 0.0005 (bins[] is the weight over the divisor;
\* with no divisor it is not a number) or 0.001: it is not if the words of the bin are
\* in every document (their score is 0), or light in a long document
Above(weight) ==
    IF kind = "occurrence" THEN weight * weight > Divisor2 \div 4000000
    ELSE 250 * weight > doc_max_count

Written(bins) == Sorted(Restrict(bins, {b \in DOMAIN bins : Above(bins[b])}))

TfIdfRow(c) ==
    [label |-> Label(c.node), head |-> <<>>, over |-> <<doc_max_count, Norm(c.words)>>,
     features |-> Written(TfIdfBins(c.words))]

\* The thresholds a weight or a score has passed: 7.5 and 4 for the score, 0.12 and
\* 0.4 for the weight in the bin over the divisor
Passed(score, weight, divisor2) ==
    (IF score > 15 THEN {1} ELSE {}) \cup (IF score > 8 THEN {2} ELSE {})
        \cup (IF 10000 * weight * weight > 144 * divisor2 THEN {3} ELSE {})
        \cup (IF 100 * weight * weight > 16 * divisor2 THEN {4} ELSE {})

\* Mutant: a word counts as met only after it was looked at
Occur_LateRecord(a, w) ==
    LET prime == record_word(a.prime, w)
        bins  == AddTo(a.bins, Bin(w), DF[w] * Score(w))
        met   == Count(a.prime, w)
    IN  IF ~HasBin(w) THEN [a EXCEPT !.prime = prime]
        ELSE [prime |-> prime, bins |-> bins,
              counters |-> [k \in DOMAIN a.counters |->
                  a.counters[k] + IF k[1] = met /\ k[2] \in Passed(Score(w), bins[Bin(w)], Divisor2)
                                  THEN 1 ELSE 0]]

\* A word of the paragraph in parallel_libsvm_input_occurence: its first three
\* occurrences in the document are counted apart
Occur(a, w) ==
    LET prime == record_word(a.prime, w)
        bins  == AddTo(a.bins, Bin(w), DF[w] * Score(w))
    IN  IF ~HasBin(w) THEN [a EXCEPT !.prime = prime]
        ELSE [prime |-> prime, bins |-> bins,
              counters |-> [k \in DOMAIN a.counters |->
                  a.counters[k] + IF /\ k[1] = prime[w]
                                     /\ k[2] \in Passed(Score(w), bins[Bin(w)], Divisor2)
                                  THEN 1 ELSE 0]]

Occurrences(words) ==
    FoldLeft(Occur, [prime |-> DF_prime, bins |-> Empty,
                     counters |-> [k \in (1 .. 3) \X (1 .. 4) |-> 0]], words)

\* Twelve counters, the number of words, the bins from 14 on
OccurrenceRow(c) ==
    LET o == Occurrences(c.words)
    IN  [label |-> Label(c.node), over |-> <<Divisor2>>,
         head |-> [i \in 1 .. 12 |->
                      <<i - 1, o.counters[<<((i - 1) \div 4) + 1, ((i - 1) % 4) + 1>>]>>]
                     \o <<<<13, Len(c.words)>>>>,
         features |-> [k \in DOMAIN Written(o.bins) |->
                          <<13 + Written(o.bins)[k][1], Written(o.bins)[k][2]>>]]

\* Mutant: a trigram is looked for although its first bigram is not in the list
GramStep_AnyTrigram(a, at) ==
    LET words == at.words
        i   == at.i
        uni == <<words[i]>>
        bi  == SubSeq(words, i - 1, i)
        tri == SubSeq(words, i - 2, i)
        found(g) == IF HasGram(g) THEN {GramBin(g)} ELSE {}
    IN  IF words[i] \notin Alnum \/ words[i] = EndOfSentence \/ ~HasGram(uni)
        THEN [a EXCEPT !.len = 0]
        ELSE [len |-> a.len + 1,
              bins |-> a.bins \cup found(uni) \cup (IF a.len >= 1 THEN found(bi) ELSE {})
                              \cup (IF a.len >= 2 THEN found(tri) ELSE {})]

\* The i-th word in parallel_libsvm_ngrams_extended.  len is max_ngram_length: how
\* long an n-gram that ends with the word before may be.
GramStep(a, at) ==
    LET words == at.words
        i   == at.i
        uni == <<words[i]>>
        bi  == SubSeq(words, i - 1, i)
        tri == SubSeq(words, i - 2, i)
        u   == a.bins \cup {GramBin(uni)}
        b   == u \cup {GramBin(bi)}
    IN  IF words[i] \notin Alnum \/ words[i] = EndOfSentence \/ ~HasGram(uni)
        THEN [a EXCEPT !.len = 0]
        ELSE IF a.len = 0 THEN [len |-> 1, bins |-> u]
        ELSE IF ~HasGram(bi) THEN [len |-> 1, bins |-> u]
        ELSE IF a.len >= 2 /\ HasGram(tri)
             THEN [len |-> a.len + 1, bins |-> b \cup {GramBin(tri)}]
             ELSE [len |-> a.len + 1, bins |-> b]

GramsFound(words) ==
    FoldLeft(GramStep, [len |-> 0, bins |-> BINS],
             [i \in DOMAIN words |-> [words |-> words, i |-> i]]).bins

GramRow(c, found) ==
    [label |-> Label(c.node), over |-> <<>>,
     head |-> <<<<0, Len(c.words)>>, <<1, number_of_paragraphs>>, <<2, paragraph_number + 1>>>>,
     features |-> Sorted([b \in {i + 3 : i \in found} |-> 1])]

\* Words whose entry in DF is followed without a look
Looked(words) ==
    CASE kind = "ngrams" -> {}
      [] kind = "occurrence" -> ToSet(words)
      [] OTHER -> {w \in ToSet(words) : HasBin(w)}

\* The words of a call whose entry is not there, and those whose bin is behind the
\* array: the number of bins is that of the common words, at which nobody looks
Missing(words) == {i \in DOMAIN words : words[i] \in Looked(words) \ DOMAIN DF}
Beyond(words) ==
    {i \in DOMAIN words : kind # "ngrams" /\ HasBin(words[i]) /\ Bin(words[i]) >= MaxBins}

\* process_paragraph: a row is written if a word has a bin
Process ==
    /\ pc = "process" /\ calls # <<>>
    /\ UNCHANGED <<kind, files, done, xpath, DF, doc_max_count, number_of_paragraphs>>
    /\ LET c == Head(calls)
           known == \E w \in ToSet(c.words) : HasBin(w)
           grams == GramsFound(c.words)
           bad   == Missing(c.words) \cup Beyond(c.words)
       IN  IF bad # {}
           THEN /\ pc' = IF Min(bad) \in Missing(c.words) THEN "crashed" ELSE "undefined"
                /\ UNCHANGED <<calls, DF_prime, paragraph_number, BINS, out>>
           ELSE /\ calls' = Tail(calls) /\ UNCHANGED pc
                /\ DF_prime' = IF kind = "occurrence" THEN Occurrences(c.words).prime ELSE DF_prime
                /\ IF kind = "ngrams"
                   THEN /\ BINS' = {}
                        /\ IF grams = {} THEN UNCHANGED <<paragraph_number, out>>
                           ELSE /\ paragraph_number' = paragraph_number + 1
                                /\ out' = Append(out, GramRow(c, grams))
                   ELSE /\ UNCHANGED <<paragraph_number, BINS>>
                        /\ out' = IF ~known THEN out
                                  ELSE Append(out, IF kind = "occurrence" THEN OccurrenceRow(c)
                                                   ELSE TfIdfRow(c))

\* Mutant: the words of the second pass are kept
Finish_KeepPrime ==
    /\ pc = "process" /\ calls = <<>>
    /\ pc' \in IF kind = "serial2" THEN {"idle", "aborted"} ELSE {"idle"}
    /\ files' = Tail(files) /\ done' = Append(done, doc)
    /\ DF' = Empty /\ UNCHANGED DF_prime
    /\ UNCHANGED <<kind, xpath, calls, doc_max_count, number_of_paragraphs, paragraph_number,
                   BINS, out>>

\* clean_after_processing; the document is freed.  gen_libsvm_input_2 has its document
\* freed once more by read_doc_and_call_function, which the process may not survive.
Finish ==
    /\ pc = "process" /\ calls = <<>>
    /\ pc' \in IF kind = "serial2" THEN {"idle", "aborted"} ELSE {"idle"}
    /\ files' = Tail(files) /\ done' = Append(done, doc)
    /\ DF' = Empty /\ DF_prime' = Empty
    /\ UNCHANGED <<kind, xpath, calls, doc_max_count, number_of_paragraphs, paragraph_number,
                   BINS, out>>

Next == Load \/ PreProcess \/ Relax \/ InBetween \/ Process \/ Finish

Spec == Init /\ [][Next]_vars

-----------------------------------------------------------------------------
(* Properties.  What a row should be, by the text of its document. *)

\* The callbacks of the second pass; that with NULL has no paragraph
Scope(d) == IF Found(d, "section") THEN "section" ELSE "relaxed"
Paragraphs(d) == IF Found(d, Scope(d)) THEN CallsOf(d, Scope(d), "process") ELSE <<>>

Times(words, w) == Cardinality({i \in DOMAIN words : words[i] = w})

\* The places of a word in a document: the paragraph, and where it is there
PlacesOf(d, w) ==
    LET ps == Paragraphs(d)
    IN  UNION {{k} \X {i \in DOMAIN ps[k].words : ps[k].words[i] = w} : k \in DOMAIN ps}

AllWords(d) == LET ps == Paragraphs(d) IN UNION {ToSet(ps[k].words) : k \in DOMAIN ps}

MaxTimes(d) == Max({Cardinality(PlacesOf(d, w)) : w \in AllWords(d)} \cup {0})

Binned(words) == {w \in ToSet(words) : HasBin(w)}

LabelIn(d, c) == IF d[c.node].definition THEN 1 ELSE -1

TfIdfIn(d, words, w) ==
    Times(words, w) * (MaxTimes(d) + Cardinality(PlacesOf(d, w))) * Score(w)

IsTfIdfRow(row, d, c) ==
    /\ row.over[1] = MaxTimes(d)
    /\ kind # "serial2" => row.over[2] = Len(c.words)
    /\ ToSet(row.features) =
          {<<Bin(w), TfIdfIn(d, c.words, w)>> :
              w \in {v \in Binned(c.words) : 250 * TfIdfIn(d, c.words, v) > MaxTimes(d)}}

\* How often word i of paragraph k has been met by then, in the document and here
InDocument(d, k, i) ==
    Cardinality({p \in PlacesOf(d, Paragraphs(d)[k].words[i]) : p[1] < k \/ (p[1] = k /\ p[2] <= i)})
InParagraph(words, i) == Times(SubSeq(words, 1, i), words[i])

\* TF times IDF of a word, and the square of the divisor of a document
Weight(d, w) == Cardinality(PlacesOf(d, w)) * Score(w)
SquaresIn(d) == SumOfSquares([w \in AllWords(d) |-> Weight(d, w)])

TfcIn(d, words, w) == Times(words, w) * Weight(d, w)

\* The words of a paragraph whose feature is above 0.0005
Weighty(d, words) ==
    {w \in Binned(words) : TfcIn(d, words, w) * TfcIn(d, words, w) > SquaresIn(d) \div 4000000}

\* The words of a paragraph that are met for the n-th time and pass the t-th threshold
Passing(d, k, n, t) ==
    LET words == Paragraphs(d)[k].words
    IN  {i \in DOMAIN words :
            /\ HasBin(words[i]) /\ InDocument(d, k, i) = n
            /\ t \in Passed(Score(words[i]), InParagraph(words, i) * Weight(d, words[i]), SquaresIn(d))}

IsOccurrenceRow(row, d, k) ==
    LET words == Paragraphs(d)[k].words
    IN  /\ row.over = <<SquaresIn(d)>>
        /\ row.head[13] = <<13, Len(words)>>
        /\ \A n \in 1 .. 3, t \in 1 .. 4 :
              row.head[4 * (n - 1) + t] = <<4 * (n - 1) + t - 1, Cardinality(Passing(d, k, n, t))>>
        /\ ToSet(row.features) =
              {<<13 + Bin(w), TfcIn(d, words, w)>> : w \in Weighty(d, words)}

\* Where the n-grams of a paragraph end whose parts are in the lists as well
Ends(words, n) ==
    LET isWord(i) == words[i] \in Alnum /\ words[i] # EndOfSentence
    IN  {i \in n .. Len(words) :
            /\ \A k \in i - n + 1 .. i : isWord(k)
            /\ \A from, to \in i - n + 1 .. i : from <= to => HasGram(SubSeq(words, from, to))}

\* What a row gives as the number of paragraphs: those that are long enough to have a
\* callback, and one more if the callback was made with NULL because none is in a section
Told(d) == Len(Paragraphs(d)) + IF Found(d, "section") THEN 0 ELSE 1

IsGramRow(row, d, r, words) ==
    /\ row.head[1] = <<0, Len(words)>>
    /\ row.head[2] = <<1, Told(d)>>
    /\ row.head[3] = <<2, r>>
    /\ {row.features[k][1] : k \in DOMAIN row.features} =
          UNION {{3 + GramBin(SubSeq(words, i - n + 1, i)) : i \in Ends(words, n)} : n \in 1 .. 3}

HasRow(c) == IF kind = "ngrams" THEN Ends(c.words, 1) # {} ELSE Binned(c.words) # {}

\* The paragraphs of a document that have a row
WithRow(d) == InOrder({k \in DOMAIN Paragraphs(d) : HasRow(Paragraphs(d)[k])})

\* How many rows the documents before the n-th of done have
RowsBefore(n) == Cardinality(UNION {{m} \X DOMAIN WithRow(done[m]) : m \in 1 .. n - 1})

TypeOK ==
    /\ kind \in Kinds
    /\ done \o files \in Collections
    /\ pc \in {"idle", "pre", "process", "crashed", "undefined", "aborted"}
    /\ xpath \in {"section", "relaxed"}
    /\ \A k \in DOMAIN calls : ToSet(calls[k].words) \subseteq Words
    /\ DOMAIN DF \subseteq Words /\ DOMAIN DF_prime \subseteq DOMAIN DF
    /\ \A w \in DOMAIN DF_prime : DF_prime[w] \in 1 .. DF[w]
    /\ pc \in {"idle", "aborted"} => DF = Empty /\ DF_prime = Empty
    /\ pc = "process" => doc_max_count = Max({DF[w] : w \in DOMAIN DF} \cup {0})
    /\ {paragraph_number, number_of_paragraphs} \subseteq Nat
    /\ BINS \subseteq Nat

\* Every word the second pass follows into DF was counted by the first: the two
\* agree on the paragraphs and on the form of the words
EveryWordCounted == pc # "crashed"

\* The numbers of a row, as LIBSVM wants them
Ascending(row) ==
    LET all == row.head \o row.features
    IN  \A a, b \in DOMAIN all : a < b => all[a][1] < all[b][1]

\* The r-th row of a document, which is about its k-th paragraph
IsRow(row, d, r, k) ==
    LET c == Paragraphs(d)[k]
    IN  /\ row.label = LabelIn(d, c) /\ Ascending(row)
        /\ kind = "occurrence" => IsOccurrenceRow(row, d, k)
        /\ kind = "ngrams" => IsGramRow(row, d, r, c.words)
        /\ kind \notin {"occurrence", "ngrams"} => IsTfIdfRow(row, d, c)

\* The rows of a document depend on nothing but the document and what is known of
\* the corpus: no count of an earlier document or paragraph leaks into them, and a
\* document of which no paragraph is in a section is taken whole in both passes.
\* Every word with a bin has its feature, but for those that weigh too little.
\* Rows of n-grams are numbered from one on in every document, and the number of its
\* paragraphs is one too high if none is in a section.  The numbers of the features
\* ascend: no two words or n-grams share one and none is that of a feature of another sort
RowsRight ==
    pc = "idle" =>
        /\ Len(out) = RowsBefore(Len(done) + 1)
        /\ \A n \in DOMAIN done : \A r \in DOMAIN WithRow(done[n]) :
              IsRow(out[RowsBefore(n) + r], done[n], r, WithRow(done[n])[r])
=============================================================================
