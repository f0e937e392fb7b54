--------------------------- MODULE DocumentLoader ---------------------------
(***************************************************************************)
(* src/src/llamapun/document_loader.c: with_words_at_xpath gives the words *)
(* of every paragraph an XPath expression selects to a callback.  A        *)
(* document is the sequence of its paragraphs (div.ltx_para): whether it   *)
(* is in a section and in a definition, whether its plain text has less    *)
(* than two characters, and its sentences as sequences of words.           *)
(***************************************************************************)
EXTENDS Integers, Sequences, SequencesExt, FiniteSetsExt

CONSTANTS
    Words,         \* the words of texts, and those they become
    EndOfSentence, \* the word "endofsentence"
    Normalized,    \* normalize_word, as a function on Words
    Morpha         \* morpha_stem, as a function on Words

\* Words after n calls of morpha_stem
Stem[n \in 0 .. Cardinality(Words)] ==
    IF n = 0 THEN [w \in Words |-> w] ELSE [w \in Words |-> Morpha[Stem[n - 1][w]]]

\* The last conjunct: the loop of full_morpha_stem ends
ASSUME LoaderAssumption ==
    /\ IsFiniteSet(Words)
    /\ EndOfSentence \in Words
    /\ Normalized \in [Words -> Words]
    /\ Morpha \in [Words -> Words]
    /\ \A w \in Words : LET s == Stem[Cardinality(Words)][w] IN Morpha[s] = s

\* morpha_stem until it changes nothing ("tilings -> tiling -> tile -> tile")
full_morpha_stem == Stem[Cardinality(Words)]

Paragraph == [section : BOOLEAN, definition : BOOLEAN, short : BOOLEAN, sentences : Seq(Seq(Words))]

\* A set of positions as a sequence, in their order
InOrder(S) ==
    [k \in 1 .. Cardinality(S) |-> CHOOSE i \in S : Cardinality({j \in S : j < i}) = k - 1]

\* The elements of a sequence that are at a set of positions, and those in a set
Picked(s, S) == [k \in DOMAIN InOrder(S) |-> s[InOrder(S)[k]]]

Among(s, T) == Picked(s, {i \in DOMAIN s : s[i] \in T})

\* The positions of the selected paragraphs: paragraph_xpath wants a paragraph
\* within a section, relaxed_paragraph_xpath takes any
Selected(doc, xpath) == {i \in DOMAIN doc : xpath = "section" => doc[i].section}

Nodes(doc, xpath) == InOrder(Selected(doc, xpath))

\* What becomes of a word: WORDS_NORMALIZE_WORDS, WORDS_STEM_WORDS
WordString(w, flags) ==
    LET n == IF "normalize" \in flags THEN Normalized[w] ELSE w
    IN  IF "stem" \in flags THEN full_morpha_stem[n] ELSE n

WordsOf(p, flags) ==
    FlattenSeq([i \in DOMAIN p.sentences |->
        [k \in DOMAIN p.sentences[i] |-> WordString(p.sentences[i][k], flags)]
            \o IF "mark" \in flags THEN <<EndOfSentence>> ELSE <<>>])

\* The calls of function(words, number, node), in order: one for every selected
\* paragraph whose text is long enough, or one with NULL if none is selected
Calls(doc, xpath, flags) ==
    LET long == InOrder({i \in Selected(doc, xpath) : ~doc[i].short})
    IN  IF Selected(doc, xpath) = {} THEN <<[words |-> <<>>, node |-> 0]>>
        ELSE [k \in DOMAIN long |->
                 [words |-> WordsOf(doc[long[k]], flags), node |-> long[k]]]

\* The value with_words_at_xpath returns
Found(doc, xpath) == Selected(doc, xpath) # {}

-----------------------------------------------------------------------------
(* The tables of words that callbacks fill: src/src/llamapun/utils.c. *)

Empty == [x \in {} |-> 0]

\* The count of a word, as a table of words with counts has it
Count(table, w) == IF w \in DOMAIN table THEN table[w] ELSE 0

record_word(table, w) ==
    [v \in DOMAIN table \cup {w} |-> Count(table, v) + IF v = w THEN 1 ELSE 0]
=============================================================================
