----------------------------- MODULE Tokenizer -----------------------------
(***************************************************************************)
(* src/src/llamapun/tokenizer.c, tokenize_sentences: one pass over the     *)
(* text of a document that cuts it into sentences.  Every iteration of the *)
(* loop is an action, chosen by the character under the cursor.  The       *)
(* characters are those the scanner tells apart; the word MathFormula,     *)
(* which replaces every formula, is the single character "M".              *)
(***************************************************************************)
EXTENDS Integers, Sequences, FiniteSetsExt

CONSTANTS
    Texts,          \* the texts to cut
    Stopwords,      \* the words of the stopword table, in every case
    Abbreviations,  \* the words abbreviation_pattern matches
    InitialRanges,  \* the ranges allocated at first; 512 in the code
    WordLimit       \* the letters next_word has room for; 20 in the code

Lower == {"a", "i", "x"}
Upper == {"A", "I", "X", "M"}
Space == {" ", "\n"}
Alpha == Lower \cup Upper
Alnum == Alpha \cup {"0"}
Marks == {".", "?", "!", "\"", "(", ")", "[", "]", "{", "}"}
Chars == Alnum \cup Space \cup Marks
NUL   == "NUL"   \* what ends the text

Window == 8        \* how far an abbreviation is looked for

\* A text has two characters at least, which callers have to see to: the cursor
\* starts at the third.  The longest abbreviation has six characters
\* (max_abbreviation_length), the window one more on either side.
ASSUME TokenizerAssumption ==
    /\ \A t \in Texts : t \in Seq(Chars) /\ Len(t) >= 2
    /\ \A word \in Abbreviations : word \in Seq(Chars) /\ Len(word) <= Window - 2
    /\ InitialRanges \in Nat /\ InitialRanges >= 2
    /\ WordLimit \in Nat \ {0}

VARIABLES
    text,        \* the text, never changed
    copy,        \* the cursor, as an index into text
    start, stop, \* start_sentence, end_sentence
    content,     \* has_content
    ranges,      \* sentence_ranges, as far as it is filled
    allocated,   \* allocated_ranges
    pc           \* "scan", then "trim", then "done"

vars == <<text, copy, start, stop, content, ranges, allocated, pc>>

Size == Len(text)

\* text[i] of the code, whose indices start at 0
At(i) == IF i < Size THEN text[i + 1] ELSE NUL

Init ==
    /\ text \in Texts
    /\ copy = 2 /\ start = 0 /\ stop = 2
    /\ content = FALSE
    /\ ranges = <<>>
    /\ allocated = InitialRanges
    /\ pc = "scan"

-----------------------------------------------------------------------------
(* What the branches look at. *)

\* Only white space from i up to j, where there is something else
NextLetter(i, j) ==
    /\ j \in i .. Size
    /\ At(j) \notin Space
    /\ \A k \in i .. j - 1 : At(k) \in Space

\* The table has 681 rows of which 657 are filled: the others put the empty word
\* among the stopwords
IsStopword(word) == word \in Stopwords \cup {<<>>}

\* The letters from j on are a stopword, as far as next_word holds them.  (A word
\* that fills next_word has its NUL written behind it; that this hits nothing which
\* is read again is assumed, the word that is looked up is the same.)
StopwordAt(j) ==
    \E k \in j .. Size :
        /\ \A i \in j .. k - 1 : At(i) \in Alpha
        /\ k - j <= WordLimit
        /\ At(k) \notin Alpha \/ k - j = WordLimit
        /\ IsStopword(SubSeq(text, j + 1, k))

\* The end of the current sentence is an abbreviation that something other than
\* a letter or digit of the same sentence precedes.  $ of a regular expression
\* stands before a last line break, too.
AbbreviationBefore ==
    LET first == IF stop - start >= Window THEN stop - Window ELSE start
    IN  \E k \in first .. stop - 1, word \in Abbreviations,
           gap \in {<<>>, <<" ">>, <<"\n">>, <<" ", "\n">>, <<"\n", "\n">>} :
           /\ At(k) \notin Alnum
           /\ SubSeq(text, k + 2, stop) = word \o gap

\* A letter on its own, as in initials
SingleLetterBefore ==
    /\ At(copy - 1) \in Alpha \ {"I", "M"}
    /\ At(copy - 2) \notin Alnum

\* Mutant: the stopword that follows does not overrule the abbreviation
DotContinues_AnyAbbreviation ==
    \E j \in copy + 1 .. Size :
        /\ NextLetter(copy + 1, j)
        /\ \/ At(j) \notin Upper \cup {NUL}
           \/ AbbreviationBefore
           \/ ~StopwordAt(j) /\ SingleLetterBefore

\* The period under the cursor does not end its sentence
DotContinues ==
    \E j \in copy + 1 .. Size :
        /\ NextLetter(copy + 1, j)
        /\ \/ At(j) \notin Upper \cup {NUL}
           \/ ~StopwordAt(j) /\ (AbbreviationBefore \/ SingleLetterBefore)

Enclosed ==
    <<At(copy - 1), At(copy + 1)>> \in
        {<<"\"", "\"">>, <<"[", "]">>, <<"(", ")">>, <<"{", "}">>}

\* math_formula_pattern matches from the cursor up to e: a formula and all that
\* is white after it up to the last line break
FormulaUntil(e) ==
    \E m \in copy .. Size, q \in copy .. Size :
        /\ NextLetter(copy, m) /\ At(m) = "M"
        /\ NextLetter(m + 1, q)
        /\ e \in m + 2 .. q
        /\ At(e - 1) = "\n" /\ \A k \in e .. q - 1 : At(k) # "\n"

FormulaNext == \E e \in copy .. Size : FormulaUntil(e)

-----------------------------------------------------------------------------
(* What the branches do. *)

\* Mutant: the array is only grown when it is more than full
Grow_TooLate ==
    allocated' = IF Len(ranges) > allocated THEN 2 * allocated ELSE allocated

\* At the head of the loop
Grow ==
    allocated' = IF Len(ranges) > allocated - 2 THEN 2 * allocated ELSE allocated

Scan == pc = "scan" /\ copy < Size /\ Grow /\ UNCHANGED <<text, pc>>

Save(from, to) == Append(ranges, [start |-> from, end |-> to])

Advance ==
    /\ copy' = copy + 1
    /\ stop' = stop + 1
    /\ UNCHANGED <<start, content, ranges>>

\* Mutant: the mark that ends a sentence also begins the next one
Break_SharedMark(n) ==
    /\ ranges' = IF content /\ stop + n > start THEN Save(start, stop + n) ELSE ranges
    /\ copy' = copy + n + 1
    /\ stop' = stop + n + 1
    /\ start' = stop + n
    /\ content' = FALSE

\* Mutant: has_content is not reset
Break_KeepContent(n) ==
    /\ ranges' = IF content /\ stop + n > start THEN Save(start, stop + n) ELSE ranges
    /\ copy' = copy + n + 1
    /\ stop' = stop + n + 1
    /\ start' = stop + n + 1
    /\ UNCHANGED content

\* Mutant: the sentence is lost when it is short
Break_DropShort(n) ==
    /\ ranges' = IF content /\ stop + n > start + 1 THEN Save(start, stop + n) ELSE ranges
    /\ copy' = copy + n + 1
    /\ stop' = stop + n + 1
    /\ start' = stop + n + 1
    /\ content' = FALSE

\* The sentence ends n characters behind the cursor
Break(n) ==
    /\ ranges' = IF content /\ stop + n > start THEN Save(start, stop + n) ELSE ranges
    /\ copy' = copy + n + 1
    /\ stop' = stop + n + 1
    /\ start' = stop + n + 1
    /\ content' = FALSE

\* Mutant: the end of the sentence does not follow the cursor
PeriodInSentence_CursorOnly ==
    /\ Scan /\ At(copy) = "." /\ DotContinues
    /\ copy' = copy + 1
    /\ UNCHANGED <<start, stop, content, ranges>>

PeriodInSentence == Scan /\ At(copy) = "." /\ DotContinues /\ Advance

EnclosedMark ==
    /\ Scan /\ At(copy) \in {".", "?", "!"}
    /\ At(copy) = "." => ~DotContinues
    /\ Enclosed
    /\ Advance

EndMark ==
    /\ Scan /\ At(copy) \in {".", "?", "!"}
    /\ At(copy) = "." => ~DotContinues
    /\ ~Enclosed
    /\ Break(0)

DoubleBreak == At(copy) = "\n" /\ At(copy - 1) = "\n"

\* A formula between the paragraphs holds them together, unless it stands alone
\* or a capital letter follows
SkipFormula ==
    /\ Scan /\ DoubleBreak
    /\ \E e \in copy .. Size :
        /\ FormulaUntil(e)
        /\ copy' = e
        /\ stop' = stop + (e - copy)
        /\ IF ~content \/ At(e) \in Upper
           THEN /\ ranges' = IF content /\ stop' > start
                             THEN Save(start, stop' - 1) ELSE ranges
                /\ start' = stop'
                /\ content' = FALSE
           ELSE UNCHANGED <<start, content, ranges>>

\* Mutant: any word will do
StopwordNext_AnyWord(letters) ==
    \E j \in copy + 1 .. Size : NextLetter(copy + 1, j) /\ At(j) \in letters

\* The next word is a stopword and begins with one of these letters
StopwordNext(letters) ==
    \E j \in copy + 1 .. Size :
        NextLetter(copy + 1, j) /\ At(j) \in letters /\ StopwordAt(j)

\* Mutant: the first character of the next paragraph is taken for white space
ParagraphBreak_OneTooFar ==
    /\ Scan /\ DoubleBreak /\ ~FormulaNext
    /\ ~StopwordNext(Lower)
    /\ \E j \in copy + 1 .. Size : NextLetter(copy + 1, j) /\ Break(j - copy)

\* The white space before the next letter is the end of the paragraph
ParagraphBreak ==
    /\ Scan /\ DoubleBreak /\ ~FormulaNext
    /\ ~StopwordNext(Lower)
    /\ \E j \in copy + 1 .. Size : NextLetter(copy + 1, j) /\ Break(j - copy - 1)

ParagraphGoesOn ==
    /\ Scan /\ DoubleBreak /\ ~FormulaNext
    /\ StopwordNext(Lower)
    /\ Advance

LineBreak ==
    /\ Scan /\ At(copy) = "\n" /\ At(copy - 1) # "\n"
    /\ IF StopwordNext(Upper) THEN Break(0) ELSE Advance

\* Mutant: the cursor stays at an opening parenthesis
Character_NoStep ==
    /\ Scan /\ At(copy) \notin {".", "?", "!", "\n"}
    /\ content' = (content \/ At(copy) \in Alnum)
    /\ IF At(copy) = "(" THEN UNCHANGED <<copy, stop>>
       ELSE copy' = copy + 1 /\ stop' = stop + 1
    /\ UNCHANGED <<start, ranges>>

Character ==
    /\ Scan /\ At(copy) \notin {".", "?", "!", "\n"}
    /\ content' = (content \/ At(copy) \in Alnum)
    /\ copy' = copy + 1
    /\ stop' = stop + 1
    /\ UNCHANGED <<start, ranges>>

\* The end of the loop: what comes after the last mark is a sentence as well,
\* and its range ends at the NUL
Trailing ==
    /\ pc = "scan" /\ copy >= Size
    /\ ranges' = IF content /\ stop > start THEN Save(start, stop) ELSE ranges
    /\ pc' = "trim"
    /\ UNCHANGED <<text, copy, start, stop, content, allocated>>

\* Mutant: the start of the range is left where it is
TrimRange_EndOnly(r) ==
    [r EXCEPT !.end = Max({k \in 0 .. r.end : At(k) \notin Space})]

TrimRange(r) ==
    [start |-> Min({k \in r.start .. Size : At(k) \notin Space}),
     end   |-> Max({k \in 0 .. r.end : At(k) \notin Space})]

Trim ==
    /\ pc = "trim"
    /\ ranges' = [i \in DOMAIN ranges |-> TrimRange(ranges[i])]
    /\ pc' = "done"
    /\ UNCHANGED <<text, copy, start, stop, content, allocated>>

Terminated == pc = "done" /\ UNCHANGED vars

Iteration ==
    \/ PeriodInSentence \/ EnclosedMark \/ EndMark
    \/ SkipFormula \/ ParagraphBreak \/ ParagraphGoesOn \/ LineBreak
    \/ Character

Next == Iteration \/ Trailing \/ Trim \/ Terminated

Spec == Init /\ [][Next]_vars

\* It is a sequential program: it runs
FairSpec == Spec /\ WF_vars(Iteration \/ Trailing \/ Trim)

-----------------------------------------------------------------------------
(* Properties. *)

Ranges == [start : Nat, end : Nat]

\* Cursor and end of the sentence are moved by hand in every branch; if one
\* branch forgets one of them, all later ranges are displaced against the text
InStep == copy = stop /\ start <= stop

TypeOK ==
    /\ text \in Seq(Chars) /\ Size >= 2
    /\ copy \in 2 .. Size
    /\ start \in Nat /\ stop \in Nat /\ InStep
    /\ content \in BOOLEAN
    /\ ranges \in Seq(Ranges)
    /\ allocated \in Nat /\ allocated >= InitialRanges
    /\ pc \in {"scan", "trim", "done"}

\* Sentences are in the order of the text and share no character, before they
\* are trimmed as after; none ends after the NUL of the text
Disjoint ==
    /\ \A i \in 1 .. Len(ranges) :
          ranges[i].start <= ranges[i].end /\ ranges[i].end <= Size
    /\ \A i \in 1 .. Len(ranges) - 1 : ranges[i].end < ranges[i + 1].start
    /\ pc = "scan" /\ ranges # <<>> => ranges[Len(ranges)].end < start

\* No range is stored behind the end of the array, although two sentences may
\* be stored between two looks at its size: one by the last iteration, one after
StoredInside ==
    [][Len(ranges') > Len(ranges) => Len(ranges) < allocated']_vars

InSentence(i) ==
    \E k \in 1 .. Len(ranges) : ranges[k].start <= i /\ i <= ranges[k].end

\* Every letter or digit the scanner has looked at is in a sentence in the end:
\* no branch resets has_content without having saved the sentence
ContentKept ==
    pc = "done" => \A i \in 2 .. Size - 1 :
                       At(i) \in Alnum \ {"M"} => InSentence(i)

\* Every sentence has a letter or digit: trimming never runs past its range,
\* and there is a word for tokenize_words to find.  In the end none begins with
\* white space, and none whose range ends before the NUL ends with it
SentencesHaveContent ==
    pc \in {"trim", "done"} =>
        \A k \in 1 .. Len(ranges) :
            /\ \E i \in ranges[k].start .. ranges[k].end : At(i) \in Alnum
            /\ pc = "done" =>
                  /\ At(ranges[k].start) \notin Space
                  /\ ranges[k].end < Size => At(ranges[k].end) \notin Space

\* The last character of a sentence
LastOf(range) == At(IF range.end = Size THEN Size - 1 ELSE range.end)

\* "Trim all sentences" (tokenize_sentences): in the end none begins or ends with
\* white space
SentencesTrimmed ==
    pc = "done" =>
        \A k \in 1 .. Len(ranges) :
            At(ranges[k].start) \notin Space /\ LastOf(ranges[k]) \notin Space

\* The sentence goes on from i to j
Joined(i, j) == \A k \in 1 .. Len(ranges) : ~(i < ranges[k].start /\ ranges[k].start <= j)

\* Only blanks between the period at i and what follows at j
PeriodBefore(i, j) ==
    /\ At(i) = "."
    /\ \A k \in i + 1 .. j - 1 : At(k) = " "
    /\ At(j) \notin Space

\* What somebody would write: the patterns I.e and E.g accept any character for
\* their period, of which ? and ! are ends of sentences that come first
WellSpelt(word) ==
    \A n \in 1 .. Len(word) :
        word[n] \in Alpha \/ (word[n] = "." /\ n < Len(word) /\ word[n + 1] \in Lower)

AbbreviatedWord(i) ==
    \E word \in Abbreviations :
        /\ WellSpelt(word)
        /\ i >= Len(word) + 2
        /\ SubSeq(text, i - Len(word), i) = <<" ">> \o word
        /\ At(i - Len(word) - 2) \in Alnum

\* Whatever stands before it, a period with a small letter next ends no sentence
\* and one with a capital stopword next always does; with another capital letter
\* next it ends none after an abbreviation
PeriodRules ==
    pc = "done" =>
        \A i \in 2 .. Size - 1 : \A j \in i + 1 .. Size - 1 :
            PeriodBefore(i, j) =>
                /\ At(j) \in Lower => Joined(i, j)
                /\ At(j) \in Upper /\ StopwordAt(j) =>
                     ~\E k \in 1 .. Len(ranges) :
                         ranges[k].start <= i /\ j <= ranges[k].end
                /\ At(j) \in Upper /\ ~StopwordAt(j) /\ AbbreviatedWord(i) =>
                     Joined(i, j)

\* An empty line is inside a sentence only if it is next to a formula or if the
\* next paragraph begins with a stopword in small letters
ParagraphRule ==
    pc = "done" =>
        \A i \in 1 .. Size - 2 :
            (/\ At(i) = "\n" /\ At(i + 1) = "\n"
             /\ \E k \in 1 .. Len(ranges) :
                   ranges[k].start < i /\ i + 1 < ranges[k].end
                   /\ \E n \in i + 2 .. ranges[k].end : At(n) \in Alnum)
            => \/ \E j \in i + 2 .. Size :
                     /\ NextLetter(i + 2, j)
                     /\ At(j) = "M" \/ (At(j) \in Lower /\ StopwordAt(j))
               \/ \E m \in 0 .. i : At(m) = "M" /\ \A k \in m + 1 .. i : At(k) \in Space

\* Periods and empty lines end sentences where they should, whatever branch came to them
BreakRules == PeriodRules /\ ParagraphRule

\* Every branch moves the cursor
Termination == <>(pc = "done")
=============================================================================
