--------------------------- MODULE TokenizerProofs ---------------------------
(***************************************************************************)
(* Theorems about Tokenizer: for texts of any length, any stopwords and    *)
(* any abbreviations.                                                      *)
(***************************************************************************)
EXTENDS Tokenizer, WellFoundedInduction, SequenceTheorems, TLAPS

-----------------------------------------------------------------------------
(* The inductive invariant. *)

\* There is a letter or digit between two indices
HasAlnum(from, to) == \E i \in from .. to : At(i) \in Alnum

\* While scanning: there is room for one more range; has_content says that the current
\* sentence has a letter or digit, and a letter or digit that was passed is in a saved
\* sentence or in the current one, of which has_content knows
ScanInv ==
    pc = "scan" =>
        /\ Len(ranges) < allocated
        /\ content => HasAlnum(start, stop - 1)
        /\ \A i \in 2 .. copy - 1 :
              At(i) \in Alnum \ {"M"} => InSentence(i) \/ (content /\ start <= i)

\* Every saved range has a letter or digit, before trimming and after
RangesHaveAlnum == \A k \in 1 .. Len(ranges) : HasAlnum(ranges[k].start, ranges[k].end)

\* When the scan is over nothing has been lost
NothingLost ==
    pc \in {"trim", "done"} =>
        \A i \in 2 .. Size - 1 : At(i) \in Alnum \ {"M"} => InSentence(i)

\* Trimmed ranges end where there is no white space; the trailing one at the NUL
Trimmed ==
    pc = "done" =>
        \A k \in 1 .. Len(ranges) :
            At(ranges[k].start) \notin Space /\ At(ranges[k].end) \notin Space

Inv == TypeOK /\ Disjoint /\ ScanInv /\ RangesHaveAlnum /\ NothingLost /\ Trimmed

-----------------------------------------------------------------------------
(* Characters, and the least and greatest numbers of a set. *)

LEMMA CharacterFacts ==
    /\ Alnum \cap Space = {}
    /\ {".", "?", "!", "\n", NUL} \cap Alnum = {}
    /\ NUL \notin Space
BY DEF Alnum, Alpha, Lower, Upper, Space, NUL

LEMMA LeastExists ==
    ASSUME NEW S \in SUBSET Nat, S # {}
    PROVE  Min(S) \in S /\ \A y \in S : Min(S) <= y
<1> DEFINE R == {ss \in Nat \X Nat : ss[1] < ss[2]}
<1>1. IsWellFoundedOn(R, Nat)
  BY NatLessThanWellFounded, Zenon DEF OpToRel
<1> HIDE DEF R
<1>2. PICK x \in S : \A y \in S : <<y, x>> \notin R
  BY <1>1, WFMin, Zenon
<1>3. ASSUME NEW y \in S PROVE x <= y
  <2>1. x \in Nat /\ y \in Nat
    OBVIOUS
  <2>2. <<y, x>> \notin R
    BY <1>2
  <2>3. ~(y < x)
    BY <2>1, <2>2 DEF R
  <2> QED BY <2>1, <2>3
<1> QED BY <1>3 DEF Min

LEMMA GreatestExists ==
    ASSUME NEW n \in Nat, NEW S \in SUBSET (0 .. n), S # {}
    PROVE  Max(S) \in S /\ \A y \in S : Max(S) >= y
<1> DEFINE T == {n - y : y \in S}
<1>1. T \in SUBSET Nat
  <2>1. \A y \in S : n - y \in Nat
    OBVIOUS
  <2> QED BY <2>1
<1>2. T # {}
  <2>1. PICK y \in S : TRUE
    OBVIOUS
  <2>2. n - y \in T
    BY <2>1
  <2> QED BY <2>2
<1>3. Min(T) \in T /\ \A z \in T : Min(T) <= z
  BY <1>1, <1>2, LeastExists
<1>4. PICK x \in S : Min(T) = n - x
  BY <1>3
<1>5. \A y \in S : x >= y
  <2> SUFFICES ASSUME NEW y \in S PROVE x >= y
    OBVIOUS
  <2>1. n - y \in T
    OBVIOUS
  <2>2. n - x <= n - y
    BY <1>3, <1>4, <2>1
  <2> QED BY <2>2
<1> QED BY <1>5 DEF Max

-----------------------------------------------------------------------------
(* Steps of the scan. *)

\* The array is grown in time: there was room for one range, and there is after it is used
LEMMA GrowFacts ==
    ASSUME Inv, pc = "scan", Grow
    PROVE  /\ allocated' \in Nat /\ allocated' >= InitialRanges
           /\ Len(ranges) < allocated'
           /\ Len(ranges) + 1 < allocated'
BY TokenizerAssumption DEF Inv, TypeOK, ScanInv, Grow

\* A step that goes on with the current sentence, over characters of which has_content
\* is told
LEMMA GoOn ==
    ASSUME Inv, Scan,
           NEW e \in copy + 1 .. Size,
           copy' = e, stop' = e, UNCHANGED <<start, ranges>>,
           content' \in BOOLEAN, content => content',
           content' => content \/ At(copy) \in Alnum,
           \A i \in copy .. e - 1 : At(i) \in Alnum \ {"M"} => content'
    PROVE  Inv'
<1> USE DEF Inv
<1>0. text' = text /\ pc' = pc /\ pc = "scan" /\ Grow
  BY DEF Scan
<1>1. \A i : At(i)' = At(i)
  BY <1>0 DEF At, Size
<1>2. TypeOK'
  BY <1>0, GrowFacts DEF TypeOK, InStep, Size
<1>3. Disjoint'
  BY <1>0 DEF Disjoint, Size
<1>4. ScanInv'
  <2>1. Len(ranges') < allocated'
    BY <1>0, GrowFacts
  <2>2. content' => HasAlnum(start, stop - 1)'
    <3> SUFFICES ASSUME content' PROVE \E i \in start .. e - 1 : At(i) \in Alnum
      BY <1>1 DEF HasAlnum
    <3>1. CASE content
      BY <3>1, <1>0 DEF ScanInv, HasAlnum, TypeOK, InStep
    <3>2. CASE At(copy) \in Alnum
      BY <3>2 DEF TypeOK, InStep
    <3> QED BY <3>1, <3>2
  <2>3. ASSUME NEW i \in 2 .. e - 1, At(i) \in Alnum \ {"M"}
        PROVE  InSentence(i)' \/ (content' /\ start <= i)
    <3>1. CASE i < copy
      <4>1. InSentence(i) \/ (content /\ start <= i)
        BY <1>0, <2>3, <3>1 DEF ScanInv, TypeOK
      <4> QED BY <4>1 DEF InSentence
    <3>2. CASE i >= copy
      BY <2>3, <3>2 DEF TypeOK, InStep
    <3> QED BY <3>1, <3>2 DEF TypeOK
  <2> QED BY <1>0, <1>1, <2>1, <2>2, <2>3 DEF ScanInv
<1>5. RangesHaveAlnum'
  BY <1>1 DEF RangesHaveAlnum, HasAlnum
<1>6. NothingLost' /\ Trimmed'
  BY <1>0 DEF NothingLost, Trimmed
<1> QED BY <1>2, <1>3, <1>4, <1>5, <1>6

\* What is saved becomes the last of the ranges, the others stay
LEMMA SaveFacts ==
    ASSUME ranges \in Seq(Ranges), NEW from \in Nat, NEW to \in Nat,
           ranges' = Save(from, to)
    PROVE  /\ ranges' \in Seq(Ranges)
           /\ Len(ranges') = Len(ranges) + 1
           /\ \A k \in 1 .. Len(ranges) : ranges'[k] = ranges[k]
           /\ ranges'[Len(ranges')].start = from
           /\ ranges'[Len(ranges')].end = to
BY DEF Save, Ranges

\* If the range that is added begins behind the others, all are in order
LEMMA SaveInOrder ==
    ASSUME TypeOK, Disjoint, pc = "scan", UNCHANGED text,
           NEW to \in start .. Size, ranges' = Save(start, to)
    PROVE  /\ \A k \in 1 .. Len(ranges') :
                 ranges'[k].start <= ranges'[k].end /\ ranges'[k].end <= Size
           /\ \A k \in 1 .. Len(ranges') - 1 : ranges'[k].end < ranges'[k + 1].start
<1>0. start \in Nat /\ to \in Nat /\ Size \in Nat /\ ranges \in Seq(Ranges)
  BY DEF TypeOK, Size
<1>1. /\ Len(ranges') = Len(ranges) + 1
      /\ \A k \in 1 .. Len(ranges) : ranges'[k] = ranges[k]
      /\ ranges'[Len(ranges')].start = start
      /\ ranges'[Len(ranges')].end = to
  BY <1>0, SaveFacts
<1>2. ASSUME NEW k \in 1 .. Len(ranges')
      PROVE  ranges'[k].start <= ranges'[k].end /\ ranges'[k].end <= Size
  <2>1. CASE k \in 1 .. Len(ranges)
    BY <1>1, <2>1 DEF Disjoint
  <2>2. CASE k = Len(ranges')
    BY <1>1, <2>2
  <2> QED BY <1>0, <1>1, <2>1, <2>2
<1>3. ASSUME NEW k \in 1 .. Len(ranges') - 1
      PROVE  ranges'[k].end < ranges'[k + 1].start
  <2>0. k \in 1 .. Len(ranges)
    BY <1>0, <1>1
  <2>1. CASE k < Len(ranges)
    <3>1. k \in 1 .. Len(ranges) - 1 /\ k + 1 \in 1 .. Len(ranges)
      BY <1>0, <2>0, <2>1
    <3> QED BY <1>1, <2>0, <3>1 DEF Disjoint
  <2>2. CASE k = Len(ranges)
    <3>1. ranges # <<>>
      BY <1>0, <2>0
    <3> QED BY <1>0, <1>1, <2>0, <2>2, <3>1 DEF Disjoint
  <2> QED BY <1>0, <2>0, <2>1, <2>2
<1> QED BY <1>2, <1>3

\* A step that ends the current sentence before e and begins another there
LEMMA CutOff ==
    ASSUME Inv, Scan,
           NEW e \in copy + 1 .. Size,
           copy' = e, stop' = e, start' = e, content' = FALSE,
           \/ ranges' = ranges /\ (content => start = copy)
           \/ ranges' = Save(start, e - 1) /\ content,
           \A i \in copy .. e - 1 : At(i) \notin Alnum \ {"M"}
    PROVE  Inv'
<1> USE DEF Inv
<1>0. text' = text /\ pc' = pc /\ pc = "scan" /\ Grow
  BY DEF Scan
<1>1. \A i : At(i)' = At(i)
  BY <1>0 DEF At, Size
<1>2. /\ start \in Nat /\ copy \in 2 .. Size /\ stop = copy /\ start <= copy
      /\ Size \in Nat /\ Size' = Size /\ ranges \in Seq(Ranges)
  BY <1>0 DEF TypeOK, InStep, Size
<1>3. /\ \A i \in 2 .. e - 1 : At(i) \in Alnum \ {"M"} =>
                              i < copy /\ (InSentence(i) \/ (content /\ start <= i))
      /\ content => HasAlnum(start, copy - 1)
  BY <1>0, <1>2 DEF ScanInv
<1>t. ASSUME ranges' \in Seq(Ranges) PROVE TypeOK'
  <2>1. text' \in Seq(Chars) /\ Size' >= 2 /\ pc' \in {"scan", "trim", "done"}
    BY <1>0, <1>2 DEF TypeOK
  <2>2. copy' \in 2 .. Size' /\ start' \in Nat /\ stop' \in Nat /\ InStep'
    BY <1>2 DEF InStep
  <2>3. allocated' \in Nat /\ allocated' >= InitialRanges
    BY <1>0, GrowFacts
  <2> QED BY <1>t, <2>1, <2>2, <2>3 DEF TypeOK
<1>4. CASE ranges' = ranges /\ (content => start = copy)
  <2>1. TypeOK'
    BY <1>2, <1>4, <1>t
  <2>2. Disjoint'
    <3>1. ASSUME ranges # <<>> PROVE ranges[Len(ranges)].end < e
      <4>1. ranges[Len(ranges)] \in Ranges
        BY <1>2, <3>1
      <4>2. ranges[Len(ranges)].end < start
        BY <1>0, <3>1 DEF Disjoint
      <4> QED BY <1>2, <4>1, <4>2 DEF Ranges
    <3> QED BY <1>2, <1>4, <3>1 DEF Disjoint
  <2>3. \A i \in 2 .. e - 1 : At(i) \in Alnum \ {"M"} => InSentence(i)
    BY <1>2, <1>3, <1>4
  <2>4. ScanInv'
    BY <1>0, <1>1, <1>4, <2>3, GrowFacts DEF ScanInv, InSentence
  <2>5. RangesHaveAlnum'
    BY <1>1, <1>4 DEF RangesHaveAlnum, HasAlnum
  <2> QED BY <1>0, <2>1, <2>2, <2>4, <2>5 DEF NothingLost, Trimmed
<1>5. CASE ranges' = Save(start, e - 1) /\ content
  <2>0. e - 1 \in start .. Size /\ e - 1 \in Nat
    BY <1>2
  <2>1. /\ ranges' \in Seq(Ranges)
        /\ Len(ranges') = Len(ranges) + 1
        /\ \A k \in 1 .. Len(ranges) : ranges'[k] = ranges[k]
        /\ ranges'[Len(ranges')].start = start
        /\ ranges'[Len(ranges')].end = e - 1
    BY <1>2, <1>5, <2>0, SaveFacts
  <2>2. TypeOK'
    BY <1>t, <2>1
  <2>3. Disjoint'
    BY <1>0, <1>2, <1>5, <2>0, <2>1, SaveInOrder DEF Disjoint
  <2>4. ASSUME NEW i \in 2 .. e - 1, At(i) \in Alnum \ {"M"}
        PROVE  InSentence(i)'
    <3>1. CASE InSentence(i)
      <4>1. PICK k \in 1 .. Len(ranges) : ranges[k].start <= i /\ i <= ranges[k].end
        BY <3>1 DEF InSentence
      <4>2. k \in 1 .. Len(ranges') /\ ranges'[k] = ranges[k]
        BY <1>2, <2>1
      <4> QED BY <4>1, <4>2 DEF InSentence
    <3>2. CASE start <= i
      <4>1. Len(ranges') \in 1 .. Len(ranges')
        BY <1>2, <2>1
      <4>2. ranges'[Len(ranges')].start <= i /\ i <= ranges'[Len(ranges')].end
        BY <1>2, <2>1, <2>4, <3>2
      <4> QED BY <4>1, <4>2 DEF InSentence
    <3> QED BY <1>3, <2>4, <3>1, <3>2
  <2>5. ScanInv'
    BY <1>0, <1>1, <1>2, <2>1, <2>4, GrowFacts DEF ScanInv
  <2>6. RangesHaveAlnum'
    <3> SUFFICES ASSUME NEW k \in 1 .. Len(ranges')
                 PROVE  \E i \in ranges'[k].start .. ranges'[k].end : At(i) \in Alnum
      BY <1>1 DEF RangesHaveAlnum, HasAlnum
    <3>1. CASE k \in 1 .. Len(ranges)
      BY <2>1, <3>1 DEF RangesHaveAlnum, HasAlnum
    <3>2. CASE k = Len(ranges')
      <4>1. PICK i \in start .. copy - 1 : At(i) \in Alnum
        BY <1>3, <1>5 DEF HasAlnum
      <4>2. i \in start .. e - 1
        BY <1>2, <4>1
      <4> QED BY <2>1, <3>2, <4>1, <4>2
    <3> QED BY <1>2, <2>1, <3>1, <3>2
  <2> QED BY <1>0, <2>2, <2>3, <2>5, <2>6 DEF NothingLost, Trimmed
<1> QED BY <1>4, <1>5

\* Advance passes one character that is no letter or digit
LEMMA AdvanceStep ==
    ASSUME Inv, Scan, Advance, At(copy) \notin Alnum
    PROVE  Inv'
<1>1. copy \in 2 .. Size /\ copy < Size /\ stop = copy /\ content \in BOOLEAN /\ Size \in Nat
  BY DEF Inv, TypeOK, InStep, Scan, Size
<1>2. /\ copy + 1 \in copy + 1 .. Size
      /\ copy' = copy + 1 /\ stop' = copy + 1
      /\ UNCHANGED <<start, ranges>> /\ content' = content
  BY <1>1 DEF Advance
<1>3. \A i \in copy .. (copy + 1) - 1 : At(i) \in Alnum \ {"M"} => content'
  BY <1>1
<1> QED BY <1>1, <1>2, <1>3, GoOn

\* Break ends the sentence n characters behind the cursor
LEMMA BreakStep ==
    ASSUME Inv, Scan, NEW n \in Nat, copy + n + 1 <= Size, Break(n),
           \A i \in copy .. copy + n : At(i) \notin Alnum
    PROVE  Inv'
<1>1. /\ copy \in 2 .. Size /\ stop = copy /\ start <= copy /\ start \in Nat
      /\ content \in BOOLEAN /\ Size \in Nat
  BY DEF Inv, TypeOK, InStep, Size
<1>2. PICK e \in copy + 1 .. Size : e = copy + n + 1
  BY <1>1
<1>3. copy' = e /\ stop' = e /\ start' = e /\ content' = FALSE
  BY <1>1, <1>2 DEF Break
<1>4. \/ ranges' = ranges /\ (content => start = copy)
      \/ ranges' = Save(start, e - 1) /\ content
  <2>1. CASE content /\ stop + n > start
    <3>1. stop + n = e - 1
      BY <1>1, <1>2
    <3> QED BY <2>1, <3>1 DEF Break
  <2>2. CASE ~(content /\ stop + n > start)
    <3>1. content => start = copy
      BY <1>1, <2>2
    <3> QED BY <2>2, <3>1 DEF Break
  <2> QED BY <2>1, <2>2
<1>5. \A i \in copy .. e - 1 : At(i) \notin Alnum \ {"M"}
  BY <1>1, <1>2
<1> QED BY <1>2, <1>3, <1>4, <1>5, CutOff

\* A formula and what is white around it has no letter or digit of its own
LEMMA FormulaFacts ==
    ASSUME Inv, NEW e \in copy .. Size, FormulaUntil(e)
    PROVE  e \in copy + 1 .. Size /\ \A i \in copy .. e - 1 : At(i) \notin Alnum \ {"M"}
<1>1. copy \in Nat /\ Size \in Nat
  BY DEF Inv, TypeOK, Size
<1>2. PICK m \in copy .. Size, q \in copy .. Size :
         /\ NextLetter(copy, m) /\ At(m) = "M"
         /\ NextLetter(m + 1, q)
         /\ e \in m + 2 .. q
  BY DEF FormulaUntil
<1>3. e \in copy + 1 .. Size
  BY <1>1, <1>2
<1>4. ASSUME NEW i \in copy .. e - 1 PROVE At(i) \notin Alnum \ {"M"}
  <2>1. CASE i < m
    <3>1. At(i) \in Space
      BY <1>1, <1>2, <1>4, <2>1 DEF NextLetter
    <3> QED BY <3>1, CharacterFacts
  <2>2. CASE i = m
    BY <1>2, <2>2
  <2>3. CASE i > m
    <3>1. i \in m + 1 .. q - 1
      BY <1>1, <1>2, <1>3, <1>4, <2>3
    <3>2. At(i) \in Space
      BY <1>2, <3>1 DEF NextLetter
    <3> QED BY <3>2, CharacterFacts
  <2> QED BY <1>1, <1>2, <1>4, <2>1, <2>2, <2>3
<1> QED BY <1>3, <1>4

LEMMA SkipFormulaStep ==
    ASSUME Inv, SkipFormula
    PROVE  Inv'
<1>1. /\ copy \in 2 .. Size /\ stop = copy /\ start <= copy /\ start \in Nat
      /\ content \in BOOLEAN /\ Size \in Nat /\ Scan
  BY DEF Inv, TypeOK, InStep, Size, SkipFormula
<1>2. PICK e \in copy .. Size :
        /\ FormulaUntil(e)
        /\ copy' = e
        /\ stop' = stop + (e - copy)
        /\ IF ~content \/ At(e) \in Upper
           THEN /\ ranges' = IF content /\ stop' > start
                             THEN Save(start, stop' - 1) ELSE ranges
                /\ start' = stop'
                /\ content' = FALSE
           ELSE UNCHANGED <<start, content, ranges>>
  BY DEF SkipFormula
<1>3. e \in copy + 1 .. Size /\ \A i \in copy .. e - 1 : At(i) \notin Alnum \ {"M"}
  BY <1>2, FormulaFacts
<1>4. copy' = e /\ stop' = e
  BY <1>1, <1>2
<1>5. CASE ~content \/ At(e) \in Upper
  <2>1. start' = e /\ content' = FALSE
    BY <1>2, <1>4, <1>5
  <2>2. ranges' = IF content THEN Save(start, e - 1) ELSE ranges
    BY <1>1, <1>2, <1>3, <1>4, <1>5
  <2>3. \/ ranges' = ranges /\ (content => start = copy)
        \/ ranges' = Save(start, e - 1) /\ content
    BY <2>2
  <2> QED BY <1>1, <1>3, <1>4, <2>1, <2>3, CutOff
<1>6. CASE ~(~content \/ At(e) \in Upper)
  <2>1. UNCHANGED <<start, ranges>> /\ content' = content
    BY <1>2, <1>6
  <2> QED BY <1>1, <1>3, <1>4, <2>1, GoOn
<1> QED BY <1>5, <1>6

LEMMA ParagraphBreakStep ==
    ASSUME Inv, ParagraphBreak
    PROVE  Inv'
<1>1. copy \in Nat /\ Size \in Nat /\ Scan
  BY DEF Inv, TypeOK, Size, ParagraphBreak
<1>2. PICK j \in copy + 1 .. Size : NextLetter(copy + 1, j) /\ Break(j - copy - 1)
  BY DEF ParagraphBreak
<1>3. PICK n \in Nat : n = j - copy - 1
  BY <1>1
<1>4. At(copy) \notin Alnum
  BY CharacterFacts DEF ParagraphBreak, DoubleBreak
<1>5. ASSUME NEW i \in copy .. copy + n PROVE At(i) \notin Alnum
  <2>1. CASE i = copy
    BY <1>4, <2>1
  <2>2. CASE i # copy
    <3>1. i \in copy + 1 .. j - 1
      BY <1>1, <1>3, <1>5, <2>2
    <3>2. At(i) \in Space
      BY <1>2, <3>1 DEF NextLetter
    <3> QED BY <3>2, CharacterFacts
  <2> QED BY <2>1, <2>2
<1> QED BY <1>1, <1>2, <1>3, <1>5, BreakStep

LEMMA CharacterStep ==
    ASSUME Inv, Character
    PROVE  Inv'
<1>1. /\ copy \in 2 .. Size /\ copy < Size /\ stop = copy /\ content \in BOOLEAN
      /\ Size \in Nat /\ Scan
  BY DEF Inv, TypeOK, InStep, Scan, Size, Character
<1>2. /\ copy + 1 \in copy + 1 .. Size
      /\ copy' = copy + 1 /\ stop' = copy + 1 /\ UNCHANGED <<start, ranges>>
  BY <1>1 DEF Character
<1>3. content' = (content \/ At(copy) \in Alnum)
  BY DEF Character
<1>4. content' \in BOOLEAN
  BY <1>3
<1>5. (content => content') /\ (content' => content \/ At(copy) \in Alnum)
  BY <1>3
<1>6. \A i \in copy .. (copy + 1) - 1 : At(i) \in Alnum \ {"M"} => content'
  <2>1. \A i \in copy .. (copy + 1) - 1 : i = copy
    BY <1>1
  <2> QED BY <1>3, <2>1
<1> QED BY <1>1, <1>2, <1>4, <1>5, <1>6, GoOn

\* One step of the scanner, whatever stands under the cursor
LEMMA IterationStep ==
    ASSUME Inv, Iteration
    PROVE  Inv'
<1>0. /\ copy \in Nat /\ Size \in Nat /\ 0 \in Nat /\ (Scan => copy + 0 + 1 <= Size)
  BY DEF Inv, TypeOK, Scan, Size
<1>1. \A c \in {".", "?", "!", "\n"} : At(copy) = c =>
          At(copy) \notin Alnum /\ \A i \in copy .. copy + 0 : At(i) \notin Alnum
  BY <1>0, CharacterFacts
<1>2. CASE PeriodInSentence
  BY <1>1, <1>2, AdvanceStep DEF PeriodInSentence
<1>3. CASE EnclosedMark
  BY <1>1, <1>3, AdvanceStep DEF EnclosedMark
<1>4. CASE EndMark
  BY <1>0, <1>1, <1>4, BreakStep DEF EndMark
<1>5. CASE SkipFormula
  BY <1>5, SkipFormulaStep
<1>6. CASE ParagraphBreak
  BY <1>6, ParagraphBreakStep
<1>7. CASE ParagraphGoesOn
  BY <1>1, <1>7, AdvanceStep DEF ParagraphGoesOn, DoubleBreak
<1>8. CASE LineBreak
  <2>1. CASE StopwordNext(Upper)
    BY <1>0, <1>1, <1>8, <2>1, BreakStep DEF LineBreak
  <2>2. CASE ~StopwordNext(Upper)
    BY <1>1, <1>8, <2>2, AdvanceStep DEF LineBreak
  <2> QED BY <2>1, <2>2
<1>9. CASE Character
  BY <1>9, CharacterStep
<1> QED BY <1>2, <1>3, <1>4, <1>5, <1>6, <1>7, <1>8, <1>9 DEF Iteration

-----------------------------------------------------------------------------
(* The end of the scan. *)

LEMMA TrailingStep ==
    ASSUME Inv, Trailing
    PROVE  Inv' /\ (Len(ranges') > Len(ranges) => Len(ranges) < allocated')
<1> USE DEF Inv
<1>0. text' = text /\ pc' = "trim" /\ pc = "scan" /\ UNCHANGED <<copy, start, stop, content, allocated>>
  BY DEF Trailing
<1>1. \A i : At(i)' = At(i)
  BY <1>0 DEF At, Size
<1>2. /\ start \in Nat /\ Size \in Nat /\ Size' = Size /\ copy = Size /\ stop = Size
      /\ start <= Size /\ ranges \in Seq(Ranges) /\ content \in BOOLEAN
      /\ Len(ranges) < allocated
  BY <1>0 DEF TypeOK, InStep, Size, Trailing, ScanInv
<1>3. /\ \A i \in 2 .. Size - 1 : At(i) \in Alnum \ {"M"} =>
                                   InSentence(i) \/ (content /\ start <= i)
      /\ content => HasAlnum(start, Size - 1)
  BY <1>0, <1>2 DEF ScanInv
<1>t. ASSUME ranges' \in Seq(Ranges) PROVE TypeOK'
  BY <1>0, <1>2, <1>t DEF TypeOK, InStep, Size
<1>4. CASE content /\ stop > start
  <2>0. Size \in start .. Size /\ ranges' = Save(start, Size)
    BY <1>2, <1>4 DEF Trailing
  <2>1. /\ ranges' \in Seq(Ranges)
        /\ Len(ranges') = Len(ranges) + 1
        /\ \A k \in 1 .. Len(ranges) : ranges'[k] = ranges[k]
        /\ ranges'[Len(ranges')].start = start
        /\ ranges'[Len(ranges')].end = Size
    BY <1>2, <2>0, SaveFacts
  <2>2. Disjoint'
    BY <1>0, <1>2, <2>0, SaveInOrder DEF Disjoint
  <2>3. ASSUME NEW i \in 2 .. Size - 1, At(i) \in Alnum \ {"M"}
        PROVE  InSentence(i)'
    <3>1. CASE InSentence(i)
      <4>1. PICK k \in 1 .. Len(ranges) : ranges[k].start <= i /\ i <= ranges[k].end
        BY <3>1 DEF InSentence
      <4>2. k \in 1 .. Len(ranges') /\ ranges'[k] = ranges[k]
        BY <1>2, <2>1
      <4> QED BY <4>1, <4>2 DEF InSentence
    <3>2. CASE start <= i
      <4>1. Len(ranges') \in 1 .. Len(ranges')
        BY <1>2, <2>1
      <4>2. ranges'[Len(ranges')].start <= i /\ i <= ranges'[Len(ranges')].end
        BY <1>2, <2>1, <2>3, <3>2
      <4> QED BY <4>1, <4>2 DEF InSentence
    <3> QED BY <1>3, <2>3, <3>1, <3>2
  <2>4. RangesHaveAlnum'
    <3> SUFFICES ASSUME NEW k \in 1 .. Len(ranges')
                 PROVE  \E i \in ranges'[k].start .. ranges'[k].end : At(i) \in Alnum
      BY <1>1 DEF RangesHaveAlnum, HasAlnum
    <3>1. CASE k \in 1 .. Len(ranges)
      BY <2>1, <3>1 DEF RangesHaveAlnum, HasAlnum
    <3>2. CASE k = Len(ranges')
      <4>1. PICK i \in start .. Size - 1 : At(i) \in Alnum
        BY <1>3, <1>4 DEF HasAlnum
      <4>2. i \in start .. Size
        BY <1>2, <4>1
      <4> QED BY <2>1, <3>2, <4>1, <4>2
    <3> QED BY <1>2, <2>1, <3>1, <3>2
  <2>5. NothingLost'
    BY <1>1, <1>2, <2>3 DEF NothingLost
  <2> QED BY <1>0, <1>2, <1>t, <2>1, <2>2, <2>4, <2>5 DEF ScanInv, Trimmed
<1>5. CASE ~(content /\ stop > start)
  <2>1. ranges' = ranges
    BY <1>5 DEF Trailing
  <2>2. TypeOK'
    BY <1>2, <1>t, <2>1
  <2>3. Disjoint'
    BY <1>0, <1>2, <2>1 DEF Disjoint
  <2>4. RangesHaveAlnum'
    BY <1>1, <2>1 DEF RangesHaveAlnum, HasAlnum
  <2>5. ASSUME NEW i \in 2 .. Size - 1, At(i) \in Alnum \ {"M"}
        PROVE  InSentence(i)
    BY <1>2, <1>3, <1>5, <2>5
  <2>6. NothingLost'
    BY <1>1, <1>2, <2>1, <2>5 DEF NothingLost, InSentence
  <2> QED BY <1>0, <1>2, <2>1, <2>2, <2>3, <2>4, <2>6 DEF ScanInv, Trimmed
<1> QED BY <1>4, <1>5

\* A range with a letter or digit is trimmed to a range within it, around that letter
LEMMA TrimRangeFacts ==
    ASSUME NEW r \in Ranges, Size \in Nat, r.end <= Size, HasAlnum(r.start, r.end)
    PROVE  /\ TrimRange(r) \in Ranges
           /\ r.start <= TrimRange(r).start /\ TrimRange(r).end <= r.end
           /\ \A i \in r.start .. r.end : At(i) \in Alnum =>
                 TrimRange(r).start <= i /\ i <= TrimRange(r).end
           /\ At(TrimRange(r).start) \notin Space /\ At(TrimRange(r).end) \notin Space
<1>1. r.start \in Nat /\ r.end \in Nat
  BY DEF Ranges
<1> DEFINE S == {k \in r.start .. Size : At(k) \notin Space}
           E == {k \in 0 .. r.end : At(k) \notin Space}
<1>2. ASSUME NEW i \in r.start .. r.end, At(i) \in Alnum
      PROVE  i \in S /\ i \in E
  BY <1>1, <1>2, CharacterFacts
<1>3. S # {} /\ E # {}
  BY <1>2 DEF HasAlnum
<1>4. S \in SUBSET Nat /\ E \in SUBSET (0 .. r.end)
  BY <1>1
<1>5. Min(S) \in S /\ \A y \in S : Min(S) <= y
  BY <1>3, <1>4, LeastExists
<1>6. Max(E) \in E /\ \A y \in E : Max(E) >= y
  BY <1>1, <1>3, <1>4, GreatestExists
<1>7. TrimRange(r).start = Min(S) /\ TrimRange(r).end = Max(E)
  BY DEF TrimRange
<1>8. TrimRange(r) = [start |-> Min(S), end |-> Max(E)]
  BY DEF TrimRange
<1>9. Min(S) \in Nat /\ Max(E) \in Nat /\ r.start <= Min(S) /\ Max(E) <= r.end
      /\ At(Min(S)) \notin Space /\ At(Max(E)) \notin Space
  BY <1>1, <1>5, <1>6
<1>10. \A i \in r.start .. r.end : At(i) \in Alnum => Min(S) <= i /\ i <= Max(E)
  BY <1>1, <1>2, <1>5, <1>6, <1>9
<1> HIDE DEF S, E
<1> QED BY <1>7, <1>8, <1>9, <1>10 DEF Ranges

LEMMA TrimStep ==
    ASSUME Inv, Trim
    PROVE  Inv' /\ Len(ranges') = Len(ranges)
<1> USE DEF Inv
<1>0. text' = text /\ pc' = "done" /\ pc = "trim" /\ UNCHANGED <<copy, start, stop, content, allocated>>
  BY DEF Trim
<1>1. \A i : At(i)' = At(i)
  BY <1>0 DEF At, Size
<1>2. Size \in Nat /\ Size' = Size /\ ranges \in Seq(Ranges) /\ Len(ranges) \in Nat
  BY <1>0 DEF TypeOK, Size
<1>3. DOMAIN ranges = 1 .. Len(ranges) /\ ranges' = [k \in 1 .. Len(ranges) |-> TrimRange(ranges[k])]
  BY <1>2 DEF Trim
<1>4. ASSUME NEW k \in 1 .. Len(ranges)
      PROVE  /\ ranges'[k] \in Ranges
             /\ ranges[k] \in Ranges
             /\ ranges[k].start <= ranges'[k].start /\ ranges'[k].end <= ranges[k].end
             /\ ranges[k].end <= Size
             /\ \A i \in ranges[k].start .. ranges[k].end : At(i) \in Alnum =>
                   ranges'[k].start <= i /\ i <= ranges'[k].end
             /\ At(ranges'[k].start) \notin Space /\ At(ranges'[k].end) \notin Space
  <2>1. ranges[k] \in Ranges /\ ranges[k].end <= Size /\ HasAlnum(ranges[k].start, ranges[k].end)
    BY <1>2 DEF Disjoint, RangesHaveAlnum
  <2>2. ranges'[k] = TrimRange(ranges[k])
    BY <1>3
  <2> QED BY <1>2, <2>1, <2>2, TrimRangeFacts
<1>5. ranges' \in Seq(Ranges) /\ Len(ranges') = Len(ranges)
  BY <1>2, <1>3, <1>4
<1>6. TypeOK'
  BY <1>0, <1>2, <1>5 DEF TypeOK, InStep
<1>7. ASSUME NEW k \in 1 .. Len(ranges)
      PROVE  \E i \in ranges'[k].start .. ranges'[k].end : At(i) \in Alnum
  <2>1. PICK i \in ranges[k].start .. ranges[k].end : At(i) \in Alnum
    BY DEF RangesHaveAlnum, HasAlnum
  <2>2. i \in ranges'[k].start .. ranges'[k].end
    BY <1>4, <2>1 DEF Ranges
  <2> QED BY <2>1, <2>2
<1>8. RangesHaveAlnum'
  BY <1>1, <1>5, <1>7 DEF RangesHaveAlnum, HasAlnum
<1>9. Disjoint'
  <2>1. ASSUME NEW k \in 1 .. Len(ranges)
        PROVE  ranges'[k].start <= ranges'[k].end /\ ranges'[k].end <= Size
    <3>1. /\ ranges'[k].start \in Nat /\ ranges'[k].end \in Nat /\ ranges[k].end \in Nat
          /\ ranges'[k].end <= ranges[k].end /\ ranges[k].end <= Size
      BY <1>4 DEF Ranges
    <3>2. PICK i \in ranges'[k].start .. ranges'[k].end : TRUE
      BY <1>7
    <3> QED BY <1>2, <3>1, <3>2
  <2>2. ASSUME NEW k \in 1 .. Len(ranges) - 1
        PROVE  ranges'[k].end < ranges'[k + 1].start
    <3>1. k \in 1 .. Len(ranges) /\ k + 1 \in 1 .. Len(ranges)
      BY <1>2
    <3>2. ranges[k].end < ranges[k + 1].start
      BY DEF Disjoint
    <3>3. ranges'[k].end <= ranges[k].end /\ ranges[k + 1].start <= ranges'[k + 1].start
      BY <1>4, <3>1
    <3>4. /\ ranges'[k].end \in Nat /\ ranges[k].end \in Nat
          /\ ranges[k + 1].start \in Nat /\ ranges'[k + 1].start \in Nat
      BY <1>4, <3>1 DEF Ranges
    <3> QED BY <3>2, <3>3, <3>4
  <2> QED BY <1>0, <1>2, <1>5, <2>1, <2>2 DEF Disjoint
<1>10. NothingLost'
  <2> SUFFICES ASSUME NEW i \in 2 .. Size - 1, At(i) \in Alnum \ {"M"}
               PROVE  \E k \in 1 .. Len(ranges') : ranges'[k].start <= i /\ i <= ranges'[k].end
    BY <1>1, <1>2 DEF NothingLost, InSentence
  <2>1. PICK k \in 1 .. Len(ranges) : ranges[k].start <= i /\ i <= ranges[k].end
    BY <1>0 DEF NothingLost, InSentence
  <2>2. i \in ranges[k].start .. ranges[k].end
    BY <1>2, <1>4, <2>1 DEF Ranges
  <2> QED BY <1>4, <1>5, <2>2
<1>11. Trimmed'
  BY <1>1, <1>4, <1>5 DEF Trimmed
<1> QED BY <1>0, <1>5, <1>6, <1>8, <1>9, <1>10, <1>11 DEF ScanInv

-----------------------------------------------------------------------------
(* The theorems. *)

LEMMA InitInv == Init => Inv
<1> SUFFICES ASSUME Init PROVE Inv
  OBVIOUS
<1>1. text \in Seq(Chars) /\ Len(text) >= 2 /\ Len(text) \in Nat /\ InitialRanges \in Nat /\ InitialRanges >= 2
  BY TokenizerAssumption DEF Init
<1>2. ranges = <<>> /\ Len(ranges) = 0 /\ ranges \in Seq(Ranges)
  BY DEF Init
<1>3. copy = 2 /\ start = 0 /\ stop = 2 /\ content = FALSE /\ allocated = InitialRanges /\ pc = "scan"
  BY DEF Init
<1>t. TypeOK
  <2>1. copy \in 2 .. Size /\ Size >= 2 /\ start \in Nat /\ stop \in Nat /\ InStep
    BY <1>1, <1>3 DEF InStep, Size
  <2>2. content \in BOOLEAN
    BY <1>3, Zenon
  <2>3. allocated \in Nat /\ allocated >= InitialRanges
    BY <1>1, <1>3
  <2> QED BY <1>1, <1>2, <1>3, <2>1, <2>2, <2>3 DEF TypeOK
<1>4. Disjoint /\ RangesHaveAlnum
  BY <1>1, <1>2 DEF Disjoint, RangesHaveAlnum
<1>5. ScanInv
  BY <1>1, <1>2 DEF Init, ScanInv
<1>6. NothingLost /\ Trimmed
  BY DEF Init, NothingLost, Trimmed
<1> QED BY <1>t, <1>4, <1>5, <1>6 DEF Inv

LEMMA StepInv == Inv /\ [Next]_vars => Inv'
<1> SUFFICES ASSUME Inv, [Next]_vars PROVE Inv'
  OBVIOUS
<1>1. CASE Iteration
  BY <1>1, IterationStep
<1>2. CASE Trailing
  BY <1>2, TrailingStep
<1>3. CASE Trim
  BY <1>3, TrimStep
<1>4. CASE UNCHANGED vars
  BY <1>4 DEF vars, Inv, TypeOK, InStep, Size, Disjoint, ScanInv, HasAlnum, At, InSentence,
              RangesHaveAlnum, NothingLost, Trimmed
<1> QED BY <1>1, <1>2, <1>3, <1>4 DEF Next, Terminated

LEMMA Invariance == Spec => []Inv
<1> QED BY InitInv, StepInv, PTL DEF Spec

\* Cursor and end of the sentence stay together and inside the text, in every branch
THEOREM TypeCorrect == Spec => []TypeOK
<1>1. Inv => TypeOK
  BY DEF Inv
<1> QED BY <1>1, Invariance, PTL

\* Sentences are in order and share no character, before and after trimming
THEOREM SentencesDisjoint == Spec => []Disjoint
<1>1. Inv => Disjoint
  BY DEF Inv
<1> QED BY <1>1, Invariance, PTL

\* No letter or digit from the third character on is lost
THEOREM TextKept == Spec => []ContentKept
<1>1. Inv => ContentKept
  BY DEF Inv, NothingLost, ContentKept
<1> QED BY <1>1, Invariance, PTL

\* Every sentence has a letter or digit; in the end none begins with white space, and
\* none does end with it but the trailing one, whose range ends at the NUL
THEOREM SentencesSound == Spec => []SentencesHaveContent
<1>1. Inv => SentencesHaveContent
  BY DEF Inv, RangesHaveAlnum, HasAlnum, Trimmed, SentencesHaveContent
<1> QED BY <1>1, Invariance, PTL

\* No range is stored behind the end of the array
THEOREM ArrayLargeEnough == Spec => StoredInside
<1>1. ASSUME Inv, [Next]_vars
      PROVE  [Len(ranges') > Len(ranges) => Len(ranges) < allocated']_vars
  <2>0. Len(ranges) \in Nat
    BY <1>1 DEF Inv, TypeOK
  <2>1. CASE Iteration
    <3>1. pc = "scan" /\ Grow
      BY <2>1 DEF Iteration, PeriodInSentence, EnclosedMark, EndMark, SkipFormula, ParagraphBreak,
                  ParagraphGoesOn, LineBreak, Character, Scan
    <3> QED BY <1>1, <3>1, GrowFacts
  <2>2. CASE Trailing
    BY <1>1, <2>2, TrailingStep
  <2>3. CASE Trim
    BY <1>1, <2>0, <2>3, TrimStep
  <2>4. CASE UNCHANGED vars
    BY <2>4
  <2> QED BY <1>1, <2>1, <2>2, <2>3, <2>4 DEF Next, Terminated
<1> QED BY <1>1, Invariance, PTL DEF Spec, StoredInside

-----------------------------------------------------------------------------
(* The rules on periods and empty lines: what holds of them at every step. *)

\* The sentence has to go on after the period at i, which j follows
MustJoin(i, j) ==
    /\ PeriodBefore(i, j)
    /\ \/ At(j) \in Lower
       \/ At(j) \in Upper /\ ~StopwordAt(j) /\ AbbreviatedWord(i)

\* It has to end there
MustCut(i, j) == PeriodBefore(i, j) /\ At(j) \in Upper /\ StopwordAt(j)

EndsSentence == {".", "?", "!", "\n"}

\* Where the scanner lets a sentence begin: behind a mark or line break, where no small
\* letter follows a period, or behind the blanks that follow an empty line
Opens(s) ==
    \/ s = 0
    \/ s >= 3 /\ At(s - 1) \in EndsSentence /\ (At(s - 1) = "." => At(s) \notin Lower)
    \/ s >= 3 /\ At(s - 1) = " " /\ At(s - 2) \in Space

EmptyLine(i) == At(i) = "\n" /\ At(i + 1) = "\n"

\* The range holds the empty line at i and a letter or digit behind it
Around(r, i) ==
    /\ r.start < i /\ i + 1 < r.end
    /\ \E n \in i + 2 .. r.end : At(n) \in Alnum

\* An empty line that need not end a sentence
Excused(i) ==
    \/ \E j \in i + 2 .. Size :
          NextLetter(i + 2, j) /\ (At(j) = "M" \/ (At(j) \in Lower /\ StopwordAt(j)))
    \/ \E m \in 0 .. i : At(m) = "M" /\ \A k \in m + 1 .. i : At(k) \in Space

\* Neither a saved sentence nor the current one begins between a period that joins and
\* what follows it; no saved one goes past a period that cuts, and the current one begins
\* behind it once it is passed
PeriodInv ==
    \A i \in 2 .. Size - 1 : \A j \in i + 1 .. Size - 1 :
        /\ MustJoin(i, j) => Joined(i, j) /\ (pc = "scan" => ~(i < start /\ start <= j))
        /\ MustCut(i, j) =>
              /\ \A k \in 1 .. Len(ranges) : ~(ranges[k].start <= i /\ j <= ranges[k].end)
              /\ pc = "scan" /\ i < copy => i < start

\* The same for an empty line that is passed
LineInv ==
    \A i \in 1 .. Size - 2 :
        EmptyLine(i) /\ ~Excused(i) =>
            /\ \A k \in 1 .. Len(ranges) : ~Around(ranges[k], i)
            /\ pc = "scan" /\ i + 1 < copy => i < start

StartInv == pc = "scan" => Opens(start)

RulesInv == PeriodInv /\ LineInv /\ StartInv

-----------------------------------------------------------------------------
(* The rules look at the text only, which stays. *)

LEMMA SameText ==
    ASSUME text' = text
    PROVE  /\ Size' = Size
           /\ \A i : At(i)' = At(i)
           /\ \A i, j : MustJoin(i, j)' = MustJoin(i, j)
           /\ \A i, j : MustCut(i, j)' = MustCut(i, j)
           /\ \A i : Opens(i)' = Opens(i)
           /\ \A i : EmptyLine(i)' = EmptyLine(i)
           /\ \A i : Excused(i)' = Excused(i)
<1>1. Size' = Size /\ \A i : At(i)' = At(i)
  BY DEF At, Size
<1>2. \A j : StopwordAt(j)' = StopwordAt(j)
  BY <1>1 DEF StopwordAt, IsStopword
<1>3. \A i, j : PeriodBefore(i, j)' = PeriodBefore(i, j)
  BY <1>1 DEF PeriodBefore
<1>4. \A i : AbbreviatedWord(i)' = AbbreviatedWord(i)
  BY <1>1 DEF AbbreviatedWord
<1>5. \A i, j : MustJoin(i, j)' = MustJoin(i, j)
  BY <1>1, <1>2, <1>3, <1>4 DEF MustJoin
<1>6. \A i, j : MustCut(i, j)' = MustCut(i, j)
  BY <1>1, <1>2, <1>3 DEF MustCut
<1>7. \A i : Opens(i)' = Opens(i) /\ EmptyLine(i)' = EmptyLine(i)
  BY <1>1 DEF Opens, EmptyLine
<1>8. \A i, j : NextLetter(i, j)' = NextLetter(i, j)
  BY <1>1 DEF NextLetter
<1>9. \A i : Excused(i)' = Excused(i)
  BY <1>1, <1>2, <1>8 DEF Excused
<1> QED BY <1>1, <1>5, <1>6, <1>7, <1>9

LEMMA LetterFacts ==
    /\ \A c \in EndsSentence : c \notin Alnum /\ c \notin Lower /\ c # " " /\ c # "M"
    /\ \A c \in Space : c \notin Alnum /\ (c = " " \/ c \in EndsSentence)
    /\ \A c \in Lower : c \notin Upper \cup {NUL} /\ c \notin Space /\ c \in Alnum
    /\ \A c \in Upper : c \notin {"\"", "]", ")", "}", " "} /\ c \notin Space /\ c \in Alnum
    /\ \A c \in Alpha : c \in Alnum
    /\ " " \in Space /\ "\n" \in Space /\ "." \notin Space /\ "M" \notin Space
    /\ "." # "M" /\ " " \notin Alnum /\ "." \notin Alnum /\ NUL \notin Alnum
BY DEF EndsSentence, Alnum, Alpha, Lower, Upper, Space, NUL

\* What follows the cursor over blanks is the next letter
LEMMA NextAfterPeriod ==
    ASSUME Inv, NEW j \in copy + 1 .. Size - 1, PeriodBefore(copy, j)
    PROVE  /\ j \in copy + 1 .. Size
           /\ NextLetter(copy + 1, j)
           /\ \A l \in copy + 1 .. Size : NextLetter(copy + 1, l) => l = j
<1>1. copy \in Nat /\ Size \in Nat
  BY DEF Inv, TypeOK, Size
<1>2. j \in copy + 1 .. Size /\ NextLetter(copy + 1, j)
  <2>1. \A k \in copy + 1 .. j - 1 : At(k) \in Space
    BY LetterFacts DEF PeriodBefore
  <2>2. j \in copy + 1 .. Size
    BY <1>1
  <2>3. At(j) \notin Space
    BY DEF PeriodBefore
  <2> QED BY <2>1, <2>2, <2>3 DEF NextLetter
<1>3. ASSUME NEW l \in copy + 1 .. Size, NextLetter(copy + 1, l)
      PROVE  l = j
  <2>1. CASE l < j
    BY <1>1, <1>2, <1>3, <2>1 DEF NextLetter
  <2>2. CASE j < l
    BY <1>1, <1>2, <1>3, <2>2 DEF NextLetter
  <2> QED BY <1>1, <2>1, <2>2
<1> QED BY <1>2, <1>3

\* A sequence with one more element before it
LEMMA Prepended ==
    ASSUME NEW S, NEW c \in S, NEW word \in Seq(S)
    PROVE  /\ (<<c>> \o word)[1] = c
           /\ \A n \in 1 .. Len(word) : (<<c>> \o word)[n + 1] = word[n]
<1>1. <<c>> \in Seq(S) /\ Len(<<c>>) = 1
  OBVIOUS
<1>2. <<c>>[1] = c
  OBVIOUS
<1>3. Len(word) \in Nat
  OBVIOUS
<1>4. \A i \in 1 .. 1 + Len(word) : (<<c>> \o word)[i] = IF i <= 1 THEN <<c>>[i] ELSE word[i - 1]
  BY <1>1, ConcatProperties
<1>5. ASSUME NEW n \in 1 .. Len(word) PROVE (<<c>> \o word)[n + 1] = word[n]
  <2>1. PICK i \in 1 .. 1 + Len(word) : i = n + 1 /\ ~(i <= 1) /\ i - 1 = n
    BY <1>3
  <2>2. (<<c>> \o word)[i] = word[i - 1]
    BY <1>4, <2>1
  <2> QED BY <2>1, <2>2
<1>6. (<<c>> \o word)[1] = c
  <2>1. PICK i \in 1 .. 1 + Len(word) : i = 1
    BY <1>3
  <2>2. (<<c>> \o word)[i] = <<c>>[i]
    BY <1>4, <2>1
  <2> QED BY <1>2, <2>1, <2>2
<1> QED BY <1>5, <1>6

\* The window of an abbreviation reaches over it, and the sentence begins before it
LEMMA AbbreviationFound ==
    ASSUME Inv, Opens(start), copy < Size, AbbreviatedWord(copy)
    PROVE  AbbreviationBefore
<1>1. PICK word \in Abbreviations :
         /\ WellSpelt(word)
         /\ copy >= Len(word) + 2
         /\ SubSeq(text, copy - Len(word), copy) = <<" ">> \o word
         /\ At(copy - Len(word) - 2) \in Alnum
  BY DEF AbbreviatedWord
<1>2. word \in Seq(Chars) /\ Len(word) \in Nat /\ Len(word) <= 6
  BY TokenizerAssumption DEF Window
<1>3. /\ copy \in Nat /\ Size \in Nat /\ stop = copy /\ start \in Nat /\ start <= copy
      /\ text \in Seq(Chars) /\ Size = Len(text)
  BY DEF Inv, TypeOK, InStep, Size
<1>4. PICK L \in Nat : L = Len(word)
  BY <1>2
<1>5. PICK k \in Nat : k = copy - L - 1 /\ k >= 1
  <2>1. copy >= L + 2
    BY <1>1, <1>4
  <2>2. copy - L - 1 \in Nat /\ copy - L - 1 >= 1
    BY <1>3, <2>1
  <2> QED BY <2>2
<1>6. \A i \in k + 1 .. copy : text[i] \in Chars
  BY <1>3, <1>5
<1>7. /\ k + 1 \in Int /\ k + 2 \in Int /\ copy \in Int
      /\ \A i \in k + 2 .. copy : text[i] \in Chars
  BY <1>3, <1>6
<1>s. ASSUME NEW m \in Int, \A i \in m .. copy : text[i] \in Chars
      PROVE  /\ SubSeq(text, m, copy) \in Seq(Chars)
             /\ Len(SubSeq(text, m, copy)) = IF m <= copy THEN copy - m + 1 ELSE 0
             /\ \A i \in 1 .. copy - m + 1 : SubSeq(text, m, copy)[i] = text[m + i - 1]
  BY <1>7, <1>s, SubSeqProperties
<1>8. \A i \in 1 .. copy - (k + 1) + 1 : SubSeq(text, k + 1, copy)[i] = text[k + 1 + i - 1]
  BY <1>6, <1>7, <1>s
<1>9. /\ SubSeq(text, k + 2, copy) \in Seq(Chars)
      /\ Len(SubSeq(text, k + 2, copy)) = IF k + 2 <= copy THEN copy - (k + 2) + 1 ELSE 0
      /\ \A i \in 1 .. copy - (k + 2) + 1 : SubSeq(text, k + 2, copy)[i] = text[k + 2 + i - 1]
  BY <1>7, <1>s
<1>b. PICK c \in Chars : c = " "
  BY DEF Chars, Space
<1>10. /\ (<<c>> \o word)[1] = c
       /\ \A n \in 1 .. L : (<<c>> \o word)[n + 1] = word[n]
  BY <1>2, <1>4, Prepended
<1>11. SubSeq(text, k + 1, copy) = <<c>> \o word
  <2>1. copy - Len(word) = k + 1
    BY <1>3, <1>4, <1>5
  <2> QED BY <1>1, <1>b, <2>1
<1>12. text[k + 1] = " "
  <2>1. 1 \in 1 .. copy - (k + 1) + 1 /\ k + 1 + 1 - 1 = k + 1
    BY <1>3, <1>5
  <2> QED BY <1>8, <1>b, <1>10, <1>11, <2>1
<1>13. ASSUME NEW n \in 1 .. L PROVE text[k + 1 + n] = word[n]
  <2>1. n + 1 \in 1 .. copy - (k + 1) + 1 /\ k + 1 + (n + 1) - 1 = k + 1 + n
    BY <1>3, <1>5
  <2> QED BY <1>8, <1>10, <1>11, <2>1
<1>14. At(k) = " " /\ \A n \in 1 .. L : At(k + n) = word[n]
  <2>1. \A n \in 0 .. L : At(k + n) = text[k + n + 1]
    BY <1>3, <1>5 DEF At
  <2>2. At(k) = text[k + 1]
    BY <1>3, <1>5 DEF At
  <2>3. ASSUME NEW n \in 1 .. L PROVE At(k + n) = word[n]
    <3>1. n \in 0 .. L /\ k + n + 1 = k + 1 + n
      BY <1>5
    <3> QED BY <1>13, <2>1, <3>1
  <2> QED BY <1>12, <2>2, <2>3
<1>15. SubSeq(text, k + 2, stop) = word \o <<>>
  <2>1. Len(SubSeq(text, k + 2, copy)) = Len(word)
    BY <1>3, <1>4, <1>5, <1>9
  <2>2. ASSUME NEW i \in 1 .. Len(SubSeq(text, k + 2, copy))
        PROVE  SubSeq(text, k + 2, copy)[i] = word[i]
    <3>1. i \in 1 .. copy - (k + 2) + 1 /\ k + 2 + i - 1 = k + 1 + i /\ i \in 1 .. L
      BY <1>3, <1>4, <1>5, <2>1
    <3> QED BY <1>9, <1>13, <3>1
  <2>3. SubSeq(text, k + 2, copy) = word
    BY <1>2, <1>9, <2>1, <2>2, SeqEqual
  <2>4. word \o <<>> = word
    BY <1>2, ConcatEmptySeq
  <2> QED BY <1>3, <2>3, <2>4
<1>16. start <= k
  <2> SUFFICES ASSUME start > k PROVE FALSE
    BY <1>3
  <2>0. start # 0
    BY <1>3, <1>5
  <2>1. /\ start >= 3 /\ start \in k + 1 .. copy
        /\ \/ At(start - 1) \in EndsSentence /\ (At(start - 1) = "." => At(start) \notin Lower)
           \/ At(start - 1) = " " /\ At(start - 2) \in Space
    <3>1. start \in k + 1 .. copy
      BY <1>3, <1>5
    <3> QED BY <2>0, <3>1 DEF Opens
  <2>2. CASE start = k + 1
    <3>1. start - 1 = k /\ start - 2 = copy - Len(word) - 2
      BY <1>3, <1>4, <1>5, <2>2
    <3>2. At(start - 1) = " " /\ At(start - 2) \in Alnum
      BY <1>1, <1>14, <3>1
    <3> QED BY <2>1, <3>2, LetterFacts
  <2>3. CASE start > k + 1
    <3>1. PICK n \in 1 .. L : start = k + n + 1
      <4>1. k + 1 < start /\ start <= k + L + 1
        <5>1. start <= copy /\ copy = k + L + 1
          BY <1>3, <1>5
        <5> QED BY <2>3, <5>1
      <4>2. start - k - 1 \in 1 .. L /\ start = k + (start - k - 1) + 1
        BY <1>3, <4>1
      <4> QED BY <4>2
    <3>2. start - 1 = k + n /\ At(start - 1) = word[n]
      <4>1. start - 1 = k + n
        BY <3>1
      <4> QED BY <1>14, <4>1
    <3>3. CASE word[n] \in Alpha
      BY <2>1, <3>2, <3>3, LetterFacts
    <3>4. CASE word[n] = "." /\ n < Len(word) /\ word[n + 1] \in Lower
      <4>1. n + 1 \in 1 .. L /\ start = k + (n + 1)
        BY <1>4, <3>1, <3>4
      <4>2. At(start) \in Lower
        BY <1>14, <3>4, <4>1
      <4> QED BY <2>1, <3>2, <3>4, <4>2, LetterFacts
    <3> QED BY <1>1, <1>4, <3>3, <3>4 DEF WellSpelt
  <2>4. start = k + 1 \/ start > k + 1
    BY <1>3
  <2> QED BY <2>2, <2>3, <2>4
<1>17. k \in (IF stop - start >= Window THEN stop - Window ELSE start) .. stop - 1
  BY <1>2, <1>3, <1>4, <1>5, <1>16 DEF Window
<1> QED BY <1>14, <1>15, <1>17, LetterFacts DEF AbbreviationBefore

\* The scanner goes on at a period that joins
LEMMA JoinSeen ==
    ASSUME Inv, Opens(start), copy < Size,
           NEW j \in copy + 1 .. Size - 1, MustJoin(copy, j)
    PROVE  DotContinues
<1>1. j \in copy + 1 .. Size /\ NextLetter(copy + 1, j)
  BY NextAfterPeriod DEF MustJoin
<1>2. CASE At(j) \in Lower
  BY <1>1, <1>2, LetterFacts DEF DotContinues
<1>3. CASE ~StopwordAt(j) /\ AbbreviatedWord(copy)
  BY <1>1, <1>3, AbbreviationFound DEF DotContinues
<1> QED BY <1>2, <1>3 DEF MustJoin

\* and stops at one that cuts
LEMMA CutSeen ==
    ASSUME Inv, NEW j \in copy + 1 .. Size - 1, MustCut(copy, j)
    PROVE  ~DotContinues /\ ~Enclosed
<1>1. copy \in Nat /\ Size \in Nat
  BY DEF Inv, TypeOK, Size
<1>2. ~DotContinues
  BY NextAfterPeriod DEF DotContinues, MustCut
<1>3. At(copy + 1) \in Upper \cup {" "}
  <2>1. CASE j = copy + 1
    BY <2>1 DEF MustCut
  <2>2. CASE j # copy + 1
    <3>1. copy + 1 \in copy + 1 .. j - 1
      BY <1>1, <2>2
    <3> QED BY <3>1 DEF MustCut, PeriodBefore
  <2> QED BY <2>1, <2>2
<1>4. ~Enclosed
  BY <1>3, LetterFacts DEF Enclosed
<1> QED BY <1>2, <1>4

-----------------------------------------------------------------------------
(* The steps of the scanner, as far as the rules look at them. *)

\* Either the sentence goes on to e or one begins there, before which the last is saved.
\* More than one character is passed only over white space and formulas.  A period is not
\* passed over when the sentence has to end, nor an empty line
Moves(e) ==
    /\ copy' = e
    /\ \/ start' = start /\ ranges' = ranges
       \/ /\ start' = e /\ ranges' \in {ranges, Save(start, e - 1)}
          /\ Opens(e) /\ At(copy) \in EndsSentence
          /\ At(copy) = "." => ~DotContinues
    /\ \A p \in copy .. e - 1 : e > copy + 1 => At(p) \in Space \cup {"M"}
    /\ At(copy) = "." /\ ~DotContinues /\ ~Enclosed => start' = e
    /\ \A i \in 1 .. Size - 2 :
          EmptyLine(i) /\ copy <= i + 1 /\ i + 1 < e =>
              \/ Excused(i)
              \/ start' = e /\ \A n \in i + 2 .. e - 1 : At(n) \notin Alnum

\* One character is passed and the sentence goes on
LEMMA AdvanceMoves ==
    ASSUME Inv, Scan, copy' = copy + 1, start' = start, ranges' = ranges,
           At(copy) = "." => DotContinues \/ Enclosed,
           \A i \in 1 .. Size - 2 : EmptyLine(i) /\ i + 1 = copy => Excused(i)
    PROVE  \E e \in copy + 1 .. Size : Moves(e)
<1>1. copy \in Nat /\ Size \in Nat /\ copy < Size
  BY DEF Inv, TypeOK, Size, Scan
<1>2. PICK e \in copy + 1 .. Size : e = copy + 1
  BY <1>1
<1>3. ASSUME NEW i \in 1 .. Size - 2, EmptyLine(i), copy <= i + 1, i + 1 < e
      PROVE  Excused(i)
  BY <1>1, <1>2, <1>3
<1> QED BY <1>1, <1>2, <1>3 DEF Moves

\* The sentence ends under the cursor
LEMMA BreakMoves ==
    ASSUME Inv, Scan, Break(0), At(copy) \in EndsSentence, At(copy) = "." => ~DotContinues
    PROVE  \E e \in copy + 1 .. Size : Moves(e)
<1>1. copy \in Nat /\ copy >= 2 /\ Size \in Nat /\ copy < Size /\ stop = copy
  BY DEF Inv, TypeOK, InStep, Size, Scan
<1>2. PICK e \in copy + 1 .. Size : e = copy + 1
  BY <1>1
<1>3. copy' = e /\ start' = e
  BY <1>1, <1>2 DEF Break
<1>4. ranges' \in {ranges, Save(start, e - 1)}
  <2>1. stop + 0 = e - 1
    BY <1>1, <1>2
  <2> QED BY <2>1 DEF Break
<1>5. Opens(e)
  <2>1. e - 1 = copy /\ e >= 3
    BY <1>1, <1>2
  <2>2. ASSUME At(copy) = "." PROVE At(e) \notin Lower
    <3>1. ~DotContinues
      BY <2>2
    <3>2. ASSUME At(e) \in Lower PROVE NextLetter(copy + 1, e)
      <4>1. At(e) \notin Space
        BY <3>2, LetterFacts
      <4>2. e \in copy + 1 .. Size /\ \A k \in copy + 1 .. e - 1 : FALSE
        BY <1>1, <1>2
      <4> QED BY <4>1, <4>2 DEF NextLetter
    <3> QED BY <1>2, <3>1, <3>2, LetterFacts DEF DotContinues
  <2> QED BY <2>1, <2>2 DEF Opens
<1>6. ASSUME NEW i \in 1 .. Size - 2, copy <= i + 1, i + 1 < e
      PROVE  \A n \in i + 2 .. e - 1 : At(n) \notin Alnum
  BY <1>1, <1>2, <1>6
<1> QED BY <1>1, <1>2, <1>3, <1>4, <1>5, <1>6 DEF Moves

\* Around a formula no empty line ends a sentence
LEMMA SkipFormulaMoves ==
    ASSUME Inv, SkipFormula
    PROVE  \E e \in copy + 1 .. Size : Moves(e)
<1>1. /\ copy \in Nat /\ copy >= 2 /\ Size \in Nat /\ stop = copy /\ At(copy) = "\n"
      /\ "\n" \in EndsSentence /\ "\n" # "."
  BY DEF Inv, TypeOK, InStep, Size, SkipFormula, DoubleBreak, EndsSentence
<1>2. PICK e \in copy .. Size :
        /\ FormulaUntil(e)
        /\ copy' = e
        /\ stop' = stop + (e - copy)
        /\ IF ~content \/ At(e) \in Upper
           THEN /\ ranges' = IF content /\ stop' > start
                             THEN Save(start, stop' - 1) ELSE ranges
                /\ start' = stop'
                /\ content' = FALSE
           ELSE UNCHANGED <<start, content, ranges>>
  BY DEF SkipFormula
<1>3. PICK m \in copy .. Size, q \in copy .. Size :
         /\ NextLetter(copy, m) /\ At(m) = "M"
         /\ NextLetter(m + 1, q)
         /\ e \in m + 2 .. q
         /\ At(e - 1) = "\n"
  BY <1>2 DEF FormulaUntil
<1>4. e \in copy + 1 .. Size /\ copy < m
  <2>1. m # copy
    BY <1>1, <1>3
  <2> QED BY <1>1, <1>3, <2>1
<1>5. /\ \A p \in copy .. m - 1 : At(p) \in Space
      /\ \A p \in m + 1 .. q - 1 : At(p) \in Space
  BY <1>3 DEF NextLetter
<1>6. \A p \in copy .. e - 1 : At(p) \in Space \cup {"M"}
  <2> SUFFICES ASSUME NEW p \in copy .. e - 1 PROVE At(p) \in Space \cup {"M"}
    OBVIOUS
  <2>1. p \in copy .. m - 1 \/ p = m \/ p \in m + 1 .. q - 1
    BY <1>1, <1>3, <1>4
  <2> QED BY <1>3, <1>5, <2>1
<1>7. stop' = e
  BY <1>1, <1>2
<1>8. \/ start' = start /\ ranges' = ranges
      \/ start' = e /\ ranges' \in {ranges, Save(start, e - 1)}
  BY <1>2, <1>7
<1>9. Opens(e)
  <2>1. e >= 3
    BY <1>1, <1>4
  <2>2. At(e - 1) \in EndsSentence /\ At(e - 1) # "."
    BY <1>1, <1>3
  <2> QED BY <2>1, <2>2 DEF Opens
<1>10. ASSUME NEW i \in 1 .. Size - 2, EmptyLine(i), copy <= i + 1, i + 1 < e
       PROVE  Excused(i)
  <2>1. CASE i + 1 < m
    <3>1. m \in i + 2 .. Size
      BY <1>1, <1>3, <2>1
    <3>2. \A p \in i + 2 .. m - 1 : At(p) \in Space
      BY <1>1, <1>5, <1>10
    <3>3. NextLetter(i + 2, m)
      BY <1>3, <3>1, <3>2, LetterFacts DEF NextLetter
    <3> QED BY <1>3, <3>1, <3>3 DEF Excused
  <2>2. CASE i + 1 >= m
    <3>1. i + 1 # m /\ i # m
      BY <1>1, <1>3, <1>10 DEF EmptyLine
    <3>2. m \in 0 .. i
      BY <1>1, <1>3, <2>2, <3>1
    <3>3. ASSUME NEW p \in m + 1 .. i PROVE p \in m + 1 .. q - 1
      BY <1>1, <1>3, <1>10
    <3>4. \A p \in m + 1 .. i : At(p) \in Space
      BY <1>5, <3>3
    <3> QED BY <1>3, <3>2, <3>4 DEF Excused
  <2> QED BY <1>1, <2>1, <2>2
<1> QED BY <1>1, <1>2, <1>4, <1>6, <1>8, <1>9, <1>10 DEF Moves

\* Nothing but white space comes after a paragraph in its sentence
LEMMA ParagraphBreakMoves ==
    ASSUME Inv, ParagraphBreak
    PROVE  \E e \in copy + 1 .. Size : Moves(e)
<1>1. /\ copy \in Nat /\ copy >= 2 /\ Size \in Nat /\ stop = copy /\ At(copy) = "\n"
      /\ "\n" \in EndsSentence /\ "\n" # "." /\ "\n" \in Space
  BY DEF Inv, TypeOK, InStep, Size, ParagraphBreak, DoubleBreak, EndsSentence, Space
<1>2. PICK e \in copy + 1 .. Size : NextLetter(copy + 1, e) /\ Break(e - copy - 1)
  BY DEF ParagraphBreak
<1>3. stop + (e - copy - 1) + 1 = e /\ copy + (e - copy - 1) + 1 = e /\ stop + (e - copy - 1) = e - 1
  BY <1>1
<1>4. copy' = e /\ start' = e /\ ranges' \in {ranges, Save(start, e - 1)}
  BY <1>2, <1>3 DEF Break
<1>5. \A p \in copy .. e - 1 : At(p) \in Space
  <2> SUFFICES ASSUME NEW p \in copy .. e - 1 PROVE At(p) \in Space
    OBVIOUS
  <2>1. p = copy \/ p \in copy + 1 .. e - 1
    BY <1>1
  <2> QED BY <1>1, <1>2, <2>1 DEF NextLetter
<1>6. Opens(e)
  <2>1. e >= 3 /\ e - 1 \in copy .. e - 1
    BY <1>1
  <2>2. CASE At(e - 1) = "\n"
    BY <1>1, <2>1, <2>2 DEF Opens
  <2>3. CASE At(e - 1) = " "
    <3>1. e - 1 # copy
      BY <1>1, <2>3
    <3>2. e - 2 \in copy .. e - 1
      BY <1>1, <3>1
    <3> QED BY <1>5, <2>1, <2>3, <3>2 DEF Opens
  <2> QED BY <1>5, <2>1, <2>2, <2>3 DEF Space
<1>7. ASSUME NEW i \in 1 .. Size - 2, copy <= i + 1, i + 1 < e
      PROVE  \A n \in i + 2 .. e - 1 : At(n) \notin Alnum
  <2> SUFFICES ASSUME NEW n \in i + 2 .. e - 1 PROVE At(n) \notin Alnum
    OBVIOUS
  <2>1. n \in copy .. e - 1
    BY <1>1, <1>7
  <2> QED BY <1>5, <2>1, LetterFacts
<1> QED BY <1>1, <1>4, <1>5, <1>6, <1>7 DEF Moves

LEMMA IterationMoves ==
    ASSUME Inv, Iteration
    PROVE  \E e \in copy + 1 .. Size : Moves(e)
<1>0. /\ copy \in Nat /\ stop = copy /\ Size \in Nat
      /\ \A c \in {".", "?", "!", "\n"} : c \in EndsSentence
  BY DEF Inv, TypeOK, InStep, Size, EndsSentence
<1>a. ASSUME NEW i \in 1 .. Size - 2, EmptyLine(i), i + 1 = copy
      PROVE  At(copy) = "\n" /\ At(copy - 1) = "\n"
  <2>1. i = copy - 1
    BY <1>0, <1>a
  <2> QED BY <1>a, <2>1 DEF EmptyLine
<1>1. CASE PeriodInSentence
  <2>1. At(copy) = "." /\ DotContinues /\ Scan /\ Advance /\ "." # "\n"
    BY <1>1 DEF PeriodInSentence
  <2> QED BY <1>a, <2>1, AdvanceMoves DEF Advance
<1>2. CASE EnclosedMark
  <2>1. At(copy) # "\n" /\ Enclosed /\ Scan /\ Advance
    BY <1>2 DEF EnclosedMark
  <2> QED BY <1>a, <2>1, AdvanceMoves DEF Advance
<1>3. CASE EndMark
  BY <1>0, <1>3, BreakMoves DEF EndMark
<1>4. CASE SkipFormula
  BY <1>4, SkipFormulaMoves
<1>5. CASE ParagraphBreak
  BY <1>5, ParagraphBreakMoves
<1>6. CASE ParagraphGoesOn
  <2>1. At(copy) # "." /\ Scan /\ Advance /\ StopwordNext(Lower)
    BY <1>6 DEF ParagraphGoesOn, DoubleBreak
  <2>2. PICK j \in copy + 1 .. Size : NextLetter(copy + 1, j) /\ At(j) \in Lower /\ StopwordAt(j)
    BY <2>1 DEF StopwordNext
  <2>3. ASSUME NEW i \in 1 .. Size - 2, EmptyLine(i), i + 1 = copy PROVE Excused(i)
    <3>1. i + 2 = copy + 1
      BY <2>3
    <3> QED BY <2>2, <3>1 DEF Excused
  <2> QED BY <2>1, <2>3, AdvanceMoves DEF Advance
<1>7. CASE LineBreak
  <2>1. At(copy) = "\n" /\ At(copy - 1) # "\n" /\ Scan /\ "\n" # "."
    BY <1>7 DEF LineBreak
  <2>2. CASE StopwordNext(Upper)
    BY <1>0, <1>7, <2>1, <2>2, BreakMoves DEF LineBreak
  <2>3. CASE ~StopwordNext(Upper)
    BY <1>7, <1>a, <2>1, <2>3, AdvanceMoves DEF LineBreak, Advance
  <2> QED BY <2>2, <2>3
<1>8. CASE Character
  <2>1. At(copy) # "." /\ At(copy) # "\n" /\ Scan /\ copy' = copy + 1 /\ start' = start /\ ranges' = ranges
    BY <1>8 DEF Character
  <2> QED BY <1>a, <2>1, AdvanceMoves
<1> QED BY <1>1, <1>2, <1>3, <1>4, <1>5, <1>6, <1>7, <1>8 DEF Iteration

-----------------------------------------------------------------------------
(* The rules hold at every step. *)

\* What was saved before a step stays, and what is saved begins where the sentence began
LEMMA SavedRanges ==
    ASSUME TypeOK, NEW to \in Nat, ranges' \in {ranges, Save(start, to)},
           NEW k \in 1 .. Len(ranges')
    PROVE  \/ k \in 1 .. Len(ranges) /\ ranges'[k] = ranges[k]
           \/ ranges'[k].start = start /\ ranges'[k].end = to
<1>0. ranges \in Seq(Ranges) /\ start \in Nat
  BY DEF TypeOK
<1>1. CASE ranges' = ranges
  BY <1>1
<1>2. CASE ranges' = Save(start, to)
  <2>1. /\ Len(ranges') = Len(ranges) + 1
        /\ \A n \in 1 .. Len(ranges) : ranges'[n] = ranges[n]
        /\ ranges'[Len(ranges')].start = start
        /\ ranges'[Len(ranges')].end = to
    BY <1>0, <1>2, SaveFacts
  <2>2. k \in 1 .. Len(ranges) \/ k = Len(ranges')
    BY <1>0, <2>1
  <2> QED BY <2>1, <2>2
<1> QED BY <1>1, <1>2

LEMMA IterationRules ==
    ASSUME Inv, RulesInv, Iteration
    PROVE  RulesInv'
<1>0. /\ pc = "scan" /\ pc' = pc /\ text' = text /\ copy < Size
      /\ copy \in Nat /\ copy >= 2 /\ Size \in Nat /\ start \in Nat /\ start <= copy /\ TypeOK
  BY DEF Inv, TypeOK, InStep, Size, Iteration, PeriodInSentence, EnclosedMark, EndMark,
         SkipFormula, ParagraphBreak, ParagraphGoesOn, LineBreak, Character, Scan
<1>1. PICK e \in copy + 1 .. Size : Moves(e)
  BY IterationMoves
<1>2. /\ copy' = e
      /\ \/ start' = start /\ ranges' = ranges
         \/ /\ start' = e /\ ranges' \in {ranges, Save(start, e - 1)}
            /\ Opens(e) /\ At(copy) \in EndsSentence
            /\ At(copy) = "." => ~DotContinues
  BY <1>1 DEF Moves
<1>3. \A p \in copy .. e - 1 : e > copy + 1 => At(p) \in Space \cup {"M"}
  BY <1>1 DEF Moves
<1>4. ASSUME NEW k \in 1 .. Len(ranges')
      PROVE  \/ k \in 1 .. Len(ranges) /\ ranges'[k] = ranges[k]
             \/ ranges'[k].start = start /\ ranges'[k].end = e - 1 /\ start' = e
  <2>1. CASE ranges' = ranges
    BY <2>1
  <2>2. CASE ranges' # ranges
    <3>1. e - 1 \in Nat /\ ranges' \in {ranges, Save(start, e - 1)} /\ start' = e
      BY <1>0, <1>2, <2>2
    <3> QED BY <1>0, <3>1, SavedRanges
  <2> QED BY <2>1, <2>2
<1>5. ASSUME NEW i \in copy .. e - 1, At(i) = "."
      PROVE  i = copy /\ e = copy + 1
  <2>1. e = copy + 1
    <3>1. ~(e > copy + 1)
      BY <1>3, <1>5, LetterFacts
    <3> QED BY <1>0, <3>1
  <2> QED BY <1>0, <2>1
<1>6. StartInv'
  BY <1>0, <1>2, SameText DEF RulesInv, StartInv
<1>7. ASSUME NEW i \in 2 .. Size - 1, NEW j \in i + 1 .. Size - 1, MustJoin(i, j)
      PROVE  ~(i < start' /\ start' <= j) /\ Joined(i, j)'
  <2>0. Joined(i, j) /\ ~(i < start /\ start <= j)
    BY <1>0, <1>7 DEF RulesInv, PeriodInv
  <2>1. /\ At(i) = "." /\ \A p \in i + 1 .. j - 1 : At(p) = " "
    BY <1>7 DEF MustJoin, PeriodBefore
  <2>2. ~(i < start' /\ start' <= j)
    <3> SUFFICES ASSUME start' = e, i < e, e <= j, At(copy) \in EndsSentence,
                        At(copy) = "." => ~DotContinues
                 PROVE  FALSE
      BY <1>2, <2>0
    <3>1. CASE copy > i
      <4>1. copy \in i + 1 .. j - 1
        BY <1>0, <3>1
      <4> QED BY <2>1, <4>1, LetterFacts
    <3>2. CASE copy <= i
      <4>1. i \in copy .. e - 1
        BY <1>0, <3>2
      <4>2. i = copy
        BY <1>5, <2>1, <4>1
      <4>3. DotContinues
        BY <1>0, <1>7, <4>2, JoinSeen DEF RulesInv, StartInv
      <4> QED BY <2>1, <4>2, <4>3
    <3> QED BY <1>0, <3>1, <3>2
  <2>3. Joined(i, j)'
    <3> SUFFICES ASSUME NEW k \in 1 .. Len(ranges')
                 PROVE  ~(i < ranges'[k].start /\ ranges'[k].start <= j)
      BY DEF Joined
    <3> QED BY <1>4, <2>0 DEF Joined
  <2> QED BY <2>2, <2>3
<1>8. ASSUME NEW i \in 2 .. Size - 1, NEW j \in i + 1 .. Size - 1, MustCut(i, j)
      PROVE  /\ \A k \in 1 .. Len(ranges') : ~(ranges'[k].start <= i /\ j <= ranges'[k].end)
             /\ i < copy' => i < start'
  <2>0. /\ \A k \in 1 .. Len(ranges) : ~(ranges[k].start <= i /\ j <= ranges[k].end)
        /\ i < copy => i < start
        /\ At(i) = "."
    BY <1>0, <1>8 DEF RulesInv, PeriodInv, MustCut, PeriodBefore
  <2>1. ASSUME NEW k \in 1 .. Len(ranges')
        PROVE  ~(ranges'[k].start <= i /\ j <= ranges'[k].end)
    <3>1. CASE k \in 1 .. Len(ranges) /\ ranges'[k] = ranges[k]
      BY <2>0, <3>1
    <3>2. CASE ranges'[k].start = start /\ ranges'[k].end = e - 1
      <4> SUFFICES ASSUME start <= i, j <= e - 1 PROVE FALSE
        BY <3>2
      <4>1. i \in copy .. e - 1 /\ i + 1 <= e - 1
        BY <1>0, <2>0
      <4>2. i = copy /\ e = copy + 1
        BY <1>5, <2>0, <4>1
      <4> QED BY <1>0, <4>1, <4>2
    <3> QED BY <1>4, <3>1, <3>2
  <2>2. ASSUME i < e PROVE i < start'
    <3>1. CASE i < copy
      BY <1>0, <1>2, <2>0, <2>2, <3>1
    <3>2. CASE i >= copy
      <4>1. i \in copy .. e - 1
        BY <1>0, <2>2, <3>2
      <4>2. i = copy
        BY <1>5, <2>0, <4>1
      <4>3. ~DotContinues /\ ~Enclosed
        BY <1>8, <4>2, CutSeen
      <4>4. start' = e
        BY <1>1, <2>0, <4>2, <4>3 DEF Moves
      <4> QED BY <2>2, <4>4
    <3> QED BY <1>0, <3>1, <3>2
  <2> QED BY <1>2, <2>1, <2>2
<1>9. PeriodInv'
  BY <1>0, <1>7, <1>8, SameText DEF PeriodInv
<1>10. ASSUME NEW i \in 1 .. Size - 2, EmptyLine(i), ~Excused(i)
       PROVE  /\ \A k \in 1 .. Len(ranges') : ~Around(ranges'[k], i)
              /\ i + 1 < copy' => i < start'
  <2>0. /\ \A k \in 1 .. Len(ranges) : ~Around(ranges[k], i)
        /\ i + 1 < copy => i < start
    BY <1>0, <1>10 DEF RulesInv, LineInv
  <2>1. ASSUME i + 1 >= copy, i + 1 < e
        PROVE  start' = e /\ \A n \in i + 2 .. e - 1 : At(n) \notin Alnum
    BY <1>0, <1>1, <1>10, <2>1 DEF Moves
  <2>2. ASSUME i + 1 < e PROVE i < start'
    BY <1>0, <1>2, <2>0, <2>1, <2>2
  <2>3. ASSUME NEW k \in 1 .. Len(ranges') PROVE ~Around(ranges'[k], i)
    <3>1. CASE k \in 1 .. Len(ranges) /\ ranges'[k] = ranges[k]
      BY <2>0, <3>1
    <3>2. CASE ranges'[k].start = start /\ ranges'[k].end = e - 1
      <4> SUFFICES ASSUME start < i, i + 1 < e - 1,
                          NEW n \in i + 2 .. e - 1, At(n) \in Alnum
                   PROVE  FALSE
        BY <3>2 DEF Around
      <4>1. i + 1 >= copy /\ i + 1 < e
        BY <1>0, <2>0
      <4> QED BY <2>1, <4>1
    <3> QED BY <1>4, <3>1, <3>2
  <2> QED BY <1>2, <2>2, <2>3
<1>11. LineInv'
  <2> SUFFICES ASSUME NEW i \in 1 .. Size - 2, EmptyLine(i), ~Excused(i)
               PROVE  /\ \A k \in 1 .. Len(ranges') : ~Around(ranges[k], i)'
                      /\ i + 1 < copy' => i < start'
    BY <1>0, SameText DEF LineInv
  <2>1. \A n : At(n)' = At(n)
    BY <1>0, SameText
  <2> QED BY <1>10, <2>1 DEF Around
<1> QED BY <1>6, <1>9, <1>11 DEF RulesInv

LEMMA TrailingRules ==
    ASSUME Inv, RulesInv, Trailing
    PROVE  RulesInv'
<1>0. /\ text' = text /\ pc' = "trim" /\ pc = "scan" /\ TypeOK
      /\ Size \in Nat /\ copy = Size /\ stop = Size /\ start \in Nat
  BY DEF Inv, TypeOK, InStep, Size, Trailing
<1>1. ranges' \in {ranges, Save(start, Size)}
  BY <1>0 DEF Trailing
<1>2. ASSUME NEW k \in 1 .. Len(ranges')
      PROVE  \/ k \in 1 .. Len(ranges) /\ ranges'[k] = ranges[k]
             \/ ranges'[k].start = start /\ ranges'[k].end = Size
  BY <1>0, <1>1, SavedRanges
<1>3. ASSUME NEW i \in 2 .. Size - 1, NEW j \in i + 1 .. Size - 1, MustJoin(i, j)
      PROVE  Joined(i, j)'
  <2>1. Joined(i, j) /\ ~(i < start /\ start <= j)
    BY <1>0, <1>3 DEF RulesInv, PeriodInv
  <2> SUFFICES ASSUME NEW k \in 1 .. Len(ranges')
               PROVE  ~(i < ranges'[k].start /\ ranges'[k].start <= j)
    BY DEF Joined
  <2> QED BY <1>2, <2>1 DEF Joined
<1>4. ASSUME NEW i \in 2 .. Size - 1, NEW j \in i + 1 .. Size - 1, MustCut(i, j),
             NEW k \in 1 .. Len(ranges')
      PROVE  ~(ranges'[k].start <= i /\ j <= ranges'[k].end)
  <2>1. i < copy
    BY <1>0
  <2>2. /\ \A n \in 1 .. Len(ranges) : ~(ranges[n].start <= i /\ j <= ranges[n].end)
        /\ i < start
    BY <1>0, <1>4, <2>1 DEF RulesInv, PeriodInv
  <2>3. ~(start <= i)
    BY <1>0, <2>2
  <2> QED BY <1>2, <2>2, <2>3
<1>5. ASSUME NEW i \in 1 .. Size - 2, EmptyLine(i), ~Excused(i),
             NEW k \in 1 .. Len(ranges')
      PROVE  ~Around(ranges'[k], i)
  <2>1. i + 1 < copy
    BY <1>0
  <2>2. (\A n \in 1 .. Len(ranges) : ~Around(ranges[n], i)) /\ i < start
    BY <1>0, <1>5, <2>1 DEF RulesInv, LineInv
  <2>3. ~(start < i)
    BY <1>0, <2>2
  <2>4. CASE k \in 1 .. Len(ranges) /\ ranges'[k] = ranges[k]
    BY <2>2, <2>4
  <2>5. CASE ranges'[k].start = start
    BY <2>3, <2>5 DEF Around
  <2> QED BY <1>2, <2>4, <2>5
<1>6. PeriodInv' /\ StartInv'
  BY <1>0, <1>3, <1>4, SameText DEF PeriodInv, StartInv
<1>7. LineInv'
  <2> SUFFICES ASSUME NEW i \in 1 .. Size - 2, EmptyLine(i), ~Excused(i)
               PROVE  \A k \in 1 .. Len(ranges') : ~Around(ranges[k], i)'
    BY <1>0, SameText DEF LineInv
  <2>1. \A n : At(n)' = At(n)
    BY <1>0, SameText
  <2> QED BY <1>5, <2>1 DEF Around
<1> QED BY <1>6, <1>7 DEF RulesInv

\* Trimming moves no start past a character that is not white
LEMMA TrimStopsAt ==
    ASSUME NEW r \in Ranges, Size \in Nat, NEW i \in r.start .. Size, At(i) \notin Space
    PROVE  TrimRange(r).start <= i
<1> DEFINE S == {k \in r.start .. Size : At(k) \notin Space}
<1>1. r.start \in Nat
  BY DEF Ranges
<1>2. S \in SUBSET Nat /\ i \in S
  BY <1>1
<1>3. Min(S) <= i
  BY <1>2, LeastExists
<1> QED BY <1>3 DEF TrimRange

LEMMA TrimRules ==
    ASSUME Inv, RulesInv, Trim
    PROVE  RulesInv'
<1>0. /\ text' = text /\ pc' = "done" /\ Size \in Nat /\ ranges \in Seq(Ranges)
      /\ DOMAIN ranges = 1 .. Len(ranges)
      /\ ranges' = [n \in 1 .. Len(ranges) |-> TrimRange(ranges[n])]
  BY DEF Inv, TypeOK, Size, Trim
<1>1. Len(ranges') = Len(ranges)
  BY TrimStep
<1>2. ASSUME NEW k \in 1 .. Len(ranges')
      PROVE  /\ ranges[k] \in Ranges /\ ranges'[k] \in Ranges
             /\ ranges[k].start <= ranges'[k].start /\ ranges'[k].end <= ranges[k].end
             /\ \A i \in ranges[k].start .. Size : At(i) \notin Space => ranges'[k].start <= i
  <2>1. k \in 1 .. Len(ranges) /\ ranges'[k] = TrimRange(ranges[k])
    BY <1>0, <1>1
  <2>2. ranges[k] \in Ranges /\ ranges[k].end <= Size /\ HasAlnum(ranges[k].start, ranges[k].end)
    BY <1>0, <2>1 DEF Inv, Disjoint, RangesHaveAlnum
  <2>3. /\ TrimRange(ranges[k]) \in Ranges
        /\ ranges[k].start <= TrimRange(ranges[k]).start
        /\ TrimRange(ranges[k]).end <= ranges[k].end
    BY <1>0, <2>2, TrimRangeFacts
  <2>4. \A i \in ranges[k].start .. Size : At(i) \notin Space => TrimRange(ranges[k]).start <= i
    BY <1>0, <2>2, TrimStopsAt
  <2> QED BY <2>1, <2>2, <2>3, <2>4
<1>3. ASSUME NEW i \in 2 .. Size - 1, NEW j \in i + 1 .. Size - 1, MustJoin(i, j),
             NEW k \in 1 .. Len(ranges')
      PROVE  ~(i < ranges'[k].start /\ ranges'[k].start <= j)
  <2>1. Joined(i, j) /\ At(i) \notin Space
    BY <1>3, LetterFacts DEF RulesInv, PeriodInv, MustJoin, PeriodBefore
  <2>2. ~(i < ranges[k].start /\ ranges[k].start <= j)
    BY <1>1, <2>1 DEF Joined
  <2>3. ranges[k].start \in Nat /\ ranges'[k].start \in Nat /\ ranges[k].start <= ranges'[k].start
    BY <1>2 DEF Ranges
  <2>4. CASE ranges[k].start <= i
    <3>1. i \in ranges[k].start .. Size
      BY <1>0, <2>3, <2>4
    <3>2. ranges'[k].start <= i
      BY <1>2, <2>1, <3>1
    <3> QED BY <2>3, <3>2
  <2> QED BY <1>0, <2>2, <2>3, <2>4
<1>4. ASSUME NEW i \in 2 .. Size - 1, NEW j \in i + 1 .. Size - 1, MustCut(i, j),
             NEW k \in 1 .. Len(ranges')
      PROVE  ~(ranges'[k].start <= i /\ j <= ranges'[k].end)
  <2>1. ~(ranges[k].start <= i /\ j <= ranges[k].end)
    BY <1>1, <1>4 DEF RulesInv, PeriodInv
  <2>2. /\ ranges[k].start \in Nat /\ ranges'[k].start \in Nat
        /\ ranges[k].end \in Nat /\ ranges'[k].end \in Nat
        /\ ranges[k].start <= ranges'[k].start /\ ranges'[k].end <= ranges[k].end
    BY <1>2 DEF Ranges
  <2> QED BY <2>1, <2>2
<1>5. ASSUME NEW i \in 1 .. Size - 2, EmptyLine(i), ~Excused(i),
             NEW k \in 1 .. Len(ranges')
      PROVE  ~Around(ranges'[k], i)
  <2>1. ~Around(ranges[k], i)
    BY <1>1, <1>5 DEF RulesInv, LineInv
  <2>2. /\ ranges[k].start \in Nat /\ ranges'[k].start \in Nat
        /\ ranges[k].end \in Nat /\ ranges'[k].end \in Nat
        /\ ranges[k].start <= ranges'[k].start /\ ranges'[k].end <= ranges[k].end
    BY <1>2 DEF Ranges
  <2> SUFFICES ASSUME ranges'[k].start < i, i + 1 < ranges'[k].end,
                      NEW n \in i + 2 .. ranges'[k].end, At(n) \in Alnum
               PROVE  FALSE
    BY DEF Around
  <2>3. ranges[k].start < i /\ i + 1 < ranges[k].end /\ n \in i + 2 .. ranges[k].end
    BY <2>2
  <2> QED BY <2>1, <2>3 DEF Around
<1>6. PeriodInv' /\ StartInv'
  <2>1. PeriodInv'
    BY <1>0, <1>3, <1>4, SameText DEF PeriodInv, Joined
  <2> QED BY <1>0, <2>1 DEF StartInv
<1>7. LineInv'
  <2> SUFFICES ASSUME NEW i \in 1 .. Size - 2, EmptyLine(i), ~Excused(i)
               PROVE  \A k \in 1 .. Len(ranges') : ~Around(ranges[k], i)'
    BY <1>0, SameText DEF LineInv
  <2>1. \A n : At(n)' = At(n)
    BY <1>0, SameText
  <2> QED BY <1>5, <2>1 DEF Around
<1> QED BY <1>6, <1>7 DEF RulesInv

LEMMA InitRules == Init => RulesInv
<1> SUFFICES ASSUME Init PROVE RulesInv
  OBVIOUS
<1>1. copy = 2 /\ start = 0 /\ ranges = <<>> /\ Len(ranges) = 0
  BY DEF Init
<1>2. \A i \in 2 .. Size - 1 : ~(i < start) /\ ~(i < copy)
  BY <1>1
<1>3. \A i \in 1 .. Size - 2 : ~(i + 1 < copy)
  BY <1>1
<1>4. \A k \in 1 .. Len(ranges) : FALSE
  BY <1>1
<1>5. StartInv
  BY <1>1 DEF StartInv, Opens
<1>6. PeriodInv
  BY <1>2, <1>4 DEF PeriodInv, Joined
<1>7. LineInv
  BY <1>3, <1>4 DEF LineInv
<1> QED BY <1>5, <1>6, <1>7 DEF RulesInv

LEMMA StillRules ==
    ASSUME RulesInv, UNCHANGED vars
    PROVE  RulesInv'
<1>1. /\ text' = text /\ copy' = copy /\ start' = start /\ ranges' = ranges /\ pc' = pc
  BY DEF vars
<1>2. PeriodInv' /\ StartInv'
  BY <1>1, SameText DEF RulesInv, PeriodInv, StartInv, Joined
<1>3. LineInv'
  <2>1. \A n : At(n)' = At(n)
    BY <1>1, SameText
  <2> QED BY <1>1, <2>1, SameText DEF RulesInv, LineInv, Around
<1> QED BY <1>2, <1>3 DEF RulesInv

\* In the end no sentence begins between a period and the small letter behind it, nor
\* behind an abbreviation unless a capital stopword follows, and none goes on past a period
\* before a capital stopword, or past an empty line without a reason
THEOREM SentencesBreakRight == Spec => []BreakRules
<1>1. ASSUME Inv, RulesInv, [Next]_vars PROVE RulesInv'
  BY <1>1, IterationRules, TrailingRules, TrimRules, StillRules DEF Next, Terminated
<1>2. ASSUME RulesInv PROVE BreakRules
  <2>1. PeriodRules
    BY <1>2 DEF RulesInv, PeriodInv, PeriodRules, MustJoin, MustCut
  <2>2. ParagraphRule
    BY <1>2 DEF RulesInv, LineInv, ParagraphRule, EmptyLine, Around, Excused
  <2> QED BY <2>1, <2>2 DEF BreakRules
<1>3. Init => RulesInv
  BY InitRules
<1> QED BY <1>1, <1>2, <1>3, Invariance, PTL DEF Spec
=============================================================================
