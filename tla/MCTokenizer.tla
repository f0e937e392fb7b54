---------------------------- MODULE MCTokenizer ----------------------------
(* Instances of Tokenizer for TLC. *)
EXTENDS Tokenizer

\* All texts over an alphabet: the scanner looks at the first two characters only
\* to see what precedes the third, so a few prefixes do
MCFamily(prefixes, alphabet, n) ==
    {p \o t : p \in prefixes, t \in UNION {[1 .. k -> alphabet] : k \in 0 .. n}}

\* Periods, initials, a stopword with a capital and the abbreviation "Ia"
MCPeriods == MCFamily({<<"x", "X">>, <<"X", " ">>, <<" ", "I">>},
                      {".", " ", "I", "a", "X"}, 5)

\* Formulas between paragraphs and stopwords of either case
MCFormulas == MCFamily({<<"x", "x">>}, {"\n", "M", "a", "x", "I"}, 6)

\* White space of both sorts, and marks
MCBlanks == MCFamily({<<"x", "x">>, <<"x", "\n">>}, {"\n", " ", "M", "x", "?"}, 5)

\* Enclosed marks, digits
MCMarks == MCFamily({<<"x", "x">>, <<"(", "x">>}, {"?", ".", "(", ")", "0", "\n"}, 4)

MCTexts == MCPeriods \cup MCFormulas \cup MCBlanks \cup MCMarks

\* "a" and "i" are stopwords, "Ia" (Iowa) and "I.a" (as I.e) are abbreviations
MCStopwords == {<<c>> : c \in {"a", "A", "i", "I"}}
MCAbbreviations == {<<"I", "a">>, <<"I", ".", "a">>}
=============================================================================
