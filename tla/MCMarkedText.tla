---------------------------- MODULE MCMarkedText ----------------------------
(* Instances of MarkedText for TLC. *)
EXTENDS MarkedText

MCWords == {"the", "of", "set", "sets", "map", "7", Number, MathFormula, MathExpression,
            "mathformula"}
MCStopwords == {"the", "of"}
MCMorpha == [w \in MCWords |-> CASE w = "sets" -> "set" [] w = MathFormula -> "mathformula" [] OTHER -> w]

\* Nodes without their ids: words, a formula, anchors with no word, one and more
MCWord(w) == [type |-> "word", text |-> <<w>>]
MCMath == [type |-> "math", text |-> <<>>]
MCAnchor(words) == [type |-> "anchor", text |-> words]

MCPlain == {MCWord("the"), MCWord("set"), MCWord("map")}
MCMixed == {MCWord("of"), MCWord("sets"), MCMath, MCAnchor(<<"7">>), MCAnchor(<<>>),
            MCAnchor(<<"the", "set", "map">>)}

Sequences(S, n) == UNION {[1 .. k -> S] : k \in 0 .. n}

MCIds == {ToString(<<s, i>>) : s \in 1 .. 2, i \in 1 .. 6}

\* Words and formulas have ids of their own, anchors have none
MCNamed(d) ==
    [s \in DOMAIN d |-> [i \in DOMAIN d[s] |->
        [id |-> IF d[s][i].type = "anchor" THEN NoId ELSE ToString(<<s, i>>)] @@ d[s][i]]]

\* The nodes of the last sentence have no ids
MCUnnamed(p, q) ==
    [MCNamed(<<p, q>>) EXCEPT ![2] = [i \in DOMAIN q |-> [id |-> NoId] @@ q[i]]]

\* One sentence of up to six words; one of up to four nodes of all sorts; two shorter ones, also
\* with a second one without ids
MCDocuments ==
    {MCUnnamed(p, q) : p \in Sequences(MCPlain, 1), q \in Sequences(MCMixed, 2)} \cup
    {MCNamed(d) : d \in {<<p>> : p \in Sequences(MCPlain, 6)}
                    \cup {<<p>> : p \in Sequences(MCMixed, 4)}
                    \cup {<<p, q>> : p \in Sequences(MCPlain, 2), q \in Sequences(MCMixed, 2)}}
=============================================================================
