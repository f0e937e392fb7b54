------------------------------- MODULE MCDnm -------------------------------
(* Instances of Dnm for TLC. *)
EXTENDS Dnm

E(tag, kids)    == Element(tag, {}, kids)
C(class, kids)  == Element("span", {class}, kids)
T(c)            == TextNode(<<c>>)
TT(c, d)        == TextNode(<<c, d>>)

\* Mixed content; text that is alone in its element; two paragraphs
MCMixed ==
    E("div", <<E("p", <<TT("a", "b"), E("em", <<TT("c", "d")>>), TT("e", "f")>>),
               T("n"),
               E("p", <<T("g")>>)>>)

\* A formula, a note and a citation between texts
MCInline ==
    E("div", <<E("p", <<T("a"), E("math", <<T("x")>>), T("b"),
                        C("ltx_note_mark", <<T("1")>>),
                        E("cite", <<T("y")>>)>>)>>)

\* A head, an equation, a table, elements within elements
MCNested ==
    E("div", <<E("head", <<T("h")>>),
               E("p", <<E("em", <<T("a"), E("b", <<T("b")>>)>>), T("c")>>),
               Element("table", {"ltx_equation"}, <<T("q")>>),
               E("table", <<T("r")>>)>>)

\* Enough for dnm_node_plaintext
MCMixedOnly == {MCMixed}

MCDocuments == {MCMixed, MCInline, MCNested}

\* One character has no counterpart in ASCII, one has two
MCAscii == [c \in {"n", "f"} |-> IF c = "n" THEN <<>> ELSE <<"f", "f">>]

\* What the language check, the features and the n-grams pass, and table tokens
MCParameters ==
    {{"skip"}, {"skip", "ignorenotes"}, {"normalize", "ignorenotes", "tabletokens"},
     {"normalize", "ignorenotes", "nooffsets"}}
=============================================================================
