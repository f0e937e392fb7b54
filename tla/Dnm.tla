-------------------------------- MODULE Dnm --------------------------------
(***************************************************************************)
(* src/src/llamapun/dnmlib.c: the Document Narrative Model.  create_DNM    *)
(* copies the text of a node into a plain text and writes into the DOM     *)
(* which part of it every element stands for; mark_sentence puts the nodes *)
(* of a part of the text into an element of their own.  The same document  *)
(* is given to create_DNM again and again, as a whole and paragraph by     *)
(* paragraph, so the DOM keeps what earlier calls have left in it.         *)
(***************************************************************************)
EXTENDS Integers, Sequences, SequencesExt, FiniteSetsExt

CONSTANTS
    Documents,     \* documents as the parser leaves them
    Parameters,    \* the flags create_DNM is called with
    Ascii,         \* what iconv makes of a character: a sequence, possibly empty
    InitialText,   \* characters allocated for a plain text at first; 4096
    MaxDnms,       \* bound: calls of create_DNM
    MaxMarks       \* bound: calls of mark_sentence

\* Parameters that occur in the tasks: the tags of formulas, citations and tables
\* are either replaced ("normalize") or skipped
ASSUME DnmAssumption ==
    /\ \A P \in Parameters : {"normalize", "skip"} \cap P # {}
    /\ InitialText \in Nat \ {0}

VARIABLES
    original,   \* the document as it was parsed
    dom,        \* the document as it is
    normalized, \* unicode_normalize_dom was called
    dnm,        \* the latest DNM: its root (0 or a paragraph), parameters, plain text
                \* without its terminator, and the characters allocated for it
    dnms,       \* how often create_DNM was called
    marked,     \* the ranges mark_sentence has returned 0 for since then
    ret         \* what the latest mark_sentence came to

vars == <<original, dom, normalized, dnm, dnms, marked, ret>>

-----------------------------------------------------------------------------
(* Nodes of the DOM, as values. *)

Element(tag, class, kids) ==
    [tag |-> tag, class |-> class, text |-> <<>>, attrs |-> <<>>, kids |-> kids]

TextNode(text) ==
    [tag |-> "text", class |-> {}, text |-> text, attrs |-> <<>>, kids |-> <<>>]

\* xmlNewProp: a new attribute goes to the end, whatever is there; text has none
NewProp(node, name, value) ==
    IF node.tag = "text" THEN node
    ELSE [node EXCEPT !.attrs = Append(@, [name |-> name, value |-> value])]

\* Mutant: the first attribute of the name counts
AttrValue_First(node, name) ==
    LET at == {i \in 1 .. Len(node.attrs) : node.attrs[i].name = name}
    IN  IF at = {} THEN 0 ELSE node.attrs[Min(at)].value

\* get_range_of_node goes through all attributes: the last of a name counts
AttrValue(node, name) ==
    LET at == {i \in 1 .. Len(node.attrs) : node.attrs[i].name = name}
    IN  IF at = {} THEN 0 ELSE node.attrs[Max(at)].value

From(node) == AttrValue(node, "dnm_from")
To(node)   == AttrValue(node, "dnm_to")

IsWrapper(node) == node.tag = "span" /\ "dnm_wrapper" \in node.class

Wrapper(kids) == Element("span", {"dnm_wrapper"}, kids)

\* The paths to the paragraphs below a node, in the order of the document
RECURSIVE ParagraphPaths(_)
ParagraphPaths(node) ==
    FlattenSeq([i \in DOMAIN node.kids |->
        LET kid  == node.kids[i]
            deep == ParagraphPaths(kid)
        IN  (IF kid.tag = "p" THEN <<<<i>>>> ELSE <<>>)
               \o [k \in DOMAIN deep |-> <<i>> \o deep[k]]])

\* Where the k-th paragraph is in a document; 0 is for its root
PathTo(k, doc) == IF k = 0 THEN <<>> ELSE ParagraphPaths(doc)[k]

RECURSIVE NodeAt(_, _)
NodeAt(node, path) ==
    IF path = <<>> THEN node ELSE NodeAt(node.kids[Head(path)], Tail(path))

RECURSIVE Replaced(_, _, _)
Replaced(node, path, by) ==
    IF path = <<>> THEN by
    ELSE [node EXCEPT !.kids[Head(path)] = Replaced(@, Tail(path), by)]

-----------------------------------------------------------------------------
(* create_DNM. *)

\* Once the loop over the children has come to a text and wrapped it, the text has
\* no next sibling any more and the loop ends: the rest stays as it is
RECURSIVE WrapText(_)
WrapText(node) ==
    LET texts == {i \in DOMAIN node.kids : node.kids[i].tag = "text"}
        stop  == IF Len(node.kids) > 1 /\ texts # {} THEN Min(texts)
                 ELSE Len(node.kids) + 1
    IN  [node EXCEPT !.kids =
            [i \in DOMAIN node.kids |->
                CASE i < stop -> WrapText(node.kids[i])
                  [] i = stop -> Wrapper(<<node.kids[i]>>)
                  [] i > stop -> node.kids[i]]]

\* " MathFormula ", " CiteExpression ", " TableStructure "
Token(c) == <<" ", c, " ">>

IsNote(node) == node.class \cap {"ltx_note_mark", "ltx_note_outer"} # {}

\* What stands for the node in the plain text whatever its children are
OwnText(node, P) ==
    CASE node.tag = "math" /\ "normalize" \in P -> Token("M")
      [] node.tag = "cite" /\ "normalize" \in P -> Token("C")
      [] node.tag = "table" /\ "normalize" \in P ->
            IF node.class \cap {"ltx_equation", "ltx_equationgroup"} # {}
            THEN Token("M")
            ELSE IF "tabletokens" \in P THEN Token("T") ELSE <<>>
      [] node.tag = "text" -> node.text
      [] OTHER -> <<>>

\* Are the children of the node part of the plain text?
Descends(node, P) ==
    /\ node.tag \notin {"math", "cite", "table", "head", "text"}
    /\ ~("ignorenotes" \in P /\ IsNote(node))

\* Mutant: the array is grown when the index is behind its end
CopyIntoPlaintext_TooLate(string, acc) ==
    FoldLeft(LAMBDA a, c :
                LET size == IF Len(a.plain) > a.allocated
                            THEN 2 * a.allocated ELSE a.allocated
                IN  [plain |-> Append(a.plain, c), allocated |-> size,
                     fits |-> a.fits /\ Len(a.plain) < size],
             acc, string)

\* copy_into_plaintext; fits: every character was written inside the array
CopyIntoPlaintext(string, acc) ==
    FoldLeft(LAMBDA a, c :
                LET size == IF Len(a.plain) >= a.allocated
                            THEN 2 * a.allocated ELSE a.allocated
                IN  [plain |-> Append(a.plain, c), allocated |-> size,
                     fits |-> a.fits /\ Len(a.plain) < size],
             acc, string)

\* Mutant: the terminator is written wherever the text ends
Terminated_NoResize(acc) == [acc EXCEPT !.fits = @ /\ Len(acc.plain) < acc.allocated]

\* The terminator gets a place of its own if the text has filled the array; then the
\* array is cut behind it, so that Len(plain) is its last index
Terminated(acc) ==
    LET size == IF Len(acc.plain) >= acc.allocated THEN acc.allocated + 1
                ELSE acc.allocated
    IN  [acc EXCEPT !.allocated = Len(acc.plain) + 1, !.fits = @ /\ Len(acc.plain) < size]

\* parse_dom_into_dnm: the annotated node and the text so far
RECURSIVE ParseDom(_, _, _)
ParseDom(node, acc, P) ==
    LET opened == IF "nooffsets" \in P THEN node
                  ELSE NewProp(node, "dnm_from", Len(acc.plain))
        own    == CopyIntoPlaintext(OwnText(node, P), acc)
        inner  == IF Descends(node, P)
                  THEN FoldLeft(LAMBDA r, kid :
                                   LET p == ParseDom(kid, r.acc, P)
                                   IN  [kids |-> Append(r.kids, p.node), acc |-> p.acc],
                                [kids |-> <<>>, acc |-> own], node.kids)
                  ELSE [kids |-> node.kids, acc |-> own]
        closed == [opened EXCEPT !.kids = inner.kids]
    IN  [node |-> IF "nooffsets" \in P THEN closed
                  ELSE NewProp(closed, "dnm_to", Len(inner.acc.plain)),
         acc  |-> inner.acc]

Init ==
    /\ original \in Documents
    /\ dom = original
    /\ normalized = FALSE
    /\ dnm = [root |-> 0, params |-> {"nooffsets"}, plain |-> <<>>,
              allocated |-> 1, fits |-> TRUE]
    /\ dnms = 0
    /\ marked = <<>>
    /\ ret = "none"

\* norm_preprocess and iconv
Transliterated(text) ==
    FlattenSeq([i \in DOMAIN text |-> IF text[i] \in DOMAIN Ascii THEN Ascii[text[i]]
                                      ELSE <<text[i]>>])

\* Mutant: the loop goes on from the text that was taken out
UnicodeNormalized_FirstText(node) ==
    LET texts == {i \in DOMAIN node.kids : node.kids[i].tag = "text"}
    IN  IF texts = {} THEN node
        ELSE [node EXCEPT !.kids = SubSeq(@, 1, Min(texts))]

\* unicode_normalize_dom: every text is transliterated, and one that has siblings
\* put into a span, which is no wrapper
RECURSIVE UnicodeNormalized(_)
UnicodeNormalized(node) ==
    LET Kid(kid) ==
            IF kid.tag # "text" THEN UnicodeNormalized(kid)
            ELSE LET text == TextNode(Transliterated(kid.text))
                 IN  IF Len(node.kids) = 1 THEN text ELSE Element("span", {}, <<text>>)
    IN  [node EXCEPT !.kids = [i \in DOMAIN @ |-> Kid(@[i])]]

\* The tasks normalize a document when they have read it, or not at all
NormalizeUnicode ==
    /\ dnms = 0 /\ ~normalized
    /\ normalized' = TRUE
    /\ dom' = UnicodeNormalized(dom)
    /\ UNCHANGED <<original, dnm, dnms, marked, ret>>

\* create_DNM of the document or of one of its paragraphs
CreateDnm(k, P) ==
    /\ dnms < MaxDnms
    /\ LET path == PathTo(k, dom)
           node == NodeAt(dom, path)
           wrap == IF "nooffsets" \in P THEN node ELSE WrapText(node)
           p    == ParseDom(wrap, [plain |-> <<>>, allocated |-> InitialText, fits |-> TRUE], P)
           done == Terminated(p.acc)
       IN  /\ dom' = Replaced(dom, path, p.node)
           /\ dnm' = [root |-> k, params |-> P, plain |-> done.plain,
                      allocated |-> done.allocated, fits |-> done.fits]
    /\ dnms' = dnms + 1
    /\ marked' = <<>>
    /\ ret' = "none"
    /\ UNCHANGED <<original, normalized>>

-----------------------------------------------------------------------------
(* Finding nodes. *)

\* get_node_from_offset, as the path from n down to the node: the first child
\* around the offset, and on from there
RECURSIVE NodeFromOffset_Closed(_, _)
NodeFromOffset_Closed(n, offset) ==
    LET around == {i \in DOMAIN n.kids : From(n.kids[i]) <= offset /\ To(n.kids[i]) >= offset}
    IN  IF around = {} THEN <<>>
        ELSE <<Min(around)>> \o NodeFromOffset_Closed(n.kids[Min(around)], offset)

RECURSIVE NodeFromOffset(_, _)
NodeFromOffset(n, offset) ==
    LET around == {i \in DOMAIN n.kids : From(n.kids[i]) <= offset /\ To(n.kids[i]) > offset}
    IN  IF around = {} THEN <<>>
        ELSE <<Min(around)>> \o NodeFromOffset(n.kids[Min(around)], offset)

\* What a read and a write behind the plain text come to: nothing that can be relied on
Undefined == <<"undefined">>

\* dnm_node_plaintext puts a NUL behind the character at range.end, for a time, and
\* copies what is before it; it returns NULL (here: nothing) for a node without offsets
NodePlaintext(node) ==
    LET cut == To(node) + 1
    IN  CASE To(node) < From(node) \/ To(node) = 0 \/ To(node) > dnm.allocated -> <<>>
          [] OTHER -> IF cut < dnm.allocated THEN SubSeq(dnm.plain, From(node) + 1, cut)
                      ELSE Undefined

-----------------------------------------------------------------------------
(* mark_sentence. *)

\* Mutant: the character at the cut is in neither half
Halves_LostCharacter(node, cut) ==
    LET text == node.kids[1].text
        n    == cut - From(node)
        half(t, from, to) ==
            NewProp(NewProp(Wrapper(<<TextNode(t)>>), "dnm_from", from), "dnm_to", to)
    IN  <<half(SubSeq(text, 1, n), From(node), cut),
          half(SubSeq(text, n + 2, Len(text)), cut, To(node))>>

\* A text wrapper is cut in two at an offset
Halves(node, cut) ==
    LET text == node.kids[1].text
        n    == cut - From(node)
        half(t, from, to) ==
            NewProp(NewProp(Wrapper(<<TextNode(t)>>), "dnm_from", from), "dnm_to", to)
    IN  <<half(SubSeq(text, 1, n), From(node), cut),
          half(SubSeq(text, n + 1, Len(text)), cut, To(node))>>

\* kids with the two halves of kid i in its place
CutKids(kids, i, offset) ==
    SubSeq(kids, 1, i - 1) \o Halves(kids[i], offset) \o SubSeq(kids, i + 1, Len(kids))

\* The sentence gets dnm_from and, unlike all other nodes, dnm_end
Sentence(kids, s, e) ==
    NewProp(NewProp(Element("span", {"ltx_sentence"}, kids), "dnm_from", s), "dnm_end", e)

Result(kids, r) == [kids |-> kids, ret |-> r]

\* Mutant: the old node goes before the start node, and the node before that away
UndoCut_OldFirst(kids, i, old) ==
    LET back == InsertAt(kids, i, old)
    IN  RemoveAt(RemoveAt(back, i + 1), i)

\* Mutant: the first half stays
UndoCut_HalfLeft(kids, i, old) ==
    LET back == InsertAt(kids, i + 1, old)
    IN  RemoveAt(back, i)

\* The old node, taken out when it was cut, goes behind the start node, kid i; then the
\* node before that is taken out, and then the start node
UndoCut(kids, i, old) ==
    LET back == InsertAt(kids, i + 1, old)
    IN  RemoveAt(RemoveAt(back, i - 1), i - 1)

\* The second half: the start node is kid i, and old the node it was cut off, or
\* nothing.  If no child reaches the end the cut is undone; if one does but
\* is no text, it is not.  If the end is to be cut off the start node itself, that
\* is freed with the old nodes and then moved into the sentence.
MarkFrom(kids, i, old, s, e) ==
    LET ends == {j \in i .. Len(kids) : To(kids[j]) >= e}
        j    == Min(ends)
        done == IF To(kids[j]) = e THEN kids ELSE CutKids(kids, j, e)
    IN  IF ends = {}
        THEN Result(IF old = <<>> THEN kids ELSE UndoCut(kids, i, Head(old)), "noend")
        ELSE IF To(kids[j]) # e /\ ~IsWrapper(kids[j])
        THEN Result(kids, "unsplittable")
        ELSE IF To(kids[j]) # e /\ j = i THEN Result(kids, "undefined")
        ELSE Result(SubSeq(done, 1, i - 1)
                       \o <<Sentence(SubSeq(done, i, j), s, e)>>
                       \o SubSeq(done, j + 1, Len(done)), "ok")

\* Mutant: a child that ends where the sentence starts is taken for its first
MarkKids_EndInclusive(kids, s, e) ==
    LET starts == {i \in DOMAIN kids : To(kids[i]) >= s}
        i      == Min(starts)
    IN  IF starts = {} THEN Result(kids, "nostart")
        ELSE IF From(kids[i]) = s THEN MarkFrom(kids, i, <<>>, s, e)
        ELSE IF IsWrapper(kids[i])
        THEN MarkFrom(CutKids(kids, i, s), i + 1, <<kids[i]>>, s, e)
        ELSE Result(kids, "nostart")

\* Mutant: the sentence starts with the first half
MarkKids_FirstHalf(kids, s, e) ==
    LET starts == {i \in DOMAIN kids : To(kids[i]) > s}
        i      == Min(starts)
    IN  IF starts = {} THEN Result(kids, "nostart")
        ELSE IF From(kids[i]) = s THEN MarkFrom(kids, i, <<>>, s, e)
        ELSE IF IsWrapper(kids[i])
        THEN MarkFrom(CutKids(kids, i, s), i, <<kids[i]>>, s, e)
        ELSE Result(kids, "nostart")

\* The first half: look for the child the sentence starts in
MarkKids(kids, s, e) ==
    LET starts == {i \in DOMAIN kids : To(kids[i]) > s}
        i      == Min(starts)
    IN  IF starts = {} THEN Result(kids, "nostart")
        ELSE IF From(kids[i]) = s THEN MarkFrom(kids, i, <<>>, s, e)
        ELSE IF IsWrapper(kids[i])
        THEN MarkFrom(CutKids(kids, i, s), i + 1, <<kids[i]>>, s, e)
        ELSE Result(kids, "nostart")

\* Mutant: get_lowest_surrounding_node does not go into a wrapper, which has no
\* elements
RECURSIVE MarkIn_AboveWrapper(_, _, _)
MarkIn_AboveWrapper(node, s, e) ==
    LET around == {i \in DOMAIN node.kids :
                      /\ From(node.kids[i]) <= s /\ To(node.kids[i]) >= e
                      /\ ~IsWrapper(node.kids[i])}
    IN  IF around = {}
        THEN LET m == MarkKids(node.kids, s, e)
             IN  [node |-> [node EXCEPT !.kids = m.kids], ret |-> m.ret]
        ELSE LET i == Min(around)
                 m == MarkIn_AboveWrapper(node.kids[i], s, e)
             IN  [node |-> [node EXCEPT !.kids[i] = m.node], ret |-> m.ret]

\* get_lowest_surrounding_node and the marking of its children
RECURSIVE MarkIn(_, _, _)
MarkIn(node, s, e) ==
    LET around == {i \in DOMAIN node.kids :
                      From(node.kids[i]) <= s /\ To(node.kids[i]) >= e}
    IN  IF around = {}
        THEN LET m == MarkKids(node.kids, s, e)
             IN  [node |-> [node EXCEPT !.kids = m.kids], ret |-> m.ret]
        ELSE LET i == Min(around)
                 m == MarkIn(node.kids[i], s, e)
             IN  [node |-> [node EXCEPT !.kids[i] = m.node], ret |-> m.ret]

\* The ranges are those of tokenize_sentences, which are disjoint
MarkSentence(s, e) ==
    /\ dnms > 0 /\ "nooffsets" \notin dnm.params
    /\ Len(marked) < MaxMarks
    /\ s < e /\ e <= Len(dnm.plain)
    /\ \A i \in 1 .. Len(marked) : e <= marked[i][1] \/ marked[i][2] <= s
    /\ LET path == PathTo(dnm.root, dom)
           m    == MarkIn(NodeAt(dom, path), s, e)
       IN  /\ dom' = Replaced(dom, path, m.node)
           /\ ret' = m.ret
           /\ marked' = IF m.ret = "ok" THEN Append(marked, <<s, e>>) ELSE marked
    /\ UNCHANGED <<original, normalized, dnm, dnms>>

Next ==
    \/ NormalizeUnicode
    \/ \E k \in 0 .. Len(ParagraphPaths(dom)), P \in Parameters : CreateDnm(k, P)
    \/ \E s, e \in 0 .. Len(dnm.plain) : MarkSentence(s, e)

Spec == Init /\ [][Next]_vars

-----------------------------------------------------------------------------
(* Properties. *)

\* The text of a node, by its definition
RECURSIVE Render(_, _)
Render(node, P) ==
    IF Descends(node, P)
    THEN FlattenSeq([i \in DOMAIN node.kids |-> Render(node.kids[i], P)])
    ELSE OwnText(node, P)

\* The nodes below (and with) a node that are part of the plain text
RECURSIVE Parts(_, _)
Parts(node, P) ==
    {node} \cup IF Descends(node, P)
                THEN UNION {Parts(node.kids[i], P) : i \in DOMAIN node.kids} ELSE {}

HasOffsets(node) == \E i \in 1 .. Len(node.attrs) : node.attrs[i].name = "dnm_to"

Current == NodeAt(dom, PathTo(dnm.root, dom))

\* Text stands in text nodes, which have neither attributes nor children, and a
\* wrapper has one of them
RECURSIVE IsTree(_)
IsTree(node) ==
    /\ node.tag = "text" => (normalized \/ node.text # <<>>) /\ node.attrs = <<>> /\ node.kids = <<>>
    /\ node.tag # "text" => node.text = <<>>
    /\ IsWrapper(node) => Len(node.kids) = 1 /\ node.kids[1].tag = "text"
    /\ \A i \in DOMAIN node.kids : IsTree(node.kids[i])

\* The DOM stays a tree of that form; no step leaves an empty text behind, but for
\* texts of which nothing is left in ASCII, and no character of a plain text, nor its
\* terminator, is written behind the array, at any size.  mark_sentence never cuts one node for
\* both ends of a sentence ("undefined"): get_lowest_surrounding_node has gone into
\* a node that holds both
TypeOK ==
    /\ original \in Documents
    /\ IsTree(dom)
    /\ dnms \in 0 .. MaxDnms
    /\ Len(marked) \in 0 .. MaxMarks
    /\ normalized \in BOOLEAN
    /\ ret \in {"none", "ok", "nostart", "noend", "unsplittable"}
    /\ dnm.params \in Parameters \cup {{"nooffsets"}}
    /\ dnm.fits

Parsed == NodeAt(original, PathTo(dnm.root, original))

ParsedText ==
    LET text == Render(Parsed, dnm.params)
    IN  IF normalized THEN Transliterated(text) ELSE text

\* A document has one plain text: whatever the Unicode normalizer, earlier DNMs and
\* marked or half-marked sentences have left in the DOM, a node gives the text of
\* the parsed document, transliterated if the DOM was (the tasks read each
\* paragraph twice and rely on it)
PlaintextStable ==
    dnms > 0 => /\ dnm.plain = ParsedText
                /\ Render(Current, dnm.params) = dnm.plain

\* Where a node ends; a sentence has no other offsets than its own until the next DNM
EndOf(node) == IF HasOffsets(node) THEN To(node) ELSE AttrValue(node, "dnm_end")

\* The path to the lowest node around an offset, by its definition; it is cut off above
\* a sentence of this DNM, which has no dnm_to
RECURSIVE LowestPath(_, _, _)
LowestPath(node, offset, P) ==
    LET inside == {i \in DOMAIN node.kids :
                      /\ Descends(node, P)
                      /\ From(node.kids[i]) <= offset /\ offset < EndOf(node.kids[i])}
        i == CHOOSE k \in inside : TRUE
    IN  IF inside = {} \/ ~HasOffsets(node.kids[i]) THEN <<>>
        ELSE <<i>> \o LowestPath(node.kids[i], offset, P)

\* The offsets of a node are those of the latest DNM and its text is what stands
\* between them, although the DOM holds the offsets of earlier DNMs as well and
\* although sentences have been cut.  get_node_from_offset finds the lowest node around
\* an offset, or what is above the marked sentence around it: no two children are around
\* the same offset, none that was left out of this DNM is taken for one by the offsets
\* of an earlier, and none beside a sentence for what is in it
OffsetsRight ==
    dnms > 0 /\ "nooffsets" \notin dnm.params =>
        /\ \A node \in Parts(Current, dnm.params) :
              HasOffsets(node) =>
                LET text == Render(node, dnm.params)
                IN  /\ From(node) <= To(node) /\ To(node) <= Len(dnm.plain)
                    /\ SubSeq(dnm.plain, From(node) + 1, To(node)) = text
        /\ \A offset \in 0 .. Len(dnm.plain) - 1 :
              NodeFromOffset(Current, offset) = LowestPath(Current, offset, dnm.params)

\* A sentence that was marked holds the text of its range, nothing more or less,
\* and stays so while others are marked
MarkedRight ==
    \A k \in 1 .. Len(marked) :
        \E node \in Parts(Current, dnm.params) :
            /\ "ltx_sentence" \in node.class
            /\ From(node) = marked[k][1]
            /\ AttrValue(node, "dnm_end") = marked[k][2]
            /\ Render(node, dnm.params) =
                  SubSeq(dnm.plain, marked[k][1] + 1, marked[k][2])

\* "undo the start node splitting": a sentence for which no end is found leaves
\* the document as it was
UndoneMark == [][ret' \in {"nostart", "noend"} /\ dnms' = dnms => dom' = dom]_vars

\* "returns the plaintext of a node" (dnm_node_plaintext): of every node with text, neither
\* more nor less; of a text that has its element to itself the element does
NodePlaintextRight ==
    dnms > 0 /\ "nooffsets" \notin dnm.params =>
        \A node \in Parts(Current, dnm.params) : \A i \in DOMAIN node.kids :
            LET kid  == node.kids[i]
                text == Render(kid, dnm.params)
            IN  \/ ~Descends(node, dnm.params) \/ text = <<>>
                \/ kid.tag = "text" /\ Len(node.kids) = 1
                \/ NodePlaintext(kid) = text
=============================================================================
