---------------------------- MODULE MCCorpusTasks ----------------------------
(* Instances of CorpusTasks for TLC. *)
EXTENDS CorpusTasks

EOS == "endofsentence"

MCWords == {"the", "set", "sets", "settings", "setting", "matrix", "nnumber", ",", EOS}
MCNormalized == [w \in MCWords |-> IF w = "matrix" THEN "nnumber" ELSE w]
MCMorpha ==
    [w \in MCWords |-> CASE w \in {"sets", "setting"} -> "set" [] w = "settings" -> "setting"
                         [] OTHER -> w]
MCContent == MCWords \ {"the", ",", EOS}
MCAlnum == MCWords \ {","}

P(section, definition, sentences) ==
    [section |-> section, definition |-> definition, short |-> FALSE, sentences |-> sentences]
Short == [section |-> TRUE, definition |-> FALSE, short |-> TRUE, sentences |-> <<>>]

File(name, doc) == [type |-> "file", name |-> name, doc |-> doc]

MCNames == {"a", "b", "c", "d", "e"}

\* A directory; a file without paragraphs, or one that cannot be parsed; one whose
\* words do not count; in a section and not; the same n-grams in a sentence, over its
\* end, around a comma, in two paragraphs; a paragraph too short.  Two have one name
MCEntries ==
    {[type |-> "directory", name |-> "a", doc |-> <<>>],
     File("a", <<>>),
     File("b", <<P(FALSE, TRUE, <<<<",">>, <<"the">>>>)>>),
     File("c", <<P(TRUE, TRUE, <<<<"the", "set">>, <<"set", "matrix">>>>), P(FALSE, FALSE, <<<<"sets">>>>)>>),
     File("d", <<P(FALSE, FALSE, <<<<"the", "settings", ",", "the">>>>),
                P(FALSE, TRUE, <<<<"the", "set", "set">>>>)>>),
     File("d", <<P(TRUE, FALSE, <<<<"set", "set", "set", "nnumber">>>>),
                P(TRUE, FALSE, <<<<"set", "the", "set">>>>)>>),
     File("e", <<Short, P(TRUE, FALSE, <<<<"matrix", ",", "set">>>>)>>)}

\* Up to three entries
MCCorpora == UNION {[1 .. n -> MCEntries] : n \in 0 .. 3}
=============================================================================
