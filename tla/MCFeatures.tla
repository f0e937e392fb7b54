----------------------------- MODULE MCFeatures -----------------------------
(* Instances of Features for TLC. *)
EXTENDS Features

EOS == "endofsentence"

MCWords == {"let", "the", "set", "sets", "matrix", "matrices", "seven", "nnumber", "odd", "rare", ",", EOS}
MCNormalized == [w \in MCWords |-> IF w \in {"matrix", "seven"} THEN "nnumber" ELSE w]
MCMorpha == [w \in MCWords |-> CASE w = "sets" -> "set" [] w = "matrices" -> "matrix" [] OTHER -> w]
MCContent == MCWords \ {"the", ",", EOS}
MCAlnum == MCWords \ {","}

\* Two scores are equal, one is 0, one very small, two are between the limits, one
\* above; one word has none.  There are as many bins as MaxBins but for "odd"
MCIdf == <<<<"matrix", 16>>, <<"the", 1>>, <<"set", 16>>, <<"nnumber", 22>>, <<"rare", 24>>,
           <<"let", 0>>, <<"odd", 23>>>>

MCGrams == << <<<<"set">>, <<"the">>, <<"matrix">>>>,
              <<<<"the", "set">>, <<"set", "set">>, <<"set", "matrix">>>>,
              <<<<"the", "set", "set">>, <<"set", "the", "set">>, <<"set", "set", "matrix">>>> >>

P(section, definition, sentences) ==
    [section |-> section, definition |-> definition, short |-> FALSE, sentences |-> sentences]
Short == [section |-> TRUE, definition |-> FALSE, short |-> TRUE, sentences |-> <<>>]

\* No paragraph; one without a word that counts; in a section and not; longer ones
MCDocuments ==
    {<<>>,
     <<P(FALSE, FALSE, <<<<"rare">>, <<",">>>>)>>,
     <<P(TRUE, TRUE, <<<<"let", "the", "set">>, <<"matrix">>>>), P(FALSE, FALSE, <<<<"matrices", "rare">>>>)>>,
     <<P(FALSE, FALSE, <<<<"sets", "the", "sets">>>>), P(FALSE, TRUE, <<<<"seven", ",", "set">>>>)>>,
     <<P(TRUE, FALSE, <<<<"the", "set", "sets", "matrices">>, <<"set">>>>),
       P(TRUE, FALSE, <<<<"set", "the", "set", "matrices">>>>)>>,
     <<P(TRUE, FALSE, <<<<"matrix", "seven", "seven">>>>), P(TRUE, TRUE, <<<<"rare", "rare">>>>),
       P(TRUE, TRUE, <<<<"set", "set", "set", ",", "set">>>>)>>,
     <<Short, P(TRUE, FALSE, <<<<"matrices", "matrices", "the">>>>), P(FALSE, FALSE, <<<<"set">>>>)>>}

\* So many words that "the", of very small score, weighs next to nothing
MCLong == <<P(TRUE, TRUE, <<<<"the", "set", "let">>, [i \in 1 .. 84 |-> "rare"]>>)>>

\* A word whose bin is behind the array in the tasks that give it one
MCOdd == <<P(TRUE, FALSE, <<<<"set">>>>), P(TRUE, FALSE, <<<<"set", "odd">>>>)>>

MCCollections ==
    {<<d>> : d \in MCDocuments} \cup {<<d, e>> : d, e \in MCDocuments}
        \cup {<<MCLong>>} \cup {<<d, MCOdd>> : d \in MCDocuments} \cup {<<MCOdd, MCOdd>>}
=============================================================================
