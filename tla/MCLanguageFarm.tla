--------------------------- MODULE MCLanguageFarm ---------------------------
(* Instances of LanguageFarm for TLC. *)
EXTENDS LanguageFarm

CONSTANTS a, b, c, d

MCKind(ka, kb, kc, kd) ==
    [x \in {a, b, c, d} |->
        CASE x = a -> ka [] x = b -> kb [] x = c -> kc [] x = d -> kd]

\* Nothing that kills a slave; entries that are no task; documents that kill
\* their slave after it has answered; and with and without an answer
MCCollections ==
    {MCKind("foreign", "foreign", "english", "english"),
     MCKind("foreign", "english", "dir", "longname"),
     MCKind("foreign", "unparsable", "unparsable", "dir"),
     MCKind("english", "unparsable", "unparsable", "rootless"),
     MCKind("foreign", "foreign", "foreign", "unreadable")}
=============================================================================
