------------------------------ MODULE Detector ------------------------------
(***************************************************************************)
(* src/src/tasks/language_detector.c, the detector in one process, and     *)
(* what the farm of LanguageFarm promises to be: the documents of a        *)
(* directory are looked at one after the other, in any order, each once; a *)
(* line is written about some of them; the program ends when there are no  *)
(* more.  It may also stop earlier, at a document it cannot work with.     *)
(* Which entries deserve a line is a parameter: this program prints those  *)
(* in another language, the farm also logs those it cannot parse and those *)
(* whose name is too long for its messages.                                *)
(***************************************************************************)
EXTENDS Integers, Sequences

CONSTANTS
    Entries,   \* what ftw visits
    Skipped,   \* the kinds of entries that are not looked at
    Reported   \* the kinds of entries a line is written about

VARIABLES
    kind,      \* the kind of every entry; it does not change
    todo,      \* documents nothing is known about
    printed,   \* the documents a line was written about, in order
    over       \* main has returned

vars == <<kind, todo, printed, over>>

Documents == {e \in Entries : kind[e] \notin Skipped}

Init ==
    /\ todo = Documents
    /\ printed = <<>>
    /\ over = FALSE

\* parse: the line is printf'ed if the text is in another language; read_document
\* returns NULL for some, about which this program writes nothing
Detect(e) ==
    /\ ~over /\ e \in todo
    /\ todo' = todo \ {e}
    /\ printed' = IF kind[e] \in Reported THEN Append(printed, e) ELSE printed
    /\ UNCHANGED <<kind, over>>

Return ==
    /\ ~over /\ todo = {}
    /\ over' = TRUE
    /\ UNCHANGED <<kind, todo, printed>>

Next == (\E e \in Entries : Detect(e)) \/ Return

Spec == Init /\ [][Next]_vars

-----------------------------------------------------------------------------

PrintedFiles == {printed[i] : i \in 1 .. Len(printed)}

\* No line is written twice or about a document that deserves none, and when main has
\* returned there is one about every document that does
LogExact ==
    /\ \A i \in 1 .. Len(printed) : printed[i] \in Documents /\ kind[printed[i]] \in Reported
    /\ \A i, j \in 1 .. Len(printed) : printed[i] = printed[j] => i = j
    /\ over => \A e \in Documents : kind[e] \in Reported => e \in PrintedFiles
=============================================================================
