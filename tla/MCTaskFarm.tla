----------------------------- MODULE MCTaskFarm -----------------------------
(* Instances of TaskFarm for TLC. *)
EXTENDS TaskFarm

CONSTANTS a, b, c, d, e

\* Two files with rows, one without, a directory and a name that is too long
MCMixed == [x \in {a, b, c, d, e} |->
               CASE x \in {a, b} -> "text" [] x = c -> "blank"
                 [] x = d -> "dir" [] x = e -> "longname"]

\* The same, with a file that may be gone when its slave opens it
MCFleeting == [MCMixed EXCEPT ![b] = "fleeting"]

\* Three files with rows
MCIdle == [x \in {a, b, c} |-> "text"]

MCAllRanks == 0 .. NP - 1
=============================================================================
