----------------------------- MODULE MCPrograms -----------------------------
(* Instances of Programs for TLC. *)
EXTENDS Programs

CONSTANTS a, b, c

MCCollections == [Files -> Kinds]
=============================================================================
