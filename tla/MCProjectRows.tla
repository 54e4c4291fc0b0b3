--------------------------- MODULE MCProjectRows ---------------------------
(* Values of the constants of ProjectRows for TLC. *)
EXTENDS ProjectRows, TLC

\* Members, calls and keys of a dictionary are each alike.
MCSymmetry == Permutations(Members) \cup Permutations(Calls) \cup Permutations(Keys)
=============================================================================
