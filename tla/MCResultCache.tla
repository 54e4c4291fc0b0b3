---------------------------- MODULE MCResultCache ---------------------------
(***************************************************************************)
(* Values of the constants of ResultCache for TLC.                          *)
(***************************************************************************)
EXTENDS ResultCache

CONSTANTS s1, r1

MCSearchKeys == {s1}
MCResultKeys == {r1}
MCTtl == [k \in {s1, r1} |-> 1]

=============================================================================
