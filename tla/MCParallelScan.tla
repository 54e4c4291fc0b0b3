--------------------------- MODULE MCParallelScan ---------------------------
(***************************************************************************)
(* Values of the constants of ParallelScan for TLC: one scan that scrapes   *)
(* two pages, and one with queries enough to wear a proxy out.              *)
(***************************************************************************)
EXTENDS ParallelScan, TLC

CONSTANTS c1, c2

MCScans == {c1, c2}
MCNQueries == (c1 :> 1) @@ (c2 :> 4)
MCNPages == (c1 :> 2) @@ (c2 :> 0)

=============================================================================
