--------------------------- MODULE MCClientSession ---------------------------
(***************************************************************************)
(* ClientSession for TLC.  Accounts, tabs and the slots of calls are        *)
(* interchangeable: the initial state, every action and every property is   *)
(* the same for all of them, and no property is about the future.           *)
(***************************************************************************)
EXTENDS ClientSession, TLC

ClientSymmetry == Permutations(Accounts) \cup Permutations(Tabs) \cup Permutations(Calls)
=============================================================================
