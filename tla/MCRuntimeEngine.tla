--------------------------- MODULE MCRuntimeEngine ---------------------------
(***************************************************************************)
(* RuntimeEngine for TLC.                                                  *)
(***************************************************************************)
EXTENDS RuntimeEngine, TLC

Symmetric == Permutations(Exec) \cup Permutations(Owner)
=============================================================================
