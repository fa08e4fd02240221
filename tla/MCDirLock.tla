------------------------------ MODULE MCDirLock ------------------------------
(***************************************************************************)
(* DirLock for TLC.                                                        *)
(***************************************************************************)
EXTENDS DirLock, TLC

\* Not for the liveness properties.
Symmetric == Permutations(Proc)
=============================================================================
