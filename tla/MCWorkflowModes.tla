-------------------------- MODULE MCWorkflowModes --------------------------
(***************************************************************************)
(* WorkflowModes for TLC.                                                  *)
(***************************************************************************)
EXTENDS WorkflowModes, TLC

Symmetric == Permutations(Proc)
=============================================================================
