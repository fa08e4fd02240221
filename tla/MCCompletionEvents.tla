-------------------------- MODULE MCCompletionEvents --------------------------
(***************************************************************************)
(* CompletionEvents for TLC.                                               *)
(***************************************************************************)
EXTENDS CompletionEvents
=============================================================================
