----------------------------- MODULE MCTeamPhase -----------------------------
(***************************************************************************)
(* TeamPhase for TLC.                                                      *)
(***************************************************************************)
EXTENDS TeamPhase
=============================================================================
