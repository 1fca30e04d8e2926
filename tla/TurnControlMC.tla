----------------------------- MODULE TurnControlMC -----------------------------
(***************************************************************************)
(* Instances of TurnControl for TLC.                                       *)
(***************************************************************************)
EXTENDS TurnControl

BothSurfaces == {"chat", "automation"}
=============================================================================
