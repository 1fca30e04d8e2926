----------------------------- MODULE SubagentHubMC -----------------------------
(***************************************************************************)
(* An instance of SubagentHub for TLC.                                     *)
(***************************************************************************)
EXTENDS SubagentHub

CONSTANTS l1, l2, r1, r2

\* Two lanes of one role, or of a role each.
SharedOrNot == {[l \in Lanes |-> r1], [l \in Lanes |-> IF l = l1 THEN r1 ELSE r2]}
=============================================================================
