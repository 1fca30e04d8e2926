----------------------------- MODULE AutomationsMC -----------------------------
(***************************************************************************)
(* An instance of Automations for TLC: of crashes, commands of the user    *)
(* and failing writes two kinds may meet, or the user may be asked.        *)
(***************************************************************************)
EXTENDS Automations

CONSTANTS inplace, worktree

Crashing == [time |-> 2, asks |-> 0, commands |-> 0, crashes |-> 1, faults |-> 1]
Commanding == [time |-> 2, asks |-> 0, commands |-> 1, crashes |-> 0, faults |-> 1]
Stopping == [time |-> 1, asks |-> 0, commands |-> 1, crashes |-> 1, faults |-> 0]
Asking == [time |-> 1, asks |-> 2, commands |-> 0, crashes |-> 0, faults |-> 1]
Rewriting == [time |-> 1, asks |-> 0, commands |-> 0, crashes |-> 1, faults |-> 2]
Pairs == {Crashing, Commanding, Stopping, Asking, Rewriting}

\* Only requests to the user.
Questions == {[time |-> 1, asks |-> 2, commands |-> 0, crashes |-> 0, faults |-> 0]}
=============================================================================
