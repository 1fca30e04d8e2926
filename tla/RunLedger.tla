------------------------------ MODULE RunLedger ------------------------------
(***************************************************************************)
(* What a session journal promises about runs, whatever happens to the     *)
(* process: one run at a time is open, a run owes a completion for every   *)
(* tool call it has started, a debt is incurred and paid only while its    *)
(* run is open, a run closes once, with nothing owed, and is never opened  *)
(* again.  A crash is invisible here: it is a stuttering step.             *)
(***************************************************************************)
CONSTANTS
    Runs,       \* run ids
    Outcomes    \* how a run may end

VARIABLES
    status,     \* run -> "none", "open" or its outcome
    owed        \* the started calls without a completion

ledger == <<status, owed>>

LedgerInit ==
    /\ status = [r \in Runs |-> "none"]
    /\ owed = {}

Open(r) ==
    /\ status[r] = "none"
    /\ \A s \in Runs : status[s] # "open"
    /\ status' = [status EXCEPT ![r] = "open"]
    /\ UNCHANGED owed

Start ==
    /\ \E c \in owed' \ owed :
        /\ status[c.run] = "open"
        /\ owed' = owed \cup {c}
    /\ UNCHANGED status

Complete ==
    /\ \E c \in owed :
        /\ status[c.run] = "open"
        /\ owed' = owed \ {c}
    /\ UNCHANGED status

Close(r, outcome) ==
    /\ status[r] = "open"
    /\ \A c \in owed : c.run # r
    /\ status' = [status EXCEPT ![r] = outcome]
    /\ UNCHANGED owed

LedgerNext ==
    \/ \E r \in Runs : Open(r)
    \/ Start
    \/ Complete
    \/ \E r \in Runs, outcome \in Outcomes : Close(r, outcome)

LedgerSpec == LedgerInit /\ [][LedgerNext]_ledger
=============================================================================
