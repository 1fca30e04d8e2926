----------------------------- MODULE HarnessLane -----------------------------
(***************************************************************************)
(* The main lane of a session journal, as the reducer projects it.  The    *)
(* journal is an append-only list of entries (the transcript) and records  *)
(* (what happened to runs, tools and queued messages); every append is     *)
(* validated by a guard against the projection and then applied to it.     *)
(* Every procedure of the harness changes the journal only through         *)
(* Guard / Apply below.                                                    *)
(*                                                                         *)
(* An entry id is a record naming what the entry is for: the code derives  *)
(* its ids from exactly these parts ("entry-{run}-user",                   *)
(* "entry-{run}-assistant-{n}", "v2-tool-result-{run}-{call}",             *)
(* "entry-{run}-aborted", ...).  A tool call is named by its run, the turn *)
(* of the assistant entry that declares it and its index there.            *)
(***************************************************************************)
EXTENDS Integers, Sequences, FiniteSets

CONSTANTS
    Runs,          \* ids of the runs (operations) of the session
    NoRun,         \* no operation is open
    NoEntry,       \* no parent / empty lane
    Items,         \* ids of the messages users may queue
    NextRunItems   \* those queued as QueueKind::NextRun

ASSUME RunsAssumption  == NoRun \notin Runs
ASSUME ItemsAssumption == NextRunItems \subseteq Items

EntryKinds == {"user", "assistant", "tool", "abort", "closing", "error"}

EntryIds == [kind : EntryKinds, run : Runs, turn : Nat, ix : Nat]

ASSUME EntryAssumption == NoEntry \notin EntryIds

Slots == [run : Runs, turn : Nat, ix : Nat]

UserEntry(r)         == [kind |-> "user",      run |-> r, turn |-> 0, ix |-> 0]
AssistantEntry(r, t) == [kind |-> "assistant", run |-> r, turn |-> t, ix |-> 0]
AbortEntry(r)        == [kind |-> "abort",     run |-> r, turn |-> 0, ix |-> 0]
ClosingEntry(r)      == [kind |-> "closing",   run |-> r, turn |-> 0, ix |-> 0]
ErrorEntry(r)        == [kind |-> "error",     run |-> r, turn |-> 0, ix |-> 0]
Declaring(s)         == AssistantEntry(s.run, s.turn)
Result(s)            == [kind |-> "tool", run |-> s.run, turn |-> s.turn, ix |-> s.ix]
Predecessor(s)       == [s EXCEPT !.ix = s.ix - 1]

Outcomes == {"Completed", "Failed", "Aborted"}

(* What a procedure may park in the effects gate.                          *)
Effects ==
         [op : {"Entry"}, id : EntryIds, parent : EntryIds \cup {NoEntry}, calls : Nat]
    \cup [op : {"OperationStarted", "AbortRequested"}, run : Runs]
    \cup [op : {"OperationFinished"}, run : Runs, outcome : Outcomes]
    \cup [op : {"StepAttempt"}, run : Runs, attempt : Nat, result : EntryIds]
    \cup [op : {"RetryScheduled"}, run : Runs, attempt : Nat]
    \cup [op : {"ToolStarted", "ToolFinished"}, slot : Slots]
    \cup [op : {"QueueEnqueued", "QueueCancelled", "QueueConsumed"}, item : Items]

VARIABLES
    entries,   \* transcript: entry id -> [parent, calls]; calls = number of declared tool calls
    leaf,      \* LaneState.leaf_id
    open,      \* LaneState.open_operation
    abortReq,  \* LaneState.abort_requested
    attempts,  \* LaneState.attempts
    retry,     \* attempt number of LaneState.retry, 0 when there is none
    steps,     \* the StepAttempt records of the journal
    started,   \* tool slots with a committed ToolStarted intent
    done,      \* tool slots with a committed ToolFinished
    queue,     \* item -> where the queued message is
    history    \* run -> what its OperationStarted/OperationFinished records say

journal == <<entries, leaf, open, abortReq, attempts, retry, steps, started, done,
             queue, history>>

Present == DOMAIN entries

QueueStates == {"new", "queued", "cancelled", "consumed"}

JournalTypeOK ==
    /\ Present \subseteq EntryIds
    /\ entries \in [Present -> [parent : EntryIds \cup {NoEntry}, calls : Nat]]
    /\ leaf \in EntryIds \cup {NoEntry}
    /\ open \in Runs \cup {NoRun}
    /\ abortReq \in BOOLEAN
    /\ attempts \in Nat
    /\ retry \in Nat
    /\ steps \subseteq [run : Runs, attempt : Nat, result : EntryIds]
    /\ started \subseteq Slots
    /\ done \subseteq Slots
    /\ queue \in [Items -> QueueStates]
    /\ history \in [Runs -> {"none", "open"} \cup Outcomes]

JournalInit ==
    /\ entries = [e \in {} |-> [parent |-> NoEntry, calls |-> 0]]
    /\ leaf = NoEntry
    /\ open = NoRun
    /\ abortReq = FALSE
    /\ attempts = 0
    /\ retry = 0
    /\ steps = {}
    /\ started = {}
    /\ done = {}
    /\ queue = [q \in Items |-> "new"]
    /\ history = [r \in Runs |-> "none"]

-----------------------------------------------------------------------------
(* What the reducer and the procedures read off the projection.            *)

(* A mutant of Incomplete: the finish guard does not look at tools.        *)
NothingIncomplete(r) == {}

Incomplete(r) == {s \in started : s.run = r /\ s \notin done}

(* The result the tool at the index just below is to be stored under.      *)
PreviousResult(s) ==
    IF s.ix > 0 /\ Predecessor(s) \in started THEN Result(Predecessor(s)) ELSE NoEntry

-----------------------------------------------------------------------------
(* The guards: an append that fails its guard is refused and changes       *)
(* nothing.                                                                *)

EntryGuard(e) ==
    /\ e.id \notin Present
    /\ e.parent # NoEntry => e.parent \in Present

ToolStartedGuard(s) ==
    /\ open = s.run
    /\ Declaring(s) \in Present
    /\ s.ix < entries[Declaring(s)].calls
    /\ s \notin started

ToolFinishedGuard(s) ==
    /\ open = s.run
    /\ s \in started
    /\ Result(s) \in Present
    /\ entries[Result(s)].parent \in {Declaring(s), PreviousResult(s)}
    /\ s \notin done

OperationFinishedGuard(r, outcome) ==
    /\ open = r
    /\ Incomplete(r) = {}
    /\ retry = 0 \/ (abortReq /\ outcome = "Aborted")

Guard(e) ==
    \/ e.op = "Entry" /\ EntryGuard(e)
    \/ e.op = "OperationStarted" /\ open = NoRun
    \/ e.op = "AbortRequested" /\ open = e.run
    \/ e.op = "OperationFinished" /\ OperationFinishedGuard(e.run, e.outcome)
    \/ e.op = "StepAttempt" /\ open = e.run /\ e.attempt = attempts + 1
    \/ e.op = "RetryScheduled" /\ open = e.run /\ retry = 0 /\ e.attempt = attempts + 1
    \/ e.op = "ToolStarted" /\ ToolStartedGuard(e.slot)
    \/ e.op = "ToolFinished" /\ ToolFinishedGuard(e.slot)
    \/ e.op = "QueueEnqueued" /\ queue[e.item] # "queued"
    \/ e.op \in {"QueueCancelled", "QueueConsumed"} /\ queue[e.item] = "queued"

-----------------------------------------------------------------------------
(* The commits: what a validated append does to the projection.            *)

CommitEntry(e) ==
    /\ e.op = "Entry"
    /\ entries' = [i \in Present \cup {e.id} |->
                      IF i = e.id THEN [parent |-> e.parent, calls |-> e.calls]
                                  ELSE entries[i]]
    /\ leaf' = e.id
    /\ UNCHANGED <<open, abortReq, attempts, retry, steps, started, done, queue, history>>

CommitStarted(e) ==
    /\ e.op = "OperationStarted"
    /\ open' = e.run
    /\ attempts' = 0
    /\ retry' = 0
    /\ history' = [history EXCEPT ![e.run] = "open"]
    /\ UNCHANGED <<entries, leaf, abortReq, steps, started, done, queue>>

CommitAbortRequested(e) ==
    /\ e.op = "AbortRequested"
    /\ abortReq' = TRUE
    /\ UNCHANGED <<entries, leaf, open, attempts, retry, steps, started, done, queue, history>>

(* Mutants of CommitFinished: the lane stays open / the projection drops   *)
(* the tools of the finished run.                                          *)
FinishedLeavesLaneOpen(e) ==
    /\ e.op = "OperationFinished"
    /\ history' = [history EXCEPT ![e.run] = e.outcome]
    /\ UNCHANGED <<entries, leaf, open, abortReq, attempts, retry, steps, started, done, queue>>

FinishedDropsTools(e) ==
    /\ e.op = "OperationFinished"
    /\ open' = NoRun
    /\ abortReq' = FALSE
    /\ retry' = 0
    /\ history' = [history EXCEPT ![e.run] = e.outcome]
    /\ started' = {s \in started : s.run # e.run}
    /\ done' = {s \in done : s.run # e.run}
    /\ UNCHANGED <<entries, leaf, attempts, steps, queue>>

CommitFinished(e) ==
    /\ e.op = "OperationFinished"
    /\ open' = NoRun
    /\ abortReq' = FALSE
    /\ retry' = 0
    /\ history' = [history EXCEPT ![e.run] = e.outcome]
    /\ UNCHANGED <<entries, leaf, attempts, steps, started, done, queue>>

CommitStepAttempt(e) ==
    /\ e.op = "StepAttempt"
    /\ attempts' = e.attempt
    /\ retry' = 0
    /\ steps' = steps \cup {[run |-> e.run, attempt |-> e.attempt, result |-> e.result]}
    /\ UNCHANGED <<entries, leaf, open, abortReq, started, done, queue, history>>

CommitRetryScheduled(e) ==
    /\ e.op = "RetryScheduled"
    /\ retry' = e.attempt
    /\ UNCHANGED <<entries, leaf, open, abortReq, attempts, steps, started, done, queue, history>>

CommitToolStarted(e) ==
    /\ e.op = "ToolStarted"
    /\ started' = started \cup {e.slot}
    /\ UNCHANGED <<entries, leaf, open, abortReq, attempts, retry, steps, done, queue, history>>

CommitToolFinished(e) ==
    /\ e.op = "ToolFinished"
    /\ done' = done \cup {e.slot}
    /\ UNCHANGED <<entries, leaf, open, abortReq, attempts, retry, steps, started, queue, history>>

CommitQueue(e) ==
    /\ \/ e.op = "QueueEnqueued"  /\ queue' = [queue EXCEPT ![e.item] = "queued"]
       \/ e.op = "QueueCancelled" /\ queue' = [queue EXCEPT ![e.item] = "cancelled"]
       \/ e.op = "QueueConsumed"  /\ queue' = [queue EXCEPT ![e.item] = "consumed"]
    /\ UNCHANGED <<entries, leaf, open, abortReq, attempts, retry, steps, started, done, history>>

(* One append: refused, or validated and applied.                          *)
Apply(e) ==
    \/ CommitEntry(e)
    \/ CommitStarted(e)
    \/ CommitAbortRequested(e)
    \/ CommitFinished(e)
    \/ CommitStepAttempt(e)
    \/ CommitRetryScheduled(e)
    \/ CommitToolStarted(e)
    \/ CommitToolFinished(e)
    \/ CommitQueue(e)
=============================================================================
