------------------------------ MODULE HarnessRun ------------------------------
(***************************************************************************)
(* A foreground run of a coding session, from prompt to terminal record,   *)
(* with everything that can cut it: a user stopping the task, another      *)
(* handle on the same journal requesting the abort or editing the queue,   *)
(* a process crash between any two appends, and the recovery the next      *)
(* prompt performs.                                                        *)
(*                                                                         *)
(* A procedure computes its appends from the projection, parks them in the *)
(* effects gate of its handle and drives them one by one (Commit).  A      *)
(* refused append faults the gate for as long as the handle lives          *)
(* (Reject); a faulted gate refuses all later work (HandleFaulted).  The   *)
(* task uses two handles: "trace", opened for the run, records messages,   *)
(* tool intents and tool results; "session", which lives as long as the    *)
(* process, accepts, settles, finishes and recovers runs.                  *)
(***************************************************************************)
EXTENDS HarnessLane

CONSTANTS
    Batches,       \* tool batches a provider may declare: [n |-> calls, rejected |-> indexes]
    TaskFailures,  \* BOOLEAN: may a tool task end without a result (panic, recovery required)
    MaxTurns,      \* bound: provider turns with tools per run
    MaxAttempts,   \* RetryPolicy::max_attempts
    MaxCrashes,    \* bound: process crashes
    MaxStops       \* bound: user stops

Handles == {"trace", "session"}

ASSUME BatchesAssumption ==
    Batches \subseteq [n : Nat \ {0}, rejected : SUBSET Nat]
ASSUME BoundsAssumption ==
    /\ TaskFailures \in BOOLEAN
    /\ {MaxTurns, MaxAttempts, MaxCrashes, MaxStops} \subseteq Nat

VARIABLES
    pc,        \* where the session's task is
    handle,    \* the handle whose gate holds `pending`
    pending,   \* the appends parked in that gate and not yet committed
    fault,     \* handle -> is its gate faulted
    cur,       \* the run the task works on
    turn,      \* provider turns of that run that declared tools
    batch,     \* the tool batch being executed
    next,      \* the batch index the dispatcher has reached
    failed,    \* some tool of the batch produced no durable result
    settled,   \* slots whose task returned a result to the dispatcher
    verdict,   \* how the generation ended: "ok", "retryable" or "error"
    plan,      \* what reconcile has parked and not yet driven
    other,     \* the append parked by another handle of the process, if any
    crashes, stops

task == <<pc, handle, pending, fault, cur, turn, batch, next, failed, settled, verdict, plan>>

vars == <<journal, task, other, crashes, stops>>

PCs == {"idle", "recover", "reconcile", "recover-finish", "accept", "provider", "intents",
        "join", "persist", "settle", "finish", "retry", "note", "fail", "fail-finish"}

NoBatch == [n |-> 0, rejected |-> {}]

NoPlan == [slots |-> {}, items |-> {}, parent |-> NoEntry, closed |-> TRUE]

TypeOK ==
    /\ JournalTypeOK
    /\ pc \in PCs
    /\ handle \in Handles
    /\ pending \in Seq(Effects)
    /\ fault \in [Handles -> BOOLEAN]
    /\ cur \in Runs \cup {NoRun}
    /\ turn \in Nat
    /\ batch \in Batches \cup {NoBatch}
    /\ next \in Nat
    /\ failed \in BOOLEAN
    /\ settled \subseteq Slots
    /\ verdict \in {"ok", "retryable", "error"}
    /\ plan \in [slots : SUBSET Slots, items : SUBSET Items,
                 parent : EntryIds \cup {NoEntry}, closed : BOOLEAN]
    /\ other \in Seq(Effects)
    /\ crashes \in Nat
    /\ stops \in Nat

(* A task starts with nothing but the journal.                             *)
NewTask(p) ==
    /\ pc' = p
    /\ handle' = "session"
    /\ pending' = <<>>
    /\ cur' = NoRun
    /\ turn' = 0
    /\ batch' = NoBatch
    /\ next' = 0
    /\ failed' = FALSE
    /\ settled' = {}
    /\ verdict' = "ok"
    /\ plan' = NoPlan

Init ==
    /\ JournalInit
    /\ pc = "idle"
    /\ handle = "session"
    /\ pending = <<>>
    /\ fault = [h \in Handles |-> FALSE]
    /\ cur = NoRun
    /\ turn = 0
    /\ batch = NoBatch
    /\ next = 0
    /\ failed = FALSE
    /\ settled = {}
    /\ verdict = "ok"
    /\ plan = NoPlan
    /\ other = <<>>
    /\ crashes = 0
    /\ stops = 0

-----------------------------------------------------------------------------
(* The effects gate.                                                       *)

(* The journal appends of the task, as an append to its transcript.        *)
Write(id, parent)         == [op |-> "Entry", id |-> id, parent |-> parent, calls |-> 0]
Declare(id, parent, n)    == [op |-> "Entry", id |-> id, parent |-> parent, calls |-> n]
Finished(r, o)            == [op |-> "OperationFinished", run |-> r, outcome |-> o]
StepAttempt(r, n, result) == [op |-> "StepAttempt", run |-> r, attempt |-> n, result |-> result]

TraceSteps == {"provider", "intents", "join", "persist"}

HandleOf(p) == IF p \in TraceSteps THEN "trace" ELSE "session"

(* The task is at p with nothing left to drive and a live gate.            *)
At(p) == pc = p /\ pending = <<>> /\ ~fault[HandleOf(p)]

Park(effects, to) ==
    /\ handle' = HandleOf(pc)
    /\ pending' = effects
    /\ pc' = to

Goto(to) == pc' = to /\ UNCHANGED <<handle, pending>>

(* An error of the trace handle ends the generation; an error of the       *)
(* session handle ends the prompt, because nothing else can be appended.   *)
Escalate(h) ==
    IF h = "trace" THEN pc' = "settle" /\ verdict' = "error"
                   ELSE pc' = "idle" /\ UNCHANGED verdict

Commit ==
    /\ pending # <<>>
    /\ Guard(Head(pending))
    /\ Apply(Head(pending))
    /\ pending' = Tail(pending)
    /\ UNCHANGED <<pc, handle, fault, cur, turn, batch, next, failed, settled, verdict, plan>>
    /\ UNCHANGED <<other, crashes, stops>>

Reject ==
    /\ pending # <<>>
    /\ ~Guard(Head(pending))
    /\ fault' = [fault EXCEPT ![handle] = TRUE]
    /\ pending' = <<>>
    /\ Escalate(handle)
    /\ plan' = NoPlan
    /\ UNCHANGED <<journal, handle, cur, turn, batch, next, failed, settled>>
    /\ UNCHANGED <<other, crashes, stops>>

HandleFaulted ==
    /\ pc # "idle" /\ pending = <<>> /\ fault[HandleOf(pc)]
    /\ Escalate(HandleOf(pc))
    /\ plan' = NoPlan
    /\ UNCHANGED <<journal, handle, pending, fault, cur, turn, batch, next, failed, settled>>
    /\ UNCHANGED <<other, crashes, stops>>

-----------------------------------------------------------------------------
(* A new prompt first recovers the run it finds open.                      *)

(* A mutant of Fresh: the id of a finished run is taken again.             *)
NotOpen == {r \in Runs : history[r] # "open"}

Fresh == {r \in Runs : history[r] = "none"}

Prompt ==
    /\ pc = "idle" /\ pending = <<>>
    /\ Fresh # {} \/ open # NoRun
    /\ NewTask("recover")
    /\ UNCHANGED <<journal, fault, other, crashes, stops>>

(* A mutant of HasAssistant: an abort message does not count as one.       *)
HasModelReply(r) == AssistantEntry(r, 1) \in Present

HasAssistant(r) ==
    \E e \in Present : e.run = r /\ e.kind \in {"assistant", "abort", "closing"}

StepsOf(r) == {s \in steps : s.run = r}

NothingToRecover ==
    /\ At("recover") /\ open = NoRun
    /\ Goto("accept")
    /\ UNCHANGED <<journal, fault, cur, turn, batch, next, failed, settled, verdict, plan>>

RecoverRequestAbort ==
    /\ At("recover") /\ open # NoRun /\ ~abortReq
    /\ Park(<<[op |-> "AbortRequested", run |-> open]>>, "recover")
    /\ UNCHANGED <<journal, fault, cur, turn, batch, next, failed, settled, verdict, plan>>

(* AbortProcedure::reconcile parks its whole plan from one reading of the  *)
(* projection and then drives it; `plan` is that reading.                  *)
PlanReconcile ==
    /\ At("recover") /\ open # NoRun /\ abortReq /\ HasAssistant(open)
    /\ plan' = [slots  |-> started \ done,
                items  |-> {q \in Items \ NextRunItems : queue[q] = "queued"},
                parent |-> leaf,
                closed |-> ClosingEntry(open) \in Present]
    /\ cur' = open
    /\ Goto("reconcile")
    /\ UNCHANGED <<journal, fault, turn, batch, next, failed, settled, verdict>>

(* Intents are appended in turn and index order, which is the order in     *)
(* which the incomplete tools are reconciled.                              *)
Before(s, t) == s.turn < t.turn \/ (s.turn = t.turn /\ s.ix <= t.ix)

(* A mutant of ReconcileTool: the synthesized results are not chained.     *)
ReconcileToolUnchained ==
    /\ At("reconcile")
    /\ \E s \in plan.slots :
        /\ \A t \in plan.slots : Before(s, t)
        /\ plan' = [plan EXCEPT !.slots = @ \ {s}]
        /\ LET finish == [op |-> "ToolFinished", slot |-> s] IN
           Park(IF Result(s) \in Present THEN <<finish>>
                ELSE <<Write(Result(s), plan.parent), finish>>, "reconcile")
    /\ UNCHANGED <<journal, fault, cur, turn, batch, next, failed, settled, verdict>>

ReconcileTool ==
    /\ At("reconcile")
    /\ \E s \in plan.slots :
        /\ \A t \in plan.slots : Before(s, t)
        /\ LET finish == [op |-> "ToolFinished", slot |-> s] IN
           \/ /\ Result(s) \in Present
              /\ plan' = [plan EXCEPT !.slots = @ \ {s}]
              /\ Park(<<finish>>, "reconcile")
           \/ /\ Result(s) \notin Present
              /\ plan' = [plan EXCEPT !.slots = @ \ {s}, !.parent = Result(s)]
              /\ Park(<<Write(Result(s), plan.parent), finish>>, "reconcile")
    /\ UNCHANGED <<journal, fault, cur, turn, batch, next, failed, settled, verdict>>

ReconcileQueued ==
    /\ At("reconcile") /\ plan.slots = {}
    /\ \E q \in plan.items :
        /\ plan' = [plan EXCEPT !.items = @ \ {q}]
        /\ Park(<<[op |-> "QueueCancelled", item |-> q]>>, "reconcile")
    /\ UNCHANGED <<journal, fault, cur, turn, batch, next, failed, settled, verdict>>

ReconcileClose ==
    /\ At("reconcile") /\ plan.slots = {} /\ plan.items = {}
    /\ LET finish == Finished(cur, "Aborted") IN
       Park(IF plan.closed THEN <<finish>>
                           ELSE <<Write(ClosingEntry(cur), plan.parent), finish>>, "accept")
    /\ plan' = NoPlan
    /\ UNCHANGED <<journal, fault, cur, turn, batch, next, failed, settled, verdict>>

(* A mutant of RecoverReserve: it reserves the current attempt again.      *)
RecoverReserveSame ==
    /\ At("recover") /\ open # NoRun /\ abortReq /\ ~HasAssistant(open) /\ StepsOf(open) = {}
    /\ Park(<<StepAttempt(open, attempts, AbortEntry(open))>>, "recover")
    /\ UNCHANGED <<journal, fault, cur, turn, batch, next, failed, settled, verdict, plan>>

(* A run that died before its first attempt was reserved gets one.         *)
RecoverReserve ==
    /\ At("recover") /\ open # NoRun /\ abortReq /\ ~HasAssistant(open) /\ StepsOf(open) = {}
    /\ Park(<<StepAttempt(open, attempts + 1, AbortEntry(open))>>, "recover")
    /\ UNCHANGED <<journal, fault, cur, turn, batch, next, failed, settled, verdict, plan>>

(* No assistant entry yet: the latest reserved result becomes the abort    *)
(* message.                                                                *)
RecoverAbortEntry ==
    /\ At("recover") /\ open # NoRun /\ abortReq /\ ~HasAssistant(open)
    /\ \E s \in StepsOf(open) :
        /\ \A t \in StepsOf(open) : t.attempt <= s.attempt
        /\ Park(<<Write(s.result, leaf)>>, "recover-finish")
    /\ cur' = open
    /\ UNCHANGED <<journal, fault, turn, batch, next, failed, settled, verdict, plan>>

RecoverFinish ==
    /\ At("recover-finish")
    /\ Park(<<Finished(cur, "Aborted")>>, "accept")
    /\ UNCHANGED <<journal, fault, cur, turn, batch, next, failed, settled, verdict, plan>>

Recover ==
    \/ NothingToRecover
    \/ RecoverRequestAbort
    \/ PlanReconcile
    \/ ReconcileTool
    \/ ReconcileQueued
    \/ ReconcileClose
    \/ RecoverReserve
    \/ RecoverAbortEntry
    \/ RecoverFinish

-----------------------------------------------------------------------------
(* The run: accept, provider turns, tool batches.                          *)

Accept ==
    /\ At("accept")
    /\ \E r \in Fresh :
        /\ cur' = r
        /\ Park(<<[op |-> "OperationStarted", run |-> r],
                  Write(UserEntry(r), leaf),
                  StepAttempt(r, 1, AssistantEntry(r, 1))>>, "provider")
    /\ fault' = [fault EXCEPT !["trace"] = FALSE]
    /\ UNCHANGED <<journal, turn, batch, next, failed, settled, verdict, plan>>

NoFreshRun ==
    /\ At("accept") /\ Fresh = {}
    /\ Goto("idle")
    /\ UNCHANGED <<journal, fault, cur, turn, batch, next, failed, settled, verdict, plan>>

(* The assistant step is persisted before its tools are touched.           *)
ReplyWithTools ==
    /\ At("provider") /\ turn < MaxTurns
    /\ \E b \in Batches :
        /\ batch' = b
        /\ Park(<<Declare(AssistantEntry(cur, turn + 1), leaf, b.n)>>, "intents")
    /\ turn' = turn + 1
    /\ next' = 0
    /\ failed' = FALSE
    /\ UNCHANGED <<journal, fault, cur, settled, verdict, plan>>

FinalReply ==
    /\ At("provider")
    /\ Park(<<Write(AssistantEntry(cur, turn + 1), leaf)>>, "settle")
    /\ verdict' = "ok"
    /\ UNCHANGED <<journal, fault, cur, turn, batch, next, failed, settled, plan>>

ProviderError ==
    /\ At("provider")
    /\ verdict' \in {"retryable", "error"}
    /\ Goto("settle")
    /\ UNCHANGED <<journal, fault, cur, turn, batch, next, failed, settled, plan>>

(* A mutant of Call: the batch index is off by one.                        *)
CallBelow(i) == [run |-> cur, turn |-> turn, ix |-> i - 1]

Call(i) == [run |-> cur, turn |-> turn, ix |-> i]

(* Policy and the before-tool hooks are consulted before the intent; a     *)
(* rejected call gets a result but no intent.                              *)
RecordIntent ==
    /\ At("intents") /\ next < batch.n
    /\ IF next \in batch.rejected THEN Goto("intents")
       ELSE Park(<<[op |-> "ToolStarted", slot |-> Call(next)]>>, "intents")
    /\ next' = next + 1
    /\ UNCHANGED <<journal, fault, cur, turn, batch, failed, settled, verdict, plan>>

AllIntended ==
    /\ At("intents") /\ next = batch.n
    /\ Goto("join")
    /\ next' = 0
    /\ UNCHANGED <<journal, fault, cur, turn, batch, failed, settled, verdict, plan>>

(* A mutant of Lower: the filter on the index is dropped.                  *)
OtherSlots(s) == {t \in started : t.run = s.run /\ t.turn = s.turn /\ t.ix # s.ix}

(* ToolBatchProcedure::finish_inner chains a result onto the result of the *)
(* nearest lower index that has an intent.                                 *)
Lower(s) == {t \in started : t.run = s.run /\ t.turn = s.turn /\ t.ix < s.ix}

ResultParents(s) ==
    IF Lower(s) = {} THEN {Declaring(s)}
    ELSE {Result(t) : t \in {u \in Lower(s) : \A v \in Lower(s) : v.ix <= u.ix}}

(* The tasks run concurrently; their results are joined and recorded in    *)
(* index order.                                                            *)
JoinResult ==
    /\ At("join") /\ next < batch.n /\ next \notin batch.rejected
    /\ LET s == Call(next) IN
        /\ settled' = settled \cup {s}
        /\ IF s \in done THEN Goto("join")
           ELSE \E parent \in ResultParents(s) :
                    Park(<<Write(Result(s), parent), [op |-> "ToolFinished", slot |-> s]>>, "join")
    /\ next' = next + 1
    /\ UNCHANGED <<journal, fault, cur, turn, batch, failed, verdict, plan>>

JoinFailure ==
    /\ TaskFailures
    /\ At("join") /\ next < batch.n /\ next \notin batch.rejected
    /\ failed' = TRUE
    /\ next' = next + 1
    /\ Goto("join")
    /\ UNCHANGED <<journal, fault, cur, turn, batch, settled, verdict, plan>>

JoinRejected ==
    /\ At("join") /\ next < batch.n /\ next \in batch.rejected
    /\ next' = next + 1
    /\ Goto("join")
    /\ UNCHANGED <<journal, fault, cur, turn, batch, failed, settled, verdict, plan>>

Joined ==
    /\ At("join") /\ next = batch.n
    /\ IF failed THEN Goto("settle") /\ verdict' = "error"
                 ELSE Goto("persist") /\ UNCHANGED verdict
    /\ next' = 0
    /\ UNCHANGED <<journal, fault, cur, turn, batch, failed, settled, plan>>

(* The tool messages reach the transcript before the next provider turn;   *)
(* those of completed tools are already there.                             *)
PersistResult ==
    /\ At("persist") /\ next < batch.n
    /\ IF Result(Call(next)) \in Present THEN Goto("persist")
       ELSE Park(<<Write(Result(Call(next)), leaf)>>, "persist")
    /\ next' = next + 1
    /\ UNCHANGED <<journal, fault, cur, turn, batch, failed, settled, verdict, plan>>

(* A tool that asked to terminate ends the generation with its batch.      *)
BatchPersisted ==
    /\ At("persist") /\ next = batch.n
    /\ \/ Goto("provider") /\ UNCHANGED verdict
       \/ Goto("settle") /\ verdict' = "ok"
    /\ UNCHANGED <<journal, fault, cur, turn, batch, next, failed, settled, plan>>

Generate ==
    \/ Accept \/ NoFreshRun
    \/ ReplyWithTools \/ FinalReply \/ ProviderError
    \/ RecordIntent \/ AllIntended
    \/ JoinResult \/ JoinFailure \/ JoinRejected \/ Joined
    \/ PersistResult \/ BatchPersisted

-----------------------------------------------------------------------------
(* The end of the run: settle the last batch, then finish, retry or fail.  *)

CallsOf(t) == {[run |-> cur, turn |-> t, ix |-> i] : i \in 0..(entries[AssistantEntry(cur, t)].calls - 1)}

TurnsWithTools == {t \in 1..turn : AssistantEntry(cur, t) \in Present
                                   /\ entries[AssistantEntry(cur, t)].calls > 0}

(* A mutant of LastBatch: the first batch of the run is settled instead.   *)
FirstBatch == UNION {CallsOf(t) : t \in {u \in TurnsWithTools : \A v \in TurnsWithTools : u <= v}}

LastBatch == UNION {CallsOf(t) : t \in {u \in TurnsWithTools : \A v \in TurnsWithTools : v <= u}}

Unrecorded == {s \in LastBatch : Result(s) \notin Present}

SettleMissing ==
    /\ At("settle") /\ Unrecorded # {}
    /\ Goto("fail")
    /\ UNCHANGED <<journal, fault, cur, turn, batch, next, failed, settled, verdict, plan>>

(* A call without an intent gets one now, and every call its completion.   *)
SettleCall ==
    /\ At("settle") /\ Unrecorded = {}
    /\ \E s \in LastBatch \ done :
        /\ \A t \in LastBatch \ done : s.ix <= t.ix
        /\ Park(<<[op |-> IF s \in started THEN "ToolFinished" ELSE "ToolStarted",
                   slot |-> s]>>, "settle")
    /\ UNCHANGED <<journal, fault, cur, turn, batch, next, failed, settled, verdict, plan>>

Settled ==
    /\ At("settle") /\ LastBatch \subseteq done
    /\ Goto(CASE verdict = "ok"        -> "finish"
              [] verdict = "retryable" -> "retry"
              [] verdict = "error"     -> "fail")
    /\ UNCHANGED <<journal, fault, cur, turn, batch, next, failed, settled, verdict, plan>>

(* OperationProcedure::finish refuses a run with an incomplete tool; the   *)
(* error is saved for the user and the run stays open.                     *)
FinishCompleted ==
    /\ At("finish")
    /\ IF Incomplete(cur) = {} THEN Park(<<Finished(cur, "Completed")>>, "idle")
                               ELSE Goto("note")
    /\ UNCHANGED <<journal, fault, cur, turn, batch, next, failed, settled, verdict, plan>>

ScheduleRetry ==
    /\ At("retry")
    /\ IF retry = 0 /\ attempts + 1 <= MaxAttempts
       THEN Park(<<[op |-> "RetryScheduled", run |-> cur, attempt |-> attempts + 1]>>, "note")
       ELSE Goto("fail")
    /\ UNCHANGED <<journal, fault, cur, turn, batch, next, failed, settled, verdict, plan>>

NoteError ==
    /\ At("note")
    /\ Park(<<Write(ErrorEntry(cur), leaf)>>, "idle")
    /\ UNCHANGED <<journal, fault, cur, turn, batch, next, failed, settled, verdict, plan>>

(* finish_harness_run saves the error message first and finishes after.    *)
FailNote ==
    /\ At("fail")
    /\ Park(<<Write(ErrorEntry(cur), leaf)>>, "fail-finish")
    /\ UNCHANGED <<journal, fault, cur, turn, batch, next, failed, settled, verdict, plan>>

FailFinish ==
    /\ At("fail-finish")
    /\ IF Incomplete(cur) = {} THEN Park(<<Finished(cur, "Failed")>>, "idle")
                               ELSE Goto("idle")
    /\ UNCHANGED <<journal, fault, cur, turn, batch, next, failed, settled, verdict, plan>>

End == SettleMissing \/ SettleCall \/ Settled \/ FinishCompleted \/ ScheduleRetry
       \/ NoteError \/ FailNote \/ FailFinish

-----------------------------------------------------------------------------
(* Everything else that touches the journal or the task.                   *)

(* Another handle of the process: it reads the projection and parks ...    *)
OtherParks ==
    /\ other = <<>>
    /\ \/ /\ open # NoRun /\ ~abortReq
          /\ other' = <<[op |-> "AbortRequested", run |-> open]>>
       \/ \E q \in Items :
            \/ queue[q] = "new" /\ other' = <<[op |-> "QueueEnqueued", item |-> q]>>
            \/ queue[q] = "queued" /\ other' = <<[op |-> "QueueCancelled", item |-> q]>>
            \/ queue[q] = "queued" /\ other' = <<[op |-> "QueueConsumed", item |-> q]>>
    /\ UNCHANGED <<journal, task, crashes, stops>>

(* ... and commits later, against whatever the projection is by then.      *)
OtherCommits ==
    /\ other # <<>>
    /\ \/ Guard(Head(other)) /\ Apply(Head(other))
       \/ ~Guard(Head(other)) /\ UNCHANGED journal
    /\ other' = <<>>
    /\ UNCHANGED <<task, crashes, stops>>

(* The user stops the task: it is dropped at one of its await points.      *)
(* After the generation that is the wait for scheduled work, before the    *)
(* session handle parks the first append of the settlement.                *)
Stop ==
    /\ pc \in TraceSteps \/ (pc = "settle" /\ handle = "trace")
    /\ pending = <<>>
    /\ stops < MaxStops
    /\ stops' = stops + 1
    /\ NewTask("idle")
    /\ UNCHANGED <<journal, fault, other, crashes>>

(* The process dies; what was parked is lost, and the handles are opened   *)
(* anew on the journal as it was left.                                     *)
Crash ==
    /\ crashes < MaxCrashes
    /\ crashes' = crashes + 1
    /\ NewTask("idle")
    /\ fault' = [h \in Handles |-> FALSE]
    /\ other' = <<>>
    /\ UNCHANGED <<journal, stops>>

Step == (Recover \/ Generate \/ End) /\ UNCHANGED <<other, crashes, stops>>

Driven == Commit \/ Reject \/ HandleFaulted \/ Step

Next == Driven \/ Prompt \/ OtherParks \/ OtherCommits \/ Stop \/ Crash

(* The task, once running, keeps being scheduled; prompts, stops and       *)
(* crashes are nobody's duty.                                              *)
Spec == Init /\ [][Next]_vars /\ WF_vars(Driven)

-----------------------------------------------------------------------------
(* Properties.                                                             *)

(* No append computed by a procedure of the task is ever refused by the    *)
(* reducer: what ToolBatchProcedure, AbortProcedure, OperationProcedure    *)
(* and record_completed_tools compute agrees with the guards, whatever cut *)
(* the run before.                                                         *)
NothingRefused == \A h \in Handles : ~fault[h]

(* Only the open run owes tool completions: however a run ended            *)
(* (completed, failed, aborted by recovery after a crash), every intent it *)
(* recorded has its completion.                                            *)
ClosedRunsSettled == \A s \in started \ done : s.run = open

(* A run that is recorded as started and not finished is the lane's open   *)
(* operation: no crash or race loses one or leaves two behind.             *)
OpenRunIsLive == \A r \in Runs : history[r] = "open" <=> open = r

(* The lane is one chain: no two entries share a parent and the leaf is    *)
(* the tip.  A provider request is built from the ancestors of the leaf,   *)
(* so a fork hides what is on the other branch.                            *)
LinearTranscript ==
    /\ \A e, f \in Present : entries[e].parent = entries[f].parent => e = f
    /\ \A e \in Present : entries[e].parent # leaf
    /\ leaf = NoEntry <=> Present = {}

(* A run recorded as completed left no call of its last batch without a    *)
(* recorded completion, rejected calls included.                           *)
CompletedRunsAnswered ==
    \A r \in Runs : history[r] = "Completed" =>
        \A e \in Present :
            /\ e.run = r /\ e.kind = "assistant"
            /\ \A f \in Present : f.run = r /\ f.kind = "assistant" /\ entries[f].calls > 0
                                  => f.turn <= e.turn
            => \A i \in 0..(entries[e].calls - 1) : [run |-> r, turn |-> e.turn, ix |-> i] \in done

(* The steps that follow the join of a batch.                              *)
AfterJoin == {"persist", "provider", "settle", "finish", "retry", "note", "fail", "fail-finish"}

(* The accepted calls below a call follow each other and all settled.      *)
Unbroken(k) ==
    \A i \in 0..(k - 1) :
        i \notin batch.rejected => Call(i) \in settled /\ i + 1 \notin batch.rejected

(* Whatever befell its later siblings (a task that died, a refused append, *)
(* a call rejected by policy), a tool whose lower siblings all settled has *)
(* its completion in the journal once the batch is joined: a failure costs *)
(* the results above it and never one below it.                            *)
PrefixCommitted ==
    pc \in AfterJoin /\ pending = <<>> =>
        \A k \in 0..(batch.n - 1) : Call(k) \in settled /\ Unbroken(k) => Call(k) \in done

(* "Settle and commit siblings that have already begun before surfacing    *)
(* failure": once the batch is joined, every tool that returned a result   *)
(* has that result in the journal.  The code breaks it: a result above a   *)
(* task that died is chained onto an entry that was never written.         *)
SettledSiblingsCommitted ==
    pc \in AfterJoin /\ pending = <<>> => settled \subseteq done

(* The journal only grows: an entry is never rewritten, a completion never *)
(* withdrawn, and a finished run never changes its outcome or reopens.     *)
AppendOnly ==
    [][/\ \A e \in Present : e \in Present' /\ entries'[e] = entries[e]
       /\ done \subseteq done' /\ started \subseteq started'
       /\ \A r \in Runs : history[r] \in Outcomes => history'[r] = history[r]]_vars

(* The journal implements the ledger of RunLedger: a call is owed between  *)
(* its ToolStarted and its ToolFinished record, and a run's status is what *)
(* its OperationStarted and OperationFinished records say.                 *)
Ledger == INSTANCE RunLedger WITH status <- history, owed <- started \ done

ImplementsLedger == Ledger!LedgerSpec

(* A recovery that no crash cuts closes the run it found open.             *)
RecoveryClosesRun ==
    \A r \in Runs, c \in 0..MaxCrashes :
        (pc = "recover" /\ open = r /\ crashes = c) ~> (open # r \/ crashes > c)
=============================================================================
