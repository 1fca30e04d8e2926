# Threadlane in TLA+

Threadlane is a desktop workspace for coding agents, written in Rust. A session
is a durable journal; a prompt starts a *run*, in which a model and its tools
take turns; users queue, re-route, drop and stop work while a run is under way;
the process may die between any two writes. This directory specifies the part
of the program that has to get that right, model-checks it with TLC and proves
its most important properties with TLAPS.

Paths below are relative to `src/crates/`; the prefix `threadlane-` is left out
(`coding-agent/src/durable.rs` is `src/crates/threadlane-coding-agent/src/durable.rs`).

| Module | What it is |
| --- | --- |
| `HarnessLane` | The main lane of a session journal: the reducer's guards and commits |
| `HarnessRun` | A foreground run on that lane, with failures, stops, crashes and recovery |
| `RunLedger` | The abstract specification: what a journal promises about runs |
| `HarnessRunMC` | Instances of `HarnessRun` |
| `HarnessRun_proofs` | Theorems about `HarnessRun`, refinement of `RunLedger` included |
| `HarnessTranscript_proofs` | Theorems about the transcript of `HarnessRun` and the appends that make it |
| `WorkScheduler`, `WorkSchedulerMC` | Inputs queued while the session is busy, and who runs them |
| `WorkScheduler_proofs` | Theorems about `WorkScheduler` |
| `TurnControl`, `TurnControlMC` | Starting, stopping and cleaning up interactive turns |
| `TurnControl_proofs` | Theorems about `TurnControl` |
| `DurableLog` | The abstract specification: what a journal file promises |
| `JournalFile`, `JournalFileMC` | The file under that journal: handles, torn writes, power losses |
| `JournalFile_proofs` | Theorems about `JournalFile`, refinement of `DurableLog` included |
| `SubagentHub`, `SubagentHubMC` | Lanes of subagents: messages, kills, revivals, settlement |
| `SubagentHub_proofs`, `SubagentMessages_proofs` | Theorems about `SubagentHub`: its runs; its messages |
| `Automations`, `AutomationsMC` | Scheduled runs: store, actor, task, crash and recovery |
| `Automations_proofs` | Theorems about `Automations` |

## 1. The system

### What it is made of

**Harness core** (`runtime/src/harness/`). *State*: the journal (entries, which
are the transcript, and records) and its projection: per lane the leaf, the open
operation, its abort request, attempts, scheduled retry, tools and queue
(`types.rs`, `reducer.rs`). *Operations*: procedures (`procedure.rs`) read the
projection, compute a list of appends and park it in the effects gate of their
handle (`effects.rs`), which drives them one by one; the reducer validates each
against the projection of that moment. A refused append faults the gate for as
long as the handle lives. *Hard*: procedures and guards are two separate
statements of the same rules; several handles share one journal; every prefix of
a plan is a state a crash can leave. *Correct when* no plan of the program is
refused, the transcript stays one chain, one run at a time is open, and every
run that ends has paid for every tool it started.

**Session run** (`coding-agent/src/runtime.rs`, `durable.rs`, `harness/*.rs`;
`runtime/src/turn_driver.rs`, `tool_dispatcher.rs`). *State*: the agent (context,
message recorder, error of the last journal write), the run in progress.
*Operations*: recover what the previous process left, accept the prompt, drive
provider turns, record intent, execute tools in parallel, join results in index
order, settle the batch, finish, schedule a retry or fail. *Hard*: a run can be
cut at any await; one tool of a batch can die or be rejected by policy; recovery
itself can be cut. *Correct when* recovery always closes what it finds open, and
a completed run leaves no call unanswered.

**Work scheduler** (`coding-agent/src/scheduler.rs`, `harness/runs.rs`, the
executors in `runtime.rs`, `durable.rs` and `acp-engine/src/runtime.rs`).
*State*: durable queue entries, and in memory one wake per entry. *Operations*:
enqueue, drop, re-route ("steer"), an interactive turn or the supervisor that
holds the agent and runs entries. *Hard*: every operation is two or more
transactions on two stores; the wakes are volatile; whoever runs an entry has
read it some awaits ago. *Correct when* an input runs at most once, is never
lost, is not run after its user got it back, and is eventually served.

**Session controller and cancellation** (`coding-agent/src/controller.rs`,
`cancellation.rs`, `daemon/src/chat.rs`). *State*: the `is_generating` flag, the
status, the registered abort handle. *Operations*: begin, register, run under
the agent's lock, Stop, clean up. *Hard*: a Stop may come at any point of that
sequence; flag and status are two stores; the cleanup guard of an old turn may
run when the next has begun. *Correct when* a running turn can be stopped, no
registration outlives its turn, and the session becomes free again.

**Subagents** (`coding-agent/src/mailbox.rs`, `subagents.rs`, `harness/lanes.rs`,
`harness/replay.rs`, `harness/fork.rs`). *State*: inboxes, kill flags, lane
roster and outcomes; child lanes of the journal. *Operations*: register, send,
broadcast, drain, kill, revive, wait, claim a lane for replay. *Hard*: a kill
racing completion, a stale run settling a revived lane, a wait without a permit.
*Correct when* a killed lane ends as killed, a message reaches the lane it was
sent to or is reported undelivered, and a waiter wakes.

**Journal file** (`runtime/src/harness/jsonl.rs`). *State*: a line-oriented file,
a parsed prefix, writer claims. *Operations*: load, refresh from an appended
tail, append one or a batch, quarantine a torn tail. *Hard*: crash in the middle
of a write, several handles and processes on one file. *Correct when* it behaves
as an append-only log in which a batch is there entirely or not at all.

**Automations** (`automation/src/lib.rs`, `daemon/src/automation.rs`,
`coding-agent/src/automation.rs`). *State*: definitions, runs and a revision in
one file; the actor's active run. *Operations*: save, enable, enqueue (claims an
occurrence), dispatch, wait for permissions and answers, cancel, finish,
recover. *Hard*: a commit that fails after it took effect; restart between claim
and dispatch; a timeout that pauses while a user is asked. *Correct when* an
occurrence runs at most once, one run at a time is active, and every claimed run
ends.

**Permissions and questions** (`permission/`, `question/`). *State*: pending
requests by id. *Operations*: ask, answer, turn interactive mode off. *Hard*: an
answer racing a cancelled request. *Correct when* each request is answered once
or withdrawn.

**Daemon, clients and interface** (`daemon/`, `client/`, `protocol/`, `ui-*`,
`gpui`): routes requests, projects session events to clients with cursors,
reconnects. **Everything else**: providers and authentication (`provider/`,
`auth/`), context and compaction, tools and hashline edits, MCP, skills, prompts,
plans, projects, git, browser and computer control, extensions (`wasi/`), fusion
routing (`orchestrator/`), loop detection (`loop/`), ACP client (`acp/`), mobile
client, website, updater, benchmarks and a vendored terminal parser.

### How the parts interact

A prompt enters through the daemon or the desktop, which asks the controller to
begin a generation. The controller spawns the turn's task, which locks the
agent, recovers the session's open run if there is one, and runs the new one
through the harness core. Inputs that arrive meanwhile become queue entries and
wakes; the turn takes them while it holds the agent, the supervisor when nobody
does. A Stop records an abort request through its own handle on the journal and
aborts the task; the run stays open until the next prompt or restart reconciles
it. Tools may start child lanes, ask for permission or ask a question; an
automation is a session driven by an actor in place of a person.

## 2. The core: journal, runs and recovery

### `HarnessLane`

The projection of the main lane is the module's state: `entries` (id to parent
and number of declared tool calls), `leaf`, `open`, `abortReq`, `attempts`,
`retry`, `steps` (reserved attempts), `started` and `done` (tool intents and
completions), `queue`, and `history`, which remembers for each run what its
started and finished records say. There is one guard (`EntryGuard`,
`ToolFinishedGuard`, ...) and one commit (`CommitEntry`, `CommitFinished`, ...)
for each kind of append, both translated from `reducer.rs`; `Guard(e)` and
`Apply(e)` are all that changes the journal. An id is the record of the parts the
code derives it from. The guard most is about is `ToolFinishedGuard`: a
completion is accepted only if the result's parent is the assistant entry or the
result exactly one index lower.

### `HarnessRun`

| Actions | Code |
| --- | --- |
| `Commit`, `Reject`, `HandleFaulted` | The effects gate: drive one append, fault on refusal, refuse later work |
| `RecoverRequestAbort`, `RecoverReserve`, `RecoverAbortEntry`, `RecoverFinish` | `recover_abort` in `harness/cancel.rs` |
| `PlanReconcile`, `ReconcileTool`, `ReconcileQueued`, `ReconcileClose` | `AbortProcedure::reconcile`, with the plan read once |
| `Accept` | `accept_prompt_and_drive_on_lane`: start, user entry, first attempt |
| `ReplyWithTools`, `FinalReply`, `ProviderError` | A provider turn; the provider is a choice |
| `RecordIntent`, `JoinResult`, `JoinFailure`, `JoinRejected`, `Joined` | The dispatcher: policy, intent, concurrent tasks joined in order |
| `PersistResult`, `BatchPersisted` | Tool messages written before the next provider turn |
| `SettleMissing`, `SettleCall`, `Settled` | `record_completed_tools` |
| `FinishCompleted`, `ScheduleRetry`, `NoteError`, `FailNote`, `FailFinish` | The success and failure paths of `handle_input_inner` and `finish_harness_run` |
| `OtherParks`, `OtherCommits` | Another handle: abort request or queue edit, computed now, validated later |
| `Stop`, `Crash` | The task dropped at an await of the dispatcher or of `runtime.rs:2302` (`cancellation.rs:201`); the process gone between two appends |

A procedure's appends are parked at one step and committed one at a time, so a
crash or another handle can come between any two. The task uses two handles, as
the code does: `trace` lives for one run, `session` for the life of the process,
and a fault of the second ends the prompt because nothing more can be appended.

### `RunLedger`

The abstract specification has two variables: what each run's status is and
which calls are owed. A run opens only when none is open, incurs and pays debts
only while open, closes once and with no debt of its own; a crash is a
stuttering step. `HarnessRun` implements it under `status <- history,
owed <- started \ done`.

### Runs

| Run | Question | Bounds |
| --- | --- | --- |
| `recovery` | Is every append the program computes accepted, wherever stops and crashes cut a run or its recovery? Is every call of a completed run answered, and does an uncut recovery close the run? | 1 run, 2 tool turns, batches of 1 or 2 calls with rejected ones last, 2 crashes, 1 stop; 27k states |
| `failures` | What holds when tool tasks die, calls are rejected before accepted ones, and another handle aborts and edits the queue? | 2 runs, batches of 2 calls or of 3 with a rejected one between accepted ones, 1 queued message, 1 crash, 1 stop; 846k |
| `wedged` | Does recovery close a run in which a call was rejected before an accepted one? (It does not.) | 1 run, all batches, 1 crash, no task dies |
| `siblings` | Is every settled sibling committed before a failure is surfaced? (It is not.) | 1 run, 2 calls, a dying task, neither stop nor crash |

Two runs are enough for what relates a run to the next one (a fresh id, an open
run found by a new prompt, entries chained across runs); two calls per batch for
first and successor in the chaining rule, three for a rejected call between two
accepted ones; two turns for "last batch" to differ from "a batch"; two crashes
for a crash during recovery from a crash. `failures` does not ask for
`NothingRefused`, which these failures break.

Properties: `NothingRefused` (no gate ever faults: procedures and guards agree),
`OpenRunIsLive`, `LinearTranscript` (no two entries share a parent: a fork would
hide a branch from the model), `AppendOnly`, `CompletedRunsAnswered`,
`ClosedRunsSettled`, `ImplementsLedger`, the liveness property
`RecoveryClosesRun`, and two about a batch that fails. `SettledSiblingsCommitted`
is what `tool_dispatcher.rs:763` says of it, and the run `siblings` refutes it:
when the task of call 0 dies, the result call 1 returned is refused.
`PrefixCommitted` is what does hold, with every failure switched on: a failure
costs the results above it and never one below it.

*Fairness.* `WF_vars(Driven)`: a task that has begun is polled by the tokio
executor and its gate drains; nothing is assumed of prompts, stops, crashes or
other handles. A provider that never answers is outside the model: it either
replies or fails.

### What is proved (`HarnessRun_proofs`, `HarnessTranscript_proofs`)

For every set of runs, batches and items and every value of the bounds:

* `TypeCorrect`: `TypeOK`. It is not inductive alone, since procedures use `cur`
  as a run; `TaskTypeOK` adds `CurIsRun`, that `cur` is a run wherever the
  program counter says so.
* `RunsBalanced` and `OpenRunTracked`: `ClosedRunsSettled` and `OpenRunIsLive`. The invariant is
  `Accounting`, which is `Balanced` (both properties, and `done \subseteq
  started`) and `StartsFresh`: a parked start record is for a run that has none
  yet. Without the last a run could be reopened by an append that was computed
  before a crash. `ApplyBalanced` shows that any append that passes its guard
  keeps `Balanced`, so the result needs nothing of how procedures compute.
* `JournalAppendOnly` and `JournalImplementsLedger` follow from the same
  invariant; the second is a step simulation of `RunLedger` by each commit.

* `TranscriptLinear` and `CompletedAnswer`: `LinearTranscript` and
  `CompletedRunsAnswered`, whatever fails or is rejected. The invariant `Chained`
  has a part for the journal alone (linear, every parent known, a completed run
  answered), one for what the task knows at each step (which calls of the batch
  are started, which result is the leaf), and one for the parked appends: an
  entry is parked on the leaf or on something that is not in the transcript, in
  which case it will be refused, and a terminal record that says `Completed`
  promises that its run is answered, whatever a stop or another handle does
  before it is committed.
* `PrefixAlways`: `PrefixCommitted`, with no hypothesis. The invariant `Prefix`
  follows the join: what is parked there are the result and the completion of the
  call just joined (`JoinParked`), and every call below whose lower siblings all
  settled has its completion already (`PrefixDone`), so that the guard accepts
  the next one.
* `AppendsAccepted`: `NothingRefused`, under the hypothesis `Undisturbed`. The invariant
  `Ready` says of every parked append why it will pass its guard: an entry's
  parent is the leaf, a completion's result is in the transcript or parked just
  before it, tools were started in index order, and a started tool without a
  result is the next to be recorded on the leaf or follows one that has none
  either. It is inductive on top of `Chained` and `Accounting`.

`Undisturbed` is three conditions on the constants, and each is needed, because
without it the code does refuse an append of its own:

* *the rejected calls of a batch come last*: `wedged` shows what an earlier one
  does (section 8);
* *no tool task dies*: `siblings` shows a batch with a dead task;
* *every queued message is one for the next run* (`Items \subseteq
  NextRunItems`): other messages are cancelled by `AbortProcedure::reconcile`
  from the queue it read once (`procedure.rs:1329`); if another handle cancels or
  consumes one before the plan gets to it, `QueueCancelled` is refused and the
  session's gate faults. TLC finds it in 20 steps with one such item, a stop and
  a crash.

So this theorem is about the undisturbed path, with stops and crashes anywhere;
beyond it the unconditional theorems are what holds.

The other assumptions are the named ones on the constants. `RecoveryClosesRun`
is liveness and is only model-checked.

## 3. The work scheduler

`WorkScheduler` has durable state (`minted`, `body`, `queued`, `runOpen`,
`written`: what the journal knows), volatile state (`wakes`, the call `op[u]`
each user is in, the `holder` of the agent and its `pc`, `batch` and `item`, the
`recorder` and the flags, and `held`: what the runtime keeps after a write of it
failed) and history variables (`given`, `returned`,
`orphaned`, `doubled`, `lost`) that only the properties read. An entry is the
number under which it was minted; `body` says which message it carries, because
re-routing gives a message a new entry. Each action is one journal transaction
or one critical section on the wakes.

| Actions | Code |
| --- | --- |
| `QueueInput`, `ScheduleWake` | `enqueue` of the work handle: durable entry, then the wake |
| `DropLookup`, `DropCancel`, `DropTake` | Dropping a pending input and returning its content |
| `SteerLookup`, `SteerCopy`, `SteerCancel`, `SteerUndo`, `SteerTake` | Re-routing: copy, cancel the original, compensate if it was gone |
| `Prompt`, `PromptNative`, `PromptAcp`, `Supervise` | An interactive turn, which first reconciles an open run, or the supervisor takes the agent |
| `Drain`, `Consume`, `Write`, `Give`, `RunDone`, `Finish` | The native executor, which drains all wakes before it runs the first |
| `ConsumeFails`, `WriteFails`, `TakeHeld` | A consumption or a write that fails: the wake is dropped (`scheduler.rs:199`), or the message kept for the next turn (`runtime.rs:558`) |
| `Peek`, `Lookup`, `AwaitPending`, `Accept`, `Settle`, `TurnDone`, `Pop` | The ACP executor, one wake at a time |
| `Stop`, `Crash` | Stop aborts an interactive turn only; a restart rebuilds wakes from the journal |

The run `scheduler` has two users and two entries, so that every two calls race
on one entry and a re-routed message has its second entry, one prompt, one Stop
and one restart, either provider, and a session that was left with an open run or
not (764k states). Reconciling that run gives up the queue or, as
`cancel.rs:203` may, leaves it. Failing consumptions and writes are not bounded.
`GivenOnce`, `NothingDropped`, `NativeDroppedNeverRun`, `NativeWakeKept`,
`TurnWritesFirst` and the liveness property `QueuedServed` each name their
exceptions (`doubled`, `lost`, `orphaned`): the places where two halves of a move
are cut by a crash or a Stop, and the wake a failed consumption drops. The
exceptions are set by exactly those actions.

*Fairness.* Weak fairness of each user's call that has begun, of the driver's
next step, and of `Supervise` (the supervisor task sits in a loop on a notify
that keeps a permit). Queueing, stopping and prompting are free. That a driver
always takes its next step assumes that every model turn ends.

`dropped_runs` shows a divergence, see section 8.

Proved in `WorkScheduler_proofs`, for any users, entries, either provider and
any bounds: `TypeCorrect`, `InputsGivenOnce`, `NothingForgotten`,
`DroppedStayDropped`, `WakesKept` and `TurnsWriteFirst` (each of the safety
properties above). One invariant gives them all:

* `Shape`: the types, and what each call and the driver have in hand (what a
  call cancelled is gone from the queue for good, two calls never hold the same
  copy, the driver's item has left the queue).
* `AllAnnounced`: with the native agent every queued entry has a wake, is in the
  batch, was orphaned by a Stop or a failed consumption, or is owed its wake by a
  user's call.
* `Paid`: a message is claimed (queued, with the driver, held by the runtime, on
  its way back to the user, returned, or given) at most once more than it is being re-routed, unless
  `doubled`. Counting is needed: two users can move one message, one of them by
  the copy of the other, and that no copy is given twice only follows from how
  many there are.
* `AcpOnce`: with an ACP agent a message is queued or at hand only until given.
* `Firm` and `Backed`: the message of every entry is kept somewhere or has a
  queued entry that is not a copy its call may still take back; and so has a
  message whose original is about to be cancelled, counting the copy itself.

`QueuedServed` is liveness and stays with TLC, as does the property of the run
that ends in a counterexample.

## 4. Turn control

`TurnControl` follows a turn from three sides: its caller (`Begin`, `Spawn`,
`Track`, `Send`, `CallerClears`), its task (`Arm`, `LockAgent`, `Release`,
`DropAborted`, `CleanUp`, `TaskClears`) and a stopper (`Stop`, which takes the
registration, `Abort`, which aborts its task, and `StopClears`). The agent may be
locked twice, for a preselected setting and for the turn or the error of that
preselection. `finish_generation` is two steps because the flag and the status
are stored separately. The constant `Surfaces` picks who drives the session: the
chat surfaces clear the flag themselves after a Stop, automation leaves that to
the task.

The run `turn_control` has three turns and two stoppers (an old turn cleaning up,
one running, one starting; two Stops that overlap) and one Stop whose journal
write fails: 648k states. `ActiveIsLive`, `RunningIsStoppable`, `QuietIsFree`,
`AutomationGateSound`, the action property `OnlyOwnerClears` and the liveness
property `GenerationEnds` hold; between the two steps of a Stop a turn is neither
registered nor aborted yet, and `Doomed` counts it as about to be. Fairness is weak, for each caller, task and
clearing Stop; it assumes that a turn which holds the agent ends, because its
provider replies or fails. `GenerationEnds` excludes, by name (`Unguarded`), a case the code has:
a task that is aborted after its registration was sent and before it resumed has
no cleanup guard yet, and if the stopping surface leaves the flag to it, the flag
stays up.

Proved in `TurnControl_proofs`, for any sets of turns and stoppers:

* `TypeCorrect`, `ActiveTurnsLive` (`ActiveIsLive`), `Stoppable`
  (`RunningIsStoppable`) and `OwnersClear`, from `Registered`: what caller and task know about the
  registration at each of their steps, in particular that a live task which was
  sent its registration is registered or doomed.
* `AutomationGate`, from `OneOwner`: with automation at most one turn is between
  claiming the flag and clearing it.
* `RestIsFree` (`QuietIsFree`), from `Answered`: whoever may leave the flag or
  the status up has a caller, task or Stop still under way that will clear it.

`GenerationEnds` is only model-checked.

## 5. The journal file

`DurableLog` says what the harness takes for granted: the journal is a set of
numbered batches, a batch appears in one step with all its items and above
everything there, may then be acknowledged, and only a crash takes batches away,
the newest first and never an acknowledged one.

`JournalFile` is the file that has to keep this promise. `file` is the sequence
of lines on disk, a line the sequence of pieces written to it (frame sentinel,
JSON, marker), a piece whole or cut; `synced` the position up to which a power
loss takes nothing; `handle[h]` the projection of an open store; `writer` the
append that holds the claim's gate, with the pieces it still has to write.

| Definitions and actions | Code (`runtime/src/harness/jsonl.rs`) |
| --- | --- |
| `Parses`, `FrameFragment`, `EndsEarly`, `SetAside`, `Recoverable` | How the strict reader classifies a line |
| `Open`, `Refresh`, `Folds`, `Loads` | Opening; folding a tail onto the projection or reading everything again |
| `Begin`, `Boundary` | An append made fresh, numbered, and the end of the last line prepared |
| `Write`, `Sync`, `Commit` | The line, `sync_data`, the incremental commit to the projection |
| `IoError`, `Crash` | A write or sync that fails; a process or power loss, which keeps any prefix after the last sync |

The run `journal` has two handles of one process, three appends of one or two
items and three faults: enough for a torn line, an append after it that is torn
in turn, and a third that has to read both, through either handle. Handles are
symmetric. Every piece can be cut, the marker included (220k states).
`NeverBricked` (the file opens unless its last line ends in part of a marker), `Coherent` (a handle that
thinks itself fresh has exactly what a full read would find) and `ImplementsLog`
(a refinement of `DurableLog`, under `log <-` what a strict read finds) hold.

Taken from the code's environment: `sync_data` of the file makes it reachable
(the directory is not synced); a later sync covers earlier bytes; the writer
lock keeps other processes out, so the branch for a foreign writer's interleaved
sequence (`jsonl.rs:987`) is not reached; the length alone stands for the
length-and-time fingerprint; a batch is never retried under the same ids,
because an I/O error faults the handle's gate.

*The exception.* The comment at `jsonl.rs:1283` says the marker is there "so the
next strict read can skip it instead of bricking the whole session". A fault in
the write of the marker itself (`jsonl.rs:1288`), of a few bytes, is the case that
does not cover: a line that ends in half a marker is neither cut JSON nor set
aside, no handle can read it, and so none appends the rest. `MarkerCut` names
this case and `NeverBricked` says that there is no other; that the file does not
open in it TLC finds in six steps when the disjunct is taken away.

Proved in `JournalFile_proofs`, for any handles, batches, appends and faults:

* `TypeCorrect`, `HandlesCoherent` (`Coherent`), `JournalImplementsLog`
  (`ImplementsLog`) and `OpensAgain` (`NeverBricked`), with no assumption on where
  writes are cut.

The invariant: every line is empty, parses, or is the fragment of one with
markers behind it, all but the last have their newline, and batches are numbered
in the order of lines (`FileForm`); an open handle knows exactly the batches up
to the position it recorded, whatever was appended since (`HandlesOK`);
everything acknowledged lies before the last synced position (`SyncedOK`); and
the append in progress has the pieces left that its line still needs
(`WriterOK`). `OpensAgain` follows from `FileForm`; `HandlesCoherent` follows
because what a handle folds from its position on is what a full read finds
there. No induction over lines is needed: a fault leaves a prefix of the file,
which ends at one of its `Positions`, with at most one torn piece more.

## 6. The subagent hub

`SubagentHub` has the hub's maps (`roster`, `killed`, `inbox`, `boxes`,
`broadcasts`), what the journal knows of each lane (`op`, `aborted`), a worker
for each run of a lane (`work`), the results kept for the parent (`sink`) and the
parent's calls in progress (`kill`, `revive`). `posted` numbers the messages,
`taken` records who read them, and `lost` which of them a refused revival dropped.

| Actions | Code |
| --- | --- |
| `StartLane`, `StartFails`, `Register` | Starting a lane and listing it in the hub, with the replay of broadcasts |
| `PeerSends`, `PeerBroadcasts`, `ParentSends` | `message_peer` and `hub send`, with the resolution of roles |
| `TurnEnds`, `Boundary`, `FollowUp`, `KilledExit`, `WorkFails` | The worker's turns: kill check, inbox drain, follow-up |
| `Commit`, `Finish`, `CommitFails`, `Settle`, `ParentCommits` | The end of a run, by the worker and again by the parent |
| `KillBegins` ... `KillEnds` | `kill_lane`, in its sections, and `finish_subagent_lane`, which looks whether the run is open (`KillAborts`) and appends its end later (`KillCloses`) |
| `ReviveBegins`, `ReviveDrains`, `ReviveRefused`, `ReviveResumes`, `ReviveStrands` | `revive_lane` |

The run `hub` has two lanes that share a role or have one each, two runs of a
lane, two messages, two calls of the parent and one journal write that fails,
with inboxes and retained broadcasts of depth one, so that both overflow (2.4
million states). The calls are about one lane and the messages come from the other: the state space
would otherwise square without a new kind of race, and each call is about one
lane only.

`DeliveredOnce` accounts for every message: it is in one inbox, given to one run,
held by a revival, or evicted or filtered, and in none of these only if a refused
revival dropped it. `NotesKept` says that there is no such message, as the comment
of `revive_subagent_lane` does, and the run `lost_notes` refutes it. `OneRunner`,
`LiveIsOwed`, `KilledStaysKilled` and `SettledByOwn` are about the end of runs.
These four are proved in `SubagentHub_proofs`, for any lanes, roles and
bounds. The invariant `Sound` joins them to three facts they need: runs of a lane
are started in order (so a revival is a fresh run), the run a lane shows was
started, and a result in the sink is of a worker that is past its run
(`SinkIsOver`, without which the parent's second commit could end a run under
its worker). `StepForms` first reduces the steps to those that only talk, those
in which a worker goes on, and those that begin, commit, settle or kill a run;
each of the last has a lemma.

`SubagentMessages_proofs` builds on it and proves `TypeCorrect` and
`MessagesDeliveredOnce` (`DeliveredOnce`). Its invariant `MessagesOK` says that
no inbox and no list of retained broadcasts repeats a message, that only a
revival that has drained holds notes, and (`PlacedOnce`) that a direct message or
a notice is in exactly one place (an inbox, read or evicted there, held by a
revival, or lost by one), while a broadcast reaches each sibling at most once and
waits for no role; `LostOK` adds that only what was read can be lost. The replay of broadcasts to a lane that registers is stated as the sequence
of those meant for it in the order they were sent (`InOrder`): what the code's
filter returns, said without recursion, so that it can be proved about.

Abstractions: completed and failed are both `ended`; a worker drains its lane's
and its role's inbox in one step, and `message_peer` sends and reads in one step
(what others send in between might as well have come first); a lane of a fusion
contract is always refused after draining; a restart of the process loses the hub
and is not modelled, nor is the recovery of interrupted lanes.

## 7. Automations

`Automations` has the store (`mem`, the snapshot; `disk`, the snapshots a power
loss may bring back, among them those of writes that failed late), the actor (`pc`, `active`, `shown`, the events and answers it has not
read), and, per run, its task (`turn`) and its session journal. The actor handles
one thing to the end, in one step per write.

| Actions | Code |
| --- | --- |
| `SetEnabled`, `RunNow`, `CancelActive`, `CancelOther`, `Resolved` | Commands (`daemon/src/automation.rs`) |
| `Tick`, `Enqueue`, `Dispatch` | `schedule`: the hour's limit, occurrences that are due, the claim of the next run |
| `NotPrepared`, `Prepared`, `Asked`, `AgentError`, `Finished` | Events of the run |
| `Record`, `Close` | `finish`: the outcome in the journal, then in the store |
| `Prepare`, `Arm`, `StartOperation`, `Report`, `Ask`, `TurnEnds`, `TurnDropped`, `Answer` | The run's task and the user |
| `Crash`, `Boot`, `Recover` | Restart: each claimed run ended from what its journal says |
| `Commits`, `CommitFails` | `commit` of `automation/src/lib.rs`: it fails before or after the file is replaced |

The run `automations` has two interval schedules, one of them in a worktree, two
runs, a period of 1 and a pause after one failure; the budgets pair a crash with
one or two failing writes, a command with a crash or a failing write, or two
requests to the user with a failing write (`AutomationsMC`; 3.9 million states).
`DispatchedOnce`, `Tracked`, `OccurrencesOnce`, `EndIsTrue` and `LatestIsShown`
hold, and no state is stuck: the actor can always tick. `AskedIsShown`, that
every request the agent waits for is shown, is what the plan of the feature asks
for, and the run `permission` refutes it.

Abstractions: schedules are intervals (no calendar, no manual ones); the clock
does not go back, and passes only while the actor is idle; an abort stops the
task at once; a fresh runtime's `spawn_interactive_turn` does not fail (its error
path, `daemon/src/automation.rs:473`, needs a session that is already busy); review,
retention, editing and deleting definitions and creation from a chat are left
out.

Proved in `Automations_proofs`, for any definitions, schedules, worktrees and
budgets of commands, failing writes, crashes and requests: `TypeCorrect`,
`RunsDispatchedOnce`, `ClaimsTracked`, `NoOccurrenceTwice`, `EndsAreTrue` and
`LatestRequestsShown` (`LatestIsShown`). A crash puts a state on disk in the place
of the one in memory, so the invariant says once, as `Snap`, what a snapshot has to
satisfy, and requires it of every one the disk may hold: it knows of every dispatch (`SnapKnows`), no occurrence
in it is in the future or as late as the next one (`SnapDue`), and what it says
of an ended run agrees with the run's journal (`SnapTrue`). `Tasks` relates the
run's task, its journal and the actor's queue of events, in which the end of a
preparation and that of a turn come once; `TracksOK` says, while the actor is up,
that a claimed run which is not the actor's was never dispatched; `RequestsOK`
relates the pending requests to the events not yet read. That every claimed run
ends is liveness and is not stated (section 10).

What these properties had to leave room for, each visible in the definitions: a
claim whose commit fails late is tracked by nobody until a restart or a Cancel
(`Tracked`); a session has one place for a permission request, so of two asked
together only the later is shown (`LatestIsShown`); a turn aborted before its
guard exists reports nothing and blocks the actor (`lost`); a worktree run whose
`running` commit failed is recovered from the stub in the project, as
interrupted (`Located`).

## 8. Where code and documentation disagree

Each of these has a run that ends in a counterexample.

1. `wedged`: with a call rejected by policy before an accepted one, the result of
   the accepted call is chained onto the nearest lower intent, and the rejected
   call's own completion onto whatever the leaf was; the reducer accepts neither.
   The gate faults, and recovery, which appends the same completion, is refused
   on every later prompt. The comment above the chaining code
   (`procedure.rs:1911`) says that it tolerates missing predecessors, and the doc
   of `recover_abort` that it reconciles the operation.
2. `siblings`: `tool_dispatcher.rs:763` says to "settle and commit siblings that
   have already begun before surfacing failure". If the first task of a batch is
   the one that died, the sibling's result is chained onto a result that was never
   written, and is refused: it was settled and is not committed.
3. `dropped_runs`: an ACP session can run an input its user dropped, between the
   lookup and the consumption of its entry.
4. `lost_notes`: a revival drains the notes of its lane before it may be refused,
   and drops them with the refusal; the comment above says that such a note "is
   not lost" (`subagents.rs:957`).
5. `permission`: of two permissions asked at once the second replaces the first
   (`daemon/src/automation.rs:485`), which the agent waits for unseen; the plan
   says to "retain visible requests" (`docs/automation-feature-plan.md:80`).

Seen in the models, without a run of their own:

* A failed batch is noted with an error message before the run is finished;
  finishing is refused because a tool is incomplete, and recovery then parents the
  synthesized result on the error message, which the reducer refuses, for this
  prompt and every later one: a second way into the state of `wedged`.
* What the supervisor runs outside any run reaches the model but has no recorder,
  so neither message nor reply is written (`TurnWritesFirst` is stated for
  interactive turns for that reason).
* A file whose last line ends in part of a marker does not open (section 5).
* A queued message that another handle cancels or consumes between reconcile's
  reading of the queue and its `QueueCancelled` faults the session's gate
  (section 2, `Undisturbed`).
* In chat a Stop before the registration (`daemon/src/chat.rs:249`), or the late
  cleanup of a stopped turn, clears the `is_generating` flag of a turn that is
  running; `controller.rs:662` documents the flag otherwise. `AutomationGateSound` is
  stated for automation only for that reason.
* With an ACP agent a wake that belongs to another entry may be popped;
  `NativeWakeKept` and `QueuedServed` are stated for the native agent for that
  reason.
* The hub flags a role together with a lane, so that a kill ends every live lane
  of the role; a kill between
  the boundary's check and the drain gives the worker one more turn, and a
  revival may clear a flag nobody has seen; a failed abort record can list a
  worker that is still running as settled; `ReviveStrands` leaves a run open with
  no worker.

Hazards of the code that are known and have no property are in the hazard list
with a note. A few smaller ones are only named here: a run may end with
incomplete tools on the cancel path by `OperationProcedure::finish`'s own rules
(`cancellation.rs:221`); deferred writes applied before a reconcile's synthesized
results (`procedure.rs:1338`); a journal error kept by one run and cleared only
inside the next (`runtime.rs:1630`); a re-routed entry scheduled behind every
wake (`scheduler.rs:375`); an entry consumed between lookup and append
(`harness/runs.rs:61`); a Stop that cannot end work the supervisor runs
(`cancellation.rs:172`).

## 9. Abstractions that matter

* In `HarnessRun` an append is atomic and every handle sees it at once:
  `HarnessLane` stands for the projection *and* the file. That the file keeps
  this is what `JournalFile` shows, by `ImplementsLog`; the two are joined by
  that abstract specification, not in one state space.
* Contents, timestamps, usage, context snapshots, facts and traces are left out;
  a transcript entry is its id, its parent and the calls it declares.
* Deferred writes, navigation (`LaneMoved`) and the records of other lanes are
  left out of `HarnessLane`: the main lane only grows at its leaf. `SubagentHub`
  keeps of a child lane's journal the open run and how it ended. Compaction and
  fusion routing are not modelled.
* In `WorkScheduler` the run is reduced to its queue-related steps; in
  `TurnControl` to holding the agent; in `Automations` to what its journal says
  at its end. The modules share the code's interfaces (a run's acceptance and
  end, the agent's lock, an append) and are not composed in one state space.

*Not modelled*: the parts listed as such in `PROJECT.json`, with the reason. Most
of the repository's lines are user interface, clients, providers, parsers and
wrappers over other programs: conversions, layout and I/O without a protocol that
a state machine would say anything about.

## 10. Plan

Done: harness core, turn control, subagent hub, work scheduler, journal file and
automations are modelled and model-checked. Every safety invariant, action
property and refinement that a passing run checks is also a theorem, and one of
them (`NothingRefused`) has a hypothesis on the constants, which the code needs
and the run's instance meets.

1. Proofs: `NothingRefused` with messages that only the recovery edits.
2. Replay claims and the recovery of interrupted lanes on top of a lane per
   child; the permission and question brokers; event cursors between daemon and
   client.
3. Liveness of `Automations`: every claimed run ends, under the fairness of the
   actor's select and with the lost turn as the named exception.

Out of the prover's reach, and left to TLC: liveness under fairness, `ENABLED`,
and facts that need induction over data. Liveness is `RecoveryClosesRun`,
`QueuedServed` and `GenerationEnds`. No module uses `RECURSIVE`: where the code
filters a sequence, the module says which sequence results by its order and its
members.

## 11. Running

    tlc -workers 2 -config HarnessRunRecovery.cfg HarnessRunMC
    tlc -workers 2 -config WorkScheduler.cfg WorkSchedulerMC
    tlc -workers 2 -config TurnControl.cfg TurnControlMC
    tlc -workers 2 -config JournalFile.cfg JournalFileMC
    tlc -workers 2 -config SubagentHub.cfg SubagentHubMC
    tlc -workers 2 -config Automations.cfg AutomationsMC
    tlapm HarnessRun_proofs.tla
    tlapm HarnessTranscript_proofs.tla
    tlapm WorkScheduler_proofs.tla
    tlapm TurnControl_proofs.tla
    tlapm JournalFile_proofs.tla
    tlapm SubagentHub_proofs.tla
    tlapm SubagentMessages_proofs.tla
    tlapm Automations_proofs.tla

Deadlock checking is on for `Automations`, whose actor ticks for ever, and off
elsewhere: with the bounds used up (prompts, stops, crashes, fresh runs,
messages, appends) an idle system really stops. `PROJECT.json` lists for each
definition the lines it models, for each hazard of the code the properties that
cover it, and for each property a mutant of the model that it detects; mutants
stand in the modules next to the definition they mutate.
