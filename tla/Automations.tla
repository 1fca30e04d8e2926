------------------------------ MODULE Automations ------------------------------
(***************************************************************************)
(* Scheduled runs of the agent: the stored definitions and runs            *)
(* (threadlane-automation), the actor that schedules and dispatches them   *)
(* (daemon/src/automation.rs), and what it learns of a run from the run's  *)
(* own session journal (coding-agent/src/automation.rs).                   *)
(*                                                                         *)
(* The actor is one task: it selects a command, an event or a tick and     *)
(* handles it to the end.  A handler is a sequence of steps here, one for  *)
(* each write, because a write may fail and the process may stop between   *)
(* two of them.  A write of the store replaces the file and then syncs the *)
(* directory; it can fail before the replacement, which changes nothing,   *)
(* or after it, which is an error to the caller for a change that is made  *)
(* but may be lost with the machine.                                       *)
(*                                                                         *)
(* Runs are numbered in the order they are queued, requests to the user in *)
(* the order they are asked.  Schedules are intervals.  The order in which *)
(* the questions of a session are shown is left out.                       *)
(***************************************************************************)
EXTENDS Integers, Sequences, FiniteSets, SequencesExt

CONSTANTS
  Defs,
  Worktrees,      \* definitions whose runs work in a worktree of their own
  Period,         \* the interval of the schedules
  PauseAfter,     \* failures that pause a schedule (3 in the code)
  MaxRuns,        \* bound: runs
  Budgets         \* bound: how far the clock goes and how many requests to the
                  \* user, commands, crashes and failing writes there are

ASSUME AutomationsAssumption ==
  /\ Worktrees \subseteq Defs
  /\ Period \in Nat \ {0}
  /\ PauseAfter \in Nat \ {0}
  /\ MaxRuns \in Nat
  /\ Budgets \subseteq [time : Nat, asks : Nat, commands : Nat, crashes : Nat, faults : Nat]

VARIABLES
  clock,
  mem,          \* the snapshot: definitions and runs
  disk,         \* the snapshots the machine may find in the file when it starts:
                \* the latest one synced and those written since
  pc,           \* where the actor is
  active,       \* the run the actor has dispatched
  events,       \* what the run has reported and the actor has not read
  shown,        \* the requests the actor shows to the user
  answered,     \* answers the actor has not been told of
  journal,      \* per run: what its session file holds
  turn,         \* per run: its task
  asker,        \* the requests made so far: of which run, and their kind
  waiting,      \* requests an agent waits for
  dispatches,   \* per run: how often it was dispatched
  left          \* what is left of the budget

store == <<mem, disk>>
requests == <<shown, answered, asker, waiting>>
agent == <<journal, turn, dispatches>>
vars == <<clock, store, pc, active, events, requests, agent, left>>

RunIds == 1 .. MaxRuns
Asks == 1 .. Len(asker)
Claimed == {"starting", "running", "waiting"}
Ended == {"succeeded", "failed", "cancelled", "interrupted"}
NoRun == [run |-> 0, runtime |-> FALSE, cancellation |-> "none", completion |-> "none",
          error |-> FALSE]
NothingShown == [permission |-> 0, questions |-> {}]

Status(r) == mem.runs[r].status
Stored == DOMAIN mem.runs

-----------------------------------------------------------------------------
(* The store: what each operation makes of a snapshot s.                   *)

\* Schedule::next: the first instant of the grid after `at`.
NextAt(at, anchor) ==
  anchor + (IF at < anchor THEN 1 ELSE (at - anchor) \div Period + 1) * Period

\* Schedule::latest_due: missed occurrences collapse into the latest one.
LatestDue(due, at) == due + ((at - due) \div Period) * Period

Busy(s, d) ==
  \E r \in DOMAIN s.runs : s.runs[r].def = d /\ s.runs[r].status \in Claimed \union {"queued"}

Queued(s, d, due) ==
  [s EXCEPT !.runs = Append(@, [def |-> d, due |-> due, status |-> "queued", file |-> "none"])]

\* A mutant of Due: the occurrence after the one that is queued, not the one
\* after the present.
DueStepwise(s, d, at) ==
  LET def == s.defs[d]
  IN  Queued([s EXCEPT !.defs[d].next = NextAt(def.next, def.anchor)], d, LatestDue(def.next, at))

\* enqueue of a schedule that is due.
Due(s, d, at) ==
  LET def == s.defs[d]
  IN  Queued([s EXCEPT !.defs[d].next = NextAt(at, def.anchor)], d, LatestDue(def.next, at))

\* A mutant of Paused: the schedule keeps its next occurrence.
PausedKeepsNext(def) ==
  IF def.failures >= PauseAfter THEN [def EXCEPT !.on = FALSE] ELSE def

Paused(def) ==
  IF def.failures >= PauseAfter THEN [def EXCEPT !.on = FALSE, !.next = 0] ELSE def

Counted(def, st) ==
  Paused([def EXCEPT !.failures =
            IF st \in {"failed", "interrupted"} THEN @ + 1
            ELSE IF st = "succeeded" THEN 0 ELSE @])

\* update_run: a run that has ended keeps its status.
Updated(s, r, st, f) ==
  LET run == s.runs[r]
  IN  IF run.status \in Ended THEN s
      ELSE [defs |-> IF st \in Ended THEN [s.defs EXCEPT ![run.def] = Counted(@, st)] ELSE s.defs,
            runs |-> [s.runs EXCEPT ![r] =
                        [def |-> run.def, due |-> run.due, status |-> st,
                         file |-> IF f = "none" THEN run.file ELSE f]]]

\* save, of a definition that is new or whose switch is turned.
Saved(on, at) ==
  [on |-> on, anchor |-> at, failures |-> 0, next |-> IF on THEN NextAt(at, at) ELSE 0]

\* set_enabled: pausing cancels what the schedule has queued.
Toggled(s, d, on, at) ==
  [defs |-> [s.defs EXCEPT ![d] = Saved(on, at)],
   runs |-> [r \in DOMAIN s.runs |->
               IF ~on /\ s.runs[r].def = d /\ s.runs[r].status = "queued" /\ s.runs[r].due > 0
               THEN [s.runs[r] EXCEPT !.status = "cancelled"] ELSE s.runs[r]]]

Fault == left.faults > 0 /\ left' = [left EXCEPT !.faults = @ - 1]

\* commit: it succeeds; or it fails, before or after the file is replaced.
Commits(s) == mem' = s /\ disk' = {s}
CommitFails(s) == mem' \in {mem, s} /\ disk' = disk \union {mem'} /\ Fault

-----------------------------------------------------------------------------
(* What a run's journal says of it.                                        *)

NoJournal == [op |-> "none", report |-> "none", outcome |-> "none"]

\* durable_result: completing the operation is not enough, the agent has to
\* have reported the task as done.
Durable(r) ==
  CASE journal[r].op = "completed" ->
         IF journal[r].report = "succeeded" THEN "succeeded" ELSE "failed"
    [] journal[r].op = "failed" -> "failed"
    [] journal[r].op \in {"aborted", "abort_requested"} -> "cancelled"
    [] OTHER -> "none"

\* The session file the store knows: a worktree's own file only once the run
\* is stored as running, before that the stub in the project.
Located(r) ==
  \/ mem.runs[r].file = "session"
  \/ mem.runs[r].file = "stub" /\ mem.runs[r].def \notin Worktrees

\* A mutant of RecoveredStatus: the recorded outcome is not consulted.
RecoveredFromOperation(r) ==
  IF Located(r) /\ Durable(r) # "none" THEN Durable(r) ELSE "interrupted"

\* recover: the recorded outcome, else the operation's, else interrupted.
RecoveredStatus(r) ==
  IF ~Located(r) THEN "interrupted"
  ELSE IF journal[r].outcome # "none" THEN journal[r].outcome
  ELSE IF Durable(r) # "none" THEN Durable(r) ELSE "interrupted"

\* Event::Finished: a cancellation wins over what the journal says.
FinalStatus(r) ==
  IF active.cancellation # "none" THEN active.cancellation
  ELSE IF Durable(r) = "cancelled" THEN "cancelled"
  ELSE IF active.error \/ Durable(r) = "failed" THEN "failed"
  ELSE IF Durable(r) = "none" THEN "interrupted" ELSE "succeeded"

-----------------------------------------------------------------------------
Init ==
  /\ clock = 0
  /\ \E on \in [Defs -> BOOLEAN] :
       mem = [defs |-> [d \in Defs |-> Saved(on[d], 0)], runs |-> <<>>]
  /\ disk = {mem}
  /\ pc = "select"
  /\ active = NoRun
  /\ events = <<>>
  /\ shown = NothingShown
  /\ answered = {}
  /\ journal = [r \in RunIds |-> NoJournal]
  /\ turn = [r \in RunIds |-> "none"]
  /\ asker = <<>>
  /\ waiting = {}
  /\ dispatches = [r \in RunIds |-> 0]
  /\ left \in Budgets

-----------------------------------------------------------------------------
(* The task of a run, and its agent.                                       *)

Emit(e) == events' = events \o e

TaskFrame == UNCHANGED <<clock, store, pc, active, shown, answered, dispatches>>

\* prepare: the session is created, or it cannot be.
Prepare(r) ==
  /\ turn[r] = "preparing"
  /\ turn' = [turn EXCEPT ![r] = "prepared"]
  /\ \E ok \in BOOLEAN : Emit(<<[kind |-> "prepared", run |-> r, ok |-> ok]>>)
  /\ TaskFrame /\ UNCHANGED <<journal, asker, waiting, left>>

\* The turn has its cleanup guard; its operation starts.
Arm(r) ==
  /\ turn[r] = "sent"
  /\ turn' = [turn EXCEPT ![r] = "armed"]
  /\ TaskFrame /\ UNCHANGED <<events, journal, asker, waiting, left>>

StartOperation(r) ==
  /\ turn[r] = "armed"
  /\ turn' = [turn EXCEPT ![r] = "operating"]
  /\ journal' = [journal EXCEPT ![r].op = "open"]
  /\ TaskFrame /\ UNCHANGED <<events, asker, waiting, left>>

\* report_automation_result: during the operation, and the last one counts.
Report(r) ==
  /\ turn[r] = "operating"
  /\ \E res \in {"succeeded", "failed"} : journal' = [journal EXCEPT ![r].report = res]
  /\ TaskFrame /\ UNCHANGED <<events, turn, asker, waiting, left>>

\* Tool calls of one batch may ask at the same time.
Ask(r) ==
  /\ turn[r] = "operating" /\ left.asks > 0
  /\ left' = [left EXCEPT !.asks = @ - 1]
  /\ \E kind \in {"permission", "question"} :
       asker' = Append(asker, [run |-> r, kind |-> kind])
  /\ waiting' = waiting \union {Len(asker')}
  /\ Emit(<<[kind |-> "asks", run |-> r, ask |-> Len(asker')]>>)
  /\ TaskFrame /\ UNCHANGED <<journal, turn>>

\* The turn ends by itself.  A failing turn may have no operation, or leave it
\* open when the journal cannot be written; and one that completes may have
\* reported an error on its way.
TurnEnds(r) ==
  /\ \/ /\ turn[r] = "operating" /\ waiting = {}
        /\ \/ journal' = [journal EXCEPT ![r].op = "completed"] /\ UNCHANGED left
           \/ journal' = [journal EXCEPT ![r].op = "failed"] /\ UNCHANGED left
           \/ UNCHANGED journal /\ Fault
     \/ turn[r] = "armed" /\ UNCHANGED <<journal, left>>
  /\ \/ journal'[r].op = "completed" /\ Emit(<<[kind |-> "finished", run |-> r]>>)
     \/ Emit(<<[kind |-> "error", run |-> r], [kind |-> "finished", run |-> r]>>)
  /\ turn' = [turn EXCEPT ![r] = "done"]
  /\ TaskFrame /\ UNCHANGED <<asker, waiting>>

\* An aborted task is dropped, and its guard tells the actor.
TurnDropped(r) ==
  /\ turn[r] = "aborted"
  /\ turn' = [turn EXCEPT ![r] = "done"]
  /\ Emit(<<[kind |-> "finished", run |-> r]>>)
  /\ TaskFrame /\ UNCHANGED <<journal, asker, waiting, left>>

\* The user answers a request that is shown; the agent goes on, and the actor
\* is told later.
Answer(a) ==
  /\ a \in waiting
  /\ a = shown.permission \/ a \in shown.questions
  /\ waiting' = waiting \ {a}
  /\ answered' = answered \union {a}
  /\ UNCHANGED <<clock, store, pc, active, events, shown, asker, agent, left>>

\* runtime.cancel: the task is aborted whatever happens to the journal.  One
\* without its guard leaves nothing behind, not even a `finished`.
TurnAborts(r) ==
  /\ turn' = [turn EXCEPT ![r] = CASE @ = "sent" -> "lost"
                                   [] @ \in {"armed", "operating"} -> "aborted"
                                   [] OTHER -> @]
  /\ waiting' = IF turn[r] = "operating" THEN {} ELSE waiting

AbortWritten(r) ==
  journal' = IF journal[r].op = "open" THEN [journal EXCEPT ![r].op = "aborted"] ELSE journal

AbortNotWritten(r) ==
  /\ Fault
  /\ \/ UNCHANGED journal
     \/ journal[r].op = "open" /\ journal' = [journal EXCEPT ![r].op = "abort_requested"]

-----------------------------------------------------------------------------
(* The actor.                                                              *)

\* Where schedule begins: a completion that is not stored is stored first.
Sweep(act) == IF act.completion # "none" THEN "retry" ELSE "enqueue"

ActorFrame == UNCHANGED <<clock, asker>>

\* A tick.  A run gets no hour of its own while requests are shown; the time
\* it has had is not kept, so the tick may be the one that ends it.
Tick ==
  /\ pc = "select"
  /\ \/ UNCHANGED <<active, journal, turn, waiting, left>>
     \/ /\ active.run # 0 /\ active.cancellation = "none" /\ shown = NothingShown
        /\ active' = [active EXCEPT !.cancellation = "failed"]
        /\ IF active.runtime
           THEN /\ TurnAborts(active.run)
                /\ (AbortWritten(active.run) /\ UNCHANGED left) \/ AbortNotWritten(active.run)
           ELSE UNCHANGED <<journal, turn, waiting, left>>
  /\ pc' = Sweep(active')
  /\ ActorFrame /\ UNCHANGED <<store, events, shown, answered, dispatches>>

Commanded ==
  /\ pc = "select" /\ left.commands > 0
  /\ ActorFrame /\ UNCHANGED <<events, shown, answered, dispatches>>

\* A command that is one write, followed by schedule when it succeeds.
Stores(s) ==
  /\ \/ /\ Commits(s)
        /\ left' = [left EXCEPT !.commands = @ - 1]
        /\ pc' = Sweep(active)
     \/ /\ left.faults > 0
        /\ mem' \in {mem, s} /\ disk' = disk \union {mem'} /\ UNCHANGED pc
        /\ left' = [left EXCEPT !.commands = @ - 1, !.faults = @ - 1]
  /\ UNCHANGED <<active, journal, turn, waiting>>

SetEnabled(d) ==
  /\ Commanded
  /\ Stores(Toggled(mem, d, ~mem.defs[d].on, clock))

RunNow(d) ==
  /\ Commanded
  /\ ~Busy(mem, d) /\ Len(mem.runs) < MaxRuns
  /\ Stores(Queued(mem, d, 0))

\* Cancelling the active run leaves it active until its task is gone; an error
\* of runtime.cancel leaves out the schedule.
CancelActive(r) ==
  /\ Commanded
  /\ active.run = r
  /\ active' = [active EXCEPT !.cancellation = "cancelled"]
  /\ IF active.runtime THEN TurnAborts(r) ELSE UNCHANGED <<turn, waiting>>
  /\ \/ /\ IF active.runtime THEN AbortWritten(r) ELSE UNCHANGED journal
        /\ left' = [left EXCEPT !.commands = @ - 1]
        /\ pc' = Sweep(active)
     \/ /\ active.runtime /\ left.faults > 0
        /\ \/ UNCHANGED journal
           \/ journal[r].op = "open" /\ journal' = [journal EXCEPT ![r].op = "abort_requested"]
        /\ left' = [left EXCEPT !.commands = @ - 1, !.faults = @ - 1]
        /\ UNCHANGED pc
  /\ UNCHANGED store

CancelOther(r) ==
  /\ Commanded
  /\ active.run # r /\ Status(r) \notin Ended
  /\ Stores(Updated(mem, r, "cancelled", "none"))

\* A mutant of Unshown: the permission of the session is taken down, whichever
\* was answered.
UnshownAny(a) ==
  [permission |-> 0, questions |-> shown.questions \ {a}]

Unshown(a) ==
  [permission |-> IF shown.permission = a THEN 0 ELSE shown.permission,
   questions |-> shown.questions \ {a}]

\* Command::Resolved: requests are told apart by their identity, and the run is
\* running again once none is left.
Resolved(a) ==
  /\ pc = "select" /\ a \in answered
  /\ answered' = answered \ {a}
  /\ shown' = IF active.run = asker[a].run THEN Unshown(a) ELSE shown
  /\ IF active.run = asker[a].run /\ shown' = NothingShown
     THEN LET s == Updated(mem, active.run, "running", "none")
          IN  \/ Commits(s) /\ pc' = Sweep(active) /\ UNCHANGED left
              \/ CommitFails(s) /\ UNCHANGED pc
     ELSE pc' = Sweep(active) /\ UNCHANGED <<store, left>>
  /\ ActorFrame /\ UNCHANGED <<active, events, waiting, agent>>

-----------------------------------------------------------------------------
(* The events of a run.  Those of a run that is no longer active are read   *)
(* and ignored.                                                            *)

Reads(kind) ==
  /\ pc = "select" /\ events # <<>> /\ Head(events).kind = kind
  /\ events' = Tail(events)
  /\ ActorFrame /\ UNCHANGED <<answered, journal, waiting, dispatches>>

Completes(act, st) == [act EXCEPT !.completion = st]
CancelledOr(st) == IF active.cancellation # "none" THEN active.cancellation ELSE st

\* The session could not be prepared.
NotPrepared ==
  /\ Reads("prepared") /\ ~Head(events).ok
  /\ IF Head(events).run = active.run
     THEN active' = Completes(active, CancelledOr("failed")) /\ pc' = "record"
     ELSE UNCHANGED <<active, pc>>
  /\ UNCHANGED <<store, shown, turn, left>>

\* The session is there: the run is stored as running, with its own file, and
\* its turn begins unless it was cancelled meanwhile.
Prepared ==
  /\ Reads("prepared") /\ Head(events).ok
  /\ LET r == active.run
         s == Updated(mem, r, "running", "session")
         act == [active EXCEPT !.runtime = TRUE]
     IN  IF Head(events).run # r THEN UNCHANGED <<store, pc, active, turn, left>>
         ELSE \/ /\ CommitFails(s)
                 /\ active' = Completes(act, "failed")
                 /\ UNCHANGED <<pc, turn>>
              \/ /\ Commits(s) /\ active.cancellation # "none"
                 /\ active' = Completes(act, active.cancellation)
                 /\ pc' = "record"
                 /\ UNCHANGED <<turn, left>>
              \/ /\ Commits(s) /\ active.cancellation = "none"
                 /\ active' = act
                 /\ turn' = [turn EXCEPT ![r] = "sent"]
                 /\ UNCHANGED <<pc, left>>
  /\ UNCHANGED shown

\* A request is shown before the run is stored as waiting.
Asked ==
  /\ Reads("asks")
  /\ LET a == Head(events).ask
         s == Updated(mem, active.run, "waiting", "none")
     IN  IF Head(events).run # active.run
         THEN UNCHANGED <<store, shown, left>>
         ELSE /\ shown' = IF asker[a].kind = "permission" THEN [shown EXCEPT !.permission = a]
                          ELSE [shown EXCEPT !.questions = @ \union {a}]
              /\ (Commits(s) /\ UNCHANGED left) \/ CommitFails(s)
  /\ UNCHANGED <<pc, active, turn>>

AgentError ==
  /\ Reads("error")
  /\ active' = IF Head(events).run = active.run THEN [active EXCEPT !.error = TRUE] ELSE active
  /\ UNCHANGED <<pc, store, shown, turn, left>>

Finished ==
  /\ Reads("finished")
  /\ IF Head(events).run = active.run
     THEN active' = Completes(active, FinalStatus(active.run)) /\ pc' = "record"
     ELSE UNCHANGED <<active, pc>>
  /\ UNCHANGED <<store, shown, turn, left>>

\* finish: the outcome goes to the journal, where an error is only noted ...
Record ==
  /\ pc \in {"record", "retry"}
  /\ pc' = IF pc = "record" THEN "close" ELSE "reclose"
  /\ \/ /\ journal' = IF active.runtime
                      THEN [journal EXCEPT ![active.run].outcome = active.completion]
                      ELSE journal
        /\ UNCHANGED left
     \/ active.runtime /\ Fault /\ UNCHANGED journal
  /\ ActorFrame /\ UNCHANGED <<store, active, events, shown, answered, waiting, turn, dispatches>>

\* A mutant of Close: the run is let go before it is stored.
CloseFirst ==
  /\ pc \in {"close", "reclose"}
  /\ LET s == Updated(mem, active.run, active.completion, "none")
     IN  (Commits(s) /\ UNCHANGED left) \/ CommitFails(s)
  /\ active' = NoRun /\ shown' = NothingShown
  /\ pc' = IF pc = "close" THEN "select" ELSE "enqueue"
  /\ ActorFrame /\ UNCHANGED <<events, answered, waiting, agent>>

\* ... and to the store; only then is the run let go.  After an error it stays
\* active, and the next schedule tries again.
Close ==
  /\ pc \in {"close", "reclose"}
  /\ LET s == Updated(mem, active.run, active.completion, "none")
     IN  \/ /\ Commits(s)
            /\ active' = NoRun /\ shown' = NothingShown
            /\ pc' = IF pc = "close" THEN "select" ELSE "enqueue"
            /\ UNCHANGED left
         \/ CommitFails(s) /\ pc' = "select" /\ UNCHANGED <<active, shown>>
  /\ ActorFrame /\ UNCHANGED <<events, answered, waiting, agent>>

-----------------------------------------------------------------------------
(* schedule                                                                *)

IsDue(d) ==
  /\ mem.defs[d].on /\ mem.defs[d].next > 0 /\ mem.defs[d].next <= clock
  /\ ~Busy(mem, d)

ScheduleFrame ==
  ActorFrame /\ UNCHANGED <<events, shown, answered, waiting, journal>>

Enqueue ==
  /\ pc = "enqueue"
  /\ \/ \E d \in Defs :
          /\ IsDue(d) /\ Len(mem.runs) < MaxRuns
          /\ \/ Commits(Due(mem, d, clock)) /\ UNCHANGED <<pc, left>>
             \/ CommitFails(Due(mem, d, clock)) /\ pc' = "select"
     \/ /\ Len(mem.runs) = MaxRuns \/ \A d \in Defs : ~IsDue(d)
        /\ pc' = "dispatch"
        /\ UNCHANGED <<store, left>>
  /\ ScheduleFrame /\ UNCHANGED <<active, turn, dispatches>>

NextQueued == SelectInSeq(mem.runs, LAMBDA run : run.status = "queued")

\* The first queued run is claimed in the store, and only then dispatched.
Dispatch ==
  /\ pc = "dispatch"
  /\ pc' = "select"
  /\ LET r == NextQueued
         s == Updated(mem, r, "starting", "stub")
     IN  IF active # NoRun \/ r = 0
         THEN UNCHANGED <<store, active, turn, dispatches, left>>
         ELSE \/ /\ Commits(s)
                 /\ active' = [NoRun EXCEPT !.run = r]
                 /\ turn' = [turn EXCEPT ![r] = "preparing"]
                 /\ dispatches' = [dispatches EXCEPT ![r] = @ + 1]
                 /\ UNCHANGED left
              \/ CommitFails(s) /\ UNCHANGED <<active, turn, dispatches>>
  /\ ScheduleFrame

-----------------------------------------------------------------------------
(* Time, crashes and recovery.                                             *)

Pass ==
  /\ pc \in {"select", "down"} /\ left.time > 0
  /\ left' = [left EXCEPT !.time = @ - 1]
  /\ clock' = clock + 1
  /\ UNCHANGED <<store, pc, active, events, requests, agent>>

\* The process stops, or the machine with what was not synced.
Crash ==
  /\ pc # "down" /\ left.crashes > 0
  /\ left' = [left EXCEPT !.crashes = @ - 1]
  /\ UNCHANGED store \/ (mem' \in disk /\ disk' = {mem'})
  /\ pc' = "down"
  /\ active' = NoRun
  /\ events' = <<>>
  /\ shown' = NothingShown /\ answered' = {} /\ waiting' = {}
  /\ turn' = [r \in RunIds |-> IF turn[r] = "none" THEN "none" ELSE "gone"]
  /\ UNCHANGED <<clock, journal, asker, dispatches>>

Boot ==
  /\ pc = "down"
  /\ pc' = "recover"
  /\ UNCHANGED <<clock, store, active, events, requests, agent, left>>

ToRecover == {r \in Stored : Status(r) \in Claimed}

\* A mutant of Recover: a run that had not begun is queued again.
RecoverRequeues ==
  /\ pc = "recover"
  /\ IF ToRecover = {} THEN pc' = "select" /\ UNCHANGED <<store, left>>
     ELSE LET r == CHOOSE r \in ToRecover : \A q \in ToRecover : r <= q
              s == Updated(mem, r, IF Status(r) = "starting" THEN "queued"
                                   ELSE RecoveredStatus(r), "none")
          IN  \/ Commits(s) /\ UNCHANGED <<pc, left>>
              \/ CommitFails(s) /\ pc' = "down"
  /\ UNCHANGED <<clock, active, events, requests, agent>>

\* recover: every run that was claimed is ended, in order; an error ends the
\* service instead.
Recover ==
  /\ pc = "recover"
  /\ IF ToRecover = {} THEN pc' = "select" /\ UNCHANGED <<store, left>>
     ELSE LET r == CHOOSE r \in ToRecover : \A q \in ToRecover : r <= q
              s == Updated(mem, r, RecoveredStatus(r), "none")
          IN  \/ Commits(s) /\ UNCHANGED <<pc, left>>
              \/ CommitFails(s) /\ pc' = "down"
  /\ UNCHANGED <<clock, active, events, requests, agent>>

-----------------------------------------------------------------------------
Work(r) ==
  Prepare(r) \/ Arm(r) \/ StartOperation(r) \/ Report(r) \/ Ask(r) \/ TurnEnds(r) \/ TurnDropped(r)

Next ==
  \/ \E r \in RunIds : Work(r)
  \/ \E a \in Asks : Answer(a) \/ Resolved(a)
  \/ \E d \in Defs : SetEnabled(d) \/ RunNow(d)
  \/ \E r \in Stored : CancelActive(r) \/ CancelOther(r)
  \/ Tick \/ NotPrepared \/ Prepared \/ Asked \/ AgentError \/ Finished
  \/ Record \/ Close \/ Enqueue \/ Dispatch
  \/ Pass \/ Crash \/ Boot \/ Recover

Spec == Init /\ [][Next]_vars

-----------------------------------------------------------------------------
(* Properties.                                                             *)

(* Every variable has its shape: the actor records and closes only a run   *)
(* it has and whose completion is decided, and a run that was not          *)
(* dispatched has no task and no journal.                                  *)
Outcomes == Ended \union {"none"}
WellFormed(s) ==
  /\ \A d \in Defs : /\ s.defs[d].on \in BOOLEAN
                      /\ s.defs[d].next \in Nat /\ s.defs[d].anchor \in Nat
                      /\ s.defs[d].failures \in Nat
                      /\ s.defs[d].on <=> s.defs[d].next > 0
  /\ Len(s.runs) <= MaxRuns
  /\ \A r \in DOMAIN s.runs :
       /\ s.runs[r].def \in Defs /\ s.runs[r].due \in Nat
       /\ s.runs[r].status \in Claimed \union Ended \union {"queued"}
       /\ s.runs[r].file \in {"none", "stub", "session"}
TypeOK ==
  /\ clock \in Nat
  /\ mem \in disk /\ \A s \in disk : WellFormed(s)
  /\ pc \in {"select", "record", "close", "retry", "reclose", "enqueue", "dispatch", "down", "recover"}
  /\ active.run \in Stored \union {0} /\ active.runtime \in BOOLEAN
  /\ active.cancellation \in {"none", "cancelled", "failed"} /\ active.completion \in Outcomes
  /\ pc \in {"record", "close", "retry", "reclose"} => active.run # 0 /\ active.completion # "none"
  /\ shown.permission \in Asks \union {0} /\ shown.questions \subseteq Asks
  /\ waiting \subseteq Asks /\ answered \subseteq Asks
  /\ turn \in [RunIds -> {"none", "preparing", "prepared", "sent", "armed", "operating", "aborted",
                          "lost", "done", "gone"}]
  /\ \A r \in RunIds : dispatches[r] = 0 => turn[r] = "none" /\ journal[r] = NoJournal

(* A run is dispatched at most once, whatever is retried or recovered, and *)
(* a run whose task is at work is the active one: no two run together.     *)
DispatchedOnce ==
  \A r \in RunIds :
    /\ dispatches[r] <= 1
    /\ turn[r] \in {"preparing", "sent", "armed", "operating", "aborted"} => active.run = r

(* Outside recovery a run that is claimed in the store is the active one,  *)
(* so that its end will be stored; or it is one whose claim failed late    *)
(* and that was never dispatched.  And the active run has ended in the     *)
(* store only with the completion the actor still has to confirm.          *)
Tracked ==
  pc \notin {"down", "recover"} =>
    /\ \A r \in Stored :
         Status(r) \in Claimed /\ r # active.run
           => Status(r) = "starting" /\ dispatches[r] = 0
    /\ active.run # 0 /\ Status(active.run) \in Ended => Status(active.run) = active.completion

(* An occurrence of a schedule is run once: the scheduled runs of a        *)
(* definition have increasing times, and the next one is later than all.   *)
OccurrencesOnce ==
  \A r \in Stored :
    LET run == mem.runs[r]
    IN  run.due > 0 =>
          /\ mem.defs[run.def].on => run.due < mem.defs[run.def].next
          /\ \A q \in 1 .. r - 1 :
               mem.runs[q].def = run.def => mem.runs[q].due < run.due

(* How a run is stored agrees with its journal: a run that succeeded       *)
(* completed its operation and was reported as done, and an outcome that   *)
(* was written there, where recovery can find it, is the one stored.       *)
EndIsTrue ==
  \A r \in Stored : Status(r) \in Ended =>
    /\ Status(r) = "succeeded" => journal[r].op = "completed" /\ journal[r].report = "succeeded"
    /\ Located(r) /\ journal[r].outcome # "none" => Status(r) = journal[r].outcome

(* What the user is shown.  Every question the agent waits for stays there *)
(* from the time the actor reads it, until that question is answered; and  *)
(* so does the permission that was asked last.                             *)
Read(a) == \A i \in DOMAIN events : events[i].kind = "asks" => events[i].ask # a
Visible(a) == a = shown.permission \/ a \in shown.questions
AskedLast(a) == \A b \in Asks : b > a /\ asker[b].kind = "permission" => ~Read(b)
LatestIsShown ==
  \A a \in waiting :
    Read(a) /\ (asker[a].kind = "question" \/ AskedLast(a)) => Visible(a)

(* The plan wants more: every request the agent waits for is retained.     *)
(* The code breaks it, since a session has one place for a permission: the *)
(* second of two that wait at the same time takes the place of the first.  *)
AskedIsShown == \A a \in waiting : Read(a) => Visible(a)
=============================================================================
