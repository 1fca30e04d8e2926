--------------------------- MODULE WorkScheduler ---------------------------
(***************************************************************************)
(* The session work scheduler: every input that is queued while a session  *)
(* is busy is first a durable queue entry of the journal, and then a wake  *)
(* in the memory of the scheduler, which only says that there is work.     *)
(* The users' work handle queues, drops and re-routes entries from any     *)
(* thread; one driver at a time, the interactive turn or the scheduler     *)
(* supervisor, holds the agent, takes the wakes and runs the entries.      *)
(*                                                                         *)
(* One message is identified by the entry that first carried it: a         *)
(* re-routed message keeps its number and gets a new entry.  Each action   *)
(* is one transaction on the journal, or one critical section on the       *)
(* wakes.                                                                  *)
(*                                                                         *)
(* Bounds: Entries caps the entries ever made, MaxStops, MaxCrashes and    *)
(* MaxPrompts the Stops, the restarts and the interactive prompts.         *)
(***************************************************************************)
EXTENDS Naturals, FiniteSets, Sequences, SequencesExt

CONSTANTS Users, Entries, Providers, Supervised, MaxStops, MaxCrashes, MaxPrompts

ASSUME BoundsAssumption ==
    /\ Entries \in Nat \ {0} /\ MaxStops \in Nat /\ MaxCrashes \in Nat /\ MaxPrompts \in Nat
ASSUME ProvidersAssumption == Providers \subseteq {"native", "acp"}
ASSUME SupervisedAssumption == Supervised \in BOOLEAN

VARIABLES
    provider,   \* whose agent runs the turns: the native runtime or an ACP process
    minted,     \* entries made so far
    body,       \* the message each entry carries
    queued,     \* the unbound entries of the main lane; their order is that of their numbers
    runOpen,    \* the main lane has an open operation
    written,    \* messages the journal holds as user messages
    wakes,      \* the scheduler's pending wakes
    op,         \* the work-handle call each user is in
    holder,     \* who holds the agent
    pc,         \* where that driver is
    batch,      \* the wakes the native executor drained and still has to run
    item,       \* the entry the driver works on, 0 for none
    recorder,   \* the run's message recorder is installed
    stopping,   \* the session's cancellation flag
    pending,    \* the ACP process still answers a stopped turn
    held,       \* consumed entries the runtime keeps in memory after their write failed
    count,      \* stops, crashes and prompts used
    given,      \* how often each message was handed to the model
    returned,   \* messages handed back to a user who dropped them
    orphaned,   \* entries whose wake a Stop, or a failed consumption, dropped
    doubled,    \* messages whose hand-over a crash or a failed undo cut in two
    lost        \* messages a crash or the reconciliation of a run gave up

durable == <<minted, body, queued, runOpen, written>>
driver == <<holder, pc, batch, item>>
memory == <<recorder, stopping, pending, held>>
history == <<given, returned, orphaned, doubled, lost>>
vars == <<provider, durable, wakes, op, driver, memory, count, history>>

Ids == 1..Entries
Queued(e) == e \in queued
NoOp == [at |-> "idle", entry |-> 0, copy |-> 0]
Bodies(es) == {body[e] : e \in es}

(* The session may have been left with an open run when it is opened.      *)
Init ==
    /\ provider \in Providers
    /\ minted = 0 /\ body = [e \in Ids |-> e]
    /\ queued = {} /\ runOpen \in BOOLEAN /\ written = {}
    /\ wakes = <<>> /\ op = [u \in Users |-> NoOp]
    /\ holder = "none" /\ pc = "idle" /\ batch = <<>> /\ item = 0
    /\ recorder = FALSE /\ stopping = FALSE /\ pending = FALSE /\ held = {}
    /\ count = [stops |-> 0, crashes |-> 0, prompts |-> 0]
    /\ given = [e \in Ids |-> 0]
    /\ returned = {} /\ orphaned = {} /\ doubled = {} /\ lost = {}

-----------------------------------------------------------------------------
(* The journal's queue records, and the scheduler's critical sections.     *)

(* A mutant of Enqueue: two entries may get the same id.                   *)
EnqueueSameId(m) ==
    /\ minted < Entries
    /\ minted' = IF queued = {} THEN minted + 1 ELSE minted
    /\ body' = [body EXCEPT ![minted + 1] = m]
    /\ queued' = queued \cup {minted + 1}

(* An unbound queue entry for message m is made durable.                   *)
Enqueue(m) ==
    /\ minted < Entries
    /\ minted' = minted + 1
    /\ body' = [body EXCEPT ![minted + 1] = m]
    /\ queued' = queued \cup {minted + 1}

Dequeue(e) == queued' = queued \ {e}

Schedule(e) == wakes' = Append(wakes, e)

(* A mutant of TakePending: the oldest wake goes, whichever entry it is for. *)
TakeOldest(e) == wakes' = IF wakes = <<>> THEN <<>> ELSE Tail(wakes)

(* The first wake of entry e, if it has one, is removed.                   *)
TakePending(e) ==
    \/ \E i \in DOMAIN wakes :
        /\ wakes[i] = e /\ \A j \in 1..(i - 1) : wakes[j] # e
        /\ wakes' = RemoveAt(wakes, i)
    \/ e \notin ToSet(wakes) /\ UNCHANGED wakes

FinishNext == wakes' = IF wakes = <<>> THEN <<>> ELSE Tail(wakes)

-----------------------------------------------------------------------------
(* The work handle.                                                        *)

At(u, where) == op[u].at = where
Move(u, o) == op' = [op EXCEPT ![u] = o]
UserFrame == UNCHANGED <<provider, runOpen, written, driver, memory, count, given, orphaned, lost>>

(* A steer or a follow-up: the durable entry first,                        *)
QueueInput(u) ==
    /\ At(u, "idle")
    /\ Enqueue(minted + 1)
    /\ Move(u, [at |-> "schedule", entry |-> minted + 1, copy |-> 0])
    /\ UNCHANGED <<wakes, returned, doubled>> /\ UserFrame

(* then its wake.                                                          *)
ScheduleWake(u) ==
    /\ At(u, "schedule")
    /\ Schedule(op[u].entry)
    /\ Move(u, NoOp)
    /\ UNCHANGED <<minted, body, queued, returned, doubled>> /\ UserFrame

(* Dropping a queued input: it is looked up,                               *)
DropLookup(u) ==
    /\ At(u, "idle")
    /\ \E e \in queued : Move(u, [at |-> "drop", entry |-> e, copy |-> 0])
    /\ UNCHANGED <<minted, body, queued, wakes, returned, doubled>> /\ UserFrame

(* durably cancelled, which is refused when it has left the queue,         *)
DropCancel(u) ==
    /\ At(u, "drop")
    /\ \/ Queued(op[u].entry) /\ Dequeue(op[u].entry) /\ Move(u, [op[u] EXCEPT !.at = "take"])
       \/ ~Queued(op[u].entry) /\ Move(u, NoOp) /\ UNCHANGED queued
    /\ UNCHANGED <<minted, body, wakes, returned, doubled>> /\ UserFrame

(* and then its wake goes and its content goes back to the composer.       *)
DropTake(u) ==
    /\ At(u, "take")
    /\ TakePending(op[u].entry)
    /\ returned' = returned \cup {body[op[u].entry]}
    /\ Move(u, NoOp)
    /\ UNCHANGED <<minted, body, queued, doubled>> /\ UserFrame

(* Re-routing a queued input into the steer queue: looked up,              *)
SteerLookup(u) ==
    /\ At(u, "idle") /\ provider = "native"
    /\ \E e \in queued : Move(u, [at |-> "copy", entry |-> e, copy |-> 0])
    /\ UNCHANGED <<minted, body, queued, wakes, returned, doubled>> /\ UserFrame

(* enqueued again as a steer,                                              *)
SteerCopy(u) ==
    /\ At(u, "copy")
    /\ Enqueue(body[op[u].entry])
    /\ Move(u, [at |-> "cancel", entry |-> op[u].entry, copy |-> minted + 1])
    /\ UNCHANGED <<wakes, returned, doubled>> /\ UserFrame

(* A mutant of SteerCancel: the copy is undone after a successful cancel.  *)
SteerCancelThenUndo(u) ==
    /\ At(u, "cancel")
    /\ \/ Queued(op[u].entry) /\ Dequeue(op[u].entry) /\ Move(u, [op[u] EXCEPT !.at = "undo"])
       \/ ~Queued(op[u].entry) /\ Move(u, [op[u] EXCEPT !.at = "untake"]) /\ UNCHANGED queued
    /\ UNCHANGED <<minted, body, wakes, returned, doubled>> /\ UserFrame

(* the original cancelled, or, when it is gone, the copy to be undone,     *)
SteerCancel(u) ==
    /\ At(u, "cancel")
    /\ \/ Queued(op[u].entry) /\ Dequeue(op[u].entry) /\ Move(u, [op[u] EXCEPT !.at = "untake"])
       \/ ~Queued(op[u].entry) /\ Move(u, [op[u] EXCEPT !.at = "undo"]) /\ UNCHANGED queued
    /\ UNCHANGED <<minted, body, wakes, returned, doubled>> /\ UserFrame

(* A mutant of SteerUndo: the compensation is left out.                    *)
SteerUndoNothing(u) ==
    /\ At(u, "undo") /\ Move(u, NoOp)
    /\ UNCHANGED <<minted, body, queued, wakes, returned, doubled>> /\ UserFrame

(* (the compensation ignores its own failure)                              *)
SteerUndo(u) ==
    /\ At(u, "undo")
    /\ \/ Queued(op[u].copy) /\ Dequeue(op[u].copy) /\ UNCHANGED doubled
       \/ /\ ~Queued(op[u].copy)
          /\ doubled' = doubled \cup {body[op[u].copy]}
          /\ UNCHANGED queued
    /\ Move(u, NoOp)
    /\ UNCHANGED <<minted, body, wakes, returned>> /\ UserFrame

(* the original's wake removed, and the copy's wake scheduled.             *)
SteerTake(u) ==
    /\ At(u, "untake")
    /\ TakePending(op[u].entry)
    /\ Move(u, [at |-> "schedule", entry |-> op[u].copy, copy |-> 0])
    /\ UNCHANGED <<minted, body, queued, returned, doubled>> /\ UserFrame

(* The steps of a call that has begun: no other thread can stop them.      *)
UserStep(u) ==
    ScheduleWake(u) \/ DropCancel(u) \/ DropTake(u) \/ SteerCopy(u) \/ SteerCancel(u)
        \/ SteerUndo(u) \/ SteerTake(u)

UserCall(u) == QueueInput(u) \/ DropLookup(u) \/ SteerLookup(u)

-----------------------------------------------------------------------------
(* The driver that holds the agent.                                        *)

Driving(where) == holder # "none" /\ pc = where
GoTo(where) == pc' = where /\ UNCHANGED holder
Release == holder' = "none" /\ pc' = "idle" /\ batch' = <<>> /\ item' = 0
Used(k) == count' = [count EXCEPT ![k] = @ + 1]
DriverFrame == UNCHANGED <<provider, op, returned, orphaned, doubled, count>>

(* An interactive prompt takes the agent.  The flag a Stop raised is        *)
(* cleared and the open run of a stopped or failed turn is reconciled:     *)
(* when the turn had answered, that gives up the queue but for NextRun     *)
(* entries, and otherwise it only closes the run.                          *)
Reconciled ==
    \/ UNCHANGED <<queued, lost>>
    \/ runOpen /\ queued' = {} /\ lost' = lost \cup Bodies(queued)

Prompt ==
    /\ holder = "none" /\ count.prompts < MaxPrompts
    /\ Used("prompts")
    /\ Reconciled
    /\ stopping' = FALSE /\ runOpen' = FALSE
    /\ holder' = "turn" /\ pc' = "prompt"
    /\ UNCHANGED <<provider, minted, body, written, wakes, op, batch, item, recorder, pending, held,
                   given, returned, orphaned, doubled>>

(* A native turn opens its run and installs the recorders.                 *)
PromptNative ==
    /\ Driving("prompt") /\ provider = "native"
    /\ runOpen' = TRUE /\ recorder' = TRUE
    /\ GoTo("running")
    /\ UNCHANGED <<minted, body, queued, written, wakes, batch, item, stopping, pending, held, given,
                   lost>>
    /\ DriverFrame

(* A prompt for an ACP agent that still answers a stopped turn is queued   *)
(* before that turn is waited for.                                         *)
PromptAcp ==
    /\ Driving("prompt") /\ provider = "acp"
    /\ \/ /\ pending /\ Enqueue(minted + 1) /\ Schedule(minted + 1) /\ item' = minted + 1
       \/ ~pending /\ item' = 0 /\ UNCHANGED <<minted, body, queued, wakes>>
    /\ GoTo("wait")
    /\ UNCHANGED <<runOpen, written, batch, memory, given, lost>> /\ DriverFrame

(* A mutant of Supervise: the supervisor leaves an open run alone.         *)
SuperviseClosed ==
    /\ Supervised /\ holder = "none" /\ wakes # <<>> /\ ~runOpen
    /\ holder' = "sup"
    /\ pc' = IF provider = "native" THEN "drain" ELSE "peek"
    /\ UNCHANGED <<durable, wakes, batch, item, memory, given, lost>> /\ DriverFrame

(* The supervisor takes the agent when there is work and nobody holds it.  *)
Supervise ==
    /\ Supervised /\ holder = "none" /\ wakes # <<>>
    /\ holder' = "sup"
    /\ pc' = IF provider = "native" THEN "drain" ELSE "peek"
    /\ UNCHANGED <<durable, wakes, batch, item, memory, given, lost>> /\ DriverFrame

(* --- the native executor ----------------------------------------------- *)

(* It drains all the wakes; with none left, a turn goes on to close its    *)
(* run and the supervisor lets go of the agent.                            *)
Drain ==
    /\ Driving("drain")
    /\ batch' = wakes /\ wakes' = <<>>
    /\ IF wakes # <<>> THEN GoTo("consume") /\ UNCHANGED item
       ELSE IF holder = "turn" THEN GoTo("finish") /\ UNCHANGED item
       ELSE holder' = "none" /\ pc' = "idle" /\ item' = 0
    /\ UNCHANGED <<durable, memory, given, lost>> /\ DriverFrame

(* A mutant of Consume: a wake is run even when its entry has gone.        *)
ConsumeAnyway ==
    /\ Driving("consume") /\ batch # <<>>
    /\ batch' = Tail(batch)
    /\ Dequeue(Head(batch)) /\ item' = Head(batch) /\ GoTo("write")
    /\ UNCHANGED <<minted, body, runOpen, written, wakes, memory, given, lost>> /\ DriverFrame

(* An entry is consumed by its own identity, and skipped when it is gone.  *)
Consume ==
    /\ Driving("consume") /\ batch # <<>>
    /\ batch' = Tail(batch)
    /\ \/ Queued(Head(batch)) /\ Dequeue(Head(batch)) /\ item' = Head(batch) /\ GoTo("write")
       \/ /\ ~Queued(Head(batch))
          /\ GoTo(IF Tail(batch) = <<>> THEN "drain" ELSE "consume")
          /\ UNCHANGED <<queued, item>>
    /\ UNCHANGED <<minted, body, runOpen, written, wakes, memory, given, lost>> /\ DriverFrame

(* Opening the journal or appending the consumption fails: the wake is     *)
(* gone with the batch, and the entry stays queued.                        *)
ConsumeFails ==
    /\ Driving("consume") /\ batch # <<>> /\ Queued(Head(batch))
    /\ orphaned' = orphaned \cup {Head(batch)}
    /\ batch' = Tail(batch)
    /\ GoTo(IF Tail(batch) = <<>> THEN "drain" ELSE "consume")
    /\ UNCHANGED <<provider, durable, wakes, op, item, memory, count, given, returned, doubled, lost>>

(* A mutant of Write: the message goes to the model unwritten.             *)
WriteNothing ==
    /\ Driving("write")
    /\ GoTo("give")
    /\ UNCHANGED <<durable, wakes, batch, item, memory, given, lost>> /\ DriverFrame

(* The message is written through the run's recorder, when there is one.   *)
Write ==
    /\ Driving("write")
    /\ written' = IF recorder THEN written \cup {body[item]} ELSE written
    /\ GoTo("give")
    /\ UNCHANGED <<minted, body, queued, runOpen, wakes, batch, item, memory, given, lost>>
    /\ DriverFrame

(* The recorder fails, before or after its append: the run returns without *)
(* a request to the model, and the runtime keeps the message.              *)
WriteFails ==
    /\ Driving("write") /\ recorder
    /\ written' \in {written, written \cup {body[item]}}
    /\ held' = held \cup {item} /\ item' = 0
    /\ GoTo(IF batch = <<>> THEN "drain" ELSE "consume")
    /\ UNCHANGED <<minted, body, queued, runOpen, wakes, batch, recorder, stopping, pending, given, lost>>
    /\ DriverFrame

(* The next native turn writes and hands over what the runtime kept.       *)
TakeHeld ==
    /\ Driving("running") /\ provider = "native"
    /\ \E e \in held : held' = held \ {e} /\ item' = e
    /\ GoTo("write")
    /\ UNCHANGED <<durable, wakes, batch, recorder, stopping, pending, given, lost>> /\ DriverFrame

(* The model gets the message.  The boundary preparer, installed with the  *)
(* recorder, refuses while the session is being cancelled.                 *)
Refused == provider = "native" /\ recorder /\ stopping

Give ==
    /\ Driving("give")
    /\ given' = IF Refused THEN given ELSE [given EXCEPT ![body[item]] = IF @ = 2 THEN 2 ELSE @ + 1]
    /\ GoTo("running")
    /\ UNCHANGED <<durable, wakes, batch, item, memory, lost>> /\ DriverFrame

RunDone ==
    /\ Driving("running") /\ provider = "native"
    /\ item' = 0
    /\ GoTo(IF batch = <<>> THEN "drain" ELSE "consume")
    /\ UNCHANGED <<durable, wakes, batch, memory, given, lost>> /\ DriverFrame

(* The turn closes its run and takes the recorders away, or leaves the run *)
(* open for a retry.                                                       *)
Finish ==
    /\ Driving("finish")
    /\ \/ runOpen' = FALSE /\ recorder' = FALSE
       \/ UNCHANGED <<runOpen, recorder>>
    /\ Release
    /\ UNCHANGED <<minted, body, queued, written, wakes, stopping, pending, held, given, lost>>
    /\ DriverFrame

(* --- queued work of an ACP agent ---------------------------------------- *)

(* The front wake is looked at, not taken.                                 *)
Peek ==
    /\ Driving("peek")
    /\ IF wakes = <<>> THEN Release
       ELSE batch' = <<Head(wakes)>> /\ item' = Head(wakes) /\ GoTo("lookup")
    /\ UNCHANGED <<durable, wakes, memory, given, lost>> /\ DriverFrame

Lookup ==
    /\ Driving("lookup")
    /\ GoTo(IF Queued(item) THEN "wait" ELSE "pop")
    /\ UNCHANGED <<durable, wakes, batch, item, memory, given, lost>> /\ DriverFrame

(* A stopped turn of the agent is waited for.                              *)
AwaitPending ==
    /\ Driving("wait")
    /\ pending' = FALSE
    /\ GoTo("accept")
    /\ UNCHANGED <<durable, wakes, batch, item, recorder, stopping, held, given, lost>> /\ DriverFrame

(* The prompt is accepted: a new run, refused while another one is open.   *)
Accept ==
    /\ Driving("accept")
    /\ \/ runOpen /\ Release /\ UNCHANGED <<runOpen, written>>
       \/ /\ ~runOpen
          /\ runOpen' = TRUE
          /\ written' = IF item = 0 THEN written ELSE written \cup {body[item]}
          /\ GoTo(IF item = 0 THEN "running" ELSE "settle")
          /\ UNCHANGED <<batch, item>>
    /\ UNCHANGED <<minted, body, queued, wakes, memory, given, lost>> /\ DriverFrame

(* Then the queue entry is consumed.  One that is gone does not matter,    *)
(* unless it went between the lookup and the append of the consumption.    *)
Settle ==
    /\ Driving("settle")
    /\ \/ /\ Queued(item) /\ Dequeue(item)
          /\ GoTo("give") /\ UNCHANGED <<batch, item>>
       \/ ~Queued(item) /\ GoTo("give") /\ UNCHANGED <<queued, batch, item>>
       \/ ~Queued(item) /\ Release /\ UNCHANGED queued
    /\ UNCHANGED <<minted, body, runOpen, written, wakes, memory, given, lost>> /\ DriverFrame

(* The agent's turn ends and its run is closed.  A failure is returned and *)
(* leaves the wake for later; otherwise the next wake is looked at.        *)
TurnDone ==
    /\ Driving("running") /\ provider = "acp"
    /\ runOpen' = FALSE
    /\ \/ GoTo(IF batch = <<>> THEN "peek" ELSE "pop") /\ UNCHANGED <<batch, item>>
       \/ Release
    /\ UNCHANGED <<minted, body, queued, written, wakes, memory, given, lost>> /\ DriverFrame

(* The front wake is finished, whichever it is by now.                     *)
Pop ==
    /\ Driving("pop")
    /\ FinishNext
    /\ batch' = <<>> /\ item' = 0 /\ GoTo("peek")
    /\ UNCHANGED <<durable, memory, given, lost>> /\ DriverFrame

-----------------------------------------------------------------------------
(* Stop and restart.                                                       *)

(* Stop raises the flag and aborts the interactive turn at the point where *)
(* it waits; what the supervisor runs has no task that it could abort.     *)
Stop ==
    /\ count.stops < MaxStops
    /\ \/ /\ holder = "turn" /\ pc \in {"prompt", "running", "wait"}
          /\ Release
          /\ orphaned' = orphaned \cup IF provider = "native" THEN ToSet(batch) ELSE {}
          /\ pending' = (provider = "acp" /\ (pc = "running" \/ pending))
       \/ holder # "turn" /\ UNCHANGED <<driver, orphaned, pending>>
    /\ Used("stops")
    /\ stopping' = TRUE
    /\ UNCHANGED <<provider, durable, wakes, op, recorder, held, given, returned, doubled, lost>>

(* Messages a call or a driver has durably half moved.                     *)
Rerouting == {body[op[u].copy] : u \in {v \in Users : op[v].at \in {"cancel", "undo"}}}
Dropping == {body[op[u].entry] : u \in {v \in Users : op[v].at = "take"}}
InHand(where) == IF pc = where THEN {body[item]} ELSE {}

(* The entries of a set in the order in which the journal holds them.      *)
InOrder(es) ==
    {w \in [1..Cardinality(es) -> es] :
        /\ \A i, j \in DOMAIN w : i < j => w[i] < w[j]
        /\ \A e \in es : \E i \in DOMAIN w : w[i] = e}

(* A restart loses what is in memory; opening the session makes a wake for *)
(* every unbound entry.                                                    *)
Crash ==
    /\ count.crashes < MaxCrashes
    /\ Used("crashes")
    /\ doubled' = doubled \cup Rerouting \cup (IF Queued(item) THEN InHand("settle") ELSE {})
    /\ lost' = lost \cup Dropping \cup ((InHand("write") \cup InHand("give") \cup Bodies(held)) \ written)
    /\ wakes' \in InOrder(queued)
    /\ op' = [u \in Users |-> NoOp]
    /\ Release
    /\ recorder' = FALSE /\ stopping' = FALSE /\ pending' = FALSE /\ held' = {}
    /\ UNCHANGED <<provider, durable, given, returned, orphaned>>

Native ==
    PromptNative \/ Drain \/ Consume \/ ConsumeFails \/ Write \/ WriteFails \/ TakeHeld \/ RunDone \/ Finish
Acp == PromptAcp \/ Peek \/ Lookup \/ AwaitPending \/ Accept \/ Settle \/ TurnDone \/ Pop
DriverStep == Native \/ Acp \/ Give

Next ==
    \/ \E u \in Users : UserCall(u) \/ UserStep(u)
    \/ Prompt \/ Supervise \/ DriverStep
    \/ Stop \/ Crash

(* A call that has begun returns, the driver goes on, and the supervisor   *)
(* gets the agent.  Users, Stop and restarts owe nothing.                  *)
Fairness ==
    /\ \A u \in Users : WF_vars(UserStep(u))
    /\ WF_vars(DriverStep)
    /\ WF_vars(Supervise)

Spec == Init /\ [][Next]_vars /\ Fairness

-----------------------------------------------------------------------------
(* Properties.                                                             *)

Entry0 == 0..Entries
TypeOK ==
    /\ provider \in Providers
    /\ minted \in Entry0 /\ body \in [Ids -> Ids]
    /\ queued \subseteq 1..minted /\ wakes \in Seq(1..minted) /\ batch \in Seq(1..minted)
    /\ runOpen \in BOOLEAN /\ written \in SUBSET Ids
    /\ op \in [Users -> [at : {"idle", "schedule", "drop", "take", "copy", "cancel", "undo",
                               "untake"},
                        entry : Entry0, copy : Entry0]]
    /\ holder \in {"none", "turn", "sup"} /\ item \in Entry0
    /\ pc \in {"idle", "prompt", "running", "drain", "consume", "write", "give", "finish", "peek", "lookup",
               "wait", "accept", "settle", "pop"}
    /\ (holder = "none") = (pc = "idle")
    /\ recorder \in BOOLEAN /\ stopping \in BOOLEAN /\ pending \in BOOLEAN
    /\ held \subseteq 1..minted
    /\ given \in [Ids -> 0..2]
    /\ UNION {returned, orphaned, doubled, lost} \subseteq Ids

(* An input reaches the model once, however it was dropped, re-routed,     *)
(* stopped and retried meanwhile: only a crash between the two halves of a *)
(* move, or a compensation that found its copy gone, may hand it over      *)
(* again.                                                                  *)
GivenOnce == \A m \in Ids \ (doubled \cup Rerouting) : given[m] <= 1

(* No input disappears: what a user queued is still queued, in the         *)
(* transcript, in the hands of the driver or of the runtime that failed to *)
(* write it, or handed back, unless a crash or the reconciliation of a     *)
(* stopped run gave it up.  An unrecorded supervisor run at least gave it  *)
(* to the model.                                                           *)
NothingDropped ==
    \A e \in 1..minted :
        \/ body[e] \in Bodies(queued \cup held) \cup written \cup returned \cup lost \cup Dropping
        \/ body[e] \in InHand("write") \cup InHand("give")
        \/ given[body[e]] > 0

(* What a user dropped, and got back in the composer, never runs.          *)
DroppedNeverRun == \A m \in returned \ (doubled \cup Rerouting) : given[m] = 0

(* Every queued entry has a wake, or the call that will make it, or is in  *)
(* the batch the executor runs, unless a Stop dropped that batch or its    *)
(* consumption failed.                                                     *)
Announced ==
    ToSet(wakes) \cup ToSet(batch) \cup {op[u].entry : u \in {v \in Users : At(v, "schedule")}}
        \cup {op[u].copy : u \in {v \in Users : op[v].at \in {"cancel", "undo", "untake"}}}
WakeKept == queued \subseteq Announced \cup orphaned

(* The same three with a native agent.                                     *)
NativeDroppedNeverRun == provider = "native" => DroppedNeverRun
NativeWakeKept == provider = "native" => WakeKept

(* What an interactive turn hands to the model is in the journal first.    *)
TurnWritesFirst ==
    [][\A m \in Ids : given'[m] > given[m] /\ holder = "turn" => m \in written]_vars

(* With a supervisor, a queued entry whose wake is pending leaves the      *)
(* queue, unless a Stop drops the batch it has been drained into or its    *)
(* consumption fails.                                                      *)
QueuedServed ==
    \A e \in Ids :
        (provider = "native" /\ Queued(e) /\ e \in ToSet(wakes)) ~> (~Queued(e) \/ e \in orphaned)
=============================================================================
