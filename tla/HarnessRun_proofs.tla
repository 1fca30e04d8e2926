-------------------------- MODULE HarnessRun_proofs --------------------------
(***************************************************************************)
(* Theorems about HarnessRun, for any set of runs, batches and bounds.     *)
(* The inductive invariant has three layers: what the appends of the       *)
(* journal keep typed (ApplyTyped), what the task keeps typed              *)
(* (TaskTyped), and the four facts that relate runs, tools and parked      *)
(* appends (Accounting).                                                   *)
(***************************************************************************)
EXTENDS HarnessRun, TLAPS

-----------------------------------------------------------------------------
(* The effects a gate may hold.                                            *)

(* A record has the fields of its kind.                                    *)
LEMMA EffectFields ==
    ASSUME NEW e \in Effects
    PROVE  /\ e.op = "Entry" => e.id \in EntryIds /\ e.parent \in EntryIds \cup {NoEntry} /\ e.calls \in Nat
           /\ e.op \in {"OperationStarted", "AbortRequested", "OperationFinished",
                        "StepAttempt", "RetryScheduled"} => e.run \in Runs
           /\ e.op = "OperationFinished" => e.outcome \in Outcomes
           /\ e.op = "StepAttempt" => e.attempt \in Nat /\ e.result \in EntryIds
           /\ e.op = "RetryScheduled" => e.attempt \in Nat
           /\ e.op \in {"ToolStarted", "ToolFinished"} => e.slot \in Slots
           /\ e.op \in {"QueueEnqueued", "QueueCancelled", "QueueConsumed"} => e.item \in Items
  BY DEF Effects

(* The ids of the entries a run writes.                                    *)
LEMMA EntryIdTypes ==
    ASSUME NEW r \in Runs
    PROVE  /\ UserEntry(r) \in EntryIds
           /\ AbortEntry(r) \in EntryIds
           /\ ClosingEntry(r) \in EntryIds
           /\ ErrorEntry(r) \in EntryIds
           /\ \A t \in Nat : AssistantEntry(r, t) \in EntryIds
  BY DEF UserEntry, AbortEntry, ClosingEntry, ErrorEntry, AssistantEntry, EntryIds, EntryKinds

LEMMA SlotEntryTypes ==
    ASSUME NEW s \in Slots
    PROVE  Declaring(s) \in EntryIds /\ Result(s) \in EntryIds
  BY EntryIdTypes DEF Slots, Declaring, Result, AssistantEntry, EntryIds, EntryKinds

(* The literals the procedures park are effects.                           *)
LEMMA EffectTypes ==
    /\ \A id \in EntryIds, parent \in EntryIds \cup {NoEntry} : Write(id, parent) \in Effects
    /\ \A id \in EntryIds, parent \in EntryIds \cup {NoEntry}, n \in Nat : Declare(id, parent, n) \in Effects
    /\ \A r \in Runs, o \in Outcomes : Finished(r, o) \in Effects
    /\ \A r \in Runs, n \in Nat, id \in EntryIds : StepAttempt(r, n, id) \in Effects
    /\ \A r \in Runs : [op |-> "OperationStarted", run |-> r] \in Effects
    /\ \A r \in Runs : [op |-> "AbortRequested", run |-> r] \in Effects
    /\ \A r \in Runs, n \in Nat : [op |-> "RetryScheduled", run |-> r, attempt |-> n] \in Effects
    /\ \A s \in Slots : [op |-> "ToolStarted", slot |-> s] \in Effects
    /\ \A s \in Slots : [op |-> "ToolFinished", slot |-> s] \in Effects
    /\ \A q \in Items : [op |-> "QueueEnqueued", item |-> q] \in Effects
    /\ \A q \in Items : [op |-> "QueueCancelled", item |-> q] \in Effects
    /\ \A q \in Items : [op |-> "QueueConsumed", item |-> q] \in Effects
  BY DEF Effects, Write, Declare, Finished, StepAttempt

(* An append keeps the projection typed.                                   *)
LEMMA ApplyTyped ==
    ASSUME JournalTypeOK, NEW e \in Effects, Apply(e)
    PROVE  JournalTypeOK'
<1>1. CASE CommitEntry(e)
  <2>1. /\ e.id \in EntryIds /\ e.parent \in EntryIds \cup {NoEntry} /\ e.calls \in Nat
    BY <1>1, EffectFields DEF CommitEntry
  <2>2. Present' = Present \cup {e.id}
    BY <1>1 DEF CommitEntry, Present
  <2>3. entries' \in [Present' -> [parent : EntryIds \cup {NoEntry}, calls : Nat]]
    BY <1>1, <2>1, <2>2 DEF CommitEntry, JournalTypeOK
  <2> QED BY <1>1, <2>1, <2>2, <2>3 DEF CommitEntry, JournalTypeOK
<1>2. CASE CommitStarted(e)
  BY <1>2, EffectFields DEF CommitStarted, JournalTypeOK, Present
<1>3. CASE CommitAbortRequested(e)
  BY <1>3 DEF CommitAbortRequested, JournalTypeOK, Present
<1>4. CASE CommitFinished(e)
  BY <1>4, EffectFields DEF CommitFinished, JournalTypeOK, Present
<1>5. CASE CommitStepAttempt(e)
  BY <1>5, EffectFields DEF CommitStepAttempt, JournalTypeOK, Present
<1>6. CASE CommitRetryScheduled(e)
  BY <1>6, EffectFields DEF CommitRetryScheduled, JournalTypeOK, Present
<1>7. CASE CommitToolStarted(e)
  BY <1>7, EffectFields DEF CommitToolStarted, JournalTypeOK, Present
<1>8. CASE CommitToolFinished(e)
  BY <1>8, EffectFields DEF CommitToolFinished, JournalTypeOK, Present
<1>9. CASE CommitQueue(e)
  BY <1>9, EffectFields DEF CommitQueue, JournalTypeOK, Present, QueueStates
<1> QED BY <1>1, <1>2, <1>3, <1>4, <1>5, <1>6, <1>7, <1>8, <1>9 DEF Apply
-----------------------------------------------------------------------------
(* The type invariant.                                                     *)

RunPCs == PCs \ {"idle", "recover", "accept"}

(* Where the task works for a run it knows which one; an append parked by  *)
(* the trace handle belongs to such a place.                               *)
CurIsRun ==
    /\ pc \in RunPCs => cur \in Runs
    /\ pending # <<>> /\ handle = "trace" => pc \in RunPCs

TaskTypeOK == TypeOK /\ CurIsRun

(* What is parked may be committed in order.                               *)
LEMMA HeadTail ==
    ASSUME NEW q \in Seq(Effects), q # <<>>
    PROVE  Head(q) \in Effects /\ Tail(q) \in Seq(Effects)
  OBVIOUS

LEMMA HandleTypes == \A p \in PCs : HandleOf(p) \in Handles
  BY DEF HandleOf, Handles

(* Short literal sequences of effects.                                     *)
LEMMA ParkTypes ==
    ASSUME NEW a \in Effects, NEW b \in Effects, NEW c \in Effects
    PROVE  <<a>> \in Seq(Effects) /\ <<a, b>> \in Seq(Effects) /\ <<a, b, c>> \in Seq(Effects)
  OBVIOUS

(* Unchanged journal variables keep the projection typed.                  *)
LEMMA JournalFrame ==
    ASSUME JournalTypeOK, UNCHANGED journal
    PROVE  JournalTypeOK'
  BY DEF JournalTypeOK, journal, Present

LEMMA TaskInit == Init => TaskTypeOK
<1> SUFFICES ASSUME Init PROVE TaskTypeOK
  OBVIOUS
<1>1. JournalTypeOK
  BY DEF Init, JournalInit, JournalTypeOK, Present, QueueStates
<1>2. pending \in Seq(Effects) /\ other \in Seq(Effects)
  BY DEF Init
<1> QED BY <1>1, <1>2 DEF Init, TaskTypeOK, TypeOK, CurIsRun, PCs, RunPCs, Handles, NoPlan

LEMMA NewTaskTyped ==
    ASSUME NEW p \in {"idle", "recover"}, TypeOK, NewTask(p)
    PROVE  /\ pc' \in PCs /\ handle' \in Handles /\ pending' \in Seq(Effects)
           /\ cur' \in Runs \cup {NoRun} /\ turn' \in Nat /\ batch' \in Batches \cup {NoBatch}
           /\ next' \in Nat /\ failed' \in BOOLEAN /\ settled' \subseteq Slots
           /\ verdict' \in {"ok", "retryable", "error"}
           /\ plan' \in [slots : SUBSET Slots, items : SUBSET Items,
                          parent : EntryIds \cup {NoEntry}, closed : BOOLEAN]
           /\ CurIsRun'
<1>1. pending' = <<>> /\ pending' \in Seq(Effects)
  BY DEF NewTask
<1>2. plan' \in [slots : SUBSET Slots, items : SUBSET Items,
                 parent : EntryIds \cup {NoEntry}, closed : BOOLEAN]
  BY DEF NewTask, NoPlan
<1>3. CurIsRun'
  BY <1>1 DEF NewTask, PCs, RunPCs, CurIsRun
<1> QED BY <1>1, <1>2, <1>3 DEF NewTask, PCs, Handles

(* What a step of the gate or of the environment keeps.                    *)
LEMMA GateTyped ==
    ASSUME TaskTypeOK,
           Commit \/ Reject \/ HandleFaulted \/ Prompt \/ OtherParks \/ OtherCommits \/ Stop \/ Crash
    PROVE  TaskTypeOK'
<1> USE DEF TaskTypeOK
<1>1. CASE Commit
  <2>1. Head(pending) \in Effects /\ Tail(pending) \in Seq(Effects)
    BY <1>1, HeadTail DEF Commit, TypeOK
  <2>2. JournalTypeOK'
    BY <1>1, <2>1, ApplyTyped DEF Commit, TypeOK
  <2> QED BY <1>1, <2>1, <2>2 DEF Commit, TypeOK, CurIsRun
<1>2. CASE Reject
  <2>1. JournalTypeOK'
    BY <1>2, JournalFrame DEF Reject, TypeOK
  <2>2. pending' \in Seq(Effects) /\ fault' \in [Handles -> BOOLEAN] /\ pending' = <<>>
    BY <1>2 DEF Reject, TypeOK
  <2>3. pc' \in PCs /\ verdict' \in {"ok", "retryable", "error"} /\ (pc' \in RunPCs => cur' \in Runs)
    BY <1>2 DEF Reject, Escalate, TypeOK, CurIsRun, PCs, RunPCs, Handles
  <2> QED BY <1>2, <2>1, <2>2, <2>3 DEF Reject, TypeOK, CurIsRun, NoPlan
<1>3. CASE HandleFaulted
  <2>1. JournalTypeOK'
    BY <1>3, JournalFrame DEF HandleFaulted, TypeOK
  <2>2. pc' \in PCs /\ verdict' \in {"ok", "retryable", "error"} /\ (pc' \in RunPCs => cur' \in Runs)
    BY <1>3 DEF HandleFaulted, Escalate, HandleOf, TraceSteps, TypeOK, CurIsRun, PCs, RunPCs, Handles
  <2> QED BY <1>3, <2>1, <2>2 DEF HandleFaulted, TypeOK, CurIsRun, NoPlan
<1>4. CASE Prompt
  <2>1. JournalTypeOK'
    BY <1>4, JournalFrame DEF Prompt, TypeOK
  <2> QED BY <1>4, <2>1, NewTaskTyped DEF Prompt, TypeOK
<1>5. CASE OtherParks
  <2>1. JournalTypeOK'
    BY <1>5, JournalFrame DEF OtherParks, TypeOK
  <2>2. other' \in Seq(Effects)
    <3>1. CASE open # NoRun /\ other' = <<[op |-> "AbortRequested", run |-> open]>>
      BY <3>1, EffectTypes, ParkTypes DEF TypeOK, JournalTypeOK
    <3>2. ASSUME NEW q \in Items,
                 \/ other' = <<[op |-> "QueueEnqueued", item |-> q]>>
                 \/ other' = <<[op |-> "QueueCancelled", item |-> q]>>
                 \/ other' = <<[op |-> "QueueConsumed", item |-> q]>>
          PROVE  other' \in Seq(Effects)
      BY <3>2, EffectTypes, ParkTypes
    <3> QED BY <1>5, <3>1, <3>2 DEF OtherParks
  <2> QED BY <1>5, <2>1, <2>2 DEF OtherParks, task, TypeOK, CurIsRun
<1>6. CASE OtherCommits
  <2>1. Head(other) \in Effects
    BY <1>6, HeadTail DEF OtherCommits, TypeOK
  <2>2. JournalTypeOK'
    BY <1>6, <2>1, ApplyTyped, JournalFrame DEF OtherCommits, TypeOK
  <2> QED BY <1>6, <2>2 DEF OtherCommits, task, TypeOK, CurIsRun
<1>7. CASE Stop
  <2>1. JournalTypeOK'
    BY <1>7, JournalFrame DEF Stop, TypeOK
  <2> QED BY <1>7, <2>1, NewTaskTyped DEF Stop, TypeOK
<1>8. CASE Crash
  <2>1. JournalTypeOK'
    BY <1>8, JournalFrame DEF Crash, TypeOK
  <2> QED BY <1>8, <2>1, NewTaskTyped DEF Crash, TypeOK
<1> QED BY <1>1, <1>2, <1>3, <1>4, <1>5, <1>6, <1>7, <1>8

(* Where a step of the task leaves the gate.                               *)
GateOK ==
    /\ pc \in PCs
    /\ handle \in Handles
    /\ pending \in Seq(Effects)
    /\ CurIsRun

LEMMA ParkTyped ==
    ASSUME TypeOK, NEW q \in Seq(Effects), NEW to \in PCs, Park(q, to),
           to \in RunPCs => cur' \in Runs,
           pc \in TraceSteps => to \in RunPCs
    PROVE  GateOK'
  BY HandleTypes DEF Park, GateOK, CurIsRun, TypeOK, HandleOf, TraceSteps

LEMMA GotoTyped ==
    ASSUME TypeOK, NEW to \in PCs, Goto(to), pending = <<>>,
           to \in RunPCs => cur' \in Runs
    PROVE  GateOK'
  BY DEF Goto, GateOK, CurIsRun, TypeOK

(* The rest of the task's state: everything but the gate and the journal.  *)
LocalOK ==
    /\ fault \in [Handles -> BOOLEAN]
    /\ cur \in Runs \cup {NoRun}
    /\ turn \in Nat
    /\ batch \in Batches \cup {NoBatch}
    /\ next \in Nat
    /\ failed \in BOOLEAN
    /\ settled \subseteq Slots
    /\ verdict \in {"ok", "retryable", "error"}
    /\ plan \in [slots : SUBSET Slots, items : SUBSET Items,
                 parent : EntryIds \cup {NoEntry}, closed : BOOLEAN]

LEMMA SplitTyped ==
    TypeOK <=> /\ JournalTypeOK /\ LocalOK /\ other \in Seq(Effects) /\ crashes \in Nat /\ stops \in Nat
               /\ pc \in PCs /\ handle \in Handles /\ pending \in Seq(Effects)
  BY DEF TypeOK, LocalOK

LEMMA RecoverTyped ==
    ASSUME TaskTypeOK, Recover
    PROVE  GateOK' /\ LocalOK'
<1> USE DEF TaskTypeOK
<1>0. JournalTypeOK /\ LocalOK /\ pc \in PCs /\ CurIsRun
  BY SplitTyped
<1>1. CASE NothingToRecover
  BY <1>1, <1>0, GotoTyped DEF NothingToRecover, At, LocalOK, PCs, RunPCs
<1>2. CASE RecoverRequestAbort
  <2>1. <<[op |-> "AbortRequested", run |-> open]>> \in Seq(Effects)
    BY <1>2, <1>0, EffectTypes, ParkTypes DEF RecoverRequestAbort, JournalTypeOK
  <2>2. GateOK'
    BY <1>2, <2>1, ParkTyped DEF RecoverRequestAbort, At, PCs, RunPCs, TraceSteps
  <2> QED BY <1>2, <1>0, <2>2 DEF RecoverRequestAbort, LocalOK
<1>3. CASE PlanReconcile
  <2>1. cur' \in Runs
    BY <1>3, <1>0 DEF PlanReconcile, JournalTypeOK
  <2>2. GateOK'
    BY <1>3, <2>1, GotoTyped DEF PlanReconcile, At, PCs, RunPCs
  <2>3. plan' \in [slots : SUBSET Slots, items : SUBSET Items,
                   parent : EntryIds \cup {NoEntry}, closed : BOOLEAN]
    BY <1>3, <1>0 DEF PlanReconcile, JournalTypeOK
  <2> QED BY <1>3, <1>0, <2>1, <2>2, <2>3 DEF PlanReconcile, LocalOK
<1>4. CASE ReconcileTool
  <2>0. cur \in Runs /\ cur' \in Runs
    BY <1>4, <1>0 DEF ReconcileTool, At, CurIsRun, RunPCs, PCs
  <2>1. PICK s \in plan.slots :
            \/ /\ plan' = [plan EXCEPT !.slots = @ \ {s}]
               /\ Park(<<[op |-> "ToolFinished", slot |-> s]>>, "reconcile")
            \/ /\ plan' = [plan EXCEPT !.slots = @ \ {s}, !.parent = Result(s)]
               /\ Park(<<Write(Result(s), plan.parent), [op |-> "ToolFinished", slot |-> s]>>, "reconcile")
    BY <1>4 DEF ReconcileTool
  <2>2. s \in Slots /\ Result(s) \in EntryIds
    BY <1>0, SlotEntryTypes DEF LocalOK
  <2>3. /\ [op |-> "ToolFinished", slot |-> s] \in Effects
        /\ Write(Result(s), plan.parent) \in Effects
    BY <1>0, <2>2, EffectTypes DEF LocalOK
  <2>4. GateOK'
    <3>1. /\ <<[op |-> "ToolFinished", slot |-> s]>> \in Seq(Effects)
          /\ <<Write(Result(s), plan.parent), [op |-> "ToolFinished", slot |-> s]>> \in Seq(Effects)
      BY <2>3, ParkTypes
    <3> QED BY <1>4, <2>0, <2>1, <3>1, ParkTyped DEF ReconcileTool, At, PCs, RunPCs, TraceSteps
  <2>5. plan' \in [slots : SUBSET Slots, items : SUBSET Items,
                   parent : EntryIds \cup {NoEntry}, closed : BOOLEAN]
    BY <1>0, <2>1, <2>2 DEF LocalOK
  <2> QED BY <1>4, <1>0, <2>4, <2>5 DEF ReconcileTool, LocalOK
<1>5. CASE ReconcileQueued
  <2>0. cur \in Runs /\ cur' \in Runs
    BY <1>5, <1>0 DEF ReconcileQueued, At, CurIsRun, RunPCs, PCs
  <2>1. PICK q \in plan.items :
            /\ plan' = [plan EXCEPT !.items = @ \ {q}]
            /\ Park(<<[op |-> "QueueCancelled", item |-> q]>>, "reconcile")
    BY <1>5 DEF ReconcileQueued
  <2>2. <<[op |-> "QueueCancelled", item |-> q]>> \in Seq(Effects)
    BY <1>0, EffectTypes, ParkTypes DEF LocalOK
  <2>3. GateOK'
    BY <1>5, <2>0, <2>1, <2>2, ParkTyped DEF ReconcileQueued, At, PCs, RunPCs, TraceSteps
  <2> QED BY <1>5, <1>0, <2>1, <2>3 DEF ReconcileQueued, LocalOK
<1>6. CASE ReconcileClose
  <2>0. cur \in Runs
    BY <1>6, <1>0 DEF ReconcileClose, At, CurIsRun, RunPCs, PCs
  <2>1. /\ Finished(cur, "Aborted") \in Effects
        /\ Write(ClosingEntry(cur), plan.parent) \in Effects
    BY <1>0, <2>0, EffectTypes, EntryIdTypes DEF LocalOK, Outcomes
  <2>2. /\ <<Finished(cur, "Aborted")>> \in Seq(Effects)
        /\ <<Write(ClosingEntry(cur), plan.parent), Finished(cur, "Aborted")>> \in Seq(Effects)
    BY <2>1, ParkTypes
  <2>3. GateOK'
    BY <1>6, <2>2, ParkTyped DEF ReconcileClose, At, PCs, RunPCs, TraceSteps
  <2> QED BY <1>6, <1>0, <2>3 DEF ReconcileClose, LocalOK, NoPlan
<1>7. CASE RecoverReserve
  <2>1. open \in Runs /\ attempts + 1 \in Nat
    BY <1>7, <1>0 DEF RecoverReserve, JournalTypeOK
  <2>2. <<StepAttempt(open, attempts + 1, AbortEntry(open))>> \in Seq(Effects)
    BY <2>1, EffectTypes, EntryIdTypes, ParkTypes
  <2>3. GateOK'
    BY <1>7, <2>2, ParkTyped DEF RecoverReserve, At, PCs, RunPCs, TraceSteps
  <2> QED BY <1>7, <1>0, <2>3 DEF RecoverReserve, LocalOK
<1>8. CASE RecoverAbortEntry
  <2>1. PICK s \in StepsOf(open) : Park(<<Write(s.result, leaf)>>, "recover-finish")
    BY <1>8 DEF RecoverAbortEntry
  <2>2. <<Write(s.result, leaf)>> \in Seq(Effects)
    BY <1>0, EffectTypes, ParkTypes DEF StepsOf, JournalTypeOK
  <2>3. cur' \in Runs
    BY <1>8, <1>0 DEF RecoverAbortEntry, JournalTypeOK
  <2>4. GateOK'
    BY <1>8, <2>1, <2>2, <2>3, ParkTyped DEF RecoverAbortEntry, At, PCs, RunPCs, TraceSteps
  <2> QED BY <1>8, <1>0, <2>3, <2>4 DEF RecoverAbortEntry, LocalOK
<1>9. CASE RecoverFinish
  <2>1. cur \in Runs
    BY <1>9, <1>0 DEF RecoverFinish, At, CurIsRun, RunPCs, PCs
  <2>2. <<Finished(cur, "Aborted")>> \in Seq(Effects)
    BY <2>1, EffectTypes, ParkTypes DEF Outcomes
  <2>3. GateOK'
    BY <1>9, <2>2, ParkTyped DEF RecoverFinish, At, PCs, RunPCs, TraceSteps
  <2> QED BY <1>9, <1>0, <2>3 DEF RecoverFinish, LocalOK
<1> QED BY <1>1, <1>2, <1>3, <1>4, <1>5, <1>6, <1>7, <1>8, <1>9 DEF Recover

(* The slots the run writes about.                                         *)
LEMMA CallTypes ==
    ASSUME cur \in Runs, turn \in Nat, NEW i \in Nat
    PROVE  Call(i) \in Slots
  BY DEF Call, Slots

LEMMA ResultParentsTyped ==
    ASSUME JournalTypeOK, NEW s \in Slots
    PROVE  ResultParents(s) \subseteq EntryIds
<1>1. \A t \in Lower(s) : t \in Slots
  BY DEF Lower, JournalTypeOK
<1> QED BY <1>1, SlotEntryTypes DEF ResultParents

LEMMA LastBatchTyped ==
    ASSUME JournalTypeOK, cur \in Runs, turn \in Nat
    PROVE  LastBatch \subseteq Slots
<1>1. ASSUME NEW t \in TurnsWithTools
      PROVE  CallsOf(t) \subseteq Slots
  <2>1. t \in Nat
    BY DEF TurnsWithTools
  <2>2. entries[AssistantEntry(cur, t)].calls \in Nat
    BY DEF TurnsWithTools, JournalTypeOK
  <2> QED BY <2>1, <2>2 DEF CallsOf, Slots
<1> QED BY <1>1 DEF LastBatch

(* Where the run is at work, cur is a run.                                 *)
LEMMA AtRun ==
    ASSUME CurIsRun, NEW p \in RunPCs, At(p)
    PROVE  cur \in Runs /\ pending = <<>>
  BY DEF CurIsRun, At

LEMMA GenerateTyped ==
    ASSUME TaskTypeOK, Generate
    PROVE  GateOK' /\ LocalOK'
<1> USE DEF TaskTypeOK
<1>0. JournalTypeOK /\ LocalOK /\ pc \in PCs /\ CurIsRun
  BY SplitTyped
<1>a. {"provider", "intents", "join", "persist", "settle"} \subseteq RunPCs
  BY DEF RunPCs, PCs
<1>1. CASE Accept
  <2>1. PICK r \in Fresh :
            /\ cur' = r
            /\ Park(<<[op |-> "OperationStarted", run |-> r],
                      Write(UserEntry(r), leaf),
                      StepAttempt(r, 1, AssistantEntry(r, 1))>>, "provider")
    BY <1>1 DEF Accept
  <2>2. r \in Runs
    BY DEF Fresh
  <2>3. /\ [op |-> "OperationStarted", run |-> r] \in Effects
        /\ Write(UserEntry(r), leaf) \in Effects
        /\ StepAttempt(r, 1, AssistantEntry(r, 1)) \in Effects
    BY <1>0, <2>2, EffectTypes, EntryIdTypes DEF JournalTypeOK
  <2>4. <<[op |-> "OperationStarted", run |-> r],
          Write(UserEntry(r), leaf),
          StepAttempt(r, 1, AssistantEntry(r, 1))>> \in Seq(Effects)
    BY <2>3, ParkTypes
  <2>5. GateOK'
    BY <1>1, <2>1, <2>2, <2>4, ParkTyped DEF Accept, At, PCs, RunPCs, TraceSteps
  <2> QED BY <1>1, <1>0, <2>1, <2>2, <2>5 DEF Accept, LocalOK
<1>2. CASE NoFreshRun
  BY <1>2, <1>0, GotoTyped DEF NoFreshRun, At, LocalOK, PCs, RunPCs
<1>3. CASE ReplyWithTools
  <2>0. cur \in Runs /\ pending = <<>>
    BY <1>3, <1>0, <1>a, AtRun DEF ReplyWithTools
  <2>1. PICK b \in Batches :
            /\ batch' = b
            /\ Park(<<Declare(AssistantEntry(cur, turn + 1), leaf, b.n)>>, "intents")
    BY <1>3 DEF ReplyWithTools
  <2>2. b.n \in Nat /\ turn + 1 \in Nat
    BY <1>0, BatchesAssumption DEF LocalOK
  <2>3. <<Declare(AssistantEntry(cur, turn + 1), leaf, b.n)>> \in Seq(Effects)
    BY <1>0, <2>0, <2>2, EffectTypes, EntryIdTypes, ParkTypes DEF JournalTypeOK
  <2>4. GateOK'
    BY <1>3, <1>a, <2>0, <2>1, <2>3, ParkTyped DEF ReplyWithTools, PCs
  <2> QED BY <1>3, <1>0, <2>1, <2>2, <2>4 DEF ReplyWithTools, LocalOK
<1>4. CASE FinalReply
  <2>0. cur \in Runs /\ pending = <<>>
    BY <1>4, <1>0, <1>a, AtRun DEF FinalReply
  <2>1. turn + 1 \in Nat
    BY <1>0 DEF LocalOK
  <2>2. <<Write(AssistantEntry(cur, turn + 1), leaf)>> \in Seq(Effects)
    BY <1>0, <2>0, <2>1, EffectTypes, EntryIdTypes, ParkTypes DEF JournalTypeOK
  <2>3. GateOK'
    BY <1>4, <1>a, <2>0, <2>2, ParkTyped DEF FinalReply, PCs
  <2> QED BY <1>4, <1>0, <2>3 DEF FinalReply, LocalOK
<1>5. CASE ProviderError
  <2>0. cur \in Runs /\ pending = <<>>
    BY <1>5, <1>0, <1>a, AtRun DEF ProviderError
  <2>1. GateOK'
    BY <1>5, <1>a, <2>0, GotoTyped DEF ProviderError, PCs
  <2> QED BY <1>5, <1>0, <2>1 DEF ProviderError, LocalOK
<1>6. CASE RecordIntent
  <2>0. cur \in Runs /\ pending = <<>>
    BY <1>6, <1>0, <1>a, AtRun DEF RecordIntent
  <2>1. <<[op |-> "ToolStarted", slot |-> Call(next)]>> \in Seq(Effects)
    BY <1>0, <2>0, CallTypes, EffectTypes, ParkTypes DEF LocalOK
  <2>2. GateOK'
    BY <1>6, <1>a, <2>0, <2>1, ParkTyped, GotoTyped DEF RecordIntent, PCs
  <2> QED BY <1>6, <1>0, <2>2 DEF RecordIntent, LocalOK
<1>7. CASE AllIntended
  <2>0. cur \in Runs /\ pending = <<>>
    BY <1>7, <1>0, <1>a, AtRun DEF AllIntended
  <2>1. GateOK'
    BY <1>7, <1>a, <2>0, GotoTyped DEF AllIntended, PCs
  <2> QED BY <1>7, <1>0, <2>1 DEF AllIntended, LocalOK
<1>8. CASE JoinResult
  <2>0. cur \in Runs /\ pending = <<>>
    BY <1>8, <1>0, <1>a, AtRun DEF JoinResult
  <2> DEFINE s == Call(next)
  <2>1. s \in Slots
    BY <1>0, <2>0, CallTypes DEF LocalOK
  <2>2. ASSUME NEW parent \in ResultParents(s)
        PROVE  <<Write(Result(s), parent), [op |-> "ToolFinished", slot |-> s]>> \in Seq(Effects)
    <3>1. Write(Result(s), parent) \in Effects /\ [op |-> "ToolFinished", slot |-> s] \in Effects
      BY <1>0, <2>1, ResultParentsTyped, SlotEntryTypes, EffectTypes
    <3> QED BY <3>1, ParkTypes
  <2>3. GateOK'
    <3>1. CASE Goto("join")
      BY <1>8, <1>a, <2>0, <3>1, GotoTyped DEF JoinResult, PCs
    <3>2. ASSUME NEW parent \in ResultParents(s),
                 Park(<<Write(Result(s), parent), [op |-> "ToolFinished", slot |-> s]>>, "join")
          PROVE  GateOK'
      BY <1>8, <1>a, <2>0, <2>2, <3>2, ParkTyped DEF JoinResult, PCs
    <3> QED BY <1>8, <3>1, <3>2 DEF JoinResult
  <2>4. settled' \subseteq Slots
    BY <1>8, <1>0, <2>1 DEF JoinResult, LocalOK
  <2> QED BY <1>8, <1>0, <2>3, <2>4 DEF JoinResult, LocalOK
<1>9. CASE JoinFailure
  <2>0. cur \in Runs /\ pending = <<>>
    BY <1>9, <1>0, <1>a, AtRun DEF JoinFailure
  <2>1. GateOK'
    BY <1>9, <1>a, <2>0, GotoTyped DEF JoinFailure, PCs
  <2> QED BY <1>9, <1>0, <2>1 DEF JoinFailure, LocalOK
<1>10. CASE JoinRejected
  <2>0. cur \in Runs /\ pending = <<>>
    BY <1>10, <1>0, <1>a, AtRun DEF JoinRejected
  <2>1. GateOK'
    BY <1>10, <1>a, <2>0, GotoTyped DEF JoinRejected, PCs
  <2> QED BY <1>10, <1>0, <2>1 DEF JoinRejected, LocalOK
<1>11. CASE Joined
  <2>0. cur \in Runs /\ pending = <<>>
    BY <1>11, <1>0, <1>a, AtRun DEF Joined
  <2>1. GateOK'
    BY <1>11, <1>a, <2>0, GotoTyped DEF Joined, PCs
  <2> QED BY <1>11, <1>0, <2>1 DEF Joined, LocalOK
<1>12. CASE PersistResult
  <2>0. cur \in Runs /\ pending = <<>>
    BY <1>12, <1>0, <1>a, AtRun DEF PersistResult
  <2>1. <<Write(Result(Call(next)), leaf)>> \in Seq(Effects)
    BY <1>0, <2>0, CallTypes, SlotEntryTypes, EffectTypes, ParkTypes DEF LocalOK, JournalTypeOK
  <2>2. GateOK'
    BY <1>12, <1>a, <2>0, <2>1, ParkTyped, GotoTyped DEF PersistResult, PCs
  <2> QED BY <1>12, <1>0, <2>2 DEF PersistResult, LocalOK
<1>13. CASE BatchPersisted
  <2>0. cur \in Runs /\ pending = <<>>
    BY <1>13, <1>0, <1>a, AtRun DEF BatchPersisted
  <2>1. GateOK'
    BY <1>13, <1>a, <2>0, GotoTyped DEF BatchPersisted, PCs
  <2> QED BY <1>13, <1>0, <2>1 DEF BatchPersisted, LocalOK
<1> QED BY <1>1, <1>2, <1>3, <1>4, <1>5, <1>6, <1>7, <1>8, <1>9, <1>10, <1>11, <1>12, <1>13 DEF Generate

LEMMA EndTyped ==
    ASSUME TaskTypeOK, End
    PROVE  GateOK' /\ LocalOK'
<1> USE DEF TaskTypeOK
<1>0. JournalTypeOK /\ LocalOK /\ pc \in PCs /\ CurIsRun
  BY SplitTyped
<1>a. /\ {"settle", "finish", "retry", "note", "fail", "fail-finish"} \subseteq RunPCs
      /\ \A p \in {"settle", "finish", "retry", "note", "fail", "fail-finish"} : p \notin TraceSteps
  BY DEF RunPCs, PCs, TraceSteps
<1>b. "idle" \in PCs /\ "idle" \notin RunPCs
  BY DEF RunPCs, PCs
<1>1. CASE SettleMissing
  <2>0. cur \in Runs /\ pending = <<>>
    BY <1>1, <1>0, <1>a, AtRun DEF SettleMissing
  <2>1. GateOK'
    BY <1>1, <1>a, <2>0, GotoTyped DEF SettleMissing, PCs
  <2> QED BY <1>1, <1>0, <2>1 DEF SettleMissing, LocalOK
<1>2. CASE SettleCall
  <2>0. cur \in Runs /\ pending = <<>>
    BY <1>2, <1>0, <1>a, AtRun DEF SettleCall
  <2>1. PICK s \in LastBatch \ done :
            Park(<<[op |-> IF s \in started THEN "ToolFinished" ELSE "ToolStarted", slot |-> s]>>, "settle")
    BY <1>2 DEF SettleCall
  <2>2. s \in Slots
    BY <1>0, <2>0, LastBatchTyped DEF LocalOK
  <2>3. [op |-> IF s \in started THEN "ToolFinished" ELSE "ToolStarted", slot |-> s] \in Effects
    BY <2>2, EffectTypes
  <2>4. GateOK'
    BY <1>2, <1>a, <2>0, <2>1, <2>3, ParkTypes, ParkTyped DEF SettleCall, PCs
  <2> QED BY <1>2, <1>0, <2>4 DEF SettleCall, LocalOK
<1>3. CASE Settled
  <2>0. cur \in Runs /\ pending = <<>>
    BY <1>3, <1>0, <1>a, AtRun DEF Settled
  <2>1. Goto("finish") \/ Goto("retry") \/ Goto("fail")
    BY <1>3, <1>0 DEF Settled, LocalOK
  <2>2. GateOK'
    BY <1>3, <1>a, <2>0, <2>1, GotoTyped DEF Settled, PCs
  <2> QED BY <1>3, <1>0, <2>2 DEF Settled, LocalOK
<1>4. CASE FinishCompleted
  <2>0. cur \in Runs /\ pending = <<>>
    BY <1>4, <1>0, <1>a, AtRun DEF FinishCompleted
  <2>1. <<Finished(cur, "Completed")>> \in Seq(Effects)
    BY <2>0, EffectTypes, ParkTypes DEF Outcomes
  <2>2. GateOK'
    BY <1>4, <1>a, <1>b, <2>0, <2>1, ParkTyped, GotoTyped DEF FinishCompleted, At, PCs
  <2> QED BY <1>4, <1>0, <2>2 DEF FinishCompleted, LocalOK
<1>5. CASE ScheduleRetry
  <2>0. cur \in Runs /\ pending = <<>>
    BY <1>5, <1>0, <1>a, AtRun DEF ScheduleRetry
  <2>1. <<[op |-> "RetryScheduled", run |-> cur, attempt |-> attempts + 1]>> \in Seq(Effects)
    BY <1>0, <2>0, EffectTypes, ParkTypes DEF JournalTypeOK
  <2>2. GateOK'
    BY <1>5, <1>a, <2>0, <2>1, ParkTyped, GotoTyped DEF ScheduleRetry, PCs
  <2> QED BY <1>5, <1>0, <2>2 DEF ScheduleRetry, LocalOK
<1>6. CASE NoteError
  <2>0. cur \in Runs /\ pending = <<>>
    BY <1>6, <1>0, <1>a, AtRun DEF NoteError
  <2>1. <<Write(ErrorEntry(cur), leaf)>> \in Seq(Effects)
    BY <1>0, <2>0, EffectTypes, EntryIdTypes, ParkTypes DEF JournalTypeOK
  <2>2. GateOK'
    BY <1>6, <1>a, <1>b, <2>0, <2>1, ParkTyped DEF NoteError, At
  <2> QED BY <1>6, <1>0, <2>2 DEF NoteError, LocalOK
<1>7. CASE FailNote
  <2>0. cur \in Runs /\ pending = <<>>
    BY <1>7, <1>0, <1>a, AtRun DEF FailNote
  <2>1. <<Write(ErrorEntry(cur), leaf)>> \in Seq(Effects)
    BY <1>0, <2>0, EffectTypes, EntryIdTypes, ParkTypes DEF JournalTypeOK
  <2>2. GateOK'
    BY <1>7, <1>a, <2>0, <2>1, ParkTyped DEF FailNote, PCs
  <2> QED BY <1>7, <1>0, <2>2 DEF FailNote, LocalOK
<1>8. CASE FailFinish
  <2>0. cur \in Runs /\ pending = <<>>
    BY <1>8, <1>0, <1>a, AtRun DEF FailFinish
  <2>1. <<Finished(cur, "Failed")>> \in Seq(Effects)
    BY <2>0, EffectTypes, ParkTypes DEF Outcomes
  <2>2. GateOK'
    BY <1>8, <1>a, <1>b, <2>0, <2>1, ParkTyped, GotoTyped DEF FailFinish, At, PCs
  <2> QED BY <1>8, <1>0, <2>2 DEF FailFinish, LocalOK
<1> QED BY <1>1, <1>2, <1>3, <1>4, <1>5, <1>6, <1>7, <1>8 DEF End

(* A step of the task computes appends; it never touches the journal.      *)
LEMMA StepFrame ==
    ASSUME Recover \/ Generate \/ End
    PROVE  UNCHANGED journal
<1>1. CASE Recover
  BY <1>1 DEF Recover, NothingToRecover, RecoverRequestAbort, PlanReconcile, ReconcileTool, ReconcileQueued,
              ReconcileClose, RecoverReserve, RecoverAbortEntry, RecoverFinish
<1>2. CASE Generate
  BY <1>2 DEF Generate, Accept, NoFreshRun, ReplyWithTools, FinalReply, ProviderError, RecordIntent,
              AllIntended, JoinResult, JoinFailure, JoinRejected, Joined, PersistResult, BatchPersisted
<1>3. CASE End
  BY <1>3 DEF End, SettleMissing, SettleCall, Settled, FinishCompleted, ScheduleRetry, NoteError,
              FailNote, FailFinish
<1> QED BY <1>1, <1>2, <1>3

LEMMA TaskTyped == TaskTypeOK /\ [Next]_vars => TaskTypeOK'
<1> SUFFICES ASSUME TaskTypeOK, [Next]_vars PROVE TaskTypeOK'
  OBVIOUS
<1>1. CASE Step
  <2>1. GateOK' /\ LocalOK'
    BY <1>1, RecoverTyped, GenerateTyped, EndTyped DEF Step
  <2>2. JournalTypeOK'
    BY <1>1, StepFrame, JournalFrame DEF Step, TaskTypeOK, TypeOK
  <2>3. TypeOK'
    BY <1>1, <2>1, <2>2 DEF Step, TaskTypeOK, TypeOK, GateOK, LocalOK
  <2> QED BY <2>1, <2>3 DEF TaskTypeOK, GateOK
<1>2. CASE ~Step /\ Next
  BY <1>2, GateTyped DEF Next, Driven
<1>3. CASE UNCHANGED vars
  <2>1. JournalTypeOK'
    BY <1>3, JournalFrame DEF vars, TaskTypeOK, TypeOK
  <2> QED BY <1>3, <2>1 DEF vars, task, TaskTypeOK, TypeOK, CurIsRun
<1> QED BY <1>1, <1>2, <1>3

(* Every reachable state has its types: no procedure parks an append for a *)
(* run it does not know.                                                   *)
THEOREM TypeCorrect == Spec => []TypeOK
<1>1. TaskTypeOK => TypeOK
  BY DEF TaskTypeOK
<1> QED BY <1>1, TaskInit, TaskTyped, PTL DEF Spec

-----------------------------------------------------------------------------
(* Runs and the tool calls they owe.                                       *)

(* No completion precedes its intent.                                      *)
DoneStarted == done \subseteq started

(* An OperationStarted record is parked first, and for a run that has none *)
(* yet; other handles park none.                                           *)
StartsFresh ==
    /\ \A i \in DOMAIN pending :
          pending[i].op = "OperationStarted" => i = 1 /\ history[pending[i].run] = "none"
    /\ other # <<>> => Head(other).op # "OperationStarted"

Balanced == OpenRunIsLive /\ ClosedRunsSettled /\ DoneStarted

Accounting == Balanced /\ StartsFresh

(* What AppendOnly says of one step.                                       *)
Grows ==
    /\ \A e \in Present : e \in Present' /\ entries'[e] = entries[e]
    /\ done \subseteq done' /\ started \subseteq started'
    /\ \A r \in Runs : history[r] \in Outcomes => history'[r] = history[r]

LEMMA OutcomeNames == "open" \notin Outcomes /\ "none" \notin Outcomes
  BY DEF Outcomes

(* A validated append that starts no run twice keeps the accounts          *)
(* balanced, rewrites nothing and is a step of the ledger.                 *)
LEMMA ApplyBalanced ==
    ASSUME JournalTypeOK, Balanced, NEW e \in Effects, Guard(e), Apply(e),
           e.op = "OperationStarted" => history[e.run] = "none"
    PROVE  Balanced' /\ Grows /\ [Ledger!LedgerNext]_<<history, started \ done>>
<1> USE DEF Balanced
<1>1. CASE e.op = "Entry"
  <2>1. CommitEntry(e)
    BY <1>1 DEF Apply, CommitEntry, CommitStarted, CommitAbortRequested, CommitFinished, CommitStepAttempt,
                CommitRetryScheduled, CommitToolStarted, CommitToolFinished, CommitQueue
  <2>2. e.id \notin Present
    BY <1>1 DEF Guard, EntryGuard
  <2> QED BY <2>1, <2>2 DEF CommitEntry, OpenRunIsLive, ClosedRunsSettled, DoneStarted, Grows, Present
<1>2. CASE e.op = "OperationStarted"
  <2>1. CommitStarted(e) /\ open = NoRun /\ e.run \in Runs
    BY <1>2, EffectFields DEF Guard, Apply, CommitEntry, CommitStarted, CommitAbortRequested, CommitFinished,
          CommitStepAttempt, CommitRetryScheduled, CommitToolStarted, CommitToolFinished, CommitQueue
  <2>2. OpenRunIsLive' /\ (\A r \in Runs : history[r] # "open")
    BY <2>1, RunsAssumption DEF CommitStarted, OpenRunIsLive, JournalTypeOK
  <2>3. ClosedRunsSettled'
    BY <2>1, RunsAssumption DEF CommitStarted, ClosedRunsSettled, JournalTypeOK, Slots
  <2>4. Grows
    BY <1>2, <2>1, OutcomeNames DEF CommitStarted, Grows, Present, JournalTypeOK
  <2>5. Ledger!Open(e.run)
    BY <1>2, <2>1, <2>2 DEF CommitStarted, Ledger!Open
  <2> QED BY <2>1, <2>2, <2>3, <2>4, <2>5 DEF CommitStarted, DoneStarted, Ledger!LedgerNext
<1>3. CASE e.op = "AbortRequested"
  <2>1. CommitAbortRequested(e)
    BY <1>3 DEF Apply, CommitEntry, CommitStarted, CommitAbortRequested, CommitFinished, CommitStepAttempt,
                CommitRetryScheduled, CommitToolStarted, CommitToolFinished, CommitQueue
  <2> QED BY <2>1 DEF CommitAbortRequested, OpenRunIsLive, ClosedRunsSettled, DoneStarted, Grows, Present
<1>4. CASE e.op = "OperationFinished"
  <2>1. CommitFinished(e) /\ OperationFinishedGuard(e.run, e.outcome) /\ e.run \in Runs /\ e.outcome \in Outcomes
    BY <1>4, EffectFields DEF Guard, Apply, CommitEntry, CommitStarted, CommitAbortRequested, CommitFinished,
          CommitStepAttempt, CommitRetryScheduled, CommitToolStarted, CommitToolFinished, CommitQueue
  <2>2. open = e.run /\ history[e.run] = "open" /\ Incomplete(e.run) = {}
    BY <2>1 DEF OperationFinishedGuard, OpenRunIsLive
  <2>3. started \ done = {}
    BY <2>2 DEF Incomplete, ClosedRunsSettled
  <2>4. OpenRunIsLive'
    BY <2>1, <2>2, RunsAssumption, OutcomeNames DEF CommitFinished, OpenRunIsLive, JournalTypeOK
  <2>5. Grows
    BY <2>1, <2>2, OutcomeNames DEF CommitFinished, Grows, Present, JournalTypeOK
  <2>6. Ledger!Close(e.run, e.outcome)
    BY <2>1, <2>2, <2>3 DEF CommitFinished, Ledger!Close
  <2> QED BY <2>1, <2>3, <2>4, <2>5, <2>6 DEF CommitFinished, ClosedRunsSettled, DoneStarted, Ledger!LedgerNext
<1>5. CASE e.op = "StepAttempt"
  <2>1. CommitStepAttempt(e)
    BY <1>5 DEF Apply, CommitEntry, CommitStarted, CommitAbortRequested, CommitFinished, CommitStepAttempt,
                CommitRetryScheduled, CommitToolStarted, CommitToolFinished, CommitQueue
  <2> QED BY <2>1 DEF CommitStepAttempt, OpenRunIsLive, ClosedRunsSettled, DoneStarted, Grows, Present
<1>6. CASE e.op = "RetryScheduled"
  <2>1. CommitRetryScheduled(e)
    BY <1>6 DEF Apply, CommitEntry, CommitStarted, CommitAbortRequested, CommitFinished, CommitStepAttempt,
                CommitRetryScheduled, CommitToolStarted, CommitToolFinished, CommitQueue
  <2> QED BY <2>1 DEF CommitRetryScheduled, OpenRunIsLive, ClosedRunsSettled, DoneStarted, Grows, Present
<1>7. CASE e.op = "ToolStarted"
  <2>1. CommitToolStarted(e) /\ ToolStartedGuard(e.slot) /\ e.slot \in Slots
    BY <1>7, EffectFields DEF Guard, Apply, CommitEntry, CommitStarted, CommitAbortRequested, CommitFinished,
          CommitStepAttempt, CommitRetryScheduled, CommitToolStarted, CommitToolFinished, CommitQueue
  <2>2. e.slot.run = open /\ e.slot \notin started /\ e.slot \notin done /\ e.slot.run \in Runs
    BY <2>1 DEF ToolStartedGuard, DoneStarted, Slots
  <2>3. Balanced' /\ Grows
    BY <2>1, <2>2 DEF CommitToolStarted, OpenRunIsLive, ClosedRunsSettled, DoneStarted, Grows, Present
  <2>4. Ledger!Start
    BY <2>1, <2>2 DEF CommitToolStarted, OpenRunIsLive, Ledger!Start
  <2> QED BY <2>3, <2>4 DEF Ledger!LedgerNext
<1>8. CASE e.op = "ToolFinished"
  <2>1. CommitToolFinished(e) /\ ToolFinishedGuard(e.slot) /\ e.slot \in Slots
    BY <1>8, EffectFields DEF Guard, Apply, CommitEntry, CommitStarted, CommitAbortRequested, CommitFinished,
          CommitStepAttempt, CommitRetryScheduled, CommitToolStarted, CommitToolFinished, CommitQueue
  <2>2. e.slot.run = open /\ e.slot \in started \ done /\ e.slot.run \in Runs
    BY <2>1 DEF ToolFinishedGuard, Slots
  <2>3. Balanced' /\ Grows
    BY <2>1, <2>2 DEF CommitToolFinished, OpenRunIsLive, ClosedRunsSettled, DoneStarted, Grows, Present
  <2>4. Ledger!Complete
    BY <2>1, <2>2 DEF CommitToolFinished, OpenRunIsLive, Ledger!Complete
  <2> QED BY <2>3, <2>4 DEF Ledger!LedgerNext
<1>9. CASE e.op \in {"QueueEnqueued", "QueueCancelled", "QueueConsumed"}
  <2>1. CommitQueue(e)
    BY <1>9 DEF Apply, CommitEntry, CommitStarted, CommitAbortRequested, CommitFinished, CommitStepAttempt,
                CommitRetryScheduled, CommitToolStarted, CommitToolFinished, CommitQueue
  <2> QED BY <2>1 DEF CommitQueue, OpenRunIsLive, ClosedRunsSettled, DoneStarted, Grows, Present
<1> QED BY <1>1, <1>2, <1>3, <1>4, <1>5, <1>6, <1>7, <1>8, <1>9 DEF Guard

(* Only an OperationStarted changes the history of a run that has none.    *)
LEMMA FreshStays ==
    ASSUME JournalTypeOK, Balanced, NEW e \in Effects, Guard(e), Apply(e), e.op # "OperationStarted",
           NEW r \in Runs, history[r] = "none"
    PROVE  history'[r] = "none"
  BY EffectFields DEF Balanced, OpenRunIsLive, Guard, OperationFinishedGuard, Apply, CommitEntry, CommitStarted,
     CommitAbortRequested, CommitFinished, CommitStepAttempt, CommitRetryScheduled, CommitToolStarted,
     CommitToolFinished, CommitQueue, JournalTypeOK

(* The gate of the task holds nothing that starts a run.                   *)
StartsNothing == \A i \in DOMAIN pending : pending[i].op # "OperationStarted"

LEMMA RecoverStartsNothing ==
    ASSUME Recover, pending = <<>>
    PROVE  StartsNothing'
<1>1. CASE NothingToRecover \/ PlanReconcile
  BY <1>1 DEF NothingToRecover, PlanReconcile, Goto, StartsNothing
<1>2. CASE RecoverRequestAbort
  BY <1>2 DEF RecoverRequestAbort, Park, StartsNothing
<1>3. CASE ReconcileTool
  <2>1. PICK s \in plan.slots :
            \/ Park(<<[op |-> "ToolFinished", slot |-> s]>>, "reconcile")
            \/ Park(<<Write(Result(s), plan.parent), [op |-> "ToolFinished", slot |-> s]>>, "reconcile")
    BY <1>3 DEF ReconcileTool
  <2> QED BY <2>1 DEF Park, Write, StartsNothing
<1>4. CASE ReconcileQueued
  <2>1. PICK q \in plan.items : Park(<<[op |-> "QueueCancelled", item |-> q]>>, "reconcile")
    BY <1>4 DEF ReconcileQueued
  <2> QED BY <2>1 DEF Park, StartsNothing
<1>5. CASE ReconcileClose
  BY <1>5 DEF ReconcileClose, Park, Write, Finished, StartsNothing
<1>6. CASE RecoverReserve \/ RecoverAbortEntry \/ RecoverFinish
  BY <1>6 DEF RecoverReserve, RecoverAbortEntry, RecoverFinish, Park, Write, Finished, StepAttempt, StartsNothing
<1> QED BY <1>1, <1>2, <1>3, <1>4, <1>5, <1>6 DEF Recover

LEMMA GenerateStartsFresh ==
    ASSUME Generate, pending = <<>>
    PROVE  \A i \in DOMAIN pending' :
               pending'[i].op = "OperationStarted" => i = 1 /\ history[pending'[1].run] = "none"
<1>1. CASE Accept
  <2>1. PICK r \in Fresh :
            pending' = <<[op |-> "OperationStarted", run |-> r],
                         Write(UserEntry(r), leaf),
                         StepAttempt(r, 1, AssistantEntry(r, 1))>>
    BY <1>1 DEF Accept, Park
  <2>2. DOMAIN pending' = 1..3
    BY <2>1
  <2>3. pending'[1].run = r /\ pending'[2].op = "Entry" /\ pending'[3].op = "StepAttempt"
    BY <2>1 DEF Write, StepAttempt
  <2> QED BY <2>2, <2>3 DEF Fresh
<1>2. CASE Generate /\ ~Accept
  <2>1. StartsNothing'
    BY <1>2 DEF Generate, NoFreshRun, ReplyWithTools, FinalReply, ProviderError, RecordIntent, AllIntended,
       JoinResult, JoinFailure, JoinRejected, Joined, PersistResult, BatchPersisted, Goto, Park, Write,
       Declare, StartsNothing
  <2> QED BY <2>1 DEF StartsNothing
<1> QED BY <1>1, <1>2

LEMMA EndStartsNothing ==
    ASSUME End, pending = <<>>
    PROVE  StartsNothing'
<1>1. CASE SettleMissing
  BY <1>1 DEF SettleMissing, Goto, StartsNothing
<1>2. CASE SettleCall
  BY <1>2 DEF SettleCall, Park, StartsNothing
<1>3. CASE Settled
  BY <1>3 DEF Settled, Goto, StartsNothing
<1>4. CASE FinishCompleted \/ ScheduleRetry \/ NoteError \/ FailNote \/ FailFinish
  BY <1>4 DEF FinishCompleted, ScheduleRetry, NoteError, FailNote, FailFinish, Goto, Park, Write, Finished,
              StartsNothing
<1> QED BY <1>1, <1>2, <1>3, <1>4 DEF End

(* A step of the task begins with an empty gate.                           *)
LEMMA StepIdleGate ==
    ASSUME Recover \/ Generate \/ End
    PROVE  pending = <<>>
<1>1. CASE Recover
  BY <1>1 DEF Recover, At, NothingToRecover, RecoverRequestAbort, PlanReconcile, ReconcileTool, ReconcileQueued,
              ReconcileClose, RecoverReserve, RecoverAbortEntry, RecoverFinish
<1>2. CASE Generate
  BY <1>2 DEF Generate, At, Accept, NoFreshRun, ReplyWithTools, FinalReply, ProviderError, RecordIntent,
              AllIntended, JoinResult, JoinFailure, JoinRejected, Joined, PersistResult, BatchPersisted
<1>3. CASE End
  BY <1>3 DEF End, At, SettleMissing, SettleCall, Settled, FinishCompleted, ScheduleRetry, NoteError,
              FailNote, FailFinish
<1> QED BY <1>1, <1>2, <1>3

LEMMA AccountingInit == Init => Accounting
  BY RunsAssumption DEF Init, JournalInit, Accounting, Balanced, OpenRunIsLive, ClosedRunsSettled, DoneStarted,
                        StartsFresh

(* Every step keeps the accounts, rewrites nothing and maps to a step or a *)
(* stutter of the ledger.                                                  *)
LEMMA AccountingStep ==
    ASSUME TaskTypeOK, Accounting, [Next]_vars
    PROVE  Accounting' /\ Grows /\ [Ledger!LedgerNext]_<<history, started \ done>>
<1> USE DEF Accounting
<1>0. JournalTypeOK
  BY DEF TaskTypeOK, TypeOK
<1>a. ASSUME UNCHANGED journal
      PROVE  Balanced' /\ Grows /\ [Ledger!LedgerNext]_<<history, started \ done>>
  BY <1>a DEF journal, Balanced, OpenRunIsLive, ClosedRunsSettled, DoneStarted, Grows, Present
<1>b. ASSUME UNCHANGED journal, pending' = <<>>, other' = other \/ other' = <<>>
      PROVE  StartsFresh'
  BY <1>b DEF StartsFresh, journal
<1>1. CASE Commit
  <2>1. Head(pending) \in Effects /\ Tail(pending) \in Seq(Effects) /\ pending \in Seq(Effects)
    BY <1>1, HeadTail DEF Commit, TaskTypeOK, TypeOK
  <2>2. Head(pending).op = "OperationStarted" => history[Head(pending).run] = "none"
    BY <1>1, <2>1 DEF Commit, StartsFresh
  <2>3. Balanced' /\ Grows /\ [Ledger!LedgerNext]_<<history, started \ done>>
    BY <1>0, <1>1, <2>1, <2>2, ApplyBalanced DEF Commit
  <2>4. \A i \in DOMAIN Tail(pending) : Tail(pending)[i].op # "OperationStarted"
    <3>1. \A i \in DOMAIN Tail(pending) :
              i + 1 \in DOMAIN pending /\ Tail(pending)[i] = pending[i + 1] /\ i + 1 # 1
      BY <1>1, <2>1 DEF Commit
    <3> QED BY <3>1 DEF StartsFresh
  <2>5. StartsFresh'
    BY <1>1, <2>4 DEF Commit, StartsFresh
  <2> QED BY <2>3, <2>5
<1>2. CASE Reject
  BY <1>2, <1>a, <1>b DEF Reject
<1>3. CASE HandleFaulted
  BY <1>3, <1>a, <1>b DEF HandleFaulted
<1>4. CASE Step
  <2>1. UNCHANGED journal /\ pending = <<>>
    BY <1>4, StepFrame, StepIdleGate DEF Step
  <2>2. \A i \in DOMAIN pending' :
            pending'[i].op = "OperationStarted" => i = 1 /\ history[pending'[1].run] = "none"
    BY <1>4, <2>1, RecoverStartsNothing, GenerateStartsFresh, EndStartsNothing DEF Step, StartsNothing
  <2>3. StartsFresh'
    BY <1>4, <2>1, <2>2 DEF Step, StartsFresh, journal
  <2> QED BY <1>a, <2>1, <2>3
<1>5. CASE Prompt
  BY <1>5, <1>a, <1>b DEF Prompt, NewTask
<1>6. CASE OtherParks
  <2>1. UNCHANGED journal /\ pending' = pending /\ other' # <<>> => Head(other').op # "OperationStarted"
    BY <1>6 DEF OtherParks, task
  <2>2. StartsFresh'
    BY <1>6, <2>1 DEF OtherParks, task, StartsFresh, journal
  <2> QED BY <1>6, <1>a, <2>2 DEF OtherParks
<1>7. CASE OtherCommits
  <2>1. Head(other) \in Effects /\ Head(other).op # "OperationStarted"
    BY <1>7, HeadTail DEF OtherCommits, TaskTypeOK, TypeOK, StartsFresh
  <2>2. CASE UNCHANGED journal
    BY <1>7, <1>a, <2>2 DEF OtherCommits, task, StartsFresh, journal
  <2>3. CASE Guard(Head(other)) /\ Apply(Head(other))
    <3>1. Balanced' /\ Grows /\ [Ledger!LedgerNext]_<<history, started \ done>>
      BY <1>0, <2>1, <2>3, ApplyBalanced
    <3>2. \A r \in Runs : history[r] = "none" => history'[r] = "none"
      BY <1>0, <2>1, <2>3, FreshStays
    <3>3. ASSUME NEW i \in DOMAIN pending, pending[i].op = "OperationStarted"
          PROVE  i = 1 /\ history'[pending[1].run] = "none"
      <4>1. i = 1 /\ history[pending[1].run] = "none"
        BY <3>3 DEF StartsFresh
      <4>2. pending[1] \in Effects
        BY <3>3, <4>1 DEF TaskTypeOK, TypeOK
      <4> QED BY <3>2, <3>3, <4>1, <4>2, EffectFields
    <3>4. StartsFresh'
      BY <1>7, <3>3 DEF OtherCommits, task, StartsFresh
    <3> QED BY <3>1, <3>4
  <2> QED BY <1>7, <2>2, <2>3 DEF OtherCommits
<1>8. CASE Stop
  BY <1>8, <1>a, <1>b DEF Stop, NewTask
<1>9. CASE Crash
  BY <1>9, <1>a, <1>b DEF Crash, NewTask
<1>10. CASE UNCHANGED vars
  BY <1>10, <1>a DEF vars, task, StartsFresh, journal
<1> QED BY <1>1, <1>2, <1>3, <1>4, <1>5, <1>6, <1>7, <1>8, <1>9, <1>10 DEF Next, Driven

(* Nothing a session does (crashing, being stopped, racing with another    *)
(* handle, recovering) leaves a closed run with a tool call it started and *)
(* never completed, or two open runs.                                      *)
THEOREM RunsBalanced == Spec => [](ClosedRunsSettled /\ OpenRunIsLive)
<1>1. Init => TaskTypeOK /\ Accounting
  BY TaskInit, AccountingInit
<1>2. TaskTypeOK /\ Accounting /\ [Next]_vars => (TaskTypeOK /\ Accounting)'
  BY TaskTyped, AccountingStep
<1>3. Accounting => ClosedRunsSettled /\ OpenRunIsLive
  BY DEF Accounting, Balanced
<1> QED BY <1>1, <1>2, <1>3, PTL DEF Spec

(* The open run of the journal is the open operation of the lane that the  *)
(* reducer rebuilds, and no operation is open when every run is closed.    *)
THEOREM OpenRunTracked == Spec => []OpenRunIsLive
BY RunsBalanced, PTL

(* The journal is append-only: no entry is rewritten, no completion is     *)
(* withdrawn and no finished run is reopened.                              *)
THEOREM JournalAppendOnly == Spec => AppendOnly
<1>1. Init => TaskTypeOK /\ Accounting
  BY TaskInit, AccountingInit
<1>2. TaskTypeOK /\ Accounting /\ [Next]_vars => (TaskTypeOK /\ Accounting)'
  BY TaskTyped, AccountingStep
<1>3. TaskTypeOK /\ Accounting /\ [Next]_vars => [Grows]_vars
  BY AccountingStep
<1>4. [][Grows]_vars => AppendOnly
  <2>1. [Grows]_vars => [/\ \A e \in Present : e \in Present' /\ entries'[e] = entries[e]
                         /\ done \subseteq done' /\ started \subseteq started'
                         /\ \A r \in Runs : history[r] \in Outcomes => history'[r] = history[r]]_vars
    BY DEF Grows
  <2> QED BY <2>1, PTL DEF AppendOnly
<1> QED BY <1>1, <1>2, <1>3, <1>4, PTL DEF Spec

(* The journal with its procedures implements the ledger of RunLedger.     *)
THEOREM JournalImplementsLedger == Spec => ImplementsLedger
<1>1. Init => TaskTypeOK /\ Accounting /\ Ledger!LedgerInit
  BY TaskInit, AccountingInit DEF Init, JournalInit, Ledger!LedgerInit
<1>2. TaskTypeOK /\ Accounting /\ [Next]_vars => (TaskTypeOK /\ Accounting)'
  BY TaskTyped, AccountingStep
<1>3. TaskTypeOK /\ Accounting /\ [Next]_vars => [Ledger!LedgerNext]_(Ledger!ledger)
  BY AccountingStep DEF Ledger!ledger
<1> QED BY <1>1, <1>2, <1>3, PTL DEF Spec, ImplementsLedger, Ledger!LedgerSpec
=============================================================================
