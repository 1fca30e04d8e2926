------------------------ MODULE HarnessTranscript_proofs ------------------------
(***************************************************************************)
(* Theorems about the transcript of HarnessRun, for any set of runs,       *)
(* batches and bounds: that it is one chain, and that a completed run      *)
(* answered its calls.  Both rest on one inductive invariant, Chained:     *)
(* what holds of the journal alone, what the task knows at each of its     *)
(* steps, and what every parked append promises about the state in which   *)
(* it will be committed.                                                   *)
(*                                                                         *)
(* On top of it, for batches whose calls neither die nor are refused in    *)
(* the middle, Ready says why every parked append will pass the guard of   *)
(* the reducer; it gives that no append is refused.  For any batch, and    *)
(* whatever fails in it, Prefix says which appends of the join pass; it    *)
(* gives that a failure costs the results above it and none below it.      *)
(***************************************************************************)
EXTENDS HarnessRun_proofs

-----------------------------------------------------------------------------
(* The invariant.                                                          *)

(* The steps of a run the task itself drives, from its acceptance on.      *)
GenPCs == RunPCs \ {"reconcile", "recover-finish"}

(* An entry's parent is in the transcript.                                 *)
ParentsKnown ==
    /\ \A e \in Present : entries[e].parent \in Present \cup {NoEntry}
    /\ leaf \in Present \cup {NoEntry}

(* Entries and reserved results are those of runs that were started.       *)
RunsKnown ==
    /\ \A e \in Present : history[e.run] # "none"
    /\ \A s \in steps : s.result.run = s.run

(* The assistant entries of a run that declare calls.                      *)
Declared(r) == {e \in Present : e.run = r /\ e.kind = "assistant" /\ entries[e].calls > 0}

DeclaredNames == \A r \in Runs : \A e \in Declared(r) : e = AssistantEntry(r, e.turn)

(* What CompletedRunsAnswered asks of one run.                             *)
Answered(r) ==
    \A e \in Declared(r) :
        (\A f \in Declared(r) : f.turn <= e.turn)
        => \A i \in 0..(entries[e].calls - 1) : [run |-> r, turn |-> e.turn, ix |-> i] \in done

CompletedAnswered == \A r \in Runs : history[r] = "Completed" => Answered(r)

JournalOK ==
    LinearTranscript /\ ParentsKnown /\ RunsKnown /\ DeclaredNames /\ CompletedAnswered

(* The first parked append starts a run.                                   *)
Starting == pending # <<>> /\ pending[1].op = "OperationStarted"

Writing == \E i \in DOMAIN pending : pending[i].op = "Entry"

(* The run the task works on is the one that is open.                      *)
CurOpen == pc \in RunPCs /\ ~Starting => open = cur

(* What the trace handle has parked belongs to a step of the run.          *)
TraceGen == pending # <<>> /\ handle = "trace" => pc \in GenPCs

(* Calls and results of the run are of the turns it has had.               *)
TurnBound ==
    pc \in GenPCs =>
        \A e \in Present : e.run = cur =>
            /\ e.kind = "tool" => e.turn <= turn
            /\ e.kind = "assistant" /\ entries[e].calls > 0 => e.turn \in 1..turn

(* While intents are recorded the declaring entry is the leaf.             *)
IntentsOK ==
    pc = "intents" =>
        /\ ~Writing => leaf = AssistantEntry(cur, turn)
        /\ \A i \in Nat : Result(Call(i)) \notin Present
        /\ \A i \in Nat : i < next /\ i \notin batch.rejected =>
              \/ Call(i) \in started
              \/ \E j \in DOMAIN pending : pending[j] = [op |-> "ToolStarted", slot |-> Call(i)]

(* While results are joined the leaf is the last of them, or the declaring *)
(* entry, and nothing is recorded above it.                                *)
JoinOK ==
    pc = "join" =>
        /\ \A i \in Nat : i < batch.n /\ i \notin batch.rejected => Call(i) \in started
        /\ \/ leaf = AssistantEntry(cur, turn) /\ \A i \in Nat : Result(Call(i)) \notin Present
           \/ \E k \in Nat : /\ k < next /\ Call(k) \in started /\ leaf = Result(Call(k))
                             /\ \A i \in Nat : i > k => Result(Call(i)) \notin Present

(* The parent that reconcile carries along is the leaf.                    *)
PlanOK ==
    pc = "reconcile" =>
        /\ ~Writing => plan.parent = leaf
        /\ \A s \in plan.slots : s.run = cur

FinishOK == pc = "finish" => Answered(cur) /\ pending = <<>>

TaskOK == CurOpen /\ TraceGen /\ TurnBound /\ IntentsOK /\ JoinOK /\ PlanOK /\ FinishOK

(* An entry is parked on the leaf, or on something that is not in the      *)
(* transcript, in which case it will be refused.                           *)
EntryPromise(e) ==
    /\ e.parent = leaf \/ e.parent \notin Present \cup {NoEntry}
    /\ \/ history[e.id.run] # "none"
       \/ Starting /\ pending[1].run = e.id.run
    /\ e.calls > 0 => pc = "intents"
    /\ pc = "intents" => e.id = AssistantEntry(cur, turn) /\ turn > 0
    /\ pc = "join" => next > 0 /\ e.id = Result(Call(next - 1)) /\ Call(next - 1) \in started
    /\ pc = "reconcile" => plan.parent = e.id
    /\ pc \in GenPCs /\ e.id.kind = "tool" => e.id.turn <= turn

ParkPromise(e) ==
    /\ e.op = "Entry" => EntryPromise(e)
    /\ e.op = "StepAttempt" => e.result.run = e.run
    /\ e.op = "OperationStarted" => pc = "provider" /\ handle = "session" /\ e.run = cur
    /\ e.op = "OperationFinished" => pc \notin RunPCs /\ (e.outcome = "Completed" => Answered(e.run))

PendingOK ==
    /\ \A i \in DOMAIN pending : ParkPromise(pending[i])
    /\ \A i, j \in DOMAIN pending : pending[i].op = "Entry" /\ pending[j].op = "Entry" => i = j

(* Other handles write no entries and neither open nor close a run.        *)
OtherKinds == {"AbortRequested", "QueueEnqueued", "QueueCancelled", "QueueConsumed"}

OtherOK == other # <<>> => Head(other).op \in OtherKinds

Chained == JournalOK /\ TaskOK /\ PendingOK /\ OtherOK

-----------------------------------------------------------------------------
(* What the parts of the invariant depend on.                              *)

(* The journal variables that the invariant reads.                         *)
record == <<entries, leaf, open, steps, started, done, history>>

LEMMA JournalOKFrame ==
    ASSUME JournalOK, UNCHANGED <<entries, leaf, steps, done, history>>
    PROVE  JournalOK'
<1>1. Present' = Present
  BY DEF Present
<1>2. \A r \in Runs : Declared(r)' = Declared(r)
  BY <1>1 DEF Declared
<1>3. LinearTranscript' /\ ParentsKnown' /\ RunsKnown'
  BY <1>1 DEF JournalOK, LinearTranscript, ParentsKnown, RunsKnown
<1>4. DeclaredNames'
  BY <1>2 DEF JournalOK, DeclaredNames
<1>5. CompletedAnswered'
  BY <1>2 DEF JournalOK, CompletedAnswered, Answered
<1> QED BY <1>3, <1>4, <1>5 DEF JournalOK

(* A step that leaves the task and these variables keeps the invariant.    *)
LEMMA ChainedFrame ==
    ASSUME JournalOK, TaskOK, PendingOK, UNCHANGED <<record, task>>
    PROVE  JournalOK' /\ TaskOK' /\ PendingOK'
<1>0. UNCHANGED <<entries, leaf, open, steps, started, done, history>>
      /\ UNCHANGED <<pc, handle, pending, cur, turn, batch, next, plan>>
  BY DEF record, task
<1>1. JournalOK'
  BY <1>0, JournalOKFrame
<1>2. Present' = Present /\ Starting' = Starting /\ Writing' = Writing
  BY <1>0 DEF Present, Starting, Writing
<1>3. \A r : Answered(r)' = Answered(r)
  BY <1>0, <1>2 DEF Answered, Declared
<1>4. \A i : Call(i)' = Call(i)
  BY <1>0 DEF Call
<1>5. CurOpen' /\ TraceGen' /\ TurnBound' /\ PlanOK' /\ FinishOK'
  BY <1>0, <1>2, <1>3 DEF TaskOK, CurOpen, TraceGen, TurnBound, PlanOK, FinishOK
<1>6. IntentsOK' /\ JoinOK'
  BY <1>0, <1>2, <1>4 DEF TaskOK, IntentsOK, JoinOK
<1>7. ASSUME NEW i \in DOMAIN pending
      PROVE  ParkPromise(pending[i])'
  <2>1. ParkPromise(pending[i])
    BY DEF PendingOK
  <2> QED BY <1>0, <1>2, <1>3, <1>4, <2>1 DEF ParkPromise, EntryPromise
<1>8. PendingOK'
  BY <1>0, <1>7 DEF PendingOK
<1> QED BY <1>1, <1>5, <1>6, <1>8 DEF TaskOK

LEMMA ChainedInit == Init => Chained
<1> SUFFICES ASSUME Init PROVE Chained
  OBVIOUS
<1>1. Present = {} /\ leaf = NoEntry /\ steps = {} /\ pending = <<>> /\ other = <<>> /\ pc = "idle"
      /\ \A r \in Runs : history[r] = "none"
  BY DEF Init, JournalInit, Present
<1>2. LinearTranscript /\ ParentsKnown /\ RunsKnown /\ DeclaredNames /\ CompletedAnswered
  BY <1>1 DEF LinearTranscript, ParentsKnown, RunsKnown, DeclaredNames, CompletedAnswered, Declared
<1>3. pc \notin RunPCs /\ pc \notin GenPCs
  BY <1>1 DEF RunPCs, GenPCs
<1> QED BY <1>1, <1>2, <1>3 DEF Chained, JournalOK, TaskOK, CurOpen, TraceGen, TurnBound, IntentsOK, JoinOK,
                PlanOK, FinishOK, PendingOK, OtherOK

(* With an empty gate and no step of a batch ahead, the task knows no more *)
(* than which run is open and how many turns it had.                       *)
LEMMA Dropped ==
    ASSUME pending' = <<>>, pc' \in {"idle", "recover", "accept"}
    PROVE  TaskOK' /\ PendingOK'
<1>1. pc' \notin RunPCs /\ pc' \notin GenPCs
  BY DEF RunPCs, GenPCs
<1> QED BY <1>1 DEF TaskOK, CurOpen, TraceGen, TurnBound, IntentsOK, JoinOK, PlanOK, FinishOK, PendingOK

(* A generation that a fault ends goes on with the end of its run.         *)
LEMMA Escalated ==
    ASSUME JournalOK, TaskOK, pc \in GenPCs, open = cur,
           UNCHANGED record, UNCHANGED <<cur, turn>>, pending' = <<>>, pc' = "settle"
    PROVE  TaskOK' /\ PendingOK'
<1>1. Present' = Present /\ UNCHANGED <<entries, open, cur, turn>>
  BY DEF record, Present
<1>2. TurnBound'
  BY <1>1 DEF TaskOK, TurnBound
<1>3. CurOpen'
  BY <1>1 DEF CurOpen
<1> QED BY <1>2, <1>3 DEF TaskOK, TraceGen, IntentsOK, JoinOK, PlanOK, FinishOK, PendingOK

LEMMA JournalSame ==
    ASSUME JournalOK, UNCHANGED journal
    PROVE  JournalOK' /\ UNCHANGED record
<1>1. UNCHANGED <<entries, leaf, open, steps, started, done, history>>
  BY DEF journal
<1> QED BY <1>1, JournalOKFrame DEF record

(* What other handles append leaves the transcript and the runs alone.     *)
LEMMA OtherFrame ==
    ASSUME OtherOK, OtherCommits
    PROVE  UNCHANGED <<record, task>>
<1>1. CASE UNCHANGED journal
  BY <1>1 DEF OtherCommits, journal, record
<1>2. CASE Apply(Head(other))
  <2>1. Head(other).op \in OtherKinds
    BY DEF OtherCommits, OtherOK
  <2>2. CommitAbortRequested(Head(other)) \/ CommitQueue(Head(other))
    BY <1>2, <2>1 DEF OtherKinds, Apply, CommitEntry, CommitStarted, CommitFinished, CommitStepAttempt,
          CommitRetryScheduled, CommitToolStarted, CommitToolFinished
  <2> QED BY <2>2 DEF OtherCommits, CommitAbortRequested, CommitQueue, record
<1> QED BY <1>1, <1>2 DEF OtherCommits

(* What a step of the gate, but for a commit, or of the environment keeps. *)
LEMMA ChainedAround ==
    ASSUME TaskTypeOK, Chained,
           Reject \/ HandleFaulted \/ Prompt \/ OtherParks \/ OtherCommits \/ Stop \/ Crash
    PROVE  Chained'
<1> USE DEF Chained
<1>1. CASE Reject
  <2>1. JournalOK' /\ UNCHANGED record
    BY <1>1, JournalSame DEF Reject
  <2>2. OtherOK' /\ pending' = <<>>
    BY <1>1 DEF Reject, OtherOK
  <2>3. CASE handle = "trace"
    <3>1. pc \in GenPCs /\ pc \in RunPCs
      BY <1>1, <2>3 DEF Reject, TaskOK, TraceGen, GenPCs
    <3>2. ~Starting
      <4>1. pending # <<>> => 1 \in DOMAIN pending
        BY DEF TaskTypeOK, TypeOK
      <4>2. Starting => handle = "session"
        BY <4>1 DEF Starting, PendingOK, ParkPromise
      <4> QED BY <2>3, <4>2
    <3>3. open = cur
      BY <3>1, <3>2 DEF TaskOK, CurOpen
    <3> QED BY <1>1, <2>1, <2>2, <2>3, <3>1, <3>3, Escalated DEF Reject, Escalate
  <2>4. CASE handle # "trace"
    BY <1>1, <2>1, <2>2, <2>4, Dropped DEF Reject, Escalate
  <2> QED BY <2>3, <2>4
<1>2. CASE HandleFaulted
  <2>1. JournalOK' /\ UNCHANGED record
    BY <1>2, JournalSame DEF HandleFaulted
  <2>2. OtherOK' /\ pending' = <<>>
    BY <1>2 DEF HandleFaulted, OtherOK
  <2>3. CASE pc \in TraceSteps
    <3>1. pc \in GenPCs /\ pc \in RunPCs
      BY <2>3 DEF TraceSteps, RunPCs, GenPCs, PCs
    <3>2. open = cur
      BY <1>2, <3>1 DEF HandleFaulted, TaskOK, CurOpen, Starting
    <3> QED BY <1>2, <2>1, <2>2, <2>3, <3>1, <3>2, Escalated DEF HandleFaulted, Escalate, HandleOf
  <2>4. CASE pc \notin TraceSteps
    BY <1>2, <2>1, <2>2, <2>4, Dropped DEF HandleFaulted, Escalate, HandleOf
  <2> QED BY <2>3, <2>4
<1>3. CASE Prompt
  BY <1>3, JournalSame, Dropped DEF Prompt, NewTask, OtherOK
<1>4. CASE OtherParks
  <2>1. UNCHANGED <<record, task>>
    BY <1>4, JournalSame DEF OtherParks
  <2>2. OtherOK'
    BY <1>4 DEF OtherParks, OtherOK, OtherKinds
  <2> QED BY <2>1, <2>2, ChainedFrame
<1>5. CASE OtherCommits
  <2>1. UNCHANGED <<record, task>> /\ OtherOK'
    BY <1>5, OtherFrame DEF OtherCommits, OtherOK
  <2> QED BY <2>1, ChainedFrame
<1>6. CASE Stop
  BY <1>6, JournalSame, Dropped DEF Stop, NewTask, OtherOK
<1>7. CASE Crash
  BY <1>7, JournalSame, Dropped DEF Crash, NewTask, OtherOK
<1> QED BY <1>1, <1>2, <1>3, <1>4, <1>5, <1>6, <1>7

-----------------------------------------------------------------------------
(* Commits.                                                                *)

(* An entry on the leaf extends the chain.                                 *)
LEMMA EntryExtends ==
    ASSUME JournalTypeOK, JournalOK, NEW e \in Effects, CommitEntry(e), EntryGuard(e),
           e.parent = leaf, history[e.id.run] # "none",
           e.calls > 0 => /\ e.id = AssistantEntry(e.id.run, e.id.turn)
                          /\ history[e.id.run] = "open"
    PROVE  JournalOK'
<1>1. /\ e.op = "Entry" /\ e.id \notin Present /\ e.id \in EntryIds /\ e.calls \in Nat
      /\ Present' = Present \cup {e.id} /\ leaf' = e.id
      /\ entries'[e.id] = [parent |-> e.parent, calls |-> e.calls]
      /\ \A i \in Present : entries'[i] = entries[i]
      /\ UNCHANGED <<steps, done, history>>
  BY EffectFields DEF CommitEntry, EntryGuard, Present
<1>2. e.id # NoEntry /\ leaf \in Present \cup {NoEntry} /\ leaf # e.id
  BY <1>1, EntryAssumption DEF JournalOK, ParentsKnown
<1>3. \A f \in Present : entries[f].parent # leaf /\ entries[f].parent # e.id
  BY <1>1, <1>2 DEF JournalOK, LinearTranscript, ParentsKnown
<1>4. LinearTranscript'
  <2>1. \A f, g \in Present' : entries'[f].parent = entries'[g].parent => f = g
    BY <1>1, <1>3 DEF JournalOK, LinearTranscript
  <2>2. \A f \in Present' : entries'[f].parent # leaf'
    BY <1>1, <1>2, <1>3
  <2>3. leaf' # NoEntry /\ Present' # {}
    BY <1>1, <1>2
  <2> QED BY <2>1, <2>2, <2>3 DEF LinearTranscript
<1>5. ParentsKnown'
  BY <1>1, <1>2 DEF JournalOK, ParentsKnown
<1>6. RunsKnown'
  BY <1>1 DEF JournalOK, RunsKnown
<1>7. \A r \in Runs : Declared(r) \subseteq Declared(r)'
                      /\ \A f \in Declared(r)' : f \in Declared(r) \/ (f = e.id /\ e.calls > 0 /\ f.run = r)
  BY <1>1 DEF Declared
<1>8. DeclaredNames'
  BY <1>7 DEF JournalOK, DeclaredNames
<1>9. ASSUME NEW r \in Runs, history'[r] = "Completed"
      PROVE  Answered(r)'
  <2>1. history[r] = "Completed" /\ Answered(r)
    BY <1>1, <1>9 DEF JournalOK, CompletedAnswered
  <2>2. Declared(r)' = Declared(r)
    BY <1>7, <2>1
  <2>3. \A f \in Declared(r) : entries'[f] = entries[f]
    BY <1>1 DEF Declared
  <2> QED BY <1>1, <2>1, <2>2, <2>3 DEF Answered
<1> QED BY <1>4, <1>5, <1>6, <1>8, <1>9 DEF JournalOK, CompletedAnswered

(* An append that is not an entry leaves the transcript as it is.          *)
LEMMA RecordGrows ==
    ASSUME JournalTypeOK, JournalOK, NEW e \in Effects, Guard(e), Apply(e), e.op # "Entry",
           e.op = "StepAttempt" => e.result.run = e.run,
           e.op = "OperationFinished" /\ e.outcome = "Completed" => Answered(e.run)
    PROVE  /\ JournalOK'
           /\ UNCHANGED <<entries, leaf>>
           /\ started \subseteq started' /\ done \subseteq done'
           /\ \A r \in Runs : history[r] # "none" => history'[r] # "none"
           /\ e.op \notin {"OperationStarted", "OperationFinished"} => UNCHANGED open
<1>1. /\ UNCHANGED <<entries, leaf>>
      /\ started \subseteq started' /\ done \subseteq done'
      /\ e.op \notin {"OperationStarted", "OperationFinished"} => UNCHANGED <<open, history>>
      /\ e.op = "StepAttempt" => steps' = steps \cup {[run |-> e.run, attempt |-> e.attempt, result |-> e.result]}
      /\ e.op # "StepAttempt" => UNCHANGED steps
      /\ e.op = "OperationStarted" => e.run \in Runs /\ history' = [history EXCEPT ![e.run] = "open"]
      /\ e.op = "OperationFinished" =>
            e.run \in Runs /\ e.outcome \in Outcomes /\ history' = [history EXCEPT ![e.run] = e.outcome]
  BY EffectFields DEF Guard, Apply, CommitEntry, CommitStarted, CommitAbortRequested, CommitFinished,
     CommitStepAttempt, CommitRetryScheduled, CommitToolStarted, CommitToolFinished, CommitQueue
<1>2. Present' = Present /\ \A r : Declared(r)' = Declared(r)
  BY <1>1 DEF Present, Declared
<1>3. \A r \in Runs : Answered(r) => Answered(r)'
  BY <1>1, <1>2 DEF Answered
<1>4. \A r \in Runs : history[r] # "none" => history'[r] # "none"
  BY <1>1, OutcomeNames DEF JournalTypeOK
<1>5. LinearTranscript' /\ ParentsKnown' /\ DeclaredNames'
  BY <1>1, <1>2 DEF JournalOK, LinearTranscript, ParentsKnown, DeclaredNames
<1>6. RunsKnown'
  <2>1. \A f \in Present : f.run \in Runs
    BY DEF JournalTypeOK, EntryIds
  <2> QED BY <1>1, <1>2, <1>4, <2>1 DEF JournalOK, RunsKnown
<1>7. ASSUME NEW r \in Runs, history'[r] = "Completed"
      PROVE  Answered(r)
  BY <1>1, <1>7 DEF JournalTypeOK, JournalOK, CompletedAnswered
<1> QED BY <1>1, <1>3, <1>4, <1>5, <1>6, <1>7 DEF JournalOK, CompletedAnswered

LEMMA TailPlaces ==
    ASSUME NEW q \in Seq(Effects), q # <<>>
    PROVE  /\ Head(q) = q[1] /\ 1 \in DOMAIN q /\ Head(q) \in Effects
           /\ \A i \in DOMAIN Tail(q) : i + 1 \in DOMAIN q /\ i + 1 # 1 /\ Tail(q)[i] = q[i + 1]
           /\ \A j \in DOMAIN q : j # 1 => j - 1 \in DOMAIN Tail(q) /\ Tail(q)[j - 1] = q[j]
  OBVIOUS

(* A commit that starts a run is the only one after which the gate may     *)
(* have been starting one.                                                 *)
LEMMA StartedOnce ==
    ASSUME StartsFresh, pending \in Seq(Effects), pending # <<>>, pending' = Tail(pending)
    PROVE  ~Starting'
<1>1. \A i \in DOMAIN Tail(pending) : Tail(pending)[i].op # "OperationStarted"
  BY TailPlaces DEF StartsFresh
<1>2. pending' # <<>> => 1 \in DOMAIN pending'
  OBVIOUS
<1> QED BY <1>1, <1>2 DEF Starting

LEMMA ResultIds ==
    ASSUME NEW i \in Nat
    PROVE  /\ Result(Call(i)) = [kind |-> "tool", run |-> cur, turn |-> turn, ix |-> i]
           /\ Declaring(Call(i)) = AssistantEntry(cur, turn)
           /\ \A r, t : Result(Call(i)) # AssistantEntry(r, t)
           /\ \A j \in Nat : Result(Call(i)) = Result(Call(j)) => i = j
  BY DEF Result, Call, Declaring, AssistantEntry

LEMMA CommitEntryKeeps ==
    ASSUME TaskTypeOK, Accounting, Chained, Commit, Head(pending).op = "Entry"
    PROVE  JournalOK' /\ TaskOK' /\ PendingOK'
<1> PICK e : e = Head(pending)
  OBVIOUS
<1> USE DEF Chained
<1>1. /\ pending \in Seq(Effects) /\ pending # <<>> /\ JournalTypeOK /\ CurIsRun
      /\ pending' = Tail(pending)
      /\ UNCHANGED <<pc, handle, cur, turn, batch, next, plan>>
  BY DEF TaskTypeOK, TypeOK, Commit
<1>2. /\ e = pending[1] /\ 1 \in DOMAIN pending /\ e \in Effects
      /\ \A i \in DOMAIN pending' : i + 1 \in DOMAIN pending /\ i + 1 # 1 /\ pending'[i] = pending[i + 1]
      /\ \A j \in DOMAIN pending : j # 1 => j - 1 \in DOMAIN pending' /\ pending'[j - 1] = pending[j]
  BY <1>1, TailPlaces
<1>3. CommitEntry(e) /\ EntryGuard(e)
  BY DEF Commit, Guard, Apply, CommitEntry, CommitStarted, CommitAbortRequested, CommitFinished,
         CommitStepAttempt, CommitRetryScheduled, CommitToolStarted, CommitToolFinished, CommitQueue
<1>4. EntryPromise(e) /\ ~Starting /\ ~Starting'
  BY <1>1, <1>2, StartedOnce DEF PendingOK, ParkPromise, Starting, Accounting
<1>5. e.parent = leaf /\ history[e.id.run] # "none"
  BY <1>3, <1>4 DEF EntryPromise, EntryGuard
<1>6. pc \in RunPCs => open = cur /\ cur \in Runs /\ history[cur] = "open"
  BY <1>1, <1>4 DEF TaskOK, CurOpen, CurIsRun, Accounting, Balanced, OpenRunIsLive
<1>7. e.calls > 0 => pc = "intents"
  BY <1>4 DEF EntryPromise
<1>8. pc = "intents" => e.id = AssistantEntry(cur, turn) /\ e.id.run = cur /\ e.id.turn = turn /\ turn > 0
  BY <1>4 DEF EntryPromise, AssistantEntry
<1>9. {"intents", "join", "reconcile", "finish"} \subseteq RunPCs
  BY DEF RunPCs, PCs
<1>10. e.calls > 0 => e.id = AssistantEntry(e.id.run, e.id.turn) /\ history[e.id.run] = "open"
  BY <1>6, <1>7, <1>8, <1>9
<1>11. JournalOK'
  BY <1>1, <1>2, <1>3, <1>5, <1>10, EntryExtends
<1>12. /\ e.id \notin Present /\ e.id \in EntryIds /\ e.calls \in Nat
       /\ Present' = Present \cup {e.id} /\ leaf' = e.id
       /\ entries'[e.id].calls = e.calls
       /\ \A i \in Present : entries'[i] = entries[i]
       /\ UNCHANGED <<open, started, done, history>>
  BY <1>2, <1>3, EffectFields DEF CommitEntry, EntryGuard, Present
<1>13. ~Writing' /\ Writing
  BY <1>2 DEF Writing, PendingOK
<1>14. \A i : Call(i)' = Call(i)
  BY <1>1 DEF Call
<1>15. CurOpen' /\ TraceGen'
  BY <1>1, <1>4, <1>12 DEF TaskOK, CurOpen, TraceGen
<1>16. TurnBound'
  <2>1. pc \in GenPCs /\ e.id.run = cur /\ e.id.kind = "tool" => e.id.turn <= turn
    BY <1>4 DEF EntryPromise
  <2>2. turn \in Nat
    BY DEF TaskTypeOK, TypeOK
  <2>3. pc \in GenPCs /\ e.id.run = cur /\ e.calls > 0 => e.id.turn \in 1..turn
    BY <1>7, <1>8, <2>2
  <2> QED BY <1>1, <1>12, <2>1, <2>3 DEF TaskOK, TurnBound
<1>17. IntentsOK'
  <2> SUFFICES ASSUME pc = "intents"
               PROVE  /\ leaf' = AssistantEntry(cur, turn)
                      /\ \A i \in Nat : Result(Call(i)) \notin Present'
                      /\ \A i \in Nat : i < next /\ i \notin batch.rejected =>
                            \/ Call(i) \in started
                            \/ \E j \in DOMAIN pending' : pending'[j] = [op |-> "ToolStarted", slot |-> Call(i)]
    BY <1>1, <1>12, <1>14 DEF IntentsOK
  <2>1. \A i \in Nat : Result(Call(i)) \notin Present'
    BY <1>8, <1>12, ResultIds DEF TaskOK, IntentsOK
  <2>2. ASSUME NEW i \in Nat, NEW j \in DOMAIN pending,
               pending[j] = [op |-> "ToolStarted", slot |-> Call(i)]
        PROVE  j - 1 \in DOMAIN pending' /\ pending'[j - 1] = [op |-> "ToolStarted", slot |-> Call(i)]
    BY <1>2, <2>2
  <2> QED BY <1>8, <1>12, <2>1, <2>2 DEF TaskOK, IntentsOK
<1>18. JoinOK'
  <2> SUFFICES ASSUME pc = "join" PROVE JoinOK'
    BY <1>1 DEF JoinOK
  <2>1. next \in Nat /\ next > 0 /\ e.id = Result(Call(next - 1)) /\ Call(next - 1) \in started
    BY <1>4 DEF EntryPromise, TaskTypeOK, TypeOK
  <2>2. PICK k \in Nat : k = next - 1
    BY <2>1
  <2>3. \A i \in Nat : i > k => Result(Call(i)) \notin Present
    BY <2>1, <2>2 DEF TaskOK, JoinOK
  <2>4. \A i \in Nat : i > k => Result(Call(i)) # e.id
    BY <2>1, <2>2, ResultIds
  <2>5. /\ k < next' /\ Call(k)' \in started' /\ leaf' = Result(Call(k))'
        /\ \A i \in Nat : i > k => Result(Call(i))' \notin Present'
    BY <1>1, <1>12, <1>14, <2>1, <2>2, <2>3, <2>4 DEF Result
  <2>6. \A i \in Nat : i < batch'.n /\ i \notin batch'.rejected => Call(i)' \in started'
    BY <1>1, <1>12, <1>14 DEF TaskOK, JoinOK
  <2> QED BY <2>5, <2>6 DEF JoinOK
<1>19. PlanOK'
  BY <1>1, <1>4, <1>12 DEF TaskOK, PlanOK, EntryPromise
<1>20. FinishOK'
  BY <1>1 DEF TaskOK, FinishOK
<1>21. ASSUME NEW i \in DOMAIN pending', NEW p, p = pending'[i]
       PROVE  p.op # "Entry" /\ ParkPromise(p)'
  <2>1. i + 1 \in DOMAIN pending /\ p = pending[i + 1] /\ p.op # "Entry"
    BY <1>2, <1>21 DEF PendingOK
  <2>2. ParkPromise(p)
    BY <2>1 DEF PendingOK
  <2>3. CASE p.op = "OperationFinished"
    <3>1. pc \notin RunPCs /\ e.calls = 0
      BY <1>7, <1>9, <1>12, <2>1, <2>2, <2>3 DEF ParkPromise
    <3>2. \A r : Declared(r)' = Declared(r)
      BY <1>12, <3>1 DEF Declared
    <3>3. \A r : Answered(r) => Answered(r)'
      <4>1. \A r : \A f \in Declared(r) : entries'[f] = entries[f]
        BY <1>12 DEF Declared
      <4> QED BY <1>12, <3>2, <4>1 DEF Answered
    <3> QED BY <1>1, <2>1, <2>2, <2>3, <3>1, <3>3 DEF ParkPromise
  <2> QED BY <1>1, <2>1, <2>2, <2>3 DEF ParkPromise
<1>22. PendingOK'
  BY <1>21 DEF PendingOK, ParkPromise
<1> QED BY <1>11, <1>15, <1>16, <1>17, <1>18, <1>19, <1>20, <1>22 DEF TaskOK

LEMMA CommitRecordKeeps ==
    ASSUME TaskTypeOK, Accounting, Chained, Commit, Head(pending).op # "Entry"
    PROVE  JournalOK' /\ TaskOK' /\ PendingOK'
<1> PICK e : e = Head(pending)
  OBVIOUS
<1> USE DEF Chained
<1>1. /\ pending \in Seq(Effects) /\ pending # <<>> /\ JournalTypeOK /\ CurIsRun
      /\ pending' = Tail(pending)
      /\ UNCHANGED <<pc, handle, cur, turn, batch, next, plan>>
  BY DEF TaskTypeOK, TypeOK, Commit
<1>2. /\ e = pending[1] /\ 1 \in DOMAIN pending /\ e \in Effects
      /\ \A i \in DOMAIN pending' : i + 1 \in DOMAIN pending /\ i + 1 # 1 /\ pending'[i] = pending[i + 1]
      /\ \A j \in DOMAIN pending : j # 1 => j - 1 \in DOMAIN pending' /\ pending'[j - 1] = pending[j]
  BY <1>1, TailPlaces
<1>3. Guard(e) /\ Apply(e) /\ e.op # "Entry"
  BY DEF Commit
<1>4. ParkPromise(e) /\ ~Starting'
  BY <1>1, <1>2, StartedOnce DEF PendingOK, Accounting
<1>5. Starting <=> e.op = "OperationStarted"
  BY <1>1, <1>2 DEF Starting
<1>6. /\ JournalOK'
      /\ UNCHANGED <<entries, leaf>>
      /\ started \subseteq started' /\ done \subseteq done'
      /\ \A r \in Runs : history[r] # "none" => history'[r] # "none"
      /\ e.op \notin {"OperationStarted", "OperationFinished"} => UNCHANGED open
  <2>1. /\ e.op = "StepAttempt" => e.result.run = e.run
        /\ e.op = "OperationFinished" /\ e.outcome = "Completed" => Answered(e.run)
    BY <1>4 DEF ParkPromise
  <2> QED BY <1>1, <1>2, <1>3, <2>1, RecordGrows
<1>7. Present' = Present /\ \A r : Declared(r)' = Declared(r)
  BY <1>6 DEF Present, Declared
<1>8. \A r : Answered(r) => Answered(r)'
  BY <1>6, <1>7 DEF Answered
<1>9. Writing' <=> Writing
  BY <1>2, <1>3 DEF Writing
<1>10. \A i : Call(i)' = Call(i)
  BY <1>1 DEF Call
<1>11. CurOpen'
  <2>1. CASE e.op = "OperationStarted"
    <3>1. open' = e.run /\ e.run = cur
      BY <1>3, <1>4, <2>1 DEF ParkPromise, Apply, CommitEntry, CommitStarted, CommitAbortRequested, CommitFinished,
         CommitStepAttempt, CommitRetryScheduled, CommitToolStarted, CommitToolFinished, CommitQueue
    <3> QED BY <1>1, <3>1 DEF CurOpen
  <2>2. CASE e.op = "OperationFinished"
    BY <1>1, <1>4, <2>2 DEF ParkPromise, CurOpen
  <2>3. CASE e.op \notin {"OperationStarted", "OperationFinished"}
    BY <1>1, <1>5, <1>6, <2>3 DEF TaskOK, CurOpen
  <2> QED BY <2>1, <2>2, <2>3
<1>12. TraceGen' /\ TurnBound' /\ FinishOK' /\ PlanOK'
  BY <1>1, <1>6, <1>7, <1>9 DEF TaskOK, TraceGen, TurnBound, FinishOK, PlanOK
<1>13. JoinOK'
  BY <1>1, <1>6, <1>7, <1>10 DEF TaskOK, JoinOK, Result
<1>14. IntentsOK'
  <2> SUFFICES ASSUME pc = "intents"
               PROVE  /\ ~Writing => leaf = AssistantEntry(cur, turn)
                      /\ \A i \in Nat : Result(Call(i)) \notin Present
                      /\ \A i \in Nat : i < next /\ i \notin batch.rejected =>
                            \/ Call(i) \in started'
                            \/ \E j \in DOMAIN pending' : pending'[j] = [op |-> "ToolStarted", slot |-> Call(i)]
    BY <1>1, <1>6, <1>7, <1>9, <1>10 DEF IntentsOK, Result
  <2>1. ASSUME NEW i \in Nat, NEW j \in DOMAIN pending,
               pending[j] = [op |-> "ToolStarted", slot |-> Call(i)]
        PROVE  \/ Call(i) \in started'
               \/ \E m \in DOMAIN pending' : pending'[m] = [op |-> "ToolStarted", slot |-> Call(i)]
    <3>1. CASE j = 1
      <4>1. e.op = "ToolStarted" /\ e.slot = Call(i)
        BY <1>2, <2>1, <3>1
      <4>2. CommitToolStarted(e)
        BY <1>3, <4>1 DEF Apply, CommitEntry, CommitStarted, CommitAbortRequested, CommitFinished,
           CommitStepAttempt, CommitRetryScheduled, CommitToolStarted, CommitToolFinished, CommitQueue
      <4> QED BY <4>1, <4>2 DEF CommitToolStarted
    <3>2. CASE j # 1
      BY <1>2, <2>1, <3>2
    <3> QED BY <3>1, <3>2
  <2> QED BY <1>6, <2>1 DEF TaskOK, IntentsOK
<1>15. ASSUME NEW i \in DOMAIN pending', NEW p, p = pending'[i]
       PROVE  ParkPromise(p)'
  <2>1. i + 1 \in DOMAIN pending /\ p = pending[i + 1] /\ p \in Effects
    BY <1>1, <1>2, <1>15
  <2>2. ParkPromise(p)
    BY <2>1 DEF PendingOK
  <2>3. ASSUME p.op = "Entry"
        PROVE  EntryPromise(p)'
    <3>1. EntryPromise(p) /\ p.id.run \in Runs
      BY <2>1, <2>2, <2>3, EffectFields DEF ParkPromise, EntryIds
    <3>2. history'[p.id.run] # "none"
      <4>1. CASE Starting /\ e.run = p.id.run
        <5>1. CommitStarted(e)
          BY <1>3, <1>5, <4>1 DEF Apply, CommitEntry, CommitStarted, CommitAbortRequested, CommitFinished,
             CommitStepAttempt, CommitRetryScheduled, CommitToolStarted, CommitToolFinished, CommitQueue
        <5> QED BY <1>1, <3>1, <4>1, <5>1 DEF CommitStarted, JournalTypeOK
      <4>2. CASE history[p.id.run] # "none"
        BY <1>6, <3>1, <4>2
      <4> QED BY <1>2, <3>1, <4>1, <4>2 DEF EntryPromise
    <3>3. Call(next - 1)' = Call(next - 1) /\ Result(Call(next - 1))' = Result(Call(next - 1))
      BY <1>1 DEF Call, Result
    <3> QED BY <1>1, <1>6, <1>7, <3>1, <3>2, <3>3 DEF EntryPromise
  <2>4. p.op = "OperationFinished" => pc' \notin RunPCs /\ (p.outcome = "Completed" => Answered(p.run)')
    BY <1>1, <1>8, <2>2 DEF ParkPromise
  <2> QED BY <1>1, <2>2, <2>3, <2>4 DEF ParkPromise
<1>16. \A i, j \in DOMAIN pending' : pending'[i].op = "Entry" /\ pending'[j].op = "Entry" => i = j
  <2>1. ASSUME NEW i \in DOMAIN pending', NEW j \in DOMAIN pending',
               pending'[i].op = "Entry", pending'[j].op = "Entry"
        PROVE  i = j
    <3>1. i + 1 = j + 1
      BY <1>2, <2>1 DEF PendingOK
    <3>2. i \in Int /\ j \in Int
      BY <1>1
    <3> QED BY <3>1, <3>2
  <2> QED BY <2>1
<1>17. PendingOK'
  BY <1>15, <1>16 DEF PendingOK, ParkPromise, EntryPromise
<1> QED BY <1>6, <1>11, <1>12, <1>13, <1>14, <1>17 DEF TaskOK

-----------------------------------------------------------------------------
(* Steps of the task.                                                      *)

LEMMA GateEmpty ==
    ASSUME pending = <<>>
    PROVE  ~Starting /\ ~Writing
  BY DEF Starting, Writing

LEMMA LateStep ==
    ASSUME TaskOK, UNCHANGED record, UNCHANGED <<cur, turn>>, pending = <<>>,
           pc \in GenPCs, pc' \in GenPCs \ {"intents", "join", "finish"}
    PROVE  TaskOK'
<1>1. Present' = Present /\ UNCHANGED <<entries, open, cur, turn>>
  BY DEF record, Present
<1>2. open = cur
  BY GateEmpty DEF TaskOK, CurOpen, GenPCs
<1>3. pc' # "reconcile"
  BY DEF GenPCs
<1>4. TurnBound'
  BY <1>1 DEF TaskOK, TurnBound
<1> QED BY <1>1, <1>2, <1>3, <1>4 DEF TaskOK, CurOpen, TraceGen, IntentsOK, JoinOK, PlanOK, FinishOK

LEMMA EndStep ==
    ASSUME pc' \in {"idle", "recover", "accept"}, pending' = <<>> \/ handle' = "session"
    PROVE  TaskOK'
<1>1. pc' \notin RunPCs /\ pc' \notin GenPCs
  BY DEF RunPCs, GenPCs
<1> QED BY <1>1 DEF TaskOK, CurOpen, TraceGen, TurnBound, IntentsOK, JoinOK, PlanOK, FinishOK

(* A parked sequence with one entry at most keeps its promises.            *)
LEMMA OnePromise ==
    ASSUME NEW a, pending' = <<a>>, ParkPromise(a)'
    PROVE  PendingOK'
  BY DEF PendingOK, ParkPromise, EntryPromise

LEMMA TwoPromises ==
    ASSUME NEW a, NEW b, pending' = <<a, b>>, ParkPromise(a)', ParkPromise(b)', b.op # "Entry"
    PROVE  PendingOK'
<1>1. DOMAIN pending' = 1..2 /\ pending'[1] = a /\ pending'[2] = b
  OBVIOUS
<1>2. \A i \in DOMAIN pending' : i = 1 \/ i = 2
  BY <1>1
<1> QED BY <1>1, <1>2 DEF PendingOK, ParkPromise, EntryPromise

LEMMA RecoverChained ==
    ASSUME TaskTypeOK, Accounting, Chained, Recover
    PROVE  JournalOK' /\ TaskOK' /\ PendingOK'
<1> USE DEF Chained
<1>0. /\ JournalOK' /\ UNCHANGED record /\ pending = <<>> /\ ~Starting /\ ~Writing
      /\ JournalTypeOK /\ CurIsRun
  BY StepFrame, StepIdleGate, JournalSame, GateEmpty DEF TaskTypeOK, TypeOK
<1>a. Present' = Present /\ UNCHANGED <<leaf, open, history>>
  BY <1>0 DEF record, Present
<1>b. pc \in RunPCs => open = cur /\ cur \in Runs /\ history[cur] = "open"
  BY <1>0 DEF TaskOK, CurOpen, CurIsRun, Accounting, Balanced, OpenRunIsLive
<1>c. open # NoRun => open \in Runs /\ history[open] = "open"
  BY <1>0 DEF JournalTypeOK, Accounting, Balanced, OpenRunIsLive
<1>d. /\ "reconcile" \in RunPCs /\ "recover-finish" \in RunPCs
      /\ {"idle", "recover", "accept"} \cap RunPCs = {}
      /\ {"idle", "recover", "accept", "reconcile", "recover-finish"} \cap GenPCs = {}
      /\ \A p \in {"recover", "reconcile", "recover-finish"} : HandleOf(p) = "session"
  BY DEF RunPCs, GenPCs, PCs, HandleOf, TraceSteps
<1>1. CASE NothingToRecover
  BY <1>1, <1>0, Dropped DEF NothingToRecover, Goto
<1>2. CASE RecoverRequestAbort
  <2>1. PICK a : a = [op |-> "AbortRequested", run |-> open]
    OBVIOUS
  <2>2. pending' = <<a>> /\ pc' = "recover" /\ handle' = "session"
    BY <1>2, <1>d, <2>1 DEF RecoverRequestAbort, At, Park
  <2>3. ParkPromise(a)'
    BY <2>1 DEF ParkPromise
  <2> QED BY <1>0, <2>2, <2>3, EndStep, OnePromise
<1>3. CASE PlanReconcile
  <2>1. pc' = "reconcile" /\ cur' = open /\ pending' = <<>> /\ plan'.parent = leaf /\ plan'.slots = started \ done
    BY <1>3, <1>0 DEF PlanReconcile, Goto
  <2>2. \A s \in plan'.slots : s.run = cur'
    BY <2>1 DEF Accounting, Balanced, ClosedRunsSettled
  <2>3. TaskOK'
    BY <1>a, <1>d, <2>1, <2>2 DEF TaskOK, CurOpen, TraceGen, TurnBound, IntentsOK, JoinOK, PlanOK, FinishOK
  <2>4. PendingOK'
    BY <2>1 DEF PendingOK
  <2> QED BY <1>0, <2>3, <2>4
<1>4. CASE ReconcileTool
  <2>1. pc = "reconcile" /\ pc' = "reconcile" /\ cur' = cur /\ handle' = "session"
    BY <1>4, <1>d DEF ReconcileTool, At, Park
  <2>2. PICK s \in plan.slots :
            \/ /\ plan' = [plan EXCEPT !.slots = @ \ {s}]
               /\ pending' = <<[op |-> "ToolFinished", slot |-> s]>>
            \/ /\ plan' = [plan EXCEPT !.slots = @ \ {s}, !.parent = Result(s)]
               /\ pending' = <<Write(Result(s), plan.parent), [op |-> "ToolFinished", slot |-> s]>>
    BY <1>4 DEF ReconcileTool, Park
  <2>3. plan.parent = leaf /\ s.run = cur /\ \A t \in plan'.slots : t.run = cur'
    <3>1. plan \in [slots : SUBSET Slots, items : SUBSET Items, parent : EntryIds \cup {NoEntry}, closed : BOOLEAN]
      BY DEF TaskTypeOK, TypeOK
    <3>2. plan'.slots \subseteq plan.slots
      BY <2>2, <3>1
    <3> QED BY <1>0, <2>1, <3>2 DEF TaskOK, PlanOK
  <2>4. PICK b : b = [op |-> "ToolFinished", slot |-> s]
    OBVIOUS
  <2>5. ParkPromise(b)' /\ b.op = "ToolFinished"
    BY <2>4 DEF ParkPromise
  <2>6. CASE pending' = <<b>> /\ plan' = [plan EXCEPT !.slots = @ \ {s}]
    <3>1. ~Writing' /\ plan'.parent = plan.parent
      <4>1. plan \in [slots : SUBSET Slots, items : SUBSET Items, parent : EntryIds \cup {NoEntry}, closed : BOOLEAN]
        BY DEF TaskTypeOK, TypeOK
      <4> QED BY <2>5, <2>6, <4>1 DEF Writing
    <3>2. TaskOK'
      BY <1>a, <1>b, <1>d, <2>1, <2>3, <3>1 DEF TaskOK, CurOpen, TraceGen, TurnBound, IntentsOK, JoinOK, PlanOK, FinishOK
    <3> QED BY <1>0, <2>5, <2>6, <3>2, OnePromise
  <2>7. CASE /\ plan' = [plan EXCEPT !.slots = @ \ {s}, !.parent = Result(s)]
             /\ pending' = <<Write(Result(s), plan.parent), b>>
    <3>1. PICK a : a = Write(Result(s), plan.parent)
      OBVIOUS
    <3>2. a.op = "Entry" /\ a.id = Result(s) /\ a.id.run = s.run /\ a.parent = plan.parent /\ a.calls = 0
      BY <3>1 DEF Write, Result
    <3>3. Writing' /\ plan'.parent = Result(s)
      <4>1. plan \in [slots : SUBSET Slots, items : SUBSET Items, parent : EntryIds \cup {NoEntry}, closed : BOOLEAN]
        BY DEF TaskTypeOK, TypeOK
      <4>2. 1 \in DOMAIN pending' /\ pending'[1] = a
        BY <2>7, <3>1
      <4> QED BY <2>7, <3>2, <4>1, <4>2 DEF Writing
    <3>4. TaskOK'
      BY <1>a, <1>b, <1>d, <2>1, <2>3, <3>3 DEF TaskOK, CurOpen, TraceGen, TurnBound, IntentsOK, JoinOK, PlanOK, FinishOK
    <3>5. EntryPromise(a)'
      BY <1>a, <1>b, <1>d, <2>1, <2>3, <3>2, <3>3 DEF EntryPromise
    <3>6. ParkPromise(a)'
      BY <3>2, <3>5 DEF ParkPromise, EntryPromise
    <3> QED BY <1>0, <2>5, <2>7, <3>1, <3>4, <3>6, TwoPromises
  <2> QED BY <2>2, <2>4, <2>6, <2>7
<1>5. CASE ReconcileQueued
  <2>1. pc = "reconcile" /\ pc' = "reconcile" /\ cur' = cur /\ handle' = "session"
    BY <1>5, <1>d DEF ReconcileQueued, At, Park
  <2>2. PICK q \in plan.items :
            plan' = [plan EXCEPT !.items = @ \ {q}] /\ pending' = <<[op |-> "QueueCancelled", item |-> q]>>
    BY <1>5 DEF ReconcileQueued, Park
  <2>3. PICK a : a = [op |-> "QueueCancelled", item |-> q]
    OBVIOUS
  <2>4. ParkPromise(a)' /\ a.op = "QueueCancelled"
    BY <2>3 DEF ParkPromise
  <2>5. ~Writing' /\ plan'.parent = plan.parent /\ plan'.slots = plan.slots
    <3>1. plan \in [slots : SUBSET Slots, items : SUBSET Items, parent : EntryIds \cup {NoEntry}, closed : BOOLEAN]
      BY DEF TaskTypeOK, TypeOK
    <3> QED BY <2>2, <2>3, <2>4, <3>1 DEF Writing
  <2>6. TaskOK'
    BY <1>0, <1>a, <1>b, <1>d, <2>1, <2>5 DEF TaskOK, CurOpen, TraceGen, TurnBound, IntentsOK, JoinOK, PlanOK, FinishOK
  <2> QED BY <1>0, <2>2, <2>3, <2>4, <2>6, OnePromise
<1>6. CASE ReconcileClose
  <2>1. pc = "reconcile" /\ pc' = "accept" /\ handle' = "session"
    BY <1>6, <1>d DEF ReconcileClose, At, Park
  <2>2. plan.parent = leaf
    BY <1>0, <2>1 DEF TaskOK, PlanOK
  <2>3. PICK a : a = Write(ClosingEntry(cur), plan.parent)
    OBVIOUS
  <2>4. PICK b : b = Finished(cur, "Aborted")
    OBVIOUS
  <2>5. pending' = <<b>> \/ pending' = <<a, b>>
    BY <1>6, <2>3, <2>4 DEF ReconcileClose, Park
  <2>6. ParkPromise(b)' /\ b.op # "Entry"
    BY <1>d, <2>1, <2>4 DEF ParkPromise, Finished
  <2>7. ParkPromise(a)'
    <3>1. a.op = "Entry" /\ a.id.run = cur /\ a.parent = leaf /\ a.calls = 0
      BY <2>2, <2>3 DEF Write, ClosingEntry
    <3>2. EntryPromise(a)'
      BY <1>a, <1>b, <1>d, <2>1, <3>1 DEF EntryPromise
    <3> QED BY <3>1, <3>2 DEF ParkPromise, EntryPromise
  <2> QED BY <1>0, <2>1, <2>5, <2>6, <2>7, EndStep, OnePromise, TwoPromises
<1>7. CASE RecoverReserve
  <2>1. PICK a : a = StepAttempt(open, attempts + 1, AbortEntry(open))
    OBVIOUS
  <2>2. pending' = <<a>> /\ pc' = "recover" /\ handle' = "session"
    BY <1>7, <1>d, <2>1 DEF RecoverReserve, At, Park
  <2>3. ParkPromise(a)'
    BY <2>1 DEF ParkPromise, StepAttempt, AbortEntry
  <2> QED BY <1>0, <2>2, <2>3, EndStep, OnePromise
<1>8. CASE RecoverAbortEntry
  <2>1. PICK s \in StepsOf(open) : Park(<<Write(s.result, leaf)>>, "recover-finish")
    BY <1>8 DEF RecoverAbortEntry
  <2>2. PICK a : a = Write(s.result, leaf)
    OBVIOUS
  <2>3. pending' = <<a>> /\ pc' = "recover-finish" /\ cur' = open /\ handle' = "session" /\ open # NoRun
    BY <1>8, <1>d, <2>1, <2>2 DEF RecoverAbortEntry, At, Park
  <2>4. a.op = "Entry" /\ a.id.run = open /\ a.parent = leaf /\ a.calls = 0
    BY <2>2 DEF Write, StepsOf, JournalOK, RunsKnown
  <2>5. EntryPromise(a)'
    BY <1>a, <1>c, <1>d, <2>3, <2>4 DEF EntryPromise
  <2>6. ParkPromise(a)'
    BY <2>4, <2>5 DEF ParkPromise, EntryPromise
  <2>7. TaskOK'
    BY <1>a, <1>d, <2>3 DEF TaskOK, CurOpen, TraceGen, TurnBound, IntentsOK, JoinOK, PlanOK, FinishOK
  <2> QED BY <1>0, <2>3, <2>6, <2>7, OnePromise
<1>9. CASE RecoverFinish
  <2>1. PICK a : a = Finished(cur, "Aborted")
    OBVIOUS
  <2>2. pending' = <<a>> /\ pc' = "accept" /\ handle' = "session"
    BY <1>9, <1>d, <2>1 DEF RecoverFinish, At, Park
  <2>3. ParkPromise(a)'
    BY <1>d, <2>1, <2>2 DEF ParkPromise, Finished
  <2> QED BY <1>0, <2>2, <2>3, EndStep, OnePromise
<1> QED BY <1>1, <1>2, <1>3, <1>4, <1>5, <1>6, <1>7, <1>8, <1>9 DEF Recover

(* The result of the nearest lower call is the leaf, or it is missing.     *)
LEMMA JoinParent ==
    ASSUME TaskTypeOK, JoinOK, pc = "join",
           NEW parent \in ResultParents(Call(next))
    PROVE  parent = leaf \/ parent \notin Present \cup {NoEntry}
<1>1. next \in Nat /\ cur \in Runs /\ turn \in Nat /\ started \subseteq Slots
  BY DEF TaskTypeOK, TypeOK, CurIsRun, RunPCs, PCs, JournalTypeOK
<1>2. PICK s : s = Call(next) /\ s.run = cur /\ s.turn = turn /\ s.ix = next
  BY DEF Call
<1>3. \A t \in Lower(s) : t \in started /\ t.ix \in Nat /\ t.ix < next /\ t = Call(t.ix)
  BY <1>1, <1>2 DEF Lower, Call, Slots
<1>4. \A k \in Nat : k < next /\ Call(k) \in started => Call(k) \in Lower(s) /\ Call(k).ix = k
  BY <1>2 DEF Lower, Call
<1>5. CASE Lower(s) = {}
  <2>1. parent = AssistantEntry(cur, turn)
    BY <1>2, <1>5 DEF ResultParents, Declaring, AssistantEntry
  <2> QED BY <1>4, <1>5, <2>1 DEF JoinOK
<1>6. CASE Lower(s) # {}
  <2>1. PICK t \in Lower(s) : parent = Result(t) /\ \A v \in Lower(s) : v.ix <= t.ix
    BY <1>2, <1>6 DEF ResultParents
  <2>2. PICK m \in Nat : m = t.ix /\ m < next /\ t = Call(m)
    BY <1>3, <2>1
  <2>3. parent \in EntryIds /\ parent = Result(Call(m))
    BY <1>1, <1>3, <2>1, <2>2, SlotEntryTypes
  <2>4. SUFFICES ASSUME parent \in Present PROVE parent = leaf
    BY <2>3, EntryAssumption
  <2>5. PICK k \in Nat : /\ k < next /\ Call(k) \in started /\ leaf = Result(Call(k))
                         /\ \A i \in Nat : i > k => Result(Call(i)) \notin Present
    BY <2>3, <2>4 DEF JoinOK
  <2>6. k <= m
    BY <1>4, <2>1, <2>2, <2>5
  <2>7. ~(m > k)
    BY <2>3, <2>4, <2>5
  <2>8. m = k
    BY <2>6, <2>7
  <2> QED BY <2>3, <2>5, <2>8
<1> QED BY <1>5, <1>6

LEMMA GenerateChained ==
    ASSUME TaskTypeOK, Accounting, Chained, Generate
    PROVE  JournalOK' /\ TaskOK' /\ PendingOK'
<1> USE DEF Chained
<1>0. /\ JournalOK' /\ UNCHANGED record /\ pending = <<>> /\ ~Starting /\ ~Writing
      /\ JournalTypeOK /\ CurIsRun /\ turn \in Nat /\ next \in Nat
  BY StepFrame, StepIdleGate, JournalSame, GateEmpty DEF TaskTypeOK, TypeOK
<1>a. Present' = Present /\ UNCHANGED <<entries, leaf, open, started, done, history>>
  BY <1>0 DEF record, Present
<1>b. pc \in RunPCs => open = cur /\ cur \in Runs /\ history[cur] = "open"
  BY <1>0 DEF TaskOK, CurOpen, CurIsRun, Accounting, Balanced, OpenRunIsLive
<1>c. /\ {"provider", "intents", "join", "persist", "settle"} \subseteq GenPCs
      /\ {"provider", "intents", "join", "persist", "settle"} \subseteq RunPCs
      /\ GenPCs \subseteq RunPCs
      /\ HandleOf("accept") = "session"
  BY DEF RunPCs, GenPCs, PCs, HandleOf, TraceSteps
<1>1. CASE Accept
  <2>1. PICK r \in Fresh :
            /\ cur' = r
            /\ pending' = <<[op |-> "OperationStarted", run |-> r],
                            Write(UserEntry(r), leaf),
                            StepAttempt(r, 1, AssistantEntry(r, 1))>>
    BY <1>1 DEF Accept, Park
  <2>2. pc' = "provider" /\ handle' = "session" /\ turn' = turn
    BY <1>1, <1>c DEF Accept, At, Park
  <2>3. DOMAIN pending' = 1..3 /\ pending' # <<>>
        /\ pending'[1] = [op |-> "OperationStarted", run |-> r]
        /\ pending'[2] = Write(UserEntry(r), leaf)
        /\ pending'[3] = StepAttempt(r, 1, AssistantEntry(r, 1))
    BY <2>1
  <2>4. PICK a, b, c : /\ a = [op |-> "OperationStarted", run |-> r]
                       /\ b = Write(UserEntry(r), leaf)
                       /\ c = StepAttempt(r, 1, AssistantEntry(r, 1))
    OBVIOUS
  <2>5. Starting' /\ pending'[1].run = r
    BY <2>3 DEF Starting
  <2>6. ParkPromise(a)' /\ a.op = "OperationStarted"
    BY <2>1, <2>2, <2>4 DEF ParkPromise
  <2>7. ParkPromise(b)' /\ b.op = "Entry"
    <3>1. b.op = "Entry" /\ b.parent = leaf /\ b.calls = 0 /\ b.id.run = r /\ b.id.kind = "user"
      BY <2>4 DEF Write, UserEntry
    <3>2. EntryPromise(b)'
      BY <1>a, <2>2, <2>5, <3>1 DEF EntryPromise
    <3> QED BY <3>1, <3>2 DEF ParkPromise, EntryPromise
  <2>8. ParkPromise(c)' /\ c.op = "StepAttempt"
    BY <2>4 DEF ParkPromise, StepAttempt, AssistantEntry
  <2>9. \A i \in DOMAIN pending' : i = 1 \/ i = 2 \/ i = 3
    BY <2>3
  <2>10. PendingOK'
    BY <2>3, <2>4, <2>6, <2>7, <2>8, <2>9 DEF PendingOK, ParkPromise, EntryPromise
  <2>11. TurnBound'
    <3>1. \A e \in Present : e.run # r
      BY DEF Fresh, JournalOK, RunsKnown
    <3> QED BY <1>a, <2>1, <3>1 DEF TurnBound
  <2>12. TaskOK'
    BY <1>c, <2>2, <2>5, <2>11 DEF TaskOK, CurOpen, TraceGen, IntentsOK, JoinOK, PlanOK, FinishOK
  <2> QED BY <1>0, <2>10, <2>12
<1>2. CASE NoFreshRun
  BY <1>2, <1>0, Dropped DEF NoFreshRun, Goto
<1>3. CASE ReplyWithTools
  <2>1. pc = "provider" /\ pc' = "intents" /\ turn' = turn + 1 /\ next' = 0 /\ cur' = cur
    BY <1>3 DEF ReplyWithTools, At, Park
  <2>2. PICK b \in Batches : pending' = <<Declare(AssistantEntry(cur, turn + 1), leaf, b.n)>>
    BY <1>3 DEF ReplyWithTools, Park
  <2>3. PICK a : a = Declare(AssistantEntry(cur, turn + 1), leaf, b.n)
    OBVIOUS
  <2>4. a.op = "Entry" /\ a.id = AssistantEntry(cur, turn + 1) /\ a.id.run = cur /\ a.id.kind = "assistant"
        /\ a.parent = leaf
    BY <2>3 DEF Declare, AssistantEntry
  <2>5. EntryPromise(a)'
    BY <1>0, <1>a, <1>b, <1>c, <2>1, <2>4 DEF EntryPromise
  <2>6. ParkPromise(a)'
    BY <2>4, <2>5 DEF ParkPromise, EntryPromise
  <2>7. Writing'
    <3>1. 1 \in DOMAIN pending' /\ pending'[1] = a
      BY <2>2, <2>3
    <3> QED BY <2>4, <3>1 DEF Writing
  <2>8. \A e \in Present : e.run = cur =>
            /\ e.kind = "tool" => e.turn <= turn
            /\ e.kind = "assistant" /\ entries[e].calls > 0 => e.turn \in 1..turn
    BY <1>c, <2>1 DEF TaskOK, TurnBound
  <2>9. \A e \in Present : e.turn \in Nat
    BY <1>0 DEF JournalTypeOK, EntryIds
  <2>10. TurnBound'
    BY <1>0, <1>a, <2>1, <2>8, <2>9 DEF TurnBound
  <2>11. \A i \in Nat : Result(Call(i))' \notin Present'
    <3>1. \A i \in Nat : Result(Call(i))' = [kind |-> "tool", run |-> cur, turn |-> turn + 1, ix |-> i]
      BY <2>1 DEF Result, Call
    <3> QED BY <1>0, <1>a, <2>8, <3>1
  <2>12. IntentsOK'
    BY <2>1, <2>7, <2>11 DEF IntentsOK
  <2>13. TaskOK'
    BY <1>a, <1>b, <1>c, <2>1, <2>10, <2>12 DEF TaskOK, CurOpen, TraceGen, JoinOK, PlanOK, FinishOK
  <2> QED BY <1>0, <2>2, <2>3, <2>6, <2>13, OnePromise
<1>4. CASE FinalReply
  <2>1. pc = "provider" /\ pc' = "settle" /\ turn' = turn /\ cur' = cur
    BY <1>4 DEF FinalReply, At, Park
  <2>2. PICK a : a = Write(AssistantEntry(cur, turn + 1), leaf)
    OBVIOUS
  <2>3. pending' = <<a>>
    BY <1>4, <2>2 DEF FinalReply, Park
  <2>4. a.op = "Entry" /\ a.id.run = cur /\ a.id.kind = "assistant" /\ a.parent = leaf /\ a.calls = 0
    BY <2>2 DEF Write, AssistantEntry
  <2>5. EntryPromise(a)'
    BY <1>a, <1>b, <1>c, <2>1, <2>4 DEF EntryPromise
  <2>6. ParkPromise(a)'
    BY <2>4, <2>5 DEF ParkPromise, EntryPromise
  <2> QED BY <1>0, <1>c, <2>1, <2>3, <2>6, LateStep, OnePromise
<1>5. CASE ProviderError
  <2>1. TaskOK'
    BY <1>5, <1>0, <1>c, LateStep DEF ProviderError, At, Goto
  <2> QED BY <1>5, <1>0, <2>1 DEF ProviderError, Goto, PendingOK
<1>6. CASE RecordIntent
  <2>1. /\ pc = "intents" /\ pc' = "intents" /\ turn' = turn /\ cur' = cur /\ next' = next + 1 /\ batch' = batch
        /\ IF next \in batch.rejected THEN pending' = <<>>
           ELSE pending' = <<[op |-> "ToolStarted", slot |-> Call(next)]>>
    BY <1>6, <1>0 DEF RecordIntent, At, Goto, Park
  <2>2. PICK a : a = [op |-> "ToolStarted", slot |-> Call(next)]
    OBVIOUS
  <2>3. ParkPromise(a)' /\ a.op = "ToolStarted"
    BY <2>2 DEF ParkPromise
  <2>4. PendingOK'
    BY <2>1, <2>2, <2>3, OnePromise DEF PendingOK
  <2>5. /\ leaf = AssistantEntry(cur, turn)
        /\ \A i \in Nat : Result(Call(i)) \notin Present
        /\ \A i \in Nat : i < next /\ i \notin batch.rejected => Call(i) \in started
    BY <1>0, <2>1 DEF TaskOK, IntentsOK
  <2>6. \A i : Call(i)' = Call(i)
    BY <2>1 DEF Call
  <2>7. ASSUME NEW i \in Nat, i < next + 1, i \notin batch.rejected
        PROVE  \/ Call(i) \in started
               \/ \E j \in DOMAIN pending' : pending'[j] = [op |-> "ToolStarted", slot |-> Call(i)]
    <3>1. CASE i < next
      BY <2>5, <2>7, <3>1
    <3>2. CASE ~(i < next)
      <4>1. i = next
        BY <1>0, <2>7, <3>2
      <4>2. 1 \in DOMAIN pending' /\ pending'[1] = a
        BY <2>1, <2>2, <2>7, <4>1
      <4> QED BY <2>2, <4>1, <4>2
    <3> QED BY <3>1, <3>2
  <2>8. IntentsOK'
    BY <1>a, <2>1, <2>5, <2>6, <2>7 DEF IntentsOK, Result
  <2>9. TurnBound'
    BY <1>a, <2>1 DEF TaskOK, TurnBound
  <2>10. TaskOK'
    BY <1>a, <1>b, <1>c, <2>1, <2>8, <2>9 DEF TaskOK, CurOpen, TraceGen, JoinOK, PlanOK, FinishOK
  <2> QED BY <1>0, <2>4, <2>10
<1>7. CASE AllIntended
  <2>1. /\ pc = "intents" /\ pc' = "join" /\ turn' = turn /\ cur' = cur /\ next' = 0 /\ batch' = batch
        /\ next = batch.n /\ pending' = <<>>
    BY <1>7, <1>0 DEF AllIntended, At, Goto
  <2>2. /\ leaf = AssistantEntry(cur, turn)
        /\ \A i \in Nat : Result(Call(i)) \notin Present
        /\ \A i \in Nat : i < next /\ i \notin batch.rejected => Call(i) \in started
    BY <1>0, <2>1 DEF TaskOK, IntentsOK
  <2>3. \A i : Call(i)' = Call(i)
    BY <2>1 DEF Call
  <2>4. JoinOK'
    BY <1>a, <2>1, <2>2, <2>3 DEF JoinOK, Result
  <2>5. TurnBound'
    BY <1>a, <1>c, <2>1 DEF TaskOK, TurnBound
  <2>6. TaskOK'
    BY <1>a, <1>b, <1>c, <2>1, <2>4, <2>5 DEF TaskOK, CurOpen, TraceGen, IntentsOK, PlanOK, FinishOK
  <2> QED BY <1>0, <2>1, <2>6 DEF PendingOK
<1>j. ASSUME pc = "join", pc' = "join", next' = next + 1, UNCHANGED <<cur, turn, batch>>
      PROVE  TaskOK'
  <2>1. \A i : Call(i)' = Call(i)
    BY <1>j DEF Call
  <2>2. JoinOK
    BY DEF TaskOK
  <2>3. \A i \in Nat : i < batch.n /\ i \notin batch.rejected => Call(i) \in started
    BY <1>j, <2>2 DEF JoinOK
  <2>4. CASE leaf = AssistantEntry(cur, turn) /\ \A i \in Nat : Result(Call(i)) \notin Present
    <3>1. JoinOK'
      BY <1>a, <1>j, <2>1, <2>3, <2>4 DEF JoinOK, Result
    <3> QED BY <1>a, <1>b, <1>c, <1>j, <3>1 DEF TaskOK, CurOpen, TraceGen, TurnBound, IntentsOK, PlanOK, FinishOK
  <2>5. ASSUME NEW k \in Nat, k < next, Call(k) \in started, leaf = Result(Call(k)),
               \A i \in Nat : i > k => Result(Call(i)) \notin Present
        PROVE  TaskOK'
    <3>1. k < next'
      BY <1>0, <1>j, <2>5
    <3>2. JoinOK'
      BY <1>a, <1>j, <2>1, <2>3, <2>5, <3>1 DEF JoinOK, Result
    <3> QED BY <1>a, <1>b, <1>c, <1>j, <3>2 DEF TaskOK, CurOpen, TraceGen, TurnBound, IntentsOK, PlanOK, FinishOK
  <2> QED BY <1>j, <2>2, <2>4, <2>5 DEF JoinOK
<1>8. CASE JoinResult
  <2>1. pc = "join" /\ pc' = "join" /\ next' = next + 1 /\ UNCHANGED <<cur, turn, batch>>
        /\ next < batch.n /\ next \notin batch.rejected
    BY <1>8 DEF JoinResult, At, Goto, Park
  <2>2. TaskOK'
    BY <1>j, <2>1
  <2>3. CASE pending' = <<>>
    BY <1>0, <2>2, <2>3 DEF PendingOK
  <2>4. ASSUME NEW parent \in ResultParents(Call(next)),
               pending' = <<Write(Result(Call(next)), parent), [op |-> "ToolFinished", slot |-> Call(next)]>>
        PROVE  PendingOK'
    <3>1. PICK a, b : /\ a = Write(Result(Call(next)), parent)
                      /\ b = [op |-> "ToolFinished", slot |-> Call(next)]
      OBVIOUS
    <3>2. ParkPromise(b)' /\ b.op = "ToolFinished"
      BY <3>1 DEF ParkPromise
    <3>3. a.op = "Entry" /\ a.id = Result(Call(next)) /\ a.id.run = cur /\ a.id.kind = "tool" /\ a.id.turn = turn
          /\ a.parent = parent /\ a.calls = 0
      BY <3>1 DEF Write, Result, Call
    <3>4. parent = leaf \/ parent \notin Present \cup {NoEntry}
      BY <2>1, JoinParent DEF TaskOK
    <3>5. Call(next) \in started
      BY <1>0, <2>1 DEF TaskOK, JoinOK
    <3>6. next' - 1 = next /\ next' > 0
      BY <1>0, <2>1
    <3>7. Call(next - 1)' = Call(next) /\ Result(Call(next - 1))' = Result(Call(next))
      BY <2>1, <3>6 DEF Call, Result
    <3>8. EntryPromise(a)'
      BY <1>0, <1>a, <1>b, <1>c, <2>1, <3>3, <3>4, <3>5, <3>6, <3>7 DEF EntryPromise
    <3>9. ParkPromise(a)'
      BY <3>3, <3>8 DEF ParkPromise, EntryPromise
    <3> QED BY <2>4, <3>1, <3>2, <3>9, TwoPromises
  <2>5. \/ pending' = <<>>
        \/ \E parent \in ResultParents(Call(next)) :
              pending' = <<Write(Result(Call(next)), parent), [op |-> "ToolFinished", slot |-> Call(next)]>>
    BY <1>8, <1>0 DEF JoinResult, Goto, Park
  <2> QED BY <1>0, <2>2, <2>3, <2>4, <2>5
<1>9. CASE JoinFailure \/ JoinRejected
  <2>1. pc = "join" /\ pc' = "join" /\ next' = next + 1 /\ UNCHANGED <<cur, turn, batch>> /\ pending' = <<>>
    BY <1>9, <1>0 DEF JoinFailure, JoinRejected, At, Goto
  <2> QED BY <1>0, <1>j, <2>1 DEF PendingOK
<1>10. CASE Joined
  <2>1. TaskOK'
    BY <1>10, <1>0, <1>c, LateStep DEF Joined, At, Goto
  <2> QED BY <1>10, <1>0, <2>1 DEF Joined, Goto, PendingOK
<1>11. CASE PersistResult
  <2>1. TaskOK'
    BY <1>11, <1>0, <1>c, LateStep DEF PersistResult, At, Goto, Park
  <2>2. PICK a : a = Write(Result(Call(next)), leaf)
    OBVIOUS
  <2>3. pc' = "persist" /\ cur' = cur /\ turn' = turn /\ (pending' = <<>> \/ pending' = <<a>>)
    BY <1>11, <1>0, <2>2 DEF PersistResult, At, Goto, Park
  <2>4. a.op = "Entry" /\ a.id.run = cur /\ a.id.turn = turn /\ a.parent = leaf /\ a.calls = 0
    BY <2>2 DEF Write, Result, Call
  <2>5. pc = "persist"
    BY <1>11 DEF PersistResult, At
  <2>6. EntryPromise(a)'
    BY <1>0, <1>a, <1>b, <1>c, <2>3, <2>4, <2>5 DEF EntryPromise
  <2>7. ParkPromise(a)'
    BY <2>4, <2>6 DEF ParkPromise, EntryPromise
  <2>8. PendingOK'
    BY <2>3, <2>7, OnePromise DEF PendingOK
  <2> QED BY <1>0, <2>1, <2>8
<1>12. CASE BatchPersisted
  <2>1. TaskOK'
    BY <1>12, <1>0, <1>c, LateStep DEF BatchPersisted, At, Goto
  <2> QED BY <1>12, <1>0, <2>1 DEF BatchPersisted, Goto, PendingOK
<1> QED BY <1>1, <1>2, <1>3, <1>4, <1>5, <1>6, <1>7, <1>8, <1>9, <1>10, <1>11, <1>12 DEF Generate

(* A run whose last batch is settled has answered its calls.               *)
LEMMA SettledAnswers ==
    ASSUME TaskTypeOK, JournalOK, TurnBound, pc \in GenPCs, LastBatch \subseteq done
    PROVE  Answered(cur)
<1>1. cur \in Runs /\ JournalTypeOK
  BY DEF TaskTypeOK, TypeOK, CurIsRun, GenPCs
<1>2. SUFFICES ASSUME NEW e \in Declared(cur),
                      \A f \in Declared(cur) : f.turn <= e.turn,
                      NEW i \in 0..(entries[e].calls - 1)
               PROVE  [run |-> cur, turn |-> e.turn, ix |-> i] \in done
  BY DEF Answered
<1>3. e = AssistantEntry(cur, e.turn) /\ e \in Present /\ e.turn \in 1..turn
  BY <1>1, <1>2 DEF JournalOK, DeclaredNames, Declared, TurnBound
<1>4. e.turn \in TurnsWithTools
  BY <1>2, <1>3 DEF TurnsWithTools, Declared
<1>5. \A t \in TurnsWithTools : AssistantEntry(cur, t) \in Declared(cur) /\ AssistantEntry(cur, t).turn = t
  BY DEF TurnsWithTools, Declared, AssistantEntry
<1>6. \A t \in TurnsWithTools : t <= e.turn
  BY <1>2, <1>5
<1>7. [run |-> cur, turn |-> e.turn, ix |-> i] \in CallsOf(e.turn)
  BY <1>3 DEF CallsOf
<1>8. CallsOf(e.turn) \subseteq LastBatch
  BY <1>4, <1>6 DEF LastBatch
<1> QED BY <1>7, <1>8

LEMMA EndChained ==
    ASSUME TaskTypeOK, Accounting, Chained, End
    PROVE  JournalOK' /\ TaskOK' /\ PendingOK'
<1> USE DEF Chained
<1>0. /\ JournalOK' /\ UNCHANGED record /\ pending = <<>> /\ ~Starting /\ ~Writing
      /\ JournalTypeOK /\ CurIsRun
  BY StepFrame, StepIdleGate, JournalSame, GateEmpty DEF TaskTypeOK, TypeOK
<1>a. Present' = Present /\ UNCHANGED <<entries, leaf, open, started, done, history>>
  BY <1>0 DEF record, Present
<1>b. pc \in RunPCs => open = cur /\ cur \in Runs /\ history[cur] = "open"
  BY <1>0 DEF TaskOK, CurOpen, CurIsRun, Accounting, Balanced, OpenRunIsLive
<1>c. /\ {"settle", "finish", "retry", "note", "fail", "fail-finish"} \subseteq GenPCs
      /\ {"idle", "recover", "accept"} \cap RunPCs = {}
      /\ GenPCs \subseteq RunPCs
      /\ \A p \in {"settle", "finish", "retry", "note", "fail", "fail-finish"} : HandleOf(p) = "session"
  BY DEF RunPCs, GenPCs, PCs, HandleOf, TraceSteps
<1>e. ASSUME NEW a, a = Write(ErrorEntry(cur), leaf), pc \in GenPCs, cur' = cur,
             pc' \notin {"intents", "join", "reconcile"}
      PROVE  ParkPromise(a)'
  <2>1. a.op = "Entry" /\ a.id.run = cur /\ a.id.kind = "error" /\ a.parent = leaf /\ a.calls = 0
    BY <1>e DEF Write, ErrorEntry
  <2>2. EntryPromise(a)'
    BY <1>a, <1>b, <1>c, <1>e, <2>1 DEF EntryPromise
  <2> QED BY <2>1, <2>2 DEF ParkPromise, EntryPromise
<1>1. CASE SettleMissing
  <2>1. TaskOK'
    BY <1>1, <1>0, <1>c, LateStep DEF SettleMissing, At, Goto
  <2> QED BY <1>1, <1>0, <2>1 DEF SettleMissing, Goto, PendingOK
<1>2. CASE SettleCall
  <2>1. TaskOK'
    BY <1>2, <1>0, <1>c, LateStep DEF SettleCall, At, Park
  <2>2. PICK s \in LastBatch \ done :
            pending' = <<[op |-> IF s \in started THEN "ToolFinished" ELSE "ToolStarted", slot |-> s]>>
    BY <1>2 DEF SettleCall, Park
  <2>3. PICK a : a = [op |-> IF s \in started THEN "ToolFinished" ELSE "ToolStarted", slot |-> s]
    OBVIOUS
  <2>4. ParkPromise(a)'
    BY <2>3 DEF ParkPromise
  <2> QED BY <1>0, <2>1, <2>2, <2>3, <2>4, OnePromise
<1>3. CASE Settled
  <2>1. pc = "settle" /\ pc' \in {"finish", "retry", "fail"} /\ pending' = <<>> /\ UNCHANGED <<cur, turn>>
    BY <1>3, <1>0 DEF Settled, At, Goto, TaskTypeOK, TypeOK
  <2>2. CASE pc' # "finish"
    BY <1>0, <1>c, <2>1, <2>2, LateStep DEF PendingOK
  <2>3. CASE pc' = "finish"
    <3>1. Answered(cur)
      BY <1>3, <1>c, <2>1, SettledAnswers DEF Settled, TaskOK
    <3>2. Answered(cur)'
      BY <1>a, <2>1, <3>1 DEF Answered, Declared
    <3>3. TurnBound'
      BY <1>a, <1>c, <2>1 DEF TaskOK, TurnBound
    <3> QED BY <1>0, <1>a, <1>b, <1>c, <2>1, <2>3, <3>2, <3>3
            DEF TaskOK, CurOpen, TraceGen, IntentsOK, JoinOK, PlanOK, FinishOK, PendingOK
  <2> QED BY <2>2, <2>3
<1>4. CASE FinishCompleted
  <2>1. pc = "finish"
    BY <1>4 DEF FinishCompleted, At
  <2>2. CASE Goto("note")
    BY <1>4, <1>0, <1>c, <2>1, <2>2, LateStep DEF FinishCompleted, Goto, PendingOK
  <2>3. CASE Park(<<Finished(cur, "Completed")>>, "idle")
    <3>1. PICK a : a = Finished(cur, "Completed")
      OBVIOUS
    <3>2. PICK r : r = cur
      OBVIOUS
    <3>3. Answered(r)
      BY <2>1, <3>2 DEF TaskOK, FinishOK
    <3>4. Answered(r)'
      BY <1>a, <3>3 DEF Answered, Declared
    <3>5. pending' = <<a>> /\ pc' = "idle" /\ handle' = "session"
      BY <1>c, <2>1, <2>3, <3>1 DEF Park
    <3>6. a.op = "OperationFinished" /\ a.run = r
      BY <3>1, <3>2 DEF Finished
    <3>7. ParkPromise(a)'
      BY <1>c, <3>4, <3>5, <3>6 DEF ParkPromise
    <3> QED BY <1>0, <3>5, <3>7, EndStep, OnePromise
  <2> QED BY <1>4, <2>2, <2>3 DEF FinishCompleted
<1>5. CASE ScheduleRetry
  <2>1. TaskOK'
    BY <1>5, <1>0, <1>c, LateStep DEF ScheduleRetry, At, Goto, Park
  <2>2. PICK a : a = [op |-> "RetryScheduled", run |-> cur, attempt |-> attempts + 1]
    OBVIOUS
  <2>3. pending' = <<>> \/ pending' = <<a>>
    BY <1>5, <1>0, <2>2 DEF ScheduleRetry, Goto, Park
  <2>4. ParkPromise(a)'
    BY <2>2 DEF ParkPromise
  <2> QED BY <1>0, <2>1, <2>3, <2>4, OnePromise DEF PendingOK
<1>6. CASE NoteError
  <2>1. PICK a : a = Write(ErrorEntry(cur), leaf)
    OBVIOUS
  <2>2. pc = "note" /\ pending' = <<a>> /\ pc' = "idle" /\ handle' = "session" /\ cur' = cur
    BY <1>6, <1>c, <2>1 DEF NoteError, At, Park
  <2>3. ParkPromise(a)'
    BY <1>c, <1>e, <2>1, <2>2
  <2> QED BY <1>0, <2>2, <2>3, EndStep, OnePromise
<1>7. CASE FailNote
  <2>1. PICK a : a = Write(ErrorEntry(cur), leaf)
    OBVIOUS
  <2>2. pc = "fail" /\ pending' = <<a>> /\ pc' = "fail-finish" /\ UNCHANGED <<cur, turn>>
    BY <1>7, <2>1 DEF FailNote, At, Park
  <2>3. ParkPromise(a)'
    BY <1>c, <1>e, <2>1, <2>2
  <2>4. TaskOK'
    BY <1>0, <1>c, <2>2, LateStep
  <2> QED BY <1>0, <2>2, <2>3, <2>4, OnePromise
<1>8. CASE FailFinish
  <2>1. pc = "fail-finish"
    BY <1>8 DEF FailFinish, At
  <2>2. CASE Goto("idle")
    BY <1>0, <2>2, Dropped DEF Goto
  <2>3. CASE Park(<<Finished(cur, "Failed")>>, "idle")
    <3>1. PICK a : a = Finished(cur, "Failed")
      OBVIOUS
    <3>2. pending' = <<a>> /\ pc' = "idle" /\ handle' = "session"
      BY <1>c, <2>1, <2>3, <3>1 DEF Park
    <3>3. ParkPromise(a)'
      BY <1>c, <3>1, <3>2 DEF ParkPromise, Finished
    <3> QED BY <1>0, <3>2, <3>3, EndStep, OnePromise
  <2> QED BY <1>8, <2>2, <2>3 DEF FailFinish
<1> QED BY <1>1, <1>2, <1>3, <1>4, <1>5, <1>6, <1>7, <1>8 DEF End

-----------------------------------------------------------------------------
(* The theorems.                                                           *)

LEMMA ChainedStep ==
    ASSUME TaskTypeOK, Accounting, Chained, [Next]_vars
    PROVE  Chained'
<1>1. CASE Commit
  <2>1. JournalOK' /\ TaskOK' /\ PendingOK'
    BY <1>1, CommitEntryKeeps, CommitRecordKeeps
  <2>2. OtherOK'
    BY <1>1 DEF Commit, Chained, OtherOK
  <2> QED BY <2>1, <2>2 DEF Chained
<1>2. CASE Step
  <2>1. JournalOK' /\ TaskOK' /\ PendingOK'
    BY <1>2, RecoverChained, GenerateChained, EndChained DEF Step
  <2>2. OtherOK'
    BY <1>2 DEF Step, Chained, OtherOK
  <2> QED BY <2>1, <2>2 DEF Chained
<1>3. CASE Reject \/ HandleFaulted \/ Prompt \/ OtherParks \/ OtherCommits \/ Stop \/ Crash
  BY <1>3, ChainedAround
<1>4. CASE UNCHANGED vars
  <2>1. UNCHANGED <<record, task>> /\ OtherOK'
    BY <1>4 DEF vars, journal, record, Chained, OtherOK
  <2> QED BY <2>1, ChainedFrame DEF Chained
<1> QED BY <1>1, <1>2, <1>3, <1>4 DEF Next, Driven

LEMMA ChainedAlways == Spec => [](TaskTypeOK /\ Accounting /\ Chained)
<1>1. Init => TaskTypeOK /\ Accounting /\ Chained
  BY TaskInit, AccountingInit, ChainedInit
<1>2. TaskTypeOK /\ Accounting /\ Chained /\ [Next]_vars => (TaskTypeOK /\ Accounting /\ Chained)'
  BY TaskTyped, AccountingStep, ChainedStep
<1> QED BY <1>1, <1>2, PTL DEF Spec

(* The transcript is one chain that ends at the leaf: whatever cuts a run, *)
(* tools that fail or are refused included, no append forks the lane and   *)
(* hides a branch from the model.                                          *)
THEOREM TranscriptLinear == Spec => []LinearTranscript
<1>1. Chained => LinearTranscript
  BY DEF Chained, JournalOK
<1> QED BY <1>1, ChainedAlways, PTL

(* A run that is recorded as completed has a completion for every call of  *)
(* its last batch, the rejected ones included, for batches of any size and *)
(* any number of turns, crashes and stops.                                 *)
THEOREM CompletedAnswer == Spec => []CompletedRunsAnswered
<1>1. TaskTypeOK /\ Chained => CompletedRunsAnswered
  <2> SUFFICES ASSUME TaskTypeOK, Chained,
                      NEW r \in Runs, history[r] = "Completed",
                      NEW e \in Present, e.run = r, e.kind = "assistant",
                      \A f \in Present : f.run = r /\ f.kind = "assistant" /\ entries[f].calls > 0
                                         => f.turn <= e.turn,
                      NEW i \in 0..(entries[e].calls - 1)
               PROVE  [run |-> r, turn |-> e.turn, ix |-> i] \in done
    BY DEF CompletedRunsAnswered
  <2>1. Answered(r)
    BY DEF Chained, JournalOK, CompletedAnswered
  <2>2. entries[e].calls \in Nat
    BY DEF TaskTypeOK, TypeOK, JournalTypeOK
  <2>3. e \in Declared(r)
    BY <2>2 DEF Declared
  <2> QED BY <2>1, <2>3 DEF Answered, Declared
<1> QED BY <1>1, ChainedAlways, PTL

-----------------------------------------------------------------------------
(* What keeps every append acceptable.                                     *)

(* The code's procedures agree with the reducer when no tool task dies,    *)
(* the rejected calls of a batch come last, and nobody edits the messages  *)
(* that a recovery cancels.                                                *)
RejectedLast ==
    \A b \in Batches : \A i \in b.rejected, j \in Nat : i < j /\ j < b.n => j \in b.rejected

Undisturbed == RejectedLast /\ ~TaskFailures /\ Items \subseteq NextRunItems

(* The parent a result has in an unbroken batch.                           *)
ChainParent(s) == IF s.ix = 0 THEN Declaring(s) ELSE Result(Predecessor(s))

Recorded(s) == Result(s) \in Present

AllRecorded == \A s \in started : Recorded(s)

(* Tools are started in index order, and recorded on one another.          *)
ToolsOrdered ==
    /\ \A s \in started : s.ix > 0 => Predecessor(s) \in started
    /\ \A s \in started : Declaring(s) \in Present
    /\ \A s \in done : Recorded(s)
    /\ \A s \in Slots : Recorded(s) => entries[Result(s)].parent = ChainParent(s)

(* A started tool without a result is the next to be recorded, or follows  *)
(* one that has none either.                                               *)
NextOnLeaf(s) ==
    Recorded(s) \/ leaf = ChainParent(s) \/ (s.ix > 0 /\ ~Recorded(Predecessor(s)))

StepKinds == \A s \in steps : s.result.kind \in {"assistant", "abort"}

JournalReady == ToolsOrdered /\ (\A s \in started : NextOnLeaf(s)) /\ StepKinds

Unpaid == started \ done

(* The recovery runs under an abort request, has planned for every tool    *)
(* that is owed, and cancels no message.                                   *)
RecoverReady ==
    /\ pc \in {"recover", "reconcile", "recover-finish", "accept"} => turn = 0
    /\ pc \in {"reconcile", "recover-finish"} => abortReq
    /\ pc = "recover-finish" => Unpaid = {}
    /\ pc = "reconcile" =>
          /\ plan.items = {} /\ plan.slots \subseteq Unpaid
          /\ ~plan.closed => ClosingEntry(cur) \notin Present
          /\ \A s \in Unpaid :
                \/ s \in plan.slots
                \/ \E i \in DOMAIN pending : pending[i].op = "ToolFinished" /\ pending[i].slot = s
    /\ pc = "accept" => open = NoRun \/ \E i \in DOMAIN pending : pending[i].op = "OperationFinished"

(* What a run has not written yet.                                         *)
RunReady ==
    /\ pc \in GenPCs \ {"note"} /\ ~Starting => retry = 0
    /\ pc \in GenPCs \ {"fail-finish"} => ErrorEntry(cur) \notin Present
    /\ pc \in GenPCs \ {"intents", "join"} => AllRecorded
    /\ pc \in TraceSteps =>
          \A e \in Present : e.run = cur /\ e.kind = "assistant" => e.turn <= turn
    /\ pc \in {"provider", "settle"} /\ turn > 0 =>
          /\ AssistantEntry(cur, turn) \in Present /\ entries[AssistantEntry(cur, turn)].calls > 0
          /\ \A i \in Nat : i < entries[AssistantEntry(cur, turn)].calls => Recorded(Call(i))

(* The results of the batch that are there are the first k.                *)
Filled(k) == leaf = ChainParent(Call(k)) /\ \A i \in Nat : Recorded(Call(i)) <=> i < k

BatchReady ==
    /\ pc \in {"intents", "join", "persist"} =>
          /\ turn > 0 /\ batch \in Batches
          /\ ~(pc = "intents" /\ Writing) =>
                AssistantEntry(cur, turn) \in Present /\ entries[AssistantEntry(cur, turn)].calls = batch.n
    /\ pc \in {"intents", "join"} =>
          /\ ~failed
          /\ \A s \in started :
                Recorded(s) \/ \E i \in Nat : i < batch.n /\ i \notin batch.rejected /\ s = Call(i)
    /\ pc = "intents" => \A i \in Nat : i >= next => Call(i) \notin started
    /\ pc \in {"join", "persist"} =>
          \E k \in Nat :
              /\ Filled(k)
              /\ Writing => k = next - 1
              /\ pc = "join" => k <= next
              /\ \A i \in Nat : i < next /\ (pc = "persist" \/ i \notin batch.rejected)
                                => i < k \/ (Writing /\ i = next - 1)

TaskReady == RecoverReady /\ RunReady /\ BatchReady

(* Each parked append will pass its guard.                                 *)
EntryReady(e) ==
    /\ e.id \notin Present /\ e.parent = leaf
    /\ \/ e.id.kind # "tool" /\ AllRecorded
       \/ \E c \in Slots : e.id = Result(c) /\ leaf = ChainParent(c)
    /\ pc \in GenPCs \ {"fail-finish"} => e.id.kind # "error"
    /\ pc \in TraceSteps /\ e.id.kind = "assistant" => e.id.turn <= turn
    /\ pc = "intents" => e.calls = batch.n
    /\ pc \in {"join", "persist"} => next > 0 /\ e.id = Result(Call(next - 1))
    /\ pc = "reconcile" => e.id.kind = "tool"

StartReady(s) ==
    /\ ToolStartedGuard(s)
    /\ s.ix > 0 => Predecessor(s) \in started
    /\ NextOnLeaf(s)
    /\ pc \in {"intents", "settle"}
    /\ pc = "settle" => Recorded(s)
    /\ pc = "intents" => \E i \in Nat : i < next /\ i < batch.n /\ i \notin batch.rejected /\ s = Call(i)

FinishReady(s) ==
    /\ open = s.run /\ s \in Unpaid
    /\ pc = "reconcile" => s \notin plan.slots
    /\ Recorded(s) \/ (pending[1].op = "Entry" /\ pending[1].id = Result(s))

ParkReady(e) ==
    /\ e.op = "Entry" => EntryReady(e)
    /\ e.op = "OperationStarted" => open = NoRun
    /\ e.op = "AbortRequested" => open = e.run
    /\ e.op = "OperationFinished" => OperationFinishedGuard(e.run, e.outcome) /\ AllRecorded
    /\ e.op = "StepAttempt" =>
          /\ e.result.kind \in {"assistant", "abort"}
          /\ \/ open = e.run /\ e.attempt = attempts + 1
             \/ Starting /\ pending[1].run = e.run /\ e.attempt = 1
    /\ e.op = "RetryScheduled" => open = e.run /\ retry = 0 /\ e.attempt = attempts + 1 /\ pc = "note"
    /\ e.op = "ToolStarted" => StartReady(e.slot)
    /\ e.op = "ToolFinished" => FinishReady(e.slot)
    /\ e.op \notin {"QueueEnqueued", "QueueCancelled", "QueueConsumed"}

(* An append comes alone; an entry with the record it is for; a start with *)
(* its prompt and the first attempt.                                       *)
ParkShape ==
    /\ Len(pending) <= 3
    /\ Len(pending) = 2 =>
          pending[1].op = "Entry" /\ pending[2].op \in {"ToolFinished", "OperationFinished", "StepAttempt"}
    /\ Len(pending) = 3 =>
          pending[1].op = "OperationStarted" /\ pending[2].op = "Entry" /\ pending[3].op = "StepAttempt"

PendingReady == ParkShape /\ \A i \in DOMAIN pending : ParkReady(pending[i])

Ready == JournalReady /\ TaskReady /\ PendingReady /\ NothingRefused

-----------------------------------------------------------------------------
(* What the parts of Ready depend on.                                      *)

LEMMA SlotIds ==
    ASSUME NEW s \in Slots
    PROVE  /\ Result(s) = [kind |-> "tool", run |-> s.run, turn |-> s.turn, ix |-> s.ix]
           /\ Result(s).kind = "tool" /\ Result(s) \in EntryIds
           /\ Declaring(s) = AssistantEntry(s.run, s.turn) /\ Declaring(s).kind = "assistant"
           /\ s.ix > 0 => /\ Predecessor(s) \in Slots
                          /\ Predecessor(s).run = s.run /\ Predecessor(s).turn = s.turn
                          /\ Predecessor(s).ix = s.ix - 1
           /\ s.run \in Runs /\ s.turn \in Nat /\ s.ix \in Nat
           /\ s = [run |-> s.run, turn |-> s.turn, ix |-> s.ix]
<1>1. s.run \in Runs /\ s.turn \in Nat /\ s.ix \in Nat /\ s = [run |-> s.run, turn |-> s.turn, ix |-> s.ix]
  BY DEF Slots
<1>2. s.ix > 0 => Predecessor(s) = [run |-> s.run, turn |-> s.turn, ix |-> s.ix - 1] /\ s.ix - 1 \in Nat
  BY <1>1 DEF Predecessor
<1> QED BY <1>1, <1>2 DEF Result, Declaring, AssistantEntry, Slots, EntryIds, EntryKinds

LEMMA ResultOfOne ==
    ASSUME NEW s \in Slots, NEW c \in Slots, Result(s) = Result(c)
    PROVE  s = c
  BY SlotIds

(* Different calls are recorded on different entries.                      *)
LEMMA ChainParentOfOne ==
    ASSUME NEW s \in Slots, NEW c \in Slots, ChainParent(s) = ChainParent(c)
    PROVE  s = c
<1>1. CASE s.ix = 0 /\ c.ix = 0
  <2>1. AssistantEntry(s.run, s.turn) = AssistantEntry(c.run, c.turn)
    BY <1>1, SlotIds DEF ChainParent
  <2>2. s.run = c.run /\ s.turn = c.turn
    BY <2>1 DEF AssistantEntry
  <2> QED BY <1>1, <2>2, SlotIds
<1>2. CASE s.ix > 0 /\ c.ix > 0
  <2>1. Predecessor(s) = Predecessor(c)
    BY <1>2, SlotIds, ResultOfOne DEF ChainParent
  <2>2. s.run = c.run /\ s.turn = c.turn /\ s.ix - 1 = c.ix - 1
    BY <1>2, <2>1, SlotIds
  <2> QED BY <2>2, SlotIds
<1>3. CASE (s.ix = 0 /\ c.ix > 0) \/ (s.ix > 0 /\ c.ix = 0)
  <2>1. \A t \in Slots : t.ix = 0 => ChainParent(t).kind = "assistant"
    BY SlotIds DEF ChainParent
  <2>2. \A t \in Slots : t.ix > 0 => ChainParent(t).kind = "tool"
    BY SlotIds DEF ChainParent
  <2> QED BY <1>3, <2>1, <2>2
<1> QED BY <1>1, <1>2, <1>3, SlotIds

(* The next append passes its guard.                                       *)
LEMMA HeadAccepted ==
    ASSUME TaskTypeOK, Chained, Ready, pending # <<>>
    PROVE  Guard(Head(pending))
<1> PICK e : e = Head(pending)
  OBVIOUS
<1>1. e = pending[1] /\ 1 \in DOMAIN pending /\ e \in Effects /\ JournalTypeOK
  BY TailPlaces DEF TaskTypeOK, TypeOK
<1>2. ParkReady(e)
  BY <1>1 DEF Ready, PendingReady
<1>3. CASE e.op = "Entry"
  BY <1>2, <1>3 DEF ParkReady, EntryReady, Guard, EntryGuard, Chained, JournalOK, ParentsKnown
<1>4. CASE e.op \in {"OperationStarted", "AbortRequested", "OperationFinished", "RetryScheduled"}
  BY <1>2, <1>4 DEF ParkReady, Guard
<1>5. CASE e.op = "StepAttempt"
  BY <1>1, <1>2, <1>5 DEF ParkReady, Guard, Starting
<1>6. CASE e.op = "ToolStarted"
  BY <1>2, <1>6 DEF ParkReady, StartReady, Guard
<1>7. CASE e.op = "ToolFinished"
  <2>1. PICK s \in Slots : s = e.slot
    BY <1>1, <1>7, EffectFields
  <2>2. open = s.run /\ s \in started /\ s \notin done /\ Recorded(s)
    BY <1>1, <1>2, <1>7, <2>1 DEF ParkReady, FinishReady, Unpaid
  <2>3. entries[Result(s)].parent = ChainParent(s) /\ (s.ix > 0 => Predecessor(s) \in started)
    BY <2>2 DEF Ready, JournalReady, ToolsOrdered
  <2>4. entries[Result(s)].parent \in {Declaring(s), PreviousResult(s)}
    BY <2>3, SlotIds DEF ChainParent, PreviousResult
  <2> QED BY <1>7, <2>1, <2>2, <2>4 DEF Guard, ToolFinishedGuard, Recorded
<1>8. e.op \in {"Entry", "OperationStarted", "AbortRequested", "OperationFinished", "StepAttempt",
                "RetryScheduled", "ToolStarted", "ToolFinished"}
  BY <1>1, <1>2 DEF Effects, ParkReady
<1> QED BY <1>3, <1>4, <1>5, <1>6, <1>7, <1>8

LEMMA JournalReadyFrame ==
    ASSUME JournalReady, UNCHANGED <<entries, leaf, steps, started, done>>
    PROVE  JournalReady'
<1>1. \A s : Recorded(s)' = Recorded(s) /\ ChainParent(s)' = ChainParent(s)
  BY DEF Recorded, Present, ChainParent, Declaring, Result, Predecessor, AssistantEntry
<1>2. Present' = Present
  BY DEF Present
<1>3. ToolsOrdered'
  BY <1>1, <1>2 DEF JournalReady, ToolsOrdered
<1>4. (\A s \in started : NextOnLeaf(s))'
  BY <1>1 DEF JournalReady, NextOnLeaf
<1> QED BY <1>3, <1>4 DEF JournalReady, StepKinds

(* A step that leaves the task and the run's records keeps Ready; the      *)
(* abort request may come.                                                 *)
LEMMA ReadyFrame ==
    ASSUME Ready, UNCHANGED <<record, task, attempts, retry>>, abortReq => abortReq'
    PROVE  Ready'
<1>0. UNCHANGED <<entries, leaf, open, steps, started, done, history>>
      /\ UNCHANGED <<pc, handle, pending, fault, cur, turn, batch, next, failed, settled, verdict, plan>>
  BY DEF record, task
<1>1. JournalReady'
  BY <1>0, JournalReadyFrame DEF Ready
<1>2. Present' = Present /\ Starting' = Starting /\ Writing' = Writing /\ Unpaid' = Unpaid
  BY <1>0 DEF Present, Starting, Writing, Unpaid
<1>3. \A s : Recorded(s)' = Recorded(s) /\ ChainParent(s)' = ChainParent(s) /\ NextOnLeaf(s)' = NextOnLeaf(s)
  BY <1>0, <1>2 DEF Recorded, ChainParent, NextOnLeaf
<1>4. \A i : Call(i)' = Call(i)
  BY <1>0 DEF Call
<1>5. AllRecorded' = AllRecorded /\ \A k : Filled(k)' = Filled(k)
  BY <1>0, <1>3, <1>4 DEF AllRecorded, Filled, Recorded
<1>6. RecoverReady'
  BY <1>0, <1>2 DEF Ready, TaskReady, RecoverReady
<1>7. RunReady'
  BY <1>0, <1>2, <1>4, <1>5 DEF Ready, TaskReady, RunReady, Recorded
<1>8. BatchReady'
  BY <1>0, <1>2, <1>3, <1>4, <1>5 DEF Ready, TaskReady, BatchReady
<1>9. ASSUME NEW p, ParkReady(p)
      PROVE  ParkReady(p)'
  <2>1. EntryReady(p) => EntryReady(p)'
    BY <1>0, <1>2, <1>3, <1>4, <1>5 DEF EntryReady
  <2>2. \A s : StartReady(s) => StartReady(s)'
    BY <1>0, <1>2, <1>3, <1>4 DEF StartReady, ToolStartedGuard
  <2>3. \A s : FinishReady(s) => FinishReady(s)'
    BY <1>0, <1>2, <1>3 DEF FinishReady
  <2>4. \A r, o : OperationFinishedGuard(r, o) => OperationFinishedGuard(r, o)'
    BY <1>0 DEF OperationFinishedGuard, Incomplete
  <2> QED BY <1>0, <1>2, <1>5, <1>9, <2>1, <2>2, <2>3, <2>4 DEF ParkReady
<1>10. ParkShape'
  BY <1>0 DEF Ready, PendingReady, ParkShape
<1>11. \A i \in DOMAIN pending : \A p : p = pending[i] => ParkReady(p)'
  BY <1>9 DEF Ready, PendingReady
<1>12. PendingReady'
  BY <1>0, <1>10, <1>11 DEF PendingReady, ParkReady, EntryReady, StartReady, FinishReady
<1> QED BY <1>0, <1>1, <1>6, <1>7, <1>8, <1>12 DEF Ready, TaskReady, NothingRefused

(* A task that starts knows nothing but the journal.                       *)
LEMMA StartsReady ==
    ASSUME JournalReady', pending' = <<>>, settled' = {}, turn' = 0, pc' \in {"idle", "recover"},
           NothingRefused'
    PROVE  Ready'
<1>1. pc' \notin GenPCs /\ pc' \notin TraceSteps
  BY DEF GenPCs, RunPCs, TraceSteps
<1>2. TaskReady'
  BY <1>1 DEF TaskReady, RecoverReady, RunReady, BatchReady
<1>3. PendingReady'
  BY DEF PendingReady, ParkShape
<1> QED BY <1>2, <1>3 DEF Ready

LEMMA ReadyInit == Init => Ready
<1> SUFFICES ASSUME Init PROVE Ready
  OBVIOUS
<1>1. /\ Present = {} /\ steps = {} /\ started = {} /\ done = {} /\ pending = <<>> /\ pc = "idle"
      /\ settled = {} /\ turn = 0 /\ fault = [h \in Handles |-> FALSE]
  BY DEF Init, JournalInit, Present
<1>2. JournalReady
  BY <1>1 DEF JournalReady, ToolsOrdered, StepKinds, Recorded
<1>3. pc \notin GenPCs /\ pc \notin TraceSteps
  BY <1>1 DEF GenPCs, RunPCs, TraceSteps
<1>4. TaskReady
  BY <1>1, <1>3 DEF TaskReady, RecoverReady, RunReady, BatchReady
<1>5. PendingReady
  BY <1>1 DEF PendingReady, ParkShape
<1> QED BY <1>1, <1>2, <1>4, <1>5 DEF Ready, NothingRefused

(* The environment only sets the abort request, edits the queue, or drops  *)
(* the task; the gate never faults.                                        *)
LEMMA ReadyAround ==
    ASSUME TaskTypeOK, Chained, Ready,
           Reject \/ HandleFaulted \/ Prompt \/ OtherParks \/ OtherCommits \/ Stop \/ Crash
    PROVE  Ready'
<1> USE DEF Chained
<1>1. CASE Reject
  BY <1>1, HeadAccepted DEF Reject
<1>2. CASE HandleFaulted
  BY <1>2, HandleTypes DEF HandleFaulted, Ready, NothingRefused, TaskTypeOK, TypeOK
<1>3. UNCHANGED journal => JournalReady'
  BY JournalReadyFrame DEF journal, Ready
<1>4. CASE Prompt
  BY <1>3, <1>4, StartsReady DEF Prompt, NewTask, Ready, NothingRefused
<1>5. CASE OtherParks
  BY <1>5, JournalSame, ReadyFrame DEF OtherParks, journal
<1>6. CASE OtherCommits
  <2>1. UNCHANGED <<record, task>>
    BY <1>6, OtherFrame
  <2>2. CASE UNCHANGED journal
    BY <2>1, <2>2, ReadyFrame DEF journal
  <2>3. CASE Apply(Head(other))
    <3>1. Head(other).op \in OtherKinds
      BY <1>6 DEF OtherCommits, OtherOK
    <3>2. CommitAbortRequested(Head(other)) \/ CommitQueue(Head(other))
      BY <2>3, <3>1 DEF OtherKinds, Apply, CommitEntry, CommitStarted, CommitFinished, CommitStepAttempt,
            CommitRetryScheduled, CommitToolStarted, CommitToolFinished
    <3>3. UNCHANGED <<attempts, retry>> /\ (abortReq => abortReq')
      BY <3>2 DEF CommitAbortRequested, CommitQueue
    <3> QED BY <2>1, <3>3, ReadyFrame
  <2> QED BY <1>6, <2>2, <2>3 DEF OtherCommits
<1>7. CASE Stop
  BY <1>3, <1>7, StartsReady DEF Stop, NewTask, Ready, NothingRefused
<1>8. CASE Crash
  BY <1>3, <1>8, StartsReady DEF Crash, NewTask, Ready, NothingRefused
<1> QED BY <1>1, <1>2, <1>4, <1>5, <1>6, <1>7, <1>8

-----------------------------------------------------------------------------
(* Commits keep Ready.                                                     *)

(* What an entry's commit leaves to be committed.                          *)
LEMMA EntryTail ==
    ASSUME TaskTypeOK, ParkShape, pending # <<>>, pending[1].op = "Entry", pending' = Tail(pending)
    PROVE  /\ Len(pending') <= 1
           /\ \A i \in DOMAIN pending' : /\ 2 \in DOMAIN pending /\ pending'[i] = pending[2]
                                         /\ pending[2].op \in {"ToolFinished", "OperationFinished", "StepAttempt"}
           /\ \A i \in DOMAIN pending : i # 1 => i - 1 \in DOMAIN pending' /\ pending'[i - 1] = pending[i]
<1>1. pending \in Seq(Effects)
  BY DEF TaskTypeOK, TypeOK
<1>2. Len(pending) \in {1, 2}
  <2>1. PICK n \in Nat : n = Len(pending)
    BY <1>1
  <2>2. n # 0 /\ n # 3 /\ n <= 3
    BY <1>1, <2>1 DEF ParkShape
  <2> QED BY <2>1, <2>2
<1>3. Len(pending') = Len(pending) - 1 /\ DOMAIN pending' = 1..(Len(pending) - 1) /\ DOMAIN pending = 1..Len(pending)
  BY <1>1
<1>4. \A i \in DOMAIN pending' : i = 1 /\ Len(pending) = 2 /\ pending'[1] = pending[2]
  BY <1>1, <1>2, <1>3
<1> QED BY <1>2, <1>3, <1>4 DEF ParkShape

(* An entry is the result of the next call in order, or no result while    *)
(* every started tool has its own.                                         *)
LEMMA EntryKeepsOrder ==
    ASSUME JournalTypeOK, JournalReady, NEW e, CommitEntry(e), e.id \notin Present, e.parent = leaf,
           \/ e.id.kind # "tool" /\ AllRecorded
           \/ \E c \in Slots : e.id = Result(c) /\ leaf = ChainParent(c)
    PROVE  JournalReady'
<1>1. /\ Present' = Present \cup {e.id} /\ leaf' = e.id
      /\ entries'[e.id].parent = leaf
      /\ \A i \in Present : entries'[i] = entries[i]
      /\ UNCHANGED <<steps, started, done>>
  BY DEF CommitEntry, Present
<1>2. started \subseteq Slots
  BY DEF JournalTypeOK
<1>3. \A s : Recorded(s)' <=> Recorded(s) \/ Result(s) = e.id
  BY <1>1 DEF Recorded, Result
<1>4. \A s : ChainParent(s)' = ChainParent(s)
  BY DEF ChainParent, Declaring, AssistantEntry, Result, Predecessor
<1>5. ASSUME NEW s \in Slots, Recorded(s)'
      PROVE  entries'[Result(s)].parent = ChainParent(s)
  <2>1. CASE Recorded(s)
    BY <1>1, <2>1 DEF JournalReady, ToolsOrdered, Recorded
  <2>2. CASE ~Recorded(s)
    <3>1. Result(s) = e.id
      BY <1>3, <1>5, <2>2
    <3>2. PICK c \in Slots : e.id = Result(c) /\ leaf = ChainParent(c)
      BY <3>1, SlotIds
    <3>3. s = c
      BY <3>1, <3>2, ResultOfOne
    <3> QED BY <1>1, <3>1, <3>2, <3>3
  <2> QED BY <2>1, <2>2
<1>6. ToolsOrdered'
  BY <1>1, <1>3, <1>4, <1>5 DEF JournalReady, ToolsOrdered, Predecessor, Declaring, AssistantEntry, Result
<1>7. ASSUME NEW s \in started
      PROVE  Recorded(s)' \/ e.id = ChainParent(s) \/ (s.ix > 0 /\ ~Recorded(Predecessor(s))')
  <2>1. CASE AllRecorded
    BY <1>3, <2>1 DEF AllRecorded
  <2>2. CASE ~AllRecorded
    <3>1. PICK c \in Slots : e.id = Result(c) /\ leaf = ChainParent(c)
      BY <2>2
    <3>2. s \in Slots /\ NextOnLeaf(s)
      BY <1>2 DEF JournalReady
    <3>3. CASE Recorded(s)
      BY <1>3, <3>3
    <3>4. CASE leaf = ChainParent(s)
      <4>1. s = c
        BY <3>1, <3>2, <3>4, ChainParentOfOne
      <4> QED BY <1>3, <3>1, <4>1
    <3>5. CASE s.ix > 0 /\ ~Recorded(Predecessor(s))
      <4>1. CASE Result(Predecessor(s)) = e.id
        <5>1. s.ix # 0
          BY <3>2, <3>5, SlotIds
        <5> QED BY <4>1, <5>1 DEF ChainParent
      <4>2. CASE Result(Predecessor(s)) # e.id
        <5>1. PICK q : q = Predecessor(s)
          OBVIOUS
        <5>2. ~Recorded(q)'
          BY <1>3, <3>5, <4>2, <5>1
        <5> QED BY <3>5, <5>1, <5>2 DEF Recorded, Result, Predecessor
      <4> QED BY <4>1, <4>2
    <3> QED BY <3>2, <3>3, <3>4, <3>5 DEF NextOnLeaf
  <2> QED BY <2>1, <2>2
<1>8. (\A s \in started : NextOnLeaf(s))'
  BY <1>1, <1>4, <1>7 DEF NextOnLeaf
<1> QED BY <1>1, <1>6, <1>8 DEF JournalReady, StepKinds

LEMMA CommitEntryReady ==
    ASSUME TaskTypeOK, Accounting, Chained, Ready, Commit, Head(pending).op = "Entry"
    PROVE  Ready'
<1> PICK e : e = Head(pending)
  OBVIOUS
<1>1. /\ pending \in Seq(Effects) /\ pending # <<>> /\ JournalTypeOK
      /\ pending' = Tail(pending)
      /\ UNCHANGED <<pc, handle, fault, cur, turn, batch, next, failed, settled, plan>>
  BY DEF TaskTypeOK, TypeOK, Commit
<1>2. e = pending[1] /\ 1 \in DOMAIN pending /\ e \in Effects
  BY <1>1, TailPlaces
<1>3. CommitEntry(e)
  BY DEF Commit, Apply, CommitEntry, CommitStarted, CommitAbortRequested, CommitFinished,
         CommitStepAttempt, CommitRetryScheduled, CommitToolStarted, CommitToolFinished, CommitQueue
<1>4. EntryPromise(e) /\ EntryReady(e)
  BY <1>2 DEF Chained, PendingOK, ParkPromise, Ready, PendingReady, ParkReady
<1>5. e.id \notin Present /\ e.parent = leaf /\ e.id \in EntryIds /\ e.calls \in Nat
  BY <1>2, <1>4, EffectFields DEF EntryReady
<1>6. /\ Present' = Present \cup {e.id} /\ leaf' = e.id
      /\ entries'[e.id].calls = e.calls
      /\ \A i \in Present : entries'[i] = entries[i]
      /\ UNCHANGED <<open, abortReq, attempts, retry, steps, started, done, history>>
  BY <1>3, <1>5 DEF CommitEntry, Present
<1>7. JournalReady'
  BY <1>1, <1>3, <1>4, <1>5, EntryKeepsOrder DEF Ready, EntryReady
<1>8. /\ ParkShape /\ Len(pending') <= 1
      /\ \A i \in DOMAIN pending' : /\ 2 \in DOMAIN pending /\ pending'[i] = pending[2]
                                    /\ pending[2].op \in {"ToolFinished", "OperationFinished", "StepAttempt"}
      /\ \A i \in DOMAIN pending : i # 1 => i - 1 \in DOMAIN pending' /\ pending'[i - 1] = pending[i]
  BY <1>1, <1>2, EntryTail DEF Ready, PendingReady
<1>9. \A i \in DOMAIN pending : pending[i].op # "Entry"
                                => i - 1 \in DOMAIN pending' /\ pending'[i - 1] = pending[i]
  BY <1>2, <1>8
<1>10. ~Starting /\ ~Starting' /\ Writing /\ ~Writing'
  BY <1>2, <1>8 DEF Starting, Writing
<1>11. \A s : Recorded(s)' <=> Recorded(s) \/ Result(s) = e.id
  BY <1>6 DEF Recorded, Result
<1>12. \A i : Call(i)' = Call(i)
  BY <1>1 DEF Call
<1>13. AllRecorded => AllRecorded'
  BY <1>6, <1>11 DEF AllRecorded
<1>14. Unpaid' = Unpaid
  BY <1>6 DEF Unpaid
<1>15. RecoverReady'
  <2>1. pc = "reconcile" => e.id # ClosingEntry(cur)
    BY <1>4 DEF EntryReady, ClosingEntry
  <2> QED BY <1>1, <1>6, <1>9, <1>14, <2>1 DEF Ready, TaskReady, RecoverReady
<1>16. RunReady'
  <2>1. pc \in GenPCs \ {"fail-finish"} => e.id # ErrorEntry(cur)
    BY <1>4 DEF EntryReady, ErrorEntry
  <2>2. pc \in TraceSteps /\ e.id.kind = "assistant" => e.id.turn <= turn
    BY <1>4 DEF EntryReady
  <2> QED BY <1>1, <1>6, <1>10, <1>11, <1>12, <1>13, <2>1, <2>2 DEF Ready, TaskReady, RunReady
<1>17. BatchReady'
  <2>1. pc \in {"intents", "join", "persist"} =>
           AssistantEntry(cur, turn) \in Present' /\ entries'[AssistantEntry(cur, turn)].calls = batch.n
    BY <1>4, <1>6, <1>10 DEF Ready, TaskReady, BatchReady, EntryReady, EntryPromise
  <2>2. ASSUME pc \in {"join", "persist"}
        PROVE  \E k \in Nat :
                 /\ Filled(k)' /\ (pc = "join" => k <= next)
                 /\ \A i \in Nat : i < next /\ (pc = "persist" \/ i \notin batch.rejected) => i < k
    <3>1. PICK k \in Nat : Filled(k) /\ k = next - 1
      BY <1>10, <2>2 DEF Ready, TaskReady, BatchReady
    <3>2. next \in Nat /\ next = k + 1 /\ e.id = Result(Call(k))
      BY <1>4, <2>2, <3>1 DEF EntryReady, TaskTypeOK, TypeOK
    <3>3. ChainParent(Call(k + 1)) = Result(Call(k))
      BY DEF ChainParent, Call, Predecessor, Result
    <3>4. \A i \in Nat : Recorded(Call(i))' <=> i < k + 1
      <4>1. \A i \in Nat : Recorded(Call(i))' <=> i < k \/ Result(Call(i)) = Result(Call(k))
        BY <1>11, <1>12, <3>1, <3>2 DEF Filled, Recorded
      <4>2. \A i \in Nat : Result(Call(i)) = Result(Call(k)) <=> i = k
        BY ResultIds
      <4> QED BY <4>1, <4>2
    <3>5. Filled(k + 1)'
      BY <1>6, <1>12, <3>2, <3>3, <3>4 DEF Filled, Recorded, ChainParent, Declaring, AssistantEntry, Result, Predecessor, Call
    <3> QED BY <3>2, <3>5
  <2> QED BY <1>1, <1>6, <1>10, <1>11, <1>12, <2>1, <2>2 DEF Ready, TaskReady, BatchReady
<1>19. ASSUME NEW i \in DOMAIN pending', NEW p, p = pending'[i]
       PROVE  ParkReady(p)'
  <2>1. p \in Effects /\ p.op \in {"ToolFinished", "OperationFinished", "StepAttempt"} /\ ParkReady(p)
    BY <1>1, <1>8, <1>19 DEF Ready, PendingReady
  <2>2. CASE p.op = "ToolFinished"
    BY <1>1, <1>2, <1>6, <1>11, <1>14, <2>1, <2>2 DEF ParkReady, FinishReady
  <2>3. CASE p.op = "OperationFinished"
    BY <1>6, <1>13, <2>1, <2>3 DEF ParkReady, OperationFinishedGuard, Incomplete
  <2>4. CASE p.op = "StepAttempt"
    BY <1>6, <1>10, <2>1, <2>4 DEF ParkReady
  <2> QED BY <2>1, <2>2, <2>3, <2>4
<1>20. PendingReady'
  <2>1. ParkShape'
    <3>1. PICK q : q = pending'
      OBVIOUS
    <3>2. PICK n \in Nat : n = Len(q) /\ n <= 1
      BY <1>1, <1>8, <3>1
    <3>3. n # 2 /\ n # 3 /\ n <= 3
      BY <3>2
    <3> QED BY <3>1, <3>2, <3>3 DEF ParkShape
  <2> QED BY <1>19, <2>1 DEF PendingReady, ParkReady, EntryReady, StartReady, FinishReady
<1> QED BY <1>1, <1>7, <1>15, <1>16, <1>17, <1>20 DEF Ready, TaskReady, NothingRefused

(* What each record changes of what Ready reads.                           *)
LEMMA RecordChanges ==
    ASSUME NEW e, Apply(e), e.op # "Entry"
    PROVE  /\ UNCHANGED <<entries, leaf>>
           /\ started' = IF e.op = "ToolStarted" THEN started \cup {e.slot} ELSE started
           /\ done' = IF e.op = "ToolFinished" THEN done \cup {e.slot} ELSE done
           /\ e.op # "StepAttempt" => UNCHANGED steps
           /\ e.op = "StepAttempt" =>
                 steps' = steps \cup {[run |-> e.run, attempt |-> e.attempt, result |-> e.result]}
           /\ e.op \notin {"OperationStarted", "OperationFinished"} => UNCHANGED open
           /\ e.op = "OperationStarted" => open' = e.run /\ retry' = 0 /\ attempts' = 0
           /\ e.op = "OperationFinished" => open' = NoRun
           /\ e.op # "OperationFinished" /\ abortReq => abortReq'
           /\ e.op # "RetryScheduled" /\ retry = 0 => retry' = 0
<1>1. CommitStarted(e) \/ CommitAbortRequested(e) \/ CommitFinished(e) \/ CommitStepAttempt(e)
      \/ CommitRetryScheduled(e) \/ CommitToolStarted(e) \/ CommitToolFinished(e) \/ CommitQueue(e)
  BY DEF Apply, CommitEntry
<1>2. CASE CommitStarted(e)
  BY <1>2 DEF CommitStarted
<1>3. CASE CommitAbortRequested(e)
  BY <1>3 DEF CommitAbortRequested
<1>4. CASE CommitFinished(e)
  BY <1>4 DEF CommitFinished
<1>5. CASE CommitStepAttempt(e)
  BY <1>5 DEF CommitStepAttempt
<1>6. CASE CommitRetryScheduled(e)
  BY <1>6 DEF CommitRetryScheduled
<1>7. CASE CommitToolStarted(e)
  BY <1>7 DEF CommitToolStarted
<1>8. CASE CommitToolFinished(e)
  BY <1>8 DEF CommitToolFinished
<1>9. CASE CommitQueue(e)
  BY <1>9 DEF CommitQueue
<1> QED BY <1>1, <1>2, <1>3, <1>4, <1>5, <1>6, <1>7, <1>8, <1>9

(* A record comes alone, but for the start of a run.                       *)
LEMMA RecordTail ==
    ASSUME TaskTypeOK, ParkShape, pending # <<>>, pending[1].op # "Entry", pending' = Tail(pending)
    PROVE  \/ DOMAIN pending = {1} /\ DOMAIN pending' = {} /\ Len(pending') = 0
           \/ /\ DOMAIN pending = {1, 2, 3} /\ DOMAIN pending' = {1, 2} /\ Len(pending') = 2
              /\ pending'[1] = pending[2] /\ pending'[2] = pending[3]
              /\ pending[1].op = "OperationStarted" /\ pending[2].op = "Entry" /\ pending[3].op = "StepAttempt"
<1>1. pending \in Seq(Effects)
  BY DEF TaskTypeOK, TypeOK
<1>2. PICK n \in Nat : n = Len(pending)
  BY <1>1
<1>3. n # 0 /\ n # 2 /\ n <= 3
  BY <1>1, <1>2 DEF ParkShape
<1>4. n = 1 \/ n = 3
  BY <1>3
<1>5. DOMAIN pending = 1..n /\ DOMAIN pending' = 1..(n - 1) /\ Len(pending') = n - 1
      /\ \A i \in 1..(n - 1) : pending'[i] = pending[i + 1]
  BY <1>1, <1>2
<1>6. CASE n = 1
  <2>1. 1..1 = {1} /\ 1..0 = {}
    OBVIOUS
  <2> QED BY <1>5, <1>6, <2>1
<1>7. CASE n = 3
  <2>1. DOMAIN pending = {1, 2, 3} /\ DOMAIN pending' = {1, 2} /\ Len(pending') = 2
        /\ pending'[1] = pending[2] /\ pending'[2] = pending[3]
    BY <1>5, <1>7
  <2>2. /\ pending[1].op = "OperationStarted" /\ pending[2].op = "Entry" /\ pending[3].op = "StepAttempt"
    BY <1>2, <1>7 DEF ParkShape
  <2> QED BY <2>1, <2>2
<1> QED BY <1>4, <1>6, <1>7

(* Records leave the transcript, and what is recorded, as they are.        *)
LEMMA SameRecorded ==
    ASSUME UNCHANGED <<entries, leaf>>
    PROVE  /\ Present' = Present
           /\ \A s : Recorded(s)' = Recorded(s) /\ NextOnLeaf(s)' = NextOnLeaf(s)
<1>1. Present' = Present
  BY DEF Present
<1>2. \A s : Recorded(s)' = Recorded(s)
  BY <1>1 DEF Recorded, Result
<1>3. \A s : ChainParent(s)' = ChainParent(s)
  BY DEF ChainParent, Declaring, AssistantEntry, Result, Predecessor
<1>4. \A s : NextOnLeaf(s)' = NextOnLeaf(s)
  <2> TAKE s
  <2>1. PICK q : q = Predecessor(s)
    OBVIOUS
  <2>2. Recorded(Predecessor(s))' = Recorded(Predecessor(s))
    BY <1>1 DEF Recorded, Result, Predecessor
  <2> QED BY <1>2, <1>3, <2>2 DEF NextOnLeaf
<1> QED BY <1>1, <1>2, <1>4

(* A record that leaves an empty gate.                                     *)
LEMMA CommitAloneReady ==
    ASSUME TaskTypeOK, Accounting, Chained, Ready, Commit, NEW e, e = pending[1], e \in Effects,
           e.op # "Entry", Apply(e), DOMAIN pending = {1}, DOMAIN pending' = {}, Len(pending') = 0
    PROVE  Ready'
<1>1. UNCHANGED <<pc, handle, fault, cur, turn, batch, next, failed, settled, plan>>
  BY DEF Commit
<1>2. ParkReady(e) /\ ParkPromise(e) /\ \A i \in DOMAIN pending : pending[i] = e
  BY DEF Ready, PendingReady, Chained, PendingOK
<1>3. /\ UNCHANGED <<entries, leaf>>
      /\ started' = IF e.op = "ToolStarted" THEN started \cup {e.slot} ELSE started
      /\ done' = IF e.op = "ToolFinished" THEN done \cup {e.slot} ELSE done
      /\ e.op # "StepAttempt" => UNCHANGED steps
      /\ e.op = "StepAttempt" =>
            steps' = steps \cup {[run |-> e.run, attempt |-> e.attempt, result |-> e.result]}
      /\ e.op \notin {"OperationStarted", "OperationFinished"} => UNCHANGED open
      /\ e.op = "OperationStarted" => open' = e.run /\ retry' = 0 /\ attempts' = 0
      /\ e.op = "OperationFinished" => open' = NoRun
      /\ e.op # "OperationFinished" /\ abortReq => abortReq'
      /\ e.op # "RetryScheduled" /\ retry = 0 => retry' = 0
  BY RecordChanges
<1>4. Present' = Present /\ \A s : Recorded(s)' = Recorded(s) /\ NextOnLeaf(s)' = NextOnLeaf(s)
  BY <1>3, SameRecorded
<1>5. ~Writing /\ ~Writing' /\ ~Starting' /\ (Starting => e.op = "OperationStarted")
  BY <1>2 DEF Writing, Starting
<1>6. \A i : Call(i)' = Call(i)
  BY <1>1 DEF Call
<1>7. \A s : ChainParent(s)' = ChainParent(s)
  BY DEF ChainParent, Declaring, AssistantEntry, Result, Predecessor
<1>8. \A k : Filled(k)' = Filled(k)
  <2>1. \A i : Recorded(Call(i))' = Recorded(Call(i)) /\ ChainParent(Call(i))' = ChainParent(Call(i))
    BY <1>4, <1>6 DEF ChainParent, Recorded, Declaring, AssistantEntry, Result, Predecessor, Call
  <2> QED BY <1>3, <2>1 DEF Filled
<1>9. e.op = "ToolStarted" => StartReady(e.slot) /\ e.slot \in Slots /\ pc \in {"intents", "settle"}
  BY <1>2, EffectFields DEF ParkReady, StartReady
<1>10. e.op = "ToolFinished" => e.slot \in Unpaid /\ Recorded(e.slot) /\ (pc = "reconcile" => e.slot \notin plan.slots)
  BY <1>2 DEF ParkReady, FinishReady
<1>11. e.op = "OperationFinished" => pc \notin RunPCs /\ pc \notin GenPCs
  BY <1>2 DEF ParkPromise, GenPCs
<1>12. JournalReady'
  <2>1. ToolsOrdered'
    <3>1. \A s \in started' : s.ix > 0 => Predecessor(s) \in started'
      BY <1>3, <1>9 DEF Ready, JournalReady, ToolsOrdered, StartReady
    <3>2. \A s \in started' : Declaring(s) \in Present'
      BY <1>3, <1>4, <1>9 DEF Ready, JournalReady, ToolsOrdered, StartReady, ToolStartedGuard
    <3>3. \A s \in done' : Recorded(s)'
      BY <1>3, <1>4, <1>10 DEF Ready, JournalReady, ToolsOrdered
    <3>4. \A s \in Slots : Recorded(s)' => entries'[Result(s)].parent = ChainParent(s)
      BY <1>3, <1>4 DEF Ready, JournalReady, ToolsOrdered
    <3> QED BY <1>7, <3>1, <3>2, <3>3, <3>4 DEF ToolsOrdered, Predecessor, Declaring, AssistantEntry, Result
  <2>2. \A s \in started' : NextOnLeaf(s)'
    BY <1>3, <1>4, <1>9 DEF Ready, JournalReady, StartReady
  <2>3. StepKinds'
    BY <1>2, <1>3 DEF Ready, JournalReady, StepKinds, ParkReady
  <2> QED BY <2>1, <2>2, <2>3 DEF JournalReady, NextOnLeaf, Recorded, ChainParent, Declaring, AssistantEntry, Result, Predecessor
<1>13. e.op = "ToolStarted" => pc \notin {"recover", "reconcile", "recover-finish", "accept"}
  BY <1>9
<1>14. RecoverReady'
  <2>1. pc \in {"reconcile", "recover-finish"} => abortReq'
    <3>1. {"reconcile", "recover-finish"} \subseteq RunPCs
      BY DEF RunPCs, PCs
    <3> QED BY <1>3, <1>11, <3>1 DEF Ready, TaskReady, RecoverReady
  <2>2. pc # "intents" /\ pc # "settle" => Unpaid' \subseteq Unpaid
    BY <1>3, <1>9 DEF Unpaid
  <2>3. pc = "recover-finish" => Unpaid' = {}
    BY <2>2 DEF Ready, TaskReady, RecoverReady
  <2>4. pc = "reconcile" =>
          /\ plan.slots \subseteq Unpaid'
          /\ \A s \in Unpaid' : s \in plan.slots
    <3> HAVE pc = "reconcile"
    <3>1. /\ plan.slots \subseteq Unpaid
          /\ \A s \in Unpaid : s \in plan.slots \/ (e.op = "ToolFinished" /\ e.slot = s)
      BY <1>2 DEF Ready, TaskReady, RecoverReady
    <3> QED BY <1>3, <1>10, <1>13, <3>1 DEF Unpaid
  <2>5. pc = "accept" => open' = NoRun
    <3> HAVE pc = "accept"
    <3>1. open = NoRun \/ e.op = "OperationFinished"
      BY <1>2 DEF Ready, TaskReady, RecoverReady
    <3>2. e.op # "OperationStarted"
      BY <1>2 DEF ParkPromise
    <3> QED BY <1>3, <3>1, <3>2
  <2> QED BY <1>1, <1>4, <2>1, <2>3, <2>4, <2>5 DEF Ready, TaskReady, RecoverReady
<1>15. RunReady'
  <2>1. pc \in GenPCs \ {"note"} => retry' = 0
    <3> HAVE pc \in GenPCs \ {"note"}
    <3>1. CASE e.op = "OperationStarted"
      BY <1>3, <3>1
    <3>2. CASE e.op # "OperationStarted"
      <4>1. e.op # "RetryScheduled"
        BY <1>2 DEF ParkReady
      <4>2. retry = 0
        BY <1>5, <3>2 DEF Ready, TaskReady, RunReady
      <4> QED BY <1>3, <4>1, <4>2
    <3> QED BY <3>1, <3>2
  <2>2. pc \in GenPCs \ {"intents", "join"} => AllRecorded'
    <3> HAVE pc \in GenPCs \ {"intents", "join"}
    <3>1. AllRecorded
      BY DEF Ready, TaskReady, RunReady
    <3>2. e.op = "ToolStarted" => Recorded(e.slot)
      BY <1>9 DEF StartReady
    <3> QED BY <1>3, <1>4, <3>1, <3>2 DEF AllRecorded, Recorded, Result
  <2>3. \A i : Recorded(Call(i))' = Recorded(Call(i))
    BY <1>4, <1>6 DEF Recorded, Result, Call
  <2> QED BY <1>1, <1>3, <1>4, <2>1, <2>2, <2>3 DEF Ready, TaskReady, RunReady
<1>16. BatchReady'
  <2>1. pc \in {"intents", "join", "persist"} =>
          /\ turn > 0 /\ batch \in Batches
          /\ AssistantEntry(cur, turn) \in Present' /\ entries'[AssistantEntry(cur, turn)].calls = batch.n
    BY <1>3, <1>4, <1>5 DEF Ready, TaskReady, BatchReady
  <2>2. pc \in {"intents", "join"} =>
          /\ ~failed
          /\ \A s \in started' :
                Recorded(s) \/ \E i \in Nat : i < batch.n /\ i \notin batch.rejected /\ s = Call(i)
    BY <1>3, <1>9 DEF Ready, TaskReady, BatchReady, StartReady
  <2>3. pc = "intents" => \A i \in Nat : i >= next => Call(i) \notin started'
    <3> SUFFICES ASSUME pc = "intents", NEW i \in Nat, i >= next PROVE Call(i) \notin started'
      OBVIOUS
    <3>1. Call(i) \notin started
      BY DEF Ready, TaskReady, BatchReady
    <3>2. e.op = "ToolStarted" => e.slot # Call(i)
      <4> HAVE e.op = "ToolStarted"
      <4>1. PICK j \in Nat : j < next /\ e.slot = Call(j)
        BY <1>9 DEF StartReady
      <4>2. j # i
        BY <4>1 DEF TaskTypeOK, TypeOK
      <4> QED BY <4>1, <4>2 DEF Call
    <3> QED BY <1>3, <3>1, <3>2
  <2>4. pc \in {"join", "persist"} =>
          \E k \in Nat :
              /\ Filled(k)
              /\ pc = "join" => k <= next
              /\ \A i \in Nat : i < next /\ (pc = "persist" \/ i \notin batch.rejected) => i < k
    BY <1>5 DEF Ready, TaskReady, BatchReady
  <2> QED BY <1>1, <1>4, <1>5, <1>6, <1>8, <2>1, <2>2, <2>3, <2>4 DEF BatchReady
<1>18. PendingReady'
  <2>1. ParkShape'
    BY DEF ParkShape
  <2> QED BY <2>1 DEF PendingReady
<1> QED BY <1>1, <1>12, <1>14, <1>15, <1>16, <1>18 DEF Ready, TaskReady, NothingRefused

(* The record that starts a run leaves its prompt and its first attempt.   *)
LEMMA CommitStartReady ==
    ASSUME TaskTypeOK, Accounting, Chained, Ready, Commit, NEW e, e = pending[1], e \in Effects,
           Guard(e), Apply(e), e.op = "OperationStarted",
           DOMAIN pending = {1, 2, 3}, DOMAIN pending' = {1, 2}, Len(pending') = 2,
           pending'[1] = pending[2], pending'[2] = pending[3],
           pending[2].op = "Entry", pending[3].op = "StepAttempt"
    PROVE  Ready'
<1>1. UNCHANGED <<pc, handle, fault, cur, turn, batch, next, failed, settled, plan>>
  BY DEF Commit
<1>2. ParkPromise(e) /\ pc = "provider" /\ open = NoRun
  BY DEF Chained, PendingOK, ParkPromise, Guard
<1>3. /\ UNCHANGED <<entries, leaf, steps, started, done>>
      /\ open' = e.run /\ attempts' = 0 /\ retry' = 0
  BY RecordChanges
<1>4. Present' = Present /\ \A s : Recorded(s)' = Recorded(s) /\ NextOnLeaf(s)' = NextOnLeaf(s)
  BY <1>3, SameRecorded
<1>5. Starting /\ Writing /\ ~Starting' /\ Writing' /\ pending[1] = e
  BY DEF Starting, Writing
<1>6. JournalReady'
  BY <1>3, JournalReadyFrame DEF Ready
<1>7. RecoverReady' /\ BatchReady'
  BY <1>1, <1>2 DEF Ready, TaskReady, RecoverReady, BatchReady
<1>8. \A i : Call(i)' = Call(i) /\ Recorded(Call(i))' = Recorded(Call(i))
  BY <1>1, <1>4 DEF Call, Recorded, Result
<1>9. AllRecorded' = AllRecorded
  BY <1>3, <1>4 DEF AllRecorded, Recorded, Result
<1>10. RunReady'
  BY <1>1, <1>2, <1>3, <1>4, <1>8, <1>9 DEF Ready, TaskReady, RunReady
<1>12. \A p : p = pending'[1] => ParkReady(p)'
  <2> SUFFICES ASSUME NEW p, p = pending[2] PROVE ParkReady(p)'
    OBVIOUS
  <2>1. p.op = "Entry" /\ EntryReady(p)
    BY DEF Ready, PendingReady, ParkReady
  <2>2. EntryReady(p)'
    BY <1>1, <1>3, <1>4, <1>9, <2>1, <1>2 DEF EntryReady, ChainParent, Result, Declaring, AssistantEntry, Predecessor, TraceSteps
  <2> QED BY <2>1, <2>2 DEF ParkReady
<1>13. \A p : p = pending'[2] => ParkReady(p)'
  <2> SUFFICES ASSUME NEW p, p = pending[3] PROVE ParkReady(p)'
    OBVIOUS
  <2>1. p.op = "StepAttempt" /\ ParkReady(p) /\ p \in Effects
    <3>1. p.op = "StepAttempt" /\ ParkReady(p) /\ 3 \in DOMAIN pending
      BY DEF Ready, PendingReady
    <3>2. \A q \in Seq(Effects) : \A i \in DOMAIN q : q[i] \in Effects
      OBVIOUS
    <3> QED BY <3>1, <3>2 DEF TaskTypeOK, TypeOK
  <2>2. p.run \in Runs /\ p.run # NoRun
    BY <2>1, EffectFields, RunsAssumption
  <2>3. e.run = p.run /\ p.attempt = 1 /\ p.result.kind \in {"assistant", "abort"}
    BY <1>2, <2>1, <2>2 DEF ParkReady
  <2> QED BY <1>3, <2>1, <2>3 DEF ParkReady
<1>14. PendingReady'
  <2>1. ParkShape'
    BY DEF ParkShape
  <2>2. \A i \in DOMAIN pending' : i = 1 \/ i = 2
    OBVIOUS
  <2> QED BY <1>12, <1>13, <2>1, <2>2 DEF PendingReady, ParkReady, EntryReady, StartReady, FinishReady
<1> QED BY <1>1, <1>6, <1>7, <1>10, <1>14 DEF Ready, TaskReady, NothingRefused

LEMMA CommitReady ==
    ASSUME TaskTypeOK, Accounting, Chained, Ready, Commit
    PROVE  Ready'
<1> PICK e : e = Head(pending)
  OBVIOUS
<1>1. pending \in Seq(Effects) /\ pending # <<>> /\ pending' = Tail(pending) /\ Guard(e) /\ Apply(e)
  BY DEF TaskTypeOK, TypeOK, Commit
<1>2. e = pending[1] /\ e \in Effects
  BY <1>1, TailPlaces
<1>3. CASE e.op = "Entry"
  BY <1>3, CommitEntryReady
<1>4. CASE e.op # "Entry"
  <2>1. \/ DOMAIN pending = {1} /\ DOMAIN pending' = {} /\ Len(pending') = 0
        \/ /\ DOMAIN pending = {1, 2, 3} /\ DOMAIN pending' = {1, 2} /\ Len(pending') = 2
           /\ pending'[1] = pending[2] /\ pending'[2] = pending[3]
           /\ pending[1].op = "OperationStarted" /\ pending[2].op = "Entry" /\ pending[3].op = "StepAttempt"
    BY <1>1, <1>2, <1>4, RecordTail DEF Ready, PendingReady
  <2> QED BY <1>1, <1>2, <1>4, <2>1, CommitAloneReady, CommitStartReady
<1> QED BY <1>3, <1>4

-----------------------------------------------------------------------------
(* What each procedure parks is acceptable.                                *)

LEMMA NoneReady ==
    ASSUME pending' = <<>>
    PROVE  PendingReady'
  BY DEF PendingReady, ParkShape

LEMMA OneReady ==
    ASSUME NEW a, pending' = <<a>>, ParkReady(a)'
    PROVE  PendingReady'
<1>1. Len(pending') = 1 /\ DOMAIN pending' = {1} /\ pending'[1] = a
  OBVIOUS
<1>2. ParkShape'
  BY <1>1 DEF ParkShape
<1> QED BY <1>1, <1>2 DEF PendingReady, ParkReady, EntryReady, StartReady, FinishReady

LEMMA TwoReady ==
    ASSUME NEW a, NEW b, pending' = <<a, b>>, a.op = "Entry",
           b.op \in {"ToolFinished", "OperationFinished", "StepAttempt"},
           ParkReady(a)', ParkReady(b)'
    PROVE  PendingReady'
<1>1. Len(pending') = 2 /\ DOMAIN pending' = {1, 2} /\ pending'[1] = a /\ pending'[2] = b
  OBVIOUS
<1>2. ParkShape'
  BY <1>1 DEF ParkShape
<1>3. \A i \in DOMAIN pending' : \A p : p = pending'[i] => ParkReady(p)'
  BY <1>1
<1> QED BY <1>2, <1>3 DEF PendingReady, ParkReady, EntryReady, StartReady, FinishReady

(* A step of the task reads the journal and leaves it as it is.            *)
LEMMA StepSame ==
    ASSUME Ready, UNCHANGED journal, pending = <<>>
    PROVE  /\ JournalReady' /\ UNCHANGED <<entries, leaf, open, abortReq, attempts, retry, steps, started, done, history>>
           /\ Present' = Present /\ Unpaid' = Unpaid /\ AllRecorded' = AllRecorded
           /\ \A s : Recorded(s)' = Recorded(s) /\ NextOnLeaf(s)' = NextOnLeaf(s)
           /\ ~Starting /\ ~Writing
<1>1. UNCHANGED <<entries, leaf, open, abortReq, attempts, retry, steps, started, done, history>>
  BY DEF journal
<1>2. Present' = Present /\ \A s : Recorded(s)' = Recorded(s) /\ NextOnLeaf(s)' = NextOnLeaf(s)
  BY <1>1, SameRecorded
<1>3. JournalReady'
  BY <1>1, JournalReadyFrame DEF Ready
<1>4. Unpaid' = Unpaid /\ AllRecorded' = AllRecorded
  BY <1>1, <1>2 DEF Unpaid, AllRecorded, Recorded, Result
<1> QED BY <1>1, <1>2, <1>3, <1>4, GateEmpty

(* An open run whose tools are all paid may be closed by an abort.         *)
LEMMA AbortAllowed ==
    ASSUME JournalReady, Unpaid = {}, abortReq, open \in Runs
    PROVE  OperationFinishedGuard(open, "Aborted") /\ AllRecorded
  BY DEF OperationFinishedGuard, Incomplete, Unpaid, AllRecorded, JournalReady, ToolsOrdered

LEMMA RecoverSteps ==
    ASSUME Recover
    PROVE  /\ pending = <<>> /\ UNCHANGED <<journal, fault, turn, settled>>
           /\ pc \in {"recover", "reconcile", "recover-finish"}
           /\ pc' \in {"recover", "reconcile", "recover-finish", "accept"}
           /\ pc' \notin GenPCs /\ pc' \notin TraceSteps
<1>1. pending = <<>> /\ UNCHANGED <<journal, fault, turn, settled>>
      /\ pc \in {"recover", "reconcile", "recover-finish"}
      /\ pc' \in {"recover", "reconcile", "recover-finish", "accept"}
  BY DEF Recover, NothingToRecover, RecoverRequestAbort, PlanReconcile, ReconcileTool, ReconcileQueued,
         ReconcileClose, RecoverReserve, RecoverAbortEntry, RecoverFinish, At, Park, Goto
<1>2. pc' \notin GenPCs /\ pc' \notin TraceSteps
  BY <1>1 DEF GenPCs, RunPCs, TraceSteps
<1> QED BY <1>1, <1>2

(* The tools that a recovery still owes are those it has planned for; the  *)
(* first of them is recorded, or its predecessor is and is the leaf.       *)
LEMMA LeastOwed ==
    ASSUME TaskTypeOK, Ready, pc = "reconcile", pending = <<>>,
           NEW s \in plan.slots, \A t \in plan.slots : Before(s, t)
    PROVE  plan.slots = Unpaid /\ s \in Slots /\ (Recorded(s) \/ leaf = ChainParent(s))
<1>1. plan.slots = Unpaid
  <2>1. plan.slots \subseteq Unpaid
    BY DEF Ready, TaskReady, RecoverReady
  <2>2. DOMAIN pending = {}
    OBVIOUS
  <2>3. \A t \in Unpaid : t \in plan.slots
    BY <2>2 DEF Ready, TaskReady, RecoverReady
  <2> QED BY <2>1, <2>3
<1>2. s \in Slots /\ s \in started
  BY <1>1 DEF Unpaid, TaskTypeOK, TypeOK, JournalTypeOK
<1>3. ASSUME s.ix > 0, ~Recorded(Predecessor(s))
      PROVE  FALSE
  <2>1. Predecessor(s) \in started \ done
    BY <1>2, <1>3 DEF Ready, JournalReady, ToolsOrdered
  <2>2. Before(s, Predecessor(s))
    BY <1>1, <2>1 DEF Unpaid
  <2>3. s.turn \in Nat /\ s.ix \in Nat /\ Predecessor(s).turn = s.turn /\ Predecessor(s).ix = s.ix - 1
    BY <1>2, <1>3, SlotIds
  <2> QED BY <2>2, <2>3 DEF Before
<1> QED BY <1>1, <1>2, <1>3 DEF Ready, JournalReady, NextOnLeaf

LEMMA RecoverReadyStep ==
    ASSUME TaskTypeOK, Accounting, Chained, Ready, Recover, Items \subseteq NextRunItems
    PROVE  Ready'
<1>1. /\ pending = <<>> /\ UNCHANGED <<journal, fault, turn, settled>>
      /\ pc \in {"recover", "reconcile", "recover-finish"}
      /\ pc' \in {"recover", "reconcile", "recover-finish", "accept"}
      /\ pc' \notin GenPCs /\ pc' \notin TraceSteps
  BY RecoverSteps
<1>2. /\ JournalReady'
      /\ UNCHANGED <<entries, leaf, open, abortReq, attempts, retry, steps, started, done, history>>
      /\ Present' = Present /\ Unpaid' = Unpaid /\ AllRecorded' = AllRecorded
      /\ \A s : Recorded(s)' = Recorded(s)
      /\ ~Starting /\ ~Writing
  BY <1>1, StepSame
<1>3. RunReady' /\ BatchReady' /\ NothingRefused' /\ turn' = 0
  BY <1>1 DEF Ready, NothingRefused, TaskReady, RecoverReady, RunReady, BatchReady
<1>4. pc \in {"reconcile", "recover-finish"} => abortReq /\ open = cur /\ open \in Runs
  BY <1>1, <1>2 DEF Ready, TaskReady, RecoverReady, Chained, TaskOK, CurOpen, RunPCs, PCs, TaskTypeOK, CurIsRun
<1>5. open # NoRun => open \in Runs
  BY DEF TaskTypeOK, TypeOK, JournalTypeOK
<1>6. \A s \in Unpaid : s \in Slots /\ s.run = open
  BY DEF Unpaid, Accounting, Balanced, ClosedRunsSettled, TaskTypeOK, TypeOK, JournalTypeOK
<1>7. ASSUME open \in Runs, abortReq, Unpaid = {}, NEW p, p = Finished(open, "Aborted")
      PROVE  ParkReady(p)'
  <2>1. OperationFinishedGuard(open, "Aborted") /\ AllRecorded
    BY <1>7, AbortAllowed DEF Ready
  <2>2. p.op = "OperationFinished" /\ p.run = open /\ p.outcome = "Aborted"
    BY <1>7 DEF Finished
  <2>3. OperationFinishedGuard(p.run, p.outcome)'
    BY <1>2, <2>1, <2>2 DEF OperationFinishedGuard, Incomplete
  <2> QED BY <1>2, <2>1, <2>2, <2>3 DEF ParkReady
<1>8. CASE NothingToRecover
  <2>1. pending' = <<>> /\ pc' = "accept" /\ open = NoRun
    BY <1>8 DEF NothingToRecover, At, Goto
  <2>2. RecoverReady'
    BY <1>2, <1>3, <2>1 DEF RecoverReady
  <2> QED BY <1>2, <1>3, <2>1, <2>2, NoneReady DEF Ready, TaskReady
<1>9. CASE RecoverRequestAbort
  <2> PICK p : p = [op |-> "AbortRequested", run |-> open]
    OBVIOUS
  <2>1. pending' = <<p>> /\ pc' = "recover" /\ p.op = "AbortRequested" /\ p.run = open
    BY <1>9 DEF RecoverRequestAbort, Park
  <2>2. ParkReady(p)'
    BY <1>2, <2>1 DEF ParkReady
  <2>3. RecoverReady'
    BY <1>3, <2>1 DEF RecoverReady
  <2> QED BY <1>2, <1>3, <2>1, <2>2, <2>3, OneReady DEF Ready, TaskReady
<1>10. CASE PlanReconcile
  <2>1. /\ pending' = <<>> /\ pc' = "reconcile" /\ abortReq /\ cur' = open
        /\ plan' = [slots |-> Unpaid, items |-> {q \in Items \ NextRunItems : queue[q] = "queued"},
                    parent |-> leaf, closed |-> ClosingEntry(open) \in Present]
    BY <1>1, <1>10 DEF PlanReconcile, Goto, Unpaid
  <2>2. plan'.items = {} /\ plan'.slots = Unpaid /\ (~plan'.closed => ClosingEntry(open) \notin Present)
    BY <2>1
  <2>3. RecoverReady'
    BY <1>2, <1>3, <2>1, <2>2 DEF RecoverReady, ClosingEntry
  <2> QED BY <1>2, <1>3, <2>1, <2>3, NoneReady DEF Ready, TaskReady
<1>11. CASE ReconcileTool
  <2>1. PICK s \in plan.slots :
          /\ \A t \in plan.slots : Before(s, t)
          /\ LET finish == [op |-> "ToolFinished", slot |-> s] IN
             \/ /\ Result(s) \in Present
                /\ plan' = [plan EXCEPT !.slots = @ \ {s}]
                /\ Park(<<finish>>, "reconcile")
             \/ /\ Result(s) \notin Present
                /\ plan' = [plan EXCEPT !.slots = @ \ {s}, !.parent = Result(s)]
                /\ Park(<<Write(Result(s), plan.parent), finish>>, "reconcile")
    BY <1>11 DEF ReconcileTool
  <2>2. pc = "reconcile" /\ pc' = "reconcile" /\ cur' = cur
    BY <1>11, <2>1 DEF ReconcileTool, At, Park
  <2>3. plan.slots = Unpaid /\ s \in Slots /\ (Recorded(s) \/ leaf = ChainParent(s))
    BY <1>1, <2>1, <2>2, LeastOwed
  <2>4. plan.parent = leaf
    BY <1>2, <2>2 DEF Chained, TaskOK, PlanOK
  <2>5. plan'.slots = Unpaid \ {s} /\ plan'.items = {} /\ plan'.closed = plan.closed
    BY <2>1, <2>2, <2>3 DEF TaskTypeOK, TypeOK, Ready, TaskReady, RecoverReady
  <2> PICK f : f = [op |-> "ToolFinished", slot |-> s]
    OBVIOUS
  <2>6. f.op = "ToolFinished" /\ f.slot = s
    OBVIOUS
  <2>7. ASSUME \E i \in DOMAIN pending' : pending'[i] = f
        PROVE  RecoverReady'
    <3>1. \A t \in Unpaid' : \/ t \in plan'.slots
                             \/ \E i \in DOMAIN pending' : pending'[i].op = "ToolFinished" /\ pending'[i].slot = t
      BY <1>2, <2>5, <2>6, <2>7
    <3>2. ~plan'.closed => ClosingEntry(cur)' \notin Present'
      BY <1>2, <2>2, <2>5 DEF Ready, TaskReady, RecoverReady, ClosingEntry
    <3> QED BY <1>2, <1>3, <1>4, <2>2, <2>5, <3>1, <3>2 DEF RecoverReady
  <2>8. open = s.run /\ s \in Unpaid
    BY <1>6, <2>1, <2>3
  <2>9. CASE Recorded(s)
    <3>1. pending' = <<f>> /\ \E i \in DOMAIN pending' : pending'[i] = f
      BY <2>1, <2>9 DEF Recorded, Park
    <3>2. ParkReady(f)'
      BY <1>2, <2>5, <2>6, <2>8, <2>9 DEF ParkReady, FinishReady, Recorded, Result
    <3> QED BY <1>2, <1>3, <2>7, <3>1, <3>2, OneReady DEF Ready, TaskReady
  <2>10. CASE ~Recorded(s)
    <3> PICK e : e = Write(Result(s), leaf)
      OBVIOUS
    <3>1. e.op = "Entry" /\ e.id = Result(s) /\ e.parent = leaf /\ e.id.kind = "tool"
      BY <2>3, SlotIds DEF Write
    <3>2. pending' = <<e, f>>
      BY <2>1, <2>4, <2>10 DEF Recorded, Park
    <3>3. pending'[1] = e /\ \E i \in DOMAIN pending' : pending'[i] = f
      BY <3>2
    <3>4. ParkReady(e)'
      <4>1. EntryReady(e)'
        BY <1>1, <1>2, <2>2, <2>3, <2>10, <3>1 DEF EntryReady, Recorded, ChainParent, Result, Declaring,
              AssistantEntry, Predecessor
      <4> QED BY <3>1, <4>1 DEF ParkReady
    <3>5. ParkReady(f)'
      BY <1>2, <2>5, <2>6, <2>8, <3>1, <3>3 DEF ParkReady, FinishReady, Recorded, Result
    <3> QED BY <1>2, <1>3, <2>6, <2>7, <3>1, <3>2, <3>3, <3>4, <3>5, TwoReady DEF Ready, TaskReady
  <2> QED BY <2>9, <2>10
<1>12. CASE ReconcileQueued
  BY <1>12 DEF ReconcileQueued, At, Ready, TaskReady, RecoverReady
<1>13. CASE ReconcileClose
  <2>1. pc = "reconcile" /\ pc' = "accept" /\ plan.slots = {}
    BY <1>13 DEF ReconcileClose, At, Park
  <2>2. Unpaid = {}
    <3>1. DOMAIN pending = {}
      BY <1>1
    <3> QED BY <2>1, <3>1 DEF Ready, TaskReady, RecoverReady
  <2> PICK f : f = Finished(open, "Aborted")
    OBVIOUS
  <2>3. ParkReady(f)' /\ f.op = "OperationFinished"
    BY <1>4, <1>7, <2>1, <2>2 DEF Finished
  <2>4. ASSUME \E i \in DOMAIN pending' : pending'[i] = f
        PROVE  RecoverReady'
    BY <1>3, <2>1, <2>3, <2>4 DEF RecoverReady
  <2>5. CASE plan.closed
    <3>1. pending' = <<f>> /\ \E i \in DOMAIN pending' : pending'[i] = f
      BY <1>4, <1>13, <2>1, <2>5 DEF ReconcileClose, Park
    <3> QED BY <1>2, <1>3, <2>3, <2>4, <3>1, OneReady DEF Ready, TaskReady
  <2>6. CASE ~plan.closed
    <3> PICK e : e = Write(ClosingEntry(cur), leaf)
      OBVIOUS
    <3>1. e.op = "Entry" /\ e.id = ClosingEntry(cur) /\ e.parent = leaf /\ e.id.kind = "closing"
      BY DEF Write, ClosingEntry
    <3>2. pending' = <<e, f>>
      BY <1>2, <1>4, <1>13, <2>1, <2>6 DEF ReconcileClose, Park, Chained, TaskOK, PlanOK
    <3>3. \E i \in DOMAIN pending' : pending'[i] = f
      BY <3>2
    <3>4. ParkReady(e)'
      <4>1. AllRecorded /\ ClosingEntry(cur) \notin Present
        BY <1>4, <2>1, <2>2, <2>6, AbortAllowed DEF Ready, TaskReady, RecoverReady
      <4>2. EntryReady(e)'
        BY <1>1, <1>2, <2>1, <3>1, <4>1 DEF EntryReady
      <4> QED BY <3>1, <4>2 DEF ParkReady
    <3> QED BY <1>2, <1>3, <2>3, <2>4, <3>1, <3>2, <3>3, <3>4, TwoReady DEF Ready, TaskReady
  <2> QED BY <2>5, <2>6
<1>14. CASE RecoverReserve
  <2> PICK p : p = StepAttempt(open, attempts + 1, AbortEntry(open))
    OBVIOUS
  <2>1. pending' = <<p>> /\ pc' = "recover"
    BY <1>14 DEF RecoverReserve, Park
  <2>2. p.op = "StepAttempt" /\ p.run = open /\ p.attempt = attempts + 1 /\ p.result.kind = "abort"
    BY DEF StepAttempt, AbortEntry
  <2>3. ParkReady(p)'
    BY <1>2, <2>2 DEF ParkReady
  <2>4. RecoverReady'
    BY <1>3, <2>1 DEF RecoverReady
  <2> QED BY <1>2, <1>3, <2>1, <2>3, <2>4, OneReady DEF Ready, TaskReady
<1>15. CASE RecoverAbortEntry
  <2>1. PICK s \in StepsOf(open) : pending' = <<Write(s.result, leaf)>>
    BY <1>15 DEF RecoverAbortEntry, Park
  <2>2. pc' = "recover-finish" /\ open \in Runs /\ abortReq /\ ~HasAssistant(open)
    BY <1>5, <1>15 DEF RecoverAbortEntry, Park
  <2>3. Unpaid = {}
    <3>1. ASSUME NEW t \in Unpaid
          PROVE  FALSE
      <4>1. Declaring(t) \in Present
        BY DEF Unpaid, Ready, JournalReady, ToolsOrdered
      <4>2. Declaring(t).run = open /\ Declaring(t).kind = "assistant"
        BY <1>6 DEF Declaring, AssistantEntry
      <4> QED BY <2>2, <4>1, <4>2 DEF HasAssistant
    <3> QED BY <3>1
  <2>4. AllRecorded
    BY <2>2, <2>3, AbortAllowed DEF Ready
  <2> PICK e : e = Write(s.result, leaf)
    OBVIOUS
  <2>5. /\ s.result.run = open /\ s.result.kind \in {"assistant", "abort"}
        /\ e.op = "Entry" /\ e.id = s.result /\ e.parent = leaf
    BY <2>1 DEF StepsOf, Chained, JournalOK, RunsKnown, Ready, JournalReady, StepKinds, Write
  <2>6. s.result \notin Present
    BY <2>2, <2>5 DEF HasAssistant
  <2>7. ParkReady(e)'
    <3>1. EntryReady(e)'
      BY <1>1, <1>2, <2>2, <2>4, <2>5, <2>6 DEF EntryReady
    <3> QED BY <2>5, <3>1 DEF ParkReady
  <2>8. RecoverReady'
    BY <1>2, <1>3, <2>2, <2>3 DEF RecoverReady
  <2> QED BY <1>2, <1>3, <2>1, <2>7, <2>8, OneReady DEF Ready, TaskReady
<1>16. CASE RecoverFinish
  <2> PICK f : f = Finished(open, "Aborted")
    OBVIOUS
  <2>1. pc = "recover-finish" /\ pc' = "accept" /\ pending' = <<f>>
    BY <1>4, <1>16 DEF RecoverFinish, At, Park
  <2>2. ParkReady(f)' /\ f.op = "OperationFinished"
    BY <1>4, <1>7, <2>1 DEF Finished, Ready, TaskReady, RecoverReady
  <2>3. \E i \in DOMAIN pending' : pending'[i].op = "OperationFinished"
    BY <2>1, <2>2
  <2>4. RecoverReady'
    BY <1>3, <2>1, <2>3 DEF RecoverReady
  <2> QED BY <1>2, <1>3, <2>1, <2>2, <2>4, OneReady DEF Ready, TaskReady
<1> QED BY <1>8, <1>9, <1>10, <1>11, <1>12, <1>13, <1>14, <1>15, <1>16 DEF Recover

(* From one step of a run to the next: the run has not moved.              *)
LEMMA RunStays ==
    ASSUME Ready, UNCHANGED journal, pending = <<>>, UNCHANGED <<cur, turn>>,
           pc \in GenPCs \ {"note", "fail-finish"}, pc' \in GenPCs,
           pc' \in TraceSteps => pc \in TraceSteps,
           pc' \in {"intents", "join"} \/ AllRecorded,
           pc' \in {"provider", "settle"} /\ turn > 0 =>
              /\ AssistantEntry(cur, turn) \in Present /\ entries[AssistantEntry(cur, turn)].calls > 0
              /\ \A i \in Nat : i < entries[AssistantEntry(cur, turn)].calls => Recorded(Call(i))
    PROVE  RunReady'
<1>1. /\ UNCHANGED <<entries, leaf, open, abortReq, attempts, retry, steps, started, done, history>>
      /\ Present' = Present /\ AllRecorded' = AllRecorded
      /\ \A s : Recorded(s)' = Recorded(s)
      /\ ~Starting
  BY StepSame
<1>2. \A i : Call(i)' = Call(i) /\ Recorded(Call(i))' = Recorded(Call(i))
  BY <1>1 DEF Call, Recorded, Result
<1>3. retry = 0 /\ ErrorEntry(cur) \notin Present
  BY <1>1 DEF Ready, TaskReady, RunReady
<1>4. pc \in TraceSteps => \A e \in Present : e.run = cur /\ e.kind = "assistant" => e.turn <= turn
  BY DEF Ready, TaskReady, RunReady
<1> QED BY <1>1, <1>2, <1>3, <1>4 DEF RunReady

LEMMA GenerationStep ==
    ASSUME pc' \in GenPCs \cup {"idle"}
    PROVE  RecoverReady'
<1>1. pc' \notin {"recover", "reconcile", "recover-finish", "accept"}
  BY DEF GenPCs, RunPCs
<1> QED BY <1>1 DEF RecoverReady

LEMMA GenerationPCs ==
    /\ TraceSteps \subseteq GenPCs
    /\ {"settle", "finish", "retry", "note", "fail", "fail-finish"} \subseteq GenPCs
    /\ \A p \in GenPCs : p \notin {"idle", "recover", "reconcile", "recover-finish", "accept"}
    /\ "note" \notin TraceSteps /\ "fail-finish" \notin TraceSteps
    /\ TraceSteps = {"provider", "intents", "join", "persist"}
    /\ GenPCs \subseteq RunPCs
  BY DEF TraceSteps, GenPCs, RunPCs, PCs

(* A run is accepted when the lane is free, and then nothing is owed.      *)
LEMMA AcceptReady ==
    ASSUME TaskTypeOK, Accounting, Chained, Ready, Accept
    PROVE  Ready'
<1>1. /\ pending = <<>> /\ UNCHANGED <<journal, turn, settled>> /\ pc = "accept" /\ pc' = "provider"
      /\ fault' = [fault EXCEPT !["trace"] = FALSE]
  BY DEF Accept, At, Park
<1>2. PICK r \in Fresh :
        /\ cur' = r
        /\ pending' = <<[op |-> "OperationStarted", run |-> r],
                        Write(UserEntry(r), leaf),
                        StepAttempt(r, 1, AssistantEntry(r, 1))>>
  BY DEF Accept, Park
<1>3. /\ JournalReady'
      /\ UNCHANGED <<entries, leaf, open, abortReq, attempts, retry, steps, started, done, history>>
      /\ Present' = Present /\ AllRecorded' = AllRecorded
  BY <1>1, StepSame
<1>4. turn = 0 /\ open = NoRun
  <2>1. DOMAIN pending = {}
    BY <1>1
  <2> QED BY <1>1, <2>1 DEF Ready, TaskReady, RecoverReady
<1>5. AllRecorded
  <2>1. Unpaid = {}
    BY <1>4, RunsAssumption DEF Unpaid, Accounting, Balanced, ClosedRunsSettled, TaskTypeOK, TypeOK, JournalTypeOK, Slots
  <2> QED BY <2>1 DEF Unpaid, AllRecorded, Ready, JournalReady, ToolsOrdered
<1>6. r \in Runs /\ \A e \in Present : e.run # r
  BY DEF Fresh, Chained, JournalOK, RunsKnown
<1> PICK a : a = [op |-> "OperationStarted", run |-> r]
  OBVIOUS
<1> PICK b : b = Write(UserEntry(r), leaf)
  OBVIOUS
<1> PICK c : c = StepAttempt(r, 1, AssistantEntry(r, 1))
  OBVIOUS
<1>7. /\ a.op = "OperationStarted" /\ a.run = r
      /\ b.op = "Entry" /\ b.id = UserEntry(r) /\ b.parent = leaf /\ b.id.kind = "user" /\ b.id.run = r
      /\ c.op = "StepAttempt" /\ c.run = r /\ c.attempt = 1 /\ c.result.kind = "assistant"
  BY DEF Write, UserEntry, StepAttempt, AssistantEntry
<1>8. /\ pending' = <<a, b, c>>
      /\ pending'[1] = a /\ pending'[2] = b /\ pending'[3] = c /\ Len(pending') = 3 /\ DOMAIN pending' = {1, 2, 3}
  BY <1>2
<1>9. Starting'
  BY <1>7, <1>8 DEF Starting
<1>10. RecoverReady'
  BY <1>1, GenerationStep, GenerationPCs
<1>11. RunReady'
  <2>1. ErrorEntry(r) \notin Present
    BY <1>6 DEF ErrorEntry
  <2> QED BY <1>1, <1>2, <1>3, <1>4, <1>5, <1>6, <1>9, <2>1 DEF RunReady, ErrorEntry
<1>12. BatchReady'
  BY <1>1 DEF BatchReady
<1>13. ParkReady(a)'
  BY <1>3, <1>4, <1>7 DEF ParkReady
<1>14. ParkReady(b)'
  <2>1. UserEntry(r) \notin Present
    BY <1>6, <1>7
  <2>2. EntryReady(b)'
    BY <1>1, <1>3, <1>5, <1>7, <2>1 DEF EntryReady
  <2> QED BY <1>7, <2>2 DEF ParkReady
<1>15. ParkReady(c)'
  BY <1>7, <1>8, <1>9 DEF ParkReady
<1>16. PendingReady'
  <2>1. ParkShape'
    BY <1>7, <1>8 DEF ParkShape
  <2>2. \A i \in DOMAIN pending' : \A p : p = pending'[i] => ParkReady(p)'
    BY <1>8, <1>13, <1>14, <1>15
  <2> QED BY <2>1, <2>2 DEF PendingReady, ParkReady, EntryReady, StartReady, FinishReady
<1>17. NothingRefused'
  BY <1>1 DEF Ready, NothingRefused, TaskTypeOK, TypeOK
<1> QED BY <1>3, <1>10, <1>11, <1>12, <1>16, <1>17 DEF Ready, TaskReady

(* What a provider answers opens a batch or ends the generation.           *)
LEMMA ReplyReady ==
    ASSUME TaskTypeOK, Accounting, Chained, Ready,
           ReplyWithTools \/ FinalReply \/ ProviderError \/ NoFreshRun
    PROVE  Ready'
<1>1. pending = <<>> /\ UNCHANGED <<journal, fault, settled, cur>>
  BY DEF ReplyWithTools, FinalReply, ProviderError, NoFreshRun, At
<1>2. /\ JournalReady'
      /\ UNCHANGED <<entries, leaf, open, abortReq, attempts, retry, steps, started, done, history>>
      /\ Present' = Present /\ AllRecorded' = AllRecorded
      /\ \A s : Recorded(s)' = Recorded(s)
      /\ ~Starting /\ ~Writing
  BY <1>1, StepSame
<1>3. NothingRefused'
  BY <1>1 DEF Ready, NothingRefused
<1>4. pc = "provider" =>
        /\ AllRecorded /\ retry = 0 /\ ErrorEntry(cur) \notin Present
        /\ AssistantEntry(cur, turn + 1) \notin Present
        /\ turn \in Nat /\ turn <= turn + 1
        /\ turn > 0 =>
              /\ AssistantEntry(cur, turn) \in Present /\ entries[AssistantEntry(cur, turn)].calls > 0
              /\ \A i \in Nat : i < entries[AssistantEntry(cur, turn)].calls => Recorded(Call(i))
        /\ \A e \in Present : e.run = cur /\ e.kind = "assistant" => e.turn <= turn
  <2> HAVE pc = "provider"
  <2>1. AllRecorded /\ retry = 0 /\ ErrorEntry(cur) \notin Present
    BY <1>2, GenerationPCs DEF Ready, TaskReady, RunReady
  <2>2. \A e \in Present : e.run = cur /\ e.kind = "assistant" => e.turn <= turn
    BY GenerationPCs DEF Ready, TaskReady, RunReady
  <2>3. turn > 0 =>
              /\ AssistantEntry(cur, turn) \in Present /\ entries[AssistantEntry(cur, turn)].calls > 0
              /\ \A i \in Nat : i < entries[AssistantEntry(cur, turn)].calls => Recorded(Call(i))
    BY DEF Ready, TaskReady, RunReady
  <2>4. turn \in Nat
    BY DEF TaskTypeOK, TypeOK
  <2>5. AssistantEntry(cur, turn + 1) \notin Present
    <3>1. /\ AssistantEntry(cur, turn + 1).run = cur /\ AssistantEntry(cur, turn + 1).kind = "assistant"
          /\ AssistantEntry(cur, turn + 1).turn = turn + 1
      BY DEF AssistantEntry
    <3> QED BY <2>2, <2>4, <3>1
  <2> QED BY <2>1, <2>2, <2>3, <2>4, <2>5
<1>5. CASE ReplyWithTools
  <2>1. PICK b \in Batches :
          batch' = b /\ pending' = <<Declare(AssistantEntry(cur, turn + 1), leaf, b.n)>>
    BY <1>5 DEF ReplyWithTools, Park
  <2>2. pc = "provider" /\ pc' = "intents" /\ turn' = turn + 1 /\ next' = 0 /\ failed' = FALSE
    BY <1>5 DEF ReplyWithTools, Park, At
  <2> PICK e : e = Declare(AssistantEntry(cur, turn + 1), leaf, b.n)
    OBVIOUS
  <2>3. /\ e.op = "Entry" /\ e.id = AssistantEntry(cur, turn + 1) /\ e.parent = leaf /\ e.calls = b.n
        /\ e.id.kind = "assistant" /\ e.id.turn = turn + 1
    BY DEF Declare, AssistantEntry
  <2>4. pending' = <<e>> /\ Writing'
    <3>1. pending' = <<e>>
      BY <2>1
    <3>2. 1 \in DOMAIN pending' /\ pending'[1] = e
      BY <3>1
    <3> QED BY <2>3, <3>1, <3>2 DEF Writing
  <2>5. RecoverReady'
    BY <2>2, GenerationStep, GenerationPCs
  <2>6. RunReady'
    <3>1. \A f \in Present : f.run = cur /\ f.kind = "assistant" => f.turn <= turn + 1
      <4>1. \A f \in Present : f.turn \in Nat
        BY DEF TaskTypeOK, TypeOK, JournalTypeOK, EntryIds
      <4> QED BY <1>4, <2>2, <4>1
    <3>2. ErrorEntry(cur)' \notin Present
      BY <1>1, <1>4, <2>2 DEF ErrorEntry
    <3> QED BY <1>1, <1>2, <1>4, <2>2, <3>1, <3>2 DEF RunReady
  <2>7. turn' > 0
    BY <1>4, <2>2
  <2>8. \A i \in Nat : Call(i)' \notin started
    <3> TAKE i \in Nat
    <3>1. Declaring(Call(i)') = AssistantEntry(cur, turn + 1)
      BY <1>1, <2>2 DEF Call, Declaring, AssistantEntry
    <3> QED BY <1>4, <2>2, <3>1 DEF Ready, JournalReady, ToolsOrdered
  <2>9. BatchReady'
    BY <1>2, <1>4, <2>1, <2>2, <2>4, <2>7, <2>8 DEF BatchReady, AllRecorded
  <2>10. ParkReady(e)'
    <3>1. EntryReady(e)'
      BY <1>2, <1>4, <2>1, <2>2, <2>3 DEF EntryReady
    <3> QED BY <2>3, <3>1 DEF ParkReady
  <2>11. PendingReady'
    BY <2>4, <2>10, OneReady
  <2> QED BY <1>2, <1>3, <2>5, <2>6, <2>9, <2>11 DEF Ready, TaskReady
<1>6. CASE FinalReply
  <2> PICK e : e = Write(AssistantEntry(cur, turn + 1), leaf)
    OBVIOUS
  <2>1. pc = "provider" /\ pc' = "settle" /\ turn' = turn /\ pending' = <<e>>
    BY <1>6 DEF FinalReply, Park, At
  <2>2. /\ e.op = "Entry" /\ e.id = AssistantEntry(cur, turn + 1) /\ e.parent = leaf
        /\ e.id.kind = "assistant"
    BY DEF Write, AssistantEntry
  <2>3. RunReady' /\ RecoverReady' /\ BatchReady'
    BY <1>1, <1>4, <2>1, RunStays, GenerationStep, GenerationPCs DEF BatchReady
  <2>4. ParkReady(e)'
    <3>1. EntryReady(e)'
      BY <1>2, <1>4, <2>1, <2>2, GenerationPCs DEF EntryReady
    <3> QED BY <2>2, <3>1 DEF ParkReady
  <2> QED BY <1>2, <1>3, <2>1, <2>3, <2>4, OneReady DEF Ready, TaskReady
<1>7. CASE ProviderError
  <2>1. pc = "provider" /\ pc' = "settle" /\ turn' = turn /\ pending' = <<>>
    BY <1>1, <1>7 DEF ProviderError, Goto, At
  <2>2. RunReady' /\ RecoverReady' /\ BatchReady'
    BY <1>1, <1>4, <2>1, RunStays, GenerationStep, GenerationPCs DEF BatchReady
  <2> QED BY <1>2, <1>3, <2>1, <2>2, NoneReady DEF Ready, TaskReady
<1>8. CASE NoFreshRun
  <2>1. pc' = "idle" /\ pending' = <<>>
    BY <1>1, <1>8 DEF NoFreshRun, Goto
  <2>2. RecoverReady' /\ RunReady' /\ BatchReady'
    BY <2>1, GenerationStep, GenerationPCs DEF RunReady, BatchReady
  <2> QED BY <1>2, <1>3, <2>1, <2>2, NoneReady DEF Ready, TaskReady
<1> QED BY <1>5, <1>6, <1>7, <1>8

(* The rejected calls of the batch come last.                              *)
LEMMA BeforeRejected ==
    ASSUME RejectedLast, batch \in Batches, NEW i \in Nat, NEW j \in Nat, i < j, j < batch.n, j \notin batch.rejected
    PROVE  i \notin batch.rejected
  BY DEF RejectedLast

(* Intents are recorded in index order, for as long as nothing is recorded *)
(* above the entry that declares the calls.                                *)
LEMMA IntentReady ==
    ASSUME TaskTypeOK, Accounting, Chained, Ready, RejectedLast, RecordIntent \/ AllIntended
    PROVE  Ready'
<1>1. pending = <<>> /\ UNCHANGED <<journal, fault, settled, cur, turn, batch, failed>> /\ pc = "intents"
  BY DEF RecordIntent, AllIntended, At
<1>2. /\ JournalReady'
      /\ UNCHANGED <<entries, leaf, open, abortReq, attempts, retry, steps, started, done, history>>
      /\ Present' = Present /\ AllRecorded' = AllRecorded
      /\ \A s : Recorded(s)' = Recorded(s)
      /\ ~Starting /\ ~Writing
  BY <1>1, StepSame
<1>3. NothingRefused'
  BY <1>1 DEF Ready, NothingRefused
<1>4. DOMAIN pending = {}
  BY <1>1
<1>5. /\ leaf = AssistantEntry(cur, turn)
      /\ \A i \in Nat : ~Recorded(Call(i))
      /\ \A i \in Nat : i < next /\ i \notin batch.rejected => Call(i) \in started
  BY <1>1, <1>2, <1>4 DEF Chained, TaskOK, IntentsOK, Recorded
<1>6. /\ turn > 0 /\ batch \in Batches /\ ~failed
      /\ AssistantEntry(cur, turn) \in Present /\ entries[AssistantEntry(cur, turn)].calls = batch.n
      /\ \A s \in started :
            Recorded(s) \/ \E i \in Nat : i < batch.n /\ i \notin batch.rejected /\ s = Call(i)
      /\ \A i \in Nat : i >= next => Call(i) \notin started
  BY <1>1, <1>2 DEF Ready, TaskReady, BatchReady
<1>7. next \in Nat /\ turn \in Nat /\ cur \in Runs /\ open = cur
  BY <1>1, <1>2, GenerationPCs DEF TaskTypeOK, TypeOK, CurIsRun, Chained, TaskOK, CurOpen
<1>8. \A i : Call(i)' = Call(i)
  BY <1>1 DEF Call
<1>9. pc' \in {"intents", "join"} => RunReady' /\ RecoverReady'
  BY <1>1, RunStays, GenerationStep, GenerationPCs
<1>10. \A i \in Nat : Declaring(Call(i)) = AssistantEntry(cur, turn) /\ Call(i).ix = i /\ Call(i).run = cur
  BY DEF Call, Declaring, AssistantEntry
<1>11. CASE RecordIntent
  <2>1. /\ next < batch.n /\ next' = next + 1 /\ pc' = "intents"
        /\ IF next \in batch.rejected THEN pending' = <<>>
           ELSE pending' = <<[op |-> "ToolStarted", slot |-> Call(next)]>>
    BY <1>1, <1>11 DEF RecordIntent, Goto, Park
  <2>2. \A i \in Nat : i >= next' => i >= next
    BY <1>7, <2>1
  <2>3. BatchReady'
    BY <1>1, <1>2, <1>6, <1>8, <2>1, <2>2 DEF BatchReady
  <2>4. CASE next \in batch.rejected
    BY <1>2, <1>3, <1>9, <2>1, <2>3, <2>4, NoneReady DEF Ready, TaskReady
  <2>5. CASE next \notin batch.rejected
    <3> PICK s : s = Call(next)
      OBVIOUS
    <3> PICK p : p = [op |-> "ToolStarted", slot |-> s]
      OBVIOUS
    <3>1. p.op = "ToolStarted" /\ p.slot = s /\ pending' = <<p>>
      BY <2>1, <2>5
    <3>2. ToolStartedGuard(s)
      BY <1>6, <1>7, <1>10, <2>1 DEF ToolStartedGuard
    <3>3. s.ix > 0 => Predecessor(s) \in started /\ ~Recorded(Predecessor(s))
      <4> HAVE s.ix > 0
      <4>1. PICK k \in Nat : k = next - 1
        BY <1>7, <1>10
      <4>2. k < next /\ k \notin batch.rejected
        BY <1>6, <1>7, <2>1, <2>5, <4>1, BeforeRejected
      <4>3. Predecessor(s) = Call(k)
        BY <4>1 DEF Predecessor, Call
      <4> QED BY <1>5, <4>2, <4>3
    <3>4. NextOnLeaf(s)
      <4>1. CASE s.ix > 0
        BY <3>3, <4>1 DEF NextOnLeaf
      <4>2. CASE s.ix = 0
        BY <1>5, <1>7, <1>10, <4>2 DEF NextOnLeaf, ChainParent
      <4> QED BY <1>7, <1>10, <4>1, <4>2
    <3>5. ToolStartedGuard(s)' /\ NextOnLeaf(s)'
      <4>1. ToolStartedGuard(s)'
        BY <1>2, <3>2 DEF ToolStartedGuard, Declaring, AssistantEntry
      <4> QED BY <1>1, <3>4, <4>1, StepSame
    <3>6. \E i \in Nat : i < next' /\ i < batch'.n /\ i \notin batch'.rejected /\ s = Call(i)'
      BY <1>1, <1>7, <1>8, <2>1, <2>5
    <3>7. StartReady(s)'
      BY <1>2, <2>1, <3>3, <3>5, <3>6 DEF StartReady, Predecessor
    <3>8. ParkReady(p)'
      BY <3>1, <3>7 DEF ParkReady
    <3> QED BY <1>2, <1>3, <1>9, <2>1, <2>3, <3>1, <3>8, OneReady DEF Ready, TaskReady
  <2> QED BY <2>4, <2>5
<1>12. CASE AllIntended
  <2>1. pc' = "join" /\ next' = 0 /\ pending' = <<>>
    BY <1>1, <1>12 DEF AllIntended, Goto
  <2>2. ~Writing'
    BY <2>1 DEF Writing
  <2>3. Filled(0)'
    <3>1. ChainParent(Call(0))' = AssistantEntry(cur, turn)
      BY <1>1 DEF ChainParent, Call, Declaring, AssistantEntry
    <3>2. \A i \in Nat : ~Recorded(Call(i))'
      BY <1>2, <1>5, <1>8 DEF Recorded, Result
    <3> QED BY <1>2, <1>5, <3>1, <3>2 DEF Filled
  <2>4. \E k \in Nat :
              /\ Filled(k)'
              /\ k <= next'
              /\ \A i \in Nat : ~ (i < next')
    BY <2>1, <2>3
  <2>5. BatchReady'
    BY <1>1, <1>2, <1>6, <1>8, <2>1, <2>2, <2>4 DEF BatchReady
  <2> QED BY <1>2, <1>3, <1>9, <2>1, <2>5, NoneReady DEF Ready, TaskReady
<1> QED BY <1>11, <1>12

(* In an unbroken batch a result is chained onto the one before it.        *)
LEMMA ChainedParent ==
    ASSUME TaskTypeOK, cur \in Runs, NEW i \in Nat, i > 0 => Call(i - 1) \in started,
           NEW parent \in ResultParents(Call(i))
    PROVE  parent = ChainParent(Call(i))
<1>1. Call(i).run = cur /\ Call(i).turn = turn /\ Call(i).ix = i
  BY DEF Call
<1>2. \A t \in started : t.ix \in Nat /\ t = [run |-> t.run, turn |-> t.turn, ix |-> t.ix]
  BY SlotIds DEF TaskTypeOK, TypeOK, JournalTypeOK
<1>3. CASE i = 0
  <2>1. Lower(Call(i)) = {}
    BY <1>1, <1>2, <1>3 DEF Lower
  <2> QED BY <1>1, <1>3, <2>1 DEF ResultParents, ChainParent
<1>4. CASE i > 0
  <2>1. PICK k \in Nat : k = i - 1
    BY <1>4
  <2>2. Call(k) \in Lower(Call(i)) /\ Call(k).ix = k
    BY <1>1, <1>4, <2>1 DEF Lower, Call
  <2>3. PICK u \in Lower(Call(i)) : parent = Result(u) /\ \A v \in Lower(Call(i)) : v.ix <= u.ix
    BY <2>2 DEF ResultParents
  <2>4. u \in started /\ u.run = cur /\ u.turn = turn /\ u.ix < i /\ k <= u.ix /\ u.ix \in Nat
    BY <1>1, <1>2, <2>2, <2>3 DEF Lower
  <2>5. u.ix = k
    BY <2>1, <2>4
  <2>6. u = Call(k)
    BY <1>2, <2>4, <2>5 DEF Call
  <2>7. Predecessor(Call(i)) = Call(k)
    BY <2>1 DEF Predecessor, Call
  <2> QED BY <1>1, <1>4, <2>3, <2>6, <2>7 DEF ChainParent
<1> QED BY <1>3, <1>4

(* What the task knows of its batch once the intents are recorded.         *)
LEMMA BatchFacts ==
    ASSUME TaskTypeOK, Accounting, Chained, Ready, pending = <<>>, pc \in {"join", "persist"}
    PROVE  /\ turn > 0 /\ batch \in Batches /\ batch.n \in Nat \ {0}
           /\ AssistantEntry(cur, turn) \in Present /\ entries[AssistantEntry(cur, turn)].calls = batch.n
           /\ next \in Nat /\ turn \in Nat /\ cur \in Runs /\ open = cur
           /\ \E k \in Nat :
                 /\ Filled(k)
                 /\ pc = "join" => k <= next
                 /\ \A i \in Nat : i < next /\ (pc = "persist" \/ i \notin batch.rejected) => i < k
           /\ pc = "join" =>
                 /\ ~failed
                 /\ \A s \in started :
                       Recorded(s) \/ \E i \in Nat : i < batch.n /\ i \notin batch.rejected /\ s = Call(i)
                 /\ \A i \in Nat : i < batch.n /\ i \notin batch.rejected => Call(i) \in started
<1>1. ~Writing /\ ~Starting
  BY GateEmpty
<1>2. next \in Nat /\ turn \in Nat /\ cur \in Runs /\ open = cur
  BY <1>1, GenerationPCs DEF TaskTypeOK, TypeOK, CurIsRun, Chained, TaskOK, CurOpen
<1>3. /\ turn > 0 /\ batch \in Batches
      /\ AssistantEntry(cur, turn) \in Present /\ entries[AssistantEntry(cur, turn)].calls = batch.n
  BY DEF Ready, TaskReady, BatchReady
<1>4. \E k \in Nat :
         /\ Filled(k)
         /\ pc = "join" => k <= next
         /\ \A i \in Nat : i < next /\ (pc = "persist" \/ i \notin batch.rejected) => i < k
  BY <1>1 DEF Ready, TaskReady, BatchReady
<1>5. pc = "join" =>
         /\ ~failed
         /\ \A s \in started :
               Recorded(s) \/ \E i \in Nat : i < batch.n /\ i \notin batch.rejected /\ s = Call(i)
  BY DEF Ready, TaskReady, BatchReady
<1>6. pc = "join" => \A i \in Nat : i < batch.n /\ i \notin batch.rejected => Call(i) \in started
  BY DEF Chained, TaskOK, JoinOK
<1>7. batch.n \in Nat \ {0}
  BY <1>3, BatchesAssumption
<1> QED BY <1>2, <1>3, <1>4, <1>5, <1>6, <1>7

(* Results are recorded in index order, each on the one before it.         *)
LEMMA JoinReady ==
    ASSUME TaskTypeOK, Accounting, Chained, Ready, Undisturbed,
           JoinResult \/ JoinFailure \/ JoinRejected \/ Joined
    PROVE  Ready'
<1>1. pending = <<>> /\ UNCHANGED <<journal, fault, cur, turn, batch>> /\ pc = "join"
  BY DEF JoinResult, JoinFailure, JoinRejected, Joined, At
<1>2. /\ JournalReady'
      /\ UNCHANGED <<entries, leaf, open, abortReq, attempts, retry, steps, started, done, history>>
      /\ Present' = Present /\ AllRecorded' = AllRecorded /\ Unpaid' = Unpaid
      /\ \A s : Recorded(s)' = Recorded(s)
      /\ ~Starting /\ ~Writing
  BY <1>1, StepSame
<1>3. NothingRefused'
  BY <1>1 DEF Ready, NothingRefused
<1>4. /\ turn > 0 /\ batch \in Batches /\ batch.n \in Nat \ {0}
      /\ AssistantEntry(cur, turn) \in Present /\ entries[AssistantEntry(cur, turn)].calls = batch.n
      /\ next \in Nat /\ turn \in Nat /\ cur \in Runs /\ open = cur
      /\ ~failed
      /\ \A s \in started :
            Recorded(s) \/ \E i \in Nat : i < batch.n /\ i \notin batch.rejected /\ s = Call(i)
      /\ \A i \in Nat : i < batch.n /\ i \notin batch.rejected => Call(i) \in started
  BY <1>1, BatchFacts
<1>5. PICK k \in Nat :
         /\ Filled(k)
         /\ k <= next
         /\ \A i \in Nat : i < next /\ i \notin batch.rejected => i < k
  BY <1>1, BatchFacts
<1>6. \A i : Call(i)' = Call(i)
  BY <1>1 DEF Call
<1>7. Filled(k)'
  <2>1. ChainParent(Call(k))' = ChainParent(Call(k))
    BY <1>1 DEF ChainParent, Call, Declaring, AssistantEntry, Result, Predecessor
  <2>2. \A i \in Nat : Recorded(Call(i))' = Recorded(Call(i))
    BY <1>2, <1>6 DEF Recorded, Result
  <2> QED BY <1>2, <1>5, <2>1, <2>2 DEF Filled
<1>8. pc' \in {"join", "persist"} /\ (pc' = "persist" => AllRecorded) => RunReady' /\ RecoverReady'
  BY <1>1, RunStays, GenerationStep, GenerationPCs
<1>9. CASE JoinResult
  <2> PICK s : s = Call(next)
    OBVIOUS
  <2>1. next < batch.n /\ next \notin batch.rejected /\ next' = next + 1 /\ settled' = settled \cup {s} /\ failed' = failed
    BY <1>9 DEF JoinResult
  <2>2. \A i \in Nat : i < next => i \notin batch.rejected
    BY <1>4, <2>1, BeforeRejected DEF Undisturbed
  <2>3. k = next
    <3>1. CASE next = 0
      BY <1>5, <3>1
    <3>2. CASE next > 0
      <4>1. PICK i \in Nat : i = next - 1
        BY <1>4, <3>2
      <4>2. i < k
        BY <1>4, <1>5, <2>2, <4>1
      <4> QED BY <1>4, <1>5, <4>1, <4>2
    <3> QED BY <1>4, <3>1, <3>2
  <2>4. ~Recorded(s) /\ leaf = ChainParent(s) /\ s \in started /\ s \in Slots
    BY <1>4, <1>5, <2>1, <2>3, CallTypes DEF Filled
  <2>5. s \notin done
    BY <2>4 DEF Ready, JournalReady, ToolsOrdered
  <2>6. PICK parent \in ResultParents(s) :
           pc' = "join" /\ pending' = <<Write(Result(s), parent), [op |-> "ToolFinished", slot |-> s]>>
    BY <1>9, <2>5 DEF JoinResult, Park
  <2>7. parent = leaf
    <3>1. next > 0 => Call(next - 1) \in started
      <4> HAVE next > 0
      <4>1. PICK i \in Nat : i = next - 1
        BY <1>4
      <4>2. i < batch.n /\ i \notin batch.rejected
        BY <1>4, <2>1, <2>2, <4>1
      <4> QED BY <1>4, <4>1, <4>2
    <3> QED BY <1>4, <2>4, <2>6, <3>1, ChainedParent
  <2> PICK e : e = Write(Result(s), leaf)
    OBVIOUS
  <2> PICK f : f = [op |-> "ToolFinished", slot |-> s]
    OBVIOUS
  <2>8. /\ e.op = "Entry" /\ e.id = Result(s) /\ e.parent = leaf /\ e.id.kind = "tool"
        /\ f.op = "ToolFinished" /\ f.slot = s
    BY <2>4, SlotIds DEF Write
  <2>9. pending' = <<e, f>>
    BY <2>6, <2>7
  <2>10. /\ pending'[1] = e /\ pending'[2] = f /\ 1 \in DOMAIN pending' /\ 2 \in DOMAIN pending'
    BY <2>9
  <2>11. Writing'
    BY <2>8, <2>10 DEF Writing
  <2>12. BatchReady'
    <3>1. /\ k = next' - 1 /\ k <= next'
          /\ \A i \in Nat : i < next' => i < k \/ i = next' - 1
      BY <1>4, <2>1, <2>3
    <3>2. \E j \in Nat :
            /\ Filled(j)' /\ j = next' - 1 /\ j <= next'
            /\ \A i \in Nat : i < next' => i < j \/ i = next' - 1
      BY <1>7, <3>1
    <3> QED BY <1>1, <1>2, <1>4, <1>6, <2>1, <2>6, <2>11, <3>2 DEF BatchReady
  <2>14. ParkReady(e)'
    <3>1. next' > 0 /\ (e.id = Result(Call(next - 1)))'
      <4>1. next' - 1 = next /\ next' > 0
        BY <1>4, <2>1
      <4>2. e.id = Result(Call(next))
        BY <2>8
      <4> QED BY <1>1, <4>1, <4>2 DEF Call, Result
    <3>2. \E c \in Slots : e.id = Result(c) /\ leaf = ChainParent(c)
      BY <2>4, <2>8
    <3>3. e.id \notin Present
      BY <2>4, <2>8 DEF Recorded
    <3>4. EntryReady(e)'
      BY <1>2, <2>6, <2>8, <3>1, <3>2, <3>3 DEF EntryReady, ChainParent, Result, Declaring,
            AssistantEntry, Predecessor
    <3> QED BY <2>8, <3>4 DEF ParkReady
  <2>15. ParkReady(f)'
    <3>1. s.run = open /\ s \in Unpaid
      BY <1>4, <2>4, <2>5 DEF Call, Unpaid
    <3> QED BY <1>2, <2>6, <2>8, <2>10, <3>1 DEF ParkReady, FinishReady, Recorded, Result
  <2>16. PendingReady'
    BY <2>8, <2>9, <2>14, <2>15, TwoReady
  <2> QED BY <1>2, <1>3, <1>8, <2>6, <2>12, <2>16 DEF Ready, TaskReady
<1>10. CASE JoinFailure
  BY <1>10 DEF JoinFailure, Undisturbed
<1>11. CASE JoinRejected
  <2>1. /\ next \in batch.rejected /\ next' = next + 1 /\ pc' = "join" /\ pending' = <<>>
        /\ settled' = settled /\ failed' = failed
    BY <1>1, <1>11 DEF JoinRejected, Goto
  <2>2. ~Writing'
    BY <2>1 DEF Writing
  <2>3. \A i \in Nat : i < next' /\ i \notin batch.rejected => i < next /\ i \notin batch.rejected
    <3>1. \A i \in Nat : i < next' => i < next \/ i = next
      BY <1>4, <2>1
    <3> QED BY <2>1, <3>1
  <2>4. k <= next'
    BY <1>4, <1>5, <2>1
  <2>5. BatchReady'
    BY <1>1, <1>2, <1>4, <1>5, <1>6, <1>7, <2>1, <2>2, <2>3, <2>4 DEF BatchReady
  <2> QED BY <1>2, <1>3, <1>8, <2>1, <2>5, NoneReady DEF Ready, TaskReady
<1>12. CASE Joined
  <2>1. next = batch.n /\ pc' = "persist" /\ pending' = <<>> /\ next' = 0 /\ settled' = settled
    BY <1>1, <1>4, <1>12 DEF Joined, Goto
  <2>2. ~Writing'
    BY <2>1 DEF Writing
  <2>3. AllRecorded
    BY <1>4, <1>5, <2>1 DEF AllRecorded, Filled
  <2>4. \A i \in Nat : ~(i < next')
    BY <2>1
  <2>5. BatchReady'
    BY <1>1, <1>2, <1>4, <1>7, <2>1, <2>2, <2>4 DEF BatchReady
  <2> QED BY <1>2, <1>3, <1>8, <2>1, <2>3, <2>5, NoneReady DEF Ready, TaskReady
<1> QED BY <1>9, <1>10, <1>11, <1>12

(* The results that are missing are written in index order on the leaf.    *)
LEMMA PersistReady ==
    ASSUME TaskTypeOK, Accounting, Chained, Ready, PersistResult \/ BatchPersisted
    PROVE  Ready'
<1>1. pending = <<>> /\ UNCHANGED <<journal, fault, cur, turn, batch, failed, settled>> /\ pc = "persist"
  BY DEF PersistResult, BatchPersisted, At
<1>2. /\ JournalReady'
      /\ UNCHANGED <<entries, leaf, open, abortReq, attempts, retry, steps, started, done, history>>
      /\ Present' = Present /\ AllRecorded' = AllRecorded
      /\ \A s : Recorded(s)' = Recorded(s)
      /\ ~Starting /\ ~Writing
  BY <1>1, StepSame
<1>3. NothingRefused'
  BY <1>1 DEF Ready, NothingRefused
<1>4. /\ turn > 0 /\ batch \in Batches /\ batch.n \in Nat \ {0}
      /\ AssistantEntry(cur, turn) \in Present /\ entries[AssistantEntry(cur, turn)].calls = batch.n
      /\ next \in Nat /\ turn \in Nat /\ cur \in Runs
  BY <1>1, BatchFacts
<1>5. PICK k \in Nat : Filled(k) /\ \A i \in Nat : i < next => i < k
  BY <1>1, BatchFacts
<1>6. \A i : Call(i)' = Call(i)
  BY <1>1 DEF Call
<1>7. Filled(k)'
  <2>1. ChainParent(Call(k))' = ChainParent(Call(k))
    BY <1>1 DEF ChainParent, Call, Declaring, AssistantEntry, Result, Predecessor
  <2>2. \A i \in Nat : Recorded(Call(i))' = Recorded(Call(i))
    BY <1>2, <1>6 DEF Recorded, Result
  <2> QED BY <1>2, <1>5, <2>1, <2>2 DEF Filled
<1>8. AllRecorded
  BY <1>1, GenerationPCs DEF Ready, TaskReady, RunReady
<1>9. CASE PersistResult
  <2> PICK s : s = Call(next)
    OBVIOUS
  <2>1. /\ next < batch.n /\ next' = next + 1 /\ pc' = "persist"
        /\ IF Recorded(s) THEN pending' = <<>> ELSE pending' = <<Write(Result(s), leaf)>>
    BY <1>1, <1>9 DEF PersistResult, Goto, Park, Recorded
  <2>2. RunReady' /\ RecoverReady'
    BY <1>1, <1>8, <2>1, RunStays, GenerationStep, GenerationPCs
  <2>3. CASE Recorded(s)
    <3>1. ~Writing' /\ pending' = <<>>
      BY <2>1, <2>3 DEF Writing
    <3>2. \A i \in Nat : i < next' => i < k
      <4>1. next < k
        BY <1>4, <1>5, <2>3 DEF Filled
      <4> QED BY <1>4, <2>1, <4>1
    <3>3. BatchReady'
      BY <1>1, <1>2, <1>4, <1>7, <2>1, <3>1, <3>2 DEF BatchReady
    <3> QED BY <1>2, <1>3, <2>2, <3>1, <3>3, NoneReady DEF Ready, TaskReady
  <2>4. CASE ~Recorded(s)
    <3>1. k = next
      <4>1. k <= next
        BY <1>4, <1>5, <2>4 DEF Filled
      <4>2. CASE next = 0
        BY <4>1, <4>2
      <4>3. CASE next > 0
        <5>1. PICK i \in Nat : i = next - 1
          BY <1>4, <4>3
        <5>2. i < k
          BY <1>4, <1>5, <5>1
        <5> QED BY <1>4, <4>1, <5>1, <5>2
      <4> QED BY <1>4, <4>2, <4>3
    <3>2. leaf = ChainParent(s) /\ s \in Slots
      BY <1>4, <1>5, <3>1, CallTypes DEF Filled
    <3> PICK e : e = Write(Result(s), leaf)
      OBVIOUS
    <3>3. e.op = "Entry" /\ e.id = Result(s) /\ e.parent = leaf /\ e.id.kind = "tool"
      BY <3>2, SlotIds DEF Write
    <3>4. pending' = <<e>>
      BY <2>1, <2>4
    <3>5. Writing'
      <4>1. 1 \in DOMAIN pending' /\ pending'[1] = e
        BY <3>4
      <4> QED BY <3>3, <4>1 DEF Writing
    <3>6. BatchReady'
      <4>1. k = next' - 1 /\ \A i \in Nat : i < next' => i < k \/ i = next' - 1
        BY <1>4, <2>1, <3>1
      <4>2. \E j \in Nat :
              /\ Filled(j)' /\ j = next' - 1
              /\ \A i \in Nat : i < next' => i < j \/ i = next' - 1
        BY <1>7, <4>1
      <4> QED BY <1>1, <1>2, <1>4, <2>1, <3>5, <4>2 DEF BatchReady
    <3>7. ParkReady(e)'
      <4>1. next' > 0 /\ (e.id = Result(Call(next - 1)))'
        <5>1. next' - 1 = next /\ next' > 0
          BY <1>4, <2>1
        <5>2. e.id = Result(Call(next))
          BY <3>3
        <5> QED BY <1>1, <5>1, <5>2 DEF Call, Result
      <4>2. \E c \in Slots : e.id = Result(c) /\ leaf = ChainParent(c)
        BY <3>2, <3>3
      <4>3. e.id \notin Present
        BY <2>4, <3>3 DEF Recorded
      <4>4. EntryReady(e)'
        BY <1>2, <2>1, <3>3, <4>1, <4>2, <4>3 DEF EntryReady, ChainParent, Result, Declaring,
              AssistantEntry, Predecessor
      <4> QED BY <3>3, <4>4 DEF ParkReady
    <3> QED BY <1>2, <1>3, <2>2, <3>4, <3>6, <3>7, OneReady DEF Ready, TaskReady
  <2> QED BY <2>3, <2>4
<1>10. CASE BatchPersisted
  <2>1. next = batch.n /\ pc' \in {"provider", "settle"} /\ pending' = <<>>
    BY <1>1, <1>10 DEF BatchPersisted, Goto
  <2>2. \A i \in Nat : i < entries[AssistantEntry(cur, turn)].calls => Recorded(Call(i))
    BY <1>4, <1>5, <2>1 DEF Filled
  <2>3. entries[AssistantEntry(cur, turn)].calls > 0
    BY <1>4
  <2>4. RunReady' /\ RecoverReady' /\ BatchReady'
    BY <1>1, <1>4, <1>8, <2>1, <2>2, <2>3, RunStays, GenerationStep, GenerationPCs DEF BatchReady
  <2> QED BY <1>2, <1>3, <2>1, <2>4, NoneReady DEF Ready, TaskReady
<1> QED BY <1>9, <1>10

LEMMA GenerateReady ==
    ASSUME TaskTypeOK, Accounting, Chained, Ready, Undisturbed, Generate
    PROVE  Ready'
  BY AcceptReady, ReplyReady, IntentReady, JoinReady, PersistReady DEF Generate, Undisturbed

(* At settlement a call of the last batch whose record is owed follows     *)
(* calls that are done.                                                    *)
LEMMA SettleFacts ==
    ASSUME TaskTypeOK, Accounting, Ready, cur \in Runs, Unrecorded = {},
           NEW s \in LastBatch \ done, \A t \in LastBatch \ done : s.ix <= t.ix
    PROVE  /\ s \in Slots /\ s.run = cur /\ Recorded(s)
           /\ Declaring(s) \in Present /\ s.ix < entries[Declaring(s)].calls
           /\ s.ix > 0 => Predecessor(s) \in started
<1>1. turn \in Nat /\ JournalTypeOK
  BY DEF TaskTypeOK, TypeOK
<1>2. PICK t \in TurnsWithTools : s \in CallsOf(t) /\ \A v \in TurnsWithTools : v <= t
  BY DEF LastBatch
<1>3. PICK n : n = entries[AssistantEntry(cur, t)].calls
  OBVIOUS
<1>4. t \in Nat /\ AssistantEntry(cur, t) \in Present /\ n \in Nat
  BY <1>1, <1>3 DEF TurnsWithTools, JournalTypeOK
<1>5. PICK i \in 0..(n - 1) : s = [run |-> cur, turn |-> t, ix |-> i]
  BY <1>2, <1>3 DEF CallsOf
<1>6. /\ s.run = cur /\ s.turn = t /\ s.ix = i /\ i \in Nat /\ i < n
      /\ s \in Slots /\ Declaring(s) = AssistantEntry(cur, t)
  BY <1>1, <1>4, <1>5 DEF Slots, Declaring
<1>7. Recorded(s)
  BY DEF Unrecorded, Recorded
<1>8. ASSUME s.ix > 0
      PROVE  Predecessor(s) \in started
  <2>1. PICK j \in 0..(n - 1) : j = i - 1
    BY <1>4, <1>6, <1>8
  <2>2. PICK p : p = [run |-> cur, turn |-> t, ix |-> j]
    OBVIOUS
  <2>3. Predecessor(s) = p /\ p.ix = j
    BY <1>5, <2>1, <2>2 DEF Predecessor
  <2>4. p \in CallsOf(t)
    BY <1>3, <2>2 DEF CallsOf
  <2>5. p \in LastBatch
    BY <1>2, <2>4 DEF LastBatch
  <2>6. p \in done
    BY <1>6, <2>1, <2>3, <2>5
  <2> QED BY <2>3, <2>6 DEF Accounting, Balanced, DoneStarted
<1> QED BY <1>3, <1>4, <1>6, <1>7, <1>8

LEMMA EndReady ==
    ASSUME TaskTypeOK, Accounting, Chained, Ready, End
    PROVE  Ready'
<1>1. /\ pending = <<>> /\ UNCHANGED <<journal, fault, cur, turn, batch, next, failed, settled>>
      /\ pc \in {"settle", "finish", "retry", "note", "fail", "fail-finish"}
      /\ pc \notin TraceSteps
  BY DEF End, SettleMissing, SettleCall, Settled, FinishCompleted, ScheduleRetry, NoteError, FailNote, FailFinish,
         At, TraceSteps
<1>2. /\ JournalReady'
      /\ UNCHANGED <<entries, leaf, open, abortReq, attempts, retry, steps, started, done, history>>
      /\ Present' = Present /\ AllRecorded' = AllRecorded /\ Unpaid' = Unpaid
      /\ \A s : Recorded(s)' = Recorded(s) /\ NextOnLeaf(s)' = NextOnLeaf(s)
      /\ ~Starting /\ ~Writing
  BY <1>1, StepSame
<1>3. NothingRefused'
  BY <1>1 DEF Ready, NothingRefused
<1>4. pc \in GenPCs /\ pc \in RunPCs /\ cur \in Runs /\ open = cur
  BY <1>1, <1>2, GenerationPCs DEF TaskTypeOK, CurIsRun, Chained, TaskOK, CurOpen
<1>5. /\ AllRecorded /\ (pc # "note" => retry = 0)
      /\ pc # "fail-finish" => ErrorEntry(cur) \notin Present
      /\ pc = "settle" /\ turn > 0 =>
            /\ AssistantEntry(cur, turn) \in Present /\ entries[AssistantEntry(cur, turn)].calls > 0
            /\ \A i \in Nat : i < entries[AssistantEntry(cur, turn)].calls => Recorded(Call(i))
  BY <1>1, <1>2, <1>4 DEF Ready, TaskReady, RunReady
<1>6. ASSUME pc' \in {"settle", "finish", "retry", "note", "fail", "fail-finish"},
             pc \notin {"note", "fail-finish"}, pc' = "settle" => pc = "settle"
      PROVE  RecoverReady' /\ RunReady' /\ BatchReady'
  <2>1. pc' \in GenPCs /\ pc' \notin TraceSteps
    BY <1>6, GenerationPCs
  <2>2. RunReady'
    BY <1>1, <1>4, <1>5, <1>6, <2>1, RunStays
  <2> QED BY <1>6, <2>1, <2>2, GenerationStep DEF BatchReady
<1>7. pc' = "idle" => RecoverReady' /\ RunReady' /\ BatchReady'
  BY GenerationStep, GenerationPCs DEF RunReady, BatchReady
<1>8. ASSUME NEW o \in Outcomes, Incomplete(cur) = {}, retry = 0, NEW p, p = Finished(cur, o)
      PROVE  ParkReady(p)'
  <2>1. p.op = "OperationFinished" /\ p.run = cur /\ p.outcome = o
    BY <1>8 DEF Finished
  <2>2. OperationFinishedGuard(p.run, p.outcome)'
    BY <1>2, <1>4, <1>8, <2>1 DEF OperationFinishedGuard, Incomplete
  <2> QED BY <1>2, <1>5, <2>1, <2>2 DEF ParkReady
<1>9. ASSUME ErrorEntry(cur) \notin Present, pc' \in {"idle", "fail-finish"},
             NEW e, e = Write(ErrorEntry(cur), leaf)
      PROVE  ParkReady(e)'
  <2>1. e.op = "Entry" /\ e.id = ErrorEntry(cur) /\ e.parent = leaf /\ e.id.kind = "error"
    BY <1>9 DEF Write, ErrorEntry
  <2>2. EntryReady(e)'
    BY <1>2, <1>5, <1>9, <2>1, GenerationPCs DEF EntryReady
  <2> QED BY <2>1, <2>2 DEF ParkReady
<1>10. CASE SettleMissing
  <2>1. pc = "settle" /\ pc' = "fail" /\ pending' = <<>>
    BY <1>1, <1>10 DEF SettleMissing, At, Goto
  <2> QED BY <1>2, <1>3, <1>6, <2>1, NoneReady DEF Ready, TaskReady
<1>11. CASE SettleCall
  <2>1. pc = "settle" /\ pc' = "settle" /\ Unrecorded = {}
    BY <1>11 DEF SettleCall, At, Park
  <2>2. PICK s \in LastBatch \ done :
          /\ \A t \in LastBatch \ done : s.ix <= t.ix
          /\ pending' = <<[op |-> IF s \in started THEN "ToolFinished" ELSE "ToolStarted", slot |-> s]>>
    BY <1>11 DEF SettleCall, Park
  <2>3. /\ s \in Slots /\ s.run = cur /\ Recorded(s)
        /\ Declaring(s) \in Present /\ s.ix < entries[Declaring(s)].calls
        /\ s.ix > 0 => Predecessor(s) \in started
    BY <1>4, <2>1, <2>2, SettleFacts
  <2> PICK p : p = [op |-> IF s \in started THEN "ToolFinished" ELSE "ToolStarted", slot |-> s]
    OBVIOUS
  <2>4. pending' = <<p>> /\ p.slot = s
    BY <2>2
  <2>5. ParkReady(p)'
    <3>1. CASE s \in started
      <4>1. p.op = "ToolFinished" /\ s \in Unpaid
        BY <2>2, <3>1 DEF Unpaid
      <4>2. FinishReady(s)'
        BY <1>2, <1>4, <2>1, <2>3, <4>1 DEF FinishReady, Recorded, Result
      <4> QED BY <2>4, <4>1, <4>2 DEF ParkReady
    <3>2. CASE s \notin started
      <4>1. p.op = "ToolStarted"
        BY <3>2
      <4>2. NextOnLeaf(s)' /\ Recorded(s)'
        BY <1>2, <2>3 DEF NextOnLeaf
      <4>3. ToolStartedGuard(s)'
        BY <1>2, <1>4, <2>3, <3>2 DEF ToolStartedGuard, Declaring, AssistantEntry
      <4>4. StartReady(s)'
        BY <1>2, <2>1, <2>3, <4>2, <4>3 DEF StartReady, Predecessor
      <4> QED BY <2>4, <4>1, <4>4 DEF ParkReady
    <3> QED BY <3>1, <3>2
  <2> QED BY <1>2, <1>3, <1>6, <2>1, <2>4, <2>5, OneReady DEF Ready, TaskReady
<1>12. CASE Settled
  <2>1. verdict \in {"ok", "retryable", "error"}
    BY DEF TaskTypeOK, TypeOK
  <2>2. pc = "settle" /\ pc' \in {"finish", "retry", "fail"} /\ pending' = <<>>
    BY <1>1, <1>12, <2>1 DEF Settled, At, Goto
  <2> QED BY <1>2, <1>3, <1>6, <2>2, NoneReady DEF Ready, TaskReady
<1>13. CASE FinishCompleted
  <2> PICK f : f = Finished(cur, "Completed")
    OBVIOUS
  <2>1. pc = "finish"
    BY <1>13 DEF FinishCompleted, At
  <2>2. CASE Incomplete(cur) = {}
    <3>1. pc' = "idle" /\ pending' = <<f>>
      BY <1>13, <2>2 DEF FinishCompleted, Park
    <3>2. ParkReady(f)'
      BY <1>5, <1>8, <2>1, <2>2 DEF Outcomes
    <3> QED BY <1>2, <1>3, <1>7, <3>1, <3>2, OneReady DEF Ready, TaskReady
  <2>3. CASE Incomplete(cur) # {}
    <3>1. pc' = "note" /\ pending' = <<>>
      BY <1>1, <1>13, <2>3 DEF FinishCompleted, Goto
    <3> QED BY <1>2, <1>3, <1>6, <2>1, <3>1, NoneReady DEF Ready, TaskReady
  <2> QED BY <2>2, <2>3
<1>14. CASE ScheduleRetry
  <2> PICK p : p = [op |-> "RetryScheduled", run |-> cur, attempt |-> attempts + 1]
    OBVIOUS
  <2>1. pc = "retry"
    BY <1>14 DEF ScheduleRetry, At
  <2>2. CASE retry = 0 /\ attempts + 1 <= MaxAttempts
    <3>1. pc' = "note" /\ pending' = <<p>> /\ p.op = "RetryScheduled" /\ p.run = cur /\ p.attempt = attempts + 1
      BY <1>14, <2>2 DEF ScheduleRetry, Park
    <3>2. ParkReady(p)'
      BY <1>2, <1>4, <2>2, <3>1 DEF ParkReady
    <3> QED BY <1>2, <1>3, <1>6, <2>1, <3>1, <3>2, OneReady DEF Ready, TaskReady
  <2>3. CASE ~(retry = 0 /\ attempts + 1 <= MaxAttempts)
    <3>1. pc' = "fail" /\ pending' = <<>>
      BY <1>1, <1>14, <2>3 DEF ScheduleRetry, Goto
    <3> QED BY <1>2, <1>3, <1>6, <2>1, <3>1, NoneReady DEF Ready, TaskReady
  <2> QED BY <2>2, <2>3
<1>15. CASE NoteError
  <2> PICK e : e = Write(ErrorEntry(cur), leaf)
    OBVIOUS
  <2>1. pc = "note" /\ pc' = "idle" /\ pending' = <<e>>
    BY <1>15 DEF NoteError, At, Park
  <2>2. ParkReady(e)'
    BY <1>5, <1>9, <2>1
  <2> QED BY <1>2, <1>3, <1>7, <2>1, <2>2, OneReady DEF Ready, TaskReady
<1>16. CASE FailNote
  <2> PICK e : e = Write(ErrorEntry(cur), leaf)
    OBVIOUS
  <2>1. pc = "fail" /\ pc' = "fail-finish" /\ pending' = <<e>>
    BY <1>16 DEF FailNote, At, Park
  <2>2. ParkReady(e)'
    BY <1>5, <1>9, <2>1
  <2> QED BY <1>2, <1>3, <1>6, <2>1, <2>2, OneReady DEF Ready, TaskReady
<1>17. CASE FailFinish
  <2> PICK f : f = Finished(cur, "Failed")
    OBVIOUS
  <2>1. pc = "fail-finish" /\ pc' = "idle"
    BY <1>17 DEF FailFinish, At, Park, Goto
  <2>2. CASE Incomplete(cur) = {}
    <3>1. pending' = <<f>>
      BY <1>17, <2>2 DEF FailFinish, Park
    <3>2. ParkReady(f)'
      BY <1>5, <1>8, <2>1, <2>2 DEF Outcomes
    <3> QED BY <1>2, <1>3, <1>7, <2>1, <3>1, <3>2, OneReady DEF Ready, TaskReady
  <2>3. CASE Incomplete(cur) # {}
    <3>1. pending' = <<>>
      BY <1>1, <1>17, <2>3 DEF FailFinish, Goto
    <3> QED BY <1>2, <1>3, <1>7, <2>1, <3>1, NoneReady DEF Ready, TaskReady
  <2> QED BY <2>2, <2>3
<1> QED BY <1>10, <1>11, <1>12, <1>13, <1>14, <1>15, <1>16, <1>17 DEF End

-----------------------------------------------------------------------------

LEMMA ReadyStep ==
    ASSUME TaskTypeOK, Accounting, Chained, Ready, Undisturbed, [Next]_vars
    PROVE  Ready'
<1>1. CASE Commit
  BY <1>1, CommitReady
<1>2. CASE Step
  BY <1>2, RecoverReadyStep, GenerateReady, EndReady DEF Step, Undisturbed
<1>3. CASE Reject \/ HandleFaulted \/ Prompt \/ OtherParks \/ OtherCommits \/ Stop \/ Crash
  BY <1>3, ReadyAround
<1>4. CASE UNCHANGED vars
  BY <1>4, ReadyFrame DEF vars, journal, record
<1> QED BY <1>1, <1>2, <1>3, <1>4 DEF Next, Driven

LEMMA ReadyAlways ==
    ASSUME Undisturbed
    PROVE  Spec => []Ready
<1>1. Init => TaskTypeOK /\ Accounting /\ Chained /\ Ready
  BY TaskInit, AccountingInit, ChainedInit, ReadyInit
<1>2. TaskTypeOK /\ Accounting /\ Chained /\ Ready /\ [Next]_vars
      => (TaskTypeOK /\ Accounting /\ Chained /\ Ready)'
  BY TaskTyped, AccountingStep, ChainedStep, ReadyStep
<1> QED BY <1>1, <1>2, PTL DEF Spec

(* When no tool task dies, the rejected calls of a batch come last and no  *)
(* message is queued that a recovery would cancel, every append that a     *)
(* procedure of the task computes passes the reducer's guard, wherever a   *)
(* stop or a crash cut the runs before.  The runs siblings and wedged show *)
(* what happens without the first two.                                     *)
THEOREM AppendsAccepted ==
    ASSUME Undisturbed
    PROVE  Spec => []NothingRefused
<1>1. Ready => NothingRefused
  BY DEF Ready
<1> QED BY <1>1, ReadyAlways, PTL

-----------------------------------------------------------------------------
(* What a batch commits whatever fails in it.                              *)

(* Tools are started for declared calls, and completed once recorded.      *)
SlotsKnown ==
    /\ \A s \in started : Declaring(s) \in Present /\ entries[Declaring(s)].calls > 0
    /\ \A s \in done : Result(s) \in Present

(* No result is settled before the task has a run, nor of a later turn.    *)
SettledKnown ==
    /\ pc \in {"recover", "reconcile", "recover-finish", "accept"} => settled = {}
    /\ \A s \in settled : s.turn <= turn

(* Of the current batch only accepted calls have intents, in the order the *)
(* dispatcher reaches them, and only what has been joined is settled.      *)
BatchKnown ==
    /\ pc \in {"intents", "join"} => \A i \in Nat : Call(i) \in started => i \notin batch.rejected
    /\ pc = "intents" =>
          /\ \A i \in Nat : Call(i) \notin settled
          /\ \A j \in DOMAIN pending : pending[j].op = "ToolStarted" =>
                \E i \in Nat : pending[j].slot = Call(i) /\ i \notin batch.rejected
    /\ pc = "join" => \A i \in Nat : Call(i) \in settled => i < next

Finish(k) == [op |-> "ToolFinished", slot |-> Call(k)]

Parents(k) == {Declaring(Call(k)), PreviousResult(Call(k))}

(* The appends parked for the last call joined; those of an unbroken call  *)
(* will pass the guard.                                                    *)
RecordingNew(k) ==
    \E parent \in EntryIds :
        /\ pending = <<Write(Result(Call(k)), parent), Finish(k)>>
        /\ Unbroken(k) => Result(Call(k)) \notin Present /\ parent \in Present \cap Parents(k)

RecordedNew(k) ==
    /\ pending = <<Finish(k)>>
    /\ Unbroken(k) => Result(Call(k)) \in Present /\ entries[Result(Call(k))].parent \in Parents(k)

JoinParked ==
    pc = "join" /\ pending # <<>> =>
        \E k \in Nat : /\ k = next - 1 /\ Call(k) \in started /\ Call(k) \notin done
                       /\ (RecordingNew(k) \/ RecordedNew(k))

PrefixDone ==
    pc \in AfterJoin \cup {"join"} =>
        \A k \in Nat : k < batch.n /\ Call(k) \in settled /\ Unbroken(k) =>
            Call(k) \in done \/ (pc = "join" /\ pending # <<>> /\ k = next - 1)

Prefix == SlotsKnown /\ SettledKnown /\ BatchKnown /\ JoinParked /\ PrefixDone

(* The invariant reads nothing else.                                       *)
LEMMA PrefixFrame ==
    ASSUME Prefix, UNCHANGED <<entries, started, done, pc, pending, cur, turn, batch, next, settled>>
    PROVE  Prefix'
<1>1. Present' = Present /\ (\A i : Call(i)' = Call(i)) /\ (\A k : Unbroken(k)' = Unbroken(k))
  BY DEF Present, Call, Unbroken
<1>2. \A k : Finish(k)' = Finish(k) /\ Parents(k)' = Parents(k)
  BY <1>1 DEF Finish, Parents, PreviousResult
<1>3. SlotsKnown' /\ SettledKnown'
  BY <1>1 DEF Prefix, SlotsKnown, SettledKnown
<1>4. BatchKnown' /\ PrefixDone'
  BY <1>1 DEF Prefix, BatchKnown, PrefixDone
<1>5. \A k : RecordingNew(k)' = RecordingNew(k) /\ RecordedNew(k)' = RecordedNew(k)
  BY <1>1, <1>2 DEF RecordingNew, RecordedNew
<1>6. JoinParked'
  BY <1>1, <1>5 DEF Prefix, JoinParked
<1> QED BY <1>3, <1>4, <1>6 DEF Prefix

(* Away from the batch the invariant asks for nothing of the task.         *)
LEMMA PrefixAway ==
    ASSUME SlotsKnown, UNCHANGED <<entries, started, done>>,
           settled' = {} \/ (pc' = "idle" /\ UNCHANGED <<settled, turn>> /\ Prefix),
           pc' \in {"idle", "recover", "reconcile", "recover-finish", "accept"}
    PROVE  Prefix'
<1>1. Present' = Present /\ pc' \notin AfterJoin \cup {"intents", "join"}
  BY DEF Present, AfterJoin
<1>2. SlotsKnown'
  BY <1>1 DEF SlotsKnown
<1> QED BY <1>1, <1>2 DEF Prefix, SettledKnown, BatchKnown, JoinParked, PrefixDone

(* Steps after the join of a batch leave it as it is.                      *)
LEMMA PrefixLate ==
    ASSUME Prefix, pending = <<>>, UNCHANGED <<entries, started, done, cur, turn, batch, settled>>,
           pc \in AfterJoin \cup {"join"}, pc' \in AfterJoin
    PROVE  Prefix'
<1>1. Present' = Present /\ (\A i : Call(i)' = Call(i)) /\ (\A k : Unbroken(k)' = Unbroken(k))
  BY DEF Present, Call, Unbroken
<1>2. SlotsKnown'
  BY <1>1 DEF Prefix, SlotsKnown
<1>3. pc' \notin {"recover", "reconcile", "recover-finish", "accept", "intents", "join"}
  BY DEF AfterJoin
<1>4. PrefixDone'
  BY <1>1 DEF Prefix, PrefixDone
<1> QED BY <1>2, <1>3, <1>4 DEF Prefix, SettledKnown, BatchKnown, JoinParked

LEMMA PrefixInit == Init => Prefix
<1> SUFFICES ASSUME Init PROVE Prefix
  OBVIOUS
<1>1. started = {} /\ done = {} /\ settled = {} /\ pc = "idle"
  BY DEF Init, JournalInit
<1> QED BY <1>1 DEF Prefix, SlotsKnown, SettledKnown, BatchKnown, JoinParked, PrefixDone, AfterJoin

(* A refused append of the join is not one of an unbroken call.            *)
LEMMA PrefixRefused ==
    ASSUME TaskTypeOK, Chained, Prefix, Reject, pc = "join"
    PROVE  \A k \in Nat : k < batch.n /\ Call(k) \in settled /\ Unbroken(k) => Call(k) \in done
<1> SUFFICES ASSUME NEW k \in Nat, k < batch.n, Call(k) \in settled, Unbroken(k), Call(k) \notin done
             PROVE  FALSE
  OBVIOUS
<1>1. pending # <<>> /\ ~Guard(Head(pending))
  BY DEF Reject
<1>2. k = next - 1
  BY DEF Prefix, PrefixDone
<1>3. Call(k) \in started /\ (RecordingNew(k) \/ RecordedNew(k))
  BY <1>1, <1>2 DEF Prefix, JoinParked
<1>4. CASE RecordingNew(k)
  <2>1. PICK parent \in EntryIds :
            /\ pending = <<Write(Result(Call(k)), parent), Finish(k)>>
            /\ Result(Call(k)) \notin Present /\ parent \in Present
    BY <1>4 DEF RecordingNew
  <2>2. Head(pending) = Write(Result(Call(k)), parent)
    BY <2>1
  <2>3. EntryGuard(Head(pending)) /\ Head(pending).op = "Entry"
    BY <2>1, <2>2 DEF EntryGuard, Write
  <2> QED BY <1>1, <2>3 DEF Guard
<1>5. CASE RecordedNew(k)
  <2>1. /\ pending = <<Finish(k)>>
        /\ Result(Call(k)) \in Present /\ entries[Result(Call(k))].parent \in Parents(k)
    BY <1>5 DEF RecordedNew
  <2>2. Head(pending) = Finish(k) /\ pending[1] = Finish(k)
    BY <2>1
  <2>3. Head(pending).op = "ToolFinished" /\ Head(pending).slot = Call(k) /\ ~Starting
    BY <2>2 DEF Finish, Starting
  <2>4. open = cur
    BY <2>3 DEF Chained, TaskOK, CurOpen, RunPCs, PCs
  <2>5. Call(k).run = cur
    BY DEF Call
  <2>6. ToolFinishedGuard(Call(k))
    BY <1>3, <2>1, <2>4, <2>5 DEF ToolFinishedGuard, Parents
  <2> QED BY <1>1, <2>3, <2>6 DEF Guard
<1> QED BY <1>3, <1>4, <1>5

LEMMA PrefixAround ==
    ASSUME TaskTypeOK, Chained, Prefix,
           Reject \/ HandleFaulted \/ Prompt \/ OtherParks \/ OtherCommits \/ Stop \/ Crash
    PROVE  Prefix'
<1>0. SlotsKnown
  BY DEF Prefix
<1>1. CASE Reject
  <2>1. UNCHANGED <<entries, started, done, cur, turn, batch, settled>> /\ pending' = <<>>
        /\ pc' \in {"settle", "idle"}
    BY <1>1 DEF Reject, journal, Escalate
  <2>2. CASE pc' = "idle"
    BY <1>0, <2>1, <2>2, PrefixAway
  <2>3. CASE pc' = "settle"
    <3>1. pc \in GenPCs
      BY <1>1, <2>3 DEF Reject, Escalate, Chained, TaskOK, TraceGen
    <3>2. pc \in AfterJoin \cup {"intents", "join"}
      BY <3>1 DEF GenPCs, RunPCs, PCs, AfterJoin
    <3>3. Present' = Present /\ (\A i : Call(i)' = Call(i)) /\ (\A k : Unbroken(k)' = Unbroken(k))
      BY <2>1 DEF Present, Call, Unbroken
    <3>4. \A k \in Nat : k < batch.n /\ Call(k) \in settled /\ Unbroken(k) => Call(k) \in done
      <4>1. CASE pc = "join"
        BY <1>1, <4>1, PrefixRefused
      <4>2. CASE pc = "intents"
        BY <4>2 DEF Prefix, BatchKnown
      <4>3. CASE pc \in AfterJoin
        BY <4>3 DEF Prefix, PrefixDone, AfterJoin
      <4> QED BY <3>2, <4>1, <4>2, <4>3
    <3>5. SlotsKnown'
      BY <1>0, <2>1, <3>3 DEF SlotsKnown
    <3>6. PrefixDone'
      BY <2>1, <3>3, <3>4 DEF PrefixDone
    <3> QED BY <2>1, <2>3, <3>5, <3>6 DEF Prefix, SettledKnown, BatchKnown, JoinParked
  <2> QED BY <2>1, <2>2, <2>3
<1>2. CASE HandleFaulted
  <2>1. UNCHANGED <<entries, started, done, pending, cur, turn, batch, settled>> /\ pending = <<>>
    BY <1>2 DEF HandleFaulted, journal
  <2>2. CASE pc \in TraceSteps
    <3>1. pc' = "settle"
      BY <1>2, <2>2 DEF HandleFaulted, HandleOf, Escalate
    <3>2. CASE pc = "intents"
      <4>1. Present' = Present /\ (\A i : Call(i)' = Call(i))
        BY <2>1 DEF Present, Call
      <4>2. \A i \in Nat : Call(i)' \notin settled'
        BY <2>1, <3>2, <4>1 DEF Prefix, BatchKnown
      <4>3. SlotsKnown'
        BY <1>0, <2>1, <4>1 DEF SlotsKnown
      <4> QED BY <2>1, <3>1, <4>2, <4>3 DEF Prefix, SettledKnown, BatchKnown, JoinParked, PrefixDone
    <3>3. CASE pc # "intents"
      <4>1. pc \in AfterJoin \cup {"join"} /\ pc' \in AfterJoin
        BY <2>2, <3>1, <3>3 DEF TraceSteps, AfterJoin
      <4> QED BY <2>1, <4>1, PrefixLate
    <3> QED BY <3>2, <3>3
  <2>3. CASE pc \notin TraceSteps
    <3>1. pc' = "idle"
      BY <1>2, <2>3 DEF HandleFaulted, HandleOf, Escalate
    <3> QED BY <1>0, <2>1, <3>1, PrefixAway
  <2> QED BY <2>2, <2>3
<1>3. CASE Prompt \/ Stop \/ Crash
  <2>1. UNCHANGED <<entries, started, done>> /\ settled' = {} /\ pc' \in {"idle", "recover"}
    BY <1>3 DEF Prompt, Stop, Crash, NewTask, journal
  <2> QED BY <1>0, <2>1, PrefixAway
<1>4. CASE OtherParks
  <2>1. UNCHANGED <<entries, started, done, pc, pending, cur, turn, batch, next, settled>>
    BY <1>4 DEF OtherParks, journal, task
  <2> QED BY <2>1, PrefixFrame
<1>5. CASE OtherCommits
  <2>1. UNCHANGED <<record, task>>
    BY <1>5, OtherFrame DEF Chained
  <2>2. UNCHANGED <<entries, started, done, pc, pending, cur, turn, batch, next, settled>>
    BY <2>1 DEF record, task
  <2> QED BY <2>2, PrefixFrame
<1> QED BY <1>1, <1>2, <1>3, <1>4, <1>5

(* What a commit does to the slots and the entries.                        *)
LEMMA CommitSlots ==
    ASSUME TaskTypeOK, SlotsKnown, Commit
    PROVE  /\ SlotsKnown' /\ Present \subseteq Present' /\ done \subseteq done'
           /\ \A f \in Present : entries'[f] = entries[f]
           /\ Head(pending).op = "Entry" =>
                 /\ Present' = Present \cup {Head(pending).id}
                 /\ entries'[Head(pending).id].parent = Head(pending).parent
           /\ Head(pending).op = "ToolStarted" => started' = started \cup {Head(pending).slot}
           /\ Head(pending).op # "ToolStarted" => started' = started
           /\ Head(pending).op = "ToolFinished" => done' = done \cup {Head(pending).slot}
           /\ Head(pending).op # "ToolFinished" => done' = done
<1> PICK e : e = Head(pending)
  OBVIOUS
<1>1. Guard(e) /\ Apply(e) /\ JournalTypeOK
  BY DEF Commit, TaskTypeOK, TypeOK
<1>2. CASE e.op = "Entry"
  <2>1. EntryGuard(e) /\ CommitEntry(e)
    BY <1>1, <1>2 DEF Guard, Apply, CommitEntry, CommitStarted, CommitAbortRequested, CommitFinished,
       CommitStepAttempt, CommitRetryScheduled, CommitToolStarted, CommitToolFinished, CommitQueue
  <2>2. /\ Present' = Present \cup {e.id} /\ UNCHANGED <<started, done>>
        /\ entries'[e.id].parent = e.parent
        /\ \A f \in Present : entries'[f] = entries[f]
    BY <2>1 DEF CommitEntry, EntryGuard, Present
  <2>3. SlotsKnown'
    BY <2>2 DEF SlotsKnown
  <2> QED BY <1>2, <2>2, <2>3
<1>3. CASE e.op = "ToolStarted"
  <2>1. ToolStartedGuard(e.slot) /\ CommitToolStarted(e)
    BY <1>1, <1>3 DEF Guard, Apply, CommitEntry, CommitStarted, CommitAbortRequested, CommitFinished,
       CommitStepAttempt, CommitRetryScheduled, CommitToolStarted, CommitToolFinished, CommitQueue
  <2>2. started' = started \cup {e.slot} /\ UNCHANGED <<entries, done>> /\ Present' = Present
    BY <2>1 DEF CommitToolStarted, Present
  <2>3. Declaring(e.slot) \in Present /\ entries[Declaring(e.slot)].calls > 0
    <3>1. Head(pending) \in Effects
      BY HeadTail DEF Commit, TaskTypeOK, TypeOK
    <3>2. e.slot \in Slots
      BY <1>3, <3>1, EffectFields
    <3>3. e.slot.ix \in Nat
      BY <3>2 DEF Slots
    <3>4. entries[Declaring(e.slot)].calls \in Nat
      BY <1>1, <2>1 DEF JournalTypeOK, ToolStartedGuard
    <3> QED BY <2>1, <3>3, <3>4 DEF ToolStartedGuard
  <2>4. SlotsKnown'
    BY <2>2, <2>3 DEF SlotsKnown
  <2> QED BY <1>3, <2>2, <2>4
<1>4. CASE e.op = "ToolFinished"
  <2>1. ToolFinishedGuard(e.slot) /\ CommitToolFinished(e)
    BY <1>1, <1>4 DEF Guard, Apply, CommitEntry, CommitStarted, CommitAbortRequested, CommitFinished,
       CommitStepAttempt, CommitRetryScheduled, CommitToolStarted, CommitToolFinished, CommitQueue
  <2>2. done' = done \cup {e.slot} /\ UNCHANGED <<entries, started>> /\ Present' = Present
    BY <2>1 DEF CommitToolFinished, Present
  <2>3. SlotsKnown'
    BY <2>1, <2>2 DEF SlotsKnown, ToolFinishedGuard
  <2> QED BY <1>4, <2>2, <2>3
<1>5. CASE e.op \notin {"Entry", "ToolStarted", "ToolFinished"}
  <2>1. UNCHANGED <<entries, started, done>> /\ Present' = Present
    BY <1>1, <1>5 DEF Present, Guard, Apply, CommitEntry, CommitStarted, CommitAbortRequested, CommitFinished,
       CommitStepAttempt, CommitRetryScheduled, CommitToolStarted, CommitToolFinished, CommitQueue
  <2>2. SlotsKnown'
    BY <2>1 DEF SlotsKnown
  <2> QED BY <1>5, <2>1, <2>2
<1> QED BY <1>2, <1>3, <1>4, <1>5

LEMMA PrefixCommit ==
    ASSUME TaskTypeOK, Accounting, Chained, Prefix, Commit
    PROVE  Prefix'
<1> PICK e : e = Head(pending)
  OBVIOUS
<1>1. /\ pending' = Tail(pending) /\ pending # <<>> /\ pending \in Seq(Effects)
      /\ UNCHANGED <<pc, handle, cur, turn, batch, next, settled>>
      /\ next \in Nat
  BY DEF Commit, TaskTypeOK, TypeOK
<1>2. /\ SlotsKnown' /\ Present \subseteq Present' /\ done \subseteq done'
      /\ \A f \in Present : entries'[f] = entries[f]
      /\ e.op = "Entry" => Present' = Present \cup {e.id} /\ entries'[e.id].parent = e.parent
      /\ e.op = "ToolStarted" => started' = started \cup {e.slot}
      /\ e.op # "ToolStarted" => started' = started
      /\ e.op = "ToolFinished" => done' = done \cup {e.slot}
      /\ e.op # "ToolFinished" => done' = done
  BY CommitSlots DEF Prefix
<1>3. (\A i : Call(i)' = Call(i)) /\ (\A k : Unbroken(k)' = Unbroken(k)) /\ (\A k : Finish(k)' = Finish(k))
  BY <1>1 DEF Call, Unbroken, Finish
<1>4. /\ e = pending[1] /\ 1 \in DOMAIN pending
      /\ \A j \in DOMAIN pending' : j + 1 \in DOMAIN pending /\ pending'[j] = pending[j + 1]
  BY <1>1, TailPlaces
<1>5. SettledKnown'
  BY <1>1 DEF Prefix, SettledKnown
<1>6. CASE pc = "intents"
  <2>1. \A i \in Nat : Call(i) \in started' => i \notin batch.rejected
    <3>1. ASSUME e.op = "ToolStarted"
          PROVE  \E i \in Nat : e.slot = Call(i) /\ i \notin batch.rejected
      BY <1>4, <1>6, <3>1 DEF Prefix, BatchKnown
    <3>2. \A i, j \in Nat : Call(i) = Call(j) => i = j
      BY DEF Call
    <3> QED BY <1>2, <1>6, <3>1, <3>2 DEF Prefix, BatchKnown
  <2>2. BatchKnown'
    BY <1>1, <1>3, <1>4, <1>6, <2>1 DEF Prefix, BatchKnown
  <2> QED BY <1>1, <1>2, <1>5, <1>6, <2>2 DEF Prefix, JoinParked, PrefixDone, AfterJoin
<1>7. CASE pc = "join"
  <2>1. PICK k \in Nat : /\ k = next - 1 /\ Call(k) \in started /\ Call(k) \notin done
                         /\ RecordingNew(k) \/ RecordedNew(k)
    BY <1>1, <1>7 DEF Prefix, JoinParked
  <2>2. CASE RecordingNew(k)
    <3>1. PICK parent \in EntryIds :
              /\ pending = <<Write(Result(Call(k)), parent), Finish(k)>>
              /\ Unbroken(k) => parent \in Present \cap Parents(k)
      BY <2>2 DEF RecordingNew
    <3>2. e = Write(Result(Call(k)), parent) /\ pending' = <<Finish(k)>>
      BY <1>1, <3>1
    <3>3. e.op = "Entry" /\ e.id = Result(Call(k)) /\ e.parent = parent
      BY <3>2 DEF Write
    <3>4. UNCHANGED <<started, done>> /\ Result(Call(k)) \in Present'
          /\ entries'[Result(Call(k))].parent = parent
      BY <1>2, <3>3
    <3>5. Parents(k)' = Parents(k) /\ Result(Call(k))' = Result(Call(k))
      BY <1>3, <3>4 DEF Parents, PreviousResult
    <3>6. RecordedNew(k)'
      BY <1>3, <3>1, <3>2, <3>4, <3>5 DEF RecordedNew
    <3>7. pending' # <<>>
      BY <3>2
    <3>8. JoinParked'
      BY <1>1, <1>3, <2>1, <3>4, <3>6 DEF JoinParked
    <3>9. BatchKnown'
      BY <1>1, <1>3, <1>7, <3>4 DEF Prefix, BatchKnown
    <3>10. PrefixDone'
      BY <1>1, <1>3, <1>7, <3>4, <3>7 DEF Prefix, PrefixDone
    <3> QED BY <1>2, <1>5, <3>8, <3>9, <3>10 DEF Prefix
  <2>3. CASE RecordedNew(k)
    <3>1. e = Finish(k) /\ pending' = <<>>
      BY <1>1, <2>3 DEF RecordedNew
    <3>2. started' = started /\ Call(k) \in done'
      BY <1>2, <3>1 DEF Finish
    <3>3. BatchKnown'
      BY <1>1, <1>3, <1>7, <3>2 DEF Prefix, BatchKnown
    <3>4. PrefixDone'
      BY <1>1, <1>2, <1>3, <1>7, <2>1, <3>2 DEF Prefix, PrefixDone
    <3> QED BY <1>2, <1>5, <3>1, <3>3, <3>4 DEF Prefix, JoinParked
  <2> QED BY <2>1, <2>2, <2>3
<1>8. CASE pc \notin {"intents", "join"}
  <2>1. PrefixDone'
    BY <1>1, <1>2, <1>3, <1>8 DEF Prefix, PrefixDone
  <2> QED BY <1>1, <1>2, <1>5, <1>8, <2>1 DEF Prefix, BatchKnown, JoinParked
<1> QED BY <1>6, <1>7, <1>8

(* The parent computed for an unbroken call is the result just below it,   *)
(* which is in the transcript, or the declaring entry.                     *)
LEMMA UnbrokenParent ==
    ASSUME TaskTypeOK, Chained, Prefix, pc = "join", pending = <<>>, next < batch.n,
           next \notin batch.rejected, Unbroken(next),
           NEW parent \in ResultParents(Call(next))
    PROVE  Result(Call(next)) \notin Present /\ parent \in Present \cap Parents(next)
<1>1. next \in Nat /\ cur \in Runs /\ turn \in Nat /\ started \subseteq Slots /\ JoinOK
  BY DEF TaskTypeOK, TypeOK, CurIsRun, RunPCs, PCs, JournalTypeOK, Chained, TaskOK
<1>2. \A i \in Nat : i < batch.n /\ i \notin batch.rejected => Call(i) \in started
  BY <1>1 DEF JoinOK
<1>3. Result(Call(next)) \notin Present
  BY <1>1 DEF JoinOK
<1>4. PICK s : s = Call(next) /\ s.run = cur /\ s.turn = turn /\ s.ix = next /\ s \in started
  BY <1>1, <1>2 DEF Call
<1>5. \A t \in Lower(s) : t.ix \in Nat /\ t.ix < next /\ t = Call(t.ix) /\ t.ix \notin batch.rejected
  <2>1. \A t \in Lower(s) : t \in started /\ t.ix \in Nat /\ t.ix < next /\ t = Call(t.ix)
    BY <1>1, <1>4 DEF Lower, Call, Slots
  <2> QED BY <2>1 DEF Prefix, BatchKnown
<1>6. CASE Lower(s) = {}
  <2>1. parent = Declaring(s)
    BY <1>4, <1>6 DEF ResultParents
  <2> QED BY <1>3, <1>4, <2>1 DEF Prefix, SlotsKnown, Parents
<1>7. CASE Lower(s) # {}
  <2>1. PICK t \in Lower(s) : parent = Result(t) /\ \A v \in Lower(s) : v.ix <= t.ix
    BY <1>4, <1>7 DEF ResultParents
  <2>2. PICK m \in Nat : m = t.ix /\ m < next /\ t = Call(m) /\ m \notin batch.rejected /\ t \in started
    BY <1>5, <2>1 DEF Lower
  <2>3. Call(m) \in settled /\ m + 1 \notin batch.rejected
    BY <1>1, <2>2 DEF Unbroken
  <2>4. m + 1 = next
    <3>1. SUFFICES ASSUME m + 1 < next PROVE FALSE
      BY <1>1, <2>2
    <3>2. m + 1 < batch.n
      <4>1. batch.n \in Nat
        BY BatchesAssumption DEF TaskTypeOK, TypeOK, NoBatch
      <4> QED BY <1>1, <3>1, <4>1
    <3>3. Call(m + 1) \in started
      BY <1>2, <2>3, <3>2
    <3>4. Call(m + 1) \in Lower(s) /\ Call(m + 1).ix = m + 1
      BY <1>4, <3>1, <3>3 DEF Lower, Call
    <3>5. m + 1 <= m
      BY <2>1, <2>2, <3>4
    <3> QED BY <3>5
  <2>5. Unbroken(m)
    BY <1>1, <2>2 DEF Unbroken
  <2>6. m < batch.n
    <3>1. batch.n \in Nat
      BY BatchesAssumption DEF TaskTypeOK, TypeOK, NoBatch
    <3> QED BY <1>1, <2>2, <3>1
  <2>7. Call(m) \in done
    BY <2>3, <2>5, <2>6 DEF Prefix, PrefixDone
  <2>8. parent \in Present
    BY <2>1, <2>2, <2>7 DEF Prefix, SlotsKnown
  <2>9. Predecessor(s) = Call(m) /\ s.ix > 0
    BY <1>4, <2>2, <2>4 DEF Predecessor, Call
  <2>10. parent = PreviousResult(s)
    BY <2>1, <2>2, <2>9 DEF PreviousResult
  <2> QED BY <1>3, <1>4, <2>8, <2>10 DEF Parents
<1> QED BY <1>6, <1>7

LEMMA PrefixGenerate ==
    ASSUME TaskTypeOK, Accounting, Chained, Prefix, Generate
    PROVE  Prefix'
<1>0. /\ pending = <<>> /\ UNCHANGED <<entries, started, done>> /\ Present' = Present
      /\ SlotsKnown /\ turn \in Nat /\ next \in Nat /\ settled \subseteq Slots
  BY StepFrame, StepIdleGate DEF journal, Present, Prefix, TaskTypeOK, TypeOK
<1>s. SlotsKnown'
  BY <1>0 DEF SlotsKnown
<1>1. CASE Accept \/ NoFreshRun
  <2>1. pc = "accept" /\ UNCHANGED <<turn, settled>> /\ pc' \in {"provider", "idle"}
    BY <1>1 DEF Accept, NoFreshRun, At, Park, Goto
  <2>2. settled' = {}
    BY <2>1 DEF Prefix, SettledKnown
  <2> QED BY <1>s, <2>1, <2>2 DEF Prefix, SettledKnown, BatchKnown, JoinParked, PrefixDone
<1>2. CASE ReplyWithTools
  <2>1. pc = "provider" /\ pc' = "intents" /\ turn' = turn + 1 /\ cur' = cur /\ settled' = settled
    BY <1>2 DEF ReplyWithTools, At, Park
  <2>2. \A i \in Nat : Call(i)'.turn = turn + 1 /\ Declaring(Call(i))' = AssistantEntry(cur, turn + 1)
    BY <2>1 DEF Call, Declaring
  <2>3. SettledKnown'
    <3>1. \A s \in settled : s.turn \in Nat /\ s.turn <= turn
      BY <1>0 DEF Prefix, SettledKnown, Slots
    <3> QED BY <1>0, <2>1, <3>1 DEF SettledKnown
  <2>4. ASSUME NEW i \in Nat
        PROVE  Call(i)' \notin started /\ Call(i)' \notin settled
    <3>1. Call(i)' \notin settled
      BY <1>0, <2>2 DEF Prefix, SettledKnown
    <3>2. ASSUME Call(i)' \in started PROVE FALSE
      <4>1. PICK d : d = AssistantEntry(cur, turn + 1)
        OBVIOUS
      <4>2. d \in Present /\ entries[d].calls > 0
        BY <2>1, <2>2, <3>2, <4>1 DEF Prefix, SlotsKnown, Call, Declaring
      <4>3. d.run = cur /\ d.kind = "assistant" /\ d.turn = turn + 1
        BY <4>1 DEF AssistantEntry
      <4>4. pc \in GenPCs
        BY <2>1 DEF GenPCs, RunPCs, PCs
      <4>5. d.turn \in 1..turn
        BY <4>2, <4>3, <4>4 DEF Chained, TaskOK, TurnBound
      <4> QED BY <1>0, <4>3, <4>5
    <3> QED BY <3>1, <3>2
  <2>5. PICK b \in Batches : pending' = <<Declare(AssistantEntry(cur, turn + 1), leaf, b.n)>>
    BY <1>2 DEF ReplyWithTools, Park
  <2>6. \A j \in DOMAIN pending' : pending'[j].op = "Entry"
    BY <2>5 DEF Declare
  <2>7. BatchKnown'
    BY <1>0, <2>1, <2>4, <2>6 DEF BatchKnown
  <2> QED BY <1>s, <2>1, <2>3, <2>7 DEF Prefix, JoinParked, PrefixDone, AfterJoin
<1>3. CASE FinalReply \/ ProviderError \/ PersistResult \/ BatchPersisted
  <2>1. /\ pc \in {"provider", "persist"} /\ pc' \in {"provider", "persist", "settle"}
        /\ UNCHANGED <<cur, turn, batch, settled>>
    BY <1>3 DEF FinalReply, ProviderError, PersistResult, BatchPersisted, At, Park, Goto
  <2> QED BY <1>0, <2>1, PrefixLate DEF AfterJoin
<1>4. CASE RecordIntent
  <2>1. /\ pc = "intents" /\ pc' = "intents" /\ UNCHANGED <<cur, turn, batch, settled>>
        /\ \/ pending' = <<>>
           \/ /\ pending' = <<[op |-> "ToolStarted", slot |-> Call(next)]>>
              /\ next \notin batch.rejected
    BY <1>4, <1>0 DEF RecordIntent, At, Park, Goto
  <2>2. \A i : Call(i)' = Call(i)
    BY <2>1 DEF Call
  <2>3. \A j \in DOMAIN pending' : pending'[j].op = "ToolStarted" =>
            \E i \in Nat : pending'[j].slot = Call(i) /\ i \notin batch.rejected
    BY <1>0, <2>1
  <2>4. BatchKnown'
    BY <1>0, <2>1, <2>2, <2>3 DEF Prefix, BatchKnown
  <2>5. SettledKnown'
    BY <2>1 DEF Prefix, SettledKnown
  <2> QED BY <1>s, <2>1, <2>4, <2>5 DEF Prefix, JoinParked, PrefixDone, AfterJoin
<1>5. CASE AllIntended
  <2>1. /\ pc = "intents" /\ pc' = "join" /\ UNCHANGED <<cur, turn, batch, settled, pending>>
    BY <1>5, <1>0 DEF AllIntended, At, Goto
  <2>2. \A i : Call(i)' = Call(i)
    BY <2>1 DEF Call
  <2>3. \A i \in Nat : Call(i)' \notin settled'
    BY <2>1, <2>2 DEF Prefix, BatchKnown
  <2>4. BatchKnown' /\ PrefixDone'
    BY <1>0, <2>1, <2>2, <2>3 DEF Prefix, BatchKnown, PrefixDone
  <2>5. SettledKnown'
    BY <2>1 DEF Prefix, SettledKnown
  <2> QED BY <1>0, <1>s, <2>1, <2>4, <2>5 DEF Prefix, JoinParked
<1>6. CASE JoinResult
  <2>1. /\ pc = "join" /\ pc' = "join" /\ next' = next + 1 /\ UNCHANGED <<cur, turn, batch>>
        /\ next < batch.n /\ next \notin batch.rejected
        /\ settled' = settled \cup {Call(next)}
        /\ \/ Call(next) \in done /\ pending' = <<>>
           \/ /\ Call(next) \notin done
              /\ \E parent \in ResultParents(Call(next)) :
                     pending' = <<Write(Result(Call(next)), parent), Finish(next)>>
    BY <1>6, <1>0 DEF JoinResult, At, Park, Goto, Finish
  <2>2. (\A i : Call(i)' = Call(i)) /\ (\A k : Finish(k)' = Finish(k)) /\ Call(next).turn = turn
        /\ \A k : Parents(k)' = Parents(k)
    BY <1>0, <2>1 DEF Call, Finish, Parents, PreviousResult
  <2>3. \A i, j \in Nat : Call(i) = Call(j) => i = j
    BY DEF Call
  <2>4. \A k \in Nat : k <= next => Unbroken(k)' = Unbroken(k)
    BY <1>0, <2>1, <2>2, <2>3 DEF Unbroken
  <2>5. \A i \in Nat : Call(i) \in settled => i < next
    BY <2>1 DEF Prefix, BatchKnown
  <2>6. SettledKnown'
    BY <1>0, <2>1, <2>2 DEF Prefix, SettledKnown
  <2>7. BatchKnown'
    BY <1>0, <2>1, <2>2, <2>3, <2>5 DEF Prefix, BatchKnown
  <2>8. JoinParked'
    <3>1. PICK n \in Nat : n = next
      BY <1>0
    <3>2. SUFFICES ASSUME pending' # <<>>
                   PROVE  Call(n) \in started /\ Call(n) \notin done /\ RecordingNew(n)'
      <4>1. n = next' - 1
        BY <1>0, <2>1, <3>1
      <4>2. ASSUME pending' # <<>>, Call(n) \in started, Call(n) \notin done, RecordingNew(n)'
            PROVE  JoinParked'
        <5>1. Call(n)' \in started' /\ Call(n)' \notin done'
          BY <1>0, <2>2, <4>2
        <5> QED BY <3>1, <4>1, <4>2, <5>1 DEF JoinParked
      <4>3. CASE pending' = <<>>
        BY <4>3 DEF JoinParked
      <4> QED BY <4>2, <4>3
    <3>3. PICK parent \in ResultParents(Call(n)) :
              pending' = <<Write(Result(Call(n)), parent), Finish(n)>>
      BY <2>1, <3>1, <3>2
    <3>4. Call(n) \in Slots /\ parent \in EntryIds
      <4>1. cur \in Runs
        BY <2>1 DEF TaskTypeOK, CurIsRun, RunPCs, PCs
      <4> QED BY <1>0, <3>1, <4>1, CallTypes, ResultParentsTyped DEF TaskTypeOK, TypeOK
    <3>5. Unbroken(n) => Result(Call(n)) \notin Present /\ parent \in Present \cap Parents(n)
      BY <1>0, <2>1, <3>1, UnbrokenParent
    <3>6. Call(n)' = Call(n) /\ Finish(n)' = Finish(n) /\ Parents(n)' = Parents(n) /\ Unbroken(n)' = Unbroken(n)
      BY <1>0, <2>2, <2>4, <3>1
    <3>7. RecordingNew(n)'
      BY <1>0, <3>3, <3>4, <3>5, <3>6 DEF RecordingNew
    <3>8. Call(n) \in started
      BY <1>0, <2>1, <3>1 DEF Chained, TaskOK, JoinOK
    <3> QED BY <2>1, <3>1, <3>2, <3>7, <3>8
  <2>9. PrefixDone'
    <3> SUFFICES ASSUME NEW k \in Nat, k < batch.n, Call(k) \in settled', Unbroken(k)', Call(k) \notin done
                 PROVE  pending' # <<>> /\ k = next
      BY <1>0, <2>1, <2>2 DEF PrefixDone
    <3>1. CASE k = next
      <4>1. PICK parent \in ResultParents(Call(next)) :
                pending' = <<Write(Result(Call(next)), parent), Finish(next)>>
        BY <2>1, <3>1
      <4>2. pending' # <<>>
        BY <4>1
      <4> QED BY <3>1, <4>2
    <3>2. CASE k # next
      <4>1. Call(k) \in settled /\ k < next
        BY <1>0, <2>1, <2>3, <2>5, <3>2
      <4>2. Unbroken(k)
        BY <1>0, <2>4, <4>1
      <4> QED BY <1>0, <2>1, <4>1, <4>2 DEF Prefix, PrefixDone
    <3> QED BY <3>1, <3>2
  <2> QED BY <1>s, <2>6, <2>7, <2>8, <2>9 DEF Prefix
<1>7. CASE JoinFailure \/ JoinRejected
  <2>1. /\ pc = "join" /\ pc' = "join" /\ next' = next + 1 /\ UNCHANGED <<cur, turn, batch, settled, pending>>
    BY <1>7, <1>0 DEF JoinFailure, JoinRejected, At, Goto
  <2>2. (\A i : Call(i)' = Call(i)) /\ (\A k : Unbroken(k)' = Unbroken(k))
    BY <2>1 DEF Call, Unbroken
  <2>3. BatchKnown'
    BY <1>0, <2>1, <2>2 DEF Prefix, BatchKnown
  <2>4. PrefixDone'
    BY <1>0, <2>1, <2>2 DEF Prefix, PrefixDone
  <2>5. SettledKnown'
    BY <2>1 DEF Prefix, SettledKnown
  <2> QED BY <1>0, <1>s, <2>1, <2>3, <2>4, <2>5 DEF Prefix, JoinParked
<1>8. CASE Joined
  <2>1. /\ pc = "join" /\ pc' \in {"persist", "settle"} /\ UNCHANGED <<cur, turn, batch, settled>>
    BY <1>8 DEF Joined, At, Goto
  <2> QED BY <1>0, <2>1, PrefixLate DEF AfterJoin
<1> QED BY <1>1, <1>2, <1>3, <1>4, <1>5, <1>6, <1>7, <1>8 DEF Generate

LEMMA PrefixSteps ==
    ASSUME TaskTypeOK, Prefix, Recover \/ End
    PROVE  Prefix'
<1>0. pending = <<>> /\ UNCHANGED <<entries, started, done>> /\ SlotsKnown
  BY StepFrame, StepIdleGate DEF journal, Prefix
<1>1. CASE Recover
  <2>1. settled' = {} /\ pc' \in {"recover", "reconcile", "recover-finish", "accept"}
    BY <1>1, RecoverSteps DEF Prefix, SettledKnown
  <2> QED BY <1>0, <2>1, PrefixAway
<1>2. CASE End
  <2>1. /\ pc \in {"settle", "finish", "retry", "note", "fail", "fail-finish"}
        /\ pc' \in {"settle", "finish", "retry", "note", "fail", "fail-finish", "idle"}
        /\ UNCHANGED <<cur, turn, batch, settled>>
    BY <1>2 DEF End, SettleMissing, SettleCall, Settled, FinishCompleted, ScheduleRetry, NoteError, FailNote,
                FailFinish, At, Park, Goto, TaskTypeOK, TypeOK
  <2>2. CASE pc' = "idle"
    BY <1>0, <2>1, <2>2, PrefixAway
  <2>3. CASE pc' # "idle"
    BY <1>0, <2>1, <2>3, PrefixLate DEF AfterJoin
  <2> QED BY <2>2, <2>3
<1> QED BY <1>1, <1>2

LEMMA PrefixStep ==
    ASSUME TaskTypeOK, Accounting, Chained, Prefix, [Next]_vars
    PROVE  Prefix'
<1>1. CASE Commit
  BY <1>1, PrefixCommit
<1>2. CASE Step
  BY <1>2, PrefixGenerate, PrefixSteps DEF Step
<1>3. CASE Reject \/ HandleFaulted \/ Prompt \/ OtherParks \/ OtherCommits \/ Stop \/ Crash
  BY <1>3, PrefixAround
<1>4. CASE UNCHANGED vars
  BY <1>4, PrefixFrame DEF vars, journal, task
<1> QED BY <1>1, <1>2, <1>3, <1>4 DEF Next, Driven

(* Whatever fails in a batch, is refused or is cut, a tool whose lower     *)
(* siblings all settled has its completion in the journal once the batch   *)
(* is joined: for batches of any size with calls rejected in any place,    *)
(* tasks that die, and any number of turns, stops and crashes.             *)
THEOREM PrefixAlways == Spec => []PrefixCommitted
<1>1. Init => TaskTypeOK /\ Accounting /\ Chained /\ Prefix
  BY TaskInit, AccountingInit, ChainedInit, PrefixInit
<1>2. TaskTypeOK /\ Accounting /\ Chained /\ Prefix /\ [Next]_vars
      => (TaskTypeOK /\ Accounting /\ Chained /\ Prefix)'
  BY TaskTyped, AccountingStep, ChainedStep, PrefixStep
<1>3. TaskTypeOK /\ Prefix => PrefixCommitted
  <2> SUFFICES ASSUME TaskTypeOK, Prefix, pc \in AfterJoin, pending = <<>>,
                      NEW k \in 0..(batch.n - 1), Call(k) \in settled, Unbroken(k)
               PROVE  Call(k) \in done
    BY DEF PrefixCommitted
  <2>1. batch.n \in Nat
    BY BatchesAssumption DEF TaskTypeOK, TypeOK, NoBatch
  <2>2. k \in Nat /\ k < batch.n
    BY <2>1
  <2> QED BY <2>2 DEF Prefix, PrefixDone
<1> QED BY <1>1, <1>2, <1>3, PTL DEF Spec
=============================================================================
