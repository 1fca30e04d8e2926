---------------------------- MODULE TurnControl ----------------------------
(***************************************************************************)
(* The controller of a session: how an interactive turn is started, made   *)
(* stoppable, stopped and cleaned up.  Three kinds of actors touch its     *)
(* three pieces of state, the is_generating flag, the status and the       *)
(* registration of the active task:                                        *)
(*   - a caller, which claims the flag, spawns the turn's task, registers  *)
(*     its abort handle and sends the registration to the task;            *)
(*   - the task, whose cleanup guard exists only once it has received      *)
(*     that message, and which then holds the agent while it runs;         *)
(*   - a stopper, which takes the registration and then aborts the task.   *)
(*     The chat surfaces then clear the flag themselves, automation leaves *)
(*     it to the task.                                                     *)
(* What takes two steps in the code takes two steps here where another     *)
(* thread may act between them: finish_generation clears the flag and then *)
(* the status, and a Stop aborts with the lock of the registration given   *)
(* back.                                                                   *)
(*                                                                         *)
(* A turn stands for its caller, its task and its registration id, which   *)
(* is never used twice.  Bounds: the sets Turns and Stoppers; each stopper *)
(* stops once; a turn preselects at most one setting of an external agent. *)
(***************************************************************************)
EXTENDS Naturals

CONSTANTS Turns, Stoppers, Surfaces, NoTurn, MaxFaults

ASSUME NoTurnAssumption == NoTurn \notin Turns
ASSUME SurfacesAssumption == Surfaces \subseteq {"chat", "automation"}
ASSUME FaultsAssumption == MaxFaults \in Nat

VARIABLES
    surface,     \* who drives the session
    generating,  \* the controller's is_generating flag
    status,      \* its status, "working" or at "rest"
    active,      \* the turn whose abort handle is registered
    agent,       \* the turn that holds the agent
    call,        \* where each turn's caller is
    task,        \* where each turn's task is
    aborted,     \* turns whose abort handle was used
    stop,        \* where each stopper is
    taken,       \* the turn whose registration a stopper has taken to abort it
    faults       \* stops whose journal writes failed

vars == <<surface, generating, status, active, agent, call, task, aborted, stop, taken,
          faults>>

Init ==
    /\ surface \in Surfaces
    /\ generating = FALSE /\ status = "rest"
    /\ active = NoTurn /\ agent = NoTurn
    /\ call = [t \in Turns |-> "new"] /\ task = [t \in Turns |-> "none"]
    /\ aborted = {}
    /\ stop = [s \in Stoppers |-> "new"] /\ taken = [s \in Stoppers |-> NoTurn]
    /\ faults = 0

Caller(t, from, to) == call[t] = from /\ call' = [call EXCEPT ![t] = to]
Task(t, from, to) == task[t] = from /\ task' = [task EXCEPT ![t] = to]
Stopper(s, from, to) == stop[s] = from /\ stop' = [stop EXCEPT ![s] = to]

(* The two halves of finish_generation.                                    *)
ClearFlag == generating' = FALSE /\ UNCHANGED status
ClearStatus == status' = "rest" /\ UNCHANGED generating

(* A mutant of FinishActive: the registration is cleared whoever has it.   *)
FinishAnyActive(t) == active' = NoTurn

(* The registration is cleared by its own turn only.                       *)
FinishActive(t) == active' = IF active = t THEN NoTurn ELSE active

-----------------------------------------------------------------------------
(* The caller of a turn.                                                   *)

CallerFrame == UNCHANGED <<surface, agent, stop, taken, faults>>

(* The flag is claimed; a caller that finds it set is refused.             *)
Begin(t) ==
    /\ ~generating
    /\ Caller(t, "new", "begun")
    /\ generating' = TRUE
    /\ UNCHANGED <<status, active, task, aborted>> /\ CallerFrame

(* The status follows, and the task is spawned: it waits for its           *)
(* registration.                                                           *)
Spawn(t) ==
    /\ Caller(t, "begun", "spawned")
    /\ status' = "working"
    /\ task' = [task EXCEPT ![t] = "waiting"]
    /\ UNCHANGED <<generating, active, aborted>> /\ CallerFrame

(* A mutant of Track: a registration is replaced by the next one.          *)
TrackOver(t) ==
    /\ Caller(t, "spawned", "tracked")
    /\ active' = t
    /\ UNCHANGED <<generating, status, task, aborted>> /\ CallerFrame

(* The abort handle is registered, unless another turn's is: then the task *)
(* is aborted and the flag given back.                                     *)
Track(t) ==
    /\ \/ active = NoTurn /\ Caller(t, "spawned", "tracked") /\ active' = t /\ UNCHANGED aborted
       \/ /\ active # NoTurn
          /\ Caller(t, "spawned", "clear")
          /\ aborted' = aborted \cup {t}
          /\ UNCHANGED active
    /\ UNCHANGED <<generating, status, task>> /\ CallerFrame

(* A mutant of Send: a task that has gone is not noticed.                  *)
SendBlind(t) ==
    /\ Caller(t, "tracked", "returned")
    /\ IF task[t] = "waiting" THEN Task(t, "waiting", "sent") ELSE UNCHANGED task
    /\ UNCHANGED <<generating, status, active, aborted>> /\ CallerFrame

(* The registration is sent to the task; one that is gone is deregistered. *)
Send(t) ==
    /\ \/ /\ Caller(t, "tracked", "returned")
          /\ Task(t, "waiting", "sent")
          /\ UNCHANGED active
       \/ /\ task[t] = "gone"
          /\ Caller(t, "tracked", "clear")
          /\ FinishActive(t)
          /\ UNCHANGED task
    /\ UNCHANGED <<generating, status, aborted>> /\ CallerFrame

CallerClears(t) ==
    /\ \/ Caller(t, "clear", "settle") /\ ClearFlag
       \/ Caller(t, "settle", "returned") /\ ClearStatus
    /\ UNCHANGED <<active, task, aborted>> /\ CallerFrame

-----------------------------------------------------------------------------
(* The task of a turn.                                                     *)

TaskFrame == UNCHANGED <<surface, call, aborted, stop, taken, faults>>

(* Where a task has its guard and the agent, and where it has its guard.   *)
Holding == {"selecting", "running"}
Guarded == {"armed", "ready"} \cup Holding

(* The task resumes with its registration and makes its cleanup guard.  As *)
(* below, an abort does not end a poll that is under way.                  *)
Arm(t) ==
    /\ Task(t, "sent", "armed")
    /\ UNCHANGED <<generating, status, active, agent>> /\ TaskFrame

(* The agent is locked, to preselect a setting or for the turn itself; a   *)
(* preselection that failed locks it once more, to write its error.        *)
LockAgent(t) ==
    /\ agent = NoTurn /\ agent' = t
    /\ \/ Task(t, "armed", "selecting")
       \/ Task(t, "armed", "running")
       \/ Task(t, "ready", "running")
    /\ UNCHANGED <<generating, status, active>> /\ TaskFrame

(* The agent is given back: after the preselection, and at the end, before *)
(* the guard is dropped.                                                   *)
Release(t) ==
    /\ Task(t, "selecting", "ready") \/ Task(t, "running", "dropping")
    /\ agent' = NoTurn
    /\ UNCHANGED <<generating, status, active>> /\ TaskFrame

(* A mutant of DropAborted: the agent stays locked.                        *)
DropAbortedLocked(t) ==
    /\ t \in aborted
    /\ \/ Task(t, "waiting", "gone")
       \/ Task(t, "sent", "lost")
       \/ task[t] \in Guarded /\ Task(t, task[t], "dropping")
    /\ UNCHANGED <<generating, status, active, agent>> /\ TaskFrame

(* An aborted task is dropped where it waits.  The guard is dropped with   *)
(* it if there is one; before, nothing of the turn is cleaned up: a task   *)
(* that has been sent its registration is lost.                            *)
DropAborted(t) ==
    /\ t \in aborted
    /\ \/ Task(t, "waiting", "gone") /\ UNCHANGED agent
       \/ Task(t, "sent", "lost") /\ UNCHANGED agent
       \/ /\ task[t] \in Guarded /\ Task(t, task[t], "dropping")
          /\ agent' = IF agent = t THEN NoTurn ELSE agent
    /\ UNCHANGED <<generating, status, active>> /\ TaskFrame

(* A mutant of CleanUp: the registration outlives its task.                *)
CleanUpKeep(t) ==
    /\ Task(t, "dropping", "clear")
    /\ UNCHANGED <<generating, status, active, agent>> /\ TaskFrame

(* The guard deregisters its own turn and finishes the generation.         *)
CleanUp(t) ==
    /\ Task(t, "dropping", "clear")
    /\ FinishActive(t)
    /\ UNCHANGED <<generating, status, agent>> /\ TaskFrame

(* A mutant of TaskClears: the guard forgets the flag.                     *)
TaskClearsStatus(t) ==
    /\ \/ Task(t, "clear", "settle") /\ UNCHANGED <<generating, status>>
       \/ Task(t, "settle", "gone") /\ ClearStatus
    /\ UNCHANGED <<active, agent>> /\ TaskFrame

TaskClears(t) ==
    /\ \/ Task(t, "clear", "settle") /\ ClearFlag
       \/ Task(t, "settle", "gone") /\ ClearStatus
    /\ UNCHANGED <<active, agent>> /\ TaskFrame

-----------------------------------------------------------------------------
(* A stopper.                                                              *)

(* A mutant of Stop: the flag is cleared before the task is aborted.       *)
StopEarly(s) ==
    /\ Stopper(s, "new", "took")
    /\ taken' = [taken EXCEPT ![s] = active]
    /\ active' = NoTurn
    /\ generating' = FALSE
    /\ UNCHANGED <<surface, status, agent, call, task, aborted, faults>>

(* The abort request has been written or has failed; the registration is   *)
(* taken, if there is one.                                                 *)
Stop(s) ==
    /\ Stopper(s, "new", "took")
    /\ taken' = [taken EXCEPT ![s] = active]
    /\ active' = NoTurn
    /\ UNCHANGED <<surface, generating, status, agent, call, task, aborted, faults>>

(* Its task is aborted, whatever became of the request; a failure of the   *)
(* journal is returned before the chat surface gets to clear the flag.     *)
Abort(s) ==
    /\ aborted' = aborted \cup ({taken[s]} \ {NoTurn})
    /\ taken' = [taken EXCEPT ![s] = NoTurn]
    /\ \/ Stopper(s, "took", IF surface = "chat" THEN "clear" ELSE "done") /\ UNCHANGED faults
       \/ faults < MaxFaults /\ Stopper(s, "took", "done") /\ faults' = faults + 1
    /\ UNCHANGED <<surface, generating, status, active, agent, call, task>>

StopClears(s) ==
    /\ \/ Stopper(s, "clear", "settle") /\ ClearFlag
       \/ Stopper(s, "settle", "done") /\ ClearStatus
    /\ UNCHANGED <<surface, active, agent, call, task, aborted, taken, faults>>

CallStep(t) == Spawn(t) \/ Track(t) \/ Send(t) \/ CallerClears(t)
TaskStep(t) ==
    Arm(t) \/ LockAgent(t) \/ Release(t) \/ DropAborted(t) \/ CleanUp(t) \/ TaskClears(t)

Next ==
    \/ \E t \in Turns : Begin(t) \/ CallStep(t) \/ TaskStep(t)
    \/ \E s \in Stoppers : Stop(s) \/ Abort(s) \/ StopClears(s)

(* A started call and an abort run to their end, and every turn ends.      *)
Fairness ==
    /\ \A t \in Turns : WF_vars(CallStep(t)) /\ WF_vars(TaskStep(t))
    /\ \A s \in Stoppers : WF_vars(Abort(s) \/ StopClears(s))

Spec == Init /\ [][Next]_vars /\ Fairness

-----------------------------------------------------------------------------
(* Properties.                                                             *)

TypeOK ==
    /\ surface \in Surfaces
    /\ generating \in BOOLEAN /\ status \in {"working", "rest"}
    /\ active \in Turns \cup {NoTurn} /\ agent \in Turns \cup {NoTurn}
    /\ call \in [Turns -> {"new", "begun", "spawned", "tracked", "clear", "settle", "returned"}]
    /\ task \in [Turns -> {"none", "waiting", "sent", "armed", "selecting", "ready", "running",
                           "dropping", "clear", "settle", "gone", "lost"}]
    /\ aborted \subseteq Turns
    /\ stop \in [Stoppers -> {"new", "took", "clear", "settle", "done"}]
    /\ taken \in [Stoppers -> Turns \cup {NoTurn}]
    /\ \A s \in Stoppers : taken[s] # NoTurn => stop[s] = "took"
    /\ faults \in 0..MaxFaults
    /\ \A t \in Turns : agent = t <=> task[t] \in Holding

(* A registration is never left behind by its task: it would refuse every  *)
(* later turn of the session.                                              *)
ActiveIsLive ==
    active # NoTurn => task[active] \in {"waiting", "sent", "dropping"} \cup Guarded

(* A Stop has aborted the turn or is about to.                             *)
Doomed == aborted \cup {taken[s] : s \in Stoppers}

(* The turn that holds the agent can be stopped: it is the registered one, *)
(* or a Stop has taken its registration to abort it.                       *)
RunningIsStoppable == agent # NoTurn => agent = active \/ agent \in Doomed

(* A registration ends by a Stop, which goes on to abort its task, or by   *)
(* the cleanup of its own turn, and never by that of an older one.         *)
OnlyOwnerClears ==
    [][active # NoTurn /\ active' # active
        => active' = NoTurn /\ (active \in Doomed' \/ task[active] = "dropping")]_vars

(* When no call, task or Stop of a chat session is under way, the next     *)
(* turn can start, unless a Stop failed to write the journal.              *)
Quiet ==
    /\ \A t \in Turns : call[t] \in {"new", "returned"} /\ task[t] \in {"none", "gone", "lost"}
    /\ \A s \in Stoppers : stop[s] \in {"new", "done"}
QuietIsFree ==
    Quiet /\ surface = "chat" /\ faults = 0 => ~generating /\ active = NoTurn /\ status = "rest"

(* With automation, where a Stop leaves the flag alone, who reads the flag *)
(* before waiting for the agent never waits for a turn, stopped or not.    *)
AutomationGateSound == surface = "automation" /\ agent # NoTurn => generating

(* A generation ends, unless a Stop that leaves the flag to the task drops *)
(* the task before it has its guard.                                       *)
Unguarded(t) ==
    (surface = "automation" \/ faults > 0) /\ t \in aborted /\ task[t] \in {"sent", "lost"}
GenerationEnds == generating ~> (~generating \/ \E t \in Turns : Unguarded(t))
=============================================================================
