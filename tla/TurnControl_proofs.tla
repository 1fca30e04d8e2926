-------------------------- MODULE TurnControl_proofs --------------------------
(***************************************************************************)
(* The safety properties of TurnControl, for any number of turns, stoppers *)
(* and failing Stops.                                                      *)
(***************************************************************************)
EXTENDS TurnControl, TLAPS

-----------------------------------------------------------------------------
(* What connects caller, task and registration: what a caller has done     *)
(* tells what its task can be, a registration is taken from a turn before  *)
(* the turn is aborted, and a task that has been sent its registration has *)
(* it or is doomed.                                                        *)

Live == {"waiting", "sent", "dropping"} \cup Guarded
Early == {"new", "begun", "spawned"}
Sent == {"sent", "dropping", "clear", "settle", "lost"} \cup Guarded

Registered ==
    \A t \in Turns :
        /\ call[t] \in {"new", "begun"} => task[t] = "none"
        /\ call[t] = "spawned" => task[t] = "waiting"
        /\ call[t] \in {"tracked", "clear", "settle"} => task[t] \in {"waiting", "gone"}
        /\ task[t] = "gone" /\ call[t] \in {"tracked", "clear"} => t \in aborted
        /\ call[t] \in {"clear", "settle"} => t \in aborted
        /\ call[t] \in Early => t \notin Doomed /\ active # t
        /\ call[t] = "returned" /\ task[t] = "waiting" => t \in aborted
        /\ active = t => t \notin Doomed /\ task[t] \in Live
        /\ call[t] = "tracked" \/ task[t] = "sent" \/ task[t] \in Guarded
              => active = t \/ t \in Doomed

-----------------------------------------------------------------------------
(* Types.                                                                  *)

LEMMA TypeInit == Init => TypeOK
<1> SUFFICES ASSUME Init PROVE TypeOK
  OBVIOUS
<1>1. call \in [Turns -> {"new", "begun", "spawned", "tracked", "clear", "settle", "returned"}]
  BY DEF Init
<1>2. /\ task \in [Turns -> {"none", "waiting", "sent", "armed", "selecting", "ready", "running",
                            "dropping", "clear", "settle", "gone", "lost"}]
      /\ \A t \in Turns : agent = t <=> task[t] \in Holding
  BY NoTurnAssumption DEF Init, Holding
<1>3. stop \in [Stoppers -> {"new", "took", "clear", "settle", "done"}]
  BY DEF Init
<1>4. faults \in 0..MaxFaults
  BY FaultsAssumption DEF Init
<1> QED  BY <1>1, <1>2, <1>3, <1>4 DEF Init, TypeOK

LEMMA TypeStep == TypeOK /\ Registered /\ [Next]_vars => TypeOK'
<1> SUFFICES ASSUME TypeOK, Registered, [Next]_vars PROVE TypeOK'
  OBVIOUS
<1> USE NoTurnAssumption, FaultsAssumption DEF TypeOK, Holding, Guarded, ClearFlag, ClearStatus
<1>1. ASSUME NEW t \in Turns, Begin(t) PROVE TypeOK'
  BY <1>1 DEF Begin, CallerFrame, Caller
<1>2. ASSUME NEW t \in Turns, CallStep(t) PROVE TypeOK'
  <2>1. CASE Spawn(t)
    BY <2>1 DEF Spawn, CallerFrame, Caller, Registered
  <2>2. CASE Track(t)
    <3>1. CASE active = NoTurn
      BY <2>2, <3>1 DEF Track, CallerFrame, Caller
    <3>2. CASE active # NoTurn
      BY <2>2, <3>2 DEF Track, CallerFrame, Caller
    <3> QED  BY <3>1, <3>2
  <2>3. CASE Send(t)
    BY <2>3 DEF Send, FinishActive, CallerFrame, Caller, Task
  <2>4. CASE CallerClears(t)
    BY <2>4 DEF CallerClears, CallerFrame, Caller
  <2> QED  BY <1>2, <2>1, <2>2, <2>3, <2>4 DEF CallStep
<1>3. ASSUME NEW t \in Turns, TaskStep(t) PROVE TypeOK'
  <2>1. CASE Arm(t)
    BY <2>1 DEF Arm, TaskFrame, Task
  <2>2. CASE LockAgent(t)
    BY <2>2 DEF LockAgent, TaskFrame, Task
  <2>3. CASE Release(t)
    BY <2>3 DEF Release, TaskFrame, Task
  <2>4. CASE DropAborted(t)
    BY <2>4 DEF DropAborted, TaskFrame, Task
  <2>5. CASE CleanUp(t)
    BY <2>5 DEF CleanUp, FinishActive, TaskFrame, Task
  <2>6. CASE TaskClears(t)
    BY <2>6 DEF TaskClears, TaskFrame, Task
  <2> QED  BY <1>3, <2>1, <2>2, <2>3, <2>4, <2>5, <2>6 DEF TaskStep
<1>4. ASSUME NEW s \in Stoppers, Stop(s) PROVE TypeOK'
  BY <1>4 DEF Stop, Stopper
<1>7. ASSUME NEW s \in Stoppers, Abort(s) PROVE TypeOK'
  BY <1>7 DEF Abort, Stopper
<1>5. ASSUME NEW s \in Stoppers, StopClears(s) PROVE TypeOK'
  BY <1>5 DEF StopClears, Stopper
<1>6. CASE UNCHANGED vars
  BY <1>6 DEF vars
<1> QED  BY <1>1, <1>2, <1>3, <1>4, <1>5, <1>6, <1>7 DEF Next

-----------------------------------------------------------------------------
(* Registrations.                                                          *)

LEMMA RegisteredInit == Init => Registered
<1> SUFFICES ASSUME Init PROVE Registered
  OBVIOUS
<1>1. \A t \in Turns : t \notin Doomed
  BY NoTurnAssumption DEF Init, Doomed
<1> QED  BY <1>1, NoTurnAssumption DEF Init, Registered, Early, Guarded, Holding

(* What a step does to the registration, whatever it does to the flag.     *)
ClearsItsOwn ==
    active # NoTurn /\ active' # active
        => active' = NoTurn /\ (active \in Doomed' \/ task[active] = "dropping")

LEMMA RegisteredStep == TypeOK /\ Registered /\ [Next]_vars => Registered' /\ ClearsItsOwn
<1> SUFFICES ASSUME TypeOK, Registered, [Next]_vars PROVE Registered' /\ ClearsItsOwn
  OBVIOUS
<1>0. /\ aborted \subseteq Doomed
      /\ taken' = taken /\ aborted \subseteq aborted'
            => \A t \in Turns : t \in Doomed' <=> t \in Doomed \/ t \in aborted'
  BY DEF Doomed
<1> USE <1>0, NoTurnAssumption DEF TypeOK, Registered, ClearsItsOwn, Live, Early, Holding, Guarded
<1>1. ASSUME NEW t \in Turns, Begin(t) PROVE Registered' /\ ClearsItsOwn
  BY <1>1 DEF Begin, CallerFrame, Caller
<1>2. ASSUME NEW t \in Turns, CallStep(t) PROVE Registered' /\ ClearsItsOwn
  <2>1. CASE Spawn(t)
    BY <2>1 DEF Spawn, CallerFrame, Caller
  <2>2. CASE Track(t)
    BY <2>2 DEF Track, CallerFrame, Caller
  <2>3. CASE Send(t)
    BY <2>3 DEF Send, FinishActive, CallerFrame, Caller, Task
  <2>4. CASE CallerClears(t)
    BY <2>4 DEF CallerClears, CallerFrame, Caller
  <2> QED  BY <1>2, <2>1, <2>2, <2>3, <2>4 DEF CallStep
<1>3. ASSUME NEW t \in Turns, TaskStep(t) PROVE Registered' /\ ClearsItsOwn
  <2>1. CASE Arm(t)
    BY <2>1 DEF Arm, TaskFrame, Task
  <2>2. CASE LockAgent(t)
    BY <2>2 DEF LockAgent, TaskFrame, Task
  <2>3. CASE Release(t)
    BY <2>3 DEF Release, TaskFrame, Task
  <2>4. CASE DropAborted(t)
    BY <2>4 DEF DropAborted, TaskFrame, Task
  <2>5. CASE CleanUp(t)
    BY <2>5 DEF CleanUp, FinishActive, TaskFrame, Task
  <2>6. CASE TaskClears(t)
    BY <2>6 DEF TaskClears, TaskFrame, Task
  <2> QED  BY <1>3, <2>1, <2>2, <2>3, <2>4, <2>5, <2>6 DEF TaskStep
<1>4. ASSUME NEW s \in Stoppers, Stop(s) PROVE Registered' /\ ClearsItsOwn
  <2>1. \A t \in Turns : t \in Doomed' <=> t \in Doomed \/ t = active
    BY <1>4 DEF Stop, Stopper, Doomed
  <2>2. \A t \in Turns : call'[t] = call[t] /\ task'[t] = task[t] /\ aborted' = aborted /\ active' = NoTurn
    BY <1>4 DEF Stop, Stopper
  <2> QED  BY <2>1, <2>2, <1>4 DEF Stop
<1>7. ASSUME NEW s \in Stoppers, Abort(s) PROVE Registered' /\ ClearsItsOwn
  <2>1. \A t \in Turns : t \in Doomed' <=> t \in Doomed
    BY <1>7 DEF Abort, Stopper, Doomed
  <2>2. aborted \subseteq aborted' /\ \A t \in Turns : t \in aborted' => t \in Doomed
    BY <1>7 DEF Abort, Stopper, Doomed
  <2>3. \A t \in Turns : call'[t] = call[t] /\ task'[t] = task[t]
    BY <1>7 DEF Abort
  <2>4. active' = active
    BY <1>7 DEF Abort
  <2> QED  BY <2>1, <2>2, <2>3, <2>4
<1>5. ASSUME NEW s \in Stoppers, StopClears(s) PROVE Registered' /\ ClearsItsOwn
  BY <1>5 DEF StopClears, Stopper
<1>6. CASE UNCHANGED vars
  <2> UNCHANGED <<surface, generating, status, active, agent, call, task, aborted, stop, taken, faults>>
    BY <1>6 DEF vars
  <2> QED  OBVIOUS
<1> QED  BY <1>1, <1>2, <1>3, <1>4, <1>5, <1>6, <1>7 DEF Next

(* The agent is held by the one task that runs, and every other variable   *)
(* has its type.                                                           *)
THEOREM TypeCorrect == Spec => []TypeOK
<1>1. Init => TypeOK /\ Registered
  BY TypeInit, RegisteredInit
<1>2. TypeOK /\ Registered /\ [Next]_vars => (TypeOK /\ Registered)'
  BY TypeStep, RegisteredStep
<1> QED  BY <1>1, <1>2, PTL DEF Spec

(* A turn at work can be stopped, and no task leaves its registration      *)
(* behind.                                                                 *)
THEOREM Stoppable == Spec => [](ActiveIsLive /\ RunningIsStoppable)
<1>1. Init => TypeOK /\ Registered
  BY TypeInit, RegisteredInit
<1>2. TypeOK /\ Registered /\ [Next]_vars => (TypeOK /\ Registered)'
  BY TypeStep, RegisteredStep
<1>3. TypeOK /\ Registered => ActiveIsLive /\ RunningIsStoppable
  BY DEF TypeOK, Registered, ActiveIsLive, RunningIsStoppable, Live, Guarded, Holding
<1> QED  BY <1>1, <1>2, <1>3, PTL DEF Spec

(* No task leaves its registration behind: the task of the turn that is    *)
(* listed active has not yet passed its cleanup (controller.rs,            *)
(* ActiveTurnGuard).                                                       *)
THEOREM ActiveTurnsLive == Spec => []ActiveIsLive
BY Stoppable, PTL

(* A registration ends by a Stop or by the cleanup of its own turn.        *)
THEOREM OwnersClear == Spec => OnlyOwnerClears
<1>1. Init => TypeOK /\ Registered
  BY TypeInit, RegisteredInit
<1>2. TypeOK /\ Registered /\ [Next]_vars => (TypeOK /\ Registered)' /\ ClearsItsOwn
  BY TypeStep, RegisteredStep
<1>3. ClearsItsOwn => [active # NoTurn /\ active' # active
                          => active' = NoTurn /\ (active \in Doomed' \/ task[active] = "dropping")]_vars
  BY DEF ClearsItsOwn
<1> QED  BY <1>1, <1>2, <1>3, PTL DEF Spec, OnlyOwnerClears

-----------------------------------------------------------------------------
(* The flag.  With automation it has one owner at a time, from the claim   *)
(* until it is given back by the owner's caller or task.                   *)

Owner(t) ==
    \/ call[t] \in {"begun", "spawned", "tracked", "clear"}
    \/ task[t] \in {"sent", "dropping", "clear", "lost"} \cup Guarded

OneOwner ==
    surface = "automation" =>
        /\ \A s \in Stoppers : stop[s] \in {"new", "took", "done"}
        /\ \A t \in Turns : Owner(t) => generating
        /\ \A t, u \in Turns : Owner(t) /\ Owner(u) => t = u

(* A task past its registration has a caller that is done.                 *)
SentReturned == \A t \in Turns : task[t] \in Sent => call[t] = "returned"

LEMMA SentReturnedHolds == Registered /\ TypeOK => SentReturned
  BY DEF Registered, TypeOK, SentReturned, Sent, Guarded, Holding

LEMMA OwnerInit == Init => OneOwner
  BY DEF Init, OneOwner, Owner, Guarded, Holding

LEMMA OwnerStep == TypeOK /\ Registered /\ OneOwner /\ [Next]_vars => OneOwner'
<1> SUFFICES ASSUME TypeOK, Registered, OneOwner, [Next]_vars PROVE OneOwner'
  OBVIOUS
<1>0. SentReturned
  BY SentReturnedHolds
<1> USE DEF OneOwner, Owner, Holding, Guarded, ClearFlag, ClearStatus
<1>1. ASSUME NEW t \in Turns, Begin(t) PROVE OneOwner'
  BY <1>1 DEF Begin, CallerFrame, Caller, TypeOK
<1>2. ASSUME NEW t \in Turns, CallStep(t) PROVE OneOwner'
  <2>1. CASE Spawn(t)
    BY <2>1 DEF Spawn, CallerFrame, Caller, TypeOK
  <2>2. CASE Track(t)
    BY <2>2 DEF Track, CallerFrame, Caller, TypeOK
  <2>3. CASE Send(t)
    BY <2>3 DEF Send, CallerFrame, Caller, Task, TypeOK
  <2>4. CASE CallerClears(t)
    BY <2>4 DEF CallerClears, CallerFrame, Caller, Registered, TypeOK
  <2> QED  BY <1>2, <2>1, <2>2, <2>3, <2>4 DEF CallStep
<1>3. ASSUME NEW t \in Turns, TaskStep(t) PROVE OneOwner'
  <2>1. CASE Arm(t)
    BY <2>1 DEF Arm, TaskFrame, Task, TypeOK
  <2>2. CASE LockAgent(t)
    BY <2>2 DEF LockAgent, TaskFrame, Task, TypeOK
  <2>3. CASE Release(t)
    BY <2>3 DEF Release, TaskFrame, Task, TypeOK
  <2>4. CASE DropAborted(t)
    BY <2>4 DEF DropAborted, TaskFrame, Task, TypeOK
  <2>5. CASE CleanUp(t)
    BY <2>5 DEF CleanUp, TaskFrame, Task, TypeOK
  <2>6. CASE TaskClears(t)
    BY <2>6, <1>0 DEF TaskClears, TaskFrame, Task, SentReturned, Sent, TypeOK
  <2> QED  BY <1>3, <2>1, <2>2, <2>3, <2>4, <2>5, <2>6 DEF TaskStep
<1>4. ASSUME NEW s \in Stoppers, Stop(s) PROVE OneOwner'
  BY <1>4 DEF Stop, Stopper, TypeOK
<1>7. ASSUME NEW s \in Stoppers, Abort(s) PROVE OneOwner'
  BY <1>7 DEF Abort, Stopper, TypeOK
<1>5. ASSUME NEW s \in Stoppers, StopClears(s) PROVE OneOwner'
  BY <1>5 DEF StopClears, Stopper, TypeOK
<1>6. CASE UNCHANGED vars
  BY <1>6 DEF vars
<1> QED  BY <1>1, <1>2, <1>3, <1>4, <1>5, <1>6, <1>7 DEF Next

(* With automation the flag is up for as long as a turn holds the agent,   *)
(* also while that turn is being stopped.                                  *)
THEOREM AutomationGate == Spec => []AutomationGateSound
<1>1. Init => TypeOK /\ Registered /\ OneOwner
  BY TypeInit, RegisteredInit, OwnerInit
<1>2. TypeOK /\ Registered /\ OneOwner /\ [Next]_vars => (TypeOK /\ Registered /\ OneOwner)'
  BY TypeStep, RegisteredStep, OwnerStep
<1>3. TypeOK /\ OneOwner => AutomationGateSound
  BY DEF TypeOK, OneOwner, Owner, AutomationGateSound, Guarded, Holding
<1> QED  BY <1>1, <1>2, <1>3, PTL DEF Spec

-----------------------------------------------------------------------------
(* Coming to rest.  In a chat session whose Stops all succeed there is     *)
(* somebody left to clear the flag while it is up, and somebody left to    *)
(* clear the status: a turn that still answers for its generation, or a    *)
(* Stop.                                                                   *)

AtWork(t) ==
    \/ call[t] \in {"spawned", "clear"}
    \/ call[t] = "tracked" /\ t \notin aborted
    \/ task[t] = "sent" /\ t \notin aborted
    \/ task[t] \in {"dropping", "clear"} \cup Guarded

ClearsFlag ==
    \/ \E t \in Turns : call[t] = "begun" \/ AtWork(t)
    \/ \E s \in Stoppers : stop[s] = "clear"

ClearsStatus ==
    \/ \E t \in Turns : AtWork(t) \/ call[t] = "settle" \/ task[t] = "settle"
    \/ \E s \in Stoppers : stop[s] \in {"clear", "settle"}

Answered ==
    surface = "chat" /\ faults = 0 =>
        /\ generating => ClearsFlag
        /\ status = "working" => ClearsStatus

LEMMA AnsweredInit == Init => Answered
  BY DEF Init, Answered

LEMMA AnsweredStep == TypeOK /\ Registered /\ Answered /\ [Next]_vars => Answered'
<1> SUFFICES ASSUME TypeOK, Registered, Answered, [Next]_vars PROVE Answered'
  OBVIOUS
<1> USE DEF Answered, ClearsFlag, ClearsStatus, AtWork, ClearFlag, ClearStatus, TypeOK,
               Holding, Guarded
<1>1. ASSUME NEW t \in Turns, Begin(t) PROVE Answered'
  BY <1>1 DEF Begin, CallerFrame, Caller
<1>2. ASSUME NEW t \in Turns, CallStep(t) PROVE Answered'
  <2>1. CASE Spawn(t)
    BY <2>1 DEF Spawn, CallerFrame, Caller
  <2>2. CASE Track(t)
    BY <2>2 DEF Track, CallerFrame, Caller, Registered, Early, Doomed
  <2>3. CASE Send(t)
    BY <2>3 DEF Send, CallerFrame, Caller, Task
  <2>4. CASE CallerClears(t)
    BY <2>4 DEF CallerClears, CallerFrame, Caller
  <2> QED  BY <1>2, <2>1, <2>2, <2>3, <2>4 DEF CallStep
<1>3. ASSUME NEW t \in Turns, TaskStep(t) PROVE Answered'
  <2>1. CASE Arm(t)
    BY <2>1 DEF Arm, TaskFrame, Task
  <2>2. CASE LockAgent(t)
    BY <2>2 DEF LockAgent, TaskFrame, Task
  <2>3. CASE Release(t)
    BY <2>3 DEF Release, TaskFrame, Task
  <2>4. CASE DropAborted(t)
    BY <2>4 DEF DropAborted, TaskFrame, Task
  <2>5. CASE CleanUp(t)
    BY <2>5 DEF CleanUp, TaskFrame, Task
  <2>6. CASE TaskClears(t)
    BY <2>6 DEF TaskClears, TaskFrame, Task
  <2> QED  BY <1>3, <2>1, <2>2, <2>3, <2>4, <2>5, <2>6 DEF TaskStep
<1>4. ASSUME NEW s \in Stoppers, Stop(s) PROVE Answered'
  BY <1>4 DEF Stop, Stopper
<1>7. ASSUME NEW s \in Stoppers, Abort(s) PROVE Answered'
  BY <1>7, FaultsAssumption DEF Abort, Stopper
<1>5. ASSUME NEW s \in Stoppers, StopClears(s) PROVE Answered'
  BY <1>5 DEF StopClears, Stopper
<1>6. CASE UNCHANGED vars
  BY <1>6 DEF vars
<1> QED  BY <1>1, <1>2, <1>3, <1>4, <1>5, <1>6, <1>7 DEF Next

(* A chat session at rest is free: its flag and its status are clear and   *)
(* no registration is left, whatever was stopped when.                     *)
THEOREM RestIsFree == Spec => []QuietIsFree
<1>1. Init => TypeOK /\ Registered /\ Answered
  BY TypeInit, RegisteredInit, AnsweredInit
<1>2. TypeOK /\ Registered /\ Answered /\ [Next]_vars => (TypeOK /\ Registered /\ Answered)'
  BY TypeStep, RegisteredStep, AnsweredStep
<1>3. TypeOK /\ Registered /\ Answered => QuietIsFree
  BY DEF TypeOK, Registered, Live, Guarded, Holding, Doomed, Answered, ClearsFlag, ClearsStatus, AtWork, Quiet, QuietIsFree
<1> QED  BY <1>1, <1>2, <1>3, PTL DEF Spec
=============================================================================
