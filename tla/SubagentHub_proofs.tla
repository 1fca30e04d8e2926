-------------------------- MODULE SubagentHub_proofs --------------------------
(***************************************************************************)
(* Theorems about SubagentHub, for any lanes, roles and bounds: who may    *)
(* act for a lane, who settles it, and what a settled lane is listed as.   *)
(***************************************************************************)
EXTENDS SubagentHub, FiniteSetTheorems, TLAPS

Phases ==
  {"none", "accepted", "running", "boundary", "drain", "done", "closing", "committed", "over"}

RosterType ==
  [known : BOOLEAN, live : BOOLEAN, run : 0 .. MaxRuns, outcome : {"none", "ended", "killed"}]
WorkType == [phase : Phases, extra : Nat]
KillType ==
  [at : {"idle", "flag", "notice", "abort", "close", "settle", "outcome"}, run : 0 .. MaxRuns]

(* The part of TypeOK the theorems rest on: everything but the messages.   *)
CoreTypeOK ==
  /\ agent \in [Lanes -> Roles]
  /\ roster \in [Lanes -> RosterType]
  /\ op \in [Lanes -> 0 .. MaxRuns]
  /\ work \in [Lanes -> [Runs -> WorkType]]
  /\ sink \subseteq [lane : Lanes, run : Runs]
  /\ kill \in [Lanes -> KillType]

(* The runs of a lane are started in order, and the run a lane shows is    *)
(* one of them.                                                            *)
StartedInOrder ==
  \A l \in Lanes : \E k \in 0 .. MaxRuns : Started(l) = 1 .. k
ShownIsStarted ==
  \A l \in Lanes : roster[l].known => roster[l].run \in Started(l)

(* A result in the sink is one whose worker has committed it or given up.  *)
SinkIsOver ==
  \A c \in sink : work[c.lane][c.run].phase \in {"committed", "over"}

Sound ==
  /\ CoreTypeOK
  /\ StartedInOrder
  /\ ShownIsStarted
  /\ SinkIsOver
  /\ OneRunner
  /\ LiveIsOwed
  /\ KilledStaysKilled

-----------------------------------------------------------------------------
(* Lemmas about single lanes.                                              *)

(* What a step on one lane leaves of another's runs.                       *)
LEMMA RunsFact == Runs \subseteq Nat \ {0} /\ MaxRuns \in Nat \ {0} /\ 1 \in Runs
BY HubAssumption DEF Runs

(* The run a revival starts is the first that was not started.             *)
LEMMA NextRunFresh ==
  ASSUME StartedInOrder, NEW l \in Lanes, Started(l) # Runs
  PROVE  /\ NextRun(l) \in Runs \ Started(l)
         /\ Started(l) \union {NextRun(l)} = 1 .. NextRun(l)
<1>1. PICK k \in 0 .. MaxRuns : Started(l) = 1 .. k
  BY DEF StartedInOrder
<1>2. Cardinality(1 .. k) = k
  BY FS_Interval, RunsFact
<1>3. k # MaxRuns
  BY <1>1 DEF Runs
<1>4. NextRun(l) = k + 1
  BY <1>1, <1>2 DEF NextRun
<1> QED BY <1>1, <1>3, <1>4, RunsFact DEF Runs

(* A worker's step keeps the type of work, and moves the one worker only.  *)
PhaseSet(l, n, p) ==
  /\ work' \in [Lanes -> [Runs -> WorkType]]
  /\ \A k \in Lanes, m \in Runs :
       work'[k][m].phase = IF k = l /\ m = n THEN p ELSE work[k][m].phase

LEMMA SetsPhase ==
  ASSUME CoreTypeOK, NEW l \in Lanes, NEW n \in Runs, NEW w \in WorkType,
         work' = [work EXCEPT ![l][n] = w]
  PROVE  PhaseSet(l, n, w.phase)
<1>1. work' \in [Lanes -> [Runs -> WorkType]]
  BY DEF CoreTypeOK
<1>2. ASSUME NEW k \in Lanes, NEW m \in Runs
      PROVE  work'[k][m] = IF k = l /\ m = n THEN w ELSE work[k][m]
  BY DEF CoreTypeOK
<1> QED BY <1>1, <1>2 DEF PhaseSet

LEMMA MovesPhase ==
  ASSUME CoreTypeOK, NEW l \in Lanes, NEW n \in Runs, NEW to \in Phases,
         work' = [work EXCEPT ![l][n].phase = to]
  PROVE  PhaseSet(l, n, to)
<1> DEFINE w == [work[l][n] EXCEPT !.phase = to]
<1>0. work[l][n] \in WorkType
  BY DEF CoreTypeOK
<1>1. w \in WorkType /\ w.phase = to
  BY <1>0 DEF WorkType
<1>2. work' = [work EXCEPT ![l][n] = w]
  OBVIOUS
<1> QED BY <1>1, <1>2, SetsPhase

LEMMA EndsPhase ==
  ASSUME CoreTypeOK, NEW l \in Lanes, NEW n \in Runs, Ends(l, n)
  PROVE  PhaseSet(l, n, "done")
<1>1. [phase |-> "done", extra |-> 0] \in WorkType
  BY DEF WorkType, Phases
<1> QED BY <1>1, SetsPhase DEF Ends

LEMMA SettledTyped ==
  ASSUME CoreTypeOK, NEW l \in Lanes, NEW n \in Runs
  PROVE  Settled(l, n) \in [Lanes -> RosterType]
BY DEF CoreTypeOK, Settled, RosterType

LEMMA ClosedTyped ==
  ASSUME CoreTypeOK, NEW l \in Lanes, NEW n
  PROVE  Closed(l, n) \in [Lanes -> 0 .. MaxRuns]
BY RunsFact DEF CoreTypeOK, Closed

-----------------------------------------------------------------------------
(* The steps by what they change.                                          *)

Acts == {"accepted", "running", "boundary", "drain", "done", "closing"}

(* Messages are sent or read, a revival begins, reads or is refused.       *)
Talks == UNCHANGED <<agent, roster, killed, op, aborted, work, sink, kill>>

(* Workers go on, and still act for their runs.                            *)
Works ==
  /\ UNCHANGED <<agent, roster, killed, op, aborted, sink, kill>>
  /\ work' \in [Lanes -> [Runs -> WorkType]]
  /\ \A l \in Lanes, n \in Runs :
       \/ work'[l][n].phase = work[l][n].phase
       \/ work[l][n].phase \in Acts /\ work'[l][n].phase \in Acts

(* A worker is done with its run, committed or not.                        *)
HandsOver(l, n) ==
  \/ Commit(l, n) /\ op[l] # n
  \/ Finish(l, n)
  \/ CommitFails(l, n)

(* The steps that neither talk nor only work.                              *)
Turns(l, n) ==
  \/ Register(l, n) \/ HandsOver(l, n) \/ Settle(l, n)

Calls(l) ==
  \/ StartLane(l) \/ KillBegins(l) \/ Kill(l) \/ ReviveResumes(l) \/ ReviveStrands(l)

LEMMA WorkerForms ==
  ASSUME CoreTypeOK, NEW l \in Lanes, NEW n \in Runs, Worker(l, n) \/ Mishap(l, n)
  PROVE  Works \/ Turns(l, n)
<1>0. ASSUME NEW p \in Acts, PhaseSet(l, n, p), work[l][n].phase \in Acts,
             UNCHANGED <<agent, roster, killed, op, aborted, sink, kill>>
      PROVE  Works
  BY <1>0 DEF PhaseSet, Works
<1>1. CASE TurnEnds(l, n)
  <2>1. PhaseSet(l, n, "boundary")
    BY <1>1, MovesPhase DEF TurnEnds, Moves, Phases
  <2> QED BY <1>0, <1>1, <2>1 DEF TurnEnds, Moves, Acts, hub, journal, calls
<1>2. CASE Boundary(l, n)
  <2>1. PhaseSet(l, n, "done") \/ PhaseSet(l, n, "drain")
    BY <1>2, MovesPhase, EndsPhase DEF Boundary, Moves, Phases
  <2>2. work[l][n].phase = "boundary"
    BY <1>2 DEF Boundary, Moves
  <2> QED BY <1>0, <1>2, <2>1, <2>2 DEF Boundary, Acts, hub, journal, calls
<1>3. CASE FollowUp(l, n)
  <2>1. PhaseSet(l, n, "done") \/ PhaseSet(l, n, "running")
    <3>1. CASE Pending(l) = {}
      BY <1>3, <3>1, EndsPhase DEF FollowUp
    <3>2. CASE Pending(l) # {}
      <4>0. PICK x \in WorkType : x = work[l][n]
        BY DEF CoreTypeOK
      <4>1. PICK e \in Nat : e = x.extra + 1
        BY DEF WorkType
      <4>2. [phase |-> "running", extra |-> e] \in WorkType
        BY DEF WorkType, Phases
      <4>4. work' = [work EXCEPT ![l][n] = [phase |-> "running", extra |-> e]]
        BY <1>3, <3>2, <4>0, <4>1 DEF FollowUp
      <4> QED BY <4>2, <4>4, SetsPhase
    <3> QED BY <3>1, <3>2
  <2> QED BY <1>0, <1>3, <2>1 DEF FollowUp, Acts, journal, calls
<1>4. CASE KilledExit(l, n) \/ WorkFails(l, n)
  <2>1. PhaseSet(l, n, "done")
    BY <1>4, EndsPhase DEF KilledExit, WorkFails
  <2> QED BY <1>0, <1>4, <2>1 DEF KilledExit, WorkFails, Acts, hub, journal, calls
<1>5. CASE Commit(l, n) /\ op[l] = n
  <2>1. PhaseSet(l, n, "closing") /\ work[l][n].phase = "done"
    BY <1>5, MovesPhase DEF Commit, Moves, Phases
  <2>2. UNCHANGED <<agent, roster, killed, op, aborted, sink, kill>>
    BY <1>5 DEF Commit, hub, journal, calls
  <2> QED BY <1>0, <2>1, <2>2 DEF Acts
<1> QED BY <1>1, <1>2, <1>3, <1>4, <1>5 DEF Worker, Mishap, Turns, HandsOver

LEMMA StepForms ==
  ASSUME CoreTypeOK, [Next]_vars
  PROVE  \/ Talks \/ Works
         \/ \E l \in Lanes : Calls(l)
         \/ \E l \in Lanes, n \in Runs : Turns(l, n)
         \/ \E c \in sink : ParentCommits(c)
<1>1. CASE UNCHANGED vars
  BY <1>1 DEF vars, hub, journal, calls, Talks
<1>2. ASSUME NEW l \in Lanes, StartFails(l)
      PROVE  Works
  <2>1. PhaseSet(l, 1, "done")
    BY <1>2, EndsPhase, RunsFact DEF StartFails
  <2> QED BY <1>2, <2>1, RunsFact DEF StartFails, PhaseSet, Works, Acts, hub, journal, calls
<1>3. ASSUME NEW l \in Lanes, PeerSends(l) \/ PeerBroadcasts(l) \/ ParentSends(l)
      PROVE  Talks
  BY <1>3 DEF PeerSends, PeerBroadcasts, ParentSends, Peer, Talks, journal, calls
<1>4. ASSUME NEW l \in Lanes, ReviveBegins(l) \/ ReviveDrains(l) \/ ReviveRefused(l)
      PROVE  Talks
  BY <1>4 DEF ReviveBegins, ReviveDrains, ReviveRefused, Talks, hub, journal, calls
<1>5. CASE Next
  BY <1>5, <1>2, <1>3, <1>4, WorkerForms DEF Next, Revive, Calls
<1> QED BY <1>1, <1>5

-----------------------------------------------------------------------------
(* Talking and working change nothing the invariant is about.              *)

LEMMA WorksSound ==
  ASSUME Sound, Talks \/ Works
  PROVE  Sound'
<1>0. /\ work' \in [Lanes -> [Runs -> WorkType]]
      /\ \A l \in Lanes, n \in Runs :
           \/ work'[l][n].phase = work[l][n].phase
           \/ work[l][n].phase \in Acts /\ work'[l][n].phase \in Acts
  BY DEF Talks, Works, Sound, CoreTypeOK
<1>a. UNCHANGED <<agent, roster, killed, op, aborted, sink, kill>>
  BY DEF Talks, Works
<1>1. CoreTypeOK'
  BY <1>0, <1>a DEF Sound, CoreTypeOK
<1>2. \A l \in Lanes : Started(l)' = Started(l)
  BY <1>0 DEF Started, Acts
<1>3. StartedInOrder' /\ ShownIsStarted'
  BY <1>2, <1>a DEF Sound, StartedInOrder, ShownIsStarted
<1>4. SinkIsOver'
  BY <1>0, <1>a DEF Sound, CoreTypeOK, SinkIsOver, Acts
<1>5. \A l \in Lanes, n \in Runs : Executing(l, n)' = Executing(l, n)
  BY <1>0 DEF Executing, Acts
<1>6. OneRunner'
  BY <1>5, <1>a DEF Sound, OneRunner
<1>7. LiveIsOwed'
  <2> SUFFICES ASSUME NEW l \in Lanes, Live(l)'
               PROVE  LET n == roster[l].run
                      IN  Executing(l, n)' \/ work'[l][n].phase = "committed" \/ Result(l, n) \in sink'
    BY <1>a DEF LiveIsOwed, Result
  <2>1. roster[l].run \in Runs
    BY <1>a DEF Sound, ShownIsStarted, Started, Live
  <2> QED BY <1>0, <1>5, <1>a, <2>1 DEF Sound, LiveIsOwed, Live, Acts
<1>8. KilledStaysKilled'
  BY <1>a DEF Sound, KilledStaysKilled
<1> QED BY <1>1, <1>3, <1>4, <1>6, <1>7, <1>8 DEF Sound

-----------------------------------------------------------------------------
(* The end of a run, and its beginning, change one worker.                 *)

LEMMA StartedKept ==
  ASSUME NEW l \in Lanes, NEW n \in Runs, NEW p, PhaseSet(l, n, p),
         p # "none", work[l][n].phase # "none"
  PROVE  \A k \in Lanes : Started(k)' = Started(k)
BY DEF PhaseSet, Started

(* The run a live lane shows is a run.                                     *)
LEMMA ShownIsRun ==
  ASSUME ShownIsStarted, NEW l \in Lanes, Live(l)
  PROVE  roster[l].run \in Runs
BY DEF ShownIsStarted, Started, Live

(* Somebody will settle run n of lane l.                                   *)
Owed(l, n) == Executing(l, n) \/ work[l][n].phase = "committed" \/ Result(l, n) \in sink

LEMMA OwedRuns ==
  ASSUME ShownIsStarted
  PROVE  LiveIsOwed <=> \A l \in Lanes, n \in Runs : Live(l) /\ n = roster[l].run => Owed(l, n)
BY ShownIsRun DEF LiveIsOwed, Owed

LEMMA OwedRunsNext ==
  ASSUME ShownIsStarted',
         \A l \in Lanes, n \in Runs : Live(l)' /\ n = roster'[l].run => Owed(l, n)'
  PROVE  LiveIsOwed'
<1> SUFFICES ASSUME NEW l \in Lanes, Live(l)'
             PROVE  \/ work'[l][roster'[l].run].phase \in {"accepted", "running", "boundary", "drain", "done", "closing", "committed"}
                    \/ [lane |-> l, run |-> roster'[l].run] \in sink'
  BY DEF LiveIsOwed, Executing, Result
<1>1. roster'[l].run \in Runs
  BY DEF ShownIsStarted, Started, Live
<1> QED BY <1>1 DEF Owed, Executing, Result

LEMMA RegisterSound ==
  ASSUME Sound, NEW l \in Lanes, NEW n \in Runs, Register(l, n)
  PROVE  Sound'
<1> DEFINE shown == [known |-> TRUE, live |-> TRUE, run |-> n, outcome |-> "none"]
<1>0. /\ CoreTypeOK /\ StartedInOrder /\ ShownIsStarted /\ SinkIsOver
      /\ OneRunner /\ LiveIsOwed /\ KilledStaysKilled
  BY DEF Sound
<1>1. /\ PhaseSet(l, n, "running") /\ work[l][n].phase = "accepted"
      /\ roster' = [roster EXCEPT ![l] = shown]
      /\ killed' = killed \ {l, agent[l]}
      /\ UNCHANGED <<agent, op, aborted, sink, kill>>
  BY <1>0, MovesPhase DEF Register, Moves, Phases, journal, calls
<1>2. \A k \in Lanes : roster'[k] = IF k = l THEN shown ELSE roster[k]
  BY <1>0, <1>1 DEF CoreTypeOK
<1>3. \A k \in Lanes : Started(k)' = Started(k)
  BY <1>1, StartedKept
<1>4. CoreTypeOK'
  <2>1. shown \in RosterType
    BY RunsFact DEF RosterType, Runs
  <2> QED BY <1>0, <1>1, <2>1 DEF CoreTypeOK, PhaseSet
<1>5. StartedInOrder'
  BY <1>0, <1>3 DEF StartedInOrder
<1>6. ShownIsStarted'
  BY <1>0, <1>1, <1>2, <1>3 DEF ShownIsStarted, Started
<1>7. SinkIsOver'
  BY <1>0, <1>1 DEF SinkIsOver, PhaseSet, CoreTypeOK
<1>8. \A k \in Lanes, m \in Runs : Executing(k, m)' = Executing(k, m)
  BY <1>1 DEF PhaseSet, Executing
<1>9. OneRunner'
  BY <1>0, <1>1, <1>8 DEF OneRunner
<1>10. LiveIsOwed'
  <2> SUFFICES ASSUME NEW k \in Lanes, NEW m \in Runs, Live(k)', m = roster'[k].run
               PROVE  Owed(k, m)'
    BY <1>6, OwedRunsNext
  <2>1. CASE k = l
    BY <1>1, <1>2, <2>1 DEF PhaseSet, Executing, Owed
  <2>2. CASE k # l
    <3>1. Live(k) /\ m = roster[k].run
      BY <1>2, <2>2 DEF Live
    <3>2. Owed(k, m)
      BY <1>0, <3>1, OwedRuns
    <3> QED BY <1>1, <1>8, <2>2, <3>2 DEF Owed, PhaseSet, Result
  <2> QED BY <2>1, <2>2
<1>11. KilledStaysKilled'
  BY <1>0, <1>1, <1>2 DEF KilledStaysKilled
<1> QED BY <1>4, <1>5, <1>6, <1>7, <1>9, <1>10, <1>11 DEF Sound

(* A worker hands its result over, committed or not.                       *)
LEMMA CommitSound ==
  ASSUME Sound, NEW l \in Lanes, NEW n \in Runs, HandsOver(l, n)
  PROVE  Sound'
<1>0. /\ CoreTypeOK /\ StartedInOrder /\ ShownIsStarted /\ SinkIsOver
      /\ OneRunner /\ LiveIsOwed /\ KilledStaysKilled
  BY DEF Sound
<1>1. PICK p \in {"committed", "over"} : PhaseSet(l, n, p)
  BY <1>0, MovesPhase DEF HandsOver, Commit, Finish, CommitFails, Moves, Phases
<1>2. /\ work[l][n].phase \in {"done", "closing"}
      /\ sink' = sink \union {Result(l, n)}
      /\ op' = op \/ op' = Closed(l, n)
      /\ UNCHANGED <<agent, roster, killed, aborted, kill>>
  BY DEF HandsOver, Commit, Finish, CommitFails, KeepsResult, Moves, hub, journal, calls
<1>3. \A k \in Lanes : Started(k)' = Started(k)
  BY <1>1, <1>2, StartedKept
<1>4. CoreTypeOK'
  <2>1. op' \in [Lanes -> 0 .. MaxRuns]
    BY <1>0, <1>2, ClosedTyped DEF CoreTypeOK
  <2>2. sink' \subseteq [lane : Lanes, run : Runs]
    BY <1>0, <1>2 DEF CoreTypeOK, Result
  <2> QED BY <1>0, <1>1, <1>2, <2>1, <2>2 DEF CoreTypeOK, PhaseSet
<1>5. StartedInOrder' /\ ShownIsStarted'
  BY <1>0, <1>2, <1>3 DEF StartedInOrder, ShownIsStarted
<1>6. SinkIsOver'
  BY <1>0, <1>1, <1>2 DEF SinkIsOver, PhaseSet, CoreTypeOK, Result
<1>7. \A k \in Lanes, m \in Runs : Executing(k, m)' => Executing(k, m) /\ (k # l \/ m # n)
  BY <1>1 DEF PhaseSet, Executing
<1>8. OneRunner'
  BY <1>0, <1>2, <1>7 DEF OneRunner, Closed, CoreTypeOK
<1>9. LiveIsOwed'
  <2> SUFFICES ASSUME NEW k \in Lanes, NEW m \in Runs, Live(k)', m = roster'[k].run
               PROVE  Owed(k, m)'
    BY <1>5, OwedRunsNext
  <2>1. Owed(k, m)
    BY <1>0, <1>2, OwedRuns DEF Live
  <2> QED BY <1>1, <1>2, <2>1 DEF Owed, PhaseSet, Executing, Result
<1>10. KilledStaysKilled'
  BY <1>0, <1>2 DEF KilledStaysKilled
<1> QED BY <1>4, <1>5, <1>6, <1>8, <1>9, <1>10 DEF Sound

(* What settling does to each lane.                                        *)
LEMMA SettledLanes ==
  ASSUME CoreTypeOK, NEW l \in Lanes, NEW n \in Runs, NEW k \in Lanes
  PROVE  LET new == Settled(l, n)
         IN  /\ new[k].known = roster[k].known /\ new[k].run = roster[k].run
             /\ new[k].known /\ new[k].live => Live(k) /\ (k # l \/ roster[k].run # n)
             /\ \/ new[k] = roster[k]
                \/ k = l /\ (l \in killed => new[k].outcome = "killed")
<1>1. roster[k] \in RosterType /\ roster[l] \in RosterType
  BY DEF CoreTypeOK
<1>2. CASE ~roster[l].known \/ roster[l].run # n
  BY <1>1, <1>2 DEF Settled, RosterType, Live
<1>3. CASE roster[l].known /\ roster[l].run = n
  BY <1>1, <1>3 DEF Settled, CoreTypeOK, RosterType, IsKilled, Live
<1> QED BY <1>2, <1>3

(* Settling a lane for run n, whose worker is past it.                     *)
LEMMA SettlingKeeps ==
  ASSUME ShownIsStarted, KilledStaysKilled, LiveIsOwed, CoreTypeOK,
         NEW l \in Lanes, NEW n \in Runs, roster' = Settled(l, n),
         \A k \in Lanes : Started(k)' = Started(k),
         \A k \in Lanes, m \in Runs : k # l \/ m # n => (Owed(k, m) => Owed(k, m)'),
         UNCHANGED <<killed, kill>>
  PROVE  ShownIsStarted' /\ KilledStaysKilled' /\ LiveIsOwed'
<1>1. ShownIsStarted'
  BY SettledLanes DEF ShownIsStarted
<1>2. KilledStaysKilled'
  <2> SUFFICES ASSUME NEW k \in Lanes, k \in killed, ~roster'[k].live, kill[k].at = "idle"
               PROVE  roster'[k].outcome = "killed"
    BY DEF KilledStaysKilled
  <2>1. roster'[k] = roster[k] \/ roster'[k].outcome = "killed"
    BY SettledLanes
  <2> QED BY <2>1 DEF KilledStaysKilled
<1>3. LiveIsOwed'
  <2> SUFFICES ASSUME NEW k \in Lanes, NEW m \in Runs, Live(k)', m = roster'[k].run
               PROVE  Owed(k, m)'
    BY <1>1, OwedRunsNext
  <2>1. Live(k) /\ (k # l \/ m # n) /\ m = roster[k].run
    BY SettledLanes DEF Live
  <2>2. Owed(k, m)
    BY <2>1, OwedRuns
  <2> QED BY <2>1, <2>2
<1> QED BY <1>1, <1>2, <1>3

LEMMA SettleSound ==
  ASSUME Sound, NEW l \in Lanes, NEW n \in Runs, Settle(l, n)
  PROVE  Sound'
<1>0. /\ CoreTypeOK /\ StartedInOrder /\ ShownIsStarted /\ SinkIsOver
      /\ OneRunner /\ LiveIsOwed /\ KilledStaysKilled
  BY DEF Sound
<1>1. /\ PhaseSet(l, n, "over") /\ work[l][n].phase = "committed"
      /\ roster' = Settled(l, n)
      /\ UNCHANGED <<agent, killed, op, aborted, sink, kill>>
  BY <1>0, MovesPhase DEF Settle, Moves, Phases, journal, calls
<1>2. \A k \in Lanes : Started(k)' = Started(k)
  BY <1>1, StartedKept
<1>3. CoreTypeOK'
  BY <1>0, <1>1, SettledTyped DEF CoreTypeOK, PhaseSet
<1>4. \A k \in Lanes, m \in Runs : k # l \/ m # n => (Owed(k, m) => Owed(k, m)')
  BY <1>1 DEF Owed, Executing, Result, PhaseSet
<1>5. ShownIsStarted' /\ KilledStaysKilled' /\ LiveIsOwed'
  BY <1>0, <1>1, <1>2, <1>4, SettlingKeeps
<1>6. StartedInOrder'
  BY <1>0, <1>2 DEF StartedInOrder
<1>7. SinkIsOver'
  BY <1>0, <1>1 DEF SinkIsOver, PhaseSet, CoreTypeOK
<1>8. OneRunner'
  <2>1. \A k \in Lanes, m \in Runs : Executing(k, m)' => Executing(k, m)
    BY <1>1 DEF PhaseSet, Executing
  <2> QED BY <1>0, <1>1, <2>1 DEF OneRunner
<1> QED BY <1>3, <1>5, <1>6, <1>7, <1>8 DEF Sound

LEMMA ParentSound ==
  ASSUME Sound, NEW c \in sink, ParentCommits(c)
  PROVE  Sound'
<1>0. /\ CoreTypeOK /\ StartedInOrder /\ ShownIsStarted /\ SinkIsOver
      /\ OneRunner /\ LiveIsOwed /\ KilledStaysKilled
  BY DEF Sound
<1>a. PICK l \in Lanes, n \in Runs : c = Result(l, n)
  BY <1>0 DEF CoreTypeOK, Result
<1>1. /\ roster' = Settled(l, n)
      /\ op' = Closed(l, n)
      /\ sink' = sink \ {c}
      /\ work[l][n].phase \in {"committed", "over"}
      /\ UNCHANGED <<agent, killed, aborted, work, kill>>
  BY <1>0, <1>a DEF ParentCommits, SinkIsOver, Result, calls
<1>2. \A k \in Lanes : Started(k)' = Started(k)
  BY <1>1 DEF Started
<1>3. CoreTypeOK'
  BY <1>0, <1>1, SettledTyped, ClosedTyped DEF CoreTypeOK
<1>4. \A k \in Lanes, m \in Runs : k # l \/ m # n => (Owed(k, m) => Owed(k, m)')
  BY <1>1, <1>a DEF Owed, Executing, Result
<1>5. ShownIsStarted' /\ KilledStaysKilled' /\ LiveIsOwed'
  BY <1>0, <1>1, <1>2, <1>4, SettlingKeeps
<1>6. StartedInOrder'
  BY <1>0, <1>2 DEF StartedInOrder
<1>7. SinkIsOver'
  BY <1>0, <1>1 DEF SinkIsOver
<1>8. OneRunner'
  BY <1>0, <1>1 DEF OneRunner, Executing, Closed, CoreTypeOK
<1> QED BY <1>3, <1>5, <1>6, <1>7, <1>8 DEF Sound

-----------------------------------------------------------------------------
(* A run begins on a lane that has no open run.                            *)

(* Run n of lane l is opened in the journal, and its worker is at p.       *)
LEMMA OpeningSound ==
  ASSUME Sound, NEW l \in Lanes, NEW n \in Runs \ Started(l),
         NEW p \in {"accepted", "over"},
         op[l] = 0 \/ Started(l) = {},
         Started(l) \union {n} = 1 .. n,
         op' = [op EXCEPT ![l] = n],
         work' = [work EXCEPT ![l][n].phase = p],
         UNCHANGED <<agent, roster, killed, aborted, sink, kill>>
  PROVE  Sound'
<1>0. /\ CoreTypeOK /\ StartedInOrder /\ ShownIsStarted /\ SinkIsOver
      /\ OneRunner /\ LiveIsOwed /\ KilledStaysKilled
  BY DEF Sound
<1>1. PhaseSet(l, n, p) /\ work[l][n].phase = "none"
  BY <1>0, MovesPhase DEF Phases, Started
<1>2. n \in 0 .. MaxRuns /\ n # 0
  BY RunsFact DEF Runs
<1>3. CoreTypeOK'
  BY <1>0, <1>1, <1>2 DEF CoreTypeOK, PhaseSet
<1>4. \A k \in Lanes : Started(k)' = IF k = l THEN Started(l) \union {n} ELSE Started(k)
  BY <1>1 DEF PhaseSet, Started
<1>5. StartedInOrder'
  BY <1>0, <1>2, <1>4 DEF StartedInOrder
<1>6. ShownIsStarted'
  BY <1>0, <1>4 DEF ShownIsStarted
<1>7. SinkIsOver'
  BY <1>0, <1>1 DEF SinkIsOver, PhaseSet, CoreTypeOK
<1>8. OneRunner'
  <2> SUFFICES ASSUME NEW k \in Lanes, NEW m \in Runs, Executing(k, m)'
               PROVE  op'[k] = m \/ <<k, m>> \in aborted
    BY DEF OneRunner
  <2>1. CASE k = l /\ m = n
    BY <1>0, <2>1 DEF CoreTypeOK
  <2>2. CASE k # l \/ m # n
    <3>1. Executing(k, m)
      BY <1>1, <2>2 DEF PhaseSet, Executing
    <3>2. m \in Started(k) /\ m # 0
      BY <3>1, RunsFact DEF Executing, Started
    <3> QED BY <1>0, <2>2, <3>1, <3>2 DEF OneRunner, CoreTypeOK
  <2> QED BY <2>1, <2>2
<1>9. LiveIsOwed'
  <2> SUFFICES ASSUME NEW k \in Lanes, NEW m \in Runs, Live(k)', m = roster'[k].run
               PROVE  Owed(k, m)'
    BY <1>6, OwedRunsNext
  <2>1. Live(k) /\ m = roster[k].run /\ m \in Started(k)
    BY <1>0 DEF Live, ShownIsStarted
  <2>2. Owed(k, m)
    BY <1>0, <2>1, OwedRuns
  <2> QED BY <1>1, <2>1, <2>2 DEF Owed, Executing, Result, PhaseSet
<1>10. KilledStaysKilled'
  BY <1>0 DEF KilledStaysKilled
<1> QED BY <1>3, <1>5, <1>6, <1>7, <1>8, <1>9, <1>10 DEF Sound

LEMMA StartSound ==
  ASSUME Sound, NEW l \in Lanes, StartLane(l)
  PROVE  Sound'
<1>1. 1 \in Runs \ Started(l) /\ Started(l) \union {1} = 1 .. 1
  BY RunsFact DEF StartLane
<1> QED BY <1>1, OpeningSound DEF StartLane, hub, calls

LEMMA ReviveSound ==
  ASSUME Sound, NEW l \in Lanes, ReviveResumes(l) \/ ReviveStrands(l)
  PROVE  Sound'
<1> DEFINE n == NextRun(l)
<1>1. op[l] = 0 /\ Started(l) # Runs
  BY DEF ReviveResumes, ReviveStrands, Resumable
<1>2. n \in Runs \ Started(l) /\ Started(l) \union {n} = 1 .. n
  BY <1>1, NextRunFresh DEF Sound
<1>3. PICK p \in {"accepted", "over"} : work' = [work EXCEPT ![l][n].phase = p]
  BY DEF ReviveResumes, ReviveStrands
<1>4. /\ op' = [op EXCEPT ![l] = n]
      /\ UNCHANGED <<agent, roster, killed, aborted, sink, kill>>
  BY DEF ReviveResumes, ReviveStrands
<1> HIDE DEF n
<1> QED BY <1>1, <1>2, <1>3, <1>4, OpeningSound

-----------------------------------------------------------------------------
(* A kill.                                                                 *)

LEMMA KillSound ==
  ASSUME Sound, NEW l \in Lanes, KillBegins(l) \/ Kill(l)
  PROVE  Sound'
<1>0. /\ CoreTypeOK /\ StartedInOrder /\ ShownIsStarted /\ SinkIsOver
      /\ OneRunner /\ LiveIsOwed /\ KilledStaysKilled
  BY DEF Sound
<1>1. UNCHANGED <<agent, work, sink>>
  BY DEF KillBegins, Kill, KillFlags, KillNotifies, KillAborts, KillCloses, KillSettles, KillEnds, journal, hub
<1>r. \/ roster' = roster
      \/ roster' = [roster EXCEPT ![l].live = FALSE]
      \/ roster' = [roster EXCEPT ![l].outcome = "killed"]
  BY DEF KillBegins, Kill, KillFlags, KillNotifies, KillAborts, KillCloses, KillSettles, KillEnds, hub
<1>2. roster' \in [Lanes -> RosterType]
  <2>1. CASE roster' = [roster EXCEPT ![l].live = FALSE]
    BY <1>0, <2>1 DEF CoreTypeOK, RosterType
  <2>2. CASE roster' = [roster EXCEPT ![l].outcome = "killed"]
    BY <1>0, <2>2 DEF CoreTypeOK, RosterType
  <2> QED BY <1>0, <1>r, <2>1, <2>2 DEF CoreTypeOK
<1>3. kill' \in [Lanes -> KillType]
  <2>1. CASE KillBegins(l)
    <3>1. roster[l].run \in 0 .. MaxRuns
      BY <1>0 DEF CoreTypeOK, RosterType
    <3>2. [at |-> "flag", run |-> roster[l].run] \in KillType
      BY <3>1 DEF KillType
    <3> QED BY <1>0, <2>1, <3>2 DEF KillBegins, CoreTypeOK
  <2>2. ASSUME NEW to \in {"notice", "abort", "close", "settle", "outcome"},
               kill' = [kill EXCEPT ![l].at = to]
        PROVE  kill' \in [Lanes -> KillType]
    BY <1>0, <2>2 DEF CoreTypeOK, KillType
  <2>3. CASE KillEnds(l)
    <3>1. NoKill \in KillType
      BY RunsFact DEF NoKill, KillType
    <3> QED BY <1>0, <2>3, <3>1 DEF KillEnds, CoreTypeOK
  <2> QED BY <2>1, <2>2, <2>3 DEF Kill, KillFlags, KillNotifies, KillAborts, KillCloses, KillSettles, Killing
<1>4. op' = op \/ op' = Closed(l, kill[l].run)
  BY DEF KillBegins, Kill, KillFlags, KillNotifies, KillAborts, KillCloses, KillSettles, KillEnds, journal
<1>5. CoreTypeOK'
  BY <1>0, <1>1, <1>2, <1>3, <1>4, ClosedTyped DEF CoreTypeOK
<1>6. \A k \in Lanes : Started(k)' = Started(k)
  BY <1>1 DEF Started
<1>7. \A k \in Lanes : /\ roster'[k].known = roster[k].known
                       /\ roster'[k].run = roster[k].run
                       /\ roster'[k].live => roster[k].live
  <2>1. CASE roster' = [roster EXCEPT ![l].live = FALSE]
    BY <1>0, <2>1 DEF CoreTypeOK, RosterType
  <2>2. CASE roster' = [roster EXCEPT ![l].outcome = "killed"]
    BY <1>0, <2>2 DEF CoreTypeOK, RosterType
  <2> QED BY <1>r, <2>1, <2>2
<1>8. StartedInOrder' /\ ShownIsStarted' /\ SinkIsOver'
  BY <1>0, <1>1, <1>6, <1>7 DEF StartedInOrder, ShownIsStarted, SinkIsOver
<1>9. OneRunner'
  <2>1. \/ op' = op /\ aborted' = aborted
        \/ /\ op' = Closed(l, kill[l].run)
           /\ aborted' = IF op[l] = kill[l].run THEN aborted \union {<<l, op[l]>>} ELSE aborted
    BY DEF KillBegins, Kill, KillFlags, KillNotifies, KillAborts, KillCloses, KillSettles, KillEnds, journal
  <2> QED BY <1>0, <1>1, <2>1 DEF OneRunner, Executing, Closed, CoreTypeOK
<1>10. LiveIsOwed'
  <2> SUFFICES ASSUME NEW k \in Lanes, NEW m \in Runs, Live(k)', m = roster'[k].run
               PROVE  Owed(k, m)'
    BY <1>8, OwedRunsNext
  <2> QED BY <1>0, <1>1, <1>7, OwedRuns DEF Live, Owed, Executing, Result
<1>11. KilledStaysKilled'
  <2>1. CASE KillFlags(l)
    <3>1. agent[l] \notin Lanes
      BY <1>0, HubAssumption DEF CoreTypeOK
    <3>2. \A k \in Lanes : k \in killed' => k = l \/ k \in killed
      BY <2>1, <3>1 DEF KillFlags
    <3>3. kill'[l].at = "notice"
      BY <1>0, <2>1 DEF KillFlags, Killing, CoreTypeOK, KillType
    <3>4. roster' = roster /\ \A k \in Lanes \ {l} : kill'[k] = kill[k]
      BY <1>0, <2>1 DEF KillFlags, Killing, CoreTypeOK
    <3> QED BY <1>0, <3>2, <3>3, <3>4 DEF KilledStaysKilled
  <2>2. CASE KillEnds(l)
    BY <1>0, <2>2 DEF KillEnds, KilledStaysKilled, CoreTypeOK
  <2>3. CASE KillSettles(l)
    BY <1>0, <2>3 DEF KillSettles, Killing, KilledStaysKilled, CoreTypeOK
  <2>4. CASE KillBegins(l) \/ KillNotifies(l) \/ KillAborts(l) \/ KillCloses(l)
    <3>1. roster' = roster /\ killed' = killed
      BY <2>4 DEF KillBegins, KillNotifies, KillAborts, KillCloses, hub
    <3>2. kill'[l].at # "idle" /\ \A k \in Lanes \ {l} : kill'[k] = kill[k]
      <4>1. CASE KillBegins(l)
        BY <1>0, <4>1 DEF KillBegins, CoreTypeOK
      <4>2. CASE KillNotifies(l) \/ KillAborts(l) \/ KillCloses(l)
        BY <1>0, <4>2 DEF KillNotifies, KillAborts, KillCloses, Killing, CoreTypeOK, KillType
      <4> QED BY <2>4, <4>1, <4>2
    <3> QED BY <1>0, <3>1, <3>2 DEF KilledStaysKilled
  <2> QED BY <2>1, <2>2, <2>3, <2>4 DEF Kill
<1> QED BY <1>5, <1>8, <1>9, <1>10, <1>11 DEF Sound

-----------------------------------------------------------------------------
(* The invariant and the theorems.                                         *)

LEMMA InitSound == Init => Sound
<1> SUFFICES ASSUME Init PROVE Sound
  OBVIOUS
<1>1. CoreTypeOK
  BY RunsFact, HubAssumption
     DEF Init, CoreTypeOK, RosterType, WorkType, Phases, KillType, Resting, NoKill
<1>2. \A l \in Lanes : Started(l) = {}
  BY DEF Init, Started, Resting
<1>3. StartedInOrder
  <2>1. 0 \in 0 .. MaxRuns /\ 1 .. 0 = {}
    BY RunsFact
  <2> QED BY <1>2, <2>1 DEF StartedInOrder
<1>4. ShownIsStarted /\ SinkIsOver /\ LiveIsOwed /\ KilledStaysKilled
  BY DEF Init, ShownIsStarted, SinkIsOver, LiveIsOwed, KilledStaysKilled, Live
<1>5. OneRunner
  BY DEF Init, OneRunner, Executing, Resting
<1> QED BY <1>1, <1>3, <1>4, <1>5 DEF Sound

LEMMA StepSound == Sound /\ [Next]_vars => Sound'
<1> SUFFICES ASSUME Sound, [Next]_vars PROVE Sound'
  OBVIOUS
<1>1. CASE Talks \/ Works
  BY <1>1, WorksSound
<1>2. ASSUME NEW l \in Lanes, Calls(l)
      PROVE  Sound'
  BY <1>2, StartSound, KillSound, ReviveSound DEF Calls
<1>3. ASSUME NEW l \in Lanes, NEW n \in Runs, Turns(l, n)
      PROVE  Sound'
  BY <1>3, RegisterSound, CommitSound, SettleSound DEF Turns
<1>4. ASSUME NEW c \in sink, ParentCommits(c)
      PROVE  Sound'
  BY <1>4, ParentSound
<1> QED BY <1>1, <1>2, <1>3, <1>4, StepForms DEF Sound

LEMMA SoundThroughout == Spec => []Sound
BY InitSound, StepSound, PTL DEF Spec

(* Two workers act for one lane only if the older one's run was ended as   *)
(* aborted (subagents.rs, resume_subagent_lane and finish_subagent_lane).  *)
THEOREM OneRunnerPerLane == Spec => []OneRunner
BY SoundThroughout, PTL DEF Sound

(* A lane listed live has a worker for its run, or a result waiting for    *)
(* the parent: no failed commit leaves it live for ever.                   *)
THEOREM LiveLanesAreOwed == Spec => []LiveIsOwed
BY SoundThroughout, PTL DEF Sound

(* A lane under its own kill flag is listed as killed once it is settled   *)
(* (mailbox.rs, settle_run and kill_lane).                                 *)
THEOREM KilledLanesStayKilled == Spec => []KilledStaysKilled
BY SoundThroughout, PTL DEF Sound

(* The steps that settle a live lane.                                      *)
LEMMA SettlesOwn ==
  ASSUME Sound, [Next]_vars, NEW l \in Lanes, Live(l), ~Live(l)'
  PROVE  kill[l].at = "settle" \/ work[l][roster[l].run].phase \in {"committed", "over"}
<1>0. CoreTypeOK /\ SinkIsOver
  BY DEF Sound
<1>1. roster' # roster
  BY DEF Live
<1>2. ~Talks /\ ~Works
  BY <1>1 DEF Talks, Works
<1>3. ASSUME NEW k \in Lanes, Calls(k)
      PROVE  kill[l].at = "settle"
  <2>1. KillSettles(k) \/ KillEnds(k)
    BY <1>1, <1>3 DEF Calls, StartLane, KillBegins, Kill, KillFlags, KillNotifies, KillAborts, KillCloses,
                      ReviveResumes, ReviveStrands, hub
  <2>2. CASE KillSettles(k)
    BY <1>0, <2>2 DEF KillSettles, Killing, Live, CoreTypeOK, RosterType
  <2>3. CASE KillEnds(k)
    <3>1. roster[l] \in RosterType
      BY <1>0 DEF CoreTypeOK
    <3> QED BY <1>0, <2>3, <3>1 DEF KillEnds, Live, CoreTypeOK, RosterType
  <2> QED BY <2>1, <2>2, <2>3
<1>4. ASSUME NEW k \in Lanes, NEW n \in Runs, roster' = Settled(k, n)
      PROVE  k = l /\ n = roster[l].run
  <2>1. roster'[l] # roster[l] /\ roster'[l].known
    BY <1>4, <1>0, SettledLanes DEF Live
  <2>2. k = l
    BY <1>4, <1>0, <2>1, SettledLanes DEF Live
  <2> QED BY <1>4, <2>1, <2>2 DEF Settled
<1>5. ASSUME NEW k \in Lanes, NEW n \in Runs, Turns(k, n)
      PROVE  work[l][roster[l].run].phase = "committed"
  <2>1. CASE Register(k, n)
    BY <1>0, <2>1 DEF Register, Live, CoreTypeOK
  <2>2. CASE Settle(k, n)
    BY <1>4, <2>2 DEF Settle, Moves
  <2> QED BY <1>1, <1>5, <2>1, <2>2 DEF Turns, HandsOver, Commit, Finish, CommitFails, hub
<1>6. ASSUME NEW c \in sink, ParentCommits(c)
      PROVE  work[l][roster[l].run].phase \in {"committed", "over"}
  <2>1. c.lane \in Lanes /\ c.run \in Runs
    BY <1>0 DEF CoreTypeOK
  <2> QED BY <1>0, <1>4, <1>6, <2>1 DEF ParentCommits, SinkIsOver
<1> QED BY <1>0, <1>2, <1>3, <1>5, <1>6, StepForms

(* A late completion of an older run settles nobody (mailbox.rs,           *)
(* settle_run compares the run it is told with the one the lane shows).    *)
THEOREM SettledByOwnRun == Spec => SettledByOwn
<1>1. Sound /\ [Next]_vars =>
        [\A l \in Lanes :
           Live(l) /\ ~Live(l)' =>
             kill[l].at = "settle" \/ work[l][roster[l].run].phase \in {"committed", "over"}]_vars
  BY SettlesOwn
<1> QED BY <1>1, SoundThroughout, PTL DEF Spec, SettledByOwn

=============================================================================
