------------------------------ MODULE SubagentHub ------------------------------
(***************************************************************************)
(* The hub of a session's subagent lanes (coding-agent/src/mailbox.rs) and *)
(* the life of a run on a lane (subagents.rs).                             *)
(*                                                                         *)
(* A worker runs a task on its lane; the hub keeps the roster of lanes,    *)
(* their inboxes and the kill flags.  The parent's tool calls run at the   *)
(* same time as the workers and as each other: `send`, `kill` and `revive` *)
(* are sequences of critical sections, and so is the end of a run, whose   *)
(* outcome is committed to the journal before the hub is told.  A commit   *)
(* that fails leaves the result in a sink, from which the parent commits   *)
(* again.                                                                  *)
(*                                                                         *)
(* A lane is addressed by its name; workers address each other by role,    *)
(* which several lanes may share.  The second and later runs of a lane are *)
(* revivals.  Draining the two inboxes of a worker, its lane's and its     *)
(* role's, is one step here: the sections touch different queues.  A role  *)
(* in a call of the parent stands for a lane of it: resolve_lane looks the *)
(* lane up, and the call goes on about the lane it found.                  *)
(***************************************************************************)
EXTENDS Naturals, Sequences, FiniteSets, SequencesExt

CONSTANTS
  Lanes, Roles,
  Assignments,     \* bound: the roles a batch gives to its lanes
  Addressed,       \* bound: lanes the parent's calls are about
  Talkers,         \* bound: lanes whose workers send messages
  MaxRuns,         \* bound: runs of a lane
  MaxMessages,     \* bound: messages sent
  MaxCalls,        \* bound: `kill` and `revive` calls of the parent
  MaxExtras,       \* follow-up turns of a run (3 in the code)
  InboxDepth,      \* MAX_HUB_INBOX_DEPTH (64 in the code)
  MaxBroadcasts,   \* MAX_PENDING_BROADCASTS (16 in the code)
  MaxFaults        \* bound: journal writes that fail

ASSUME HubAssumption ==
  /\ Lanes \cap Roles = {}
  /\ Roles \cap {"direct", "notice"} = {}
  /\ Assignments \subseteq [Lanes -> Roles]
  /\ Addressed \subseteq Lanes
  /\ Talkers \subseteq Lanes
  /\ MaxRuns \in Nat \ {0}
  /\ MaxMessages \in Nat
  /\ MaxCalls \in Nat
  /\ MaxExtras \in Nat
  /\ InboxDepth \in Nat \ {0}
  /\ MaxBroadcasts \in Nat \ {0}
  /\ MaxFaults \in Nat

VARIABLES
  agent,        \* the role each lane's worker has; never changes
  roster,       \* per lane: registered?, live?, the run it shows, its outcome
  killed,       \* lanes and roles flagged for shutdown
  inbox,        \* messages waiting under a lane's or a role's name
  boxes,        \* roles under whose name an inbox exists
  broadcasts,   \* broadcasts retained for lanes that register later
  posted,       \* the messages sent (a message is its index): to one recipient,
                \* the notice of a kill, or to `all` by a worker of a role
  taken,        \* <<message, key>> read from an inbox, or evicted from it
  lost,         \* those of them that a refused revival read and dropped
  op,           \* per lane: the run that is open in the journal, 0 if none
  aborted,      \* runs the journal ended as aborted
  work,         \* per lane and run: where its worker is
  sink,         \* results kept for the parent
  kill,         \* per lane: a `kill` call in progress
  revive,       \* per lane: a `revive` call in progress
  called,       \* how many such calls were begun
  faults

hub == <<roster, killed, inbox, boxes, broadcasts, posted, taken, lost>>
journal == <<op, aborted>>
calls == <<kill, revive, called>>
vars == <<agent, hub, journal, work, sink, calls, faults>>

Keys == Lanes \union Roles
Runs == 1 .. MaxRuns
Messages == 1 .. Len(posted)

-----------------------------------------------------------------------------
(* Inboxes *)

Overflow(q) == IF Len(q) > InboxDepth THEN Len(q) - InboxDepth ELSE 0

\* A mutant of Kept: nothing is evicted.
KeptAll(q) == q

\* push_to_inbox, for a sequence of messages: the oldest make room.
Kept(q) == SubSeq(q, Overflow(q) + 1, Len(q))
Evicted(q) == Range(SubSeq(q, 1, Overflow(q)))

\* The messages of s go to the inbox k.
Deliver(k, s) ==
  /\ inbox' = [inbox EXCEPT ![k] = Kept(inbox[k] \o s)]
  /\ taken' = taken \union (Evicted(inbox[k] \o s) \X {k})

\* A mutant of Drained: the role's inbox is read and left as it is.
DrainedLaneOnly(l) == [inbox EXCEPT ![l] = <<>>]

\* What drain_lane_inbox returns, and the inboxes after it.
Pending(l) == Range(inbox[l]) \union Range(inbox[agent[l]])
Drained(l) == [inbox EXCEPT ![l] = <<>>, ![agent[l]] = <<>>]

Sibling(m, l) == posted[m] # agent[l]

IsKilled(l) == l \in killed \/ agent[l] \in killed

Live(l) == roster[l].known /\ roster[l].live

-----------------------------------------------------------------------------
(* Workers *)

Resting == [phase |-> "none", extra |-> 0]

\* The worker of run n is still the one that acts for it.
Executing(l, n) ==
  work[l][n].phase \in {"accepted", "running", "boundary", "drain", "done", "closing"}

Moves(l, n, from, to) ==
  /\ work[l][n].phase = from
  /\ work' = [work EXCEPT ![l][n].phase = to]

Ends(l, n) == work' = [work EXCEPT ![l][n] = [phase |-> "done", extra |-> 0]]

Started(l) == {n \in Runs : work[l][n].phase # "none"}

\* start_subagent_lane: the first run of a new lane is open in the journal.
StartLane(l) ==
  /\ Started(l) = {}
  /\ op' = [op EXCEPT ![l] = 1]
  /\ work' = [work EXCEPT ![l][1].phase = "accepted"]
  /\ UNCHANGED <<agent, hub, aborted, sink, calls, faults>>

\* A later step of the start failed: the lane ends without having been listed.
StartFails(l) ==
  /\ work[l][1].phase = "accepted"
  /\ faults < MaxFaults
  /\ faults' = faults + 1
  /\ Ends(l, 1)
  /\ UNCHANGED <<agent, hub, journal, sink, calls>>

\* The messages of M in the order they were sent.
InOrder(M) ==
  {s \in [1 .. Cardinality(M) -> M] : \A i, j \in DOMAIN s : i < j => s[i] < s[j]}

\* A brand-new lane is given the retained broadcasts of others, oldest first.
Replay(l) ==
  IF roster[l].known THEN {<<>>} ELSE InOrder({m \in Range(broadcasts) : Sibling(m, l)})

\* register: the lane is listed live with this run, its flags are cleared.
Register(l, n) ==
  /\ Moves(l, n, "accepted", "running")
  /\ roster' = [roster EXCEPT ![l] =
                  [known |-> TRUE, live |-> TRUE, run |-> n, outcome |-> "none"]]
  /\ killed' = killed \ {l, agent[l]}
  /\ \E s \in Replay(l) : Deliver(l, s)
  /\ UNCHANGED <<agent, boxes, broadcasts, posted, lost, journal, sink, calls, faults>>

Takes(l, M) == taken' = taken \union (M \X {l})

\* Where a message to a role goes: the inbox of that name if there is one,
\* else a live lane of the role, else any lane of it, else a new inbox.
Resolved(r) ==
  LET named == {l \in Lanes : roster[l].known /\ agent[l] = r}
      live == {l \in named : roster[l].live}
  IN  IF r \in boxes \/ named = {} THEN {r}
      ELSE IF live # {} THEN live ELSE named

Post(kind) ==
  /\ Len(posted) < MaxMessages
  /\ posted' = Append(posted, kind)

New == Len(posted) + 1

\* message_peer is for the worker of a batch.
Peer(l) == l \in Talkers /\ work[l][1].phase = "running" /\ UNCHANGED work

\* The message is sent, and the answer is what was pending for the sender, in
\* one step: what others send between the two might as well have come first.
DeliverAndTake(K, l) ==
  LET filled == [k \in Keys |-> IF k \in K THEN Append(inbox[k], New) ELSE inbox[k]]
      own == {l, agent[l]}
      fallen == UNION {Evicted(filled[k]) \X {k} : k \in K}
      read == UNION {Range(Kept(filled[k])) : k \in own}
  IN  /\ inbox' = [k \in Keys |-> IF k \in own THEN <<>> ELSE Kept(filled[k])]
      /\ taken' = taken \union fallen \union (read \X {l})

\* To a role of the batch or to the sender's own lane.
PeerSends(l) ==
  /\ Peer(l)
  /\ Post("direct")
  /\ \E k \in {l} \union UNION {Resolved(agent[j]) : j \in Lanes} :
       /\ DeliverAndTake({k}, l)
       /\ boxes' = boxes \union ({k} \cap Roles)
  /\ UNCHANGED <<agent, roster, killed, broadcasts, lost, journal, sink, calls, faults>>

LastOf(q, n) == SubSeq(q, IF Len(q) > n THEN Len(q) - n + 1 ELSE 1, Len(q))

\* The lanes a broadcast reaches at once: live, of another role.
Audience(l) == {k \in Lanes : Live(k) /\ agent[k] # agent[l]}

\* To `all`.
PeerBroadcasts(l) ==
  /\ Peer(l)
  /\ Post(agent[l])
  /\ DeliverAndTake(Audience(l), l)
  /\ broadcasts' = LastOf(Append(broadcasts, New), MaxBroadcasts)
  /\ UNCHANGED <<agent, roster, killed, boxes, lost, journal, sink, calls, faults>>

\* The main turn notices the kill flag at one of its await points.
KilledExit(l, n) ==
  /\ work[l][n].phase = "running"
  /\ work[l][n].extra = 0
  /\ IsKilled(l)
  /\ Ends(l, n)
  /\ UNCHANGED <<agent, hub, journal, sink, calls, faults>>

\* The child fails or times out, at any await point.
WorkFails(l, n) ==
  /\ work[l][n].phase = "running"
  /\ Ends(l, n)
  /\ UNCHANGED <<agent, hub, journal, sink, calls, faults>>

TurnEnds(l, n) ==
  /\ Moves(l, n, "running", "boundary")
  /\ UNCHANGED <<agent, hub, journal, sink, calls, faults>>

\* Between turns: a killed run, or one that had its follow-ups, is done.
Boundary(l, n) ==
  /\ IF IsKilled(l) \/ work[l][n].extra = MaxExtras
     THEN work[l][n].phase = "boundary" /\ Ends(l, n)
     ELSE Moves(l, n, "boundary", "drain")
  /\ UNCHANGED <<agent, hub, journal, sink, calls, faults>>

\* The pending messages make a follow-up turn; without any the run is done.
FollowUp(l, n) ==
  /\ work[l][n].phase = "drain"
  /\ inbox' = Drained(l)
  /\ Takes(l, Pending(l))
  /\ IF Pending(l) = {}
     THEN Ends(l, n)
     ELSE work' = [work EXCEPT ![l][n] = [phase |-> "running", extra |-> @.extra + 1]]
  /\ UNCHANGED <<agent, roster, killed, boxes, broadcasts, posted, lost, journal, sink, calls, faults>>

-----------------------------------------------------------------------------
(* The end of a run *)

Result(l, n) == [lane |-> l, run |-> n]

\* The end of a run is appended if it is still the open one, and refused else.
Closed(l, n) == IF op[l] = n THEN [op EXCEPT ![l] = 0] ELSE op

\* A mutant of Settled: the run is not compared.
SettledAny(l, n) ==
  IF ~roster[l].known THEN roster
  ELSE [roster EXCEPT ![l].live = FALSE,
          ![l].outcome = IF IsKilled(l) THEN "killed" ELSE "ended"]

\* A mutant of Settled: the kill flag does not decide the outcome.
SettledAsRun(l, n) ==
  IF ~roster[l].known \/ roster[l].run # n THEN roster
  ELSE [roster EXCEPT ![l].live = FALSE, ![l].outcome = "ended"]

\* settle_run: ignored for a run the lane no longer shows.
Settled(l, n) ==
  IF ~roster[l].known \/ roster[l].run # n THEN roster
  ELSE [roster EXCEPT ![l].live = FALSE,
          ![l].outcome = IF IsKilled(l) THEN "killed" ELSE "ended"]

KeepsResult(l, n) == sink' = sink \union {Result(l, n)}

\* commit_subagent_lane looks whether the run is open; a run that was ended by
\* a kill is committed as it is.
Commit(l, n) ==
  /\ IF op[l] = n
     THEN Moves(l, n, "done", "closing") /\ UNCHANGED sink
     ELSE Moves(l, n, "done", "committed") /\ KeepsResult(l, n)
  /\ UNCHANGED <<agent, hub, journal, calls, faults>>

\* The end is appended, and refused when a kill was faster: then the worker
\* returns, as after a failed write.
Finish(l, n) ==
  /\ Moves(l, n, "closing", IF op[l] = n THEN "committed" ELSE "over")
  /\ op' = Closed(l, n)
  /\ KeepsResult(l, n)
  /\ UNCHANGED <<agent, hub, aborted, calls, faults>>

\* A mutant of CommitFails: the result is not kept for the parent.
CommitFailsLost(l, n) ==
  /\ faults < MaxFaults
  /\ faults' = faults + 1
  /\ Moves(l, n, "done", "over") \/ Moves(l, n, "closing", "over")
  /\ UNCHANGED <<agent, hub, journal, sink, calls>>

\* The commit fails: the worker returns and tells the hub nothing.
CommitFails(l, n) ==
  /\ faults < MaxFaults
  /\ faults' = faults + 1
  /\ Moves(l, n, "done", "over") \/ Moves(l, n, "closing", "over")
  /\ KeepsResult(l, n)
  /\ UNCHANGED <<agent, hub, journal, calls>>

Settle(l, n) ==
  /\ Moves(l, n, "committed", "over")
  /\ roster' = Settled(l, n)
  /\ UNCHANGED <<agent, killed, inbox, boxes, broadcasts, posted, lost, taken,
                 journal, sink, calls, faults>>

\* commit_completed_subagent_lanes: the parent commits every result it finds,
\* also those a worker committed, and settles the lane again.
ParentCommits(c) ==
  /\ c \in sink
  /\ sink' = sink \ {c}
  /\ op' = Closed(c.lane, c.run)
  /\ roster' = Settled(c.lane, c.run)
  /\ UNCHANGED <<agent, killed, inbox, boxes, broadcasts, posted, lost, taken,
                 aborted, work, calls, faults>>

-----------------------------------------------------------------------------
(* The parent's calls *)

\* hub send, to a lane of the roster.
ParentSends(l) ==
  /\ l \in Addressed /\ roster[l].known
  /\ Post("direct")
  /\ Deliver(l, <<New>>)
  /\ UNCHANGED <<agent, roster, killed, boxes, broadcasts, lost, journal, work, sink, calls, faults>>

Called == called < MaxCalls /\ called' = called + 1

NoKill == [at |-> "idle", run |-> 0]

Killing(l, from, to) == kill[l].at = from /\ kill' = [kill EXCEPT ![l].at = to]

\* kill_lane finds the lane live, and remembers the run it shows.
KillBegins(l) ==
  /\ l \in Addressed /\ kill[l].at = "idle"
  /\ Live(l)
  /\ kill' = [kill EXCEPT ![l] = [at |-> "flag", run |-> roster[l].run]]
  /\ Called
  /\ UNCHANGED <<agent, hub, journal, work, sink, revive, faults>>

KillFlags(l) ==
  /\ Killing(l, "flag", "notice")
  /\ killed' = killed \union {l, agent[l]}
  /\ UNCHANGED <<agent, roster, inbox, boxes, broadcasts, posted, lost, taken,
                 journal, work, sink, revive, called, faults>>

\* The shutdown notice; at the bound on messages the kill goes on without it.
KillNotifies(l) ==
  /\ Killing(l, "notice", "abort")
  /\ IF Len(posted) < MaxMessages
     THEN Post("notice") /\ Deliver(l, <<New>>)
     ELSE UNCHANGED <<posted, inbox, taken>>
  /\ UNCHANGED <<agent, roster, killed, boxes, broadcasts, lost, journal, work, sink, revive, called, faults>>

\* finish_subagent_lane(Aborted) looks whether the run is open.  A failure,
\* here or below, is noted and the kill goes on.
KillAborts(l) ==
  /\ \/ Killing(l, "abort", IF op[l] = kill[l].run THEN "close" ELSE "settle") /\ UNCHANGED faults
     \/ /\ Killing(l, "abort", "settle")
        /\ faults < MaxFaults
        /\ faults' = faults + 1
  /\ UNCHANGED <<agent, hub, journal, work, sink, revive, called>>

\* After the results of its tools and the abort request its end is appended,
\* and refused when the worker was faster.
KillCloses(l) ==
  /\ Killing(l, "close", "settle")
  /\ \/ /\ op' = Closed(l, kill[l].run)
        /\ aborted' = IF op[l] = kill[l].run THEN aborted \union {<<l, op[l]>>} ELSE aborted
        /\ UNCHANGED faults
     \/ /\ faults < MaxFaults
        /\ faults' = faults + 1
        /\ UNCHANGED journal
  /\ UNCHANGED <<agent, hub, work, sink, revive, called>>

KillSettles(l) ==
  /\ Killing(l, "settle", "outcome")
  /\ roster' = [roster EXCEPT ![l].live = FALSE]
  /\ UNCHANGED <<agent, killed, inbox, boxes, broadcasts, posted, lost, taken,
                 journal, work, sink, revive, called, faults>>

KillEnds(l) ==
  /\ kill[l].at = "outcome"
  /\ kill' = [kill EXCEPT ![l] = NoKill]
  /\ roster' = [roster EXCEPT ![l].outcome = "killed"]
  /\ UNCHANGED <<agent, killed, inbox, boxes, broadcasts, posted, lost, taken,
                 journal, work, sink, revive, called, faults>>

NoRevive == [at |-> "idle", notes |-> {}]

\* revive_lane finds the lane settled.
ReviveBegins(l) ==
  /\ l \in Addressed /\ revive[l].at = "idle"
  /\ roster[l].known /\ ~roster[l].live
  /\ Started(l) # Runs
  /\ revive' = [revive EXCEPT ![l].at = "drain"]
  /\ Called
  /\ UNCHANGED <<agent, hub, journal, work, sink, kill, faults>>

Notices(M) == {m \in M : posted[m] = "notice"}

\* revive_subagent_lane first takes the queued notes, and drops the notices.
ReviveDrains(l) ==
  /\ revive[l].at = "drain"
  /\ revive' = [revive EXCEPT ![l] = [at |-> "resume", notes |-> Pending(l) \ Notices(Pending(l))]]
  /\ Takes(l, Notices(Pending(l)))
  /\ inbox' = Drained(l)
  /\ UNCHANGED <<agent, roster, killed, boxes, broadcasts, posted, lost, journal, work, sink, kill, called, faults>>

\* The revival is refused: the lane has an open run, or its model, its
\* workspace or its contract does not fit.  The notes are not put back.
ReviveRefused(l) ==
  /\ revive[l].at = "resume"
  /\ revive' = [revive EXCEPT ![l] = NoRevive]
  /\ Takes(l, revive[l].notes)
  /\ lost' = lost \union (revive[l].notes \X {l})
  /\ UNCHANGED <<agent, roster, killed, inbox, boxes, broadcasts, posted,
                 journal, work, sink, kill, called, faults>>

\* A mutant of Resumable: the open run is not looked at.
ResumableAlways(l) == Started(l) # Runs

\* resume_subagent_lane refuses a lane with an open run.
Resumable(l) == op[l] = 0 /\ Started(l) # Runs

NextRun(l) == Cardinality(Started(l)) + 1

\* The follow-up run is open in the journal, with the notes in its prompt.
ReviveResumes(l) ==
  LET n == NextRun(l)
  IN  /\ revive[l].at = "resume"
      /\ Resumable(l)
      /\ revive' = [revive EXCEPT ![l] = NoRevive]
      /\ op' = [op EXCEPT ![l] = n]
      /\ work' = [work EXCEPT ![l][n].phase = "accepted"]
      /\ Takes(l, revive[l].notes)
      /\ UNCHANGED <<agent, roster, killed, inbox, boxes, broadcasts, posted, lost,
                     aborted, sink, kill, called, faults>>

\* A write after the acceptance fails: the run is open and nobody works on it.
ReviveStrands(l) ==
  LET n == NextRun(l)
  IN  /\ revive[l].at = "resume"
      /\ Resumable(l)
      /\ faults < MaxFaults
      /\ faults' = faults + 1
      /\ revive' = [revive EXCEPT ![l] = NoRevive]
      /\ op' = [op EXCEPT ![l] = n]
      /\ work' = [work EXCEPT ![l][n].phase = "over"]
      /\ Takes(l, revive[l].notes)
      /\ UNCHANGED <<agent, roster, killed, inbox, boxes, broadcasts, posted, lost,
                     aborted, sink, kill, called>>

-----------------------------------------------------------------------------
Init ==
  /\ agent \in Assignments
  /\ roster = [l \in Lanes |-> [known |-> FALSE, live |-> FALSE, run |-> 0, outcome |-> "none"]]
  /\ killed = {}
  /\ inbox = [k \in Keys |-> <<>>]
  /\ boxes = {}
  /\ broadcasts = <<>>
  /\ posted = <<>>
  /\ taken = {} /\ lost = {}
  /\ op = [l \in Lanes |-> 0]
  /\ aborted = {}
  /\ work = [l \in Lanes |-> [n \in Runs |-> Resting]]
  /\ sink = {}
  /\ kill = [l \in Lanes |-> NoKill]
  /\ revive = [l \in Lanes |-> NoRevive]
  /\ called = 0 /\ faults = 0

\* The steps a worker takes by itself, once it has one to take.
Worker(l, n) ==
  \/ Register(l, n)
  \/ TurnEnds(l, n)
  \/ Boundary(l, n)
  \/ FollowUp(l, n)
  \/ Commit(l, n) \/ Finish(l, n)
  \/ Settle(l, n)

Mishap(l, n) == KilledExit(l, n) \/ WorkFails(l, n) \/ CommitFails(l, n)

Kill(l) ==
  \/ KillFlags(l) \/ KillNotifies(l) \/ KillAborts(l) \/ KillCloses(l)
  \/ KillSettles(l) \/ KillEnds(l)

Revive(l) == ReviveDrains(l) \/ ReviveRefused(l) \/ ReviveResumes(l) \/ ReviveStrands(l)

Next ==
  \/ \E l \in Lanes :
       \/ StartLane(l) \/ StartFails(l) \/ PeerSends(l) \/ PeerBroadcasts(l)
       \/ ParentSends(l) \/ KillBegins(l) \/ Kill(l) \/ ReviveBegins(l) \/ Revive(l)
       \/ \E n \in Runs : Worker(l, n) \/ Mishap(l, n)
  \/ \E c \in sink : ParentCommits(c)

Spec == Init /\ [][Next]_vars

-----------------------------------------------------------------------------
(* What must hold *)

\* Every variable has its type.
TypeOK ==
  /\ agent \in [Lanes -> Roles]
  /\ roster \in [Lanes -> [known : BOOLEAN, live : BOOLEAN, run : 0 .. MaxRuns,
                            outcome : {"none", "ended", "killed"}]]
  /\ killed \subseteq Keys /\ boxes \subseteq Roles
  /\ posted \in Seq(Roles \union {"direct", "notice"})
  /\ Len(posted) <= MaxMessages
  /\ inbox \in [Keys -> Seq(Messages)]
  /\ \A k \in Keys : Len(inbox[k]) <= InboxDepth
  /\ broadcasts \in Seq(Messages) /\ Len(broadcasts) <= MaxBroadcasts
  /\ taken \subseteq Messages \X Keys /\ lost \subseteq taken
  /\ op \in [Lanes -> 0 .. MaxRuns]
  /\ aborted \subseteq Lanes \X Runs
  /\ work \in [Lanes -> [Runs ->
       [phase : {"none", "accepted", "running", "boundary", "drain", "done", "closing",
                 "committed", "over"},
        extra : 0 .. MaxExtras]]]
  /\ sink \subseteq [lane : Lanes, run : Runs]
  /\ kill \in [Lanes -> [at : {"idle", "flag", "notice", "abort", "close", "settle", "outcome"},
                          run : 0 .. MaxRuns]]
  /\ revive \in [Lanes -> [at : {"idle", "drain", "resume"}, notes : SUBSET Messages]]
  /\ called \in 0 .. MaxCalls
  /\ faults \in 0 .. MaxFaults

Copies(m, K, L) ==
  Cardinality({k \in K : m \in Range(inbox[k])})
  + Cardinality({t \in taken \ lost : t[1] = m /\ t[2] \in K})
  + Cardinality({l \in L : m \in revive[l].notes})

\* A message to one lane or role is at any time in exactly one place: in an
\* inbox, given to one run, in the hands of a revival, or evicted or filtered.
\* A message that a refused revival dropped is in none, and nobody ever hears
\* it (NotesKept says that there is no such message).  No run hears one twice
\* and no two runs hear it, however lanes share a role and registrations and
\* drains mix.
Accounted ==
  \A m \in Messages :
    posted[m] \notin Roles =>
      Copies(m, Keys, Lanes) = IF \E k \in Keys : <<m, k>> \in lost THEN 0 ELSE 1

\* A broadcast reaches a lane at most once, at once or when it registers, and
\* never the sender's own role (the doc of HubInner's pending broadcasts and of
\* send: delivery must not be duplicated nor echo to the sender).
BroadcastOnce ==
  \A m \in Messages, l \in Lanes :
    posted[m] \in Roles =>
      Copies(m, {l}, {l}) <= IF Sibling(m, l) THEN 1 ELSE 0

\* No message is heard twice or by two runs, and none disappears but by the
\* eviction of a full inbox, the filtering of a notice or a refused revival:
\* the two parts above.
DeliveredOnce == Accounted /\ BroadcastOnce

\* A note that waits for a settled lane is not lost when the lane is revived
\* (the comment of revive_subagent_lane): it is in the prompt of the follow-up
\* run or waits on.  The code breaks it: the note is read before the revival
\* may be refused.
NotesKept == lost = {}

\* Two workers act for one lane only if the journal ended the older one's run
\* as aborted: a revival never runs beside a run that is still open.
OneRunner ==
  \A l \in Lanes, n \in Runs : Executing(l, n) => op[l] = n \/ <<l, n>> \in aborted

\* A lane whose own kill flag stands is listed as killed once it is settled,
\* whatever the worker and the parent report after or before the kill.
KilledStaysKilled ==
  \A l \in Lanes :
    l \in killed /\ ~roster[l].live /\ kill[l].at = "idle" => roster[l].outcome = "killed"

\* A live lane is settled only by a kill or when the run it shows has ended:
\* a late completion of an older run does not settle a revived one.
SettledByOwn ==
  [][\A l \in Lanes :
       Live(l) /\ ~Live(l)' =>
         kill[l].at = "settle" \/ work[l][roster[l].run].phase \in {"committed", "over"}]_vars

\* A lane that is listed live is one that somebody will still settle: a worker
\* acts for the run it shows, or the result of that run waits in the sink.  No
\* failed commit leaves `hub wait` with a lane whose worker is long over.
LiveIsOwed ==
  \A l \in Lanes :
    Live(l) =>
      LET n == roster[l].run
      IN  \/ Executing(l, n) \/ work[l][n].phase = "committed"
          \/ Result(l, n) \in sink
=============================================================================
