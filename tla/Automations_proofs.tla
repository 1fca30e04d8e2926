-------------------------- MODULE Automations_proofs --------------------------
(***************************************************************************)
(* Theorems about Automations, for any definitions, schedules and budgets: *)
(* failing writes, crashes, commands and requests to the user neither run  *)
(* a scheduled occurrence twice nor let a run end untracked or untrue.     *)
(***************************************************************************)
EXTENDS Automations, WellFoundedInduction, SequenceTheorems, TLAPS

-----------------------------------------------------------------------------
(* The inductive invariant.  First, what is true of a snapshot, of the one *)
(* in memory and of the one that would be found after a crash.             *)

Statuses == Claimed \union Ended \union {"queued"}
Files == {"none", "stub", "session"}
DefType == [on : BOOLEAN, anchor : Nat, failures : Nat, next : Nat]
RunType == [def : Defs, due : Nat, status : Statuses, file : Files]
SnapType == [defs : [Defs -> DefType], runs : Seq(RunType)]

SnapTyped(s) ==
  /\ s \in SnapType /\ Len(s.runs) <= MaxRuns
  /\ \A d \in Defs : s.defs[d].on <=> s.defs[d].next > 0

(* It knows of every dispatch; and the active run has ended only with the  *)
(* completion the actor still has to confirm.                              *)
SnapKnows(s) ==
  /\ \A r \in RunIds : dispatches[r] > 0 => r \in DOMAIN s.runs /\ s.runs[r].status # "queued"
  /\ active.run # 0 =>
       /\ active.run \in DOMAIN s.runs /\ s.runs[active.run].status # "queued"
       /\ s.runs[active.run].status \in Ended => s.runs[active.run].status = active.completion

(* No occurrence lies in the future or is as late as the next one.         *)
SnapDue(s) ==
  \A r \in DOMAIN s.runs : s.runs[r].due > 0 =>
    /\ s.runs[r].due <= clock
    /\ s.defs[s.runs[r].def].on => s.runs[r].due < s.defs[s.runs[r].def].next
    /\ \A q \in 1 .. r - 1 : s.runs[q].def = s.runs[r].def => s.runs[q].due < s.runs[r].due

Succeeded(r) == journal[r].op = "completed" /\ journal[r].report = "succeeded"
LocatedIn(s, r) ==
  \/ s.runs[r].file = "session"
  \/ s.runs[r].file = "stub" /\ s.runs[r].def \notin Worktrees

(* What it says of an ended run agrees with the run's journal.             *)
SnapTrue(s) ==
  \A r \in DOMAIN s.runs : s.runs[r].status \in Ended =>
    /\ s.runs[r].status = "succeeded" => Succeeded(r)
    /\ LocatedIn(s, r) /\ journal[r].outcome # "none" => s.runs[r].status = journal[r].outcome

Snap(s) == SnapTyped(s) /\ SnapKnows(s) /\ SnapDue(s) /\ SnapTrue(s)
SnapsOK == mem \in disk /\ \A s \in disk : Snap(s)

(* A run that is claimed but not active was never dispatched.              *)
Tracks(s) ==
  \A r \in DOMAIN s.runs :
    s.runs[r].status \in Claimed /\ r # active.run => s.runs[r].status = "starting" /\ dispatches[r] = 0
TracksOK == pc \notin {"down", "recover"} => \A s \in {mem} : Tracks(s)

-----------------------------------------------------------------------------
(* Lemmas about the schedule.                                              *)

LEMMA PeriodFact == Period \in Nat \ {0} /\ PauseAfter \in Nat \ {0} /\ MaxRuns \in Nat
BY AutomationsAssumption

(* The next occurrence is in the future.                                   *)
LEMMA NextAtFacts ==
  ASSUME NEW at \in Nat, NEW anchor \in Nat
  PROVE  NextAt(at, anchor) \in Nat /\ NextAt(at, anchor) > at
<1>1. CASE at < anchor
  BY <1>1, PeriodFact DEF NextAt
<1>2. CASE at >= anchor
  <2> DEFINE n == (at - anchor) \div Period
  <2>1. n \in Nat /\ at - anchor < (n + 1) * Period
    BY <1>2, PeriodFact
  <2>2. anchor + (n + 1) * Period \in Nat /\ anchor + (n + 1) * Period > at
    <3>1. PICK k \in Nat : k = n
      BY <2>1
    <3>2. PICK q \in Int : q = (k + 1) * Period
      BY <3>1, PeriodFact
    <3> QED BY <1>2, <2>1, <3>1, <3>2
  <2> QED BY <1>2, <2>2 DEF NextAt
<1> QED BY <1>1, <1>2

(* The occurrence that is run is the latest one that is due.               *)
LEMMA LatestDueFacts ==
  ASSUME NEW due \in Nat, NEW at \in Nat, due <= at
  PROVE  LatestDue(due, at) \in Nat /\ due <= LatestDue(due, at) /\ LatestDue(due, at) <= at
<1> DEFINE n == (at - due) \div Period
<1>1. n \in Nat /\ n * Period \in Nat /\ n * Period <= at - due
  BY PeriodFact
<1> QED BY <1>1 DEF LatestDue

-----------------------------------------------------------------------------
(* Lemmas about the snapshots the store's operations make.                 *)

LEMMA SnapFields ==
  ASSUME NEW s \in SnapType
  PROVE  /\ s = [defs |-> s.defs, runs |-> s.runs]
         /\ s.defs \in [Defs -> DefType] /\ s.runs \in Seq(RunType)
         /\ Len(s.runs) \in Nat /\ DOMAIN s.runs = 1 .. Len(s.runs)
         /\ \A r \in DOMAIN s.runs :
              /\ s.runs[r] \in RunType /\ s.runs[r].def \in Defs /\ s.runs[r].due \in Nat
              /\ s.runs[r].status \in Statuses /\ s.runs[r].file \in Files
         /\ \A d \in Defs :
              /\ s.defs[d] \in DefType /\ s.defs[d].on \in BOOLEAN /\ s.defs[d].anchor \in Nat
              /\ s.defs[d].failures \in Nat /\ s.defs[d].next \in Nat
<1>1. PICK ds \in [Defs -> DefType], rs \in Seq(RunType) : s = [defs |-> ds, runs |-> rs]
  BY DEF SnapType
<1>2. s.defs = ds /\ s.runs = rs
  BY <1>1
<1>3. Len(rs) \in Nat /\ DOMAIN rs = 1 .. Len(rs)
  BY LenProperties
<1>4. \A r \in DOMAIN rs : rs[r] \in RunType
  BY <1>3, ElementOfSeq
<1>5. \A run \in RunType :
        run.def \in Defs /\ run.due \in Nat /\ run.status \in Statuses /\ run.file \in Files
  BY DEF RunType
<1>6. \A def \in DefType :
        /\ def.on \in BOOLEAN /\ def.anchor \in Nat /\ def.failures \in Nat /\ def.next \in Nat
  BY DEF DefType
<1>7. \A d \in Defs : ds[d] \in DefType
  OBVIOUS
<1> HIDE DEF RunType, DefType, Statuses, Files
<1> QED BY <1>1, <1>2, <1>3, <1>4, <1>5, <1>6, <1>7

(* A snapshot given by its two parts.                                      *)
LEMMA SnapMake ==
  ASSUME NEW ds \in [Defs -> DefType], NEW rs \in Seq(RunType)
  PROVE  [defs |-> ds, runs |-> rs] \in SnapType
BY DEF SnapType

LEMMA QueuedFacts ==
  ASSUME NEW s \in SnapType, NEW d \in Defs, NEW due \in Nat,
         NEW t, t = Queued(s, d, due)
  PROVE  /\ t \in SnapType /\ t.defs = s.defs
         /\ Len(t.runs) = Len(s.runs) + 1 /\ DOMAIN t.runs = 1 .. Len(s.runs) + 1
         /\ \A r \in DOMAIN s.runs : t.runs[r] = s.runs[r]
         /\ t.runs[Len(s.runs) + 1].def = d /\ t.runs[Len(s.runs) + 1].due = due
         /\ t.runs[Len(s.runs) + 1].status = "queued"
<1> DEFINE run == [def |-> d, due |-> due, status |-> "queued", file |-> "none"]
           rs == Append(s.runs, run)
<1>1. run \in RunType
  BY DEF RunType, Statuses, Files
<1>2. s.runs \in Seq(RunType) /\ s = [defs |-> s.defs, runs |-> s.runs]
      /\ s.defs \in [Defs -> DefType] /\ Len(s.runs) \in Nat /\ DOMAIN s.runs = 1 .. Len(s.runs)
  BY SnapFields
<1>3. t = [defs |-> s.defs, runs |-> rs]
  BY <1>2 DEF Queued
<1>4. rs \in Seq(RunType) /\ Len(rs) = Len(s.runs) + 1
      /\ (\A i \in 1 .. Len(s.runs) : rs[i] = s.runs[i]) /\ rs[Len(s.runs) + 1] = run
  BY <1>1, <1>2, AppendProperties
<1>5. DOMAIN rs = 1 .. Len(s.runs) + 1
  BY <1>4, LenProperties
<1>6. run.def = d /\ run.due = due /\ run.status = "queued"
  OBVIOUS
<1> HIDE DEF run, rs
<1>7. t \in SnapType /\ t.defs = s.defs /\ t.runs = rs
  BY <1>2, <1>3, <1>4, SnapMake
<1> QED BY <1>2, <1>4, <1>5, <1>6, <1>7

(* Settling a run counts its failures, and may pause the schedule.         *)
LEMMA CountedFacts ==
  ASSUME NEW def \in DefType, NEW st, NEW c, c = Counted(def, st)
  PROVE  /\ c \in DefType
         /\ c.on => def.on /\ c.next = def.next
         /\ (def.on <=> def.next > 0) => (c.on <=> c.next > 0)
<1>1. PICK o \in BOOLEAN, a \in Nat, n \in Nat, x \in Nat :
        def = [on |-> o, anchor |-> a, failures |-> n, next |-> x]
  BY DEF DefType
<1>2. PICK m \in Nat : m = IF st \in {"failed", "interrupted"} THEN n + 1 ELSE IF st = "succeeded" THEN 0 ELSE n
  OBVIOUS
<1>3. PICK e : e = [on |-> o, anchor |-> a, failures |-> m, next |-> x]
  OBVIOUS
<1>4. [def EXCEPT !.failures = IF st \in {"failed", "interrupted"} THEN @ + 1
                               ELSE IF st = "succeeded" THEN 0 ELSE @] = e
  BY <1>1, <1>2, <1>3
<1>5. c = Paused(e)
  BY <1>4 DEF Counted, Paused
<1>6. c = e \/ c = [on |-> FALSE, anchor |-> a, failures |-> m, next |-> 0]
  BY <1>3, <1>5 DEF Paused
<1>7. CASE c = e
  BY <1>1, <1>3, <1>7 DEF DefType
<1>8. CASE c = [on |-> FALSE, anchor |-> a, failures |-> m, next |-> 0]
  BY <1>8 DEF DefType
<1> QED BY <1>6, <1>7, <1>8

LEMMA UpdatedFacts ==
  ASSUME NEW s \in SnapType, NEW r \in DOMAIN s.runs, NEW st \in Statuses, NEW f \in Files,
         NEW t, t = Updated(s, r, st, f)
  PROVE  /\ t \in SnapType /\ Len(t.runs) = Len(s.runs) /\ DOMAIN t.runs = DOMAIN s.runs
         /\ \A q \in DOMAIN s.runs : q # r => t.runs[q] = s.runs[q]
         /\ t.runs[r].def = s.runs[r].def /\ t.runs[r].due = s.runs[r].due
         /\ s.runs[r].status \in Ended => t.runs[r] = s.runs[r]
         /\ s.runs[r].status \notin Ended =>
              t.runs[r].status = st /\ t.runs[r].file = IF f = "none" THEN s.runs[r].file ELSE f
         /\ \A d \in Defs :
              /\ t.defs[d].on => s.defs[d].on /\ t.defs[d].next = s.defs[d].next
              /\ (s.defs[d].on <=> s.defs[d].next > 0) => (t.defs[d].on <=> t.defs[d].next > 0)
<1>0. /\ s.defs \in [Defs -> DefType] /\ s.runs \in Seq(RunType) /\ Len(s.runs) \in Nat
      /\ DOMAIN s.runs = 1 .. Len(s.runs) /\ s.runs[r] \in RunType
      /\ s.runs[r].def \in Defs /\ s.runs[r].file \in Files
  BY SnapFields
<1>1. CASE s.runs[r].status \in Ended
  BY <1>1 DEF Updated
<1>2. CASE s.runs[r].status \notin Ended
  <2> DEFINE run == s.runs[r]
             ds == IF st \in Ended THEN [s.defs EXCEPT ![run.def] = Counted(@, st)] ELSE s.defs
             rs == [s.runs EXCEPT ![r] = [def |-> run.def, due |-> run.due, status |-> st,
                                          file |-> IF f = "none" THEN run.file ELSE f]]
  <2>1. t = [defs |-> ds, runs |-> rs]
    BY <1>2 DEF Updated
  <2>2. PICK nf \in Files : nf = IF f = "none" THEN run.file ELSE f
    BY <1>0
  <2>3. PICK nr : nr = [def |-> run.def, due |-> run.due, status |-> st, file |-> nf]
    OBVIOUS
  <2>4. rs = [s.runs EXCEPT ![r] = nr]
    BY <2>2, <2>3
  <2>5. nr \in RunType /\ nr.def = run.def /\ nr.due = run.due /\ nr.status = st /\ nr.file = nf
    BY <1>0, <2>3 DEF RunType
  <2>6. rs \in Seq(RunType) /\ Len(rs) = Len(s.runs) /\ rs[r] = nr
        /\ \A q \in DOMAIN s.runs : q # r => rs[q] = s.runs[q]
    BY <1>0, <2>4, <2>5, ExceptSeq
  <2>7. ds \in [Defs -> DefType] /\ \A d \in Defs :
              /\ ds[d].on => s.defs[d].on /\ ds[d].next = s.defs[d].next
              /\ (s.defs[d].on <=> s.defs[d].next > 0) => (ds[d].on <=> ds[d].next > 0)
    <3>1. CASE st \in Ended
      <4>1. PICK c : c = Counted(s.defs[run.def], st)
        OBVIOUS
      <4>2. s.defs[run.def] \in DefType
        BY <1>0
      <4>3. /\ c \in DefType /\ (c.on => s.defs[run.def].on /\ c.next = s.defs[run.def].next)
            /\ (s.defs[run.def].on <=> s.defs[run.def].next > 0) => (c.on <=> c.next > 0)
        BY <4>1, <4>2, CountedFacts
      <4>4. ds = [s.defs EXCEPT ![run.def] = c]
        BY <3>1, <4>1
      <4>5. s.defs \in [Defs -> DefType] /\ run.def \in Defs
        BY <1>0
      <4> HIDE DEF ds
      <4>6. ds \in [Defs -> DefType]
        BY <4>3, <4>4, <4>5
      <4>7. \A d \in Defs : ds[d] = IF d = run.def THEN c ELSE s.defs[d]
        BY <4>4, <4>5
      <4> QED BY <4>3, <4>6, <4>7
    <3>2. CASE st \notin Ended
      BY <1>0, <3>2
    <3> QED BY <3>1, <3>2
  <2> HIDE DEF ds, rs
  <2>8. t \in SnapType /\ t.defs = ds /\ t.runs = rs
    BY <2>1, <2>6, <2>7, SnapMake
  <2>9. DOMAIN rs = DOMAIN s.runs
    BY <1>0, <2>6, LenProperties
  <2> QED BY <1>2, <2>2, <2>5, <2>6, <2>7, <2>8, <2>9
<1> QED BY <1>1, <1>2

(* Turning a schedule on or off.                                           *)
LEMMA ToggledFacts ==
  ASSUME NEW s \in SnapType, NEW d \in Defs, NEW on \in BOOLEAN, NEW at \in Nat,
         NEW t, t = Toggled(s, d, on, at)
  PROVE  /\ t \in SnapType /\ Len(t.runs) = Len(s.runs) /\ DOMAIN t.runs = DOMAIN s.runs
         /\ \A r \in DOMAIN s.runs :
              \/ t.runs[r] = s.runs[r]
              \/ /\ s.runs[r].status = "queued" /\ t.runs[r].status = "cancelled"
                 /\ t.runs[r].def = s.runs[r].def /\ t.runs[r].due = s.runs[r].due
                 /\ t.runs[r].file = s.runs[r].file
         /\ \A e \in Defs : e # d => t.defs[e] = s.defs[e]
         /\ t.defs[d].on => t.defs[d].next > at
         /\ t.defs[d].on <=> t.defs[d].next > 0
<1>0. /\ s.defs \in [Defs -> DefType] /\ s.runs \in Seq(RunType) /\ Len(s.runs) \in Nat
      /\ DOMAIN s.runs = 1 .. Len(s.runs) /\ \A r \in DOMAIN s.runs : s.runs[r] \in RunType
  BY SnapFields
<1>1. PICK x \in Nat : x = NextAt(at, at) /\ x > at
  BY NextAtFacts
<1>2. PICK c \in DefType : c = Saved(on, at) /\ c.on = on /\ c.next = (IF on THEN x ELSE 0)
  <2>1. PICK n \in Nat : n = IF on THEN x ELSE 0
    OBVIOUS
  <2>2. PICK c : c = [on |-> on, anchor |-> at, failures |-> 0, next |-> n]
    OBVIOUS
  <2>3. c \in DefType /\ c.on = on /\ c.next = n
    BY <2>2 DEF DefType
  <2>4. c = Saved(on, at)
    BY <1>1, <2>1, <2>2 DEF Saved
  <2> QED BY <2>1, <2>3, <2>4
<1> DEFINE ds == [s.defs EXCEPT ![d] = c]
           off(r) == ~on /\ s.runs[r].def = d /\ s.runs[r].status = "queued" /\ s.runs[r].due > 0
           rs == [r \in DOMAIN s.runs |->
                    IF off(r) THEN [s.runs[r] EXCEPT !.status = "cancelled"] ELSE s.runs[r]]
<1>3. t = [defs |-> ds, runs |-> rs]
  BY <1>2 DEF Toggled
<1>4. ASSUME NEW r \in DOMAIN s.runs, NEW n, n = [s.runs[r] EXCEPT !.status = "cancelled"]
      PROVE  /\ n \in RunType /\ n.status = "cancelled" /\ n.def = s.runs[r].def /\ n.due = s.runs[r].due
             /\ n.file = s.runs[r].file
  <2>1. PICK e \in Defs, u \in Nat, w \in Statuses, g \in Files :
          s.runs[r] = [def |-> e, due |-> u, status |-> w, file |-> g]
    BY <1>0 DEF RunType
  <2>2. n = [def |-> e, due |-> u, status |-> "cancelled", file |-> g]
    BY <1>4, <2>1
  <2> QED BY <2>1, <2>2 DEF RunType, Statuses, Ended
<1>5. \A r \in DOMAIN s.runs :
        /\ rs[r] \in RunType
        /\ \/ rs[r] = s.runs[r]
           \/ /\ s.runs[r].status = "queued" /\ rs[r].status = "cancelled"
              /\ rs[r].def = s.runs[r].def /\ rs[r].due = s.runs[r].due /\ rs[r].file = s.runs[r].file
  BY <1>0, <1>4
<1>6. rs \in Seq(RunType) /\ DOMAIN rs = DOMAIN s.runs /\ Len(rs) = Len(s.runs)
  <2>1. rs \in [1 .. Len(s.runs) -> RunType]
    BY <1>0, <1>5
  <2> QED BY <1>0, <2>1, SeqDef, LenProperties
<1>7. ds \in [Defs -> DefType] /\ ds[d] = c /\ \A e \in Defs : e # d => ds[e] = s.defs[e]
  BY <1>0
<1> HIDE DEF ds, rs
<1>8. t \in SnapType /\ t.defs = ds /\ t.runs = rs
  BY <1>3, <1>6, <1>7, SnapMake
<1> QED BY <1>1, <1>2, <1>5, <1>6, <1>7, <1>8

(* A schedule's next occurrence moves.                                     *)
NextSet(s, d, n) == [s EXCEPT !.defs[d].next = n]

NextMoved(s, t, d, n) ==
  /\ t \in SnapType /\ t.runs = s.runs
  /\ \A e \in Defs : e # d => t.defs[e] = s.defs[e]
  /\ t.defs[d].on = s.defs[d].on /\ t.defs[d].next = n

LEMMA NextSetFacts ==
  ASSUME NEW s \in SnapType, NEW d \in Defs, NEW n \in Nat,
         NEW t, t = NextSet(s, d, n)
  PROVE  NextMoved(s, t, d, n)
<1>0. /\ s = [defs |-> s.defs, runs |-> s.runs] /\ s.defs \in [Defs -> DefType]
      /\ s.runs \in Seq(RunType)
  BY SnapFields
<1>1. PICK o \in BOOLEAN, a \in Nat, k \in Nat, x \in Nat :
        s.defs[d] = [on |-> o, anchor |-> a, failures |-> k, next |-> x]
  BY <1>0 DEF DefType
<1>2. PICK c : c = [on |-> o, anchor |-> a, failures |-> k, next |-> n]
  OBVIOUS
<1>3. c \in DefType /\ c.on = s.defs[d].on /\ c.next = n
  BY <1>1, <1>2 DEF DefType
<1>4. PICK ds : ds = [s.defs EXCEPT ![d] = c]
  OBVIOUS
<1>5. ds \in [Defs -> DefType] /\ ds[d] = c /\ \A e \in Defs : e # d => ds[e] = s.defs[e]
  BY <1>0, <1>3, <1>4
<1>6. [s.defs[d] EXCEPT !.next = n] = c
  BY <1>1, <1>2
<1>7. t = [defs |-> ds, runs |-> s.runs]
  BY <1>0, <1>4, <1>6 DEF NextSet
<1>8. t \in SnapType /\ t.runs = s.runs /\ t.defs = ds
  BY <1>0, <1>5, <1>7, SnapMake
<1> QED BY <1>3, <1>5, <1>8 DEF NextMoved

-----------------------------------------------------------------------------
(* The store's operations keep the truth of a snapshot.                    *)

LEMMA SnapQueued ==
  ASSUME NEW s, Snap(s), Len(s.runs) < MaxRuns, NEW d \in Defs, NEW due \in Nat,
         due > 0 =>
           /\ due <= clock
           /\ s.defs[d].on => due < s.defs[d].next
           /\ \A q \in DOMAIN s.runs : s.runs[q].def = d => s.runs[q].due < due,
         NEW t, t = Queued(s, d, due)
  PROVE  Snap(t)
<1>0. s \in SnapType
  BY DEF Snap, SnapTyped
<1>s. /\ Len(s.runs) \in Nat /\ DOMAIN s.runs = 1 .. Len(s.runs) /\ MaxRuns \in Nat
      /\ \A r \in DOMAIN s.runs : s.runs[r].def \in Defs /\ s.runs[r].due \in Nat
  BY <1>0, SnapFields, PeriodFact
<1>t. /\ t \in SnapType /\ t.defs = s.defs
      /\ Len(t.runs) = Len(s.runs) + 1 /\ DOMAIN t.runs = 1 .. Len(s.runs) + 1
      /\ \A r \in DOMAIN s.runs : t.runs[r] = s.runs[r]
      /\ t.runs[Len(s.runs) + 1].def = d /\ t.runs[Len(s.runs) + 1].due = due
      /\ t.runs[Len(s.runs) + 1].status = "queued"
  BY <1>0, QueuedFacts
<1>1. SnapTyped(t)
  BY <1>s, <1>t DEF Snap, SnapTyped
<1>d. DOMAIN s.runs \subseteq DOMAIN t.runs
      /\ \A r \in DOMAIN t.runs : r \in DOMAIN s.runs \/ r = Len(s.runs) + 1
  BY <1>s, <1>t
<1>2. SnapKnows(t)
  BY <1>t, <1>d DEF Snap, SnapKnows
<1>3. SnapDue(t)
  <2> SUFFICES ASSUME NEW r \in DOMAIN t.runs, t.runs[r].due > 0
               PROVE  /\ t.runs[r].due <= clock
                      /\ t.defs[t.runs[r].def].on => t.runs[r].due < t.defs[t.runs[r].def].next
                      /\ \A q \in 1 .. r - 1 :
                           t.runs[q].def = t.runs[r].def => t.runs[q].due < t.runs[r].due
    BY DEF SnapDue
  <2>1. CASE r \in DOMAIN s.runs
    <3>1. \A q \in 1 .. r - 1 : q \in DOMAIN s.runs
      BY <1>s, <2>1
    <3> QED BY <1>t, <2>1, <3>1 DEF Snap, SnapDue
  <2>2. CASE r = Len(s.runs) + 1
    <3>1. \A q \in 1 .. r - 1 : q \in DOMAIN s.runs
      BY <1>s, <2>2
    <3>2. t.runs[r].def = d /\ t.runs[r].due = due /\ due > 0
      BY <1>t, <2>2
    <3> QED BY <1>t, <3>1, <3>2
  <2> QED BY <1>d, <2>1, <2>2
<1>4. SnapTrue(t)
  <2>1. "queued" \notin Ended
    BY DEF Ended
  <2>2. \A r \in DOMAIN t.runs : t.runs[r].status \in Ended => r \in DOMAIN s.runs /\ t.runs[r] = s.runs[r]
    BY <1>t, <1>d, <2>1
  <2> QED BY <2>2 DEF Snap, SnapTrue, LocatedIn
<1> QED BY <1>1, <1>2, <1>3, <1>4 DEF Snap

(* The due occurrence is queued, and the next one lies ahead.              *)
LEMMA SnapDueQueued ==
  ASSUME NEW s, Snap(s), Len(s.runs) < MaxRuns, NEW d \in Defs, NEW at \in Nat, at = clock,
         s.defs[d].on, s.defs[d].next > 0, s.defs[d].next <= at,
         NEW t, t = Due(s, d, at)
  PROVE  Snap(t)
<1>0. s \in SnapType
  BY DEF Snap, SnapTyped
<1>s. /\ Len(s.runs) \in Nat /\ DOMAIN s.runs = 1 .. Len(s.runs)
      /\ \A r \in DOMAIN s.runs : s.runs[r].def \in Defs /\ s.runs[r].due \in Nat
      /\ s.defs[d].next \in Nat /\ s.defs[d].anchor \in Nat
  BY <1>0, SnapFields
<1>1. PICK n \in Nat : n = NextAt(at, s.defs[d].anchor) /\ n > at
  BY <1>s, NextAtFacts
<1>2. PICK due \in Nat : due = LatestDue(s.defs[d].next, at) /\ s.defs[d].next <= due /\ due <= at
  BY <1>s, LatestDueFacts
<1>3. PICK u : u = [s EXCEPT !.defs[d].next = n]
  OBVIOUS
<1>4. /\ u \in SnapType /\ u.runs = s.runs /\ (\A e \in Defs : e # d => u.defs[e] = s.defs[e])
      /\ u.defs[d].on = s.defs[d].on /\ u.defs[d].next = n
  <2>1. u = NextSet(s, d, n)
    BY <1>3 DEF NextSet
  <2>2. NextMoved(s, u, d, n)
    BY <1>0, <2>1, NextSetFacts
  <2> QED BY <2>2 DEF NextMoved
<1>5. t = Queued(u, d, due)
  <2>1. u = [s EXCEPT !.defs[d].next = NextAt(at, s.defs[d].anchor)]
    BY <1>1, <1>3
  <2> QED BY <1>2, <2>1, Zenon DEF Due
<1>6. Snap(u)
  <2>1. SnapTyped(u)
    <3>1. \A e \in Defs : u.defs[e].on <=> u.defs[e].next > 0
      <4>1. n > 0
        BY <1>1
      <4>2. \A e \in Defs : s.defs[e].on <=> s.defs[e].next > 0
        BY DEF Snap, SnapTyped
      <4>3. u.defs[d].on /\ u.defs[d].next > 0
        BY <1>4, <4>1
      <4>4. ASSUME NEW e \in Defs, e # d PROVE u.defs[e] = s.defs[e]
        BY <1>4, <4>4
      <4> QED BY <4>2, <4>3, <4>4
    <3> QED BY <1>4, <3>1 DEF Snap, SnapTyped
  <2>2. SnapKnows(u) /\ SnapTrue(u)
    BY <1>4 DEF Snap, SnapKnows, SnapTrue, LocatedIn
  <2>3. SnapDue(u)
    <3> SUFFICES ASSUME NEW r \in DOMAIN s.runs, s.runs[r].due > 0
                 PROVE  /\ s.runs[r].due <= clock
                        /\ u.defs[s.runs[r].def].on => s.runs[r].due < u.defs[s.runs[r].def].next
                        /\ \A q \in 1 .. r - 1 :
                             s.runs[q].def = s.runs[r].def => s.runs[q].due < s.runs[r].due
      BY <1>4 DEF SnapDue
    <3>1. CASE s.runs[r].def = d
      <4>1. s.runs[r].due <= clock /\ s.runs[r].due \in Nat
        BY <1>s DEF Snap, SnapDue
      <4>2. s.runs[r].due < n
        BY <1>1, <4>1
      <4> QED BY <1>4, <3>1, <4>1, <4>2 DEF Snap, SnapDue
    <3>2. CASE s.runs[r].def # d
      BY <1>s, <1>4, <3>2 DEF Snap, SnapDue
    <3> QED BY <3>1, <3>2
  <2> QED BY <2>1, <2>2, <2>3 DEF Snap
<1>7. \A q \in DOMAIN u.runs : u.runs[q].def = d => u.runs[q].due < due
  <2> SUFFICES ASSUME NEW q \in DOMAIN s.runs, s.runs[q].def = d PROVE s.runs[q].due < due
    BY <1>4
  <2>1. CASE s.runs[q].due > 0
    <3>1. s.runs[q].due < s.defs[d].next
      BY <2>1 DEF Snap, SnapDue
    <3> QED BY <1>s, <1>2, <3>1
  <2>2. CASE s.runs[q].due = 0
    BY <1>s, <1>2, <2>2
  <2> QED BY <1>s, <2>1, <2>2
<1>8. due <= clock /\ due < u.defs[d].next /\ Len(u.runs) < MaxRuns
  BY <1>1, <1>2, <1>4
<1> QED BY <1>5, <1>6, <1>7, <1>8, SnapQueued

(* A run may get a status that its journal bears out.                      *)
LEMMA SnapUpdated ==
  ASSUME NEW s, Snap(s), NEW r \in DOMAIN s.runs, NEW st \in Statuses \ {"queued"}, NEW f \in Files,
         s.runs[r].status \notin Ended /\ st \in Ended =>
           /\ f = "none"
           /\ st = "succeeded" => Succeeded(r)
           /\ LocatedIn(s, r) /\ journal[r].outcome # "none" => st = journal[r].outcome
           /\ r = active.run => st = active.completion,
         NEW t, t = Updated(s, r, st, f)
  PROVE  Snap(t)
<1>0. s \in SnapType
  BY DEF Snap, SnapTyped
<1>s. DOMAIN s.runs = 1 .. Len(s.runs) /\ \A q \in DOMAIN s.runs : s.runs[q].def \in Defs
  BY <1>0, SnapFields
<1>t. /\ t \in SnapType /\ Len(t.runs) = Len(s.runs) /\ DOMAIN t.runs = DOMAIN s.runs
      /\ \A q \in DOMAIN s.runs : q # r => t.runs[q] = s.runs[q]
      /\ t.runs[r].def = s.runs[r].def /\ t.runs[r].due = s.runs[r].due
      /\ s.runs[r].status \in Ended => t.runs[r] = s.runs[r]
      /\ s.runs[r].status \notin Ended =>
           t.runs[r].status = st /\ t.runs[r].file = IF f = "none" THEN s.runs[r].file ELSE f
      /\ \A d \in Defs :
           /\ t.defs[d].on => s.defs[d].on /\ t.defs[d].next = s.defs[d].next
           /\ (s.defs[d].on <=> s.defs[d].next > 0) => (t.defs[d].on <=> t.defs[d].next > 0)
  BY <1>0, UpdatedFacts
<1>1. SnapTyped(t)
  BY <1>t DEF Snap, SnapTyped
<1>2. SnapKnows(t)
  <2>1. \A q \in DOMAIN s.runs : s.runs[q].status # "queued" => t.runs[q].status # "queued"
    BY <1>t
  <2>2. active.run \in DOMAIN s.runs /\ t.runs[active.run].status \in Ended =>
          s.runs[active.run].status \in Ended \/ t.runs[active.run].status = active.completion
    BY <1>t
  <2>3. active.run \in DOMAIN s.runs /\ s.runs[active.run].status \in Ended =>
          t.runs[active.run].status = s.runs[active.run].status
    BY <1>t
  <2> QED BY <1>t, <2>1, <2>2, <2>3 DEF Snap, SnapKnows
<1>3. SnapDue(t)
  <2>1. \A q \in DOMAIN s.runs : t.runs[q].def = s.runs[q].def /\ t.runs[q].due = s.runs[q].due
    BY <1>t
  <2>2. \A q \in DOMAIN s.runs : \A p \in 1 .. q - 1 : p \in DOMAIN s.runs
    BY <1>0, SnapFields
  <2> SUFFICES ASSUME NEW q \in DOMAIN s.runs, s.runs[q].due > 0
               PROVE  /\ s.runs[q].due <= clock
                      /\ t.defs[s.runs[q].def].on => s.runs[q].due < t.defs[s.runs[q].def].next
                      /\ \A p \in 1 .. q - 1 :
                           t.runs[p].def = s.runs[q].def => t.runs[p].due < s.runs[q].due
    BY <1>t, <2>1 DEF SnapDue
  <2>3. /\ s.runs[q].due <= clock
        /\ s.defs[s.runs[q].def].on => s.runs[q].due < s.defs[s.runs[q].def].next
        /\ \A p \in 1 .. q - 1 :
             s.runs[p].def = s.runs[q].def => s.runs[p].due < s.runs[q].due
    BY DEF Snap, SnapDue
  <2>4. s.runs[q].def \in Defs
    BY <1>s
  <2> QED BY <1>t, <2>1, <2>2, <2>3, <2>4
<1>4. SnapTrue(t)
  <2> SUFFICES ASSUME NEW q \in DOMAIN s.runs, t.runs[q].status \in Ended
               PROVE  /\ t.runs[q].status = "succeeded" => Succeeded(q)
                      /\ LocatedIn(t, q) /\ journal[q].outcome # "none" =>
                           t.runs[q].status = journal[q].outcome
    BY <1>t DEF SnapTrue
  <2>1. CASE t.runs[q] = s.runs[q]
    BY <2>1 DEF Snap, SnapTrue, LocatedIn
  <2>2. CASE q = r /\ s.runs[r].status \notin Ended
    BY <1>t, <2>2 DEF LocatedIn
  <2> QED BY <1>t, <2>1, <2>2
<1> QED BY <1>1, <1>2, <1>3, <1>4 DEF Snap

(* Turning a schedule off cancels only what was never dispatched.          *)
LEMMA SnapToggled ==
  ASSUME NEW s, Snap(s), NEW d \in Defs, NEW on \in BOOLEAN, NEW at \in Nat, at = clock,
         \A r \in RunIds : dispatches[r] = 0 => journal[r] = NoJournal,
         dispatches \in [RunIds -> Nat],
         NEW t, t = Toggled(s, d, on, at)
  PROVE  Snap(t)
<1>0. s \in SnapType
  BY DEF Snap, SnapTyped
<1>s. /\ Len(s.runs) \in Nat /\ DOMAIN s.runs = 1 .. Len(s.runs) /\ DOMAIN s.runs \subseteq RunIds
      /\ \A r \in DOMAIN s.runs : s.runs[r].def \in Defs /\ s.runs[r].due \in Nat
  BY <1>0, SnapFields, PeriodFact DEF Snap, SnapTyped, RunIds
<1>t. /\ t \in SnapType /\ Len(t.runs) = Len(s.runs) /\ DOMAIN t.runs = DOMAIN s.runs
      /\ \A r \in DOMAIN s.runs :
           \/ t.runs[r] = s.runs[r]
           \/ /\ s.runs[r].status = "queued" /\ t.runs[r].status = "cancelled"
              /\ t.runs[r].def = s.runs[r].def /\ t.runs[r].due = s.runs[r].due
              /\ t.runs[r].file = s.runs[r].file
      /\ \A e \in Defs : e # d => t.defs[e] = s.defs[e]
      /\ t.defs[d].on => t.defs[d].next > at
      /\ t.defs[d].on <=> t.defs[d].next > 0
  BY <1>0, ToggledFacts
<1>n. /\ \A e \in Defs : t.defs[e].next \in Nat
      /\ \A r \in DOMAIN s.runs : t.runs[r].def = s.runs[r].def /\ t.runs[r].due = s.runs[r].due
  BY <1>t, SnapFields
<1>1. SnapTyped(t)
  BY <1>t DEF Snap, SnapTyped
<1>2. SnapKnows(t)
  BY <1>t DEF Snap, SnapKnows
<1>3. SnapDue(t)
  <2> SUFFICES ASSUME NEW r \in DOMAIN s.runs, s.runs[r].due > 0
               PROVE  /\ s.runs[r].due <= clock
                      /\ t.defs[s.runs[r].def].on => s.runs[r].due < t.defs[s.runs[r].def].next
                      /\ \A q \in 1 .. r - 1 :
                           t.runs[q].def = s.runs[r].def => t.runs[q].due < s.runs[r].due
    BY <1>t, <1>n DEF SnapDue
  <2>1. \A q \in 1 .. r - 1 : q \in DOMAIN s.runs
    BY <1>s
  <2>2. s.runs[r].due <= clock
    BY DEF Snap, SnapDue
  <2>3. t.defs[s.runs[r].def].on => s.runs[r].due < t.defs[s.runs[r].def].next
    <3>1. CASE s.runs[r].def = d
      BY <1>s, <1>t, <1>n, <2>2, <3>1
    <3>2. CASE s.runs[r].def # d
      BY <1>s, <1>t, <3>2 DEF Snap, SnapDue
    <3> QED BY <3>1, <3>2
  <2> QED BY <1>n, <2>1, <2>2, <2>3 DEF Snap, SnapDue
<1>4. SnapTrue(t)
  <2> SUFFICES ASSUME NEW r \in DOMAIN s.runs, t.runs[r].status \in Ended
               PROVE  /\ t.runs[r].status = "succeeded" => Succeeded(r)
                      /\ LocatedIn(t, r) /\ journal[r].outcome # "none" =>
                           t.runs[r].status = journal[r].outcome
    BY <1>t DEF SnapTrue
  <2>1. CASE t.runs[r] = s.runs[r]
    BY <2>1 DEF Snap, SnapTrue, LocatedIn
  <2>2. CASE s.runs[r].status = "queued" /\ t.runs[r].status = "cancelled"
    <3>1. dispatches[r] \in Nat /\ ~(dispatches[r] > 0)
      BY <1>s, <2>2 DEF Snap, SnapKnows
    <3>2. journal[r] = NoJournal
      BY <1>s, <3>1
    <3> QED BY <2>2, <3>2 DEF NoJournal
  <2> QED BY <1>t, <2>1, <2>2
<1> QED BY <1>1, <1>2, <1>3, <1>4 DEF Snap

-----------------------------------------------------------------------------
(* The inductive invariant, continued: the run's task and its journal, the *)
(* actor, and the events between them.                                     *)

Turns == {"none", "preparing", "prepared", "sent", "armed", "operating", "aborted", "lost", "done",
          "gone"}
Working == {"preparing", "sent", "armed", "operating", "aborted"}
JournalType ==
  [op : {"none", "open", "completed", "failed", "aborted", "abort_requested"},
   report : {"none", "succeeded", "failed"}, outcome : Outcomes]
ActiveType ==
  [run : 0 .. MaxRuns, runtime : BOOLEAN, cancellation : {"none", "cancelled", "failed"},
   completion : Outcomes, error : BOOLEAN]
EventType ==
  [kind : {"prepared"}, run : RunIds, ok : BOOLEAN] \union [kind : {"asks"}, run : RunIds, ask : Nat]
    \union [kind : {"error", "finished"}, run : RunIds]
AskType == [run : RunIds, kind : {"permission", "question"}]
Pcs == {"select", "record", "close", "retry", "reclose", "enqueue", "dispatch", "down", "recover"}

Typed ==
  /\ clock \in Nat /\ pc \in Pcs
  /\ active \in ActiveType
  /\ events \in Seq(EventType)
  /\ journal \in [RunIds -> JournalType]
  /\ turn \in [RunIds -> Turns]
  /\ dispatches \in [RunIds -> Nat]
  /\ asker \in Seq(AskType)

(* A run and its task: dispatched once, working only while it is active,   *)
(* and its operation is over only when its task is.                        *)
RunOK(r) ==
  /\ dispatches[r] \in 0 .. 1
  /\ dispatches[r] = 0 => turn[r] = "none" /\ journal[r] = NoJournal
  /\ turn[r] \in Working => active.run = r
  /\ turn[r] \in {"none", "preparing", "prepared", "sent", "armed"} =>
       journal[r].op = "none" /\ journal[r].report = "none"
  /\ journal[r].op = "completed" => turn[r] \in {"done", "gone"}
  /\ journal[r].outcome = "succeeded" => Succeeded(r)

(* The actor: what it has decided of its run is borne out by the journal,  *)
(* and the run's task is not at work any more.                             *)
ActorOK ==
  /\ active.run # 0 =>
       dispatches[active.run] = 1 /\ journal[active.run].outcome \in {"none", active.completion}
  /\ active.completion # "none" => active.run # 0 /\ turn[active.run] \in {"prepared", "done"}
  /\ active.completion = "succeeded" => Succeeded(active.run)
  /\ pc \in {"down", "recover"} => active = NoRun
  /\ pc \in {"record", "close", "retry", "reclose"} => active.completion # "none"

TasksOK == (\A r \in RunIds : RunOK(r)) /\ ActorOK

(* The end of a preparation and that of a turn are reported once, and      *)
(* before the actor has decided on the run.                                *)
IsEnd(e) == e.kind \in {"prepared", "finished"}
EventOK(e) ==
  /\ e.kind = "prepared" => turn[e.run] = "prepared"
  /\ e.kind = "finished" => turn[e.run] = "done"
  /\ IsEnd(e) /\ e.run = active.run => active.completion = "none"
Single(es) ==
  \A i, j \in DOMAIN es :
    IsEnd(es[i]) /\ es[j].kind = es[i].kind /\ es[j].run = es[i].run => i = j
EndsOnce == Single(events) /\ \A i \in DOMAIN events : EventOK(events[i])

Tasks == Typed /\ TasksOK /\ EndsOnce

(* The snapshots stay true when the run's task, its journal and the actor  *)
(* go on.                                                                  *)
Onward ==
  /\ clock' \in Nat /\ clock <= clock'
  /\ UNCHANGED dispatches
  /\ \A r \in RunIds : Succeeded(r) => Succeeded(r)'
  /\ \A r \in RunIds :
       \/ journal'[r].outcome = journal[r].outcome
       \/ r = active.run /\ journal'[r].outcome = active.completion
  /\ active'.run \in {0, active.run}
  /\ active'.run # 0 => active'.completion = active.completion \/ active.completion = "none"

LEMMA SnapInRuns ==
  ASSUME NEW s, SnapTyped(s)
  PROVE  /\ DOMAIN s.runs \subseteq RunIds /\ DOMAIN s.runs = 1 .. Len(s.runs) /\ Len(s.runs) \in Nat
         /\ \A r \in DOMAIN s.runs :
              s.runs[r].def \in Defs /\ s.runs[r].due \in Nat /\ s.runs[r].status \in Statuses
BY SnapFields, PeriodFact DEF SnapTyped, RunIds

LEMMA SnapOnward ==
  ASSUME Tasks, Onward, NEW s, Snap(s)
  PROVE  Snap(s)'
<1>0. /\ DOMAIN s.runs \subseteq RunIds /\ clock \in Nat /\ clock' \in Nat /\ clock <= clock'
      /\ \A r \in DOMAIN s.runs : s.runs[r].due \in Nat
  BY SnapInRuns DEF Snap, Tasks, Typed, Onward
<1>e. "none" \notin Ended
  BY DEF Ended
<1>1. SnapTyped(s)'
  BY DEF Snap, SnapTyped
<1>2. SnapKnows(s)'
  BY <1>e DEF Snap, SnapKnows, Onward
<1>3. SnapDue(s)'
  <2>1. ASSUME NEW r \in DOMAIN s.runs, s.runs[r].due <= clock PROVE s.runs[r].due <= clock'
    BY <1>0, <2>1
  <2> QED BY <2>1 DEF Snap, SnapDue
<1>4. SnapTrue(s)'
  <2> SUFFICES ASSUME NEW r \in DOMAIN s.runs, s.runs[r].status \in Ended
               PROVE  /\ s.runs[r].status = "succeeded" => Succeeded(r)'
                      /\ LocatedIn(s, r) /\ journal'[r].outcome # "none" =>
                           s.runs[r].status = journal'[r].outcome
    BY DEF SnapTrue, LocatedIn
  <2>1. s.runs[r].status = "succeeded" => Succeeded(r)'
    BY <1>0 DEF Onward, Snap, SnapTrue
  <2>2. CASE journal'[r].outcome = journal[r].outcome
    BY <2>1, <2>2 DEF Snap, SnapTrue
  <2>3. CASE r = active.run /\ journal'[r].outcome = active.completion
    <3>1. active.run # 0
      BY <1>0, <2>3 DEF RunIds
    <3> QED BY <2>1, <2>3, <3>1 DEF Snap, SnapKnows
  <2> QED BY <1>0, <2>2, <2>3 DEF Onward
<1> QED BY <1>1, <1>2, <1>3, <1>4 DEF Snap

(* A write of the store leaves the old snapshot or the new one.            *)
Writes(s) ==
  mem' \in {mem, s} /\ mem' \in disk' /\ disk' \subseteq disk \union {mem, s}

LEMMA WritesOf ==
  ASSUME NEW s, Commits(s) \/ CommitFails(s), SnapsOK
  PROVE  Writes(s)
BY DEF Commits, CommitFails, Writes, SnapsOK

LEMMA SnapsStep ==
  ASSUME Tasks, SnapsOK, Onward, NEW s, Snap(s), Writes(s)
  PROVE  SnapsOK'
<1>1. \A t : t \in disk \union {mem, s} => Snap(t)
  BY DEF SnapsOK
<1>2. \A t : Snap(t) => Snap(t)'
  BY SnapOnward
<1>3. \A t : t \in disk' => Snap(t)'
  BY <1>1, <1>2 DEF Writes
<1> QED BY <1>3 DEF SnapsOK, Writes

LEMMA SnapsStay ==
  ASSUME Tasks, SnapsOK, Onward, UNCHANGED store
  PROVE  SnapsOK'
<1>1. \A t : Snap(t) => Snap(t)'
  BY SnapOnward
<1> QED BY <1>1 DEF SnapsOK, store

(* Nothing about the claims changes while the actor keeps its run.         *)
LEMMA TracksStep ==
  ASSUME TracksOK, UNCHANGED dispatches, active'.run = active.run,
         NEW s, pc \notin {"down", "recover"} => Tracks(s), mem' \in {mem, s},
         pc' \in {"down", "recover"} \/ pc \notin {"down", "recover"}
  PROVE  TracksOK'
<1>1. pc \notin {"down", "recover"} => \A t \in {mem, s} : Tracks(t)
  BY DEF TracksOK
<1>2. \A t : Tracks(t) => Tracks(t)'
  BY DEF Tracks
<1> QED BY <1>1, <1>2 DEF TracksOK

LEMMA TracksQueued ==
  ASSUME NEW s \in SnapType, Tracks(s), NEW d \in Defs, NEW due \in Nat, NEW t, t = Queued(s, d, due)
  PROVE  Tracks(t)
<1>1. /\ DOMAIN t.runs = 1 .. Len(s.runs) + 1 /\ DOMAIN s.runs = 1 .. Len(s.runs) /\ Len(s.runs) \in Nat
      /\ \A r \in DOMAIN s.runs : t.runs[r] = s.runs[r]
      /\ t.runs[Len(s.runs) + 1].status = "queued"
  BY QueuedFacts, SnapFields
<1>2. "queued" \notin Claimed
  BY DEF Claimed
<1> QED BY <1>1, <1>2 DEF Tracks

LEMMA TracksDue ==
  ASSUME NEW s \in SnapType, Tracks(s), NEW d \in Defs, NEW at \in Nat, s.defs[d].next <= at,
         NEW t, t = Due(s, d, at)
  PROVE  Tracks(t)
<1>1. s.defs[d].next \in Nat /\ s.defs[d].anchor \in Nat
  BY SnapFields
<1>2. PICK n \in Nat : n = NextAt(at, s.defs[d].anchor)
  BY <1>1, NextAtFacts
<1>3. PICK due \in Nat : due = LatestDue(s.defs[d].next, at)
  BY <1>1, LatestDueFacts
<1>4. PICK u : u = NextSet(s, d, n)
  OBVIOUS
<1>5. u \in SnapType /\ u.runs = s.runs
  BY <1>4, NextSetFacts DEF NextMoved
<1>6. Tracks(u)
  BY <1>5 DEF Tracks
<1>7. t = Queued(u, d, due)
  <2>1. u = [s EXCEPT !.defs[d].next = NextAt(at, s.defs[d].anchor)]
    BY <1>2, <1>4 DEF NextSet
  <2> QED BY <1>3, <2>1, Zenon DEF Due
<1> QED BY <1>5, <1>6, <1>7, TracksQueued

LEMMA TracksUpdated ==
  ASSUME NEW s \in SnapType, Tracks(s), NEW r \in DOMAIN s.runs, NEW st \in Statuses, NEW f \in Files,
         NEW t, t = Updated(s, r, st, f), r = active.run \/ st \in Ended
  PROVE  Tracks(t)
<1>1. /\ DOMAIN t.runs = DOMAIN s.runs
      /\ \A q \in DOMAIN s.runs : q # r => t.runs[q] = s.runs[q]
      /\ s.runs[r].status \in Ended => t.runs[r] = s.runs[r]
      /\ s.runs[r].status \notin Ended => t.runs[r].status = st
  BY UpdatedFacts
<1>2. Ended \cap Claimed = {}
  BY DEF Claimed, Ended
<1> QED BY <1>1, <1>2 DEF Tracks

LEMMA TracksToggled ==
  ASSUME NEW s \in SnapType, Tracks(s), NEW d \in Defs, NEW on \in BOOLEAN, NEW at \in Nat,
         NEW t, t = Toggled(s, d, on, at)
  PROVE  Tracks(t)
<1>1. /\ DOMAIN t.runs = DOMAIN s.runs
      /\ \A r \in DOMAIN s.runs : t.runs[r] = s.runs[r] \/ t.runs[r].status = "cancelled"
  BY ToggledFacts
<1>2. "cancelled" \notin Claimed
  BY DEF Claimed
<1> QED BY <1>1, <1>2 DEF Tracks

-----------------------------------------------------------------------------
(* Lemmas about events.                                                    *)

LEMMA EventFacts ==
  ASSUME NEW e \in EventType
  PROVE  /\ e.kind \in {"prepared", "asks", "error", "finished"} /\ e.run \in RunIds
         /\ e.kind = "asks" => e.ask \in Nat
BY DEF EventType

LEMMA EventsIn ==
  \A es \in Seq(EventType) : \A i \in DOMAIN es :
    es[i] \in EventType /\ es[i].run \in RunIds
<1> SUFFICES ASSUME NEW es \in Seq(EventType), NEW i \in DOMAIN es
             PROVE  es[i] \in EventType /\ es[i].run \in RunIds
  OBVIOUS
<1>1. Len(es) \in Nat /\ DOMAIN es = 1 .. Len(es)
  BY LenProperties
<1>2. \A k \in DOMAIN es : es[k] \in EventType
  BY <1>1, ElementOfSeq
<1> QED BY <1>2, EventFacts

(* Reading the first event: nothing else ends what it ends.                *)
LEMMA TailFacts ==
  ASSUME NEW S, NEW es \in Seq(S), es # <<>>
  PROVE  /\ Tail(es) \in Seq(S) /\ Head(es) = es[1] /\ 1 \in DOMAIN es
         /\ \A i \in DOMAIN Tail(es) : Tail(es)[i] = es[i + 1] /\ i + 1 \in DOMAIN es /\ i + 1 # 1
         /\ DOMAIN Tail(es) = 1 .. Len(es) - 1 /\ DOMAIN es = 1 .. Len(es) /\ Len(es) \in Nat \ {0}
<1>1. /\ Head(es) \in S /\ Tail(es) \in Seq(S) /\ Len(Tail(es)) = Len(es) - 1
      /\ \A i \in 1 .. Len(Tail(es)) : Tail(es)[i] = es[i + 1]
  BY HeadTailProperties
<1>2. DOMAIN Tail(es) = 1 .. Len(es) - 1 /\ DOMAIN es = 1 .. Len(es) /\ Len(es) \in Nat
  BY <1>1, LenProperties
<1>3. Len(es) # 0
  BY EmptySeq
<1>4. Head(es) = es[1]
  OBVIOUS
<1> QED BY <1>1, <1>2, <1>3, <1>4

LEMMA SingleTail ==
  ASSUME NEW es \in Seq(EventType), es # <<>>, Single(es)
  PROVE  /\ Single(Tail(es))
         /\ IsEnd(Head(es)) =>
              \A i \in DOMAIN Tail(es) :
                ~(Tail(es)[i].kind = Head(es).kind /\ Tail(es)[i].run = Head(es).run)
<1>1. PICK t : t = Tail(es)
  OBVIOUS
<1>2. /\ Head(es) = es[1] /\ 1 \in DOMAIN es
      /\ \A i \in DOMAIN t : i \in Int /\ t[i] = es[i + 1] /\ i + 1 \in DOMAIN es /\ i + 1 # 1
  BY <1>1, TailFacts
<1>3. Single(t)
  <2> SUFFICES ASSUME NEW i \in DOMAIN t, NEW j \in DOMAIN t,
                      IsEnd(t[i]), t[j].kind = t[i].kind, t[j].run = t[i].run
               PROVE  i = j
    BY DEF Single
  <2>1. i + 1 = j + 1
    BY <1>2 DEF Single
  <2> QED BY <1>2, <2>1
<1>4. IsEnd(Head(es)) => \A i \in DOMAIN t : ~(t[i].kind = Head(es).kind /\ t[i].run = Head(es).run)
  BY <1>2 DEF Single
<1> QED BY <1>1, <1>3, <1>4

(* Adding what was not there.                                              *)
LEMMA SingleConcat ==
  ASSUME NEW es \in Seq(EventType), NEW new \in Seq(EventType), Single(es), Single(new),
         \A i \in DOMAIN es : \A j \in DOMAIN new :
           IsEnd(es[i]) => ~(new[j].kind = es[i].kind /\ new[j].run = es[i].run)
  PROVE  Single(es \o new)
<1>1. PICK t : t = es \o new
  OBVIOUS
<1>2. /\ t \in Seq(EventType) /\ Len(t) = Len(es) + Len(new)
      /\ \A i \in 1 .. Len(es) + Len(new) : t[i] = IF i <= Len(es) THEN es[i] ELSE new[i - Len(es)]
  BY <1>1, ConcatProperties
<1>3. /\ DOMAIN t = 1 .. Len(es) + Len(new) /\ DOMAIN es = 1 .. Len(es) /\ DOMAIN new = 1 .. Len(new)
      /\ Len(es) \in Nat /\ Len(new) \in Nat
  BY <1>2, LenProperties
<1>4. \A i \in DOMAIN t : \/ i \in DOMAIN es /\ t[i] = es[i]
                          \/ i - Len(es) \in DOMAIN new /\ t[i] = new[i - Len(es)] /\ i \in Int
  BY <1>2, <1>3
<1>5. ASSUME NEW i \in DOMAIN t, NEW j \in DOMAIN t,
             IsEnd(t[i]), t[j].kind = t[i].kind, t[j].run = t[i].run
      PROVE  i = j
  <2>1. IsEnd(t[j])
    BY <1>5 DEF IsEnd
  <2>2. CASE i \in DOMAIN es /\ t[i] = es[i] /\ j \in DOMAIN es /\ t[j] = es[j]
    BY <1>5, <2>2 DEF Single
  <2>3. CASE i \in DOMAIN es /\ t[i] = es[i] /\ j - Len(es) \in DOMAIN new /\ t[j] = new[j - Len(es)]
    BY <1>5, <2>3
  <2>4. CASE j \in DOMAIN es /\ t[j] = es[j] /\ i - Len(es) \in DOMAIN new /\ t[i] = new[i - Len(es)]
    BY <1>5, <2>1, <2>4
  <2>5. CASE /\ i - Len(es) \in DOMAIN new /\ t[i] = new[i - Len(es)] /\ i \in Int
             /\ j - Len(es) \in DOMAIN new /\ t[j] = new[j - Len(es)] /\ j \in Int
    <3>1. i - Len(es) = j - Len(es)
      BY <1>5, <2>5 DEF Single
    <3> QED BY <1>3, <2>5, <3>1
  <2> QED BY <1>4, <2>2, <2>3, <2>4, <2>5
<1> QED BY <1>1, <1>5 DEF Single

(* Every event of a concatenation is one of its parts'.                    *)
LEMMA ConcatEvents ==
  ASSUME NEW es \in Seq(EventType), NEW new \in Seq(EventType), NEW t, t = es \o new
  PROVE  /\ t \in Seq(EventType)
         /\ \A i \in DOMAIN t : \/ i \in DOMAIN es /\ t[i] = es[i]
                                \/ \E j \in DOMAIN new : t[i] = new[j]
<1>2. /\ t \in Seq(EventType) /\ Len(t) = Len(es) + Len(new)
      /\ \A i \in 1 .. Len(es) + Len(new) : t[i] = IF i <= Len(es) THEN es[i] ELSE new[i - Len(es)]
  BY ConcatProperties
<1>3. /\ DOMAIN t = 1 .. Len(es) + Len(new) /\ DOMAIN es = 1 .. Len(es) /\ DOMAIN new = 1 .. Len(new)
      /\ Len(es) \in Nat /\ Len(new) \in Nat
  BY <1>2, LenProperties
<1>4. ASSUME NEW i \in DOMAIN t, i > Len(es) PROVE i - Len(es) \in DOMAIN new /\ t[i] = new[i - Len(es)]
  BY <1>2, <1>3, <1>4
<1> QED BY <1>2, <1>3, <1>4

-----------------------------------------------------------------------------
(* Lemmas about the journal of a run and the actor's record of it.         *)

Ops == {"none", "open", "completed", "failed", "aborted", "abort_requested"}
JournalFields(j) == j.op \in Ops /\ j.report \in {"none", "succeeded", "failed"} /\ j.outcome \in Outcomes

LEMMA JournalFacts ==
  ASSUME NEW j \in JournalType
  PROVE  JournalFields(j) /\ j = [op |-> j.op, report |-> j.report, outcome |-> j.outcome]
BY DEF JournalType, JournalFields, Ops

JournalRest(r) == journal' \in [RunIds -> JournalType] /\ \A q \in RunIds : q # r => journal'[q] = journal[q]

LEMMA SetOp ==
  ASSUME journal \in [RunIds -> JournalType], NEW r \in RunIds, NEW x \in Ops,
         journal' = [journal EXCEPT ![r].op = x]
  PROVE  /\ JournalRest(r)
         /\ journal'[r].op = x /\ journal'[r].report = journal[r].report
         /\ journal'[r].outcome = journal[r].outcome
<1>1. PICK o \in Ops, p \in {"none", "succeeded", "failed"}, c \in Outcomes :
        journal[r] = [op |-> o, report |-> p, outcome |-> c]
  BY DEF JournalType, Ops
<1>2. journal'[r] = [op |-> x, report |-> p, outcome |-> c]
  BY <1>1
<1>3. journal'[r] \in JournalType
  BY <1>2 DEF JournalType, Ops
<1>4. \A q \in RunIds : q # r => journal'[q] = journal[q]
  OBVIOUS
<1>5. journal' \in [RunIds -> JournalType]
  BY <1>3, <1>4
<1> QED BY <1>1, <1>2, <1>4, <1>5 DEF JournalRest

LEMMA SetReport ==
  ASSUME journal \in [RunIds -> JournalType], NEW r \in RunIds, NEW x \in {"succeeded", "failed"},
         journal' = [journal EXCEPT ![r].report = x]
  PROVE  /\ JournalRest(r)
         /\ journal'[r].op = journal[r].op /\ journal'[r].report = x
         /\ journal'[r].outcome = journal[r].outcome
<1>1. PICK o \in Ops, p \in {"none", "succeeded", "failed"}, c \in Outcomes :
        journal[r] = [op |-> o, report |-> p, outcome |-> c]
  BY DEF JournalType, Ops
<1>2. journal'[r] = [op |-> o, report |-> x, outcome |-> c]
  BY <1>1
<1>3. journal'[r] \in JournalType
  BY <1>2 DEF JournalType, Ops
<1>4. \A q \in RunIds : q # r => journal'[q] = journal[q]
  OBVIOUS
<1>5. journal' \in [RunIds -> JournalType]
  BY <1>3, <1>4
<1> QED BY <1>1, <1>2, <1>4, <1>5 DEF JournalRest

LEMMA SetOutcome ==
  ASSUME journal \in [RunIds -> JournalType], NEW r \in RunIds, NEW x \in Outcomes,
         journal' = [journal EXCEPT ![r].outcome = x]
  PROVE  /\ JournalRest(r)
         /\ journal'[r].op = journal[r].op /\ journal'[r].report = journal[r].report
         /\ journal'[r].outcome = x
<1>1. PICK o \in Ops, p \in {"none", "succeeded", "failed"}, c \in Outcomes :
        journal[r] = [op |-> o, report |-> p, outcome |-> c]
  BY DEF JournalType, Ops
<1>2. journal'[r] = [op |-> o, report |-> p, outcome |-> x]
  BY <1>1
<1>3. journal'[r] \in JournalType
  BY <1>2 DEF JournalType, Ops
<1>4. \A q \in RunIds : q # r => journal'[q] = journal[q]
  OBVIOUS
<1>5. journal' \in [RunIds -> JournalType]
  BY <1>3, <1>4
<1> QED BY <1>1, <1>2, <1>4, <1>5 DEF JournalRest

LEMMA ActiveFacts ==
  ASSUME NEW a \in ActiveType
  PROVE  /\ a.run \in 0 .. MaxRuns /\ a.run \in Int /\ a.runtime \in BOOLEAN /\ a.error \in BOOLEAN
         /\ a.cancellation \in {"none", "cancelled", "failed"} /\ a.completion \in Outcomes
         /\ a.run # 0 => a.run \in RunIds
BY PeriodFact DEF ActiveType, RunIds

LEMMA NoRunFacts ==
  /\ NoRun \in ActiveType /\ NoRun.run = 0 /\ NoRun.completion = "none" /\ NoRun.cancellation = "none"
  /\ ~NoRun.runtime
BY PeriodFact DEF NoRun, ActiveType, Outcomes

(* The actor's record with one field changed.                              *)
Keeps(a, b) == b \in ActiveType /\ b.run = a.run

LEMMA SetCancellation ==
  ASSUME NEW a \in ActiveType, NEW x \in {"cancelled", "failed"}, NEW b, b = [a EXCEPT !.cancellation = x]
  PROVE  Keeps(a, b) /\ b.completion = a.completion /\ b.runtime = a.runtime
BY DEF ActiveType, Keeps

LEMMA SetRun ==
  ASSUME NEW a \in ActiveType, NEW r \in RunIds, NEW b, b = [a EXCEPT !.run = r]
  PROVE  b \in ActiveType /\ b.run = r /\ b.completion = a.completion
<1>1. r \in 0 .. MaxRuns
  BY PeriodFact DEF RunIds
<1> QED BY <1>1 DEF ActiveType

LEMMA SetError ==
  ASSUME NEW a \in ActiveType, NEW b, b = [a EXCEPT !.error = TRUE]
  PROVE  Keeps(a, b) /\ b.completion = a.completion /\ b.runtime = a.runtime
BY DEF ActiveType, Keeps

LEMMA SetRuntime ==
  ASSUME NEW a \in ActiveType, NEW b, b = [a EXCEPT !.runtime = TRUE]
  PROVE  Keeps(a, b) /\ b.completion = a.completion /\ b.cancellation = a.cancellation
BY DEF ActiveType, Keeps

LEMMA SetCompletion ==
  ASSUME NEW a \in ActiveType, NEW x \in Outcomes, NEW b, b = Completes(a, x)
  PROVE  Keeps(a, b) /\ b.completion = x
BY DEF ActiveType, Keeps, Completes

-----------------------------------------------------------------------------
(* The task of a run moves on.                                             *)

Goes == Tasks' /\ Onward

(* Run r, whose task is now at x, has reported the events.                 *)
Reports(r, x, new) ==
  /\ new \in Seq(EventType) /\ Single(new) /\ events' = events \o new
  /\ \A j \in DOMAIN new :
       /\ new[j].run = r
       /\ new[j].kind = "prepared" => x = "prepared"
       /\ new[j].kind = "finished" => x = "done"

LEMMA TaskMove ==
  ASSUME Tasks, NEW r \in RunIds, turn[r] \in Working,
         NEW x \in Working \union {"prepared", "done"}, turn' = [turn EXCEPT ![r] = x],
         JournalRest(r), journal'[r].outcome = journal[r].outcome,
         x \in {"preparing", "prepared", "sent", "armed"} =>
           journal'[r].op = "none" /\ journal'[r].report = "none",
         journal'[r].op = "completed" => x = "done",
         NEW new, Reports(r, x, new),
         UNCHANGED <<clock, pc, active, dispatches>>, asker' \in Seq(AskType)
  PROVE  Goes
<1>0. /\ new \in Seq(EventType) /\ Single(new) /\ events' = events \o new
      /\ \A j \in DOMAIN new :
           /\ new[j].run = r
           /\ new[j].kind = "prepared" => x = "prepared"
           /\ new[j].kind = "finished" => x = "done"
  BY DEF Reports
<1>1. /\ turn' \in [RunIds -> Turns] /\ turn'[r] = x
      /\ \A q \in RunIds : q # r => turn'[q] = turn[q] /\ journal'[q] = journal[q]
  BY DEF Tasks, Typed, JournalRest, Turns, Working
<1>2. active.run = r /\ dispatches[r] # 0 /\ r # 0 /\ active.completion = "none"
      /\ journal[r].outcome = "none"
  <2>1. active.run = r /\ dispatches[r] # 0 /\ r # 0
    <3>1. RunOK(r)
      BY DEF Tasks, TasksOK
    <3>2. "none" \notin Working
      BY DEF Working
    <3>3. r # 0
      BY DEF RunIds
    <3> QED BY <3>1, <3>2, <3>3 DEF RunOK
  <2>2. active.completion = "none"
    BY <2>1 DEF Tasks, TasksOK, ActorOK, Working
  <2> QED BY <2>1, <2>2 DEF Tasks, TasksOK, ActorOK
<1>3. \A q \in RunIds : Succeeded(q) => Succeeded(q)'
  <2>1. ~Succeeded(r)
    BY DEF Tasks, TasksOK, RunOK, Working, Succeeded
  <2> QED BY <1>1, <2>1 DEF Succeeded
<1>4. Onward
  <2>1. clock' \in Nat /\ clock <= clock'
    BY DEF Tasks, Typed
  <2>2. \A q \in RunIds : journal'[q].outcome = journal[q].outcome
    BY <1>1
  <2> QED BY <1>3, <2>1, <2>2 DEF Onward
<1>5. Typed'
  <2>1. events' \in Seq(EventType)
    BY <1>0, ConcatProperties DEF Tasks, Typed
  <2> QED BY <1>1, <2>1 DEF Tasks, Typed, JournalRest
<1>6. \A q \in RunIds : RunOK(q)'
  <2>1. ASSUME NEW q \in RunIds, q # r PROVE RunOK(q)'
    BY <1>1, <1>3, <2>1 DEF Tasks, TasksOK, RunOK
  <2>2. RunOK(r)'
    <3>1. dispatches'[r] \in 0 .. 1 /\ dispatches'[r] # 0 /\ active'.run = r
      BY <1>2 DEF Tasks, TasksOK, RunOK
    <3>2. journal'[r].outcome = "none"
      BY <1>2
    <3>3. x # "none"
      BY DEF Working
    <3> QED BY <1>1, <3>1, <3>2, <3>3 DEF RunOK
  <2> QED BY <2>1, <2>2
<1>7. ActorOK'
  BY <1>2 DEF Tasks, TasksOK, ActorOK
<1>8. EndsOnce'
  <2>1. /\ events' \in Seq(EventType)
        /\ \A i \in DOMAIN events' : \/ i \in DOMAIN events /\ events'[i] = events[i]
                                     \/ \E j \in DOMAIN new : events'[i] = new[j]
    BY <1>0, ConcatEvents DEF Tasks, Typed
  <2>2. turn[r] # "prepared" /\ turn[r] # "done"
    BY DEF Working
  <2>3. \A i \in DOMAIN events : events[i].run = r => ~IsEnd(events[i])
    BY <2>2 DEF Tasks, EndsOnce, EventOK, IsEnd
  <2>4. Single(events')
    <3>1. PICK es : es = events
      OBVIOUS
    <3>2. Single(es \o new)
      BY <1>0, <2>3, <3>1, SingleConcat DEF Tasks, Typed, EndsOnce
    <3> QED BY <1>0, <3>1, <3>2
  <2>5. ASSUME NEW i \in DOMAIN events' PROVE EventOK(events[i])'
    <3>1. CASE i \in DOMAIN events /\ events'[i] = events[i]
      <4>1. EventOK(events[i])
        BY <3>1 DEF Tasks, EndsOnce
      <4>2. events[i].run \in RunIds
        BY <3>1, EventsIn DEF Tasks, Typed
      <4> QED BY <1>1, <2>3, <3>1, <4>1, <4>2 DEF EventOK, IsEnd
    <3>2. ASSUME NEW j \in DOMAIN new, events'[i] = new[j] PROVE EventOK(events[i])'
      BY <1>0, <1>1, <1>2, <3>2 DEF EventOK, IsEnd
    <3> QED BY <2>1, <3>1, <3>2
  <2> QED BY <2>4, <2>5 DEF EndsOnce
<1> QED BY <1>4, <1>5, <1>6, <1>7, <1>8 DEF Goes, Tasks, TasksOK

-----------------------------------------------------------------------------
(* The actor moves on.                                                     *)

Closing == {"record", "close", "retry", "reclose"}
Absent == {"down", "recover"}

LEMMA SweepFacts ==
  /\ Sweep(active) \in Pcs \ Absent
  /\ Sweep(active) \in Closing => active.completion # "none"
BY DEF Sweep, Pcs, Absent, Closing

(* It does something that concerns neither its run nor the run's task.     *)
LEMMA ActorSame ==
  ASSUME Tasks, UNCHANGED <<active, events, journal, turn, dispatches, asker>>,
         clock' \in Nat, clock <= clock', pc' \in Pcs,
         pc' \in Absent => active = NoRun, pc' \in Closing => active.completion # "none"
  PROVE  Goes
<1>1. Onward
  <2>1. \A q \in RunIds : Succeeded(q) => Succeeded(q)'
    BY DEF Succeeded
  <2> QED BY <2>1 DEF Onward
<1>2. Typed'
  BY DEF Tasks, Typed
<1>3. \A q \in RunIds : RunOK(q)'
  BY DEF Tasks, TasksOK, RunOK, Succeeded
<1>4. ActorOK'
  BY DEF Tasks, TasksOK, ActorOK, Succeeded, Absent, Closing
<1>5. EndsOnce'
  BY DEF Tasks, EndsOnce, EventOK
<1> QED BY <1>1, <1>2, <1>3, <1>4, <1>5 DEF Goes, Tasks, TasksOK

(* It reads an event, which may end its run or begin the run's turn.       *)
Decides ==
  /\ IsEnd(Head(events)) /\ Head(events).run = active.run
  /\ active'.completion = "succeeded" => Succeeded(active.run)
  /\ UNCHANGED turn
Sends ==
  /\ Head(events).kind = "prepared" /\ Head(events).run = active.run
  /\ active'.completion = active.completion
  /\ turn' = [turn EXCEPT ![active.run] = "sent"]

LEMMA ActorReads ==
  ASSUME Tasks, events # <<>>, events' = Tail(events), UNCHANGED <<clock, journal, dispatches, asker>>,
         Keeps(active, active'),
         pc = "select", pc' \in {"select", "record"}, pc' = "record" => active'.completion # "none",
         Decides \/ Sends \/ (active'.completion = active.completion /\ UNCHANGED turn)
  PROVE  Goes
<1>e. events \in Seq(EventType) /\ active \in ActiveType
  BY DEF Tasks, Typed
<1>1. /\ events' \in Seq(EventType) /\ Head(events) = events[1] /\ 1 \in DOMAIN events
      /\ \A i \in DOMAIN events' : events'[i] = events[i + 1] /\ i + 1 \in DOMAIN events
  BY <1>e, TailFacts
<1>2. /\ Single(events')
      /\ IsEnd(Head(events)) =>
           \A i \in DOMAIN events' :
             ~(events'[i].kind = Head(events).kind /\ events'[i].run = Head(events).run)
  BY <1>e, SingleTail DEF Tasks, EndsOnce
<1>3. EventOK(Head(events)) /\ Head(events).run \in RunIds
      /\ \A i \in DOMAIN events' : EventOK(events'[i]) /\ events'[i].run \in RunIds
  BY <1>e, <1>1, EventsIn DEF Tasks, EndsOnce
<1>4. active' \in ActiveType /\ active'.run = active.run
  BY DEF Keeps
<1>5. \A q \in RunIds : Succeeded(q) <=> Succeeded(q)'
  BY DEF Succeeded
<1>6. CASE active'.completion = active.completion /\ UNCHANGED turn
  <2>1. Onward
    BY <1>4, <1>5, <1>6 DEF Onward, Tasks, Typed
  <2>2. Typed'
    BY <1>1, <1>4, <1>6 DEF Tasks, Typed, Pcs
  <2>3. \A q \in RunIds : RunOK(q)'
    BY <1>4, <1>5, <1>6 DEF Tasks, TasksOK, RunOK
  <2>4. ActorOK'
    BY <1>4, <1>6 DEF Tasks, TasksOK, ActorOK, Succeeded
  <2>5. EndsOnce'
    BY <1>1, <1>2, <1>3, <1>4, <1>6 DEF EndsOnce, EventOK
  <2> QED BY <2>1, <2>2, <2>3, <2>4, <2>5 DEF Goes, Tasks, TasksOK
<1>7. ASSUME IsEnd(Head(events)), Head(events).run = active.run
      PROVE  /\ active.run \in RunIds /\ active.run # 0 /\ active.completion = "none"
             /\ journal[active.run].outcome = "none"
             /\ Head(events).kind = "prepared" => turn[active.run] = "prepared"
             /\ turn[active.run] \in {"prepared", "done"}
             /\ \A i \in DOMAIN events' : IsEnd(events'[i]) => events'[i].run # active.run
  <2>1. /\ active.run \in RunIds /\ active.run # 0 /\ active.completion = "none"
        /\ Head(events).kind = "prepared" => turn[active.run] = "prepared"
        /\ Head(events).kind = "finished" => turn[active.run] = "done"
    BY <1>3, <1>7 DEF EventOK, RunIds
  <2>2. journal[active.run].outcome = "none"
    BY <2>1 DEF Tasks, TasksOK, ActorOK
  <2>3. \A i \in DOMAIN events' : IsEnd(events'[i]) => events'[i].run # active.run
    BY <1>2, <1>3, <1>7, <2>1 DEF EventOK, IsEnd
  <2> QED BY <1>7, <2>1, <2>2, <2>3 DEF IsEnd
<1>8. CASE Decides
  <2>1. /\ active.run \in RunIds /\ active.run # 0 /\ active.completion = "none"
        /\ journal[active.run].outcome = "none" /\ turn[active.run] \in {"prepared", "done"}
        /\ \A i \in DOMAIN events' : IsEnd(events'[i]) => events'[i].run # active.run
    BY <1>7, <1>8 DEF Decides
  <2>2. Onward
    <3>1. clock' \in Nat /\ clock <= clock'
      BY DEF Tasks, Typed
    <3> QED BY <1>4, <1>5, <2>1, <3>1 DEF Onward
  <2>3. Typed'
    BY <1>1, <1>4, <1>8 DEF Tasks, Typed, Pcs, Decides
  <2>4. \A q \in RunIds : RunOK(q)'
    BY <1>4, <1>5, <1>8 DEF Tasks, TasksOK, RunOK, Decides
  <2>5. ActorOK'
    BY <1>4, <1>8, <2>1 DEF Tasks, TasksOK, ActorOK, Succeeded, Decides
  <2>6. EndsOnce'
    BY <1>1, <1>2, <1>3, <1>4, <1>8, <2>1 DEF EndsOnce, EventOK, Decides
  <2> QED BY <2>2, <2>3, <2>4, <2>5, <2>6 DEF Goes, Tasks, TasksOK
<1>9. CASE Sends
  <2>1. IsEnd(Head(events)) /\ Head(events).run = active.run /\ Head(events).kind = "prepared"
    BY <1>9 DEF Sends, IsEnd
  <2>2. /\ active.run \in RunIds /\ active.run # 0 /\ active.completion = "none"
        /\ journal[active.run].outcome = "none" /\ turn[active.run] = "prepared"
        /\ \A i \in DOMAIN events' : IsEnd(events'[i]) => events'[i].run # active.run
    BY <1>7, <2>1
  <2>3. turn' \in [RunIds -> Turns] /\ turn'[active.run] = "sent"
        /\ \A q \in RunIds : q # active.run => turn'[q] = turn[q]
    BY <1>9, <2>2 DEF Sends, Tasks, Typed, Turns
  <2>4. Onward
    BY <1>4, <1>5, <1>9 DEF Onward, Tasks, Typed, Sends
  <2>5. Typed'
    BY <1>1, <1>4, <2>3 DEF Tasks, Typed, Pcs
  <2>6. \A q \in RunIds : RunOK(q)'
    <3>1. ASSUME NEW q \in RunIds, q # active.run PROVE RunOK(q)'
      BY <1>4, <1>5, <2>3, <3>1 DEF Tasks, TasksOK, RunOK
    <3>2. ASSUME NEW q \in RunIds, q = active.run PROVE RunOK(q)'
      <4>1. dispatches[q] = 1 /\ journal[q].op = "none" /\ journal[q].report = "none"
        BY <2>2, <3>2 DEF Tasks, TasksOK, RunOK, ActorOK
      <4> QED BY <1>4, <2>2, <2>3, <3>2, <4>1 DEF RunOK
    <3> QED BY <3>1, <3>2
  <2>7. ActorOK'
    BY <1>4, <1>9, <2>2, <2>3 DEF Tasks, TasksOK, ActorOK, Succeeded, Sends
  <2>8. EndsOnce'
    <3>1. ASSUME NEW i \in DOMAIN events' PROVE EventOK(events[i])'
      <4>1. EventOK(events'[i]) /\ events'[i].run \in RunIds
        BY <1>3
      <4>2. IsEnd(events'[i]) => turn'[events'[i].run] = turn[events'[i].run]
        BY <2>2, <2>3, <4>1
      <4> QED BY <1>4, <2>2, <4>1, <4>2 DEF EventOK, IsEnd
    <3> QED BY <1>2, <3>1 DEF EndsOnce
  <2> QED BY <2>4, <2>5, <2>6, <2>7, <2>8 DEF Goes, Tasks, TasksOK
<1> QED BY <1>6, <1>8, <1>9

(* It aborts the run's task; whether the journal says so or not.           *)
OpAborted(r) ==
  \/ UNCHANGED journal
  \/ /\ journal[r].op = "open"
     /\ \E x \in {"aborted", "abort_requested"} : journal' = [journal EXCEPT ![r].op = x]

LEMMA ActorAborts ==
  ASSUME Tasks, NEW r \in RunIds, active.run = r, TurnAborts(r), OpAborted(r),
         UNCHANGED <<clock, events, dispatches, asker>>,
         Keeps(active, active'), active'.completion = active.completion,
         pc' \in Pcs \ Absent, pc' \in Closing => active.completion # "none"
  PROVE  Goes
<1>1. /\ turn' \in [RunIds -> Turns]
      /\ \A q \in RunIds : q # r => turn'[q] = turn[q]
      /\ turn[r] \notin {"sent", "armed", "operating"} => turn'[r] = turn[r]
      /\ turn[r] \in {"sent", "armed", "operating"} => turn'[r] \in {"lost", "aborted"}
  <2>1. turn \in [RunIds -> Turns]
    BY DEF Tasks, Typed
  <2>2. PICK x : x = CASE turn[r] = "sent" -> "lost"
                       [] turn[r] \in {"armed", "operating"} -> "aborted"
                       [] OTHER -> turn[r]
    OBVIOUS
  <2>3. turn' = [turn EXCEPT ![r] = x]
    BY <2>2 DEF TurnAborts
  <2>4. /\ turn[r] \notin {"sent", "armed", "operating"} => x = turn[r]
        /\ turn[r] \in {"sent", "armed", "operating"} => x \in {"lost", "aborted"}
    BY <2>2
  <2>5. x \in Turns
    BY <2>1, <2>4 DEF Turns
  <2> QED BY <2>1, <2>3, <2>4, <2>5
<1> DEFINE OnlyOpAborted ==
      /\ journal' \in [RunIds -> JournalType]
      /\ \A q \in RunIds : q # r => journal'[q] = journal[q]
      /\ journal'[r].report = journal[r].report /\ journal'[r].outcome = journal[r].outcome
      /\ \/ journal'[r] = journal[r]
         \/ journal[r].op = "open" /\ journal'[r].op \in {"aborted", "abort_requested"}
<1>2. OnlyOpAborted
  <2>1. CASE UNCHANGED journal
    BY <2>1 DEF Tasks, Typed
  <2>2. ASSUME NEW x \in {"aborted", "abort_requested"}, journal' = [journal EXCEPT ![r].op = x],
               journal[r].op = "open"
        PROVE  OnlyOpAborted
    <3>1. x \in Ops
      BY DEF Ops
    <3>2. /\ JournalRest(r)
          /\ journal'[r].op = x /\ journal'[r].report = journal[r].report
          /\ journal'[r].outcome = journal[r].outcome
      BY <2>2, <3>1, SetOp DEF Tasks, Typed
    <3> QED BY <2>2, <3>2 DEF JournalRest
  <2> QED BY <2>1, <2>2 DEF OpAborted
<1>3. active' \in ActiveType /\ active'.run = r
  BY DEF Keeps
<1>4. \A q \in RunIds : Succeeded(q) <=> Succeeded(q)'
  <2>1. Succeeded(r) <=> Succeeded(r)'
    BY <1>2 DEF Succeeded
  <2> QED BY <1>2, <2>1 DEF Succeeded
<1>5. Onward
  <2>1. clock' \in Nat /\ clock <= clock'
    BY DEF Tasks, Typed
  <2>2. \A q \in RunIds : journal'[q].outcome = journal[q].outcome
    BY <1>2
  <2> QED BY <1>3, <1>4, <2>1, <2>2 DEF Onward
<1>6. Typed'
  BY <1>1, <1>2, <1>3 DEF Tasks, Typed
<1>7. \A q \in RunIds : RunOK(q)'
  <2>1. ASSUME NEW q \in RunIds, q # r PROVE RunOK(q)'
    BY <1>1, <1>2, <1>3, <1>4, <2>1 DEF Tasks, TasksOK, RunOK
  <2>2. RunOK(r)'
    <3>0. RunOK(r)
      BY DEF Tasks, TasksOK
    <3>1. dispatches'[r] \in 0 .. 1 /\ dispatches'[r] # 0 /\ active'.run = r
      <4>1. r # 0
        BY DEF RunIds
      <4> QED BY <1>3, <3>0, <4>1 DEF Tasks, TasksOK, ActorOK, RunOK
    <3>2. turn'[r] \in {"none", "preparing", "prepared", "sent", "armed"} =>
            journal'[r].op = "none" /\ journal'[r].report = "none"
      <4> SUFFICES ASSUME turn'[r] \in {"none", "preparing", "prepared", "sent", "armed"}
                   PROVE  journal'[r].op = "none" /\ journal'[r].report = "none"
        OBVIOUS
      <4>1. turn'[r] = turn[r]
        BY <1>1
      <4>2. journal[r].op = "none" /\ journal[r].report = "none"
        BY <3>0, <4>1 DEF RunOK
      <4> QED BY <1>2, <4>2
    <3>3. journal'[r].op = "completed" => turn'[r] \in {"done", "gone"}
      BY <1>1, <1>2, <3>0 DEF RunOK
    <3>4. journal'[r].outcome = "succeeded" => Succeeded(r)'
      BY <1>2, <1>4, <3>0 DEF RunOK
    <3> QED BY <3>1, <3>2, <3>3, <3>4 DEF RunOK
  <2> QED BY <2>1, <2>2
<1>8. ActorOK'
  <2>1. dispatches'[r] = 1 /\ journal'[r].outcome \in {"none", active'.completion}
    <3>1. r # 0
      BY DEF RunIds
    <3> QED BY <1>2, <3>1 DEF Tasks, TasksOK, ActorOK
  <2>2. active'.completion # "none" => active'.run # 0 /\ turn'[r] \in {"prepared", "done"}
    BY <1>1, <1>3 DEF Tasks, TasksOK, ActorOK
  <2>3. active'.completion = "succeeded" => Succeeded(r)'
    BY <1>4 DEF Tasks, TasksOK, ActorOK
  <2> QED BY <1>3, <2>1, <2>2, <2>3 DEF ActorOK, Absent, Closing, Pcs
<1>9. EndsOnce'
  <2>1. ASSUME NEW i \in DOMAIN events PROVE EventOK(events[i])'
    <3>1. EventOK(events[i]) /\ events[i].run \in RunIds
      BY EventsIn DEF Tasks, Typed, EndsOnce
    <3> QED BY <1>1, <1>3, <3>1 DEF EventOK, IsEnd
  <2> QED BY <2>1 DEF Tasks, EndsOnce
<1> QED BY <1>5, <1>6, <1>7, <1>8, <1>9 DEF Goes, Tasks, TasksOK

(* Its record of the run changes, and not the run's completion.            *)
LEMMA ActorKeeps ==
  ASSUME Tasks, UNCHANGED <<clock, events, journal, turn, dispatches, asker>>,
         Keeps(active, active'), active'.completion = active.completion, active.run # 0,
         pc' \in Pcs \ Absent, pc' \in Closing => active.completion # "none"
  PROVE  Goes
<1>1. active' \in ActiveType /\ active'.run = active.run
  BY DEF Keeps
<1>2. \A q \in RunIds : Succeeded(q) <=> Succeeded(q)'
  BY DEF Succeeded
<1>3. Onward
  <2>1. clock' \in Nat /\ clock <= clock'
    BY DEF Tasks, Typed
  <2> QED BY <1>1, <1>2, <2>1 DEF Onward
<1>4. Typed'
  BY <1>1 DEF Tasks, Typed
<1>5. \A q \in RunIds : RunOK(q)'
  BY <1>1, <1>2 DEF Tasks, TasksOK, RunOK
<1>6. ActorOK'
  BY <1>1 DEF Tasks, TasksOK, ActorOK, Succeeded, Absent, Closing
<1>7. EndsOnce'
  BY <1>1 DEF Tasks, EndsOnce, EventOK
<1> QED BY <1>3, <1>4, <1>5, <1>6, <1>7 DEF Goes, Tasks, TasksOK

(* It writes the run's outcome to the journal.                             *)
LEMMA ActorRecords ==
  ASSUME Tasks, pc' \in {"close", "reclose"}, active.completion # "none",
         journal' = [journal EXCEPT ![active.run].outcome = active.completion],
         UNCHANGED <<clock, active, events, turn, dispatches, asker>>
  PROVE  Goes
<1>1. PICK r : r = active.run
  OBVIOUS
<1>2. active \in ActiveType /\ r \in RunIds /\ active.completion \in Outcomes
      /\ dispatches[r] = 1 /\ turn[r] \in {"prepared", "done"}
  BY <1>1, ActiveFacts DEF Tasks, Typed, TasksOK, ActorOK
<1>3. /\ journal' \in [RunIds -> JournalType]
      /\ \A q \in RunIds : q # r => journal'[q] = journal[q]
      /\ journal'[r].op = journal[r].op /\ journal'[r].report = journal[r].report
      /\ journal'[r].outcome = active.completion
  <2>1. PICK x \in Outcomes : x = active.completion
    BY <1>2
  <2>2. journal' = [journal EXCEPT ![r].outcome = x]
    BY <1>1, <2>1
  <2>3. journal \in [RunIds -> JournalType]
    BY DEF Tasks, Typed
  <2>4. /\ JournalRest(r) /\ journal'[r].op = journal[r].op
        /\ journal'[r].report = journal[r].report /\ journal'[r].outcome = x
    BY <1>2, <2>2, <2>3, SetOutcome
  <2> QED BY <2>1, <2>4 DEF JournalRest
<1>4. \A q \in RunIds : Succeeded(q) <=> Succeeded(q)'
  <2>1. Succeeded(r) <=> Succeeded(r)'
    BY <1>3 DEF Succeeded
  <2> QED BY <1>3, <2>1 DEF Succeeded
<1>5. Onward
  <2>1. clock' \in Nat /\ clock <= clock'
    BY DEF Tasks, Typed
  <2> QED BY <1>1, <1>3, <1>4, <2>1 DEF Onward
<1>6. Typed'
  BY <1>3 DEF Tasks, Typed, Pcs
<1>7. \A q \in RunIds : RunOK(q)'
  <2>1. ASSUME NEW q \in RunIds, q # r PROVE RunOK(q)'
    BY <1>3, <1>4, <2>1 DEF Tasks, TasksOK, RunOK
  <2>2. RunOK(r)'
    <3>1. RunOK(r) /\ (active.completion = "succeeded" => Succeeded(r))
      BY <1>1, <1>2 DEF Tasks, TasksOK, ActorOK
    <3>2. dispatches'[r] = 1 /\ turn'[r] = turn[r] /\ active'.run = active.run
      BY <1>2
    <3> QED BY <1>1, <1>2, <1>3, <1>4, <3>1, <3>2 DEF RunOK, Working
  <2> QED BY <2>1, <2>2
<1>8. ActorOK'
  BY <1>1, <1>2, <1>3, <1>4 DEF Tasks, TasksOK, ActorOK
<1>9. EndsOnce'
  BY DEF Tasks, EndsOnce, EventOK
<1> QED BY <1>5, <1>6, <1>7, <1>8, <1>9 DEF Goes, Tasks, TasksOK

(* It lets the run go, whose task is over.                                 *)
LEMMA ActorLetsGo ==
  ASSUME Tasks, pc' \in {"select", "enqueue"}, active.completion # "none", active' = NoRun,
         UNCHANGED <<clock, events, journal, turn, dispatches, asker>>
  PROVE  Goes
<1>1. active'.run = 0 /\ active'.completion = "none" /\ active' \in ActiveType
  BY NoRunFacts
<1>2. turn[active.run] \in {"prepared", "done"}
  BY DEF Tasks, TasksOK, ActorOK
<1>3. \A q \in RunIds : Succeeded(q) <=> Succeeded(q)'
  BY DEF Succeeded
<1>4. Onward
  BY <1>1, <1>3 DEF Onward, Tasks, Typed
<1>5. Typed'
  BY <1>1 DEF Tasks, Typed, Pcs
<1>6. \A q \in RunIds : RunOK(q)'
  <2> SUFFICES ASSUME NEW q \in RunIds PROVE RunOK(q)'
    OBVIOUS
  <2>1. RunOK(q) /\ turn[q] \notin Working
    BY <1>2 DEF Tasks, TasksOK, RunOK, Working
  <2> QED BY <1>3, <2>1 DEF RunOK
<1>7. ActorOK'
  BY <1>1 DEF ActorOK
<1>8. EndsOnce'
  <2>1. ASSUME NEW i \in DOMAIN events PROVE EventOK(events[i])'
    <3>1. EventOK(events[i])
      BY DEF Tasks, EndsOnce
    <3> QED BY <1>1, <3>1 DEF EventOK
  <2> QED BY <2>1 DEF Tasks, EndsOnce
<1> QED BY <1>4, <1>5, <1>6, <1>7, <1>8 DEF Goes, Tasks, TasksOK

(* It dispatches a run that never was.                                     *)
LEMMA ActorDispatches ==
  ASSUME Tasks, pc' = "select", active = NoRun, NEW r \in RunIds, dispatches[r] = 0,
         active' = [NoRun EXCEPT !.run = r], turn' = [turn EXCEPT ![r] = "preparing"],
         dispatches' = [dispatches EXCEPT ![r] = @ + 1],
         UNCHANGED <<clock, events, journal, asker>>
  PROVE  Tasks' /\ active'.run = r /\ dispatches' \in [RunIds -> Nat]
         /\ dispatches'[r] = 1 /\ \A q \in RunIds : q # r => dispatches'[q] = dispatches[q]
<1>1. active' \in ActiveType /\ active'.run = r /\ active'.completion = "none"
  <2>1. PICK a \in ActiveType : a = NoRun
    BY NoRunFacts
  <2> QED BY <2>1, NoRunFacts, SetRun
<1>2. active.run = 0 /\ r # 0
  BY NoRunFacts DEF RunIds
<1>3. /\ turn' \in [RunIds -> Turns] /\ turn'[r] = "preparing"
      /\ \A q \in RunIds : q # r => turn'[q] = turn[q]
  BY DEF Tasks, Typed, Turns
<1>4. /\ dispatches' \in [RunIds -> Nat] /\ dispatches'[r] = 1
      /\ \A q \in RunIds : q # r => dispatches'[q] = dispatches[q]
  BY DEF Tasks, Typed
<1>5. turn[r] = "none" /\ journal[r] = NoJournal
  BY DEF Tasks, TasksOK, RunOK
<1>6. journal[r].op = "none" /\ journal[r].report = "none" /\ journal[r].outcome = "none"
  BY <1>5 DEF NoJournal
<1>7. Typed'
  BY <1>1, <1>3, <1>4 DEF Tasks, Typed, Pcs
<1>8. \A q \in RunIds : RunOK(q)'
  <2>1. ASSUME NEW q \in RunIds, q # r PROVE RunOK(q)'
    <3>1. RunOK(q) /\ turn[q] \notin Working
      BY <1>2 DEF Tasks, TasksOK, RunOK, RunIds
    <3> QED BY <1>3, <1>4, <2>1, <3>1 DEF RunOK, Succeeded
  <2>2. RunOK(r)'
    BY <1>1, <1>3, <1>4, <1>6 DEF RunOK
  <2> QED BY <2>1, <2>2
<1>9. ActorOK'
  BY <1>1, <1>4, <1>6 DEF ActorOK
<1>10. EndsOnce'
  <2>1. ASSUME NEW i \in DOMAIN events PROVE EventOK(events[i])'
    <3>1. EventOK(events[i]) /\ events[i].run \in RunIds
      BY EventsIn DEF Tasks, Typed, EndsOnce
    <3>2. IsEnd(events[i]) => events[i].run # r
      BY <1>5, <3>1 DEF EventOK, IsEnd
    <3> QED BY <1>1, <1>3, <3>1, <3>2 DEF EventOK, IsEnd
  <2> QED BY <2>1 DEF Tasks, EndsOnce
<1> QED BY <1>1, <1>4, <1>7, <1>8, <1>9, <1>10 DEF Tasks, TasksOK

(* The process stops.                                                      *)
LEMMA ActorStops ==
  ASSUME Tasks, Crash
  PROVE  Goes
<1>1. active' = NoRun /\ active'.run = 0 /\ active'.completion = "none" /\ active' \in ActiveType
  BY NoRunFacts DEF Crash
<1>2. /\ turn' \in [RunIds -> Turns]
      /\ \A q \in RunIds : turn'[q] = IF turn[q] = "none" THEN "none" ELSE "gone"
  BY DEF Crash, Turns
<1>3. events' \in Seq(EventType) /\ DOMAIN events' = {} /\ Single(events')
  BY EmptySeq DEF Crash, Single
<1>4. \A q \in RunIds : Succeeded(q) <=> Succeeded(q)'
  BY DEF Succeeded, Crash
<1>5. Onward
  BY <1>1, <1>4 DEF Onward, Tasks, Typed, Crash
<1>6. Typed'
  BY <1>1, <1>2, <1>3 DEF Tasks, Typed, Crash, Pcs
<1>7. \A q \in RunIds : RunOK(q)'
  <2> SUFFICES ASSUME NEW q \in RunIds PROVE RunOK(q)'
    OBVIOUS
  <2>1. RunOK(q) /\ UNCHANGED <<journal, dispatches>>
    BY DEF Tasks, TasksOK, Crash
  <2>2. turn[q] = "none" => journal[q].op = "none" /\ journal[q].report = "none"
    BY <2>1 DEF RunOK
  <2>3. turn'[q] \notin Working /\ (turn'[q] = "none" => turn[q] = "none")
        /\ turn'[q] \in {"none", "gone"} /\ (turn[q] = "none" => turn'[q] = "none")
    BY <1>2 DEF Working
  <2> QED BY <1>4, <2>1, <2>2, <2>3 DEF RunOK
<1>8. ActorOK'
  BY <1>1 DEF ActorOK, Crash
<1>9. EndsOnce'
  BY <1>3 DEF EndsOnce
<1> QED BY <1>5, <1>6, <1>7, <1>8, <1>9 DEF Goes, Tasks, TasksOK

-----------------------------------------------------------------------------
(* Every step keeps the tasks in order, the snapshots true and the claims  *)
(* tracked.                                                                *)

Core == Tasks /\ SnapsOK /\ TracksOK

(* The store is left alone.                                                *)
LEMMA CoreStays ==
  ASSUME Core, Goes, UNCHANGED store, active'.run = active.run,
         pc' \in Absent \/ pc \notin Absent
  PROVE  Core'
<1>1. SnapsOK'
  BY SnapsStay DEF Core, Goes
<1>2. TracksOK'
  <2>1. PICK s : s = mem
    OBVIOUS
  <2>2. pc \notin Absent => Tracks(s)
    BY <2>1 DEF Core, TracksOK, Absent
  <2> QED BY <2>1, <2>2, TracksStep DEF Core, Goes, Onward, Absent, store
<1> QED BY <1>1, <1>2 DEF Core, Goes

(* The store is written, or a write of it fails.                           *)
LEMMA CoreStores ==
  ASSUME Core, Goes, active'.run = active.run, pc \notin Absent,
         NEW s, Snap(s), Tracks(s), Writes(s)
  PROVE  Core'
<1>1. SnapsOK'
  BY SnapsStep DEF Core, Goes
<1>2. TracksOK'
  BY TracksStep DEF Core, Goes, Onward, Absent, Writes
<1> QED BY <1>1, <1>2 DEF Core, Goes

LEMMA OneEvent ==
  ASSUME NEW e \in EventType, NEW r, e.run = r, NEW x,
         e.kind = "prepared" => x = "prepared", e.kind = "finished" => x = "done",
         NEW n, n = <<e>>, events' = events \o n
  PROVE  Reports(r, x, n)
<1>1. n \in Seq(EventType) /\ DOMAIN n = {1} /\ n[1] = e
  OBVIOUS
<1> QED BY <1>1 DEF Reports, Single

LEMMA TwoEvents ==
  ASSUME NEW e \in EventType, e.kind = "error", NEW f \in EventType, f.kind = "finished",
         NEW r, e.run = r, f.run = r, NEW n, n = <<e, f>>, events' = events \o n
  PROVE  Reports(r, "done", n)
<1>1. n \in Seq(EventType) /\ DOMAIN n = {1, 2} /\ n[1] = e /\ n[2] = f
  OBVIOUS
<1>2. Single(n)
  BY <1>1 DEF Single, IsEnd
<1> QED BY <1>1, <1>2 DEF Reports

LEMMA NoEvents ==
  ASSUME events \in Seq(EventType), UNCHANGED events, NEW r, NEW x, NEW n, n = <<>>
  PROVE  Reports(r, x, n)
<1>1. n \in Seq(EventType) /\ DOMAIN n = {}
  OBVIOUS
<1>2. events \o n = events
  BY ConcatEmptySeq
<1> QED BY <1>1, <1>2 DEF Single, Reports

(* The steps of a run's task.                                              *)
LEMMA TaskFacts ==
  ASSUME Core, NEW r \in RunIds, turn[r] \in Working
  PROVE  /\ RunOK(r) /\ journal \in [RunIds -> JournalType] /\ JournalFields(journal[r])
         /\ journal[r].op # "completed"
         /\ turn[r] \in {"preparing", "sent", "armed"} => journal[r].op = "none" /\ journal[r].report = "none"
         /\ active.run = r /\ events \in Seq(EventType) /\ asker \in Seq(AskType)
<1>1. RunOK(r) /\ journal \in [RunIds -> JournalType] /\ events \in Seq(EventType) /\ asker \in Seq(AskType)
  BY DEF Core, Tasks, TasksOK, Typed
<1>2. JournalFields(journal[r])
  BY <1>1, JournalFacts
<1>3. journal[r].op # "completed"
  BY <1>1 DEF RunOK, Working
<1> QED BY <1>1, <1>2, <1>3 DEF RunOK, Working

LEMMA PrepareStep ==
  ASSUME Core, NEW r \in RunIds, Prepare(r)
  PROVE  Core'
<1>1. turn[r] \in Working /\ turn[r] = "preparing" /\ turn' = [turn EXCEPT ![r] = "prepared"]
  BY DEF Prepare, Working
<1>2. /\ journal \in [RunIds -> JournalType] /\ asker \in Seq(AskType)
      /\ journal[r].op = "none" /\ journal[r].report = "none" /\ active.run = r
  BY <1>1, TaskFacts
<1>3. PICK ok \in BOOLEAN : events' = events \o <<[kind |-> "prepared", run |-> r, ok |-> ok]>>
  BY DEF Prepare, Emit
<1>4. PICK e : e = [kind |-> "prepared", run |-> r, ok |-> ok]
  OBVIOUS
<1>5. e \in EventType /\ e.kind = "prepared" /\ e.run = r
  BY <1>4 DEF EventType
<1>6. PICK n : n = <<e>>
  OBVIOUS
<1>7. Reports(r, "prepared", n)
  BY <1>3, <1>4, <1>5, <1>6, OneEvent
<1>8. UNCHANGED <<clock, store, pc, active, dispatches, journal, asker>>
  BY DEF Prepare, TaskFrame, store
<1>9. JournalRest(r)
  BY <1>2, <1>8 DEF JournalRest
<1>10. Goes
  BY <1>1, <1>2, <1>7, <1>8, <1>9, TaskMove DEF Core
<1> QED BY <1>8, <1>10, CoreStays

LEMMA ArmStep ==
  ASSUME Core, NEW r \in RunIds, Arm(r)
  PROVE  Core'
<1>1. turn[r] \in Working /\ turn[r] = "sent" /\ turn' = [turn EXCEPT ![r] = "armed"]
      /\ "armed" \in Working
  BY DEF Arm, Working
<1>2. /\ journal \in [RunIds -> JournalType] /\ events \in Seq(EventType) /\ asker \in Seq(AskType)
      /\ journal[r].op = "none" /\ journal[r].report = "none" /\ active.run = r
  BY <1>1, TaskFacts
<1>3. UNCHANGED <<clock, store, pc, active, dispatches, journal, asker, events>>
  BY DEF Arm, TaskFrame, store
<1>4. PICK n : Reports(r, "armed", n)
  BY <1>2, <1>3, NoEvents
<1>5. JournalRest(r)
  BY <1>2, <1>3 DEF JournalRest
<1>6. Goes
  BY <1>1, <1>2, <1>3, <1>4, <1>5, TaskMove DEF Core
<1> QED BY <1>3, <1>6, CoreStays

LEMMA StartOperationStep ==
  ASSUME Core, NEW r \in RunIds, StartOperation(r)
  PROVE  Core'
<1>1. turn[r] \in Working /\ turn[r] = "armed" /\ turn' = [turn EXCEPT ![r] = "operating"]
      /\ "operating" \in Working
  BY DEF StartOperation, Working
<1>2. journal \in [RunIds -> JournalType] /\ events \in Seq(EventType) /\ asker \in Seq(AskType)
  BY <1>1, TaskFacts
<1>3. UNCHANGED <<clock, store, pc, active, dispatches, asker, events>>
      /\ journal' = [journal EXCEPT ![r].op = "open"]
  BY DEF StartOperation, TaskFrame, store
<1>4. PICK n : Reports(r, "operating", n)
  BY <1>2, <1>3, NoEvents
<1>5. JournalRest(r) /\ journal'[r].op = "open" /\ journal'[r].outcome = journal[r].outcome
  BY <1>2, <1>3, SetOp DEF Ops
<1>6. Goes
  BY <1>1, <1>2, <1>3, <1>4, <1>5, TaskMove DEF Core
<1> QED BY <1>3, <1>6, CoreStays

LEMMA ReportStep ==
  ASSUME Core, NEW r \in RunIds, Report(r)
  PROVE  Core'
<1>1. turn[r] \in Working /\ turn[r] = "operating" /\ "operating" \in Working
  BY DEF Report, Working
<1>2. /\ journal \in [RunIds -> JournalType] /\ events \in Seq(EventType) /\ asker \in Seq(AskType)
      /\ journal[r].op # "completed"
  BY <1>1, TaskFacts
<1>3. UNCHANGED <<clock, store, pc, active, dispatches, asker, events>>
      /\ turn' = [turn EXCEPT ![r] = "operating"]
      /\ \E x \in {"succeeded", "failed"} : journal' = [journal EXCEPT ![r].report = x]
  BY <1>1 DEF Report, TaskFrame, store, Core, Tasks, Typed
<1>4. PICK n : Reports(r, "operating", n)
  BY <1>2, <1>3, NoEvents
<1>5. JournalRest(r) /\ journal'[r].op = journal[r].op /\ journal'[r].outcome = journal[r].outcome
  BY <1>2, <1>3, SetReport
<1>6. Goes
  BY <1>1, <1>2, <1>3, <1>4, <1>5, TaskMove DEF Core
<1> QED BY <1>3, <1>6, CoreStays

LEMMA AskStep ==
  ASSUME Core, NEW r \in RunIds, Ask(r)
  PROVE  Core'
<1>1. turn[r] \in Working /\ turn[r] = "operating" /\ "operating" \in Working
  BY DEF Ask, Working
<1>2. /\ journal \in [RunIds -> JournalType] /\ asker \in Seq(AskType) /\ journal[r].op # "completed"
  BY <1>1, TaskFacts
<1>3. UNCHANGED <<clock, store, pc, active, dispatches, journal>>
      /\ turn' = [turn EXCEPT ![r] = "operating"]
  BY <1>1 DEF Ask, TaskFrame, store, Core, Tasks, Typed
<1>4. asker' \in Seq(AskType) /\ Len(asker') \in Nat
  <2>1. PICK k \in {"permission", "question"} : asker' = Append(asker, [run |-> r, kind |-> k])
    BY DEF Ask
  <2>2. [run |-> r, kind |-> k] \in AskType
    BY DEF AskType
  <2> QED BY <1>2, <2>1, <2>2, AppendProperties, LenProperties
<1>5. PICK a \in Nat : a = Len(asker')
  BY <1>4
<1>6. PICK e : e = [kind |-> "asks", run |-> r, ask |-> a]
  OBVIOUS
<1>7. e \in EventType /\ e.kind = "asks" /\ e.run = r
  BY <1>6 DEF EventType
<1>8. PICK n : n = <<e>>
  OBVIOUS
<1>9. events' = events \o n
  BY <1>5, <1>6, <1>8 DEF Ask, Emit
<1>10. Reports(r, "operating", n)
  BY <1>7, <1>8, <1>9, OneEvent
<1>11. JournalRest(r)
  BY <1>2, <1>3 DEF JournalRest
<1>12. Goes
  BY <1>1, <1>2, <1>3, <1>4, <1>10, <1>11, TaskMove DEF Core
<1> QED BY <1>3, <1>12, CoreStays

LEMMA TurnEndsStep ==
  ASSUME Core, NEW r \in RunIds, TurnEnds(r)
  PROVE  Core'
<1>1. turn[r] \in Working
  BY DEF TurnEnds, Working
<1>2. /\ journal \in [RunIds -> JournalType] /\ asker \in Seq(AskType) /\ journal[r].op # "completed"
  BY <1>1, TaskFacts
<1>3. UNCHANGED <<clock, store, pc, active, dispatches, asker>> /\ turn' = [turn EXCEPT ![r] = "done"]
  BY DEF TurnEnds, TaskFrame, store
<1>4. \/ UNCHANGED journal
      \/ \E x \in {"completed", "failed"} : journal' = [journal EXCEPT ![r].op = x]
  BY DEF TurnEnds
<1>5. JournalRest(r) /\ journal'[r].outcome = journal[r].outcome
  <2>1. ASSUME NEW x \in {"completed", "failed"}, journal' = [journal EXCEPT ![r].op = x]
        PROVE  JournalRest(r) /\ journal'[r].outcome = journal[r].outcome
    <3>1. x \in Ops
      BY DEF Ops
    <3> QED BY <1>2, <2>1, <3>1, SetOp
  <2>2. CASE UNCHANGED journal
    BY <1>2, <2>2 DEF JournalRest
  <2> QED BY <1>4, <2>1, <2>2
<1>6. PICK e, f : e = [kind |-> "error", run |-> r] /\ f = [kind |-> "finished", run |-> r]
  OBVIOUS
<1>7. /\ e \in EventType /\ e.kind = "error" /\ e.run = r
      /\ f \in EventType /\ f.kind = "finished" /\ f.run = r
  BY <1>6 DEF EventType
<1>8. \E n : Reports(r, "done", n)
  <2>1. PICK n, m : n = <<f>> /\ m = <<e, f>>
    OBVIOUS
  <2>2. events' = events \o n \/ events' = events \o m
    BY <1>6, <2>1 DEF TurnEnds, Emit
  <2>3. CASE events' = events \o n
    BY <1>7, <2>1, <2>3, OneEvent
  <2>4. CASE events' = events \o m
    BY <1>7, <2>1, <2>4, TwoEvents
  <2> QED BY <2>2, <2>3, <2>4
<1>9. Goes
  <2>1. "done" \notin {"preparing", "prepared", "sent", "armed"}
    OBVIOUS
  <2> QED BY <1>1, <1>2, <1>3, <1>5, <1>8, <2>1, TaskMove DEF Core
<1> QED BY <1>3, <1>9, CoreStays

LEMMA TurnDroppedStep ==
  ASSUME Core, NEW r \in RunIds, TurnDropped(r)
  PROVE  Core'
<1>1. turn[r] \in Working
  BY DEF TurnDropped, Working
<1>2. /\ journal \in [RunIds -> JournalType] /\ asker \in Seq(AskType) /\ journal[r].op # "completed"
  BY <1>1, TaskFacts
<1>3. UNCHANGED <<clock, store, pc, active, dispatches, journal, asker>>
      /\ turn' = [turn EXCEPT ![r] = "done"]
  BY DEF TurnDropped, TaskFrame, store
<1>4. PICK f : f = [kind |-> "finished", run |-> r]
  OBVIOUS
<1>5. f \in EventType /\ f.kind = "finished" /\ f.run = r
  BY <1>4 DEF EventType
<1>6. PICK n : n = <<f>>
  OBVIOUS
<1>7. events' = events \o n
  BY <1>4, <1>6 DEF TurnDropped, Emit
<1>8. Reports(r, "done", n)
  BY <1>5, <1>6, <1>7, OneEvent
<1>9. JournalRest(r)
  BY <1>2, <1>3 DEF JournalRest
<1>10. Goes
  BY <1>1, <1>2, <1>3, <1>8, <1>9, TaskMove DEF Core
<1> QED BY <1>3, <1>10, CoreStays

LEMMA WorkStep ==
  ASSUME Core, NEW r \in RunIds, Work(r)
  PROVE  Core'
BY PrepareStep, ArmStep, StartOperationStep, ReportStep, AskStep, TurnEndsStep, TurnDroppedStep
   DEF Work

(* The steps of the actor.                                                 *)
LEMMA CoreMem ==
  ASSUME Core
  PROVE  \E m : m = mem /\ Snap(m) /\ m \in SnapType /\ (pc \notin Absent => Tracks(m))
<1>1. PICK m : m = mem
  OBVIOUS
<1>2. Snap(m)
  BY <1>1 DEF Core, SnapsOK
<1>3. pc \notin Absent => Tracks(m)
  BY <1>1 DEF Core, TracksOK, Absent
<1> QED BY <1>1, <1>2, <1>3 DEF Snap, SnapTyped

LEMMA CoreActive ==
  ASSUME Core
  PROVE  /\ active \in ActiveType /\ clock \in Nat /\ dispatches \in [RunIds -> Nat]
         /\ active.run # 0 => active.run \in RunIds
         /\ \A r \in RunIds : dispatches[r] = 0 => journal[r] = NoJournal
<1>1. active \in ActiveType /\ clock \in Nat /\ dispatches \in [RunIds -> Nat]
  BY DEF Core, Tasks, Typed
<1>2. \A r \in RunIds : dispatches[r] = 0 => journal[r] = NoJournal
  BY DEF Core, Tasks, TasksOK, RunOK
<1> QED BY <1>1, <1>2, ActiveFacts

(* The actor leaves its run and the run's task alone.                      *)
LEMMA CorePauses ==
  ASSUME Core, UNCHANGED <<clock, active, events, journal, turn, dispatches, asker, store>>,
         pc \notin Absent, pc' \in {pc, "select", "enqueue", "dispatch", Sweep(active)}
  PROVE  Core'
<1>1. pc' \in Pcs \ Absent /\ (pc' \in Closing => active.completion # "none")
  <2>1. pc \in Pcs /\ (pc \in Closing => active.completion # "none")
    BY DEF Core, Tasks, Typed, TasksOK, ActorOK, Closing
  <2>2. {"select", "enqueue", "dispatch"} \subseteq Pcs \ (Absent \union Closing)
    BY DEF Pcs, Absent, Closing
  <2> QED BY <2>1, <2>2, SweepFacts
<1>2. clock' \in Nat /\ clock <= clock'
  BY CoreActive
<1>3. Goes
  BY <1>1, <1>2, ActorSame DEF Core
<1> QED BY <1>3, CoreStays

LEMMA CoreWrites ==
  ASSUME Core, UNCHANGED <<clock, active, events, journal, turn, dispatches, asker>>,
         pc \notin Absent, pc' \in {pc, "select", "enqueue", "dispatch", Sweep(active)},
         NEW s, Snap(s), Tracks(s), Writes(s)
  PROVE  Core'
<1>1. pc' \in Pcs \ Absent /\ (pc' \in Closing => active.completion # "none")
  <2>1. pc \in Pcs /\ (pc \in Closing => active.completion # "none")
    BY DEF Core, Tasks, Typed, TasksOK, ActorOK, Closing
  <2>2. {"select", "enqueue", "dispatch"} \subseteq Pcs \ (Absent \union Closing)
    BY DEF Pcs, Absent, Closing
  <2> QED BY <2>1, <2>2, SweepFacts
<1>2. clock' \in Nat /\ clock <= clock'
  BY CoreActive
<1>3. Goes
  BY <1>1, <1>2, ActorSame DEF Core
<1> QED BY <1>3, CoreStores

LEMMA AnswerStep ==
  ASSUME Core, NEW a, Answer(a)
  PROVE  Core'
<1>1. UNCHANGED <<clock, pc, active, events, journal, turn, dispatches, asker, store>>
  BY DEF Answer, agent
<1>2. /\ pc \in Pcs /\ (pc \in Absent => active = NoRun)
      /\ pc \in Closing => active.completion # "none"
  BY DEF Core, Tasks, Typed, TasksOK, ActorOK, Absent, Closing
<1>3. clock' \in Nat /\ clock <= clock'
  BY <1>1, CoreActive
<1>4. Goes
  BY <1>1, <1>2, <1>3, ActorSame DEF Core
<1> QED BY <1>1, <1>4, CoreStays

LEMMA TickStep ==
  ASSUME Core, Tick
  PROVE  Core'
<1>1. pc = "select" /\ pc \notin Absent /\ pc' = Sweep(active')
      /\ UNCHANGED <<clock, asker, store, events, dispatches>>
  BY DEF Tick, ActorFrame, Absent
<1>2. CASE UNCHANGED <<active, journal, turn, waiting, left>>
  BY <1>1, <1>2, CorePauses
<1>3. CASE /\ active.run # 0 /\ active' = [active EXCEPT !.cancellation = "failed"]
           /\ \/ TurnAborts(active.run) /\ OpAborted(active.run)
              \/ UNCHANGED <<journal, turn>>
  <2>1. Keeps(active, active') /\ active'.completion = active.completion
    BY <1>3, CoreActive, SetCancellation
  <2>2. pc' \in Pcs \ Absent /\ (pc' \in Closing => active.completion # "none")
    BY <1>1, <2>1 DEF Sweep, Pcs, Absent, Closing
  <2>3. active'.run = active.run
    BY <2>1 DEF Keeps
  <2>4. CASE TurnAborts(active.run) /\ OpAborted(active.run)
    <3>1. PICK r \in RunIds : r = active.run
      BY <1>3, CoreActive
    <3>2. TurnAborts(r) /\ OpAborted(r)
      BY <2>4, <3>1 DEF TurnAborts, OpAborted
    <3>3. Goes
      BY <1>1, <2>1, <2>2, <3>1, <3>2, ActorAborts DEF Core
    <3> QED BY <1>1, <2>3, <3>3, CoreStays
  <2>5. CASE UNCHANGED <<journal, turn>>
    <3>1. Goes
      BY <1>1, <1>3, <2>1, <2>2, <2>5, ActorKeeps DEF Core
    <3> QED BY <1>1, <2>3, <3>1, CoreStays
  <2> QED BY <1>3, <2>4, <2>5
<1> QED BY <1>2, <1>3 DEF Tick, AbortWritten, AbortNotWritten, OpAborted

(* The commands.                                                           *)
LEMMA CommandStep ==
  ASSUME Core, Commanded, NEW s, Snap(s), Tracks(s), Stores(s)
  PROVE  Core'
<1>1. pc = "select" /\ pc \notin Absent /\ UNCHANGED <<clock, asker, events, dispatches>>
  BY DEF Commanded, ActorFrame, Absent
<1>2. UNCHANGED <<active, journal, turn>> /\ pc' \in {pc, Sweep(active)} /\ Writes(s)
  BY DEF Stores, Commits, Writes, Core, SnapsOK
<1> QED BY <1>1, <1>2, CoreWrites

LEMMA SetEnabledStep ==
  ASSUME Core, NEW d \in Defs, SetEnabled(d)
  PROVE  Core'
<1>1. PICK m : m = mem /\ Snap(m) /\ m \in SnapType /\ (pc \notin Absent => Tracks(m))
  BY CoreMem
<1>2. pc \notin Absent /\ Commanded
  BY DEF SetEnabled, Commanded, Absent
<1>3. PICK on \in BOOLEAN : on = ~mem.defs[d].on
  OBVIOUS
<1>4. PICK at \in Nat : at = clock
  BY CoreActive
<1>5. PICK s : s = Toggled(m, d, on, at)
  OBVIOUS
<1>6. Snap(s) /\ Tracks(s)
  BY <1>1, <1>2, <1>4, <1>5, CoreActive, SnapToggled, TracksToggled
<1>7. s = Toggled(mem, d, ~mem.defs[d].on, clock)
  BY <1>1, <1>3, <1>4, <1>5
<1>8. Stores(s)
  BY <1>7, Zenon DEF SetEnabled
<1> QED BY <1>2, <1>6, <1>8, CommandStep

LEMMA RunNowStep ==
  ASSUME Core, NEW d \in Defs, RunNow(d)
  PROVE  Core'
<1>1. PICK m : m = mem /\ Snap(m) /\ m \in SnapType /\ (pc \notin Absent => Tracks(m))
  BY CoreMem
<1>2. pc \notin Absent /\ Commanded /\ Len(m.runs) < MaxRuns
  BY <1>1 DEF RunNow, Commanded, Absent
<1>3. PICK z \in Nat : z = 0
  OBVIOUS
<1>4. PICK s : s = Queued(m, d, z)
  OBVIOUS
<1>5. Snap(s) /\ Tracks(s)
  BY <1>1, <1>2, <1>3, <1>4, SnapQueued, TracksQueued
<1>6. s = Queued(mem, d, 0)
  BY <1>1, <1>3, <1>4
<1>7. Stores(s)
  BY <1>6, Zenon DEF RunNow
<1> QED BY <1>2, <1>5, <1>7, CommandStep

LEMMA CancelActiveStep ==
  ASSUME Core, NEW r \in Stored, CancelActive(r)
  PROVE  Core'
<1>1. PICK m : m = mem /\ Snap(m)
  BY CoreMem
<1>2. r \in RunIds /\ r # 0
  BY <1>1, SnapInRuns DEF Snap, Stored, RunIds
<1>3. /\ pc = "select" /\ active.run = r /\ active' = [active EXCEPT !.cancellation = "cancelled"]
      /\ pc' \in {"select", Sweep(active)}
      /\ UNCHANGED <<clock, asker, events, dispatches, store>>
  BY DEF CancelActive, Commanded, ActorFrame
<1>4. Keeps(active, active') /\ active'.completion = active.completion
  BY <1>3, CoreActive, SetCancellation
<1>5. pc' \in Pcs \ Absent /\ (pc' \in Closing => active.completion # "none")
  BY <1>3, SweepFacts DEF Pcs, Absent, Closing
<1>6. \/ TurnAborts(r) /\ OpAborted(r)
      \/ UNCHANGED <<journal, turn>>
  BY DEF CancelActive, AbortWritten, OpAborted
<1>7. Goes
  <2>1. CASE TurnAborts(r) /\ OpAborted(r)
    BY <1>2, <1>3, <1>4, <1>5, <2>1, ActorAborts DEF Core
  <2>2. CASE UNCHANGED <<journal, turn>>
    BY <1>2, <1>3, <1>4, <1>5, <2>2, ActorKeeps DEF Core
  <2> QED BY <1>6, <2>1, <2>2
<1> QED BY <1>3, <1>4, <1>7, CoreStays DEF Keeps, Absent

(* A run that is not active has no journal yet unless it has ended.        *)
LEMMA CancelOtherStep ==
  ASSUME Core, NEW r \in Stored, CancelOther(r)
  PROVE  Core'
<1>1. PICK m : m = mem /\ Snap(m) /\ m \in SnapType /\ (pc \notin Absent => Tracks(m))
  BY CoreMem
<1>2. /\ pc \notin Absent /\ Commanded /\ r \in DOMAIN m.runs /\ active.run # r
      /\ m.runs[r].status \notin Ended
  BY <1>1 DEF CancelOther, Commanded, Absent, Stored, Status
<1>3. /\ r \in RunIds /\ m.runs[r].status \in Statuses
  BY <1>1, <1>2, SnapInRuns DEF Snap
<1>4. dispatches[r] = 0
  <2>1. CASE m.runs[r].status \in Claimed
    BY <1>1, <1>2, <2>1 DEF Tracks
  <2>2. CASE m.runs[r].status = "queued"
    <3>1. ~(dispatches[r] > 0) /\ dispatches[r] \in Nat
      BY <1>1, <1>3, <2>2, CoreActive DEF Snap, SnapKnows
    <3> QED BY <3>1
  <2> QED BY <1>2, <1>3, <2>1, <2>2 DEF Statuses
<1>5. journal[r].outcome = "none"
  BY <1>3, <1>4, CoreActive DEF NoJournal
<1>6. "cancelled" \in Statuses \ {"queued"} /\ "cancelled" \in Ended /\ "none" \in Files
  BY DEF Statuses, Ended, Files
<1>7. PICK s : s = Updated(m, r, "cancelled", "none")
  OBVIOUS
<1>8. Snap(s)
  BY <1>1, <1>2, <1>5, <1>6, <1>7, SnapUpdated
<1>9. Tracks(s)
  BY <1>1, <1>2, <1>6, <1>7, TracksUpdated
<1>10. Stores(s)
  <2>1. s = Updated(mem, r, "cancelled", "none")
    BY <1>1, <1>7
  <2> QED BY <2>1, Zenon DEF CancelOther
<1> QED BY <1>2, <1>8, <1>9, <1>10, CommandStep

(* The active run is stored as running or waiting.                         *)
LEMMA ActiveStored ==
  ASSUME Core, pc \notin Absent, active.run # 0, NEW st \in {"running", "waiting"}, NEW f \in Files,
         NEW s, s = Updated(mem, active.run, st, f)
  PROVE  Snap(s) /\ Tracks(s)
<1>1. PICK m : m = mem /\ Snap(m) /\ m \in SnapType /\ (pc \notin Absent => Tracks(m))
  BY CoreMem
<1>2. PICK r : r = active.run
  OBVIOUS
<1>3. r \in DOMAIN m.runs
  BY <1>1, <1>2 DEF Snap, SnapKnows
<1>4. st \in Statuses \ {"queued"} /\ st \notin Ended
  BY DEF Statuses, Claimed, Ended
<1>5. s = Updated(m, r, st, f)
  BY <1>1, <1>2
<1>6. Snap(s)
  BY <1>1, <1>3, <1>4, <1>5, SnapUpdated
<1>7. Tracks(s)
  BY <1>1, <1>2, <1>3, <1>4, <1>5, TracksUpdated
<1> QED BY <1>6, <1>7

LEMMA ResolvedStep ==
  ASSUME Core, NEW a \in Asks, Resolved(a)
  PROVE  Core'
<1>1. pc \notin Absent /\ UNCHANGED <<clock, active, events, journal, turn, dispatches, asker>>
  BY DEF Resolved, ActorFrame, agent, Absent
<1>2. CASE active.run = asker[a].run /\ shown' = NothingShown
  <2>1. active.run # 0
    <3>1. asker[a] \in AskType
      BY ElementOfSeq DEF Core, Tasks, Typed, Asks
    <3> QED BY <1>2, <3>1 DEF AskType, RunIds
  <2>2. "none" \in Files
    BY DEF Files
  <2>3. PICK s : s = Updated(mem, active.run, "running", "none")
    OBVIOUS
  <2>4. Snap(s) /\ Tracks(s)
    BY <1>1, <2>1, <2>2, <2>3, ActiveStored
  <2>5. /\ Commits(s) \/ CommitFails(s)
        /\ pc' \in {pc, Sweep(active)}
    BY <1>2, <2>3, Zenon DEF Resolved
  <2>6. Writes(s)
    BY <2>5, WritesOf DEF Core
  <2> QED BY <1>1, <2>4, <2>5, <2>6, CoreWrites
<1>3. CASE ~(active.run = asker[a].run /\ shown' = NothingShown)
  <2>1. pc' = Sweep(active) /\ UNCHANGED store
    BY <1>3 DEF Resolved
  <2> QED BY <1>1, <2>1, CorePauses
<1> QED BY <1>2, <1>3

(* The events of a run.                                                    *)
LEMMA Reading ==
  ASSUME NEW kind, Reads(kind)
  PROVE  /\ pc = "select" /\ pc \notin Absent /\ events # <<>> /\ Head(events).kind = kind
         /\ events' = Tail(events) /\ UNCHANGED <<clock, journal, dispatches, asker>>
BY DEF Reads, ActorFrame, Absent

LEMMA ReadsStays ==
  ASSUME Core, NEW kind, Reads(kind), Keeps(active, active'), UNCHANGED store,
         pc' \in {"select", "record"}, pc' = "record" => active'.completion # "none",
         Decides \/ Sends \/ (active'.completion = active.completion /\ UNCHANGED turn)
  PROVE  Core'
<1>1. Goes
  BY Reading, ActorReads DEF Core
<1> QED BY <1>1, Reading, CoreStays DEF Keeps

LEMMA KeepsSame ==
  ASSUME Core, UNCHANGED active
  PROVE  Keeps(active, active') /\ active'.completion = active.completion
BY CoreActive DEF Keeps

LEMMA NotPreparedStep ==
  ASSUME Core, NotPrepared
  PROVE  Core'
<1>1. /\ Reads("prepared") /\ pc = "select" /\ Head(events).kind = "prepared"
      /\ UNCHANGED <<store, turn>>
  BY Reading DEF NotPrepared, store
<1>2. CASE Head(events).run = active.run
  <2>1. PICK x : x = CancelledOr("failed")
    OBVIOUS
  <2>2. x \in Outcomes /\ x # "none" /\ x # "succeeded"
    BY <2>1, CoreActive, ActiveFacts DEF CancelledOr, Outcomes, Ended
  <2>3. active' = Completes(active, x) /\ pc' = "record"
    BY <1>2, <2>1 DEF NotPrepared
  <2>4. Keeps(active, active') /\ active'.completion = x
    BY <2>2, <2>3, CoreActive, SetCompletion
  <2>5. Decides
    BY <1>1, <1>2, <2>2, <2>4 DEF Decides, IsEnd
  <2> QED BY <1>1, <2>2, <2>3, <2>4, <2>5, ReadsStays
<1>3. CASE Head(events).run # active.run
  <2>1. UNCHANGED <<active, pc>>
    BY <1>3 DEF NotPrepared
  <2> QED BY <1>1, <2>1, KeepsSame, ReadsStays
<1> QED BY <1>2, <1>3

LEMMA AgentErrorStep ==
  ASSUME Core, AgentError
  PROVE  Core'
<1>1. Reads("error") /\ pc = "select" /\ UNCHANGED <<store, turn, pc>>
  BY Reading DEF AgentError, store
<1>2. Keeps(active, active') /\ active'.completion = active.completion
  <2>1. active' = active \/ active' = [active EXCEPT !.error = TRUE]
    BY DEF AgentError
  <2> QED BY <2>1, CoreActive, SetError, KeepsSame
<1> QED BY <1>1, <1>2, ReadsStays

(* What the actor makes of a run that finished.                            *)
LEMMA FinalStatusFacts ==
  ASSUME Core, NEW r, NEW x, x = FinalStatus(r)
  PROVE  x \in Ended /\ (x = "succeeded" => Succeeded(r))
<1>1. active.cancellation \in {"none", "cancelled", "failed"}
  BY CoreActive, ActiveFacts
<1> QED BY <1>1 DEF FinalStatus, Durable, Succeeded, Ended

LEMMA FinishedStep ==
  ASSUME Core, Finished
  PROVE  Core'
<1>1. /\ Reads("finished") /\ pc = "select" /\ Head(events).kind = "finished"
      /\ UNCHANGED <<store, turn>>
  BY Reading DEF Finished, store
<1>2. CASE Head(events).run = active.run
  <2>1. PICK x : x = FinalStatus(active.run)
    OBVIOUS
  <2>2. x \in Ended /\ (x = "succeeded" => Succeeded(active.run))
    <3>1. PICK r : r = active.run
      OBVIOUS
    <3>2. x = FinalStatus(r)
      BY <2>1, <3>1
    <3>3. x \in Ended /\ (x = "succeeded" => Succeeded(r))
      BY <3>2, FinalStatusFacts
    <3> QED BY <3>1, <3>3
  <2>3. active' = Completes(active, x) /\ pc' = "record"
    BY <1>2, <2>1 DEF Finished
  <2>4. Keeps(active, active') /\ active'.completion = x /\ x # "none"
    BY <2>2, <2>3, CoreActive, SetCompletion DEF Outcomes, Ended
  <2>5. Decides
    BY <1>1, <1>2, <2>2, <2>4 DEF Decides, IsEnd
  <2> QED BY <1>1, <2>2, <2>3, <2>4, <2>5, ReadsStays
<1>3. CASE Head(events).run # active.run
  <2>1. UNCHANGED <<active, pc>>
    BY <1>3 DEF Finished
  <2> QED BY <1>1, <2>1, KeepsSame, ReadsStays
<1> QED BY <1>2, <1>3

LEMMA AskedStep ==
  ASSUME Core, Asked
  PROVE  Core'
<1>1. Reads("asks") /\ pc = "select" /\ pc \notin Absent /\ UNCHANGED <<pc, turn, active>>
  BY Reading DEF Asked
<1>2. CASE Head(events).run # active.run
  <2>1. UNCHANGED store
    BY <1>2 DEF Asked
  <2> QED BY <1>1, <2>1, KeepsSame, ReadsStays
<1>3. CASE Head(events).run = active.run
  <2>1. active.run # 0
    <3>1. Head(events).run \in RunIds
      <4>1. Head(events) = events[1] /\ 1 \in DOMAIN events /\ events \in Seq(EventType)
        BY <1>1, Reading, TailFacts DEF Core, Tasks, Typed
      <4> QED BY <4>1, EventsIn
    <3> QED BY <1>3, <3>1 DEF RunIds
  <2>2. "none" \in Files
    BY DEF Files
  <2>3. PICK s : s = Updated(mem, active.run, "waiting", "none")
    OBVIOUS
  <2>4. Snap(s) /\ Tracks(s)
    BY <1>1, <2>1, <2>2, <2>3, ActiveStored
  <2>5. Writes(s)
    <3>1. Commits(s) \/ CommitFails(s)
      BY <1>3, <2>3, Zenon DEF Asked
    <3> QED BY <3>1, WritesOf DEF Core
  <2>6. Goes
    BY <1>1, Reading, KeepsSame, ActorReads DEF Core
  <2> QED BY <1>1, <2>4, <2>5, <2>6, CoreStores
<1> QED BY <1>2, <1>3

LEMMA PreparedStep ==
  ASSUME Core, Prepared
  PROVE  Core'
<1>1. Reads("prepared") /\ pc = "select" /\ pc \notin Absent /\ Head(events).kind = "prepared"
  BY Reading DEF Prepared
<1>2. CASE Head(events).run # active.run
  <2>1. UNCHANGED <<store, pc, active, turn>>
    BY <1>2 DEF Prepared
  <2> QED BY <1>1, <2>1, KeepsSame, ReadsStays
<1>3. CASE Head(events).run = active.run
  <2>1. active.run # 0
    <3>1. Head(events).run \in RunIds
      <4>1. Head(events) = events[1] /\ 1 \in DOMAIN events /\ events \in Seq(EventType)
        BY <1>1, Reading, TailFacts DEF Core, Tasks, Typed
      <4> QED BY <4>1, EventsIn
    <3> QED BY <1>3, <3>1 DEF RunIds
  <2>2. "session" \in Files
    BY DEF Files
  <2>3. PICK s : s = Updated(mem, active.run, "running", "session")
    OBVIOUS
  <2>4. Snap(s) /\ Tracks(s)
    BY <1>1, <2>1, <2>2, <2>3, ActiveStored
  <2>5. PICK act \in ActiveType : /\ act = [active EXCEPT !.runtime = TRUE] /\ act.run = active.run
                                  /\ act.completion = active.completion
    BY CoreActive, SetRuntime DEF Keeps
  <2>6. /\ Commits(s) \/ CommitFails(s)
        /\ \/ active' = Completes(act, "failed") /\ UNCHANGED <<pc, turn>>
           \/ /\ active.cancellation # "none" /\ active' = Completes(act, active.cancellation)
              /\ pc' = "record" /\ UNCHANGED turn
           \/ /\ active' = act /\ turn' = [turn EXCEPT ![active.run] = "sent"]
              /\ UNCHANGED pc
    BY <1>3, <2>3, <2>5, Zenon DEF Prepared
  <2>7. /\ Keeps(active, active') /\ pc' \in {"select", "record"}
        /\ pc' = "record" => active'.completion # "none"
        /\ Decides \/ Sends
    <3>1. CASE active' = act /\ turn' = [turn EXCEPT ![active.run] = "sent"] /\ UNCHANGED pc
      BY <1>1, <1>3, <2>5, <3>1 DEF Keeps, Sends
    <3>2. ASSUME NEW x \in {"cancelled", "failed"}, active' = Completes(act, x), UNCHANGED turn
          PROVE  Keeps(active, active') /\ active'.completion = x /\ Decides
      <4>1. x \in Outcomes /\ x # "succeeded"
        BY DEF Outcomes, Ended
      <4>2. Keeps(active, active') /\ active'.completion = x
        BY <2>5, <3>2, <4>1, SetCompletion DEF Keeps
      <4> QED BY <1>1, <1>3, <3>2, <4>1, <4>2 DEF Decides, IsEnd
    <3>3. CASE active' = Completes(act, "failed") /\ UNCHANGED <<pc, turn>>
      BY <1>1, <3>2, <3>3
    <3>4. CASE /\ active.cancellation # "none" /\ active' = Completes(act, active.cancellation)
               /\ pc' = "record" /\ UNCHANGED turn
      <4>1. active.cancellation \in {"cancelled", "failed"}
        BY <3>4, CoreActive, ActiveFacts
      <4> QED BY <3>2, <3>4, <4>1
    <3> QED BY <2>6, <3>1, <3>3, <3>4
  <2>8. Goes
    BY <1>1, <2>7, Reading, ActorReads DEF Core
  <2>9. Writes(s)
    BY <2>6, WritesOf DEF Core
  <2> QED BY <1>1, <2>4, <2>7, <2>8, <2>9, CoreStores DEF Keeps
<1> QED BY <1>2, <1>3

LEMMA RecordStep ==
  ASSUME Core, Record
  PROVE  Core'
<1>1. /\ pc \in {"record", "retry"} /\ pc' \in {"close", "reclose"} /\ pc \notin Absent
      /\ UNCHANGED <<clock, active, events, turn, dispatches, asker, store>>
  BY DEF Record, ActorFrame, Absent
<1>2. active.completion # "none"
  BY <1>1 DEF Core, Tasks, TasksOK, ActorOK
<1>3. CASE journal' = [journal EXCEPT ![active.run].outcome = active.completion]
  <2>1. Goes
    BY <1>1, <1>2, <1>3, ActorRecords DEF Core
  <2> QED BY <1>1, <2>1, CoreStays
<1>4. CASE UNCHANGED journal
  <2>1. pc' \in Pcs /\ pc' \notin Absent /\ clock' \in Nat /\ clock <= clock'
    BY <1>1, CoreActive DEF Pcs, Absent
  <2>2. Goes
    BY <1>1, <1>2, <1>4, <2>1, ActorSame DEF Core
  <2> QED BY <1>1, <2>2, CoreStays
<1> QED BY <1>3, <1>4 DEF Record

LEMMA CloseStep ==
  ASSUME Core, Close
  PROVE  Core'
<1>1. /\ pc \in {"close", "reclose"} /\ pc \notin Absent /\ pc' \in {"select", "enqueue"}
      /\ UNCHANGED <<clock, events, journal, turn, dispatches, asker>>
  BY DEF Close, ActorFrame, agent, Absent
<1>2. PICK m : m = mem /\ Snap(m) /\ m \in SnapType /\ (pc \notin Absent => Tracks(m))
  BY CoreMem
<1>3. PICK r \in RunIds, x \in Ended : r = active.run /\ x = active.completion
  BY <1>1, CoreActive, ActiveFacts DEF Core, Tasks, TasksOK, ActorOK, Outcomes
<1>4. /\ journal[r].outcome \in {"none", x} /\ (x = "succeeded" => Succeeded(r))
      /\ x # "none" /\ r # 0
  BY <1>3 DEF Core, Tasks, TasksOK, ActorOK, RunIds, Ended
<1>5. r \in DOMAIN m.runs /\ x \in Statuses \ {"queued"} /\ "none" \in Files
  BY <1>2, <1>3, <1>4 DEF Snap, SnapKnows, Statuses, Ended, Files
<1>6. PICK s : s = Updated(m, r, x, "none")
  OBVIOUS
<1>7. Snap(s)
  BY <1>2, <1>3, <1>4, <1>5, <1>6, SnapUpdated
<1>8. Tracks(s)
  BY <1>1, <1>2, <1>3, <1>5, <1>6, TracksUpdated
<1>9. s.runs[r].status \in Ended
  BY <1>2, <1>5, <1>6, UpdatedFacts
<1>10. s = Updated(mem, active.run, active.completion, "none")
  BY <1>2, <1>3, <1>6
<1>11. CASE CommitFails(s) /\ pc' = "select" /\ UNCHANGED active
  <2>1. Writes(s)
    BY <1>11, WritesOf DEF Core
  <2> QED BY <1>1, <1>7, <1>8, <1>11, <2>1, CoreWrites
<1>12. CASE Commits(s) /\ active' = NoRun
  <2>1. Goes
    BY <1>1, <1>3, <1>4, <1>12, ActorLetsGo DEF Core
  <2>2. SnapsOK'
    BY <1>7, <1>12, <2>1, WritesOf, SnapsStep DEF Core, Goes
  <2>3. Tracks(s)'
    <3>1. Ended \cap Claimed = {}
      BY DEF Ended, Claimed
    <3> QED BY <1>1, <1>3, <1>8, <1>9, <3>1 DEF Tracks
  <2>4. TracksOK'
    BY <1>12, <2>3 DEF TracksOK, Commits
  <2> QED BY <2>1, <2>2, <2>4 DEF Core, Goes
<1> QED BY <1>10, <1>11, <1>12, Zenon DEF Close

(* schedule: an occurrence is queued.                                      *)
LEMMA EnqueueStep ==
  ASSUME Core, Enqueue
  PROVE  Core'
<1>1. /\ pc = "enqueue" /\ pc \notin Absent
      /\ UNCHANGED <<clock, active, events, journal, turn, dispatches, asker>>
  BY DEF Enqueue, ScheduleFrame, ActorFrame, Absent
<1>2. PICK m : m = mem /\ Snap(m) /\ m \in SnapType /\ (pc \notin Absent => Tracks(m))
  BY CoreMem
<1>3. CASE pc' = "dispatch" /\ UNCHANGED store
  BY <1>1, <1>3, CorePauses
<1>4. ASSUME NEW d \in Defs, IsDue(d), Len(mem.runs) < MaxRuns,
             \/ Commits(Due(mem, d, clock)) /\ UNCHANGED <<pc, left>>
             \/ CommitFails(Due(mem, d, clock)) /\ pc' = "select"
      PROVE  Core'
  <2>1. PICK at \in Nat : at = clock
    BY CoreActive
  <2>2. m.defs[d].on /\ m.defs[d].next > 0 /\ m.defs[d].next <= at /\ Len(m.runs) < MaxRuns
    BY <1>2, <1>4, <2>1 DEF IsDue
  <2>3. PICK s : s = Due(m, d, at)
    OBVIOUS
  <2>4. Snap(s)
    BY <1>2, <2>1, <2>2, <2>3, SnapDueQueued
  <2>5. Tracks(s)
    BY <1>1, <1>2, <2>1, <2>2, <2>3, TracksDue
  <2>6. s = Due(mem, d, clock)
    BY <1>2, <2>1, <2>3
  <2>7. /\ Commits(s) \/ CommitFails(s)
        /\ pc' \in {pc, "select"}
    BY <1>4, <2>6, Zenon
  <2>8. Writes(s)
    BY <2>7, WritesOf DEF Core
  <2> QED BY <1>1, <2>4, <2>5, <2>7, <2>8, CoreWrites
<1> QED BY <1>3, <1>4 DEF Enqueue, store

(* ... and the first queued run is dispatched.                             *)
Less == {ss \in Nat \X Nat : ss[1] < ss[2]}

LEMMA LessWF == IsWellFoundedOn(Less, Nat)
BY NatLessThanWellFounded DEF OpToRel, Less

LEMMA LeastIn ==
  ASSUME NEW I \in SUBSET Nat, I # {}
  PROVE  \E x \in I : \A y \in I : x <= y
<1>1. PICK x \in I : \A y \in I : ~ (<<y, x>> \in Less)
  BY LessWF, WFMin
<1>2. \A y \in I : ~ (y < x)
  BY <1>1 DEF Less
<1> QED BY <1>1, <1>2

LEMMA NextQueuedFacts ==
  ASSUME NEW m, m = mem, m \in SnapType, NEW r, r = NextQueued, r # 0
  PROVE  r \in DOMAIN m.runs /\ m.runs[r].status = "queued"
<1>1. DOMAIN m.runs = 1 .. Len(m.runs)
  BY SnapFields
<1>2. PICK I : I = {i \in 1 .. Len(mem.runs) : mem.runs[i].status = "queued"}
  OBVIOUS
<1>3. NextQueued = IF I # {} THEN CHOOSE x \in I : \A y \in I : x <= y ELSE 0
  BY <1>2 DEF NextQueued, SelectInSeq, Min
<1>4. I # {} /\ I \in SUBSET Nat
  BY <1>2, <1>3
<1>5. \E x \in I : \A y \in I : x <= y
  BY <1>4, LeastIn
<1>6. r \in I
  BY <1>3, <1>4, <1>5
<1> QED BY <1>1, <1>2, <1>6

LEMMA DispatchStep ==
  ASSUME Core, Dispatch
  PROVE  Core'
<1>1. /\ pc = "dispatch" /\ pc \notin Absent /\ pc' = "select"
      /\ UNCHANGED <<clock, events, journal, asker>>
  BY DEF Dispatch, ScheduleFrame, ActorFrame, Absent
<1>2. PICK m : m = mem /\ Snap(m) /\ m \in SnapType /\ (pc \notin Absent => Tracks(m))
  BY CoreMem
<1>3. CASE UNCHANGED <<store, active, turn, dispatches, left>>
  BY <1>1, <1>3, CorePauses
<1>4. CASE active = NoRun /\ NextQueued # 0
  <2>1. PICK r : r = NextQueued
    OBVIOUS
  <2>2. r \in DOMAIN m.runs /\ m.runs[r].status = "queued"
    BY <1>2, <1>4, <2>1, NextQueuedFacts
  <2>3. r \in RunIds
    BY <1>2, <2>2, SnapInRuns DEF Snap
  <2>4. dispatches[r] = 0
    <3>1. ~(dispatches[r] > 0) /\ dispatches[r] \in Nat
      BY <1>2, <2>2, <2>3, CoreActive DEF Snap, SnapKnows
    <3> QED BY <3>1
  <2>5. PICK s : s = Updated(m, r, "starting", "stub")
    OBVIOUS
  <2>6. "starting" \in Statuses \ {"queued"} /\ "starting" \notin Ended /\ "queued" \notin Ended
        /\ "stub" \in Files
    BY DEF Statuses, Claimed, Ended, Files
  <2>7. Snap(s)
    BY <1>2, <2>2, <2>5, <2>6, SnapUpdated
  <2>8. /\ s.runs[r].status = "starting" /\ DOMAIN s.runs = DOMAIN m.runs
        /\ \A q \in DOMAIN m.runs : q # r => s.runs[q] = m.runs[q]
    BY <1>2, <2>2, <2>5, <2>6, UpdatedFacts
  <2>9. Tracks(s)
    BY <1>1, <1>2, <2>2, <2>4, <2>8 DEF Tracks
  <2>10. s = Updated(mem, NextQueued, "starting", "stub")
    BY <1>2, <2>1, <2>5
  <2>11. CASE CommitFails(s) /\ UNCHANGED <<active, turn, dispatches>>
    <3>1. Writes(s)
      BY <2>11, WritesOf DEF Core
    <3> QED BY <1>1, <2>7, <2>9, <2>11, <3>1, CoreWrites
  <2>12. CASE /\ Commits(s) /\ active' = [NoRun EXCEPT !.run = r]
              /\ turn' = [turn EXCEPT ![r] = "preparing"]
              /\ dispatches' = [dispatches EXCEPT ![r] = @ + 1]
    <3>1. Tasks' /\ active'.run = r /\ dispatches' \in [RunIds -> Nat]
          /\ dispatches'[r] = 1 /\ \A q \in RunIds : q # r => dispatches'[q] = dispatches[q]
      BY <1>1, <1>4, <2>3, <2>4, <2>12, ActorDispatches DEF Core
    <3>2. SnapKnows(s)'
      <4>1. ASSUME NEW q \in RunIds, dispatches'[q] > 0
            PROVE  q \in DOMAIN s.runs /\ s.runs[q].status # "queued"
        <5>1. CASE q = r
          BY <2>2, <2>8, <5>1
        <5>2. CASE q # r
          BY <2>7, <3>1, <4>1, <5>2 DEF Snap, SnapKnows
        <5> QED BY <5>1, <5>2
      <4> QED BY <2>2, <2>6, <2>8, <3>1, <4>1 DEF SnapKnows
    <3>3. Snap(s)'
      BY <1>1, <2>7, <3>2 DEF Snap, SnapTyped, SnapDue, SnapTrue, Succeeded, LocatedIn
    <3>4. Tracks(s)'
      <4>1. active.run = 0
        BY <1>4, NoRunFacts
      <4> SUFFICES ASSUME NEW q \in DOMAIN s.runs, s.runs[q].status \in Claimed, q # r
                   PROVE  s.runs[q].status = "starting" /\ dispatches'[q] = 0
        BY <3>1 DEF Tracks
      <4>2. q \in RunIds /\ q # 0
        BY <2>7, SnapInRuns DEF Snap, RunIds
      <4> QED BY <2>9, <3>1, <4>1, <4>2 DEF Tracks
    <3>5. mem' = s /\ disk' = {s}
      BY <2>12 DEF Commits
    <3> QED BY <3>1, <3>3, <3>4, <3>5 DEF Core, SnapsOK, TracksOK
  <2>13. \/ Commits(s) /\ active' = [NoRun EXCEPT !.run = r]
            /\ turn' = [turn EXCEPT ![r] = "preparing"]
            /\ dispatches' = [dispatches EXCEPT ![r] = @ + 1]
         \/ CommitFails(s) /\ UNCHANGED <<active, turn, dispatches>>
    BY <1>4, <2>1, <2>10, Zenon DEF Dispatch
  <2> QED BY <2>11, <2>12, <2>13
<1> QED BY <1>3, <1>4 DEF Dispatch

(* Time, crashes and recovery.                                             *)
LEMMA PassStep ==
  ASSUME Core, Pass
  PROVE  Core'
<1>1. UNCHANGED <<pc, active, events, journal, turn, dispatches, asker, store>> /\ clock' = clock + 1
  BY DEF Pass, agent, requests
<1>2. /\ pc \in Pcs /\ (pc \in Absent => active = NoRun)
      /\ pc \in Closing => active.completion # "none"
  BY DEF Core, Tasks, Typed, TasksOK, ActorOK, Absent, Closing
<1>3. clock' \in Nat /\ clock <= clock'
  BY <1>1, CoreActive
<1>4. Goes
  BY <1>1, <1>2, <1>3, ActorSame DEF Core
<1> QED BY <1>1, <1>4, CoreStays

LEMMA BootStep ==
  ASSUME Core, Boot
  PROVE  Core'
<1>1. /\ UNCHANGED <<clock, active, events, journal, turn, dispatches, asker, store>>
      /\ pc = "down" /\ pc' = "recover"
  BY DEF Boot, agent, requests
<1>2. active = NoRun /\ pc' \in Pcs /\ pc' \in Absent /\ pc' \notin Closing
  BY <1>1 DEF Core, Tasks, TasksOK, ActorOK, Pcs, Absent, Closing
<1>3. clock' \in Nat /\ clock <= clock'
  BY <1>1, CoreActive
<1>4. Goes
  BY <1>1, <1>2, <1>3, ActorSame DEF Core
<1> QED BY <1>1, <1>2, <1>4, CoreStays

LEMMA CrashStep ==
  ASSUME Core, Crash
  PROVE  Core'
<1>1. mem' \in disk' /\ disk' \subseteq disk /\ pc' = "down"
  BY DEF Crash, Core, SnapsOK, store
<1>2. Goes
  BY ActorStops DEF Core
<1>3. \A t : Snap(t) => Snap(t)'
  BY <1>2, SnapOnward DEF Core, Goes
<1>4. SnapsOK'
  BY <1>1, <1>3 DEF Core, SnapsOK
<1>5. TracksOK'
  BY <1>1 DEF TracksOK
<1> QED BY <1>2, <1>4, <1>5 DEF Core, Goes

(* What recovery makes of a run is borne out by the run's journal.         *)
LEMMA RecoveredFacts ==
  ASSUME Core, NEW m, m = mem, NEW r \in RunIds, NEW x, x = RecoveredStatus(r)
  PROVE  /\ x \in Ended /\ (x = "succeeded" => Succeeded(r))
         /\ LocatedIn(m, r) /\ journal[r].outcome # "none" => x = journal[r].outcome
<1>1. journal[r].outcome \in Outcomes /\ (journal[r].outcome = "succeeded" => Succeeded(r))
  BY JournalFacts DEF Core, Tasks, Typed, TasksOK, RunOK, JournalFields
<1>2. Located(r) <=> LocatedIn(m, r)
  BY DEF Located, LocatedIn
<1>3. Durable(r) \in Outcomes /\ (Durable(r) = "succeeded" => Succeeded(r))
  BY DEF Durable, Succeeded, Outcomes, Ended
<1>4. "interrupted" \in Ended /\ Outcomes = Ended \union {"none"}
  BY DEF Outcomes, Ended
<1> QED BY <1>1, <1>2, <1>3, <1>4 DEF RecoveredStatus

LEMMA RecoverStep ==
  ASSUME Core, Recover
  PROVE  Core'
<1>1. /\ pc = "recover" /\ active = NoRun /\ active.run = 0
      /\ UNCHANGED <<clock, active, events, journal, turn, dispatches, asker>>
  BY NoRunFacts DEF Recover, requests, agent, Core, Tasks, TasksOK, ActorOK
<1>2. PICK m : m = mem /\ Snap(m) /\ m \in SnapType /\ (pc \notin Absent => Tracks(m))
  BY CoreMem
<1>3. clock' \in Nat /\ clock <= clock'
  BY <1>1, CoreActive
<1>4. CASE ToRecover = {} /\ pc' = "select" /\ UNCHANGED store
  <2>1. pc' \in Pcs /\ pc' \notin Absent /\ pc' \notin Closing
    BY <1>4 DEF Pcs, Absent, Closing
  <2>2. Goes
    BY <1>1, <1>3, <2>1, ActorSame DEF Core
  <2>3. SnapsOK'
    BY <1>4, <2>2, SnapsStay DEF Core, Goes
  <2>4. Tracks(m)'
    BY <1>2, <1>4 DEF Tracks, ToRecover, Stored, Status
  <2>5. TracksOK'
    BY <1>2, <1>4, <2>4 DEF TracksOK, store
  <2> QED BY <2>2, <2>3, <2>5 DEF Core, Goes
<1>5. CASE ToRecover # {}
  <2>1. PICK r : r = CHOOSE p \in ToRecover : \A q \in ToRecover : p <= q
    OBVIOUS
  <2>2. r \in ToRecover
    <3>1. ToRecover \in SUBSET Nat
      BY <1>2, SnapInRuns DEF ToRecover, Stored, Snap, RunIds
    <3>2. \E x \in ToRecover : \A y \in ToRecover : x <= y
      BY <1>5, <3>1, LeastIn
    <3> QED BY <2>1, <3>2
  <2>3. r \in DOMAIN m.runs /\ r \in RunIds /\ r # 0
    BY <1>2, <2>2, SnapInRuns DEF ToRecover, Stored, Snap, RunIds
  <2>4. PICK x : x = RecoveredStatus(r)
    OBVIOUS
  <2>5. /\ x \in Ended /\ (x = "succeeded" => Succeeded(r))
        /\ LocatedIn(m, r) /\ journal[r].outcome # "none" => x = journal[r].outcome
    BY <1>2, <2>3, <2>4, RecoveredFacts
  <2>6. x \in Statuses \ {"queued"} /\ "none" \in Files
    BY <2>5 DEF Statuses, Ended, Files
  <2>7. PICK s : s = Updated(m, r, x, "none")
    OBVIOUS
  <2>8. Snap(s)
    BY <1>1, <1>2, <2>3, <2>5, <2>6, <2>7, SnapUpdated
  <2>9. s = Updated(mem, r, RecoveredStatus(r), "none")
    BY <1>2, <2>4, <2>7
  <2>10. /\ Commits(s) \/ CommitFails(s)
         /\ pc' \in {pc, "down"}
    BY <1>5, <2>1, <2>9, Zenon DEF Recover
  <2>11. pc' \in Pcs /\ pc' \in Absent /\ pc' \notin Closing
    BY <1>1, <2>10 DEF Pcs, Absent, Closing
  <2>12. Goes
    BY <1>1, <1>3, <2>11, ActorSame DEF Core
  <2>13. SnapsOK'
    BY <2>8, <2>10, <2>12, WritesOf, SnapsStep DEF Core, Goes
  <2>14. TracksOK'
    BY <2>11 DEF TracksOK, Absent
  <2> QED BY <2>12, <2>13, <2>14 DEF Core, Goes
<1> QED BY <1>4, <1>5 DEF Recover

-----------------------------------------------------------------------------
(* The inductive invariant, concluded: the requests to the user.  They     *)
(* wait in the order they were asked, none left out, until the actor reads *)
(* them; and the run an agent waits in is at work.                         *)

IsAsk(e) == e.kind = "asks"
Unread(es, c) == \E i \in DOMAIN es : IsAsk(es[i]) /\ es[i].ask = c
Queue(es, n) ==
  /\ \A i, j \in DOMAIN es : i < j /\ IsAsk(es[i]) /\ IsAsk(es[j]) => es[i].ask < es[j].ask
  /\ \A i \in DOMAIN es : IsAsk(es[i]) =>
       es[i].ask \in 1 .. n /\ \A c \in 1 .. n : c > es[i].ask => Unread(es, c)

(* What was read is shown, or a later permission has taken its place.      *)
Shown(a) ==
  IF asker[a].kind = "question" THEN a \in shown.questions
  ELSE \/ shown.permission = a
       \/ \E b \in Asks : b > a /\ Read(b) /\ asker[b].kind = "permission"
ReadIsShown == \A a \in waiting : Read(a) => Shown(a)

RequestsOK ==
  /\ waiting \subseteq Asks /\ answered \subseteq Asks /\ waiting \cap answered = {}
  /\ shown \in [permission : Asks \union {0}, questions : SUBSET Asks]
  /\ \A a \in waiting : turn[asker[a].run] = "operating"
  /\ Queue(events, Len(asker))
  /\ \A i \in DOMAIN events : IsAsk(events[i]) => events[i].run = asker[events[i].ask].run
  /\ ReadIsShown

(* The same requests are unread.                                           *)
SameAsks(es, t) ==
  /\ \A n : Queue(es, n) => Queue(t, n)
  /\ \A c : Unread(t, c) <=> Unread(es, c)
  /\ \A i \in DOMAIN t : IsAsk(t[i]) => \E j \in DOMAIN es : t[i] = es[j]

LEMMA QuietTail ==
  ASSUME NEW es \in Seq(EventType), es # <<>>, ~IsAsk(Head(es)), NEW t, t = Tail(es)
  PROVE  SameAsks(es, t)
<1>1. /\ Head(es) = es[1] /\ 1 \in DOMAIN es
      /\ \A i \in DOMAIN t : t[i] = es[i + 1] /\ i + 1 \in DOMAIN es /\ i \in Int
      /\ \A i \in DOMAIN es : i \in Int /\ (i # 1 => i - 1 \in DOMAIN t)
  BY TailFacts
<1>2. \A i \in DOMAIN es : IsAsk(es[i]) => i - 1 \in DOMAIN t /\ t[i - 1] = es[i]
  <2> SUFFICES ASSUME NEW i \in DOMAIN es, IsAsk(es[i])
               PROVE  i - 1 \in DOMAIN t /\ t[i - 1] = es[i]
    OBVIOUS
  <2>1. i # 1
    BY <1>1
  <2>2. i - 1 \in DOMAIN t /\ (i - 1) + 1 = i
    BY <1>1, <2>1
  <2> QED BY <1>1, <2>2
<1>3. \A c : Unread(t, c) <=> Unread(es, c)
  BY <1>1, <1>2 DEF Unread
<1>4. ASSUME NEW n, Queue(es, n) PROVE Queue(t, n)
  <2>1. ASSUME NEW i \in DOMAIN t, NEW j \in DOMAIN t, i < j, IsAsk(t[i]), IsAsk(t[j])
        PROVE  t[i].ask < t[j].ask
    <3>1. i + 1 < j + 1
      BY <1>1, <2>1
    <3> QED BY <1>1, <1>4, <2>1, <3>1 DEF Queue
  <2>2. ASSUME NEW i \in DOMAIN t, IsAsk(t[i])
        PROVE  t[i].ask \in 1 .. n /\ \A c \in 1 .. n : c > t[i].ask => Unread(t, c)
    BY <1>1, <1>3, <1>4, <2>2 DEF Queue
  <2> QED BY <2>1, <2>2 DEF Queue
<1> QED BY <1>1, <1>3, <1>4 DEF SameAsks

LEMMA ConcatFacts ==
  ASSUME NEW es \in Seq(EventType), NEW e \in EventType, NEW t, t = es \o <<e>>
  PROVE  /\ t \in Seq(EventType) /\ Len(es) \in Nat
         /\ DOMAIN t = 1 .. Len(es) + 1 /\ DOMAIN es = 1 .. Len(es)
         /\ \A i \in 1 .. Len(es) : t[i] = es[i]
         /\ t[Len(es) + 1] = e
<1>1. PICK n : n = <<e>>
  OBVIOUS
<1>2. n \in Seq(EventType) /\ Len(n) = 1 /\ n[1] = e
  BY <1>1
<1>3. /\ t \in Seq(EventType) /\ Len(t) = Len(es) + Len(n)
      /\ \A i \in 1 .. Len(es) + Len(n) : t[i] = IF i <= Len(es) THEN es[i] ELSE n[i - Len(es)]
  BY <1>1, <1>2, ConcatProperties
<1>4. Len(es) \in Nat /\ DOMAIN es = 1 .. Len(es) /\ DOMAIN t = 1 .. Len(t)
  BY <1>3, LenProperties
<1> QED BY <1>2, <1>3, <1>4

LEMMA TwoConcat ==
  ASSUME NEW S, NEW e \in S, NEW f \in S, NEW es \in Seq(S)
  PROVE  es \o <<e, f>> = (es \o <<e>>) \o <<f>>
<1>1. PICK ee, ff : ee = <<e>> /\ ff = <<f>>
  OBVIOUS
<1>2. ee \in Seq(S) /\ ff \in Seq(S)
  BY <1>1
<1>3. <<e, f>> = Append(ee, f)
  BY <1>1
<1>4. <<e, f>> = ee \o ff
  BY <1>1, <1>2, <1>3, AppendIsConcat
<1>5. es \o (ee \o ff) = (es \o ee) \o ff
  BY <1>2, ConcatAssociative
<1> QED BY <1>1, <1>4, <1>5, Zenon

LEMMA QuietConcat ==
  ASSUME NEW es \in Seq(EventType), NEW e \in EventType, ~IsAsk(e), NEW t, t = es \o <<e>>
  PROVE  t \in Seq(EventType) /\ SameAsks(es, t)
<1>1. /\ t \in Seq(EventType) /\ Len(es) \in Nat
      /\ DOMAIN t = 1 .. Len(es) + 1 /\ DOMAIN es = 1 .. Len(es)
      /\ \A i \in 1 .. Len(es) : t[i] = es[i]
      /\ t[Len(es) + 1] = e
  BY ConcatFacts
<1>2. \A i \in DOMAIN t : IsAsk(t[i]) => i \in DOMAIN es
  BY <1>1
<1>3. \A i \in DOMAIN es : i \in DOMAIN t /\ t[i] = es[i]
  BY <1>1
<1>4. \A c : Unread(t, c) <=> Unread(es, c)
  BY <1>2, <1>3 DEF Unread
<1>5. \A n : Queue(es, n) => Queue(t, n)
  BY <1>2, <1>3, <1>4 DEF Queue
<1> QED BY <1>1, <1>2, <1>3, <1>4, <1>5 DEF SameAsks

(* The next request joins the queue, and leaves it.                        *)
Joined(es, t, e, n) ==
  /\ Queue(t, n + 1)
  /\ \A c : Unread(t, c) <=> Unread(es, c) \/ c = n + 1
  /\ \A i \in DOMAIN t : (i \in DOMAIN es /\ t[i] = es[i]) \/ t[i] = e

LEMMA AskJoins ==
  ASSUME NEW es \in Seq(EventType), NEW e \in EventType, NEW n \in Nat, Queue(es, n),
         IsAsk(e), e.ask = n + 1, NEW t, t = es \o <<e>>
  PROVE  Joined(es, t, e, n)
<1>1. /\ t \in Seq(EventType) /\ Len(es) \in Nat
      /\ DOMAIN t = 1 .. Len(es) + 1 /\ DOMAIN es = 1 .. Len(es)
      /\ \A i \in 1 .. Len(es) : t[i] = es[i]
      /\ t[Len(es) + 1] = e
  BY ConcatFacts
<1>2. \A i \in DOMAIN t : /\ i \in Int
                          /\ \/ i \in DOMAIN es /\ t[i] = es[i]
                             \/ i = Len(es) + 1 /\ t[i] = e
  BY <1>1
<1>3. \A i \in DOMAIN es : i \in DOMAIN t /\ t[i] = es[i]
  BY <1>1
<1>4. \A c : Unread(t, c) <=> Unread(es, c) \/ c = n + 1
  <2>1. ASSUME NEW c, Unread(t, c) PROVE Unread(es, c) \/ c = n + 1
    BY <1>2, <2>1 DEF Unread
  <2>2. ASSUME NEW c, Unread(es, c) PROVE Unread(t, c)
    BY <1>3, <2>2 DEF Unread
  <2>3. Unread(t, n + 1)
    <3>1. Len(es) + 1 \in DOMAIN t
      BY <1>1
    <3> QED BY <1>1, <3>1 DEF Unread
  <2> QED BY <2>1, <2>2, <2>3
<1>5. ASSUME NEW i \in DOMAIN t, NEW j \in DOMAIN t, i < j, IsAsk(t[i]), IsAsk(t[j])
      PROVE  t[i].ask < t[j].ask
  <2>1. i \in DOMAIN es /\ t[i] = es[i]
    BY <1>1, <1>2, <1>5
  <2>2. CASE j \in DOMAIN es /\ t[j] = es[j]
    BY <1>5, <2>1, <2>2 DEF Queue
  <2>3. CASE t[j] = e
    BY <1>5, <2>1, <2>3 DEF Queue
  <2> QED BY <1>2, <2>2, <2>3
<1>6. ASSUME NEW i \in DOMAIN t, IsAsk(t[i])
      PROVE  t[i].ask \in 1 .. n + 1 /\ \A c \in 1 .. n + 1 : c > t[i].ask => Unread(t, c)
  <2>1. CASE i \in DOMAIN es /\ t[i] = es[i]
    <3>1. t[i].ask \in 1 .. n /\ \A c \in 1 .. n : c > t[i].ask => Unread(es, c)
      BY <1>6, <2>1 DEF Queue
    <3>2. \A c \in 1 .. n + 1 : c \in 1 .. n \/ c = n + 1
      OBVIOUS
    <3> QED BY <1>4, <3>1, <3>2
  <2>2. CASE t[i] = e
    BY <2>2
  <2> QED BY <1>2, <2>1, <2>2
<1> QED BY <1>2, <1>4, <1>5, <1>6 DEF Queue, Joined

Departed(es, t, a, n) ==
  /\ Queue(t, n) /\ a \in 1 .. n
  /\ \A c : Unread(t, c) <=> Unread(es, c) /\ c # a
  /\ \A c \in 1 .. n : c > a => Unread(es, c)
  /\ \A i \in DOMAIN t : \E j \in DOMAIN es : t[i] = es[j]

LEMMA AskLeaves ==
  ASSUME NEW es \in Seq(EventType), es # <<>>, NEW n \in Nat, Queue(es, n), IsAsk(Head(es)),
         NEW a, a = Head(es).ask, NEW t, t = Tail(es)
  PROVE  Departed(es, t, a, n)
<1>1. /\ Head(es) = es[1] /\ 1 \in DOMAIN es
      /\ \A i \in DOMAIN t : t[i] = es[i + 1] /\ i + 1 \in DOMAIN es /\ i \in Nat \ {0}
      /\ \A i \in DOMAIN es : i \in Nat \ {0} /\ (i # 1 => i - 1 \in DOMAIN t)
  BY TailFacts
<1>2. a \in 1 .. n /\ \A c \in 1 .. n : c > a => Unread(es, c)
  BY <1>1 DEF Queue
<1>3. \A i \in DOMAIN t : IsAsk(t[i]) => a < t[i].ask /\ t[i].ask \in 1 .. n
  <2> SUFFICES ASSUME NEW i \in DOMAIN t, IsAsk(t[i]) PROVE a < t[i].ask /\ t[i].ask \in 1 .. n
    OBVIOUS
  <2>1. 1 < i + 1 /\ i + 1 \in DOMAIN es /\ t[i] = es[i + 1]
    BY <1>1
  <2> QED BY <1>1, <2>1 DEF Queue
<1>4. \A c : Unread(t, c) <=> Unread(es, c) /\ c # a
  <2>1. ASSUME NEW c, Unread(t, c) PROVE Unread(es, c) /\ c # a
    <3>1. PICK i \in DOMAIN t : IsAsk(t[i]) /\ t[i].ask = c
      BY <2>1 DEF Unread
    <3>2. c # a
      BY <1>2, <1>3, <3>1
    <3> QED BY <1>1, <3>1, <3>2 DEF Unread
  <2>2. ASSUME NEW c, Unread(es, c), c # a PROVE Unread(t, c)
    <3>1. PICK i \in DOMAIN es : IsAsk(es[i]) /\ es[i].ask = c
      BY <2>2 DEF Unread
    <3>2. i - 1 \in DOMAIN t /\ (i - 1) + 1 = i
      BY <1>1, <2>2, <3>1
    <3>3. t[i - 1] = es[i]
      BY <1>1, <3>2
    <3> QED BY <3>1, <3>2, <3>3 DEF Unread
  <2> QED BY <2>1, <2>2
<1>5. ASSUME NEW i \in DOMAIN t, NEW j \in DOMAIN t, i < j, IsAsk(t[i]), IsAsk(t[j])
      PROVE  t[i].ask < t[j].ask
  <2>1. i + 1 < j + 1
    BY <1>1, <1>5
  <2> QED BY <1>1, <1>5, <2>1 DEF Queue
<1>6. ASSUME NEW i \in DOMAIN t, IsAsk(t[i])
      PROVE  t[i].ask \in 1 .. n /\ \A c \in 1 .. n : c > t[i].ask => Unread(t, c)
  <2>1. \A c \in 1 .. n : c > t[i].ask => Unread(es, c)
    BY <1>1, <1>6 DEF Queue
  <2>2. \A c \in 1 .. n : c > t[i].ask => c # a
    BY <1>2, <1>3, <1>6
  <2> QED BY <1>3, <1>4, <1>6, <2>1, <2>2
<1>7. Queue(t, n)
  BY <1>5, <1>6 DEF Queue
<1>8. \A i \in DOMAIN t : \E j \in DOMAIN es : t[i] = es[j]
  BY <1>1
<1> QED BY <1>2, <1>4, <1>7, <1>8 DEF Departed

LEMMA ReadIsNotUnread ==
  ASSUME NEW es, NEW a
  PROVE  es = events => (Read(a) <=> ~Unread(es, a))
BY DEF Read, Unread, IsAsk

LEMMA ReadIsNotUnreadNext ==
  ASSUME NEW es, NEW a
  PROVE  es = events' => (Read(a)' <=> ~Unread(es, a))
BY DEF Read, Unread, IsAsk

(* Who waits, waits in the active run.                                     *)
LEMMA WaitingFacts ==
  ASSUME Core, RequestsOK, NEW a \in waiting
  PROVE  /\ a \in Asks /\ asker[a].run \in RunIds /\ turn[asker[a].run] = "operating"
         /\ active.run = asker[a].run /\ active.completion = "none"
<1>1. a \in Asks /\ turn[asker[a].run] = "operating"
  BY DEF RequestsOK
<1>2. asker[a].run \in RunIds
  <2>1. asker[a] \in AskType
    BY <1>1, ElementOfSeq DEF Core, Tasks, Typed, Asks
  <2> QED BY <2>1 DEF AskType
<1>3. active.run = asker[a].run /\ active.run # 0
  BY <1>1, <1>2 DEF Core, Tasks, TasksOK, RunOK, Working, RunIds
<1>4. active.completion = "none"
  BY <1>1, <1>3 DEF Core, Tasks, TasksOK, ActorOK
<1> QED BY <1>1, <1>2, <1>3, <1>4

(* No request is made, read or shown.                                      *)
LEMMA RequestsSame ==
  ASSUME Core, RequestsOK, UNCHANGED <<shown, answered, asker>>, waiting' \subseteq waiting,
         \A a \in waiting' : turn'[asker[a].run] = "operating",
         NEW es, es = events, NEW t, t = events', SameAsks(es, t)
  PROVE  RequestsOK'
<1>1. PICK n : n = Len(asker)
  OBVIOUS
<1>2. Asks = 1 .. n /\ Asks' = 1 .. n
  BY <1>1 DEF Asks
<1>3. Queue(t, n)
  BY <1>1 DEF SameAsks, RequestsOK
<1>4. Queue(events, Len(asker))'
  BY <1>1, <1>3
<1>5. \A c : Read(c)' <=> Read(c)
  BY ReadIsNotUnread, ReadIsNotUnreadNext DEF SameAsks
<1>6. ReadIsShown'
  <2> SUFFICES ASSUME NEW a \in waiting', Read(a)' PROVE Shown(a)'
    BY DEF ReadIsShown
  <2>1. Shown(a)
    BY <1>5 DEF RequestsOK, ReadIsShown
  <2> QED BY <1>2, <1>5, <2>1 DEF Shown
<1>7. \A i \in DOMAIN t : IsAsk(t[i]) => t[i].run = asker[t[i].ask].run
  BY DEF SameAsks, RequestsOK
<1> QED BY <1>2, <1>4, <1>6, <1>7 DEF RequestsOK

LEMMA SameAsksRefl ==
  ASSUME NEW es
  PROVE  SameAsks(es, es)
BY DEF SameAsks

LEMMA RequestsStay ==
  ASSUME Core, RequestsOK, UNCHANGED <<shown, answered, asker, events>>, waiting' \subseteq waiting,
         \A a \in waiting' : turn'[asker[a].run] = "operating"
  PROVE  RequestsOK'
<1>1. PICK es : es = events
  OBVIOUS
<1> QED BY <1>1, SameAsksRefl, RequestsSame

(* The steps of a run's task.                                              *)
LEMMA OthersWait ==
  ASSUME Core, RequestsOK, NEW r \in RunIds, turn[r] # "operating", NEW x,
         turn' = [turn EXCEPT ![r] = x]
  PROVE  \A a \in waiting : turn'[asker[a].run] = "operating"
BY WaitingFacts DEF Core, Tasks, Typed

LEMMA RequestsReported ==
  ASSUME Core, RequestsOK, UNCHANGED <<shown, answered, asker>>, waiting' \subseteq waiting,
         \A a \in waiting' : turn'[asker[a].run] = "operating",
         NEW e \in EventType, ~IsAsk(e), events' = events \o <<e>>
  PROVE  RequestsOK'
<1>1. PICK es, t : es = events /\ t = events' /\ t = es \o <<e>> /\ es \in Seq(EventType)
  BY DEF Core, Tasks, Typed
<1>2. SameAsks(es, t)
  BY <1>1, QuietConcat
<1> QED BY <1>1, <1>2, RequestsSame

LEMMA PrepareRequests ==
  ASSUME Core, RequestsOK, NEW r \in RunIds, Prepare(r)
  PROVE  RequestsOK'
<1>1. UNCHANGED <<shown, answered, asker, waiting>> /\ turn[r] # "operating"
      /\ turn' = [turn EXCEPT ![r] = "prepared"]
  BY DEF Prepare, TaskFrame
<1>2. \A a \in waiting' : turn'[asker[a].run] = "operating"
  BY <1>1, OthersWait
<1>3. PICK ok \in BOOLEAN : events' = events \o <<[kind |-> "prepared", run |-> r, ok |-> ok]>>
  BY DEF Prepare, Emit
<1>4. PICK e : e = [kind |-> "prepared", run |-> r, ok |-> ok]
  OBVIOUS
<1>5. e \in EventType /\ ~IsAsk(e)
  BY <1>4 DEF EventType, IsAsk
<1>6. events' = events \o <<e>>
  BY <1>3, <1>4
<1> QED BY <1>1, <1>2, <1>5, <1>6, RequestsReported

LEMMA QuietTaskRequests ==
  ASSUME Core, RequestsOK, NEW r \in RunIds, Arm(r) \/ StartOperation(r) \/ Report(r)
  PROVE  RequestsOK'
<1>1. UNCHANGED <<shown, answered, asker, waiting, events>>
  BY DEF Arm, StartOperation, Report, TaskFrame
<1>2. \A a \in waiting' : turn'[asker[a].run] = "operating"
  <2>1. CASE Arm(r)
    BY <1>1, <2>1, OthersWait DEF Arm
  <2>2. CASE StartOperation(r)
    BY <1>1, <2>2, OthersWait DEF StartOperation
  <2>3. CASE Report(r)
    BY <1>1, <2>3 DEF Report, RequestsOK
  <2> QED BY <2>1, <2>2, <2>3
<1> QED BY <1>1, <1>2, RequestsStay

LEMMA TurnDroppedRequests ==
  ASSUME Core, RequestsOK, NEW r \in RunIds, TurnDropped(r)
  PROVE  RequestsOK'
<1>1. UNCHANGED <<shown, answered, asker, waiting>> /\ turn[r] # "operating"
      /\ turn' = [turn EXCEPT ![r] = "done"]
  BY DEF TurnDropped, TaskFrame
<1>2. \A a \in waiting' : turn'[asker[a].run] = "operating"
  BY <1>1, OthersWait
<1>3. PICK e : e = [kind |-> "finished", run |-> r]
  OBVIOUS
<1>4. e \in EventType /\ ~IsAsk(e)
  BY <1>3 DEF EventType, IsAsk
<1>5. events' = events \o <<e>>
  BY <1>3 DEF TurnDropped, Emit
<1> QED BY <1>1, <1>2, <1>4, <1>5, RequestsReported

LEMMA TurnEndsRequests ==
  ASSUME Core, RequestsOK, NEW r \in RunIds, TurnEnds(r)
  PROVE  RequestsOK'
<1>1. UNCHANGED <<shown, answered, asker, waiting>>
      /\ turn' = [turn EXCEPT ![r] = "done"]
  BY DEF TurnEnds, TaskFrame
<1>2. \A a \in waiting' : turn'[asker[a].run] = "operating"
  <2>1. CASE turn[r] = "operating"
    BY <1>1, <2>1 DEF TurnEnds
  <2>2. CASE turn[r] # "operating"
    BY <1>1, <2>2, OthersWait
  <2> QED BY <2>1, <2>2
<1>3. PICK e, f : e = [kind |-> "error", run |-> r] /\ f = [kind |-> "finished", run |-> r]
  OBVIOUS
<1>4. e \in EventType /\ ~IsAsk(e) /\ f \in EventType /\ ~IsAsk(f)
  BY <1>3 DEF EventType, IsAsk
<1>5. events' = events \o <<f>> \/ events' = events \o <<e, f>>
  BY <1>3 DEF TurnEnds, Emit
<1>6. CASE events' = events \o <<f>>
  BY <1>1, <1>2, <1>4, <1>6, RequestsReported
<1>7. CASE events' = events \o <<e, f>>
  <2>1. PICK es, u, t : /\ es = events /\ t = events' /\ u = es \o <<e>> /\ t = u \o <<f>>
                        /\ es \in Seq(EventType) /\ u \in Seq(EventType)
    <3>1. PICK es \in Seq(EventType) : es = events
      BY DEF Core, Tasks, Typed
    <3>2. PICK u \in Seq(EventType) : u = es \o <<e>>
      BY <1>4, ConcatFacts
    <3>3. es \o <<e, f>> = u \o <<f>>
      BY <1>4, <3>2, TwoConcat
    <3> QED BY <1>7, <3>1, <3>2, <3>3
  <2>2. SameAsks(es, u) /\ SameAsks(u, t)
    BY <1>4, <2>1, QuietConcat
  <2>3. SameAsks(es, t)
    BY <2>2 DEF SameAsks
  <2> QED BY <1>1, <1>2, <2>1, <2>3, RequestsSame
<1> QED BY <1>5, <1>6, <1>7

LEMMA ShownFacts ==
  ASSUME RequestsOK
  PROVE  \E p \in Asks \union {0}, q \in SUBSET Asks : shown = [permission |-> p, questions |-> q]
BY DEF RequestsOK

LEMMA AskRequests ==
  ASSUME Core, RequestsOK, NEW r \in RunIds, Ask(r)
  PROVE  RequestsOK'
<1>1. UNCHANGED <<shown, answered, turn>> /\ turn[r] = "operating"
  BY DEF Ask, TaskFrame
<1>2. PICK k \in {"permission", "question"} : asker' = Append(asker, [run |-> r, kind |-> k])
  BY DEF Ask
<1>3. asker \in Seq(AskType) /\ [run |-> r, kind |-> k] \in AskType /\ events \in Seq(EventType)
  BY DEF AskType, Core, Tasks, Typed
<1>4. PICK n \in Nat : n = Len(asker) /\ Asks = 1 .. n
  BY <1>3, LenProperties DEF Asks
<1>5. /\ Len(asker') = n + 1 /\ Asks' = 1 .. n + 1
      /\ \A c \in Asks : asker'[c] = asker[c] /\ c # n + 1 /\ c \in Asks'
      /\ asker'[n + 1].run = r
  BY <1>2, <1>3, <1>4, AppendProperties DEF Asks
<1>6. waiting' = waiting \union {n + 1}
  BY <1>5 DEF Ask
<1>7. PICK e : e = [kind |-> "asks", run |-> r, ask |-> n + 1]
  OBVIOUS
<1>8. e \in EventType /\ IsAsk(e) /\ e.ask = n + 1 /\ e.run = r
  BY <1>7 DEF EventType, IsAsk
<1>9. PICK es, t : es \in Seq(EventType) /\ es = events /\ t = events' /\ t = es \o <<e>>
  BY <1>3, <1>5, <1>7 DEF Ask, Emit
<1>10. Queue(es, n)
  BY <1>4, <1>9 DEF RequestsOK
<1>11. /\ Queue(t, n + 1)
       /\ \A c : Unread(t, c) <=> Unread(es, c) \/ c = n + 1
       /\ \A i \in DOMAIN t : (i \in DOMAIN es /\ t[i] = es[i]) \/ t[i] = e
  <2>1. Joined(es, t, e, n)
    <3>1. e \in EventType /\ IsAsk(e) /\ e.ask = n + 1 /\ n \in Nat
      BY <1>8
    <3>2. es \in Seq(EventType) /\ t = es \o <<e>>
      BY <1>9
    <3> QED BY <1>10, <3>1, <3>2, AskJoins
  <2> QED BY <2>1 DEF Joined
<1>12. \A c : Read(c)' <=> Read(c) /\ c # n + 1
  BY <1>9, <1>11, ReadIsNotUnread, ReadIsNotUnreadNext
<1>13. waiting' \subseteq Asks' /\ answered' \subseteq Asks' /\ waiting' \cap answered' = {}
  <2>1. n + 1 \in Asks' /\ n + 1 \notin answered
    BY <1>4, <1>5 DEF RequestsOK
  <2>2. waiting \subseteq Asks' /\ answered \subseteq Asks' /\ waiting \cap answered = {}
    BY <1>5 DEF RequestsOK
  <2> QED BY <1>1, <1>6, <2>1, <2>2
<1>14. (shown \in [permission : Asks \union {0}, questions : SUBSET Asks])'
  BY <1>1, <1>5, ShownFacts
<1>15. ASSUME NEW a \in waiting' PROVE turn'[asker'[a].run] = "operating"
  <2>1. CASE a \in waiting
    BY <1>1, <1>5, <2>1 DEF RequestsOK
  <2>2. CASE a = n + 1
    BY <1>1, <1>5, <2>2
  <2> QED BY <1>6, <2>1, <2>2
<1>16. ASSUME NEW i \in DOMAIN t, IsAsk(t[i]) PROVE t[i].run = asker'[t[i].ask].run
  <2>1. CASE i \in DOMAIN es /\ t[i] = es[i]
    <3>1. es[i].run = asker[es[i].ask].run /\ es[i].ask \in Asks
      BY <1>4, <1>9, <1>10, <1>16, <2>1 DEF RequestsOK, Queue
    <3> QED BY <1>5, <2>1, <3>1
  <2>2. CASE t[i] = e
    BY <1>5, <1>8, <2>2
  <2> QED BY <1>11, <2>1, <2>2
<1>17. ReadIsShown'
  <2> SUFFICES ASSUME NEW a \in waiting', Read(a)' PROVE Shown(a)'
    BY DEF ReadIsShown
  <2>1. a \in waiting /\ Read(a)
    BY <1>6, <1>12
  <2>2. Shown(a) /\ a \in Asks
    BY <2>1 DEF RequestsOK, ReadIsShown
  <2> QED BY <1>1, <1>5, <1>12, <2>2 DEF Shown
<1>18. (Queue(events, Len(asker)))'
  BY <1>5, <1>9, <1>11
<1> QED BY <1>9, <1>13, <1>14, <1>15, <1>16, <1>17, <1>18 DEF RequestsOK

(* The user and the actor.                                                 *)
LEMMA AnswerRequests ==
  ASSUME Core, RequestsOK, NEW a \in Asks, Answer(a)
  PROVE  RequestsOK'
<1>1. /\ UNCHANGED <<shown, asker, turn, events>> /\ a \in waiting
      /\ waiting' = waiting \ {a} /\ answered' = answered \union {a}
  BY DEF Answer, agent
<1>2. Asks' = Asks
  BY <1>1 DEF Asks
<1>3. \A c : Read(c)' <=> Read(c)
  BY <1>1 DEF Read
<1>4. ReadIsShown'
  <2> SUFFICES ASSUME NEW b \in waiting', Read(b)' PROVE Shown(b)'
    BY DEF ReadIsShown
  <2>1. Shown(b)
    BY <1>1, <1>3 DEF RequestsOK, ReadIsShown
  <2> QED BY <1>1, <1>2, <1>3, <2>1 DEF Shown
<1>5. Queue(events, Len(asker))'
  BY <1>1 DEF RequestsOK, Queue, Unread
<1> QED BY <1>1, <1>2, <1>4, <1>5 DEF RequestsOK

LEMMA ResolvedRequests ==
  ASSUME Core, RequestsOK, NEW a \in Asks, Resolved(a)
  PROVE  RequestsOK'
<1>1. /\ UNCHANGED <<waiting, asker, turn, events>> /\ a \in answered
      /\ answered' = answered \ {a}
      /\ shown' = shown \/ shown' = Unshown(a)
  BY DEF Resolved, ActorFrame, agent
<1>2. Asks' = Asks
  BY <1>1 DEF Asks
<1>3. \A c : Read(c)' <=> Read(c)
  BY <1>1 DEF Read
<1>4. PICK p \in Asks \union {0}, q \in SUBSET Asks : shown = [permission |-> p, questions |-> q]
  BY ShownFacts
<1>5. /\ shown' \in [permission : Asks \union {0}, questions : SUBSET Asks]
      /\ \A b : b # a /\ b \in shown.questions => b \in shown'.questions
      /\ \A b : b # a /\ b = shown.permission => b = shown'.permission
  BY <1>1, <1>4 DEF Unshown
<1>6. ReadIsShown'
  <2> SUFFICES ASSUME NEW b \in waiting', Read(b)' PROVE Shown(b)'
    BY DEF ReadIsShown
  <2>1. Shown(b) /\ b # a
    BY <1>1, <1>3 DEF RequestsOK, ReadIsShown
  <2> QED BY <1>1, <1>2, <1>3, <1>5, <2>1 DEF Shown
<1>7. Queue(events, Len(asker))'
  BY <1>1 DEF RequestsOK, Queue, Unread
<1> QED BY <1>1, <1>2, <1>5, <1>6, <1>7 DEF RequestsOK

LEMMA ReadingTyped ==
  ASSUME Core, NEW kind, Reads(kind)
  PROVE  \E es, t :
           /\ es \in Seq(EventType) /\ es = events /\ t = events'
           /\ t = Tail(es) /\ es # <<>> /\ Head(es).kind = kind
           /\ UNCHANGED <<answered, asker, waiting>>
BY DEF Core, Tasks, Typed, Reads, ActorFrame

LEMMA QuietReads ==
  ASSUME Core, RequestsOK, NEW kind, Reads(kind), kind # "asks", UNCHANGED shown,
         \A a \in waiting : turn'[asker[a].run] = "operating"
  PROVE  RequestsOK'
<1>1. PICK es, t :
        /\ es \in Seq(EventType) /\ es = events /\ t = events'
        /\ t = Tail(es) /\ es # <<>> /\ Head(es).kind = kind
        /\ UNCHANGED <<answered, asker, waiting>>
  BY ReadingTyped
<1>2. SameAsks(es, t)
  BY <1>1, QuietTail DEF IsAsk
<1> QED BY <1>1, <1>2, RequestsSame

LEMMA PreparedRequests ==
  ASSUME Core, RequestsOK, Prepared
  PROVE  RequestsOK'
<1>1. Reads("prepared") /\ UNCHANGED shown
  BY DEF Prepared
<1>2. \A a \in waiting : turn'[asker[a].run] = "operating"
  <2>1. CASE UNCHANGED turn
    BY <2>1 DEF RequestsOK
  <2>2. CASE turn' = [turn EXCEPT ![active.run] = "sent"] /\ Head(events).run = active.run
    <3>1. PICK r \in RunIds : r = active.run /\ turn[r] = "prepared"
      <4>1. Head(events) = events[1] /\ 1 \in DOMAIN events /\ events \in Seq(EventType)
            /\ Head(events).kind = "prepared"
        BY <1>1, Reading, TailFacts DEF Core, Tasks, Typed
      <4>2. Head(events).run \in RunIds /\ EventOK(Head(events))
        BY <4>1, EventsIn DEF Core, Tasks, EndsOnce
      <4> QED BY <2>2, <4>1, <4>2 DEF EventOK
    <3> QED BY <2>2, <3>1, OthersWait
  <2> QED BY <2>1, <2>2 DEF Prepared
<1> QED BY <1>1, <1>2, QuietReads

LEMMA OtherReadsRequests ==
  ASSUME Core, RequestsOK, NotPrepared \/ AgentError \/ Finished
  PROVE  RequestsOK'
<1>1. UNCHANGED <<shown, turn>>
  BY DEF NotPrepared, AgentError, Finished
<1>2. \A a \in waiting : turn'[asker[a].run] = "operating"
  BY <1>1 DEF RequestsOK
<1>3. Reads("prepared") \/ Reads("error") \/ Reads("finished")
  BY DEF NotPrepared, AgentError, Finished
<1> QED BY <1>1, <1>2, <1>3, QuietReads

(* The actor shows a request; a later permission takes an earlier's place. *)
LEMMA AskedRequests ==
  ASSUME Core, RequestsOK, Asked
  PROVE  RequestsOK'
<1>1. Reads("asks") /\ UNCHANGED <<turn, active>>
  BY DEF Asked
<1>2. PICK es, t :
        /\ es \in Seq(EventType) /\ es = events /\ t = events'
        /\ t = Tail(es) /\ es # <<>> /\ Head(es).kind = "asks"
        /\ UNCHANGED <<answered, asker, waiting>>
  BY <1>1, ReadingTyped
<1>3. PICK n \in Nat : n = Len(asker) /\ Asks = 1 .. n /\ Asks' = 1 .. n
  BY <1>2, LenProperties DEF Asks, Core, Tasks, Typed
<1>4. PICK a : a = Head(es).ask
  OBVIOUS
<1>5. Queue(es, n) /\ IsAsk(Head(es))
  BY <1>2, <1>3 DEF RequestsOK, IsAsk
<1>6. /\ Queue(t, n) /\ a \in 1 .. n
      /\ \A c : Unread(t, c) <=> Unread(es, c) /\ c # a
      /\ \A c \in 1 .. n : c > a => Unread(es, c)
      /\ \A i \in DOMAIN t : \E j \in DOMAIN es : t[i] = es[j]
  <2>1. Departed(es, t, a, n)
    BY <1>2, <1>4, <1>5, AskLeaves
  <2> QED BY <2>1 DEF Departed
<1>7. \A c : Read(c)' <=> Read(c) \/ c = a
  BY <1>2, <1>6, ReadIsNotUnread, ReadIsNotUnreadNext
<1>8. Head(es).run = asker[a].run
  <2>1. Head(es) = es[1] /\ 1 \in DOMAIN es
    BY <1>2, TailFacts
  <2> QED BY <1>2, <1>4, <1>5, <2>1 DEF RequestsOK
<1>9. PICK p \in Asks \union {0}, q \in SUBSET Asks : shown = [permission |-> p, questions |-> q]
  BY ShownFacts
<1>10. CASE Head(es).run # active.run
  <2>1. UNCHANGED shown
    BY <1>2, <1>10 DEF Asked
  <2>2. a \notin waiting
    BY <1>8, <1>10, WaitingFacts
  <2>3. ReadIsShown'
    <3> SUFFICES ASSUME NEW b \in waiting', Read(b)' PROVE Shown(b)'
      BY DEF ReadIsShown
    <3>1. Shown(b)
      BY <1>2, <1>7, <2>2 DEF RequestsOK, ReadIsShown
    <3> QED BY <1>2, <1>3, <1>7, <2>1, <3>1 DEF Shown
  <2>4. Queue(events, Len(asker))'
    BY <1>2, <1>3, <1>6
  <2> QED BY <1>1, <1>2, <1>3, <1>6, <2>1, <2>3, <2>4 DEF RequestsOK
<1>11. CASE Head(es).run = active.run
  <2>1. shown' = IF asker[a].kind = "permission" THEN [shown EXCEPT !.permission = a]
                 ELSE [shown EXCEPT !.questions = @ \union {a}]
    BY <1>2, <1>4, <1>11, Zenon DEF Asked
  <2>2. shown' = IF asker[a].kind = "permission" THEN [permission |-> a, questions |-> q]
                 ELSE [permission |-> p, questions |-> q \union {a}]
    BY <1>9, <2>1
  <2>3. asker[a].kind \in {"permission", "question"}
    <3>1. asker[a] \in AskType
      BY <1>3, <1>6, ElementOfSeq DEF Core, Tasks, Typed
    <3> QED BY <3>1 DEF AskType
  <2>4. shown' \in [permission : Asks' \union {0}, questions : SUBSET Asks']
    BY <1>3, <1>6, <2>2
  <2>5. ReadIsShown'
    <3> SUFFICES ASSUME NEW b \in waiting', Read(b)' PROVE Shown(b)'
      BY DEF ReadIsShown
    <3>1. CASE b = a
      BY <1>2, <2>2, <2>3, <3>1 DEF Shown
    <3>2. CASE b # a
      <4>1. Shown(b) /\ Read(b) /\ b \in Asks
        BY <1>2, <1>7, <3>2 DEF RequestsOK, ReadIsShown
      <4>2. CASE asker[b].kind = "question"
        BY <1>2, <1>9, <2>2, <4>1, <4>2 DEF Shown
      <4>3. CASE /\ asker[b].kind # "question"
                 /\ \E c \in Asks : c > b /\ Read(c) /\ asker[c].kind = "permission"
        BY <1>2, <1>3, <1>7, <4>3 DEF Shown
      <4>4. CASE asker[b].kind # "question" /\ shown.permission = b
        <5>1. CASE asker[a].kind = "permission"
          <6>1. a > b
            <7>1. ~(b > a)
              BY <1>2, <1>3, <1>6, <4>1, ReadIsNotUnread
            <7> QED BY <1>3, <1>6, <3>2, <4>1, <7>1
          <6>2. a \in Asks' /\ Read(a)' /\ asker'[a].kind = "permission"
            BY <1>2, <1>3, <1>6, <1>7, <5>1
          <6> QED BY <1>2, <4>4, <6>1, <6>2 DEF Shown
        <5>2. CASE asker[a].kind # "permission"
          BY <1>2, <1>9, <2>2, <4>4, <5>2 DEF Shown
        <5> QED BY <5>1, <5>2
      <4> QED BY <4>1, <4>2, <4>3, <4>4 DEF Shown
    <3> QED BY <3>1, <3>2
  <2>6. Queue(events, Len(asker))'
    BY <1>2, <1>3, <1>6
  <2> QED BY <1>1, <1>2, <1>3, <1>6, <2>4, <2>5, <2>6 DEF RequestsOK
<1> QED BY <1>10, <1>11

(* Aborting a task ends its waiting.                                       *)
LEMMA AbortRequests ==
  ASSUME Core, RequestsOK, active.run # 0, UNCHANGED <<shown, answered, asker, events>>,
         TurnAborts(active.run) \/ UNCHANGED <<turn, waiting>>
  PROVE  RequestsOK'
<1>1. CASE UNCHANGED <<turn, waiting>>
  BY <1>1, RequestsStay DEF RequestsOK
<1>2. CASE TurnAborts(active.run)
  <2>1. waiting' \subseteq waiting
    BY <1>2 DEF TurnAborts
  <2>2. CASE turn[active.run] = "operating"
    BY <1>2, <2>1, <2>2, RequestsStay DEF TurnAborts
  <2>3. CASE turn[active.run] # "operating"
    <3>1. waiting = {}
      BY <2>3, WaitingFacts
    <3> QED BY <2>1, <3>1, RequestsStay
  <2> QED BY <2>2, <2>3
<1> QED BY <1>1, <1>2

LEMMA TickRequests ==
  ASSUME Core, RequestsOK, Tick
  PROVE  RequestsOK'
<1>1. UNCHANGED <<shown, answered, asker, events>>
  BY DEF Tick, ActorFrame
<1>2. UNCHANGED <<turn, waiting>> \/ (active.run # 0 /\ TurnAborts(active.run))
  BY DEF Tick
<1>3. CASE UNCHANGED <<turn, waiting>>
  BY <1>1, <1>3, RequestsStay DEF RequestsOK
<1> QED BY <1>1, <1>2, <1>3, AbortRequests

LEMMA CancelActiveRequests ==
  ASSUME Core, RequestsOK, NEW r \in Stored, CancelActive(r)
  PROVE  RequestsOK'
<1>1. UNCHANGED <<shown, answered, asker, events>> /\ active.run = r
  BY DEF CancelActive, Commanded, ActorFrame
<1>2. active.run # 0
  <2>1. PICK m : m = mem /\ Snap(m)
    BY CoreMem
  <2> QED BY <1>1, <2>1, SnapInRuns DEF Snap, Stored, RunIds
<1>3. TurnAborts(active.run) \/ UNCHANGED <<turn, waiting>>
  BY <1>1 DEF CancelActive
<1> QED BY <1>1, <1>2, <1>3, AbortRequests

(* The steps that concern no request.                                      *)
LEMMA OtherRequests ==
  ASSUME Core, RequestsOK,
         \/ \E d \in Defs : SetEnabled(d) \/ RunNow(d)
         \/ \E r \in Stored : CancelOther(r)
         \/ Record \/ Enqueue \/ Pass \/ Boot \/ Recover
  PROVE  RequestsOK'
<1>1. UNCHANGED <<shown, answered, asker, events, turn, waiting>>
  BY DEF SetEnabled, RunNow, CancelOther, Commanded, Stores, Record, Enqueue, ScheduleFrame,
         ActorFrame, Pass, Boot, Recover, requests, agent
<1> QED BY <1>1, RequestsStay DEF RequestsOK

LEMMA CloseRequests ==
  ASSUME Core, RequestsOK, Close
  PROVE  RequestsOK'
<1>1. /\ UNCHANGED <<answered, asker, events, turn, waiting>>
      /\ shown' = shown \/ shown' = NothingShown
      /\ pc \in {"close", "reclose"}
  BY DEF Close, ActorFrame, agent
<1>2. waiting = {}
  <2>1. active.completion # "none"
    BY <1>1 DEF Core, Tasks, TasksOK, ActorOK
  <2> QED BY <2>1, WaitingFacts
<1>3. Asks' = Asks
  BY <1>1 DEF Asks
<1>4. shown' \in [permission : Asks \union {0}, questions : SUBSET Asks]
  BY <1>1 DEF RequestsOK, NothingShown
<1>5. Queue(events, Len(asker))'
  BY <1>1 DEF RequestsOK, Queue, Unread
<1> QED BY <1>1, <1>2, <1>3, <1>4, <1>5 DEF RequestsOK, ReadIsShown

LEMMA DispatchRequests ==
  ASSUME Core, RequestsOK, Dispatch
  PROVE  RequestsOK'
<1>1. UNCHANGED <<shown, answered, asker, events, waiting>>
  BY DEF Dispatch, ScheduleFrame, ActorFrame
<1>2. CASE UNCHANGED turn
  BY <1>1, <1>2, RequestsStay DEF RequestsOK
<1>3. CASE active = NoRun
  <2>1. waiting = {}
    BY <1>3, WaitingFacts, NoRunFacts DEF RunIds
  <2> QED BY <1>1, <2>1, RequestsStay
<1> QED BY <1>2, <1>3 DEF Dispatch

LEMMA CrashRequests ==
  ASSUME Core, RequestsOK, Crash
  PROVE  RequestsOK'
<1>1. events' = <<>> /\ DOMAIN events' = {} /\ shown' = NothingShown /\ answered' = {}
      /\ waiting' = {} /\ UNCHANGED asker
  BY EmptySeq DEF Crash
<1>2. shown' \in [permission : Asks' \union {0}, questions : SUBSET Asks']
  BY <1>1 DEF NothingShown
<1>3. Queue(events, Len(asker))'
  BY <1>1 DEF Queue
<1> QED BY <1>1, <1>2, <1>3 DEF RequestsOK, ReadIsShown

-----------------------------------------------------------------------------
(* The invariant is inductive.                                             *)

Inv == Core /\ RequestsOK

LEMMA Initial ==
  ASSUME Init
  PROVE  Inv
<1>1. PICK on \in [Defs -> BOOLEAN] :
        mem = [defs |-> [d \in Defs |-> Saved(on[d], 0)], runs |-> <<>>]
  BY DEF Init
<1>2. PICK x \in Nat : x = NextAt(0, 0) /\ x > 0
  BY NextAtFacts
<1>3. ASSUME NEW d \in Defs
      PROVE  /\ Saved(on[d], 0) \in DefType
             /\ Saved(on[d], 0).on <=> Saved(on[d], 0).next > 0
  <2>1. Saved(on[d], 0) = [on |-> on[d], anchor |-> 0, failures |-> 0, next |-> IF on[d] THEN x ELSE 0]
    BY <1>2 DEF Saved
  <2>2. PICK sv : sv = Saved(on[d], 0)
    OBVIOUS
  <2>3. CASE on[d]
    <3>1. sv = [on |-> TRUE, anchor |-> 0, failures |-> 0, next |-> x]
      BY <2>1, <2>2, <2>3
    <3>2. sv \in DefType /\ sv.on = TRUE /\ sv.next > 0
      BY <1>2, <3>1 DEF DefType
    <3> QED BY <2>2, <3>2
  <2>4. CASE ~on[d]
    <3>1. sv = [on |-> FALSE, anchor |-> 0, failures |-> 0, next |-> 0]
      BY <2>1, <2>2, <2>4
    <3>2. sv \in DefType /\ sv.on = FALSE /\ ~(sv.next > 0)
      BY <3>1 DEF DefType
    <3> QED BY <2>2, <3>2
  <2> QED BY <2>3, <2>4
<1>4. PICK ds : ds = [d \in Defs |-> Saved(on[d], 0)]
  OBVIOUS
<1>15. ds \in [Defs -> DefType]
  BY <1>3, <1>4
<1>16. \A d \in Defs : ds[d].on <=> ds[d].next > 0
  BY <1>3, <1>4
<1>5. PICK m : m = [defs |-> ds, runs |-> <<>>]
  OBVIOUS
<1>6. /\ m \in SnapType /\ m.runs = <<>> /\ m.defs = ds /\ DOMAIN m.runs = {} /\ Len(m.runs) = 0
      /\ mem = m /\ disk = {m}
  BY <1>1, <1>4, <1>5, <1>15, EmptySeq DEF Init, SnapType
<1>7. /\ active.run = 0 /\ active \in ActiveType /\ active.completion = "none" /\ active = NoRun
  BY NoRunFacts DEF Init
<1>8. \A r \in RunIds : /\ dispatches[r] = 0 /\ turn[r] = "none" /\ journal[r] = NoJournal
  BY DEF Init
<1>9. /\ NoJournal \in JournalType
      /\ NoJournal.op = "none" /\ NoJournal.report = "none" /\ NoJournal.outcome = "none"
  BY DEF NoJournal, JournalType, Outcomes
<1>10. Tasks
  <2>1. Typed
    <3>1. journal \in [RunIds -> JournalType] /\ turn \in [RunIds -> Turns]
          /\ dispatches \in [RunIds -> Nat]
      BY <1>9 DEF Init, Turns
    <3>2. events \in Seq(EventType) /\ asker \in Seq(AskType)
      BY EmptySeq DEF Init
    <3> QED BY <1>7, <3>1, <3>2 DEF Typed, Init, Pcs
  <2>2. \A r \in RunIds : RunOK(r)
    BY <1>8, <1>9 DEF RunOK, Working
  <2>3. ActorOK
    BY <1>7 DEF ActorOK, Init
  <2>4. EndsOnce
    BY EmptySeq DEF EndsOnce, Single, Init
  <2> QED BY <2>1, <2>2, <2>3, <2>4 DEF Tasks, TasksOK
<1>11. Snap(m)
  <2>1. SnapTyped(m)
    BY <1>6, <1>16, PeriodFact DEF SnapTyped
  <2>2. SnapKnows(m)
    BY <1>7, <1>8 DEF SnapKnows
  <2>3. SnapDue(m) /\ SnapTrue(m)
    BY <1>6 DEF SnapDue, SnapTrue
  <2> QED BY <2>1, <2>2, <2>3 DEF Snap
<1>12. SnapsOK
  BY <1>6, <1>11 DEF SnapsOK
<1>13. TracksOK
  BY <1>6 DEF TracksOK, Tracks
<1>14. RequestsOK
  BY EmptySeq DEF Init, RequestsOK, Queue, ReadIsShown, NothingShown
<1> QED BY <1>10, <1>12, <1>13, <1>14 DEF Inv, Core

LEMMA NextStep ==
  ASSUME Inv, Next
  PROVE  Inv'
<1>0. Core /\ RequestsOK
  BY DEF Inv
<1>1. ASSUME NEW r \in RunIds, Work(r) PROVE Inv'
  <2>1. Core'
    BY <1>0, <1>1, WorkStep
  <2>2. RequestsOK'
    BY <1>0, <1>1, PrepareRequests, QuietTaskRequests, AskRequests, TurnEndsRequests,
       TurnDroppedRequests DEF Work
  <2> QED BY <2>1, <2>2 DEF Inv
<1>2. ASSUME NEW a \in Asks, Answer(a) \/ Resolved(a) PROVE Inv'
  BY <1>0, <1>2, AnswerStep, ResolvedStep, AnswerRequests, ResolvedRequests DEF Inv
<1>3. ASSUME NEW d \in Defs, SetEnabled(d) \/ RunNow(d) PROVE Inv'
  BY <1>0, <1>3, SetEnabledStep, RunNowStep, OtherRequests DEF Inv
<1>4. ASSUME NEW r \in Stored, CancelActive(r) \/ CancelOther(r) PROVE Inv'
  BY <1>0, <1>4, CancelActiveStep, CancelOtherStep, CancelActiveRequests, OtherRequests DEF Inv
<1>5. CASE Tick
  BY <1>0, <1>5, TickStep, TickRequests DEF Inv
<1>6. CASE NotPrepared \/ AgentError \/ Finished
  BY <1>0, <1>6, NotPreparedStep, AgentErrorStep, FinishedStep, OtherReadsRequests DEF Inv
<1>7. CASE Prepared
  BY <1>0, <1>7, PreparedStep, PreparedRequests DEF Inv
<1>8. CASE Asked
  BY <1>0, <1>8, AskedStep, AskedRequests DEF Inv
<1>9. CASE Record \/ Enqueue \/ Pass \/ Boot \/ Recover
  BY <1>0, <1>9, RecordStep, EnqueueStep, PassStep, BootStep, RecoverStep, OtherRequests DEF Inv
<1>10. CASE Close
  BY <1>0, <1>10, CloseStep, CloseRequests DEF Inv
<1>11. CASE Dispatch
  BY <1>0, <1>11, DispatchStep, DispatchRequests DEF Inv
<1>12. CASE Crash
  BY <1>0, <1>12, CrashStep, CrashRequests DEF Inv
<1> QED BY <1>1, <1>2, <1>3, <1>4, <1>5, <1>6, <1>7, <1>8, <1>9, <1>10, <1>11, <1>12 DEF Next

LEMMA Stuttering ==
  ASSUME Inv, UNCHANGED vars
  PROVE  Inv'
<1>1. /\ UNCHANGED <<clock, pc, active, events, journal, turn, dispatches, asker, store>>
      /\ UNCHANGED <<shown, answered, waiting>>
  BY DEF vars, requests, agent
<1>2. /\ pc \in Pcs /\ (pc \in Absent => active = NoRun)
      /\ pc \in Closing => active.completion # "none"
  BY DEF Inv, Core, Tasks, Typed, TasksOK, ActorOK, Absent, Closing
<1>3. clock' \in Nat /\ clock <= clock'
  BY <1>1, CoreActive DEF Inv
<1>4. Goes
  BY <1>1, <1>2, <1>3, ActorSame DEF Inv, Core
<1>5. Core'
  BY <1>1, <1>4, CoreStays DEF Inv
<1>6. RequestsOK'
  BY <1>1, RequestsStay DEF Inv, RequestsOK
<1> QED BY <1>5, <1>6 DEF Inv

LEMMA Inductive == Spec => []Inv
<1>1. Init => Inv
  BY Initial
<1>2. Inv /\ [Next]_vars => Inv'
  BY NextStep, Stuttering
<1> QED BY <1>1, <1>2, PTL DEF Spec

-----------------------------------------------------------------------------
(* The theorems.                                                           *)

LEMMA SnapWellFormed ==
  ASSUME NEW s, Snap(s)
  PROVE  WellFormed(s)
<1>1. s \in SnapType
  BY DEF Snap, SnapTyped
<1> QED BY <1>1, SnapFields DEF Snap, SnapTyped, WellFormed, Statuses, Files

(* Every variable has its shape, whatever fails and whenever the process   *)
(* stops: the actor records and closes only a run it has and whose         *)
(* completion is decided.                                                  *)
THEOREM TypeCorrect == Spec => []TypeOK
<1>1. Inv => TypeOK
  <2> SUFFICES ASSUME Inv PROVE TypeOK
    OBVIOUS
  <2>0. Core /\ RequestsOK
    BY DEF Inv
  <2>1. mem \in disk /\ \A s \in disk : WellFormed(s)
    BY <2>0, SnapWellFormed DEF Core, SnapsOK
  <2>2. active.run \in Stored \union {0}
    <3>1. PICK m : m = mem /\ Snap(m)
      BY <2>0, CoreMem
    <3> QED BY <3>1 DEF Snap, SnapKnows, Stored
  <2>3. /\ clock \in Nat /\ pc \in Pcs /\ turn \in [RunIds -> Turns]
        /\ active.runtime \in BOOLEAN /\ active.cancellation \in {"none", "cancelled", "failed"}
        /\ active.completion \in Outcomes
    BY <2>0, CoreActive, ActiveFacts DEF Core, Tasks, Typed
  <2>4. pc \in Closing => active.run # 0 /\ active.completion # "none"
    BY <2>0 DEF Core, Tasks, TasksOK, ActorOK, Closing
  <2>5. /\ shown.permission \in Asks \union {0} /\ shown.questions \subseteq Asks
        /\ waiting \subseteq Asks /\ answered \subseteq Asks
    BY <2>0 DEF RequestsOK
  <2>6. \A r \in RunIds : dispatches[r] = 0 => turn[r] = "none" /\ journal[r] = NoJournal
    BY <2>0 DEF Core, Tasks, TasksOK, RunOK
  <2> QED BY <2>1, <2>2, <2>3, <2>4, <2>5, <2>6 DEF TypeOK, Pcs, Turns, Closing
<1> QED BY <1>1, Inductive, PTL

(* A run is dispatched at most once, and no two work at the same time,     *)
(* whatever is retried, restarted or recovered.                            *)
THEOREM RunsDispatchedOnce == Spec => []DispatchedOnce
<1>1. Inv => DispatchedOnce
  BY DEF Inv, Core, Tasks, Typed, TasksOK, RunOK, DispatchedOnce, Working
<1> QED BY <1>1, Inductive, PTL

(* Outside recovery no claimed run is lost from sight: it is the active    *)
(* one, or one whose claim failed late and that was never dispatched.      *)
THEOREM ClaimsTracked == Spec => []Tracked
<1>1. Inv => Tracked
  <2> SUFFICES ASSUME Inv PROVE Tracked
    OBVIOUS
  <2>1. PICK m : m = mem /\ Snap(m) /\ (pc \notin Absent => Tracks(m))
    BY CoreMem DEF Inv
  <2> QED BY <2>1 DEF Tracked, Tracks, Snap, SnapKnows, Absent, Stored, Status
<1> QED BY <1>1, Inductive, PTL

(* An occurrence of a schedule is queued once, whatever write is lost with *)
(* the machine: the next one is always later than all that were queued.    *)
THEOREM NoOccurrenceTwice == Spec => []OccurrencesOnce
<1>1. Inv => OccurrencesOnce
  <2> SUFFICES ASSUME Inv PROVE OccurrencesOnce
    OBVIOUS
  <2>1. PICK m : m = mem /\ Snap(m)
    BY CoreMem DEF Inv
  <2> QED BY <2>1 DEF OccurrencesOnce, Snap, SnapDue, Stored
<1> QED BY <1>1, Inductive, PTL

(* How a run is stored as ended agrees with its journal: with its          *)
(* operation, its report, and the outcome that was written there.          *)
THEOREM EndsAreTrue == Spec => []EndIsTrue
<1>1. Inv => EndIsTrue
  <2> SUFFICES ASSUME Inv PROVE EndIsTrue
    OBVIOUS
  <2>1. PICK m : m = mem /\ Snap(m)
    BY CoreMem DEF Inv
  <2> QED BY <2>1 DEF EndIsTrue, Snap, SnapTrue, Succeeded, LocatedIn, Located, Stored, Status
<1> QED BY <1>1, Inductive, PTL

(* Every question the agent waits for stays shown until it is answered,    *)
(* however many are asked at once and in whichever order they are          *)
(* answered, and so does the permission that was asked last.               *)
THEOREM LatestRequestsShown == Spec => []LatestIsShown
<1>1. Inv => LatestIsShown
  BY DEF Inv, RequestsOK, ReadIsShown, Shown, LatestIsShown, AskedLast, Visible
<1> QED BY <1>1, Inductive, PTL
=============================================================================
