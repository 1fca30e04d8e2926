------------------------- MODULE SubagentMessages_proofs ------------------------
(***************************************************************************)
(* Theorems about the messages of SubagentHub, for any lanes, roles and    *)
(* bounds: the type of every variable, and that each message is delivered  *)
(* once.                                                                   *)
(***************************************************************************)
EXTENDS SubagentHub_proofs, SequenceTheorems

(* A sequence without repetitions.                                         *)
Distinct(q) == \A i, j \in 1 .. Len(q) : q[i] = q[j] => i = j

-----------------------------------------------------------------------------
(* Sequences.                                                              *)

LEMMA RangeOf ==
  ASSUME NEW S, NEW q \in Seq(S)
  PROVE  /\ Range(q) = {q[i] : i \in 1 .. Len(q)}
         /\ Range(q) \subseteq S
BY DEF Range

LEMMA SeqWider ==
  ASSUME NEW S, NEW T, S \subseteq T, NEW q \in Seq(S)
  PROVE  q \in Seq(T)
OBVIOUS

(* A sequence cut in two at n.                                             *)
LEMMA CutFacts ==
  ASSUME NEW S, NEW q \in Seq(S), Distinct(q), NEW n \in 0 .. Len(q)
  PROVE  LET a == SubSeq(q, 1, n)
             b == SubSeq(q, n + 1, Len(q))
         IN  /\ a \in Seq(S) /\ b \in Seq(S)
             /\ Len(b) = Len(q) - n
             /\ Distinct(b)
             /\ Range(a) \union Range(b) = Range(q)
             /\ Range(a) \cap Range(b) = {}
<1> DEFINE a == SubSeq(q, 1, n)
           b == SubSeq(q, n + 1, Len(q))
<1>1. /\ a \in Seq(S) /\ Len(a) = n
      /\ \A i \in 1 .. n : a[i] = q[i]
  <2>1. \A i \in 1 .. n : q[i] \in S
    OBVIOUS
  <2> QED BY <2>1, SubSeqProperties
<1>2. /\ b \in Seq(S) /\ Len(b) = Len(q) - n
      /\ \A i \in 1 .. Len(q) - n : b[i] = q[n + i]
  <2>1. \A i \in n + 1 .. Len(q) : q[i] \in S
    OBVIOUS
  <2> QED BY <2>1, SubSeqProperties
<1> HIDE DEF a, b
<1>3. Distinct(b)
  <2> SUFFICES ASSUME NEW i \in 1 .. Len(b), NEW j \in 1 .. Len(b), b[i] = b[j]
               PROVE  i = j
    BY DEF Distinct
  <2>1. n + i \in 1 .. Len(q) /\ n + j \in 1 .. Len(q) /\ q[n + i] = q[n + j]
    BY <1>2
  <2>2. n + i = n + j
    BY <2>1 DEF Distinct
  <2> QED BY <1>2, <2>2
<1>4. /\ Range(a) = {q[i] : i \in 1 .. n}
      /\ Range(b) = {q[i] : i \in n + 1 .. Len(q)}
  <2>1. Range(a) = {a[i] : i \in 1 .. n}
    BY <1>1, RangeOf
  <2>2. Range(b) = {b[i] : i \in 1 .. Len(q) - n}
    BY <1>2, RangeOf
  <2>3. ASSUME NEW i \in n + 1 .. Len(q) PROVE i - n \in 1 .. Len(q) - n /\ b[i - n] = q[i]
    BY <1>2
  <2>4. {a[i] : i \in 1 .. n} = {q[i] : i \in 1 .. n}
    BY <1>1
  <2>5. \A i \in 1 .. Len(q) - n : b[i] = q[n + i] /\ n + i \in n + 1 .. Len(q)
    BY <1>2
  <2>6. {b[i] : i \in 1 .. Len(q) - n} = {q[i] : i \in n + 1 .. Len(q)}
    BY <2>3, <2>5
  <2> QED BY <2>1, <2>2, <2>4, <2>6
<1>5. Range(q) = {q[i] : i \in 1 .. Len(q)}
  BY RangeOf
<1>6. Range(a) \union Range(b) = Range(q)
  BY <1>4, <1>5
<1>7. Range(a) \cap Range(b) = {}
  BY <1>4 DEF Distinct
<1> QED BY <1>1, <1>2, <1>3, <1>6, <1>7 DEF a, b

(* What an inbox keeps and what makes room.                                *)
LEMMA KeptFacts ==
  ASSUME NEW S, NEW q \in Seq(S), Distinct(q)
  PROVE  /\ Kept(q) \in Seq(S)
         /\ Len(Kept(q)) <= InboxDepth
         /\ Distinct(Kept(q))
         /\ Evicted(q) \union Range(Kept(q)) = Range(q)
         /\ Evicted(q) \cap Range(Kept(q)) = {}
<1>1. InboxDepth \in Nat /\ Overflow(q) \in 0 .. Len(q) /\ Len(q) - Overflow(q) <= InboxDepth
  BY HubAssumption DEF Overflow
<1>2. PICK n \in 0 .. Len(q) : n = Overflow(q)
  BY <1>1
<1>3. /\ Kept(q) = SubSeq(q, n + 1, Len(q))
      /\ Evicted(q) = Range(SubSeq(q, 1, n))
  BY <1>2 DEF Kept, Evicted
<1> QED BY <1>1, <1>2, <1>3, CutFacts

LEMMA KeptShort ==
  ASSUME NEW S, NEW q \in Seq(S), Len(q) <= InboxDepth
  PROVE  Kept(q) = q /\ Evicted(q) = {}
<1>1. Overflow(q) = 0
  BY HubAssumption DEF Overflow
<1>2. SubSeq(q, 1, Len(q)) = q
  BY SubSeqFull
<1>3. SubSeq(q, 1, 0) = <<>>
  OBVIOUS
<1> QED BY <1>1, <1>2, <1>3 DEF Kept, Evicted, Range

LEMMA JoinFacts ==
  ASSUME NEW S, NEW q \in Seq(S), NEW s \in Seq(S), Distinct(q), Distinct(s),
         Range(q) \cap Range(s) = {}
  PROVE  /\ q \o s \in Seq(S)
         /\ Distinct(q \o s)
         /\ Range(q \o s) = Range(q) \union Range(s)
<1> DEFINE t == q \o s
<1>1. /\ t \in Seq(S) /\ Len(t) = Len(q) + Len(s)
      /\ \A i \in 1 .. Len(t) : t[i] = IF i <= Len(q) THEN q[i] ELSE s[i - Len(q)]
  OBVIOUS
<1>2. /\ Range(q) = {q[i] : i \in 1 .. Len(q)}
      /\ Range(s) = {s[i] : i \in 1 .. Len(s)}
      /\ Range(t) = {t[i] : i \in 1 .. Len(t)}
  BY <1>1, RangeOf
<1> HIDE DEF t
<1>3. Distinct(t)
  <2> SUFFICES ASSUME NEW i \in 1 .. Len(t), NEW j \in 1 .. Len(t), t[i] = t[j]
               PROVE  i = j
    BY DEF Distinct
  <2>1. CASE i <= Len(q) /\ j <= Len(q)
    BY <1>1, <2>1 DEF Distinct
  <2>2. CASE i > Len(q) /\ j > Len(q)
    <3>1. i - Len(q) \in 1 .. Len(s) /\ j - Len(q) \in 1 .. Len(s) /\ s[i - Len(q)] = s[j - Len(q)]
      BY <1>1, <2>2
    <3>2. i - Len(q) = j - Len(q)
      BY <3>1 DEF Distinct
    <3> QED BY <3>2
  <2>a. ASSUME NEW x \in 1 .. Len(t), NEW y \in 1 .. Len(t), x <= Len(q), y > Len(q)
        PROVE  t[x] # t[y]
    <3>1. x \in 1 .. Len(q) /\ y - Len(q) \in 1 .. Len(s)
      BY <1>1, <2>a
    <3>2. t[x] \in Range(q)
      BY <1>1, <1>2, <2>a, <3>1
    <3>3. t[y] \in Range(s)
      BY <1>1, <1>2, <2>a, <3>1
    <3> QED BY <3>2, <3>3
  <2>3. CASE i <= Len(q) /\ j > Len(q)
    BY <2>a, <2>3
  <2>4. CASE i > Len(q) /\ j <= Len(q)
    BY <2>a, <2>4
  <2> QED BY <2>1, <2>2, <2>3, <2>4
<1>4. Range(t) = Range(q) \union Range(s)
  <2>1. \A i \in 1 .. Len(s) : t[Len(q) + i] = s[i] /\ Len(q) + i \in 1 .. Len(t)
    BY <1>1
  <2>2. \A i \in 1 .. Len(q) : t[i] = q[i] /\ i \in 1 .. Len(t)
    BY <1>1
  <2>3. Range(q) \union Range(s) \subseteq Range(t)
    BY <1>2, <2>1, <2>2
  <2>4. ASSUME NEW i \in 1 .. Len(t) PROVE t[i] \in Range(q) \union Range(s)
    BY <1>1, <1>2
  <2> QED BY <1>2, <2>3, <2>4
<1> QED BY <1>1, <1>3, <1>4 DEF t

LEMMA AppendFacts ==
  ASSUME NEW S, NEW q \in Seq(S), NEW x \in S, Distinct(q), x \notin Range(q)
  PROVE  /\ Append(q, x) \in Seq(S)
         /\ Distinct(Append(q, x))
         /\ Range(Append(q, x)) = Range(q) \union {x}
<1> DEFINE s == <<x>>
<1>1. s \in Seq(S) /\ Distinct(s) /\ Range(s) = {x}
  BY DEF Distinct, Range
<1>2. Append(q, x) = q \o s
  OBVIOUS
<1> HIDE DEF s
<1>3. Range(q) \cap Range(s) = {}
  BY <1>1
<1> QED BY <1>1, <1>2, <1>3, JoinFacts

-----------------------------------------------------------------------------
(* The invariant of the messages.                                          *)

ReviveType == [at : {"idle", "drain", "resume"}, notes : SUBSET Nat]

(* Every message that waits anywhere was sent.                             *)
MessagesTyped ==
  /\ posted \in Seq(Roles \union {"direct", "notice"})
  /\ Len(posted) <= MaxMessages
  /\ inbox \in [Keys -> Seq(Messages)]
  /\ \A k \in Keys : Len(inbox[k]) <= InboxDepth
  /\ broadcasts \in Seq(Messages)
  /\ Len(broadcasts) <= MaxBroadcasts
  /\ taken \subseteq Messages \X Keys
  /\ revive \in [Lanes -> ReviveType]
  /\ \A l \in Lanes : revive[l].notes \subseteq Messages

(* The places a message can be in: an inbox, what was read from an inbox   *)
(* or fell out of it, the hands of a revival.                              *)
In(m, k) == m \in Range(inbox[k])
Gone(m, k) == <<m, k>> \in taken
Noted(m, l) == m \in revive[l].notes

(* m is in one place.                                                      *)
InOnePlace(m) ==
  /\ \/ \E k \in Keys : In(m, k) \/ Gone(m, k)
     \/ \E l \in Lanes : Noted(m, l)
  /\ \A k, j \in Keys :
       /\ In(m, k) /\ In(m, j) => k = j
       /\ Gone(m, k) /\ Gone(m, j) => k = j
       /\ ~(In(m, k) /\ Gone(m, j))
  /\ \A l \in Lanes :
       /\ \A k \in Keys : Noted(m, l) => ~In(m, k) /\ ~Gone(m, k)
       /\ \A k \in Lanes : Noted(m, k) /\ Noted(m, l) => k = l

(* The broadcast m waits for no role, and has reached a lane at most once, *)
(* and neither the sender's role nor a lane that never registered.         *)
Reached(m, l) == In(m, l) \/ Gone(m, l) \/ Noted(m, l)
ReachedOnce(m) ==
  /\ \A r \in Roles : ~In(m, r)
  /\ \A l \in Lanes :
       /\ ~(In(m, l) /\ Gone(m, l))
       /\ ~(In(m, l) /\ Noted(m, l))
       /\ ~(Gone(m, l) /\ Noted(m, l))
       /\ Reached(m, l) => Sibling(m, l) /\ roster[l].known

(* The retained broadcasts are broadcasts, each retained once.             *)
Retained ==
  /\ Distinct(broadcasts)
  /\ \A m \in Range(broadcasts) : posted[m] \in Roles

Unrepeated == \A k \in Keys : Distinct(inbox[k])

(* Only a revival that drained has notes.                                  *)
NotesHeld == \A l \in Lanes : revive[l].at # "resume" => revive[l].notes = {}

PlacedOnce ==
  \A m \in Messages : IF posted[m] \in Roles THEN ReachedOnce(m) ELSE InOnePlace(m)

MessagesOK ==
  /\ MessagesTyped
  /\ Retained
  /\ Unrepeated
  /\ NotesHeld
  /\ PlacedOnce

(* Lanes, once listed, stay listed.                                        *)
KnownKept ==
  /\ agent' = agent
  /\ \A l \in Lanes : roster[l].known => roster'[l].known

-----------------------------------------------------------------------------
(* Steps that move no message.                                             *)

Quiet ==
  /\ UNCHANGED <<inbox, broadcasts, posted, taken>>
  /\ KnownKept
  /\ revive' \in [Lanes -> ReviveType]
  /\ \A l \in Lanes : revive'[l].notes = revive[l].notes
  /\ NotesHeld'

LEMMA QuietKeeps ==
  ASSUME MessagesOK, Quiet
  PROVE  MessagesOK'
<1>1. MessagesTyped' /\ Retained' /\ Unrepeated' /\ NotesHeld'
  BY DEF MessagesOK, Quiet, MessagesTyped, Messages, Retained, Unrepeated
<1>2. ASSUME NEW m \in Messages
      PROVE  IF posted[m] \in Roles THEN ReachedOnce(m)' ELSE InOnePlace(m)'
  <2>1. /\ \A k \in Keys : (In(m, k)' <=> In(m, k)) /\ (Gone(m, k)' <=> Gone(m, k))
        /\ \A l \in Lanes : (Noted(m, l)' <=> Noted(m, l)) /\ (Sibling(m, l)' <=> Sibling(m, l))
    BY DEF Quiet, KnownKept, In, Gone, Noted, Sibling
  <2>2. IF posted[m] \in Roles THEN ReachedOnce(m) ELSE InOnePlace(m)
    BY DEF MessagesOK, PlacedOnce
  <2>3. Lanes \subseteq Keys /\ Roles \subseteq Keys
    BY DEF Keys
  <2>4. CASE posted[m] \in Roles
    BY <2>1, <2>2, <2>3, <2>4 DEF ReachedOnce, Reached, Quiet, KnownKept
  <2>5. CASE posted[m] \notin Roles
    BY <2>1, <2>2, <2>5 DEF InOnePlace
  <2> QED BY <2>4, <2>5
<1>3. PlacedOnce'
  BY <1>2 DEF PlacedOnce, Quiet, Messages
<1> QED BY <1>1, <1>3 DEF MessagesOK

-----------------------------------------------------------------------------
(* Messages put into one inbox.                                            *)

(* The inboxes and what was read keep their type, for the messages N.      *)
QueuesTyped(N) ==
  /\ inbox' \in [Keys -> Seq(N)]
  /\ \A k \in Keys : Len(inbox'[k]) <= InboxDepth
  /\ taken' \subseteq N \X Keys
  /\ Unrepeated'

(* The messages M are put into k, where E makes room.                      *)
Arrive(k, M, E) ==
  /\ E \subseteq Range(inbox[k]) \union M
  /\ \A m \in Nat, j \in Keys :
       /\ In(m, j)' <=> IF j = k THEN (In(m, k) \/ m \in M) /\ m \notin E ELSE In(m, j)
       /\ Gone(m, j)' <=> Gone(m, j) \/ (j = k /\ m \in E)

LEMMA InboxFacts ==
  ASSUME MessagesTyped, Unrepeated, NEW N, Messages \subseteq N, NEW k \in Keys
  PROVE  inbox[k] \in Seq(N) /\ Distinct(inbox[k]) /\ Range(inbox[k]) \subseteq Messages
<1>1. inbox[k] \in Seq(Messages)
  BY DEF MessagesTyped
<1>2. inbox[k] \in Seq(N)
  BY <1>1, SeqWider
<1>3. Range(inbox[k]) \subseteq Messages
  BY <1>1, RangeOf
<1> QED BY <1>2, <1>3 DEF Unrepeated

LEMMA DeliverFacts ==
  ASSUME MessagesTyped, Unrepeated, NEW N, Messages \subseteq N, NEW k \in Keys,
         NEW s \in Seq(N), Distinct(s), Range(s) \cap Range(inbox[k]) = {}, Deliver(k, s)
  PROVE  QueuesTyped(N) /\ \E E : Arrive(k, Range(s), E)
<1> DEFINE q == inbox[k] \o s
<1>1. inbox[k] \in Seq(N) /\ Distinct(inbox[k]) /\ Range(inbox[k]) \subseteq N
  BY InboxFacts
<1>2. q \in Seq(N) /\ Distinct(q) /\ Range(q) = Range(inbox[k]) \union Range(s)
  BY <1>1, JoinFacts
<1>3. PICK E, r : E = Evicted(q) /\ r = Kept(q)
  OBVIOUS
<1>4. /\ inbox' = [inbox EXCEPT ![k] = r]
      /\ taken' = taken \union (E \X {k})
  BY <1>3 DEF Deliver
<1> HIDE DEF q
<1>5. /\ r \in Seq(N) /\ Len(r) <= InboxDepth /\ Distinct(r)
      /\ E \union Range(r) = Range(q) /\ E \cap Range(r) = {}
  BY <1>2, <1>3, KeptFacts
<1>6. inbox \in [Keys -> Seq(N)]
  BY InboxFacts DEF MessagesTyped
<1>7. \A j \in Keys : inbox'[j] = IF j = k THEN r ELSE inbox[j]
  BY <1>4, <1>6
<1>8. inbox' \in [Keys -> Seq(N)]
  BY <1>4, <1>5, <1>6
<1>9. \A j \in Keys : Len(inbox'[j]) <= InboxDepth /\ Distinct(inbox'[j])
  BY <1>5, <1>7 DEF MessagesTyped, Unrepeated
<1>10. taken' \subseteq N \X Keys
  <2>1. E \subseteq N
    BY <1>2, <1>5, RangeOf
  <2> QED BY <1>4, <2>1 DEF MessagesTyped
<1>11. QueuesTyped(N)
  BY <1>8, <1>9, <1>10 DEF QueuesTyped, Unrepeated
<1>12. E \subseteq Range(inbox[k]) \union Range(s)
  BY <1>2, <1>5
<1>13. ASSUME NEW m \in Nat, NEW j \in Keys
       PROVE  /\ In(m, j)' <=> IF j = k THEN (In(m, k) \/ m \in Range(s)) /\ m \notin E ELSE In(m, j)
              /\ Gone(m, j)' <=> Gone(m, j) \/ (j = k /\ m \in E)
  <2>1. m \in Range(r) <=> m \in Range(q) /\ m \notin E
    BY <1>5
  <2>2. m \in Range(q) <=> m \in Range(inbox[k]) \/ m \in Range(s)
    BY <1>2
  <2>3. In(m, j)' <=> IF j = k THEN m \in Range(r) ELSE m \in Range(inbox[j])
    BY <1>7 DEF In
  <2>4. Gone(m, j)' <=> Gone(m, j) \/ (j = k /\ m \in E)
    BY <1>4 DEF Gone
  <2> QED BY <2>1, <2>2, <2>3, <2>4 DEF In
<1> QED BY <1>11, <1>12, <1>13 DEF Arrive

(* A message that was already somewhere, and others arrive.                *)
LEMMA ArriveKeeps ==
  ASSUME NEW k \in Keys, NEW M, NEW E, Arrive(k, M, E), NEW m \in Nat, m \notin M,
         \A l \in Lanes : Noted(m, l)' <=> Noted(m, l)
  PROVE  /\ InOnePlace(m) => InOnePlace(m)'
         /\ \A j \in Keys : (In(m, j)' \/ Gone(m, j)') <=> (In(m, j) \/ Gone(m, j))
         /\ \A j \in Keys : (In(m, j)' => In(m, j)) /\ (Gone(m, j)' => Gone(m, j) \/ In(m, j))
         /\ \A j \in Keys : ~(In(m, j) /\ Gone(m, j)) => ~(In(m, j)' /\ Gone(m, j)')
<1>1. \A j \in Keys :
        /\ In(m, j)' <=> In(m, j) /\ ~(j = k /\ m \in E)
        /\ Gone(m, j)' <=> Gone(m, j) \/ (j = k /\ m \in E)
  BY DEF Arrive
<1>2. m \in E => In(m, k)
  BY DEF Arrive, In
<1>3. InOnePlace(m) => InOnePlace(m)'
  BY <1>1, <1>2 DEF InOnePlace
<1> QED BY <1>1, <1>2, <1>3

(* The newest message arrives.                                             *)
LEMMA NewMessage ==
  ASSUME MessagesTyped, NEW kind, Post(kind), kind \in Roles \union {"direct", "notice"}
  PROVE  /\ New \in Nat /\ New \notin Messages /\ Messages' = Messages \union {New}
         /\ Messages \subseteq Nat
         /\ posted' \in Seq(Roles \union {"direct", "notice"}) /\ Len(posted') <= MaxMessages
         /\ \A m \in Messages : posted'[m] = posted[m]
         /\ posted'[New] = kind
         /\ \A k \in Keys : ~In(New, k) /\ ~Gone(New, k)
         /\ \A l \in Lanes : ~Noted(New, l)
<1>1. /\ posted' \in Seq(Roles \union {"direct", "notice"})
      /\ Len(posted') = Len(posted) + 1 /\ Len(posted) \in Nat
      /\ \A m \in 1 .. Len(posted) : posted'[m] = posted[m]
      /\ posted'[Len(posted) + 1] = kind
      /\ Len(posted) < MaxMessages /\ MaxMessages \in Nat
  BY HubAssumption DEF MessagesTyped, Post
<1>2. New \in Nat /\ New \notin Messages /\ Messages' = Messages \union {New} /\ Messages \subseteq Nat
  BY <1>1 DEF New, Messages
<1>3. \A k \in Keys : Range(inbox[k]) \subseteq Messages
  BY RangeOf DEF MessagesTyped
<1>4. \A k \in Keys : ~In(New, k) /\ ~Gone(New, k)
  BY <1>2, <1>3 DEF In, Gone, MessagesTyped
<1>5. \A l \in Lanes : ~Noted(New, l)
  BY <1>2 DEF Noted, MessagesTyped
<1> QED BY <1>1, <1>2, <1>4, <1>5 DEF New, Messages

LEMMA TypedNext ==
  ASSUME MessagesTyped, NEW N, N = Messages', Messages \subseteq N, QueuesTyped(N),
         posted' \in Seq(Roles \union {"direct", "notice"}), Len(posted') <= MaxMessages,
         broadcasts' = broadcasts, revive' \in [Lanes -> ReviveType],
         \A l \in Lanes : revive'[l].notes \subseteq N
  PROVE  MessagesTyped' /\ Unrepeated'
<1>1. broadcasts' \in Seq(Messages')
  BY SeqWider DEF MessagesTyped
<1> QED BY <1>1 DEF MessagesTyped, QueuesTyped

LEMMA RetainedNext ==
  ASSUME MessagesTyped, Retained, broadcasts' = broadcasts,
         \A m \in Messages : posted'[m] = posted[m]
  PROVE  Retained'
<1>1. Range(broadcasts) \subseteq Messages
  BY RangeOf DEF MessagesTyped
<1> QED BY <1>1 DEF Retained

(* A broadcast that moved from an inbox of a lane to what was read of it.  *)
LEMMA ReachedKept ==
  ASSUME NEW m \in Messages, ReachedOnce(m), KnownKept, posted'[m] = posted[m],
         \A r \in Roles : ~In(m, r)',
         \A l \in Lanes :
           /\ ~(In(m, l)' /\ Gone(m, l)')
           /\ ~(In(m, l)' /\ Noted(m, l)')
           /\ ~(Gone(m, l)' /\ Noted(m, l)')
           /\ Reached(m, l)' => Reached(m, l)
  PROVE  ReachedOnce(m)'
<1>1. \A l \in Lanes : Sibling(m, l)' <=> Sibling(m, l)
  BY DEF Sibling, KnownKept
<1> QED BY <1>1 DEF ReachedOnce, KnownKept

LEMMA DirectKeeps ==
  ASSUME MessagesOK, NEW l \in Lanes, NEW kind \in {"direct", "notice"},
         Post(kind), Deliver(l, <<New>>), KnownKept, UNCHANGED <<broadcasts, revive>>
  PROVE  MessagesOK'
<1>0. MessagesTyped /\ Retained /\ Unrepeated /\ NotesHeld /\ PlacedOnce
  BY DEF MessagesOK
<1>1. /\ New \in Nat /\ New \notin Messages /\ Messages' = Messages \union {New}
      /\ Messages \subseteq Nat
      /\ posted' \in Seq(Roles \union {"direct", "notice"}) /\ Len(posted') <= MaxMessages
      /\ \A m \in Messages : posted'[m] = posted[m]
      /\ posted'[New] = kind
      /\ \A k \in Keys : ~In(New, k) /\ ~Gone(New, k)
      /\ \A k \in Lanes : ~Noted(New, k)
  BY <1>0, NewMessage
<1>2. PICK x, N : x = New /\ N = Messages'
  OBVIOUS
<1>3. PICK s : s = <<x>>
  OBVIOUS
<1>4. s \in Seq(N) /\ Distinct(s) /\ Range(s) = {x}
  BY <1>1, <1>2, <1>3 DEF Distinct, Range
<1>5. l \in Keys /\ Range(inbox[l]) \subseteq Messages /\ Roles \subseteq Keys /\ Lanes \subseteq Keys
  BY <1>0, InboxFacts DEF Keys
<1>d. Deliver(l, s)
  BY <1>2, <1>3 DEF Deliver
<1>e. Messages \subseteq N /\ Range(s) \cap Range(inbox[l]) = {}
  BY <1>1, <1>2, <1>4, <1>5
<1>6. QueuesTyped(N) /\ \E E : Arrive(l, Range(s), E)
  BY <1>0, <1>4, <1>5, <1>d, <1>e, DeliverFacts
<1>7. PICK E : Arrive(l, {x}, E)
  BY <1>4, <1>6
<1>8. MessagesTyped' /\ Unrepeated'
  BY <1>0, <1>1, <1>2, <1>6, TypedNext DEF MessagesTyped
<1>9. Retained' /\ NotesHeld'
  BY <1>0, <1>1, RetainedNext DEF NotesHeld
<1>10. \A m \in Nat, k \in Lanes : Noted(m, k)' <=> Noted(m, k)
  BY DEF Noted
<1>11. ASSUME NEW m \in Messages, posted[m] \notin Roles
       PROVE  InOnePlace(m)'
  BY <1>0, <1>1, <1>2, <1>5, <1>7, <1>10, <1>11, ArriveKeeps DEF PlacedOnce
<1>12. ASSUME NEW m \in Messages, posted[m] \in Roles
       PROVE  ReachedOnce(m)'
  <2>1. ReachedOnce(m)
    BY <1>0, <1>12 DEF PlacedOnce
  <2>2. /\ \A j \in Keys : (In(m, j)' \/ Gone(m, j)') <=> (In(m, j) \/ Gone(m, j))
        /\ \A j \in Keys : (In(m, j)' => In(m, j)) /\ (Gone(m, j)' => Gone(m, j) \/ In(m, j))
        /\ \A j \in Keys : ~(In(m, j) /\ Gone(m, j)) => ~(In(m, j)' /\ Gone(m, j)')
    BY <1>1, <1>2, <1>5, <1>7, <1>10, ArriveKeeps
  <2>3. /\ \A r \in Roles : ~In(m, r)'
        /\ \A k \in Lanes :
             /\ ~(In(m, k)' /\ Gone(m, k)')
             /\ ~(In(m, k)' /\ Noted(m, k)')
             /\ ~(Gone(m, k)' /\ Noted(m, k)')
             /\ Reached(m, k)' => Reached(m, k)
    BY <1>1, <1>5, <1>10, <2>1, <2>2 DEF ReachedOnce, Reached
  <2> QED BY <1>1, <2>1, <2>3, ReachedKept
<1>13. InOnePlace(x)'
  <2>1. \A k \in Keys :
          /\ In(x, k)' <=> k = l /\ x \notin E
          /\ Gone(x, k)' <=> k = l /\ x \in E
    BY <1>1, <1>2, <1>7 DEF Arrive
  <2>2. \A k \in Lanes : ~Noted(x, k)'
    BY <1>1, <1>2, <1>10
  <2> QED BY <1>5, <2>1, <2>2 DEF InOnePlace
<1>14. kind \notin Roles
  BY HubAssumption
<1>15. PlacedOnce'
  BY <1>1, <1>2, <1>11, <1>12, <1>13, <1>14 DEF PlacedOnce
<1> QED BY <1>8, <1>9, <1>15 DEF MessagesOK

(* A lane registers, and hears the retained broadcasts of others if it is  *)
(* new.                                                                    *)
LEMMA ReplayFacts ==
  ASSUME MessagesTyped, Retained, NEW l \in Lanes, NEW s \in Replay(l)
  PROVE  /\ s \in Seq(Messages) /\ Distinct(s)
         /\ \A m \in Range(s) : posted[m] \in Roles /\ Sibling(m, l) /\ ~roster[l].known
<1>1. CASE roster[l].known
  BY <1>1 DEF Replay, Distinct, Range
<1>2. CASE ~roster[l].known
  <2> DEFINE M == {m \in Range(broadcasts) : Sibling(m, l)}
  <2>1. M \subseteq Messages /\ Messages \subseteq Nat
    BY RangeOf DEF MessagesTyped, Messages
  <2>2. PICK c : c = Cardinality(M)
    OBVIOUS
  <2>3. IsFiniteSet(M)
    <3>1. Len(posted) \in Nat
      BY DEF MessagesTyped
    <3>2. IsFiniteSet(Messages)
      BY <3>1, FS_Interval DEF Messages
    <3> QED BY <2>1, <3>2, FS_Subset
  <2>4. c \in Nat
    BY <2>2, <2>3, FS_CardinalityType
  <2>5. s \in [1 .. c -> M] /\ \A i, j \in 1 .. c : i < j => s[i] < s[j]
    BY <1>2, <2>2 DEF Replay, InOrder
  <2> HIDE DEF M
  <2>6. s \in Seq(Messages) /\ Len(s) = c /\ Range(s) \subseteq M
    <3>1. s \in Seq(M) /\ Len(s) = c
      BY <2>4, <2>5
    <3>2. Range(s) \subseteq M
      BY <3>1, RangeOf
    <3> QED BY <2>1, <3>1, <3>2, SeqWider
  <2>7. Distinct(s)
    <3> SUFFICES ASSUME NEW i \in 1 .. c, NEW j \in 1 .. c, i # j
                 PROVE  s[i] # s[j]
      BY <2>6 DEF Distinct
    <3>1. s[i] \in Nat /\ s[j] \in Nat
      BY <2>1, <2>5
    <3>2. i < j \/ j < i
      BY <2>4
    <3> QED BY <2>5, <3>1, <3>2
  <2> QED BY <1>2, <2>6, <2>7 DEF M, Retained
<1> QED BY <1>1, <1>2

LEMMA RegisterKeeps ==
  ASSUME MessagesOK, NEW l \in Lanes, NEW s \in Replay(l), Deliver(l, s), KnownKept,
         roster'[l].known, UNCHANGED <<broadcasts, posted, revive>>
  PROVE  MessagesOK'
<1>0. MessagesTyped /\ Retained /\ Unrepeated /\ NotesHeld /\ PlacedOnce
  BY DEF MessagesOK
<1>1. /\ s \in Seq(Messages) /\ Distinct(s)
      /\ \A m \in Range(s) : posted[m] \in Roles /\ Sibling(m, l) /\ ~roster[l].known
  BY <1>0, ReplayFacts
<1>2. Messages \subseteq Nat /\ Messages' = Messages
  BY DEF Messages
<1>3. l \in Keys /\ Range(inbox[l]) \subseteq Messages /\ Roles \subseteq Keys /\ Lanes \subseteq Keys
  BY <1>0, InboxFacts DEF Keys
<1>4. \A m \in Range(s) : m \in Messages /\ ReachedOnce(m) /\ ~Reached(m, l)
  <2>1. Range(s) \subseteq Messages
    BY <1>1, RangeOf
  <2> QED BY <1>0, <1>1, <2>1 DEF PlacedOnce, ReachedOnce
<1>5. Range(s) \cap Range(inbox[l]) = {}
  BY <1>4 DEF Reached, In
<1>6. QueuesTyped(Messages) /\ \E E : Arrive(l, Range(s), E)
  BY <1>0, <1>1, <1>3, <1>5, DeliverFacts
<1>7. PICK M, E : M = Range(s) /\ Arrive(l, M, E)
  BY <1>6
<1>8. MessagesTyped' /\ Unrepeated'
  BY <1>0, <1>2, <1>6, TypedNext DEF MessagesTyped
<1>9. Retained' /\ NotesHeld'
  BY <1>0, RetainedNext DEF NotesHeld
<1>10. \A m \in Nat, k \in Lanes : Noted(m, k)' <=> Noted(m, k)
  BY DEF Noted
<1>11. ASSUME NEW m \in Messages, posted[m] \notin Roles
       PROVE  InOnePlace(m)'
  <2>1. m \notin M
    BY <1>1, <1>7, <1>11
  <2> QED BY <1>0, <1>2, <1>3, <1>7, <1>10, <1>11, <2>1, ArriveKeeps DEF PlacedOnce
<1>12. ASSUME NEW m \in Messages, posted[m] \in Roles
       PROVE  ReachedOnce(m)'
  <2>1. ReachedOnce(m)
    BY <1>0, <1>12 DEF PlacedOnce
  <2>2. CASE m \notin M
    <3>2. /\ \A j \in Keys : (In(m, j)' \/ Gone(m, j)') <=> (In(m, j) \/ Gone(m, j))
          /\ \A j \in Keys : (In(m, j)' => In(m, j)) /\ (Gone(m, j)' => Gone(m, j) \/ In(m, j))
          /\ \A j \in Keys : ~(In(m, j) /\ Gone(m, j)) => ~(In(m, j)' /\ Gone(m, j)')
      BY <1>2, <1>3, <1>7, <1>10, <2>2, ArriveKeeps
    <3>3. /\ \A r \in Roles : ~In(m, r)'
          /\ \A k \in Lanes :
               /\ ~(In(m, k)' /\ Gone(m, k)')
               /\ ~(In(m, k)' /\ Noted(m, k)')
               /\ ~(Gone(m, k)' /\ Noted(m, k)')
               /\ Reached(m, k)' => Reached(m, k)
      BY <1>2, <1>3, <1>10, <2>1, <3>2 DEF ReachedOnce, Reached
    <3> QED BY <2>1, <3>3, ReachedKept
  <2>3. CASE m \in M
    <3>1. /\ Sibling(m, l) /\ roster'[l].known
          /\ ~In(m, l) /\ ~Gone(m, l) /\ ~Noted(m, l)
      BY <1>1, <1>4, <1>7, <2>3 DEF Reached
    <3>2. \A j \in Keys :
            /\ In(m, j)' <=> IF j = l THEN m \notin E ELSE In(m, j)
            /\ Gone(m, j)' <=> Gone(m, j) \/ (j = l /\ m \in E)
      BY <1>2, <1>7, <2>3 DEF Arrive
    <3>3. \A k \in Lanes : Sibling(m, k)' <=> Sibling(m, k)
      BY DEF Sibling, KnownKept
    <3>4. \A k \in Lanes : Noted(m, k)' <=> Noted(m, k)
      BY <1>2, <1>10
    <3>5. \A r \in Roles : r # l
      BY HubAssumption
    <3>6. \A r \in Roles : ~In(m, r)'
      BY <1>3, <2>1, <3>2, <3>5 DEF ReachedOnce
    <3>7. ASSUME NEW k \in Lanes
          PROVE  /\ ~(In(m, k)' /\ Gone(m, k)')
                 /\ ~(In(m, k)' /\ Noted(m, k)')
                 /\ ~(Gone(m, k)' /\ Noted(m, k)')
                 /\ Reached(m, k)' => Sibling(m, k)' /\ roster'[k].known
      BY <1>3, <2>1, <3>1, <3>2, <3>3, <3>4 DEF ReachedOnce, Reached, KnownKept
    <3> QED BY <3>6, <3>7 DEF ReachedOnce
  <2> QED BY <2>2, <2>3
<1>13. PlacedOnce'
  BY <1>2, <1>11, <1>12 DEF PlacedOnce
<1> QED BY <1>8, <1>9, <1>13 DEF MessagesOK

-----------------------------------------------------------------------------
(* A worker or a revival reads its two inboxes.                            *)

Own(l) == {l, agent[l]}

Waits(m, l) == \E k \in Own(l) : In(m, k)

LEMMA OwnKeys ==
  ASSUME agent \in [Lanes -> Roles], NEW l \in Lanes
  PROVE  /\ Own(l) \subseteq Keys /\ l \in Keys /\ agent[l] \in Roles
         /\ Lanes \subseteq Keys /\ Roles \subseteq Keys
         /\ \A k \in Lanes : k \in Own(l) => k = l
         /\ \A m : m \in Pending(l) <=> Waits(m, l)
BY HubAssumption DEF Own, Keys, Pending, Waits, In

LEMMA DrainFacts ==
  ASSUME MessagesTyped, Unrepeated, agent \in [Lanes -> Roles], NEW l \in Lanes,
         inbox' = Drained(l), taken' \subseteq Messages \X Keys
  PROVE  /\ QueuesTyped(Messages)
         /\ \A m \in Nat, k \in Keys : In(m, k)' <=> In(m, k) /\ k \notin Own(l)
<1>1. Own(l) \subseteq Keys
  BY OwnKeys
<1>2. inbox \in [Keys -> Seq(Messages)]
  BY DEF MessagesTyped
<1>3. PICK e : e = <<>>
  OBVIOUS
<1>4. e \in Seq(Messages) /\ Len(e) = 0 /\ Distinct(e) /\ Range(e) = {}
  BY <1>3 DEF Distinct, Range
<1>5. inbox' = [[inbox EXCEPT ![l] = e] EXCEPT ![agent[l]] = e]
  BY <1>3 DEF Drained
<1>6. /\ inbox' \in [Keys -> Seq(Messages)]
      /\ \A k \in Keys : inbox'[k] = IF k \in Own(l) THEN e ELSE inbox[k]
  BY <1>1, <1>2, <1>4, <1>5 DEF Own
<1>7. \A k \in Keys : Len(inbox'[k]) <= InboxDepth /\ Distinct(inbox'[k])
  BY <1>4, <1>6, HubAssumption DEF MessagesTyped, Unrepeated
<1>8. \A m \in Nat, k \in Keys : In(m, k)' <=> In(m, k) /\ k \notin Own(l)
  BY <1>4, <1>6 DEF In
<1> QED BY <1>6, <1>7, <1>8 DEF QueuesTyped, Unrepeated

(* What waits for a lane, but a part N of it that a revival takes along,   *)
(* is read.                                                                *)
ReadFrom(l, notes) ==
  /\ inbox' = Drained(l)
  /\ taken' = taken \union ((Pending(l) \ notes) \X {l})
  /\ \A m \in Nat, k \in Lanes :
       Noted(m, k)' <=> IF k = l THEN m \in notes \/ Noted(m, l) ELSE Noted(m, k)

LEMMA ReadKeeps ==
  ASSUME MessagesOK, agent \in [Lanes -> Roles], NEW l \in Lanes, NEW notes,
         notes \subseteq Pending(l), notes = {} \/ revive[l].at # "resume",
         ReadFrom(l, notes), KnownKept, NotesHeld', revive' \in [Lanes -> ReviveType],
         UNCHANGED <<broadcasts, posted>>
  PROVE  MessagesOK'
<1>0. MessagesTyped /\ Retained /\ Unrepeated /\ NotesHeld /\ PlacedOnce
  BY DEF MessagesOK
<1>1. Messages \subseteq Nat /\ Messages' = Messages
  BY DEF Messages
<1>2. /\ Own(l) \subseteq Keys /\ l \in Keys /\ agent[l] \in Roles
      /\ Lanes \subseteq Keys /\ Roles \subseteq Keys
      /\ \A k \in Lanes : k \in Own(l) => k = l
      /\ \A m : m \in Pending(l) <=> Waits(m, l)
  BY OwnKeys
<1>3. Pending(l) \subseteq Messages
  BY <1>0, <1>2, RangeOf DEF MessagesTyped, Pending
<1>4. taken' \subseteq Messages \X Keys
  BY <1>0, <1>2, <1>3 DEF ReadFrom, MessagesTyped
<1>5. /\ QueuesTyped(Messages)
      /\ \A m \in Nat, k \in Keys : In(m, k)' <=> In(m, k) /\ k \notin Own(l)
  BY <1>0, <1>4, DrainFacts DEF ReadFrom
<1>6. \A k \in Lanes : revive'[k].notes \subseteq Messages
  <2> SUFFICES ASSUME NEW k \in Lanes, NEW m \in revive'[k].notes
               PROVE  m \in Messages
    OBVIOUS
  <2>1. m \in Nat /\ Noted(m, k)'
    BY DEF ReviveType, Noted
  <2>2. (k = l /\ m \in notes) \/ Noted(m, k)
    BY <2>1 DEF ReadFrom
  <2> QED BY <1>0, <1>3, <2>2 DEF Noted, MessagesTyped
<1>7. MessagesTyped' /\ Unrepeated'
  BY <1>0, <1>1, <1>5, <1>6, TypedNext DEF MessagesTyped
<1>8. Retained'
  BY <1>0, RetainedNext
<1>9. \A m \in Nat, k \in Keys : Gone(m, k)' <=> Gone(m, k) \/ (k = l /\ Waits(m, l) /\ m \notin notes)
  BY <1>2 DEF ReadFrom, Gone
<1>10. \A m \in Nat : m \in notes => Waits(m, l) /\ \A k \in Lanes : k = l => ~Noted(m, k)
  BY <1>0, <1>2 DEF NotesHeld, Noted
<1>11. \A m \in Nat, k \in Lanes :
         Noted(m, k)' <=> IF k = l THEN m \in notes \/ Noted(m, l) ELSE Noted(m, k)
  BY DEF ReadFrom
<1>12. ASSUME NEW m \in Messages, posted[m] \notin Roles
       PROVE  InOnePlace(m)'
  <2>1. InOnePlace(m) /\ m \in Nat
    BY <1>0, <1>1, <1>12 DEF PlacedOnce
  <2>2. CASE ~Waits(m, l)
    <3>1. /\ \A k \in Keys : (In(m, k)' <=> In(m, k)) /\ (Gone(m, k)' <=> Gone(m, k))
          /\ \A k \in Lanes : Noted(m, k)' <=> Noted(m, k)
      BY <1>2, <1>5, <1>9, <1>10, <1>11, <2>1, <2>2 DEF Waits
    <3> QED BY <2>1, <3>1 DEF InOnePlace
  <2>3. CASE Waits(m, l)
    <3>1. PICK o \in Keys : o \in Own(l) /\ In(m, o)
      BY <1>2, <2>3 DEF Waits
    <3>2. /\ \A k \in Keys : (In(m, k) => k = o) /\ ~Gone(m, k)
          /\ \A k \in Lanes : ~Noted(m, k)
      BY <2>1, <3>1 DEF InOnePlace
    <3>3. /\ \A k \in Keys : ~In(m, k)' /\ (Gone(m, k)' <=> k = l /\ m \notin notes)
          /\ \A k \in Lanes : Noted(m, k)' <=> k = l /\ m \in notes
      BY <1>2, <1>5, <1>9, <1>11, <2>1, <2>3, <3>1, <3>2
    <3> QED BY <1>2, <3>3 DEF InOnePlace
  <2> QED BY <2>2, <2>3
<1>13. ASSUME NEW m \in Messages, posted[m] \in Roles
       PROVE  ReachedOnce(m)'
  <2>1. ReachedOnce(m) /\ m \in Nat
    BY <1>0, <1>1, <1>13 DEF PlacedOnce
  <2>2. Waits(m, l) <=> In(m, l)
    BY <1>2, <2>1 DEF Waits, ReachedOnce, Own
  <2>3. \A r \in Roles : ~In(m, r)'
    BY <1>2, <1>5, <2>1 DEF ReachedOnce
  <2>4. ASSUME NEW k \in Lanes
        PROVE  /\ ~(In(m, k)' /\ Gone(m, k)')
               /\ ~(In(m, k)' /\ Noted(m, k)')
               /\ ~(Gone(m, k)' /\ Noted(m, k)')
               /\ Reached(m, k)' => Reached(m, k)
    <3>1. /\ In(m, k)' <=> In(m, k) /\ k # l
          /\ Gone(m, k)' <=> Gone(m, k) \/ (k = l /\ In(m, l) /\ m \notin notes)
          /\ Noted(m, k)' <=> IF k = l THEN m \in notes \/ Noted(m, l) ELSE Noted(m, k)
          /\ m \in notes => In(m, l)
      BY <1>2, <1>5, <1>9, <1>10, <1>11, <2>1, <2>2 DEF Own
    <3> QED BY <2>1, <3>1 DEF ReachedOnce, Reached
  <2> QED BY <2>1, <2>3, <2>4, ReachedKept
<1>14. PlacedOnce'
  BY <1>1, <1>12, <1>13 DEF PlacedOnce
<1> QED BY <1>7, <1>8, <1>14 DEF MessagesOK

(* A revival uses its notes, or loses them.                                *)
LEMMA UsedKeeps ==
  ASSUME MessagesOK, NEW l \in Lanes, Takes(l, revive[l].notes), KnownKept,
         revive' = [revive EXCEPT ![l] = NoRevive],
         UNCHANGED <<inbox, broadcasts, posted>>
  PROVE  MessagesOK'
<1>0. MessagesTyped /\ Retained /\ Unrepeated /\ NotesHeld /\ PlacedOnce
  BY DEF MessagesOK
<1>1. Messages \subseteq Nat /\ Messages' = Messages /\ Lanes \subseteq Keys /\ Roles \subseteq Keys
  BY DEF Messages, Keys
<1>2. NoRevive \in ReviveType /\ NoRevive.notes = {}
  BY DEF NoRevive, ReviveType
<1>3. /\ revive' \in [Lanes -> ReviveType]
      /\ \A k \in Lanes : revive'[k] = IF k = l THEN NoRevive ELSE revive[k]
  BY <1>0, <1>2 DEF MessagesTyped
<1>4. \A k \in Lanes : revive'[k].notes = IF k = l THEN {} ELSE revive[k].notes
  BY <1>2, <1>3
<1>5. revive[l].notes \subseteq Messages
  BY <1>0 DEF MessagesTyped
<1>6. taken' \subseteq Messages \X Keys
  BY <1>0, <1>1, <1>5 DEF Takes, MessagesTyped
<1>7. MessagesTyped' /\ Retained' /\ Unrepeated'
  BY <1>0, <1>1, <1>3, <1>4, <1>6 DEF MessagesTyped, Retained, Unrepeated
<1>8. NotesHeld'
  BY <1>0, <1>2, <1>3 DEF NotesHeld
<1>9. /\ \A m \in Nat, k \in Keys : In(m, k)' <=> In(m, k)
      /\ \A m \in Nat, k \in Keys : Gone(m, k)' <=> Gone(m, k) \/ (k = l /\ Noted(m, l))
      /\ \A m \in Nat, k \in Lanes : Noted(m, k)' <=> k # l /\ Noted(m, k)
  BY <1>4 DEF In, Gone, Noted, Takes
<1>10. ASSUME NEW m \in Messages, posted[m] \notin Roles
       PROVE  InOnePlace(m)'
  <2>1. InOnePlace(m) /\ m \in Nat
    BY <1>0, <1>1, <1>10 DEF PlacedOnce
  <2>2. CASE Noted(m, l)
    <3>1. /\ \A k \in Keys : ~In(m, k) /\ ~Gone(m, k)
          /\ \A k \in Lanes : Noted(m, k) => k = l
      BY <2>1, <2>2 DEF InOnePlace
    <3>2. /\ \A k \in Keys : ~In(m, k)' /\ (Gone(m, k)' <=> k = l)
          /\ \A k \in Lanes : ~Noted(m, k)'
      BY <1>9, <2>1, <2>2, <3>1
    <3> QED BY <1>1, <3>2 DEF InOnePlace
  <2>3. CASE ~Noted(m, l)
    <3>1. /\ \A k \in Keys : (In(m, k)' <=> In(m, k)) /\ (Gone(m, k)' <=> Gone(m, k))
          /\ \A k \in Lanes : Noted(m, k)' <=> Noted(m, k)
      BY <1>9, <2>1, <2>3
    <3> QED BY <2>1, <3>1 DEF InOnePlace
  <2> QED BY <2>2, <2>3
<1>11. ASSUME NEW m \in Messages, posted[m] \in Roles
       PROVE  ReachedOnce(m)'
  <2>1. ReachedOnce(m) /\ m \in Nat
    BY <1>0, <1>1, <1>11 DEF PlacedOnce
  <2>2. \A r \in Roles : ~In(m, r)'
    BY <1>1, <1>9, <2>1 DEF ReachedOnce
  <2>3. ASSUME NEW k \in Lanes
        PROVE  /\ ~(In(m, k)' /\ Gone(m, k)')
               /\ ~(In(m, k)' /\ Noted(m, k)')
               /\ ~(Gone(m, k)' /\ Noted(m, k)')
               /\ Reached(m, k)' => Reached(m, k)
    <3>1. /\ In(m, k)' <=> In(m, k)
          /\ Gone(m, k)' <=> Gone(m, k) \/ (k = l /\ Noted(m, l))
          /\ Noted(m, k)' <=> k # l /\ Noted(m, k)
      BY <1>1, <1>9, <2>1
    <3> QED BY <2>1, <3>1 DEF ReachedOnce, Reached
  <2> QED BY <2>1, <2>2, <2>3, ReachedKept
<1>12. PlacedOnce'
  BY <1>1, <1>10, <1>11 DEF PlacedOnce
<1> QED BY <1>7, <1>8, <1>12 DEF MessagesOK

-----------------------------------------------------------------------------
(* A worker sends a message, and reads what waits for it.                  *)

(* The message x reaches the inboxes K, where E(k) makes room in k, and    *)
(* the sender l reads its own inboxes.                                     *)
Sent(l, K, x, E) ==
  /\ \A m \in Nat, k \in Keys :
       m \in E[k] => k \in K /\ (In(m, k) \/ m = x)
  /\ \A m \in Nat, k \in Keys :
       /\ In(m, k)' <=> k \notin Own(l) /\ m \notin E[k] /\ (In(m, k) \/ (k \in K /\ m = x))
       /\ Gone(m, k)' <=>
            \/ Gone(m, k) \/ m \in E[k]
            \/ /\ k = l
               /\ \E o \in Own(l) : m \notin E[o] /\ (In(m, o) \/ (o \in K /\ m = x))

LEMMA SentFacts ==
  ASSUME MessagesTyped, Unrepeated, agent \in [Lanes -> Roles], NEW l \in Lanes,
         NEW K \in SUBSET Keys, NEW kind \in Roles \union {"direct", "notice"},
         Post(kind), DeliverAndTake(K, l), NEW N, NEW x, x = New, N = Messages'
  PROVE  QueuesTyped(N) /\ \E E : Sent(l, K, x, E)
<1>1. /\ x \in Nat /\ x \notin Messages /\ N = Messages \union {x} /\ Messages \subseteq Nat
      /\ \A k \in Keys : ~In(x, k)
  BY NewMessage
<1>2. /\ Own(l) \subseteq Keys /\ l \in Keys
  BY OwnKeys
<1>3. PICK filled : filled = [k \in Keys |-> IF k \in K THEN Append(inbox[k], x) ELSE inbox[k]]
  OBVIOUS
<1>4. PICK E, R : /\ E = [k \in Keys |-> IF k \in K THEN Evicted(filled[k]) ELSE {}]
                  /\ R = [k \in Keys |-> Kept(filled[k])]
  OBVIOUS
<1>5. PICK e : e = <<>>
  OBVIOUS
<1>6. e \in Seq(N) /\ Len(e) = 0 /\ Distinct(e) /\ Range(e) = {}
  BY <1>5 DEF Distinct, Range
<1>7. /\ inbox' = [k \in Keys |-> IF k \in Own(l) THEN e ELSE R[k]]
      /\ taken' = taken \union (UNION {E[k] \X {k} : k \in K})
                        \union ((UNION {Range(R[k]) : k \in Own(l)}) \X {l})
  <2>1. /\ inbox' = [k \in Keys |-> IF k \in Own(l) THEN <<>> ELSE Kept(filled[k])]
        /\ taken' = taken \union (UNION {Evicted(filled[k]) \X {k} : k \in K})
                          \union ((UNION {Range(Kept(filled[k])) : k \in Own(l)}) \X {l})
    BY <1>3 DEF DeliverAndTake, Own
  <2>2. \A k \in Keys : R[k] = Kept(filled[k])
    BY <1>4
  <2>3. \A k \in K : E[k] = Evicted(filled[k])
    BY <1>4
  <2> QED BY <1>2, <1>5, <2>1, <2>2, <2>3
<1>8. ASSUME NEW k \in Keys
      PROVE  /\ R[k] \in Seq(N) /\ Len(R[k]) <= InboxDepth /\ Distinct(R[k])
             /\ Range(R[k]) \subseteq N /\ E[k] \subseteq N
             /\ \A m \in Nat : m \in Range(R[k]) <=>
                  m \notin E[k] /\ (In(m, k) \/ (k \in K /\ m = x))
             /\ \A m \in Nat : m \in E[k] => k \in K /\ (In(m, k) \/ m = x)
  <2>1. inbox[k] \in Seq(N) /\ Distinct(inbox[k]) /\ Len(inbox[k]) <= InboxDepth
    BY <1>1, InboxFacts DEF MessagesTyped
  <2>2. CASE k \in K
    <3>1. filled[k] = Append(inbox[k], x) /\ R[k] = Kept(filled[k]) /\ E[k] = Evicted(filled[k])
      BY <1>3, <1>4, <2>2
    <3>2. /\ filled[k] \in Seq(N) /\ Distinct(filled[k])
          /\ Range(filled[k]) = Range(inbox[k]) \union {x}
      BY <1>1, <2>1, <3>1, AppendFacts DEF In
    <3>3. PICK f \in Seq(N) : f = filled[k]
      BY <3>2
    <3>a. Distinct(f)
      BY <3>2, <3>3
    <3>b. /\ Kept(f) \in Seq(N) /\ Len(Kept(f)) <= InboxDepth /\ Distinct(Kept(f))
          /\ Evicted(f) \union Range(Kept(f)) = Range(f)
          /\ Evicted(f) \cap Range(Kept(f)) = {}
      BY <3>a, KeptFacts
    <3>4. /\ R[k] \in Seq(N) /\ Len(R[k]) <= InboxDepth /\ Distinct(R[k])
          /\ E[k] \union Range(R[k]) = Range(filled[k])
          /\ E[k] \cap Range(R[k]) = {}
      BY <3>1, <3>3, <3>b
    <3>5. Range(R[k]) \subseteq N /\ Range(filled[k]) \subseteq N
      BY <3>2, <3>4, RangeOf
    <3> QED BY <2>2, <3>2, <3>4, <3>5 DEF In
  <2>3. CASE k \notin K
    <3>1. filled[k] = inbox[k] /\ R[k] = Kept(inbox[k]) /\ E[k] = {}
      BY <1>3, <1>4, <2>3
    <3>2. R[k] = inbox[k]
      BY <2>1, <3>1, KeptShort
    <3> QED BY <2>1, <2>3, <3>1, <3>2, RangeOf DEF In
  <2> QED BY <2>2, <2>3
<1>9. inbox' \in [Keys -> Seq(N)]
  BY <1>6, <1>7, <1>8
<1>10. \A k \in Keys : inbox'[k] = IF k \in Own(l) THEN e ELSE R[k]
  BY <1>7
<1>11. \A k \in Keys : Len(inbox'[k]) <= InboxDepth /\ Distinct(inbox'[k])
  BY <1>6, <1>8, <1>10, HubAssumption
<1>12. taken' \subseteq N \X Keys
  <2>1. taken \subseteq N \X Keys
    BY <1>1 DEF MessagesTyped
  <2>2. \A k \in K : E[k] \X {k} \subseteq N \X Keys
    BY <1>8
  <2>3. \A k \in Own(l) : Range(R[k]) \subseteq N
    BY <1>2, <1>8
  <2>4. UNION {E[k] \X {k} : k \in K} \subseteq N \X Keys
    BY <2>2
  <2>5. (UNION {Range(R[k]) : k \in Own(l)}) \X {l} \subseteq N \X Keys
    BY <1>2, <2>3
  <2> QED BY <1>7, <2>1, <2>4, <2>5
<1>13. QueuesTyped(N)
  BY <1>9, <1>11, <1>12 DEF QueuesTyped, Unrepeated
<1>14. ASSUME NEW m \in Nat, NEW k \in Keys
       PROVE  /\ In(m, k)' <=> k \notin Own(l) /\ m \in Range(R[k])
              /\ Gone(m, k)' <=> \/ Gone(m, k) \/ m \in E[k]
                                 \/ k = l /\ \E o \in Own(l) : m \in Range(R[o])
  <2>1. In(m, k)' <=> k \notin Own(l) /\ m \in Range(R[k])
    BY <1>6, <1>10 DEF In
  <2>2. <<m, k>> \in UNION {E[j] \X {j} : j \in K} <=> k \in K /\ m \in E[k]
    OBVIOUS
  <2>3. <<m, k>> \in (UNION {Range(R[j]) : j \in Own(l)}) \X {l}
          <=> k = l /\ \E o \in Own(l) : m \in Range(R[o])
    OBVIOUS
  <2>4. m \in E[k] => k \in K
    BY <1>8
  <2>5. PICK A, B : /\ A = UNION {E[j] \X {j} : j \in K}
                    /\ B = (UNION {Range(R[j]) : j \in Own(l)}) \X {l}
    OBVIOUS
  <2>6. taken' = taken \union A \union B
    BY <1>7, <2>5
  <2>7. <<m, k>> \in A <=> k \in K /\ m \in E[k]
    BY <2>2, <2>5
  <2>8. <<m, k>> \in B <=> k = l /\ \E o \in Own(l) : m \in Range(R[o])
    BY <2>3, <2>5
  <2> QED BY <2>1, <2>4, <2>6, <2>7, <2>8 DEF Gone
<1>15. Sent(l, K, x, E)
  <2>1. \A m \in Nat, k \in Keys : m \in Range(R[k]) <=>
          m \notin E[k] /\ (In(m, k) \/ (k \in K /\ m = x))
    BY <1>8
  <2>2. \A m \in Nat, k \in Keys : m \in E[k] => k \in K /\ (In(m, k) \/ m = x)
    BY <1>8
  <2>3. \A m \in Nat, k \in Keys :
          In(m, k)' <=> k \notin Own(l) /\ m \notin E[k] /\ (In(m, k) \/ (k \in K /\ m = x))
    BY <1>14, <2>1
  <2>4. ASSUME NEW m \in Nat, NEW k \in Keys
        PROVE  Gone(m, k)' <=>
                 \/ Gone(m, k) \/ m \in E[k]
                 \/ /\ k = l
                    /\ \E o \in Own(l) : m \notin E[o] /\ (In(m, o) \/ (o \in K /\ m = x))
    <3>1. \A o \in Own(l) : m \in Range(R[o]) <=> m \notin E[o] /\ (In(m, o) \/ (o \in K /\ m = x))
      BY <1>2, <2>1
    <3> QED BY <1>14, <3>1
  <2> QED BY <2>2, <2>3, <2>4 DEF Sent
<1> QED BY <1>13, <1>15

(* What sending does to a message sent before.                             *)
LEMMA SentBefore ==
  ASSUME agent \in [Lanes -> Roles], NEW l \in Lanes, NEW K \in SUBSET Keys,
         NEW x, NEW E, Sent(l, K, x, E), NEW m \in Nat, m # x,
         \A k \in Lanes : Noted(m, k)' <=> Noted(m, k)
  PROVE  /\ InOnePlace(m) => InOnePlace(m)'
         /\ ReachedOnce(m) =>
              /\ \A r \in Roles : ~In(m, r)'
              /\ \A k \in Lanes :
                   /\ ~(In(m, k)' /\ Gone(m, k)')
                   /\ ~(In(m, k)' /\ Noted(m, k)')
                   /\ ~(Gone(m, k)' /\ Noted(m, k)')
                   /\ Reached(m, k)' => Reached(m, k)
<1>0. /\ Own(l) \subseteq Keys /\ l \in Keys /\ agent[l] \in Roles
      /\ Lanes \subseteq Keys /\ Roles \subseteq Keys
      /\ \A k \in Lanes : k \in Own(l) => k = l
  BY OwnKeys
<1>1. \A k \in Keys : m \in E[k] => In(m, k)
  BY DEF Sent
<1>2. \A k \in Keys :
        /\ In(m, k)' <=> k \notin Own(l) /\ m \notin E[k] /\ In(m, k)
        /\ Gone(m, k)' <=> \/ Gone(m, k) \/ m \in E[k]
                           \/ k = l /\ \E o \in Own(l) : m \notin E[o] /\ In(m, o)
  <2> SUFFICES ASSUME NEW k \in Keys
               PROVE  /\ In(m, k)' <=> k \notin Own(l) /\ m \notin E[k] /\ In(m, k)
                      /\ Gone(m, k)' <=> \/ Gone(m, k) \/ m \in E[k]
                                         \/ k = l /\ \E o \in Own(l) : m \notin E[o] /\ In(m, o)
    OBVIOUS
  <2> QED BY DEF Sent
<1>3. ASSUME InOnePlace(m)
      PROVE  InOnePlace(m)'
  <2>1. CASE \E k \in Keys : In(m, k)
    <3>1. PICK o \in Keys : In(m, o)
      BY <2>1
    <3>2. /\ \A k \in Keys : (In(m, k) => k = o) /\ ~Gone(m, k)
          /\ \A k \in Lanes : ~Noted(m, k)
      BY <1>3, <3>1 DEF InOnePlace
    <3>3. /\ \A k \in Keys : In(m, k)' <=> k = o /\ o \notin Own(l) /\ m \notin E[o]
          /\ \A k \in Keys : Gone(m, k)' <=>
               (k = o /\ m \in E[o]) \/ (k = l /\ o \in Own(l) /\ m \notin E[o])
          /\ \A k \in Lanes : ~Noted(m, k)'
      BY <1>0, <1>1, <1>2, <3>1, <3>2
    <3> QED BY <1>0, <3>1, <3>3 DEF InOnePlace
  <2>2. CASE ~\E k \in Keys : In(m, k)
    <3>1. \A k \in Keys : ~In(m, k)' /\ ~In(m, k) /\ (Gone(m, k)' <=> Gone(m, k))
      BY <1>0, <1>1, <1>2, <2>2
    <3> QED BY <1>3, <3>1 DEF InOnePlace
  <2> QED BY <2>1, <2>2
<1>4. ASSUME ReachedOnce(m)
      PROVE  /\ \A r \in Roles : ~In(m, r)'
             /\ \A k \in Lanes :
                  /\ ~(In(m, k)' /\ Gone(m, k)')
                  /\ ~(In(m, k)' /\ Noted(m, k)')
                  /\ ~(Gone(m, k)' /\ Noted(m, k)')
                  /\ Reached(m, k)' => Reached(m, k)
  <2>1. \A r \in Roles : ~In(m, r)'
    BY <1>0, <1>2, <1>4 DEF ReachedOnce
  <2>2. \A k \in Lanes : Gone(m, k)' => Gone(m, k) \/ In(m, k)
    BY <1>0, <1>1, <1>2, <1>4 DEF ReachedOnce, Own
  <2>3. \A k \in Lanes : In(m, k)' => In(m, k) /\ k # l /\ m \notin E[k]
    BY <1>0, <1>2 DEF Own
  <2>4. \A k \in Lanes : In(m, k)' => ~Gone(m, k)'
    BY <1>0, <1>2, <1>4, <2>3 DEF ReachedOnce
  <2> QED BY <1>4, <2>1, <2>2, <2>3, <2>4 DEF ReachedOnce, Reached
<1> QED BY <1>3, <1>4

(* Of everything but the newest message.                                   *)
LEMMA OldKept ==
  ASSUME MessagesOK, agent \in [Lanes -> Roles], NEW l \in Lanes, NEW K \in SUBSET Keys,
         NEW x, x \notin Messages, NEW E, Sent(l, K, x, E), KnownKept, revive' = revive,
         \A m \in Messages : posted'[m] = posted[m]
  PROVE  \A m \in Messages : IF posted'[m] \in Roles THEN ReachedOnce(m)' ELSE InOnePlace(m)'
<1> SUFFICES ASSUME NEW m \in Messages
             PROVE  IF posted[m] \in Roles THEN ReachedOnce(m)' ELSE InOnePlace(m)'
  OBVIOUS
<1>1. m \in Nat /\ m # x
  BY DEF Messages
<1>2. \A k \in Lanes : Noted(m, k)' <=> Noted(m, k)
  BY DEF Noted
<1>3. IF posted[m] \in Roles THEN ReachedOnce(m) ELSE InOnePlace(m)
  BY DEF MessagesOK, PlacedOnce
<1>4. CASE posted[m] \in Roles
  <2>1. /\ \A r \in Roles : ~In(m, r)'
        /\ \A k \in Lanes :
             /\ ~(In(m, k)' /\ Gone(m, k)')
             /\ ~(In(m, k)' /\ Noted(m, k)')
             /\ ~(Gone(m, k)' /\ Noted(m, k)')
             /\ Reached(m, k)' => Reached(m, k)
    BY <1>1, <1>2, <1>3, <1>4, SentBefore
  <2> QED BY <1>3, <1>4, <2>1, ReachedKept
<1>5. CASE posted[m] \notin Roles
  BY <1>1, <1>2, <1>3, <1>5, SentBefore
<1> QED BY <1>4, <1>5

LEMMA PeerKeeps ==
  ASSUME MessagesOK, agent \in [Lanes -> Roles], NEW l \in Lanes, NEW o \in Keys,
         NEW kind \in {"direct", "notice"},
         Post(kind), DeliverAndTake({o}, l), KnownKept, UNCHANGED <<broadcasts, revive>>
  PROVE  MessagesOK'
<1>0. MessagesTyped /\ Retained /\ Unrepeated /\ NotesHeld /\ PlacedOnce
  BY DEF MessagesOK
<1>1. /\ New \in Nat /\ New \notin Messages /\ Messages' = Messages \union {New}
      /\ Messages \subseteq Nat
      /\ posted' \in Seq(Roles \union {"direct", "notice"}) /\ Len(posted') <= MaxMessages
      /\ \A m \in Messages : posted'[m] = posted[m]
      /\ posted'[New] = kind
      /\ \A k \in Keys : ~In(New, k) /\ ~Gone(New, k)
      /\ \A k \in Lanes : ~Noted(New, k)
  BY <1>0, NewMessage
<1>2. PICK x, N : x = New /\ N = Messages'
  OBVIOUS
<1>3. PICK K \in SUBSET Keys : K = {o}
  OBVIOUS
<1>4. QueuesTyped(N) /\ \E E : Sent(l, K, x, E)
  BY <1>0, <1>2, <1>3, SentFacts
<1>5. PICK E : Sent(l, K, x, E)
  BY <1>4
<1>6. MessagesTyped' /\ Unrepeated'
  BY <1>0, <1>1, <1>2, <1>4, TypedNext DEF MessagesTyped
<1>7. Retained' /\ NotesHeld'
  BY <1>0, <1>1, RetainedNext DEF NotesHeld
<1>8. \A m \in Messages : IF posted'[m] \in Roles THEN ReachedOnce(m)' ELSE InOnePlace(m)'
  BY <1>1, <1>2, <1>5, OldKept
<1>9. InOnePlace(x)'
  <2>1. /\ Own(l) \subseteq Keys /\ l \in Keys
    BY OwnKeys
  <2>2. x \in Nat /\ \A k \in Keys : x \in E[k] => k = o
    BY <1>1, <1>2, <1>3, <1>5 DEF Sent
  <2>3. \A k \in Keys :
          /\ In(x, k)' <=> k \notin Own(l) /\ x \notin E[k] /\ (In(x, k) \/ (k \in K /\ x = x))
          /\ Gone(x, k)' <=>
               \/ Gone(x, k) \/ x \in E[k]
               \/ k = l /\ \E j \in Own(l) : x \notin E[j] /\ (In(x, j) \/ (j \in K /\ x = x))
    <3> SUFFICES ASSUME NEW k \in Keys
                 PROVE  /\ In(x, k)' <=> k \notin Own(l) /\ x \notin E[k] /\ (In(x, k) \/ (k \in K /\ x = x))
                        /\ Gone(x, k)' <=>
                             \/ Gone(x, k) \/ x \in E[k]
                             \/ k = l /\ \E j \in Own(l) : x \notin E[j] /\ (In(x, j) \/ (j \in K /\ x = x))
      OBVIOUS
    <3> QED BY <1>5, <2>2 DEF Sent
  <2>4. \A k \in Keys : ~In(x, k) /\ ~Gone(x, k)
    BY <1>1, <1>2
  <2>5. \A k \in Keys :
          /\ In(x, k)' <=> k = o /\ o \notin Own(l) /\ x \notin E[o]
          /\ Gone(x, k)' <=> (k = o /\ x \in E[o]) \/ (k = l /\ o \in Own(l) /\ x \notin E[o])
    BY <1>3, <2>1, <2>2, <2>3, <2>4
  <2>6. \A k \in Lanes : ~Noted(x, k)'
    BY <1>1, <1>2 DEF Noted
  <2> QED BY <2>1, <2>5, <2>6 DEF InOnePlace
<1>10. kind \notin Roles
  BY HubAssumption
<1>11. PlacedOnce'
  BY <1>1, <1>2, <1>8, <1>9, <1>10 DEF PlacedOnce
<1> QED BY <1>6, <1>7, <1>11 DEF MessagesOK

LEMMA LastOfFacts ==
  ASSUME NEW S, NEW q \in Seq(S), Distinct(q), NEW n \in Nat
  PROVE  /\ LastOf(q, n) \in Seq(S) /\ Distinct(LastOf(q, n))
         /\ Len(LastOf(q, n)) <= n
         /\ Range(LastOf(q, n)) \subseteq Range(q)
<1>1. PICK i \in 0 .. Len(q) : i = IF Len(q) > n THEN Len(q) - n ELSE 0
  OBVIOUS
<1>2. LastOf(q, n) = SubSeq(q, i + 1, Len(q)) /\ Len(q) - i <= n
  BY <1>1 DEF LastOf
<1> QED BY <1>2, CutFacts

LEMMA BroadcastKeeps ==
  ASSUME MessagesOK, agent \in [Lanes -> Roles], NEW l \in Lanes, PeerBroadcasts(l), KnownKept
  PROVE  MessagesOK'
<1>0. MessagesTyped /\ Retained /\ Unrepeated /\ NotesHeld /\ PlacedOnce
  BY DEF MessagesOK
<1>a. /\ Post(agent[l]) /\ DeliverAndTake(Audience(l), l)
      /\ broadcasts' = LastOf(Append(broadcasts, New), MaxBroadcasts)
      /\ UNCHANGED <<agent, roster, revive>>
  BY DEF PeerBroadcasts, calls
<1>b. PICK kind \in Roles : kind = agent[l]
  OBVIOUS
<1>1. /\ New \in Nat /\ New \notin Messages /\ Messages' = Messages \union {New}
      /\ Messages \subseteq Nat
      /\ posted' \in Seq(Roles \union {"direct", "notice"}) /\ Len(posted') <= MaxMessages
      /\ \A m \in Messages : posted'[m] = posted[m]
      /\ posted'[New] = kind
      /\ \A k \in Keys : ~In(New, k) /\ ~Gone(New, k)
      /\ \A k \in Lanes : ~Noted(New, k)
  BY <1>0, <1>a, <1>b, NewMessage
<1>2. PICK x, N : x = New /\ N = Messages'
  OBVIOUS
<1>3. PICK K \in SUBSET Keys : K = Audience(l)
  BY DEF Audience, Keys
<1>c. Post(kind) /\ DeliverAndTake(K, l)
  <2>1. Post(kind)
    BY <1>a, <1>b
  <2>2. DeliverAndTake(K, l)
    BY <1>a, <1>3 DEF DeliverAndTake
  <2> QED BY <2>1, <2>2
<1>4. QueuesTyped(N) /\ \E E : Sent(l, K, x, E)
  BY <1>0, <1>2, <1>b, <1>c, SentFacts
<1>5. PICK E : Sent(l, K, x, E)
  BY <1>4
<1>6. /\ broadcasts' \in Seq(N) /\ Distinct(broadcasts') /\ Len(broadcasts') <= MaxBroadcasts
      /\ Range(broadcasts') \subseteq Range(broadcasts) \union {x}
  <2>1. PICK b \in Seq(N) : b = broadcasts
    BY <1>0, <1>1, <1>2, SeqWider DEF MessagesTyped
  <2>2. Distinct(b) /\ Range(b) \subseteq Messages
    BY <1>0, <2>1, RangeOf DEF MessagesTyped, Retained
  <2>3. PICK q : q = Append(b, x)
    OBVIOUS
  <2>4. q \in Seq(N) /\ Distinct(q) /\ Range(q) = Range(b) \union {x}
    BY <1>1, <1>2, <2>2, <2>3, AppendFacts
  <2>5. PICK c : c = LastOf(q, MaxBroadcasts)
    OBVIOUS
  <2>6. /\ c \in Seq(N) /\ Distinct(c) /\ Len(c) <= MaxBroadcasts
        /\ Range(c) \subseteq Range(q)
    BY <2>4, <2>5, LastOfFacts, HubAssumption
  <2>7. broadcasts' = c
    BY <1>2, <1>a, <2>1, <2>3, <2>5
  <2> QED BY <2>1, <2>4, <2>6, <2>7
<1>7. MessagesTyped' /\ Unrepeated' /\ NotesHeld'
  BY <1>0, <1>1, <1>2, <1>4, <1>6, <1>a DEF MessagesTyped, QueuesTyped, NotesHeld
<1>8. Retained'
  <2>1. Range(broadcasts) \subseteq Messages
    BY <1>0, RangeOf DEF MessagesTyped
  <2>2. \A m \in Range(broadcasts) \union {x} : posted'[m] \in Roles
    BY <1>0, <1>1, <1>2, <2>1 DEF Retained
  <2> QED BY <1>6, <2>2 DEF Retained
<1>9. \A m \in Messages : IF posted'[m] \in Roles THEN ReachedOnce(m)' ELSE InOnePlace(m)'
  BY <1>1, <1>2, <1>5, <1>a, OldKept
<1>10. ReachedOnce(x)'
  <2>1. /\ Own(l) \subseteq Keys /\ l \in Keys /\ Lanes \subseteq Keys /\ Roles \subseteq Keys
    BY OwnKeys
  <2>2. /\ \A k \in K : k \in Lanes /\ roster[k].known /\ agent[k] # agent[l]
        /\ \A r \in Roles : r \notin K
        /\ \A k \in Own(l) : k \notin K
    BY <1>3, HubAssumption DEF Audience, Live, Own
  <2>3. x \in Nat /\ \A k \in Keys : x \in E[k] => k \in K
    BY <1>1, <1>2, <1>5 DEF Sent
  <2>4. \A k \in Keys :
          /\ In(x, k)' <=> k \notin Own(l) /\ x \notin E[k] /\ (In(x, k) \/ (k \in K /\ x = x))
          /\ Gone(x, k)' <=>
               \/ Gone(x, k) \/ x \in E[k]
               \/ k = l /\ \E j \in Own(l) : x \notin E[j] /\ (In(x, j) \/ (j \in K /\ x = x))
    <3> SUFFICES ASSUME NEW k \in Keys
                 PROVE  /\ In(x, k)' <=> k \notin Own(l) /\ x \notin E[k] /\ (In(x, k) \/ (k \in K /\ x = x))
                        /\ Gone(x, k)' <=>
                             \/ Gone(x, k) \/ x \in E[k]
                             \/ k = l /\ \E j \in Own(l) : x \notin E[j] /\ (In(x, j) \/ (j \in K /\ x = x))
      OBVIOUS
    <3> QED BY <1>5, <2>3 DEF Sent
  <2>5. \A k \in Keys : ~In(x, k) /\ ~Gone(x, k)
    BY <1>1, <1>2
  <2>6. \A k \in Keys :
          /\ In(x, k)' <=> k \in K /\ x \notin E[k]
          /\ Gone(x, k)' <=> x \in E[k]
    BY <2>1, <2>2, <2>3, <2>4, <2>5
  <2>7. \A k \in Lanes : ~Noted(x, k)'
    BY <1>1, <1>2, <1>a DEF Noted
  <2>8. \A k \in K : Sibling(x, k)' /\ roster'[k].known
    BY <1>1, <1>2, <1>a, <1>b, <2>2 DEF Sibling
  <2> QED BY <2>1, <2>2, <2>3, <2>6, <2>7, <2>8 DEF ReachedOnce, Reached
<1>11. PlacedOnce'
  BY <1>1, <1>2, <1>9, <1>10 DEF PlacedOnce
<1> QED BY <1>7, <1>8, <1>11 DEF MessagesOK

-----------------------------------------------------------------------------
(* The steps.                                                              *)

LEMMA KnownGrows ==
  ASSUME Sound, [Next]_vars
  PROVE  KnownKept
<1>0. CoreTypeOK /\ SinkIsOver
  BY DEF Sound
<1>1. CASE Talks \/ Works
  BY <1>1 DEF Talks, Works, KnownKept
<1>2. ASSUME NEW l \in Lanes, Calls(l)
      PROVE  KnownKept
  <2>1. agent' = agent
    BY <1>2 DEF Calls, StartLane, KillBegins, Kill, KillFlags, KillNotifies, KillAborts,
                KillCloses, KillSettles, KillEnds, ReviveResumes, ReviveStrands
  <2>2. \/ roster' = roster
        \/ roster' = [roster EXCEPT ![l].live = FALSE]
        \/ roster' = [roster EXCEPT ![l].outcome = "killed"]
    BY <1>2 DEF Calls, StartLane, KillBegins, Kill, KillFlags, KillNotifies, KillAborts,
                KillCloses, KillSettles, KillEnds, ReviveResumes, ReviveStrands, hub
  <2>3. CASE roster' = [roster EXCEPT ![l].live = FALSE]
    BY <1>0, <2>1, <2>3 DEF KnownKept, CoreTypeOK, RosterType
  <2>4. CASE roster' = [roster EXCEPT ![l].outcome = "killed"]
    BY <1>0, <2>1, <2>4 DEF KnownKept, CoreTypeOK, RosterType
  <2> QED BY <2>1, <2>2, <2>3, <2>4 DEF KnownKept
<1>3. ASSUME NEW l \in Lanes, NEW n \in Runs, roster' = Settled(l, n), agent' = agent
      PROVE  KnownKept
  BY <1>0, <1>3, SettledLanes DEF KnownKept
<1>4. ASSUME NEW l \in Lanes, NEW n \in Runs, Turns(l, n)
      PROVE  KnownKept
  <2>1. CASE Register(l, n)
    <3>1. PICK r : r = [known |-> TRUE, live |-> TRUE, run |-> n, outcome |-> "none"]
      OBVIOUS
    <3>2. r.known /\ roster' = [roster EXCEPT ![l] = r] /\ agent' = agent
      BY <2>1, <3>1 DEF Register
    <3> QED BY <1>0, <3>2 DEF KnownKept, CoreTypeOK
  <2>2. CASE Settle(l, n)
    BY <1>3, <2>2 DEF Settle
  <2> QED BY <1>4, <2>1, <2>2 DEF Turns, HandsOver, Commit, Finish, CommitFails, hub, KnownKept
<1>5. ASSUME NEW c \in sink, ParentCommits(c)
      PROVE  KnownKept
  <2>1. c.lane \in Lanes /\ c.run \in Runs
    BY <1>0 DEF CoreTypeOK
  <2> QED BY <1>3, <1>5, <2>1 DEF ParentCommits
<1> QED BY <1>0, <1>1, <1>2, <1>4, <1>5, StepForms

(* A step of nobody but workers and the parent leaves the messages alone.  *)
LEMMA StillQuiet ==
  ASSUME MessagesOK, KnownKept, UNCHANGED <<inbox, broadcasts, posted, taken, revive>>
  PROVE  MessagesOK'
<1>1. Quiet
  BY DEF MessagesOK, MessagesTyped, NotesHeld, Quiet
<1> QED BY <1>1, QuietKeeps

LEMMA WorkerMessages ==
  ASSUME MessagesOK, Sound, KnownKept, NEW l \in Lanes, NEW n \in Runs, Worker(l, n) \/ Mishap(l, n)
  PROVE  MessagesOK'
<1>0. agent \in [Lanes -> Roles] /\ roster \in [Lanes -> RosterType]
  BY DEF Sound, CoreTypeOK
<1>1. CASE Register(l, n)
  <2>1. PICK r : r = [known |-> TRUE, live |-> TRUE, run |-> n, outcome |-> "none"]
    OBVIOUS
  <2>2. r.known /\ roster' = [roster EXCEPT ![l] = r]
    BY <1>1, <2>1 DEF Register
  <2>3. roster'[l].known
    BY <1>0, <2>2
  <2>4. \E s \in Replay(l) : Deliver(l, s)
    BY <1>1 DEF Register
  <2> QED BY <1>1, <2>3, <2>4, RegisterKeeps DEF Register, calls
<1>2. CASE FollowUp(l, n)
  <2>1. PICK none : none = {}
    OBVIOUS
  <2>2. ReadFrom(l, none)
    BY <1>2, <2>1 DEF FollowUp, Takes, ReadFrom, Noted, calls
  <2>3. revive' = revive /\ UNCHANGED <<broadcasts, posted>>
    BY <1>2 DEF FollowUp, calls
  <2>4. NotesHeld' /\ revive' \in [Lanes -> ReviveType]
    BY <2>3 DEF MessagesOK, MessagesTyped, NotesHeld
  <2> QED BY <1>0, <2>1, <2>2, <2>3, <2>4, ReadKeeps
<1>3. CASE \/ TurnEnds(l, n) \/ Boundary(l, n) \/ Commit(l, n) \/ Finish(l, n)
           \/ Settle(l, n) \/ Mishap(l, n)
  <2>1. UNCHANGED <<inbox, broadcasts, posted, taken, revive>>
    BY <1>3 DEF TurnEnds, Boundary, Commit, Finish, Settle, Mishap, KilledExit, WorkFails,
                CommitFails, hub, calls
  <2> QED BY <2>1, StillQuiet
<1> QED BY <1>1, <1>2, <1>3 DEF Worker

LEMMA ResolvedKeys ==
  ASSUME NEW r \in Roles
  PROVE  Resolved(r) \subseteq Keys
BY DEF Resolved, Keys

LEMMA CallMessages ==
  ASSUME MessagesOK, Sound, KnownKept, NEW l \in Lanes,
         \/ StartLane(l) \/ StartFails(l) \/ PeerSends(l) \/ PeerBroadcasts(l)
         \/ ParentSends(l) \/ KillBegins(l) \/ Kill(l)
  PROVE  MessagesOK'
<1>0. agent \in [Lanes -> Roles]
  BY DEF Sound, CoreTypeOK
<1>1. CASE PeerSends(l)
  <2>1. PICK o \in {l} \union UNION {Resolved(agent[j]) : j \in Lanes} : DeliverAndTake({o}, l)
    BY <1>1 DEF PeerSends
  <2>2. o \in Keys
    <3>1. \A j \in Lanes : Resolved(agent[j]) \subseteq Keys
      BY <1>0, ResolvedKeys
    <3> QED BY <2>1, <3>1 DEF Keys
  <2>3. PICK kind \in {"direct", "notice"} : kind = "direct"
    OBVIOUS
  <2>4. Post(kind)
    BY <1>1, <2>3 DEF PeerSends
  <2> QED BY <1>0, <1>1, <2>1, <2>2, <2>4, PeerKeeps DEF PeerSends, calls
<1>2. CASE PeerBroadcasts(l)
  BY <1>0, <1>2, BroadcastKeeps
<1>3. ASSUME NEW kind \in {"direct", "notice"}, Post(kind), Deliver(l, <<New>>),
             UNCHANGED <<broadcasts, revive>>
      PROVE  MessagesOK'
  BY <1>3, DirectKeeps
<1>4. CASE ParentSends(l)
  BY <1>3, <1>4 DEF ParentSends, calls
<1>5. CASE KillNotifies(l)
  <2>1. CASE Len(posted) < MaxMessages
    BY <1>3, <1>5, <2>1 DEF KillNotifies
  <2>2. CASE ~(Len(posted) < MaxMessages)
    BY <1>5, <2>2, StillQuiet DEF KillNotifies
  <2> QED BY <2>1, <2>2
<1>6. CASE \/ StartLane(l) \/ StartFails(l) \/ KillBegins(l) \/ KillFlags(l) \/ KillAborts(l)
           \/ KillCloses(l) \/ KillSettles(l) \/ KillEnds(l)
  <2>1. UNCHANGED <<inbox, broadcasts, posted, taken, revive>>
    BY <1>6 DEF StartLane, StartFails, KillBegins, KillFlags, KillAborts, KillCloses,
                KillSettles, KillEnds, hub, calls
  <2> QED BY <2>1, StillQuiet
<1> QED BY <1>1, <1>2, <1>4, <1>5, <1>6 DEF Kill

LEMMA ReviveMessages ==
  ASSUME MessagesOK, Sound, KnownKept, NEW l \in Lanes, ReviveBegins(l) \/ Revive(l)
  PROVE  MessagesOK'
<1>0. /\ agent \in [Lanes -> Roles] /\ revive \in [Lanes -> ReviveType] /\ NotesHeld
      /\ MessagesTyped
  BY DEF Sound, CoreTypeOK, MessagesOK, MessagesTyped
<1>1. CASE ReviveBegins(l)
  <2>1. PICK r \in ReviveType : r = revive[l]
    BY <1>0
  <2>2. r.at = "idle" /\ r.notes = {}
    BY <1>0, <1>1, <2>1 DEF ReviveBegins, NotesHeld
  <2>3. PICK w : w = [at |-> "drain", notes |-> {}]
    OBVIOUS
  <2>4. w \in ReviveType /\ w.notes = {}
    BY <2>3 DEF ReviveType
  <2>5. [r EXCEPT !.at = "drain"] = w
    BY <2>2, <2>3 DEF ReviveType
  <2>6. revive' = [revive EXCEPT ![l] = w]
    BY <1>1, <2>1, <2>5 DEF ReviveBegins
  <2>7. \A k \in Lanes : revive'[k] = IF k = l THEN w ELSE revive[k]
    BY <1>0, <2>6
  <2>8. /\ revive' \in [Lanes -> ReviveType]
        /\ \A k \in Lanes : revive'[k].notes = revive[k].notes
    BY <1>0, <2>1, <2>2, <2>4, <2>6, <2>7
  <2>9. NotesHeld'
    BY <1>0, <2>4, <2>7 DEF NotesHeld
  <2>10. Quiet
    BY <1>1, <2>8, <2>9 DEF ReviveBegins, Quiet, hub
  <2> QED BY <2>10, QuietKeeps
<1>2. CASE ReviveDrains(l)
  <2>1. PICK notes : notes = Pending(l) \ Notices(Pending(l))
    OBVIOUS
  <2>2. notes \subseteq Pending(l) /\ Pending(l) \ notes = Notices(Pending(l))
    BY <2>1 DEF Notices
  <2>3. Pending(l) \subseteq Nat
    <3>1. Pending(l) \subseteq Messages
      BY <1>0, OwnKeys, RangeOf DEF Pending, MessagesTyped
    <3> QED BY <3>1 DEF Messages
  <2>4. PICK w : w = [at |-> "resume", notes |-> notes]
    OBVIOUS
  <2>5. w \in ReviveType /\ w.notes = notes /\ w.at = "resume"
    BY <2>2, <2>3, <2>4 DEF ReviveType
  <2>6. revive' = [revive EXCEPT ![l] = w] /\ revive[l].at = "drain"
    BY <1>2, <2>1, <2>4 DEF ReviveDrains
  <2>7. \A k \in Lanes : revive'[k] = IF k = l THEN w ELSE revive[k]
    BY <1>0, <2>6
  <2>8. revive' \in [Lanes -> ReviveType] /\ NotesHeld'
    BY <1>0, <2>5, <2>6, <2>7 DEF NotesHeld
  <2>9. revive[l].notes = {}
    BY <1>0, <2>6 DEF NotesHeld
  <2>10. \A m \in Nat, k \in Lanes :
           Noted(m, k)' <=> IF k = l THEN m \in notes \/ Noted(m, l) ELSE Noted(m, k)
    BY <2>5, <2>7, <2>9 DEF Noted
  <2>11. ReadFrom(l, notes)
    BY <1>2, <2>2, <2>10 DEF ReviveDrains, ReadFrom, Takes
  <2> QED BY <1>0, <1>2, <2>2, <2>6, <2>8, <2>11, ReadKeeps DEF ReviveDrains
<1>3. CASE ReviveRefused(l) \/ ReviveResumes(l) \/ ReviveStrands(l)
  <2>1. /\ Takes(l, revive[l].notes)
        /\ revive' = [revive EXCEPT ![l] = NoRevive]
        /\ UNCHANGED <<inbox, broadcasts, posted>>
    BY <1>3 DEF ReviveRefused, ReviveResumes, ReviveStrands
  <2> QED BY <2>1, UsedKeeps
<1> QED BY <1>1, <1>2, <1>3 DEF Revive

LEMMA MessagesStep == MessagesOK /\ Sound /\ [Next]_vars => MessagesOK'
<1> SUFFICES ASSUME MessagesOK, Sound, [Next]_vars PROVE MessagesOK'
  OBVIOUS
<1>0. KnownKept
  BY KnownGrows
<1>1. CASE UNCHANGED vars
  BY <1>0, <1>1, StillQuiet DEF vars, hub, calls
<1>2. ASSUME NEW c \in sink, ParentCommits(c)
      PROVE  MessagesOK'
  BY <1>0, <1>2, StillQuiet DEF ParentCommits, calls
<1>3. CASE Next
  BY <1>0, <1>2, <1>3, WorkerMessages, CallMessages, ReviveMessages DEF Next
<1> QED BY <1>1, <1>3

LEMMA MessagesInit == Init => MessagesOK
<1> SUFFICES ASSUME Init PROVE MessagesOK
  OBVIOUS
<1>1. PICK e : e = <<>>
  OBVIOUS
<1>2. Len(e) = 0 /\ Range(e) = {} /\ Distinct(e) /\ \A S : e \in Seq(S)
  BY <1>1 DEF Range, Distinct
<1>3. posted = e /\ broadcasts = e /\ inbox = [k \in Keys |-> e] /\ taken = {}
  BY <1>1 DEF Init
<1>4. NoRevive \in ReviveType /\ NoRevive.notes = {} /\ revive = [l \in Lanes |-> NoRevive]
  BY DEF Init, NoRevive, ReviveType
<1>5. Messages = {}
  BY <1>2, <1>3 DEF Messages
<1> QED BY <1>2, <1>3, <1>4, <1>5, HubAssumption
       DEF MessagesOK, MessagesTyped, Retained, Unrepeated, NotesHeld, PlacedOnce

-----------------------------------------------------------------------------
(* What a refused revival dropped it had read.                             *)

LostOK == lost \subseteq taken

LEMMA LostInit == Init => LostOK
BY DEF Init, LostOK

LEMMA LostStep == LostOK /\ [Next]_vars => LostOK'
<1> SUFFICES ASSUME LostOK, [Next]_vars PROVE LostOK'
  OBVIOUS
<1>1. ASSUME lost' = lost, taken \subseteq taken' PROVE LostOK'
  BY <1>1 DEF LostOK
<1>2. ASSUME NEW l \in Lanes, NEW n \in Runs, Worker(l, n) \/ Mishap(l, n)
      PROVE  LostOK'
  <2>1. CASE Register(l, n) \/ FollowUp(l, n)
    BY <1>1, <2>1 DEF Register, FollowUp, Deliver, Takes
  <2>2. CASE \/ TurnEnds(l, n) \/ Boundary(l, n) \/ Commit(l, n) \/ Finish(l, n)
             \/ Settle(l, n) \/ Mishap(l, n)
    BY <1>1, <2>2 DEF TurnEnds, Boundary, Commit, Finish, Settle, Mishap, KilledExit, WorkFails,
                      CommitFails, hub
  <2> QED BY <1>2, <2>1, <2>2 DEF Worker
<1>3. ASSUME NEW l \in Lanes,
             \/ StartLane(l) \/ StartFails(l) \/ PeerSends(l) \/ PeerBroadcasts(l)
             \/ ParentSends(l) \/ KillBegins(l) \/ Kill(l)
      PROVE  LostOK'
  <2>1. CASE PeerSends(l)
    BY <1>1, <2>1 DEF PeerSends, DeliverAndTake
  <2>2. CASE PeerBroadcasts(l)
    BY <1>1, <2>2 DEF PeerBroadcasts, DeliverAndTake
  <2>3. CASE ParentSends(l) \/ KillNotifies(l)
    BY <1>1, <2>3 DEF ParentSends, KillNotifies, Deliver
  <2>4. CASE \/ StartLane(l) \/ StartFails(l) \/ KillBegins(l) \/ KillFlags(l) \/ KillAborts(l)
             \/ KillCloses(l) \/ KillSettles(l) \/ KillEnds(l)
    BY <1>1, <2>4 DEF StartLane, StartFails, KillBegins, KillFlags, KillAborts, KillCloses,
                      KillSettles, KillEnds, hub
  <2> QED BY <1>3, <2>1, <2>2, <2>3, <2>4 DEF Kill
<1>4. ASSUME NEW l \in Lanes, ReviveBegins(l) \/ Revive(l)
      PROVE  LostOK'
  <2>1. CASE ReviveRefused(l)
    BY <2>1 DEF ReviveRefused, Takes, LostOK
  <2>2. CASE ReviveBegins(l) \/ ReviveDrains(l) \/ ReviveResumes(l) \/ ReviveStrands(l)
    BY <1>1, <2>2 DEF ReviveBegins, ReviveDrains, ReviveResumes, ReviveStrands, Takes, hub
  <2> QED BY <1>4, <2>1, <2>2 DEF Revive
<1>5. ASSUME NEW c \in sink, ParentCommits(c)
      PROVE  LostOK'
  BY <1>1, <1>5 DEF ParentCommits
<1>6. CASE UNCHANGED vars
  BY <1>1, <1>6 DEF vars, hub
<1>7. CASE Next
  BY <1>2, <1>3, <1>4, <1>5, <1>7 DEF Next
<1> QED BY <1>6, <1>7

LEMMA LostThroughout == Spec => []LostOK
BY LostInit, LostStep, PTL DEF Spec

-----------------------------------------------------------------------------
(* What the invariants say of the copies of a message.                     *)

(* Read, and not dropped by a refused revival.                             *)
Heard(m, k) == Gone(m, k) /\ <<m, k>> \notin lost

LEMMA CopiesOf ==
  ASSUME MessagesTyped, NEW m, NEW K, NEW L, NEW A, NEW B, NEW C,
         A = {k \in K : In(m, k)}, B = {k \in K : Heard(m, k)}, C = {l \in L : Noted(m, l)},
         K \subseteq Keys
  PROVE  /\ (\E x : A = {x}) /\ B = {} /\ C = {} => Copies(m, K, L) = 1
         /\ A = {} /\ (\E x : B = {x}) /\ C = {} => Copies(m, K, L) = 1
         /\ A = {} /\ B = {} /\ (\E x : C = {x}) => Copies(m, K, L) = 1
         /\ A = {} /\ B = {} /\ C = {} => Copies(m, K, L) = 0
<1>1. PICK T : T = {t \in taken \ lost : t[1] = m /\ t[2] \in K}
  OBVIOUS
<1>2. Copies(m, K, L) = Cardinality(A) + Cardinality(T) + Cardinality(C)
  BY <1>1 DEF Copies, In, Noted
<1>4. \A t : t \in T <=> \E k \in B : t = <<m, k>>
  <2>1. ASSUME NEW t \in T PROVE \E k \in B : t = <<m, k>>
    <3>1. t \in taken /\ t \notin lost /\ t \in Messages \X Keys /\ t[1] = m /\ t[2] \in K
      BY <1>1, <2>1 DEF MessagesTyped
    <3>2. t = <<m, t[2]>>
      BY <3>1
    <3>3. t[2] \in B
      BY <3>1, <3>2 DEF Gone, Heard
    <3> QED BY <3>2, <3>3
  <2>2. ASSUME NEW k \in B PROVE <<m, k>> \in T
    <3>1. k \in K /\ <<m, k>> \in taken \ lost
      BY <2>2 DEF Gone, Heard
    <3> QED BY <1>1, <3>1
  <2> QED BY <2>1, <2>2
<1>5. /\ B = {} => T = {}
      /\ \A x : B = {x} => T = {<<m, x>>}
  BY <1>4
<1>6. Cardinality({}) = 0 /\ \A x : Cardinality({x}) = 1
  BY FS_EmptySet, FS_Singleton
<1>7. /\ \A x : A = {x} => Cardinality(A) = 1
      /\ \A x : C = {x} => Cardinality(C) = 1
      /\ A = {} => Cardinality(A) = 0
      /\ C = {} => Cardinality(C) = 0
      /\ B = {} => Cardinality(T) = 0
      /\ \A x : B = {x} => Cardinality(T) = 1
  BY <1>5, <1>6
<1>8. PICK a, b, c : a = Cardinality(A) /\ b = Cardinality(T) /\ c = Cardinality(C)
  OBVIOUS
<1>9. Copies(m, K, L) = a + b + c
  BY <1>2, <1>8
<1>10. /\ (\E x : A = {x}) => a = 1
       /\ (\E x : B = {x}) => b = 1
       /\ (\E x : C = {x}) => c = 1
       /\ A = {} => a = 0
       /\ B = {} => b = 0
       /\ C = {} => c = 0
  BY <1>7, <1>8
<1>11. PICK d : d = Copies(m, K, L)
  OBVIOUS
<1>12. d = a + b + c
  BY <1>9, <1>11
<1>13. /\ a = 1 /\ b = 0 /\ c = 0 => d = 1
       /\ a = 0 /\ b = 1 /\ c = 0 => d = 1
       /\ a = 0 /\ b = 0 /\ c = 1 => d = 1
       /\ a = 0 /\ b = 0 /\ c = 0 => d = 0
  BY <1>12
<1> QED BY <1>10, <1>11, <1>13, Zenon

LEMMA OnceCounted == MessagesOK /\ LostOK => DeliveredOnce
<1> SUFFICES ASSUME MessagesOK, LostOK PROVE DeliveredOnce
  OBVIOUS
<1>0. MessagesTyped /\ PlacedOnce /\ Lanes \subseteq Keys
  BY DEF MessagesOK, Keys
<1>1. ASSUME NEW m \in Messages, posted[m] \notin Roles
      PROVE  Copies(m, Keys, Lanes) = IF \E k \in Keys : <<m, k>> \in lost THEN 0 ELSE 1
  <2>1. InOnePlace(m)
    BY <1>0, <1>1 DEF PlacedOnce
  <2>2. PICK A, B, C : /\ A = {k \in Keys : In(m, k)} /\ B = {k \in Keys : Heard(m, k)}
                       /\ C = {l \in Lanes : Noted(m, l)}
    OBVIOUS
  <2>3. CASE \E k \in Keys : <<m, k>> \in lost
    <3>1. PICK k \in Keys : Gone(m, k) /\ <<m, k>> \in lost
      BY <2>3 DEF LostOK, Gone
    <3>2. A = {} /\ B = {} /\ C = {}
      BY <2>1, <2>2, <3>1 DEF InOnePlace, Heard
    <3>3. Copies(m, Keys, Lanes) = 0
      BY <1>0, <2>2, <3>2, CopiesOf
    <3> QED BY <2>3, <3>3
  <2>4. CASE ~\E k \in Keys : <<m, k>> \in lost
    <3>1. \A k \in Keys : Heard(m, k) <=> Gone(m, k)
      BY <2>4 DEF Heard
    <3>2. ASSUME NEW k \in Keys, In(m, k)
          PROVE  A = {k} /\ B = {} /\ C = {}
      BY <2>1, <2>2, <3>1, <3>2 DEF InOnePlace
    <3>3. ASSUME NEW k \in Keys, Gone(m, k)
          PROVE  A = {} /\ B = {k} /\ C = {}
      BY <2>1, <2>2, <3>1, <3>3 DEF InOnePlace
    <3>4. ASSUME NEW l \in Lanes, Noted(m, l)
          PROVE  A = {} /\ B = {} /\ C = {l}
      BY <2>1, <2>2, <3>1, <3>4 DEF InOnePlace
    <3>5. \/ (\E x : A = {x}) /\ B = {} /\ C = {}
          \/ A = {} /\ (\E x : B = {x}) /\ C = {}
          \/ A = {} /\ B = {} /\ (\E x : C = {x})
      BY <2>1, <3>2, <3>3, <3>4 DEF InOnePlace
    <3>6. Copies(m, Keys, Lanes) = 1
      BY <1>0, <2>2, <3>5, CopiesOf
    <3> QED BY <2>4, <3>6
  <2> QED BY <2>3, <2>4
<1>2. ASSUME NEW m \in Messages, NEW l \in Lanes, posted[m] \in Roles
      PROVE  Copies(m, {l}, {l}) <= IF Sibling(m, l) THEN 1 ELSE 0
  <2>1. ReachedOnce(m)
    BY <1>0, <1>2 DEF PlacedOnce
  <2>2. PICK A, B, C : /\ A = {k \in {l} : In(m, k)} /\ B = {k \in {l} : Heard(m, k)}
                       /\ C = {k \in {l} : Noted(m, k)}
    OBVIOUS
  <2>3. CASE ~Reached(m, l)
    <3>1. A = {} /\ B = {} /\ C = {}
      BY <2>2, <2>3 DEF Reached, Heard
    <3>2. Copies(m, {l}, {l}) = 0
      BY <1>0, <2>2, <3>1, CopiesOf
    <3> QED BY <3>2
  <2>4. CASE Reached(m, l)
    <3>1. Sibling(m, l)
      BY <2>1, <2>4 DEF ReachedOnce
    <3>2. \/ A = {l} /\ B = {} /\ C = {}
          \/ A = {} /\ B = {l} /\ C = {}
          \/ A = {} /\ B = {} /\ C = {l}
          \/ A = {} /\ B = {} /\ C = {}
      <4>1. CASE In(m, l)
        BY <2>1, <2>2, <4>1 DEF ReachedOnce, Heard
      <4>2. CASE Gone(m, l)
        BY <2>1, <2>2, <4>2 DEF ReachedOnce, Heard
      <4>3. CASE Noted(m, l)
        BY <2>1, <2>2, <4>3 DEF ReachedOnce, Heard
      <4> QED BY <2>4, <4>1, <4>2, <4>3 DEF Reached
    <3>3. Copies(m, {l}, {l}) = 1 \/ Copies(m, {l}, {l}) = 0
      BY <1>0, <2>2, <3>2, CopiesOf
    <3> QED BY <3>1, <3>3
  <2> QED BY <2>3, <2>4
<1> QED BY <1>1, <1>2 DEF DeliveredOnce, Accounted, BroadcastOnce

LEMMA MessagesThroughout == Spec => []MessagesOK
BY MessagesInit, MessagesStep, SoundThroughout, PTL DEF Spec

(* A message to one lane or role is at any time in exactly one place, but  *)
(* one that a refused revival dropped, which is in none; a broadcast       *)
(* reaches a lane at most once and never the sender's role (mailbox.rs,    *)
(* send_inner, register, drain; subagents.rs:949, revive_subagent_lane).   *)
(* Nothing is heard twice and nothing else disappears.                     *)
THEOREM MessagesDeliveredOnce == Spec => []DeliveredOnce
BY OnceCounted, MessagesThroughout, LostThroughout, PTL

-----------------------------------------------------------------------------
(* The bounds.                                                             *)

(* A worker that reads its inboxes has a follow-up turn left.              *)
WorkBounded ==
  \A l \in Lanes, n \in Runs :
    /\ work[l][n].extra <= MaxExtras
    /\ work[l][n].phase = "drain" => work[l][n].extra < MaxExtras

(* A kill in progress is about a run.                                      *)
KillNamed == \A l \in Lanes : kill[l].at # "idle" => kill[l].run \in Runs

BoundsOK ==
  /\ killed \subseteq Keys
  /\ boxes \subseteq Roles
  /\ aborted \subseteq Lanes \X Runs
  /\ called \in 0 .. MaxCalls
  /\ faults \in 0 .. MaxFaults
  /\ WorkBounded
  /\ KillNamed

LEMMA BoundsTyped == Sound /\ MessagesOK /\ LostOK /\ BoundsOK => TypeOK
<1> SUFFICES ASSUME Sound, MessagesOK, LostOK, BoundsOK PROVE TypeOK
  OBVIOUS
<1>1. CoreTypeOK /\ MessagesTyped
  BY DEF Sound, MessagesOK
<1>2. work \in [Lanes -> [Runs -> [phase : Phases, extra : 0 .. MaxExtras]]]
  <2>1. ASSUME NEW l \in Lanes, NEW n \in Runs
        PROVE  work[l][n] \in [phase : Phases, extra : 0 .. MaxExtras]
    <3>1. work[l][n] \in WorkType /\ work[l][n].extra <= MaxExtras
      BY <1>1 DEF CoreTypeOK, BoundsOK, WorkBounded
    <3> QED BY <3>1, HubAssumption DEF WorkType
  <2>2. \A l \in Lanes : work[l] \in [Runs -> [phase : Phases, extra : 0 .. MaxExtras]]
    <3> TAKE l \in Lanes
    <3>1. PICK w : w = work[l]
      OBVIOUS
    <3>2. w \in [Runs -> WorkType] /\ \A n \in Runs : w[n] \in [phase : Phases, extra : 0 .. MaxExtras]
      BY <1>1, <2>1, <3>1 DEF CoreTypeOK
    <3>3. w \in [Runs -> [phase : Phases, extra : 0 .. MaxExtras]]
      BY <3>2
    <3> QED BY <3>1, <3>3
  <2> QED BY <1>1, <2>2 DEF CoreTypeOK
<1>3. revive \in [Lanes -> [at : {"idle", "drain", "resume"}, notes : SUBSET Messages]]
  <2>1. ASSUME NEW l \in Lanes
        PROVE  revive[l] \in [at : {"idle", "drain", "resume"}, notes : SUBSET Messages]
    BY <1>1 DEF MessagesTyped, ReviveType
  <2> QED BY <1>1, <2>1 DEF MessagesTyped
<1> QED BY <1>1, <1>2, <1>3 DEF CoreTypeOK, MessagesTyped, LostOK, BoundsOK, TypeOK, RosterType, KillType, Phases

LEMMA BoundsInit == Init => BoundsOK
<1> SUFFICES ASSUME Init PROVE BoundsOK
  OBVIOUS
<1>1. 0 \in 0 .. MaxCalls /\ 0 \in 0 .. MaxFaults
  BY HubAssumption
<1>2. WorkBounded
  BY HubAssumption DEF Init, WorkBounded, Resting
<1>3. KillNamed
  BY DEF Init, KillNamed, NoKill
<1> QED BY <1>1, <1>2, <1>3 DEF Init, BoundsOK

(* A step changes one worker to w.                                         *)
WorkerBounded(w) == w.extra <= MaxExtras /\ (w.phase = "drain" => w.extra < MaxExtras)

LEMMA SetBounded ==
  ASSUME CoreTypeOK, WorkBounded, NEW l \in Lanes, NEW n \in Runs, NEW w, WorkerBounded(w),
         work' = [work EXCEPT ![l][n] = w]
  PROVE  WorkBounded'
<1>1. \A k \in Lanes, m \in Runs : work'[k][m] = IF k = l /\ m = n THEN w ELSE work[k][m]
  BY DEF CoreTypeOK
<1> QED BY <1>1 DEF WorkBounded, WorkerBounded

LEMMA MovesBounded ==
  ASSUME CoreTypeOK, WorkBounded, NEW l \in Lanes, NEW n \in Runs, NEW to \in Phases,
         to = "drain" => work[l][n].extra # MaxExtras,
         work' = [work EXCEPT ![l][n].phase = to]
  PROVE  WorkBounded'
<1>1. PICK w \in WorkType : w = work[l][n]
  BY DEF CoreTypeOK
<1>2. PICK v : v = [w EXCEPT !.phase = to]
  OBVIOUS
<1>3. v.phase = to /\ v.extra = w.extra /\ w.extra \in Nat
  BY <1>2 DEF WorkType
<1>4. WorkerBounded(v)
  BY <1>1, <1>3, HubAssumption DEF WorkBounded, WorkerBounded
<1>5. work' = [work EXCEPT ![l][n] = v]
  BY <1>1, <1>2
<1> QED BY <1>4, <1>5, SetBounded

LEMMA EndsBounded ==
  ASSUME CoreTypeOK, WorkBounded, NEW l \in Lanes, NEW n \in Runs, Ends(l, n)
  PROVE  WorkBounded'
<1>1. PICK w : w = [phase |-> "done", extra |-> 0]
  OBVIOUS
<1>2. WorkerBounded(w)
  BY <1>1, HubAssumption DEF WorkerBounded
<1> QED BY <1>1, <1>2, SetBounded DEF Ends

LEMMA WorkStaysBounded ==
  ASSUME Sound, WorkBounded, [Next]_vars
  PROVE  WorkBounded'
<1>0. CoreTypeOK /\ StartedInOrder
  BY DEF Sound
<1>1. CASE work' = work
  BY <1>1 DEF WorkBounded
<1>2. ASSUME NEW l \in Lanes, NEW n \in Runs, Worker(l, n) \/ Mishap(l, n)
      PROVE  WorkBounded'
  <2>1. CASE \/ Register(l, n) \/ TurnEnds(l, n) \/ Commit(l, n) \/ Finish(l, n)
             \/ Settle(l, n) \/ CommitFails(l, n)
    <3>1. PICK to \in Phases \ {"drain"} : work' = [work EXCEPT ![l][n].phase = to]
      BY <2>1 DEF Register, TurnEnds, Commit, Finish, Settle, CommitFails, Moves, Phases
    <3> QED BY <1>0, <3>1, MovesBounded
  <2>2. CASE Boundary(l, n)
    <3>1. CASE Ends(l, n)
      BY <1>0, <3>1, EndsBounded
    <3>2. CASE ~Ends(l, n)
      <4>1. /\ work' = [work EXCEPT ![l][n].phase = "drain"]
            /\ work[l][n].extra # MaxExtras
        BY <2>2, <3>2 DEF Boundary, Moves
      <4>2. PICK to \in Phases : to = "drain"
        BY DEF Phases
      <4> QED BY <1>0, <4>1, <4>2, MovesBounded
    <3> QED BY <3>1, <3>2
  <2>3. CASE FollowUp(l, n)
    <3>1. CASE Ends(l, n)
      BY <1>0, <3>1, EndsBounded
    <3>2. CASE ~Ends(l, n)
      <4>1. /\ work[l][n].phase = "drain"
            /\ work' = [work EXCEPT ![l][n] = [phase |-> "running", extra |-> work[l][n].extra + 1]]
        BY <2>3, <3>2 DEF FollowUp
      <4>2. work[l][n].extra < MaxExtras /\ work[l][n].extra \in Nat
        BY <1>0, <4>1 DEF WorkBounded, CoreTypeOK, WorkType
      <4>3. PICK w : w = [phase |-> "running", extra |-> work[l][n].extra + 1]
        OBVIOUS
      <4>4. WorkerBounded(w)
        BY <4>2, <4>3, HubAssumption DEF WorkerBounded
      <4> QED BY <1>0, <4>1, <4>3, <4>4, SetBounded
    <3> QED BY <3>1, <3>2
  <2>4. CASE KilledExit(l, n) \/ WorkFails(l, n)
    BY <1>0, <2>4, EndsBounded DEF KilledExit, WorkFails
  <2> QED BY <1>2, <2>1, <2>2, <2>3, <2>4 DEF Worker, Mishap
<1>3. ASSUME NEW l \in Lanes, StartLane(l) \/ StartFails(l)
      PROVE  WorkBounded'
  <2>1. 1 \in Runs
    BY RunsFact
  <2>2. CASE StartLane(l)
    <3>1. PICK to \in Phases \ {"drain"} : to = "accepted"
      BY DEF Phases
    <3> QED BY <1>0, <2>1, <2>2, <3>1, MovesBounded DEF StartLane
  <2>3. CASE StartFails(l)
    BY <1>0, <2>1, <2>3, EndsBounded DEF StartFails
  <2> QED BY <1>3, <2>2, <2>3
<1>4. ASSUME NEW l \in Lanes, ReviveResumes(l) \/ ReviveStrands(l)
      PROVE  WorkBounded'
  <2>1. PICK n : n = NextRun(l)
    OBVIOUS
  <2>2. n \in Runs
    BY <1>0, <1>4, <2>1, NextRunFresh DEF ReviveResumes, ReviveStrands, Resumable
  <2>3. PICK to \in Phases \ {"drain"} : work' = [work EXCEPT ![l][n].phase = to]
    BY <1>4, <2>1 DEF ReviveResumes, ReviveStrands, Phases
  <2> QED BY <1>0, <2>2, <2>3, MovesBounded
<1>5. ASSUME NEW l \in Lanes,
             \/ PeerSends(l) \/ PeerBroadcasts(l) \/ ParentSends(l) \/ KillBegins(l) \/ Kill(l)
             \/ ReviveBegins(l) \/ ReviveDrains(l) \/ ReviveRefused(l)
      PROVE  work' = work
  BY <1>5 DEF PeerSends, PeerBroadcasts, Peer, ParentSends, KillBegins, Kill, KillFlags,
              KillNotifies, KillAborts, KillCloses, KillSettles, KillEnds, ReviveBegins,
              ReviveDrains, ReviveRefused
<1>6. ASSUME NEW c \in sink, ParentCommits(c)
      PROVE  work' = work
  BY <1>6 DEF ParentCommits
<1>7. CASE UNCHANGED vars
  BY <1>1, <1>7 DEF vars
<1>8. CASE Next
  BY <1>1, <1>2, <1>3, <1>4, <1>5, <1>6, <1>8 DEF Next, Revive
<1> QED BY <1>7, <1>8

LEMMA KillStaysNamed ==
  ASSUME Sound, KillNamed, [Next]_vars
  PROVE  KillNamed'
<1>0. CoreTypeOK /\ ShownIsStarted
  BY DEF Sound
<1>1. CASE kill' = kill
  BY <1>1 DEF KillNamed
<1>2. ASSUME NEW l \in Lanes, NEW k \in KillType, k.at # "idle" => k.run \in Runs,
             kill' = [kill EXCEPT ![l] = k]
      PROVE  KillNamed'
  <2>1. \A j \in Lanes : kill'[j] = IF j = l THEN k ELSE kill[j]
    BY <1>0, <1>2 DEF CoreTypeOK
  <2> QED BY <1>2, <2>1 DEF KillNamed
<1>3. ASSUME NEW l \in Lanes, KillBegins(l)
      PROVE  KillNamed'
  <2>1. roster[l].run \in Runs
    BY <1>0, <1>3, ShownIsRun DEF KillBegins
  <2>2. PICK k : k = [at |-> "flag", run |-> roster[l].run]
    OBVIOUS
  <2>3. k \in KillType /\ k.run \in Runs
    BY <2>1, <2>2, RunsFact DEF KillType, Runs
  <2> QED BY <1>2, <1>3, <2>2, <2>3 DEF KillBegins
<1>4. ASSUME NEW l \in Lanes, KillEnds(l)
      PROVE  KillNamed'
  <2>1. PICK k : k = NoKill
    OBVIOUS
  <2>2. k \in KillType /\ k.at = "idle"
    BY <2>1, RunsFact DEF KillType, NoKill
  <2> QED BY <1>2, <1>4, <2>1, <2>2 DEF KillEnds
<1>5. ASSUME NEW l \in Lanes, NEW from \in {"flag", "notice", "abort", "close", "settle"},
             NEW to \in {"notice", "abort", "close", "settle", "outcome"}, Killing(l, from, to)
      PROVE  KillNamed'
  <2>1. PICK k \in KillType : k = kill[l]
    BY <1>0 DEF CoreTypeOK
  <2>2. k.at # "idle" /\ k.run \in Runs
    BY <1>5, <2>1 DEF Killing, KillNamed
  <2>3. PICK w : w = [k EXCEPT !.at = to]
    OBVIOUS
  <2>4. w \in KillType /\ w.run = k.run
    BY <2>3 DEF KillType
  <2>5. kill' = [kill EXCEPT ![l] = w]
    BY <1>5, <2>1, <2>3 DEF Killing
  <2> QED BY <1>2, <2>2, <2>4, <2>5
<1>6. ASSUME NEW l \in Lanes, Kill(l)
      PROVE  KillNamed'
  <2>1. CASE KillAborts(l)
    <3>1. Killing(l, "abort", "close") \/ Killing(l, "abort", "settle")
      BY <2>1 DEF KillAborts
    <3> QED BY <1>5, <3>1
  <2> QED BY <1>4, <1>5, <1>6, <2>1 DEF Kill, KillFlags, KillNotifies, KillCloses, KillSettles
<1>7. CASE Talks \/ Works
  BY <1>1, <1>7 DEF Talks, Works
<1>8. ASSUME NEW l \in Lanes, Calls(l)
      PROVE  KillNamed'
  BY <1>1, <1>3, <1>6, <1>8 DEF Calls, StartLane, ReviveResumes, ReviveStrands, calls
<1>9. ASSUME NEW l \in Lanes, NEW n \in Runs, Turns(l, n)
      PROVE  KillNamed'
  BY <1>1, <1>9 DEF Turns, HandsOver, Register, CommitFails, Commit, Finish, Settle, calls
<1>10. ASSUME NEW c \in sink, ParentCommits(c)
       PROVE  KillNamed'
  BY <1>1, <1>10 DEF ParentCommits, calls
<1> QED BY <1>0, <1>7, <1>8, <1>9, <1>10, StepForms

LEMMA BoundsStep == Sound /\ BoundsOK /\ [Next]_vars => BoundsOK'
<1> SUFFICES ASSUME Sound, BoundsOK, [Next]_vars PROVE BoundsOK'
  OBVIOUS
<1>0. /\ CoreTypeOK /\ agent \in [Lanes -> Roles] /\ Lanes \subseteq Keys /\ Roles \subseteq Keys
      /\ killed \subseteq Keys /\ boxes \subseteq Roles /\ aborted \subseteq Lanes \X Runs
      /\ called \in 0 .. MaxCalls /\ faults \in 0 .. MaxFaults /\ WorkBounded /\ KillNamed
      /\ MaxCalls \in Nat /\ MaxFaults \in Nat
  BY HubAssumption DEF Sound, CoreTypeOK, Keys, BoundsOK
<1>1. WorkBounded' /\ KillNamed'
  BY <1>0, WorkStaysBounded, KillStaysNamed
<1>2. \/ faults' = faults
      \/ faults < MaxFaults /\ faults' = faults + 1
  <2>1. CASE UNCHANGED vars
    BY <2>1 DEF vars
  <2>2. ASSUME NEW l \in Lanes, NEW n \in Runs, Worker(l, n) \/ Mishap(l, n)
        PROVE  faults' = faults \/ (faults < MaxFaults /\ faults' = faults + 1)
    BY <2>2 DEF Worker, Register, TurnEnds, Boundary, FollowUp, Commit, Finish, Settle,
                Mishap, KilledExit, WorkFails, CommitFails
  <2>3. ASSUME NEW l \in Lanes,
               \/ StartLane(l) \/ StartFails(l) \/ PeerSends(l) \/ PeerBroadcasts(l)
               \/ ParentSends(l) \/ KillBegins(l) \/ Kill(l)
        PROVE  faults' = faults \/ (faults < MaxFaults /\ faults' = faults + 1)
    BY <2>3 DEF StartLane, StartFails, PeerSends, PeerBroadcasts, ParentSends, KillBegins, Kill,
                KillFlags, KillNotifies, KillAborts, KillCloses, KillSettles, KillEnds
  <2>4. ASSUME NEW l \in Lanes, ReviveBegins(l) \/ Revive(l)
        PROVE  faults' = faults \/ (faults < MaxFaults /\ faults' = faults + 1)
    BY <2>4 DEF Revive, ReviveBegins, ReviveDrains, ReviveRefused, ReviveResumes, ReviveStrands
  <2>5. ASSUME NEW c \in sink, ParentCommits(c)
        PROVE  faults' = faults
    BY <2>5 DEF ParentCommits
  <2>6. CASE Next
    BY <2>2, <2>3, <2>4, <2>5, <2>6 DEF Next
  <2> QED BY <2>1, <2>6
<1>3. \/ called' = called
      \/ Called
  <2>1. CASE UNCHANGED vars
    BY <2>1 DEF vars, calls
  <2>2. ASSUME NEW l \in Lanes, NEW n \in Runs, Worker(l, n) \/ Mishap(l, n)
        PROVE  called' = called
    BY <2>2 DEF Worker, Register, TurnEnds, Boundary, FollowUp, Commit, Finish, Settle,
                Mishap, KilledExit, WorkFails, CommitFails, calls
  <2>3. ASSUME NEW l \in Lanes,
               \/ StartLane(l) \/ StartFails(l) \/ PeerSends(l) \/ PeerBroadcasts(l)
               \/ ParentSends(l) \/ KillBegins(l) \/ Kill(l)
        PROVE  called' = called \/ Called
    BY <2>3 DEF StartLane, StartFails, PeerSends, PeerBroadcasts, ParentSends, KillBegins, Kill,
                KillFlags, KillNotifies, KillAborts, KillCloses, KillSettles, KillEnds, calls
  <2>4. ASSUME NEW l \in Lanes, ReviveBegins(l) \/ Revive(l)
        PROVE  called' = called \/ Called
    BY <2>4 DEF Revive, ReviveBegins, ReviveDrains, ReviveRefused, ReviveResumes, ReviveStrands
  <2>5. ASSUME NEW c \in sink, ParentCommits(c)
        PROVE  called' = called
    BY <2>5 DEF ParentCommits, calls
  <2>6. CASE Next
    BY <2>2, <2>3, <2>4, <2>5, <2>6 DEF Next
  <2> QED BY <2>1, <2>6
<1>4. killed' \subseteq Keys /\ boxes' \subseteq Roles /\ aborted' \subseteq Lanes \X Runs
  <2>1. CASE UNCHANGED vars
    BY <1>0, <2>1 DEF vars, hub, journal
  <2>2. ASSUME NEW l \in Lanes, NEW n \in Runs, Worker(l, n) \/ Mishap(l, n)
        PROVE  killed' \subseteq killed /\ boxes' = boxes /\ aborted' = aborted
    BY <2>2 DEF Worker, Register, TurnEnds, Boundary, FollowUp, Commit, Finish, Settle,
                Mishap, KilledExit, WorkFails, CommitFails, hub, journal
  <2>3. ASSUME NEW l \in Lanes,
               \/ StartLane(l) \/ StartFails(l) \/ PeerBroadcasts(l)
               \/ ParentSends(l) \/ KillBegins(l)
               \/ KillNotifies(l) \/ KillAborts(l) \/ KillSettles(l) \/ KillEnds(l)
        PROVE  killed' = killed /\ boxes' = boxes /\ aborted' = aborted
    BY <2>3 DEF StartLane, StartFails, PeerBroadcasts, ParentSends, KillBegins,
                KillNotifies, KillAborts, KillSettles, KillEnds, hub, journal
  <2>4. ASSUME NEW l \in Lanes, PeerSends(l)
        PROVE  killed' = killed /\ boxes' \subseteq Roles /\ aborted' = aborted
    BY <1>0, <2>4 DEF PeerSends, journal
  <2>5. ASSUME NEW l \in Lanes, KillFlags(l)
        PROVE  killed' \subseteq Keys /\ boxes' = boxes /\ aborted' = aborted
    BY <1>0, <2>5 DEF KillFlags, journal
  <2>6. ASSUME NEW l \in Lanes, KillCloses(l)
        PROVE  killed' = killed /\ boxes' = boxes /\ aborted' \subseteq Lanes \X Runs
    <3>1. kill[l].run \in Runs
      BY <1>0, <2>6 DEF KillCloses, Killing, KillNamed
    <3>2. aborted' = aborted \/ aborted' = aborted \union {<<l, kill[l].run>>}
      BY <2>6 DEF KillCloses, journal
    <3>3. killed' = killed /\ boxes' = boxes
      BY <2>6 DEF KillCloses, hub
    <3> QED BY <1>0, <3>1, <3>2, <3>3
  <2>7. ASSUME NEW l \in Lanes, ReviveBegins(l) \/ Revive(l)
        PROVE  killed' = killed /\ boxes' = boxes /\ aborted' = aborted
    BY <2>7 DEF Revive, ReviveBegins, ReviveDrains, ReviveRefused, ReviveResumes, ReviveStrands,
                hub, journal
  <2>8. ASSUME NEW c \in sink, ParentCommits(c)
        PROVE  killed' = killed /\ boxes' = boxes /\ aborted' = aborted
    BY <2>8 DEF ParentCommits
  <2>9. CASE Next
    <3>1. \/ \E l \in Lanes :
               \/ StartLane(l) \/ StartFails(l) \/ PeerBroadcasts(l)
               \/ ParentSends(l) \/ KillBegins(l)
               \/ KillNotifies(l) \/ KillAborts(l) \/ KillSettles(l) \/ KillEnds(l)
          \/ \E l \in Lanes : PeerSends(l) \/ KillFlags(l) \/ KillCloses(l)
          \/ \E l \in Lanes : ReviveBegins(l) \/ Revive(l)
          \/ \E l \in Lanes, n \in Runs : Worker(l, n) \/ Mishap(l, n)
          \/ \E c \in sink : ParentCommits(c)
      BY <2>9 DEF Next, Kill
    <3> QED BY <1>0, <2>2, <2>3, <2>4, <2>5, <2>6, <2>7, <2>8, <3>1
  <2> QED BY <2>1, <2>9
<1>5. faults' \in 0 .. MaxFaults /\ called' \in 0 .. MaxCalls
  BY <1>0, <1>2, <1>3 DEF Called
<1> QED BY <1>1, <1>4, <1>5 DEF BoundsOK

(* Every variable of the hub has its type: no inbox and no list of         *)
(* retained broadcasts grows past its bound, no run has more follow-up     *)
(* turns than it may, and nothing waits anywhere that was not sent.        *)
THEOREM TypeCorrect == Spec => []TypeOK
<1>1. Spec => []BoundsOK
  BY BoundsInit, BoundsStep, SoundThroughout, PTL DEF Spec
<1> QED BY <1>1, BoundsTyped, SoundThroughout, MessagesThroughout, LostThroughout, PTL
=============================================================================
