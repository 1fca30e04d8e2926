------------------------ MODULE WorkScheduler_proofs ------------------------
(***************************************************************************)
(* Theorems about WorkScheduler, for any users, providers and bounds: an   *)
(* input that is dropped, re-routed, stopped and retried while a driver    *)
(* works the queue is neither handed to the model twice nor forgotten.     *)
(***************************************************************************)
EXTENDS WorkScheduler, FiniteSetTheorems, SequenceTheorems, TLAPS

Idx == 1..minted
Calling(u, W) == op[u].at \in W
OpType ==
    [at : {"idle", "schedule", "drop", "take", "copy", "cancel", "undo", "untake"},
     entry : Entry0, copy : Entry0]

-----------------------------------------------------------------------------
(* The inductive invariant, in four layers.  First, what the calls and the *)
(* driver hold in hand.                                                    *)

(* The entries a call remembers were made before, the copy after the       *)
(* original; what a call has cancelled is gone from the queue for good.    *)
CallsOK ==
    \A u \in Users :
        /\ op[u].at # "idle" => op[u].entry \in Idx
        /\ Calling(u, {"cancel", "undo", "untake"}) =>
               /\ op[u].copy \in Idx /\ op[u].entry < op[u].copy
               /\ body[op[u].copy] = body[op[u].entry]
        /\ Calling(u, {"copy", "cancel", "undo", "untake"}) => provider = "native"
        /\ Calling(u, {"take", "untake"}) => op[u].entry \notin queued

CopiesDistinct ==
    \A u, v \in Users :
        Calling(u, {"cancel", "undo"}) /\ Calling(v, {"cancel", "undo"}) /\ u # v
            => op[u].copy # op[v].copy

NativePc == {"idle", "prompt", "running", "drain", "consume", "write", "give", "finish"}
AcpPc == {"idle", "prompt", "running", "peek", "lookup", "wait", "accept", "settle", "give", "pop"}

(* The driver is at a step of its own executor, works on an entry that has *)
(* left the queue and, in a recorded run, is in the journal.  What the     *)
(* runtime kept after a failed write has left the queue, too.              *)
DriverOK ==
    /\ pc \in IF provider = "native" THEN NativePc ELSE AcpPc
    /\ pc \in {"write", "give", "settle", "lookup"} => item \in Idx
    /\ pc \in {"idle", "drain", "finish"} => batch = <<>>
    /\ item \in 0..minted
    /\ pc \in {"write", "give"} => item \notin queued
    /\ pc \in {"give", "settle"} /\ (provider = "acp" \/ recorder) => body[item] \in written
    /\ holder = "turn" /\ provider = "native" /\ pc # "prompt" => recorder
    /\ held \subseteq Idx \ queued
    /\ provider = "acp" => held = {}
    /\ pc \in {"write", "give"} => item \notin held

(* An entry carries its own message or one made earlier; with an ACP agent *)
(* nothing is re-routed.                                                   *)
MessagesOK ==
    /\ \A e \in Idx : body[e] \in 1..e
    /\ \A e \in Ids \ Idx : body[e] = e /\ given[e] = 0
    /\ returned \subseteq Idx
    /\ provider = "acp" => \A e \in Ids : body[e] = e

Shape == TypeOK /\ CallsOK /\ CopiesDistinct /\ DriverOK /\ MessagesOK

-----------------------------------------------------------------------------
(* Lemmas about the wakes.                                                 *)

(* Removing one element leaves the others.                                 *)
LEMMA RemoveAtKeeps ==
    ASSUME NEW S, NEW s \in Seq(S), NEW i \in DOMAIN s
    PROVE  /\ RemoveAt(s, i) \in Seq(S)
           /\ ToSet(s) \ {s[i]} \subseteq ToSet(RemoveAt(s, i))
<1> DEFINE a == SubSeq(s, 1, i - 1)
           b == SubSeq(s, i + 1, Len(s))
<1>0. Len(s) \in Nat /\ DOMAIN s = 1..Len(s) /\ \A k \in 1..Len(s) : s[k] \in S
  BY LenProperties, ElementOfSeq
<1>i. i \in 1..Len(s)
  BY <1>0
<1>1. a \in Seq(S) /\ Len(a) = i - 1 /\ \A k \in 1..(i - 1) : a[k] = s[k]
  <2>1. \A k \in 1..(i - 1) : s[k] \in S
    BY <1>0, <1>i
  <2> QED BY <1>0, <1>i, <2>1, SubSeqProperties DEF a
<1>2. b \in Seq(S) /\ Len(b) = Len(s) - i /\ \A k \in 1..(Len(s) - i) : b[k] = s[i + k]
  <2>1. \A k \in (i + 1)..Len(s) : s[k] \in S
    BY <1>0, <1>i
  <2> QED BY <1>0, <1>i, <2>1, SubSeqProperties DEF b
<1> DEFINE c == a \o b
<1> HIDE DEF a, b, c
<1>3. c \in Seq(S) /\ Len(c) = Len(s) - 1 /\ DOMAIN c = 1..(Len(s) - 1)
  <2>1. c \in Seq(S) /\ Len(c) = Len(a) + Len(b)
    BY <1>1, <1>2, ConcatProperties DEF c
  <2>2. Len(c) = Len(s) - 1
    BY <1>0, <1>i, <1>1, <1>2, <2>1
  <2> QED BY <2>1, <2>2, LenProperties
<1>4. \A k \in 1..(Len(s) - 1) : c[k] = IF k < i THEN s[k] ELSE s[k + 1]
  <2> SUFFICES ASSUME NEW k \in 1..(Len(s) - 1) PROVE c[k] = IF k < i THEN s[k] ELSE s[k + 1]
    OBVIOUS
  <2>1. k \in 1..(Len(a) + Len(b))
    BY <1>0, <1>i, <1>1, <1>2
  <2>2. c[k] = IF k <= Len(a) THEN a[k] ELSE b[k - Len(a)]
    BY <1>1, <1>2, <2>1, ConcatProperties DEF c
  <2>3. CASE k < i
    BY <1>0, <1>i, <1>1, <2>2, <2>3
  <2>4. CASE k >= i
    <3>1. c[k] = b[k - (i - 1)] /\ k - (i - 1) \in 1..(Len(s) - i) /\ i + (k - (i - 1)) = k + 1
      BY <1>0, <1>i, <1>1, <2>2, <2>4
    <3> QED BY <1>0, <1>i, <1>2, <2>4, <3>1
  <2> QED BY <1>0, <1>i, <2>3, <2>4
<1>5. ASSUME NEW k \in DOMAIN s, s[k] # s[i]
      PROVE  \E j \in DOMAIN c : c[j] = s[k]
  <2>1. CASE k < i
    BY <1>0, <1>i, <1>3, <1>4, <2>1
  <2>2. CASE k > i
    <3>1. k - 1 \in DOMAIN c /\ c[k - 1] = s[k]
      BY <1>0, <1>i, <1>3, <1>4, <2>2
    <3> QED BY <3>1
  <2> QED BY <1>0, <1>5, <2>1, <2>2
<1>6. RemoveAt(s, i) = c
  BY DEF RemoveAt, a, b, c
<1> QED BY <1>3, <1>5, <1>6 DEF ToSet

(* Taking the pending wake of an entry keeps the wakes of all others.      *)
LEMMA TakePendingKeeps ==
    ASSUME NEW S, wakes \in Seq(S), NEW e, TakePending(e)
    PROVE  wakes' \in Seq(S) /\ ToSet(wakes) \ {e} \subseteq ToSet(wakes')
BY RemoveAtKeeps DEF TakePending

LEMMA AppendKeeps ==
    ASSUME NEW S, NEW s \in Seq(S), NEW e \in S
    PROVE  Append(s, e) \in Seq(S) /\ ToSet(s) \cup {e} \subseteq ToSet(Append(s, e))
<1>1. /\ Append(s, e) \in Seq(S) /\ Len(Append(s, e)) = Len(s) + 1
      /\ \A i \in 1..Len(s) : Append(s, e)[i] = s[i]
      /\ Append(s, e)[Len(s) + 1] = e
  BY AppendProperties
<1>2. Len(s) \in Nat /\ DOMAIN s = 1..Len(s) /\ DOMAIN Append(s, e) = 1..(Len(s) + 1)
  BY <1>1, LenProperties
<1> QED BY <1>1, <1>2 DEF ToSet

LEMMA TailKeeps ==
    ASSUME NEW S, NEW s \in Seq(S), s # <<>>
    PROVE  /\ Head(s) \in S /\ Tail(s) \in Seq(S)
           /\ ToSet(s) \ {Head(s)} \subseteq ToSet(Tail(s))
<1>1. /\ Head(s) \in S /\ Tail(s) \in Seq(S) /\ Len(Tail(s)) = Len(s) - 1
      /\ Len(s) \in Nat \ {0} /\ Head(s) = s[1]
      /\ \A i \in 1..(Len(s) - 1) : Tail(s)[i] = s[i + 1]
  BY HeadTailProperties, EmptySeq
<1>2. DOMAIN s = 1..Len(s) /\ DOMAIN Tail(s) = 1..(Len(s) - 1)
  BY <1>1, LenProperties
<1>3. ASSUME NEW k \in DOMAIN s, s[k] # s[1] PROVE \E j \in DOMAIN Tail(s) : Tail(s)[j] = s[k]
  <2>1. k - 1 \in DOMAIN Tail(s) /\ Tail(s)[k - 1] = s[k]
    BY <1>1, <1>2, <1>3
  <2> QED BY <2>1
<1> QED BY <1>1, <1>3 DEF ToSet

(* A restart makes one wake for every queued entry.                        *)
LEMMA InOrderCovers ==
    ASSUME NEW Q, IsFiniteSet(Q), NEW w \in InOrder(Q)
    PROVE  w \in Seq(Q) /\ Q \subseteq ToSet(w)
<1>1. Cardinality(Q) \in Nat
  BY FS_CardinalityType
<1>2. w \in [1..Cardinality(Q) -> Q] /\ \A e \in Q : \E i \in DOMAIN w : w[i] = e
  BY DEF InOrder
<1> QED BY <1>1, <1>2 DEF ToSet

-----------------------------------------------------------------------------
(* Lemmas about the calls.                                                 *)

LEMMA MoveFacts ==
    ASSUME TypeOK, NEW u \in Users, NEW o \in OpType, Move(u, o)
    PROVE  /\ op' \in [Users -> OpType] /\ op'[u] = o
           /\ \A v \in Users \ {u} : op'[v] = op[v]
BY DEF TypeOK, OpType, Move

Ats == {"idle", "schedule", "drop", "take", "copy", "cancel", "undo", "untake"}

LEMMA OpFields ==
    ASSUME NEW r \in OpType, NEW w \in Ats
    PROVE  /\ r.at \in Ats /\ r.entry \in Entry0 /\ r.copy \in Entry0
           /\ [r EXCEPT !.at = w] = [at |-> w, entry |-> r.entry, copy |-> r.copy]
<1>1. PICK a \in Ats, e \in Entry0, d \in Entry0 : r = [at |-> a, entry |-> e, copy |-> d]
  BY DEF OpType, Ats
<1>2. r.at = a /\ r.entry = e /\ r.copy = d
  BY <1>1
<1>3. [r EXCEPT !.at = w] = [at |-> w, entry |-> e, copy |-> d]
  BY <1>1
<1> QED BY <1>1, <1>2, <1>3

LEMMA EntriesFact == Entries \in Nat /\ Entry0 = 0..Entries /\ Ids \subseteq Entry0 /\ 0 \in Entry0
BY BoundsAssumption DEF Entry0, Ids

-----------------------------------------------------------------------------
(* What the calls and the driver hold: every step keeps it.                *)

(* One call moves on, and perhaps one entry is made or leaves the queue.   *)
LEMMA CallShape ==
    ASSUME Shape, NEW u \in Users, NEW o \in OpType, Move(u, o), UserFrame,
           minted' \in Entry0, minted <= minted', body' \in [Ids -> Ids],
           \A e \in Idx : body'[e] = body[e],
           \A e \in 1..minted' : body'[e] \in 1..e,
           \A e \in Ids \ 1..minted' : body'[e] = e,
           provider = "acp" => \A e \in Ids : body'[e] = e,
           queued' \subseteq 1..minted', \A e \in Idx : e \in queued' => e \in queued,
           wakes' \in Seq(1..minted'), returned' \subseteq Idx, doubled' \subseteq Ids,
           o.at # "idle" => o.entry \in 1..minted',
           o.at \in {"cancel", "undo", "untake"} =>
               /\ o.copy \in 1..minted' /\ o.entry < o.copy
               /\ body'[o.copy] = body'[o.entry],
           o.at \in {"copy", "cancel", "undo", "untake"} => provider = "native",
           o.at \in {"take", "untake"} => o.entry \in Idx \ queued',
           \A v \in Users \ {u} :
               o.at \in {"cancel", "undo"} /\ Calling(v, {"cancel", "undo"}) => op[v].copy # o.copy
    PROVE  Shape'
<1>0. TypeOK /\ CallsOK /\ CopiesDistinct /\ DriverOK /\ MessagesOK
  BY DEF Shape
<1>1. op' \in [Users -> OpType] /\ op'[u] = o /\ \A v \in Users \ {u} : op'[v] = op[v]
  BY <1>0, MoveFacts
<1>n. minted \in Nat /\ minted' \in Nat /\ minted' <= Entries /\ Entries \in Nat
  BY <1>0, BoundsAssumption DEF Entry0, TypeOK
<1>2. Idx \subseteq 1..minted' /\ 1..minted' \subseteq Ids
  BY <1>n DEF Idx, Ids
<1>3. batch \in Seq(1..minted')
  BY <1>0, <1>2, SeqMonotonic DEF TypeOK, Idx
<1>4. TypeOK'
  <2>1. UNCHANGED <<provider, runOpen, written, holder, pc, batch, item, recorder, stopping,
                    pending, held, given, orphaned, lost>>
    BY DEF UserFrame, driver, memory
  <2>2. returned' \subseteq Ids /\ held' \subseteq 1..minted'
    BY <1>0, <1>2, <2>1 DEF TypeOK, Idx
  <2>3. UNION {returned', orphaned', doubled', lost'} \subseteq Ids
    BY <1>0, <2>1, <2>2 DEF TypeOK
  <2> QED BY <1>0, <1>1, <1>3, <2>1, <2>2, <2>3 DEF TypeOK, OpType
<1>5. CallsOK'
  <2> SUFFICES ASSUME NEW v \in Users
               PROVE  /\ op'[v].at # "idle" => op'[v].entry \in 1..minted'
                      /\ op'[v].at \in {"cancel", "undo", "untake"} =>
                            /\ op'[v].copy \in 1..minted' /\ op'[v].entry < op'[v].copy
                            /\ body'[op'[v].copy] = body'[op'[v].entry]
                      /\ op'[v].at \in {"copy", "cancel", "undo", "untake"} => provider' = "native"
                      /\ op'[v].at \in {"take", "untake"} => op'[v].entry \notin queued'
    BY DEF CallsOK, Calling, Idx
  <2>1. provider' = provider
    BY DEF UserFrame
  <2>2. CASE v = u
    BY <1>1, <2>1, <2>2
  <2>3. CASE v # u
    <3>1. op'[v] = op[v]
      BY <1>1, <2>3
    <3>2. op[v].at # "idle" => op[v].entry \in Idx /\ op[v].entry \in 1..minted'
      BY <1>0, <1>2 DEF CallsOK
    <3>3. op[v].at \in {"cancel", "undo", "untake"} =>
            /\ op[v].copy \in Idx /\ op[v].copy \in 1..minted'
            /\ op[v].entry < op[v].copy
            /\ body'[op[v].copy] = body'[op[v].entry]
      BY <1>0, <1>2, <3>2 DEF CallsOK, Calling
    <3>4. op[v].at \in {"take", "untake"} => op[v].entry \notin queued'
      BY <1>0, <3>2 DEF CallsOK, Calling
    <3> QED BY <1>0, <2>1, <3>1, <3>2, <3>3, <3>4 DEF CallsOK, Calling
  <2> QED BY <2>2, <2>3
<1>6. CopiesDistinct'
  BY <1>0, <1>1 DEF CopiesDistinct, Calling
<1>7. DriverOK'
  <2>1. UNCHANGED <<provider, pc, item, batch, recorder, written, holder, held>>
    BY DEF UserFrame, driver, memory
  <2>6. held \subseteq 1..minted' \ queued'
    BY <1>0, <1>2 DEF DriverOK
  <2>2. item \in 0..minted'
    BY <1>0, <1>n DEF DriverOK
  <2>3. pc \in {"write", "give", "settle", "lookup"} => item \in Idx /\ item \in 1..minted'
    BY <1>0, <1>2 DEF DriverOK
  <2>4. pc \in {"write", "give"} => item \notin queued'
    BY <1>0, <2>3 DEF DriverOK
  <2>5. pc \in {"give", "settle"} => body'[item] = body[item]
    BY <2>3
  <2> QED BY <1>0, <2>1, <2>2, <2>3, <2>4, <2>5, <2>6 DEF DriverOK, Idx
<1>8. MessagesOK'
  BY <1>0, <1>2 DEF MessagesOK, Idx, UserFrame
<1> QED BY <1>4, <1>5, <1>6, <1>7, <1>8 DEF Shape

(* A call that makes no entry.                                             *)
LEMMA PlainCallShape ==
    ASSUME Shape, NEW u \in Users, NEW o \in OpType, Move(u, o), UserFrame,
           UNCHANGED <<minted, body>>, queued' \subseteq queued, wakes' \in Seq(Idx),
           returned' \subseteq Idx, doubled' \subseteq Ids,
           o.at # "idle" => o.entry \in Idx,
           o.at \in {"cancel", "undo", "untake"} =>
               /\ o.copy \in Idx /\ o.entry < o.copy
               /\ body[o.copy] = body[o.entry],
           o.at \in {"copy", "cancel", "undo", "untake"} => provider = "native",
           o.at \in {"take", "untake"} => o.entry \notin queued',
           o.at \in {"cancel", "undo"} =>
               Calling(u, {"cancel", "undo"}) /\ o.copy = op[u].copy
    PROVE  Shape'
<1>0. TypeOK /\ MessagesOK /\ CopiesDistinct
  BY DEF Shape
<1>1. minted' \in Entry0 /\ minted <= minted' /\ body' \in [Ids -> Ids]
  BY <1>0, BoundsAssumption DEF TypeOK, Entry0
<1>2. /\ \A e \in 1..minted' : body'[e] \in 1..e
      /\ \A e \in Ids \ 1..minted' : body'[e] = e
      /\ provider = "acp" => \A e \in Ids : body'[e] = e
  BY <1>0 DEF MessagesOK, Idx
<1>3. queued' \subseteq 1..minted' /\ wakes' \in Seq(1..minted')
  BY <1>0 DEF TypeOK, Idx
<1>4. \A v \in Users \ {u} :
        o.at \in {"cancel", "undo"} /\ Calling(v, {"cancel", "undo"}) => op[v].copy # o.copy
  BY <1>0 DEF CopiesDistinct
<1> HIDE DEF UserFrame
<1> QED BY <1>1, <1>2, <1>3, <1>4, CallShape DEF Idx

(* A step of the driver, a Stop or a restart.                              *)
LEMMA DriverShape ==
    ASSUME Shape, UNCHANGED <<provider, minted, body, returned>>,
           queued' \subseteq queued, runOpen' \in BOOLEAN, written' \subseteq Ids,
           wakes' \in Seq(Idx), batch' \in Seq(Idx),
           op' = op \/ op' = [u \in Users |-> NoOp],
           holder' \in {"none", "turn", "sup"},
           (holder' = "none") = (pc' = "idle"),
           recorder' \in BOOLEAN, stopping' \in BOOLEAN, pending' \in BOOLEAN,
           given' \in [Ids -> 0..2], \A e \in Ids \ Idx : given'[e] = 0,
           orphaned' \cup doubled' \cup lost' \subseteq Ids,
           DriverOK'
    PROVE  Shape'
<1>0. TypeOK /\ CallsOK /\ CopiesDistinct /\ DriverOK /\ MessagesOK
  BY DEF Shape
<1>1. TypeOK'
  <2>1. op' \in [Users -> OpType]
    BY <1>0, EntriesFact DEF TypeOK, OpType, NoOp
  <2>2. item' \in Entry0 /\ pc' \in NativePc \cup AcpPc /\ held' \subseteq Idx
    BY <1>0, BoundsAssumption DEF DriverOK, TypeOK, Entry0, Idx
  <2> QED BY <1>0, <2>1, <2>2 DEF TypeOK, OpType, Idx, NativePc, AcpPc
<1>2. CallsOK' /\ CopiesDistinct'
  <2>1. CASE op' = op
    BY <1>0, <2>1 DEF CallsOK, CopiesDistinct, Calling, Idx
  <2>2. CASE op' = [u \in Users |-> NoOp]
    BY <2>2 DEF CallsOK, CopiesDistinct, Calling, NoOp
  <2> QED BY <2>1, <2>2
<1>3. MessagesOK'
  BY <1>0 DEF MessagesOK, Idx
<1> QED BY <1>1, <1>2, <1>3 DEF Shape

(* The lookups a call begins with, and its step to the next one, move      *)
(* records of this type.                                                   *)
LEMMA OpTyped ==
    ASSUME NEW a \in Ats, NEW e \in Entry0, NEW c \in Entry0
    PROVE  [at |-> a, entry |-> e, copy |-> c] \in OpType
BY DEF OpType, Ats

LEMMA ShapeFacts ==
    ASSUME Shape
    PROVE  /\ TypeOK /\ CallsOK /\ CopiesDistinct /\ DriverOK /\ MessagesOK
           /\ minted \in Nat /\ Idx \subseteq Ids /\ Ids \subseteq Nat \ {0} /\ Idx \subseteq Entry0
           /\ queued \subseteq Idx /\ wakes \in Seq(Idx) /\ batch \in Seq(Idx)
           /\ \A e \in Idx : body[e] \in Idx
           /\ \A u \in Users : op[u] \in OpType
<1>1. TypeOK /\ CallsOK /\ CopiesDistinct /\ DriverOK /\ MessagesOK
  BY DEF Shape
<1>2. minted \in 0..Entries /\ Entries \in Nat
  BY <1>1, BoundsAssumption DEF TypeOK, Entry0
<1>3. Idx \subseteq Ids /\ Ids \subseteq Nat \ {0} /\ Idx \subseteq Entry0 /\ minted \in Nat
  BY <1>2 DEF Ids, Idx, Entry0
<1>4. \A e \in Idx : body[e] \in Idx
  BY <1>1, <1>3 DEF MessagesOK, Idx
<1>5. \A u \in Users : op[u] \in OpType
  BY <1>1 DEF TypeOK, OpType
<1> QED BY <1>1, <1>3, <1>4, <1>5 DEF TypeOK, Idx

(* Making an entry, for a message that was there or that is the entry's    *)
(* own.                                                                    *)
Makes(m) ==
    /\ minted' = minted + 1 /\ minted' \in Entry0 /\ minted <= minted'
    /\ minted' \in Ids /\ minted' \notin Idx /\ 1..minted' = Idx \cup {minted'}
    /\ body' \in [Ids -> Ids] /\ body'[minted'] = m
    /\ \A e \in Ids \ {minted'} : body'[e] = body[e]
    /\ \A e \in Idx : body'[e] = body[e]
    /\ \A e \in 1..minted' : body'[e] \in 1..e
    /\ \A e \in Ids \ 1..minted' : body'[e] = e
    /\ provider = "acp" => \A e \in Ids : body'[e] = e
    /\ queued' = queued \cup {minted'}
    /\ queued' \subseteq 1..minted'
    /\ \A e \in Idx : e \in queued' => e \in queued
    /\ \A s \in Seq(Idx) : s \in Seq(1..minted')

LEMMA EnqueueFacts ==
    ASSUME Shape, NEW m \in Nat, m = minted + 1 \/ (m \in Idx /\ provider = "native"), Enqueue(m)
    PROVE  Makes(m)
<1>0. TypeOK /\ MessagesOK /\ minted \in Nat /\ queued \subseteq Idx
  BY ShapeFacts
<1>1. minted' = minted + 1 /\ minted' <= Entries /\ Entries \in Nat /\ queued' = queued \cup {minted'}
  BY <1>0, BoundsAssumption DEF Enqueue, TypeOK, Entry0
<1>2. minted' \in Ids /\ minted' \notin Idx /\ 1..minted' = Idx \cup {minted'} /\ minted' \in Entry0
  BY <1>0, <1>1 DEF Ids, Idx, Entry0
<1>3. m \in Ids /\ m \in 1..minted'
  BY <1>0, <1>1, <1>2 DEF Ids, Idx
<1>4. body' \in [Ids -> Ids] /\ body'[minted'] = m /\ \A e \in Ids \ {minted'} : body'[e] = body[e]
  BY <1>0, <1>1, <1>2, <1>3 DEF Enqueue, TypeOK
<1>5. \A e \in Idx : e \in Ids \ {minted'}
  BY <1>0, <1>1, <1>2 DEF Ids, Idx
<1>6. \A e \in Ids \ 1..minted' : e \in Ids \ Idx /\ e \in Ids \ {minted'}
  BY <1>2
<1>7. provider = "acp" => \A e \in Ids : body'[e] = e
  BY <1>0, <1>1, <1>4 DEF MessagesOK
<1>8. \A s \in Seq(Idx) : s \in Seq(1..minted')
  BY <1>2, SeqMonotonic
<1> QED BY <1>0, <1>1, <1>2, <1>3, <1>4, <1>5, <1>6, <1>7, <1>8 DEF MessagesOK, Makes

LEMMA UserCallShape ==
    ASSUME Shape, NEW u \in Users, UserCall(u)
    PROVE  Shape'
<1>0. /\ TypeOK /\ minted \in Nat /\ Idx \subseteq Entry0 /\ 0 \in Entry0
      /\ queued \subseteq Idx /\ wakes \in Seq(Idx) /\ returned \subseteq Idx /\ doubled \subseteq Ids
  BY ShapeFacts, EntriesFact DEF MessagesOK, TypeOK
<1>1. CASE QueueInput(u)
  <2> DEFINE o == [at |-> "schedule", entry |-> minted + 1, copy |-> 0]
  <2>1. Enqueue(minted + 1) /\ Move(u, o) /\ UserFrame /\ UNCHANGED <<wakes, returned, doubled>>
    BY <1>1 DEF QueueInput
  <2>2. PICK m \in Nat : m = minted + 1
    BY <1>0
  <2>m. Makes(m)
    <3>1. Enqueue(m)
      BY <2>1, <2>2 DEF Enqueue
    <3> QED BY <2>2, <3>1, EnqueueFacts
  <2>3. o \in OpType /\ o.at = "schedule" /\ o.entry \in 1..minted'
    <3>1. minted + 1 \in Entry0 /\ minted + 1 \in 1..minted' /\ "schedule" \in Ats
      BY <1>0, <2>m DEF Ats, Makes
    <3> QED BY <1>0, <3>1, OpTyped
  <2>4. PICK c \in OpType : c = o
    BY <2>3
  <2>5. Move(u, c)
    BY <2>1, <2>4 DEF Move
  <2> HIDE DEF o, UserFrame, Enqueue
  <2> QED BY <1>0, <2>1, <2>m, <2>3, <2>4, <2>5, CallShape DEF Makes
<1>2. ASSUME NEW e \in queued, NEW a \in {"drop", "copy"},
             Move(u, [at |-> a, entry |-> e, copy |-> 0]), UserFrame,
             UNCHANGED <<minted, body, queued, wakes, returned, doubled>>,
             a = "copy" => provider = "native"
      PROVE  Shape'
  <2> DEFINE o == [at |-> a, entry |-> e, copy |-> 0]
  <2>1. o \in OpType /\ o.at = a /\ o.entry \in Idx
    BY <1>0, <1>2, OpTyped DEF Ats
  <2>2. Move(u, o)
    BY <1>2
  <2> HIDE DEF o
  <2> QED BY <1>0, <1>2, <2>1, <2>2, PlainCallShape
<1>3. CASE DropLookup(u)
  BY <1>2, <1>3 DEF DropLookup
<1>4. CASE SteerLookup(u)
  BY <1>2, <1>4 DEF SteerLookup
<1> QED BY <1>1, <1>3, <1>4 DEF UserCall

LEMMA UserStepShape ==
    ASSUME Shape, NEW u \in Users, UserStep(u)
    PROVE  Shape'
<1>0. /\ TypeOK /\ CallsOK /\ minted \in Nat /\ Idx \subseteq Entry0 /\ 0 \in Entry0
      /\ queued \subseteq Idx /\ wakes \in Seq(Idx) /\ returned \subseteq Idx /\ doubled \subseteq Ids
      /\ Idx \subseteq Ids /\ \A e \in Idx : body[e] \in Idx
  BY ShapeFacts, EntriesFact DEF MessagesOK, TypeOK
<1>a. /\ op[u] \in OpType /\ op[u].entry \in Entry0 /\ op[u].copy \in Entry0
      /\ op[u].at # "idle" => op[u].entry \in Idx
      /\ op[u].at \in {"cancel", "undo", "untake"} =>
            /\ op[u].copy \in Idx /\ op[u].entry < op[u].copy /\ body[op[u].copy] = body[op[u].entry]
      /\ op[u].at \in {"copy", "cancel", "undo", "untake"} => provider = "native"
      /\ op[u].at \in {"take", "untake"} => op[u].entry \notin queued
  BY <1>0, ShapeFacts, OpFields DEF CallsOK, Calling, Ats
<1>b. ASSUME NEW w \in Ats
      PROVE  [op[u] EXCEPT !.at = w] = [at |-> w, entry |-> op[u].entry, copy |-> op[u].copy]
  BY <1>a, OpFields
<1>n. NoOp \in OpType /\ NoOp.at = "idle"
  BY <1>0 DEF NoOp, OpType
<1>1. CASE ScheduleWake(u)
  <2>1. /\ Move(u, NoOp) /\ UserFrame /\ UNCHANGED <<minted, body, queued, returned, doubled>>
        /\ op[u].entry \in Idx /\ wakes' = Append(wakes, op[u].entry)
    BY <1>1, <1>a DEF ScheduleWake, At, Schedule
  <2>2. wakes' \in Seq(Idx)
    BY <1>0, <2>1, AppendKeeps
  <2> HIDE DEF NoOp, UserFrame
  <2> QED BY <1>0, <1>n, <2>1, <2>2, PlainCallShape
<1>2. CASE DropCancel(u)
  <2>1. UserFrame /\ UNCHANGED <<minted, body, wakes, returned, doubled>> /\ op[u].at = "drop"
    BY <1>2 DEF DropCancel, At
  <2>2. CASE Queued(op[u].entry) /\ Dequeue(op[u].entry) /\ Move(u, [op[u] EXCEPT !.at = "take"])
    <3>1. PICK o : o = [at |-> "take", entry |-> op[u].entry, copy |-> op[u].copy]
      OBVIOUS
    <3>2. o \in OpType /\ o.at = "take" /\ o.entry = op[u].entry
      BY <1>a, <3>1, OpTyped DEF Ats
    <3>3. Move(u, o)
      BY <1>b, <2>2, <3>1 DEF Move, Ats
    <3>4. queued' \subseteq queued /\ o.entry \notin queued'
      BY <2>2, <3>2 DEF Dequeue
    <3> HIDE DEF UserFrame
    <3> QED BY <1>0, <1>a, <2>1, <3>2, <3>3, <3>4, PlainCallShape
  <2>3. CASE Move(u, NoOp) /\ UNCHANGED queued
    BY <1>0, <1>n, <2>1, <2>3, PlainCallShape
  <2> QED BY <1>2, <2>2, <2>3 DEF DropCancel
<1>3. CASE DropTake(u)
  <2>1. /\ Move(u, NoOp) /\ UserFrame /\ UNCHANGED <<minted, body, queued, doubled>>
        /\ op[u].entry \in Idx /\ returned' = returned \cup {body[op[u].entry]}
    BY <1>3, <1>a DEF DropTake, At
  <2>2. wakes' \in Seq(Idx)
    <3>1. PICK e : e = op[u].entry
      OBVIOUS
    <3>2. TakePending(e)
      BY <1>3, <3>1 DEF DropTake, TakePending
    <3> QED BY <1>0, <3>2, TakePendingKeeps
  <2>3. returned' \subseteq Idx
    BY <1>0, <2>1
  <2> HIDE DEF NoOp, UserFrame
  <2> QED BY <1>0, <1>n, <2>1, <2>2, <2>3, PlainCallShape
<1>4. CASE SteerCopy(u)
  <2> DEFINE e == op[u].entry
  <2>1. /\ UserFrame /\ UNCHANGED <<wakes, returned, doubled>> /\ op[u].at = "copy"
        /\ e \in Idx /\ provider = "native"
    BY <1>4, <1>a DEF SteerCopy, At
  <2>2. PICK m \in Nat : m = body[e] /\ m \in Idx
    BY <1>0, <2>1 DEF Idx
  <2>3. Makes(m)
    <3>1. Enqueue(m)
      BY <1>4, <2>2 DEF SteerCopy, Enqueue
    <3> QED BY <2>1, <2>2, <3>1, EnqueueFacts
  <2>4. PICK o : o = [at |-> "cancel", entry |-> e, copy |-> minted + 1]
    OBVIOUS
  <2>5. o \in OpType /\ o.at = "cancel" /\ o.entry = e /\ o.copy = minted'
    <3>1. minted' = minted + 1 /\ minted' \in Entry0
      BY <2>3 DEF Makes
    <3> QED BY <1>a, <2>4, <3>1, OpTyped DEF Ats
  <2>6. Move(u, o)
    BY <1>4, <2>4 DEF SteerCopy, Move
  <2>7. o.entry \in 1..minted' /\ o.copy \in 1..minted' /\ o.entry < o.copy
        /\ body'[o.copy] = body'[o.entry]
    <3>1. 1..minted' = Idx \cup {minted'} /\ minted' = minted + 1 /\ body'[minted'] = m
          /\ body'[e] = body[e]
      BY <2>1, <2>3 DEF Makes
    <3>2. e <= minted /\ e \in Nat
      BY <1>0, <2>1 DEF Idx
    <3> QED BY <1>0, <2>1, <2>2, <2>5, <3>1, <3>2
  <2>8. \A v \in Users \ {u} : Calling(v, {"cancel", "undo"}) => op[v].copy # o.copy
    BY <1>0, <2>3, <2>5 DEF CallsOK, Calling, Makes
  <2> HIDE DEF UserFrame, e, Idx
  <2> QED BY <1>0, <2>1, <2>3, <2>5, <2>6, <2>7, <2>8, CallShape DEF Makes
<1>5. CASE SteerCancel(u)
  <2>1. UserFrame /\ UNCHANGED <<minted, body, wakes, returned, doubled>> /\ op[u].at = "cancel"
    BY <1>5 DEF SteerCancel, At
  <2>2. PICK w \in {"untake", "undo"} :
          /\ Move(u, [op[u] EXCEPT !.at = w])
          /\ w = "untake" => Dequeue(op[u].entry)
          /\ w = "undo" => UNCHANGED queued
    BY <1>5 DEF SteerCancel
  <2>3. PICK o : o = [at |-> w, entry |-> op[u].entry, copy |-> op[u].copy]
    OBVIOUS
  <2>4. o \in OpType /\ o.at = w /\ o.entry = op[u].entry /\ o.copy = op[u].copy
    BY <1>a, <2>3, OpTyped DEF Ats
  <2>5. Move(u, o)
    BY <1>b, <2>2, <2>3 DEF Move, Ats
  <2>6. queued' \subseteq queued /\ (w = "untake" => o.entry \notin queued')
    BY <2>2, <2>4 DEF Dequeue
  <2> HIDE DEF UserFrame
  <2> QED BY <1>0, <1>a, <2>1, <2>4, <2>5, <2>6, PlainCallShape DEF Calling
<1>6. CASE SteerUndo(u)
  <2>1. /\ Move(u, NoOp) /\ UserFrame /\ UNCHANGED <<minted, body, wakes, returned>>
        /\ op[u].copy \in Idx /\ queued' \subseteq queued
        /\ doubled' \subseteq doubled \cup {body[op[u].copy]}
    BY <1>6, <1>a DEF SteerUndo, At, Dequeue
  <2>2. doubled' \subseteq Ids
    BY <1>0, <2>1
  <2> HIDE DEF NoOp, UserFrame
  <2> QED BY <1>0, <1>n, <2>1, <2>2, PlainCallShape
<1>7. CASE SteerTake(u)
  <2>1. /\ UserFrame /\ UNCHANGED <<minted, body, queued, returned, doubled>>
        /\ op[u].copy \in Idx
    BY <1>7, <1>a DEF SteerTake, At
  <2>2. wakes' \in Seq(Idx)
    <3>1. PICK e : e = op[u].entry
      OBVIOUS
    <3>2. TakePending(e)
      BY <1>7, <3>1 DEF SteerTake, TakePending
    <3> QED BY <1>0, <3>2, TakePendingKeeps
  <2>3. PICK o : o = [at |-> "schedule", entry |-> op[u].copy, copy |-> 0]
    OBVIOUS
  <2>4. o \in OpType /\ o.at = "schedule" /\ o.entry = op[u].copy
    BY <1>0, <1>a, <2>3, OpTyped DEF Ats
  <2>5. Move(u, o)
    BY <1>7, <2>3 DEF SteerTake, Move
  <2> HIDE DEF UserFrame
  <2> QED BY <1>0, <2>1, <2>2, <2>4, <2>5, PlainCallShape
<1> QED BY <1>1, <1>2, <1>3, <1>4, <1>5, <1>6, <1>7 DEF UserStep

LEMMA PromptShape ==
    ASSUME Shape, Prompt \/ PromptNative \/ PromptAcp
    PROVE  Shape'
<1>0. /\ TypeOK /\ CallsOK /\ CopiesDistinct /\ DriverOK /\ MessagesOK /\ minted \in Nat
      /\ queued \subseteq Idx /\ wakes \in Seq(Idx) /\ batch \in Seq(Idx) /\ Idx \subseteq Ids
      /\ \A e \in Idx : body[e] \in Idx
  BY ShapeFacts
<1>1. CASE Prompt
  <2>1. /\ UNCHANGED <<provider, minted, body, written, wakes, op, batch, item, recorder, pending, held,
                       given, returned, orphaned, doubled>>
        /\ queued' \subseteq queued /\ lost' \subseteq lost \cup Bodies(queued)
        /\ holder = "none" /\ stopping' = FALSE /\ runOpen' = FALSE
        /\ holder' = "turn" /\ pc' = "prompt"
    BY <1>1 DEF Prompt, Reconciled
  <2>2. Bodies(queued) \subseteq Ids
    BY <1>0 DEF Bodies
  <2>3. DriverOK'
    BY <1>0, <2>1 DEF DriverOK, NativePc, AcpPc, Idx, TypeOK
  <2>4. orphaned' \cup doubled' \cup lost' \subseteq Ids
    BY <1>0, <2>1, <2>2 DEF TypeOK
  <2> QED BY <1>0, <2>1, <2>3, <2>4, DriverShape DEF TypeOK, MessagesOK
<1>3. CASE PromptNative
  <2>1. /\ UNCHANGED <<provider, minted, body, queued, written, wakes, op, batch, item, pending, held,
                       stopping, given, returned, orphaned, doubled, lost, holder>>
        /\ runOpen' = TRUE /\ recorder' = TRUE /\ pc = "prompt" /\ pc' = "running"
        /\ provider = "native" /\ holder # "none"
    BY <1>3 DEF PromptNative, Driving, GoTo, DriverFrame
  <2>2. DriverOK'
    BY <1>0, <2>1 DEF DriverOK, NativePc, AcpPc, Idx, TypeOK
  <2> QED BY <1>0, <2>1, <2>2, DriverShape DEF TypeOK, MessagesOK
<1>2. CASE PromptAcp
  <2>1. /\ UNCHANGED <<provider, runOpen, written, op, batch, recorder, stopping, pending, held, given,
                       returned, orphaned, doubled, lost, holder>>
        /\ provider = "acp" /\ holder # "none" /\ pc = "prompt" /\ pc' = "wait"
    BY <1>2 DEF PromptAcp, Driving, GoTo, DriverFrame, memory
  <2>2. CASE UNCHANGED <<minted, body, queued, wakes>> /\ item' = 0
    <3>1. DriverOK'
      BY <1>0, <2>1, <2>2 DEF DriverOK, NativePc, AcpPc, Idx, TypeOK
    <3> QED BY <1>0, <2>1, <2>2, <3>1, DriverShape DEF TypeOK, MessagesOK
  <2>3. CASE Enqueue(minted + 1) /\ Schedule(minted + 1) /\ item' = minted + 1
    <3>1. PICK m \in Nat : m = minted + 1
      BY <1>0
    <3>2. Enqueue(m)
      BY <2>3, <3>1 DEF Enqueue
    <3>3. Makes(m)
      BY <3>1, <3>2, EnqueueFacts
    <3>4. wakes' \in Seq(1..minted') /\ batch' \in Seq(1..minted')
      <4>1. wakes \in Seq(1..minted') /\ batch \in Seq(1..minted') /\ minted' = m /\ m \in 1..minted'
        BY <1>0, <3>1, <3>3 DEF Makes
      <4>2. wakes' = Append(wakes, m)
        BY <2>3, <3>1 DEF Schedule
      <4> QED BY <2>1, <4>1, <4>2, AppendKeeps
    <3>5. TypeOK'
      <4>1. item' \in Entry0 /\ minted' \in Entry0 /\ body' \in [Ids -> Ids] /\ queued' \subseteq 1..minted'
        BY <2>3, <3>3 DEF Makes
      <4>2. held' \subseteq 1..minted'
        BY <1>0, <2>1, <3>3 DEF TypeOK, Makes, Idx
      <4> QED BY <1>0, <2>1, <3>4, <4>1, <4>2 DEF TypeOK
    <3>6. CallsOK' /\ CopiesDistinct'
      <4>1. \A u \in Users :
              /\ op[u].at # "idle" => op[u].entry \in 1..minted'
              /\ ~Calling(u, {"copy", "cancel", "undo", "untake"})
              /\ Calling(u, {"take", "untake"}) => op[u].entry \notin queued'
        BY <1>0, <2>1, <3>3 DEF CallsOK, Makes, Calling
      <4> QED BY <2>1, <4>1 DEF CallsOK, CopiesDistinct, Calling, Idx
    <3>7. DriverOK'
      BY <1>0, <2>1, <2>3, <3>3 DEF DriverOK, NativePc, AcpPc, Idx, Makes
    <3>8. MessagesOK'
      BY <1>0, <2>1, <3>3 DEF MessagesOK, Idx, Makes
    <3> QED BY <3>5, <3>6, <3>7, <3>8 DEF Shape
  <2> QED BY <1>2, <2>2, <2>3 DEF PromptAcp
<1> QED BY <1>1, <1>2, <1>3

LEMMA ExecutorShape ==
    ASSUME Shape, Supervise \/ DriverStep
    PROVE  Shape'
<1>0. /\ TypeOK /\ DriverOK /\ MessagesOK /\ minted \in Nat
      /\ queued \subseteq Idx /\ wakes \in Seq(Idx) /\ batch \in Seq(Idx) /\ Idx \subseteq Ids
      /\ <<>> \in Seq(Idx) /\ \A e \in Idx : body[e] \in Idx
  BY ShapeFacts, EmptySeq
<1>t. /\ wakes # <<>> => /\ Tail(wakes) \in Seq(Idx) /\ Head(wakes) \in Idx
                         /\ <<Head(wakes)>> \in Seq(Idx)
      /\ batch # <<>> => Tail(batch) \in Seq(Idx) /\ Head(batch) \in Idx
  BY <1>0, TailKeeps
<1> DEFINE Frame ==
             /\ UNCHANGED <<provider, minted, body, returned, op, doubled, stopping, lost>>
             /\ orphaned' \subseteq Ids
             /\ queued' \subseteq queued /\ runOpen' \in BOOLEAN /\ written' \subseteq Ids
             /\ wakes' \in Seq(Idx) /\ batch' \in Seq(Idx)
             /\ holder' \in {"none", "turn", "sup"} /\ (holder' = "none") = (pc' = "idle")
             /\ recorder' \in BOOLEAN /\ pending' \in BOOLEAN
             /\ given' \in [Ids -> 0..2] /\ \A e \in Ids \ Idx : given'[e] = 0
<1>f. ASSUME Frame, DriverOK' PROVE Shape'
  BY <1>0, <1>f, DriverShape DEF TypeOK
<1> USE DEF DriverFrame, memory, durable, Driving, GoTo, Release
<1>1. CASE Supervise
  <2>1. Frame
    BY <1>0, <1>t, <1>1 DEF Supervise, TypeOK, MessagesOK
  <2>2. DriverOK'
    BY <1>0, <1>t, <1>1 DEF Supervise, DriverOK, NativePc, AcpPc, Idx, TypeOK
  <2> QED BY <1>f, <2>1, <2>2
<1>2. CASE Drain
  <2>1. Frame
    BY <1>0, <1>t, <1>2 DEF Drain, TypeOK, MessagesOK
  <2>2. DriverOK'
    BY <1>0, <1>t, <1>2 DEF Drain, DriverOK, NativePc, AcpPc, Idx
  <2> QED BY <1>f, <2>1, <2>2
<1>3. CASE Consume
  <2>1. Frame
    BY <1>0, <1>t, <1>3 DEF Consume, Queued, Dequeue, TypeOK, MessagesOK
  <2>2. DriverOK'
    <3>1. held' = held /\ held \subseteq Idx \ queued' /\ minted' = minted /\ provider' = provider
      BY <1>0, <1>3 DEF Consume, Dequeue, DriverOK
    <3>2. item' \in 0..minted /\ (pc' \in {"write", "give"} => item' \notin queued' /\ item' \notin held)
      <4>1. CASE Queued(Head(batch)) /\ Dequeue(Head(batch)) /\ item' = Head(batch)
        <5>1. Head(batch) \in Idx /\ Head(batch) \notin held /\ Head(batch) \notin queued'
          BY <1>0, <1>t, <1>3, <4>1 DEF Consume, Queued, Dequeue, DriverOK
        <5> QED BY <1>0, <4>1, <5>1 DEF Idx
      <4>2. CASE UNCHANGED item /\ pc' \in {"drain", "consume"}
        BY <1>0, <4>2 DEF DriverOK
      <4> QED BY <1>3, <4>1, <4>2 DEF Consume
    <3>3. pc' \in IF provider = "native" THEN NativePc ELSE AcpPc
      BY <1>0, <1>3 DEF Consume, DriverOK, NativePc, AcpPc
    <3>4. pc' \in {"write", "give", "settle", "lookup"} => item' \in Idx
      BY <1>0, <1>t, <1>3 DEF Consume, Queued, DriverOK, Idx
    <3> QED BY <1>0, <1>3, <3>1, <3>2, <3>3, <3>4 DEF Consume, DriverOK, Idx
  <2> QED BY <1>f, <2>1, <2>2
<1>15. CASE ConsumeFails
  <2>1. Frame
    BY <1>0, <1>t, <1>15 DEF ConsumeFails, TypeOK, MessagesOK
  <2>2. DriverOK'
    BY <1>0, <1>t, <1>15 DEF ConsumeFails, DriverOK, NativePc, AcpPc, Idx
  <2> QED BY <1>f, <2>1, <2>2
<1>16. CASE WriteFails
  <2>1. Frame
    <3>1. body[item] \in Ids
      BY <1>0, <1>16 DEF WriteFails, DriverOK
    <3> QED BY <1>0, <1>16, <3>1 DEF WriteFails, TypeOK, MessagesOK
  <2>2. DriverOK'
    BY <1>0, <1>t, <1>16 DEF WriteFails, DriverOK, NativePc, AcpPc, Idx
  <2> QED BY <1>f, <2>1, <2>2
<1>17. CASE TakeHeld
  <2>1. Frame
    BY <1>0, <1>t, <1>17 DEF TakeHeld, TypeOK, MessagesOK
  <2>2. DriverOK'
    BY <1>0, <1>t, <1>17 DEF TakeHeld, DriverOK, NativePc, AcpPc, Idx
  <2> QED BY <1>f, <2>1, <2>2
<1>4. CASE Write
  <2>1. Frame
    <3>1. body[item] \in Ids
      BY <1>0, <1>4 DEF Write, DriverOK
    <3> QED BY <1>0, <1>4, <3>1 DEF Write, TypeOK, MessagesOK
  <2>2. DriverOK'
    BY <1>0, <1>t, <1>4 DEF Write, DriverOK, NativePc, AcpPc, Idx
  <2> QED BY <1>f, <2>1, <2>2
<1>5. CASE RunDone
  <2>1. Frame
    BY <1>0, <1>t, <1>5 DEF RunDone, TypeOK, MessagesOK
  <2>2. DriverOK'
    BY <1>0, <1>t, <1>5 DEF RunDone, DriverOK, NativePc, AcpPc, Idx
  <2> QED BY <1>f, <2>1, <2>2
<1>6. CASE Finish
  <2>1. Frame
    BY <1>0, <1>t, <1>6 DEF Finish, TypeOK, MessagesOK
  <2>2. DriverOK'
    BY <1>0, <1>t, <1>6 DEF Finish, DriverOK, NativePc, AcpPc, Idx
  <2> QED BY <1>f, <2>1, <2>2
<1>7. CASE Peek
  <2>1. Frame
    BY <1>0, <1>t, <1>7 DEF Peek, TypeOK, MessagesOK
  <2>2. DriverOK'
    BY <1>0, <1>t, <1>7 DEF Peek, DriverOK, NativePc, AcpPc, Idx
  <2> QED BY <1>f, <2>1, <2>2
<1>8. CASE Lookup
  <2>1. Frame
    BY <1>0, <1>t, <1>8 DEF Lookup, Queued, TypeOK, MessagesOK
  <2>2. DriverOK'
    BY <1>0, <1>t, <1>8 DEF Lookup, Queued, DriverOK, NativePc, AcpPc, Idx
  <2> QED BY <1>f, <2>1, <2>2
<1>9. CASE AwaitPending
  <2>1. Frame
    BY <1>0, <1>t, <1>9 DEF AwaitPending, TypeOK, MessagesOK
  <2>2. DriverOK'
    BY <1>0, <1>t, <1>9 DEF AwaitPending, DriverOK, NativePc, AcpPc, Idx
  <2> QED BY <1>f, <2>1, <2>2
<1>10. CASE Accept
  <2>1. Frame
    <3>1. item # 0 => body[item] \in Ids
      BY <1>0 DEF DriverOK, Idx
    <3> QED BY <1>0, <1>10, <1>t, <3>1 DEF Accept, TypeOK, MessagesOK
  <2>2. DriverOK'
    BY <1>0, <1>t, <1>10 DEF Accept, DriverOK, NativePc, AcpPc, Idx
  <2> QED BY <1>f, <2>1, <2>2
<1>11. CASE Settle
  <2>1. Frame
    BY <1>0, <1>t, <1>11 DEF Settle, Queued, Dequeue, TypeOK, MessagesOK
  <2>2. DriverOK'
    <3>1. held' = held /\ held \subseteq Idx \ queued' /\ minted' = minted /\ provider' = provider
      BY <1>0, <1>11 DEF Settle, Dequeue, DriverOK
    <3>2. item' \in 0..minted /\ (pc' \in {"write", "give"} => item' \notin queued' /\ item' \notin held)
      <4>1. held = {}
        BY <1>0, <1>11, ProvidersAssumption DEF Settle, DriverOK, NativePc, TypeOK
      <4>2. item \in 0..minted /\ 0 \in 0..minted
        BY <1>0 DEF DriverOK
      <4> QED BY <1>11, <4>1, <4>2 DEF Settle, Queued, Dequeue
    <3>3. pc' \in IF provider = "native" THEN NativePc ELSE AcpPc
      BY <1>0, <1>11 DEF Settle, DriverOK, NativePc, AcpPc
    <3>4. pc' \in {"write", "give", "settle", "lookup"} => item' \in Idx
      BY <1>0, <1>t, <1>11 DEF Settle, Queued, DriverOK, Idx
    <3> QED BY <1>0, <1>11, <3>1, <3>2, <3>3, <3>4 DEF Settle, DriverOK, Idx
  <2> QED BY <1>f, <2>1, <2>2
<1>12. CASE TurnDone
  <2>1. Frame
    BY <1>0, <1>t, <1>12 DEF TurnDone, TypeOK, MessagesOK
  <2>2. DriverOK'
    BY <1>0, <1>t, <1>12 DEF TurnDone, DriverOK, NativePc, AcpPc, Idx
  <2> QED BY <1>f, <2>1, <2>2
<1>13. CASE Pop
  <2>1. Frame
    BY <1>0, <1>t, <1>13 DEF Pop, FinishNext, TypeOK, MessagesOK
  <2>2. DriverOK'
    BY <1>0, <1>t, <1>13 DEF Pop, FinishNext, DriverOK, NativePc, AcpPc, Idx
  <2> QED BY <1>f, <2>1, <2>2
<1>14. CASE Give
  <2>1. Frame
    <3>1. body[item] \in Idx
      BY <1>0, <1>14 DEF Give, DriverOK
    <3>2. given' \in [Ids -> 0..2] /\ \A e \in Ids \ Idx : given'[e] = 0
      <4>1. CASE Refused
        BY <1>0, <1>14, <4>1 DEF Give, TypeOK, MessagesOK
      <4>2. CASE given' = [given EXCEPT ![body[item]] = IF @ = 2 THEN 2 ELSE @ + 1]
        <5>1. PICK g \in Idx : g = body[item]
          BY <3>1
        <5>2. g \in Ids /\ given[g] \in 0..2 /\ given \in [Ids -> 0..2]
          BY <1>0, <5>1 DEF TypeOK
        <5>3. PICK n \in 0..2 : n = IF given[g] = 2 THEN 2 ELSE given[g] + 1
          BY <5>2
        <5>4. given' = [given EXCEPT ![g] = n]
          BY <4>2, <5>1, <5>3
        <5> QED BY <1>0, <5>2, <5>4 DEF MessagesOK
      <4> QED BY <1>14, <4>1, <4>2 DEF Give
    <3> QED BY <1>0, <1>14, <3>2 DEF Give, TypeOK
  <2>2. DriverOK'
    BY <1>0, <1>t, <1>14 DEF Give, DriverOK, NativePc, AcpPc, Idx
  <2> QED BY <1>f, <2>1, <2>2
<1> QED BY <1>1, <1>2, <1>3, <1>4, <1>5, <1>6, <1>7, <1>8, <1>9, <1>10, <1>11, <1>12, <1>13, <1>14,
        <1>15, <1>16, <1>17, PromptShape DEF DriverStep, Native, Acp

LEMMA StopShape ==
    ASSUME Shape, Stop
    PROVE  Shape'
<1>0. /\ TypeOK /\ DriverOK /\ MessagesOK /\ wakes \in Seq(Idx) /\ batch \in Seq(Idx)
      /\ Idx \subseteq Ids /\ <<>> \in Seq(Idx)
  BY ShapeFacts, EmptySeq
<1>1. ToSet(batch) \subseteq Ids
  BY <1>0, LenProperties, ElementOfSeq DEF ToSet
<1>2. orphaned' \cup doubled' \cup lost' \subseteq Ids
  BY <1>0, <1>1 DEF Stop, TypeOK
<1>3. /\ UNCHANGED <<provider, minted, body, returned, op, queued, runOpen, written, wakes, recorder,
                     held, given>>
      /\ stopping' \in BOOLEAN /\ pending' \in BOOLEAN /\ batch' \in Seq(Idx)
      /\ holder' \in {"none", "turn", "sup"} /\ (holder' = "none") = (pc' = "idle")
  BY <1>0 DEF Stop, Release, durable, driver, TypeOK
<1>4. DriverOK'
  <2>1. CASE UNCHANGED driver
    BY <1>0, <1>3, <2>1 DEF driver, DriverOK, Idx
  <2>2. CASE Release
    BY <1>0, <1>3, <2>2, ShapeFacts DEF Release, DriverOK, NativePc, AcpPc, Idx
  <2> QED BY <2>1, <2>2 DEF Stop
<1> QED BY <1>0, <1>2, <1>3, <1>4, DriverShape DEF TypeOK, MessagesOK

LEMMA QueueFinite == ASSUME Shape PROVE IsFiniteSet(queued)
<1>1. minted \in Nat /\ queued \subseteq Idx
  BY ShapeFacts
<1>2. IsFiniteSet(Idx)
  BY <1>1, FS_Interval DEF Idx
<1> QED BY <1>1, <1>2, FS_Subset

LEMMA CrashShape ==
    ASSUME Shape, Crash
    PROVE  Shape'
<1>0. /\ TypeOK /\ CallsOK /\ DriverOK /\ MessagesOK /\ <<>> \in Seq(Idx) /\ Idx \subseteq Ids
      /\ queued \subseteq Idx /\ \A e \in Idx : body[e] \in Idx
  BY ShapeFacts, EmptySeq
<1>1. UNCHANGED <<provider, minted, body, queued, runOpen, written, given, returned, orphaned>>
      /\ op' = [u \in Users |-> NoOp] /\ wakes' \in InOrder(queued)
      /\ recorder' = FALSE /\ stopping' = FALSE /\ pending' = FALSE /\ held' = {}
      /\ holder' = "none" /\ pc' = "idle" /\ batch' = <<>> /\ item' = 0
  BY DEF Crash, durable, Release
<1>2. wakes' \in Seq(Idx)
  BY <1>0, <1>1, QueueFinite, InOrderCovers, SeqMonotonic
<1>3. Rerouting \subseteq Ids /\ Dropping \subseteq Ids
  BY <1>0 DEF Rerouting, Dropping, CallsOK, Calling
<1>4. InHand("settle") \subseteq Ids /\ InHand("write") \subseteq Ids /\ InHand("give") \subseteq Ids
  BY <1>0 DEF InHand, DriverOK
<1>5. orphaned' \cup doubled' \cup lost' \subseteq Ids
  <2>1. Bodies(held) \subseteq Ids
    BY <1>0 DEF Bodies, DriverOK
  <2> QED BY <1>0, <1>3, <1>4, <2>1 DEF Crash, TypeOK
<1>6. DriverOK'
  <2>1. minted \in Nat
    BY ShapeFacts
  <2> QED BY <1>0, <1>1, <2>1 DEF DriverOK, NativePc, AcpPc, Idx
<1> QED BY <1>0, <1>1, <1>2, <1>5, <1>6, DriverShape DEF TypeOK, MessagesOK

LEMMA ShapeInit == Init => Shape
<1> SUFFICES ASSUME Init PROVE Shape
  OBVIOUS
<1>1. TypeOK
  <2>1. <<>> \in Seq(1..minted) /\ 0 \in Entry0 /\ NoOp \in OpType
    BY EmptySeq, EntriesFact DEF NoOp, OpType
  <2>2. op \in [Users -> OpType]
    BY <2>1 DEF Init
  <2>3. body \in [Ids -> Ids] /\ given \in [Ids -> 0..2] /\ minted = 0 /\ minted \in Entry0
    BY EntriesFact DEF Init
  <2>4. UNION {returned, orphaned, doubled, lost} \subseteq Ids
    BY DEF Init
  <2> QED BY <2>1, <2>2, <2>3, <2>4 DEF Init, TypeOK, OpType
<1>2. CallsOK /\ CopiesDistinct
  BY DEF Init, CallsOK, CopiesDistinct, Calling, NoOp
<1>3. DriverOK
  BY DEF Init, DriverOK, NativePc, AcpPc
<1>4. MessagesOK
  BY BoundsAssumption DEF Init, MessagesOK, Idx, Ids
<1> QED BY <1>1, <1>2, <1>3, <1>4 DEF Shape

LEMMA ShapeStutter ==
    ASSUME Shape, UNCHANGED vars
    PROVE  Shape'
BY DEF vars, durable, driver, memory, history, Shape, TypeOK, CallsOK, CopiesDistinct, Calling, DriverOK,
       MessagesOK, Idx

LEMMA ShapeStep == Shape /\ [Next]_vars => Shape'
BY UserCallShape, UserStepShape, PromptShape, ExecutorShape, StopShape, CrashShape, ShapeStutter
   DEF Next

-----------------------------------------------------------------------------
(* The wakes.                                                              *)

-----------------------------------------------------------------------------
(* The wakes: with a native agent every queued entry has one, or a call    *)
(* that will make it, or had one in a batch that a Stop dropped.           *)

Owes(u, e) ==
    \/ op[u].at = "schedule" /\ op[u].entry = e
    \/ op[u].at \in {"cancel", "undo", "untake"} /\ op[u].copy = e

AllAnnounced ==
    provider = "native" =>
        \A e \in queued :
            e \in ToSet(wakes) \/ e \in ToSet(batch) \/ e \in orphaned \/ \E u \in Users : Owes(u, e)

LEMMA AnnouncedMeans == AllAnnounced => NativeWakeKept
BY DEF AllAnnounced, Owes, NativeWakeKept, WakeKept, Announced, At

(* A step of a call: the others still owe what they owed.                  *)
LEMMA CallAnnounces ==
    ASSUME Shape, AllAnnounced, NEW u \in Users, NEW o \in OpType, Move(u, o), UserFrame,
           \A e \in queued' \cap queued : e \in ToSet(wakes) => e \in ToSet(wakes'),
           \A e \in queued' :
               \/ e \in queued /\ ~Owes(u, e)
               \/ e \in ToSet(wakes')
               \/ o.at = "schedule" /\ o.entry = e
               \/ o.at \in {"cancel", "undo", "untake"} /\ o.copy = e
    PROVE  AllAnnounced'
<1>1. op'[u] = o /\ \A v \in Users \ {u} : op'[v] = op[v]
  BY MoveFacts DEF Shape
<1>2. UNCHANGED <<provider, batch, orphaned>>
  BY DEF UserFrame, driver
<1> SUFFICES ASSUME provider = "native", NEW e \in queued'
             PROVE  e \in ToSet(wakes') \/ e \in ToSet(batch) \/ e \in orphaned
                    \/ \E v \in Users : Owes(v, e)'
  BY <1>2 DEF AllAnnounced, Owes
<1>3. CASE e \in queued /\ ~Owes(u, e)
  <2>1. e \in ToSet(wakes) \/ e \in ToSet(batch) \/ e \in orphaned
        \/ \E v \in Users \ {u} : Owes(v, e)
    BY <1>3 DEF AllAnnounced
  <2>2. \A v \in Users \ {u} : Owes(v, e) => Owes(v, e)'
    BY <1>1 DEF Owes
  <2> QED BY <1>3, <2>1, <2>2
<1>4. CASE e \in ToSet(wakes')
  BY <1>4
<1>5. CASE \/ o.at = "schedule" /\ o.entry = e
           \/ o.at \in {"cancel", "undo", "untake"} /\ o.copy = e
  BY <1>1, <1>5 DEF Owes
<1> QED BY <1>3, <1>4, <1>5

LEMMA UserCallAnnounces ==
    ASSUME Shape, AllAnnounced, NEW u \in Users, UserCall(u)
    PROVE  AllAnnounced'
<1>0. /\ TypeOK /\ minted \in Nat /\ Idx \subseteq Entry0 /\ 0 \in Entry0 /\ queued \subseteq Idx
  BY ShapeFacts, EntriesFact
<1>i. op[u].at = "idle" => \A e : ~Owes(u, e)
  BY DEF Owes
<1>1. CASE QueueInput(u)
  <2>1. PICK o : o = [at |-> "schedule", entry |-> minted + 1, copy |-> 0]
    OBVIOUS
  <2>2. /\ Move(u, o) /\ UserFrame /\ UNCHANGED wakes /\ queued' = queued \cup {minted + 1}
        /\ minted + 1 \in Entry0 /\ op[u].at = "idle"
    BY <1>0, <1>1, <2>1, BoundsAssumption DEF QueueInput, Move, Enqueue, Entry0, At
  <2>3. o \in OpType /\ o.at = "schedule" /\ o.entry = minted + 1
    BY <1>0, <2>1, <2>2, OpTyped DEF Ats
  <2> HIDE DEF UserFrame
  <2> QED BY <1>i, <2>2, <2>3, CallAnnounces
<1>2. ASSUME NEW e \in queued, NEW a \in {"drop", "copy"}, op[u].at = "idle",
             Move(u, [at |-> a, entry |-> e, copy |-> 0]), UserFrame,
             UNCHANGED <<queued, wakes>>
      PROVE  AllAnnounced'
  <2>1. PICK o : o = [at |-> a, entry |-> e, copy |-> 0]
    OBVIOUS
  <2>2. Move(u, o) /\ o \in OpType
    BY <1>0, <1>2, <2>1, OpTyped DEF Ats, Move
  <2> HIDE DEF UserFrame
  <2> QED BY <1>i, <1>2, <2>2, CallAnnounces
<1>3. CASE DropLookup(u)
  BY <1>2, <1>3 DEF DropLookup, At
<1>4. CASE SteerLookup(u)
  BY <1>2, <1>4 DEF SteerLookup, At
<1> QED BY <1>1, <1>3, <1>4 DEF UserCall

LEMMA UserStepAnnounces ==
    ASSUME Shape, AllAnnounced, NEW u \in Users, UserStep(u)
    PROVE  AllAnnounced'
<1>0. /\ CallsOK /\ minted \in Nat /\ Idx \subseteq Entry0 /\ 0 \in Entry0
      /\ queued \subseteq Idx /\ wakes \in Seq(Idx) /\ op[u] \in OpType
      /\ op[u].entry \in Entry0 /\ op[u].copy \in Entry0
  BY ShapeFacts, EntriesFact, OpFields DEF Ats
<1>b. ASSUME NEW w \in Ats
      PROVE  [op[u] EXCEPT !.at = w] = [at |-> w, entry |-> op[u].entry, copy |-> op[u].copy]
  BY <1>0, OpFields
<1>n. NoOp \in OpType /\ NoOp.at = "idle"
  BY <1>0 DEF NoOp, OpType
<1> HIDE DEF NoOp
<1>1. CASE ScheduleWake(u)
  <2>1. /\ Move(u, NoOp) /\ UserFrame /\ UNCHANGED queued /\ op[u].at = "schedule"
        /\ op[u].entry \in Idx /\ wakes' = Append(wakes, op[u].entry)
    BY <1>0, <1>1 DEF ScheduleWake, At, Schedule, CallsOK
  <2>2. ToSet(wakes) \cup {op[u].entry} \subseteq ToSet(wakes')
    BY <1>0, <2>1, AppendKeeps
  <2>3. \A e : Owes(u, e) => e = op[u].entry
    BY <2>1 DEF Owes
  <2> HIDE DEF UserFrame
  <2> QED BY <1>0, <1>n, <2>1, <2>2, <2>3, CallAnnounces
<1>2. CASE DropCancel(u)
  <2>1. /\ UserFrame /\ UNCHANGED wakes /\ queued' \subseteq queued /\ \A e : ~Owes(u, e)
    BY <1>2 DEF DropCancel, At, Dequeue, Owes
  <2>2. PICK o \in OpType : Move(u, o)
    <3>1. CASE Move(u, NoOp)
      BY <1>n, <3>1
    <3>2. CASE Move(u, [op[u] EXCEPT !.at = "take"])
      <4>1. PICK o : o = [at |-> "take", entry |-> op[u].entry, copy |-> op[u].copy]
        OBVIOUS
      <4>2. o \in OpType
        BY <1>0, <4>1, OpTyped DEF Ats
      <4>3. Move(u, o)
        BY <1>b, <3>2, <4>1 DEF Move, Ats
      <4> QED BY <4>2, <4>3
    <3> QED BY <1>2, <3>1, <3>2 DEF DropCancel
  <2> HIDE DEF UserFrame
  <2> QED BY <2>1, <2>2, CallAnnounces
<1>3. CASE DropTake(u)
  <2>1. /\ Move(u, NoOp) /\ UserFrame /\ UNCHANGED queued /\ \A e : ~Owes(u, e)
        /\ op[u].entry \notin queued
    BY <1>0, <1>3 DEF DropTake, At, Owes, CallsOK, Calling
  <2>2. ToSet(wakes) \ {op[u].entry} \subseteq ToSet(wakes')
    <3>1. PICK e : e = op[u].entry
      OBVIOUS
    <3>2. TakePending(e)
      BY <1>3, <3>1 DEF DropTake, TakePending
    <3> QED BY <1>0, <3>1, <3>2, TakePendingKeeps
  <2> HIDE DEF UserFrame
  <2> QED BY <1>n, <2>1, <2>2, CallAnnounces
<1>4. CASE SteerCopy(u)
  <2>1. /\ UserFrame /\ UNCHANGED wakes /\ queued' = queued \cup {minted + 1}
        /\ minted + 1 \in Entry0 /\ \A e : ~Owes(u, e)
    BY <1>0, <1>4, BoundsAssumption DEF SteerCopy, At, Enqueue, Owes, Entry0
  <2>2. PICK o : o = [at |-> "cancel", entry |-> op[u].entry, copy |-> minted + 1]
    OBVIOUS
  <2>3. Move(u, o) /\ o \in OpType /\ o.at = "cancel" /\ o.copy = minted + 1
    BY <1>0, <1>4, <2>1, <2>2, OpTyped DEF SteerCopy, Move, Ats
  <2> HIDE DEF UserFrame
  <2> QED BY <2>1, <2>3, CallAnnounces
<1>5. CASE SteerCancel(u)
  <2>1. UserFrame /\ UNCHANGED wakes /\ queued' \subseteq queued /\ op[u].at = "cancel"
    BY <1>5 DEF SteerCancel, At, Dequeue
  <2>2. PICK w \in {"untake", "undo"} : Move(u, [op[u] EXCEPT !.at = w])
    BY <1>5 DEF SteerCancel
  <2>3. PICK o : o = [at |-> w, entry |-> op[u].entry, copy |-> op[u].copy]
    OBVIOUS
  <2>4. o \in OpType /\ o.at = w /\ o.copy = op[u].copy
    BY <1>0, <2>3, OpTyped DEF Ats
  <2>5. Move(u, o)
    BY <1>b, <2>2, <2>3 DEF Move, Ats
  <2>6. \A e : Owes(u, e) => e = o.copy
    BY <2>1, <2>4 DEF Owes
  <2> HIDE DEF UserFrame
  <2> QED BY <2>1, <2>4, <2>5, <2>6, CallAnnounces
<1>6. CASE SteerUndo(u)
  <2>1. /\ Move(u, NoOp) /\ UserFrame /\ UNCHANGED wakes
        /\ queued' \subseteq queued \ {op[u].copy} /\ \A e : Owes(u, e) => e = op[u].copy
    BY <1>6 DEF SteerUndo, At, Dequeue, Queued, Owes
  <2> HIDE DEF UserFrame
  <2> QED BY <1>n, <2>1, CallAnnounces
<1>7. CASE SteerTake(u)
  <2>1. /\ UserFrame /\ UNCHANGED queued /\ op[u].entry \notin queued
        /\ \A e : Owes(u, e) => e = op[u].copy
    BY <1>0, <1>7 DEF SteerTake, At, CallsOK, Calling, Owes
  <2>2. ToSet(wakes) \ {op[u].entry} \subseteq ToSet(wakes')
    <3>1. PICK e : e = op[u].entry
      OBVIOUS
    <3>2. TakePending(e)
      BY <1>7, <3>1 DEF SteerTake, TakePending
    <3> QED BY <1>0, <3>1, <3>2, TakePendingKeeps
  <2>3. PICK o : o = [at |-> "schedule", entry |-> op[u].copy, copy |-> 0]
    OBVIOUS
  <2>4. Move(u, o) /\ o \in OpType /\ o.at = "schedule" /\ o.entry = op[u].copy
    BY <1>0, <1>7, <2>3, OpTyped DEF SteerTake, Move, Ats
  <2> HIDE DEF UserFrame
  <2> QED BY <2>1, <2>2, <2>4, CallAnnounces
<1> QED BY <1>1, <1>2, <1>3, <1>4, <1>5, <1>6, <1>7 DEF UserStep

(* The other steps take no wake of a native session but into the batch,    *)
(* and out of the batch only that of the entry at hand.                    *)
LEMMA OthersAnnounce ==
    ASSUME Shape, AllAnnounced,
           Prompt \/ Supervise \/ DriverStep \/ Stop \/ Crash \/ UNCHANGED vars
    PROVE  AllAnnounced'
<1>0. DriverOK /\ wakes \in Seq(Idx) /\ batch \in Seq(Idx)
  BY ShapeFacts
<1>p. provider' = provider
  BY DEF Prompt, PromptNative, PromptAcp, Supervise, DriverStep, Native, Acp, Stop, Crash, vars, Drain, Consume,
         ConsumeFails, Write, WriteFails, TakeHeld, Give, RunDone, Finish, Peek, Lookup, AwaitPending, Accept, Settle, TurnDone, Pop, DriverFrame
<1> SUFFICES ASSUME provider = "native" PROVE AllAnnounced'
  BY <1>p DEF AllAnnounced
<1>f. ASSUME op' = op, queued' \subseteq queued,
             \A e \in queued' :
                 /\ e \in ToSet(wakes) => e \in ToSet(wakes') \cup ToSet(batch')
                 /\ e \in ToSet(batch) => e \in ToSet(batch') \cup orphaned'
                 /\ e \in orphaned => e \in orphaned'
      PROVE  AllAnnounced'
  BY <1>f, <1>p DEF AllAnnounced, Owes
<1>e. \A e : e \notin ToSet(<<>>)
  BY DEF ToSet
<1>1. CASE Prompt \/ PromptNative
  BY <1>1, <1>f DEF Prompt, PromptNative, Reconciled, DriverFrame
<1>2. CASE Supervise
  BY <1>2, <1>f DEF Supervise, DriverFrame, durable
<1>3. CASE Drain
  BY <1>0, <1>3, <1>f, <1>e DEF Drain, Driving, DriverFrame, durable, DriverOK
<1>4. CASE Consume
  <2>1. ToSet(batch) \ {Head(batch)} \subseteq ToSet(batch') /\ Head(batch) \notin queued'
        /\ queued' \subseteq queued
    BY <1>0, <1>4, TailKeeps DEF Consume, Queued, Dequeue
  <2> QED BY <1>4, <1>f, <2>1 DEF Consume, DriverFrame
<1>11. CASE ConsumeFails
  <2>1. ToSet(batch) \ {Head(batch)} \subseteq ToSet(batch')
    BY <1>0, <1>11, TailKeeps DEF ConsumeFails
  <2> QED BY <1>11, <1>f, <2>1 DEF ConsumeFails, durable
<1>5. CASE Write \/ WriteFails \/ TakeHeld \/ RunDone \/ Give
  BY <1>5, <1>f DEF Write, WriteFails, TakeHeld, RunDone, Give, DriverFrame, durable
<1>6. CASE Finish
  BY <1>0, <1>6, <1>f DEF Finish, Driving, Release, DriverFrame, DriverOK
<1>7. CASE Stop
  BY <1>7, <1>f DEF Stop, driver, Release, durable
<1>8. CASE Crash
  <2>1. queued' = queued /\ wakes' \in InOrder(queued)
    BY <1>8 DEF Crash, durable
  <2>2. queued \subseteq ToSet(wakes')
    BY <2>1, QueueFinite, InOrderCovers
  <2> QED BY <2>1, <2>2 DEF AllAnnounced
<1>9. CASE UNCHANGED vars
  BY <1>9, <1>f DEF vars, durable, driver, history
<1>10. ~Acp
  BY <1>0 DEF PromptAcp, Acp, Peek, Lookup, AwaitPending, Accept, Settle, TurnDone, Pop, Driving, DriverOK, NativePc
<1> QED BY <1>1, <1>2, <1>3, <1>4, <1>5, <1>6, <1>7, <1>8, <1>9, <1>10, <1>11
        DEF DriverStep, Native

LEMMA AnnouncedInit == Init => AllAnnounced
BY DEF Init, AllAnnounced

LEMMA AnnouncedStep == Shape /\ AllAnnounced /\ [Next]_vars => AllAnnounced'
BY UserCallAnnounces, UserStepAnnounces, OthersAnnounce DEF Next

-----------------------------------------------------------------------------
(* The accounts: with a native agent, a message is claimed by its entries  *)
(* that can still be run, by the calls that give it back, by the composer  *)
(* that has it back and by the model that got it: once, and once more for  *)
(* every call that is re-routing it.                                       *)

InDriver(e) == (pc \in {"write", "give"} /\ item = e) \/ e \in held
LiveOf(m) == {e \in Idx : (e \in queued \/ InDriver(e)) /\ body[e] = m}
TakersOf(m) == {u \in Users : op[u].at = "take" /\ body[op[u].entry] = m}
ReroutersOf(m) == {u \in Users : Calling(u, {"cancel", "undo"}) /\ body[op[u].copy] = m}
HasBack(m) == IF m \in returned THEN 1 ELSE 0
Claims(m) == Cardinality(LiveOf(m)) + Cardinality(TakersOf(m)) + HasBack(m) + given[m]

PaidFor(m) ==
    /\ IsFiniteSet(TakersOf(m)) /\ IsFiniteSet(ReroutersOf(m))
    /\ m \notin doubled => Claims(m) <= 1 + Cardinality(ReroutersOf(m))

Paid == provider = "native" => \A m \in Ids : PaidFor(m)

LEMMA LiveFinite == ASSUME Shape, NEW m PROVE IsFiniteSet(LiveOf(m))
<1>1. minted \in Nat
  BY ShapeFacts
<1>2. IsFiniteSet(Idx)
  BY <1>1, FS_Interval DEF Idx
<1> QED BY <1>2, FS_Subset DEF LiveOf

LEMMA CountsTyped ==
    ASSUME Shape, NEW m \in Ids, PaidFor(m)
    PROVE  /\ Cardinality(LiveOf(m)) \in Nat /\ Cardinality(TakersOf(m)) \in Nat
           /\ Cardinality(ReroutersOf(m)) \in Nat /\ HasBack(m) \in {0, 1} /\ given[m] \in 0..2
BY LiveFinite, FS_CardinalityType DEF PaidFor, HasBack, Shape, TypeOK

(* A step that adds no claim and ends no re-routing.                       *)
LEMMA StaysPaid ==
    ASSUME Shape, NEW m \in Ids, PaidFor(m),
           LiveOf(m)' \subseteq LiveOf(m), TakersOf(m)' \subseteq TakersOf(m),
           ReroutersOf(m)' = ReroutersOf(m),
           m \in returned' => m \in returned, given'[m] = given[m], m \in doubled => m \in doubled'
    PROVE  PaidFor(m)'
<1>1. /\ IsFiniteSet(TakersOf(m)') /\ Cardinality(TakersOf(m)') <= Cardinality(TakersOf(m))
      /\ Cardinality(LiveOf(m)') <= Cardinality(LiveOf(m))
      /\ IsFiniteSet(LiveOf(m)')
  BY LiveFinite, FS_Subset DEF PaidFor
<1>2. Cardinality(TakersOf(m)') \in Nat /\ Cardinality(LiveOf(m)') \in Nat
  BY <1>1, FS_CardinalityType
<1>3. HasBack(m)' <= HasBack(m) /\ HasBack(m)' \in {0, 1}
  BY DEF HasBack
<1> QED BY <1>1, <1>2, <1>3, CountsTyped DEF PaidFor, Claims

(* What one call's step changes of the claims.                             *)
LEMMA CallSets ==
    ASSUME Shape, NEW u \in Users, NEW o \in OpType, Move(u, o),
           \A e \in Idx : body'[e] = body[e], NEW m
    PROVE  /\ TakersOf(m)' = (TakersOf(m) \ {u})
                              \cup {v \in {u} : o.at = "take" /\ body'[o.entry] = m}
           /\ ReroutersOf(m)' = (ReroutersOf(m) \ {u})
                              \cup {v \in {u} : o.at \in {"cancel", "undo"} /\ body'[o.copy] = m}
<1>0. CallsOK /\ op'[u] = o /\ \A v \in Users \ {u} : op'[v] = op[v]
  BY MoveFacts DEF Shape
<1>1. ASSUME NEW v \in Users, v # u
      PROVE  /\ v \in TakersOf(m)' <=> v \in TakersOf(m)
             /\ v \in ReroutersOf(m)' <=> v \in ReroutersOf(m)
  <2>1. op'[v] = op[v]
    BY <1>0, <1>1
  <2>2. op[v].at = "take" => body'[op[v].entry] = body[op[v].entry]
    BY <1>0 DEF CallsOK
  <2>3. op[v].at \in {"cancel", "undo"} => body'[op[v].copy] = body[op[v].copy]
    BY <1>0 DEF CallsOK, Calling
  <2> QED BY <2>1, <2>2, <2>3 DEF TakersOf, ReroutersOf, Calling
<1>2. /\ u \in TakersOf(m)' <=> o.at = "take" /\ body'[o.entry] = m
      /\ u \in ReroutersOf(m)' <=> o.at \in {"cancel", "undo"} /\ body'[o.copy] = m
  BY <1>0 DEF TakersOf, ReroutersOf, Calling
<1>3. TakersOf(m)' \subseteq Users /\ TakersOf(m) \subseteq Users
      /\ ReroutersOf(m)' \subseteq Users /\ ReroutersOf(m) \subseteq Users
  BY DEF TakersOf, ReroutersOf
<1> QED BY <1>1, <1>2, <1>3

(* What it changes of the entries that can still be run.                   *)
LEMMA CallLive ==
    ASSUME Shape, UserFrame, UNCHANGED <<minted, body>>, queued' \subseteq queued, NEW m
    PROVE  /\ LiveOf(m)' \subseteq LiveOf(m)
           /\ \A e \in queued \ queued' : e \in Idx /\ ~InDriver(e) /\ e \notin LiveOf(m)'
           /\ \A e \in queued \ queued' : body[e] = m => e \in LiveOf(m)
<1>1. UNCHANGED <<pc, item, held>>
  BY DEF UserFrame, driver, memory
<1>2. DriverOK /\ queued \subseteq Idx
  BY ShapeFacts
<1> QED BY <1>1, <1>2 DEF LiveOf, InDriver, Idx, DriverOK

(* A call's step that takes nothing off the queue and neither begins nor   *)
(* ends a claim.                                                           *)
LEMMA PlainCallPaid ==
    ASSUME Shape, Paid, NEW u \in Users, NEW o \in OpType, Move(u, o), UserFrame,
           UNCHANGED <<minted, body, queued, returned, doubled>>,
           o.at # "take",
           Calling(u, {"cancel", "undo"}) <=> o.at \in {"cancel", "undo"},
           o.at \in {"cancel", "undo"} => o.copy = op[u].copy
    PROVE  Paid'
<1>1. provider' = provider /\ given' = given
  BY DEF UserFrame
<1> SUFFICES ASSUME provider = "native", NEW m \in Ids PROVE PaidFor(m)'
  BY <1>1 DEF Paid
<1>2. LiveOf(m)' \subseteq LiveOf(m)
  BY CallLive
<1>3. TakersOf(m)' \subseteq TakersOf(m) /\ ReroutersOf(m)' = ReroutersOf(m)
  <2>1. /\ TakersOf(m)' = (TakersOf(m) \ {u})
                              \cup {v \in {u} : o.at = "take" /\ body'[o.entry] = m}
        /\ ReroutersOf(m)' = (ReroutersOf(m) \ {u})
                              \cup {v \in {u} : o.at \in {"cancel", "undo"} /\ body'[o.copy] = m}
    BY CallSets
  <2>2. u \in ReroutersOf(m) <=> Calling(u, {"cancel", "undo"}) /\ body[op[u].copy] = m
    BY DEF ReroutersOf
  <2> QED BY <2>1, <2>2
<1>4. PaidFor(m)
  BY DEF Paid
<1> HIDE DEF UserFrame
<1> QED BY <1>1, <1>2, <1>3, <1>4, StaysPaid

(* A new entry adds one claim, and the call that copied it one re-routing. *)
LEMMA NewEntryLive ==
    ASSUME Shape, NEW b \in Nat, Makes(b), UserFrame, NEW m
    PROVE  /\ m # b => LiveOf(m)' \subseteq LiveOf(m)
           /\ LiveOf(m)' \subseteq LiveOf(m) \cup {minted'}
<1>1. UNCHANGED <<pc, item, held>> /\ DriverOK
  BY ShapeFacts DEF UserFrame, driver, memory
<1> SUFFICES ASSUME NEW e \in LiveOf(m)'
             PROVE  e \in LiveOf(m) \/ (e = minted' /\ m = b)
  OBVIOUS
<1>2. e \in 1..minted' /\ body'[e] = m /\ (e \in queued' \/ InDriver(e)')
  BY DEF LiveOf, Idx
<1>3. CASE e = minted'
  BY <1>2, <1>3 DEF Makes
<1>4. CASE e # minted'
  <2>1. e \in Idx /\ body[e] = m
    BY <1>2, <1>4 DEF Makes
  <2> QED BY <1>1, <1>2, <1>4, <2>1 DEF LiveOf, InDriver, Makes
<1> QED BY <1>3, <1>4

LEMMA UserCallPaid ==
    ASSUME Shape, Paid, NEW u \in Users, UserCall(u)
    PROVE  Paid'
<1>0. /\ TypeOK /\ CallsOK /\ MessagesOK /\ minted \in Nat /\ Idx \subseteq Entry0 /\ 0 \in Entry0
      /\ queued \subseteq Idx /\ Idx \subseteq Ids /\ \A e \in Idx : body[e] \in Idx
  BY ShapeFacts, EntriesFact
<1>1. CASE QueueInput(u)
  <2>1. PICK b \in Nat : b = minted + 1
    BY <1>0
  <2>2. Makes(b) /\ UserFrame /\ UNCHANGED <<wakes, returned, doubled>> /\ op[u].at = "idle"
    <3>1. Enqueue(b)
      BY <1>1, <2>1 DEF QueueInput, Enqueue
    <3> QED BY <1>1, <2>1, <3>1, EnqueueFacts DEF QueueInput, At
  <2>3. minted' = b /\ b \in Ids /\ b \notin Idx /\ \A e \in Idx : body'[e] = body[e]
    BY <2>1, <2>2 DEF Makes
  <2>4. PICK o : o = [at |-> "schedule", entry |-> minted + 1, copy |-> 0]
    OBVIOUS
  <2>5. Move(u, o) /\ o \in OpType /\ o.at = "schedule"
    <3>1. minted + 1 \in Entry0
      BY <2>2 DEF Makes
    <3> QED BY <1>0, <1>1, <2>4, <3>1, OpTyped DEF Ats, QueueInput, Move
  <2>6. ASSUME NEW m \in Ids PROVE TakersOf(m)' \subseteq TakersOf(m) /\ ReroutersOf(m)' = ReroutersOf(m)
    <3>1. u \notin ReroutersOf(m)
      BY <2>2 DEF ReroutersOf, Calling
    <3>2. /\ TakersOf(m)' = (TakersOf(m) \ {u})
                              \cup {v \in {u} : o.at = "take" /\ body'[o.entry] = m}
          /\ ReroutersOf(m)' = (ReroutersOf(m) \ {u})
                              \cup {v \in {u} : o.at \in {"cancel", "undo"} /\ body'[o.copy] = m}
      BY <2>3, <2>5, CallSets
    <3> QED BY <2>5, <3>1, <3>2
  <2>7. provider' = provider /\ given' = given
    BY <2>2 DEF UserFrame
  <2> SUFFICES ASSUME provider = "native", NEW m \in Ids PROVE PaidFor(m)'
    BY <2>7 DEF Paid
  <2>8. PaidFor(m)
    BY DEF Paid
  <2>9. CASE m # b
    <3>1. LiveOf(m)' \subseteq LiveOf(m)
      BY <2>2, <2>9, NewEntryLive
    <3> HIDE DEF UserFrame
    <3> QED BY <2>2, <2>6, <2>7, <2>8, <3>1, StaysPaid
  <2>10. CASE m = b
    <3>1. LiveOf(m) = {} /\ TakersOf(m) = {}
      BY <1>0, <2>3, <2>10 DEF LiveOf, TakersOf, CallsOK
    <3>2. LiveOf(m)' \subseteq {b}
      BY <2>2, <2>3, <3>1, NewEntryLive
    <3>3. given'[m] = 0 /\ HasBack(m)' = 0
      BY <1>0, <2>2, <2>3, <2>7, <2>10 DEF MessagesOK, HasBack
    <3>4. IsFiniteSet(LiveOf(m)') /\ Cardinality(LiveOf(m)') \in Nat /\ Cardinality(LiveOf(m)') <= 1
      <4>1. IsFiniteSet({b}) /\ Cardinality({b}) = 1
        BY FS_Singleton
      <4>2. IsFiniteSet(LiveOf(m)') /\ Cardinality(LiveOf(m)') <= 1
        BY <3>2, <4>1, FS_Subset
      <4> QED BY <4>2, FS_CardinalityType
    <3>5. TakersOf(m)' = {} /\ IsFiniteSet(TakersOf(m)') /\ Cardinality(TakersOf(m)') = 0
      BY <2>6, <3>1, FS_EmptySet
    <3>6. IsFiniteSet(ReroutersOf(m)') /\ Cardinality(ReroutersOf(m)') \in Nat
      BY <2>6, <2>8, FS_CardinalityType DEF PaidFor
    <3> QED BY <3>3, <3>4, <3>5, <3>6 DEF PaidFor, Claims
  <2> QED BY <2>9, <2>10
<1>2. ASSUME NEW e \in queued, NEW a \in {"drop", "copy"}, op[u].at = "idle",
             Move(u, [at |-> a, entry |-> e, copy |-> 0]), UserFrame,
             UNCHANGED <<minted, body, queued, returned, doubled>>
      PROVE  Paid'
  <2>1. PICK o : o = [at |-> a, entry |-> e, copy |-> 0]
    OBVIOUS
  <2>2. Move(u, o) /\ o \in OpType /\ o.at = a
    BY <1>0, <1>2, <2>1, OpTyped DEF Ats, Move
  <2> HIDE DEF UserFrame
  <2> QED BY <1>2, <2>2, PlainCallPaid DEF Calling
<1>3. CASE DropLookup(u)
  BY <1>2, <1>3 DEF DropLookup, At
<1>4. CASE SteerLookup(u)
  BY <1>2, <1>4 DEF SteerLookup, At
<1> QED BY <1>1, <1>3, <1>4 DEF UserCall

LEMMA MoveAt ==
    ASSUME Shape, NEW u \in Users, NEW w \in Ats, Move(u, [op[u] EXCEPT !.at = w])
    PROVE  \E o \in OpType :
              Move(u, o) /\ o.at = w /\ o.entry = op[u].entry /\ o.copy = op[u].copy
<1>0. op[u] \in OpType /\ op[u].entry \in Entry0 /\ op[u].copy \in Entry0
  BY ShapeFacts, OpFields
<1>1. [op[u] EXCEPT !.at = w] = [at |-> w, entry |-> op[u].entry, copy |-> op[u].copy]
  BY <1>0, OpFields
<1>2. PICK o : o = [at |-> w, entry |-> op[u].entry, copy |-> op[u].copy]
  OBVIOUS
<1>3. o \in OpType /\ Move(u, o)
  BY <1>0, <1>1, <1>2, OpTyped DEF Move
<1> QED BY <1>2, <1>3

(* An entry that leaves the queue gives up its claim.                      *)
LEMMA LiveSpent ==
    ASSUME Shape, UserFrame, UNCHANGED <<minted, body>>, NEW e \in queued, queued' = queued \ {e}
    PROVE  /\ Cardinality(LiveOf(body[e])') \in Nat
           /\ Cardinality(LiveOf(body[e])') <= Cardinality(LiveOf(body[e])) - 1
<1> DEFINE m == body[e]
<1>1. LiveOf(m)' \subseteq LiveOf(m) \ {e} /\ e \in LiveOf(m)
  BY CallLive
<1>2. IsFiniteSet(LiveOf(m)) /\ Cardinality(LiveOf(m)) \in Nat
  BY LiveFinite, FS_CardinalityType
<1>3. IsFiniteSet(LiveOf(m) \ {e}) /\ Cardinality(LiveOf(m) \ {e}) = Cardinality(LiveOf(m)) - 1
  BY <1>1, <1>2, FS_RemoveElement
<1> QED BY <1>1, <1>3, FS_Subset, FS_CardinalityType

LEMMA UserStepPaid ==
    ASSUME Shape, Paid, NEW u \in Users, UserStep(u)
    PROVE  Paid'
<1>0. /\ TypeOK /\ CallsOK /\ MessagesOK /\ minted \in Nat /\ Idx \subseteq Entry0 /\ 0 \in Entry0
      /\ queued \subseteq Idx /\ Idx \subseteq Ids /\ \A e \in Idx : body[e] \in Idx
  BY ShapeFacts, EntriesFact
<1>a. /\ op[u].at # "idle" => op[u].entry \in Idx
      /\ op[u].at \in {"cancel", "undo", "untake"} =>
            /\ op[u].copy \in Idx /\ op[u].entry < op[u].copy /\ body[op[u].copy] = body[op[u].entry]
      /\ op[u].at \in {"copy", "cancel", "undo", "untake"} => provider = "native"
  BY <1>0 DEF CallsOK, Calling
<1>n. NoOp \in OpType /\ NoOp.at = "idle"
  BY <1>0 DEF NoOp, OpType
<1> HIDE DEF NoOp
<1>p. provider' = provider /\ given' = given
  BY DEF UserStep, ScheduleWake, DropCancel, DropTake, SteerCopy, SteerCancel, SteerUndo, SteerTake, UserFrame
<1>1. CASE ScheduleWake(u)
  <2>1. UserFrame /\ UNCHANGED <<minted, body, queued, returned, doubled>> /\ Move(u, NoOp)
        /\ ~Calling(u, {"cancel", "undo"})
    BY <1>1 DEF ScheduleWake, At, Calling
  <2> HIDE DEF UserFrame
  <2> QED BY <1>n, <2>1, PlainCallPaid
<1>7. CASE SteerTake(u)
  <2>1. UserFrame /\ UNCHANGED <<minted, body, queued, returned, doubled>>
        /\ ~Calling(u, {"cancel", "undo"}) /\ op[u].copy \in Entry0
    BY <1>0, <1>a, <1>7 DEF SteerTake, At, Calling
  <2>2. PICK o : o = [at |-> "schedule", entry |-> op[u].copy, copy |-> 0]
    OBVIOUS
  <2>3. Move(u, o) /\ o \in OpType /\ o.at = "schedule"
    BY <1>0, <1>7, <2>1, <2>2, OpTyped DEF SteerTake, Move, Ats
  <2> HIDE DEF UserFrame
  <2> QED BY <2>1, <2>3, PlainCallPaid
<1> SUFFICES ASSUME provider = "native", NEW m \in Ids, PaidFor(m),
                    DropCancel(u) \/ DropTake(u) \/ SteerCopy(u) \/ SteerCancel(u) \/ SteerUndo(u)
             PROVE  PaidFor(m)'
  <2>1. ASSUME provider = "native" PROVE \A m \in Ids : PaidFor(m)
    BY <2>1 DEF Paid
  <2> QED BY <1>1, <1>7, <1>p, <2>1 DEF Paid, UserStep
<1>c. /\ Cardinality(LiveOf(m)) \in Nat /\ Cardinality(TakersOf(m)) \in Nat
      /\ Cardinality(ReroutersOf(m)) \in Nat /\ HasBack(m) \in {0, 1} /\ given[m] \in 0..2
      /\ IsFiniteSet(LiveOf(m)) /\ IsFiniteSet(TakersOf(m)) /\ IsFiniteSet(ReroutersOf(m))
  BY CountsTyped, LiveFinite DEF PaidFor
<1>2. CASE DropCancel(u)
  <2>1. UserFrame /\ UNCHANGED <<minted, body, wakes, returned, doubled>> /\ op[u].at = "drop"
    BY <1>2 DEF DropCancel, At
  <2>2. CASE Queued(op[u].entry) /\ Dequeue(op[u].entry) /\ Move(u, [op[u] EXCEPT !.at = "take"])
    <3>1. PICK o \in OpType : Move(u, o) /\ o.at = "take" /\ o.entry = op[u].entry
      BY <2>2, MoveAt DEF Ats
    <3>2. PICK e \in queued : e = op[u].entry /\ queued' = queued \ {e}
      BY <2>2 DEF Queued, Dequeue
    <3>3. /\ TakersOf(m)' = (TakersOf(m) \ {u}) \cup {v \in {u} : body[e] = m}
          /\ ReroutersOf(m)' = ReroutersOf(m) \ {u}
      <4>1. /\ TakersOf(m)' = (TakersOf(m) \ {u})
                              \cup {v \in {u} : o.at = "take" /\ body'[o.entry] = m}
            /\ ReroutersOf(m)' = (ReroutersOf(m) \ {u})
                              \cup {v \in {u} : o.at \in {"cancel", "undo"} /\ body'[o.copy] = m}
        BY <2>1, <3>1, CallSets
      <4> QED BY <2>1, <3>1, <3>2, <4>1
    <3>4. ReroutersOf(m)' = ReroutersOf(m) /\ u \notin TakersOf(m)
      BY <2>1, <3>3 DEF ReroutersOf, TakersOf, Calling
    <3>5. /\ LiveOf(m)' \subseteq LiveOf(m) /\ e \notin LiveOf(m)'
          /\ body[e] = m => e \in LiveOf(m)
      BY <2>1, <3>2, CallLive
    <3>6. CASE body[e] # m
      <4>1. TakersOf(m)' \subseteq TakersOf(m)
        BY <3>3, <3>6
      <4> HIDE DEF UserFrame
      <4> QED BY <1>p, <2>1, <3>4, <3>5, <4>1, StaysPaid
    <3>7. CASE body[e] = m
      <4>1. TakersOf(m)' = TakersOf(m) \cup {u}
        BY <3>3, <3>4, <3>7
      <4>2. IsFiniteSet(TakersOf(m)') /\ Cardinality(TakersOf(m)') = Cardinality(TakersOf(m)) + 1
        BY <1>c, <3>4, <4>1, FS_AddElement
      <4>5. /\ Cardinality(LiveOf(m)') <= Cardinality(LiveOf(m)) - 1
            /\ Cardinality(LiveOf(m)') \in Nat
        BY <2>1, <3>2, <3>7, LiveSpent
      <4>6. HasBack(m)' = HasBack(m) /\ given'[m] = given[m] /\ doubled' = doubled
        BY <1>p, <2>1 DEF HasBack
      <4> QED BY <1>c, <3>4, <4>2, <4>5, <4>6 DEF PaidFor, Claims
    <3> QED BY <3>6, <3>7
  <2>3. CASE Move(u, NoOp) /\ UNCHANGED queued
    <3> HIDE DEF UserFrame
    <3>1. Paid'
      BY <1>n, <2>1, <2>3, PlainCallPaid DEF Calling
    <3> QED BY <1>p, <3>1 DEF Paid
  <2> QED BY <1>2, <2>2, <2>3 DEF DropCancel
<1>3. CASE DropTake(u)
  <2> DEFINE b == body[op[u].entry]
  <2>1. /\ UserFrame /\ UNCHANGED <<minted, body, queued, doubled>> /\ Move(u, NoOp)
        /\ op[u].at = "take" /\ returned' = returned \cup {b}
    BY <1>3 DEF DropTake, At
  <2>2. TakersOf(m)' = TakersOf(m) \ {u} /\ ReroutersOf(m)' = ReroutersOf(m)
    <3>1. /\ TakersOf(m)' = (TakersOf(m) \ {u})
                            \cup {v \in {u} : NoOp.at = "take" /\ body'[NoOp.entry] = m}
          /\ ReroutersOf(m)' = (ReroutersOf(m) \ {u})
                            \cup {v \in {u} : NoOp.at \in {"cancel", "undo"} /\ body'[NoOp.copy] = m}
      BY <1>n, <2>1, CallSets
    <3>2. u \notin ReroutersOf(m)
      BY <2>1 DEF ReroutersOf, Calling
    <3> QED BY <1>n, <3>1, <3>2
  <2>3. LiveOf(m)' \subseteq LiveOf(m)
    BY <2>1, CallLive
  <2>4. CASE b # m
    <3> HIDE DEF UserFrame
    <3> QED BY <1>p, <2>1, <2>2, <2>3, <2>4, StaysPaid
  <2>5. CASE b = m
    <3>1. u \in TakersOf(m)
      BY <2>1, <2>5 DEF TakersOf
    <3>2. IsFiniteSet(TakersOf(m)') /\ Cardinality(TakersOf(m)') = Cardinality(TakersOf(m)) - 1
      BY <1>c, <2>2, <3>1, FS_RemoveElement
    <3>3. Cardinality(LiveOf(m)') <= Cardinality(LiveOf(m)) /\ Cardinality(LiveOf(m)') \in Nat
      BY <1>c, <2>3, FS_Subset, FS_CardinalityType
    <3>4. HasBack(m)' = 1 /\ given'[m] = given[m] /\ doubled' = doubled
      BY <1>p, <2>1, <2>5 DEF HasBack
    <3> QED BY <1>c, <2>2, <3>2, <3>3, <3>4 DEF PaidFor, Claims
  <2> QED BY <2>4, <2>5
<1>4. CASE SteerCopy(u)
  <2>1. /\ UserFrame /\ UNCHANGED <<returned, doubled>> /\ op[u].at = "copy"
        /\ op[u].entry \in Idx /\ provider = "native"
    BY <1>4, <1>a DEF SteerCopy, At
  <2>2. PICK b \in Nat : b = body[op[u].entry] /\ b \in Idx
    BY <1>0, <2>1 DEF Idx
  <2>3. Makes(b)
    <3>1. Enqueue(b)
      BY <1>4, <2>2 DEF SteerCopy, Enqueue
    <3> QED BY <2>1, <2>2, <3>1, EnqueueFacts
  <2>4. PICK o : o = [at |-> "cancel", entry |-> op[u].entry, copy |-> minted + 1]
    OBVIOUS
  <2>5. Move(u, o) /\ o \in OpType /\ o.at = "cancel" /\ body'[o.copy] = b
    <3>1. minted' = minted + 1 /\ minted + 1 \in Entry0 /\ body'[minted + 1] = b
      BY <2>3 DEF Makes
    <3> QED BY <1>0, <1>4, <2>1, <2>4, <3>1, OpTyped DEF Ats, SteerCopy, Move
  <2>6. \A e \in Idx : body'[e] = body[e]
    BY <2>3 DEF Makes
  <2>7. /\ TakersOf(m)' = TakersOf(m) \ {u} /\ u \notin TakersOf(m) /\ u \notin ReroutersOf(m)
        /\ ReroutersOf(m)' = (ReroutersOf(m) \ {u}) \cup {v \in {u} : b = m}
    <3>1. /\ TakersOf(m)' = (TakersOf(m) \ {u})
                              \cup {v \in {u} : o.at = "take" /\ body'[o.entry] = m}
          /\ ReroutersOf(m)' = (ReroutersOf(m) \ {u})
                              \cup {v \in {u} : o.at \in {"cancel", "undo"} /\ body'[o.copy] = m}
      BY <2>5, <2>6, CallSets
    <3>2. u \notin TakersOf(m) /\ u \notin ReroutersOf(m)
      BY <2>1 DEF TakersOf, ReroutersOf, Calling
    <3> QED BY <2>5, <3>1, <3>2
  <2>8. /\ m # b => LiveOf(m)' \subseteq LiveOf(m)
        /\ LiveOf(m)' \subseteq LiveOf(m) \cup {minted'}
    BY <2>1, <2>3, NewEntryLive
  <2>9. CASE m # b
    <3>1. TakersOf(m)' \subseteq TakersOf(m) /\ ReroutersOf(m)' = ReroutersOf(m)
      BY <2>7, <2>9
    <3> HIDE DEF UserFrame
    <3> QED BY <1>p, <2>1, <2>8, <2>9, <3>1, StaysPaid
  <2>10. CASE m = b
    <3>1. TakersOf(m)' = TakersOf(m) /\ ReroutersOf(m)' = ReroutersOf(m) \cup {u}
      BY <2>7, <2>10
    <3>2. /\ IsFiniteSet(ReroutersOf(m)')
          /\ Cardinality(ReroutersOf(m)') = Cardinality(ReroutersOf(m)) + 1
      <4>1. /\ IsFiniteSet(ReroutersOf(m) \cup {u})
            /\ Cardinality(ReroutersOf(m) \cup {u}) = Cardinality(ReroutersOf(m)) + 1
        BY <1>c, <2>7, FS_AddElement
      <4> QED BY <3>1, <4>1
    <3>3. Cardinality(LiveOf(m)') <= Cardinality(LiveOf(m)) + 1 /\ Cardinality(LiveOf(m)') \in Nat
      <4>1. PICK n : n = minted'
        OBVIOUS
      <4>2. /\ IsFiniteSet(LiveOf(m) \cup {n})
            /\ Cardinality(LiveOf(m) \cup {n}) <= Cardinality(LiveOf(m)) + 1
        <5>1. /\ IsFiniteSet(LiveOf(m) \cup {n})
              /\ Cardinality(LiveOf(m) \cup {n}) =
                    IF n \in LiveOf(m) THEN Cardinality(LiveOf(m)) ELSE Cardinality(LiveOf(m)) + 1
          BY <1>c, FS_AddElement
        <5> QED BY <1>c, <5>1
      <4> QED BY <2>8, <4>1, <4>2, <1>c, FS_Subset, FS_CardinalityType
    <3>4. HasBack(m)' = HasBack(m) /\ given'[m] = given[m] /\ doubled' = doubled
      BY <1>p, <2>1 DEF HasBack
    <3> QED BY <1>c, <3>1, <3>2, <3>3, <3>4 DEF PaidFor, Claims
  <2> QED BY <2>9, <2>10
<1>e. ASSUME Calling(u, {"cancel", "undo"}), NEW o \in OpType, Move(u, o), o.at \notin {"take", "cancel", "undo"},
             UserFrame, UNCHANGED <<minted, body, returned, doubled>>,
             NEW e \in queued, queued' = queued \ {e}, body[e] = body[op[u].copy]
      PROVE  PaidFor(m)'
  <2>1. TakersOf(m)' = TakersOf(m) /\ ReroutersOf(m)' = ReroutersOf(m) \ {u}
    <3>1. /\ TakersOf(m)' = (TakersOf(m) \ {u})
                              \cup {v \in {u} : o.at = "take" /\ body'[o.entry] = m}
          /\ ReroutersOf(m)' = (ReroutersOf(m) \ {u})
                              \cup {v \in {u} : o.at \in {"cancel", "undo"} /\ body'[o.copy] = m}
      BY <1>e, CallSets
    <3>2. u \notin TakersOf(m)
      BY <1>e DEF TakersOf, Calling
    <3> QED BY <1>e, <3>1, <3>2
  <2>2. CASE body[e] # m
    <3>1. u \notin ReroutersOf(m)
      BY <1>e, <2>2 DEF ReroutersOf
    <3>2. ReroutersOf(m)' = ReroutersOf(m) /\ LiveOf(m)' \subseteq LiveOf(m)
      BY <1>e, <2>1, <3>1, CallLive
    <3> HIDE DEF UserFrame
    <3> QED BY <1>p, <1>e, <2>1, <3>2, StaysPaid
  <2>3. CASE body[e] = m
    <3>1. u \in ReroutersOf(m)
      BY <1>e, <2>3 DEF ReroutersOf
    <3>2. /\ IsFiniteSet(ReroutersOf(m)')
          /\ Cardinality(ReroutersOf(m)') = Cardinality(ReroutersOf(m)) - 1
      BY <1>c, <2>1, <3>1, FS_RemoveElement
    <3>3. Cardinality(LiveOf(m)') <= Cardinality(LiveOf(m)) - 1 /\ Cardinality(LiveOf(m)') \in Nat
      BY <1>e, <2>3, LiveSpent
    <3>4. HasBack(m)' = HasBack(m) /\ given'[m] = given[m] /\ doubled' = doubled
      BY <1>p, <1>e DEF HasBack
    <3> QED BY <1>c, <2>1, <3>2, <3>3, <3>4 DEF PaidFor, Claims
  <2> QED BY <2>2, <2>3
<1>5. CASE SteerCancel(u)
  <2>1. UserFrame /\ UNCHANGED <<minted, body, wakes, returned, doubled>> /\ op[u].at = "cancel"
    BY <1>5 DEF SteerCancel, At
  <2>2. CASE Queued(op[u].entry) /\ Dequeue(op[u].entry) /\ Move(u, [op[u] EXCEPT !.at = "untake"])
    <3>1. PICK o \in OpType : Move(u, o) /\ o.at = "untake"
      BY <2>2, MoveAt DEF Ats
    <3>2. PICK e \in queued : queued' = queued \ {e} /\ body[e] = body[op[u].copy]
      BY <1>a, <2>1, <2>2 DEF Queued, Dequeue
    <3>3. Calling(u, {"cancel", "undo"})
      BY <2>1 DEF Calling
    <3> HIDE DEF UserFrame
    <3> QED BY <1>e, <2>1, <3>1, <3>2, <3>3
  <2>3. CASE UNCHANGED queued /\ Move(u, [op[u] EXCEPT !.at = "undo"])
    <3>1. PICK o \in OpType : Move(u, o) /\ o.at = "undo" /\ o.copy = op[u].copy
      BY <2>3, MoveAt DEF Ats
    <3> HIDE DEF UserFrame
    <3>2. Paid'
      BY <2>1, <2>3, <3>1, PlainCallPaid DEF Calling
    <3> QED BY <1>p, <3>2 DEF Paid
  <2> QED BY <1>5, <2>2, <2>3 DEF SteerCancel
<1>6. CASE SteerUndo(u)
  <2>1. /\ UserFrame /\ UNCHANGED <<minted, body, wakes, returned>> /\ op[u].at = "undo"
        /\ Move(u, NoOp) /\ Calling(u, {"cancel", "undo"})
    BY <1>6 DEF SteerUndo, At, Calling
  <2>2. CASE Queued(op[u].copy) /\ Dequeue(op[u].copy) /\ UNCHANGED doubled
    <3>1. PICK e \in queued : queued' = queued \ {e} /\ body[e] = body[op[u].copy]
      BY <2>2 DEF Queued, Dequeue
    <3> HIDE DEF UserFrame
    <3> QED BY <1>e, <1>n, <2>1, <2>2, <3>1
  <2>3. CASE UNCHANGED queued /\ doubled' = doubled \cup {body[op[u].copy]}
    <3>1. TakersOf(m)' = TakersOf(m) \ {u} /\ ReroutersOf(m)' = ReroutersOf(m) \ {u}
      <4>1. /\ TakersOf(m)' = (TakersOf(m) \ {u})
                              \cup {v \in {u} : NoOp.at = "take" /\ body'[NoOp.entry] = m}
            /\ ReroutersOf(m)' = (ReroutersOf(m) \ {u})
                              \cup {v \in {u} : NoOp.at \in {"cancel", "undo"} /\ body'[NoOp.copy] = m}
        BY <1>n, <2>1, CallSets
      <4> QED BY <1>n, <4>1
    <3>2. CASE m \in doubled'
      BY <1>c, <3>1, <3>2, FS_RemoveElement DEF PaidFor
    <3>3. CASE m \notin doubled'
      <4>1. u \notin ReroutersOf(m)
        BY <2>3, <3>3 DEF ReroutersOf
      <4>2. LiveOf(m)' \subseteq LiveOf(m) /\ TakersOf(m)' \subseteq TakersOf(m)
            /\ ReroutersOf(m)' = ReroutersOf(m)
        BY <2>1, <2>3, <3>1, <4>1, CallLive
      <4> HIDE DEF UserFrame
      <4> QED BY <1>p, <2>1, <2>3, <4>2, StaysPaid
    <3> QED BY <3>2, <3>3
  <2> QED BY <1>6, <2>2, <2>3 DEF SteerUndo
<1> QED BY <1>2, <1>3, <1>4, <1>5, <1>6

LEMMA OthersPaid ==
    ASSUME Shape, Paid,
           Prompt \/ Supervise \/ DriverStep \/ Stop \/ Crash \/ UNCHANGED vars
    PROVE  Paid'
<1>0. /\ TypeOK /\ DriverOK /\ CallsOK /\ queued \subseteq Idx /\ batch \in Seq(Idx)
      /\ Idx \subseteq Ids /\ \A e \in Idx : body[e] \in Idx
  BY ShapeFacts
<1>p. provider' = provider
  BY DEF Prompt, PromptNative, PromptAcp, Supervise, DriverStep, Native, Acp, Stop, Crash, vars, Drain, Consume,
         ConsumeFails, Write, WriteFails, TakeHeld, Give, RunDone, Finish, Peek, Lookup, AwaitPending, Accept, Settle, TurnDone, Pop, DriverFrame
<1> SUFFICES ASSUME provider = "native", NEW m \in Ids, PaidFor(m) PROVE PaidFor(m)'
  BY <1>p DEF Paid
<1>f. ASSUME UNCHANGED <<minted, body, op, returned, doubled>>, given'[m] = given[m],
             \A e \in Idx : (e \in queued' \/ InDriver(e)') => (e \in queued \/ InDriver(e))
      PROVE  PaidFor(m)'
  <2>1. LiveOf(m)' \subseteq LiveOf(m)
    BY <1>f DEF LiveOf, Idx
  <2>2. TakersOf(m)' = TakersOf(m) /\ ReroutersOf(m)' = ReroutersOf(m)
    BY <1>f DEF TakersOf, ReroutersOf, Calling
  <2> QED BY <1>f, <2>1, <2>2, StaysPaid
<1> USE DEF InDriver, memory
<1>1. CASE Prompt \/ PromptNative
  BY <1>0, <1>1, <1>f DEF Prompt, PromptNative, Reconciled, DriverFrame, Driving, GoTo
<1>13. CASE ConsumeFails
  BY <1>13, <1>f DEF ConsumeFails, Driving, durable, GoTo
<1>14. CASE WriteFails
  BY <1>14, <1>f DEF WriteFails, DriverFrame, Driving, GoTo
<1>15. CASE TakeHeld
  BY <1>15, <1>f DEF TakeHeld, DriverFrame, durable, Driving, GoTo
<1>2. CASE Supervise
  BY <1>2, <1>f DEF Supervise, DriverFrame, durable
<1>3. CASE Drain
  BY <1>3, <1>f DEF Drain, Driving, DriverFrame, durable, GoTo
<1>4. CASE Consume
  <2>1. queued' \subseteq queued /\ (pc' \in {"write", "give"} => item' \in queued)
    BY <1>4 DEF Consume, Queued, Dequeue, GoTo, Driving
  <2> QED BY <1>4, <1>f, <2>1 DEF Consume, DriverFrame, GoTo
<1>5. CASE Write
  BY <1>5, <1>f DEF Write, DriverFrame, GoTo, Driving
<1>6. CASE RunDone
  BY <1>6, <1>f DEF RunDone, DriverFrame, durable, GoTo, Driving
<1>7. CASE Finish
  BY <1>7, <1>f DEF Finish, DriverFrame, Release
<1>8. CASE Give
  <2>1. /\ UNCHANGED <<minted, body, op, returned, doubled, queued, held>> /\ pc = "give"
        /\ pc' = "running" /\ item \in Idx /\ item \notin queued /\ item \notin held /\ body[item] \in Idx
    BY <1>0, <1>8 DEF Give, DriverFrame, durable, GoTo, Driving, DriverOK
  <2>2. CASE given'[m] = given[m]
    BY <1>f, <2>1, <2>2
  <2>3. CASE given'[m] # given[m]
    <3>1. m = body[item] /\ given'[m] \in 0..2 /\ given'[m] <= given[m] + 1
      <4>1. PICK g \in Ids : g = body[item]
        BY <1>0, <2>1
      <4>2. given \in [Ids -> 0..2] /\ given[g] \in 0..2
        BY <1>0 DEF TypeOK
      <4>3. PICK n \in 0..2 : n = (IF given[g] = 2 THEN 2 ELSE given[g] + 1)
        BY <4>2
      <4>4. given' = given \/ given' = [given EXCEPT ![g] = n]
        BY <1>8, <4>1, <4>3 DEF Give
      <4> QED BY <2>3, <4>1, <4>2, <4>3, <4>4
    <3>2. LiveOf(m)' \subseteq LiveOf(m) \ {item} /\ item \in LiveOf(m)
      BY <2>1, <3>1 DEF LiveOf, Idx
    <3>3. IsFiniteSet(LiveOf(m)) /\ Cardinality(LiveOf(m)) \in Nat
      BY LiveFinite, FS_CardinalityType
    <3>4. IsFiniteSet(LiveOf(m) \ {item}) /\ Cardinality(LiveOf(m) \ {item}) = Cardinality(LiveOf(m)) - 1
      <4>1. PICK e : e = item
        OBVIOUS
      <4>2. IsFiniteSet(LiveOf(m) \ {e}) /\ Cardinality(LiveOf(m) \ {e}) = Cardinality(LiveOf(m)) - 1
        BY <3>2, <3>3, <4>1, FS_RemoveElement
      <4> QED BY <4>1, <4>2
    <3>5. Cardinality(LiveOf(m)') <= Cardinality(LiveOf(m)) - 1 /\ Cardinality(LiveOf(m)') \in Nat
      BY <3>2, <3>4, FS_Subset, FS_CardinalityType
    <3>6. TakersOf(m)' = TakersOf(m) /\ ReroutersOf(m)' = ReroutersOf(m)
      BY <2>1 DEF TakersOf, ReroutersOf, Calling
    <3>7. HasBack(m)' = HasBack(m)
      BY <2>1 DEF HasBack
    <3> QED BY <2>1, <3>1, <3>5, <3>6, <3>7, CountsTyped DEF PaidFor, Claims
  <2> QED BY <2>2, <2>3
<1>9. CASE Stop
  BY <1>9, <1>f DEF Stop, driver, Release, durable
<1>10. CASE Crash
  <2>1. TakersOf(m)' = {} /\ ReroutersOf(m)' = {}
    BY <1>10 DEF Crash, TakersOf, ReroutersOf, Calling, NoOp
  <2>2. CASE m \in doubled'
    BY <2>1, <2>2, FS_EmptySet DEF PaidFor
  <2>3. CASE m \notin doubled'
    <3>1. ReroutersOf(m) = {} /\ m \notin doubled
      BY <1>10, <2>3 DEF Crash, Rerouting, ReroutersOf, Calling
    <3>2. LiveOf(m)' \subseteq LiveOf(m) /\ given' = given /\ returned' = returned
      BY <1>10 DEF Crash, durable, Release, LiveOf, Idx
    <3> QED BY <2>1, <3>1, <3>2, StaysPaid
  <2> QED BY <2>2, <2>3
<1>11. CASE UNCHANGED vars
  BY <1>11, <1>f DEF vars, durable, driver, history
<1>12. ~Acp
  BY <1>0 DEF PromptAcp, Acp, Peek, Lookup, AwaitPending, Accept, Settle, TurnDone, Pop, Driving, DriverOK, NativePc
<1> QED BY <1>1, <1>2, <1>3, <1>4, <1>5, <1>6, <1>7, <1>8, <1>9, <1>10, <1>11, <1>12,
        <1>13, <1>14, <1>15 DEF DriverStep, Native

LEMMA PaidInit == Init => Paid
<1> SUFFICES ASSUME Init, NEW m \in Ids PROVE PaidFor(m)
  BY DEF Paid
<1>1. LiveOf(m) = {} /\ TakersOf(m) = {} /\ ReroutersOf(m) = {}
  BY DEF Init, LiveOf, TakersOf, ReroutersOf, Calling, NoOp, Idx
<1>2. HasBack(m) = 0 /\ given[m] = 0
  BY DEF Init, HasBack
<1> QED BY <1>1, <1>2, FS_EmptySet DEF PaidFor, Claims

LEMMA PaidStep == Shape /\ Paid /\ [Next]_vars => Paid'
BY UserCallPaid, UserStepPaid, OthersPaid DEF Next

LEMMA PaidMeans ==
    ASSUME Shape, Paid, provider = "native", NEW m \in Ids \ (doubled \cup Rerouting)
    PROVE  given[m] <= 1 /\ (m \in returned => given[m] = 0)
<1>1. PaidFor(m) /\ m \notin doubled
  BY DEF Paid
<1>2. ReroutersOf(m) = {}
  BY DEF ReroutersOf, Rerouting, Calling
<1>3. Cardinality(ReroutersOf(m)) = 0
  BY <1>2, FS_EmptySet
<1> QED BY <1>1, <1>3, CountsTyped DEF PaidFor, Claims, HasBack

-----------------------------------------------------------------------------
(* With an ACP agent nothing is re-routed, and a message is queued or at   *)
(* hand only until the agent has got it.                                   *)

AcpOnce ==
    provider = "acp" => \A m \in Ids \ doubled :
        /\ given[m] <= 1
        /\ m \in queued => given[m] = 0
        /\ pc \in {"wait", "accept", "settle", "give"} /\ item = m => given[m] = 0

LEMMA AcpOnceStep == Shape /\ AcpOnce /\ [Next]_vars => AcpOnce'
<1> SUFFICES ASSUME Shape, AcpOnce, [Next]_vars PROVE AcpOnce'
  OBVIOUS
<1>0. /\ TypeOK /\ DriverOK /\ CallsOK /\ MessagesOK /\ queued \subseteq Idx /\ minted \in Nat
      /\ Idx \subseteq Ids
  BY ShapeFacts
<1>p. provider' = provider
  BY DEF Next, UserCall, UserStep, QueueInput, DropLookup, SteerLookup, ScheduleWake, DropCancel, DropTake,
         SteerCopy, SteerCancel, SteerUndo, SteerTake, UserFrame,
         Prompt, PromptNative, PromptAcp, Supervise, DriverStep, Native, Acp, Stop, Crash, vars, Drain, Consume,
         ConsumeFails, Write, WriteFails, TakeHeld, Give, RunDone, Finish, Peek, Lookup, AwaitPending, Accept, Settle, TurnDone, Pop, DriverFrame
<1> SUFFICES ASSUME provider = "acp", NEW m \in Ids \ doubled'
             PROVE  /\ given'[m] <= 1
                    /\ m \in queued' => given'[m] = 0
                    /\ pc' \in {"wait", "accept", "settle", "give"} /\ item' = m => given'[m] = 0
  BY <1>p DEF AcpOnce
<1>d. doubled \subseteq doubled'
  BY DEF Next, UserCall, UserStep, QueueInput, DropLookup, SteerLookup, ScheduleWake, DropCancel, DropTake,
         SteerCopy, SteerCancel, SteerUndo, SteerTake, history,
         Prompt, PromptNative, PromptAcp, Supervise, DriverStep, Native, Acp, Stop, Crash, vars, Drain, Consume,
         ConsumeFails, Write, WriteFails, TakeHeld, Give, RunDone, Finish, Peek, Lookup, AwaitPending, Accept, Settle, TurnDone, Pop, DriverFrame
<1>m. /\ given[m] <= 1
      /\ m \in queued => given[m] = 0
      /\ pc \in {"wait", "accept", "settle", "give"} /\ item = m => given[m] = 0
  BY <1>d DEF AcpOnce
<1>1. ASSUME NEW u \in Users, UserCall(u) \/ UserStep(u) PROVE
         UNCHANGED <<given, pc, item>> /\ \A e \in queued' \ queued : e = minted + 1
  BY <1>1 DEF UserCall, UserStep, QueueInput, DropLookup, SteerLookup, ScheduleWake, DropCancel, DropTake,
         SteerCopy, SteerCancel, SteerUndo, SteerTake, UserFrame, driver, Enqueue, Dequeue
<1>n. m = minted + 1 => given[m] = 0
  BY <1>0 DEF MessagesOK, Idx
<1>2. CASE \E u \in Users : UserCall(u) \/ UserStep(u)
  BY <1>1, <1>2, <1>m, <1>n
<1>12. CASE Prompt
  BY <1>12, <1>m DEF Prompt, Reconciled
<1>3. CASE PromptAcp
  <2>1. UNCHANGED given /\ pc' = "wait"
        /\ \/ queued' = queued \cup {minted + 1} /\ item' = minted + 1
           \/ queued' = queued /\ item' = 0
    BY <1>3 DEF PromptAcp, GoTo, Enqueue
  <2>2. m # 0
    BY DEF Ids
  <2> QED BY <1>m, <1>n, <2>1, <2>2
<1>4. CASE Supervise \/ Peek \/ TurnDone \/ Pop \/ AwaitPending
  BY <1>0, <1>4, <1>m DEF Supervise, Peek, TurnDone, Pop, AwaitPending, GoTo, Release, Driving, DriverOK, AcpPc, TypeOK,
        durable, DriverFrame
<1>5. CASE Lookup
  BY <1>5, <1>m DEF Lookup, GoTo, Driving, Queued, durable
<1>6. CASE Accept \/ Settle
  BY <1>6, <1>m DEF Accept, Settle, GoTo, Driving, Release, Queued, Dequeue
<1>7. CASE Give
  <2>1. /\ pc = "give" /\ pc' = "running" /\ queued' = queued /\ item \in Idx /\ item \notin queued
        /\ body[item] = item
    BY <1>0, <1>7 DEF Give, GoTo, Driving, DriverOK, MessagesOK, durable
  <2>2. CASE m # item
    <3>1. given'[m] = given[m]
      BY <1>0, <1>7, <2>1, <2>2 DEF Give, TypeOK
    <3> QED BY <1>m, <2>1, <3>1
  <2>3. CASE m = item
    <3>1. given[m] = 0
      BY <1>m, <2>1, <2>3
    <3>2. given'[m] <= 1
      BY <1>0, <1>7, <2>1, <2>3, <3>1 DEF Give, TypeOK
    <3> QED BY <2>1, <2>3, <3>2
  <2> QED BY <2>2, <2>3
<1>8. CASE Stop
  BY <1>8, <1>m DEF Stop, Release, driver, durable
<1>9. CASE Crash
  BY <1>9, <1>m DEF Crash, Release, durable
<1>10. CASE UNCHANGED vars
  BY <1>10, <1>m DEF vars, durable, driver, history
<1>11. ~Native
  BY <1>0 DEF PromptNative, Native, Drain, Consume, ConsumeFails, Write, WriteFails, TakeHeld, RunDone, Finish, Driving, DriverOK, AcpPc
<1> QED BY <1>2, <1>3, <1>4, <1>5, <1>6, <1>7, <1>8, <1>9, <1>10, <1>11, <1>12
        DEF Next, DriverStep, Acp

LEMMA AcpOnceInit == Init => AcpOnce
BY DEF Init, AcpOnce

-----------------------------------------------------------------------------
(* Nothing is forgotten.  A message that is not settled has an entry in    *)
(* the queue that no call is about to undo; and a call that will cancel an *)
(* original has, behind it, an entry that stands in for it.                *)

Kept(m) ==
    \/ m \in written \/ m \in returned \/ m \in lost \/ given[m] > 0
    \/ pc \in {"write", "give"} /\ body[item] = m
    \/ \E e \in held : body[e] = m
    \/ \E u \in Users : op[u].at = "take" /\ body[op[u].entry] = m

IsCopy(f) == \E u \in Users : Calling(u, {"cancel", "undo"}) /\ op[u].copy = f

Firm ==
    \A e \in Idx, m \in Ids : body[e] = m =>
        Kept(m) \/ \E f \in queued : body[f] = m /\ ~IsCopy(f)

Backed ==
    \A u \in Users, m \in Ids : op[u].at = "cancel" /\ body[op[u].copy] = m =>
        Kept(m)
        \/ \E f \in queued : f >= op[u].copy /\ body[f] = m /\ (f = op[u].copy \/ ~IsCopy(f))

(* An entry may leave the queue when its message is settled, when it is a  *)
(* copy whose original is not to be cancelled, or for a later entry.       *)
LEMMA HeldStep ==
    ASSUME Shape, Firm, Backed, Shape',
           Idx \subseteq 1..minted', \A e \in Idx : body'[e] = body[e],
           \A m \in Ids : Kept(m) => Kept(m)',
           \A f \in Idx : IsCopy(f)' => IsCopy(f),
           \A f \in queued \ queued', m \in Ids : body[f] = m =>
               \/ Kept(m)'
               \/ IsCopy(f) /\ \A v \in Users : op'[v].at = "cancel" => op'[v].copy # f
               \/ \E g \in queued' : g >= f /\ body'[g] = m /\ ~IsCopy(g)',
           \A e \in 1..minted' \ Idx :
               \/ e \in queued' /\ ~IsCopy(e)'
               \/ \E d \in Idx : body'[e] = body[d],
           \A u \in Users : op'[u].at = "cancel" =>
               \/ op[u].at = "cancel" /\ op'[u].copy = op[u].copy
               \/ op'[u].copy \in queued'
    PROVE  Firm' /\ Backed'
<1>0. queued \subseteq Idx /\ CallsOK /\ minted \in Nat /\ queued' \subseteq 1..minted'
  BY ShapeFacts DEF Shape, TypeOK
<1>1. ASSUME NEW d \in Idx, NEW m \in Ids, body[d] = m
      PROVE  Kept(m)' \/ \E f \in queued' : body'[f] = m /\ ~IsCopy(f)'
  <2>1. CASE Kept(m)
    BY <2>1
  <2>2. ASSUME NEW f \in queued, body[f] = m, ~IsCopy(f)
        PROVE  Kept(m)' \/ \E g \in queued' : body'[g] = m /\ ~IsCopy(g)'
    <3>1. CASE f \in queued'
      BY <1>0, <2>2, <3>1
    <3>2. CASE f \notin queued'
      BY <2>2, <3>2
    <3> QED BY <3>1, <3>2
  <2> QED BY <1>1, <2>1, <2>2 DEF Firm
<1>2. Firm'
  <2> SUFFICES ASSUME NEW e \in 1..minted', NEW m \in Ids, body'[e] = m
               PROVE  Kept(m)' \/ \E f \in queued' : body'[f] = m /\ ~IsCopy(f)'
    BY DEF Firm, Idx, Ids
  <2>1. CASE e \in Idx
    BY <1>1, <2>1
  <2>2. CASE e \notin Idx
    BY <1>1, <2>2
  <2> QED BY <2>1, <2>2
<1>3. Backed'
  <2> SUFFICES ASSUME NEW u \in Users, NEW m \in Ids, op'[u].at = "cancel", body'[op'[u].copy] = m
               PROVE  Kept(m)'
                      \/ \E f \in queued' : f >= op'[u].copy /\ body'[f] = m
                                            /\ (f = op'[u].copy \/ ~IsCopy(f)')
    BY DEF Backed, Ids
  <2>1. CASE op'[u].copy \in queued'
    <3>1. minted' \in Nat
      BY BoundsAssumption DEF Shape, TypeOK, Entry0
    <3>2. \A c \in queued' : c \in Int /\ c >= c
      BY <1>0, <3>1
    <3> QED BY <2>1, <3>2
  <2>2. CASE op[u].at = "cancel" /\ op'[u].copy = op[u].copy
    <3> DEFINE c == op[u].copy
    <3>1. c \in Idx /\ body[c] = m /\ c \in Int
      BY <1>0, <2>2 DEF CallsOK, Calling, Idx
    <3>2. CASE Kept(m)
      BY <3>2
    <3>3. ASSUME NEW f \in queued, f >= c, body[f] = m, f = c \/ ~IsCopy(f)
          PROVE  Kept(m)' \/ \E g \in queued' : g >= c /\ body'[g] = m /\ (g = c \/ ~IsCopy(g)')
      <4>1. CASE f \in queued'
        BY <1>0, <3>3, <4>1
      <4>2. CASE f \notin queued'
        <5>1. Kept(m)' \/ \E g \in queued' : g >= f /\ body'[g] = m /\ ~IsCopy(g)'
          BY <2>2, <3>3, <4>2
        <5>2. ASSUME NEW g \in queued', g >= f PROVE g >= c
          BY <1>0, <3>1, <3>3, <5>2 DEF Idx
        <5> QED BY <5>1, <5>2
      <4> QED BY <4>1, <4>2
    <3> QED BY <2>2, <3>1, <3>2, <3>3 DEF Backed
  <2> QED BY <2>1, <2>2
<1> QED BY <1>2, <1>3

LEMMA UserKeeps ==
    ASSUME Shape, NEW u \in Users, UserCall(u) \/ UserStep(u)
    PROVE  \A m \in Ids : Kept(m) => Kept(m)'
<1>0. CallsOK /\ DriverOK /\ TypeOK /\ minted \in Nat
  BY ShapeFacts
<1>1. UNCHANGED <<written, lost, given, pc, item, held>> /\ returned \subseteq returned'
  BY DEF UserCall, UserStep, QueueInput, DropLookup, SteerLookup, ScheduleWake, DropCancel, DropTake,
         SteerCopy, SteerCancel, SteerUndo, SteerTake, UserFrame, driver, memory
<1>2. \A e \in Idx : body'[e] = body[e]
  <2>1. \A m : Enqueue(m) => \A e \in Idx : body'[e] = body[e]
    BY <1>0 DEF Enqueue, Idx, TypeOK
  <2>2. ASSUME NEW m, body' = [body EXCEPT ![minted + 1] = m] PROVE \A e \in Idx : body'[e] = body[e]
    BY <1>0, <2>2 DEF Idx, TypeOK
  <2> QED BY <2>2 DEF UserCall, UserStep, QueueInput, DropLookup, SteerLookup, ScheduleWake, DropCancel, DropTake,
         SteerCopy, SteerCancel, SteerUndo, SteerTake, Enqueue
<1>3. ASSUME NEW v \in Users, op[v].at = "take"
      PROVE  op'[v] = op[v] \/ body[op[v].entry] \in returned'
  <2>1. CASE v # u
    BY <1>0, <2>1 DEF UserCall, UserStep, QueueInput, DropLookup, SteerLookup, ScheduleWake, DropCancel, DropTake,
         SteerCopy, SteerCancel, SteerUndo, SteerTake, Move, TypeOK
  <2>2. CASE v = u
    BY <1>3, <2>2 DEF UserCall, UserStep, QueueInput, DropLookup, SteerLookup, ScheduleWake, DropCancel, DropTake,
         SteerCopy, SteerCancel, SteerUndo, SteerTake, At
  <2> QED BY <2>1, <2>2
<1> SUFFICES ASSUME NEW m \in Ids, Kept(m) PROVE Kept(m)'
  OBVIOUS
<1>4. CASE m \in written \/ m \in returned \/ m \in lost \/ given[m] > 0
  BY <1>1, <1>4 DEF Kept
<1>5. CASE pc \in {"write", "give"} /\ body[item] = m
  BY <1>0, <1>1, <1>2, <1>5 DEF Kept, DriverOK
<1>6. ASSUME NEW v \in Users, op[v].at = "take", body[op[v].entry] = m PROVE Kept(m)'
  <2>1. op[v].entry \in Idx
    BY <1>0, <1>6 DEF CallsOK
  <2> QED BY <1>2, <1>3, <1>6, <2>1 DEF Kept
<1>7. ASSUME NEW e \in held, body[e] = m PROVE Kept(m)'
  BY <1>0, <1>1, <1>2, <1>7 DEF Kept, DriverOK
<1> QED BY <1>4, <1>5, <1>6, <1>7 DEF Kept

LEMMA OthersKeep ==
    ASSUME Shape,
           Prompt \/ Supervise \/ DriverStep \/ Stop \/ Crash \/ UNCHANGED vars
    PROVE  \A m \in Ids : Kept(m) => Kept(m)'
<1>0. /\ TypeOK /\ CallsOK /\ DriverOK /\ minted \in Nat /\ Idx \subseteq Ids
      /\ \A e \in Idx : body[e] \in Idx
  BY ShapeFacts
<1> SUFFICES ASSUME NEW m \in Ids, Kept(m) PROVE Kept(m)'
  OBVIOUS
<1>b. PromptAcp \/ body' = body
  BY DEF Prompt, PromptNative, Supervise, DriverStep, Native, Acp, Stop, Crash, vars, Drain, Consume,
         ConsumeFails, Write, WriteFails, TakeHeld, Give, RunDone, Finish, Peek, Lookup, AwaitPending, Accept, Settle, TurnDone, Pop, durable
(* What is settled stays settled, and the calls go on.                     *)
<1>f. ASSUME op' = op, written \subseteq written', lost \subseteq lost', returned \subseteq returned',
             given[m] > 0 => given'[m] > 0, \A e \in Idx : body'[e] = body[e],
             pc \in {"write", "give"} /\ body[item] = m =>
                 \/ m \in written' \/ given'[m] > 0
                 \/ pc' \in {"write", "give"} /\ item' = item
                 \/ item \in held',
             \A e \in held : e \in held' \/ (pc' = "write" /\ item' = e)
      PROVE  Kept(m)'
  <2>1. CASE m \in written \/ m \in returned \/ m \in lost
    BY <1>f, <2>1 DEF Kept
  <2>2. CASE given[m] > 0
    BY <1>f, <2>2 DEF Kept
  <2>3. CASE pc \in {"write", "give"} /\ body[item] = m
    BY <1>0, <1>f, <2>3 DEF Kept, DriverOK
  <2>4. ASSUME NEW u \in Users, op[u].at = "take", body[op[u].entry] = m PROVE Kept(m)'
    BY <1>0, <1>f, <2>4 DEF Kept, CallsOK
  <2>5. ASSUME NEW e \in held, body[e] = m PROVE Kept(m)'
    BY <1>0, <1>f, <2>5 DEF Kept, DriverOK
  <2> QED BY <2>1, <2>2, <2>3, <2>4, <2>5 DEF Kept
<1>g. given[m] \in 0..2
  BY <1>0 DEF TypeOK
<1>h. holder = "none" => pc \notin {"write", "give"}
  BY <1>0 DEF TypeOK
<1>1. CASE Prompt \/ PromptNative
  BY <1>1, <1>f, <1>h DEF Prompt, Reconciled, PromptNative, Driving, DriverFrame
<1>2. CASE PromptAcp
  <2>1. \A e \in Idx : body'[e] = body[e]
    BY <1>0, <1>2 DEF PromptAcp, Enqueue, Idx, TypeOK
  <2> QED BY <1>2, <1>f, <2>1 DEF PromptAcp, Driving, DriverFrame, memory
<1>3. CASE Supervise
  BY <1>3, <1>f, <1>h, <1>b DEF Supervise, DriverFrame, durable, memory
<1>4. CASE Drain \/ Consume \/ ConsumeFails \/ RunDone \/ Finish
  BY <1>4, <1>f DEF Drain, Consume, ConsumeFails, RunDone, Finish, Driving, DriverFrame, durable, memory
<1>5. CASE Write \/ WriteFails
  BY <1>5, <1>f DEF Write, WriteFails, GoTo, DriverFrame, memory
<1>11. CASE TakeHeld
  BY <1>11, <1>f DEF TakeHeld, GoTo, Driving, DriverFrame, durable
<1>6. CASE Give
  <2>1. /\ UNCHANGED <<durable, op, returned, orphaned, doubled, count, lost, held>> /\ pc = "give"
        /\ item \in Idx /\ body[item] \in Ids
    BY <1>0, <1>6 DEF Give, DriverFrame, Driving, DriverOK, memory
  <2>2. PICK g \in Ids : g = body[item]
    BY <2>1
  <2>3. given \in [Ids -> 0..2] /\ given[g] \in 0..2
    BY <1>0 DEF TypeOK
  <2>4. PICK n \in 0..2 : n = (IF given[g] = 2 THEN 2 ELSE given[g] + 1)
    BY <2>3
  <2>5. n > 0 /\ n >= given[g]
    BY <2>3, <2>4
  <2>6. CASE Refused
    BY <1>0, <1>6, <1>f, <2>1, <2>6 DEF Give, Refused, DriverOK, durable, memory
  <2>7. CASE ~Refused
    <3>1. given' = [given EXCEPT ![g] = n]
      BY <1>6, <2>2, <2>4, <2>7 DEF Give
    <3>2. (given[m] > 0 => given'[m] > 0) /\ (m = g => given'[m] > 0)
      BY <1>g, <2>3, <2>5, <3>1
    <3> QED BY <1>f, <2>1, <2>2, <3>2 DEF durable
  <2> QED BY <2>6, <2>7
<1>7. CASE Acp /\ ~PromptAcp
  <2>1. /\ UNCHANGED <<op, returned, lost, given, body, held>> /\ written \subseteq written'
        /\ pc \notin {"write", "give"}
    BY <1>7 DEF Acp, Peek, Lookup, AwaitPending, Accept, Settle, TurnDone, Pop, Driving, DriverFrame, durable, memory
  <2> QED BY <1>f, <2>1
<1>8. CASE Stop
  BY <1>8, <1>0, <1>f DEF Stop, driver, durable, DriverOK
<1>9. CASE Crash
  <2>1. /\ UNCHANGED <<written, returned, given, body>>
        /\ lost' = lost \cup Dropping \cup ((InHand("write") \cup InHand("give") \cup Bodies(held)) \ written)
    BY <1>9 DEF Crash, durable
  <2>2. CASE m \in written \/ m \in returned \/ m \in lost \/ given[m] > 0
    BY <2>1, <2>2 DEF Kept
  <2>3. CASE pc \in {"write", "give"} /\ body[item] = m
    BY <2>1, <2>3 DEF Kept, InHand
  <2>4. ASSUME NEW u \in Users, op[u].at = "take", body[op[u].entry] = m PROVE Kept(m)'
    BY <2>1, <2>4 DEF Kept, Dropping
  <2>5. ASSUME NEW e \in held, body[e] = m PROVE Kept(m)'
    BY <2>1, <2>5 DEF Kept, Bodies
  <2> QED BY <2>2, <2>3, <2>4, <2>5 DEF Kept
<1>10. CASE UNCHANGED vars
  BY <1>10, <1>f DEF vars, durable, driver, memory, history
<1> QED BY <1>1, <1>2, <1>3, <1>4, <1>5, <1>6, <1>7, <1>8, <1>9, <1>10, <1>11 DEF DriverStep, Native

(* The driver, the prompts, a Stop and a restart hold on to every message. *)
LEMMA OthersHold ==
    ASSUME Shape, Firm, Backed, Shape',
           Prompt \/ Supervise \/ DriverStep \/ Stop \/ Crash \/ UNCHANGED vars
    PROVE  Firm' /\ Backed'
<1>0. /\ TypeOK /\ CallsOK /\ DriverOK /\ minted \in Nat /\ Idx \subseteq Ids
      /\ queued \subseteq Idx /\ \A e \in Idx : body[e] \in Idx
  BY ShapeFacts
<1>k. \A m \in Ids : Kept(m) => Kept(m)'
  BY OthersKeep
<1>f. ASSUME UNCHANGED <<minted, body>>,
             op' = op \/ op' = [u \in Users |-> NoOp],
             \A f \in queued \ queued' : Kept(body[f])'
      PROVE  Firm' /\ Backed'
  <2>1. Idx \subseteq 1..minted' /\ 1..minted' \ Idx = {} /\ \A e \in Idx : body'[e] = body[e]
    BY <1>f DEF Idx
  <2>2. \A f \in Idx : IsCopy(f)' => IsCopy(f)
    BY <1>f DEF IsCopy, Calling, NoOp
  <2>3. \A u \in Users : op'[u].at = "cancel" => op[u].at = "cancel" /\ op'[u].copy = op[u].copy
    BY <1>f DEF NoOp
  <2> QED BY <1>f, <1>k, <2>1, <2>2, <2>3, HeldStep
<1>1. CASE Prompt
  <2>1. \A f \in queued \ queued' : body[f] \in lost'
    BY <1>1 DEF Prompt, Reconciled, Bodies
  <2>2. UNCHANGED <<minted, body, op>>
    BY <1>1 DEF Prompt
  <2> QED BY <1>f, <2>1, <2>2 DEF Kept
<1>10. CASE PromptNative
  BY <1>10, <1>f DEF PromptNative, DriverFrame
<1>2. CASE PromptAcp
  <2>1. op' = op /\ provider = "acp"
    BY <1>2 DEF PromptAcp, DriverFrame
  <2>2. CASE UNCHANGED <<minted, body, queued>>
    BY <1>f, <2>1, <2>2
  <2>3. CASE Enqueue(minted + 1)
    <3>1. PICK m \in Nat : m = minted + 1
      BY <1>0
    <3>2. Makes(m)
      <4>1. Enqueue(m)
        BY <2>3, <3>1 DEF Enqueue
      <4> QED BY <3>1, <4>1, EnqueueFacts
    <3>3. \A f : ~IsCopy(f)' /\ ~IsCopy(f)
      BY <1>0, <2>1 DEF IsCopy, CallsOK, Calling
    <3>4. /\ Idx \subseteq 1..minted' /\ \A e \in Idx : body'[e] = body[e]
          /\ \A e \in 1..minted' \ Idx : e \in queued' /\ ~IsCopy(e)'
      BY <3>2, <3>3 DEF Makes
    <3>5. queued \ queued' = {}
      BY <3>2 DEF Makes
    <3>6. \A u \in Users : op'[u].at = "cancel" => op[u].at = "cancel" /\ op'[u].copy = op[u].copy
      BY <2>1
    <3> QED BY <1>k, <3>3, <3>4, <3>5, <3>6, HeldStep
  <2> QED BY <1>2, <2>2, <2>3 DEF PromptAcp
<1>3. CASE Supervise \/ Drain \/ ConsumeFails \/ Write \/ WriteFails \/ TakeHeld \/ RunDone \/ Finish \/ Give
  BY <1>3, <1>f DEF Supervise, Drain, ConsumeFails, Write, WriteFails, TakeHeld, RunDone, Finish, Give, DriverFrame, durable
<1>4. CASE Consume
  <2>1. /\ UNCHANGED <<minted, body, op>>
        /\ \A f \in queued \ queued' : pc' = "write" /\ item' = f
    BY <1>4 DEF Consume, DriverFrame, Dequeue, GoTo
  <2>2. \A f \in queued \ queued' : Kept(body[f])'
    BY <2>1 DEF Kept
  <2> QED BY <1>f, <2>1, <2>2
<1>5. CASE Settle
  <2>1. /\ UNCHANGED <<minted, body, op, written>>
        /\ pc = "settle" /\ \A f \in queued \ queued' : f = item
    BY <1>5 DEF Settle, DriverFrame, Dequeue, Driving
  <2>2. provider = "acp"
    BY <1>0, <2>1, ProvidersAssumption DEF DriverOK, NativePc, TypeOK
  <2>3. \A f \in queued \ queued' : Kept(body[f])'
    BY <1>0, <2>1, <2>2 DEF Kept, DriverOK
  <2> QED BY <1>f, <2>1, <2>3
<1>6. CASE Peek \/ Lookup \/ AwaitPending \/ Accept \/ TurnDone \/ Pop
  BY <1>6, <1>f DEF Peek, Lookup, AwaitPending, Accept, TurnDone, Pop, DriverFrame, durable
<1>7. CASE Stop
  BY <1>7, <1>f DEF Stop, durable
<1>8. CASE Crash
  BY <1>8, <1>f DEF Crash, durable
<1>9. CASE UNCHANGED vars
  BY <1>9, <1>f DEF vars, durable
<1> QED BY <1>1, <1>2, <1>3, <1>4, <1>5, <1>6, <1>7, <1>8, <1>9, <1>10 DEF DriverStep, Native, Acp

(* A call that makes no entry.                                             *)
LEMMA PlainCallHolds ==
    ASSUME Shape, Firm, Backed, Shape', NEW u \in Users, UserCall(u) \/ UserStep(u),
           NEW o \in OpType, Move(u, o), UNCHANGED <<minted, body>>,
           o.at \in {"cancel", "undo"} => Calling(u, {"cancel", "undo"}) /\ o.copy = op[u].copy,
           o.at # "cancel",
           \A f \in queued \ queued', m \in Ids : body[f] = m =>
               \/ Kept(m)'
               \/ IsCopy(f) /\ \A v \in Users : op'[v].at = "cancel" => op'[v].copy # f
               \/ \E g \in queued' : g >= f /\ body'[g] = m /\ ~IsCopy(g)'
    PROVE  Firm' /\ Backed'
<1>1. op'[u] = o /\ \A v \in Users \ {u} : op'[v] = op[v]
  BY MoveFacts DEF Shape
<1>2. \A m \in Ids : Kept(m) => Kept(m)'
  BY UserKeeps
<1>3. Idx \subseteq 1..minted' /\ 1..minted' \ Idx = {} /\ \A e \in Idx : body'[e] = body[e]
  BY DEF Idx
<1>4. \A f \in Idx : IsCopy(f)' => IsCopy(f)
  BY <1>1 DEF IsCopy, Calling
<1>5. \A v \in Users : op'[v].at = "cancel" => op[v].at = "cancel" /\ op'[v].copy = op[v].copy
  BY <1>1
<1> QED BY <1>2, <1>3, <1>4, <1>5, HeldStep

LEMMA UserCallHolds ==
    ASSUME Shape, Firm, Backed, Shape', NEW u \in Users, UserCall(u)
    PROVE  Firm' /\ Backed'
<1>0. /\ TypeOK /\ CallsOK /\ minted \in Nat /\ Idx \subseteq Entry0 /\ 0 \in Entry0
      /\ queued \subseteq Idx
  BY ShapeFacts, EntriesFact
<1>1. CASE QueueInput(u)
  <2>1. PICK m \in Nat : m = minted + 1
    BY <1>0
  <2>2. Makes(m)
    <3>1. Enqueue(m)
      BY <1>1, <2>1 DEF QueueInput, Enqueue
    <3> QED BY <2>1, <3>1, EnqueueFacts
  <2>3. op'[u].at = "schedule" /\ \A v \in Users \ {u} : op'[v] = op[v]
    BY <1>0, <1>1 DEF QueueInput, Move, TypeOK
  <2>4. \A f : IsCopy(f)' => IsCopy(f) /\ f \in Idx
    BY <1>0, <2>3 DEF IsCopy, Calling, CallsOK
  <2>5. /\ Idx \subseteq 1..minted' /\ \A e \in Idx : body'[e] = body[e]
        /\ \A e \in 1..minted' \ Idx : e \in queued' /\ e \notin Idx
        /\ queued \ queued' = {}
    BY <2>2 DEF Makes
  <2>6. \A v \in Users : op'[v].at = "cancel" => op[v].at = "cancel" /\ op'[v].copy = op[v].copy
    BY <2>3
  <2>7. \A e \in Ids : Kept(e) => Kept(e)'
    BY UserKeeps
  <2> QED BY <2>4, <2>5, <2>6, <2>7, HeldStep
<1>2. ASSUME NEW e \in queued, NEW a \in {"drop", "copy"},
             Move(u, [at |-> a, entry |-> e, copy |-> 0]),
             UNCHANGED <<minted, body, queued>>
      PROVE  Firm' /\ Backed'
  <2>1. PICK o : o = [at |-> a, entry |-> e, copy |-> 0]
    OBVIOUS
  <2>2. o \in OpType /\ o.at = a
    BY <1>0, <2>1, OpTyped DEF Ats
  <2>3. Move(u, o)
    BY <1>2, <2>1 DEF Move
  <2> QED BY <1>2, <2>2, <2>3, PlainCallHolds
<1>3. CASE DropLookup(u)
  BY <1>2, <1>3 DEF DropLookup
<1>4. CASE SteerLookup(u)
  BY <1>2, <1>4 DEF SteerLookup
<1> QED BY <1>1, <1>3, <1>4 DEF UserCall

LEMMA UserStepHolds ==
    ASSUME Shape, Firm, Backed, Shape', NEW u \in Users, UserStep(u)
    PROVE  Firm' /\ Backed'
<1>0. /\ TypeOK /\ CallsOK /\ CopiesDistinct /\ minted \in Nat /\ Idx \subseteq Nat /\ Idx \subseteq Ids
      /\ queued \subseteq Idx /\ \A e \in Idx : body[e] \in Idx
  BY ShapeFacts
<1>a. /\ op[u] \in OpType /\ op[u].entry \in Entry0 /\ op[u].copy \in Entry0
      /\ op[u].at # "idle" => op[u].entry \in Idx
      /\ op[u].at \in {"cancel", "undo", "untake"} =>
            /\ op[u].copy \in Idx /\ op[u].entry < op[u].copy /\ body[op[u].copy] = body[op[u].entry]
      /\ op[u].at \in {"copy", "cancel", "undo", "untake"} => provider = "native"
  BY <1>0, ShapeFacts, OpFields DEF CallsOK, Calling, Ats
<1>b. ASSUME NEW w \in Ats
      PROVE  [op[u] EXCEPT !.at = w] = [at |-> w, entry |-> op[u].entry, copy |-> op[u].copy]
  BY <1>a, OpFields
<1>k. \A m \in Ids : Kept(m) => Kept(m)'
  BY UserKeeps
<1>n. NoOp \in OpType /\ NoOp.at = "idle"
  BY EntriesFact DEF NoOp, OpType
<1>1. CASE ScheduleWake(u) \/ DropTake(u)
  <2>1. Move(u, NoOp) /\ UNCHANGED <<minted, body, queued>>
    BY <1>1 DEF ScheduleWake, DropTake
  <2> HIDE DEF NoOp
  <2> QED BY <1>n, <2>1, PlainCallHolds
<1>2. CASE DropCancel(u)
  <2>1. UNCHANGED <<minted, body>> /\ op[u].at = "drop"
    BY <1>2 DEF DropCancel, At
  <2>2. CASE Dequeue(op[u].entry) /\ Move(u, [op[u] EXCEPT !.at = "take"])
    <3>1. PICK o : o = [at |-> "take", entry |-> op[u].entry, copy |-> op[u].copy]
      OBVIOUS
    <3>2. o \in OpType /\ o.at = "take" /\ o.entry = op[u].entry
      BY <1>a, <3>1, OpTyped DEF Ats
    <3>3. Move(u, o)
      BY <1>b, <2>2, <3>1 DEF Move, Ats
    <3>4. op'[u] = o
      BY <1>0, <3>2, <3>3, MoveFacts
    <3>5. \A f \in queued \ queued' : Kept(body[f])'
      BY <2>1, <2>2, <3>2, <3>4 DEF Dequeue, Kept
    <3> QED BY <2>1, <3>2, <3>3, <3>5, PlainCallHolds
  <2>3. CASE Move(u, NoOp) /\ UNCHANGED queued
    <3> HIDE DEF NoOp
    <3> QED BY <1>n, <2>1, <2>3, PlainCallHolds
  <2> QED BY <1>2, <2>2, <2>3 DEF DropCancel
<1>3. CASE SteerCopy(u)
  <2> DEFINE e == op[u].entry
  <2>1. e \in Idx /\ provider = "native"
    BY <1>3, <1>a DEF SteerCopy, At
  <2>2. PICK m \in Nat : m = body[e] /\ m \in Idx
    BY <1>0, <2>1
  <2>3. Makes(m)
    <3>1. Enqueue(m)
      BY <1>3, <2>2 DEF SteerCopy, Enqueue
    <3> QED BY <2>1, <2>2, <3>1, EnqueueFacts
  <2>4. op'[u].at = "cancel" /\ op'[u].copy = minted' /\ \A v \in Users \ {u} : op'[v] = op[v]
    BY <1>0, <1>3, <2>3 DEF SteerCopy, Move, TypeOK, Makes
  <2>5. /\ Idx \subseteq 1..minted' /\ \A f \in Idx : body'[f] = body[f]
        /\ minted' \notin Idx /\ minted' \in queued' /\ queued \ queued' = {}
        /\ \A f \in 1..minted' \ Idx : body'[f] = body[e]
    BY <2>2, <2>3 DEF Makes
  <2>6. \A f \in Idx : IsCopy(f)' => IsCopy(f)
    BY <2>4, <2>5 DEF IsCopy, Calling
  <2>7. \A v \in Users : op'[v].at = "cancel" =>
            (op[v].at = "cancel" /\ op'[v].copy = op[v].copy) \/ op'[v].copy \in queued'
    BY <2>4, <2>5
  <2> HIDE DEF e
  <2> QED BY <1>k, <2>1, <2>5, <2>6, <2>7, HeldStep
<1>4. CASE SteerCancel(u)
  <2>1. UNCHANGED <<minted, body>> /\ op[u].at = "cancel"
    BY <1>4 DEF SteerCancel, At
  <2>2. PICK w \in {"untake", "undo"} :
          /\ Move(u, [op[u] EXCEPT !.at = w])
          /\ w = "untake" => Dequeue(op[u].entry)
          /\ w = "undo" => UNCHANGED queued
    BY <1>4 DEF SteerCancel
  <2>3. PICK o : o = [at |-> w, entry |-> op[u].entry, copy |-> op[u].copy]
    OBVIOUS
  <2>4. o \in OpType /\ o.at = w /\ o.entry = op[u].entry /\ o.copy = op[u].copy
    BY <1>a, <2>3, OpTyped DEF Ats
  <2>5. Move(u, o)
    BY <1>b, <2>2, <2>3 DEF Move, Ats
  <2>6. op'[u] = o /\ \A v \in Users \ {u} : op'[v] = op[v]
    BY <1>0, <2>4, <2>5, MoveFacts
  <2>7. ASSUME NEW f \in queued \ queued', NEW m \in Ids, body[f] = m
        PROVE  Kept(m)' \/ \E g \in queued' : g >= f /\ body'[g] = m /\ ~IsCopy(g)'
    <3>1. w = "untake" /\ f = op[u].entry /\ queued' = queued \ {f}
      BY <2>2, <2>7 DEF Dequeue
    <3>2. body[op[u].copy] = m /\ f < op[u].copy /\ op[u].copy \in Nat /\ f \in Nat
      BY <1>0, <1>a, <2>1, <2>7, <3>1
    <3>3. Kept(m) \/ \E g \in queued : g >= op[u].copy /\ body[g] = m /\ (g = op[u].copy \/ ~IsCopy(g))
      <4>1. op[u].at = "cancel" /\ body[op[u].copy] = m
        BY <2>1, <3>2
      <4> QED BY <4>1 DEF Backed
    <3>4. ASSUME NEW g \in queued, g >= op[u].copy, body[g] = m, g = op[u].copy \/ ~IsCopy(g)
          PROVE  g \in queued' /\ g >= f /\ body'[g] = m /\ ~IsCopy(g)'
      <4>0. g \in Nat
        BY <1>0
      <4>c. PICK c \in Nat : c = op[u].copy
        BY <3>2
      <4>1. g \in Nat /\ g # f /\ g >= f
        BY <3>2, <3>4, <4>0, <4>c
      <4>2. ~IsCopy(g)'
        <5> SUFFICES ASSUME NEW v \in Users, op'[v].at \in {"cancel", "undo"}, op'[v].copy = g
                     PROVE  FALSE
          BY DEF IsCopy, Calling
        <5>1. v # u /\ op[v] = op'[v]
          BY <2>4, <2>6, <3>1
        <5>2. IsCopy(g)
          BY <5>1 DEF IsCopy, Calling
        <5> QED BY <1>0, <2>1, <3>4, <5>1, <5>2 DEF CopiesDistinct, Calling
      <4> QED BY <2>1, <3>1, <3>4, <4>1, <4>2
    <3> QED BY <1>k, <3>3, <3>4
  <2> QED BY <2>1, <2>2, <2>4, <2>5, <2>7, PlainCallHolds DEF Calling
<1>5. CASE SteerUndo(u)
  <2>1. /\ Move(u, NoOp) /\ UNCHANGED <<minted, body>> /\ op[u].at = "undo"
        /\ \A f \in queued \ queued' : f = op[u].copy
    BY <1>5 DEF SteerUndo, At, Dequeue
  <2>2. op'[u] = NoOp /\ \A v \in Users \ {u} : op'[v] = op[v]
    BY <1>0, <1>n, <2>1, MoveFacts
  <2>3. \A f \in queued \ queued' :
            IsCopy(f) /\ \A v \in Users : op'[v].at = "cancel" => op'[v].copy # f
    BY <1>0, <1>n, <2>1, <2>2 DEF IsCopy, Calling, CopiesDistinct
  <2> HIDE DEF NoOp
  <2> QED BY <1>n, <2>1, <2>3, PlainCallHolds
<1>6. CASE SteerTake(u)
  <2>1. PICK o : o = [at |-> "schedule", entry |-> op[u].copy, copy |-> 0]
    OBVIOUS
  <2>2. o \in OpType /\ o.at = "schedule"
    BY <1>a, EntriesFact, <2>1, OpTyped DEF Ats
  <2>3. Move(u, o) /\ UNCHANGED <<minted, body, queued>>
    BY <1>6, <2>1 DEF SteerTake, Move
  <2> QED BY <2>2, <2>3, PlainCallHolds
<1> QED BY <1>1, <1>2, <1>3, <1>4, <1>5, <1>6 DEF UserStep

LEMMA HeldInit == Init => Firm /\ Backed
BY DEF Init, Firm, Backed, Idx, NoOp

LEMMA FirmMeans ==
    ASSUME Shape, Firm PROVE NothingDropped
<1>0. Idx \subseteq Ids /\ \A e \in Idx : body[e] \in Ids
  BY ShapeFacts
<1> SUFFICES ASSUME NEW e \in Idx
             PROVE  \/ body[e] \in Bodies(queued \cup held) \cup written \cup returned \cup lost \cup Dropping
                    \/ body[e] \in InHand("write") \cup InHand("give")
                    \/ given[body[e]] > 0
  BY DEF NothingDropped, Idx
<1>1. CASE Kept(body[e])
  BY <1>1 DEF Kept, Dropping, InHand, Bodies
<1>2. ASSUME NEW f \in queued, body[f] = body[e] PROVE body[e] \in Bodies(queued \cup held)
  BY <1>2 DEF Bodies
<1> QED BY <1>0, <1>1, <1>2 DEF Firm

-----------------------------------------------------------------------------
(* The theorems.                                                           *)

Inv == Shape /\ AllAnnounced /\ Paid /\ AcpOnce /\ Firm /\ Backed

LEMMA Inductive == Spec => []Inv
<1>1. Init => Inv
  BY ShapeInit, AnnouncedInit, PaidInit, AcpOnceInit, HeldInit DEF Inv
<1>2. Inv /\ [Next]_vars => Inv'
  <2> SUFFICES ASSUME Inv, [Next]_vars PROVE Inv'
    OBVIOUS
  <2>1. Shape' /\ AllAnnounced' /\ Paid' /\ AcpOnce'
    BY ShapeStep, AnnouncedStep, PaidStep, AcpOnceStep DEF Inv
  <2>2. Firm' /\ Backed'
    BY <2>1, UserCallHolds, UserStepHolds, OthersHold DEF Inv, Next
  <2> QED BY <2>1, <2>2 DEF Inv
<1> QED BY <1>1, <1>2, PTL DEF Spec

(* In every reachable state the queue, the wakes, the calls in progress    *)
(* and the driver's steps have their types.                                *)
THEOREM TypeCorrect == Spec => []TypeOK
<1>1. Inv => TypeOK
  BY DEF Inv, Shape
<1> QED BY <1>1, Inductive, PTL

(* However an input is dropped, re-routed, stopped and retried while a     *)
(* driver takes the queue, with the native executor or with an ACP agent:  *)
(* the model gets it at most once, unless a crash cut a move in two or a   *)
(* compensation found its copy gone.                                       *)
THEOREM InputsGivenOnce == Spec => []GivenOnce
<1>1. Inv => GivenOnce
  <2> SUFFICES ASSUME Inv, NEW m \in Ids \ (doubled \cup Rerouting) PROVE given[m] <= 1
    BY DEF GivenOnce
  <2>1. CASE provider = "native"
    BY <2>1, PaidMeans DEF Inv
  <2>2. CASE provider = "acp"
    BY <2>2 DEF Inv, AcpOnce
  <2> QED BY <2>1, <2>2, ProvidersAssumption DEF Inv, Shape, TypeOK
<1> QED BY <1>1, Inductive, PTL

(* No entry a user made loses its message: it is queued, in the journal,   *)
(* with the driver, back in the composer or at the model, unless a crash   *)
(* or the reconciliation of a stopped run gave it up.                      *)
THEOREM NothingForgotten == Spec => []NothingDropped
<1>1. Inv => NothingDropped
  BY FirmMeans DEF Inv
<1> QED BY <1>1, Inductive, PTL

(* With a native agent, an input that was dropped and handed back to the   *)
(* composer never reaches the model, not from a copy either.               *)
THEOREM DroppedStayDropped == Spec => []NativeDroppedNeverRun
<1>1. Inv => NativeDroppedNeverRun
  <2> SUFFICES ASSUME Inv, provider = "native", NEW m \in returned \ (doubled \cup Rerouting)
               PROVE  given[m] = 0
    BY DEF NativeDroppedNeverRun, DroppedNeverRun
  <2>1. m \in Ids
    BY ShapeFacts DEF Inv, MessagesOK
  <2> QED BY <2>1, PaidMeans DEF Inv
<1> QED BY <1>1, Inductive, PTL

(* With a native agent, every queued entry has a wake, is in the batch or  *)
(* has a call that will make its wake, unless a Stop dropped its batch or  *)
(* its consumption failed.                                                 *)
THEOREM WakesKept == Spec => []NativeWakeKept
<1>1. Inv => NativeWakeKept
  BY AnnouncedMeans DEF Inv
<1> QED BY <1>1, Inductive, PTL

(* What an interactive turn gives to the model is in the journal before.   *)
THEOREM TurnsWriteFirst == Spec => TurnWritesFirst
<1>1. Inv /\ [Next]_vars =>
        [\A m \in Ids : given'[m] > given[m] /\ holder = "turn" => m \in written]_vars
  <2> SUFFICES ASSUME Inv, Next, NEW m \in Ids, given'[m] > given[m], holder = "turn"
               PROVE  m \in written
    OBVIOUS
  <2>0. TypeOK /\ DriverOK
    BY DEF Inv, Shape
  <2>1. given[m] \in 0..2
    BY <2>0 DEF TypeOK
  <2>2. given' # given
    BY <2>1
  <2>3. Give
    BY <2>2 DEF Next, UserCall, UserStep, QueueInput, DropLookup, SteerLookup, ScheduleWake, DropCancel,
         DropTake, SteerCopy, SteerCancel, SteerUndo, SteerTake, UserFrame, Prompt, PromptNative, PromptAcp,
         history, Supervise, DriverStep, Native, Acp, Drain, Consume, ConsumeFails, Write,
         WriteFails, TakeHeld, RunDone, Finish, Peek,
         Lookup, AwaitPending, Accept, Settle, TurnDone, Pop, Stop, Crash
  <2>4. pc = "give" /\ m = body[item]
    <3>1. PICK g : g = body[item]
      OBVIOUS
    <3>2. PICK n : n = (IF given[g] = 2 THEN 2 ELSE given[g] + 1)
      OBVIOUS
    <3>3. given' = given \/ given' = [given EXCEPT ![g] = n]
      BY <2>3, <3>1, <3>2 DEF Give
    <3>4. m # g => given'[m] = given[m]
      BY <2>0, <3>3 DEF TypeOK
    <3> QED BY <2>1, <2>3, <3>1, <3>4 DEF Give, Driving
  <2>5. provider = "acp" \/ recorder
    BY <2>0, <2>4, ProvidersAssumption DEF DriverOK, TypeOK
  <2> QED BY <2>0, <2>4, <2>5 DEF DriverOK
<1> QED BY <1>1, Inductive, PTL DEF Spec, TurnWritesFirst
=============================================================================
