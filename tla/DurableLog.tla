------------------------------ MODULE DurableLog ------------------------------
(***************************************************************************)
(* What a session's journal promises to the code above it.                 *)
(*                                                                         *)
(* The journal is a set of batches.  A batch is numbered above everything  *)
(* already there, appears in one step with all of its items, and may then  *)
(* be acknowledged.  A crash may take away the newest batches, and never   *)
(* one that was acknowledged.                                              *)
(***************************************************************************)
EXTENDS Naturals

VARIABLES log,     \* the batches a reader of the file would find
          acked    \* the batches whose append was answered with success

logVars == <<log, acked>>

\* A batch holds the items numbered first .. first + size - 1.
Last(b) == b.first + b.size - 1

Below(B, b) == \A c \in B : Last(c) < b.first

Init == log = {} /\ acked = {}

Extend ==
  \E b \in log' :
    /\ b \notin log
    /\ b.size > 0
    /\ Below(log, b)
    /\ log' = log \union {b}
    /\ UNCHANGED acked

Acknowledge ==
  \E b \in log :
    /\ acked' = acked \union {b}
    /\ UNCHANGED log

Crash ==
  /\ acked \subseteq log'
  /\ log' \subseteq log
  /\ \A kept \in log', lost \in log \ log' : Last(kept) < lost.first
  /\ UNCHANGED acked

Next == Extend \/ Acknowledge \/ Crash

Spec == Init /\ [][Next]_logVars
=============================================================================
