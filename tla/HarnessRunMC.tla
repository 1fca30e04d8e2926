---------------------------- MODULE HarnessRunMC ----------------------------
(***************************************************************************)
(* Instances of HarnessRun for TLC.                                        *)
(***************************************************************************)
EXTENDS HarnessRun

(* Batches whose rejected calls, if any, come after every accepted one.    *)
SuffixBatches ==
    {[n |-> 1, rejected |-> {}], [n |-> 1, rejected |-> {0}],
     [n |-> 2, rejected |-> {}], [n |-> 2, rejected |-> {1}], [n |-> 2, rejected |-> {0, 1}]}

(* The batches of two calls, none of them rejected.                        *)
PairBatch == {[n |-> 2, rejected |-> {}]}

(* Every way of accepting or rejecting up to two calls.                    *)
AllBatches == UNION {{[n |-> n, rejected |-> j] : j \in SUBSET (0..(n - 1))} : n \in 1..2}

(* No call rejected, the first one, and one between two accepted ones.     *)
RoughBatches ==
    {[n |-> 2, rejected |-> {}], [n |-> 2, rejected |-> {0}], [n |-> 3, rejected |-> {1}]}
=============================================================================
