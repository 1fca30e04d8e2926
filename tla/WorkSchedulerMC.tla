--------------------------- MODULE WorkSchedulerMC ---------------------------
(***************************************************************************)
(* Instances of WorkScheduler for TLC.                                     *)
(***************************************************************************)
EXTENDS WorkScheduler

NativeOnly == {"native"}
AcpOnly == {"acp"}
BothProviders == {"native", "acp"}
=============================================================================
