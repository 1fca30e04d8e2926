----------------------------- MODULE JournalFileMC -----------------------------
(***************************************************************************)
(* An instance of JournalFile for TLC.                                     *)
(***************************************************************************)
EXTENDS JournalFile, TLC

Interchangeable == Permutations(Handles)
=============================================================================
