-------------------------- MODULE MCPositionBook --------------------------
(***************************************************************************)
(* Small instances of PositionBook for TLC.                                *)
(***************************************************************************)
EXTENDS PositionBook, TLC

\* Processes are interchangeable where all of them, or none, may close.
Processes == Permutations(Process)
===========================================================================
