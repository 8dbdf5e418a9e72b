--------------------------- MODULE MCHaltLatches ---------------------------
(***************************************************************************)
(* Small instances of HaltLatches for TLC.                                 *)
(***************************************************************************)
EXTENDS HaltLatches, TLC

Processes == Permutations(Process)
===========================================================================
