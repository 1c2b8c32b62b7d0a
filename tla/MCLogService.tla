---------------------------- MODULE MCLogService ----------------------------
(***************************************************************************)
(* LogService on small instances.                                          *)
(***************************************************************************)
EXTENDS LogService, TLC

Symmetry == Permutations(Worker)
=============================================================================
