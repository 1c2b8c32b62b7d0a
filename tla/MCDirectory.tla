---------------------------- MODULE MCDirectory ----------------------------
(***************************************************************************)
(* Directory on small instances.                                           *)
(***************************************************************************)
EXTENDS Directory, TLC

Symmetry == Permutations(Mp3File)
=============================================================================
