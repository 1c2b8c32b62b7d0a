--------------------------- MODULE MCSonglistDir ---------------------------
(***************************************************************************)
(* SonglistDir on small instances.                                         *)
(***************************************************************************)
EXTENDS SonglistDir, TLC

Symmetry == Permutations(File)
=============================================================================
