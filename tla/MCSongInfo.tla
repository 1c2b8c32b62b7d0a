------------------------------ MODULE MCSongInfo ------------------------------
(***************************************************************************)
(* SongInfo with a few threads.                                            *)
(***************************************************************************)
EXTENDS SongInfo, TLC

Symmetry == Permutations(Thread)
=============================================================================
