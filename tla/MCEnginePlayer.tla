--------------------------- MODULE MCEnginePlayer ---------------------------
(***************************************************************************)
(* EnginePlayer on small instances.                                        *)
(***************************************************************************)
EXTENDS EnginePlayer, TLC

Symmetry == Permutations(RequestFile) \cup Permutations(ShareFile)
=============================================================================
