--------------------------- MODULE MCDaemonPlayer ---------------------------
(***************************************************************************)
(* DaemonPlayer on small instances: player threads are interchangeable.    *)
(***************************************************************************)
EXTENDS DaemonPlayer, TLC

Symmetry == Permutations(Thread)
=============================================================================
