---------------------------- MODULE MCEngineStart ----------------------------
(***************************************************************************)
(* EngineStart: its only constant is the number of signals.                *)
(***************************************************************************)
EXTENDS EngineStart
=============================================================================
