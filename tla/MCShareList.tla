----------------------------- MODULE MCShareList -----------------------------
(***************************************************************************)
(* ShareList on small instances.                                           *)
(***************************************************************************)
EXTENDS ShareList
=============================================================================
