---------------------------- MODULE RequestLife ----------------------------
(***************************************************************************)
(* The life of a request in the netdj2 engine: it lands, waits in line,    *)
(* is taken by the player, is played, and its file is removed; or its file *)
(* was gone when its turn came.  The player has one song at a time and     *)
(* removes no other file than that of the request it has just played.      *)
(*                                                                         *)
(* Nothing is said of the share, of skips, of collections or of the steps  *)
(* of the player.  EnginePlayer implements this specification.             *)
(***************************************************************************)
EXTENDS Sequences

CONSTANT
  Request         (* The requests.                                         *)

VARIABLES
  life,           (* How far each request has come.                        *)
  line,           (* The requests that wait, first to last.                *)
  there,          (* Those whose file is on the disk.                      *)
  removed,        (* Those whose file the player has removed.              *)
  playing         (* The player runs.                                      *)

vars == <<life, line, there, removed, playing>>

Init ==
  /\ life = [r \in Request |-> "new"]
  /\ line = <<>>
  /\ there = {}
  /\ removed = {}
  /\ playing = TRUE

InHand == {r \in Request : life[r] \in {"taken", "played"}}

Becomes(r, from, to) ==
  /\ life[r] = from
  /\ life' = [life EXCEPT ![r] = to]

Land(r) ==
  /\ Becomes(r, "new", "waiting")
  /\ line' = Append(line, r)
  /\ there' = there \cup {r}
  /\ UNCHANGED <<removed, playing>>

(* Someone else may remove a file whenever he likes. *)
Vanish ==
  /\ there' \subseteq there
  /\ UNCHANGED <<life, line, removed, playing>>

(* The first in line is taken by a player that has nothing in hand. *)
Take ==
  /\ playing /\ line # <<>> /\ InHand = {}
  /\ Becomes(Head(line), "waiting", "taken")
  /\ line' = Tail(line)
  /\ UNCHANGED <<there, removed, playing>>

Play(r) ==
  /\ r \in there
  /\ Becomes(r, "taken", "played")
  /\ UNCHANGED <<line, there, removed, playing>>

GiveUp(r) ==
  /\ r \notin there
  /\ Becomes(r, "taken", "over")
  /\ UNCHANGED <<line, there, removed, playing>>

Remove(r) ==
  /\ Becomes(r, "played", "over")
  /\ there' = there \ {r}
  /\ removed' = removed \cup {r}
  /\ UNCHANGED <<line, playing>>

(* The player ends, and with it the song in its hands. *)
End ==
  /\ playing
  /\ playing' = FALSE
  /\ life' = [r \in Request |-> IF r \in InHand THEN "over" ELSE life[r]]
  /\ UNCHANGED <<line, there, removed>>

Next ==
  \/ \E r \in Request : Land(r) \/ Play(r) \/ GiveUp(r) \/ Remove(r)
  \/ Vanish
  \/ Take
  \/ End

Spec == Init /\ [][Next]_vars
=============================================================================
