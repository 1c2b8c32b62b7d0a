---------------------------- MODULE RequestQueue ----------------------------
(***************************************************************************)
(* What both generations of netdj promise of the directory that requests   *)
(* land in ("play the files in the order that they are downloaded",        *)
(* src/netdj/README:8-9): whoever looks at the directory, and however      *)
(* looks, downloads and songs interleave, the player is handed the         *)
(* requests oldest first, and each state of a file at most once.           *)
(*                                                                         *)
(* Nothing is said here of locks, time stamps or lists.  Directory and     *)
(* SonglistDir implement this specification.                               *)
(***************************************************************************)
EXTENDS Integers

VARIABLES
  waiting,        (* Requests to be played: [id, date, version].           *)
  queued,         (* Versions of files that have been queued so far.       *)
  played          (* The date of the last request handed to the player.    *)

vars == <<waiting, queued, played>>

Init == waiting = {} /\ queued = {} /\ played = 0

(***************************************************************************)
(* A look at the directory ends: what it found is queued, no version of it *)
(* for the second time, and nothing older than what was queued before.     *)
(***************************************************************************)
Found == waiting' \ waiting

EachOnce == \A e, f \in Found : e.version = f.version => e = f

AtTheEnd ==
  \A e \in Found : e.date >= played /\ \A w \in waiting : e.date >= w.date

Enqueue ==
  /\ waiting \subseteq waiting'
  /\ EachOnce
  /\ AtTheEnd
  /\ queued \cap {e.version : e \in Found} = {}
  /\ queued' = queued \cup {e.version : e \in Found}
  /\ played' = played

(* One of the oldest is handed to the player. *)
Take ==
  /\ \E e \in waiting :
       /\ \A w \in waiting : e.date <= w.date
       /\ waiting' = waiting \ {e}
       /\ played' = e.date
  /\ queued' = queued

(* The program ends; the next one begins anew. *)
Restart == waiting' = {} /\ queued' = {} /\ played' = 0

Next == Enqueue \/ Take \/ Restart

Spec == Init /\ [][Next]_vars
=============================================================================
