------------------------------ MODULE EventLog ------------------------------
(***************************************************************************)
(* What the log of the netdj2 engine promises those who listen to it,      *)
(* without its mutex, its queue, its events and its threads                *)
(* (src/netdj2/engine/LogService.h:31-47).  A listener is told what has    *)
(* been logged, nothing else and nothing twice, and the entries of one     *)
(* caller in the order it logged them.  What is logged in the context that *)
(* owns the log is told one by one; an entry that had to be queued in      *)
(* another context may be lost on the way.  LogService implements this.    *)
(***************************************************************************)
EXTENDS Integers, Sequences

CONSTANTS
  Caller,         (* The contexts that log.                                *)
  Local           (* Those that log in the context that owns the log.      *)

VARIABLES
  logged,         (* How many entries each caller has logged.              *)
  told            (* The entries told to the listeners, first to last.     *)

vars == <<logged, told>>

Init ==
  /\ logged = [c \in Caller |-> 0]
  /\ told = <<>>

Log(c) ==
  /\ logged' = [logged EXCEPT ![c] = @ + 1]
  /\ UNCHANGED told

Told(c) == {told[i].n : i \in {j \in DOMAIN told : told[j].by = c}}

Tell(c, n) ==
  /\ n \in 1..logged[c]
  /\ \A m \in Told(c) : m < n
  /\ c \in Local => 1..(n - 1) \subseteq Told(c)
  /\ told' = Append(told, [by |-> c, n |-> n])
  /\ UNCHANGED logged

Next == \E c \in Caller : Log(c) \/ \E n \in 1..logged[c] : Tell(c, n)

Spec == Init /\ [][Next]_vars
=============================================================================
