-------------------------- MODULE LogServiceProofs --------------------------
(***************************************************************************)
(* What LogService keeps, for any number of threads, calls and signals:    *)
(* the types, that no entry is left in the queue with nobody on the way to *)
(* fetch it, and that it implements EventLog.                              *)
(*                                                                         *)
(* For the last, the invariant says which entries are where: those of a    *)
(* context on the owner's thread are told up to the one being logged;      *)
(* those of another context are told, or wait in the queue in the order    *)
(* they were logged, behind all that were told.  The mutex plays no part:  *)
(* each context logs its own entries one after the other.                  *)
(***************************************************************************)
EXTENDS LogService, TLAPS

Logging == {"load", "store", "lock", "deliver", "append"}

(* The entries of a context that were told or appended. *)
Done(c) == IF pc[c] \in Logging THEN calls[c] - 1 ELSE calls[c]

Told(c) == Abstract!Told(c)

(* Where a context can be in Emit, and that it has begun a call there. *)
RoleAt ==
  \A c \in Context :
    /\ pc[c] = "deliver" => Owner(c)
    /\ pc[c] = "append" => ~Owner(c)
    /\ pc[c] \in Logging => calls[c] >= 1

ToldLocal == \A c \in Context : Owner(c) => Told(c) = 1..Done(c)

ToldRemote == \A c \in Context : ~Owner(c) => Told(c) \subseteq 1..Done(c)

QueuedRemote ==
  \A i \in DOMAIN mEntryQueue :
    ~Owner(mEntryQueue[i].by) /\ mEntryQueue[i].n \in 1..Done(mEntryQueue[i].by)

QueuedInOrder ==
  \A i, j \in DOMAIN mEntryQueue :
    i < j /\ mEntryQueue[i].by = mEntryQueue[j].by => mEntryQueue[i].n < mEntryQueue[j].n

(* From index k on, the queue is behind what was told. *)
Behind(k) ==
  \A i \in DOMAIN mEntryQueue :
    i >= k => \A m \in Told(mEntryQueue[i].by) : m < mEntryQueue[i].n

AtIterator ==
  /\ pc[MainBody] \notin {"emit", "next", "clear"} => Behind(1)
  /\ pc[MainBody] = "emit" =>
       \E k \in DOMAIN mEntryQueue : k <= current /\ entry = mEntryQueue[k] /\ Behind(k)
  /\ pc[MainBody] = "next" => Behind(current + 1)

LogInv == RoleAt /\ ToldLocal /\ ToldRemote /\ QueuedRemote /\ QueuedInOrder /\ AtIterator

-----------------------------------------------------------------------------
LEMMA Contexts ==
  /\ MainBody \in Context /\ Owner(MainBody)
  /\ \A t \in Thread : Body(t) \in Context /\ Handler(t) \in Context
BY DEF MainBody, Body, Handler, Context, Thread, Owner

LEMMA EntryTyped ==
  ASSUME TypeOK, NEW c \in Context
  PROVE  EntryOf(c) \in Entry /\ EntryOf(c).by = c /\ EntryOf(c).n = calls[c]
BY DEF TypeOK, EntryOf, Entry

(* TypeOK is inductive. *)
LEMMA TypeInit == Init => TypeOK
<1> SUFFICES ASSUME Init PROVE TypeOK
  OBVIOUS
<1>1. entry \in Entry
  BY Contexts DEF Init, Entry
<1>2. mEntryQueue \in Seq(Entry) /\ delivered \in Seq(Entry) /\ current \in 0..Len(mEntryQueue)
  BY DEF Init
<1>3. quit \in BOOLEAN
  BY DEF Init
<1>4. /\ pc \in [Context -> Label] /\ count \in [Context -> Nat] /\ calls \in [Context -> Nat]
      /\ signals \in 0..MaxSignals
  BY BoundAssumption DEF Init, Label
<1>5. /\ mLogCount \in Nat /\ events \in Nat /\ mEmitMutex \in Context \cup {Nobody}
      /\ issued = {} /\ appended = {}
  BY DEF Init
<1> QED
  BY <1>1, <1>2, <1>3, <1>4, <1>5 DEF TypeOK

LEMMA TypeStep == TypeOK /\ [Next]_vars => TypeOK'
<1> SUFFICES ASSUME TypeOK, [Next]_vars PROVE TypeOK'
  OBVIOUS
<1> USE DEF TypeOK, Step, queue, history, Label
<1>1. ASSUME NEW t \in Thread, Call(t) PROVE TypeOK'
  <2>1. /\ Body(t) \in Context /\ pc' = [pc EXCEPT ![Body(t)] = "load"]
        /\ calls' = [calls EXCEPT ![Body(t)] = calls[Body(t)] + 1]
    BY <1>1, Contexts DEF Call
  <2>2. pc' \in [Context -> Label] /\ calls' \in [Context -> Nat]
    BY <2>1
  <2> QED BY <1>1, <2>2 DEF Call
<1>2. ASSUME NEW t \in Thread, Signal(t) PROVE TypeOK'
  BY <1>2, Contexts, BoundAssumption DEF Signal
<1>3. ASSUME NEW t \in Thread, HandlerQuits(t) PROVE TypeOK'
  BY <1>3, Contexts DEF HandlerQuits
<1>4. ASSUME NEW c \in Context, Load(c) PROVE TypeOK'
  BY <1>4 DEF Load
<1>5. ASSUME NEW c \in Context, Store(c) PROVE TypeOK'
  <2>1. [entry |-> EntryOf(c), id |-> count[c] + 1] \in [entry : Entry, id : Nat]
    BY EntryTyped
  <2> QED BY <1>5, <2>1 DEF Store
<1>6. ASSUME NEW c \in Context, Lock(c) PROVE TypeOK'
  BY <1>6 DEF Lock
<1>7. ASSUME NEW c \in Context, Deliver(c) PROVE TypeOK'
  BY <1>7, EntryTyped DEF Deliver
<1>8. ASSUME NEW c \in Context, AppendEntry(c) PROVE TypeOK'
  <2>1. /\ mEntryQueue' \in Seq(Entry)
        /\ Len(mEntryQueue') = Len(mEntryQueue) + 1
        /\ Len(mEntryQueue) \in Nat
    BY <1>8, EntryTyped DEF AppendEntry
  <2> QED BY <1>8, <2>1, EntryTyped DEF AppendEntry
<1>9. ASSUME NEW c \in Context, Post(c) PROVE TypeOK'
  BY <1>9 DEF Post
<1>10. ASSUME NEW c \in Context, Unlock(c) PROVE TypeOK'
  BY <1>10 DEF Unlock
<1>11. CASE First \/ NextEntry
  <2>1. PICK i \in Nat, l \in Label : Iterate(l, i)
    BY <1>11 DEF First, NextEntry
  <2>2. CASE i \in DOMAIN mEntryQueue
    BY <2>1, <2>2, Contexts DEF Iterate
  <2>3. CASE i \notin DOMAIN mEntryQueue
    <3>1. /\ current' = 0 /\ pc' = [pc EXCEPT ![MainBody] = "clear"]
          /\ UNCHANGED <<entry, mLogCount, mEmitMutex, mEntryQueue, events, quit, count, calls,
                         signals, history>>
      BY <2>1, <2>3 DEF Iterate
    <3> QED BY <3>1, Contexts
  <2> QED BY <2>1, <2>2, <2>3
<1>12. CASE EmitEntry
  BY <1>12, Contexts DEF EmitEntry
<1>13. CASE Dispatch \/ ExecEnds \/ ShutdownCommand
  <2>1. CASE Dispatch
    BY <2>1, Contexts DEF Dispatch
  <2>2. CASE ExecEnds
    BY <2>2, Contexts DEF ExecEnds
  <2>3. CASE ShutdownCommand
    BY <2>3, Contexts DEF ShutdownCommand
  <2> QED BY <1>13, <2>1, <2>2, <2>3
<1>14. CASE Clear
  BY <1>14, Contexts DEF Clear
<1>15. CASE UNCHANGED vars
  BY <1>15 DEF vars
<1> HIDE DEF TypeOK, Step, queue, history, Label
<1>16. ASSUME NEW c \in Context, Emit(c) PROVE TypeOK'
  BY <1>4, <1>5, <1>6, <1>7, <1>8, <1>9, <1>10, <1>16 DEF Emit
<1>17. CASE EventLoop
  BY <1>11, <1>12, <1>13, <1>14, <1>17 DEF EventLoop
<1> QED
  BY <1>1, <1>2, <1>3, <1>13, <1>15, <1>16, <1>17 DEF Next

(***************************************************************************)
(* Every reachable state of the log is well typed.                         *)
(***************************************************************************)
THEOREM TypeCorrect == Spec => []TypeOK
  BY TypeInit, TypeStep, PTL DEF Spec

-----------------------------------------------------------------------------
(* Whoever stops fetching has emptied the queue or hands on: an appender   *)
(* to the event it posts, an event to the loop that dispatches it.         *)
LEMMA StuckStep == TypeOK /\ NoStuckEntry /\ [Next]_vars => NoStuckEntry'
<1> SUFFICES ASSUME TypeOK, NoStuckEntry, [Next]_vars, mEntryQueue' # <<>> PROVE Fetching'
  BY DEF NoStuckEntry
<1> USE DEF TypeOK, Step, queue, history
<1>1. ASSUME NEW c \in Context, AppendEntry(c) PROVE Fetching'
  BY <1>1 DEF AppendEntry, Fetching
<1>2. ASSUME NEW c \in Context, Post(c) PROVE Fetching'
  BY <1>2 DEF Post, Fetching
<1>3. CASE Dispatch
  BY <1>3, Contexts DEF Dispatch, Fetching
<1>4. CASE First \/ NextEntry
  BY <1>4, Contexts DEF First, NextEntry, Iterate, Fetching
<1>5. CASE EmitEntry
  BY <1>5, Contexts DEF EmitEntry, Fetching
<1>6. CASE Clear
  BY <1>6 DEF Clear
<1>7. CASE UNCHANGED vars
  BY <1>7 DEF vars, NoStuckEntry, Fetching
<1>8. ASSUME NEW c \in Context,
             Load(c) \/ Store(c) \/ Lock(c) \/ Deliver(c) \/ Unlock(c)
      PROVE  Fetching'
  <2>1. mEntryQueue # <<>> /\ events' = events
    BY <1>8 DEF Load, Store, Lock, Deliver, Unlock
  <2>2. /\ pc[c] \in {"load", "store", "lock", "deliver", "unlock"}
        /\ \A d \in Context : d # c => pc'[d] = pc[d]
    BY <1>8 DEF Load, Store, Lock, Deliver, Unlock
  <2> QED BY <2>1, <2>2, Contexts DEF NoStuckEntry, Fetching
<1>9. ASSUME NEW t \in Thread, Call(t) \/ Signal(t) \/ HandlerQuits(t) PROVE Fetching'
  <2>1. mEntryQueue # <<>> /\ events' = events
    BY <1>9 DEF Call, Signal, HandlerQuits
  <2>2. PICK c \in Context : /\ pc[c] \in {"idle", "quit"}
                             /\ \A d \in Context : d # c => pc'[d] = pc[d]
    BY <1>9, Contexts DEF Call, Signal, HandlerQuits
  <2> QED BY <2>1, <2>2, Contexts DEF NoStuckEntry, Fetching
<1>10. CASE ExecEnds \/ ShutdownCommand
  <2>1. mEntryQueue # <<>> /\ events' = events
    BY <1>10 DEF ExecEnds, ShutdownCommand
  <2>2. pc[MainBody] = "idle" /\ \A d \in Context : d # MainBody => pc'[d] = pc[d]
    BY <1>10, Contexts DEF ExecEnds, ShutdownCommand
  <2> QED BY <2>1, <2>2, Contexts DEF NoStuckEntry, Fetching
<1> QED
  BY <1>1, <1>2, <1>3, <1>4, <1>5, <1>6, <1>7, <1>8, <1>9, <1>10 DEF Next, Emit, EventLoop

(***************************************************************************)
(* No entry waits in the queue with nobody on the way to fetch it, however *)
(* the appends of the threads fall between the steps of event(), which     *)
(* clears the queue without the mutex.                                     *)
(***************************************************************************)
THEOREM NoneStuck == Spec => []NoStuckEntry
<1>1. Init => NoStuckEntry
  BY DEF Init, NoStuckEntry
<1> QED
  BY <1>1, TypeInit, TypeStep, StuckStep, PTL DEF Spec

-----------------------------------------------------------------------------
(* What a listener has been told after one entry more. *)
LEMMA ToldMore ==
  ASSUME TypeOK, NEW e \in Entry, delivered' = Append(delivered, e)
  PROVE  \A c \in Context : Told(c)' = IF e.by = c THEN Told(c) \cup {e.n} ELSE Told(c)
<1>1. /\ DOMAIN delivered' = DOMAIN delivered \cup {Len(delivered) + 1}
      /\ \A i \in DOMAIN delivered : delivered'[i] = delivered[i]
      /\ delivered'[Len(delivered) + 1] = e
      /\ Len(delivered) + 1 \notin DOMAIN delivered
  BY DEF TypeOK
<1> QED
  BY <1>1 DEF Told, Abstract!Told

LEMMA ToldSame ==
  ASSUME UNCHANGED delivered
  PROVE  \A c : Told(c)' = Told(c)
BY DEF Told, Abstract!Told

LEMMA DoneInt ==
  ASSUME TypeOK, NEW c \in Context
  PROVE  Done(c) \in Int /\ calls[c] \in Nat
BY DEF TypeOK, Done

LEMMA QueueTyped ==
  ASSUME TypeOK
  PROVE  \A i \in DOMAIN mEntryQueue :
           mEntryQueue[i].by \in Context /\ mEntryQueue[i].n \in Nat
<1>1. \A i \in DOMAIN mEntryQueue : mEntryQueue[i] \in Entry
  BY DEF TypeOK
<1> QED BY <1>1 DEF Entry

LEMMA RoleStep == TypeOK /\ RoleAt /\ [Next]_vars => RoleAt'
<1> SUFFICES ASSUME TypeOK, RoleAt, [Next]_vars PROVE RoleAt'
  OBVIOUS
<1> USE DEF RoleAt, Logging, Step
<1>1. ASSUME NEW t \in Thread, Call(t) \/ Signal(t) PROVE RoleAt'
  <2>1. PICK c \in Context : /\ pc' = [pc EXCEPT ![c] = "load"]
                             /\ calls' = [calls EXCEPT ![c] = @ + 1]
    BY <1>1, Contexts DEF Call, Signal
  <2> QED BY <2>1 DEF TypeOK
<1>2. ASSUME NEW c \in Context, Emit(c) PROVE RoleAt'
  BY <1>2 DEF Emit, Load, Store, Lock, Deliver, AppendEntry, Post, Unlock, TypeOK
<1>3. ASSUME calls' = calls,
             \E c \in Context, l \in Label \ (Logging \cup {"append"}) : pc' = [pc EXCEPT ![c] = l]
      PROVE  RoleAt'
  BY <1>3 DEF TypeOK
<1>4. CASE ShutdownCommand \/ (\E t \in Thread : HandlerQuits(t))
  BY <1>3, <1>4, Contexts DEF ShutdownCommand, HandlerQuits, Label
<1>5. CASE EventLoop
  BY <1>3, <1>5, Contexts DEF EventLoop, Dispatch, First, NextEntry, Iterate, EmitEntry, Clear,
                           ExecEnds, Label
<1>6. CASE UNCHANGED vars
  BY <1>6 DEF vars
<1> QED
  BY <1>1, <1>2, <1>4, <1>5, <1>6 DEF Next

(* A step that logs, tells and queues nothing keeps what is told and       *)
(* queued where it is.                                                     *)
LEMMA Frame ==
  ASSUME TypeOK, LogInv, UNCHANGED <<delivered, mEntryQueue>>,
         \A c \in Context : Done(c)' = Done(c)
  PROVE  ToldLocal' /\ ToldRemote' /\ QueuedRemote' /\ QueuedInOrder'
<1>1. ToldLocal' /\ ToldRemote'
  BY ToldSame DEF LogInv, ToldLocal, ToldRemote, Owner
<1>2. QueuedRemote' /\ QueuedInOrder'
  BY QueueTyped DEF LogInv, QueuedRemote, QueuedInOrder, Owner
<1> QED BY <1>1, <1>2

LEMMA BehindSame ==
  ASSUME UNCHANGED <<delivered, mEntryQueue>>, NEW k, Behind(k)
  PROVE  Behind(k)'
BY ToldSame DEF Behind

(* A step of another context, or of Emit, is not one of the iterator. *)
LEMMA ElsewhereSame ==
  ASSUME LogInv, UNCHANGED <<delivered, mEntryQueue, current, entry>>,
         \/ pc'[MainBody] = pc[MainBody]
         \/ {pc[MainBody], pc'[MainBody]} \cap {"emit", "next", "clear"} = {}
  PROVE  AtIterator'
<1>1. CASE pc'[MainBody] = pc[MainBody]
  BY <1>1, BehindSame DEF LogInv, AtIterator
<1>2. CASE {pc[MainBody], pc'[MainBody]} \cap {"emit", "next", "clear"} = {}
  BY <1>2, BehindSame DEF LogInv, AtIterator
<1> QED BY <1>1, <1>2

LEMMA QuietStep ==
  ASSUME TypeOK, LogInv, NEW c \in Context, NEW from \in Label, NEW to \in Label,
         Step(c, from, to), from \notin {"emit", "next", "clear"},
         to \notin {"emit", "next", "clear"},
         UNCHANGED <<delivered, mEntryQueue, current, entry>>,
         \/ UNCHANGED calls /\ (from \in Logging <=> to \in Logging)
         \/ /\ from = "idle" /\ to = "load"
            /\ calls' = [calls EXCEPT ![c] = @ + 1]
  PROVE  ToldLocal' /\ ToldRemote' /\ QueuedRemote' /\ QueuedInOrder' /\ AtIterator'
<1>1. pc' = [pc EXCEPT ![c] = to] /\ pc[c] = from
  BY DEF Step
<1>2. \A d \in Context : Done(d)' = Done(d)
  <2> TAKE d \in Context
  <2>1. calls[d] \in Nat
    BY DoneInt
  <2>2. CASE UNCHANGED calls /\ (from \in Logging <=> to \in Logging)
    BY <1>1, <2>2 DEF Done, TypeOK
  <2>3. CASE /\ from = "idle" /\ to = "load"
             /\ calls' = [calls EXCEPT ![c] = @ + 1]
    BY <1>1, <2>1, <2>3 DEF Done, TypeOK, Logging
  <2> QED BY <2>2, <2>3
<1>3. \/ pc'[MainBody] = pc[MainBody]
      \/ {pc[MainBody], pc'[MainBody]} \cap {"emit", "next", "clear"} = {}
  BY <1>1, Contexts DEF TypeOK
<1> QED BY <1>2, <1>3, Frame, ElsewhereSame

LEMMA AppendStep ==
  ASSUME TypeOK, LogInv, NEW c \in Context, AppendEntry(c)
  PROVE  ToldLocal' /\ ToldRemote' /\ QueuedRemote' /\ QueuedInOrder' /\ AtIterator'
<1> DEFINE last == Len(mEntryQueue) + 1
<1>1. /\ pc[c] = "append" /\ pc' = [pc EXCEPT ![c] = "post"]
      /\ UNCHANGED <<calls, delivered, entry>> /\ current' = last
  BY DEF AppendEntry, Step
<1>2. ~Owner(c) /\ calls[c] \in Nat /\ calls[c] >= 1
  BY <1>1, DoneInt DEF LogInv, RoleAt, Logging
<1>3. /\ Done(c) = calls[c] - 1 /\ Done(c)' = calls[c]
      /\ \A d \in Context : d # c => Done(d)' = Done(d)
  BY <1>1 DEF Done, Logging, TypeOK
<1>4. /\ DOMAIN mEntryQueue' = DOMAIN mEntryQueue \cup {last}
      /\ mEntryQueue'[last].by = c /\ mEntryQueue'[last].n = calls[c]
      /\ \A i \in DOMAIN mEntryQueue : mEntryQueue'[i] = mEntryQueue[i]
      /\ \A i \in DOMAIN mEntryQueue : i \in Nat /\ i < last
      /\ last \in Nat
  <2>1. mEntryQueue \in Seq(Entry)
    BY DEF TypeOK
  <2>2. EntryOf(c) \in Entry /\ EntryOf(c).by = c /\ EntryOf(c).n = calls[c]
    BY EntryTyped
  <2>3. mEntryQueue' = Append(mEntryQueue, EntryOf(c))
    BY DEF AppendEntry
  <2> HIDE DEF EntryOf
  <2> QED BY ONLY <2>1, <2>2, <2>3
<1>5. \A d : Told(d)' = Told(d)
  BY <1>1, ToldSame
<1>6. ToldLocal'
  BY <1>2, <1>3, <1>5 DEF LogInv, ToldLocal, Owner
<1>7. ToldRemote'
  <2> SUFFICES ASSUME NEW d \in Context, ~Owner(d) PROVE Told(d) \subseteq 1..Done(d)'
    BY <1>5 DEF ToldRemote, Owner
  <2>1. Told(d) \subseteq 1..Done(d)
    BY DEF LogInv, ToldRemote
  <2> QED BY <1>2, <1>3, <2>1
<1>8. QueuedRemote'
  <2> SUFFICES ASSUME NEW i \in DOMAIN mEntryQueue'
               PROVE  (~Owner(mEntryQueue[i].by) /\ mEntryQueue[i].n \in 1..Done(mEntryQueue[i].by))'
    BY DEF QueuedRemote
  <2>1. CASE i = last
    <3>1. Done(mEntryQueue[i].by)' = Done(c)'
      BY <1>4, <2>1 DEF Done
    <3> QED BY <1>2, <1>3, <1>4, <2>1, <3>1 DEF Owner
  <2>2. CASE i \in DOMAIN mEntryQueue
    <3>1. PICK d \in Context : mEntryQueue[i].by = d /\ ~Owner(d) /\ mEntryQueue[i].n \in 1..Done(d)
      BY <2>2, QueueTyped DEF LogInv, QueuedRemote
    <3>2. Done(mEntryQueue[i].by)' = Done(d)'
      BY <1>4, <2>2, <3>1 DEF Done
    <3>3. mEntryQueue[i].n \in 1..Done(d)'
      BY <1>2, <1>3, <3>1
    <3> QED BY <1>4, <2>2, <3>1, <3>2, <3>3 DEF Owner
  <2> QED BY <1>4, <2>1, <2>2
<1>9. QueuedInOrder'
  <2> SUFFICES ASSUME NEW i \in DOMAIN mEntryQueue', NEW j \in DOMAIN mEntryQueue', i < j,
                      mEntryQueue'[i].by = mEntryQueue'[j].by
               PROVE  mEntryQueue'[i].n < mEntryQueue'[j].n
    BY DEF QueuedInOrder
  <2>1. CASE j \in DOMAIN mEntryQueue
    <3>1. i \in DOMAIN mEntryQueue
      BY <1>4, <2>1
    <3> QED BY <1>4, <2>1, <3>1 DEF LogInv, QueuedInOrder
  <2>2. CASE j = last
    <3>1. i \in DOMAIN mEntryQueue /\ mEntryQueue[i].by = c
      BY <1>4, <2>2
    <3>2. mEntryQueue[i].n \in 1..Done(c)
      BY <3>1 DEF LogInv, QueuedRemote
    <3> QED BY <1>2, <1>3, <1>4, <2>2, <3>1, <3>2
  <2> QED BY <1>4, <2>1, <2>2
<1>10. ASSUME NEW k, Behind(k) PROVE Behind(k)'
  <2> SUFFICES ASSUME NEW i \in DOMAIN mEntryQueue', i >= k,
                      NEW m \in Told(mEntryQueue'[i].by)
               PROVE  m < mEntryQueue'[i].n
    BY <1>5 DEF Behind
  <2>1. CASE i \in DOMAIN mEntryQueue
    BY <1>4, <1>10, <2>1 DEF Behind
  <2>2. CASE i = last
    <3>1. m \in 1..Done(c)
      BY <1>2, <1>4, <2>2 DEF LogInv, ToldRemote
    <3> QED BY <1>2, <1>3, <1>4, <2>2, <3>1
  <2> QED BY <1>4, <2>1, <2>2
<1>11. AtIterator'
  <2>0. pc'[MainBody] = pc[MainBody]
    BY <1>1, <1>2, Contexts DEF TypeOK
  <2>1. Behind(1) => Behind(1)'
    BY <1>10
  <2>2. pc[MainBody] = "emit" =>
          \E k \in DOMAIN mEntryQueue' : k <= current' /\ entry' = mEntryQueue'[k] /\ Behind(k)'
    <3> SUFFICES ASSUME pc[MainBody] = "emit"
                 PROVE  \E k \in DOMAIN mEntryQueue' :
                          k <= current' /\ entry' = mEntryQueue'[k] /\ Behind(k)'
      OBVIOUS
    <3>1. PICK k \in DOMAIN mEntryQueue : entry = mEntryQueue[k] /\ Behind(k)
      BY DEF LogInv, AtIterator
    <3>2. Behind(k)'
      BY <3>1, <1>10
    <3> QED BY <1>1, <1>4, <3>1, <3>2
  <2>3. Behind(current + 1)'
    BY <1>1, <1>4 DEF Behind
  <2> QED BY <2>0, <2>1, <2>2, <2>3 DEF LogInv, AtIterator
<1> QED BY <1>6, <1>7, <1>8, <1>9, <1>11

(* The owner's context tells the entry it is logging: the one after all it *)
(* has told.                                                               *)
LEMMA DeliverStep ==
  ASSUME TypeOK, LogInv, NEW c \in Context, Deliver(c)
  PROVE  ToldLocal' /\ ToldRemote' /\ QueuedRemote' /\ QueuedInOrder' /\ AtIterator'
<1>1. /\ pc[c] = "deliver" /\ pc' = [pc EXCEPT ![c] = "unlock"]
      /\ UNCHANGED <<calls, mEntryQueue, current, entry>>
      /\ delivered' = Append(delivered, EntryOf(c))
  BY DEF Deliver, Step, queue
<1>2. Owner(c) /\ calls[c] \in Nat /\ calls[c] >= 1
  BY <1>1, DoneInt DEF LogInv, RoleAt, Logging
<1>3. /\ Done(c) = calls[c] - 1 /\ Done(c)' = calls[c]
      /\ \A d \in Context : d # c => Done(d)' = Done(d)
  BY <1>1 DEF Done, Logging, TypeOK
<1>4. /\ Told(c)' = Told(c) \cup {calls[c]}
      /\ \A d \in Context : d # c => Told(d)' = Told(d)
  BY <1>1, EntryTyped, ToldMore
<1>5. ToldLocal'
  <2>1. Told(c) = 1..(calls[c] - 1)
    BY <1>2, <1>3 DEF LogInv, ToldLocal
  <2>2. Told(c)' = 1..calls[c]
    BY <1>2, <1>4, <2>1
  <2> QED BY <1>3, <1>4, <2>2 DEF LogInv, ToldLocal, Owner
<1>6. ToldRemote'
  BY <1>2, <1>3, <1>4 DEF LogInv, ToldRemote, Owner
<1>7. \A i \in DOMAIN mEntryQueue :
        /\ mEntryQueue[i].by \in Context /\ mEntryQueue[i].by # c
        /\ ~Owner(mEntryQueue[i].by)
  BY <1>2, QueueTyped DEF LogInv, QueuedRemote
<1>8. QueuedRemote' /\ QueuedInOrder'
  <2>1. \A i \in DOMAIN mEntryQueue : Done(mEntryQueue[i].by)' = Done(mEntryQueue[i].by)
    BY <1>1, <1>7 DEF Done, TypeOK
  <2> QED BY <1>1, <2>1 DEF LogInv, QueuedRemote, QueuedInOrder, Owner
<1>9. ASSUME NEW k, Behind(k) PROVE Behind(k)'
  <2>1. \A i \in DOMAIN mEntryQueue : Told(mEntryQueue[i].by)' = Told(mEntryQueue[i].by)
    <3> TAKE i \in DOMAIN mEntryQueue
    <3>1. PICK d \in Context : mEntryQueue[i].by = d /\ d # c
      BY <1>7
    <3>2. Told(mEntryQueue[i].by)' = Told(d)'
      BY <1>1, <3>1 DEF Told, Abstract!Told
    <3> QED BY <1>4, <3>1, <3>2
  <2> QED BY <1>1, <1>9, <2>1 DEF Behind
<1>10. \/ pc'[MainBody] = pc[MainBody]
       \/ {pc[MainBody], pc'[MainBody]} \cap {"emit", "next", "clear"} = {}
  BY <1>1, Contexts DEF TypeOK
<1>11. AtIterator'
  BY <1>1, <1>9, <1>10 DEF LogInv, AtIterator
<1> QED BY <1>5, <1>6, <1>8, <1>11

(* event() takes an entry: all from there on are behind what was told.     *)
LEMMA IterateStep ==
  ASSUME TypeOK, LogInv, First \/ NextEntry
  PROVE  ToldLocal' /\ ToldRemote' /\ QueuedRemote' /\ QueuedInOrder' /\ AtIterator'
<1>1. PICK i \in Nat \ {0}, l \in {"first", "next"} :
        Iterate(l, i) /\ (l = "first" => i = 1) /\ (l = "next" => i = current + 1)
  BY DEF First, NextEntry, TypeOK
<1>2. /\ UNCHANGED <<delivered, mEntryQueue, calls>> /\ pc[MainBody] = l
      /\ \E m \in {"emit", "clear"} : pc' = [pc EXCEPT ![MainBody] = m]
  BY <1>1 DEF Iterate, Step, history
<1>3. \A c \in Context : Done(c)' = Done(c)
  BY <1>2, Contexts DEF Done, Logging, TypeOK
<1>4. Behind(i)
  BY <1>1, <1>2 DEF LogInv, AtIterator
<1>5. CASE i \in DOMAIN mEntryQueue
  <2>1. current' = i /\ entry' = mEntryQueue[i] /\ pc'[MainBody] = "emit"
    BY <1>1, <1>5, Contexts DEF Iterate, Step, TypeOK
  <2>2. Behind(i)'
    BY <1>2, <1>4, BehindSame
  <2>3. AtIterator'
    BY <1>1, <1>2, <1>5, <2>1, <2>2 DEF AtIterator
  <2> QED BY <1>2, <1>3, <2>3, Frame
<1>6. CASE i \notin DOMAIN mEntryQueue
  <2>1. pc'[MainBody] = "clear"
    BY <1>1, <1>6, Contexts DEF Iterate, Step, TypeOK
  <2> QED BY <1>2, <1>3, <2>1, Frame DEF AtIterator
<1> QED BY <1>5, <1>6

(* event() tells the entry it has taken.                                   *)
LEMMA EmitStep ==
  ASSUME TypeOK, LogInv, EmitEntry
  PROVE  ToldLocal' /\ ToldRemote' /\ QueuedRemote' /\ QueuedInOrder' /\ AtIterator'
<1>1. /\ pc[MainBody] = "emit" /\ pc' = [pc EXCEPT ![MainBody] = "next"]
      /\ UNCHANGED <<calls, mEntryQueue, current, entry>>
      /\ delivered' = Append(delivered, entry)
  BY DEF EmitEntry, Step, queue
<1>2. \A c \in Context : Done(c)' = Done(c)
  BY <1>1, Contexts DEF Done, Logging, TypeOK
<1>3. PICK k \in DOMAIN mEntryQueue : k <= current /\ entry = mEntryQueue[k] /\ Behind(k)
  BY <1>1 DEF LogInv, AtIterator
<1>4. /\ entry.by \in Context /\ ~Owner(entry.by) /\ entry.n \in 1..Done(entry.by)
      /\ entry \in Entry
  BY <1>3, QueueTyped DEF LogInv, QueuedRemote, TypeOK
<1>5. \A c \in Context : Told(c)' = IF entry.by = c THEN Told(c) \cup {entry.n} ELSE Told(c)
  BY <1>1, <1>4, ToldMore
<1>6. ToldLocal'
  BY <1>2, <1>4, <1>5 DEF LogInv, ToldLocal, Owner
<1>7. ToldRemote'
  BY <1>2, <1>4, <1>5 DEF LogInv, ToldRemote, Owner
<1>8. QueuedRemote' /\ QueuedInOrder'
  BY <1>1, <1>2, QueueTyped DEF LogInv, QueuedRemote, QueuedInOrder, Owner
<1>9. Behind(current + 1)'
  <2> SUFFICES ASSUME NEW i \in DOMAIN mEntryQueue, i >= current + 1,
                      NEW m \in Told(mEntryQueue[i].by)'
               PROVE  m < mEntryQueue[i].n
    BY <1>1 DEF Behind
  <2>1. /\ k < i /\ i >= k
    BY <1>3 DEF TypeOK
  <2>2. PICK d \in Context : mEntryQueue[i].by = d
    BY QueueTyped
  <2>3. Told(mEntryQueue[i].by)' = Told(d)'
    BY <1>1, <2>2 DEF Told, Abstract!Told
  <2>4. CASE m \in Told(d)
    BY <1>3, <2>1, <2>2, <2>4 DEF Behind
  <2>5. CASE m = entry.n /\ entry.by = d
    BY <1>3, <2>1, <2>2, <2>5 DEF LogInv, QueuedInOrder
  <2> QED BY <1>5, <2>3, <2>4, <2>5
<1>10. AtIterator'
  BY <1>1, <1>9, Contexts DEF AtIterator, TypeOK
<1> QED BY <1>6, <1>7, <1>8, <1>10

LEMMA ClearStep ==
  ASSUME TypeOK, LogInv, Clear
  PROVE  ToldLocal' /\ ToldRemote' /\ QueuedRemote' /\ QueuedInOrder' /\ AtIterator'
<1>1. /\ pc[MainBody] = "clear" /\ pc' = [pc EXCEPT ![MainBody] = "idle"]
      /\ UNCHANGED <<calls, delivered>> /\ DOMAIN mEntryQueue' = {}
  BY DEF Clear, Step, history
<1>2. \A c \in Context : Done(c)' = Done(c)
  BY <1>1, Contexts DEF Done, Logging, TypeOK
<1>3. ToldLocal' /\ ToldRemote'
  BY <1>1, <1>2, ToldSame DEF LogInv, ToldLocal, ToldRemote, Owner
<1>4. pc'[MainBody] = "idle"
  BY <1>1, Contexts DEF TypeOK
<1> QED BY <1>1, <1>3, <1>4 DEF QueuedRemote, QueuedInOrder, AtIterator, Behind

LEMMA LogStep == TypeOK /\ LogInv /\ [Next]_vars => LogInv'
<1> SUFFICES ASSUME TypeOK, LogInv, [Next]_vars
             PROVE  ToldLocal' /\ ToldRemote' /\ QueuedRemote' /\ QueuedInOrder' /\ AtIterator'
  BY RoleStep DEF LogInv
<1> DEFINE Goal == ToldLocal' /\ ToldRemote' /\ QueuedRemote' /\ QueuedInOrder' /\ AtIterator'
<1>1. ASSUME NEW t \in Thread, Call(t) \/ Signal(t) PROVE Goal
  <2>1. PICK c \in Context : /\ Step(c, "idle", "load")
                             /\ calls' = [calls EXCEPT ![c] = @ + 1]
                             /\ UNCHANGED <<queue, delivered>>
    BY <1>1, Contexts DEF Call, Signal, history
  <2> QED BY <2>1, QuietStep DEF queue, Label
<1>2. ASSUME NEW c \in Context, NEW from \in Label, NEW to \in Label, Step(c, from, to),
             from \notin {"emit", "next", "clear"}, to \notin {"emit", "next", "clear"},
             from \in Logging <=> to \in Logging, UNCHANGED <<queue, delivered, calls>>
      PROVE  Goal
  BY <1>2, QuietStep DEF queue
<1>3. ASSUME NEW c \in Context, Load(c) \/ Store(c) \/ Lock(c) \/ Post(c) \/ Unlock(c)
      PROVE  Goal
  BY <1>2, <1>3 DEF Load, Store, Lock, Post, Unlock, Label, Logging, history
<1>4. ASSUME NEW t \in Thread, HandlerQuits(t) PROVE Goal
  BY <1>2, <1>4, Contexts DEF HandlerQuits, Label, Logging, history
<1>5. CASE ShutdownCommand \/ Dispatch \/ ExecEnds
  BY <1>2, <1>5, Contexts DEF ShutdownCommand, Dispatch, ExecEnds, Label, Logging, history
<1>6. CASE UNCHANGED vars
  <2>1. UNCHANGED <<delivered, mEntryQueue, current, entry, calls, pc>>
    BY <1>6 DEF vars, queue, history
  <2>2. \A c \in Context : Done(c)' = Done(c)
    BY <2>1 DEF Done
  <2> QED BY <2>1, <2>2, Frame, ElsewhereSame
<1>7. ASSUME NEW c \in Context, Emit(c) PROVE Goal
  BY <1>3, <1>7, AppendStep, DeliverStep DEF Emit
<1>8. CASE EventLoop
  BY <1>5, <1>8, IterateStep, EmitStep, ClearStep DEF EventLoop
<1> QED
  BY <1>1, <1>4, <1>5, <1>6, <1>7, <1>8 DEF Next

LEMMA LogInit == Init => LogInv
<1> SUFFICES ASSUME Init PROVE LogInv
  OBVIOUS
<1>1. \A c \in Context : pc[c] = "idle" /\ Done(c) = 0
  BY DEF Init, Done, Logging
<1>2. DOMAIN delivered = {} /\ DOMAIN mEntryQueue = {}
  BY DEF Init
<1>3. \A c : Told(c) = {}
  BY <1>2 DEF Told, Abstract!Told
<1>4. ToldLocal /\ ToldRemote
  <2>1. 1..0 = {}
    OBVIOUS
  <2> QED BY <1>1, <1>3, <2>1 DEF ToldLocal, ToldRemote
<1>5. AtIterator
  BY <1>1, <1>2, Contexts DEF AtIterator, Behind
<1> QED BY <1>1, <1>2, <1>4, <1>5 DEF LogInv, RoleAt, QueuedRemote, QueuedInOrder, Logging

(* What is told is a step of EventLog, as is the beginning of a call.      *)
LEMMA AbstractStep ==
  TypeOK /\ LogInv /\ [Next]_vars => [Abstract!Next]_<<calls, delivered>>
<1> SUFFICES ASSUME TypeOK, LogInv, [Next]_vars
             PROVE  Abstract!Next \/ UNCHANGED <<calls, delivered>>
  OBVIOUS
<1>1. ASSUME NEW t \in Thread, Call(t) \/ Signal(t) PROVE Abstract!Next
  <2>1. PICK c \in Context : calls' = [calls EXCEPT ![c] = @ + 1] /\ UNCHANGED delivered
    BY <1>1, Contexts DEF Call, Signal, history
  <2> QED BY <2>1 DEF Abstract!Next, Abstract!Log
<1>2. ASSUME NEW c \in Context, Deliver(c) PROVE Abstract!Next
  <2>1. /\ pc[c] = "deliver" /\ UNCHANGED calls
        /\ delivered' = Append(delivered, [by |-> c, n |-> calls[c]])
    BY <1>2 DEF Deliver, Step, EntryOf
  <2>2. Owner(c) /\ calls[c] \in Nat /\ calls[c] >= 1 /\ Done(c) = calls[c] - 1
    BY <2>1, DoneInt DEF LogInv, RoleAt, Logging, Done
  <2>3. Abstract!Told(c) = 1..(calls[c] - 1)
    BY <2>2 DEF LogInv, ToldLocal, Told
  <2>4. calls[c] \in 1..calls[c] /\ \A m \in Abstract!Told(c) : m < calls[c]
    BY <2>2, <2>3
  <2>5. Abstract!Tell(c, calls[c])
    BY <2>1, <2>3, <2>4 DEF Abstract!Tell
  <2> QED BY <2>4, <2>5 DEF Abstract!Next
<1>3. CASE EmitEntry
  <2>1. /\ pc[MainBody] = "emit" /\ UNCHANGED <<calls, mEntryQueue>>
        /\ delivered' = Append(delivered, entry)
    BY <1>3 DEF EmitEntry, Step, queue
  <2>2. PICK k \in DOMAIN mEntryQueue : entry = mEntryQueue[k] /\ Behind(k)
    BY <2>1 DEF LogInv, AtIterator
  <2>3. PICK c \in Context, n \in Nat : entry = [by |-> c, n |-> n]
    BY DEF TypeOK, Entry
  <2>4. mEntryQueue[k].by = c /\ mEntryQueue[k].n = n
    BY <2>2, <2>3
  <2>5. ~Owner(c) /\ n \in 1..calls[c]
    <3>1. ~Owner(c) /\ n \in 1..Done(c)
      BY <2>4 DEF LogInv, QueuedRemote
    <3>2. Done(c) <= calls[c] /\ calls[c] \in Nat /\ Done(c) \in Int
      BY DoneInt DEF Done
    <3> QED BY <3>1, <3>2
  <2>6. \A m \in Abstract!Told(c) : m < n
    <3>1. k >= k
      BY DEF TypeOK
    <3> QED BY <2>2, <2>4, <3>1 DEF Behind, Told
  <2>7. Abstract!Tell(c, n)
    BY <2>1, <2>3, <2>5, <2>6 DEF Abstract!Tell
  <2> QED BY <2>5, <2>7 DEF Abstract!Next
<1>4. ASSUME NEW c \in Context,
             Load(c) \/ Store(c) \/ Lock(c) \/ AppendEntry(c) \/ Post(c) \/ Unlock(c)
      PROVE  UNCHANGED <<calls, delivered>>
  BY <1>4 DEF Load, Store, Lock, AppendEntry, Post, Unlock, history
<1>5. ASSUME NEW t \in Thread, HandlerQuits(t) PROVE UNCHANGED <<calls, delivered>>
  BY <1>5 DEF HandlerQuits, history
<1>6. CASE ShutdownCommand \/ Dispatch \/ First \/ NextEntry \/ Clear \/ ExecEnds
  BY <1>6 DEF ShutdownCommand, Dispatch, First, NextEntry, Iterate, Clear, ExecEnds, history
<1>7. CASE UNCHANGED vars
  BY <1>7 DEF vars, history
<1> QED
  BY <1>1, <1>2, <1>3, <1>4, <1>5, <1>6, <1>7 DEF Next, Emit, EventLoop

(***************************************************************************)
(* LogService implements EventLog: however calls, signals, events and the  *)
(* unlocked steps of event() interleave, listeners are told what was       *)
(* logged, once and in the order of each context, and all of it where the  *)
(* context is on the owner's thread.                                       *)
(***************************************************************************)
THEOREM Implements == Spec => ImplementsEventLog
<1>1. Init => Abstract!Init
  BY DEF Init, Abstract!Init
<1>2. TypeOK /\ LogInv /\ [Next]_vars => TypeOK' /\ LogInv'
  BY TypeStep, LogStep
<1> QED
  BY <1>1, <1>2, TypeInit, LogInit, AbstractStep, PTL
     DEF Spec, ImplementsEventLog, Abstract!Spec, Abstract!vars
=============================================================================
