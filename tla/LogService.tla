----------------------------- MODULE LogService -----------------------------
(***************************************************************************)
(* The log of the netdj2 engine (src/netdj2/engine/LogService.cpp) and     *)
(* those who call it: the main thread, which owns it and runs the event    *)
(* loop, other threads (the player), and sig_handler (main.cpp), which     *)
(* interrupts a thread at any point and logs from there.                   *)
(*                                                                         *)
(* A caller is a context: the body of a thread, or the signal handler that *)
(* runs on it while the body is suspended.  The list of delayed entries is *)
(* a QPtrList, external to this code: it has one current item, which       *)
(* append() moves to the item it adds.                                     *)
(***************************************************************************)
EXTENDS Integers, Sequences, FiniteSets

CONSTANTS
  Main,           (* The thread that owns the log: mOwnerThread.           *)
  Worker,         (* The other threads that log.                           *)
  Nobody,         (* Not a context: the holder of a free mutex.            *)
  MaxCalls,       (* Calls of Emit by each context. Bounds the model.      *)
  MaxSignals      (* Signals that arrive. Bounds the model.                *)

ASSUME ThreadAssumption == Main \notin Worker
ASSUME BoundAssumption  == MaxCalls \in Nat /\ MaxSignals \in Nat

Thread  == Worker \cup {Main}
Context == Thread \X {"body", "handler"}

ASSUME NobodyAssumption == Nobody \notin Context

VARIABLES
  mLogCount,      (* mLogCount                                             *)
  mEmitMutex,     (* The context that holds mEmitMutex, or Nobody.         *)
  mEntryQueue,    (* mEntryQueue, first to last.                           *)
  current,        (* Index of its current item, 0 if there is none.        *)
  entry,          (* entry of event()                                      *)
  events,         (* QEvent::User events posted and not yet dispatched.    *)
  quit,           (* QApplication::quit() has been called.                 *)
  pc,             (* Where each context is.                                *)
  count,          (* What a context read of mLogCount for ++mLogCount.     *)
  calls,          (* Calls of Emit begun by each context (bounded).        *)
  signals,        (* Signals so far (bounded).                             *)
  issued,         (* History: the entries and the ids they were given.     *)
  appended,       (* History: entries appended to the queue.               *)
  delivered       (* History: entries NewLogEntry was emitted with.        *)

queue   == <<mEntryQueue, current, entry>>
history == <<issued, appended, delivered>>
vars    == <<mLogCount, mEmitMutex, queue, events, quit, pc, count, calls, signals, history>>

Body(t)    == <<t, "body">>
Handler(t) == <<t, "handler">>
MainBody   == Body(Main)
Owner(c)   == c[1] = Main

(* The entry a context is logging: its own, numbered by its calls. *)
Entry       == [by : Context, n : Nat]
EntryOf(c)  == [by |-> c, n |-> calls[c]]

Runs(c) == c[2] = "handler" \/ pc[Handler(c[1])] = "idle"

Step(c, from, to) ==
  /\ Runs(c)
  /\ pc[c] = from
  /\ pc' = [pc EXCEPT ![c] = to]

Init ==
  /\ mLogCount = 0
  /\ mEmitMutex = Nobody
  /\ mEntryQueue = <<>>
  /\ current = 0
  /\ entry = [by |-> MainBody, n |-> 0]
  /\ events = 0
  /\ quit = FALSE
  /\ pc = [c \in Context |-> "idle"]
  /\ count = [c \in Context |-> 0]
  /\ calls = [c \in Context |-> 0]
  /\ signals = 0
  /\ issued = {}
  /\ appended = {}
  /\ delivered = <<>>

-----------------------------------------------------------------------------
(***************************************************************************)
(* A thread calls one of the Log... slots.  Building the entry touches     *)
(* nothing shared but mDocument; then comes Emit.                          *)
(***************************************************************************)
Call(t) ==
  /\ Step(Body(t), "idle", "load")
  /\ calls[Body(t)] < MaxCalls
  /\ calls' = [calls EXCEPT ![Body(t)] = @ + 1]
  /\ UNCHANGED <<mLogCount, mEmitMutex, queue, events, quit, count, signals, history>>

(* ++mLogCount, a plain unsigned int: a load and a store, without a lock. *)
Load(c) ==
  /\ Step(c, "load", "store")
  /\ count' = [count EXCEPT ![c] = mLogCount]
  /\ UNCHANGED <<mLogCount, mEmitMutex, queue, events, quit, calls, signals, history>>

Store(c) ==
  /\ Step(c, "store", "lock")
  /\ mLogCount' = count[c] + 1
  /\ issued' = issued \cup {[entry |-> EntryOf(c), id |-> count[c] + 1]}
  /\ UNCHANGED <<mEmitMutex, queue, events, quit, count, calls, signals, appended, delivered>>

Lock(c) ==
  /\ Step(c, "lock", IF Owner(c) THEN "deliver" ELSE "append")
  /\ mEmitMutex = Nobody
  /\ mEmitMutex' = c
  /\ UNCHANGED <<mLogCount, queue, events, quit, count, calls, signals, history>>

(* emit NewLogEntry: the slots run here, before emit returns. *)
Deliver(c) ==
  /\ Step(c, "deliver", "unlock")
  /\ delivered' = Append(delivered, EntryOf(c))
  /\ UNCHANGED <<mLogCount, mEmitMutex, queue, events, quit, count, calls, signals,
                 issued, appended>>

(* mEntryQueue.append(...) makes the new item the current one. *)
AppendEntry(c) ==
  /\ Step(c, "append", "post")
  /\ mEntryQueue' = Append(mEntryQueue, EntryOf(c))
  /\ current' = Len(mEntryQueue) + 1
  /\ appended' = appended \cup {EntryOf(c)}
  /\ UNCHANGED <<mLogCount, mEmitMutex, entry, events, quit, count, calls, signals,
                 issued, delivered>>

(* Mutant: an event is posted only for an entry that has company. *)
PostForMany(c) ==
  /\ Step(c, "post", "unlock")
  /\ events' = IF Len(mEntryQueue) > 1 THEN events + 1 ELSE events
  /\ UNCHANGED <<mLogCount, mEmitMutex, queue, quit, count, calls, signals, history>>

Post(c) ==
  /\ Step(c, "post", "unlock")
  /\ events' = events + 1
  /\ UNCHANGED <<mLogCount, mEmitMutex, queue, quit, count, calls, signals, history>>

(* The QMutexLocker goes out of scope; sig_handler goes on to quit(). *)
Unlock(c) ==
  /\ Step(c, "unlock", IF c[2] = "handler" THEN "quit" ELSE "idle")
  /\ mEmitMutex' = Nobody
  /\ UNCHANGED <<mLogCount, queue, events, quit, count, calls, signals, history>>

-----------------------------------------------------------------------------
(***************************************************************************)
(* sig_handler: LogMessage, then mainApp->quit().  The signal is given to  *)
(* any thread of the process, whatever it is doing.                        *)
(***************************************************************************)
Signal(t) ==
  /\ signals < MaxSignals
  /\ signals' = signals + 1
  /\ Step(Handler(t), "idle", "load")
  /\ calls' = [calls EXCEPT ![Handler(t)] = @ + 1]
  /\ UNCHANGED <<mLogCount, mEmitMutex, queue, events, quit, count, history>>

HandlerQuits(t) ==
  /\ Step(Handler(t), "quit", "idle")
  /\ quit' = TRUE
  /\ UNCHANGED <<mLogCount, mEmitMutex, queue, events, count, calls, signals, history>>

(* Server: a shutdown command ends in quit(), on the main thread. *)
ShutdownCommand ==
  /\ Step(MainBody, "idle", "idle")
  /\ quit' = TRUE
  /\ UNCHANGED <<mLogCount, mEmitMutex, queue, events, count, calls, signals, history>>

-----------------------------------------------------------------------------
(***************************************************************************)
(* The event loop of the main thread, and LogService::event, which goes    *)
(* through mEntryQueue and clears it without mEmitMutex.                   *)
(***************************************************************************)
Dispatch ==
  /\ Step(MainBody, "idle", "first")
  /\ ~quit
  /\ events > 0
  /\ events' = events - 1
  /\ UNCHANGED <<mLogCount, mEmitMutex, queue, quit, count, calls, signals, history>>

(* The iterator stops where there is no item: first() and next() are 0. *)
Iterate(from, i) ==
  /\ IF i \in DOMAIN mEntryQueue
       THEN /\ Step(MainBody, from, "emit")
            /\ current' = i
            /\ entry' = mEntryQueue[i]
       ELSE /\ Step(MainBody, from, "clear")
            /\ current' = 0
            /\ UNCHANGED entry
  /\ UNCHANGED <<mLogCount, mEmitMutex, mEntryQueue, events, quit, count, calls, signals, history>>

First == Iterate("first", 1)

NextEntry == Iterate("next", current + 1)

EmitEntry ==
  /\ Step(MainBody, "emit", "next")
  /\ delivered' = Append(delivered, entry)
  /\ UNCHANGED <<mLogCount, mEmitMutex, queue, events, quit, count, calls, signals,
                 issued, appended>>

(* Mutant: event() does not clear the queue. *)
ClearNot ==
  /\ Step(MainBody, "clear", "idle")
  /\ UNCHANGED <<mLogCount, mEmitMutex, queue, events, quit, count, calls, signals, history>>

Clear ==
  /\ Step(MainBody, "clear", "idle")
  /\ mEntryQueue' = <<>>
  /\ current' = 0
  /\ UNCHANGED <<mLogCount, mEmitMutex, entry, events, quit, count, calls, signals, history>>

(* exec() returns: mainloop stops the player and waits for it to end. *)
ExecEnds ==
  /\ Step(MainBody, "idle", "gone")
  /\ quit
  /\ UNCHANGED <<mLogCount, mEmitMutex, queue, events, quit, count, calls, signals, history>>

-----------------------------------------------------------------------------
Emit(c) ==
  \/ Load(c)
  \/ Store(c)
  \/ Lock(c)
  \/ Deliver(c)
  \/ AppendEntry(c)
  \/ Post(c)
  \/ Unlock(c)

EventLoop == Dispatch \/ First \/ NextEntry \/ EmitEntry \/ Clear \/ ExecEnds

Next ==
  \/ \E t \in Thread : Call(t) \/ Signal(t) \/ HandlerQuits(t)
  \/ \E c \in Context : Emit(c)
  \/ EventLoop
  \/ ShutdownCommand

Spec == Init /\ [][Next]_vars

(***************************************************************************)
(* A call of Emit that has begun goes on whenever it can (the mutex is     *)
(* free again and again), and the event loop dispatches what is posted.    *)
(* Nobody has to log, to send a signal or to shut down.                    *)
(***************************************************************************)
Fairness ==
  /\ \A c \in Context : WF_vars(Emit(c))
  /\ \A t \in Thread : WF_vars(HandlerQuits(t))
  /\ WF_vars(EventLoop)

FairSpec == Spec /\ Fairness

-----------------------------------------------------------------------------
Label == {"idle", "load", "store", "lock", "deliver", "append", "post", "unlock", "quit",
          "first", "emit", "next", "clear", "gone"}

TypeOK ==
  /\ mLogCount \in Nat
  /\ mEmitMutex \in Context \cup {Nobody}
  /\ mEntryQueue \in Seq(Entry)
  /\ current \in 0..Len(mEntryQueue)
  /\ entry \in Entry
  /\ events \in Nat
  /\ quit \in BOOLEAN
  /\ pc \in [Context -> Label]
  /\ count \in [Context -> Nat]
  /\ calls \in [Context -> Nat]
  /\ signals \in 0..MaxSignals
  /\ issued \subseteq [entry : Entry, id : Nat]
  /\ appended \subseteq Entry
  /\ delivered \in Seq(Entry)

(***************************************************************************)
(* LogService implements EventLog: however appends and events interleave   *)
(* with event(), listeners are told no entry that was not logged and none  *)
(* twice, those of one context in the order they were logged, and those of *)
(* the contexts on the owner's thread without a gap.                       *)
(***************************************************************************)
Abstract == INSTANCE EventLog WITH
  Caller <- Context, Local <- {c \in Context : Owner(c)},
  logged <- calls, told <- delivered

ImplementsEventLog == Abstract!Spec

(***************************************************************************)
(* No entry is left in the queue with nobody on the way to fetch it: an    *)
(* event is pending, event() is at work and will clear it, or the context  *)
(* that appended it is about to post the event.                            *)
(***************************************************************************)
Fetching ==
  \/ events > 0
  \/ pc[MainBody] \in {"first", "emit", "next", "clear"}
  \/ \E c \in Context : pc[c] = "post"

NoStuckEntry == mEntryQueue # <<>> => Fetching

(***************************************************************************)
(* "Emits the NewLogEntry signal _serialized_" (LogService.h:86): one      *)
(* emission is over before the next begins.                                *)
(***************************************************************************)
Emitting   == {c \in Context : pc[c] \in {"deliver", "emit"}}
Serialized == Cardinality(Emitting) <= 1

(***************************************************************************)
(* "All entries have a unique id" (LogService.h:35-36).                    *)
(***************************************************************************)
UniqueIds == \A x, y \in issued : x.id = y.id => x.entry = y.entry

(***************************************************************************)
(* "Upon receiving the event (in the parent context) the queued entries    *)
(* are processed" (LogService.h:42-43): what was appended and is no longer *)
(* queued has been delivered.                                              *)
(***************************************************************************)
QueuedIsProcessed ==
  \A e \in appended :
    \/ \E i \in DOMAIN mEntryQueue : mEntryQueue[i] = e
    \/ \E i \in DOMAIN delivered : delivered[i] = e

(***************************************************************************)
(* "a NewLogEntry() signal does not spawn another call to LogService in    *)
(* the same context. This will make Emit() wait for itself"                *)
(* (LogService.h:45-47): nobody waits for a mutex its own thread holds.    *)
(***************************************************************************)
NoSelfWait ==
  \A c \in Context :
    pc[c] = "lock" /\ Runs(c) => ~(mEmitMutex # Nobody /\ mEmitMutex[1] = c[1])

(***************************************************************************)
(* A queued entry does not stay: the event loop takes it out, unless the   *)
(* application quits or the main thread waits for itself (NoSelfWait).     *)
(***************************************************************************)
QueueDrains ==
  mEntryQueue # <<>> ~> (mEntryQueue = <<>> \/ quit \/ ~NoSelfWait)
=============================================================================
