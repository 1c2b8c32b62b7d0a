------------------------- MODULE DaemonPlayerProofs -------------------------
(***************************************************************************)
(* Proofs about DaemonPlayer, for any number of threads, any files and any *)
(* value of the bounds.                                                    *)
(*                                                                         *)
(* TypeOK alone is not inductive: a thread that puts a song on must hold   *)
(* one.  OnlyDeletable and DeletionLedger need in addition that a delete   *)
(* flag in a slot belongs to a deletable song; GivenOnce needs that every  *)
(* id handed out lies below the counter of its list; DeletedAfterPlayAlone *)
(* needs all of that, and that nothing is ever put on twice.               *)
(***************************************************************************)
EXTENDS DaemonPlayer, SequenceTheorems, FiniteSetTheorems, TLAPS

Holding == {"exists", "differs", "set", "open", "stream"}

(***************************************************************************)
(* A thread between GetSong and the end of the stream holds a song of a    *)
(* list, not the empty File.                                               *)
(***************************************************************************)
HeldSong == \A t \in Thread : pc[t] \in Holding => song[t] \in Song

TypeInv == TypeOK /\ HeldSong

LEMMA ListFacts ==
  /\ Playlists \subseteq Lists
  /\ \A l \in Playlists : FilesOf(l) \subseteq RequestFile \cup CacheFile
  /\ \A l \in Lists : FilesOf(l) \subseteq File
  /\ NoSong \notin Song
BY FileAssumption
   DEF Playlists, Lists, FilesOf, File, NoSong, Song, Request, Cache, Share

(***************************************************************************)
(* InternalSet keeps the slots, the disk and the ledger of unlinked songs  *)
(* well typed, whatever it is given to put on.                             *)
(***************************************************************************)
LEMMA InternalSetType ==
  ASSUME TypeOK, NEW f \in Song \cup {NoSong}, NEW d \in BOOLEAN,
         InternalSet(f, d), prev.del => prev.file \in Song
  PROVE  /\ curr' \in [file : Song \cup {NoSong}, del : BOOLEAN]
         /\ prev' \in [file : Song \cup {NoSong}, del : BOOLEAN]
         /\ disk' \subseteq File
         /\ unlinked' \subseteq Song
BY DEF TypeOK, InternalSet, Slot

(***************************************************************************)
(* A slot whose flag says delete holds a song that may be deleted.         *)
(***************************************************************************)
SlotsSound ==
  /\ curr.del => curr.file \in Song /\ DeleteIt(curr.file.list)
  /\ prev.del => prev.file \in Song /\ DeleteIt(prev.file.list)

DeleteInv == TypeInv /\ SlotsSound /\ OnlyDeletable /\ DeletionLedger

LEMMA DeleteInit == Init => DeleteInv
<1> SUFFICES ASSUME Init PROVE DeleteInv
  OBVIOUS
<1> USE DEF Init
<1>1. pc \in [Thread -> {"none", "enter"}]
  OBVIOUS
<1>2. TypeOK
  <2>1. queue \in [Playlists -> Seq(Song)] /\ nextfileid \in [Playlists -> Nat]
    OBVIOUS
  <2>2. landed \in [RequestFile \cup CacheFile -> 0..MaxLandings]
    BY BoundAssumption
  <2>3. left \in [Thread -> 0..SongBlocks] /\ commands \in 0..MaxCommands
    BY BoundAssumption
  <2>4. song \in [Thread -> Song \cup {NoSong}]
    OBVIOUS
  <2>5. pc \in [Thread -> Label]
    BY <1>1 DEF Label
  <2> QED
    BY <2>1, <2>2, <2>3, <2>4, <2>5 DEF TypeOK, EmptySlot, Slot, File
<1>3. HeldSong
  BY <1>1 DEF HeldSong, Holding
<1>4. SlotsSound /\ OnlyDeletable /\ DeletionLedger
  BY DEF SlotsSound, OnlyDeletable, DeletionLedger, InSlots, EmptySlot, Slot
<1> QED
  BY <1>2, <1>3, <1>4 DEF DeleteInv, TypeInv

(***************************************************************************)
(* The steps that leave slots and history alone disturb only the type.     *)
(***************************************************************************)
LEMMA SlotsFrame ==
  ASSUME SlotsSound, OnlyDeletable, DeletionLedger,
         UNCHANGED <<curr, prev, marked, unlinked>>
  PROVE  SlotsSound' /\ OnlyDeletable' /\ DeletionLedger'
BY DEF SlotsSound, OnlyDeletable, DeletionLedger, InSlots

(***************************************************************************)
(* InternalSet with a flag that is right for its song, and the song        *)
(* entered in marked when the flag is up, keeps the ledger balanced: what  *)
(* leaves the previous slot is unlinked in the same step.                  *)
(***************************************************************************)
LEMMA InternalSetLedger ==
  ASSUME TypeOK, SlotsSound, OnlyDeletable, DeletionLedger,
         NEW f \in Song \cup {NoSong}, NEW d \in BOOLEAN,
         d => f \in Song /\ DeleteIt(f.list),
         InternalSet(f, d),
         marked' = IF d THEN marked \cup {f} ELSE marked
  PROVE  SlotsSound' /\ OnlyDeletable' /\ DeletionLedger'
<1>1. curr' = [file |-> f, del |-> d] /\ prev' = curr
  BY DEF InternalSet, Slot
<1>2. unlinked' = IF prev.del THEN unlinked \cup {prev.file} ELSE unlinked
  BY DEF InternalSet
<1>3. SlotsSound'
  BY <1>1 DEF SlotsSound
<1>4. OnlyDeletable'
  BY <1>2 DEF OnlyDeletable, SlotsSound
<1>5. InSlots = (IF curr.del THEN {curr.file} ELSE {}) \cup (IF prev.del THEN {prev.file} ELSE {})
  BY DEF InSlots
<1>6. InSlots' = (IF d THEN {f} ELSE {}) \cup (IF curr.del THEN {curr.file} ELSE {})
  BY <1>1 DEF InSlots
<1>7. DeletionLedger'
  BY <1>2, <1>5, <1>6 DEF DeletionLedger
<1> QED
  BY <1>3, <1>4, <1>7

(***************************************************************************)
(* A step of a player thread, one case per statement of player_thread.     *)
(***************************************************************************)
LEMMA ThreadStepDelete ==
  ASSUME DeleteInv, NEW t \in Thread, ThreadStep(t)
  PROVE  DeleteInv'
<1> USE DEF DeleteInv, TypeInv
<1>0. TypeOK /\ HeldSong /\ SlotsSound /\ OnlyDeletable /\ DeletionLedger
  OBVIOUS
<1>1. CASE Enter(t)
  <2>1. TypeOK' /\ HeldSong'
    BY <1>1 DEF Enter, Goto, TypeOK, HeldSong, Holding, Label, lists, history, slots
  <2> QED
    BY <2>1, <1>1, SlotsFrame DEF Enter, slots, history
<1>2. CASE EnterNext(t)
  <2>1. TypeOK' /\ HeldSong'
    BY <1>2 DEF EnterNext, Goto, TypeOK, HeldSong, Holding, Label, lists, history, slots
  <2> QED
    BY <2>1, <1>2, SlotsFrame DEF EnterNext, slots, history
<1>3. CASE Connect(t)
  <2>1. TypeOK' /\ HeldSong'
    BY <1>3 DEF Connect, Goto, TypeOK, HeldSong, Holding, Label, lists, history, slots
  <2> QED
    BY <2>1, <1>3, SlotsFrame DEF Connect, slots, history
<1>4. CASE While(t)
  <2>1. TypeOK' /\ HeldSong'
    BY <1>4 DEF While, Goto, TypeOK, HeldSong, Holding, Label, lists, history, slots, flags
  <2> QED
    BY <2>1, <1>4, SlotsFrame DEF While, slots, history
<1>5. CASE Reset(t)
  <2>1. TypeOK' /\ HeldSong'
    BY <1>5 DEF Reset, Goto, TypeOK, HeldSong, Holding, Label, lists, history, slots
  <2> QED
    BY <2>1, <1>5, SlotsFrame DEF Reset, slots, history
<1>6. ASSUME NEW l \in Playlists, GetFromPlaylist(t, l)
      PROVE  DeleteInv'
  <2>1. CASE queue[l] # <<>>
    <3>1. Head(queue[l]) \in Song /\ Tail(queue[l]) \in Seq(Song)
      BY <2>1 DEF TypeOK
    <3>2. /\ pc' = [pc EXCEPT ![t] = "exists"]
          /\ song' = [song EXCEPT ![t] = Head(queue[l])]
          /\ queue' = [queue EXCEPT ![l] = Tail(queue[l])]
      BY <1>6, <2>1 DEF GetFromPlaylist, Goto
    <3>3. queue' \in [Playlists -> Seq(Song)]
      BY <3>1, <3>2 DEF TypeOK
    <3>4. song' \in [Thread -> Song \cup {NoSong}] /\ pc' \in [Thread -> Label]
      BY <3>1, <3>2 DEF TypeOK, Label
    <3>5. TypeOK'
      BY <1>6, <3>3, <3>4 DEF TypeOK, GetFromPlaylist, flags, slots, history
    <3>6. HeldSong'
      BY <3>1, <3>2 DEF TypeOK, HeldSong
    <3> QED
      BY <3>5, <3>6, <1>6, SlotsFrame DEF GetFromPlaylist, slots, history
  <2>2. CASE queue[l] = <<>>
    <3>1. l = 0 \/ l = 1
      BY DEF Playlists, Request, Cache
    <3>2. pc' = [pc EXCEPT ![t] = GetLabel(l + 1)] /\ UNCHANGED <<song, queue>>
      BY <1>6, <2>2 DEF GetFromPlaylist, Goto
    <3>3. GetLabel(l + 1) \in {"get_cache", "get_share"}
      BY <3>1 DEF GetLabel, Request, Cache, Share
    <3>4. TypeOK'
      BY <1>6, <3>2, <3>3 DEF TypeOK, Label, GetFromPlaylist, flags, slots, history
    <3>5. HeldSong'
      BY <3>2, <3>3 DEF TypeOK, HeldSong, Holding
    <3> QED
      BY <3>4, <3>5, <1>6, SlotsFrame DEF GetFromPlaylist, slots, history
  <2> QED
    BY <2>1, <2>2
<1>7. CASE GetFromShare(t)
  <2>1. CASE pc' = [pc EXCEPT ![t] = "clear"] /\ UNCHANGED song
    <3>1. TypeOK' /\ HeldSong'
      BY <1>7, <2>1 DEF GetFromShare, TypeOK, HeldSong, Holding, Label, lists, history, slots, flags
    <3> QED
      BY <3>1, <1>7, SlotsFrame DEF GetFromShare, slots, history
  <2>2. ASSUME NEW f \in ShareFile, pc' = [pc EXCEPT ![t] = "exists"],
               song' = [song EXCEPT ![t] = [list |-> Share, name |-> f, id |-> 0]]
        PROVE  DeleteInv'
    <3>1. [list |-> Share, name |-> f, id |-> 0] \in Song
      BY DEF Song, Lists, File
    <3>2. song' \in [Thread -> Song \cup {NoSong}] /\ pc' \in [Thread -> Label]
      BY <2>2, <3>1 DEF TypeOK, Label
    <3>3. TypeOK'
      BY <1>7, <3>2 DEF GetFromShare, TypeOK, lists, history, slots, flags
    <3>4. HeldSong'
      BY <2>2, <3>1 DEF TypeOK, HeldSong
    <3> QED
      BY <3>3, <3>4, <1>7, SlotsFrame DEF GetFromShare, slots, history
  <2> QED
    BY <1>7, <2>1, <2>2 DEF GetFromShare, Goto, GetLabel, Request, Cache, Share
<1>8. CASE ClearIdle(t)
  <2>1. TypeOK' /\ HeldSong'
    BY <1>8, InternalSetType DEF ClearIdle, Goto, SlotsSound, TypeOK, HeldSong, Holding, Label, lists, flags
  <2>2. marked' = IF FALSE THEN marked \cup {NoSong} ELSE marked
    BY <1>8 DEF ClearIdle
  <2> QED
    BY <1>8, <2>1, <2>2, InternalSetLedger DEF ClearIdle
<1>9. CASE Wake(t)
  <2>1. TypeOK' /\ HeldSong'
    BY <1>9 DEF Wake, Goto, TypeOK, HeldSong, Holding, Label, lists, history, slots, flags
  <2> QED
    BY <2>1, <1>9, SlotsFrame DEF Wake, slots, history
<1>10. CASE Exists(t)
  <2>1. TypeOK' /\ HeldSong'
    BY <1>10 DEF Exists, Goto, TypeOK, HeldSong, Holding, Label, lists, history, slots, flags
  <2> QED
    BY <2>1, <1>10, SlotsFrame DEF Exists, slots, history
<1>11. CASE Differs(t)
  <2>1. TypeOK' /\ HeldSong'
    BY <1>11 DEF Differs, Goto, TypeOK, HeldSong, Holding, Label, lists, history, slots, flags
  <2> QED
    BY <2>1, <1>11, SlotsFrame DEF Differs, slots, history
<1>12. CASE SetCurrent(t)
  <2>1. song[t] \in Song
    BY <1>12 DEF SetCurrent, Goto, HeldSong, Holding
  <2>2. DeleteIt(song[t].list) \in BOOLEAN
    BY OptionAssumption DEF DeleteIt
  <2>3. TypeOK' /\ HeldSong'
    BY <1>12, <2>1, <2>2, InternalSetType
       DEF SetCurrent, Goto, SlotsSound, TypeOK, HeldSong, Holding, Label, lists, flags
  <2> QED
    BY <1>12, <2>1, <2>2, <2>3, InternalSetLedger DEF SetCurrent
<1>13. CASE Open(t)
  <2>1. song[t] \in Song
    BY <1>13 DEF Open, Goto, HeldSong, Holding
  <2>2. opened' \subseteq Song
    BY <1>13, <2>1 DEF Open, TypeOK
  <2>3. left' \in [Thread -> 0..SongBlocks]
    BY <1>13, BoundAssumption DEF Open, TypeOK
  <2>4. TypeOK' /\ HeldSong'
    BY <1>13, <2>2, <2>3 DEF Open, Goto, TypeOK, HeldSong, Holding, Label, lists, slots, flags
  <2> QED
    BY <2>4, <1>13, SlotsFrame DEF Open, slots
<1>14. CASE SendBlock(t)
  <2>1. left' \in [Thread -> 0..SongBlocks]
    BY <1>14, BoundAssumption DEF SendBlock, TypeOK
  <2>2. TypeOK' /\ HeldSong'
    BY <1>14, <2>1 DEF SendBlock, Goto, TypeOK, HeldSong, Holding, Label, lists, history, slots, flags
  <2> QED
    BY <2>2, <1>14, SlotsFrame DEF SendBlock, slots, history
<1>15. CASE EndStream(t)
  <2>1. TypeOK' /\ HeldSong'
    BY <1>15 DEF EndStream, Goto, TypeOK, HeldSong, Holding, Label, lists, history, slots, flags
  <2> QED
    BY <2>1, <1>15, SlotsFrame DEF EndStream, slots, history
<1>16. CASE Exit(t)
  <2>1. TypeOK' /\ HeldSong'
    BY <1>16, InternalSetType DEF Exit, Goto, SlotsSound, TypeOK, HeldSong, Holding, Label, lists, flags
  <2>2. marked' = IF FALSE THEN marked \cup {NoSong} ELSE marked
    BY <1>16 DEF Exit
  <2> QED
    BY <1>16, <2>1, <2>2, InternalSetLedger DEF Exit
<1> QED
  BY <1>1, <1>2, <1>3, <1>4, <1>5, <1>6, <1>7, <1>8, <1>9, <1>10, <1>11, <1>12,
     <1>13, <1>14, <1>15, <1>16 DEF ThreadStep

(***************************************************************************)
(* A step of the HTTP thread or of the environment leaves slots, ledger    *)
(* and held songs alone.                                                   *)
(***************************************************************************)
LEMMA CommandStepDelete ==
  ASSUME DeleteInv, ComNext \/ ComStop \/ ComStart \/ HttpContinues
  PROVE  DeleteInv'
<1> USE DEF DeleteInv, TypeInv
<1>1. CASE ComNext
  <2>1. TypeOK' /\ HeldSong'
    BY <1>1, BoundAssumption DEF ComNext, Command, TypeOK, HeldSong, lists, slots, player
  <2> QED
    BY <2>1, <1>1, SlotsFrame DEF ComNext, slots
<1>2. CASE ComStop
  <2>1. TypeOK' /\ HeldSong'
    BY <1>2, BoundAssumption DEF ComStop, Command, TypeOK, HeldSong, lists, slots, player
  <2> QED
    BY <2>1, <1>2, SlotsFrame DEF ComStop, slots
<1>3. CASE ComStart
  <2>1. commands' \in 0..MaxCommands /\ http' = "create" /\ stop_player' = FALSE
    BY <1>3, BoundAssumption DEF ComStart, Command, TypeOK
  <2>2. UNCHANGED <<next_song, slots, disk, lists, player, history>>
    BY <1>3 DEF ComStart
  <2>3. TypeOK' /\ HeldSong'
    BY <2>1, <2>2 DEF TypeOK, HeldSong, lists, slots, player, history
  <2> QED
    BY <2>2, <2>3, SlotsFrame DEF slots, history
<1>4. CASE ComStopKill
  <2>1. TypeOK' /\ HeldSong'
    BY <1>4 DEF ComStopKill, TypeOK, HeldSong, lists, slots, player, history
  <2> QED
    BY <2>1, <1>4, SlotsFrame DEF ComStopKill, slots, history
<1>5. CASE ComStartCreate
  <2>1. TypeOK' /\ HeldSong'
    BY <1>5 DEF ComStartCreate, Goto, TypeOK, HeldSong, Holding, Label, flags, lists, slots, history
  <2> QED
    BY <2>1, <1>5, SlotsFrame DEF ComStartCreate, slots, history
<1> QED
  BY <1>1, <1>2, <1>3, <1>4, <1>5 DEF HttpContinues

LEMMA LandDelete ==
  ASSUME DeleteInv, NEW l \in Playlists, NEW f \in RequestFile \cup CacheFile, Land(l, f)
  PROVE  DeleteInv'
<1> USE DEF DeleteInv, TypeInv
<1>1. [list |-> l, name |-> f, id |-> nextfileid[l]] \in Song
  BY ListFacts DEF Song, TypeOK, File
<1>2. queue' \in [Playlists -> Seq(Song)]
  BY <1>1 DEF Land, TypeOK
<1>3. nextfileid' \in [Playlists -> Nat] /\ landed' \in [RequestFile \cup CacheFile -> 0..MaxLandings]
  BY BoundAssumption DEF Land, TypeOK
<1>4. TypeOK' /\ HeldSong'
  BY <1>2, <1>3 DEF Land, TypeOK, HeldSong, File, flags, slots, player, history
<1> QED
  BY <1>4, SlotsFrame DEF Land, slots, history

LEMMA VanishDelete ==
  ASSUME DeleteInv, NEW f \in File, Vanish(f)
  PROVE  DeleteInv'
<1> USE DEF DeleteInv, TypeInv
<1>1. TypeOK' /\ HeldSong'
  BY DEF Vanish, TypeOK, HeldSong, flags, slots, lists, player, history
<1> QED
  BY <1>1, SlotsFrame DEF Vanish, slots, history

LEMMA DeleteStep == DeleteInv /\ [Next]_vars => DeleteInv'
<1> SUFFICES ASSUME DeleteInv, [Next]_vars PROVE DeleteInv'
  OBVIOUS
<1>1. ASSUME NEW t \in Thread, ThreadStep(t) PROVE DeleteInv'
  BY <1>1, ThreadStepDelete
<1>2. CASE ComNext \/ ComStop \/ ComStart \/ HttpContinues
  BY <1>2, CommandStepDelete
<1>3. CASE Environment
  BY <1>3, LandDelete, VanishDelete DEF Environment
<1>4. CASE UNCHANGED vars
  <2>1. TypeOK' /\ HeldSong'
    BY <1>4 DEF DeleteInv, TypeInv, TypeOK, HeldSong, vars, flags, slots, lists, player, history
  <2> QED
    BY <1>4, <2>1, SlotsFrame DEF DeleteInv, TypeInv, vars, slots, history
<1> QED
  BY <1>1, <1>2, <1>3, <1>4 DEF Next

(***************************************************************************)
(* Every variable of the player keeps its type, in every behaviour.        *)
(***************************************************************************)
THEOREM TypeCorrect == Spec => []TypeOK
<1>1. DeleteInv => TypeOK
  BY DEF DeleteInv, TypeInv
<1> QED
  BY DeleteInit, DeleteStep, <1>1, PTL DEF Spec

(***************************************************************************)
(* TCurrentSong never unlinks a file of the share, nor a cached file       *)
(* without DELETE_PLAYED, with any number of player threads.               *)
(***************************************************************************)
THEOREM OnlyDeletableUnlinked == Spec => []OnlyDeletable
<1>1. DeleteInv => OnlyDeletable
  BY DEF DeleteInv
<1> QED
  BY DeleteInit, DeleteStep, <1>1, PTL DEF Spec

(***************************************************************************)
(* TCurrentSong loses no song that is to be deleted: it is in a slot, or   *)
(* its file has been unlinked.                                             *)
(***************************************************************************)
THEOREM LedgerBalanced == Spec => []DeletionLedger
<1>1. DeleteInv => DeletionLedger
  BY DEF DeleteInv
<1> QED
  BY DeleteInit, DeleteStep, <1>1, PTL DEF Spec

-----------------------------------------------------------------------------
(***************************************************************************)
(* GivenOnce: ids grow along a queue, what a thread holds is older than    *)
(* what is queued, and everything is older than the next id.               *)
(***************************************************************************)
QueuedKnown ==
  \A l \in Playlists : \A i \in DOMAIN queue[l] :
    queue[l][i].list = l /\ queue[l][i].id < nextfileid[l]

HeldKnown ==
  \A t \in Thread, l \in Playlists : Holds(t, l) => song[t].id < nextfileid[l]

GivenInv == GivenOnce /\ QueuedKnown /\ HeldKnown

LEMMA GivenInit == Init => GivenInv
<1> SUFFICES ASSUME Init PROVE GivenInv
  OBVIOUS
<1>1. \A l \in Playlists : queue[l] = <<>> /\ DOMAIN queue[l] = {}
  BY DEF Init
<1>2. \A t \in Thread, l \in Playlists : ~Holds(t, l)
  BY DEF Init, Holds
<1> QED
  BY <1>1, <1>2 DEF GivenInv, GivenOnce, QueueInOrder, HeldIsOlder, HeldByOne, QueuedKnown, HeldKnown

(***************************************************************************)
(* A step that touches no queue and gives nobody a song keeps GivenInv.    *)
(***************************************************************************)
LEMMA GivenFrame ==
  ASSUME GivenInv, UNCHANGED <<queue, nextfileid, song>>,
         \A t \in Thread : pc'[t] \in Holding => pc[t] \in Holding
  PROVE  GivenInv'
<1>1. \A t \in Thread, l \in Playlists : Holds(t, l)' => Holds(t, l)
  BY DEF Holds, Holding
<1> QED
  BY <1>1 DEF GivenInv, GivenOnce, QueueInOrder, HeldIsOlder, HeldByOne, QueuedKnown, HeldKnown

(***************************************************************************)
(* GetSong moves the front of a queue to the one thread that asked: it is  *)
(* older than the rest of the queue and younger than what any other thread *)
(* holds of this list.                                                     *)
(***************************************************************************)
LEMMA GetFromPlaylistGiven ==
  ASSUME TypeInv, GivenInv, NEW t \in Thread, NEW l \in Playlists, GetFromPlaylist(t, l)
  PROVE  GivenInv'
<1> USE DEF TypeInv, GivenInv
<1>1. CASE queue[l] # <<>>
  <2> DEFINE q == queue[l]
  <2>1. /\ pc' = [pc EXCEPT ![t] = "exists"]
        /\ song' = [song EXCEPT ![t] = q[1]]
        /\ queue' = [queue EXCEPT ![l] = Tail(q)]
        /\ nextfileid' = nextfileid
    BY <1>1 DEF GetFromPlaylist, Goto
  <2>2. q \in Seq(Song) /\ q # <<>> /\ 1 \in DOMAIN q
    BY <1>1 DEF TypeOK
  <2>3. \A i \in DOMAIN Tail(q) : i + 1 \in DOMAIN q /\ i + 1 > 1 /\ Tail(q)[i] = q[i + 1]
    BY <2>2
  <2>4. /\ \A m \in Playlists : m # l => queue'[m] = queue[m]
        /\ queue'[l] = Tail(q)
    BY <2>1 DEF TypeOK
  <2>5. \A m \in Playlists : \A i \in DOMAIN queue'[m] :
          \E j \in DOMAIN queue[m] : queue'[m][i] = queue[m][j] /\ (m = l => j > 1)
    BY <2>3, <2>4
  <2>6. /\ song'[t] = q[1] /\ q[1].list = l /\ q[1] \in Song
        /\ \A u \in Thread : u # t => song'[u] = song[u] /\ pc'[u] = pc[u]
    BY <2>1, <2>2 DEF TypeOK, QueuedKnown
  <2>7. \A u \in Thread, m \in Playlists : u # t /\ Holds(u, m)' => Holds(u, m)
    BY <2>6 DEF Holds
  <2>8. \A m \in Playlists : Holds(t, m)' => m = l
    BY <2>6 DEF Holds
  <2>9. QueueInOrder'
    <3>1. \A i, j \in DOMAIN q : i < j => q[i].id < q[j].id
      BY DEF GivenOnce, QueueInOrder
    <3>2. \A i \in DOMAIN Tail(q) : i \in Int
      BY <2>2
    <3>3. \A i, j \in DOMAIN Tail(q) : i < j => Tail(q)[i].id < Tail(q)[j].id
      <4> TAKE i, j \in DOMAIN Tail(q)
      <4> HAVE i < j
      <4>1. i + 1 \in DOMAIN q /\ j + 1 \in DOMAIN q /\ i + 1 < j + 1
        BY <2>3, <3>2
      <4>2. q[i + 1].id < q[j + 1].id
        BY <3>1, <4>1
      <4> QED
        BY <4>2, <2>3
    <3> QED
      BY <2>4, <3>3 DEF GivenOnce, QueueInOrder
  <2>10. HeldIsOlder'
    <3> SUFFICES ASSUME NEW u \in Thread, NEW m \in Playlists, Holds(u, m)',
                        NEW i \in DOMAIN queue'[m]
                 PROVE  song'[u].id < queue'[m][i].id
      BY DEF HeldIsOlder
    <3>1. PICK j \in DOMAIN queue[m] : queue'[m][i] = queue[m][j] /\ (m = l => j > 1)
      BY <2>5
    <3>2. CASE u = t
      BY <3>1, <3>2, <2>2, <2>6, <2>8 DEF GivenOnce, QueueInOrder
    <3>3. CASE u # t
      BY <3>1, <3>3, <2>6, <2>7 DEF GivenOnce, HeldIsOlder
    <3> QED
      BY <3>2, <3>3
  <2>11. HeldByOne'
    <3>1. \A u \in Thread : u # t /\ Holds(u, l)' => song'[u].id < q[1].id
      BY <2>2, <2>6, <2>7 DEF GivenOnce, HeldIsOlder
    <3>2. \A u \in Thread : u # t /\ Holds(u, l)' => song'[u].id # song'[t].id
      <4>1. \A u \in Thread : Holds(u, l) => song[u].id \in Nat
        BY <2>2 DEF TypeOK, Holds, HeldSong, Holding, Song
      <4> QED
        BY <3>1, <4>1, <2>6, <2>7 DEF Song
    <3> QED
      BY <3>2, <2>6, <2>7, <2>8 DEF GivenOnce, HeldByOne
  <2>12. QueuedKnown'
    BY <2>1, <2>5 DEF QueuedKnown
  <2>13. HeldKnown'
    BY <2>1, <2>2, <2>6, <2>7, <2>8 DEF HeldKnown, QueuedKnown
  <2> QED
    BY <2>9, <2>10, <2>11, <2>12, <2>13 DEF GivenOnce
<1>2. CASE queue[l] = <<>>
  <2>1. l = 0 \/ l = 1
    BY DEF Playlists, Request, Cache
  <2>2. pc' = [pc EXCEPT ![t] = GetLabel(l + 1)]
    BY <1>2 DEF GetFromPlaylist, Goto
  <2>3. GetLabel(l + 1) \in {"get_cache", "get_share"}
    BY <2>1 DEF GetLabel, Request, Cache, Share
  <2>4. \A u \in Thread : pc'[u] \in Holding => pc[u] \in Holding
    BY <2>2, <2>3 DEF TypeOK, Holding
  <2> QED
    BY <1>2, <2>4, GivenFrame DEF GetFromPlaylist
<1> QED
  BY <1>1, <1>2

(***************************************************************************)
(* An arrival goes to the end of its queue with the largest id so far.     *)
(***************************************************************************)
LEMMA LandGiven ==
  ASSUME TypeInv, GivenInv, NEW l \in Playlists, NEW f \in RequestFile \cup CacheFile,
         Land(l, f)
  PROVE  GivenInv'
<1> USE DEF TypeInv, GivenInv
<1> DEFINE e == [list |-> l, name |-> f, id |-> nextfileid[l]]
           q == queue[l]
<1>1. e \in Song /\ q \in Seq(Song) /\ nextfileid[l] \in Nat
  BY ListFacts DEF Song, TypeOK, File
<1>2. /\ queue' = [queue EXCEPT ![l] = Append(q, e)]
      /\ nextfileid' = [nextfileid EXCEPT ![l] = nextfileid[l] + 1]
      /\ UNCHANGED <<pc, song>>
  BY DEF Land, player
<1>3. /\ \A m \in Playlists : m # l => queue'[m] = queue[m] /\ nextfileid'[m] = nextfileid[m]
      /\ queue'[l] = Append(q, e)
      /\ nextfileid'[l] = nextfileid[l] + 1
  BY <1>2 DEF TypeOK
<1>4. DOMAIN queue'[l] = 1..Len(q) + 1 /\ DOMAIN q = 1..Len(q) /\ Len(q) \in Nat
  BY <1>1, <1>3
<1>5. \A i \in DOMAIN q : queue'[l][i] = q[i] /\ i <= Len(q)
  BY <1>1, <1>3, <1>4
<1>6. queue'[l][Len(q) + 1] = e /\ e.id = nextfileid[l] /\ e.list = l
  BY <1>1, <1>3
<1>7. \A i \in DOMAIN queue'[l] : i \in DOMAIN q \/ i = Len(q) + 1
  BY <1>4
<1>8. \A u \in Thread, m \in Playlists : Holds(u, m)' <=> Holds(u, m)
  BY <1>2 DEF Holds
<1>9. \A i \in DOMAIN q : q[i].id < nextfileid[l] /\ q[i].id \in Nat
  <2>1. \A i \in DOMAIN q : q[i] \in Song
    BY <1>1
  <2> QED
    BY <2>1 DEF QueuedKnown, Song
<1>10. QueueInOrder'
  <2>1. \A i, j \in DOMAIN queue'[l] : i < j => queue'[l][i].id < queue'[l][j].id
    <3> TAKE i, j \in DOMAIN queue'[l]
    <3> HAVE i < j
    <3>1. i \in DOMAIN q
      BY <1>4
    <3>2. CASE j \in DOMAIN q
      BY <3>1, <3>2, <1>5 DEF GivenOnce, QueueInOrder
    <3>3. CASE j = Len(q) + 1
      BY <3>1, <3>3, <1>5, <1>6, <1>9
    <3> QED
      BY <3>2, <3>3, <1>7
  <2> QED
    BY <2>1, <1>3 DEF GivenOnce, QueueInOrder
<1>11. HeldIsOlder'
  <2>1. \A u \in Thread : Holds(u, l) =>
          \A i \in DOMAIN queue'[l] : song[u].id < queue'[l][i].id
    BY <1>5, <1>6, <1>7 DEF GivenOnce, HeldIsOlder, HeldKnown
  <2> QED
    BY <2>1, <1>2, <1>3, <1>8 DEF GivenOnce, HeldIsOlder
<1>12. HeldByOne'
  BY <1>2, <1>8 DEF GivenOnce, HeldByOne
<1>13. QueuedKnown'
  <2>1. \A i \in DOMAIN queue'[l] : queue'[l][i].list = l /\ queue'[l][i].id < nextfileid'[l]
    BY <1>1, <1>3, <1>5, <1>6, <1>7, <1>9 DEF QueuedKnown
  <2> QED
    BY <2>1, <1>3 DEF QueuedKnown
<1>14. HeldKnown'
  <2>1. \A u \in Thread : Holds(u, l) => song[u].id \in Nat
    BY DEF TypeOK, Holds, HeldSong, Holding, Song
  <2> QED
    BY <2>1, <1>1, <1>2, <1>3, <1>8 DEF HeldKnown
<1> QED
  BY <1>10, <1>11, <1>12, <1>13, <1>14 DEF GivenOnce

LEMMA GetFromShareGiven ==
  ASSUME TypeInv, GivenInv, NEW t \in Thread, GetFromShare(t)
  PROVE  GivenInv'
<1>1. CASE pc' = [pc EXCEPT ![t] = "clear"] /\ UNCHANGED song
  <2>1. \A u \in Thread : pc'[u] \in Holding => pc[u] \in Holding
    BY <1>1 DEF TypeInv, TypeOK, Holding
  <2> QED
    BY <1>1, <2>1, GivenFrame DEF GetFromShare, lists
<1>2. ASSUME NEW f \in ShareFile, pc' = [pc EXCEPT ![t] = "exists"],
             song' = [song EXCEPT ![t] = [list |-> Share, name |-> f, id |-> 0]]
      PROVE  GivenInv'
  <2>1. \A l \in Playlists : ~Holds(t, l)'
    BY <1>2 DEF Holds, TypeInv, TypeOK, Playlists, Request, Cache, Share
  <2>2. \A u \in Thread : u # t => song'[u] = song[u] /\ pc'[u] = pc[u]
    BY <1>2 DEF TypeInv, TypeOK
  <2>3. \A u \in Thread, l \in Playlists :
          Holds(u, l)' => Holds(u, l) /\ song'[u] = song[u]
    BY <2>1, <2>2 DEF Holds
  <2>4. UNCHANGED <<queue, nextfileid>>
    BY DEF GetFromShare, lists
  <2> QED
    BY <2>3, <2>4
       DEF GivenInv, GivenOnce, QueueInOrder, HeldIsOlder, HeldByOne, QueuedKnown, HeldKnown
<1> QED
  BY <1>1, <1>2 DEF GetFromShare, Goto, GetLabel, Request, Cache, Share

LEMMA GivenStep == TypeInv /\ GivenInv /\ [Next]_vars => GivenInv'
<1> SUFFICES ASSUME TypeInv, GivenInv, [Next]_vars PROVE GivenInv'
  OBVIOUS
<1>1. ASSUME NEW t \in Thread, ThreadStep(t) PROVE GivenInv'
  <2>1. ASSUME NEW l \in Playlists, GetFromPlaylist(t, l) PROVE GivenInv'
    BY <2>1, GetFromPlaylistGiven
  <2>2. CASE GetFromShare(t)
    BY <2>2, GetFromShareGiven
  <2>3. CASE \/ Enter(t) \/ EnterNext(t) \/ Connect(t) \/ While(t) \/ Reset(t)
             \/ ClearIdle(t) \/ Wake(t) \/ Exit(t) \/ EndStream(t) \/ Exists(t) \/ Differs(t)
             \/ SetCurrent(t) \/ Open(t) \/ SendBlock(t)
    <3>1. UNCHANGED <<queue, nextfileid, song>>
      BY <2>3 DEF Enter, EnterNext, Connect, While, Reset, ClearIdle, Wake, Exit, EndStream,
                  Exists, Differs, SetCurrent, Open, SendBlock, lists
    <3>2. \A u \in Thread : pc'[u] \in Holding => pc[u] \in Holding
      BY <2>3 DEF TypeInv, TypeOK, Goto, Holding, Enter, EnterNext, Connect, While, Reset,
                  ClearIdle, Wake, Exit, EndStream, Exists, Differs, SetCurrent, Open, SendBlock
    <3> QED
      BY <3>1, <3>2, GivenFrame
  <2> QED
    BY <1>1, <2>1, <2>2, <2>3 DEF ThreadStep
<1>2. CASE ComNext \/ ComStop \/ ComStart \/ ComStopKill
  BY <1>2, GivenFrame DEF ComNext, ComStop, ComStart, ComStopKill, lists, player
<1>3. CASE ComStartCreate
  <2>1. \A u \in Thread : pc'[u] \in Holding => pc[u] \in Holding
    BY <1>3 DEF ComStartCreate, Goto, Holding, TypeInv, TypeOK
  <2> QED
    BY <1>3, <2>1, GivenFrame DEF ComStartCreate, lists
<1>4. ASSUME NEW l \in Playlists, NEW f \in RequestFile \cup CacheFile, Land(l, f)
      PROVE  GivenInv'
  BY <1>4, LandGiven
<1>5. ASSUME NEW f \in File, Vanish(f) PROVE GivenInv'
  BY <1>5, GivenFrame DEF Vanish, lists, player
<1>6. CASE UNCHANGED vars
  BY <1>6, GivenFrame DEF vars, lists, player
<1> QED
  BY <1>1, <1>2, <1>3, <1>4, <1>5, <1>6 DEF Next, HttpContinues, Environment

(***************************************************************************)
(* No arrival is ever handed to two player threads, or twice to one, with  *)
(* any number of threads started: Directory::GetSong pops under the lock.  *)
(***************************************************************************)
THEOREM EachGivenOnce == Spec => []GivenOnce
<1>1. DeleteInv /\ GivenInv /\ [Next]_vars => DeleteInv' /\ GivenInv'
  BY DeleteStep, GivenStep DEF DeleteInv
<1>2. DeleteInv /\ GivenInv => GivenOnce
  BY DEF GivenInv
<1> QED
  BY DeleteInit, GivenInit, <1>1, <1>2, PTL DEF Spec
-----------------------------------------------------------------------------
(***************************************************************************)
(* DeletedAfterPlayAlone.  What Set has marked is not queued any more, and *)
(* is not what a thread is about to put on: nothing is put on twice.       *)
(***************************************************************************)
MarkedKnown == \A s \in marked : s.list \in Playlists /\ s.id < nextfileid[s.list]

QueuedUnmarked ==
  \A l \in Playlists : \A i \in DOMAIN queue[l] : queue[l][i] \notin marked

HeldUnmarked ==
  \A t \in Thread : pc[t] \in {"exists", "differs", "set"} => song[t] \notin marked

(***************************************************************************)
(* One player thread was ever created, at most.                            *)
(***************************************************************************)
Created == {t \in Thread : pc[t] # "none"}
Alone == \A t, u \in Created : t = u

(***************************************************************************)
(* The slots of a lonely thread: the song in the current slot is opened,   *)
(* or about to be; that in the previous slot has been, as has all that is  *)
(* unlinked; and neither is what the thread plays.                         *)
(***************************************************************************)
SlotsPlayed ==
  /\ curr.del => \/ curr.file \in opened
                 \/ \E t \in Thread : pc[t] = "open" /\ song[t] = curr.file
  /\ prev.del => prev.file \in opened
  /\ unlinked \subseteq opened
  /\ \A t \in Thread : pc[t] \in {"open", "stream"} =>
       song[t] \notin unlinked /\ (prev.del => prev.file # song[t])

UnmarkedInv == MarkedKnown /\ QueuedUnmarked /\ HeldUnmarked
AloneInv == IsFiniteSet(Created) /\ (Alone => SlotsPlayed)
PlayedInv == DeleteInv /\ GivenInv /\ UnmarkedInv /\ AloneInv

LEMMA PlayedInit == Init => PlayedInv
<1> SUFFICES ASSUME Init PROVE PlayedInv
  OBVIOUS
<1>1. UnmarkedInv
  BY DEF Init, UnmarkedInv, MarkedKnown, QueuedUnmarked, HeldUnmarked
<1>2. \E first : Created \subseteq {first}
  BY DEF Init, Created
<1>3. IsFiniteSet(Created)
  BY <1>2, FS_Singleton, FS_Subset
<1>4. SlotsPlayed
  BY DEF Init, SlotsPlayed, EmptySlot, Slot
<1> QED
  BY <1>1, <1>3, <1>4, DeleteInit, GivenInit DEF PlayedInv, AloneInv

(***************************************************************************)
(* A step that marks nothing, queues nothing and moves no thread to        *)
(* "exists" cannot put a marked song in hand.                              *)
(***************************************************************************)
LEMMA UnmarkedFrame ==
  ASSUME UnmarkedInv, UNCHANGED <<queue, nextfileid, song, marked>>,
         \A t \in Thread : pc'[t] \in {"exists", "differs", "set"}
                             => pc[t] \in {"exists", "differs", "set"}
  PROVE  UnmarkedInv'
BY DEF UnmarkedInv, MarkedKnown, QueuedUnmarked, HeldUnmarked

LEMMA UnmarkedThread ==
  ASSUME DeleteInv, GivenInv, UnmarkedInv, NEW t \in Thread, ThreadStep(t)
  PROVE  UnmarkedInv'
<1> USE DEF DeleteInv, TypeInv
<1>1. ASSUME NEW m \in Playlists, GetFromPlaylist(t, m) PROVE UnmarkedInv'
  <2>1. CASE queue[m] # <<>>
    <3>1. /\ pc' = [pc EXCEPT ![t] = "exists"]
          /\ song' = [song EXCEPT ![t] = Head(queue[m])]
          /\ queue' = [queue EXCEPT ![m] = Tail(queue[m])]
          /\ UNCHANGED <<nextfileid, marked>>
      BY <1>1, <2>1 DEF GetFromPlaylist, Goto, history
    <3>2. queue[m] \in Seq(Song) /\ 1 \in DOMAIN queue[m] /\ Head(queue[m]) = queue[m][1]
      BY <2>1 DEF TypeOK
    <3>3. \A i \in DOMAIN Tail(queue[m]) :
            i + 1 \in DOMAIN queue[m] /\ Tail(queue[m])[i] = queue[m][i + 1]
      BY <3>2
    <3>4. /\ queue'[m] = Tail(queue[m])
          /\ \A k \in Playlists : k # m => queue'[k] = queue[k]
      BY <3>1 DEF TypeOK
    <3>5. song'[t] \notin marked
      BY <3>1, <3>2 DEF UnmarkedInv, QueuedUnmarked, TypeOK
    <3>6. QueuedUnmarked'
      BY <3>1, <3>3, <3>4 DEF UnmarkedInv, QueuedUnmarked
    <3>7. HeldUnmarked'
      BY <3>1, <3>5 DEF UnmarkedInv, HeldUnmarked, TypeOK
    <3> QED
      BY <3>1, <3>6, <3>7 DEF UnmarkedInv, MarkedKnown
  <2>2. CASE queue[m] = <<>>
    <3>1. m = 0 \/ m = 1
      BY DEF Playlists, Request, Cache
    <3>2. pc' = [pc EXCEPT ![t] = GetLabel(m + 1)]
      BY <1>1, <2>2 DEF GetFromPlaylist, Goto
    <3>3. GetLabel(m + 1) \in {"get_cache", "get_share"}
      BY <3>1 DEF GetLabel, Request, Cache, Share
    <3>4. \A u \in Thread : pc'[u] \in {"exists", "differs", "set"}
                              => pc[u] \in {"exists", "differs", "set"}
      BY <3>2, <3>3 DEF TypeOK
    <3> QED
      BY <1>1, <2>2, <3>4, UnmarkedFrame DEF GetFromPlaylist, history
  <2> QED
    BY <2>1, <2>2
<1>2. CASE GetFromShare(t)
  <2>1. UNCHANGED <<queue, nextfileid, marked>>
    BY <1>2 DEF GetFromShare, lists, history
  <2>2. CASE pc' = [pc EXCEPT ![t] = "clear"] /\ UNCHANGED song
    <3>1. \A u \in Thread : pc'[u] \in {"exists", "differs", "set"}
                              => pc[u] \in {"exists", "differs", "set"}
      BY <2>2 DEF TypeOK
    <3> QED
      BY <2>1, <2>2, <3>1, UnmarkedFrame
  <2>3. ASSUME NEW f \in ShareFile, pc' = [pc EXCEPT ![t] = "exists"],
               song' = [song EXCEPT ![t] = [list |-> Share, name |-> f, id |-> 0]]
        PROVE  UnmarkedInv'
    <3>1. song'[t].list = Share /\ Share \notin Playlists
      BY <2>3 DEF TypeOK, Playlists, Request, Cache, Share
    <3>2. song'[t] \notin marked
      BY <3>1 DEF UnmarkedInv, MarkedKnown
    <3>3. HeldUnmarked'
      BY <2>1, <2>3, <3>2 DEF UnmarkedInv, HeldUnmarked, TypeOK
    <3> QED
      BY <2>1, <3>3 DEF UnmarkedInv, MarkedKnown, QueuedUnmarked
  <2> QED
    BY <1>2, <2>2, <2>3 DEF GetFromShare, Goto, GetLabel, Request, Cache, Share
<1>3. CASE SetCurrent(t)
  <2>1. /\ pc[t] = "set" /\ pc' = [pc EXCEPT ![t] = "open"]
        /\ marked' = IF DeleteIt(song[t].list) THEN marked \cup {song[t]} ELSE marked
        /\ UNCHANGED <<queue, nextfileid, song>>
    BY <1>3 DEF SetCurrent, Goto, lists
  <2>2. CASE DeleteIt(song[t].list)
    <3> DEFINE m == song[t].list
    <3>1. m \in Playlists /\ Holds(t, m)
      BY <2>1, <2>2 DEF DeleteIt, Playlists, Holds
    <3>2. MarkedKnown'
      BY <2>1, <3>1 DEF UnmarkedInv, MarkedKnown, GivenInv, HeldKnown
    <3>3. QueuedUnmarked'
      <4> SUFFICES ASSUME NEW k \in Playlists, NEW i \in DOMAIN queue[k]
                   PROVE  queue[k][i] # song[t]
        BY <2>1 DEF UnmarkedInv, QueuedUnmarked
      <4>1. CASE k # m
        BY <4>1, <3>1 DEF GivenInv, QueuedKnown
      <4>2. CASE k = m
        <5>1. song[t].id < queue[k][i].id /\ song[t].id \in Nat
          BY <2>1, <3>1, <4>2 DEF GivenInv, GivenOnce, HeldIsOlder, HeldSong, Holding, Song
        <5> QED
          BY <5>1
      <4> QED
        BY <4>1, <4>2
    <3>4. HeldUnmarked'
      <4> SUFFICES ASSUME NEW u \in Thread, u # t, pc[u] \in {"exists", "differs", "set"}
                   PROVE  song[u] # song[t]
        BY <2>1 DEF UnmarkedInv, HeldUnmarked, TypeOK
      <4>1. CASE song[u].list # m
        BY <4>1
      <4>2. CASE song[u].list = m
        BY <3>1, <4>2 DEF GivenInv, GivenOnce, HeldByOne, Holds
      <4> QED
        BY <4>1, <4>2
    <3> QED
      BY <3>2, <3>3, <3>4 DEF UnmarkedInv
  <2>3. CASE ~DeleteIt(song[t].list)
    <3>1. \A u \in Thread : pc'[u] \in {"exists", "differs", "set"}
                              => pc[u] \in {"exists", "differs", "set"}
      BY <2>1 DEF TypeOK
    <3> QED
      BY <2>1, <2>3, <3>1, UnmarkedFrame
  <2> QED
    BY <2>2, <2>3
<1>4. CASE \/ Enter(t) \/ EnterNext(t) \/ Connect(t) \/ While(t) \/ Reset(t)
           \/ ClearIdle(t) \/ Wake(t) \/ Exit(t) \/ EndStream(t) \/ Exists(t) \/ Differs(t)
           \/ Open(t) \/ SendBlock(t)
  <2>1. UNCHANGED <<queue, nextfileid, song, marked>>
    BY <1>4 DEF Enter, EnterNext, Connect, While, Reset, ClearIdle, Wake, Exit, EndStream,
                Exists, Differs, Open, SendBlock, lists, history
  <2>2. \A u \in Thread : pc'[u] \in {"exists", "differs", "set"}
                            => pc[u] \in {"exists", "differs", "set"}
    BY <1>4 DEF TypeOK, Goto, Enter, EnterNext, Connect, While, Reset, ClearIdle, Wake,
                Exit, EndStream, Exists, Differs, Open, SendBlock
  <2> QED
    BY <2>1, <2>2, UnmarkedFrame
<1> QED
  BY <1>1, <1>2, <1>3, <1>4 DEF ThreadStep

LEMMA UnmarkedStep ==
  ASSUME DeleteInv, GivenInv, UnmarkedInv, [Next]_vars
  PROVE  UnmarkedInv'
<1> USE DEF DeleteInv, TypeInv
<1>1. ASSUME NEW t \in Thread, ThreadStep(t) PROVE UnmarkedInv'
  BY <1>1, UnmarkedThread
<1>2. CASE ComNext \/ ComStop \/ ComStart \/ ComStopKill \/ UNCHANGED vars
  BY <1>2, UnmarkedFrame
     DEF ComNext, ComStop, ComStart, ComStopKill, vars, lists, player, history
<1>3. CASE ComStartCreate
  <2>1. \A t \in Thread : pc'[t] \in {"exists", "differs", "set"}
                            => pc[t] \in {"exists", "differs", "set"}
    BY <1>3 DEF ComStartCreate, Goto, TypeOK
  <2> QED
    BY <1>3, <2>1, UnmarkedFrame DEF ComStartCreate, lists, history
<1>4. ASSUME NEW l \in Playlists, NEW f \in RequestFile \cup CacheFile, Land(l, f)
      PROVE  UnmarkedInv'
  <2> DEFINE e == [list |-> l, name |-> f, id |-> nextfileid[l]]
             q == queue[l]
  <2>1. /\ queue' = [queue EXCEPT ![l] = Append(q, e)]
        /\ nextfileid' = [nextfileid EXCEPT ![l] = nextfileid[l] + 1]
        /\ UNCHANGED <<pc, song, marked>>
    BY <1>4 DEF Land, player, history
  <2>2. /\ queue'[l] = Append(q, e) /\ nextfileid'[l] = nextfileid[l] + 1
        /\ \A m \in Playlists : m # l => queue'[m] = queue[m] /\ nextfileid'[m] = nextfileid[m]
    BY <2>1 DEF TypeOK
  <2>3. q \in Seq(Song) /\ nextfileid[l] \in Nat /\ marked \subseteq Song
    BY DEF TypeOK
  <2>4. e \notin marked
    BY <2>3 DEF UnmarkedInv, MarkedKnown
  <2>5. \A i \in DOMAIN queue'[l] : (i \in DOMAIN q /\ queue'[l][i] = q[i]) \/ queue'[l][i] = e
    BY <2>2, <2>3
  <2>6. QueuedUnmarked'
    BY <2>1, <2>2, <2>4, <2>5 DEF UnmarkedInv, QueuedUnmarked
  <2>7. MarkedKnown'
    <3> SUFFICES ASSUME NEW s \in marked PROVE s.list \in Playlists /\ s.id < nextfileid'[s.list]
      BY <2>1 DEF MarkedKnown
    <3>1. s.list \in Playlists /\ s.id < nextfileid[s.list] /\ s.id \in Nat
      BY <2>3 DEF UnmarkedInv, MarkedKnown, Song
    <3>2. CASE s.list = l
      BY <3>1, <3>2, <2>2, <2>3
    <3>3. CASE s.list # l
      BY <3>1, <3>3, <2>2
    <3> QED
      BY <3>2, <3>3
  <2> QED
    BY <2>1, <2>6, <2>7 DEF UnmarkedInv, HeldUnmarked
<1>5. ASSUME NEW f \in File, Vanish(f) PROVE UnmarkedInv'
  BY <1>5, UnmarkedFrame DEF Vanish, lists, player, history
<1> QED
  BY <1>1, <1>2, <1>3, <1>4, <1>5 DEF Next, HttpContinues, Environment

(***************************************************************************)
(* No thread becomes uncreated: what is alone now was alone before.        *)
(***************************************************************************)
LEMMA CreatedGrows ==
  ASSUME TypeOK, IsFiniteSet(Created), [Next]_vars
  PROVE  Created \subseteq Created' /\ IsFiniteSet(Created')
<1>1. ASSUME NEW t \in Thread, ThreadStep(t) PROVE Created' = Created
  <2>1. /\ pc[t] # "none"
        /\ \E to \in Label : to # "none" /\ pc' = [pc EXCEPT ![t] = to]
    <3>1. ASSUME NEW l \in Playlists, GetFromPlaylist(t, l)
          PROVE  /\ pc[t] # "none"
                 /\ \E to \in Label : to # "none" /\ pc' = [pc EXCEPT ![t] = to]
      <4>1. l = 0 \/ l = 1
        BY DEF Playlists, Request, Cache
      <4> QED
        BY <3>1, <4>1 DEF GetFromPlaylist, Goto, GetLabel, Request, Cache, Share, Label
    <3>2. CASE GetFromShare(t)
      BY <3>2 DEF GetFromShare, Goto, GetLabel, Request, Cache, Share, Label
    <3>3. CASE \/ Enter(t) \/ EnterNext(t) \/ Connect(t) \/ While(t) \/ Reset(t)
               \/ ClearIdle(t) \/ Wake(t) \/ Exit(t) \/ EndStream(t) \/ Exists(t) \/ Differs(t)
               \/ SetCurrent(t) \/ Open(t) \/ SendBlock(t)
      BY <3>3 DEF Goto, Label, Enter, EnterNext, Connect, While, Reset, ClearIdle, Wake,
                  Exit, EndStream, Exists, Differs, SetCurrent, Open, SendBlock
    <3> QED
      BY <1>1, <3>1, <3>2, <3>3 DEF ThreadStep
  <2> QED
    BY <2>1 DEF Created, TypeOK
<1>2. ASSUME NEW t \in Thread, Goto(t, "none", "enter") PROVE Created' = Created \cup {t}
  BY <1>2 DEF Goto, Created, TypeOK
<1>3. CASE ComNext \/ ComStop \/ ComStart \/ ComStopKill \/ Environment \/ UNCHANGED vars
  BY <1>3 DEF ComNext, ComStop, ComStart, ComStopKill, Environment, Land, Vanish, vars,
              player, Created
<1> QED
  BY <1>1, <1>2, <1>3, FS_AddElement DEF Next, HttpContinues, ComStartCreate

(***************************************************************************)
(* InternalSet by the only thread there is, with no song about to be       *)
(* opened: the current song, which moves to the previous slot, was opened. *)
(***************************************************************************)
LEMMA InternalSetPlayed ==
  ASSUME SlotsPlayed, NEW f, NEW d, InternalSet(f, d), opened' = opened,
         \A u \in Thread : pc[u] # "open"
  PROVE  /\ prev'.del => prev'.file \in opened'
         /\ unlinked' \subseteq opened'
         /\ curr' = [file |-> f, del |-> d]
         /\ prev' = curr
         /\ unlinked' \subseteq unlinked \cup (IF prev.del THEN {prev.file} ELSE {})
BY DEF SlotsPlayed, InternalSet, Slot

LEMMA PlayedThread ==
  ASSUME DeleteInv, UnmarkedInv, Alone, SlotsPlayed, NEW t \in Thread, ThreadStep(t)
  PROVE  SlotsPlayed'
<1> USE DEF DeleteInv, TypeInv
<1>1. pc[t] # "none" /\ \A u \in Thread : u # t => pc[u] = "none" /\ pc'[u] = "none"
  <2>1. pc[t] # "none"
    BY DEF ThreadStep, GetFromPlaylist, GetFromShare, Goto, GetLabel, Playlists, Request, Cache,
           Share, Enter, EnterNext, Connect, While, Reset, ClearIdle, Wake, Exit, EndStream,
           Exists, Differs, SetCurrent, Open, SendBlock
  <2>2. \A u \in Thread : u # t => pc[u] = "none"
    BY <2>1 DEF Alone, Created
  <2>3. \A u \in Thread : u # t => pc'[u] = pc[u]
    BY DEF ThreadStep, GetFromPlaylist, GetFromShare, Goto, Enter, EnterNext, Connect, While,
           Reset, ClearIdle, Wake, Exit, EndStream, Exists, Differs, SetCurrent, Open, SendBlock,
           TypeOK
  <2> QED
    BY <2>1, <2>2, <2>3
<1>2. CASE SetCurrent(t)
  <2>1. /\ pc[t] = "set" /\ pc' = [pc EXCEPT ![t] = "open"]
        /\ InternalSet(song[t], DeleteIt(song[t].list))
        /\ UNCHANGED <<song, opened>>
    BY <1>2 DEF SetCurrent, Goto
  <2>2. \A u \in Thread : pc[u] # "open"
    BY <1>1, <2>1
  <2>3. song[t] \notin unlinked /\ (prev.del => prev.file # song[t])
                                /\ (curr.del => curr.file # song[t])
    BY <2>1 DEF UnmarkedInv, HeldUnmarked, DeletionLedger, InSlots
  <2>4. pc'[t] = "open"
    BY <2>1 DEF TypeOK
  <2> QED
    BY <1>1, <2>1, <2>2, <2>3, <2>4, InternalSetPlayed DEF SlotsPlayed
<1>3. CASE ClearIdle(t) \/ Exit(t)
  <2>1. /\ pc[t] \in {"clear", "exit"} /\ pc'[t] \notin {"open", "stream"}
        /\ InternalSet(NoSong, FALSE) /\ UNCHANGED opened
    BY <1>3 DEF ClearIdle, Exit, Goto, TypeOK
  <2>2. \A u \in Thread : pc[u] # "open" /\ pc'[u] \notin {"open", "stream"}
    BY <1>1, <2>1
  <2>3. /\ prev'.del => prev'.file \in opened'
        /\ unlinked' \subseteq opened'
        /\ curr' = [file |-> NoSong, del |-> FALSE]
    BY <2>1, <2>2, InternalSetPlayed
  <2> QED
    BY <2>2, <2>3 DEF SlotsPlayed
<1>4. CASE Open(t)
  <2>1. /\ pc[t] = "open" /\ pc'[t] \in {"stream", "while"}
        /\ opened' = opened \cup {song[t]}
        /\ UNCHANGED <<curr, prev, unlinked, song>>
    BY <1>4 DEF Open, Goto, slots, TypeOK
  <2>2. \A u \in Thread : u # t => pc[u] # "open" /\ pc'[u] \notin {"open", "stream"}
    BY <1>1
  <2>3. curr.del => curr.file \in opened'
    BY <2>1, <2>2 DEF SlotsPlayed
  <2>4. \A u \in Thread : pc'[u] \in {"open", "stream"} =>
           song[u] \notin unlinked /\ (prev.del => prev.file # song[u])
    BY <2>1, <2>2 DEF SlotsPlayed
  <2> QED
    BY <2>1, <2>3, <2>4 DEF SlotsPlayed
<1>5. CASE SendBlock(t) \/ EndStream(t)
  <2>1. pc[t] = "stream" /\ pc'[t] # "open" /\ UNCHANGED <<curr, prev, unlinked, opened, song>>
    BY <1>5 DEF SendBlock, EndStream, Goto, slots, history, TypeOK
  <2> QED
    BY <1>1, <2>1 DEF SlotsPlayed
<1>6. CASE \/ Enter(t) \/ EnterNext(t) \/ Connect(t) \/ While(t) \/ Reset(t) \/ Wake(t)
           \/ Exists(t) \/ Differs(t)
           \/ (\E l \in Playlists : GetFromPlaylist(t, l)) \/ GetFromShare(t)
  <2>1. /\ pc[t] # "open" /\ pc'[t] \notin {"open", "stream"}
        /\ UNCHANGED <<curr, prev, unlinked, opened>>
    <3>1. ASSUME NEW l \in Playlists, GetFromPlaylist(t, l)
          PROVE  pc[t] # "open" /\ pc'[t] \notin {"open", "stream"}
      <4>1. l = 0 \/ l = 1
        BY DEF Playlists, Request, Cache
      <4> QED
        BY <3>1, <4>1 DEF GetFromPlaylist, Goto, GetLabel, Request, Cache, Share, TypeOK
    <3>2. CASE GetFromShare(t)
      BY <3>2 DEF GetFromShare, Goto, GetLabel, Request, Cache, Share, TypeOK, slots, history
    <3>3. ASSUME NEW l \in Playlists, GetFromPlaylist(t, l)
          PROVE  UNCHANGED <<curr, prev, unlinked, opened>>
      BY <3>3 DEF GetFromPlaylist, slots, history
    <3>4. CASE \/ Enter(t) \/ EnterNext(t) \/ Connect(t) \/ While(t) \/ Reset(t) \/ Wake(t)
               \/ Exists(t) \/ Differs(t)
      BY <3>4 DEF Enter, EnterNext, Connect, While, Reset, Wake, Exists, Differs, Goto,
                  slots, history, TypeOK
    <3> QED
      BY <1>6, <3>1, <3>2, <3>3, <3>4
  <2>2. \A u \in Thread : pc[u] # "open" /\ pc'[u] \notin {"open", "stream"}
    BY <1>1, <2>1
  <2> QED
    BY <2>1, <2>2 DEF SlotsPlayed
<1> QED
  BY <1>2, <1>3, <1>4, <1>5, <1>6 DEF ThreadStep

LEMMA PlayedStep == PlayedInv /\ [Next]_vars => PlayedInv'
<1> SUFFICES ASSUME PlayedInv, [Next]_vars PROVE PlayedInv'
  OBVIOUS
<1>1. DeleteInv' /\ GivenInv' /\ UnmarkedInv'
  BY DeleteStep, GivenStep, UnmarkedStep DEF PlayedInv, DeleteInv
<1>2. Created \subseteq Created' /\ IsFiniteSet(Created')
  BY CreatedGrows DEF PlayedInv, AloneInv, DeleteInv, TypeInv
<1>3. ASSUME Alone' PROVE SlotsPlayed'
  <2>1. Alone /\ SlotsPlayed
    BY <1>2, <1>3 DEF PlayedInv, AloneInv, Alone
  <2>2. ASSUME NEW t \in Thread, ThreadStep(t) PROVE SlotsPlayed'
    BY <2>1, <2>2, PlayedThread DEF PlayedInv
  <2>3. CASE ComNext \/ ComStop \/ ComStart \/ ComStopKill \/ Environment \/ UNCHANGED vars
    BY <2>1, <2>3 DEF ComNext, ComStop, ComStart, ComStopKill, Environment, Land, Vanish,
                      vars, player, slots, history, SlotsPlayed
  <2>4. CASE ComStartCreate
    <3>1. /\ UNCHANGED <<curr, prev, unlinked, opened, song>>
          /\ \A t \in Thread : /\ pc[t] = "open" => pc'[t] = "open"
                               /\ pc'[t] \in {"open", "stream"} => pc'[t] = pc[t]
      BY <2>4 DEF ComStartCreate, Goto, PlayedInv, DeleteInv, TypeInv, TypeOK, slots, history
    <3> QED
      BY <2>1, <3>1 DEF SlotsPlayed
  <2> QED
    BY <2>2, <2>3, <2>4 DEF Next, HttpContinues
<1> QED
  BY <1>1, <1>2, <1>3 DEF PlayedInv, AloneInv

(***************************************************************************)
(* As long as one player thread was ever created, "deleted played files"   *)
(* holds: TCurrentSong unlinks what that thread has opened and plays no    *)
(* longer, with any number of songs, skips, stops and idle times.          *)
(***************************************************************************)
THEOREM AloneDeletesPlayed == Spec => []DeletedAfterPlayAlone
<1>1. PlayedInv => DeletedAfterPlayAlone
  <2> SUFFICES ASSUME PlayedInv, Cardinality(Created) <= 1
               PROVE  DeletedAfterPlay
    BY DEF DeletedAfterPlayAlone, Created
  <2>1. Alone
    <3> SUFFICES ASSUME NEW t \in Created, NEW u \in Created, t # u PROVE FALSE
      BY DEF Alone
    <3>1. IsFiniteSet({t}) /\ Cardinality({t}) = 1
      BY FS_Singleton
    <3>2. Cardinality({t} \cup {u}) = 2
      BY <3>1, FS_AddElement
    <3>3. IsFiniteSet(Created) /\ {t} \cup {u} \in SUBSET Created
      BY DEF PlayedInv, AloneInv
    <3>4. Cardinality({t} \cup {u}) <= Cardinality(Created) /\ Cardinality(Created) \in Nat
      BY <3>3, FS_Subset, FS_CardinalityType
    <3> QED
      BY <3>2, <3>4
  <2> QED
    BY <2>1 DEF PlayedInv, AloneInv, SlotsPlayed, DeletedAfterPlay
<1> QED
  BY PlayedInit, PlayedStep, <1>1, PTL DEF Spec
=============================================================================
