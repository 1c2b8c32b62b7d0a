---------------------------- MODULE SonglistDir ----------------------------
(***************************************************************************)
(* The request queue of the netdj2 engine: Collection_Songlist_Dir as the  *)
(* main loop builds it (aIsQ true), with the Collection_Songlist under it. *)
(* The player thread updates it and takes its first song; the main thread  *)
(* reads it song by song for /requests.xml, and before that updates it too *)
(* if UPDATE_BEFORE_TRANSMIT is set.                                       *)
(*                                                                         *)
(* mMutex is held for one append, one pop or one read, never for a whole   *)
(* Update, and mLastTimeStamp is read and advanced outside it; these are   *)
(* the steps here.  The listing QDir makes (external) is one step.         *)
(***************************************************************************)
EXTENDS Integers, Sequences, FiniteSets

CONSTANTS
  File,           (* Names of files that may appear in the directory.      *)
  Symlink,        (* Those that are symbolic links.                        *)
  UpdateBeforeTransmit, (* The option UPDATE_BEFORE_TRANSMIT.              *)
  MaxTime,        (* Last second of the clock. Bounds the model.           *)
  MaxChanges,     (* Changes of files. Bounds the model.                   *)
  MaxUpdates,     (* Calls of Update. Bounds the model.                    *)
  MaxReads        (* Requests for /requests.xml. Bounds the model.         *)

ASSUME FileAssumption   == IsFiniteSet(File) /\ Symlink \subseteq File
ASSUME OptionAssumption == UpdateBeforeTransmit \in BOOLEAN
ASSUME BoundAssumption  ==
  MaxTime \in Nat \ {0} /\ MaxChanges \in Nat /\ MaxUpdates \in Nat /\ MaxReads \in Nat

Absent == 0              (* The date of a name that is not on the disk.    *)
NullStamp == -MaxUpdates (* A QDateTime never set: before every file, and  *)
                         (* so even after each Update has added a second.  *)
Thread == {"player", "main"}

VARIABLES
  now,            (* The clock, in seconds.                                *)
  ctime,          (* st_ctime of each name, or Absent.                     *)
  mtime,          (* Its lastModified, that of the target for a link.      *)
  version,        (* Which change made each file what it is.               *)
  changes,        (* Changes of files so far (bounded).                    *)
  mSonglist,      (* mSonglist                                             *)
  mLastTimeStamp, (* mLastTimeStamp                                        *)
  mNextUNID,      (* mNextUNID                                             *)
  pc,             (* Where each thread is.                                 *)
  it,             (* The entries that Update of a thread has yet to visit. *)
  fDate,          (* fDate of Update, and the version it is the date of.   *)
  i,              (* i of AsXML.                                           *)
  updates,        (* Calls of Update so far (bounded).                     *)
  reads,          (* Requests for /requests.xml so far (bounded).          *)
  first,          (* History: the files that the first Update listed.      *)
  updated,        (* History: the first Update is over.                    *)
  lastadded,      (* History: the largest date of a file added.            *)
  pushed,         (* History: how often each version was appended.         *)
  skippednew,     (* History: Update passed over a file newer than all the *)
                  (* files added before.                                   *)
  taken,          (* History: songs given to the player, first to last.    *)
  overread,       (* History: AsXML read a song behind the end.            *)
  lastread,       (* History: the song AsXML read last.                    *)
  atsize          (* History: the songs taken when AsXML asked for Size.   *)

disk    == <<ctime, mtime, version, changes>>
songs   == <<mSonglist, mLastTimeStamp, mNextUNID>>
listing == <<i, lastread, atsize>>
local   == <<it, fDate, listing>>
bounds  == <<updates, reads>>
history == <<first, updated, lastadded, pushed, skippednew, taken, overread>>
vars    == <<now, disk, songs, pc, local, bounds, history>>

Goto(t, from, to) == pc[t] = from /\ pc' = [pc EXCEPT ![t] = to]

OnDisk == {f \in File : ctime[f] # Absent}

(* What QFileInfo remembers of a file when the directory is listed. *)
Info(f) == [name |-> f, modified |-> mtime[f], version |-> version[f]]

Stamped(date, v) == [date |-> date, version |-> v]

(* The constructor calls Update, before there is a second thread. *)
Init ==
  /\ now = 1
  /\ ctime = [f \in File |-> Absent]
  /\ mtime = [f \in File |-> Absent]
  /\ version = [f \in File |-> 0]
  /\ changes = 0
  /\ mSonglist = <<>>
  /\ mLastTimeStamp = NullStamp
  /\ mNextUNID = 0
  /\ pc = [t \in Thread |-> IF t = "main" THEN "construct" ELSE "idle"]
  /\ it = [t \in Thread |-> <<>>]
  /\ fDate = [t \in Thread |-> Stamped(0, 0)]
  /\ i = 0
  /\ updates = 0
  /\ reads = 0
  /\ first = {}
  /\ updated = FALSE
  /\ lastadded = Absent
  /\ pushed = [v \in 1..MaxChanges |-> 0]
  /\ skippednew = FALSE
  /\ taken = <<>>
  /\ overread = FALSE
  /\ lastread = 0
  /\ atsize = 0

-----------------------------------------------------------------------------
(***************************************************************************)
(* The world.  A file is written (its lastModified is now) or moved into   *)
(* the directory (it keeps the one it had); a link is made to a file of    *)
(* any age.  Either sets the ctime.                                        *)
(***************************************************************************)
Tick ==
  /\ now < MaxTime
  /\ now' = now + 1
  /\ UNCHANGED <<disk, songs, pc, local, bounds, history>>

Change(f, modified) ==
  /\ changes < MaxChanges
  /\ changes' = changes + 1
  /\ version' = [version EXCEPT ![f] = changes + 1]
  /\ ctime' = [ctime EXCEPT ![f] = now]
  /\ mtime' = [mtime EXCEPT ![f] = modified]
  /\ UNCHANGED <<now, songs, pc, local, bounds, history>>

Remove(f) ==
  /\ f \in OnDisk
  /\ ctime' = [ctime EXCEPT ![f] = Absent]
  /\ UNCHANGED <<now, mtime, version, changes, songs, pc, local, bounds, history>>

-----------------------------------------------------------------------------
(* Mutant: QDir::Reversed is forgotten, the newest file comes first. *)
ListingsNewestFirst ==
  {s \in UNION {[1..Cardinality(OnDisk) -> {Info(f) : f \in OnDisk}]} :
     /\ \A a, b \in DOMAIN s : a < b => s[a].modified >= s[b].modified
     /\ \A f \in OnDisk : \E a \in DOMAIN s : s[a].name = f}

(***************************************************************************)
(* Update: list the readable files, oldest lastModified first.             *)
(***************************************************************************)
Listings ==
  {s \in UNION {[1..Cardinality(OnDisk) -> {Info(f) : f \in OnDisk}]} :
     /\ \A a, b \in DOMAIN s : a < b => s[a].modified <= s[b].modified
     /\ \A f \in OnDisk : \E a \in DOMAIN s : s[a].name = f}

List(t, from) ==
  /\ Goto(t, from, "entry")
  /\ updates < MaxUpdates
  /\ updates' = updates + 1
  /\ it' \in {[it EXCEPT ![t] = s] : s \in Listings}
  /\ first' = IF updates = 0 THEN {Info(f).version : f \in OnDisk} ELSE first
  /\ UNCHANGED <<now, disk, songs, fDate, listing, reads, updated, lastadded, pushed,
                 skippednew, taken, overread>>

(***************************************************************************)
(* One entry: its date is the ctime of the link itself or what the listing *)
(* says.  If lstat fails, "continue" leads back to the same entry: Update  *)
(* goes round until the name is there again.                               *)
(***************************************************************************)
Stat(info) ==
  IF info.name \in Symlink THEN Stamped(ctime[info.name], version[info.name])
                           ELSE Stamped(info.modified, info.version)

IsNew(date) == date >= mLastTimeStamp

Take(t) ==
  /\ IsNew(fDate'[t].date)
  /\ Goto(t, "entry", "add")
  /\ UNCHANGED <<it, skippednew>>

(* Mutant: an old entry is not stepped over. *)
PassOverNot(t) ==
  /\ ~IsNew(fDate'[t].date)
  /\ Goto(t, "entry", "entry")
  /\ UNCHANGED <<it, skippednew>>

PassOver(t) ==
  /\ ~IsNew(fDate'[t].date)
  /\ Goto(t, "entry", "entry")
  /\ it' = [it EXCEPT ![t] = Tail(@)]
  /\ skippednew' = (skippednew \/ fDate'[t].date > lastadded)

Entry(t) ==
  /\ it[t] # <<>>
  /\ Head(it[t]).name \in Symlink => Head(it[t]).name \in OnDisk
  /\ fDate' = [fDate EXCEPT ![t] = Stat(Head(it[t]))]
  /\ Take(t) \/ PassOver(t)
  /\ UNCHANGED <<now, disk, songs, listing, bounds, first, updated, lastadded, pushed, taken,
                 overread>>

(* Under mMutex: a new SongFile with a new id, and the new time stamp. *)
Add(t) ==
  /\ Goto(t, "add", "entry")
  /\ mNextUNID' = mNextUNID + 1
  /\ mSonglist' = Append(mSonglist, [unid |-> mNextUNID + 1, date |-> fDate[t].date,
                                     version |-> fDate[t].version])
  /\ mLastTimeStamp' = fDate[t].date
  /\ it' = [it EXCEPT ![t] = Tail(@)]
  /\ lastadded' = IF fDate[t].date > lastadded THEN fDate[t].date ELSE lastadded
  /\ pushed' = [pushed EXCEPT ![fDate[t].version] = @ + 1]
  /\ UNCHANGED <<now, disk, fDate, listing, bounds, first, updated, skippednew, taken, overread>>

(* Mutant: no second is added. *)
AddNoSecs(stamp) == stamp

(* After the last entry, and whether or not a song was added. *)
AddSecs(stamp) == stamp + 1

Then(t) == IF t = "player" THEN "next" ELSE IF updated THEN "size" ELSE "idle"

Stamp(t) ==
  /\ it[t] = <<>>
  /\ Goto(t, "entry", Then(t))
  /\ mLastTimeStamp' = AddSecs(mLastTimeStamp)
  /\ updated' = TRUE
  /\ UNCHANGED <<now, disk, mSonglist, mNextUNID, local, bounds, first, lastadded,
                 pushed, skippednew, taken, overread>>

-----------------------------------------------------------------------------
(***************************************************************************)
(* The player, in Collections::GetNextSong: Update, then GetNextSong,      *)
(* which throws EmptyCollection if there is no song.                       *)
(***************************************************************************)
PlayerUpdates == updated /\ List("player", "idle")

GetNextSong ==
  /\ Goto("player", "next", "idle")
  /\ IF mSonglist = <<>>
       THEN UNCHANGED <<mSonglist, taken>>
       ELSE /\ mSonglist' = Tail(mSonglist)
            /\ taken' = Append(taken, Head(mSonglist))
  /\ UNCHANGED <<now, disk, mLastTimeStamp, mNextUNID, local, bounds, first, updated,
                 lastadded, pushed, skippednew, overread>>

(***************************************************************************)
(* The main thread, in AsXML: Size() and GetSong(i) lock one call each.    *)
(* What is read behind the end is no song: lastread stays.                 *)
(***************************************************************************)
Construct == List("main", "construct")

AsXML ==
  /\ reads < MaxReads
  /\ reads' = reads + 1
  /\ i' = 0
  /\ lastread' = 0
  /\ UpdateBeforeTransmit => updates < MaxUpdates
  /\ Goto("main", "idle", IF UpdateBeforeTransmit THEN "update" ELSE "size")
  /\ UNCHANGED <<now, disk, songs, it, fDate, atsize, updates, history>>

MainUpdates == List("main", "update")

(* Mutant: the loop runs one song too far. *)
SizeFar ==
  /\ Goto("main", "size", IF i <= Len(mSonglist) THEN "get" ELSE "idle")
  /\ atsize' = Len(taken)
  /\ UNCHANGED <<now, disk, songs, it, fDate, i, lastread, bounds, history>>

Size ==
  /\ Goto("main", "size", IF i < Len(mSonglist) THEN "get" ELSE "idle")
  /\ atsize' = Len(taken)
  /\ UNCHANGED <<now, disk, songs, it, fDate, i, lastread, bounds, history>>

GetSong ==
  /\ Goto("main", "get", "size")
  /\ i' = i + 1
  /\ IF i < Len(mSonglist)
       THEN lastread' = mSonglist[i + 1].unid /\ UNCHANGED overread
       ELSE overread' = TRUE /\ UNCHANGED lastread
  /\ UNCHANGED <<now, disk, songs, it, fDate, atsize, bounds, first, updated, lastadded,
                 pushed, skippednew, taken>>

-----------------------------------------------------------------------------
UpdateStep(t) == Entry(t) \/ Add(t) \/ Stamp(t)

Next ==
  \/ Tick
  \/ \E f \in File : (\E m \in 1..now : Change(f, m)) \/ Remove(f)
  \/ \E t \in Thread : UpdateStep(t)
  \/ Construct
  \/ PlayerUpdates
  \/ GetNextSong
  \/ AsXML
  \/ MainUpdates
  \/ Size
  \/ GetSong

Spec == Init /\ [][Next]_vars

(***************************************************************************)
(* Both threads are scheduled; nobody owes the directory a file, the       *)
(* player a look at it, or the server a request.                           *)
(***************************************************************************)
FairSpec ==
  /\ Spec
  /\ \A t \in Thread : WF_vars(UpdateStep(t))
  /\ WF_vars(GetNextSong)
  /\ WF_vars(Size \/ GetSong)

-----------------------------------------------------------------------------
SongType == [unid : Nat, date : 0..MaxTime, version : 0..MaxChanges]
InfoType == [name : File, modified : 0..MaxTime, version : 0..MaxChanges]

TypeOK ==
  /\ now \in 1..MaxTime
  /\ ctime \in [File -> 0..MaxTime]
  /\ mtime \in [File -> 0..MaxTime]
  /\ version \in [File -> 0..MaxChanges]
  /\ changes \in 0..MaxChanges
  /\ mSonglist \in Seq(SongType)
  /\ mLastTimeStamp \in NullStamp..(MaxTime + MaxUpdates)
  /\ mNextUNID \in Nat
  /\ pc \in [Thread -> {"construct", "idle", "entry", "add", "next", "update", "size", "get"}]
  /\ it \in [Thread -> Seq(InfoType)]
  /\ fDate \in [Thread -> [date : 0..MaxTime, version : 0..MaxChanges]]
  /\ i \in Nat
  /\ updates \in 0..MaxUpdates
  /\ reads \in 0..MaxReads
  /\ first \subseteq 0..MaxChanges
  /\ updated \in BOOLEAN
  /\ lastadded \in 0..MaxTime
  /\ pushed \in [1..MaxChanges -> Nat]
  /\ skippednew \in BOOLEAN
  /\ taken \in Seq(SongType)
  /\ overread \in BOOLEAN
  /\ lastread \in Nat
  /\ atsize \in Nat

(***************************************************************************)
(* "Add a second to timestamp, or last file(s) will show up in next        *)
(* iteration" (Collection_Songlist_Dir.cpp:93): no state of a file is      *)
(* queued twice.                                                           *)
(***************************************************************************)
QueuedOnce == \A v \in 1..MaxChanges : pushed[v] <= 1

(***************************************************************************)
(* The songs of the player are a RequestQueue: whatever lands, goes and is *)
(* relinked while Update is under way, no state of a file is queued twice, *)
(* and they are handed out in the order of the dates Update stamps.        *)
(***************************************************************************)
Request(s) == [id |-> s.unid, date |-> s.date, version |-> s.version]

Abstract == INSTANCE RequestQueue WITH
  waiting <- {Request(mSonglist[n]) : n \in DOMAIN mSonglist},
  queued  <- {v \in 1..MaxChanges : pushed[v] > 0},
  played  <- IF taken = <<>> THEN 0 ELSE taken[Len(taken)].date

ImplementsRequestQueue == Abstract!Spec

(***************************************************************************)
(* The first Update queues every file it lists ("Update the collection     *)
(* (new/deleted songs, etc.)", ICollection.h:67).                          *)
(***************************************************************************)
FirstTakesAll == updated => \A v \in first : pushed[v] > 0

(***************************************************************************)
(* "Date/time of last file added to songlist ... to only add newer files"  *)
(* (Collection_Songlist_Dir.h:31-33): a file that is newer than all that   *)
(* were added before is added by the Update that sees it.                  *)
(***************************************************************************)
NewerIsAdded == ~skippednew

(***************************************************************************)
(* "Mutex used for serialization" (Collection_Songlist.h:36): the list     *)
(* does not shrink between the length a reader was told and its read.      *)
(***************************************************************************)
ReadsInRange == ~overread

(***************************************************************************)
(* A listing is sound but for what is taken while it is made: it may skip  *)
(* a song, never lists one twice nor a later one first, and reads behind   *)
(* the end only if the player took a song between Size and GetSong.        *)
(***************************************************************************)
ListingSound ==
  [][i' = i + 1 => IF i < Len(mSonglist) THEN mSonglist[i + 1].unid > lastread
                                         ELSE Len(taken) > atsize]_vars

(***************************************************************************)
(* "Iterate over files in directory" (Collection_Songlist_Dir.cpp:53): the *)
(* iteration comes to its end, whatever happens to the files meanwhile.    *)
(***************************************************************************)
UpdateEnds == \A t \in Thread : pc[t] = "entry" ~> pc[t] \notin {"entry", "add"}
=============================================================================
