----------------------------- MODULE Directory -----------------------------
(***************************************************************************)
(* A playlist of the netdj daemon (Directory.cc in directory mode): the    *)
(* song directory on the disk, the queue that Directory::Update builds     *)
(* from it by comparing change times with the time of the last scan, and   *)
(* the state file by which the cache list survives a restart (savestate,   *)
(* loadstate, quit in main.cc).                                            *)
(*                                                                         *)
(* Update runs under the lock of the list, on behalf of the player thread  *)
(* (GetSong) or of the HTTP thread (GetSize), but the directory is read    *)
(* entry by entry and files land in it meanwhile.  Time is counted in      *)
(* whole seconds, as time_t and st_ctime are.                              *)
(***************************************************************************)
EXTENDS Integers, Sequences, FiniteSets

CONSTANTS
  File,           (* Names of files that may appear in the directory.      *)
  Mp3File,        (* Those whose name ends in .mp3.                        *)
  MaxTime,        (* Last second of the clock. Bounds the model.           *)
  MaxChanges,     (* Changes of files. Bounds the model.                   *)
  MaxStarts       (* Starts of the daemon; the last run is not ended.      *)
                  (* Bounds the model.                                     *)

ASSUME FileAssumption == Mp3File \subseteq File
ASSUME BoundAssumption ==
  MaxTime \in Nat \ {0} /\ MaxChanges \in Nat /\ MaxStarts \in Nat \ {0}

Absent == 0       (* The ctime of a name that is not on the disk: stat     *)
                  (* fails and the File holds zeros.                       *)
NoFileState == -1 (* There is no state file.                               *)
Truncated   == -2 (* The state file is empty.                              *)

VARIABLES
  now,            (* The clock.                                            *)
  ctime,          (* st_ctime of each file, or Absent.                     *)
  version,        (* Which change made each file what it is.               *)
  changes,        (* Changes of files so far (bounded).                    *)
  list,           (* list: File objects with the stat they were read with. *)
  lastupdate,     (* lastupdate                                            *)
  nextfileid,     (* nextfileid                                            *)
  holder,         (* Who holds the list's lock.                            *)
  unread,         (* Directory entries the scan has still to return.       *)
  daemon,         (* "up", the steps of savestate, or "down".              *)
  upd,            (* upd of savestate.                                     *)
  statefile,      (* The content of the state file.                        *)
  starts,         (* Starts of the daemon so far (bounded).                *)
  pushed,         (* History: versions push_back'ed in this run, by count. *)
  playedto,       (* History: largest ctime GetSong returned in this run.  *)
  outoforder,     (* History: GetSong returned an older song later.        *)
  blind,          (* History: seconds in which a scan of this run passed.  *)
  keep,           (* History: files that the last quit owed to the next    *)
                  (* run, each with its version, and how it quit.          *)
  scanned         (* History: this run has completed a scan.               *)

disk    == <<ctime, version, changes>>
queue   == <<list, lastupdate, nextfileid, holder, unread>>
state   == <<daemon, upd, statefile, starts>>
history == <<pushed, playedto, outoforder, blind, keep, scanned>>
vars    == <<now, disk, queue, state, history>>

OnDisk == {f \in File : ctime[f] # Absent}
Entry(f, id) == [name |-> f, ctime |-> ctime[f], version |-> version[f], id |-> id]
EntryType == [name : File, ctime : 0..MaxTime, version : 0..MaxChanges, id : Nat]
Queued(f) == \E i \in DOMAIN list : list[i].version = version[f]

Scanning == holder \in {"player", "http"}

NothingKept == [files |-> {}, version |-> version, how |-> "queued"]

Init ==
  /\ now = 1
  /\ ctime = [f \in File |-> Absent]
  /\ version = [f \in File |-> 0]
  /\ changes = 0
  /\ list = <<>>
  /\ lastupdate = 0
  /\ nextfileid = 0
  /\ holder = "nobody"
  /\ unread = {}
  /\ daemon = "up"
  /\ upd = 0
  /\ statefile = NoFileState
  /\ starts = 1
  /\ pushed = [v \in 1..MaxChanges |-> 0]
  /\ playedto = 0
  /\ outoforder = FALSE
  /\ blind = {}
  /\ keep = NothingKept
  /\ scanned = FALSE

-----------------------------------------------------------------------------
(***************************************************************************)
(* The world: time passes; a file is created, written to, or moved into    *)
(* place, which sets its ctime; a file is removed.  readdir may or may not *)
(* return an entry that appears while the directory is being read.         *)
(***************************************************************************)
Tick ==
  /\ now < MaxTime
  /\ now' = now + 1
  /\ blind' = IF Scanning THEN blind \cup {now + 1} ELSE blind
  /\ UNCHANGED <<disk, queue, state, pushed, playedto, outoforder, keep, scanned>>

Change(f) ==
  /\ changes < MaxChanges
  /\ changes' = changes + 1
  /\ version' = [version EXCEPT ![f] = changes + 1]
  /\ ctime' = [ctime EXCEPT ![f] = now]
  /\ unread' \in {unread, IF Scanning THEN unread \cup {f} ELSE unread}
  /\ UNCHANGED <<now, list, lastupdate, nextfileid, holder, state, history>>

Remove(f) ==
  /\ ctime[f] # Absent
  /\ ctime' = [ctime EXCEPT ![f] = Absent]
  /\ UNCHANGED <<now, version, changes, queue, state, history>>

-----------------------------------------------------------------------------
(***************************************************************************)
(* Directory::Update, in directory mode, within GetSong (the player) or    *)
(* GetSize (the HTTP thread): lock and opendir; one readdir and stat at a  *)
(* time; sort the whole list by ctime and take the time.                   *)
(***************************************************************************)
Running == daemon # "down"

ScanBegin(caller) ==
  /\ Running
  /\ holder = "nobody"
  /\ holder' = caller
  /\ unread' = OnDisk
  /\ blind' = blind \cup {now}
  /\ UNCHANGED <<now, disk, list, lastupdate, nextfileid, state,
                 pushed, playedto, outoforder, keep, scanned>>

(* Mutant: a file of the second of the last scan counts as new. *)
FreshAgain(f) == ctime[f] >= lastupdate

(* Mutant: a file must be more than a second newer than the last scan. *)
FreshLate(f) == ctime[f] > lastupdate + 1

Fresh(f) == ctime[f] > lastupdate

ScanEntry(f) ==
  /\ Running
  /\ f \in unread
  /\ unread' = unread \ {f}
  /\ IF f \in OnDisk \cap Mp3File /\ Fresh(f)
       THEN /\ list' = Append(list, Entry(f, nextfileid))
            /\ nextfileid' = nextfileid + 1
            /\ pushed' = [pushed EXCEPT ![version[f]] = @ + 1]
       ELSE UNCHANGED <<list, nextfileid, pushed>>
  /\ UNCHANGED <<now, disk, lastupdate, holder, state, playedto, outoforder, blind, keep, scanned>>

(* ::sort is not stable: files of one second come in any order. *)
Sorted(s) == \A i, j \in DOMAIN s : i < j => s[i].ctime <= s[j].ctime

Sortings(s) ==
  LET positions == DOMAIN s
      orders == {p \in [positions -> positions] :
                   /\ \A i, j \in positions : i # j => p[i] # p[j]
                   /\ \A j \in positions : \E i \in positions : p[i] = j}
  IN  {r \in {[i \in positions |-> s[p[i]]] : p \in orders} : Sorted(r)}

(* Mutant: the scan claims the next second too. *)
ScanEndAhead(next) ==
  /\ Running
  /\ unread = {}
  /\ list' \in Sortings(list)
  /\ lastupdate' = now + 1
  /\ holder' = next
  /\ scanned' = TRUE
  /\ UNCHANGED <<now, disk, nextfileid, unread, state, pushed, playedto, outoforder, blind, keep>>

ScanEnd(next) ==
  /\ Running
  /\ unread = {}
  /\ list' \in Sortings(list)
  /\ lastupdate' = now
  /\ holder' = next
  /\ scanned' = TRUE
  /\ UNCHANGED <<now, disk, nextfileid, unread, state, pushed, playedto, outoforder, blind, keep>>

(* GetSize: the length of the list is read and the lock released. *)
GetSizeEnd == holder = "http" /\ ScanEnd("nobody")

(* GetSong: the player goes on to take the front. *)
GetSongScanned == holder = "player" /\ ScanEnd("taker")

(* Mutant: the front is returned, the back is popped. *)
GetSongPopBack ==
  /\ Running
  /\ holder = "taker"
  /\ holder' = "nobody"
  /\ IF list = <<>>
       THEN UNCHANGED <<list, playedto, outoforder>>
       ELSE /\ list' = SubSeq(list, 1, Len(list) - 1)
            /\ playedto' = Head(list).ctime
            /\ UNCHANGED outoforder
  /\ UNCHANGED <<now, disk, lastupdate, nextfileid, unread, state, pushed, blind, keep, scanned>>

(***************************************************************************)
(* GetSong: pop the front, if there is one, and release the lock.          *)
(***************************************************************************)
GetSong ==
  /\ Running
  /\ holder = "taker"
  /\ holder' = "nobody"
  /\ IF list = <<>>
       THEN UNCHANGED <<list, playedto, outoforder>>
       ELSE /\ list' = Tail(list)
            /\ playedto' = IF Head(list).ctime > playedto THEN Head(list).ctime ELSE playedto
            /\ outoforder' = (outoforder \/ Head(list).ctime < playedto)
  /\ UNCHANGED <<now, disk, lastupdate, nextfileid, unread, state, pushed, blind, keep, scanned>>

-----------------------------------------------------------------------------
(***************************************************************************)
(* quit, in the signal handler on the main thread, while the other threads *)
(* run on.  GetNextTimestamp reads list.front() without the lock; on an    *)
(* empty deque that is undefined: any value, or the end of the process     *)
(* (Crash).  While the scan sorts, any entry may stand in front; while it  *)
(* reads, the first is as old as any other unless the scan itself put it   *)
(* there.  Then the state file is truncated, written, and the process      *)
(* exits.                                                                  *)
(***************************************************************************)
Owed == {f \in Mp3File \cap OnDisk : Queued(f) \/ Fresh(f)}

Sorting == Scanning /\ unread = {}

FrontMayBeLate == Sorting \/ Head(list).ctime > lastupdate

HowItQuits ==
  IF list = <<>> THEN "empty" ELSE IF FrontMayBeLate THEN "scanning" ELSE "queued"

GetNextTimestamp ==
  CASE list = <<>> -> 0..MaxTime
    [] list # <<>> /\ Sorting -> {list[i].ctime : i \in DOMAIN list}
    [] OTHER -> {Head(list).ctime}

SaveRead ==
  /\ daemon = "up"
  /\ starts < MaxStarts
  /\ daemon' = "truncate"
  /\ upd' \in GetNextTimestamp
  /\ keep' = [files |-> Owed, version |-> version, how |-> HowItQuits]
  /\ UNCHANGED <<now, disk, queue, statefile, starts, pushed, playedto, outoforder, blind, scanned>>

SaveTruncate ==
  /\ daemon = "truncate"
  /\ daemon' = "write"
  /\ statefile' = Truncated
  /\ UNCHANGED <<now, disk, queue, upd, starts, history>>

(* What dies with the process: the list, its lock and its counters. *)
ProcessEnds ==
  /\ daemon' = "down"
  /\ list' = <<>>
  /\ lastupdate' = 0
  /\ nextfileid' = 0
  /\ holder' = "nobody"
  /\ unread' = {}
  /\ scanned' = FALSE
  /\ playedto' = 0
  /\ pushed' = [v \in 1..MaxChanges |-> 0]
  /\ blind' = {}

SaveWrite ==
  /\ daemon = "write"
  /\ statefile' = upd
  /\ ProcessEnds
  /\ UNCHANGED <<now, disk, upd, starts, outoforder, keep>>

Crash ==
  /\ Running
  /\ starts < MaxStarts
  /\ ProcessEnds
  /\ keep' = NothingKept
  /\ UNCHANGED <<now, disk, upd, statefile, starts, outoforder>>

(* Mutant: the time is taken as it was saved. *)
LoadStateAsSaved(from) == from

(***************************************************************************)
(* main and loadstate: without a state file lastupdate stays zero; of an   *)
(* empty one read returns 0 bytes, no error, and upd is never set.         *)
(***************************************************************************)
LoadState(from) == from - 1

Start ==
  /\ daemon = "down"
  /\ starts < MaxStarts
  /\ starts' = starts + 1
  /\ daemon' = "up"
  /\ lastupdate' \in CASE statefile = NoFileState -> {0}
                       [] statefile = Truncated -> {LoadState(u) : u \in 0..MaxTime}
                       [] OTHER -> {LoadState(statefile)}
  /\ UNCHANGED <<now, disk, list, nextfileid, holder, unread, upd, statefile, history>>

-----------------------------------------------------------------------------
Next ==
  \/ Tick
  \/ \E f \in File : Change(f) \/ Remove(f)
  \/ \E caller \in {"player", "http"} : ScanBegin(caller)
  \/ \E f \in File : ScanEntry(f)
  \/ GetSizeEnd
  \/ GetSongScanned
  \/ GetSong
  \/ SaveRead
  \/ SaveTruncate
  \/ SaveWrite
  \/ Crash
  \/ Start

Spec == Init /\ [][Next]_vars

-----------------------------------------------------------------------------
TypeOK ==
  /\ now \in 1..MaxTime
  /\ ctime \in [File -> 0..MaxTime]
  /\ version \in [File -> 0..MaxChanges]
  /\ changes \in 0..MaxChanges
  /\ list \in Seq(EntryType)
  /\ lastupdate \in -1..MaxTime
  /\ nextfileid \in Nat
  /\ holder \in {"nobody", "player", "http", "taker"}
  /\ unread \subseteq File
  /\ daemon \in {"up", "truncate", "write", "down"}
  /\ upd \in 0..MaxTime
  /\ statefile \in Truncated..MaxTime
  /\ starts \in 1..MaxStarts
  /\ pushed \in [1..MaxChanges -> Nat]
  /\ playedto \in 0..MaxTime
  /\ outoforder \in BOOLEAN
  /\ blind \subseteq 1..MaxTime
  /\ keep \in [files : SUBSET File, version : [File -> 0..MaxChanges],
               how : {"queued", "scanning", "empty"}]
  /\ scanned \in BOOLEAN

(***************************************************************************)
(* No state of a file is queued twice in a run of the daemon, by the scans *)
(* of the player and of the HTTP thread together, however changes and      *)
(* scans interleave within a second.                                       *)
(***************************************************************************)
QueuedOnce == \A v \in 1..MaxChanges : pushed[v] <= 1

(***************************************************************************)
(* "play the files in the order that they are downloaded" (README:8-9):    *)
(* within a run GetSong never returns a file older than one it returned    *)
(* before, over any number of scans.                                       *)
(***************************************************************************)
PlayedInOrder == ~outoforder

(***************************************************************************)
(* Directory implements RequestQueue: an entry is queued when the scan     *)
(* that found it has sorted the list, and a restart begins anew.           *)
(***************************************************************************)
Listed == {list[i] : i \in DOMAIN list}
Found  == IF Scanning THEN {e \in Listed : e.ctime > lastupdate} ELSE {}
Request(e) == [id |-> e.id, date |-> e.ctime, version |-> e.version]

Waiting       == {Request(e) : e \in Listed \ Found}
QueuedSoFar   == {v \in 1..MaxChanges : pushed[v] > 0} \ {e.version : e \in Found}

Abstract == INSTANCE RequestQueue WITH
  waiting <- Waiting, queued <- QueuedSoFar, played <- playedto

ImplementsRequestQueue == Abstract!Spec

(***************************************************************************)
(* The loss is bounded: a file that is on the disk, was never queued and   *)
(* is too old for the next scan changed in a second in which a scan was    *)
(* under way (in the first run, which begins with a scan of everything).   *)
(***************************************************************************)
NeverQueued(f) == f \in Mp3File /\ f \in OnDisk /\ pushed[version[f]] = 0

LostOnlyDuringScan ==
  scanned /\ holder = "nobody" /\ starts = 1 =>
    \A f \in File : NeverQueued(f) /\ ~Fresh(f) => ctime[f] \in blind

(***************************************************************************)
(* "NetDJ will then scan that directory and play the files" (README:8): a  *)
(* file on the disk that was not queued yet will be by the next scan.      *)
(***************************************************************************)
EveryFileIsQueued ==
  scanned /\ holder = "nobody" /\ starts = 1 =>
    \A f \in File : NeverQueued(f) => Fresh(f)

(***************************************************************************)
(* "If we don't subtract one, the oldest file won't be included in next    *)
(* update" (main.cc:161-162): what was queued or waiting to be scanned     *)
(* when the daemon was told to quit is queued again by the first scan of   *)
(* the next run, if it is still there.  That holds while a scan adds songs *)
(* to a queue that had some, not while it sorts.                           *)
(***************************************************************************)
KeptAfter(how) ==
  keep.how = how /\ daemon = "up" /\ scanned /\ holder = "nobody"
    => \A f \in keep.files :
         version[f] = keep.version[f] /\ f \in OnDisk => pushed[version[f]] > 0

QueuedSurvivesRestart == KeptAfter("queued")
ScannedSurvivesRestart == KeptAfter("scanning")
EmptySurvivesRestart == KeptAfter("empty")
=============================================================================
