------------------------------ MODULE ShareList ------------------------------
(***************************************************************************)
(* The share list of the netdj daemon: a Directory in file mode            *)
(* (src/netdj/src/Directory.cc, fromfile).  A text file names the songs,   *)
(* one a line; Directory::Update loads it again when its change time is    *)
(* past that of the file it loaded last.                                   *)
(*                                                                         *)
(* Update runs under the lock of the list, for the player (GetSong) or for *)
(* the HTTP thread (GetSize), and looks at the disk several times: it      *)
(* stats the list file, asks for its date again where stat failed, opens   *)
(* it, and stats each song it names.  The file is edited and removed, and  *)
(* songs come and go, in between.  Its content is what it was when it was  *)
(* opened: a list is read in one piece.  Which song GetSong picks from the *)
(* list is DaemonPlayer's GetFromShare.                                    *)
(***************************************************************************)
EXTENDS Integers, Sequences, FiniteSets, SequencesExt

CONSTANTS
  Song,           (* Names of songs that the list may hold.                *)
  Mp3Song,        (* Those that end in .mp3.                               *)
  KeptSong,       (* Those that are on the disk all the time.              *)
  LongLine,       (* A line that getline cannot read as a whole.           *)
  MaxLines,       (* Lines of the file. Bounds the model.                  *)
  MaxTime,        (* Last second of the clock. Bounds the model.           *)
  MaxEdits        (* Times the list file is written. Bounds the model.     *)

ASSUME SongAssumption ==
  /\ Mp3Song \subseteq Song
  /\ KeptSong \subseteq Song
  /\ LongLine \notin Song

ASSUME BoundAssumption ==
  MaxLines \in Nat /\ MaxTime \in Nat \ {0} /\ MaxEdits \in Nat

Absent == 0       (* The ctime of a File whose stat failed.                *)
Line == Song \cup {LongLine}
Content == UNION {[1..n -> Line] : n \in 0..MaxLines}
Entry == [name : Mp3Song, id : Nat]
NoFile == [version |-> 0, lines |-> <<>>]

VARIABLES
  now,            (* The clock.                                            *)
  file,           (* The list file: the edit that wrote it and its lines.  *)
  ctime,          (* Its st_ctime, or Absent.                              *)
  edits,          (* Edits so far (bounded).                               *)
  songs,          (* The songs on the disk.                                *)
  list,           (* list                                                  *)
  lastupdate,     (* lastupdate                                            *)
  nextfileid,     (* nextfileid                                            *)
  holder,         (* Who holds the lock of the list.                       *)
  pc,             (* Where Update is.                                      *)
  fobj,           (* The ctime in fobj, Absent while it is not valid.      *)
  unread,         (* Lines still to be read.                               *)
  loaded          (* History: the file that was opened last.               *)

disk   == <<file, ctime, edits, songs>>
object == <<list, lastupdate, nextfileid>>
update == <<holder, pc, fobj, unread>>
vars   == <<now, disk, object, update, loaded>>

Init ==
  /\ now = 1
  /\ file = NoFile
  /\ ctime = Absent
  /\ edits = 0
  /\ songs \in {s \in SUBSET Song : KeptSong \subseteq s}
  /\ list = <<>>
  /\ lastupdate = 0
  /\ nextfileid = 0
  /\ holder = "nobody"
  /\ pc = "idle"
  /\ fobj = Absent
  /\ unread = <<>>
  /\ loaded = NoFile

-----------------------------------------------------------------------------
(***************************************************************************)
(* The world: time passes, the user edits or removes the list file, songs  *)
(* come and go.                                                            *)
(***************************************************************************)
Tick ==
  /\ now < MaxTime
  /\ now' = now + 1
  /\ UNCHANGED <<disk, object, update, loaded>>

Edit(lines) ==
  /\ edits < MaxEdits
  /\ edits' = edits + 1
  /\ file' = [version |-> edits + 1, lines |-> lines]
  /\ ctime' = now
  /\ UNCHANGED <<now, songs, object, update, loaded>>

RemoveFile ==
  /\ ctime # Absent
  /\ ctime' = Absent
  /\ file' = NoFile
  /\ UNCHANGED <<now, edits, songs, object, update, loaded>>

ComeOrGo(s) ==
  /\ s \notin KeptSong
  /\ songs' = IF s \in songs THEN songs \ {s} ELSE songs \cup {s}
  /\ UNCHANGED <<now, file, ctime, edits, object, update, loaded>>

-----------------------------------------------------------------------------
(***************************************************************************)
(* GetSong and GetSize: lock, and fobj.SetName(dirname), which stats.      *)
(***************************************************************************)
Lock(caller) ==
  /\ holder = "nobody"
  /\ holder' = caller
  /\ pc' = "stat"
  /\ UNCHANGED <<now, disk, object, fobj, unread, loaded>>

SetName ==
  /\ pc = "stat"
  /\ fobj' = ctime
  /\ pc' = "compare"
  /\ UNCHANGED <<now, disk, object, holder, unread, loaded>>

(***************************************************************************)
(* GetCtime: the date of the last stat, or of a new one if that failed.    *)
(***************************************************************************)
GetCtime == IF fobj = Absent THEN ctime ELSE fobj

(* Mutant: the file must be more than a second newer. *)
NewerLate(date) == date > lastupdate + 1

Newer(date) == date > lastupdate

(***************************************************************************)
(* lastupdate == 0 || fobj.GetCtime() > lastupdate                         *)
(***************************************************************************)
Compare ==
  /\ pc = "compare"
  /\ IF lastupdate = 0
       THEN pc' = "clear" /\ UNCHANGED fobj
       ELSE fobj' = GetCtime /\ pc' = IF Newer(GetCtime) THEN "clear" ELSE "answer"
  /\ UNCHANGED <<now, disk, object, holder, unread, loaded>>

(* Mutant: the list is not cleared. *)
ClearNot ==
  /\ pc = "clear"
  /\ fobj' = GetCtime
  /\ lastupdate' = GetCtime
  /\ pc' = "open"
  /\ UNCHANGED <<now, disk, list, nextfileid, holder, unread, loaded>>

Clear ==
  /\ pc = "clear"
  /\ fobj' = GetCtime
  /\ lastupdate' = GetCtime
  /\ list' = <<>>
  /\ pc' = "open"
  /\ UNCHANGED <<now, disk, nextfileid, holder, unread, loaded>>

(***************************************************************************)
(* f.open; a file that is not there gives no lines.                        *)
(***************************************************************************)
Open ==
  /\ pc = "open"
  /\ unread' = file.lines
  /\ loaded' = file
  /\ pc' = "lines"
  /\ UNCHANGED <<now, disk, object, holder, fobj>>

(***************************************************************************)
(* getline and SetName: a song that is there is added.  A line that is too *)
(* long sets the stream's failbit and is the last one.                     *)
(***************************************************************************)
PushBack(s) ==
  /\ list' = Append(list, [name |-> s, id |-> nextfileid])
  /\ nextfileid' = nextfileid + 1

GetLine ==
  /\ pc = "lines"
  /\ unread # <<>>
  /\ unread' = IF Head(unread) = LongLine THEN <<>> ELSE Tail(unread)
  /\ IF Head(unread) \in songs \cap Mp3Song
       THEN PushBack(Head(unread))
       ELSE UNCHANGED <<list, nextfileid>>
  /\ UNCHANGED <<now, disk, lastupdate, holder, pc, fobj, loaded>>

(***************************************************************************)
(* The size of the list, or one of its songs, is taken and the lock is     *)
(* released.                                                               *)
(***************************************************************************)
Unlock ==
  /\ pc = "answer" \/ (pc = "lines" /\ unread = <<>>)
  /\ pc' = "idle"
  /\ holder' = "nobody"
  /\ fobj' = Absent
  /\ UNCHANGED <<now, disk, object, unread, loaded>>

-----------------------------------------------------------------------------
Next ==
  \/ Tick
  \/ \E lines \in Content : Edit(lines)
  \/ RemoveFile
  \/ \E s \in Song : ComeOrGo(s)
  \/ \E caller \in {"player", "http"} : Lock(caller)
  \/ SetName
  \/ Compare
  \/ Clear
  \/ Open
  \/ GetLine
  \/ Unlock

Spec == Init /\ [][Next]_vars

-----------------------------------------------------------------------------
TypeOK ==
  /\ now \in 1..MaxTime
  /\ file \in {NoFile} \cup [version : 1..MaxEdits, lines : Content]
  /\ ctime \in Absent..now
  /\ edits \in 0..MaxEdits
  /\ songs \in SUBSET Song
  /\ lastupdate \in 0..now
  /\ nextfileid \in Nat
  /\ list \in Seq(Entry)
  /\ \A i \in 1..Len(list) : list[i].id < nextfileid
  /\ holder \in {"nobody", "player", "http"}
  /\ pc \in {"idle", "stat", "compare", "clear", "open", "lines", "answer"}
  /\ (holder = "nobody") <=> (pc = "idle")
  /\ fobj \in Absent..now
  /\ unread \in Content
  /\ loaded \in {NoFile} \cup [version : 1..MaxEdits, lines : Content]

(***************************************************************************)
(* What getline reads of a file: the lines before one that is too long.    *)
(***************************************************************************)
LongAt(lines)   == {n \in 1..Len(lines) : lines[n] = LongLine}
Readable(lines) == IF LongAt(lines) = {} THEN lines ELSE SubSeq(lines, 1, Min(LongAt(lines)) - 1)

(***************************************************************************)
(* The names in a list, and those of them that stay on the disk.           *)
(***************************************************************************)
Names(entries) == [i \in 1..Len(entries) |-> entries[i].name]

Kept(lines) ==
  LET kept[n \in 0..Len(lines)] ==
        IF n = 0 THEN <<>>
        ELSE IF lines[n] \in KeptSong \cap Mp3Song THEN Append(kept[n - 1], lines[n])
        ELSE kept[n - 1]
  IN  kept[Len(lines)]

(***************************************************************************)
(* The list that the player draws from is that of one state of the file,   *)
(* the one loaded last: each of its songs that stays on the disk, in order *)
(* and once a line, and none of an earlier state, whatever is edited while *)
(* two threads load it (Directory::Update).                                *)
(***************************************************************************)
ListIsLoadedFile ==
  holder = "nobody" =>
    /\ Kept(Names(list)) = Kept(Readable(loaded.lines))
    /\ Range(Names(list)) \subseteq Range(Readable(loaded.lines))

(***************************************************************************)
(* The loss is bounded: an edit that was not loaded and never will be, as  *)
(* its date is not past that of the last one, is of the same second.       *)
(***************************************************************************)
Present == ctime # Absent /\ holder = "nobody" /\ lastupdate # 0

MissedOnlyWithinSecond ==
  Present /\ loaded.version # file.version /\ ~Newer(ctime) => ctime = lastupdate

-----------------------------------------------------------------------------
(***************************************************************************)
(* What the sources say and the code does not do.                          *)
(*                                                                         *)
(* README: it "will play random files from you private (share)             *)
(* collection".  The collection is the one of the file as it is.           *)
(***************************************************************************)
EditIsLoaded == Present /\ loaded.version # file.version => Newer(ctime)

(***************************************************************************)
(* Directory.cc: "Load entries from file".  All of them.                   *)
(***************************************************************************)
WholeFileIsLoaded ==
  holder = "nobody" => Kept(Names(list)) = Kept(loaded.lines)
=============================================================================
