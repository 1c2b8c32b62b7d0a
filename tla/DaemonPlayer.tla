---------------------------- MODULE DaemonPlayer ----------------------------
(***************************************************************************)
(* The player of the netdj daemon (src/netdj/src/main.cc): the threads     *)
(* that run player_thread, the song slots they share (TCurrentSong), the   *)
(* two flags by which the commands of the HTTP thread steer them           *)
(* (stop_player, next_song), and the files that come and go on the disk.   *)
(*                                                                         *)
(* The flags are plain globals, written and read without a lock; every     *)
(* access of one is a step of its own here.  The slots and the lists are   *)
(* each guarded by a mutex held for a whole operation, so an operation on  *)
(* them is one step.  A list is what Directory::GetSong shows of it: a     *)
(* FIFO queue that holds every file that has arrived (the requests, the    *)
(* cache) or a collection to draw from at random (the share).  Directory   *)
(* models how it comes to be that.                                         *)
(***************************************************************************)
EXTENDS Integers, Sequences, FiniteSets

CONSTANTS
  Thread,         (* Threads com_start may create. Bounds the model.       *)
  RequestFile,    (* Names of files that may appear in REQUEST_DIR.        *)
  CacheFile,      (* Names of files that may appear in CACHE_DIR.          *)
  ShareFile,      (* Names listed in the share list.                       *)
  NoFile,         (* The empty name of a default-constructed File.         *)
  DeletePlayed,   (* The value of the option DELETE_PLAYED.                *)
  SongBlocks,     (* Blocks of 4096 bytes in a song. Bounds the model.     *)
  MaxLandings,    (* Arrivals of each file. Bounds the model.              *)
  MaxCommands     (* Commands given over HTTP. Bounds the model.           *)

File == RequestFile \cup CacheFile \cup ShareFile

ASSUME FileAssumption ==
  /\ RequestFile \cap CacheFile = {}
  /\ RequestFile \cap ShareFile = {}
  /\ CacheFile \cap ShareFile = {}
  /\ NoFile \notin File

ASSUME OptionAssumption == DeletePlayed \in BOOLEAN

ASSUME BoundAssumption ==
  /\ SongBlocks \in Nat
  /\ MaxLandings \in Nat
  /\ MaxCommands \in Nat

(***************************************************************************)
(* lists[] = {&request, &cache, &share}: the index of a list is its        *)
(* priority.  A Song is a File object taken from a list: its name and the  *)
(* id that the list gave it.  NoSong is File().                            *)
(***************************************************************************)
Request == 0
Cache   == 1
Share   == 2
Lists   == {Request, Cache, Share}
Playlists == {Request, Cache}

FilesOf(l) ==
  IF l = Request THEN RequestFile ELSE IF l = Cache THEN CacheFile ELSE ShareFile

Song   == [list : Lists, name : File, id : Nat]
NoSong == [list |-> Share, name |-> NoFile, id |-> 0]

(***************************************************************************)
(* The switch over the list a song came from: requests are always deleted  *)
(* once played, cached songs if the option says so, shared songs never.    *)
(***************************************************************************)
DeleteIt(l) == l = Request \/ (l = Cache /\ DeletePlayed)

VARIABLES
  stop_player,    (* bool stop_player                                      *)
  next_song,      (* bool next_song                                        *)
  curr,           (* TCurrentSong: currfile and currdelete                 *)
  prev,           (* TCurrentSong: prevfile and prevdelete                 *)
  disk,           (* The names that exist on the disk.                     *)
  queue,          (* queue[l]: the list of playlist l.                     *)
  nextfileid,     (* Directory::nextfileid of each playlist.               *)
  pc,             (* Where each player thread is.                          *)
  song,           (* fobj of each thread.                                  *)
  left,           (* Blocks the thread still has to read from musicfile.   *)
  http,           (* Where the HTTP thread is in a command.                *)
  landed,         (* Arrivals of each file so far (bounded).               *)
  commands,       (* Commands given so far (bounded).                      *)
  marked,         (* History: songs given to currentsong.Set to delete.    *)
  unlinked,       (* History: songs whose file InternalSet tried to delete.*)
  opened,         (* History: songs a thread has tried to open.            *)
  told,           (* History: threads that ran when stop was commanded.    *)
  skipped         (* History: the current song when next was last given.   *)

flags   == <<stop_player, next_song>>
slots   == <<curr, prev>>
lists   == <<queue, nextfileid, landed>>
player  == <<pc, song, left>>
history == <<marked, unlinked, opened, told, skipped>>
vars    == <<flags, slots, disk, lists, player, http, commands, history>>

Label == {"none", "enter", "enter_next", "connect", "while", "reset", "get",
          "get_cache", "get_share", "clear", "sleep", "exists", "differs", "set",
          "open", "stream", "exit", "ended"}

Live(t)      == pc[t] \notin {"none", "ended"}
Slot(s, d)   == [file |-> s, del |-> d]
EmptySlot    == Slot(NoSong, FALSE)

Goto(t, from, to) ==
  /\ pc[t] = from
  /\ pc' = [pc EXCEPT ![t] = to]

(***************************************************************************)
(* main: PLAYER_START decides whether main creates a first player thread.  *)
(***************************************************************************)
Init ==
  /\ stop_player = FALSE
  /\ next_song = FALSE
  /\ curr = EmptySlot
  /\ prev = EmptySlot
  /\ disk = ShareFile
  /\ queue = [l \in Playlists |-> <<>>]
  /\ nextfileid = [l \in Playlists |-> 0]
  /\ \/ pc = [t \in Thread |-> "none"]
     \/ \E first \in Thread :
          pc = [t \in Thread |-> IF t = first THEN "enter" ELSE "none"]
  /\ song = [t \in Thread |-> NoSong]
  /\ left = [t \in Thread |-> 0]
  /\ http = "ready"
  /\ landed = [f \in RequestFile \cup CacheFile |-> 0]
  /\ commands = 0
  /\ marked = {}
  /\ unlinked = {}
  /\ opened = {}
  /\ told = {}
  /\ skipped = NoSong

-----------------------------------------------------------------------------
(***************************************************************************)
(* The disk.  A download or a request puts a file in a directory; the next *)
(* Directory::Update appends it with a fresh id.  Other programs and the   *)
(* user may remove any file.                                               *)
(***************************************************************************)
Land(l, f) ==
  /\ f \in FilesOf(l)
  /\ landed[f] < MaxLandings
  /\ landed' = [landed EXCEPT ![f] = @ + 1]
  /\ disk' = disk \cup {f}
  /\ queue' = [queue EXCEPT ![l] =
                 Append(@, [list |-> l, name |-> f, id |-> nextfileid[l]])]
  /\ nextfileid' = [nextfileid EXCEPT ![l] = @ + 1]
  /\ UNCHANGED <<flags, slots, player, http, commands, history>>

Vanish(f) ==
  /\ f \in disk
  /\ disk' = disk \ {f}
  /\ UNCHANGED <<flags, slots, lists, player, http, commands, history>>

-----------------------------------------------------------------------------
(* Mutant: the file to be played is marked deleted at once. *)
InternalSetEager(fil, del) ==
  /\ disk' = IF del THEN disk \ {fil.name} ELSE disk
  /\ unlinked' = IF del THEN unlinked \cup {fil} ELSE unlinked
  /\ prev' = curr
  /\ curr' = Slot(fil, del)

(* Mutant: prevdelete is assigned after currdelete was overwritten. *)
InternalSetSwapped(fil, del) ==
  /\ disk' = IF prev.del THEN disk \ {prev.file.name} ELSE disk
  /\ unlinked' = IF prev.del THEN unlinked \cup {prev.file} ELSE unlinked
  /\ prev' = Slot(curr.file, del)
  /\ curr' = Slot(fil, del)

(***************************************************************************)
(* TCurrentSong::InternalSet, under its lock: the file played before the   *)
(* current one goes (unlink of a name that is gone only prints a message), *)
(* the current one becomes the previous one.                               *)
(***************************************************************************)
InternalSet(fil, del) ==
  /\ disk' = IF prev.del THEN disk \ {prev.file.name} ELSE disk
  /\ unlinked' = IF prev.del THEN unlinked \cup {prev.file} ELSE unlinked
  /\ prev' = curr
  /\ curr' = Slot(fil, del)

(***************************************************************************)
(* player_thread, up to its main loop: the flags are reset one after the   *)
(* other, then the connection to the streaming server is opened.  A        *)
(* thread that cannot connect raises stop_player.                          *)
(***************************************************************************)
Enter(t) ==
  /\ Goto(t, "enter", "enter_next")
  /\ stop_player' = FALSE
  /\ UNCHANGED <<next_song, slots, disk, lists, song, left, http, commands, history>>

EnterNext(t) ==
  /\ Goto(t, "enter_next", "connect")
  /\ next_song' = FALSE
  /\ UNCHANGED <<stop_player, slots, disk, lists, song, left, http, commands, history>>

Connect(t) ==
  /\ Goto(t, "connect", "while")
  /\ stop_player' \in {stop_player, TRUE}
  /\ UNCHANGED <<next_song, slots, disk, lists, song, left, http, commands, history>>

(***************************************************************************)
(* while (!stop_player) { next_song = false; ...                           *)
(***************************************************************************)
While(t) ==
  /\ Goto(t, "while", IF stop_player THEN "exit" ELSE "reset")
  /\ UNCHANGED <<flags, slots, disk, lists, song, left, http, commands, history>>

Reset(t) ==
  /\ Goto(t, "reset", "get")
  /\ next_song' = FALSE
  /\ UNCHANGED <<stop_player, slots, disk, lists, song, left, http, commands, history>>

(***************************************************************************)
(* for (i = 0; i < listnum; ++i) if (lists[i]->GetSong(fobj)) break;       *)
(* A playlist gives its front and drops it; the share gives any file of    *)
(* its list, on the disk or not, and keeps it.                             *)
(***************************************************************************)
GetLabel(l) ==
  CASE l = Request -> "get" [] l = Cache -> "get_cache" [] l = Share -> "get_share"
    [] OTHER -> "clear"

(* Mutant: the front of the list is returned and not popped. *)
GetFromPlaylistKept(t, l) ==
  /\ IF queue[l] # <<>>
       THEN /\ Goto(t, GetLabel(l), "exists")
            /\ song' = [song EXCEPT ![t] = Head(queue[l])]
       ELSE /\ Goto(t, GetLabel(l), GetLabel(l + 1))
            /\ UNCHANGED song
  /\ UNCHANGED <<flags, slots, disk, lists, left, http, commands, history>>

GetFromPlaylist(t, l) ==
  /\ IF queue[l] # <<>>
       THEN /\ Goto(t, GetLabel(l), "exists")
            /\ song' = [song EXCEPT ![t] = Head(queue[l])]
            /\ queue' = [queue EXCEPT ![l] = Tail(@)]
       ELSE /\ Goto(t, GetLabel(l), GetLabel(l + 1))
            /\ UNCHANGED <<song, queue>>
  /\ UNCHANGED <<flags, slots, disk, nextfileid, landed, left, http, commands, history>>

GetFromShare(t) ==
  /\ \/ \E f \in ShareFile :
          /\ Goto(t, GetLabel(Share), "exists")
          /\ song' = [song EXCEPT ![t] = [list |-> Share, name |-> f, id |-> 0]]
     \/ /\ ShareFile = {}
        /\ Goto(t, GetLabel(Share), GetLabel(Share + 1))
        /\ UNCHANGED song
  /\ UNCHANGED <<flags, slots, disk, lists, left, http, commands, history>>

(* Mutant: an idle player leaves the slots as they are. *)
ClearIdleNot(t) ==
  /\ Goto(t, "clear", "sleep")
  /\ UNCHANGED <<flags, slots, disk, lists, song, left, http, commands, history>>

(***************************************************************************)
(* No list has a song: currentsong.Clear(); sleep(30).                     *)
(***************************************************************************)
ClearIdle(t) ==
  /\ Goto(t, "clear", "sleep")
  /\ InternalSet(NoSong, FALSE)
  /\ UNCHANGED <<flags, lists, song, left, http, commands, marked, opened, told, skipped>>

(* Mutant: after the sleep the search goes on without a look at the flag. *)
WakeBlind(t) ==
  /\ Goto(t, "sleep", "reset")
  /\ UNCHANGED <<flags, slots, disk, lists, song, left, http, commands, history>>

Wake(t) ==
  /\ Goto(t, "sleep", "while")
  /\ UNCHANGED <<flags, slots, disk, lists, song, left, http, commands, history>>

(***************************************************************************)
(* if (fobj.Exists() && fobj.GetName() != currentsong.Get().GetName())     *)
(***************************************************************************)
Exists(t) ==
  /\ Goto(t, "exists", IF song[t].name \in disk THEN "differs" ELSE "while")
  /\ UNCHANGED <<flags, slots, disk, lists, song, left, http, commands, history>>

Differs(t) ==
  /\ Goto(t, "differs", IF song[t].name # curr.file.name THEN "set" ELSE "while")
  /\ UNCHANGED <<flags, slots, disk, lists, song, left, http, commands, history>>

SetCurrent(t) ==
  /\ Goto(t, "set", "open")
  /\ InternalSet(song[t], DeleteIt(song[t].list))
  /\ marked' = IF DeleteIt(song[t].list) THEN marked \cup {song[t]} ELSE marked
  /\ UNCHANGED <<flags, lists, song, left, http, commands, opened, told, skipped>>

Open(t) ==
  /\ opened' = opened \cup {song[t]}
  /\ IF song[t].name \in disk
       THEN /\ Goto(t, "open", "stream")
            /\ left' = [left EXCEPT ![t] = SongBlocks]
       ELSE /\ Goto(t, "open", "while")
            /\ UNCHANGED left
  /\ UNCHANGED <<flags, slots, disk, lists, song, http, commands,
                 marked, unlinked, told, skipped>>

(* Mutant: the end of the file is noticed one block late. *)
SendBlockLate(t) ==
  /\ Goto(t, "stream", "stream")
  /\ ~stop_player /\ ~next_song
  /\ left' = [left EXCEPT ![t] = @ - 1]
  /\ left[t] >= 0
  /\ UNCHANGED <<flags, slots, disk, lists, song, http, commands, history>>

(***************************************************************************)
(* while (!stop_player && !next_song): one block is read and sent, or the  *)
(* loop ends: a flag is up, the file is at its end, or sending failed.     *)
(***************************************************************************)
SendBlock(t) ==
  /\ Goto(t, "stream", "stream")
  /\ ~stop_player /\ ~next_song
  /\ left[t] > 0
  /\ left' = [left EXCEPT ![t] = @ - 1]
  /\ UNCHANGED <<flags, slots, disk, lists, song, http, commands, history>>

EndStream(t) ==
  /\ Goto(t, "stream", "while")
  /\ UNCHANGED <<flags, slots, disk, lists, song, left, http, commands, history>>

(* Mutant: a thread that ends empties the current slot and nothing else. *)
ExitCurrent(t) ==
  /\ Goto(t, "exit", "ended")
  /\ curr' = EmptySlot
  /\ UNCHANGED <<flags, prev, disk, lists, song, left, http, commands, history>>

(***************************************************************************)
(* After the loop: currentsong.Clear(); pthread_exit(NULL).                *)
(***************************************************************************)
Exit(t) ==
  /\ Goto(t, "exit", "ended")
  /\ InternalSet(NoSong, FALSE)
  /\ UNCHANGED <<flags, lists, song, left, http, commands, marked, opened, told, skipped>>

-----------------------------------------------------------------------------
(***************************************************************************)
(* The commands.  The HTTP thread serves one request after the other and   *)
(* runs a command to its end before it accepts the next request.           *)
(***************************************************************************)
Command(next) ==
  /\ http = "ready"
  /\ commands < MaxCommands
  /\ commands' = commands + 1
  /\ http' = next

(* com_next: kill_current() *)
ComNext ==
  /\ Command("ready")
  /\ next_song' = TRUE
  /\ skipped' = curr.file
  /\ UNCHANGED <<stop_player, slots, disk, lists, player, marked, unlinked, opened, told>>

(* com_stop: stop_player = true; kill_current(); *)
ComStop ==
  /\ Command("kill")
  /\ stop_player' = TRUE
  /\ told' = told \cup {t \in Thread : Live(t)}
  /\ UNCHANGED <<next_song, slots, disk, lists, player, marked, unlinked, opened, skipped>>

ComStopKill ==
  /\ http = "kill"
  /\ http' = "ready"
  /\ next_song' = TRUE
  /\ UNCHANGED <<stop_player, slots, disk, lists, player, commands, history>>

(* com_start: stop_player = false; pthread_create(&player_t, ...); *)
ComStart ==
  /\ Command("create")
  /\ \E t \in Thread : pc[t] = "none"
  /\ stop_player' = FALSE
  /\ UNCHANGED <<next_song, slots, disk, lists, player, history>>

ComStartCreate ==
  /\ http = "create"
  /\ http' = "ready"
  /\ \E t \in Thread : Goto(t, "none", "enter")
  /\ UNCHANGED <<flags, slots, disk, lists, song, left, commands, history>>

-----------------------------------------------------------------------------
ThreadStep(t) ==
  \/ Enter(t)
  \/ EnterNext(t)
  \/ Connect(t)
  \/ While(t)
  \/ Reset(t)
  \/ \E l \in Playlists : GetFromPlaylist(t, l)
  \/ GetFromShare(t)
  \/ ClearIdle(t)
  \/ Wake(t)
  \/ Exists(t)
  \/ Differs(t)
  \/ SetCurrent(t)
  \/ Open(t)
  \/ SendBlock(t)
  \/ EndStream(t)
  \/ Exit(t)

HttpContinues == ComStopKill \/ ComStartCreate

Environment ==
  \/ \E l \in Playlists, f \in RequestFile \cup CacheFile : Land(l, f)
  \/ \E f \in File : Vanish(f)

Next ==
  \/ \E t \in Thread : ThreadStep(t)
  \/ ComNext
  \/ ComStop
  \/ ComStart
  \/ HttpContinues
  \/ Environment

Spec == Init /\ [][Next]_vars

(***************************************************************************)
(* Each thread is scheduled again and again, reads of files and sends to   *)
(* the server return, sleep ends; a command that has begun ends.  Nobody   *)
(* owes the daemon a file or a command.                                    *)
(***************************************************************************)
Fairness ==
  /\ \A t \in Thread : WF_vars(ThreadStep(t))
  /\ WF_vars(HttpContinues)

FairSpec == Spec /\ Fairness

-----------------------------------------------------------------------------
TypeOK ==
  /\ stop_player \in BOOLEAN
  /\ next_song \in BOOLEAN
  /\ curr \in [file : Song \cup {NoSong}, del : BOOLEAN]
  /\ prev \in [file : Song \cup {NoSong}, del : BOOLEAN]
  /\ disk \subseteq File
  /\ queue \in [Playlists -> Seq(Song)]
  /\ nextfileid \in [Playlists -> Nat]
  /\ pc \in [Thread -> Label]
  /\ song \in [Thread -> Song \cup {NoSong}]
  /\ left \in [Thread -> 0..SongBlocks]
  /\ http \in {"ready", "kill", "create"}
  /\ landed \in [RequestFile \cup CacheFile -> 0..MaxLandings]
  /\ commands \in 0..MaxCommands
  /\ marked \subseteq Song
  /\ unlinked \subseteq Song
  /\ opened \subseteq Song
  /\ told \subseteq Thread
  /\ skipped \in Song \cup {NoSong}

(***************************************************************************)
(* Whatever threads, commands and slots do, the player never unlinks a     *)
(* file of the private collection, nor a cached one unless DELETE_PLAYED   *)
(* is on: the flag that travels with a file through the two slots of       *)
(* TCurrentSong stays that file's own.                                     *)
(***************************************************************************)
OnlyDeletable == \A s \in unlinked : DeleteIt(s.list)

(***************************************************************************)
(* No song that is to be deleted is forgotten: once Set has taken it with  *)
(* its flag, it is in one of the two slots or InternalSet has unlinked it, *)
(* over songs that fail to open, idle times, stops and several threads.    *)
(***************************************************************************)
InSlots == {s.file : s \in {x \in {curr, prev} : x.del}}
DeletionLedger == marked = unlinked \cup InSlots

(***************************************************************************)
(* An arrival of a file is handed to one player thread and once, however   *)
(* many threads run: the queues are ordered by id, and whatever a thread   *)
(* holds is older than all that is queued and is held by no other thread.  *)
(***************************************************************************)
Holds(t, l) ==
  /\ pc[t] \in {"exists", "differs", "set", "open", "stream"}
  /\ song[t].list = l

QueueInOrder ==
  \A l \in Playlists : \A i, j \in DOMAIN queue[l] :
    i < j => queue[l][i].id < queue[l][j].id

HeldIsOlder ==
  \A t \in Thread, l \in Playlists :
    Holds(t, l) => \A i \in DOMAIN queue[l] : song[t].id < queue[l][i].id

HeldByOne ==
  \A t, u \in Thread, l \in Playlists :
    t # u /\ Holds(t, l) /\ Holds(u, l) => song[t].id # song[u].id

GivenOnce == QueueInOrder /\ HeldIsOlder /\ HeldByOne

(***************************************************************************)
(* "Deleted played cache-files" (config/config:10): the file of a song is  *)
(* not unlinked before the thread that took the song has opened it, nor    *)
(* while that thread still plays it.                                       *)
(***************************************************************************)
DeletedAfterPlay ==
  \A s \in unlinked :
    /\ s \in opened
    /\ \A t \in Thread : ~(pc[t] \in {"open", "stream"} /\ song[t] = s)

(***************************************************************************)
(* While no second player thread was ever created the promise is kept: the *)
(* slots belong to one thread, and what they delete it has played.         *)
(***************************************************************************)
DeletedAfterPlayAlone ==
  Cardinality({t \in Thread : pc[t] # "none"}) <= 1 => DeletedAfterPlay

(***************************************************************************)
(* stop stops the player ("Stop player", the command table): a thread that *)
(* ran when stop was commanded does not go on to another song.             *)
(***************************************************************************)
StopIsObeyed ==
  [][\A t \in told : pc[t] = "while" => pc'[t] # "reset"]_vars

(***************************************************************************)
(* next skips the current song ("Skipping current song...", com_next): the *)
(* song whose stream next_song cuts is the one that was current when the   *)
(* command was given.                                                      *)
(***************************************************************************)
SkipCutsCurrent ==
  [][\A t \in Thread :
       pc[t] = "stream" /\ pc'[t] = "while" /\ next_song /\ ~stop_player
         => song[t] = skipped]_vars

(***************************************************************************)
(* When a stop is the last word, every player thread ends: none is stuck   *)
(* in a sleep, a song or an endless search for a song.                     *)
(***************************************************************************)
StopEnds == <>[]stop_player => <>[](\A t \in Thread : ~Live(t))

(***************************************************************************)
(* A song marked for deletion is unlinked in the end, as long as a player  *)
(* thread keeps running.                                                   *)
(***************************************************************************)
PlayedIsDeleted ==
  \A f \in RequestFile \cup CacheFile :
    ([]<>(\E t \in Thread : Live(t)))
      => ((\E s \in marked : s.name = f) ~> (\E s \in unlinked : s.name = f))

(***************************************************************************)
(* As long as the player runs and the share has a song on the disk, there  *)
(* is music: a stream is opened again and again (README:9-11).             *)
(***************************************************************************)
ShareKeepsPlaying ==
  (<>[](ShareFile \cap disk # {} /\ \E t \in Thread : Live(t)))
    => []<>(\E t \in Thread : pc[t] = "stream")
=============================================================================
