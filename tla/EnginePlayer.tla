---------------------------- MODULE EnginePlayer ----------------------------
(***************************************************************************)
(* The player of the netdj2 engine (src/netdj2/engine/PlayerThread.cpp)    *)
(* with the two collections it takes songs from (Collections.cpp), the     *)
(* main thread that commands it (mainloop in main.cpp, skip and shutdown   *)
(* in Server.cpp), and the server's copy of the song that is played.       *)
(*                                                                         *)
(* The request collection is the FIFO queue that SonglistDir models; the   *)
(* share is a list of names in a file, read again when the file is newer.  *)
(* mStopPlayer and mSkipSong are plain bools set by the main thread.       *)
(***************************************************************************)
EXTENDS Integers, Sequences, FiniteSets

CONSTANTS
  RequestFile,    (* Names of files that may be requested, once each.      *)
  ShareFile,      (* Names that the share list may hold.                   *)
  NoSong,         (* mSongElement is null.                                 *)
  Garbage,        (* mSongElement was never set: some address.             *)
  SongBlocks,     (* Blocks of 4096 bytes in a song. Bounds the model.     *)
  MaxEdits,       (* Edits of the share list. Bounds the model.            *)
  MaxSkips        (* Skip commands. Bounds the model.                      *)

File == RequestFile \cup ShareFile

ASSUME FileAssumption ==
  /\ RequestFile \cap ShareFile = {}
  /\ NoSong # Garbage
  /\ {NoSong, Garbage} \cap File = {}
ASSUME BoundAssumption == SongBlocks \in Nat /\ MaxEdits \in Nat /\ MaxSkips \in Nat

VARIABLES
  mStopPlayer,    (* mStopPlayer                                           *)
  mSkipSong,      (* mSkipSong                                             *)
  mSongElement,   (* Server::mSongElement                                  *)
  pc,             (* Where the player thread is.                           *)
  main,           (* Where the main thread is.                             *)
  song,           (* currentSong: its name and mDeleteAfterPlay.           *)
  left,           (* Blocks still to be read from file.                    *)
  disk,           (* The names that exist on the disk.                     *)
  requests,       (* The queue of the request collection.                  *)
  requestdir,     (* REQUEST_DIR exists.                                   *)
  sharelist,      (* The names in the share list.                          *)
  sharestate,     (* The share list is "known", "newer" or "unreadable".   *)
  share,          (* mSonglist of the share: songs as in song.             *)
  edits,          (* Edits of the share list so far (bounded).             *)
  skips,          (* Skip commands so far (bounded).                       *)
  landed,         (* History: requests that have landed.                   *)
  deleted,        (* History: songs the player removed from the disk.      *)
  cuts,           (* History: streams that mSkipSong cut.                  *)
  skipped,        (* History: the song in hand when mSkipSong was set.     *)
  overtakes       (* History: share songs taken over a waiting request.    *)

flags   == <<mStopPlayer, mSkipSong>>
lists   == <<requests, requestdir, sharelist, sharestate, share, edits>>
current == <<song, left>>
history == <<landed, deleted, cuts, skipped, overtakes>>
vars    == <<flags, mSongElement, pc, main, current, disk, lists, skips, history>>

Song(f, del) == [name |-> f, del |-> del]

(* A SongFile made for the share has a mDeleteAfterPlay nobody ever set. *)
ShareSongs(names) == {{Song(f, del[f]) : f \in names} : del \in [names -> BOOLEAN]}

Alive == main # "crashed"

Goto(from, to) == Alive /\ pc = from /\ pc' = to

(* mainloop before start(): a share list that cannot be read ends it. *)
Init ==
  /\ mStopPlayer = FALSE
  /\ mSkipSong = FALSE
  /\ mSongElement \in {NoSong, Garbage}
  /\ pc = "connect"
  /\ main = "exec"
  /\ song = Song(NoSong, FALSE)
  /\ left = 0
  /\ disk = ShareFile
  /\ requests = <<>>
  /\ requestdir = TRUE
  /\ sharelist = ShareFile
  /\ sharestate = "known"
  /\ share \in ShareSongs(ShareFile)
  /\ edits = 0
  /\ skips = 0
  /\ landed = {}
  /\ deleted = {}
  /\ cuts = 0
  /\ skipped = NoSong
  /\ overtakes = 0

-----------------------------------------------------------------------------
(***************************************************************************)
(* The world: requests land, files vanish, the share list is edited or     *)
(* loses its read permission, the request directory is removed.            *)
(***************************************************************************)
Land(f) ==
  /\ f \in RequestFile \ landed
  /\ requestdir
  /\ landed' = landed \cup {f}
  /\ disk' = disk \cup {f}
  /\ requests' = Append(requests, f)
  /\ UNCHANGED <<flags, mSongElement, pc, main, current, requestdir, sharelist, sharestate,
                 share, edits, skips, deleted, cuts, skipped, overtakes>>

Vanish(f) ==
  /\ f \in disk
  /\ disk' = disk \ {f}
  /\ UNCHANGED <<flags, mSongElement, pc, main, current, lists, skips, history>>

EditShare(names, state) ==
  /\ edits < MaxEdits
  /\ edits' = edits + 1
  /\ sharelist' = names
  /\ sharestate' = state
  /\ UNCHANGED <<flags, mSongElement, pc, main, current, disk, requests, requestdir, share,
                 skips, history>>

RemoveDir ==
  /\ requestdir
  /\ requestdir' = FALSE
  /\ disk' = disk \ RequestFile
  /\ UNCHANGED <<flags, mSongElement, pc, main, current, requests, sharelist, sharestate,
                 share, edits, skips, history>>

-----------------------------------------------------------------------------
(***************************************************************************)
(* PlayerThread::run.  Any StdException ends it: no connection, no request *)
(* directory, no share list, a send that fails.                            *)
(***************************************************************************)
(* Shout: one call of libshout; ErrorWrapper throws if it does not succeed. *)
Shout(from, to) == Goto(from, to) \/ Goto(from, "ended")

Connect ==
  /\ Shout("connect", "request")
  /\ UNCHANGED <<flags, mSongElement, main, current, disk, lists, skips, history>>

(* Mutant: the front of the queue is returned and not popped. *)
TakeRequestKept ==
  /\ requestdir /\ requests # <<>>
  /\ Goto("request", "open")
  /\ song' = Song(Head(requests), TRUE)
  /\ overtakes' = 0
  /\ UNCHANGED <<flags, mSongElement, main, left, disk, lists, skips,
                 landed, deleted, cuts, skipped>>

(***************************************************************************)
(* Collections::GetNextSong: update a collection and take its song; on     *)
(* EmptyCollection try the next one; after the last, there is none.        *)
(***************************************************************************)
TakeRequest ==
  /\ requestdir /\ requests # <<>>
  /\ Goto("request", "open")
  /\ song' = Song(Head(requests), TRUE)
  /\ requests' = Tail(requests)
  /\ overtakes' = 0
  /\ UNCHANGED <<flags, mSongElement, main, left, disk, requestdir, sharelist, sharestate,
                 share, edits, skips, landed, deleted, cuts, skipped>>

(* Mutant: the share is tried whether or not a request waits. *)
NoRequestAsked ==
  /\ requestdir
  /\ Goto("request", "share")
  /\ UNCHANGED <<flags, mSongElement, main, current, disk, lists, skips, history>>

NoRequest ==
  /\ requestdir /\ requests = <<>>
  /\ Goto("request", "share")
  /\ UNCHANGED <<flags, mSongElement, main, current, disk, lists, skips, history>>

NoRequestDir ==
  /\ ~requestdir
  /\ Goto("request", "ended")
  /\ UNCHANGED <<flags, mSongElement, main, current, disk, lists, skips, history>>

(* mFiledate is set before the file is opened: a failure is not repeated. *)
Reread ==
  /\ sharestate' = "known"
  /\ share' \in IF sharestate = "newer" THEN ShareSongs(sharelist) ELSE {share}

TakeShare ==
  /\ sharestate # "unreadable"
  /\ Reread
  /\ \E s \in share' :
       /\ Goto("share", "open")
       /\ song' = s
  /\ overtakes' = IF requests = <<>> THEN overtakes ELSE overtakes + 1
  /\ UNCHANGED <<flags, mSongElement, main, left, disk, requests, requestdir, sharelist,
                 edits, skips, landed, deleted, cuts, skipped>>

NoSongs ==
  /\ sharestate # "unreadable"
  /\ Reread
  /\ share' = {}
  /\ Goto("share", "sleep")
  /\ UNCHANGED <<flags, mSongElement, main, current, disk, requests, requestdir, sharelist,
                 edits, skips, history>>

ShareUnreadable ==
  /\ sharestate = "unreadable"
  /\ Reread
  /\ Goto("share", "ended")
  /\ UNCHANGED <<flags, mSongElement, main, current, disk, requests, requestdir, sharelist,
                 edits, skips, history>>

(* "I have no files to play...", sleep(10), continue *)
Wake ==
  /\ Goto("sleep", "request")
  /\ UNCHANGED <<flags, mSongElement, main, current, disk, lists, skips, history>>

(* Mutant: a song that cannot be opened is cleaned up like one played. *)
CannotOpenCleansUp ==
  /\ song.name \notin disk
  /\ Goto("open", "delete")
  /\ UNCHANGED <<flags, mSongElement, main, current, disk, lists, skips, history>>

(* "Something is wrong with the file", continue *)
CannotOpen ==
  /\ song.name \notin disk
  /\ Goto("open", "request")
  /\ UNCHANGED <<flags, mSongElement, main, current, disk, lists, skips, history>>

Open ==
  /\ song.name \in disk
  /\ Goto("open", "announce")
  /\ left' = SongBlocks
  /\ UNCHANGED <<flags, mSongElement, main, song, disk, lists, skips,
                 landed, deleted, cuts, skipped, overtakes>>

(***************************************************************************)
(* SigSongPlaying, as Server::SongPlaying: what mSongElement points to is  *)
(* deleted before it is set anew, which an address never set does not      *)
(* survive.  Then SetSongName gives the name to the stream.                *)
(***************************************************************************)
Announce ==
  /\ Shout("announce", "stream")
  /\ mSongElement' = song.name
  /\ main' = IF mSongElement = Garbage THEN "crashed" ELSE main
  /\ UNCHANGED <<flags, current, disk, lists, skips, history>>

(* A block is read; the flags are tested; the block is sent. *)
SendBlock ==
  /\ left > 0 /\ ~mStopPlayer /\ ~mSkipSong
  /\ left' = left - 1
  /\ Shout("stream", "stream")
  /\ UNCHANGED <<flags, mSongElement, main, song, disk, lists, skips, history>>

EndStream ==
  /\ left = 0 \/ mStopPlayer \/ mSkipSong
  /\ Goto("stream", "delete")
  /\ cuts' = IF left > 0 /\ ~mStopPlayer THEN cuts + 1 ELSE cuts
  /\ UNCHANGED <<flags, mSongElement, main, current, disk, lists, skips,
                 landed, deleted, skipped, overtakes>>

(* Delete file? *)
Delete ==
  /\ Goto("delete", "stop")
  /\ disk' = IF song.del THEN disk \ {song.name} ELSE disk
  /\ deleted' = IF song.del THEN deleted \cup {song} ELSE deleted
  /\ UNCHANGED <<flags, mSongElement, main, current, lists, skips,
                 landed, cuts, skipped, overtakes>>

(* Mutant: the player does not look at mStopPlayer after a song. *)
TestStopNot ==
  /\ Goto("stop", "skip")
  /\ UNCHANGED <<flags, mSongElement, main, current, disk, lists, skips, history>>

TestStop ==
  /\ Goto("stop", IF mStopPlayer THEN "ended" ELSE "skip")
  /\ UNCHANGED <<flags, mSongElement, main, current, disk, lists, skips, history>>

(* Mutant: mSkipSong is not reset. *)
TestSkipNot ==
  /\ Goto("skip", "request")
  /\ UNCHANGED <<flags, mSongElement, main, current, disk, lists, skips, history>>

TestSkip ==
  /\ Goto("skip", "request")
  /\ mSkipSong' = FALSE
  /\ skipped' = NoSong
  /\ UNCHANGED <<mStopPlayer, mSongElement, main, current, disk, lists, skips,
                 landed, deleted, cuts, overtakes>>

-----------------------------------------------------------------------------
(***************************************************************************)
(* The main thread.  GetSong, for /current.xml, clones what mSongElement   *)
(* points to.                                                              *)
(***************************************************************************)
Skip ==
  /\ main = "exec"
  /\ skips < MaxSkips
  /\ skips' = skips + 1
  /\ mSkipSong' = TRUE
  /\ skipped' = IF pc \in {"open", "announce", "stream"} THEN song.name ELSE NoSong
  /\ UNCHANGED <<mStopPlayer, mSongElement, pc, main, current, disk, lists,
                 landed, deleted, cuts, overtakes>>

GetSong ==
  /\ main = "exec"
  /\ main' = IF mSongElement \in {NoSong, Garbage} THEN "crashed" ELSE "exec"
  /\ UNCHANGED <<flags, mSongElement, pc, current, disk, lists, skips, history>>

(* A signal or a shutdown command: exec() returns. *)
Quit ==
  /\ main = "exec"
  /\ main' = "stop"
  /\ UNCHANGED <<flags, mSongElement, pc, current, disk, lists, skips, history>>

Stop ==
  /\ main = "stop"
  /\ main' = "wait"
  /\ mStopPlayer' = TRUE
  /\ UNCHANGED <<mSkipSong, mSongElement, pc, current, disk, lists, skips, history>>

Wait ==
  /\ main = "wait"
  /\ pc = "ended"
  /\ main' = "done"
  /\ UNCHANGED <<flags, mSongElement, pc, current, disk, lists, skips, history>>

-----------------------------------------------------------------------------
Find == TakeRequest \/ NoRequest \/ NoRequestDir \/ TakeShare \/ NoSongs \/ ShareUnreadable

Play ==
  \/ CannotOpen
  \/ Open
  \/ Announce
  \/ SendBlock
  \/ EndStream
  \/ Delete
  \/ TestStop
  \/ TestSkip

Run == Connect \/ Find \/ Wake \/ Play

Environment ==
  \/ \E f \in RequestFile : Land(f)
  \/ \E f \in File : Vanish(f)
  \/ \E names \in SUBSET ShareFile, state \in {"newer", "unreadable"} : EditShare(names, state)
  \/ RemoveDir

Next ==
  \/ Run
  \/ Skip
  \/ GetSong
  \/ Quit
  \/ Stop
  \/ Wait
  \/ Environment

Spec == Init /\ [][Next]_vars

(***************************************************************************)
(* The player thread is scheduled, sleeps and sends return; mainloop goes  *)
(* on once exec() has returned.  Nobody has to quit.                       *)
(***************************************************************************)
FairSpec == Spec /\ WF_vars(Run) /\ WF_vars(Stop \/ Wait)

-----------------------------------------------------------------------------
SongType == [name : File, del : BOOLEAN]

TypeOK ==
  /\ mStopPlayer \in BOOLEAN
  /\ mSkipSong \in BOOLEAN
  /\ mSongElement \in File \cup {NoSong, Garbage}
  /\ pc \in {"connect", "request", "share", "sleep", "open", "announce", "stream",
             "delete", "stop", "skip", "ended"}
  /\ main \in {"exec", "stop", "wait", "done", "crashed"}
  /\ song \in SongType \cup {Song(NoSong, FALSE)}
  /\ left \in 0..SongBlocks
  /\ disk \subseteq File
  /\ requests \in Seq(RequestFile)
  /\ requestdir \in BOOLEAN
  /\ sharelist \subseteq ShareFile
  /\ sharestate \in {"known", "newer", "unreadable"}
  /\ share \subseteq SongType
  /\ edits \in 0..MaxEdits
  /\ skips \in 0..MaxSkips
  /\ landed \subseteq RequestFile
  /\ deleted \subseteq SongType
  /\ cuts \in Nat
  /\ skipped \in File \cup {NoSong}
  /\ overtakes \in Nat

(***************************************************************************)
(* One skip command cuts at most one song, whenever it comes: while a song *)
(* ends, while the player sleeps, before it has connected.                 *)
(***************************************************************************)
SkipCutsOne == cuts <= skips

(***************************************************************************)
(* "First one added is the highest" (Collections.h:30): a waiting request  *)
(* is overtaken by one share song at most, the one that was being taken    *)
(* when it landed.                                                         *)
(***************************************************************************)
RequestsFirst == overtakes <= 1

(***************************************************************************)
(* EnginePlayer implements RequestLife: whatever is skipped, edited or     *)
(* removed meanwhile, requests are taken in the order they landed, none is *)
(* lost on the way, one is given up only if its file was gone when its     *)
(* turn came, and its file is removed by the player after it was played    *)
(* and at no other time.                                                   *)
(***************************************************************************)
Waiting(f) == \E n \in DOMAIN requests : requests[n] = f

Life(f) ==
  CASE f \notin landed -> "new"
    [] Waiting(f) -> "waiting"
    [] song = Song(f, TRUE) /\ pc = "open" -> "taken"
    [] song = Song(f, TRUE) /\ pc \in {"announce", "stream", "delete"} -> "played"
    [] OTHER -> "over"

Abstract == INSTANCE RequestLife WITH
  Request <- RequestFile,
  life    <- [f \in RequestFile |-> Life(f)],
  line    <- requests,
  there   <- disk \cap RequestFile,
  removed <- {f \in RequestFile : Song(f, TRUE) \in deleted},
  playing <- pc # "ended"

ImplementsRequestLife == Abstract!Spec

(***************************************************************************)
(* Every request comes to its turn while the player runs.                  *)
(***************************************************************************)
RequestsTaken ==
  \A f \in RequestFile : Waiting(f) ~> (~Waiting(f) \/ pc = "ended" \/ ~Alive)

(***************************************************************************)
(* "Wait for thread to quit" (main.cpp:153): the wait comes to an end, if  *)
(* the share can always be played.                                         *)
(***************************************************************************)
Playable == sharelist # {} /\ sharelist \subseteq disk

QuitEndsPlaying == <>[]Playable => (main = "wait" ~> main \in {"done", "crashed"})

(***************************************************************************)
(* "If this is set to true the thread will exit" (PlayerThread.h:35).      *)
(***************************************************************************)
StopExits == mStopPlayer ~> (pc = "ended" \/ ~Alive)

(***************************************************************************)
(* "If this is set to true the current song will be skipped"               *)
(* (PlayerThread.h:38): the song that is cut is the one the player had     *)
(* when the command came.                                                  *)
(***************************************************************************)
SkipCutsCurrent == [][cuts' > cuts => song.name = skipped]_vars

(***************************************************************************)
(* "Should song be deleted from filesystem after being played?"            *)
(* (SongFile.h:38): only of a request has anyone said so.                  *)
(***************************************************************************)
OnlyRequestsDeleted == \A s \in deleted : s.name \in RequestFile

(***************************************************************************)
(* "Get a copy of the currently playing song document" (Server.h:92): the  *)
(* server has something to copy, and to delete when the song changes.      *)
(***************************************************************************)
SongElementSet == Alive

(***************************************************************************)
(* "The currently playing song" (Server.cpp:301), of /current.xml: a song  *)
(* that is shown is being played or about to be.                           *)
(***************************************************************************)
CurrentIsPlaying ==
  mSongElement \in File => pc \in {"open", "announce", "stream", "delete", "stop", "skip",
                                   "request", "share"}
=============================================================================
