------------------------- MODULE EnginePlayerProofs -------------------------
(***************************************************************************)
(* What EnginePlayer keeps, for any files and any numbers of blocks, edits *)
(* and skips: the types, that a skip cuts one song at most, that a request *)
(* is overtaken once at most, and that it implements RequestLife.          *)
(***************************************************************************)
EXTENDS EnginePlayer, SequenceTheorems, TLAPS

(* A player that deals with a song has one. *)
InHand == {"open", "announce", "stream", "delete"}

HasSong == pc \in InHand => song \in SongType

TypeInv == TypeOK /\ HasSong

(* A skip that was asked for and has not yet had its effect. *)
Pending == IF mSkipSong /\ pc \notin {"delete", "stop", "skip", "ended"} THEN 1 ELSE 0

SkipInv == cuts + Pending <= skips

(* The share is asked when no request waits, and a request is overtaken    *)
(* only while it waits.                                                    *)
OvertakeInv ==
  /\ overtakes <= 1
  /\ overtakes > 0 => requests # <<>>
  /\ pc = "share" => overtakes = 0

(* Each request waits once, and not when the player has it; the share has  *)
(* no requests.                                                            *)
LinedUp ==
  /\ \A n \in DOMAIN requests : requests[n] \in landed
  /\ \A m, n \in DOMAIN requests : requests[m] = requests[n] => m = n

TakenOnce ==
  pc \in InHand /\ song.name \in RequestFile =>
    song.del /\ song.name \in landed /\ ~Waiting(song.name)

ShareApart == \A s \in share : s.name \in ShareFile

LifeInv == LinedUp /\ TakenOnce /\ ShareApart

-----------------------------------------------------------------------------
LEMMA ShareSongsTyped ==
  ASSUME NEW names \in SUBSET ShareFile, NEW s \in ShareSongs(names)
  PROVE  s \subseteq SongType /\ \A x \in s : x.name \in ShareFile
BY DEF ShareSongs, Song, SongType, File

LEMMA SongTyped ==
  /\ \A f \in File, d \in BOOLEAN : /\ Song(f, d) \in SongType
                                    /\ Song(f, d).name = f /\ Song(f, d).del = d
  /\ \A s \in SongType : s.name \in File /\ s.del \in BOOLEAN
  /\ RequestFile \subseteq File /\ ShareFile \subseteq File
BY DEF Song, SongType, File

LEMMA RereadTyped ==
  ASSUME TypeOK, ShareApart, Reread
  PROVE  share' \subseteq SongType /\ ShareApart' /\ sharestate' = "known"
<1>1. CASE sharestate = "newer"
  BY <1>1, ShareSongsTyped DEF Reread, TypeOK, ShareApart
<1>2. CASE sharestate # "newer"
  BY <1>2 DEF Reread, TypeOK, ShareApart
<1> QED BY <1>1, <1>2

(* The player's steps keep the types, and that it has a song in hand.      *)
LEMMA FindTypes ==
  ASSUME TypeInv, ShareApart, Find
  PROVE  TypeInv' /\ ShareApart'
<1> USE DEF TypeInv, TypeOK, HasSong, InHand, Goto, flags, current, lists, history
<1>1. CASE TakeRequest
  <2>1. /\ song' \in SongType /\ requests' \in Seq(RequestFile)
    BY <1>1, SongTyped, HeadTailProperties DEF TakeRequest
  <2> QED BY <1>1, <2>1 DEF TakeRequest, ShareApart
<1>2. CASE NoRequest \/ NoRequestDir
  BY <1>2 DEF NoRequest, NoRequestDir, ShareApart
<1>3. CASE TakeShare
  <2>1. share' \subseteq SongType /\ ShareApart' /\ sharestate' = "known"
    BY <1>3, RereadTyped DEF TakeShare
  <2>2. song' \in SongType /\ overtakes' \in Nat
    BY <1>3, <2>1 DEF TakeShare
  <2> QED BY <1>3, <2>1, <2>2 DEF TakeShare
<1>4. CASE NoSongs \/ ShareUnreadable
  <2>1. share' \subseteq SongType /\ ShareApart' /\ sharestate' = "known"
    BY <1>4, RereadTyped DEF NoSongs, ShareUnreadable
  <2> QED BY <1>4, <2>1 DEF NoSongs, ShareUnreadable
<1> QED BY <1>1, <1>2, <1>3, <1>4 DEF Find

(* A step that only moves on, and takes no song in hand, keeps the types.  *)
LEMMA OnlyMoves ==
  ASSUME TypeInv, UNCHANGED <<flags, mSongElement, main, current, disk, lists, skips, history>>,
         NEW to \in {"request", "ended"}, pc' = to
  PROVE  TypeInv' /\ UNCHANGED share
<1>1. TypeOK'
  <2>1. /\ mStopPlayer' = mStopPlayer /\ mSkipSong' = mSkipSong
        /\ mSongElement' = mSongElement /\ main' = main /\ song' = song /\ left' = left
        /\ disk' = disk
    BY DEF flags, current
  <2>2. /\ requests' = requests /\ requestdir' = requestdir /\ sharelist' = sharelist
        /\ sharestate' = sharestate /\ share' = share /\ edits' = edits /\ skips' = skips
    BY DEF lists
  <2>3. /\ landed' = landed /\ deleted' = deleted /\ cuts' = cuts /\ skipped' = skipped
        /\ overtakes' = overtakes
    BY DEF history
  <2>4. pc' \in {"connect", "request", "share", "sleep", "open", "announce", "stream",
                  "delete", "stop", "skip", "ended"}
    OBVIOUS
  <2> HIDE DEF Song
  <2> QED BY <2>1, <2>2, <2>3, <2>4, ZenonT(60) DEF TypeInv, TypeOK
<1>2. HasSong'
  BY DEF HasSong, InHand
<1>3. UNCHANGED share
  BY DEF lists
<1> QED BY <1>1, <1>2, <1>3 DEF TypeInv

LEMMA PlayTypes ==
  ASSUME TypeInv, Connect \/ Wake \/ Play
  PROVE  TypeInv' /\ UNCHANGED share
<1>1. CASE Connect \/ Wake \/ CannotOpen
  <2>1. \E to \in {"request", "ended"} : pc' = to
    BY <1>1 DEF Connect, Wake, CannotOpen, Goto, Shout
  <2>2. UNCHANGED <<flags, mSongElement, main, current, disk, lists, skips, history>>
    BY <1>1 DEF Connect, Wake, CannotOpen
  <2> QED BY <2>1, <2>2, OnlyMoves
<1> USE DEF TypeInv, TypeOK, HasSong, InHand, Goto, Shout, flags, current, lists, history
<1>2. CASE Open
  <2>1. left' \in 0..SongBlocks
    BY <1>2, BoundAssumption DEF Open
  <2> QED BY <1>2, <2>1 DEF Open
<1>3. CASE Announce
  BY <1>3, SongTyped DEF Announce
<1>4. CASE SendBlock
  <2>1. left' \in 0..SongBlocks
    BY <1>4, BoundAssumption DEF SendBlock
  <2> QED BY <1>4, <2>1 DEF SendBlock
<1>5. CASE EndStream
  <2>1. cuts' \in Nat
    BY <1>5 DEF EndStream
  <2> QED BY <1>5, <2>1 DEF EndStream
<1>6. CASE Delete
  BY <1>6 DEF Delete
<1>7. CASE TestStop
  BY <1>7 DEF TestStop
<1>8. CASE TestSkip
  <2>1. mSkipSong' \in BOOLEAN
    BY <1>8 DEF TestSkip
  <2> QED BY <1>8, <2>1 DEF TestSkip
<1> QED BY <1>1, <1>2, <1>3, <1>4, <1>5, <1>6, <1>7, <1>8 DEF Play

LEMMA MainTypes ==
  ASSUME TypeInv, Skip \/ GetSong \/ Quit \/ Stop \/ Wait
  PROVE  TypeInv' /\ UNCHANGED share
<1> USE DEF TypeInv, TypeOK, HasSong, InHand, flags, current, lists, history
<1>1. CASE Skip
  <2>1. mSkipSong' \in BOOLEAN /\ skips' \in 0..MaxSkips
    BY <1>1, BoundAssumption DEF Skip
  <2>2. skipped' \in File \cup {NoSong}
    BY <1>1, SongTyped DEF Skip
  <2> QED BY <1>1, <2>1, <2>2 DEF Skip
<1>2. CASE GetSong \/ Quit \/ Wait
  BY <1>2 DEF GetSong, Quit, Wait
<1>3. CASE Stop
  <2>1. mStopPlayer' \in BOOLEAN
    BY <1>3 DEF Stop
  <2> QED BY <1>3, <2>1 DEF Stop
<1> QED BY <1>1, <1>2, <1>3

(* What a step leaves alone keeps its types. *)
PlayerTyped ==
  /\ mStopPlayer \in BOOLEAN
  /\ mSkipSong \in BOOLEAN
  /\ mSongElement \in File \cup {NoSong, Garbage}
  /\ pc \in {"connect", "request", "share", "sleep", "open", "announce", "stream",
             "delete", "stop", "skip", "ended"}
  /\ main \in {"exec", "stop", "wait", "done", "crashed"}
  /\ song \in SongType \cup {Song(NoSong, FALSE)}
  /\ left \in 0..SongBlocks
  /\ HasSong

HistoryTyped ==
  /\ skips \in 0..MaxSkips
  /\ deleted \subseteq SongType
  /\ cuts \in Nat
  /\ skipped \in File \cup {NoSong}
  /\ overtakes \in Nat

ListsTyped ==
  /\ disk \subseteq File
  /\ requests \in Seq(RequestFile)
  /\ requestdir \in BOOLEAN
  /\ sharelist \subseteq ShareFile
  /\ sharestate \in {"known", "newer", "unreadable"}
  /\ share \subseteq SongType
  /\ edits \in 0..MaxEdits
  /\ landed \subseteq RequestFile

LEMMA TypeParts ==
  /\ TypeInv => PlayerTyped /\ HistoryTyped /\ ListsTyped
  /\ PlayerTyped' /\ HistoryTyped' /\ ListsTyped' => TypeInv'
BY DEF TypeInv, TypeOK, PlayerTyped, HistoryTyped, ListsTyped

LEMMA PlayerSame ==
  ASSUME PlayerTyped, UNCHANGED <<flags, mSongElement, pc, main, current>>
  PROVE  PlayerTyped'
<1>1. UNCHANGED <<mStopPlayer, mSkipSong, mSongElement, pc, main, song, left>>
  BY DEF flags, current
<1>2. HasSong'
  BY <1>1 DEF PlayerTyped, HasSong
<1> QED BY <1>1, <1>2 DEF PlayerTyped

LEMMA HistorySame ==
  ASSUME HistoryTyped, UNCHANGED <<skips, deleted, cuts, skipped, overtakes>>
  PROVE  HistoryTyped'
BY DEF HistoryTyped

LEMMA ListsSame ==
  ASSUME ListsTyped, UNCHANGED <<disk, lists, landed>>
  PROVE  ListsTyped'
BY DEF ListsTyped, lists

LEMMA EnvironmentTypes ==
  ASSUME TypeInv, Environment
  PROVE  TypeInv' /\ UNCHANGED share
<1>1. PlayerTyped /\ HistoryTyped /\ ListsTyped
  BY TypeParts
<1>2. /\ UNCHANGED <<flags, mSongElement, pc, main, current, share>>
      /\ UNCHANGED <<skips, deleted, cuts, skipped, overtakes>>
  BY DEF Environment, Land, Vanish, EditShare, RemoveDir, lists, history
<1>3. PlayerTyped' /\ HistoryTyped'
  BY <1>1, <1>2, PlayerSame, HistorySame
<1>4. ListsTyped'
  <2>1. ASSUME NEW f \in RequestFile, Land(f) PROVE ListsTyped'
    BY <1>1, <2>1, SongTyped DEF Land, ListsTyped
  <2>2. ASSUME NEW f \in File, Vanish(f) PROVE ListsTyped'
    BY <1>1, <2>2 DEF Vanish, ListsTyped, lists, history
  <2>3. ASSUME NEW names \in SUBSET ShareFile, NEW state \in {"newer", "unreadable"},
               EditShare(names, state)
        PROVE  ListsTyped'
    BY <1>1, <2>3, BoundAssumption DEF EditShare, ListsTyped, history
  <2>4. CASE RemoveDir
    <3>1. requestdir' \in BOOLEAN
      BY <2>4 DEF RemoveDir
    <3> QED BY <1>1, <2>4, <3>1 DEF RemoveDir, ListsTyped, history
  <2> QED BY <2>1, <2>2, <2>3, <2>4 DEF Environment
<1> QED BY <1>2, <1>3, <1>4, TypeParts

LEMMA TypeInit == Init => TypeInv /\ ShareApart
<1> SUFFICES ASSUME Init PROVE TypeInv /\ ShareApart
  OBVIOUS
<1>1. share \subseteq SongType /\ ShareApart
  BY ShareSongsTyped DEF Init, ShareApart
<1>2. mStopPlayer \in BOOLEAN /\ mSkipSong \in BOOLEAN /\ requestdir \in BOOLEAN
  BY DEF Init
<1>3. left \in 0..SongBlocks /\ edits \in 0..MaxEdits /\ skips \in 0..MaxSkips
  BY BoundAssumption DEF Init
<1>4. /\ requests \in Seq(RequestFile) /\ disk \subseteq File /\ sharelist \subseteq ShareFile
      /\ landed = {} /\ deleted = {} /\ cuts = 0 /\ overtakes = 0
  BY SongTyped DEF Init
<1> QED BY <1>1, <1>2, <1>3, <1>4 DEF Init, TypeInv, TypeOK, HasSong, InHand

LEMMA TypeStep == TypeInv /\ ShareApart /\ [Next]_vars => TypeInv' /\ ShareApart'
<1> SUFFICES ASSUME TypeInv, ShareApart, [Next]_vars PROVE TypeInv' /\ ShareApart'
  OBVIOUS
<1>1. (UNCHANGED share) => ShareApart'
  BY DEF ShareApart
<1>2. CASE UNCHANGED vars
  <2>1. PlayerTyped /\ HistoryTyped /\ ListsTyped
    BY TypeParts
  <2>2. PlayerTyped' /\ HistoryTyped' /\ ListsTyped'
    BY <1>2, <2>1, PlayerSame, HistorySame, ListsSame DEF vars, history
  <2> QED BY <1>1, <1>2, <2>2, TypeParts DEF vars, lists
<1> QED
  BY <1>1, <1>2, FindTypes, PlayTypes, MainTypes, EnvironmentTypes DEF Next, Run

(***************************************************************************)
(* Every reachable state of the player is well typed, and it never deals   *)
(* with a song it has not got.                                             *)
(***************************************************************************)
THEOREM TypeCorrect == Spec => []TypeOK
<1>1. TypeInv => TypeOK
  BY DEF TypeInv
<1> QED
  BY <1>1, TypeInit, TypeStep, PTL DEF Spec

-----------------------------------------------------------------------------
(* A cut uses up the skip it answers: mSkipSong is FALSE again before the  *)
(* next song is streamed.                                                  *)
LEMMA SkipStep == TypeInv /\ SkipInv /\ [Next]_vars => SkipInv'
<1> SUFFICES ASSUME TypeInv, SkipInv, [Next]_vars PROVE SkipInv'
  OBVIOUS
<1>1. cuts \in Nat /\ skips \in Nat
  BY BoundAssumption DEF TypeInv, TypeOK
<1> USE DEF SkipInv, Pending
<1>2. CASE UNCHANGED vars \/ Environment \/ GetSong \/ Quit \/ Stop \/ Wait
  <2>1. UNCHANGED <<cuts, skips, mSkipSong, pc>>
    BY <1>2 DEF vars, flags, history, Environment, Land, Vanish, EditShare, RemoveDir, GetSong,
                Quit, Stop, Wait
  <2> QED BY <2>1
<1>3. CASE Connect \/ Wake \/ Find \/ CannotOpen \/ Open \/ Announce \/ SendBlock
  <2>1. /\ UNCHANGED <<cuts, skips, mSkipSong>>
        /\ pc \notin {"delete", "stop", "skip", "ended"}
    BY <1>3 DEF Connect, Wake, Find, TakeRequest, NoRequest, NoRequestDir, TakeShare, NoSongs,
                ShareUnreadable, CannotOpen, Open, Announce, SendBlock, Shout, Goto, flags, history
  <2> QED BY <1>1, <2>1
<1>4. CASE EndStream
  <2>1. /\ UNCHANGED <<skips, mSkipSong>> /\ pc = "stream" /\ pc' = "delete"
        /\ cuts' = IF left > 0 /\ ~mStopPlayer THEN cuts + 1 ELSE cuts
        /\ left = 0 \/ mStopPlayer \/ mSkipSong
    BY <1>4 DEF EndStream, Goto, flags
  <2>2. CASE left > 0 /\ ~mStopPlayer
    BY <1>1, <2>1, <2>2
  <2>3. CASE ~(left > 0 /\ ~mStopPlayer)
    BY <1>1, <2>1, <2>3
  <2> QED BY <2>2, <2>3
<1>5. CASE Delete \/ TestStop
  <2>1. /\ UNCHANGED <<cuts, skips>> /\ pc \in {"delete", "stop"}
        /\ pc' \in {"stop", "skip", "ended"}
    BY <1>5 DEF Delete, TestStop, Goto, history
  <2> QED BY <2>1
<1>6. CASE TestSkip
  BY <1>1, <1>6 DEF TestSkip, Goto
<1>7. CASE Skip
  BY <1>1, <1>7 DEF Skip
<1> QED
  BY <1>2, <1>3, <1>4, <1>5, <1>6, <1>7 DEF Next, Run, Play

(***************************************************************************)
(* A skip command cuts one song at most, whenever it comes.                *)
(***************************************************************************)
THEOREM OneCutPerSkip == Spec => []SkipCutsOne
<1>1. Init => SkipInv
  BY DEF Init, SkipInv, Pending
<1>2. TypeInv /\ SkipInv => SkipCutsOne
  BY BoundAssumption DEF TypeInv, TypeOK, SkipInv, Pending, SkipCutsOne
<1> QED
  BY <1>1, <1>2, TypeInit, TypeStep, SkipStep, PTL DEF Spec

-----------------------------------------------------------------------------
LEMMA OvertakeStep == TypeInv /\ OvertakeInv /\ [Next]_vars => OvertakeInv'
<1> SUFFICES ASSUME TypeInv, OvertakeInv, [Next]_vars PROVE OvertakeInv'
  OBVIOUS
<1>1. overtakes \in Nat /\ requests \in Seq(RequestFile)
  BY DEF TypeInv, TypeOK
<1> USE DEF OvertakeInv
<1>2. ASSUME UNCHANGED <<requests, overtakes>>, pc' = "share" => pc = "share" PROVE OvertakeInv'
  BY <1>2
<1>3. CASE UNCHANGED vars \/ Skip \/ GetSong \/ Quit \/ Stop \/ Wait
  BY <1>2, <1>3 DEF vars, lists, history, Skip, GetSong, Quit, Stop, Wait
<1>4. CASE Connect \/ Wake \/ Play
  <2>1. UNCHANGED <<requests, overtakes>>
    BY <1>4 DEF Connect, Wake, Play, CannotOpen, Open, Announce, SendBlock, EndStream, Delete,
                TestStop, TestSkip, lists, history
  <2>2. pc' # "share"
    BY <1>4 DEF Connect, Wake, Play, CannotOpen, Open, Announce, SendBlock, EndStream, Delete,
                TestStop, TestSkip, Shout, Goto
  <2> QED BY <1>2, <2>1, <2>2
<1>5. CASE TakeRequest
  BY <1>5 DEF TakeRequest, Goto
<1>6. CASE NoRequest
  <2>1. requests = <<>> /\ UNCHANGED <<requests, overtakes>>
    BY <1>6 DEF NoRequest, lists, history
  <2>2. overtakes = 0
    BY <1>1, <2>1
  <2> QED BY <2>1, <2>2
<1>7. CASE TakeShare
  BY <1>1, <1>7 DEF TakeShare, Goto
<1>8. CASE NoRequestDir \/ NoSongs \/ ShareUnreadable
  BY <1>2, <1>8 DEF NoRequestDir, NoSongs, ShareUnreadable, Goto, lists, history
<1>9. CASE Environment
  <2>1. UNCHANGED <<pc, overtakes>> /\ (requests # <<>> => requests' # <<>>)
    BY <1>1, <1>9 DEF Environment, Land, Vanish, EditShare, RemoveDir, lists, history
  <2> QED BY <2>1
<1> QED
  BY <1>3, <1>4, <1>5, <1>6, <1>7, <1>8, <1>9 DEF Next, Run, Find

(***************************************************************************)
(* A waiting request is overtaken by one song of the share at most.        *)
(***************************************************************************)
THEOREM RequestsComeFirst == Spec => []RequestsFirst
<1>1. Init => OvertakeInv
  BY DEF Init, OvertakeInv
<1>2. OvertakeInv => RequestsFirst
  BY DEF OvertakeInv, RequestsFirst
<1> QED
  BY <1>1, <1>2, TypeInit, TypeStep, OvertakeStep, PTL DEF Spec

-----------------------------------------------------------------------------
(* The queue when a request lands and when one is taken.                   *)
LEMMA QueueLand ==
  ASSUME TypeInv, LifeInv, NEW f \in RequestFile, Land(f)
  PROVE  /\ LinedUp' /\ Waiting(f)' /\ ~Waiting(f)
         /\ \A g : g # f => Waiting(g)' = Waiting(g)
<1> DEFINE last == Len(requests) + 1
<1>1. requests \in Seq(RequestFile) /\ requests' = Append(requests, f) /\ f \notin landed
      /\ landed' = landed \cup {f}
  BY DEF Land, TypeInv, TypeOK
<1>2. /\ DOMAIN requests' = DOMAIN requests \cup {last} /\ last \notin DOMAIN requests
      /\ requests'[last] = f /\ \A n \in DOMAIN requests : requests'[n] = requests[n]
  BY <1>1
<1>3. \A n \in DOMAIN requests : requests[n] # f
  BY <1>1 DEF LifeInv, LinedUp
<1>4. Waiting(f)' /\ ~Waiting(f) /\ \A g : g # f => Waiting(g)' = Waiting(g)
  BY <1>2, <1>3 DEF Waiting
<1>5. LinedUp'
  BY <1>1, <1>2, <1>3 DEF LifeInv, LinedUp
<1> QED BY <1>4, <1>5

LEMMA QueueTake ==
  ASSUME TypeInv, LifeInv, TakeRequest, NEW f, f = Head(requests)
  PROVE  /\ LinedUp' /\ f \in RequestFile \cap landed /\ Waiting(f) /\ ~Waiting(f)'
         /\ \A g : g # f => Waiting(g)' = Waiting(g)
<1>1. /\ requests \in Seq(RequestFile) /\ requests # <<>> /\ requests' = Tail(requests)
      /\ UNCHANGED landed
  BY DEF TakeRequest, TypeInv, TypeOK
<1>2. 1 \in DOMAIN requests /\ f = requests[1]
  BY <1>1
<1>3. \A n \in DOMAIN requests' : n + 1 \in DOMAIN requests /\ requests'[n] = requests[n + 1]
                                  /\ n \in Nat /\ n # 0
  BY <1>1
<1>4. \A n \in DOMAIN requests : n # 1 => n - 1 \in DOMAIN requests' /\ requests'[n - 1] = requests[n]
  BY <1>1
<1>5. LinedUp'
  BY <1>1, <1>3 DEF LifeInv, LinedUp
<1>6. ~Waiting(f)'
  <2> SUFFICES ASSUME NEW n \in DOMAIN requests', requests'[n] = f PROVE FALSE
    BY DEF Waiting
  <2>1. n + 1 \in DOMAIN requests /\ requests[n + 1] = requests[1] /\ n + 1 # 1
    BY <1>2, <1>3
  <2> QED BY <1>2, <2>1 DEF LifeInv, LinedUp
<1>7. \A g : g # f => Waiting(g)' = Waiting(g)
  BY <1>2, <1>3, <1>4 DEF Waiting
<1>8. f \in RequestFile \cap landed /\ Waiting(f)
  BY <1>1, <1>2 DEF LifeInv, LinedUp, Waiting
<1> QED BY <1>5, <1>6, <1>7, <1>8

LEMMA QueueSame ==
  ASSUME UNCHANGED requests
  PROVE  \A g : Waiting(g)' = Waiting(g)
BY DEF Waiting

LEMMA LifeStep == TypeInv /\ LifeInv /\ [Next]_vars => LifeInv'
<1> SUFFICES ASSUME TypeInv, LifeInv, [Next]_vars PROVE LinedUp' /\ TakenOnce'
  BY TypeStep DEF LifeInv
<1>1. ASSUME UNCHANGED <<requests, landed>>,
             pc' \in InHand => pc \in InHand /\ UNCHANGED song
      PROVE  LinedUp' /\ TakenOnce'
  <2>1. LinedUp'
    BY <1>1 DEF LifeInv, LinedUp
  <2>2. TakenOnce'
    BY <1>1 DEF LifeInv, TakenOnce, Waiting
  <2> QED BY <2>1, <2>2
<1>2. ASSUME NEW f \in RequestFile, Land(f) PROVE LinedUp' /\ TakenOnce'
  <2>1. UNCHANGED <<pc, song>> /\ f \notin landed /\ landed' = landed \cup {f}
    BY <1>2 DEF Land, current
  <2>2. LinedUp' /\ \A g : g # f => Waiting(g)' = Waiting(g)
    BY <1>2, QueueLand
  <2>3. TakenOnce'
    <3> SUFFICES ASSUME pc \in InHand, song.name \in RequestFile
                 PROVE  song.del /\ song.name \in landed' /\ ~Waiting(song.name)'
      BY <2>1 DEF TakenOnce
    <3>1. PICK g : g = song.name
      OBVIOUS
    <3>2. song.del /\ g \in landed /\ ~Waiting(g)
      BY <3>1 DEF LifeInv, TakenOnce
    <3>3. ~Waiting(g)' /\ Waiting(song.name)' = Waiting(g)'
      BY <2>1, <2>2, <3>1, <3>2 DEF Waiting
    <3> QED BY <2>1, <3>1, <3>2, <3>3
  <2> QED BY <2>2, <2>3
<1>3. CASE TakeRequest
  <2>1. PICK f : f = Head(requests)
    OBVIOUS
  <2>2. song' = Song(f, TRUE) /\ UNCHANGED landed
    BY <1>3, <2>1 DEF TakeRequest
  <2>3. LinedUp' /\ f \in landed /\ ~Waiting(f)'
    BY <1>3, <2>1, QueueTake
  <2>4. song'.name = f /\ song'.del = TRUE
    BY <2>2 DEF Song
  <2>5. TakenOnce'
    BY <2>2, <2>3, <2>4 DEF TakenOnce, Waiting
  <2> QED BY <2>3, <2>5
<1>4. CASE TakeShare
  <2>1. song' \in share' /\ UNCHANGED <<requests, landed>>
    BY <1>4 DEF TakeShare
  <2>2. song'.name \in ShareFile
    BY <1>4, <2>1, RereadTyped DEF TakeShare, TypeInv, LifeInv, ShareApart
  <2>3. LinedUp'
    BY <2>1 DEF LifeInv, LinedUp
  <2>4. TakenOnce'
    BY <2>2, FileAssumption DEF TakenOnce
  <2> QED BY <2>3, <2>4
<1>5. CASE NoRequest \/ NoRequestDir \/ NoSongs \/ ShareUnreadable \/ Connect \/ Wake
  BY <1>1, <1>5 DEF NoRequest, NoRequestDir, NoSongs, ShareUnreadable, Connect, Wake, Shout, Goto,
                    InHand, lists, history
<1>6. CASE Play
  BY <1>1, <1>6 DEF Play, CannotOpen, Open, Announce, SendBlock, EndStream, Delete, TestStop,
                    TestSkip, Shout, Goto, InHand, current, lists, history
<1>7. CASE UNCHANGED vars \/ Skip \/ GetSong \/ Quit \/ Stop \/ Wait
  BY <1>1, <1>7 DEF vars, Skip, GetSong, Quit, Stop, Wait, current, lists, history
<1>8. CASE \/ \E f \in File : Vanish(f)
           \/ \E names \in SUBSET ShareFile, state \in {"newer", "unreadable"} : EditShare(names, state)
           \/ RemoveDir
  BY <1>1, <1>8 DEF Vanish, EditShare, RemoveDir, current, lists, history
<1> QED
  BY <1>2, <1>3, <1>4, <1>5, <1>6, <1>7, <1>8 DEF Next, Run, Find, Environment

-----------------------------------------------------------------------------
(* What EnginePlayer looks like to RequestLife.                            *)
lifes   == [f \in RequestFile |-> Life(f)]
there   == disk \cap RequestFile
removed == {f \in RequestFile : Song(f, TRUE) \in deleted}
playing == pc # "ended"
seen    == <<lifes, requests, there, removed, playing>>

Played == {"announce", "stream", "delete"}

LEMMA SongNames ==
  \A f, g : /\ Song(f, TRUE) = Song(g, TRUE) => f = g
            /\ Song(f, TRUE).name = f /\ Song(f, TRUE).del = TRUE
BY DEF Song

(* What is in hand is the song if that is a request, and nothing else.     *)
LEMMA HandLife ==
  ASSUME TypeInv, LifeInv, NEW f \in RequestFile
  PROVE  /\ Life(f) = "taken" <=> song = Song(f, TRUE) /\ pc = "open"
         /\ Life(f) = "played" <=> song = Song(f, TRUE) /\ pc \in Played
<1>1. song = Song(f, TRUE) /\ pc \in InHand => f \in landed /\ ~Waiting(f)
  BY SongNames DEF LifeInv, TakenOnce
<1> QED BY <1>1 DEF Life, Played, InHand

LEMMA HandIsRequest ==
  ASSUME TypeInv, LifeInv, pc \in InHand, song.name \in RequestFile
  PROVE  song = Song(song.name, TRUE)
BY DEF TypeInv, HasSong, LifeInv, TakenOnce, SongType, Song

LEMMA LifeSame ==
  ASSUME UNCHANGED <<landed, requests, song>>,
         pc' = "open" <=> pc = "open", pc' \in Played <=> pc \in Played
  PROVE  lifes' = lifes
<1>1. \A f \in RequestFile : Life(f)' = Life(f)
  BY DEF Life, Waiting, Played
<1> QED BY <1>1 DEF lifes

LEMMA LifeBecomes ==
  ASSUME NEW f \in RequestFile, NEW l, Life(f)' = l,
         \A g \in RequestFile : g # f => Life(g)' = Life(g)
  PROVE  lifes' = [lifes EXCEPT ![f] = l]
BY DEF lifes

(* The song in hand goes from one stage of its life to the next.           *)
LEMMA HandBecomes ==
  ASSUME TypeInv, LifeInv, UNCHANGED <<landed, requests, song>>, NEW f \in RequestFile,
         song = Song(f, TRUE), pc \in InHand
  PROVE  /\ pc' = "open" => lifes' = [lifes EXCEPT ![f] = "taken"]
         /\ pc' \in Played => lifes' = [lifes EXCEPT ![f] = "played"]
         /\ pc' \notin InHand => lifes' = [lifes EXCEPT ![f] = "over"]
<1>1. f \in landed /\ ~Waiting(f)
  BY SongNames DEF LifeInv, TakenOnce
<1>2. \A g \in RequestFile : g # f => Life(g)' = Life(g)
  BY SongNames DEF Life, Waiting
<1>3. /\ pc' = "open" => Life(f)' = "taken"
      /\ pc' \in Played => Life(f)' = "played"
      /\ pc' \notin InHand => Life(f)' = "over"
  BY <1>1 DEF Life, Waiting, Played, InHand
<1> QED BY <1>2, <1>3, LifeBecomes

(* A song of the share in hand does not show. *)
LEMMA ShareUnseen ==
  ASSUME UNCHANGED <<landed, requests, song>>, song.name \notin RequestFile
  PROVE  lifes' = lifes
<1>1. \A f \in RequestFile : Life(f)' = Life(f)
  BY SongNames DEF Life, Waiting
<1> QED BY <1>1 DEF lifes

LEMMA AbstractEnd ==
  ASSUME TypeInv, LifeInv, UNCHANGED <<landed, requests, song, disk, deleted>>,
         pc # "ended", pc' = "ended"
  PROVE  Abstract!End
<1>1. lifes' = [f \in RequestFile |-> IF f \in Abstract!InHand THEN "over" ELSE lifes[f]]
  <2> SUFFICES ASSUME NEW f \in RequestFile
               PROVE  Life(f)' = IF f \in Abstract!InHand THEN "over" ELSE lifes[f]
    BY DEF lifes
  <2>1. f \in Abstract!InHand <=> Life(f) \in {"taken", "played"}
    BY DEF Abstract!InHand
  <2>2. song = Song(f, TRUE) /\ pc \in InHand => f \in landed /\ ~Waiting(f)
    BY SongNames DEF LifeInv, TakenOnce
  <2>3. Life(f)' = IF Life(f) \in {"taken", "played"} THEN "over" ELSE Life(f)
    <3>1. Waiting(f)' = Waiting(f)
      BY DEF Waiting
    <3>2. CASE song = Song(f, TRUE) /\ pc \in InHand
      BY <2>2, <3>1, <3>2 DEF Life, InHand
    <3>3. CASE ~(song = Song(f, TRUE) /\ pc \in InHand)
      <4>1. Waiting(f) => f \in landed
        BY DEF Waiting, LifeInv, LinedUp
      <4>2. landed' = landed /\ song' = song /\ pc' = "ended"
        OBVIOUS
      <4> QED BY <3>1, <3>3, <4>1, <4>2 DEF Life, InHand
    <3> QED BY <3>2, <3>3
  <2> QED BY <2>1, <2>3 DEF lifes
<1>2. UNCHANGED <<requests, there, removed>>
  BY DEF there, removed
<1> QED BY <1>1, <1>2 DEF Abstract!End, lifes, there, removed

LEMMA AbstractStep == TypeInv /\ LifeInv /\ [Next]_vars => [Abstract!Next]_seen
<1> SUFFICES ASSUME TypeInv, LifeInv, [Next]_vars PROVE Abstract!Next \/ UNCHANGED seen
  OBVIOUS
<1>1. ASSUME UNCHANGED <<landed, requests, song, disk, deleted>>,
             pc' = "open" <=> pc = "open", pc' \in Played <=> pc \in Played,
             pc' = "ended" <=> pc = "ended"
      PROVE  UNCHANGED seen
  BY <1>1, LifeSame DEF seen, there, removed, playing
<1>2. ASSUME UNCHANGED <<landed, requests, song, disk, deleted>>, pc # "ended", pc' = "ended"
      PROVE  Abstract!Next
  BY <1>2, AbstractEnd DEF Abstract!Next
<1>3. ASSUME NEW f \in RequestFile, Land(f) PROVE Abstract!Next
  <2>1. /\ f \notin landed /\ landed' = landed \cup {f} /\ disk' = disk \cup {f}
        /\ requests' = Append(requests, f) /\ UNCHANGED <<deleted, pc, song>>
    BY <1>3 DEF Land, current
  <2>2. Waiting(f)' /\ \A g : g # f => Waiting(g)' = Waiting(g)
    BY <1>3, QueueLand
  <2>3. Life(f) = "new" /\ Life(f)' = "waiting"
    <3>1. ~Waiting(f)
      BY <1>3, QueueLand
    <3>2. ~(song = Song(f, TRUE) /\ pc \in InHand)
      BY <2>1, SongNames DEF LifeInv, TakenOnce
    <3>3. song' = song /\ pc' = pc /\ f \in landed'
      BY <2>1
    <3>4. Life(f) = "new"
      BY <2>1, <3>1, <3>2 DEF Life, InHand
    <3>5. Life(f)' = "waiting"
      BY <2>2, <3>2, <3>3 DEF Life, InHand
    <3> QED BY <3>4, <3>5
  <2>4. \A g \in RequestFile : g # f => Life(g)' = Life(g)
    BY <2>1, <2>2 DEF Life
  <2>5. lifes' = [lifes EXCEPT ![f] = "waiting"]
    BY <2>3, <2>4, LifeBecomes
  <2>6. there' = there \cup {f} /\ removed' = removed /\ playing' = playing
    BY <2>1 DEF there, removed, playing
  <2>7. Abstract!Land(f)
    BY <2>1, <2>3, <2>5, <2>6 DEF Abstract!Land, Abstract!Becomes, lifes, there, removed, playing
  <2> QED BY <2>7 DEF Abstract!Next
<1>4. CASE RemoveDir \/ \E f \in File : Vanish(f)
  <2>1. /\ disk' \subseteq disk /\ UNCHANGED <<landed, requests, deleted, pc, song>>
    BY <1>4 DEF RemoveDir, Vanish, current, lists, history
  <2>2. lifes' = lifes
    BY <2>1, LifeSame
  <2>3. there' \subseteq there /\ removed' = removed /\ playing' = playing
    BY <2>1 DEF there, removed, playing
  <2> QED BY <2>1, <2>2, <2>3 DEF Abstract!Next, Abstract!Vanish, lifes, there, removed, playing
<1>5. CASE TakeRequest
  <2> DEFINE f == Head(requests)
  <2>1. /\ requests # <<>> /\ requests' = Tail(requests) /\ pc = "request" /\ pc' = "open"
        /\ song' = Song(f, TRUE) /\ UNCHANGED <<landed, disk, deleted>>
    BY <1>5 DEF TakeRequest, Goto
  <2>2. PICK g : g = f
    OBVIOUS
  <2>3. /\ g \in RequestFile \cap landed /\ Waiting(g) /\ ~Waiting(g)'
        /\ \A h : h # g => Waiting(h)' = Waiting(h)
    BY <1>5, <2>2, QueueTake
  <2>4. Life(g) = "waiting" /\ Life(g)' = "taken"
    BY <2>1, <2>2, <2>3 DEF Life
  <2>5. \A h \in RequestFile : h # g => Life(h)' = Life(h)
    BY <2>1, <2>2, <2>3, SongNames DEF Life
  <2>6. lifes' = [lifes EXCEPT ![g] = "taken"]
    BY <2>3, <2>4, <2>5, LifeBecomes
  <2>7. Abstract!InHand = {}
    BY <2>1, HandLife DEF Abstract!InHand, Played
  <2>8. UNCHANGED <<there, removed, playing>>
    BY <2>1 DEF there, removed, playing
  <2>9. Abstract!Take
    BY <2>1, <2>2, <2>3, <2>4, <2>6, <2>7, <2>8
       DEF Abstract!Take, Abstract!Becomes, lifes, there, removed, playing
  <2> QED BY <2>9 DEF Abstract!Next
<1>6. CASE TakeShare
  <2>1. /\ song' \in share' /\ pc = "share" /\ pc' = "open"
        /\ UNCHANGED <<landed, requests, disk, deleted>>
    BY <1>6 DEF TakeShare, Goto
  <2>2. song'.name \notin RequestFile
    BY <1>6, <2>1, RereadTyped, FileAssumption DEF TakeShare, TypeInv, LifeInv, ShareApart
  <2>3. \A f \in RequestFile : Life(f)' = Life(f)
    BY <2>1, <2>2, SongNames DEF Life, Waiting
  <2> QED BY <2>1, <2>3 DEF seen, lifes, there, removed, playing
<1>7. CASE CannotOpen
  <2>1. /\ song.name \notin disk /\ pc = "open" /\ pc' = "request"
        /\ UNCHANGED <<landed, requests, song, disk, deleted>>
    BY <1>7 DEF CannotOpen, Goto, current, lists, history
  <2>2. CASE song.name \in RequestFile
    <3>1. PICK f \in RequestFile : f = song.name /\ song = Song(f, TRUE)
      BY <2>1, <2>2, HandIsRequest DEF InHand
    <3>2. Life(f) = "taken" /\ f \notin there /\ lifes' = [lifes EXCEPT ![f] = "over"]
      BY <2>1, <3>1, HandLife, HandBecomes DEF InHand, there
    <3>3. UNCHANGED <<there, removed, playing>>
      BY <2>1 DEF there, removed, playing
    <3>4. Abstract!GiveUp(f)
      BY <2>1, <3>2, <3>3 DEF Abstract!GiveUp, Abstract!Becomes, lifes, there, removed, playing
    <3> QED BY <3>4 DEF Abstract!Next
  <2>3. CASE song.name \notin RequestFile
    BY <2>1, <2>3, ShareUnseen DEF seen, there, removed, playing
  <2> QED BY <2>2, <2>3
<1>8. CASE Open
  <2>1. /\ song.name \in disk /\ pc = "open" /\ pc' = "announce"
        /\ UNCHANGED <<landed, requests, song, disk, deleted>>
    BY <1>8 DEF Open, Goto, lists
  <2>2. CASE song.name \in RequestFile
    <3>1. PICK f \in RequestFile : f = song.name /\ song = Song(f, TRUE)
      BY <2>1, <2>2, HandIsRequest DEF InHand
    <3>2. Life(f) = "taken" /\ f \in there /\ lifes' = [lifes EXCEPT ![f] = "played"]
      BY <2>1, <3>1, HandLife, HandBecomes DEF InHand, Played, there
    <3>3. UNCHANGED <<there, removed, playing>>
      BY <2>1 DEF there, removed, playing
    <3>4. Abstract!Play(f)
      BY <2>1, <3>2, <3>3 DEF Abstract!Play, Abstract!Becomes, lifes, there, removed, playing
    <3> QED BY <3>4 DEF Abstract!Next
  <2>3. CASE song.name \notin RequestFile
    BY <2>1, <2>3, ShareUnseen DEF seen, there, removed, playing
  <2> QED BY <2>2, <2>3
<1>9. CASE Delete
  <2>1. /\ pc = "delete" /\ pc' = "stop" /\ UNCHANGED <<landed, requests, song>>
        /\ disk' = IF song.del THEN disk \ {song.name} ELSE disk
        /\ deleted' = IF song.del THEN deleted \cup {song} ELSE deleted
    BY <1>9 DEF Delete, Goto, current, lists
  <2>2. CASE song.name \in RequestFile
    <3>1. PICK f \in RequestFile : f = song.name /\ song = Song(f, TRUE)
      BY <2>1, <2>2, HandIsRequest DEF InHand
    <3>2. Life(f) = "played" /\ lifes' = [lifes EXCEPT ![f] = "over"]
      BY <2>1, <3>1, HandLife, HandBecomes DEF InHand, Played
    <3>3. disk' = disk \ {f} /\ deleted' = deleted \cup {Song(f, TRUE)}
      BY <2>1, <3>1, SongNames
    <3>4. there' = there \ {f} /\ removed' = removed \cup {f} /\ playing' = playing
      BY <2>1, <3>3, SongNames DEF there, removed, playing
    <3>5. Abstract!Remove(f)
      BY <2>1, <3>2, <3>4 DEF Abstract!Remove, Abstract!Becomes, lifes, there, removed, playing
    <3> QED BY <3>5 DEF Abstract!Next
  <2>3. CASE song.name \notin RequestFile
    <3>1. lifes' = lifes /\ playing' = playing
      BY <2>1, <2>3, ShareUnseen DEF playing
    <3>2. there' = there
      BY <2>1, <2>3 DEF there
    <3>3. removed' = removed
      BY <2>1, <2>3, SongNames DEF removed
    <3> QED BY <2>1, <3>1, <3>2, <3>3 DEF seen
  <2> QED BY <2>2, <2>3
<1>10. CASE NoRequest \/ NoRequestDir \/ NoSongs \/ ShareUnreadable \/ Connect \/ Wake
  <2>1. /\ UNCHANGED <<landed, requests, song, disk, deleted>>
        /\ pc \in {"request", "share", "connect", "sleep"}
        /\ pc' \in {"request", "share", "sleep", "ended"}
    BY <1>10 DEF NoRequest, NoRequestDir, NoSongs, ShareUnreadable, Connect, Wake, Shout, Goto,
                 current, lists, history
  <2> QED BY <1>1, <1>2, <2>1 DEF Played
<1>11. CASE Announce \/ SendBlock \/ EndStream
  <2>1. /\ UNCHANGED <<landed, requests, song, disk, deleted>>
        /\ pc \in Played /\ pc' \in Played \cup {"ended"}
    BY <1>11 DEF Announce, SendBlock, EndStream, Shout, Goto, Played, current, lists, history
  <2> QED BY <1>1, <1>2, <2>1 DEF Played
<1>12. CASE TestStop \/ TestSkip
  <2>1. /\ UNCHANGED <<landed, requests, song, disk, deleted>>
        /\ pc \in {"stop", "skip"} /\ pc' \in {"skip", "request", "ended"}
    BY <1>12 DEF TestStop, TestSkip, Goto, current, lists, history
  <2> QED BY <1>1, <1>2, <2>1 DEF Played
<1>13. CASE \/ UNCHANGED vars \/ Skip \/ GetSong \/ Quit \/ Stop \/ Wait
            \/ \E names \in SUBSET ShareFile, state \in {"newer", "unreadable"} :
                 EditShare(names, state)
  <2>1. UNCHANGED <<landed, requests, song, disk, deleted, pc>>
    BY <1>13 DEF vars, Skip, GetSong, Quit, Stop, Wait, EditShare, current, lists, history
  <2> QED BY <1>1, <2>1
<1>14. CASE Play
  BY <1>7, <1>8, <1>9, <1>11, <1>12, <1>14 DEF Play
<1>15. CASE Environment
  BY <1>3, <1>4, <1>13, <1>15 DEF Environment
<1> QED
  BY <1>5, <1>6, <1>10, <1>13, <1>14, <1>15 DEF Next, Run, Find

LEMMA AbstractInit == Init => Abstract!Init /\ LifeInv
<1> SUFFICES ASSUME Init PROVE Abstract!Init /\ LifeInv
  OBVIOUS
<1>1. lifes = [f \in RequestFile |-> "new"]
  <2>1. landed = {} /\ pc = "connect" /\ \A f : ~Waiting(f)
    BY DEF Init, Waiting
  <2>2. \A f \in RequestFile : Life(f) = "new"
    BY <2>1 DEF Life
  <2> QED BY <2>2 DEF lifes
<1>2. there = {} /\ removed = {} /\ pc # "ended"
  BY FileAssumption DEF Init, there, removed
<1>3. LifeInv
  BY TypeInit DEF Init, LifeInv, LinedUp, TakenOnce, InHand
<1> QED BY <1>1, <1>2, <1>3 DEF Abstract!Init, Init, lifes, there, removed

(***************************************************************************)
(* EnginePlayer implements RequestLife: whatever is skipped, edited,       *)
(* removed or fails, a request is taken in its turn, given up only if its  *)
(* file is gone, and removed after it was played and at no other time.     *)
(***************************************************************************)
THEOREM Implements == Spec => ImplementsRequestLife
<1>1. TypeInv /\ LifeInv /\ [Next]_vars => TypeInv' /\ LifeInv'
  BY TypeStep, LifeStep DEF LifeInv
<1> QED
  BY <1>1, TypeInit, AbstractInit, AbstractStep, PTL
     DEF Spec, ImplementsRequestLife, Abstract!Spec, Abstract!vars, seen, lifes, there, removed,
         playing
=============================================================================
