-------------------------- MODULE HttpThreadProofs --------------------------
(***************************************************************************)
(* What HttpThread keeps, for any files, accounts and bounds: who may run  *)
(* a command, which song a page names, and which songs it lists.           *)
(*                                                                         *)
(* The invariant follows the objects that outlive a connection (the parsed *)
(* request, the pages and the names they were built for) and the ids of    *)
(* songs on their way from a list to the current song and to a page.       *)
(***************************************************************************)
EXTENDS HttpThread, FiniteSetTheorems, SequenceTheorems, TLAPS

AnyFile == RequestFile \cup CacheFile \cup ShareFile

(* The objects have the values that the code gives them. *)
ListsTyped ==
  /\ queue \in [Playlists -> Seq(Song)]
  /\ landing \in [Playlists -> Seq(AnyFile)]
  /\ \A l \in Playlists : landing[l] \in Seq(FilesOf(l))
  /\ nextfileid \in [Playlists -> Nat]

SongsTyped ==
  /\ currfile \in AnySong
  /\ fobj \in AnySong
  /\ songfile \in AnySong

Open == {"poll", "serve", "entries", "sizes", "close"}

PagesTyped ==
  /\ buf \in [Built -> PageType]
  /\ o_songname \in [Built -> AnyFile \cup {NoFile, NeverBuilt}]
  /\ listno \in Lists
  /\ pc \in Open \cup {"listen", "accept", "ended"}

TypeInv == ListsTyped /\ SongsTyped /\ PagesTyped

(***************************************************************************)
(* A command has been run by the one packet of this connection, which is   *)
(* the one received last; its credentials are those in the headers.        *)
(***************************************************************************)
RequestInv ==
  /\ pc = "serve" => rbuf.parses /\ rbuf.command = "GET" /\ headers = rbuf.auth
  /\ ran # "none" => pc = "close"

(***************************************************************************)
(* The song of a connection has been current during it, and a page is of   *)
(* the song whose name it was built for, or of the one it is built for.    *)
(***************************************************************************)
SeenNames == {s.name : s \in seen}
Building(k) == pc \in {"entries", "sizes"} /\ rbuf.name = k

NameInv ==
  /\ pc \in Open => songfile.name \in SeenNames
  /\ sent.kind # "none" => pc = "close"
  /\ \A k \in Built :
       IF Building(k) THEN buf[k].song = songfile
       ELSE o_songname[k] \in {buf[k].song.name, NeverBuilt}

(***************************************************************************)
(* Songs wait in a play list in the order of their ids, below the next id, *)
(* and above those of the songs that have left it.                         *)
(***************************************************************************)
Past(s, l) == s.list = l => s.id < nextfileid[l] /\ \A i \in DOMAIN queue[l] : s.id < queue[l][i].id

QueueInv ==
  \A l \in Playlists :
    /\ \A i \in DOMAIN queue[l] : queue[l][i].list = l /\ queue[l][i].id < nextfileid[l]
    /\ \A i, j \in DOMAIN queue[l] : i < j => queue[l][i].id < queue[l][j].id

PastInv == \A l \in Playlists : Past(currfile, l) /\ Past(fobj, l) /\ Past(songfile, l)

(***************************************************************************)
(* While a page is filled, it holds songs of the lists before the one it   *)
(* is at.                                                                  *)
(***************************************************************************)
FillInv ==
  \A k \in Built :
    /\ \A i \in DOMAIN buf[k].entries : buf[k].entries[i].list \in Playlists
    /\ pc = "entries" /\ rbuf.name = k =>
         \A i \in DOMAIN buf[k].entries : buf[k].entries[i].list < listno

-----------------------------------------------------------------------------
LEMMA FilesTyped ==
  /\ \A l \in Lists : FilesOf(l) \subseteq AnyFile
  /\ Playlists \subseteq Lists /\ Playlists \subseteq Nat
  /\ NoSong \in AnySong /\ Song \subseteq AnySong
  /\ \A s \in AnySong : s.list \in Lists /\ s.name \in AnyFile \cup {NoFile} /\ s.id \in Nat
BY DEF FilesOf, AnyFile, Lists, Playlists, NoSong, AnySong, Song, Request, Cache, Share

LEMMA PagesAre ==
  /\ NoPage \in PageType
  /\ \A s \in AnySong : PageOf(s) \in PageType /\ PageOf(s).song = s /\ PageOf(s).entries = <<>>
BY FilesTyped DEF NoPage, PageOf, PageType, NoSizes

(* What Update makes of a list: the songs that landed come behind those    *)
(* that wait, with the next ids.                                           *)
LEMMA UpdatedIs ==
  ASSUME ListsTyped, NEW l \in Playlists
  PROVE  /\ Updated(l) \in Seq(Song)
         /\ Len(queue[l]) \in Nat /\ Len(landing[l]) \in Nat /\ nextfileid[l] \in Nat
         /\ Len(Updated(l)) = Len(queue[l]) + Len(landing[l])
         /\ \A i \in 1..Len(queue[l]) : Updated(l)[i] = queue[l][i]
         /\ \A i \in (Len(queue[l]) + 1)..Len(Updated(l)) :
              /\ Updated(l)[i].list = l
              /\ Updated(l)[i].id = nextfileid[l] + (i - Len(queue[l])) - 1
<1> DEFINE new == [i \in 1..Len(landing[l]) |->
                     [list |-> l, name |-> landing[l][i], id |-> nextfileid[l] + i - 1]]
<1>1. /\ queue[l] \in Seq(Song) /\ landing[l] \in Seq(AnyFile) /\ nextfileid[l] \in Nat
      /\ Len(queue[l]) \in Nat /\ Len(landing[l]) \in Nat
  BY DEF ListsTyped
<1>2. \A i \in 1..Len(landing[l]) :
        [list |-> l, name |-> landing[l][i], id |-> nextfileid[l] + i - 1] \in Song
  <2> TAKE i \in 1..Len(landing[l])
  <2>1. landing[l][i] \in AnyFile /\ nextfileid[l] + i - 1 \in Nat /\ l \in Lists
    BY <1>1, FilesTyped
  <2> QED BY <2>1 DEF Song, AnyFile
<1>3. new \in Seq(Song) /\ Len(new) = Len(landing[l])
  BY <1>1, <1>2
<1>4. /\ Updated(l) = queue[l] \o new
  BY DEF Updated
<1>7. \A j \in 1..Len(landing[l]) : new[j].list = l /\ new[j].id = nextfileid[l] + j - 1
  OBVIOUS
<1> HIDE DEF new
<1>5. /\ Updated(l) \in Seq(Song) /\ Len(Updated(l)) = Len(queue[l]) + Len(new)
      /\ \A i \in 1..(Len(queue[l]) + Len(new)) :
           Updated(l)[i] = IF i <= Len(queue[l]) THEN queue[l][i] ELSE new[i - Len(queue[l])]
  <2>1. queue[l] \in Seq(Song) /\ new \in Seq(Song)
    BY <1>1, <1>3
  <2>2. /\ queue[l] \o new \in Seq(Song)
        /\ Len(queue[l] \o new) = Len(queue[l]) + Len(new)
        /\ \A i \in 1..(Len(queue[l]) + Len(new)) :
             (queue[l] \o new)[i] = IF i <= Len(queue[l]) THEN queue[l][i] ELSE new[i - Len(queue[l])]
    BY <2>1, ConcatProperties
  <2> QED BY <1>4, <2>2, Zenon
<1>6. /\ Len(Updated(l)) = Len(queue[l]) + Len(landing[l])
      /\ \A i \in 1..Len(queue[l]) : Updated(l)[i] = queue[l][i]
      /\ \A i \in (Len(queue[l]) + 1)..Len(Updated(l)) :
           /\ Updated(l)[i] = new[i - Len(queue[l])]
           /\ i - Len(queue[l]) \in 1..Len(landing[l])
  <2> DEFINE u == Updated(l)
             n == Len(queue[l])
             m == Len(landing[l])
  <2>1. n \in Nat /\ m \in Nat /\ Len(new) = m /\ Len(u) = n + m
    BY <1>1, <1>3, <1>5
  <2>2. \A i \in 1..(n + m) : u[i] = IF i <= n THEN queue[l][i] ELSE new[i - n]
    BY <1>5, <2>1
  <2> HIDE DEF u, n, m
  <2>3. /\ \A i \in 1..n : u[i] = queue[l][i]
        /\ \A i \in (n + 1)..Len(u) : u[i] = new[i - n] /\ i - n \in 1..m
    BY <2>1, <2>2
  <2> QED BY <2>1, <2>3 DEF u, n, m
<1>8. \A i \in (Len(queue[l]) + 1)..Len(Updated(l)) :
        /\ Updated(l)[i].list = l
        /\ Updated(l)[i].id = nextfileid[l] + (i - Len(queue[l])) - 1
  BY <1>6, <1>7
<1> QED BY <1>1, <1>5, <1>6, <1>8

LEMMA ListsStep == ListsTyped /\ [Next]_vars => ListsTyped'
<1> SUFFICES ASSUME ListsTyped, [Next]_vars PROVE ListsTyped'
  OBVIOUS
<1>1. ASSUME UNCHANGED <<queue, landing, nextfileid>> PROVE ListsTyped'
  BY <1>1 DEF ListsTyped
<1>2. ASSUME NEW l \in Playlists, NEW f \in FilesOf(l), Land(l, f) PROVE ListsTyped'
  <2>1. /\ landing' = [landing EXCEPT ![l] = Append(landing[l], f)]
        /\ UNCHANGED <<queue, nextfileid>>
    BY <1>2 DEF Land
  <2>2. Append(landing[l], f) \in Seq(AnyFile) /\ Append(landing[l], f) \in Seq(FilesOf(l))
    BY FilesTyped DEF ListsTyped
  <2> QED BY <2>1, <2>2 DEF ListsTyped
<1>3. ASSUME NEW l \in Playlists, NEW list \in Seq(Song), Update(l, list) PROVE ListsTyped'
  <2>1. <<>> \in Seq(AnyFile) /\ <<>> \in Seq(FilesOf(l))
    OBVIOUS
  <2>2. nextfileid[l] + Len(landing[l]) \in Nat
    BY DEF ListsTyped
  <2> QED BY <1>3, <2>1, <2>2 DEF Update, ListsTyped
<1>4. ASSUME NEW l \in Playlists, Take(l) PROVE ListsTyped'
  <2>1. Tail(Updated(l)) \in Seq(Song)
    BY <1>4, UpdatedIs, HeadTailProperties DEF Take
  <2> QED BY <1>3, <1>4, <2>1 DEF Take
<1>5. ASSUME NEW k \in Built, GetSize(k) PROVE ListsTyped'
  <2>1. CASE listno \in Playlists
    BY <1>3, <1>5, <2>1, UpdatedIs DEF GetSize
  <2>2. CASE listno \notin Playlists
    BY <1>1, <1>5, <2>2 DEF GetSize
  <2> QED BY <2>1, <2>2
<1>6. CASE UNCHANGED vars \/ (\E f \in ShareFile : TakeShared(f)) \/ SetCurrent \/ ClearCurrent \/ Accept
           \/ (\E p \in Packet : Receive(p)) \/ ReceiveFails
           \/ Listen \/ PollTimeout \/ ServeCommand \/ ServeText \/ ServeRedirect \/ Close
  BY <1>1, <1>6 DEF vars, lists, TakeShared, SetCurrent, ClearCurrent, Accept, Receive, ReceiveFails,
                    Listen, PollTimeout, ServeCommand, ServeText, ServeRedirect, Close
<1>7. CASE \E k \in Built : ServePage(k) \/ ListEntries(k)
  BY <1>1, <1>7 DEF lists, ServePage, ListEntries
<1> QED
  BY <1>2, <1>4, <1>5, <1>6, <1>7 DEF Next, Serve

LEMMA SongsStep == ListsTyped /\ SongsTyped /\ [Next]_vars => SongsTyped'
<1> SUFFICES ASSUME ListsTyped, SongsTyped, [Next]_vars PROVE SongsTyped'
  OBVIOUS
<1> USE DEF SongsTyped
<1>1. ASSUME NEW l \in Playlists, Take(l) PROVE SongsTyped'
  <2>1. Head(Updated(l)) \in AnySong
    BY <1>1, UpdatedIs, HeadTailProperties, FilesTyped DEF Take
  <2> QED BY <1>1, <2>1 DEF Take, thread
<1>2. ASSUME NEW f \in ShareFile, TakeShared(f) PROVE SongsTyped'
  <2>1. [list |-> Share, name |-> f, id |-> 0] \in AnySong
    BY DEF AnySong, Song, Lists
  <2> QED BY <1>2, <2>1 DEF TakeShared, thread
<1>3. CASE SetCurrent \/ ClearCurrent
  BY <1>3, FilesTyped DEF SetCurrent, ClearCurrent, Becomes, thread
<1>4. CASE Accept
  BY <1>4 DEF Accept, player
<1>5. CASE \/ UNCHANGED vars \/ (\E l \in Playlists : \E f \in FilesOf(l) : Land(l, f))
           \/ (\E p \in Packet : Receive(p)) \/ ReceiveFails
           \/ Listen \/ PollTimeout \/ ServeCommand \/ ServeText \/ ServeRedirect \/ Close
  BY <1>5 DEF vars, player, thread, Land, Receive, ReceiveFails,
              Listen, PollTimeout, ServeCommand, ServeText, ServeRedirect, Close
<1>6. CASE \E k \in Built : ServePage(k) \/ ListEntries(k) \/ GetSize(k)
  BY <1>6 DEF player, ServePage, ListEntries, GetSize
<1> QED
  BY <1>1, <1>2, <1>3, <1>4, <1>5, <1>6 DEF Next, Serve

(* What GetEntries gives a page is the front of the list.                  *)
LEMMA EntriesAre ==
  ASSUME ListsTyped, NEW l \in Lists, NEW max \in Nat
  PROVE  /\ GetEntries(l, max) \in Seq(Song) /\ Len(GetEntries(l, max)) <= max
         /\ \A i \in 1..Len(GetEntries(l, max)) :
              l \in Playlists /\ i \in DOMAIN queue[l] /\ GetEntries(l, max)[i] = queue[l][i]
<1>1. CASE l \notin Playlists
  BY <1>1 DEF GetEntries
<1>2. CASE l \in Playlists
  <2> DEFINE n == IF Len(queue[l]) < max THEN Len(queue[l]) ELSE max
  <2>1. queue[l] \in Seq(Song) /\ Len(queue[l]) \in Nat
    BY <1>2 DEF ListsTyped
  <2>2. n \in Nat /\ n <= Len(queue[l]) /\ n <= max /\ \A i \in 1..n : i \in DOMAIN queue[l]
    BY <2>1
  <2>3. GetEntries(l, max) = SubSeq(queue[l], 1, n)
    BY <1>2 DEF GetEntries
  <2> HIDE DEF n
  <2>4. /\ SubSeq(queue[l], 1, n) \in Seq(Song)
        /\ Len(SubSeq(queue[l], 1, n)) = n
        /\ \A i \in 1..n : SubSeq(queue[l], 1, n)[i] = queue[l][i]
    BY <2>1, <2>2, SubSeqProperties
  <2> QED BY <1>2, <2>2, <2>3, <2>4
<1> QED BY <1>1, <1>2

(* A page that is filled stays a page.                                     *)
LEMMA Filled ==
  ASSUME ListsTyped, PagesTyped, NEW k \in Built
  PROVE  /\ Left(k) \in Int
         /\ (Len(buf[k].entries) <= MaxEntries) => Left(k) \in Nat
         /\ buf[k].entries \in Seq(Song) /\ Len(buf[k].entries) \in Nat
BY BoundAssumption DEF PagesTyped, PageType, Left

(* A page holds no more songs than it has room for.                        *)
RoomInv == \A k \in Built : Len(buf[k].entries) <= MaxEntries

LEMMA PagesStep ==
  ListsTyped /\ SongsTyped /\ PagesTyped /\ RoomInv /\ [Next]_vars => PagesTyped' /\ RoomInv'
<1> SUFFICES ASSUME ListsTyped, SongsTyped, PagesTyped, RoomInv, [Next]_vars
             PROVE  PagesTyped' /\ RoomInv'
  OBVIOUS
<1> USE DEF PagesTyped, RoomInv
<1>1. ASSUME UNCHANGED <<buf, o_songname, listno>>,
             pc' \in Open \cup {"listen", "accept", "ended"}
      PROVE  PagesTyped' /\ RoomInv'
  BY <1>1
<1>2. CASE \/ UNCHANGED vars \/ (\E l \in Playlists : \E f \in FilesOf(l) : Land(l, f))
           \/ (\E l \in Playlists : Take(l)) \/ (\E f \in ShareFile : TakeShared(f))
           \/ SetCurrent \/ ClearCurrent
  BY <1>1, <1>2 DEF vars, thread, pages, Land, Take, TakeShared, SetCurrent, ClearCurrent
<1>3. CASE \/ Accept \/ (\E p \in Packet : Receive(p)) \/ ReceiveFails
           \/ Listen \/ PollTimeout \/ ServeCommand \/ ServeText \/ ServeRedirect \/ Close
  BY <1>1, <1>3 DEF pages, Accept, Receive, ReceiveFails, Parse, Listen, PollTimeout, ServeCommand,
                    ServeText, ServeRedirect, Close, Send, Open
<1>4. ASSUME NEW k \in Built, ServePage(k) PROVE PagesTyped' /\ RoomInv'
  <2>1. CASE o_songname[k] = songfile.name
    BY <1>1, <1>4, <2>1 DEF ServePage, Send, Open
  <2>2. CASE o_songname[k] # songfile.name
    <3>1. /\ buf' = [buf EXCEPT ![k] = PageOf(songfile)] /\ pc' = "entries"
          /\ listno' \in {Request, Cache} /\ UNCHANGED o_songname
      BY <1>4, <2>2 DEF ServePage
    <3>2. PageOf(songfile) \in PageType /\ Len(PageOf(songfile).entries) = 0
      BY PagesAre DEF SongsTyped
    <3> QED BY <3>1, <3>2, BoundAssumption DEF Open, Lists
  <2> QED BY <2>1, <2>2
<1>5. ASSUME NEW k \in Built, ListEntries(k) PROVE PagesTyped' /\ RoomInv'
  <2> DEFINE more == GetEntries(listno, Left(k))
             got  == buf[k].entries \o more
  <2>1. Left(k) \in Nat /\ buf[k].entries \in Seq(Song) /\ Len(buf[k].entries) \in Nat
    BY Filled
  <2>2. more \in Seq(Song) /\ Len(more) \in Nat /\ Len(more) <= Left(k)
    BY <2>1, EntriesAre
  <2> HIDE DEF more
  <2>3. got \in Seq(Song) /\ Len(got) = Len(buf[k].entries) + Len(more)
    BY <2>1, <2>2
  <2>4. Len(got) <= MaxEntries
    BY <2>1, <2>2, <2>3, BoundAssumption DEF Left
  <2>5. /\ buf' = [buf EXCEPT ![k].entries = got] /\ UNCHANGED o_songname
        /\ pc' \in {"entries", "sizes"}
        /\ listno' = Request \/ (listno' = listno + 1 /\ listno < Share)
    <3>1. CASE k = "xml" /\ More(got)
      BY <1>5, <3>1 DEF ListEntries, More, more
    <3>2. CASE ~(k = "xml" /\ More(got))
      BY <1>5, <3>2 DEF ListEntries, more
    <3> QED BY <3>1, <3>2
  <2> HIDE DEF got
  <2>6. listno' \in Lists
    BY <2>5 DEF Lists, Request, Cache, Share
  <2>7. buf' \in [Built -> PageType] /\ buf'[k].entries = got
        /\ \A j \in Built : j # k => buf'[j] = buf[j]
    BY <2>3, <2>5 DEF PageType
  <2> QED BY <2>4, <2>5, <2>6, <2>7 DEF Open
<1>6. ASSUME NEW k \in Built, GetSize(k) PROVE PagesTyped' /\ RoomInv'
  <2>1. PICK n \in Nat : buf' = [buf EXCEPT ![k].sizes[listno] = n]
    BY <1>6, UpdatedIs, FS_CardinalityType, FinitelyMany DEF GetSize
  <2>2. buf' \in [Built -> PageType] /\ \A j \in Built : buf'[j].entries = buf[j].entries
    BY <2>1 DEF PageType
  <2>3. listno' \in Lists
    BY <1>6 DEF GetSize, Lists, Playlists, Request, Cache, Share
  <2>4. o_songname' \in [Built -> AnyFile \cup {NoFile, NeverBuilt}]
    <3>1. songfile.name \in AnyFile \cup {NoFile}
      BY FilesTyped DEF SongsTyped
    <3> QED BY <1>6, <3>1 DEF GetSize, Done
  <2>5. pc' \in Open
    BY <1>6 DEF GetSize, Done, Send, Open
  <2> QED BY <2>2, <2>3, <2>4, <2>5
<1> QED
  BY <1>2, <1>3, <1>4, <1>5, <1>6 DEF Next, Serve

LEMMA TypeInit == Init => TypeInv /\ RoomInv
<1> SUFFICES ASSUME Init PROVE TypeInv /\ RoomInv
  OBVIOUS
<1>1. ASSUME NEW l \in Playlists PROVE landing[l] \in Seq(FilesOf(l)) /\ landing[l] \in Seq(AnyFile)
  <2>1. IsFiniteSet(FilesOf(l))
    BY FinitelyMany DEF FilesOf
  <2>2. Cardinality(FilesOf(l)) \in Nat
    BY <2>1, FS_CardinalityType
  <2>3. landing[l] \in [1..Cardinality(FilesOf(l)) -> FilesOf(l)]
    BY DEF Init, SetToSeqs
  <2>4. landing[l] \in Seq(FilesOf(l))
    BY <2>2, <2>3
  <2> QED BY <2>4, FilesTyped, SeqMonotonic
<1>2. ListsTyped
  BY <1>1 DEF Init, ListsTyped
<1>3. SongsTyped
  BY FilesTyped DEF Init, SongsTyped
<1>4. PagesTyped
  BY PagesAre DEF Init, PagesTyped, Lists, Request
<1>5. RoomInv
  <2>1. \A k \in Built : Len(buf[k].entries) = 0
    BY DEF Init, NoPage, PageOf
  <2> QED BY <2>1, BoundAssumption DEF RoomInv
<1> QED BY <1>2, <1>3, <1>4, <1>5 DEF TypeInv

LEMMA TypeStep == TypeInv /\ RoomInv /\ [Next]_vars => TypeInv' /\ RoomInv'
BY ListsStep, SongsStep, PagesStep DEF TypeInv

-----------------------------------------------------------------------------
(* Only Receive lets a connection be served, with the credentials of its   *)
(* packet; only ServeCommand runs a command, for credentials it checked.   *)
LEMMA RequestStep == RequestInv /\ CommandsAllowed /\ [Next]_vars => RequestInv' /\ CommandsAllowed'
<1> SUFFICES ASSUME RequestInv, CommandsAllowed, [Next]_vars
             PROVE  RequestInv' /\ CommandsAllowed'
  OBVIOUS
<1> USE DEF RequestInv, CommandsAllowed
<1>1. ASSUME UNCHANGED <<rbuf, headers, ran>>, pc' # "serve" \/ pc' = pc,
             pc = "close" => pc' = pc
      PROVE  RequestInv' /\ CommandsAllowed'
  BY <1>1
<1>2. CASE \/ UNCHANGED vars \/ (\E l \in Playlists : \E f \in FilesOf(l) : Land(l, f))
           \/ (\E l \in Playlists : Take(l)) \/ (\E f \in ShareFile : TakeShared(f))
           \/ SetCurrent \/ ClearCurrent
  BY <1>1, <1>2 DEF vars, thread, request, history, Land, Take, TakeShared, SetCurrent, ClearCurrent
<1>3. CASE Accept \/ Listen \/ PollTimeout \/ ServeText \/ ServeRedirect
  BY <1>1, <1>3 DEF request, history, Accept, Listen, PollTimeout, ServeText, ServeRedirect, Send
<1>4. CASE \E k \in Built : ServePage(k) \/ ListEntries(k) \/ GetSize(k)
  BY <1>1, <1>4 DEF request, history, ServePage, ListEntries, GetSize, Done, Send
<1>5. CASE (\E p \in Packet : Receive(p)) \/ ReceiveFails
  <2>1. PICK p : rbuf' = p /\ Parse(p) /\ pc = "poll" /\ ran' = ran
    BY <1>5 DEF Receive, ReceiveFails, history
  <2>2. ran = "none"
    BY <2>1
  <2>3. pc' = "serve" => p.parses /\ p.command = "GET" /\ headers' = p.auth
    BY <2>1 DEF Parse, ParseHeaders
  <2> QED BY <2>1, <2>2, <2>3
<1>6. CASE ServeCommand
  <2>1. /\ pc = "serve" /\ pc' = "close" /\ UNCHANGED <<rbuf, headers>> /\ ran = "none"
        /\ ran' = IF Allowed /\ find_command(rbuf.name) THEN rbuf.name ELSE ran
    BY <1>6 DEF ServeCommand, request
  <2>2. Allowed => rbuf.auth.user \in PowerUser /\ rbuf.auth.good
    BY <2>1 DEF Allowed, IsAccessAllowed, GetLevel, Level_PowerUser, Level_User, Level_Null
  <2> QED BY <2>1, <2>2 DEF find_command
<1>7. CASE Close
  BY <1>7 DEF Close
<1> QED
  BY <1>2, <1>3, <1>4, <1>5, <1>6, <1>7 DEF Next, Serve

(***************************************************************************)
(* A command is run only for a packet that names it and carries the        *)
(* password of an account of level 100, whatever was received before it.   *)
(***************************************************************************)
THEOREM OnlyAllowed == Spec => []CommandsAllowed
<1>1. Init => RequestInv /\ CommandsAllowed
  BY DEF Init, RequestInv, CommandsAllowed
<1> QED
  BY <1>1, RequestStep, PTL DEF Spec

-----------------------------------------------------------------------------
LEMMA NameStep == TypeInv /\ NameInv /\ PageNamesCurrent /\ [Next]_vars => NameInv' /\ PageNamesCurrent'
<1> SUFFICES ASSUME TypeInv, NameInv, PageNamesCurrent, [Next]_vars
             PROVE  NameInv' /\ PageNamesCurrent'
  OBVIOUS
<1>1. ASSUME UNCHANGED <<songfile, sent, buf, o_songname, rbuf>>, SeenNames \subseteq SeenNames',
             pc' \in Open => pc \in Open,
             pc' \in {"entries", "sizes"} <=> pc \in {"entries", "sizes"},
             pc = "close" => pc' = "close"
      PROVE  NameInv' /\ PageNamesCurrent'
  <2>1. \A k \in Built : Building(k)' = Building(k)
    BY <1>1 DEF Building
  <2>2. PageNamesCurrent'
    BY <1>1 DEF PageNamesCurrent, SeenNames
  <2>3. NameInv'
    BY <1>1, <2>1 DEF NameInv
  <2> QED BY <2>2, <2>3
<1>2. CASE \/ UNCHANGED vars \/ (\E l \in Playlists : \E f \in FilesOf(l) : Land(l, f))
           \/ (\E l \in Playlists : Take(l)) \/ (\E f \in ShareFile : TakeShared(f))
  <2>1. UNCHANGED <<songfile, sent, buf, o_songname, rbuf, seen, pc>>
    BY <1>2 DEF vars, thread, pages, request, history, Land, Take, TakeShared
  <2> QED BY <1>1, <2>1 DEF SeenNames
<1>3. CASE SetCurrent \/ ClearCurrent
  <2>1. UNCHANGED <<songfile, sent, buf, o_songname, rbuf, pc>> /\ seen \subseteq seen'
    BY <1>3 DEF SetCurrent, ClearCurrent, Becomes, thread, pages, request
  <2> QED BY <1>1, <2>1 DEF SeenNames
<1>4. CASE Listen \/ PollTimeout
  <2>1. UNCHANGED <<songfile, sent, buf, o_songname, rbuf, seen>>
    BY <1>4 DEF Listen, PollTimeout, pages, request, history
  <2> QED BY <1>1, <1>4, <2>1 DEF Listen, PollTimeout, SeenNames, Open
<1>5. CASE Accept
  <2>1. /\ UNCHANGED <<sent, buf, o_songname, rbuf>> /\ pc = "accept" /\ pc' = "poll"
        /\ songfile' = currfile /\ seen' = {currfile}
    BY <1>5 DEF Accept, pages, request
  <2>2. sent.kind = "none"
    BY <2>1 DEF NameInv
  <2>3. SeenNames' = {currfile.name}
    BY <2>1 DEF SeenNames
  <2> QED BY <2>1, <2>2, <2>3 DEF NameInv, PageNamesCurrent, Building, Page, Built
<1>6. CASE (\E p \in Packet : Receive(p)) \/ ReceiveFails
  <2>1. /\ UNCHANGED <<songfile, sent, buf, o_songname, seen>>
        /\ pc = "poll" /\ pc' \in {"serve", "close"}
    BY <1>6 DEF Receive, ReceiveFails, Parse, pages, history
  <2>2. sent.kind = "none"
    BY <2>1 DEF NameInv
  <2> QED BY <2>1, <2>2 DEF NameInv, PageNamesCurrent, Building, SeenNames, Open, Page, Built
<1>7. CASE Close
  <2>1. /\ UNCHANGED <<songfile, buf, o_songname>> /\ pc = "close" /\ pc' = "accept"
        /\ sent' = Unanswered /\ rbuf' = rbuf
    BY <1>7 DEF Close, pages, request
  <2>2. sent'.kind = "none"
    BY <2>1 DEF Unanswered, Answer
  <2> QED BY <2>1, <2>2 DEF NameInv, PageNamesCurrent, Building, Open, Page, Built
<1>8. CASE ServeCommand \/ ServeRedirect
  <2>1. /\ UNCHANGED <<songfile, buf, o_songname, seen, rbuf>> /\ pc = "serve" /\ pc' = "close"
        /\ sent'.kind \in {"redirect", "auth"}
    BY <1>8 DEF ServeCommand, ServeRedirect, Send, Answer, pages, request
  <2> QED BY <2>1 DEF NameInv, PageNamesCurrent, Building, SeenNames, Open, Page, Built
<1>9. CASE ServeText
  <2>1. /\ UNCHANGED <<songfile, buf, o_songname, seen, rbuf>> /\ pc = "serve" /\ pc' = "close"
        /\ sent'.kind = "text" /\ sent'.page.song = songfile
    BY <1>9 DEF ServeText, Send, Answer, PageOf, pages, request
  <2> QED BY <2>1 DEF NameInv, PageNamesCurrent, Building, SeenNames, Open
<1>10. ASSUME NEW k \in Built, ServePage(k) PROVE NameInv' /\ PageNamesCurrent'
  <2>1. UNCHANGED <<songfile, o_songname, seen, rbuf>> /\ pc = "serve" /\ rbuf.name = k
    BY <1>10 DEF ServePage, request
  <2>2. sent.kind = "none" /\ songfile.name \in SeenNames
    BY <2>1 DEF NameInv, Open
  <2>3. \A j \in Built : o_songname[j] \in {buf[j].song.name, NeverBuilt}
    BY <2>1 DEF NameInv, Building
  <2>4. CASE o_songname[k] = songfile.name
    <3>1. pc' = "close" /\ buf' = buf /\ sent'.page = buf[k] /\ sent'.kind = k
      BY <1>10, <2>4 DEF ServePage, Send, Answer
    <3>2. songfile.name # NeverBuilt
      BY NameAssumption, FilesTyped DEF TypeInv, SongsTyped, AnyFile
    <3>3. buf[k].song.name = songfile.name
      BY <2>3, <2>4, <3>2
    <3> QED BY <2>1, <2>2, <2>3, <3>1, <3>3 DEF NameInv, PageNamesCurrent, Building, SeenNames
  <2>5. CASE o_songname[k] # songfile.name
    <3>1. pc' = "entries" /\ buf' = [buf EXCEPT ![k] = PageOf(songfile)] /\ sent' = sent
      BY <1>10, <2>5 DEF ServePage
    <3>2. buf'[k].song = songfile /\ \A j \in Built : j # k => buf'[j] = buf[j]
      BY <3>1 DEF TypeInv, PagesTyped, PageOf
    <3> QED BY <2>1, <2>2, <2>3, <3>1, <3>2
            DEF NameInv, PageNamesCurrent, Building, SeenNames, Page, Built
  <2> QED BY <2>4, <2>5
<1>11. ASSUME NEW k \in Built, ListEntries(k) PROVE NameInv' /\ PageNamesCurrent'
  <2>1. /\ UNCHANGED <<songfile, o_songname, seen, rbuf, sent>> /\ pc = "entries"
        /\ pc' \in {"entries", "sizes"} /\ rbuf.name = k
        /\ \E e : buf' = [buf EXCEPT ![k].entries = e]
    BY <1>11 DEF ListEntries, request, history
  <2>2. \A j \in Built : buf'[j].song = buf[j].song
    BY <2>1 DEF TypeInv, PagesTyped, PageType
  <2> QED BY <2>1, <2>2 DEF NameInv, PageNamesCurrent, Building, SeenNames, Open
<1>12. ASSUME NEW k \in Built, GetSize(k) PROVE NameInv' /\ PageNamesCurrent'
  <2>1. /\ UNCHANGED <<songfile, seen, rbuf>> /\ pc = "sizes" /\ rbuf.name = k
        /\ \E n : buf' = [buf EXCEPT ![k].sizes[listno] = n]
    BY <1>12 DEF GetSize, request
  <2>2. \A j \in Built : buf'[j].song = buf[j].song
    BY <2>1 DEF TypeInv, PagesTyped, PageType
  <2>3. buf[k].song = songfile /\ songfile.name \in SeenNames /\ sent.kind = "none"
    BY <2>1 DEF NameInv, Building, Open
  <2>4. CASE listno \in Playlists
    <3>1. UNCHANGED <<o_songname, sent, pc>>
      BY <1>12, <2>4 DEF GetSize
    <3> QED BY <2>1, <2>2, <2>3, <3>1
            DEF NameInv, PageNamesCurrent, Building, SeenNames, Page, Built
  <2>5. CASE listno \notin Playlists
    <3>1. /\ o_songname' = [o_songname EXCEPT ![k] = songfile.name]
          /\ sent' = Answer(k, buf'[k]) /\ pc' = "close"
      BY <1>12, <2>5 DEF GetSize, Done, Send
    <3>2. sent'.page.song = songfile
      BY <2>2, <2>3, <3>1 DEF Answer
    <3>3. \A j \in Built : o_songname'[j] \in {buf'[j].song.name, NeverBuilt}
      BY <2>1, <2>2, <2>3, <3>1 DEF NameInv, Building, TypeInv, PagesTyped
    <3> QED BY <2>1, <2>3, <3>1, <3>2, <3>3 DEF NameInv, PageNamesCurrent, Building, SeenNames
  <2> QED BY <2>4, <2>5
<1> QED
  BY <1>2, <1>3, <1>4, <1>5, <1>6, <1>7, <1>8, <1>9, <1>10, <1>11, <1>12 DEF Next, Serve

(***************************************************************************)
(* An answer names a song that was current while its connection was open,  *)
(* also when its page was built for an earlier connection.                 *)
(***************************************************************************)
THEOREM NamesCurrent == Spec => []PageNamesCurrent
<1>1. Init => NameInv /\ PageNamesCurrent
  BY DEF Init, NameInv, PageNamesCurrent, Open, Building, Unanswered, Answer, Page, Built
<1> QED
  BY <1>1, TypeInit, TypeStep, NameStep, PTL DEF Spec

-----------------------------------------------------------------------------
(* Update keeps a list in the order of its ids, and above the songs that   *)
(* have left it.                                                           *)
LEMMA UpdateKeepsOrder ==
  ASSUME ListsTyped, QueueInv, NEW l \in Playlists
  PROVE  LET u    == Updated(l)
             next == nextfileid[l] + Len(landing[l])
         IN  /\ \A i \in DOMAIN u : u[i].list = l /\ u[i].id < next
             /\ \A i, j \in DOMAIN u : i < j => u[i].id < u[j].id
             /\ \A s \in AnySong : Past(s, l) /\ s.list = l =>
                  s.id < next /\ \A i \in DOMAIN u : s.id < u[i].id
<1> DEFINE u    == Updated(l)
           q    == queue[l]
           n    == Len(queue[l])
           m    == Len(landing[l])
           next == nextfileid[l] + m
<1>1. /\ u \in Seq(Song) /\ q \in Seq(Song) /\ n \in Nat /\ m \in Nat /\ nextfileid[l] \in Nat
      /\ Len(u) = n + m /\ DOMAIN u = 1..(n + m) /\ DOMAIN q = 1..n
      /\ \A i \in 1..n : u[i] = q[i]
      /\ \A i \in (n + 1)..(n + m) : u[i].list = l /\ u[i].id = nextfileid[l] + (i - n) - 1
  BY UpdatedIs DEF ListsTyped
<1>2. /\ \A i \in 1..n : q[i].list = l /\ q[i].id < nextfileid[l] /\ q[i].id \in Nat
      /\ \A i, j \in 1..n : i < j => q[i].id < q[j].id
  <2>1. /\ \A i \in DOMAIN q : q[i].list = l /\ q[i].id < nextfileid[l]
        /\ \A i, j \in DOMAIN q : i < j => q[i].id < q[j].id
    BY DEF QueueInv
  <2>2. \A i \in DOMAIN q : q[i] \in Song
    BY <1>1
  <2>3. \A i \in DOMAIN q : q[i].id \in Nat
    BY <2>2 DEF Song
  <2>4. DOMAIN q = 1..n
    BY <1>1
  <2> HIDE DEF q, n
  <2> QED BY <2>1, <2>3, <2>4
<1>3. ASSUME NEW s \in AnySong, Past(s, l), s.list = l
      PROVE  s.id \in Nat /\ s.id < nextfileid[l] /\ \A i \in 1..n : s.id < q[i].id
  BY <1>1, <1>3, FilesTyped DEF Past
<1> HIDE DEF u, q, n, m
<1>7. ASSUME NEW i \in 1..(n + m), i > n
      PROVE  u[i].list = l /\ u[i].id = nextfileid[l] + (i - n) - 1
  BY <1>1, <1>7
<1>4. \A i \in 1..(n + m) : u[i].list = l /\ u[i].id < next /\ u[i].id \in Nat
  <2> TAKE i \in 1..(n + m)
  <2>1. CASE i <= n
    BY <1>1, <1>2, <2>1
  <2>2. CASE i > n
    BY <1>1, <2>2
  <2> QED BY <1>1, <2>1, <2>2
<1>5. ASSUME NEW i \in 1..(n + m), NEW j \in 1..(n + m), i < j PROVE u[i].id < u[j].id
  <2>1. CASE j <= n
    BY <1>1, <1>2, <1>5, <2>1
  <2>2. CASE i <= n /\ j > n
    <3>1. u[i].id < nextfileid[l] /\ u[i].id \in Nat
      BY <1>1, <1>2, <2>2
    <3>2. u[j].id = nextfileid[l] + (j - n) - 1
      BY <1>7, <2>2
    <3> QED BY <1>1, <2>2, <3>1, <3>2
  <2>3. CASE i > n
    <3>1. u[i].id = nextfileid[l] + (i - n) - 1 /\ u[j].id = nextfileid[l] + (j - n) - 1
      BY <1>1, <1>5, <2>3
    <3> QED BY <1>1, <1>5, <3>1
  <2> QED BY <1>1, <2>1, <2>2, <2>3
<1>6. ASSUME NEW s \in AnySong, Past(s, l), s.list = l
      PROVE  s.id < next /\ \A i \in 1..(n + m) : s.id < u[i].id
  <2>1. s.id < next
    BY <1>1, <1>3, <1>6
  <2>2. ASSUME NEW i \in 1..(n + m) PROVE s.id < u[i].id
    <3>1. CASE i <= n
      BY <1>1, <1>3, <1>6, <3>1
    <3>2. CASE i > n
      <4>1. u[i].id = nextfileid[l] + (i - n) - 1
        BY <1>7, <3>2
      <4> QED BY <1>1, <1>3, <1>6, <3>2, <4>1
    <3> QED BY <1>1, <3>1, <3>2
  <2> QED BY <2>1, <2>2
<1> QED BY <1>1, <1>4, <1>5, <1>6 DEF u, n, m

(* Every step keeps the lists in order, and above the songs that left them. *)
LEMMA OrderStep == TypeInv /\ QueueInv /\ PastInv /\ [Next]_vars => QueueInv' /\ PastInv'
<1> SUFFICES ASSUME TypeInv, QueueInv, PastInv, [Next]_vars PROVE QueueInv' /\ PastInv'
  OBVIOUS
<1>1. ASSUME UNCHANGED <<queue, nextfileid>>,
             currfile' \in {currfile, fobj, songfile, NoSong},
             fobj' \in {fobj, NoSong} \/ fobj'.list = Share,
             songfile' \in {songfile, currfile}
      PROVE  QueueInv' /\ PastInv'
  <2>1. QueueInv'
    BY <1>1 DEF QueueInv
  <2>2. \A l \in Playlists : l # Share /\ NoSong.list = Share
    BY DEF Playlists, NoSong, Request, Cache, Share
  <2>3. \A l \in Playlists : Past(NoSong, l)
    BY <2>2 DEF Past
  <2>4. ASSUME NEW s \in {currfile, fobj, songfile, NoSong}, NEW l \in Playlists
        PROVE  s.list = l =>
                 s.id < nextfileid'[l] /\ \A i \in DOMAIN queue'[l] : s.id < queue'[l][i].id
    <3>1. Past(s, l)
      BY <2>3 DEF PastInv
    <3> QED BY <1>1, <3>1 DEF Past
  <2> QED BY <1>1, <2>1, <2>2, <2>4 DEF PastInv, Past
<1>2. CASE \/ UNCHANGED vars \/ (\E l \in Playlists : \E f \in FilesOf(l) : Land(l, f))
           \/ (\E f \in ShareFile : TakeShared(f)) \/ SetCurrent \/ ClearCurrent
  <2>1. /\ UNCHANGED <<queue, nextfileid, songfile>>
        /\ fobj' \in {fobj, NoSong} \/ fobj'.list = Share
        /\ currfile' \in {currfile, fobj, NoSong}
    BY <1>2 DEF vars, lists, player, thread, Land, TakeShared, SetCurrent, ClearCurrent, Becomes
  <2> QED BY <1>1, <2>1
<1>3. CASE \/ Accept \/ (\E p \in Packet : Receive(p)) \/ ReceiveFails
           \/ Listen \/ PollTimeout \/ ServeCommand \/ ServeText \/ ServeRedirect \/ Close
  <2>1. UNCHANGED <<queue, nextfileid, fobj, currfile>> /\ songfile' \in {songfile, currfile}
    BY <1>3 DEF lists, player, Accept, Receive, ReceiveFails, Listen, PollTimeout, ServeCommand,
                ServeText, ServeRedirect, Close
  <2> QED BY <1>1, <2>1
<1>4. CASE \E k \in Built : ServePage(k) \/ ListEntries(k)
  <2>1. UNCHANGED <<queue, nextfileid, fobj, currfile, songfile>>
    BY <1>4 DEF lists, player, ServePage, ListEntries
  <2> QED BY <1>1, <2>1
<1>5. ASSUME NEW l \in Playlists, NEW list \in Seq(Song), Update(l, list),
             \A i \in DOMAIN list : list[i] \in Song /\ list[i].list = l
                                    /\ list[i].id < nextfileid[l] + Len(landing[l]),
             \A i, j \in DOMAIN list : i < j => list[i].id < list[j].id
      PROVE  /\ QueueInv'
             /\ queue'[l] = list /\ nextfileid'[l] = nextfileid[l] + Len(landing[l])
             /\ \A k \in Playlists : k # l => queue'[k] = queue[k] /\ nextfileid'[k] = nextfileid[k]
  <2>1. /\ queue'[l] = list /\ nextfileid'[l] = nextfileid[l] + Len(landing[l])
        /\ \A k \in Playlists : k # l => queue'[k] = queue[k] /\ nextfileid'[k] = nextfileid[k]
    BY <1>5 DEF Update, TypeInv, ListsTyped
  <2>2. ASSUME NEW k \in Playlists
        PROVE  /\ \A i \in DOMAIN queue'[k] : queue'[k][i].list = k /\ queue'[k][i].id < nextfileid'[k]
               /\ \A i, j \in DOMAIN queue'[k] : i < j => queue'[k][i].id < queue'[k][j].id
    <3>1. CASE k = l
      BY <1>5, <2>1, <3>1
    <3>2. CASE k # l
      BY <2>1, <3>2 DEF QueueInv
    <3> QED BY <3>1, <3>2
  <2> QED BY <2>1, <2>2 DEF QueueInv
<1>6. ASSUME NEW l \in Playlists, Take(l) PROVE QueueInv' /\ PastInv'
  <2> DEFINE u == Updated(l)
             next == nextfileid[l] + Len(landing[l])
  <2>1. /\ u \in Seq(Song) /\ u # <<>> /\ fobj' = Head(u) /\ Update(l, Tail(u))
        /\ UNCHANGED <<currfile, songfile>>
    BY <1>6, UpdatedIs DEF Take, thread, TypeInv
  <2>2. /\ \A i \in DOMAIN u : u[i].list = l /\ u[i].id < next
        /\ \A i, j \in DOMAIN u : i < j => u[i].id < u[j].id
        /\ \A s \in AnySong : Past(s, l) /\ s.list = l => s.id < next /\ \A i \in DOMAIN u : s.id < u[i].id
    BY UpdateKeepsOrder DEF TypeInv
  <2> HIDE DEF u, next
  <2>3. /\ Tail(u) \in Seq(Song) /\ Len(u) \in Nat /\ Len(u) > 0
        /\ DOMAIN u = 1..Len(u) /\ DOMAIN Tail(u) = 1..(Len(u) - 1)
        /\ \A i \in DOMAIN Tail(u) : Tail(u)[i] = u[i + 1] /\ i + 1 \in DOMAIN u /\ i < i + 1
        /\ Head(u) = u[1] /\ 1 \in DOMAIN u /\ \A i \in DOMAIN Tail(u) : 1 < i + 1
    BY <2>1
  <2>4. /\ \A i \in DOMAIN Tail(u) : Tail(u)[i] \in Song /\ Tail(u)[i].list = l /\ Tail(u)[i].id < next
        /\ \A i, j \in DOMAIN Tail(u) : i < j => Tail(u)[i].id < Tail(u)[j].id
    <3>1. \A i, j \in DOMAIN Tail(u) : i < j => i + 1 < j + 1
      BY <2>3
    <3>2. \A i \in DOMAIN Tail(u) : Tail(u)[i] \in Song
      BY <2>3
    <3> QED BY <2>2, <2>3, <3>1, <3>2
  <2>5. /\ QueueInv' /\ queue'[l] = Tail(u) /\ nextfileid'[l] = next
        /\ \A k \in Playlists : k # l => queue'[k] = queue[k] /\ nextfileid'[k] = nextfileid[k]
    BY <1>5, <2>1, <2>3, <2>4 DEF next
  <2>6. ASSUME NEW s \in AnySong, NEW k \in Playlists, Past(s, k)
        PROVE  s.list = k => s.id < nextfileid'[k] /\ \A i \in DOMAIN queue'[k] : s.id < queue'[k][i].id
    <3>1. CASE k = l
      <4> SUFFICES ASSUME s.list = l PROVE s.id < next /\ \A i \in DOMAIN Tail(u) : s.id < Tail(u)[i].id
        BY <2>5, <3>1
      <4>1. s.id < next /\ \A i \in DOMAIN u : s.id < u[i].id
        BY <2>2, <2>6, <3>1
      <4> QED BY <2>3, <4>1
    <3>2. CASE k # l
      BY <2>5, <2>6, <3>2 DEF Past
    <3> QED BY <3>1, <3>2
  <2>7. ASSUME NEW k \in Playlists
        PROVE  Head(u).list = k =>
                 Head(u).id < nextfileid'[k] /\ \A i \in DOMAIN queue'[k] : Head(u).id < queue'[k][i].id
    <3>1. Head(u).list = l
      BY <2>2, <2>3
    <3>2. Head(u).id < next /\ \A i \in DOMAIN Tail(u) : Head(u).id < Tail(u)[i].id
      BY <2>2, <2>3
    <3> QED BY <2>5, <3>1, <3>2
  <2>8. \A k \in Playlists : Past(currfile, k) /\ Past(songfile, k)
    BY DEF PastInv
  <2>9. PastInv'
    BY <2>1, <2>6, <2>7, <2>8 DEF PastInv, Past, TypeInv, SongsTyped
  <2> QED BY <2>5, <2>9
<1>7. ASSUME NEW k \in Built, GetSize(k) PROVE QueueInv' /\ PastInv'
  <2>1. CASE listno \notin Playlists
    <3>1. UNCHANGED <<queue, nextfileid, fobj, currfile, songfile>>
      BY <1>7, <2>1 DEF GetSize, player
    <3> QED BY <1>1, <3>1
  <2>2. CASE listno \in Playlists
    <3> DEFINE l == listno
               u == Updated(l)
               next == nextfileid[l] + Len(landing[l])
    <3>1. /\ u \in Seq(Song) /\ Update(l, u) /\ UNCHANGED <<currfile, fobj, songfile>>
      BY <1>7, <2>2, UpdatedIs DEF GetSize, player, TypeInv
    <3>2. /\ \A i \in DOMAIN u : u[i].list = l /\ u[i].id < next
          /\ \A i, j \in DOMAIN u : i < j => u[i].id < u[j].id
          /\ \A s \in AnySong : Past(s, l) /\ s.list = l => s.id < next /\ \A i \in DOMAIN u : s.id < u[i].id
      BY <2>2, UpdateKeepsOrder DEF TypeInv
    <3> HIDE DEF u, next
    <3>3. \A i \in DOMAIN u : u[i] \in Song
      BY <3>1
    <3>4. /\ QueueInv' /\ queue'[l] = u /\ nextfileid'[l] = next
          /\ \A j \in Playlists : j # l => queue'[j] = queue[j] /\ nextfileid'[j] = nextfileid[j]
      BY <1>5, <2>2, <3>1, <3>2, <3>3 DEF next
    <3>5. ASSUME NEW s \in AnySong, NEW j \in Playlists, Past(s, j)
          PROVE  s.list = j => s.id < nextfileid'[j] /\ \A i \in DOMAIN queue'[j] : s.id < queue'[j][i].id
      <4>1. CASE j = l
        BY <3>2, <3>4, <3>5, <4>1
      <4>2. CASE j # l
        BY <3>4, <3>5, <4>2 DEF Past
      <4> QED BY <4>1, <4>2
    <3>6. \A j \in Playlists : Past(currfile, j) /\ Past(songfile, j) /\ Past(fobj, j)
      BY DEF PastInv
    <3>7. PastInv'
      BY <3>1, <3>5, <3>6 DEF PastInv, Past, TypeInv, SongsTyped
    <3> QED BY <3>4, <3>7
  <2> QED BY <2>1, <2>2
<1> QED
  BY <1>2, <1>3, <1>4, <1>6, <1>7 DEF Next, Serve

(***************************************************************************)
(* A page stays as it is, starts empty, or has the front of the list it is *)
(* at put behind the songs of the lists before.                            *)
(***************************************************************************)
PageKept(k) == buf'[k].entries = buf[k].entries /\ buf'[k].song = buf[k].song

(* What PageSkipsCurrent and PageBounded ask of one page. *)
Sound(entries, song) ==
  /\ \A i \in 1..Len(entries) : entries[i].list = song.list => entries[i].id > song.id
  /\ Len(entries) <= MaxEntries
  /\ \A i, j \in 1..Len(entries) : i < j => Before(entries[i], entries[j])

AllSound == \A k \in Built : Sound(buf[k].entries, buf[k].song)

LEMMA SoundPages == AllSound <=> PageSkipsCurrent /\ PageBounded
BY DEF AllSound, Sound, PageSkipsCurrent, PageBounded

ListingInv == FillInv /\ AllSound

LEMMA FillStep ==
  TypeInv /\ RoomInv /\ NameInv /\ QueueInv /\ PastInv /\ ListingInv /\ [Next]_vars => ListingInv'
<1> SUFFICES ASSUME TypeInv, RoomInv, NameInv, QueueInv, PastInv, ListingInv, [Next]_vars
             PROVE  ListingInv'
  OBVIOUS
<1> USE DEF ListingInv
<1>1. ASSUME \A k \in Built : PageKept(k), \A k \in Built : pc' = "entries" /\ rbuf'.name = k =>
                pc = "entries" /\ rbuf.name = k /\ listno' = listno
      PROVE  ListingInv'
  <2>1. \A k \in Built : buf'[k].entries = buf[k].entries /\ buf'[k].song = buf[k].song
    BY <1>1 DEF PageKept
  <2>2. AllSound'
    BY <2>1 DEF AllSound
  <2>3. FillInv'
    BY <1>1, <2>1 DEF FillInv
  <2> QED BY <2>2, <2>3
<1>2. CASE \/ UNCHANGED vars \/ (\E l \in Playlists : \E f \in FilesOf(l) : Land(l, f))
           \/ (\E l \in Playlists : Take(l)) \/ (\E f \in ShareFile : TakeShared(f))
           \/ SetCurrent \/ ClearCurrent
  <2>1. UNCHANGED <<buf, pc, rbuf, listno>>
    BY <1>2 DEF vars, thread, pages, request, Land, Take, TakeShared, SetCurrent, ClearCurrent
  <2> QED BY <1>1, <2>1 DEF PageKept
<1>3. CASE \/ Accept \/ (\E p \in Packet : Receive(p)) \/ ReceiveFails
           \/ Listen \/ PollTimeout \/ ServeCommand \/ ServeText \/ ServeRedirect \/ Close
  <2>1. buf' = buf /\ pc' # "entries"
    BY <1>3 DEF pages, Accept, Receive, ReceiveFails, Parse, Listen, PollTimeout, ServeCommand,
                ServeText, ServeRedirect, Close, Send
  <2> QED BY <1>1, <2>1 DEF PageKept
<1>4. ASSUME NEW k \in Built, ServePage(k) PROVE ListingInv'
  <2>1. CASE o_songname[k] = songfile.name
    BY <1>1, <1>4, <2>1 DEF ServePage, Send, PageKept
  <2>2. CASE o_songname[k] # songfile.name
    <3>1. /\ buf' = [buf EXCEPT ![k] = PageOf(songfile)] /\ pc = "serve" /\ rbuf' = rbuf /\ rbuf.name = k
      BY <1>4, <2>2 DEF ServePage, request
    <3>2. /\ Len(buf'[k].entries) = 0 /\ DOMAIN buf'[k].entries = {}
          /\ \A j \in Built : j # k => buf'[j] = buf[j]
      BY <3>1 DEF PageOf, TypeInv, PagesTyped
    <3>3. FillInv'
      BY <3>1, <3>2 DEF FillInv
    <3>4. Sound(buf'[k].entries, buf'[k].song)
      BY <3>2, BoundAssumption DEF Sound
    <3>5. AllSound'
      BY <3>2, <3>4 DEF AllSound
    <3> QED BY <3>3, <3>5
  <2> QED BY <2>1, <2>2
<1>5. ASSUME NEW k \in Built, ListEntries(k) PROVE ListingInv'
  <2> DEFINE old  == buf[k].entries
             more == GetEntries(listno, Left(k))
             got  == old \o more
             n    == Len(old)
             m    == Len(more)
  <2>1. Left(k) \in Nat /\ old \in Seq(Song) /\ n \in Nat /\ n <= MaxEntries
    BY Filled DEF TypeInv, RoomInv
  <2>2. /\ more \in Seq(Song) /\ m \in Nat /\ m <= Left(k)
        /\ \A i \in 1..m : listno \in Playlists /\ i \in DOMAIN queue[listno] /\ more[i] = queue[listno][i]
    BY <2>1, EntriesAre DEF TypeInv, PagesTyped
  <2>3. /\ pc = "entries" /\ rbuf.name = k /\ rbuf' = rbuf /\ buf[k].song = songfile
        /\ songfile \in AnySong /\ listno \in Lists
    BY <1>5 DEF ListEntries, request, NameInv, Building, TypeInv, SongsTyped, PagesTyped
  <2>4. /\ buf' = [buf EXCEPT ![k].entries = got]
        /\ (pc' = "entries" => listno' = listno + 1)
    <3>1. CASE k = "xml" /\ More(got)
      BY <1>5, <3>1 DEF ListEntries, More
    <3>2. CASE ~(k = "xml" /\ More(got))
      BY <1>5, <3>2 DEF ListEntries
    <3> QED BY <3>1, <3>2
  <2>5. \A i \in 1..m : more[i].list = listno /\ more[i].id \in Nat /\ listno \in Playlists
    <3>1. \A i \in 1..m : more[i] \in Song
      BY <2>2
    <3>2. \A i \in 1..m : more[i].list = listno /\ listno \in Playlists
      BY <2>2 DEF QueueInv
    <3> QED BY <3>1, <3>2 DEF Song
  <2>6. \A i, j \in 1..m : i < j => more[i].id < more[j].id
    BY <2>2 DEF QueueInv
  <2>7. \A i \in 1..m : songfile.list = listno => more[i].id > songfile.id
    <3> SUFFICES ASSUME NEW i \in 1..m, songfile.list = listno PROVE more[i].id > songfile.id
      OBVIOUS
    <3>1. Past(songfile, listno)
      BY <2>2 DEF PastInv
    <3>2. songfile.id < more[i].id
      BY <2>2, <3>1 DEF Past
    <3> QED BY <2>3, <2>5, <3>2, FilesTyped
  <2>8. /\ \A i \in 1..n : old[i].list \in Playlists /\ old[i].list < listno
        /\ \A i \in 1..n : old[i].list = songfile.list => old[i].id > songfile.id
        /\ \A i, j \in 1..n : i < j => Before(old[i], old[j])
    <3>1. DOMAIN old = 1..n
      BY <2>1
    <3>2. Sound(old, songfile)
      BY <2>3 DEF AllSound
    <3> QED BY <2>3, <3>1, <3>2 DEF FillInv, Sound
  <2>9. /\ got \in Seq(Song) /\ Len(got) = n + m /\ DOMAIN got = 1..(n + m)
        /\ \A i \in 1..(n + m) : got[i] = IF i <= n THEN old[i] ELSE more[i - n]
    BY <2>1, <2>2, ConcatProperties
  <2>10. Len(got) <= MaxEntries
    <3>1. Left(k) = MaxEntries - n
      BY DEF Left
    <3> HIDE DEF old, more, got, n, m
    <3> QED BY <2>1, <2>2, <2>9, <3>1, BoundAssumption
  <2>11. /\ buf'[k].entries = got /\ buf'[k].song = songfile
         /\ \A j \in Built : j # k => buf'[j] = buf[j]
    BY <2>3, <2>4 DEF TypeInv, PagesTyped, PageType
  <2> HIDE DEF old, more, got, n, m
  <2>12. ASSUME NEW i \in 1..(n + m), i <= n
         PROVE  i \in 1..n /\ got[i] = old[i]
    BY <2>1, <2>2, <2>9, <2>12
  <2>13. ASSUME NEW i \in 1..(n + m), i > n
         PROVE  i - n \in 1..m /\ got[i] = more[i - n]
    BY <2>1, <2>2, <2>9, <2>13
  <2>14. ASSUME NEW i \in 1..(n + m)
         PROVE  /\ got[i].list \in Playlists /\ got[i].list < listno + 1
                /\ got[i].list = songfile.list => got[i].id > songfile.id
    <3>1. CASE i <= n
      BY <2>3, <2>8, <2>12, <3>1 DEF Lists, Playlists, Request, Cache, Share
    <3>2. CASE i > n
      BY <2>3, <2>5, <2>7, <2>13, <3>2 DEF Lists, Playlists, Request, Cache, Share
    <3> QED BY <2>1, <2>2, <3>1, <3>2
  <2>15. ASSUME NEW i \in 1..(n + m), NEW j \in 1..(n + m), i < j
         PROVE  Before(got[i], got[j])
    <3>1. CASE j <= n
      BY <2>1, <2>2, <2>8, <2>12, <2>15, <3>1
    <3>2. CASE i <= n /\ j > n
      BY <2>5, <2>8, <2>12, <2>13, <3>2 DEF Before
    <3>3. CASE i > n
      <4>1. i - n \in 1..m /\ j - n \in 1..m /\ i - n < j - n /\ got[i] = more[i - n] /\ got[j] = more[j - n]
        BY <2>1, <2>2, <2>13, <2>15, <3>3
      <4> QED BY <2>5, <2>6, <4>1 DEF Before
    <3> QED BY <2>1, <2>2, <3>1, <3>2, <3>3
  <2>16. FillInv'
    <3> SUFFICES ASSUME NEW j \in Built
                 PROVE  /\ \A i \in DOMAIN buf'[j].entries : buf'[j].entries[i].list \in Playlists
                        /\ pc' = "entries" /\ rbuf'.name = j =>
                             \A i \in DOMAIN buf'[j].entries : buf'[j].entries[i].list < listno'
      BY DEF FillInv
    <3>1. CASE j = k
      BY <2>4, <2>9, <2>11, <2>14, <3>1
    <3>2. CASE j # k
      BY <2>3, <2>11, <3>2 DEF FillInv
    <3> QED BY <3>1, <3>2
  <2>17. Sound(got, songfile)
    BY <2>9, <2>10, <2>14, <2>15 DEF Sound
  <2>18. AllSound'
    BY <2>11, <2>17 DEF AllSound
  <2> QED BY <2>16, <2>18
<1>6. ASSUME NEW k \in Built, GetSize(k) PROVE ListingInv'
  <2>1. /\ pc = "sizes" /\ pc' # "entries"
        /\ \E n : buf' = [buf EXCEPT ![k].sizes[listno] = n]
    BY <1>6 DEF GetSize, Done, Send
  <2>2. \A j \in Built : buf'[j].entries = buf[j].entries /\ buf'[j].song = buf[j].song
    BY <2>1 DEF TypeInv, PagesTyped, PageType
  <2> QED BY <1>1, <2>1, <2>2 DEF PageKept
<1> QED
  BY <1>2, <1>3, <1>4, <1>5, <1>6 DEF Next, Serve

LEMMA PageInit == Init => QueueInv /\ PastInv /\ ListingInv
<1> SUFFICES ASSUME Init PROVE QueueInv /\ PastInv /\ ListingInv
  OBVIOUS
<1>1. /\ \A l \in Playlists : DOMAIN queue[l] = {} /\ l # Share
      /\ currfile.list = Share /\ fobj.list = Share /\ songfile.list = Share
  BY DEF Init, NoSong, Playlists, Request, Cache, Share
<1>2. /\ \A k \in Built : DOMAIN buf[k].entries = {} /\ Len(buf[k].entries) = 0
      /\ pc = "listen"
  BY DEF Init, NoPage, PageOf
<1>3. QueueInv /\ PastInv
  BY <1>1 DEF QueueInv, PastInv, Past
<1>4. FillInv /\ AllSound
  BY <1>2, BoundAssumption DEF FillInv, AllSound, Sound
<1> QED BY <1>3, <1>4 DEF ListingInv

LEMMA NameInit == Init => NameInv /\ PageNamesCurrent
BY DEF Init, NameInv, PageNamesCurrent, Open, Building, Unanswered, Answer, Page, Built

LEMMA Listing == Spec => []ListingInv
BY TypeInit, TypeStep, NameInit, NameStep, PageInit, OrderStep, FillStep, PTL DEF Spec

(***************************************************************************)
(* A page never lists the song it says is playing, nor one that left its   *)
(* list before it, while the player takes songs from the lists.            *)
(***************************************************************************)
THEOREM SkipsCurrent == Spec => []PageSkipsCurrent
<1>1. ListingInv => PageSkipsCurrent
  BY SoundPages DEF ListingInv
<1> QED BY <1>1, Listing, PTL

(***************************************************************************)
(* A page lists no more than MaxEntries songs, in the order in which the   *)
(* player will take them.                                                  *)
(***************************************************************************)
THEOREM Bounded == Spec => []PageBounded
<1>1. ListingInv => PageBounded
  BY SoundPages DEF ListingInv
<1> QED BY <1>1, Listing, PTL

-----------------------------------------------------------------------------
(***************************************************************************)
(* The rest of the types: what the thread and the options hold, and how    *)
(* many songs there can be.                                                *)
(***************************************************************************)
RequestTyped ==
  /\ rbuf \in Packet
  /\ headers \in Credential \cup {NoCredential}
  /\ http_locked \in BOOLEAN
  /\ HTTP_REDIRECT \in BOOLEAN
  /\ accepted \in 0..MaxConnections

AnswerTyped ==
  /\ textlength \in AnyFile \cup {NoFile}
  /\ sent.kind \in {"none", "redirect", "auth"} \cup Page
  /\ sent.page \in PageType
  /\ seen \in SUBSET AnySong
  /\ ran \in UserCommand \cup {"none"}

Fits(queues, lands, next, arrivals, files) ==
  queues + lands <= arrivals + files /\ next + lands <= arrivals + files

FitsAt(l) ==
  Fits(Len(queue[l]), Len(landing[l]), nextfileid[l], landed, Cardinality(FilesOf(l)))

CountInv == landed \in 0..MaxLandings /\ \A l \in Playlists : FitsAt(l)

(* A file that lands is an arrival; an Update takes all that have landed.  *)
LEMMA FitsKept ==
  ASSUME NEW q \in Nat, NEW w \in Nat, NEW n \in Nat, NEW d \in Nat, NEW c \in Nat,
         Fits(q, w, n, d, c)
  PROVE  /\ Fits(q, w, n, d + 1, c) /\ Fits(q, w + 1, n, d + 1, c)
         /\ \A p \in Nat : p <= q + w => Fits(p, 0, n + w, d, c)
BY DEF Fits

LEMMA PacketIs ==
  /\ Garbage \in Packet
  /\ \A q \in Packet : q.auth \in Credential \cup {NoCredential}
<1>1. Garbage \in Packet
  BY DEF Packet
<1>2. ASSUME NEW q \in Packet PROVE q.auth \in Credential \cup {NoCredential}
  <2>1. q = Garbage \/ q.auth \in {NoCredential} \/ q.auth \in Credential \cup {NoCredential}
    BY DEF Packet
  <2> QED BY <2>1 DEF Garbage
<1> QED BY <1>1, <1>2

LEMMA RequestTypedStep == RequestTyped /\ [Next]_vars => RequestTyped'
<1> SUFFICES ASSUME RequestTyped, [Next]_vars PROVE RequestTyped'
  OBVIOUS
<1> USE DEF RequestTyped
<1>1. ASSUME UNCHANGED <<request, options, accepted>> PROVE RequestTyped'
  BY <1>1 DEF request, options
<1>2. CASE \/ UNCHANGED vars \/ (\E l \in Playlists : \E f \in FilesOf(l) : Land(l, f))
           \/ (\E l \in Playlists : Take(l)) \/ (\E f \in ShareFile : TakeShared(f))
           \/ SetCurrent \/ ClearCurrent
  BY <1>1, <1>2 DEF vars, thread, Land, Take, TakeShared, SetCurrent, ClearCurrent
<1>3. CASE \/ Listen \/ PollTimeout \/ ServeCommand \/ ServeText \/ ServeRedirect \/ Close
           \/ (\E k \in Built : ServePage(k) \/ ListEntries(k) \/ GetSize(k))
  BY <1>1, <1>3 DEF Listen, PollTimeout, ServeCommand, ServeText, ServeRedirect, Close,
                    ServePage, ListEntries, GetSize
<1>4. CASE Accept
  BY <1>4, BoundAssumption DEF Accept, options, request
<1>5. CASE (\E q \in Packet : Receive(q)) \/ ReceiveFails
  <2>1. PICK q \in Packet : rbuf' = q /\ Parse(q) /\ UNCHANGED <<options, accepted>>
    BY <1>5 DEF Receive, ReceiveFails
  <2>2. headers' \in Credential \cup {NoCredential}
    BY <2>1, PacketIs DEF Parse, ParseHeaders
  <2> QED BY <2>1, <2>2 DEF options
<1> QED BY <1>2, <1>3, <1>4, <1>5 DEF Next, Serve

LEMMA AnswersAre ==
  /\ \A k, q : Answer(k, q).kind = k /\ Answer(k, q).page = q
  /\ Unanswered.kind = "none" /\ Unanswered.page = NoPage
BY DEF Answer, Unanswered

LEMMA AnswerTypedStep ==
  TypeInv /\ PagesTyped' /\ AnswerTyped /\ [Next]_vars => AnswerTyped'
<1> SUFFICES ASSUME TypeInv, PagesTyped', AnswerTyped, [Next]_vars PROVE AnswerTyped'
  OBVIOUS
<1>0. ListsTyped /\ SongsTyped /\ PagesTyped
  BY DEF TypeInv
<1>a. ASSUME NEW k \in {"none", "redirect", "auth"} \cup Page, NEW q \in PageType,
             sent' = Answer(k, q), UNCHANGED seen,
             ran' \in UserCommand \cup {"none"}, textlength' \in AnyFile \cup {NoFile}
      PROVE  AnswerTyped'
  BY <1>a, AnswersAre DEF AnswerTyped
<1>1. CASE \/ UNCHANGED vars \/ (\E l \in Playlists : \E f \in FilesOf(l) : Land(l, f))
           \/ (\E l \in Playlists : Take(l)) \/ (\E f \in ShareFile : TakeShared(f))
           \/ Listen \/ PollTimeout \/ (\E q \in Packet : Receive(q)) \/ ReceiveFails
           \/ (\E k \in Built : ListEntries(k))
  BY <1>1 DEF AnswerTyped, vars, thread, history, Land, Take, TakeShared, Listen, PollTimeout,
              Receive, ReceiveFails, ListEntries
<1>2. CASE SetCurrent \/ ClearCurrent
  <2>1. seen' \in SUBSET AnySong
    BY <1>0, <1>2, FilesTyped DEF SetCurrent, ClearCurrent, Becomes, SongsTyped, AnswerTyped
  <2> QED BY <1>2, <2>1 DEF AnswerTyped, SetCurrent, ClearCurrent, thread
<1>3. CASE Accept
  <2>1. seen' \in SUBSET AnySong
    BY <1>0, <1>3 DEF Accept, SongsTyped
  <2> QED BY <1>3, <2>1 DEF AnswerTyped, Accept
<1>4. CASE ServeCommand
  <2>1. /\ \E k \in {"redirect", "auth"} : sent' = Answer(k, NoPage)
        /\ ran' \in UserCommand \cup {"none"} /\ UNCHANGED <<textlength, seen>>
    BY <1>4 DEF ServeCommand, find_command, AnswerTyped
  <2> QED BY <1>a, <2>1, PagesAre DEF AnswerTyped
<1>5. CASE ServeText
  <2>1. /\ sent' = Answer("text", PageOf(songfile)) /\ UNCHANGED <<seen, ran>>
        /\ CreatePacket(songfile.name)
    BY <1>5 DEF ServeText, Send
  <2>2. songfile.name \in AnyFile \cup {NoFile} /\ PageOf(songfile) \in PageType
    BY <1>0, FilesTyped, PagesAre DEF SongsTyped
  <2>3. textlength' \in AnyFile \cup {NoFile}
    BY <2>1, <2>2 DEF CreatePacket, AnswerTyped
  <2> QED BY <1>a, <2>1, <2>2, <2>3 DEF AnswerTyped, Page
<1>6. CASE ServeRedirect
  <2>1. sent' = Answer("redirect", NoPage) /\ UNCHANGED <<seen, ran, textlength>>
    BY <1>6 DEF ServeRedirect, Send
  <2> QED BY <1>a, <2>1, PagesAre DEF AnswerTyped
<1>7. ASSUME NEW k \in Built, ServePage(k) PROVE AnswerTyped'
  <2>1. UNCHANGED <<seen, ran, textlength>> /\ (sent' = sent \/ sent' = Answer(k, buf[k]))
    BY <1>7 DEF ServePage, Send
  <2>2. buf[k] \in PageType /\ k \in Page
    BY <1>0 DEF PagesTyped, Page
  <2>3. CASE sent' = sent
    BY <2>1, <2>3 DEF AnswerTyped
  <2>4. CASE sent' = Answer(k, buf[k])
    BY <1>a, <2>1, <2>2, <2>4 DEF AnswerTyped
  <2> QED BY <2>1, <2>3, <2>4
<1>8. ASSUME NEW k \in Built, GetSize(k) PROVE AnswerTyped'
  <2>1. UNCHANGED <<seen, ran, textlength>> /\ (sent' = sent \/ sent' = Answer(k, buf'[k]))
    BY <1>8 DEF GetSize, Done, Send
  <2>2. buf'[k] \in PageType /\ k \in Page
    BY DEF PagesTyped, Page
  <2>3. CASE sent' = sent
    BY <2>1, <2>3 DEF AnswerTyped
  <2>4. CASE sent' = Answer(k, buf'[k])
    BY <1>a, <2>1, <2>2, <2>4 DEF AnswerTyped
  <2> QED BY <2>1, <2>3, <2>4
<1>9. CASE Close
  <2>1. /\ sent' = Unanswered /\ seen' = {} /\ ran' = "none" /\ UNCHANGED textlength
    BY <1>9 DEF Close
  <2> QED BY <2>1, AnswersAre, PagesAre DEF AnswerTyped
<1> QED
  BY <1>1, <1>2, <1>3, <1>4, <1>5, <1>6, <1>7, <1>8, <1>9 DEF Next, Serve

LEMMA CountStep ==
  ListsTyped /\ CountInv /\ [Next]_vars => CountInv'
<1> SUFFICES ASSUME ListsTyped, CountInv, [Next]_vars PROVE CountInv'
  OBVIOUS
<1>0. /\ MaxLandings \in Nat /\ landed \in Nat
      /\ \A l \in Playlists :
           /\ Len(queue[l]) \in Nat /\ Len(landing[l]) \in Nat /\ nextfileid[l] \in Nat
           /\ Cardinality(FilesOf(l)) \in Nat
  <2>1. \A l \in Playlists : Cardinality(FilesOf(l)) \in Nat
    BY FinitelyMany, FS_CardinalityType DEF FilesOf
  <2> QED BY <2>1, BoundAssumption DEF CountInv, ListsTyped
<1>1. CASE UNCHANGED lists
  BY <1>1, Zenon DEF lists, CountInv, FitsAt
<1>2. ASSUME NEW l \in Playlists, NEW f \in FilesOf(l), Land(l, f) PROVE CountInv'
  <2>1. /\ landing' = [landing EXCEPT ![l] = Append(landing[l], f)]
        /\ landed < MaxLandings /\ landed' = landed + 1
        /\ UNCHANGED <<queue, nextfileid>>
    BY <1>2 DEF Land
  <2>2. /\ Len(landing'[l]) = Len(landing[l]) + 1
        /\ \A k \in Playlists : k # l => landing'[k] = landing[k]
    BY <2>1 DEF ListsTyped
  <2>3. landed' \in 0..MaxLandings
    BY <1>0, <2>1
  <2>4. ASSUME NEW k \in Playlists
        PROVE  FitsAt(k)'
    <3>1. Fits(Len(queue[k]), Len(landing[k]), nextfileid[k], landed, Cardinality(FilesOf(k)))
      BY DEF CountInv, FitsAt
    <3>2. Len(landing'[k]) = Len(landing[k]) \/ Len(landing'[k]) = Len(landing[k]) + 1
      BY <2>2
    <3>3. landed' = landed + 1 /\ queue'[k] = queue[k] /\ nextfileid'[k] = nextfileid[k]
      BY <2>1
    <3>4. /\ Len(queue[k]) \in Nat /\ Len(landing[k]) \in Nat /\ nextfileid[k] \in Nat
          /\ Cardinality(FilesOf(k)) \in Nat /\ landed \in Nat
      BY <1>0
    <3>5. Fits(Len(queue[k]), Len(landing'[k]), nextfileid[k], landed + 1, Cardinality(FilesOf(k)))
      BY <3>1, <3>2, <3>4, FitsKept, Zenon
    <3> QED BY <3>3, <3>5, Zenon DEF FitsAt
  <2> QED BY <2>3, <2>4 DEF CountInv
<1>3. ASSUME NEW l \in Playlists, NEW list, Update(l, list), UNCHANGED landed,
             Len(list) <= Len(queue[l]) + Len(landing[l])
      PROVE  CountInv'
  <2>1. /\ queue'[l] = list /\ landing'[l] = <<>>
        /\ nextfileid'[l] = nextfileid[l] + Len(landing[l])
        /\ \A k \in Playlists : k # l => /\ queue'[k] = queue[k] /\ landing'[k] = landing[k]
                                         /\ nextfileid'[k] = nextfileid[k]
    BY <1>3 DEF Update, ListsTyped
  <2>2. Len(landing'[l]) = 0
    BY <2>1
  <2>3. ASSUME NEW k \in Playlists, Len(list) \in Nat
        PROVE  FitsAt(k)'
    <3>1. CASE k = l
      <4>1. Fits(Len(queue[l]), Len(landing[l]), nextfileid[l], landed, Cardinality(FilesOf(l)))
        BY DEF CountInv, FitsAt
      <4>2. /\ Len(queue[l]) \in Nat /\ Len(landing[l]) \in Nat /\ nextfileid[l] \in Nat
            /\ Cardinality(FilesOf(l)) \in Nat /\ landed \in Nat
        BY <1>0
      <4>3. /\ queue'[k] = list /\ Len(landing'[k]) = 0
            /\ nextfileid'[k] = nextfileid[l] + Len(landing[l])
        BY <2>1, <2>2, <3>1
      <4>4. Fits(Len(list), 0, nextfileid[l] + Len(landing[l]), landed, Cardinality(FilesOf(l)))
        BY <1>3, <2>3, <4>1, <4>2, FitsKept, Zenon
      <4> QED BY <1>3, <3>1, <4>3, <4>4, Zenon DEF FitsAt
    <3>2. CASE k # l
      BY <1>3, <2>1, <3>2, Zenon DEF CountInv, FitsAt
    <3> QED BY <3>1, <3>2
  <2>4. ListsTyped'
    BY ListsStep
  <2>5. Len(list) \in Nat
    BY <2>1, <2>4 DEF ListsTyped
  <2> QED BY <1>3, <2>3, <2>5 DEF CountInv
<1>4. ASSUME NEW l \in Playlists, Take(l) PROVE CountInv'
  <2>0. Updated(l) \in Seq(Song) /\ Updated(l) # <<>>
    BY <1>4, UpdatedIs DEF Take
  <2>1. Len(Updated(l)) = Len(queue[l]) + Len(landing[l])
    BY UpdatedIs, Zenon
  <2>2. Len(Tail(Updated(l))) = Len(Updated(l)) - 1
    BY <2>0, HeadTailProperties
  <2>3. Len(Updated(l)) \in Nat
    BY <2>0
  <2>4. Len(Tail(Updated(l))) <= Len(Updated(l))
    BY <2>2, <2>3
  <2>5. Len(Tail(Updated(l))) <= Len(queue[l]) + Len(landing[l])
    BY <2>1, <2>4, Zenon
  <2> QED BY <1>3, <1>4, <2>5 DEF Take
<1>5. ASSUME NEW k \in Built, GetSize(k) PROVE CountInv'
  <2>1. CASE listno \in Playlists
    <3>1. Len(Updated(listno)) = Len(queue[listno]) + Len(landing[listno])
      BY <2>1, UpdatedIs, Zenon
    <3>2. Len(queue[listno]) \in Nat /\ Len(landing[listno]) \in Nat
      BY <1>0, <2>1
    <3>3. Len(Updated(listno)) <= Len(queue[listno]) + Len(landing[listno])
      BY <3>1, <3>2
    <3> QED BY <1>3, <1>5, <2>1, <3>3 DEF GetSize
  <2>2. CASE listno \notin Playlists
    BY <1>1, <1>5, <2>2 DEF GetSize, lists
  <2> QED BY <2>1, <2>2
<1>6. CASE UNCHANGED vars \/ (\E f \in ShareFile : TakeShared(f)) \/ SetCurrent \/ ClearCurrent \/ Accept
           \/ (\E q \in Packet : Receive(q)) \/ ReceiveFails
           \/ Listen \/ PollTimeout \/ ServeCommand \/ ServeText \/ ServeRedirect \/ Close
           \/ (\E k \in Built : ServePage(k) \/ ListEntries(k))
  BY <1>1, <1>6 DEF vars, TakeShared, SetCurrent, ClearCurrent, Accept, Receive, ReceiveFails,
                    Listen, PollTimeout, ServeCommand, ServeText, ServeRedirect, Close, ServePage,
                    ListEntries
<1> QED
  BY <1>2, <1>4, <1>5, <1>6 DEF Next, Serve

LEMMA RestInit == Init => RequestTyped /\ AnswerTyped /\ CountInv
<1> SUFFICES ASSUME Init PROVE RequestTyped /\ AnswerTyped /\ CountInv
  OBVIOUS
<1>1. RequestTyped
  BY PacketIs, BoundAssumption DEF Init, RequestTyped
<1>2. AnswerTyped
  <2>1. /\ textlength = NoFile /\ sent = Unanswered /\ seen = {} /\ ran = "none"
    BY DEF Init
  <2> QED BY <2>1, AnswersAre, PagesAre DEF AnswerTyped
<1>3. CountInv
  <2>1. landed = 0 /\ MaxLandings \in Nat
    BY BoundAssumption DEF Init
  <2>2. ASSUME NEW l \in Playlists
        PROVE  Len(queue[l]) = 0 /\ nextfileid[l] = 0 /\ Len(landing[l]) = Cardinality(FilesOf(l))
               /\ Cardinality(FilesOf(l)) \in Nat
    <3>1. Cardinality(FilesOf(l)) \in Nat
      BY FinitelyMany, FS_CardinalityType DEF FilesOf
    <3>2. landing[l] \in [1..Cardinality(FilesOf(l)) -> FilesOf(l)]
      BY DEF Init, SetToSeqs
    <3>3. queue[l] = <<>> /\ nextfileid[l] = 0
      BY DEF Init
    <3> QED BY <3>1, <3>2, <3>3
  <2>3. ASSUME NEW l \in Playlists
        PROVE  FitsAt(l)
    <3>1. \A c \in Nat : Fits(0, c, 0, 0, c)
      BY DEF Fits
    <3> QED BY <2>1, <2>2, <3>1, Zenon DEF FitsAt
  <2>4. landed \in 0..MaxLandings
    BY <2>1
  <2> QED BY <2>3, <2>4 DEF CountInv
<1> QED BY <1>1, <1>2, <1>3

(***************************************************************************)
(* Every reachable state is well typed, and there are no more songs in a   *)
(* list than there were files and arrivals: an Update by a page takes no   *)
(* file that the player's takes, too.                                      *)
(***************************************************************************)
THEOREM TypeCorrect == Spec => []TypeOK
<1>1. Init => TypeInv /\ RoomInv /\ RequestTyped /\ AnswerTyped /\ CountInv
  BY TypeInit, RestInit
<1>2. TypeInv /\ RoomInv /\ RequestTyped /\ AnswerTyped /\ CountInv /\ [Next]_vars
        => TypeInv' /\ RoomInv' /\ RequestTyped' /\ AnswerTyped' /\ CountInv'
  BY TypeStep, RequestTypedStep, AnswerTypedStep, CountStep DEF TypeInv
<1>3. TypeInv /\ RequestTyped /\ AnswerTyped /\ CountInv => TypeOK
  <2> SUFFICES ASSUME TypeInv, RequestTyped, AnswerTyped, CountInv PROVE TypeOK
    OBVIOUS
  <2>1. \A l \in Playlists : queue[l] \in Seq(Song) /\ landing[l] \in Seq(FilesOf(l))
    BY DEF TypeInv, ListsTyped
  <2>2. /\ currfile \in AnySong /\ fobj \in AnySong /\ songfile \in AnySong
        /\ pc \in {"listen", "accept", "poll", "serve", "entries", "sizes", "close", "ended"}
        /\ listno \in Lists
    BY DEF TypeInv, SongsTyped, PagesTyped, Open
  <2>3. \A k \in Built : /\ buf[k] \in PageType
                         /\ o_songname[k] \in {NeverBuilt, NoFile} \cup RequestFile \cup CacheFile
                                              \cup ShareFile
    BY DEF TypeInv, PagesTyped, AnyFile
  <2>4. textlength \in RequestFile \cup CacheFile \cup ShareFile \cup {NoFile}
    BY DEF AnswerTyped, AnyFile
  <2> QED BY <2>1, <2>2, <2>3, <2>4, Zenon DEF RequestTyped, AnswerTyped, CountInv, FitsAt, Fits,
                                                       TypeOK
<1> QED BY <1>1, <1>2, <1>3, PTL DEF Spec
=============================================================================
