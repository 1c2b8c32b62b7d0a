------------------------------ MODULE HttpThread ------------------------------
(***************************************************************************)
(* The HTTP thread of the netdj daemon (http_thread in                     *)
(* src/netdj/src/main.cc, with HTTP.cc and AccessConf.cc): one thread that *)
(* takes one connection at a time, copies the current song, waits up to a  *)
(* second for a request, and answers it from objects it uses over and over *)
(* again: the parsed request, the page it built last, the packet it sent   *)
(* last.  Meanwhile the player thread takes songs from the lists and       *)
(* changes the current song, and files land in the directories.            *)
(*                                                                         *)
(* A page is its content: the song it says is playing, the songs it lists  *)
(* and the sizes of the lists; its layout is left out.  The thread runs    *)
(* in between other threads only where it takes a lock: currentsong.Get,   *)
(* and each GetEntries and GetSize of a page, are steps of their own.      *)
(* The player and the directories are reduced to what a page shows of      *)
(* them: DaemonPlayer has the threads that play and what the commands do   *)
(* to them, Directory has the scan.                                        *)
(***************************************************************************)
EXTENDS Integers, Sequences, FiniteSets, SequencesExt

CONSTANTS
  RequestFile,    (* Names of files that may appear in REQUEST_DIR.        *)
  CacheFile,      (* Names of files that may appear in CACHE_DIR.          *)
  ShareFile,      (* Names listed in the share list.                       *)
  NoFile,         (* The empty name of a default-constructed File.         *)
  UserCommand,    (* Commands of commands[] marked userfunc: start, next,  *)
                  (* stop.                                                 *)
  OtherCommand,   (* The rest of commands[], and names that are not there. *)
  PowerUser,      (* Accounts of level 100 or more.                        *)
  PlainUser,      (* Accounts of a lower level.                            *)
  MaxEntries,     (* Entries of a page: 10 in the code.                    *)
  MaxLandings,    (* Arrivals of files. Bounds the model.                  *)
  MaxConnections  (* Connections of clients. Bounds the model.             *)

ASSUME FileAssumption ==
  /\ RequestFile \cap CacheFile = {}
  /\ (RequestFile \cup CacheFile) \cap ShareFile = {}
  /\ NoFile \notin RequestFile \cup CacheFile \cup ShareFile

ASSUME FinitelyMany == IsFiniteSet(RequestFile) /\ IsFiniteSet(CacheFile) /\ IsFiniteSet(ShareFile)

ASSUME UserAssumption == PowerUser \cap PlainUser = {}

ASSUME BoundAssumption ==
  /\ MaxEntries \in Nat \ {0}
  /\ MaxLandings \in Nat
  /\ MaxConnections \in Nat

(***************************************************************************)
(* lists[] = {&request, &cache, &share}, of which the first two are play   *)
(* lists.                                                                  *)
(***************************************************************************)
Request == 0
Cache   == 1
Share   == 2
Lists   == {Request, Cache, Share}
Playlists == {Request, Cache}

FilesOf(l) ==
  IF l = Request THEN RequestFile ELSE IF l = Cache THEN CacheFile ELSE ShareFile

Song   == [list : Lists, name : RequestFile \cup CacheFile \cup ShareFile, id : Nat]
NoSong == [list |-> Share, name |-> NoFile, id |-> 0]

(***************************************************************************)
(* A request as HTTPRequest::Parse reads it: its command, the name of its  *)
(* URI ("/cgi-bin/" and a command, or a page) and the credentials of a     *)
(* Basic Authorization header, if it has one; those sent for a page, or    *)
(* with a command that is unknown or not GET, could be any.  Garbage is    *)
(* what does not match comreg, or a connection closed without a word: it   *)
(* does not parse.                                                         *)
(***************************************************************************)
Built        == {"xml", "html"}
Page         == {"text"} \cup Built
Credential   == [user : PowerUser \cup PlainUser, good : BOOLEAN]
NoCredential == [user |-> NoFile, good |-> FALSE]

Garbage == [parses |-> FALSE, command |-> "GET", name |-> "text", auth |-> NoCredential]
Packet ==
  {Garbage}
  \cup [parses : {TRUE}, command : {"GET"}, name : Page, auth : {NoCredential}]
  \cup [parses : {TRUE}, command : {"GET"}, name : UserCommand \cup OtherCommand,
        auth : Credential \cup {NoCredential}]
  \cup [parses : {TRUE}, command : {"POST"}, name : UserCommand,
        auth : Credential \cup {NoCredential}]

(***************************************************************************)
(* find_command(name, false): only the commands marked userfunc.  The      *)
(* levels are those of UserLevel.                                          *)
(***************************************************************************)
find_command(name) == name \in UserCommand

Level_Null == 0
Level_User == 50
Level_PowerUser == 100

GetLevel(u) ==
  IF u \in PowerUser THEN Level_PowerUser
  ELSE IF u \in PlainUser THEN Level_User ELSE Level_Null

IsAccessAllowed(c, acclevel) ==
  /\ c.user \in PowerUser \cup PlainUser
  /\ c.good
  /\ GetLevel(c.user) >= acclevel

VARIABLES
  queue,          (* queue[l]: the list of play list l after its Update.   *)
  landing,        (* landing[l]: files its next Update appends.            *)
  nextfileid,     (* Directory::nextfileid of each play list.              *)
  landed,         (* Arrivals so far (bounded).                            *)
  currfile,       (* currentsong                                           *)
  fobj,           (* The song player_thread holds and has not set yet.     *)
  http_locked,    (* bool http_locked: WEB_LOCKED at start.                *)
  HTTP_REDIRECT,  (* Whether the option HTTP_REDIRECT is set.              *)
  pc,             (* Where http_thread is.                                 *)
  listno,         (* The list a page is at.                                *)
  songfile,       (* The copy of the current song.                         *)
  rbuf,           (* The packet received last, on any connection.          *)
  headers,        (* HTTP::headers of req: the credentials it carries.     *)
  buf,            (* xbuf and hbuf: the page of each kind built last.      *)
  o_songname,     (* o_xsongname, o_hsongname: the song each was built for.*)
  textlength,     (* The name that HTTPtext's Content-Length counts.       *)
  accepted,       (* Connections so far (bounded).                         *)
  sent,           (* History: the answer sent on this connection.          *)
  seen,           (* History: the current songs during this connection.    *)
  ran             (* History: the command run on this connection.          *)

lists   == <<queue, landing, nextfileid, landed>>
player  == <<currfile, fobj>>
options == <<http_locked, HTTP_REDIRECT>>
request == <<rbuf, headers>>
pages   == <<buf, o_songname>>
thread  == <<pc, listno, songfile, request, pages, textlength, accepted>>
history == <<sent, seen, ran>>
vars    == <<lists, player, options, thread, history>>

NoSizes      == [l \in Lists |-> 0]
PageOf(s)    == [song |-> s, entries |-> <<>>, sizes |-> NoSizes]
NoPage       == PageOf(NoSong)
Answer(k, p) == [kind |-> k, page |-> p]
Unanswered   == Answer("none", NoPage)

(***************************************************************************)
(* The daemon starts on directories that hold files, none of which it has  *)
(* scanned.  The objects of http_thread are those before its loop:         *)
(* o_xsongname and o_hsongname start as a name no song has, not even the   *)
(* empty one of no song, so the first page of each kind is built.          *)
(***************************************************************************)
NeverBuilt == "///---///"

ASSUME NameAssumption == NeverBuilt \notin RequestFile \cup CacheFile \cup ShareFile \cup {NoFile}

Init ==
  /\ queue = [l \in Playlists |-> <<>>]
  /\ landing \in [Playlists -> UNION {SetToSeqs(FilesOf(l)) : l \in Playlists}]
  /\ \A l \in Playlists : landing[l] \in SetToSeqs(FilesOf(l))
  /\ nextfileid = [l \in Playlists |-> 0]
  /\ landed = 0
  /\ currfile = NoSong
  /\ fobj = NoSong
  /\ http_locked \in BOOLEAN
  /\ HTTP_REDIRECT \in BOOLEAN
  /\ pc = "listen"
  /\ listno = 0
  /\ songfile = NoSong
  /\ rbuf = Garbage
  /\ headers = NoCredential
  /\ buf = [k \in Built |-> NoPage]
  /\ o_songname = [k \in Built |-> NeverBuilt]
  /\ textlength = NoFile
  /\ accepted = 0
  /\ sent = Unanswered
  /\ seen = {}
  /\ ran = "none"

-----------------------------------------------------------------------------
(***************************************************************************)
(* The directories and the player.  A file lands; Update appends it to its *)
(* list with the next id.  GetSong updates a play list and drops its front,*)
(* the share is drawn from at random; then currentsong.Set makes the song  *)
(* current unless one of its name is, or its file is gone.  The lists are  *)
(* asked in order; a file that lands between two of these calls is in      *)
(* DaemonPlayer.  Clear takes the current song away.                       *)
(***************************************************************************)
Land(l, f) ==
  /\ f \in FilesOf(l)
  /\ landed < MaxLandings
  /\ landed' = landed + 1
  /\ landing' = [landing EXCEPT ![l] = Append(@, f)]
  /\ UNCHANGED <<queue, nextfileid, player, options, thread, history>>

Updated(l) ==
  queue[l] \o [i \in 1..Len(landing[l]) |->
                 [list |-> l, name |-> landing[l][i], id |-> nextfileid[l] + i - 1]]

Update(l, list) ==
  /\ queue' = [queue EXCEPT ![l] = list]
  /\ landing' = [landing EXCEPT ![l] = <<>>]
  /\ nextfileid' = [nextfileid EXCEPT ![l] = @ + Len(landing[l])]

NothingBefore(l) == \A k \in Playlists : k < l => Updated(k) = <<>>

(* Mutant: the front of the list is returned and not popped. *)
TakeKept(l) ==
  /\ fobj = NoSong
  /\ Updated(l) # <<>>
  /\ NothingBefore(l)
  /\ fobj' = Head(Updated(l))
  /\ Update(l, Updated(l))
  /\ UNCHANGED <<landed, currfile, options, thread, history>>

Take(l) ==
  /\ fobj = NoSong
  /\ Updated(l) # <<>>
  /\ NothingBefore(l)
  /\ fobj' = Head(Updated(l))
  /\ Update(l, Tail(Updated(l)))
  /\ UNCHANGED <<landed, currfile, options, thread, history>>

TakeShared(f) ==
  /\ fobj = NoSong
  /\ NothingBefore(Share)
  /\ fobj' = [list |-> Share, name |-> f, id |-> 0]
  /\ UNCHANGED <<lists, currfile, options, thread, history>>

Becomes(s) ==
  /\ currfile' = s
  /\ seen' = IF pc = "accept" THEN seen ELSE seen \cup {s}

SetCurrent ==
  /\ fobj # NoSong
  /\ fobj' = NoSong
  /\ \/ fobj.name # currfile.name /\ Becomes(fobj)
     \/ UNCHANGED <<currfile, seen>>
  /\ UNCHANGED <<lists, options, thread, sent, ran>>

ClearCurrent ==
  /\ fobj = NoSong
  /\ currfile # NoSong
  /\ Becomes(NoSong)
  /\ UNCHANGED <<lists, fobj, options, thread, sent, ran>>

-----------------------------------------------------------------------------
(***************************************************************************)
(* socket, bind, listen: when one of them fails the thread ends, and the   *)
(* daemon goes on without it.                                              *)
(***************************************************************************)
Listen ==
  /\ pc = "listen"
  /\ pc' \in {"accept", "ended"}
  /\ UNCHANGED <<lists, player, options, listno, songfile, request, pages, textlength,
                 accepted, history>>

(***************************************************************************)
(* newsock = accept(...); songfile = currentsong.Get();                    *)
(* A client that sends nothing for a second loses its connection.          *)
(***************************************************************************)
Accept ==
  /\ pc = "accept"
  /\ accepted < MaxConnections
  /\ accepted' = accepted + 1
  /\ songfile' = currfile
  /\ seen' = {currfile}
  /\ pc' = "poll"
  /\ UNCHANGED <<lists, player, options, listno, request, pages, textlength, sent, ran>>

(* Mutant: poll waits for as long as the client is silent. *)
PollTimeoutNever ==
  /\ pc = "poll" /\ accepted = 0
  /\ pc' = "close"
  /\ UNCHANGED <<lists, player, options, listno, songfile, request, pages, textlength,
                 accepted, history>>

PollTimeout ==
  /\ pc = "poll"
  /\ pc' = "close"
  /\ UNCHANGED <<lists, player, options, listno, songfile, request, pages, textlength,
                 accepted, history>>

(* Mutant: the headers of the request before are not cleared. *)
ParseHeadersOnTop(p) == IF p.auth = NoCredential THEN headers ELSE p.auth

(***************************************************************************)
(* HTTP::ParseHeaders clears the headers of the request before.            *)
(***************************************************************************)
ParseHeaders(p) == p.auth

(***************************************************************************)
(* req.Parse(rbuf): command and name become those of the packet, the       *)
(* headers are read anew.  A packet that does not match leaves req as it   *)
(* was, and is not answered.                                               *)
(***************************************************************************)
Parse(p) ==
  /\ headers' = IF ~http_locked /\ p.parses THEN ParseHeaders(p) ELSE headers
  /\ pc' = IF ~http_locked /\ p.parses /\ p.command = "GET" THEN "serve" ELSE "close"

Receive(p) ==
  /\ pc = "poll"
  /\ rbuf' = p
  /\ Parse(p)
  /\ UNCHANGED <<lists, player, options, listno, songfile, pages, textlength,
                 accepted, history>>

(***************************************************************************)
(* poll returns for a connection that was reset, recv then returns -1: no  *)
(* byte of the packet received last changes, and it is parsed once more.   *)
(***************************************************************************)
ReceiveFails ==
  /\ pc = "poll"
  /\ Parse(rbuf)
  /\ UNCHANGED <<lists, player, options, listno, songfile, rbuf, pages, textlength,
                 accepted, history>>

Allowed == headers # NoCredential /\ IsAccessAllowed(headers, Level_PowerUser)

(***************************************************************************)
(* A command: run with credentials of a power user, and answered with a    *)
(* redirection whether there is such a command or not; 401 without them.   *)
(***************************************************************************)
ServeCommand ==
  /\ pc = "serve"
  /\ rbuf.name \in UserCommand \cup OtherCommand
  /\ ran' = IF Allowed /\ find_command(rbuf.name) THEN rbuf.name ELSE ran
  /\ sent' = Answer(IF Allowed THEN "redirect" ELSE "auth", NoPage)
  /\ pc' = "close"
  /\ UNCHANGED <<lists, player, options, listno, songfile, request, pages, textlength,
                 accepted, seen>>

(***************************************************************************)
(* /index.txt: the name of the song, in the packet HTTPtext.  CreatePacket *)
(* sets Content-Length only for a body that is not empty.                  *)
(***************************************************************************)
Send(k, page) ==
  /\ sent' = Answer(k, page)
  /\ pc' = "close"

CreatePacket(body) == textlength' = IF body # NoFile THEN body ELSE textlength

ServeText ==
  /\ pc = "serve"
  /\ rbuf.name = "text"
  /\ CreatePacket(songfile.name)
  /\ Send("text", PageOf(songfile))
  /\ UNCHANGED <<lists, player, options, listno, songfile, request, pages, accepted,
                 seen, ran>>

(***************************************************************************)
(* /index.xml and any other name: the page built last, if it was built for *)
(* a song of this name, or a new one.  With HTTP_REDIRECT there is no HTML *)
(* page.  The XML page lists all lists, the HTML page the cache only.      *)
(***************************************************************************)
ServeRedirect ==
  /\ pc = "serve"
  /\ rbuf.name = "html"
  /\ HTTP_REDIRECT
  /\ Send("redirect", NoPage)
  /\ UNCHANGED <<lists, player, options, listno, songfile, request, pages, textlength,
                 accepted, seen, ran>>

ServePage(k) ==
  /\ pc = "serve"
  /\ rbuf.name = k
  /\ k = "html" => ~HTTP_REDIRECT
  /\ IF o_songname[k] = songfile.name
       THEN Send(k, buf[k]) /\ UNCHANGED <<listno, buf>>
       ELSE /\ buf' = [buf EXCEPT ![k] = PageOf(songfile)]
            /\ listno' = IF k = "xml" THEN Request ELSE Cache
            /\ pc' = "entries"
            /\ UNCHANGED sent
  /\ UNCHANGED <<lists, player, options, songfile, request, o_songname, textlength,
                 accepted, seen, ran>>

(***************************************************************************)
(* Directory::GetEntries: the first songs of a play list as its last       *)
(* Update left it, no song of the share.                                   *)
(***************************************************************************)
GetEntries(l, max) ==
  IF l \in Playlists
    THEN SubSeq(queue[l], 1, IF Len(queue[l]) < max THEN Len(queue[l]) ELSE max)
    ELSE <<>>

(* Mutant: every list may fill the page. *)
LeftFull(k) == MaxEntries

(* 10 - songsgot: what the page still has room for. *)
Left(k) == MaxEntries - Len(buf[k].entries)

More(got) == Len(got) < MaxEntries /\ listno < Share

ListEntries(k) ==
  /\ pc = "entries"
  /\ rbuf.name = k
  /\ LET got == buf[k].entries \o GetEntries(listno, Left(k)) IN
       /\ buf' = [buf EXCEPT ![k].entries = got]
       /\ IF k = "xml" /\ More(got)
            THEN listno' = listno + 1 /\ UNCHANGED pc
            ELSE listno' = Request /\ pc' = "sizes"
  /\ UNCHANGED <<lists, player, options, songfile, request, o_songname, textlength,
                 accepted, history>>

(***************************************************************************)
(* GetSize of each list, which updates it; after the last the page is done.*)
(***************************************************************************)
(* Mutant: the name is read again when the page is done. *)
DoneLate(k) ==
  /\ o_songname' = [o_songname EXCEPT ![k] = currfile.name]
  /\ Send(k, buf'[k])

Done(k) ==
  /\ o_songname' = [o_songname EXCEPT ![k] = songfile.name]
  /\ Send(k, buf'[k])

GetSize(k) ==
  /\ pc = "sizes"
  /\ rbuf.name = k
  /\ IF listno \in Playlists
       THEN /\ Update(listno, Updated(listno))
            /\ buf' = [buf EXCEPT ![k].sizes[listno] = Len(Updated(listno))]
            /\ listno' = listno + 1
            /\ UNCHANGED <<o_songname, sent, pc>>
       ELSE /\ buf' = [buf EXCEPT ![k].sizes[listno] = Cardinality(ShareFile)]
            /\ Done(k)
            /\ UNCHANGED <<queue, landing, nextfileid, listno>>
  /\ UNCHANGED <<landed, player, options, songfile, request, textlength, accepted,
                 seen, ran>>

Close ==
  /\ pc = "close"
  /\ pc' = "accept"
  /\ sent' = Unanswered
  /\ seen' = {}
  /\ ran' = "none"
  /\ UNCHANGED <<lists, player, options, listno, songfile, request, pages, textlength,
                 accepted>>

-----------------------------------------------------------------------------
Serve ==
  \/ Listen
  \/ PollTimeout
  \/ ServeCommand
  \/ ServeText
  \/ ServeRedirect
  \/ \E k \in Built : ServePage(k) \/ ListEntries(k) \/ GetSize(k)
  \/ Close

Next ==
  \/ \E l \in Playlists : \E f \in FilesOf(l) : Land(l, f)
  \/ \E l \in Playlists : Take(l)
  \/ \E f \in ShareFile : TakeShared(f)
  \/ SetCurrent
  \/ ClearCurrent
  \/ Accept
  \/ \E p \in Packet : Receive(p)
  \/ ReceiveFails
  \/ Serve

Spec == Init /\ [][Next]_vars

(***************************************************************************)
(* The thread runs when it can; the wait for a request ends after a second.*)
(* No client need send anything, and the player need not move.             *)
(***************************************************************************)
FairSpec == Spec /\ WF_vars(Serve)

(***************************************************************************)
(* Types.                                                                  *)
(***************************************************************************)
AnySong  == Song \cup {NoSong}
PageType == [song : AnySong, entries : Seq(Song), sizes : [Lists -> Nat]]

TypeOK ==
  /\ \A l \in Playlists :
       /\ queue[l] \in Seq(Song)
       /\ landing[l] \in Seq(FilesOf(l))
       /\ Len(queue[l]) + Len(landing[l]) <= landed + Cardinality(FilesOf(l))
       /\ nextfileid[l] + Len(landing[l]) <= landed + Cardinality(FilesOf(l))
  /\ landed \in 0..MaxLandings
  /\ currfile \in AnySong
  /\ fobj \in AnySong
  /\ http_locked \in BOOLEAN
  /\ HTTP_REDIRECT \in BOOLEAN
  /\ pc \in {"listen", "accept", "poll", "serve", "entries", "sizes", "close", "ended"}
  /\ listno \in Lists
  /\ songfile \in AnySong
  /\ rbuf \in Packet
  /\ headers \in Credential \cup {NoCredential}
  /\ \A k \in Built : buf[k] \in PageType
  /\ \A k \in Built : o_songname[k] \in {NeverBuilt, NoFile} \cup RequestFile \cup CacheFile \cup ShareFile
  /\ textlength \in RequestFile \cup CacheFile \cup ShareFile \cup {NoFile}
  /\ accepted \in 0..MaxConnections
  /\ sent.kind \in {"none", "redirect", "auth"} \cup Page
  /\ sent.page \in PageType
  /\ seen \in SUBSET AnySong
  /\ ran \in UserCommand \cup {"none"}

(***************************************************************************)
(* A command is run only on behalf of the packet received last, if it      *)
(* names one of start, next and stop and carries the password of an        *)
(* account of level 100 (main.cc, acc.IsAccessAllowed): never with the     *)
(* credentials of a packet before it, though the request object and its    *)
(* headers outlive the connection.                                         *)
(***************************************************************************)
CommandsAllowed ==
  ran # "none" =>
    /\ rbuf.parses
    /\ rbuf.command = "GET"
    /\ rbuf.name = ran
    /\ ran \in UserCommand
    /\ rbuf.auth.user \in PowerUser
    /\ rbuf.auth.good

(***************************************************************************)
(* An answer names a song that was current while the connection was open,  *)
(* whether the page was built for it or was kept from an earlier one.      *)
(***************************************************************************)
PageNamesCurrent ==
  sent.kind \in Page => sent.page.song.name \in {s.name : s \in seen}

(***************************************************************************)
(* A page that lists songs still to come never lists the song it says is   *)
(* playing, nor one that was played before it: the player takes a song     *)
(* from its list before it makes it current, and the thread copies the     *)
(* current song before it reads the lists.                                 *)
(***************************************************************************)
PageSkipsCurrent ==
  \A k \in Built : \A i \in 1..Len(buf[k].entries) :
    buf[k].entries[i].list = buf[k].song.list => buf[k].entries[i].id > buf[k].song.id

(***************************************************************************)
(* A page lists at most ten songs, over all lists together, requests first *)
(* and in the order in which the player will take them.                    *)
(***************************************************************************)
Before(a, b) == a.list < b.list \/ (a.list = b.list /\ a.id < b.id)

PageBounded ==
  \A k \in Built :
    /\ Len(buf[k].entries) <= MaxEntries
    /\ \A i, j \in 1..Len(buf[k].entries) :
         i < j => Before(buf[k].entries[i], buf[k].entries[j])

(***************************************************************************)
(* Every connection is closed, though its client may never send a word: a  *)
(* single thread serves them all, so one left open would shut out the rest.*)
(***************************************************************************)
ConnectionCloses == pc = "poll" ~> pc = "accept"

-----------------------------------------------------------------------------
(***************************************************************************)
(* What the sources say and the code does not do.                          *)
(*                                                                         *)
(* main.cc: "Receive something from the client ...": a connection nothing  *)
(* was received on is not answered.                                        *)
(***************************************************************************)
AnswersReceived == [][ReceiveFails => pc' = "close"]_vars

(***************************************************************************)
(* HTTP.cc: "Add contentlength".  The length sent is that of the body.     *)
(***************************************************************************)
LengthOfBody ==
  sent.kind = "text" /\ textlength # NoFile => textlength = sent.page.song.name

(***************************************************************************)
(* main.cc: "Next songs in cache:".  A song a page lists has not been      *)
(* played when the page is sent: it is not the one playing now.            *)
(***************************************************************************)
NextIsToCome ==
  [][sent' # sent /\ sent'.kind \in Built =>
       \A i \in 1..Len(sent'.page.entries) : sent'.page.entries[i] # songfile]_vars
=============================================================================
