-------------------------------- MODULE Server --------------------------------
(***************************************************************************)
(* The server of the netdj2 engine (src/netdj2/engine: Server.cpp, with    *)
(* Client, ServerSocket, AccessChecker and what LogService hands to it):   *)
(* clients connect, send a request in pieces, are answered and closed, or  *)
(* ask for the log and get every entry from then on.                       *)
(*                                                                         *)
(* All of it runs on the main thread, one handler of the event loop after  *)
(* another, so a handler is one step.  Handlers still meet in the middle:  *)
(* a command logs, a log entry is written to every client that wants it,   *)
(* and a write to a client whose socket is not open makes Qt warn, which   *)
(* logs again, in Emit, under the mutex that Emit already holds: the main  *)
(* thread then waits for itself (hung).                                    *)
(*                                                                         *)
(* QSocket is Qt's and external: close() of a socket whose output has all  *)
(* been written ends the connection at once and signals nothing; otherwise *)
(* the socket is closing, reads no more, and signals when its output is    *)
(* out.  Of what is written a client's out keeps what the properties tell  *)
(* apart: the status of an answer, and the number and level of an entry.   *)
(***************************************************************************)
EXTENDS Integers, Sequences, FiniteSets

CONSTANTS
  Socket,         (* Connections of clients. Bounds the model.             *)
  Skipper,        (* Users whose level reaches that of /skip.              *)
  Operator,       (* Users whose level reaches that of /shutdown.          *)
  Stranger,       (* Names without an entry in the user list.              *)
  Nobody,         (* No Basic credentials.                                 *)
  MaxPlayerEntries (* Entries the player thread logs. Bounds the model.    *)

ASSUME UserAssumption ==
  /\ Skipper \cap Operator = {}
  /\ Stranger \cap (Skipper \cup Operator) = {}
  /\ Nobody \notin Skipper \cup Operator \cup Stranger

ASSUME BoundAssumption == MaxPlayerEntries \in Nat

(***************************************************************************)
(* gCommands: the level a command asks for.  /help stands for the commands *)
(* that only answer with a page, which /current.xml and /requests.xml are  *)
(* too.                                                                    *)
(***************************************************************************)
Command == {"/help", "/log", "/skip", "/shutdown"}

mAuthLevel ==
  [c \in Command |-> CASE c = "/skip" -> 200 [] c = "/shutdown" -> 500 [] OTHER -> 0]

(***************************************************************************)
(* The user list, and a request: a command or one that gCommands does not  *)
(* have, sent with GET or not, and its credentials, which are looked at    *)
(* only if the command asks for a level.                                   *)
(***************************************************************************)
mUsers == [u \in Skipper \cup Operator |-> IF u \in Operator THEN 500 ELSE 200]

Credential   == [name : Skipper \cup Operator \cup Stranger, good : BOOLEAN]
NoCredential == [name |-> Nobody, good |-> FALSE]
Request ==
  [get : {TRUE}, cmd : {"/help", "/log", "/unknown"}, auth : {NoCredential}]
  \cup [get : {TRUE}, cmd : {"/skip", "/shutdown"}, auth : Credential \cup {NoCredential}]
  \cup [get : {FALSE}, cmd : {"/skip"}, auth : {NoCredential}]
AnyRequest == [get |-> FALSE, cmd |-> "/skip", auth |-> NoCredential]

HasAccess(auth, level) ==
  auth.name \in DOMAIN mUsers /\ auth.good /\ mUsers[auth.name] >= level

CheckAuthorization(level, auth) ==
  level = 0 \/ (auth # NoCredential /\ HasAccess(auth, level))

(***************************************************************************)
(* How much of a request has come: nothing, a part of its first line, its  *)
(* first line, all of it.                                                  *)
(***************************************************************************)
None == 0
Part == 1
Line == 2
Full == 3

VARIABLES
  sock,           (* State of each socket.                                 *)
  mClients,       (* The sockets that have a Client in Server::mClients.   *)
  mLogLevel,      (* Client::mLogLevel                                     *)
  asks,           (* The request each client sends.                        *)
  arrived,        (* How much of it has arrived.                           *)
  read,           (* How much of it ReadClient has taken.                  *)
  ready,          (* Sockets for which Qt owes a readyRead().              *)
  out,            (* What was written to each client, in order.            *)
  mEntryQueue,    (* LogService: levels of entries queued by the player.   *)
  mLogCount,      (* Entries handed to NewLogEntry so far.                 *)
  playerEntries,  (* Entries the player has logged (bounded).              *)
  quit,           (* QApplication::quit() was called.                      *)
  hung,           (* The main thread waits for itself.                     *)
  since,          (* History: mLogCount when a client asked for the log.   *)
  signalled       (* History: SigSkip and SigQuit, with the client's.      *)

sockets == <<sock, mClients>>
input   == <<asks, arrived, read, ready>>
log     == <<mEntryQueue, mLogCount, playerEntries>>
history == <<since, signalled>>
vars    == <<sockets, mLogLevel, input, out, log, quit, hung, history>>

Init ==
  /\ sock = [s \in Socket |-> "none"]
  /\ mClients = {}
  /\ mLogLevel = [s \in Socket |-> 0]
  /\ asks = [s \in Socket |-> AnyRequest]
  /\ arrived = [s \in Socket |-> None]
  /\ read = [s \in Socket |-> None]
  /\ ready = {}
  /\ out = [s \in Socket |-> <<>>]
  /\ mEntryQueue = <<>>
  /\ mLogCount = 0
  /\ playerEntries = 0
  /\ quit = FALSE
  /\ hung = FALSE
  /\ since = [s \in Socket |-> 0]
  /\ signalled = {}

Looping == ~quit /\ ~hung

-----------------------------------------------------------------------------
(***************************************************************************)
(* What is written to a client: the status of an answer or a log entry.    *)
(***************************************************************************)
Answer(status)   == [status |-> status, no |-> 0, level |-> 0]
Entry(no, level) == [status |-> "entry", no |-> no, level |-> level]

(***************************************************************************)
(* The log.  A handler logs entries of the given levels, in order, and     *)
(* each is written to every client whose level reaches it.                 *)
(***************************************************************************)
Entries(levels) == [i \in 1..Len(levels) |-> Entry(mLogCount + i, levels[i])]

Hears(s, e) == s \in mClients /\ mLogLevel[s] >= e.level

(* Of these entries, those the client hears. *)
Heard(s, entries) ==
  LET heard[n \in 0..Len(entries)] ==
        IF n = 0 THEN <<>>
        ELSE IF Hears(s, entries[n]) THEN Append(heard[n - 1], entries[n]) ELSE heard[n - 1]
  IN heard[Len(entries)]

(***************************************************************************)
(* An entry that goes to a socket that is not open makes Qt warn, and the  *)
(* main thread wait for mEmitMutex, which it holds: from Emit at once, and *)
(* from event(), which does not lock, when the entry of the warning goes   *)
(* to the same client and warns again.                                     *)
(***************************************************************************)
WaitsForItself(levels) ==
  \E s \in mClients : sock[s] # "open" /\ Heard(s, Entries(levels)) # <<>>

Hang(levels) ==
  /\ Looping
  /\ WaitsForItself(levels)
  /\ hung' = TRUE
  /\ UNCHANGED <<sockets, mLogLevel, input, out, log, quit, history>>

NewLogEntry(levels) ==
  /\ ~WaitsForItself(levels)
  /\ out' = [s \in Socket |-> out[s] \o Heard(s, Entries(levels))]
  /\ mLogCount' = mLogCount + Len(levels)

(***************************************************************************)
(* The player thread logs: 10 for a song, 30 for its start and its end.    *)
(* LogService::event hands what is queued to NewLogEntry.                  *)
(***************************************************************************)
PlayerLogs(level) ==
  /\ playerEntries < MaxPlayerEntries
  /\ playerEntries' = playerEntries + 1
  /\ mEntryQueue' = Append(mEntryQueue, level)
  /\ UNCHANGED <<sockets, mLogLevel, input, out, mLogCount, quit, hung, history>>

event ==
  /\ Looping
  /\ mEntryQueue # <<>>
  /\ NewLogEntry(mEntryQueue)
  /\ mEntryQueue' = <<>>
  /\ UNCHANGED <<sockets, mLogLevel, input, playerEntries, quit, hung, history>>

-----------------------------------------------------------------------------
(***************************************************************************)
(* ServerSocket::newConnection and Server::NewClient: the client is in     *)
(* mClients before its arrival is logged, at level 100.                    *)
(***************************************************************************)
NewClient(s) ==
  /\ Looping
  /\ sock[s] = "none"
  /\ sock' = [sock EXCEPT ![s] = "open"]
  /\ mClients' = mClients \cup {s}
  /\ \E r \in Request : asks' = [asks EXCEPT ![s] = r]
  /\ NewLogEntry(<<100>>)
  /\ UNCHANGED <<mLogLevel, arrived, read, ready, mEntryQueue, playerEntries, quit, hung,
                 history>>

(***************************************************************************)
(* The network: some more of the request arrives, in as many pieces as it  *)
(* likes.  A socket that is not open reads nothing.                        *)
(***************************************************************************)
Arrive(s, upto) ==
  /\ sock[s] = "open"
  /\ arrived[s] < upto
  /\ arrived' = [arrived EXCEPT ![s] = upto]
  /\ ready' = ready \cup {s}
  /\ UNCHANGED <<sockets, mLogLevel, asks, read, out, log, quit, hung, history>>

(***************************************************************************)
(* ReadClient takes the complete lines that are there and parses them as a *)
(* request of their own: the method is that of the first line if this is   *)
(* the first line, and the credentials are seen only if they came with it. *)
(***************************************************************************)
Lines(s) == IF arrived[s] = Part THEN None ELSE arrived[s]

header(s) ==
  [get  |-> read[s] = None /\ Lines(s) >= Line /\ asks[s].get,
   cmd  |-> asks[s].cmd,
   auth |-> IF Lines(s) = Full THEN asks[s].auth ELSE NoCredential]

(***************************************************************************)
(* What a handler of a request does: the entries logged before the answer, *)
(* the answer, the entries logged after it, and whether it closes.         *)
(***************************************************************************)
Handling(b, a, e, c) == [before |-> b, answer |-> a, after |-> e, closeCon |-> c]

(* Mutant: a user may do what another one may. *)
HandleCommandUnchecked(h) ==
  IF h.cmd \notin Command
    THEN Handling(<<70>>, "404", <<>>, TRUE)
  ELSE IF h.auth = NoCredential /\ mAuthLevel[h.cmd] > 0
    THEN Handling(<<>>, "401", <<>>, TRUE)
  ELSE Handling(<<150>>, "200",
         CASE h.cmd = "/skip" -> <<20>> [] h.cmd = "/shutdown" -> <<0>> [] OTHER -> <<>>,
         h.cmd # "/log")

HandleCommand(h) ==
  IF h.cmd \notin Command
    THEN Handling(<<70>>, "404", <<>>, TRUE)
  ELSE IF ~CheckAuthorization(mAuthLevel[h.cmd], h.auth)
    THEN Handling(IF h.auth = NoCredential THEN <<>> ELSE <<50>>, "401", <<>>, TRUE)
  ELSE Handling(<<150>>, "200",
         CASE h.cmd = "/skip" -> <<20>> [] h.cmd = "/shutdown" -> <<0>> [] OTHER -> <<>>,
         h.cmd # "/log")

(* Mutant: a request that is not supported leaves the connection open. *)
HandledOpen(s) ==
  IF header(s).get THEN HandleCommand(header(s)) ELSE Handling(<<>>, "501", <<>>, FALSE)

Handled(s) ==
  IF header(s).get THEN HandleCommand(header(s)) ELSE Handling(<<>>, "501", <<>>, TRUE)

(***************************************************************************)
(* CmdLog: from here on the client hears every entry.                      *)
(***************************************************************************)
(* Mutant: a level that leaves out who comes and goes. *)
CmdLogLow(s) == mLogLevel' = [mLogLevel EXCEPT ![s] = 99]

CmdLog(s) == mLogLevel' = [mLogLevel EXCEPT ![s] = 999]

(***************************************************************************)
(* socket->close()                                                         *)
(***************************************************************************)
Close(s) == \E state \in {"closing", "idle"} : sock' = [sock EXCEPT ![s] = state]

(***************************************************************************)
(* The entries of a command come before and after its answer, also on the  *)
(* connection of a client that is being answered and hears the log.        *)
(* SigSkip and SigQuit reach the log first, then the player and the loop.  *)
(***************************************************************************)
Written(s, t, h) ==
  LET entries == Entries(h.before \o h.after) IN
  Heard(t, SubSeq(entries, 1, Len(h.before)))
  \o (IF t = s THEN <<Answer(h.answer)>> ELSE <<>>)
  \o Heard(t, SubSeq(entries, Len(h.before) + 1, Len(entries)))

ReadClient(s) ==
  /\ Looping
  /\ s \in ready
  /\ LET h == Handled(s)
         c == IF h.answer = "200" THEN header(s).cmd ELSE "none" IN
       /\ ~WaitsForItself(h.before \o h.after)
       /\ out' = [t \in Socket |-> out[t] \o Written(s, t, h)]
       /\ mLogCount' = mLogCount + Len(h.before \o h.after)
       /\ IF h.closeCon THEN Close(s) ELSE UNCHANGED sock
       /\ IF c = "/log"
            THEN CmdLog(s) /\ since' = [since EXCEPT ![s] = mLogCount']
            ELSE UNCHANGED <<mLogLevel, since>>
       /\ signalled' = IF c \in {"/skip", "/shutdown"}
                         THEN signalled \cup {[cmd |-> c, client |-> s]} ELSE signalled
       /\ quit' = (c = "/shutdown")
  /\ ready' = ready \ {s}
  /\ read' = [read EXCEPT ![s] = Lines(s)]
  /\ UNCHANGED <<mClients, asks, arrived, mEntryQueue, playerEntries, hung>>

(***************************************************************************)
(* ClientClosed: the end of a connection is logged, at level 100, while    *)
(* the client is still in mClients; then it is removed, and its socket     *)
(* deleted with it.  It is called when the peer closes, or when the output *)
(* of a closing socket is out.  What is written to a socket whose peer has *)
(* closed is dropped without a warning.                                    *)
(***************************************************************************)
Remove(s) ==
  /\ mClients' = mClients \ {s}
  /\ sock' = [sock EXCEPT ![s] = "deleted"]

PeerCloses(s) ==
  /\ Looping
  /\ sock[s] = "open"
  /\ s \notin ready
  /\ NewLogEntry(<<100>>)
  /\ Remove(s)
  /\ UNCHANGED <<mLogLevel, input, mEntryQueue, playerEntries, quit, hung, history>>

(* Mutant: delayedCloseFinished() is not connected. *)
FinishCloseUnheard(s) ==
  /\ Looping
  /\ sock[s] = "closing"
  /\ sock' = [sock EXCEPT ![s] = "idle"]
  /\ UNCHANGED <<mClients, mLogLevel, input, out, log, quit, hung, history>>

FinishClose(s) ==
  /\ Looping
  /\ sock[s] = "closing"
  /\ NewLogEntry(<<100>>)
  /\ Remove(s)
  /\ UNCHANGED <<mLogLevel, input, mEntryQueue, playerEntries, quit, hung, history>>

(***************************************************************************)
(* Any handler that logs to a socket that is not open hangs.               *)
(***************************************************************************)
HangServing ==
  \/ \E s \in Socket :
       \/ sock[s] = "closing" /\ Hang(<<100>>)
       \/ s \in ready /\ Hang(Handled(s).before \o Handled(s).after)
  \/ Hang(mEntryQueue)

HangOnPeer(s) ==
  /\ sock[s] = "none" \/ (sock[s] = "open" /\ s \notin ready)
  /\ Hang(<<100>>)

(***************************************************************************)
(* What the event loop owes to its sockets and events.                     *)
(***************************************************************************)
Loop ==
  \/ event
  \/ \E s \in Socket : ReadClient(s) \/ FinishClose(s)
  \/ HangServing

Next ==
  \/ \E level \in {10, 30} : PlayerLogs(level)
  \/ \E s \in Socket :
       \/ NewClient(s)
       \/ \E upto \in {Part, Line, Full} : Arrive(s, upto)
       \/ PeerCloses(s)
       \/ HangOnPeer(s)
  \/ Loop

Spec == Init /\ [][Next]_vars

(***************************************************************************)
(* The event loop does not sleep while a socket or an event is ready.      *)
(* Clients need not send, nor connect, nor leave.                          *)
(***************************************************************************)
FairSpec == Spec /\ WF_vars(Loop)

-----------------------------------------------------------------------------
SocketState == {"none", "open", "closing", "idle", "deleted"}

TypeOK ==
  /\ sock \in [Socket -> SocketState]
  /\ mClients = {s \in Socket : sock[s] \in {"open", "closing", "idle"}}
  /\ mLogLevel \in [Socket -> {0, 999}]
  /\ asks \in [Socket -> Request]
  /\ arrived \in [Socket -> None..Full]
  /\ read \in [Socket -> {None, Line, Full}]
  /\ \A s \in Socket : read[s] <= arrived[s]
  /\ ready \subseteq {s \in Socket : sock[s] = "open"}
  /\ \A s \in Socket : \A i \in 1..Len(out[s]) :
       /\ out[s][i].status \in {"entry", "200", "401", "404", "501"}
       /\ out[s][i].no \in 0..mLogCount
  /\ Len(mEntryQueue) <= playerEntries
  /\ playerEntries \in 0..MaxPlayerEntries
  /\ quit \in BOOLEAN
  /\ hung \in BOOLEAN
  /\ signalled \subseteq [cmd : {"/skip", "/shutdown"}, client : Socket]

(* Where in the output of a client its answers are, and the entries since  *)
(* it asked for the log; and whether the first answer gave it the log.     *)
AnswerAt(s) == {n \in DOMAIN out[s] : out[s][n].status # "entry"}
LogAt(s)    == {n \in DOMAIN out[s] : out[s][n].status = "entry" /\ out[s][n].no > since[s]}

GotLog(s) ==
  /\ asks[s].cmd = "/log"
  /\ \E n \in AnswerAt(s) : out[s][n].status = "200" /\ \A m \in AnswerAt(s) : n <= m

(***************************************************************************)
(* A song is skipped and the engine is shut down only for a client whose   *)
(* own GET asked for it with the password of a user of that level          *)
(* (Server.cpp, CheckAuthorization), however its request was cut up.       *)
(***************************************************************************)
SignalsAuthorized ==
  \A x \in signalled :
    /\ asks[x.client].get
    /\ asks[x.client].cmd = x.cmd
    /\ asks[x.client].auth.good
    /\ asks[x.client].auth.name \in
         (IF x.cmd = "/skip" THEN Skipper \cup Operator ELSE Operator)

(***************************************************************************)
(* A request is answered once, in however many pieces it comes (ReadClient *)
(* closes what it has answered); only a connection left open for the log   *)
(* can be answered again, and then it is closed.                           *)
(***************************************************************************)
AnsweredOnce ==
  \A s \in Socket :
    \/ Cardinality(AnswerAt(s)) <= 1
    \/ Cardinality(AnswerAt(s)) = 2 /\ GotLog(s) /\ sock[s] # "open"

(***************************************************************************)
(* A client that asked for the log has been written every entry since      *)
(* then, once and in order, its own coming and going among others' and the *)
(* queued ones of the player (Server::NewLogEntry, CmdLog).                *)
(***************************************************************************)
LogComplete ==
  \A s \in Socket :
    GotLog(s) /\ sock[s] = "open" =>
      /\ {out[s][n].no : n \in LogAt(s)} = (since[s] + 1)..mLogCount
      /\ \A n, m \in LogAt(s) : n < m => out[s][n].no < out[s][m].no

(***************************************************************************)
(* A socket that closes with output still to be written is removed from    *)
(* mClients and deleted, unless the loop ends (ClientClosed).              *)
(***************************************************************************)
ClosingIsRemoved ==
  \A s \in Socket : sock[s] = "closing" ~> (sock[s] = "deleted" \/ quit \/ hung)

-----------------------------------------------------------------------------
(***************************************************************************)
(* What the sources say and the code does not do.                          *)
(*                                                                         *)
(* LogService.h: a NewLogEntry() must not spawn another call to LogService *)
(* in the same context, "This will make Emit() wait for itself".           *)
(***************************************************************************)
EmitNeverWaits == ~hung

(***************************************************************************)
(* Server.h: CmdLog is to "Enable continous logging for caller".  Nobody   *)
(* who has not asked is sent an entry.                                     *)
(***************************************************************************)
OnlyAskedLogs ==
  \A s \in Socket : \A i \in 1..Len(out[s]) : out[s][i].status = "entry" => GotLog(s)

(***************************************************************************)
(* Server.cpp: "Get log messages (continuous)".  The server does not end   *)
(* the connection of a client that hears the log.                          *)
(***************************************************************************)
LogContinues == \A s \in Socket : GotLog(s) => sock[s] \in {"open", "deleted"}

(***************************************************************************)
(* Server.cpp: "Sorry, the server only supports GET."  A GET is never      *)
(* answered with this.                                                     *)
(***************************************************************************)
GetIsSupported ==
  \A s \in Socket : asks[s].get =>
    \A i \in 1..Len(out[s]) : out[s][i].status # "501"

(***************************************************************************)
(* Server.h: mClients is the "List of currently connected clients".        *)
(***************************************************************************)
ClientsAreConnected == \A s \in mClients : sock[s] # "idle"
=============================================================================
