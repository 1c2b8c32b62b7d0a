---------------------------- MODULE EngineStart ----------------------------
(***************************************************************************)
(* The life of the netdj2 engine's process (src/netdj2/engine/main.cpp):   *)
(* main reads options and configuration, forks, changes user and installs  *)
(* sig_handler; mainloop builds the collections, the player and the        *)
(* server, connects them, starts the player's thread and runs the event    *)
(* loop; after it the player is stopped and waited for, and what was built *)
(* is destroyed.  Signals come at any time.                                *)
(*                                                                         *)
(* A call that can fail does so by choice and is then remembered in        *)
(* "failed".  Nothing catches what a constructor throws: the process       *)
(* aborts.  What the player does between two tests of mStopPlayer is in    *)
(* EnginePlayer, what sig_handler does to the log in LogService.           *)
(*                                                                         *)
(* Initial states, steps and specification bear the name of the process,   *)
(* so that one module can extend this one, Server and SongInfo.            *)
(***************************************************************************)
EXTENDS Integers

CONSTANTS
  MaxSignals      (* SIGHUP, SIGINT, SIGTERM. Bounds the model.            *)

ASSUME SignalAssumption == MaxSignals \in Nat

VARIABLES
  pc,             (* The step of main or mainloop that comes next.         *)
  exit,           (* How the process ended, or "not"; "failure" is -1.     *)
  parent,         (* How the process that forked ended, or "none".         *)
  asked,          (* The configuration asks for "dump", "daemon", "change" *)
  user,           (* The ids the process runs with: "old" or "new".        *)
  handler,        (* sig_handler is installed.                             *)
  objects,        (* What is constructed and not destroyed.                *)
  joined,         (* Who is connected to the player's signals.             *)
  quitnow,        (* The event loop's flag (Qt).                           *)
  mStopPlayer,    (* mStopPlayer                                           *)
  mSongElement,   (* Server::mSongElement: "garbage", "null" or "set".     *)
  player,         (* Where the player's thread is.                         *)
  signals,        (* Signals so far (bounded).                             *)
  failed,         (* History: the calls that failed.                       *)
  told            (* History: quit() was called with sig_handler in place. *)

thread      == <<quitnow, mStopPlayer, mSongElement, player>>
ids         == <<parent, asked, user, handler>>
built       == <<objects, joined>>
processVars == <<pc, exit, ids, built, thread, signals, failed, told>>

Alive == exit = "not"

ProcessInit ==
  /\ pc = "options"
  /\ exit = "not"
  /\ parent = "none"
  /\ asked \in SUBSET {"dump", "daemon", "change"}
  /\ user = [group |-> "old", user |-> "old"]
  /\ handler = FALSE
  /\ objects = {}
  /\ joined = {}
  /\ quitnow = FALSE
  /\ mStopPlayer = FALSE
  /\ mSongElement = "null"
  /\ player = "none"
  /\ signals = 0
  /\ failed = {}
  /\ told = FALSE

(* The step that is next is over: another one is next, or the process ends. *)
Goto(from, to) == Alive /\ pc = from /\ pc' = to /\ UNCHANGED exit

End(from, how) == Alive /\ pc = from /\ exit' = how /\ UNCHANGED pc

Fail(call) == failed' = failed \cup {call}

-----------------------------------------------------------------------------
(***************************************************************************)
(* main: options, configuration, background.                               *)
(***************************************************************************)
ParseOptions ==
  /\ \/ Goto("options", "configure") /\ UNCHANGED failed
     \/ End("options", "failure") /\ Fail("options")
  /\ UNCHANGED <<ids, built, thread, signals, told>>

(* gConfig.Init: the first file of three that opens; with none, -1. *)
Configure ==
  /\ \/ Goto("configure", IF "dump" \in asked THEN "dump" ELSE "fork") /\ UNCHANGED failed
     \/ End("configure", "failure") /\ Fail("config")
  /\ UNCHANGED <<ids, built, thread, signals, told>>

Dump ==
  /\ End("dump", "failure")
  /\ UNCHANGED <<ids, built, thread, signals, failed, told>>

(* From here on this is the child; its parent has called exit(0). *)
Fork ==
  /\ \/ /\ "daemon" \in asked
        /\ Goto("fork", "group")
        /\ parent' = "zero"
        /\ UNCHANGED failed
     \/ /\ "daemon" \notin asked
        /\ Goto("fork", "group")
        /\ UNCHANGED <<parent, failed>>
     \/ /\ "daemon" \in asked
        /\ End("fork", "failure")
        /\ Fail("fork")
        /\ UNCHANGED parent
  /\ UNCHANGED <<asked, user, handler, built, thread, signals, told>>

(***************************************************************************)
(* setgid and setuid return 0 when they succeed, which "!" takes for a     *)
(* failure: main goes on when the name is known and the call fails.        *)
(***************************************************************************)
Change(which, from, to) ==
  /\ \/ /\ "change" \notin asked
        /\ Goto(from, to)
        /\ UNCHANGED <<user, failed>>
     \/ /\ "change" \in asked
        /\ Goto(from, to)
        /\ Fail(which)
        /\ UNCHANGED user
     \/ /\ "change" \in asked
        /\ End(from, "failure")
        /\ \/ user' = [user EXCEPT ![which] = "new"] /\ UNCHANGED failed
           \/ Fail("name") /\ UNCHANGED user
  /\ UNCHANGED <<parent, asked, handler, built, thread, signals, told>>

InstallHandler ==
  /\ Goto("handlers", "logger")
  /\ handler' = TRUE
  /\ UNCHANGED <<parent, asked, user, built, thread, signals, failed, told>>

-----------------------------------------------------------------------------
(***************************************************************************)
(* mainloop: what it builds, up to the start of the player's thread.       *)
(***************************************************************************)
Build(from, to, what) ==
  /\ Goto(from, to)
  /\ objects' = objects \cup what
  /\ UNCHANGED <<ids, joined, thread, signals, failed, told>>

Throw(from, call) ==
  /\ End(from, "aborted")
  /\ Fail(call)
  /\ UNCHANGED <<ids, built, thread, signals, told>>

MakeLogger == Build("logger", "requests", {"logger", "collections"})

(* The constructors of the collections update them for the first time. *)
MakeRequests == Build("requests", "share", {"requests"}) \/ Throw("requests", "directory")

MakeShare == Build("share", "player", {"share"}) \/ Throw("share", "list")

MakePlayer == Build("player", "users", {"player"})

(* Mutant: what the access checker's Init returns is not looked at. *)
ReadUsersUnchecked ==
  /\ Goto("users", "listen")
  /\ UNCHANGED failed \/ Fail("users")
  /\ UNCHANGED <<ids, built, thread, signals, told>>

(* Server::Server: the access checker's file, then the port to listen on. *)
ReadUsers ==
  \/ /\ Goto("users", "listen")
     /\ UNCHANGED <<ids, built, thread, signals, failed, told>>
  \/ Throw("users", "users")

(* The members the constructor does not name: mSongElement has any value. *)
Listen ==
  \/ /\ Goto("listen", "connect")
     /\ objects' = objects \cup {"server"}
     /\ mSongElement' \in {"null", "garbage"}
     /\ UNCHANGED <<ids, joined, quitnow, mStopPlayer, player, signals, failed, told>>
  \/ Throw("listen", "port")

Connect ==
  /\ Goto("connect", "start")
  /\ joined' = {"logger", "server"}
  /\ UNCHANGED <<ids, objects, thread, signals, failed, told>>

Start ==
  /\ Goto("start", "exec")
  /\ player' = "ready"
  /\ UNCHANGED <<ids, built, quitnow, mStopPlayer, mSongElement, signals, failed, told>>

-----------------------------------------------------------------------------
(***************************************************************************)
(* The event loop.  QApplication::quit sets quitnow; exec() resets it when *)
(* it begins, and returns when it is set.                                  *)
(***************************************************************************)
Exec ==
  /\ Goto("exec", "loop")
  /\ quitnow' = FALSE
  /\ UNCHANGED <<ids, built, mStopPlayer, mSongElement, player, signals, failed, told>>

ClientQuits ==
  /\ Goto("loop", "loop")
  /\ quitnow' = TRUE
  /\ told' = TRUE
  /\ UNCHANGED <<ids, built, mStopPlayer, mSongElement, player, signals, failed>>

ExecReturns ==
  /\ Goto("loop", "stop")
  /\ quitnow
  /\ UNCHANGED <<ids, built, thread, signals, failed, told>>

(* Mutant: mainloop waits for the thread without having stopped it. *)
StopNot ==
  /\ Goto("stop", "wait")
  /\ UNCHANGED <<ids, built, thread, signals, failed, told>>

Stop ==
  /\ Goto("stop", "wait")
  /\ mStopPlayer' = TRUE
  /\ UNCHANGED <<ids, built, quitnow, mSongElement, player, signals, failed, told>>

(* Mutant: mainloop does not wait for the thread to quit. *)
WaitNot ==
  /\ Goto("wait", "unwind")
  /\ UNCHANGED <<ids, built, thread, signals, failed, told>>

Wait ==
  /\ Goto("wait", "unwind")
  /\ player = "ended"
  /\ UNCHANGED <<ids, built, thread, signals, failed, told>>

(* mainloop returns: cols goes with its collections, and flog. *)
Unwind ==
  /\ Goto("unwind", "delete")
  /\ objects' = objects \ {"logger", "collections", "requests", "share"}
  /\ UNCHANGED <<ids, joined, thread, signals, failed, told>>

(***************************************************************************)
(* main returns: the QApplication deletes its children.  Server::~Server   *)
(* deletes mSongElement, whatever it points to.                            *)
(***************************************************************************)
Destroy ==
  /\ End("delete", IF mSongElement = "garbage" THEN "crashed" ELSE "zero")
  /\ objects' = {}
  /\ joined' = {}
  /\ UNCHANGED <<ids, thread, signals, failed, told>>

-----------------------------------------------------------------------------
(***************************************************************************)
(* A signal: the default action kills; sig_handler calls quit().           *)
(***************************************************************************)
Signal ==
  /\ Alive
  /\ signals < MaxSignals
  /\ signals' = signals + 1
  /\ IF handler
       THEN /\ quitnow' = TRUE
            /\ told' = TRUE
            /\ UNCHANGED exit
       ELSE /\ exit' = "killed"
            /\ UNCHANGED <<quitnow, told>>
  /\ UNCHANGED <<pc, ids, built, mStopPlayer, mSongElement, player, failed>>

(***************************************************************************)
(* The player's thread: Collections::GetNextSong, SigSongPlaying (whose    *)
(* slots run in this thread), the song, the test of mStopPlayer.  Without  *)
(* a song it sleeps and asks again; any StdException ends it.              *)
(***************************************************************************)
PlayerStep(from, to) ==
  /\ Alive
  /\ player = from
  /\ player' = to
  /\ UNCHANGED <<pc, ids, built, quitnow, mStopPlayer, signals, failed, told>>

Ask == PlayerStep("ready", "asking") /\ UNCHANGED <<exit, mSongElement>>

Answered ==
  /\ \E to \in {"telling", "ready", "ended"} : PlayerStep("asking", to)
  /\ UNCHANGED <<exit, mSongElement>>

(* Server::SongPlaying deletes what mSongElement points to and sets it. *)
Tell ==
  /\ PlayerStep("telling", "playing")
  /\ mSongElement' = "set"
  /\ exit' = IF mSongElement = "garbage" THEN "crashed" ELSE exit

(* Mutant: mStopPlayer is not tested after a song. *)
SongOverUntested ==
  /\ \E to \in {"ready", "ended"} : PlayerStep("playing", to)
  /\ UNCHANGED <<exit, mSongElement>>

SongOver ==
  /\ \E to \in IF mStopPlayer THEN {"ended"} ELSE {"ready", "ended"} : PlayerStep("playing", to)
  /\ UNCHANGED <<exit, mSongElement>>

-----------------------------------------------------------------------------
Prepare ==
  \/ ParseOptions
  \/ Configure
  \/ Dump
  \/ Fork
  \/ Change("group", "group", "user")
  \/ Change("user", "user", "handlers")
  \/ InstallHandler

Construct ==
  \/ MakeLogger
  \/ MakeRequests
  \/ MakeShare
  \/ MakePlayer
  \/ ReadUsers
  \/ Listen
  \/ Connect
  \/ Start

Finish ==
  \/ ExecReturns
  \/ Stop
  \/ Wait
  \/ Unwind
  \/ Destroy

Main == Prepare \/ Construct \/ Exec \/ Finish

Player == Ask \/ Answered \/ Tell \/ SongOver

ProcessNext == Main \/ ClientQuits \/ Signal \/ Player

ProcessSpec == ProcessInit /\ [][ProcessNext]_processVars

(***************************************************************************)
(* Both threads are scheduled, and the calls they make return.  Nobody has *)
(* to send a signal or a quit command.                                     *)
(***************************************************************************)
FairProcessSpec == ProcessSpec /\ WF_processVars(Main) /\ WF_processVars(Player)

-----------------------------------------------------------------------------
Steps == {"options", "configure", "dump", "fork", "group", "user", "handlers", "logger",
          "requests", "share", "player", "users", "listen", "connect", "start", "exec",
          "loop", "stop", "wait", "unwind", "delete"}

Parts == {"logger", "collections", "requests", "share", "player", "server"}

ProcessTypeOK ==
  /\ pc \in Steps
  /\ exit \in {"not", "failure", "zero", "aborted", "killed", "crashed"}
  /\ parent \in {"none", "zero"}
  /\ asked \subseteq {"dump", "daemon", "change"}
  /\ user \in [group : {"old", "new"}, user : {"old", "new"}]
  /\ handler \in BOOLEAN
  /\ objects \subseteq Parts
  /\ joined \subseteq {"logger", "server"}
  /\ quitnow \in BOOLEAN
  /\ mStopPlayer \in BOOLEAN
  /\ mSongElement \in {"garbage", "null", "set"}
  /\ player \in {"none", "ready", "asking", "telling", "playing", "ended"}
  /\ signals \in 0..MaxSignals
  /\ failed \subseteq {"options", "config", "fork", "group", "user", "name", "directory",
                       "list", "users", "port"}
  /\ told \in BOOLEAN

(***************************************************************************)
(* While the player's thread runs, everything it works with is there: the  *)
(* collections it asks, whose songs it plays and deletes, and the server   *)
(* and the log its signals call into, both connected from its first song   *)
(* on.  Whatever signal or quit command ends the event loop, at any point  *)
(* of a song, nothing is destroyed under the player.                       *)
(***************************************************************************)
PlayerRuns == player \notin {"none", "ended"}

PlayerHasAll == Alive /\ PlayerRuns => objects = Parts /\ joined = {"logger", "server"}

(***************************************************************************)
(* A process that reaches its event loop has its configuration, its        *)
(* collections, its users and its port: no failure on the way was passed   *)
(* over, but for those of the change of user (RunsAsUser).                 *)
(***************************************************************************)
ServesPrepared == Alive /\ pc = "loop" => failed \subseteq {"group", "user"}

(***************************************************************************)
(* "Wait for thread to quit" (main.cpp:153): once the event loop has been  *)
(* told to quit the process ends, if the player ends or is again and again *)
(* at a song.                                                              *)
(***************************************************************************)
Plays == []<>(player \in {"playing", "ended"} \/ ~Alive)

QuitEnds == Plays => (pc = "loop" /\ quitnow ~> ~Alive)

(***************************************************************************)
(* "Change to other uid/gid" (main.cpp:236): who asks for it is served by  *)
(* a process with the other ids.                                           *)
(***************************************************************************)
RunsAsUser ==
  Alive /\ pc = "loop" /\ "change" \in asked => user = [group |-> "new", user |-> "new"]

(***************************************************************************)
(* "Received signal ..., quitting" (main.cpp:56): a signal that            *)
(* sig_handler was called for ends the process, if the player plays.       *)
(***************************************************************************)
SignalQuits == Plays => (told ~> ~Alive)

(***************************************************************************)
(* "Main application loop has ended" (main.cpp:150), and then 0 is         *)
(* returned: who was served to the end does not see a crash.               *)
(***************************************************************************)
EndsClean == pc = "delete" => exit # "crashed"

(***************************************************************************)
(* "Could not find configuration file ..., using defaults!!!"              *)
(* (Configuration.cpp:64-68): without a file the process goes on.          *)
(***************************************************************************)
DefaultsUsed == "config" \in failed => exit # "failure"
=============================================================================
