------------------------------ MODULE SongInfo ------------------------------
(***************************************************************************)
(* The XML of one song of the netdj2 engine: SongFile::AsXML, which makes  *)
(* the song's info when it is first asked for (GetSongInfo, SongInfoFile), *)
(* and SongInfoBase::AsXML, which makes the info's XML once (mXMLValid,    *)
(* CreateXML) and from then on copies it.                                  *)
(*                                                                         *)
(* Nothing of it is locked.  The player's thread asks for the song it is   *)
(* about to play, for the log and for the server; the main thread asks for *)
(* the songs of a collection it lists: the same SongFile.                  *)
(*                                                                         *)
(* The fields of the XML are numbers, in the order CreateXML appends them; *)
(* the file is what its name leads to when it is looked at.                *)
(*                                                                         *)
(* Initial states, steps and specification bear the name of the info, so   *)
(* that one module can extend this one, Server and EngineStart.            *)
(***************************************************************************)
EXTENDS Integers, Sequences, Functions

CONSTANTS
  Thread,         (* Threads that ask for the song's XML.                  *)
  NoThread,       (* Neither an info nor a node.                           *)
  Fields,         (* Fields of a file that can be read.                    *)
  MaxCalls,       (* AsXML calls of a thread. Bounds the model.            *)
  MaxChanges      (* Changes of the file. Bounds the model.                *)

ASSUME NoThreadAssumption == NoThread \notin Thread
ASSUME FieldsAssumption   == Fields \in Nat /\ MaxCalls \in Nat /\ MaxChanges \in Nat

VARIABLES
  at,             (* Where each thread is.                                 *)
  using,          (* The info whose AsXML it is in.                        *)
  next,           (* The field it appends next.                            *)
  mSongInfo,      (* SongFile::mSongInfo: the thread that made it, if any. *)
  fields,         (* What the info a thread made knows: how many fields.   *)
  mXMLValid,      (* mXMLValid of each info.                               *)
  mInfoNode,      (* mInfoNode of each info: the thread that made the node *)
  content,        (* The fields in each node, by the info it is of.        *)
  file,           (* The file is "tagged", "foreign" or "unreadable".      *)
  changes,        (* Changes of the file so far (bounded).                 *)
  calls,          (* AsXML calls of each thread so far (bounded).          *)
  crashed,        (* TagLib had no tag to ask.                             *)
  torn,           (* History: infos two threads were creating XML of.      *)
  copies          (* History: what was given to a caller, and when.        *)

infos       == <<mSongInfo, fields>>
xml         == <<mXMLValid, mInfoNode, content>>
world       == <<file, changes>>
infoHistory == <<torn, copies>>
infoVars    == <<at, using, next, infos, xml, world, calls, crashed, infoHistory>>

InfoInit ==
  /\ at = [t \in Thread |-> "idle"]
  /\ using = [t \in Thread |-> NoThread]
  /\ next = [t \in Thread |-> 1]
  /\ mSongInfo = NoThread
  /\ fields = [i \in Thread |-> 0]
  /\ mXMLValid = [i \in Thread |-> FALSE]
  /\ mInfoNode = [i \in Thread |-> NoThread]
  /\ content = [i \in Thread |-> [n \in Thread |-> <<>>]]
  /\ file \in {"tagged", "foreign", "unreadable"}
  /\ changes = 0
  /\ calls = [t \in Thread |-> 0]
  /\ crashed = FALSE
  /\ torn = {}
  /\ copies = {}

Step(t, from, to) ==
  /\ ~crashed
  /\ at[t] = from
  /\ at' = [at EXCEPT ![t] = to]

(* The info's own fields, first to last, each once. *)
Whole(info) == [n \in 1..fields[info] |-> n]

-----------------------------------------------------------------------------
(***************************************************************************)
(* SongFile::GetSongInfo.                                                  *)
(***************************************************************************)
TestInfo(t) ==
  /\ Step(t, "idle", IF mSongInfo = NoThread THEN "make" ELSE "use")
  /\ calls[t] < MaxCalls
  /\ calls' = [calls EXCEPT ![t] = @ + 1]
  /\ UNCHANGED <<using, next, infos, xml, world, crashed, infoHistory>>

(* SongInfoFile: of a file that cannot be read nothing is known. *)
MakeInfo(t) ==
  /\ Step(t, "make", "store")
  /\ fields' = [fields EXCEPT ![t] = IF file = "tagged" THEN Fields ELSE 0]
  /\ crashed' = (file = "foreign")
  /\ UNCHANGED <<using, next, mSongInfo, xml, world, calls, infoHistory>>

StoreInfo(t) ==
  /\ Step(t, "store", "use")
  /\ mSongInfo' = t
  /\ UNCHANGED <<using, next, fields, xml, world, calls, crashed, infoHistory>>

(* mSongInfo->AsXML: the pointer is read again. *)
UseInfo(t) ==
  /\ Step(t, "use", "test")
  /\ using' = [using EXCEPT ![t] = mSongInfo]
  /\ UNCHANGED <<next, infos, xml, world, calls, crashed, infoHistory>>

-----------------------------------------------------------------------------
(***************************************************************************)
(* SongInfoBase::AsXML and CreateXML, for the info in "using".             *)
(***************************************************************************)
Creating(info) == {t \in Thread : using[t] = info /\ at[t] \in {"node", "append", "validate"}}

Torn(info, t) == IF Creating(info) \ {t} # {} THEN torn \cup {info} ELSE torn

(* Mutant: mXMLValid is set before the XML is there. *)
TestXMLEarly(t) ==
  LET info == using[t] IN
  /\ Step(t, "test", IF mXMLValid[info] THEN "copy" ELSE "node")
  /\ mXMLValid' = [mXMLValid EXCEPT ![info] = TRUE]
  /\ torn' = IF mXMLValid[info] THEN torn ELSE Torn(info, t)
  /\ UNCHANGED <<using, next, infos, mInfoNode, content, world, calls, crashed, copies>>

TestXML(t) ==
  LET info == using[t] IN
  /\ Step(t, "test", IF mXMLValid[info] THEN "copy" ELSE "node")
  /\ torn' = IF mXMLValid[info] THEN torn ELSE Torn(info, t)
  /\ UNCHANGED <<using, next, infos, xml, world, calls, crashed, copies>>

(* mInfoNode is another node from here on, for everyone. *)
NewNode(t) ==
  /\ Step(t, "node", "append")
  /\ mInfoNode' = [mInfoNode EXCEPT ![using[t]] = t]
  /\ next' = [next EXCEPT ![t] = 1]
  /\ UNCHANGED <<using, infos, mXMLValid, content, world, calls, crashed, infoHistory>>

AppendField(t) ==
  LET info == using[t] IN
  /\ Step(t, "append", "append")
  /\ next[t] <= fields[info]
  /\ content' = [content EXCEPT ![info][mInfoNode[info]] = Append(@, next[t])]
  /\ next' = [next EXCEPT ![t] = @ + 1]
  /\ UNCHANGED <<using, infos, mXMLValid, mInfoNode, world, calls, crashed, infoHistory>>

(* Mutant: the loop over the fields may end one too early. *)
AllAppendedFew(t) ==
  /\ Step(t, "append", "validate")
  /\ next[t] >= fields[using[t]]
  /\ UNCHANGED <<using, next, infos, xml, world, calls, crashed, infoHistory>>

AllAppended(t) ==
  /\ Step(t, "append", "validate")
  /\ next[t] > fields[using[t]]
  /\ UNCHANGED <<using, next, infos, xml, world, calls, crashed, infoHistory>>

Validate(t) ==
  /\ Step(t, "validate", "copy")
  /\ mXMLValid' = [mXMLValid EXCEPT ![using[t]] = TRUE]
  /\ UNCHANGED <<using, next, infos, mInfoNode, content, world, calls, crashed, infoHistory>>

(* What is in the node that mInfoNode is now; a null node has nothing. *)
InNode(info) == IF mInfoNode[info] = NoThread THEN <<>> ELSE content[info][mInfoNode[info]]

(* importNode: a deep copy. *)
Copy(t) ==
  LET info == using[t] IN
  /\ Step(t, "copy", "idle")
  /\ using' = [using EXCEPT ![t] = NoThread]
  /\ copies' = copies \cup {[of |-> info, text |-> InNode(info), seen |-> file]}
  /\ UNCHANGED <<next, infos, xml, world, calls, crashed, torn>>

(* Someone moves a file there, removes it or changes its permissions. *)
ChangeFile(kind) ==
  /\ changes < MaxChanges
  /\ changes' = changes + 1
  /\ file' = kind
  /\ UNCHANGED <<at, using, next, infos, xml, calls, crashed, infoHistory>>

GetSongInfo(t) == TestInfo(t) \/ MakeInfo(t) \/ StoreInfo(t) \/ UseInfo(t)

CreateXML(t) == NewNode(t) \/ AppendField(t) \/ AllAppended(t)

AsXML(t) == TestXML(t) \/ CreateXML(t) \/ Validate(t) \/ Copy(t)

InfoNext ==
  \/ \E t \in Thread : GetSongInfo(t) \/ AsXML(t)
  \/ \E kind \in {"tagged", "unreadable"} : ChangeFile(kind)

InfoSpec == InfoInit /\ [][InfoNext]_infoVars

-----------------------------------------------------------------------------
Node == Thread \cup {NoThread}
Text == Seq(1..Fields)

InfoTypeOK ==
  /\ at \in [Thread -> {"idle", "make", "store", "use", "test", "node", "append", "validate",
                        "copy"}]
  /\ using \in [Thread -> Node]
  /\ next \in [Thread -> 1..(Fields + 1)]
  /\ mSongInfo \in Node
  /\ fields \in [Thread -> 0..Fields]
  /\ mXMLValid \in [Thread -> BOOLEAN]
  /\ mInfoNode \in [Thread -> Node]
  /\ content \in [Thread -> [Thread -> Text]]
  /\ file \in {"tagged", "foreign", "unreadable"}
  /\ changes \in 0..MaxChanges
  /\ calls \in [Thread -> 0..MaxCalls]
  /\ crashed \in BOOLEAN
  /\ torn \subseteq Thread
  /\ copies \subseteq [of : Thread, text : Text, seen : {"tagged", "foreign", "unreadable"}]

(***************************************************************************)
(* A caller gets the info's XML with every field once, in order, unless    *)
(* two threads were inside CreateXML of that info at the same time: a      *)
(* thread that finds mXMLValid set never sees XML that is being made by    *)
(* one thread alone, and two infos of one song do not mix.                 *)
(***************************************************************************)
TornOnlyByTwo == \A c \in copies : c.text = Whole(c.of) \/ c.of \in torn

(***************************************************************************)
(* Whatever two threads did to it, once nobody is at it any more the XML   *)
(* that all later callers get has every field of the info at least once:   *)
(* the thread whose node stays appended all of its fields to it.           *)
(***************************************************************************)
SettledComplete ==
  \A i \in Thread :
    mXMLValid[i] /\ Creating(i) = {} => 1..fields[i] \subseteq Range(InNode(i))

(***************************************************************************)
(* "Tells whether the XML information is valid" (SongInfoBase.h:26).       *)
(***************************************************************************)
ValidIsWhole == \A i \in Thread : mXMLValid[i] => InNode(i) = Whole(i)

(***************************************************************************)
(* "Pointer to SongInfo structure, may be 0" (SongFile.h:32): one song has *)
(* one info; another, if it is made, is never deleted.                     *)
(***************************************************************************)
OneInfo == \A c, d \in copies : c.of = d.of

(***************************************************************************)
(* A song that can be read when its XML is asked for shows what is in it.  *)
(***************************************************************************)
ShowsFile == \A c \in copies : c.seen = "tagged" => Len(c.text) >= Fields

(***************************************************************************)
(* No file brings the process down when its song is looked at.             *)
(***************************************************************************)
AnyFileShown == ~crashed
=============================================================================
