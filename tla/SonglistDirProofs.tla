-------------------------- MODULE SonglistDirProofs --------------------------
(***************************************************************************)
(* SonglistDir implements RequestQueue as long as one thread updates the   *)
(* list (UPDATE_BEFORE_TRANSMIT is not set), for any files, links, clock   *)
(* and number of updates; with the option two threads queue one file (see  *)
(* SonglistDir_twice.cfg).                                                 *)
(*                                                                         *)
(* Only the time stamp keeps a state of a file from being queued again, so *)
(* the invariant compares it with the dates of what was queued, of what is *)
(* in the directory and of what the update under way has yet to visit.     *)
(*                                                                         *)
(* FirstTakesAll and ListingSound hold with the option too; the first      *)
(* needs a directory without links.                                        *)
(***************************************************************************)
EXTENDS SonglistDir, FiniteSetTheorems, SequenceTheorems, TLAPS

Place == {"construct", "idle", "entry", "add", "next", "update", "size", "get"}

TypeInv ==
  /\ now \in 1..MaxTime
  /\ ctime \in [File -> 0..MaxTime]
  /\ mtime \in [File -> 0..MaxTime]
  /\ version \in [File -> 0..MaxChanges]
  /\ changes \in 0..MaxChanges
  /\ mSonglist \in Seq(SongType)
  /\ mLastTimeStamp \in Int
  /\ mNextUNID \in Nat
  /\ pc \in [Thread -> Place]
  /\ it \in [Thread -> Seq(InfoType)]
  /\ fDate \in [Thread -> [date : 0..MaxTime, version : 0..MaxChanges]]
  /\ pushed \in [1..MaxChanges -> Nat]
  /\ taken \in Seq(SongType)
  /\ \A t \in Thread : pc[t] = "add" => it[t] # <<>>

(***************************************************************************)
(* The constructor updates the list, then only the player does.            *)
(***************************************************************************)
Updater  == IF updated THEN "player" ELSE "main"
Updating == pc[Updater] \in {"entry", "add"}
Rest     == it[Updater]

UpdaterInv ==
  /\ updated \in BOOLEAN
  /\ ~updated => pc["player"] = "idle" /\ pc["main"] \in {"construct", "entry", "add"}
  /\ updated => /\ pc["main"] \in {"idle", "size", "get"}
                /\ pc["player"] \in {"idle", "entry", "add", "next"}

(***************************************************************************)
(* A version is the state of one name, and only one that there has been is *)
(* queued.                                                                 *)
(***************************************************************************)
Queued(v) == v \in 1..MaxChanges /\ pushed[v] > 0

VersionInv ==
  /\ \A f \in File : version[f] <= changes /\ (ctime[f] # Absent => version[f] >= 1)
  /\ \A f, g \in File : f # g /\ version[f] = version[g] => version[f] = 0
  /\ \A v \in 1..MaxChanges : pushed[v] > 0 => v <= changes

(***************************************************************************)
(* What an update has yet to visit: each name once, with a version that no *)
(* other name has, and the date of the file if it still is that version.   *)
(***************************************************************************)
RestInv ==
  Updating =>
    /\ \A a, b \in DOMAIN Rest :
         a # b => Rest[a].name # Rest[b].name /\ Rest[a].version # Rest[b].version
    /\ \A a \in DOMAIN Rest :
         /\ Rest[a].version \in 1..changes
         /\ \A f \in File : version[f] = Rest[a].version =>
              f = Rest[a].name /\ mtime[f] = Rest[a].modified

(***************************************************************************)
(* What was queued is not newer than the time stamp, and older unless the  *)
(* update under way has been past it.                                      *)
(***************************************************************************)
DateOf(f) == IF f \in Symlink THEN ctime[f] ELSE mtime[f]
ToVisit   == {Rest[a].name : a \in DOMAIN Rest}

StampInv ==
  /\ \A f \in File : Queued(version[f]) => DateOf(f) <= mLastTimeStamp
  /\ \A f \in File : Queued(version[f]) /\ (Updating => f \in ToVisit) => DateOf(f) < mLastTimeStamp
  /\ Updating => \A a \in DOMAIN Rest :
       Rest[a].name \notin Symlink /\ Queued(Rest[a].version) => Rest[a].modified < mLastTimeStamp

(***************************************************************************)
(* What is about to be added has not been queued and is in nobody's way.   *)
(***************************************************************************)
InHand == fDate[Updater]

AddInv ==
  pc[Updater] = "add" =>
    /\ Rest # <<>>
    /\ InHand.date >= mLastTimeStamp
    /\ InHand.version \in 1..changes
    /\ ~Queued(InHand.version)
    /\ \A f \in File : version[f] = InHand.version => f = Rest[1].name /\ DateOf(f) <= InHand.date
    /\ \A a \in DOMAIN Rest : a # 1 => Rest[a].version # InHand.version

(***************************************************************************)
(* The songs that wait have increasing ids, and dates from that of the     *)
(* last one played up to the time stamp.                                   *)
(***************************************************************************)
Played == IF taken = <<>> THEN 0 ELSE taken[Len(taken)].date

OrderInv ==
  /\ \A a \in DOMAIN mSonglist :
       /\ mSonglist[a].unid <= mNextUNID
       /\ Played <= mSonglist[a].date /\ mSonglist[a].date <= mLastTimeStamp
  /\ \A a, b \in DOMAIN mSonglist :
       a < b => mSonglist[a].unid < mSonglist[b].unid /\ mSonglist[a].date <= mSonglist[b].date
  /\ taken # <<>> => Played <= mLastTimeStamp

QueueInv == VersionInv /\ RestInv /\ StampInv /\ AddInv /\ OrderInv

-----------------------------------------------------------------------------
LEMMA InfoTyped ==
  ASSUME TypeInv, NEW f \in File
  PROVE  /\ Info(f) \in InfoType /\ Info(f).name = f
         /\ Info(f).modified = mtime[f] /\ Info(f).version = version[f]
BY DEF TypeInv, Info, InfoType

(* A listing has each name once, since it is as long as the directory.     *)
LEMMA ListingIs ==
  ASSUME TypeInv, NEW s \in Listings
  PROVE  /\ s \in Seq(InfoType)
         /\ \A a \in DOMAIN s : \E f \in OnDisk : s[a] = Info(f)
         /\ \A a, b \in DOMAIN s : a # b => s[a].name # s[b].name
<1> DEFINE n == Cardinality(OnDisk)
           names == [a \in 1..n |-> s[a].name]
<1>1. OnDisk \subseteq File /\ IsFiniteSet(OnDisk) /\ n \in Nat
  BY FileAssumption, FS_Subset, FS_CardinalityType DEF OnDisk
<1>2. /\ s \in [1..n -> {Info(f) : f \in OnDisk}]
      /\ \A f \in OnDisk : \E a \in DOMAIN s : s[a].name = f
  BY DEF Listings
<1>3. \A a \in 1..n : \E f \in OnDisk : s[a] = Info(f)
  BY <1>2
<1>4. \A a \in 1..n : s[a] \in InfoType /\ s[a].name \in OnDisk
  BY <1>1, <1>3, InfoTyped
<1>5. names \in Surjection(1..n, OnDisk)
  <2>1. names \in [1..n -> OnDisk]
    BY <1>4
  <2>2. \A f \in OnDisk : \E a \in 1..n : names[a] = f
    BY <1>2
  <2> QED BY <2>1, <2>2 DEF Surjection
<1>6. IsFiniteSet(1..n) /\ Cardinality(1..n) = Cardinality(OnDisk)
  BY <1>1, FS_Interval
<1>7. names \in Injection(1..n, OnDisk)
  BY <1>5, <1>6, FS_SurjSameCardinalityImpliesInj
<1>8. \A a, b \in 1..n : names[a] = names[b] => a = b
  BY <1>7 DEF Injection, IsInjective
<1>9. s \in Seq(InfoType) /\ DOMAIN s = 1..n
  BY <1>1, <1>2, <1>4
<1> QED BY <1>3, <1>8, <1>9

-----------------------------------------------------------------------------
(***************************************************************************)
(* The kinds of steps: what happens aside of updates, to the disk or not,  *)
(* and the steps of the one update there is.                               *)
(***************************************************************************)
Aside ==
  /\ UNCHANGED <<mLastTimeStamp, pushed, updated, it, fDate>>
  /\ Updating' = Updating
  /\ (pc[Updater] = "add")' = (pc[Updater] = "add")

Changes ==
  /\ Aside
  /\ UNCHANGED <<mSonglist, mNextUNID, taken>>
  /\ \/ UNCHANGED disk
     \/ \E f \in File : (\E m \in 1..now : Change(f, m)) \/ Remove(f)

Reads ==
  /\ Aside
  /\ UNCHANGED disk
  /\ UNCHANGED <<mSonglist, mNextUNID, taken>> \/ GetNextSong

Begins ==
  /\ ~Updating
  /\ \E s \in Listings : it' = [it EXCEPT ![Updater] = s]
  /\ Updating' /\ (pc[Updater] # "add")'
  /\ UNCHANGED <<disk, songs, fDate, updated, pushed, taken>>

LEMMA StepKinds ==
  ASSUME ~UpdateBeforeTransmit, TypeInv, UpdaterInv, [Next]_vars
  PROVE  /\ UpdaterInv'
         /\ Changes \/ Reads \/ Begins \/ Entry(Updater) \/ Add(Updater) \/ Stamp(Updater)
<1> USE DEF UpdaterInv
<1>1. pc \in [Thread -> Place] /\ "player" \in Thread /\ "main" \in Thread /\ Updater \in Thread
  BY DEF TypeInv, Thread, Updater
<1>2. CASE UNCHANGED vars
  BY <1>2 DEF vars, disk, songs, local, history, Changes, Aside, Updating, Updater
<1>3. CASE Tick
  BY <1>3 DEF Tick, disk, songs, local, history, Changes, Aside, Updating, Updater
<1>4. ASSUME NEW f \in File, (\E m \in 1..now : Change(f, m)) \/ Remove(f) PROVE UpdaterInv' /\ Changes
  BY <1>4 DEF Change, Remove, songs, local, history, Changes, Aside, Updating, Updater
<1>5. CASE AsXML \/ Size \/ GetSong
  <2>1. /\ UNCHANGED <<disk, mSonglist, mNextUNID, taken, mLastTimeStamp, pushed, updated, it, fDate>>
        /\ pc["main"] \in {"idle", "size", "get"}
        /\ \E p \in {"idle", "size", "get"} : pc' = [pc EXCEPT !["main"] = p]
    BY <1>5 DEF AsXML, Size, GetSong, Goto, songs, local, history
  <2>2. updated /\ Updater = "player" /\ pc'["player"] = pc["player"] /\ pc'["main"] \in {"idle", "size", "get"}
    BY <1>1, <2>1 DEF Updater
  <2> QED BY <2>1, <2>2 DEF Reads, Aside, Updating, Updater
<1>6. CASE GetNextSong
  <2>1. /\ UNCHANGED <<disk, mLastTimeStamp, pushed, updated, it, fDate>>
        /\ pc["player"] = "next" /\ pc' = [pc EXCEPT !["player"] = "idle"]
    BY <1>6 DEF GetNextSong, Goto, local
  <2>2. updated /\ Updater = "player" /\ pc'["player"] = "idle" /\ pc'["main"] = pc["main"]
    BY <1>1, <2>1 DEF Updater
  <2> QED BY <1>6, <2>1, <2>2 DEF Reads, Aside, Updating, Updater
<1>7. ASSUME NEW t \in Thread, NEW from, List(t, from), t = Updater,
             from \notin {"entry", "add"}
      PROVE  UpdaterInv' /\ Begins
  <2>1. /\ pc[t] = from /\ pc' = [pc EXCEPT ![t] = "entry"]
        /\ \E s \in Listings : it' = [it EXCEPT ![t] = s]
        /\ UNCHANGED <<disk, songs, fDate, updated, pushed, taken>>
    BY <1>7 DEF List, Goto
  <2>2. pc'[t] = "entry" /\ \A u \in Thread : u # t => pc'[u] = pc[u]
    BY <1>1, <2>1
  <2> QED BY <1>1, <1>7, <2>1, <2>2 DEF Begins, Updating, Updater, Thread
<1>8. CASE Construct
  <2>1. ~updated
    BY <1>8 DEF Construct, List, Goto
  <2> QED BY <1>1, <1>7, <1>8, <2>1 DEF Construct, Updater
<1>9. CASE PlayerUpdates
  BY <1>1, <1>7, <1>9 DEF PlayerUpdates, Updater
<1>10. ASSUME MainUpdates PROVE FALSE
  BY <1>10 DEF MainUpdates, List, Goto
<1>11. ASSUME NEW t \in Thread, UpdateStep(t)
       PROVE  UpdaterInv' /\ (Entry(Updater) \/ Add(Updater) \/ Stamp(Updater))
  <2>1. pc[t] \in {"entry", "add"}
    BY <1>11 DEF UpdateStep, Entry, Take, PassOver, Add, Stamp, Goto
  <2>2. t = Updater
    BY <2>1 DEF Updater, Thread
  <2>3. CASE Entry(t) \/ Add(t)
    <3>1. /\ UNCHANGED updated
          /\ \E p \in {"entry", "add"} : pc' = [pc EXCEPT ![t] = p]
      BY <2>3 DEF Entry, Take, PassOver, Add, Goto
    <3>2. pc'[t] \in {"entry", "add"} /\ \A u \in Thread : u # t => pc'[u] = pc[u]
      BY <1>1, <3>1
    <3> QED BY <1>1, <2>2, <2>3, <3>1, <3>2 DEF Updater, Thread
  <2>4. CASE Stamp(t)
    <3>1. updated' = TRUE /\ pc' = [pc EXCEPT ![t] = Then(t)]
      BY <2>4 DEF Stamp, Goto
    <3>2. pc'[t] = Then(t) /\ \A u \in Thread : u # t => pc'[u] = pc[u]
      BY <1>1, <3>1
    <3> QED BY <1>1, <2>2, <2>4, <3>1, <3>2 DEF Updater, Thread, Then
  <2> QED BY <1>11, <2>3, <2>4 DEF UpdateStep
<1> QED
  BY <1>2, <1>3, <1>4, <1>5, <1>6, <1>8, <1>9, <1>10, <1>11 DEF Next

LEMMA TypeInit == Init => TypeInv
BY BoundAssumption DEF Init, TypeInv, Place, Thread, Absent, NullStamp, Stamped

LEMMA TypeStep == TypeInv /\ [Next]_vars => TypeInv'
<1> SUFFICES ASSUME TypeInv, [Next]_vars PROVE TypeInv'
  OBVIOUS
<1> USE DEF TypeInv
<1>1. CASE UNCHANGED vars \/ Tick
  BY <1>1, BoundAssumption DEF vars, disk, songs, local, history, Tick
<1>2. ASSUME NEW f \in File, NEW m \in 1..now, Change(f, m) PROVE TypeInv'
  <2>1. changes + 1 \in 0..MaxChanges /\ m \in 0..MaxTime /\ now \in 0..MaxTime
    BY <1>2, BoundAssumption DEF Change
  <2>2. /\ version' = [version EXCEPT ![f] = changes + 1] /\ changes' = changes + 1
        /\ ctime' = [ctime EXCEPT ![f] = now] /\ mtime' = [mtime EXCEPT ![f] = m]
        /\ UNCHANGED <<now, mSonglist, mLastTimeStamp, mNextUNID, pc, it, fDate, pushed, taken>>
    BY <1>2 DEF Change, songs, local, history
  <2> QED BY <2>1, <2>2
<1>3. ASSUME NEW f \in File, Remove(f) PROVE TypeInv'
  BY <1>3, BoundAssumption DEF Remove, songs, local, history, Absent
<1>4. ASSUME NEW t \in Thread, NEW from \in Place, List(t, from) PROVE TypeInv'
  <2>1. \A s \in Listings : s \in Seq(InfoType)
    BY ListingIs
  <2> QED BY <1>4, <2>1 DEF List, Goto, disk, songs, Place
<1>5. ASSUME NEW t \in Thread, Entry(t) PROVE TypeInv'
  <2> DEFINE h == Head(it[t])
  <2>1. it[t] \in Seq(InfoType) /\ it[t] # <<>> /\ h \in InfoType
    BY <1>5 DEF Entry
  <2>2. Stat(h) \in [date : 0..MaxTime, version : 0..MaxChanges]
    BY <2>1 DEF Stat, Stamped, InfoType
  <2>3. Tail(it[t]) \in Seq(InfoType)
    BY <2>1
  <2>4. /\ fDate' = [fDate EXCEPT ![t] = Stat(h)]
        /\ it' = it \/ it' = [it EXCEPT ![t] = Tail(it[t])]
        /\ \E p \in Place : pc' = [pc EXCEPT ![t] = p]
        /\ UNCHANGED <<now, disk, songs, pushed, taken>>
    BY <1>5 DEF Entry, Take, PassOver, Goto, Place
  <2>5. \A u \in Thread : pc'[u] = "add" => it'[u] # <<>>
    <3>1. it[t] # <<>> /\ ((pc' = [pc EXCEPT ![t] = "add"] /\ it' = it)
             \/ (pc' = [pc EXCEPT ![t] = "entry"] /\ it' = [it EXCEPT ![t] = Tail(it[t])]))
      BY <1>5 DEF Entry, Take, PassOver, Goto
    <3> QED BY <3>1
  <2> QED BY <2>2, <2>3, <2>4, <2>5 DEF disk, songs
<1>6. ASSUME NEW t \in Thread, Add(t) PROVE TypeInv'
  <2> DEFINE song == [unid |-> mNextUNID + 1, date |-> fDate[t].date, version |-> fDate[t].version]
  <2>1. it[t] # <<>> /\ Tail(it[t]) \in Seq(InfoType)
    BY <1>6 DEF Add, Goto
  <2>2. song \in SongType
    BY DEF SongType
  <2>3. Append(mSonglist, song) \in Seq(SongType)
    BY <2>2
  <2>4. [pushed EXCEPT ![fDate[t].version] = @ + 1] \in [1..MaxChanges -> Nat]
    <3>1. \A v \in 1..MaxChanges : pushed[v] \in Nat /\ pushed[v] + 1 \in Nat
      OBVIOUS
    <3>2. \A v : [pushed EXCEPT ![v] = @ + 1] \in [1..MaxChanges -> Nat]
      BY <3>1
    <3> QED BY <3>2
  <2>5. /\ it' = [it EXCEPT ![t] = Tail(it[t])] /\ pc' = [pc EXCEPT ![t] = "entry"]
        /\ mSonglist' = Append(mSonglist, song) /\ mNextUNID' = mNextUNID + 1
        /\ mLastTimeStamp' = fDate[t].date /\ pushed' = [pushed EXCEPT ![fDate[t].version] = @ + 1]
        /\ UNCHANGED <<now, ctime, mtime, version, changes, fDate, taken>>
    BY <1>6 DEF Add, Goto, disk
  <2> HIDE DEF song
  <2>6. \A u \in Thread : pc'[u] = "add" => pc[u] = "add" /\ it'[u] = it[u]
    BY <2>5
  <2>7. mLastTimeStamp' \in Int
    BY <2>5
  <2>8. it' \in [Thread -> Seq(InfoType)] /\ pc' \in [Thread -> Place]
    BY <2>1, <2>5 DEF Place
  <2> QED BY <2>3, <2>4, <2>5, <2>6, <2>7, <2>8
<1>7. ASSUME NEW t \in Thread, Stamp(t) PROVE TypeInv'
  BY <1>7 DEF Stamp, Goto, AddSecs, disk, local, Place, Then
<1>8. CASE GetNextSong
  <2>1. CASE mSonglist = <<>>
    BY <1>8, <2>1 DEF GetNextSong, Goto, disk, local, Place, Thread
  <2>2. CASE mSonglist # <<>>
    <3>1. Head(mSonglist) \in SongType /\ Tail(mSonglist) \in Seq(SongType)
      BY <2>2
    <3>2. Append(taken, Head(mSonglist)) \in Seq(SongType)
      BY <3>1
    <3> QED BY <1>8, <2>2, <3>1, <3>2 DEF GetNextSong, Goto, disk, local, Place, Thread
  <2> QED BY <2>1, <2>2
<1>9. CASE AsXML \/ Size \/ GetSong
  BY <1>9 DEF AsXML, Size, GetSong, Goto, disk, songs, history, Place, Thread
<1> QED
  BY <1>1, <1>2, <1>3, <1>4, <1>5, <1>6, <1>7, <1>8, <1>9
     DEF Next, UpdateStep, Construct, PlayerUpdates, MainUpdates, Place, Thread

-----------------------------------------------------------------------------
(* What each kind of step does to the invariant's terms.                   *)
LEMMA TailIs ==
  ASSUME NEW S, NEW s \in Seq(S), s # <<>>
  PROVE  /\ Head(s) = s[1] /\ 1 \in DOMAIN s /\ DOMAIN s \subseteq Nat
         /\ DOMAIN Tail(s) \subseteq Nat
         /\ \A a \in DOMAIN Tail(s) : a + 1 \in DOMAIN s /\ a + 1 # 1 /\ Tail(s)[a] = s[a + 1]
         /\ \A a \in DOMAIN s : a # 1 => a - 1 \in DOMAIN Tail(s) /\ Tail(s)[a - 1] = s[a]
OBVIOUS

LEMMA AsideIs ==
  Aside => /\ Updater' = Updater /\ Rest' = Rest /\ InHand' = InHand
           /\ ToVisit' = ToVisit /\ Updating' = Updating
           /\ \A v : Queued(v)' = Queued(v)
BY DEF Aside, Updater, Rest, InHand, ToVisit, Queued

LEMMA RestTyped ==
  ASSUME TypeInv, UpdaterInv
  PROVE  /\ Updater \in Thread /\ Rest \in Seq(InfoType) /\ InHand \in [date : 0..MaxTime, version : 0..MaxChanges]
         /\ \A a \in DOMAIN Rest : Rest[a] \in InfoType
BY DEF TypeInv, UpdaterInv, Updater, Thread, Rest, InHand

LEMMA BeginIs ==
  ASSUME TypeInv, UpdaterInv, Begins
  PROVE  /\ ~Updating /\ Updating' /\ (pc[Updater] # "add")'
         /\ Rest' \in Listings
         /\ UNCHANGED <<disk, songs, pushed, taken>>
         /\ \A v : Queued(v)' = Queued(v)
BY RestTyped DEF Begins, TypeInv, Updater, Rest, Queued

LEMMA EntryIs ==
  ASSUME TypeInv, UpdaterInv, Entry(Updater)
  PROVE  /\ pc[Updater] = "entry" /\ Updating /\ Updating' /\ Updater' = Updater
         /\ Rest # <<>> /\ Head(Rest) = Rest[1] /\ 1 \in DOMAIN Rest
         /\ Rest[1].name \in Symlink => ctime[Rest[1].name] # Absent
         /\ InHand' = Stat(Rest[1])
         /\ UNCHANGED <<disk, songs, pushed, taken>>
         /\ \A v : Queued(v)' = Queued(v)
         /\ \/ Stat(Rest[1]).date >= mLastTimeStamp /\ (pc[Updater] = "add")' /\ Rest' = Rest
            \/ ~(Stat(Rest[1]).date >= mLastTimeStamp) /\ (pc[Updater] # "add")' /\ Rest' = Tail(Rest)
<1>1. Updater' = Updater /\ Updater \in Thread
  BY RestTyped DEF Entry, Updater
<1>2. /\ Rest # <<>> /\ InHand' = Stat(Head(Rest)) /\ UNCHANGED <<disk, songs, pushed, taken>>
      /\ Head(Rest).name \in Symlink => ctime[Head(Rest).name] # Absent
  BY <1>1 DEF Entry, Rest, InHand, OnDisk, TypeInv
<1>3. Head(Rest) = Rest[1] /\ 1 \in DOMAIN Rest
  BY <1>2, RestTyped, TailIs
<1>4. fDate'[Updater] = Stat(Head(Rest)) /\ (Take(Updater) \/ PassOver(Updater))
  BY <1>1, <1>2 DEF Entry, InHand
<1>5. CASE Take(Updater)
  <2>1. pc[Updater] = "entry" /\ pc'[Updater] = "add" /\ it' = it
    BY <1>1, <1>5 DEF Take, Goto, TypeInv
  <2> QED BY <1>1, <1>2, <1>3, <1>4, <1>5, <2>1 DEF Take, IsNew, Updating, Rest, Queued
<1>6. CASE PassOver(Updater)
  <2>1. pc[Updater] = "entry" /\ pc'[Updater] = "entry" /\ it'[Updater] = Tail(it[Updater])
    BY <1>1, <1>6 DEF PassOver, Goto, TypeInv
  <2> QED BY <1>1, <1>2, <1>3, <1>4, <1>6, <2>1 DEF PassOver, IsNew, Updating, Rest, Queued
<1> QED BY <1>4, <1>5, <1>6

LEMMA AddIs ==
  ASSUME TypeInv, UpdaterInv, Add(Updater)
  PROVE  /\ pc[Updater] = "add" /\ (pc[Updater] # "add")' /\ Updating /\ Updating' /\ Updater' = Updater
         /\ Rest # <<>> /\ Rest' = Tail(Rest)
         /\ mLastTimeStamp' = InHand.date /\ mNextUNID' = mNextUNID + 1
         /\ mSonglist' = Append(mSonglist, [unid |-> mNextUNID + 1, date |-> InHand.date,
                                            version |-> InHand.version])
         /\ pushed' = [pushed EXCEPT ![InHand.version] = @ + 1]
         /\ UNCHANGED <<disk, taken>>
<1>1. Updater' = Updater /\ Updater \in Thread
  BY RestTyped DEF Add, Updater
<1>2. /\ pc[Updater] = "add" /\ pc'[Updater] = "entry" /\ it'[Updater] = Tail(it[Updater])
  BY <1>1 DEF Add, Goto, TypeInv
<1> QED BY <1>1, <1>2 DEF Add, Updating, Rest, InHand, TypeInv

LEMMA StampIs ==
  ASSUME TypeInv, UpdaterInv, Stamp(Updater)
  PROVE  /\ Updating /\ ~Updating' /\ Rest = <<>>
         /\ mLastTimeStamp' = mLastTimeStamp + 1
         /\ UNCHANGED <<disk, mSonglist, mNextUNID, pushed, taken>>
         /\ \A v : Queued(v)' = Queued(v)
<1>1. /\ pc[Updater] = "entry" /\ updated' = TRUE /\ pc' = [pc EXCEPT ![Updater] = Then(Updater)]
      /\ Rest = <<>> /\ mLastTimeStamp' = mLastTimeStamp + 1
      /\ UNCHANGED <<disk, mSonglist, mNextUNID, pushed, taken>>
  BY DEF Stamp, Goto, Rest, AddSecs
<1>2. Updater' = "player"
  BY <1>1 DEF Updater
<1>3. pc'["player"] \in {"idle", "next"}
  BY <1>1, RestTyped DEF UpdaterInv, Updater, Then, TypeInv, Thread
<1> QED BY <1>1, <1>2, <1>3 DEF Updating, Queued

-----------------------------------------------------------------------------
LEMMA VersionStep ==
  ASSUME ~UpdateBeforeTransmit, TypeInv, UpdaterInv, VersionInv, AddInv, [Next]_vars
  PROVE  VersionInv'
<1>1. CASE Changes
  <2> USE DEF VersionInv
  <2>1. pushed' = pushed
    BY <1>1 DEF Changes, Aside
  <2>2. CASE UNCHANGED disk
    BY <2>1, <2>2 DEF disk
  <2>3. ASSUME NEW f \in File, NEW m \in 1..now, Change(f, m) PROVE VersionInv'
    <3>1. /\ version' = [version EXCEPT ![f] = changes + 1] /\ changes' = changes + 1
          /\ ctime' = [ctime EXCEPT ![f] = now] /\ changes \in Nat
      BY <2>3, BoundAssumption DEF Change, TypeInv
    <3>2. \A g \in File : version[g] \in Nat /\ version[g] # changes + 1
      BY <3>1, BoundAssumption DEF TypeInv
    <3>3. \A g \in File : version'[g] = (IF g = f THEN changes + 1 ELSE version[g])
                          /\ (g # f => ctime'[g] = ctime[g])
      BY <3>1 DEF TypeInv
    <3>4. \A v \in 1..MaxChanges : pushed'[v] > 0 => v <= changes'
      BY <2>1, <3>1
    <3>5. \A g \in File : version'[g] <= changes' /\ (ctime'[g] # Absent => version'[g] >= 1)
      BY <3>1, <3>2, <3>3
    <3>6. \A g, h \in File : g # h /\ version'[g] = version'[h] => version'[g] = 0
      BY <3>2, <3>3
    <3> QED BY <3>4, <3>5, <3>6
  <2>4. ASSUME NEW f \in File, Remove(f) PROVE VersionInv'
    BY <2>1, <2>4 DEF Remove, TypeInv
  <2> QED BY <1>1, <2>2, <2>3, <2>4 DEF Changes
<1>2. CASE Reads \/ Begins \/ Entry(Updater) \/ Stamp(Updater)
  <2>1. UNCHANGED disk /\ UNCHANGED pushed
    BY <1>2, EntryIs, StampIs DEF Reads, Aside, Begins
  <2> QED BY <2>1 DEF VersionInv, disk
<1>3. CASE Add(Updater)
  <2>1. /\ UNCHANGED disk /\ pushed' = [pushed EXCEPT ![InHand.version] = @ + 1]
        /\ InHand.version \in 1..changes
    BY <1>3, AddIs DEF AddInv
  <2>2. \A v \in 1..MaxChanges : v # InHand.version => pushed'[v] = pushed[v]
    BY <2>1 DEF TypeInv
  <2> QED BY <2>1, <2>2 DEF VersionInv, disk
<1> QED BY <1>1, <1>2, <1>3, StepKinds

LEMMA RestStep ==
  ASSUME ~UpdateBeforeTransmit, TypeInv, UpdaterInv, VersionInv, RestInv, [Next]_vars
  PROVE  RestInv'
<1> DEFINE Apart == \A a, b \in DOMAIN Rest :
                      a # b => Rest[a].name # Rest[b].name /\ Rest[a].version # Rest[b].version
           Ours  == \A a \in DOMAIN Rest :
                      /\ Rest[a].version \in 1..changes
                      /\ \A f \in File : version[f] = Rest[a].version =>
                           f = Rest[a].name /\ mtime[f] = Rest[a].modified
<1>1. RestInv <=> (Updating => Apart /\ Ours)
  BY DEF RestInv
<1>2. RestInv' <=> (Updating' => Apart' /\ Ours')
  BY DEF RestInv
<1>3. CASE Changes
  <2>1. Aside
    BY <1>3 DEF Changes
  <2>2. Rest' = Rest /\ Updating' = Updating
    BY <2>1, AsideIs
  <2>3. CASE UNCHANGED disk
    BY <1>1, <1>2, <2>2, <2>3 DEF disk
  <2>4. ASSUME NEW f \in File, NEW m \in 1..now, Change(f, m) PROVE RestInv'
    <3>1. /\ version' = [version EXCEPT ![f] = changes + 1] /\ changes' = changes + 1
          /\ mtime' = [mtime EXCEPT ![f] = m] /\ changes \in Nat
      BY <2>4, BoundAssumption DEF Change, TypeInv
    <3>2. \A g \in File : version'[g] = (IF g = f THEN changes + 1 ELSE version[g])
                          /\ (g # f => mtime'[g] = mtime[g])
      BY <3>1 DEF TypeInv
    <3>3. \A v \in 1..changes : v \in 1..changes' /\ v # changes + 1
      BY <3>1
    <3>4. Ours => Ours'
      BY <2>2, <3>2, <3>3
    <3>5. Apart => Apart'
      BY <2>2
    <3> QED BY <1>1, <1>2, <2>2, <3>4, <3>5
  <2>5. ASSUME NEW f \in File, Remove(f) PROVE RestInv'
    <3>1. UNCHANGED <<version, mtime, changes>>
      BY <2>5 DEF Remove
    <3> QED BY <1>1, <1>2, <2>2, <3>1
  <2> QED BY <1>3, <2>3, <2>4, <2>5 DEF Changes
<1>4. CASE Reads
  <2>1. UNCHANGED disk /\ Rest' = Rest /\ Updating' = Updating
    BY <1>4, AsideIs DEF Reads
  <2> QED BY <1>1, <1>2, <2>1 DEF disk
<1>5. CASE Begins
  <2>1. Rest' \in Listings /\ UNCHANGED disk
    BY <1>5, BeginIs
  <2>2. /\ \A a \in DOMAIN Rest' : \E f \in OnDisk : Rest'[a] = Info(f)
        /\ \A a, b \in DOMAIN Rest' : a # b => Rest'[a].name # Rest'[b].name
    BY <2>1, ListingIs
  <2>3. \A f \in OnDisk : f \in File /\ version[f] \in 1..changes
    BY BoundAssumption DEF OnDisk, VersionInv, TypeInv
  <2>4. ASSUME NEW a \in DOMAIN Rest'
        PROVE  /\ Rest'[a].version \in 1..changes
               /\ \A f \in File : version[f] = Rest'[a].version =>
                    f = Rest'[a].name /\ mtime[f] = Rest'[a].modified
    <3>1. PICK f \in OnDisk : Rest'[a] = Info(f)
      BY <2>2
    <3>2. f \in File /\ version[f] # 0 /\ version[f] \in 1..changes
      BY <2>3, BoundAssumption DEF TypeInv
    <3>3. \A g \in File : version[g] = version[f] => g = f
      BY <3>2 DEF VersionInv
    <3> QED BY <3>1, <3>2, <3>3, InfoTyped
  <2>5. ASSUME NEW a \in DOMAIN Rest', NEW b \in DOMAIN Rest', a # b
        PROVE  Rest'[a].version # Rest'[b].version
    <3>1. PICK f \in OnDisk : Rest'[a] = Info(f)
      BY <2>2
    <3>2. f \in File /\ Rest'[a].name = f /\ Rest'[a].version = version[f]
      BY <2>3, <3>1, InfoTyped
    <3>3. Rest'[b].version = version[f] => f = Rest'[b].name
      BY <2>4, <3>2
    <3> QED BY <2>2, <2>5, <3>2, <3>3
  <2> QED BY <1>2, <2>1, <2>2, <2>4, <2>5 DEF disk
<1>6. CASE Entry(Updater) \/ Add(Updater)
  <2>1. UNCHANGED disk /\ Updating /\ Rest # <<>> /\ (Rest' = Rest \/ Rest' = Tail(Rest))
    BY <1>6, EntryIs, AddIs
  <2>2. CASE Rest' = Rest
    BY <1>1, <1>2, <2>1, <2>2 DEF disk
  <2>3. CASE Rest' = Tail(Rest)
    <3>1. /\ DOMAIN Rest' \subseteq Nat
          /\ \A a \in DOMAIN Rest' : a + 1 \in DOMAIN Rest /\ Rest'[a] = Rest[a + 1]
      BY <2>1, <2>3, RestTyped, TailIs
    <3>2. \A a, b \in DOMAIN Rest' : a # b => a + 1 # b + 1
      BY <3>1
    <3>3. Apart' /\ Ours'
      BY <1>1, <2>1, <3>1, <3>2 DEF disk
    <3> QED BY <1>2, <3>3
  <2> QED BY <2>1, <2>2, <2>3
<1>7. CASE Stamp(Updater)
  BY <1>2, <1>7, StampIs
<1> QED BY <1>3, <1>4, <1>5, <1>6, <1>7, StepKinds

(* What changes of the disk do to the dates. *)
LEMMA DatesTyped ==
  ASSUME TypeInv PROVE \A f \in File : DateOf(f) \in Nat /\ version[f] \in Nat
BY DEF TypeInv, DateOf

LEMMA DateChange ==
  ASSUME TypeInv, VersionInv, Changes, NEW f \in File
  PROVE  \/ version'[f] = version[f] /\ DateOf(f)' \in {DateOf(f), 0}
         \/ version'[f] = changes + 1
<1>1. CASE UNCHANGED disk
  BY <1>1 DEF disk, DateOf
<1>2. ASSUME NEW g \in File, NEW m \in 1..now, Change(g, m)
      PROVE  version'[f] = changes + 1 \/ (version'[f] = version[f] /\ DateOf(f)' = DateOf(f))
  BY <1>2 DEF Change, TypeInv, DateOf
<1>3. ASSUME NEW g \in File, Remove(g)
      PROVE  version'[f] = version[f] /\ DateOf(f)' \in {DateOf(f), 0}
  BY <1>3 DEF Remove, TypeInv, DateOf, Absent
<1> QED BY <1>1, <1>2, <1>3 DEF Changes

LEMMA StampStep ==
  ASSUME ~UpdateBeforeTransmit, TypeInv, UpdaterInv, VersionInv, RestInv, StampInv, AddInv, [Next]_vars
  PROVE  StampInv'
<1> DEFINE NotNewer == \A f \in File : Queued(version[f]) => DateOf(f) <= mLastTimeStamp
           Older == \A f \in File :
             Queued(version[f]) /\ (Updating => f \in ToVisit) => DateOf(f) < mLastTimeStamp
           RestOlder == \A a \in DOMAIN Rest :
             Rest[a].name \notin Symlink /\ Queued(Rest[a].version) => Rest[a].modified < mLastTimeStamp
<1>1. /\ StampInv <=> NotNewer /\ Older /\ (Updating => RestOlder)
      /\ StampInv' <=> NotNewer' /\ Older' /\ (Updating' => RestOlder')
  BY DEF StampInv
<1>2. mLastTimeStamp \in Int /\ \A f \in File : DateOf(f) \in Nat /\ version[f] \in Nat
  BY DatesTyped DEF TypeInv
<1>3. CASE Changes
  <2>1. /\ Rest' = Rest /\ Updating' = Updating /\ ToVisit' = ToVisit
        /\ mLastTimeStamp' = mLastTimeStamp /\ \A v : Queued(v)' = Queued(v)
    BY <1>3, AsideIs DEF Changes, Aside
  <2>2. changes \in Nat /\ ~Queued(changes + 1)
    BY BoundAssumption DEF VersionInv, Queued, TypeInv
  <2>3. ASSUME NEW f \in File, Queued(version'[f])
        PROVE  version'[f] = version[f] /\ Queued(version[f]) /\ DateOf(f)' \in {DateOf(f), 0}
    BY <1>3, <2>2, <2>3, DateChange
  <2>6. NotNewer'
    <3> SUFFICES ASSUME NEW f \in File, version'[f] \in 1..MaxChanges, pushed'[version'[f]] > 0
                 PROVE  DateOf(f)' <= mLastTimeStamp'
      BY DEF Queued
    <3>1. Queued(version'[f])
      BY <1>3 DEF Queued, Changes, Aside
    <3>2. Queued(version[f]) /\ DateOf(f)' \in {DateOf(f), 0}
      BY <2>3, <3>1
    <3>3. DateOf(f) <= mLastTimeStamp
      BY <1>1, <3>2
    <3> QED BY <1>2, <2>1, <3>2, <3>3
  <2>7. Older'
    <3> SUFFICES ASSUME NEW f \in File, version'[f] \in 1..MaxChanges, pushed'[version'[f]] > 0,
                        Updating' => f \in ToVisit'
                 PROVE  DateOf(f)' < mLastTimeStamp'
      BY DEF Queued
    <3>1. Queued(version'[f])
      BY <1>3 DEF Queued, Changes, Aside
    <3>2. Queued(version[f]) /\ DateOf(f)' \in {DateOf(f), 0}
      BY <2>3, <3>1
    <3>3. DateOf(f) < mLastTimeStamp
      BY <1>1, <2>1, <3>2
    <3> QED BY <1>2, <2>1, <3>2, <3>3
  <2>8. Updating' => RestOlder'
    BY <1>1, <2>1
  <2> QED BY <1>1, <2>6, <2>7, <2>8
<1>4. CASE Reads
  <2>1. /\ Rest' = Rest /\ Updating' = Updating /\ ToVisit' = ToVisit
        /\ mLastTimeStamp' = mLastTimeStamp /\ \A v : Queued(v)' = Queued(v)
        /\ UNCHANGED disk
    BY <1>4, AsideIs DEF Reads, Aside
  <2>2. UNCHANGED version /\ \A f \in File : DateOf(f)' = DateOf(f)
    BY <2>1 DEF disk, DateOf
  <2> QED BY <1>1, <2>1, <2>2
<1>5. CASE Begins
  <2>1. /\ ~Updating /\ Rest' \in Listings /\ mLastTimeStamp' = mLastTimeStamp
        /\ \A v : Queued(v)' = Queued(v)
        /\ UNCHANGED disk
    BY <1>5, BeginIs DEF songs
  <2>2. UNCHANGED version /\ \A f \in File : DateOf(f)' = DateOf(f)
    BY <2>1 DEF disk, DateOf
  <2>3. \A f \in File : Queued(version[f]) => DateOf(f) < mLastTimeStamp
    BY <1>1, <2>1
  <2>4. RestOlder'
    <3> SUFFICES ASSUME NEW a \in DOMAIN Rest', Rest'[a].name \notin Symlink, Queued(Rest'[a].version)
                 PROVE  Rest'[a].modified < mLastTimeStamp
      BY <2>1
    <3>1. PICK f \in OnDisk : Rest'[a] = Info(f)
      BY <2>1, ListingIs
    <3>2. f \in File /\ Rest'[a].name = f /\ Rest'[a].modified = mtime[f] /\ Rest'[a].version = version[f]
      BY <3>1, InfoTyped DEF OnDisk
    <3> QED BY <2>3, <3>2 DEF DateOf
  <2> QED BY <1>1, <1>2, <2>1, <2>2, <2>3, <2>4
<1>6. CASE Entry(Updater)
  <2>1. /\ Updating /\ Rest # <<>> /\ (Rest' = Rest \/ Rest' = Tail(Rest))
        /\ mLastTimeStamp' = mLastTimeStamp /\ \A v : Queued(v)' = Queued(v)
        /\ Updating' /\ UNCHANGED disk
    BY <1>6, EntryIs DEF songs
  <2>2. UNCHANGED version /\ \A f \in File : DateOf(f)' = DateOf(f)
    BY <2>1 DEF disk, DateOf
  <2>3. \A a \in DOMAIN Rest' : \E b \in DOMAIN Rest : Rest'[a] = Rest[b]
    BY <2>1, RestTyped, TailIs
  <2>4. ToVisit' \subseteq ToVisit
    BY <2>3 DEF ToVisit
  <2> QED BY <1>1, <2>1, <2>2, <2>3, <2>4
<1>7. CASE Add(Updater)
  <2>1. /\ pc[Updater] = "add" /\ Updating /\ Updating' /\ Rest # <<>> /\ Rest' = Tail(Rest)
        /\ mLastTimeStamp' = InHand.date /\ UNCHANGED disk
        /\ pushed' = [pushed EXCEPT ![InHand.version] = @ + 1]
    BY <1>7, AddIs
  <2>2. UNCHANGED version /\ \A f \in File : DateOf(f)' = DateOf(f)
    BY <2>1 DEF disk, DateOf
  <2>3. \A v : Queued(v)' => Queued(v) \/ v = InHand.version
    BY <2>1 DEF Queued, TypeInv
  <2>4. /\ InHand.date >= mLastTimeStamp /\ InHand.date \in Int
        /\ \A f \in File : version[f] = InHand.version => f = Rest[1].name /\ DateOf(f) <= InHand.date
        /\ \A a \in DOMAIN Rest : a # 1 => Rest[a].version # InHand.version
    BY <2>1, RestTyped DEF AddInv
  <2>5. /\ \A a, b \in DOMAIN Rest : a # b => Rest[a].name # Rest[b].name
        /\ 1 \in DOMAIN Rest
        /\ \A a \in DOMAIN Rest' : a + 1 \in DOMAIN Rest /\ a + 1 # 1 /\ Rest'[a] = Rest[a + 1]
    BY <2>1, RestTyped, TailIs DEF RestInv
  <2>6. Rest[1].name \notin ToVisit' /\ ToVisit' \subseteq ToVisit
    BY <2>5 DEF ToVisit
  <2>7. \A f \in File : Queued(version[f]) => DateOf(f) <= mLastTimeStamp
                                             /\ (f \in ToVisit => DateOf(f) < mLastTimeStamp)
    BY <1>1, <2>1
  <2>8. NotNewer'
    BY <1>2, <2>1, <2>2, <2>3, <2>4, <2>7
  <2>9. Older'
    BY <1>2, <2>1, <2>2, <2>3, <2>4, <2>6, <2>7
  <2>10. RestOlder'
    <3> SUFFICES ASSUME NEW a \in DOMAIN Rest', Rest'[a].name \notin Symlink,
                        Rest'[a].version \in 1..MaxChanges, pushed'[Rest'[a].version] > 0
                 PROVE  Rest'[a].modified < mLastTimeStamp'
      BY DEF Queued
    <3>1. Rest'[a] = Rest[a + 1] /\ a + 1 \in DOMAIN Rest /\ Rest[a + 1].version # InHand.version
      BY <2>4, <2>5
    <3>2. Queued(Rest[a + 1].version)
      BY <2>3, <3>1 DEF Queued
    <3>3. Rest[a + 1].modified < mLastTimeStamp /\ Rest[a + 1].modified \in Int
      BY <1>1, <2>1, <3>1, <3>2, RestTyped DEF InfoType
    <3> QED BY <1>2, <2>1, <2>4, <3>1, <3>3
  <2> QED BY <1>1, <2>8, <2>9, <2>10
<1>8. CASE Stamp(Updater)
  <2>1. /\ ~Updating' /\ mLastTimeStamp' = mLastTimeStamp + 1 /\ UNCHANGED disk
        /\ \A v : Queued(v)' = Queued(v)
    BY <1>8, StampIs
  <2>2. UNCHANGED version /\ \A f \in File : DateOf(f)' = DateOf(f)
    BY <2>1 DEF disk, DateOf
  <2> QED BY <1>1, <1>2, <2>1, <2>2
<1> QED BY <1>3, <1>4, <1>5, <1>6, <1>7, <1>8, StepKinds

LEMMA AddStep ==
  ASSUME ~UpdateBeforeTransmit, TypeInv, UpdaterInv, VersionInv, RestInv, StampInv, AddInv, [Next]_vars
  PROVE  AddInv'
<1> SUFFICES ASSUME (pc[Updater] = "add")' PROVE AddInv'
  BY DEF AddInv
<1>1. \A f \in File : DateOf(f) \in Nat /\ version[f] \in Nat
  BY DatesTyped
<1>2. CASE Changes
  <2>1. /\ pc[Updater] = "add" /\ Rest' = Rest /\ InHand' = InHand
        /\ mLastTimeStamp' = mLastTimeStamp /\ \A v : Queued(v)' = Queued(v)
    BY <1>2, AsideIs DEF Changes, Aside
  <2>2. changes \in Nat /\ changes' \in {changes, changes + 1}
    BY <1>2, BoundAssumption DEF Changes, Change, Remove, disk, TypeInv
  <2>3. /\ Rest # <<>> /\ InHand.date >= mLastTimeStamp
        /\ InHand.version \in 1..changes /\ ~Queued(InHand.version)
        /\ \A f \in File : version[f] = InHand.version => f = Rest[1].name /\ DateOf(f) <= InHand.date
        /\ \A a \in DOMAIN Rest : a # 1 => Rest[a].version # InHand.version
    BY <2>1 DEF AddInv
  <2>4. ASSUME NEW f \in File, version'[f] = InHand.version
        PROVE  f = Rest[1].name /\ DateOf(f)' <= InHand.date
    <3>1. version'[f] # changes + 1
      BY <2>2, <2>3, <2>4
    <3>2. version[f] = InHand.version /\ DateOf(f)' \in {DateOf(f), 0}
      BY <1>2, <2>4, <3>1, DateChange
    <3> QED BY <1>1, <2>3, <3>2, RestTyped
  <2>5. InHand.version \in 1..changes'
    BY <2>2, <2>3
  <2> QED BY <2>1, <2>3, <2>4, <2>5 DEF AddInv
<1>3. CASE Reads
  <2>1. /\ pc[Updater] = "add" /\ Rest' = Rest /\ InHand' = InHand
        /\ mLastTimeStamp' = mLastTimeStamp /\ \A v : Queued(v)' = Queued(v)
        /\ UNCHANGED disk
    BY <1>3, AsideIs DEF Reads, Aside
  <2>2. UNCHANGED <<version, changes>> /\ \A f \in File : DateOf(f)' = DateOf(f)
    BY <2>1 DEF disk, DateOf
  <2> QED BY <2>1, <2>2 DEF AddInv
<1>4. CASE Begins \/ Add(Updater)
  BY <1>4, BeginIs, AddIs
<1>5. CASE Stamp(Updater)
  BY <1>5, StampIs DEF Updating
<1>6. CASE Entry(Updater)
  <2> DEFINE e == Rest[1]
  <2>1. /\ Rest # <<>> /\ 1 \in DOMAIN Rest /\ Rest' = Rest /\ Updating
        /\ InHand' = Stat(e) /\ Stat(e).date >= mLastTimeStamp
        /\ e.name \in Symlink => ctime[e.name] # Absent
        /\ mLastTimeStamp' = mLastTimeStamp /\ \A v : Queued(v)' = Queued(v)
        /\ UNCHANGED disk
    BY <1>6, EntryIs DEF songs
  <2>2. UNCHANGED <<version, changes>> /\ \A f \in File : DateOf(f)' = DateOf(f)
    BY <2>1 DEF disk, DateOf
  <2>3. e \in InfoType /\ e.name \in File /\ e.name \in ToVisit /\ e.modified \in Nat
    BY <2>1, RestTyped DEF InfoType, ToVisit
  <2>4. /\ \A a \in DOMAIN Rest : a # 1 => Rest[a].name # e.name /\ Rest[a].version # e.version
        /\ \A a \in DOMAIN Rest :
             /\ Rest[a].version \in 1..changes
             /\ \A f \in File : version[f] = Rest[a].version =>
                  f = Rest[a].name /\ mtime[f] = Rest[a].modified
    BY <2>1 DEF RestInv
  <2>5. mLastTimeStamp \in Int
    BY DEF TypeInv
  <2> SUFFICES /\ Stat(e).version \in 1..changes
               /\ ~Queued(Stat(e).version)
               /\ \A f \in File : version[f] = Stat(e).version => f = e.name /\ DateOf(f) <= Stat(e).date
               /\ \A a \in DOMAIN Rest : a # 1 => Rest[a].version # Stat(e).version
    BY <2>1, <2>2 DEF AddInv
  <2>6. CASE e.name \in Symlink
    <3>1. Stat(e).date = ctime[e.name] /\ Stat(e).version = version[e.name] /\ DateOf(e.name) = ctime[e.name]
      BY <2>6 DEF Stat, Stamped, DateOf
    <3>2. version[e.name] \in 1..changes
      BY <2>1, <2>3, <2>6, BoundAssumption DEF VersionInv, TypeInv
    <3>3. ~Queued(version[e.name])
      BY <1>1, <2>1, <2>3, <2>5, <3>1 DEF StampInv
    <3>4. \A f \in File : version[f] = version[e.name] => f = e.name
      BY <2>3, <3>2 DEF VersionInv
    <3>5. \A a \in DOMAIN Rest : a # 1 => Rest[a].version # version[e.name]
      BY <2>3, <2>4
    <3> QED BY <1>1, <2>3, <3>1, <3>2, <3>3, <3>4, <3>5
  <2>7. CASE e.name \notin Symlink
    <3>1. Stat(e).date = e.modified /\ Stat(e).version = e.version
      BY <2>7 DEF Stat, Stamped
    <3>2. ~Queued(e.version)
      BY <2>1, <2>3, <2>5, <2>7, <3>1 DEF StampInv
    <3>3. \A f \in File : version[f] = e.version => f = e.name /\ DateOf(f) = e.modified
      BY <2>1, <2>4, <2>7 DEF DateOf
    <3> QED BY <2>1, <2>3, <2>4, <3>1, <3>2, <3>3
  <2> QED BY <2>6, <2>7
<1> QED BY <1>2, <1>3, <1>4, <1>5, <1>6, StepKinds

-----------------------------------------------------------------------------
LEMMA SongsTyped ==
  ASSUME TypeInv
  PROVE  /\ mSonglist \in Seq(SongType) /\ mNextUNID \in Nat /\ mLastTimeStamp \in Int /\ Played \in Nat
         /\ \A a \in DOMAIN mSonglist :
              mSonglist[a].unid \in Nat /\ mSonglist[a].date \in Nat /\ a \in Nat
<1>1. ASSUME taken # <<>> PROVE taken[Len(taken)] \in SongType
  BY <1>1 DEF TypeInv
<1>2. Played \in Nat
  BY <1>1 DEF Played, SongType
<1>3. \A a \in DOMAIN mSonglist : mSonglist[a] \in SongType /\ a \in Nat
  BY DEF TypeInv
<1> QED BY <1>2, <1>3 DEF TypeInv, SongType

(* Which steps leave the songs alone, and what the others do.              *)
LEMMA SongSteps ==
  ASSUME ~UpdateBeforeTransmit, TypeInv, UpdaterInv, [Next]_vars
  PROVE  \/ UNCHANGED <<mSonglist, mNextUNID, pushed, taken>>
              /\ mLastTimeStamp' \in {mLastTimeStamp, mLastTimeStamp + 1}
         \/ /\ mSonglist # <<>> /\ mSonglist' = Tail(mSonglist)
            /\ taken' = Append(taken, Head(mSonglist))
            /\ UNCHANGED <<mNextUNID, pushed, mLastTimeStamp>>
         \/ Add(Updater)
<1>1. CASE Changes
  BY <1>1 DEF Changes, Aside
<1>2. CASE Reads
  BY <1>2 DEF Reads, Aside, GetNextSong
<1>3. CASE Begins
  BY <1>3 DEF Begins, songs
<1>4. CASE Entry(Updater)
  BY <1>4, EntryIs DEF songs
<1>5. CASE Stamp(Updater)
  BY <1>5, StampIs
<1> QED BY <1>1, <1>2, <1>3, <1>4, <1>5, StepKinds

(* What Add appends is newer than every song, and has an id of its own.    *)
LEMMA Appended ==
  ASSUME TypeInv, UpdaterInv, AddInv, Add(Updater)
  PROVE  LET n == Len(mSonglist) IN
           /\ n \in Nat /\ DOMAIN mSonglist = 1..n /\ DOMAIN mSonglist' = 1..(n + 1)
           /\ \A a \in 1..n : mSonglist'[a] = mSonglist[a]
           /\ mSonglist'[n + 1] = [unid |-> mNextUNID + 1, date |-> InHand.date,
                                   version |-> InHand.version]
           /\ InHand.date \in Nat /\ InHand.date >= mLastTimeStamp
           /\ InHand.version \in 1..MaxChanges /\ ~Queued(InHand.version)
           /\ pushed' = [pushed EXCEPT ![InHand.version] = @ + 1]
           /\ mNextUNID' = mNextUNID + 1 /\ mLastTimeStamp' = InHand.date /\ taken' = taken
<1>1. /\ mSonglist \in Seq(SongType)
      /\ mSonglist' = Append(mSonglist, [unid |-> mNextUNID + 1, date |-> InHand.date,
                                         version |-> InHand.version])
  BY AddIs DEF TypeInv
<1>2. InHand.date \in Nat /\ InHand.date >= mLastTimeStamp /\ InHand.version \in 1..MaxChanges
      /\ ~Queued(InHand.version)
  <2>1. InHand.date \in Nat /\ changes \in 0..MaxChanges /\ MaxChanges \in Nat
    BY RestTyped, BoundAssumption DEF TypeInv
  <2>2. InHand.date >= mLastTimeStamp /\ InHand.version \in 1..changes /\ ~Queued(InHand.version)
    BY AddIs DEF AddInv
  <2> QED BY <2>1, <2>2
<1>3. /\ Len(mSonglist) \in Nat /\ DOMAIN mSonglist = 1..Len(mSonglist)
      /\ DOMAIN mSonglist' = 1..(Len(mSonglist) + 1)
      /\ \A a \in 1..Len(mSonglist) : mSonglist'[a] = mSonglist[a]
      /\ mSonglist'[Len(mSonglist) + 1] = [unid |-> mNextUNID + 1, date |-> InHand.date,
                                           version |-> InHand.version]
  BY <1>1
<1> QED BY <1>2, <1>3, AddIs

LEMMA OrderStep ==
  ASSUME ~UpdateBeforeTransmit, TypeInv, UpdaterInv, AddInv, OrderInv, [Next]_vars
  PROVE  OrderInv'
<1> USE SongsTyped
<1>1. CASE UNCHANGED <<mSonglist, mNextUNID, pushed, taken>>
           /\ mLastTimeStamp' \in {mLastTimeStamp, mLastTimeStamp + 1}
  <2>1. Played' = Played
    BY <1>1 DEF Played
  <2> QED BY <1>1, <2>1 DEF OrderInv
<1>2. CASE /\ mSonglist # <<>> /\ mSonglist' = Tail(mSonglist)
           /\ taken' = Append(taken, Head(mSonglist))
           /\ UNCHANGED <<mNextUNID, pushed, mLastTimeStamp>>
  <2>1. /\ Head(mSonglist) = mSonglist[1] /\ 1 \in DOMAIN mSonglist /\ DOMAIN mSonglist' \subseteq Nat
        /\ \A a \in DOMAIN mSonglist' : a + 1 \in DOMAIN mSonglist /\ 1 < a + 1
                                        /\ mSonglist'[a] = mSonglist[a + 1]
    <3>1. \A a \in DOMAIN mSonglist' : a >= 1
      BY <1>2
    <3> QED BY <1>2, <3>1, TailIs
  <2>2. taken' # <<>> /\ Played' = mSonglist[1].date
    <3>1. taken \in Seq(SongType) /\ Head(mSonglist) \in SongType
      BY <1>2 DEF TypeInv
    <3>2. taken' # <<>> /\ taken'[Len(taken')] = Head(mSonglist)
      BY <1>2, <3>1
    <3> QED BY <2>1, <3>2 DEF Played
  <2>3. \A a, b \in DOMAIN mSonglist' : a < b => a + 1 < b + 1
    BY <2>1
  <2> QED BY <1>2, <2>1, <2>2, <2>3 DEF OrderInv
<1>3. CASE Add(Updater)
  <2> DEFINE n == Len(mSonglist)
  <2>1. /\ n \in Nat /\ DOMAIN mSonglist = 1..n /\ DOMAIN mSonglist' = 1..(n + 1)
        /\ \A a \in 1..n : mSonglist'[a] = mSonglist[a]
        /\ mSonglist'[n + 1].unid = mNextUNID + 1 /\ mSonglist'[n + 1].date = InHand.date
        /\ InHand.date \in Nat /\ InHand.date >= mLastTimeStamp
        /\ mNextUNID' = mNextUNID + 1 /\ mLastTimeStamp' = InHand.date /\ taken' = taken
    BY <1>3, Appended
  <2>2. Played' = Played /\ Played <= InHand.date
    BY <2>1 DEF Played, OrderInv
  <2> HIDE DEF n
  <2>3. \A a \in 1..(n + 1) : a \in 1..n \/ a = n + 1
    BY <2>1
  <2>4. \A a \in 1..n : mSonglist[a].unid < mNextUNID + 1 /\ mSonglist[a].date <= InHand.date
                        /\ Played <= mSonglist[a].date
    <3> SUFFICES ASSUME NEW a \in DOMAIN mSonglist
                 PROVE  mSonglist[a].unid < mNextUNID + 1 /\ mSonglist[a].date <= InHand.date
                        /\ Played <= mSonglist[a].date
      BY <2>1
    <3>1. mSonglist[a].unid <= mNextUNID /\ mSonglist[a].date <= mLastTimeStamp
          /\ Played <= mSonglist[a].date
      BY DEF OrderInv
    <3>2. mSonglist[a].unid \in Nat /\ mSonglist[a].date \in Nat
      OBVIOUS
    <3> QED BY <2>1, <3>1, <3>2
  <2>5. \A a \in DOMAIN mSonglist' :
          /\ mSonglist'[a].unid <= mNextUNID'
          /\ Played' <= mSonglist'[a].date /\ mSonglist'[a].date <= mLastTimeStamp'
    BY <2>1, <2>2, <2>3, <2>4
  <2>6. \A a, b \in DOMAIN mSonglist' :
          a < b => mSonglist'[a].unid < mSonglist'[b].unid /\ mSonglist'[a].date <= mSonglist'[b].date
    <3> SUFFICES ASSUME NEW a \in 1..(n + 1), NEW b \in 1..(n + 1), a < b
                 PROVE  mSonglist'[a].unid < mSonglist'[b].unid /\ mSonglist'[a].date <= mSonglist'[b].date
      BY <2>1
    <3>1. a \in 1..n
      BY <2>1
    <3>2. CASE b \in 1..n
      BY <2>1, <3>1, <3>2 DEF OrderInv
    <3>3. CASE b = n + 1
      BY <2>1, <2>4, <3>1, <3>3
    <3> QED BY <2>3, <3>2, <3>3
  <2>7. Played' <= mLastTimeStamp'
    BY <2>1, <2>2
  <2> QED BY <2>5, <2>6, <2>7 DEF OrderInv
<1> QED BY <1>1, <1>2, <1>3, SongSteps

-----------------------------------------------------------------------------
LEMMA AbstractStep ==
  ASSUME ~UpdateBeforeTransmit, TypeInv, UpdaterInv, AddInv, OrderInv, [Next]_vars
  PROVE  [Abstract!Next]_(Abstract!vars)
<1> DEFINE W == {Request(mSonglist[n]) : n \in DOMAIN mSonglist}
           Q == {v \in 1..MaxChanges : pushed[v] > 0}
<1>1. CASE UNCHANGED <<mSonglist, pushed, taken>>
  BY <1>1 DEF Abstract!vars
<1>2. CASE /\ mSonglist # <<>> /\ mSonglist' = Tail(mSonglist)
           /\ taken' = Append(taken, Head(mSonglist))
           /\ UNCHANGED <<mNextUNID, pushed, mLastTimeStamp>>
  <2> DEFINE e == Request(mSonglist[1])
  <2>1. /\ mSonglist \in Seq(SongType)
        /\ Head(mSonglist) = mSonglist[1] /\ 1 \in DOMAIN mSonglist
        /\ DOMAIN mSonglist' \subseteq Nat
        /\ \A a \in DOMAIN mSonglist' : a + 1 \in DOMAIN mSonglist /\ a + 1 # 1
                                        /\ mSonglist'[a] = mSonglist[a + 1]
        /\ \A a \in DOMAIN mSonglist : a # 1 => a - 1 \in DOMAIN mSonglist'
                                                /\ mSonglist'[a - 1] = mSonglist[a]
    BY <1>2, SongsTyped, TailIs
  <2>2. \A a \in DOMAIN mSonglist : a # 1 =>
          mSonglist[1].unid < mSonglist[a].unid /\ mSonglist[1].date <= mSonglist[a].date
    <3>1. \A a \in DOMAIN mSonglist : a # 1 => 1 < a
      BY <2>1
    <3> QED BY <2>1, <3>1 DEF OrderInv
  <2>3. \A w \in W : e.date <= w.date
    <3> SUFFICES ASSUME NEW a \in DOMAIN mSonglist PROVE mSonglist[1].date <= mSonglist[a].date
      BY DEF Request
    <3>1. CASE a = 1
      BY <2>1, <3>1, SongsTyped
    <3>2. CASE a # 1
      BY <2>2, <3>2
    <3> QED BY <3>1, <3>2
  <2>4. e \in W
    BY <2>1
  <2>5. \A a \in DOMAIN mSonglist : a # 1 => Request(mSonglist[a]) # e
    <3> SUFFICES ASSUME NEW a \in DOMAIN mSonglist, a # 1 PROVE Request(mSonglist[a]).id # e.id
      OBVIOUS
    <3>1. mSonglist[1].unid < mSonglist[a].unid
      BY <2>2
    <3>2. mSonglist[1].unid \in Nat /\ mSonglist[a].unid \in Nat
      BY <2>1, SongsTyped
    <3>3. Request(mSonglist[a]).id = mSonglist[a].unid /\ e.id = mSonglist[1].unid
      BY DEF Request
    <3> QED BY <3>1, <3>2, <3>3
  <2>6. W' = W \ {e}
    <3>1. W' = {Request(mSonglist'[n]) : n \in DOMAIN mSonglist'}
      OBVIOUS
    <3>2. ASSUME NEW x \in W' PROVE x \in W \ {e}
      <4>1. PICK a \in DOMAIN mSonglist' : x = Request(mSonglist'[a])
        BY <3>1
      <4>2. a + 1 \in DOMAIN mSonglist /\ a + 1 # 1 /\ x = Request(mSonglist[a + 1])
        BY <2>1, <4>1
      <4> QED BY <2>5, <4>2
    <3>3. ASSUME NEW x \in W \ {e} PROVE x \in W'
      <4>1. PICK a \in DOMAIN mSonglist : x = Request(mSonglist[a])
        OBVIOUS
      <4>2. a # 1
        BY <4>1
      <4>3. a - 1 \in DOMAIN mSonglist' /\ mSonglist'[a - 1] = mSonglist[a]
        BY <2>1, <4>2
      <4> QED BY <3>1, <4>1, <4>3
    <3> QED BY <3>2, <3>3
  <2>7. taken' # <<>> /\ taken'[Len(taken')].date = e.date
    <3>1. taken \in Seq(SongType) /\ Head(mSonglist) \in SongType
      BY <1>2 DEF TypeInv
    <3>2. taken' # <<>> /\ taken'[Len(taken')] = Head(mSonglist)
      BY <1>2, <3>1
    <3> QED BY <2>1, <3>2 DEF Request
  <2>8. Abstract!Take
    <3>1. Q' = Q
      BY <1>2
    <3> HIDE DEF e
    <3> QED BY <2>3, <2>4, <2>6, <2>7, <3>1 DEF Abstract!Take
  <2> QED BY <2>8 DEF Abstract!Next
<1>3. CASE Add(Updater)
  <2> DEFINE n == Len(mSonglist)
             e == Request(mSonglist'[n + 1])
  <2>1. /\ n \in Nat /\ DOMAIN mSonglist = 1..n /\ DOMAIN mSonglist' = 1..(n + 1)
        /\ \A a \in 1..n : mSonglist'[a] = mSonglist[a]
        /\ mSonglist'[n + 1] = [unid |-> mNextUNID + 1, date |-> InHand.date,
                                version |-> InHand.version]
        /\ InHand.date \in Nat /\ InHand.date >= mLastTimeStamp
        /\ InHand.version \in 1..MaxChanges /\ ~Queued(InHand.version)
        /\ pushed' = [pushed EXCEPT ![InHand.version] = @ + 1] /\ taken' = taken
    BY <1>3, Appended
  <2>2. e.id = mNextUNID + 1 /\ e.date = InHand.date /\ e.version = InHand.version
    BY <2>1 DEF Request
  <2> HIDE DEF n
  <2>3. W' = W \cup {e}
    <3>1. W' = {Request(mSonglist'[a]) : a \in 1..(n + 1)} /\ W = {Request(mSonglist[a]) : a \in 1..n}
      BY <2>1
    <3>2. \A a \in 1..(n + 1) : a \in 1..n \/ a = n + 1
      BY <2>1
    <3>3. n + 1 \in 1..(n + 1) /\ 1..n \subseteq 1..(n + 1)
      BY <2>1
    <3>4. W' \subseteq W \cup {e}
      BY <2>1, <3>1, <3>2
    <3>5. W \cup {e} \subseteq W'
      BY <2>1, <3>1, <3>3
    <3> QED BY <3>4, <3>5
  <2>4. \A w \in W : w.id # e.id /\ e.date >= w.date
    <3> SUFFICES ASSUME NEW a \in DOMAIN mSonglist
                 PROVE  mSonglist[a].unid # mNextUNID + 1 /\ InHand.date >= mSonglist[a].date
      BY <2>2 DEF Request
    <3>1. mSonglist[a].unid <= mNextUNID /\ mSonglist[a].date <= mLastTimeStamp
      BY DEF OrderInv
    <3> QED BY <2>1, <3>1, SongsTyped
  <2>5. e.date >= Played
    BY <2>1, <2>2, SongsTyped DEF OrderInv, Played
  <2>6. Q' = Q \cup {e.version} /\ e.version \notin Q
    <3>1. \A v \in 1..MaxChanges : pushed[v] \in Nat
                                   /\ pushed'[v] = IF v = InHand.version THEN pushed[v] + 1 ELSE pushed[v]
      BY <2>1 DEF TypeInv
    <3> QED BY <2>1, <2>2, <3>1 DEF Queued
  <2>7. W' \ W = {e}
    BY <2>3, <2>4
  <2> HIDE DEF e
  <2>8. Abstract!Found = {e}
    BY <2>7 DEF Abstract!Found
  <2>9. Abstract!EachOnce
    BY <2>8 DEF Abstract!EachOnce
  <2>10. Abstract!AtTheEnd
    BY <2>4, <2>5, <2>8 DEF Abstract!AtTheEnd, Played
  <2>11. Abstract!Enqueue
    BY <2>1, <2>3, <2>6, <2>8, <2>9, <2>10 DEF Abstract!Enqueue
  <2> QED BY <2>11 DEF Abstract!Next
<1> QED BY <1>1, <1>2, <1>3, SongSteps

LEMMA AbstractInit == Init => Abstract!Init
BY DEF Init, Abstract!Init

LEMMA QueueInit == Init => UpdaterInv /\ QueueInv
<1> SUFFICES ASSUME Init PROVE UpdaterInv /\ QueueInv
  OBVIOUS
<1>1. ~Updating /\ pc[Updater] # "add" /\ UpdaterInv
  BY DEF Init, Updating, Updater, UpdaterInv, Thread
<1>2. VersionInv /\ OrderInv /\ \A v : ~Queued(v)
  BY BoundAssumption DEF Init, VersionInv, OrderInv, Queued, Absent
<1> QED BY <1>1, <1>2 DEF QueueInv, RestInv, StampInv, AddInv

LEMMA QueueStep ==
  ASSUME ~UpdateBeforeTransmit, TypeInv, UpdaterInv, QueueInv, [Next]_vars
  PROVE  UpdaterInv' /\ QueueInv' /\ [Abstract!Next]_(Abstract!vars)
BY StepKinds, VersionStep, RestStep, StampStep, AddStep, OrderStep, AbstractStep DEF QueueInv

(***************************************************************************)
(* SonglistDir implements RequestQueue while one thread updates the list:  *)
(* each state of a file is queued once and the songs are handed out in the *)
(* order of the dates Update stamps, whatever lands, goes and is relinked  *)
(* meanwhile, and however often the list is read.                          *)
(***************************************************************************)
THEOREM Implements ==
  ASSUME ~UpdateBeforeTransmit PROVE Spec => ImplementsRequestQueue
<1>1. Init => TypeInv /\ UpdaterInv /\ QueueInv
  BY TypeInit, QueueInit
<1>2. TypeInv /\ UpdaterInv /\ QueueInv /\ [Next]_vars
      => TypeInv' /\ UpdaterInv' /\ QueueInv' /\ [Abstract!Next]_(Abstract!vars)
  BY TypeStep, QueueStep
<1> QED
  BY <1>1, <1>2, AbstractInit, PTL DEF Spec, ImplementsRequestQueue, Abstract!Spec
-----------------------------------------------------------------------------
(***************************************************************************)
(* FirstTakesAll, for a directory without links and with either value of   *)
(* the option.  The first Update is alone, and its listing is sorted by    *)
(* the very date it compares: what is still to be visited is never older   *)
(* than the time stamp, so every entry is taken.  With links this fails    *)
(* (SonglistDir_claims.cfg): they are sorted by one date and compared by   *)
(* another.                                                                *)
(***************************************************************************)
Own       == it["main"]
Listed(v) == \E a \in DOMAIN Own : Own[a].version = v

FirstRun ==
  /\ pc["player"] = "idle" /\ pc["main"] \in {"construct", "entry", "add"}
  /\ pc["main"] = "construct" => updates = 0 /\ mLastTimeStamp <= 0
  /\ pc["main"] # "construct" =>
       /\ updates # 0
       /\ \A v \in first : pushed[v] > 0 \/ Listed(v)
       /\ \A a, b \in DOMAIN Own : a < b => Own[a].modified <= Own[b].modified
       /\ \A a \in DOMAIN Own :
            Own[a].version \in 1..MaxChanges /\ Own[a].modified >= mLastTimeStamp
  /\ pc["main"] = "add" => fDate["main"] = Stamped(Own[1].modified, Own[1].version)

FirstInv ==
  /\ updated \in BOOLEAN /\ updates \in Nat /\ first \subseteq 1..MaxChanges
  /\ \A f \in File : ctime[f] # Absent => version[f] \in 1..MaxChanges
  /\ updated => updates # 0 /\ \A v \in first : pushed[v] > 0
  /\ ~updated => FirstRun

LEMMA FirstInit == Init => FirstInv
<1> SUFFICES ASSUME Init PROVE FirstInv
  OBVIOUS
<1>1. mLastTimeStamp <= 0
  BY BoundAssumption DEF Init, NullStamp
<1>2. /\ pc["player"] = "idle" /\ pc["main"] = "construct" /\ updates = 0 /\ ~updated
      /\ updated \in BOOLEAN /\ first = {} /\ \A f \in File : ctime[f] = Absent
  BY DEF Init, Thread
<1> QED BY <1>1, <1>2 DEF FirstInv, FirstRun

(* What neither updates nor touches the disk keeps it.                     *)
LEMMA FirstFrame ==
  ASSUME FirstInv, UNCHANGED <<updated, updates, first, ctime, version, pushed>>,
         ~updated => UNCHANGED <<pc, it, fDate, mLastTimeStamp>>
  PROVE  FirstInv'
BY DEF FirstInv, FirstRun, Own, Listed

LEMMA FirstList ==
  ASSUME TypeInv, FirstInv, NEW t \in Thread, NEW from, List(t, from),
         ~updated => t = "main" /\ from = "construct"
  PROVE  FirstInv'
<1> USE DEF FirstInv
<1>1. PICK s \in Listings : it' = [it EXCEPT ![t] = s]
  BY DEF List
<1>2. /\ pc[t] = from /\ pc' = [pc EXCEPT ![t] = "entry"]
      /\ updates' = updates + 1
      /\ first' = IF updates = 0 THEN {Info(f).version : f \in OnDisk} ELSE first
      /\ UNCHANGED <<ctime, version, pushed, updated, mLastTimeStamp>>
  BY DEF List, Goto, disk, songs
<1>3. {Info(f).version : f \in OnDisk} \subseteq 1..MaxChanges
  BY DEF Info, OnDisk
<1>4. CASE updated
  BY <1>2, <1>3, <1>4
<1>5. CASE ~updated
  <2>1. t = "main" /\ pc["main"] = "construct" /\ updates = 0 /\ mLastTimeStamp <= 0
        /\ pc["player"] = "idle"
    BY <1>2, <1>5 DEF FirstRun
  <2>2. pc'["main"] = "entry" /\ pc'["player"] = "idle" /\ Own' = s
    BY <1>1, <1>2, <2>1 DEF TypeInv, Thread, Own
  <2>3. /\ \A a, b \in DOMAIN s : a < b => s[a].modified <= s[b].modified
        /\ \A f \in OnDisk : \E a \in DOMAIN s : s[a].name = f
    BY DEF Listings
  <2>4. \A a \in DOMAIN s : \E f \in OnDisk : s[a] = Info(f)
    BY ListingIs
  <2>5. \A a \in DOMAIN s : s[a].version \in 1..MaxChanges /\ s[a].modified >= mLastTimeStamp
    <3>1. \A f \in OnDisk : Info(f).version \in 1..MaxChanges /\ Info(f).modified \in Nat
      BY <1>3, BoundAssumption DEF Info, OnDisk, TypeInv
    <3> QED BY <3>1, <2>1, <2>4 DEF TypeInv
  <2>6. \A v \in first' : \E a \in DOMAIN s : s[a].version = v
    <3> TAKE v \in first'
    <3>1. PICK f \in OnDisk : v = Info(f).version
      BY <1>2, <2>1
    <3>2. PICK a \in DOMAIN s : s[a].name = f
      BY <2>3
    <3>3. PICK g \in OnDisk : s[a] = Info(g)
      BY <2>4
    <3>4. g = f
      BY <3>2, <3>3 DEF Info
    <3> QED BY <3>1, <3>3, <3>4
  <2>7. FirstRun'
    BY <1>2, <2>1, <2>2, <2>3, <2>5, <2>6 DEF FirstRun, Listed
  <2> QED BY <1>2, <1>3, <1>5, <2>1, <2>7
<1> QED BY <1>4, <1>5

LEMMA FirstUpdate ==
  ASSUME Symlink = {}, TypeInv, FirstInv, NEW t \in Thread, UpdateStep(t)
  PROVE  FirstInv'
<1> USE DEF FirstInv
<1>1. CASE updated
  <2>1. \A v \in 1..MaxChanges : pushed[v] > 0 => pushed'[v] > 0
    <3>1. CASE Add(t)
      BY <3>1 DEF Add, TypeInv
    <3>2. CASE Entry(t) \/ Stamp(t)
      BY <3>2 DEF Entry, Stamp
    <3> QED BY <3>1, <3>2 DEF UpdateStep
  <2>2. UNCHANGED <<updates, first, ctime, version>> /\ updated'
    BY <1>1 DEF UpdateStep, Entry, Add, Stamp, disk, bounds
  <2> QED BY <1>1, <2>1, <2>2
<1>2. CASE ~updated
  <2>1. pc[t] \in {"entry", "add"}
    BY DEF UpdateStep, Entry, Take, PassOver, Add, Stamp, Goto
  <2>2. t = "main" /\ FirstRun /\ Own \in Seq(InfoType) /\ pc["main"] # "construct"
    BY <1>2, <2>1 DEF FirstRun, TypeInv, Thread, Own
  <2>3. /\ UNCHANGED <<updates, first, ctime, version>>
        /\ \A u \in Thread : u # "main" => pc'[u] = pc[u]
    BY <2>2 DEF UpdateStep, Entry, Take, PassOver, Add, Stamp, Goto, disk, bounds, TypeInv
  <2>4. CASE Entry("main")
    <3>1. /\ Own # <<>> /\ fDate' = [fDate EXCEPT !["main"] = Stat(Head(Own))]
          /\ pc["main"] = "entry"
          /\ UNCHANGED <<pushed, updated, mLastTimeStamp>>
      BY <2>4 DEF Entry, Own, Take, PassOver, Goto, songs
    <3>2. 1 \in DOMAIN Own /\ Head(Own) = Own[1]
      BY <2>2, <3>1, TailIs
    <3>3. fDate'["main"] = Stamped(Own[1].modified, Own[1].version)
      BY <3>1, <3>2 DEF Stat, TypeInv, Thread
    <3>4. IsNew(fDate'["main"].date)
      BY <2>2, <3>2, <3>3 DEF IsNew, Stamped, FirstRun
    <3>5. it' = it /\ pc'["main"] = "add"
      BY <2>4, <3>4 DEF Entry, Take, PassOver, Goto, TypeInv, Thread
    <3>6. FirstRun'
      BY <2>2, <2>3, <3>1, <3>3, <3>5 DEF FirstRun, Own, Listed, Thread
    <3> QED BY <1>2, <2>3, <3>1, <3>6
  <2>5. CASE Add("main")
    <3>1. /\ pc["main"] = "add" /\ pc'["main"] = "entry" /\ Own' = Tail(Own)
          /\ mLastTimeStamp' = fDate["main"].date
          /\ pushed' = [pushed EXCEPT ![fDate["main"].version] = @ + 1]
          /\ UNCHANGED updated
      BY <2>5 DEF Add, Goto, Own, TypeInv, Thread
    <3>2. Own # <<>>
      BY <3>1 DEF TypeInv, Thread, Own
    <3>3. /\ 1 \in DOMAIN Own /\ DOMAIN Own \subseteq Nat /\ DOMAIN Tail(Own) \subseteq Nat
          /\ \A a \in DOMAIN Tail(Own) : a + 1 \in DOMAIN Own /\ Tail(Own)[a] = Own[a + 1]
          /\ \A a \in DOMAIN Own : a # 1 => a - 1 \in DOMAIN Tail(Own) /\ Tail(Own)[a - 1] = Own[a]
      BY <2>2, <3>2, TailIs
    <3>4. /\ mLastTimeStamp' = Own[1].modified
          /\ fDate["main"].version = Own[1].version /\ Own[1].version \in 1..MaxChanges
      BY <2>2, <3>1, <3>3 DEF FirstRun, Stamped
    <3>5. /\ pushed'[Own[1].version] > 0
          /\ \A v \in 1..MaxChanges : pushed[v] > 0 => pushed'[v] > 0
      BY <3>1, <3>4 DEF TypeInv
    <3>6. \A v \in first : pushed'[v] > 0 \/ Listed(v)'
      <4> TAKE v \in first
      <4>1. CASE pushed[v] > 0
        BY <4>1, <3>5
      <4>2. ASSUME NEW a \in DOMAIN Own, Own[a].version = v PROVE pushed'[v] > 0 \/ Listed(v)'
        <5>1. CASE a = 1
          BY <4>2, <5>1, <3>5
        <5>2. CASE a # 1
          BY <4>2, <5>2, <3>1, <3>3 DEF Listed
        <5> QED BY <5>1, <5>2
      <4> QED BY <2>2, <3>1, <4>1, <4>2 DEF FirstRun, Listed
    <3>7. \A a, b \in DOMAIN Own' : a < b => Own'[a].modified <= Own'[b].modified
      <4> TAKE a, b \in DOMAIN Own'
      <4> HAVE a < b
      <4>1. a + 1 \in DOMAIN Own /\ b + 1 \in DOMAIN Own /\ a + 1 < b + 1
        BY <3>1, <3>3
      <4>2. Own[a + 1].modified <= Own[b + 1].modified
        BY <2>2, <3>1, <4>1 DEF FirstRun
      <4> QED BY <3>1, <3>3, <4>2
    <3>8. \A a \in DOMAIN Own' :
            Own'[a].version \in 1..MaxChanges /\ Own'[a].modified >= mLastTimeStamp'
      <4> TAKE a \in DOMAIN Own'
      <4>1. a + 1 \in DOMAIN Own /\ 1 < a + 1 /\ Own'[a] = Own[a + 1]
        <5>1. a \in Nat /\ 1 \in DOMAIN Own /\ a # 0
          BY <2>2, <3>1, <3>2, <3>3
        <5> QED BY <5>1, <3>1, <3>3
      <4>2. Own[1].modified <= Own[a + 1].modified /\ Own[a + 1].version \in 1..MaxChanges
        BY <2>2, <3>1, <3>3, <4>1 DEF FirstRun
      <4>3. Own[1].modified \in Int /\ Own[a + 1].modified \in Int
        <5>1. Own[1] \in InfoType /\ Own[a + 1] \in InfoType
          BY <2>2, <3>3, <4>1
        <5> QED BY <5>1, BoundAssumption DEF InfoType
      <4> QED BY <3>4, <4>1, <4>2, <4>3
    <3>9. FirstRun'
      BY <2>2, <2>3, <3>1, <3>6, <3>7, <3>8 DEF FirstRun, Thread
    <3> QED BY <1>2, <2>3, <3>1, <3>9
  <2>6. CASE Stamp("main")
    <3>1. Own = <<>> /\ pushed' = pushed /\ updated' = TRUE
      BY <2>6 DEF Stamp, Own
    <3>2. \A v \in first : ~Listed(v)
      BY <3>1 DEF Listed
    <3> QED BY <2>2, <2>3, <3>1, <3>2 DEF FirstRun
  <2> QED BY <2>2, <2>4, <2>5, <2>6 DEF UpdateStep
<1> QED BY <1>1, <1>2

LEMMA FirstStep ==
  ASSUME Symlink = {}, TypeInv, FirstInv, [Next]_vars
  PROVE  FirstInv'
<1>1. CASE Tick \/ UNCHANGED vars
  BY <1>1, FirstFrame DEF Tick, vars, disk, songs, local, bounds, history
<1>2. ASSUME NEW f \in File, NEW m \in 1..now, Change(f, m) PROVE FirstInv'
  <2>1. /\ UNCHANGED <<updated, updates, first, pushed, pc, it, fDate, mLastTimeStamp>>
        /\ version' = [version EXCEPT ![f] = changes + 1]
        /\ ctime' = [ctime EXCEPT ![f] = now]
    BY <1>2 DEF Change, songs, local, bounds, history
  <2>2. changes + 1 \in 1..MaxChanges
    BY <1>2, BoundAssumption DEF Change, TypeInv
  <2>3. \A g \in File : ctime'[g] # Absent => version'[g] \in 1..MaxChanges
    BY <2>1, <2>2 DEF TypeInv, FirstInv
  <2> QED BY <2>1, <2>3 DEF FirstInv, FirstRun, Own, Listed
<1>3. ASSUME NEW f \in File, Remove(f) PROVE FirstInv'
  <2>1. /\ UNCHANGED <<updated, updates, first, pushed, pc, it, fDate, mLastTimeStamp, version>>
        /\ ctime' = [ctime EXCEPT ![f] = Absent]
    BY <1>3 DEF Remove, songs, local, bounds, history
  <2>2. \A g \in File : ctime'[g] # Absent => ctime[g] # Absent
    BY <2>1 DEF TypeInv
  <2> QED BY <2>1, <2>2 DEF FirstInv, FirstRun, Own, Listed
<1>4. ASSUME NEW t \in Thread, UpdateStep(t) PROVE FirstInv'
  BY <1>4, FirstUpdate
<1>5. CASE Construct
  BY <1>5, FirstList DEF Construct, Thread
<1>6. CASE PlayerUpdates
  BY <1>6, FirstList DEF PlayerUpdates, Thread
<1>7. CASE MainUpdates
  <2>1. updated
    BY <1>7 DEF MainUpdates, List, Goto, FirstInv, FirstRun
  <2> QED BY <1>7, <2>1, FirstList DEF MainUpdates, Thread
<1>8. CASE GetNextSong \/ AsXML \/ Size \/ GetSong
  <2>1. updated
    BY <1>8 DEF GetNextSong, AsXML, Size, GetSong, Goto, FirstInv, FirstRun
  <2>2. UNCHANGED <<updated, updates, first, ctime, version, pushed>>
    BY <1>8 DEF GetNextSong, AsXML, Size, GetSong, disk, history, bounds
  <2> QED BY <2>1, <2>2, FirstFrame
<1> QED
  BY <1>1, <1>2, <1>3, <1>4, <1>5, <1>6, <1>7, <1>8 DEF Next

(***************************************************************************)
(* When the constructor of the request queue returns, every file that its  *)
(* Update has listed is queued (Collection_Songlist_Dir::Update), whatever *)
(* is written, moved in or removed while it is under way; for a directory  *)
(* that holds no links.                                                    *)
(***************************************************************************)
THEOREM FirstUpdateTakesAll ==
  ASSUME Symlink = {} PROVE Spec => []FirstTakesAll
<1>1. TypeInv /\ FirstInv /\ [Next]_vars => TypeInv' /\ FirstInv'
  BY TypeStep, FirstStep
<1>2. FirstInv => FirstTakesAll
  BY DEF FirstInv, FirstTakesAll
<1> QED
  BY TypeInit, FirstInit, <1>1, <1>2, PTL DEF Spec

-----------------------------------------------------------------------------
(***************************************************************************)
(* ListingSound, with one or two threads that update.  The ids of the list *)
(* increase; what AsXML has yet to read has a larger id than what it read; *)
(* and what the list has lost since Size was asked the player has taken.   *)
(***************************************************************************)
ReadInv ==
  /\ i \in Nat /\ lastread \in 0..mNextUNID /\ atsize \in Nat
  /\ \A a \in DOMAIN mSonglist : mSonglist[a].unid \in 1..mNextUNID
  /\ \A a, b \in DOMAIN mSonglist : a < b => mSonglist[a].unid < mSonglist[b].unid
  /\ \A a \in DOMAIN mSonglist : a > i => mSonglist[a].unid > lastread
  /\ pc["main"] = "get" => i < Len(mSonglist) + Len(taken) - atsize /\ atsize <= Len(taken)

LEMMA ReadInit == Init => ReadInv
BY DEF Init, ReadInv, Thread

(* The songs grow at their end, with an id that is new, or lose the first. *)
LEMMA ReadFrame ==
  ASSUME ReadInv, UNCHANGED <<i, lastread, atsize, mNextUNID, mSonglist, taken>>,
         pc'["main"] = "get" => pc["main"] = "get"
  PROVE  ReadInv'
BY DEF ReadInv

LEMMA ReadAdd ==
  ASSUME TypeInv, ReadInv, NEW t \in Thread, Add(t)
  PROVE  ReadInv'
<1> DEFINE e == [unid |-> mNextUNID + 1, date |-> fDate[t].date, version |-> fDate[t].version]
           n == Len(mSonglist)
<1>1. /\ mSonglist' = Append(mSonglist, e) /\ mNextUNID' = mNextUNID + 1
      /\ UNCHANGED <<i, lastread, atsize, taken>>
  BY DEF Add, listing
<1>2. mSonglist \in Seq(SongType) /\ n \in Nat /\ mNextUNID \in Nat /\ taken \in Seq(SongType)
  BY DEF TypeInv
<1>3. e.unid = mNextUNID + 1
  OBVIOUS
<1> HIDE DEF e
<1>4. /\ DOMAIN mSonglist = 1..n /\ DOMAIN mSonglist' = 1..(n + 1) /\ Len(mSonglist') = n + 1
      /\ \A a \in 1..n : mSonglist'[a] = mSonglist[a]
      /\ mSonglist'[n + 1] = e
  BY <1>1, <1>2
<1>5. \A a \in DOMAIN mSonglist' : mSonglist'[a].unid \in 1..mNextUNID'
  BY <1>1, <1>2, <1>3, <1>4 DEF ReadInv
<1>6. \A a, b \in DOMAIN mSonglist' : a < b => mSonglist'[a].unid < mSonglist'[b].unid
  <2> TAKE a, b \in DOMAIN mSonglist'
  <2> HAVE a < b
  <2>1. a \in 1..n
    BY <1>2, <1>4
  <2>2. CASE b = n + 1
    BY <1>2, <1>3, <1>4, <2>1, <2>2 DEF ReadInv
  <2>3. CASE b \in 1..n
    BY <1>4, <2>1, <2>3 DEF ReadInv
  <2> QED BY <1>2, <1>4, <2>2, <2>3
<1>7. \A a \in DOMAIN mSonglist' : a > i' => mSonglist'[a].unid > lastread'
  BY <1>1, <1>2, <1>3, <1>4 DEF ReadInv
<1>8. pc'["main"] = "get" => pc["main"] = "get"
  BY DEF Add, Goto, TypeInv, Thread
<1>9. Len(taken) \in Nat
  BY <1>2
<1> QED BY <1>1, <1>2, <1>4, <1>5, <1>6, <1>7, <1>8, <1>9 DEF ReadInv

LEMMA ReadPop ==
  ASSUME TypeInv, ReadInv, GetNextSong
  PROVE  ReadInv'
<1>1. UNCHANGED <<i, lastread, atsize, mNextUNID>> /\ pc'["main"] = pc["main"]
  BY DEF GetNextSong, local, listing, Goto, TypeInv, Thread
<1>2. CASE mSonglist = <<>>
  BY <1>1, <1>2, ReadFrame DEF GetNextSong
<1>3. CASE mSonglist # <<>>
  <2>1. mSonglist' = Tail(mSonglist) /\ taken' = Append(taken, Head(mSonglist))
    BY <1>3 DEF GetNextSong
  <2>2. mSonglist \in Seq(SongType) /\ taken \in Seq(SongType) /\ mNextUNID \in Nat
    BY DEF TypeInv
  <2>3. Len(taken') = Len(taken) + 1 /\ Len(mSonglist') = Len(mSonglist) - 1
        /\ Len(taken) \in Nat /\ Len(mSonglist) \in Nat
    BY <1>3, <2>1, <2>2
  <2>4. /\ DOMAIN mSonglist' \subseteq Nat
        /\ \A a \in DOMAIN mSonglist' : a + 1 \in DOMAIN mSonglist
                                        /\ mSonglist'[a] = mSonglist[a + 1]
    BY <1>3, <2>1, <2>2, TailIs
  <2>5. \A a, b \in DOMAIN mSonglist' : a < b => mSonglist'[a].unid < mSonglist'[b].unid
    <3> TAKE a, b \in DOMAIN mSonglist'
    <3> HAVE a < b
    <3>1. a + 1 \in DOMAIN mSonglist /\ b + 1 \in DOMAIN mSonglist /\ a + 1 < b + 1
      BY <2>4
    <3>2. mSonglist[a + 1].unid < mSonglist[b + 1].unid
      BY <3>1 DEF ReadInv
    <3> QED BY <2>4, <3>2
  <2>6. \A a \in DOMAIN mSonglist' : a > i => mSonglist'[a].unid > lastread
    <3> TAKE a \in DOMAIN mSonglist'
    <3> HAVE a > i
    <3>1. a + 1 \in DOMAIN mSonglist /\ a + 1 > i
      BY <2>4 DEF ReadInv
    <3>2. mSonglist[a + 1].unid > lastread
      BY <3>1 DEF ReadInv
    <3> QED BY <2>4, <3>2
  <2>7. \A a \in DOMAIN mSonglist' : mSonglist'[a].unid \in 1..mNextUNID
    BY <2>4 DEF ReadInv
  <2> QED BY <1>1, <2>3, <2>5, <2>6, <2>7 DEF ReadInv
<1> QED BY <1>2, <1>3

LEMMA ReadStep ==
  ASSUME TypeInv, ReadInv, [Next]_vars
  PROVE  ReadInv'
<1>1. CASE Tick \/ UNCHANGED vars
  BY <1>1, ReadFrame DEF Tick, vars, songs, local, listing, history
<1>2. ASSUME NEW f \in File, (\E m \in 1..now : Change(f, m)) \/ Remove(f) PROVE ReadInv'
  BY <1>2, ReadFrame DEF Change, Remove, songs, local, listing, history
<1>3. ASSUME NEW t \in Thread, Entry(t) \/ Stamp(t) PROVE ReadInv'
  <2>1. pc'["main"] = "get" => pc["main"] = "get"
    BY <1>3 DEF Entry, Take, PassOver, Stamp, Then, Goto, TypeInv, Thread
  <2> QED BY <1>3, <2>1, ReadFrame DEF Entry, Take, PassOver, Stamp, songs, local, listing
<1>4. ASSUME NEW t \in Thread, Add(t) PROVE ReadInv'
  BY <1>4, ReadAdd
<1>5. ASSUME NEW t \in Thread, NEW from, List(t, from) PROVE ReadInv'
  <2>1. pc'["main"] = "get" => pc["main"] = "get"
    BY <1>5 DEF List, Goto, TypeInv, Thread
  <2> QED BY <1>5, <2>1, ReadFrame DEF List, songs, listing
<1>6. CASE GetNextSong
  BY <1>6, ReadPop
<1>7. CASE AsXML
  <2>1. /\ i' = 0 /\ lastread' = 0 /\ pc'["main"] # "get"
        /\ UNCHANGED <<mSonglist, mNextUNID, taken, atsize>>
    BY <1>7 DEF AsXML, Goto, songs, history, TypeInv, Thread
  <2>2. mNextUNID \in Nat
    BY DEF TypeInv
  <2> QED BY <2>1, <2>2 DEF ReadInv
<1>8. CASE Size
  <2>1. /\ UNCHANGED <<i, lastread, mSonglist, mNextUNID, taken>>
        /\ atsize' = Len(taken)
        /\ pc'["main"] = "get" => i < Len(mSonglist)
    BY <1>8 DEF Size, Goto, songs, history, TypeInv, Thread
  <2>2. Len(taken) \in Nat /\ Len(mSonglist) \in Nat
    BY DEF TypeInv
  <2> QED BY <2>1, <2>2 DEF ReadInv
<1>9. CASE GetSong
  <2>1. /\ i' = i + 1 /\ pc'["main"] # "get"
        /\ UNCHANGED <<mSonglist, mNextUNID, taken, atsize>>
    BY <1>9 DEF GetSong, Goto, songs, TypeInv, Thread
  <2>2. Len(mSonglist) \in Nat /\ mNextUNID \in Nat /\ DOMAIN mSonglist = 1..Len(mSonglist)
    BY DEF TypeInv
  <2>3. CASE i < Len(mSonglist)
    <3>1. lastread' = mSonglist[i + 1].unid /\ i + 1 \in DOMAIN mSonglist
      BY <1>9, <2>2, <2>3 DEF GetSong, ReadInv
    <3> QED BY <2>1, <2>2, <3>1 DEF ReadInv
  <2>4. CASE ~(i < Len(mSonglist))
    <3>1. lastread' = lastread
      BY <1>9, <2>4 DEF GetSong
    <3> QED BY <2>1, <2>2, <2>4, <3>1 DEF ReadInv
  <2> QED BY <2>3, <2>4
<1>10. CASE Construct \/ PlayerUpdates \/ MainUpdates
  BY <1>5, <1>10 DEF Construct, PlayerUpdates, MainUpdates, Thread
<1> QED
  BY <1>1, <1>2, <1>3, <1>4, <1>6, <1>7, <1>8, <1>9, <1>10 DEF Next, UpdateStep

(***************************************************************************)
(* A listing for /requests.xml has no song twice and none out of order,    *)
(* and reads behind the end of the list only when the player took a song   *)
(* between Size() and GetSong() (Collection_Songlist::AsXML), with any     *)
(* number of songs, links and updates, on one thread or two.               *)
(***************************************************************************)
THEOREM ListingIsSound == Spec => ListingSound
<1> DEFINE Sound == i' = i + 1 => IF i < Len(mSonglist) THEN mSonglist[i + 1].unid > lastread
                                                         ELSE Len(taken) > atsize
<1>1. TypeInv /\ ReadInv /\ [Next]_vars => TypeInv' /\ ReadInv'
  BY TypeStep, ReadStep
<1>2. ASSUME TypeInv, ReadInv, [Next]_vars, i' = i + 1 PROVE GetSong
  <2>1. i' = i \/ i' = 0 \/ GetSong
    BY <1>2
       DEF Next, Tick, Change, Remove, UpdateStep, Entry, Take, PassOver, Add, Stamp, Construct,
           PlayerUpdates, MainUpdates, List, GetNextSong, AsXML, Size, vars, local, listing
  <2> QED BY <1>2, <2>1 DEF ReadInv
<1>3. ASSUME TypeInv, ReadInv, GetSong
      PROVE  IF i < Len(mSonglist) THEN mSonglist[i + 1].unid > lastread
                                   ELSE Len(taken) > atsize
  <2>1. pc["main"] = "get" /\ Len(mSonglist) \in Nat /\ DOMAIN mSonglist = 1..Len(mSonglist)
        /\ Len(taken) \in Nat /\ i \in Nat /\ atsize \in Nat
    BY <1>3 DEF GetSong, Goto, TypeInv, ReadInv
  <2>2. i < Len(mSonglist) => i + 1 \in DOMAIN mSonglist /\ i + 1 > i
    BY <2>1
  <2>3. i < Len(mSonglist) => mSonglist[i + 1].unid > lastread
    BY <1>3, <2>2 DEF ReadInv
  <2>4. ~(i < Len(mSonglist)) => Len(taken) > atsize
    BY <1>3, <2>1 DEF ReadInv
  <2> QED BY <2>3, <2>4
<1>4. TypeInv /\ ReadInv /\ [Next]_vars => [Sound]_vars
  BY <1>2, <1>3
<1> QED
  BY TypeInit, ReadInit, <1>1, <1>4, PTL DEF Spec, ListingSound

-----------------------------------------------------------------------------
(***************************************************************************)
(* The rest of TypeOK.  Each call of Update adds one second to the stamp,  *)
(* at its end: what the calls under way have yet to add is part of the     *)
(* bound.                                                                  *)
(***************************************************************************)
Due(t) == IF pc[t] \in {"entry", "add"} THEN 1 ELSE 0

DriftInv ==
  /\ NullStamp <= mLastTimeStamp
  /\ Due("player") + Due("main") <= updates
  /\ mLastTimeStamp + Due("player") + Due("main") <= MaxTime + updates

CountInv ==
  /\ updates \in 0..MaxUpdates
  /\ reads \in 0..MaxReads
  /\ first \subseteq 0..MaxChanges
  /\ updated \in BOOLEAN
  /\ lastadded \in 0..MaxTime
  /\ skippednew \in BOOLEAN
  /\ overread \in BOOLEAN

LEMMA CountInit == Init => CountInv /\ DriftInv
<1> SUFFICES ASSUME Init PROVE CountInv /\ DriftInv
  OBVIOUS
<1>1. /\ MaxTime \in Nat /\ MaxUpdates \in Nat /\ MaxReads \in Nat /\ MaxChanges \in Nat
  BY BoundAssumption
<1>2. CountInv
  <2>1. /\ updates = 0 /\ reads = 0 /\ first = {} /\ ~updated /\ lastadded = 0
        /\ ~skippednew /\ ~overread /\ updated \in BOOLEAN
        /\ skippednew \in BOOLEAN /\ overread \in BOOLEAN
    BY DEF Init, Absent
  <2> QED BY <1>1, <2>1 DEF CountInv
<1>3. /\ pc["player"] = "idle" /\ pc["main"] = "construct" /\ updates = 0
      /\ mLastTimeStamp = NullStamp
  BY DEF Init, Thread
<1> QED BY <1>1, <1>2, <1>3 DEF DriftInv, Due, NullStamp

LEMMA CountStep ==
  ASSUME TypeInv, CountInv, [Next]_vars
  PROVE  CountInv'
<1> USE DEF CountInv
<1>1. CASE Tick \/ UNCHANGED vars
  BY <1>1 DEF Tick, vars, bounds, history
<1>2. ASSUME NEW f \in File, (\E m \in 1..now : Change(f, m)) \/ Remove(f) PROVE CountInv'
  BY <1>2 DEF Change, Remove, bounds, history
<1>3. ASSUME NEW t \in Thread, NEW from, List(t, from) PROVE CountInv'
  <2>1. {Info(f).version : f \in OnDisk} \subseteq 0..MaxChanges
    BY DEF Info, OnDisk, TypeInv
  <2>2. first' \subseteq 0..MaxChanges
    BY <1>3, <2>1 DEF List
  <2>3. updates' \in 0..MaxUpdates
    BY <1>3, BoundAssumption DEF List
  <2> QED BY <1>3, <2>2, <2>3 DEF List
<1>4. ASSUME NEW t \in Thread, Entry(t) PROVE CountInv'
  <2>1. skippednew' \in BOOLEAN
    BY <1>4 DEF Entry, Take, PassOver
  <2> QED BY <1>4, <2>1 DEF Entry, bounds
<1>5. ASSUME NEW t \in Thread, Add(t) PROVE CountInv'
  <2>1. lastadded' \in 0..MaxTime
    BY <1>5 DEF Add, TypeInv
  <2> QED BY <1>5, <2>1 DEF Add, bounds
<1>6. ASSUME NEW t \in Thread, Stamp(t) PROVE CountInv'
  BY <1>6 DEF Stamp, bounds
<1>7. CASE GetNextSong \/ Size
  BY <1>7 DEF GetNextSong, Size, bounds, history
<1>8. CASE AsXML
  BY <1>8, BoundAssumption DEF AsXML, history
<1>9. CASE GetSong
  BY <1>9 DEF GetSong, bounds
<1>10. CASE Construct \/ PlayerUpdates \/ MainUpdates
  BY <1>3, <1>10 DEF Construct, PlayerUpdates, MainUpdates, Thread
<1> QED
  BY <1>1, <1>2, <1>4, <1>5, <1>6, <1>7, <1>8, <1>9, <1>10 DEF Next, UpdateStep

(* A step that neither begins nor ends an Update, nor adds a song. *)
LEMMA DriftSame ==
  ASSUME DriftInv, UNCHANGED <<mLastTimeStamp, updates>>,
         Due("player")' = Due("player"), Due("main")' = Due("main")
  PROVE  DriftInv'
BY DEF DriftInv, NullStamp

LEMMA DueIs ==
  ASSUME TypeInv, NEW t \in Thread, NEW from, NEW to, Goto(t, from, to)
  PROVE  /\ Due(t) = (IF from \in {"entry", "add"} THEN 1 ELSE 0)
         /\ Due(t)' = (IF to \in {"entry", "add"} THEN 1 ELSE 0)
         /\ \A u \in Thread : u # t => Due(u)' = Due(u)
BY DEF Goto, Due, TypeInv

LEMMA DriftStep ==
  ASSUME TypeInv, CountInv, DriftInv, [Next]_vars
  PROVE  DriftInv'
<1>0. /\ mLastTimeStamp \in Int /\ updates \in Int /\ MaxTime \in Nat /\ MaxUpdates \in Nat
      /\ \A u \in Thread : Due(u) \in {0, 1}
      /\ Thread = {"player", "main"}
  BY BoundAssumption DEF TypeInv, CountInv, Due, Thread
<1>1. CASE UNCHANGED <<pc, mLastTimeStamp, updates>>
  BY <1>1, DriftSame DEF Due
<1>2. ASSUME NEW t \in Thread, NEW from \in {"construct", "idle", "update"}, List(t, from)
      PROVE DriftInv'
  <2>1. Goto(t, from, "entry") /\ updates' = updates + 1 /\ mLastTimeStamp' = mLastTimeStamp
    BY <1>2 DEF List, songs
  <2>2. Due(t) = 0 /\ Due(t)' = 1 /\ \A u \in Thread : u # t => Due(u)' = Due(u)
    BY <2>1, DueIs
  <2> HIDE DEF Due
  <2> QED BY <1>0, <2>1, <2>2 DEF DriftInv, NullStamp
<1>3. ASSUME NEW t \in Thread, Entry(t) PROVE DriftInv'
  <2>1. \E to \in {"entry", "add"} : Goto(t, "entry", to)
    BY <1>3 DEF Entry, Take, PassOver
  <2>2. \A u \in Thread : Due(u)' = Due(u)
    BY <2>1, DueIs
  <2> QED BY <1>0, <1>3, <2>2, DriftSame DEF Entry, songs, bounds
<1>4. ASSUME NEW t \in Thread, Add(t) PROVE DriftInv'
  <2>1. Goto(t, "add", "entry") /\ mLastTimeStamp' = fDate[t].date /\ updates' = updates
    BY <1>4 DEF Add, bounds
  <2>2. Due(t)' = Due(t) /\ \A u \in Thread : u # t => Due(u)' = Due(u)
    BY <2>1, DueIs
  <2>3. fDate[t].date \in 0..MaxTime
    BY DEF TypeInv
  <2> HIDE DEF Due
  <2> QED BY <1>0, <2>1, <2>2, <2>3 DEF DriftInv, NullStamp
<1>5. ASSUME NEW t \in Thread, Stamp(t) PROVE DriftInv'
  <2>1. Goto(t, "entry", Then(t)) /\ mLastTimeStamp' = mLastTimeStamp + 1 /\ updates' = updates
    BY <1>5 DEF Stamp, AddSecs, bounds
  <2>2. Then(t) \notin {"entry", "add"}
    BY DEF Then
  <2>3. Due(t) = 1 /\ Due(t)' = 0 /\ \A u \in Thread : u # t => Due(u)' = Due(u)
    BY <2>1, <2>2, DueIs
  <2> HIDE DEF Due
  <2> QED BY <1>0, <2>1, <2>3 DEF DriftInv, NullStamp
<1>6. CASE GetNextSong \/ AsXML \/ Size \/ GetSong
  <2>1. \E t \in Thread, from, to \in {"next", "idle", "update", "size", "get"} :
          Goto(t, from, to)
    BY <1>6 DEF GetNextSong, AsXML, Size, GetSong, Thread
  <2>2. \A u \in Thread : Due(u)' = Due(u)
    BY <2>1, DueIs
  <2> QED BY <1>0, <1>6, <2>2, DriftSame
          DEF GetNextSong, AsXML, Size, GetSong, songs, bounds
<1>7. CASE Construct \/ PlayerUpdates \/ MainUpdates
  BY <1>0, <1>2, <1>7 DEF Construct, PlayerUpdates, MainUpdates
<1>8. CASE Tick \/ UNCHANGED vars
         \/ \E f \in File : (\E m \in 1..now : Change(f, m)) \/ Remove(f)
  BY <1>1, <1>8 DEF Tick, vars, Change, Remove, songs, bounds
<1> QED
  BY <1>3, <1>4, <1>5, <1>6, <1>7, <1>8 DEF Next, UpdateStep

(***************************************************************************)
(* Every reachable state is well typed.  This bounds the time stamp, too:  *)
(* Update adds a second at its end whether or not it added a song          *)
(* (Collection_Songlist_Dir.cpp:99), and so runs ahead of the clock, by    *)
(* not more than one second for each call.                                 *)
(***************************************************************************)
THEOREM TypeCorrect == Spec => []TypeOK
<1>1. Init => TypeInv /\ CountInv /\ DriftInv /\ ReadInv
  BY TypeInit, CountInit, ReadInit
<1>2. TypeInv /\ CountInv /\ DriftInv /\ ReadInv /\ [Next]_vars
        => TypeInv' /\ CountInv' /\ DriftInv' /\ ReadInv'
  BY TypeStep, CountStep, DriftStep, ReadStep
<1>3. TypeInv /\ CountInv /\ DriftInv /\ ReadInv => TypeOK
  <2> SUFFICES ASSUME TypeInv, CountInv, DriftInv, ReadInv PROVE TypeOK
    OBVIOUS
  <2>1. mLastTimeStamp \in NullStamp..(MaxTime + MaxUpdates)
    <3>1. Due("player") \in {0, 1} /\ Due("main") \in {0, 1}
      BY DEF Due
    <3> QED BY <3>1, BoundAssumption DEF TypeInv, CountInv, DriftInv, NullStamp
  <2>2. lastread \in Nat /\ i \in Nat /\ atsize \in Nat
    BY DEF ReadInv, TypeInv
  <2> QED BY <2>1, <2>2 DEF TypeInv, CountInv, TypeOK, Place
<1> QED BY <1>1, <1>2, <1>3, PTL DEF Spec
=============================================================================
