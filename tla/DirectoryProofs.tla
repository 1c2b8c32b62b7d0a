-------------------------- MODULE DirectoryProofs --------------------------
(***************************************************************************)
(* Proofs about Directory, for any files, any clock and any number of      *)
(* changes and restarts.                                                   *)
(***************************************************************************)
EXTENDS Directory, SequenceTheorems, TLAPS

(***************************************************************************)
(* What a sort of the list returns: as many entries, each from the list.   *)
(***************************************************************************)
LEMMA SortingFacts ==
  ASSUME list \in Seq(EntryType), NEW r \in Sortings(list)
  PROVE  /\ r \in Seq(EntryType) /\ Sorted(r)
         /\ \A i \in DOMAIN r : \E j \in DOMAIN list : r[i] = list[j]
<1>1. PICK p \in [DOMAIN list -> DOMAIN list] : r = [i \in DOMAIN list |-> list[p[i]]]
  BY DEF Sortings
<1>2. DOMAIN list = 1..Len(list) /\ Len(list) \in Nat
  OBVIOUS
<1>3. \A i \in DOMAIN list : list[p[i]] \in EntryType
  BY <1>1, <1>2
<1>4. r \in [1..Len(list) -> EntryType]
  BY <1>1, <1>2, <1>3
<1>5. r \in Seq(EntryType)
  BY <1>2, <1>4
<1>6. Sorted(r)
  BY DEF Sortings
<1> QED
  BY <1>1, <1>5, <1>6

LEMMA TypeInit == Init => TypeOK
<1> SUFFICES ASSUME Init PROVE TypeOK
  OBVIOUS
<1>1. keep \in [files : SUBSET File, version : [File -> 0..MaxChanges],
                how : {"queued", "scanning", "empty"}]
  BY BoundAssumption DEF Init, NothingKept
<1>2. statefile \in Truncated..MaxTime /\ lastupdate \in -1..MaxTime /\ upd \in 0..MaxTime
  BY BoundAssumption DEF Init, Truncated, NoFileState
<1>3. pushed \in [1..MaxChanges -> Nat]
  BY DEF Init
<1>4. ctime \in [File -> 0..MaxTime] /\ version \in [File -> 0..MaxChanges]
  BY BoundAssumption DEF Init, Absent
<1>5. list \in Seq(EntryType) /\ now \in 1..MaxTime /\ starts \in 1..MaxStarts
  BY BoundAssumption DEF Init
<1>6. changes \in 0..MaxChanges /\ playedto \in 0..MaxTime
  BY BoundAssumption DEF Init
<1> QED
  BY <1>1, <1>2, <1>3, <1>4, <1>5, <1>6 DEF Init, TypeOK

LEMMA ProcessEndsType ==
  ASSUME ProcessEnds
  PROVE  /\ list' \in Seq(EntryType) /\ lastupdate' \in -1..MaxTime /\ nextfileid' \in Nat
         /\ holder' \in {"nobody", "player", "http", "taker"} /\ unread' \subseteq File
         /\ daemon' \in {"up", "truncate", "write", "down"}
         /\ pushed' \in [1..MaxChanges -> Nat] /\ playedto' \in 0..MaxTime
         /\ blind' \subseteq 1..MaxTime /\ scanned' \in BOOLEAN
<1>1. list' \in Seq(EntryType)
  BY DEF ProcessEnds
<1>2. pushed' \in [1..MaxChanges -> Nat]
  BY DEF ProcessEnds
<1>3. lastupdate' \in -1..MaxTime /\ playedto' \in 0..MaxTime /\ nextfileid' \in Nat
  BY BoundAssumption DEF ProcessEnds
<1> QED
  BY <1>1, <1>2, <1>3 DEF ProcessEnds

LEMMA TypeStep == TypeOK /\ [Next]_vars => TypeOK'
<1> SUFFICES ASSUME TypeOK, [Next]_vars PROVE TypeOK'
  OBVIOUS
<1> USE BoundAssumption
<1>1. CASE Tick
  BY <1>1 DEF Tick, TypeOK, disk, queue, state
<1>2. ASSUME NEW f \in File, Change(f) PROVE TypeOK'
  <2>1. /\ ctime' \in [File -> 0..MaxTime]
        /\ version' \in [File -> 0..MaxChanges]
        /\ changes' \in 0..MaxChanges
    BY <1>2 DEF Change, TypeOK
  <2>2. unread' \subseteq File
    BY <1>2 DEF Change, TypeOK
  <2> QED
    BY <1>2, <2>1, <2>2 DEF Change, TypeOK, state, history
<1>3. ASSUME NEW f \in File, Remove(f) PROVE TypeOK'
  <2>1. ctime' \in [File -> 0..MaxTime]
    BY <1>3 DEF Remove, TypeOK, Absent
  <2> QED
    BY <1>3, <2>1 DEF Remove, TypeOK, queue, state, history
<1>4. ASSUME NEW c \in {"player", "http"}, ScanBegin(c) PROVE TypeOK'
  BY <1>4 DEF ScanBegin, TypeOK, OnDisk, disk, state
<1>5. ASSUME NEW f \in File, ScanEntry(f) PROVE TypeOK'
  <2>0. Entry(f, nextfileid) \in EntryType /\ nextfileid + 1 \in Nat
    BY DEF TypeOK, Entry, EntryType
  <2>1. list' \in Seq(EntryType) /\ nextfileid' \in Nat
    <3>1. list \in Seq(EntryType) /\ nextfileid \in Nat
      BY DEF TypeOK
    <3>2. \/ list' = Append(list, Entry(f, nextfileid)) /\ nextfileid' = nextfileid + 1
          \/ UNCHANGED <<list, nextfileid>>
      BY <1>5 DEF ScanEntry
    <3>3. Append(list, Entry(f, nextfileid)) \in Seq(EntryType)
      BY ONLY <2>0, <3>1
    <3> QED
      BY <2>0, <3>1, <3>2, <3>3
  <2>2. pushed' \in [1..MaxChanges -> Nat]
    <3>1. pushed \in [1..MaxChanges -> Nat]
      BY DEF TypeOK
    <3>2. CASE version[f] \in 1..MaxChanges
      BY <1>5, <3>1, <3>2 DEF ScanEntry
    <3>3. CASE version[f] \notin 1..MaxChanges
      BY <1>5, <3>1, <3>3 DEF ScanEntry
    <3> QED
      BY <3>2, <3>3
  <2>3. unread' \subseteq File
    BY <1>5 DEF ScanEntry, TypeOK
  <2> QED
    BY <1>5, <2>1, <2>2, <2>3 DEF ScanEntry, TypeOK, disk, state
<1>6. ASSUME NEW h \in {"nobody", "taker"}, ScanEnd(h) PROVE TypeOK'
  <2>1. list' \in Seq(EntryType)
    BY <1>6, SortingFacts DEF ScanEnd, TypeOK
  <2> QED
    BY <1>6, <2>1 DEF ScanEnd, TypeOK, disk, state
<1>7. CASE GetSong
  <2>1. CASE list = <<>>
    BY <1>7, <2>1 DEF GetSong, TypeOK, disk, state
  <2>2. CASE list # <<>>
    <3>1. Tail(list) \in Seq(EntryType) /\ Head(list) \in EntryType
      BY <2>2 DEF TypeOK
    <3>2. playedto' \in 0..MaxTime /\ outoforder' \in BOOLEAN /\ list' = Tail(list)
      BY <1>7, <2>2, <3>1 DEF GetSong, TypeOK, EntryType
    <3> QED
      BY <1>7, <3>1, <3>2 DEF GetSong, TypeOK, disk, state
  <2> QED
    BY <2>1, <2>2
<1>8. CASE SaveRead
  <2>1. upd' \in 0..MaxTime
    <3>1. list # <<>> => 1 \in DOMAIN list /\ Head(list) = list[1]
      BY DEF TypeOK
    <3>2. \A i \in DOMAIN list : list[i] \in EntryType
      BY DEF TypeOK
    <3>3. \A i \in DOMAIN list : list[i].ctime \in 0..MaxTime
      BY <3>2 DEF EntryType
    <3> QED
      BY <1>8, <3>1, <3>3 DEF SaveRead, GetNextTimestamp
  <2>2. keep' \in [files : SUBSET File, version : [File -> 0..MaxChanges],
                   how : {"queued", "scanning", "empty"}]
    BY <1>8, FileAssumption DEF SaveRead, TypeOK, Owed, HowItQuits
  <2> QED
    BY <1>8, <2>1, <2>2 DEF SaveRead, TypeOK, disk, queue
<1>9. CASE SaveTruncate
  BY <1>9 DEF SaveTruncate, TypeOK, Truncated, disk, queue, history
<1>10. CASE SaveWrite
  <2>1. statefile' \in Truncated..MaxTime
    BY <1>10 DEF SaveWrite, TypeOK, Truncated
  <2> QED
    BY <1>10, <2>1, ProcessEndsType DEF SaveWrite, TypeOK, disk
<1>11. CASE Crash
  <2>1. keep' \in [files : SUBSET File, version : [File -> 0..MaxChanges],
                   how : {"queued", "scanning", "empty"}]
    BY <1>11 DEF Crash, NothingKept, TypeOK
  <2> QED
    BY <1>11, <2>1, ProcessEndsType DEF Crash, TypeOK, disk
<1>12. CASE Start
  <2>1. lastupdate' \in -1..MaxTime
    <3>0. statefile \in -2..MaxTime /\ MaxTime \in Nat
      BY DEF TypeOK, Truncated
    <3>1. CASE statefile = NoFileState
      <4>1. lastupdate' = 0
        BY <1>12, <3>1, SMTT(30) DEF Start, NoFileState, Truncated
      <4> QED BY <3>0, <4>1
    <3>2. CASE statefile = Truncated
      <4>1. \E u \in 0..MaxTime : lastupdate' = u - 1
        BY <1>12, <3>2, SMTT(30) DEF Start, NoFileState, Truncated, LoadState
      <4> QED BY <3>0, <4>1
    <3>3. CASE statefile # NoFileState /\ statefile # Truncated
      <4>1. lastupdate' = statefile - 1
        BY <1>12, <3>3, SMTT(30) DEF Start, LoadState
      <4> QED BY <3>0, <3>3, <4>1 DEF NoFileState, Truncated
    <3> QED
      BY <3>1, <3>2, <3>3
  <2>2. starts' \in 1..MaxStarts /\ daemon' = "up"
    BY <1>12 DEF Start, TypeOK
  <2>3. UNCHANGED <<now, ctime, version, changes, list, nextfileid, holder, unread, upd, statefile>>
        /\ UNCHANGED <<pushed, playedto, outoforder, blind, keep, scanned>>
    BY <1>12 DEF Start, disk, history
  <2> QED
    BY <2>1, <2>2, <2>3 DEF TypeOK
<1>13. CASE UNCHANGED vars
  BY <1>13 DEF TypeOK, vars, disk, queue, state, history
<1> QED
  BY <1>1, <1>2, <1>3, <1>4, <1>5, <1>6, <1>7, <1>8, <1>9, <1>10, <1>11, <1>12, <1>13
     DEF Next, GetSizeEnd, GetSongScanned

(***************************************************************************)
(* Every variable keeps its type, over scans, saves, crashes and starts.   *)
(***************************************************************************)
THEOREM TypeCorrect == Spec => []TypeOK
  BY TypeInit, TypeStep, PTL DEF Spec

-----------------------------------------------------------------------------
(***************************************************************************)
(* Between two runs there is no list, nobody holds its lock, and nothing   *)
(* has been pushed or played in the run that is to come.                   *)
(***************************************************************************)
DownIsEmpty ==
  daemon = "down" =>
    /\ list = <<>> /\ holder = "nobody" /\ playedto = 0
    /\ \A v \in 1..MaxChanges : pushed[v] = 0

LEMMA DownInit == Init => DownIsEmpty
BY DEF Init, DownIsEmpty

LEMMA DownStep == DownIsEmpty /\ [Next]_vars => DownIsEmpty'
<1> SUFFICES ASSUME DownIsEmpty, [Next]_vars PROVE DownIsEmpty'
  OBVIOUS
<1>1. CASE \/ Tick \/ (\E f \in File : Change(f) \/ Remove(f)) \/ UNCHANGED vars
  BY <1>1 DEF Tick, Change, Remove, vars, queue, state, history, DownIsEmpty
<1>2. CASE \/ \E c \in {"player", "http"} : ScanBegin(c)
           \/ \E f \in File : ScanEntry(f)
           \/ \E h \in {"nobody", "taker"} : ScanEnd(h)
           \/ GetSong
  BY <1>2 DEF ScanBegin, ScanEntry, ScanEnd, GetSong, Running, state, DownIsEmpty
<1>3. CASE SaveRead \/ SaveTruncate
  BY <1>3 DEF SaveRead, SaveTruncate, DownIsEmpty
<1>4. CASE SaveWrite \/ Crash
  BY <1>4 DEF SaveWrite, Crash, ProcessEnds, DownIsEmpty
<1>5. CASE Start
  BY <1>5 DEF Start, DownIsEmpty
<1> QED
  BY <1>1, <1>2, <1>3, <1>4, <1>5 DEF Next, GetSizeEnd, GetSongScanned

(***************************************************************************)
(* QueuedOnce.  Each change of a file has a number of its own, and a file  *)
(* whose present state has been pushed is out of reach of the scans: it is *)
(* not newer than the last one, or the scan under way has passed it.       *)
(***************************************************************************)
VersionsDiffer ==
  \A f, g \in File : f # g /\ version[f] # 0 => version[f] # version[g]

VersionsKnown ==
  /\ \A f \in File : version[f] <= changes /\ ctime[f] <= now
  /\ \A f \in OnDisk : version[f] # 0
  /\ \A v \in 1..MaxChanges : v > changes => pushed[v] = 0

PushedPassed ==
  \A f \in OnDisk : pushed[version[f]] # 0
    => ctime[f] <= lastupdate \/ (Scanning /\ f \notin unread)

UnreadInScan == unread # {} => Scanning

OnceInv == VersionsDiffer /\ VersionsKnown /\ PushedPassed /\ UnreadInScan /\ QueuedOnce

LEMMA OnceInit == Init => OnceInv
BY DEF Init, OnceInv, VersionsDiffer, VersionsKnown, PushedPassed, UnreadInScan, QueuedOnce, OnDisk, Absent

(* A process that has ended has pushed nothing. *)
LEMMA OnceEnds ==
  ASSUME TypeOK, OnceInv, ProcessEnds, UNCHANGED <<now, disk>>
  PROVE  OnceInv'
<1>1. \A v \in 1..MaxChanges : pushed'[v] = 0
  BY DEF ProcessEnds
<1>2. \A f \in OnDisk : version[f] \in 1..MaxChanges
  BY DEF OnceInv, VersionsKnown, OnDisk, TypeOK
<1>3. OnDisk' = OnDisk
  BY DEF OnDisk, disk
<1> QED
  BY <1>1, <1>2, <1>3
     DEF OnceInv, VersionsDiffer, VersionsKnown, PushedPassed, UnreadInScan, QueuedOnce,
         ProcessEnds, disk

LEMMA OnceStep == TypeOK /\ DownIsEmpty /\ OnceInv /\ [Next]_vars => OnceInv'
<1> SUFFICES ASSUME TypeOK, DownIsEmpty, OnceInv, [Next]_vars PROVE OnceInv'
  OBVIOUS
<1> USE DEF OnceInv
<1>0. \A f \in OnDisk : version[f] \in 1..MaxChanges
  BY DEF VersionsKnown, OnDisk, TypeOK
<1>1. CASE Tick
  BY <1>1 DEF Tick, disk, queue, VersionsDiffer, VersionsKnown, PushedPassed, QueuedOnce,
              UnreadInScan, OnDisk, Scanning, TypeOK
<1>2. ASSUME NEW f \in File, Change(f) PROVE OnceInv'
  <2>1. /\ changes' = changes + 1 /\ changes \in Nat /\ changes + 1 \in 1..MaxChanges
        /\ version'[f] = changes + 1 /\ ctime'[f] = now
        /\ \A g \in File : g # f => version'[g] = version[g] /\ ctime'[g] = ctime[g]
        /\ UNCHANGED <<now, lastupdate, holder, pushed>>
    <3>1. /\ changes' = changes + 1 /\ changes < MaxChanges
          /\ version' = [version EXCEPT ![f] = changes + 1]
          /\ ctime' = [ctime EXCEPT ![f] = now]
          /\ UNCHANGED <<now, lastupdate, holder, pushed>>
      BY <1>2 DEF Change, history
    <3>2. changes \in Nat /\ changes + 1 \in 1..MaxChanges
      BY <3>1, BoundAssumption DEF TypeOK
    <3> QED
      BY <3>1, <3>2 DEF TypeOK
  <2>7. \A g \in unread' : g # f => g \in unread
    BY <1>2 DEF Change
  <2>2. \A g \in OnDisk' : g # f => g \in OnDisk
    BY <2>1 DEF OnDisk
  <2>3. pushed[changes + 1] = 0
    BY <2>1 DEF VersionsKnown
  <2>4. VersionsDiffer'
    <3>1. \A g \in File : g # f => version'[g] = version[g]
      BY <2>1 DEF TypeOK
    <3>2. version'[f] = changes + 1
      BY <2>1 DEF TypeOK
    <3>3. \A g \in File : version[g] \in Nat /\ version[g] <= changes
      BY DEF TypeOK, VersionsKnown
    <3>4. changes \in Nat
      BY <2>1
    <3> QED BY <3>1, <3>2, <3>3, <3>4 DEF VersionsDiffer
  <2>5. VersionsKnown'
    <3>0. \A g \in File : version[g] \in Nat /\ ctime[g] \in Nat /\ now \in Nat
      BY DEF TypeOK
    <3>1. \A g \in File : version'[g] <= changes' /\ ctime'[g] <= now'
      <4> TAKE g \in File
      <4>1. CASE g = f
        BY <2>1, <3>0, <4>1
      <4>2. CASE g # f
        BY <2>1, <3>0, <4>2 DEF VersionsKnown
      <4> QED
        BY <4>1, <4>2
    <3>2. \A g \in OnDisk' : version'[g] # 0
      BY <2>1, <2>2 DEF VersionsKnown, OnDisk
    <3>3. \A v \in 1..MaxChanges : v > changes' => pushed'[v] = 0
      BY <2>1 DEF VersionsKnown
    <3> QED
      BY <3>1, <3>2, <3>3 DEF VersionsKnown
  <2>6. PushedPassed'
    <3> SUFFICES ASSUME NEW g \in OnDisk', pushed'[version'[g]] # 0
                 PROVE  ctime'[g] <= lastupdate' \/ (Scanning' /\ g \notin unread')
      BY DEF PushedPassed
    <3>1. g # f
      BY <2>1, <2>3
    <3> QED
      BY <3>1, <2>1, <2>2, <2>7 DEF PushedPassed, Scanning, OnDisk
  <2> QED
    BY <1>2, <2>1, <2>4, <2>5, <2>6 DEF QueuedOnce, UnreadInScan, Scanning, Change
<1>3. ASSUME NEW f \in File, Remove(f) PROVE OnceInv'
  <2>1. /\ \A g \in File : ctime'[g] <= ctime[g]
        /\ \A g \in OnDisk' : g \in OnDisk /\ ctime'[g] = ctime[g]
        /\ UNCHANGED <<now, version, changes, lastupdate, holder, unread, pushed>>
    BY <1>3 DEF Remove, OnDisk, Absent, TypeOK, queue, history
  <2>2. VersionsKnown'
    <3>1. \A g \in File : version[g] <= changes /\ ctime[g] <= now
              /\ ctime[g] \in Nat /\ ctime'[g] \in Int /\ now \in Nat
      BY <1>3 DEF VersionsKnown, TypeOK, Remove, Absent
    <3>2. \A g \in File : version'[g] <= changes' /\ ctime'[g] <= now'
      BY <2>1, <3>1
    <3> QED
      BY <2>1, <3>2 DEF VersionsKnown
  <2> QED
    BY <2>1, <2>2 DEF VersionsDiffer, PushedPassed, UnreadInScan, QueuedOnce, Scanning
<1>4. ASSUME NEW c \in {"player", "http"}, ScanBegin(c) PROVE OnceInv'
  BY <1>4 DEF ScanBegin, disk, VersionsDiffer, VersionsKnown, PushedPassed, QueuedOnce,
              UnreadInScan, OnDisk, Scanning
<1>5. ASSUME NEW f \in File, ScanEntry(f) PROVE OnceInv'
  <2>1. /\ UNCHANGED <<now, ctime, version, changes, lastupdate, holder>>
        /\ f \in unread /\ unread' = unread \ {f} /\ OnDisk' = OnDisk
    BY <1>5 DEF ScanEntry, disk, OnDisk
  <2>2. CASE f \in OnDisk \cap Mp3File /\ Fresh(f)
    <3>1. pushed' = [pushed EXCEPT ![version[f]] = pushed[version[f]] + 1]
      BY <1>5, <2>2 DEF ScanEntry
    <3>2. version[f] \in 1..MaxChanges /\ version[f] # 0 /\ version[f] <= changes
      BY <2>2, <1>0 DEF VersionsKnown
    <3>3. pushed[version[f]] = 0
      BY <2>1, <2>2 DEF PushedPassed, Fresh, TypeOK, OnDisk
    <3>4. /\ pushed'[version[f]] = 1
          /\ \A v \in 1..MaxChanges : v # version[f] => pushed'[v] = pushed[v]
      BY <3>1, <3>2, <3>3 DEF TypeOK
    <3>5. QueuedOnce'
      BY <3>4 DEF QueuedOnce
    <3>6. VersionsKnown'
      BY <2>1, <3>2, <3>4 DEF VersionsKnown, TypeOK
    <3>7. \A g \in OnDisk : g # f => version[g] # version[f]
      BY <3>2 DEF VersionsDiffer, OnDisk
    <3>8. Scanning
      BY <2>1 DEF UnreadInScan
    <3>9. PushedPassed'
      BY <2>1, <3>4, <3>7, <3>8, <1>0 DEF PushedPassed, Scanning
    <3> QED
      BY <2>1, <3>5, <3>6, <3>8, <3>9 DEF VersionsDiffer, UnreadInScan, Scanning
  <2>3. CASE ~(f \in OnDisk \cap Mp3File /\ Fresh(f))
    BY <1>5, <2>1, <2>3
       DEF ScanEntry, VersionsDiffer, VersionsKnown, PushedPassed, UnreadInScan, QueuedOnce, Scanning
  <2> QED
    BY <2>2, <2>3
<1>6. ASSUME NEW h \in {"nobody", "taker"}, ScanEnd(h) PROVE OnceInv'
  <2>1. /\ UNCHANGED <<now, ctime, version, changes, unread, pushed>>
        /\ OnDisk' = OnDisk /\ lastupdate' = now /\ unread = {}
    BY <1>6 DEF ScanEnd, disk, OnDisk
  <2>2. PushedPassed'
    BY <2>1 DEF PushedPassed, VersionsKnown, OnDisk
  <2> QED
    BY <2>1, <2>2 DEF VersionsDiffer, VersionsKnown, QueuedOnce, UnreadInScan
<1>7. CASE GetSong
  <2>1. /\ UNCHANGED <<now, ctime, version, changes, lastupdate, unread, pushed>>
        /\ OnDisk' = OnDisk /\ ~Scanning /\ ~Scanning'
    BY <1>7 DEF GetSong, disk, OnDisk, Scanning
  <2> QED
    BY <2>1 DEF VersionsDiffer, VersionsKnown, PushedPassed, QueuedOnce, UnreadInScan
<1>8. CASE SaveRead
  BY <1>8 DEF SaveRead, disk, queue, VersionsDiffer, VersionsKnown, PushedPassed, QueuedOnce,
              UnreadInScan, OnDisk, Scanning
<1>9. CASE SaveTruncate
  BY <1>9 DEF SaveTruncate, disk, queue, history, VersionsDiffer, VersionsKnown, PushedPassed,
              QueuedOnce, UnreadInScan, OnDisk, Scanning
<1>10. CASE SaveWrite
  BY <1>10, OnceEnds DEF SaveWrite
<1>11. CASE Crash
  BY <1>11, OnceEnds DEF Crash
<1>12. CASE Start
  <2>1. UNCHANGED <<now, ctime, version, changes, unread, holder, pushed>> /\ OnDisk' = OnDisk
    BY <1>12 DEF Start, disk, history, OnDisk
  <2>2. \A f \in OnDisk : pushed[version[f]] = 0
    BY <1>0, <1>12 DEF Start, DownIsEmpty
  <2> QED
    BY <2>1, <2>2 DEF VersionsDiffer, VersionsKnown, PushedPassed, QueuedOnce, UnreadInScan,
                      DownIsEmpty, Scanning
<1>13. CASE UNCHANGED vars
  BY <1>13 DEF vars, disk, queue, state, history, VersionsDiffer, VersionsKnown, PushedPassed,
               QueuedOnce, UnreadInScan, OnDisk, Scanning
<1> QED
  BY <1>1, <1>2, <1>3, <1>4, <1>5, <1>6, <1>7, <1>8, <1>9, <1>10, <1>11, <1>12, <1>13
     DEF Next, GetSizeEnd, GetSongScanned

(***************************************************************************)
(* No state of a file is pushed to the queue twice in one run of the       *)
(* daemon, however scans, changes, saves and crashes interleave.           *)
(***************************************************************************)
THEOREM EachQueuedOnce == Spec => []QueuedOnce
<1>1. TypeOK /\ DownIsEmpty /\ OnceInv /\ [Next]_vars => TypeOK' /\ DownIsEmpty' /\ OnceInv'
  BY TypeStep, DownStep, OnceStep
<1>2. OnceInv => QueuedOnce
  BY DEF OnceInv
<1> QED
  BY TypeInit, DownInit, OnceInit, <1>1, <1>2, PTL DEF Spec

-----------------------------------------------------------------------------
(***************************************************************************)
(* PlayedInOrder.  Outside a scan the list is sorted and holds nothing     *)
(* newer than lastupdate; a scan only adds what is newer; and what is in   *)
(* the list was never older than what GetSong has given out.               *)
(***************************************************************************)
ListIsNewer == \A i \in DOMAIN list : list[i].ctime >= playedto /\ list[i].ctime <= now

ListAtRest ==
  ~Scanning => Sorted(list) /\ \A i \in DOMAIN list : list[i].ctime <= lastupdate

OrderInv ==
  /\ ListIsNewer
  /\ ListAtRest
  /\ playedto <= lastupdate \/ playedto = 0
  /\ playedto <= now
  /\ \A f \in File : ctime[f] <= now
  /\ UnreadInScan
  /\ PlayedInOrder

LEMMA OrderInit == Init => OrderInv
BY BoundAssumption
   DEF Init, OrderInv, ListIsNewer, ListAtRest, Sorted, UnreadInScan, PlayedInOrder, Absent

LEMMA OrderEnds ==
  ASSUME OrderInv, now \in Nat, ProcessEnds, UNCHANGED <<now, ctime, outoforder>>
  PROVE  OrderInv'
<1>1. list' = <<>> /\ DOMAIN list' = {} /\ playedto' = 0 /\ unread' = {}
  BY DEF ProcessEnds
<1> QED
  BY <1>1 DEF OrderInv, ListIsNewer, ListAtRest, Sorted, UnreadInScan, PlayedInOrder

(* A step that leaves list and its surroundings alone, while time may pass. *)
LEMMA OrderFrame ==
  ASSUME TypeOK, OrderInv, UNCHANGED <<list, lastupdate, holder, playedto, outoforder>>,
         now' \in Nat, now <= now', \A f \in File : ctime'[f] <= now', UnreadInScan'
  PROVE  OrderInv'
<1>1. \A i \in DOMAIN list : list[i].ctime \in Nat
  <2>1. \A i \in DOMAIN list : list[i] \in EntryType
    BY DEF TypeOK
  <2> QED
    BY <2>1 DEF EntryType
<1>2. ListIsNewer'
  BY <1>1 DEF OrderInv, ListIsNewer, TypeOK
<1>3. playedto' <= now'
  BY DEF OrderInv, TypeOK
<1> QED
  BY <1>2, <1>3 DEF OrderInv, ListAtRest, Sorted, Scanning, PlayedInOrder

LEMMA OrderStep == TypeOK /\ DownIsEmpty /\ OrderInv /\ [Next]_vars => OrderInv'
<1> SUFFICES ASSUME TypeOK, DownIsEmpty, OrderInv, [Next]_vars PROVE OrderInv'
  OBVIOUS
<1>t. /\ now \in Nat /\ playedto \in Nat /\ lastupdate \in Int
      /\ \A f \in File : ctime[f] \in Nat /\ ctime[f] <= now
      /\ list \in Seq(EntryType)
  BY DEF TypeOK, OrderInv
<1>e. \A i \in DOMAIN list : list[i] \in EntryType /\ list[i].ctime \in Nat
  <2>1. \A i \in DOMAIN list : list[i] \in EntryType
    BY <1>t
  <2> QED
    BY <2>1 DEF EntryType
<1>1. CASE Tick
  <2>1. /\ now' = now + 1
        /\ UNCHANGED <<ctime, list, lastupdate, holder, unread, playedto, outoforder>>
    BY <1>1 DEF Tick, disk, queue
  <2>2. UnreadInScan'
    BY <2>1 DEF OrderInv, UnreadInScan, Scanning
  <2> QED
    BY <1>t, <2>1, <2>2, OrderFrame
<1>2. ASSUME NEW f \in File, Change(f) PROVE OrderInv'
  <2>1. \A g \in File : ctime'[g] \in {ctime[g], now}
    BY <1>2 DEF Change, TypeOK
  <2>2. UNCHANGED <<now, list, lastupdate, holder, playedto, outoforder>>
    BY <1>2 DEF Change, history
  <2>3. UnreadInScan'
    BY <1>2 DEF Change, OrderInv, UnreadInScan, Scanning
  <2> QED
    BY <1>t, <2>1, <2>2, <2>3, OrderFrame
<1>3. ASSUME NEW f \in File, Remove(f) PROVE OrderInv'
  <2>1. \A g \in File : ctime'[g] \in {ctime[g], 0}
    BY <1>3 DEF Remove, TypeOK, Absent
  <2>2. UNCHANGED <<now, list, lastupdate, holder, unread, playedto, outoforder>>
    BY <1>3 DEF Remove, queue, history
  <2>3. UnreadInScan'
    BY <2>2 DEF OrderInv, UnreadInScan, Scanning
  <2> QED
    BY <1>t, <2>1, <2>2, <2>3, OrderFrame
<1>4. ASSUME NEW c \in {"player", "http"}, ScanBegin(c) PROVE OrderInv'
  BY <1>4 DEF ScanBegin, disk, OrderInv, ListIsNewer, ListAtRest, UnreadInScan, PlayedInOrder,
              Scanning
<1>5. ASSUME NEW f \in File, ScanEntry(f) PROVE OrderInv'
  <2>1. /\ UNCHANGED <<now, ctime, lastupdate, holder, playedto, outoforder>>
        /\ f \in unread /\ Scanning /\ Scanning'
    BY <1>5 DEF ScanEntry, disk, OrderInv, UnreadInScan, Scanning
  <2>2. CASE list' = Append(list, Entry(f, nextfileid)) /\ Fresh(f)
    <3>1. ctime[f] >= playedto /\ ctime[f] <= now
      BY <1>t, <2>2 DEF OrderInv, Fresh
    <3>2. \A i \in DOMAIN list' : list'[i].ctime >= playedto /\ list'[i].ctime <= now
      <4> TAKE i \in DOMAIN list'
      <4>1. i \in DOMAIN list \/ i = Len(list) + 1
        BY <1>t, <2>2
      <4>2. CASE i \in DOMAIN list
        <5>1. list'[i] = list[i]
          BY <1>t, <2>2, <4>2
        <5> QED
          BY <4>2, <5>1 DEF OrderInv, ListIsNewer
      <4>3. CASE i = Len(list) + 1
        <5>1. list'[i] = Entry(f, nextfileid)
          BY <1>t, <2>2, <4>3
        <5> QED
          BY <3>1, <5>1 DEF Entry
      <4> QED
        BY <4>1, <4>2, <4>3
    <3> QED
      BY <2>1, <3>2 DEF OrderInv, ListIsNewer, ListAtRest, UnreadInScan, PlayedInOrder
  <2>3. CASE list' = list
    BY <2>1, <2>3 DEF OrderInv, ListIsNewer, ListAtRest, UnreadInScan, PlayedInOrder
  <2> QED
    BY <1>5, <2>2, <2>3 DEF ScanEntry
<1>6. ASSUME NEW h \in {"nobody", "taker"}, ScanEnd(h) PROVE OrderInv'
  <2>1. /\ UNCHANGED <<now, ctime, unread, playedto, outoforder>>
        /\ lastupdate' = now /\ unread = {}
    BY <1>6 DEF ScanEnd, disk
  <2>2. /\ Sorted(list')
        /\ \A i \in DOMAIN list' : \E j \in DOMAIN list : list'[i] = list[j]
    BY <1>6, <1>t, SortingFacts DEF ScanEnd
  <2>3. \A i \in DOMAIN list' : list'[i].ctime >= playedto /\ list'[i].ctime <= now
    BY <2>2 DEF OrderInv, ListIsNewer
  <2> QED
    BY <2>1, <2>2, <2>3
       DEF OrderInv, ListIsNewer, ListAtRest, UnreadInScan, PlayedInOrder
<1>7. CASE GetSong
  <2>1. /\ UNCHANGED <<now, ctime, lastupdate, unread>>
        /\ ~Scanning /\ ~Scanning' /\ Sorted(list)
        /\ \A i \in DOMAIN list : list[i].ctime <= lastupdate
    BY <1>7 DEF GetSong, disk, Scanning, OrderInv, ListAtRest
  <2>2. CASE list = <<>>
    BY <1>7, <2>1, <2>2
       DEF GetSong, OrderInv, ListIsNewer, ListAtRest, UnreadInScan, PlayedInOrder
  <2>3. CASE list # <<>>
    <3>1. 1 \in DOMAIN list /\ Head(list) = list[1]
      BY <1>t, <2>3
    <3>2. list[1].ctime >= playedto /\ list[1].ctime <= now /\ list[1].ctime <= lastupdate
      BY <2>1, <3>1 DEF OrderInv, ListIsNewer
    <3>3. playedto' = list[1].ctime /\ outoforder' = FALSE /\ list' = Tail(list)
      <4>1. playedto' = list[1].ctime
        BY <1>7, <1>t, <1>e, <2>3, <3>1, <3>2 DEF GetSong
      <4>2. ~(list[1].ctime < playedto)
        BY <1>t, <1>e, <3>1, <3>2
      <4>3. outoforder' = FALSE
        BY <1>7, <2>3, <3>1, <4>2 DEF GetSong, OrderInv, PlayedInOrder
      <4> QED
        BY <1>7, <2>3, <4>1, <4>3 DEF GetSong
    <3>4. \A i \in DOMAIN list' : i \in Int /\ i >= 1 /\ i + 1 \in DOMAIN list /\ list'[i] = list[i + 1]
      BY <1>t, <2>3, <3>3
    <3>5. \A i \in DOMAIN list' : list'[i].ctime >= list[1].ctime
      BY <2>1, <3>1, <3>4 DEF Sorted
    <3>6. \A i \in DOMAIN list' : list'[i].ctime <= now /\ list'[i].ctime <= lastupdate
      BY <2>1, <3>4 DEF OrderInv, ListIsNewer
    <3>7. Sorted(list')
      <4> SUFFICES ASSUME NEW i \in DOMAIN list', NEW j \in DOMAIN list', i < j
                   PROVE  list'[i].ctime <= list'[j].ctime
        BY DEF Sorted
      <4>1. i + 1 < j + 1 /\ i + 1 \in DOMAIN list /\ j + 1 \in DOMAIN list
        BY <3>4
      <4>2. list[i + 1].ctime <= list[j + 1].ctime
        BY <2>1, <4>1 DEF Sorted
      <4> QED
        BY <3>4, <4>2
    <3>8. ListIsNewer' /\ ListAtRest'
      BY <2>1, <3>3, <3>5, <3>6, <3>7 DEF ListIsNewer, ListAtRest
    <3> QED
      BY <2>1, <3>2, <3>3, <3>8 DEF OrderInv, UnreadInScan, PlayedInOrder
  <2> QED
    BY <2>2, <2>3
<1>8. CASE SaveRead \/ SaveTruncate \/ UNCHANGED vars
  <2>1. UNCHANGED <<now, ctime, list, lastupdate, holder, unread, playedto, outoforder>>
    BY <1>8 DEF SaveRead, SaveTruncate, vars, disk, queue, history
  <2>2. UnreadInScan'
    BY <2>1 DEF OrderInv, UnreadInScan, Scanning
  <2> QED
    BY <1>t, <2>1, <2>2, OrderFrame
<1>9. CASE SaveWrite
  BY <1>9, <1>t, OrderEnds DEF SaveWrite, ProcessEnds, disk
<1>10. CASE Crash
  BY <1>10, <1>t, OrderEnds DEF Crash, ProcessEnds, disk
<1>11. CASE Start
  <2>1. /\ list = <<>> /\ DOMAIN list = {} /\ playedto = 0
        /\ UNCHANGED <<now, ctime, list, holder, unread, playedto, outoforder>>
    BY <1>11 DEF Start, DownIsEmpty, disk, history
  <2> QED
    BY <2>1 DEF OrderInv, ListIsNewer, ListAtRest, Sorted, UnreadInScan, Scanning, PlayedInOrder
<1> QED
  BY <1>1, <1>2, <1>3, <1>4, <1>5, <1>6, <1>7, <1>8, <1>9, <1>10, <1>11
     DEF Next, GetSizeEnd, GetSongScanned

(***************************************************************************)
(* The files are played in the order of their change times: within a run   *)
(* no call of GetSong returns an older file than an earlier call did.      *)
(***************************************************************************)
THEOREM InOrder == Spec => []PlayedInOrder
<1>1. TypeOK /\ DownIsEmpty /\ OrderInv /\ [Next]_vars => TypeOK' /\ DownIsEmpty' /\ OrderInv'
  BY TypeStep, DownStep, OrderStep
<1>2. OrderInv => PlayedInOrder
  BY DEF OrderInv
<1> QED
  BY TypeInit, DownInit, OrderInit, <1>1, <1>2, PTL DEF Spec

-----------------------------------------------------------------------------
(***************************************************************************)
(* Directory implements RequestQueue.  Beside the invariants above, the    *)
(* entries of the list differ in id and version, and what is in the list   *)
(* has been pushed.                                                        *)
(***************************************************************************)
EntriesDiffer ==
  \A i, j \in DOMAIN list :
    i # j => list[i].id # list[j].id /\ list[i].version # list[j].version

EntriesKnown ==
  \A i \in DOMAIN list :
    /\ list[i].id < nextfileid
    /\ list[i].version \in 1..MaxChanges
    /\ pushed[list[i].version] > 0

ListInv == EntriesDiffer /\ EntriesKnown

LEMMA ListInit == Init => ListInv
BY DEF Init, ListInv, EntriesDiffer, EntriesKnown

(* A sort gives back each entry of the list, at a position of its own. *)
LEMMA SortingKeeps ==
  ASSUME NEW r \in Sortings(list)
  PROVE  \E p \in [DOMAIN list -> DOMAIN list] :
           /\ DOMAIN r = DOMAIN list
           /\ \A i \in DOMAIN list : r[i] = list[p[i]]
           /\ \A i, j \in DOMAIN list : i # j => p[i] # p[j]
           /\ \A j \in DOMAIN list : \E i \in DOMAIN list : p[i] = j
<1>1. PICK p \in [DOMAIN list -> DOMAIN list] :
        /\ r = [i \in DOMAIN list |-> list[p[i]]]
        /\ \A i, j \in DOMAIN list : i # j => p[i] # p[j]
        /\ \A j \in DOMAIN list : \E i \in DOMAIN list : p[i] = j
  BY DEF Sortings
<1> QED
  BY <1>1

LEMMA SortingLists == ASSUME NEW r \in Sortings(list), list' = r PROVE Listed' = Listed
<1>1. PICK p \in [DOMAIN list -> DOMAIN list] :
        /\ DOMAIN r = DOMAIN list
        /\ \A i \in DOMAIN list : r[i] = list[p[i]]
        /\ \A j \in DOMAIN list : \E i \in DOMAIN list : p[i] = j
  BY SortingKeeps
<1> QED
  BY <1>1 DEF Listed

LEMMA ListStep == TypeOK /\ DownIsEmpty /\ OnceInv /\ ListInv /\ [Next]_vars => ListInv'
<1> SUFFICES ASSUME TypeOK, DownIsEmpty, OnceInv, ListInv, [Next]_vars PROVE ListInv'
  OBVIOUS
<1> USE DEF ListInv
<1>t. list \in Seq(EntryType) /\ nextfileid \in Nat /\ pushed \in [1..MaxChanges -> Nat]
  BY DEF TypeOK
<1>e. \A i \in DOMAIN list : list[i] \in EntryType
  BY <1>t
<1>1. CASE UNCHANGED <<list, nextfileid, pushed>>
  BY <1>1 DEF EntriesDiffer, EntriesKnown
<1>2. ASSUME NEW f \in File, ScanEntry(f), list' # list PROVE ListInv'
  <2>1. /\ f \in OnDisk /\ Fresh(f) /\ f \in unread
        /\ list' = Append(list, Entry(f, nextfileid))
        /\ nextfileid' = nextfileid + 1
        /\ pushed' = [pushed EXCEPT ![version[f]] = pushed[version[f]] + 1]
    BY <1>2 DEF ScanEntry
  <2>2. version[f] \in 1..MaxChanges
    BY <2>1 DEF OnceInv, VersionsKnown, OnDisk, TypeOK
  <2>3. pushed[version[f]] = 0
    BY <1>t, <2>1, <2>2 DEF OnceInv, PushedPassed, Fresh, TypeOK, OnDisk
  <2>4. /\ pushed'[version[f]] = 1
        /\ \A v \in 1..MaxChanges : v # version[f] => pushed'[v] = pushed[v]
    BY <1>t, <2>1, <2>2, <2>3
  <2>5. \A i \in DOMAIN list' :
          \/ i \in DOMAIN list /\ list'[i] = list[i]
          \/ i = Len(list) + 1 /\ list'[i] = Entry(f, nextfileid)
    BY <1>t, <2>1
  <2>6. /\ Entry(f, nextfileid).id = nextfileid
        /\ Entry(f, nextfileid).version = version[f]
    BY DEF Entry
  <2>7. \A i \in DOMAIN list : list[i].id # nextfileid /\ list[i].version # version[f]
    <3>1. \A i \in DOMAIN list : list[i].id \in Nat
      BY <1>e DEF EntryType
    <3> QED
      BY <1>t, <2>3, <3>1 DEF EntriesKnown
  <2>8. EntriesDiffer'
    <3> SUFFICES ASSUME NEW i \in DOMAIN list', NEW j \in DOMAIN list', i # j
                 PROVE  list'[i].id # list'[j].id /\ list'[i].version # list'[j].version
      BY DEF EntriesDiffer
    <3> QED
      BY <2>5, <2>6, <2>7 DEF EntriesDiffer
  <2>9. EntriesKnown'
    <3> SUFFICES ASSUME NEW i \in DOMAIN list'
                 PROVE  /\ list'[i].id < nextfileid'
                        /\ list'[i].version \in 1..MaxChanges
                        /\ pushed'[list'[i].version] > 0
      BY DEF EntriesKnown
    <3>1. CASE i \in DOMAIN list /\ list'[i] = list[i]
      <4>1. list[i].id < nextfileid /\ list[i].id \in Nat
        BY <1>e, <3>1 DEF EntriesKnown, EntryType
      <4> QED
        BY <1>t, <2>1, <2>4, <2>7, <3>1, <4>1 DEF EntriesKnown
    <3>2. CASE list'[i] = Entry(f, nextfileid)
      BY <1>t, <2>1, <2>2, <2>4, <2>6, <3>2
    <3> QED
      BY <2>5, <3>1, <3>2
  <2> QED
    BY <2>8, <2>9
<1>3. ASSUME NEW f \in File, ScanEntry(f), list' = list PROVE ListInv'
  <2>1. list # Append(list, Entry(f, nextfileid))
    BY <1>t
  <2> QED
    BY <1>1, <1>3, <2>1 DEF ScanEntry
<1>4. ASSUME NEW h \in {"nobody", "taker"}, ScanEnd(h) PROVE ListInv'
  <2>1. PICK p \in [DOMAIN list -> DOMAIN list] :
          /\ DOMAIN list' = DOMAIN list
          /\ \A i \in DOMAIN list : list'[i] = list[p[i]]
          /\ \A i, j \in DOMAIN list : i # j => p[i] # p[j]
    BY <1>4, SortingKeeps DEF ScanEnd
  <2>2. UNCHANGED <<nextfileid, pushed>>
    BY <1>4 DEF ScanEnd
  <2> QED
    BY <2>1, <2>2 DEF EntriesDiffer, EntriesKnown
<1>5. CASE GetSong
  <2>1. UNCHANGED <<nextfileid, pushed>> /\ (list # <<>> => list' = Tail(list))
    BY <1>5 DEF GetSong
  <2>2. CASE list = <<>>
    BY <1>1, <1>5, <2>1, <2>2 DEF GetSong
  <2>3. CASE list # <<>>
    <3>1. \A i \in DOMAIN list' : i \in Int /\ i + 1 \in DOMAIN list /\ list'[i] = list[i + 1]
      BY <1>t, <2>1, <2>3
    <3>2. \A i, j \in DOMAIN list' : i # j => i + 1 # j + 1
      BY <3>1
    <3> QED
      BY <2>1, <3>1, <3>2 DEF EntriesDiffer, EntriesKnown
  <2> QED
    BY <2>2, <2>3
<1>6. CASE SaveWrite \/ Crash
  <2>1. DOMAIN list' = {}
    BY <1>6 DEF SaveWrite, Crash, ProcessEnds
  <2> QED
    BY <2>1 DEF EntriesDiffer, EntriesKnown
<1>7. CASE \/ Tick \/ (\E f \in File : Change(f) \/ Remove(f))
           \/ (\E c \in {"player", "http"} : ScanBegin(c))
           \/ SaveRead \/ SaveTruncate \/ UNCHANGED vars
  BY <1>1, <1>7
     DEF Tick, Change, Remove, ScanBegin, SaveRead, SaveTruncate, vars, queue, history
<1>8. CASE Start
  BY <1>1, <1>8 DEF Start, DownIsEmpty, history
<1> QED
  BY <1>2, <1>3, <1>4, <1>5, <1>6, <1>7, <1>8 DEF Next, GetSizeEnd, GetSongScanned

(* A step that leaves list, lock and time of the scan alone is a stutter. *)
LEMMA AbstractFrame ==
  ASSUME UNCHANGED <<list, lastupdate, holder, pushed, playedto>>
  PROVE  UNCHANGED <<Waiting, QueuedSoFar, playedto>>
BY DEF Waiting, QueuedSoFar, Listed, Found, Scanning

LEMMA AbstractInit == Init => Abstract!Init
<1> SUFFICES ASSUME Init PROVE Abstract!Init
  OBVIOUS
<1>1. Listed = {} /\ playedto = 0 /\ \A v \in 1..MaxChanges : ~(pushed[v] > 0)
  BY DEF Init, Listed
<1>2. Waiting = {} /\ QueuedSoFar = {}
  BY <1>1 DEF Waiting, QueuedSoFar, Found
<1> QED
  BY <1>1, <1>2 DEF Abstract!Init

(* The end of a scan queues what the scan has found. *)
LEMMA AbstractEnqueue ==
  ASSUME TypeOK, OrderInv, ListInv, NEW h \in {"nobody", "taker"}, ScanEnd(h)
  PROVE  Abstract!Enqueue
<1>1. /\ Listed' = Listed /\ Found' = {} /\ UNCHANGED <<pushed, playedto>>
  <2>1. Listed' = Listed
    BY SortingLists DEF ScanEnd
  <2> QED
    BY <2>1 DEF ScanEnd, Found, Scanning
<1>2. /\ Found \subseteq Listed
      /\ \A e \in Listed \ Found, f \in Found : e.ctime <= f.ctime
  <2>1. \A e \in Listed : e.ctime \in Nat
    <3>1. \A i \in DOMAIN list : list[i] \in EntryType
      BY DEF TypeOK
    <3> QED
      BY <3>1 DEF Listed, EntryType
  <2>2. lastupdate \in Int
    BY DEF TypeOK
  <2> QED
    BY <2>1, <2>2 DEF Found
<1>3. Waiting' = {Request(e) : e \in Listed} /\ QueuedSoFar' = {v \in 1..MaxChanges : pushed[v] > 0}
  BY <1>1 DEF Waiting, QueuedSoFar, Request
<1>4. \A q \in Waiting' \ Waiting : \E e \in Found : q = Request(e)
  BY <1>3 DEF Waiting
<1>5. {Request(e) : e \in Found} \subseteq Waiting' \ Waiting
  <2> SUFFICES ASSUME NEW e \in Found, NEW w \in Listed \ Found, Request(e) = Request(w)
               PROVE  FALSE
    BY <1>2, <1>3 DEF Waiting
  <2>1. e.id = w.id
    BY DEF Request
  <2>2. e = w
    BY <1>2, <2>1 DEF ListInv, EntriesDiffer, Listed
  <2> QED
    BY <2>2
<1>6. /\ \A q \in Waiting' \ Waiting : \E e \in Found : q.version = e.version /\ q.date = e.ctime
      /\ \A e \in Found : \E q \in Waiting' \ Waiting : q.version = e.version
  <2>1. \A e \in Found : Request(e).version = e.version /\ Request(e).date = e.ctime
    BY DEF Request
  <2>2. \A e \in Found : Request(e) \in Waiting' \ Waiting
    BY <1>5
  <2> QED
    BY <1>4, <2>1, <2>2
<1>7. \A e, f \in Found : e.version = f.version => e = f
  BY <1>2 DEF ListInv, EntriesDiffer, Listed
<1>8. Waiting \subseteq Waiting'
  BY <1>2, <1>3 DEF Waiting
<1>9. \A q, r \in Waiting' \ Waiting : q.version = r.version => q = r
  <2> SUFFICES ASSUME NEW e \in Found, NEW f \in Found,
                      Request(e).version = Request(f).version
               PROVE  Request(e) = Request(f)
    BY <1>4
  <2> QED
    BY <1>7 DEF Request
<1>10. \A q \in Waiting' \ Waiting : q.date >= playedto /\ \A w \in Waiting : q.date >= w.date
  <2>1. \A e \in Listed : e.ctime >= playedto /\ e.ctime \in Nat
    <3>1. \A i \in DOMAIN list : list[i] \in EntryType
      BY DEF TypeOK
    <3> QED
      BY <3>1 DEF OrderInv, ListIsNewer, Listed, EntryType
  <2>2. \A w \in Waiting : \E e \in Listed \ Found : w.date = e.ctime
    BY DEF Waiting, Request
  <2> QED
    BY <1>2, <1>6, <2>1, <2>2
<1>11. /\ QueuedSoFar \cap {q.version : q \in Waiting' \ Waiting} = {}
       /\ QueuedSoFar' = QueuedSoFar \cup {q.version : q \in Waiting' \ Waiting}
  <2>1. {q.version : q \in Waiting' \ Waiting} = {e.version : e \in Found}
    BY <1>6
  <2>2. {e.version : e \in Found} \subseteq {v \in 1..MaxChanges : pushed[v] > 0}
    BY <1>2 DEF ListInv, EntriesKnown, Listed
  <2> QED
    BY <1>3, <2>1, <2>2 DEF QueuedSoFar
<1> QED
  BY <1>1, <1>8, <1>9, <1>10, <1>11
     DEF Abstract!Enqueue, Abstract!Found, Abstract!EachOnce, Abstract!AtTheEnd

(* GetSong takes one of the oldest. *)
LEMMA AbstractTake ==
  ASSUME TypeOK, OrderInv, ListInv, GetSong, list # <<>>
  PROVE  Abstract!Take
<1>1. /\ Found = {} /\ Found' = {} /\ list' = Tail(list) /\ pushed' = pushed
      /\ Sorted(list)
  BY DEF GetSong, Found, Scanning, OrderInv, ListAtRest
<1>2. /\ 1 \in DOMAIN list /\ Head(list) = list[1]
      /\ \A i \in DOMAIN list : list[i] \in EntryType
  BY DEF TypeOK
<1>3. \A i \in DOMAIN list : list[i].ctime \in Nat
  BY <1>2 DEF EntryType
<1>4. \A i \in DOMAIN list : list[1].ctime <= list[i].ctime
  BY <1>1, <1>2, <1>3 DEF Sorted, TypeOK
<1>5. playedto' = list[1].ctime
  BY <1>2, <1>3 DEF GetSong, OrderInv, ListIsNewer, TypeOK
<1>6. Listed' = Listed \ {list[1]}
  <2>1. \A e \in Listed' : \E i \in DOMAIN list : i # 1 /\ e = list[i]
    BY <1>1, <1>2 DEF Listed, TypeOK
  <2>2. \A i \in DOMAIN list : i # 1 => list[i] \in Listed'
    <3> SUFFICES ASSUME NEW i \in DOMAIN list, i # 1 PROVE list[i] \in Listed'
      OBVIOUS
    <3>1. i - 1 \in DOMAIN list' /\ list'[i - 1] = list[i]
      BY <1>1 DEF TypeOK
    <3> QED
      BY <3>1 DEF Listed
  <2>3. \A i \in DOMAIN list : i # 1 => list[i] # list[1]
    BY <1>2 DEF ListInv, EntriesDiffer
  <2> QED
    BY <2>1, <2>2, <2>3 DEF Listed
<1>7. \A e \in Listed : Request(e) = Request(list[1]) => e = list[1]
  <2> SUFFICES ASSUME NEW e \in Listed, Request(e) = Request(list[1]) PROVE e = list[1]
    OBVIOUS
  <2>1. e.id = list[1].id
    BY DEF Request
  <2> QED
    BY <1>2, <2>1 DEF ListInv, EntriesDiffer, Listed
<1>8. Waiting = {Request(e) : e \in Listed} /\ Waiting' = {Request(e) : e \in Listed'}
  BY <1>1 DEF Waiting, Request
<1>9. Waiting' = Waiting \ {Request(list[1])}
  BY <1>6, <1>7, <1>8
<1>10. Request(list[1]) \in Waiting /\ Request(list[1]).date = list[1].ctime
  BY <1>2, <1>8 DEF Listed, Request
<1>11. \A w \in Waiting : Request(list[1]).date <= w.date
  BY <1>4, <1>8 DEF Listed, Request
<1>12. QueuedSoFar' = QueuedSoFar
  BY <1>1 DEF QueuedSoFar
<1> QED
  BY <1>5, <1>9, <1>10, <1>11, <1>12 DEF Abstract!Take

(* While a scan reads, what it finds is neither waiting nor queued yet. *)
LEMMA AbstractEntry ==
  ASSUME TypeOK, OnceInv, NEW f \in File, ScanEntry(f)
  PROVE  UNCHANGED <<Waiting, QueuedSoFar, playedto>>
<1>1. Scanning /\ Scanning' /\ UNCHANGED <<lastupdate, holder, playedto>>
  BY DEF ScanEntry, OnceInv, UnreadInScan, Scanning
<1>2. CASE UNCHANGED <<list, pushed>>
  BY <1>1, <1>2, AbstractFrame
<1>3. CASE /\ f \in OnDisk /\ Fresh(f)
           /\ list' = Append(list, Entry(f, nextfileid))
           /\ pushed' = [pushed EXCEPT ![version[f]] = @ + 1]
  <2> DEFINE e == Entry(f, nextfileid)
  <2>1. e.ctime > lastupdate /\ e.version = version[f]
    BY <1>3 DEF Fresh, Entry
  <2>2. Listed' = Listed \cup {e}
    <3>1. list \in Seq(EntryType)
      BY DEF TypeOK
    <3>2. DOMAIN list' = DOMAIN list \cup {Len(list) + 1}
      BY <1>3, <3>1
    <3>3. list'[Len(list) + 1] = e /\ \A i \in DOMAIN list : list'[i] = list[i]
      BY <1>3, <3>1
    <3> QED
      BY <3>2, <3>3 DEF Listed
  <2>3. Found' = Found \cup {e}
    BY <1>1, <2>1, <2>2 DEF Found
  <2>4. Listed' \ Found' = Listed \ Found
    BY <1>1, <2>1, <2>2, <2>3 DEF Found
  <2>5. version[f] \in 1..MaxChanges
    BY <1>3 DEF OnceInv, VersionsKnown, OnDisk, TypeOK
  <2>6. pushed[version[f]] = 0
    BY <1>3, <2>5 DEF ScanEntry, OnceInv, PushedPassed, Fresh, TypeOK, OnDisk
  <2>7. {v \in 1..MaxChanges : pushed'[v] > 0} = {v \in 1..MaxChanges : pushed[v] > 0} \cup {version[f]}
    BY <1>3, <2>5, <2>6 DEF TypeOK
  <2>8. {x.version : x \in Found'} = {x.version : x \in Found} \cup {version[f]}
    BY <2>1, <2>3
  <2>9. QueuedSoFar' = QueuedSoFar
    BY <2>6, <2>7, <2>8 DEF QueuedSoFar
  <2> QED
    BY <1>1, <2>4, <2>9 DEF Waiting, Request
<1> QED
  BY <1>2, <1>3 DEF ScanEntry

LEMMA AbstractStep ==
  TypeOK /\ DownIsEmpty /\ OnceInv /\ OrderInv /\ ListInv /\ [Next]_vars
    => [Abstract!Next]_<<Waiting, QueuedSoFar, playedto>>
<1> SUFFICES ASSUME TypeOK, DownIsEmpty, OnceInv, OrderInv, ListInv, [Next]_vars
             PROVE  Abstract!Next \/ UNCHANGED <<Waiting, QueuedSoFar, playedto>>
  OBVIOUS
<1>1. CASE \/ Tick \/ (\E f \in File : Change(f) \/ Remove(f))
           \/ SaveRead \/ SaveTruncate \/ UNCHANGED vars
  BY <1>1, AbstractFrame
     DEF Tick, Change, Remove, SaveRead, SaveTruncate, vars, disk, queue, history
<1>2. ASSUME NEW c \in {"player", "http"}, ScanBegin(c)
      PROVE  UNCHANGED <<Waiting, QueuedSoFar, playedto>>
  <2>1. UNCHANGED <<list, lastupdate, pushed, playedto>> /\ ~Scanning
    BY <1>2 DEF ScanBegin, Scanning
  <2>2. Found = {} /\ Found' = {} /\ Listed' = Listed
    <3>1. \A i \in DOMAIN list : ~(list[i].ctime > lastupdate)
      <4>1. \A i \in DOMAIN list : list[i] \in EntryType
        BY DEF TypeOK
      <4> QED
        BY <2>1, <4>1 DEF OrderInv, ListAtRest, EntryType, TypeOK
    <3> QED
      BY <2>1, <3>1 DEF Found, Listed
  <2> QED
    BY <2>1, <2>2 DEF Waiting, QueuedSoFar, Request
<1>3. ASSUME NEW f \in File, ScanEntry(f) PROVE UNCHANGED <<Waiting, QueuedSoFar, playedto>>
  BY <1>3, AbstractEntry
<1>4. ASSUME NEW h \in {"nobody", "taker"}, ScanEnd(h) PROVE Abstract!Next
  BY <1>4, AbstractEnqueue DEF Abstract!Next
<1>5. CASE GetSong
  <2>1. CASE list = <<>>
    <3>1. UNCHANGED <<list, lastupdate, pushed, playedto>> /\ ~Scanning /\ ~Scanning'
      BY <1>5, <2>1 DEF GetSong, Scanning
    <3> QED
      BY <3>1 DEF Waiting, QueuedSoFar, Listed, Found
  <2>2. CASE list # <<>>
    BY <1>5, <2>2, AbstractTake DEF Abstract!Next
  <2> QED
    BY <2>1, <2>2
<1>6. CASE SaveWrite \/ Crash
  <2>1. /\ Listed' = {} /\ playedto' = 0
        /\ \A v \in 1..MaxChanges : ~(pushed'[v] > 0)
    <3>1. list' = <<>> /\ playedto' = 0 /\ pushed' = [v \in 1..MaxChanges |-> 0]
      BY <1>6 DEF SaveWrite, Crash, ProcessEnds
    <3>2. DOMAIN list' = {} /\ \A v \in 1..MaxChanges : pushed'[v] = 0
      BY <3>1
    <3> QED
      BY <3>1, <3>2 DEF Listed
  <2>2. Waiting' = {} /\ QueuedSoFar' = {}
    BY <2>1 DEF Waiting, QueuedSoFar, Found
  <2> QED
    BY <2>1, <2>2 DEF Abstract!Next, Abstract!Restart
<1>7. CASE Start
  <2>1. /\ Listed = {} /\ Listed' = {} /\ UNCHANGED <<pushed, playedto>>
    BY <1>7 DEF Start, DownIsEmpty, Listed, history
  <2> QED
    BY <2>1 DEF Waiting, QueuedSoFar, Found
<1> QED
  BY <1>1, <1>2, <1>3, <1>4, <1>5, <1>6, <1>7 DEF Next, GetSizeEnd, GetSongScanned

(***************************************************************************)
(* Directory implements RequestQueue: whatever lands, is removed, scanned, *)
(* played, saved or lost in a crash, the player sees a queue that hands    *)
(* out each version once and the oldest first.                             *)
(***************************************************************************)
THEOREM Implements == Spec => ImplementsRequestQueue
<1>1. /\ TypeOK /\ DownIsEmpty /\ OnceInv /\ OrderInv /\ ListInv /\ [Next]_vars
         => TypeOK' /\ DownIsEmpty' /\ OnceInv' /\ OrderInv' /\ ListInv'
  BY TypeStep, DownStep, OnceStep, OrderStep, ListStep
<1>2. Init => TypeOK /\ DownIsEmpty /\ OnceInv /\ OrderInv /\ ListInv
  BY TypeInit, DownInit, OnceInit, OrderInit, ListInit
<1> QED
  BY <1>1, <1>2, AbstractInit, AbstractStep, PTL
     DEF Spec, ImplementsRequestQueue, Abstract!Spec, Abstract!vars

-----------------------------------------------------------------------------
(***************************************************************************)
(* LostOnlyDuringScan.  While a scan is under way its second is one of     *)
(* those in which a scan passed, and so is lastupdate after it; a file     *)
(* that was not queued is still to be read, or still newer than            *)
(* lastupdate, or changed in one of those seconds.                         *)
(***************************************************************************)
BlindSeconds ==
  /\ lastupdate \in blind \cup {0} /\ lastupdate <= now
  /\ Scanning => now \in blind

Accounted(f) ==
  /\ Fresh(f) \/ ctime[f] \in blind
  /\ Scanning => f \in unread \/ ctime[f] \in blind

BlindInv == starts = 1 => BlindSeconds /\ \A f \in File : NeverQueued(f) => Accounted(f)

LEMMA BlindInit == Init => BlindInv
BY BoundAssumption DEF Init, BlindInv, BlindSeconds, NeverQueued, OnDisk, Scanning

(* Nothing that counts changes, but that more seconds are blind. *)
LEMMA BlindFrame ==
  ASSUME BlindInv, UNCHANGED <<disk, lastupdate, holder, unread, pushed, starts>>,
         blind \subseteq blind', Scanning => now' \in blind',
         now <= now', now \in Int, now' \in Int, lastupdate \in Int
  PROVE  BlindInv'
BY DEF BlindInv, BlindSeconds, Accounted, NeverQueued, Fresh, OnDisk, Scanning, disk

(* A process that ends has scanned nothing. *)
LEMMA BlindEnds ==
  ASSUME TypeOK, ProcessEnds, UNCHANGED <<now, disk>>
  PROVE  BlindInv'
<1>1. lastupdate' = 0 /\ lastupdate' <= now' /\ ~Scanning'
  BY DEF ProcessEnds, Scanning, TypeOK
<1>2. \A f \in OnDisk' : Fresh(f)'
  BY <1>1 DEF OnDisk, Absent, Fresh, TypeOK, disk
<1> QED
  BY <1>1, <1>2 DEF BlindInv, BlindSeconds, Accounted, NeverQueued

LEMMA BlindStep ==
  TypeOK /\ OnceInv /\ BlindInv /\ [Next]_vars => BlindInv'
<1> SUFFICES ASSUME TypeOK, OnceInv, BlindInv, [Next]_vars, starts' = 1
             PROVE  BlindInv'
  BY DEF BlindInv
<1>1. CASE Tick
  <2>1. now' = now + 1 /\ UNCHANGED <<disk, lastupdate, holder, unread, starts, pushed>>
    BY <1>1 DEF Tick, queue, state
  <2> QED
    BY <1>1, <2>1, BlindFrame DEF Tick, TypeOK
<1>2. ASSUME NEW f \in File, Change(f) PROVE BlindInv'
  <2>1. /\ ctime' = [ctime EXCEPT ![f] = now]
        /\ UNCHANGED <<now, lastupdate, holder, starts, pushed, blind>>
        /\ unread \subseteq unread'
    BY <1>2 DEF Change, state, history
  <2>2. \A g \in File : g # f => version'[g] = version[g] /\ ctime'[g] = ctime[g]
    BY <1>2, <2>1 DEF Change, TypeOK
  <2>3. ctime'[f] = now
    BY <2>1 DEF TypeOK
  <2>4. BlindSeconds /\ BlindSeconds'
    BY <2>1 DEF BlindInv, BlindSeconds, Scanning
  <2>5. Fresh(f)' \/ now \in blind
    BY <2>1, <2>3, <2>4 DEF BlindSeconds, Fresh, TypeOK
  <2>6. Accounted(f)'
    BY <2>1, <2>3, <2>4, <2>5 DEF Accounted, BlindSeconds, Scanning
  <2>7. ASSUME NEW g \in File, g # f, NeverQueued(g)' PROVE Accounted(g)'
    <3>1. NeverQueued(g)
      BY <2>1, <2>2, <2>7 DEF NeverQueued, OnDisk
    <3> QED
      BY <2>1, <2>2, <2>7, <3>1 DEF BlindInv, Accounted, Fresh, Scanning
  <2> QED
    BY <2>4, <2>6, <2>7 DEF BlindInv
<1>3. ASSUME NEW f \in File, Remove(f) PROVE BlindInv'
  <2>1. UNCHANGED <<now, version, lastupdate, holder, unread, starts, pushed, blind>>
    BY <1>3 DEF Remove, queue, state, history
  <2>2. \A g \in OnDisk' : g \in OnDisk /\ ctime'[g] = ctime[g]
    BY <1>3 DEF Remove, OnDisk, TypeOK
  <2>3. \A g \in File : NeverQueued(g)' => NeverQueued(g) /\ ctime'[g] = ctime[g]
    BY <2>1, <2>2 DEF NeverQueued
  <2> QED
    BY <2>1, <2>3 DEF BlindInv, BlindSeconds, Accounted, Fresh, Scanning
<1>4. ASSUME NEW c \in {"player", "http"}, ScanBegin(c) PROVE BlindInv'
  <2>1. /\ UNCHANGED <<now, ctime, version, lastupdate, starts, pushed>>
        /\ unread' = OnDisk /\ blind' = blind \cup {now}
    BY <1>4 DEF ScanBegin, disk, state
  <2> QED
    BY <2>1 DEF BlindInv, BlindSeconds, Accounted, NeverQueued, Fresh, OnDisk
<1>5. ASSUME NEW f \in File, ScanEntry(f) PROVE BlindInv'
  <2>1. /\ UNCHANGED <<now, ctime, version, lastupdate, holder, starts, blind>>
        /\ unread' = unread \ {f} /\ OnDisk' = OnDisk
    BY <1>5 DEF ScanEntry, disk, state, OnDisk
  <2>2. ASSUME NEW g \in File, NeverQueued(g)' PROVE NeverQueued(g) /\ Accounted(g)'
    <3>1. version[g] \in 1..MaxChanges
      BY <2>1, <2>2 DEF NeverQueued, OnceInv, VersionsKnown, OnDisk, TypeOK
    <3>2. CASE f \in OnDisk \cap Mp3File /\ Fresh(f)
      <4>1. pushed' = [pushed EXCEPT ![version[f]] = @ + 1]
        BY <1>5, <3>2 DEF ScanEntry
      <4>2. pushed'[version[g]] = 0 /\ pushed \in [1..MaxChanges -> Nat]
        BY <2>1, <2>2 DEF NeverQueued, TypeOK
      <4>3. version[f] # version[g] /\ pushed[version[g]] = 0
        BY <3>1, <4>1, <4>2
      <4> QED
        BY <2>1, <2>2, <4>3 DEF NeverQueued, BlindInv, Accounted, Fresh, Scanning
    <3>3. CASE ~(f \in OnDisk \cap Mp3File /\ Fresh(f))
      <4>1. NeverQueued(g)
        BY <1>5, <2>1, <2>2, <3>3 DEF ScanEntry, NeverQueued
      <4>2. g = f => ctime[g] \in blind
        BY <2>1, <3>3, <4>1 DEF BlindInv, Accounted, NeverQueued
      <4> QED
        BY <2>1, <4>1, <4>2 DEF BlindInv, Accounted, Fresh, Scanning
    <3> QED
      BY <3>2, <3>3
  <2> QED
    BY <2>1, <2>2 DEF BlindInv, BlindSeconds, Scanning
<1>6. ASSUME NEW h \in {"nobody", "taker"}, ScanEnd(h), Scanning PROVE BlindInv'
  <2>1. /\ UNCHANGED <<now, ctime, version, unread, starts, pushed, blind>>
        /\ OnDisk' = OnDisk /\ lastupdate' = now /\ unread = {} /\ ~Scanning'
    BY <1>6 DEF ScanEnd, disk, state, OnDisk, Scanning
  <2>2. BlindSeconds'
    BY <1>6, <2>1 DEF BlindInv, BlindSeconds, TypeOK
  <2>3. \A f \in File : NeverQueued(f)' => ctime[f] \in blind
    BY <1>6, <2>1 DEF BlindInv, Accounted, NeverQueued
  <2> QED
    BY <2>1, <2>2, <2>3 DEF BlindInv, Accounted
<1>7. CASE GetSong
  <2>1. UNCHANGED <<now, ctime, version, lastupdate, unread, starts, pushed, blind>>
    BY <1>7 DEF GetSong, disk, state
  <2>2. ~Scanning' /\ OnDisk' = OnDisk
    BY <1>7, <2>1 DEF GetSong, Scanning, OnDisk
  <2> QED
    BY <2>1, <2>2 DEF BlindInv, BlindSeconds, Accounted, NeverQueued, Fresh
<1>8. CASE SaveRead \/ SaveTruncate \/ UNCHANGED vars
  <2>1. UNCHANGED <<now, disk, lastupdate, holder, unread, starts, pushed, blind>>
    BY <1>8 DEF SaveRead, SaveTruncate, vars, queue, state, history
  <2> QED
    BY <2>1, BlindFrame DEF BlindInv, BlindSeconds, TypeOK
<1>9. CASE SaveWrite \/ Crash
  BY <1>9, BlindEnds DEF SaveWrite, Crash
<1>10. CASE Start
  BY <1>10 DEF Start, TypeOK
<1> QED
  BY <1>1, <1>2, <1>3, <1>4, <1>5, <1>6, <1>7, <1>8, <1>9, <1>10
     DEF Next, GetSizeEnd, GetSongScanned, Scanning

(***************************************************************************)
(* What Update passes over for good (Directory.cc:21-113) changed in a     *)
(* second in which a scan was under way: in the first run nothing else     *)
(* that is on the disk is left unqueued behind lastupdate.                 *)
(***************************************************************************)
THEOREM LossBounded == Spec => []LostOnlyDuringScan
<1>1. /\ TypeOK /\ DownIsEmpty /\ OnceInv /\ BlindInv /\ [Next]_vars
         => TypeOK' /\ DownIsEmpty' /\ OnceInv' /\ BlindInv'
  BY TypeStep, DownStep, OnceStep, BlindStep
<1>2. BlindInv => LostOnlyDuringScan
  BY DEF BlindInv, Accounted, LostOnlyDuringScan
<1> QED
  BY TypeInit, DownInit, OnceInit, BlindInit, <1>1, <1>2, PTL DEF Spec

-----------------------------------------------------------------------------
(***************************************************************************)
(* QueuedSurvivesRestart.  What the list holds of a file on the disk is    *)
(* its ctime, and of what was there before the scan nothing is older than  *)
(* the front; so the time that quit reads reaches back to all it owes.     *)
(***************************************************************************)
FrontIsOldest ==
  \A i \in DOMAIN list : list[i].ctime > lastupdate \/ list[1].ctime <= list[i].ctime

EntriesTrue ==
  \A i \in DOMAIN list : \A f \in OnDisk :
    list[i].version = version[f] => list[i].ctime = ctime[f]

FrontInv == FrontIsOldest /\ EntriesTrue

LEMMA FrontInit == Init => FrontInv
BY DEF Init, FrontInv, FrontIsOldest, EntriesTrue

LEMMA FrontStep ==
  ASSUME TypeOK, DownIsEmpty, OnceInv, OrderInv, OrderInv', ListInv, FrontInv, [Next]_vars
  PROVE  FrontInv'
<1> USE DEF FrontInv
<1>t. /\ list \in Seq(EntryType) /\ lastupdate \in Int
      /\ \A i \in DOMAIN list : list[i].ctime \in Nat
  <2>1. \A i \in DOMAIN list : list[i] \in EntryType
    BY DEF TypeOK
  <2> QED
    BY <2>1 DEF EntryType, TypeOK
<1>1. CASE UNCHANGED <<list, lastupdate, version>> /\ \A f \in OnDisk' : f \in OnDisk /\ ctime'[f] = ctime[f]
  BY <1>1 DEF FrontIsOldest, EntriesTrue
<1>2. ASSUME NEW f \in File, Change(f) PROVE FrontInv'
  <2>1. UNCHANGED <<list, lastupdate>> /\ version'[f] = changes + 1
    BY <1>2 DEF Change, TypeOK
  <2>2. \A g \in OnDisk' : g # f => g \in OnDisk /\ version'[g] = version[g] /\ ctime'[g] = ctime[g]
    BY <1>2 DEF Change, OnDisk, TypeOK
  <2>3. \A i \in DOMAIN list : list[i].version <= changes
    BY DEF ListInv, EntriesKnown, OnceInv, VersionsKnown, TypeOK
  <2>4. \A i \in DOMAIN list : list[i].version # version'[f]
    BY <2>1, <2>3 DEF ListInv, EntriesKnown, TypeOK
  <2> QED
    BY <2>1, <2>2, <2>4 DEF FrontIsOldest, EntriesTrue
<1>3. ASSUME NEW f \in File, ScanEntry(f) PROVE FrontInv'
  <2>1. UNCHANGED <<ctime, version, lastupdate>> /\ OnDisk' = OnDisk
    BY <1>3 DEF ScanEntry, disk, OnDisk
  <2>2. CASE list' = list
    BY <1>1, <2>1, <2>2
  <2>3. CASE f \in OnDisk /\ Fresh(f) /\ list' = Append(list, Entry(f, nextfileid))
    <3> DEFINE n == Len(list) + 1
    <3>1. /\ DOMAIN list' = DOMAIN list \cup {n} /\ list'[n] = Entry(f, nextfileid)
          /\ \A i \in DOMAIN list : i # n /\ list'[i] = list[i]
      BY <1>t, <2>3
    <3>2. list'[n].ctime = ctime[f] /\ list'[n].version = version[f] /\ ctime[f] > lastupdate
      BY <2>3, <3>1 DEF Entry, Fresh
    <3>3. FrontIsOldest'
      <4>1. \A i \in DOMAIN list : 1 \in DOMAIN list
        BY <1>t
      <4> QED
        BY <2>1, <3>1, <3>2, <4>1 DEF FrontIsOldest
    <3>4. \A g \in OnDisk : version[f] = version[g] => f = g
      BY <2>3 DEF OnceInv, VersionsDiffer, VersionsKnown, OnDisk
    <3> QED
      BY <2>1, <3>1, <3>2, <3>3, <3>4 DEF EntriesTrue
  <2> QED
    BY <1>3, <2>2, <2>3 DEF ScanEntry
<1>4. ASSUME ~Scanning', UNCHANGED <<version, ctime>>,
             \A i \in DOMAIN list' : \E j \in DOMAIN list : list'[i] = list[j]
      PROVE  FrontInv'
  <2>1. FrontIsOldest'
    <3> SUFFICES ASSUME NEW i \in DOMAIN list' PROVE list'[1].ctime <= list'[i].ctime
      BY DEF FrontIsOldest
    <3>1. list' \in Seq(EntryType)
      BY <1>4, TypeStep DEF TypeOK
    <3>2. 1 \in DOMAIN list' /\ i \in Nat /\ 1 <= i
      BY <3>1
    <3>3. list'[1].ctime \in Nat
      BY <1>t, <1>4, <3>2
    <3> QED
      BY <1>4, <3>2, <3>3 DEF OrderInv, ListAtRest, Sorted
  <2>2. OnDisk' = OnDisk
    BY <1>4 DEF OnDisk
  <2> QED
    BY <1>4, <2>1, <2>2 DEF EntriesTrue
<1>5. ASSUME NEW h \in {"nobody", "taker"}, ScanEnd(h) PROVE FrontInv'
  <2>1. ~Scanning' /\ UNCHANGED <<version, ctime>>
    BY <1>5 DEF ScanEnd, Scanning, disk
  <2>2. \A i \in DOMAIN list' : \E j \in DOMAIN list : list'[i] = list[j]
    BY <1>5, <1>t, SortingFacts DEF ScanEnd
  <2> QED
    BY <1>4, <2>1, <2>2
<1>6. CASE GetSong
  <2>1. ~Scanning' /\ UNCHANGED <<version, ctime>>
    BY <1>6 DEF GetSong, Scanning, disk
  <2>2. CASE list = <<>>
    BY <1>4, <1>6, <2>1, <2>2 DEF GetSong
  <2>3. CASE list # <<>>
    <3>1. list' = Tail(list)
      BY <1>6, <2>3 DEF GetSong
    <3>2. \A i \in DOMAIN list' : i + 1 \in DOMAIN list /\ list'[i] = list[i + 1]
      BY <1>t, <2>3, <3>1
    <3> QED
      BY <1>4, <2>1, <3>2
  <2> QED
    BY <2>2, <2>3
<1>7. CASE SaveWrite \/ Crash
  <2>1. DOMAIN list' = {}
    BY <1>7 DEF SaveWrite, Crash, ProcessEnds
  <2> QED
    BY <2>1 DEF FrontIsOldest, EntriesTrue
<1>8. CASE Start
  <2>1. DOMAIN list' = {}
    BY <1>8 DEF Start, DownIsEmpty
  <2> QED
    BY <2>1 DEF FrontIsOldest, EntriesTrue
<1>9. CASE \/ Tick \/ (\E f \in File : Remove(f))
           \/ (\E c \in {"player", "http"} : ScanBegin(c))
           \/ SaveRead \/ SaveTruncate \/ UNCHANGED vars
  <2>1. UNCHANGED <<list, lastupdate, version>>
    BY <1>9 DEF Tick, Remove, ScanBegin, SaveRead, SaveTruncate, vars, disk, queue
  <2>2. \A f \in OnDisk' : f \in OnDisk /\ ctime'[f] = ctime[f]
    BY <1>9 DEF Tick, Remove, ScanBegin, SaveRead, SaveTruncate, vars, disk, OnDisk, TypeOK
  <2> QED
    BY <1>1, <2>1, <2>2
<1> QED
  BY <1>2, <1>3, <1>5, <1>6, <1>7, <1>8, <1>9 DEF Next, GetSizeEnd, GetSongScanned

(***************************************************************************)
(* What the last quit owes and is still as it was: the time that is being  *)
(* saved, then the one in the file, is not after it; and in the next run   *)
(* it has been queued, or is still to be read by the first scan.           *)
(***************************************************************************)
KeptStill(f) == f \in keep.files /\ version[f] = keep.version[f] /\ f \in OnDisk

ToBeQueued(f) ==
  /\ daemon \in {"truncate", "write"} => upd <= ctime[f]
  /\ daemon = "down" => 0 <= statefile /\ statefile <= ctime[f]
  /\ daemon = "up" =>
       \/ pushed[version[f]] > 0
       \/ ~scanned /\ Fresh(f) /\ (Scanning => f \in unread)

KeepInv ==
  /\ keep.files \subseteq Mp3File /\ \A f \in File : keep.version[f] <= changes
  /\ daemon = "down" => ~scanned
  /\ keep.how = "queued" => \A f \in File : KeptStill(f) => ToBeQueued(f)

LEMMA KeepInit == Init => KeepInv
BY BoundAssumption DEF Init, NothingKept, KeepInv, KeptStill

(* What is owed is not older than the time that quit saves. *)
LEMMA OwedIsLater ==
  ASSUME TypeOK, OrderInv, FrontInv, SaveRead, HowItQuits = "queued", NEW f \in Owed
  PROVE  upd' <= ctime[f]
<1>1. list # <<>> /\ ~FrontMayBeLate
  BY DEF HowItQuits
<1>2. 1 \in DOMAIN list /\ Head(list) = list[1] /\ \A i \in DOMAIN list : list[i] \in EntryType
  BY <1>1 DEF TypeOK
<1>3. \A i \in DOMAIN list : list[i].ctime \in Nat
  BY <1>2 DEF EntryType
<1>4. upd' = list[1].ctime /\ list[1].ctime <= lastupdate
  BY <1>1, <1>2, <1>3 DEF SaveRead, GetNextTimestamp, FrontMayBeLate, TypeOK
<1>5. ctime[f] \in Nat /\ lastupdate \in Int /\ f \in OnDisk
  BY FileAssumption DEF TypeOK, Owed
<1>6. CASE Fresh(f)
  BY <1>2, <1>3, <1>4, <1>5, <1>6 DEF Fresh
<1>7. CASE Queued(f)
  <2>1. PICK i \in DOMAIN list : list[i].version = version[f]
    BY <1>7 DEF Queued
  <2>2. list[i].ctime = ctime[f]
    BY <1>5, <2>1 DEF FrontInv, EntriesTrue
  <2> QED
    BY <1>2, <1>3, <1>4, <1>5, <2>2 DEF FrontInv, FrontIsOldest
<1> QED
  BY <1>6, <1>7 DEF Owed

LEMMA KeepStep ==
  ASSUME TypeOK, DownIsEmpty, OnceInv, OrderInv, FrontInv, KeepInv, [Next]_vars
  PROVE  KeepInv'
<1> USE DEF KeepInv
<1>1. ASSUME UNCHANGED <<keep, changes, daemon>>, daemon = "down" => scanned' = scanned,
             \A f \in File : KeptStill(f)' => KeptStill(f) /\ (ToBeQueued(f) => ToBeQueued(f)')
      PROVE  KeepInv'
  BY <1>1
<1>2. CASE Tick \/ SaveTruncate \/ UNCHANGED vars
  <2>1. UNCHANGED <<disk, lastupdate, holder, unread, upd, keep, pushed, scanned>>
    BY <1>2 DEF Tick, SaveTruncate, vars, queue, state, history
  <2>2. \A f \in File : KeptStill(f)' = KeptStill(f) /\ Fresh(f)' = Fresh(f)
    BY <2>1 DEF KeptStill, Fresh, OnDisk, disk
  <2>3. CASE SaveTruncate
    BY <2>1, <2>2, <2>3 DEF SaveTruncate, ToBeQueued, disk
  <2>4. CASE UNCHANGED state
    BY <2>1, <2>2, <2>4 DEF state, ToBeQueued, disk, Scanning
  <2> QED
    BY <1>2, <2>3, <2>4 DEF Tick, vars
<1>3. ASSUME NEW f \in File, Change(f) PROVE KeepInv'
  <2>1. /\ changes' = changes + 1 /\ version'[f] = changes + 1
        /\ UNCHANGED <<lastupdate, holder, state, keep, pushed, scanned>>
        /\ unread \subseteq unread'
    BY <1>3 DEF Change, history, TypeOK
  <2>2. \A g \in File : g # f => version'[g] = version[g] /\ ctime'[g] = ctime[g]
    BY <1>3 DEF Change, TypeOK
  <2>3. \A g \in File : keep.version[g] \in Nat /\ changes \in Nat
    BY DEF TypeOK
  <2>4. ~KeptStill(f)'
    BY <2>1, <2>3 DEF KeptStill
  <2>5. ASSUME NEW g \in File, KeptStill(g)' PROVE KeptStill(g) /\ (ToBeQueued(g) => ToBeQueued(g)')
    <3>1. g # f
      BY <2>4, <2>5
    <3>2. KeptStill(g)
      BY <2>1, <2>2, <2>5, <3>1 DEF KeptStill, OnDisk
    <3>3. Fresh(g)' = Fresh(g)
      BY <2>1, <2>2, <3>1 DEF Fresh
    <3> QED
      BY <2>1, <2>2, <3>1, <3>2, <3>3 DEF ToBeQueued, Scanning, state
  <2> QED
    BY <2>1, <2>3, <2>5 DEF state
<1>4. ASSUME NEW f \in File, Remove(f) PROVE KeepInv'
  <2>1. UNCHANGED <<version, changes, lastupdate, holder, unread, state, keep, pushed, scanned>>
    BY <1>4 DEF Remove, queue, history
  <2>2. \A g \in OnDisk' : g \in OnDisk /\ ctime'[g] = ctime[g]
    BY <1>4 DEF Remove, OnDisk, TypeOK
  <2>3. \A g \in File : KeptStill(g)' => KeptStill(g) /\ (ToBeQueued(g) => ToBeQueued(g)')
    BY <2>1, <2>2 DEF KeptStill, ToBeQueued, Fresh, Scanning, state
  <2> QED
    BY <1>1, <2>1, <2>3 DEF state
<1>5. ASSUME NEW c \in {"player", "http"}, ScanBegin(c) PROVE KeepInv'
  <2>1. /\ UNCHANGED <<disk, lastupdate, state, keep, pushed, scanned>>
        /\ unread' = OnDisk /\ OnDisk' = OnDisk
    BY <1>5 DEF ScanBegin, OnDisk, disk
  <2>2. \A g \in File : KeptStill(g)' => KeptStill(g) /\ (ToBeQueued(g) => ToBeQueued(g)')
    BY <2>1 DEF KeptStill, ToBeQueued, Fresh, state, disk
  <2> QED
    BY <1>1, <2>1, <2>2 DEF state, disk
<1>6. ASSUME NEW f \in File, ScanEntry(f) PROVE KeepInv'
  <2>1. /\ UNCHANGED <<disk, lastupdate, holder, state, keep, scanned>>
        /\ unread' = unread \ {f} /\ OnDisk' = OnDisk /\ Scanning
    BY <1>6 DEF ScanEntry, OnDisk, disk, OnceInv, UnreadInScan
  <2>2. ASSUME NEW g \in File, KeptStill(g)' PROVE KeptStill(g) /\ (ToBeQueued(g) => ToBeQueued(g)')
    <3>1. KeptStill(g) /\ g \in OnDisk \cap Mp3File
      BY <2>1, <2>2 DEF KeptStill, disk
    <3>2. version[g] \in 1..MaxChanges
      BY <3>1 DEF OnceInv, VersionsKnown, OnDisk, TypeOK
    <3>3. /\ pushed[version[g]] > 0 => pushed'[version[g]] > 0
          /\ f = g /\ Fresh(g) => pushed'[version[g]] > 0
      <4> DEFINE v == version[g]
                 w == version[f]
      <4>1. pushed \in [1..MaxChanges -> Nat] /\ v \in 1..MaxChanges
        BY <3>2 DEF TypeOK
      <4>2. \/ UNCHANGED pushed /\ ~(f \in OnDisk \cap Mp3File /\ Fresh(f))
            \/ pushed' = [pushed EXCEPT ![w] = pushed[w] + 1]
        BY <1>6 DEF ScanEntry
      <4>3. f = g => w = v
        OBVIOUS
      <4> HIDE DEF v, w
      <4>4. \/ pushed'[v] = pushed[v]
            \/ pushed'[v] = pushed[v] + 1
        BY <4>1, <4>2
      <4>5. f = g /\ Fresh(g) => pushed'[v] = pushed[v] + 1
        BY <3>1, <4>1, <4>2, <4>3
      <4> QED
        BY <4>1, <4>4, <4>5 DEF v
    <3>5. UNCHANGED <<version, ctime, daemon, upd, statefile>> /\ Fresh(g)' = Fresh(g)
      BY <2>1 DEF disk, state, Fresh
    <3> QED
      BY <2>1, <3>1, <3>3, <3>5 DEF ToBeQueued
  <2> QED
    BY <1>1, <2>1, <2>2 DEF state, disk
<1>7. ASSUME NEW h \in {"nobody", "taker"}, ScanEnd(h), Scanning PROVE KeepInv'
  <2>1. UNCHANGED <<disk, state, keep, pushed>> /\ OnDisk' = OnDisk /\ unread = {} /\ daemon # "down"
    BY <1>7 DEF ScanEnd, OnDisk, disk, Running
  <2>2. \A g \in File : KeptStill(g)' => KeptStill(g) /\ (ToBeQueued(g) => ToBeQueued(g)')
    BY <1>7, <2>1 DEF KeptStill, ToBeQueued, state, disk
  <2> QED
    BY <1>1, <2>1, <2>2 DEF state, disk
<1>8. CASE GetSong
  <2>1. /\ UNCHANGED <<disk, lastupdate, unread, state, keep, pushed, scanned>> /\ OnDisk' = OnDisk
        /\ ~Scanning'
    BY <1>8 DEF GetSong, OnDisk, disk, Scanning
  <2>2. \A g \in File : KeptStill(g)' => KeptStill(g) /\ (ToBeQueued(g) => ToBeQueued(g)')
    BY <2>1 DEF KeptStill, ToBeQueued, Fresh, state, disk
  <2> QED
    BY <1>1, <2>1, <2>2 DEF state, disk
<1>9. CASE SaveRead
  <2>1. /\ UNCHANGED <<disk, scanned>> /\ OnDisk' = OnDisk /\ daemon' = "truncate"
        /\ keep' = [files |-> Owed, version |-> version, how |-> HowItQuits]
    BY <1>9 DEF SaveRead, OnDisk, disk
  <2>2. keep'.files = Owed /\ keep'.version = version /\ keep'.how = HowItQuits
    BY <2>1
  <2>3. HowItQuits = "queued" => \A f \in Owed : ToBeQueued(f)'
    BY <1>9, <2>1, OwedIsLater DEF ToBeQueued, disk
  <2> QED
    BY <2>1, <2>2, <2>3 DEF KeptStill, Owed, OnceInv, VersionsKnown, disk
<1>10. CASE SaveWrite
  <2>1. /\ UNCHANGED <<disk, keep>> /\ OnDisk' = OnDisk /\ daemon' = "down" /\ scanned' = FALSE
        /\ daemon = "write" /\ statefile' = upd /\ 0 <= upd
    BY <1>10 DEF SaveWrite, ProcessEnds, OnDisk, disk, TypeOK
  <2>2. \A g \in File : KeptStill(g)' => KeptStill(g) /\ (ToBeQueued(g) => ToBeQueued(g)')
    BY <2>1 DEF KeptStill, ToBeQueued, disk
  <2> QED
    BY <2>1, <2>2 DEF disk
<1>11. CASE Crash
  <2>1. /\ UNCHANGED disk /\ scanned' = FALSE
        /\ keep' = [files |-> {}, version |-> version, how |-> "queued"]
    BY <1>11 DEF Crash, ProcessEnds, NothingKept
  <2>2. keep'.files = {} /\ keep'.version = version
    BY <2>1
  <2> QED
    BY <2>1, <2>2 DEF KeptStill, OnceInv, VersionsKnown, disk
<1>12. CASE Start
  <2>1. /\ UNCHANGED <<disk, keep, scanned, statefile>> /\ OnDisk' = OnDisk
        /\ daemon = "down" /\ daemon' = "up" /\ ~Scanning'
    BY <1>12 DEF Start, OnDisk, disk, history, DownIsEmpty, Scanning
  <2>2. ASSUME NEW g \in File, KeptStill(g)', keep.how = "queued" PROVE ToBeQueued(g)'
    <3>1. 0 <= statefile /\ statefile <= ctime[g] /\ statefile \in Int
      BY <2>1, <2>2 DEF KeptStill, ToBeQueued, TypeOK, disk
    <3>2. lastupdate' = statefile - 1
      BY <1>12, <3>1 DEF Start, NoFileState, Truncated, LoadState
    <3> QED
      BY <2>1, <3>1, <3>2 DEF ToBeQueued, Fresh, TypeOK, disk
  <2> QED
    BY <2>1, <2>2 DEF disk
<1> QED
  BY <1>2, <1>3, <1>4, <1>5, <1>6, <1>7, <1>8, <1>9, <1>10, <1>11, <1>12
     DEF Next, GetSizeEnd, GetSongScanned, Scanning

(***************************************************************************)
(* What was queued, or waiting to be scanned, when quit read the front of  *)
(* a queue that had songs is queued again by the first scan of the next    *)
(* run, if it is still there (main.cc:152-199, Directory.cc:134-145): the  *)
(* second that loadstate takes off is enough, over any number of runs,     *)
(* scans and changes.                                                      *)
(***************************************************************************)
THEOREM QueueOutlivesQuit == Spec => []QueuedSurvivesRestart
<1> DEFINE Inv == TypeOK /\ DownIsEmpty /\ OnceInv /\ OrderInv /\ ListInv /\ FrontInv /\ KeepInv
<1>1. Init => Inv
  BY TypeInit, DownInit, OnceInit, OrderInit, ListInit, FrontInit, KeepInit
<1>2. Inv /\ [Next]_vars => Inv'
  BY TypeStep, DownStep, OnceStep, OrderStep, ListStep, FrontStep, KeepStep
<1>3. Inv => QueuedSurvivesRestart
  BY FileAssumption DEF KeepInv, KeptStill, ToBeQueued, QueuedSurvivesRestart, KeptAfter
<1> QED
  BY <1>1, <1>2, <1>3, PTL DEF Spec
=============================================================================
