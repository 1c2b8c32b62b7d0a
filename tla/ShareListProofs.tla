--------------------------- MODULE ShareListProofs ---------------------------
(***************************************************************************)
(* Proofs about ShareList, for any songs, any content of the list file and *)
(* any number of edits.                                                    *)
(***************************************************************************)
EXTENDS ShareList, FiniteSetTheorems, SequenceTheorems, WellFoundedInduction, TLAPS

(***************************************************************************)
(* What is left of a list file after a line was read is such a file too.   *)
(***************************************************************************)
LEMMA RestIsContent ==
  ASSUME NEW lines \in Content, lines # <<>>
  PROVE  Tail(lines) \in Content /\ Head(lines) \in Line
<1>1. PICK n \in 0..MaxLines : lines \in [1..n -> Line]
  BY DEF Content
<1>2. n \in Nat /\ n - 1 \in 0..MaxLines
  BY <1>1, BoundAssumption
<1>3. lines \in Seq(Line) /\ Len(lines) = n
  BY <1>1, <1>2
<1>4. Tail(lines) \in Seq(Line) /\ Len(Tail(lines)) = n - 1 /\ Head(lines) \in Line
  BY <1>3, HeadTailProperties
<1>5. Tail(lines) \in [1..(n - 1) -> Line]
  BY <1>4, LenProperties
<1> QED
  BY <1>2, <1>4, <1>5 DEF Content

LEMMA EmptyIsContent == <<>> \in Content
<1>1. <<>> \in [1..0 -> Line]
  OBVIOUS
<1>2. 0 \in 0..MaxLines
  BY BoundAssumption
<1> QED
  BY <1>1, <1>2 DEF Content

LEMMA TypeInit == Init => TypeOK
<1> SUFFICES ASSUME Init PROVE TypeOK
  OBVIOUS
<1>1. unread \in Content
  BY EmptyIsContent DEF Init
<1>2. now \in 1..MaxTime /\ edits \in 0..MaxEdits /\ ctime \in Absent..now
      /\ lastupdate \in 0..now /\ fobj \in Absent..now
  BY BoundAssumption DEF Init, Absent
<1>3. list \in Seq(Entry) /\ \A i \in 1..Len(list) : list[i].id < nextfileid
  BY DEF Init
<1> QED
  BY <1>1, <1>2, <1>3 DEF Init, TypeOK

LEMMA TypeStep == TypeOK /\ [Next]_vars => TypeOK'
<1> SUFFICES ASSUME TypeOK, [Next]_vars PROVE TypeOK'
  OBVIOUS
<1> USE DEF TypeOK, Absent
<1>1. CASE Tick
  BY <1>1, BoundAssumption DEF Tick, disk, object, update
<1>2. ASSUME NEW lines \in Content, Edit(lines) PROVE TypeOK'
  <2>1. edits' \in 0..MaxEdits /\ edits + 1 \in 1..MaxEdits
    BY <1>2, BoundAssumption DEF Edit
  <2>2. file' \in [version : 1..MaxEdits, lines : Content]
    BY <1>2, <2>1 DEF Edit
  <2> QED
    BY <1>2, <2>1, <2>2 DEF Edit, object, update
<1>3. CASE RemoveFile
  BY <1>3 DEF RemoveFile, object, update
<1>4. ASSUME NEW s \in Song, ComeOrGo(s) PROVE TypeOK'
  BY <1>4 DEF ComeOrGo, object, update
<1>5. ASSUME NEW caller \in {"player", "http"}, Lock(caller) PROVE TypeOK'
  BY <1>5 DEF Lock, disk, object
<1>6. CASE SetName
  BY <1>6 DEF SetName, disk, object
<1>7. CASE Compare
  BY <1>7 DEF Compare, GetCtime, disk, object
<1>8. CASE Clear
  BY <1>8 DEF Clear, GetCtime, disk
<1>9. CASE Open
  <2>1. file.lines \in Content
    BY EmptyIsContent DEF NoFile
  <2> QED
    BY <1>9, <2>1 DEF Open, disk, object
<1>10. CASE GetLine
  <2>1. unread' \in Content
    BY <1>10, RestIsContent, EmptyIsContent DEF GetLine
  <2>2. list' \in Seq(Entry) /\ nextfileid' \in Nat
        /\ \A i \in 1..Len(list') : list'[i].id < nextfileid'
    <3>1. CASE PushBack(Head(unread)) /\ Head(unread) \in Mp3Song
      <4> DEFINE e == [name |-> Head(unread), id |-> nextfileid]
      <4>1. e \in Entry /\ e.id = nextfileid
        BY <3>1 DEF Entry
      <4>2. list' = Append(list, e) /\ nextfileid' = nextfileid + 1
        BY <3>1 DEF PushBack
      <4> HIDE DEF e
      <4>3. \A i \in 1..Len(list') : list'[i] = e \/ (i \in 1..Len(list) /\ list'[i] = list[i])
        BY <4>2, <4>1
      <4>4. \A i \in 1..Len(list) : list[i].id \in Nat
        <5>1. \A i \in 1..Len(list) : list[i] \in Entry
          BY ElementOfSeq
        <5> QED
          BY <5>1 DEF Entry
      <4> QED
        BY <4>1, <4>2, <4>3, <4>4
    <3>2. CASE UNCHANGED <<list, nextfileid>>
      BY <3>2
    <3> QED
      BY <1>10, <3>1, <3>2 DEF GetLine
  <2> QED
    BY <1>10, <2>1, <2>2 DEF GetLine, disk
<1>11. CASE Unlock
  BY <1>11 DEF Unlock, disk, object
<1>12. CASE UNCHANGED vars
  BY <1>12 DEF vars, disk, object, update
<1> QED
  BY <1>1, <1>2, <1>3, <1>4, <1>5, <1>6, <1>7, <1>8, <1>9, <1>10, <1>11, <1>12 DEF Next

(***************************************************************************)
(* Every reachable state is well typed; in particular no date is past the  *)
(* clock, and every entry of the list has an id that was given out.        *)
(***************************************************************************)
THEOREM TypeCorrect == Spec => []TypeOK
<1> QED
  BY TypeInit, TypeStep, PTL DEF Spec

(***************************************************************************)
(* MissedOnlyWithinSecond is kept by no step on its own: between the date  *)
(* that Update stores and the opening of the file any edit may be missed.  *)
(* Outside of that window one that is not the loaded one is never older    *)
(* than lastupdate.                                                        *)
(***************************************************************************)
DatesInv ==
  pc # "open" /\ ctime # Absent /\ loaded.version # file.version => ctime >= lastupdate

LEMMA DatesStep == TypeOK /\ TypeOK' /\ DatesInv /\ [Next]_vars => DatesInv'
<1> SUFFICES ASSUME TypeOK, DatesInv, [Next]_vars PROVE DatesInv'
  OBVIOUS
<1> USE DEF DatesInv, Absent
<1>1. CASE Tick
  BY <1>1 DEF Tick, disk, object, update
<1>2. ASSUME NEW lines \in Content, Edit(lines) PROVE DatesInv'
  <2>1. now >= lastupdate
    BY DEF TypeOK
  <2> QED
    BY <1>2, <2>1 DEF Edit, object, update
<1>3. CASE RemoveFile
  BY <1>3 DEF RemoveFile
<1>4. ASSUME NEW s \in Song, ComeOrGo(s) PROVE DatesInv'
  BY <1>4 DEF ComeOrGo, object, update
<1>5. ASSUME NEW caller \in {"player", "http"}, Lock(caller) PROVE DatesInv'
  BY <1>5 DEF Lock, TypeOK, disk, object
<1>6. CASE SetName
  BY <1>6 DEF SetName, disk, object
<1>7. CASE Compare
  BY <1>7 DEF Compare, disk, object
<1>8. CASE Clear
  BY <1>8 DEF Clear
<1>9. CASE Open
  BY <1>9 DEF Open, disk, object
<1>10. CASE GetLine
  BY <1>10 DEF GetLine, disk
<1>11. CASE Unlock
  BY <1>11 DEF Unlock, disk, object
<1>12. CASE UNCHANGED vars
  BY <1>12 DEF vars, disk, object, update
<1> QED
  BY <1>1, <1>2, <1>3, <1>4, <1>5, <1>6, <1>7, <1>8, <1>9, <1>10, <1>11, <1>12 DEF Next

(***************************************************************************)
(* An edit of the share list that is never loaded is of the very second of *)
(* the one that was, however the edits race the steps of Update.           *)
(***************************************************************************)
THEOREM MissedEditsBounded == Spec => []MissedOnlyWithinSecond
<1>1. Init => DatesInv
  BY DEF Init, DatesInv
<1>2. TypeOK /\ DatesInv => MissedOnlyWithinSecond
  BY DEF TypeOK, DatesInv, MissedOnlyWithinSecond, Present, Newer, Absent
<1> QED
  BY <1>1, <1>2, DatesStep, TypeCorrect, PTL DEF Spec
-----------------------------------------------------------------------------
(***************************************************************************)
(* Least numbers: every set of naturals has one, by the well-founded order *)
(* of the intervals below its members.                                     *)
(***************************************************************************)
LEMMA Least ==
  ASSUME NEW S, S \subseteq Nat, S # {}
  PROVE  \E n \in S : \A m \in S : n <= m
<1>1. PICK x \in S : TRUE
  OBVIOUS
<1> DEFINE U == 0..x
           D == StrictSubsetOrdering(U)
           T == {0..n : n \in S \cap U}
<1>2. IsFiniteSet(U)
  BY FS_Interval
<1>3. IsWellFoundedOn(D, SUBSET U)
  BY <1>2, FS_StrictSubsetOrderingWellFounded, FS_FiniteSubsetsOfFinite
<1>4. T \subseteq SUBSET U /\ T # {}
  BY <1>1
<1>5. \A X, Y \in SUBSET U : X \subseteq Y /\ X # Y => <<X, Y>> \in D
  BY DEF StrictSubsetOrdering
<1> HIDE DEF T, D
<1>6. PICK X \in T : \A Y \in T : <<Y, X>> \notin D
  BY <1>3, <1>4, WFMin
<1>7. PICK n \in S \cap U : X = 0..n
  BY <1>6 DEF T
<1>8. ASSUME NEW m \in S, m < n PROVE FALSE
  <2>1. 0..m \in T
    BY <1>7, <1>8 DEF T
  <2>2. 0..m \subseteq X /\ 0..m # X
    BY <1>7, <1>8
  <2> QED
    BY <2>1, <2>2, <1>4, <1>5, <1>6
<1> QED
  BY <1>7, <1>8

(***************************************************************************)
(* A step of the recursion of Kept, and the function it defines up to k.   *)
(***************************************************************************)
Rest(lines, g, n) ==
  IF n = 0 THEN <<>>
  ELSE IF lines[n] \in KeptSong \cap Mp3Song THEN Append(g[n - 1], lines[n])
  ELSE g[n - 1]

KeptUpTo(lines, k, g) == g = [n \in 0..k |-> Rest(lines, g, n)]

(* The recursion defines a function, for every length. *)
LEMMA KeptExists ==
  ASSUME NEW lines, NEW k \in Nat
  PROVE  \E g : KeptUpTo(lines, k, g)
<1> DEFINE Bad == {n \in Nat : ~ \E g : KeptUpTo(lines, n, g)}
<1> SUFFICES ASSUME Bad # {} PROVE FALSE
  OBVIOUS
<1> HIDE DEF Bad
<1>1. PICK n \in Bad : \A m \in Bad : n <= m
  <2>1. Bad \subseteq Nat
    BY DEF Bad
  <2> QED
    BY <2>1, Least
<1>2. n \in Nat /\ ~ \E g : KeptUpTo(lines, n, g)
  BY <1>1 DEF Bad
<1>3. n # 0
  <2> DEFINE z == [i \in 0..0 |-> <<>>]
  <2>1. z = [i \in 0..0 |-> Rest(lines, z, i)]
    BY DEF Rest
  <2>2. KeptUpTo(lines, 0, z)
    BY <2>1 DEF KeptUpTo
  <2> QED
    BY <2>2, <1>2
<1>4. n - 1 \in Nat /\ n - 1 \notin Bad
  BY <1>1, <1>2, <1>3
<1>5. PICK g : KeptUpTo(lines, n - 1, g)
  BY <1>4 DEF Bad
<1> DEFINE f == [i \in 0..n |-> IF i = n THEN Rest(lines, g, n) ELSE g[i]]
<1>6. ASSUME NEW i \in 0..n PROVE f[i] = Rest(lines, f, i)
  <2>1. i # 0 => f[i - 1] = g[i - 1]
    BY <1>2, <1>6
  <2>2. Rest(lines, f, i) = Rest(lines, g, i)
    BY <2>1 DEF Rest
  <2>3. i # n => g[i] = Rest(lines, g, i)
    BY <1>2, <1>5, <1>6 DEF KeptUpTo
  <2> QED
    BY <2>2, <2>3, <1>2, <1>6
<1>7. f = [i \in 0..n |-> Rest(lines, f, i)]
  BY <1>6
<1> QED
  BY <1>7, <1>2 DEF KeptUpTo

(* Kept is the last value of that function. *)
LEMMA KeptIsLast ==
  ASSUME NEW lines, Len(lines) \in Nat
  PROVE  \E g : KeptUpTo(lines, Len(lines), g) /\ Kept(lines) = g[Len(lines)]
<1> DEFINE k == Len(lines)
           kept == CHOOSE g : KeptUpTo(lines, k, g)
<1>1. KeptUpTo(lines, k, kept)
  BY KeptExists
<1>2. Kept(lines) = kept[k]
  BY DEF Kept, KeptUpTo, Rest
<1> QED
  BY <1>1, <1>2

(* It looks at the lines up to there only. *)
LEMMA KeptAgree ==
  ASSUME NEW s, NEW t, NEW a \in Nat, NEW b \in Nat, NEW g, NEW h,
         KeptUpTo(s, a, g), KeptUpTo(t, b, h),
         NEW k \in Nat, k <= a, k <= b, \A n \in 1..k : s[n] = t[n]
  PROVE  g[k] = h[k]
<1> DEFINE Bad == {n \in 0..k : g[n] # h[n]}
<1> SUFFICES ASSUME Bad # {} PROVE FALSE
  OBVIOUS
<1> HIDE DEF Bad
<1>1. PICK n \in Bad : \A m \in Bad : n <= m
  <2>1. Bad \subseteq Nat
    BY DEF Bad
  <2> QED
    BY <2>1, Least
<1>2. n \in 0..k /\ g[n] # h[n]
  BY <1>1 DEF Bad
<1>3. g[n] = Rest(s, g, n) /\ h[n] = Rest(t, h, n)
  <2>1. n \in 0..a /\ n \in 0..b
    BY <1>2
  <2>2. g[n] = Rest(s, g, n)
    BY ONLY <2>1, KeptUpTo(s, a, g) DEF KeptUpTo
  <2>3. h[n] = Rest(t, h, n)
    BY ONLY <2>1, KeptUpTo(t, b, h) DEF KeptUpTo
  <2> QED
    BY <2>2, <2>3
<1>4. n # 0
  BY <1>2, <1>3 DEF Rest
<1>5. n - 1 \in 0..k /\ n - 1 \notin Bad /\ n \in 1..k
  BY <1>1, <1>2, <1>4
<1>6. g[n - 1] = h[n - 1] /\ s[n] = t[n]
  BY <1>5 DEF Bad
<1> QED
  BY <1>2, <1>3, <1>6 DEF Rest

(***************************************************************************)
(* What Kept does of one line more.                                        *)
(***************************************************************************)
LEMMA KeptMore ==
  ASSUME NEW s, NEW t, NEW k \in Nat, Len(s) = k, Len(t) = k + 1,
         \A n \in 1..k : s[n] = t[n]
  PROVE  Kept(t) = IF t[k + 1] \in KeptSong \cap Mp3Song THEN Append(Kept(s), t[k + 1])
                   ELSE Kept(s)
<1>1. PICK g : KeptUpTo(s, k, g) /\ Kept(s) = g[k]
  BY KeptIsLast
<1>2. PICK h : KeptUpTo(t, k + 1, h) /\ Kept(t) = h[k + 1]
  BY KeptIsLast
<1>3. g[k] = h[k]
  BY <1>1, <1>2, KeptAgree
<1>4. h[k + 1] = Rest(t, h, k + 1)
  BY <1>2 DEF KeptUpTo
<1>5. k + 1 # 0 /\ k + 1 - 1 = k
  OBVIOUS
<1> QED
  BY <1>1, <1>2, <1>3, <1>4, <1>5 DEF Rest

LEMMA KeptSame ==
  ASSUME NEW s, NEW t, NEW k \in Nat, Len(s) = k, Len(t) = k, \A n \in 1..k : s[n] = t[n]
  PROVE  Kept(s) = Kept(t)
<1>1. PICK g : KeptUpTo(s, k, g) /\ Kept(s) = g[k]
  BY KeptIsLast
<1>2. PICK h : KeptUpTo(t, k, h) /\ Kept(t) = h[k]
  BY KeptIsLast
<1> QED
  BY <1>1, <1>2, KeptAgree

LEMMA KeptNothing == ASSUME NEW s, NEW t, Len(s) = 0, Len(t) = 0 PROVE Kept(s) = Kept(t)
<1>1. 0 \in Nat /\ \A n \in 1..0 : s[n] = t[n]
  OBVIOUS
<1> HIDE DEF Kept
<1> QED
  BY <1>1, KeptSame

-----------------------------------------------------------------------------
(***************************************************************************)
(* The list is that of the first k lines of the file that was opened, and  *)
(* getline has come to the end of what it can read.                        *)
(***************************************************************************)
LoadedTo(k) ==
  /\ k \in 0..Len(loaded.lines)
  /\ \A n \in 1..k : loaded.lines[n] # LongLine
  /\ Kept(Names(list)) = Kept(SubSeq(loaded.lines, 1, k))
  /\ \A i \in 1..Len(list) : \E n \in 1..k : list[i].name = loaded.lines[n]

EndsAt(k) == k = Len(loaded.lines) \/ loaded.lines[k + 1] = LongLine

LinesFrom(k) == SubSeq(loaded.lines, k + 1, Len(loaded.lines))

LoadInv ==
  /\ KeptSong \subseteq songs
  /\ pc = "open" => list = <<>>
  /\ pc = "lines" => \E k \in Nat : LoadedTo(k) /\ (unread = LinesFrom(k)
                                                    \/ (unread = <<>> /\ EndsAt(k)))
  /\ pc \notin {"open", "lines"} => \E k \in Nat : LoadedTo(k) /\ EndsAt(k)

(* The content of a file is a sequence of lines. *)
LEMMA ContentIsSeq == ASSUME NEW lines \in Content PROVE lines \in Seq(Line)
BY DEF Content

LEMMA NamesAre ==
  ASSUME NEW entries \in Seq(Entry)
  PROVE  /\ Len(Names(entries)) = Len(entries)
         /\ \A i \in 1..Len(entries) : Names(entries)[i] = entries[i].name
BY DEF Names

(* No line was read of a file just opened. *)
LEMMA NothingLoaded ==
  ASSUME list = <<>>, loaded.lines \in Seq(Line)
  PROVE  LoadedTo(0)
<1>1. Len(Names(list)) = 0 /\ Len(SubSeq(loaded.lines, 1, 0)) = 0
  BY DEF Names
<1>2. Kept(Names(list)) = Kept(SubSeq(loaded.lines, 1, 0))
  BY <1>1, KeptNothing
<1> QED
  BY <1>2 DEF LoadedTo

LEMMA LoadInit == Init => LoadInv
<1> SUFFICES ASSUME Init PROVE LoadInv
  OBVIOUS
<1>1. loaded.lines = <<>> /\ list = <<>>
  BY DEF Init, NoFile
<1>2. LoadedTo(0) /\ EndsAt(0)
  BY <1>1, NothingLoaded DEF EndsAt
<1> QED
  BY <1>2 DEF Init, LoadInv

(* A line that getline takes is one more that is loaded, if it is not too  *)
(* long.                                                                   *)
LEMMA GetLineStep == TypeOK /\ LoadInv /\ GetLine => LoadInv'
<1> SUFFICES ASSUME TypeOK, LoadInv, GetLine PROVE LoadInv'
  OBVIOUS
<1> DEFINE lines == loaded.lines
<1>1. lines \in Seq(Line) /\ list \in Seq(Entry) /\ Len(lines) \in Nat /\ nextfileid \in Nat
  BY ContentIsSeq, EmptyIsContent DEF TypeOK, NoFile
<1>2. /\ pc = "lines" /\ pc' = "lines" /\ unread # <<>>
      /\ UNCHANGED <<songs, loaded>>
      /\ unread' = IF Head(unread) = LongLine THEN <<>> ELSE Tail(unread)
  BY DEF GetLine, disk
<1>3. PICK k \in Nat : LoadedTo(k) /\ unread = LinesFrom(k)
  BY <1>2 DEF LoadInv
<1>4. k + 1 \in 1..Len(lines) /\ k \in 0..Len(lines)
      /\ Head(unread) = lines[k + 1] /\ Tail(unread) = LinesFrom(k + 1)
  <2>1. k \in 0..Len(lines)
    BY <1>3 DEF LoadedTo
  <2>2. k # Len(lines)
    BY <1>1, <1>2, <1>3 DEF LinesFrom
  <2>3. k + 1 \in 1..Len(lines)
    BY <2>1, <2>2, <1>1
  <2> DEFINE q == lines
             n == k + 1
  <2>4. q \in Seq(Line) /\ n \in 1..Len(q) /\ unread = SubSeq(q, n, Len(q))
    BY <1>1, <1>3, <2>3 DEF LinesFrom
  <2> HIDE DEF q, n
  <2>5. Head(unread) = q[n] /\ Tail(unread) = SubSeq(q, n + 1, Len(q))
    BY ONLY <2>4
  <2> QED
    BY <2>1, <2>3, <2>5 DEF q, n, LinesFrom
<1>5. CASE lines[k + 1] = LongLine
  <2>1. UNCHANGED list
    BY <1>4, <1>5, SongAssumption DEF GetLine
  <2>2. LoadedTo(k)'
    BY <2>1, <1>2, <1>3 DEF LoadedTo
  <2>3. unread' = <<>> /\ EndsAt(k)'
    BY <1>2, <1>4, <1>5 DEF EndsAt
  <2> QED
    BY <2>2, <2>3, <1>2, <1>3 DEF LoadInv
<1>6. CASE lines[k + 1] # LongLine
  <2> DEFINE line == lines[k + 1]
             s == SubSeq(lines, 1, k)
             t == SubSeq(lines, 1, k + 1)
  <2>1. Len(s) = k /\ Len(t) = k + 1 /\ t[k + 1] = line /\ \A n \in 1..k : s[n] = t[n]
    BY <1>1, <1>4
  <2>2. Kept(Names(list)) = Kept(s)
    BY <1>3 DEF LoadedTo
  <2> HIDE DEF s, t, line
  <2>3. Kept(t) = IF line \in KeptSong \cap Mp3Song THEN Append(Kept(s), line) ELSE Kept(s)
    BY <2>1, KeptMore
  <2> USE DEF line
  <2>4. /\ Kept(Names(list)') = Kept(t)
        /\ \A i \in 1..Len(list') : \E n \in 1..(k + 1) : list'[i].name = lines[n]
    <3>1. CASE line \in songs \cap Mp3Song
      <4> DEFINE e == [name |-> line, id |-> nextfileid]
      <4>1. list' = Append(list, e) /\ e \in Entry /\ e.name = line
        BY <3>1, <1>1, <1>4 DEF GetLine, PushBack, Entry
      <4> HIDE DEF e
      <4>2. /\ list' \in Seq(Entry) /\ Len(list') = Len(list) + 1 /\ Len(list) \in Nat
            /\ list'[Len(list) + 1] = e
            /\ \A i \in 1..Len(list) : list'[i] = list[i]
        BY <4>1, <1>1
      <4> DEFINE a == Names(list)
                 b == Names(list')
                 m == Len(list)
      <4>3. Len(a) = m /\ Len(b) = m + 1 /\ b[m + 1] = line /\ \A i \in 1..m : a[i] = b[i]
        <5>1. Len(a) = m /\ \A i \in 1..m : a[i] = list[i].name
          BY <1>1, NamesAre
        <5>2. Len(b) = Len(list') /\ \A i \in 1..Len(list') : b[i] = list'[i].name
          BY <4>2, NamesAre
        <5>3. m + 1 \in 1..Len(list') /\ \A i \in 1..m : i \in 1..Len(list')
          BY <4>2
        <5> QED
          BY <5>1, <5>2, <5>3, <4>1, <4>2
      <4>4. m \in Nat
        BY <4>2
      <4> HIDE DEF a, b, m
      <4>5. Kept(b) = IF line \in KeptSong \cap Mp3Song THEN Append(Kept(a), line) ELSE Kept(a)
        BY <4>3, <4>4, KeptMore
      <4>6. Kept(Names(list)') = Kept(t)
        BY <4>5, <2>2, <2>3 DEF a, b
      <4>7. ASSUME NEW i \in 1..Len(list')
            PROVE  \E n \in 1..(k + 1) : list'[i].name = lines[n]
        <5>1. CASE i \in 1..Len(list)
          <6>1. PICK n \in 1..k : list[i].name = lines[n]
            BY <5>1, <1>3 DEF LoadedTo
          <6> QED
            BY <6>1, <5>1, <4>2
        <5>2. CASE i = Len(list) + 1
          BY <5>2, <4>1, <4>2, <1>4
        <5> QED
          BY <5>1, <5>2, <4>2
      <4> QED
        BY <4>6, <4>7
    <3>2. CASE line \notin songs \cap Mp3Song
      <4>1. UNCHANGED list
        BY <3>2, <1>4 DEF GetLine
      <4>2. line \notin KeptSong \cap Mp3Song
        BY <3>2 DEF LoadInv
      <4>3. \A i \in 1..Len(list) : \E n \in 1..k : list[i].name = lines[n]
        BY <1>3 DEF LoadedTo
      <4>4. Names(list)' = Names(list)
        BY <4>1
      <4> QED
        BY <4>1, <4>2, <4>3, <4>4, <2>2, <2>3
    <3> QED
      BY <3>1, <3>2
  <2>5. \A n \in 1..(k + 1) : lines[n] # LongLine
    <3>1. \A n \in 1..k : lines[n] # LongLine
      BY <1>3 DEF LoadedTo
    <3> QED
      BY <3>1, <1>6
  <2>6. LoadedTo(k + 1)'
    BY <2>4, <2>5, <1>2, <1>4 DEF LoadedTo, t
  <2>7. unread' = LinesFrom(k + 1)'
    BY <1>2, <1>4, <1>6 DEF LinesFrom
  <2> QED
    BY <2>6, <2>7, <1>2 DEF LoadInv
<1> QED
  BY <1>5, <1>6

(* The other steps leave the list and the file that was opened alone, or   *)
(* begin anew.                                                             *)
LEMMA LoadStep == TypeOK /\ LoadInv /\ [Next]_vars => LoadInv'
<1> SUFFICES ASSUME TypeOK, LoadInv, [Next]_vars PROVE LoadInv'
  OBVIOUS
<1>1. ASSUME UNCHANGED <<list, loaded, unread>>, KeptSong \subseteq songs',
             \/ pc' = pc
             \/ pc \notin {"open", "lines"} /\ pc' \notin {"open", "lines"}
      PROVE  LoadInv'
  <2>1. \A k \in Nat : /\ LoadedTo(k)' <=> LoadedTo(k)
                       /\ EndsAt(k)' <=> EndsAt(k)
                       /\ LinesFrom(k)' = LinesFrom(k)
    BY <1>1 DEF LoadedTo, EndsAt, LinesFrom
  <2> QED
    BY <2>1, <1>1 DEF LoadInv
<1>2. CASE Tick
  BY <1>1, <1>2 DEF Tick, disk, object, update, LoadInv
<1>3. ASSUME NEW lines \in Content, Edit(lines) PROVE LoadInv'
  BY <1>1, <1>3 DEF Edit, object, update, LoadInv
<1>4. CASE RemoveFile
  BY <1>1, <1>4 DEF RemoveFile, object, update, LoadInv
<1>5. ASSUME NEW s \in Song, ComeOrGo(s) PROVE LoadInv'
  <2>1. KeptSong \subseteq songs'
    BY <1>5 DEF ComeOrGo, LoadInv
  <2> QED
    BY <1>1, <1>5, <2>1 DEF ComeOrGo, object, update
<1>6. ASSUME NEW caller \in {"player", "http"}, Lock(caller) PROVE LoadInv'
  <2>1. pc = "idle" /\ pc' = "stat"
    BY <1>6 DEF Lock, TypeOK
  <2> QED
    BY <1>1, <1>6, <2>1 DEF Lock, disk, object, LoadInv
<1>7. CASE SetName
  BY <1>1, <1>7 DEF SetName, disk, object, LoadInv
<1>8. CASE Compare
  BY <1>1, <1>8 DEF Compare, disk, object, LoadInv
<1>9. CASE Clear
  BY <1>9 DEF Clear, disk, LoadInv
<1>10. CASE Open
  <2>1. file.lines \in Seq(Line)
    BY ContentIsSeq, EmptyIsContent DEF TypeOK, NoFile
  <2>2. pc = "open" /\ pc' = "lines" /\ list' = <<>> /\ loaded' = file /\ unread' = file.lines
        /\ songs' = songs
    BY <1>10 DEF Open, disk, object, LoadInv
  <2>3. LoadedTo(0)'
    <3>1. Len(Names(list')) = 0 /\ Len(SubSeq(file.lines, 1, 0)) = 0
      BY <2>1, <2>2 DEF Names
    <3>2. Kept(Names(list')) = Kept(SubSeq(file.lines, 1, 0))
      BY <3>1, KeptNothing
    <3> QED
      BY <3>2, <2>1, <2>2 DEF LoadedTo
  <2>4. unread' = LinesFrom(0)'
    BY <2>1, <2>2 DEF LinesFrom
  <2> QED
    BY <2>2, <2>3, <2>4 DEF LoadInv
<1>11. CASE GetLine
  BY <1>11, GetLineStep
<1>12. CASE Unlock
  <2>1. UNCHANGED <<list, loaded, unread, songs>> /\ pc' = "idle"
    BY <1>12 DEF Unlock, disk, object
  <2>2. CASE pc = "answer"
    BY <1>1, <2>1, <2>2 DEF LoadInv
  <2>3. CASE pc = "lines" /\ unread = <<>>
    <3>1. loaded.lines \in Seq(Line)
      BY ContentIsSeq, EmptyIsContent DEF TypeOK, NoFile
    <3>2. PICK k \in Nat : LoadedTo(k) /\ (unread = LinesFrom(k) \/ EndsAt(k))
      BY <2>3 DEF LoadInv
    <3>3. EndsAt(k)
      <4>1. CASE unread = LinesFrom(k)
        <5>1. k \in 0..Len(loaded.lines)
          BY <3>2 DEF LoadedTo
        <5>2. Len(LinesFrom(k)) = Len(loaded.lines) - k
          BY <3>1, <5>1 DEF LinesFrom
        <5> QED
          BY <2>3, <4>1, <5>1, <5>2, <3>1 DEF EndsAt
      <4> QED
        BY <4>1, <3>2
    <3>4. LoadedTo(k)' /\ EndsAt(k)'
      BY <2>1, <3>2, <3>3 DEF LoadedTo, EndsAt
    <3> QED
      BY <3>4, <2>1 DEF LoadInv
  <2> QED
    BY <2>2, <2>3, <1>12 DEF Unlock
<1>13. CASE UNCHANGED vars
  BY <1>1, <1>13 DEF vars, disk, object, update, LoadInv
<1> QED
  BY <1>2, <1>3, <1>4, <1>5, <1>6, <1>7, <1>8, <1>9, <1>10, <1>11, <1>12, <1>13 DEF Next

(* What getline could read are the lines up to there. *)
LEMMA ReadableIs ==
  ASSUME NEW lines \in Seq(Line), NEW k \in 0..Len(lines),
         \A n \in 1..k : lines[n] # LongLine,
         k = Len(lines) \/ lines[k + 1] = LongLine
  PROVE  Len(Readable(lines)) = k /\ \A n \in 1..k : Readable(lines)[n] = lines[n]
<1>1. Len(lines) \in Nat
  OBVIOUS
<1>2. CASE k = Len(lines)
  <2>1. LongAt(lines) = {}
    BY <1>2 DEF LongAt
  <2> QED
    BY <2>1, <1>2 DEF Readable
<1>3. CASE k # Len(lines)
  <2>1. k + 1 \in LongAt(lines) /\ LongAt(lines) \subseteq Nat
        /\ \A n \in LongAt(lines) : k + 1 <= n
    BY <1>1, <1>3 DEF LongAt
  <2>2. Min(LongAt(lines)) = k + 1
    <3>1. Min(LongAt(lines)) \in LongAt(lines)
          /\ \A n \in LongAt(lines) : Min(LongAt(lines)) <= n
      BY <2>1 DEF Min
    <3> QED
      BY <3>1, <2>1
  <2>3. Readable(lines) = SubSeq(lines, 1, k)
    BY <2>1, <2>2 DEF Readable
  <2> QED
    BY <2>3
<1> QED
  BY <1>2, <1>3

(***************************************************************************)
(* Between the loads the list is that of the file loaded last: the songs   *)
(* of it that stay on the disk, each once a line and in order, and no      *)
(* other's, for any content of the file and whatever happens meanwhile.    *)
(***************************************************************************)
THEOREM LoadsWholeFile == Spec => []ListIsLoadedFile
<1>1. TypeOK /\ LoadInv => ListIsLoadedFile
  <2> SUFFICES ASSUME TypeOK, LoadInv, holder = "nobody"
               PROVE  /\ Kept(Names(list)) = Kept(Readable(loaded.lines))
                      /\ Range(Names(list)) \subseteq Range(Readable(loaded.lines))
    BY DEF ListIsLoadedFile
  <2> DEFINE lines == loaded.lines
             r == Readable(lines)
  <2>1. lines \in Seq(Line) /\ list \in Seq(Entry)
    BY ContentIsSeq, EmptyIsContent DEF TypeOK, NoFile
  <2>2. PICK k \in Nat : LoadedTo(k) /\ EndsAt(k)
    BY DEF LoadInv, TypeOK
  <2>3. k \in 0..Len(lines) /\ Len(r) = k /\ \A n \in 1..k : r[n] = lines[n]
    BY <2>1, <2>2, ReadableIs DEF LoadedTo, EndsAt
  <2> HIDE DEF r
  <2>4. Kept(SubSeq(lines, 1, k)) = Kept(r)
    <3>1. Len(SubSeq(lines, 1, k)) = k /\ \A n \in 1..k : SubSeq(lines, 1, k)[n] = r[n]
      BY <2>1, <2>3
    <3> QED
      BY <3>1, <2>3, KeptSame
  <2>5. Range(Names(list)) \subseteq Range(r)
    <3> SUFFICES ASSUME NEW i \in 1..Len(list) PROVE list[i].name \in Range(r)
      BY DEF Range, Names
    <3>1. PICK n \in 1..k : list[i].name = lines[n]
      BY <2>2 DEF LoadedTo
    <3>2. r[n] = lines[n] /\ n \in DOMAIN r
      BY <3>1, <2>3
    <3> QED
      BY <3>1, <3>2 DEF Range
  <2> QED
    BY <2>2, <2>4, <2>5 DEF LoadedTo, r
<1> QED
  BY <1>1, LoadInit, LoadStep, TypeCorrect, PTL DEF Spec
=============================================================================
