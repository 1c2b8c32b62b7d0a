---------------------------- MODULE EngineProofs ----------------------------
(***************************************************************************)
(* The netdj2 engine, for every value of the constants: what the server    *)
(* promises to its clients (Server), the life of its process (EngineStart) *)
(* and what is known of its songs (SongInfo).  The three share no names    *)
(* and each theorem is about the specification of one.                     *)
(*                                                                         *)
(* Of the server: a client that asks for the log misses no entry and gets  *)
(* none twice or out of order, a request is answered once, and a signal    *)
(* goes out only for a user who may send it.                               *)
(* Of the process: the player's thread never outlives what it works with,  *)
(* and no failure is passed over on the way to the event loop.             *)
(* Of a song: its XML is torn only if two threads create it at once, and   *)
(* whole when they are done.                                               *)
(***************************************************************************)
EXTENDS Server, EngineStart, SongInfo, FiniteSetTheorems, SequenceTheorems,
        WellFoundedInduction, TLAPS

Status == {"200", "401", "404", "501"}
Level  == {0, 10, 20, 30, 50, 70, 100, 150}
Item   == {x \in [status : Status \cup {"entry"}, no : Nat, level : Nat] :
             x.status = "entry" \/ x.no = 0}

(***************************************************************************)
(* Least numbers.  Every set of naturals has one, by the well-founded      *)
(* order of the intervals below its members.                               *)
(***************************************************************************)
LEMMA Least ==
  ASSUME NEW S, S \subseteq Nat, S # {}
  PROVE  \E n \in S : \A m \in S : n <= m
<1>1. PICK x \in S : TRUE
  OBVIOUS
<1> DEFINE U == 0..x
           D == StrictSubsetOrdering(U)
           T == {0..n : n \in S \cap U}
<1>2. IsFiniteSet(U)
  BY FS_Interval
<1>3. IsWellFoundedOn(D, SUBSET U)
  BY <1>2, FS_StrictSubsetOrderingWellFounded, FS_FiniteSubsetsOfFinite
<1>4. T \subseteq SUBSET U /\ T # {}
  BY <1>1
<1>5. \A X, Y \in SUBSET U : X \subseteq Y /\ X # Y => <<X, Y>> \in D
  BY DEF StrictSubsetOrdering
<1> HIDE DEF T, D
<1>6. PICK X \in T : \A Y \in T : <<Y, X>> \notin D
  BY <1>3, <1>4, WFMin
<1>7. PICK n \in S \cap U : X = 0..n
  BY <1>6 DEF T
<1>8. ASSUME NEW m \in S, m < n PROVE FALSE
  <2>1. 0..m \in T
    BY <1>7, <1>8 DEF T
  <2>2. 0..m \subseteq X /\ 0..m # X
    BY <1>7, <1>8
  <2> QED BY <2>1, <2>2, <1>4, <1>5, <1>6
<1> QED BY <1>7, <1>8

(***************************************************************************)
(* A step of the recursion of Heard, and the function it defines up to k.  *)
(***************************************************************************)
Rest(s, entries, g, n) ==
  IF n = 0 THEN <<>>
  ELSE IF Hears(s, entries[n]) THEN Append(g[n - 1], entries[n]) ELSE g[n - 1]

HeardUpTo(s, entries, k, g) == g = [n \in 0..k |-> Rest(s, entries, g, n)]

(* The recursion defines a function, for every length. *)
LEMMA HeardExists ==
  ASSUME NEW s, NEW entries, NEW k \in Nat
  PROVE  \E g : HeardUpTo(s, entries, k, g)
<1> DEFINE Bad == {n \in Nat : ~ \E g : HeardUpTo(s, entries, n, g)}
<1> SUFFICES ASSUME Bad # {} PROVE FALSE
  OBVIOUS
<1> HIDE DEF Bad
<1>1. PICK n \in Bad : \A m \in Bad : n <= m
  <2>1. Bad \subseteq Nat
    BY DEF Bad
  <2> QED BY <2>1, Least
<1>2. n \in Nat /\ ~ \E g : HeardUpTo(s, entries, n, g)
  BY <1>1 DEF Bad
<1>3. n # 0
  <2> DEFINE z == [i \in 0..0 |-> <<>>]
  <2>1. z = [i \in 0..0 |-> Rest(s, entries, z, i)]
    BY DEF Rest
  <2>2. HeardUpTo(s, entries, 0, z)
    BY <2>1 DEF HeardUpTo
  <2> QED BY <2>2, <1>2
<1>4. n - 1 \in Nat /\ n - 1 \notin Bad
  BY <1>1, <1>2, <1>3
<1>5. PICK g : HeardUpTo(s, entries, n - 1, g)
  BY <1>4 DEF Bad
<1> DEFINE f == [i \in 0..n |-> IF i = n THEN Rest(s, entries, g, n) ELSE g[i]]
<1>6. ASSUME NEW i \in 0..n PROVE f[i] = Rest(s, entries, f, i)
  <2>1. i # 0 => f[i - 1] = g[i - 1]
    BY <1>2, <1>6
  <2>2. Rest(s, entries, f, i) = Rest(s, entries, g, i)
    BY <2>1 DEF Rest
  <2>3. i # n => g[i] = Rest(s, entries, g, i)
    BY <1>2, <1>5, <1>6 DEF HeardUpTo
  <2> QED BY <2>2, <2>3, <1>2, <1>6
<1>7. f = [i \in 0..n |-> Rest(s, entries, f, i)]
  BY <1>6
<1> QED BY <1>7, <1>2 DEF HeardUpTo

(* Heard is the last value of that function. *)
LEMMA HeardIsLast ==
  ASSUME NEW s, NEW entries, Len(entries) \in Nat
  PROVE  \E g : HeardUpTo(s, entries, Len(entries), g) /\ Heard(s, entries) = g[Len(entries)]
<1> DEFINE k == Len(entries)
           heard == CHOOSE g : HeardUpTo(s, entries, k, g)
<1>1. HeardUpTo(s, entries, k, heard)
  BY HeardExists
<1>2. Heard(s, entries) = heard[k]
  BY DEF Heard, HeardUpTo, Rest
<1> QED BY <1>1, <1>2

(***************************************************************************)
(* What Heard takes of the first k entries: those the client hears, each   *)
(* once and in order.                                                      *)
(***************************************************************************)
Growing(q) == \A i, j \in DOMAIN q : i < j => q[i].no < q[j].no

Picked(s, entries, k, q) ==
  /\ q \in Seq(Item)
  /\ \A j \in DOMAIN q : \E n \in 1..k : q[j] = entries[n]
  /\ \A n \in 1..k : Hears(s, entries[n]) => \E j \in DOMAIN q : q[j] = entries[n]
  /\ \A j \in DOMAIN q : Hears(s, q[j])
  /\ Growing(q)

LEMMA PickNext ==
  ASSUME NEW s, NEW entries \in Seq(Item), Growing(entries), NEW k \in 1..Len(entries),
         NEW q, Picked(s, entries, k - 1, q)
  PROVE  Picked(s, entries, k,
                IF Hears(s, entries[k]) THEN Append(q, entries[k]) ELSE q)
<1>1. q \in Seq(Item) /\ entries[k] \in Item
  BY DEF Picked
<1>2. CASE ~Hears(s, entries[k])
  BY <1>2 DEF Picked
<1>3. CASE Hears(s, entries[k])
  <2> DEFINE r == Append(q, entries[k])
  <2>1. r \in Seq(Item) /\ Len(r) = Len(q) + 1 /\ r[Len(q) + 1] = entries[k]
        /\ \A j \in DOMAIN q : r[j] = q[j]
    BY <1>1
  <2>2. DOMAIN r = 1..(Len(q) + 1) /\ DOMAIN q = 1..Len(q) /\ Len(q) \in Nat
    BY <1>1, <2>1
  <2> HIDE DEF r
  <2>3. \A j \in DOMAIN r : \E n \in 1..k : r[j] = entries[n]
    <3> SUFFICES ASSUME NEW j \in DOMAIN r PROVE \E n \in 1..k : r[j] = entries[n]
      OBVIOUS
    <3>1. CASE j = Len(q) + 1
      BY <2>1, <3>1
    <3>2. CASE j \in DOMAIN q
      <4>1. PICK n \in 1..(k - 1) : q[j] = entries[n]
        BY <3>2 DEF Picked
      <4> QED BY <4>1, <3>2, <2>1
    <3> QED BY <3>1, <3>2, <2>2
  <2>4. \A n \in 1..k : Hears(s, entries[n]) => \E j \in DOMAIN r : r[j] = entries[n]
    <3> SUFFICES ASSUME NEW n \in 1..k, Hears(s, entries[n])
                 PROVE  \E j \in DOMAIN r : r[j] = entries[n]
      OBVIOUS
    <3>1. CASE n = k
      BY <2>1, <2>2, <3>1
    <3>2. CASE n # k
      <4>1. PICK j \in DOMAIN q : q[j] = entries[n]
        BY <3>2 DEF Picked
      <4> QED BY <4>1, <2>1, <2>2
    <3> QED BY <3>1, <3>2
  <2>5. \A j \in DOMAIN r : Hears(s, r[j])
    BY <1>3, <2>1, <2>2 DEF Picked
  <2>6. Growing(r)
    <3> SUFFICES ASSUME NEW i \in DOMAIN r, NEW j \in DOMAIN r, i < j
                 PROVE  r[i].no < r[j].no
      BY DEF Growing
    <3>1. i \in DOMAIN q
      BY <2>2
    <3>2. CASE j \in DOMAIN q
      BY <3>1, <3>2, <2>1 DEF Picked, Growing
    <3>3. CASE j = Len(q) + 1
      <4>1. PICK n \in 1..(k - 1) : q[i] = entries[n]
        BY <3>1 DEF Picked
      <4>2. entries[n].no < entries[k].no
        BY <4>1 DEF Growing
      <4> QED BY <4>1, <4>2, <3>1, <3>3, <2>1
    <3> QED BY <3>2, <3>3, <2>2
  <2> QED BY <2>1, <2>3, <2>4, <2>5, <2>6, <1>3 DEF Picked, r
<1> QED BY <1>2, <1>3

LEMMA HeardIsPicked ==
  ASSUME NEW s, NEW entries \in Seq(Item), Growing(entries)
  PROVE  Picked(s, entries, Len(entries), Heard(s, entries))
<1>1. Len(entries) \in Nat
  OBVIOUS
<1>2. PICK g : HeardUpTo(s, entries, Len(entries), g)
               /\ Heard(s, entries) = g[Len(entries)]
  BY <1>1, HeardIsLast
<1> DEFINE Bad == {n \in 0..Len(entries) : ~Picked(s, entries, n, g[n])}
<1> SUFFICES ASSUME Bad # {} PROVE FALSE
  BY <1>1, <1>2
<1> HIDE DEF Bad
<1>3. PICK n \in Bad : \A m \in Bad : n <= m
  <2>1. Bad \subseteq Nat
    BY DEF Bad
  <2> QED BY <2>1, Least
<1>4. n \in 0..Len(entries) /\ ~Picked(s, entries, n, g[n])
  BY <1>3 DEF Bad
<1>5. g[n] = Rest(s, entries, g, n)
  BY <1>2, <1>4 DEF HeardUpTo
<1>6. n # 0
  <2>1. Picked(s, entries, 0, <<>>)
    BY DEF Picked, Growing
  <2> QED BY <2>1, <1>4, <1>5 DEF Rest
<1>7. n - 1 \in 0..Len(entries) /\ n - 1 \notin Bad /\ n \in 1..Len(entries)
  BY <1>1, <1>3, <1>4, <1>6
<1>8. Picked(s, entries, n - 1, g[n - 1])
  BY <1>7 DEF Bad
<1>9. Picked(s, entries, n, g[n])
  BY <1>5, <1>6, <1>7, <1>8, PickNext DEF Rest
<1> QED BY <1>9, <1>4

(***************************************************************************)
(* Outputs.  A run has entries only, with numbers above lo and up to hi;   *)
(* an output is ordered if its entries are, and has none above hi.         *)
(***************************************************************************)
EntriesIn(q) == {n \in DOMAIN q : q[n].status = "entry"}
AnswersIn(q) == {n \in DOMAIN q : q[n].status # "entry"}

Run(q, lo, hi) ==
  /\ q \in Seq(Item)
  /\ Growing(q)
  /\ \A n \in DOMAIN q : q[n].status = "entry" /\ lo < q[n].no /\ q[n].no <= hi

Ordered(q, hi) ==
  /\ \A n \in EntriesIn(q) : q[n].no <= hi
  /\ \A n, m \in EntriesIn(q) : n < m => q[n].no < q[m].no

Has(q, lo, hi) == \A k \in (lo + 1)..hi : \E n \in EntriesIn(q) : q[n].no = k

Extends(r, q) == DOMAIN q \subseteq DOMAIN r /\ \A n \in DOMAIN q : r[n] = q[n]

LEMMA HasNone == ASSUME NEW q, NEW n \in Nat PROVE Has(q, n, n)
BY DEF Has

(* The entries of a handler are numbered on from mLogCount. *)
LEMMA EntriesAre ==
  ASSUME NEW levels \in Seq(Level), mLogCount \in Nat
  PROVE  /\ Entries(levels) \in Seq(Item)
         /\ Len(Entries(levels)) = Len(levels)
         /\ \A i \in 1..Len(levels) :
              Entries(levels)[i] = Entry(mLogCount + i, levels[i])
<1>1. \A i \in 1..Len(levels) : Entry(mLogCount + i, levels[i]) \in Item
  BY DEF Entry, Item, Level
<1>2. Len(levels) \in Nat
  OBVIOUS
<1>3. Entries(levels) \in [1..Len(levels) -> Item]
  BY <1>1 DEF Entries
<1> QED BY <1>2, <1>3 DEF Entries

(* What a client hears of a piece of them is a run; with the log's level,  *)
(* it hears all.                                                           *)
LEMMA HeardIsRun ==
  ASSUME NEW levels \in Seq(Level), mLogCount \in Nat, NEW t,
         NEW a \in 1..(Len(levels) + 1), NEW b \in (a - 1)..Len(levels),
         NEW lo, lo = mLogCount + a - 1, NEW hi, hi = mLogCount + b,
         NEW q, q = Heard(t, SubSeq(Entries(levels), a, b))
  PROVE  /\ Run(q, lo, hi)
         /\ t \in mClients /\ mLogLevel[t] = 999 => Has(q, lo, hi)
<1> DEFINE e == Entries(levels)
           p == SubSeq(e, a, b)
           l == b - a + 1
<1>1. /\ e \in Seq(Item) /\ Len(e) = Len(levels)
      /\ \A i \in 1..Len(levels) : e[i] = Entry(mLogCount + i, levels[i])
  BY EntriesAre
<1> HIDE DEF e
<1>2. Len(levels) \in Nat /\ l \in Nat
  OBVIOUS
<1>3. p \in Seq(Item) /\ Len(p) = l /\ \A i \in 1..l : p[i] = e[a + i - 1]
  BY <1>1, <1>2
<1> HIDE DEF p, l
<1>4. \A i \in 1..l : /\ p[i] = Entry(mLogCount + a + i - 1, levels[a + i - 1])
                      /\ a + i - 1 \in 1..Len(levels)
  <2> SUFFICES ASSUME NEW i \in 1..l
               PROVE  /\ p[i] = Entry(mLogCount + a + i - 1, levels[a + i - 1])
                      /\ a + i - 1 \in 1..Len(levels)
    OBVIOUS
  <2>1. a + i - 1 \in 1..Len(levels)
    BY <1>2 DEF l
  <2>2. mLogCount + (a + i - 1) = mLogCount + a + i - 1
    BY <2>1
  <2> QED BY <2>1, <2>2, <1>1, <1>3
<1>5. Growing(p)
  <2>1. \A i \in 1..l : p[i].no = mLogCount + a + i - 1
    <3> TAKE i \in 1..l
    <3>1. p[i] = Entry(mLogCount + a + i - 1, levels[a + i - 1])
      BY <1>4
    <3> QED BY ONLY <3>1 DEF Entry
  <2>2. DOMAIN p = 1..l /\ a \in Nat
    BY <1>2, <1>3
  <2> QED BY ONLY <1>2, <2>1, <2>2, mLogCount \in Nat DEF Growing
<1>6. Picked(t, p, l, q)
  BY <1>3, <1>5, HeardIsPicked DEF p, e
<1>7. \A n \in DOMAIN q : \E i \in 1..l : q[n] = p[i]
  BY <1>6 DEF Picked
<1>8. Run(q, mLogCount + a - 1, mLogCount + b)
  <2> SUFFICES ASSUME NEW n \in DOMAIN q
               PROVE  /\ q[n].status = "entry"
                      /\ mLogCount + a - 1 < q[n].no
                      /\ q[n].no <= mLogCount + b
    BY <1>6 DEF Run, Picked
  <2>1. PICK i \in 1..l : q[n] = p[i]
    BY <1>7
  <2>2. p[i] = Entry(mLogCount + a + i - 1, levels[a + i - 1])
    BY <1>4
  <2>3. q[n].status = "entry" /\ q[n].no = mLogCount + a + i - 1
    BY <2>1, <2>2 DEF Entry
  <2> QED BY <2>3, <2>1 DEF l
<1>9. ASSUME t \in mClients, mLogLevel[t] = 999
      PROVE  Has(q, mLogCount + a - 1, mLogCount + b)
  <2> SUFFICES ASSUME NEW k \in (mLogCount + a - 1 + 1)..(mLogCount + b)
               PROVE  \E n \in EntriesIn(q) : q[n].no = k
    BY DEF Has
  <2> DEFINE i == k - mLogCount - a + 1
  <2>1. i \in 1..l /\ mLogCount + a + i - 1 = k
    BY DEF l
  <2>2. p[i] = Entry(k, levels[a + i - 1]) /\ levels[a + i - 1] \in Level
    BY <2>1, <1>4
  <2> HIDE DEF i
  <2>3. Hears(t, p[i])
    <3>1. p[i].level = levels[a + i - 1] /\ p[i].level \in Level
      BY <2>2 DEF Entry
    <3>2. 999 >= p[i].level
      BY ONLY <3>1 DEF Level
    <3> QED BY ONLY <1>9, <3>2 DEF Hears
  <2>4. PICK n \in DOMAIN q : q[n] = p[i]
    BY <2>1, <2>3, <1>6 DEF Picked
  <2> QED BY <2>2, <2>4 DEF EntriesIn, Entry
<1> QED BY <1>8, <1>9

(* A run after an ordered output: no answer more, and all of both. *)
LEMMA AddRun ==
  ASSUME NEW p \in Seq(Item), NEW q, NEW lo \in Nat, NEW hi \in Nat, lo <= hi,
         Ordered(p, lo), Run(q, lo, hi)
  PROVE  /\ p \o q \in Seq(Item)
         /\ Ordered(p \o q, hi)
         /\ AnswersIn(p \o q) = AnswersIn(p)
         /\ Extends(p \o q, p)
         /\ \A k \in Nat : Has(p, k, lo) /\ Has(q, lo, hi) => Has(p \o q, k, hi)
<1> DEFINE r == p \o q
<1>1. q \in Seq(Item)
  BY DEF Run
<1>2. /\ r \in Seq(Item)
      /\ Len(p) \in Nat /\ Len(q) \in Nat /\ Len(r) = Len(p) + Len(q)
      /\ DOMAIN p = 1..Len(p) /\ DOMAIN q = 1..Len(q) /\ DOMAIN r = 1..(Len(p) + Len(q))
      /\ \A n \in DOMAIN p : r[n] = p[n]
      /\ \A n \in DOMAIN q : r[Len(p) + n] = q[n]
  <2>1. r \in Seq(Item) /\ Len(r) = Len(p) + Len(q) /\ Len(p) \in Nat /\ Len(q) \in Nat
    BY <1>1
  <2>2. DOMAIN p = 1..Len(p) /\ DOMAIN q = 1..Len(q) /\ DOMAIN r = 1..Len(r)
    BY <1>1, <2>1
  <2>3. \A n \in 1..Len(p) : r[n] = p[n]
    BY <1>1
  <2>4. \A n \in 1..Len(q) : r[Len(p) + n] = q[n]
    BY <1>1
  <2> QED BY <2>1, <2>2, <2>3, <2>4
<1> HIDE DEF r
<1>3. \A n \in DOMAIN r : n \in DOMAIN p \/ (n - Len(p) \in DOMAIN q /\ n > Len(p)
                                             /\ r[n] = q[n - Len(p)])
  <2> SUFFICES ASSUME NEW n \in DOMAIN r, n \notin DOMAIN p
               PROVE  n - Len(p) \in DOMAIN q /\ n > Len(p) /\ r[n] = q[n - Len(p)]
    OBVIOUS
  <2>1. n - Len(p) \in DOMAIN q /\ n > Len(p) /\ n = Len(p) + (n - Len(p))
    BY <1>2
  <2> QED BY <2>1, <1>2
<1>4. Extends(r, p)
  BY <1>2 DEF Extends
<1>5. AnswersIn(r) = AnswersIn(p)
  <2>1. ASSUME NEW n \in AnswersIn(r) PROVE n \in AnswersIn(p)
    BY <2>1, <1>2, <1>3 DEF AnswersIn, Run
  <2>2. ASSUME NEW n \in AnswersIn(p) PROVE n \in AnswersIn(r)
    BY <2>2, <1>2 DEF AnswersIn
  <2> QED BY <2>1, <2>2
<1>6. Ordered(r, hi)
  <2>1. ASSUME NEW n \in EntriesIn(r)
        PROVE  \/ n \in EntriesIn(p) /\ r[n] = p[n] /\ r[n].no <= lo /\ n <= Len(p)
               \/ n - Len(p) \in DOMAIN q /\ n > Len(p) /\ r[n] = q[n - Len(p)]
                  /\ lo < r[n].no /\ r[n].no <= hi
    BY <2>1, <1>2, <1>3 DEF EntriesIn, Ordered, Run
  <2>2. \A n \in EntriesIn(r) : r[n].no \in Nat
    <3>1. \A n \in DOMAIN r : r[n] \in Item
      BY <1>2
    <3> QED BY <3>1 DEF EntriesIn, Item
  <2>3. ASSUME NEW n \in EntriesIn(r), NEW m \in EntriesIn(r), n < m
        PROVE  r[n].no < r[m].no
    <3>1. n \in Int /\ m \in Int
      BY <1>2 DEF EntriesIn
    <3>2. CASE n \in EntriesIn(p) /\ r[n] = p[n] /\ r[n].no <= lo /\ n <= Len(p)
      <4>1. CASE m \in EntriesIn(p) /\ r[m] = p[m]
        BY <3>2, <4>1, <2>3 DEF Ordered
      <4>2. CASE lo < r[m].no
        BY <3>2, <4>2, <2>2
      <4> QED BY <4>1, <4>2, <2>1
    <3>3. CASE n - Len(p) \in DOMAIN q /\ n > Len(p) /\ r[n] = q[n - Len(p)]
      <4>1. m - Len(p) \in DOMAIN q /\ r[m] = q[m - Len(p)]
        BY <2>1, <2>3, <3>1, <3>3, <1>2
      <4>2. n - Len(p) < m - Len(p)
        BY <2>3, <3>1, <1>2
      <4> QED BY <3>3, <4>1, <4>2 DEF Run, Growing
    <3> QED BY <3>2, <3>3, <2>1
  <2> QED BY <2>1, <2>2, <2>3 DEF Ordered
<1>7. ASSUME NEW k \in Nat, Has(p, k, lo), Has(q, lo, hi) PROVE Has(r, k, hi)
  <2> SUFFICES ASSUME NEW i \in (k + 1)..hi PROVE \E n \in EntriesIn(r) : r[n].no = i
    BY DEF Has
  <2>1. CASE i <= lo
    <3>1. PICK n \in EntriesIn(p) : p[n].no = i
      BY <2>1, <1>7 DEF Has
    <3> QED BY <3>1, <1>2 DEF EntriesIn
  <2>2. CASE i > lo
    <3>1. PICK n \in EntriesIn(q) : q[n].no = i
      BY <2>2, <1>7 DEF Has
    <3>2. Len(p) + n \in DOMAIN r /\ r[Len(p) + n] = q[n]
      BY <3>1, <1>2 DEF EntriesIn
    <3> QED BY <3>1, <3>2 DEF EntriesIn
  <2> QED BY <2>1, <2>2
<1> QED BY <1>2, <1>4, <1>5, <1>6, <1>7 DEF r

(* An answer after an ordered output. *)
LEMMA AddAnswer ==
  ASSUME NEW p \in Seq(Item), NEW status \in Status, NEW hi \in Nat, Ordered(p, hi)
  PROVE  LET r == p \o <<Answer(status)>> IN
         /\ r \in Seq(Item)
         /\ Ordered(r, hi)
         /\ AnswersIn(r) = AnswersIn(p) \cup {Len(p) + 1}
         /\ r[Len(p) + 1].status = status
         /\ Extends(r, p)
         /\ \A k \in Nat : Has(p, k, hi) => Has(r, k, hi)
<1> DEFINE r == p \o <<Answer(status)>>
<1>1. Answer(status) \in Item /\ Answer(status).status = status /\ status # "entry"
  BY DEF Answer, Item, Status
<1>2. /\ r \in Seq(Item)
      /\ Len(p) \in Nat /\ DOMAIN p = 1..Len(p) /\ DOMAIN r = 1..(Len(p) + 1)
      /\ \A n \in DOMAIN p : r[n] = p[n]
      /\ r[Len(p) + 1] = Answer(status)
  BY <1>1
<1> HIDE DEF r
<1>3. EntriesIn(r) = EntriesIn(p)
  BY <1>1, <1>2 DEF EntriesIn
<1>4. AnswersIn(r) = AnswersIn(p) \cup {Len(p) + 1}
  BY <1>1, <1>2 DEF AnswersIn
<1>5. Ordered(r, hi)
  BY <1>2, <1>3 DEF Ordered, EntriesIn
<1>6. \A k \in Nat : Has(p, k, hi) => Has(r, k, hi)
  BY <1>2, <1>3 DEF Has, EntriesIn
<1> QED BY <1>1, <1>2, <1>4, <1>5, <1>6 DEF r, Extends

TypeInv ==
  /\ sock \in [Socket -> SocketState]
  /\ mClients = {s \in Socket : sock[s] \in {"open", "closing", "idle"}}
  /\ mLogLevel \in [Socket -> {0, 999}]
  /\ asks \in [Socket -> Request]
  /\ arrived \in [Socket -> None..Full]
  /\ read \in [Socket -> {None, Line, Full}]
  /\ ready \subseteq {s \in Socket : sock[s] = "open"}
  /\ out \in [Socket -> Seq(Item)]
  /\ mEntryQueue \in Seq(Level)
  /\ mLogCount \in Nat
  /\ since \in [Socket -> Nat]
  /\ signalled \subseteq [cmd : {"/skip", "/shutdown"}, client : Socket]

(***************************************************************************)
(* A client that has signalled something has connected, so what it asks    *)
(* for does not change any more.                                           *)
(***************************************************************************)
SignalInv ==
  /\ \A x \in signalled : sock[x.client] # "none"
  /\ SignalsAuthorized

(***************************************************************************)
(* The answers of a client: none before its request is looked at; that of  *)
(* the log while the connection stays open; one, or that of the log and    *)
(* another, on a connection that does not.                                 *)
(***************************************************************************)
Unanswered(s) == AnswerAt(s) = {}
Logging(s)    == \E n \in DOMAIN out[s] :
                   asks[s].cmd = "/log" /\ AnswerAt(s) = {n} /\ out[s][n].status = "200"
AnsweredAlone(s)   == \E n \in DOMAIN out[s] : AnswerAt(s) = {n}
AnsweredTwice(s) == \E n, m \in DOMAIN out[s] :
                      /\ n < m /\ asks[s].cmd = "/log"
                      /\ AnswerAt(s) = {n, m} /\ out[s][n].status = "200"

AnswersOf(s) ==
  /\ sock[s] = "none" => read[s] = None /\ mLogLevel[s] = 0
  /\ sock[s] = "none" \/ (sock[s] = "open" /\ read[s] = None) => Unanswered(s)
  /\ sock[s] = "open" /\ read[s] # None => Logging(s) /\ mLogLevel[s] = 999
  /\ sock[s] \notin {"none", "open"} => Unanswered(s) \/ AnsweredAlone(s) \/ AnsweredTwice(s)

AnswerInv == \A s \in Socket : AnswersOf(s)

(***************************************************************************)
(* The entries written to a client have growing numbers, up to mLogCount;  *)
(* a connected client that hears the log has all since it asked.           *)
(***************************************************************************)
EntriesOf(s) ==
  /\ Ordered(out[s], mLogCount)
  /\ mLogLevel[s] = 999 /\ sock[s] = "open" => Has(out[s], since[s], mLogCount)

EntryInv == \A s \in Socket : EntriesOf(s)

Inv == TypeInv /\ SignalInv /\ AnswerInv /\ EntryInv

-----------------------------------------------------------------------------
LEMMA InitInv == Init => Inv
<1> SUFFICES ASSUME Init PROVE Inv
  OBVIOUS
<1>1. AnyRequest \in Request /\ None \in None..Full /\ None \in {None, Line, Full}
  BY DEF AnyRequest, Request, None, Full
<1>2. <<>> \in Seq(Item) /\ <<>> \in Seq(Level) /\ DOMAIN <<>> = {}
  OBVIOUS
<1>3. TypeInv
  BY <1>1, <1>2 DEF Init, TypeInv, SocketState
<1>4. SignalInv
  BY DEF Init, SignalInv, SignalsAuthorized
<1>5. AnswerInv
  BY <1>2 DEF Init, AnswerInv, AnswersOf, Unanswered, AnswerAt
<1>6. EntryInv
  BY <1>2 DEF Init, EntryInv, EntriesOf, Ordered, EntriesIn
<1> QED BY <1>3, <1>4, <1>5, <1>6 DEF Inv

(***************************************************************************)
(* The output of a client that is only written entries: as before with a   *)
(* run behind it, all of the entries if it hears the log.                  *)
(***************************************************************************)
Quiet(t) ==
  /\ out'[t] \in Seq(Item)
  /\ Ordered(out'[t], mLogCount')
  /\ AnswersIn(out'[t]) = AnswersIn(out[t])
  /\ Extends(out'[t], out[t])
  /\ mLogLevel[t] = 999 /\ sock[t] = "open" => Has(out'[t], since[t], mLogCount')

(* An open socket has a client. *)
LEMMA OpenIsClient ==
  ASSUME TypeInv, NEW t \in Socket, sock[t] = "open"
  PROVE  t \in mClients
BY DEF TypeInv

LEMMA NewLogEntryIsQuiet ==
  ASSUME TypeInv, EntryInv, NEW levels \in Seq(Level), NewLogEntry(levels)
  PROVE  /\ mLogCount' \in Nat /\ out' \in [Socket -> Seq(Item)]
         /\ \A t \in Socket : Quiet(t)
<1>1. mLogCount \in Nat /\ Len(levels) \in Nat /\ mLogCount' = mLogCount + Len(levels)
  BY DEF TypeInv, NewLogEntry
<1>2. ASSUME NEW t \in Socket PROVE Quiet(t)
  <2> DEFINE e == Entries(levels)
             q == Heard(t, SubSeq(e, 1, Len(levels)))
  <2>1. e \in Seq(Item) /\ Len(e) = Len(levels)
    BY <1>1, EntriesAre
  <2>2. SubSeq(e, 1, Len(levels)) = e
    BY <2>1
  <2>3. out'[t] = out[t] \o q /\ out[t] \in Seq(Item)
    BY <2>2 DEF NewLogEntry, TypeInv
  <2>4. /\ Run(q, mLogCount, mLogCount')
        /\ t \in mClients /\ mLogLevel[t] = 999 => Has(q, mLogCount, mLogCount')
    <3>1. /\ 1 \in 1..(Len(levels) + 1) /\ Len(levels) \in (1 - 1)..Len(levels)
          /\ mLogCount = mLogCount + 1 - 1
      BY <1>1
    <3>2. q = Heard(t, SubSeq(Entries(levels), 1, Len(levels)))
      OBVIOUS
    <3> HIDE DEF q
    <3>3. mLogCount \in Nat /\ mLogCount' = mLogCount + Len(levels)
      BY <1>1
    <3>4. levels \in Seq(Level)
      OBVIOUS
    <3>5. Run(q, mLogCount, mLogCount')
      BY ONLY <3>1, <3>2, <3>3, <3>4, HeardIsRun
    <3>6. t \in mClients /\ mLogLevel[t] = 999 => Has(q, mLogCount, mLogCount')
      BY ONLY <3>1, <3>2, <3>3, <3>4, HeardIsRun
    <3> QED BY <3>5, <3>6
  <2> HIDE DEF q
  <2>5. Ordered(out[t], mLogCount)
        /\ (mLogLevel[t] = 999 /\ sock[t] = "open" => Has(out[t], since[t], mLogCount))
    BY DEF EntryInv, EntriesOf
  <2>6. since[t] \in Nat
    BY DEF TypeInv
  <2>7. mLogCount' \in Nat /\ mLogCount <= mLogCount'
    BY <1>1
  <2>8. /\ out'[t] \in Seq(Item)
        /\ Ordered(out'[t], mLogCount')
        /\ AnswersIn(out'[t]) = AnswersIn(out[t])
        /\ Extends(out'[t], out[t])
        /\ Has(out[t], since[t], mLogCount) /\ Has(q, mLogCount, mLogCount')
             => Has(out'[t], since[t], mLogCount')
    BY <1>1, <2>3, <2>4, <2>5, <2>6, <2>7, AddRun
  <2> QED BY <2>4, <2>5, <2>8, OpenIsClient DEF Quiet
<1>3. out' \in [Socket -> Seq(Item)]
  BY <1>2 DEF NewLogEntry, Quiet
<1> QED BY <1>1, <1>2, <1>3

(* What is said of the answers of a quiet client stays true of it. *)
LEMMA QuietAnswers ==
  ASSUME TypeInv, NEW t \in Socket, Quiet(t), asks'[t].cmd = asks[t].cmd
  PROVE  /\ Unanswered(t) => Unanswered(t)'
         /\ Logging(t) => Logging(t)'
         /\ AnsweredAlone(t) => AnsweredAlone(t)'
         /\ AnsweredTwice(t) => AnsweredTwice(t)'
<1>1. AnswerAt(t)' = AnswerAt(t)
  BY DEF Quiet, AnswersIn, AnswerAt
<1>2. DOMAIN out[t] \subseteq DOMAIN out'[t] /\ \A n \in DOMAIN out[t] : out'[t][n] = out[t][n]
  BY DEF Quiet, Extends
<1>3. Unanswered(t) => Unanswered(t)'
  BY <1>1 DEF Unanswered
<1>4. Logging(t) => Logging(t)'
  BY <1>1, <1>2 DEF Logging
<1>5. AnsweredAlone(t) => AnsweredAlone(t)'
  BY <1>1, <1>2 DEF AnsweredAlone
<1>6. AnsweredTwice(t) => AnsweredTwice(t)'
  BY <1>1, <1>2 DEF AnsweredTwice
<1> QED BY <1>3, <1>4, <1>5, <1>6

(* A quiet client about which nothing else changes keeps the invariant. *)
LEMMA QuietKeeps ==
  ASSUME TypeInv, AnswerInv, NEW t \in Socket, Quiet(t), asks'[t].cmd = asks[t].cmd,
         sock'[t] = sock[t], read'[t] = read[t], mLogLevel'[t] = mLogLevel[t],
         since'[t] = since[t]
  PROVE  AnswersOf(t)' /\ EntriesOf(t)'
<1>1. AnswersOf(t)'
  BY QuietAnswers DEF AnswerInv, AnswersOf
<1>2. EntriesOf(t)'
  BY DEF Quiet, EntriesOf
<1> QED BY <1>1, <1>2

(* The levels a handler logs at, and what it answers with. *)
LEMMA HandledIs ==
  ASSUME NEW s \in Socket, TypeInv
  PROVE  LET h == Handled(s) IN
         /\ h.before \in Seq(Level) /\ h.after \in Seq(Level)
         /\ h.answer \in Status
         /\ h.closeCon \in BOOLEAN
         /\ ~h.closeCon => header(s).get /\ header(s).cmd = "/log" /\ h.answer = "200"
         /\ h.answer = "200" /\ header(s).cmd \in {"/skip", "/shutdown"}
              => header(s).get /\ CheckAuthorization(mAuthLevel[header(s).cmd], header(s).auth)
<1> DEFINE c == header(s)
           h == Handled(s)
<1>1. c.cmd = asks[s].cmd
  BY DEF header
<1> HIDE DEF c
<1>2. CASE ~c.get
  BY <1>2 DEF Handled, Handling, Status, c
<1>3. CASE c.get /\ c.cmd \notin Command
  <2>1. h = Handling(<<70>>, "404", <<>>, TRUE)
    BY <1>3 DEF Handled, HandleCommand, c
  <2>2. <<70>> \in Seq(Level) /\ <<>> \in Seq(Level)
    BY DEF Level
  <2> QED BY <2>1, <2>2, <1>3 DEF Handling, Status, c
<1>4. CASE c.get /\ c.cmd \in Command /\ ~CheckAuthorization(mAuthLevel[c.cmd], c.auth)
  <2>1. h = Handling(IF c.auth = NoCredential THEN <<>> ELSE <<50>>, "401", <<>>, TRUE)
    BY <1>4 DEF Handled, HandleCommand, c
  <2>2. <<50>> \in Seq(Level) /\ <<>> \in Seq(Level)
    BY DEF Level
  <2> QED BY <2>1, <2>2, <1>4 DEF Handling, Status, c
<1>5. CASE c.get /\ c.cmd \in Command /\ CheckAuthorization(mAuthLevel[c.cmd], c.auth)
  <2> DEFINE after == CASE c.cmd = "/skip" -> <<20>> [] c.cmd = "/shutdown" -> <<0>>
                        [] OTHER -> <<>>
  <2>1. h = Handling(<<150>>, "200", after, c.cmd # "/log")
    BY <1>5 DEF Handled, HandleCommand, c
  <2>2. <<150>> \in Seq(Level) /\ <<20>> \in Seq(Level) /\ <<0>> \in Seq(Level)
        /\ <<>> \in Seq(Level)
    BY DEF Level
  <2>3. after \in Seq(Level)
    BY <2>2
  <2> HIDE DEF after
  <2>4. /\ h.before = <<150>> /\ h.after = after /\ h.answer = "200"
        /\ h.closeCon = (c.cmd # "/log")
    BY <2>1 DEF Handling
  <2> QED BY <2>2, <2>3, <2>4, <1>5 DEF Status, c
<1> QED BY <1>2, <1>3, <1>4, <1>5

(* A command that signals is the client's own, of a user of that level. *)
LEMMA SignalIsAuthorized ==
  ASSUME NEW s \in Socket, TypeInv, Handled(s).answer = "200",
         header(s).cmd \in {"/skip", "/shutdown"}
  PROVE  /\ asks[s].get /\ asks[s].cmd = header(s).cmd /\ asks[s].auth.good
         /\ asks[s].auth.name \in
              (IF header(s).cmd = "/skip" THEN Skipper \cup Operator ELSE Operator)
<1>1. header(s).get /\ CheckAuthorization(mAuthLevel[header(s).cmd], header(s).auth)
  BY HandledIs
<1>2. asks[s].get /\ asks[s].cmd = header(s).cmd
  BY <1>1 DEF header
<1> DEFINE level == mAuthLevel[header(s).cmd]
           u == header(s).auth
<1>3. level = IF header(s).cmd = "/skip" THEN 200 ELSE 500
  BY DEF mAuthLevel, Command
<1>4. u # NoCredential /\ HasAccess(u, level)
  BY <1>1, <1>3 DEF CheckAuthorization
<1>5. u = asks[s].auth
  BY <1>4 DEF header
<1> HIDE DEF level, u
<1>6. u.good /\ u.name \in Skipper \cup Operator /\ mUsers[u.name] >= level
  BY <1>4 DEF HasAccess, mUsers
<1>7. header(s).cmd # "/skip" => u.name \in Operator
  BY <1>3, <1>6 DEF mUsers
<1> QED BY <1>2, <1>5, <1>6, <1>7

(***************************************************************************)
(* What a request's client is written: an answer behind what it had.       *)
(***************************************************************************)
AnsweredBy(u, o, status, hi) ==
  /\ u \in Seq(Item)
  /\ Ordered(u, hi)
  /\ Extends(u, o)
  /\ \E n \in DOMAIN u :
       /\ AnswersIn(u) = AnswersIn(o) \cup {n}
       /\ u[n].status = status
       /\ \A k \in DOMAIN o : k < n

Around(u, o, q, status, r) == u = o \o (q \o <<Answer(status)>> \o r)

LEMMA AddAnswered ==
  ASSUME NEW o \in Seq(Item), NEW q, NEW r, NEW status \in Status,
         NEW lo \in Nat, NEW mid \in Nat, NEW hi \in Nat, lo <= mid, mid <= hi,
         Ordered(o, lo), Run(q, lo, mid), Run(r, mid, hi),
         NEW u, Around(u, o, q, status, r)
  PROVE  AnsweredBy(u, o, status, hi)
<1> DEFINE p == o \o q
           one == <<Answer(status)>>
           a == p \o one
<1>1. q \in Seq(Item) /\ r \in Seq(Item)
  BY DEF Run
<1>2. /\ p \in Seq(Item) /\ Ordered(p, mid) /\ AnswersIn(p) = AnswersIn(o)
      /\ Extends(p, o)
  BY AddRun
<1>3. one \in Seq(Item)
  BY DEF Answer, Item, Status
<1>4. u = a \o r
  <2>1. u = o \o (q \o one \o r)
    BY DEF Around
  <2> HIDE DEF one
  <2>2. o \o (q \o one \o r) = ((o \o q) \o one) \o r
    BY ONLY <1>1, <1>3, o \in Seq(Item)
  <2> QED BY <2>1, <2>2
<1> HIDE DEF p
<1>5. /\ a \in Seq(Item) /\ Ordered(a, mid) /\ Extends(a, p)
      /\ AnswersIn(a) = AnswersIn(p) \cup {Len(p) + 1}
      /\ a[Len(p) + 1].status = status
  BY <1>2, AddAnswer
<1>6. Len(p) + 1 \in DOMAIN a
  BY <1>5, <1>2 DEF AnswersIn
<1> HIDE DEF a
<1>7. /\ u \in Seq(Item) /\ Ordered(u, hi)
      /\ AnswersIn(u) = AnswersIn(a)
      /\ Extends(u, a)
  BY <1>4, <1>5, AddRun
<1>8. Extends(u, o)
  BY <1>2, <1>5, <1>7 DEF Extends
<1>9. \A m \in DOMAIN o : m < Len(p) + 1
  <2>1. DOMAIN o \subseteq DOMAIN p /\ DOMAIN p = 1..Len(p)
    BY <1>2 DEF Extends
  <2> QED BY <2>1, <1>2
<1>10. Len(p) + 1 \in DOMAIN u /\ u[Len(p) + 1].status = status
  BY <1>5, <1>6, <1>7 DEF Extends
<1>11. AnswersIn(u) = AnswersIn(o) \cup {Len(p) + 1}
  BY <1>2, <1>5, <1>7
<1> QED BY <1>7, <1>8, <1>9, <1>10, <1>11 DEF AnsweredBy

LEMMA WrittenIs ==
  ASSUME TypeInv, EntryInv, NEW s \in Socket, NEW t \in Socket,
         out'[t] = out[t] \o Written(s, t, Handled(s)),
         mLogCount' = mLogCount + Len(Handled(s).before \o Handled(s).after)
  PROVE  /\ t # s => Quiet(t)
         /\ t = s => AnsweredBy(out'[s], out[s], Handled(s).answer, mLogCount')
<1> DEFINE before == Handled(s).before
           after == Handled(s).after
           answer == Handled(s).answer
           levels == before \o after
           e == Entries(levels)
           q == Heard(t, SubSeq(e, 1, Len(before)))
           r == Heard(t, SubSeq(e, Len(before) + 1, Len(levels)))
           mid == mLogCount + Len(before)
<1>1. /\ before \in Seq(Level) /\ after \in Seq(Level) /\ levels \in Seq(Level)
      /\ answer \in Status
  BY HandledIs
<1>2. /\ Len(before) \in Nat /\ Len(levels) \in Nat /\ Len(before) <= Len(levels)
      /\ mLogCount \in Nat
  <2>1. mLogCount \in Nat
    BY DEF TypeInv
  <2> HIDE DEF before, after
  <2>2. Len(before) \in Nat /\ Len(after) \in Nat /\ Len(levels) = Len(before) + Len(after)
    BY ONLY <1>1
  <2> QED BY <2>1, <2>2
<1>3. mLogCount' = mLogCount + Len(levels)
  OBVIOUS
<1>4. Len(e) = Len(levels)
  BY <1>1, <1>2, EntriesAre
<1>5. out'[t] = out[t] \o (q \o (IF t = s THEN <<Answer(answer)>> ELSE <<>>) \o r)
  BY <1>4 DEF Written
<1>6. q = Heard(t, SubSeq(Entries(levels), 1, Len(before)))
      /\ r = Heard(t, SubSeq(Entries(levels), Len(before) + 1, Len(levels)))
  OBVIOUS
<1> HIDE DEF e, q, r, levels, before, after, answer
<1>7. mid \in Nat /\ mLogCount' \in Nat /\ mLogCount <= mid /\ mid <= mLogCount'
  BY ONLY <1>2, <1>3
<1>8. Run(q, mLogCount, mid)
      /\ (t \in mClients /\ mLogLevel[t] = 999 => Has(q, mLogCount, mid))
  <2>1. /\ 1 \in 1..(Len(levels) + 1) /\ Len(before) \in (1 - 1)..Len(levels)
        /\ mLogCount = mLogCount + 1 - 1
    BY <1>2
  <2>2. mid = mLogCount + Len(before)
    OBVIOUS
  <2> HIDE DEF mid
  <2>3. Run(q, mLogCount, mid)
    BY ONLY <2>1, <2>2, <1>1, <1>2, <1>6, HeardIsRun
  <2>4. t \in mClients /\ mLogLevel[t] = 999 => Has(q, mLogCount, mid)
    BY ONLY <2>1, <2>2, <1>1, <1>2, <1>6, HeardIsRun
  <2> QED BY <2>3, <2>4
<1>9. Run(r, mid, mLogCount')
      /\ (t \in mClients /\ mLogLevel[t] = 999 => Has(r, mid, mLogCount'))
  <2> DEFINE a == Len(before) + 1
  <2>0. r = Heard(t, SubSeq(Entries(levels), a, Len(levels)))
    BY <1>6
  <2>1. a \in 1..(Len(levels) + 1) /\ Len(levels) \in (a - 1)..Len(levels)
        /\ mid = mLogCount + a - 1
    BY ONLY <1>2 DEF mid
  <2> HIDE DEF mid, a
  <2>2. Run(r, mid, mLogCount')
    BY ONLY <2>0, <2>1, <1>1, <1>2, <1>3, HeardIsRun
  <2>3. t \in mClients /\ mLogLevel[t] = 999 => Has(r, mid, mLogCount')
    BY ONLY <2>0, <2>1, <1>1, <1>2, <1>3, HeardIsRun
  <2> QED BY <2>2, <2>3
<1> HIDE DEF mid
<1>10. /\ out[t] \in Seq(Item) /\ since[t] \in Nat /\ Ordered(out[t], mLogCount)
       /\ (mLogLevel[t] = 999 /\ sock[t] = "open" => Has(out[t], since[t], mLogCount))
  BY DEF TypeInv, EntryInv, EntriesOf
<1> DEFINE p == out[t] \o q
<1>11. /\ p \in Seq(Item) /\ Ordered(p, mid) /\ AnswersIn(p) = AnswersIn(out[t])
       /\ Extends(p, out[t])
       /\ (Has(out[t], since[t], mLogCount) /\ Has(q, mLogCount, mid)
             => Has(p, since[t], mid))
  BY <1>2, <1>7, <1>8, <1>10, AddRun
<1>12. q \in Seq(Item) /\ r \in Seq(Item)
  BY <1>8, <1>9 DEF Run
<1>13. CASE t # s
  <2>1. out'[t] = p \o r
    <3> DEFINE o == out[t]
    <3>1. out'[t] = o \o (q \o <<>> \o r) /\ p = o \o q
      BY <1>5, <1>13
    <3>2. o \in Seq(Item) /\ q \in Seq(Item) /\ r \in Seq(Item)
      BY <1>10, <1>12
    <3> HIDE DEF o, p
    <3>3. o \o (q \o <<>> \o r) = (o \o q) \o r
      BY ONLY <3>2
    <3> QED BY <3>1, <3>3
  <2> HIDE DEF p
  <2>2. /\ out'[t] \in Seq(Item) /\ Ordered(out'[t], mLogCount')
        /\ AnswersIn(out'[t]) = AnswersIn(p)
        /\ Extends(out'[t], p)
        /\ (Has(p, since[t], mid) /\ Has(r, mid, mLogCount')
              => Has(out'[t], since[t], mLogCount'))
    BY <2>1, <1>7, <1>9, <1>10, <1>11, AddRun
  <2>3. Extends(out'[t], out[t])
    BY <2>2, <1>11 DEF Extends
  <2>4. mLogLevel[t] = 999 /\ sock[t] = "open" => Has(out'[t], since[t], mLogCount')
    BY <2>2, <1>8, <1>9, <1>10, <1>11, OpenIsClient
  <2> QED BY <2>2, <2>3, <2>4, <1>11, <1>13 DEF Quiet
<1>14. CASE t = s
  <2> DEFINE o == out[t]
             u == out'[t]
  <2>1. Around(u, o, q, answer, r)
    BY <1>5, <1>14 DEF Around
  <2>2. o \in Seq(Item) /\ Ordered(o, mLogCount)
    BY <1>10
  <2>3. mLogCount \in Nat /\ mid \in Nat /\ mLogCount' \in Nat
        /\ mLogCount <= mid /\ mid <= mLogCount'
    BY <1>2, <1>7
  <2>4. Run(q, mLogCount, mid) /\ Run(r, mid, mLogCount') /\ answer \in Status
    BY <1>1, <1>8, <1>9
  <2> HIDE DEF o, u
  <2>5. AnsweredBy(u, o, answer, mLogCount')
    BY ONLY <2>1, <2>2, <2>3, <2>4, AddAnswered
  <2> QED BY <2>5, <1>14 DEF answer, o, u
<1> QED BY <1>13, <1>14

(* Entries are written to clients, and a socket or what was read of it may *)
(* change: what the other clients have is untouched.                       *)
LEMMA OthersKeep ==
  ASSUME TypeInv, AnswerInv, NEW s \in Socket, \A t \in Socket : t # s => Quiet(t),
         \A t \in Socket : t # s => /\ asks'[t] = asks[t] /\ sock'[t] = sock[t]
                                    /\ read'[t] = read[t] /\ mLogLevel'[t] = mLogLevel[t]
                                    /\ since'[t] = since[t],
         AnswersOf(s)', EntriesOf(s)'
  PROVE  AnswerInv' /\ EntryInv'
<1>1. ASSUME NEW t \in Socket, t # s PROVE AnswersOf(t)' /\ EntriesOf(t)'
  BY <1>1, QuietKeeps
<1> QED BY <1>1 DEF AnswerInv, EntryInv

LEMMA SilentStep ==
  ASSUME Inv,
         UNCHANGED <<sock, asks, read, mLogLevel, since, out, mLogCount, mClients, signalled>>,
         arrived' \in [Socket -> None..Full],
         ready' \subseteq {s \in Socket : sock[s] = "open"},
         mEntryQueue' \in Seq(Level)
  PROVE  Inv'
<1>1. TypeInv'
  BY DEF Inv, TypeInv
<1>2. SignalInv'
  BY DEF Inv, SignalInv, SignalsAuthorized
<1>3. AnswerInv'
  BY DEF Inv, AnswerInv, AnswersOf, Unanswered, Logging, AnsweredAlone, AnsweredTwice, AnswerAt
<1>4. EntryInv'
  BY DEF Inv, EntryInv, EntriesOf
<1> QED BY <1>1, <1>2, <1>3, <1>4 DEF Inv

LEMMA PlayerLogsStep ==
  ASSUME Inv, NEW level \in {10, 30}, PlayerLogs(level)
  PROVE  Inv'
<1>1. mEntryQueue \in Seq(Level) /\ level \in Level
  BY DEF Inv, TypeInv, Level
<1>2. mEntryQueue' \in Seq(Level)
  BY <1>1 DEF PlayerLogs
<1>3. UNCHANGED <<sock, asks, read, mLogLevel, since, out, mLogCount, mClients, signalled,
                  arrived, ready>>
  BY DEF PlayerLogs, sockets, input, history
<1> QED BY <1>2, <1>3, SilentStep DEF Inv, TypeInv

LEMMA HangStep ==
  ASSUME Inv, NEW levels, Hang(levels)
  PROVE  Inv'
<1>1. UNCHANGED <<sock, asks, read, mLogLevel, since, out, mLogCount, mClients, signalled,
                  arrived, ready, mEntryQueue>>
  BY DEF Hang, sockets, input, log, history
<1> QED BY <1>1, SilentStep DEF Inv, TypeInv

LEMMA ArriveStep ==
  ASSUME Inv, NEW s \in Socket, NEW upto \in {Part, Line, Full}, Arrive(s, upto)
  PROVE  Inv'
<1>1. UNCHANGED <<sock, asks, read, mLogLevel, since, out, mLogCount, mClients, signalled,
                  mEntryQueue>>
  BY DEF Arrive, sockets, log, history
<1>2. arrived' \in [Socket -> None..Full]
  BY DEF Inv, TypeInv, Arrive, None, Part, Line, Full
<1>3. ready' \subseteq {t \in Socket : sock[t] = "open"}
  BY DEF Inv, TypeInv, Arrive
<1> QED BY <1>1, <1>2, <1>3, SilentStep DEF Inv, TypeInv

LEMMA EventStep ==
  ASSUME Inv, event
  PROVE  Inv'
<1>1. UNCHANGED <<sock, asks, read, mLogLevel, since, mClients, signalled, arrived, ready>>
      /\ mEntryQueue' = <<>> /\ NewLogEntry(mEntryQueue)
  BY DEF event, sockets, input, history
<1>2. mEntryQueue \in Seq(Level) /\ TypeInv /\ SignalInv /\ AnswerInv /\ EntryInv
  BY DEF Inv, TypeInv
<1>3. /\ mLogCount' \in Nat /\ out' \in [Socket -> Seq(Item)]
      /\ \A t \in Socket : Quiet(t)
  BY <1>1, <1>2, NewLogEntryIsQuiet
<1>4. TypeInv'
  BY <1>1, <1>2, <1>3 DEF TypeInv
<1>5. SignalInv'
  BY <1>1, <1>2 DEF SignalInv, SignalsAuthorized
<1>6. \A t \in Socket : AnswersOf(t)' /\ EntriesOf(t)'
  BY <1>1, <1>2, <1>3, QuietKeeps
<1> QED BY <1>4, <1>5, <1>6 DEF Inv, AnswerInv, EntryInv

LEMMA NewClientStep ==
  ASSUME Inv, NEW s \in Socket, NewClient(s)
  PROVE  Inv'
<1>1. /\ TypeInv /\ SignalInv /\ AnswerInv /\ EntryInv
  BY DEF Inv
<1>2. /\ sock[s] = "none" /\ sock' = [sock EXCEPT ![s] = "open"]
      /\ mClients' = mClients \cup {s}
      /\ UNCHANGED <<mLogLevel, arrived, read, ready, mEntryQueue, since, signalled>>
      /\ NewLogEntry(<<100>>)
  BY DEF NewClient, history
<1>3. PICK r \in Request : asks' = [asks EXCEPT ![s] = r]
  BY DEF NewClient
<1>4. <<100>> \in Seq(Level)
  BY DEF Level
<1>5. /\ mLogCount' \in Nat /\ out' \in [Socket -> Seq(Item)]
      /\ \A t \in Socket : Quiet(t)
  BY <1>1, <1>2, <1>4, NewLogEntryIsQuiet
<1>6. TypeInv'
  <2>1. sock' \in [Socket -> SocketState] /\ asks' \in [Socket -> Request]
    BY <1>1, <1>2, <1>3 DEF TypeInv, SocketState
  <2>2. mClients' = {t \in Socket : sock'[t] \in {"open", "closing", "idle"}}
    BY <1>1, <1>2 DEF TypeInv
  <2>3. ready' \subseteq {t \in Socket : sock'[t] = "open"}
    BY <1>1, <1>2 DEF TypeInv
  <2> QED BY <2>1, <2>2, <2>3, <1>1, <1>2, <1>5 DEF TypeInv
<1>7. SignalInv'
  <2>1. ASSUME NEW x \in signalled
        PROVE  x.client \in Socket /\ sock'[x.client] # "none"
               /\ asks'[x.client] = asks[x.client]
    BY <1>1, <1>2, <1>3 DEF SignalInv, TypeInv
  <2> QED BY <2>1, <1>1, <1>2 DEF SignalInv, SignalsAuthorized
<1>8. AnswersOf(s)'
  <2>1. read'[s] = None /\ Unanswered(s) /\ sock'[s] = "open"
    BY <1>1, <1>2 DEF AnswerInv, AnswersOf, TypeInv
  <2>2. Unanswered(s)'
    BY <2>1, <1>5 DEF Unanswered, Quiet, AnswerAt, AnswersIn
  <2> QED BY <2>1, <2>2 DEF AnswersOf
<1>9. EntriesOf(s)'
  <2>1. mLogLevel'[s] = 0
    BY <1>1, <1>2 DEF AnswerInv, AnswersOf
  <2> QED BY <2>1, <1>5 DEF EntriesOf, Quiet
<1>10. \A t \in Socket : t # s => /\ asks'[t] = asks[t] /\ sock'[t] = sock[t]
                                  /\ read'[t] = read[t] /\ mLogLevel'[t] = mLogLevel[t]
                                  /\ since'[t] = since[t]
  BY <1>1, <1>2, <1>3 DEF TypeInv
<1> QED BY <1>1, <1>5, <1>6, <1>7, <1>8, <1>9, <1>10, OthersKeep DEF Inv

(* PeerCloses and FinishClose: the client's end is logged and it is gone.  *)
LEMMA RemoveStep ==
  ASSUME Inv, NEW s \in Socket, sock[s] \in {"open", "closing"}, s \notin ready,
         NEW levels \in Seq(Level), NewLogEntry(levels), Remove(s),
         UNCHANGED <<mLogLevel, input, mEntryQueue, history>>
  PROVE  Inv'
<1>1. /\ TypeInv /\ SignalInv /\ AnswerInv /\ EntryInv
  BY DEF Inv
<1>2. /\ sock' = [sock EXCEPT ![s] = "deleted"] /\ mClients' = mClients \ {s}
      /\ UNCHANGED <<mLogLevel, asks, arrived, read, ready, mEntryQueue, since, signalled>>
  BY DEF Remove, input, history
<1>3. /\ mLogCount' \in Nat /\ out' \in [Socket -> Seq(Item)]
      /\ \A t \in Socket : Quiet(t)
  BY <1>1, NewLogEntryIsQuiet
<1>4. TypeInv'
  <2>1. sock' \in [Socket -> SocketState]
    BY <1>1, <1>2 DEF TypeInv, SocketState
  <2>2. mClients' = {t \in Socket : sock'[t] \in {"open", "closing", "idle"}}
    BY <1>1, <1>2 DEF TypeInv
  <2>3. ready' \subseteq {t \in Socket : sock'[t] = "open"}
    BY <1>1, <1>2 DEF TypeInv
  <2>4. mLogCount' \in Nat /\ out' \in [Socket -> Seq(Item)]
    BY <1>3
  <2> QED BY <2>1, <2>2, <2>3, <2>4, <1>1, <1>2 DEF TypeInv
<1>5. SignalInv'
  BY <1>1, <1>2 DEF SignalInv, SignalsAuthorized, TypeInv
<1>6. AnswersOf(s)'
  <2>1. sock'[s] = "deleted" /\ asks'[s].cmd = asks[s].cmd
    BY <1>1, <1>2 DEF TypeInv
  <2>2. Unanswered(s) \/ AnsweredAlone(s) \/ AnsweredTwice(s)
    BY <1>1 DEF AnswerInv, AnswersOf, Logging, AnsweredAlone
  <2>3. Unanswered(s)' \/ AnsweredAlone(s)' \/ AnsweredTwice(s)'
    BY <2>1, <2>2, <1>1, <1>3, QuietAnswers
  <2> QED BY <2>1, <2>3 DEF AnswersOf
<1>7. EntriesOf(s)'
  <2>1. sock'[s] = "deleted"
    BY <1>1, <1>2 DEF TypeInv
  <2> QED BY <2>1, <1>3 DEF EntriesOf, Quiet
<1>8. \A t \in Socket : t # s => /\ asks'[t] = asks[t] /\ sock'[t] = sock[t]
                                 /\ read'[t] = read[t] /\ mLogLevel'[t] = mLogLevel[t]
                                 /\ since'[t] = since[t]
  BY <1>1, <1>2 DEF TypeInv
<1> QED BY <1>1, <1>3, <1>4, <1>5, <1>6, <1>7, <1>8, OthersKeep DEF Inv

(***************************************************************************)
(* ReadClient.  Whose request is looked at for the first time has not been *)
(* answered; who is answered again hears the log, and is closed now.       *)
(***************************************************************************)
LEMMA ReadStep ==
  ASSUME Inv, NEW s \in Socket, ReadClient(s)
  PROVE  Inv'
<1> DEFINE h == Handled(s)
           c == IF h.answer = "200" THEN header(s).cmd ELSE "none"
           total == Len(h.before \o h.after)
<1>1. /\ TypeInv /\ SignalInv /\ AnswerInv /\ EntryInv
  BY DEF Inv
<1>2. /\ s \in ready
      /\ out' = [t \in Socket |-> out[t] \o Written(s, t, h)]
      /\ mLogCount' = mLogCount + total
      /\ IF h.closeCon THEN Close(s) ELSE UNCHANGED sock
      /\ IF c = "/log" THEN CmdLog(s) /\ since' = [since EXCEPT ![s] = mLogCount']
                       ELSE UNCHANGED <<mLogLevel, since>>
      /\ signalled' = IF c \in {"/skip", "/shutdown"}
                         THEN signalled \cup {[cmd |-> c, client |-> s]} ELSE signalled
      /\ ready' = ready \ {s}
      /\ read' = [read EXCEPT ![s] = Lines(s)]
      /\ UNCHANGED <<mClients, asks, arrived, mEntryQueue>>
  BY DEF ReadClient
<1>3. /\ h.before \in Seq(Level) /\ h.after \in Seq(Level)
      /\ h.answer \in Status
      /\ h.closeCon \in BOOLEAN
      /\ ~h.closeCon => header(s).get /\ header(s).cmd = "/log" /\ h.answer = "200"
  BY <1>1, HandledIs
<1>4. header(s).get => read[s] = None /\ Lines(s) # None
  <2> SUFFICES ASSUME header(s).get PROVE read[s] = None /\ Lines(s) # None
    OBVIOUS
  <2>1. read[s] = None /\ Lines(s) >= Line
    BY DEF header
  <2> QED BY <2>1 DEF None, Line
<1>5. header(s).cmd = asks[s].cmd
  BY DEF header
<1>6. c \in {"/skip", "/shutdown"} =>
         /\ asks[s].get /\ asks[s].cmd = c /\ asks[s].auth.good
         /\ asks[s].auth.name \in
              (IF c = "/skip" THEN Skipper \cup Operator ELSE Operator)
  BY <1>1, SignalIsAuthorized
<1>7. c = "/log" <=> h.answer = "200" /\ asks[s].cmd = "/log"
  BY <1>5
<1>8. \A t \in Socket : t # s => Quiet(t)
  <2> SUFFICES ASSUME NEW t \in Socket, t # s PROVE Quiet(t)
    OBVIOUS
  <2>1. out'[t] = out[t] \o Written(s, t, Handled(s))
    BY <1>2
  <2>2. mLogCount' = mLogCount + Len(Handled(s).before \o Handled(s).after)
    BY <1>2
  <2> QED BY <2>1, <2>2, <1>1, WrittenIs
<1>9. AnsweredBy(out'[s], out[s], h.answer, mLogCount')
  <2>1. out'[s] = out[s] \o Written(s, s, Handled(s))
    BY <1>2
  <2>2. mLogCount' = mLogCount + Len(Handled(s).before \o Handled(s).after)
    BY <1>2
  <2> QED BY <2>1, <2>2, <1>1, WrittenIs
<1>10. mLogCount \in Nat /\ mLogCount' \in Nat
  <2>1. mLogCount \in Nat
    BY <1>1 DEF TypeInv
  <2> DEFINE before == h.before
             after == h.after
  <2>2. before \in Seq(Level) /\ after \in Seq(Level) /\ total = Len(before \o after)
    BY <1>3
  <2> HIDE DEF h, c, before, after
  <2>3. total \in Nat
    <3>1. Len(before \o after) \in Nat
      BY ONLY <2>2
    <3> QED BY <3>1, <2>2
  <2>4. mLogCount' = mLogCount + total
    BY <1>2
  <2> HIDE DEF total
  <2> QED BY ONLY <2>1, <2>3, <2>4
<1> HIDE DEF h, c, total
<1>11. sock[s] = "open" /\ sock \in [Socket -> SocketState]
  BY <1>1, <1>2 DEF TypeInv
<1>12. /\ \A t \in Socket : t # s => sock'[t] = sock[t]
       /\ sock' \in [Socket -> SocketState]
       /\ h.closeCon => sock'[s] \in {"closing", "idle"}
       /\ ~h.closeCon => sock'[s] = "open"
  BY <1>2, <1>3, <1>11 DEF Close, SocketState
<1>13. /\ mLogLevel' \in [Socket -> {0, 999}] /\ since' \in [Socket -> Nat]
       /\ \A t \in Socket : t # s => mLogLevel'[t] = mLogLevel[t] /\ since'[t] = since[t]
       /\ ~h.closeCon => mLogLevel'[s] = 999 /\ since'[s] = mLogCount'
  <2>1. mLogLevel \in [Socket -> {0, 999}] /\ since \in [Socket -> Nat]
    BY <1>1 DEF TypeInv
  <2>2. CASE c = "/log"
    <3>1. mLogLevel' = [mLogLevel EXCEPT ![s] = 999] /\ since' = [since EXCEPT ![s] = mLogCount']
      BY <2>2, <1>2 DEF CmdLog
    <3> QED BY <3>1, <2>1, <1>10
  <2>3. CASE c # "/log"
    <3>1. mLogLevel' = mLogLevel /\ since' = since
      BY <2>3, <1>2
    <3>2. h.closeCon
      BY <2>3, <1>3, <1>5, <1>7
    <3> QED BY <3>1, <3>2, <2>1
  <2> QED BY <2>2, <2>3
<1>14. TypeInv'
  <2>1. mClients' = {t \in Socket : sock'[t] \in {"open", "closing", "idle"}}
    <3>1. mClients' = mClients
      BY <1>2
    <3>2. mClients = {t \in Socket : sock[t] \in {"open", "closing", "idle"}}
      BY <1>1 DEF TypeInv
    <3>3. \A t \in Socket : sock'[t] \in {"open", "closing", "idle"}
                             <=> sock[t] \in {"open", "closing", "idle"}
      BY <1>3, <1>11, <1>12
    <3> QED BY <3>1, <3>2, <3>3
  <2>2. Lines(s) \in {None, Line, Full} /\ read' \in [Socket -> {None, Line, Full}]
    <3>1. arrived[s] \in None..Full
      BY <1>1 DEF TypeInv
    <3>2. Lines(s) \in {None, Line, Full}
      BY <3>1 DEF Lines, None, Part, Line, Full
    <3> QED BY <3>2, <1>1, <1>2 DEF TypeInv
  <2>3. ready' \subseteq {t \in Socket : sock'[t] = "open"}
    BY <1>1, <1>2, <1>12 DEF TypeInv
  <2>4. signalled' \subseteq [cmd : {"/skip", "/shutdown"}, client : Socket]
    BY <1>1, <1>2 DEF TypeInv
  <2>5. out' \in [Socket -> Seq(Item)]
    <3>1. \A t \in Socket : out'[t] \in Seq(Item)
      BY <1>8, <1>9 DEF Quiet, AnsweredBy
    <3> QED BY <3>1, <1>2
  <2> QED BY <2>1, <2>2, <2>3, <2>4, <2>5, <1>1, <1>2, <1>10, <1>12, <1>13 DEF TypeInv
<1>15. SignalInv'
  <2>1. ASSUME NEW x \in signalled'
        PROVE  /\ sock'[x.client] # "none"
               /\ asks[x.client].get /\ asks[x.client].cmd = x.cmd /\ asks[x.client].auth.good
               /\ asks[x.client].auth.name \in
                    (IF x.cmd = "/skip" THEN Skipper \cup Operator ELSE Operator)
    <3>1. CASE x \in signalled
      <4>1. sock[x.client] # "none" /\ x.client \in Socket
        BY <3>1, <1>1 DEF SignalInv, TypeInv
      <4>2. sock'[x.client] # "none"
        BY <4>1, <1>3, <1>12
      <4> QED BY <4>2, <3>1, <1>1 DEF SignalInv, SignalsAuthorized
    <3>2. CASE x \notin signalled
      <4>1. c \in {"/skip", "/shutdown"} /\ x = [cmd |-> c, client |-> s]
        BY <3>2, <1>2
      <4>2. x.cmd = c /\ x.client = s
        BY <4>1
      <4> QED BY <4>1, <4>2, <1>3, <1>6, <1>12
    <3> QED BY <3>1, <3>2
  <2> QED BY <2>1, <1>2 DEF SignalInv, SignalsAuthorized
<1>16. PICK n \in DOMAIN out'[s] :
         /\ AnswersIn(out'[s]) = AnswersIn(out[s]) \cup {n}
         /\ out'[s][n].status = h.answer
         /\ \A k \in DOMAIN out[s] : k < n
  BY <1>9 DEF AnsweredBy
<1>17. AnswerAt(s)' = AnswerAt(s) \cup {n}
  BY <1>16 DEF AnswerAt, AnswersIn
<1>18. AnswersOf(s)'
  <2>1. asks' = asks
    BY <1>2
  <2>2. CASE read[s] = None
    <3>1. AnswerAt(s)' = {n}
      BY <2>2, <1>1, <1>11, <1>17 DEF AnswerInv, AnswersOf, Unanswered
    <3>2. AnsweredAlone(s)'
      BY <3>1, <1>16 DEF AnsweredAlone
    <3>3. CASE h.closeCon
      BY <3>2, <3>3, <1>12 DEF AnswersOf
    <3>4. CASE ~h.closeCon
      <4>1. asks'[s].cmd = "/log" /\ h.answer = "200"
        BY <3>4, <2>1, <1>3, <1>5
      <4>2. Logging(s)'
        BY <4>1, <3>1, <1>16 DEF Logging
      <4>3. read'[s] # None
        BY <3>4, <1>1, <1>2, <1>3, <1>4 DEF TypeInv
      <4> QED BY <4>2, <4>3, <3>4, <1>12, <1>13 DEF AnswersOf
    <3> QED BY <3>3, <3>4, <1>3
  <2>3. CASE read[s] # None
    <3>1. h.closeCon
      BY <2>3, <1>3, <1>4
    <3>2. PICK m \in DOMAIN out[s] :
            asks[s].cmd = "/log" /\ AnswerAt(s) = {m} /\ out[s][m].status = "200"
      BY <2>3, <1>1, <1>11 DEF AnswerInv, AnswersOf, Logging
    <3>3. m \in DOMAIN out'[s] /\ out'[s][m] = out[s][m]
      BY <3>2, <1>9 DEF AnsweredBy, Extends
    <3>4. m < n /\ AnswerAt(s)' = {m, n}
      BY <3>2, <1>16, <1>17
    <3>5. AnsweredTwice(s)'
      BY <2>1, <3>2, <3>3, <3>4 DEF AnsweredTwice
    <3> QED BY <3>1, <3>5, <1>12 DEF AnswersOf
  <2> QED BY <2>2, <2>3
<1>19. EntriesOf(s)'
  <2>1. Ordered(out'[s], mLogCount')
    BY <1>9 DEF AnsweredBy
  <2>2. CASE h.closeCon
    BY <2>1, <2>2, <1>12 DEF EntriesOf
  <2>3. CASE ~h.closeCon
    <3>1. since'[s] = mLogCount'
      BY <2>3, <1>13
    <3>2. Has(out'[s], since'[s], mLogCount')
      BY <3>1, <1>10, HasNone
    <3> QED BY <2>1, <3>2 DEF EntriesOf
  <2> QED BY <2>2, <2>3, <1>3
<1>20. \A t \in Socket : t # s => /\ asks'[t] = asks[t] /\ sock'[t] = sock[t]
                                  /\ read'[t] = read[t] /\ mLogLevel'[t] = mLogLevel[t]
                                  /\ since'[t] = since[t]
  <2> SUFFICES ASSUME NEW t \in Socket, t # s
               PROVE  /\ asks'[t] = asks[t] /\ sock'[t] = sock[t]
                      /\ read'[t] = read[t] /\ mLogLevel'[t] = mLogLevel[t]
                      /\ since'[t] = since[t]
    OBVIOUS
  <2>1. asks' = asks /\ read' = [read EXCEPT ![s] = Lines(s)]
    BY <1>2
  <2>2. read'[t] = read[t]
    BY <2>1, <1>1 DEF TypeInv
  <2> QED BY <2>1, <2>2, <1>12, <1>13
<1> QED BY <1>1, <1>8, <1>14, <1>15, <1>18, <1>19, <1>20, OthersKeep DEF Inv

(* Every step keeps the invariant. *)
LEMMA NextInv == Inv /\ [Next]_vars => Inv'
<1> SUFFICES ASSUME Inv, [Next]_vars PROVE Inv'
  OBVIOUS
<1>1. ASSUME NEW level \in {10, 30}, PlayerLogs(level) PROVE Inv'
  BY <1>1, PlayerLogsStep
<1>2. ASSUME NEW s \in Socket, NewClient(s) PROVE Inv'
  BY <1>2, NewClientStep
<1>3. ASSUME NEW s \in Socket, NEW upto \in {Part, Line, Full}, Arrive(s, upto) PROVE Inv'
  BY <1>3, ArriveStep
<1>4. ASSUME NEW s \in Socket, PeerCloses(s) PROVE Inv'
  <2>1. <<100>> \in Seq(Level)
    BY DEF Level
  <2> QED BY <2>1, <1>4, RemoveStep DEF PeerCloses
<1>5. ASSUME NEW s \in Socket, HangOnPeer(s) PROVE Inv'
  BY <1>5, HangStep DEF HangOnPeer
<1>6. ASSUME event PROVE Inv'
  BY <1>6, EventStep
<1>7. ASSUME NEW s \in Socket, ReadClient(s) PROVE Inv'
  BY <1>7, ReadStep
<1>8. ASSUME NEW s \in Socket, FinishClose(s) PROVE Inv'
  <2>1. s \notin ready
    BY <1>8 DEF FinishClose, Inv, TypeInv
  <2>2. <<100>> \in Seq(Level)
    BY DEF Level
  <2> QED BY <2>1, <2>2, <1>8, RemoveStep DEF FinishClose
<1>9. ASSUME HangServing PROVE Inv'
  BY <1>9, HangStep DEF HangServing
<1>10. CASE UNCHANGED vars
  <2>1. UNCHANGED <<sock, asks, read, mLogLevel, since, out, mLogCount, mClients, signalled,
                    arrived, ready, mEntryQueue>>
    BY <1>10 DEF vars, sockets, input, log, history
  <2> QED BY <2>1, SilentStep DEF Inv, TypeInv
<1>11. CASE Loop
  BY <1>11, <1>6, <1>7, <1>8, <1>9 DEF Loop
<1> QED BY <1>1, <1>2, <1>3, <1>4, <1>5, <1>10, <1>11 DEF Next

LEMMA InvHolds == Spec => []Inv
<1> QED BY InitInv, NextInv, PTL DEF Spec

(***************************************************************************)
(* The rest of the types: how much was read of what has arrived, and the   *)
(* entries that wait.                                                      *)
(***************************************************************************)
CountInv ==
  /\ \A s \in Socket : read[s] <= arrived[s]
  /\ playerEntries \in 0..MaxPlayerEntries
  /\ Len(mEntryQueue) <= playerEntries
  /\ quit \in BOOLEAN
  /\ hung \in BOOLEAN

LEMMA CountFrame ==
  ASSUME CountInv, UNCHANGED <<read, arrived, playerEntries, mEntryQueue, quit>>,
         hung' \in BOOLEAN
  PROVE  CountInv'
BY DEF CountInv

LEMMA CountStep ==
  ASSUME Inv, CountInv, [Next]_vars
  PROVE  CountInv'
<1>0. TypeInv /\ hung \in BOOLEAN
  BY DEF Inv, CountInv
<1>1. ASSUME NEW level \in {10, 30}, PlayerLogs(level) PROVE CountInv'
  <2>1. Len(mEntryQueue') = Len(mEntryQueue) + 1 /\ Len(mEntryQueue) \in Nat
    <3>1. mEntryQueue \in Seq(Level) /\ level \in Level
      BY <1>0 DEF TypeInv, Level
    <3> QED BY <3>1, <1>1 DEF PlayerLogs
  <2>2. /\ playerEntries < MaxPlayerEntries /\ playerEntries' = playerEntries + 1
        /\ UNCHANGED <<read, arrived, quit, hung>>
    BY <1>1 DEF PlayerLogs, input
  <2> QED BY <2>1, <2>2, BoundAssumption DEF CountInv
<1>2. ASSUME NEW s \in Socket, NewClient(s) \/ PeerCloses(s) \/ FinishClose(s) PROVE CountInv'
  BY <1>0, <1>2, CountFrame DEF NewClient, PeerCloses, FinishClose, input
<1>3. ASSUME NEW s \in Socket, NEW upto \in {Part, Line, Full}, Arrive(s, upto) PROVE CountInv'
  <2>1. /\ arrived' = [arrived EXCEPT ![s] = upto] /\ arrived[s] < upto
        /\ UNCHANGED <<read, playerEntries, mEntryQueue, quit, hung>>
    BY <1>3 DEF Arrive, log
  <2>2. arrived \in [Socket -> None..Full] /\ read \in [Socket -> {None, Line, Full}]
    BY <1>0 DEF TypeInv
  <2>3. \A t \in Socket : read[t] <= arrived'[t]
    BY <2>1, <2>2 DEF CountInv, None, Part, Line, Full
  <2> QED BY <2>1, <2>3 DEF CountInv
<1>4. ASSUME event PROVE CountInv'
  <2>1. mEntryQueue' = <<>> /\ UNCHANGED <<read, arrived, playerEntries, quit, hung>>
    BY <1>4 DEF event, input
  <2> QED BY <2>1 DEF CountInv
<1>5. ASSUME NEW s \in Socket, ReadClient(s) PROVE CountInv'
  <2>1. /\ read' = [read EXCEPT ![s] = Lines(s)]
        /\ UNCHANGED <<arrived, mEntryQueue, playerEntries, hung>>
    BY <1>5 DEF ReadClient
  <2>2. quit' \in BOOLEAN
    BY <1>5 DEF ReadClient
  <2>3. Lines(s) <= arrived[s]
    <3>1. arrived[s] \in 0..3
      BY <1>0 DEF TypeInv, None, Full
    <3> QED BY <3>1 DEF Lines, None, Part
  <2>4. \A t \in Socket : read'[t] <= arrived[t]
    BY <1>0, <2>1, <2>3 DEF CountInv, TypeInv
  <2> QED BY <2>1, <2>2, <2>4 DEF CountInv
<1>6. ASSUME NEW levels, Hang(levels) PROVE CountInv'
  BY <1>6, CountFrame DEF Hang, input, log
<1>7. CASE UNCHANGED vars
  BY <1>0, <1>7, CountFrame DEF vars, input, log
<1> QED BY <1>1, <1>2, <1>3, <1>4, <1>5, <1>6, <1>7 DEF Next, Loop, HangServing, HangOnPeer

(***************************************************************************)
(* Every reachable state of the server is well typed: a client is in       *)
(* mClients as long as its socket is there, and no more is read of a       *)
(* request than has arrived.                                               *)
(***************************************************************************)
THEOREM ServerTyped == Spec => []TypeOK
<1>1. Init => CountInv
  <2> SUFFICES ASSUME Init PROVE CountInv
    OBVIOUS
  <2>1. \A s \in Socket : read[s] = 0 /\ arrived[s] = 0
    BY DEF Init, None
  <2>2. Len(mEntryQueue) = 0 /\ playerEntries = 0
    BY DEF Init
  <2>3. quit \in BOOLEAN /\ hung \in BOOLEAN
    BY DEF Init
  <2>4. Len(mEntryQueue) <= playerEntries /\ playerEntries \in 0..MaxPlayerEntries
    BY <2>2, BoundAssumption
  <2>5. \A s \in Socket : read[s] <= arrived[s]
    BY <2>1
  <2> QED BY <2>3, <2>4, <2>5, Zenon DEF CountInv
<1>2. Inv /\ CountInv /\ [Next]_vars => CountInv'
  BY CountStep
<1>3. Inv /\ CountInv => TypeOK
  <2> SUFFICES ASSUME Inv, CountInv PROVE TypeOK
    OBVIOUS
  <2>1. ASSUME NEW s \in Socket, NEW n \in 1..Len(out[s])
        PROVE  /\ out[s][n].status \in {"entry", "200", "401", "404", "501"}
               /\ out[s][n].no \in 0..mLogCount
    <3>1. out[s] \in Seq(Item) /\ mLogCount \in Nat /\ Ordered(out[s], mLogCount)
      BY DEF Inv, TypeInv, EntryInv, EntriesOf
    <3>2. n \in DOMAIN out[s] /\ out[s][n] \in Item
      BY <3>1
    <3>3. out[s][n].no \in Nat /\ out[s][n].status \in Status \cup {"entry"}
          /\ (out[s][n].status = "entry" \/ out[s][n].no = 0)
      BY <3>2 DEF Item
    <3>4. out[s][n].status = "entry" => out[s][n].no <= mLogCount
      BY <3>1, <3>2 DEF Ordered, EntriesIn
    <3> QED BY <3>1, <3>3, <3>4 DEF Status
  <2> QED BY <2>1 DEF Inv, CountInv, TypeInv, TypeOK
<1> QED BY <1>1, <1>2, <1>3, InvHolds, PTL DEF Spec

(***************************************************************************)
(* Nothing is skipped or shut down but for a client that asked for it, in  *)
(* a GET of its own and with the password of a user of that level.         *)
(***************************************************************************)
THEOREM SkipsAuthorized == Spec => []SignalsAuthorized
<1>1. Inv => SignalsAuthorized
  BY DEF Inv, SignalInv
<1> QED BY <1>1, InvHolds, PTL

(***************************************************************************)
(* A client is answered once; twice only one that got the log and sent     *)
(* more, and then its connection is closed.                                *)
(***************************************************************************)
THEOREM OneAnswer == Spec => []AnsweredOnce
<1>1. Inv => AnsweredOnce
  <2> SUFFICES ASSUME Inv, NEW s \in Socket
               PROVE  \/ Cardinality(AnswerAt(s)) <= 1
                      \/ Cardinality(AnswerAt(s)) = 2 /\ GotLog(s) /\ sock[s] # "open"
    BY DEF AnsweredOnce
  <2>1. Unanswered(s) \/ AnsweredAlone(s) \/ (AnsweredTwice(s) /\ sock[s] # "open")
    BY DEF Inv, AnswerInv, AnswersOf, Logging, AnsweredAlone
  <2>2. CASE Unanswered(s)
    BY <2>2, FS_EmptySet DEF Unanswered
  <2>3. CASE AnsweredAlone(s)
    <3>1. PICK n \in DOMAIN out[s] : AnswerAt(s) = {n}
      BY <2>3 DEF AnsweredAlone
    <3>2. Cardinality({n}) = 1
      BY FS_Singleton
    <3> QED BY <3>1, <3>2
  <2>4. CASE AnsweredTwice(s) /\ sock[s] # "open"
    <3>1. PICK n \in DOMAIN out[s], m \in DOMAIN out[s] :
            /\ n < m /\ asks[s].cmd = "/log"
            /\ AnswerAt(s) = {n, m} /\ out[s][n].status = "200"
      BY <2>4 DEF AnsweredTwice
    <3>2. n \in Int /\ m \in Int
      BY DEF Inv, TypeInv
    <3>3. Cardinality({n} \cup {m}) = 2
      <4>1. IsFiniteSet({n}) /\ Cardinality({n}) = 1 /\ m \notin {n}
        BY <3>1, <3>2, FS_Singleton
      <4>2. Cardinality({n} \cup {m}) = Cardinality({n}) + 1
        BY <4>1, FS_AddElement, ZenonT(20)
      <4> QED BY <4>1, <4>2
    <3>4. {n} \cup {m} = AnswerAt(s)
      BY <3>1
    <3>5. GotLog(s)
      BY <3>1, <3>2 DEF GotLog
    <3> QED BY <3>3, <3>4, <3>5, <2>4
  <2> QED BY <2>1, <2>2, <2>3, <2>4
<1> QED BY <1>1, InvHolds, PTL

(***************************************************************************)
(* Who asked for the log and is connected has been written every entry     *)
(* since, once and in order, whatever the handlers log.                    *)
(***************************************************************************)
THEOREM LogReachesAll == Spec => []LogComplete
<1>1. Inv => LogComplete
  <2> SUFFICES ASSUME Inv, NEW s \in Socket, GotLog(s), sock[s] = "open"
               PROVE  /\ {out[s][n].no : n \in LogAt(s)} = (since[s] + 1)..mLogCount
                      /\ \A n, m \in LogAt(s) : n < m => out[s][n].no < out[s][m].no
    BY DEF LogComplete
  <2>1. out[s] \in Seq(Item) /\ since[s] \in Nat /\ mLogCount \in Nat
    BY DEF Inv, TypeInv
  <2>2. \A n \in DOMAIN out[s] : out[s][n].no \in Nat
    <3>1. \A n \in DOMAIN out[s] : out[s][n] \in Item
      BY <2>1
    <3> QED BY <3>1 DEF Item
  <2>3. Ordered(out[s], mLogCount) /\ Has(out[s], since[s], mLogCount)
    <3>1. mLogLevel[s] = 999
      BY DEF Inv, AnswerInv, AnswersOf, Unanswered, GotLog
    <3> QED BY <3>1 DEF Inv, EntryInv, EntriesOf
  <2>4. ASSUME NEW k \in (since[s] + 1)..mLogCount
        PROVE  \E n \in LogAt(s) : out[s][n].no = k
    BY <2>1, <2>3 DEF Has, EntriesIn, LogAt
  <2>5. ASSUME NEW n \in LogAt(s) PROVE out[s][n].no \in (since[s] + 1)..mLogCount
    BY <2>1, <2>2, <2>3 DEF Ordered, EntriesIn, LogAt
  <2>6. \A n, m \in LogAt(s) : n < m => out[s][n].no < out[s][m].no
    BY <2>3 DEF Ordered, EntriesIn, LogAt
  <2> QED BY <2>4, <2>5, <2>6
<1> QED BY <1>1, InvHolds, PTL

-----------------------------------------------------------------------------
(***************************************************************************)
(* The process.  Its invariant says, for each step of main and mainloop,   *)
(* what has been constructed and connected when the step comes, where the  *)
(* thread can be and what can have failed.                                 *)
(***************************************************************************)
Before == {"options", "configure", "dump", "fork", "group", "user", "handlers", "logger",
           "requests", "share", "player", "users", "listen", "connect", "start"}

(* What the steps of mainloop find constructed. *)
StandingAt(step) ==
  CASE step = "requests" -> {"logger", "collections"}
    [] step = "share" -> {"logger", "collections", "requests"}
    [] step = "player" -> {"logger", "collections", "requests", "share"}
    [] step \in {"users", "listen"} -> {"logger", "collections", "requests", "share", "player"}
    [] step \in {"connect", "start", "exec", "loop", "stop", "wait", "unwind"} -> Parts
    [] OTHER -> {}

ThreadAt ==
  /\ pc \in Before => player = "none"
  /\ pc \in {"unwind", "delete"} => player = "ended"

ObjectsAt == pc # "delete" => objects = StandingAt(pc)

JoinedAt ==
  pc \in {"start", "exec", "loop", "stop", "wait"} => joined = {"logger", "server"}

FailedAt == Alive => failed \subseteq {"group", "user"}

InOrder == ThreadAt /\ ObjectsAt /\ JoinedAt /\ FailedAt

ProcessInv == ProcessTypeOK /\ (Alive => InOrder)

-----------------------------------------------------------------------------
(* The initial states have all of it. *)
LEMMA ProcessInitInv == ProcessInit => ProcessInv
<1> SUFFICES ASSUME ProcessInit PROVE ProcessInv
  OBVIOUS
<1>1. ProcessTypeOK
  <2>1. /\ handler \in BOOLEAN
        /\ quitnow \in BOOLEAN
        /\ mStopPlayer \in BOOLEAN
        /\ told \in BOOLEAN
    BY DEF ProcessInit
  <2>2. signals \in 0..MaxSignals
    BY SignalAssumption DEF ProcessInit
  <2> QED BY <2>1, <2>2 DEF ProcessInit, ProcessTypeOK, Steps, Parts
<1>2. InOrder
  BY DEF ProcessInit, InOrder, ThreadAt, ObjectsAt, JoinedAt, FailedAt, Before, StandingAt
<1> QED BY <1>1, <1>2 DEF ProcessInv

(* main's steps before mainloop construct nothing and start no thread. *)
LEMMA PrepareStep == ProcessInv /\ Prepare => ProcessInv'
<1> SUFFICES ASSUME ProcessInv, Prepare PROVE ProcessInv'
  OBVIOUS
<1> USE DEF Goto, End, Fail, Alive, ids, built, thread
<1>1. CASE ParseOptions
  BY <1>1 DEF ParseOptions, ProcessInv, ProcessTypeOK, Steps, Parts, InOrder, ThreadAt,
              ObjectsAt, JoinedAt, FailedAt, Before, StandingAt
<1>2. CASE Configure
  BY <1>2 DEF Configure, ProcessInv, ProcessTypeOK, Steps, Parts, InOrder, ThreadAt,
              ObjectsAt, JoinedAt, FailedAt, Before, StandingAt
<1>3. CASE Dump
  BY <1>3 DEF Dump, ProcessInv, ProcessTypeOK, Steps, Parts, InOrder
<1>4. CASE Fork
  BY <1>4 DEF Fork, ProcessInv, ProcessTypeOK, Steps, Parts, InOrder, ThreadAt, ObjectsAt,
              JoinedAt, FailedAt, Before, StandingAt
<1>5. CASE Change("group", "group", "user")
  BY <1>5 DEF Change, ProcessInv, ProcessTypeOK, Steps, Parts, InOrder, ThreadAt,
              ObjectsAt, JoinedAt, FailedAt, Before, StandingAt
<1>6. CASE Change("user", "user", "handlers")
  BY <1>6 DEF Change, ProcessInv, ProcessTypeOK, Steps, Parts, InOrder, ThreadAt,
              ObjectsAt, JoinedAt, FailedAt, Before, StandingAt
<1>7. CASE InstallHandler
  BY <1>7 DEF InstallHandler, ProcessInv, ProcessTypeOK, Steps, Parts, InOrder, ThreadAt,
              ObjectsAt, JoinedAt, FailedAt, Before, StandingAt
<1> QED BY <1>1, <1>2, <1>3, <1>4, <1>5, <1>6, <1>7 DEF Prepare

(* mainloop's steps up to start() construct one part each. *)
LEMMA ConstructStep == ProcessInv /\ Construct => ProcessInv'
<1> SUFFICES ASSUME ProcessInv, Construct PROVE ProcessInv'
  OBVIOUS
<1> USE DEF Goto, End, Fail, Alive, ids, built, thread, Build, Throw
<1>1. CASE MakeLogger
  BY <1>1 DEF MakeLogger, ProcessInv, ProcessTypeOK, Steps, Parts, InOrder, ThreadAt,
              ObjectsAt, JoinedAt, FailedAt, Before, StandingAt
<1>2. CASE MakeRequests
  BY <1>2 DEF MakeRequests, ProcessInv, ProcessTypeOK, Steps, Parts, InOrder, ThreadAt,
              ObjectsAt, JoinedAt, FailedAt, Before, StandingAt
<1>3. CASE MakeShare
  BY <1>3 DEF MakeShare, ProcessInv, ProcessTypeOK, Steps, Parts, InOrder, ThreadAt,
              ObjectsAt, JoinedAt, FailedAt, Before, StandingAt
<1>4. CASE MakePlayer
  BY <1>4 DEF MakePlayer, ProcessInv, ProcessTypeOK, Steps, Parts, InOrder, ThreadAt,
              ObjectsAt, JoinedAt, FailedAt, Before, StandingAt
<1>5. CASE ReadUsers
  BY <1>5 DEF ReadUsers, ProcessInv, ProcessTypeOK, Steps, Parts, InOrder, ThreadAt,
              ObjectsAt, JoinedAt, FailedAt, Before, StandingAt
<1>6. CASE Listen
  BY <1>6 DEF Listen, ProcessInv, ProcessTypeOK, Steps, Parts, InOrder, ThreadAt,
              ObjectsAt, JoinedAt, FailedAt, Before, StandingAt
<1>7. CASE Connect
  BY <1>7 DEF Connect, ProcessInv, ProcessTypeOK, Steps, Parts, InOrder, ThreadAt,
              ObjectsAt, JoinedAt, FailedAt, Before, StandingAt
<1>8. CASE Start
  BY <1>8 DEF Start, ProcessInv, ProcessTypeOK, Steps, Parts, InOrder, ThreadAt,
              ObjectsAt, JoinedAt, FailedAt, Before, StandingAt
<1> QED BY <1>1, <1>2, <1>3, <1>4, <1>5, <1>6, <1>7, <1>8 DEF Construct

(* After the event loop nothing is destroyed before the thread has ended. *)
LEMMA FinishStep == ProcessInv /\ (Exec \/ Finish) => ProcessInv'
<1> SUFFICES ASSUME ProcessInv, Exec \/ Finish PROVE ProcessInv'
  OBVIOUS
<1> USE DEF Goto, End, Alive, ids, built, thread
<1>1. CASE Exec
  <2>1. ProcessTypeOK'
    BY <1>1 DEF Exec, ProcessInv, ProcessTypeOK, Steps
  <2>2. InOrder'
    BY <1>1 DEF Exec, ProcessInv, InOrder, ThreadAt, ObjectsAt, JoinedAt, FailedAt,
                Before, StandingAt
  <2> QED BY <2>1, <2>2 DEF ProcessInv
<1>2. CASE ExecReturns
  BY <1>2 DEF ExecReturns, ProcessInv, ProcessTypeOK, Steps, Parts, InOrder, ThreadAt,
              ObjectsAt, JoinedAt, FailedAt, Before, StandingAt
<1>3. CASE Stop
  BY <1>3 DEF Stop, ProcessInv, ProcessTypeOK, Steps, Parts, InOrder, ThreadAt, ObjectsAt,
              JoinedAt, FailedAt, Before, StandingAt
<1>4. CASE Wait
  BY <1>4 DEF Wait, ProcessInv, ProcessTypeOK, Steps, Parts, InOrder, ThreadAt, ObjectsAt,
              JoinedAt, FailedAt, Before, StandingAt
<1>5. CASE Unwind
  BY <1>5 DEF Unwind, ProcessInv, ProcessTypeOK, Steps, Parts, InOrder, ThreadAt,
              ObjectsAt, JoinedAt, FailedAt, Before
<1>6. CASE Destroy
  BY <1>6 DEF Destroy, ProcessInv, ProcessTypeOK, Steps, Parts, InOrder
<1> QED BY <1>1, <1>2, <1>3, <1>4, <1>5, <1>6 DEF Finish

(* Signals, clients and the player's thread construct nothing; a thread    *)
(* that was not started, or has ended, does not run.                       *)
LEMMA OtherStep == ProcessInv /\ (ClientQuits \/ Signal \/ Player) => ProcessInv'
<1> SUFFICES ASSUME ProcessInv, ClientQuits \/ Signal \/ Player PROVE ProcessInv'
  OBVIOUS
<1> USE DEF Alive, ids, built, thread
<1>1. CASE ClientQuits
  BY <1>1 DEF ClientQuits, Goto, ProcessInv, ProcessTypeOK, InOrder, ThreadAt, ObjectsAt,
              JoinedAt, FailedAt
<1>2. CASE Signal
  <2>1. Alive' => InOrder'
    BY <1>2 DEF Signal, ProcessInv, InOrder, ThreadAt, ObjectsAt, JoinedAt, FailedAt
  <2>2. quitnow' \in BOOLEAN /\ told' \in BOOLEAN
    BY <1>2 DEF Signal, ProcessInv, ProcessTypeOK
  <2>3. signals' \in 0..MaxSignals
    BY <1>2, SignalAssumption DEF Signal, ProcessInv, ProcessTypeOK
  <2>4. exit' \in {"not", "failure", "zero", "aborted", "killed", "crashed"}
    BY <1>2 DEF Signal, ProcessInv, ProcessTypeOK
  <2> QED BY <1>2, <2>1, <2>2, <2>3, <2>4 DEF Signal, ProcessInv, ProcessTypeOK
<1>3. CASE Player
  <2> USE DEF PlayerStep, ProcessInv, ProcessTypeOK, InOrder, ThreadAt, ObjectsAt, JoinedAt, FailedAt
  <2>1. CASE Ask
    BY <2>1 DEF Ask, Before
  <2>2. CASE Answered
    BY <2>2 DEF Answered, Before
  <2>3. CASE Tell
    BY <2>3 DEF Tell, Before
  <2>4. CASE SongOver
    BY <2>4 DEF SongOver, Before
  <2> QED BY <1>3, <2>1, <2>2, <2>3, <2>4 DEF Player
<1> QED BY <1>1, <1>2, <1>3

(* Every step keeps it. *)
LEMMA ProcessNextInv == ProcessInv /\ [ProcessNext]_processVars => ProcessInv'
<1> SUFFICES ASSUME ProcessInv, [ProcessNext]_processVars PROVE ProcessInv'
  OBVIOUS
<1>1. CASE ProcessNext
  BY <1>1, PrepareStep, ConstructStep, FinishStep, OtherStep DEF ProcessNext, Main
<1>2. CASE UNCHANGED processVars
  BY <1>2 DEF processVars, ids, built, thread, ProcessInv, ProcessTypeOK, Alive, InOrder,
              ThreadAt, ObjectsAt, JoinedAt, FailedAt
<1> QED BY <1>1, <1>2

-----------------------------------------------------------------------------
(***************************************************************************)
(* The life of the process as main.cpp lays it out keeps its invariant.    *)
(***************************************************************************)
LEMMA ProcessHolds == ProcessSpec => []ProcessInv
<1> QED BY ProcessInitInv, ProcessNextInv, PTL DEF ProcessSpec

(***************************************************************************)
(* Every reachable state of the process is well typed, with a step of      *)
(* main or mainloop to stand at.                                           *)
(***************************************************************************)
THEOREM ProcessTyped == ProcessSpec => []ProcessTypeOK
<1>1. ProcessInv => ProcessTypeOK
  BY DEF ProcessInv
<1> QED BY <1>1, ProcessHolds, PTL

(***************************************************************************)
(* While the player's thread runs, the collections, the server and the log *)
(* it works with exist and are connected (main.cpp:78-157), however many   *)
(* signals come and whenever they come.                                    *)
(***************************************************************************)
THEOREM PlayerSafe == ProcessSpec => []PlayerHasAll
<1>1. ProcessInv => PlayerHasAll
  BY DEF ProcessInv, ProcessTypeOK, Steps, InOrder, ThreadAt, ObjectsAt, JoinedAt, Before,
         StandingAt, PlayerHasAll, PlayerRuns
<1> QED BY <1>1, ProcessHolds, PTL

(***************************************************************************)
(* A process that serves has passed over no failure but those of setgid    *)
(* and setuid (main.cpp:162-269).                                          *)
(***************************************************************************)
THEOREM Prepared == ProcessSpec => []ServesPrepared
<1>1. ProcessInv => ServesPrepared
  BY DEF ProcessInv, InOrder, FailedAt, ServesPrepared
<1> QED BY <1>1, ProcessHolds, PTL

-----------------------------------------------------------------------------
(***************************************************************************)
(* The songs.                                                              *)
(***************************************************************************)

(***************************************************************************)
(* An info nobody has seen: whoever is still making it may set its fields. *)
(***************************************************************************)
Unused(i) ==
  /\ mSongInfo # i
  /\ \A t \in Thread : using[t] # i
  /\ ~mXMLValid[i] /\ mInfoNode[i] = NoThread
  /\ \A c \in copies : c.of # i

MakingUnused ==
  /\ mSongInfo = NoThread => \A i \in Thread : Unused(i)
  /\ \A t \in Thread : at[t] \in {"make", "store"} => Unused(t)

(* Who is in AsXML is in that of an info.  *)
UsingInfo ==
  \A t \in Thread :
    /\ at[t] = "use" => mSongInfo \in Thread
    /\ at[t] \in {"test", "node", "append", "validate", "copy"} => using[t] \in Thread
    /\ at[t] = "copy" => mXMLValid[using[t]]
    /\ at[t] \in {"append", "validate"} => mInfoNode[using[t]] \in Thread

InfoTypes ==
  /\ at \in [Thread -> {"idle", "make", "store", "use", "test", "node", "append", "validate",
                        "copy"}]
  /\ using \in [Thread -> Node]
  /\ next \in [Thread -> Nat]
  /\ mSongInfo \in Node
  /\ fields \in [Thread -> Nat]
  /\ mXMLValid \in [Thread -> BOOLEAN]
  /\ mInfoNode \in [Thread -> Node]
  /\ content \in [Thread -> [Thread -> Seq(Nat)]]
  /\ \A c \in copies : c.of \in Thread

(***************************************************************************)
(* The XML of an info that two threads never created at once: one thread   *)
(* at it, with the fields before its next one in its node, and nothing in  *)
(* the others; whole once it is valid.                                     *)
(***************************************************************************)
UpTo(n) == [k \in 1..n |-> k]

AloneAt(i) ==
  /\ \A t, u \in Creating(i) : t = u
  /\ mXMLValid[i] => Creating(i) = {} /\ InNode(i) = Whole(i)
  /\ \A t \in Creating(i) : at[t] \in {"append", "validate"} => mInfoNode[i] = t
  /\ \A t \in Creating(i) :
       /\ at[t] = "append" => next[t] \in 1..(fields[i] + 1)
                              /\ content[i][t] = UpTo(next[t] - 1)
       /\ at[t] = "validate" => content[i][t] = Whole(i)
  /\ ~mXMLValid[i] =>
       \A n \in Thread : \/ content[i][n] = <<>>
                         \/ n \in Creating(i) /\ at[n] \in {"append", "validate"}

AloneInv == \A i \in Thread : i \in torn \/ AloneAt(i)

(***************************************************************************)
(* Whatever others add to it, the node that mInfoNode is now has all that  *)
(* the thread that made it has appended since.                             *)
(***************************************************************************)
StandsAt(i) ==
  LET n == mInfoNode[i] IN
  n \in Thread =>
    IF using[n] = i /\ at[n] = "append"
      THEN \A k \in 1..(next[n] - 1) : \E j \in DOMAIN content[i][n] : content[i][n][j] = k
      ELSE \A k \in 1..fields[i] : \E j \in DOMAIN content[i][n] : content[i][n][j] = k

NodeInv ==
  \A i \in Thread : StandsAt(i) /\ (mXMLValid[i] => mInfoNode[i] \in Thread)

XmlInv == InfoTypes /\ MakingUnused /\ UsingInfo /\ AloneInv /\ NodeInv /\ TornOnlyByTwo

(* Who is at info i: the threads that create its XML. *)
LEMMA CreatingIs ==
  ASSUME NEW i \in Thread, NEW t \in Thread
  PROVE  t \in Creating(i) <=> using[t] = i /\ at[t] \in {"node", "append", "validate"}
BY DEF Creating

LEMMA InfoInitInv == InfoInit => XmlInv
<1> SUFFICES ASSUME InfoInit PROVE XmlInv
  OBVIOUS
<1> USE NoThreadAssumption
<1>1. InfoTypes
  BY DEF InfoInit, InfoTypes, Node
<1>2. MakingUnused /\ UsingInfo
  BY DEF InfoInit, MakingUnused, UsingInfo, Unused
<1>3. AloneInv
  BY DEF InfoInit, AloneInv, AloneAt, Creating
<1>4. NodeInv /\ TornOnlyByTwo
  BY DEF InfoInit, NodeInv, StandsAt, TornOnlyByTwo
<1> QED BY <1>1, <1>2, <1>3, <1>4 DEF XmlInv

(***************************************************************************)
(* An info about which nothing changes but what threads do that are not at *)
(* its XML stays as it was.                                                *)
(***************************************************************************)
Untouched(i) ==
  /\ \A t \in Thread : /\ t \in Creating(i) <=> t \in Creating(i)'
                       /\ t \in Creating(i) => at'[t] = at[t] /\ next'[t] = next[t]
  /\ fields'[i] = fields[i] /\ mXMLValid'[i] = mXMLValid[i]
  /\ mInfoNode'[i] = mInfoNode[i] /\ content'[i] = content[i]

LEMMA UntouchedKeeps ==
  ASSUME NEW i \in Thread, Untouched(i)
  PROVE  /\ AloneAt(i) => AloneAt(i)'
         /\ StandsAt(i) => StandsAt(i)'
<1>1. Creating(i)' = Creating(i)
  BY DEF Untouched, Creating
<1>2. InNode(i)' = InNode(i) /\ Whole(i)' = Whole(i)
  BY DEF Untouched, InNode, Whole
<1>3. AloneAt(i) => AloneAt(i)'
  <2> SUFFICES ASSUME AloneAt(i) PROVE AloneAt(i)'
    OBVIOUS
  <2>1. \A u, v \in Creating(i)' : u = v
    BY <1>1 DEF AloneAt
  <2>2. mXMLValid'[i] => Creating(i)' = {} /\ InNode(i)' = Whole(i)'
    BY <1>1, <1>2 DEF Untouched, AloneAt
  <2>3. ASSUME NEW u \in Creating(i)'
        PROVE  /\ at'[u] \in {"append", "validate"} => mInfoNode'[i] = u
               /\ at'[u] = "append" => next'[u] \in 1..(fields'[i] + 1)
                                       /\ content'[i][u] = UpTo(next'[u] - 1)
               /\ at'[u] = "validate" => content'[i][u] = Whole(i)'
    <3>1. u \in Thread /\ u \in Creating(i)
      BY <2>3, <1>1 DEF Creating
    <3>2. /\ at'[u] = at[u] /\ next'[u] = next[u] /\ content'[i] = content[i]
          /\ mInfoNode'[i] = mInfoNode[i] /\ fields'[i] = fields[i]
      BY <3>1 DEF Untouched
    <3> QED BY <3>1, <3>2, <1>2 DEF AloneAt
  <2>4. ASSUME ~mXMLValid'[i], NEW n \in Thread
        PROVE  \/ content'[i][n] = <<>>
               \/ n \in Creating(i)' /\ at'[n] \in {"append", "validate"}
    BY <2>4, <1>1 DEF Untouched, AloneAt
  <2> QED BY <2>1, <2>2, <2>3, <2>4 DEF AloneAt
<1>4. StandsAt(i) => StandsAt(i)'
  <2>1. \A n \in Thread : using[n] = i /\ at[n] = "append"
                          <=> using'[n] = i /\ at'[n] = "append"
    BY DEF Untouched, Creating
  <2>2. \A n \in Thread : using[n] = i /\ at[n] = "append" => next'[n] = next[n]
    BY DEF Untouched, Creating
  <2> QED BY <2>1, <2>2 DEF Untouched, StandsAt
<1> QED BY <1>3, <1>4

(***************************************************************************)
(* The steps before AsXML touch no XML.                                    *)
(***************************************************************************)
LEMMA GetStep ==
  ASSUME XmlInv, NEW t \in Thread, GetSongInfo(t)
  PROVE  XmlInv'
<1> USE NoThreadAssumption, FieldsAssumption
<1>1. InfoTypes /\ MakingUnused /\ UsingInfo /\ AloneInv /\ NodeInv /\ TornOnlyByTwo
  BY DEF XmlInv
<1>2. at \in [Thread -> {"idle", "make", "store", "use", "test", "node", "append", "validate",
                        "copy"}]
      /\ using \in [Thread -> Node] /\ fields \in [Thread -> Nat]
  BY <1>1 DEF InfoTypes
<1>3. InfoTypes'
  <2> USE <1>1 DEF InfoTypes, Step, infos, xml, infoHistory, Node
  <2>1. CASE TestInfo(t)
    BY <2>1 DEF TestInfo
  <2>2. CASE MakeInfo(t)
    BY <2>2 DEF MakeInfo
  <2>3. CASE StoreInfo(t)
    BY <2>3 DEF StoreInfo
  <2>4. CASE UseInfo(t)
    BY <2>4 DEF UseInfo
  <2> QED BY <2>1, <2>2, <2>3, <2>4 DEF GetSongInfo
<1>4. MakingUnused'
  <2>1. CASE TestInfo(t)
    BY <2>1, <1>1, <1>2 DEF MakingUnused, Unused, TestInfo, Step, infos, xml, infoHistory
  <2>2. CASE MakeInfo(t)
    BY <2>2, <1>1, <1>2 DEF MakingUnused, Unused, MakeInfo, Step, infos, xml, infoHistory
  <2>3. CASE StoreInfo(t)
    BY <2>3, <1>1, <1>2 DEF MakingUnused, Unused, StoreInfo, Step, infos, xml, infoHistory
  <2>4. CASE UseInfo(t)
    BY <2>4, <1>1, <1>2 DEF MakingUnused, Unused, UsingInfo, UseInfo, Step, infos, xml,
                            infoHistory
  <2> QED BY <2>1, <2>2, <2>3, <2>4 DEF GetSongInfo
<1>5. UsingInfo'
  <2>1. CASE TestInfo(t)
    BY <2>1, <1>1, <1>2 DEF UsingInfo, InfoTypes, Node, TestInfo, Step, infos, xml
  <2>2. CASE MakeInfo(t)
    BY <2>2, <1>1, <1>2 DEF UsingInfo, MakeInfo, Step, infos, xml
  <2>3. CASE StoreInfo(t)
    BY <2>3, <1>1, <1>2 DEF UsingInfo, StoreInfo, Step, infos, xml
  <2>4. CASE UseInfo(t)
    BY <2>4, <1>1, <1>2 DEF UsingInfo, UseInfo, Step, infos, xml
  <2> QED BY <2>1, <2>2, <2>3, <2>4 DEF GetSongInfo
<1>6. UNCHANGED <<mXMLValid, mInfoNode, content, next, torn, copies>>
  BY DEF GetSongInfo, TestInfo, MakeInfo, StoreInfo, UseInfo, infos, xml, infoHistory
<1>7. /\ at[t] \in {"idle", "make", "store", "use"}
      /\ at'[t] \in {"make", "store", "use", "test"}
      /\ \A u \in Thread : u # t => at'[u] = at[u] /\ using'[u] = using[u]
  BY <1>2 DEF GetSongInfo, TestInfo, MakeInfo, StoreInfo, UseInfo, Step
<1>8. \A i \in Thread : Creating(i)' = Creating(i)
  BY <1>7 DEF Creating
<1>9. \A i \in Thread : fields'[i] = fields[i] \/ Unused(i)
  BY <1>1, <1>2 DEF GetSongInfo, TestInfo, MakeInfo, StoreInfo, UseInfo, Step, infos,
                    MakingUnused
<1>10. \A i \in Thread : Unused(i) => Creating(i) = {}
  BY DEF Unused, Creating
<1>11. \A i \in Thread : fields'[i] = fields[i] => Untouched(i)
  BY <1>6, <1>7, <1>8 DEF Untouched, Creating
<1>12. AloneInv'
  <2> SUFFICES ASSUME NEW i \in Thread, i \notin torn PROVE AloneAt(i)'
    BY <1>6 DEF AloneInv
  <2>1. AloneAt(i)
    BY <1>1 DEF AloneInv
  <2>2. CASE fields'[i] = fields[i]
    BY <2>1, <2>2, <1>11, UntouchedKeeps
  <2>3. CASE Unused(i)
    BY <2>1, <2>3, <1>6, <1>8, <1>10 DEF AloneAt, Unused
  <2> QED BY <2>2, <2>3, <1>9
<1>13. NodeInv'
  <2> SUFFICES ASSUME NEW i \in Thread
               PROVE  StandsAt(i)' /\ (mXMLValid'[i] => mInfoNode'[i] \in Thread)
    BY DEF NodeInv
  <2>1. StandsAt(i) /\ (mXMLValid[i] => mInfoNode[i] \in Thread)
    BY <1>1 DEF NodeInv
  <2>2. CASE fields'[i] = fields[i]
    BY <2>1, <2>2, <1>6, <1>11, UntouchedKeeps
  <2>3. CASE Unused(i)
    BY <2>1, <2>3, <1>6 DEF StandsAt, Unused
  <2> QED BY <2>2, <2>3, <1>9
<1>14. TornOnlyByTwo'
  <2> SUFFICES ASSUME NEW c \in copies, c.of \notin torn PROVE c.text = Whole(c.of)'
    BY <1>6 DEF TornOnlyByTwo
  <2>1. c.text = Whole(c.of)
    BY <1>1 DEF TornOnlyByTwo
  <2>2. fields'[c.of] = fields[c.of]
    BY <1>1, <1>2 DEF GetSongInfo, TestInfo, MakeInfo, StoreInfo, UseInfo, Step, infos,
                      MakingUnused, Unused, InfoTypes
  <2> QED BY <2>1, <2>2 DEF Whole
<1> QED BY <1>3, <1>4, <1>5, <1>12, <1>13, <1>14 DEF XmlInv

(***************************************************************************)
(* The steps in AsXML are about one info: what is said of another stays,   *)
(* and nothing is made or found out about a song.                          *)
(***************************************************************************)
LEMMA FrameKeeps ==
  ASSUME XmlInv, NEW t \in Thread, NEW info \in Thread, using[t] = info,
         \A i \in Thread : i # info => Untouched(i),
         torn \subseteq torn', UNCHANGED <<mSongInfo, fields, copies>>,
         info \in torn' \/ AloneAt(info)', StandsAt(info)',
         mXMLValid'[info] => mInfoNode'[info] \in Thread
  PROVE  AloneInv' /\ NodeInv' /\ TornOnlyByTwo'
<1>1. AloneInv /\ NodeInv /\ TornOnlyByTwo
  BY DEF XmlInv
<1>2. AloneInv'
  <2> SUFFICES ASSUME NEW i \in Thread, i \notin torn', i # info PROVE AloneAt(i)'
    BY DEF AloneInv
  <2> QED BY <1>1, UntouchedKeeps DEF AloneInv
<1>3. NodeInv'
  <2> SUFFICES ASSUME NEW i \in Thread, i # info
               PROVE  StandsAt(i)' /\ (mXMLValid'[i] => mInfoNode'[i] \in Thread)
    BY DEF NodeInv
  <2> QED BY <1>1, UntouchedKeeps DEF NodeInv, Untouched
<1>4. TornOnlyByTwo'
  BY <1>1 DEF TornOnlyByTwo, Whole
<1> QED BY <1>2, <1>3, <1>4

(* No info that is used can be unused, and none gets unused. *)
LEMMA MakingKeeps ==
  ASSUME XmlInv, NEW t \in Thread, NEW info \in Thread, using[t] = info,
         at[t] \in {"test", "node", "append", "validate", "copy"},
         at'[t] \notin {"make", "store"},
         \A u \in Thread : u # t => at'[u] = at[u],
         UNCHANGED <<mSongInfo, using, copies>>,
         \A i \in Thread : i # info => mXMLValid'[i] = mXMLValid[i] /\ mInfoNode'[i] = mInfoNode[i]
  PROVE  MakingUnused'
<1>1. MakingUnused
  BY DEF XmlInv
<1>2. ASSUME NEW i \in Thread, Unused(i) PROVE Unused(i)' /\ i # info
  BY <1>2 DEF Unused
<1> QED BY <1>1, <1>2 DEF MakingUnused

LEMMA TestStep ==
  ASSUME XmlInv, NEW t \in Thread, TestXML(t)
  PROVE  XmlInv'
<1> DEFINE info == using[t]
<1>1. InfoTypes /\ MakingUnused /\ UsingInfo /\ AloneInv /\ NodeInv /\ TornOnlyByTwo
  BY DEF XmlInv
<1>2. /\ at[t] = "test" /\ info \in Thread
      /\ at' = [at EXCEPT ![t] = IF mXMLValid[info] THEN "copy" ELSE "node"]
      /\ torn' = IF mXMLValid[info] THEN torn ELSE Torn(info, t)
      /\ UNCHANGED <<using, next, mSongInfo, fields, mXMLValid, mInfoNode, content, copies>>
  BY <1>1 DEF TestXML, Step, UsingInfo, infos, xml
<1>3. /\ \A u \in Thread : u # t => at'[u] = at[u]
      /\ at'[t] = IF mXMLValid[info] THEN "copy" ELSE "node"
  BY <1>1, <1>2 DEF InfoTypes
<1>4. InfoTypes'
  BY <1>1, <1>2 DEF InfoTypes
<1>5. MakingUnused'
  BY <1>2, <1>3, MakingKeeps
<1>6. UsingInfo'
  BY <1>1, <1>2, <1>3 DEF UsingInfo
<1>7. \A i \in Thread : i # info => Untouched(i)
  BY <1>2, <1>3 DEF Untouched, Creating
<1>8. torn \subseteq torn'
  BY <1>2 DEF Torn
<1>9. StandsAt(info)' /\ (mXMLValid'[info] => mInfoNode'[info] \in Thread)
  <2>1. \A u \in Thread : at'[u] = "append" <=> at[u] = "append"
    BY <1>2, <1>3
  <2> QED BY <2>1, <1>1, <1>2 DEF NodeInv, StandsAt
<1>10. info \in torn' \/ AloneAt(info)'
  <2> SUFFICES ASSUME info \notin torn' PROVE AloneAt(info)'
    OBVIOUS
  <2>1. AloneAt(info)
    BY <1>1, <1>2, <1>8 DEF AloneInv
  <2>2. CASE mXMLValid[info]
    <3>1. Creating(info)' = Creating(info)
      BY <1>2, <1>3, <2>2 DEF Creating
    <3>2. InNode(info)' = InNode(info) /\ Whole(info)' = Whole(info)
      BY <1>2 DEF InNode, Whole
    <3> QED BY <2>1, <2>2, <3>1, <3>2, <1>2 DEF AloneAt
  <2>3. CASE ~mXMLValid[info]
    <3>1. Creating(info) = {} /\ Creating(info)' = {t}
      BY <1>2, <1>3, <2>3 DEF Creating, Torn
    <3> QED BY <2>1, <2>3, <3>1, <1>2, <1>3 DEF AloneAt
  <2> QED BY <2>2, <2>3
<1>11. AloneInv' /\ NodeInv' /\ TornOnlyByTwo'
  BY <1>2, <1>7, <1>8, <1>9, <1>10, FrameKeeps
<1> QED BY <1>4, <1>5, <1>6, <1>11 DEF XmlInv

LEMMA NodeStep ==
  ASSUME XmlInv, NEW t \in Thread, NewNode(t)
  PROVE  XmlInv'
<1> DEFINE info == using[t]
<1>1. InfoTypes /\ MakingUnused /\ UsingInfo /\ AloneInv /\ NodeInv /\ TornOnlyByTwo
  BY DEF XmlInv
<1>2. /\ at[t] = "node" /\ info \in Thread
      /\ at' = [at EXCEPT ![t] = "append"]
      /\ mInfoNode' = [mInfoNode EXCEPT ![info] = t]
      /\ next' = [next EXCEPT ![t] = 1]
      /\ UNCHANGED <<using, mSongInfo, fields, mXMLValid, content, torn, copies>>
  BY <1>1 DEF NewNode, Step, UsingInfo, infos, infoHistory
<1>3. /\ \A u \in Thread : u # t => at'[u] = at[u] /\ next'[u] = next[u]
      /\ \A i \in Thread : i # info => mInfoNode'[i] = mInfoNode[i]
      /\ at'[t] = "append" /\ next'[t] = 1 /\ mInfoNode'[info] = t
  BY <1>1, <1>2 DEF InfoTypes
<1>4. InfoTypes'
  BY <1>1, <1>2 DEF InfoTypes, Node
<1>5. MakingUnused'
  BY <1>2, <1>3, MakingKeeps
<1>6. UsingInfo'
  BY <1>1, <1>2, <1>3 DEF UsingInfo
<1>7. \A i \in Thread : i # info => Untouched(i)
  BY <1>2, <1>3 DEF Untouched, Creating
<1>8. StandsAt(info)' /\ (mXMLValid'[info] => mInfoNode'[info] \in Thread)
  BY <1>2, <1>3 DEF StandsAt
<1>9. info \in torn' \/ AloneAt(info)'
  <2> SUFFICES ASSUME info \notin torn PROVE AloneAt(info)'
    BY <1>2
  <2>1. AloneAt(info)
    BY <1>1, <1>2 DEF AloneInv
  <2>2. t \in Creating(info) /\ Creating(info)' = Creating(info)
    BY <1>2, <1>3 DEF Creating
  <2>3. Creating(info) = {t} /\ ~mXMLValid[info]
    BY <2>1, <2>2 DEF AloneAt
  <2>4. content[info][t] = <<>>
    BY <2>1, <2>3, <1>2 DEF AloneAt
  <2>5. UpTo(next'[t] - 1) = <<>> /\ next'[t] \in 1..(fields'[info] + 1)
    BY <1>1, <1>2, <1>3 DEF UpTo, InfoTypes
  <2> QED BY <2>1, <2>2, <2>3, <2>4, <2>5, <1>2, <1>3 DEF AloneAt
<1>10. AloneInv' /\ NodeInv' /\ TornOnlyByTwo'
  BY <1>2, <1>7, <1>8, <1>9, FrameKeeps
<1> QED BY <1>4, <1>5, <1>6, <1>10 DEF XmlInv

LEMMA AppendStep ==
  ASSUME XmlInv, NEW t \in Thread, AppendField(t)
  PROVE  XmlInv'
<1> DEFINE info == using[t]
           n == mInfoNode[info]
           had == content[info][n]
<1>1. InfoTypes /\ MakingUnused /\ UsingInfo /\ AloneInv /\ NodeInv /\ TornOnlyByTwo
  BY DEF XmlInv
<1>2. /\ at[t] = "append" /\ info \in Thread /\ n \in Thread
      /\ at' = [at EXCEPT ![t] = "append"]
      /\ next[t] <= fields[info]
      /\ content' = [content EXCEPT ![info][n] = Append(had, next[t])]
      /\ next' = [next EXCEPT ![t] = next[t] + 1]
      /\ UNCHANGED <<using, mSongInfo, fields, mXMLValid, mInfoNode, torn, copies>>
  BY <1>1 DEF AppendField, Step, UsingInfo, infos, infoHistory
<1>3. /\ at' = at /\ next[t] \in Nat /\ fields[info] \in Nat
      /\ \A u \in Thread : u # t => next'[u] = next[u]
      /\ next'[t] = next[t] + 1
      /\ had \in Seq(Nat) /\ content'[info][n] = Append(had, next[t])
      /\ \A m \in Thread : m # n => content'[info][m] = content[info][m]
      /\ \A i \in Thread : i # info => content'[i] = content[i]
  BY <1>1, <1>2 DEF InfoTypes
<1>4. InfoTypes'
  <2> DEFINE more == Append(had, next[t])
  <2>1. more \in Seq(Nat)
    BY <1>3
  <2>2. content' = [content EXCEPT ![info][n] = more]
    BY <1>2
  <2> HIDE DEF more
  <2>3. content' \in [Thread -> [Thread -> Seq(Nat)]]
    <3> DEFINE row == [content[info] EXCEPT ![n] = more]
    <3>1. content \in [Thread -> [Thread -> Seq(Nat)]]
      BY <1>1 DEF InfoTypes
    <3>2. row \in [Thread -> Seq(Nat)]
      BY <3>1, <2>1, <1>2
    <3>3. content' = [content EXCEPT ![info] = row]
      BY <2>2, <3>1, <1>2
    <3> HIDE DEF row
    <3> QED BY <3>1, <3>2, <3>3
  <2>4. next' \in [Thread -> Nat]
    <3>1. next \in [Thread -> Nat]
      BY ONLY <1>1, Zenon DEF InfoTypes
    <3>0. next[t] + 1 \in Nat
      BY <1>3
    <3>2. next' = [next EXCEPT ![t] = next[t] + 1]
      BY <1>2
    <3> QED BY ONLY <3>0, <3>1, <3>2
  <2> QED BY <2>3, <2>4, <1>1, <1>2, <1>3 DEF InfoTypes
<1>5. MakingUnused'
  BY <1>2, <1>3, MakingKeeps
<1>6. UsingInfo'
  BY <1>1, <1>2, <1>3 DEF UsingInfo
<1>7. \A i \in Thread : i # info => Untouched(i)
  BY <1>2, <1>3 DEF Untouched, Creating
<1>8. /\ \A j \in DOMAIN had : j \in DOMAIN content'[info][n] /\ content'[info][n][j] = had[j]
      /\ Len(had) + 1 \in DOMAIN content'[info][n]
      /\ content'[info][n][Len(had) + 1] = next[t]
  <2> DEFINE q == had
             r == content'[info][n]
             k == next[t]
  <2>1. q \in Seq(Nat) /\ k \in Nat /\ r = Append(q, k)
    BY <1>3
  <2> HIDE DEF q, r, k
  <2>2. /\ \A j \in DOMAIN q : j \in DOMAIN r /\ r[j] = q[j]
        /\ Len(q) + 1 \in DOMAIN r /\ r[Len(q) + 1] = k
    BY ONLY <2>1
  <2> QED BY <2>2 DEF q, r, k
<1>9. StandsAt(info)'
  <2> DEFINE r == content'[info][n]
  <2>1. StandsAt(info)
    BY <1>1, <1>2 DEF NodeInv
  <2>2. \A k : (\E j \in DOMAIN had : had[j] = k) => \E j \in DOMAIN r : r[j] = k
    BY <1>8
  <2>3. \E j \in DOMAIN r : r[j] = next[t]
    BY <1>8
  <2> HIDE DEF r
  <2>4. using[n] = info /\ at[n] = "append" =>
          \A k \in 1..(next'[n] - 1) : \E j \in DOMAIN r : r[j] = k
    <3> SUFFICES ASSUME using[n] = info, at[n] = "append", NEW k \in 1..(next'[n] - 1)
                 PROVE  \E j \in DOMAIN r : r[j] = k
      OBVIOUS
    <3>1. CASE k \in 1..(next[n] - 1)
      BY <3>1, <2>1, <2>2, <1>2 DEF StandsAt
    <3>2. CASE k \notin 1..(next[n] - 1)
      <4>1. n = t
        BY <3>2, <1>2, <1>3
      <4>2. k = next[t]
        BY <4>1, <3>2, <1>3
      <4> QED BY <4>2, <2>3
    <3> QED BY <3>1, <3>2
  <2>5. ~(using[n] = info /\ at[n] = "append") =>
          \A k \in 1..fields[info] : \E j \in DOMAIN r : r[j] = k
    BY <2>1, <2>2, <1>2 DEF StandsAt
  <2>6. using'[t] = info /\ mInfoNode'[info] = n /\ at' = at /\ using' = using
        /\ fields' = fields
    BY <1>2, <1>3
  <2> QED BY <2>4, <2>5, <2>6 DEF StandsAt, r
<1>10. info \in torn' \/ AloneAt(info)'
  <2> SUFFICES ASSUME info \notin torn PROVE AloneAt(info)'
    BY <1>2
  <2>1. AloneAt(info)
    BY <1>1, <1>2 DEF AloneInv
  <2>2. t \in Creating(info) /\ Creating(info)' = Creating(info)
    BY <1>2, <1>3 DEF Creating
  <2>3. Creating(info) = {t} /\ ~mXMLValid[info] /\ n = t
    BY <2>1, <2>2, <1>2 DEF AloneAt
  <2>4. had = UpTo(next[t] - 1) /\ next[t] \in 1..(fields[info] + 1)
    BY <2>1, <2>3, <1>2 DEF AloneAt
  <2>5. Append(UpTo(next[t] - 1), next[t]) = UpTo(next[t] + 1 - 1)
    <3> DEFINE x == next[t] - 1
    <3>1. x \in Nat /\ next[t] = x + 1 /\ next[t] + 1 - 1 = x + 1
      BY <1>3, <2>4
    <3> HIDE DEF x
    <3>2. UpTo(x) \in Seq(Nat) /\ UpTo(x + 1) \in Seq(Nat)
      BY <3>1 DEF UpTo
    <3>3. Len(UpTo(x)) = x /\ Len(UpTo(x + 1)) = x + 1
      BY <3>1 DEF UpTo
    <3>4. Append(UpTo(x), x + 1) \in Seq(Nat) /\ Len(Append(UpTo(x), x + 1)) = x + 1
      BY <3>1, <3>2, <3>3
    <3>5. \A j \in 1..(x + 1) : Append(UpTo(x), x + 1)[j] = UpTo(x + 1)[j]
      BY <3>1, <3>2, <3>3 DEF UpTo
    <3>6. Append(UpTo(x), x + 1) = UpTo(x + 1)
      BY <3>2, <3>3, <3>4, <3>5, SeqEqual
    <3> QED BY <3>1, <3>6
  <2>6. content'[info][t] = UpTo(next'[t] - 1)
    BY <2>3, <2>4, <2>5, <1>3
  <2>7. next'[t] \in 1..(fields'[info] + 1)
    BY <2>4, <1>2, <1>3
  <2> QED BY <2>1, <2>2, <2>3, <2>6, <2>7, <1>2, <1>3 DEF AloneAt
<1>11. AloneInv' /\ NodeInv' /\ TornOnlyByTwo'
  BY <1>2, <1>7, <1>9, <1>10, FrameKeeps
<1> QED BY <1>4, <1>5, <1>6, <1>11 DEF XmlInv

LEMMA AppendedStep ==
  ASSUME XmlInv, NEW t \in Thread, AllAppended(t)
  PROVE  XmlInv'
<1> DEFINE info == using[t]
<1>1. InfoTypes /\ MakingUnused /\ UsingInfo /\ AloneInv /\ NodeInv /\ TornOnlyByTwo
  BY DEF XmlInv
<1>2. /\ at[t] = "append" /\ info \in Thread
      /\ at' = [at EXCEPT ![t] = "validate"]
      /\ next[t] > fields[info]
      /\ UNCHANGED <<using, next, mSongInfo, fields, mXMLValid, mInfoNode, content, torn, copies>>
  BY <1>1 DEF AllAppended, Step, UsingInfo, infos, xml, infoHistory
<1>3. /\ \A u \in Thread : u # t => at'[u] = at[u]
      /\ at'[t] = "validate" /\ next[t] \in Nat /\ fields[info] \in Nat
  BY <1>1, <1>2 DEF InfoTypes
<1>4. InfoTypes'
  BY <1>1, <1>2 DEF InfoTypes
<1>5. MakingUnused'
  BY <1>2, <1>3, MakingKeeps
<1>6. UsingInfo'
  BY <1>1, <1>2, <1>3 DEF UsingInfo
<1>7. \A i \in Thread : i # info => Untouched(i)
  BY <1>2, <1>3 DEF Untouched, Creating
<1>8. StandsAt(info)' /\ (mXMLValid'[info] => mInfoNode'[info] \in Thread)
  <2>1. StandsAt(info) /\ (mXMLValid[info] => mInfoNode[info] \in Thread)
    BY <1>1, <1>2 DEF NodeInv
  <2>2. CASE mInfoNode[info] # t
    BY <2>1, <2>2, <1>2, <1>3 DEF StandsAt
  <2>3. CASE mInfoNode[info] = t
    BY <2>1, <2>3, <1>2, <1>3 DEF StandsAt
  <2> QED BY <2>1, <2>2, <2>3, <1>2
<1>9. info \in torn' \/ AloneAt(info)'
  <2> SUFFICES ASSUME info \notin torn PROVE AloneAt(info)'
    BY <1>2
  <2>1. AloneAt(info)
    BY <1>1, <1>2 DEF AloneInv
  <2>2. t \in Creating(info) /\ Creating(info)' = Creating(info)
    BY <1>2, <1>3 DEF Creating
  <2>3. Creating(info) = {t} /\ ~mXMLValid[info] /\ mInfoNode[info] = t
    BY <2>1, <2>2, <1>2 DEF AloneAt
  <2>4. content[info][t] = UpTo(next[t] - 1) /\ next[t] - 1 = fields[info]
    BY <2>1, <2>2, <1>2, <1>3 DEF AloneAt
  <2>5. content'[info][t] = Whole(info)'
    BY <2>4, <1>2 DEF Whole, UpTo
  <2> QED BY <2>1, <2>2, <2>3, <2>5, <1>2, <1>3 DEF AloneAt
<1>10. AloneInv' /\ NodeInv' /\ TornOnlyByTwo'
  BY <1>2, <1>7, <1>8, <1>9, FrameKeeps
<1> QED BY <1>4, <1>5, <1>6, <1>10 DEF XmlInv

LEMMA ValidateStep ==
  ASSUME XmlInv, NEW t \in Thread, Validate(t)
  PROVE  XmlInv'
<1> DEFINE info == using[t]
<1>1. InfoTypes /\ MakingUnused /\ UsingInfo /\ AloneInv /\ NodeInv /\ TornOnlyByTwo
  BY DEF XmlInv
<1>2. /\ at[t] = "validate" /\ info \in Thread /\ mInfoNode[info] \in Thread
      /\ at' = [at EXCEPT ![t] = "copy"]
      /\ mXMLValid' = [mXMLValid EXCEPT ![info] = TRUE]
      /\ UNCHANGED <<using, next, mSongInfo, fields, mInfoNode, content, torn, copies>>
  BY <1>1 DEF Validate, Step, UsingInfo, infos, infoHistory
<1>3. /\ \A u \in Thread : u # t => at'[u] = at[u]
      /\ at'[t] = "copy" /\ mXMLValid'[info] = TRUE
      /\ \A i \in Thread : i # info => mXMLValid'[i] = mXMLValid[i]
  BY <1>1, <1>2 DEF InfoTypes
<1>4. InfoTypes'
  BY <1>1, <1>2 DEF InfoTypes
<1>5. MakingUnused'
  BY <1>2, <1>3, MakingKeeps
<1>6. UsingInfo'
  BY <1>1, <1>2, <1>3 DEF UsingInfo
<1>7. \A i \in Thread : i # info => Untouched(i)
  BY <1>2, <1>3 DEF Untouched, Creating
<1>8. StandsAt(info)' /\ (mXMLValid'[info] => mInfoNode'[info] \in Thread)
  <2>1. StandsAt(info)
    BY <1>1, <1>2 DEF NodeInv
  <2>2. \A u \in Thread : at'[u] = "append" <=> at[u] = "append"
    BY <1>2, <1>3
  <2> QED BY <2>1, <2>2, <1>2 DEF StandsAt
<1>9. info \in torn' \/ AloneAt(info)'
  <2> SUFFICES ASSUME info \notin torn PROVE AloneAt(info)'
    BY <1>2
  <2>1. AloneAt(info)
    BY <1>1, <1>2 DEF AloneInv
  <2>2. t \in Creating(info)
    BY <1>2 DEF Creating
  <2>3. Creating(info) = {t} /\ mInfoNode[info] = t /\ content[info][t] = Whole(info)
    BY <2>1, <2>2, <1>2 DEF AloneAt
  <2>4. Creating(info)' = {}
    BY <2>3, <1>2, <1>3 DEF Creating
  <2>5. InNode(info)' = Whole(info)'
    BY <2>3, <1>2, NoThreadAssumption DEF InNode, Whole
  <2> QED BY <2>4, <2>5, <1>2, <1>3 DEF AloneAt
<1>10. AloneInv' /\ NodeInv' /\ TornOnlyByTwo'
  BY <1>2, <1>7, <1>8, <1>9, FrameKeeps
<1> QED BY <1>4, <1>5, <1>6, <1>10 DEF XmlInv

LEMMA CopyStep ==
  ASSUME XmlInv, NEW t \in Thread, Copy(t)
  PROVE  XmlInv'
<1> DEFINE info == using[t]
           copy == [of |-> info, text |-> InNode(info), seen |-> file]
<1>1. InfoTypes /\ MakingUnused /\ UsingInfo /\ AloneInv /\ NodeInv /\ TornOnlyByTwo
  BY DEF XmlInv
<1>2. /\ at[t] = "copy" /\ info \in Thread /\ mXMLValid[info]
      /\ at' = [at EXCEPT ![t] = "idle"]
      /\ using' = [using EXCEPT ![t] = NoThread]
      /\ copies' = copies \cup {copy}
      /\ UNCHANGED <<next, mSongInfo, fields, mXMLValid, mInfoNode, content, torn>>
  BY <1>1 DEF Copy, Step, UsingInfo, infos, xml
<1>3. /\ \A u \in Thread : u # t => at'[u] = at[u] /\ using'[u] = using[u]
      /\ at'[t] = "idle" /\ using'[t] = NoThread
  BY <1>1, <1>2 DEF InfoTypes
<1>4. InfoTypes'
  BY <1>1, <1>2 DEF InfoTypes, Node
<1>5. MakingUnused'
  <2>1. ASSUME NEW i \in Thread, Unused(i) PROVE Unused(i)'
    <3>1. i # info /\ i # NoThread
      BY <2>1, NoThreadAssumption DEF Unused
    <3> QED BY <2>1, <3>1, <1>2, <1>3 DEF Unused
  <2> QED BY <2>1, <1>1, <1>2, <1>3 DEF MakingUnused
<1>6. UsingInfo'
  BY <1>1, <1>2, <1>3 DEF UsingInfo
<1>7. \A i \in Thread : Untouched(i)
  BY <1>2, <1>3 DEF Untouched, Creating
<1>8. AloneInv'
  BY <1>1, <1>2, <1>7, UntouchedKeeps DEF AloneInv
<1>9. NodeInv'
  BY <1>1, <1>2, <1>7, UntouchedKeeps DEF NodeInv
<1>10. TornOnlyByTwo'
  <2>1. InNode(info) = Whole(info) \/ info \in torn
    BY <1>1, <1>2 DEF AloneInv, AloneAt
  <2>2. copy.text = Whole(copy.of) \/ copy.of \in torn
    BY <2>1
  <2>3. \A c \in copies' : c.text = Whole(c.of) \/ c.of \in torn
    BY <2>2, <1>1, <1>2 DEF TornOnlyByTwo
  <2> QED BY <2>3, <1>2 DEF TornOnlyByTwo, Whole
<1> QED BY <1>4, <1>5, <1>6, <1>8, <1>9, <1>10 DEF XmlInv

LEMMA InfoNextInv == XmlInv /\ [InfoNext]_infoVars => XmlInv'
<1> SUFFICES ASSUME XmlInv, [InfoNext]_infoVars PROVE XmlInv'
  OBVIOUS
<1>1. ASSUME NEW t \in Thread, GetSongInfo(t) PROVE XmlInv'
  BY <1>1, GetStep
<1>2. ASSUME NEW t \in Thread, AsXML(t) PROVE XmlInv'
  BY <1>2, TestStep, NodeStep, AppendStep, AppendedStep, ValidateStep, CopyStep
  DEF AsXML, CreateXML
<1>3. ASSUME UNCHANGED <<at, using, next, mSongInfo, fields, mXMLValid, mInfoNode, content, torn,
                         copies>>
      PROVE  XmlInv'
  <2>1. \A i \in Thread : Untouched(i)
    BY <1>3 DEF Untouched, Creating
  <2>2. InfoTypes' /\ MakingUnused' /\ UsingInfo'
    BY <1>3 DEF XmlInv, InfoTypes, MakingUnused, Unused, UsingInfo
  <2>3. AloneInv' /\ NodeInv'
    BY <1>3, <2>1, UntouchedKeeps DEF XmlInv, AloneInv, NodeInv
  <2>4. TornOnlyByTwo'
    BY <1>3 DEF XmlInv, TornOnlyByTwo, Whole
  <2> QED BY <2>2, <2>3, <2>4 DEF XmlInv
<1>4. ASSUME NEW kind, ChangeFile(kind) PROVE XmlInv'
  BY <1>3, <1>4 DEF ChangeFile, infos, xml, infoHistory
<1>5. CASE UNCHANGED infoVars
  BY <1>3, <1>5 DEF infoVars, infos, xml, infoHistory
<1> QED BY <1>1, <1>2, <1>4, <1>5 DEF InfoNext

LEMMA XmlHolds == InfoSpec => []XmlInv
<1> QED BY InfoInitInv, InfoNextInv, PTL DEF InfoSpec

(***************************************************************************)
(* A caller gets each field once and in order, unless two threads were     *)
(* creating the XML of that info at once: for any number of threads.       *)
(***************************************************************************)
THEOREM TwoToTear == InfoSpec => []TornOnlyByTwo
<1>1. XmlInv => TornOnlyByTwo
  BY DEF XmlInv
<1> QED BY <1>1, XmlHolds, PTL

(***************************************************************************)
(* XML that nobody is creating any more has all of the info's fields.      *)
(***************************************************************************)
THEOREM SettlesComplete == InfoSpec => []SettledComplete
<1>1. XmlInv => SettledComplete
  <2> SUFFICES ASSUME XmlInv, NEW i \in Thread, mXMLValid[i], Creating(i) = {}
               PROVE  1..fields[i] \subseteq Range(InNode(i))
    BY DEF SettledComplete
  <2> DEFINE n == mInfoNode[i]
  <2>1. n \in Thread /\ StandsAt(i)
    BY DEF XmlInv, NodeInv
  <2>2. ~(using[n] = i /\ at[n] = "append")
    BY <2>1 DEF Creating
  <2>3. \A k \in 1..fields[i] : \E j \in DOMAIN content[i][n] : content[i][n][j] = k
    BY <2>1, <2>2 DEF StandsAt
  <2>4. InNode(i) = content[i][n]
    BY <2>1, NoThreadAssumption DEF InNode
  <2> QED BY <2>3, <2>4 DEF Range
<1> QED BY <1>1, XmlHolds, PTL

(***************************************************************************)
(* The rest of the types: the numbers of the fields, and the world.        *)
(***************************************************************************)
FieldsInv ==
  /\ next \in [Thread -> 1..(Fields + 1)]
  /\ fields \in [Thread -> 0..Fields]
  /\ content \in [Thread -> [Thread -> Text]]
  /\ file \in {"tagged", "foreign", "unreadable"}
  /\ changes \in 0..MaxChanges
  /\ calls \in [Thread -> 0..MaxCalls]
  /\ crashed \in BOOLEAN
  /\ torn \subseteq Thread
  /\ copies \subseteq [of : Thread, text : Text, seen : {"tagged", "foreign", "unreadable"}]

LEMMA FieldsInit == InfoInit => FieldsInv
<1> SUFFICES ASSUME InfoInit PROVE FieldsInv
  OBVIOUS
<1>1. <<>> \in Text
  BY DEF Text
<1>2. content \in [Thread -> [Thread -> Text]]
  BY <1>1 DEF InfoInit
<1>3. /\ next \in [Thread -> 1..(Fields + 1)]
      /\ fields \in [Thread -> 0..Fields]
      /\ calls \in [Thread -> 0..MaxCalls]
  BY FieldsAssumption DEF InfoInit
<1>4. changes \in 0..MaxChanges
  BY FieldsAssumption DEF InfoInit
<1> QED BY <1>2, <1>3, <1>4 DEF InfoInit, FieldsInv

LEMMA FieldsStep ==
  ASSUME XmlInv, FieldsInv, [InfoNext]_infoVars
  PROVE  FieldsInv'
<1>0. InfoTypes /\ UsingInfo /\ NodeInv
  BY DEF XmlInv
<1> USE DEF FieldsInv
<1>1. ASSUME NEW t \in Thread, TestInfo(t) PROVE FieldsInv'
  <2>1. calls' \in [Thread -> 0..MaxCalls]
    BY <1>1, FieldsAssumption DEF TestInfo
  <2> QED BY <1>1, <2>1 DEF TestInfo, infos, xml, world, infoHistory
<1>2. ASSUME NEW t \in Thread, MakeInfo(t) PROVE FieldsInv'
  <2>1. fields' \in [Thread -> 0..Fields] /\ crashed' \in BOOLEAN
    BY <1>2, FieldsAssumption DEF MakeInfo
  <2> QED BY <1>2, <2>1 DEF MakeInfo, xml, world, infoHistory
<1>3. ASSUME NEW t \in Thread, StoreInfo(t) \/ UseInfo(t) \/ AllAppended(t) \/ Validate(t)
      PROVE FieldsInv'
  BY <1>3 DEF StoreInfo, UseInfo, AllAppended, Validate, infos, xml, world, infoHistory
<1>4. ASSUME NEW t \in Thread, TestXML(t) PROVE FieldsInv'
  <2>1. using[t] \in Thread
    BY <1>0, <1>4 DEF TestXML, Step, UsingInfo
  <2>2. torn' \subseteq Thread
    BY <1>4, <2>1 DEF TestXML, Torn
  <2> QED BY <1>4, <2>2 DEF TestXML, infos, xml, world
<1>5. ASSUME NEW t \in Thread, NewNode(t) PROVE FieldsInv'
  <2>1. next' \in [Thread -> 1..(Fields + 1)]
    BY <1>5, FieldsAssumption DEF NewNode
  <2> QED BY <1>5, <2>1 DEF NewNode, infos, world, infoHistory
<1>6. ASSUME NEW t \in Thread, AppendField(t) PROVE FieldsInv'
  <2> DEFINE info == using[t]
             n    == mInfoNode[info]
             more == Append(content[info][n], next[t])
  <2>1. info \in Thread /\ n \in Thread
    BY <1>0, <1>6 DEF AppendField, Step, UsingInfo
  <2>2. next[t] \in 1..Fields /\ next[t] + 1 \in 1..(Fields + 1)
    BY <1>6, <2>1, FieldsAssumption DEF AppendField
  <2>3. content[info][n] \in Seq(1..Fields)
    BY <2>1 DEF Text
  <2>4. more \in Text
    BY <2>2, <2>3 DEF Text
  <2>5. content' = [content EXCEPT ![info][n] = more] /\ next' = [next EXCEPT ![t] = next[t] + 1]
    BY <1>6 DEF AppendField
  <2> HIDE DEF more, n, info
  <2>6. content' \in [Thread -> [Thread -> Text]]
    <3> DEFINE row == [content[info] EXCEPT ![n] = more]
    <3>1. row \in [Thread -> Text]
      BY <2>1, <2>4
    <3>2. content' = [content EXCEPT ![info] = row]
      BY <2>1, <2>5
    <3> HIDE DEF row
    <3> QED BY <2>1, <3>1, <3>2
  <2>7. next' \in [Thread -> 1..(Fields + 1)]
    BY <2>2, <2>5
  <2> QED BY <1>6, <2>6, <2>7 DEF AppendField, infos, world, infoHistory
<1>7. ASSUME NEW t \in Thread, Copy(t) PROVE FieldsInv'
  <2>1. using[t] \in Thread
    BY <1>0, <1>7 DEF Copy, Step, UsingInfo
  <2>2. InNode(using[t]) \in Text
    <3>1. <<>> \in Text
      BY DEF Text
    <3>2. mInfoNode[using[t]] \in Node
      BY <1>0, <2>1 DEF InfoTypes
    <3> QED BY <2>1, <3>1, <3>2 DEF InNode, Node
  <2>3. copies' \subseteq [of : Thread, text : Text, seen : {"tagged", "foreign", "unreadable"}]
    BY <1>7, <2>1, <2>2 DEF Copy
  <2> QED BY <1>7, <2>3 DEF Copy, infos, xml, world
<1>8. ASSUME NEW kind \in {"tagged", "unreadable"}, ChangeFile(kind) PROVE FieldsInv'
  BY <1>8, FieldsAssumption DEF ChangeFile, infos, xml, infoHistory
<1>9. CASE UNCHANGED infoVars
  BY <1>9 DEF infoVars, infos, xml, world, infoHistory
<1> QED
  BY <1>1, <1>2, <1>3, <1>4, <1>5, <1>6, <1>7, <1>8, <1>9
     DEF InfoNext, GetSongInfo, AsXML, CreateXML

(***************************************************************************)
(* Every reachable state of a song's info is well typed: whatever threads  *)
(* race, what is copied are fields of the info.                            *)
(***************************************************************************)
THEOREM InfoTyped == InfoSpec => []InfoTypeOK
<1>1. XmlInv /\ FieldsInv /\ [InfoNext]_infoVars => FieldsInv'
  BY FieldsStep
<1>2. XmlInv /\ FieldsInv => InfoTypeOK
  BY Zenon DEF XmlInv, InfoTypes, FieldsInv, InfoTypeOK
<1> QED BY <1>1, <1>2, FieldsInit, XmlHolds, PTL DEF InfoSpec
=============================================================================
