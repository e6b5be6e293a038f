---------------------------- MODULE InboxProofs ----------------------------
(***************************************************************************)
(* Proofs about Inbox, for every set of groups and of messages and every   *)
(* bound: the types, a message that is not read is counted, a reading is   *)
(* never turned back, the state sync takes each output once and forgets no *)
(* time, and a group with a message is on the list.                        *)
(***************************************************************************)
EXTENDS Inbox, SequenceTheorems, FiniteSetTheorems, TLAPS

-----------------------------------------------------------------------------
(* The list of the groups.                                                 *)

\* There is room for every group.
Fits == IsFiniteSet(Group) /\ Cardinality(Group) <= ListSize

\* An element taken out of a sequence: what is behind it moves up.
LEMMA TakenOut ==
    ASSUME NEW s \in Seq(Group), NEW i \in DOMAIN s
    PROVE  /\ RemoveAt(s, i) \in Seq(Group)
           /\ Len(RemoveAt(s, i)) = Len(s) - 1
           /\ \A k \in 1..Len(s) - 1 : RemoveAt(s, i)[k] = IF k < i THEN s[k] ELSE s[k + 1]
<1> DEFINE front == SubSeq(s, 1, i - 1)
           back  == SubSeq(s, i + 1, Len(s))
<1>1. i \in 1..Len(s) /\ Len(s) \in Nat
  BY LenProperties
<1>2. \A k \in 1..Len(s) : s[k] \in Group
  BY ElementOfSeq
<1>3. /\ front \in Seq(Group) /\ Len(front) = i - 1
      /\ \A k \in 1..i - 1 : front[k] = s[k]
  <2>1. \A k \in 1..i - 1 : s[k] \in Group
    BY <1>1, <1>2
  <2> QED
    BY <2>1, <1>1, SubSeqProperties
<1>4. /\ back \in Seq(Group) /\ Len(back) = Len(s) - i
      /\ \A k \in 1..Len(s) - i : back[k] = s[k + i]
  <2>1. \A k \in i + 1..Len(s) : s[k] \in Group
    BY <1>1, <1>2
  <2> QED
    BY <2>1, <1>1, SubSeqProperties
<1>5. RemoveAt(s, i) = front \o back
  BY DEF RemoveAt
<1> HIDE DEF front, back
<1>6. /\ front \o back \in Seq(Group)
      /\ Len(front \o back) = Len(front) + Len(back)
      /\ \A k \in 1..Len(front) + Len(back) :
             (front \o back)[k] = IF k <= Len(front) THEN front[k] ELSE back[k - Len(front)]
  BY <1>3, <1>4, ConcatProperties
<1>7. ASSUME NEW k \in 1..Len(s) - 1
      PROVE  (front \o back)[k] = IF k < i THEN s[k] ELSE s[k + 1]
  <2>1. k \in 1..Len(front) + Len(back)
    BY <1>1, <1>3, <1>4
  <2>2. ASSUME k < i PROVE (front \o back)[k] = s[k]
    BY <2>1, <2>2, <1>1, <1>3, <1>6
  <2>3. ASSUME ~(k < i) PROVE (front \o back)[k] = s[k + 1]
    <3>1. (front \o back)[k] = back[k - Len(front)]
      BY <2>1, <2>3, <1>1, <1>3, <1>6
    <3>2. k - Len(front) \in 1..Len(s) - i /\ k - Len(front) + i = k + 1
      BY <2>3, <1>1, <1>3
    <3> QED
      BY <3>1, <3>2, <1>1, <1>4, <2>3
  <2> QED
    BY <2>2, <2>3
<1>8. Len(front) + Len(back) = Len(s) - 1
  BY <1>1, <1>3, <1>4
<1> QED
  BY <1>5, <1>6, <1>7, <1>8

\* An element put into a sequence: what is behind it moves down.
LEMMA PutIn ==
    ASSUME NEW s \in Seq(Group), NEW g \in Group, NEW i \in 1..Len(s) + 1
    PROVE  /\ InsertAt(s, i, g) \in Seq(Group)
           /\ Len(InsertAt(s, i, g)) = Len(s) + 1
           /\ \A k \in 1..Len(s) + 1 :
                  InsertAt(s, i, g)[k] = IF k < i THEN s[k] ELSE IF k = i THEN g ELSE s[k - 1]
<1> DEFINE front == SubSeq(s, 1, i - 1)
           back  == SubSeq(s, i, Len(s))
           half  == front \o <<g>>
<1>1. i \in Nat /\ i >= 1 /\ Len(s) \in Nat /\ i <= Len(s) + 1
  BY LenProperties
<1>2. \A k \in 1..Len(s) : s[k] \in Group
  BY ElementOfSeq
<1>3. /\ front \in Seq(Group) /\ Len(front) = i - 1
      /\ \A k \in 1..i - 1 : front[k] = s[k]
  <2>1. \A k \in 1..i - 1 : s[k] \in Group
    BY <1>1, <1>2
  <2> QED
    BY <2>1, <1>1, SubSeqProperties
<1>4. /\ back \in Seq(Group) /\ Len(back) = Len(s) - i + 1
      /\ \A k \in 1..Len(s) - i + 1 : back[k] = s[k + i - 1]
  <2>1. \A k \in i..Len(s) : s[k] \in Group
    BY <1>1, <1>2
  <2> QED
    BY <2>1, <1>1, SubSeqProperties
<1>5. InsertAt(s, i, g) = half \o back
  BY DEF InsertAt
<1>6. <<g>> \in Seq(Group) /\ Len(<<g>>) = 1 /\ <<g>>[1] = g
  OBVIOUS
<1> HIDE DEF front, back
<1>7. /\ half \in Seq(Group) /\ Len(half) = i
      /\ \A k \in 1..i : half[k] = IF k < i THEN s[k] ELSE g
  <2>1. /\ half \in Seq(Group) /\ Len(half) = Len(front) + 1
        /\ \A k \in 1..Len(front) + 1 :
               half[k] = IF k <= Len(front) THEN front[k] ELSE <<g>>[k - Len(front)]
    BY <1>3, <1>6, ConcatProperties
  <2>2. ASSUME NEW k \in 1..i PROVE half[k] = IF k < i THEN s[k] ELSE g
    BY <1>1, <1>3, <1>6, <2>1
  <2> QED
    BY <1>1, <1>3, <2>1, <2>2
<1> HIDE DEF half
<1>8. /\ half \o back \in Seq(Group)
      /\ Len(half \o back) = Len(half) + Len(back)
      /\ \A k \in 1..Len(half) + Len(back) :
             (half \o back)[k] = IF k <= Len(half) THEN half[k] ELSE back[k - Len(half)]
  BY <1>4, <1>7, ConcatProperties
<1>9. ASSUME NEW k \in 1..Len(s) + 1
      PROVE  (half \o back)[k] = IF k < i THEN s[k] ELSE IF k = i THEN g ELSE s[k - 1]
  BY <1>1, <1>4, <1>7, <1>8
<1> QED
  BY <1>1, <1>4, <1>5, <1>7, <1>8, <1>9

\* A list without a group holds the others, and none twice if it held none
\* twice.
LEMMA WithoutList ==
    ASSUME NEW s \in Seq(Group), NEW g
    PROVE  /\ Without(g, s) \in Seq(Group)
           /\ IsInjective(s) => IsInjective(Without(g, s)) /\ ToSet(Without(g, s)) = ToSet(s) \ {g}
<1>1. CASE g \notin ToSet(s)
  BY <1>1 DEF Without
<1>2. CASE g \in ToSet(s)
  <2> DEFINE i == CHOOSE k \in DOMAIN s : s[k] = g
             r == RemoveAt(s, i)
  <2>1. i \in DOMAIN s /\ s[i] = g
    BY <1>2 DEF ToSet
  <2>2. Without(g, s) = r
    BY <1>2 DEF Without
  <2> HIDE DEF i
  <2>3. /\ r \in Seq(Group) /\ Len(r) = Len(s) - 1
        /\ \A k \in 1..Len(s) - 1 : r[k] = IF k < i THEN s[k] ELSE s[k + 1]
    BY <2>1, TakenOut
  <2>4. /\ DOMAIN s = 1..Len(s) /\ Len(s) \in Nat /\ i \in 1..Len(s)
        /\ DOMAIN r = 1..Len(s) - 1
    BY <2>1, <2>3, LenProperties
  <2> HIDE DEF r
  <2>5. ASSUME IsInjective(s) PROVE IsInjective(r)
    <3> SUFFICES ASSUME NEW a \in 1..Len(s) - 1, NEW b \in 1..Len(s) - 1, r[a] = r[b] PROVE a = b
      BY <2>4 DEF IsInjective
    <3> DEFINE at(k) == IF k < i THEN k ELSE k + 1
    <3>1. r[a] = s[at(a)] /\ r[b] = s[at(b)]
      BY <2>3
    <3>2. at(a) \in DOMAIN s /\ at(b) \in DOMAIN s
      BY <2>4
    <3>3. at(a) = at(b)
      BY <2>5, <3>1, <3>2 DEF IsInjective
    <3> QED
      BY <3>3, <2>4
  <2>6. ASSUME IsInjective(s) PROVE ToSet(r) = ToSet(s) \ {g}
    <3>1. ASSUME NEW k \in 1..Len(s) - 1 PROVE r[k] \in ToSet(s) \ {g}
      <4> DEFINE j == IF k < i THEN k ELSE k + 1
      <4>1. r[k] = s[j] /\ j \in DOMAIN s /\ j # i
        BY <2>3, <2>4
      <4> QED
        BY <4>1, <2>1, <2>6 DEF IsInjective, ToSet
    <3>2. ASSUME NEW k \in 1..Len(s), k # i PROVE s[k] \in ToSet(r)
      <4> DEFINE j == IF k < i THEN k ELSE k - 1
      <4>1. j \in 1..Len(s) - 1
        BY <2>4, <3>2
      <4>2. r[j] = s[k]
        BY <2>3, <2>4, <3>2, <4>1
      <4> QED
        BY <4>1, <4>2, <2>4 DEF ToSet
    <3> QED
      BY <3>1, <3>2, <2>1, <2>4 DEF ToSet
  <2> QED
    BY <2>2, <2>3, <2>5, <2>6
<1> QED
  BY <1>1, <1>2

\* A list with a group put in that it did not hold.
LEMMA WithOneMore ==
    ASSUME NEW s \in Seq(Group), NEW g \in Group, NEW i \in 1..Len(s) + 1,
           IsInjective(s), g \notin ToSet(s)
    PROVE  IsInjective(InsertAt(s, i, g)) /\ ToSet(InsertAt(s, i, g)) = ToSet(s) \union {g}
<1> DEFINE r == InsertAt(s, i, g)
<1>1. /\ r \in Seq(Group) /\ Len(r) = Len(s) + 1
      /\ \A k \in 1..Len(s) + 1 : r[k] = IF k < i THEN s[k] ELSE IF k = i THEN g ELSE s[k - 1]
  BY PutIn
<1> HIDE DEF r
<1>2. /\ DOMAIN s = 1..Len(s) /\ Len(s) \in Nat /\ i \in Nat /\ i >= 1
      /\ DOMAIN r = 1..Len(s) + 1
  BY <1>1, LenProperties
<1> DEFINE at(k) == IF k < i THEN k ELSE k - 1
<1>3. ASSUME NEW k \in 1..Len(s) + 1, k # i
      PROVE  at(k) \in DOMAIN s /\ r[k] = s[at(k)] /\ r[k] # g
  <2>1. at(k) \in DOMAIN s
    BY <1>2, <1>3
  <2>2. r[k] = s[at(k)]
    BY <1>1, <1>3
  <2> QED
    BY <2>1, <2>2 DEF ToSet
<1>4. r[i] = g
  BY <1>1, <1>2
<1>5. ASSUME NEW a \in 1..Len(s) + 1, NEW b \in 1..Len(s) + 1, r[a] = r[b]
      PROVE  a = b
  <2>1. CASE a = i \/ b = i
    BY <2>1, <1>3, <1>4, <1>5
  <2>2. CASE a # i /\ b # i
    <3>1. at(a) \in DOMAIN s /\ at(b) \in DOMAIN s /\ s[at(a)] = s[at(b)]
      BY <2>2, <1>3, <1>5
    <3>2. at(a) = at(b)
      BY <3>1 DEF IsInjective
    <3> QED
      BY <3>2, <2>2, <1>2
  <2> QED
    BY <2>1, <2>2
<1>6. ASSUME NEW k \in 1..Len(s) PROVE s[k] \in ToSet(r)
  <2> DEFINE j == IF k < i THEN k ELSE k + 1
  <2>1. j \in 1..Len(s) + 1 /\ j # i /\ at(j) = k
    BY <1>2
  <2> QED
    BY <2>1, <1>2, <1>3 DEF ToSet
<1>7. IsInjective(r)
  BY <1>2, <1>5 DEF IsInjective
<1>8. g \in ToSet(r)
  BY <1>2, <1>4 DEF ToSet
<1>9. ToSet(r) \subseteq ToSet(s) \union {g}
  BY <1>2, <1>3, <1>4 DEF ToSet
<1> QED
  BY <1>2, <1>6, <1>7, <1>8, <1>9 DEF ToSet, r

\* How many numbers there are from 1 to n.
LEMMA UpTo ==
    ASSUME NEW n \in Nat
    PROVE  IsFiniteSet(1..n) /\ Cardinality(1..n) = n
<1>1. IsFiniteSet(1..n) /\ Cardinality(1..n) = IF 1 > n THEN 0 ELSE n - 1 + 1
  <2>1. 1 \in Int /\ n \in Int
    OBVIOUS
  <2> QED
    BY ONLY <2>1, FS_Interval
<1> QED
  BY <1>1

\* A list that holds no group twice is no longer than there are groups.
LEMMA ListFits ==
    ASSUME NEW s \in Seq(Group), IsInjective(s), IsFiniteSet(Group)
    PROVE  Len(s) <= Cardinality(Group)
<1>1. s \in [1..Len(s) -> Group] /\ Len(s) \in Nat
  BY LenProperties, ElementOfSeq
<1>2. s \in Injection(1..Len(s), Group)
  BY <1>1 DEF Injection
<1>3. Cardinality(1..Len(s)) <= Cardinality(Group)
  BY <1>2, FS_Injection
<1>4. Cardinality(1..Len(s)) = Len(s)
  BY <1>1, UpTo
<1> QED
  BY <1>3, <1>4

\* An update of the list places its group, keeps the others while the list
\* is long enough, and leaves no group on it twice.
LEMMA AdjustedList ==
    ASSUME NEW old \in Seq(Group), NEW g \in Group, NEW time, NEW objects
    PROVE  /\ Adjusted(g, time, old, objects) \in Seq(Group)
           /\ IsInjective(old) => IsInjective(Adjusted(g, time, old, objects))
           /\ IsInjective(old) /\ Fits => ToSet(Adjusted(g, time, old, objects)) = ToSet(old) \union {g}
<1> DEFINE rest == Without(g, old)
           higher == {k \in DOMAIN rest : \A j \in 1..k : objects[rest[j]].latest > time}
           later == Cardinality(higher)
           new == InsertAt(rest, later + 1, g)
           n == IF Len(new) < ListSize THEN Len(new) ELSE ListSize
<1>1. Adjusted(g, time, old, objects) = SubSeq(new, 1, n)
  BY DEF Adjusted
<1>2. /\ rest \in Seq(Group)
      /\ IsInjective(old) => IsInjective(rest) /\ ToSet(rest) = ToSet(old) \ {g}
  BY WithoutList
<1> HIDE DEF rest
<1>3. later + 1 \in 1..Len(rest) + 1
  <2>1. Len(rest) \in Nat /\ DOMAIN rest = 1..Len(rest)
    BY <1>2, LenProperties
  <2>2. IsFiniteSet(1..Len(rest)) /\ Cardinality(1..Len(rest)) = Len(rest)
    BY <2>1, UpTo
  <2>3. higher \in SUBSET (1..Len(rest))
    BY <2>1
  <2> HIDE DEF higher
  <2>4. IsFiniteSet(higher) /\ Cardinality(higher) <= Len(rest)
    BY <2>2, <2>3, FS_Subset
  <2>5. Cardinality(higher) \in Nat
    BY <2>4, FS_CardinalityType
  <2> QED
    BY <2>1, <2>4, <2>5
<1> HIDE DEF later
<1>4. new \in Seq(Group)
  BY <1>2, <1>3, PutIn
<1>5. ASSUME IsInjective(old) PROVE IsInjective(new) /\ ToSet(new) = ToSet(old) \union {g}
  BY <1>2, <1>3, <1>5, WithOneMore
<1> HIDE DEF new
<1>6. Len(new) \in Nat /\ DOMAIN new = 1..Len(new) /\ \A k \in 1..Len(new) : new[k] \in Group
  BY <1>4, LenProperties, ElementOfSeq
<1>7. n \in Nat /\ n <= Len(new)
  BY <1>6, NumberAssumption
<1> HIDE DEF n
<1>8. /\ SubSeq(new, 1, n) \in Seq(Group) /\ Len(SubSeq(new, 1, n)) = n
      /\ \A k \in 1..n : SubSeq(new, 1, n)[k] = new[k]
  <2>1. \A k \in 1..n : new[k] \in Group
    BY <1>6, <1>7
  <2> QED
    BY <2>1, <1>7, SubSeqProperties
<1>9. ASSUME IsInjective(old) PROVE IsInjective(SubSeq(new, 1, n))
  BY <1>5, <1>6, <1>7, <1>8, <1>9, LenProperties DEF IsInjective
<1>10. ASSUME IsInjective(old), Fits PROVE ToSet(SubSeq(new, 1, n)) = ToSet(old) \union {g}
  <2>1. Len(new) <= ListSize
    <3>1. Len(new) <= Cardinality(Group) /\ Cardinality(Group) \in Nat
      BY <1>4, <1>5, <1>10, ListFits, FS_CardinalityType DEF Fits
    <3> QED
      BY <3>1, <1>6, <1>10, NumberAssumption DEF Fits
  <2>2. n = Len(new)
    BY <2>1, <1>6, NumberAssumption DEF n
  <2>3. ToSet(SubSeq(new, 1, n)) = ToSet(new)
    BY <2>2, <1>6, <1>8, LenProperties DEF ToSet
  <2> QED
    BY <2>3, <1>5, <1>10
<1> QED
  BY <1>1, <1>8, <1>9, <1>10

-----------------------------------------------------------------------------
(* The objects of the groups.  A merge with the times in memory makes of   *)
(* an object the same, read no earlier.                                    *)

Counted(o) == \A m \in o.seen : m.time <= o.latest /\ (m.time > o.read => o.unread > 0)
CountInv == \A g \in Group : Counted(group[g]) /\ Counted(diskGroup[g])

Reread(o, p) == o = [p EXCEPT !.read = o.read] /\ o.read >= p.read

\* Types of the objects and of the times in memory.
ObjectType ==
    /\ group \in [Group -> Object] /\ diskGroup \in [Group -> Object] /\ items \in Times
    /\ toInbox \subseteq Message

\* The later of two times is a time and none of them is later.
LEMMA LaterTime ==
    ASSUME NEW a \in Nat, NEW b \in Nat
    PROVE  Later(a, b) \in Nat /\ Later(a, b) >= a /\ Later(a, b) >= b /\ Later(a, b) \in {a, b}
BY DEF Later

\* An object that is read later counts what it counted.
LEMMA RereadCounted ==
    ASSUME NEW p \in Object, NEW o, Reread(o, p), o.read \in Nat
    PROVE  /\ o \in Object /\ o.latest = p.latest /\ o.unread = p.unread /\ o.seen = p.seen
           /\ Counted(p) => Counted(o)
<1>1. o \in Object /\ o.latest = p.latest /\ o.unread = p.unread /\ o.seen = p.seen
  BY DEF Reread, Object
<1>2. ASSUME Counted(p), NEW m \in o.seen PROVE m.time <= o.latest /\ (m.time > o.read => o.unread > 0)
  <2>1. m \in p.seen /\ m \in Message
    BY <1>1 DEF Object
  <2>2. m.time \in Nat
    BY <2>1, MessageAssumption
  <2>3. m.time <= p.latest /\ (m.time > p.read => p.unread > 0)
    BY <1>2, <2>1 DEF Counted
  <2>4. o.read >= p.read /\ p.read \in Nat /\ o.read \in Nat
    BY <1>1 DEF Reread, Object
  <2> QED
    BY <1>1, <2>2, <2>3, <2>4
<1> QED
  BY <1>1, <1>2 DEF Counted

\* A reading of the objects gives times.
LEMMA ReadsTimes ==
    ASSUME NEW objects \in [Group -> Object], NEW gs
    PROVE  /\ DOMAIN Reads(objects, gs) = gs
           /\ \A g \in Group \intersect gs : Reads(objects, gs)[g] = objects[g].read
           /\ \A g \in Group : objects[g].read \in Nat
BY DEF Reads, Object

\* The times in memory with those of a reading.
LEMMA LatestTimes ==
    ASSUME NEW f \in Times, NEW h, \A g \in Group \intersect DOMAIN h : h[g] \in Nat
    PROVE  /\ Latest(f, h) \in Times
           /\ \A g \in Group : Latest(f, h)[g] >= f[g] /\ (g \in DOMAIN h => Latest(f, h)[g] >= h[g])
<1>1. ASSUME NEW g \in Group
      PROVE  /\ Latest(f, h)[g] \in Nat
             /\ Latest(f, h)[g] >= f[g] /\ (g \in DOMAIN h => Latest(f, h)[g] >= h[g])
  <2>1. f[g] \in Nat
    BY DEF Times
  <2>2. CASE g \in DOMAIN h
    <3>1. Latest(f, h)[g] = Later(f[g], h[g]) /\ h[g] \in Nat
      BY <2>2 DEF Latest
    <3> QED
      BY <2>1, <3>1, LaterTime
  <2>3. CASE g \notin DOMAIN h
    BY <2>1, <2>3 DEF Latest
  <2> QED
    BY <2>2, <2>3
<1>2. Latest(f, h) = [g \in Group |-> Latest(f, h)[g]]
  BY DEF Latest
<1> QED
  BY <1>1, <1>2 DEF Times

\* What the groups of a merge then hold.
LEMMA MergedObjects ==
    ASSUME NEW objects \in [Group -> Object], NEW f \in Times, NEW all
    PROVE  LET new == With(objects, all, Corrected(f, Reads(objects, all)))
           IN  /\ new \in [Group -> Object]
               /\ \A g \in Group : Reread(new[g], objects[g]) /\ (g \in all => new[g].read >= f[g])
<1> DEFINE reads == Reads(objects, all)
           times == Corrected(f, reads)
           new == With(objects, all, times)
<1>1. ASSUME NEW g \in Group
      PROVE  /\ new[g] \in Object /\ Reread(new[g], objects[g]) /\ (g \in all => new[g].read >= f[g])
  <2>1. objects[g] \in Object /\ f[g] \in Nat /\ objects[g].read \in Nat
    BY ReadsTimes DEF Times
  <2>2. CASE g \in all
    <3>1. times[g] = Later(f[g], objects[g].read)
      BY <2>2 DEF Corrected, Reads
    <3>2. new[g] = [objects[g] EXCEPT !.read = times[g]]
      BY <2>2 DEF With
    <3>3. times[g] \in Nat /\ times[g] >= f[g] /\ times[g] >= objects[g].read
      BY <2>1, <3>1, LaterTime
    <3> QED
      BY <2>1, <3>2, <3>3 DEF Reread, Object
  <2>3. CASE g \notin all
    <3>1. new[g] = objects[g]
      BY <2>3 DEF With
    <3> QED
      BY <2>1, <2>3, <3>1 DEF Reread, Object
  <2> QED
    BY <2>2, <2>3
<1>2. new = [g \in Group |-> new[g]]
  BY DEF With
<1> QED
  BY <1>1, <1>2

\* What a group is loaded from: the cache, or local storage.
LEMMA LoadedObjects ==
    ASSUME ObjectType, NEW gs
    PROVE  /\ Loaded(gs) \in [Group -> Object]
           /\ \A g \in cached \intersect Group : Loaded(gs)[g] = group[g]
           /\ \A g \in Group : Loaded(gs)[g] \in {group[g], diskGroup[g]}
BY DEF Loaded, ObjectType

\* The groups that were got are those loaded, read no earlier.
LEMMA GotObjects ==
    ASSUME ObjectType, NEW gs
    PROVE  /\ Got(gs) \in [Group -> Object]
           /\ \A g \in Group : Reread(Got(gs)[g], Loaded(gs)[g])
<1> DEFINE objects == Loaded(gs)
<1>1. objects \in [Group -> Object]
  BY LoadedObjects
<1>2. items \in Times
  BY DEF ObjectType
<1>3. Got(gs) = With(objects, cached \union gs, Corrected(items, Reads(objects, cached \union gs)))
  BY ReadsTimes, <1>1 DEF Got
<1> HIDE DEF objects
<1> QED
  BY <1>1, <1>2, <1>3, MergedObjects DEF objects

\* A merge makes no time earlier, neither in memory nor of a group.
LEMMA WithGroupsMerges ==
    ASSUME ObjectType, NEW gs, NEW changed \in [Group -> Object], WithGroups(gs, changed)
    PROVE  /\ items' \in Times /\ \A g \in Group : items'[g] >= items[g]
           /\ group' \in [Group -> Object] /\ \A g \in Group : Reread(group'[g], changed[g])
           /\ \A g \in cached \intersect Group : group'[g].read >= group[g].read
           /\ cached' = cached \union gs
           /\ task' \in {"waits", task}
           /\ UNCHANGED <<source, used, inited, shouldLoad, asked>>
<1> DEFINE all == cached \union gs
           objects == Loaded(gs)
           got == Reads(objects, all)
           set == Reads(changed, all)
           both == [g \in all |-> Later(got[g], set[g])]
           times == Latest(items, got)
<1>1. /\ items' = Latest(items, both) /\ cached' = all /\ task' \in {"waits", task}
      /\ group' = With(changed, all, Corrected(times, set))
      /\ UNCHANGED <<source, used, inited, shouldLoad, asked>>
  BY DEF WithGroups, SyncGroupState
<1>2. objects \in [Group -> Object] /\ items \in Times
  BY LoadedObjects DEF ObjectType
<1>3. /\ DOMAIN got = all /\ DOMAIN set = all
      /\ \A g \in Group \intersect all : /\ got[g] = objects[g].read /\ got[g] \in Nat
                                         /\ set[g] = changed[g].read /\ set[g] \in Nat
  <2>1. /\ DOMAIN got = all
        /\ \A g \in Group \intersect all : got[g] = objects[g].read
        /\ \A g \in Group : objects[g].read \in Nat
    BY <1>2, ReadsTimes
  <2>2. /\ DOMAIN set = all
        /\ \A g \in Group \intersect all : set[g] = changed[g].read
        /\ \A g \in Group : changed[g].read \in Nat
    BY ReadsTimes
  <2> QED
    BY <2>1, <2>2
<1> HIDE DEF got
<1>4. DOMAIN both = all /\ \A g \in Group \intersect all : both[g] \in Nat
  BY <1>3, LaterTime
<1> HIDE DEF both
<1>5. Latest(items, both) \in Times /\ \A g \in Group : Latest(items, both)[g] >= items[g]
  BY <1>2, <1>4, LatestTimes
<1>6. /\ times \in Times
      /\ \A g \in Group : g \in all => times[g] >= got[g]
  BY <1>2, <1>3, LatestTimes
<1> HIDE DEF times
<1>7. /\ group' \in [Group -> Object]
      /\ \A g \in Group : Reread(group'[g], changed[g]) /\ (g \in all => group'[g].read >= times[g])
  BY <1>1, <1>6, MergedObjects
<1>8. ASSUME NEW g \in cached \intersect Group PROVE group'[g].read >= group[g].read
  <2>1. g \in all /\ group[g] = objects[g]
    BY LoadedObjects
  <2>2. got[g] = group[g].read /\ got[g] \in Nat
    BY <1>3, <2>1
  <2>3. group'[g].read >= times[g] /\ times[g] >= got[g]
    BY <1>6, <1>7, <2>1
  <2>4. group'[g].read \in Nat /\ times[g] \in Nat
    BY <1>6, <1>7 DEF Object, Times
  <2> QED
    BY <2>2, <2>3, <2>4
<1> QED
  BY <1>1, <1>5, <1>7, <1>8

\* A reading leaves the messages of the group counted or read.
LEMMA ReadObjects ==
    ASSUME ObjectType, NEW g \in Group, NEW unread \in Nat, NEW time \in Nat
    PROVE  LET changed == [Got({g}) EXCEPT ![g].unread = unread, ![g].read = time]
           IN  /\ changed \in [Group -> Object]
               /\ \A h \in Group : changed[h].latest = Loaded({g})[h].latest
               /\ CountInv /\ (unread > 0 \/ time >= Loaded({g})[g].latest) =>
                      \A h \in Group : Counted(changed[h])
<1> DEFINE objects == Loaded({g})
           got == Got({g})
           changed == [got EXCEPT ![g].unread = unread, ![g].read = time]
<1>1. /\ objects \in [Group -> Object] /\ got \in [Group -> Object]
      /\ \A h \in Group : Reread(got[h], objects[h]) /\ objects[h] \in {group[h], diskGroup[h]}
  BY LoadedObjects, GotObjects
<1> HIDE DEF objects, got
<1>2. ASSUME NEW h \in Group
      PROVE  /\ got[h].latest = objects[h].latest /\ got[h].seen = objects[h].seen
             /\ Counted(objects[h]) => Counted(got[h])
  <2>1. objects[h] \in Object /\ got[h] \in Object /\ got[h].read \in Nat
    BY <1>1 DEF Object
  <2> QED
    BY <2>1, <1>1, RereadCounted
<1>3. /\ changed \in [Group -> Object]
      /\ changed[g] = [latest |-> got[g].latest, unread |-> unread, read |-> time, seen |-> got[g].seen]
      /\ \A h \in Group \ {g} : changed[h] = got[h]
  BY <1>1 DEF Object
<1> HIDE DEF changed
<1>4. ASSUME CountInv, NEW h \in Group PROVE Counted(objects[h])
  BY <1>1, <1>4 DEF CountInv
<1>5. ASSUME CountInv, unread > 0 \/ time >= objects[g].latest PROVE Counted(changed[g])
  <2>1. Counted(got[g])
    BY <1>2, <1>4, <1>5
  <2>2. got[g] \in Object /\ objects[g] \in Object /\ got[g].latest = objects[g].latest
    BY <1>1, <1>2
  <2>3. ASSUME NEW m \in got[g].seen
        PROVE  m.time <= got[g].latest /\ (m.time > time => unread > 0)
    <3>1. m.time \in Nat
      BY <2>2, MessageAssumption DEF Object
    <3>2. m.time <= got[g].latest
      BY <2>1 DEF Counted
    <3> QED
      BY <1>5, <2>2, <3>1, <3>2 DEF Object
  <2> QED
    BY <1>3, <2>3 DEF Counted
<1>6. \A h \in Group : changed[h].latest = objects[h].latest
  BY <1>2, <1>3
<1>7. ASSUME CountInv, unread > 0 \/ time >= objects[g].latest, NEW h \in Group PROVE Counted(changed[h])
  BY <1>2, <1>3, <1>4, <1>5, <1>7
<1> QED
  BY <1>3, <1>6, <1>7 DEF changed, got, objects

\* A message that comes is counted, or is read already.
LEMMA MessageObjects ==
    ASSUME ObjectType, NEW m \in toInbox
    PROVE  LET g == m.group
               changed == [Got({g}) EXCEPT ![g] = WithMessage(@, m)]
           IN  /\ g \in Group /\ m.time \in Nat
               /\ changed \in [Group -> Object]
               /\ \A h \in Group \ {g} : changed[h].latest = Loaded({g})[h].latest
               /\ changed[g].latest = Later(Loaded({g})[g].latest, m.time)
               /\ CountInv => \A h \in Group : Counted(changed[h])
<1> DEFINE g == m.group
           objects == Loaded({g})
           got == Got({g})
           changed == [got EXCEPT ![g] = WithMessage(@, m)]
<1>1. m \in Message /\ g \in Group /\ m.time \in Nat
  BY MessageAssumption DEF ObjectType
<1> HIDE DEF g
<1>2. /\ objects \in [Group -> Object] /\ got \in [Group -> Object]
      /\ \A h \in Group : Reread(got[h], objects[h]) /\ objects[h] \in {group[h], diskGroup[h]}
  BY LoadedObjects, GotObjects
<1> HIDE DEF objects, got
<1>3. ASSUME NEW h \in Group
      PROVE  /\ got[h].latest = objects[h].latest
             /\ CountInv => Counted(got[h])
  <2>1. objects[h] \in Object /\ got[h] \in Object /\ got[h].read \in Nat
    BY <1>2 DEF Object
  <2>2. got[h].latest = objects[h].latest /\ (Counted(objects[h]) => Counted(got[h]))
    BY <2>1, <1>2, RereadCounted
  <2> QED
    BY <2>2, <1>2 DEF CountInv
<1> DEFINE o == got[g]
           p == WithMessage(o, m)
<1>4. o \in Object /\ o.latest \in Nat /\ o.unread \in Nat /\ o.read \in Nat /\ o.seen \subseteq Message
  BY <1>1, <1>2 DEF Object
<1> HIDE DEF o
<1>5. /\ p.latest = Later(o.latest, m.time) /\ p.seen = o.seen \union {m} /\ p.read = o.read
      /\ p.unread = IF Counts(o, m) THEN o.unread + 1 ELSE o.unread
      /\ p \in Object
  <2>1. Later(o.latest, m.time) \in Nat
    BY <1>1, <1>4, LaterTime
  <2> DEFINE t == Later(o.latest, m.time)
             n == IF Counts(o, m) THEN o.unread + 1 ELSE o.unread
             s == o.seen \union {m}
  <2>2. t \in Nat /\ n \in Nat /\ s \in SUBSET Message
    BY <2>1, <1>1, <1>4
  <2>3. p = [o EXCEPT !.latest = t, !.unread = n, !.seen = s]
    BY DEF WithMessage
  <2>4. p.latest = t /\ p.seen = s /\ p.read = o.read /\ p.unread = n /\ p \in Object
    <3> HIDE DEF t, n, s, p
    <3> QED
      BY <2>2, <2>3, <1>4 DEF Object
  <2> QED
    BY <2>4
<1> HIDE DEF p
<1>6. ASSUME Counted(o) PROVE Counted(p)
  <2> SUFFICES ASSUME NEW n \in p.seen
               PROVE  n.time <= p.latest /\ (n.time > p.read => p.unread > 0)
    BY DEF Counted
  <2>1. p.latest \in Nat /\ p.latest >= o.latest /\ p.latest >= m.time
    BY <1>1, <1>4, <1>5, LaterTime
  <2>2. CASE n \in o.seen
    <3>1. n.time \in Nat /\ n.time <= o.latest /\ (n.time > o.read => o.unread > 0)
      BY <1>4, <1>6, <2>2, MessageAssumption DEF Counted
    <3> QED
      BY <3>1, <2>1, <1>4, <1>5
  <2>3. CASE n = m
    <3>1. ASSUME m.time > o.read PROVE p.unread > 0
      BY <3>1, <1>4, <1>5, NumberAssumption DEF Counts
    <3> QED
      BY <3>1, <2>1, <2>3, <1>5
  <2> QED
    BY <2>2, <2>3, <1>5
<1>7. changed \in [Group -> Object] /\ changed[g] = p /\ \A h \in Group \ {g} : changed[h] = got[h]
  BY <1>1, <1>2, <1>5 DEF o, p
<1> HIDE DEF changed
<1>8. \A h \in Group \ {g} : changed[h].latest = objects[h].latest
  BY <1>3, <1>7
<1>9. changed[g].latest = Later(objects[g].latest, m.time)
  BY <1>1, <1>3, <1>5, <1>7 DEF o
<1>10. CountInv => \A h \in Group : Counted(changed[h])
  BY <1>1, <1>3, <1>6, <1>7 DEF o
<1> QED
  BY <1>1, <1>7, <1>8, <1>9, <1>10 DEF changed, got, objects, g

-----------------------------------------------------------------------------
(* The state outputs and the transactions.                                 *)

Output  == [items : Times, spent : BOOLEAN]
Part(n) == [items : Times, takes : 0..n]

\* The last output of the ledger is not spent: it is the newest.
LedgerInv == ledger # <<>> => ~ledger[Len(ledger)].spent

TypeInv == TypeOK /\ LedgerInv

\* What the sync variables are, out of the invariant.
LEMMA SyncTypes ==
    ASSUME TypeOK
    PROVE  /\ ledger \in Seq(Output) /\ Len(ledger) \in Nat /\ DOMAIN ledger = 1..Len(ledger)
           /\ items \in Times /\ source \in 0..Len(ledger) /\ used \in BOOLEAN
           /\ asked \subseteq 0..Len(ledger) /\ \A m, n \in asked : m = n
           /\ temps \in Seq(Part(Len(ledger))) /\ sent \subseteq Seq(Part(Len(ledger))) \ {<<>>}
           /\ ObjectType
<1>1. SyncTypeOK
  BY DEF TypeOK
<1>2. ledger \in Seq(Output) /\ items \in Times /\ source \in 0..Len(ledger)
  BY <1>1 DEF SyncTypeOK, Output
<1>3. asked \subseteq 0..Len(ledger) /\ \A m, n \in asked : m = n
  BY <1>1 DEF SyncTypeOK
<1>4. temps \in Seq(Part(Len(ledger))) /\ sent \subseteq Seq(Part(Len(ledger))) \ {<<>>}
  BY <1>1 DEF SyncTypeOK, Part
<1>5. used \in BOOLEAN
  BY <1>1 DEF SyncTypeOK
<1>6. ObjectType
  BY <1>2 DEF TypeOK, ObjectType
<1>7. Len(ledger) \in Nat /\ DOMAIN ledger = 1..Len(ledger)
  BY <1>2, LenProperties
<1> QED
  BY <1>2, <1>3, <1>4, <1>5, <1>6, <1>7

\* The types of the parts stay when the ledger grows.
LEMMA PartsGrow ==
    ASSUME NEW m \in Nat, NEW n \in Nat, m <= n
    PROVE  Seq(Part(m)) \subseteq Seq(Part(n)) /\ 0..m \subseteq 0..n
<1>1. Part(m) \subseteq Part(n)
  BY DEF Part
<1>2. Seq(Part(m)) \subseteq Seq(Part(n))
  BY ONLY <1>1, SeqMonotonic
<1> QED
  BY <1>2

\* The node answers with the last output.
LEMMA NewestIsLast ==
    ASSUME TypeInv
    PROVE  Newest = Len(ledger)
<1>1. Len(ledger) \in Nat /\ DOMAIN ledger = 1..Len(ledger)
  BY SyncTypes DEF TypeInv
<1>2. CASE ledger = <<>>
  BY <1>2 DEF Newest, Unspent
<1>3. CASE ledger # <<>>
  <2>1. Len(ledger) >= 1
    BY <1>1, <1>3, SyncTypes, EmptySeq DEF TypeInv
  <2>2. Len(ledger) \in Unspent /\ \A j \in Unspent : Len(ledger) >= j /\ j \in Nat
    BY <1>1, <1>3, <2>1 DEF Unspent, TypeInv, LedgerInv
  <2>3. Newest \in Unspent /\ \A j \in Unspent : Newest >= j
    BY <2>2 DEF Newest
  <2> QED
    BY <2>2, <2>3
<1> QED
  BY <1>2, <1>3

\* To spend outputs changes nothing else of the ledger.
LEMMA SpentLedger ==
    ASSUME TypeOK, NEW ids
    PROVE  /\ Spend(ids) \in Seq(Output) /\ Len(Spend(ids)) = Len(ledger)
           /\ \A i \in 1..Len(ledger) : Spend(ids)[i].items = ledger[i].items
<1>1. ledger \in Seq(Output) /\ Len(ledger) \in Nat /\ DOMAIN ledger = 1..Len(ledger)
  BY SyncTypes
<1>2. ASSUME NEW i \in 1..Len(ledger)
      PROVE  Spend(ids)[i] \in Output /\ Spend(ids)[i].items = ledger[i].items
  <2> DEFINE s == (ledger[i].spent \/ i \in ids)
  <2>1. ledger[i] \in Output
    BY <1>1, ElementOfSeq
  <2>2. Spend(ids)[i] = [ledger[i] EXCEPT !.spent = s]
    BY <1>1 DEF Spend
  <2>3. s \in BOOLEAN
    OBVIOUS
  <2> HIDE DEF s
  <2> QED
    BY <2>1, <2>2, <2>3 DEF Output
<1>3. Spend(ids) \in [1..Len(ledger) -> Output]
  BY <1>1, <1>2 DEF Spend
<1>4. Spend(ids) \in Seq(Output)
  BY <1>1, <1>3, SeqDef
<1>5. Len(Spend(ids)) = Len(ledger)
  BY <1>1, <1>3, <1>4, LenProperties
<1> QED
  BY <1>2, <1>4, <1>5

\* The ledger with one more output.
LEMMA GrownLedger ==
    ASSUME TypeOK, NEW ids, NEW made \in Seq(Output), made # <<>>,
           \A k \in 1..Len(made) : ~made[k].spent,
           ledger' = Spend(ids) \o made
    PROVE  /\ ledger' \in Seq(Output) /\ Len(ledger') \in Nat /\ Len(ledger') >= Len(ledger)
           /\ \A i \in 1..Len(ledger) : ledger'[i].items = ledger[i].items
           /\ LedgerInv'
<1> DEFINE old == Spend(ids)
<1>1. /\ old \in Seq(Output) /\ Len(old) = Len(ledger) /\ Len(ledger) \in Nat
      /\ \A i \in 1..Len(ledger) : old[i].items = ledger[i].items
  BY SpentLedger, SyncTypes
<1> HIDE DEF old
<1> DEFINE l == old \o made
<1>2. /\ l \in Seq(Output) /\ Len(l) = Len(old) + Len(made)
      /\ \A i \in 1..Len(old) + Len(made) : l[i] = IF i <= Len(old) THEN old[i] ELSE made[i - Len(old)]
  BY <1>1, ConcatProperties
<1>3. Len(made) \in Nat /\ Len(made) >= 1
  BY LenProperties, EmptySeq
<1> HIDE DEF l
<1>4. Len(l) \in 1..Len(old) + Len(made) /\ ~(Len(l) <= Len(old)) /\ Len(l) - Len(old) = Len(made)
  BY <1>1, <1>2, <1>3
<1>5. l[Len(l)] = made[Len(made)] /\ ~made[Len(made)].spent
  BY <1>2, <1>3, <1>4
<1>6. \A i \in 1..Len(ledger) : l[i].items = ledger[i].items
  BY <1>1, <1>2, <1>3
<1>7. ledger' = l
  BY DEF l, old
<1> QED
  BY <1>1, <1>2, <1>3, <1>5, <1>6, <1>7 DEF LedgerInv

\* Outputs are added to the ledger and none is changed but spent.
LedgerGrows ==
    /\ ledger' \in Seq(Output) /\ Len(ledger') \in Nat /\ Len(ledger') >= Len(ledger)
    /\ \A i \in 1..Len(ledger) : ledger'[i].items = ledger[i].items
    /\ LedgerInv'

\* A transaction of the device that is confirmed.
LEMMA ConfirmLedger ==
    ASSUME TypeOK, NEW tx \in sent, Confirm(tx)
    PROVE  LedgerGrows
<1>1. ledger' = Spend(Takes(tx)) \o Made(tx)
  BY DEF Confirm
<1>2. tx \in Seq(Part(Len(ledger))) /\ tx # <<>>
  BY SyncTypes
<1>3. Len(tx) \in Nat /\ Len(tx) >= 1 /\ DOMAIN tx = 1..Len(tx)
  BY <1>2, LenProperties, EmptySeq
<1>4. ASSUME NEW k \in 1..Len(tx)
      PROVE  Made(tx)[k] \in Output /\ ~Made(tx)[k].spent
  <2>1. tx[k].items \in Times
    <3>1. tx[k] \in Part(Len(ledger))
      BY <1>2, ElementOfSeq
    <3> QED
      BY <3>1 DEF Part
  <2>2. Made(tx)[k] = [items |-> tx[k].items, spent |-> FALSE]
    BY <1>3 DEF Made
  <2> QED
    BY <2>1, <2>2 DEF Output
<1>5. Made(tx) \in [1..Len(tx) -> Output]
  BY <1>3, <1>4 DEF Made
<1>6. Made(tx) \in Seq(Output)
  BY <1>3, <1>5, SeqDef
<1>7. Len(Made(tx)) = Len(tx)
  BY <1>3, <1>5, <1>6, LenProperties
<1>8. Made(tx) # <<>>
  BY <1>3, <1>7, EmptySeq
<1> HIDE DEF Made
<1>9. \A k \in 1..Len(Made(tx)) : ~Made(tx)[k].spent
  BY <1>4, <1>7
<1> QED
  BY <1>1, <1>6, <1>8, <1>9, GrownLedger DEF LedgerGrows

\* A state output of another device that is confirmed.
LEMMA ForeignLedger ==
    ASSUME TypeInv, NEW g \in Group, Foreign(g)
    PROVE  LedgerGrows
<1> DEFINE old == IF Newest = 0 THEN NoTimes ELSE ledger[Newest].items
           times == [old EXCEPT ![g] = Later(@, now)]
           new == [items |-> times, spent |-> FALSE]
<1>1. ledger' = Append(Spend({Newest}), new)
  BY DEF Foreign
<1>2. /\ ledger \in Seq(Output) /\ Len(ledger) \in Nat /\ Newest = Len(ledger) /\ now \in Nat
      /\ DOMAIN ledger = 1..Len(ledger)
  <2>1. TypeOK
    BY DEF TypeInv
  <2>2. now \in 0..MaxTime /\ MaxTime \in Nat
    BY <2>1, NumberAssumption DEF TypeOK, SyncTypeOK
  <2> QED
    BY <2>1, <2>2, SyncTypes, NewestIsLast
<1>3. old \in Times
  <2>1. NoTimes \in Times
    BY DEF NoTimes, Times
  <2>2. Newest # 0 => ledger[Newest] \in Output
    BY <1>2, ElementOfSeq
  <2> QED
    BY <2>1, <2>2 DEF Output
<1> HIDE DEF old
<1>4. times \in Times
  <2>1. Later(old[g], now) \in Nat
    BY <1>2, <1>3, LaterTime DEF Times
  <2> QED
    BY <1>3, <2>1 DEF Times
<1> HIDE DEF times
<1>5. new \in Output /\ ~new.spent
  BY <1>4 DEF Output
<1>6. <<new>> \in Seq(Output) /\ Len(<<new>>) = 1 /\ <<new>>[1] = new /\ <<new>> # <<>>
  BY <1>5
<1>7. Spend({Newest}) \in Seq(Output)
  BY SpentLedger DEF TypeInv
<1> HIDE DEF new
<1>8. Append(Spend({Newest}), new) = Spend({Newest}) \o <<new>>
  BY <1>5, <1>7, AppendIsConcat
<1>9. \A k \in 1..Len(<<new>>) : ~(<<new>>[k]).spent
  BY <1>5, <1>6
<1> QED
  BY <1>1, <1>6, <1>8, <1>9, GrownLedger DEF LedgerGrows, TypeInv

-----------------------------------------------------------------------------
(* What a step does to the groups: it merges some, it reads some later, or *)
(* it forgets all of them.                                                 *)

MergeGroups ==
    \E gs \in SUBSET Group, changed \in [Group -> Object] :
        /\ WithGroups(gs, changed)
        /\ CountInv => \A g \in Group : Counted(changed[g])
        /\ diskGroup' = diskGroup

RereadGroups ==
    /\ cached' = cached
    /\ group' \in [Group -> Object] /\ \A g \in Group : Reread(group'[g], group[g])
    /\ \E ws : diskGroup' = Stored(ws)

ForgetGroups ==
    /\ cached' = {}
    /\ group' = [g \in Group |-> NewGroup]
    /\ \E ws : diskGroup' = Stored(ws)

ReadStep == \E g \in Group : ClearUnreadCount(g) \/ SetUnreadCount(g)
MergeStep ==
    \/ GetInbox \/ SaveGroups \/ ReadStep
    \/ \E m \in Message : TakeMessage(m)
    \/ \E a \in adjusting : AdjustDone(a)

\* The groups on a list are groups.
LEMMA ListGroups ==
    ASSUME NEW s \in Seq(Group)
    PROVE  ToSet(s) \in SUBSET Group
BY ElementOfSeq, LenProperties DEF ToSet

\* A getGroup that is done merges.
LEMMA GotMerges ==
    ASSUME ObjectType, NEW gs \in SUBSET Group, WithGroups(gs, Got(gs)), diskGroup' = diskGroup
    PROVE  MergeGroups
<1>1. Got(gs) \in [Group -> Object] /\ \A g \in Group : Reread(Got(gs)[g], Loaded(gs)[g])
  BY GotObjects
<1>2. ASSUME CountInv, NEW g \in Group PROVE Counted(Got(gs)[g])
  <2>1. Loaded(gs)[g] \in Object /\ Loaded(gs)[g] \in {group[g], diskGroup[g]}
    BY LoadedObjects
  <2>2. Counted(Loaded(gs)[g])
    BY <1>2, <2>1 DEF CountInv
  <2>3. Got(gs)[g].read \in Nat
    BY <1>1 DEF Object
  <2> QED
    BY <1>1, <2>1, <2>2, <2>3, RereadCounted
<1> QED
  BY <1>1, <1>2 DEF MergeGroups

\* Each step that loads groups merges, and leaves the outputs alone.
LEMMA MergeSteps ==
    ASSUME TypeOK, MergeStep
    PROVE  MergeGroups /\ UNCHANGED <<now, ledgerVars, sendVars>>
<1> USE SyncTypes
<1>1. CASE GetInbox
  <2>1. ToSet(list) \in SUBSET Group
    BY ListGroups DEF TypeOK
  <2>2. WithGroups(ToSet(list), Got(ToSet(list))) /\ diskGroup' = diskGroup
    BY <1>1 DEF GetInbox, diskVars
  <2> QED
    BY <1>1, <2>1, <2>2, GotMerges DEF GetInbox
<1>2. CASE SaveGroups
  <2>1. WithGroups({}, Got({})) /\ diskGroup' = diskGroup
    BY <1>2 DEF SaveGroups
  <2>2. MergeGroups
    BY <2>1, GotMerges
  <2> QED
    BY <1>2, <2>2 DEF SaveGroups
<1>3. ASSUME NEW g \in Group, NEW unread \in Nat, NEW time \in Nat, Reading(g, unread, time),
             unread > 0 \/ time >= Loaded({g})[g].latest
      PROVE  MergeGroups /\ UNCHANGED <<now, ledgerVars, sendVars>>
  <2> DEFINE changed == [Got({g}) EXCEPT ![g].unread = unread, ![g].read = time]
  <2>1. WithGroups({g}, changed) /\ diskGroup' = diskGroup /\ UNCHANGED <<now, ledgerVars, sendVars>>
    BY <1>3 DEF Reading
  <2>2. changed \in [Group -> Object] /\ (CountInv => \A h \in Group : Counted(changed[h]))
    BY <1>3, ReadObjects
  <2> HIDE DEF changed
  <2> QED
    BY <2>1, <2>2 DEF MergeGroups
<1>4. CASE ReadStep
  <2>0. now \in Nat /\ ReadAhead \in Nat /\ SetAhead \in Nat
    <3>1. now \in 0..MaxTime /\ MaxTime \in Nat
      BY NumberAssumption DEF TypeOK, SyncTypeOK
    <3> QED
      BY <3>1, NumberAssumption
  <2>1. ASSUME NEW g \in Group, ClearUnreadCount(g)
        PROVE  MergeGroups /\ UNCHANGED <<now, ledgerVars, sendVars>>
    <3> DEFINE latest == Loaded({g})[g].latest
    <3>1. latest \in Nat
      BY LoadedObjects DEF Object
    <3> HIDE DEF latest
    <3>3. now + ReadAhead \in Nat
      BY <2>0
    <3>2. Later(now + ReadAhead, latest) \in Nat /\ Later(now + ReadAhead, latest) >= latest
      BY <3>1, <3>3, LaterTime
    <3> USE DEF latest
    <3> QED
      BY <1>3, <2>1, <3>2 DEF ClearUnreadCount
  <2>2. ASSUME NEW g \in Group, SetUnreadCount(g)
        PROVE  MergeGroups /\ UNCHANGED <<now, ledgerVars, sendVars>>
    <3>1. now + SetAhead \in Nat /\ 1 \in Nat /\ 1 > 0
      BY <2>0
    <3>2. Reading(g, 1, now + SetAhead)
      BY <2>2 DEF SetUnreadCount
    <3> HIDE DEF MergeGroups
    <3> QED
      BY <1>3, <3>1, <3>2
  <2> QED
    BY <1>4, <2>1, <2>2 DEF ReadStep
<1>5. ASSUME NEW m \in Message, TakeMessage(m)
      PROVE  MergeGroups /\ UNCHANGED <<now, ledgerVars, sendVars>>
  <2> DEFINE g == m.group
             changed == [Got({g}) EXCEPT ![g] = WithMessage(@, m)]
  <2>1. /\ m \in toInbox /\ WithGroups({g}, changed) /\ diskGroup' = diskGroup
        /\ UNCHANGED <<now, ledgerVars, sendVars>>
    BY <1>5 DEF TakeMessage, diskVars
  <2>2. /\ g \in Group /\ changed \in [Group -> Object]
        /\ CountInv => \A h \in Group : Counted(changed[h])
    BY <2>1, MessageObjects
  <2> HIDE DEF changed, g
  <2> QED
    BY <2>1, <2>2 DEF MergeGroups
<1>6. ASSUME NEW a \in adjusting, AdjustDone(a)
      PROVE  MergeGroups /\ UNCHANGED <<now, ledgerVars, sendVars>>
  <2>1. ToSet(a.base) \in SUBSET Group
    BY ListGroups DEF TypeOK
  <2>2. WithGroups(ToSet(a.base), Got(ToSet(a.base))) /\ diskGroup' = diskGroup
    BY <1>6 DEF AdjustDone, diskVars
  <2>3. MergeGroups
    BY <2>1, <2>2, GotMerges
  <2> QED
    BY <1>6, <2>3 DEF AdjustDone
<1> QED
  BY <1>1, <1>2, <1>4, <1>5, <1>6 DEF MergeStep

\* A stop without a write timer stores nothing.
LEMMA StoredNone ==
    ASSUME ObjectType
    PROVE  Stored({}) = diskGroup
BY DEF Stored, ObjectType

\* The writes of local storage store cached groups as they are.
LEMMA SameObjects ==
    ASSUME ObjectType, cached' = cached, group' = group, NEW ws, diskGroup' = Stored(ws)
    PROVE  RereadGroups
<1>1. ASSUME NEW g \in Group PROVE Reread(group'[g], group[g])
  <2>1. group[g] \in Object /\ group'[g] = group[g]
    BY DEF ObjectType
  <2> QED
    BY <2>1 DEF Reread, Object
<1> QED
  BY <1>1 DEF RereadGroups, ObjectType

\* A send that takes the times of the cached groups: P says whether it does.
LEMMA SendRereads ==
    ASSUME TypeOK, NEW p \in BOOLEAN,
           group' = [g \in Group |-> [group[g] EXCEPT !.read =
                        IF p /\ g \in cached THEN Corrected(items, CachedReads)[g] ELSE @]],
           UNCHANGED <<cached, diskGroup>>
    PROVE  RereadGroups
<1>1. ASSUME NEW g \in Group PROVE group'[g] \in Object /\ Reread(group'[g], group[g])
  <2> DEFINE t == IF p /\ g \in cached THEN Corrected(items, CachedReads)[g] ELSE group[g].read
  <2>1. group[g] \in Object /\ group[g].read \in Nat /\ items[g] \in Nat
    BY SyncTypes DEF ObjectType, Object, Times
  <2>2. g \in cached => Corrected(items, CachedReads)[g] = Later(items[g], group[g].read)
    BY DEF Corrected, CachedReads, Reads
  <2>3. t \in Nat /\ t >= group[g].read
    BY <2>1, <2>2, LaterTime
  <2>4. group'[g] = [group[g] EXCEPT !.read = t]
    OBVIOUS
  <2> HIDE DEF t
  <2> QED
    BY <2>1, <2>3, <2>4 DEF Reread, Object
<1>2. group' \in [Group -> Object]
  BY <1>1
<1>3. diskGroup' = Stored({})
  BY SyncTypes, StoredNone
<1> QED
  BY <1>1, <1>2, <1>3 DEF RereadGroups

\* Every step does one of the three.
LEMMA GroupSteps ==
    ASSUME TypeOK, [Next]_vars
    PROVE  MergeGroups \/ RereadGroups \/ ForgetGroups
<1> DEFINE Goal == MergeGroups \/ RereadGroups \/ ForgetGroups
<1>1. ObjectType /\ Stored({}) = diskGroup
  BY SyncTypes, StoredNone
<1>2. ASSUME UNCHANGED <<cached, group, diskGroup>> PROVE Goal
  BY <1>1, <1>2, SameObjects
<1>3. ASSUME UNCHANGED inboxVars PROVE Goal
  BY <1>2, <1>3 DEF inboxVars
<1>4. ASSUME MergeStep PROVE Goal
  BY <1>4, MergeSteps
<1>5. ASSUME SaveList \/ LoopEnds \/ Start PROVE Goal
  <2>1. UNCHANGED <<cached, group, diskGroup>>
    BY <1>5 DEF SaveList, LoopEnds, Start, diskVars
  <2> QED
    BY <1>2, <2>1
<1>6. ASSUME NEW g \in Group, FireWrite(g) PROVE Goal
  <2>1. UNCHANGED <<cached, group>> /\ diskGroup' = Stored({g})
    BY <1>6 DEF FireWrite
  <2> QED
    BY <1>1, <2>1, SameObjects
<1>7. ASSUME Command PROVE Goal
  <2> DEFINE p == task # "none"
  <2>1. /\ UNCHANGED <<cached, diskGroup>>
        /\ group' = [g \in Group |-> [group[g] EXCEPT !.read =
                        IF p /\ g \in cached THEN Corrected(items, CachedReads)[g] ELSE @]]
    BY <1>7 DEF Command, diskVars
  <2>2. p \in BOOLEAN
    OBVIOUS
  <2> HIDE DEF p
  <2> QED
    BY <2>1, <2>2, SendRereads
<1>8. ASSUME Clean PROVE Goal
  <2> DEFINE p == TRUE
  <2>1. /\ UNCHANGED <<cached, diskGroup>>
        /\ group' = [g \in Group |-> [group[g] EXCEPT !.read =
                        IF p /\ g \in cached THEN Corrected(items, CachedReads)[g] ELSE @]]
    BY <1>8 DEF Clean, diskVars
  <2>2. p \in BOOLEAN
    OBVIOUS
  <2> HIDE DEF p
  <2> QED
    BY <2>1, <2>2, SendRereads
<1>9. ASSUME Stop PROVE Goal
  BY <1>9 DEF Stop, ForgetGroups
<1>10. ASSUME Close PROVE Goal
  <2>1. cached' = {} /\ group' = [g \in Group |-> NewGroup] /\ diskGroup' = diskGroup
    BY <1>10 DEF Close
  <2> QED
    BY <1>1, <2>1 DEF ForgetGroups
<1> HIDE DEF Goal
<1>11. Goal
  <2>1. CASE UNCHANGED vars
    BY <1>3, <2>1 DEF vars
  <2>2. CASE Next
    BY <1>3, <1>4, <1>5, <1>6, <1>7, <1>8, <1>9, <1>10, <2>2 DEF Next, MergeStep, ReadStep
  <2> QED
    BY <2>1, <2>2
<1> QED
  BY <1>11 DEF Goal

\* A group that is forgotten is as a new one.
LEMMA NewObject ==
    /\ NewGroup \in Object /\ NewGroup.latest = 0 /\ Counted(NewGroup)
    /\ [g \in Group |-> NewGroup] \in [Group -> Object]
BY DEF NewGroup, Object, Counted

\* The objects keep their types, and what they count.
LEMMA ObjectsNext ==
    ASSUME TypeOK, [Next]_vars
    PROVE  /\ group' \in [Group -> Object] /\ diskGroup' \in [Group -> Object]
           /\ cached' \subseteq Group
           /\ CountInv => CountInv'
<1> DEFINE Goal == /\ group' \in [Group -> Object] /\ diskGroup' \in [Group -> Object]
                   /\ cached' \subseteq Group
                   /\ CountInv => CountInv'
<1>1. ObjectType /\ cached \subseteq Group
  BY SyncTypes DEF TypeOK
<1>2. ASSUME NEW ws, diskGroup' = Stored(ws)
      PROVE  /\ diskGroup' \in [Group -> Object]
             /\ CountInv => \A g \in Group : Counted(diskGroup'[g])
  BY <1>1, <1>2 DEF Stored, ObjectType, CountInv
<1>3. ASSUME MergeGroups PROVE Goal
  <2>1. PICK gs \in SUBSET Group, changed \in [Group -> Object] :
            /\ WithGroups(gs, changed)
            /\ CountInv => \A g \in Group : Counted(changed[g])
            /\ diskGroup' = diskGroup
    BY <1>3 DEF MergeGroups
  <2>2. /\ group' \in [Group -> Object] /\ \A g \in Group : Reread(group'[g], changed[g])
        /\ cached' = cached \union gs
    BY <1>1, <2>1, WithGroupsMerges
  <2>3. ASSUME CountInv, NEW g \in Group PROVE Counted(group'[g])
    <3>1. changed[g] \in Object /\ group'[g].read \in Nat /\ Reread(group'[g], changed[g])
      BY <2>2 DEF Object
    <3> QED
      BY <2>1, <2>3, <3>1, RereadCounted
  <2> QED
    BY <1>1, <2>1, <2>2, <2>3 DEF CountInv, ObjectType
<1>4. ASSUME RereadGroups PROVE Goal
  <2>1. /\ group' \in [Group -> Object] /\ \A g \in Group : Reread(group'[g], group[g])
        /\ cached' = cached
    BY <1>4 DEF RereadGroups
  <2>2. ASSUME CountInv, NEW g \in Group PROVE Counted(group'[g])
    <3>1. group[g] \in Object /\ group'[g].read \in Nat /\ Reread(group'[g], group[g])
      BY <1>1, <2>1 DEF Object, ObjectType
    <3> QED
      BY <2>2, <3>1, RereadCounted DEF CountInv
  <2>3. PICK ws : diskGroup' = Stored(ws)
    BY <1>4 DEF RereadGroups
  <2> QED
    BY <1>1, <1>2, <2>1, <2>2, <2>3 DEF CountInv
<1>5. ASSUME ForgetGroups PROVE Goal
  <2>1. cached' = {} /\ group' = [g \in Group |-> NewGroup]
    BY <1>5 DEF ForgetGroups
  <2>2. PICK ws : diskGroup' = Stored(ws)
    BY <1>5 DEF ForgetGroups
  <2>3. \A g \in Group : Counted(group'[g])
    BY <2>1, NewObject
  <2> QED
    BY <1>2, <2>1, <2>2, <2>3, NewObject DEF CountInv
<1> HIDE DEF Goal
<1>6. Goal
  BY <1>3, <1>4, <1>5, GroupSteps
<1> QED
  BY <1>6 DEF Goal

-----------------------------------------------------------------------------
(* The types of the sync.                                                  *)

\* A merge of a send, in memory and in the part it makes.
LEMMA TimestampsMerge ==
    ASSUME TypeOK, SyncTimestamps(CachedReads)
    PROVE  /\ items' \in Times /\ \A g \in Group : items'[g] >= items[g]
           /\ [items |-> items', takes |-> source] \in Part(Len(ledger))
           /\ temps' \in Seq(Part(Len(ledger)))
           /\ used' = TRUE /\ UNCHANGED <<source, inited, shouldLoad, asked>>
<1>1. /\ items \in Times /\ source \in 0..Len(ledger) /\ temps \in Seq(Part(Len(ledger)))
      /\ group \in [Group -> Object]
  BY SyncTypes DEF ObjectType
<1>2. items' = Latest(items, CachedReads)
  BY DEF SyncTimestamps
<1>3. \A g \in Group \intersect DOMAIN CachedReads : CachedReads[g] \in Nat
  BY <1>1, ReadsTimes DEF CachedReads
<1>4. items' \in Times /\ \A g \in Group : items'[g] >= items[g]
  BY <1>1, <1>2, <1>3, LatestTimes
<1> DEFINE new == [items |-> items', takes |-> source]
<1>5. new \in Part(Len(ledger))
  BY <1>1, <1>4 DEF Part
<1>6. temps' = temps \/ temps' = Append(temps, new)
  BY DEF SyncTimestamps
<1> HIDE DEF new
<1>7. temps' \in Seq(Part(Len(ledger)))
  BY <1>1, <1>5, <1>6, AppendProperties
<1> USE DEF new
<1> QED
  BY <1>4, <1>5, <1>7 DEF SyncTimestamps

\* A sending, done or refused by the wallet, keeps the types.
LEMMA SendTypes ==
    ASSUME TypeOK, Send \/ SendThrows \/ UNCHANGED <<temps, sent>>
    PROVE  /\ temps' \in Seq(Part(Len(ledger)))
           /\ sent' \subseteq Seq(Part(Len(ledger))) \ {<<>>}
<1>1. temps \in Seq(Part(Len(ledger))) /\ sent \subseteq Seq(Part(Len(ledger))) \ {<<>>}
  BY SyncTypes
<1>2. <<>> \in Seq(Part(Len(ledger)))
  BY EmptySeq
<1> QED
  BY <1>1, <1>2 DEF Send, SendThrows

\* While the ledger stays as it is.
LEMMA SyncTypesStay ==
    ASSUME TypeInv, UNCHANGED <<ledger, now>>,
           notice' \in BOOLEAN, used' \in BOOLEAN, inited' \in BOOLEAN, shouldLoad' \in BOOLEAN,
           items' \in Times, source' \in 0..Len(ledger),
           asked' \subseteq 0..Len(ledger), \A m, n \in asked' : m = n,
           task' \in {"none", "waits", "due"}, sending' \in {"no", "user", "clean"},
           temps' \in Seq(Part(Len(ledger))), sent' \subseteq Seq(Part(Len(ledger))) \ {<<>>}
    PROVE  SyncTypeOK' /\ LedgerInv'
BY DEF TypeInv, TypeOK, SyncTypeOK, LedgerInv, Part

\* When it grows nothing else changes but what is sent.
LEMMA SyncTypesGrow ==
    ASSUME TypeInv, LedgerGrows, UNCHANGED <<now, stateVars, sending, temps, task>>,
           notice' \in BOOLEAN, sent' \subseteq sent
    PROVE  SyncTypeOK' /\ LedgerInv'
<1>1. /\ source \in 0..Len(ledger) /\ asked \subseteq 0..Len(ledger) /\ Len(ledger) \in Nat
      /\ temps \in Seq(Part(Len(ledger))) /\ sent \subseteq Seq(Part(Len(ledger))) \ {<<>>}
  BY SyncTypes DEF TypeInv
<1>2. ledger' \in Seq(Output) /\ Len(ledger') \in Nat /\ Len(ledger) <= Len(ledger') /\ LedgerInv'
  BY <1>1 DEF LedgerGrows
<1>3. /\ 0..Len(ledger) \subseteq 0..Len(ledger')
      /\ Seq(Part(Len(ledger))) \subseteq Seq(Part(Len(ledger')))
  BY <1>1, <1>2, PartsGrow
<1>4. source' \in 0..Len(ledger') /\ asked' \subseteq 0..Len(ledger')
  BY <1>1, <1>3 DEF stateVars
<1>5. temps' \in Seq(Part(Len(ledger'))) /\ sent' \subseteq Seq(Part(Len(ledger'))) \ {<<>>}
  BY <1>1, <1>3
<1>6. /\ now' \in 0..MaxTime /\ items' \in Times
      /\ {notice', used', inited', shouldLoad'} \subseteq BOOLEAN /\ \A m, n \in asked' : m = n
      /\ task' \in {"none", "waits", "due"} /\ sending' \in {"no", "user", "clean"}
  BY DEF TypeInv, TypeOK, SyncTypeOK, stateVars
<1> QED
  BY <1>2, <1>4, <1>5, <1>6 DEF SyncTypeOK, Output, Part

\* The types of the state sync, and the ledger: a case per action.
LEMMA SyncTypesNext ==
    ASSUME TypeInv, [Next]_vars
    PROVE  SyncTypeOK' /\ LedgerInv'
<1> DEFINE Goal == SyncTypeOK' /\ LedgerInv'
<1>1. TypeOK
  BY DEF TypeInv
<1>2. /\ now \in 0..MaxTime /\ notice \in BOOLEAN /\ used \in BOOLEAN /\ inited \in BOOLEAN
      /\ shouldLoad \in BOOLEAN /\ items \in Times /\ source \in 0..Len(ledger)
      /\ asked \subseteq 0..Len(ledger) /\ \A m, n \in asked : m = n
      /\ task \in {"none", "waits", "due"} /\ sending \in {"no", "user", "clean"}
      /\ temps \in Seq(Part(Len(ledger))) /\ sent \subseteq Seq(Part(Len(ledger))) \ {<<>>}
      /\ Len(ledger) \in Nat /\ DOMAIN ledger = 1..Len(ledger) /\ ledger \in Seq(Output)
  <2>1. now \in 0..MaxTime /\ notice \in BOOLEAN /\ inited \in BOOLEAN /\ shouldLoad \in BOOLEAN
        /\ task \in {"none", "waits", "due"} /\ sending \in {"no", "user", "clean"}
    BY <1>1 DEF TypeOK, SyncTypeOK
  <2> QED
    BY <1>1, <2>1, SyncTypes
<1>3. NoTimes \in Times /\ <<>> \in Seq(Part(Len(ledger))) /\ 0 \in 0..Len(ledger) /\ FALSE \in BOOLEAN
  <2>1. 0 \in 0..Len(ledger)
    BY <1>2
  <2>2. NoTimes \in Times
    BY DEF NoTimes, Times
  <2> QED
    BY <2>1, <2>2, EmptySeq
<1>4. ASSUME UNCHANGED syncVars PROVE Goal
  BY <1>2, <1>4, SyncTypesStay DEF syncVars
<1>5. ASSUME Tick PROVE Goal
  <2>1. now' \in 0..MaxTime
    BY <1>2, <1>5, NumberAssumption DEF Tick
  <2> QED
    BY <1>1, <1>5, <2>1 DEF TypeInv, TypeOK, SyncTypeOK, LedgerInv, Tick, ledgerVars, stateVars, sendVars
<1>6. ASSUME UserSends PROVE Goal
  <2>1. /\ UNCHANGED <<now, ledger, notice, items, source, used, inited, shouldLoad, asked, task>>
        /\ sending' = "no" /\ (Send \/ SendThrows \/ UNCHANGED <<temps, sent>>)
    BY <1>6 DEF UserSends, ledgerVars, stateVars
  <2>2. temps' \in Seq(Part(Len(ledger))) /\ sent' \subseteq Seq(Part(Len(ledger))) \ {<<>>}
    BY <1>1, <2>1, SendTypes
  <2> QED
    BY <1>2, <2>1, <2>2, SyncTypesStay
<1>7. ASSUME Expire PROVE Goal
  BY <1>2, <1>7, SyncTypesStay DEF Expire, ledgerVars, stateVars, sendVars
<1>8. ASSUME Cleaned PROVE Goal
  <2>1. /\ UNCHANGED <<now, ledger, notice, items, source, used, inited, shouldLoad, asked>>
        /\ task' = "none" /\ sending' = "no" /\ (Send \/ SendThrows \/ UNCHANGED <<temps, sent>>)
    BY <1>8 DEF Cleaned, ledgerVars, stateVars
  <2>2. temps' \in Seq(Part(Len(ledger))) /\ sent' \subseteq Seq(Part(Len(ledger))) \ {<<>>}
    BY <1>1, <2>1, SendTypes
  <2> QED
    BY <1>2, <2>1, <2>2, SyncTypesStay
<1>9. ASSUME EventArrives PROVE Goal
  BY <1>2, <1>9, SyncTypesStay DEF EventArrives, sendVars
<1>10. ASSUME FetchState PROVE Goal
  <2>1. Newest \in 0..Len(ledger)
    BY <1>2, NewestIsLast
  <2> QED
    BY <1>2, <1>10, <2>1, SyncTypesStay DEF FetchState, ledgerVars, sendVars
<1>11. ASSUME Fetched PROVE Goal
  <2>1. PICK new \in asked : source' = new /\ items' = ledger[new].items /\ used' = (used /\ (source = 0 \/ source = new))
    BY <1>11 DEF Fetched
  <2>2. asked # {0}
    BY <1>11 DEF Fetched
  <2>3. new \in 1..Len(ledger)
    <3>1. \A n \in asked : n = new
      BY <1>2
    <3>2. new # 0
      BY <2>2, <3>1
    <3>3. new \in 0..Len(ledger)
      BY <1>2
    <3> QED
      BY <1>2, <3>2, <3>3
  <2>4. items' \in Times
    <3>1. ledger[new] \in Output
      BY <1>2, <2>3, ElementOfSeq
    <3> QED
      BY <2>1, <3>1 DEF Output
  <2>5. source' \in 0..Len(ledger) /\ used' \in BOOLEAN
    BY <1>2, <2>1, <2>3
  <2> QED
    BY <1>2, <1>11, <2>4, <2>5, SyncTypesStay DEF Fetched, ledgerVars, sendVars
<1>12. ASSUME FetchEmpty PROVE Goal
  BY <1>2, <1>12, SyncTypesStay DEF FetchEmpty, ledgerVars, sendVars
<1>13. ASSUME NEW tx \in sent, Confirm(tx) PROVE Goal
  <2>1. LedgerGrows
    BY <1>1, <1>13, ConfirmLedger
  <2> QED
    BY <1>13, <2>1, SyncTypesGrow DEF Confirm
<1>14. ASSUME NEW tx \in sent, Refuse(tx) PROVE Goal
  <2>1. sent' \subseteq Seq(Part(Len(ledger))) \ {<<>>}
    BY <1>2, <1>14 DEF Refuse
  <2> QED
    BY <1>2, <1>14, <2>1, SyncTypesStay DEF Refuse, ledgerVars, stateVars
<1>15. ASSUME NEW g \in Group, Foreign(g) PROVE Goal
  <2>1. LedgerGrows
    BY <1>15, ForeignLedger
  <2> QED
    BY <1>15, <2>1, SyncTypesGrow DEF Foreign, sendVars
<1>16. ASSUME MergeStep PROVE Goal
  <2>1. MergeGroups /\ UNCHANGED <<now, ledger, notice, sending, temps, sent>>
    BY <1>1, <1>16, MergeSteps DEF ledgerVars, sendVars
  <2>2. /\ items' \in Times /\ task' \in {"waits", task}
        /\ UNCHANGED <<source, used, inited, shouldLoad, asked>>
    BY <1>1, <2>1, SyncTypes, WithGroupsMerges DEF MergeGroups
  <2> QED
    BY <1>2, <2>1, <2>2, SyncTypesStay
<1>17. ASSUME Command PROVE Goal
  <2>1. UserCommand(CachedReads)
    BY <1>17 DEF Command
  <2>2. UNCHANGED <<now, ledger, notice, sent>> /\ sending' = "user" /\ task' = "none"
    BY <2>1 DEF UserCommand, ledgerVars
  <2>3. SyncTimestamps(CachedReads) \/ UNCHANGED <<items, source, used, inited, shouldLoad, asked, temps>>
    BY <2>1 DEF UserCommand, stateVars
  <2>4. CASE SyncTimestamps(CachedReads)
    BY <1>1, <1>2, <2>2, <2>4, TimestampsMerge, SyncTypesStay
  <2>5. CASE UNCHANGED <<items, source, used, inited, shouldLoad, asked, temps>>
    BY <1>2, <2>2, <2>5, SyncTypesStay
  <2> QED
    BY <2>3, <2>4, <2>5
<1>18. ASSUME Clean PROVE Goal
  <2>1. CleanExpired(CachedReads)
    BY <1>18 DEF Clean
  <2>2. /\ UNCHANGED <<now, ledger, notice, sent, task>> /\ sending' = "clean"
        /\ SyncTimestamps(CachedReads)
    BY <2>1 DEF CleanExpired, ledgerVars
  <2> QED
    BY <1>1, <1>2, <2>2, TimestampsMerge, SyncTypesStay
<1>19. ASSUME Stop PROVE Goal
  <2>1. /\ items' = NoTimes /\ source' = 0 /\ used' = FALSE /\ inited' = FALSE
        /\ UNCHANGED <<now, ledger, notice, shouldLoad, asked, task, sending, temps, sent>>
    BY <1>19 DEF Stop, ClearState, ledgerVars, sendVars
  <2>2. source' \in 0..Len(ledger) /\ used' \in BOOLEAN /\ inited' \in BOOLEAN /\ items' \in Times
    BY ONLY <1>3, <2>1
  <2> QED
    BY <1>2, <2>1, <2>2, SyncTypesStay
<1>20. ASSUME Close PROVE Goal
  <2>1. /\ items' = NoTimes /\ source' = 0 /\ used' = FALSE /\ inited' = FALSE
        /\ shouldLoad' = FALSE /\ asked' = {} /\ task' = "none" /\ sending' = "no" /\ temps' = <<>>
        /\ UNCHANGED <<now, ledger, notice, sent>>
    BY <1>20 DEF Close, ledgerVars
  <2>2. source' \in 0..Len(ledger) /\ used' \in BOOLEAN /\ inited' \in BOOLEAN /\ items' \in Times
    BY ONLY <1>3, <2>1
  <2>3. /\ asked' \subseteq 0..Len(ledger) /\ \A m, n \in asked' : m = n
        /\ shouldLoad' \in BOOLEAN /\ task' \in {"none", "waits", "due"}
        /\ sending' \in {"no", "user", "clean"} /\ temps' \in Seq(Part(Len(ledger)))
    BY <1>3, <2>1
  <2>4. /\ UNCHANGED <<ledger, now>> /\ notice' \in BOOLEAN
        /\ sent' \subseteq Seq(Part(Len(ledger))) \ {<<>>}
    BY <1>2, <2>1
  <2> QED
    BY <2>2, <2>3, <2>4, SyncTypesStay
<1>21. ASSUME SaveList \/ LoopEnds \/ Start \/ \E g \in Group : FireWrite(g) PROVE Goal
  BY <1>4, <1>21 DEF SaveList, LoopEnds, Start, FireWrite
<1> HIDE DEF Goal
<1>22. Goal
  <2>1. CASE UNCHANGED vars
    BY <1>4, <2>1 DEF vars
  <2>2. CASE SyncNext
    BY <1>5, <1>6, <1>7, <1>8, <1>9, <1>10, <1>11, <1>12, <1>13, <1>14, <1>15, <2>2 DEF SyncNext
  <2>3. CASE Next
    BY <2>2, <2>3, <1>16, <1>17, <1>18, <1>19, <1>20, <1>21 DEF Next, MergeStep, ReadStep
  <2> QED
    BY <2>1, <2>3
<1> QED
  BY <1>22 DEF Goal

-----------------------------------------------------------------------------
(* The types of the lists.                                                 *)

Update == [group : Group, time : Nat, base : Seq(Group)]
ListTypes ==
    /\ dirtyGroups \subseteq Group /\ writes \subseteq cached
    /\ list \in Seq(Group) /\ diskList \in Seq(Group)
    /\ adjusting \subseteq Update
    /\ toInbox \subseteq Message /\ dirtyList \in BOOLEAN /\ loop \in {"runs", "drains", "rests"}
    /\ astray \subseteq Group

\* The types of the list: a case per action.
LEMMA ListTypesNext ==
    ASSUME TypeOK, [Next]_vars
    PROVE  ListTypes'
<1>1. ListTypes /\ cached \subseteq Group
  BY DEF TypeOK, ListTypes, Update
<1>2. Waiting \subseteq Group
  BY <1>1 DEF Waiting, ListTypes, Update
<1>3. ASSUME UNCHANGED inboxVars PROVE ListTypes'
  BY <1>1, <1>3 DEF ListTypes, inboxVars
<1>4. ASSUME GetInbox PROVE ListTypes'
  <2>1. cached \subseteq cached'
    BY <1>4 DEF GetInbox, WithGroups
  <2> QED
    BY <1>1, <1>4, <2>1 DEF ListTypes, GetInbox, memoryVars, diskVars
<1>5. ASSUME SaveGroups PROVE ListTypes'
  <2>1. cached' = cached \union {}
    BY <1>5 DEF SaveGroups, WithGroups
  <2> QED
    BY <1>1, <1>2, <1>5, <2>1 DEF ListTypes, SaveGroups
<1>6. ASSUME NEW g \in Group, ClearUnreadCount(g) \/ SetUnreadCount(g) PROVE ListTypes'
  <2>1. PICK unread, time : Reading(g, unread, time)
    BY <1>6 DEF ClearUnreadCount, SetUnreadCount
  <2>2. cached' = cached \union {g}
    BY <2>1 DEF Reading, WithGroups
  <2> QED
    BY <1>1, <2>1, <2>2 DEF ListTypes, Reading, memoryVars
<1>7. ASSUME NEW m \in Message, TakeMessage(m) PROVE ListTypes'
  <2> DEFINE g == m.group
             new == [group |-> g, time |-> m.time, base |-> list]
  <2>1. g \in Group /\ m.time \in Nat
    BY MessageAssumption
  <2>2. cached' = cached \union {g} /\ UNCHANGED <<writes, diskList, loop>>
    BY <1>7 DEF TakeMessage, WithGroups, diskVars
  <2>3. list' = list \/ list' = Adjusted(g, m.time, list, group')
    BY <1>7 DEF TakeMessage
  <2>4. Adjusted(g, m.time, list, group') \in Seq(Group)
    BY <1>1, <2>1, AdjustedList DEF ListTypes
  <2>5. adjusting' = adjusting \/ adjusting' = adjusting \union {new}
    BY <1>7 DEF TakeMessage
  <2>6. new \in Update
    BY <1>1, <2>1 DEF ListTypes, Update
  <2>7. dirtyGroups' \subseteq dirtyGroups \union {g} /\ toInbox' \subseteq toInbox /\ dirtyList' \in BOOLEAN
    BY <1>7 DEF TakeMessage
  <2>8. astray' \subseteq astray \union {g} \union Waiting
    BY <1>7 DEF TakeMessage
  <2> HIDE DEF new, g
  <2> QED
    BY <1>1, <1>2, <2>1, <2>2, <2>3, <2>4, <2>5, <2>6, <2>7, <2>8 DEF ListTypes
<1>8. ASSUME NEW a \in adjusting, AdjustDone(a) PROVE ListTypes'
  <2>1. /\ cached \subseteq cached' /\ dirtyList' = TRUE /\ adjusting' = adjusting \ {a}
        /\ list' = Adjusted(a.group, a.time, a.base, group')
        /\ UNCHANGED <<dirtyGroups, writes, diskList, loop, toInbox, astray>>
    BY <1>8 DEF AdjustDone, WithGroups, diskVars
  <2>2. a.group \in Group /\ a.base \in Seq(Group)
    BY <1>1 DEF ListTypes, Update
  <2>3. list' \in Seq(Group)
    BY <2>1, <2>2, AdjustedList
  <2> QED
    BY <1>1, <2>1, <2>3 DEF ListTypes
<1>9. ASSUME SaveList PROVE ListTypes'
  BY <1>1, <1>9 DEF ListTypes, SaveList
<1>10. ASSUME NEW g \in Group, FireWrite(g) PROVE ListTypes'
  BY <1>1, <1>10 DEF ListTypes, FireWrite, memoryVars
<1>11. ASSUME Command \/ Clean PROVE ListTypes'
  BY <1>1, <1>11 DEF ListTypes, Command, Clean, memoryVars, diskVars
<1>12. ASSUME Stop PROVE ListTypes'
  <2>1. /\ loop' = "drains" /\ cached' = {} /\ writes' = {}
        /\ UNCHANGED <<list, dirtyList, dirtyGroups, adjusting, diskList, toInbox, astray>>
    BY <1>12 DEF Stop, memoryVars
  <2> QED
    BY <1>1, <2>1 DEF ListTypes
<1>13. ASSUME LoopEnds \/ Start PROVE ListTypes'
  BY <1>1, <1>13 DEF ListTypes, LoopEnds, Start, memoryVars, diskVars
<1>14. ASSUME Close PROVE ListTypes'
  <2>1. /\ loop' = "runs" /\ cached' = {} /\ writes' = {} /\ list' = diskList /\ dirtyList' = FALSE
        /\ dirtyGroups' = {} /\ adjusting' = {} /\ UNCHANGED <<diskList, toInbox, astray>>
    BY <1>14 DEF Close
  <2> QED
    BY <1>1, <2>1 DEF ListTypes
<1> QED
  BY <1>3, <1>4, <1>5, <1>6, <1>7, <1>8, <1>9, <1>10, <1>11, <1>12, <1>13, <1>14 DEF Next, vars

\* The first state has the types.
LEMMA TypeInit ==
    ASSUME Init
    PROVE  TypeInv
<1>1. SyncTypeOK /\ LedgerInv
  <2> DEFINE first == [items |-> NoTimes, spent |-> FALSE]
  <2>1. NoTimes \in Times /\ first \in Output
    BY DEF NoTimes, Times, Output
  <2>2. <<>> \in Seq(Output) /\ <<>> \in Seq(Part(Len(ledger)))
    BY EmptySeq
  <2>3. <<first>> \in Seq(Output) /\ Len(<<first>>) = 1 /\ <<first>>[1] = first
    BY <2>1
  <2>4. ledger \in {<<>>, <<first>>}
    BY DEF Init, SyncInit
  <2>5. ledger \in Seq(Output) /\ Len(ledger) \in Nat
    BY <2>2, <2>3, <2>4, LenProperties
  <2>6. LedgerInv
    BY <2>3, <2>4 DEF LedgerInv
  <2>7. 0 \in 0..Len(ledger) /\ 0 \in 0..MaxTime
    BY <2>5, NumberAssumption
  <2>8. temps \in Seq(Part(Len(ledger))) /\ sent \subseteq Seq(Part(Len(ledger))) \ {<<>>}
    BY <2>2 DEF Init, SyncInit
  <2> HIDE DEF first
  <2> QED
    BY <2>1, <2>5, <2>6, <2>7, <2>8 DEF Init, SyncInit, SyncTypeOK, Output, Part
<1>2. ListTypes
  <2>1. left.messages \subseteq Message
    BY BoundsAssumption DEF Init, SyncInit
  <2>2. <<>> \in Seq(Group)
    BY EmptySeq
  <2> QED
    BY <2>1, <2>2 DEF Init, InboxInit, ListTypes
<1>3. cached \subseteq Group /\ group \in [Group -> Object] /\ diskGroup \in [Group -> Object]
  BY NewObject DEF Init, InboxInit
<1> QED
  BY <1>1, <1>2, <1>3 DEF TypeInv, TypeOK, ListTypes, Update

\* Every step keeps the types.
LEMMA TypeStep ==
    ASSUME TypeInv, [Next]_vars
    PROVE  TypeInv'
<1>1. TypeOK
  BY DEF TypeInv
<1>2. SyncTypeOK' /\ LedgerInv'
  BY SyncTypesNext
<1>3. ListTypes'
  BY <1>1, ListTypesNext
<1>4. group' \in [Group -> Object] /\ diskGroup' \in [Group -> Object] /\ cached' \subseteq Group
  BY <1>1, ObjectsNext
<1> QED
  BY <1>2, <1>3, <1>4 DEF TypeInv, TypeOK, ListTypes, Update

\* Every variable of InboxDomain and of the sync stays within its type, and
\* the last state output of the ledger is not spent.
THEOREM TypeCorrect == Spec => []TypeInv
<1>1. Init => TypeInv
  BY TypeInit
<1>2. TypeInv /\ [Next]_vars => TypeInv'
  BY TypeStep
<1> QED
  BY <1>1, <1>2, PTL DEF Spec

-----------------------------------------------------------------------------
(* What is read and what is counted.                                       *)

\* A message later than the time of reading of its group is counted, of a
\* cached group and of a stored one (setUnreadCount, clearUnreadCount, poll).
THEOREM UnreadRight == Spec => []UnreadCounted
<1>1. Init => CountInv
  BY NewObject DEF Init, InboxInit, CountInv
<1>2. TypeInv /\ CountInv /\ [Next]_vars => CountInv'
  BY ObjectsNext DEF TypeInv
<1>3. TypeInv /\ CountInv => UnreadCounted
  <2> SUFFICES ASSUME TypeInv, CountInv, NEW g \in Group, NEW m \in Current(g).seen,
                      m.time > Current(g).read
               PROVE  Current(g).unread > 0
    BY DEF UnreadCounted
  <2>1. Counted(Current(g))
    BY DEF CountInv, Current
  <2> QED
    BY <2>1 DEF Counted
<1> QED
  BY <1>1, <1>2, <1>3, TypeCorrect, PTL DEF Spec

\* No step turns the time of reading of a cached group back, whatever the
\* merges with the state output bring (getGroup, setGroup).
THEOREM ReadKept == Spec => ReadStays
<1> DEFINE Kept == \A g \in cached \intersect cached' : group'[g].read >= group[g].read
<1>1. TypeInv /\ [Next]_vars => [Kept]_vars
  <2> SUFFICES ASSUME TypeInv, [Next]_vars PROVE Kept
    OBVIOUS
  <2>1. ObjectType /\ cached \subseteq Group
    BY SyncTypes DEF TypeInv, TypeOK
  <2>2. CASE MergeGroups
    BY <2>1, <2>2, WithGroupsMerges DEF MergeGroups
  <2>3. CASE RereadGroups
    BY <2>1, <2>3 DEF RereadGroups, Reread
  <2>4. CASE ForgetGroups
    BY <2>4 DEF ForgetGroups
  <2> QED
    BY <2>2, <2>3, <2>4, GroupSteps DEF TypeInv
<1> QED
  BY <1>1, TypeCorrect, PTL DEF Spec, ReadStays

-----------------------------------------------------------------------------
(* What a step does to the sync.                                           *)

LaterItems == items' \in Times /\ \A g \in Group : items'[g] >= items[g]
NewPart == [items |-> items', takes |-> source]

\* The times in memory are merged with those of the groups, or nothing happens.
Merges == LaterItems /\ UNCHANGED <<ledger, source, used, asked, temps, sent>>

\* A part is made that takes the output in memory.
Syncs == LaterItems /\ ~used /\ used' /\ temps' = Append(temps, NewPart)
         /\ UNCHANGED <<ledger, source, asked, sent>>

Clears ==
    /\ items' = NoTimes /\ source' = 0 /\ used' = FALSE
    /\ asked' \subseteq asked /\ temps' \in {temps, <<>>} /\ UNCHANGED <<ledger, sent>>
    /\ BusyRestart \/ (sent = {} /\ temps' = <<>> /\ asked' = {})

Sends == temps' = <<>> /\ sent' \in {sent, sent \union {temps}}
         /\ UNCHANGED <<ledger, items, source, used, asked>>

\* The ledger takes a transaction or refuses it, or another device has sent one.
Grows == LedgerGrows /\ sent' \subseteq sent /\ UNCHANGED <<items, source, used, asked, temps>>

Asks == asked' \subseteq {Len(ledger)} /\ UNCHANGED <<ledger, items, source, used, temps, sent>>

Fetches ==
    /\ \E new \in asked \ {0} :
           /\ used' = (used /\ (source = 0 \/ source = new))
           /\ source' = new /\ items' = ledger[new].items
    /\ asked' = {} /\ UNCHANGED <<ledger, temps, sent>>

\* Every step does one of seven things to the state sync.
LEMMA SyncSteps ==
    ASSUME TypeInv, [Next]_vars
    PROVE  Merges \/ Syncs \/ Clears \/ Sends \/ Grows \/ Asks \/ Fetches
<1> DEFINE Goal == Merges \/ Syncs \/ Clears \/ Sends \/ Grows \/ Asks \/ Fetches
<1>1. TypeOK /\ items \in Times /\ used \in BOOLEAN
  BY SyncTypes DEF TypeInv
<1>2. \A g \in Group : items[g] >= items[g]
  BY <1>1 DEF Times
<1>3. ASSUME UNCHANGED <<ledger, items, source, used, asked, temps, sent>> PROVE Goal
  BY <1>1, <1>2, <1>3 DEF Merges, LaterItems
<1>4. ASSUME UNCHANGED syncVars PROVE Goal
  BY <1>3, <1>4 DEF syncVars
<1>5. ASSUME Tick \/ Expire \/ EventArrives PROVE Goal
  BY <1>3, <1>5 DEF Tick, Expire, EventArrives, ledgerVars, stateVars, sendVars
<1>6. ASSUME Send \/ SendThrows \/ UNCHANGED <<temps, sent>>,
             UNCHANGED <<ledger, items, source, used, asked>>
      PROVE  Goal
  <2>1. CASE Send \/ SendThrows
    BY <1>6, <2>1 DEF Send, SendThrows, Sends
  <2>2. CASE UNCHANGED <<temps, sent>>
    BY <1>3, <1>6, <2>2
  <2> QED
    BY <1>6, <2>1, <2>2
<1>7. ASSUME UserSends \/ Cleaned PROVE Goal
  <2>1. /\ Send \/ SendThrows \/ UNCHANGED <<temps, sent>>
        /\ UNCHANGED <<ledger, items, source, used, asked>>
    BY <1>7 DEF UserSends, Cleaned, ledgerVars, stateVars
  <2> QED
    BY <1>6, <2>1
<1>8. ASSUME FetchState PROVE Goal
  BY <1>8, NewestIsLast DEF FetchState, Asks, ledgerVars, sendVars
<1>9. ASSUME FetchEmpty PROVE Goal
  BY <1>9 DEF FetchEmpty, Asks, ledgerVars, sendVars
<1>10. ASSUME Fetched PROVE Goal
  <2>1. \A m, n \in asked : m = n
    BY <1>1, SyncTypes
  <2>2. PICK new \in asked : /\ used' = (used /\ (source = 0 \/ source = new))
                             /\ source' = new /\ items' = ledger[new].items
    BY <1>10 DEF Fetched
  <2>3. new # 0
    BY <1>10, <2>1 DEF Fetched
  <2>4. asked' = {} /\ UNCHANGED <<ledger, temps, sent>>
    BY <1>10 DEF Fetched, ledgerVars, sendVars
  <2> QED
    BY <2>2, <2>3, <2>4 DEF Fetches
<1>11. ASSUME NEW tx \in sent, Confirm(tx) PROVE Goal
  <2>1. LedgerGrows
    BY <1>1, <1>11, ConfirmLedger
  <2> QED
    BY <1>11, <2>1 DEF Confirm, Grows, stateVars
<1>12. ASSUME NEW tx \in sent, Refuse(tx) PROVE Goal
  <2>1. LedgerGrows
    BY <1>1, <1>12, SyncTypes DEF LedgerGrows, Refuse, ledgerVars, TypeInv, LedgerInv
  <2> QED
    BY <1>12, <2>1 DEF Refuse, Grows, stateVars
<1>13. ASSUME NEW g \in Group, Foreign(g) PROVE Goal
  <2>1. LedgerGrows
    BY <1>13, ForeignLedger
  <2> QED
    BY <1>13, <2>1 DEF Foreign, Grows, stateVars, sendVars
<1>14. ASSUME MergeStep PROVE Goal
  <2>1. MergeGroups /\ UNCHANGED <<ledger, temps, sent>>
    BY <1>1, <1>14, MergeSteps DEF ledgerVars, sendVars
  <2>2. LaterItems /\ UNCHANGED <<source, used, asked>>
    BY <1>1, <2>1, SyncTypes, WithGroupsMerges DEF MergeGroups, LaterItems
  <2> QED
    BY <2>1, <2>2 DEF Merges
<1>15. ASSUME SyncTimestamps(CachedReads), UNCHANGED <<ledger, sent>> PROVE Goal
  <2>1. LaterItems /\ used' = TRUE /\ UNCHANGED <<source, asked>>
    BY <1>1, <1>15, TimestampsMerge DEF LaterItems
  <2>2. temps' = IF used THEN temps ELSE Append(temps, NewPart)
    BY <1>15 DEF SyncTimestamps, NewPart
  <2> QED
    BY <1>1, <1>15, <2>1, <2>2 DEF Merges, Syncs
<1>16. ASSUME Command PROVE Goal
  <2>1. UserCommand(CachedReads)
    BY <1>16 DEF Command
  <2>2. /\ SyncTimestamps(CachedReads) \/ UNCHANGED <<items, source, used, asked, temps>>
        /\ UNCHANGED <<ledger, sent>>
    BY <2>1 DEF UserCommand, stateVars, ledgerVars
  <2> QED
    BY <1>3, <1>15, <2>2
<1>17. ASSUME Clean PROVE Goal
  <2>1. SyncTimestamps(CachedReads) /\ UNCHANGED <<ledger, sent>>
    BY <1>17 DEF Clean, CleanExpired, ledgerVars
  <2> QED
    BY <1>15, <2>1
<1>18. ASSUME Stop PROVE Goal
  <2>1. /\ items' = NoTimes /\ source' = 0 /\ used' = FALSE
        /\ UNCHANGED <<ledger, asked, temps, sent>>
        /\ BusyRestart \/ (sent = {} /\ temps = <<>> /\ asked = {} /\ sending = "no")
    BY <1>18 DEF Stop, ClearState, ledgerVars, sendVars
  <2> QED
    BY <2>1 DEF Clears
<1>19. ASSUME Close PROVE Goal
  BY <1>19 DEF Close, Clears, ledgerVars
<1>20. ASSUME SaveList \/ LoopEnds \/ Start \/ \E g \in Group : FireWrite(g) PROVE Goal
  BY <1>4, <1>20 DEF SaveList, LoopEnds, Start, FireWrite
<1> HIDE DEF Goal
<1>21. Goal
  <2>1. CASE UNCHANGED vars
    BY <1>4, <2>1 DEF vars
  <2>2. CASE SyncNext
    BY <1>5, <1>7, <1>8, <1>9, <1>10, <1>11, <1>12, <1>13, <2>2 DEF SyncNext
  <2>3. CASE Next
    BY <2>2, <2>3, <1>14, <1>16, <1>17, <1>18, <1>19, <1>20 DEF Next, MergeStep, ReadStep
  <2> QED
    BY <2>1, <2>3
<1> QED
  BY <1>21 DEF Goal

-----------------------------------------------------------------------------
(* Syncs take nothing back.                                                *)

\* The part knows the times of the output it takes.
Knows(p) == p.takes # 0 => \A g \in Group : p.items[g] >= ledger[p.takes].items[g]
PartsOf(tx) == {tx[k] : k \in DOMAIN tx}

\* The times in memory are no earlier than those of the output in memory.
SourceInv == source # 0 => \A g \in Group : items[g] >= ledger[source].items[g]
MergedInv == SourceInv /\ MergedNotLost

\* The parts of the waiting outputs and of the transactions.
LEMMA AllParts ==
    /\ Parts = UNION {PartsOf(tx) : tx \in sent \union {temps}}
    /\ PartsOf(<<>>) = {}
BY DEF Parts, PartsOf

\* Every part takes an output of the ledger, or none.
LEMMA PartTypes ==
    ASSUME TypeOK
    PROVE  /\ Parts \subseteq Part(Len(ledger))
           /\ \A tx \in sent \union {temps} : tx \in Seq(Part(Len(ledger)))
<1>1. \A tx \in sent \union {temps} : tx \in Seq(Part(Len(ledger)))
  BY SyncTypes
<1>2. ASSUME NEW tx \in sent \union {temps} PROVE PartsOf(tx) \subseteq Part(Len(ledger))
  BY <1>1, ElementOfSeq, LenProperties DEF PartsOf
<1> QED
  BY <1>1, <1>2, AllParts

\* A part that joins the waiting outputs.
LEMMA OneMorePart ==
    ASSUME NEW S, NEW s \in Seq(S), NEW p \in S
    PROVE  /\ PartsOf(Append(s, p)) = PartsOf(s) \union {p}
           /\ Len(Append(s, p)) = Len(s) + 1 /\ Len(s) \in Nat
           /\ DOMAIN Append(s, p) = 1..Len(s) + 1 /\ DOMAIN s = 1..Len(s)
           /\ Append(s, p)[Len(s) + 1] = p
           /\ \A k \in 1..Len(s) : Append(s, p)[k] = s[k]
<1> DEFINE t == Append(s, p)
<1>1. /\ t \in Seq(S) /\ Len(t) = Len(s) + 1 /\ t[Len(s) + 1] = p
      /\ \A k \in 1..Len(s) : t[k] = s[k]
  BY AppendProperties
<1>2. Len(s) \in Nat /\ DOMAIN s = 1..Len(s) /\ DOMAIN t = 1..Len(s) + 1
  BY <1>1, LenProperties
<1> HIDE DEF t
<1>3. PartsOf(t) = PartsOf(s) \union {p}
  BY <1>1, <1>2 DEF PartsOf
<1> QED
  BY <1>1, <1>2, <1>3 DEF t

\* The parts after a step.
LEMMA PartsNext ==
    ASSUME TypeInv
    PROVE  /\ Merges \/ Asks \/ Fetches \/ Clears \/ Sends \/ Grows => Parts' \subseteq Parts
           /\ Syncs => Parts' = Parts \union {NewPart}
<1>1. TypeOK /\ temps \in Seq(Part(Len(ledger)))
  BY SyncTypes DEF TypeInv
<1>2. ASSUME temps' \in {temps, <<>>}, sent' \subseteq sent \union {temps}
      PROVE  Parts' \subseteq Parts
  <2>1. sent' \union {temps'} \subseteq sent \union {temps} \union {<<>>}
    BY <1>2
  <2>2. Parts' = UNION {PartsOf(tx) : tx \in sent' \union {temps'}}
    BY DEF Parts, PartsOf
  <2> QED
    BY <2>1, <2>2, AllParts
<1>3. ASSUME Merges \/ Asks \/ Fetches \/ Clears \/ Sends \/ Grows PROVE Parts' \subseteq Parts
  <2>1. temps' \in {temps, <<>>} /\ sent' \subseteq sent \union {temps}
    BY <1>3 DEF Merges, Asks, Fetches, Clears, Sends, Grows
  <2> QED
    BY <1>2, <2>1
<1>4. ASSUME Syncs PROVE Parts' = Parts \union {NewPart}
  <2>1. temps' = Append(temps, NewPart) /\ sent' = sent
    BY <1>4 DEF Syncs
  <2>2. NewPart \in Part(Len(ledger))
    BY <1>1, <1>4, SyncTypes DEF Syncs, LaterItems, NewPart, Part
  <2>3. PartsOf(temps') = PartsOf(temps) \union {NewPart}
    <3>1. PartsOf(Append(temps, NewPart)) = PartsOf(temps) \union {NewPart}
      BY ONLY <1>1, <2>2, OneMorePart
    <3> QED
      BY <2>1, <3>1 DEF PartsOf
  <2>4. Parts' = UNION {PartsOf(tx) : tx \in sent' \union {temps'}}
    BY DEF Parts, PartsOf
  <2>5. Parts' = (UNION {PartsOf(tx) : tx \in sent'}) \union PartsOf(temps')
    BY <2>4
  <2>6. Parts = (UNION {PartsOf(tx) : tx \in sent}) \union PartsOf(temps)
    BY AllParts
  <2> QED
    BY <2>1, <2>3, <2>5, <2>6
<1> QED
  BY <1>3, <1>4

\* Every step keeps what the source and the parts know.
LEMMA MergedStep ==
    ASSUME TypeInv, MergedInv, [Next]_vars
    PROVE  MergedInv'
<1>1. /\ TypeOK /\ ledger \in Seq(Output) /\ Len(ledger) \in Nat /\ DOMAIN ledger = 1..Len(ledger)
      /\ items \in Times /\ source \in 0..Len(ledger) /\ asked \subseteq 0..Len(ledger)
      /\ Parts \subseteq Part(Len(ledger))
  BY SyncTypes, PartTypes DEF TypeInv
<1>2. \A p \in Parts : Knows(p)
  BY DEF MergedInv, MergedNotLost, Knows
<1>3. \A n \in 1..Len(ledger), g \in Group : ledger[n].items[g] \in Nat
  <2>1. \A n \in 1..Len(ledger) : ledger[n] \in Output
    BY <1>1, ElementOfSeq
  <2> QED
    BY <2>1 DEF Output, Times
<1>4. SourceInv
  BY DEF MergedInv
<1>5. ASSUME Parts' \subseteq Parts, ledger' = ledger PROVE MergedNotLost'
  BY <1>2, <1>5 DEF MergedNotLost, Knows
<1>6. ASSUME LaterItems, UNCHANGED <<ledger, source>> PROVE SourceInv'
  <2> SUFFICES ASSUME source # 0, NEW g \in Group PROVE items'[g] >= ledger[source].items[g]
    BY <1>6 DEF SourceInv
  <2>1. items'[g] >= items[g] /\ items'[g] \in Nat /\ items[g] \in Nat
    BY <1>1, <1>6 DEF LaterItems, Times
  <2>2. items[g] >= ledger[source].items[g] /\ ledger[source].items[g] \in Nat
    BY <1>1, <1>3, <1>4 DEF SourceInv
  <2> QED
    BY <2>1, <2>2
<1>7. CASE Merges
  BY <1>5, <1>6, <1>7, PartsNext DEF Merges, MergedInv
<1>8. CASE Syncs
  <2>1. SourceInv' /\ ledger' = ledger /\ source' = source
    BY <1>6, <1>8 DEF Syncs
  <2>2. Knows(NewPart)
    BY <2>1 DEF SourceInv, Knows, NewPart
  <2>3. \A p \in Parts' : Knows(p)
    BY <1>2, <1>8, <2>2, PartsNext
  <2>4. MergedNotLost'
    BY <2>1, <2>3 DEF MergedNotLost, Knows
  <2> QED
    BY <2>1, <2>4 DEF MergedInv
<1>9. CASE Clears
  <2>1. SourceInv'
    BY <1>9 DEF Clears, SourceInv
  <2> QED
    BY <1>5, <1>9, <2>1, PartsNext DEF Clears, MergedInv
<1>10. CASE Sends
  BY <1>4, <1>5, <1>10, PartsNext DEF Sends, MergedInv, SourceInv
<1>11. CASE Asks
  BY <1>4, <1>5, <1>11, PartsNext DEF Asks, MergedInv, SourceInv
<1>12. CASE Fetches
  <2>1. PICK new \in asked \ {0} : source' = new /\ items' = ledger[new].items
    BY <1>12 DEF Fetches
  <2>2. ledger' = ledger /\ new \in 1..Len(ledger)
    BY <1>1, <1>12 DEF Fetches
  <2>3. SourceInv'
    BY <1>3, <2>1, <2>2 DEF SourceInv
  <2> QED
    BY <1>5, <1>12, <2>2, <2>3, PartsNext DEF MergedInv
<1>13. CASE Grows
  <2>1. \A n \in 1..Len(ledger) : ledger'[n].items = ledger[n].items
    BY <1>13 DEF Grows, LedgerGrows
  <2>2. SourceInv'
    BY <1>1, <1>4, <1>13, <2>1 DEF Grows, SourceInv
  <2>3. ASSUME NEW p \in Parts', p.takes # 0, NEW g \in Group
        PROVE  p.items[g] >= ledger'[p.takes].items[g]
    <3>1. p \in Parts /\ p.takes \in 1..Len(ledger)
      BY <1>1, <1>13, <2>3, PartsNext DEF Part
    <3> QED
      BY <1>2, <2>1, <2>3, <3>1 DEF Knows
  <2>4. MergedNotLost'
    BY <2>3 DEF MergedNotLost
  <2> QED
    BY <2>2, <2>4 DEF MergedInv
<1> QED
  BY <1>7, <1>8, <1>9, <1>10, <1>11, <1>12, <1>13, SyncSteps

\* At first there is no source and no part.
LEMMA MergedInit ==
    ASSUME Init
    PROVE  MergedInv
<1>1. source = 0 /\ temps = <<>> /\ sent = {}
  BY DEF Init, SyncInit
<1>2. Parts = {}
  BY <1>1, AllParts
<1> QED
  BY <1>1, <1>2 DEF MergedInv, SourceInv, MergedNotLost

\* A sync that takes the place of an output knows all the times that output
\* held (syncGroupStateTimestamps), also when the account is left and entered
\* again while a sync is under way.
THEOREM MergedRight == Spec => []MergedNotLost
<1>1. MergedInv => MergedNotLost
  BY DEF MergedInv
<1> QED
  BY <1>1, MergedInit, MergedStep, TypeCorrect, PTL DEF Spec

-----------------------------------------------------------------------------
(* Syncs do not get in each other's way, where no account is left while a  *)
(* sync is under way.                                                      *)

Unique(tx) == \A j, k \in DOMAIN tx : j # k => tx[j].takes # tx[k].takes \/ tx[j].takes = 0

\* Parts take outputs up to the one in memory, and that one only once it is
\* used; what is asked for is not older than what is in memory.
TakenInv ==
    /\ \A p \in Parts : p.takes <= source /\ (p.takes = source /\ source # 0 => used)
    /\ \A n \in asked : n = 0 \/ n >= source

\* No output is taken twice.
ApartInv ==
    /\ \A t \in sent : Takes(t) \intersect Takes(temps) = {}
    /\ \A t, u \in sent : t # u => Takes(t) \intersect Takes(u) = {}
    /\ \A t \in sent \union {temps} : Unique(t)

OnceInv == TakenInv /\ ApartInv

\* The outputs that a transaction takes are those of its parts.
LEMMA PartsTake ==
    ASSUME NEW tx
    PROVE  Takes(tx) = {p.takes : p \in PartsOf(tx)} \ {0}
BY DEF Takes, PartsOf

\* A transaction without parts takes nothing.
LEMMA NothingTaken == Takes(<<>>) = {} /\ Unique(<<>>)
BY DEF Takes, Unique

\* A used source is taken: a case per thing a step may do.
LEMMA TakenStep ==
    ASSUME BusyRestart = FALSE, TypeInv, OnceInv, [Next]_vars
    PROVE  TakenInv'
<1>1. /\ TypeOK /\ Len(ledger) \in Nat /\ source \in 0..Len(ledger) /\ asked \subseteq 0..Len(ledger)
      /\ used \in BOOLEAN /\ Parts \subseteq Part(Len(ledger))
  BY SyncTypes, PartTypes DEF TypeInv
<1>2. /\ \A p \in Parts : p.takes <= source /\ (p.takes = source /\ source # 0 => used)
      /\ \A n \in asked : n = 0 \/ n >= source
  BY DEF OnceInv, TakenInv
<1>3. \A p \in Parts : p.takes \in Nat
  BY <1>1 DEF Part
<1>4. CASE Merges \/ Sends \/ Grows
  <2>1. Parts' \subseteq Parts
    BY <1>4, PartsNext
  <2>2. UNCHANGED <<source, used, asked>>
    BY <1>4 DEF Merges, Sends, Grows
  <2> QED
    BY <1>2, <2>1, <2>2 DEF TakenInv
<1>5. CASE Syncs
  <2>1. Parts' = Parts \union {NewPart} /\ used' /\ UNCHANGED <<source, asked>>
    BY <1>5, PartsNext DEF Syncs
  <2>2. NewPart.takes = source /\ source <= source
    BY <1>1 DEF NewPart
  <2> QED
    BY <1>2, <2>1, <2>2 DEF TakenInv
<1>6. CASE Clears
  <2>1. sent' = {} /\ temps' = <<>> /\ asked' = {}
    BY <1>6 DEF Clears
  <2>2. Parts' = {}
    BY <2>1 DEF Parts
  <2> QED
    BY <2>1, <2>2 DEF TakenInv
<1>7. CASE Asks
  <2>1. Parts' \subseteq Parts
    BY <1>7, PartsNext
  <2>2. asked' \subseteq {Len(ledger)} /\ UNCHANGED <<source, used>>
    BY <1>7 DEF Asks
  <2>3. Len(ledger) >= source
    BY <1>1
  <2> QED
    BY <1>2, <2>1, <2>2, <2>3 DEF TakenInv
<1>8. CASE Fetches
  <2>1. Parts' \subseteq Parts
    BY <1>8, PartsNext
  <2>2. PICK new \in asked \ {0} : used' = (used /\ (source = 0 \/ source = new)) /\ source' = new
    BY <1>8 DEF Fetches
  <2>3. asked' = {}
    BY <1>8 DEF Fetches
  <2>4. new >= source /\ new \in Nat /\ source \in Nat /\ new # 0
    BY <1>1, <1>2
  <2>5. ASSUME NEW p \in Parts PROVE p.takes <= new /\ (p.takes = new => used')
    <3>1. p.takes \in Nat /\ p.takes <= source /\ (p.takes = source /\ source # 0 => used)
      BY <1>2, <1>3
    <3>2. p.takes <= new
      BY <2>4, <3>1
    <3>3. p.takes = new => source = new /\ p.takes = source
      BY <2>4, <3>1
    <3> QED
      BY <2>2, <2>4, <3>1, <3>2, <3>3
  <2> QED
    BY <2>1, <2>2, <2>3, <2>5 DEF TakenInv
<1> QED
  BY <1>4, <1>5, <1>6, <1>7, <1>8, SyncSteps

\* No two transactions take one output: a case per thing a step may do.
LEMMA ApartStep ==
    ASSUME BusyRestart = FALSE, TypeInv, OnceInv, [Next]_vars
    PROVE  ApartInv'
<1>1. TypeOK /\ temps \in Seq(Part(Len(ledger))) /\ source \in 0..Len(ledger) /\ Len(ledger) \in Nat
  BY SyncTypes DEF TypeInv
<1>2. /\ \A t \in sent : Takes(t) \intersect Takes(temps) = {}
      /\ \A t, u \in sent : t # u => Takes(t) \intersect Takes(u) = {}
      /\ \A t \in sent \union {temps} : Unique(t)
  BY DEF OnceInv, ApartInv
<1>3. \A p \in Parts : p.takes = source /\ source # 0 => used
  BY DEF OnceInv, TakenInv
<1>4. CASE Merges \/ Asks \/ Fetches \/ Grows
  <2>1. sent' \subseteq sent /\ temps' = temps
    BY <1>4 DEF Merges, Asks, Fetches, Grows
  <2> QED
    BY <1>2, <2>1 DEF ApartInv, Takes, Unique
<1>5. CASE Clears
  <2>1. sent' = {} /\ temps' = <<>>
    BY <1>5 DEF Clears
  <2> QED
    BY <2>1, NothingTaken DEF ApartInv, Unique
<1>6. CASE Sends
  <2>1. sent' \subseteq sent \union {temps} /\ temps' = <<>>
    BY <1>6 DEF Sends
  <2>2. \A t, u \in sent' : t # u => Takes(t) \intersect Takes(u) = {}
    BY <1>2, <2>1
  <2>3. \A t \in sent' : Unique(t)
    BY <1>2, <2>1
  <2>4. Takes(temps)' = {} /\ Unique(temps)'
    BY <2>1, NothingTaken DEF Takes, Unique
  <2> QED
    BY <2>2, <2>3, <2>4 DEF ApartInv, Takes, Unique
<1>7. CASE Syncs
  <2> DEFINE n == Len(temps)
             new == Append(temps, NewPart)
  <2>1. temps' = new /\ sent' = sent /\ ~used
    BY <1>7 DEF Syncs
  <2>2. NewPart \in Part(Len(ledger)) /\ NewPart.takes = source
    BY <1>1, <1>7 DEF Syncs, LaterItems, NewPart, Part
  <2>3. /\ PartsOf(new) = PartsOf(temps) \union {NewPart}
        /\ n \in Nat /\ DOMAIN new = 1..n + 1 /\ DOMAIN temps = 1..n
        /\ new[n + 1] = NewPart /\ \A k \in 1..n : new[k] = temps[k]
    BY ONLY <1>1, <2>2, OneMorePart
  <2> HIDE DEF new
  <2>4. ASSUME NEW tx \in sent \union {temps}, NEW p \in PartsOf(tx), source # 0
        PROVE  p.takes # source
    BY <1>3, <2>1, <2>4, AllParts
  <2>5. Takes(new) \subseteq Takes(temps) \union ({source} \ {0})
    BY <2>2, <2>3, PartsTake
  <2>6. \A tx \in sent : source # 0 => source \notin Takes(tx)
    BY <2>4, PartsTake
  <2>7. \A tx \in sent : Takes(tx) \intersect Takes(new) = {}
    BY <1>2, <2>5, <2>6
  <2>8. Unique(new)
    <3>1. Unique(temps)
      BY <1>2
    <3>2. \A k \in 1..n : source # 0 => temps[k].takes # source
      BY <2>3, <2>4 DEF PartsOf
    <3> SUFFICES ASSUME NEW j \in 1..n + 1, NEW k \in 1..n + 1, j # k
                 PROVE  new[j].takes # new[k].takes \/ new[j].takes = 0
      BY <2>3 DEF Unique
    <3>3. CASE j \in 1..n /\ k \in 1..n
      BY <2>3, <3>1, <3>3 DEF Unique
    <3>4. CASE j = n + 1
      <4>1. k \in 1..n
        BY <2>3, <3>4
      <4> QED
        BY <2>2, <2>3, <3>2, <3>4, <4>1
    <3>5. CASE k = n + 1
      <4>1. j \in 1..n
        BY <2>3, <3>5
      <4> QED
        BY <2>2, <2>3, <3>2, <3>5, <4>1
    <3> QED
      BY <2>3, <3>3, <3>4, <3>5
  <2>9. \A tx \in sent' : Takes(tx) \intersect Takes(temps)' = {}
    BY <2>1, <2>7 DEF Takes
  <2>10. \A tx \in sent' \union {temps'} : Unique(tx)
    BY <1>2, <2>1, <2>8
  <2> QED
    BY <1>2, <2>1, <2>9, <2>10 DEF ApartInv, Takes, Unique
<1> QED
  BY <1>4, <1>5, <1>6, <1>7, SyncSteps

\* No two transactions of the device take the same state output, and no sync
\* forgets a time of the output it takes the place of, as long as no account
\* is left while a sync is under way (the flag _isGroupStateSyncOutputUsed).
THEOREM SyncRight == ASSUME BusyRestart = FALSE PROVE Spec => []SyncSafe
<1>1. Init => OnceInv
  <2> SUFFICES ASSUME Init PROVE OnceInv
    OBVIOUS
  <2>1. temps = <<>> /\ sent = {} /\ asked = {}
    BY DEF Init, SyncInit
  <2>2. Parts = {}
    BY <2>1, AllParts
  <2> QED
    BY <2>1, <2>2, NothingTaken DEF OnceInv, TakenInv, ApartInv
<1>2. TypeInv /\ OnceInv /\ [Next]_vars => OnceInv'
  BY TakenStep, ApartStep DEF OnceInv
<1>3. OnceInv => ConsumedOnce
  BY DEF OnceInv, ApartInv, ConsumedOnce, Unique
<1>4. MergedNotLost /\ ConsumedOnce => SyncSafe
  BY DEF SyncSafe
<1> QED
  BY <1>1, <1>2, <1>3, <1>4, MergedRight, TypeCorrect, PTL DEF Spec

-----------------------------------------------------------------------------
(* The list of the groups, in memory and in local storage, where there is  *)
(* room for every group.                                                   *)

Holds(s, t) == ToSet(s) \subseteq ToSet(t) \union astray

\* No list holds a group twice; what is stored is in memory, and an update
\* that waits was made from what is in memory, but for the groups that are
\* astray.  Of two updates that wait both groups are, and of one whose group
\* has been stored.
ShapeInv ==
    /\ IsInjective(list) /\ IsInjective(diskList) /\ \A a \in adjusting : IsInjective(a.base)
    /\ dirtyList \/ list = diskList
    /\ Holds(diskList, list)
    /\ \A a \in adjusting : /\ Holds(list, a.base) /\ Holds(a.base, list)
                            /\ loop = "rests" => Holds(a.base, diskList)
    /\ \A a, b \in adjusting : a # b => a.group \in astray /\ Holds(a.base, b.base)
    /\ \A a \in adjusting : a.group \in dirtyGroups \union astray
    /\ loop = "rests" => dirtyGroups = {} /\ Holds(list, diskList)

Placed == ToSet(list) \union Waiting \union astray
Saved  == ToSet(diskList) \union astray

\* A group with a message is placed; a group that is stored, or whose write
\* timer is set, is on the stored list.
KeptInv ==
    \A g \in Group :
        /\ Current(g).latest > 0 => g \in Placed
        /\ diskGroup[g].latest > 0 => g \in Saved
        /\ g \in writes /\ group[g].latest > 0 => g \in Saved

ListInv == ShapeInv /\ KeptInv

\* No group has a newer message than before.
LatestStays ==
    /\ diskGroup' = diskGroup
    /\ \A g \in Group : /\ Current(g)'.latest = Current(g).latest
                        /\ g \in cached => group'[g].latest = group[g].latest

\* What is placed is more than what is saved by the writes to come.
LEMMA SavedPlaced ==
    ASSUME ShapeInv
    PROVE  Saved \subseteq Placed /\ (~dirtyList => Placed \subseteq Saved \union Waiting)
BY DEF ShapeInv, Holds, Saved, Placed

\* A merge leaves the latest message of a group as it was.
LEMMA MergeLatest ==
    ASSUME ObjectType, NEW gs, NEW changed \in [Group -> Object], WithGroups(gs, changed),
           diskGroup' = diskGroup, NEW g \in Group, changed[g].latest = Loaded(gs)[g].latest
    PROVE  /\ Current(g)'.latest = Current(g).latest
           /\ g \in cached => group'[g].latest = group[g].latest
<1>1. /\ cached' = cached \union gs /\ group' \in [Group -> Object]
      /\ Reread(group'[g], changed[g])
  BY WithGroupsMerges
<1>2. group'[g].latest = changed[g].latest
  <2>1. changed[g] \in Object /\ group'[g].read \in Nat
    BY <1>1 DEF Object
  <2> QED
    BY <1>1, <2>1, RereadCounted
<1>3. Loaded(gs)[g] = IF g \in gs \ cached THEN diskGroup[g] ELSE group[g]
  BY DEF Loaded
<1> QED
  BY <1>1, <1>2, <1>3 DEF Current

\* So does getGroup.
LEMMA GotLatest ==
    ASSUME ObjectType, NEW gs, WithGroups(gs, Got(gs)), diskGroup' = diskGroup
    PROVE  LatestStays
<1>1. Got(gs) \in [Group -> Object] /\ Loaded(gs) \in [Group -> Object]
  BY GotObjects, LoadedObjects
<1>2. ASSUME NEW g \in Group PROVE Got(gs)[g].latest = Loaded(gs)[g].latest
  <2>1. Reread(Got(gs)[g], Loaded(gs)[g]) /\ Loaded(gs)[g] \in Object /\ Got(gs)[g].read \in Nat
    BY <1>1, GotObjects DEF Object
  <2> QED
    BY <2>1, RereadCounted
<1> QED
  BY <1>1, <1>2, MergeLatest DEF LatestStays

\* So does a correction by the state output.
LEMMA RereadLatest ==
    ASSUME ObjectType, RereadGroups, diskGroup' = diskGroup
    PROVE  LatestStays
<1>1. ASSUME NEW g \in Group PROVE group'[g].latest = group[g].latest
  <2>1. Reread(group'[g], group[g]) /\ group[g] \in Object /\ group'[g].read \in Nat
    BY DEF ObjectType, RereadGroups, Object
  <2> QED
    BY <2>1, RereadCounted
<1> QED
  BY <1>1 DEF LatestStays, Current, RereadGroups

\* The lists keep their shape in a step that does not change them.
LEMMA ShapeStays ==
    ASSUME ShapeInv, UNCHANGED <<list, diskList, adjusting, dirtyList>>,
           loop' = "rests" => loop = "rests", astray \subseteq astray',
           dirtyGroups' \subseteq dirtyGroups, \A a \in adjusting : a.group \in dirtyGroups' \union astray'
    PROVE  ShapeInv'
<1>1. /\ \A a, b \in adjusting : a # b => a.group \in astray' /\ Holds(a.base, b.base)'
      /\ \A a \in adjusting : /\ Holds(list, a.base)' /\ Holds(a.base, list)'
                              /\ loop' = "rests" => Holds(a.base, diskList)'
      /\ loop' = "rests" => dirtyGroups' = {} /\ Holds(list, diskList)'
  BY DEF ShapeInv, Holds
<1>2. /\ IsInjective(list') /\ IsInjective(diskList') /\ \A a \in adjusting' : IsInjective(a.base)
      /\ dirtyList' \/ list' = diskList'
  BY DEF ShapeInv
<1>3. Holds(diskList, list)'
  BY DEF ShapeInv, Holds
<1> QED
  BY <1>1, <1>2, <1>3 DEF ShapeInv, Holds

\* Neither the lists nor the messages of a group change.
LEMMA ListStays ==
    ASSUME TypeOK, ListInv, LatestStays, UNCHANGED <<list, diskList, adjusting, dirtyList, dirtyGroups>>,
           loop' = "rests" => loop = "rests", writes' \subseteq writes, astray \subseteq astray'
    PROVE  ListInv'
<1>1. ShapeInv'
  <2>1. \A a \in adjusting : a.group \in dirtyGroups' \union astray'
    BY DEF ListInv, ShapeInv
  <2> QED
    BY <2>1, ShapeStays DEF ListInv
<1>2. Placed \subseteq Placed' /\ Saved \subseteq Saved'
  BY DEF Placed, Saved, Waiting
<1>3. writes \subseteq cached
  BY DEF TypeOK
<1>4. ASSUME NEW g \in Group
      PROVE  /\ Current(g)'.latest > 0 => g \in Placed'
             /\ diskGroup'[g].latest > 0 => g \in Saved'
             /\ g \in writes' /\ group'[g].latest > 0 => g \in Saved'
  BY <1>2, <1>3 DEF ListInv, KeptInv, LatestStays
<1> QED
  BY <1>1, <1>4 DEF ListInv, KeptInv

\* poll with a message.
LEMMA ListTake ==
    ASSUME Fits, TypeOK, ListInv, NEW m \in Message, TakeMessage(m)
    PROVE  ListInv'
<1> DEFINE g      == m.group
           old    == Loaded({g})[g]
           newest == old.latest = 0 \/ m.time >= old.latest
           warm   == ToSet(list) \ {g} \subseteq cached
           new    == [group |-> g, time |-> m.time, base |-> list]
           changed == [Got({g}) EXCEPT ![g] = WithMessage(@, m)]
<1>1. /\ m \in toInbox /\ loop # "rests" /\ WithGroups({g}, changed)
      /\ UNCHANGED <<diskGroup, diskList, writes, loop>>
  BY DEF TakeMessage, diskVars
<1>2. /\ list' = IF newest /\ warm THEN Adjusted(g, m.time, list, group') ELSE list
      /\ dirtyList' = (dirtyList \/ (newest /\ warm))
      /\ adjusting' = IF newest /\ ~warm THEN adjusting \union {new} ELSE adjusting
      /\ dirtyGroups' = IF newest \/ group'[g].unread > old.unread THEN dirtyGroups \union {g} ELSE dirtyGroups
      /\ astray' = astray \union ({g} \intersect writes)
                   \union (IF adjusting = {} THEN {} ELSE {g} \union Waiting)
  BY DEF TakeMessage
<1>3. /\ ObjectType /\ ListTypes /\ g \in Group
  <2>1. m.group \in Group
    BY MessageAssumption
  <2> QED
    BY <2>1, SyncTypes DEF TypeOK, ListTypes, Update
<1>4. ShapeInv /\ KeptInv
  BY DEF ListInv
<1>5. /\ changed \in [Group -> Object] /\ old = Current(g) /\ old.latest \in Nat
      /\ \A h \in Group \ {g} : changed[h].latest = Loaded({g})[h].latest
  <2>1. /\ changed \in [Group -> Object]
        /\ \A h \in Group \ {g} : changed[h].latest = Loaded({g})[h].latest
    BY <1>1, <1>3, MessageObjects
  <2>2. old = Current(g)
    BY <1>3 DEF Loaded, Current
  <2>3. old.latest \in Nat
    BY <1>3, LoadedObjects DEF Object
  <2> QED
    BY <2>1, <2>2, <2>3
<1>6. \A h \in Group \ {g} : /\ Current(h)'.latest = Current(h).latest
                             /\ h \in cached => group'[h].latest = group[h].latest
  BY <1>1, <1>3, <1>5, MergeLatest
<1>7. list \in Seq(Group) /\ IsInjective(list) /\ writes \subseteq cached
  BY <1>3, <1>4 DEF ListTypes, ShapeInv
<1>8. /\ IsInjective(list') /\ ToSet(list) \subseteq ToSet(list') /\ ToSet(list') \subseteq ToSet(list) \union {g}
      /\ newest /\ warm => g \in ToSet(list')
  BY <1>2, <1>3, <1>7, AdjustedList
<1> HIDE DEF newest, warm, old, changed
<1>9. new.group = g /\ new.base = list
  OBVIOUS
<1> HIDE DEF new
<1>10. /\ astray \subseteq astray' /\ (g \in writes => g \in astray')
       /\ adjusting # {} => g \in astray' /\ Waiting \subseteq astray'
       /\ newest => g \in dirtyGroups'
       /\ dirtyGroups \subseteq dirtyGroups'
  BY <1>2
<1>11. /\ adjusting' \subseteq adjusting \union {new} /\ adjusting \subseteq adjusting'
       /\ new \in adjusting' \ adjusting => list' = list /\ newest
       /\ newest => g \in ToSet(list') \/ g \in Waiting'
  <2>1. newest /\ ~warm => new \in adjusting'
    BY <1>2
  <2>2. new \in adjusting' => g \in Waiting'
    BY <1>9 DEF Waiting
  <2> QED
    BY <1>2, <1>8, <2>1, <2>2
<1>12. ASSUME NEW a \in adjusting'
       PROVE  /\ IsInjective(a.base) /\ a.group \in dirtyGroups' \union astray'
              /\ Holds(list, a.base)' /\ Holds(a.base, list)'
  <2>1. CASE a \in adjusting
    BY <1>4, <1>8, <1>10, <2>1 DEF ShapeInv, Holds
  <2>2. CASE a \notin adjusting
    <3>1. a = new /\ list' = list /\ newest
      BY <1>11, <2>2
    <3> QED
      BY <1>7, <1>9, <1>10, <3>1 DEF Holds
  <2> QED
    BY <2>1, <2>2
<1>13. ASSUME NEW a \in adjusting', NEW b \in adjusting', a # b
       PROVE  a.group \in astray' /\ Holds(a.base, b.base)'
  <2>1. CASE a \in adjusting /\ b \in adjusting
    BY <1>4, <1>10, <1>13, <2>1 DEF ShapeInv, Holds
  <2>2. CASE a \notin adjusting
    <3>1. a = new /\ b \in adjusting
      BY <1>11, <1>13, <2>2
    <3> QED
      BY <1>4, <1>9, <1>10, <3>1 DEF ShapeInv, Holds
  <2>3. CASE b \notin adjusting
    <3>1. b = new /\ a \in adjusting
      BY <1>11, <1>13, <2>3
    <3> QED
      BY <1>4, <1>9, <1>10, <3>1 DEF ShapeInv, Holds, Waiting
  <2> QED
    BY <2>1, <2>2, <2>3
<1>14. (dirtyList' \/ list' = diskList') /\ Holds(diskList, list)' /\ IsInjective(diskList')
  <2>1. dirtyList \/ list = diskList
    BY <1>4 DEF ShapeInv
  <2>2. dirtyList' \/ list' = diskList'
    BY <1>1, <1>2, <2>1
  <2> QED
    BY <1>1, <1>4, <1>8, <1>10, <2>2 DEF ShapeInv, Holds
<1>15. ShapeInv'
  BY <1>1, <1>8, <1>12, <1>13, <1>14 DEF ShapeInv
<1>16. Placed \subseteq Placed' /\ Saved \subseteq Saved'
  BY <1>1, <1>8, <1>10, <1>11 DEF Placed, Saved, Waiting
<1>17. Current(g)'.latest > 0 => g \in Placed'
  <2>1. CASE newest
    BY <1>11, <2>1 DEF Placed
  <2>2. CASE ~newest
    <3>1. old.latest > 0
      BY <1>5, <2>2 DEF newest
    <3>2. g \in Placed
      BY <1>3, <1>4, <1>5, <3>1 DEF KeptInv
    <3> QED
      BY <1>16, <3>2
  <2> QED
    BY <2>1, <2>2
<1>18. ASSUME NEW h \in Group
       PROVE  /\ Current(h)'.latest > 0 => h \in Placed'
              /\ diskGroup'[h].latest > 0 => h \in Saved'
              /\ h \in writes' /\ group'[h].latest > 0 => h \in Saved'
  <2>1. diskGroup'[h].latest > 0 => h \in Saved'
    BY <1>1, <1>4, <1>16 DEF KeptInv
  <2>2. CASE h = g
    BY <1>1, <1>10, <1>17, <2>1, <2>2 DEF Saved
  <2>3. CASE h # g
    BY <1>1, <1>4, <1>6, <1>7, <1>16, <2>1, <2>3 DEF KeptInv
  <2> QED
    BY <2>2, <2>3
<1> QED
  BY <1>15, <1>18 DEF ListInv, KeptInv

\* An update of the list whose groups have been loaded.
LEMMA ListAdjust ==
    ASSUME Fits, TypeOK, ListInv, NEW a \in adjusting, AdjustDone(a)
    PROVE  ListInv'
<1>1. /\ adjusting' = adjusting \ {a} /\ dirtyList' = TRUE
      /\ list' = Adjusted(a.group, a.time, a.base, group')
      /\ WithGroups(ToSet(a.base), Got(ToSet(a.base)))
      /\ UNCHANGED <<dirtyGroups, writes, diskList, diskGroup, loop, astray>>
  BY DEF AdjustDone, diskVars
<1>2. ObjectType /\ ListTypes /\ writes \subseteq cached
  BY SyncTypes DEF TypeOK, ListTypes, Update
<1>3. ShapeInv /\ KeptInv
  BY DEF ListInv
<1>4. LatestStays
  BY <1>1, <1>2, GotLatest
<1>5. a.base \in Seq(Group) /\ a.group \in Group /\ IsInjective(a.base)
  BY <1>2, <1>3 DEF ListTypes, Update, ShapeInv
<1>6. IsInjective(list') /\ ToSet(list') = ToSet(a.base) \union {a.group}
  BY <1>1, <1>5, AdjustedList
<1>7. /\ Holds(list, a.base) /\ Holds(diskList, list)
      /\ a.group \in dirtyGroups \union astray
      /\ loop = "rests" => Holds(a.base, diskList) /\ dirtyGroups = {}
      /\ \A b \in adjusting : b # a => /\ Holds(a.base, b.base) /\ Holds(b.base, a.base)
                                       /\ a.group \in astray
  BY <1>3 DEF ShapeInv
<1>8. Holds(diskList, list)' /\ (loop' = "rests" => dirtyGroups' = {} /\ Holds(list, diskList)')
  BY <1>1, <1>6, <1>7 DEF Holds
<1>9. ASSUME NEW b \in adjusting'
      PROVE  Holds(list, b.base)' /\ Holds(b.base, list)'
  BY <1>1, <1>6, <1>7 DEF Holds
<1>10. ShapeInv'
  <2>1. \A b \in adjusting' : /\ IsInjective(b.base) /\ b.group \in dirtyGroups' \union astray'
                              /\ loop' = "rests" => Holds(b.base, diskList)'
    BY <1>1, <1>3 DEF ShapeInv, Holds
  <2>2. \A b, c \in adjusting' : b # c => b.group \in astray' /\ Holds(b.base, c.base)'
    BY <1>1, <1>3 DEF ShapeInv, Holds
  <2>3. IsInjective(diskList')
    BY <1>1, <1>3 DEF ShapeInv
  <2> QED
    BY <1>1, <1>6, <1>8, <1>9, <2>1, <2>2, <2>3 DEF ShapeInv
<1>11. Placed \subseteq Placed' /\ Saved' = Saved
  BY <1>1, <1>6, <1>7 DEF Placed, Saved, Waiting, Holds
<1>12. ASSUME NEW g \in Group
       PROVE  /\ Current(g)'.latest > 0 => g \in Placed'
              /\ diskGroup'[g].latest > 0 => g \in Saved'
              /\ g \in writes' /\ group'[g].latest > 0 => g \in Saved'
  BY <1>1, <1>2, <1>3, <1>4, <1>11 DEF KeptInv, LatestStays
<1> QED
  BY <1>10, <1>12 DEF ListInv, KeptInv

\* A reading, which sets a write timer.
LEMMA ListRead ==
    ASSUME TypeOK, ListInv, NEW g \in Group, NEW unread \in Nat, NEW time \in Nat, Reading(g, unread, time)
    PROVE  ListInv'
<1> DEFINE changed == [Got({g}) EXCEPT ![g].unread = unread, ![g].read = time]
<1>1. /\ WithGroups({g}, changed) /\ writes' = writes \union {g}
      /\ astray' = IF dirtyList \/ adjusting # {} THEN astray \union {g} ELSE astray
      /\ UNCHANGED <<list, dirtyList, dirtyGroups, adjusting, diskList, diskGroup, loop>>
  BY DEF Reading, memoryVars
<1>2. ObjectType /\ writes \subseteq cached
  BY SyncTypes DEF TypeOK
<1>3. ShapeInv /\ KeptInv
  BY DEF ListInv
<1>4. LatestStays /\ cached' = cached \union {g}
  <2>1. changed \in [Group -> Object]
    BY <1>2, ReadObjects
  <2>2. ASSUME NEW h \in Group PROVE changed[h].latest = Loaded({g})[h].latest
    <3> DEFINE objects == Loaded({g})
               got == Got({g})
    <3>1. got \in [Group -> Object] /\ got[h].latest = objects[h].latest
      <4>1. got \in [Group -> Object] /\ objects \in [Group -> Object] /\ Reread(got[h], objects[h])
        BY <1>2, GotObjects, LoadedObjects
      <4> HIDE DEF got, objects
      <4>2. got[h].read \in Nat
        BY <4>1 DEF Object
      <4> QED
        BY <4>1, <4>2, RereadCounted
    <3> HIDE DEF objects, got
    <3>2. got[g] \in Object /\ got[h] \in Object
      BY <3>1
    <3> QED
      BY <3>1, <3>2 DEF Object, objects, got
  <2> HIDE DEF changed
  <2> QED
    BY <1>1, <1>2, <2>1, <2>2, MergeLatest, WithGroupsMerges DEF LatestStays
<1> HIDE DEF changed
<1>5. ShapeInv'
  <2>1. \A a \in adjusting : a.group \in dirtyGroups' \union astray'
    BY <1>1, <1>3 DEF ShapeInv
  <2> QED
    BY <1>1, <1>3, <2>1, ShapeStays
<1>6. Placed \subseteq Placed' /\ Saved \subseteq Saved'
  BY <1>1 DEF Placed, Saved, Waiting
<1>7. group'[g].latest > 0 => g \in Saved'
  <2>1. Current(g)' = group'[g]
    BY <1>4 DEF Current
  <2>2. group'[g].latest > 0 => g \in Placed
    BY <1>3, <1>4, <2>1 DEF KeptInv, LatestStays
  <2>3. CASE dirtyList \/ adjusting # {}
    BY <1>1, <2>3 DEF Saved
  <2>4. CASE ~dirtyList /\ adjusting = {}
    BY <1>3, <1>6, <2>2, <2>4, SavedPlaced DEF Waiting
  <2> QED
    BY <2>3, <2>4
<1>8. ASSUME NEW h \in Group
      PROVE  /\ Current(h)'.latest > 0 => h \in Placed'
             /\ diskGroup'[h].latest > 0 => h \in Saved'
             /\ h \in writes' /\ group'[h].latest > 0 => h \in Saved'
  BY <1>1, <1>2, <1>3, <1>4, <1>6, <1>7 DEF KeptInv, LatestStays
<1> QED
  BY <1>5, <1>8 DEF ListInv, KeptInv

\* The second part of the save of a poll.
LEMMA ListSaveGroups ==
    ASSUME TypeOK, ListInv, SaveGroups
    PROVE  ListInv'
<1>1. /\ ~dirtyList /\ dirtyGroups' = {} /\ WithGroups({}, Got({}))
      /\ writes' = writes \union (dirtyGroups \intersect cached) /\ astray' = astray \union Waiting
      /\ UNCHANGED <<list, dirtyList, adjusting, diskList, diskGroup, loop>>
  BY DEF SaveGroups
<1>2. ObjectType /\ writes \subseteq cached
  BY SyncTypes DEF TypeOK
<1>3. ShapeInv /\ KeptInv
  BY DEF ListInv
<1>4. LatestStays
  BY <1>1, <1>2, GotLatest
<1>5. ShapeInv'
  <2>1. \A a \in adjusting : a.group \in dirtyGroups' \union astray'
    BY <1>1 DEF Waiting
  <2> QED
    BY <1>1, <1>3, <2>1, ShapeStays
<1>6. Placed \subseteq Placed' /\ Saved \subseteq Saved' /\ Placed \subseteq Saved'
  <2>1. Placed \subseteq Saved \union Waiting
    BY <1>1, <1>3, SavedPlaced
  <2> QED
    BY <1>1, <2>1 DEF Placed, Saved, Waiting
<1>7. ASSUME NEW h \in Group
      PROVE  /\ Current(h)'.latest > 0 => h \in Placed'
             /\ diskGroup'[h].latest > 0 => h \in Saved'
             /\ h \in writes' /\ group'[h].latest > 0 => h \in Saved'
  <2>1. h \in writes' => h \in cached
    BY <1>1, <1>2
  <2>2. h \in cached => Current(h) = group[h] /\ group'[h].latest = group[h].latest
    BY <1>4 DEF Current, LatestStays
  <2>3. Current(h)'.latest = Current(h).latest /\ (Current(h).latest > 0 => h \in Placed)
    BY <1>3, <1>4 DEF KeptInv, LatestStays
  <2>4. diskGroup[h].latest > 0 => h \in Saved
    BY <1>3 DEF KeptInv
  <2> QED
    BY <1>1, <1>6, <2>1, <2>2, <2>3, <2>4
<1> QED
  BY <1>5, <1>7 DEF ListInv, KeptInv

\* The first part of the save of a poll.
LEMMA ListSaveList ==
    ASSUME TypeOK, ListInv, SaveList
    PROVE  ListInv'
<1>1. /\ loop # "rests" /\ dirtyList' = FALSE /\ diskList' = list
      /\ UNCHANGED <<list, cached, group, dirtyGroups, adjusting, writes, diskGroup, loop, astray>>
  BY DEF SaveList
<1>2. ShapeInv /\ KeptInv
  BY DEF ListInv
<1>3. ShapeInv'
  <2>1. IsInjective(list') /\ IsInjective(diskList') /\ \A a \in adjusting' : IsInjective(a.base)
    BY <1>1, <1>2 DEF ShapeInv
  <2>2. (dirtyList' \/ list' = diskList') /\ loop' # "rests" /\ Holds(diskList, list)'
    BY <1>1 DEF Holds
  <2>3. \A a \in adjusting' : /\ Holds(list, a.base)' /\ Holds(a.base, list)'
                              /\ a.group \in dirtyGroups' \union astray'
    BY <1>1, <1>2 DEF ShapeInv, Holds
  <2>4. \A a, b \in adjusting' : a # b => a.group \in astray' /\ Holds(a.base, b.base)'
    BY <1>1, <1>2 DEF ShapeInv, Holds
  <2> QED
    BY <2>1, <2>2, <2>3, <2>4 DEF ShapeInv
<1>4. Placed' = Placed /\ Saved \subseteq Saved'
  BY <1>1, <1>2 DEF Placed, Saved, Waiting, ShapeInv, Holds
<1> QED
  BY <1>1, <1>2, <1>3, <1>4 DEF ListInv, KeptInv, Current

\* A write timer fires.
LEMMA ListFireWrite ==
    ASSUME TypeOK, ListInv, NEW g \in Group, FireWrite(g)
    PROVE  ListInv'
<1>1. /\ g \in writes /\ writes' = writes \ {g} /\ diskGroup' = Stored({g})
      /\ UNCHANGED <<list, dirtyList, dirtyGroups, adjusting, cached, group, diskList, loop, astray>>
  BY DEF FireWrite, memoryVars
<1>2. writes \subseteq cached
  BY DEF TypeOK
<1>3. ShapeInv /\ KeptInv
  BY DEF ListInv
<1>4. ShapeInv'
  <2>1. \A a \in adjusting : a.group \in dirtyGroups' \union astray'
    BY <1>1, <1>3 DEF ShapeInv
  <2> QED
    BY <1>1, <1>3, <2>1, ShapeStays
<1>5. Placed' = Placed /\ Saved' = Saved
  BY <1>1 DEF Placed, Saved, Waiting
<1>6. ASSUME NEW h \in Group
      PROVE  Current(h)' = Current(h) /\ diskGroup'[h] = IF h = g THEN group[h] ELSE diskGroup[h]
  BY <1>1, <1>2 DEF Current, Stored
<1> QED
  BY <1>1, <1>3, <1>4, <1>5, <1>6 DEF ListInv, KeptInv

\* What is left when nothing is cached is on the stored list.
LEMMA ListForgotten ==
    ASSUME ListInv, cached' = {}, writes' = {},
           NEW ws, ws \subseteq writes, diskGroup' = Stored(ws), UNCHANGED <<diskList, astray>>,
           ShapeInv'
    PROVE  ListInv'
<1>1. KeptInv
  BY DEF ListInv
<1>2. Saved' = Saved /\ Saved' \subseteq Placed'
  <2>1. Saved' = Saved
    BY DEF Saved
  <2>2. Saved' \subseteq Placed'
    BY DEF ShapeInv, Holds, Saved, Placed
  <2> QED
    BY <2>1, <2>2
<1>3. ASSUME NEW h \in Group
      PROVE  Current(h)' = diskGroup'[h] /\ (diskGroup'[h].latest > 0 => h \in Saved)
  BY <1>1 DEF Current, Stored, KeptInv
<1> QED
  BY <1>2, <1>3 DEF ListInv, KeptInv

\* A stop, which makes the writes that wait.
LEMMA ListStop ==
    ASSUME TypeOK, ListInv, Stop
    PROVE  ListInv'
<1>1. /\ cached' = {} /\ writes' = {} /\ diskGroup' = Stored(writes) /\ loop' = "drains"
      /\ UNCHANGED <<list, dirtyList, dirtyGroups, adjusting, diskList, astray>>
  BY DEF Stop, memoryVars
<1>2. ShapeInv'
  <2>1. \A a \in adjusting : a.group \in dirtyGroups' \union astray'
    BY <1>1 DEF ListInv, ShapeInv
  <2> QED
    BY <1>1, <2>1, ShapeStays DEF ListInv
<1> QED
  BY <1>1, <1>2, ListForgotten

\* A page that is closed, which does not.
LEMMA ListClose ==
    ASSUME TypeOK, ListInv, Close
    PROVE  ListInv'
<1>1. /\ cached' = {} /\ writes' = {} /\ diskGroup' = diskGroup /\ loop' = "runs" /\ list' = diskList
      /\ dirtyList' = FALSE /\ adjusting' = {} /\ UNCHANGED <<diskList, astray>>
  BY DEF Close
<1>2. diskGroup' = Stored({})
  BY <1>1, SyncTypes, StoredNone
<1>3. ShapeInv'
  BY <1>1 DEF ListInv, ShapeInv, Holds
<1> QED
  BY <1>1, <1>2, <1>3, ListForgotten

\* The loop ends, or is started again.
LEMMA ListLoop ==
    ASSUME TypeOK, ListInv, LoopEnds \/ Start
    PROVE  ListInv'
<1>1. /\ UNCHANGED <<dirtyList, dirtyGroups, adjusting, cached, group, writes, diskList, diskGroup, astray>>
      /\ \/ loop' = "rests" /\ ~dirtyList /\ dirtyGroups = {} /\ list' = list
         \/ loop = "rests" /\ loop' = "runs" /\ list' = diskList
  BY DEF LoopEnds, Start, memoryVars, diskVars
<1>2. ShapeInv /\ KeptInv
  BY DEF ListInv
<1>3. CASE loop' = "rests" /\ ~dirtyList /\ dirtyGroups = {} /\ list' = list
  <2>1. list = diskList
    BY <1>2, <1>3 DEF ShapeInv
  <2>2. ShapeInv'
    BY <1>1, <1>2, <1>3, <2>1 DEF ShapeInv, Holds
  <2>3. Placed' = Placed /\ Saved' = Saved
    BY <1>1, <1>3 DEF Placed, Saved, Waiting
  <2> QED
    BY <1>1, <1>2, <2>2, <2>3 DEF ListInv, KeptInv, Current
<1>4. CASE loop = "rests" /\ loop' = "runs" /\ list' = diskList
  <2>1. ShapeInv'
    <3>1. IsInjective(list') /\ IsInjective(diskList') /\ \A a \in adjusting' : IsInjective(a.base)
      BY <1>1, <1>2, <1>4 DEF ShapeInv
    <3>2. (dirtyList' \/ list' = diskList') /\ loop' # "rests" /\ Holds(diskList, list)'
      BY <1>1, <1>4 DEF Holds
    <3>3. \A a \in adjusting' : /\ Holds(list, a.base)' /\ Holds(a.base, list)'
                                /\ a.group \in dirtyGroups' \union astray'
      BY <1>1, <1>2, <1>4 DEF ShapeInv, Holds
    <3>4. \A a, b \in adjusting' : a # b => a.group \in astray' /\ Holds(a.base, b.base)'
      BY <1>1, <1>2 DEF ShapeInv, Holds
    <3> QED
      BY <3>1, <3>2, <3>3, <3>4 DEF ShapeInv
  <2>2. Placed \subseteq Placed' /\ Saved' = Saved
    BY <1>1, <1>2, <1>4 DEF Placed, Saved, Waiting, ShapeInv, Holds
  <2> QED
    BY <1>1, <1>2, <2>1, <2>2 DEF ListInv, KeptInv, Current
<1> QED
  BY <1>1, <1>3, <1>4

\* Every step keeps the list: a case per action.
LEMMA ListStep ==
    ASSUME Fits, TypeInv, ListInv, [Next]_vars
    PROVE  ListInv'
<1>1. TypeOK /\ ObjectType
  BY SyncTypes DEF TypeInv
<1>2. ASSUME LatestStays, UNCHANGED <<list, diskList, adjusting, dirtyList, dirtyGroups, loop, writes, astray>>
      PROVE  ListInv'
  BY <1>1, <1>2, ListStays
<1>3. ASSUME UNCHANGED inboxVars PROVE ListInv'
  <2>1. UNCHANGED <<list, diskList, adjusting, dirtyList, dirtyGroups, loop, writes, astray, diskGroup, group, cached>>
    BY <1>3 DEF inboxVars
  <2>2. LatestStays
    BY <2>1 DEF LatestStays, Current
  <2> QED
    BY <1>2, <2>1, <2>2
<1>4. ASSUME GetInbox PROVE ListInv'
  <2>1. /\ WithGroups(ToSet(list), Got(ToSet(list)))
        /\ UNCHANGED <<list, diskList, adjusting, dirtyList, dirtyGroups, loop, writes, astray, diskGroup>>
    BY <1>4 DEF GetInbox, memoryVars, diskVars
  <2>2. LatestStays
    BY <1>1, <2>1, GotLatest
  <2> QED
    BY <1>2, <2>1, <2>2
<1>5. ASSUME NEW p \in BOOLEAN,
             group' = [g \in Group |-> [group[g] EXCEPT !.read =
                          IF p /\ g \in cached THEN Corrected(items, CachedReads)[g] ELSE @]],
             UNCHANGED <<list, diskList, adjusting, dirtyList, dirtyGroups, loop, writes, astray, diskGroup, cached>>
      PROVE  ListInv'
  <2>1. RereadGroups
    BY <1>1, <1>5, SendRereads
  <2>2. LatestStays
    BY <1>1, <1>5, <2>1, RereadLatest
  <2> QED
    BY <1>2, <1>5, <2>2
<1>6. ASSUME Command PROVE ListInv'
  <2> DEFINE p == task # "none"
  <2>1. /\ UNCHANGED <<list, diskList, adjusting, dirtyList, dirtyGroups, loop, writes, astray, diskGroup, cached>>
        /\ group' = [g \in Group |-> [group[g] EXCEPT !.read =
                        IF p /\ g \in cached THEN Corrected(items, CachedReads)[g] ELSE @]]
    BY <1>6 DEF Command, memoryVars, diskVars
  <2>2. p \in BOOLEAN
    OBVIOUS
  <2> HIDE DEF p
  <2> QED
    BY <1>5, <2>1, <2>2
<1>7. ASSUME Clean PROVE ListInv'
  <2> DEFINE p == TRUE
  <2>1. /\ UNCHANGED <<list, diskList, adjusting, dirtyList, dirtyGroups, loop, writes, astray, diskGroup, cached>>
        /\ group' = [g \in Group |-> [group[g] EXCEPT !.read =
                        IF p /\ g \in cached THEN Corrected(items, CachedReads)[g] ELSE @]]
    BY <1>7 DEF Clean, memoryVars, diskVars
  <2>2. p \in BOOLEAN
    OBVIOUS
  <2> HIDE DEF p
  <2> QED
    BY <1>5, <2>1, <2>2
<1>8. ASSUME NEW g \in Group, ClearUnreadCount(g) \/ SetUnreadCount(g) PROVE ListInv'
  <2>1. now \in Nat /\ ReadAhead \in Nat /\ SetAhead \in Nat
    <3>1. now \in 0..MaxTime /\ MaxTime \in Nat
      BY <1>1, NumberAssumption DEF TypeOK, SyncTypeOK
    <3> QED
      BY <3>1, NumberAssumption
  <2> DEFINE latest == Loaded({g})[g].latest
  <2>2. latest \in Nat
    BY <1>1, LoadedObjects DEF Object
  <2>3. CASE ClearUnreadCount(g)
    <3>1. Reading(g, 0, Later(now + ReadAhead, latest))
      BY <2>3 DEF ClearUnreadCount
    <3> HIDE DEF latest
    <3>2. now + ReadAhead \in Nat
      BY <2>1
    <3>3. Later(now + ReadAhead, latest) \in Nat /\ 0 \in Nat
      BY <2>2, <3>2, LaterTime
    <3> QED
      BY <1>1, <3>1, <3>3, ListRead
  <2>4. CASE SetUnreadCount(g)
    <3>1. now + SetAhead \in Nat /\ 1 \in Nat
      BY <2>1
    <3>2. Reading(g, 1, now + SetAhead)
      BY <2>4 DEF SetUnreadCount
    <3> QED
      BY <1>1, <3>1, <3>2, ListRead
  <2> QED
    BY <1>8, <2>3, <2>4
<1>9. ASSUME NEW m \in Message, TakeMessage(m) PROVE ListInv'
  BY <1>1, <1>9, ListTake
<1>10. ASSUME NEW a \in adjusting, AdjustDone(a) PROVE ListInv'
  BY <1>1, <1>10, ListAdjust
<1>11. ASSUME NEW g \in Group, FireWrite(g) PROVE ListInv'
  BY <1>1, <1>11, ListFireWrite
<1>12. ASSUME SaveList \/ SaveGroups \/ Stop \/ Close \/ LoopEnds \/ Start PROVE ListInv'
  BY <1>1, <1>12, ListSaveList, ListSaveGroups, ListStop, ListClose, ListLoop
<1> QED
  BY <1>3, <1>4, <1>6, <1>7, <1>8, <1>9, <1>10, <1>11, <1>12 DEF Next, vars

\* Where the list has room for every group, no group is on it twice, and a
\* group with a message is on it or about to be placed, also after a stop or
\* a page closed between the write of the list and those of the groups; only
\* those stored while the list was not, or placed while another update of it
\* waited, may go missing (_adjustGroupIdsList, poll, start and stop).
THEOREM ListRight == ASSUME Fits PROVE Spec => []Listed
<1>1. Init => ListInv
  <2> SUFFICES ASSUME Init PROVE ListInv
    OBVIOUS
  <2>1. /\ list = <<>> /\ diskList = <<>> /\ adjusting = {} /\ dirtyList = FALSE /\ dirtyGroups = {}
        /\ writes = {} /\ cached = {} /\ loop = "runs" /\ diskGroup = [g \in Group |-> NewGroup]
    BY DEF Init, InboxInit
  <2>2. ShapeInv
    BY <2>1 DEF ShapeInv, Holds, IsInjective
  <2>3. KeptInv
    BY <2>1, NewObject DEF KeptInv, Current
  <2> QED
    BY <2>2, <2>3 DEF ListInv
<1>2. TypeInv /\ ListInv /\ [Next]_vars => ListInv'
  BY ListStep
<1>3. ListInv => Listed
  BY DEF ListInv, ShapeInv, KeptInv, Placed, Listed
<1> QED
  BY <1>1, <1>2, <1>3, TypeCorrect, PTL DEF Spec
=============================================================================
