---------------------------- MODULE DeviceProofs ----------------------------
(***************************************************************************)
(* Theorems about what is kept on the device: the accounts                 *)
(* (StorageManager), for any accounts and bounds, and the messages of a    *)
(* group (Conversation), for any messages, sizes of chunks and bounds.     *)
(*                                                                         *)
(* AccountsInv says what the scans of the storage have done up to where    *)
(* they are.  Of the messages, TurnInv says what is under way while a      *)
(* domain waits, FreshInv that what is inserted is new and what is stored  *)
(* is known, ChainInv that the chunks are in an order that no tail leads   *)
(* back in, HoldInv that local storage will hold what is cached, KeptInv   *)
(* that what is known waits or is shown, PagerInv that whoever pages       *)
(* through the messages has or will get what was shown as he began.        *)
(***************************************************************************)
EXTENDS Device, FiniteSetTheorems, SequenceTheorems, WellFoundedInduction, TLAPS

-----------------------------------------------------------------------------
(* The accounts on the device: sequences and the clock.                    *)

Less == {p \in Nat \X Nat : p[1] < p[2]}

\* A set of numbers that is not empty has a least one.
LEMMA LeastExists ==
    ASSUME NEW T, T \subseteq Nat, T # {}
    PROVE  \E n \in T : \A m \in T : n <= m
<1>1. IsWellFoundedOn(Less, Nat)
  BY NatLessThanWellFounded DEF OpToRel, Less, IsWellFoundedOn
<1>2. PICK n \in T : \A m \in T : <<m, n>> \notin Less
  BY <1>1, WFMin
<1>3. \A m \in T : ~(m < n)
  BY <1>2 DEF Less
<1> QED
  BY <1>3

\* Induction, for a set of numbers.
LEMMA CountingUp ==
    ASSUME NEW n \in Nat, NEW G, 0 \in G, \A k \in 1..n : k - 1 \in G => k \in G
    PROVE  0..n \subseteq G
<1> SUFFICES ASSUME (0..n) \ G # {}
             PROVE  FALSE
  OBVIOUS
<1>1. PICK k \in (0..n) \ G : \A m \in (0..n) \ G : k <= m
  <2>1. (0..n) \ G \subseteq Nat
    OBVIOUS
  <2> QED
    BY <2>1, LeastExists
<1>2. k \in 1..n
  OBVIOUS
<1>3. k - 1 \in 0..n /\ ~(k <= k - 1)
  BY <1>2
<1> QED
  BY <1>1, <1>2, <1>3

\* The lists of the first elements of list that are kept.
Keeps(list, as, n, f) ==
    \A i \in 0..n : f[i] = IF i = 0 THEN <<>>
                           ELSE IF list[i].of \in as THEN f[i - 1] ELSE Append(f[i - 1], list[i])

LEMMA KeepsExists ==
    ASSUME NEW T, NEW list \in Seq(T), NEW as
    PROVE  \E f \in [0..Len(list) -> Seq(T)] : Keeps(list, as, Len(list), f)
<1> DEFINE G == {n \in 0..Len(list) : \E f \in [0..n -> Seq(T)] : Keeps(list, as, n, f)}
<1>1. Len(list) \in Nat /\ \A i \in 1..Len(list) : list[i] \in T
  BY LenProperties, ElementOfSeq
<1>2. 0 \in G
  <2> DEFINE f == [i \in 0..0 |-> <<>>]
  <2>1. f \in [0..0 -> Seq(T)] /\ Keeps(list, as, 0, f)
    BY EmptySeq DEF Keeps
  <2>2. 0 \in 0..Len(list)
    BY <1>1
  <2> HIDE DEF f
  <2> QED
    BY <2>1, <2>2
<1>3. ASSUME NEW k \in 1..Len(list), k - 1 \in G
      PROVE  k \in G
  <2>1. PICK f \in [0..(k - 1) -> Seq(T)] : Keeps(list, as, k - 1, f)
    BY <1>3
  <2>0. k \in Nat /\ k # 0 /\ k \in 0..Len(list)
    BY <1>1
  <2> DEFINE next == IF list[k].of \in as THEN f[k - 1] ELSE Append(f[k - 1], list[k])
             g == [i \in 0..k |-> IF i = k THEN next ELSE f[i]]
  <2>2. next \in Seq(T)
    <3>1. f[k - 1] \in Seq(T) /\ list[k] \in T
      BY <1>1, <2>1
    <3> QED
      BY <3>1, AppendProperties
  <2>3. g \in [0..k -> Seq(T)]
    <3> HIDE DEF next
    <3> QED
      BY <2>1, <2>2
  <2>5. \A i \in 0..k : g[i] = IF i = k THEN next ELSE f[i]
    OBVIOUS
  <2>4. Keeps(list, as, k, g)
    <3> HIDE DEF g
    <3> SUFFICES ASSUME NEW i \in 0..k
                 PROVE  g[i] = IF i = 0 THEN <<>>
                               ELSE IF list[i].of \in as THEN g[i - 1] ELSE Append(g[i - 1], list[i])
      BY DEF Keeps
    <3>1. CASE i = k
      <4>1. g[i] = next /\ g[i - 1] = f[k - 1]
        BY <2>0, <2>5, <3>1
      <4> QED
        BY <2>0, <3>1, <4>1
    <3>2. CASE i # k
      <4>0. i \in 0..(k - 1) /\ (i # 0 => i - 1 \in 0..k /\ i - 1 # k)
        BY <2>0, <3>2
      <4>1. g[i] = f[i] /\ (i # 0 => g[i - 1] = f[i - 1])
        BY <2>5, <3>2, <4>0
      <4> HIDE DEF next
      <4> QED
        BY <2>1, <4>0, <4>1 DEF Keeps
    <3> QED
      BY <3>1, <3>2
  <2> HIDE DEF g
  <2> QED
    BY <2>0, <2>3, <2>4
<1>4. 0..Len(list) \subseteq G
  <2> HIDE DEF G
  <2> QED
    BY <1>1, <1>2, <1>3, CountingUp
<1>5. Len(list) \in G
  <2> HIDE DEF G
  <2> QED
    BY <1>1, <1>4
<1> QED
  BY <1>5

\* What is left of a list without some accounts.
LEMMA WithoutProperties ==
    ASSUME NEW T, NEW list \in Seq(T), NEW as
    PROVE  /\ Storage!Without(list, as) \in Seq(T)
           /\ Storage!Tracked(Storage!Without(list, as)) = Storage!Tracked(list) \ as
           /\ \A i \in DOMAIN Storage!Without(list, as) :
                 \E j \in DOMAIN list : Storage!Without(list, as)[i] = list[j]
<1> DEFINE n == Len(list)
           step(f) == [i \in 0..n |-> IF i = 0 THEN <<>>
                                      ELSE IF list[i].of \in as THEN f[i - 1] ELSE Append(f[i - 1], list[i])]
           kept == CHOOSE f : f = step(f)
           Right(i) == /\ \A p \in 1..Len(kept[i]) : \E j \in 1..i : kept[i][p] = list[j] /\ list[j].of \notin as
                       /\ \A j \in 1..i : list[j].of \notin as => \E p \in 1..Len(kept[i]) : kept[i][p] = list[j]
           G == {i \in 0..n : kept[i] \in Seq(T) /\ Right(i)}
<1>1. n \in Nat /\ DOMAIN list = 1..n /\ \A i \in 1..n : list[i] \in T
  BY LenProperties, ElementOfSeq
<1>2. Storage!Without(list, as) = kept[n]
  BY DEF Storage!Without
<1>3. kept = step(kept)
  <2>1. PICK g \in [0..n -> Seq(T)] : Keeps(list, as, n, g)
    BY KeepsExists
  <2>2. g = step(g)
    BY <2>1 DEF Keeps
  <2> QED
    BY <2>2
<1> HIDE DEF kept
<1>4. kept[0] = <<>>
  BY <1>1, <1>3
<1>5. \A i \in 1..n : kept[i] = IF list[i].of \in as THEN kept[i - 1] ELSE Append(kept[i - 1], list[i])
  BY <1>1, <1>3
<1> HIDE DEF step
<1>6. 0 \in G
  <2>1. kept[0] \in Seq(T) /\ Right(0)
    BY <1>4, EmptySeq
  <2>2. 0 \in 0..n
    BY <1>1
  <2> HIDE DEF Right
  <2> QED
    BY <2>1, <2>2
<1>7. ASSUME NEW k \in 1..n, k - 1 \in G
      PROVE  k \in G
  <2>1. kept[k - 1] \in Seq(T) /\ Right(k - 1)
    <3> HIDE DEF Right
    <3> QED
      BY <1>7
  <2>0. list[k] \in T /\ k \in Nat /\ k \in 0..n /\ 1..k = (1..(k - 1)) \union {k}
    BY <1>1
  <2>2. CASE list[k].of \in as
    <3>1. kept[k] = kept[k - 1]
      BY <1>5, <2>2
    <3>2. Right(k)
      BY <2>0, <2>1, <2>2, <3>1
    <3> HIDE DEF Right
    <3> QED
      BY <2>0, <2>1, <3>1, <3>2
  <2>3. CASE list[k].of \notin as
    <3>1. kept[k] = Append(kept[k - 1], list[k])
      BY <1>5, <2>3
    <3>2. /\ kept[k] \in Seq(T) /\ Len(kept[k]) = Len(kept[k - 1]) + 1
          /\ kept[k][Len(kept[k])] = list[k] /\ Len(kept[k - 1]) \in Nat
          /\ \A j \in 1..Len(kept[k - 1]) : kept[k][j] = kept[k - 1][j]
      <4> HIDE DEF Right
      <4> QED
        BY <2>0, <2>1, <3>1, AppendProperties, LenProperties
    <3>3. 1..Len(kept[k]) = (1..Len(kept[k - 1])) \union {Len(kept[k])}
      BY <3>2
    <3>4. \A p \in 1..Len(kept[k]) : \E j \in 1..k : kept[k][p] = list[j] /\ list[j].of \notin as
      <4> SUFFICES ASSUME NEW p \in 1..Len(kept[k])
                   PROVE  \E j \in 1..k : kept[k][p] = list[j] /\ list[j].of \notin as
        OBVIOUS
      <4>1. CASE p \in 1..Len(kept[k - 1])
        <5>1. PICK j \in 1..(k - 1) : kept[k - 1][p] = list[j] /\ list[j].of \notin as
          BY <2>1, <4>1
        <5>2. j \in 1..k /\ kept[k][p] = list[j]
          BY <2>0, <3>2, <4>1, <5>1
        <5> QED
          BY <5>1, <5>2
      <4>2. CASE p = Len(kept[k])
        <5>1. k \in 1..k
          BY <2>0
        <5> QED
          BY <2>3, <3>2, <4>2, <5>1
      <4> QED
        BY <3>3, <4>1, <4>2
    <3>5. \A j \in 1..k : list[j].of \notin as => \E p \in 1..Len(kept[k]) : kept[k][p] = list[j]
      BY <2>0, <2>1, <3>2, <3>3
    <3>6. Right(k)
      BY <3>4, <3>5
    <3> HIDE DEF Right
    <3> QED
      BY <2>0, <3>2, <3>6
  <2> QED
    BY <2>2, <2>3
<1>8. 0..n \subseteq G
  <2> HIDE DEF G
  <2> QED
    BY <1>1, <1>6, <1>7, CountingUp
<1>9. kept[n] \in Seq(T) /\ Right(n)
  <2>1. n \in 0..n
    BY <1>1
  <2>2. n \in G
    <3> HIDE DEF G
    <3> QED
      BY <1>8, <2>1
  <2> HIDE DEF Right
  <2> QED
    BY <2>2
<1>10. DOMAIN kept[n] = 1..Len(kept[n])
  BY <1>9, LenProperties
<1>11. \A i \in 1..Len(kept[n]) : \E j \in 1..n : kept[n][i] = list[j] /\ list[j].of \notin as
  BY <1>9
<1>12. \A j \in 1..n : list[j].of \notin as => \E i \in 1..Len(kept[n]) : kept[n][i] = list[j]
  BY <1>9
<1>13. Storage!Tracked(kept[n]) = Storage!Tracked(list) \ as
  <2>1. Storage!Tracked(kept[n]) \subseteq Storage!Tracked(list) \ as
    BY <1>1, <1>10, <1>11 DEF Storage!Tracked
  <2>2. ASSUME NEW a \in Storage!Tracked(list) \ as
        PROVE  a \in Storage!Tracked(kept[n])
    <3>1. PICK j \in 1..n : a = list[j].of
      BY <1>1 DEF Storage!Tracked
    <3>2. PICK i \in 1..Len(kept[n]) : kept[n][i] = list[j]
      BY <1>12, <3>1
    <3> QED
      BY <1>10, <3>1, <3>2 DEF Storage!Tracked
  <2> QED
    BY <2>1, <2>2
<1> QED
  BY <1>1, <1>2, <1>9, <1>10, <1>11, <1>13

\* The list of hashes after the use of an account.
LEMMA TouchProperties ==
    ASSUME NEW list \in Seq(Storage!HashType), NEW a \in Address, now \in Nat,
           \A i \in DOMAIN list : list[i].at <= now
    PROVE  LET after == Storage!Touch(list, a)
           IN  /\ after \in Seq(Storage!HashType) /\ after # <<>>
               /\ Storage!Tracked(after) = Storage!Tracked(list) \union {a}
               /\ \A i \in DOMAIN after : /\ after[i].at <= now
                                          /\ after[i].of = a => after[i].at = now
<1> DEFINE n == Len(list)
           new == [of |-> a, at |-> now]
           after == Storage!Touch(list, a)
<1>1. n \in Nat /\ DOMAIN list = 1..n /\ \A i \in 1..n : list[i] \in Storage!HashType
  BY LenProperties, ElementOfSeq
<1>2. \A i \in 1..n : list[i].at \in Nat /\ list[i].of \in Address
  BY <1>1 DEF Storage!HashType
<1>3. new \in Storage!HashType
  BY DEF Storage!HashType
<1>4. CASE a \in Storage!Tracked(list)
  <2> DEFINE f == [i \in 1..n |-> IF list[i].of = a THEN [list[i] EXCEPT !.at = now] ELSE list[i]]
  <2>1. after = f
    BY <1>1, <1>4 DEF Storage!Touch
  <2>2. \A i \in 1..n : /\ f[i] \in Storage!HashType /\ f[i].of = list[i].of /\ f[i].at <= now
                        /\ f[i].of = a => f[i].at = now
    BY <1>1, <1>2 DEF Storage!HashType
  <2>3. f \in [1..n -> Storage!HashType]
    BY <2>2
  <2>4. f \in Seq(Storage!HashType) /\ DOMAIN f = 1..n /\ Len(f) = n
    <3> HIDE DEF f
    <3>1. f \in Seq(Storage!HashType)
      BY <1>1, <2>3, SeqDef
    <3> QED
      BY <1>1, <2>3, <3>1, LenProperties
  <2> HIDE DEF f
  <2>5. Storage!Tracked(f) = Storage!Tracked(list)
    BY <1>1, <2>2, <2>4 DEF Storage!Tracked
  <2>6. f # <<>>
    <3>1. PICK i \in 1..n : list[i].of = a
      BY <1>1, <1>4 DEF Storage!Tracked
    <3> QED
      BY <2>4, <3>1, EmptySeq
  <2> QED
    BY <1>4, <2>1, <2>2, <2>4, <2>5, <2>6
<1>5. CASE a \notin Storage!Tracked(list)
  <2>1. after = Append(list, new)
    BY <1>5 DEF Storage!Touch
  <2> HIDE DEF after
  <2>2. /\ after \in Seq(Storage!HashType) /\ Len(after) = n + 1
        /\ after[n + 1] = new /\ \A i \in 1..n : after[i] = list[i]
    <3> HIDE DEF new
    <3> QED
      BY <1>1, <1>3, <2>1, AppendProperties
  <2>3. DOMAIN after = (1..n) \union {n + 1} /\ after # <<>>
    BY <1>1, <2>2, LenProperties, EmptySeq
  <2>4. \A i \in 1..n : list[i].of # a
    BY <1>1, <1>5 DEF Storage!Tracked
  <2>5. Storage!Tracked(after) = Storage!Tracked(list) \union {a}
    BY <1>1, <2>2, <2>3 DEF Storage!Tracked
  <2>6. \A i \in DOMAIN after : after[i].at <= now /\ (after[i].of = a => after[i].at = now)
    BY <1>1, <2>2, <2>3, <2>4
  <2> QED
    BY <2>2, <2>3, <2>5, <2>6 DEF after
<1> QED
  BY <1>4, <1>5

\* The account that is evicted is tracked, and none was used before it.
LEMMA OldestProperties ==
    ASSUME NEW list \in Seq(Storage!HashType), list # <<>>
    PROVE  \E i \in DOMAIN list : /\ Storage!Oldest(list) = list[i].of
                                  /\ \A j \in DOMAIN list : list[i].at <= list[j].at
<1> DEFINE n == Len(list)
           least == {i \in DOMAIN list : \A j \in DOMAIN list : list[i].at <= list[j].at}
           times == {list[i].at : i \in 1..n}
           back == {n - i : i \in least}
<1>1. n \in Nat /\ DOMAIN list = 1..n /\ (\A i \in 1..n : list[i] \in Storage!HashType) /\ n # 0
  BY LenProperties, ElementOfSeq, EmptySeq
<1>2. \A i \in 1..n : list[i].at \in Nat
  BY <1>1 DEF Storage!HashType
<1>3. PICK t \in times : \A u \in times : t <= u
  <2>1. times \subseteq Nat /\ times # {}
    BY <1>1, <1>2
  <2> HIDE DEF times
  <2> QED
    BY <2>1, LeastExists
<1>4. least # {} /\ least \subseteq 1..n
  <2>1. PICK i \in 1..n : t = list[i].at
    OBVIOUS
  <2>2. \A j \in 1..n : list[i].at <= list[j].at
    BY <1>3, <2>1
  <2>3. i \in least
    BY <1>1, <2>1, <2>2
  <2>4. least \subseteq 1..n
    BY <1>1
  <2> QED
    BY <2>3, <2>4
<1> HIDE DEF least
<1>5. PICK b \in back : \A c \in back : b <= c
  <2>1. \A i \in least : n - i \in Nat
    <3>1. \A i \in 1..n : n - i \in Nat
      BY <1>1
    <3> QED
      BY <1>4, <3>1
  <2>2. back \subseteq Nat /\ back # {}
    <3> HIDE DEF n
    <3> QED
      BY <1>4, <2>1
  <2> HIDE DEF back
  <2> QED
    BY <2>2, LeastExists
<1>6. \E i \in least : \A j \in least : j <= i
  <2>1. PICK i \in least : b = n - i
    OBVIOUS
  <2>2. ASSUME NEW j \in least PROVE j <= i
    <3>1. n - i <= n - j
      BY <1>5, <2>1
    <3> QED
      BY <1>1, <1>4, <3>1
  <2> QED
    BY <2>2
<1>7. (CHOOSE i \in least : \A j \in least : j <= i) \in least
  BY <1>6
<1>8. Storage!Oldest(list) = list[CHOOSE i \in least : \A j \in least : j <= i].of
  BY DEF Storage!Oldest, least
<1> QED
  BY <1>7, <1>8 DEF least

\* A sequence after a place was removed: what was behind it moved up.
LEMMA RemoveAtProperties ==
    ASSUME NEW T, NEW s \in Seq(T), NEW i \in 1..Len(s)
    PROVE  LET after == Storage!RemoveAt(s, i)
           IN  /\ after \in Seq(T) /\ Len(after) = Len(s) - 1
               /\ \A j \in 1..Len(after) : after[j] = IF j < i THEN s[j] ELSE s[j + 1]
<1>1. Len(s) \in Nat
  BY LenProperties
<1>2. /\ SubSeq(s, 1, i - 1) \in Seq(T) /\ Len(SubSeq(s, 1, i - 1)) = i - 1
      /\ \A j \in 1..(i - 1) : SubSeq(s, 1, i - 1)[j] = s[j]
  BY <1>1, SubSeqProperties
<1>3. /\ SubSeq(s, i + 1, Len(s)) \in Seq(T) /\ Len(SubSeq(s, i + 1, Len(s))) = Len(s) - i
      /\ \A j \in 1..(Len(s) - i) : SubSeq(s, i + 1, Len(s))[j] = s[i + j]
  BY <1>1, SubSeqProperties
<1> DEFINE before == SubSeq(s, 1, i - 1)
           behind == SubSeq(s, i + 1, Len(s))
<1>4. Storage!RemoveAt(s, i) = before \o behind
  BY DEF Storage!RemoveAt
<1> HIDE DEF before, behind
<1>5. /\ before \o behind \in Seq(T) /\ Len(before \o behind) = Len(s) - 1
      /\ \A j \in 1..(Len(s) - 1) : (before \o behind)[j] = IF j <= i - 1 THEN before[j] ELSE behind[j - (i - 1)]
  <2>1. /\ before \in Seq(T) /\ Len(before) = i - 1
        /\ behind \in Seq(T) /\ Len(behind) = Len(s) - i
    BY <1>2, <1>3 DEF before, behind
  <2>2. /\ before \o behind \in Seq(T) /\ Len(before \o behind) = Len(before) + Len(behind)
        /\ \A j \in 1..(Len(before) + Len(behind)) :
              (before \o behind)[j] = IF j <= Len(before) THEN before[j] ELSE behind[j - Len(before)]
    BY <2>1, ConcatProperties
  <2>3. Len(before) + Len(behind) = Len(s) - 1
    BY <1>1, <2>1
  <2> QED
    BY <2>1, <2>2, <2>3
<1>6. ASSUME NEW j \in 1..(Len(s) - 1)
      PROVE  (before \o behind)[j] = IF j < i THEN s[j] ELSE s[j + 1]
  <2>1. CASE j < i
    BY <1>1, <1>2, <1>5, <2>1 DEF before
  <2>2. CASE ~(j < i)
    <3>1. j - (i - 1) \in 1..(Len(s) - i) /\ i + (j - (i - 1)) = j + 1
      BY <1>1, <2>2
    <3>2. behind[j - (i - 1)] = s[j + 1]
      BY <1>3, <3>1 DEF behind
    <3> QED
      BY <1>1, <1>5, <2>2, <3>2
  <2> QED
    BY <2>1, <2>2
<1> QED
  BY <1>4, <1>5, <1>6

-----------------------------------------------------------------------------
(* The accounts on the device: what is covered stays covered.              *)

Owned == Storage!Tracked(hashes) \union Storage!StoredTracked \union excused

Grows == skipped \subseteq skipped' /\ excused \subseteq excused' /\ Owned \subseteq Owned'

LEMMA Monotone ==
    ASSUME Grows
    PROVE  /\ \A e : Storage!Covered(e) => Storage!Covered(e)'
           /\ \A as, e : Storage!Seen(as, e) => Storage!Seen(as, e)'
<1>1. ASSUME NEW e, Storage!Covered(e)
      PROVE  Storage!Covered(e)'
  BY <1>1 DEF Grows, Owned, Storage!Covered
<1>2. ASSUME NEW as, NEW e, Storage!Seen(as, e)
      PROVE  Storage!Seen(as, e)'
  BY <1>1, <1>2 DEF Grows, Storage!Seen
<1> QED
  BY <1>1, <1>2

\* Where no entry comes, goes or is looked at.
LEMMA ScansStill ==
    ASSUME Grows, \A s \in scans : Storage!ScanInv(s), entries' = entries, prefix' = prefix,
           \A s \in scans' : s \in scans /\ (s.evict = {} => init' = "scan")
    PROVE  \A s \in scans' : Storage!ScanInv(s)'
<1> SUFFICES ASSUME NEW s \in scans'
             PROVE  Storage!ScanInv(s)'
  OBVIOUS
<1>1. Storage!ScanInv(s)
  OBVIOUS
<1>2. \A j \in DOMAIN entries : j < s.i => Storage!Seen(s.evict, entries[j])'
  BY <1>1, Monotone DEF Storage!ScanInv
<1>3. (\A j \in DOMAIN entries : j < s.i => Storage!Seen(s.evict, entries[j]))'
  BY <1>2 DEF Storage!Seen, Storage!Covered
<1>4. prefix' \cap s.evict \subseteq excused'
  BY <1>1 DEF Grows, Storage!ScanInv
<1> QED
  BY <1>3, <1>4 DEF Storage!ScanInv

LEMMA EntriesStill ==
    ASSUME Grows, Storage!EntriesInv, \A j \in DOMAIN entries' : \E k \in DOMAIN entries : entries'[j] = entries[k],
           marked' \/ init' \in {"persist", "mark", "done"} =>
               marked \/ init \in {"persist", "mark", "done"} \/ \A j \in DOMAIN entries : Storage!Covered(entries[j])
    PROVE  Storage!EntriesInv'
<1> SUFFICES ASSUME marked' \/ init' \in {"persist", "mark", "done"}
             PROVE  (\A j \in DOMAIN entries : Storage!Covered(entries[j]))'
  BY DEF Storage!EntriesInv
<1>1. \A j \in DOMAIN entries : Storage!Covered(entries[j])
  BY DEF Storage!EntriesInv
<1>2. \A e : \A k \in DOMAIN entries : e = entries[k] => Storage!Covered(e)'
  BY <1>1, Monotone
<1>3. \A e : \A j \in DOMAIN entries' : e = entries'[j] => Storage!Covered(e)'
  BY <1>2
<1> QED
  BY <1>3 DEF Storage!Covered

LEMMA TrackedTypes ==
    ASSUME Storage!TypeOK
    PROVE  /\ hashes \in Seq(Storage!HashType) /\ now \in Nat
           /\ \A i \in DOMAIN hashes : hashes[i].at <= now
           /\ Storage!Tracked(hashes) \subseteq Address
<1>1. hashes \in Seq(Storage!HashType) /\ now \in Nat /\ \A i \in DOMAIN hashes : hashes[i].at <= now
  BY DEF Storage!TypeOK
<1>2. \A i \in DOMAIN hashes : hashes[i].of \in Address
  <2>1. DOMAIN hashes = 1..Len(hashes) /\ \A i \in 1..Len(hashes) : hashes[i] \in Storage!HashType
    BY <1>1, LenProperties, ElementOfSeq
  <2> QED
    BY <2>1 DEF Storage!HashType
<1> QED
  BY <1>1, <1>2 DEF Storage!Tracked

\* Setting up and the steps of init.
LEMMA StartStep ==
    ASSUME Storage!AccountsInv,
           \/ Storage!SetStorageAdaptor \/ Storage!LoadAddressHashes \/ Storage!IsInitialized
           \/ Storage!PersistAfterCleaning \/ Storage!MarkAsInitialized
    PROVE  Storage!AccountsInv'
<1>1. /\ Storage!TypeOK /\ Storage!TrackedInv /\ Storage!EntriesInv
      /\ \A s \in scans : Storage!ScanInv(s)
  BY DEF Storage!AccountsInv
<1>2. ASSUME Storage!SetStorageAdaptor
      PROVE  Storage!AccountsInv'
  <2>1. /\ init = "no" /\ init' = "load"
        /\ UNCHANGED <<entries, stored, marked, hashes, prefix, scans, now, skipped, excused>>
    BY <1>2 DEF Storage!SetStorageAdaptor, Storage!disk
  <2>2. Storage!StoredTracked' = Storage!StoredTracked
    BY <2>1 DEF Storage!StoredTracked
  <2>3. scans = {} /\ Grows
    BY <1>1, <2>1, <2>2 DEF Storage!TrackedInv, Grows, Owned
  <2>4. Storage!TypeOK'
    BY <1>1, <2>1 DEF Storage!TypeOK
  <2>5. Storage!TrackedInv'
    BY <1>1, <2>1, <2>2 DEF Storage!TrackedInv
  <2>6. Storage!EntriesInv'
    BY <1>1, <2>1, <2>3, EntriesStill
  <2> QED
    BY <2>1, <2>3, <2>4, <2>5, <2>6 DEF Storage!AccountsInv
<1>3. ASSUME Storage!LoadAddressHashes
      PROVE  Storage!AccountsInv'
  <2>1. /\ init = "load" /\ init' = "check"
        /\ UNCHANGED <<entries, stored, marked, prefix, scans, now, skipped>>
    BY <1>3 DEF Storage!LoadAddressHashes, Storage!disk
  <2>2. Storage!StoredTracked' = Storage!StoredTracked
    BY <2>1 DEF Storage!StoredTracked
  <2>3. \A s \in scans : s.evict # {}
    BY <1>1, <2>1 DEF Storage!ScanInv
  <2>4. /\ excused \subseteq excused'
        /\ Storage!Tracked(hashes) \subseteq Storage!Tracked(hashes') \union excused'
        /\ Storage!StoredTracked \subseteq Storage!Tracked(hashes')
        /\ hashes' = hashes \/ hashes' \in stored
    <3>1. CASE stored = {}
      BY <1>3, <3>1 DEF Storage!LoadAddressHashes, Storage!StoredTracked
    <3>2. CASE stored # {}
      <4>1. /\ hashes' \in stored
            /\ excused' = excused \union (Storage!Tracked(hashes) \ Storage!Tracked(hashes'))
        BY <1>3, <3>2 DEF Storage!LoadAddressHashes
      <4>2. \A list \in stored : list = hashes'
        BY <1>1, <4>1 DEF Storage!TypeOK
      <4>3. \A list \in stored : Storage!Tracked(list) = Storage!Tracked(hashes')
        BY <4>2
      <4>4. Storage!StoredTracked \subseteq Storage!Tracked(hashes')
        BY <4>3 DEF Storage!StoredTracked
      <4> QED
        BY <4>1, <4>4
    <3> QED
      BY <3>1, <3>2
  <2>5. Grows
    BY <2>1, <2>2, <2>4 DEF Grows, Owned
  <2>6. Storage!TypeOK'
    BY <1>1, <2>1, <2>4 DEF Storage!TypeOK
  <2>7. Storage!TrackedInv'
    <3>1. hashes' = hashes \/ Storage!Tracked(hashes') \subseteq Storage!StoredTracked
      BY <2>4 DEF Storage!StoredTracked
    <3> QED
      BY <1>1, <2>1, <2>2, <2>4, <3>1 DEF Storage!TrackedInv
  <2>8. (\A s \in scans : Storage!ScanInv(s))'
    BY <1>1, <2>1, <2>3, <2>5, ScansStill
  <2>9. Storage!EntriesInv'
    BY <1>1, <2>1, <2>5, EntriesStill
  <2> QED
    BY <2>6, <2>7, <2>8, <2>9 DEF Storage!AccountsInv
<1>4. ASSUME Storage!IsInitialized
      PROVE  Storage!AccountsInv'
  <2> DEFINE new == [evict |-> {}, i |-> 1, id |-> 0]
  <2>1. /\ init = "check" /\ UNCHANGED <<entries, stored, marked, hashes, prefix, now, skipped, excused>>
        /\ \/ marked /\ init' = "done" /\ scans' = scans
           \/ init' = "scan" /\ scans' = scans \union {new}
    BY <1>4 DEF Storage!IsInitialized, Storage!disk
  <2>2. Storage!StoredTracked' = Storage!StoredTracked
    BY <2>1 DEF Storage!StoredTracked
  <2>3. Grows
    BY <2>1, <2>2 DEF Grows, Owned
  <2>4. \A s \in scans : s.evict # {}
    BY <1>1, <2>1 DEF Storage!ScanInv
  <2>5. Storage!TypeOK'
    <3>1. new = [evict |-> new.evict, i |-> new.i, id |-> new.id] /\ new.i \in Nat \ {0}
      OBVIOUS
    <3>2. \A s, t \in scans' : s.evict = {} /\ t.evict = {} => s = t
      BY <1>1, <2>1, <2>4 DEF Storage!TypeOK
    <3>3. \A s \in scans' : s = [evict |-> s.evict, i |-> s.i, id |-> s.id] /\ s.i \in Nat \ {0}
      <4> HIDE DEF new
      <4> QED
        BY <1>1, <2>1, <3>1 DEF Storage!TypeOK
    <3> HIDE DEF new
    <3> QED
      BY <1>1, <2>1, <3>2, <3>3 DEF Storage!TypeOK
  <2>6. Storage!TrackedInv'
    BY <1>1, <2>1, <2>2 DEF Storage!TrackedInv
  <2>7. \A s \in scans : Storage!ScanInv(s)'
    <3> SUFFICES ASSUME NEW s \in scans
                 PROVE  Storage!ScanInv(s)'
      OBVIOUS
    <3>1. Storage!ScanInv(s) /\ s.evict # {}
      BY <1>1, <2>4
    <3>2. (\A j \in DOMAIN entries : j < s.i => Storage!Seen(s.evict, entries[j]))'
      BY <2>1, <3>1 DEF Storage!ScanInv, Storage!Seen
    <3> QED
      BY <2>1, <3>1, <3>2 DEF Storage!ScanInv
  <2>8. init' = "scan" => Storage!ScanInv(new)'
    <3>1. \A j \in DOMAIN entries' : j \in Nat /\ ~(j < 1)
      BY <1>1, <2>1, LenProperties DEF Storage!TypeOK
    <3> QED
      BY <3>1 DEF Storage!ScanInv
  <2>9. Storage!EntriesInv'
    BY <1>1, <2>1, <2>3, EntriesStill
  <2> HIDE DEF new
  <2>10. (\A s \in scans : Storage!ScanInv(s))'
    BY <2>1, <2>7, <2>8
  <2> QED
    BY <2>5, <2>6, <2>9, <2>10 DEF Storage!AccountsInv
<1>5. ASSUME Storage!PersistAfterCleaning \/ Storage!MarkAsInitialized
      PROVE  Storage!AccountsInv'
  <2>1. /\ init \in {"persist", "mark"} /\ init' \in {"mark", "done"}
        /\ UNCHANGED <<entries, hashes, prefix, scans, now, skipped, excused>>
        /\ stored' = stored \/ stored' = {hashes}
    BY <1>5 DEF Storage!PersistAfterCleaning, Storage!MarkAsInitialized
  <2>2. Storage!StoredTracked' = Storage!StoredTracked \/ Storage!StoredTracked' = Storage!Tracked(hashes)
    BY <2>1 DEF Storage!StoredTracked
  <2>3. Storage!StoredTracked \subseteq Storage!Tracked(hashes)
    BY <1>1, <2>1 DEF Storage!TrackedInv
  <2>4. Grows
    BY <2>1, <2>2, <2>3 DEF Grows, Owned
  <2>5. Storage!TypeOK'
    BY <1>1, <2>1 DEF Storage!TypeOK
  <2>6. Storage!TrackedInv'
    BY <1>1, <2>1, <2>2, <2>3 DEF Storage!TrackedInv
  <2>7. \A s \in scans : s.evict # {}
    BY <1>1, <2>1 DEF Storage!ScanInv
  <2>8. (\A s \in scans : Storage!ScanInv(s))'
    BY <1>1, <2>1, <2>4, <2>7, ScansStill
  <2>9. Storage!EntriesInv'
    BY <1>1, <2>1, <2>4, EntriesStill
  <2> QED
    BY <2>5, <2>6, <2>8, <2>9 DEF Storage!AccountsInv
<1> QED
  BY <1>2, <1>3, <1>4, <1>5

-----------------------------------------------------------------------------
(* The accounts on the device: the scans.                                  *)

AllSeen == \A t \in scans : \A j \in DOMAIN entries : j < t.i => Storage!Seen(t.evict, entries[j])

LEMMA EntriesType ==
    ASSUME Storage!TypeOK
    PROVE  /\ Len(entries) \in Nat /\ DOMAIN entries = 1..Len(entries)
           /\ \A j \in DOMAIN entries : entries[j] \in Storage!EntryType
BY LenProperties, ElementOfSeq DEF Storage!TypeOK

\* What a removed key leaves behind.
LEMMA RemovedEntries ==
    ASSUME Storage!TypeOK, NEW s \in scans, s.i \in DOMAIN entries, Storage!RemoveKey(s)
    PROVE  /\ entries' \in Seq(Storage!EntryType) /\ DOMAIN entries' = 1..(Len(entries) - 1)
           /\ \A j \in DOMAIN entries' : entries'[j] = IF j < s.i THEN entries[j] ELSE entries[j + 1]
           /\ \A j \in DOMAIN entries : j # s.i => \E k \in DOMAIN entries' : entries'[k] = entries[j]
<1>1. Len(entries) \in Nat /\ DOMAIN entries = 1..Len(entries) /\ entries \in Seq(Storage!EntryType)
  BY EntriesType DEF Storage!TypeOK
<1>2. entries' = Storage!RemoveAt(entries, s.i) /\ s.i \in 1..Len(entries)
  BY <1>1 DEF Storage!RemoveKey
<1>3. /\ entries' \in Seq(Storage!EntryType) /\ Len(entries') = Len(entries) - 1
      /\ \A j \in 1..Len(entries') : entries'[j] = IF j < s.i THEN entries[j] ELSE entries[j + 1]
  BY <1>1, <1>2, RemoveAtProperties
<1>4. DOMAIN entries' = 1..(Len(entries) - 1)
  BY <1>3, LenProperties
<1>5. ASSUME NEW j \in DOMAIN entries, j # s.i
      PROVE  \E k \in DOMAIN entries' : entries'[k] = entries[j]
  <2>1. CASE j < s.i
    <3>1. j \in 1..(Len(entries) - 1)
      BY <1>1, <1>2, <2>1
    <3> QED
      BY <1>3, <1>4, <2>1, <3>1
  <2>2. CASE ~(j < s.i)
    <3>1. j - 1 \in 1..(Len(entries) - 1) /\ ~(j - 1 < s.i) /\ (j - 1) + 1 = j
      BY <1>1, <1>2, <1>5, <2>2
    <3>2. entries'[j - 1] = entries[j]
      BY <1>3, <3>1
    <3> QED
      BY <1>4, <3>1, <3>2
  <2> QED
    BY <2>1, <2>2
<1> QED
  BY <1>3, <1>4, <1>5

\* A scan that removes a key: what moves up past a scan unseen is skipped.
LEMMA RemovedSeen ==
    ASSUME Storage!TypeOK, AllSeen, Grows, NEW s \in scans, s.i \in DOMAIN entries,
           Storage!RemoveKey(s), Storage!Advance(s)
    PROVE  AllSeen'
<1>1. /\ DOMAIN entries' = 1..(Len(entries) - 1)
      /\ \A j \in DOMAIN entries' : entries'[j] = IF j < s.i THEN entries[j] ELSE entries[j + 1]
  BY RemovedEntries
<1>2. /\ Len(entries) \in Nat /\ DOMAIN entries = 1..Len(entries)
      /\ \A t \in scans : t.i \in Nat /\ t = [evict |-> t.evict, i |-> t.i, id |-> t.id]
  BY EntriesType DEF Storage!TypeOK
<1>3. skipped' = skipped \union {entries[i] : i \in DOMAIN entries \cap
                                     ({s.i + 1} \union {t.i : t \in {u \in scans : u.i > s.i}})}
  BY DEF Storage!RemoveKey
<1>4. scans' = (scans \ {s}) \union {[s EXCEPT !.i = @ + 1]}
  BY DEF Storage!Advance
<1>5. \A e \in skipped' : \A as : Storage!Seen(as, e)'
  BY DEF Storage!Seen, Storage!Covered
<1> SUFFICES ASSUME NEW t \in scans', NEW j \in DOMAIN entries', j < t.i
             PROVE  Storage!Seen(t.evict, entries[j])'
  BY DEF AllSeen
<1>6. ASSUME NEW u \in scans, u.evict = t.evict, NEW k \in DOMAIN entries, k < u.i, entries'[j] = entries[k]
      PROVE  Storage!Seen(t.evict, entries[j])'
  <2>1. Storage!Seen(t.evict, entries[k])
    BY <1>6 DEF AllSeen
  <2>2. \A e : e = entries[k] => Storage!Seen(t.evict, e)'
    BY <2>1, Monotone
  <2> QED
    BY <1>6, <2>2 DEF Storage!Seen, Storage!Covered
<1>7. ASSUME entries'[j] \in skipped'
      PROVE  Storage!Seen(t.evict, entries[j])'
  BY <1>7 DEF Storage!Seen, Storage!Covered
<1>8. CASE j < s.i
  <2>1. j \in DOMAIN entries /\ entries'[j] = entries[j]
    BY <1>1, <1>2, <1>8
  <2>2. CASE t \in scans
    BY <1>6, <2>1, <2>2
  <2>3. CASE t \notin scans
    <3>1. t.evict = s.evict
      BY <1>2, <1>4, <2>3
    <3> QED
      BY <1>6, <1>8, <2>1, <3>1
  <2> QED
    BY <2>2, <2>3
<1>9. CASE ~(j < s.i)
  <2>1. j + 1 \in DOMAIN entries /\ entries'[j] = entries[j + 1] /\ j \in Nat
    BY <1>1, <1>2, <1>9
  <2>2. CASE t \in scans
    <3>1. CASE j + 1 < t.i
      BY <1>6, <2>1, <2>2, <3>1
    <3>2. CASE ~(j + 1 < t.i)
      <4>1. t.i = j + 1 /\ t.i > s.i
        BY <1>2, <1>9, <2>1, <2>2, <3>2
      <4>2. t.i \in DOMAIN entries \cap ({s.i + 1} \union {v.i : v \in {u \in scans : u.i > s.i}})
        BY <2>1, <2>2, <4>1
      <4>3. entries[j + 1] \in skipped'
        BY <1>3, <4>1, <4>2
      <4> QED
        BY <1>7, <2>1, <4>3
    <3> QED
      BY <3>1, <3>2
  <2>3. CASE t \notin scans
    <3>1. t.i = s.i + 1
      BY <1>2, <1>4, <2>3
    <3>2. j = s.i
      BY <1>2, <1>9, <2>1, <3>1
    <3>3. entries[j + 1] \in skipped'
      BY <1>3, <2>1, <3>2
    <3> QED
      BY <1>7, <2>1, <3>3
  <2> QED
    BY <2>2, <2>3
<1> QED
  BY <1>8, <1>9

\* A scan that leaves a key.
LEMMA LeftSeen ==
    ASSUME Storage!TypeOK, AllSeen, Grows, NEW s \in scans, entries' = entries,
           Storage!Seen(s.evict, entries[s.i])', Storage!Advance(s)
    PROVE  AllSeen'
<1>1. scans' = (scans \ {s}) \union {[s EXCEPT !.i = @ + 1]}
  BY DEF Storage!Advance
<1>2. /\ \A t \in scans : t.i \in Nat /\ t = [evict |-> t.evict, i |-> t.i, id |-> t.id]
      /\ \A j \in DOMAIN entries : j \in Nat
  BY EntriesType DEF Storage!TypeOK
<1> SUFFICES ASSUME NEW t \in scans', NEW j \in DOMAIN entries', j < t.i
             PROVE  Storage!Seen(t.evict, entries[j])'
  BY DEF AllSeen
<1>3. ASSUME NEW u \in scans, u.evict = t.evict, j < u.i
      PROVE  Storage!Seen(t.evict, entries[j])'
  <2>1. Storage!Seen(t.evict, entries[j])
    BY <1>3 DEF AllSeen
  <2>2. \A e : e = entries[j] => Storage!Seen(t.evict, e)'
    BY <2>1, Monotone
  <2> QED
    BY <2>2 DEF Storage!Seen, Storage!Covered
<1>4. CASE t \in scans
  BY <1>3, <1>4
<1>5. CASE t \notin scans
  <2>1. t.evict = s.evict /\ t.i = s.i + 1
    BY <1>1, <1>2, <1>5
  <2>2. j < s.i \/ j = s.i
    BY <1>2, <2>1
  <2>3. j = s.i => Storage!Seen(t.evict, entries[j])'
    BY <2>1 DEF Storage!Seen, Storage!Covered
  <2> QED
    BY <1>3, <2>1, <2>2, <2>3
<1> QED
  BY <1>4, <1>5

\* What a step of a scan does besides.
LEMMA ScanRest ==
    ASSUME Storage!TypeOK, NEW s \in scans, Storage!Advance(s)
    PROVE  /\ \A t \in scans' : \E u \in scans : u.evict = t.evict
           /\ \A u \in scans : \E t \in scans' : u.evict = t.evict
           /\ \A t \in scans' : t = [evict |-> t.evict, i |-> t.i, id |-> t.id] /\ t.i \in Nat \ {0}
           /\ \A u, t \in scans' : u.evict = {} /\ t.evict = {} => u = t
<1>1. scans' = (scans \ {s}) \union {[s EXCEPT !.i = @ + 1]}
  BY DEF Storage!Advance
<1>2. \A t \in scans : t = [evict |-> t.evict, i |-> t.i, id |-> t.id] /\ t.i \in Nat \ {0}
  BY DEF Storage!TypeOK
<1> DEFINE new == [s EXCEPT !.i = @ + 1]
<1>3. new = [evict |-> s.evict, i |-> s.i + 1, id |-> s.id] /\ s.i + 1 \in Nat \ {0}
  BY <1>2
<1>4. new.evict = s.evict /\ new.i = s.i + 1 /\ new.id = s.id
  BY <1>3
<1> HIDE DEF new
<1>5. scans' = (scans \ {s}) \union {new}
  BY <1>1 DEF new
<1>6. \A u, t \in scans' : u.evict = {} /\ t.evict = {} => u = t
  <2>1. \A u, t \in scans : u.evict = {} /\ t.evict = {} => u = t
    BY DEF Storage!TypeOK
  <2> QED
    BY <1>4, <1>5, <2>1
<1> QED
  BY <1>2, <1>3, <1>4, <1>5, <1>6

\* What a scan keeps of the scans besides.
LEMMA ScansAdvance ==
    ASSUME Storage!TypeOK, \A t \in scans : Storage!ScanInv(t), AllSeen', Grows, NEW s \in scans, Storage!Advance(s),
           UNCHANGED <<prefix, init>>
    PROVE  \A t \in scans' : Storage!ScanInv(t)'
<1> SUFFICES ASSUME NEW t \in scans'
             PROVE  Storage!ScanInv(t)'
  OBVIOUS
<1>1. PICK u \in scans : u.evict = t.evict
  BY ScanRest
<1>2. (t.evict = {} => init = "scan") /\ prefix \cap t.evict \subseteq excused
  BY <1>1 DEF Storage!ScanInv
<1>3. (\A j \in DOMAIN entries : j < t.i => Storage!Seen(t.evict, entries[j]))'
  BY DEF AllSeen
<1> QED
  BY <1>2, <1>3 DEF Storage!ScanInv, Grows

\* Cleaning looks at a key.
LEMMA CleanStep ==
    ASSUME Storage!AccountsInv, "foreign" \notin Address, NEW s \in scans, Storage!CleanStorageEntry(s)
    PROVE  Storage!AccountsInv' /\ Storage!InUseIsKept
<1>1. /\ Storage!TypeOK /\ Storage!TrackedInv /\ Storage!EntriesInv
      /\ \A t \in scans : Storage!ScanInv(t)
  BY DEF Storage!AccountsInv
<1>2. /\ s.evict = {} /\ s.i \in DOMAIN entries /\ Storage!Advance(s)
      /\ UNCHANGED <<marked, prefix, init, now, excused>>
  BY DEF Storage!CleanStorageEntry
<1>3. init = "scan" /\ AllSeen
  BY <1>1, <1>2 DEF Storage!ScanInv, AllSeen
<1>4. Storage!StoredTracked \subseteq Storage!Tracked(hashes)
  BY <1>1, <1>3 DEF Storage!TrackedInv
<1> DEFINE a == entries[s.i].of
<1>5. CASE a = "foreign" \/ (a # "global" /\ a \notin Storage!Tracked(hashes) /\ Len(hashes) >= storageLeft.max)
  <2>1. Storage!RemoveKey(s) /\ UNCHANGED <<hashes, stored>>
    BY <1>5 DEF Storage!CleanStorageEntry
  <2>2. /\ entries' \in Seq(Storage!EntryType)
        /\ \A j \in DOMAIN entries : j # s.i => \E k \in DOMAIN entries' : entries'[k] = entries[j]
        /\ \A j \in DOMAIN entries' : \E k \in DOMAIN entries : entries'[j] = entries[k]
    BY <1>1, <1>2, <2>1, RemovedEntries, EntriesType
  <2>3. Grows
    BY <1>2, <2>1 DEF Grows, Owned, Storage!StoredTracked, Storage!RemoveKey
  <2>4. AllSeen'
    BY <1>1, <1>2, <1>3, <2>1, <2>3, RemovedSeen
  <2>5. (\A t \in scans : Storage!ScanInv(t))'
    BY <1>1, <1>2, <2>3, <2>4, ScansAdvance
  <2>6. Storage!EntriesInv'
    BY <1>1, <1>2, <2>2, <2>3, EntriesStill
  <2>7. Storage!TypeOK'
    BY <1>1, <1>2, <2>1, <2>2, ScanRest DEF Storage!TypeOK
  <2>8. Storage!TrackedInv'
    BY <1>1, <1>2, <1>3, <2>1, ScanRest DEF Storage!TrackedInv, Storage!StoredTracked
  <2>9. Storage!InUseIsKept
    <3> SUFFICES ASSUME NEW e \in Storage!ToSet(entries) \ Storage!ToSet(entries'), e.of \in prefix
                 PROVE  e.of \in excused
      BY DEF Storage!InUseIsKept
    <3>1. e = entries[s.i]
      BY <2>2 DEF Storage!ToSet
    <3>2. prefix \subseteq Address /\ prefix \subseteq Storage!Tracked(hashes) \union excused
      BY <1>1 DEF Storage!TypeOK, Storage!TrackedInv
    <3> QED
      BY <1>5, <3>1, <3>2
  <2> QED
    BY <2>5, <2>6, <2>7, <2>8, <2>9 DEF Storage!AccountsInv
<1>6. CASE ~(a = "foreign" \/ (a # "global" /\ a \notin Storage!Tracked(hashes) /\ Len(hashes) >= storageLeft.max))
  <2> DEFINE new == [of |-> a, at |-> now]
  <2>1. /\ UNCHANGED <<entries, skipped>>
        /\ \/ (a = "global" \/ a \in Storage!Tracked(hashes)) /\ UNCHANGED <<hashes, stored>>
           \/ /\ a # "global" /\ a # "foreign"
              /\ hashes' = Append(hashes, new) /\ stored' = {hashes'}
    BY <1>6 DEF Storage!CleanStorageEntry
  <2>2. a # "foreign" /\ entries[s.i] \in Storage!EntryType
    BY <1>1, <1>2, <1>6, EntriesType
  <2>3. /\ Storage!Tracked(hashes) \subseteq Storage!Tracked(hashes')
        /\ Storage!StoredTracked \subseteq Storage!StoredTracked' \union Storage!Tracked(hashes')
        /\ Storage!StoredTracked' \subseteq Storage!Tracked(hashes')
        /\ UNCHANGED <<hashes, stored>> \/ Storage!StoredTracked' = Storage!Tracked(hashes')
        /\ a = "global" \/ a \in Storage!Tracked(hashes')
        /\ \A list \in stored' \union {hashes'} : list \in Seq(Storage!HashType)
                                                  /\ \A i \in DOMAIN list : list[i].at <= now
    <3>1. CASE UNCHANGED <<hashes, stored>>
      <4>1. a = "global" \/ a \in Storage!Tracked(hashes)
        <5>1. ASSUME hashes = Append(hashes, new)
              PROVE  FALSE
          BY <1>1, <5>1, TrackedTypes, LenProperties, AppendProperties
        <5> QED
          BY <2>1, <3>1, <5>1
      <4> QED
        BY <1>1, <1>4, <3>1, <4>1 DEF Storage!StoredTracked, Storage!TypeOK
    <3>2. CASE ~UNCHANGED <<hashes, stored>>
      <4>1. hashes' = Append(hashes, new) /\ stored' = {hashes'} /\ a \in Address
        BY <2>1, <2>2, <3>2 DEF Storage!EntryType
      <4>2. hashes \in Seq(Storage!HashType) /\ new \in Storage!HashType
        BY <1>1, <4>1, TrackedTypes DEF Storage!HashType
      <4>3. /\ hashes' \in Seq(Storage!HashType) /\ DOMAIN hashes' = (1..Len(hashes)) \union {Len(hashes) + 1}
            /\ DOMAIN hashes = 1..Len(hashes)
            /\ hashes'[Len(hashes) + 1] = new /\ \A i \in 1..Len(hashes) : hashes'[i] = hashes[i]
        <5> HIDE DEF new
        <5>1. /\ hashes' \in Seq(Storage!HashType) /\ Len(hashes') = Len(hashes) + 1 /\ Len(hashes) \in Nat
              /\ hashes'[Len(hashes) + 1] = new /\ \A i \in 1..Len(hashes) : hashes'[i] = hashes[i]
          BY <4>1, <4>2, AppendProperties, LenProperties
        <5>2. DOMAIN hashes' = 1..Len(hashes') /\ DOMAIN hashes = 1..Len(hashes)
          BY <4>2, <5>1, LenProperties
        <5> QED
          BY <5>1, <5>2
      <4>4. Storage!Tracked(hashes') = Storage!Tracked(hashes) \union {a}
        BY <4>3 DEF Storage!Tracked
      <4>5. Storage!StoredTracked' = Storage!Tracked(hashes')
        BY <4>1 DEF Storage!StoredTracked
      <4>6. \A i \in DOMAIN hashes' : hashes'[i].at <= now
        BY <1>1, <4>3, TrackedTypes
      <4> QED
        BY <1>4, <4>1, <4>3, <4>4, <4>5, <4>6
    <3> QED
      BY <3>1, <3>2
  <2>4. Grows
    BY <1>2, <2>1, <2>3 DEF Grows, Owned
  <2>5. Storage!Seen(s.evict, entries[s.i])'
    BY <1>2, <2>1, <2>2, <2>3, ScanRest DEF Storage!Seen, Storage!Covered
  <2>6. AllSeen'
    BY <1>1, <1>2, <1>3, <2>1, <2>4, <2>5, LeftSeen
  <2>7. (\A t \in scans : Storage!ScanInv(t))'
    BY <1>1, <1>2, <2>4, <2>6, ScansAdvance
  <2>8. Storage!EntriesInv'
    BY <1>1, <1>2, <2>1, <2>4, EntriesStill
  <2>9. Storage!TypeOK'
    <3>1. \A list, other \in stored' : list = other
      BY <1>1, <2>1 DEF Storage!TypeOK
    <3> QED
      BY <1>1, <1>2, <2>1, <2>3, <3>1, ScanRest DEF Storage!TypeOK
  <2>10. Storage!TrackedInv'
    <3>1. \/ hashes' = hashes /\ Storage!StoredTracked' = Storage!StoredTracked
          \/ Storage!StoredTracked' = Storage!Tracked(hashes')
      BY <2>3 DEF Storage!StoredTracked
    <3> QED
      BY <1>1, <1>2, <1>3, <2>3, <3>1, ScanRest DEF Storage!TrackedInv
  <2>11. Storage!InUseIsKept
    BY <2>1 DEF Storage!InUseIsKept
  <2> QED
    BY <2>7, <2>8, <2>9, <2>10, <2>11 DEF Storage!AccountsInv
<1> QED
  BY <1>5, <1>6

\* A scan that has come to the end has been at every entry.
LEMMA SeenToTheEnd ==
    ASSUME Storage!TypeOK, NEW s \in scans, Storage!ScanInv(s), s.i \notin DOMAIN entries
    PROVE  \A j \in DOMAIN entries : Storage!Seen(s.evict, entries[j])
<1>1. Len(entries) \in Nat /\ DOMAIN entries = 1..Len(entries) /\ s.i \in Nat \ {0}
  BY EntriesType DEF Storage!TypeOK
<1>2. \A j \in DOMAIN entries : j < s.i
  BY <1>1
<1> QED
  BY <1>2 DEF Storage!ScanInv

LEMMA CleaningEndsStep ==
    ASSUME Storage!AccountsInv, NEW s \in scans, Storage!CleaningEnds(s)
    PROVE  Storage!AccountsInv'
<1>1. /\ Storage!TypeOK /\ Storage!TrackedInv /\ Storage!EntriesInv
      /\ \A t \in scans : Storage!ScanInv(t)
  BY DEF Storage!AccountsInv
<1>2. /\ s.evict = {} /\ s.i \notin DOMAIN entries /\ scans' = scans \ {s} /\ init' = "persist"
      /\ UNCHANGED <<entries, stored, marked, hashes, prefix, now, skipped, excused>>
  BY DEF Storage!CleaningEnds, Storage!disk
<1>3. init = "scan" /\ Storage!StoredTracked' = Storage!StoredTracked
  BY <1>1, <1>2 DEF Storage!ScanInv, Storage!StoredTracked
<1>4. Grows
  BY <1>2, <1>3 DEF Grows, Owned
<1>5. \A j \in DOMAIN entries : Storage!Covered(entries[j])
  BY <1>1, <1>2, SeenToTheEnd DEF Storage!Seen
<1>6. Storage!EntriesInv'
  BY <1>1, <1>2, <1>4, <1>5, EntriesStill
<1>7. Storage!TypeOK'
  BY <1>1, <1>2 DEF Storage!TypeOK
<1>8. Storage!TrackedInv'
  <2>1. (\A t \in scans' : t.evict = {}) => \A t \in scans : t.evict = {}
    BY <1>2
  <2> QED
    BY <1>1, <1>2, <1>3, <2>1 DEF Storage!TrackedInv
<1>9. (\A t \in scans : Storage!ScanInv(t))'
  <2>1. \A t \in scans' : t.evict # {}
    BY <1>1, <1>2 DEF Storage!TypeOK
  <2> QED
    BY <1>1, <1>2, <1>4, <2>1, ScansStill
<1> QED
  BY <1>6, <1>7, <1>8, <1>9 DEF Storage!AccountsInv

\* An eviction looks at a key.
LEMMA DeleteStep ==
    ASSUME Storage!AccountsInv, NEW s \in scans, Storage!DeleteEntry(s)
    PROVE  Storage!AccountsInv' /\ Storage!InUseIsKept
<1>1. /\ Storage!TypeOK /\ Storage!TrackedInv /\ Storage!EntriesInv
      /\ \A t \in scans : Storage!ScanInv(t)
  BY DEF Storage!AccountsInv
<1>2. /\ s.evict # {} /\ s.i \in DOMAIN entries /\ Storage!Advance(s)
      /\ UNCHANGED <<stored, marked, hashes, prefix, init, now, excused>>
  BY DEF Storage!DeleteEntry
<1>3. AllSeen /\ Storage!StoredTracked' = Storage!StoredTracked
  BY <1>1, <1>2 DEF Storage!ScanInv, AllSeen, Storage!StoredTracked
<1>4. CASE entries[s.i].of \in s.evict
  <2>1. Storage!RemoveKey(s)
    BY <1>4 DEF Storage!DeleteEntry
  <2>2. /\ entries' \in Seq(Storage!EntryType)
        /\ \A j \in DOMAIN entries : j # s.i => \E k \in DOMAIN entries' : entries'[k] = entries[j]
        /\ \A j \in DOMAIN entries' : \E k \in DOMAIN entries : entries'[j] = entries[k]
    BY <1>1, <1>2, <2>1, RemovedEntries, EntriesType
  <2>3. Grows
    BY <1>2, <1>3, <2>1 DEF Grows, Owned, Storage!RemoveKey
  <2>4. AllSeen'
    BY <1>1, <1>2, <1>3, <2>1, <2>3, RemovedSeen
  <2>5. (\A t \in scans : Storage!ScanInv(t))'
    BY <1>1, <1>2, <2>3, <2>4, ScansAdvance
  <2>6. Storage!EntriesInv'
    BY <1>1, <1>2, <2>2, <2>3, EntriesStill
  <2>7. Storage!TypeOK'
    BY <1>1, <1>2, <2>2, ScanRest DEF Storage!TypeOK
  <2>8. Storage!TrackedInv'
    BY <1>1, <1>2, <1>3, ScanRest DEF Storage!TrackedInv
  <2>9. Storage!InUseIsKept
    <3> SUFFICES ASSUME NEW e \in Storage!ToSet(entries) \ Storage!ToSet(entries'), e.of \in prefix
                 PROVE  e.of \in excused
      BY DEF Storage!InUseIsKept
    <3>1. e = entries[s.i]
      BY <2>2 DEF Storage!ToSet
    <3> QED
      BY <1>1, <1>4, <3>1 DEF Storage!ScanInv
  <2> QED
    BY <2>5, <2>6, <2>7, <2>8, <2>9 DEF Storage!AccountsInv
<1>5. CASE entries[s.i].of \notin s.evict
  <2>1. UNCHANGED <<entries, skipped>>
    BY <1>5 DEF Storage!DeleteEntry
  <2>2. Grows
    BY <1>2, <1>3, <2>1 DEF Grows, Owned
  <2>3. Storage!Seen(s.evict, entries[s.i])'
    BY <1>2, <1>5, <2>1 DEF Storage!Seen
  <2>4. AllSeen'
    BY <1>1, <1>2, <1>3, <2>1, <2>2, <2>3, LeftSeen
  <2>5. (\A t \in scans : Storage!ScanInv(t))'
    BY <1>1, <1>2, <2>2, <2>4, ScansAdvance
  <2>6. Storage!EntriesInv'
    BY <1>1, <1>2, <2>1, <2>2, EntriesStill
  <2>7. Storage!TypeOK'
    BY <1>1, <1>2, <2>1, ScanRest DEF Storage!TypeOK
  <2>8. Storage!TrackedInv'
    BY <1>1, <1>2, <1>3, ScanRest DEF Storage!TrackedInv
  <2>9. Storage!InUseIsKept
    BY <2>1 DEF Storage!InUseIsKept
  <2> QED
    BY <2>5, <2>6, <2>7, <2>8, <2>9 DEF Storage!AccountsInv
<1> QED
  BY <1>4, <1>5

\* An eviction is at its end: what it leaves of the evicted was stepped over
\* or is excused.
LEMMA EvictionEndsStep ==
    ASSUME Storage!AccountsInv, NEW s \in scans, Storage!EvictionEnds(s)
    PROVE  Storage!AccountsInv'
<1>1. /\ Storage!TypeOK /\ Storage!TrackedInv /\ Storage!EntriesInv
      /\ \A t \in scans : Storage!ScanInv(t)
  BY DEF Storage!AccountsInv
<1>2. /\ s.evict # {} /\ s.i \notin DOMAIN entries /\ scans' = scans \ {s}
      /\ hashes' = Storage!Without(hashes, s.evict) /\ stored' = {hashes'}
      /\ excused' = excused \union Storage!OverwrittenBeforeLoad
      /\ UNCHANGED <<entries, marked, prefix, init, now, skipped>>
  BY DEF Storage!EvictionEnds
<1>3. \A j \in DOMAIN entries : entries[j].of \in s.evict => entries[j] \in skipped \/ entries[j].of \in excused
  BY <1>1, <1>2, SeenToTheEnd DEF Storage!Seen
<1>4. /\ hashes' \in Seq(Storage!HashType)
      /\ Storage!Tracked(hashes') = Storage!Tracked(hashes) \ s.evict
      /\ \A i \in DOMAIN hashes' : \E j \in DOMAIN hashes : hashes'[i] = hashes[j]
  BY <1>1, <1>2, TrackedTypes, WithoutProperties
<1>5. Storage!StoredTracked' = Storage!Tracked(hashes')
  BY <1>2 DEF Storage!StoredTracked
<1>6. init = "load" => Storage!StoredTracked \subseteq Storage!StoredTracked' \union excused'
  <2>1. init = "load" => Storage!OverwrittenBeforeLoad = Storage!StoredTracked \ Storage!StoredTracked'
    BY DEF Storage!OverwrittenBeforeLoad
  <2> QED
    BY <1>2, <2>1
<1>7. Owned \subseteq Owned' \union s.evict /\ init # "no"
  <2>1. init # "no"
    BY <1>1 DEF Storage!TrackedInv
  <2>2. init # "load" => Storage!StoredTracked \subseteq Storage!Tracked(hashes)
    BY <1>1, <2>1 DEF Storage!TrackedInv
  <2> QED
    BY <1>2, <1>4, <1>5, <1>6, <2>1, <2>2 DEF Owned
<1>8. ASSUME NEW j \in DOMAIN entries, Storage!Covered(entries[j])
      PROVE  \A e : e = entries[j] => Storage!Covered(e)'
  BY <1>2, <1>3, <1>7, <1>8 DEF Storage!Covered, Owned
<1>9. ASSUME NEW t \in scans, NEW j \in DOMAIN entries, Storage!Seen(t.evict, entries[j])
      PROVE  \A e : e = entries[j] => Storage!Seen(t.evict, e)'
  BY <1>2, <1>8, <1>9 DEF Storage!Seen
<1>10. ASSUME NEW t \in scans'
       PROVE  Storage!ScanInv(t)'
  <2>1. t \in scans /\ Storage!ScanInv(t)
    BY <1>1, <1>2
  <2>2. (\A j \in DOMAIN entries : j < t.i => Storage!Seen(t.evict, entries[j]))'
    BY <1>2, <1>9, <2>1 DEF Storage!ScanInv, Storage!Seen, Storage!Covered
  <2> QED
    BY <1>2, <2>1, <2>2 DEF Storage!ScanInv
<1>11. Storage!EntriesInv'
  <2> SUFFICES ASSUME marked \/ init \in {"persist", "mark", "done"}
               PROVE  (\A j \in DOMAIN entries : Storage!Covered(entries[j]))'
    BY <1>2 DEF Storage!EntriesInv
  <2>1. \A j \in DOMAIN entries : Storage!Covered(entries[j])
    BY <1>1 DEF Storage!EntriesInv
  <2> QED
    BY <1>2, <1>8, <2>1 DEF Storage!Covered
<1>12. Storage!TypeOK'
  <2>1. \A i \in DOMAIN hashes' : hashes'[i].at <= now
    BY <1>1, <1>4, TrackedTypes
  <2> QED
    BY <1>1, <1>2, <1>4, <2>1 DEF Storage!TypeOK
<1>13. Storage!TrackedInv'
  <2>1. prefix \subseteq Storage!Tracked(hashes') \union excused'
    BY <1>1, <1>2, <1>4 DEF Storage!TrackedInv, Storage!ScanInv
  <2> QED
    BY <1>2, <1>5, <1>7, <2>1 DEF Storage!TrackedInv
<1> QED
  BY <1>10, <1>11, <1>12, <1>13 DEF Storage!AccountsInv

-----------------------------------------------------------------------------
(* The accounts on the device: the page, and the result.                   *)

\* Another account, or the same again: its entries are its own from here on.
LEMMA AddStep ==
    ASSUME Storage!AccountsInv, "foreign" \notin Address, NEW a \in Address, Storage!AddAddressHash(a)
    PROVE  Storage!AccountsInv'
<1> DEFINE full == Len(hashes') >= storageLeft.max
           victim == Storage!Oldest(hashes')
           new == [evict |-> {victim}, i |-> 1, id |-> storageLeft.switches]
           again == {b \in {a} : \/ full /\ victim = b /\ \A i \in DOMAIN hashes' : hashes'[i].at = now
                                 \/ \E s \in scans : b \in s.evict}
<1>1. /\ Storage!TypeOK /\ Storage!TrackedInv /\ Storage!EntriesInv
      /\ \A t \in scans : Storage!ScanInv(t)
  BY DEF Storage!AccountsInv
<1>2. /\ init # "no" /\ prefix' = {a} /\ hashes' = Storage!Touch(hashes, a)
      /\ scans' = IF full THEN scans \union {new} ELSE scans
      /\ stored' = IF full \/ a \in Storage!Tracked(hashes) THEN stored ELSE {hashes'}
      /\ excused' = ((excused \ {a}) \union Storage!OverwrittenBeforeLoad) \union again
      /\ skipped' = {e \in skipped : e.of # a}
      /\ UNCHANGED <<entries, marked, init, now>>
  BY DEF Storage!AddAddressHash
<1>3. /\ hashes' \in Seq(Storage!HashType) /\ hashes' # <<>>
      /\ Storage!Tracked(hashes') = Storage!Tracked(hashes) \union {a}
      /\ \A i \in DOMAIN hashes' : hashes'[i].at <= now /\ (hashes'[i].of = a => hashes'[i].at = now)
  BY <1>1, <1>2, TrackedTypes, TouchProperties
<1>4. Storage!StoredTracked' = Storage!StoredTracked \/ Storage!StoredTracked' = Storage!Tracked(hashes')
  BY <1>2 DEF Storage!StoredTracked
<1>5. init # "load" => Storage!StoredTracked \subseteq Storage!Tracked(hashes)
  BY <1>1, <1>2 DEF Storage!TrackedInv
<1>6. init = "load" => Storage!StoredTracked \subseteq Storage!StoredTracked' \union excused'
  BY <1>2 DEF Storage!OverwrittenBeforeLoad
<1>7. full /\ victim = a => a \in excused'
  <2> SUFFICES ASSUME full, victim = a
               PROVE  \A i \in DOMAIN hashes' : hashes'[i].at = now
    BY <1>2
  <2>1. PICK i \in DOMAIN hashes' : /\ victim = hashes'[i].of
                                    /\ \A j \in DOMAIN hashes' : hashes'[i].at <= hashes'[j].at
    BY <1>3, OldestProperties
  <2>2. now <= now /\ \A j \in DOMAIN hashes' : now <= hashes'[j].at /\ hashes'[j].at <= now
    BY <1>1, <1>3, <2>1 DEF Storage!TypeOK
  <2>3. \A j \in DOMAIN hashes' : hashes'[j].at \in Nat /\ now \in Nat
    <3>1. \A j \in 1..Len(hashes') : hashes'[j] \in Storage!HashType
      BY <1>3, ElementOfSeq
    <3>2. DOMAIN hashes' = 1..Len(hashes')
      BY <1>3, LenProperties
    <3> QED
      BY <1>1, <3>1, <3>2 DEF Storage!HashType, Storage!TypeOK
  <2> QED
    BY <2>2, <2>3
<1>8. \A s \in scans : a \in s.evict => a \in excused'
  BY <1>2
<1> HIDE DEF full, again, victim
<1>9. (excused \ {a}) \subseteq excused' /\ Owned \subseteq Owned' /\ a \in Owned'
  BY <1>2, <1>3, <1>4, <1>5, <1>6 DEF Owned
<1>10. \A e : Storage!Covered(e) => Storage!Covered(e)'
  BY <1>2, <1>9 DEF Storage!Covered, Owned
<1>11. \A s \in scans : \A e : Storage!Seen(s.evict, e) => Storage!Seen(s.evict, e)'
  <2> SUFFICES ASSUME NEW s \in scans, NEW e, Storage!Seen(s.evict, e)
               PROVE  Storage!Seen(s.evict, e)'
    OBVIOUS
  <2>1. CASE s.evict = {}
    BY <1>10, <2>1 DEF Storage!Seen
  <2>2. CASE s.evict # {}
    BY <1>2, <1>8, <1>9, <2>2 DEF Storage!Seen
  <2> QED
    BY <2>1, <2>2
<1>12. ASSUME NEW s \in scans
       PROVE  Storage!ScanInv(s)'
  <2>1. \A j \in DOMAIN entries : j < s.i => \A e : e = entries[j] => Storage!Seen(s.evict, e)'
    BY <1>1, <1>11 DEF Storage!ScanInv
  <2>2. (\A j \in DOMAIN entries : j < s.i => Storage!Seen(s.evict, entries[j]))'
    BY <1>2, <2>1 DEF Storage!Seen, Storage!Covered
  <2> QED
    BY <1>1, <1>2, <1>8, <2>2 DEF Storage!ScanInv
<1>13. ASSUME NEW s, full, s = new
       PROVE  Storage!ScanInv(s)'
  <2>1. \A j \in DOMAIN entries' : j \in Nat /\ ~(j < 1)
    BY <1>1, <1>2, EntriesType
  <2>2. s.evict = {victim} /\ s.i = 1
    BY <1>13
  <2>3. prefix' \cap s.evict \subseteq excused'
    BY <1>2, <1>7, <1>13, <2>2
  <2> QED
    BY <2>1, <2>2, <2>3 DEF Storage!ScanInv
<1>14. (\A s \in scans : Storage!ScanInv(s))'
  <2> HIDE DEF new
  <2>1. \A s \in scans' : s \in scans \/ (full /\ s = new)
    BY <1>2
  <2> QED
    BY <1>12, <1>13, <2>1
<1>15. Storage!EntriesInv'
  <2> SUFFICES ASSUME marked \/ init \in {"persist", "mark", "done"}
               PROVE  (\A j \in DOMAIN entries : Storage!Covered(entries[j]))'
    BY <1>2 DEF Storage!EntriesInv
  <2>1. \A j \in DOMAIN entries : \A e : e = entries[j] => Storage!Covered(e)'
    BY <1>1, <1>10 DEF Storage!EntriesInv
  <2> QED
    BY <1>2, <2>1 DEF Storage!Covered
<1>16. Storage!TypeOK'
  <2>1. new = [evict |-> new.evict, i |-> new.i, id |-> new.id] /\ new.i \in Nat \ {0} /\ new.evict # {}
    OBVIOUS
  <2> HIDE DEF new
  <2>2. \A s \in scans' : s = [evict |-> s.evict, i |-> s.i, id |-> s.id] /\ s.i \in Nat \ {0}
    BY <1>1, <1>2, <2>1 DEF Storage!TypeOK
  <2>3. \A s, t \in scans' : s.evict = {} /\ t.evict = {} => s = t
    BY <1>1, <1>2, <2>1 DEF Storage!TypeOK
  <2>4. \A list \in stored' \union {hashes'} :
           list \in Seq(Storage!HashType) /\ \A i \in DOMAIN list : list[i].at <= now
    BY <1>1, <1>2, <1>3 DEF Storage!TypeOK
  <2>5. \A list, other \in stored' : list = other
    BY <1>1, <1>2 DEF Storage!TypeOK
  <2> QED
    BY <1>1, <1>2, <2>2, <2>3, <2>4, <2>5 DEF Storage!TypeOK
<1>17. Storage!TrackedInv'
  <2>1. (\A s \in scans' : s.evict = {}) => Storage!Tracked(hashes') \subseteq Storage!StoredTracked'
    <3> SUFFICES ASSUME \A s \in scans' : s.evict = {}
                 PROVE  Storage!Tracked(hashes') \subseteq Storage!StoredTracked'
      OBVIOUS
    <3>1. ~full /\ scans' = scans
      <4>1. new.evict # {}
        OBVIOUS
      <4> HIDE DEF new
      <4> QED
        BY <1>2, <4>1
    <3>2. CASE a \in Storage!Tracked(hashes)
      <4>1. stored' = stored /\ Storage!Tracked(hashes') = Storage!Tracked(hashes)
        BY <1>2, <1>3, <3>1, <3>2
      <4>2. Storage!StoredTracked' = Storage!StoredTracked
        BY <4>1 DEF Storage!StoredTracked
      <4>3. Storage!Tracked(hashes) \subseteq Storage!StoredTracked
        BY <1>1, <3>1 DEF Storage!TrackedInv
      <4> QED
        BY <4>1, <4>2, <4>3
    <3>3. CASE a \notin Storage!Tracked(hashes)
      BY <1>2, <3>1, <3>3 DEF Storage!StoredTracked
    <3> QED
      BY <3>2, <3>3
  <2> QED
    BY <1>2, <1>3, <1>4, <1>5, <2>1 DEF Storage!TrackedInv
<1> QED
  BY <1>14, <1>15, <1>16, <1>17 DEF Storage!AccountsInv

\* The account in use writes: it is tracked or excused.
LEMMA WriteStep ==
    ASSUME Storage!AccountsInv, "foreign" \notin Address, NEW k \in 1..2, Storage!Write(k)
    PROVE  Storage!AccountsInv' /\ Storage!InUseIsKept
<1>1. /\ Storage!TypeOK /\ Storage!TrackedInv /\ Storage!EntriesInv
      /\ \A t \in scans : Storage!ScanInv(t)
  BY DEF Storage!AccountsInv
<1>2. PICK a \in prefix : entries' = Append(entries, [of |-> a, k |-> k])
  BY DEF Storage!Write
<1> DEFINE new == [of |-> a, k |-> k]
<1>3. UNCHANGED <<stored, marked, hashes, prefix, init, scans, now, skipped, excused>>
  BY DEF Storage!Write
<1>4. new \in Storage!EntryType /\ a \in Address /\ new.of = a
  BY <1>1 DEF Storage!TypeOK, Storage!EntryType
<1> HIDE DEF new
<1>5. /\ entries' \in Seq(Storage!EntryType) /\ DOMAIN entries' = DOMAIN entries \union {Len(entries) + 1}
      /\ entries'[Len(entries) + 1] = new /\ \A j \in DOMAIN entries : entries'[j] = entries[j]
  <2>1. entries \in Seq(Storage!EntryType) /\ entries' = Append(entries, new)
    BY <1>1, <1>2 DEF Storage!TypeOK, new
  <2>2. /\ entries' \in Seq(Storage!EntryType) /\ Len(entries') = Len(entries) + 1 /\ Len(entries) \in Nat
        /\ entries'[Len(entries) + 1] = new /\ \A j \in 1..Len(entries) : entries'[j] = entries[j]
    BY <1>4, <2>1, AppendProperties, LenProperties
  <2>3. DOMAIN entries = 1..Len(entries) /\ DOMAIN entries' = 1..Len(entries')
    BY <2>1, <2>2, LenProperties
  <2> QED
    BY <2>2, <2>3
<1>6. Storage!StoredTracked' = Storage!StoredTracked
  BY <1>3 DEF Storage!StoredTracked
<1>7. Grows
  BY <1>3, <1>6 DEF Grows, Owned
<1>8. Storage!Covered(new)
  BY <1>1, <1>4 DEF Storage!Covered, Storage!TrackedInv
<1>9. \A s \in scans : Storage!Seen(s.evict, new)
  BY <1>1, <1>4, <1>8 DEF Storage!Seen, Storage!ScanInv
<1>10. (\A s \in scans : Storage!ScanInv(s))'
  <2> SUFFICES ASSUME NEW s \in scans
               PROVE  Storage!ScanInv(s)'
    BY <1>3
  <2>1. \A j \in DOMAIN entries' : j < s.i => Storage!Seen(s.evict, entries'[j])
    BY <1>1, <1>5, <1>9 DEF Storage!ScanInv
  <2>2. \A j \in DOMAIN entries' : j < s.i => \A e : e = entries'[j] => Storage!Seen(s.evict, e)'
    BY <1>7, <2>1, Monotone
  <2>3. (\A j \in DOMAIN entries : j < s.i => Storage!Seen(s.evict, entries[j]))'
    BY <2>2 DEF Storage!Seen, Storage!Covered
  <2> QED
    BY <1>1, <1>3, <2>3 DEF Storage!ScanInv
<1>11. Storage!EntriesInv'
  <2> SUFFICES ASSUME marked \/ init \in {"persist", "mark", "done"}
               PROVE  (\A j \in DOMAIN entries : Storage!Covered(entries[j]))'
    BY <1>3 DEF Storage!EntriesInv
  <2>1. \A j \in DOMAIN entries' : Storage!Covered(entries'[j])
    BY <1>1, <1>5, <1>8 DEF Storage!EntriesInv
  <2>2. \A j \in DOMAIN entries' : \A e : e = entries'[j] => Storage!Covered(e)'
    BY <1>7, <2>1, Monotone
  <2> QED
    BY <2>2 DEF Storage!Covered
<1>12. Storage!TypeOK'
  BY <1>1, <1>3, <1>5 DEF Storage!TypeOK
<1>13. Storage!TrackedInv'
  BY <1>1, <1>3, <1>6 DEF Storage!TrackedInv
<1>14. Storage!InUseIsKept
  BY <1>5 DEF Storage!InUseIsKept, Storage!ToSet
<1> QED
  BY <1>10, <1>11, <1>12, <1>13, <1>14 DEF Storage!AccountsInv

\* The page is closed and opened, and time passes.
LEMMA ReloadStep ==
    ASSUME Storage!AccountsInv, Storage!Reload \/ Storage!Tick
    PROVE  Storage!AccountsInv'
<1>1. /\ Storage!TypeOK /\ Storage!TrackedInv /\ Storage!EntriesInv
      /\ \A t \in scans : Storage!ScanInv(t)
  BY DEF Storage!AccountsInv
<1>2. ASSUME Storage!Reload
      PROVE  Storage!AccountsInv'
  <2>1. /\ init' = "no" /\ hashes' = <<>> /\ prefix' = {} /\ scans' = {}
        /\ excused' = excused \union (IF scans = {} THEN {} ELSE Storage!Tracked(hashes) \ Storage!StoredTracked)
        /\ UNCHANGED <<entries, stored, marked, now, skipped>>
    BY <1>2 DEF Storage!Reload, Storage!disk
  <2>2. Storage!StoredTracked' = Storage!StoredTracked
    BY <2>1 DEF Storage!StoredTracked
  <2>3. scans = {} => Storage!Tracked(hashes) \subseteq Storage!StoredTracked
    BY <1>1 DEF Storage!TrackedInv
  <2>4. Grows
    BY <2>1, <2>2, <2>3 DEF Grows, Owned
  <2>5. DOMAIN hashes' = {} /\ hashes' \in Seq(Storage!HashType)
    BY <2>1, EmptySeq
  <2>6. Storage!TypeOK'
    BY <1>1, <2>1, <2>5 DEF Storage!TypeOK
  <2>7. Storage!TrackedInv'
    BY <2>1, <2>5 DEF Storage!TrackedInv, Storage!Tracked
  <2>8. Storage!EntriesInv'
    BY <1>1, <2>1, <2>4, EntriesStill
  <2> QED
    BY <2>1, <2>6, <2>7, <2>8 DEF Storage!AccountsInv
<1>3. ASSUME Storage!Tick
      PROVE  Storage!AccountsInv'
  <2>1. /\ now' = now + 1
        /\ UNCHANGED <<entries, stored, marked, hashes, prefix, init, scans, skipped, excused>>
    BY <1>3 DEF Storage!Tick, Storage!disk
  <2>2. Storage!StoredTracked' = Storage!StoredTracked
    BY <2>1 DEF Storage!StoredTracked
  <2>3. Grows
    BY <2>1, <2>2 DEF Grows, Owned
  <2>4. Storage!TypeOK'
    <3>1. \A list \in stored \union {hashes} :
             list \in Seq(Storage!HashType) /\ \A i \in DOMAIN list : list[i].at <= now + 1
      <4> SUFFICES ASSUME NEW list \in stored \union {hashes}, NEW i \in DOMAIN list
                   PROVE  list[i].at <= now + 1
        BY <1>1 DEF Storage!TypeOK
      <4>1. list \in Seq(Storage!HashType) /\ list[i].at <= now /\ now \in Nat
        BY <1>1 DEF Storage!TypeOK
      <4>2. list[i] \in Storage!HashType
        BY <4>1, LenProperties, ElementOfSeq
      <4> QED
        BY <4>1, <4>2 DEF Storage!HashType
    <3> QED
      BY <1>1, <2>1, <3>1 DEF Storage!TypeOK
  <2>5. Storage!TrackedInv'
    BY <1>1, <2>1, <2>2 DEF Storage!TrackedInv
  <2>6. (\A s \in scans : Storage!ScanInv(s))'
    <3>1. \A s \in scans : s.evict = {} => init = "scan"
      BY <1>1 DEF Storage!ScanInv
    <3> QED
      BY <1>1, <2>1, <2>3, <3>1, ScansStill
  <2>7. Storage!EntriesInv'
    BY <1>1, <2>1, <2>3, EntriesStill
  <2> QED
    BY <2>4, <2>5, <2>6, <2>7 DEF Storage!AccountsInv
<1> QED
  BY <1>2, <1>3

LEMMA AccountsStep ==
    ASSUME Storage!AccountsInv, "foreign" \notin Address, [Storage!Next]_Storage!vars
    PROVE  Storage!AccountsInv' /\ [Storage!InUseIsKept]_Storage!vars
<1>1. CASE \/ Storage!SetStorageAdaptor \/ Storage!LoadAddressHashes \/ Storage!IsInitialized
           \/ Storage!PersistAfterCleaning \/ Storage!MarkAsInitialized
  <2>1. entries' = entries
    BY <1>1 DEF Storage!SetStorageAdaptor, Storage!LoadAddressHashes, Storage!IsInitialized,
                Storage!PersistAfterCleaning, Storage!MarkAsInitialized, Storage!disk
  <2> QED
    BY <1>1, <2>1, StartStep DEF Storage!InUseIsKept
<1>2. ASSUME NEW s \in scans, Storage!CleanStorageEntry(s) \/ Storage!DeleteEntry(s)
      PROVE  Storage!AccountsInv' /\ Storage!InUseIsKept
  BY <1>2, CleanStep, DeleteStep
<1>3. ASSUME NEW s \in scans, Storage!CleaningEnds(s) \/ Storage!EvictionEnds(s)
      PROVE  Storage!AccountsInv' /\ Storage!InUseIsKept
  <2>1. entries' = entries
    BY <1>3 DEF Storage!CleaningEnds, Storage!EvictionEnds, Storage!disk
  <2> QED
    BY <1>3, <2>1, CleaningEndsStep, EvictionEndsStep DEF Storage!InUseIsKept
<1>4. ASSUME NEW a \in Address, Storage!AddAddressHash(a)
      PROVE  Storage!AccountsInv' /\ Storage!InUseIsKept
  <2>1. entries' = entries
    BY <1>4 DEF Storage!AddAddressHash
  <2> QED
    BY <1>4, <2>1, AddStep DEF Storage!InUseIsKept
<1>5. CASE Storage!Reload \/ Storage!Tick
  <2>1. entries' = entries
    BY <1>5 DEF Storage!Reload, Storage!Tick, Storage!disk
  <2> QED
    BY <1>5, <2>1, ReloadStep DEF Storage!InUseIsKept
<1>6. CASE UNCHANGED Storage!vars
  <2>1. UNCHANGED <<entries, stored, marked, hashes, prefix, init, scans, now, skipped, excused>>
    BY <1>6 DEF Storage!vars
  <2>2. Storage!AccountsInv'
    BY <2>1 DEF Storage!AccountsInv, Storage!TypeOK, Storage!TrackedInv, Storage!ScanInv, Storage!EntriesInv,
                Storage!Seen, Storage!Covered, Storage!StoredTracked
  <2> QED
    BY <1>6, <2>2
<1> QED
  BY <1>1, <1>2, <1>3, <1>4, <1>5, <1>6, WriteStep DEF Storage!Next

\* Whatever accounts are switched to, in whatever order init, its scan and any
\* number of evictions proceed, and wherever the page is closed: once it has
\* settled, all data on the device is of accounts that are tracked, and the
\* data of the account in use is never removed, but for what the named
\* exceptions excuse.  The marks of other data are no accounts, and what older
\* pages left consists of entries.
THEOREM AccountsKeptProperty ==
    ASSUME "foreign" \notin Address, \A b \in StorageBounds : b.entries \in Seq(Storage!EntryType)
    PROVE  Storage!Spec => AccountsKept
<1>1. Storage!Init => Storage!AccountsInv
  <2> SUFFICES ASSUME Storage!Init
               PROVE  Storage!AccountsInv
    OBVIOUS
  <2>1. /\ entries \in Seq(Storage!EntryType) /\ stored = {} /\ marked = FALSE /\ hashes = <<>> /\ prefix = {}
        /\ init = "no" /\ scans = {} /\ now = 1
    BY DEF Storage!Init
  <2>2. hashes \in Seq(Storage!HashType) /\ DOMAIN hashes = {}
    BY <2>1, EmptySeq
  <2> QED
    BY <2>1, <2>2 DEF Storage!AccountsInv, Storage!TypeOK, Storage!TrackedInv, Storage!EntriesInv,
                      Storage!StoredTracked, Storage!Tracked
<1>2. Storage!AccountsInv /\ [Storage!Next]_Storage!vars => Storage!AccountsInv' /\ [Storage!InUseIsKept]_Storage!vars
  BY AccountsStep
<1>3. Storage!AccountsInv => Storage!DataIsTracked
  <2> SUFFICES ASSUME Storage!AccountsInv, init = "done", scans = {},
                      NEW e \in Storage!ToSet(entries) \ skipped, e.of # "global"
               PROVE  e.of # "foreign" /\ (e.of \in Storage!Tracked(hashes) \/ e.of \in excused)
    BY DEF Storage!DataIsTracked
  <2>1. Storage!Covered(e)
    BY DEF Storage!AccountsInv, Storage!EntriesInv, Storage!ToSet
  <2>2. Storage!StoredTracked \subseteq Storage!Tracked(hashes)
    BY DEF Storage!AccountsInv, Storage!TrackedInv
  <2> QED
    BY <2>1, <2>2 DEF Storage!Covered
<1> QED
  BY <1>1, <1>2, <1>3, PTL DEF Storage!Spec, AccountsKept, Storage!AccountsKept

-----------------------------------------------------------------------------
(* The conversation: types.                                                *)

\* A chunk is put under a key.
LEMMA PutProperties ==
    ASSUME NEW f, NEW k, NEW c
    PROVE  /\ DOMAIN Put(f, k, c) = DOMAIN f \union {k}
           /\ Put(f, k, c)[k] = c
           /\ \A j \in DOMAIN f \ {k} : Put(f, k, c)[j] = f[j]
  BY DEF Put

LEMMA PutTypes ==
    ASSUME NEW f, ChunksType(f), NEW k \in Seq(Msg), NEW c \in ChunkType
    PROVE  ChunksType(Put(f, k, c))
<1>0. /\ DOMAIN Put(f, k, c) = DOMAIN f \union {k}
      /\ Put(f, k, c)[k] = c
      /\ \A j \in DOMAIN f \ {k} : Put(f, k, c)[j] = f[j]
  BY DEF Put
<1>1. IsFiniteSet(DOMAIN f \union {k})
  BY FS_AddElement DEF ChunksType
<1>2. IsFiniteSet(DOMAIN Put(f, k, c))
  BY <1>0, <1>1
<1>3. \A j \in DOMAIN f : j \in Seq(Msg) /\ f[j] \in ChunkType
  BY DEF ChunksType
<1>4. \A j \in DOMAIN Put(f, k, c) : j \in Seq(Msg) /\ Put(f, k, c)[j] \in ChunkType
  <2> SUFFICES ASSUME NEW j \in DOMAIN Put(f, k, c)
               PROVE  j \in Seq(Msg) /\ Put(f, k, c)[j] \in ChunkType
    OBVIOUS
  <2>1. CASE j = k
    BY <1>0, <2>1
  <2>2. CASE j # k
    BY <1>0, <1>3, <2>2
  <2> QED
    BY <2>1, <2>2
<1> QED
  BY <1>2, <1>4 DEF ChunksType

LEMMA NoChunksTypes == ChunksType(NoChunks) /\ DOMAIN NoChunks = {}
  BY FS_EmptySet DEF NoChunks, ChunksType

LEMMA EmptyTypes == Empty \in ChunkType /\ HeadKey \in Seq(Msg)
  BY DEF Empty, ChunkType, AtMostOne, HeadKey

LEMMA ChunkTypes ==
    ASSUME TypeOK, NEW k
    PROVE  Chunk(k) \in ChunkType
  BY EmptyTypes DEF TypeOK, ChunksType, Chunk

\* A message enters a list at one place.
LEMMA EnteredPlace ==
    ASSUME NEW list \in Seq(Msg), NEW m \in Msg
    PROVE  /\ Entered(list, m) \in Seq(Msg)
           /\ \E p \in 1..Len(list) + 1 : Entered(list, m) = InsertAt(list, p, m)
<1> DEFINE later == {i \in 1..Len(list) : Time[m] <= Time[list[i]]}
<1>0. Len(list) \in Nat /\ <<m>> \in Seq(Msg) /\ Len(<<m>>) = 1
  BY LenProperties
<1>1. \A p \in 1..Len(list) + 1 : InsertAt(list, p, m) \in Seq(Msg)
  <2> SUFFICES ASSUME NEW p \in 1..Len(list) + 1
               PROVE  InsertAt(list, p, m) \in Seq(Msg)
    OBVIOUS
  <2>1. \A i \in 1..Len(list) : list[i] \in Msg
    BY ElementOfSeq
  <2>2. SubSeq(list, 1, p - 1) \in Seq(Msg) /\ SubSeq(list, p, Len(list)) \in Seq(Msg)
    BY <1>0, <2>1, SubSeqProperties
  <2>3. SubSeq(list, 1, p - 1) \o <<m>> \in Seq(Msg)
    BY <1>0, <2>2, ConcatProperties
  <2> QED
    BY <2>2, <2>3, ConcatProperties DEF InsertAt
<1>2. CASE later = {}
  <2>1. Entered(list, m) = Append(list, m)
    BY <1>2 DEF Entered
  <2>2. InsertAt(list, Len(list) + 1, m) = Append(list, m)
    <3>1. Len(list) + 1 - 1 = Len(list) /\ SubSeq(list, 1, Len(list)) = list
      BY <1>0, SubSeqFull
    <3>2. SubSeq(list, Len(list) + 1, Len(list)) = <<>>
      BY <1>0, SubSeqEmpty
    <3>3. list \o <<m>> = Append(list, m) /\ list \o <<m>> \in Seq(Msg)
      BY <1>0, AppendIsConcat, ConcatProperties
    <3>4. InsertAt(list, Len(list) + 1, m) =
            SubSeq(list, 1, Len(list) + 1 - 1) \o <<m>> \o SubSeq(list, Len(list) + 1, Len(list))
      BY DEF InsertAt
    <3>5. (list \o <<m>>) \o <<>> = list \o <<m>>
      BY <3>3, ConcatEmptySeq
    <3> QED
      BY <3>1, <3>2, <3>3, <3>4, <3>5
  <2> QED
    BY <1>0, <1>1, <2>1, <2>2
<1>3. CASE later # {}
  <2>1. PICK n \in later : \A i \in later : n <= i
    <3>1. later \subseteq Nat
      BY <1>0
    <3> HIDE DEF later
    <3> QED
      BY <1>3, <3>1, LeastExists
  <2>2. Min(later) \in later
    BY <2>1 DEF Min
  <2>3. Entered(list, m) = InsertAt(list, Min(later), m)
    BY <1>3 DEF Entered
  <2>4. Min(later) \in 1..Len(list) + 1
    BY <1>0, <2>2
  <2> QED
    BY <1>1, <2>3, <2>4
<1> QED
  BY <1>2, <1>3

-----------------------------------------------------------------------------
(* Timers.                                                                 *)

IsWrite(t) == t.kind \in {"chunk", "past"}

LEMMA TimerKinds ==
    ASSUME NEW t \in TimerType
    PROVE  /\ t.kind \in {"message", "hub", "conversation", "chunk", "past"}
           /\ t.kind = "message" => t.msg \in Msg
           /\ t.kind = "hub" <=> t = HubWakes
           /\ t.kind = "conversation" <=> t = ConvWakes
           /\ IsWrite(t) => t.key \in Seq(Msg) /\ t.chunk \in ChunkType
  BY DEF TimerType, IsWrite, HubWakes, ConvWakes

LEMMA NewTimers ==
    /\ \A m \in Msg : MessageWrite(m) \in TimerType
    /\ HubWakes \in TimerType /\ ConvWakes \in TimerType
    /\ \A k \in Seq(Msg), c \in ChunkType : ChunkWrite(k, c) \in TimerType
  BY DEF TimerType, MessageWrite, HubWakes, ConvWakes, ChunkWrite

LEMMA ChangedTypes ==
    ASSUME NEW ts \in Seq(TimerType), NEW k \in Seq(Msg), NEW c \in ChunkType
    PROVE  /\ Changed(ts, k, c) \in Seq(TimerType)
           /\ Len(Changed(ts, k, c)) = Len(ts)
           /\ \A i \in 1..Len(ts) :
                 Changed(ts, k, c)[i] = IF ts[i].kind = "chunk" /\ ts[i].key = k THEN ChunkWrite(k, c) ELSE ts[i]
<1>1. Len(ts) \in Nat /\ DOMAIN ts = 1..Len(ts) /\ \A i \in 1..Len(ts) : ts[i] \in TimerType
  BY LenProperties, ElementOfSeq
<1>2. ChunkWrite(k, c) \in TimerType
  BY NewTimers
<1>3. Changed(ts, k, c) \in [1..Len(ts) -> TimerType]
  BY <1>1, <1>2 DEF Changed
<1>4. Changed(ts, k, c) \in Seq(TimerType)
  BY <1>1, <1>3, SeqDef
<1>5. Len(Changed(ts, k, c)) = Len(ts)
  BY <1>1, <1>3, <1>4, LenProperties
<1> QED
  BY <1>1, <1>4, <1>5 DEF Changed

LEMMA ReplacedTypes ==
    ASSUME NEW ts \in Seq(TimerType), NEW ks
    PROVE  /\ Replaced(ts, ks) \in Seq(TimerType)
           /\ Len(Replaced(ts, ks)) = Len(ts)
           /\ \A i \in 1..Len(ts) :
                 Replaced(ts, ks)[i] = IF ts[i].kind = "chunk" /\ ts[i].key \in ks THEN [ts[i] EXCEPT !.kind = "past"]
                                       ELSE ts[i]
<1>1. Len(ts) \in Nat /\ DOMAIN ts = 1..Len(ts) /\ \A i \in 1..Len(ts) : ts[i] \in TimerType
  BY LenProperties, ElementOfSeq
<1>2. \A t \in TimerType : t.kind = "chunk" => [t EXCEPT !.kind = "past"] \in TimerType
  BY DEF TimerType
<1>3. Replaced(ts, ks) \in [1..Len(ts) -> TimerType]
  BY <1>1, <1>2 DEF Replaced
<1>4. Replaced(ts, ks) \in Seq(TimerType)
  BY <1>1, <1>3, SeqDef
<1>5. Len(Replaced(ts, ks)) = Len(ts)
  BY <1>1, <1>3, <1>4, LenProperties
<1> QED
  BY <1>1, <1>4, <1>5 DEF Replaced

\* The past of a chunk write.
LEMMA PastProperties ==
    ASSUME NEW t \in TimerType, t.kind = "chunk"
    PROVE  /\ [t EXCEPT !.kind = "past"].kind = "past"
           /\ [t EXCEPT !.kind = "past"].key = t.key
           /\ [t EXCEPT !.kind = "past"].chunk = t.chunk
  BY DEF TimerType

\* Timers after others.
LEMMA After ==
    ASSUME NEW T, NEW ts \in Seq(T), NEW ws \in Seq(T)
    PROVE  /\ ts \o ws \in Seq(T) /\ Len(ts \o ws) = Len(ts) + Len(ws) /\ Len(ts) \in Nat /\ Len(ws) \in Nat
           /\ \A i \in 1..Len(ts) : (ts \o ws)[i] = ts[i]
           /\ \A i \in 1..Len(ws) : (ts \o ws)[Len(ts) + i] = ws[i]
<1>1. Len(ts) \in Nat /\ Len(ws) \in Nat
  BY LenProperties
<1>2. /\ ts \o ws \in Seq(T)
      /\ Len(ts \o ws) = Len(ts) + Len(ws)
      /\ \A i \in 1 .. Len(ts) + Len(ws) : (ts \o ws)[i] = IF i <= Len(ts) THEN ts[i] ELSE ws[i - Len(ts)]
  BY ConcatProperties
<1>3. \A i \in 1..Len(ts) : (ts \o ws)[i] = ts[i]
  BY <1>1, <1>2
<1>4. ASSUME NEW i \in 1..Len(ws)
      PROVE  (ts \o ws)[Len(ts) + i] = ws[i]
  <2>1. Len(ts) + i \in 1..Len(ts) + Len(ws) /\ ~(Len(ts) + i <= Len(ts)) /\ Len(ts) + i - Len(ts) = i
    BY <1>1
  <2> QED
    BY <1>2, <2>1
<1> QED
  BY <1>1, <1>2, <1>3, <1>4

\* What a command leaves.
LEMMA CommandedTypes ==
    ASSUME TypeOK, splits > 0, NEW ts \in Seq(TimerType), NEW ws \in Seq(TimerType), Commanded(ts, ws)
    PROVE  /\ splits' \in Nat /\ toConv' = toConv /\ toConv' \in Seq(Msg)
           /\ timers' \in Seq(TimerType)
           /\ {convYields', convGoesOn'} \subseteq BOOLEAN
           /\ \/ ~convGoesOn' /\ convYields' /\ timers' = (ts \o ws) \o <<ConvWakes>>
              \/ convGoesOn' /\ convYields' = convYields /\ timers' = ts \o ws
<1>1. ts \o ws \in Seq(TimerType) /\ <<ConvWakes>> \in Seq(TimerType)
  BY ConcatProperties, NewTimers
<1>2. (ts \o ws) \o <<ConvWakes>> \in Seq(TimerType) /\ Append(ts \o ws, ConvWakes) = (ts \o ws) \o <<ConvWakes>>
  BY <1>1, ConcatProperties, AppendIsConcat, NewTimers
<1>3. splits' \in Nat /\ toConv' = toConv /\ toConv' \in Seq(Msg)
  BY DEF Commanded, TypeOK
<1>4. CASE splits > 1 \/ toConv # <<>>
  <2>1. convGoesOn' = TRUE /\ timers' = ts \o ws /\ convYields' = convYields
    BY <1>4 DEF Commanded
  <2> QED
    BY <1>1, <1>3, <2>1 DEF TypeOK
<1>5. CASE ~(splits > 1 \/ toConv # <<>>)
  <2>1. convGoesOn' = FALSE /\ timers' = Append(ts \o ws, ConvWakes) /\ convYields' = TRUE
    BY <1>5 DEF Commanded
  <2> QED
    BY <1>2, <1>3, <2>1
<1> QED
  BY <1>4, <1>5

-----------------------------------------------------------------------------
(* The parts of a split.                                                   *)

First == Chunk(HeadKey)
CutKey == SubSeq(First.list, 1, ChunkSize)

LEMMA CutProperties ==
    ASSUME TypeOK, Len(First.list) > SplitThreshold
    PROVE  /\ CutKey \in SplitKey /\ CutKey \in Seq(Msg) /\ Len(CutKey) = ChunkSize /\ ChunkSize \in Nat \ {0}
           /\ Len(First.list) \in Nat /\ ChunkSize < Len(First.list)
           /\ \A i \in 1..ChunkSize : CutKey[i] = First.list[i]
           /\ Rest(First, CutKey) \in ChunkType
           /\ Rest(First, CutKey).tailKey = {CutKey}
           /\ Len(Rest(First, CutKey).list) = Len(First.list) - ChunkSize
           /\ \A i \in 1..Len(First.list) - ChunkSize : Rest(First, CutKey).list[i] = First.list[ChunkSize + i]
<1>1. First \in ChunkType
  BY ChunkTypes DEF First
<1>2. First.list \in Seq(Msg)
  BY <1>1 DEF ChunkType
<1>3. Len(First.list) \in Nat /\ \A i \in 1..Len(First.list) : First.list[i] \in Msg
  BY <1>2, LenProperties, ElementOfSeq
<1>4. ChunkSize \in Nat \ {0} /\ ChunkSize < Len(First.list)
  BY <1>3, SizeAssumption
<1>5. CutKey \in Seq(Msg) /\ Len(CutKey) = ChunkSize /\ \A i \in 1..ChunkSize : CutKey[i] = First.list[i]
  <2>1. \A i \in 1..ChunkSize : First.list[i] \in Msg /\ 1 + i - 1 = i
    BY <1>3, <1>4
  <2>2. ChunkSize - 1 + 1 = ChunkSize /\ 1 <= ChunkSize /\ ChunkSize \in Int
    BY <1>4
  <2> QED
    BY <2>1, <2>2, SubSeqProperties DEF CutKey
<1>6. CutKey \in SplitKey
  BY <1>4, <1>5 DEF SplitKey, HeadKey
<1> DEFINE list == SubSeq(First.list, ChunkSize + 1, Len(First.list))
<1>7. /\ list \in Seq(Msg) /\ Len(list) = Len(First.list) - ChunkSize
      /\ \A i \in 1..Len(First.list) - ChunkSize : list[i] = First.list[ChunkSize + i]
  <2>1. \A i \in ChunkSize + 1..Len(First.list) : First.list[i] \in Msg
    BY <1>3, <1>4
  <2>2. /\ ChunkSize + 1 \in Int /\ Len(First.list) \in Int /\ ChunkSize + 1 <= Len(First.list)
        /\ Len(First.list) - (ChunkSize + 1) + 1 = Len(First.list) - ChunkSize
        /\ \A i \in 1..Len(First.list) - ChunkSize : ChunkSize + 1 + i - 1 = ChunkSize + i
    BY <1>3, <1>4
  <2> QED
    BY <2>1, <2>2, SubSeqProperties
<1>8. /\ Rest(First, CutKey).list = list /\ Rest(First, CutKey).tailKey = {CutKey}
      /\ Rest(First, CutKey).headKey = {}
      /\ Rest(First, CutKey) = [list |-> list, headKey |-> {}, tailKey |-> {CutKey}]
  BY DEF Rest
<1>9. Rest(First, CutKey) \in ChunkType
  <2>1. {} \in AtMostOne(Seq(Msg)) /\ {CutKey} \in AtMostOne(SplitKey)
    BY <1>6 DEF AtMostOne
  <2> HIDE DEF list
  <2> QED
    BY <1>7, <1>8, <2>1 DEF ChunkType
<1> QED
  BY <1>3, <1>4, <1>5, <1>6, <1>7, <1>8, <1>9

OnePart  == [list |-> CutKey, headKey |-> {}, tailKey |-> {}]
Part(tk) == [list |-> CutKey, headKey |-> {HeadKey}, tailKey |-> {tk}]
Tailed(tk) == [Chunk(tk) EXCEPT !.headKey = {CutKey}]
Leaving   == [First EXCEPT !.tailKey = {CutKey}]
Timers1  == Replaced(timers, {HeadKey, CutKey})
Writes1  == <<ChunkWrite(CutKey, OnePart), ChunkWrite(HeadKey, Rest(First, CutKey))>>
Timers2(tk) == Replaced(Changed(Changed(timers, tk, Tailed(tk)), HeadKey, Leaving), {HeadKey, CutKey})
Writes2(tk) == <<ChunkWrite(tk, Tailed(tk)), ChunkWrite(CutKey, Part(tk)), ChunkWrite(HeadKey, Rest(First, CutKey))>>

LEMMA PartTypes ==
    ASSUME TypeOK, Len(First.list) > SplitThreshold
    PROVE  /\ OnePart \in ChunkType
           /\ \A tk \in First.tailKey :
                 /\ tk \in SplitKey /\ First.tailKey = {tk}
                 /\ Part(tk) \in ChunkType /\ Tailed(tk) \in ChunkType
                 /\ Tailed(tk).list = Chunk(tk).list /\ Tailed(tk).tailKey = Chunk(tk).tailKey
           /\ Leaving \in ChunkType /\ Leaving.list = First.list /\ Leaving.tailKey = {CutKey}
<1>1. First \in ChunkType
  BY ChunkTypes DEF First
<1>2. CutKey \in SplitKey /\ CutKey \in Seq(Msg)
  BY CutProperties
<1>3. /\ {} \in AtMostOne(Seq(Msg)) /\ {} \in AtMostOne(SplitKey)
      /\ {CutKey} \in AtMostOne(Seq(Msg)) /\ {CutKey} \in AtMostOne(SplitKey) /\ {HeadKey} \in AtMostOne(Seq(Msg))
  BY <1>2, EmptyTypes DEF AtMostOne
<1>4. OnePart \in ChunkType
  BY <1>2, <1>3 DEF OnePart, ChunkType
<1>5. ASSUME NEW tk \in First.tailKey
      PROVE  /\ tk \in SplitKey /\ First.tailKey = {tk}
             /\ Part(tk) \in ChunkType /\ Tailed(tk) \in ChunkType
             /\ Tailed(tk).list = Chunk(tk).list /\ Tailed(tk).tailKey = Chunk(tk).tailKey
  <2>1. First.tailKey \in AtMostOne(SplitKey)
    BY <1>1 DEF ChunkType
  <2>2. tk \in SplitKey /\ First.tailKey = {tk}
    BY <2>1 DEF AtMostOne
  <2>3. {tk} \in AtMostOne(SplitKey)
    BY <2>2 DEF AtMostOne
  <2>4. Part(tk) \in ChunkType
    BY <1>2, <1>3, <2>3 DEF Part, ChunkType
  <2>5. Chunk(tk) \in ChunkType
    BY ChunkTypes
  <2>6. Tailed(tk) \in ChunkType /\ Tailed(tk).list = Chunk(tk).list /\ Tailed(tk).tailKey = Chunk(tk).tailKey
    BY <1>3, <2>5 DEF Tailed, ChunkType
  <2> QED
    BY <2>2, <2>4, <2>6
<1>6. Leaving \in ChunkType /\ Leaving.list = First.list /\ Leaving.tailKey = {CutKey}
  BY <1>1, <1>3 DEF Leaving, ChunkType
<1> QED
  BY <1>4, <1>5, <1>6

LEMMA SplitFirstIs ==
    ASSUME SplitFirst
    PROVE  /\ ~convYields /\ splits > 0 /\ Len(First.list) > SplitThreshold /\ First.tailKey = {}
           /\ cache' = Put(Put(cache, HeadKey, Rest(First, CutKey)), CutKey, OnePart)
           /\ inTurn' = inTurn + 1 /\ Commanded(Timers1, Writes1)
  BY DEF SplitFirst, First, CutKey, OnePart, Timers1, Writes1

LEMMA SplitAgainIs ==
    ASSUME SplitAgain
    PROVE  /\ ~convYields /\ splits > 0 /\ Len(First.list) > SplitThreshold
           /\ \E tk \in First.tailKey :
                 /\ cache' = Put(Put(Put(cache, HeadKey, Rest(First, CutKey)), CutKey, Part(tk)), tk, Tailed(tk))
                 /\ inTurn' = inTurn + 1 /\ Commanded(Timers2(tk), Writes2(tk))
  BY DEF SplitAgain, First, CutKey, Part, Tailed, Leaving, Timers2, Writes2

LEMMA SplitTimersTypes ==
    ASSUME TypeOK, Len(First.list) > SplitThreshold
    PROVE  /\ Timers1 \in Seq(TimerType) /\ Writes1 \in Seq(TimerType)
           /\ Len(Writes1) = 2
           /\ \A tk \in First.tailKey : /\ Timers2(tk) \in Seq(TimerType) /\ Writes2(tk) \in Seq(TimerType)
                                        /\ Len(Writes2(tk)) = 3
<1>1. CutKey \in Seq(Msg) /\ HeadKey \in Seq(Msg) /\ Rest(First, CutKey) \in ChunkType
  BY CutProperties, EmptyTypes
<1>2. timers \in Seq(TimerType)
  BY DEF TypeOK
<1>3. Timers1 \in Seq(TimerType)
  BY <1>2, ReplacedTypes DEF Timers1
<1>4. Writes1 \in Seq(TimerType)
  <2>1. ChunkWrite(CutKey, OnePart) \in TimerType /\ ChunkWrite(HeadKey, Rest(First, CutKey)) \in TimerType
    BY <1>1, PartTypes, NewTimers
  <2> QED
    BY <2>1 DEF Writes1
<1>5. ASSUME NEW tk \in First.tailKey
      PROVE  Timers2(tk) \in Seq(TimerType) /\ Writes2(tk) \in Seq(TimerType)
  <2>1. tk \in Seq(Msg) /\ Tailed(tk) \in ChunkType /\ Part(tk) \in ChunkType /\ Leaving \in ChunkType
    BY PartTypes DEF SplitKey
  <2>2. Changed(timers, tk, Tailed(tk)) \in Seq(TimerType)
    BY <1>2, <2>1, ChangedTypes
  <2>3. Changed(Changed(timers, tk, Tailed(tk)), HeadKey, Leaving) \in Seq(TimerType)
    BY <1>1, <2>1, <2>2, ChangedTypes
  <2>4. Timers2(tk) \in Seq(TimerType)
    BY <2>3, ReplacedTypes DEF Timers2
  <2>5. /\ ChunkWrite(tk, Tailed(tk)) \in TimerType /\ ChunkWrite(CutKey, Part(tk)) \in TimerType
        /\ ChunkWrite(HeadKey, Rest(First, CutKey)) \in TimerType
    BY <1>1, <2>1, NewTimers
  <2> QED
    BY <2>4, <2>5 DEF Writes2
<1>6. Len(Writes1) = 2 /\ \A tk : Len(Writes2(tk)) = 3
  BY DEF Writes1, Writes2
<1> QED
  BY <1>3, <1>4, <1>5, <1>6

-----------------------------------------------------------------------------
(* Type correctness.                                                       *)

LEMMA TypesInit == Init => TypeOK
<1> SUFFICES ASSUME Init PROVE TypeOK
  OBVIOUS
<1>1. ChunksType(NoChunks)
  BY NoChunksTypes
<1>2. <<>> \in Seq(Msg) /\ <<>> \in Seq(TimerType)
  OBVIOUS
<1>3. {hubYields, convYields, convGoesOn, harmed, torn} \subseteq BOOLEAN
  BY DEF Init, HubInit
<1>4. {inTurn, hands, clears, splits, reads, closes} \subseteq Nat
  BY DEF Init, HubInit
<1> QED
  BY <1>1, <1>2, <1>3, <1>4 DEF Init, HubInit, TypeOK

HubStep == (\E m \in Msg : Hand(m)) \/ Drop \/ PassOn \/ FireMessage \/ FireHub \/ HubStop

LEMMA TypesHub == TypeOK /\ HubStep /\ UNCHANGED convVars => TypeOK'
<1> SUFFICES ASSUME TypeOK, HubStep, UNCHANGED convVars PROVE TypeOK'
  OBVIOUS
<1>0. /\ out \in Seq(Msg) /\ toConv \in Seq(Msg) /\ timers \in Seq(TimerType)
      /\ known \subseteq Msg /\ knownDisk \subseteq Msg /\ handed \subseteq Msg
      /\ hubYields \in BOOLEAN /\ hands \in Nat /\ clears \in Nat
  BY DEF TypeOK
<1>1. out # <<>> => Head(out) \in Msg /\ Tail(out) \in Seq(Msg)
  BY <1>0, HeadTailProperties
<1>2. timers # <<>> => Head(timers) \in TimerType /\ Tail(timers) \in Seq(TimerType)
  BY <1>0, HeadTailProperties
<1>m. Head(timers) \in TimerType /\ Head(timers).kind = "message" => Head(timers).msg \in Msg
  BY TimerKinds
<1>3. /\ out' \in Seq(Msg) /\ toConv' \in Seq(Msg) /\ timers' \in Seq(TimerType)
      /\ known' \subseteq Msg /\ knownDisk' \subseteq Msg /\ handed' \subseteq Msg
      /\ hubYields' \in BOOLEAN /\ hands' \in Nat /\ clears' \in Nat
  <2>1. ASSUME NEW m \in Msg, Hand(m) PROVE <1>3!:
    <3>1. Append(out, m) \in Seq(Msg)
      BY <1>0, AppendProperties
    <3> QED
      BY <1>0, <2>1, <3>1 DEF Hand
  <2>2. CASE Drop
    BY <1>0, <1>1, <2>2 DEF Drop
  <2>3. CASE PassOn
    <3>1. Append(toConv, Head(out)) \in Seq(Msg)
      BY <1>0, <1>1, <2>3, AppendProperties DEF PassOn
    <3>2. <<MessageWrite(Head(out)), HubWakes>> \in Seq(TimerType)
      BY <1>1, <2>3, NewTimers DEF PassOn
    <3>3. timers' \in Seq(TimerType)
      BY <1>0, <2>3, <3>2, ConcatProperties DEF PassOn
    <3> QED
      BY <1>0, <1>1, <2>3, <3>1, <3>3 DEF PassOn
  <2>4. CASE FireMessage
    BY <1>0, <1>2, <1>m, <2>4 DEF FireMessage
  <2>5. CASE FireHub
    BY <1>0, <1>2, <2>5 DEF FireHub
  <2>6. CASE HubStop
    BY <1>0, <2>6 DEF HubStop
  <2> QED
    BY <2>1, <2>2, <2>3, <2>4, <2>5, <2>6 DEF HubStep
<1> QED
  BY <1>3 DEF TypeOK, convVars, ChunksType

LEMMA TypesInsert == TypeOK /\ Insert => TypeOK'
<1> SUFFICES ASSUME TypeOK, Insert PROVE TypeOK'
  OBVIOUS
<1> DEFINE c == [First EXCEPT !.list = Entered(@, Head(toConv))]
<1>1. toConv \in Seq(Msg) /\ toConv # <<>> /\ timers \in Seq(TimerType) /\ ChunksType(cache)
  BY DEF TypeOK, Insert
<1>2. Head(toConv) \in Msg /\ Tail(toConv) \in Seq(Msg)
  BY <1>1, HeadTailProperties
<1>3. First \in ChunkType
  BY ChunkTypes DEF First
<1>4. Entered(First.list, Head(toConv)) \in Seq(Msg)
  BY <1>2, <1>3, EnteredPlace DEF ChunkType
<1>5. c \in ChunkType
  BY <1>3, <1>4 DEF ChunkType
<1>6. cache' = Put(cache, HeadKey, c) /\ timers' = Changed(timers, HeadKey, c) \o <<ChunkWrite(HeadKey, c), ConvWakes>>
      /\ toConv' = Tail(toConv) /\ convYields' = TRUE /\ convGoesOn' = FALSE
  BY DEF Insert, First
<1>7. UNCHANGED <<out, hubYields, known, knownDisk, handed, hands, clears,
                  splits, disk, read, inTurn, harmed, torn, reads, closes>>
  BY DEF Insert
<1> HIDE DEF c
<1>8. ChunksType(cache')
  BY <1>1, <1>5, <1>6, PutTypes, EmptyTypes
<1>9. timers' \in Seq(TimerType)
  <2>1. ChunkWrite(HeadKey, c) \in TimerType /\ ConvWakes \in TimerType
    BY <1>5, NewTimers, EmptyTypes
  <2>2. <<ChunkWrite(HeadKey, c), ConvWakes>> \in Seq(TimerType)
    BY <2>1
  <2>3. Changed(timers, HeadKey, c) \in Seq(TimerType)
    BY <1>1, <1>5, ChangedTypes, EmptyTypes
  <2> QED
    BY <1>6, <2>2, <2>3, ConcatProperties
<1> QED
  BY <1>2, <1>6, <1>7, <1>8, <1>9 DEF TypeOK, ChunksType

\* The variables a command leaves alone.
LEMMA TypesCommanded ==
    ASSUME TypeOK, splits > 0, NEW ts \in Seq(TimerType), NEW ws \in Seq(TimerType), Commanded(ts, ws),
           ChunksType(cache'), inTurn' \in Nat
    PROVE  TypeOK'
<1>1. /\ splits' \in Nat /\ toConv' \in Seq(Msg) /\ timers' \in Seq(TimerType)
      /\ {convYields', convGoesOn'} \subseteq BOOLEAN
  BY CommandedTypes
<1>2. UNCHANGED <<out, hubYields, known, knownDisk, toConv, handed, hands, clears,
                  disk, read, harmed, torn, reads, closes>>
  BY DEF Commanded
<1> QED
  BY <1>1, <1>2 DEF TypeOK, ChunksType

LEMMA TypesSplit == TypeOK /\ (NoSplit \/ SplitFirst \/ SplitAgain) => TypeOK'
<1> SUFFICES ASSUME TypeOK, NoSplit \/ SplitFirst \/ SplitAgain PROVE TypeOK'
  OBVIOUS
<1>1. /\ ChunksType(cache) /\ inTurn \in Nat /\ inTurn + 1 \in Nat /\ timers \in Seq(TimerType)
      /\ <<>> \in Seq(TimerType)
  BY DEF TypeOK
<1>2. CASE NoSplit
  <2>1. splits > 0 /\ Commanded(timers, <<>>) /\ cache' = cache /\ inTurn' = inTurn
    BY <1>2 DEF NoSplit
  <2> QED
    BY <1>1, <2>1, TypesCommanded
<1>3. CASE SplitFirst
  <2>1. /\ splits > 0 /\ Len(First.list) > SplitThreshold
        /\ cache' = Put(Put(cache, HeadKey, Rest(First, CutKey)), CutKey, OnePart)
        /\ inTurn' = inTurn + 1 /\ Commanded(Timers1, Writes1)
    BY <1>3, SplitFirstIs
  <2>2. CutKey \in Seq(Msg) /\ HeadKey \in Seq(Msg) /\ Rest(First, CutKey) \in ChunkType /\ OnePart \in ChunkType
    BY <2>1, CutProperties, PartTypes, EmptyTypes
  <2>3. ChunksType(Put(cache, HeadKey, Rest(First, CutKey)))
    BY <1>1, <2>2, PutTypes
  <2>4. ChunksType(cache')
    BY <2>1, <2>2, <2>3, PutTypes
  <2> QED
    BY <1>1, <2>1, <2>4, SplitTimersTypes, TypesCommanded
<1>4. CASE SplitAgain
  <2>1. PICK tk \in First.tailKey :
          /\ cache' = Put(Put(Put(cache, HeadKey, Rest(First, CutKey)), CutKey, Part(tk)), tk, Tailed(tk))
          /\ inTurn' = inTurn + 1 /\ Commanded(Timers2(tk), Writes2(tk))
    BY <1>4, SplitAgainIs
  <2>0. splits > 0 /\ Len(First.list) > SplitThreshold
    BY <1>4, SplitAgainIs
  <2>2. /\ CutKey \in Seq(Msg) /\ HeadKey \in Seq(Msg) /\ Rest(First, CutKey) \in ChunkType
        /\ tk \in Seq(Msg) /\ Part(tk) \in ChunkType /\ Tailed(tk) \in ChunkType
    BY <2>0, CutProperties, PartTypes, EmptyTypes DEF SplitKey
  <2>3. ChunksType(Put(cache, HeadKey, Rest(First, CutKey)))
    BY <1>1, <2>2, PutTypes
  <2>4. ChunksType(Put(Put(cache, HeadKey, Rest(First, CutKey)), CutKey, Part(tk)))
    BY <2>2, <2>3, PutTypes
  <2>5. ChunksType(cache')
    BY <2>1, <2>2, <2>4, PutTypes
  <2>6. Timers2(tk) \in Seq(TimerType) /\ Writes2(tk) \in Seq(TimerType)
    BY <2>0, SplitTimersTypes
  <2> QED
    BY <1>1, <2>0, <2>1, <2>5, <2>6, TypesCommanded
<1> QED
  BY <1>2, <1>3, <1>4

LEMMA TypesRest ==
    TypeOK /\ (TrySplit \/ FireChunk \/ FireConv \/ ReadDisk \/ ReadDone \/ ConvStop \/ Close) => TypeOK'
<1> SUFFICES ASSUME TypeOK, TrySplit \/ FireChunk \/ FireConv \/ ReadDisk \/ ReadDone \/ ConvStop \/ Close
             PROVE  TypeOK'
  OBVIOUS
<1>0. timers \in Seq(TimerType) /\ ChunksType(cache) /\ ChunksType(disk) /\ {harmed, torn} \subseteq BOOLEAN
  BY DEF TypeOK
<1>1. CASE TrySplit
  BY <1>1 DEF TrySplit, hubVars, TypeOK, ChunksType
<1>h. timers # <<>> => Head(timers) \in TimerType /\ Tail(timers) \in Seq(TimerType)
  BY <1>0, HeadTailProperties
<1>2. CASE FireChunk
  <2>1. IsWrite(Head(timers)) /\ Head(timers) \in TimerType /\ Tail(timers) \in Seq(TimerType)
    BY <1>2, <1>h DEF FireChunk, IsWrite
  <2>2. Head(timers).key \in Seq(Msg) /\ Head(timers).chunk \in ChunkType
    BY <2>1, TimerKinds
  <2>3. ChunksType(Put(disk, Head(timers).key, Head(timers).chunk))
    BY <1>0, <2>2, PutTypes
  <2>4. ChunksType(disk')
    BY <1>2, <2>3 DEF FireChunk
  <2> QED
    BY <1>2, <2>1, <2>4 DEF FireChunk, TypeOK, ChunksType
<1>3. CASE FireConv
  <2>1. timers' \in Seq(TimerType) /\ convYields' = FALSE /\ inTurn' = 0
    BY <1>3, <1>h DEF FireConv
  <2>2. UNCHANGED <<out, hubYields, known, knownDisk, toConv, handed, hands, clears,
                    convGoesOn, splits, cache, disk, read, harmed, torn, reads, closes>>
    BY <1>3 DEF FireConv
  <2>3. {inTurn', hands', clears', splits', reads', closes'} \subseteq Nat
    BY <2>1, <2>2 DEF TypeOK
  <2>4. {hubYields', convYields', convGoesOn', harmed', torn'} \subseteq BOOLEAN
    BY <2>1, <2>2 DEF TypeOK
  <2> QED
    BY <2>1, <2>2, <2>3, <2>4 DEF TypeOK, ChunksType
<1>4. CASE ReadDisk
  <2>1. PICK k \in DOMAIN disk : read' = {[key |-> k, chunk |-> disk[k]]}
    BY <1>4 DEF ReadDisk
  <2>2. k \in Seq(Msg) /\ disk[k] \in ChunkType
    BY <1>0, <2>1 DEF ChunksType
  <2>3. \A r \in read' : r.key \in Seq(Msg) /\ r.chunk \in ChunkType
    BY <2>1, <2>2
  <2> QED
    BY <1>4, <2>3 DEF ReadDisk, hubVars, TypeOK, ChunksType
<1>5. CASE ReadDone
  <2>1. PICK r \in read :
          /\ read' = {} /\ cache' = Put(cache, r.key, r.chunk) /\ timers' = Replaced(timers, {r.key})
          /\ harmed' = (harmed \/ Chunk(r.key) # r.chunk)
          /\ UNCHANGED <<out, hubYields, known, knownDisk, toConv, handed, hands, clears,
                         convYields, convGoesOn, splits, disk, inTurn, torn, reads, closes>>
    BY <1>5 DEF ReadDone
  <2>2. r.key \in Seq(Msg) /\ r.chunk \in ChunkType
    BY DEF TypeOK
  <2>3. ChunksType(Put(cache, r.key, r.chunk))
    BY <1>0, <2>2, PutTypes
  <2>4. ChunksType(cache') /\ timers' \in Seq(TimerType) /\ harmed' \in BOOLEAN
    BY <1>0, <2>1, <2>3, ReplacedTypes
  <2> QED
    BY <2>1, <2>4 DEF TypeOK, ChunksType
<1>6. CASE ConvStop
  <2>1. ChunksType(cache') /\ timers' \in Seq(TimerType) /\ {harmed', torn'} \subseteq BOOLEAN
    BY <1>0, <1>6, NoChunksTypes, ReplacedTypes DEF ConvStop
  <2> QED
    BY <1>6, <2>1 DEF ConvStop, TypeOK, ChunksType
<1>7. CASE Close
  <2>1. ChunksType(cache') /\ timers' \in Seq(TimerType) /\ {harmed', torn'} \subseteq BOOLEAN
    BY <1>0, <1>7, NoChunksTypes DEF Close, HubClose
  <2>2. out' \in Seq(Msg) /\ toConv' \in Seq(Msg) /\ known' \subseteq Msg /\ hubYields' = FALSE /\ convYields' = FALSE /\ convGoesOn' = FALSE /\ timers' = <<>> /\ splits' = 0 /\ inTurn' = 0
    BY <1>7 DEF Close, HubClose
  <2>3. read' = {} /\ closes' = closes + 1 /\ UNCHANGED <<disk, reads, knownDisk, handed, hands, clears>>
    BY <1>7 DEF Close, HubClose
  <2>4. {hubYields', convYields', convGoesOn', harmed', torn'} \subseteq BOOLEAN
    BY <2>1, <2>2
  <2>5. {inTurn', hands', clears', splits', reads', closes'} \subseteq Nat
    BY <2>2, <2>3 DEF TypeOK
  <2> QED
    BY <2>1, <2>2, <2>3, <2>4, <2>5 DEF TypeOK, ChunksType
<1> QED
  BY <1>1, <1>2, <1>3, <1>4, <1>5, <1>6, <1>7

LEMMA NextCases ==
    ASSUME Next
    PROVE  \/ Insert \/ NoSplit \/ SplitFirst \/ SplitAgain
           \/ ~convGoesOn /\ HubStep /\ UNCHANGED convVars
           \/ ~convGoesOn /\ (TrySplit \/ FireChunk \/ FireConv \/ ReadDisk \/ ReadDone \/ ConvStop \/ Close)
  BY DEF Next, HubStep

LEMMA TypesStep == TypeOK /\ [Next]_vars => TypeOK'
<1>1. ASSUME TypeOK, Next PROVE TypeOK'
  BY <1>1, NextCases, TypesHub, TypesInsert, TypesSplit, TypesRest
<1>2. ASSUME TypeOK, UNCHANGED vars PROVE TypeOK'
  BY <1>2 DEF TypeOK, vars, hubVars, convVars, ChunksType
<1> QED
  BY <1>1, <1>2

\* The variables have their types, with those of the hub and of the chunks: a
\* chunk names at most one tail, which is never HeadKey.
THEOREM TypeInvariant == Spec => []TypeOK
  BY TypesInit, TypesStep, PTL DEF Spec

-----------------------------------------------------------------------------
(* The turns of the two loops.  A loop that gives way has one zero timer,  *)
(* behind the writes that were due before.                                 *)

IsOf(t, kind) == t.kind = kind

\* The conversation wakes once, when it gave way, behind its writes.
ConvWakesLast(ts, yields) ==
    \A i \in DOMAIN ts : IsOf(ts[i], "conversation") =>
        /\ yields
        /\ \A j \in DOMAIN ts : IsOf(ts[j], "conversation") => j = i
        /\ \A j \in DOMAIN ts : IsWrite(ts[j]) => j < i

\* The hub wakes once, when it gave way, behind its write.
HubWakesLast(ts, yields) ==
    \A i \in DOMAIN ts :
        /\ IsOf(ts[i], "message") => yields
        /\ IsOf(ts[i], "hub") =>
            /\ yields
            /\ \A j \in DOMAIN ts : IsOf(ts[j], "hub") => j = i
            /\ \A j \in DOMAIN ts : IsOf(ts[j], "message") => j < i

NoWrites(ts) == \A i \in DOMAIN ts : ~IsWrite(ts[i])

MessagesFirst(ts) == \A i, j \in DOMAIN ts : IsWrite(ts[i]) /\ IsOf(ts[j], "message") => j < i

TurnInv ==
    /\ convGoesOn => ~convYields
    /\ ~convYields /\ ~convGoesOn => inTurn = 0
    /\ ~convYields /\ inTurn = 0 => NoWrites(timers)
    /\ ~convYields => MessagesFirst(timers)
    /\ ConvWakesLast(timers, convYields)
    /\ HubWakesLast(timers, hubYields)

\* The same timers but for what the writes are of the same keys.
Rewritten(ts, us) ==
    /\ DOMAIN us = DOMAIN ts
    /\ \A i \in DOMAIN ts : us[i] = ts[i] \/ (IsWrite(us[i]) /\ IsWrite(ts[i]) /\ us[i].key = ts[i].key)

LEMMA RewrittenKinds ==
    ASSUME NEW ts, NEW us, Rewritten(ts, us), NEW y
    PROVE  /\ ConvWakesLast(ts, y) => ConvWakesLast(us, y)
           /\ HubWakesLast(ts, y) => HubWakesLast(us, y)
           /\ NoWrites(ts) => NoWrites(us)
           /\ MessagesFirst(ts) => MessagesFirst(us)
<1>1. \A i \in DOMAIN ts : /\ IsWrite(us[i]) <=> IsWrite(ts[i])
                           /\ IsOf(us[i], "message") <=> IsOf(ts[i], "message")
                           /\ IsOf(us[i], "hub") <=> IsOf(ts[i], "hub")
                           /\ IsOf(us[i], "conversation") <=> IsOf(ts[i], "conversation")
  BY DEF Rewritten, IsWrite, IsOf
<1>2. DOMAIN us = DOMAIN ts
  BY DEF Rewritten
<1> QED
  BY <1>1, <1>2 DEF ConvWakesLast, HubWakesLast, NoWrites, MessagesFirst

LEMMA TailKinds ==
    ASSUME NEW ts \in Seq(TimerType), ts # <<>>, NEW y
    PROVE  /\ ConvWakesLast(ts, y) => ConvWakesLast(Tail(ts), y)
           /\ HubWakesLast(ts, y) => HubWakesLast(Tail(ts), y)
           /\ NoWrites(ts) => NoWrites(Tail(ts))
           /\ MessagesFirst(ts) => MessagesFirst(Tail(ts))
           /\ ConvWakesLast(ts, y) /\ IsOf(Head(ts), "conversation") =>
                 NoWrites(Tail(ts)) /\ ConvWakesLast(Tail(ts), FALSE)
           /\ HubWakesLast(ts, y) /\ IsOf(Head(ts), "hub") => HubWakesLast(Tail(ts), FALSE)
<1>1. /\ Len(ts) \in Nat /\ Len(ts) >= 1 /\ DOMAIN ts = 1..Len(ts)
      /\ DOMAIN Tail(ts) = 1..Len(ts) - 1 /\ Head(ts) = ts[1]
      /\ \A i \in 1..Len(ts) - 1 : Tail(ts)[i] = ts[i + 1]
  BY HeadTailProperties, LenProperties
<1>2. \A i \in DOMAIN Tail(ts) : Tail(ts)[i] = ts[i + 1] /\ i + 1 \in DOMAIN ts /\ i \in Nat /\ i >= 1
  BY <1>1
<1>3. 1 \in DOMAIN ts /\ Head(ts) = ts[1]
  BY <1>1
<1>4. ConvWakesLast(ts, y) => ConvWakesLast(Tail(ts), y)
  BY <1>2 DEF ConvWakesLast
<1>5. HubWakesLast(ts, y) => HubWakesLast(Tail(ts), y)
  BY <1>2 DEF HubWakesLast
<1>6. (NoWrites(ts) => NoWrites(Tail(ts))) /\ (MessagesFirst(ts) => MessagesFirst(Tail(ts)))
  BY <1>2 DEF NoWrites, MessagesFirst
<1>7. ASSUME ConvWakesLast(ts, y), IsOf(Head(ts), "conversation")
      PROVE  NoWrites(Tail(ts)) /\ ConvWakesLast(Tail(ts), FALSE)
  <2>1. \A i \in DOMAIN Tail(ts) : ~IsWrite(ts[i + 1]) /\ ~IsOf(ts[i + 1], "conversation")
    BY <1>2, <1>3, <1>7 DEF ConvWakesLast
  <2> QED
    BY <1>2, <2>1 DEF NoWrites, ConvWakesLast
<1>8. ASSUME HubWakesLast(ts, y), IsOf(Head(ts), "hub")
      PROVE  HubWakesLast(Tail(ts), FALSE)
  <2>1. \A i \in DOMAIN Tail(ts) : ~IsOf(ts[i + 1], "message") /\ ~IsOf(ts[i + 1], "hub")
    BY <1>2, <1>3, <1>8 DEF HubWakesLast
  <2> QED
    BY <1>2, <2>1 DEF HubWakesLast
<1> QED
  BY <1>4, <1>5, <1>6, <1>7, <1>8

LEMMA AfterOne ==
    ASSUME NEW T, NEW ts \in Seq(T), NEW w \in T, NEW us, us = ts \o <<w>>
    PROVE  /\ us \in Seq(T) /\ Len(us) = Len(ts) + 1 /\ Len(ts) \in Nat
           /\ DOMAIN us = 1..Len(ts) + 1 /\ DOMAIN ts = 1..Len(ts)
           /\ \A i \in 1..Len(ts) : us[i] = ts[i]
           /\ us[Len(ts) + 1] = w
<1>1. <<w>> \in Seq(T) /\ Len(<<w>>) = 1 /\ <<w>>[1] = w
  OBVIOUS
<1>2. /\ ts \o <<w>> \in Seq(T) /\ Len(ts \o <<w>>) = Len(ts) + Len(<<w>>) /\ Len(ts) \in Nat
      /\ \A i \in 1..Len(ts) : (ts \o <<w>>)[i] = ts[i]
      /\ \A i \in 1..Len(<<w>>) : (ts \o <<w>>)[Len(ts) + i] = <<w>>[i]
  BY <1>1, After
<1>3. DOMAIN us = 1..Len(ts) + 1 /\ DOMAIN ts = 1..Len(ts)
  BY <1>1, <1>2, LenProperties
<1>4. 1 \in 1..Len(<<w>>)
  BY <1>1
<1> QED
  BY <1>1, <1>2, <1>3, <1>4

\* Writes of the conversation come last.
LEMMA WritesBehind ==
    ASSUME NEW ts \in Seq(TimerType), NEW ws \in Seq(TimerType), \A i \in DOMAIN ws : IsWrite(ws[i]), NEW y
    PROVE  /\ ConvWakesLast(ts, FALSE) => ConvWakesLast(ts \o ws, FALSE) /\ ConvWakesLast((ts \o ws) \o <<ConvWakes>>, TRUE)
           /\ HubWakesLast(ts, y) => HubWakesLast(ts \o ws, y) /\ HubWakesLast((ts \o ws) \o <<ConvWakes>>, y)
           /\ MessagesFirst(ts) => MessagesFirst(ts \o ws) /\ MessagesFirst((ts \o ws) \o <<ConvWakes>>)
<1> DEFINE us == ts \o ws
           vs == us \o <<ConvWakes>>
           n  == Len(ts)
           k  == Len(ws)
<1>1. /\ n \in Nat /\ k \in Nat /\ us \in Seq(TimerType) /\ Len(us) = n + k
      /\ \A i \in 1..n : us[i] = ts[i]
      /\ \A i \in 1..k : us[n + i] = ws[i]
  BY After
<1>2. DOMAIN ts = 1..n /\ DOMAIN ws = 1..k /\ DOMAIN us = 1..n + k
  BY <1>1, LenProperties
<1>0. \A i \in DOMAIN ts : us[i] = ts[i]
  BY <1>1, <1>2
<1>3. ASSUME NEW i \in DOMAIN us
      PROVE  (i \in DOMAIN ts /\ us[i] = ts[i]) \/ (i \in n + 1..n + k /\ IsWrite(us[i]))
  <2>1. CASE i \in 1..n
    BY <1>1, <1>2, <2>1
  <2>2. CASE i \notin 1..n
    <3>1. i - n \in 1..k /\ n + (i - n) = i /\ i \in n + 1..n + k
      BY <1>1, <1>2, <2>2
    <3> QED
      BY <1>1, <1>2, <3>1
  <2> QED
    BY <2>1, <2>2
<1>4. \A t : IsWrite(t) => ~IsOf(t, "message") /\ ~IsOf(t, "hub") /\ ~IsOf(t, "conversation")
  BY DEF IsWrite, IsOf
<1>5. \A i \in DOMAIN us : i \in Int
  BY <1>1, <1>2
<1>6. \A i \in DOMAIN us : i \notin DOMAIN ts => \A j \in DOMAIN ts : j < i
  BY <1>1, <1>2
<1>7. /\ DOMAIN vs = 1..n + k + 1 /\ vs[n + k + 1] = ConvWakes
      /\ \A i \in DOMAIN us : vs[i] = us[i]
  <2>1. ConvWakes \in TimerType
    BY NewTimers
  <2>3. us \in Seq(TimerType) /\ vs = us \o <<ConvWakes>>
    BY <1>1
  <2> HIDE DEF us, vs
  <2>2. /\ DOMAIN vs = 1..Len(us) + 1 /\ vs[Len(us) + 1] = ConvWakes
        /\ \A i \in 1..Len(us) : vs[i] = us[i]
    BY ONLY <2>1, <2>3, AfterOne
  <2> QED
    BY <1>1, <1>2, <2>2
<1>8. /\ ~IsWrite(ConvWakes) /\ ~IsOf(ConvWakes, "message") /\ ~IsOf(ConvWakes, "hub") /\ IsOf(ConvWakes, "conversation")
  BY DEF IsWrite, IsOf, ConvWakes
<1>9. ASSUME NEW i \in DOMAIN vs
      PROVE  (i \in DOMAIN us /\ vs[i] = us[i]) \/ (i = n + k + 1 /\ vs[i] = ConvWakes /\ \A j \in DOMAIN us : j < i)
  <2>1. CASE i \in DOMAIN us
    BY <1>7, <2>1
  <2>2. CASE i \notin DOMAIN us
    <3>1. i = n + k + 1
      <4>1. i \in 1..n + k + 1 /\ i \notin 1..n + k /\ n + k \in Nat
        BY <1>1, <1>2, <1>7, <2>2
      <4> HIDE DEF n, k
      <4> QED
        BY <4>1
    <3>2. \A j \in DOMAIN us : j < n + k + 1
      BY <1>1, <1>2
    <3> QED
      BY <1>7, <3>1, <3>2
  <2> QED
    BY <2>1, <2>2
<1> HIDE DEF us, vs, n, k
<1>10. ASSUME ConvWakesLast(ts, FALSE) PROVE ConvWakesLast(us, FALSE) /\ ConvWakesLast(vs, TRUE)
  <2>1. \A i \in DOMAIN us : ~IsOf(us[i], "conversation")
    BY <1>3, <1>4, <1>10 DEF ConvWakesLast
  <2> QED
    BY <1>8, <1>9, <2>1 DEF ConvWakesLast
<1>11. ASSUME HubWakesLast(ts, y) PROVE HubWakesLast(us, y) /\ HubWakesLast(vs, y)
  <2>1. HubWakesLast(us, y)
    BY <1>3, <1>4, <1>11 DEF HubWakesLast
  <2> QED
    BY <1>8, <1>9, <2>1 DEF HubWakesLast
<1>12. ASSUME MessagesFirst(ts) PROVE MessagesFirst(us)
  <2> SUFFICES ASSUME NEW i \in DOMAIN us, NEW j \in DOMAIN us, IsWrite(us[i]), IsOf(us[j], "message")
               PROVE  j < i
    BY DEF MessagesFirst
  <2>1. j \in DOMAIN ts /\ us[j] = ts[j]
    BY <1>3, <1>4
  <2>2. CASE i \in DOMAIN ts
    <3>1. us[i] = ts[i]
      BY <1>0, <2>2
    <3> QED
      BY <1>12, <2>1, <2>2, <3>1 DEF MessagesFirst
  <2>3. CASE i \notin DOMAIN ts
    BY <1>6, <2>1, <2>3
  <2> QED
    BY <2>2, <2>3
<1>13. ASSUME MessagesFirst(ts) PROVE MessagesFirst(vs)
  BY <1>8, <1>9, <1>12, <1>13 DEF MessagesFirst
<1> QED
  BY <1>10, <1>11, <1>12, <1>13 DEF us, vs

LEMMA WriteThenWake ==
    ASSUME NEW ts \in Seq(TimerType), NEW w \in TimerType
    PROVE  ts \o <<w, ConvWakes>> = (ts \o <<w>>) \o <<ConvWakes>>
<1>1. <<w>> \in Seq(TimerType) /\ <<ConvWakes>> \in Seq(TimerType)
  BY NewTimers
<1>2. <<w, ConvWakes>> = <<w>> \o <<ConvWakes>>
  OBVIOUS
<1> QED
  BY <1>1, <1>2, ConcatAssociative

LEMMA ChangedRewritten ==
    ASSUME NEW ts \in Seq(TimerType), NEW k \in Seq(Msg), NEW c \in ChunkType
    PROVE  Rewritten(ts, Changed(ts, k, c))
<1>1. /\ Changed(ts, k, c) \in Seq(TimerType) /\ Len(Changed(ts, k, c)) = Len(ts)
      /\ \A i \in 1..Len(ts) :
            Changed(ts, k, c)[i] = IF ts[i].kind = "chunk" /\ ts[i].key = k THEN ChunkWrite(k, c) ELSE ts[i]
  BY ChangedTypes
<1>2. DOMAIN Changed(ts, k, c) = DOMAIN ts /\ DOMAIN ts = 1..Len(ts)
  BY <1>1, LenProperties
<1>3. ChunkWrite(k, c).kind = "chunk" /\ ChunkWrite(k, c).key = k
  BY DEF ChunkWrite
<1> QED
  BY <1>1, <1>2, <1>3 DEF Rewritten, IsWrite

LEMMA ReplacedRewritten ==
    ASSUME NEW ts \in Seq(TimerType), NEW ks
    PROVE  Rewritten(ts, Replaced(ts, ks))
<1>1. /\ Replaced(ts, ks) \in Seq(TimerType) /\ Len(Replaced(ts, ks)) = Len(ts)
      /\ \A i \in 1..Len(ts) :
            Replaced(ts, ks)[i] = IF ts[i].kind = "chunk" /\ ts[i].key \in ks THEN [ts[i] EXCEPT !.kind = "past"]
                                  ELSE ts[i]
  BY ReplacedTypes
<1>2. DOMAIN Replaced(ts, ks) = DOMAIN ts /\ DOMAIN ts = 1..Len(ts) /\ \A i \in DOMAIN ts : ts[i] \in TimerType
  BY <1>1, LenProperties, ElementOfSeq
<1>3. \A i \in DOMAIN ts : ts[i].kind = "chunk" => /\ [ts[i] EXCEPT !.kind = "past"].kind = "past"
                                                 /\ [ts[i] EXCEPT !.kind = "past"].key = ts[i].key
  BY <1>2, PastProperties
<1> QED
  BY <1>1, <1>2, <1>3 DEF Rewritten, IsWrite

LEMMA RewrittenTwice ==
    ASSUME NEW ts, NEW us, NEW vs, Rewritten(ts, us), Rewritten(us, vs)
    PROVE  Rewritten(ts, vs)
  BY DEF Rewritten, IsWrite

\* The timers of before, as a split leaves them.
LEMMA SplitKinds ==
    ASSUME TypeOK, Len(First.list) > SplitThreshold
    PROVE  /\ Rewritten(timers, Timers1) /\ \A i \in DOMAIN Writes1 : IsWrite(Writes1[i])
           /\ \A tk \in First.tailKey :
                 Rewritten(timers, Timers2(tk)) /\ \A i \in DOMAIN Writes2(tk) : IsWrite(Writes2(tk)[i])
<1>1. timers \in Seq(TimerType) /\ HeadKey \in Seq(Msg) /\ Leaving \in ChunkType
  BY PartTypes, EmptyTypes DEF TypeOK
<1>2. Rewritten(timers, Timers1)
  BY <1>1, ReplacedRewritten DEF Timers1
<1>w. \A k, c : IsWrite(ChunkWrite(k, c))
  BY DEF IsWrite, ChunkWrite
<1>3. \A i \in DOMAIN Writes1 : IsWrite(Writes1[i])
  BY <1>w DEF Writes1
<1>4. ASSUME NEW tk \in First.tailKey
      PROVE  Rewritten(timers, Timers2(tk)) /\ \A i \in DOMAIN Writes2(tk) : IsWrite(Writes2(tk)[i])
  <2> DEFINE ts == Changed(timers, tk, Tailed(tk))
             us == Changed(ts, HeadKey, Leaving)
  <2>1. tk \in Seq(Msg) /\ Tailed(tk) \in ChunkType
    BY PartTypes DEF SplitKey
  <2>2. ts \in Seq(TimerType) /\ Rewritten(timers, ts)
    BY <1>1, <2>1, ChangedTypes, ChangedRewritten
  <2> HIDE DEF ts
  <2>3. us \in Seq(TimerType) /\ Rewritten(ts, us)
    BY <1>1, <2>2, ChangedTypes, ChangedRewritten
  <2> HIDE DEF us
  <2>4. Rewritten(us, Replaced(us, {HeadKey, CutKey}))
    BY <2>3, ReplacedRewritten
  <2>5. Rewritten(timers, Replaced(us, {HeadKey, CutKey}))
    BY <2>2, <2>3, <2>4, RewrittenTwice
  <2>6. Rewritten(timers, Timers2(tk))
    BY <2>5 DEF us, ts, Timers2
  <2> QED
    BY <1>w, <2>6 DEF Writes2
<1> QED
  BY <1>2, <1>3, <1>4

LEMMA TurnCommanded ==
    ASSUME TypeOK, TurnInv, ~convYields, splits > 0, NEW ts \in Seq(TimerType), NEW ws \in Seq(TimerType),
           Commanded(ts, ws), Rewritten(timers, ts), \A i \in DOMAIN ws : IsWrite(ws[i]),
           inTurn' # 0 \/ (ws = <<>> /\ inTurn' = inTurn)
    PROVE  TurnInv'
<1>1. /\ ConvWakesLast(ts, FALSE) /\ HubWakesLast(ts, hubYields) /\ MessagesFirst(ts)
      /\ NoWrites(timers) => NoWrites(ts)
  <2>0. convYields = FALSE
    BY DEF TypeOK
  <2>1. ConvWakesLast(timers, FALSE) /\ HubWakesLast(timers, hubYields) /\ MessagesFirst(timers)
    BY <2>0 DEF TurnInv
  <2> QED
    BY <2>1, RewrittenKinds
<1>2. /\ ConvWakesLast(ts \o ws, FALSE) /\ ConvWakesLast((ts \o ws) \o <<ConvWakes>>, TRUE)
      /\ HubWakesLast(ts \o ws, hubYields) /\ HubWakesLast((ts \o ws) \o <<ConvWakes>>, hubYields)
      /\ MessagesFirst(ts \o ws)
  BY <1>1, WritesBehind
<1>3. hubYields' = hubYields
  BY DEF Commanded
<1>4. \/ ~convGoesOn' /\ convYields' /\ timers' = (ts \o ws) \o <<ConvWakes>>
      \/ convGoesOn' /\ convYields' = convYields /\ timers' = ts \o ws
  BY CommandedTypes
<1>5. convYields' \in BOOLEAN /\ convYields \in BOOLEAN
  BY CommandedTypes DEF TypeOK
<1>6. CASE ~convGoesOn' /\ convYields' /\ timers' = (ts \o ws) \o <<ConvWakes>>
  <2>1. convYields' = TRUE
    BY <1>5, <1>6
  <2> QED
    BY <1>2, <1>3, <1>6, <2>1 DEF TurnInv
<1>7. CASE convGoesOn' /\ convYields' = convYields /\ timers' = ts \o ws
  <2>1. convYields' = FALSE
    BY <1>5, <1>7
  <2>2. ~convYields' /\ inTurn' = 0 => NoWrites(timers')
    <3> SUFFICES ASSUME inTurn' = 0 PROVE NoWrites(timers')
      OBVIOUS
    <3>1. ws = <<>> /\ inTurn = 0
      OBVIOUS
    <3>2. ts \o ws = ts
      BY <3>1, ConcatEmptySeq
    <3> QED
      BY <1>1, <1>7, <3>1, <3>2 DEF TurnInv
  <2> QED
    BY <1>2, <1>3, <1>7, <2>1, <2>2 DEF TurnInv
<1> QED
  BY <1>4, <1>6, <1>7

LEMMA TurnConv == TypeOK /\ TurnInv /\ (Insert \/ NoSplit \/ SplitFirst \/ SplitAgain) => TurnInv'
<1> SUFFICES ASSUME TypeOK, TurnInv, Insert \/ NoSplit \/ SplitFirst \/ SplitAgain PROVE TurnInv'
  OBVIOUS
<1>0. timers \in Seq(TimerType) /\ inTurn \in Nat
  BY DEF TypeOK
<1>1. CASE Insert
  <2> DEFINE c == [First EXCEPT !.list = Entered(@, Head(toConv))]
  <2>1. First \in ChunkType
    BY ChunkTypes DEF First
  <2>2. toConv \in Seq(Msg) /\ toConv # <<>>
    BY <1>1 DEF TypeOK, Insert
  <2>3. Entered(First.list, Head(toConv)) \in Seq(Msg)
    BY <2>1, <2>2, HeadTailProperties, EnteredPlace DEF ChunkType
  <2>4. c \in ChunkType
    BY <2>1, <2>3 DEF ChunkType
  <2>5. timers' = Changed(timers, HeadKey, c) \o <<ChunkWrite(HeadKey, c), ConvWakes>>
    BY <1>1 DEF Insert, First
  <2>6. ~convYields /\ convYields' = TRUE /\ convGoesOn' = FALSE /\ hubYields' = hubYields
    BY <1>1 DEF Insert
  <2> HIDE DEF c
  <2> DEFINE ts == Changed(timers, HeadKey, c)
  <2>7. ts \in Seq(TimerType) /\ Rewritten(timers, ts)
    BY <1>0, <2>4, EmptyTypes, ChangedTypes, ChangedRewritten
  <2>8. ChunkWrite(HeadKey, c) \in TimerType /\ IsWrite(ChunkWrite(HeadKey, c))
    BY <2>4, EmptyTypes, NewTimers DEF IsWrite, ChunkWrite
  <2>9. timers' = (ts \o <<ChunkWrite(HeadKey, c)>>) \o <<ConvWakes>>
    BY <2>5, <2>7, <2>8, WriteThenWake
  <2>10. /\ <<ChunkWrite(HeadKey, c)>> \in Seq(TimerType)
         /\ \A i \in DOMAIN <<ChunkWrite(HeadKey, c)>> : IsWrite(<<ChunkWrite(HeadKey, c)>>[i])
    BY <2>8
  <2>11. ConvWakesLast(timers, FALSE) /\ HubWakesLast(timers, hubYields)
    <3>1. convYields = FALSE
      BY <2>6 DEF TypeOK
    <3> QED
      BY <3>1 DEF TurnInv
  <2>12. ConvWakesLast(ts, FALSE) /\ HubWakesLast(ts, hubYields)
    BY <2>7, <2>11, RewrittenKinds
  <2> HIDE DEF ts
  <2>13. ConvWakesLast(timers', TRUE) /\ HubWakesLast(timers', hubYields)
    BY <2>7, <2>9, <2>10, <2>12, WritesBehind
  <2> QED
    BY <2>6, <2>13 DEF TurnInv
<1>2. CASE NoSplit
  <2>1. ~convYields /\ splits > 0 /\ Commanded(timers, <<>>) /\ inTurn' = inTurn
    BY <1>2 DEF NoSplit
  <2>2. Rewritten(timers, timers)
    BY DEF Rewritten
  <2>3. <<>> \in Seq(TimerType) /\ \A i \in DOMAIN <<>> : IsWrite(<<>>[i])
    OBVIOUS
  <2> QED
    BY <1>0, <2>1, <2>2, <2>3, TurnCommanded
<1>3. CASE SplitFirst
  <2>1. /\ ~convYields /\ splits > 0 /\ Len(First.list) > SplitThreshold
        /\ inTurn' = inTurn + 1 /\ Commanded(Timers1, Writes1)
    BY <1>3, SplitFirstIs
  <2>2. inTurn' # 0
    BY <1>0, <2>1
  <2> QED
    BY <2>1, <2>2, SplitTimersTypes, SplitKinds, TurnCommanded
<1>4. CASE SplitAgain
  <2>0. ~convYields /\ splits > 0 /\ Len(First.list) > SplitThreshold
    BY <1>4, SplitAgainIs
  <2>1. PICK tk \in First.tailKey : inTurn' = inTurn + 1 /\ Commanded(Timers2(tk), Writes2(tk))
    BY <1>4, SplitAgainIs
  <2>2. inTurn' # 0
    BY <1>0, <2>1
  <2>3. Timers2(tk) \in Seq(TimerType) /\ Writes2(tk) \in Seq(TimerType)
    BY <2>0, SplitTimersTypes
  <2>4. Rewritten(timers, Timers2(tk)) /\ \A i \in DOMAIN Writes2(tk) : IsWrite(Writes2(tk)[i])
    BY <2>0, SplitKinds
  <2> QED
    BY <2>0, <2>1, <2>2, <2>3, <2>4, TurnCommanded
<1> QED
  BY <1>1, <1>2, <1>3, <1>4

\* The hub passes a message on.
LEMMA PassedKinds ==
    ASSUME NEW ts \in Seq(TimerType), NEW m \in Msg, NEW us, us = ts \o <<MessageWrite(m), HubWakes>>
    PROVE  /\ us \in Seq(TimerType)
           /\ \A i \in DOMAIN us : \/ i \in DOMAIN ts /\ us[i] = ts[i]
                                   \/ i = Len(ts) + 1 /\ us[i] = MessageWrite(m)
                                   \/ i = Len(ts) + 2 /\ us[i] = HubWakes
           /\ Len(us) = Len(ts) + 2
           /\ us[Len(ts) + 1] = MessageWrite(m)
           /\ \A i \in DOMAIN ts : i \in DOMAIN us /\ us[i] = ts[i]
<1> DEFINE ws == <<MessageWrite(m), HubWakes>>
<1>1. ws \in Seq(TimerType) /\ Len(ws) = 2 /\ ws[1] = MessageWrite(m) /\ ws[2] = HubWakes
  BY NewTimers
<1> HIDE DEF ws
<1>2. us = ts \o ws
  BY DEF ws
<1>3. /\ us \in Seq(TimerType) /\ Len(us) = Len(ts) + 2 /\ Len(ts) \in Nat
      /\ \A i \in 1..Len(ts) : us[i] = ts[i]
      /\ \A i \in 1..Len(ws) : us[Len(ts) + i] = ws[i]
  BY <1>1, <1>2, After
<1>4. us[Len(ts) + 1] = MessageWrite(m) /\ us[Len(ts) + 2] = HubWakes
  <2>1. 1 \in 1..Len(ws) /\ 2 \in 1..Len(ws)
    BY <1>1
  <2> QED
    BY <1>1, <1>3, <2>1
<1>5. DOMAIN us = 1..Len(ts) + 2 /\ DOMAIN ts = 1..Len(ts)
  BY <1>3, LenProperties
<1>6. \A i \in 1..Len(ts) + 2 : i \in 1..Len(ts) \/ i = Len(ts) + 1 \/ i = Len(ts) + 2
  BY <1>3
<1>7. \A i \in 1..Len(ts) : i \in 1..Len(ts) + 2
  BY <1>3
<1> QED
  BY <1>3, <1>4, <1>5, <1>6, <1>7

LEMMA TurnHub == TypeOK /\ TurnInv /\ ~convGoesOn /\ HubStep /\ UNCHANGED convVars => TurnInv'
<1> SUFFICES ASSUME TypeOK, TurnInv, ~convGoesOn, HubStep, UNCHANGED convVars PROVE TurnInv'
  OBVIOUS
<1>0. convYields' = convYields /\ convGoesOn' = convGoesOn /\ inTurn' = inTurn /\ timers \in Seq(TimerType)
  BY DEF convVars, TypeOK
<1>1. CASE hubYields' = hubYields /\ timers' = timers
  BY <1>0, <1>1 DEF TurnInv
<1>2. CASE PassOn
  <2>1. ~hubYields /\ hubYields' = TRUE /\ out # <<>> /\ timers' = timers \o <<MessageWrite(Head(out)), HubWakes>>
    BY <1>2 DEF PassOn
  <2>2. Head(out) \in Msg
    BY <2>1, HeadTailProperties DEF TypeOK
  <2> DEFINE n == Len(timers)
             us == timers'
  <2>3. \A i \in DOMAIN us : \/ i \in DOMAIN timers /\ us[i] = timers[i]
                             \/ i = n + 1 /\ us[i] = MessageWrite(Head(out))
                             \/ i = n + 2 /\ us[i] = HubWakes
    BY <1>0, <2>1, <2>2, PassedKinds
  <2>4. n \in Nat /\ DOMAIN timers = 1..n
    BY <1>0, LenProperties
  <2>5. /\ IsOf(MessageWrite(Head(out)), "message") /\ ~IsOf(MessageWrite(Head(out)), "hub")
        /\ ~IsOf(MessageWrite(Head(out)), "conversation") /\ ~IsWrite(MessageWrite(Head(out)))
        /\ IsOf(HubWakes, "hub") /\ ~IsOf(HubWakes, "message") /\ ~IsOf(HubWakes, "conversation") /\ ~IsWrite(HubWakes)
    BY DEF IsOf, IsWrite, MessageWrite, HubWakes
  <2> HIDE DEF us, n
  <2>6. ConvWakesLast(us, convYields)
    <3>1. \A i \in DOMAIN us : IsWrite(us[i]) \/ IsOf(us[i], "conversation") => i \in DOMAIN timers /\ us[i] = timers[i]
      BY <2>3, <2>5
    <3>2. ConvWakesLast(timers, convYields)
      BY DEF TurnInv
    <3> QED
      BY <3>1, <3>2 DEF ConvWakesLast
  <2>7. HubWakesLast(us, TRUE)
    <3>1. \A i \in DOMAIN timers : ~IsOf(timers[i], "hub") /\ ~IsOf(timers[i], "message")
      BY <2>1 DEF TurnInv, HubWakesLast
    <3>2. \A i \in DOMAIN us : /\ IsOf(us[i], "hub") => i = n + 2
                               /\ IsOf(us[i], "message") => i = n + 1
      BY <2>3, <2>5, <3>1
    <3>3. n + 1 < n + 2
      BY <2>4
    <3> QED
      BY <3>2, <3>3 DEF HubWakesLast
  <2>8. ~convYields => inTurn = 0 /\ NoWrites(us)
    <3>1. ~convYields => inTurn = 0 /\ NoWrites(timers)
      BY DEF TurnInv
    <3>2. \A i \in DOMAIN us : IsWrite(us[i]) => i \in DOMAIN timers /\ us[i] = timers[i]
      BY <2>3, <2>5
    <3> QED
      BY <3>1, <3>2 DEF NoWrites
  <2>9. NoWrites(us) => MessagesFirst(us)
    BY DEF NoWrites, MessagesFirst
  <2> QED
    BY <1>0, <2>1, <2>6, <2>7, <2>8, <2>9 DEF TurnInv, us
<1>3. CASE FireMessage
  <2>1. timers # <<>> /\ timers' = Tail(timers) /\ hubYields' = hubYields
    BY <1>3 DEF FireMessage
  <2> QED
    BY <1>0, <2>1, TailKinds DEF TurnInv
<1>4. CASE FireHub
  <2>1. timers # <<>> /\ timers' = Tail(timers) /\ hubYields' = FALSE /\ IsOf(Head(timers), "hub")
    BY <1>4 DEF FireHub, IsOf, HubWakes
  <2>2. HubWakesLast(Tail(timers), FALSE)
    BY <1>0, <2>1, TailKinds DEF TurnInv
  <2> QED
    BY <1>0, <2>1, <2>2, TailKinds DEF TurnInv
<1> QED
  BY <1>1, <1>2, <1>3, <1>4 DEF HubStep, Hand, Drop, HubStop

LEMMA TurnRest ==
    TypeOK /\ TurnInv /\ ~convGoesOn /\ (TrySplit \/ FireChunk \/ FireConv \/ ReadDisk \/ ReadDone \/ ConvStop \/ Close)
    => TurnInv'
<1> SUFFICES ASSUME TypeOK, TurnInv, ~convGoesOn,
                    TrySplit \/ FireChunk \/ FireConv \/ ReadDisk \/ ReadDone \/ ConvStop \/ Close
             PROVE  TurnInv'
  OBVIOUS
<1>0. timers \in Seq(TimerType)
  BY DEF TypeOK
<1>1. CASE TrySplit \/ ReadDisk
  <2>1. UNCHANGED <<timers, hubYields, convYields, convGoesOn, inTurn>>
    BY <1>1 DEF TrySplit, ReadDisk, hubVars
  <2> QED
    BY <2>1 DEF TurnInv
<1>2. CASE FireChunk
  <2>1. timers # <<>> /\ timers' = Tail(timers) /\ UNCHANGED <<hubYields, convYields, convGoesOn, inTurn>>
    BY <1>2 DEF FireChunk
  <2> QED
    BY <1>0, <2>1, TailKinds DEF TurnInv
<1>3. CASE FireConv
  <2>1. /\ timers # <<>> /\ timers' = Tail(timers) /\ UNCHANGED <<hubYields, convGoesOn>>
        /\ convYields' = FALSE /\ inTurn' = 0 /\ IsOf(Head(timers), "conversation")
    BY <1>3 DEF FireConv, IsOf, ConvWakes
  <2>2. NoWrites(Tail(timers)) /\ ConvWakesLast(Tail(timers), FALSE) /\ HubWakesLast(Tail(timers), hubYields)
    BY <1>0, <2>1, TailKinds DEF TurnInv
  <2>3. NoWrites(timers') => MessagesFirst(timers')
    BY DEF NoWrites, MessagesFirst
  <2> QED
    BY <2>1, <2>2, <2>3 DEF TurnInv
<1>4. CASE ReadDone \/ ConvStop
  <2>1. PICK ks : timers' = Replaced(timers, ks)
    BY <1>4 DEF ReadDone, ConvStop
  <2>2. UNCHANGED <<hubYields, convYields, convGoesOn, inTurn>>
    BY <1>4 DEF ReadDone, ConvStop
  <2>3. Rewritten(timers, timers')
    BY <1>0, <2>1, ReplacedRewritten
  <2> QED
    BY <2>2, <2>3, RewrittenKinds DEF TurnInv
<1>5. CASE Close
  <2>1. timers' = <<>> /\ convYields' = FALSE /\ convGoesOn' = FALSE /\ inTurn' = 0 /\ hubYields' = FALSE
    BY <1>5 DEF Close, HubClose
  <2> QED
    BY <2>1 DEF TurnInv, NoWrites, MessagesFirst, ConvWakesLast, HubWakesLast
<1> QED
  BY <1>1, <1>2, <1>3, <1>4, <1>5

LEMMA TurnStep == TypeOK /\ TurnInv /\ [Next]_vars => TurnInv'
<1>1. ASSUME TypeOK, TurnInv, Next PROVE TurnInv'
  BY <1>1, NextCases, TurnConv, TurnHub, TurnRest
<1>2. ASSUME TurnInv, UNCHANGED vars PROVE TurnInv'
  BY <1>2 DEF TurnInv, vars, hubVars, convVars
<1> QED
  BY <1>1, <1>2

LEMMA TurnInit == Init => TurnInv
  BY DEF Init, HubInit, TurnInv, NoWrites, MessagesFirst, ConvWakesLast, HubWakesLast

-----------------------------------------------------------------------------
(* What a chunk lists is known, and is not about to be inserted again.     *)

\* The messages whose writes are due before the i-th timer, and all of them.
DueBefore(ts, i) == {ts[j].msg : j \in {j \in DOMAIN ts : j < i /\ IsOf(ts[j], "message")}}
DueIn(ts) == {ts[j].msg : j \in {j \in DOMAIN ts : IsOf(ts[j], "message")}}

\* The messages of a chunk, those of its tail by the key.
Messages(c) == ToSet(c.list) \union UNION {ToSet(t) : t \in c.tailKey}

WritesKnown(ts, on, apart) ==
    \A i \in DOMAIN ts : IsWrite(ts[i]) => Messages(ts[i].chunk) \subseteq (on \union DueBefore(ts, i)) \ apart

FreshInv ==
    /\ \A k \in DOMAIN cache : Messages(cache[k]) \subseteq (knownDisk \union DueIn(timers)) \ ToSet(toConv)
    /\ \A k \in DOMAIN disk : Messages(disk[k]) \subseteq knownDisk \ ToSet(toConv)
    /\ \A r \in read : Messages(r.chunk) \subseteq knownDisk \ ToSet(toConv)
    /\ WritesKnown(timers, knownDisk, ToSet(toConv))
    /\ ToSet(toConv) \subseteq knownDisk \union DueIn(timers)
    /\ IsInjective(toConv)

LEMMA DueIsDue == Due = DueIn(timers)
  BY DEF Due, DueIn, IsOf

LEMMA BeforeIsDue ==
    ASSUME NEW ts, NEW i
    PROVE  DueBefore(ts, i) \subseteq DueIn(ts)
  BY DEF DueBefore, DueIn

LEMMA RewrittenDue ==
    ASSUME NEW ts, NEW us, Rewritten(ts, us)
    PROVE  DueIn(us) = DueIn(ts) /\ \A i : DueBefore(us, i) = DueBefore(ts, i)
<1>1. \A j \in DOMAIN ts : /\ IsOf(us[j], "message") <=> IsOf(ts[j], "message")
                           /\ IsOf(ts[j], "message") => us[j] = ts[j]
  BY DEF Rewritten, IsOf, IsWrite
<1>2. DOMAIN us = DOMAIN ts
  BY DEF Rewritten
<1> QED
  BY <1>1, <1>2 DEF DueIn, DueBefore

\* The first timer has fired.
LEMMA TailDue ==
    ASSUME NEW ts \in Seq(TimerType), ts # <<>>
    PROVE  /\ \A i \in DOMAIN Tail(ts) : i + 1 \in DOMAIN ts /\ Tail(ts)[i] = ts[i + 1]
           /\ IsOf(Head(ts), "message") => /\ DueIn(ts) = DueIn(Tail(ts)) \union {Head(ts).msg}
                                           /\ \A i \in DOMAIN Tail(ts) :
                                                 DueBefore(ts, i + 1) = DueBefore(Tail(ts), i) \union {Head(ts).msg}
           /\ ~IsOf(Head(ts), "message") => /\ DueIn(ts) = DueIn(Tail(ts))
                                            /\ \A i \in DOMAIN Tail(ts) : DueBefore(ts, i + 1) = DueBefore(Tail(ts), i)
           /\ DueBefore(ts, 1) = {}
<1>1. /\ Len(ts) \in Nat /\ Len(ts) >= 1 /\ DOMAIN ts = 1..Len(ts)
      /\ DOMAIN Tail(ts) = 1..Len(ts) - 1 /\ Head(ts) = ts[1]
      /\ \A i \in 1..Len(ts) - 1 : Tail(ts)[i] = ts[i + 1]
  BY HeadTailProperties, LenProperties
<1>2. \A i \in DOMAIN Tail(ts) : i + 1 \in DOMAIN ts /\ Tail(ts)[i] = ts[i + 1]
  BY <1>1
<1>3. \A j \in DOMAIN ts : j = 1 \/ (j - 1 \in DOMAIN Tail(ts) /\ Tail(ts)[j - 1] = ts[j])
  BY <1>1
<1>4. 1 \in DOMAIN ts /\ Head(ts) = ts[1] /\ \A j \in DOMAIN ts : j \in Nat /\ ~(j < 1)
  BY <1>1
<1>5. \A i \in DOMAIN Tail(ts) : 1 < i + 1 /\ \A j \in DOMAIN Tail(ts) : j < i <=> j + 1 < i + 1
  BY <1>1
<1>6. \A i \in DOMAIN Tail(ts) : \A j \in DOMAIN ts : j # 1 => (j < i + 1 <=> j - 1 < i)
  BY <1>1
<1>7. DueBefore(ts, 1) = {}
  BY <1>4 DEF DueBefore
<1>8. DueIn(Tail(ts)) \subseteq DueIn(ts)
  BY <1>2 DEF DueIn
<1>9. DueIn(ts) \subseteq DueIn(Tail(ts)) \union (IF IsOf(ts[1], "message") THEN {ts[1].msg} ELSE {})
  BY <1>3 DEF DueIn
<1>10. IsOf(ts[1], "message") => ts[1].msg \in DueIn(ts)
  BY <1>4 DEF DueIn
<1>11. ASSUME NEW i \in DOMAIN Tail(ts)
       PROVE  /\ DueBefore(Tail(ts), i) \subseteq DueBefore(ts, i + 1)
              /\ DueBefore(ts, i + 1) \subseteq DueBefore(Tail(ts), i) \union (IF IsOf(ts[1], "message") THEN {ts[1].msg} ELSE {})
              /\ IsOf(ts[1], "message") => ts[1].msg \in DueBefore(ts, i + 1)
  <2>1. DueBefore(Tail(ts), i) \subseteq DueBefore(ts, i + 1)
    BY <1>2, <1>5 DEF DueBefore
  <2>2. DueBefore(ts, i + 1) \subseteq DueBefore(Tail(ts), i) \union (IF IsOf(ts[1], "message") THEN {ts[1].msg} ELSE {})
    BY <1>3, <1>6 DEF DueBefore
  <2>3. IsOf(ts[1], "message") => ts[1].msg \in DueBefore(ts, i + 1)
    BY <1>4, <1>5 DEF DueBefore
  <2> QED
    BY <2>1, <2>2, <2>3
<1>12. ASSUME IsOf(Head(ts), "message")
       PROVE  /\ DueIn(ts) = DueIn(Tail(ts)) \union {Head(ts).msg}
              /\ \A i \in DOMAIN Tail(ts) : DueBefore(ts, i + 1) = DueBefore(Tail(ts), i) \union {Head(ts).msg}
  <2>1. Head(ts) = ts[1] /\ IsOf(ts[1], "message")
    BY <1>4, <1>12
  <2>2. DueIn(ts) = DueIn(Tail(ts)) \union {Head(ts).msg}
    BY <1>8, <1>9, <1>10, <2>1
  <2>3. \A i \in DOMAIN Tail(ts) : DueBefore(ts, i + 1) = DueBefore(Tail(ts), i) \union {Head(ts).msg}
    BY <1>11, <2>1
  <2> QED
    BY <2>2, <2>3
<1>13. ASSUME ~IsOf(Head(ts), "message")
       PROVE  /\ DueIn(ts) = DueIn(Tail(ts))
              /\ \A i \in DOMAIN Tail(ts) : DueBefore(ts, i + 1) = DueBefore(Tail(ts), i)
  <2>1. ~IsOf(ts[1], "message")
    BY <1>4, <1>13
  <2>2. DueIn(ts) = DueIn(Tail(ts))
    BY <1>8, <1>9, <2>1
  <2>3. \A i \in DOMAIN Tail(ts) : DueBefore(ts, i + 1) = DueBefore(Tail(ts), i)
    BY <1>11, <2>1
  <2> QED
    BY <2>2, <2>3
<1> QED
  BY <1>2, <1>7, <1>12, <1>13

\* Timers that are no message's come behind.
LEMMA BehindDue ==
    ASSUME NEW ts \in Seq(TimerType), NEW us \in Seq(TimerType), Len(us) >= Len(ts),
           \A i \in 1..Len(ts) : us[i] = ts[i],
           \A i \in Len(ts) + 1..Len(us) : ~IsOf(us[i], "message")
    PROVE  /\ DueIn(us) = DueIn(ts)
           /\ \A i \in 1..Len(ts) : DueBefore(us, i) = DueBefore(ts, i)
           /\ \A i \in Len(ts) + 1..Len(us) : DueBefore(us, i) = DueIn(ts)
<1>1. /\ Len(ts) \in Nat /\ Len(us) \in Nat /\ DOMAIN ts = 1..Len(ts) /\ DOMAIN us = 1..Len(us)
  BY LenProperties
<1>2. \A j \in DOMAIN us : IsOf(us[j], "message") => j \in DOMAIN ts
  BY <1>1
<1>3. \A j \in DOMAIN ts : j \in DOMAIN us /\ us[j] = ts[j]
  BY <1>1
<1>4. DueIn(us) = DueIn(ts)
  BY <1>2, <1>3 DEF DueIn
<1>5. \A i \in 1..Len(ts) : DueBefore(us, i) = DueBefore(ts, i)
  BY <1>2, <1>3 DEF DueBefore
<1>6. \A i \in Len(ts) + 1..Len(us) : \A j \in DOMAIN ts : j < i
  BY <1>1
<1>7. \A i \in Len(ts) + 1..Len(us) : DueBefore(us, i) = DueIn(ts)
  BY <1>2, <1>3, <1>6 DEF DueBefore, DueIn
<1> QED
  BY <1>4, <1>5, <1>7

LEMMA FreshInit == Init => FreshInv
<1> SUFFICES ASSUME Init PROVE FreshInv
  OBVIOUS
<1>1. cache = NoChunks /\ disk = NoChunks /\ timers = <<>> /\ toConv = <<>> /\ read = {} /\ DOMAIN NoChunks = {}
  BY NoChunksTypes DEF Init, HubInit
<1>2. ToSet(<<>>) = {} /\ IsInjective(<<>>) /\ DOMAIN <<>> = {}
  BY DEF ToSet, IsInjective
<1> QED
  BY <1>1, <1>2 DEF FreshInv, WritesKnown

\* Whatever leaves the variables of the invariant alone.
LEMMA FreshStill ==
    ASSUME FreshInv, UNCHANGED <<cache, disk, read, timers, knownDisk, toConv>>
    PROVE  FreshInv'
  BY DEF FreshInv

\* The writes after the first timer has fired.
LEMMA FreshTail ==
    ASSUME NEW ts \in Seq(TimerType), ts # <<>>, NEW on, NEW apart, WritesKnown(ts, on, apart)
    PROVE  /\ ~IsOf(Head(ts), "message") => WritesKnown(Tail(ts), on, apart)
           /\ IsOf(Head(ts), "message") => WritesKnown(Tail(ts), on \union {Head(ts).msg}, apart)
<1>1. \A i \in DOMAIN Tail(ts) : i + 1 \in DOMAIN ts /\ Tail(ts)[i] = ts[i + 1]
  BY TailDue
<1>2. ASSUME ~IsOf(Head(ts), "message") PROVE WritesKnown(Tail(ts), on, apart)
  <2>1. \A i \in DOMAIN Tail(ts) : DueBefore(ts, i + 1) = DueBefore(Tail(ts), i)
    BY <1>2, TailDue
  <2> QED
    BY <1>1, <2>1 DEF WritesKnown
<1>3. ASSUME IsOf(Head(ts), "message") PROVE WritesKnown(Tail(ts), on \union {Head(ts).msg}, apart)
  <2>1. \A i \in DOMAIN Tail(ts) : DueBefore(ts, i + 1) = DueBefore(Tail(ts), i) \union {Head(ts).msg}
    BY <1>3, TailDue
  <2> QED
    BY <1>1, <2>1 DEF WritesKnown
<1> QED
  BY <1>2, <1>3

LEMMA FreshHub == TypeOK /\ TurnInv /\ FreshInv /\ HubStep /\ UNCHANGED convVars => FreshInv'
<1> SUFFICES ASSUME TypeOK, TurnInv, FreshInv, HubStep, UNCHANGED convVars PROVE FreshInv'
  OBVIOUS
<1>0. cache' = cache /\ disk' = disk /\ read' = read /\ timers \in Seq(TimerType) /\ toConv \in Seq(Msg)
  BY DEF convVars, TypeOK
<1>1. CASE UNCHANGED <<timers, knownDisk, toConv>>
  BY <1>0, <1>1, FreshStill
<1>2. CASE PassOn
  <2> DEFINE m == Head(out)
             us == timers'
             n == Len(timers)
  <2>1. /\ ~hubYields /\ m \notin knownDisk /\ toConv' = Append(toConv, m) /\ knownDisk' = knownDisk
        /\ out # <<>> /\ us = timers \o <<MessageWrite(m), HubWakes>>
    BY <1>2 DEF PassOn, Known
  <2>2. m \in Msg
    BY <2>1, HeadTailProperties DEF TypeOK
  <2>3. DueIn(timers) = {} /\ \A i : DueBefore(timers, i) = {}
    BY <2>1 DEF TurnInv, HubWakesLast, DueIn, DueBefore
  <2>4. /\ \A i \in DOMAIN us : \/ i \in DOMAIN timers /\ us[i] = timers[i]
                                \/ i = n + 1 /\ us[i] = MessageWrite(m)
                                \/ i = n + 2 /\ us[i] = HubWakes
        /\ us \in Seq(TimerType) /\ Len(us) = n + 2 /\ us[n + 1] = MessageWrite(m)
    <3>1. timers \in Seq(TimerType) /\ us = timers \o <<MessageWrite(m), HubWakes>>
      BY <1>0, <2>1
    <3>2. \A i \in DOMAIN us : \/ i \in DOMAIN timers /\ us[i] = timers[i]
                               \/ i = n + 1 /\ us[i] = MessageWrite(m)
                               \/ i = n + 2 /\ us[i] = HubWakes
      BY <2>2, <3>1, PassedKinds
    <3>3. us \in Seq(TimerType) /\ Len(us) = n + 2
      BY <2>2, <3>1, PassedKinds
    <3>4. us[n + 1] = MessageWrite(m)
      BY <2>2, <3>1, PassedKinds
    <3> QED
      BY <3>2, <3>3, <3>4
  <2>5. ToSet(toConv') = ToSet(toConv) \union {m} /\ IsInjective(toConv')
    <3>1. /\ Len(toConv) \in Nat /\ DOMAIN toConv = 1..Len(toConv)
          /\ DOMAIN toConv' = 1..Len(toConv) + 1 /\ toConv'[Len(toConv) + 1] = m
          /\ \A i \in 1..Len(toConv) : toConv'[i] = toConv[i]
      BY <1>0, <2>1, <2>2, AppendProperties, LenProperties
    <3>2. \A i \in DOMAIN toConv' : (i \in DOMAIN toConv /\ toConv'[i] = toConv[i]) \/ (i = Len(toConv) + 1 /\ toConv'[i] = m)
      BY <3>1
    <3>3. \A i \in DOMAIN toConv : i \in DOMAIN toConv' /\ toConv'[i] = toConv[i]
      BY <3>1
    <3>4. Len(toConv) + 1 \in DOMAIN toConv'
      BY <3>1
    <3>5. ToSet(toConv') = ToSet(toConv) \union {m}
      BY <3>1, <3>2, <3>3, <3>4 DEF ToSet
    <3>6. m \notin ToSet(toConv)
      BY <2>1, <2>3 DEF FreshInv
    <3>7. \A i \in DOMAIN toConv : toConv[i] # m
      BY <3>6 DEF ToSet
    <3>8. IsInjective(toConv')
      BY <3>2, <3>7 DEF FreshInv, IsInjective
    <3> QED
      BY <3>5, <3>8
  <2>6. m \in DueIn(us)
    <3>1. n + 1 \in DOMAIN us /\ IsOf(us[n + 1], "message") /\ us[n + 1].msg = m
      BY <1>0, <2>4, LenProperties DEF MessageWrite, IsOf
    <3> QED
      BY <3>1 DEF DueIn
  <2>7. WritesKnown(us, knownDisk, ToSet(toConv'))
    <3>1. \A i \in DOMAIN us : IsWrite(us[i]) => i \in DOMAIN timers /\ us[i] = timers[i]
      BY <2>4 DEF IsWrite, MessageWrite, HubWakes
    <3>2. \A i \in DOMAIN timers : IsWrite(timers[i]) => Messages(timers[i].chunk) \subseteq knownDisk \ ToSet(toConv)
      BY <2>3 DEF FreshInv, WritesKnown
    <3>3. \A i \in DOMAIN us : IsWrite(us[i]) => Messages(us[i].chunk) \subseteq knownDisk \ ToSet(toConv')
      BY <2>1, <2>5, <3>1, <3>2
    <3> QED
      BY <3>3 DEF WritesKnown
  <2> HIDE DEF m, us
  <2>8. /\ \A k \in DOMAIN cache : Messages(cache[k]) \subseteq (knownDisk \union DueIn(us)) \ ToSet(toConv')
        /\ \A k \in DOMAIN disk : Messages(disk[k]) \subseteq knownDisk \ ToSet(toConv')
        /\ \A r \in read : Messages(r.chunk) \subseteq knownDisk \ ToSet(toConv')
    BY <2>1, <2>3, <2>5 DEF FreshInv
  <2>9. ToSet(toConv') \subseteq knownDisk \union DueIn(us)
    BY <2>3, <2>5, <2>6 DEF FreshInv
  <2> QED
    BY <1>0, <2>1, <2>5, <2>7, <2>8, <2>9 DEF FreshInv, us
<1>3. CASE FireMessage
  <2> DEFINE m == Head(timers).msg
  <2>1. /\ timers # <<>> /\ timers' = Tail(timers) /\ knownDisk' = knownDisk \union {m} /\ toConv' = toConv
        /\ IsOf(Head(timers), "message")
    BY <1>3 DEF FireMessage, IsOf
  <2>2. DueIn(timers) = DueIn(timers') \union {m}
    BY <1>0, <2>1, TailDue
  <2>3. WritesKnown(timers', knownDisk', ToSet(toConv'))
    BY <1>0, <2>1, FreshTail DEF FreshInv
  <2> HIDE DEF m
  <2> QED
    BY <1>0, <2>1, <2>2, <2>3 DEF FreshInv
<1>4. CASE FireHub
  <2>1. /\ timers # <<>> /\ timers' = Tail(timers) /\ knownDisk' = knownDisk /\ toConv' = toConv
        /\ ~IsOf(Head(timers), "message")
    BY <1>4 DEF FireHub, IsOf, HubWakes
  <2>2. DueIn(timers) = DueIn(timers')
    BY <1>0, <2>1, TailDue
  <2>3. WritesKnown(timers', knownDisk', ToSet(toConv'))
    BY <1>0, <2>1, FreshTail DEF FreshInv
  <2> QED
    BY <1>0, <2>1, <2>2, <2>3 DEF FreshInv
<1> QED
  BY <1>1, <1>2, <1>3, <1>4 DEF HubStep, Hand, Drop, HubStop

\* What is put into a list.
LEMMA InsertedAt ==
    ASSUME NEW list \in Seq(Msg), NEW m \in Msg, NEW p \in 1..Len(list) + 1
    PROVE  /\ InsertAt(list, p, m) \in Seq(Msg) /\ Len(InsertAt(list, p, m)) = Len(list) + 1 /\ Len(list) \in Nat
           /\ \A i \in 1..p - 1 : InsertAt(list, p, m)[i] = list[i]
           /\ InsertAt(list, p, m)[p] = m
           /\ \A i \in p + 1..Len(list) + 1 : InsertAt(list, p, m)[i] = list[i - 1]
<1> DEFINE n  == Len(list)
           s1 == SubSeq(list, 1, p - 1)
           s2 == s1 \o <<m>>
           s3 == SubSeq(list, p, n)
           s  == s2 \o s3
<1>1. n \in Nat /\ p \in Nat /\ 1 <= p /\ p <= n + 1 /\ \A i \in 1..n : list[i] \in Msg
  BY LenProperties, ElementOfSeq
<1>2. s1 \in Seq(Msg) /\ Len(s1) = p - 1 /\ \A i \in 1..p - 1 : s1[i] = list[i]
  <2>1. \A i \in 1..p - 1 : list[i] \in Msg /\ 1 + i - 1 = i
    BY <1>1
  <2>2. p - 1 \in Int /\ 1 \in Int /\ (p - 1) - 1 + 1 = p - 1 /\ (1 <= p - 1 \/ p - 1 = 0)
    BY <1>1
  <2> QED
    BY <2>1, <2>2, SubSeqProperties
<1>3. s3 \in Seq(Msg) /\ Len(s3) = n - p + 1 /\ \A i \in 1..n - p + 1 : s3[i] = list[p + i - 1]
  <2>1. \A i \in p..n : list[i] \in Msg
    BY <1>1
  <2>2. p \in Int /\ n \in Int /\ (p <= n \/ n - p + 1 = 0)
    BY <1>1
  <2> QED
    BY <2>1, <2>2, SubSeqProperties
<1> HIDE DEF s1, s3
<1>4. s2 \in Seq(Msg) /\ Len(s2) = p /\ s2[p] = m /\ \A i \in 1..p - 1 : s2[i] = list[i]
  <2>1. s2 \in Seq(Msg) /\ Len(s2) = Len(s1) + 1 /\ s2[Len(s1) + 1] = m /\ \A i \in 1..Len(s1) : s2[i] = s1[i]
    BY <1>2, AfterOne
  <2>2. Len(s1) + 1 = p
    BY <1>1, <1>2
  <2> QED
    BY <1>2, <2>1, <2>2
<1> HIDE DEF s2
<1>5. /\ s \in Seq(Msg) /\ Len(s) = p + (n - p + 1)
      /\ \A i \in 1..p : s[i] = s2[i]
      /\ \A i \in 1..n - p + 1 : s[p + i] = s3[i]
  <2> HIDE DEF s
  <2>1. s2 \in Seq(Msg) /\ s3 \in Seq(Msg) /\ s = s2 \o s3
    BY <1>3, <1>4 DEF s
  <2>2. /\ s \in Seq(Msg) /\ Len(s) = Len(s2) + Len(s3)
        /\ \A i \in 1..Len(s2) : s[i] = s2[i]
        /\ \A i \in 1..Len(s3) : s[Len(s2) + i] = s3[i]
    BY ONLY <2>1, After
  <2> QED
    BY <1>3, <1>4, <2>2
<1>6. Len(s) = n + 1
  BY <1>1, <1>5
<1>7. \A i \in 1..p - 1 : s[i] = list[i]
  BY <1>1, <1>4, <1>5
<1>8. s[p] = m
  BY <1>1, <1>4, <1>5
<1>9. ASSUME NEW i \in p + 1..n + 1 PROVE s[i] = list[i - 1]
  <2>1. i - p \in 1..n - p + 1 /\ p + (i - p) = i /\ p + (i - p) - 1 = i - 1
    BY <1>1
  <2>2. s[p + (i - p)] = s3[i - p] /\ s3[i - p] = list[p + (i - p) - 1]
    BY <1>3, <1>5, <2>1
  <2> QED
    BY <2>1, <2>2
<1>10. InsertAt(list, p, m) = s
  BY DEF InsertAt, s1, s2, s3
<1> QED
  BY <1>1, <1>5, <1>6, <1>7, <1>8, <1>9, <1>10

LEMMA InsertedSet ==
    ASSUME NEW list \in Seq(Msg), NEW m \in Msg, NEW p \in 1..Len(list) + 1
    PROVE  ToSet(InsertAt(list, p, m)) = ToSet(list) \union {m}
<1> DEFINE s == InsertAt(list, p, m)
           n == Len(list)
<1>1. /\ s \in Seq(Msg) /\ Len(s) = n + 1 /\ n \in Nat
      /\ \A i \in 1..p - 1 : s[i] = list[i]
      /\ s[p] = m
      /\ \A i \in p + 1..n + 1 : s[i] = list[i - 1]
  BY InsertedAt
<1>2. DOMAIN s = 1..n + 1 /\ DOMAIN list = 1..n
  BY <1>1, LenProperties
<1> HIDE DEF s, n
<1>p. p \in 1..n + 1
  BY DEF n
<1>3. \A i \in DOMAIN s : i = p \/ (i \in DOMAIN list /\ s[i] = list[i]) \/ (i - 1 \in DOMAIN list /\ s[i] = list[i - 1])
  BY <1>1, <1>2, <1>p
<1>4. \A i \in DOMAIN list : (i \in DOMAIN s /\ s[i] = list[i]) \/ (i + 1 \in DOMAIN s /\ s[i + 1] = list[i])
  <2> SUFFICES ASSUME NEW i \in DOMAIN list
               PROVE  (i \in DOMAIN s /\ s[i] = list[i]) \/ (i + 1 \in DOMAIN s /\ s[i + 1] = list[i])
    OBVIOUS
  <2>1. CASE i < p
    BY <1>1, <1>2, <1>p, <2>1
  <2>2. CASE ~(i < p)
    <3>1. i + 1 \in p + 1..n + 1 /\ i + 1 - 1 = i
      BY <1>1, <1>2, <1>p, <2>2
    <3> QED
      BY <1>1, <1>2, <3>1
  <2> QED
    BY <2>1, <2>2
<1>5. p \in DOMAIN s
  BY <1>2, <1>p
<1>6. ToSet(s) \subseteq ToSet(list) \union {m}
  BY <1>1, <1>3 DEF ToSet
<1>7. ToSet(list) \union {m} \subseteq ToSet(s)
  BY <1>1, <1>4, <1>5 DEF ToSet
<1> QED
  BY <1>6, <1>7 DEF s

\* The rest of a sequence without repetitions.
LEMMA TailSet ==
    ASSUME NEW T, NEW s \in Seq(T), s # <<>>, IsInjective(s)
    PROVE  Head(s) \in ToSet(s) /\ ToSet(Tail(s)) = ToSet(s) \ {Head(s)} /\ IsInjective(Tail(s))
<1>1. /\ Len(s) \in Nat /\ Len(s) >= 1 /\ DOMAIN s = 1..Len(s)
      /\ DOMAIN Tail(s) = 1..Len(s) - 1 /\ Head(s) = s[1]
      /\ \A i \in 1..Len(s) - 1 : Tail(s)[i] = s[i + 1]
  BY HeadTailProperties, LenProperties
<1>2. \A i \in DOMAIN Tail(s) : i + 1 \in DOMAIN s /\ Tail(s)[i] = s[i + 1] /\ i + 1 # 1 /\ i \in Int
  BY <1>1
<1>3. \A j \in DOMAIN s : j = 1 \/ (j - 1 \in DOMAIN Tail(s) /\ Tail(s)[j - 1] = s[j])
  BY <1>1
<1>4. 1 \in DOMAIN s
  BY <1>1
<1>5. \A i \in DOMAIN Tail(s) : Tail(s)[i] # s[1]
  BY <1>2, <1>4 DEF IsInjective
<1>6. ToSet(Tail(s)) \subseteq ToSet(s) \ {Head(s)}
  BY <1>1, <1>2, <1>5 DEF ToSet
<1>7. ToSet(s) \ {Head(s)} \subseteq ToSet(Tail(s))
  <2> SUFFICES ASSUME NEW j \in DOMAIN s, s[j] # Head(s)
               PROVE  s[j] \in ToSet(Tail(s))
    BY DEF ToSet
  <2>1. j # 1
    BY <1>1
  <2> QED
    BY <1>3, <2>1 DEF ToSet
<1>8. IsInjective(Tail(s))
  <2> SUFFICES ASSUME NEW i \in DOMAIN Tail(s), NEW j \in DOMAIN Tail(s), Tail(s)[i] = Tail(s)[j]
               PROVE  i = j
    BY DEF IsInjective
  <2>1. i + 1 = j + 1
    BY <1>2 DEF IsInjective
  <2> QED
    BY <1>2, <2>1
<1> QED
  BY <1>1, <1>4, <1>6, <1>7, <1>8 DEF ToSet

\* Every write is of messages in S.
AllWithin(ts, S) == \A i \in DOMAIN ts : IsWrite(ts[i]) => Messages(ts[i].chunk) \subseteq S

LEMMA KnownFirst ==
    ASSUME NEW ts, NEW on, NEW apart, MessagesFirst(ts), AllWithin(ts, (on \union DueIn(ts)) \ apart)
    PROVE  WritesKnown(ts, on, apart)
<1>1. \A i \in DOMAIN ts : IsWrite(ts[i]) => DueIn(ts) \subseteq DueBefore(ts, i)
  BY DEF MessagesFirst, DueIn, DueBefore
<1> QED
  BY <1>1 DEF WritesKnown, AllWithin

\* The writes ws come behind those there were, as they are now.
LEMMA FreshWritten ==
    ASSUME TypeOK, TurnInv, ~convYields, NEW ts \in Seq(TimerType), NEW ws \in Seq(TimerType), Rewritten(timers, ts),
           \A i \in DOMAIN ws : IsWrite(ws[i]), NEW S, AllWithin(ts, S), AllWithin(ws, S),
           NEW apart, S \subseteq (knownDisk \union DueIn(timers)) \ apart,
           NEW us, us = ts \o ws \/ us = (ts \o ws) \o <<ConvWakes>>
    PROVE  DueIn(us) = DueIn(timers) /\ WritesKnown(us, knownDisk, apart)
<1>1. MessagesFirst(us)
  <2>1. MessagesFirst(ts)
    BY RewrittenKinds DEF TurnInv
  <2> QED
    BY <2>1, WritesBehind
<1> DEFINE vs == ts \o ws
<1>2. /\ vs \in Seq(TimerType) /\ Len(vs) = Len(ts) + Len(ws) /\ Len(ts) \in Nat /\ Len(ws) \in Nat
      /\ \A i \in 1..Len(ts) : vs[i] = ts[i]
      /\ \A i \in 1..Len(ws) : vs[Len(ts) + i] = ws[i]
  BY After
<1>3. DOMAIN ts = 1..Len(ts) /\ DOMAIN ws = 1..Len(ws) /\ DOMAIN vs = 1..Len(ts) + Len(ws)
  BY <1>2, LenProperties
<1> HIDE DEF vs
<1>4. \A i \in DOMAIN vs : (i \in DOMAIN ts /\ vs[i] = ts[i]) \/ (i - Len(ts) \in DOMAIN ws /\ vs[i] = ws[i - Len(ts)])
  <2> SUFFICES ASSUME NEW i \in DOMAIN vs, i \notin DOMAIN ts
               PROVE  i - Len(ts) \in DOMAIN ws /\ vs[i] = ws[i - Len(ts)]
    BY <1>2, <1>3
  <2>1. i - Len(ts) \in 1..Len(ws) /\ Len(ts) + (i - Len(ts)) = i
    BY <1>2, <1>3
  <2> QED
    BY <1>2, <1>3, <2>1
<1>5. AllWithin(vs, S)
  BY <1>4 DEF AllWithin
<1>6. \A i \in Len(ts) + 1..Len(vs) : ~IsOf(vs[i], "message")
  <2>1. \A i \in Len(ts) + 1..Len(vs) : i \in DOMAIN vs /\ i \notin DOMAIN ts
    BY <1>2, <1>3
  <2>2. \A i \in Len(ts) + 1..Len(vs) : IsWrite(vs[i])
    BY <1>4, <2>1
  <2> QED
    BY <2>2 DEF IsWrite, IsOf
<1>7. DueIn(vs) = DueIn(timers)
  <2>1. Len(vs) >= Len(ts)
    BY <1>2
  <2>2. DueIn(vs) = DueIn(ts)
    BY <1>2, <1>6, <2>1, BehindDue
  <2> QED
    BY <2>2, RewrittenDue
<1>8. CASE us = vs
  BY <1>1, <1>5, <1>7, <1>8, KnownFirst DEF AllWithin
<1>9. CASE us = vs \o <<ConvWakes>>
  <2>1. /\ us \in Seq(TimerType) /\ Len(us) = Len(vs) + 1 /\ Len(vs) \in Nat
        /\ DOMAIN us = 1..Len(vs) + 1 /\ DOMAIN vs = 1..Len(vs)
        /\ \A i \in 1..Len(vs) : us[i] = vs[i]
        /\ us[Len(vs) + 1] = ConvWakes
    <3>1. vs \in Seq(TimerType) /\ ConvWakes \in TimerType /\ us = vs \o <<ConvWakes>>
      BY <1>2, <1>9, NewTimers
    <3> QED
      BY ONLY <3>1, AfterOne
  <2>2. ~IsOf(ConvWakes, "message") /\ ~IsWrite(ConvWakes)
    BY DEF ConvWakes, IsOf, IsWrite
  <2>3. \A i \in DOMAIN us : (i \in DOMAIN vs /\ us[i] = vs[i]) \/ us[i] = ConvWakes
    BY <2>1
  <2>4. AllWithin(us, S)
    BY <1>5, <2>2, <2>3 DEF AllWithin
  <2>5. \A i \in Len(vs) + 1..Len(us) : ~IsOf(us[i], "message")
    BY <2>1, <2>2
  <2>6. Len(us) >= Len(vs)
    BY <2>1
  <2>7. DueIn(us) = DueIn(timers)
    BY <1>2, <1>7, <2>1, <2>5, <2>6, BehindDue
  <2> QED
    BY <1>1, <2>4, <2>7, KnownFirst DEF AllWithin
<1> QED
  BY <1>8, <1>9 DEF vs

ListedNow == (knownDisk \union DueIn(timers)) \ ToSet(toConv)

LEMMA ChunkListed ==
    ASSUME FreshInv, NEW k
    PROVE  Messages(Chunk(k)) \subseteq ListedNow
<1>1. Messages(Empty) = {}
  BY DEF Messages, Empty, ToSet
<1> QED
  BY <1>1 DEF FreshInv, ListedNow, Chunk

\* The parts of a split list nothing new.
LEMMA PartMessages ==
    ASSUME TypeOK, Len(First.list) > SplitThreshold
    PROVE  /\ Messages(Rest(First, CutKey)) \subseteq Messages(First)
           /\ Messages(OnePart) \subseteq Messages(First)
           /\ Messages(Leaving) \subseteq Messages(First)
           /\ \A tk \in First.tailKey : /\ Messages(Part(tk)) \subseteq Messages(First)
                                        /\ Messages(Tailed(tk)) = Messages(Chunk(tk))
<1>1. /\ CutKey \in Seq(Msg) /\ Len(CutKey) = ChunkSize /\ ChunkSize \in Nat
      /\ Len(First.list) \in Nat /\ ChunkSize < Len(First.list)
      /\ \A i \in 1..ChunkSize : CutKey[i] = First.list[i]
      /\ Rest(First, CutKey) \in ChunkType /\ Rest(First, CutKey).tailKey = {CutKey}
      /\ Len(Rest(First, CutKey).list) = Len(First.list) - ChunkSize
      /\ \A i \in 1..Len(First.list) - ChunkSize : Rest(First, CutKey).list[i] = First.list[ChunkSize + i]
  BY CutProperties
<1>2. First.list \in Seq(Msg) /\ Rest(First, CutKey).list \in Seq(Msg)
  BY <1>1, ChunkTypes DEF First, ChunkType
<1>3. /\ DOMAIN First.list = 1..Len(First.list) /\ DOMAIN CutKey = 1..ChunkSize
      /\ DOMAIN Rest(First, CutKey).list = 1..Len(First.list) - ChunkSize
  BY <1>1, <1>2, LenProperties
<1>4. ToSet(CutKey) \subseteq ToSet(First.list)
  <2>1. \A i \in DOMAIN CutKey : i \in DOMAIN First.list /\ CutKey[i] = First.list[i]
    BY <1>1, <1>3
  <2> QED
    BY <2>1 DEF ToSet
<1>5. ToSet(Rest(First, CutKey).list) \subseteq ToSet(First.list)
  <2>1. \A i \in DOMAIN Rest(First, CutKey).list :
           ChunkSize + i \in DOMAIN First.list /\ Rest(First, CutKey).list[i] = First.list[ChunkSize + i]
    BY <1>1, <1>3
  <2> QED
    BY <2>1 DEF ToSet
<1>6. Messages(Rest(First, CutKey)) \subseteq Messages(First)
  BY <1>1, <1>4, <1>5 DEF Messages
<1>7. Messages(OnePart) \subseteq Messages(First)
  BY <1>4 DEF Messages, OnePart
<1>8. Messages(Leaving) \subseteq Messages(First)
  BY <1>4, PartTypes DEF Messages
<1>9. ASSUME NEW tk \in First.tailKey
      PROVE  Messages(Part(tk)) \subseteq Messages(First) /\ Messages(Tailed(tk)) = Messages(Chunk(tk))
  <2>1. Messages(Part(tk)) \subseteq Messages(First)
    BY <1>4 DEF Messages, Part
  <2>2. Messages(Tailed(tk)) = Messages(Chunk(tk))
    BY PartTypes DEF Messages
  <2> QED
    BY <2>1, <2>2
<1> QED
  BY <1>6, <1>7, <1>8, <1>9

\* What the writes are of after an object has changed, or was replaced.
LEMMA ChangedWithin ==
    ASSUME NEW ts \in Seq(TimerType), NEW k \in Seq(Msg), NEW c \in ChunkType, NEW S,
           AllWithin(ts, S), Messages(c) \subseteq S
    PROVE  AllWithin(Changed(ts, k, c), S)
<1>1. /\ DOMAIN Changed(ts, k, c) = DOMAIN ts
      /\ \A i \in DOMAIN ts :
            Changed(ts, k, c)[i] = IF ts[i].kind = "chunk" /\ ts[i].key = k THEN ChunkWrite(k, c) ELSE ts[i]
  BY DEF Changed
<1>2. ChunkWrite(k, c).chunk = c
  BY DEF ChunkWrite
<1> QED
  BY <1>1, <1>2 DEF AllWithin

LEMMA ReplacedWithin ==
    ASSUME NEW ts \in Seq(TimerType), NEW ks
    PROVE  /\ \A i \in DOMAIN ts : IsWrite(ts[i]) => Replaced(ts, ks)[i].chunk = ts[i].chunk
           /\ \A S : AllWithin(ts, S) => AllWithin(Replaced(ts, ks), S)
<1>1. /\ DOMAIN Replaced(ts, ks) = DOMAIN ts
      /\ \A i \in DOMAIN ts :
            Replaced(ts, ks)[i] = IF ts[i].kind = "chunk" /\ ts[i].key \in ks THEN [ts[i] EXCEPT !.kind = "past"]
                                  ELSE ts[i]
  BY DEF Replaced
<1>2. \A i \in DOMAIN ts : ts[i] \in TimerType
  BY LenProperties, ElementOfSeq
<1>3. \A i \in DOMAIN ts : ts[i].kind = "chunk" => [ts[i] EXCEPT !.kind = "past"].chunk = ts[i].chunk
  BY <1>2, PastProperties
<1>4. \A i \in DOMAIN ts : IsWrite(ts[i]) => Replaced(ts, ks)[i].chunk = ts[i].chunk
  BY <1>1, <1>3
<1>5. \A i \in DOMAIN ts : IsWrite(Replaced(ts, ks)[i]) => IsWrite(ts[i])
  BY <1>1 DEF IsWrite
<1> QED
  BY <1>1, <1>4, <1>5 DEF AllWithin

LEMMA TimersWithin ==
    ASSUME FreshInv, NEW S, (knownDisk \union DueIn(timers)) \ ToSet(toConv) \subseteq S
    PROVE  AllWithin(timers, S)
  BY BeforeIsDue DEF FreshInv, WritesKnown, AllWithin

\* A step that changes the cache and the writes.
LEMMA FreshPut ==
    ASSUME FreshInv, UNCHANGED <<disk, read, knownDisk>>, ToSet(toConv') \subseteq ToSet(toConv), IsInjective(toConv'),
           DueIn(timers') = DueIn(timers), WritesKnown(timers', knownDisk, ToSet(toConv')),
           \A k \in DOMAIN cache' : Messages(cache'[k]) \subseteq (knownDisk \union DueIn(timers)) \ ToSet(toConv')
    PROVE  FreshInv'
<1>1. /\ \A k \in DOMAIN disk : Messages(disk[k]) \subseteq knownDisk \ ToSet(toConv')
      /\ \A r \in read : Messages(r.chunk) \subseteq knownDisk \ ToSet(toConv')
      /\ ToSet(toConv') \subseteq knownDisk \union DueIn(timers)
  BY DEF FreshInv
<1> QED
  BY <1>1 DEF FreshInv

LEMMA FreshInsert == TypeOK /\ TurnInv /\ FreshInv /\ Insert => FreshInv' /\ DueIn(timers') = DueIn(timers)
<1> SUFFICES ASSUME TypeOK, TurnInv, FreshInv, Insert PROVE FreshInv' /\ DueIn(timers') = DueIn(timers)
  OBVIOUS
<1> DEFINE m == Head(toConv)
           c == [First EXCEPT !.list = Entered(@, m)]
           S == (knownDisk \union DueIn(timers)) \ ToSet(toConv')
           ts == Changed(timers, HeadKey, c)
           ws == <<ChunkWrite(HeadKey, c)>>
<1>1. toConv \in Seq(Msg) /\ toConv # <<>> /\ timers \in Seq(TimerType) /\ IsInjective(toConv)
  BY DEF TypeOK, Insert, FreshInv
<1>2. m \in Msg /\ m \in ToSet(toConv) /\ ToSet(Tail(toConv)) = ToSet(toConv) \ {m} /\ IsInjective(Tail(toConv))
  BY <1>1, HeadTailProperties, TailSet
<1>3. First \in ChunkType /\ First.list \in Seq(Msg)
  BY ChunkTypes DEF First, ChunkType
<1>4. Entered(First.list, m) \in Seq(Msg) /\ ToSet(Entered(First.list, m)) = ToSet(First.list) \union {m}
  BY <1>2, <1>3, EnteredPlace, InsertedSet
<1>5. c \in ChunkType /\ c.list = Entered(First.list, m) /\ c.tailKey = First.tailKey
  BY <1>3, <1>4 DEF ChunkType
<1>6. /\ ~convYields /\ toConv' = Tail(toConv) /\ cache' = Put(cache, HeadKey, c)
      /\ timers' = Changed(timers, HeadKey, c) \o <<ChunkWrite(HeadKey, c), ConvWakes>>
      /\ UNCHANGED <<disk, read, knownDisk>>
  BY DEF Insert, First
<1> HIDE DEF c, m
<1>7. Messages(c) = Messages(First) \union {m}
  BY <1>4, <1>5 DEF Messages
<1>8. Messages(c) \subseteq S
  <2>1. m \in knownDisk \union DueIn(timers)
    BY <1>2 DEF FreshInv
  <2>2. Messages(First) \subseteq ListedNow
    BY ChunkListed DEF First
  <2> QED
    BY <1>2, <1>6, <1>7, <2>1, <2>2 DEF ListedNow
<1>9. (knownDisk \union DueIn(timers)) \ ToSet(toConv) \subseteq S
  BY <1>2, <1>6
<1> HIDE DEF S
<1>10. ts \in Seq(TimerType) /\ Rewritten(timers, ts) /\ AllWithin(ts, S)
  <2>1. AllWithin(timers, S)
    BY <1>9, TimersWithin
  <2> QED
    BY <1>1, <1>5, <1>8, <2>1, EmptyTypes, ChangedTypes, ChangedRewritten, ChangedWithin
<1>11. ws \in Seq(TimerType) /\ (\A i \in DOMAIN ws : IsWrite(ws[i])) /\ AllWithin(ws, S)
  <2>1. ChunkWrite(HeadKey, c) \in TimerType /\ IsWrite(ChunkWrite(HeadKey, c)) /\ ChunkWrite(HeadKey, c).chunk = c
    BY <1>5, EmptyTypes, NewTimers DEF IsWrite, ChunkWrite
  <2>2. DOMAIN ws = {1} /\ ws[1] = ChunkWrite(HeadKey, c)
    OBVIOUS
  <2> QED
    BY <1>8, <2>1, <2>2 DEF AllWithin
<1>12. timers' = (ts \o ws) \o <<ConvWakes>>
  <2>1. ChunkWrite(HeadKey, c) \in TimerType
    BY <1>5, EmptyTypes, NewTimers
  <2> QED
    BY <1>6, <1>10, <2>1, WriteThenWake
<1> HIDE DEF ts, ws
<1>13. S \subseteq (knownDisk \union DueIn(timers)) \ ToSet(toConv')
  BY DEF S
<1>14. DueIn(timers') = DueIn(timers) /\ WritesKnown(timers', knownDisk, ToSet(toConv'))
  BY <1>6, <1>10, <1>11, <1>12, <1>13, FreshWritten
<1>15. \A k \in DOMAIN cache' : Messages(cache'[k]) \subseteq S
  <2>1. \A k \in DOMAIN cache : Messages(cache[k]) \subseteq S
    BY <1>9 DEF FreshInv
  <2> QED
    BY <1>6, <1>8, <2>1 DEF Put
<1> QED
  BY <1>2, <1>6, <1>14, <1>15, FreshPut DEF S

LEMMA FreshSplit ==
    TypeOK /\ TurnInv /\ FreshInv /\ (NoSplit \/ SplitFirst \/ SplitAgain) => FreshInv' /\ DueIn(timers') = DueIn(timers)
<1> SUFFICES ASSUME TypeOK, TurnInv, FreshInv, NoSplit \/ SplitFirst \/ SplitAgain
             PROVE  FreshInv' /\ DueIn(timers') = DueIn(timers)
  OBVIOUS
<1> DEFINE S == ListedNow
<1>0. timers \in Seq(TimerType) /\ AllWithin(timers, S) /\ \A k : Messages(Chunk(k)) \subseteq S
  BY TimersWithin, ChunkListed DEF ListedNow, TypeOK
<1>1. ASSUME NEW ts \in Seq(TimerType), NEW ws \in Seq(TimerType), Rewritten(timers, ts),
             \A i \in DOMAIN ws : IsWrite(ws[i]), AllWithin(ts, S), AllWithin(ws, S), ~convYields, splits > 0,
             Commanded(ts, ws), \A k \in DOMAIN cache' : Messages(cache'[k]) \subseteq S
      PROVE  FreshInv' /\ DueIn(timers') = DueIn(timers)
  <2>1. timers' = ts \o ws \/ timers' = (ts \o ws) \o <<ConvWakes>>
    BY <1>1, CommandedTypes
  <2>2. UNCHANGED <<disk, read, knownDisk, toConv>>
    BY <1>1 DEF Commanded
  <2>3. S \subseteq (knownDisk \union DueIn(timers)) \ ToSet(toConv')
    BY <2>2 DEF ListedNow
  <2> HIDE DEF S
  <2>4. DueIn(timers') = DueIn(timers) /\ WritesKnown(timers', knownDisk, ToSet(toConv'))
    BY <1>1, <2>1, <2>3, FreshWritten
  <2>5. IsInjective(toConv')
    BY <2>2 DEF FreshInv
  <2> QED
    BY <1>1, <2>2, <2>3, <2>4, <2>5, FreshPut
<1>c. \A k \in DOMAIN cache : Messages(cache[k]) \subseteq S
  BY DEF FreshInv, ListedNow
<1>p. /\ HeadKey \in Seq(Msg) /\ \A k, c : ChunkWrite(k, c).chunk = c
  BY EmptyTypes DEF ChunkWrite
<1>2. CASE NoSplit
  <2>1. ~convYields /\ splits > 0 /\ Commanded(timers, <<>>) /\ cache' = cache
    BY <1>2 DEF NoSplit
  <2>2. <<>> \in Seq(TimerType) /\ (\A i \in DOMAIN <<>> : IsWrite(<<>>[i])) /\ AllWithin(<<>>, S)
    BY DEF AllWithin
  <2>3. Rewritten(timers, timers)
    BY DEF Rewritten
  <2> HIDE DEF S
  <2> QED
    BY <1>0, <1>1, <1>c, <2>1, <2>2, <2>3
<1>3. CASE SplitFirst
  <2>1. /\ ~convYields /\ splits > 0 /\ Len(First.list) > SplitThreshold
        /\ cache' = Put(Put(cache, HeadKey, Rest(First, CutKey)), CutKey, OnePart)
        /\ Commanded(Timers1, Writes1)
    BY <1>3, SplitFirstIs
  <2>2. Messages(Rest(First, CutKey)) \subseteq S /\ Messages(OnePart) \subseteq S
    BY <1>0, <2>1, PartMessages DEF First
  <2> HIDE DEF S
  <2>3. AllWithin(Timers1, S)
    BY <1>0, ReplacedWithin DEF Timers1
  <2>4. AllWithin(Writes1, S)
    BY <1>p, <2>2 DEF AllWithin, Writes1
  <2>5. \A k \in DOMAIN cache' : Messages(cache'[k]) \subseteq S
    BY <1>c, <2>1, <2>2 DEF Put
  <2>6. Timers1 \in Seq(TimerType) /\ Writes1 \in Seq(TimerType) /\ Rewritten(timers, Timers1)
        /\ \A i \in DOMAIN Writes1 : IsWrite(Writes1[i])
    BY <2>1, SplitTimersTypes, SplitKinds
  <2> QED
    BY <1>1, <2>1, <2>3, <2>4, <2>5, <2>6
<1>4. CASE SplitAgain
  <2>0. ~convYields /\ splits > 0 /\ Len(First.list) > SplitThreshold
    BY <1>4, SplitAgainIs
  <2>1. PICK tk \in First.tailKey :
          /\ cache' = Put(Put(Put(cache, HeadKey, Rest(First, CutKey)), CutKey, Part(tk)), tk, Tailed(tk))
          /\ Commanded(Timers2(tk), Writes2(tk))
    BY <1>4, SplitAgainIs
  <2>2. /\ Messages(Rest(First, CutKey)) \subseteq S /\ Messages(Part(tk)) \subseteq S
        /\ Messages(Tailed(tk)) \subseteq S /\ Messages(Leaving) \subseteq S
    BY <1>0, <2>0, PartMessages DEF First
  <2>3. tk \in Seq(Msg) /\ Tailed(tk) \in ChunkType /\ Leaving \in ChunkType
    BY <2>0, PartTypes DEF SplitKey
  <2> HIDE DEF S
  <2>4. AllWithin(Timers2(tk), S)
    <3> DEFINE ts == Changed(timers, tk, Tailed(tk))
               us == Changed(ts, HeadKey, Leaving)
    <3>1. ts \in Seq(TimerType) /\ AllWithin(ts, S)
      BY <1>0, <2>2, <2>3, ChangedTypes, ChangedWithin
    <3> HIDE DEF ts
    <3>2. us \in Seq(TimerType) /\ AllWithin(us, S)
      BY <1>p, <2>2, <2>3, <3>1, ChangedTypes, ChangedWithin
    <3> HIDE DEF us
    <3>3. AllWithin(Replaced(us, {HeadKey, CutKey}), S)
      BY <3>2, ReplacedWithin
    <3> QED
      BY <3>3 DEF us, ts, Timers2
  <2>5. AllWithin(Writes2(tk), S)
    BY <1>p, <2>2 DEF AllWithin, Writes2
  <2>6. \A k \in DOMAIN cache' : Messages(cache'[k]) \subseteq S
    BY <1>c, <2>1, <2>2 DEF Put
  <2>7. Timers2(tk) \in Seq(TimerType) /\ Writes2(tk) \in Seq(TimerType) /\ Rewritten(timers, Timers2(tk))
        /\ \A i \in DOMAIN Writes2(tk) : IsWrite(Writes2(tk)[i])
    BY <2>0, SplitTimersTypes, SplitKinds
  <2> QED
    BY <1>1, <2>0, <2>1, <2>4, <2>5, <2>6, <2>7
<1> QED
  BY <1>2, <1>3, <1>4

LEMMA FreshRest ==
    TypeOK /\ TurnInv /\ FreshInv /\ (TrySplit \/ FireChunk \/ FireConv \/ ReadDisk \/ ReadDone \/ ConvStop \/ Close)
    => FreshInv' /\ DueIn(timers') \subseteq DueIn(timers)
<1> SUFFICES ASSUME TypeOK, TurnInv, FreshInv,
                    TrySplit \/ FireChunk \/ FireConv \/ ReadDisk \/ ReadDone \/ ConvStop \/ Close
             PROVE  FreshInv' /\ DueIn(timers') \subseteq DueIn(timers)
  OBVIOUS
<1>0. timers \in Seq(TimerType)
  BY DEF TypeOK
<1>1. CASE TrySplit
  <2>1. UNCHANGED <<cache, disk, read, timers, knownDisk, toConv>>
    BY <1>1 DEF TrySplit, hubVars
  <2> QED
    BY <2>1, FreshStill
<1>2. CASE FireChunk
  <2>1. /\ timers # <<>> /\ timers' = Tail(timers) /\ IsWrite(Head(timers)) /\ ~IsOf(Head(timers), "message")
        /\ disk' = Put(disk, Head(timers).key, Head(timers).chunk)
        /\ UNCHANGED <<cache, read, knownDisk, toConv>>
    BY <1>2 DEF FireChunk, IsOf, IsWrite
  <2>2. DueIn(timers) = DueIn(timers') /\ DueBefore(timers, 1) = {}
    BY <1>0, <2>1, TailDue
  <2>3. WritesKnown(timers', knownDisk, ToSet(toConv))
    BY <1>0, <2>1, FreshTail DEF FreshInv
  <2>4. Messages(Head(timers).chunk) \subseteq knownDisk \ ToSet(toConv)
    <3>1. 1 \in DOMAIN timers /\ Head(timers) = timers[1]
      BY <1>0, <2>1, HeadTailProperties, LenProperties
    <3> QED
      BY <2>1, <2>2, <3>1 DEF FreshInv, WritesKnown
  <2>5. \A k \in DOMAIN disk' : Messages(disk'[k]) \subseteq knownDisk \ ToSet(toConv)
    BY <2>1, <2>4 DEF Put, FreshInv
  <2> QED
    BY <2>1, <2>2, <2>3, <2>5 DEF FreshInv
<1>3. CASE FireConv
  <2>1. /\ timers # <<>> /\ timers' = Tail(timers) /\ ~IsOf(Head(timers), "message")
        /\ UNCHANGED <<disk, cache, read, knownDisk, toConv>>
    BY <1>3 DEF FireConv, IsOf, ConvWakes
  <2>2. DueIn(timers) = DueIn(timers')
    BY <1>0, <2>1, TailDue
  <2>3. WritesKnown(timers', knownDisk, ToSet(toConv))
    BY <1>0, <2>1, FreshTail DEF FreshInv
  <2> QED
    BY <2>1, <2>2, <2>3 DEF FreshInv
<1>4. CASE ReadDisk
  <2>1. PICK k \in DOMAIN disk : read' = {[key |-> k, chunk |-> disk[k]]}
    BY <1>4 DEF ReadDisk
  <2>2. UNCHANGED <<disk, cache, knownDisk, toConv, timers>>
    BY <1>4 DEF ReadDisk, hubVars
  <2>3. \A r \in read' : Messages(r.chunk) \subseteq knownDisk \ ToSet(toConv)
    BY <2>1 DEF FreshInv
  <2> QED
    BY <2>2, <2>3 DEF FreshInv
<1>w. ASSUME NEW ks
      PROVE  /\ DueIn(Replaced(timers, ks)) = DueIn(timers)
             /\ WritesKnown(Replaced(timers, ks), knownDisk, ToSet(toConv))
  <2>1. Rewritten(timers, Replaced(timers, ks))
    BY <1>0, ReplacedRewritten
  <2>2. DueIn(Replaced(timers, ks)) = DueIn(timers) /\ \A i : DueBefore(Replaced(timers, ks), i) = DueBefore(timers, i)
    BY <2>1, RewrittenDue
  <2>3. \A i \in DOMAIN timers : IsWrite(timers[i]) => Replaced(timers, ks)[i].chunk = timers[i].chunk
    BY <1>0, ReplacedWithin
  <2>4. \A i \in DOMAIN timers : IsWrite(Replaced(timers, ks)[i]) => IsWrite(timers[i])
    BY <2>1 DEF Rewritten
  <2>5. DOMAIN Replaced(timers, ks) = DOMAIN timers
    BY <2>1 DEF Rewritten
  <2> QED
    BY <2>2, <2>3, <2>4, <2>5 DEF WritesKnown, FreshInv
<1>5. CASE ReadDone
  <2>1. PICK r \in read :
          /\ cache' = Put(cache, r.key, r.chunk) /\ timers' = Replaced(timers, {r.key})
          /\ read' = {} /\ UNCHANGED <<disk, knownDisk, toConv>>
    BY <1>5 DEF ReadDone
  <2>2. \A k \in DOMAIN cache' : Messages(cache'[k]) \subseteq (knownDisk \union DueIn(timers)) \ ToSet(toConv)
    BY <2>1 DEF Put, FreshInv
  <2> QED
    BY <1>w, <2>1, <2>2 DEF FreshInv
<1>6. CASE ConvStop
  <2>1. cache' = NoChunks /\ timers' = Replaced(timers, DOMAIN cache) /\ UNCHANGED <<disk, read, knownDisk, toConv>>
    BY <1>6 DEF ConvStop
  <2> QED
    BY <1>w, <2>1, NoChunksTypes DEF FreshInv
<1>7. CASE Close
  <2>1. cache' = NoChunks /\ timers' = <<>> /\ toConv' = <<>> /\ read' = {} /\ UNCHANGED <<disk, knownDisk>>
    BY <1>7 DEF Close, HubClose
  <2>2. ToSet(<<>>) = {} /\ IsInjective(<<>>) /\ WritesKnown(<<>>, knownDisk, {})
    BY DEF ToSet, IsInjective, WritesKnown
  <2>3. \A k \in DOMAIN disk : Messages(disk[k]) \subseteq knownDisk \ {}
    BY DEF FreshInv
  <2>4. DueIn(<<>>) = {}
    BY DEF DueIn
  <2> QED
    BY <2>1, <2>2, <2>3, <2>4, NoChunksTypes DEF FreshInv
<1> QED
  BY <1>1, <1>2, <1>3, <1>4, <1>5, <1>6, <1>7

LEMMA FreshStep == TypeOK /\ TurnInv /\ FreshInv /\ [Next]_vars => FreshInv'
<1>1. ASSUME TypeOK, TurnInv, FreshInv, Next PROVE FreshInv'
  BY <1>1, NextCases, FreshHub, FreshInsert, FreshSplit, FreshRest
<1>2. ASSUME FreshInv, UNCHANGED vars PROVE FreshInv'
  BY <1>2, FreshStill DEF vars, hubVars, convVars
<1> QED
  BY <1>1, <1>2

-----------------------------------------------------------------------------
(* The order of the chunks.                                                *)

KeysBefore(ts, i, d) == d \union {ts[j].key : j \in {j \in DOMAIN ts : j < i /\ IsWrite(ts[j])}}
KeysIn(ts) == {ts[j].key : j \in {j \in DOMAIN ts : IsWrite(ts[j])}}

\* The object in the cache is the one its writes will store; each chunk in the
\* cache is on disk or about to be; a chunk that is read is on disk.
LiveInv ==
    /\ \A i \in DOMAIN timers : IsOf(timers[i], "chunk") =>
          timers[i].key \in DOMAIN cache /\ timers[i].chunk = cache[timers[i].key]
    /\ DOMAIN cache \subseteq DOMAIN disk \union KeysIn(timers)
    /\ \A r \in read : r.key \in DOMAIN disk

\* A chunk c under the key k: its messages are in order, behind those of its
\* tail, which is one of the keys s; a chunk split off keeps its list.
Fine(k, c, pos, s) ==
    /\ \A i, j \in DOMAIN c.list : i < j => pos[c.list[i]] < pos[c.list[j]]
    /\ \A t \in c.tailKey :
          t \in s /\ c.list # <<>> /\ \A i \in DOMAIN t, j \in DOMAIN c.list : pos[t[i]] < pos[c.list[j]]
    /\ k # HeadKey => c.list = k

\* Between the writes of two splits the first chunk may name a tail that is not
\* stored, until its last write is done.
Spoilt == inTurn > 1 /\ ~NoWrites(timers)

WriteFine(ts, i, pos, d) == Fine(ts[i].key, ts[i].chunk, pos, KeysBefore(ts, i, d))

WritesFine(ts, pos, d, spoilt) ==
    /\ \A i \in DOMAIN ts : IsWrite(ts[i]) =>
          \/ WriteFine(ts, i, pos, d)
          \/ /\ spoilt /\ ts[i].key = HeadKey /\ IsOf(ts[i], "past")
             /\ \E j \in DOMAIN ts : i < j /\ IsWrite(ts[j])
    /\ spoilt => \E j \in DOMAIN ts : /\ IsWrite(ts[j]) /\ ts[j].key = HeadKey
                                      /\ \A i \in DOMAIN ts : IsWrite(ts[i]) => i <= j

OrderInv(pos) ==
    /\ \A k \in DOMAIN cache : Fine(k, cache[k], pos, Stored)
    /\ \A k \in DOMAIN disk : Fine(k, disk[k], pos, DOMAIN disk) \/ (Spoilt /\ k = HeadKey)
    /\ \A r \in read : Fine(r.key, r.chunk, pos, DOMAIN disk)
    /\ WritesFine(timers, pos, DOMAIN disk, Spoilt)
    /\ Spoilt => HeadKey \in DOMAIN cache

ChainInv == ~torn => LiveInv /\ \E pos \in [Msg -> Int] : OrderInv(pos)

LEMMA FineMore ==
    ASSUME NEW k, NEW c, NEW pos, NEW s1, NEW s2, Fine(k, c, pos, s1), s1 \subseteq s2
    PROVE  Fine(k, c, pos, s2)
  BY DEF Fine

LEMMA EmptyFine ==
    ASSUME NEW pos, NEW s
    PROVE  Fine(HeadKey, Empty, pos, s)
<1>1. DOMAIN <<>> = {}
  OBVIOUS
<1> QED
  BY <1>1 DEF Fine, Empty

LEMMA ChunkFine ==
    ASSUME NEW pos, OrderInv(pos), NEW k, k \in Stored \/ k = HeadKey
    PROVE  Fine(k, Chunk(k), pos, Stored)
<1>1. CASE k \in DOMAIN cache
  BY <1>1 DEF OrderInv, Chunk
<1>2. CASE k \notin DOMAIN cache /\ k \in DOMAIN disk
  <2>1. Fine(k, disk[k], pos, DOMAIN disk)
    BY <1>2 DEF OrderInv
  <2>2. Chunk(k) = disk[k]
    BY <1>2 DEF Chunk
  <2> QED
    BY <2>1, <2>2, FineMore DEF Stored
<1>3. CASE k \notin DOMAIN cache /\ k \notin DOMAIN disk
  <2>1. k = HeadKey /\ Chunk(k) = Empty
    BY <1>3 DEF Chunk, Stored
  <2> QED
    BY <2>1, EmptyFine
<1> QED
  BY <1>1, <1>2, <1>3

LEMMA ChainInit == Init => ChainInv
<1> SUFFICES ASSUME Init PROVE ChainInv
  OBVIOUS
<1>1. cache = NoChunks /\ disk = NoChunks /\ timers = <<>> /\ read = {} /\ DOMAIN NoChunks = {} /\ inTurn = 0
  BY NoChunksTypes DEF Init, HubInit
<1>2. DOMAIN timers = {} /\ ~Spoilt
  BY <1>1 DEF Spoilt
<1>3. LiveInv
  BY <1>1, <1>2 DEF LiveInv
<1>4. \A pos : OrderInv(pos)
  BY <1>1, <1>2 DEF OrderInv, WritesFine
<1>5. [x \in Msg |-> 0] \in [Msg -> Int]
  OBVIOUS
<1> QED
  BY <1>3, <1>4, <1>5 DEF ChainInv

\* Timers that are no writes come and go.
LEMMA KeysTail ==
    ASSUME NEW ts \in Seq(TimerType), ts # <<>>, NEW d
    PROVE  /\ \A i \in DOMAIN Tail(ts) : i + 1 \in DOMAIN ts /\ Tail(ts)[i] = ts[i + 1]
           /\ \A j \in DOMAIN ts : j = 1 \/ (j - 1 \in DOMAIN Tail(ts) /\ Tail(ts)[j - 1] = ts[j])
           /\ ~IsWrite(Head(ts)) => /\ KeysIn(ts) = KeysIn(Tail(ts))
                                    /\ NoWrites(ts) <=> NoWrites(Tail(ts))
                                    /\ \A i \in DOMAIN Tail(ts) : KeysBefore(ts, i + 1, d) = KeysBefore(Tail(ts), i, d)
           /\ IsWrite(Head(ts)) => /\ KeysIn(ts) = KeysIn(Tail(ts)) \union {Head(ts).key}
                                   /\ ~NoWrites(ts)
                                   /\ \A i \in DOMAIN Tail(ts) :
                                         KeysBefore(ts, i + 1, d) = KeysBefore(Tail(ts), i, d \union {Head(ts).key})
           /\ 1 \in DOMAIN ts /\ Head(ts) = ts[1] /\ KeysBefore(ts, 1, d) = d
<1>1. /\ Len(ts) \in Nat /\ Len(ts) >= 1 /\ DOMAIN ts = 1..Len(ts)
      /\ DOMAIN Tail(ts) = 1..Len(ts) - 1 /\ Head(ts) = ts[1]
      /\ \A i \in 1..Len(ts) - 1 : Tail(ts)[i] = ts[i + 1]
  BY HeadTailProperties, LenProperties
<1>2. \A i \in DOMAIN Tail(ts) : i + 1 \in DOMAIN ts /\ Tail(ts)[i] = ts[i + 1]
  BY <1>1
<1>3. \A j \in DOMAIN ts : j = 1 \/ (j - 1 \in DOMAIN Tail(ts) /\ Tail(ts)[j - 1] = ts[j])
  BY <1>1
<1>4. 1 \in DOMAIN ts /\ Head(ts) = ts[1] /\ \A j \in DOMAIN ts : j \in Nat /\ ~(j < 1)
  BY <1>1
<1>5. \A i \in DOMAIN Tail(ts) : 1 < i + 1 /\ \A j \in DOMAIN Tail(ts) : j < i <=> j + 1 < i + 1
  BY <1>1
<1>6. \A i \in DOMAIN Tail(ts) : \A j \in DOMAIN ts : j # 1 => (j < i + 1 <=> j - 1 < i)
  BY <1>1
<1>7. KeysBefore(ts, 1, d) = d
  BY <1>4 DEF KeysBefore
<1>8. /\ KeysIn(Tail(ts)) \subseteq KeysIn(ts)
      /\ KeysIn(ts) \subseteq KeysIn(Tail(ts)) \union (IF IsWrite(ts[1]) THEN {ts[1].key} ELSE {})
      /\ IsWrite(ts[1]) => ts[1].key \in KeysIn(ts)
  <2>1. KeysIn(Tail(ts)) \subseteq KeysIn(ts)
    BY <1>2 DEF KeysIn
  <2>2. KeysIn(ts) \subseteq KeysIn(Tail(ts)) \union (IF IsWrite(ts[1]) THEN {ts[1].key} ELSE {})
    BY <1>3 DEF KeysIn
  <2>3. IsWrite(ts[1]) => ts[1].key \in KeysIn(ts)
    BY <1>4 DEF KeysIn
  <2> QED
    BY <2>1, <2>2, <2>3
<1>9. ASSUME NEW i \in DOMAIN Tail(ts), NEW e
      PROVE  /\ KeysBefore(Tail(ts), i, e) \subseteq KeysBefore(ts, i + 1, e)
             /\ KeysBefore(ts, i + 1, e) \subseteq KeysBefore(Tail(ts), i, e) \union (IF IsWrite(ts[1]) THEN {ts[1].key} ELSE {})
             /\ IsWrite(ts[1]) => ts[1].key \in KeysBefore(ts, i + 1, e)
  <2>1. KeysBefore(Tail(ts), i, e) \subseteq KeysBefore(ts, i + 1, e)
    BY <1>2, <1>5 DEF KeysBefore
  <2>2. KeysBefore(ts, i + 1, e) \subseteq KeysBefore(Tail(ts), i, e) \union (IF IsWrite(ts[1]) THEN {ts[1].key} ELSE {})
    BY <1>3, <1>6 DEF KeysBefore
  <2>3. IsWrite(ts[1]) => ts[1].key \in KeysBefore(ts, i + 1, e)
    BY <1>4, <1>5 DEF KeysBefore
  <2> QED
    BY <2>1, <2>2, <2>3
<1>10. \A i, x : KeysBefore(Tail(ts), i, d \union {x}) = KeysBefore(Tail(ts), i, d) \union {x}
  BY DEF KeysBefore
<1>11. ASSUME ~IsWrite(Head(ts))
       PROVE  /\ KeysIn(ts) = KeysIn(Tail(ts))
              /\ NoWrites(ts) <=> NoWrites(Tail(ts))
              /\ \A i \in DOMAIN Tail(ts) : KeysBefore(ts, i + 1, d) = KeysBefore(Tail(ts), i, d)
  <2>1. ~IsWrite(ts[1])
    BY <1>4, <1>11
  <2>2. KeysIn(ts) = KeysIn(Tail(ts))
    BY <1>8, <2>1
  <2>3. NoWrites(ts) <=> NoWrites(Tail(ts))
    BY <1>2, <1>3, <2>1 DEF NoWrites
  <2>4. ASSUME NEW i \in DOMAIN Tail(ts)
        PROVE  KeysBefore(ts, i + 1, d) = KeysBefore(Tail(ts), i, d)
    <3>1. /\ KeysBefore(Tail(ts), i, d) \subseteq KeysBefore(ts, i + 1, d)
          /\ KeysBefore(ts, i + 1, d) \subseteq KeysBefore(Tail(ts), i, d) \union (IF IsWrite(ts[1]) THEN {ts[1].key} ELSE {})
      BY ONLY <1>9, i \in DOMAIN Tail(ts)
    <3> QED
      BY ONLY <3>1, <2>1
  <2> QED
    BY <2>2, <2>3, <2>4
<1>12. ASSUME IsWrite(Head(ts))
       PROVE  /\ KeysIn(ts) = KeysIn(Tail(ts)) \union {Head(ts).key}
              /\ ~NoWrites(ts)
              /\ \A i \in DOMAIN Tail(ts) :
                    KeysBefore(ts, i + 1, d) = KeysBefore(Tail(ts), i, d \union {Head(ts).key})
  <2>1. IsWrite(ts[1]) /\ Head(ts) = ts[1]
    BY <1>4, <1>12
  <2>2. KeysIn(ts) = KeysIn(Tail(ts)) \union {Head(ts).key}
    BY <1>8, <2>1
  <2>3. ~NoWrites(ts)
    BY <1>4, <2>1 DEF NoWrites
  <2>4. ASSUME NEW i \in DOMAIN Tail(ts)
        PROVE  KeysBefore(ts, i + 1, d) = KeysBefore(Tail(ts), i, d \union {ts[1].key})
    <3>1. /\ KeysBefore(Tail(ts), i, d) \subseteq KeysBefore(ts, i + 1, d)
          /\ KeysBefore(ts, i + 1, d) \subseteq KeysBefore(Tail(ts), i, d) \union (IF IsWrite(ts[1]) THEN {ts[1].key} ELSE {})
          /\ IsWrite(ts[1]) => ts[1].key \in KeysBefore(ts, i + 1, d)
      BY ONLY <1>9, i \in DOMAIN Tail(ts)
    <3>2. KeysBefore(Tail(ts), i, d \union {ts[1].key}) = KeysBefore(Tail(ts), i, d) \union {ts[1].key}
      BY <1>10
    <3> QED
      BY ONLY <3>1, <3>2, <2>1
  <2>5. \A i \in DOMAIN Tail(ts) : KeysBefore(ts, i + 1, d) = KeysBefore(Tail(ts), i, d \union {Head(ts).key})
    BY <2>1, <2>4
  <2>6. KeysIn(ts) = KeysIn(Tail(ts)) \union {Head(ts).key}
    BY <2>1, <2>2
  <2> QED
    BY ONLY <2>3, <2>5, <2>6
<1> QED
  BY <1>2, <1>3, <1>4, <1>7, <1>11, <1>12

\* The writes are the same ones, at the same places.
SameWrites(ts, us) ==
    /\ \A i \in DOMAIN ts : IsWrite(ts[i]) => i \in DOMAIN us /\ us[i] = ts[i]
    /\ \A i \in DOMAIN us : IsWrite(us[i]) => i \in DOMAIN ts /\ us[i] = ts[i]

LEMMA SameWritesFine ==
    ASSUME NEW ts, NEW us, SameWrites(ts, us), NEW pos, NEW d, NEW spoilt, WritesFine(ts, pos, d, spoilt)
    PROVE  /\ WritesFine(us, pos, d, spoilt) /\ KeysIn(us) = KeysIn(ts)
           /\ NoWrites(us) <=> NoWrites(ts)
<1>1. \A i : KeysBefore(us, i, d) = KeysBefore(ts, i, d)
  BY DEF KeysBefore, SameWrites
<1>2. KeysIn(us) = KeysIn(ts)
  BY DEF KeysIn, SameWrites
<1>3. NoWrites(us) <=> NoWrites(ts)
  BY DEF NoWrites, SameWrites
<1>4. \A i \in DOMAIN us : IsWrite(us[i]) => (WriteFine(ts, i, pos, d) => WriteFine(us, i, pos, d))
  BY <1>1 DEF WriteFine, SameWrites
<1>5. ASSUME NEW i \in DOMAIN us, IsWrite(us[i])
      PROVE  \/ WriteFine(us, i, pos, d)
             \/ /\ spoilt /\ us[i].key = HeadKey /\ IsOf(us[i], "past")
                /\ \E j \in DOMAIN us : i < j /\ IsWrite(us[j])
  <2>1. i \in DOMAIN ts /\ us[i] = ts[i]
    BY <1>5 DEF SameWrites
  <2>2. \/ WriteFine(ts, i, pos, d)
        \/ /\ spoilt /\ ts[i].key = HeadKey /\ IsOf(ts[i], "past")
           /\ \E j \in DOMAIN ts : i < j /\ IsWrite(ts[j])
    BY <1>5, <2>1 DEF WritesFine
  <2>3. ASSUME \E j \in DOMAIN ts : i < j /\ IsWrite(ts[j])
        PROVE  \E j \in DOMAIN us : i < j /\ IsWrite(us[j])
    BY <2>3 DEF SameWrites
  <2> QED
    BY <1>4, <1>5, <2>1, <2>2, <2>3
<1>6. ASSUME spoilt
      PROVE  \E j \in DOMAIN us : /\ IsWrite(us[j]) /\ us[j].key = HeadKey
                                  /\ \A i \in DOMAIN us : IsWrite(us[i]) => i <= j
  <2>1. PICK j \in DOMAIN ts : /\ IsWrite(ts[j]) /\ ts[j].key = HeadKey
                               /\ \A i \in DOMAIN ts : IsWrite(ts[i]) => i <= j
    BY <1>6 DEF WritesFine
  <2>2. j \in DOMAIN us /\ us[j] = ts[j]
    BY <2>1 DEF SameWrites
  <2>3. \A i \in DOMAIN us : IsWrite(us[i]) => i <= j
    BY <2>1 DEF SameWrites
  <2> QED
    BY <2>1, <2>2, <2>3
<1>7. WritesFine(us, pos, d, spoilt)
  BY <1>5, <1>6 DEF WritesFine
<1> QED
  BY <1>2, <1>3, <1>7

\* The first timer has fired; it was no write.
LEMMA TailFine ==
    ASSUME NEW ts \in Seq(TimerType), ts # <<>>, ~IsWrite(Head(ts)), NEW pos, NEW d, NEW spoilt,
           WritesFine(ts, pos, d, spoilt)
    PROVE  WritesFine(Tail(ts), pos, d, spoilt)
<1> DEFINE us == Tail(ts)
<1>1. /\ \A i \in DOMAIN us : i + 1 \in DOMAIN ts /\ us[i] = ts[i + 1]
      /\ \A j \in DOMAIN ts : j = 1 \/ (j - 1 \in DOMAIN us /\ us[j - 1] = ts[j])
      /\ \A i \in DOMAIN us : KeysBefore(ts, i + 1, d) = KeysBefore(us, i, d)
      /\ Head(ts) = ts[1]
  BY KeysTail
<1>2. \A i \in DOMAIN ts : i \in Nat
  BY LenProperties
<1>3. \A i \in DOMAIN us : i \in Nat
  BY HeadTailProperties, LenProperties
<1> HIDE DEF us
<1>4. ASSUME NEW i \in DOMAIN us, NEW j \in DOMAIN ts, i + 1 < j, IsWrite(ts[j])
      PROVE  \E l \in DOMAIN us : i < l /\ IsWrite(us[l])
  <2>1. j # 1 /\ i < j - 1
    BY <1>2, <1>3, <1>4
  <2>2. j - 1 \in DOMAIN us /\ us[j - 1] = ts[j]
    BY <1>1, <2>1
  <2> QED
    BY <1>4, <2>1, <2>2
<1>5. ASSUME NEW i \in DOMAIN us, IsWrite(us[i])
      PROVE  \/ WriteFine(us, i, pos, d)
             \/ /\ spoilt /\ us[i].key = HeadKey /\ IsOf(us[i], "past")
                /\ \E j \in DOMAIN us : i < j /\ IsWrite(us[j])
  <2>1. i + 1 \in DOMAIN ts /\ us[i] = ts[i + 1] /\ KeysBefore(ts, i + 1, d) = KeysBefore(us, i, d)
    BY <1>1
  <2>2. \/ WriteFine(ts, i + 1, pos, d)
        \/ /\ spoilt /\ ts[i + 1].key = HeadKey /\ IsOf(ts[i + 1], "past")
           /\ \E j \in DOMAIN ts : i + 1 < j /\ IsWrite(ts[j])
    BY <1>5, <2>1 DEF WritesFine
  <2>3. WriteFine(ts, i + 1, pos, d) => WriteFine(us, i, pos, d)
    BY <2>1 DEF WriteFine
  <2> QED
    BY <1>4, <2>1, <2>2, <2>3
<1>6. ASSUME spoilt
      PROVE  \E j \in DOMAIN us : /\ IsWrite(us[j]) /\ us[j].key = HeadKey
                                  /\ \A i \in DOMAIN us : IsWrite(us[i]) => i <= j
  <2>1. PICK j \in DOMAIN ts : /\ IsWrite(ts[j]) /\ ts[j].key = HeadKey
                               /\ \A i \in DOMAIN ts : IsWrite(ts[i]) => i <= j
    BY <1>6 DEF WritesFine
  <2>2. j # 1
    BY <1>1, <2>1
  <2>3. j - 1 \in DOMAIN us /\ us[j - 1] = ts[j]
    BY <1>1, <2>2
  <2>4. ASSUME NEW i \in DOMAIN us, IsWrite(us[i]) PROVE i <= j - 1
    <3>1. i + 1 <= j
      BY <1>1, <2>1, <2>4
    <3> QED
      BY <1>2, <1>3, <3>1
  <2> QED
    BY <2>1, <2>3, <2>4
<1>7. WritesFine(us, pos, d, spoilt)
  BY <1>5, <1>6 DEF WritesFine
<1> QED
  BY <1>7 DEF us

\* The first timer has fired; it was a write.
LEMMA FiredFine ==
    ASSUME NEW ts \in Seq(TimerType), ts # <<>>, IsWrite(Head(ts)), NEW pos, NEW d, NEW spoilt,
           WritesFine(ts, pos, d, spoilt)
    PROVE  /\ WritesFine(Tail(ts), pos, d \union {Head(ts).key}, spoilt /\ ~NoWrites(Tail(ts)))
           /\ \/ Fine(Head(ts).key, Head(ts).chunk, pos, d)
              \/ spoilt /\ ~NoWrites(Tail(ts)) /\ Head(ts).key = HeadKey
           /\ spoilt /\ NoWrites(Tail(ts)) => Head(ts).key = HeadKey
<1> DEFINE us == Tail(ts)
           e  == d \union {Head(ts).key}
<1>1. /\ \A i \in DOMAIN us : i + 1 \in DOMAIN ts /\ us[i] = ts[i + 1]
      /\ \A j \in DOMAIN ts : j = 1 \/ (j - 1 \in DOMAIN us /\ us[j - 1] = ts[j])
      /\ \A i \in DOMAIN us : KeysBefore(ts, i + 1, d) = KeysBefore(us, i, e)
      /\ 1 \in DOMAIN ts /\ Head(ts) = ts[1] /\ KeysBefore(ts, 1, d) = d
  BY KeysTail
<1>2. \A i \in DOMAIN ts : i \in Nat
  BY LenProperties
<1>3. \A i \in DOMAIN us : i \in Nat /\ i >= 1
  BY HeadTailProperties, LenProperties
<1> HIDE DEF us, e
<1>4. ASSUME NEW i \in Nat, NEW j \in DOMAIN ts, i + 1 < j, IsWrite(ts[j])
      PROVE  (\E l \in DOMAIN us : i < l /\ IsWrite(us[l])) /\ ~NoWrites(us)
  <2>1. j # 1 /\ i < j - 1
    BY <1>2, <1>3, <1>4
  <2>2. j - 1 \in DOMAIN us /\ us[j - 1] = ts[j]
    BY <1>1, <2>1
  <2> QED
    BY <1>4, <2>1, <2>2 DEF NoWrites
<1>5. ASSUME NEW i \in DOMAIN us, IsWrite(us[i])
      PROVE  \/ WriteFine(us, i, pos, e)
             \/ /\ spoilt /\ ~NoWrites(us) /\ us[i].key = HeadKey /\ IsOf(us[i], "past")
                /\ \E j \in DOMAIN us : i < j /\ IsWrite(us[j])
  <2>1. i + 1 \in DOMAIN ts /\ us[i] = ts[i + 1] /\ KeysBefore(ts, i + 1, d) = KeysBefore(us, i, e)
    BY <1>1
  <2>2. \/ WriteFine(ts, i + 1, pos, d)
        \/ /\ spoilt /\ ts[i + 1].key = HeadKey /\ IsOf(ts[i + 1], "past")
           /\ \E j \in DOMAIN ts : i + 1 < j /\ IsWrite(ts[j])
    BY <1>5, <2>1 DEF WritesFine
  <2>3. WriteFine(ts, i + 1, pos, d) => WriteFine(us, i, pos, e)
    BY <2>1 DEF WriteFine
  <2> QED
    BY <1>3, <1>4, <2>1, <2>2, <2>3
<1>6. ASSUME spoilt
      PROVE  \E j \in DOMAIN ts : /\ IsWrite(ts[j]) /\ ts[j].key = HeadKey
                                  /\ \A i \in DOMAIN ts : IsWrite(ts[i]) => i <= j
  BY <1>6 DEF WritesFine
<1>7. ASSUME spoilt, ~NoWrites(us)
      PROVE  \E j \in DOMAIN us : /\ IsWrite(us[j]) /\ us[j].key = HeadKey
                                  /\ \A i \in DOMAIN us : IsWrite(us[i]) => i <= j
  <2>1. PICK j \in DOMAIN ts : /\ IsWrite(ts[j]) /\ ts[j].key = HeadKey
                               /\ \A i \in DOMAIN ts : IsWrite(ts[i]) => i <= j
    BY <1>6, <1>7
  <2>2. PICK l \in DOMAIN us : IsWrite(us[l])
    BY <1>7 DEF NoWrites
  <2>3. l + 1 <= j
    BY <1>1, <2>1, <2>2
  <2>4. j # 1
    BY <1>2, <1>3, <2>3
  <2>5. j - 1 \in DOMAIN us /\ us[j - 1] = ts[j]
    BY <1>1, <2>4
  <2>6. ASSUME NEW i \in DOMAIN us, IsWrite(us[i]) PROVE i <= j - 1
    <3>1. i + 1 <= j
      BY <1>1, <2>1, <2>6
    <3> QED
      BY <1>2, <1>3, <3>1
  <2> QED
    BY <2>1, <2>5, <2>6
<1>8. WritesFine(us, pos, e, spoilt /\ ~NoWrites(us))
  BY <1>5, <1>7 DEF WritesFine
<1>9. \/ Fine(ts[1].key, ts[1].chunk, pos, d)
      \/ spoilt /\ ~NoWrites(us) /\ ts[1].key = HeadKey
  <2>1. \/ WriteFine(ts, 1, pos, d)
        \/ /\ spoilt /\ ts[1].key = HeadKey
           /\ \E j \in DOMAIN ts : 1 < j /\ IsWrite(ts[j])
    BY <1>1 DEF WritesFine
  <2>2. WriteFine(ts, 1, pos, d) => Fine(ts[1].key, ts[1].chunk, pos, d)
    BY <1>1 DEF WriteFine
  <2>3. (\E j \in DOMAIN ts : 1 < j /\ IsWrite(ts[j])) => ~NoWrites(us)
    <3>1. 0 \in Nat /\ 0 + 1 = 1
      OBVIOUS
    <3> QED
      BY <1>4, <3>1
  <2> QED
    BY <2>1, <2>2, <2>3
<1>10. ASSUME spoilt, NoWrites(us) PROVE ts[1].key = HeadKey
  <2>1. PICK j \in DOMAIN ts : IsWrite(ts[j]) /\ ts[j].key = HeadKey
    BY <1>6, <1>10
  <2>2. j = 1
    BY <1>1, <1>10, <2>1 DEF NoWrites
  <2> QED
    BY <2>1, <2>2
<1> QED
  BY <1>1, <1>8, <1>9, <1>10 DEF us, e

\* The writes there were, when more writes follow.
OldFine(ts, pos, d, spoilt) ==
    \A i \in DOMAIN ts : IsWrite(ts[i]) =>
        WriteFine(ts, i, pos, d) \/ (spoilt /\ ts[i].key = HeadKey /\ IsOf(ts[i], "past"))

\* The writes that a step sets: the one of the first chunk is the last.
NewFine(ws, pos, d) ==
    /\ \A i \in DOMAIN ws : IsWrite(ws[i]) /\ WriteFine(ws, i, pos, d)
    /\ Len(ws) \in DOMAIN ws /\ ws[Len(ws)].key = HeadKey

Follow(us, ts, ws) == us = ts \o ws \/ us = (ts \o ws) \o <<ConvWakes>>

FromEither(us, ts, ws) ==
    \A i \in DOMAIN us : IsWrite(us[i]) =>
        (\E j \in DOMAIN ts : us[i] = ts[j]) \/ (\E j \in DOMAIN ws : us[i] = ws[j])

\* The writes ws come behind those there were, as they are now.
LEMMA WrittenFine ==
    ASSUME NEW ts \in Seq(TimerType), NEW ws \in Seq(TimerType), NEW pos, NEW d, NEW spoilt,
           OldFine(ts, pos, d, spoilt), NewFine(ws, pos, d \union KeysIn(ts)), NEW us, Follow(us, ts, ws)
    PROVE  /\ WritesFine(us, pos, d, spoilt) /\ ~NoWrites(us)
           /\ KeysIn(us) = KeysIn(ts) \union KeysIn(ws)
           /\ FromEither(us, ts, ws)
<1> DEFINE vs == ts \o ws
           l  == Len(ts)
           n  == Len(ws)
<1>16. /\ \A i \in DOMAIN ts : IsWrite(ts[i]) =>
             WriteFine(ts, i, pos, d) \/ (spoilt /\ ts[i].key = HeadKey /\ IsOf(ts[i], "past"))
       /\ \A i \in DOMAIN ws : IsWrite(ws[i]) /\ WriteFine(ws, i, pos, d \union KeysIn(ts))
       /\ n \in DOMAIN ws /\ ws[n].key = HeadKey
  BY DEF OldFine, NewFine
<1>17. us = vs \/ us = vs \o <<ConvWakes>>
  BY DEF Follow
<1>1. /\ vs \in Seq(TimerType) /\ Len(vs) = l + Len(ws) /\ l \in Nat /\ Len(ws) \in Nat
      /\ \A i \in 1..l : vs[i] = ts[i]
      /\ \A i \in 1..Len(ws) : vs[l + i] = ws[i]
  BY After
<1>2. DOMAIN ts = 1..l /\ DOMAIN ws = 1..Len(ws) /\ DOMAIN vs = 1..l + Len(ws)
  BY <1>1, LenProperties
<1> HIDE DEF vs, l
<1>18. n = Len(ws)
  OBVIOUS
<1> HIDE DEF n
<1>3. \A i \in DOMAIN ts : i \in Nat /\ i <= l /\ i \in DOMAIN vs /\ vs[i] = ts[i]
  BY <1>1, <1>2
<1>4. \A i \in DOMAIN ws : i \in Nat /\ 1 <= i /\ i <= n /\ l + i \in DOMAIN vs /\ vs[l + i] = ws[i]
  BY <1>1, <1>2, <1>18
<1>5. \A i \in DOMAIN vs : i \in Nat /\ (i \in DOMAIN ts \/ i - l \in DOMAIN ws)
  BY <1>1, <1>2
<1>6. \A i \in DOMAIN vs : i - l \in DOMAIN ws => vs[i] = ws[i - l] /\ l + (i - l) = i
  BY <1>1, <1>2
<1>7. \A i \in DOMAIN ts : KeysBefore(vs, i, d) = KeysBefore(ts, i, d)
  <2> SUFFICES ASSUME NEW i \in DOMAIN ts PROVE KeysBefore(vs, i, d) = KeysBefore(ts, i, d)
    OBVIOUS
  <2>1. \A j \in DOMAIN vs : j < i => j \in DOMAIN ts
    BY <1>1, <1>2
  <2> QED
    BY <1>3, <2>1 DEF KeysBefore
<1>8. ASSUME NEW i \in DOMAIN ws
      PROVE  KeysBefore(ws, i, d \union KeysIn(ts)) \subseteq KeysBefore(vs, l + i, d)
  <2>1. \A j \in DOMAIN ts : j \in DOMAIN vs /\ j < l + i /\ vs[j] = ts[j]
    BY <1>1, <1>3, <1>4
  <2>2. \A j \in DOMAIN ws : j < i => l + j \in DOMAIN vs /\ l + j < l + i /\ vs[l + j] = ws[j]
    BY <1>1, <1>4
  <2>3. KeysIn(ts) \subseteq KeysBefore(vs, l + i, d)
    BY <2>1 DEF KeysIn, KeysBefore
  <2>4. d \subseteq KeysBefore(vs, l + i, d)
    BY DEF KeysBefore
  <2>5. \A j \in DOMAIN ws : j < i /\ IsWrite(ws[j]) => ws[j].key \in KeysBefore(vs, l + i, d)
    BY <2>2 DEF KeysBefore
  <2> QED
    BY <2>3, <2>4, <2>5 DEF KeysBefore
<1>9. l + n \in DOMAIN vs /\ vs[l + n] = ws[n] /\ IsWrite(vs[l + n]) /\ vs[l + n].key = HeadKey
  <2>1. n \in DOMAIN ws
    BY <1>16
  <2>2. l + n \in DOMAIN vs /\ vs[l + n] = ws[n]
    BY <1>4, <2>1
  <2>3. IsWrite(ws[n]) /\ ws[n].key = HeadKey
    BY <1>16, <2>1
  <2> QED
    BY <2>2, <2>3
<1>10. \A i \in DOMAIN vs : i <= l + n
  BY <1>1, <1>2, <1>18
<1>11. ASSUME NEW i \in DOMAIN vs, IsWrite(vs[i])
       PROVE  \/ WriteFine(vs, i, pos, d)
              \/ /\ spoilt /\ vs[i].key = HeadKey /\ IsOf(vs[i], "past")
                 /\ \E j \in DOMAIN vs : i < j /\ IsWrite(vs[j])
  <2>1. CASE i \in DOMAIN ts
    <3>1. vs[i] = ts[i] /\ KeysBefore(vs, i, d) = KeysBefore(ts, i, d)
      BY <1>3, <1>7, <2>1
    <3>2. WriteFine(ts, i, pos, d) \/ (spoilt /\ ts[i].key = HeadKey /\ IsOf(ts[i], "past"))
      BY <1>11, <1>16, <2>1, <3>1
    <3>3. WriteFine(ts, i, pos, d) => WriteFine(vs, i, pos, d)
      BY <3>1 DEF WriteFine
    <3>4. i < l + n
      <4>1. n \in DOMAIN ws
        BY <1>16
      <4>2. n \in Nat /\ 1 <= n /\ i \in Nat /\ i <= l /\ l \in Nat
        BY <1>1, <1>3, <1>4, <2>1, <4>1
      <4> QED
        BY ONLY <4>2
    <3> QED
      BY <1>9, <3>1, <3>2, <3>3, <3>4
  <2>2. CASE i \notin DOMAIN ts
    <3>1. i - l \in DOMAIN ws /\ vs[i] = ws[i - l] /\ l + (i - l) = i
      BY <1>5, <1>6, <2>2
    <3>2. Fine(ws[i - l].key, ws[i - l].chunk, pos, KeysBefore(ws, i - l, d \union KeysIn(ts)))
      BY <1>16, <3>1 DEF WriteFine
    <3>3. KeysBefore(ws, i - l, d \union KeysIn(ts)) \subseteq KeysBefore(vs, l + (i - l), d)
      BY <1>8, <3>1
    <3>4. Fine(ws[i - l].key, ws[i - l].chunk, pos, KeysBefore(vs, l + (i - l), d))
      BY <3>2, <3>3, FineMore
    <3> QED
      BY <3>1, <3>4 DEF WriteFine
  <2> QED
    BY <2>1, <2>2
<1>12. WritesFine(vs, pos, d, spoilt)
  <2>1. \E j \in DOMAIN vs : /\ IsWrite(vs[j]) /\ vs[j].key = HeadKey
                             /\ \A i \in DOMAIN vs : IsWrite(vs[i]) => i <= j
    BY <1>9, <1>10
  <2> QED
    BY <1>11, <2>1 DEF WritesFine
<1>13. KeysIn(vs) = KeysIn(ts) \union KeysIn(ws) /\ ~NoWrites(vs)
  <2>1. KeysIn(ts) \subseteq KeysIn(vs)
    BY <1>3 DEF KeysIn
  <2>2. KeysIn(ws) \subseteq KeysIn(vs)
    BY <1>4 DEF KeysIn
  <2>3. KeysIn(vs) \subseteq KeysIn(ts) \union KeysIn(ws)
    <3> SUFFICES ASSUME NEW i \in DOMAIN vs, IsWrite(vs[i]) PROVE vs[i].key \in KeysIn(ts) \union KeysIn(ws)
      BY DEF KeysIn
    <3>1. CASE i \in DOMAIN ts
      BY <1>3, <3>1 DEF KeysIn
    <3>2. CASE i \notin DOMAIN ts
      <4>1. i - l \in DOMAIN ws /\ vs[i] = ws[i - l]
        BY <1>5, <1>6, <3>2
      <4> QED
        BY <4>1 DEF KeysIn
    <3> QED
      BY <3>1, <3>2
  <2>4. ~NoWrites(vs)
    BY <1>9 DEF NoWrites
  <2> QED
    BY <2>1, <2>2, <2>3, <2>4
<1>0. \A i \in DOMAIN vs : (\E j \in DOMAIN ts : vs[i] = ts[j]) \/ (\E j \in DOMAIN ws : vs[i] = ws[j])
  BY <1>3, <1>5, <1>6
<1>14. CASE us = vs
  BY <1>0, <1>12, <1>13, <1>14 DEF FromEither
<1>15. CASE us = vs \o <<ConvWakes>>
  <2>1. /\ DOMAIN us = 1..Len(vs) + 1 /\ DOMAIN vs = 1..Len(vs) /\ Len(vs) \in Nat
        /\ \A i \in 1..Len(vs) : us[i] = vs[i]
        /\ us[Len(vs) + 1] = ConvWakes
    <3>1. vs \in Seq(TimerType) /\ ConvWakes \in TimerType /\ us = vs \o <<ConvWakes>>
      BY <1>1, <1>15, NewTimers
    <3> QED
      BY ONLY <3>1, AfterOne
  <2>2. ~IsWrite(ConvWakes)
    BY DEF ConvWakes, IsWrite
  <2>3. SameWrites(vs, us)
    <3>1. \A i \in DOMAIN us : i \in DOMAIN vs \/ us[i] = ConvWakes
      BY <2>1
    <3>2. \A i \in DOMAIN vs : i \in DOMAIN us /\ us[i] = vs[i]
      BY <2>1
    <3> QED
      BY <2>2, <3>1, <3>2 DEF SameWrites
  <2>4. FromEither(us, ts, ws)
    BY <1>0, <2>3 DEF SameWrites, FromEither
  <2>5. /\ WritesFine(us, pos, d, spoilt) /\ KeysIn(us) = KeysIn(vs)
        /\ NoWrites(us) <=> NoWrites(vs)
    BY <1>12, <2>3, SameWritesFine
  <2> QED
    BY <1>13, <2>4, <2>5
<1> QED
  BY <1>14, <1>15, <1>17

\* A message that no chunk names finds a place in the order.
Spaced(pos, list, p, m) ==
    [x \in Msg |-> IF x # m THEN 2 * pos[x]
                   ELSE IF p <= Len(list) THEN 2 * pos[list[p]] - 1
                   ELSE IF list # <<>> THEN 2 * pos[list[Len(list)]] + 1 ELSE 0]

LEMMA SpacedFine ==
    ASSUME NEW pos \in [Msg -> Int], NEW qos \in [Msg -> Int], NEW m,
           \A x \in Msg : x # m => qos[x] = 2 * pos[x],
           NEW k, NEW c \in ChunkType, m \notin Messages(c), NEW s, Fine(k, c, pos, s)
    PROVE  Fine(k, c, qos, s)
<1>1. \A x, y \in Msg : x # m /\ y # m /\ pos[x] < pos[y] => qos[x] < qos[y]
  OBVIOUS
<1>2. /\ c.list \in Seq(Msg) /\ \A t \in c.tailKey : t \in Seq(Msg)
  BY DEF ChunkType, AtMostOne, SplitKey
<1>3. \A i \in DOMAIN c.list : c.list[i] \in Msg /\ c.list[i] # m
  BY <1>2, ElementOfSeq, LenProperties DEF Messages, ToSet
<1>4. \A t \in c.tailKey : \A i \in DOMAIN t : t[i] \in Msg /\ t[i] # m
  BY <1>2, ElementOfSeq, LenProperties DEF Messages, ToSet
<1> QED
  BY <1>1, <1>3, <1>4 DEF Fine

LEMMA EnteredFine ==
    ASSUME NEW pos \in [Msg -> Int], NEW c \in ChunkType, NEW m \in Msg, m \notin Messages(c),
           NEW p \in 1..Len(c.list) + 1, NEW s, Fine(HeadKey, c, pos, s), NEW e, e.list = InsertAt(c.list, p, m),
           e.tailKey = c.tailKey
    PROVE  /\ Spaced(pos, c.list, p, m) \in [Msg -> Int]
           /\ Fine(HeadKey, e, Spaced(pos, c.list, p, m), s)
<1> DEFINE l   == c.list
           n   == Len(l)
           qos == Spaced(pos, l, p, m)
<1>1. l \in Seq(Msg) /\ n \in Nat /\ DOMAIN l = 1..n /\ \A i \in 1..n : l[i] \in Msg /\ l[i] # m
  <2>1. l \in Seq(Msg)
    BY DEF ChunkType
  <2>2. n \in Nat /\ DOMAIN l = 1..n /\ \A i \in 1..n : l[i] \in Msg
    BY <2>1, LenProperties, ElementOfSeq
  <2>3. \A i \in DOMAIN l : l[i] # m
    BY DEF Messages, ToSet
  <2> QED
    BY <2>1, <2>2, <2>3
<1>2. \A t \in c.tailKey : t \in Seq(Msg) /\ \A i \in DOMAIN t : t[i] \in Msg /\ t[i] # m
  <2>1. \A t \in c.tailKey : t \in Seq(Msg)
    BY DEF ChunkType, AtMostOne, SplitKey
  <2> QED
    BY <2>1, ElementOfSeq, LenProperties DEF Messages, ToSet
<1>3. l # <<>> <=> n # 0
  BY <1>1, EmptySeq
<1>4. p \in Nat /\ 1 <= p /\ p <= n + 1
  BY <1>1
<1>5. (\A i, j \in 1..n : i < j => pos[l[i]] < pos[l[j]]) /\ \A i \in 1..n : pos[l[i]] \in Int
  BY <1>1 DEF Fine
<1> HIDE DEF n
<1>6. /\ qos \in [Msg -> Int]
      /\ \A x \in Msg : x # m => qos[x] = 2 * pos[x]
      /\ p <= n => qos[m] = 2 * pos[l[p]] - 1
      /\ p = n + 1 /\ n # 0 => qos[m] = 2 * pos[l[n]] + 1
  <2> DEFINE q == IF p <= Len(l) THEN 2 * pos[l[p]] - 1 ELSE IF l # <<>> THEN 2 * pos[l[Len(l)]] + 1 ELSE 0
  <2>1. q \in Int
    <3>1. CASE p <= n
      BY <1>1, <1>4, <1>5, <3>1 DEF n
    <3>2. CASE ~(p <= n) /\ l # <<>>
      BY <1>1, <1>3, <1>4, <1>5, <3>2 DEF n
    <3>3. CASE ~(p <= n) /\ l = <<>>
      BY <3>3 DEF n
    <3> QED
      BY <3>1, <3>2, <3>3
  <2>2. /\ p <= n => q = 2 * pos[l[p]] - 1
        /\ p = n + 1 /\ n # 0 => q = 2 * pos[l[n]] + 1
    BY <1>1, <1>3, <1>4 DEF n
  <2>3. qos = [x \in Msg |-> IF x # m THEN 2 * pos[x] ELSE q]
    BY DEF Spaced
  <2> HIDE DEF q, qos
  <2> QED
    BY <2>1, <2>2, <2>3
<1> HIDE DEF qos
<1> DEFINE u == InsertAt(l, p, m)
<1>7. /\ Len(u) = n + 1 /\ u \in Seq(Msg)
      /\ \A i \in 1..p - 1 : u[i] = l[i]
      /\ u[p] = m
      /\ \A i \in p + 1..n + 1 : u[i] = l[i - 1]
  <2>1. l \in Seq(Msg) /\ m \in Msg /\ p \in 1..Len(l) + 1
    BY <1>1
  <2>2. /\ Len(u) = Len(l) + 1 /\ u \in Seq(Msg)
        /\ \A i \in 1..p - 1 : u[i] = l[i]
        /\ u[p] = m
        /\ \A i \in p + 1..Len(l) + 1 : u[i] = l[i - 1]
    <3> HIDE DEF l
    <3> QED
      BY ONLY <2>1, InsertedAt
  <2> QED
    BY ONLY <2>2 DEF n
<1>8. DOMAIN u = 1..n + 1
  BY <1>7, LenProperties
<1> HIDE DEF u
<1>9. \A i \in 1..n : i < p => qos[l[i]] < qos[m]
  <2> SUFFICES ASSUME NEW i \in 1..n, i < p PROVE qos[l[i]] < qos[m]
    OBVIOUS
  <2>1. qos[l[i]] = 2 * pos[l[i]] /\ pos[l[i]] \in Int
    BY <1>1, <1>5, <1>6
  <2>2. CASE p <= n
    <3>1. p \in 1..n /\ pos[l[i]] < pos[l[p]] /\ pos[l[p]] \in Int
      BY <1>1, <1>4, <1>5, <2>2
    <3> QED
      BY <1>6, <2>1, <2>2, <3>1
  <2>3. CASE ~(p <= n)
    <3>1. p = n + 1 /\ n # 0 /\ n \in 1..n
      BY <1>1, <1>4, <2>3
    <3>2. pos[l[i]] <= pos[l[n]] /\ pos[l[n]] \in Int
      <4>1. i = n \/ i < n
        BY <1>1
      <4> QED
        BY <1>5, <2>1, <3>1, <4>1
    <3> QED
      BY <1>6, <2>1, <3>1, <3>2
  <2> QED
    BY <2>2, <2>3
<1>10. \A i \in 1..n : p <= i => qos[m] < qos[l[i]]
  <2> SUFFICES ASSUME NEW i \in 1..n, p <= i PROVE qos[m] < qos[l[i]]
    OBVIOUS
  <2>1. qos[l[i]] = 2 * pos[l[i]] /\ pos[l[i]] \in Int
    BY <1>1, <1>5, <1>6
  <2>2. p \in 1..n /\ p <= n /\ pos[l[p]] \in Int
    BY <1>1, <1>4, <1>5
  <2>3. pos[l[p]] <= pos[l[i]]
    <3>1. p = i \/ p < i
      BY <1>1, <1>4
    <3> QED
      BY <1>5, <2>1, <2>2, <3>1
  <2> QED
    BY <1>6, <2>1, <2>2, <2>3
<1>11. \A i, j \in 1..n : i < j => qos[l[i]] < qos[l[j]]
  <2> SUFFICES ASSUME NEW i \in 1..n, NEW j \in 1..n, i < j PROVE qos[l[i]] < qos[l[j]]
    OBVIOUS
  <2>1. pos[l[i]] < pos[l[j]] /\ pos[l[i]] \in Int /\ pos[l[j]] \in Int
    BY <1>5
  <2>2. qos[l[i]] = 2 * pos[l[i]] /\ qos[l[j]] = 2 * pos[l[j]]
    BY <1>1, <1>6
  <2> QED
    BY ONLY <2>1, <2>2
<1>12. \A i \in DOMAIN u : \/ i < p /\ i \in 1..n /\ u[i] = l[i]
                           \/ i = p /\ u[i] = m
                           \/ p < i /\ i - 1 \in 1..n /\ p <= i - 1 /\ u[i] = l[i - 1]
  <2> SUFFICES ASSUME NEW i \in DOMAIN u
               PROVE  \/ i < p /\ i \in 1..n /\ u[i] = l[i]
                      \/ i = p /\ u[i] = m
                      \/ p < i /\ i - 1 \in 1..n /\ p <= i - 1 /\ u[i] = l[i - 1]
    OBVIOUS
  <2>0. i \in 1..n + 1 /\ n \in Nat
    BY <1>1, <1>8
  <2>1. CASE i < p
    <3>1. i \in 1..p - 1 /\ i \in 1..n
      BY <1>4, <2>0, <2>1
    <3> QED
      BY <1>7, <2>1, <3>1
  <2>2. CASE i = p
    BY <1>7, <2>2
  <2>3. CASE p < i
    <3>1. i \in p + 1..n + 1 /\ i - 1 \in 1..n /\ p <= i - 1
      BY <1>4, <2>0, <2>3
    <3> QED
      BY <1>7, <2>3, <3>1
  <2> QED
    BY <1>4, <2>0, <2>1, <2>2, <2>3
<1>13. ASSUME NEW i \in DOMAIN u, NEW j \in DOMAIN u, i < j
       PROVE  qos[u[i]] < qos[u[j]]
  <2>0. i \in Nat /\ j \in Nat
    BY <1>1, <1>8
  <2>1. CASE i < p /\ i \in 1..n /\ u[i] = l[i]
    <3>1. CASE j < p /\ j \in 1..n /\ u[j] = l[j]
      BY <1>11, <1>13, <2>1, <3>1
    <3>2. CASE j = p /\ u[j] = m
      BY <1>9, <2>1, <3>2
    <3>3. CASE p < j /\ j - 1 \in 1..n /\ p <= j - 1 /\ u[j] = l[j - 1]
      <4>1. i < j - 1
        BY <1>4, <2>0, <2>1, <3>3
      <4> QED
        BY <1>11, <2>1, <3>3, <4>1
    <3> QED
      BY <1>12, <3>1, <3>2, <3>3
  <2>2. CASE i = p /\ u[i] = m
    <3>1. p < j /\ j - 1 \in 1..n /\ p <= j - 1 /\ u[j] = l[j - 1]
      <4>1. ~(j < p) /\ j # p
        BY <1>4, <1>13, <2>0, <2>2
      <4> QED
        BY <1>12, <4>1
    <3> QED
      BY <1>10, <2>2, <3>1
  <2>3. CASE p < i /\ i - 1 \in 1..n /\ p <= i - 1 /\ u[i] = l[i - 1]
    <3>1. p < j /\ j - 1 \in 1..n /\ p <= j - 1 /\ u[j] = l[j - 1]
      <4>1. ~(j < p) /\ j # p
        BY <1>4, <1>13, <2>0, <2>3
      <4> QED
        BY <1>12, <4>1
    <3>2. i - 1 < j - 1
      BY <1>13, <2>0
    <3> QED
      BY <1>11, <2>3, <3>1, <3>2
  <2> QED
    BY <1>12, <2>1, <2>2, <2>3
<1>14. ASSUME NEW t \in e.tailKey
       PROVE  t \in s /\ u # <<>> /\ \A i \in DOMAIN t, j \in DOMAIN u : qos[t[i]] < qos[u[j]]
  <2>1. t \in c.tailKey /\ t \in s /\ l # <<>> /\ \A i \in DOMAIN t, j \in DOMAIN l : pos[t[i]] < pos[l[j]]
    BY <1>14 DEF Fine
  <2>2. u # <<>>
    BY <1>1, <1>7, EmptySeq
  <2>3. ASSUME NEW i \in DOMAIN t PROVE qos[t[i]] < qos[m] /\ \A j \in 1..n : qos[t[i]] < qos[l[j]]
    <3>1. t[i] \in Msg /\ t[i] # m /\ pos[t[i]] \in Int /\ qos[t[i]] = 2 * pos[t[i]]
      BY <1>2, <1>6, <2>1
    <3>2. \A j \in 1..n : pos[t[i]] < pos[l[j]] /\ qos[l[j]] = 2 * pos[l[j]]
      BY <1>1, <1>6, <2>1
    <3>3. \A j \in 1..n : qos[t[i]] < qos[l[j]]
      BY <1>5, <3>1, <3>2
    <3>4. qos[t[i]] < qos[m]
      <4>1. CASE p <= n
        <5>1. p \in 1..n /\ pos[l[p]] \in Int /\ pos[t[i]] < pos[l[p]]
          BY <1>1, <1>4, <1>5, <3>2, <4>1
        <5> QED
          BY <1>6, <3>1, <4>1, <5>1
      <4>2. CASE ~(p <= n)
        <5>1. p = n + 1 /\ n # 0 /\ n \in 1..n
          BY <1>1, <1>3, <1>4, <2>1, <4>2
        <5>2. pos[l[n]] \in Int /\ pos[t[i]] < pos[l[n]] /\ qos[m] = 2 * pos[l[n]] + 1
          BY <1>5, <1>6, <3>2, <5>1
        <5> QED
          BY <3>1, <5>2
      <4> QED
        BY <4>1, <4>2
    <3> QED
      BY <3>3, <3>4
  <2> QED
    BY <1>12, <2>1, <2>2, <2>3
<1>15. Fine(HeadKey, e, qos, s)
  BY <1>13, <1>14 DEF Fine, u
<1> QED
  BY <1>6, <1>15 DEF qos

\* A step that changes no chunk and adds or removes no write.
LEMMA ChainStill ==
    ASSUME LiveInv, NEW pos, OrderInv(pos), UNCHANGED <<cache, disk, read, inTurn>>,
           KeysIn(timers') = KeysIn(timers), NoWrites(timers') <=> NoWrites(timers),
           WritesFine(timers', pos, DOMAIN disk, Spoilt),
           \A i \in DOMAIN timers' : IsOf(timers'[i], "chunk") => \E j \in DOMAIN timers : timers'[i] = timers[j]
    PROVE  LiveInv' /\ OrderInv(pos)'
<1>1. Spoilt' <=> Spoilt
  BY DEF Spoilt
<1>2. Stored' = Stored
  BY DEF Stored
<1>3. LiveInv'
  <2>1. \A i \in DOMAIN timers' : IsOf(timers'[i], "chunk") =>
           timers'[i].key \in DOMAIN cache' /\ timers'[i].chunk = cache'[timers'[i].key]
    BY DEF LiveInv
  <2> QED
    BY <2>1 DEF LiveInv
<1>4. OrderInv(pos)'
  <2>1. WritesFine(timers', pos, DOMAIN disk', Spoilt')
    <3>1. CASE Spoilt
      BY <1>1, <3>1 DEF WritesFine
    <3>2. CASE ~Spoilt
      BY <1>1, <3>2 DEF WritesFine
    <3> QED
      BY <3>1, <3>2
  <2> QED
    BY <1>1, <1>2, <2>1 DEF OrderInv
<1> QED
  BY <1>3, <1>4

LEMMA ChainHub ==
    ASSUME TypeOK, LiveInv, NEW pos, OrderInv(pos), HubStep, UNCHANGED convVars
    PROVE  LiveInv' /\ OrderInv(pos)'
<1>0. UNCHANGED <<cache, disk, read, inTurn>> /\ timers \in Seq(TimerType)
  BY DEF convVars, TypeOK
<1>1. WritesFine(timers, pos, DOMAIN disk, Spoilt)
  BY DEF OrderInv
<1>2. CASE timers' = timers
  BY <1>0, <1>1, <1>2, ChainStill
<1>3. CASE PassOn
  <2>1. out # <<>> /\ timers' = timers \o <<MessageWrite(Head(out)), HubWakes>>
    BY <1>3 DEF PassOn
  <2>2. Head(out) \in Msg
    BY <2>1, HeadTailProperties DEF TypeOK
  <2>3. /\ \A i \in DOMAIN timers' : \/ i \in DOMAIN timers /\ timers'[i] = timers[i]
                                     \/ timers'[i] = MessageWrite(Head(out))
                                     \/ timers'[i] = HubWakes
        /\ \A i \in DOMAIN timers : i \in DOMAIN timers' /\ timers'[i] = timers[i]
    BY <1>0, <2>1, <2>2, PassedKinds
  <2>4. ~IsWrite(MessageWrite(Head(out))) /\ ~IsWrite(HubWakes)
    BY DEF IsWrite, MessageWrite, HubWakes
  <2>5. SameWrites(timers, timers')
    BY <2>3, <2>4 DEF SameWrites
  <2>6. /\ WritesFine(timers', pos, DOMAIN disk, Spoilt) /\ KeysIn(timers') = KeysIn(timers)
        /\ NoWrites(timers') <=> NoWrites(timers)
    BY <1>1, <2>5, SameWritesFine
  <2>7. \A t : IsOf(t, "chunk") => IsWrite(t)
    BY DEF IsOf, IsWrite
  <2>8. \A i \in DOMAIN timers' : IsOf(timers'[i], "chunk") => \E j \in DOMAIN timers : timers'[i] = timers[j]
    BY <2>3, <2>4, <2>7
  <2> QED
    BY <1>0, <2>6, <2>8, ChainStill
<1>4. CASE FireMessage \/ FireHub
  <2>1. timers # <<>> /\ timers' = Tail(timers) /\ ~IsWrite(Head(timers))
    BY <1>4 DEF FireMessage, FireHub, HubWakes, IsWrite
  <2>2. WritesFine(timers', pos, DOMAIN disk, Spoilt)
    BY <1>0, <1>1, <2>1, TailFine
  <2>3. /\ KeysIn(timers') = KeysIn(timers) /\ (NoWrites(timers') <=> NoWrites(timers))
        /\ \A i \in DOMAIN timers' : i + 1 \in DOMAIN timers /\ timers'[i] = timers[i + 1]
    BY <1>0, <2>1, KeysTail
  <2> QED
    BY <1>0, <2>2, <2>3, ChainStill
<1> QED
  BY <1>2, <1>3, <1>4 DEF HubStep, Hand, Drop, HubStop

LEMMA ChainNoSplit ==
    ASSUME TypeOK, LiveInv, NEW pos, OrderInv(pos), NoSplit
    PROVE  LiveInv' /\ OrderInv(pos)'
<1>0. /\ UNCHANGED <<cache, disk, read, inTurn>> /\ timers \in Seq(TimerType) /\ splits > 0
      /\ Commanded(timers, <<>>) /\ <<>> \in Seq(TimerType) /\ timers \o <<>> = timers
  BY ConcatEmptySeq DEF NoSplit, Commanded, TypeOK
<1>1. WritesFine(timers, pos, DOMAIN disk, Spoilt)
  BY DEF OrderInv
<1>2. timers' = timers \/ timers' = timers \o <<ConvWakes>>
  BY <1>0, CommandedTypes
<1>3. CASE timers' = timers
  BY <1>0, <1>1, <1>3, ChainStill
<1>4. CASE timers' = timers \o <<ConvWakes>>
  <2>1. /\ \A i \in DOMAIN timers' : (i \in DOMAIN timers /\ timers'[i] = timers[i]) \/ timers'[i] = ConvWakes
        /\ \A i \in DOMAIN timers : i \in DOMAIN timers' /\ timers'[i] = timers[i]
    <3>1. ConvWakes \in TimerType
      BY NewTimers
    <3>2. /\ DOMAIN timers' = 1..Len(timers) + 1 /\ DOMAIN timers = 1..Len(timers) /\ Len(timers) \in Nat
          /\ \A i \in 1..Len(timers) : timers'[i] = timers[i]
          /\ timers'[Len(timers) + 1] = ConvWakes
      BY <1>0, <1>4, <3>1, AfterOne
    <3> QED
      BY <3>2
  <2>2. ~IsWrite(ConvWakes) /\ \A t : IsOf(t, "chunk") => IsWrite(t)
    BY DEF IsWrite, ConvWakes, IsOf
  <2>3. SameWrites(timers, timers')
    BY <2>1, <2>2 DEF SameWrites
  <2>4. /\ WritesFine(timers', pos, DOMAIN disk, Spoilt) /\ KeysIn(timers') = KeysIn(timers)
        /\ NoWrites(timers') <=> NoWrites(timers)
    BY <1>1, <2>3, SameWritesFine
  <2>5. \A i \in DOMAIN timers' : IsOf(timers'[i], "chunk") => \E j \in DOMAIN timers : timers'[i] = timers[j]
    BY <2>1, <2>2
  <2> QED
    BY <1>0, <2>4, <2>5, ChainStill
<1> QED
  BY <1>2, <1>3, <1>4

LEMMA RewrittenKeys ==
    ASSUME NEW ts, NEW us, Rewritten(ts, us)
    PROVE  /\ KeysIn(us) = KeysIn(ts) /\ \A i, d : KeysBefore(us, i, d) = KeysBefore(ts, i, d)
           /\ NoWrites(us) <=> NoWrites(ts)
<1>1. /\ DOMAIN us = DOMAIN ts
      /\ \A i \in DOMAIN ts : /\ IsWrite(us[i]) <=> IsWrite(ts[i])
                              /\ IsWrite(ts[i]) => us[i].key = ts[i].key
  BY DEF Rewritten
<1>2. DOMAIN us = DOMAIN ts
  BY <1>1
<1>3. \A i \in DOMAIN us : IsWrite(us[i]) => IsWrite(ts[i]) /\ us[i].key = ts[i].key
  BY <1>1
<1>4. \A i \in DOMAIN ts : IsWrite(ts[i]) => IsWrite(us[i]) /\ us[i].key = ts[i].key
  BY <1>1
<1>5. KeysIn(us) \subseteq KeysIn(ts) /\ KeysIn(ts) \subseteq KeysIn(us)
  BY ONLY <1>2, <1>3, <1>4 DEF KeysIn
<1>6. ASSUME NEW i, NEW d
      PROVE  KeysBefore(us, i, d) \subseteq KeysBefore(ts, i, d) /\ KeysBefore(ts, i, d) \subseteq KeysBefore(us, i, d)
  BY ONLY <1>2, <1>3, <1>4 DEF KeysBefore
<1>7. NoWrites(us) <=> NoWrites(ts)
  BY ONLY <1>2, <1>3, <1>4 DEF NoWrites
<1>8. \A i, d : KeysBefore(us, i, d) = KeysBefore(ts, i, d)
  BY <1>6
<1> QED
  BY <1>5, <1>7, <1>8

\* Writes whose objects left the cache.
LEMMA ReplacedWrites ==
    ASSUME NEW ts \in Seq(TimerType), NEW ks
    PROVE  /\ DOMAIN Replaced(ts, ks) = DOMAIN ts
           /\ \A i \in DOMAIN ts :
                 /\ IsWrite(Replaced(ts, ks)[i]) <=> IsWrite(ts[i])
                 /\ IsWrite(ts[i]) => /\ Replaced(ts, ks)[i].key = ts[i].key
                                      /\ Replaced(ts, ks)[i].chunk = ts[i].chunk
                 /\ IsOf(ts[i], "past") => IsOf(Replaced(ts, ks)[i], "past")
                 /\ IsOf(ts[i], "chunk") /\ ts[i].key \in ks => IsOf(Replaced(ts, ks)[i], "past")
                 /\ IsOf(Replaced(ts, ks)[i], "chunk") => Replaced(ts, ks)[i] = ts[i] /\ ts[i].key \notin ks
<1>1. /\ Replaced(ts, ks) \in Seq(TimerType) /\ Len(Replaced(ts, ks)) = Len(ts)
      /\ \A i \in 1..Len(ts) :
            Replaced(ts, ks)[i] = IF ts[i].kind = "chunk" /\ ts[i].key \in ks THEN [ts[i] EXCEPT !.kind = "past"]
                                  ELSE ts[i]
  BY ReplacedTypes
<1>2. DOMAIN Replaced(ts, ks) = DOMAIN ts /\ DOMAIN ts = 1..Len(ts) /\ \A i \in DOMAIN ts : ts[i] \in TimerType
  BY <1>1, LenProperties, ElementOfSeq
<1> DEFINE rs == Replaced(ts, ks)
<1> HIDE DEF rs
<1>3. \A i \in DOMAIN ts : \/ /\ ts[i].kind = "chunk" /\ ts[i].key \in ks
                              /\ rs[i].kind = "past" /\ rs[i].key = ts[i].key /\ rs[i].chunk = ts[i].chunk
                           \/ ~(ts[i].kind = "chunk" /\ ts[i].key \in ks) /\ rs[i] = ts[i]
  <2> SUFFICES ASSUME NEW i \in DOMAIN ts
               PROVE  \/ /\ ts[i].kind = "chunk" /\ ts[i].key \in ks
                         /\ rs[i].kind = "past" /\ rs[i].key = ts[i].key /\ rs[i].chunk = ts[i].chunk
                      \/ ~(ts[i].kind = "chunk" /\ ts[i].key \in ks) /\ rs[i] = ts[i]
    OBVIOUS
  <2>1. CASE ts[i].kind = "chunk" /\ ts[i].key \in ks
    <3>1. rs[i] = [ts[i] EXCEPT !.kind = "past"]
      BY <1>1, <1>2, <2>1 DEF rs
    <3> QED
      BY <1>2, <2>1, <3>1, PastProperties
  <2>2. CASE ~(ts[i].kind = "chunk" /\ ts[i].key \in ks)
    BY <1>1, <1>2, <2>2 DEF rs
  <2> QED
    BY <2>1, <2>2
<1>4. \A i \in DOMAIN ts :
         /\ IsWrite(rs[i]) <=> IsWrite(ts[i])
         /\ IsWrite(ts[i]) => rs[i].key = ts[i].key /\ rs[i].chunk = ts[i].chunk
         /\ IsOf(ts[i], "past") => IsOf(rs[i], "past")
         /\ IsOf(ts[i], "chunk") /\ ts[i].key \in ks => IsOf(rs[i], "past")
         /\ IsOf(rs[i], "chunk") => rs[i] = ts[i] /\ ts[i].key \notin ks
  BY <1>3 DEF IsWrite, IsOf
<1> QED
  BY <1>2, <1>4 DEF rs

LEMMA ReplacedFine ==
    ASSUME NEW ts \in Seq(TimerType), NEW ks, NEW pos, NEW d, NEW spoilt, WritesFine(ts, pos, d, spoilt)
    PROVE  WritesFine(Replaced(ts, ks), pos, d, spoilt)
<1> DEFINE us == Replaced(ts, ks)
<1>1. /\ DOMAIN us = DOMAIN ts
      /\ \A i \in DOMAIN ts : /\ IsWrite(us[i]) <=> IsWrite(ts[i])
                              /\ IsWrite(ts[i]) => us[i].key = ts[i].key /\ us[i].chunk = ts[i].chunk
                              /\ IsOf(ts[i], "past") => IsOf(us[i], "past")
  BY ReplacedWrites
<1>2. \A i, e : KeysBefore(us, i, e) = KeysBefore(ts, i, e)
  BY ReplacedRewritten, RewrittenKeys
<1> HIDE DEF us
<1>3. \A i \in DOMAIN ts : IsWrite(ts[i]) => (WriteFine(ts, i, pos, d) => WriteFine(us, i, pos, d))
  BY <1>1, <1>2 DEF WriteFine
<1>4. ASSUME NEW i \in DOMAIN us, IsWrite(us[i])
      PROVE  \/ WriteFine(us, i, pos, d)
             \/ /\ spoilt /\ us[i].key = HeadKey /\ IsOf(us[i], "past")
                /\ \E j \in DOMAIN us : i < j /\ IsWrite(us[j])
  <2>1. i \in DOMAIN ts /\ IsWrite(ts[i]) /\ us[i].key = ts[i].key
    BY <1>1, <1>4
  <2>2. \/ WriteFine(ts, i, pos, d)
        \/ /\ spoilt /\ ts[i].key = HeadKey /\ IsOf(ts[i], "past")
           /\ \E j \in DOMAIN ts : i < j /\ IsWrite(ts[j])
    BY <2>1 DEF WritesFine
  <2>3. (\E j \in DOMAIN ts : i < j /\ IsWrite(ts[j])) => \E j \in DOMAIN us : i < j /\ IsWrite(us[j])
    BY <1>1
  <2> QED
    BY <1>1, <1>3, <2>1, <2>2, <2>3
<1>5. ASSUME spoilt
      PROVE  \E j \in DOMAIN us : /\ IsWrite(us[j]) /\ us[j].key = HeadKey
                                  /\ \A i \in DOMAIN us : IsWrite(us[i]) => i <= j
  <2>1. PICK j \in DOMAIN ts : /\ IsWrite(ts[j]) /\ ts[j].key = HeadKey
                               /\ \A i \in DOMAIN ts : IsWrite(ts[i]) => i <= j
    BY <1>5 DEF WritesFine
  <2> QED
    BY <1>1, <2>1
<1> QED
  BY <1>4, <1>5 DEF WritesFine, us

LEMMA ChainFired ==
    ASSUME TypeOK, LiveInv, NEW pos, OrderInv(pos), FireChunk
    PROVE  LiveInv' /\ OrderInv(pos)'
<1> DEFINE h == Head(timers)
<1>1. /\ timers \in Seq(TimerType) /\ timers # <<>> /\ IsWrite(h) /\ timers' = Tail(timers)
      /\ UNCHANGED <<cache, read, inTurn>>
  BY DEF TypeOK, FireChunk, IsWrite
<1>2. DOMAIN disk' = DOMAIN disk \union {h.key} /\ disk'[h.key] = h.chunk /\ \A k \in DOMAIN disk : k # h.key => disk'[k] = disk[k]
  BY DEF FireChunk, Put
<1>3. WritesFine(timers, pos, DOMAIN disk, Spoilt)
  BY DEF OrderInv
<1>4. /\ WritesFine(timers', pos, DOMAIN disk', Spoilt /\ ~NoWrites(timers'))
      /\ \/ Fine(h.key, h.chunk, pos, DOMAIN disk)
         \/ Spoilt /\ ~NoWrites(timers') /\ h.key = HeadKey
      /\ Spoilt /\ NoWrites(timers') => h.key = HeadKey
  <2>1. timers \in Seq(TimerType) /\ timers # <<>> /\ IsWrite(Head(timers)) /\ WritesFine(timers, pos, DOMAIN disk, Spoilt)
    BY <1>1, <1>3
  <2>2. /\ WritesFine(Tail(timers), pos, DOMAIN disk \union {h.key}, Spoilt /\ ~NoWrites(Tail(timers)))
        /\ \/ Fine(h.key, h.chunk, pos, DOMAIN disk)
           \/ Spoilt /\ ~NoWrites(Tail(timers)) /\ h.key = HeadKey
        /\ Spoilt /\ NoWrites(Tail(timers)) => h.key = HeadKey
    BY ONLY <2>1, FiredFine
  <2>3. timers' = Tail(timers) /\ DOMAIN disk' = DOMAIN disk \union {h.key}
    BY <1>1, <1>2
  <2> QED
    BY ONLY <2>2, <2>3
<1>5. /\ \A i \in DOMAIN timers' : i + 1 \in DOMAIN timers /\ timers'[i] = timers[i + 1]
      /\ KeysIn(timers) = KeysIn(timers') \union {h.key}
      /\ ~NoWrites(timers)
  BY <1>1, KeysTail
<1> HIDE DEF h
<1>6. Spoilt' <=> Spoilt /\ ~NoWrites(timers')
  BY <1>1, <1>5 DEF Spoilt
<1>7. LiveInv'
  <2>1. \A i \in DOMAIN timers' : IsOf(timers'[i], "chunk") =>
           timers'[i].key \in DOMAIN cache' /\ timers'[i].chunk = cache'[timers'[i].key]
    BY <1>1, <1>5 DEF LiveInv
  <2>2. DOMAIN cache' \subseteq DOMAIN disk' \union KeysIn(timers')
    BY <1>1, <1>2, <1>5 DEF LiveInv
  <2>3. \A r \in read' : r.key \in DOMAIN disk'
    BY <1>1, <1>2 DEF LiveInv
  <2> QED
    BY <2>1, <2>2, <2>3 DEF LiveInv
<1>8. Stored \subseteq Stored' /\ DOMAIN disk \subseteq DOMAIN disk'
  BY <1>1, <1>2 DEF Stored
<1>9. \A k \in DOMAIN cache' : Fine(k, cache'[k], pos, Stored')
  BY <1>1, <1>8, FineMore DEF OrderInv
<1>10. \A r \in read' : Fine(r.key, r.chunk, pos, DOMAIN disk')
  BY <1>1, <1>8, FineMore DEF OrderInv
<1>11. ASSUME NEW k \in DOMAIN disk'
       PROVE  Fine(k, disk'[k], pos, DOMAIN disk') \/ (Spoilt' /\ k = HeadKey)
  <2>1. CASE k = h.key
    <3>1. Fine(h.key, h.chunk, pos, DOMAIN disk) => Fine(h.key, h.chunk, pos, DOMAIN disk')
      BY <1>8, FineMore
    <3> QED
      BY <1>2, <1>4, <1>6, <2>1, <3>1
  <2>2. CASE k # h.key
    <3>1. k \in DOMAIN disk /\ disk'[k] = disk[k]
      BY <1>2, <2>2
    <3>2. Fine(k, disk[k], pos, DOMAIN disk) \/ (Spoilt /\ k = HeadKey)
      BY <3>1 DEF OrderInv
    <3>3. Fine(k, disk[k], pos, DOMAIN disk) => Fine(k, disk[k], pos, DOMAIN disk')
      BY <1>8, FineMore
    <3> QED
      BY <1>4, <1>6, <2>2, <3>1, <3>2, <3>3
  <2> QED
    BY <2>1, <2>2
<1>12. WritesFine(timers', pos, DOMAIN disk', Spoilt')
  <2>1. CASE Spoilt'
    BY <1>4, <1>6, <2>1 DEF WritesFine
  <2>2. CASE ~Spoilt'
    BY <1>4, <1>6, <2>2 DEF WritesFine
  <2> QED
    BY <2>1, <2>2
<1>13. Spoilt' => HeadKey \in DOMAIN cache'
  BY <1>1, <1>6 DEF OrderInv
<1> QED
  BY <1>7, <1>9, <1>10, <1>11, <1>12, <1>13 DEF OrderInv

LEMMA ChainWoken ==
    ASSUME TypeOK, TurnInv, LiveInv, NEW pos, OrderInv(pos), FireConv
    PROVE  LiveInv' /\ OrderInv(pos)'
<1>1. /\ timers \in Seq(TimerType) /\ timers # <<>> /\ timers' = Tail(timers) /\ Head(timers) = ConvWakes
      /\ UNCHANGED <<cache, disk, read>> /\ inTurn' = 0
  BY DEF TypeOK, FireConv
<1>2. ~IsWrite(Head(timers)) /\ IsOf(Head(timers), "conversation")
  BY <1>1 DEF IsWrite, IsOf, ConvWakes
<1>3. NoWrites(timers')
  BY <1>1, <1>2, TailKinds DEF TurnInv
<1>4. /\ NoWrites(timers) /\ KeysIn(timers') = KeysIn(timers)
      /\ \A i \in DOMAIN timers' : i + 1 \in DOMAIN timers /\ timers'[i] = timers[i + 1]
  BY <1>1, <1>2, <1>3, KeysTail
<1>5. ~Spoilt /\ ~Spoilt'
  BY <1>1, <1>4 DEF Spoilt
<1>6. WritesFine(timers', pos, DOMAIN disk', Spoilt')
  BY <1>3, <1>5 DEF WritesFine, NoWrites
<1>7. LiveInv'
  <2>1. \A i \in DOMAIN timers' : IsOf(timers'[i], "chunk") =>
           timers'[i].key \in DOMAIN cache' /\ timers'[i].chunk = cache'[timers'[i].key]
    BY <1>1, <1>4 DEF LiveInv
  <2> QED
    BY <1>1, <1>4, <2>1 DEF LiveInv
<1>8. Stored' = Stored
  BY <1>1 DEF Stored
<1> QED
  BY <1>1, <1>5, <1>6, <1>7, <1>8 DEF OrderInv

LEMMA ChainRead ==
    ASSUME LiveInv, NEW pos, OrderInv(pos), ReadDisk
    PROVE  LiveInv' /\ OrderInv(pos)'
<1>1. UNCHANGED <<cache, disk, timers, inTurn>>
  BY DEF ReadDisk, hubVars
<1>2. PICK k \in DOMAIN disk \ DOMAIN cache : read' = {[key |-> k, chunk |-> disk[k]]}
  BY DEF ReadDisk
<1>3. (Spoilt' <=> Spoilt) /\ Stored' = Stored
  BY <1>1 DEF Spoilt, Stored
<1>4. Fine(k, disk[k], pos, DOMAIN disk)
  BY DEF OrderInv
<1>5. \A r \in read' : r.key \in DOMAIN disk' /\ Fine(r.key, r.chunk, pos, DOMAIN disk')
  BY <1>1, <1>2, <1>4
<1>6. WritesFine(timers', pos, DOMAIN disk', Spoilt')
  <2>1. WritesFine(timers, pos, DOMAIN disk, Spoilt)
    BY DEF OrderInv
  <2>2. CASE Spoilt
    BY <1>1, <1>3, <2>1, <2>2 DEF WritesFine
  <2>3. CASE ~Spoilt
    BY <1>1, <1>3, <2>1, <2>3 DEF WritesFine
  <2> QED
    BY <2>2, <2>3
<1>7. LiveInv'
  BY <1>1, <1>5 DEF LiveInv
<1> QED
  BY <1>1, <1>3, <1>5, <1>6, <1>7 DEF OrderInv

\* An answer of local storage goes to the cache.
LEMMA ChainAnswer ==
    ASSUME TypeOK, LiveInv, NEW pos, OrderInv(pos), ReadDone
    PROVE  LiveInv' /\ OrderInv(pos)'
<1>1. PICK r \in read : /\ read' = {} /\ cache' = Put(cache, r.key, r.chunk)
                        /\ timers' = Replaced(timers, {r.key}) /\ UNCHANGED <<disk, inTurn>>
  BY DEF ReadDone
<1>2. /\ DOMAIN cache' = DOMAIN cache \union {r.key} /\ cache'[r.key] = r.chunk
      /\ \A k \in DOMAIN cache : k # r.key => cache'[k] = cache[k]
  BY <1>1 DEF Put
<1>3. timers \in Seq(TimerType)
  BY DEF TypeOK
<1>4. KeysIn(timers') = KeysIn(timers) /\ (NoWrites(timers') <=> NoWrites(timers))
  BY <1>1, <1>3, ReplacedRewritten, RewrittenKeys
<1>5. r.key \in DOMAIN disk /\ Fine(r.key, r.chunk, pos, DOMAIN disk)
  BY <1>1 DEF LiveInv, OrderInv
<1>6. (Spoilt' <=> Spoilt) /\ Stored' = Stored
  BY <1>1, <1>2, <1>4, <1>5 DEF Spoilt, Stored
<1>7. WritesFine(timers', pos, DOMAIN disk, Spoilt)
  BY <1>1, <1>3, ReplacedFine DEF OrderInv
<1>8. WritesFine(timers', pos, DOMAIN disk', Spoilt')
  <2>1. CASE Spoilt
    BY <1>1, <1>6, <1>7, <2>1 DEF WritesFine
  <2>2. CASE ~Spoilt
    BY <1>1, <1>6, <1>7, <2>2 DEF WritesFine
  <2> QED
    BY <2>1, <2>2
<1>9. \A k \in DOMAIN cache' : Fine(k, cache'[k], pos, Stored')
  <2> SUFFICES ASSUME NEW k \in DOMAIN cache' PROVE Fine(k, cache'[k], pos, Stored)
    BY <1>6
  <2>1. CASE k = r.key
    <3>1. DOMAIN disk \subseteq Stored
      BY DEF Stored
    <3> QED
      BY <1>2, <1>5, <2>1, <3>1, FineMore
  <2>2. CASE k # r.key
    BY <1>2, <2>2 DEF OrderInv
  <2> QED
    BY <2>1, <2>2
<1>10. LiveInv'
  <2>1. ASSUME NEW i \in DOMAIN timers', IsOf(timers'[i], "chunk")
        PROVE  timers'[i].key \in DOMAIN cache' /\ timers'[i].chunk = cache'[timers'[i].key]
    <3>1. i \in DOMAIN timers /\ timers'[i] = timers[i] /\ timers[i].key # r.key
      BY <1>1, <1>3, <2>1, ReplacedWrites
    <3>2. timers[i].key \in DOMAIN cache /\ timers[i].chunk = cache[timers[i].key]
      BY <2>1, <3>1 DEF LiveInv
    <3> QED
      BY <1>2, <3>1, <3>2
  <2>2. DOMAIN cache' \subseteq DOMAIN disk' \union KeysIn(timers')
    BY <1>1, <1>2, <1>4, <1>5 DEF LiveInv
  <2>3. \A s \in read' : s.key \in DOMAIN disk'
    BY <1>1
  <2> QED
    BY <2>1, <2>2, <2>3 DEF LiveInv
<1> QED
  BY <1>1, <1>6, <1>8, <1>9, <1>10, <1>2 DEF OrderInv

LEMMA ChainStopped ==
    ASSUME TypeOK, LiveInv, NEW pos, OrderInv(pos), ConvStop, ~torn'
    PROVE  LiveInv' /\ OrderInv(pos)'
<1>1. /\ cache' = NoChunks /\ timers' = Replaced(timers, DOMAIN cache) /\ UNCHANGED <<disk, read, inTurn>>
      /\ ~(Writes # {} /\ inTurn > 1) /\ timers \in Seq(TimerType) /\ DOMAIN cache' = {}
  BY NoChunksTypes DEF ConvStop, TypeOK
<1>2. NoWrites(timers) <=> Writes = {}
  BY DEF NoWrites, Writes, IsWrite
<1>3. KeysIn(timers') = KeysIn(timers) /\ (NoWrites(timers') <=> NoWrites(timers))
  BY <1>1, ReplacedRewritten, RewrittenKeys
<1>4. ~Spoilt /\ ~Spoilt'
  BY <1>1, <1>2, <1>3 DEF Spoilt
<1>5. WritesFine(timers', pos, DOMAIN disk, Spoilt)
  BY <1>1, ReplacedFine DEF OrderInv
<1>6. WritesFine(timers', pos, DOMAIN disk', Spoilt')
  BY <1>1, <1>4, <1>5 DEF WritesFine
<1>7. \A k \in DOMAIN disk' : Fine(k, disk'[k], pos, DOMAIN disk')
  BY <1>1, <1>4 DEF OrderInv
<1>8. \A r \in read' : Fine(r.key, r.chunk, pos, DOMAIN disk') /\ r.key \in DOMAIN disk'
  BY <1>1 DEF OrderInv, LiveInv
<1>9. LiveInv'
  <2>1. ASSUME NEW i \in DOMAIN timers', IsOf(timers'[i], "chunk") PROVE FALSE
    <3>1. i \in DOMAIN timers /\ timers'[i] = timers[i] /\ timers[i].key \notin DOMAIN cache
      BY <1>1, <2>1, ReplacedWrites
    <3> QED
      BY <2>1, <3>1 DEF LiveInv
  <2> QED
    BY <1>1, <1>8, <2>1 DEF LiveInv
<1> QED
  BY <1>1, <1>4, <1>6, <1>7, <1>8, <1>9 DEF OrderInv

LEMMA ChainClosed ==
    ASSUME LiveInv, NEW pos, OrderInv(pos), Close, ~torn'
    PROVE  LiveInv' /\ OrderInv(pos)'
<1>1. /\ cache' = NoChunks /\ timers' = <<>> /\ read' = {} /\ disk' = disk /\ inTurn' = 0
      /\ ~(timers # <<>> /\ inTurn > 1) /\ DOMAIN cache' = {} /\ DOMAIN timers' = {}
  <2>1. cache' = NoChunks /\ timers' = <<>> /\ read' = {} /\ disk' = disk /\ inTurn' = 0
    BY DEF Close, HubClose
  <2>2. torn' = (torn \/ (timers # <<>> /\ inTurn > 1))
    BY DEF Close
  <2>3. ~(timers # <<>> /\ inTurn > 1)
    BY <2>2
  <2>4. DOMAIN cache' = {} /\ DOMAIN timers' = {}
    BY <2>1, NoChunksTypes
  <2> QED
    BY <2>1, <2>3, <2>4
<1>2. ~Spoilt /\ ~Spoilt'
  <2>1. timers = <<>> => NoWrites(timers)
    BY DEF NoWrites
  <2> QED
    BY <1>1, <2>1 DEF Spoilt
<1>3. WritesFine(timers', pos, DOMAIN disk', Spoilt')
  BY <1>1, <1>2 DEF WritesFine
<1>4. \A k \in DOMAIN disk' : Fine(k, disk'[k], pos, DOMAIN disk')
  BY <1>1, <1>2 DEF OrderInv
<1>5. LiveInv'
  BY <1>1 DEF LiveInv
<1> QED
  BY <1>1, <1>2, <1>3, <1>4, <1>5 DEF OrderInv

LEMMA ChainRest ==
    ASSUME TypeOK, TurnInv, LiveInv, NEW pos, OrderInv(pos), ~torn',
           TrySplit \/ FireChunk \/ FireConv \/ ReadDisk \/ ReadDone \/ ConvStop \/ Close
    PROVE  LiveInv' /\ OrderInv(pos)'
<1>1. CASE TrySplit
  <2>1. UNCHANGED <<cache, disk, read, inTurn, timers>>
    BY <1>1 DEF TrySplit, hubVars
  <2> QED
    BY <2>1, ChainStill DEF OrderInv
<1> QED
  BY <1>1, ChainFired, ChainWoken, ChainRead, ChainAnswer, ChainStopped, ChainClosed

\* A step that puts chunks into the cache and sets their writes.
LEMMA ChainWritten ==
    ASSUME LiveInv, NEW pos, UNCHANGED <<disk, read>>,
           NEW ts \in Seq(TimerType), NEW ws \in Seq(TimerType), KeysIn(ts) = KeysIn(timers),
           Follow(timers', ts, ws), inTurn \in Nat, inTurn' \in Nat, inTurn' >= inTurn,
           OldFine(ts, pos, DOMAIN disk, inTurn' > 1), NewFine(ws, pos, DOMAIN disk \union KeysIn(timers)),
           \A i \in DOMAIN ts : IsOf(ts[i], "chunk") =>
              ts[i].key \in DOMAIN cache' /\ ts[i].chunk = cache'[ts[i].key],
           \A i \in DOMAIN ws : ws[i].key \in DOMAIN cache' /\ ws[i].chunk = cache'[ws[i].key],
           DOMAIN cache' \subseteq DOMAIN cache \union KeysIn(ws),
           \A k \in DOMAIN cache' : Fine(k, cache'[k], pos, Stored'),
           \A k \in DOMAIN disk : Fine(k, disk[k], pos, DOMAIN disk) \/ (Spoilt /\ k = HeadKey),
           \A r \in read : Fine(r.key, r.chunk, pos, DOMAIN disk)
    PROVE  LiveInv' /\ OrderInv(pos)'
<1>1. /\ WritesFine(timers', pos, DOMAIN disk, inTurn' > 1) /\ ~NoWrites(timers')
      /\ KeysIn(timers') = KeysIn(ts) \union KeysIn(ws)
      /\ FromEither(timers', ts, ws)
  <2> DEFINE d == DOMAIN disk
             spoilt == inTurn' > 1
             us == timers'
  <2>1. /\ ts \in Seq(TimerType) /\ ws \in Seq(TimerType) /\ OldFine(ts, pos, d, spoilt)
        /\ NewFine(ws, pos, d \union KeysIn(ts)) /\ Follow(us, ts, ws)
    OBVIOUS
  <2> HIDE DEF d, spoilt, us
  <2>2. /\ WritesFine(us, pos, d, spoilt) /\ ~NoWrites(us)
        /\ KeysIn(us) = KeysIn(ts) \union KeysIn(ws)
        /\ FromEither(us, ts, ws)
    BY ONLY <2>1, WrittenFine
  <2> QED
    BY ONLY <2>2 DEF d, spoilt, us
<1>2. Spoilt' <=> inTurn' > 1
  BY <1>1 DEF Spoilt
<1>3. Spoilt => Spoilt'
  BY <1>2 DEF Spoilt
<1>4. WritesFine(timers', pos, DOMAIN disk', Spoilt')
  <2>1. CASE Spoilt'
    BY <1>1, <1>2, <2>1 DEF WritesFine
  <2>2. CASE ~Spoilt'
    BY <1>1, <1>2, <2>2 DEF WritesFine
  <2> QED
    BY <2>1, <2>2
<1>5. HeadKey \in DOMAIN cache'
  BY DEF NewFine
<1>6. LiveInv'
  <2>1. ASSUME NEW i \in DOMAIN timers', IsOf(timers'[i], "chunk")
        PROVE  timers'[i].key \in DOMAIN cache' /\ timers'[i].chunk = cache'[timers'[i].key]
    <3>1. IsWrite(timers'[i])
      BY <2>1 DEF IsOf, IsWrite
    <3>2. (\E j \in DOMAIN ts : timers'[i] = ts[j]) \/ (\E j \in DOMAIN ws : timers'[i] = ws[j])
      BY <1>1, <2>1, <3>1 DEF FromEither
    <3> QED
      BY <2>1, <3>2
  <2>2. DOMAIN cache' \subseteq DOMAIN disk' \union KeysIn(timers')
    BY <1>1 DEF LiveInv
  <2>3. \A r \in read' : r.key \in DOMAIN disk'
    BY DEF LiveInv
  <2> QED
    BY <2>1, <2>2, <2>3 DEF LiveInv
<1> QED
  BY <1>3, <1>4, <1>5, <1>6 DEF OrderInv

\* A message that is about to be inserted is in no chunk.
LEMMA HeadIsNew ==
    ASSUME TypeOK, FreshInv, toConv # <<>>
    PROVE  /\ Head(toConv) \in Msg
           /\ \A k \in DOMAIN cache : Head(toConv) \notin Messages(cache[k]) /\ cache[k] \in ChunkType
           /\ \A k \in DOMAIN disk : Head(toConv) \notin Messages(disk[k]) /\ disk[k] \in ChunkType
           /\ \A r \in read : Head(toConv) \notin Messages(r.chunk) /\ r.chunk \in ChunkType
           /\ \A i \in DOMAIN timers : IsWrite(timers[i]) =>
                 Head(toConv) \notin Messages(timers[i].chunk) /\ timers[i].chunk \in ChunkType
           /\ \A k : Head(toConv) \notin Messages(Chunk(k))
<1>1. toConv \in Seq(Msg) /\ IsInjective(toConv)
  BY DEF TypeOK, FreshInv
<1>2. Head(toConv) \in Msg /\ Head(toConv) \in ToSet(toConv)
  BY <1>1, HeadTailProperties, TailSet
<1>3. \A k \in DOMAIN cache : Head(toConv) \notin Messages(cache[k]) /\ cache[k] \in ChunkType
  BY <1>2 DEF FreshInv, TypeOK, ChunksType
<1>4. \A k \in DOMAIN disk : Head(toConv) \notin Messages(disk[k]) /\ disk[k] \in ChunkType
  BY <1>2 DEF FreshInv, TypeOK, ChunksType
<1>5. \A r \in read : Head(toConv) \notin Messages(r.chunk) /\ r.chunk \in ChunkType
  BY <1>2 DEF FreshInv, TypeOK
<1>6. \A i \in DOMAIN timers : IsWrite(timers[i]) =>
         Head(toConv) \notin Messages(timers[i].chunk) /\ timers[i].chunk \in ChunkType
  <2>1. \A i \in DOMAIN timers : timers[i] \in TimerType
    BY ElementOfSeq, LenProperties DEF TypeOK
  <2> QED
    BY <1>2, <2>1, TimerKinds DEF FreshInv, WritesKnown
<1>7. \A k : Head(toConv) \notin Messages(Chunk(k))
  BY <1>2, ChunkListed DEF ListedNow
<1> QED
  BY <1>2, <1>3, <1>4, <1>5, <1>6, <1>7

\* The objects of the first chunk changed.
LEMMA ChangedWrites ==
    ASSUME NEW ts \in Seq(TimerType), NEW k \in Seq(Msg), NEW c \in ChunkType
    PROVE  /\ Changed(ts, k, c) \in Seq(TimerType) /\ DOMAIN Changed(ts, k, c) = DOMAIN ts
           /\ \A i \in DOMAIN ts : \/ /\ IsOf(ts[i], "chunk") /\ ts[i].key = k
                                      /\ Changed(ts, k, c)[i] = ChunkWrite(k, c)
                                   \/ ~(IsOf(ts[i], "chunk") /\ ts[i].key = k) /\ Changed(ts, k, c)[i] = ts[i]
<1>1. /\ Changed(ts, k, c) \in Seq(TimerType) /\ Len(Changed(ts, k, c)) = Len(ts)
      /\ \A i \in 1..Len(ts) :
            Changed(ts, k, c)[i] = IF ts[i].kind = "chunk" /\ ts[i].key = k THEN ChunkWrite(k, c) ELSE ts[i]
  BY ChangedTypes
<1>2. DOMAIN Changed(ts, k, c) = DOMAIN ts /\ DOMAIN ts = 1..Len(ts)
  BY <1>1, LenProperties
<1> QED
  BY <1>1, <1>2 DEF IsOf

LEMMA ChunkWriteIs ==
    ASSUME NEW k, NEW c
    PROVE  /\ ChunkWrite(k, c).key = k /\ ChunkWrite(k, c).chunk = c
           /\ IsOf(ChunkWrite(k, c), "chunk") /\ IsWrite(ChunkWrite(k, c))
  BY DEF ChunkWrite, IsOf, IsWrite

LEMMA ChainInsert ==
    ASSUME TypeOK, FreshInv, LiveInv, NEW pos \in [Msg -> Int], OrderInv(pos), Insert
    PROVE  LiveInv' /\ \E qos \in [Msg -> Int] : OrderInv(qos)'
<1> DEFINE m == Head(toConv)
           c == [First EXCEPT !.list = Entered(@, m)]
<1>1. /\ toConv # <<>> /\ cache' = Put(cache, HeadKey, c) /\ UNCHANGED <<disk, read, inTurn>>
      /\ timers' = Changed(timers, HeadKey, c) \o <<ChunkWrite(HeadKey, c), ConvWakes>>
  BY DEF Insert, First
<1>2. /\ m \in Msg
      /\ \A k \in DOMAIN cache : m \notin Messages(cache[k]) /\ cache[k] \in ChunkType
      /\ \A k \in DOMAIN disk : m \notin Messages(disk[k]) /\ disk[k] \in ChunkType
      /\ \A r \in read : m \notin Messages(r.chunk) /\ r.chunk \in ChunkType
      /\ \A i \in DOMAIN timers : IsWrite(timers[i]) =>
            m \notin Messages(timers[i].chunk) /\ timers[i].chunk \in ChunkType
      /\ m \notin Messages(First)
  BY <1>1, HeadIsNew DEF First
<1> HIDE DEF m
<1>3. First \in ChunkType /\ First.list \in Seq(Msg) /\ timers \in Seq(TimerType) /\ HeadKey \in Seq(Msg)
  BY ChunkTypes, EmptyTypes DEF First, ChunkType, TypeOK
<1>4. PICK p \in 1..Len(First.list) + 1 : /\ Entered(First.list, m) \in Seq(Msg)
                                          /\ Entered(First.list, m) = InsertAt(First.list, p, m)
  BY <1>2, <1>3, EnteredPlace
<1>5. c \in ChunkType /\ c.list = InsertAt(First.list, p, m) /\ c.tailKey = First.tailKey
  BY <1>3, <1>4 DEF ChunkType
<1> HIDE DEF c
<1>7. Fine(HeadKey, First, pos, Stored)
  BY ChunkFine DEF First
<1>8. PICK qos \in [Msg -> Int] : /\ \A s : Fine(HeadKey, First, pos, s) => Fine(HeadKey, c, qos, s)
                                  /\ \A x \in Msg : x # m => qos[x] = 2 * pos[x]
  <2> DEFINE q == Spaced(pos, First.list, p, m)
  <2>1. \A s : Fine(HeadKey, First, pos, s) => q \in [Msg -> Int] /\ Fine(HeadKey, c, q, s)
    BY <1>2, <1>3, <1>4, <1>5, EnteredFine
  <2>2. q \in [Msg -> Int] /\ \A x \in Msg : x # m => q[x] = 2 * pos[x]
    BY <1>7, <2>1 DEF Spaced
  <2> HIDE DEF q
  <2> QED
    BY <2>1, <2>2
<1>6. \A s : Fine(HeadKey, First, pos, s) => Fine(HeadKey, c, qos, s)
  BY <1>8
<1>9. \A k, s : \A b \in ChunkType : m \notin Messages(b) /\ Fine(k, b, pos, s) => Fine(k, b, qos, s)
  BY <1>8, SpacedFine
<1> DEFINE ts == Changed(timers, HeadKey, c)
           ws == <<ChunkWrite(HeadKey, c)>>
<1>10. /\ ts \in Seq(TimerType) /\ DOMAIN ts = DOMAIN timers /\ Rewritten(timers, ts)
       /\ \A i \in DOMAIN timers : \/ /\ IsOf(timers[i], "chunk") /\ timers[i].key = HeadKey
                                      /\ ts[i] = ChunkWrite(HeadKey, c)
                                   \/ ~(IsOf(timers[i], "chunk") /\ timers[i].key = HeadKey) /\ ts[i] = timers[i]
  BY <1>3, <1>5, ChangedWrites, ChangedRewritten
<1>11. KeysIn(ts) = KeysIn(timers) /\ \A i, d : KeysBefore(ts, i, d) = KeysBefore(timers, i, d)
  BY <1>10, RewrittenKeys
<1>12. /\ ChunkWrite(HeadKey, c).key = HeadKey /\ ChunkWrite(HeadKey, c).chunk = c
       /\ IsOf(ChunkWrite(HeadKey, c), "chunk") /\ IsWrite(ChunkWrite(HeadKey, c))
       /\ ChunkWrite(HeadKey, c) \in TimerType
  BY <1>3, <1>5, ChunkWriteIs, NewTimers
<1>13. ws \in Seq(TimerType) /\ Len(ws) = 1 /\ DOMAIN ws = {1} /\ ws[1] = ChunkWrite(HeadKey, c)
  BY <1>12
<1>14. Follow(timers', ts, ws)
  <2>1. timers' = (ts \o ws) \o <<ConvWakes>>
    BY <1>1, <1>10, <1>12, WriteThenWake
  <2> QED
    BY <2>1 DEF Follow
<1> HIDE DEF ts, ws
<1>15. inTurn \in Nat /\ inTurn' \in Nat /\ inTurn' >= inTurn
  BY <1>1 DEF TypeOK
<1>16. OldFine(ts, qos, DOMAIN disk, inTurn' > 1)
  <2> SUFFICES ASSUME NEW i \in DOMAIN timers, IsWrite(ts[i])
               PROVE  \/ WriteFine(ts, i, qos, DOMAIN disk)
                      \/ inTurn' > 1 /\ ts[i].key = HeadKey /\ IsOf(ts[i], "past")
    BY <1>10 DEF OldFine
  <2>1. CASE IsOf(timers[i], "chunk") /\ timers[i].key = HeadKey /\ ts[i] = ChunkWrite(HeadKey, c)
    <3>1. timers[i].chunk = First /\ IsWrite(timers[i]) /\ ~IsOf(timers[i], "past")
      BY <2>1 DEF LiveInv, First, Chunk, IsWrite, IsOf
    <3>2. WriteFine(timers, i, pos, DOMAIN disk)
      BY <3>1 DEF OrderInv, WritesFine
    <3>3. Fine(HeadKey, First, pos, KeysBefore(timers, i, DOMAIN disk))
      BY <2>1, <3>1, <3>2 DEF WriteFine
    <3>4. Fine(HeadKey, c, qos, KeysBefore(ts, i, DOMAIN disk))
      BY <1>6, <1>11, <3>3
    <3> QED
      BY <1>12, <2>1, <3>4 DEF WriteFine
  <2>2. CASE ts[i] = timers[i]
    <3>1. IsWrite(timers[i]) /\ m \notin Messages(timers[i].chunk) /\ timers[i].chunk \in ChunkType
      BY <1>2, <2>2
    <3>2. WriteFine(timers, i, pos, DOMAIN disk) \/ (Spoilt /\ timers[i].key = HeadKey /\ IsOf(timers[i], "past"))
      BY <3>1 DEF OrderInv, WritesFine
    <3>3. WriteFine(timers, i, pos, DOMAIN disk) => WriteFine(ts, i, qos, DOMAIN disk)
      BY <1>9, <1>11, <2>2, <3>1 DEF WriteFine
    <3>4. Spoilt => inTurn' > 1
      BY <1>1 DEF Spoilt
    <3> QED
      BY <2>2, <3>2, <3>3, <3>4
  <2> QED
    BY <1>10, <2>1, <2>2
<1>17. Stored \subseteq DOMAIN disk \union KeysIn(timers)
  BY DEF Stored, LiveInv
<1>18. NewFine(ws, qos, DOMAIN disk \union KeysIn(timers))
  <2>1. Fine(HeadKey, c, qos, Stored)
    BY <1>6, <1>7
  <2>2. Fine(HeadKey, c, qos, KeysBefore(ws, 1, DOMAIN disk \union KeysIn(timers)))
    <3>1. DOMAIN disk \union KeysIn(timers) \subseteq KeysBefore(ws, 1, DOMAIN disk \union KeysIn(timers))
      BY DEF KeysBefore
    <3>2. Stored \subseteq KeysBefore(ws, 1, DOMAIN disk \union KeysIn(timers))
      BY <1>17, <3>1
    <3> QED
      BY <2>1, <3>2, FineMore
  <2> QED
    BY <1>12, <1>13, <2>2 DEF NewFine, WriteFine
<1>19. /\ DOMAIN cache' = DOMAIN cache \union {HeadKey} /\ cache'[HeadKey] = c
       /\ \A k \in DOMAIN cache : k # HeadKey => cache'[k] = cache[k]
  BY <1>1 DEF Put
<1>20. \A i \in DOMAIN ts : IsOf(ts[i], "chunk") =>
          ts[i].key \in DOMAIN cache' /\ ts[i].chunk = cache'[ts[i].key]
  <2> SUFFICES ASSUME NEW i \in DOMAIN timers, IsOf(ts[i], "chunk")
               PROVE  ts[i].key \in DOMAIN cache' /\ ts[i].chunk = cache'[ts[i].key]
    BY <1>10
  <2>1. CASE ts[i] = ChunkWrite(HeadKey, c)
    BY <1>12, <1>19, <2>1
  <2>2. CASE ~(IsOf(timers[i], "chunk") /\ timers[i].key = HeadKey) /\ ts[i] = timers[i]
    BY <1>19, <2>2 DEF LiveInv
  <2> QED
    BY <1>10, <2>1, <2>2
<1>21. \A i \in DOMAIN ws : ws[i].key \in DOMAIN cache' /\ ws[i].chunk = cache'[ws[i].key]
  BY <1>12, <1>13, <1>19
<1>22. DOMAIN cache' \subseteq DOMAIN cache \union KeysIn(ws)
  BY <1>12, <1>13, <1>19 DEF KeysIn
<1>23. Stored \subseteq Stored'
  BY <1>1, <1>19 DEF Stored
<1>24. \A k \in DOMAIN cache' : Fine(k, cache'[k], qos, Stored')
  <2> SUFFICES ASSUME NEW k \in DOMAIN cache' PROVE Fine(k, cache'[k], qos, Stored)
    BY <1>23, FineMore
  <2>1. CASE k = HeadKey
    BY <1>6, <1>7, <1>19, <2>1
  <2>2. CASE k # HeadKey
    <3>1. k \in DOMAIN cache /\ cache'[k] = cache[k]
      BY <1>19, <2>2
    <3> QED
      BY <1>2, <1>9, <3>1 DEF OrderInv
  <2> QED
    BY <2>1, <2>2
<1>25. \A k \in DOMAIN disk : Fine(k, disk[k], qos, DOMAIN disk) \/ (Spoilt /\ k = HeadKey)
  BY <1>2, <1>9 DEF OrderInv
<1>26. \A r \in read : Fine(r.key, r.chunk, qos, DOMAIN disk)
  BY <1>2, <1>9 DEF OrderInv
<1>27. UNCHANGED <<disk, read>>
  BY <1>1
<1>28. LiveInv' /\ OrderInv(qos)'
  BY ONLY LiveInv, <1>10, <1>11, <1>13, <1>14, <1>15, <1>16, <1>18, <1>20, <1>21, <1>22, <1>24, <1>25, <1>26, <1>27, ChainWritten
<1> QED
  BY <1>8, <1>28

\* The parts of a split are in order.
LEMMA PartsFine ==
    ASSUME TypeOK, NEW pos \in [Msg -> Int], OrderInv(pos), Len(First.list) > SplitThreshold
    PROVE  /\ CutKey # HeadKey
           /\ \A s : CutKey \in s => Fine(HeadKey, Rest(First, CutKey), pos, s)
           /\ \A s : Fine(CutKey, OnePart, pos, s)
           /\ \A tk \in First.tailKey :
                 /\ tk \in Stored /\ tk # CutKey /\ tk # HeadKey /\ tk \in Seq(Msg)
                 /\ \A s : tk \in s => Fine(CutKey, Part(tk), pos, s)
                 /\ \A s : Stored \subseteq s => Fine(tk, Tailed(tk), pos, s)
<1> DEFINE l == First.list
           n == Len(First.list)
           rest == Rest(First, CutKey)
<1>1. /\ CutKey \in SplitKey /\ CutKey \in Seq(Msg) /\ Len(CutKey) = ChunkSize /\ ChunkSize \in Nat \ {0}
      /\ n \in Nat /\ ChunkSize < n
      /\ \A i \in 1..ChunkSize : CutKey[i] = l[i]
      /\ rest.tailKey = {CutKey} /\ rest \in ChunkType
      /\ Len(rest.list) = n - ChunkSize
      /\ \A i \in 1..n - ChunkSize : rest.list[i] = l[ChunkSize + i]
  BY CutProperties
<1>2. DOMAIN CutKey = 1..ChunkSize /\ DOMAIN rest.list = 1..n - ChunkSize /\ DOMAIN l = 1..n /\ rest.list # <<>>
  <2>1. rest.list \in Seq(Msg) /\ l \in Seq(Msg)
    BY <1>1, ChunkTypes DEF First, ChunkType
  <2>2. rest.list # <<>>
    BY <1>1, <2>1, EmptySeq
  <2> QED
    BY <1>1, <2>1, <2>2, LenProperties
<1>3. Fine(HeadKey, First, pos, Stored)
  BY ChunkFine DEF First
<1>4. \A i, j \in 1..n : i < j => pos[l[i]] < pos[l[j]]
  BY <1>2, <1>3 DEF Fine
<1>5. CutKey # HeadKey
  BY <1>1 DEF SplitKey
<1> HIDE DEF l, n, rest
<1>6. \A i, j \in DOMAIN CutKey : i < j => pos[CutKey[i]] < pos[CutKey[j]]
  <2>1. \A i \in 1..ChunkSize : i \in 1..n
    BY <1>1
  <2> QED
    BY <1>1, <1>2, <1>4, <2>1
<1>7. \A i, j \in DOMAIN rest.list : i < j => pos[rest.list[i]] < pos[rest.list[j]]
  <2> SUFFICES ASSUME NEW i \in DOMAIN rest.list, NEW j \in DOMAIN rest.list, i < j
               PROVE  pos[rest.list[i]] < pos[rest.list[j]]
    OBVIOUS
  <2>1. ChunkSize + i \in 1..n /\ ChunkSize + j \in 1..n /\ ChunkSize + i < ChunkSize + j
    BY <1>1, <1>2
  <2> QED
    BY <1>1, <1>2, <1>4, <2>1
<1>8. ASSUME NEW i \in DOMAIN CutKey, NEW j \in DOMAIN rest.list
      PROVE  pos[CutKey[i]] < pos[rest.list[j]]
  <2>1. i \in 1..n /\ ChunkSize + j \in 1..n /\ i < ChunkSize + j
    BY <1>1, <1>2
  <2> QED
    BY <1>1, <1>2, <1>4, <2>1
<1>9. \A s : CutKey \in s => Fine(HeadKey, rest, pos, s)
  BY <1>1, <1>2, <1>7, <1>8 DEF Fine
<1>10. \A s : Fine(CutKey, OnePart, pos, s)
  BY <1>6 DEF Fine, OnePart
<1>11. ASSUME NEW tk \in First.tailKey
       PROVE  /\ tk \in Stored /\ tk # CutKey /\ tk # HeadKey /\ tk \in Seq(Msg)
              /\ \A s : tk \in s => Fine(CutKey, Part(tk), pos, s)
              /\ \A s : Stored \subseteq s => Fine(tk, Tailed(tk), pos, s)
  <2>1. tk \in SplitKey /\ Tailed(tk).list = Chunk(tk).list /\ Tailed(tk).tailKey = Chunk(tk).tailKey
    BY PartTypes
  <2>2. tk \in Stored /\ \A i \in DOMAIN tk, j \in DOMAIN l : pos[tk[i]] < pos[l[j]]
    BY <1>3 DEF Fine, l
  <2>3. CutKey # <<>> /\ \A i \in DOMAIN tk, j \in DOMAIN CutKey : pos[tk[i]] < pos[CutKey[j]]
    <3>1. \A j \in DOMAIN CutKey : j \in DOMAIN l /\ CutKey[j] = l[j]
      BY <1>1, <1>2
    <3> QED
      BY <1>5, <2>2, <3>1 DEF HeadKey
  <2>4. tk # CutKey
    <3>1. 1 \in DOMAIN CutKey /\ 1 \in DOMAIN l /\ CutKey[1] = l[1]
      BY <1>1, <1>2
    <3>2. ASSUME tk = CutKey PROVE FALSE
      <4>1. pos[l[1]] < pos[l[1]]
        BY <2>2, <3>1, <3>2
      <4>2. l[1] \in Msg
        BY <3>1, <1>1, ElementOfSeq
      <4>3. pos[l[1]] \in Int
        BY <4>2
      <4> QED
        BY ONLY <4>1, <4>3
    <3> QED
      BY <3>2
  <2>5. \A s : tk \in s => Fine(CutKey, Part(tk), pos, s)
    BY <1>6, <2>3 DEF Fine, Part
  <2>6. Fine(tk, Chunk(tk), pos, Stored)
    BY <2>2, ChunkFine
  <2>7. Fine(tk, Tailed(tk), pos, Stored)
    BY <2>1, <2>6 DEF Fine
  <2>8. \A s : Stored \subseteq s => Fine(tk, Tailed(tk), pos, s)
    BY <2>7, FineMore
  <2> QED
    BY <2>1, <2>2, <2>4, <2>5, <2>8 DEF SplitKey
<1> QED
  BY <1>5, <1>9, <1>10, <1>11 DEF rest

\* Writes that are due when a split comes are of a split before.
LEMMA WritesAreSplit ==
    ASSUME TypeOK, TurnInv, ~convYields, inTurn' = inTurn + 1
    PROVE  /\ inTurn \in Nat /\ inTurn' \in Nat /\ inTurn' >= inTurn
           /\ \A i \in DOMAIN timers : IsWrite(timers[i]) => inTurn' > 1
<1>1. inTurn \in Nat
  BY DEF TypeOK
<1>2. \A i \in DOMAIN timers : IsWrite(timers[i]) => inTurn # 0
  BY DEF TurnInv, NoWrites
<1> QED
  BY <1>1, <1>2

LEMMA ChainSplitFirst ==
    ASSUME TypeOK, TurnInv, LiveInv, NEW pos \in [Msg -> Int], OrderInv(pos), SplitFirst
    PROVE  LiveInv' /\ OrderInv(pos)'
<1> DEFINE rest == Rest(First, CutKey)
           ks == {HeadKey, CutKey}
<1>1. /\ ~convYields /\ splits > 0 /\ Len(First.list) > SplitThreshold
      /\ cache' = Put(Put(cache, HeadKey, rest), CutKey, OnePart)
      /\ inTurn' = inTurn + 1 /\ Commanded(Timers1, Writes1)
  BY SplitFirstIs
<1>2. UNCHANGED <<disk, read>>
  BY <1>1 DEF Commanded
<1>3. /\ inTurn \in Nat /\ inTurn' \in Nat /\ inTurn' >= inTurn
      /\ \A i \in DOMAIN timers : IsWrite(timers[i]) => inTurn' > 1
  BY <1>1, WritesAreSplit
<1>4. /\ CutKey # HeadKey
      /\ \A s : CutKey \in s => Fine(HeadKey, rest, pos, s)
      /\ \A s : Fine(CutKey, OnePart, pos, s)
  BY <1>1, PartsFine
<1>5. Timers1 \in Seq(TimerType) /\ Writes1 \in Seq(TimerType) /\ timers \in Seq(TimerType)
  BY <1>1, SplitTimersTypes DEF TypeOK
<1>6. /\ DOMAIN Timers1 = DOMAIN timers
      /\ \A i \in DOMAIN timers :
            /\ IsWrite(Timers1[i]) <=> IsWrite(timers[i])
            /\ IsWrite(timers[i]) => Timers1[i].key = timers[i].key /\ Timers1[i].chunk = timers[i].chunk
            /\ IsOf(timers[i], "past") => IsOf(Timers1[i], "past")
            /\ IsOf(Timers1[i], "chunk") => Timers1[i] = timers[i] /\ timers[i].key \notin ks
  BY <1>5, ReplacedWrites DEF Timers1
<1>7. KeysIn(Timers1) = KeysIn(timers) /\ \A i, d : KeysBefore(Timers1, i, d) = KeysBefore(timers, i, d)
  BY <1>5, ReplacedRewritten, RewrittenKeys DEF Timers1
<1> HIDE DEF rest
<1>8. /\ Len(Writes1) = 2 /\ DOMAIN Writes1 = {1, 2}
      /\ Writes1[1] = ChunkWrite(CutKey, OnePart) /\ Writes1[2] = ChunkWrite(HeadKey, rest)
  BY DEF Writes1, rest
<1>9. /\ Writes1[1].key = CutKey /\ Writes1[1].chunk = OnePart /\ IsWrite(Writes1[1])
      /\ Writes1[2].key = HeadKey /\ Writes1[2].chunk = rest /\ IsWrite(Writes1[2])
  BY <1>8, ChunkWriteIs
<1>10. Follow(timers', Timers1, Writes1)
  BY <1>1, <1>5, CommandedTypes DEF Follow
<1>11. OldFine(Timers1, pos, DOMAIN disk, inTurn' > 1)
  <2> SUFFICES ASSUME NEW i \in DOMAIN timers, IsWrite(Timers1[i])
               PROVE  \/ WriteFine(Timers1, i, pos, DOMAIN disk)
                      \/ inTurn' > 1 /\ Timers1[i].key = HeadKey /\ IsOf(Timers1[i], "past")
    BY <1>6 DEF OldFine
  <2>1. /\ IsWrite(timers[i]) /\ Timers1[i].key = timers[i].key /\ Timers1[i].chunk = timers[i].chunk
        /\ inTurn' > 1
    BY <1>3, <1>6
  <2>2. WriteFine(timers, i, pos, DOMAIN disk) \/ (timers[i].key = HeadKey /\ IsOf(timers[i], "past"))
    BY <2>1 DEF OrderInv, WritesFine
  <2>3. WriteFine(timers, i, pos, DOMAIN disk) => WriteFine(Timers1, i, pos, DOMAIN disk)
    BY <1>7, <2>1 DEF WriteFine
  <2> QED
    BY <1>6, <2>1, <2>2, <2>3
<1>12. NewFine(Writes1, pos, DOMAIN disk \union KeysIn(timers))
  <2> DEFINE d == DOMAIN disk \union KeysIn(timers)
  <2> HIDE DEF d
  <2>1. CutKey \in KeysBefore(Writes1, 2, d)
    <3>1. 1 \in DOMAIN Writes1 /\ 1 < 2
      BY <1>8
    <3> QED
      BY <1>9, <3>1 DEF KeysBefore
  <2>2. WriteFine(Writes1, 1, pos, d) /\ WriteFine(Writes1, 2, pos, d)
    BY <1>4, <1>9, <2>1 DEF WriteFine
  <2> QED
    BY <1>8, <1>9, <2>2 DEF NewFine, d
<1>13. /\ DOMAIN cache' = DOMAIN cache \union ks
       /\ cache'[HeadKey] = rest /\ cache'[CutKey] = OnePart
       /\ \A k \in DOMAIN cache : k \notin ks => cache'[k] = cache[k]
  BY <1>1, <1>4 DEF Put, rest
<1>14. \A i \in DOMAIN Timers1 : IsOf(Timers1[i], "chunk") =>
          Timers1[i].key \in DOMAIN cache' /\ Timers1[i].chunk = cache'[Timers1[i].key]
  BY <1>6, <1>13 DEF LiveInv
<1>15. \A i \in DOMAIN Writes1 : Writes1[i].key \in DOMAIN cache' /\ Writes1[i].chunk = cache'[Writes1[i].key]
  BY <1>8, <1>9, <1>13
<1>16. DOMAIN cache' \subseteq DOMAIN cache \union KeysIn(Writes1)
  <2>1. HeadKey \in KeysIn(Writes1) /\ CutKey \in KeysIn(Writes1)
    BY <1>8, <1>9 DEF KeysIn
  <2> QED
    BY <1>13, <2>1
<1>17. Stored \subseteq Stored' /\ CutKey \in Stored'
  BY <1>2, <1>13 DEF Stored
<1>18. \A k \in DOMAIN cache' : Fine(k, cache'[k], pos, Stored')
  <2> SUFFICES ASSUME NEW k \in DOMAIN cache' PROVE Fine(k, cache'[k], pos, Stored')
    OBVIOUS
  <2>1. CASE k \in ks
    BY <1>4, <1>13, <1>17, <2>1
  <2>2. CASE k \notin ks
    <3>1. Fine(k, cache[k], pos, Stored) /\ cache'[k] = cache[k]
      BY <1>13, <2>2 DEF OrderInv
    <3> QED
      BY <1>17, <3>1, FineMore
  <2> QED
    BY <2>1, <2>2
<1>19. /\ \A k \in DOMAIN disk : Fine(k, disk[k], pos, DOMAIN disk) \/ (Spoilt /\ k = HeadKey)
       /\ \A r \in read : Fine(r.key, r.chunk, pos, DOMAIN disk)
  BY DEF OrderInv
<1> QED
  BY ONLY LiveInv, <1>2, <1>3, <1>5, <1>7, <1>10, <1>11, <1>12, <1>14, <1>15, <1>16, <1>18, <1>19, ChainWritten

LEMMA ChainSplitAgain ==
    ASSUME TypeOK, TurnInv, LiveInv, NEW pos \in [Msg -> Int], OrderInv(pos), SplitAgain
    PROVE  LiveInv' /\ OrderInv(pos)'
<1> DEFINE rest == Rest(First, CutKey)
           ks == {HeadKey, CutKey}
<1>0. ~convYields /\ splits > 0 /\ Len(First.list) > SplitThreshold
  BY SplitAgainIs
<1>1. PICK tk \in First.tailKey :
         /\ cache' = Put(Put(Put(cache, HeadKey, rest), CutKey, Part(tk)), tk, Tailed(tk))
         /\ inTurn' = inTurn + 1 /\ Commanded(Timers2(tk), Writes2(tk))
  BY SplitAgainIs
<1>2. UNCHANGED <<disk, read>>
  BY <1>1 DEF Commanded
<1>3. /\ inTurn \in Nat /\ inTurn' \in Nat /\ inTurn' >= inTurn
      /\ \A i \in DOMAIN timers : IsWrite(timers[i]) => inTurn' > 1
  BY <1>0, <1>1, WritesAreSplit
<1>4. /\ CutKey # HeadKey
      /\ \A s : CutKey \in s => Fine(HeadKey, rest, pos, s)
      /\ tk \in Stored /\ tk # CutKey /\ tk # HeadKey /\ tk \in Seq(Msg)
      /\ \A s : tk \in s => Fine(CutKey, Part(tk), pos, s)
      /\ \A s : Stored \subseteq s => Fine(tk, Tailed(tk), pos, s)
  BY <1>0, PartsFine
<1> DEFINE t1 == Changed(timers, tk, Tailed(tk))
           t2 == Changed(t1, HeadKey, Leaving)
           ts == Timers2(tk)
           ws == Writes2(tk)
<1>5. /\ ts \in Seq(TimerType) /\ ws \in Seq(TimerType) /\ timers \in Seq(TimerType) /\ HeadKey \in Seq(Msg)
      /\ Tailed(tk) \in ChunkType /\ Leaving \in ChunkType
      /\ Tailed(tk).list = Chunk(tk).list /\ Tailed(tk).tailKey = Chunk(tk).tailKey
  BY <1>0, SplitTimersTypes, PartTypes, EmptyTypes DEF TypeOK
<1>6. /\ t1 \in Seq(TimerType) /\ DOMAIN t1 = DOMAIN timers
      /\ \A i \in DOMAIN timers : \/ /\ IsOf(timers[i], "chunk") /\ timers[i].key = tk
                                     /\ t1[i] = ChunkWrite(tk, Tailed(tk))
                                  \/ ~(IsOf(timers[i], "chunk") /\ timers[i].key = tk) /\ t1[i] = timers[i]
  BY <1>4, <1>5, ChangedWrites
<1> HIDE DEF t1
<1>7. /\ t2 \in Seq(TimerType) /\ DOMAIN t2 = DOMAIN timers
      /\ \A i \in DOMAIN timers : \/ /\ IsOf(t1[i], "chunk") /\ t1[i].key = HeadKey
                                     /\ t2[i] = ChunkWrite(HeadKey, Leaving)
                                  \/ ~(IsOf(t1[i], "chunk") /\ t1[i].key = HeadKey) /\ t2[i] = t1[i]
  BY <1>5, <1>6, ChangedWrites
<1> HIDE DEF t2
<1>8. /\ DOMAIN ts = DOMAIN timers
      /\ \A i \in DOMAIN timers :
            /\ IsWrite(ts[i]) <=> IsWrite(t2[i])
            /\ IsWrite(t2[i]) => ts[i].key = t2[i].key /\ ts[i].chunk = t2[i].chunk
            /\ IsOf(t2[i], "past") => IsOf(ts[i], "past")
            /\ IsOf(t2[i], "chunk") /\ t2[i].key \in ks => IsOf(ts[i], "past")
            /\ IsOf(ts[i], "chunk") => ts[i] = t2[i] /\ t2[i].key \notin ks
  <2>1. ts = Replaced(t2, ks)
    BY DEF t1, t2, Timers2
  <2> HIDE DEF ts, ks
  <2> QED
    BY <1>7, <2>1, ReplacedWrites
<1>9. KeysIn(ts) = KeysIn(timers) /\ \A i, d : KeysBefore(ts, i, d) = KeysBefore(timers, i, d)
  BY <1>0, SplitKinds, RewrittenKeys
<1> HIDE DEF rest, ts
<1>10. /\ Len(ws) = 3 /\ DOMAIN ws = {1, 2, 3}
       /\ ws[1] = ChunkWrite(tk, Tailed(tk)) /\ ws[2] = ChunkWrite(CutKey, Part(tk)) /\ ws[3] = ChunkWrite(HeadKey, rest)
  BY DEF Writes2, rest
<1> HIDE DEF ws
<1>11. /\ ws[1].key = tk /\ ws[1].chunk = Tailed(tk) /\ IsWrite(ws[1])
       /\ ws[2].key = CutKey /\ ws[2].chunk = Part(tk) /\ IsWrite(ws[2])
       /\ ws[3].key = HeadKey /\ ws[3].chunk = rest /\ IsWrite(ws[3])
  BY <1>10, ChunkWriteIs
<1>12. Follow(timers', ts, ws)
  BY <1>0, <1>1, <1>5, CommandedTypes DEF Follow, ts, ws
<1>13. \A t : (IsOf(t, "chunk") => IsWrite(t) /\ ~IsOf(t, "past"))
  BY DEF IsOf, IsWrite
<1>14. /\ \A k, c : ChunkWrite(k, c).key = k /\ ChunkWrite(k, c).chunk = c
       /\ \A k, c : IsOf(ChunkWrite(k, c), "chunk") /\ IsWrite(ChunkWrite(k, c))
  BY ChunkWriteIs
<1>15. OldFine(ts, pos, DOMAIN disk, inTurn' > 1)
  <2> SUFFICES ASSUME NEW i \in DOMAIN timers, IsWrite(ts[i])
               PROVE  \/ WriteFine(ts, i, pos, DOMAIN disk)
                      \/ inTurn' > 1 /\ ts[i].key = HeadKey /\ IsOf(ts[i], "past")
    BY <1>8 DEF OldFine
  <2>1. CASE IsOf(timers[i], "chunk") /\ timers[i].key = tk
    <3>1. /\ t2[i] = ChunkWrite(tk, Tailed(tk)) /\ IsWrite(timers[i])
          /\ ts[i].key = tk /\ ts[i].chunk = Tailed(tk)
      BY <1>4, <1>6, <1>7, <1>8, <1>13, <1>14, <2>1
    <3>2. timers[i].chunk = Chunk(tk)
      BY <2>1 DEF LiveInv, Chunk
    <3>3. WriteFine(timers, i, pos, DOMAIN disk)
      BY <1>13, <2>1, <3>1 DEF OrderInv, WritesFine
    <3>4. Fine(tk, Chunk(tk), pos, KeysBefore(ts, i, DOMAIN disk))
      BY <1>9, <2>1, <3>2, <3>3 DEF WriteFine
    <3>5. Fine(tk, Tailed(tk), pos, KeysBefore(ts, i, DOMAIN disk))
      BY <1>5, <3>4 DEF Fine
    <3> QED
      BY <3>1, <3>5 DEF WriteFine
  <2>2. CASE IsOf(timers[i], "chunk") /\ timers[i].key = HeadKey
    <3>1. t1[i] = timers[i] /\ t2[i] = ChunkWrite(HeadKey, Leaving) /\ IsWrite(timers[i])
      BY <1>4, <1>6, <1>7, <1>13, <2>2
    <3>2. ts[i].key = HeadKey /\ IsOf(ts[i], "past")
      BY <1>8, <1>14, <3>1
    <3> QED
      BY <1>3, <3>1, <3>2
  <2>3. CASE ~(IsOf(timers[i], "chunk") /\ timers[i].key \in {tk, HeadKey})
    <3>1. t1[i] = timers[i] /\ t2[i] = timers[i]
      BY <1>6, <1>7, <2>3
    <3>2. IsWrite(timers[i]) /\ ts[i].key = timers[i].key /\ ts[i].chunk = timers[i].chunk
      BY <1>8, <3>1
    <3>3. WriteFine(timers, i, pos, DOMAIN disk) \/ (timers[i].key = HeadKey /\ IsOf(timers[i], "past"))
      BY <3>2 DEF OrderInv, WritesFine
    <3>4. WriteFine(timers, i, pos, DOMAIN disk) => WriteFine(ts, i, pos, DOMAIN disk)
      BY <1>9, <3>2 DEF WriteFine
    <3> QED
      BY <1>3, <1>8, <3>1, <3>2, <3>3, <3>4
  <2> QED
    BY <2>1, <2>2, <2>3
<1>16. NewFine(ws, pos, DOMAIN disk \union KeysIn(timers))
  <2> DEFINE d == DOMAIN disk \union KeysIn(timers)
  <2>1. Stored \subseteq d
    BY DEF Stored, LiveInv
  <2> HIDE DEF d
  <2>2. Stored \subseteq KeysBefore(ws, 1, d) /\ tk \in KeysBefore(ws, 2, d)
    BY <1>4, <2>1 DEF KeysBefore
  <2>3. CutKey \in KeysBefore(ws, 3, d)
    <3>1. 2 \in DOMAIN ws /\ 2 < 3
      BY <1>10
    <3> QED
      BY <1>11, <3>1 DEF KeysBefore
  <2>4. WriteFine(ws, 1, pos, d) /\ WriteFine(ws, 2, pos, d) /\ WriteFine(ws, 3, pos, d)
    BY <1>4, <1>11, <2>2, <2>3 DEF WriteFine
  <2> QED
    BY <1>10, <1>11, <2>4 DEF NewFine, d
<1>17. /\ DOMAIN cache' = DOMAIN cache \union {HeadKey, CutKey, tk}
       /\ cache'[HeadKey] = rest /\ cache'[CutKey] = Part(tk) /\ cache'[tk] = Tailed(tk)
       /\ \A k \in DOMAIN cache : k \notin {HeadKey, CutKey, tk} => cache'[k] = cache[k]
  BY <1>1, <1>4 DEF Put, rest
<1>18. \A i \in DOMAIN ts : IsOf(ts[i], "chunk") =>
          ts[i].key \in DOMAIN cache' /\ ts[i].chunk = cache'[ts[i].key]
  <2> SUFFICES ASSUME NEW i \in DOMAIN timers, IsOf(ts[i], "chunk")
               PROVE  ts[i].key \in DOMAIN cache' /\ ts[i].chunk = cache'[ts[i].key]
    BY <1>8
  <2>1. ts[i] = t2[i] /\ t2[i].key \notin ks
    BY <1>8
  <2>2. t2[i] = t1[i]
    BY <1>7, <1>14, <2>1
  <2>3. CASE t1[i] = ChunkWrite(tk, Tailed(tk))
    BY <1>14, <1>17, <2>1, <2>2, <2>3
  <2>4. CASE ~(IsOf(timers[i], "chunk") /\ timers[i].key = tk) /\ t1[i] = timers[i]
    <3>1. IsOf(timers[i], "chunk") /\ timers[i].key \notin {HeadKey, CutKey, tk}
      BY <2>1, <2>2, <2>4
    <3>2. timers[i].key \in DOMAIN cache /\ timers[i].chunk = cache[timers[i].key]
      BY <3>1 DEF LiveInv
    <3> QED
      BY <1>17, <2>1, <2>2, <2>4, <3>1, <3>2
  <2> QED
    BY <1>6, <2>3, <2>4
<1>19. \A i \in DOMAIN ws : ws[i].key \in DOMAIN cache' /\ ws[i].chunk = cache'[ws[i].key]
  BY <1>10, <1>11, <1>17
<1>20. DOMAIN cache' \subseteq DOMAIN cache \union KeysIn(ws)
  <2>1. HeadKey \in KeysIn(ws) /\ CutKey \in KeysIn(ws) /\ tk \in KeysIn(ws)
    BY <1>10, <1>11 DEF KeysIn
  <2> QED
    BY <1>17, <2>1
<1>21. Stored \subseteq Stored' /\ CutKey \in Stored' /\ tk \in Stored'
  BY <1>2, <1>17 DEF Stored
<1>22. \A k \in DOMAIN cache' : Fine(k, cache'[k], pos, Stored')
  <2> SUFFICES ASSUME NEW k \in DOMAIN cache' PROVE Fine(k, cache'[k], pos, Stored')
    OBVIOUS
  <2>1. CASE k \in {HeadKey, CutKey, tk}
    BY <1>4, <1>17, <1>21, <2>1
  <2>2. CASE k \notin {HeadKey, CutKey, tk}
    <3>1. Fine(k, cache[k], pos, Stored) /\ cache'[k] = cache[k]
      BY <1>17, <2>2 DEF OrderInv
    <3> QED
      BY <1>21, <3>1, FineMore
  <2> QED
    BY <2>1, <2>2
<1>23. /\ \A k \in DOMAIN disk : Fine(k, disk[k], pos, DOMAIN disk) \/ (Spoilt /\ k = HeadKey)
       /\ \A r \in read : Fine(r.key, r.chunk, pos, DOMAIN disk)
  BY DEF OrderInv
<1>24. ts \in Seq(TimerType) /\ ws \in Seq(TimerType)
  BY <1>5
<1> QED
  BY ONLY LiveInv, <1>2, <1>3, <1>9, <1>12, <1>15, <1>16, <1>18, <1>19, <1>20, <1>22, <1>23, <1>24, ChainWritten

LEMMA ChainStep == TypeOK /\ TurnInv /\ FreshInv /\ ChainInv /\ [Next]_vars => ChainInv'
<1> SUFFICES ASSUME TypeOK, TurnInv, FreshInv, ChainInv, [Next]_vars, ~torn' PROVE LiveInv' /\ \E pos \in [Msg -> Int] : OrderInv(pos)'
  BY DEF ChainInv
<1>1. CASE UNCHANGED vars
  <2>1. UNCHANGED <<cache, disk, read, inTurn, timers, torn>>
    BY <1>1 DEF vars, hubVars, convVars
  <2>2. LiveInv
    BY <2>1 DEF ChainInv
  <2>3. PICK pos \in [Msg -> Int] : OrderInv(pos)
    BY <2>1 DEF ChainInv
  <2>4. LiveInv' /\ OrderInv(pos)'
    BY <2>1, <2>2, <2>3, ChainStill DEF OrderInv
  <2> QED
    BY <2>4
<1>2. CASE Next
  <2>1. ~torn
    BY <1>2, NextCases DEF Insert, NoSplit, SplitFirst, SplitAgain, Commanded, convVars, TrySplit, FireChunk, FireConv,
                           ReadDisk, ReadDone, ConvStop, Close
  <2>2. LiveInv
    BY <2>1 DEF ChainInv
  <2>3. PICK pos \in [Msg -> Int] : OrderInv(pos)
    BY <2>1 DEF ChainInv
  <2>4. CASE Insert
    BY <2>2, <2>3, <2>4, ChainInsert
  <2>5. CASE ~Insert
    <3>1. LiveInv' /\ OrderInv(pos)'
      BY <1>2, <2>2, <2>3, <2>5, NextCases, ChainNoSplit, ChainSplitFirst, ChainSplitAgain, ChainHub, ChainRest
    <3> QED
      BY <3>1
  <2> QED
    BY <2>4, <2>5
<1> QED
  BY <1>1, <1>2

-----------------------------------------------------------------------------
(* The chain.                                                              *)

\* Keys, each the tail of the one before, from HeadKey on.
Walk(ks) ==
    /\ ks \in Seq(Seq(Msg)) /\ ks # <<>> /\ ks[1] = HeadKey
    /\ \A i \in 1..Len(ks) - 1 : ks[i + 1] \in Behind(ks[i])

LEMMA BehindTypes ==
    ASSUME TypeOK, NEW k
    PROVE  Behind(k) \subseteq Chunk(k).tailKey /\ Behind(k) \subseteq Stored /\ Behind(k) \subseteq Seq(Msg)
<1>1. Chunk(k).tailKey \subseteq Seq(Msg)
  BY ChunkTypes DEF ChunkType, AtMostOne, SplitKey
<1> QED
  BY <1>1 DEF Behind, Stored

LEMMA FirstWalk == Walk(<<HeadKey>>)
<1>1. HeadKey \in Seq(Msg)
  BY EmptyTypes
<1>2. <<HeadKey>> \in Seq(Seq(Msg)) /\ Len(<<HeadKey>>) = 1 /\ <<HeadKey>>[1] = HeadKey /\ <<HeadKey>> # <<>>
  BY <1>1
<1> QED
  BY <1>2 DEF Walk

\* One key more, if there is one.
LEMMA FurtherWalk ==
    ASSUME TypeOK, NEW ks, Walk(ks)
    PROVE  /\ Walk(Further[ks])
           /\ \/ Behind(ks[Len(ks)]) = {} /\ Further[ks] = ks
              \/ Behind(ks[Len(ks)]) # {} /\ Len(Further[ks]) = Len(ks) + 1
<1> DEFINE l == ks[Len(ks)]
           t == CHOOSE t \in Behind(l) : TRUE
<1>1. ks \in Seq(Seq(Msg)) /\ Len(ks) \in Nat /\ Len(ks) # 0 /\ Last(ks) = l
  BY EmptySeq, LenProperties DEF Walk, Last
<1>2. Further[ks] = IF Behind(l) = {} THEN ks ELSE Append(ks, t)
  BY <1>1 DEF Further, Last
<1>3. CASE Behind(l) = {}
  BY <1>2, <1>3
<1>4. CASE Behind(l) # {}
  <2>1. t \in Behind(l) /\ t \in Seq(Msg)
    BY <1>4, BehindTypes
  <2> HIDE DEF t
  <2>2. /\ Append(ks, t) \in Seq(Seq(Msg)) /\ Len(Append(ks, t)) = Len(ks) + 1
        /\ \A i \in 1..Len(ks) : Append(ks, t)[i] = ks[i]
        /\ Append(ks, t)[Len(ks) + 1] = t
    BY <1>1, <2>1, AppendProperties
  <2> DEFINE us == Append(ks, t)
  <2> HIDE DEF us
  <2>3. us \in Seq(Seq(Msg)) /\ Len(us) = Len(ks) + 1 /\ us # <<>> /\ us[1] = HeadKey
    <3>1. 1 \in 1..Len(ks) /\ Len(ks) + 1 # 0
      BY <1>1
    <3> QED
      BY <1>1, <2>2, <3>1, EmptySeq DEF us, Walk
  <2>4. \A i \in 1..Len(us) - 1 : us[i + 1] \in Behind(us[i])
    <3> SUFFICES ASSUME NEW i \in 1..Len(ks) PROVE us[i + 1] \in Behind(us[i])
      BY <1>1, <2>3
    <3>1. us[i] = ks[i]
      BY <2>2 DEF us
    <3>2. CASE i = Len(ks)
      BY <2>1, <2>2, <3>1, <3>2 DEF us
    <3>3. CASE i # Len(ks)
      <4>1. i \in 1..Len(ks) - 1 /\ i + 1 \in 1..Len(ks)
        BY <1>1, <3>3
      <4>2. us[i + 1] = ks[i + 1]
        BY <2>2, <4>1 DEF us
      <4> QED
        BY <3>1, <4>1, <4>2 DEF Walk
    <3> QED
      BY <3>2, <3>3
  <2>5. Walk(us)
    BY <2>3, <2>4 DEF Walk
  <2>6. Further[ks] = us
    BY <1>2, <1>4 DEF us
  <2> QED
    BY <1>4, <2>3, <2>5, <2>6
<1> QED
  BY <1>3, <1>4

\* The keys after each number of steps.
Walks == {ks \in Seq(Seq(Msg)) : Walk(ks)}
Steps(f, n) == \A i \in 0..n : f[i] = IF i = 0 THEN <<HeadKey>> ELSE Further[f[i - 1]]

LEMMA StepsExist ==
    ASSUME TypeOK, NEW n \in Nat
    PROVE  \E f \in [0..n -> Walks] : Steps(f, n)
<1> DEFINE G == {j \in 0..n : \E f \in [0..j -> Walks] : Steps(f, j)}
<1>1. 0 \in G
  <2> DEFINE f == [i \in 0..0 |-> <<HeadKey>>]
  <2>1. <<HeadKey>> \in Walks
    BY FirstWalk DEF Walks, Walk
  <2>2. f \in [0..0 -> Walks] /\ Steps(f, 0)
    BY <2>1 DEF Steps
  <2>3. 0 \in 0..n
    OBVIOUS
  <2> HIDE DEF f
  <2> QED
    BY <2>2, <2>3
<1>2. ASSUME NEW k \in 1..n, k - 1 \in G
      PROVE  k \in G
  <2>1. PICK f \in [0..(k - 1) -> Walks] : Steps(f, k - 1)
    BY <1>2
  <2>2. k \in Nat /\ k # 0 /\ k \in 0..n /\ k - 1 \in 0..(k - 1)
    OBVIOUS
  <2> DEFINE next == Further[f[k - 1]]
             g == [i \in 0..k |-> IF i = k THEN next ELSE f[i]]
  <2>3. next \in Walks
    <3>1. Walk(f[k - 1])
      BY <2>1, <2>2 DEF Walks
    <3> QED
      BY <3>1, FurtherWalk DEF Walks, Walk
  <2> HIDE DEF next
  <2>4. g \in [0..k -> Walks]
    BY <2>1, <2>3
  <2>5. \A i \in 0..k : g[i] = IF i = k THEN next ELSE f[i]
    OBVIOUS
  <2> HIDE DEF g
  <2>6. Steps(g, k)
    <3> SUFFICES ASSUME NEW i \in 0..k
                 PROVE  g[i] = IF i = 0 THEN <<HeadKey>> ELSE Further[g[i - 1]]
      BY DEF Steps
    <3>1. CASE i = k
      <4>1. g[i] = next /\ g[i - 1] = f[k - 1]
        BY <2>2, <2>5, <3>1
      <4> QED
        BY <2>2, <3>1, <4>1 DEF next
    <3>2. CASE i # k
      <4>1. i \in 0..(k - 1) /\ (i # 0 => i - 1 \in 0..k /\ i - 1 # k)
        BY <2>2, <3>2
      <4>2. g[i] = f[i] /\ (i # 0 => g[i - 1] = f[i - 1])
        BY <2>5, <3>2, <4>1
      <4> QED
        BY <2>1, <4>1, <4>2 DEF Steps
    <3> QED
      BY <3>1, <3>2
  <2> QED
    BY <2>2, <2>4, <2>6
<1>3. 0..n \subseteq G
  <2> HIDE DEF G
  <2> QED
    BY <1>1, <1>2, CountingUp
<1>4. n \in G
  BY <1>3
<1> QED
  BY <1>4

LEMMA StoredFinite ==
    ASSUME TypeOK
    PROVE  IsFiniteSet(Stored) /\ Cardinality(Stored) \in Nat
  BY FS_Union, FS_CardinalityType DEF TypeOK, ChunksType, Stored

LEMMA KeysWalk ==
    ASSUME TypeOK
    PROVE  \E f \in [0..Cardinality(Stored) -> Walks] : Steps(f, Cardinality(Stored)) /\ Keys = f[Cardinality(Stored)]
<1> DEFINE n == Cardinality(Stored)
           step(f) == [i \in 0..n |-> IF i = 0 THEN <<HeadKey>> ELSE Further[f[i - 1]]]
           from == CHOOSE f : f = step(f)
<1>1. n \in Nat
  BY StoredFinite
<1>2. Keys = from[n]
  BY DEF Keys
<1> HIDE DEF n
<1>3. PICK g \in [0..n -> Walks] : Steps(g, n)
  BY <1>1, StepsExist
<1>4. g = step(g)
  BY <1>3 DEF Steps
<1>5. from = step(from)
  BY <1>4
<1> HIDE DEF from
<1>6. \A i \in 0..n : from[i] = IF i = 0 THEN <<HeadKey>> ELSE Further[from[i - 1]]
  BY <1>5
<1> DEFINE G == {i \in 0..n : from[i] = g[i]}
<1>7. 0..n \subseteq G
  <2>1. 0 \in G
    BY <1>1, <1>3, <1>6 DEF Steps
  <2>2. ASSUME NEW k \in 1..n, k - 1 \in G PROVE k \in G
    <3>1. k \in 0..n /\ k # 0
      BY <1>1
    <3> QED
      BY <1>3, <1>6, <2>2, <3>1 DEF Steps
  <2> HIDE DEF G
  <2> QED
    BY <1>1, <2>1, <2>2, CountingUp
<1>8. n \in 0..n
  BY <1>1
<1>9. Keys = g[n]
  BY <1>2, <1>7, <1>8
<1> QED
  BY <1>3, <1>9 DEF n

-----------------------------------------------------------------------------
(* What the chain shows.                                                   *)

\* The keys of the chain are those of chunks that are stored, and HeadKey.
LEMMA KeysStored ==
    ASSUME TypeOK
    PROVE  Walk(Keys) /\ ToSet(Keys) \subseteq Stored \union {HeadKey}
<1>1. Walk(Keys)
  BY KeysWalk, StoredFinite DEF Walks
<1>2. Keys \in Seq(Seq(Msg)) /\ Len(Keys) \in Nat /\ DOMAIN Keys = 1..Len(Keys)
  BY <1>1, LenProperties DEF Walk
<1>3. ASSUME NEW j \in DOMAIN Keys PROVE Keys[j] \in Stored \union {HeadKey}
  <2>1. CASE j = 1
    BY <1>1, <2>1 DEF Walk
  <2>2. CASE j # 1
    <3>1. j - 1 \in 1..Len(Keys) - 1 /\ (j - 1) + 1 = j
      BY <1>2, <2>2
    <3>2. Keys[j] \in Behind(Keys[j - 1])
      BY <1>1, <3>1 DEF Walk
    <3> QED
      BY <3>2, BehindTypes
  <2> QED
    BY <2>1, <2>2
<1> QED
  BY <1>1, <1>3 DEF ToSet

\* The members of a concatenation.
LEMMA ConcatMembers ==
    ASSUME NEW S, NEW a \in Seq(S), NEW b \in Seq(S)
    PROVE  a \o b \in Seq(S) /\ ToSet(a \o b) = ToSet(a) \union ToSet(b)
<1>1. /\ a \o b \in Seq(S) /\ Len(a \o b) = Len(a) + Len(b) /\ Len(a) \in Nat /\ Len(b) \in Nat
      /\ DOMAIN a = 1..Len(a) /\ DOMAIN b = 1..Len(b) /\ DOMAIN (a \o b) = 1..Len(a) + Len(b)
      /\ \A i \in 1..Len(a) : (a \o b)[i] = a[i]
      /\ \A i \in 1..Len(a) + Len(b) : i > Len(a) => (a \o b)[i] = b[i - Len(a)]
  BY ConcatProperties, LenProperties
<1>2. \A i \in DOMAIN a : i \in DOMAIN (a \o b) /\ (a \o b)[i] = a[i]
  BY <1>1
<1>3. \A i \in DOMAIN b : i + Len(a) \in DOMAIN (a \o b) /\ (a \o b)[i + Len(a)] = b[i]
  BY <1>1
<1>4. \A i \in DOMAIN (a \o b) : \/ i \in DOMAIN a /\ (a \o b)[i] = a[i]
                                 \/ i - Len(a) \in DOMAIN b /\ (a \o b)[i] = b[i - Len(a)]
  BY <1>1
<1> HIDE DEF ToSet
<1>5. ToSet(a \o b) \subseteq ToSet(a) \union ToSet(b)
  BY <1>4 DEF ToSet
<1>6. ToSet(a) \subseteq ToSet(a \o b)
  BY <1>2 DEF ToSet
<1>7. ToSet(b) \subseteq ToSet(a \o b)
  BY <1>3 DEF ToSet
<1> QED
  BY <1>1, <1>5, <1>6, <1>7

\* The first n of the lists ls, joined one by one, each before those so far.
Joint(f, ls, n) == \A i \in 0..n : f[i] = IF i = 0 THEN <<>> ELSE ls[i] \o f[i - 1]
Flat(ls) == (CHOOSE f \in [0..Len(ls) -> Seq(Msg)] : Joint(f, ls, Len(ls)))[Len(ls)]

\* The members of the first n lists.
MembersOf(ls, n) == UNION {ToSet(ls[j]) : j \in 1..n}

\* The lists can be joined, one by one.
LEMMA JointExists ==
    ASSUME NEW n \in Nat, NEW ls, \A i \in 1..n : ls[i] \in Seq(Msg)
    PROVE  \E f \in [0..n -> Seq(Msg)] : Joint(f, ls, n) /\ \A i \in 0..n : ToSet(f[i]) = MembersOf(ls, i)
<1> DEFINE Good(f, j) == Joint(f, ls, j) /\ \A i \in 0..j : ToSet(f[i]) = MembersOf(ls, i)
           G == {j \in 0..n : \E f \in [0..j -> Seq(Msg)] : Good(f, j)}
<1>1. 0 \in G
  <2> DEFINE f == [i \in 0..0 |-> <<>>]
  <2>1. f \in [0..0 -> Seq(Msg)] /\ Joint(f, ls, 0) /\ f[0] = <<>>
    BY DEF Joint
  <2>2. ToSet(<<>>) = {} /\ MembersOf(ls, 0) = {}
    BY DEF ToSet, MembersOf
  <2>3. 0 \in 0..n /\ 0..0 = {0}
    OBVIOUS
  <2> HIDE DEF f
  <2> QED
    BY <2>1, <2>2, <2>3
<1>2. ASSUME NEW k \in 1..n, k - 1 \in G
      PROVE  k \in G
  <2>1. PICK f \in [0..(k - 1) -> Seq(Msg)] : Good(f, k - 1)
    BY <1>2
  <2>2. k \in Nat /\ k # 0 /\ k \in 0..n /\ k - 1 \in 0..(k - 1)
    OBVIOUS
  <2> DEFINE next == ls[k] \o f[k - 1]
             g    == [i \in 0..k |-> IF i = k THEN next ELSE f[i]]
  <2>3. ls[k] \in Seq(Msg) /\ f[k - 1] \in Seq(Msg)
    BY <2>1, <2>2
  <2>4. MembersOf(ls, k) = ToSet(ls[k]) \union MembersOf(ls, k - 1)
    <3>1. 1..k = 1..(k - 1) \union {k}
      BY <2>2
    <3> QED
      BY <3>1 DEF MembersOf
  <2>5. next \in Seq(Msg) /\ ToSet(next) = MembersOf(ls, k)
    BY <2>1, <2>2, <2>3, <2>4, ConcatMembers
  <2>6. next = ls[k] \o f[k - 1]
    OBVIOUS
  <2> HIDE DEF next
  <2>7. g \in [0..k -> Seq(Msg)]
    BY <2>1, <2>5
  <2>8. \A i \in 0..k : g[i] = IF i = k THEN next ELSE f[i]
    OBVIOUS
  <2> HIDE DEF g
  <2>9. Joint(g, ls, k)
    <3> SUFFICES ASSUME NEW i \in 0..k
                 PROVE  g[i] = IF i = 0 THEN <<>> ELSE ls[i] \o g[i - 1]
      BY DEF Joint
    <3>1. CASE i = k
      <4>1. g[i] = next /\ g[i - 1] = f[k - 1]
        BY <2>2, <2>8, <3>1
      <4> QED
        BY <2>2, <2>6, <3>1, <4>1
    <3>2. CASE i # k
      <4>1. i \in 0..(k - 1) /\ (i # 0 => i - 1 \in 0..k /\ i - 1 # k)
        BY <2>2, <3>2
      <4>2. g[i] = f[i] /\ (i # 0 => g[i - 1] = f[i - 1])
        BY <2>8, <3>2, <4>1
      <4> QED
        BY <2>1, <4>1, <4>2 DEF Joint
    <3> QED
      BY <3>1, <3>2
  <2>10. \A i \in 0..k : ToSet(g[i]) = MembersOf(ls, i)
    <3>1. \A i \in 0..k : i = k \/ i \in 0..(k - 1)
      BY <2>2
    <3> QED
      BY <2>1, <2>5, <2>8, <3>1
  <2> QED
    BY <2>2, <2>7, <2>9, <2>10
<1>3. 0..n \subseteq G
  <2> HIDE DEF G
  <2> QED
    BY <1>1, <1>2, CountingUp
<1>4. n \in G
  BY <1>3
<1> QED
  BY <1>4

\* In one way.
LEMMA JointOne ==
    ASSUME NEW n \in Nat, NEW ls, NEW f, NEW g, Joint(f, ls, n), Joint(g, ls, n)
    PROVE  \A i \in 0..n : f[i] = g[i]
<1> DEFINE G == {i \in 0..n : f[i] = g[i]}
<1>1. 0 \in G
  <2>1. 0 \in 0..n
    OBVIOUS
  <2>2. f[0] = <<>>
    BY <2>1 DEF Joint
  <2>3. g[0] = <<>>
    BY <2>1 DEF Joint
  <2> QED
    BY <2>1, <2>2, <2>3
<1>2. ASSUME NEW k \in 1..n, k - 1 \in G PROVE k \in G
  <2>1. k \in 0..n /\ k # 0
    OBVIOUS
  <2>2. f[k] = ls[k] \o f[k - 1]
    BY <2>1 DEF Joint
  <2>3. g[k] = ls[k] \o g[k - 1]
    BY <2>1 DEF Joint
  <2> QED
    BY <1>2, <2>1, <2>2, <2>3
<1> HIDE DEF G
<1>3. 0..n \subseteq G
  BY <1>1, <1>2, CountingUp
<1> QED
  BY <1>3 DEF G

LEMMA FlatIs ==
    ASSUME NEW ls \in Seq(Seq(Msg))
    PROVE  \E f \in [0..Len(ls) -> Seq(Msg)] :
              /\ Joint(f, ls, Len(ls)) /\ Flat(ls) = f[Len(ls)]
              /\ Flat(ls) \in Seq(Msg) /\ ToSet(Flat(ls)) = MembersOf(ls, Len(ls))
<1> DEFINE n == Len(ls)
           f == CHOOSE f \in [0..n -> Seq(Msg)] : Joint(f, ls, n)
<1>1. n \in Nat /\ n \in 0..n /\ \A i \in 1..n : ls[i] \in Seq(Msg)
  BY LenProperties, ElementOfSeq
<1>2. Flat(ls) = f[n]
  BY DEF Flat
<1> HIDE DEF n
<1>3. PICK g \in [0..n -> Seq(Msg)] : Joint(g, ls, n) /\ \A i \in 0..n : ToSet(g[i]) = MembersOf(ls, i)
  BY <1>1, JointExists
<1>4. f \in [0..n -> Seq(Msg)] /\ Joint(f, ls, n)
  BY <1>3
<1> HIDE DEF f
<1>5. f[n] = g[n]
  <2>1. n \in Nat /\ Joint(f, ls, n) /\ Joint(g, ls, n)
    BY <1>1, <1>3, <1>4
  <2>2. \A i \in 0..n : f[i] = g[i]
    BY ONLY <2>1, JointOne
  <2> QED
    BY <1>1, <2>2
<1>6. Flat(ls) \in Seq(Msg) /\ ToSet(Flat(ls)) = MembersOf(ls, n)
  BY <1>1, <1>2, <1>3, <1>5
<1> QED
  BY <1>2, <1>4, <1>6 DEF n

\* The messages under some keys are the lists of their chunks, joined.
ListsOf(ks) == [i \in 1..Len(ks) |-> Chunk(ks[i]).list]

LEMMA JoinedFlat ==
    TypeOK => \A ks \in Seq(Seq(Msg)) :
        ListsOf(ks) \in Seq(Seq(Msg)) /\ Len(ListsOf(ks)) = Len(ks) /\ Joined[ks] = Flat(ListsOf(ks))
<1> SUFFICES ASSUME TypeOK, NEW ks \in Seq(Seq(Msg))
             PROVE  ListsOf(ks) \in Seq(Seq(Msg)) /\ Len(ListsOf(ks)) = Len(ks) /\ Joined[ks] = Flat(ListsOf(ks))
  OBVIOUS
<1> DEFINE n == Len(ks)
           ls == ListsOf(ks)
           step(f) == [i \in 0..n |-> IF i = 0 THEN <<>> ELSE Chunk(ks[i]).list \o f[i - 1]]
           upto == CHOOSE f : f = step(f)
<1>1. n \in Nat /\ n \in 0..n
  BY LenProperties
<1>2. Joined[ks] = upto[n]
  BY DEF Joined
<1>3. ls \in Seq(Seq(Msg)) /\ Len(ls) = n /\ \A i \in 1..n : ls[i] = Chunk(ks[i]).list
  <2>1. \A i \in 1..n : Chunk(ks[i]).list \in Seq(Msg)
    BY ChunkTypes DEF ChunkType
  <2>2. ls \in [1..n -> Seq(Msg)]
    BY <2>1 DEF ListsOf
  <2>3. \A i \in 1..n : ls[i] = Chunk(ks[i]).list
    BY DEF ListsOf
  <2> HIDE DEF n, ls
  <2>4. ls \in Seq(Seq(Msg))
    BY <1>1, <2>2, SeqDef
  <2>5. Len(ls) = n
    BY <1>1, <2>2, <2>4, LenProperties
  <2> QED
    BY <2>3, <2>4, <2>5
<1> HIDE DEF n, ls
<1>4. PICK g \in [0..n -> Seq(Msg)] : Joint(g, ls, n) /\ Flat(ls) = g[n]
  BY <1>3, FlatIs
<1>5. \A i \in 0..n : g[i] = IF i = 0 THEN <<>> ELSE Chunk(ks[i]).list \o g[i - 1]
  <2>1. \A i \in 0..n : i # 0 => i \in 1..n
    BY <1>1
  <2> QED
    BY <1>3, <1>4, <2>1 DEF Joint
<1>6. g = step(g)
  BY <1>4, <1>5
<1>7. upto = step(upto)
  BY <1>6
<1> HIDE DEF upto
<1>8. Joint(upto, ls, n)
  <2>1. \A i \in 0..n : upto[i] = IF i = 0 THEN <<>> ELSE Chunk(ks[i]).list \o upto[i - 1]
    BY <1>7
  <2>2. \A i \in 0..n : i # 0 => i \in 1..n
    BY <1>1
  <2> QED
    BY <1>3, <2>1, <2>2 DEF Joint
<1>9. upto[n] = g[n]
  BY <1>1, <1>4, <1>8, JointOne
<1>10. Joined[ks] = Flat(ls)
  BY <1>2, <1>4, <1>9
<1> QED
  BY <1>3, <1>10 DEF n, ls

\* What the chain shows is listed by one of its chunks.
LEMMA ShownListed ==
    ASSUME TypeOK
    PROVE  ToSet(Shown) = UNION {ToSet(Chunk(k).list) : k \in ToSet(Keys)}
<1>1. Keys \in Seq(Seq(Msg)) /\ Len(Keys) \in Nat /\ DOMAIN Keys = 1..Len(Keys)
  BY KeysStored, LenProperties DEF Walk
<1>2. ToSet(Shown) = MembersOf(ListsOf(Keys), Len(Keys))
  BY <1>1, JoinedFlat, FlatIs DEF Shown
<1>3. ToSet(Keys) = {Keys[j] : j \in 1..Len(Keys)}
  BY <1>1 DEF ToSet
<1>4. \A j \in 1..Len(Keys) : ListsOf(Keys)[j] = Chunk(Keys[j]).list
  BY DEF ListsOf
<1> HIDE DEF Keys
<1> QED
  BY <1>2, <1>3, <1>4 DEF MembersOf

\* The invariants, together, give the property.
LEMMA ChainIsStored ==
    ASSUME TypeOK, FreshInv, ChainInv
    PROVE  ChainStored
<1>1. ASSUME ~torn, NEW k \in ToSet(Keys)
      PROVE  Chunk(k).tailKey \subseteq Stored
  <2>1. PICK pos \in [Msg -> Int] : OrderInv(pos)
    BY <1>1 DEF ChainInv
  <2>2. k \in Stored \/ k = HeadKey
    BY KeysStored
  <2>3. CASE k \in DOMAIN cache
    BY <2>1, <2>3 DEF OrderInv, Fine, Chunk
  <2>4. CASE k \notin DOMAIN cache /\ k \in DOMAIN disk
    <3>1. ~(Spoilt /\ k = HeadKey)
      BY <2>1, <2>4 DEF OrderInv
    <3>2. Fine(k, disk[k], pos, DOMAIN disk) /\ Chunk(k) = disk[k]
      BY <2>1, <2>4, <3>1 DEF OrderInv, Chunk
    <3> QED
      BY <3>2 DEF Fine, Stored
  <2>5. CASE k \notin DOMAIN cache /\ k \notin DOMAIN disk
    BY <2>5 DEF Chunk, Empty
  <2> QED
    BY <2>3, <2>4, <2>5
<1>2. ToSet(Shown) \subseteq Known \union Due
  <2>1. \A k : ToSet(Chunk(k).list) \subseteq knownDisk \union DueIn(timers)
    BY ChunkListed DEF Messages, ListedNow
  <2> QED
    BY <2>1, ShownListed, DueIsDue DEF Known
<1> QED
  BY <1>1, <1>2 DEF ChainStored

\* The chain, wherever the page was closed but between the writes of two
\* splits, leads to chunks that are stored, and what it shows can be retrieved.
\* _splitFirstChunkIfNecessary stores the part before the chunk that names it;
\* what is stored when is up to the zero timers, and stop and the end of the
\* page come between any two of them.
THEOREM ChainStoredInvariant == Spec => []ChainStored
<1> DEFINE IInv == TypeOK /\ TurnInv /\ FreshInv /\ ChainInv
<1>1. Init => IInv
  BY TypesInit, TurnInit, FreshInit, ChainInit
<1>2. IInv /\ [Next]_vars => IInv'
  BY TypesStep, TurnStep, FreshStep, ChainStep
<1>3. IInv => ChainStored
  BY ChainIsStored
<1> QED
  BY <1>1, <1>2, <1>3, PTL DEF Spec

-----------------------------------------------------------------------------
(* The chain leads to its end, and there is one chain.                     *)

\* A walk that cannot be continued.
Ends(ks) == Walk(ks) /\ Behind(ks[Len(ks)]) = {}

\* Behind HeadKey a walk leads through stored chunks, each with older messages.
LEMMA WalkDown ==
    ASSUME TypeOK, NEW pos \in [Msg -> Int], OrderInv(pos), NEW ks, Walk(ks)
    PROVE  /\ \A i \in 2..Len(ks) : ks[i] \in Stored \ {HeadKey} /\ pos[ks[i][1]] \in Int
           /\ \A i \in 2..Len(ks) - 1 : pos[ks[i + 1][1]] < pos[ks[i][1]]
<1>1. ks \in Seq(Seq(Msg)) /\ Len(ks) \in Nat
  BY LenProperties DEF Walk
<1>2. ASSUME NEW i \in 2..Len(ks)
      PROVE  ks[i] \in Stored \ {HeadKey} /\ 1 \in DOMAIN ks[i] /\ ks[i][1] \in Msg
  <2>1. i - 1 \in 1..Len(ks) - 1 /\ (i - 1) + 1 = i
    BY <1>1
  <2>2. ks[i] \in Behind(ks[i - 1])
    BY <2>1 DEF Walk
  <2>3. Chunk(ks[i - 1]).tailKey \subseteq SplitKey
    BY ChunkTypes DEF ChunkType, AtMostOne
  <2>4. ks[i] \in Stored /\ ks[i] \in Seq(Msg) /\ ks[i] # HeadKey
    BY <2>2, <2>3, BehindTypes DEF SplitKey
  <2>5. Len(ks[i]) \in Nat \ {0} /\ DOMAIN ks[i] = 1..Len(ks[i])
    BY <2>4, EmptySeq, LenProperties DEF HeadKey
  <2>6. 1 \in 1..Len(ks[i])
    BY <2>5
  <2>7. ks[i][1] \in Msg
    BY <2>4, <2>6, ElementOfSeq
  <2> QED
    BY <2>4, <2>5, <2>6, <2>7
<1>3. ASSUME NEW i \in 2..Len(ks) - 1
      PROVE  pos[ks[i + 1][1]] < pos[ks[i][1]]
  <2>1. i \in 2..Len(ks) /\ i + 1 \in 2..Len(ks) /\ i \in 1..Len(ks) - 1
    BY <1>1
  <2>2. ks[i + 1] \in Chunk(ks[i]).tailKey
    BY <2>1, BehindTypes DEF Walk
  <2>3. Fine(ks[i], Chunk(ks[i]), pos, Stored) /\ ks[i] # HeadKey
    BY <1>2, <2>1, ChunkFine
  <2>4. Chunk(ks[i]).list = ks[i]
    BY <2>3 DEF Fine
  <2>5. 1 \in DOMAIN ks[i] /\ 1 \in DOMAIN ks[i + 1]
    BY <1>2, <2>1
  <2> QED
    BY <2>2, <2>3, <2>4, <2>5 DEF Fine
<1> QED
  BY <1>2, <1>3

\* The messages grow older all the way down.
LEMMA WalkSinks ==
    ASSUME TypeOK, NEW pos \in [Msg -> Int], OrderInv(pos), NEW ks, Walk(ks)
    PROVE  \A i, j \in 2..Len(ks) : i < j => pos[ks[j][1]] < pos[ks[i][1]]
<1> DEFINE at(i) == pos[ks[i][1]]
<1>0. Len(ks) \in Nat
  BY LenProperties DEF Walk
<1>1. /\ \A i \in 2..Len(ks) : at(i) \in Int
      /\ \A i \in 2..Len(ks) - 1 : at(i + 1) < at(i)
  BY WalkDown
<1>2. ASSUME NEW i \in 2..Len(ks), NEW j \in 2..Len(ks), i < j
      PROVE  at(j) < at(i)
  <2> DEFINE G == {n \in 0..Len(ks) : i + n + 1 \in 2..Len(ks) => at(i + n + 1) < at(i)}
  <2> HIDE DEF at
  <2>1. 0 \in G
    BY <1>0, <1>1
  <2>2. ASSUME NEW n \in 1..Len(ks), n - 1 \in G
        PROVE  n \in G
    <3> SUFFICES ASSUME i + n + 1 \in 2..Len(ks) PROVE at(i + n + 1) < at(i)
      BY <1>0
    <3> DEFINE p == i + (n - 1) + 1
    <3>1. p \in 2..Len(ks) - 1 /\ p \in 2..Len(ks) /\ p + 1 \in 2..Len(ks) /\ p + 1 = i + n + 1
      BY <1>0
    <3>2. at(p) < at(i)
      BY <2>2, <3>1
    <3> HIDE DEF p
    <3>3. at(p + 1) < at(p) /\ at(p + 1) \in Int /\ at(p) \in Int /\ at(i) \in Int
      BY <1>1, <3>1
    <3>4. at(p + 1) < at(i)
      BY <3>2, <3>3
    <3> QED
      BY <3>1, <3>4
  <2>3. 0..Len(ks) \subseteq G
    <3> HIDE DEF G
    <3> QED
      BY <1>0, <2>1, <2>2, CountingUp
  <2>4. j - i - 1 \in 0..Len(ks) /\ i + (j - i - 1) + 1 = j
    BY <1>0, <1>2
  <2> QED
    BY <2>3, <2>4
<1> QED
  BY <1>2 DEF at

\* Hence it comes to no chunk twice.
LEMMA WalkApart ==
    ASSUME TypeOK, NEW pos \in [Msg -> Int], OrderInv(pos), NEW ks, Walk(ks)
    PROVE  \A i, j \in 2..Len(ks) : i # j => ks[i] # ks[j]
<1> DEFINE at(i) == pos[ks[i][1]]
<1>0. Len(ks) \in Nat
  BY LenProperties DEF Walk
<1>1. /\ \A i \in 2..Len(ks) : at(i) \in Int
      /\ \A i, j \in 2..Len(ks) : i < j => at(j) < at(i)
  BY WalkDown, WalkSinks
<1>2. ASSUME NEW i \in 2..Len(ks), NEW j \in 2..Len(ks), i # j, ks[i] = ks[j]
      PROVE  FALSE
  <2>1. at(i) = at(j)
    BY <1>2
  <2>2. at(i) \in Int /\ at(j) \in Int
    BY <1>1
  <2>3. i < j \/ j < i
    BY <1>0, <1>2
  <2> HIDE DEF at
  <2> QED
    BY <1>1, <2>1, <2>2, <2>3
<1> QED
  BY <1>2

\* After so many steps as there are chunks there is none left.
LEMMA KeysEnd == TypeOK /\ ChainInv /\ ~torn => Ends(Keys)
<1> SUFFICES ASSUME TypeOK, ChainInv, ~torn PROVE Ends(Keys)
  OBVIOUS
<1>1. PICK pos \in [Msg -> Int] : OrderInv(pos)
  BY DEF ChainInv
<1> DEFINE n == Cardinality(Stored)
<1>2. n \in Nat /\ IsFiniteSet(Stored)
  BY StoredFinite
<1>3. PICK f \in [0..n -> Walks] : Steps(f, n) /\ Keys = f[n]
  BY KeysWalk
<1> HIDE DEF n
<1>4. Walk(Keys)
  BY <1>2, <1>3 DEF Walks
<1> SUFFICES ASSUME Behind(Keys[Len(Keys)]) # {} PROVE FALSE
  BY <1>4 DEF Ends
<1>5. ASSUME NEW i \in 0..n PROVE Len(f[i]) \in Nat /\ Walk(f[i])
  BY <1>3, LenProperties DEF Walks, Walk
\* Where a walk has ended it stays.
<1> DEFINE over(i) == Behind(f[i][Len(f[i])]) = {}
<1>6. ASSUME NEW i \in 1..n
      PROVE  /\ over(i - 1) => over(i)
             /\ ~over(i - 1) => Len(f[i]) = Len(f[i - 1]) + 1
  <2>1. i \in 0..n /\ i # 0 /\ i - 1 \in 0..n
    BY <1>2
  <2>2. f[i] = Further[f[i - 1]]
    BY <1>3, <2>1 DEF Steps
  <2>3. Walk(f[i - 1])
    BY <1>5, <2>1
  <2> QED
    BY <2>2, <2>3, FurtherWalk
<1> DEFINE G == {i \in 0..n : over(i) \/ Len(f[i]) = i + 1}
<1>7. 0..n \subseteq G
  <2>1. 0 \in G
    <3>1. 0 \in 0..n /\ f[0] = <<HeadKey>>
      BY <1>2, <1>3 DEF Steps
    <3>2. Len(f[0]) = 0 + 1
      BY <3>1
    <3> HIDE DEF over
    <3> QED
      BY <3>1, <3>2
  <2>2. ASSUME NEW i \in 1..n, i - 1 \in G PROVE i \in G
    <3>1. over(i - 1) \/ Len(f[i - 1]) = i
      BY <2>2
    <3> HIDE DEF over
    <3>2. over(i) \/ Len(f[i]) = i + 1
      BY <1>6, <3>1
    <3> QED
      BY <1>2, <3>2
  <2> HIDE DEF G
  <2> QED
    BY <1>2, <2>1, <2>2, CountingUp
<1>8. ~over(n)
  BY <1>3
<1>9. Len(Keys) = n + 1
  <2>1. n \in G
    BY <1>2, <1>7
  <2> HIDE DEF over
  <2> QED
    BY <1>3, <1>8, <2>1
<1>10. \A i \in 2..n + 1 : Keys[i] \in Stored \ {HeadKey}
  BY <1>1, <1>4, <1>9, WalkDown
<1>11. \A i, j \in 2..n + 1 : i # j => Keys[i] # Keys[j]
  BY <1>1, <1>4, <1>9, WalkApart
\* There is one key too many.
<1>12. HeadKey \in Stored
  <2>1. CASE n = 0
    <3>1. Keys[Len(Keys)] = HeadKey
      BY <1>4, <1>9, <2>1 DEF Walk
    <3>2. Stored = {}
      BY <1>2, <2>1, FS_EmptySet DEF n
    <3> QED
      BY <3>1, <3>2, BehindTypes
  <2>2. CASE n # 0
    <3>1. HeadKey \notin Stored => Chunk(HeadKey).tailKey = {}
      BY DEF Stored, Chunk, Empty
    <3>2. 1 \in 1..Len(Keys) - 1 /\ 1 + 1 = 2
      BY <1>2, <1>9, <2>2
    <3>3. Keys[2] \in Behind(Keys[1]) /\ Keys[1] = HeadKey
      BY <1>4, <3>2 DEF Walk
    <3> QED
      BY <3>1, <3>3, BehindTypes
  <2> QED
    BY <2>1, <2>2
<1>13. IsFiniteSet(Stored \ {HeadKey}) /\ Cardinality(Stored \ {HeadKey}) = n - 1
  BY <1>2, <1>12, FS_RemoveElement DEF n
<1>14. IsFiniteSet(2..n + 1) /\ Cardinality(2..n + 1) = n
  <2>1. n # 0
    BY <1>2, <1>12, FS_EmptySet DEF n
  <2>2. 2 \in Int /\ n + 1 \in Int /\ ~(2 > n + 1) /\ (n + 1) - 2 + 1 = n
    BY <1>2, <2>1
  <2> QED
    BY <2>2, FS_Interval
<1> DEFINE g == [i \in 2..n + 1 |-> Keys[i]]
<1>15. g \in [2..n + 1 -> Stored \ {HeadKey}]
  BY <1>10
<1>16. n - 1 < n
  BY <1>2
<1>17. \E x, y \in 2..n + 1 : x # y /\ g[x] = g[y]
  <2> HIDE DEF g
  <2> QED
    BY <1>13, <1>14, <1>15, <1>16, FS_PigeonHole
<1> QED
  BY <1>11, <1>17

\* A chunk has one tail at most: two walks to the end are the same.
LEMMA OneEnd == TypeOK => \A ks, ls : Ends(ks) /\ Ends(ls) => ks = ls
<1> SUFFICES ASSUME TypeOK, NEW ks, NEW ls, Ends(ks), Ends(ls)
             PROVE  ks = ls
  OBVIOUS
<1>1. /\ ks \in Seq(Seq(Msg)) /\ ls \in Seq(Seq(Msg)) /\ Len(ks) \in Nat \ {0} /\ Len(ls) \in Nat \ {0}
      /\ ks[1] = HeadKey /\ ls[1] = HeadKey
  BY EmptySeq, LenProperties DEF Ends, Walk
<1>2. \A k : \A t, u \in Behind(k) : t = u
  BY ChunkTypes DEF Behind, ChunkType, AtMostOne
<1> DEFINE G == {i \in 0..Len(ks) - 1 : i + 1 <= Len(ls) /\ ks[i + 1] = ls[i + 1]}
<1>3. 0..Len(ks) - 1 \subseteq G
  <2>1. 0 \in G
    BY <1>1
  <2>2. ASSUME NEW i \in 1..Len(ks) - 1, i - 1 \in G
        PROVE  i \in G
    <3>1. i <= Len(ls) /\ ks[i] = ls[i]
      BY <1>1, <2>2
    <3>2. ks[i + 1] \in Behind(ks[i])
      BY DEF Ends, Walk
    <3>3. i # Len(ls)
      BY <3>1, <3>2 DEF Ends
    <3>4. i \in 1..Len(ls) - 1 /\ i + 1 <= Len(ls) /\ i \in 0..Len(ks) - 1
      BY <1>1, <3>1, <3>3
    <3>5. ls[i + 1] \in Behind(ls[i])
      BY <3>4 DEF Ends, Walk
    <3> QED
      BY <1>2, <3>1, <3>2, <3>4, <3>5
  <2>3. Len(ks) - 1 \in Nat
    BY <1>1
  <2> HIDE DEF G
  <2> QED
    BY <2>1, <2>2, <2>3, CountingUp
<1>4. \A i \in 1..Len(ks) : i <= Len(ls) /\ ks[i] = ls[i]
  <2> SUFFICES ASSUME NEW i \in 1..Len(ks) PROVE i <= Len(ls) /\ ks[i] = ls[i]
    OBVIOUS
  <2>1. i - 1 \in 0..Len(ks) - 1 /\ (i - 1) + 1 = i
    BY <1>1
  <2> QED
    BY <1>3, <2>1
<1>5. Len(ks) = Len(ls)
  <2>1. Len(ks) <= Len(ls) /\ ks[Len(ks)] = ls[Len(ks)]
    BY <1>1, <1>4
  <2>2. CASE Len(ks) < Len(ls)
    <3>1. Len(ks) \in 1..Len(ls) - 1
      BY <1>1, <2>2
    <3>2. ls[Len(ks) + 1] \in Behind(ls[Len(ks)])
      BY <3>1 DEF Ends, Walk
    <3> QED
      BY <2>1, <3>2 DEF Ends
  <2> QED
    BY <1>1, <2>1, <2>2
<1> QED
  BY <1>1, <1>4, <1>5, SeqEqual

-----------------------------------------------------------------------------
(* Lists that are joined.                                                  *)

LEMMA JointStep ==
    ASSUME NEW n \in Nat, NEW ls, NEW f, Joint(f, ls, n)
    PROVE  f[0] = <<>> /\ \A k \in 1..n : f[k] = ls[k] \o f[k - 1]
<1>1. 0 \in 0..n /\ \A k \in 1..n : k \in 0..n /\ k # 0
  OBVIOUS
<1>2. f[0] = <<>>
  BY <1>1 DEF Joint
<1>3. ASSUME NEW k \in 1..n PROVE f[k] = ls[k] \o f[k - 1]
  BY <1>1 DEF Joint
<1> QED
  BY <1>2, <1>3

LEMMA FlatNone == Flat(<<>>) = <<>>
<1>1. <<>> \in Seq(Seq(Msg)) /\ Len(<<>>) = 0 /\ 0 \in 0..0
  OBVIOUS
<1>2. PICK f \in [0..Len(<<>>) -> Seq(Msg)] : Joint(f, <<>>, Len(<<>>)) /\ Flat(<<>>) = f[Len(<<>>)]
  BY <1>1, FlatIs
<1>3. Joint(f, <<>>, 0) /\ Flat(<<>>) = f[0]
  BY <1>1, <1>2
<1> QED
  BY <1>1, <1>3 DEF Joint

LEMMA Regrouped == \A s, t, u \in Seq(Msg) : (s \o t) \o u = s \o (t \o u)
  BY ConcatAssociative

\* The first list comes last.
LEMMA FlatFirst ==
    ASSUME NEW ls \in Seq(Seq(Msg)), ls # <<>>
    PROVE  Flat(ls) = Flat(Tail(ls)) \o ls[1]
<1> DEFINE n  == Len(ls)
           us == Tail(ls)
<1>1. /\ n \in Nat \ {0} /\ us \in Seq(Seq(Msg)) /\ Len(us) = n - 1
      /\ \A i \in 1..n - 1 : us[i] = ls[i + 1]
      /\ \A i \in 1..n : ls[i] \in Seq(Msg)
  BY EmptySeq, HeadTailProperties, ElementOfSeq
<1> HIDE DEF n, us
<1>2. PICK f \in [0..n -> Seq(Msg)] : Joint(f, ls, n) /\ Flat(ls) = f[n]
  BY FlatIs DEF n
<1>3. PICK g \in [0..n - 1 -> Seq(Msg)] : Joint(g, us, n - 1) /\ Flat(us) = g[n - 1]
  BY <1>1, FlatIs
<1>4. f[0] = <<>> /\ \A k \in 1..n : f[k] = ls[k] \o f[k - 1]
  <2>1. n \in Nat /\ Joint(f, ls, n)
    BY <1>1, <1>2
  <2> QED
    BY ONLY <2>1, JointStep
<1>5. g[0] = <<>> /\ \A k \in 1..n - 1 : g[k] = us[k] \o g[k - 1]
  <2>1. n - 1 \in Nat /\ Joint(g, us, n - 1)
    BY <1>1, <1>3
  <2> QED
    BY ONLY <2>1, JointStep
<1> DEFINE G == {i \in 0..n - 1 : f[i + 1] = g[i] \o ls[1]}
<1>6. 0 \in G
  <2>1. 0 \in 0..n /\ 1 \in 0..n /\ 0 \in 0..n - 1 /\ 1 - 1 = 0 /\ 0 + 1 = 1 /\ 1 \in 1..n
    BY <1>1
  <2>2. f[1] = ls[1] \o f[0] /\ f[0] = <<>> /\ g[0] = <<>>
    BY <1>4, <1>5, <2>1
  <2>3. ls[1] \o <<>> = ls[1] /\ <<>> \o ls[1] = ls[1]
    BY <1>1, <2>1, ConcatEmptySeq
  <2> QED
    BY <2>1, <2>2, <2>3
<1>7. ASSUME NEW i \in 1..n - 1, i - 1 \in G
      PROVE  i \in G
  <2>1. /\ i \in 0..n - 1 /\ i # 0 /\ i + 1 \in 0..n /\ i + 1 # 0 /\ i + 1 - 1 = i /\ i - 1 + 1 = i
        /\ i - 1 \in 0..n - 1 /\ i + 1 \in 1..n /\ 1 \in 1..n
    <3>1. n \in Nat \ {0} /\ i \in 1..n - 1
      BY <1>1
    <3> QED
      BY ONLY <3>1
  <2>2. f[i + 1] = ls[i + 1] \o f[i]
    <3> DEFINE p == i + 1
    <3>1. p \in 1..n /\ p - 1 = i
      BY <1>1
    <3> HIDE DEF p
    <3>2. f[p] = ls[p] \o f[p - 1]
      BY <1>4, <3>1
    <3>3. f[p] = ls[p] \o f[i]
      BY <3>1, <3>2
    <3> QED
      BY <3>3 DEF p
  <2>3. f[i] = g[i - 1] \o ls[1]
    BY <1>7, <2>1
  <2>4. g[i] = ls[i + 1] \o g[i - 1]
    BY <1>1, <1>5, <2>1
  <2>5. ls[i + 1] \in Seq(Msg) /\ g[i - 1] \in Seq(Msg) /\ ls[1] \in Seq(Msg)
    BY <1>1, <1>3, <2>1
  <2>6. (ls[i + 1] \o g[i - 1]) \o ls[1] = ls[i + 1] \o (g[i - 1] \o ls[1])
    BY <2>5, Regrouped
  <2> QED
    BY <2>1, <2>2, <2>3, <2>4, <2>6
<1> HIDE DEF G
<1>8. 0..n - 1 \subseteq G
  <2>1. n - 1 \in Nat
    BY <1>1
  <2> QED
    BY ONLY <2>1, <1>6, <1>7, CountingUp
<1>9. n - 1 \in 0..n - 1 /\ (n - 1) + 1 = n
  BY <1>1
<1>10. f[n] = g[n - 1] \o ls[1]
  BY <1>8, <1>9 DEF G
<1> QED
  BY <1>2, <1>3, <1>10 DEF us

-----------------------------------------------------------------------------
(* What is shown is in order.                                              *)

Increasing(pos, s) == \A i, j \in DOMAIN s : i < j => pos[s[i]] < pos[s[j]]
Below(pos, s, t) == \A i \in DOMAIN s, j \in DOMAIN t : pos[s[i]] < pos[t[j]]

LEMMA BothParts ==
    ASSUME NEW s \in Seq(Msg), NEW t \in Seq(Msg)
    PROVE  /\ s \o t \in Seq(Msg)
           /\ \A i \in DOMAIN (s \o t) :
                 \/ i \in DOMAIN s /\ (s \o t)[i] = s[i]
                 \/ i - Len(s) \in DOMAIN t /\ (s \o t)[i] = t[i - Len(s)] /\ \A j \in DOMAIN s : j < i
           /\ Len(s) \in Nat
           /\ \A i \in DOMAIN s : i \in Nat /\ s[i] \in Msg
           /\ \A i \in DOMAIN t : i \in Nat /\ t[i] \in Msg
<1>1. /\ s \o t \in Seq(Msg) /\ Len(s \o t) = Len(s) + Len(t) /\ Len(s) \in Nat /\ Len(t) \in Nat
      /\ DOMAIN s = 1..Len(s) /\ DOMAIN t = 1..Len(t) /\ DOMAIN (s \o t) = 1..Len(s) + Len(t)
      /\ \A i \in 1..Len(s) + Len(t) : (s \o t)[i] = IF i <= Len(s) THEN s[i] ELSE t[i - Len(s)]
  BY ConcatProperties, LenProperties
<1>2. \A i \in DOMAIN s : i \in Nat /\ s[i] \in Msg
  BY <1>1, ElementOfSeq
<1>3. \A i \in DOMAIN t : i \in Nat /\ t[i] \in Msg
  BY <1>1, ElementOfSeq
<1>4. ASSUME NEW i \in DOMAIN (s \o t)
      PROVE  \/ i \in DOMAIN s /\ (s \o t)[i] = s[i]
             \/ i - Len(s) \in DOMAIN t /\ (s \o t)[i] = t[i - Len(s)] /\ \A j \in DOMAIN s : j < i
  <2>1. CASE i <= Len(s)
    BY <1>1, <2>1
  <2>2. CASE ~(i <= Len(s))
    <3>1. i - Len(s) \in DOMAIN t /\ \A j \in DOMAIN s : j < i
      BY <1>1, <2>2
    <3> QED
      BY <1>1, <2>2, <3>1
  <2> QED
    BY <2>1, <2>2
<1> QED
  BY <1>1, <1>2, <1>3, <1>4

LEMMA IncreasingConcat ==
    ASSUME NEW s \in Seq(Msg), NEW t \in Seq(Msg), NEW pos \in [Msg -> Int],
           Increasing(pos, s), Increasing(pos, t), Below(pos, s, t)
    PROVE  Increasing(pos, s \o t)
<1> DEFINE u == s \o t
<1>1. /\ \A i \in DOMAIN u : \/ i \in DOMAIN s /\ u[i] = s[i]
                             \/ i - Len(s) \in DOMAIN t /\ u[i] = t[i - Len(s)] /\ \A j \in DOMAIN s : j < i
      /\ Len(s) \in Nat /\ u \in Seq(Msg)
  BY BothParts
<1>2. \A i \in DOMAIN u : i \in Nat
  BY <1>1, LenProperties
<1> HIDE DEF u
<1> SUFFICES ASSUME NEW i \in DOMAIN u, NEW j \in DOMAIN u, i < j
             PROVE  pos[u[i]] < pos[u[j]]
  BY DEF Increasing, u
<1>3. CASE i \in DOMAIN s /\ u[i] = s[i] /\ j \in DOMAIN s /\ u[j] = s[j]
  BY <1>3 DEF Increasing
<1>4. CASE i \in DOMAIN s /\ u[i] = s[i] /\ j - Len(s) \in DOMAIN t /\ u[j] = t[j - Len(s)]
  BY <1>4 DEF Below
<1>5. CASE i - Len(s) \in DOMAIN t /\ u[i] = t[i - Len(s)] /\ j - Len(s) \in DOMAIN t /\ u[j] = t[j - Len(s)]
  <2>1. i - Len(s) < j - Len(s)
    BY <1>1, <1>2
  <2> QED
    BY <1>5, <2>1 DEF Increasing
<1>6. CASE j \in DOMAIN s /\ \A x \in DOMAIN s : x < i
  BY <1>2, <1>6
<1> QED
  BY <1>1, <1>3, <1>4, <1>5, <1>6

LEMMA BelowConcat ==
    ASSUME NEW s \in Seq(Msg), NEW t \in Seq(Msg), NEW u \in Seq(Msg), NEW pos \in [Msg -> Int],
           t # <<>>, Below(pos, s, t), Below(pos, t, u)
    PROVE  Below(pos, s, t \o u)
<1>1. /\ \A i \in DOMAIN (t \o u) : \/ i \in DOMAIN t /\ (t \o u)[i] = t[i]
                                    \/ i - Len(t) \in DOMAIN u /\ (t \o u)[i] = u[i - Len(t)]
      /\ \A i \in DOMAIN u : u[i] \in Msg
      /\ \A i \in DOMAIN t : t[i] \in Msg
  BY BothParts
<1>2. 1 \in DOMAIN t
  BY EmptySeq, LenProperties
<1>3. \A i \in DOMAIN s : s[i] \in Msg
  BY LenProperties
<1> SUFFICES ASSUME NEW i \in DOMAIN s, NEW j \in DOMAIN (t \o u)
             PROVE  pos[s[i]] < pos[(t \o u)[j]]
  BY DEF Below
<1>4. CASE j \in DOMAIN t /\ (t \o u)[j] = t[j]
  BY <1>4 DEF Below
<1>5. CASE j - Len(t) \in DOMAIN u /\ (t \o u)[j] = u[j - Len(t)]
  <2>1. pos[s[i]] < pos[t[1]]
    BY <1>2 DEF Below
  <2>2. pos[t[1]] < pos[u[j - Len(t)]]
    BY <1>2, <1>5 DEF Below
  <2>3. pos[s[i]] \in Int /\ pos[t[1]] \in Int /\ pos[u[j - Len(t)]] \in Int
    BY <1>1, <1>2, <1>3, <1>5
  <2>4. pos[s[i]] < pos[u[j - Len(t)]]
    BY <2>1, <2>2, <2>3
  <2> QED
    BY <1>5, <2>4
<1> QED
  BY <1>1, <1>4, <1>5

\* Lists in order, each below the one before, are joined in order.
Descending(pos, ls) ==
    /\ \A i \in 1..Len(ls) : Increasing(pos, ls[i])
    /\ \A i \in 1..Len(ls) - 1 : ls[i] # <<>> /\ Below(pos, ls[i + 1], ls[i])

LEMMA FlatIncreasing ==
    ASSUME NEW ls \in Seq(Seq(Msg)), NEW pos \in [Msg -> Int], Descending(pos, ls)
    PROVE  Increasing(pos, Flat(ls))
<1> DEFINE n == Len(ls)
<1>1. n \in Nat /\ \A i \in 1..n : ls[i] \in Seq(Msg)
  BY LenProperties, ElementOfSeq
<1>2. /\ \A i \in 1..n : Increasing(pos, ls[i])
      /\ \A i \in 1..n - 1 : ls[i] # <<>> /\ Below(pos, ls[i + 1], ls[i])
  BY DEF Descending
<1>3. PICK f \in [0..n -> Seq(Msg)] : Joint(f, ls, n) /\ Flat(ls) = f[n]
  BY FlatIs
<1> HIDE DEF n
<1> DEFINE G == {i \in 0..n : Increasing(pos, f[i]) /\ (i < n => Below(pos, ls[i + 1], f[i]))}
<1>4. 0 \in G
  <2>1. 0 \in 0..n
    BY <1>1
  <2>2. f[0] = <<>>
    BY <1>3, <2>1 DEF Joint
  <2>3. \A x : x \notin DOMAIN <<>>
    OBVIOUS
  <2> QED
    BY <2>1, <2>2, <2>3 DEF Increasing, Below
<1>5. ASSUME NEW k \in 1..n, k - 1 \in G
      PROVE  k \in G
  <2>1. k \in 0..n /\ k # 0 /\ k - 1 \in 0..n /\ k - 1 < n /\ (k - 1) + 1 = k
    BY <1>1
  <2>2. f[k] = ls[k] \o f[k - 1] /\ ls[k] \in Seq(Msg) /\ f[k - 1] \in Seq(Msg)
    BY <1>1, <1>3, <2>1 DEF Joint
  <2>3. Increasing(pos, f[k - 1]) /\ Below(pos, ls[k], f[k - 1])
    BY <1>5, <2>1
  <2>4. Increasing(pos, f[k])
    BY <1>2, <2>2, <2>3, IncreasingConcat
  <2>5. ASSUME k < n PROVE Below(pos, ls[k + 1], f[k])
    <3>1. k \in 1..n - 1 /\ k + 1 \in 1..n
      BY <1>1, <2>5
    <3>2. ls[k] # <<>> /\ Below(pos, ls[k + 1], ls[k]) /\ ls[k + 1] \in Seq(Msg)
      BY <1>1, <1>2, <3>1
    <3> QED
      BY <2>2, <2>3, <3>2, BelowConcat
  <2> QED
    BY <2>1, <2>4, <2>5
<1> HIDE DEF G
<1>6. 0..n \subseteq G
  BY <1>1, <1>4, <1>5, CountingUp
<1>7. n \in 0..n
  BY <1>1
<1> QED
  BY <1>3, <1>6, <1>7 DEF G

\* No message is shown twice.
LEMMA ShownOnce == TypeOK /\ ChainInv /\ ~torn => Shown \in Seq(Msg) /\ IsInjective(Shown)
<1> SUFFICES ASSUME TypeOK, ChainInv, ~torn PROVE Shown \in Seq(Msg) /\ IsInjective(Shown)
  OBVIOUS
<1>1. PICK pos \in [Msg -> Int] : OrderInv(pos)
  BY DEF ChainInv
<1> DEFINE ks == Keys
           ls == ListsOf(ks)
<1>2. Walk(ks) /\ ToSet(ks) \subseteq Stored \union {HeadKey}
  BY KeysStored
<1>3. ks \in Seq(Seq(Msg)) /\ Len(ks) \in Nat /\ \A i \in 1..Len(ks) : ks[i] \in ToSet(ks)
  BY <1>2, LenProperties DEF Walk, ToSet
<1>4. ls \in Seq(Seq(Msg)) /\ Len(ls) = Len(ks) /\ Shown = Flat(ls) /\ Flat(ls) \in Seq(Msg)
  BY <1>3, JoinedFlat, FlatIs DEF Shown
<1>5. \A i \in 1..Len(ks) : ls[i] = Chunk(ks[i]).list
  BY DEF ListsOf
<1> HIDE DEF ks, ls
<1>6. ASSUME NEW i \in 1..Len(ks)
      PROVE  Fine(ks[i], Chunk(ks[i]), pos, Stored)
  BY <1>1, <1>2, <1>3, ChunkFine
<1>7. \A i \in 1..Len(ks) : Increasing(pos, ls[i])
  BY <1>5, <1>6 DEF Fine, Increasing
<1>8. ASSUME NEW i \in 1..Len(ks) - 1
      PROVE  ls[i] # <<>> /\ Below(pos, ls[i + 1], ls[i])
  <2>1. i \in 1..Len(ks) /\ i + 1 \in 1..Len(ks) /\ i + 1 \in 2..Len(ks)
    BY <1>3
  <2>2. ks[i + 1] \in Chunk(ks[i]).tailKey
    BY <1>2, BehindTypes DEF Walk
  <2>3. ks[i + 1] # HeadKey
    BY <1>1, <1>2, <2>1, WalkDown
  <2>4. ls[i + 1] = ks[i + 1]
    BY <1>5, <1>6, <2>1, <2>3 DEF Fine
  <2> QED
    BY <1>5, <1>6, <2>1, <2>2, <2>4 DEF Fine, Below
<1>9. Increasing(pos, Flat(ls))
  BY <1>4, <1>7, <1>8, FlatIncreasing DEF Descending
<1>10. ASSUME NEW a \in DOMAIN Shown, NEW b \in DOMAIN Shown, a # b, Shown[a] = Shown[b]
       PROVE  FALSE
  <2>1. a \in Nat /\ b \in Nat /\ Shown[a] \in Msg /\ Shown[b] \in Msg
    BY <1>4, LenProperties
  <2>2. a < b \/ b < a
    BY <1>10, <2>1
  <2>3. pos[Shown[a]] < pos[Shown[b]] \/ pos[Shown[b]] < pos[Shown[a]]
    BY <1>4, <1>9, <2>2 DEF Increasing
  <2>4. pos[Shown[a]] = pos[Shown[b]] /\ pos[Shown[a]] \in Int
    BY <1>10, <2>1
  <2> HIDE DEF Shown
  <2> QED
    BY <2>3, <2>4
<1>11. IsInjective(Shown)
  BY <1>10 DEF IsInjective
<1> QED
  BY <1>4, <1>11

-----------------------------------------------------------------------------
(* What local storage will hold when the writes are done.                  *)

LastWrite(ts, i) == IsWrite(ts[i]) /\ \A j \in DOMAIN ts : i < j /\ IsWrite(ts[j]) => ts[j].key # ts[i].key

\* When the timers ts have fired, d holds c under the key k.
WillHold(ts, d, k, c) ==
    /\ \A i \in DOMAIN ts : LastWrite(ts, i) /\ ts[i].key = k => ts[i].chunk = c
    /\ k \in KeysIn(ts) \/ (k \in DOMAIN d /\ d[k] = c)

\* As long as no memory was lost before it was written, local storage will hold
\* what is in the cache.
HoldInv ==
    ~harmed => /\ ~torn
               /\ KeysIn(timers) \subseteq DOMAIN cache
               /\ \A k \in DOMAIN cache : WillHold(timers, disk, k, cache[k])

\* The writes of other keys, and what they wrote, do not matter.
LEMMA HoldAlike ==
    ASSUME NEW ts, NEW us, Rewritten(ts, us), NEW d, NEW k, NEW b, NEW c,
           \A i \in DOMAIN ts : IsWrite(ts[i]) /\ ts[i].key = k /\ ts[i].chunk = b => us[i].chunk = c,
           k \in KeysIn(ts) \/ b = c, WillHold(ts, d, k, b)
    PROVE  WillHold(us, d, k, c)
<1>1. /\ DOMAIN us = DOMAIN ts
      /\ \A i \in DOMAIN ts : /\ IsWrite(us[i]) <=> IsWrite(ts[i])
                              /\ IsWrite(ts[i]) => us[i].key = ts[i].key
  BY DEF Rewritten
<1>2. KeysIn(us) = KeysIn(ts)
  BY RewrittenKeys
<1>3. ASSUME NEW i \in DOMAIN us, LastWrite(us, i), us[i].key = k PROVE us[i].chunk = c
  <2>1. i \in DOMAIN ts /\ IsWrite(ts[i]) /\ ts[i].key = k
    BY <1>1, <1>3 DEF LastWrite
  <2>2. \A j \in DOMAIN ts : i < j /\ IsWrite(ts[j]) => ts[j].key # ts[i].key
    BY <1>1, <1>3, <2>1 DEF LastWrite
  <2>3. ts[i].chunk = b
    BY <2>1, <2>2 DEF LastWrite, WillHold
  <2> QED
    BY <2>1, <2>3
<1> QED
  BY <1>2, <1>3 DEF WillHold

LEMMA HoldSame ==
    ASSUME NEW ts, NEW us, SameWrites(ts, us), NEW d
    PROVE  /\ KeysIn(us) = KeysIn(ts)
           /\ \A k, c : WillHold(ts, d, k, c) => WillHold(us, d, k, c)
<1>1. KeysIn(us) = KeysIn(ts)
  BY DEF KeysIn, SameWrites
<1>2. \A i \in DOMAIN us : LastWrite(us, i) => i \in DOMAIN ts /\ us[i] = ts[i] /\ LastWrite(ts, i)
  BY DEF LastWrite, SameWrites
<1> QED
  BY <1>1, <1>2 DEF WillHold

\* Writes come behind those there were.
LEMMA HoldFollow ==
    ASSUME NEW ts \in Seq(TimerType), NEW ws \in Seq(TimerType), NEW us, Follow(us, ts, ws),
           \A i \in DOMAIN ws : IsWrite(ws[i]), NEW d
    PROVE  /\ KeysIn(us) = KeysIn(ts) \union KeysIn(ws)
           /\ \A k, c : /\ \A i \in DOMAIN ws : ws[i].key = k => ws[i].chunk = c
                        /\ k \in KeysIn(ws) \/ WillHold(ts, d, k, c)
                        => WillHold(us, d, k, c)
<1> DEFINE vs == ts \o ws
           l  == Len(ts)
<1>1. /\ vs \in Seq(TimerType) /\ Len(vs) = l + Len(ws) /\ l \in Nat /\ Len(ws) \in Nat
      /\ \A i \in 1..l : vs[i] = ts[i]
      /\ \A i \in 1..Len(ws) : vs[l + i] = ws[i]
  BY After
<1>2. DOMAIN ts = 1..l /\ DOMAIN ws = 1..Len(ws) /\ DOMAIN vs = 1..l + Len(ws)
  BY <1>1, LenProperties
<1>3. us = vs \/ us = vs \o <<ConvWakes>>
  BY DEF Follow
<1> HIDE DEF vs, l
<1>4. \A i \in DOMAIN ts : i \in Nat /\ i <= l /\ i \in DOMAIN vs /\ vs[i] = ts[i]
  BY <1>1, <1>2
<1>5. \A i \in DOMAIN ws : i \in Nat /\ 1 <= i /\ l + i \in DOMAIN vs /\ vs[l + i] = ws[i]
  BY <1>1, <1>2
<1>6. \A i \in DOMAIN vs : i \in DOMAIN ts \/ (i - l \in DOMAIN ws /\ vs[i] = ws[i - l])
  BY <1>1, <1>2
<1>7. \A i \in DOMAIN ts, j \in DOMAIN ws : i < l + j
  BY <1>1, <1>2
<1>8. KeysIn(vs) = KeysIn(ts) \union KeysIn(ws)
  <2>1. KeysIn(ts) \subseteq KeysIn(vs)
    BY <1>4 DEF KeysIn
  <2>2. KeysIn(ws) \subseteq KeysIn(vs)
    BY <1>5 DEF KeysIn
  <2>3. KeysIn(vs) \subseteq KeysIn(ts) \union KeysIn(ws)
    BY <1>4, <1>6 DEF KeysIn
  <2> QED
    BY <2>1, <2>2, <2>3
<1>9. ASSUME NEW k, NEW c, \A i \in DOMAIN ws : ws[i].key = k => ws[i].chunk = c,
             k \in KeysIn(ws) \/ WillHold(ts, d, k, c)
      PROVE  WillHold(vs, d, k, c)
  <2>1. ASSUME NEW i \in DOMAIN vs, LastWrite(vs, i), vs[i].key = k PROVE vs[i].chunk = c
    <3>1. CASE i \in DOMAIN ts
      <4>1. k \notin KeysIn(ws)
        <5>1. \A j \in DOMAIN ws : ws[j].key # k
          BY <1>5, <1>7, <2>1, <3>1 DEF LastWrite
        <5> QED
          BY <5>1 DEF KeysIn
      <4>2. LastWrite(ts, i) /\ ts[i] = vs[i]
        BY <1>4, <2>1, <3>1 DEF LastWrite
      <4> QED
        BY <1>9, <2>1, <3>1, <4>1, <4>2 DEF WillHold
    <3>2. CASE i - l \in DOMAIN ws /\ vs[i] = ws[i - l]
      BY <1>9, <2>1, <3>2
    <3> QED
      BY <1>6, <3>1, <3>2
  <2>2. k \in KeysIn(vs) \/ (k \in DOMAIN d /\ d[k] = c)
    BY <1>8, <1>9 DEF WillHold
  <2> QED
    BY <2>1, <2>2 DEF WillHold
<1>10. CASE us = vs
  BY <1>8, <1>9, <1>10
<1>11. CASE us = vs \o <<ConvWakes>>
  <2>1. /\ DOMAIN us = 1..Len(vs) + 1 /\ DOMAIN vs = 1..Len(vs) /\ Len(vs) \in Nat
        /\ \A i \in 1..Len(vs) : us[i] = vs[i]
        /\ us[Len(vs) + 1] = ConvWakes
    <3>1. vs \in Seq(TimerType) /\ ConvWakes \in TimerType /\ us = vs \o <<ConvWakes>>
      BY <1>1, <1>11, NewTimers
    <3> QED
      BY ONLY <3>1, AfterOne
  <2>2. ~IsWrite(ConvWakes)
    BY DEF ConvWakes, IsWrite
  <2>3. SameWrites(vs, us)
    <3>1. \A i \in DOMAIN us : i \in DOMAIN vs \/ us[i] = ConvWakes
      BY <2>1
    <3>2. \A i \in DOMAIN vs : i \in DOMAIN us /\ us[i] = vs[i]
      BY <2>1
    <3> QED
      BY <2>2, <3>1, <3>2 DEF SameWrites
  <2>4. KeysIn(us) = KeysIn(vs) /\ \A k, c : WillHold(vs, d, k, c) => WillHold(us, d, k, c)
    BY <2>3, HoldSame
  <2> QED
    BY <1>8, <1>9, <2>4
<1> QED
  BY <1>3, <1>10, <1>11

\* The first timer has fired.
LEMMA HoldTail ==
    ASSUME NEW ts \in Seq(TimerType), ts # <<>>, NEW d, NEW k, NEW c, WillHold(ts, d, k, c)
    PROVE  /\ ~IsWrite(Head(ts)) => WillHold(Tail(ts), d, k, c)
           /\ IsWrite(Head(ts)) => WillHold(Tail(ts), Put(d, Head(ts).key, Head(ts).chunk), k, c)
<1> DEFINE us == Tail(ts)
           h  == Head(ts)
<1>1. /\ \A i \in DOMAIN us : i + 1 \in DOMAIN ts /\ us[i] = ts[i + 1]
      /\ \A j \in DOMAIN ts : j = 1 \/ (j - 1 \in DOMAIN us /\ us[j - 1] = ts[j])
      /\ ~IsWrite(h) => KeysIn(ts) = KeysIn(us)
      /\ IsWrite(h) => KeysIn(ts) = KeysIn(us) \union {h.key}
      /\ 1 \in DOMAIN ts /\ h = ts[1]
  BY KeysTail
<1>2. /\ \A i \in DOMAIN us : i \in Nat /\ i >= 1
      /\ \A i \in DOMAIN ts : i \in Nat /\ i >= 1
  BY HeadTailProperties, LenProperties
<1> HIDE DEF us, h
<1>3. ASSUME NEW i \in DOMAIN us, LastWrite(us, i) PROVE LastWrite(ts, i + 1)
  <2>1. i + 1 \in DOMAIN ts /\ ts[i + 1] = us[i]
    BY <1>1
  <2>2. ASSUME NEW j \in DOMAIN ts, i + 1 < j, IsWrite(ts[j]) PROVE ts[j].key # ts[i + 1].key
    <3>1. j # 1 /\ i < j - 1
      BY <1>2, <2>2
    <3>2. j - 1 \in DOMAIN us /\ us[j - 1] = ts[j]
      BY <1>1, <3>1
    <3> QED
      BY <1>3, <2>1, <2>2, <3>1, <3>2 DEF LastWrite
  <2> QED
    BY <1>3, <2>1, <2>2 DEF LastWrite
<1>4. \A i \in DOMAIN us : LastWrite(us, i) /\ us[i].key = k => us[i].chunk = c
  BY <1>1, <1>3 DEF WillHold
<1>5. ASSUME ~IsWrite(h) PROVE WillHold(us, d, k, c)
  BY <1>1, <1>4, <1>5 DEF WillHold
<1>6. ASSUME IsWrite(h) PROVE WillHold(us, Put(d, h.key, h.chunk), k, c)
  <2> DEFINE e == Put(d, h.key, h.chunk)
  <2>1. /\ DOMAIN e = DOMAIN d \union {h.key} /\ e[h.key] = h.chunk
        /\ \A j \in DOMAIN d : j # h.key => e[j] = d[j]
    BY DEF Put
  <2> HIDE DEF e
  <2>2. CASE k \in KeysIn(us)
    BY <1>4, <2>2 DEF WillHold, e
  <2>3. CASE k \notin KeysIn(us) /\ k = h.key
    <3>1. \A j \in DOMAIN ts : 1 < j /\ IsWrite(ts[j]) => ts[j].key # k
      <4>1. \A j \in DOMAIN us : IsWrite(us[j]) => us[j].key # k
        BY <2>3 DEF KeysIn
      <4>2. \A j \in DOMAIN ts : 1 < j => j # 1
        BY <1>2
      <4> QED
        BY <1>1, <4>1, <4>2
    <3>2. LastWrite(ts, 1)
      BY <1>1, <1>6, <2>3, <3>1 DEF LastWrite
    <3>3. h.chunk = c
      BY <1>1, <2>3, <3>2 DEF WillHold
    <3>4. k \in DOMAIN e /\ e[k] = c
      BY <2>1, <2>3, <3>3
    <3> QED
      BY <1>4, <3>4 DEF WillHold, e
  <2>4. CASE k \notin KeysIn(us) /\ k # h.key
    <3>1. k \in DOMAIN d /\ d[k] = c
      BY <1>1, <1>6, <2>4 DEF WillHold
    <3>2. k \in DOMAIN e /\ e[k] = c
      BY <2>1, <2>4, <3>1
    <3> QED
      BY <1>4, <3>2 DEF WillHold, e
  <2> QED
    BY <2>2, <2>3, <2>4
<1> QED
  BY <1>5, <1>6 DEF us, h

\* A step that changes no chunk that is read.
Unseen == Stored' = Stored /\ \A k : Chunk(k)' = Chunk(k)

LEMMA UnseenStill ==
    ASSUME UNCHANGED <<cache, disk>>
    PROVE  Unseen
  BY DEF Unseen, Stored, Chunk

\* A step that changes no chunk and adds no write.
LEMMA HoldStill ==
    ASSUME HoldInv, TypeOK, UNCHANGED <<cache, disk, harmed, torn>>,
           SameWrites(timers, timers') \/ (timers # <<>> /\ ~IsWrite(Head(timers)) /\ timers' = Tail(timers))
    PROVE  HoldInv'
<1> SUFFICES ASSUME ~harmed
             PROVE  /\ ~torn'
                    /\ KeysIn(timers') \subseteq DOMAIN cache'
                    /\ \A k \in DOMAIN cache' : WillHold(timers', disk', k, cache'[k])
  BY DEF HoldInv
<1>1. ~torn /\ KeysIn(timers) \subseteq DOMAIN cache /\ \A k \in DOMAIN cache : WillHold(timers, disk, k, cache[k])
  BY DEF HoldInv
<1>2. timers \in Seq(TimerType)
  BY DEF TypeOK
<1>3. KeysIn(timers') = KeysIn(timers) /\ \A k, c : WillHold(timers, disk, k, c) => WillHold(timers', disk, k, c)
  <2>1. CASE SameWrites(timers, timers')
    BY <2>1, HoldSame
  <2>2. CASE timers # <<>> /\ ~IsWrite(Head(timers)) /\ timers' = Tail(timers)
    BY <1>2, <2>2, HoldTail, KeysTail
  <2> QED
    BY <2>1, <2>2
<1> QED
  BY <1>1, <1>3

LEMMA SameWritesSelf == \A ts : SameWrites(ts, ts)
  BY DEF SameWrites

LEMMA HoldHub ==
    ASSUME TypeOK, HoldInv, HubStep, UNCHANGED convVars
    PROVE  HoldInv' /\ Unseen
<1>0. UNCHANGED <<cache, disk, harmed, torn>> /\ timers \in Seq(TimerType)
  BY DEF convVars, TypeOK
<1>1. Unseen
  BY <1>0, UnseenStill
<1>2. CASE timers' = timers
  BY <1>0, <1>1, <1>2, HoldStill, SameWritesSelf
<1>3. CASE PassOn
  <2>1. out # <<>> /\ timers' = timers \o <<MessageWrite(Head(out)), HubWakes>>
    BY <1>3 DEF PassOn
  <2>2. Head(out) \in Msg
    BY <2>1, HeadTailProperties DEF TypeOK
  <2>3. /\ \A i \in DOMAIN timers' : \/ i \in DOMAIN timers /\ timers'[i] = timers[i]
                                     \/ timers'[i] = MessageWrite(Head(out))
                                     \/ timers'[i] = HubWakes
        /\ \A i \in DOMAIN timers : i \in DOMAIN timers' /\ timers'[i] = timers[i]
    BY <1>0, <2>1, <2>2, PassedKinds
  <2>4. ~IsWrite(MessageWrite(Head(out))) /\ ~IsWrite(HubWakes)
    BY DEF IsWrite, MessageWrite, HubWakes
  <2>5. SameWrites(timers, timers')
    BY <2>3, <2>4 DEF SameWrites
  <2> QED
    BY <1>0, <1>1, <2>5, HoldStill
<1>4. CASE FireMessage \/ FireHub
  <2>1. timers # <<>> /\ timers' = Tail(timers) /\ ~IsWrite(Head(timers))
    BY <1>4 DEF FireMessage, FireHub, HubWakes, IsWrite
  <2> QED
    BY <1>0, <1>1, <2>1, HoldStill
<1> QED
  BY <1>2, <1>3, <1>4 DEF HubStep, Hand, Drop, HubStop

LEMMA HoldLoop ==
    ASSUME TypeOK, HoldInv, TrySplit \/ NoSplit \/ FireConv \/ ReadDisk
    PROVE  HoldInv' /\ Unseen
<1>0. timers \in Seq(TimerType) /\ <<>> \in Seq(TimerType) /\ timers \o <<>> = timers
  BY ConcatEmptySeq DEF TypeOK
<1>1. UNCHANGED <<cache, disk, harmed, torn>>
  BY DEF TrySplit, NoSplit, Commanded, FireConv, ReadDisk
<1>2. Unseen
  BY <1>1, UnseenStill
<1>3. CASE TrySplit \/ ReadDisk
  <2>1. timers' = timers
    BY <1>3 DEF TrySplit, ReadDisk, hubVars
  <2> QED
    BY <1>1, <1>2, <2>1, HoldStill, SameWritesSelf
<1>4. CASE FireConv
  <2>1. timers # <<>> /\ timers' = Tail(timers) /\ ~IsWrite(Head(timers))
    BY <1>4 DEF FireConv, ConvWakes, IsWrite
  <2> QED
    BY <1>1, <1>2, <2>1, HoldStill
<1>5. CASE NoSplit
  <2>0. splits > 0 /\ Commanded(timers, <<>>)
    BY <1>5 DEF NoSplit
  <2>1. timers' = timers \/ timers' = timers \o <<ConvWakes>>
    BY <1>0, <2>0, CommandedTypes
  <2>2. CASE timers' = timers
    BY <1>1, <1>2, <2>2, HoldStill, SameWritesSelf
  <2>3. CASE timers' = timers \o <<ConvWakes>>
    <3>1. ConvWakes \in TimerType /\ ~IsWrite(ConvWakes)
      BY NewTimers DEF ConvWakes, IsWrite
    <3>2. /\ DOMAIN timers' = 1..Len(timers) + 1 /\ DOMAIN timers = 1..Len(timers) /\ Len(timers) \in Nat
          /\ \A i \in 1..Len(timers) : timers'[i] = timers[i]
          /\ timers'[Len(timers) + 1] = ConvWakes
      BY <1>0, <2>3, <3>1, AfterOne
    <3>3. /\ \A i \in DOMAIN timers' : i \in DOMAIN timers \/ timers'[i] = ConvWakes
          /\ \A i \in DOMAIN timers : i \in DOMAIN timers' /\ timers'[i] = timers[i]
      BY <3>2
    <3>4. SameWrites(timers, timers')
      BY <3>1, <3>3 DEF SameWrites
    <3> QED
      BY <1>1, <1>2, <3>4, HoldStill
  <2> QED
    BY <2>1, <2>2, <2>3
<1> QED
  BY <1>3, <1>4, <1>5

\* A write is done: it is of a chunk in the cache.
LEMMA HoldFired ==
    ASSUME TypeOK, HoldInv, FireChunk, ~harmed
    PROVE  HoldInv' /\ Unseen
<1> DEFINE h == Head(timers)
<1>1. /\ timers \in Seq(TimerType) /\ timers # <<>> /\ IsWrite(h) /\ timers' = Tail(timers)
      /\ UNCHANGED <<cache, harmed, torn>> /\ disk' = Put(disk, h.key, h.chunk)
  BY DEF TypeOK, FireChunk, IsWrite
<1>2. ~torn /\ KeysIn(timers) \subseteq DOMAIN cache /\ \A k \in DOMAIN cache : WillHold(timers, disk, k, cache[k])
  BY DEF HoldInv
<1>3. KeysIn(timers) = KeysIn(timers') \union {h.key}
  BY <1>1, KeysTail
<1>4. \A k, c : WillHold(timers, disk, k, c) => WillHold(timers', disk', k, c)
  BY <1>1, HoldTail
<1> HIDE DEF h
<1>5. HoldInv'
  BY <1>1, <1>2, <1>3, <1>4 DEF HoldInv
<1>6. h.key \in DOMAIN cache
  BY <1>2, <1>3
<1>7. DOMAIN disk' = DOMAIN disk \union {h.key} /\ \A k \in DOMAIN disk : k # h.key => disk'[k] = disk[k]
  BY <1>1 DEF Put
<1>8. Stored' = Stored
  BY <1>1, <1>6, <1>7 DEF Stored
<1>9. \A k : Chunk(k)' = Chunk(k)
  BY <1>1, <1>6, <1>7 DEF Chunk
<1> QED
  BY <1>5, <1>8, <1>9 DEF Unseen

\* An answer of local storage that is the chunk as it was read before.
LEMMA HoldAnswer ==
    ASSUME TypeOK, LiveInv, HoldInv, ReadDone, ~harmed'
    PROVE  HoldInv' /\ Unseen
<1>1. PICK r \in read : /\ cache' = Put(cache, r.key, r.chunk) /\ timers' = Replaced(timers, {r.key})
                        /\ UNCHANGED <<disk, torn>> /\ harmed' = (harmed \/ Chunk(r.key) # r.chunk)
  BY DEF ReadDone
<1>2. /\ DOMAIN cache' = DOMAIN cache \union {r.key} /\ cache'[r.key] = r.chunk
      /\ \A k \in DOMAIN cache : k # r.key => cache'[k] = cache[k]
  BY <1>1 DEF Put
<1>3. ~harmed /\ Chunk(r.key) = r.chunk /\ r.key \in DOMAIN disk
  BY <1>1 DEF LiveInv
<1>4. ~torn /\ KeysIn(timers) \subseteq DOMAIN cache /\ \A k \in DOMAIN cache : WillHold(timers, disk, k, cache[k])
  BY <1>3 DEF HoldInv
<1>5. timers \in Seq(TimerType)
  BY DEF TypeOK
<1>6. /\ Rewritten(timers, timers')
      /\ \A i \in DOMAIN timers : IsWrite(timers[i]) => timers'[i].chunk = timers[i].chunk
  BY <1>1, <1>5, ReplacedRewritten, ReplacedWrites
<1>7. KeysIn(timers') = KeysIn(timers)
  BY <1>6, RewrittenKeys
<1>8. \A k, c : WillHold(timers, disk, k, c) => WillHold(timers', disk, k, c)
  BY <1>6, HoldAlike
<1>9. ASSUME NEW k \in DOMAIN cache' PROVE WillHold(timers, disk, k, cache'[k])
  <2>1. CASE k \in DOMAIN cache
    <3>1. cache'[k] = cache[k]
      BY <1>2, <1>3, <2>1 DEF Chunk
    <3> QED
      BY <1>4, <2>1, <3>1
  <2>2. CASE k \notin DOMAIN cache
    <3>1. k = r.key /\ k \notin KeysIn(timers)
      BY <1>2, <1>4, <2>2
    <3>2. disk[k] = cache'[k] /\ k \in DOMAIN disk
      BY <1>2, <1>3, <2>2, <3>1 DEF Chunk
    <3>3. \A i \in DOMAIN timers : LastWrite(timers, i) => timers[i].key # k
      BY <3>1 DEF KeysIn, LastWrite
    <3> QED
      BY <3>2, <3>3 DEF WillHold
  <2> QED
    BY <2>1, <2>2
<1>10. HoldInv'
  <2>1. ~torn' /\ KeysIn(timers') \subseteq DOMAIN cache'
    BY <1>1, <1>2, <1>4, <1>7
  <2>2. \A k \in DOMAIN cache' : WillHold(timers', disk', k, cache'[k])
    BY <1>1, <1>8, <1>9
  <2> QED
    BY <2>1, <2>2 DEF HoldInv
<1>11. Stored' = Stored
  BY <1>1, <1>2, <1>3 DEF Stored
<1>12. ASSUME NEW k PROVE Chunk(k)' = Chunk(k)
  <2>1. CASE k = r.key
    BY <1>2, <1>3, <2>1 DEF Chunk
  <2>2. CASE k # r.key
    BY <1>1, <1>2, <2>2 DEF Chunk
  <2> QED
    BY <2>1, <2>2
<1> QED
  BY <1>10, <1>11, <1>12 DEF Unseen

\* The cache is cleared when all that is in it was written.
LEMMA HoldCleared ==
    ASSUME HoldInv, ~harmed, NoWrites(timers), NoWrites(timers'), cache' = NoChunks, disk' = disk, ~torn'
    PROVE  HoldInv' /\ Unseen
<1>1. KeysIn(timers) = {} /\ KeysIn(timers') = {}
  BY DEF NoWrites, KeysIn
<1>2. DOMAIN cache' = {}
  BY NoChunksTypes
<1>3. \A k \in DOMAIN cache : k \in DOMAIN disk /\ disk[k] = cache[k]
  BY <1>1 DEF HoldInv, WillHold
<1>4. HoldInv'
  BY <1>1, <1>2 DEF HoldInv
<1>5. Stored' = Stored
  BY <1>2, <1>3 DEF Stored
<1>6. \A k : Chunk(k)' = Chunk(k)
  BY <1>2, <1>3 DEF Chunk
<1> QED
  BY <1>4, <1>5, <1>6 DEF Unseen

LEMMA HoldGone ==
    ASSUME TypeOK, HoldInv, ConvStop \/ Close, ~harmed'
    PROVE  HoldInv' /\ Unseen
<1>1. CASE ConvStop
  <2>1. /\ ~harmed /\ Writes = {} /\ cache' = NoChunks /\ disk' = disk /\ timers' = Replaced(timers, DOMAIN cache)
        /\ torn' = (torn \/ (Writes # {} /\ inTurn > 1))
    BY <1>1 DEF ConvStop
  <2>2. NoWrites(timers) /\ timers \in Seq(TimerType)
    BY <2>1 DEF NoWrites, Writes, IsWrite, TypeOK
  <2>3. NoWrites(timers')
    BY <2>1, <2>2, ReplacedRewritten, RewrittenKeys
  <2>4. ~torn'
    BY <2>1 DEF HoldInv
  <2> QED
    BY <2>1, <2>2, <2>3, <2>4, HoldCleared
<1>2. CASE Close
  <2>1. /\ ~harmed /\ timers = <<>> /\ cache' = NoChunks /\ disk' = disk /\ timers' = <<>>
        /\ torn' = (torn \/ (timers # <<>> /\ inTurn > 1))
    BY <1>2 DEF Close, HubClose
  <2>2. NoWrites(timers) /\ NoWrites(timers')
    BY <2>1 DEF NoWrites
  <2>3. ~torn'
    BY <2>1 DEF HoldInv
  <2> QED
    BY <2>1, <2>2, <2>3, HoldCleared
<1> QED
  BY <1>1, <1>2

\* Chunks are put into the cache and their writes are set.
LEMMA HoldWritten ==
    ASSUME HoldInv, UNCHANGED <<disk, harmed, torn>>,
           NEW ts \in Seq(TimerType), NEW ws \in Seq(TimerType), Rewritten(timers, ts), Follow(timers', ts, ws),
           \A i \in DOMAIN ws : IsWrite(ws[i]) /\ ws[i].chunk = cache'[ws[i].key],
           DOMAIN cache' = DOMAIN cache \union KeysIn(ws),
           \A k \in DOMAIN cache \ KeysIn(ws) :
              /\ cache'[k] = cache[k]
              /\ \A i \in DOMAIN timers : IsWrite(timers[i]) /\ timers[i].key = k => ts[i].chunk = timers[i].chunk
    PROVE  HoldInv'
<1> SUFFICES ASSUME ~harmed
             PROVE  /\ ~torn'
                    /\ KeysIn(timers') \subseteq DOMAIN cache'
                    /\ \A k \in DOMAIN cache' : WillHold(timers', disk', k, cache'[k])
  BY DEF HoldInv
<1>1. ~torn /\ KeysIn(timers) \subseteq DOMAIN cache /\ \A k \in DOMAIN cache : WillHold(timers, disk, k, cache[k])
  BY DEF HoldInv
<1>2. \A i \in DOMAIN ws : IsWrite(ws[i])
  OBVIOUS
<1>3. /\ KeysIn(timers') = KeysIn(ts) \union KeysIn(ws)
      /\ \A k, c : /\ \A i \in DOMAIN ws : ws[i].key = k => ws[i].chunk = c
                   /\ k \in KeysIn(ws) \/ WillHold(ts, disk, k, c)
                   => WillHold(timers', disk, k, c)
  <2> DEFINE us == timers'
             d  == disk
  <2>1. ts \in Seq(TimerType) /\ ws \in Seq(TimerType) /\ Follow(us, ts, ws) /\ \A i \in DOMAIN ws : IsWrite(ws[i])
    BY <1>2
  <2> HIDE DEF us, d
  <2>2. /\ KeysIn(us) = KeysIn(ts) \union KeysIn(ws)
        /\ \A k, c : /\ \A i \in DOMAIN ws : ws[i].key = k => ws[i].chunk = c
                     /\ k \in KeysIn(ws) \/ WillHold(ts, d, k, c)
                     => WillHold(us, d, k, c)
    BY ONLY <2>1, HoldFollow
  <2> QED
    BY ONLY <2>2 DEF us, d
<1>4. KeysIn(ts) = KeysIn(timers)
  BY RewrittenKeys
<1>5. ASSUME NEW k \in DOMAIN cache' PROVE WillHold(timers', disk, k, cache'[k])
  <2>1. CASE k \in KeysIn(ws)
    BY <1>3, <2>1
  <2>2. CASE k \notin KeysIn(ws)
    <3>1. k \in DOMAIN cache /\ cache'[k] = cache[k] /\ WillHold(timers, disk, k, cache[k])
      BY <1>1, <2>2
    <3>2. \A i \in DOMAIN timers : IsWrite(timers[i]) /\ timers[i].key = k /\ timers[i].chunk = cache[k] => ts[i].chunk = cache[k]
      BY <2>2, <3>1
    <3>3. WillHold(ts, disk, k, cache[k])
      BY <3>1, <3>2, HoldAlike
    <3>4. \A i \in DOMAIN ws : ws[i].key # k
      BY <1>2, <2>2 DEF KeysIn
    <3> QED
      BY <1>3, <3>1, <3>3, <3>4
  <2> QED
    BY <2>1, <2>2
<1>6. KeysIn(timers') \subseteq DOMAIN cache'
  BY <1>1, <1>3, <1>4
<1> QED
  BY <1>1, <1>5, <1>6

\* What is read after chunks were put into the cache.
LEMMA PutRead ==
    ASSUME UNCHANGED disk, NEW ks, DOMAIN cache' = DOMAIN cache \union ks,
           \A k \in DOMAIN cache : k \notin ks => cache'[k] = cache[k]
    PROVE  /\ Stored' = Stored \union ks
           /\ \A k \in ks : Chunk(k)' = cache'[k]
           /\ \A k : k \notin ks => Chunk(k)' = Chunk(k)
<1>1. Stored' = Stored \union ks
  BY DEF Stored
<1>2. \A k \in ks : Chunk(k)' = cache'[k]
  BY DEF Chunk
<1>3. \A k : k \notin ks => Chunk(k)' = Chunk(k)
  BY DEF Chunk
<1> QED
  BY <1>1, <1>2, <1>3

LEMMA HoldInsert ==
    ASSUME TypeOK, HoldInv, Insert
    PROVE  /\ HoldInv'
           /\ Stored' = Stored \union {HeadKey} /\ \A k : k # HeadKey => Chunk(k)' = Chunk(k)
           /\ Chunk(HeadKey)' = [First EXCEPT !.list = Entered(First.list, Head(toConv))]
<1> DEFINE m == Head(toConv)
           c == [First EXCEPT !.list = Entered(First.list, m)]
<1>1. /\ toConv # <<>> /\ cache' = Put(cache, HeadKey, c) /\ UNCHANGED <<disk, harmed, torn>>
      /\ timers' = Changed(timers, HeadKey, c) \o <<ChunkWrite(HeadKey, c), ConvWakes>>
  <2>1. [First EXCEPT !.list = Entered(@, m)] = c
    OBVIOUS
  <2> HIDE DEF c
  <2> QED
    BY <2>1 DEF Insert, First
<1>2. m \in Msg
  BY <1>1, HeadTailProperties DEF TypeOK
<1> HIDE DEF m
<1>3. First \in ChunkType /\ First.list \in Seq(Msg) /\ timers \in Seq(TimerType) /\ HeadKey \in Seq(Msg)
  BY ChunkTypes, EmptyTypes DEF First, ChunkType, TypeOK
<1>4. Entered(First.list, m) \in Seq(Msg)
  BY <1>2, <1>3, EnteredPlace
<1>5. c \in ChunkType
  BY <1>3, <1>4 DEF ChunkType
<1> HIDE DEF c
<1> DEFINE ts == Changed(timers, HeadKey, c)
           ws == <<ChunkWrite(HeadKey, c)>>
<1>6. /\ ts \in Seq(TimerType) /\ DOMAIN ts = DOMAIN timers /\ Rewritten(timers, ts)
      /\ \A i \in DOMAIN timers : \/ /\ IsOf(timers[i], "chunk") /\ timers[i].key = HeadKey
                                     /\ ts[i] = ChunkWrite(HeadKey, c)
                                  \/ ~(IsOf(timers[i], "chunk") /\ timers[i].key = HeadKey) /\ ts[i] = timers[i]
  BY <1>3, <1>5, ChangedWrites, ChangedRewritten
<1>7. /\ ChunkWrite(HeadKey, c).key = HeadKey /\ ChunkWrite(HeadKey, c).chunk = c
      /\ IsOf(ChunkWrite(HeadKey, c), "chunk") /\ IsWrite(ChunkWrite(HeadKey, c))
      /\ ChunkWrite(HeadKey, c) \in TimerType
  BY <1>3, <1>5, ChunkWriteIs, NewTimers
<1>8. ws \in Seq(TimerType) /\ DOMAIN ws = {1} /\ ws[1] = ChunkWrite(HeadKey, c)
  BY <1>7
<1>9. Follow(timers', ts, ws)
  <2>1. timers' = (ts \o ws) \o <<ConvWakes>>
    BY <1>1, <1>6, <1>7, WriteThenWake
  <2> QED
    BY <2>1 DEF Follow
<1> HIDE DEF ts, ws
<1>10. KeysIn(ws) = {HeadKey}
  BY <1>7, <1>8 DEF KeysIn
<1>11. /\ DOMAIN cache' = DOMAIN cache \union {HeadKey} /\ cache'[HeadKey] = c
       /\ \A k \in DOMAIN cache : k # HeadKey => cache'[k] = cache[k]
  BY <1>1 DEF Put
<1>12. \A i \in DOMAIN ws : IsWrite(ws[i]) /\ ws[i].chunk = cache'[ws[i].key]
  BY <1>7, <1>8, <1>11
<1>13. \A k \in DOMAIN cache \ KeysIn(ws) :
          /\ cache'[k] = cache[k]
          /\ \A i \in DOMAIN timers : IsWrite(timers[i]) /\ timers[i].key = k => ts[i].chunk = timers[i].chunk
  BY <1>6, <1>10, <1>11
<1>14. UNCHANGED <<disk, harmed, torn>> /\ DOMAIN cache' = DOMAIN cache \union KeysIn(ws)
  BY <1>1, <1>10, <1>11
<1>15. HoldInv'
  BY ONLY HoldInv, <1>6, <1>8, <1>9, <1>12, <1>13, <1>14, HoldWritten
<1>16. Stored' = Stored \union {HeadKey} /\ Chunk(HeadKey)' = c /\ \A k : k # HeadKey => Chunk(k)' = Chunk(k)
  <2>1. UNCHANGED disk /\ \A k \in DOMAIN cache : k \notin {HeadKey} => cache'[k] = cache[k]
    BY <1>1, <1>11
  <2>2. /\ Stored' = Stored \union {HeadKey}
        /\ \A k \in {HeadKey} : Chunk(k)' = cache'[k]
        /\ \A k : k \notin {HeadKey} => Chunk(k)' = Chunk(k)
    BY <1>11, <2>1, PutRead
  <2> QED
    BY <1>11, <2>2
<1> QED
  BY <1>15, <1>16 DEF c, m

LEMMA HoldSplitFirst ==
    ASSUME TypeOK, HoldInv, SplitFirst
    PROVE  /\ HoldInv'
           /\ Stored' = Stored \union {HeadKey, CutKey} /\ \A k : k \notin {HeadKey, CutKey} => Chunk(k)' = Chunk(k)
           /\ Chunk(HeadKey)' = Rest(First, CutKey) /\ \A k : k = CutKey => Chunk(k)' = OnePart
<1> DEFINE rest == Rest(First, CutKey)
           ks == {HeadKey, CutKey}
           ts == Timers1
           ws == Writes1
<1>1. /\ ~convYields /\ splits > 0 /\ Len(First.list) > SplitThreshold
      /\ cache' = Put(Put(cache, HeadKey, rest), CutKey, OnePart)
      /\ Commanded(ts, ws)
  BY SplitFirstIs
<1>2. UNCHANGED <<disk, harmed, torn>>
  BY <1>1 DEF Commanded
<1>3. CutKey # HeadKey
  BY <1>1, CutProperties DEF SplitKey
<1>4. ts \in Seq(TimerType) /\ ws \in Seq(TimerType) /\ timers \in Seq(TimerType)
  BY <1>1, SplitTimersTypes DEF TypeOK
<1>5. Rewritten(timers, ts) /\ \A i \in DOMAIN timers : IsWrite(timers[i]) => ts[i].chunk = timers[i].chunk
  BY <1>4, ReplacedRewritten, ReplacedWrites DEF Timers1
<1>6. Follow(timers', ts, ws)
  BY <1>1, <1>4, CommandedTypes DEF Follow
<1> HIDE DEF rest, ts
<1>7. /\ DOMAIN ws = {1, 2}
      /\ ws[1] = ChunkWrite(CutKey, OnePart) /\ ws[2] = ChunkWrite(HeadKey, rest)
  BY DEF Writes1, rest
<1> HIDE DEF ws
<1>8. /\ ws[1].key = CutKey /\ ws[1].chunk = OnePart /\ IsWrite(ws[1])
      /\ ws[2].key = HeadKey /\ ws[2].chunk = rest /\ IsWrite(ws[2])
  BY <1>7, ChunkWriteIs
<1>9. KeysIn(ws) = ks
  BY <1>7, <1>8 DEF KeysIn
<1>10. /\ DOMAIN cache' = DOMAIN cache \union ks
       /\ cache'[HeadKey] = rest /\ cache'[CutKey] = OnePart
       /\ \A k \in DOMAIN cache : k \notin ks => cache'[k] = cache[k]
  BY <1>1, <1>3 DEF Put
<1>11. \A i \in DOMAIN ws : IsWrite(ws[i]) /\ ws[i].chunk = cache'[ws[i].key]
  BY <1>7, <1>8, <1>10
<1>12. \A k \in DOMAIN cache \ KeysIn(ws) :
          /\ cache'[k] = cache[k]
          /\ \A i \in DOMAIN timers : IsWrite(timers[i]) /\ timers[i].key = k => ts[i].chunk = timers[i].chunk
  BY <1>5, <1>9, <1>10
<1>13. DOMAIN cache' = DOMAIN cache \union KeysIn(ws)
  BY <1>9, <1>10
<1>14. HoldInv'
  BY ONLY HoldInv, <1>2, <1>4, <1>5, <1>6, <1>11, <1>12, <1>13, HoldWritten
<1>15. /\ Stored' = Stored \union ks
       /\ \A k \in ks : Chunk(k)' = cache'[k]
       /\ \A k : k \notin ks => Chunk(k)' = Chunk(k)
  <2> HIDE DEF ks
  <2> QED
    BY <1>2, <1>10, PutRead
<1> QED
  BY <1>10, <1>14, <1>15 DEF rest

LEMMA HoldSplitAgain ==
    ASSUME TypeOK, LiveInv, NEW pos \in [Msg -> Int], OrderInv(pos), HoldInv, SplitAgain
    PROVE  /\ HoldInv'
           /\ \E tk \in First.tailKey :
                 /\ tk \in Stored /\ tk # CutKey /\ tk # HeadKey /\ CutKey # HeadKey
                 /\ Stored' = Stored \union {HeadKey, CutKey, tk}
                 /\ \A k : k \notin {HeadKey, CutKey, tk} => Chunk(k)' = Chunk(k)
                 /\ Chunk(HeadKey)' = Rest(First, CutKey) /\ Chunk(tk)' = Tailed(tk)
                 /\ \A k : k = CutKey => Chunk(k)' = Part(tk)
<1> DEFINE rest == Rest(First, CutKey)
<1>0. ~convYields /\ splits > 0 /\ Len(First.list) > SplitThreshold
  BY SplitAgainIs
<1>1. PICK tk \in First.tailKey :
         /\ cache' = Put(Put(Put(cache, HeadKey, rest), CutKey, Part(tk)), tk, Tailed(tk))
         /\ Commanded(Timers2(tk), Writes2(tk))
  BY SplitAgainIs
<1>2. UNCHANGED <<disk, harmed, torn>>
  BY <1>1 DEF Commanded
<1>3. tk \in Stored /\ tk # CutKey /\ tk # HeadKey /\ tk \in Seq(Msg) /\ CutKey # HeadKey
  BY <1>0, PartsFine
<1> DEFINE t1 == Changed(timers, tk, Tailed(tk))
           t2 == Changed(t1, HeadKey, Leaving)
           ts == Timers2(tk)
           ws == Writes2(tk)
           ks == {HeadKey, CutKey, tk}
<1>4. /\ ts \in Seq(TimerType) /\ ws \in Seq(TimerType) /\ timers \in Seq(TimerType) /\ HeadKey \in Seq(Msg)
      /\ Tailed(tk) \in ChunkType /\ Leaving \in ChunkType
  BY <1>0, SplitTimersTypes, PartTypes, EmptyTypes DEF TypeOK
<1>5. /\ t1 \in Seq(TimerType) /\ DOMAIN t1 = DOMAIN timers
      /\ \A i \in DOMAIN timers : IsWrite(timers[i]) /\ timers[i].key # tk => t1[i] = timers[i]
  BY <1>3, <1>4, ChangedWrites
<1> HIDE DEF t1
<1>6. /\ t2 \in Seq(TimerType) /\ DOMAIN t2 = DOMAIN timers
      /\ \A i \in DOMAIN timers : IsWrite(t1[i]) /\ t1[i].key # HeadKey => t2[i] = t1[i]
  BY <1>4, <1>5, ChangedWrites
<1> HIDE DEF t2
<1>7. \A i \in DOMAIN timers : IsWrite(t2[i]) => ts[i].chunk = t2[i].chunk
  <2>1. ts = Replaced(t2, {HeadKey, CutKey})
    BY DEF t1, t2, Timers2
  <2> HIDE DEF ts
  <2> QED
    BY <1>6, <2>1, ReplacedWrites
<1>8. Rewritten(timers, ts)
  BY <1>0, SplitKinds
<1>9. Follow(timers', ts, ws)
  BY <1>0, <1>1, <1>4, CommandedTypes DEF Follow
<1> HIDE DEF rest, ts
<1>10. /\ DOMAIN ws = {1, 2, 3}
       /\ ws[1] = ChunkWrite(tk, Tailed(tk)) /\ ws[2] = ChunkWrite(CutKey, Part(tk)) /\ ws[3] = ChunkWrite(HeadKey, rest)
  BY DEF Writes2, rest
<1> HIDE DEF ws
<1>11. /\ ws[1].key = tk /\ ws[1].chunk = Tailed(tk) /\ IsWrite(ws[1])
       /\ ws[2].key = CutKey /\ ws[2].chunk = Part(tk) /\ IsWrite(ws[2])
       /\ ws[3].key = HeadKey /\ ws[3].chunk = rest /\ IsWrite(ws[3])
  BY <1>10, ChunkWriteIs
<1>12. KeysIn(ws) = ks
  BY <1>10, <1>11 DEF KeysIn
<1>13. /\ DOMAIN cache' = DOMAIN cache \union ks
       /\ cache'[HeadKey] = rest /\ cache'[CutKey] = Part(tk) /\ cache'[tk] = Tailed(tk)
       /\ \A k \in DOMAIN cache : k \notin ks => cache'[k] = cache[k]
  BY <1>1, <1>3 DEF Put, rest
<1>14. \A i \in DOMAIN ws : IsWrite(ws[i]) /\ ws[i].chunk = cache'[ws[i].key]
  BY <1>10, <1>11, <1>13
<1>15. \A i \in DOMAIN timers : IsWrite(timers[i]) /\ timers[i].key \notin ks => ts[i].chunk = timers[i].chunk
  BY <1>5, <1>6, <1>7
<1>16. \A k \in DOMAIN cache \ KeysIn(ws) :
          /\ cache'[k] = cache[k]
          /\ \A i \in DOMAIN timers : IsWrite(timers[i]) /\ timers[i].key = k => ts[i].chunk = timers[i].chunk
  BY <1>12, <1>13, <1>15
<1>17. DOMAIN cache' = DOMAIN cache \union KeysIn(ws)
  BY <1>12, <1>13
<1>18. HoldInv'
  BY ONLY HoldInv, <1>2, <1>4, <1>8, <1>9, <1>14, <1>16, <1>17, HoldWritten
<1>19. /\ Stored' = Stored \union ks
       /\ \A k \in ks : Chunk(k)' = cache'[k]
       /\ \A k : k \notin ks => Chunk(k)' = Chunk(k)
  <2> HIDE DEF ks
  <2> QED
    BY <1>2, <1>13, PutRead
<1> QED
  BY <1>3, <1>13, <1>18, <1>19 DEF rest

LEMMA HoldInit == Init => HoldInv
<1> SUFFICES ASSUME Init PROVE HoldInv
  OBVIOUS
<1>1. cache = NoChunks /\ timers = <<>> /\ DOMAIN NoChunks = {} /\ ~torn
  BY NoChunksTypes DEF Init, HubInit
<1>2. KeysIn(timers) = {}
  BY <1>1 DEF KeysIn
<1> QED
  BY <1>1, <1>2 DEF HoldInv

\* What was lost stays lost.
LEMMA LostStays == [Next]_vars => (harmed => harmed') /\ (torn => torn')
<1>1. ASSUME Next PROVE (harmed => harmed') /\ (torn => torn')
  <2>1. CASE Insert \/ NoSplit
    <3>1. UNCHANGED <<harmed, torn>>
      BY <2>1 DEF Insert, NoSplit, Commanded
    <3> QED
      BY <3>1
  <2>2. CASE SplitFirst \/ SplitAgain
    <3>1. \E ts, ws : Commanded(ts, ws)
      BY <2>2, SplitFirstIs, SplitAgainIs
    <3>2. UNCHANGED <<harmed, torn>>
      BY <3>1 DEF Commanded
    <3> QED
      BY <3>2
  <2>3. CASE UNCHANGED convVars
    BY <2>3 DEF convVars
  <2>4. CASE TrySplit \/ FireChunk \/ FireConv \/ ReadDisk
    <3>1. UNCHANGED <<harmed, torn>>
      BY <2>4 DEF TrySplit, FireChunk, FireConv, ReadDisk
    <3> QED
      BY <3>1
  <2>5. CASE ReadDone
    <3>1. torn' = torn /\ \E r \in read : harmed' = (harmed \/ Chunk(r.key) # r.chunk)
      BY <2>5 DEF ReadDone
    <3> QED
      BY <3>1
  <2>6. CASE ConvStop
    <3>1. harmed' = (harmed \/ Writes # {}) /\ torn' = (torn \/ (Writes # {} /\ inTurn > 1))
      BY <2>6 DEF ConvStop
    <3> QED
      BY <3>1
  <2>7. CASE Close
    <3>1. harmed' = (harmed \/ out # <<>> \/ toConv # <<>> \/ timers # <<>>) /\ torn' = (torn \/ (timers # <<>> /\ inTurn > 1))
      BY <2>7 DEF Close
    <3> QED
      BY <3>1
  <2> QED
    BY <1>1, <2>1, <2>2, <2>3, <2>4, <2>5, <2>6, <2>7, NextCases
<1>2. ASSUME UNCHANGED vars PROVE (harmed => harmed') /\ (torn => torn')
  BY <1>2 DEF vars, convVars
<1> QED
  BY <1>1, <1>2

\* As long as nothing was lost, but for insertions and splits a step changes no
\* chunk that is read.
LEMMA HoldCases ==
    TypeOK /\ ChainInv /\ HoldInv /\ [Next]_vars /\ ~harmed' => HoldInv' /\ (Unseen \/ Insert \/ SplitFirst \/ SplitAgain)
<1> SUFFICES ASSUME TypeOK, ChainInv, HoldInv, [Next]_vars, ~harmed'
             PROVE  HoldInv' /\ (Unseen \/ Insert \/ SplitFirst \/ SplitAgain)
  OBVIOUS
<1>1. ~harmed /\ ~torn
  BY LostStays DEF HoldInv
<1>2. LiveInv
  BY <1>1 DEF ChainInv
<1>3. PICK pos \in [Msg -> Int] : OrderInv(pos)
  BY <1>1 DEF ChainInv
<1>4. CASE UNCHANGED vars
  <2>1. UNCHANGED <<cache, disk, timers, harmed, torn>>
    BY <1>4 DEF vars, hubVars, convVars
  <2> QED
    BY <2>1, HoldStill, SameWritesSelf, UnseenStill
<1>5. CASE Next
  BY <1>1, <1>2, <1>3, <1>5, NextCases, HoldInsert, HoldSplitFirst, HoldSplitAgain, HoldHub, HoldLoop, HoldFired, HoldAnswer,
     HoldGone
<1> QED
  BY <1>4, <1>5

LEMMA HoldStep == TypeOK /\ ChainInv /\ HoldInv /\ [Next]_vars => HoldInv'
<1>1. ASSUME TypeOK, ChainInv, HoldInv, [Next]_vars, ~harmed' PROVE HoldInv'
  BY <1>1, HoldCases
<1>2. ASSUME harmed' PROVE HoldInv'
  BY <1>2 DEF HoldInv
<1> QED
  BY <1>1, <1>2

-----------------------------------------------------------------------------
(* What is shown, from step to step.                                       *)

LEMMA ShownFlat == TypeOK => Keys \in Seq(Seq(Msg)) /\ Shown = Flat(ListsOf(Keys))
<1> SUFFICES ASSUME TypeOK PROVE Keys \in Seq(Seq(Msg)) /\ Shown = Flat(ListsOf(Keys))
  OBVIOUS
<1>1. Keys \in Seq(Seq(Msg))
  BY KeysStored DEF Walk
<1> QED
  BY <1>1, JoinedFlat DEF Shown

OneChain == \A ks, ls : Ends(ks) /\ Ends(ls) => ks = ls

LEMMA OnlyChain == TypeOK => OneChain
  BY OneEnd DEF OneChain

\* The chain is the one that is found after a step.
LEMMA ChainAfter ==
    ASSUME TypeOK', ChainInv', ~torn', NEW ks, Ends(ks)'
    PROVE  Keys' = ks /\ Shown' = Flat(ListsOf(ks)')
<1>1. (TypeOK /\ ChainInv /\ ~torn => Ends(Keys))'
  BY KeysEnd, PTL
<1>2. (TypeOK => OneChain)'
  BY OnlyChain, PTL
<1>3. (TypeOK => Keys \in Seq(Seq(Msg)) /\ Shown = Flat(ListsOf(Keys)))'
  BY ShownFlat, PTL
<1>4. Ends(Keys)'
  BY <1>1
<1>5. Keys' = ks
  BY <1>2, <1>4 DEF OneChain
<1>6. Shown' = Flat(ListsOf(Keys)')
  BY <1>3
<1>7. ListsOf(Keys)' = ListsOf(ks)'
  BY <1>5 DEF ListsOf
<1> QED
  BY <1>5, <1>6, <1>7

LEMMA ShownStill ==
    ASSUME TypeOK, TypeOK', ChainInv, ChainInv', ~torn, ~torn', Unseen
    PROVE  Shown' = Shown
<1>1. PICK ks : ks = Keys
  OBVIOUS
<1>2. Ends(ks) /\ Shown = Flat(ListsOf(ks))
  BY <1>1, KeysEnd, ShownFlat
<1>3. \A k : Behind(k)' = Behind(k)
  BY DEF Unseen, Behind, Stored
<1>4. Ends(ks)'
  BY <1>2, <1>3 DEF Ends, Walk
<1>5. ListsOf(ks)' = ListsOf(ks)
  BY DEF ListsOf, Unseen
<1> QED
  BY <1>2, <1>4, <1>5, ChainAfter

ListsTyped == \A x \in Seq(Seq(Msg)) : ListsOf(x) \in Seq(Seq(Msg)) /\ Len(ListsOf(x)) = Len(x)

LEMMA ListsAre == TypeOK => ListsTyped
  BY JoinedFlat DEF ListsTyped

\* Lists that differ in the first only.
LEMMA FlatHead ==
    ASSUME NEW ls \in Seq(Seq(Msg)), NEW us \in Seq(Seq(Msg)), ls # <<>>, Len(us) = Len(ls),
           \A i \in 2..Len(ls) : us[i] = ls[i]
    PROVE  /\ \E o \in Seq(Msg) : Flat(ls) = o \o ls[1] /\ Flat(us) = o \o us[1]
           /\ ls[1] \in Seq(Msg) /\ us[1] \in Seq(Msg)
<1>1. Len(ls) \in Nat \ {0} /\ us # <<>>
  BY EmptySeq, LenProperties
<1>2. /\ Tail(ls) \in Seq(Seq(Msg)) /\ Len(Tail(ls)) = Len(ls) - 1 /\ \A i \in 1..Len(ls) - 1 : Tail(ls)[i] = ls[i + 1]
      /\ Tail(us) \in Seq(Seq(Msg)) /\ Len(Tail(us)) = Len(ls) - 1 /\ \A i \in 1..Len(ls) - 1 : Tail(us)[i] = us[i + 1]
  BY <1>1, HeadTailProperties
<1>3. \A i \in 1..Len(Tail(ls)) : Tail(ls)[i] = Tail(us)[i]
  <2> SUFFICES ASSUME NEW i \in 1..Len(Tail(ls)) PROVE Tail(ls)[i] = Tail(us)[i]
    OBVIOUS
  <2>1. i \in 1..Len(ls) - 1 /\ i + 1 \in 2..Len(ls)
    BY <1>1, <1>2
  <2> QED
    BY <1>2, <2>1
<1>4. Tail(ls) = Tail(us)
  BY <1>2, <1>3, SeqEqual
<1>5. Flat(ls) = Flat(Tail(ls)) \o ls[1] /\ Flat(us) = Flat(Tail(ls)) \o us[1]
  BY <1>1, <1>4, FlatFirst
<1>6. Flat(Tail(ls)) \in Seq(Msg)
  BY <1>2, FlatIs
<1>7. ls[1] \in Seq(Msg) /\ us[1] \in Seq(Msg)
  BY <1>1, ElementOfSeq
<1> QED
  BY <1>5, <1>6, <1>7

\* Behind other messages.
LEMMA InsertBehind ==
    ASSUME NEW o \in Seq(Msg), NEW l \in Seq(Msg), NEW m \in Msg, NEW p \in 1..Len(l) + 1
    PROVE  /\ Len(o) + p \in 1..Len(o \o l) + 1
           /\ o \o InsertAt(l, p, m) = InsertAt(o \o l, Len(o) + p, m)
<1> DEFINE n == Len(o)
           k == Len(l)
           u == InsertAt(l, p, m)
           v == o \o l
           x == o \o u
           q == n + p
           y == InsertAt(v, q, m)
<1>1. n \in Nat /\ k \in Nat /\ p \in Nat /\ 1 <= p /\ p <= k + 1
  BY LenProperties
<1>2. /\ u \in Seq(Msg) /\ Len(u) = k + 1
      /\ \A i \in 1..p - 1 : u[i] = l[i]
      /\ u[p] = m
      /\ \A i \in p + 1..k + 1 : u[i] = l[i - 1]
  BY InsertedAt
<1> HIDE DEF u
<1>3. /\ v \in Seq(Msg) /\ Len(v) = n + k
      /\ \A i \in 1..n + k : v[i] = IF i <= n THEN o[i] ELSE l[i - n]
  BY ConcatProperties
<1> HIDE DEF v
<1>4. /\ x \in Seq(Msg) /\ Len(x) = n + (k + 1)
      /\ \A i \in 1..n + (k + 1) : x[i] = IF i <= n THEN o[i] ELSE u[i - n]
  <2>1. o \in Seq(Msg) /\ u \in Seq(Msg)
    BY <1>2
  <2>2. /\ o \o u \in Seq(Msg) /\ Len(o \o u) = Len(o) + Len(u)
        /\ \A i \in 1..Len(o) + Len(u) : (o \o u)[i] = IF i <= Len(o) THEN o[i] ELSE u[i - Len(o)]
    BY ONLY <2>1, ConcatProperties
  <2>3. x = o \o u /\ n = Len(o) /\ Len(u) = k + 1
    BY <1>2
  <2> QED
    BY ONLY <2>2, <2>3
<1> HIDE DEF x
<1>5. q \in 1..Len(v) + 1 /\ q \in Nat
  BY <1>1, <1>3
<1> HIDE DEF q
<1>6. /\ y \in Seq(Msg) /\ Len(y) = n + k + 1
      /\ \A i \in 1..q - 1 : y[i] = v[i]
      /\ y[q] = m
      /\ \A i \in q + 1..n + k + 1 : y[i] = v[i - 1]
  <2>1. v \in Seq(Msg) /\ m \in Msg /\ q \in 1..Len(v) + 1
    BY <1>3, <1>5
  <2>2. /\ InsertAt(v, q, m) \in Seq(Msg) /\ Len(InsertAt(v, q, m)) = Len(v) + 1
        /\ \A i \in 1..q - 1 : InsertAt(v, q, m)[i] = v[i]
        /\ InsertAt(v, q, m)[q] = m
        /\ \A i \in q + 1..Len(v) + 1 : InsertAt(v, q, m)[i] = v[i - 1]
    BY ONLY <2>1, InsertedAt
  <2>3. y = InsertAt(v, q, m)
    OBVIOUS
  <2>4. Len(v) + 1 = n + k + 1
    BY <1>3
  <2> QED
    BY ONLY <2>2, <2>3, <2>4
<1> HIDE DEF y
<1>7. Len(x) = Len(y)
  BY <1>1, <1>4, <1>6
<1>8. ASSUME NEW i \in 1..Len(x) PROVE x[i] = y[i]
  <2>0. i \in Nat /\ 1 <= i /\ i <= n + k + 1 /\ i \in 1..n + (k + 1) /\ q = n + p
    BY <1>1, <1>4 DEF q
  <2>1. CASE i <= n
    <3>1. i \in 1..q - 1 /\ i \in 1..n + k
      BY <1>1, <2>0, <2>1
    <3> QED
      BY <1>3, <1>4, <1>6, <2>0, <2>1, <3>1
  <2>2. CASE ~(i <= n) /\ i < q
    <3>1. i \in 1..q - 1 /\ i \in 1..n + k /\ i - n \in 1..p - 1
      BY <1>1, <2>0, <2>2
    <3>2. x[i] = u[i - n] /\ u[i - n] = l[i - n]
      BY <1>2, <1>4, <2>0, <2>2, <3>1
    <3>3. y[i] = v[i] /\ v[i] = l[i - n]
      BY <1>3, <1>6, <2>2, <3>1
    <3> QED
      BY <3>2, <3>3
  <2>3. CASE i = q
    <3>1. i - n = p /\ ~(i <= n)
      BY <1>1, <2>0, <2>3
    <3> QED
      BY <1>2, <1>4, <1>6, <2>0, <2>3, <3>1
  <2>4. CASE q < i
    <3>1. i \in q + 1..n + k + 1 /\ i - n \in p + 1..k + 1 /\ ~(i <= n) /\ i - 1 \in 1..n + k /\ ~(i - 1 <= n)
          /\ (i - n) - 1 = (i - 1) - n
      BY <1>1, <1>5, <2>0, <2>4
    <3>2. x[i] = u[i - n] /\ u[i - n] = l[(i - n) - 1]
      BY <1>2, <1>4, <2>0, <3>1
    <3>3. y[i] = v[i - 1] /\ v[i - 1] = l[(i - 1) - n]
      BY <1>3, <1>6, <3>1
    <3> QED
      BY <3>1, <3>2, <3>3
  <2> QED
    BY <1>1, <1>5, <2>0, <2>1, <2>2, <2>3, <2>4
<1>9. x = y
  BY <1>4, <1>6, <1>7, <1>8, SeqEqual
<1> QED
  BY <1>5, <1>9 DEF q, v, u, x, y

\* An insertion changes the first chunk only.
LEMMA InsertKeys ==
    ASSUME TypeOK, TypeOK', FreshInv, ChainInv, ChainInv', HoldInv, ~torn, ~torn', Insert
    PROVE  /\ Keys' = Keys /\ Shown' = Flat(ListsOf(Keys)')
           /\ \A k : k # HeadKey => Chunk(k)' = Chunk(k)
           /\ \E p \in 1..Len(Chunk(HeadKey).list) + 1 :
                 Chunk(HeadKey)'.list = InsertAt(Chunk(HeadKey).list, p, Head(toConv))
           /\ Head(toConv) \in Msg \ ToSet(Shown)
<1>1. PICK ks : ks = Keys
  OBVIOUS
<1>2. Ends(ks) /\ Shown = Flat(ListsOf(ks)) /\ ks \in Seq(Seq(Msg))
  BY <1>1, KeysEnd, ShownFlat
<1>3. PICK m : m = Head(toConv)
  OBVIOUS
<1>4. m \in Msg /\ \A k : m \notin Messages(Chunk(k))
  <2>1. toConv # <<>>
    BY DEF Insert
  <2> QED
    BY <1>3, <2>1, HeadIsNew
<1>5. PICK l : l = First.list
  OBVIOUS
<1>6. First \in ChunkType /\ l \in Seq(Msg)
  BY <1>5, ChunkTypes DEF First, ChunkType
<1>7. PICK p \in 1..Len(l) + 1 : Entered(l, m) = InsertAt(l, p, m)
  BY <1>4, <1>6, EnteredPlace
<1>8. /\ Stored' = Stored \union {HeadKey} /\ \A k : k # HeadKey => Chunk(k)' = Chunk(k)
      /\ Chunk(HeadKey)' = [First EXCEPT !.list = Entered(l, m)]
  BY <1>3, <1>5, HoldInsert
<1>9. /\ Chunk(HeadKey)'.list = InsertAt(l, p, m) /\ Chunk(HeadKey)'.tailKey = Chunk(HeadKey).tailKey
      /\ Chunk(HeadKey).list = l
  BY <1>5, <1>6, <1>7, <1>8 DEF ChunkType, First
<1>10. \A k : Behind(k)' = Behind(k)
  <2> SUFFICES ASSUME NEW k PROVE Behind(k)' = Behind(k)
    OBVIOUS
  <2>1. Chunk(k)'.tailKey = Chunk(k).tailKey
    BY <1>8, <1>9
  <2>2. HeadKey \notin Chunk(k).tailKey
    BY ChunkTypes DEF ChunkType, AtMostOne, SplitKey
  <2> QED
    BY <1>8, <2>1, <2>2 DEF Behind, Stored
<1>11. Ends(ks)'
  BY <1>2, <1>10 DEF Ends, Walk
<1>12. Keys' = ks /\ Shown' = Flat(ListsOf(ks)')
  BY <1>11, ChainAfter
<1>13. m \notin ToSet(Shown)
  <2>1. \A k : m \notin ToSet(Chunk(k).list)
    BY <1>4 DEF Messages
  <2> QED
    BY <2>1, ShownListed
<1>14. Shown' = Flat(ListsOf(Keys)')
  BY <1>1, <1>12 DEF ListsOf
<1> QED
  BY <1>1, <1>3, <1>4, <1>5, <1>7, <1>8, <1>9, <1>12, <1>13, <1>14

\* A message is inserted among those that are shown.
LEMMA ShownInsert ==
    ASSUME TypeOK, TypeOK', FreshInv, ChainInv, ChainInv', HoldInv, ~torn, ~torn', Insert
    PROVE  \E m \in Msg \ ToSet(Shown), i \in 1..Len(Shown) + 1 :
              m = Head(toConv) /\ Shown' = InsertAt(Shown, i, m)
<1>1. PICK ks : ks = Keys
  OBVIOUS
<1>2. Ends(ks) /\ Shown = Flat(ListsOf(ks)) /\ ks \in Seq(Seq(Msg))
  BY <1>1, KeysEnd, ShownFlat
<1>3. PICK m : m = Head(toConv)
  OBVIOUS
<1>4. m \in Msg \ ToSet(Shown)
  BY <1>3, InsertKeys
<1>5. PICK l : l = Chunk(HeadKey).list
  OBVIOUS
<1>6. l \in Seq(Msg)
  BY <1>5, ChunkTypes DEF ChunkType
<1>7. PICK p \in 1..Len(l) + 1 : Chunk(HeadKey)'.list = InsertAt(l, p, m)
  BY <1>3, <1>5, InsertKeys
<1>8. \A k : k # HeadKey => Chunk(k)' = Chunk(k)
  BY InsertKeys
<1>9. Keys' = ks
  BY <1>1, InsertKeys
<1>10. Shown' = Flat(ListsOf(ks)')
  <2>1. Shown' = Flat(ListsOf(Keys)')
    BY InsertKeys
  <2> QED
    BY <1>9, <2>1 DEF ListsOf
<1>11. (TypeOK => ListsTyped)'
  BY ListsAre, PTL
<1>12. PICK ls, us : ls = ListsOf(ks) /\ us = ListsOf(ks)'
  OBVIOUS
<1>13. ls \in Seq(Seq(Msg)) /\ us \in Seq(Seq(Msg)) /\ Len(ls) = Len(ks) /\ Len(us) = Len(ks)
  BY <1>2, <1>11, <1>12, ListsAre DEF ListsTyped
<1>14. ks # <<>> /\ ks[1] = HeadKey /\ Len(ks) \in Nat \ {0}
  BY <1>2, EmptySeq, LenProperties DEF Ends, Walk
<1>15. ls # <<>>
  BY <1>13, <1>14, EmptySeq
<1>16. ls[1] = l /\ us[1] = InsertAt(l, p, m)
  <2>1. ls[1] = Chunk(ks[1]).list /\ us[1] = Chunk(ks[1])'.list
    BY <1>12, <1>14 DEF ListsOf
  <2> QED
    BY <1>5, <1>7, <1>14, <2>1
<1>17. \A i \in 2..Len(ls) : us[i] = ls[i]
  <2> SUFFICES ASSUME NEW i \in 2..Len(ks) PROVE us[i] = ls[i]
    BY <1>13
  <2>1. i \in 1..Len(ks)
    BY <1>14
  <2>2. ls[i] = Chunk(ks[i]).list /\ us[i] = Chunk(ks[i])'.list
    BY <1>12, <2>1 DEF ListsOf
  <2>3. ks[i] # HeadKey
    <3>1. PICK pos \in [Msg -> Int] : OrderInv(pos)
      BY DEF ChainInv
    <3> QED
      BY <1>2, <3>1, WalkDown DEF Ends
  <2> QED
    BY <1>8, <2>2, <2>3
<1>18. PICK o \in Seq(Msg) : Flat(ls) = o \o ls[1] /\ Flat(us) = o \o us[1]
  BY <1>13, <1>15, <1>17, FlatHead
<1>19. Shown = o \o l /\ Shown' = o \o InsertAt(l, p, m)
  BY <1>2, <1>10, <1>12, <1>16, <1>18
<1>20. Len(o) + p \in 1..Len(Shown) + 1 /\ Shown' = InsertAt(Shown, Len(o) + p, m)
  BY <1>4, <1>6, <1>19, InsertBehind
<1> QED
  BY <1>3, <1>4, <1>20

\* The first list is cut in two.
LEMMA FlatCut ==
    ASSUME NEW ls \in Seq(Seq(Msg)), NEW us \in Seq(Seq(Msg)), ls # <<>>, Len(us) = Len(ls) + 1,
           us[2] \o us[1] = ls[1], \A i \in 2..Len(ls) : us[i + 1] = ls[i]
    PROVE  Flat(us) = Flat(ls)
<1>1. Len(ls) \in Nat \ {0} /\ us # <<>>
  BY EmptySeq, LenProperties
<1> DEFINE n  == Len(ls)
           lt == Tail(ls)
           ut == Tail(us)
           tt == Tail(ut)
<1>2. /\ lt \in Seq(Seq(Msg)) /\ Len(lt) = n - 1 /\ \A i \in 1..n - 1 : lt[i] = ls[i + 1]
      /\ ut \in Seq(Seq(Msg)) /\ Len(ut) = n /\ \A i \in 1..n : ut[i] = us[i + 1]
  BY <1>1, HeadTailProperties
<1> HIDE DEF lt, ut
<1>3. ut # <<>> /\ ut[1] = us[2]
  BY <1>1, <1>2, EmptySeq
<1>4. tt \in Seq(Seq(Msg)) /\ Len(tt) = n - 1 /\ \A i \in 1..n - 1 : tt[i] = ut[i + 1]
  BY <1>1, <1>2, <1>3, HeadTailProperties
<1> HIDE DEF tt
<1>5. \A i \in 1..Len(tt) : tt[i] = lt[i]
  <2> SUFFICES ASSUME NEW i \in 1..n - 1 PROVE tt[i] = lt[i]
    BY <1>4
  <2> DEFINE p == i + 1
  <2>1. p \in 2..n /\ p \in 1..n
    BY <1>1
  <2>2. tt[i] = ut[p] /\ lt[i] = ls[p]
    BY <1>2, <1>4
  <2> HIDE DEF p
  <2>3. ut[p] = us[p + 1] /\ us[p + 1] = ls[p]
    BY <1>2, <2>1
  <2> QED
    BY <2>2, <2>3
<1>6. tt = lt
  BY <1>2, <1>4, <1>5, SeqEqual
<1>7. Flat(us) = Flat(ut) \o us[1] /\ Flat(ut) = Flat(tt) \o ut[1] /\ Flat(ls) = Flat(lt) \o ls[1]
  BY <1>1, <1>2, <1>3, FlatFirst DEF lt, ut, tt
<1>8. Flat(lt) \in Seq(Msg) /\ us[1] \in Seq(Msg) /\ us[2] \in Seq(Msg)
  <2>1. Flat(lt) \in Seq(Msg)
    BY <1>2, FlatIs
  <2>2. 1 \in 1..Len(us) /\ 2 \in 1..Len(us)
    BY <1>1
  <2> QED
    BY <2>1, <2>2, ElementOfSeq
<1>9. (Flat(lt) \o us[2]) \o us[1] = Flat(lt) \o (us[2] \o us[1])
  BY <1>8, Regrouped
<1> QED
  BY <1>3, <1>6, <1>7, <1>9

\* The step puts the chunk of the key cut between HeadKey and the others of ks.
PutBetween(ks, cut) ==
    /\ cut \in Behind(HeadKey)'
    /\ Behind(IF Len(ks) = 1 THEN cut ELSE ks[Len(ks)])' = {}
    /\ Len(ks) > 1 => ks[2] \in Behind(cut)'
    /\ \A i \in 2..Len(ks) : Behind(ks[i])' = Behind(ks[i]) /\ Chunk(ks[i])'.list = Chunk(ks[i]).list
    /\ Chunk(cut)'.list \o Chunk(HeadKey)'.list = Chunk(HeadKey).list

\* The walk comes by cut now.
KeysBetween(ks, cut) ==
    /\ Len(Keys') = Len(ks) + 1 /\ Keys'[1] = HeadKey /\ Keys'[2] = cut
    /\ \A i \in 2..Len(ks) : Keys'[i + 1] = ks[i]

\* A split, as a reader sees it.
SplitSeen == \E ks : ks = Keys /\ \E cut \in Seq(Msg) : PutBetween(ks, cut) /\ KeysBetween(ks, cut)

LEMMA PutBetweenShown ==
    ASSUME TypeOK, TypeOK', ChainInv', ~torn', NEW ks, Ends(ks), NEW cut \in Seq(Msg), PutBetween(ks, cut)
    PROVE  Shown' = Flat(ListsOf(ks)) /\ KeysBetween(ks, cut)
<1> DEFINE n  == Len(ks)
           js == [i \in 1..n + 1 |-> IF i = 1 THEN HeadKey ELSE IF i = 2 THEN cut ELSE ks[i - 1]]
<1>1. ks \in Seq(Seq(Msg)) /\ ks # <<>> /\ n \in Nat \ {0} /\ ks[1] = HeadKey /\ HeadKey \in Seq(Msg)
  BY EmptySeq, LenProperties, FirstWalk DEF Ends, Walk
<1>2. js \in Seq(Seq(Msg)) /\ Len(js) = n + 1 /\ js # <<>>
  <2>1. \A i \in 1..n + 1 : js[i] \in Seq(Msg)
    <3> SUFFICES ASSUME NEW i \in 1..n + 1 PROVE js[i] \in Seq(Msg)
      OBVIOUS
    <3>1. i \in {1, 2} \/ i - 1 \in 1..n
      BY <1>1
    <3> QED
      BY <1>1, <3>1, ElementOfSeq
  <2>2. js \in [1..n + 1 -> Seq(Msg)] /\ n + 1 \in Nat
    BY <1>1, <2>1
  <2>3. js \in Seq(Seq(Msg)) /\ Len(js) = n + 1
    BY <2>2, IsASeq, LenProperties
  <2> QED
    BY <1>1, <2>3, EmptySeq
<1>3. /\ js[1] = HeadKey /\ js[2] = cut /\ \A i \in 2..n : js[i + 1] = ks[i]
      /\ js[n + 1] = IF n = 1 THEN cut ELSE ks[n]
  <2>1. \A i \in 1..n + 1 : js[i] = IF i = 1 THEN HeadKey ELSE IF i = 2 THEN cut ELSE ks[i - 1]
    OBVIOUS
  <2>2. 1 \in 1..n + 1 /\ 2 \in 1..n + 1 /\ n + 1 \in 1..n + 1 /\ n + 1 # 1 /\ (n + 1 = 2 <=> n = 1) /\ (n + 1) - 1 = n
    <3>1. n \in Nat \ {0}
      BY <1>1
    <3> HIDE DEF n, js
    <3> QED
      BY ONLY <3>1
  <2>3. ASSUME NEW i \in 2..n PROVE js[i + 1] = ks[i]
    <3>1. i + 1 \in 1..n + 1 /\ i + 1 \notin {1, 2} /\ (i + 1) - 1 = i
      BY <1>1
    <3> HIDE DEF js
    <3> QED
      BY <2>1, <3>1
  <2> HIDE DEF js
  <2> QED
    BY <2>1, <2>2, <2>3
<1> HIDE DEF js
<1>4. \A i \in 1..n : js[i + 1] \in Behind(js[i])'
  <2> SUFFICES ASSUME NEW i \in 1..n PROVE js[i + 1] \in Behind(js[i])'
    OBVIOUS
  <2>1. CASE i = 1
    BY <1>3, <2>1 DEF PutBetween
  <2>2. CASE i = 2
    <3>1. js[i + 1] = ks[2] /\ js[i] = cut /\ n > 1
      BY <1>1, <1>3, <2>2
    <3> QED
      BY <3>1 DEF PutBetween
  <2>3. CASE i \notin {1, 2}
    <3> DEFINE p == i - 1
    <3>1. p \in 2..n /\ p \in 1..n - 1 /\ p + 1 = i /\ i \in 2..n
      BY <1>1, <2>3
    <3> HIDE DEF p
    <3>2. ks[p + 1] \in Behind(ks[p])
      BY <3>1 DEF Ends, Walk
    <3>3. Behind(ks[p])' = Behind(ks[p])
      BY <3>1 DEF PutBetween
    <3>4. js[i + 1] = ks[i] /\ js[p + 1] = ks[p]
      BY <1>3, <3>1
    <3> QED
      BY <3>1, <3>2, <3>3, <3>4
  <2> QED
    BY <2>1, <2>2, <2>3
<1>5. Ends(js)'
  <2>1. Behind(js[Len(js)])' = {}
    BY <1>2, <1>3 DEF PutBetween
  <2>2. \A i \in 1..Len(js) - 1 : js[i + 1] \in Behind(js[i])'
    BY <1>1, <1>2, <1>4
  <2> QED
    BY <1>2, <1>3, <2>1, <2>2 DEF Ends, Walk
<1>6. Keys' = js /\ Shown' = Flat(ListsOf(js)')
  BY <1>5, ChainAfter
<1>7. (TypeOK => ListsTyped)'
  BY ListsAre, PTL
<1>8. PICK ls, us : ls = ListsOf(ks) /\ us = ListsOf(js)'
  OBVIOUS
<1>9. ls \in Seq(Seq(Msg)) /\ us \in Seq(Seq(Msg)) /\ Len(ls) = n /\ Len(us) = n + 1
  BY <1>1, <1>2, <1>7, <1>8, ListsAre DEF ListsTyped
<1>10. ls # <<>>
  BY <1>1, <1>9, EmptySeq
<1>11. \A i \in 1..n + 1 : us[i] = Chunk(js[i])'.list
  BY <1>2, <1>8 DEF ListsOf
<1>12. \A i \in 1..n : ls[i] = Chunk(ks[i]).list
  BY <1>8 DEF ListsOf
<1>13. us[2] \o us[1] = ls[1]
  <2>1. 1 \in 1..n /\ 1 \in 1..n + 1 /\ 2 \in 1..n + 1
    BY <1>1
  <2>2. us[1] = Chunk(HeadKey)'.list /\ us[2] = Chunk(cut)'.list /\ ls[1] = Chunk(HeadKey).list
    BY <1>1, <1>3, <1>11, <1>12, <2>1
  <2> QED
    BY <2>2 DEF PutBetween
<1>14. \A i \in 2..Len(ls) : us[i + 1] = ls[i]
  <2> SUFFICES ASSUME NEW i \in 2..n PROVE us[i + 1] = ls[i]
    BY <1>9
  <2>1. i \in 1..n /\ i + 1 \in 1..n + 1
    BY <1>1
  <2>2. us[i + 1] = Chunk(js[i + 1])'.list /\ js[i + 1] = ks[i]
    BY <1>3, <1>11, <2>1
  <2> QED
    BY <1>12, <2>1, <2>2 DEF PutBetween
<1>15. Flat(us) = Flat(ls)
  BY <1>9, <1>10, <1>13, <1>14, FlatCut
<1>16. KeysBetween(ks, cut)
  BY <1>2, <1>3, <1>6 DEF KeysBetween
<1> QED
  BY <1>6, <1>8, <1>15, <1>16

\* The two parts of the first chunk are what it was.
LEMMA CutWhole ==
    ASSUME TypeOK, Len(First.list) > SplitThreshold
    PROVE  CutKey \o Rest(First, CutKey).list = First.list
<1> DEFINE l == First.list
           r == Rest(First, CutKey).list
           c == CutKey
           n == ChunkSize
<1>1. /\ c \in Seq(Msg) /\ Len(c) = n /\ n \in Nat \ {0} /\ Len(l) \in Nat /\ n < Len(l)
      /\ \A i \in 1..n : c[i] = l[i]
      /\ Len(r) = Len(l) - n /\ \A i \in 1..Len(l) - n : r[i] = l[n + i]
  BY CutProperties
<1>2. l \in Seq(Msg) /\ r \in Seq(Msg)
  BY ChunkTypes, CutProperties DEF ChunkType, First
<1> HIDE DEF l, r, c, n
<1>3. /\ c \o r \in Seq(Msg) /\ Len(c \o r) = Len(c) + Len(r)
      /\ \A i \in 1..Len(c) + Len(r) : (c \o r)[i] = IF i <= Len(c) THEN c[i] ELSE r[i - Len(c)]
  <2>1. c \in Seq(Msg) /\ r \in Seq(Msg)
    BY <1>1, <1>2
  <2> QED
    BY ONLY <2>1, ConcatProperties
<1>4. Len(c \o r) = Len(l)
  BY <1>1, <1>3
<1>5. \A i \in 1..Len(l) : (c \o r)[i] = l[i]
  <2> SUFFICES ASSUME NEW i \in 1..Len(l) PROVE (c \o r)[i] = l[i]
    OBVIOUS
  <2>1. i \in 1..Len(c) + Len(r)
    BY <1>1
  <2>2. CASE i <= n
    BY <1>1, <1>3, <2>1, <2>2
  <2>3. CASE ~(i <= n)
    <3> DEFINE p == i - n
    <3>1. p \in 1..Len(l) - n /\ n + p = i
      BY <1>1, <2>3
    <3>2. (c \o r)[i] = r[p]
      BY <1>1, <1>3, <2>1, <2>3
    <3> HIDE DEF p
    <3>3. r[p] = l[n + p]
      BY <1>1, <3>1
    <3> QED
      BY <3>1, <3>2, <3>3
  <2> QED
    BY <2>2, <2>3
<1>6. c \o r = l
  BY <1>2, <1>3, <1>4, <1>5, SeqEqual
<1> QED
  BY <1>6 DEF l, r, c

\* A split shows what there was.
LEMMA ShownSplitFirst ==
    ASSUME TypeOK, TypeOK', ChainInv, ChainInv', HoldInv, ~torn, ~torn', SplitFirst
    PROVE  Shown' = Shown /\ SplitSeen
<1>1. PICK ks, cut : ks = Keys /\ cut = CutKey
  OBVIOUS
<1>2. Ends(ks) /\ Shown = Flat(ListsOf(ks)) /\ ks \in Seq(Seq(Msg))
  BY <1>1, KeysEnd, ShownFlat
<1>3. Len(First.list) > SplitThreshold /\ First.tailKey = {}
  BY DEF SplitFirst, First
<1>4. cut \in Seq(Msg) /\ cut # HeadKey /\ CutKey \o Rest(First, CutKey).list = First.list
      /\ Rest(First, CutKey).tailKey = {cut}
  BY <1>1, <1>3, CutProperties, CutWhole DEF SplitKey
<1>5. /\ Stored' = Stored \union {HeadKey, cut}
      /\ Chunk(HeadKey)' = Rest(First, CutKey) /\ Chunk(cut)' = OnePart
  BY <1>1, HoldSplitFirst
<1>6. Len(ks) = 1
  <2>1. Ends(<<HeadKey>>)
    <3>1. Behind(HeadKey) = {}
      BY <1>3 DEF Behind, First
    <3> QED
      BY <3>1, FirstWalk DEF Ends
  <2>2. ks = <<HeadKey>>
    BY <1>2, <2>1, OnlyChain DEF OneChain
  <2> QED
    BY <2>2
<1>7. PutBetween(ks, cut)
  <2>1. cut \in Behind(HeadKey)'
    BY <1>4, <1>5 DEF Behind, Stored
  <2>2. Behind(cut)' = {}
    BY <1>5 DEF Behind, OnePart
  <2>3. Chunk(cut)'.list \o Chunk(HeadKey)'.list = Chunk(HeadKey).list
    BY <1>4, <1>5 DEF OnePart, First
  <2> QED
    BY <1>6, <2>1, <2>2, <2>3 DEF PutBetween
<1> QED
  BY <1>1, <1>2, <1>4, <1>7, PutBetweenShown DEF SplitSeen

LEMMA ShownSplitAgain ==
    ASSUME TypeOK, TypeOK', ChainInv, ChainInv', HoldInv, ~torn, ~torn', SplitAgain
    PROVE  Shown' = Shown /\ SplitSeen
<1>1. PICK ks, cut : ks = Keys /\ cut = CutKey
  OBVIOUS
<1>2. Ends(ks) /\ Shown = Flat(ListsOf(ks)) /\ ks \in Seq(Seq(Msg)) /\ Len(ks) \in Nat
  BY <1>1, KeysEnd, ShownFlat, LenProperties
<1>3. Len(First.list) > SplitThreshold
  BY DEF SplitAgain, First
<1>4. cut \in Seq(Msg) /\ cut # HeadKey /\ CutKey \o Rest(First, CutKey).list = First.list
      /\ Rest(First, CutKey).tailKey = {cut}
  BY <1>1, <1>3, CutProperties, CutWhole DEF SplitKey
<1>5. PICK pos \in [Msg -> Int] : OrderInv(pos)
  BY DEF ChainInv
<1>6. LiveInv
  BY DEF ChainInv
<1>7. PICK tk \in First.tailKey :
         /\ tk \in Stored /\ tk # cut /\ tk # HeadKey
         /\ Stored' = Stored \union {HeadKey, cut, tk}
         /\ \A k : k \notin {HeadKey, cut, tk} => Chunk(k)' = Chunk(k)
         /\ Chunk(HeadKey)' = Rest(First, CutKey) /\ Chunk(tk)' = Tailed(tk)
         /\ Chunk(cut)' = Part(tk)
  BY <1>1, <1>5, <1>6, HoldSplitAgain
<1>8. Behind(HeadKey) = {tk}
  <2>1. First \in ChunkType
    BY ChunkTypes DEF First
  <2>2. First.tailKey = {tk}
    BY <1>7, <2>1 DEF ChunkType, AtMostOne
  <2> QED
    BY <1>7, <2>2 DEF Behind, Stored, First
<1>9. Len(ks) > 1 /\ ks[2] = tk
  <2>1. ks # <<>> /\ ks[1] = HeadKey
    BY <1>2 DEF Ends, Walk
  <2>2. Len(ks) # 1
    BY <1>2, <1>8, <2>1 DEF Ends
  <2>3. Len(ks) > 1 /\ 1 \in 1..Len(ks) - 1
    <3>1. Len(ks) # 0
      BY <1>2, <2>1, EmptySeq
    <3>2. PICK n : n = Len(ks)
      OBVIOUS
    <3>3. n \in Nat /\ n # 0 /\ n # 1
      BY <1>2, <2>2, <3>1, <3>2
    <3>4. n > 1 /\ 1 \in 1..n - 1
      BY ONLY <3>3
    <3> QED
      BY <3>2, <3>4
  <2>4. ks[1 + 1] \in Behind(ks[1])
    BY <1>2, <2>3 DEF Ends, Walk
  <2> QED
    BY <1>8, <2>1, <2>3, <2>4
<1>10. \A i \in 2..Len(ks) : ks[i] \in Stored /\ ks[i] # HeadKey /\ ks[i] # cut
  <2> SUFFICES ASSUME NEW i \in 2..Len(ks) PROVE ks[i] \in Stored /\ ks[i] # HeadKey /\ ks[i] # cut
    OBVIOUS
  <2>1. ks[i] \in Stored \ {HeadKey} /\ pos[ks[i][1]] \in Int
    BY <1>2, <1>5, WalkDown DEF Ends
  <2>2. CASE i = 2
    BY <1>7, <1>9, <2>1, <2>2
  <2>3. CASE i # 2
    <3>1. pos[ks[i][1]] < pos[tk[1]] /\ pos[tk[1]] \in Int
      <4>1. 2 \in 2..Len(ks) /\ 2 < i
        BY <1>2, <1>9, <2>3
      <4> QED
        BY <1>2, <1>5, <1>9, <4>1, WalkSinks, WalkDown DEF Ends
    <3>2. pos[tk[1]] < pos[cut[1]] /\ pos[cut[1]] \in Int
      <4>1. Fine(CutKey, Part(tk), pos, {tk}) /\ tk \in Seq(Msg)
        BY <1>3, <1>5, <1>7, PartsFine
      <4>2. \A p \in DOMAIN tk, q \in DOMAIN cut : pos[tk[p]] < pos[cut[q]]
        BY <1>1, <4>1 DEF Fine, Part
      <4>3. 1 \in DOMAIN tk /\ 1 \in DOMAIN cut
        BY <1>4, <1>7, <4>1, EmptySeq, LenProperties DEF HeadKey
      <4>4. cut[1] \in Msg
        BY <1>4, <4>3, ElementOfSeq, LenProperties
      <4> QED
        BY <4>2, <4>3, <4>4
    <3> QED
      BY <2>1, <3>1, <3>2
  <2> QED
    BY <2>2, <2>3
<1>11. PutBetween(ks, cut)
  <2>1. cut \in Behind(HeadKey)'
    BY <1>4, <1>7 DEF Behind, Stored
  <2>2. ks[2] \in Behind(cut)'
    BY <1>7, <1>9 DEF Behind, Stored, Part
  <2>3. Chunk(cut)'.list \o Chunk(HeadKey)'.list = Chunk(HeadKey).list
    BY <1>1, <1>4, <1>7 DEF Part, First
  <2>4. ASSUME NEW i \in 2..Len(ks)
        PROVE  Behind(ks[i])' = Behind(ks[i]) /\ Chunk(ks[i])'.list = Chunk(ks[i]).list
    <3>1. Chunk(ks[i])'.list = Chunk(ks[i]).list /\ Chunk(ks[i])'.tailKey = Chunk(ks[i]).tailKey
      <4>1. Tailed(tk).list = Chunk(tk).list /\ Tailed(tk).tailKey = Chunk(tk).tailKey
        BY ChunkTypes DEF Tailed, ChunkType
      <4> QED
        BY <1>7, <1>10, <4>1
    <3>2. Chunk(ks[i]).tailKey \subseteq Stored
      <4>1. Fine(ks[i], Chunk(ks[i]), pos, Stored)
        BY <1>5, <1>10, ChunkFine
      <4> QED
        BY <4>1 DEF Fine
    <3>3. Stored \subseteq Stored'
      BY <1>7
    <3> QED
      BY <3>1, <3>2, <3>3 DEF Behind, Stored
  <2>5. Behind(ks[Len(ks)])' = {}
    <3>1. Len(ks) \in 2..Len(ks)
      BY <1>2, <1>9
    <3> QED
      BY <1>2, <2>4, <3>1 DEF Ends
  <2> QED
    BY <1>9, <2>1, <2>2, <2>3, <2>4, <2>5 DEF PutBetween
<1> QED
  BY <1>1, <1>2, <1>4, <1>11, PutBetweenShown DEF SplitSeen

\* As long as nothing was lost, a step shows what there was or inserts.
LEMMA ShownCases ==
    ASSUME TypeOK, TypeOK', FreshInv, ChainInv, ChainInv', HoldInv, HoldInv', [Next]_vars, ~harmed'
    PROVE  ~harmed /\ ~torn /\ ~torn' /\ (Shown' = Shown \/ Insert)
<1>1. ~harmed /\ ~torn /\ ~torn'
  BY LostStays DEF HoldInv
<1>2. Unseen \/ Insert \/ SplitFirst \/ SplitAgain
  BY HoldCases
<1>3. CASE Unseen
  BY <1>1, <1>3, ShownStill
<1>4. CASE SplitFirst
  BY <1>1, <1>4, ShownSplitFirst
<1>5. CASE SplitAgain
  BY <1>1, <1>5, ShownSplitAgain
<1> QED
  BY <1>1, <1>2, <1>3, <1>4, <1>5

-----------------------------------------------------------------------------
(* Nothing is lost.                                                        *)

\* As long as no memory was lost before it was written, a message that was
\* handed over waits or is shown, and one that is known waits for its
\* insertion or is shown: that it is dropped when it comes again loses nothing.
KeptInv ==
    ~harmed => /\ handed \subseteq ToSet(out) \union ToSet(toConv) \union ToSet(Shown)
               /\ Known \union DueIn(timers) \subseteq ToSet(toConv) \union ToSet(Shown)

LEMMA KeptInit == Init => KeptInv
<1> SUFFICES ASSUME Init PROVE KeptInv
  OBVIOUS
<1>1. handed = {} /\ Known = {} /\ timers = <<>>
  BY DEF Init, HubInit, Known
<1>2. DueIn(timers) = {}
  BY <1>1 DEF DueIn
<1> QED
  BY <1>1, <1>2 DEF KeptInv

\* What is passed on or shown stays so; what is new waits.
LEMMA KeptMore ==
    ASSUME KeptInv, ~harmed,
           ToSet(toConv) \union ToSet(Shown) \subseteq ToSet(toConv') \union ToSet(Shown'),
           ToSet(out) \subseteq ToSet(out') \union ToSet(toConv') \union ToSet(Shown'),
           handed' \subseteq handed \union ToSet(out'),
           Known' \union DueIn(timers') \subseteq Known \union DueIn(timers) \union ToSet(toConv')
    PROVE  KeptInv'
<1>1. /\ handed \subseteq ToSet(out) \union ToSet(toConv) \union ToSet(Shown)
      /\ Known \union DueIn(timers) \subseteq ToSet(toConv) \union ToSet(Shown)
  BY DEF KeptInv
<1>2. handed' \subseteq ToSet(out') \union ToSet(toConv') \union ToSet(Shown')
  BY <1>1
<1>3. Known' \union DueIn(timers') \subseteq ToSet(toConv') \union ToSet(Shown')
  BY <1>1
<1> QED
  BY <1>2, <1>3 DEF KeptInv

\* A message moves from toConv to what is shown.
LEMMA KeptInsert ==
    ASSUME TypeOK, TypeOK', TurnInv, FreshInv, ChainInv, ChainInv', HoldInv, KeptInv, ~harmed, ~torn, ~torn', Insert
    PROVE  KeptInv'
<1>1. PICK m \in Msg, i \in 1..Len(Shown) + 1 : m = Head(toConv) /\ Shown' = InsertAt(Shown, i, m)
  BY ShownInsert
<1>2. Shown \in Seq(Msg)
  BY ShownOnce
<1>3. ToSet(Shown') = ToSet(Shown) \union {m}
  BY <1>1, <1>2, InsertedSet
<1>4. toConv \in Seq(Msg) /\ toConv # <<>> /\ IsInjective(toConv) /\ toConv' = Tail(toConv)
  BY DEF TypeOK, Insert, FreshInv
<1>5. ToSet(toConv') = ToSet(toConv) \ {m}
  BY <1>1, <1>4, TailSet
<1>6. UNCHANGED <<out, handed, known, knownDisk>>
  BY DEF Insert
<1>7. DueIn(timers') = DueIn(timers)
  BY FreshInsert
<1>8. Known' = Known
  BY <1>6 DEF Known
<1> QED
  BY <1>3, <1>5, <1>6, <1>7, <1>8, KeptMore

LEMMA QueueTail ==
    ASSUME NEW q \in Seq(Msg), q # <<>>
    PROVE  ToSet(q) = ToSet(Tail(q)) \union {Head(q)} /\ Head(q) \in Msg
<1>1. /\ Tail(q) \in Seq(Msg) /\ Len(Tail(q)) = Len(q) - 1 /\ Head(q) = q[1] /\ Len(q) \in Nat \ {0}
      /\ \A i \in 1..Len(q) - 1 : Tail(q)[i] = q[i + 1]
      /\ Head(q) \in Msg
  BY HeadTailProperties, LenProperties
<1>2. ToSet(q) = {q[i] : i \in 1..Len(q)} /\ ToSet(Tail(q)) = {Tail(q)[i] : i \in 1..Len(q) - 1}
  BY <1>1, LenProperties DEF ToSet
<1>3. ToSet(q) \subseteq ToSet(Tail(q)) \union {Head(q)}
  <2> SUFFICES ASSUME NEW i \in 1..Len(q) PROVE q[i] \in ToSet(Tail(q)) \union {Head(q)}
    BY <1>2
  <2>1. CASE i = 1
    BY <1>1, <2>1
  <2>2. CASE i # 1
    <3> DEFINE p == i - 1
    <3>1. p \in 1..Len(q) - 1 /\ p + 1 = i
      BY <1>1, <2>2
    <3> HIDE DEF p
    <3>2. Tail(q)[p] = q[i]
      BY <1>1, <3>1
    <3> QED
      BY <1>2, <3>1, <3>2
  <2> QED
    BY <2>1, <2>2
<1>4. ToSet(Tail(q)) \union {Head(q)} \subseteq ToSet(q)
  <2>1. \A i \in 1..Len(q) - 1 : i + 1 \in 1..Len(q)
    BY <1>1
  <2>2. 1 \in 1..Len(q)
    BY <1>1
  <2> QED
    BY <1>1, <1>2, <2>1, <2>2
<1> QED
  BY <1>1, <1>3, <1>4

LEMMA BothMembers == \A s, t \in Seq(Msg) : s \o t \in Seq(Msg) /\ ToSet(s \o t) = ToSet(s) \union ToSet(t)
  BY ConcatMembers

LEMMA QueueMore ==
    ASSUME NEW q \in Seq(Msg), NEW m \in Msg
    PROVE  ToSet(Append(q, m)) = ToSet(q) \union {m}
<1>1. <<m>> \in Seq(Msg) /\ Append(q, m) = q \o <<m>> /\ ToSet(<<m>>) = {m}
  <2>1. <<m>> \in Seq(Msg) /\ DOMAIN <<m>> = {1} /\ <<m>>[1] = m
    OBVIOUS
  <2>2. ToSet(<<m>>) = {m}
    BY <2>1 DEF ToSet
  <2>3. Append(q, m) = q \o <<m>>
    BY AppendIsConcat
  <2> QED
    BY <2>1, <2>2, <2>3
<1> QED
  BY <1>1, BothMembers

LEMMA KeptHub ==
    ASSUME TypeOK, KeptInv, ~harmed, Shown' = Shown, HubStep, UNCHANGED convVars
    PROVE  KeptInv'
<1>0. out \in Seq(Msg) /\ toConv \in Seq(Msg) /\ timers \in Seq(TimerType)
  BY DEF TypeOK
<1>1. CASE \E m \in Msg : Hand(m)
  <2>1. PICK m \in Msg : Hand(m)
    BY <1>1
  <2>2. /\ out' = Append(out, m) /\ handed' = handed \union {m}
        /\ UNCHANGED <<toConv, known, knownDisk, timers>>
    BY <2>1 DEF Hand
  <2>3. ToSet(out') = ToSet(out) \union {m}
    BY <1>0, <2>2, QueueMore
  <2>4. Known' = Known
    BY <2>2 DEF Known
  <2> QED
    BY <2>2, <2>3, <2>4, KeptMore
<1>2. CASE Drop
  <2>1. /\ out # <<>> /\ Head(out) \in Known /\ out' = Tail(out) /\ known' = known \union {Head(out)}
        /\ UNCHANGED <<knownDisk, toConv, timers, handed>>
    BY <1>2 DEF Drop
  <2>2. ToSet(out) = ToSet(out') \union {Head(out)}
    BY <1>0, <2>1, QueueTail
  <2>3. Head(out) \in ToSet(toConv) \union ToSet(Shown)
    BY <2>1 DEF KeptInv
  <2>4. Known' = Known
    BY <2>1 DEF Known
  <2> QED
    BY <2>1, <2>2, <2>3, <2>4, KeptMore
<1>3. CASE PassOn
  <2>1. /\ out # <<>> /\ out' = Tail(out) /\ known' = known \union {Head(out)}
        /\ toConv' = Append(toConv, Head(out)) /\ timers' = timers \o <<MessageWrite(Head(out)), HubWakes>>
        /\ UNCHANGED <<knownDisk, handed>>
    BY <1>3 DEF PassOn
  <2>2. ToSet(out) = ToSet(out') \union {Head(out)} /\ Head(out) \in Msg
    BY <1>0, <2>1, QueueTail
  <2>3. ToSet(toConv') = ToSet(toConv) \union {Head(out)}
    BY <1>0, <2>1, <2>2, QueueMore
  <2>4. DueIn(timers') \subseteq DueIn(timers) \union {Head(out)}
    <3>1. \A i \in DOMAIN timers' : \/ i \in DOMAIN timers /\ timers'[i] = timers[i]
                                    \/ i = Len(timers) + 1 /\ timers'[i] = MessageWrite(Head(out))
                                    \/ i = Len(timers) + 2 /\ timers'[i] = HubWakes
      BY <1>0, <2>1, <2>2, PassedKinds
    <3>2. MessageWrite(Head(out)).msg = Head(out) /\ ~IsOf(HubWakes, "message")
      BY DEF MessageWrite, HubWakes, IsOf
    <3> QED
      BY <3>1, <3>2 DEF DueIn
  <2>5. Known' = Known \union {Head(out)}
    BY <2>1 DEF Known
  <2> QED
    BY <2>1, <2>2, <2>3, <2>4, <2>5, KeptMore
<1>4. CASE FireMessage
  <2>1. /\ timers # <<>> /\ timers' = Tail(timers) /\ knownDisk' = knownDisk \union {Head(timers).msg}
        /\ IsOf(Head(timers), "message") /\ UNCHANGED <<out, known, toConv, handed>>
    BY <1>4 DEF FireMessage, IsOf
  <2>2. DueIn(timers) = DueIn(timers') \union {Head(timers).msg}
    BY <1>0, <2>1, TailDue
  <2>3. Known' = Known \union {Head(timers).msg}
    BY <2>1 DEF Known
  <2> QED
    BY <2>1, <2>2, <2>3, KeptMore
<1>5. CASE FireHub
  <2>1. /\ timers # <<>> /\ timers' = Tail(timers) /\ ~IsOf(Head(timers), "message")
        /\ UNCHANGED <<out, known, knownDisk, toConv, handed>>
    BY <1>5 DEF FireHub, IsOf, HubWakes
  <2>2. DueIn(timers) = DueIn(timers') /\ Known' = Known
    BY <1>0, <2>1, TailDue DEF Known
  <2> QED
    BY <2>1, <2>2, KeptMore
<1>6. CASE HubStop
  <2>1. known' = {} /\ UNCHANGED <<out, knownDisk, toConv, timers, handed>>
    BY <1>6 DEF HubStop
  <2>2. Known' \subseteq Known
    BY <2>1 DEF Known
  <2> QED
    BY <2>1, <2>2, KeptMore
<1> QED
  BY <1>1, <1>2, <1>3, <1>4, <1>5, <1>6 DEF HubStep

\* The steps of the conversation that show what there was.
LEMMA KeptRest ==
    ASSUME TypeOK, TurnInv, FreshInv, KeptInv, ~harmed, ~harmed', Shown' = Shown,
           \/ NoSplit \/ SplitFirst \/ SplitAgain
           \/ TrySplit \/ FireChunk \/ FireConv \/ ReadDisk \/ ReadDone \/ ConvStop \/ Close
    PROVE  KeptInv'
<1>1. DueIn(timers') \subseteq DueIn(timers)
  BY FreshSplit, FreshRest
<1>2. CASE UNCHANGED <<out, toConv, known, knownDisk, handed>>
  <2>1. Known' = Known
    BY <1>2 DEF Known
  <2> QED
    BY <1>1, <1>2, <2>1, KeptMore
<1>3. CASE Close
  <2>1. /\ harmed' = (harmed \/ out # <<>> \/ toConv # <<>> \/ timers # <<>>)
        /\ out' = <<>> /\ toConv' = <<>> /\ known' = {} /\ UNCHANGED <<knownDisk, handed>>
    BY <1>3 DEF Close, HubClose
  <2>2. out' = out /\ toConv' = toConv
    BY <2>1
  <2>3. Known' \subseteq Known
    BY <2>1 DEF Known
  <2> QED
    BY <1>1, <2>1, <2>2, <2>3, KeptMore
<1>4. CASE SplitFirst \/ SplitAgain
  <2>1. \E ts, ws : Commanded(ts, ws)
    BY <1>4, SplitFirstIs, SplitAgainIs
  <2> QED
    BY <1>2, <2>1 DEF Commanded
<1>5. CASE NoSplit
  BY <1>2, <1>5 DEF NoSplit, Commanded
<1>6. CASE TrySplit \/ FireChunk \/ FireConv \/ ReadDisk \/ ReadDone \/ ConvStop
  BY <1>2, <1>6 DEF TrySplit, FireChunk, FireConv, ReadDisk, ReadDone, ConvStop, hubVars
<1> QED
  BY <1>3, <1>4, <1>5, <1>6

LEMMA KeptStep ==
    ASSUME TypeOK, TypeOK', TurnInv, FreshInv, ChainInv, ChainInv', HoldInv, HoldInv', KeptInv, [Next]_vars
    PROVE  KeptInv'
<1> SUFFICES ASSUME ~harmed' PROVE KeptInv'
  BY DEF KeptInv
<1>1. ~harmed /\ ~torn /\ ~torn' /\ (Shown' = Shown \/ Insert)
  BY ShownCases
<1>2. CASE Insert
  BY <1>1, <1>2, KeptInsert
<1>3. CASE Shown' = Shown /\ ~Insert
  <2>1. CASE UNCHANGED vars
    <3>1. UNCHANGED <<out, toConv, known, knownDisk, handed, timers>>
      BY <2>1 DEF vars, hubVars
    <3>2. Known' = Known
      BY <3>1 DEF Known
    <3> QED
      BY <1>1, <1>3, <3>1, <3>2, KeptMore
  <2>2. CASE HubStep /\ UNCHANGED convVars
    BY <1>1, <1>3, <2>2, KeptHub
  <2>3. CASE \/ NoSplit \/ SplitFirst \/ SplitAgain
             \/ TrySplit \/ FireChunk \/ FireConv \/ ReadDisk \/ ReadDone \/ ConvStop \/ Close
    BY <1>1, <1>3, <2>3, KeptRest
  <2> QED
    BY <1>3, <2>1, <2>2, <2>3, NextCases
<1> QED
  BY <1>1, <1>2, <1>3

ConvInv == TypeOK /\ TurnInv /\ FreshInv /\ ChainInv /\ HoldInv

LEMMA ConvInvariant == Spec => []ConvInv
<1>1. Init => ConvInv
  BY TypesInit, TurnInit, FreshInit, ChainInit, HoldInit DEF ConvInv
<1>2. ConvInv /\ [Next]_vars => ConvInv'
  BY TypesStep, TurnStep, FreshStep, ChainStep, HoldStep DEF ConvInv
<1> QED
  BY <1>1, <1>2, PTL DEF Spec

LEMMA ShownSeq == TypeOK => Shown \in Seq(Msg)
<1> SUFFICES ASSUME TypeOK PROVE Shown \in Seq(Msg)
  OBVIOUS
<1>1. PICK ls \in Seq(Seq(Msg)) : Shown = Flat(ls)
  BY ShownFlat, ListsAre DEF ListsTyped
<1> QED
  BY <1>1, FlatIs

LEMMA KeptIsNothingLost == TypeOK /\ KeptInv => NothingLost
<1> SUFFICES ASSUME TypeOK, KeptInv, ~harmed PROVE handed \subseteq ToSet(out \o toConv \o Shown)
  BY DEF NothingLost
<1>1. out \in Seq(Msg) /\ toConv \in Seq(Msg) /\ Shown \in Seq(Msg)
  BY ShownSeq DEF TypeOK
<1>2. out \o toConv \in Seq(Msg) /\ ToSet(out \o toConv) = ToSet(out) \union ToSet(toConv)
  BY <1>1, BothMembers
<1>3. ToSet((out \o toConv) \o Shown) = ToSet(out \o toConv) \union ToSet(Shown)
  BY <1>1, <1>2, BothMembers
<1> QED
  BY <1>2, <1>3 DEF KeptInv

\* A message that EventSourceDomain handed over waits or is shown, unless
\* memory was lost before it was written: neither the check for known messages
\* (poll of MessageHubDomain), nor an insertion, a split or a late write loses
\* one, in whatever order timers, commands, answers and stops come.
THEOREM NothingLostInvariant == Spec => []NothingLost
<1>1. Init => KeptInv
  BY KeptInit
<1>2. ConvInv /\ ConvInv' /\ KeptInv /\ [Next]_vars => KeptInv'
  BY KeptStep DEF ConvInv
<1>3. ConvInv /\ KeptInv => NothingLost
  BY KeptIsNothingLost DEF ConvInv
<1> QED
  BY <1>1, <1>2, <1>3, ConvInvariant, PTL DEF Spec

-----------------------------------------------------------------------------
(* The promise.                                                            *)

LEMMA BoardInit == Init => ConversationBoard!Init
<1> SUFFICES ASSUME Init PROVE Shown = <<>>
  BY DEF ConversationBoard!Init
<1>1. TypeOK /\ FreshInv /\ ChainInv
  BY TypesInit, FreshInit, ChainInit
<1>2. ToSet(Shown) \subseteq Known \union Due
  BY <1>1, ChainIsStored DEF ChainStored
<1>3. Known = {} /\ timers = <<>>
  BY DEF Init, HubInit, Known
<1>4. Due = {}
  BY <1>3 DEF Due
<1>5. Shown \in Seq(Msg) /\ ToSet(Shown) = {}
  BY <1>1, <1>2, <1>3, <1>4, ShownSeq
<1>6. \A i \in 1..Len(Shown) : FALSE
  BY <1>5, LenProperties DEF ToSet
<1>7. Len(Shown) = 0
  BY <1>5, <1>6, LenProperties
<1> QED
  BY <1>5, <1>7, EmptySeq

LEMMA BoardStep ==
    ASSUME ConvInv, ConvInv', [Next]_vars
    PROVE  [ConversationBoard!Next]_Shown
<1>0. /\ TypeOK /\ FreshInv /\ ChainInv /\ HoldInv
      /\ TypeOK' /\ ChainInv' /\ HoldInv'
  BY DEF ConvInv
<1>1. CASE torn'
  BY <1>1 DEF ConversationBoard!Next
<1>2. CASE ~torn' /\ harmed' /\ Shown' # Shown
  <2>1. (TypeOK /\ ChainInv /\ ~torn => Shown \in Seq(Msg) /\ IsInjective(Shown))'
    BY ShownOnce, PTL
  <2>2. IsInjective(Shown')
    BY <1>0, <1>2, <2>1
  <2> QED
    BY <1>2, <2>2 DEF ConversationBoard!Next, ConversationBoard!Reload, ConversationBoard!IsInjective, IsInjective
<1>3. CASE ~harmed' /\ Shown' # Shown
  <2>1. ~harmed /\ ~torn /\ ~torn' /\ Insert
    BY <1>0, <1>3, ShownCases
  <2>2. PICK m \in Msg \ ToSet(Shown), i \in 1..Len(Shown) + 1 : Shown' = InsertAt(Shown, i, m)
    BY <1>0, <2>1, ShownInsert
  <2>3. Shown \in Seq(Msg)
    BY <1>0, ShownSeq
  <2>4. Len(Shown') = Len(Shown) + 1
    BY <2>2, <2>3, InsertedAt
  <2>5. ConversationBoard!Post
    BY <2>2, <2>4 DEF ConversationBoard!Post, ConversationBoard!InsertAt, InsertAt, ConversationBoard!ToSet, ToSet
  <2> QED
    BY <2>5 DEF ConversationBoard!Next
<1> QED
  BY <1>1, <1>2, <1>3

\* The domains keep what the pipeline promises: each step of theirs shows one
\* message more, or what there was, unless something was lost.
THEOREM BoardImplemented == Spec => IsBoard
<1>1. Init => ConversationBoard!Init
  BY BoardInit
<1>2. ConvInv /\ ConvInv' /\ [Next]_vars => [ConversationBoard!Next]_Shown
  BY BoardStep
<1> QED
  BY <1>1, <1>2, ConvInvariant, PTL DEF Spec, IsBoard, ConversationBoard!Spec

-----------------------------------------------------------------------------
(* A reader of the messages: where he is in a chunk.                       *)

\* The messages of a list before the one at which the reader is.
Before(l, at) == {l[i] : i \in 1..Anchor(l, at) - 1}

LEMMA AnchorFound ==
    ASSUME NEW l \in Seq(Msg), IsInjective(l), NEW q \in 1..Len(l)
    PROVE  Anchor(l, {l[q]}) = q
<1> DEFINE found == {i \in DOMAIN l : l[i] \in {l[q]}}
<1>1. DOMAIN l = 1..Len(l) /\ Len(l) \in Nat
  BY LenProperties
<1>2. found = {q}
  BY <1>1 DEF IsInjective
<1>3. Min({q}) = q
  <2>1. q \in Int /\ \A y \in {q} : q <= y
    BY <1>1
  <2>2. \A x \in {q} : x = q
    OBVIOUS
  <2> QED
    BY <2>1, <2>2 DEF Min
<1> QED
  BY <1>2, <1>3 DEF Anchor

LEMMA AnchorLost ==
    ASSUME NEW l \in Seq(Msg), NEW at, at \cap ToSet(l) = {}
    PROVE  Anchor(l, at) = Len(l) + 1 /\ Before(l, at) = ToSet(l)
<1>1. DOMAIN l = 1..Len(l) /\ Len(l) \in Nat
  BY LenProperties
<1>2. {i \in DOMAIN l : l[i] \in at} = {}
  BY DEF ToSet
<1>3. Anchor(l, at) = Len(l) + 1
  BY <1>2 DEF Anchor
<1>4. (Len(l) + 1) - 1 = Len(l)
  BY <1>1
<1> QED
  BY <1>1, <1>3, <1>4 DEF Before, ToSet

\* The message is found at one place or not at all.
AtCases(l, at) ==
    \/ at \cap ToSet(l) = {}
    \/ \E q \in 1..Len(l) : at = {l[q]} /\ Anchor(l, at) = q /\ Before(l, at) = {l[i] : i \in 1..q - 1}

LEMMA AtSomewhere ==
    ASSUME NEW l \in Seq(Msg), IsInjective(l), NEW at \in AtMostOne(Msg)
    PROVE  AtCases(l, at)
<1>1. DOMAIN l = 1..Len(l) /\ Len(l) \in Nat
  BY LenProperties
<1> SUFFICES ASSUME at \cap ToSet(l) # {}
             PROVE  \E q \in 1..Len(l) : at = {l[q]} /\ Anchor(l, at) = q /\ Before(l, at) = {l[i] : i \in 1..q - 1}
  BY DEF AtCases
<1>2. PICK q \in 1..Len(l) : l[q] \in at
  BY <1>1 DEF ToSet
<1>3. at = {l[q]}
  BY <1>2 DEF AtMostOne
<1>4. Anchor(l, at) = q
  BY <1>3, AnchorFound
<1> QED
  BY <1>3, <1>4 DEF Before

\* A page of one message.
LEMMA BeforePaged ==
    ASSUME NEW l \in Seq(Msg), IsInjective(l), NEW at \in AtMostOne(Msg), Anchor(l, at) # 1
    PROVE  \E m \in ToSet(l) : /\ m = l[Anchor(l, at) - 1] /\ m \in Msg
                               /\ Before(l, at) = Before(l, {m}) \union {m} /\ m \notin Before(l, {m})
<1>1. DOMAIN l = 1..Len(l) /\ Len(l) \in Nat /\ \A i \in 1..Len(l) : l[i] \in Msg
  BY LenProperties, ElementOfSeq
<1> DEFINE q == Anchor(l, at) - 1
<1>2. q \in 1..Len(l) /\ Before(l, at) = {l[i] : i \in 1..q}
  <2>1. CASE at \cap ToSet(l) = {}
    <3>1. Anchor(l, at) = Len(l) + 1
      BY <2>1, AnchorLost
    <3>2. q = Len(l) /\ Len(l) # 0
      BY <1>1, <3>1
    <3> QED
      BY <1>1, <3>2 DEF Before
  <2>2. CASE \E p \in 1..Len(l) : Anchor(l, at) = p
    BY <1>1, <2>2 DEF Before
  <2> QED
    BY <2>1, <2>2, AtSomewhere DEF AtCases
<1> HIDE DEF q
<1>3. Anchor(l, {l[q]}) = q
  BY <1>2, AnchorFound
<1>4. Before(l, {l[q]}) = {l[i] : i \in 1..q - 1}
  BY <1>3 DEF Before
<1>5. \A i \in 1..q : i = q \/ i \in 1..q - 1
  BY <1>1, <1>2
<1>6. \A i \in 1..q - 1 : i \in 1..q /\ i \in 1..Len(l) /\ i # q /\ q \in 1..q
  BY <1>1, <1>2
<1>7. l[q] \in Before(l, at)
  <2>1. q \in 1..q
    BY <1>1, <1>2
  <2> QED
    BY <1>2, <2>1
<1>8. Before(l, at) = Before(l, {l[q]}) \union {l[q]}
  BY <1>2, <1>4, <1>5, <1>6, <1>7
<1>9. l[q] \notin Before(l, {l[q]})
  BY <1>1, <1>2, <1>4, <1>6 DEF IsInjective
<1> QED
  BY <1>1, <1>2, <1>8, <1>9 DEF ToSet, q

\* A message enters the list.
LEMMA BeforeEntered ==
    ASSUME NEW l \in Seq(Msg), NEW m \in Msg, NEW p \in 1..Len(l) + 1, IsInjective(l), IsInjective(InsertAt(l, p, m)),
           NEW at \in AtMostOne(Msg), m \notin at
    PROVE  /\ Before(l, at) \subseteq Before(InsertAt(l, p, m), at)
           /\ Before(InsertAt(l, p, m), at) \subseteq Before(l, at) \union {m}
<1> DEFINE u == InsertAt(l, p, m)
<1>1. DOMAIN l = 1..Len(l) /\ Len(l) \in Nat /\ p \in Nat
  BY LenProperties
<1>2. /\ u \in Seq(Msg) /\ Len(u) = Len(l) + 1
      /\ \A i \in 1..p - 1 : u[i] = l[i]
      /\ u[p] = m
      /\ \A i \in p + 1..Len(l) + 1 : u[i] = l[i - 1]
  BY InsertedAt
<1>3. ToSet(u) = ToSet(l) \union {m}
  BY InsertedSet
<1> HIDE DEF u
<1>4. CASE at \cap ToSet(l) = {}
  <2>1. at \cap ToSet(u) = {}
    BY <1>3, <1>4
  <2> QED
    BY <1>2, <1>3, <1>4, <2>1, AnchorLost DEF u
<1>5. ASSUME NEW q \in 1..Len(l), at = {l[q]}, Before(l, at) = {l[i] : i \in 1..q - 1}
      PROVE  Before(l, at) \subseteq Before(u, at) /\ Before(u, at) \subseteq Before(l, at) \union {m}
  <2>1. CASE q < p
    <3>1. q \in 1..p - 1 /\ q \in 1..Len(u)
      BY <1>1, <1>2, <2>1
    <3>2. Anchor(u, {u[q]}) = q /\ u[q] = l[q]
      BY <1>2, <3>1, AnchorFound DEF u
    <3>3. Before(u, at) = {u[i] : i \in 1..q - 1}
      BY <1>5, <3>2 DEF Before
    <3>4. \A i \in 1..q - 1 : i \in 1..p - 1
      BY <1>1, <2>1
    <3> QED
      BY <1>2, <1>5, <3>3, <3>4
  <2>2. CASE ~(q < p)
    <3> DEFINE r == q + 1
    <3>1. r \in p + 1..Len(l) + 1 /\ r \in 1..Len(u) /\ r - 1 = q
      BY <1>1, <1>2, <2>2
    <3> HIDE DEF r
    <3>2. Anchor(u, {u[r]}) = r /\ u[r] = l[q]
      BY <1>2, <3>1, AnchorFound DEF u
    <3>3. Before(u, at) = {u[i] : i \in 1..q}
      BY <1>5, <3>1, <3>2 DEF Before
    <3>4. \A i \in 1..q : i \in 1..p - 1 \/ i = p \/ (i \in p + 1..Len(l) + 1 /\ i - 1 \in 1..q - 1)
      BY <1>1, <2>2
    <3>5. Before(u, at) \subseteq Before(l, at) \union {m}
      <4> SUFFICES ASSUME NEW i \in 1..q PROVE u[i] \in Before(l, at) \union {m}
        BY <3>3
      <4>1. CASE i \in 1..p - 1
        <5>1. i \in 1..q - 1
          BY <1>1, <2>2, <4>1
        <5> QED
          BY <1>2, <1>5, <4>1, <5>1
      <4>2. CASE i = p
        BY <1>2, <4>2
      <4>3. CASE i \in p + 1..Len(l) + 1 /\ i - 1 \in 1..q - 1
        BY <1>2, <1>5, <4>3
      <4> QED
        BY <3>4, <4>1, <4>2, <4>3
    <3>6. Before(l, at) \subseteq Before(u, at)
      <4> SUFFICES ASSUME NEW i \in 1..q - 1 PROVE l[i] \in Before(u, at)
        BY <1>5
      <4>1. CASE i < p
        <5>1. i \in 1..p - 1 /\ i \in 1..q
          BY <1>1, <4>1
        <5> QED
          BY <1>2, <3>3, <5>1
      <4>2. CASE ~(i < p)
        <5> DEFINE j == i + 1
        <5>1. j \in p + 1..Len(l) + 1 /\ j \in 1..q /\ j - 1 = i
          BY <1>1, <4>2
        <5> HIDE DEF j
        <5> QED
          BY <1>2, <3>3, <5>1
      <4> QED
        BY <4>1, <4>2
    <3> QED
      BY <3>5, <3>6
  <2> QED
    BY <2>1, <2>2
<1> QED
  BY <1>4, <1>5, AtSomewhere DEF AtCases, u

\* A list is split.
LEMMA BeforeSplit ==
    ASSUME NEW c \in Seq(Msg), NEW r \in Seq(Msg), NEW l, l = c \o r, IsInjective(l), IsInjective(r),
           NEW at \in AtMostOne(Msg)
    PROVE  /\ Before(l, at) \subseteq ToSet(c) \union Before(r, at)
           /\ at = {} \/ at \cap ToSet(r) # {} => Before(l, at) = ToSet(c) \union Before(r, at)
<1>1. /\ l \in Seq(Msg) /\ Len(l) = Len(c) + Len(r) /\ Len(c) \in Nat /\ Len(r) \in Nat
      /\ \A i \in 1..Len(c) + Len(r) : l[i] = IF i <= Len(c) THEN c[i] ELSE r[i - Len(c)]
  <2>1. c \in Seq(Msg) /\ r \in Seq(Msg)
    OBVIOUS
  <2>2. /\ c \o r \in Seq(Msg) /\ Len(c \o r) = Len(c) + Len(r)
        /\ \A i \in 1..Len(c) + Len(r) : (c \o r)[i] = IF i <= Len(c) THEN c[i] ELSE r[i - Len(c)]
    BY ONLY <2>1, ConcatProperties
  <2>3. Len(c) \in Nat /\ Len(r) \in Nat
    BY LenProperties
  <2> QED
    BY <2>2, <2>3
<1>2. ToSet(l) = ToSet(c) \union ToSet(r)
  BY BothMembers
<1>3. ToSet(c) = {c[i] : i \in 1..Len(c)}
  BY LenProperties DEF ToSet
<1>4. CASE at \cap ToSet(r) = {}
  <2>1. Before(r, at) = ToSet(r)
    BY <1>4, AnchorLost
  <2>2. Before(l, at) \subseteq ToSet(l)
    <3>1. CASE at \cap ToSet(l) = {}
      BY <1>1, <3>1, AnchorLost
    <3>2. CASE \E q \in 1..Len(l) : Before(l, at) = {l[i] : i \in 1..q - 1}
      <4>1. PICK q \in 1..Len(l) : Before(l, at) = {l[i] : i \in 1..q - 1}
        BY <3>2
      <4>2. \A i \in 1..q - 1 : i \in 1..Len(l)
        BY <1>1
      <4> QED
        BY <1>1, <4>1, <4>2, LenProperties DEF ToSet
    <3> QED
      BY <1>1, <3>1, <3>2, AtSomewhere DEF AtCases
  <2>3. at = {} => Before(l, at) = ToSet(l)
    BY <1>1, AnchorLost
  <2> QED
    BY <1>2, <1>4, <2>1, <2>2, <2>3
<1>5. ASSUME NEW q \in 1..Len(r), at = {r[q]}, Before(r, at) = {r[i] : i \in 1..q - 1}
      PROVE  Before(l, at) = ToSet(c) \union Before(r, at)
  <2> DEFINE s == Len(c) + q
  <2>1. s \in 1..Len(l) /\ s \in 1..Len(c) + Len(r) /\ ~(s <= Len(c)) /\ s - Len(c) = q
    BY <1>1
  <2> HIDE DEF s
  <2>2. l[s] = r[q]
    BY <1>1, <2>1
  <2>3. Anchor(l, at) = s
    BY <1>1, <1>5, <2>1, <2>2, AnchorFound
  <2>4. Before(l, at) = {l[i] : i \in 1..s - 1}
    BY <2>3 DEF Before
  <2>5. Before(l, at) \subseteq ToSet(c) \union Before(r, at)
    <3> SUFFICES ASSUME NEW i \in 1..s - 1 PROVE l[i] \in ToSet(c) \union Before(r, at)
      BY <2>4
    <3>1. CASE i <= Len(c)
      <4>1. i \in 1..Len(c) /\ i \in 1..Len(c) + Len(r)
        BY <1>1, <2>1, <3>1
      <4> QED
        BY <1>1, <1>3, <3>1, <4>1
    <3>2. CASE ~(i <= Len(c))
      <4>1. i - Len(c) \in 1..q - 1 /\ i \in 1..Len(c) + Len(r)
        BY <1>1, <2>1, <3>2
      <4> QED
        BY <1>1, <1>5, <3>2, <4>1
    <3> QED
      BY <3>1, <3>2
  <2>6. ToSet(c) \subseteq Before(l, at)
    <3> SUFFICES ASSUME NEW i \in 1..Len(c) PROVE c[i] \in Before(l, at)
      BY <1>3
    <3>1. i \in 1..s - 1 /\ i \in 1..Len(c) + Len(r) /\ i <= Len(c)
      BY <1>1, <2>1
    <3> QED
      BY <1>1, <2>4, <3>1
  <2>7. Before(r, at) \subseteq Before(l, at)
    <3> SUFFICES ASSUME NEW i \in 1..q - 1 PROVE r[i] \in Before(l, at)
      BY <1>5
    <3> DEFINE k == Len(c) + i
    <3>1. k \in 1..s - 1 /\ k \in 1..Len(c) + Len(r) /\ ~(k <= Len(c)) /\ k - Len(c) = i
      BY <1>1, <2>1
    <3> HIDE DEF k
    <3>2. l[k] = r[i]
      BY <1>1, <3>1
    <3> QED
      BY <2>4, <3>1, <3>2
  <2> QED
    BY <2>5, <2>6, <2>7
<1> QED
  BY <1>4, <1>5, AtSomewhere DEF AtCases

-----------------------------------------------------------------------------
(* A reader of the messages: what is ahead of him.                         *)

\* The messages of the chunks behind the j-th.
Older(ks, j) == UNION {ToSet(Chunk(ks[i]).list) : i \in j + 1..Len(ks)}

\* A chunk has no message twice, and shares none with those behind it.
Apart(ks) ==
    \A j \in 1..Len(ks) : /\ IsInjective(Chunk(ks[j]).list)
                          /\ ToSet(Chunk(ks[j]).list) \cap Older(ks, j) = {}

PartsApart == \A ks \in {Keys} : Apart(ks)

LEMMA ChunksApart == TypeOK /\ ChainInv /\ ~torn => PartsApart
<1> SUFFICES ASSUME TypeOK, ChainInv, ~torn PROVE PartsApart
  OBVIOUS
<1>1. PICK pos \in [Msg -> Int] : OrderInv(pos)
  BY DEF ChainInv
<1>2. PICK ks : ks = Keys
  OBVIOUS
<1>3. Walk(ks) /\ ToSet(ks) \subseteq Stored \union {HeadKey}
  BY <1>2, KeysStored
<1>4. PICK n : n = Len(ks)
  OBVIOUS
<1>5. n \in Nat /\ \A i \in 1..n : ks[i] \in ToSet(ks)
  BY <1>3, <1>4, LenProperties DEF Walk, ToSet
<1> DEFINE l(i) == Chunk(ks[i]).list
<1>6. ASSUME NEW i \in 1..n
      PROVE  /\ Fine(ks[i], Chunk(ks[i]), pos, Stored) /\ l(i) \in Seq(Msg)
             /\ \A a \in DOMAIN l(i) : a \in Nat /\ l(i)[a] \in Msg /\ pos[l(i)[a]] \in Int
  <2>1. l(i) \in Seq(Msg)
    BY ChunkTypes DEF ChunkType
  <2>2. Fine(ks[i], Chunk(ks[i]), pos, Stored)
    BY <1>1, <1>3, <1>5, ChunkFine
  <2>3. \A a \in DOMAIN l(i) : a \in Nat /\ l(i)[a] \in Msg
    BY <2>1, LenProperties, ElementOfSeq
  <2> QED
    BY <2>1, <2>2, <2>3
<1>7. ASSUME NEW i \in 1..n
      PROVE  IsInjective(l(i))
  <2> SUFFICES ASSUME NEW a \in DOMAIN l(i), NEW b \in DOMAIN l(i), l(i)[a] = l(i)[b], a # b PROVE FALSE
    BY DEF IsInjective
  <2>1. a < b \/ b < a
    BY <1>6
  <2>2. pos[l(i)[a]] < pos[l(i)[b]] \/ pos[l(i)[b]] < pos[l(i)[a]]
    BY <1>6, <2>1 DEF Fine
  <2>3. pos[l(i)[a]] = pos[l(i)[b]] /\ pos[l(i)[a]] \in Int
    BY <1>6
  <2> HIDE DEF l
  <2> QED
    BY <2>2, <2>3
<1>8. ASSUME NEW i \in 1..n - 1
      PROVE  l(i) # <<>> /\ Below(pos, l(i + 1), l(i))
  <2>1. i \in 1..n /\ i + 1 \in 1..n /\ i + 1 \in 2..n
    BY <1>5
  <2>2. ks[i + 1] \in Chunk(ks[i]).tailKey
    BY <1>3, <1>4, BehindTypes DEF Walk
  <2>3. ks[i + 1] # HeadKey
    BY <1>1, <1>3, <1>4, <2>1, WalkDown
  <2>4. l(i + 1) = ks[i + 1]
    BY <1>6, <2>1, <2>3 DEF Fine
  <2>5. Fine(ks[i], Chunk(ks[i]), pos, Stored)
    BY <1>6, <2>1
  <2> QED
    BY <2>2, <2>4, <2>5 DEF Fine, Below
<1>9. ASSUME NEW i \in 1..n, NEW j \in 1..n, i < j
      PROVE  Below(pos, l(j), l(i))
  <2> DEFINE G == {k \in 0..n : i + k + 1 \in 1..n => Below(pos, l(i + k + 1), l(i))}
  <2> HIDE DEF l
  <2>1. 0 \in G
    <3>1. i + 0 + 1 = i + 1 /\ (i + 1 \in 1..n => i \in 1..n - 1)
      BY <1>5
    <3> QED
      BY <1>5, <1>8, <3>1
  <2>2. ASSUME NEW k \in 1..n, k - 1 \in G
        PROVE  k \in G
    <3> SUFFICES ASSUME i + k + 1 \in 1..n PROVE Below(pos, l(i + k + 1), l(i))
      BY <1>5
    <3> DEFINE p == i + (k - 1) + 1
    <3>1. p \in 1..n - 1 /\ p \in 1..n /\ p + 1 = i + k + 1 /\ p + 1 \in 1..n
      BY <1>5
    <3>2. Below(pos, l(p), l(i))
      BY <2>2, <3>1
    <3> HIDE DEF p
    <3>3. l(p) # <<>> /\ Below(pos, l(p + 1), l(p))
      BY <1>8, <3>1
    <3>4. 1 \in DOMAIN l(p)
      <4>1. l(p) \in Seq(Msg)
        BY <1>6, <3>1
      <4> QED
        BY <3>3, <4>1, EmptySeq, LenProperties
    <3>5. Below(pos, l(p + 1), l(i))
      <4> SUFFICES ASSUME NEW a \in DOMAIN l(p + 1), NEW b \in DOMAIN l(i) PROVE pos[l(p + 1)[a]] < pos[l(i)[b]]
        BY DEF Below
      <4>1. pos[l(p + 1)[a]] < pos[l(p)[1]] /\ pos[l(p)[1]] < pos[l(i)[b]]
        BY <3>2, <3>3, <3>4 DEF Below
      <4>2. pos[l(p + 1)[a]] \in Int /\ pos[l(p)[1]] \in Int /\ pos[l(i)[b]] \in Int
        BY <1>6, <3>1, <3>4
      <4> QED
        BY <4>1, <4>2
    <3> QED
      BY <3>1, <3>5
  <2>3. 0..n \subseteq G
    <3>1. n \in Nat
      BY <1>5
    <3> HIDE DEF G
    <3> QED
      BY <2>1, <2>2, <3>1, CountingUp
  <2>4. j - i - 1 \in 0..n /\ i + (j - i - 1) + 1 = j
    BY <1>5, <1>9
  <2> QED
    BY <2>3, <2>4
<1>10. ASSUME NEW j \in 1..n, NEW x \in ToSet(l(j)), x \in Older(ks, j)
       PROVE  FALSE
  <2>1. PICK i \in j + 1..n : x \in ToSet(l(i))
    BY <1>4, <1>10 DEF Older
  <2>2. i \in 1..n /\ j < i
    BY <1>5
  <2>3. PICK a \in DOMAIN l(i), b \in DOMAIN l(j) : x = l(i)[a] /\ x = l(j)[b]
    BY <2>1 DEF ToSet
  <2>4. pos[x] < pos[x] /\ pos[x] \in Int
    BY <1>6, <1>9, <2>2, <2>3 DEF Below
  <2> QED
    BY <2>4
<1> QED
  BY <1>2, <1>4, <1>7, <1>10 DEF PartsApart, Apart

\* What there is: the chunk of the j-th key, those behind and those before it.
LEMMA OlderShown ==
    ASSUME TypeOK, NEW ks, ks = Keys
    PROVE  /\ Len(ks) \in Nat \ {0} /\ ks[1] = HeadKey /\ ks \in Seq(Seq(Msg))
           /\ \A j \in 1..Len(ks) : ToSet(Chunk(ks[j]).list) \subseteq ToSet(Shown)
           /\ \A j \in 1..Len(ks) : Older(ks, j) \subseteq ToSet(Shown)
           /\ \A j \in 1..Len(ks) - 1 : Older(ks, j) = ToSet(Chunk(ks[j + 1]).list) \union Older(ks, j + 1)
           /\ Older(ks, Len(ks)) = {}
           /\ ToSet(Shown) = ToSet(Chunk(HeadKey).list) \union Older(ks, 1)
<1>1. Walk(ks) /\ ToSet(Shown) = UNION {ToSet(Chunk(k).list) : k \in ToSet(ks)}
  BY KeysStored, ShownListed
<1>2. PICK n : n = Len(ks)
  OBVIOUS
<1>3. n \in Nat \ {0} /\ ks[1] = HeadKey /\ ks \in Seq(Seq(Msg)) /\ DOMAIN ks = 1..n
  BY <1>1, <1>2, EmptySeq, LenProperties DEF Walk
<1>4. ToSet(ks) = {ks[i] : i \in 1..n}
  BY <1>3 DEF ToSet
<1>5. \A j \in 1..n : ToSet(Chunk(ks[j]).list) \subseteq ToSet(Shown)
  BY <1>1, <1>4
<1>6. \A j \in 1..n : Older(ks, j) \subseteq ToSet(Shown)
  <2>1. \A j \in 1..n : \A i \in j + 1..n : i \in 1..n
    BY <1>3
  <2> QED
    BY <1>2, <1>5, <2>1 DEF Older
<1>7. ASSUME NEW j \in 0..n - 1
      PROVE  Older(ks, j) = ToSet(Chunk(ks[j + 1]).list) \union Older(ks, j + 1)
  <2> DEFINE p == j + 1
  <2>1. p \in p..n /\ (\A i \in p..n : i = p \/ i \in p + 1..n) /\ (\A i \in p + 1..n : i \in p..n)
    BY <1>3
  <2> HIDE DEF p
  <2>2. UNION {ToSet(Chunk(ks[i]).list) : i \in p..n} = ToSet(Chunk(ks[p]).list) \union UNION {ToSet(Chunk(ks[i]).list) : i \in p + 1..n}
    BY <2>1
  <2> QED
    BY <1>2, <2>2 DEF Older, p
<1>8. Older(ks, n) = {}
  <2>1. n + 1..n = {}
    BY <1>3
  <2> QED
    BY <1>2, <2>1 DEF Older
<1>9. ToSet(Shown) = ToSet(Chunk(HeadKey).list) \union Older(ks, 1)
  <2>1. Older(ks, 0) = UNION {ToSet(Chunk(ks[i]).list) : i \in 1..n}
    BY <1>2 DEF Older
  <2>2. ToSet(Shown) = Older(ks, 0)
    BY <1>1, <1>4, <2>1
  <2>3. 0 \in 0..n - 1
    BY <1>3
  <2>4. Older(ks, 0) = ToSet(Chunk(ks[0 + 1]).list) \union Older(ks, 0 + 1)
    BY <1>7, <2>3
  <2> QED
    BY <1>3, <2>2, <2>4
<1>10. \A j \in 1..n - 1 : j \in 0..n - 1
  BY <1>3
<1> QED
  BY <1>2, <1>3, <1>5, <1>6, <1>7, <1>8, <1>9, <1>10

-----------------------------------------------------------------------------
(* A reader of the messages: what is ahead of him stays ahead.             *)

Reader == [key : Seq(Msg), at : AtMostOne(Msg), got : Seq(Msg), ended : BOOLEAN, again : BOOLEAN,
           base : SUBSET Msg, parts : Nat \ {0}]

\* The last message he has is not in the chunk he reads any more.
Lost(p, l) == p.at # {} /\ p.at \cap ToSet(l) = {}

Ahead(p, l, older) == Before(l, p.at) \union older

\* He reads the list l of n chunks, behind which there are the messages older,
\* of those that are shown.
Follows(p, l, older, n, shown) ==
    /\ p.parts <= n /\ (p.again \/ Lost(p, l) => p.parts < n)
    /\ Lost(p, l) => p.key = HeadKey
    /\ p.at \subseteq ToSet(p.got) /\ ToSet(p.got) \subseteq shown
    /\ p.again \/ IsInjective(p.got)
    /\ p.base \subseteq ToSet(p.got) \union Ahead(p, l, older)
    /\ p.again \/ Lost(p, l) \/ ToSet(p.got) \cap Ahead(p, l, older) = {}

\* A message is inserted into the chunk he reads.
LEMMA FollowsInsert ==
    ASSUME NEW p \in Reader, NEW l \in Seq(Msg), NEW older, NEW n, NEW shown, Follows(p, l, older, n, shown),
           NEW m \in Msg \ shown, NEW i \in 1..Len(l) + 1, NEW u, u = InsertAt(l, i, m),
           IsInjective(l), IsInjective(u)
    PROVE  Follows(p, u, older, n, shown \union {m})
<1>1. p.at \in AtMostOne(Msg) /\ m \notin p.at /\ m \notin ToSet(p.got)
  BY DEF Reader, Follows
<1>2. Before(l, p.at) \subseteq Before(u, p.at) /\ Before(u, p.at) \subseteq Before(l, p.at) \union {m}
  BY <1>1, BeforeEntered
<1>3. ToSet(u) = ToSet(l) \union {m}
  BY InsertedSet
<1>4. Lost(p, u) <=> Lost(p, l)
  BY <1>1, <1>3 DEF Lost
<1>5. /\ Ahead(p, l, older) \subseteq Ahead(p, u, older)
      /\ Ahead(p, u, older) \subseteq Ahead(p, l, older) \union {m}
  BY <1>2 DEF Ahead
<1>6. p.base \subseteq ToSet(p.got) \union Ahead(p, u, older)
  BY <1>5 DEF Follows
<1>7. p.again \/ Lost(p, u) \/ ToSet(p.got) \cap Ahead(p, u, older) = {}
  BY <1>1, <1>4, <1>5 DEF Follows
<1> QED
  BY <1>4, <1>6, <1>7 DEF Follows

\* A message is inserted into another one.
LEMMA FollowsMore ==
    ASSUME NEW p, NEW l, NEW older, NEW n, NEW shown, Follows(p, l, older, n, shown),
           NEW more, shown \subseteq more
    PROVE  Follows(p, l, older, n, more)
  BY DEF Follows

\* A part of the chunk he reads is split off.
LEMMA FollowsCut ==
    ASSUME NEW p \in Reader, NEW l, NEW older, NEW n \in Nat, NEW shown, Follows(p, l, older, n, shown), p.key = HeadKey,
           NEW c \in Seq(Msg), NEW r \in Seq(Msg), l = c \o r, IsInjective(l), IsInjective(r)
    PROVE  Follows(p, r, ToSet(c) \union older, n + 1, shown)
<1>1. p.at \in AtMostOne(Msg) /\ p.parts \in Nat
  BY DEF Reader
<1>2. /\ Before(l, p.at) \subseteq ToSet(c) \union Before(r, p.at)
      /\ p.at = {} \/ p.at \cap ToSet(r) # {} => Before(l, p.at) = ToSet(c) \union Before(r, p.at)
  BY <1>1, BeforeSplit
<1>3. ToSet(l) = ToSet(c) \union ToSet(r)
  BY BothMembers
<1>4. Lost(p, l) => Lost(p, r)
  BY <1>3 DEF Lost
<1>5. /\ Ahead(p, l, older) \subseteq Ahead(p, r, ToSet(c) \union older)
      /\ Lost(p, r) \/ Ahead(p, l, older) = Ahead(p, r, ToSet(c) \union older)
  BY <1>2 DEF Ahead, Lost
<1>6. p.parts <= n + 1 /\ p.parts < n + 1
  BY <1>1 DEF Follows
<1>7. p.base \subseteq ToSet(p.got) \union Ahead(p, r, ToSet(c) \union older)
  BY <1>5 DEF Follows
<1>8. p.again \/ Lost(p, r) \/ ToSet(p.got) \cap Ahead(p, r, ToSet(c) \union older) = {}
  BY <1>4, <1>5 DEF Follows
<1> QED
  BY <1>6, <1>7, <1>8 DEF Follows

\* A part of a chunk he has read is split off.
LEMMA FollowsParts ==
    ASSUME NEW p \in Reader, NEW l, NEW older, NEW n \in Nat, NEW shown, Follows(p, l, older, n, shown)
    PROVE  Follows(p, l, older, n + 1, shown)
<1>1. p.parts \in Nat
  BY DEF Reader
<1>2. p.parts <= n + 1 /\ (p.parts < n => p.parts < n + 1)
  BY <1>1 DEF Follows
<1> QED
  BY <1>2 DEF Follows

LEMMA AppendOnce ==
    ASSUME NEW q \in Seq(Msg), IsInjective(q), NEW m \in Msg, m \notin ToSet(q)
    PROVE  IsInjective(Append(q, m))
<1>1. /\ Len(Append(q, m)) = Len(q) + 1 /\ Append(q, m) \in Seq(Msg) /\ Len(q) \in Nat
      /\ \A i \in 1..Len(q) : Append(q, m)[i] = q[i]
      /\ Append(q, m)[Len(q) + 1] = m
  BY AppendProperties, LenProperties
<1>2. DOMAIN Append(q, m) = 1..Len(q) + 1 /\ DOMAIN q = 1..Len(q)
  BY <1>1, LenProperties
<1>3. \A i \in 1..Len(q) : q[i] # m
  BY <1>2 DEF ToSet
<1>4. \A i \in 1..Len(q) + 1 : i \in 1..Len(q) \/ i = Len(q) + 1
  BY <1>1
<1> SUFFICES ASSUME NEW i \in 1..Len(q) + 1, NEW j \in 1..Len(q) + 1, Append(q, m)[i] = Append(q, m)[j] PROVE i = j
  BY <1>2 DEF IsInjective
<1>5. CASE i \in 1..Len(q) /\ j \in 1..Len(q)
  BY <1>1, <1>2, <1>5 DEF IsInjective
<1>6. CASE ~(i \in 1..Len(q) /\ j \in 1..Len(q))
  BY <1>1, <1>3, <1>4, <1>6
<1> QED
  BY <1>5, <1>6

\* He gets the message before the one he is at, or the latest again.
LEMMA FollowsPage ==
    ASSUME NEW p \in Reader, NEW l \in Seq(Msg), NEW older, NEW n, NEW shown, Follows(p, l, older, n, shown),
           IsInjective(l), ToSet(l) \cap older = {}, ToSet(l) \subseteq shown, Anchor(l, p.at) # 1,
           NEW q \in Reader, q.key = p.key, q.at = {l[Anchor(l, p.at) - 1]}, q.got = Append(p.got, l[Anchor(l, p.at) - 1]),
           q.again = (p.again \/ Lost(p, l)), q.base = p.base, q.parts = p.parts
    PROVE  Follows(q, l, older, n, shown)
<1>1. p.at \in AtMostOne(Msg) /\ p.got \in Seq(Msg)
  BY DEF Reader
<1>2. PICK m \in ToSet(l) : /\ m = l[Anchor(l, p.at) - 1] /\ m \in Msg
                            /\ Before(l, p.at) = Before(l, {m}) \union {m} /\ m \notin Before(l, {m})
  BY <1>1, BeforePaged
<1>3. q.at = {m} /\ q.got = Append(p.got, m)
  BY <1>2
<1>4. ToSet(q.got) = ToSet(p.got) \union {m}
  BY <1>1, <1>2, <1>3, QueueMore
<1>5. ~Lost(q, l)
  BY <1>2, <1>3 DEF Lost
<1>6. Ahead(p, l, older) = Ahead(q, l, older) \union {m} /\ m \notin Ahead(q, l, older)
  BY <1>2, <1>3 DEF Ahead
<1>7. q.again <=> p.again \/ Lost(p, l)
  OBVIOUS
<1>8. q.again \/ (IsInjective(q.got) /\ ToSet(q.got) \cap Ahead(q, l, older) = {})
  <2> SUFFICES ASSUME ~p.again, ~Lost(p, l) PROVE IsInjective(q.got) /\ ToSet(q.got) \cap Ahead(q, l, older) = {}
    BY <1>7
  <2>1. ToSet(p.got) \cap Ahead(p, l, older) = {} /\ IsInjective(p.got)
    BY DEF Follows
  <2>2. m \notin ToSet(p.got)
    BY <1>6, <2>1
  <2> QED
    BY <1>1, <1>2, <1>3, <1>4, <1>6, <2>1, <2>2, AppendOnce
<1>9. q.base \subseteq ToSet(q.got) \union Ahead(q, l, older)
  BY <1>4, <1>6 DEF Follows
<1>10. q.parts <= n /\ (q.again => q.parts < n)
  BY <1>7 DEF Follows
<1>11. q.at \subseteq ToSet(q.got) /\ ToSet(q.got) \subseteq shown
  BY <1>2, <1>3, <1>4 DEF Follows
<1> QED
  BY <1>5, <1>8, <1>9, <1>10, <1>11 DEF Follows

\* Before the first message of a chunk nothing of it is ahead.
LEMMA FirstReached ==
    ASSUME NEW l, NEW at, Anchor(l, at) = 1
    PROVE  Before(l, at) = {}
<1>1. 1..Anchor(l, at) - 1 = {}
  OBVIOUS
<1> QED
  BY <1>1 DEF Before

\* He goes on to the chunk behind.
LEMMA FollowsNext ==
    ASSUME NEW p \in Reader, NEW l \in Seq(Msg), NEW older, NEW n, NEW shown, Follows(p, l, older, n, shown),
           Anchor(l, p.at) = 1, l # <<>>,
           NEW t \in Seq(Msg), NEW oldest, older = ToSet(t) \union oldest,
           NEW q \in Reader, q.at = {}, q.got = p.got, q.again = p.again, q.base = p.base, q.parts = p.parts
    PROVE  Follows(q, t, oldest, n, shown)
<1>1. Before(l, p.at) = {} /\ Ahead(p, l, older) = older
  BY FirstReached DEF Ahead
<1>2. ~Lost(p, l)
  <2> SUFFICES ASSUME Lost(p, l) PROVE FALSE
    OBVIOUS
  <2>1. Anchor(l, p.at) = Len(l) + 1
    BY AnchorLost DEF Lost
  <2>2. Len(l) \in Nat /\ Len(l) # 0
    BY LenProperties, EmptySeq
  <2> QED
    BY <2>1, <2>2
<1>3. ~Lost(q, t) /\ Ahead(q, t, oldest) = older
  <2>1. q.at \cap ToSet(t) = {}
    OBVIOUS
  <2>2. Before(t, q.at) = ToSet(t)
    BY <2>1, AnchorLost
  <2> QED
    BY <2>2 DEF Ahead, Lost
<1> QED
  BY <1>1, <1>2, <1>3 DEF Follows

\* He is at the end.
LEMMA FollowsEnd ==
    ASSUME NEW p, NEW l, NEW n, NEW shown, Follows(p, l, {}, n, shown), Anchor(l, p.at) = 1
    PROVE  p.base \subseteq ToSet(p.got)
  BY FirstReached DEF Follows, Ahead

\* The reader p is in the chain ks.
InChain(ks, p) ==
    \E j \in 1..Len(ks) :
        ks[j] = p.key /\ Follows(p, Chunk(p.key).list, Older(ks, j), Len(ks), ToSet(Shown))

Following(p) == \E ks \in {Keys} : InChain(ks, p)

LEMMA KeysStill ==
    ASSUME TypeOK, TypeOK', ChainInv, ChainInv', ~torn, ~torn', Unseen
    PROVE  Keys' = Keys
<1>1. PICK ks : ks = Keys
  OBVIOUS
<1>2. Ends(ks)
  BY <1>1, KeysEnd
<1>3. \A k : Behind(k)' = Behind(k)
  BY DEF Unseen, Behind, Stored
<1>4. Ends(ks)'
  BY <1>2, <1>3 DEF Ends, Walk
<1> QED
  BY <1>1, <1>4, ChainAfter

LEMMA FollowStill ==
    ASSUME TypeOK, TypeOK', ChainInv, ChainInv', ~torn, ~torn', Unseen, NEW p, Following(p)
    PROVE  Following(p)'
<1>1. PICK ks : ks = Keys /\ InChain(ks, p)
  BY DEF Following
<1>2. Keys' = ks /\ Shown' = Shown
  BY <1>1, KeysStill, ShownStill
<1>3. \A k : Chunk(k)' = Chunk(k)
  BY DEF Unseen
<1>4. \A j : Older(ks, j)' = Older(ks, j)
  BY <1>3 DEF Older
<1>5. InChain(ks, p)'
  BY <1>1, <1>2, <1>3, <1>4 DEF InChain
<1> QED
  BY <1>2, <1>5 DEF Following

LEMMA FollowInsert ==
    ASSUME TypeOK, TypeOK', FreshInv, ChainInv, ChainInv', HoldInv, ~torn, ~torn', Insert,
           NEW p \in Reader, Following(p)
    PROVE  Following(p)'
<1>1. PICK ks : ks = Keys /\ InChain(ks, p)
  BY DEF Following
<1>2. PICK j \in 1..Len(ks) : ks[j] = p.key /\ Follows(p, Chunk(p.key).list, Older(ks, j), Len(ks), ToSet(Shown))
  BY <1>1 DEF InChain
<1>3. PICK m : m = Head(toConv)
  OBVIOUS
<1>4. PICK l : l = Chunk(HeadKey).list
  OBVIOUS
<1>5. l \in Seq(Msg)
  BY <1>4, ChunkTypes DEF ChunkType
<1>6. PICK i \in 1..Len(l) + 1 : Chunk(HeadKey)'.list = InsertAt(l, i, m)
  BY <1>3, <1>4, InsertKeys
<1>7. Keys' = ks /\ m \in Msg \ ToSet(Shown) /\ \A k : k # HeadKey => Chunk(k)' = Chunk(k)
  BY <1>1, <1>3, InsertKeys
<1>8. ToSet(Shown') = ToSet(Shown) \union {m}
  <2>1. PICK h \in 1..Len(Shown) + 1 : Shown' = InsertAt(Shown, h, m)
    BY <1>3, ShownInsert
  <2>2. Shown \in Seq(Msg)
    BY ShownSeq
  <2> QED
    BY <1>7, <2>1, <2>2, InsertedSet
<1>9. Ends(ks) /\ Len(ks) \in Nat \ {0} /\ ks[1] = HeadKey
  BY <1>1, KeysEnd, OlderShown
<1>10. \A h \in 2..Len(ks) : ks[h] # HeadKey
  <2>1. PICK pos \in [Msg -> Int] : OrderInv(pos)
    BY DEF ChainInv
  <2> QED
    BY <1>9, <2>1, WalkDown DEF Ends
<1>11. Older(ks, j)' = Older(ks, j)
  <2>1. \A h \in j + 1..Len(ks) : h \in 2..Len(ks)
    BY <1>9
  <2>2. \A h \in j + 1..Len(ks) : Chunk(ks[h])' = Chunk(ks[h])
    BY <1>7, <1>10, <2>1
  <2> QED
    BY <2>2 DEF Older
<1>12. Follows(p, Chunk(p.key)'.list, Older(ks, j), Len(ks), ToSet(Shown) \union {m})
  <2>1. CASE p.key = HeadKey
    <3>1. PICK u : u = InsertAt(l, i, m)
      OBVIOUS
    <3>2. IsInjective(l)
      BY <1>1, <1>2, <1>4, <2>1, ChunksApart DEF PartsApart, Apart
    <3>3. (TypeOK /\ ChainInv /\ ~torn => PartsApart)'
      BY ChunksApart, PTL
    <3>4. Apart(ks)'
      BY <1>7, <3>3 DEF PartsApart
    <3>5. IsInjective(u)
      <4>1. IsInjective(Chunk(ks[j])'.list)
        BY <3>4 DEF Apart
      <4> QED
        BY <1>2, <1>6, <2>1, <3>1, <4>1
    <3>6. Follows(p, l, Older(ks, j), Len(ks), ToSet(Shown))
      BY <1>2, <1>4, <2>1
    <3>7. Follows(p, u, Older(ks, j), Len(ks), ToSet(Shown) \union {m})
      BY ONLY <1>5, <1>6, <1>7, <3>1, <3>2, <3>5, <3>6, p \in Reader, FollowsInsert
    <3> QED
      BY <1>6, <2>1, <3>1, <3>7
  <2>2. CASE p.key # HeadKey
    <3>1. Chunk(p.key)' = Chunk(p.key)
      BY <1>7, <2>2
    <3>2. ToSet(Shown) \subseteq ToSet(Shown) \union {m}
      OBVIOUS
    <3>3. Follows(p, Chunk(p.key).list, Older(ks, j), Len(ks), ToSet(Shown) \union {m})
      BY <1>2, <3>2, FollowsMore
    <3> QED
      BY <3>1, <3>3
  <2> QED
    BY <2>1, <2>2
<1>13. InChain(ks, p)'
  BY <1>2, <1>8, <1>11, <1>12 DEF InChain
<1> QED
  BY <1>7, <1>13 DEF Following

ChunksTyped == \A k : Chunk(k) \in ChunkType

LEMMA ChunksAre == TypeOK => ChunksTyped
  BY ChunkTypes DEF ChunksTyped

LEMMA FollowSplit ==
    ASSUME TypeOK, TypeOK', ChainInv, ChainInv', ~torn, ~torn', Shown' = Shown, SplitSeen,
           NEW p \in Reader, Following(p)
    PROVE  Following(p)'
<1>1. PICK ks : ks = Keys /\ \E cut \in Seq(Msg) : PutBetween(ks, cut) /\ KeysBetween(ks, cut)
  BY DEF SplitSeen
<1>2. PICK cut \in Seq(Msg) : PutBetween(ks, cut) /\ KeysBetween(ks, cut)
  BY <1>1
<1>3. PICK j \in 1..Len(ks) : ks[j] = p.key /\ Follows(p, Chunk(p.key).list, Older(ks, j), Len(ks), ToSet(Shown))
  BY <1>1 DEF Following, InChain
<1>4. PICK js : js = Keys'
  OBVIOUS
<1>5. PICK n : n = Len(ks)
  OBVIOUS
<1>6. n \in Nat \ {0} /\ ks[1] = HeadKey /\ j \in 1..n
  BY <1>1, <1>3, <1>5, OlderShown
<1>7. Len(js) = n + 1 /\ js[1] = HeadKey /\ js[2] = cut /\ \A i \in 2..n : js[i + 1] = ks[i]
  BY <1>2, <1>4, <1>5 DEF KeysBetween
<1>8. PICK c, r : c = Chunk(cut)'.list /\ r = Chunk(HeadKey)'.list
  OBVIOUS
<1>9. /\ c \o r = Chunk(HeadKey).list
      /\ \A i \in 2..n : Chunk(ks[i])'.list = Chunk(ks[i]).list
  BY <1>2, <1>5, <1>8 DEF PutBetween
<1>10. ASSUME NEW k \in 1..n
       PROVE  Older(js, k + 1)' = Older(ks, k)
  <2>1. ASSUME NEW i \in k + 1..n
        PROVE  i + 1 \in (k + 1) + 1..n + 1 /\ Chunk(js[i + 1])'.list = Chunk(ks[i]).list
    <3>1. i \in 2..n /\ i + 1 \in (k + 1) + 1..n + 1
      BY <1>6
    <3>2. js[i + 1] = ks[i]
      BY <1>7, <3>1
    <3> QED
      BY <1>9, <3>1, <3>2
  <2>2. ASSUME NEW i \in (k + 1) + 1..n + 1
        PROVE  \E h \in k + 1..n : Chunk(js[i])'.list = Chunk(ks[h]).list
    <3> DEFINE h == i - 1
    <3>1. h \in k + 1..n /\ h + 1 = i
      BY <1>6
    <3> HIDE DEF h
    <3>2. Chunk(js[h + 1])'.list = Chunk(ks[h]).list
      BY <2>1, <3>1
    <3> QED
      BY <3>1, <3>2
  <2>3. Older(js, k + 1)' = UNION {ToSet(Chunk(js[i])'.list) : i \in (k + 1) + 1..n + 1}
    BY <1>7 DEF Older
  <2>4. Older(ks, k) = UNION {ToSet(Chunk(ks[i]).list) : i \in k + 1..n}
    BY <1>5 DEF Older
  <2>5. PICK x, y : x = Older(js, k + 1)' /\ y = Older(ks, k)
    OBVIOUS
  <2>6. x = UNION {ToSet(Chunk(js[i])'.list) : i \in (k + 1) + 1..n + 1} /\ y = UNION {ToSet(Chunk(ks[i]).list) : i \in k + 1..n}
    BY <2>3, <2>4, <2>5
  <2>7. x \subseteq y
    BY <2>2, <2>6
  <2>8. y \subseteq x
    <3> SUFFICES ASSUME NEW i \in k + 1..n PROVE ToSet(Chunk(ks[i]).list) \subseteq x
      BY <2>6
    <3> DEFINE h == i + 1
    <3>1. h \in (k + 1) + 1..n + 1 /\ Chunk(js[h])'.list = Chunk(ks[i]).list
      BY <2>1
    <3> HIDE DEF h
    <3> QED
      BY <2>6, <3>1
  <2> QED
    BY <2>5, <2>7, <2>8
<1>11. CASE j = 1
  <2>1. p.key = HeadKey
    BY <1>3, <1>6, <1>11
  <2>2. Older(js, 1)' = ToSet(c) \union Older(ks, 1)
    <3>1. Older(js, 1)' = UNION {ToSet(Chunk(js[i])'.list) : i \in 2..n + 1}
      <4>1. 1 + 1 = 2
        OBVIOUS
      <4> QED
        BY <1>7, <4>1 DEF Older
    <3>2. Older(js, 2)' = UNION {ToSet(Chunk(js[i])'.list) : i \in 3..n + 1}
      <4>1. 2 + 1 = 3
        OBVIOUS
      <4> QED
        BY <1>7, <4>1 DEF Older
    <3>3. 2 \in 2..n + 1 /\ (\A i \in 2..n + 1 : i = 2 \/ i \in 3..n + 1) /\ (\A i \in 3..n + 1 : i \in 2..n + 1)
      BY <1>6
    <3>4. Older(js, 1)' = ToSet(Chunk(js[2])'.list) \union Older(js, 2)'
      BY <3>1, <3>2, <3>3
    <3>5. Older(js, 1 + 1)' = Older(ks, 1)
      BY <1>6, <1>10
    <3>6. 1 + 1 = 2
      OBVIOUS
    <3>7. Older(js, 2)' = Older(ks, 1)
      BY <3>5, <3>6
    <3> QED
      BY <1>7, <1>8, <3>4, <3>7
  <2>3. PICK l : l = Chunk(HeadKey).list
    OBVIOUS
  <2>4. IsInjective(l)
    BY <1>1, <1>3, <2>1, <2>3, ChunksApart DEF PartsApart, Apart
  <2>5. IsInjective(r)
    <3>1. (TypeOK /\ ChainInv /\ ~torn => PartsApart)'
      BY ChunksApart, PTL
    <3>2. Apart(js)'
      BY <1>4, <3>1 DEF PartsApart
    <3>3. 1 \in 1..Len(js)
      BY <1>6, <1>7
    <3>4. IsInjective(Chunk(js[1])'.list)
      BY <3>2, <3>3 DEF Apart
    <3> QED
      BY <1>7, <1>8, <3>4
  <2>6. c \in Seq(Msg) /\ r \in Seq(Msg)
    <3>1. Chunk(cut)' \in ChunkType /\ Chunk(HeadKey)' \in ChunkType
      <4>1. (TypeOK => ChunksTyped)'
        BY ChunksAre, PTL
      <4> QED
        BY <4>1 DEF ChunksTyped
    <3> QED
      BY <1>8, <3>1 DEF ChunkType
  <2>7. Follows(p, l, Older(ks, 1), n, ToSet(Shown)) /\ l = c \o r /\ n \in Nat
    BY <1>3, <1>5, <1>6, <1>9, <1>11, <2>1, <2>3
  <2>8. Follows(p, r, ToSet(c) \union Older(ks, 1), n + 1, ToSet(Shown))
    BY ONLY <2>1, <2>4, <2>5, <2>6, <2>7, p \in Reader, FollowsCut
  <2>9. InChain(js, p)'
    <3>1. 1 \in 1..Len(js) /\ js[1] = p.key
      BY <1>6, <1>7, <2>1
    <3>2. Follows(p, Chunk(p.key)'.list, Older(js, 1)', Len(js), ToSet(Shown'))
      BY <1>7, <1>8, <2>1, <2>2, <2>8
    <3> QED
      BY <3>1, <3>2 DEF InChain
  <2> QED
    BY <1>4, <2>9 DEF Following
<1>12. CASE j # 1
  <2>1. j \in 2..n /\ j + 1 \in 1..Len(js) /\ js[j + 1] = p.key
    <3>1. j \in 2..n /\ j + 1 \in 1..n + 1
      BY <1>6, <1>12
    <3> QED
      BY <1>3, <1>7, <3>1
  <2>2. Follows(p, Chunk(p.key).list, Older(ks, j), n + 1, ToSet(Shown))
    <3>1. Follows(p, Chunk(p.key).list, Older(ks, j), n, ToSet(Shown)) /\ n \in Nat
      BY <1>3, <1>5, <1>6
    <3> QED
      BY <3>1, FollowsParts
  <2>3. Chunk(p.key)'.list = Chunk(p.key).list /\ Older(js, j + 1)' = Older(ks, j)
    BY <1>3, <1>6, <1>9, <1>10, <2>1
  <2>4. InChain(js, p)'
    BY <1>7, <2>1, <2>2, <2>3 DEF InChain
  <2> QED
    BY <1>4, <2>4 DEF Following
<1> QED
  BY <1>11, <1>12

LEMMA PageFollows ==
    ASSUME TypeOK, ChainInv, ~torn, NEW p \in Reader, Following(p),
           NEW l, l = Chunk(p.key).list, Anchor(l, p.at) # 1,
           NEW q, q = [p EXCEPT !.at = {l[Anchor(l, p.at) - 1]}, !.got = Append(@, l[Anchor(l, p.at) - 1]),
                                !.again = @ \/ (p.at # {} /\ Anchor(l, p.at) > Len(l))]
    PROVE  q \in Reader /\ Following(q)
<1>1. PICK ks : ks = Keys /\ InChain(ks, p)
  BY DEF Following
<1>2. PICK j \in 1..Len(ks) : ks[j] = p.key /\ Follows(p, l, Older(ks, j), Len(ks), ToSet(Shown))
  BY <1>1 DEF InChain
<1>3. l \in Seq(Msg) /\ p.at \in AtMostOne(Msg) /\ p.got \in Seq(Msg) /\ p.again \in BOOLEAN
  BY ChunkTypes DEF ChunkType, Reader
<1>4. IsInjective(l) /\ ToSet(l) \cap Older(ks, j) = {}
  BY <1>1, <1>2, ChunksApart DEF PartsApart, Apart
<1>5. ToSet(l) \subseteq ToSet(Shown)
  BY <1>1, <1>2, OlderShown
<1>6. PICK m \in ToSet(l) : m = l[Anchor(l, p.at) - 1] /\ m \in Msg
  BY <1>3, <1>4, BeforePaged
<1>7. p.at # {} /\ Anchor(l, p.at) > Len(l) <=> Lost(p, l)
  <2>1. Len(l) \in Nat
    BY <1>3, LenProperties
  <2>2. CASE p.at \cap ToSet(l) = {}
    <3>1. Anchor(l, p.at) = Len(l) + 1
      BY <1>3, <2>2, AnchorLost
    <3>2. Anchor(l, p.at) > Len(l)
      BY <2>1, <3>1
    <3> QED
      BY <2>2, <3>2 DEF Lost
  <2>3. CASE \E h \in 1..Len(l) : p.at = {l[h]} /\ Anchor(l, p.at) = h
    <3>1. PICK h \in 1..Len(l) : p.at = {l[h]} /\ Anchor(l, p.at) = h
      BY <2>3
    <3>2. l[h] \in ToSet(l)
      BY <1>3, LenProperties DEF ToSet
    <3>3. ~(Anchor(l, p.at) > Len(l))
      BY <2>1, <3>1
    <3> QED
      BY <3>1, <3>2, <3>3 DEF Lost
  <2> QED
    BY <1>3, <1>4, <2>2, <2>3, AtSomewhere DEF AtCases
<1>8. PICK b : b = (p.at # {} /\ Anchor(l, p.at) > Len(l))
  OBVIOUS
<1>9. b \in BOOLEAN /\ (b <=> Lost(p, l)) /\ q = [p EXCEPT !.at = {m}, !.got = Append(@, m), !.again = @ \/ b]
  BY <1>6, <1>7, <1>8
<1>10. {m} \in AtMostOne(Msg) /\ Append(p.got, m) \in Seq(Msg)
  BY <1>3, <1>6, AppendProperties DEF AtMostOne
<1>11. /\ q \in Reader /\ q.key = p.key /\ q.at = {m} /\ q.got = Append(p.got, m)
       /\ q.again = (p.again \/ b) /\ q.base = p.base /\ q.parts = p.parts
  BY ONLY p \in Reader, <1>3, <1>9, <1>10 DEF Reader
<1>12. q.again = (p.again \/ Lost(p, l))
  BY <1>9, <1>11
<1>13. Follows(q, l, Older(ks, j), Len(ks), ToSet(Shown))
  <2>1. q.at = {l[Anchor(l, p.at) - 1]} /\ q.got = Append(p.got, l[Anchor(l, p.at) - 1])
    BY <1>6, <1>11
  <2>2. p \in Reader /\ Anchor(l, p.at) # 1
    OBVIOUS
  <2> QED
    BY ONLY <1>2, <1>3, <1>4, <1>5, <1>11, <1>12, <2>1, <2>2, FollowsPage
<1>14. InChain(ks, q)
  BY <1>2, <1>11, <1>13 DEF InChain
<1> QED
  BY <1>1, <1>11, <1>14 DEF Following

\* The keys of the chain lead on as far as a tail key does.
LEMMA TailReached ==
    ASSUME TypeOK, ChainInv, ~torn, NEW ks, ks = Keys, NEW j \in 1..Len(ks)
    PROVE  /\ Chunk(ks[j]).tailKey = {} => j = Len(ks)
           /\ \A k \in Chunk(ks[j]).tailKey : /\ k \in Seq(Msg) /\ Chunk(ks[j]).list # <<>>
                                              /\ j \in 1..Len(ks) - 1 /\ ks[j + 1] = k
<1>1. Ends(ks) /\ Walk(ks) /\ ToSet(ks) \subseteq Stored \union {HeadKey} /\ Len(ks) \in Nat \ {0}
  BY KeysEnd, KeysStored, OlderShown
<1>2. j \in 1..Len(ks) - 1 => ks[j + 1] \in Behind(ks[j])
  BY <1>1 DEF Walk
<1>3. j # Len(ks) => j \in 1..Len(ks) - 1
  <2>1. PICK n : n = Len(ks)
    OBVIOUS
  <2>2. n \in Nat /\ j \in 1..n
    BY <1>1, <2>1
  <2>3. j # n => j \in 1..n - 1
    BY ONLY <2>2
  <2> QED
    BY <2>1, <2>3
<1>4. Behind(ks[j]) \subseteq Chunk(ks[j]).tailKey
  BY DEF Behind
<1>5. ASSUME NEW k \in Chunk(ks[j]).tailKey
      PROVE  k \in Seq(Msg) /\ Chunk(ks[j]).list # <<>> /\ j \in 1..Len(ks) - 1 /\ ks[j + 1] = k
  <2>1. PICK pos \in [Msg -> Int] : OrderInv(pos)
    BY DEF ChainInv
  <2>2. ks[j] \in Stored \union {HeadKey}
    BY <1>1, LenProperties DEF ToSet, Walk
  <2>3. Fine(ks[j], Chunk(ks[j]), pos, Stored)
    BY <2>1, <2>2, ChunkFine
  <2>4. k \in Stored /\ Chunk(ks[j]).list # <<>>
    BY <2>3 DEF Fine
  <2>5. Chunk(ks[j]).tailKey \in AtMostOne(SplitKey)
    BY ChunkTypes DEF ChunkType
  <2>6. k \in Behind(ks[j]) /\ k \in Seq(Msg)
    BY <2>4, <2>5 DEF Behind, Stored, AtMostOne, SplitKey
  <2>7. j # Len(ks)
    BY <1>1, <2>6 DEF Ends
  <2>8. ks[j + 1] \in Chunk(ks[j]).tailKey
    BY <1>2, <1>3, <1>4, <2>7
  <2>9. ks[j + 1] = k
    BY <2>5, <2>8 DEF AtMostOne
  <2> QED
    BY <1>3, <2>4, <2>6, <2>7, <2>9
<1> QED
  BY <1>2, <1>3, <1>4, <1>5

LEMMA NextFollows ==
    ASSUME TypeOK, ChainInv, ~torn, NEW p \in Reader, Following(p), Anchor(Chunk(p.key).list, p.at) = 1,
           NEW k \in Chunk(p.key).tailKey, NEW q, q = [p EXCEPT !.key = k, !.at = {}]
    PROVE  q \in Reader /\ Following(q)
<1>1. PICK ks : ks = Keys /\ InChain(ks, p)
  BY DEF Following
<1>2. PICK l : l = Chunk(p.key).list
  OBVIOUS
<1>3. PICK j \in 1..Len(ks) : ks[j] = p.key /\ Follows(p, l, Older(ks, j), Len(ks), ToSet(Shown))
  BY <1>1, <1>2 DEF InChain
<1>4. k \in Seq(Msg) /\ l # <<>> /\ j \in 1..Len(ks) - 1 /\ ks[j + 1] = k
  BY <1>1, <1>2, <1>3, TailReached
<1>5. PICK t, oldest : t = Chunk(k).list /\ oldest = Older(ks, j + 1)
  OBVIOUS
<1>6. Older(ks, j) = ToSet(t) \union oldest
  BY <1>1, <1>4, <1>5, OlderShown
<1>7. t \in Seq(Msg) /\ l \in Seq(Msg)
  BY <1>2, <1>5, ChunkTypes DEF ChunkType
<1>8. {} \in AtMostOne(Msg)
  BY DEF AtMostOne
<1>9. q \in Reader /\ q.key = k /\ q.at = {} /\ q.got = p.got /\ q.again = p.again /\ q.base = p.base /\ q.parts = p.parts
  BY <1>4, <1>8 DEF Reader
<1>10. Follows(q, t, oldest, Len(ks), ToSet(Shown))
  <2>1. p \in Reader /\ Anchor(l, p.at) = 1
    BY <1>2
  <2> QED
    BY ONLY <1>3, <1>4, <1>6, <1>7, <1>9, <2>1, FollowsNext
<1>11. j + 1 \in 1..Len(ks)
  <2>1. PICK n : n = Len(ks)
    OBVIOUS
  <2>2. n \in Nat /\ j \in 1..n - 1
    BY <1>1, <1>4, <2>1, OlderShown
  <2>3. j + 1 \in 1..n
    BY ONLY <2>2
  <2> QED
    BY <2>1, <2>3
<1>12. InChain(ks, q)
  BY <1>4, <1>5, <1>9, <1>10, <1>11 DEF InChain
<1> QED
  BY <1>1, <1>9, <1>12 DEF Following

LEMMA EndFollows ==
    ASSUME TypeOK, ChainInv, ~torn, NEW p \in Reader, Following(p), Anchor(Chunk(p.key).list, p.at) = 1,
           Chunk(p.key).tailKey = {}, NEW q, q = [p EXCEPT !.ended = TRUE]
    PROVE  q \in Reader /\ Following(q) /\ q.base \subseteq ToSet(q.got)
<1>1. PICK ks : ks = Keys /\ InChain(ks, p)
  BY DEF Following
<1>2. PICK l : l = Chunk(p.key).list
  OBVIOUS
<1>3. PICK j \in 1..Len(ks) : ks[j] = p.key /\ Follows(p, l, Older(ks, j), Len(ks), ToSet(Shown))
  BY <1>1, <1>2 DEF InChain
<1>4. j = Len(ks)
  BY <1>1, <1>3, TailReached
<1>5. Older(ks, j) = {}
  BY <1>1, <1>4, OlderShown
<1>6. Follows(p, l, {}, Len(ks), ToSet(Shown))
  BY <1>3, <1>5
<1>7. p.base \subseteq ToSet(p.got)
  BY <1>2, <1>6, FollowsEnd
<1>8. /\ q \in Reader /\ q.key = p.key /\ q.at = p.at /\ q.got = p.got /\ q.again = p.again
      /\ q.base = p.base /\ q.parts = p.parts
  BY DEF Reader
<1>9. Follows(q, l, Older(ks, j), Len(ks), ToSet(Shown))
  BY <1>3, <1>8 DEF Follows, Lost, Ahead
<1>10. InChain(ks, q)
  BY <1>2, <1>3, <1>8, <1>9 DEF InChain
<1> QED
  BY <1>1, <1>7, <1>8, <1>10 DEF Following

\* He begins with the latest messages.
LEMMA OpenFollows ==
    ASSUME TypeOK, ChainInv, ~torn,
           NEW q, q = [key |-> HeadKey, at |-> {}, got |-> <<>>, ended |-> FALSE, again |-> FALSE,
                       base |-> ToSet(Shown), parts |-> Len(Keys)]
    PROVE  q \in Reader /\ Following(q)
<1>1. PICK ks : ks = Keys
  OBVIOUS
<1>2. /\ Len(ks) \in Nat \ {0} /\ ks[1] = HeadKey
      /\ ToSet(Shown) = ToSet(Chunk(HeadKey).list) \union Older(ks, 1)
  BY <1>1, OlderShown
<1>3. Shown \in Seq(Msg) /\ ToSet(Shown) \subseteq Msg
  <2>1. Shown \in Seq(Msg)
    BY ShownSeq
  <2> QED
    BY <2>1, LenProperties, ElementOfSeq DEF ToSet
<1>4. /\ HeadKey \in Seq(Msg) /\ {} \in AtMostOne(Msg) /\ <<>> \in Seq(Msg)
      /\ ToSet(<<>>) = {} /\ IsInjective(<<>>)
  BY DEF HeadKey, AtMostOne, ToSet, IsInjective
<1>5. /\ q \in Reader /\ q.key = HeadKey /\ q.at = {} /\ q.got = <<>> /\ q.again = FALSE
      /\ q.base = ToSet(Shown) /\ q.parts = Len(ks)
  BY <1>1, <1>2, <1>3, <1>4 DEF Reader
<1>6. PICK l : l = Chunk(HeadKey).list
  OBVIOUS
<1>7. l \in Seq(Msg)
  BY <1>6, ChunkTypes DEF ChunkType
<1>8. ~Lost(q, l) /\ Ahead(q, l, Older(ks, 1)) = ToSet(Shown)
  <2>1. Before(l, q.at) = ToSet(l)
    BY <1>5, <1>7, AnchorLost
  <2> QED
    BY <1>2, <1>5, <1>6, <2>1 DEF Lost, Ahead
<1>9. Follows(q, l, Older(ks, 1), Len(ks), ToSet(Shown))
  <2>1. q.parts <= Len(ks)
    BY <1>2, <1>5
  <2> QED
    BY <1>4, <1>5, <1>8, <2>1 DEF Follows
<1>10. InChain(ks, q)
  <2>1. 1 \in 1..Len(ks)
    BY <1>2
  <2> QED
    BY <1>2, <1>5, <1>6, <1>9, <2>1 DEF InChain
<1> QED
  BY <1>1, <1>5, <1>10 DEF Following

\* The reader p has missed nothing.
Served(p) == p \in Reader /\ Following(p) /\ (p.ended => p.base \subseteq ToSet(p.got))

PagerInv == ~harmed => \A p \in pager : Served(p)

LEMMA PagingIsNext == [PagingNext]_pagingVars => [Next]_vars
  BY DEF PagingNext, Open, Page, pagingVars

\* What the domains do leaves nothing out.
LEMMA ServedOn ==
    ASSUME ConvInv, ConvInv', [Next]_vars, ~harmed', NEW p, Served(p)
    PROVE  Served(p)'
<1>0. /\ TypeOK /\ FreshInv /\ ChainInv /\ HoldInv
      /\ TypeOK' /\ ChainInv' /\ HoldInv'
  BY DEF ConvInv
<1>1. ~harmed /\ ~torn /\ ~torn' /\ (Shown' = Shown \/ Insert)
  BY <1>0, ShownCases
<1>2. p \in Reader /\ Following(p)
  BY DEF Served
<1>3. Following(p)'
  <2>1. Unseen \/ Insert \/ SplitFirst \/ SplitAgain
    BY <1>0, HoldCases
  <2>2. CASE Unseen
    BY <1>0, <1>1, <1>2, <2>2, FollowStill
  <2>3. CASE Insert
    BY <1>0, <1>1, <1>2, <2>3, FollowInsert
  <2>4. CASE SplitFirst \/ SplitAgain
    <3>1. Shown' = Shown /\ SplitSeen
      BY <1>0, <1>1, <2>4, ShownSplitFirst, ShownSplitAgain
    <3> QED
      BY <1>0, <1>1, <1>2, <3>1, FollowSplit
  <2> QED
    BY <2>1, <2>2, <2>3, <2>4
<1> QED
  BY <1>3 DEF Served

\* Nor does a page.
LEMMA ServedPage ==
    ASSUME ConvInv, ~torn, PagerInv, ~harmed, Open \/ Page, NEW q \in pager'
    PROVE  Served(q)
<1>0. TypeOK /\ ChainInv
  BY DEF ConvInv
<1>1. CASE Open
  <2>1. q = [key |-> HeadKey, at |-> {}, got |-> <<>>, ended |-> FALSE, again |-> FALSE,
             base |-> ToSet(Shown), parts |-> Len(Keys)]
    BY <1>1 DEF Open
  <2>2. ~q.ended
    BY <2>1
  <2> QED
    BY <1>0, <2>1, <2>2, OpenFollows DEF Served
<1>2. CASE Page
  <2> DEFINE anchor(p) == Anchor(Chunk(p.key).list, p.at)
             lost(p)   == p.at # {} /\ anchor(p) > Len(Chunk(p.key).list)
             paged(p)  == LET m == Chunk(p.key).list[anchor(p) - 1]
                          IN  {[p EXCEPT !.at = {m}, !.got = Append(@, m), !.again = @ \/ lost(p)]}
  <2>1. PICK p \in pager : /\ ~p.ended
                           /\ pager' = IF anchor(p) = 1 THEN NextChunk(p, Chunk(p.key)) ELSE paged(p)
    BY <1>2 DEF Page
  <2> HIDE DEF anchor, lost, paged
  <2>2. p \in Reader /\ Following(p)
    BY DEF PagerInv, Served
  <2>3. CASE anchor(p) # 1
    <3>1. PICK l : l = Chunk(p.key).list
      OBVIOUS
    <3>2. Anchor(l, p.at) # 1
      BY <2>3, <3>1 DEF anchor
    <3>3. q = [p EXCEPT !.at = {l[Anchor(l, p.at) - 1]}, !.got = Append(@, l[Anchor(l, p.at) - 1]),
                        !.again = @ \/ (p.at # {} /\ Anchor(l, p.at) > Len(l))]
      BY <2>1, <2>3, <3>1 DEF paged, lost, anchor
    <3>4. q \in Reader /\ Following(q)
      BY <1>0, <2>2, <3>1, <3>2, <3>3, PageFollows
    <3>5. q.ended = p.ended
      BY <2>2, <3>3 DEF Reader
    <3> QED
      BY <2>1, <3>4, <3>5 DEF Served
  <2>4. CASE anchor(p) = 1 /\ Chunk(p.key).tailKey = {}
    <3>1. q = [p EXCEPT !.ended = TRUE]
      BY <2>1, <2>4 DEF NextChunk
    <3>2. Anchor(Chunk(p.key).list, p.at) = 1
      BY <2>4 DEF anchor
    <3> QED
      BY <1>0, <2>2, <2>4, <3>1, <3>2, EndFollows DEF Served
  <2>5. CASE anchor(p) = 1 /\ Chunk(p.key).tailKey # {}
    <3>1. PICK k \in Chunk(p.key).tailKey : q = [p EXCEPT !.key = k, !.at = {}]
      BY <2>1, <2>5 DEF NextChunk
    <3>2. Anchor(Chunk(p.key).list, p.at) = 1
      BY <2>5 DEF anchor
    <3>3. q \in Reader /\ Following(q)
      BY <1>0, <2>2, <3>1, <3>2, NextFollows
    <3>4. q.ended = p.ended
      BY <2>2, <3>1 DEF Reader
    <3> QED
      BY <2>1, <3>3, <3>4 DEF Served
  <2> QED
    BY <2>3, <2>4, <2>5
<1> QED
  BY <1>1, <1>2

LEMMA PagerStep ==
    ASSUME ConvInv, ConvInv', PagerInv, [PagingNext]_pagingVars
    PROVE  PagerInv'
<1> SUFFICES ASSUME ~harmed', NEW q \in pager' PROVE Served(q)'
  BY DEF PagerInv
<1>1. [Next]_vars
  BY PagingIsNext
<1>2. ~harmed
  BY <1>1, LostStays
<1>3. ~torn
  BY <1>2 DEF ConvInv, HoldInv
<1>4. Served(q)
  <2>1. CASE Open \/ Page
    BY <1>2, <1>3, <2>1, ServedPage
  <2>2. CASE UNCHANGED pager
    BY <1>2, <2>2 DEF PagerInv
  <2> QED
    BY <2>1, <2>2 DEF PagingNext, pagingVars
<1> QED
  BY <1>1, <1>4, ServedOn

LEMMA ServedAll == PagerInv => PagesComplete
<1> SUFFICES ASSUME PagerInv, NEW p \in pager, ~harmed
             PROVE  /\ p.ended => p.base \subseteq ToSet(p.got)
                    /\ p.again \/ IsInjective(p.got)
                    /\ p.again => Len(Keys) > p.parts
  BY DEF PagesComplete
<1>1. p \in Reader /\ Following(p) /\ (p.ended => p.base \subseteq ToSet(p.got))
  BY DEF PagerInv, Served
<1>2. p.again \/ IsInjective(p.got)
  BY <1>1 DEF Following, InChain, Follows
<1>3. p.again => p.parts < Len(Keys)
  BY <1>1 DEF Following, InChain, Follows
<1> QED
  BY <1>1, <1>2, <1>3

\* Whoever pages to the end (getMessageList) has got every message that was
\* shown as he began, in whatever order insertions, splits, writes and his
\* pages come; none twice unless the chunk he read was split meanwhile.
THEOREM PagesCompleteInvariant == PagingSpec => []PagesComplete
<1>1. PagingInit => ConvInv /\ PagerInv
  <2>1. Init => ConvInv
    BY TypesInit, TurnInit, FreshInit, ChainInit, HoldInit DEF ConvInv
  <2> QED
    BY <2>1 DEF PagingInit, PagerInv
<1>2. ConvInv /\ [PagingNext]_pagingVars => ConvInv'
  BY PagingIsNext, TypesStep, TurnStep, FreshStep, ChainStep, HoldStep DEF ConvInv
<1>3. ConvInv /\ ConvInv' /\ PagerInv /\ [PagingNext]_pagingVars => PagerInv'
  BY PagerStep
<1>4. PagerInv => PagesComplete
  BY ServedAll
<1> QED
  BY <1>1, <1>2, <1>3, <1>4, PTL DEF PagingSpec
=============================================================================
