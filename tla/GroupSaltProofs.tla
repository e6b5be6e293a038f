--------------------------- MODULE GroupSaltProofs ---------------------------
(***************************************************************************)
(* Proofs about GroupSalt, for every set of accounts, messages, shared     *)
(* outputs and bounds: what is cached and written with is the salt of the  *)
(* output, who reads a message may read it, and a page of messages is      *)
(* answered for once.                                                      *)
(***************************************************************************)
EXTENDS GroupSalt, SequenceTheorems, FiniteSetTheorems, WellFoundedInduction, TLAPS

-----------------------------------------------------------------------------
(* Sequences.  That the parts of a concatenation are its elements is shown *)
(* by the least number of parts for which it might not be so.              *)

LEMMA EnumerationIsSeq ==
    ASSUME NEW T, NEW n \in Nat, NEW f \in [1..n -> T]
    PROVE  f \in Seq(T) /\ Len(f) = n /\ DOMAIN f = 1..n
<1>1. f \in Seq(T)
  BY SeqDef
<1> QED
  BY <1>1, LenProperties

LEMMA SeqWithin ==
    ASSUME NEW S, NEW T, NEW s \in Seq(S), \A i \in 1..Len(s) : s[i] \in T
    PROVE  s \in Seq(T)
<1>1. s \in [1..Len(s) -> T] /\ Len(s) \in Nat
  BY LenProperties
<1> QED
  BY <1>1, EnumerationIsSeq

Less == {p \in Nat \X Nat : p[1] < p[2]}

\* A set of numbers that is not empty has a least one.
LEMMA LeastExists ==
    ASSUME NEW T, T \subseteq Nat, T # {}
    PROVE  \E n \in T : \A m \in T : n <= m
<1>1. IsWellFoundedOn(Less, Nat)
  BY NatLessThanWellFounded DEF OpToRel, Less, IsWellFoundedOn
<1>2. PICK n \in T : \A m \in T : <<m, n>> \notin Less
  BY <1>1, WFMin
<1>3. \A m \in T : ~(m < n)
  BY <1>2 DEF Less
<1> QED
  BY <1>3

\* The first n parts, one after the other.
Flat(ss, n, f) ==
    \A i \in 1..n : f[i] = IF i = 1 THEN ss[i] ELSE f[i - 1] \o ss[i]

LEMMA FlatExists ==
    ASSUME NEW T, NEW ss \in Seq(Seq(T)), NEW n \in 0..Len(ss)
    PROVE  \E f \in [1..n -> Seq(T)] : Flat(ss, n, f)
<1> DEFINE Bad == {k \in 0..Len(ss) : ~\E f \in [1..k -> Seq(T)] : Flat(ss, k, f)}
<1> SUFFICES ASSUME Bad # {}
             PROVE  FALSE
  OBVIOUS
<1>1. Len(ss) \in Nat /\ \A i \in 1..Len(ss) : ss[i] \in Seq(T)
  BY LenProperties, ElementOfSeq
<1>2. PICK k \in Bad : \A m \in Bad : k <= m
  <2>1. Bad \subseteq Nat
    BY <1>1
  <2> HIDE DEF Bad
  <2> QED
    BY <2>1, LeastExists
<1>3. k \in 0..Len(ss) /\ ~\E f \in [1..k -> Seq(T)] : Flat(ss, k, f)
  OBVIOUS
<1>4. k # 0
  <2>1. Flat(ss, 0, [i \in 1..0 |-> <<>>])
    BY DEF Flat
  <2>2. [i \in 1..0 |-> <<>>] \in [1..0 -> Seq(T)]
    OBVIOUS
  <2> QED
    BY <1>3, <2>1, <2>2
<1>5. k - 1 \in 0..Len(ss) /\ k - 1 \notin Bad
  <2>1. k \in Nat /\ k - 1 \in 0..Len(ss) /\ ~(k <= k - 1)
    BY <1>1, <1>3, <1>4
  <2> HIDE DEF Bad
  <2> QED
    BY <1>2, <2>1
<1>6. PICK f \in [1..(k - 1) -> Seq(T)] : Flat(ss, k - 1, f)
  BY <1>5
<1> DEFINE last == IF k = 1 THEN ss[k] ELSE f[k - 1] \o ss[k]
           g == [i \in 1..k |-> IF i = k THEN last ELSE f[i]]
<1>7. last \in Seq(T)
  <2>1. k \in 1..Len(ss)
    BY <1>3, <1>4
  <2>2. CASE k = 1
    BY <1>1, <2>1, <2>2
  <2>3. CASE k # 1
    <3>1. f[k - 1] \in Seq(T)
      BY <1>1, <1>6, <2>1, <2>3
    <3> QED
      BY <1>1, <2>1, <2>3, <3>1, ConcatProperties
  <2> QED
    BY <2>2, <2>3
<1>8. g \in [1..k -> Seq(T)]
  <2>1. \A i \in 1..k : i # k => i \in 1..(k - 1)
    BY <1>1, <1>3
  <2> HIDE DEF last
  <2> QED
    BY <1>6, <1>7, <2>1
<1>9. Flat(ss, k, g)
  <2> SUFFICES ASSUME NEW i \in 1..k
               PROVE  g[i] = IF i = 1 THEN ss[i] ELSE g[i - 1] \o ss[i]
    BY DEF Flat
  <2>0. k \in Nat
    BY <1>1, <1>3
  <2>1. CASE i = k
    <3>1. i # 1 => g[i - 1] = f[i - 1]
      BY <2>0, <2>1
    <3> QED
      BY <2>1, <3>1
  <2>2. CASE i # k
    <3>1. i \in 1..(k - 1) /\ g[i] = f[i] /\ (i # 1 => g[i - 1] = f[i - 1])
      BY <2>0, <2>2
    <3> QED
      BY <1>6, <3>1 DEF Flat
  <2> QED
    BY <2>1, <2>2
<1> QED
  BY <1>3, <1>8, <1>9

LEMMA FlattenType ==
    ASSUME NEW T, NEW ss \in Seq(Seq(T))
    PROVE  FlattenSeq(ss) \in Seq(T)
<1> DEFINE n == Len(ss)
           step(f) == [i \in 1..n |-> IF i = 1 THEN ss[i] ELSE f[i - 1] \o ss[i]]
           flatten == CHOOSE f : f = step(f)
<1>1. n \in Nat /\ \A i \in 1..n : ss[i] \in Seq(T)
  BY LenProperties, ElementOfSeq
<1>2. CASE n = 0
  BY <1>2, EmptySeq DEF FlattenSeq
<1>3. CASE n # 0
  <2>1. FlattenSeq(ss) = flatten[n]
    BY <1>3 DEF FlattenSeq
  <2>2. PICK g \in [1..n -> Seq(T)] : Flat(ss, n, g)
    BY <1>1, FlatExists
  <2>3. g = step(g)
    BY <2>2 DEF Flat
  <2>4. flatten = step(flatten)
    BY <2>3
  <2> HIDE DEF flatten
  <2> DEFINE Bad == {i \in 1..n : flatten[i] \notin Seq(T)}
  <2>5. Bad = {}
    <3> SUFFICES ASSUME Bad # {}
                 PROVE  FALSE
      OBVIOUS
    <3>1. PICK k \in Bad : \A m \in Bad : k <= m
      <4>1. \A i \in 1..n : i \in Nat
        BY <1>1
      <4>2. Bad \subseteq Nat
        BY <4>1
      <4> HIDE DEF Bad
      <4> QED
        BY <4>2, LeastExists
    <3>2. k \in 1..n /\ flatten[k] \notin Seq(T)
      OBVIOUS
    <3>3. flatten[k] = IF k = 1 THEN ss[k] ELSE flatten[k - 1] \o ss[k]
      BY <2>4, <3>2
    <3>4. k # 1
      BY <1>1, <3>2, <3>3
    <3>5. k - 1 \in 1..n /\ ~(k <= k - 1)
      BY <1>1, <3>2, <3>4
    <3>6. flatten[k - 1] \in Seq(T)
      <4>1. k - 1 \notin Bad
        <5> HIDE DEF Bad
        <5> QED
          BY <3>1, <3>5
      <4> QED
        BY <3>5, <4>1
    <3>7. ss[k] \in Seq(T)
      BY <1>1, <3>2
    <3>8. flatten[k - 1] \o ss[k] \in Seq(T)
      BY <3>6, <3>7, ConcatProperties
    <3> QED
      BY <3>2, <3>3, <3>4, <3>8
  <2>6. n \in 1..n
    BY <1>1, <1>3
  <2> QED
    BY <2>1, <2>5, <2>6
<1> QED
  BY <1>2, <1>3

-----------------------------------------------------------------------------
(* The inductive invariants.                                               *)

Salt == Output \union Nat

IsCall(c) == c = [msg |-> c.msg, by |-> c.by, source |-> c.source, at |-> c.at, key |-> c.key]
IsSend(d) == d = [at |-> d.at, of |-> d.of, salt |-> d.salt, by |-> d.by, key |-> d.key]
IsPass(r) == r = [at |-> r.at, keys |-> r.keys, seen |-> r.seen]
IsBatch(b) ==
    b = [at |-> b.at, asked |-> b.asked, by |-> b.by, done |-> b.done, failed |-> b.failed, late |-> b.late,
         found |-> b.found, key |-> b.key, missing |-> b.missing, cached |-> b.cached, absent |-> b.absent]

WorldInv ==
    /\ left \in BoundType /\ (\A m \in Message : \A x, y \in Of(m) : x = y)
    /\ account \in Account /\ ledger \subseteq Output /\ readers \in [Output -> SUBSET Account]
    /\ service \subseteq Output /\ (\A x, y \in service : x = y)
    /\ saltOf \in [Output -> Salt] /\ cache \in [Output -> SUBSET Salt] /\ salts \in Nat

CallShape ==
    \A c \in calls : /\ IsCall(c) /\ c.msg \in Message /\ c.by \in Account /\ Of(c.msg) # {}
                     /\ c.at = "decrypt" => c.key # {}
SendShape ==
    \A d \in send : /\ IsSend(d) /\ d.of \subseteq Output /\ (\A x, y \in d.of : x = y)
                    /\ d.salt \in Nat
BatchShape ==
    \A b \in batch : /\ IsBatch(b) /\ b.asked \in Seq(Message) /\ b.late \subseteq ToSet(b.asked)
                     /\ b.at = "decrypt" => /\ b.key # {}
                                            /\ b.found \subseteq UNION {Of(m) : m \in b.late}

\* Messages are kept under their shared output; the outputs that a pass asks
\* for are those under which some are kept.
KeptType == [msg : Message, by : Account]
Lists(T) == Seq([of : Output, payload : Seq(T)])
ItemShape(x) == x.payload # <<>> /\ \A j \in 1..Len(x.payload) : Of(x.payload[j].msg) = {x.of}
KeptShape ==
    /\ recovering \in Lists(KeptType) /\ \A i \in 1..Len(recovering) : ItemShape(recovering[i])
    /\ toRead \in Seq(KeptType)
    /\ \A r \in recovery : IsPass(r)
    /\ \A r \in recovery : r.at = "query" =>
           /\ r.keys \in Seq(Output)
           /\ \A k \in 1..Len(r.keys) : \E i \in 1..Len(recovering) : recovering[i].of = r.keys[k]

\* What is about to be opened is on the node, and so is what was opened.
LedgerInv ==
    /\ \A c \in calls : c.at = "decrypt" => Of(c.msg) \subseteq ledger
    /\ \A b \in batch : b.at = "decrypt" => b.found \subseteq ledger
    /\ \A d \in send : d.at = "decrypt" => d.of \subseteq ledger
    /\ \A w \in sent : w.of \subseteq ledger

TypeInv == WorldInv /\ CallShape /\ SendShape /\ BatchShape /\ KeptShape
SaltInv == TypeInv /\ LedgerInv /\ SaltsAreRight

\* What is under way is for the account, unless that was switched meanwhile.
Mine(by, os) == by = account \/ os \subseteq straddled

Kept == {p \in KeptType : Mine(p.by, Of(p.msg))}
KeptInv == recovering \in Lists(Kept) /\ toRead \in Seq(Kept)

\* Who waits and was answered may read.
CallInv ==
    \A c \in calls :
        /\ Mine(c.by, Of(c.msg))
        /\ c.at = "resolved" => \A o \in Of(c.msg) : c.by \in readers[o] \/ o \in straddled
BatchInv == \A b \in batch : \A m \in ToSet(b.asked) : Mine(b.by, Of(m))

\* A salt in the cache is for the account.
CacheInv == \A o \in Output : cache[o] # {} => account \in readers[o] \/ o \in straddled

ReadInv == TypeInv /\ KeptInv /\ CallInv /\ BatchInv /\ CacheInv /\ ReadersOnly

-----------------------------------------------------------------------------
(* The world: what the node, the service and the account are.              *)

LEMMA UsesType ==
    ASSUME left \in BoundType, NEW c \in {"sends", "switches", "fails", "moves"}, Uses(c)
    PROVE  left' \in BoundType /\ left'.of = left.of
BY DEF BoundType, Uses

LEMMA OfFacts ==
    ASSUME WorldInv, NEW m \in Message
    PROVE  Of(m) \subseteq Output /\ (\A x, y \in Of(m) : x = y)
BY DEF WorldInv, BoundType, Of

\* What no step changes, or changes one way only.
Onward ==
    /\ left' \in BoundType /\ left'.of = left.of /\ readers' = readers
    /\ ledger \subseteq ledger' /\ straddled \subseteq straddled'
    /\ \A o \in ledger : saltOf'[o] = saltOf[o]

LEMMA Still ==
    ASSUME WorldInv, UNCHANGED <<account, world, cache, salts, straddled>>,
           left' = left \/ \E c \in {"sends", "switches", "fails", "moves"} : Uses(c)
    PROVE  WorldInv' /\ Onward
<1>1. left' \in BoundType /\ left'.of = left.of
  BY UsesType DEF WorldInv
<1> QED
  BY <1>1 DEF WorldInv, Onward, world, Of

LEMMA CacheChanges ==
    ASSUME WorldInv, UNCHANGED <<account, world, salts, straddled, left>>, NEW os,
           cache' = [o \in Output |-> IF o \in os THEN {saltOf[o]} ELSE cache[o]]
    PROVE  WorldInv' /\ Onward
<1>1. cache' \in [Output -> SUBSET Salt]
  BY DEF WorldInv
<1> QED
  BY <1>1 DEF WorldInv, Onward, world, Of

LEMMA CallWorld ==
    ASSUME TypeInv, NEW c \in calls, Answers(c)
    PROVE  WorldInv' /\ Onward
<1>1. WorldInv
  BY DEF TypeInv
<1>2. CASE FetchAnswered(c)
  BY <1>1, <1>2, Still DEF FetchAnswered, sendVars
<1>3. CASE Decrypted(c)
  <2>1. CASE UNCHANGED cache
    BY <1>1, <1>3, <2>1, Still DEF Decrypted, sendVars
  <2>2. CASE cache' = [p \in Output |-> IF p \in Of(c.msg) THEN {saltOf[p]} ELSE cache[p]]
    BY <1>1, <1>3, <2>2, CacheChanges DEF Decrypted, sendVars
  <2> QED
    BY <1>3, <2>1, <2>2 DEF Decrypted
<1>4. CASE WaitEnds(c)
  BY <1>1, <1>4, Still DEF WaitEnds, sendVars, saltVars
<1> QED
  BY <1>2, <1>3, <1>4 DEF Answers

LEMMA RecoverWorld ==
    ASSUME TypeInv, Recovers
    PROVE  WorldInv' /\ Onward
<1>1. WorldInv
  BY DEF TypeInv
<1>2. UNCHANGED <<account, world, cache, salts, straddled, left>>
  BY DEF Recovers, RecoveryBegins, RecoveryQueried, RecoveryReplaces, RecoveryReads, saltVars, sendVars
<1> QED
  BY <1>1, <1>2, Still

LEMMA BatchWorld ==
    ASSUME TypeInv, BatchStep \/ \E list \in left.batches : BatchBegins(list)
    PROVE  WorldInv' /\ Onward
<1>1. WorldInv
  BY DEF TypeInv
<1>2. ASSUME NEW list \in left.batches, BatchBegins(list)
      PROVE  WorldInv' /\ Onward
  <2>1. left' \in BoundType /\ left'.of = left.of
    BY <1>1, <1>2 DEF BatchBegins, WorldInv, BoundType
  <2>2. UNCHANGED <<account, world, cache, salts, straddled>>
    BY <1>2 DEF BatchBegins, batchRest, sendVars
  <2> QED
    BY <1>1, <2>1, <2>2 DEF WorldInv, Onward, world, Of
<1>3. ASSUME NEW b \in batch, BatchOutputs(b) \/ BatchCached(b) \/ BatchShared(b)
      PROVE  WorldInv' /\ Onward
  BY <1>1, <1>3, Still DEF BatchOutputs, BatchCached, BatchShared, batchRest, sendVars
<1>4. ASSUME NEW b \in batch, BatchDecrypted(b)
      PROVE  WorldInv' /\ Onward
  <2> DEFINE os == {o \in b.found : \A k \in b.key : Readable(o, b.by, k)}
  <2>1. cache' = [o \in Output |-> IF o \in os THEN {saltOf[o]} ELSE cache[o]]
    BY <1>4 DEF BatchDecrypted
  <2>2. UNCHANGED <<account, world, salts, straddled, left>>
    BY <1>4 DEF BatchDecrypted, batchRest, sendVars
  <2> HIDE DEF os
  <2> QED
    BY <1>1, <2>1, <2>2, CacheChanges
<1> QED
  BY <1>2, <1>3, <1>4 DEF BatchStep

LEMMA SendWorld ==
    ASSUME TypeInv, Sends \/ SendStep
    PROVE  WorldInv' /\ Onward
<1>1. WorldInv
  BY DEF TypeInv
<1>2. CASE Sends
  BY <1>1, <1>2, Still DEF Sends, sendRest
<1>3. ASSUME NEW d \in send, ServiceAnswers(d) \/ SharedFetched(d) \/ SharedDecrypted(d)
      PROVE  WorldInv' /\ Onward
  <2>1. UNCHANGED <<account, world, cache, straddled>>
    BY <1>3 DEF ServiceAnswers, SharedFetched, SharedDecrypted, sendRest
  <2>2. salts' \in Nat
    <3>1. salts' = salts \/ salts' = salts + 1
      BY <1>3 DEF ServiceAnswers, SharedFetched, SharedDecrypted, MakeShared
    <3> QED
      BY <1>1, <3>1 DEF WorldInv
  <2>3. left' = left \/ Uses("fails")
    BY <1>3 DEF ServiceAnswers, SharedFetched, SharedDecrypted
  <2>4. left' \in BoundType /\ left'.of = left.of
    BY <1>1, <2>3, UsesType DEF WorldInv
  <2> QED
    BY <1>1, <2>1, <2>2, <2>4 DEF WorldInv, Onward, world, Of
<1>4. ASSUME NEW d \in send, SharedSent(d)
      PROVE  WorldInv' /\ Onward
  <2>1. CASE UNCHANGED <<ledger, saltOf, cache, sent, straddled>> /\ Uses("fails")
    BY <1>1, <1>4, <2>1, Still DEF SharedSent, sendRest, world
  <2>2. ASSUME NEW o \in left.own \ ledger, ledger' = ledger \union {o},
               saltOf' = [saltOf EXCEPT ![o] = d.salt], cache' = [cache EXCEPT ![o] = {d.salt}],
               straddled' = straddled \union (IF account \in readers[o] THEN {} ELSE {o}), left' = left
        PROVE  WorldInv' /\ Onward
    <3>1. o \in Output /\ d.salt \in Salt
      BY <1>1 DEF WorldInv, BoundType, TypeInv, SendShape, Salt
    <3>2. saltOf' \in [Output -> Salt] /\ cache' \in [Output -> SUBSET Salt]
      BY <1>1, <2>2, <3>1 DEF WorldInv
    <3>3. UNCHANGED <<account, readers, service, salts, left>>
      BY <1>4, <2>2 DEF SharedSent, sendRest
    <3>4. \A p \in ledger : saltOf'[p] = saltOf[p]
      BY <1>1, <2>2 DEF WorldInv
    <3> QED
      BY <1>1, <2>2, <3>1, <3>2, <3>3, <3>4 DEF WorldInv, Onward, Of
  <2> QED
    BY <1>4, <2>1, <2>2 DEF SharedSent
<1> QED
  BY <1>2, <1>3, <1>4 DEF SendStep

LEMMA OutsideWorld ==
    ASSUME TypeInv, (\E o \in Output : Appears(o) \/ ServiceMoves(o)) \/ \E a \in Account : SwitchAddress(a)
    PROVE  WorldInv' /\ Onward
<1>1. WorldInv
  BY DEF TypeInv
<1>2. ASSUME NEW o \in Output, Appears(o)
      PROVE  WorldInv' /\ Onward
  <2>1. UNCHANGED <<account, saltOf, readers, service, cache, salts, straddled, left>> /\ ledger' = ledger \union {o}
    BY <1>2 DEF Appears, saltVars, sendVars
  <2> QED
    BY <1>1, <2>1 DEF WorldInv, Onward, Of
<1>3. ASSUME NEW o \in Output, ServiceMoves(o)
      PROVE  WorldInv' /\ Onward
  <2>1. UNCHANGED <<account, ledger, saltOf, readers, cache, salts, straddled>> /\ service' = {o} /\ Uses("moves")
    BY <1>3 DEF ServiceMoves, saltVars, sendVars
  <2>2. left' \in BoundType /\ left'.of = left.of
    BY <1>1, <2>1, UsesType DEF WorldInv
  <2> QED
    BY <1>1, <2>1, <2>2 DEF WorldInv, Onward, Of
<1>4. ASSUME NEW a \in Account, SwitchAddress(a)
      PROVE  WorldInv' /\ Onward
  <2>1. /\ UNCHANGED <<world, salts>> /\ account' = a /\ cache' = [o \in Output |-> {}]
        /\ straddled \subseteq straddled' /\ Uses("switches")
    BY <1>4 DEF SwitchAddress, sendVars
  <2>2. left' \in BoundType /\ left'.of = left.of
    BY <1>1, <2>1, UsesType DEF WorldInv
  <2> QED
    BY <1>1, <2>1, <2>2 DEF WorldInv, Onward, world, Of
<1> QED
  BY <1>2, <1>3, <1>4

LEMMA WorldStep ==
    ASSUME TypeInv, [Next]_vars
    PROVE  WorldInv' /\ Onward
<1>1. WorldInv
  BY DEF TypeInv
<1>2. ASSUME NEW m \in Message, Push(m)
      PROVE  WorldInv' /\ Onward
  BY <1>1, <1>2, Still DEF Push, sendVars
<1>3. CASE UNCHANGED vars
  BY <1>1, <1>3, Still DEF vars, world
<1> QED
  BY <1>2, <1>3, CallWorld, RecoverWorld, BatchWorld, SendWorld, OutsideWorld DEF Next

-----------------------------------------------------------------------------
(* The messages that are being read.                                       *)

LEMMA WakeFacts ==
    ASSUME CallShape, NEW cs, cs \subseteq calls, NEW os, NEW how, NEW x \in Wake(cs, os, how)
    PROVE  \/ x \in cs
           \/ \E c \in calls : /\ x = [c EXCEPT !.at = how] /\ c.at = "waits" /\ Of(c.msg) \subseteq os
                               /\ IsCall(x) /\ x.at = how /\ x.msg = c.msg /\ x.by = c.by
<1>1. PICK c \in cs : x = IF c \in Waiters(os) THEN [c EXCEPT !.at = how] ELSE c
  BY DEF Wake
<1>2. CASE c \in Waiters(os)
  <2>1. IsCall(c) /\ c.at = "waits" /\ Of(c.msg) \subseteq os
    BY <1>2 DEF CallShape, Waiters
  <2>2. x = [c EXCEPT !.at = how]
    BY <1>1, <1>2
  <2>3. x = [msg |-> c.msg, by |-> c.by, source |-> c.source, at |-> how, key |-> c.key]
    BY <2>1, <2>2 DEF IsCall
  <2>4. IsCall(x) /\ x.at = how /\ x.msg = c.msg /\ x.by = c.by
    BY <2>3 DEF IsCall
  <2> QED
    BY <2>1, <2>2, <2>4
<1> QED
  BY <1>1, <1>2

\* What becomes of them.  Who waits is answered when the salt of its output
\* was opened by one of the output's recipients.
Begun(x) ==
    /\ IsCall(x) /\ x.at \in {"waits", "fetch"} /\ x.msg \in Message /\ Of(x.msg) # {}
    /\ \/ x.by = account
       \/ toRead # <<>> /\ x.msg = Head(toRead).msg /\ x.by = Head(toRead).by
Opened(o) == \E by \in readers[o] : by = account \/ \E c \in calls : c.by = by /\ o \in Of(c.msg)
Continued(x) ==
    \E c \in calls :
        /\ IsCall(x) /\ x.msg = c.msg /\ x.by = c.by
        /\ \/ x.at = "decrypt" /\ x.key # {} /\ Of(c.msg) \subseteq ledger
           \/ x.at = "rejected"
           \/ x.at = "resolved" /\ \A o \in Of(c.msg) : Opened(o)

LEMMA WakeContinues ==
    ASSUME CallShape, NEW cs, cs \subseteq calls, NEW os, NEW how \in {"resolved", "rejected"},
           NEW x \in Wake(cs, os, how), x \notin calls, how = "resolved" => \A o \in os : Opened(o)
    PROVE  Continued(x)
<1>a. \/ x \in cs
      \/ \E c \in calls : /\ x = [c EXCEPT !.at = how] /\ c.at = "waits" /\ Of(c.msg) \subseteq os
                          /\ IsCall(x) /\ x.at = how /\ x.msg = c.msg /\ x.by = c.by
  BY ONLY WakeFacts, CallShape, x \in Wake(cs, os, how), cs \subseteq calls
<1>1. PICK c \in calls : /\ c.at = "waits" /\ Of(c.msg) \subseteq os
                         /\ IsCall(x) /\ x.at = how /\ x.msg = c.msg /\ x.by = c.by
  BY <1>a
<1>2. x.at = "rejected" \/ (x.at = "resolved" /\ \A o \in Of(c.msg) : Opened(o))
  BY <1>1
<1> QED
  BY <1>1, <1>2 DEF Continued

LEMMA ReadsCalls ==
    ASSUME WorldInv, NEW m \in Message, NEW by, NEW source, Reads(m, by, source),
           NEW x \in calls', x \notin calls
    PROVE  IsCall(x) /\ x.at \in {"waits", "fetch"} /\ x.msg = m /\ x.by = by /\ Of(m) # {}
<1>1. PICK where \in {"waits", "fetch"} :
          /\ calls' = calls \union {[msg |-> m, by |-> by, source |-> source, at |-> where, key |-> {}]}
          /\ \E p \in Of(m) : cache[p] = {}
  BY DEF Reads
<1>2. x = [msg |-> m, by |-> by, source |-> source, at |-> where, key |-> {}]
  BY <1>1
<1>3. IsCall(x) /\ x.at = where /\ x.msg = m /\ x.by = by
  BY <1>2 DEF IsCall
<1> QED
  BY <1>1, <1>3

LEMMA AnswersCalls ==
    ASSUME TypeInv, NEW c \in calls, Answers(c), NEW x \in calls', x \notin calls
    PROVE  Continued(x)
<1>1. IsCall(c) /\ c.msg \in Message /\ (c.at = "decrypt" => c.key # {}) /\ CallShape
  BY DEF TypeInv, CallShape
<1>2. ASSUME NEW os, NEW how \in {"resolved", "rejected"}, x \in Wake(calls \ {c}, os, how),
             how = "resolved" => \A o \in os : Opened(o)
      PROVE  Continued(x)
  <2>1. calls \ {c} \subseteq calls
    OBVIOUS
  <2> QED
    BY <1>1, <1>2, <2>1, WakeContinues
<1>3. CASE FetchAnswered(c)
  <2>1. CASE Of(c.msg) \subseteq ledger /\ x = [c EXCEPT !.at = "decrypt", !.key = {account}]
    <3>1. x = [msg |-> c.msg, by |-> c.by, source |-> c.source, at |-> "decrypt", key |-> {account}]
      BY <1>1, <2>1 DEF IsCall
    <3>2. IsCall(x) /\ x.at = "decrypt" /\ x.msg = c.msg /\ x.by = c.by /\ x.key # {}
      BY <3>1 DEF IsCall
    <3> QED
      BY <2>1, <3>2 DEF Continued
  <2>2. CASE x \in Wake(calls \ {c}, Of(c.msg), "rejected")
    BY <1>2, <2>2
  <2> QED
    BY <1>3, <2>1, <2>2 DEF FetchAnswered, Rejects
<1>4. CASE Decrypted(c)
  <2>1. CASE x \in Wake(calls \ {c}, Of(c.msg), "rejected")
    BY <1>2, <2>1
  <2>2. CASE /\ \A p \in Of(c.msg), k \in c.key : Readable(p, c.by, k)
             /\ x \in Wake(calls \ {c}, Of(c.msg), "resolved")
    <3>1. \A o \in Of(c.msg) : Opened(o)
      <4>1. PICK k : k \in c.key
        BY <1>1, <1>4 DEF Decrypted
      <4>2. \A o \in Of(c.msg) : c.by \in readers[o]
        BY <2>2, <4>1 DEF Readable
      <4> QED
        BY <4>2 DEF Opened
    <3> QED
      BY <1>2, <2>2, <3>1
  <2> QED
    BY <1>4, <2>1, <2>2 DEF Decrypted, Rejects
<1>5. CASE WaitEnds(c)
  BY <1>5 DEF WaitEnds
<1> QED
  BY <1>3, <1>4, <1>5 DEF Answers

LEMMA KeptItem ==
    ASSUME WorldInv, KeptShape, NEW r \in recovery, r.at = "query", NEW k \in 1..Len(r.keys)
    PROVE  LET item == recovering[CHOOSE i \in DOMAIN recovering : recovering[i].of = r.keys[k]]
           IN  /\ \E i \in 1..Len(recovering) : item = recovering[i]
               /\ item.of = r.keys[k] /\ r.keys[k] \in Output
               /\ item.payload \in Seq(KeptType) /\ item.payload # <<>> /\ Len(item.payload) \in Nat \ {0}
<1> DEFINE i == CHOOSE i \in DOMAIN recovering : recovering[i].of = r.keys[k]
<1>1. DOMAIN recovering = 1..Len(recovering)
  BY LenProperties DEF KeptShape, Lists
<1>2. i \in 1..Len(recovering) /\ recovering[i].of = r.keys[k]
  BY <1>1 DEF KeptShape
<1> HIDE DEF i
<1>3. /\ recovering[i].payload \in Seq(KeptType) /\ recovering[i].payload # <<>>
      /\ r.keys[k] \in Output
  <2>1. recovering[i] \in [of : Output, payload : Seq(KeptType)]
    BY <1>2, ElementOfSeq DEF KeptShape, Lists
  <2> QED
    BY <1>2, <2>1 DEF KeptShape, ItemShape
<1>4. Len(recovering[i].payload) \in Nat \ {0}
  BY <1>3, EmptySeq, LenProperties
<1> QED
  BY <1>2, <1>3, <1>4 DEF i

LEMMA QueriedCalls ==
    ASSUME TypeInv, NEW r \in recovery, RecoveryQueried(r), NEW x \in calls', x \notin calls
    PROVE  Continued(x)
<1>1. WorldInv /\ CallShape /\ KeptShape /\ r.at = "query" /\ r.keys \in Seq(Output)
  BY DEF TypeInv, RecoveryQueried, KeptShape
<1> DEFINE Item(o) == recovering[CHOOSE i \in DOMAIN recovering : recovering[i].of = o]
<1>2. PICK found \in SUBSET (ToSet(r.keys) \cap ledger) :
          LET bad == {i \in DOMAIN r.keys : /\ r.keys[i] \in found
                                            /\ ~Readable(r.keys[i], Item(r.keys[i]).payload[1].by, account)}
              upTo == {i \in DOMAIN r.keys : \A b \in bad : i < b}
              good == {r.keys[i] : i \in upTo} \cap found
          IN  calls' = calls \/ calls' = Wake(calls, good, "resolved")
  BY DEF RecoveryQueried
<1> DEFINE bad == {i \in DOMAIN r.keys : /\ r.keys[i] \in found
                                         /\ ~Readable(r.keys[i], Item(r.keys[i]).payload[1].by, account)}
           upTo == {i \in DOMAIN r.keys : \A b \in bad : i < b}
           good == {r.keys[i] : i \in upTo} \cap found
<1>3. ASSUME NEW o \in good
      PROVE  Opened(o)
  <2>1. PICK i \in upTo : o = r.keys[i] /\ o \in found
    OBVIOUS
  <2>2. i \in DOMAIN r.keys /\ i \in Nat
    BY <1>1, LenProperties
  <2>3. i \notin bad
    <3>1. ~(i < i)
      BY <2>2
    <3> QED
      BY <3>1
  <2>4. Readable(o, Item(o).payload[1].by, account)
    BY <2>1, <2>2, <2>3
  <2> QED
    BY <2>4 DEF Readable, Opened
<1>4. x \in Wake(calls, good, "resolved")
  BY <1>2
<1> HIDE DEF good
<1> QED
  BY <1>1, <1>3, <1>4, WakeContinues

LEMMA CallsNext ==
    ASSUME TypeInv, [Next]_vars, NEW x \in calls', x \notin calls
    PROVE  Begun(x) \/ Continued(x)
<1>1. WorldInv /\ KeptShape
  BY DEF TypeInv
<1>2. ASSUME NEW m \in Message, Push(m)
      PROVE  Begun(x)
  BY <1>1, <1>2, ReadsCalls DEF Push, Begun
<1>3. ASSUME NEW r \in recovery, RecoveryReads(r)
      PROVE  Begun(x)
  <2>1. toRead # <<>> /\ Reads(Head(toRead).msg, Head(toRead).by, "recovery")
    BY <1>3 DEF RecoveryReads
  <2>2. Head(toRead) \in KeptType
    BY <1>1, <2>1, HeadTailProperties DEF KeptShape
  <2>3. Head(toRead).msg \in Message
    BY <2>2 DEF KeptType
  <2> QED
    BY <1>1, <2>1, <2>3, ReadsCalls DEF Begun
<1>4. CASE Recovers
  <2>1. CASE RecoveryBegins \/ \E r \in recovery : RecoveryReplaces(r)
    BY <2>1 DEF RecoveryBegins, RecoveryReplaces
  <2> QED
    BY <1>3, <1>4, <2>1, QueriedCalls DEF Recovers
<1>5. CASE BatchStep \/ \E list \in left.batches : BatchBegins(list)
  BY <1>5 DEF BatchStep, BatchBegins, BatchOutputs, BatchCached, BatchShared, BatchDecrypted, batchRest, pushVars
<1>6. CASE SendStep \/ Sends
  BY <1>6 DEF SendStep, Sends, ServiceAnswers, SharedFetched, SharedDecrypted, SharedSent, sendRest, pushVars
<1>7. CASE (\E o \in Output : Appears(o) \/ ServiceMoves(o)) \/ \E a \in Account : SwitchAddress(a)
  BY <1>7 DEF Appears, ServiceMoves, SwitchAddress, pushVars
<1>8. CASE UNCHANGED vars
  BY <1>8 DEF vars
<1> QED
  BY <1>2, <1>4, <1>5, <1>6, <1>7, <1>8, AnswersCalls DEF Next

-----------------------------------------------------------------------------
(* Types.                                                                  *)

LEMMA CallShapeStep ==
    ASSUME TypeInv, [Next]_vars
    PROVE  CallShape'
<1>1. Onward /\ CallShape /\ WorldInv /\ KeptShape
  BY WorldStep DEF TypeInv
<1>2. ASSUME NEW x \in calls'
      PROVE  /\ IsCall(x) /\ x.msg \in Message /\ x.by \in Account /\ Of(x.msg) # {}
             /\ x.at = "decrypt" => x.key # {}
  <2>1. CASE x \in calls
    BY <1>1, <2>1 DEF CallShape
  <2>2. CASE Begun(x)
    <3>1. toRead # <<>> => Head(toRead).by \in Account
      <4>1. toRead # <<>> => Head(toRead) \in KeptType
        BY <1>1, HeadTailProperties DEF KeptShape
      <4> QED
        BY <4>1 DEF KeptType
    <3> QED
      BY <1>1, <2>2, <3>1 DEF Begun, WorldInv
  <2>3. CASE Continued(x)
    BY <1>1, <2>3 DEF Continued, CallShape
  <2> QED
    BY <2>1, <2>2, <2>3, CallsNext
<1>3. \A m : Of(m)' = Of(m)
  BY <1>1 DEF Onward, Of
<1> QED
  BY <1>2, <1>3 DEF CallShape, IsCall

\* Sending goes through these stations.
SendNext(x) ==
    \/ x \in send
    \/ x = [at |-> "ask", of |-> {}, salt |-> 0, by |-> account, key |-> {}]
    \/ \E d \in send : /\ IsSend(x) /\ x.at \in {"fetch", "decrypt", "create"}
                       /\ x.of = d.of \/ \E o \in service : x.of = {o}
                       /\ x.salt \in {d.salt, 10 + salts}
                       /\ x.at = "decrypt" => x.of \subseteq ledger

LEMMA SendsNext ==
    ASSUME TypeInv, [Next]_vars, NEW x \in send'
    PROVE  SendNext(x)
<1>1. WorldInv /\ SendShape
  BY DEF TypeInv
<1>2. ASSUME NEW d \in send
      PROVE  /\ MakeShared(d) => SendNext(x)
             /\ ServiceAnswers(d) => SendNext(x)
             /\ SharedFetched(d) => SendNext(x)
             /\ SharedDecrypted(d) => SendNext(x)
             /\ SharedSent(d) => SendNext(x)
  <2>0. IsSend(d)
    BY <1>1 DEF SendShape
  <2>1. ASSUME MakeShared(d)
        PROVE  SendNext(x)
    <3>1. x = [at |-> "create", of |-> d.of, salt |-> 10 + salts, by |-> d.by, key |-> d.key]
      BY <2>0, <2>1 DEF MakeShared, IsSend
    <3>2. IsSend(x) /\ x.at = "create" /\ x.of = d.of /\ x.salt = 10 + salts
      BY <3>1 DEF IsSend
    <3> QED
      BY <3>2 DEF SendNext
  <2>2. ASSUME ServiceAnswers(d), send' # {}, ~MakeShared(d)
        PROVE  SendNext(x)
    <3>1. PICK o \in service : send' = {[d EXCEPT !.at = "fetch", !.of = {o}]}
      BY <2>2 DEF ServiceAnswers, Finish
    <3>2. x = [at |-> "fetch", of |-> {o}, salt |-> d.salt, by |-> d.by, key |-> d.key]
      BY <2>0, <3>1 DEF IsSend
    <3>3. IsSend(x) /\ x.at = "fetch" /\ x.of = {o} /\ x.salt = d.salt
      BY <3>2 DEF IsSend
    <3> QED
      BY <3>3 DEF SendNext
  <2>3. ASSUME SharedFetched(d), ~MakeShared(d)
        PROVE  SendNext(x)
    <3>1. d.of \subseteq ledger /\ send' = {[d EXCEPT !.at = "decrypt", !.key = {account}]}
      BY <2>3 DEF SharedFetched
    <3>2. x = [at |-> "decrypt", of |-> d.of, salt |-> d.salt, by |-> d.by, key |-> {account}]
      BY <2>0, <3>1 DEF IsSend
    <3>3. IsSend(x) /\ x.at = "decrypt" /\ x.of = d.of /\ x.salt = d.salt
      BY <3>2 DEF IsSend
    <3> QED
      BY <3>1, <3>3 DEF SendNext
  <2>4. SharedDecrypted(d) => MakeShared(d) \/ send' = {}
    BY DEF SharedDecrypted, Finish
  <2>5. SharedSent(d) => send' = {}
    BY DEF SharedSent, Finish
  <2> QED
    BY <2>1, <2>2, <2>3, <2>4, <2>5
<1>3. CASE SendStep
  BY <1>2, <1>3 DEF SendStep
<1>4. CASE Sends
  BY <1>4 DEF Sends, SendNext
<1>5. CASE send' = send
  BY <1>5 DEF SendNext
<1>6. \/ send' = send \/ SendStep \/ Sends
  <2>1. ASSUME NEW m \in Message, Push(m)
        PROVE  send' = send
    BY <2>1 DEF Push, sendVars
  <2>2. ASSUME NEW c \in calls, Answers(c)
        PROVE  send' = send
    BY <2>2 DEF Answers, FetchAnswered, Decrypted, WaitEnds, sendVars
  <2>3. CASE Recovers
    BY <2>3 DEF Recovers, RecoveryBegins, RecoveryQueried, RecoveryReplaces, RecoveryReads, sendVars
  <2>4. CASE BatchStep \/ \E list \in left.batches : BatchBegins(list)
    BY <2>4 DEF BatchStep, BatchBegins, BatchOutputs, BatchCached, BatchShared, BatchDecrypted, batchRest, sendVars
  <2>5. CASE (\E o \in Output : Appears(o) \/ ServiceMoves(o)) \/ \E a \in Account : SwitchAddress(a)
    BY <2>5 DEF Appears, ServiceMoves, SwitchAddress, sendVars
  <2>6. CASE UNCHANGED vars
    BY <2>6 DEF vars
  <2> QED
    BY <2>1, <2>2, <2>3, <2>4, <2>5, <2>6 DEF Next
<1> QED
  BY <1>3, <1>4, <1>5, <1>6

LEMMA SendShapeStep ==
    ASSUME TypeInv, [Next]_vars
    PROVE  SendShape'
<1>1. WorldInv /\ SendShape
  BY DEF TypeInv
<1>2. ASSUME NEW x \in send'
      PROVE  IsSend(x) /\ x.of \subseteq Output /\ (\A p, q \in x.of : p = q) /\ x.salt \in Nat
  <2>1. CASE x \in send
    BY <1>1, <2>1 DEF SendShape
  <2>2. CASE x = [at |-> "ask", of |-> {}, salt |-> 0, by |-> account, key |-> {}]
    BY <2>2 DEF IsSend
  <2>3. ASSUME NEW d \in send, IsSend(x), x.of = d.of \/ \E o \in service : x.of = {o}, x.salt \in {d.salt, 10 + salts}
        PROVE  IsSend(x) /\ x.of \subseteq Output /\ (\A p, q \in x.of : p = q) /\ x.salt \in Nat
    <3>1. 10 + salts \in Nat
      BY <1>1 DEF WorldInv
    <3> QED
      BY <1>1, <2>3, <3>1 DEF SendShape, WorldInv
  <2> QED
    BY <2>1, <2>2, <2>3, SendsNext DEF SendNext
<1> QED
  BY <1>2 DEF SendShape, IsSend

\* And a batch through these.
BatchNext(x) ==
    \/ x \in batch
    \/ IsBatch(x) /\ x.at = "outputs" /\ x.asked \in Seq(Message) /\ x.by = account /\ x.late = {}
    \/ \E b \in batch : /\ IsBatch(x) /\ x.asked = b.asked /\ x.by = b.by
                        /\ x.late = b.late \/ x.late \subseteq ToSet(b.asked)
                        /\ x.at = "decrypt" => /\ x.key # {} /\ x.found \subseteq ledger
                                               /\ x.found \subseteq UNION {Of(m) : m \in x.late}

LEMMA Delivered ==
    ASSUME NEW b, IsBatch(b), NEW ms, NEW y, y = Deliver(b, ms)
    PROVE  IsBatch(y) /\ y.asked = b.asked /\ y.by = b.by /\ y.late = b.late
<1> DEFINE all == b.done \o Among(b.asked, ms)
<1>1. y = [b EXCEPT !.done = all]
  BY DEF Deliver
<1> HIDE DEF all
<1> QED
  BY <1>1 DEF IsBatch

LEMMA BatchesNext ==
    ASSUME TypeInv, [Next]_vars, NEW x \in batch'
    PROVE  BatchNext(x)
<1>1. WorldInv /\ BatchShape
  BY DEF TypeInv
<1>2. ASSUME NEW list \in left.batches, BatchBegins(list)
      PROVE  BatchNext(x)
  <2>1. x = [at |-> "outputs", asked |-> list, by |-> account, done |-> <<>>, failed |-> {}, late |-> {},
             found |-> {}, key |-> {}, missing |-> {}, cached |-> {}, absent |-> {}]
    BY <1>2 DEF BatchBegins
  <2>2. IsBatch(x) /\ x.at = "outputs" /\ x.asked = list /\ x.by = account /\ x.late = {}
    BY <2>1 DEF IsBatch
  <2>3. list \in Seq(Message)
    BY <1>1 DEF WorldInv, BoundType
  <2> QED
    BY <2>2, <2>3 DEF BatchNext
<1>3. ASSUME NEW b \in batch, BatchOutputs(b) \/ BatchCached(b) \/ BatchShared(b) \/ BatchDecrypted(b)
      PROVE  BatchNext(x)
  <2>0. IsBatch(b)
    BY <1>1 DEF BatchShape
  <2>1. CASE BatchOutputs(b)
    <3>1. PICK ms, missing : x = [Deliver(b, ms) EXCEPT !.at = "salts", !.missing = missing, !.failed = missing]
      BY <2>1 DEF BatchOutputs
    <3> DEFINE y == Deliver(b, ms)
    <3>2. IsBatch(y) /\ y.asked = b.asked /\ y.by = b.by /\ y.late = b.late
      BY <2>0, Delivered
    <3>3. x = [y EXCEPT !.at = "salts", !.missing = missing, !.failed = missing]
      BY <3>1
    <3> HIDE DEF y
    <3>4. IsBatch(x) /\ x.asked = b.asked /\ x.by = b.by /\ x.late = b.late /\ x.at = "salts"
      BY <3>2, <3>3 DEF IsBatch
    <3> QED
      BY <3>4 DEF BatchNext
  <2>2. CASE BatchCached(b)
    <3> DEFINE private == {m \in ToSet(b.asked) \ b.missing : Of(m) # {}}
               ms == {m \in private : \A o \in Of(m) : cache[o] # {}}
               at == IF ms = private THEN "ended" ELSE "shared"
               late == private \ ms
               y == Deliver(b, ms)
    <3>1. x = [y EXCEPT !.at = at, !.cached = ms, !.late = late]
      BY <2>2 DEF BatchCached
    <3>5. late \subseteq ToSet(b.asked) /\ at # "decrypt"
      OBVIOUS
    <3> HIDE DEF y
    <3>2. IsBatch(y) /\ y.asked = b.asked /\ y.by = b.by
      BY <2>0, Delivered DEF y
    <3>3. x = [y EXCEPT !.at = at, !.cached = ms, !.late = late]
      BY <3>1
    <3> HIDE DEF ms, at, late
    <3>4. IsBatch(x) /\ x.asked = b.asked /\ x.by = b.by /\ x.late = late /\ x.at # "decrypt"
      BY <3>2, <3>3, <3>5 DEF IsBatch
    <3> QED
      BY <3>4, <3>5 DEF BatchNext
  <2>3. CASE BatchShared(b)
    <3> DEFINE wanted == UNION {Of(m) : m \in b.late}
    <3>1. x = [b EXCEPT !.at = "decrypt", !.found = wanted \cap ledger, !.key = {account}, !.absent = wanted \ ledger]
      BY <2>3 DEF BatchShared
    <3> HIDE DEF wanted
    <3>2. /\ IsBatch(x) /\ x.asked = b.asked /\ x.by = b.by /\ x.late = b.late /\ x.key = {account}
          /\ x.found = wanted \cap ledger
      BY <2>0, <3>1 DEF IsBatch
    <3> QED
      BY <3>2 DEF BatchNext, wanted
  <2>4. CASE BatchDecrypted(b)
    <3>1. PICK ms, failed1, absent1 :
              x = [Deliver(b, ms) EXCEPT !.at = "ended", !.failed = failed1, !.absent = absent1]
      <4>1. PICK ms, os : x = [Deliver(b, ms) EXCEPT !.at = "ended", !.failed = @ \union (b.late \ ms),
                                                     !.absent = @ \union (b.found \ os)]
        BY <2>4 DEF BatchDecrypted
      <4> QED
        BY <4>1
    <3> DEFINE y == Deliver(b, ms)
    <3>2. IsBatch(y) /\ y.asked = b.asked /\ y.by = b.by /\ y.late = b.late
      BY <2>0, Delivered
    <3>3. x = [y EXCEPT !.at = "ended", !.failed = failed1, !.absent = absent1]
      BY <3>1
    <3> HIDE DEF y
    <3>4. IsBatch(x) /\ x.asked = b.asked /\ x.by = b.by /\ x.late = b.late /\ x.at = "ended"
      BY <3>2, <3>3 DEF IsBatch
    <3> QED
      BY <3>4 DEF BatchNext
  <2> QED
    BY <1>3, <2>1, <2>2, <2>3, <2>4
<1>4. \/ batch' = batch \/ BatchStep \/ \E list \in left.batches : BatchBegins(list)
  <2>1. ASSUME NEW m \in Message, Push(m)
        PROVE  batch' = batch
    BY <2>1 DEF Push
  <2>2. ASSUME NEW c \in calls, Answers(c)
        PROVE  batch' = batch
    BY <2>2 DEF Answers, FetchAnswered, Decrypted, WaitEnds
  <2>3. CASE Recovers
    BY <2>3 DEF Recovers, RecoveryBegins, RecoveryQueried, RecoveryReplaces, RecoveryReads
  <2>4. CASE SendStep \/ Sends
    BY <2>4 DEF SendStep, Sends, ServiceAnswers, SharedFetched, SharedDecrypted, SharedSent, sendRest
  <2>5. CASE (\E o \in Output : Appears(o) \/ ServiceMoves(o)) \/ \E a \in Account : SwitchAddress(a)
    BY <2>5 DEF Appears, ServiceMoves, SwitchAddress
  <2>6. CASE UNCHANGED vars
    BY <2>6 DEF vars
  <2> QED
    BY <2>1, <2>2, <2>3, <2>4, <2>5, <2>6 DEF Next
<1>5. CASE batch' = batch
  BY <1>5 DEF BatchNext
<1> QED
  BY <1>2, <1>3, <1>4, <1>5 DEF BatchStep

LEMMA BatchShapeStep ==
    ASSUME TypeInv, [Next]_vars
    PROVE  BatchShape'
<1>1. Onward /\ BatchShape
  BY WorldStep DEF TypeInv
<1>2. ASSUME NEW x \in batch'
      PROVE  /\ IsBatch(x) /\ x.asked \in Seq(Message) /\ x.late \subseteq ToSet(x.asked)
             /\ x.at = "decrypt" => x.key # {} /\ x.found \subseteq UNION {Of(m) : m \in x.late}
  <2>1. CASE x \in batch
    BY <1>1, <2>1 DEF BatchShape
  <2>2. CASE x \notin batch
    BY <1>1, <2>2, BatchesNext DEF BatchNext, BatchShape
  <2> QED
    BY <2>1, <2>2
<1>3. \A m : Of(m)' = Of(m)
  BY <1>1 DEF Onward, Of
<1> QED
  BY <1>2, <1>3 DEF BatchShape, IsBatch

\* A message that is not found is kept under its output, a new one or one
\* under which others are kept.
LEMMA NotFoundItems ==
    ASSUME TypeInv, NEW c \in calls, NotFound(c)
    PROVE  \E o \in Output : LET p == [msg |-> c.msg, by |-> c.by] IN
              /\ Of(c.msg) = {o} /\ Len(recovering) <= Len(recovering')
              /\ recovering' = [i \in 1..Len(recovering') |-> recovering'[i]]
              /\ Len(recovering') \in Nat
              /\ \A i \in 1..Len(recovering') :
                    \/ i \in 1..Len(recovering) /\ recovering'[i] = recovering[i]
                    \/ /\ i \in 1..Len(recovering) /\ recovering[i].of = o
                       /\ recovering'[i] = [recovering[i] EXCEPT !.payload = Append(@, p)]
                    \/ i \notin 1..Len(recovering) /\ recovering'[i] = [of |-> o, payload |-> <<p>>]
<1> DEFINE p == [msg |-> c.msg, by |-> c.by]
           o == CHOOSE x \in Of(c.msg) : TRUE
           known == {i \in DOMAIN recovering : recovering[i].of = o}
           new == [of |-> o, payload |-> <<p>>]
           R == [of : Output, payload : Seq(KeptType)]
<1>1. o \in Output /\ Of(c.msg) = {o}
  <2>1. c.msg \in Message /\ Of(c.msg) # {} /\ WorldInv
    BY DEF TypeInv, CallShape
  <2> QED
    BY <2>1, OfFacts
<1>2. p \in KeptType /\ recovering \in Seq(R)
  BY DEF TypeInv, CallShape, KeptType, KeptShape, Lists
<1>3. DOMAIN recovering = 1..Len(recovering) /\ Len(recovering) \in Nat
  BY <1>2, LenProperties
<1>4. recovering' = IF known = {} THEN Append(recovering, new)
                    ELSE [i \in DOMAIN recovering |->
                             IF i \in known THEN [recovering[i] EXCEPT !.payload = Append(@, p)] ELSE recovering[i]]
  BY DEF NotFound
<1> HIDE DEF o, p
<1>5. CASE known = {}
  <2>1. new \in R
    BY <1>1, <1>2
  <2>2. recovering' = Append(recovering, new)
    BY <1>4, <1>5
  <2> HIDE DEF known, new, R
  <2>3. /\ recovering' \in Seq(R) /\ Len(recovering') = Len(recovering) + 1
        /\ recovering'[Len(recovering) + 1] = new
        /\ \A i \in 1..Len(recovering) : recovering'[i] = recovering[i]
    BY <1>2, <2>1, <2>2, AppendProperties
  <2>4. recovering' = [i \in 1..Len(recovering') |-> recovering'[i]] /\ Len(recovering') \in Nat
    BY <2>3, LenProperties
  <2>5. \A i \in 1..Len(recovering') : i \in 1..Len(recovering) \/ i = Len(recovering) + 1
    BY <1>3, <2>3
  <2>6. Len(recovering) <= Len(recovering') /\ Len(recovering) + 1 \notin 1..Len(recovering)
    BY <1>3, <2>3
  <2> QED
    BY <1>1, <2>3, <2>4, <2>5, <2>6 DEF new, p
<1>6. CASE known # {}
  <2> DEFINE step(i) == IF i \in known THEN [recovering[i] EXCEPT !.payload = Append(@, p)] ELSE recovering[i]
  <2>1. recovering' = [i \in 1..Len(recovering) |-> step(i)]
    BY <1>3, <1>4, <1>6
  <2>2. \A i \in 1..Len(recovering) : recovering'[i] = step(i)
    BY <2>1
  <2>3. Len(recovering') = Len(recovering)
    <3>1. recovering' \in [1..Len(recovering) -> {step(i) : i \in 1..Len(recovering)}]
      BY <2>1
    <3> HIDE DEF step
    <3> QED
      BY <1>3, <3>1, EnumerationIsSeq
  <2>4. recovering' = [i \in 1..Len(recovering') |-> recovering'[i]]
    BY <2>1, <2>3
  <2>5. \A i \in 1..Len(recovering) : \/ recovering'[i] = recovering[i]
                                      \/ /\ recovering[i].of = o
                                         /\ recovering'[i] = [recovering[i] EXCEPT !.payload = Append(@, p)]
    BY <2>2
  <2> HIDE DEF known, step, R
  <2> QED
    BY <1>1, <1>3, <2>3, <2>4, <2>5 DEF p
<1> QED
  BY <1>5, <1>6

LEMMA NotFoundKeeps ==
    ASSUME TypeInv, NEW c \in calls, NotFound(c), NEW T, recovering \in Lists(T), [msg |-> c.msg, by |-> c.by] \in T
    PROVE  recovering' \in Lists(T)
<1> DEFINE p == [msg |-> c.msg, by |-> c.by]
           R == [of : Output, payload : Seq(T)]
<1>1. PICK o \in Output :
              /\ recovering' = [i \in 1..Len(recovering') |-> recovering'[i]] /\ Len(recovering') \in Nat
              /\ \A i \in 1..Len(recovering') :
                    \/ i \in 1..Len(recovering) /\ recovering'[i] = recovering[i]
                    \/ /\ i \in 1..Len(recovering)
                       /\ recovering'[i] = [recovering[i] EXCEPT !.payload = Append(@, p)]
                    \/ recovering'[i] = [of |-> o, payload |-> <<p>>]
  BY NotFoundItems
<1>2. \A i \in 1..Len(recovering) : recovering[i] \in R
  BY ElementOfSeq DEF Lists
<1>3. ASSUME NEW i \in 1..Len(recovering')
      PROVE  recovering'[i] \in R
  <2>1. p \in T
    OBVIOUS
  <2> HIDE DEF p
  <2>2. [of |-> o, payload |-> <<p>>] \in R
    BY <2>1
  <2>3. ASSUME NEW x \in R
        PROVE  [x EXCEPT !.payload = Append(@, p)] \in R
    <3>1. Append(x.payload, p) \in Seq(T)
      BY <2>1, AppendProperties
    <3> QED
      BY <3>1
  <2> HIDE DEF R
  <2> QED
    BY <1>1, <1>2, <2>2, <2>3
<1>4. recovering' \in [1..Len(recovering') -> R]
  <2> HIDE DEF R
  <2> QED
    BY <1>1, <1>3
<1> HIDE DEF R
<1>5. recovering' \in Seq(R)
  BY <1>1, <1>4, EnumerationIsSeq
<1> QED
  BY <1>5 DEF Lists, R

LEMMA NotFoundShape ==
    ASSUME TypeInv, NEW c \in calls, NotFound(c)
    PROVE  /\ \A i \in 1..Len(recovering') : ItemShape(recovering'[i])
           /\ \A i \in 1..Len(recovering) : /\ i \in 1..Len(recovering')
                                            /\ recovering'[i].of = recovering[i].of
<1> DEFINE p == [msg |-> c.msg, by |-> c.by]
           R == [of : Output, payload : Seq(KeptType)]
<1>1. PICK o \in Output :
              /\ Of(c.msg) = {o} /\ Len(recovering) <= Len(recovering') /\ Len(recovering') \in Nat
              /\ \A i \in 1..Len(recovering') :
                    \/ i \in 1..Len(recovering) /\ recovering'[i] = recovering[i]
                    \/ /\ i \in 1..Len(recovering) /\ recovering[i].of = o
                       /\ recovering'[i] = [recovering[i] EXCEPT !.payload = Append(@, p)]
                    \/ i \notin 1..Len(recovering) /\ recovering'[i] = [of |-> o, payload |-> <<p>>]
  BY NotFoundItems
<1>2. /\ \A i \in 1..Len(recovering) : recovering[i] \in R /\ ItemShape(recovering[i])
      /\ Len(recovering) \in Nat
  <2>1. recovering \in Seq(R) /\ \A i \in 1..Len(recovering) : ItemShape(recovering[i])
    BY DEF TypeInv, KeptShape, Lists
  <2> QED
    BY <2>1, ElementOfSeq, LenProperties
<1>3. p \in KeptType /\ Of(p.msg) = {o}
  BY <1>1 DEF TypeInv, CallShape, KeptType
<1> HIDE DEF p
<1>4. ASSUME NEW x \in R, ItemShape(x), x.of = o, NEW y, y = [x EXCEPT !.payload = Append(@, p)]
      PROVE  ItemShape(y) /\ y.of = x.of
  <2>1. y.of = x.of /\ y.payload = Append(x.payload, p) /\ x.payload \in Seq(KeptType)
    BY <1>4
  <2>2. /\ y.payload # <<>> /\ Len(y.payload) = Len(x.payload) + 1 /\ y.payload[Len(x.payload) + 1] = p
        /\ \A j \in 1..Len(x.payload) : y.payload[j] = x.payload[j]
    BY <1>3, <2>1, AppendProperties
  <2>3. Len(x.payload) \in Nat
    BY <2>1, LenProperties
  <2>4. \A j \in 1..Len(y.payload) : j \in 1..Len(x.payload) \/ j = Len(x.payload) + 1
    BY <2>2, <2>3
  <2>5. \A j \in 1..Len(x.payload) : Of(x.payload[j].msg) = {o}
    BY <1>4 DEF ItemShape
  <2>6. \A j \in 1..Len(y.payload) : Of(y.payload[j].msg) = {o}
    BY <1>3, <2>2, <2>4, <2>5
  <2> QED
    BY <1>4, <2>1, <2>2, <2>6 DEF ItemShape
<1>5. ASSUME NEW y, y = [of |-> o, payload |-> <<p>>]
      PROVE  ItemShape(y)
  <2>1. y.of = o /\ y.payload = <<p>>
    BY <1>5
  <2>2. y.payload # <<>> /\ Len(y.payload) = 1 /\ y.payload[1] = p
    BY <2>1
  <2>3. \A j \in 1..Len(y.payload) : y.payload[j] = p
    BY <2>2
  <2> QED
    BY <1>3, <2>1, <2>2, <2>3 DEF ItemShape
<1> HIDE DEF R
<1>6. ASSUME NEW i \in 1..Len(recovering')
      PROVE  /\ ItemShape(recovering'[i])
             /\ i \in 1..Len(recovering) => recovering'[i].of = recovering[i].of
  BY <1>1, <1>2, <1>4, <1>5, <1>6
<1>7. \A i \in 1..Len(recovering) : i \in 1..Len(recovering')
  BY <1>1, <1>2
<1> QED
  BY <1>6, <1>7

\* What the pass has to read are messages that were kept.
LEMMA QueriedReads ==
    ASSUME TypeInv, NEW r \in recovery, RecoveryQueried(r), NEW T, recovering \in Lists(T), toRead' # toRead
    PROVE  toRead' \in Seq(T)
<1>1. WorldInv /\ KeptShape /\ r.at = "query" /\ r.keys \in Seq(Output)
  BY DEF TypeInv, RecoveryQueried, KeptShape
<1> DEFINE Item(o) == recovering[CHOOSE i \in DOMAIN recovering : recovering[i].of = o]
           n == Len(r.keys)
<1>2. PICK found \in SUBSET (ToSet(r.keys) \cap ledger) :
          LET bad == {i \in DOMAIN r.keys : /\ r.keys[i] \in found
                                            /\ ~Readable(r.keys[i], Item(r.keys[i]).payload[1].by, account)}
              upTo == {i \in DOMAIN r.keys : \A b \in bad : i < b}
              good == {r.keys[i] : i \in upTo} \cap found
          IN  toRead' = FlattenSeq([i \in DOMAIN r.keys |-> IF r.keys[i] \in good THEN Item(r.keys[i]).payload ELSE <<>>])
  BY DEF RecoveryQueried
<1>3. PICK good : toRead' = FlattenSeq([i \in DOMAIN r.keys |-> IF r.keys[i] \in good THEN Item(r.keys[i]).payload ELSE <<>>])
  BY <1>2
<1>4. n \in Nat /\ DOMAIN r.keys = 1..n
  BY <1>1, LenProperties
<1>5. \A i \in 1..n : Item(r.keys[i]).payload \in Seq(T)
  <2>1. \A j \in 1..Len(recovering) : recovering[j].payload \in Seq(T)
    <3>1. \A j \in 1..Len(recovering) : recovering[j] \in [of : Output, payload : Seq(T)]
      BY ElementOfSeq DEF Lists
    <3> QED
      BY <3>1
  <2>2. \A i \in 1..n : \E j \in 1..Len(recovering) : Item(r.keys[i]) = recovering[j]
    BY <1>1, KeptItem
  <2> HIDE DEF Item
  <2> QED
    BY <2>1, <2>2
<1> HIDE DEF Item, n
<1> DEFINE ss == [i \in 1..n |-> IF r.keys[i] \in good THEN Item(r.keys[i]).payload ELSE <<>>]
<1>6. ss \in [1..n -> Seq(T)]
  <2>1. <<>> \in Seq(T)
    BY EmptySeq
  <2> QED
    BY <1>5, <2>1
<1>7. toRead' = FlattenSeq(ss)
  BY <1>3, <1>4
<1> HIDE DEF ss
<1>8. ss \in Seq(Seq(T))
  BY <1>4, <1>6, EnumerationIsSeq
<1> QED
  BY <1>7, <1>8, FlattenType

LEMMA ListsNext ==
    ASSUME [Next]_vars
    PROVE  /\ \/ recovering' = recovering \/ \E c \in calls : NotFound(c)
              \/ \E r \in recovery : RecoveryReplaces(r)
           /\ \/ toRead' = toRead \/ toRead' = <<>> \/ (toRead # <<>> /\ toRead' = Tail(toRead))
              \/ \E r \in recovery : RecoveryQueried(r)
<1> DEFINE Goal ==
        /\ \/ recovering' = recovering \/ \E c \in calls : NotFound(c)
           \/ \E r \in recovery : RecoveryReplaces(r)
        /\ \/ toRead' = toRead \/ toRead' = <<>> \/ (toRead # <<>> /\ toRead' = Tail(toRead))
           \/ \E r \in recovery : RecoveryQueried(r)
<1>1. ASSUME NEW m \in Message, Push(m)
      PROVE  Goal
  BY <1>1 DEF Push
<1>2. ASSUME NEW c \in calls, Answers(c)
      PROVE  Goal
  BY <1>2 DEF Answers, FetchAnswered, Decrypted, WaitEnds, KeepReading
<1>3. ASSUME RecoveryBegins
      PROVE  Goal
  BY <1>3 DEF RecoveryBegins
<1>4. ASSUME NEW r \in recovery, RecoveryQueried(r) \/ RecoveryReplaces(r) \/ RecoveryReads(r)
      PROVE  Goal
  <2>1. CASE RecoveryQueried(r)
    <3>1. recovering' = recovering
      BY <2>1 DEF RecoveryQueried
    <3> QED
      BY <2>1, <3>1
  <2>2. CASE RecoveryReplaces(r)
    <3>1. toRead' = toRead
      BY <2>2 DEF RecoveryReplaces
    <3> QED
      BY <2>2, <3>1
  <2>3. CASE RecoveryReads(r)
    BY <2>3 DEF RecoveryReads
  <2> QED
    BY <1>4, <2>1, <2>2, <2>3
<1>5. ASSUME BatchStep \/ \E list \in left.batches : BatchBegins(list)
      PROVE  Goal
  BY <1>5 DEF BatchStep, BatchBegins, BatchOutputs, BatchCached, BatchShared, BatchDecrypted, batchRest, pushVars
<1>6. ASSUME SendStep \/ Sends
      PROVE  Goal
  BY <1>6 DEF SendStep, Sends, ServiceAnswers, SharedFetched, SharedDecrypted, SharedSent, sendRest, pushVars
<1>7. ASSUME (\E o \in Output : Appears(o) \/ ServiceMoves(o)) \/ \E a \in Account : SwitchAddress(a)
      PROVE  Goal
  BY <1>7 DEF Appears, ServiceMoves, SwitchAddress, pushVars
<1>8. ASSUME UNCHANGED vars
      PROVE  Goal
  BY <1>8 DEF vars
<1> HIDE DEF Goal
<1>9. Goal
  BY <1>1, <1>2, <1>3, <1>4, <1>5, <1>6, <1>7, <1>8 DEF Next, Recovers
<1> QED
  BY <1>9 DEF Goal

LEMMA ListsStep ==
    ASSUME TypeInv, [Next]_vars, NEW T, recovering \in Lists(T), toRead \in Seq(T),
           \A c \in calls : [msg |-> c.msg, by |-> c.by] \in T
    PROVE  recovering' \in Lists(T) /\ toRead' \in Seq(T)
<1>1. recovering' \in Lists(T)
  <2>1. <<>> \in Lists(T)
    BY EmptySeq DEF Lists
  <2>2. ASSUME NEW r \in recovery, RecoveryReplaces(r)
        PROVE  recovering' = <<>>
    BY <2>2 DEF RecoveryReplaces
  <2> QED
    BY <2>1, <2>2, ListsNext, NotFoundKeeps
<1>2. toRead' \in Seq(T)
  <2>1. toRead # <<>> => Tail(toRead) \in Seq(T)
    BY HeadTailProperties
  <2>2. <<>> \in Seq(T)
    BY EmptySeq
  <2> QED
    BY <2>1, <2>2, ListsNext, QueriedReads
<1> QED
  BY <1>1, <1>2

LEMMA PassNext ==
    ASSUME TypeInv, [Next]_vars, NEW x \in recovery', x \notin recovery
    PROVE  IsPass(x) /\ (x.at = "query" => RecoveryBegins)
<1>0. \A r \in recovery : IsPass(r)
  BY DEF TypeInv, KeptShape
<1>1. ASSUME NEW m \in Message, Push(m)
      PROVE  FALSE
  BY <1>1 DEF Push, Reads, Throws
<1>2. ASSUME NEW c \in calls, Answers(c)
      PROVE  FALSE
  BY <1>2 DEF Answers, FetchAnswered, Decrypted, WaitEnds, NotFound, Rejects, Throws
<1>3. CASE RecoveryBegins
  <2>1. x = [at |-> "query", keys |-> [i \in DOMAIN recovering |-> recovering[i].of], seen |-> ledger]
    BY <1>3 DEF RecoveryBegins
  <2> QED
    BY <1>3, <2>1 DEF IsPass
<1>4. ASSUME NEW r \in recovery, NEW at \in {"replace", "read"}, x = [r EXCEPT !.at = at]
      PROVE  IsPass(x) /\ x.at # "query"
  <2>1. x = [at |-> at, keys |-> r.keys, seen |-> r.seen]
    BY <1>0, <1>4 DEF IsPass
  <2> QED
    BY <2>1 DEF IsPass
<1>5. ASSUME NEW r \in recovery, RecoveryQueried(r) \/ RecoveryReplaces(r) \/ RecoveryReads(r)
      PROVE  IsPass(x) /\ x.at # "query"
  <2>1. CASE RecoveryQueried(r)
    <3>1. recovery' = {} \/ recovery' = {[r EXCEPT !.at = "replace"]}
      BY <2>1 DEF RecoveryQueried
    <3> QED
      BY <1>4, <3>1
  <2>2. CASE RecoveryReplaces(r)
    BY <1>4, <2>2 DEF RecoveryReplaces
  <2>3. CASE RecoveryReads(r)
    BY <2>3 DEF RecoveryReads, Reads, Throws
  <2> QED
    BY <1>5, <2>1, <2>2, <2>3
<1>6. CASE BatchStep \/ \E list \in left.batches : BatchBegins(list)
  BY <1>6 DEF BatchStep, BatchBegins, BatchOutputs, BatchCached, BatchShared, BatchDecrypted, batchRest, pushVars
<1>7. CASE SendStep \/ Sends
  BY <1>7 DEF SendStep, Sends, ServiceAnswers, SharedFetched, SharedDecrypted, SharedSent, sendRest, pushVars
<1>8. CASE (\E o \in Output : Appears(o) \/ ServiceMoves(o)) \/ \E a \in Account : SwitchAddress(a)
  BY <1>8 DEF Appears, ServiceMoves, SwitchAddress, pushVars
<1>9. CASE UNCHANGED vars
  BY <1>9 DEF vars
<1> QED
  BY <1>1, <1>2, <1>3, <1>5, <1>6, <1>7, <1>8, <1>9 DEF Next, Recovers

LEMMA KeptShapeStep ==
    ASSUME TypeInv, [Next]_vars
    PROVE  KeptShape'
<1>1. Onward /\ KeptShape /\ CallShape
  BY WorldStep DEF TypeInv
<1>2. recovering' \in Lists(KeptType) /\ toRead' \in Seq(KeptType)
  <2>1. \A c \in calls : [msg |-> c.msg, by |-> c.by] \in KeptType
    BY <1>1 DEF CallShape, KeptType
  <2>2. recovering \in Lists(KeptType) /\ toRead \in Seq(KeptType)
    BY <1>1 DEF KeptShape
  <2> QED
    BY <2>1, <2>2, ListsStep
<1>3. \A i \in 1..Len(recovering') : ItemShape(recovering'[i])
  <2>1. CASE recovering' = recovering
    BY <1>1, <2>1 DEF KeptShape
  <2>2. ASSUME NEW r \in recovery, RecoveryReplaces(r)
        PROVE  \A i \in 1..Len(recovering') : ItemShape(recovering'[i])
    BY <2>2 DEF RecoveryReplaces
  <2> QED
    BY <2>1, <2>2, ListsNext, NotFoundShape
<1>4. ASSUME NEW x \in recovery'
      PROVE  /\ IsPass(x)
             /\ x.at = "query" => /\ x.keys \in Seq(Output)
                                  /\ \A k \in 1..Len(x.keys) :
                                         \E i \in 1..Len(recovering') : recovering'[i].of = x.keys[k]
  <2>1. CASE x \in recovery
    <3>1. CASE recovering' = recovering
      BY <1>1, <2>1, <3>1 DEF KeptShape
    <3>2. ASSUME NEW c \in calls, NotFound(c), x.at = "query"
          PROVE  /\ x.keys \in Seq(Output)
                 /\ \A k \in 1..Len(x.keys) : \E i \in 1..Len(recovering') : recovering'[i].of = x.keys[k]
      <4>1. /\ x.keys \in Seq(Output)
            /\ \A k \in 1..Len(x.keys) : \E i \in 1..Len(recovering) : recovering[i].of = x.keys[k]
        BY <1>1, <2>1, <3>2 DEF KeptShape
      <4>2. \A i \in 1..Len(recovering) : i \in 1..Len(recovering') /\ recovering'[i].of = recovering[i].of
        BY <3>2, NotFoundShape
      <4> QED
        BY <4>1, <4>2
    <3>3. ASSUME NEW r \in recovery, RecoveryReplaces(r)
          PROVE  IsPass(x) /\ x.at # "query"
      <4>1. x = [r EXCEPT !.at = "read"] /\ IsPass(r)
        BY <1>1, <3>3 DEF RecoveryReplaces, KeptShape
      <4>2. x = [at |-> "read", keys |-> r.keys, seen |-> r.seen]
        BY <4>1 DEF IsPass
      <4> QED
        BY <4>2 DEF IsPass
    <3>4. IsPass(x)
      BY <1>1, <2>1 DEF KeptShape
    <3> QED
      BY <3>1, <3>2, <3>3, <3>4, ListsNext
  <2>2. CASE x \notin recovery
    <3>1. IsPass(x) /\ (x.at = "query" => RecoveryBegins)
      BY <2>2, PassNext
    <3>2. ASSUME RecoveryBegins
          PROVE  /\ x.keys \in Seq(Output)
                 /\ \A k \in 1..Len(x.keys) : \E i \in 1..Len(recovering') : recovering'[i].of = x.keys[k]
      <4>1. recovering' = recovering /\ x.keys = [i \in DOMAIN recovering |-> recovering[i].of]
        BY <3>2 DEF RecoveryBegins
      <4>2. /\ DOMAIN recovering = 1..Len(recovering) /\ Len(recovering) \in Nat
            /\ \A i \in 1..Len(recovering) : recovering[i].of \in Output
        <5>1. recovering \in Seq([of : Output, payload : Seq(KeptType)])
          BY <1>1 DEF KeptShape, Lists
        <5>2. \A i \in 1..Len(recovering) : recovering[i] \in [of : Output, payload : Seq(KeptType)]
          BY <5>1, ElementOfSeq
        <5> QED
          BY <5>1, <5>2, LenProperties
      <4>3. x.keys \in [1..Len(recovering) -> Output]
        BY <4>1, <4>2
      <4>4. x.keys \in Seq(Output) /\ Len(x.keys) = Len(recovering)
        BY <4>2, <4>3, EnumerationIsSeq
      <4> QED
        BY <4>1, <4>2, <4>4
    <3> QED
      BY <3>1, <3>2
  <2> QED
    BY <2>1, <2>2
<1>5. \A m : Of(m)' = Of(m)
  BY <1>1 DEF Onward, Of
<1> QED
  BY <1>2, <1>3, <1>4, <1>5 DEF KeptShape, ItemShape, IsPass

LEMMA TypeStep ==
    ASSUME TypeInv, [Next]_vars
    PROVE  TypeInv'
BY WorldStep, CallShapeStep, SendShapeStep, BatchShapeStep, KeptShapeStep DEF TypeInv

LEMMA TypeInit ==
    ASSUME Init
    PROVE  TypeInv
<1>1. left \in BoundType /\ \A m \in Message : \A x, y \in left.of[m] : x = y
  BY BoundsAssumption DEF Init
<1>2. WorldInv
  BY <1>1 DEF Init, WorldInv, BoundType, Of, Salt
<1>3. CallShape /\ SendShape /\ BatchShape
  BY DEF Init, CallShape, SendShape, BatchShape
<1>4. KeptShape
  <2>1. recovering = <<>> /\ toRead = <<>> /\ recovery = {}
    BY DEF Init
  <2>2. <<>> \in Lists(KeptType) /\ <<>> \in Seq(KeptType)
    BY EmptySeq DEF Lists
  <2> QED
    BY <2>1, <2>2 DEF KeptShape
<1> QED
  BY <1>2, <1>3, <1>4 DEF TypeInv

-----------------------------------------------------------------------------
(* The salts.                                                              *)

\* A salt that gets into the cache was opened, or is that of an output just
\* made.
LEMMA CacheNext ==
    ASSUME SaltInv, [Next]_vars, NEW o \in Output
    PROVE  cache'[o] = cache[o] \/ cache'[o] = {} \/ (o \in ledger' /\ cache'[o] = {saltOf'[o]})
<1> DEFINE Goal == cache'[o] = cache[o] \/ cache'[o] = {} \/ (o \in ledger' /\ cache'[o] = {saltOf'[o]})
<1>0. WorldInv /\ CallShape /\ LedgerInv
  BY DEF SaltInv, TypeInv
<1>1. ASSUME NEW m \in Message, Push(m)
      PROVE  Goal
  BY <1>1 DEF Push
<1>2. ASSUME NEW c \in calls, Answers(c)
      PROVE  Goal
  <2>1. CASE cache' = cache
    BY <2>1
  <2>2. CASE cache' # cache
    <3>1. /\ c.at = "decrypt" /\ cache' = [p \in Output |-> IF p \in Of(c.msg) THEN {saltOf[p]} ELSE cache[p]]
          /\ ledger' = ledger /\ saltOf' = saltOf
      BY <1>2, <2>2 DEF Answers, FetchAnswered, Decrypted, WaitEnds, Rejects, world, saltVars
    <3>2. Of(c.msg) \subseteq ledger
      BY <1>0, <3>1 DEF LedgerInv
    <3> QED
      BY <3>1, <3>2
  <2> QED
    BY <2>1, <2>2
<1>3. ASSUME Recovers
      PROVE  Goal
  BY <1>3 DEF Recovers, RecoveryBegins, RecoveryQueried, RecoveryReplaces, RecoveryReads, saltVars
<1>4. ASSUME BatchStep \/ \E list \in left.batches : BatchBegins(list)
      PROVE  Goal
  <2>1. ASSUME NEW b \in batch, BatchDecrypted(b)
        PROVE  Goal
    <3> DEFINE open == {p \in b.found : \A k \in b.key : Readable(p, b.by, k)}
    <3>1. cache' = [p \in Output |-> IF p \in open THEN {saltOf[p]} ELSE cache[p]]
      BY <2>1 DEF BatchDecrypted
    <3>2. b.at = "decrypt" /\ ledger' = ledger /\ saltOf' = saltOf
      BY <2>1 DEF BatchDecrypted, batchRest, world
    <3>3. open \subseteq ledger
      BY <1>0, <3>2 DEF LedgerInv
    <3> HIDE DEF open
    <3> QED
      BY <3>1, <3>2, <3>3
  <2>2. CASE cache' = cache
    BY <2>2
  <2>3. cache' = cache \/ \E b \in batch : BatchDecrypted(b)
    BY <1>4 DEF BatchStep, BatchBegins, BatchOutputs, BatchCached, BatchShared
  <2> HIDE DEF Goal
  <2> QED
    BY <2>1, <2>2, <2>3
<1>5. ASSUME SendStep \/ Sends
      PROVE  Goal
  <2>1. ASSUME NEW p \in left.own \ ledger, NEW d, ledger' = ledger \union {p},
               saltOf' = [saltOf EXCEPT ![p] = d.salt], cache' = [cache EXCEPT ![p] = {d.salt}]
        PROVE  Goal
    BY <1>0, <2>1 DEF WorldInv, BoundType
  <2>2. CASE cache' = cache
    BY <2>2
  <2>3. \/ cache' = cache
        \/ \E d \in send : \E p \in left.own \ ledger :
              /\ ledger' = ledger \union {p}
              /\ saltOf' = [saltOf EXCEPT ![p] = d.salt] /\ cache' = [cache EXCEPT ![p] = {d.salt}]
    BY <1>5 DEF SendStep, Sends, ServiceAnswers, SharedFetched, SharedDecrypted, SharedSent
  <2> HIDE DEF Goal
  <2> QED
    BY <2>1, <2>2, <2>3
<1>6. ASSUME NEW p \in Output, Appears(p) \/ ServiceMoves(p)
      PROVE  Goal
  BY <1>6 DEF Appears, ServiceMoves, saltVars
<1>7. ASSUME NEW a \in Account, SwitchAddress(a)
      PROVE  Goal
  BY <1>7 DEF SwitchAddress
<1>8. ASSUME UNCHANGED vars
      PROVE  Goal
  BY <1>8 DEF vars
<1> HIDE DEF Goal
<1>9. Goal
  BY <1>1, <1>2, <1>3, <1>4, <1>5, <1>6, <1>7, <1>8 DEF Next
<1> QED
  BY <1>9 DEF Goal

\* A message that is sent names an output on the node, and has its salt.
Right(w) == w.of \subseteq ledger' /\ \A o \in w.of : w.salt = saltOf'[o]

LEMMA SentNext ==
    ASSUME SaltInv, [Next]_vars, NEW w \in sent', w \notin sent
    PROVE  Right(w)
<1>0. WorldInv /\ SendShape /\ LedgerInv /\ SaltsAreRight
  BY DEF SaltInv, TypeInv
<1>1. ASSUME NEW d \in send, ServiceAnswers(d)
      PROVE  Right(w)
  <2>1. \/ \E o \in service : \E salt \in cache[o] : w = [of |-> {o}, salt |-> salt]
        \/ w = [of |-> {}, salt |-> 0]
    BY <1>1 DEF ServiceAnswers, Finish
  <2>2. ledger' = ledger /\ saltOf' = saltOf
    BY <1>1 DEF ServiceAnswers, world
  <2>3. ASSUME NEW o \in service, NEW salt \in cache[o]
        PROVE  o \in ledger /\ salt = saltOf[o]
    BY <1>0 DEF WorldInv, SaltsAreRight
  <2> QED
    BY <2>1, <2>2, <2>3 DEF Right
<1>2. ASSUME NEW d \in send, SharedFetched(d)
      PROVE  FALSE
  BY <1>2 DEF SharedFetched
<1>3. ASSUME NEW d \in send, SharedDecrypted(d)
      PROVE  Right(w)
  <2>1. PICK o \in d.of : w = [of |-> d.of, salt |-> saltOf[o]]
    BY <1>3 DEF SharedDecrypted, Finish
  <2>2. d.of \subseteq ledger /\ \A p \in d.of : p = o
    BY <1>0, <1>3, <2>1 DEF SharedDecrypted, LedgerInv, SendShape
  <2>3. ledger' = ledger /\ saltOf' = saltOf
    BY <1>3 DEF SharedDecrypted, world
  <2> QED
    BY <2>1, <2>2, <2>3 DEF Right
<1>4. ASSUME NEW d \in send, SharedSent(d)
      PROVE  Right(w)
  <2>1. PICK o \in left.own \ ledger :
              /\ ledger' = ledger \union {o} /\ saltOf' = [saltOf EXCEPT ![o] = d.salt]
              /\ w = [of |-> {o}, salt |-> d.salt]
    BY <1>4 DEF SharedSent, Finish
  <2>2. saltOf'[o] = d.salt
    BY <1>0, <2>1 DEF WorldInv, BoundType
  <2> QED
    BY <2>1, <2>2 DEF Right
<1>5. ASSUME NEW m \in Message, Push(m)
      PROVE  FALSE
  BY <1>5 DEF Push, sendVars
<1>6. ASSUME NEW c \in calls, Answers(c)
      PROVE  FALSE
  BY <1>6 DEF Answers, FetchAnswered, Decrypted, WaitEnds, sendVars
<1>7. ASSUME Recovers
      PROVE  FALSE
  BY <1>7 DEF Recovers, RecoveryBegins, RecoveryQueried, RecoveryReplaces, RecoveryReads, sendVars
<1>8. ASSUME BatchStep \/ \E list \in left.batches : BatchBegins(list)
      PROVE  FALSE
  BY <1>8 DEF BatchStep, BatchBegins, BatchOutputs, BatchCached, BatchShared, BatchDecrypted, batchRest, sendVars
<1>9. ASSUME (\E o \in Output : Appears(o) \/ ServiceMoves(o)) \/ \E a \in Account : SwitchAddress(a)
      PROVE  FALSE
  BY <1>9 DEF Appears, ServiceMoves, SwitchAddress, sendVars
<1>10. ASSUME Sends \/ UNCHANGED vars
       PROVE  FALSE
  BY <1>10 DEF Sends, vars
<1> QED
  BY <1>1, <1>2, <1>3, <1>4, <1>5, <1>6, <1>7, <1>8, <1>9, <1>10 DEF Next, SendStep

LEMMA LedgerStep ==
    ASSUME SaltInv, [Next]_vars
    PROVE  LedgerInv'
<1>1. Onward /\ LedgerInv /\ TypeInv
  BY WorldStep DEF SaltInv
<1>2. ASSUME NEW x \in calls', x.at = "decrypt"
      PROVE  Of(x.msg) \subseteq ledger'
  <2>1. CASE x \in calls
    BY <1>1, <1>2, <2>1 DEF LedgerInv, Onward
  <2>2. CASE Begun(x)
    BY <1>2, <2>2 DEF Begun
  <2>3. CASE Continued(x)
    BY <1>1, <1>2, <2>3 DEF Continued, Onward
  <2> QED
    BY <1>1, <2>1, <2>2, <2>3, CallsNext
<1>3. ASSUME NEW x \in batch', x.at = "decrypt"
      PROVE  x.found \subseteq ledger'
  <2>1. x.found \subseteq ledger
    BY <1>1, <1>3, BatchesNext DEF BatchNext, LedgerInv
  <2> QED
    BY <1>1, <2>1 DEF Onward
<1>4. ASSUME NEW x \in send', x.at = "decrypt"
      PROVE  x.of \subseteq ledger'
  <2>1. x.of \subseteq ledger
    BY <1>1, <1>4, SendsNext DEF SendNext, LedgerInv
  <2> QED
    BY <1>1, <2>1 DEF Onward
<1>5. \A w \in sent' : w.of \subseteq ledger'
  BY <1>1, SentNext DEF Right, LedgerInv, Onward
<1>6. \A m : Of(m)' = Of(m)
  BY <1>1 DEF Onward, Of
<1> QED
  BY <1>2, <1>3, <1>4, <1>5, <1>6 DEF LedgerInv

LEMMA SaltStep ==
    ASSUME SaltInv, [Next]_vars
    PROVE  SaltInv'
<1>1. TypeInv' /\ Onward /\ LedgerInv /\ SaltsAreRight /\ LedgerInv'
  BY TypeStep, WorldStep, LedgerStep DEF SaltInv
<1>2. ASSUME NEW o \in Output, NEW s \in cache'[o]
      PROVE  s = saltOf'[o] /\ o \in ledger'
  <2>1. CASE cache'[o] = cache[o]
    BY <1>1, <2>1 DEF SaltsAreRight, Onward
  <2> QED
    BY <1>2, <2>1, CacheNext
<1>3. ASSUME NEW w \in sent', NEW o \in w.of
      PROVE  w.salt = saltOf'[o]
  <2>1. CASE w \in sent
    BY <1>1, <2>1 DEF SaltsAreRight, LedgerInv, Onward
  <2> QED
    BY <2>1, SentNext DEF Right
<1> QED
  BY <1>1, <1>2, <1>3 DEF SaltInv, SaltsAreRight

LEMMA SaltInit ==
    ASSUME Init
    PROVE  SaltInv
BY TypeInit DEF Init, SaltInv, LedgerInv, SaltsAreRight

\* Whatever is in the cache for a shared output is the salt in it, and that
\* output is on the node; a message is written with the salt of the output it
\* names: however pushes, the recovery, batches, sends and switches of the
\* account interleave.  What is about to be decrypted was found on the node
\* before, which is what the invariant adds.
THEOREM SaltsRight == Spec => []SaltsAreRight
<1>1. SaltInv /\ UNCHANGED vars => SaltInv'
  BY SaltStep
<1>2. SaltInv => SaltsAreRight
  BY DEF SaltInv
<1> QED
  BY SaltInit, SaltStep, <1>1, <1>2, PTL DEF Spec

-----------------------------------------------------------------------------
(* The readers.                                                            *)

MayRead(by, os) == \A o \in os : by \in readers[o] \/ o \in straddled

LEMMA MineReads ==
    ASSUME CacheInv, NEW by, NEW os \in SUBSET Output, Mine(by, os), \A o \in os : cache[o] # {}
    PROVE  MayRead(by, os)
BY DEF CacheInv, Mine, MayRead

\* What is read by Reads is in the cache, or public.
LEMMA ReadsDelivers ==
    ASSUME TypeInv, CacheInv, NEW m \in Message, NEW by, NEW source, Reads(m, by, source), Mine(by, Of(m)),
           NEW d \in delivered', d \notin delivered
    PROVE  MayRead(d[2], Of(d[1]))
<1>1. Of(m) \subseteq Output /\ \A x, y \in Of(m) : x = y
  BY OfFacts DEF TypeInv
<1>2. d = <<m, by>> /\ \A o \in Of(m) : cache[o] # {}
  BY <1>1 DEF Reads, Delivers
<1> QED
  BY <1>1, <1>2, MineReads

LEMMA AnswersDeliver ==
    ASSUME TypeInv, CallInv, NEW c \in calls, Answers(c), NEW d \in delivered', d \notin delivered
    PROVE  MayRead(d[2], Of(d[1]))
<1>1. CASE FetchAnswered(c)
  BY <1>1 DEF FetchAnswered
<1>2. CASE Decrypted(c)
  <2>1. d = <<c.msg, c.by>> /\ c.at = "decrypt" /\ \A p \in Of(c.msg), k \in c.key : Readable(p, c.by, k)
    BY <1>2 DEF Decrypted, Delivers
  <2>2. PICK k : k \in c.key
    BY <2>1 DEF TypeInv, CallShape
  <2> QED
    BY <2>1, <2>2 DEF Readable, MayRead
<1>3. CASE WaitEnds(c)
  BY <1>3 DEF WaitEnds, Delivers, CallInv, MayRead
<1> QED
  BY <1>1, <1>2, <1>3 DEF Answers

LEMMA BatchDeliversRight ==
    ASSUME TypeInv, CacheInv, BatchInv, BatchStep, NEW d \in delivered', d \notin delivered
    PROVE  MayRead(d[2], Of(d[1]))
<1>0. \A m \in Message : Of(m) \subseteq Output
  BY OfFacts DEF TypeInv
<1>1. ASSUME NEW b \in batch, BatchOutputs(b)
      PROVE  MayRead(d[2], Of(d[1]))
  <2>1. PICK m : d = <<m, b.by>> /\ Of(m) = {}
    BY <1>1 DEF BatchOutputs, BatchDelivers
  <2> QED
    BY <2>1 DEF MayRead
<1>2. ASSUME NEW b \in batch, BatchCached(b)
      PROVE  MayRead(d[2], Of(d[1]))
  <2>1. PICK m \in ToSet(b.asked) : d = <<m, b.by>> /\ \A o \in Of(m) : cache[o] # {}
    BY <1>2 DEF BatchCached, BatchDelivers
  <2>2. m \in Message
    <3>1. b.asked \in Seq(Message)
      BY DEF TypeInv, BatchShape
    <3> QED
      BY <2>1, <3>1, LenProperties, ElementOfSeq DEF ToSet
  <2>3. Mine(b.by, Of(m))
    BY <2>1 DEF BatchInv
  <2> QED
    BY <1>0, <2>1, <2>2, <2>3, MineReads
<1>3. ASSUME NEW b \in batch, BatchShared(b)
      PROVE  FALSE
  BY <1>3 DEF BatchShared
<1>4. ASSUME NEW b \in batch, BatchDecrypted(b)
      PROVE  MayRead(d[2], Of(d[1]))
  <2>1. PICK m : /\ d = <<m, b.by>> /\ b.at = "decrypt"
                 /\ \A o \in Of(m), k \in b.key : Readable(o, b.by, k)
    BY <1>4 DEF BatchDecrypted, BatchDelivers
  <2>2. PICK k : k \in b.key
    BY <2>1 DEF TypeInv, BatchShape
  <2> QED
    BY <2>1, <2>2 DEF Readable, MayRead
<1> QED
  BY <1>1, <1>2, <1>3, <1>4 DEF BatchStep

LEMMA DeliveredNext ==
    ASSUME ReadInv, [Next]_vars, NEW d \in delivered', d \notin delivered
    PROVE  MayRead(d[2], Of(d[1]))
<1>0. TypeInv /\ KeptInv /\ CallInv /\ BatchInv /\ CacheInv
  BY DEF ReadInv
<1>1. ASSUME NEW m \in Message, Push(m)
      PROVE  MayRead(d[2], Of(d[1]))
  <2>1. Reads(m, account, "push") /\ Mine(account, Of(m))
    BY <1>1 DEF Push, Mine
  <2> QED
    BY <1>0, <2>1, ReadsDelivers
<1>2. ASSUME NEW c \in calls, Answers(c)
      PROVE  MayRead(d[2], Of(d[1]))
  BY <1>0, <1>2, AnswersDeliver
<1>3. ASSUME NEW r \in recovery, RecoveryReads(r)
      PROVE  MayRead(d[2], Of(d[1]))
  <2>1. toRead # <<>> /\ Reads(Head(toRead).msg, Head(toRead).by, "recovery")
    BY <1>3 DEF RecoveryReads
  <2>2. Head(toRead) \in Kept
    BY <1>0, <2>1, HeadTailProperties DEF KeptInv
  <2>3. Head(toRead).msg \in Message /\ Mine(Head(toRead).by, Of(Head(toRead).msg))
    BY <2>2 DEF Kept, KeptType
  <2> QED
    BY <1>0, <2>1, <2>3, ReadsDelivers
<1>4. ASSUME BatchStep
      PROVE  MayRead(d[2], Of(d[1]))
  BY <1>0, <1>4, BatchDeliversRight
<1>5. ASSUME RecoveryBegins \/ \E r \in recovery : RecoveryQueried(r) \/ RecoveryReplaces(r)
      PROVE  FALSE
  BY <1>5 DEF RecoveryBegins, RecoveryQueried, RecoveryReplaces
<1>6. ASSUME SendStep \/ Sends \/ \E list \in left.batches : BatchBegins(list)
      PROVE  FALSE
  BY <1>6 DEF SendStep, Sends, ServiceAnswers, SharedFetched, SharedDecrypted, SharedSent, sendRest, BatchBegins
<1>7. ASSUME (\E o \in Output : Appears(o) \/ ServiceMoves(o)) \/ \E a \in Account : SwitchAddress(a)
      PROVE  FALSE
  BY <1>7 DEF Appears, ServiceMoves, SwitchAddress
<1>8. ASSUME UNCHANGED vars
      PROVE  FALSE
  BY <1>8 DEF vars
<1> QED
  BY <1>1, <1>2, <1>3, <1>4, <1>5, <1>6, <1>7, <1>8 DEF Next, Recovers

\* A salt gets into the cache when it was opened for the account, or was made
\* here.
LEMMA CacheMine ==
    ASSUME ReadInv, [Next]_vars, NEW o \in Output, cache'[o] # cache[o], cache'[o] # {}
    PROVE  (account' = account /\ account \in readers[o]) \/ o \in straddled'
<1> DEFINE Goal == (account' = account /\ account \in readers[o]) \/ o \in straddled'
<1>0. TypeInv /\ WorldInv /\ CallShape /\ BatchShape /\ CallInv /\ BatchInv /\ straddled \subseteq straddled'
  BY WorldStep DEF ReadInv, TypeInv, Onward
<1>1. ASSUME NEW by, NEW os, Mine(by, os), o \in os, NEW k, Readable(o, by, k), account' = account
      PROVE  Goal
  BY <1>0, <1>1 DEF Mine, Readable
<1>2. ASSUME NEW c \in calls, Answers(c)
      PROVE  Goal
  <2>1. /\ c.at = "decrypt" /\ o \in Of(c.msg) /\ account' = account
        /\ \A p \in Of(c.msg), k \in c.key : Readable(p, c.by, k)
    BY <1>0, <1>2 DEF Answers, FetchAnswered, Decrypted, WaitEnds, Rejects, saltVars, WorldInv
  <2>2. PICK k : k \in c.key
    BY <1>0, <2>1 DEF CallShape
  <2>3. Readable(o, c.by, k) /\ Mine(c.by, Of(c.msg))
    BY <1>0, <2>1, <2>2 DEF CallInv
  <2> HIDE DEF Goal
  <2> QED
    BY <1>1, <2>1, <2>3
<1>3. ASSUME NEW b \in batch, BatchDecrypted(b)
      PROVE  Goal
  <2> DEFINE open == {p \in b.found : \A k \in b.key : Readable(p, b.by, k)}
  <2>1. b.at = "decrypt" /\ account' = account
    BY <1>3 DEF BatchDecrypted, batchRest
  <2>2. cache' = [p \in Output |-> IF p \in open THEN {saltOf[p]} ELSE cache[p]]
    BY <1>3 DEF BatchDecrypted
  <2>3. o \in open
    <3> HIDE DEF open
    <3> QED
      BY <2>2
  <2>4. PICK k : k \in b.key
    BY <1>0, <2>1 DEF BatchShape
  <2>5. PICK m \in b.late : o \in Of(m)
    BY <1>0, <2>1, <2>3 DEF BatchShape
  <2>6. Mine(b.by, Of(m)) /\ Readable(o, b.by, k)
    BY <1>0, <2>3, <2>4, <2>5 DEF BatchShape, BatchInv
  <2> HIDE DEF Goal
  <2> QED
    BY <1>1, <2>1, <2>5, <2>6
<1>4. ASSUME NEW d \in send, SharedSent(d)
      PROVE  Goal
  <2>1. PICK p \in left.own : /\ cache' = [cache EXCEPT ![p] = {d.salt}] /\ account' = account
                              /\ straddled' = straddled \union (IF account \in readers[p] THEN {} ELSE {p})
    BY <1>4 DEF SharedSent, sendRest
  <2>2. p = o
    BY <1>0, <2>1 DEF WorldInv
  <2> QED
    BY <2>1, <2>2
<1>5. ASSUME NEW a \in Account, SwitchAddress(a)
      PROVE  FALSE
  BY <1>5 DEF SwitchAddress
<1>6. \/ cache' = cache \/ (\E c \in calls : Answers(c)) \/ (\E b \in batch : BatchDecrypted(b))
      \/ (\E d \in send : SharedSent(d)) \/ \E a \in Account : SwitchAddress(a)
  <2>1. ASSUME NEW m \in Message, Push(m)
        PROVE  cache' = cache
    BY <2>1 DEF Push
  <2>2. ASSUME Recovers
        PROVE  cache' = cache
    BY <2>2 DEF Recovers, RecoveryBegins, RecoveryQueried, RecoveryReplaces, RecoveryReads, saltVars
  <2>3. ASSUME BatchStep \/ \E list \in left.batches : BatchBegins(list)
        PROVE  cache' = cache \/ \E b \in batch : BatchDecrypted(b)
    BY <2>3 DEF BatchStep, BatchBegins, BatchOutputs, BatchCached, BatchShared
  <2>4. ASSUME SendStep \/ Sends
        PROVE  cache' = cache \/ \E d \in send : SharedSent(d)
    BY <2>4 DEF SendStep, Sends, ServiceAnswers, SharedFetched, SharedDecrypted
  <2>5. ASSUME NEW p \in Output, Appears(p) \/ ServiceMoves(p)
        PROVE  cache' = cache
    BY <2>5 DEF Appears, ServiceMoves, saltVars
  <2>6. CASE UNCHANGED vars
    BY <2>6 DEF vars
  <2> QED
    BY <2>1, <2>2, <2>3, <2>4, <2>5, <2>6 DEF Next
<1> HIDE DEF Goal
<1>7. Goal
  BY <1>2, <1>3, <1>4, <1>5, <1>6
<1> QED
  BY <1>7 DEF Goal

\* What is under way stays the account's or was under way as that was
\* switched.
MineNext(by, os) == by = account' \/ os \subseteq straddled'

LEMMA AccountNext ==
    ASSUME [Next]_vars
    PROVE  account' = account \/ \E a \in Account : SwitchAddress(a)
<1>1. ASSUME NEW m \in Message, Push(m)
      PROVE  account' = account
  BY <1>1 DEF Push
<1>2. ASSUME NEW c \in calls, Answers(c)
      PROVE  account' = account
  BY <1>2 DEF Answers, FetchAnswered, Decrypted, WaitEnds
<1>3. ASSUME Recovers
      PROVE  account' = account
  BY <1>3 DEF Recovers, RecoveryBegins, RecoveryQueried, RecoveryReplaces, RecoveryReads
<1>4. ASSUME BatchStep \/ \E list \in left.batches : BatchBegins(list)
      PROVE  account' = account
  BY <1>4 DEF BatchStep, BatchBegins, BatchOutputs, BatchCached, BatchShared, BatchDecrypted, batchRest
<1>5. ASSUME SendStep \/ Sends
      PROVE  account' = account
  BY <1>5 DEF SendStep, Sends, ServiceAnswers, SharedFetched, SharedDecrypted, SharedSent, sendRest
<1>6. ASSUME NEW o \in Output, Appears(o) \/ ServiceMoves(o)
      PROVE  account' = account
  BY <1>6 DEF Appears, ServiceMoves
<1>7. ASSUME UNCHANGED vars
      PROVE  account' = account
  BY <1>7 DEF vars
<1> QED
  BY <1>1, <1>2, <1>3, <1>4, <1>5, <1>6, <1>7 DEF Next

LEMMA SwitchKeeps ==
    ASSUME TypeInv, NEW a \in Account, SwitchAddress(a)
    PROVE  /\ \A c \in calls : Of(c.msg) \subseteq straddled'
           /\ \A i \in 1..Len(recovering) : \A j \in 1..Len(recovering[i].payload) :
                 Of(recovering[i].payload[j].msg) \subseteq straddled'
           /\ \A j \in 1..Len(toRead) : Of(toRead[j].msg) \subseteq straddled'
           /\ \A b \in batch : \A m \in ToSet(b.asked) : Of(m) \subseteq straddled'
           /\ UNCHANGED <<calls, recovering, toRead, batch>> /\ cache' = [o \in Output |-> {}]
<1> DEFINE ms == {c.msg : c \in calls} \union PayloadOf(recovering) \union {p.msg : p \in ToSet(toRead)}
                     \union UNION {ToSet(b.asked) : b \in batch}
<1>1. UnderWay \subseteq straddled'
  BY DEF SwitchAddress
<1>2. \A m \in ms : Of(m) \subseteq straddled'
  <2>1. UnderWay = UNION {Of(m) : m \in ms} \union UNION {d.of : d \in send}
    BY DEF UnderWay
  <2> HIDE DEF ms
  <2> QED
    BY <1>1, <2>1
<1>3. \A c \in calls : c.msg \in ms
  OBVIOUS
<1>4. ASSUME NEW i \in 1..Len(recovering), NEW j \in 1..Len(recovering[i].payload)
      PROVE  recovering[i].payload[j].msg \in ms
  <2>1. recovering \in Seq([of : Output, payload : Seq(KeptType)])
    BY DEF TypeInv, KeptShape, Lists
  <2>2. recovering[i] \in [of : Output, payload : Seq(KeptType)]
    BY <2>1, ElementOfSeq
  <2>3. i \in DOMAIN recovering /\ j \in DOMAIN recovering[i].payload
    BY <2>1, <2>2, LenProperties
  <2>4. recovering[i].payload[j].msg \in PayloadOf(recovering)
    BY <2>3 DEF PayloadOf, ToSet
  <2> QED
    BY <2>4
<1>5. ASSUME NEW j \in 1..Len(toRead)
      PROVE  toRead[j].msg \in ms
  <2>1. toRead \in Seq(KeptType)
    BY DEF TypeInv, KeptShape
  <2>2. toRead[j] \in ToSet(toRead)
    BY <2>1, LenProperties DEF ToSet
  <2> QED
    BY <2>2
<1>6. \A b \in batch : \A m \in ToSet(b.asked) : m \in ms
  OBVIOUS
<1>7. UNCHANGED <<calls, recovering, toRead, batch>> /\ cache' = [o \in Output |-> {}]
  BY DEF SwitchAddress, pushVars
<1> HIDE DEF ms
<1> QED
  BY <1>2, <1>3, <1>4, <1>5, <1>6, <1>7

LEMMA MineStays ==
    ASSUME Onward, account' = account, NEW by, NEW os, Mine(by, os)
    PROVE  MineNext(by, os)
BY DEF Mine, MineNext, Onward

LEMMA KeptStep ==
    ASSUME ReadInv, [Next]_vars
    PROVE  KeptInv'
<1>1. Onward /\ TypeInv /\ TypeInv' /\ KeptInv /\ CallInv
  BY WorldStep, TypeStep DEF ReadInv
<1> DEFINE K == {p \in KeptType : MineNext(p.by, Of(p.msg))}
<1>2. Kept' = K
  BY <1>1 DEF Kept, KeptType, Mine, MineNext, Of, Onward
<1>3. recovering' \in Lists(K) /\ toRead' \in Seq(K)
  <2>1. CASE account' = account
    <3>1. Kept \subseteq K
      BY <1>1, <2>1, MineStays DEF Kept
    <3>2. \A c \in calls : [msg |-> c.msg, by |-> c.by] \in Kept
      BY <1>1 DEF CallInv, TypeInv, CallShape, Kept, KeptType
    <3>3. recovering' \in Lists(Kept) /\ toRead' \in Seq(Kept)
      BY <1>1, <3>2, ListsStep DEF KeptInv
    <3> HIDE DEF K
    <3>4. toRead' \in Seq(K)
      BY <3>1, <3>3, ElementOfSeq, SeqWithin
    <3>5. \A s \in Seq(Kept) : s \in Seq(K)
      BY <3>1, ElementOfSeq, SeqWithin
    <3>6. [of : Output, payload : Seq(Kept)] \subseteq [of : Output, payload : Seq(K)]
      BY <3>5
    <3>7. recovering' \in Lists(K)
      <4> DEFINE R == [of : Output, payload : Seq(Kept)]
                 S == [of : Output, payload : Seq(K)]
      <4>1. recovering' \in Seq(R) /\ R \subseteq S
        BY <3>3, <3>6 DEF Lists
      <4> HIDE DEF R, S
      <4>2. recovering' \in Seq(S)
        BY <4>1, ElementOfSeq, SeqWithin
      <4> QED
        BY <4>2 DEF Lists, S
    <3> QED
      BY <3>4, <3>7
  <2>2. ASSUME NEW a \in Account, SwitchAddress(a)
        PROVE  recovering' \in Lists(K) /\ toRead' \in Seq(K)
    <3>1. /\ \A i \in 1..Len(recovering) : \A j \in 1..Len(recovering[i].payload) :
                 Of(recovering[i].payload[j].msg) \subseteq straddled'
          /\ \A j \in 1..Len(toRead) : Of(toRead[j].msg) \subseteq straddled'
          /\ UNCHANGED <<recovering, toRead>>
      BY <1>1, <2>2, SwitchKeeps
    <3>2. recovering \in Seq([of : Output, payload : Seq(KeptType)]) /\ toRead \in Seq(KeptType)
      BY <1>1 DEF TypeInv, KeptShape, Lists
    <3>3. toRead \in Seq(K)
      <4>1. \A j \in 1..Len(toRead) : toRead[j] \in K
        BY <3>1, <3>2, ElementOfSeq DEF MineNext
      <4> HIDE DEF K
      <4> QED
        BY <3>2, <4>1, SeqWithin
    <3>4. ASSUME NEW i \in 1..Len(recovering)
          PROVE  recovering[i] \in [of : Output, payload : Seq(K)]
      <4>1. recovering[i] \in [of : Output, payload : Seq(KeptType)]
        BY <3>2, ElementOfSeq
      <4>2. recovering[i].payload \in Seq(KeptType)
        BY <4>1
      <4>3. \A j \in 1..Len(recovering[i].payload) : recovering[i].payload[j] \in K
        BY <3>1, <4>2, ElementOfSeq DEF MineNext
      <4> HIDE DEF K
      <4>4. recovering[i].payload \in Seq(K)
        BY <4>2, <4>3, SeqWithin
      <4> QED
        BY <4>1, <4>4
    <3>5. recovering \in Lists(K)
      <4> DEFINE S == [of : Output, payload : Seq(K)]
      <4>1. \A i \in 1..Len(recovering) : recovering[i] \in S
        BY <3>4
      <4> HIDE DEF S
      <4>2. recovering \in Seq(S)
        BY <3>2, <4>1, SeqWithin
      <4> QED
        BY <4>2 DEF S, Lists
    <3> QED
      BY <3>1, <3>3, <3>5
  <2> QED
    BY <2>1, <2>2, AccountNext
<1>4. Lists(Kept)' = Lists(K) /\ Seq(Kept)' = Seq(K)
  BY <1>2 DEF Lists
<1> QED
  BY <1>3, <1>4 DEF KeptInv

LEMMA CallStep ==
    ASSUME ReadInv, [Next]_vars
    PROVE  CallInv'
<1>1. Onward /\ TypeInv /\ KeptInv /\ CallInv
  BY WorldStep DEF ReadInv
<1> DEFINE Fine(x) == /\ MineNext(x.by, Of(x.msg))
                      /\ x.at = "resolved" => \A o \in Of(x.msg) : x.by \in readers[o] \/ o \in straddled'
<1>2. ASSUME NEW x \in calls'
      PROVE  Fine(x)
  <2>1. ASSUME NEW a \in Account, SwitchAddress(a)
        PROVE  Fine(x)
    <3>1. x \in calls /\ Of(x.msg) \subseteq straddled'
      BY <1>1, <2>1, SwitchKeeps
    <3> QED
      BY <3>1 DEF MineNext
  <2>2. ASSUME account' = account, x \in calls
        PROVE  Fine(x)
    <3>1. MineNext(x.by, Of(x.msg))
      BY <1>1, <2>2, MineStays DEF CallInv
    <3> QED
      BY <1>1, <2>2, <3>1 DEF CallInv, Onward
  <2>3. ASSUME account' = account, Begun(x)
        PROVE  Fine(x)
    <3>1. x.by = account \/ Mine(x.by, Of(x.msg))
      <4>1. toRead # <<>> => Head(toRead) \in Kept
        BY <1>1, HeadTailProperties DEF KeptInv
      <4> QED
        BY <2>3, <4>1 DEF Begun, Kept
    <3>2. Mine(x.by, Of(x.msg)) /\ x.at # "resolved"
      BY <2>3, <3>1 DEF Mine, Begun
    <3> QED
      BY <1>1, <2>3, <3>2, MineStays
  <2>4. ASSUME account' = account, Continued(x)
        PROVE  Fine(x)
    <3>1. PICK c \in calls : /\ x.msg = c.msg /\ x.by = c.by
                             /\ x.at = "resolved" => \A o \in Of(c.msg) : Opened(o)
      BY <2>4 DEF Continued
    <3>2. Mine(x.by, Of(x.msg))
      BY <1>1, <3>1 DEF CallInv
    <3>3. ASSUME NEW o \in Of(x.msg), Opened(o)
          PROVE  x.by \in readers[o] \/ o \in straddled
      <4>1. PICK by \in readers[o] : by = account \/ \E e \in calls : e.by = by /\ o \in Of(e.msg)
        BY <3>3 DEF Opened
      <4>2. account \in readers[o] \/ o \in straddled
        BY <1>1, <4>1 DEF CallInv, Mine
      <4> QED
        BY <3>2, <4>2 DEF Mine
    <3> QED
      BY <1>1, <2>4, <3>1, <3>2, <3>3, MineStays DEF Onward
  <2> HIDE DEF Fine
  <2> QED
    BY <1>1, <2>1, <2>2, <2>3, <2>4, AccountNext, CallsNext
<1>3. \A m : Of(m)' = Of(m)
  BY <1>1 DEF Onward, Of
<1> QED
  BY <1>1, <1>2, <1>3 DEF CallInv, Mine, MineNext, Onward

LEMMA BatchMineStep ==
    ASSUME ReadInv, [Next]_vars
    PROVE  BatchInv'
<1>1. Onward /\ TypeInv /\ BatchInv
  BY WorldStep DEF ReadInv
<1>2. ASSUME NEW x \in batch', NEW m \in ToSet(x.asked)
      PROVE  MineNext(x.by, Of(m))
  <2>1. ASSUME NEW a \in Account, SwitchAddress(a)
        PROVE  MineNext(x.by, Of(m))
    BY <1>1, <2>1, SwitchKeeps DEF MineNext
  <2>2. CASE account' = account
    <3>1. x.by = account \/ \E b \in batch : x.asked = b.asked /\ x.by = b.by
      BY <1>1, BatchesNext DEF BatchNext
    <3>2. Mine(x.by, Of(m))
      BY <1>1, <3>1 DEF BatchInv, Mine
    <3> QED
      BY <1>1, <2>2, <3>2, MineStays
  <2> QED
    BY <2>1, <2>2, AccountNext
<1>3. \A m : Of(m)' = Of(m)
  BY <1>1 DEF Onward, Of
<1> QED
  BY <1>2, <1>3 DEF BatchInv, Mine, MineNext

LEMMA CacheStep ==
    ASSUME ReadInv, [Next]_vars
    PROVE  CacheInv'
<1>1. Onward /\ TypeInv /\ CacheInv
  BY WorldStep DEF ReadInv
<1>2. ASSUME NEW o \in Output, cache'[o] # {}
      PROVE  account' \in readers'[o] \/ o \in straddled'
  <2>1. CASE cache'[o] # cache[o]
    BY <1>1, <1>2, <2>1, CacheMine DEF Onward
  <2>2. CASE cache'[o] = cache[o] /\ account' = account
    BY <1>1, <1>2, <2>2 DEF CacheInv, Onward
  <2>3. ASSUME NEW a \in Account, SwitchAddress(a)
        PROVE  FALSE
    BY <1>2, <2>3 DEF SwitchAddress
  <2> QED
    BY <2>1, <2>2, <2>3, AccountNext
<1> QED
  BY <1>2 DEF CacheInv

LEMMA ReadStep ==
    ASSUME ReadInv, [Next]_vars
    PROVE  ReadInv'
<1>1. Onward /\ TypeInv' /\ ReadersOnly
  BY WorldStep, TypeStep DEF ReadInv
<1>2. ASSUME NEW d \in delivered', NEW o \in Of(d[1])
      PROVE  d[2] \in readers[o] \/ o \in straddled'
  BY <1>1, <1>2, DeliveredNext DEF MayRead, ReadersOnly, Onward
<1>3. \A m : Of(m)' = Of(m)
  BY <1>1 DEF Onward, Of
<1>4. ReadersOnly'
  BY <1>1, <1>2, <1>3 DEF ReadersOnly, Onward
<1> QED
  BY <1>1, <1>4, KeptStep, CallStep, BatchMineStep, CacheStep DEF ReadInv

LEMMA ReadInit ==
    ASSUME Init
    PROVE  ReadInv
<1>1. KeptInv
  <2>1. recovering = <<>> /\ toRead = <<>>
    BY DEF Init
  <2> QED
    BY <2>1, EmptySeq DEF KeptInv, Lists
<1> QED
  BY <1>1, TypeInit DEF Init, ReadInv, CallInv, BatchInv, CacheInv, ReadersOnly

\* A message is read only for an account that its shared output was written
\* for, also when accounts are switched while it is fetched, waits, is kept or
\* is in a page: unless its salt was on its way then, or was made here for
\* others.  What is under way is the account's or was there at a switch; a
\* cached salt is the account's, since a switch drops the others; and who
\* waits is woken only by one that could read.
THEOREM OnlyReaders == Spec => []ReadersOnly
<1>1. ReadInv /\ UNCHANGED vars => ReadInv'
  BY ReadStep
<1>2. ReadInv => ReadersOnly
  BY DEF ReadInv
<1> QED
  BY ReadInit, ReadStep, <1>1, <1>2, PTL DEF Spec

-----------------------------------------------------------------------------
(* What a batch answers: sequences without duplicates.                     *)

\* Induction, for a set of numbers.
LEMMA CountingUp ==
    ASSUME NEW n \in Nat, NEW G, 0 \in G, \A k \in 1..n : k - 1 \in G => k \in G
    PROVE  0..n \subseteq G
<1> SUFFICES ASSUME (0..n) \ G # {}
             PROVE  FALSE
  OBVIOUS
<1>1. PICK k \in (0..n) \ G : \A m \in (0..n) \ G : k <= m
  <2>1. (0..n) \ G \subseteq Nat
    OBVIOUS
  <2> QED
    BY <2>1, LeastExists
<1>2. k \in 1..n
  OBVIOUS
<1>3. k - 1 \in 0..n /\ ~(k <= k - 1)
  BY <1>2
<1> QED
  BY <1>1, <1>2, <1>3

\* The lists of the members of ms among the first elements of list.
Picks(list, ms, n, f) ==
    \A i \in 0..n : f[i] = IF i = 0 THEN <<>>
                           ELSE IF list[i] \in ms THEN Append(f[i - 1], list[i]) ELSE f[i - 1]

LEMMA PicksExists ==
    ASSUME NEW T, NEW list \in Seq(T), NEW ms
    PROVE  \E f \in [0..Len(list) -> Seq(T)] : Picks(list, ms, Len(list), f)
<1> DEFINE G == {n \in 0..Len(list) : \E f \in [0..n -> Seq(T)] : Picks(list, ms, n, f)}
<1>1. Len(list) \in Nat /\ \A i \in 1..Len(list) : list[i] \in T
  BY LenProperties, ElementOfSeq
<1>2. 0 \in G
  <2> DEFINE f == [i \in 0..0 |-> <<>>]
  <2>1. f \in [0..0 -> Seq(T)] /\ Picks(list, ms, 0, f)
    BY EmptySeq DEF Picks
  <2>2. 0 \in 0..Len(list)
    BY <1>1
  <2> HIDE DEF f
  <2> QED
    BY <2>1, <2>2
<1>3. ASSUME NEW k \in 1..Len(list), k - 1 \in G
      PROVE  k \in G
  <2>1. PICK f \in [0..(k - 1) -> Seq(T)] : Picks(list, ms, k - 1, f)
    BY <1>3
  <2>0. k \in Nat /\ k # 0 /\ k \in 0..Len(list)
    BY <1>1
  <2> DEFINE next == IF list[k] \in ms THEN Append(f[k - 1], list[k]) ELSE f[k - 1]
             g == [i \in 0..k |-> IF i = k THEN next ELSE f[i]]
  <2>2. next \in Seq(T)
    <3>1. f[k - 1] \in Seq(T) /\ list[k] \in T
      BY <1>1, <2>1
    <3> QED
      BY <3>1, AppendProperties
  <2>3. g \in [0..k -> Seq(T)]
    <3> HIDE DEF next
    <3> QED
      BY <2>1, <2>2
  <2>5. \A i \in 0..k : g[i] = IF i = k THEN next ELSE f[i]
    OBVIOUS
  <2>4. Picks(list, ms, k, g)
    <3> HIDE DEF g
    <3> SUFFICES ASSUME NEW i \in 0..k
                 PROVE  g[i] = IF i = 0 THEN <<>>
                               ELSE IF list[i] \in ms THEN Append(g[i - 1], list[i]) ELSE g[i - 1]
      BY DEF Picks
    <3>1. CASE i = k
      <4>1. g[i] = next /\ g[i - 1] = f[k - 1]
        BY <2>0, <2>5, <3>1
      <4> QED
        BY <2>0, <3>1, <4>1
    <3>2. CASE i # k
      <4>0. i \in 0..(k - 1) /\ (i # 0 => i - 1 \in 0..k /\ i - 1 # k)
        BY <2>0, <3>2
      <4>1. g[i] = f[i] /\ (i # 0 => g[i - 1] = f[i - 1])
        BY <2>5, <3>2, <4>0
      <4> HIDE DEF next
      <4> QED
        BY <2>1, <4>0, <4>1 DEF Picks
    <3> QED
      BY <3>1, <3>2
  <2> HIDE DEF g
  <2> QED
    BY <2>0, <2>3, <2>4
<1>4. 0..Len(list) \subseteq G
  <2> HIDE DEF G
  <2> QED
    BY <1>1, <1>2, <1>3, CountingUp
<1>5. Len(list) \in G
  <2> HIDE DEF G
  <2> QED
    BY <1>1, <1>4
<1> QED
  BY <1>5

\* s has elements of list, in their order.
InOrder(s, list, n) ==
    \A p, q \in 1..Len(s) : p < q => \E i, j \in 1..n : i < j /\ s[p] = list[i] /\ s[q] = list[j]

LEMMA AmongProperties ==
    ASSUME NEW T, NEW list \in Seq(T), NEW ms
    PROVE  /\ Among(list, ms) \in Seq(T)
           /\ \A p \in 1..Len(Among(list, ms)) : \E i \in 1..Len(list) : Among(list, ms)[p] = list[i] /\ list[i] \in ms
           /\ \A i \in 1..Len(list) : list[i] \in ms => \E p \in 1..Len(Among(list, ms)) : Among(list, ms)[p] = list[i]
           /\ InOrder(Among(list, ms), list, Len(list))
<1> DEFINE n == Len(list)
           step(f) == [i \in 0..n |-> IF i = 0 THEN <<>>
                                      ELSE IF list[i] \in ms THEN Append(f[i - 1], list[i]) ELSE f[i - 1]]
           kept == CHOOSE f : f = step(f)
           Exact(i) == /\ \A p \in 1..Len(kept[i]) : \E j \in 1..i : kept[i][p] = list[j] /\ list[j] \in ms
                       /\ \A j \in 1..i : list[j] \in ms => \E p \in 1..Len(kept[i]) : kept[i][p] = list[j]
                       /\ InOrder(kept[i], list, i)
           G == {i \in 0..n : kept[i] \in Seq(T) /\ Exact(i)}
<1>1. n \in Nat /\ DOMAIN list = 1..n /\ \A i \in 1..n : list[i] \in T
  BY LenProperties, ElementOfSeq
<1>2. Among(list, ms) = kept[n]
  BY DEF Among
<1>3. kept = step(kept)
  <2>1. PICK g \in [0..n -> Seq(T)] : Picks(list, ms, n, g)
    BY PicksExists
  <2>2. g = step(g)
    BY <2>1 DEF Picks
  <2> QED
    BY <2>2
<1> HIDE DEF kept
<1>4. kept[0] = <<>>
  BY <1>1, <1>3
<1>5. \A i \in 1..n : kept[i] = IF list[i] \in ms THEN Append(kept[i - 1], list[i]) ELSE kept[i - 1]
  <2>1. \A i \in 1..n : i \in 0..n /\ i # 0
    BY <1>1
  <2>2. \A i \in 0..n : i # 0 => kept[i] = IF list[i] \in ms THEN Append(kept[i - 1], list[i]) ELSE kept[i - 1]
    BY <1>3
  <2> HIDE DEF step
  <2> QED
    BY <2>1, <2>2
<1> HIDE DEF step
<1>6. 0 \in G
  <2>1. kept[0] \in Seq(T) /\ Exact(0)
    BY <1>4, EmptySeq DEF InOrder
  <2>2. 0 \in 0..n
    BY <1>1
  <2> HIDE DEF Exact
  <2> QED
    BY <2>1, <2>2
<1>7. ASSUME NEW k \in 1..n, k - 1 \in G
      PROVE  k \in G
  <2>1. kept[k - 1] \in Seq(T) /\ Exact(k - 1)
    <3> HIDE DEF Exact
    <3> QED
      BY <1>7
  <2>0. list[k] \in T /\ k \in Nat /\ k \in 0..n /\ 1..k = (1..(k - 1)) \union {k} /\ k \in 1..k
    BY <1>1
  <2>2. CASE list[k] \notin ms
    <3>1. kept[k] = kept[k - 1]
      BY <1>5, <2>2
    <3>2. Exact(k)
      BY <2>0, <2>1, <2>2, <3>1 DEF InOrder
    <3> HIDE DEF Exact
    <3> QED
      BY <2>0, <2>1, <3>1, <3>2
  <2>3. CASE list[k] \in ms
    <3>1. kept[k] = Append(kept[k - 1], list[k])
      BY <1>5, <2>3
    <3>2. /\ kept[k] \in Seq(T) /\ Len(kept[k]) = Len(kept[k - 1]) + 1
          /\ kept[k][Len(kept[k])] = list[k] /\ Len(kept[k - 1]) \in Nat
          /\ \A j \in 1..Len(kept[k - 1]) : kept[k][j] = kept[k - 1][j]
      <4> HIDE DEF Exact
      <4> QED
        BY <2>0, <2>1, <3>1, AppendProperties, LenProperties
    <3>3. 1..Len(kept[k]) = (1..Len(kept[k - 1])) \union {Len(kept[k])}
      BY <3>2
    <3>4. \A p \in 1..Len(kept[k]) : \E j \in 1..k : kept[k][p] = list[j] /\ list[j] \in ms
      <4> SUFFICES ASSUME NEW p \in 1..Len(kept[k])
                   PROVE  \E j \in 1..k : kept[k][p] = list[j] /\ list[j] \in ms
        OBVIOUS
      <4>1. CASE p \in 1..Len(kept[k - 1])
        <5>1. PICK j \in 1..(k - 1) : kept[k - 1][p] = list[j] /\ list[j] \in ms
          BY <2>1, <4>1
        <5>2. j \in 1..k /\ kept[k][p] = list[j]
          BY <2>0, <3>2, <4>1, <5>1
        <5> QED
          BY <5>1, <5>2
      <4>2. CASE p = Len(kept[k])
        BY <2>0, <2>3, <3>2, <4>2
      <4> QED
        BY <3>3, <4>1, <4>2
    <3>5. \A j \in 1..k : list[j] \in ms => \E p \in 1..Len(kept[k]) : kept[k][p] = list[j]
      BY <2>0, <2>1, <3>2, <3>3
    <3>6. InOrder(kept[k], list, k)
      <4> SUFFICES ASSUME NEW p \in 1..Len(kept[k]), NEW q \in 1..Len(kept[k]), p < q
                   PROVE  \E i, j \in 1..k : i < j /\ kept[k][p] = list[i] /\ kept[k][q] = list[j]
        BY DEF InOrder
      <4>0. p \in 1..Len(kept[k - 1])
        BY <3>2
      <4>1. CASE q \in 1..Len(kept[k - 1])
        <5>1. PICK i \in 1..(k - 1), j \in 1..(k - 1) :
                  i < j /\ kept[k - 1][p] = list[i] /\ kept[k - 1][q] = list[j]
          BY <2>1, <4>0, <4>1 DEF InOrder
        <5>2. i \in 1..k /\ j \in 1..k /\ kept[k][p] = list[i] /\ kept[k][q] = list[j]
          BY <2>0, <3>2, <4>0, <4>1, <5>1
        <5> QED
          BY <5>1, <5>2
      <4>2. CASE q = Len(kept[k])
        <5>1. PICK i \in 1..(k - 1) : kept[k - 1][p] = list[i]
          BY <2>1, <4>0
        <5>2. i \in 1..k /\ i < k /\ kept[k][p] = list[i] /\ kept[k][q] = list[k]
          BY <2>0, <3>2, <4>0, <4>2, <5>1
        <5> QED
          BY <2>0, <5>2
      <4> QED
        BY <3>3, <4>1, <4>2
    <3>7. Exact(k)
      BY <3>4, <3>5, <3>6
    <3> HIDE DEF Exact
    <3> QED
      BY <2>0, <3>2, <3>7
  <2> QED
    BY <2>2, <2>3
<1>8. 0..n \subseteq G
  <2> HIDE DEF G
  <2> QED
    BY <1>1, <1>6, <1>7, CountingUp
<1>9. kept[n] \in Seq(T) /\ Exact(n)
  <2>1. n \in 0..n
    BY <1>1
  <2>2. n \in G
    <3> HIDE DEF G
    <3> QED
      BY <1>8, <2>1
  <2> HIDE DEF Exact
  <2> QED
    BY <2>2
<1> QED
  BY <1>2, <1>9

LEMMA OnceEach ==
    ASSUME NEW T, NEW s \in Seq(T), IsInjective(s)
    PROVE  IsFiniteSet(ToSet(s)) /\ Cardinality(ToSet(s)) = Len(s)
<1>1. Len(s) \in Nat /\ DOMAIN s = 1..Len(s) /\ s \in [1..Len(s) -> T]
  BY LenProperties
<1>2. s \in Bijection(1..Len(s), ToSet(s))
  BY <1>1 DEF Bijection, Injection, Surjection, IsInjective, ToSet
<1>3. IsFiniteSet(1..Len(s)) /\ Cardinality(1..Len(s)) = Len(s)
  BY <1>1, FS_Interval
<1> QED
  BY <1>2, <1>3, FS_Bijection DEF ExistsBijection

\* The order of what is handed on: where a message is, and where it was asked.
Stage(cached, m) == IF Of(m) = {} THEN 1 ELSE IF m \in cached THEN 2 ELSE 3
Place(list, m) == CHOOSE i \in DOMAIN list : list[i] = m
Sorted(done, list, cached) ==
    \A i, j \in DOMAIN done : i < j => \/ Stage(cached, done[i]) < Stage(cached, done[j])
                                       \/ /\ Stage(cached, done[i]) = Stage(cached, done[j])
                                          /\ Place(list, done[i]) < Place(list, done[j])

LEMMA PlaceOf ==
    ASSUME NEW list \in Seq(Message), IsInjective(list), NEW i \in 1..Len(list)
    PROVE  Place(list, list[i]) = i
<1>1. DOMAIN list = 1..Len(list)
  BY LenProperties
<1> QED
  BY <1>1 DEF Place, IsInjective

LEMMA SortedOnce ==
    ASSUME NEW T, NEW done \in Seq(T), NEW list \in Seq(Message), IsInjective(list), NEW cached,
           ToSet(done) \subseteq ToSet(list), Sorted(done, list, cached)
    PROVE  IsInjective(done)
<1>1. /\ DOMAIN done = 1..Len(done) /\ Len(done) \in Nat
      /\ DOMAIN list = 1..Len(list) /\ Len(list) \in Nat
  BY LenProperties
<1>2. \A m : Stage(cached, m) \in Nat
  BY DEF Stage
<1>3. \A i \in DOMAIN done : Place(list, done[i]) \in Nat
  <2> TAKE i \in DOMAIN done
  <2>1. PICK j \in 1..Len(list) : done[i] = list[j]
    BY <1>1 DEF ToSet
  <2>2. Place(list, list[j]) = j
    BY PlaceOf
  <2> QED
    BY <1>1, <2>1, <2>2
<1>4. ASSUME NEW i \in DOMAIN done, NEW j \in DOMAIN done, i < j, done[i] = done[j]
      PROVE  FALSE
  <2>1. ~(Stage(cached, done[i]) < Stage(cached, done[j])) /\ ~(Place(list, done[i]) < Place(list, done[j]))
    BY <1>2, <1>3, <1>4
  <2> QED
    BY <1>4, <2>1 DEF Sorted
<1>5. \A i, j \in DOMAIN done : i # j => i < j \/ j < i
  BY <1>1
<1> QED
  BY <1>4, <1>5 DEF IsInjective

\* What is handed on next, in the order it was asked for.
HandsOn(list, done, cached, n, ms) ==
    /\ list \in Seq(Message) /\ IsInjective(list) /\ done \in Seq(ToSet(list)) /\ n \in Nat
    /\ Sorted(done, list, cached) /\ \A m \in ToSet(done) : Stage(cached, m) < n
    /\ ms \subseteq ToSet(list) /\ \A m \in ms : Stage(cached, m) = n

LEMMA HandedOn ==
    ASSUME NEW list, NEW done, NEW cached, NEW n, NEW ms, HandsOn(list, done, cached, n, ms)
    PROVE  LET all == done \o Among(list, ms)
           IN  /\ all \in Seq(ToSet(list))
               /\ ToSet(all) = ToSet(done) \union ms
               /\ Sorted(all, list, cached)
<1> DEFINE new == Among(list, ms)
           all == done \o new
           d == Len(done)
<1>a. /\ list \in Seq(Message) /\ IsInjective(list) /\ done \in Seq(ToSet(list)) /\ n \in Nat
      /\ Sorted(done, list, cached) /\ \A m \in ToSet(done) : Stage(cached, m) < n
      /\ ms \subseteq ToSet(list) /\ \A m \in ms : Stage(cached, m) = n
  BY DEF HandsOn
<1>0. DOMAIN list = 1..Len(list) /\ Len(list) \in Nat /\ list \in [1..Len(list) -> ToSet(list)]
  BY <1>a, LenProperties DEF ToSet
<1>1. list \in Seq(ToSet(list))
  BY <1>0, EnumerationIsSeq
<1>2. /\ new \in Seq(ToSet(list))
      /\ \A p \in 1..Len(new) : \E i \in 1..Len(list) : new[p] = list[i] /\ list[i] \in ms
      /\ \A i \in 1..Len(list) : list[i] \in ms => \E p \in 1..Len(new) : new[p] = list[i]
      /\ InOrder(new, list, Len(list))
  BY <1>a, <1>1, AmongProperties
<1> HIDE DEF new
<1>3. /\ all \in Seq(ToSet(list)) /\ Len(all) = d + Len(new)
      /\ \A i \in 1..(d + Len(new)) : all[i] = IF i <= d THEN done[i] ELSE new[i - d]
  BY <1>a, <1>2, ConcatProperties DEF new
<1>4. /\ d \in Nat /\ Len(new) \in Nat /\ DOMAIN all = 1..(d + Len(new))
      /\ DOMAIN done = 1..d /\ DOMAIN new = 1..Len(new)
  BY <1>a, <1>2, <1>3, LenProperties
<1> HIDE DEF d
<1> HIDE DEF all
<1>5. \A i \in 1..d : i \in DOMAIN all /\ all[i] = done[i]
  BY <1>3, <1>4
<1>6. \A p \in 1..Len(new) : d + p \in DOMAIN all /\ all[d + p] = new[p]
  BY <1>3, <1>4
<1>7. \A i \in DOMAIN all : i \in 1..d \/ \E p \in 1..Len(new) : i = d + p
  <2> TAKE i \in DOMAIN all
  <2>1. i \in 1..d \/ (i - d \in 1..Len(new) /\ i = d + (i - d))
    BY <1>4
  <2> QED
    BY <2>1
<1>8. ToSet(new) = ms
  <2>1. ToSet(new) \subseteq ms
    BY <1>2, <1>4 DEF ToSet
  <2>2. \A m \in ms : \E i \in 1..Len(list) : m = list[i]
    BY <1>a, <1>0 DEF ToSet
  <2>3. ASSUME NEW m \in ms
        PROVE  m \in ToSet(new)
    <3>1. PICK i \in 1..Len(list) : m = list[i]
      BY <2>2
    <3>2. PICK p \in 1..Len(new) : new[p] = list[i]
      BY <1>2, <3>1
    <3> QED
      BY <1>4, <3>1, <3>2 DEF ToSet
  <2> QED
    BY <2>1, <2>3
<1>9. ToSet(all) = ToSet(done) \union ms
  <2>1. ASSUME NEW i \in DOMAIN all
        PROVE  all[i] \in ToSet(done) \union ToSet(new)
    <3>1. CASE i \in 1..d
      BY <1>4, <1>5, <3>1 DEF ToSet
    <3>2. ASSUME NEW p \in 1..Len(new), i = d + p
          PROVE  all[i] \in ToSet(new)
      BY <1>4, <1>6, <3>2 DEF ToSet
    <3> QED
      BY <1>7, <3>1, <3>2
  <2>2. ToSet(done) \union ToSet(new) \subseteq ToSet(all)
    BY <1>4, <1>5, <1>6 DEF ToSet
  <2>3. ToSet(all) \subseteq ToSet(done) \union ToSet(new)
    BY <2>1 DEF ToSet
  <2> QED
    BY <1>8, <2>2, <2>3
<1>10. \A p \in 1..Len(new) : Stage(cached, new[p]) = n
  BY <1>a, <1>2
<1>11. ASSUME NEW i \in DOMAIN all, NEW j \in DOMAIN all, i < j
       PROVE  \/ Stage(cached, all[i]) < Stage(cached, all[j])
              \/ /\ Stage(cached, all[i]) = Stage(cached, all[j])
                 /\ Place(list, all[i]) < Place(list, all[j])
  <2>1. CASE i \in 1..d /\ j \in 1..d
    BY <1>4, <1>5, <1>11, <2>1, <1>a DEF Sorted
  <2>2. CASE i \in 1..d /\ j \notin 1..d
    <3>1. PICK q \in 1..Len(new) : j = d + q
      BY <1>7, <2>2
    <3>2. Stage(cached, all[j]) = n
      BY <1>6, <1>10, <3>1
    <3>3. all[i] \in ToSet(done)
      BY <1>4, <1>5, <2>2 DEF ToSet
    <3>4. Stage(cached, all[i]) < n
      BY <1>a, <3>3
    <3> QED
      BY <3>2, <3>4
  <2>3. CASE i \notin 1..d
    <3>1. PICK p \in 1..Len(new) : i = d + p
      BY <1>7, <2>3
    <3>2. j \notin 1..d
      BY <1>4, <1>11, <2>3
    <3>3. PICK q \in 1..Len(new) : j = d + q
      BY <1>7, <3>2
    <3>4. p < q
      BY <1>4, <1>11, <3>1, <3>3
    <3>5. PICK k, l \in 1..Len(list) : k < l /\ new[p] = list[k] /\ new[q] = list[l]
      BY <1>2, <3>4 DEF InOrder
    <3>6. Place(list, list[k]) = k /\ Place(list, list[l]) = l
      BY <1>a, PlaceOf
    <3>7. all[i] = new[p] /\ all[j] = new[q]
      BY <1>6, <3>1, <3>3
    <3>8. Stage(cached, all[i]) = n /\ Stage(cached, all[j]) = n
      BY <1>10, <3>7
    <3> QED
      BY <3>5, <3>6, <3>7, <3>8
  <2> QED
    BY <2>1, <2>2, <2>3
<1>12. Sorted(all, list, cached)
  BY <1>11 DEF Sorted
<1> QED
  BY <1>3, <1>9, <1>12 DEF all, new

-----------------------------------------------------------------------------
(* What a batch answers: its stages.                                       *)

Clear(b) == {m \in ToSet(b.asked) \ b.missing : Of(m) = {}}
Private(b) == {m \in ToSet(b.asked) \ b.missing : Of(m) # {}}

\* What is handed on at each stage, and what is still to come.
Answering(b) ==
    /\ b.asked \in Seq(Message) /\ IsInjective(b.asked)
    /\ b.done \in Seq(ToSet(b.asked)) /\ Sorted(b.done, b.asked, b.cached)
    /\ b.missing \subseteq ToSet(b.asked)
    /\ b.at = "outputs" => b.done = <<>>
    /\ b.at \in {"salts", "shared", "decrypt"} => b.failed = b.missing
    /\ b.at = "salts" => ToSet(b.done) = Clear(b)
    /\ b.at \in {"shared", "decrypt"} => /\ b.cached \subseteq Private(b)
                                         /\ b.late = Private(b) \ b.cached
                                         /\ ToSet(b.done) = Clear(b) \union b.cached
    /\ b.at = "decrypt" => \A m \in b.late : Of(m) \subseteq b.found \union b.absent
    /\ b.at = "ended" => /\ ToSet(b.done) \union b.failed = ToSet(b.asked)
                         /\ ToSet(b.done) \cap b.failed = {}
                         /\ \A m \in b.failed \ b.missing : Of(m) \cap b.absent # {}

AnswersInv ==
    /\ TypeInv
    /\ \A list \in left.batches : IsInjective(list)
    /\ \A b \in batch : Answering(b)

LEMMA AnsweredOutputs ==
    ASSUME TypeInv, NEW b \in batch, Answering(b), BatchOutputs(b), NEW x \in batch'
    PROVE  Answering(x)
<1>0. IsBatch(b) /\ b.at = "outputs"
  BY DEF TypeInv, BatchShape, BatchOutputs
<1>1. PICK missing \in SUBSET ToSet(b.asked) :
          x = [Deliver(b, {m \in ToSet(b.asked) \ missing : Of(m) = {}})
                  EXCEPT !.at = "salts", !.missing = missing, !.failed = missing]
  BY DEF BatchOutputs
<1> DEFINE clear == {m \in ToSet(b.asked) \ missing : Of(m) = {}}
           all == b.done \o Among(b.asked, clear)
           y == [b EXCEPT !.done = all]
<1>2. x = [y EXCEPT !.at = "salts", !.missing = missing, !.failed = missing]
  BY <1>1 DEF Deliver
<1>3. b.asked \in Seq(Message) /\ IsInjective(b.asked) /\ b.done = <<>>
  BY <1>0 DEF Answering
<1>4. /\ all \in Seq(ToSet(b.asked)) /\ ToSet(all) = ToSet(b.done) \union clear
      /\ Sorted(all, b.asked, b.cached)
  <2>1. b.done \in Seq(ToSet(b.asked)) /\ Sorted(b.done, b.asked, b.cached)
    BY DEF Answering
  <2>2. ToSet(b.done) = {}
    BY <1>3 DEF ToSet
  <2>3. clear \subseteq ToSet(b.asked) /\ \A m \in clear : Stage(b.cached, m) = 1
    BY DEF Stage
  <2>4. 1 \in Nat /\ (\A m \in ToSet(b.done) : Stage(b.cached, m) < 1)
    BY <2>2
  <2> HIDE DEF clear
  <2>5. HandsOn(b.asked, b.done, b.cached, 1, clear)
    BY <1>3, <2>1, <2>3, <2>4 DEF HandsOn
  <2> QED
    BY <2>5, HandedOn
<1>5. ToSet(b.done) = {}
  BY <1>3 DEF ToSet
<1> HIDE DEF all
<1>6. /\ x.at = "salts" /\ x.asked = b.asked /\ x.done = all /\ x.cached = b.cached
      /\ x.missing = missing /\ x.failed = missing
  <2>1. y.at = b.at /\ y.asked = b.asked /\ y.done = all /\ y.cached = b.cached /\ IsBatch(y)
    BY <1>0 DEF IsBatch
  <2> HIDE DEF y
  <2> QED
    BY <1>2, <2>1 DEF IsBatch
<1> QED
  BY <1>3, <1>4, <1>5, <1>6 DEF Answering, Clear

LEMMA AnsweredCached ==
    ASSUME TypeInv, NEW b \in batch, Answering(b), BatchCached(b), NEW x \in batch'
    PROVE  Answering(x)
<1>0. IsBatch(b) /\ b.at = "salts"
  BY DEF TypeInv, BatchShape, BatchCached
<1> DEFINE private == Private(b)
           cached == {m \in private : \A o \in Of(m) : cache[o] # {}}
           at == IF cached = private THEN "ended" ELSE "shared"
           late == private \ cached
           all == b.done \o Among(b.asked, cached)
           y == [b EXCEPT !.done = all]
<1>1. x = [y EXCEPT !.at = at, !.cached = cached, !.late = late]
  BY DEF BatchCached, Deliver, Private
<1>2. cached \subseteq private /\ cached \subseteq ToSet(b.asked)
  BY DEF Private
<1> HIDE DEF cached
<1>3. /\ b.asked \in Seq(Message) /\ IsInjective(b.asked) /\ b.done \in Seq(ToSet(b.asked))
      /\ Sorted(b.done, b.asked, b.cached) /\ b.missing \subseteq ToSet(b.asked)
      /\ b.failed = b.missing /\ ToSet(b.done) = Clear(b)
  BY <1>0 DEF Answering
<1>4. \A m \in Clear(b) : Of(m) = {} /\ \A c : Stage(c, m) = 1
  BY DEF Clear, Stage
<1>5. Sorted(b.done, b.asked, cached)
  <2>1. \A i \in DOMAIN b.done : b.done[i] \in Clear(b)
    BY <1>3 DEF ToSet
  <2> QED
    BY <1>3, <1>4, <2>1 DEF Sorted
<1>6. all \in Seq(ToSet(b.asked)) /\ ToSet(all) = Clear(b) \union cached /\ Sorted(all, b.asked, cached)
  <2>1. \A m \in cached : Stage(cached, m) = 2
    BY <1>2 DEF Stage, Private
  <2>2. \A m \in ToSet(b.done) : Stage(cached, m) < 2
    BY <1>3, <1>4
  <2>3. HandsOn(b.asked, b.done, cached, 2, cached)
    BY <1>2, <1>3, <1>5, <2>1, <2>2 DEF HandsOn
  <2>4. all \in Seq(ToSet(b.asked)) /\ ToSet(all) = ToSet(b.done) \union cached /\ Sorted(all, b.asked, cached)
    BY <2>3, HandedOn
  <2> QED
    BY <1>3, <2>4
<1> HIDE DEF all, at
<1>7. /\ x.at = at /\ x.asked = b.asked /\ x.done = all /\ x.cached = cached /\ x.late = late
      /\ x.missing = b.missing /\ x.failed = b.failed
  <2>1. /\ y.at = b.at /\ y.asked = b.asked /\ y.done = all /\ y.missing = b.missing /\ y.failed = b.failed
        /\ IsBatch(y)
    BY <1>0 DEF IsBatch
  <2> HIDE DEF y
  <2> QED
    BY <1>1, <2>1 DEF IsBatch
<1>8. Clear(x) = Clear(b) /\ Private(x) = private
  BY <1>7 DEF Clear, Private
<1>9. CASE cached = private
  <2>1. x.at = "ended"
    BY <1>7, <1>9 DEF at
  <2>2. Clear(b) \union private \union b.missing = ToSet(b.asked) /\ (Clear(b) \union private) \cap b.missing = {}
    BY <1>3 DEF Clear, Private
  <2> QED
    BY <1>3, <1>6, <1>7, <1>9, <2>1, <2>2 DEF Answering
<1>10. CASE cached # private
  <2>1. x.at = "shared"
    BY <1>7, <1>10 DEF at
  <2> QED
    BY <1>2, <1>3, <1>6, <1>7, <1>8, <2>1 DEF Answering
<1> QED
  BY <1>9, <1>10

LEMMA AnsweredShared ==
    ASSUME TypeInv, NEW b \in batch, Answering(b), BatchShared(b), NEW x \in batch'
    PROVE  Answering(x)
<1>0. IsBatch(b) /\ b.at = "shared"
  BY DEF TypeInv, BatchShape, BatchShared
<1> DEFINE wanted == UNION {Of(m) : m \in b.late}
<1>1. x = [b EXCEPT !.at = "decrypt", !.found = wanted \cap ledger, !.key = {account}, !.absent = wanted \ ledger]
  BY DEF BatchShared
<1>2. \A m \in b.late : Of(m) \subseteq (wanted \cap ledger) \union (wanted \ ledger)
  OBVIOUS
<1> HIDE DEF wanted
<1>3. /\ x.at = "decrypt" /\ x.asked = b.asked /\ x.done = b.done /\ x.cached = b.cached /\ x.late = b.late
      /\ x.missing = b.missing /\ x.failed = b.failed
      /\ x.found = wanted \cap ledger /\ x.absent = wanted \ ledger
  BY <1>0, <1>1 DEF IsBatch
<1>4. Clear(x) = Clear(b) /\ Private(x) = Private(b)
  BY <1>3 DEF Clear, Private
<1> QED
  BY <1>0, <1>2, <1>3, <1>4 DEF Answering

LEMMA AnsweredDecrypted ==
    ASSUME TypeInv, NEW b \in batch, Answering(b), BatchDecrypted(b), NEW x \in batch'
    PROVE  Answering(x)
<1>0. IsBatch(b) /\ b.at = "decrypt"
  BY DEF TypeInv, BatchShape, BatchDecrypted
<1> DEFINE open == {o \in b.found : \A k \in b.key : Readable(o, b.by, k)}
           ms == {m \in b.late : Of(m) \subseteq open}
           all == b.done \o Among(b.asked, ms)
           failed1 == b.failed \union (b.late \ ms)
           absent1 == b.absent \union (b.found \ open)
           y == [b EXCEPT !.done = all]
<1>1. x = [y EXCEPT !.at = "ended", !.failed = failed1, !.absent = absent1]
  BY DEF BatchDecrypted, Deliver
<1>2. ms \subseteq b.late /\ \A m \in b.late \ ms : \E o \in Of(m) : o \notin open
  OBVIOUS
<1> HIDE DEF open, ms
<1>3. /\ b.asked \in Seq(Message) /\ IsInjective(b.asked) /\ b.done \in Seq(ToSet(b.asked))
      /\ Sorted(b.done, b.asked, b.cached) /\ b.missing \subseteq ToSet(b.asked) /\ b.failed = b.missing
      /\ b.cached \subseteq Private(b) /\ b.late = Private(b) \ b.cached
      /\ ToSet(b.done) = Clear(b) \union b.cached
      /\ \A m \in b.late : Of(m) \subseteq b.found \union b.absent
  BY <1>0 DEF Answering
<1>4. all \in Seq(ToSet(b.asked)) /\ ToSet(all) = Clear(b) \union b.cached \union ms /\ Sorted(all, b.asked, b.cached)
  <2>1. \A m \in ms : Stage(b.cached, m) = 3
    BY <1>2, <1>3 DEF Stage, Private
  <2>2. \A m \in ToSet(b.done) : Stage(b.cached, m) < 3
    BY <1>3 DEF Stage, Clear
  <2>3. ms \subseteq ToSet(b.asked)
    BY <1>2, <1>3 DEF Private
  <2>4. HandsOn(b.asked, b.done, b.cached, 3, ms)
    BY <1>3, <2>1, <2>2, <2>3 DEF HandsOn
  <2>5. all \in Seq(ToSet(b.asked)) /\ ToSet(all) = ToSet(b.done) \union ms /\ Sorted(all, b.asked, b.cached)
    BY <2>4, HandedOn
  <2> QED
    BY <1>3, <2>5
<1> HIDE DEF all
<1>5. /\ x.at = "ended" /\ x.asked = b.asked /\ x.done = all /\ x.cached = b.cached
      /\ x.missing = b.missing /\ x.failed = failed1 /\ x.absent = absent1
  <2>1. /\ y.asked = b.asked /\ y.done = all /\ y.cached = b.cached /\ y.missing = b.missing /\ IsBatch(y)
    BY <1>0 DEF IsBatch
  <2> HIDE DEF y, failed1, absent1
  <2> QED
    BY <1>1, <2>1 DEF IsBatch
<1>6. ToSet(all) \union failed1 = ToSet(b.asked)
  BY <1>2, <1>3, <1>4 DEF Clear, Private
<1>7. ToSet(all) \cap failed1 = {}
  BY <1>2, <1>3, <1>4 DEF Clear, Private
<1>8. \A m \in failed1 \ b.missing : Of(m) \cap absent1 # {}
  BY <1>2, <1>3
<1> QED
  BY <1>3, <1>4, <1>5, <1>6, <1>7, <1>8 DEF Answering

LEMMA BatchSteps ==
    ASSUME WorldInv, [Next]_vars
    PROVE  \/ batch' = batch /\ left'.batches = left.batches
           \/ left'.batches = left.batches /\ BatchStep
           \/ \E list \in left.batches : BatchBegins(list) /\ left'.batches \subseteq left.batches
<1>0. \A c \in {"sends", "switches", "fails", "moves"} : Uses(c) => left'.batches = left.batches
  BY DEF WorldInv, BoundType, Uses
<1>1. ASSUME NEW m \in Message, Push(m)
      PROVE  batch' = batch /\ left' = left
  BY <1>1 DEF Push
<1>2. ASSUME NEW c \in calls, Answers(c)
      PROVE  batch' = batch /\ left'.batches = left.batches
  BY <1>0, <1>2 DEF Answers, FetchAnswered, Decrypted, WaitEnds
<1>3. ASSUME Recovers
      PROVE  batch' = batch /\ left' = left
  BY <1>3 DEF Recovers, RecoveryBegins, RecoveryQueried, RecoveryReplaces, RecoveryReads
<1>4. ASSUME SendStep \/ Sends
      PROVE  batch' = batch /\ left'.batches = left.batches
  BY <1>0, <1>4 DEF SendStep, Sends, ServiceAnswers, SharedFetched, SharedDecrypted, SharedSent, sendRest
<1>5. ASSUME (\E o \in Output : Appears(o) \/ ServiceMoves(o)) \/ \E a \in Account : SwitchAddress(a)
      PROVE  batch' = batch /\ left'.batches = left.batches
  BY <1>0, <1>5 DEF Appears, ServiceMoves, SwitchAddress
<1>6. ASSUME BatchStep
      PROVE  left'.batches = left.batches
  BY <1>0, <1>6 DEF BatchStep, BatchOutputs, BatchCached, BatchShared, BatchDecrypted
<1>7. ASSUME NEW list \in left.batches, BatchBegins(list)
      PROVE  left'.batches \subseteq left.batches
  BY <1>7 DEF BatchBegins, WorldInv, BoundType
<1>8. CASE UNCHANGED vars
  BY <1>8 DEF vars
<1> QED
  BY <1>1, <1>2, <1>3, <1>4, <1>5, <1>6, <1>7, <1>8 DEF Next

LEMMA AnswersStep ==
    ASSUME AnswersInv, [Next]_vars
    PROVE  AnswersInv'
<1>1. Onward /\ TypeInv /\ TypeInv'
  BY WorldStep, TypeStep DEF AnswersInv
<1>2. (\A list \in left.batches : IsInjective(list)) /\ \A b \in batch : Answering(b)
  BY DEF AnswersInv
<1>3. WorldInv
  BY <1>1 DEF TypeInv
<1>4. \A list \in left'.batches : IsInjective(list)
  BY <1>2, <1>3, BatchSteps
<1>5. ASSUME NEW x \in batch'
      PROVE  Answering(x)
  <2>1. CASE x \in batch
    BY <1>2, <2>1
  <2>2. ASSUME NEW list \in left.batches, BatchBegins(list)
        PROVE  Answering(x)
    <3>1. x = [at |-> "outputs", asked |-> list, by |-> account, done |-> <<>>, failed |-> {}, late |-> {},
               found |-> {}, key |-> {}, missing |-> {}, cached |-> {}, absent |-> {}]
      BY <2>2 DEF BatchBegins
    <3>2. list \in Seq(Message) /\ IsInjective(list)
      BY <1>2, <1>3, <2>2 DEF WorldInv, BoundType
    <3>3. <<>> \in Seq(ToSet(list)) /\ Sorted(<<>>, list, {})
      BY EmptySeq DEF Sorted
    <3>4. x.at = "outputs" /\ x.asked = list /\ x.done = <<>> /\ x.missing = {} /\ x.cached = {}
      BY <3>1
    <3> QED
      BY <3>2, <3>3, <3>4 DEF Answering
  <2>3. ASSUME NEW b \in batch, BatchOutputs(b) \/ BatchCached(b) \/ BatchShared(b) \/ BatchDecrypted(b)
        PROVE  Answering(x)
    BY <1>1, <1>2, <2>3, AnsweredOutputs, AnsweredCached, AnsweredShared, AnsweredDecrypted
  <2> QED
    BY <1>3, <2>1, <2>2, <2>3, BatchSteps DEF BatchStep
<1>6. \A m : Of(m)' = Of(m)
  BY <1>1 DEF Onward, Of
<1>8. \A x : /\ Clear(x)' = Clear(x) /\ Private(x)' = Private(x)
             /\ \A cached, m : Stage(cached, m)' = Stage(cached, m)
  BY <1>6 DEF Clear, Private, Stage
<1>9. \A done, list, cached : Sorted(done, list, cached)' = Sorted(done, list, cached)
  BY <1>8 DEF Sorted, Place
<1>7. \A x : Answering(x) => Answering(x)'
  BY <1>6, <1>8, <1>9 DEF Answering
<1> QED
  BY <1>1, <1>4, <1>5, <1>7 DEF AnswersInv

LEMMA AnsweredOnce ==
    ASSUME AnswersInv
    PROVE  BatchAnswers
<1> SUFFICES ASSUME NEW b \in batch, b.at = "ended"
             PROVE  LET stage(m) == IF Of(m) = {} THEN 1 ELSE IF m \in b.cached THEN 2 ELSE 3
                        place(m) == CHOOSE i \in DOMAIN b.asked : b.asked[i] = m
                    IN  /\ ToSet(b.done) \union b.failed = ToSet(b.asked)
                        /\ Len(b.done) + Cardinality(b.failed) = Len(b.asked)
                        /\ \A i, j \in DOMAIN b.done : i < j =>
                              \/ stage(b.done[i]) < stage(b.done[j])
                              \/ /\ stage(b.done[i]) = stage(b.done[j])
                                 /\ place(b.done[i]) < place(b.done[j])
                        /\ \A m \in b.failed \ b.missing : Of(m) \cap b.absent # {}
  BY DEF BatchAnswers
<1>1. /\ b.asked \in Seq(Message) /\ IsInjective(b.asked)
      /\ b.done \in Seq(ToSet(b.asked)) /\ Sorted(b.done, b.asked, b.cached)
      /\ ToSet(b.done) \union b.failed = ToSet(b.asked) /\ ToSet(b.done) \cap b.failed = {}
      /\ \A m \in b.failed \ b.missing : Of(m) \cap b.absent # {}
  BY DEF AnswersInv, Answering
<1>2. ToSet(b.done) \subseteq ToSet(b.asked) /\ b.failed \subseteq ToSet(b.asked)
  BY <1>1
<1>3. IsInjective(b.done)
  BY <1>1, <1>2, SortedOnce
<1>4. /\ IsFiniteSet(ToSet(b.asked)) /\ Cardinality(ToSet(b.asked)) = Len(b.asked)
      /\ IsFiniteSet(ToSet(b.done)) /\ Cardinality(ToSet(b.done)) = Len(b.done)
  BY <1>1, <1>3, OnceEach
<1>5. IsFiniteSet(b.failed) /\ Cardinality(b.failed) \in Nat
  BY <1>2, <1>4, FS_Subset, FS_CardinalityType
<1>6. Cardinality(ToSet(b.asked)) = Cardinality(ToSet(b.done)) + Cardinality(b.failed) - Cardinality({})
  BY <1>1, <1>4, <1>5, FS_Union
<1>7. Cardinality({}) = 0 /\ Len(b.asked) \in Nat /\ Len(b.done) \in Nat
  BY <1>1, FS_EmptySet, LenProperties
<1>8. Len(b.done) + Cardinality(b.failed) = Len(b.asked)
  BY <1>4, <1>5, <1>6, <1>7
<1> QED
  BY <1>1, <1>8 DEF Sorted, Stage, Place

\* A page asked for, without a message in it twice, is answered for once:
\* what is read, in the order of the stages and within one in the order asked
\* for, and what failed are the page; and what failed was not there, or its
\* shared output was not there or not for the account, whatever the push path
\* has given up.  Each stage hands on what those before it left.
THEOREM PageAnswered ==
    ASSUME \A b \in Bounds : \A list \in b.batches : IsInjective(list)
    PROVE  Spec => []BatchAnswers
<1>1. Init => AnswersInv
  BY TypeInit DEF Init, AnswersInv
<1>2. AnswersInv /\ [Next]_vars => AnswersInv'
  BY AnswersStep
<1>3. AnswersInv => BatchAnswers
  BY AnsweredOnce
<1> QED
  BY <1>1, <1>2, <1>3, PTL DEF Spec
=============================================================================
