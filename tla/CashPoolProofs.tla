--------------------------- MODULE CashPoolProofs ---------------------------
(***************************************************************************)
(* Proofs about CashPool, for every set of loops, accounts, funds, sends   *)
(* and every bound.                                                        *)
(***************************************************************************)
EXTENDS CashPool, SequenceTheorems, FiniteSetTheorems, TLAPS

-----------------------------------------------------------------------------
(* Sequences: Array.filter and Array.splice.                               *)

LEMMA EnumerationIsSeq ==
    ASSUME NEW T, NEW n \in Nat, NEW f \in [1..n -> T]
    PROVE  f \in Seq(T) /\ Len(f) = n /\ DOMAIN f = 1..n
<1>1. f \in Seq(T)
  BY SeqDef
<1> QED
  BY <1>1, LenProperties

\* Filtering keeps elements, none of the filtered ones, and no new repetition.
LEMMA WithoutProperties ==
    ASSUME NEW S, NEW h \in Seq(S), NEW X, NEW g \in Without(h, X)
    PROVE  /\ g \in Seq(S)
           /\ ToSet(g) \subseteq ToSet(h) \ X
           /\ IsInjective(h) => IsInjective(g)
<1> DEFINE kept == {i \in 1..Len(h) : h[i] \notin X}
<1>1. PICK f \in SetToSeqs(kept) : g = [i \in 1..Len(f) |-> h[f[i]]]
  BY DEF Without
<1>2. f \in [1..Cardinality(kept) -> kept] /\ IsInjective(f)
  BY <1>1 DEF SetToSeqs, IsInjective
<1>3. IsFiniteSet(kept) /\ Cardinality(kept) \in Nat
  <2>1. IsFiniteSet(1..Len(h))
    BY FS_Interval
  <2> QED
    BY <2>1, FS_Subset, FS_CardinalityType
<1>4. f \in Seq(kept) /\ Len(f) = Cardinality(kept) /\ DOMAIN f = 1..Len(f)
  <2> HIDE DEF kept
  <2> QED
    BY <1>2, <1>3, EnumerationIsSeq
<1>5. \A i \in 1..Len(f) : f[i] \in 1..Len(h) /\ h[f[i]] \notin X
  BY <1>2, <1>4
<1>6. g \in Seq(S) /\ DOMAIN g = 1..Len(f)
  BY <1>1, <1>4, <1>5
<1>7. ToSet(g) \subseteq ToSet(h) \ X
  BY <1>1, <1>5, <1>6 DEF ToSet
<1>8. IsInjective(h) => IsInjective(g)
  BY <1>1, <1>2, <1>4, <1>5, <1>6 DEF IsInjective
<1> QED
  BY <1>6, <1>7, <1>8

\* splice drops at most the element at its index.
LEMMA SpliceProperties ==
    ASSUME NEW S, NEW h \in Seq(S), NEW i \in Nat
    PROVE  /\ Splice(h, i) \in Seq(S)
           /\ ToSet(Splice(h, i)) \subseteq ToSet(h)
           /\ IsInjective(h) => IsInjective(Splice(h, i))
           /\ IsInjective(h) /\ i \in 1..Len(h) => h[i] \notin ToSet(Splice(h, i))
<1>1. CASE i \notin 1..Len(h)
  BY <1>1 DEF Splice
<1>2. CASE i \in 1..Len(h)
  <2> DEFINE g == RemoveAt(h, i)
  <2> DEFINE front == SubSeq(h, 1, i - 1)
             back  == SubSeq(h, i + 1, Len(h))
  <2>1. Len(h) \in Nat /\ \A j \in 1..Len(h) : h[j] \in S
    OBVIOUS
  <2>2. /\ front \in Seq(S) /\ Len(front) = i - 1
        /\ \A j \in 1..(i - 1) : front[j] = h[j]
    BY <1>2, <2>1, SubSeqProperties
  <2>3. /\ back \in Seq(S) /\ Len(back) = Len(h) - i
        /\ \A j \in 1..(Len(h) - i) : back[j] = h[i + j]
    BY <1>2, <2>1, SubSeqProperties
  <2>4. g = front \o back
    BY DEF RemoveAt
  <2> HIDE DEF g, front, back
  <2>5. /\ g \in Seq(S) /\ Len(g) = Len(h) - 1 /\ DOMAIN g = 1..(Len(h) - 1)
        /\ \A j \in 1..(Len(h) - 1) : g[j] = IF j < i THEN h[j] ELSE h[j + 1]
    <3>1. g \in Seq(S) /\ Len(g) = Len(h) - 1
      BY <1>2, <2>1, <2>2, <2>3, <2>4, ConcatProperties
    <3>2. ASSUME NEW j \in 1..(Len(h) - 1)
          PROVE  g[j] = IF j < i THEN h[j] ELSE h[j + 1]
      <4>1. g[j] = IF j <= i - 1 THEN front[j] ELSE back[j - (i - 1)]
        BY <1>2, <2>1, <2>2, <2>3, <2>4, ConcatProperties
      <4>2. CASE j < i
        BY <1>2, <2>1, <2>2, <4>1, <4>2
      <4>3. CASE ~(j < i)
        BY <1>2, <2>1, <2>3, <4>1, <4>3
      <4> QED
        BY <4>2, <4>3
    <3> QED
      BY <3>1, <3>2, LenProperties
  <2>6. ToSet(g) \subseteq ToSet(h)
    BY <1>2, <2>1, <2>5 DEF ToSet
  <2>7. IsInjective(h) => IsInjective(g)
    <3> SUFFICES ASSUME IsInjective(h), NEW a \in 1..(Len(h) - 1),
                        NEW b \in 1..(Len(h) - 1), g[a] = g[b]
                 PROVE  a = b
      BY <2>5 DEF IsInjective
    <3>1. \A j, k \in 1..Len(h) : h[j] = h[k] => j = k
      BY <2>1 DEF IsInjective
    <3> DEFINE at(j) == IF j < i THEN j ELSE j + 1
    <3>2. Len(h) \in Nat
      BY <2>1
    <3>3. at(a) \in 1..Len(h) /\ at(b) \in 1..Len(h)
      BY <1>2, <3>2
    <3>4. g[a] = h[at(a)] /\ g[b] = h[at(b)]
      BY <2>5
    <3>5. at(a) = at(b)
      BY <3>1, <3>3, <3>4
    <3> QED
      BY <1>2, <3>2, <3>5
  <2>8. IsInjective(h) => h[i] \notin ToSet(g)
    BY <1>2, <2>1, <2>5 DEF IsInjective, ToSet
  <2> QED
    BY <1>2, <2>5, <2>6, <2>7, <2>8 DEF Splice, g
<1> QED
  BY <1>1, <1>2

\* Pushing an enumeration of a set adds its elements, once each.
LEMMA PushProperties ==
    ASSUME NEW S, NEW h \in Seq(S), NEW X, X \subseteq S, IsFiniteSet(X),
           NEW q \in SetToSeqs(X)
    PROVE  /\ h \o q \in Seq(S)
           /\ ToSet(h \o q) \subseteq ToSet(h) \union X
           /\ IsInjective(h) /\ X \intersect ToSet(h) = {} => IsInjective(h \o q)
<1>1. Cardinality(X) \in Nat
  BY FS_CardinalityType
<1>2. q \in [1..Cardinality(X) -> X] /\ IsInjective(q)
  BY DEF SetToSeqs, IsInjective
<1>3. q \in Seq(X) /\ q \in Seq(S)
  BY <1>1, <1>2, SeqDef, SeqMonotonic
<1>4. h \o q \in Seq(S) /\ Len(h \o q) = Len(h) + Len(q)
  BY <1>3, ConcatProperties
<1>5. \A j \in 1..Len(h \o q) :
          (h \o q)[j] = IF j <= Len(h) THEN h[j] ELSE q[j - Len(h)]
  BY <1>3, <1>4, ConcatProperties
<1>6. \A j \in 1..Len(q) : q[j] \in X
  BY <1>3
<1>7. ToSet(h \o q) \subseteq ToSet(h) \union X
  BY <1>3, <1>4, <1>5, <1>6 DEF ToSet
<1>8. ASSUME IsInjective(h), X \intersect ToSet(h) = {}
      PROVE  IsInjective(h \o q)
  <2>1. \A j \in 1..Len(h) : h[j] \notin X
    BY <1>8 DEF ToSet
  <2> SUFFICES ASSUME NEW a \in 1..(Len(h) + Len(q)), NEW b \in 1..(Len(h) + Len(q)),
                      (h \o q)[a] = (h \o q)[b]
               PROVE  a = b
    BY <1>4 DEF IsInjective
  <2>2. \A j, k \in 1..Len(h) : h[j] = h[k] => j = k
    BY <1>8 DEF IsInjective
  <2>3. \A j, k \in 1..Len(q) : q[j] = q[k] => j = k
    <3>1. DOMAIN q = 1..Len(q)
      BY <1>3, LenProperties
    <3>2. IsInjective(q)
      BY <1>2
    <3> QED
      BY <3>1, <3>2 DEF IsInjective
  <2>4. Len(h) \in Nat /\ Len(q) \in Nat
    BY <1>3, LenProperties
  <2>5. CASE a <= Len(h) /\ b <= Len(h)
    BY <1>4, <1>5, <2>2, <2>4, <2>5
  <2>6. CASE ~(a <= Len(h)) /\ ~(b <= Len(h))
    <3>1. a - Len(h) \in 1..Len(q) /\ b - Len(h) \in 1..Len(q)
      BY <2>4, <2>6
    <3>2. q[a - Len(h)] = q[b - Len(h)]
      BY <1>4, <1>5, <2>4, <2>6
    <3> QED
      BY <2>3, <2>4, <3>1, <3>2
  <2>7. ASSUME NEW j \in 1..(Len(h) + Len(q)), NEW k \in 1..(Len(h) + Len(q)),
               j <= Len(h), ~(k <= Len(h))
        PROVE  (h \o q)[j] # (h \o q)[k]
    <3>1. j \in 1..Len(h) /\ k - Len(h) \in 1..Len(q)
      BY <2>4, <2>7
    <3>2. (h \o q)[j] = h[j] /\ (h \o q)[k] = q[k - Len(h)]
      BY <1>4, <1>5, <2>4, <2>7
    <3> QED
      BY <1>6, <2>1, <3>1, <3>2
  <2> QED
    BY <2>5, <2>6, <2>7
<1> QED
  BY <1>4, <1>7, <1>8

-----------------------------------------------------------------------------
(* The ledger.                                                             *)

\* The outputs of one transaction, or the initial ones: t paired with 1..n.
LEMMA RowFinite ==
    ASSUME NEW t, NEW n \in Nat
    PROVE  IsFiniteSet({<<t, k>> : k \in 1..n})
<1> DEFINE T == {<<t, k>> : k \in 1..n}
           f == [k \in 1..n |-> <<t, k>>]
<1>1. f \in Surjection(1..n, T)
  BY DEF Surjection
<1> HIDE DEF f, T
<1>2. IsFiniteSet(1..n)
  BY FS_Interval
<1>3. IsFiniteSet(T)
  BY <1>1, <1>2, FS_Surjection
<1> QED
  BY <1>3 DEF T

LEMMA TxsTyped ==
    ASSUME txs \in Seq(Transaction)
    PROVE  /\ Len(txs) \in Nat
           /\ DOMAIN txs = 1..Len(txs)
           /\ \A t \in 1..Len(txs) :
                  txs[t] \in Transaction /\ Len(txs[t].outs) \in Nat
<1>1. Len(txs) \in Nat /\ DOMAIN txs = 1..Len(txs)
  BY LenProperties
<1>2. \A t \in 1..Len(txs) : txs[t] \in Transaction
  BY ElementOfSeq
<1>3. \A t \in 1..Len(txs) : Len(txs[t].outs) \in Nat
  BY <1>2, LenProperties DEF Transaction
<1> QED
  BY <1>1, <1>2, <1>3

LEMMA OutputFinite ==
    ASSUME txs \in Seq(Transaction)
    PROVE  IsFiniteSet(Output)
<1> DEFINE row == [t \in 1..Len(txs) |-> {<<t, k>> : k \in 1..Len(txs[t].outs)}]
<1>1. IsFiniteSet({<<0, k>> : k \in 1..Len(Funds)})
  BY FundsAssumption, LenProperties, RowFinite
<1>2. IsFiniteSet(1..Len(txs))
  BY TxsTyped, FS_Interval
<1>3. \A t \in 1..Len(txs) : IsFiniteSet({<<t, k>> : k \in 1..Len(txs[t].outs)})
  BY TxsTyped, RowFinite
<1> DEFINE Rows == {{<<t, k>> : k \in 1..Len(txs[t].outs)} : t \in 1..Len(txs)}
<1>4. row \in Surjection(1..Len(txs), Rows)
  BY DEF Surjection
<1>5. \A R \in Rows : IsFiniteSet(R)
  BY <1>3
<1> HIDE DEF row, Rows
<1>6. IsFiniteSet(Rows)
  BY <1>2, <1>4, FS_Surjection
<1>7. IsFiniteSet(UNION Rows)
  BY <1>5, <1>6, FS_UNION
<1> QED
  BY <1>1, <1>7, FS_Union DEF Output, Rows

LEMMA OutputTyped ==
    ASSUME txs \in Seq(Transaction), NEW o \in Output
    PROVE  o \in OutputId /\ Amount(o) \in Int
<1>1. CASE \E k \in 1..Len(Funds) : o = <<0, k>>
  <2>1. PICK k \in 1..Len(Funds) : o = <<0, k>>
    BY <1>1
  <2>2. Funds[k] \in [owner : Accounts, amount : Nat, cash : BOOLEAN]
    BY FundsAssumption, ElementOfSeq
  <2> QED
    BY <2>1, <2>2 DEF OutputId, Amount
<1>2. CASE \E t \in 1..Len(txs) : \E k \in 1..Len(txs[t].outs) : o = <<t, k>>
  <2>0. PICK t \in 1..Len(txs) : \E k \in 1..Len(txs[t].outs) : o = <<t, k>>
    BY <1>2
  <2>1. PICK k \in 1..Len(txs[t].outs) : o = <<t, k>>
    BY <2>0
  <2>2. t \in Nat /\ k \in Nat /\ t # 0 /\ txs[t].outs \in Seq(Int)
    BY TxsTyped DEF Transaction
  <2>3. txs[t].outs[k] \in Int
    BY <2>2, ElementOfSeq
  <2> QED
    BY <2>1, <2>2, <2>3 DEF OutputId, Amount
<1> QED
  BY <1>1, <1>2 DEF Output

LEMMA UnspentIsOutput == \A a : Unspent(a) \subseteq Output /\ OnLedger(a) \subseteq Output
  BY DEF Unspent, OnLedger

-----------------------------------------------------------------------------
(* How the pieces of an action act on the invariant.                       *)

LEMMA GotoProperties ==
    ASSUME loop \in [Loops -> Locals], NEW l \in Loops, NEW r \in Locals, Goto(l, r)
    PROVE  /\ loop' \in [Loops -> Locals]
           /\ loop'[l] = r
           /\ \A m \in Loops : m # l => loop'[m] = loop[m]
  BY DEF Goto

LEMMA IdleTyped == Idle \in Locals
  BY SendsAssumption DEF Idle, Locals, Places, Returns, Source

\* An action of a loop that leaves the pool and the transactions alone.
LEMMA LocalStep ==
    ASSUME IndexInv, NEW l \in Loops, NEW r \in Locals, Goto(l, r),
           r.at # "answer", r.created \subseteq Output, r.toPush \subseteq Output,
           UNCHANGED <<pool, txs, account, cooling, preparing>>, inited' \in BOOLEAN
    PROVE  IndexInv'
<1> USE DEF IndexInv
<1>1. /\ loop' \in [Loops -> Locals]
      /\ loop'[l] = r
      /\ \A m \in Loops : m # l => loop'[m] = loop[m]
  BY GotoProperties DEF TypeOK
<1>2. Output' = Output /\ TxId' = TxId
  BY DEF Output, TxId
<1>3. TypeOK'
  BY <1>1, <1>2 DEF TypeOK, pool
<1>4. Known'
  BY <1>1, <1>2 DEF Known, pool
<1>5. Fresh'
  BY <1>1, <1>2 DEF Fresh, pool
<1>6. PendingIndexed'
  BY DEF PendingIndexed, pool
<1> QED
  BY <1>3, <1>4, <1>5, <1>6

\* Settling keeps the indexes in step with the pending transactions.
LEMMA SettleProperties ==
    ASSUME TypeOK, PendingIndexed, NEW ts, Settle(ts), UNCHANGED txs
    PROVE  /\ DOMAIN pending' \subseteq DOMAIN pending
           /\ DOMAIN pendingSpent' \subseteq DOMAIN pendingSpent
           /\ \A o \in DOMAIN pendingSpent' : pendingSpent'[o] = pendingSpent[o]
           /\ pending' \in [DOMAIN pending' -> [inputs : SUBSET OutputId, outputs : SUBSET OutputId]]
           /\ pendingSpent' \in [DOMAIN pendingSpent' -> TxId]
           /\ pendingCreated' \in [DOMAIN pendingCreated' -> TxId]
           /\ PendingIndexed'
<1> DEFINE known == ts \intersect DOMAIN pending
           ins   == UNION {pending[t].inputs : t \in known}
           outs  == UNION {pending[t].outputs : t \in known}
<1>1. /\ pending' = [t \in DOMAIN pending \ known |-> pending[t]]
      /\ pendingSpent' = [o \in DOMAIN pendingSpent \ ins |-> pendingSpent[o]]
      /\ pendingCreated' = [o \in DOMAIN pendingCreated \ outs |-> pendingCreated[o]]
  BY DEF Settle, Restrict
<1>2. ASSUME NEW o \in DOMAIN pendingSpent'
      PROVE  pendingSpent'[o] \in DOMAIN pending' /\ o \in pending'[pendingSpent'[o]].inputs
  <2>1. o \in DOMAIN pendingSpent /\ o \notin ins /\ pendingSpent'[o] = pendingSpent[o]
    BY <1>1
  <2>2. pendingSpent[o] \in DOMAIN pending /\ o \in pending[pendingSpent[o]].inputs
    BY <2>1 DEF PendingIndexed
  <2>3. pendingSpent[o] \notin known
    BY <2>1, <2>2
  <2> QED
    BY <1>1, <2>1, <2>2, <2>3
<1>3. ASSUME NEW o \in DOMAIN pendingCreated'
      PROVE  pendingCreated'[o] \in DOMAIN pending' /\ o \in pending'[pendingCreated'[o]].outputs
  <2>1. o \in DOMAIN pendingCreated /\ o \notin outs /\ pendingCreated'[o] = pendingCreated[o]
    BY <1>1
  <2>2. pendingCreated[o] \in DOMAIN pending /\ o \in pending[pendingCreated[o]].outputs
    BY <2>1 DEF PendingIndexed
  <2>3. pendingCreated[o] \notin known
    BY <2>1, <2>2
  <2> QED
    BY <1>1, <2>1, <2>2, <2>3
<1>4. PendingIndexed'
  BY <1>2, <1>3 DEF PendingIndexed
<1>5. /\ DOMAIN pending' \subseteq DOMAIN pending
      /\ DOMAIN pendingSpent' \subseteq DOMAIN pendingSpent
      /\ \A o \in DOMAIN pendingSpent' : pendingSpent'[o] = pendingSpent[o]
  BY <1>1
<1>6. /\ pending' \in [DOMAIN pending' -> [inputs : SUBSET OutputId, outputs : SUBSET OutputId]]
      /\ pendingSpent' \in [DOMAIN pendingSpent' -> TxId]
      /\ pendingCreated' \in [DOMAIN pendingCreated' -> TxId]
  <2> HIDE DEF known, ins, outs
  <2> QED
    BY <1>1 DEF TypeOK
<1> QED
  BY <1>4, <1>5, <1>6

\* Recording a transaction that is not yet recorded keeps them in step too.
LEMMA AddPendingProperties ==
    ASSUME TypeOK, PendingIndexed, NEW t \in TxId, t \notin DOMAIN pending,
           NEW inputs \in SUBSET OutputId, NEW outputs \in SUBSET OutputId,
           AddPending(t, inputs, outputs), UNCHANGED txs
    PROVE  /\ DOMAIN pending' = DOMAIN pending \union {t}
           /\ DOMAIN pendingSpent' = DOMAIN pendingSpent \union inputs
           /\ \A o \in DOMAIN pendingSpent' :
                 pendingSpent'[o] = IF o \in inputs THEN t ELSE pendingSpent[o]
           /\ pending' \in [DOMAIN pending' -> [inputs : SUBSET OutputId, outputs : SUBSET OutputId]]
           /\ pendingSpent' \in [DOMAIN pendingSpent' -> TxId]
           /\ pendingCreated' \in [DOMAIN pendingCreated' -> TxId]
           /\ PendingIndexed'
<1> DEFINE rec == [inputs |-> inputs, outputs |-> outputs]
<1>1. /\ pending' = [x \in DOMAIN pending \union {t} |-> IF x \in {t} THEN rec ELSE pending[x]]
      /\ pendingSpent' = [o \in DOMAIN pendingSpent \union inputs |->
                             IF o \in inputs THEN t ELSE pendingSpent[o]]
      /\ pendingCreated' = [o \in DOMAIN pendingCreated \union outputs |->
                             IF o \in outputs THEN t ELSE pendingCreated[o]]
  BY DEF AddPending, PutAll
<1>2. rec.inputs = inputs /\ rec.outputs = outputs
      /\ rec \in [inputs : SUBSET OutputId, outputs : SUBSET OutputId]
  OBVIOUS
<1> HIDE DEF rec
<1>3. PendingIndexed'
  BY <1>1, <1>2 DEF PendingIndexed
<1>4. /\ pending' \in [DOMAIN pending' -> [inputs : SUBSET OutputId, outputs : SUBSET OutputId]]
      /\ pendingSpent' \in [DOMAIN pendingSpent' -> TxId]
      /\ pendingCreated' \in [DOMAIN pendingCreated' -> TxId]
  BY <1>1, <1>2 DEF TypeOK
<1> QED
  BY <1>1, <1>3, <1>4

\* A synchronization leaves the transactions alone and shrinks what is
\* pending; the hints it leaves are known outputs.
LEMMA SyncStep ==
    ASSUME IndexInv, NEW l \in Loops, NEW r \in Locals, Goto(l, r),
           r.at # "answer", r.created \subseteq Output, r.toPush \subseteq Output,
           NEW ts, Settle(ts), UNCHANGED <<account, inited, preparing, txs>>,
           cooling' \in BOOLEAN, hints' \in Seq(OutputId), ToSet(hints') \subseteq Output
    PROVE  IndexInv'
<1>1. /\ loop' \in [Loops -> Locals]
      /\ loop'[l] = r
      /\ \A m \in Loops : m # l => loop'[m] = loop[m]
  BY GotoProperties DEF IndexInv, TypeOK
<1>2. Output' = Output /\ TxId' = TxId
  BY DEF Output, TxId
<1>3. /\ DOMAIN pending' \subseteq DOMAIN pending
      /\ pending' \in [DOMAIN pending' -> [inputs : SUBSET OutputId, outputs : SUBSET OutputId]]
      /\ pendingSpent' \in [DOMAIN pendingSpent' -> TxId]
      /\ pendingCreated' \in [DOMAIN pendingCreated' -> TxId]
      /\ PendingIndexed'
  BY SettleProperties DEF IndexInv
<1>4. TypeOK'
  BY <1>1, <1>2, <1>3 DEF IndexInv, TypeOK
<1>5. Known'
  BY <1>1, <1>2 DEF IndexInv, Known
<1>6. Fresh'
  BY <1>1, <1>2, <1>3 DEF IndexInv, Fresh
<1> QED
  BY <1>3, <1>4, <1>5, <1>6 DEF IndexInv

\* The answer of the node: the transaction becomes pending.
LEMMA AnswerStep ==
    ASSUME IndexInv, NEW l \in Loops, loop[l].at = "answer", Goto(l, Idle),
           NEW inputs \in SUBSET OutputId,
           AddPending(loop[l].tx, inputs, CreatedBy(l)), UNCHANGED <<flags, txs>>,
           hints' \in Seq(OutputId), ToSet(hints') \subseteq ToSet(hints)
    PROVE  IndexInv'
<1>1. /\ loop' \in [Loops -> Locals]
      /\ loop'[l] = Idle
      /\ \A m \in Loops : m # l => loop'[m] = loop[m]
  BY GotoProperties, IdleTyped DEF IndexInv, TypeOK
<1>2. Output' = Output /\ TxId' = TxId
  BY DEF Output, TxId
<1>3. loop[l] \in Locals /\ loop[l].tx \in TxId /\ loop[l].tx \notin DOMAIN pending
  BY DEF IndexInv, TypeOK, Fresh
<1>4. CreatedBy(l) \in SUBSET OutputId
  <2>1. Len(loop[l].outs) \in Nat /\ loop[l].tx \in Nat
    BY <1>3, LenProperties DEF Locals
  <2> QED
    BY <2>1 DEF CreatedBy, OutputId
<1>5. /\ DOMAIN pending' = DOMAIN pending \union {loop[l].tx}
      /\ pending' \in [DOMAIN pending' -> [inputs : SUBSET OutputId, outputs : SUBSET OutputId]]
      /\ pendingSpent' \in [DOMAIN pendingSpent' -> TxId]
      /\ pendingCreated' \in [DOMAIN pendingCreated' -> TxId]
      /\ PendingIndexed'
  BY <1>3, <1>4, AddPendingProperties DEF IndexInv
<1>6. TypeOK'
  BY <1>1, <1>2, <1>3, <1>5 DEF IndexInv, TypeOK, flags
<1>7. Known'
  BY <1>1, <1>2 DEF IndexInv, Known, Idle
<1>8. Fresh'
  BY <1>1, <1>2, <1>5 DEF IndexInv, Fresh, Idle
<1> QED
  BY <1>5, <1>6, <1>7, <1>8 DEF IndexInv

\* A new transaction only adds outputs.
LEMMA OutputGrows ==
    ASSUME txs \in Seq(Transaction), NEW t \in Transaction, txs' = Append(txs, t)
    PROVE  Output \subseteq Output'
<1>1. /\ txs' \in Seq(Transaction) /\ Len(txs') = Len(txs) + 1
      /\ \A i \in 1..Len(txs) : txs'[i] = txs[i]
  BY AppendProperties
<1>2. Len(txs) \in Nat
  BY LenProperties
<1> QED
  BY <1>1, <1>2 DEF Output

-----------------------------------------------------------------------------
LEMMA IndexInit == Init => IndexInv
<1> SUFFICES ASSUME Init PROVE IndexInv
  OBVIOUS
<1>1. TypeOK
  <2>1. hints \in Seq(OutputId) /\ txs \in Seq(Transaction)
    BY DEF Init
  <2>2. \A f, S, T : f = <<>> => DOMAIN f = {} /\ f \in [DOMAIN f -> S] /\ DOMAIN f \subseteq T
    OBVIOUS
  <2>3. loop \in [Loops -> Locals]
    BY IdleTyped DEF Init
  <2>4. /\ pending \in [DOMAIN pending -> [inputs : SUBSET OutputId, outputs : SUBSET OutputId]]
        /\ DOMAIN pending \subseteq TxId
        /\ pendingSpent \in [DOMAIN pendingSpent -> TxId]
        /\ pendingCreated \in [DOMAIN pendingCreated -> TxId]
    BY <2>2 DEF Init
  <2> QED
    BY <2>1, <2>3, <2>4 DEF Init, TypeOK
<1>2. Known
  BY DEF Init, Known, Idle, ToSet
<1>3. Fresh /\ PendingIndexed
  BY DEF Init, Fresh, PendingIndexed, Idle
<1> QED
  BY <1>1, <1>2, <1>3 DEF IndexInv

\* The actions that only move a loop on.
LEMMA IndexLocal ==
    ASSUME IndexInv, NEW l \in Loops,
           \/ CashInit(l) \/ Prepare(l) \/ Retry(l) \/ Consolidate(l) \/ Split(l)
           \/ (\E s \in Sends : Send(l, s)) \/ GetCash(l) \/ Fly(l)
           \/ RequestFails(l) \/ AnswerLost(l)
    PROVE  IndexInv'
<1>1. loop[l] \in Locals /\ loop[l].created \subseteq Output /\ loop[l].toPush \subseteq Output
  BY DEF IndexInv, TypeOK, Known
<1>2. Idle \in Locals /\ Idle.created = {} /\ Idle.toPush = {}
  BY IdleTyped DEF Idle
<1>3. \A o \in Output : o \in OutputId /\ Amount(o) \in Int
  BY OutputTyped DEF IndexInv, TypeOK
<1>4. /\ inited \in BOOLEAN /\ hints \in Seq(OutputId) /\ ToSet(hints) \subseteq Output
      /\ account \in Accounts
  BY DEF IndexInv, TypeOK, Known
<1>5. ASSUME NEW ret \in Returns, Ask(l, ret), UNCHANGED <<flags, pool, txs>>
      PROVE  IndexInv'
  <2> DEFINE made == {o \in Unspent(account) : IsCash(o)}
             used == {o \in OnLedger(account) \intersect Consumed : IsCash(o)}
             r == [loop[l] EXCEPT !.at = "sync", !.ret = ret, !.asked = account,
                                  !.created = made, !.consumed = used]
  <2>1. made \subseteq Output /\ used \subseteq Output
    BY UnspentIsOutput
  <2>2. made \in SUBSET OutputId /\ used \in SUBSET OutputId
    BY <1>3, <2>1
  <2>3. Goto(l, r)
    BY <1>5 DEF Ask
  <2> HIDE DEF made, used
  <2>4. r \in Locals /\ r.at # "answer" /\ r.created \subseteq Output /\ r.toPush \subseteq Output
    BY <1>1, <1>4, <2>1, <2>2 DEF Locals, Places, Returns
  <2> HIDE DEF r
  <2> QED
    BY <1>4, <1>5, <2>3, <2>4, LocalStep DEF flags
<1>6. ASSUME NEW r \in Locals, Goto(l, r), r.at # "answer", r.created \subseteq Output,
             r.toPush \subseteq Output, UNCHANGED <<pool, txs, account, cooling, preparing>>,
             inited' \in BOOLEAN
      PROVE  IndexInv'
  BY <1>6, LocalStep
<1>7. CASE CashInit(l)
  <2>1. CASE cooling
    <3> DEFINE r == [Idle EXCEPT !.at = "consolidate"]
    <3>1. r \in Locals /\ r.at # "answer" /\ r.created \subseteq Output /\ r.toPush \subseteq Output
      BY <1>2 DEF Locals, Places
    <3>2. Goto(l, r)
      BY <1>7, <2>1 DEF CashInit
    <3> HIDE DEF r
    <3> QED
      BY <1>4, <1>6, <1>7, <3>1, <3>2 DEF CashInit, flags, ledger
  <2>2. CASE ~cooling
    BY <1>5, <1>7, <2>2 DEF CashInit, ledger, Returns
  <2> QED
    BY <2>1, <2>2
<1>8. CASE Prepare(l)
  BY <1>5, <1>8 DEF Prepare, ledger, Returns
<1>9. CASE Retry(l)
  BY <1>5, <1>9 DEF Retry, ledger, Returns
<1>10. CASE Split(l)
  <2> DEFINE unspent == Unspent(loop[l].asked)
             total   == TotalAmount(unspent)
             per     == total \div SplitNums
             outs    == [i \in 1..SplitNums |->
                           IF i < SplitNums THEN per ELSE total - (SplitNums - 1) * per]
             r == [Idle EXCEPT !.at = "sign", !.src = "all", !.asked = loop[l].asked,
                               !.ins = unspent, !.outs = outs]
  <2>1. CASE Goto(l, Idle)
    BY <1>2, <1>4, <1>6, <1>10, <2>1 DEF Split, flags, ledger, Idle
  <2>2. CASE Goto(l, r)
    <3>1. total \in Int
      BY <1>10 DEF Split
    <3>2. unspent \in SUBSET OutputId
      BY <1>3, UnspentIsOutput
    <3> HIDE DEF total, unspent
    <3>3. per \in Int /\ (SplitNums - 1) * per \in Int
      BY <3>1, SplitAssumption
    <3>4. outs \in [1..SplitNums -> Int]
      <4> HIDE DEF per
      <4> QED
        BY <3>1, <3>3, SplitAssumption
    <3> HIDE DEF outs
    <3>5. outs \in Seq(Int)
      BY <3>4, SplitAssumption, EnumerationIsSeq
    <3>6. r \in Locals /\ r.at # "answer" /\ r.created \subseteq Output /\ r.toPush \subseteq Output
      BY <1>1, <1>2, <3>2, <3>5 DEF Locals, Places, Source
    <3> HIDE DEF r
    <3> QED
      BY <1>4, <1>6, <1>10, <2>2, <3>6 DEF Split, flags, ledger
  <2> QED
    BY <1>10, <2>1, <2>2 DEF Split
<1>11. CASE \E s \in Sends : Send(l, s)
  <2> PICK s \in Sends : Send(l, s)
    BY <1>11
  <2>1. s \in [pay : Nat, extra : Nat]
    BY SendsAssumption
  <2> DEFINE r(at) == [Idle EXCEPT !.at = at, !.send = s]
  <2>2. \A at \in Places \ {"answer"} :
            /\ r(at) \in Locals /\ r(at).at # "answer"
            /\ r(at).created \subseteq Output /\ r(at).toPush \subseteq Output
    BY <1>2, <2>1 DEF Locals
  <2>3. Goto(l, r("sign")) \/ Goto(l, r("getcash"))
    BY DEF Send
  <2>4. UNCHANGED <<pool, txs, account, cooling, preparing>> /\ inited' \in BOOLEAN
    BY <1>4 DEF Send, flags, ledger
  <2> HIDE DEF r
  <2> QED
    BY <1>6, <2>2, <2>3, <2>4 DEF Places
<1>12. ASSUME NEW o \in Output, NEW src \in Source, NEW index \in Nat,
              NEW asked \in Accounts \union {"none"},
              Goto(l, [loop[l] EXCEPT !.at = "sign", !.src = src, !.index = index, !.asked = asked,
                         !.ins = {o}, !.outs = <<Amount(o) - Need(loop[l].send)>>]),
              UNCHANGED <<pool, txs, flags>>
       PROVE  IndexInv'
  <2> DEFINE outs == <<Amount(o) - Need(loop[l].send)>>
             r == [loop[l] EXCEPT !.at = "sign", !.src = src, !.index = index, !.asked = asked,
                                  !.ins = {o}, !.outs = outs]
  <2>1. Amount(o) - Need(loop[l].send) \in Int
    BY <1>1, <1>3 DEF Need, Locals
  <2>2. outs \in Seq(Int) /\ {o} \in SUBSET OutputId
    BY <1>3, <2>1
  <2> HIDE DEF outs
  <2>3. r \in Locals /\ r.at # "answer" /\ r.created \subseteq Output /\ r.toPush \subseteq Output
    BY <1>1, <2>2 DEF Locals, Places
  <2>4. Goto(l, r)
    BY <1>12 DEF outs
  <2> HIDE DEF r
  <2> QED
    BY <1>4, <1>6, <1>12, <2>3, <2>4 DEF flags
<1>13. CASE GetCash(l)
  <2>1. CASE NoHint(l)
    <3> DEFINE at == IF loop[l].attempt + 1 = MaxRetries THEN "fly" ELSE "retry"
               r == [loop[l] EXCEPT !.attempt = @ + 1, !.asked = account, !.at = at]
    <3>1. at \in Places /\ at # "answer" /\ loop[l].attempt + 1 \in Nat
      BY <1>1 DEF Locals, Places
    <3>2. Goto(l, r)
      BY <2>1 DEF NoHint
    <3> HIDE DEF at
    <3>3. r \in Locals /\ r.at # "answer" /\ r.created \subseteq Output /\ r.toPush \subseteq Output
      BY <1>1, <1>4, <3>1 DEF Locals
    <3> HIDE DEF r
    <3> QED
      BY <1>4, <1>6, <1>13, <3>2, <3>3 DEF GetCash, flags, ledger
  <2>2. ASSUME NEW i \in 1..Len(hints), UseHint(l, i)
        PROVE  IndexInv'
    <3>1. hints[i] \in Output /\ i \in Nat
      BY <1>4, LenProperties DEF ToSet
    <3>2. "hint" \in Source
      BY DEF Source
    <3>3. Goto(l, [loop[l] EXCEPT !.at = "sign", !.src = "hint", !.index = i, !.asked = account,
                     !.ins = {hints[i]}, !.outs = <<Amount(hints[i]) - Need(loop[l].send)>>])
      BY <2>2 DEF UseHint
    <3>4. UNCHANGED <<pool, txs, flags>> /\ account \in Accounts \union {"none"}
      BY <1>4, <1>13 DEF GetCash, ledger
    <3> QED
      BY <1>12, <3>1, <3>2, <3>3, <3>4
  <2>3. ASSUME NEW i \in 1..Len(hints), LeaveHint(l, i)
        PROVE  IndexInv'
    <3> DEFINE r == [loop[l] EXCEPT !.at = "fly", !.index = i, !.asked = account]
    <3>1. r \in Locals /\ r.at # "answer" /\ r.created \subseteq Output /\ r.toPush \subseteq Output
      <4>1. i \in Nat
        BY <1>4, LenProperties
      <4> QED
        BY <1>1, <1>4, <4>1 DEF Locals, Places
    <3>2. Goto(l, r)
      BY <2>3 DEF LeaveHint
    <3> HIDE DEF r
    <3> QED
      BY <1>4, <1>6, <1>13, <3>1, <3>2 DEF GetCash, flags, ledger
  <2> QED
    BY <1>13, <2>1, <2>2, <2>3 DEF GetCash
<1>14. CASE Fly(l)
  <2>1. ASSUME NEW o \in Unspent(loop[l].asked),
               Goto(l, [loop[l] EXCEPT !.at = "sign", !.src = "fly",
                          !.ins = {o}, !.outs = <<Amount(o) - Need(loop[l].send)>>])
        PROVE  IndexInv'
    <3>1. [loop[l] EXCEPT !.at = "sign", !.src = "fly",
             !.ins = {o}, !.outs = <<Amount(o) - Need(loop[l].send)>>]
          = [loop[l] EXCEPT !.at = "sign", !.src = "fly", !.index = loop[l].index,
             !.asked = loop[l].asked, !.ins = {o}, !.outs = <<Amount(o) - Need(loop[l].send)>>]
      BY <1>1 DEF Locals
    <3>2. /\ o \in Output /\ "fly" \in Source /\ loop[l].index \in Nat
          /\ loop[l].asked \in Accounts \union {"none"}
      BY <1>1, UnspentIsOutput DEF Source, Locals
    <3>3. Goto(l, [loop[l] EXCEPT !.at = "sign", !.src = "fly", !.index = loop[l].index,
                     !.asked = loop[l].asked, !.ins = {o},
                     !.outs = <<Amount(o) - Need(loop[l].send)>>])
      BY <2>1, <3>1
    <3>4. UNCHANGED <<pool, txs, flags>>
      BY <1>14 DEF Fly, ledger
    <3> QED
      BY <1>12, <3>2, <3>3, <3>4
  <2>2. CASE Goto(l, Idle)
    BY <1>2, <1>4, <1>6, <1>14, <2>2 DEF Fly, flags, ledger, Idle
  <2> QED
    BY <1>14, <2>1, <2>2 DEF Fly
<1>15. CASE RequestFails(l) \/ AnswerLost(l)
  BY <1>2, <1>4, <1>6, <1>15 DEF RequestFails, AnswerLost, flags, ledger, Idle
<1>16. CASE Consolidate(l)
  <2> DEFINE r == [Idle EXCEPT !.at = "unspent", !.asked = account]
  <2>1. r \in Locals /\ r.at # "answer" /\ r.created \subseteq Output /\ r.toPush \subseteq Output
    BY <1>2, <1>4 DEF Locals, Places
  <2>2. Goto(l, r) \/ Goto(l, Idle)
    BY <1>16 DEF Consolidate
  <2>3. Idle.at # "answer"
    BY DEF Idle
  <2>4. inited' \in BOOLEAN
    BY <1>16 DEF Consolidate
  <2> HIDE DEF r
  <2> QED
    BY <1>2, <1>6, <1>16, <2>1, <2>2, <2>3, <2>4 DEF Consolidate, ledger
<1> QED
  BY <1>7, <1>8, <1>9, <1>10, <1>11, <1>13, <1>14, <1>15, <1>16

LEMMA IndexSubmit == ASSUME IndexInv, NEW l \in Loops, Submit(l) PROVE IndexInv'
<1> DEFINE t == [owner |-> account, ins |-> loop[l].ins,
                 outs |-> loop[l].outs, src |-> loop[l].src]
           r == [loop[l] EXCEPT !.at = "answer", !.tx = Len(txs) + 1]
<1>1. loop[l] \in Locals /\ loop[l].created \subseteq Output /\ loop[l].toPush \subseteq Output
  BY DEF IndexInv, TypeOK, Known
<1>2. t \in Transaction /\ txs \in Seq(Transaction) /\ txs' = Append(txs, t)
  BY <1>1 DEF Locals, Transaction, IndexInv, TypeOK, Submit
<1> HIDE DEF t
<1>3. /\ txs' \in Seq(Transaction) /\ Len(txs') = Len(txs) + 1 /\ Len(txs) \in Nat
  BY <1>2, AppendProperties, LenProperties
<1>4. Output \subseteq Output'
  BY <1>2, OutputGrows
<1>5. TxId \subseteq TxId' /\ Len(txs) + 1 \in TxId' /\ Len(txs) + 1 \notin TxId
  BY <1>3 DEF TxId
<1>6. r \in Locals /\ r.at = "answer" /\ r.tx = Len(txs) + 1
      /\ r.created = loop[l].created /\ r.toPush = loop[l].toPush
  <2>1. Len(txs) + 1 \in Nat
    BY <1>3
  <2> QED
    BY <1>1, <2>1 DEF Locals, Places
<1>7. Goto(l, r)
  BY DEF Submit
<1> HIDE DEF r
<1>8. /\ loop' \in [Loops -> Locals]
      /\ loop'[l] = r
      /\ \A m \in Loops : m # l => loop'[m] = loop[m]
  BY <1>6, <1>7, GotoProperties DEF IndexInv, TypeOK
<1>9. UNCHANGED <<flags, pool>>
  BY DEF Submit
<1>10. TypeOK'
  BY <1>3, <1>5, <1>8, <1>9 DEF IndexInv, TypeOK, flags, pool
<1>11. Known'
  BY <1>1, <1>4, <1>6, <1>8, <1>9 DEF IndexInv, Known, pool
<1>12. Fresh'
  <2>1. DOMAIN pending' \subseteq TxId
    BY <1>9 DEF IndexInv, TypeOK, pool
  <2>2. \A m \in Loops : loop[m].at = "answer" => loop[m].tx \in TxId \ DOMAIN pending'
    BY <1>9 DEF IndexInv, Fresh, pool
  <2> QED
    BY <1>5, <1>6, <1>8, <2>1, <2>2 DEF IndexInv, Fresh
<1>13. PendingIndexed'
  BY <1>9 DEF IndexInv, PendingIndexed, pool
<1> QED
  BY <1>10, <1>11, <1>12, <1>13 DEF IndexInv

LEMMA AfterSyncTyped ==
    ASSUME TypeOK, NEW l \in Loops
    PROVE  /\ AfterSync(l) \in Locals
           /\ AfterSync(l).at # "answer" /\ AfterSync(l).at # "sign"
           /\ AfterSync(l).created = {} /\ AfterSync(l).toPush = {}
<1>1. loop[l] \in Locals
  BY DEF TypeOK
<1> QED
  BY <1>1, IdleTyped DEF AfterSync, Idle, Locals, Places, Returns

\* Finite sets of outputs have enumerations, so what a batch pushes is known.
LEMMA BatchHints ==
    ASSUME TypeOK, Known, NEW l \in Loops, NEW q \in SetToSeqs(loop[l].toPush),
           NEW X, NEW g \in Without(hints \o q, X)
    PROVE  /\ g \in Seq(OutputId)
           /\ ToSet(g) \subseteq (ToSet(hints) \union loop[l].toPush) \ X
           /\ IsInjective(hints) /\ loop[l].toPush \intersect ToSet(hints) = {}
                => IsInjective(g)
<1>1. loop[l].toPush \subseteq OutputId /\ hints \in Seq(OutputId)
  BY DEF TypeOK, Locals
<1>2. IsFiniteSet(loop[l].toPush)
  BY OutputFinite, FS_Subset DEF TypeOK, Known
<1>3. /\ hints \o q \in Seq(OutputId)
      /\ ToSet(hints \o q) \subseteq ToSet(hints) \union loop[l].toPush
      /\ IsInjective(hints) /\ loop[l].toPush \intersect ToSet(hints) = {}
            => IsInjective(hints \o q)
  BY <1>1, <1>2, PushProperties
<1>4. /\ g \in Seq(OutputId)
      /\ ToSet(g) \subseteq ToSet(hints \o q) \ X
      /\ IsInjective(hints \o q) => IsInjective(g)
  BY <1>3, WithoutProperties
<1> QED
  BY <1>3, <1>4

\* The three ways a synchronization ends.
LEMMA IndexSync ==
    ASSUME IndexInv, NEW l \in Loops,
           SyncFails(l) \/ SyncCreated(l) \/ SyncQuiet(l) \/ SyncBatch(l)
    PROVE  IndexInv'
<1>1. loop[l] \in Locals /\ loop[l].created \subseteq Output /\ loop[l].toPush \subseteq Output
  BY DEF IndexInv, TypeOK, Known
<1>2. /\ account \in Accounts /\ inited \in BOOLEAN /\ cooling \in BOOLEAN
      /\ hints \in Seq(OutputId) /\ ToSet(hints) \subseteq Output
  BY DEF IndexInv, TypeOK, Known
<1>3. ASSUME NEW seen, NEW consumed, EndSync(l, seen, consumed),
             loop[l].at \in {"sync", "batch"},
             hints' \in Seq(OutputId), ToSet(hints') \subseteq Output
      PROVE  IndexInv'
  <2>1. AfterSync(l) \in Locals /\ AfterSync(l).at # "answer"
        /\ AfterSync(l).created = {} /\ AfterSync(l).toPush = {}
    BY AfterSyncTyped DEF IndexInv
  <2>2. PICK ts : Settle(ts)
    BY <1>3 DEF EndSync
  <2> QED
    BY <1>3, <2>1, <2>2, SyncStep DEF EndSync, ledger
<1>4. CASE SyncFails(l)
  BY <1>2, <1>3, <1>4 DEF SyncFails
<1>5. CASE SyncCreated(l)
  <2> DEFINE r == [loop[l] EXCEPT !.at = "batch", !.toPush = New(l)]
  <2>1. New(l) \subseteq loop[l].created
    BY DEF New, Free
  <2>2. r \in Locals /\ r.at # "answer" /\ r.created \subseteq Output /\ r.toPush \subseteq Output
    BY <1>1, <2>1 DEF Locals, Places
  <2>3. Goto(l, r) /\ Settle(Seen(l))
        /\ UNCHANGED <<account, inited, cooling, preparing, txs, hints>>
    BY <1>5 DEF SyncCreated, flags, ledger
  <2> HIDE DEF r
  <2> QED
    BY <1>2, <2>2, <2>3, SyncStep
<1>6. CASE SyncQuiet(l)
  <2>1. hints' \in Without(hints, loop[l].consumed)
    BY <1>6 DEF SyncQuiet
  <2>2. hints' \in Seq(OutputId) /\ ToSet(hints') \subseteq Output
    BY <1>2, <2>1, WithoutProperties
  <2> QED
    BY <1>3, <1>6, <2>2 DEF SyncQuiet
<1>7. CASE SyncBatch(l)
  <2>1. PICK q \in SetToSeqs(loop[l].toPush) : hints' \in Without(hints \o q, loop[l].consumed)
    BY <1>7 DEF SyncBatch
  <2>2. hints' \in Seq(OutputId) /\ ToSet(hints') \subseteq Output
    BY <1>1, <1>2, <2>1, BatchHints DEF IndexInv
  <2> QED
    BY <1>3, <1>7, <2>2 DEF SyncBatch
<1> QED
  BY <1>4, <1>5, <1>6, <1>7

LEMMA IndexAnswer ==
    ASSUME IndexInv, NEW l \in Loops, AnswerAll(l) \/ AnswerSend(l)
    PROVE  IndexInv'
<1>1. loop[l] \in Locals /\ hints \in Seq(OutputId)
  BY DEF IndexInv, TypeOK
<1>2. loop[l].ins \in SUBSET OutputId /\ loop[l].index \in Nat
  BY <1>1 DEF Locals
<1>3. CASE AnswerAll(l)
  <2> DEFINE inputs == {o \in loop[l].ins : IsCash(o)}
  <2>1. inputs \in SUBSET OutputId
    BY <1>2
  <2>2. hints' \in Seq(OutputId) /\ ToSet(hints') \subseteq ToSet(hints)
    BY <1>3 DEF AnswerAll, ToSet
  <2>3. /\ loop[l].at = "answer" /\ Goto(l, Idle) /\ UNCHANGED <<flags, txs>>
        /\ AddPending(loop[l].tx, inputs, CreatedBy(l))
    BY <1>3 DEF AnswerAll, ledger
  <2> HIDE DEF inputs
  <2> QED
    BY <2>1, <2>2, <2>3, AnswerStep
<1>4. CASE AnswerSend(l)
  <2>1. hints' \in Seq(OutputId) /\ ToSet(hints') \subseteq ToSet(hints)
    BY <1>1, <1>2, <1>4, SpliceProperties DEF AnswerSend
  <2>2. /\ loop[l].at = "answer" /\ Goto(l, Idle) /\ UNCHANGED <<flags, txs>>
        /\ AddPending(loop[l].tx, loop[l].ins, CreatedBy(l))
    BY <1>4 DEF AnswerSend, ledger
  <2> QED
    BY <1>2, <2>1, <2>2, AnswerStep
<1> QED
  BY <1>3, <1>4

\* The network, time and the application.
LEMMA IndexWorld ==
    ASSUME IndexInv,
           \/ \E t \in 1..Len(txs) : Confirm(t) \/ Drop(t)
           \/ \E t \in DOMAIN pending : Age(t)
           \/ CoolDown \/ Toggle \/ \E a \in Accounts : SwitchAddress(a)
    PROVE  IndexInv'
<1>1. UNCHANGED <<loop, txs>> /\ Output' = Output /\ TxId' = TxId
  BY DEF Confirm, Drop, Age, CoolDown, Toggle, SwitchAddress, ledger, Output, TxId
<1>2. CASE UNCHANGED pool
  <2>1. account' \in Accounts /\ inited' \in BOOLEAN /\ cooling' \in BOOLEAN
        /\ preparing' \in BOOLEAN
    BY DEF Confirm, Drop, Age, CoolDown, Toggle, SwitchAddress, flags, IndexInv, TypeOK
  <2> QED
    BY <1>1, <1>2, <2>1
    DEF pool, IndexInv, TypeOK, Known, Fresh, PendingIndexed
<1>3. CASE \E a \in Accounts : SwitchAddress(a)
  <2>1. account' \in Accounts /\ inited' \in BOOLEAN /\ cooling' \in BOOLEAN
        /\ preparing' \in BOOLEAN
    BY <1>3 DEF SwitchAddress, IndexInv, TypeOK
  <2>2. hints' = <<>> /\ pending' = <<>> /\ pendingSpent' = <<>> /\ pendingCreated' = <<>>
    BY <1>3 DEF SwitchAddress
  <2>3. \A f, S : f = <<>> => DOMAIN f = {} /\ f \in [DOMAIN f -> S]
    OBVIOUS
  <2>4. /\ DOMAIN pending' = {} /\ DOMAIN pendingSpent' = {} /\ DOMAIN pendingCreated' = {}
        /\ pending' \in [DOMAIN pending' -> [inputs : SUBSET OutputId, outputs : SUBSET OutputId]]
        /\ pendingSpent' \in [DOMAIN pendingSpent' -> TxId]
        /\ pendingCreated' \in [DOMAIN pendingCreated' -> TxId]
    BY <2>2, <2>3
  <2>5. hints' \in Seq(OutputId) /\ ToSet(hints') = {}
    BY <2>2 DEF ToSet
  <2>6. TypeOK'
    BY <1>1, <2>1, <2>4, <2>5 DEF IndexInv, TypeOK
  <2>7. Known' /\ Fresh' /\ PendingIndexed'
    BY <1>1, <2>4, <2>5 DEF IndexInv, Known, Fresh, PendingIndexed
  <2> QED
    BY <2>6, <2>7 DEF IndexInv
<1> QED
  BY <1>2, <1>3 DEF Confirm, Drop, Age, CoolDown, Toggle, pool

LEMMA IndexStep == IndexInv /\ [Next]_vars => IndexInv'
<1> SUFFICES ASSUME IndexInv, [Next]_vars PROVE IndexInv'
  OBVIOUS
<1>1. CASE UNCHANGED vars
  BY <1>1 DEF vars, flags, pool, ledger, IndexInv, TypeOK, Known, Fresh,
              PendingIndexed, Output, TxId
<1>2. CASE \E l \in Loops : Step(l) \/ \E s \in Sends : Send(l, s)
  BY <1>2, IndexLocal, IndexSync, IndexSubmit, IndexAnswer DEF Step
<1>3. CASE ~(\E l \in Loops : Step(l) \/ \E s \in Sends : Send(l, s)) /\ Next
  BY <1>3, IndexWorld DEF Next
<1> QED
  BY <1>1, <1>2, <1>3

\* The invariant that the two theorems below rest on.
THEOREM IndexInvariant == Spec => []IndexInv
<1> QED
  BY IndexInit, IndexStep, PTL DEF Spec

\* The state of the pool is well-typed in every behaviour.
THEOREM TypeInvariant == Spec => []TypeOK
<1>1. IndexInv => TypeOK
  BY DEF IndexInv
<1> QED
  BY <1>1, IndexInvariant, PTL

\* However many loops drive the pool and whenever the address is switched, the
\* indexes of spent and awaited outputs name pending transactions that list
\* them.
THEOREM PendingIndexedInvariant == Spec => []PendingIndexed
<1>1. IndexInv => PendingIndexed
  BY DEF IndexInv
<1> QED
  BY <1>1, IndexInvariant, PTL

-----------------------------------------------------------------------------
(* One loop: the hints.                                                    *)

OneLoop == \A l, m \in Loops : l = m

LEMMA HintInit == Init => HintInv
  BY DEF Init, HintInv, HintsDistinct, OnlyFlyLeavesSpentHints, BatchNew, SpendingHint,
         Idle, IsInjective, ToSet

\* Actions of the loop that change neither the hints nor what is spent.
LEMMA HintLocal ==
    ASSUME IndexInv, HintInv, OneLoop, NEW l \in Loops,
           UNCHANGED <<pool, txs>>, loop'[l].at \notin {"batch", "answer"},
           loop'[l].at = "sign" =>
              /\ loop'[l].src = "hint" =>
                    loop'[l].index \in 1..Len(hints) /\ loop'[l].ins = {hints[loop'[l].index]}
              /\ loop'[l].src = "none" => loop'[l].ins = {}
    PROVE  HintInv'
<1>1. \A m \in Loops : m = l
  BY DEF OneLoop
<1>2. HintsDistinct' /\ OnlyFlyLeavesSpentHints'
  BY DEF HintInv, HintsDistinct, OnlyFlyLeavesSpentHints, pool
<1>3. BatchNew' /\ SpendingHint'
  BY <1>1 DEF BatchNew, SpendingHint, pool
<1> QED
  BY <1>2, <1>3 DEF HintInv

LEMMA HintMoves ==
    ASSUME IndexInv, HintInv, OneLoop, NEW l \in Loops,
           \/ CashInit(l) \/ Prepare(l) \/ Retry(l) \/ Consolidate(l) \/ Split(l)
           \/ (\E s \in Sends : Send(l, s)) \/ GetCash(l) \/ Fly(l)
           \/ RequestFails(l) \/ AnswerLost(l)
    PROVE  HintInv'
<1>1. /\ loop[l] \in Locals /\ Idle \in Locals /\ loop \in [Loops -> Locals]
      /\ Idle.at = "idle" /\ Idle.src = "none" /\ Idle.ins = {}
  BY IdleTyped DEF IndexInv, TypeOK, Idle
<1>2. UNCHANGED <<pool, txs>>
  BY DEF CashInit, Prepare, Retry, Consolidate, Split, Send, GetCash, Fly, RequestFails,
         AnswerLost, ledger
<1>3. CASE CashInit(l) \/ Prepare(l) \/ Retry(l)
  <2>1. ASSUME NEW ret, Ask(l, ret)
        PROVE  loop'[l].at = "sync"
    <3> DEFINE made == {o \in Unspent(account) : IsCash(o)}
               used == {o \in OnLedger(account) \intersect Consumed : IsCash(o)}
               r == [loop[l] EXCEPT !.at = "sync", !.ret = ret, !.asked = account,
                                    !.created = made, !.consumed = used]
    <3>1. loop'[l] = r
      BY <1>1, <2>1 DEF Ask, Goto
    <3> HIDE DEF made, used
    <3>2. r.at = "sync"
      BY <1>1 DEF Locals
    <3> QED
      BY <3>1, <3>2
  <2>2. ASSUME Goto(l, [Idle EXCEPT !.at = "consolidate"])
        PROVE  loop'[l].at = "consolidate"
    BY <1>1, <2>2 DEF Goto, Locals
  <2>3. loop'[l].at \in {"sync", "consolidate"}
    BY <1>3, <2>1, <2>2 DEF CashInit, Prepare, Retry
  <2> QED
    BY <1>2, <2>3, HintLocal
<1>4. CASE Split(l)
  <2> DEFINE unspent == Unspent(loop[l].asked)
             total   == TotalAmount(unspent)
             per     == total \div SplitNums
             outs    == [i \in 1..SplitNums |->
                           IF i < SplitNums THEN per ELSE total - (SplitNums - 1) * per]
             r == [Idle EXCEPT !.at = "sign", !.src = "all", !.asked = loop[l].asked,
                               !.ins = unspent, !.outs = outs]
  <2>1. loop'[l] = Idle \/ loop'[l] = r
    BY <1>1, <1>4 DEF Split, Goto
  <2> HIDE DEF unspent, outs
  <2>2. r.at = "sign" /\ r.src = "all"
    BY <1>1 DEF Locals
  <2> HIDE DEF r
  <2> QED
    BY <1>1, <1>2, <2>1, <2>2, HintLocal
<1>5. CASE \E s \in Sends : Send(l, s)
  <2> PICK s \in Sends : Send(l, s)
    BY <1>5
  <2> DEFINE r(at) == [Idle EXCEPT !.at = at, !.send = s]
  <2>1. loop'[l] = r("sign") \/ loop'[l] = r("getcash")
    BY <1>1 DEF Send, Goto
  <2>2. \A at \in {"sign", "getcash"} : r(at).at = at /\ r(at).src = "none" /\ r(at).ins = {}
    BY <1>1 DEF Locals
  <2> HIDE DEF r
  <2> QED
    BY <1>2, <2>1, <2>2, HintLocal
<1>6. CASE GetCash(l)
  <2>1. CASE \E i \in 1..Len(hints) : UseHint(l, i)
    <3>1. PICK i \in 1..Len(hints) : UseHint(l, i)
      BY <2>1
    <3>2. /\ loop'[l].at = "sign" /\ loop'[l].src = "hint"
          /\ loop'[l].index = i /\ loop'[l].ins = {hints[i]}
      BY <1>1, <3>1 DEF UseHint, Locals, Goto
    <3> QED
      BY <1>2, <3>2, HintLocal
  <2>2. CASE NoHint(l)
    <3> DEFINE at == IF loop[l].attempt + 1 = MaxRetries THEN "fly" ELSE "retry"
               r == [loop[l] EXCEPT !.attempt = @ + 1, !.asked = account, !.at = at]
    <3>1. loop'[l] = r /\ at \in {"fly", "retry"}
      BY <1>1, <2>2 DEF NoHint, Goto
    <3> HIDE DEF at
    <3>2. r.at = at
      BY <1>1 DEF Locals
    <3> HIDE DEF r
    <3> QED
      BY <1>2, <3>1, <3>2, HintLocal
  <2>3. CASE \E i \in 1..Len(hints) : LeaveHint(l, i)
    <3>1. PICK i \in 1..Len(hints) : LeaveHint(l, i)
      BY <2>3
    <3>2. loop'[l].at = "fly"
      BY <1>1, <3>1 DEF LeaveHint, Locals, Goto
    <3> QED
      BY <1>2, <3>2, HintLocal
  <2> QED
    BY <1>6, <2>1, <2>2, <2>3 DEF GetCash
<1>7. CASE Fly(l)
  <2>1. ASSUME NEW o,
               Goto(l, [loop[l] EXCEPT !.at = "sign", !.src = "fly",
                          !.ins = {o}, !.outs = <<Amount(o) - Need(loop[l].send)>>])
        PROVE  loop'[l].at = "sign" /\ loop'[l].src = "fly"
    <3> DEFINE outs == <<Amount(o) - Need(loop[l].send)>>
               r == [loop[l] EXCEPT !.at = "sign", !.src = "fly",
                                    !.ins = {o}, !.outs = outs]
    <3>1. loop'[l] = r
      BY <1>1, <2>1 DEF Goto
    <3> HIDE DEF outs
    <3>2. r.at = "sign" /\ r.src = "fly"
      BY <1>1 DEF Locals
    <3> QED
      BY <3>1, <3>2
  <2>2. CASE Goto(l, Idle)
    <3>1. loop'[l] = Idle
      BY <1>1, <2>2 DEF Goto
    <3> QED
      BY <1>1, <1>2, <3>1, HintLocal
  <2>3. CASE ~Goto(l, Idle)
    <3>1. loop'[l].at = "sign" /\ loop'[l].src = "fly"
      BY <1>7, <2>1, <2>3 DEF Fly
    <3> QED
      BY <1>2, <3>1, HintLocal
  <2> QED
    BY <2>2, <2>3
<1>8. CASE RequestFails(l) \/ AnswerLost(l)
  <2>1. loop'[l] = Idle
    BY <1>1, <1>8 DEF RequestFails, AnswerLost, Goto
  <2> QED
    BY <1>1, <1>2, <2>1, HintLocal
<1>9. CASE Consolidate(l)
  <2> DEFINE r == [Idle EXCEPT !.at = "unspent", !.asked = account]
  <2>1. loop'[l] = Idle \/ loop'[l] = r
    BY <1>1, <1>9 DEF Consolidate, Goto
  <2>2. r.at = "unspent"
    BY DEF Idle
  <2> HIDE DEF r
  <2> QED
    BY <1>1, <1>2, <2>1, <2>2, HintLocal
<1> QED
  BY <1>3, <1>4, <1>5, <1>6, <1>7, <1>8, <1>9

LEMMA HintSubmit ==
    ASSUME IndexInv, HintInv, OneLoop, NEW l \in Loops, Submit(l)
    PROVE  HintInv'
<1> DEFINE t == [owner |-> account, ins |-> loop[l].ins,
                 outs |-> loop[l].outs, src |-> loop[l].src]
           r == [loop[l] EXCEPT !.at = "answer", !.tx = Len(txs) + 1]
<1>1. loop[l] \in Locals /\ loop[l].at = "sign" /\ t.src = loop[l].src
  BY DEF IndexInv, TypeOK, Submit
<1>2. t \in Transaction /\ txs \in Seq(Transaction) /\ txs' = Append(txs, t)
  BY <1>1 DEF Locals, Transaction, IndexInv, TypeOK, Submit
<1>3. /\ r.at = "answer" /\ r.tx = Len(txs) + 1 /\ r.src = loop[l].src
      /\ r.ins = loop[l].ins /\ r.index = loop[l].index
  BY <1>1 DEF Locals
<1>4. loop'[l] = r /\ (\A m \in Loops : m = l) /\ UNCHANGED pool
  BY DEF Submit, Goto, IndexInv, TypeOK, OneLoop
<1> HIDE DEF t, r
<1>5. /\ txs'[Len(txs) + 1] = t
      /\ \A i \in 1..Len(txs) : txs'[i] = txs[i]
  BY <1>2, AppendProperties
<1>6. HintsDistinct' /\ BatchNew'
  BY <1>3, <1>4 DEF HintInv, HintsDistinct, BatchNew, pool
<1>7. OnlyFlyLeavesSpentHints'
  <2>1. \A o \in DOMAIN pendingSpent : pendingSpent[o] \in 1..Len(txs)
    BY DEF IndexInv, TypeOK, TxId
  <2> QED
    BY <1>4, <1>5, <2>1 DEF HintInv, OnlyFlyLeavesSpentHints, pool
<1>8. SpendingHint'
  BY <1>1, <1>3, <1>4, <1>5 DEF HintInv, SpendingHint, pool
<1> QED
  BY <1>6, <1>7, <1>8 DEF HintInv

LEMMA HintSync ==
    ASSUME IndexInv, HintInv, OneLoop, NEW l \in Loops,
           SyncFails(l) \/ SyncCreated(l) \/ SyncQuiet(l) \/ SyncBatch(l)
    PROVE  HintInv'
<1>1. /\ hints \in Seq(OutputId) /\ IsInjective(hints) /\ loop[l] \in Locals
      /\ \A m \in Loops : m = l
  BY DEF IndexInv, TypeOK, HintInv, HintsDistinct, OneLoop
<1>2. PICK ts : Settle(ts)
  BY DEF SyncFails, SyncCreated, SyncQuiet, SyncBatch, EndSync
<1>3. UNCHANGED txs
  BY DEF SyncFails, SyncCreated, SyncQuiet, SyncBatch, EndSync, ledger
<1>4. /\ DOMAIN pendingSpent' \subseteq DOMAIN pendingSpent
      /\ \A o \in DOMAIN pendingSpent' : pendingSpent'[o] = pendingSpent[o]
  BY <1>2, <1>3, SettleProperties DEF IndexInv
<1>5. ASSUME NEW seen, NEW consumed, EndSync(l, seen, consumed),
             IsInjective(hints'),
             ToSet(hints') \intersect DOMAIN pendingSpent \subseteq ToSet(hints)
      PROVE  HintInv'
  <2>1. loop'[l] = AfterSync(l)
    BY <1>5 DEF EndSync, Goto, IndexInv, TypeOK
  <2>2. loop'[l].at \notin {"batch", "sign", "answer"}
    BY <1>1, <2>1, IdleTyped DEF AfterSync, Idle, Locals, Places, Returns
  <2>3. BatchNew' /\ SpendingHint'
    BY <1>1, <2>2 DEF BatchNew, SpendingHint
  <2>4. OnlyFlyLeavesSpentHints'
    BY <1>3, <1>4, <1>5 DEF HintInv, OnlyFlyLeavesSpentHints
  <2> QED
    BY <1>5, <2>3, <2>4 DEF HintInv, HintsDistinct
<1>6. CASE SyncFails(l)
  BY <1>1, <1>5, <1>6 DEF SyncFails
<1>7. CASE SyncQuiet(l)
  <2>1. hints' \in Without(hints, loop[l].consumed)
    BY <1>7 DEF SyncQuiet
  <2>2. IsInjective(hints') /\ ToSet(hints') \subseteq ToSet(hints)
    BY <1>1, <2>1, WithoutProperties
  <2> QED
    BY <1>5, <1>7, <2>2 DEF SyncQuiet
<1>8. CASE SyncBatch(l)
  <2>1. PICK q \in SetToSeqs(loop[l].toPush) : hints' \in Without(hints \o q, loop[l].consumed)
    BY <1>8 DEF SyncBatch
  <2>2. loop[l].toPush \intersect (ToSet(hints) \union DOMAIN pendingSpent) = {}
    BY <1>8 DEF SyncBatch, HintInv, BatchNew
  <2>3. IsInjective(hints') /\ ToSet(hints') \subseteq ToSet(hints) \union loop[l].toPush
    BY <1>1, <2>1, <2>2, BatchHints DEF IndexInv
  <2> QED
    BY <1>5, <1>8, <2>2, <2>3 DEF SyncBatch
<1>9. CASE SyncCreated(l)
  <2>1. loop'[l].at = "batch" /\ loop'[l].toPush = New(l)
    BY <1>1, <1>9 DEF SyncCreated, Goto, Locals, IndexInv, TypeOK
  <2>2. UNCHANGED hints
    BY <1>9 DEF SyncCreated
  <2>3. BatchNew'
    BY <1>1, <1>4, <2>1, <2>2 DEF BatchNew, New, Free
  <2>4. SpendingHint'
    BY <1>1, <2>1 DEF SpendingHint
  <2>5. OnlyFlyLeavesSpentHints' /\ HintsDistinct'
    BY <1>3, <1>4, <2>2 DEF HintInv, OnlyFlyLeavesSpentHints, HintsDistinct
  <2> QED
    BY <2>3, <2>4, <2>5 DEF HintInv
<1> QED
  BY <1>6, <1>7, <1>8, <1>9

LEMMA HintAnswer ==
    ASSUME IndexInv, HintInv, OneLoop, NEW l \in Loops, AnswerAll(l) \/ AnswerSend(l)
    PROVE  HintInv'
<1>1. /\ hints \in Seq(OutputId) /\ IsInjective(hints) /\ loop[l] \in Locals
      /\ \A m \in Loops : m = l
  BY DEF IndexInv, TypeOK, HintInv, HintsDistinct, OneLoop
<1>2. loop'[l] = Idle /\ UNCHANGED txs
  BY DEF AnswerAll, AnswerSend, Goto, ledger, IndexInv, TypeOK
<1>3. BatchNew' /\ SpendingHint'
  BY <1>1, <1>2 DEF BatchNew, SpendingHint, Idle
<1>4. CASE AnswerAll(l)
  <2>1. hints' = <<>>
    BY <1>4 DEF AnswerAll
  <2>2. HintsDistinct' /\ OnlyFlyLeavesSpentHints'
    BY <2>1 DEF HintsDistinct, OnlyFlyLeavesSpentHints, IsInjective, ToSet
  <2> QED
    BY <1>3, <2>2 DEF HintInv
<1>5. CASE AnswerSend(l)
  <2> DEFINE t == loop[l].tx
             ins == loop[l].ins
             i == loop[l].index
  <2>1. /\ t \in TxId /\ t \notin DOMAIN pending /\ ins \in SUBSET OutputId /\ i \in Nat
        /\ loop[l].src \in {"hint", "fly", "none"}
    BY <1>1, <1>5 DEF AnswerSend, IndexInv, Fresh, Locals, Source
  <2>2. hints' = Splice(hints, i)
    BY <1>5 DEF AnswerSend
  <2>3. /\ IsInjective(hints') /\ ToSet(hints') \subseteq ToSet(hints)
        /\ i \in 1..Len(hints) => hints[i] \notin ToSet(hints')
    BY <1>1, <2>1, <2>2, SpliceProperties
  <2>4. CreatedBy(l) \in SUBSET OutputId
    <3>1. Len(loop[l].outs) \in Nat /\ loop[l].tx \in Nat
      BY <1>1, LenProperties DEF Locals
    <3> QED
      BY <3>1 DEF CreatedBy, OutputId
  <2>5. AddPending(t, ins, CreatedBy(l))
    BY <1>5 DEF AnswerSend
  <2>6. /\ DOMAIN pendingSpent' = DOMAIN pendingSpent \union ins
        /\ \A o \in DOMAIN pendingSpent' :
              pendingSpent'[o] = IF o \in ins THEN t ELSE pendingSpent[o]
    <3> HIDE DEF t, ins
    <3> QED
      BY <1>2, <2>1, <2>4, <2>5, AddPendingProperties DEF IndexInv
  <2>7. /\ loop[l].src = "hint" =>
              hints = <<>> \/ (i \in 1..Len(hints) /\ ins = {hints[i]})
        /\ loop[l].src = "none" => ins = {}
        /\ txs[t].src = loop[l].src
    BY <1>5 DEF AnswerSend, HintInv, SpendingHint
  <2>8. ASSUME NEW o \in ToSet(hints') \intersect DOMAIN pendingSpent'
        PROVE  txs'[pendingSpent'[o]].src = "fly"
    <3> HIDE DEF t, ins, i
    <3>1. CASE o \notin ins
      <4>1. o \in ToSet(hints) \intersect DOMAIN pendingSpent
        BY <2>3, <2>6, <3>1
      <4> QED
        BY <1>2, <2>6, <3>1, <4>1 DEF HintInv, OnlyFlyLeavesSpentHints
    <3>2. CASE o \in ins
      <4>1. loop[l].src # "none"
        BY <2>7, <3>2
      <4>2. loop[l].src # "hint"
        <5>1. hints # <<>>
          BY <2>3 DEF ToSet
        <5> QED
          BY <2>3, <2>7, <3>2, <5>1
      <4> QED
        BY <1>2, <2>1, <2>6, <2>7, <3>2, <4>1, <4>2
    <3> QED
      BY <3>1, <3>2
  <2>9. HintsDistinct' /\ OnlyFlyLeavesSpentHints'
    BY <2>3, <2>8 DEF HintsDistinct, OnlyFlyLeavesSpentHints
  <2> QED
    BY <1>3, <2>9 DEF HintInv
<1> QED
  BY <1>4, <1>5

LEMMA HintWorld ==
    ASSUME IndexInv, HintInv,
           \/ \E t \in 1..Len(txs) : Confirm(t) \/ Drop(t)
           \/ \E t \in DOMAIN pending : Age(t)
           \/ CoolDown \/ Toggle \/ \E a \in Accounts : SwitchAddress(a)
    PROVE  HintInv'
<1>1. UNCHANGED <<loop, txs>>
  BY DEF Confirm, Drop, Age, CoolDown, Toggle, SwitchAddress, ledger
<1>2. CASE UNCHANGED pool
  BY <1>1, <1>2 DEF pool, HintInv, HintsDistinct, OnlyFlyLeavesSpentHints, BatchNew, SpendingHint
<1>3. CASE \E a \in Accounts : SwitchAddress(a)
  <2>1. hints' = <<>> /\ pendingSpent' = <<>>
    BY <1>3 DEF SwitchAddress
  <2> QED
    BY <1>1, <2>1 DEF HintInv, HintsDistinct, OnlyFlyLeavesSpentHints, BatchNew,
                      SpendingHint, IsInjective, ToSet
<1> QED
  BY <1>2, <1>3 DEF Confirm, Drop, Age, CoolDown, Toggle, pool

LEMMA HintStep == OneLoop /\ IndexInv /\ HintInv /\ [Next]_vars => HintInv'
<1> SUFFICES ASSUME OneLoop, IndexInv, HintInv, [Next]_vars PROVE HintInv'
  OBVIOUS
<1>1. CASE UNCHANGED vars
  BY <1>1 DEF vars, pool, ledger, HintInv, HintsDistinct, OnlyFlyLeavesSpentHints,
              BatchNew, SpendingHint
<1>2. CASE \E l \in Loops : Step(l) \/ \E s \in Sends : Send(l, s)
  BY <1>2, HintMoves, HintSync, HintSubmit, HintAnswer DEF Step
<1>3. CASE ~(\E l \in Loops : Step(l) \/ \E s \in Sends : Send(l, s)) /\ Next
  BY <1>3, HintWorld DEF Next
<1> QED
  BY <1>1, <1>2, <1>3

\* The invariant that the two theorems below rest on.
THEOREM HintInvariant == ASSUME OneLoop PROVE Spec => []HintInv
<1>1. Init => HintInv
  BY HintInit
<1>2. IndexInv /\ HintInv /\ [Next]_vars => HintInv'
  BY HintStep
<1> QED
  BY <1>1, <1>2, IndexInvariant, PTL DEF Spec

\* One poll loop never holds an output twice among the hints, even when the
\* address is switched in the middle of a send or a synchronization.
THEOREM HintsDistinctInvariant == ASSUME OneLoop PROVE Spec => []HintsDistinct
<1>1. HintInv => HintsDistinct
  BY DEF HintInv
<1> QED
  BY <1>1, HintInvariant, PTL

\* With one poll loop, the only pending transactions whose inputs are offered
\* again as hints are those that took their cash on the fly.
THEOREM OnlyFlyInvariant == ASSUME OneLoop PROVE Spec => []OnlyFlyLeavesSpentHints
<1>1. HintInv => OnlyFlyLeavesSpentHints
  BY DEF HintInv
<1> QED
  BY <1>1, HintInvariant, PTL

-----------------------------------------------------------------------------
(* The deposit.  Hints are cash outputs of the ledger, which accepts none   *)
(* below its deposit, and twice a need of at least a deposit leaves one.    *)

\* The equal parts of a split are no more than what is split.
LEMMA QuotientFits ==
    ASSUME NEW total \in Nat, NEW n \in Nat \ {0}
    PROVE  n * (total \div n) <= total /\ total \div n \in Nat
OBVIOUS

\* The last part of a split is not the smallest.
LEMMA LastPart ==
    ASSUME NEW total \in Nat, NEW n \in Nat \ {0}, NEW per \in Int, n * per <= total
    PROVE  total - (n - 1) * per >= per
OBVIOUS

\* A loop goes on, and no transaction is submitted.
LEMMA CoverMoves ==
    ASSUME CoverInv, NEW l \in Loops, NEW r, loop \in [Loops -> Locals], Goto(l, r), txs' = txs,
           ToSet(hints') \subseteq ToSet(hints) \union loop[l].toPush,
           \A o \in r.created \union r.toPush : IsCash(o),
           r.at = "sign" => Covered(r) \/ SmallNeed(r)
    PROVE  CoverInv'
<1>1. loop'[l] = r /\ \A m \in Loops : m # l => loop'[m] = loop[m]
  BY DEF Goto
<1>2. \A m \in Loops : loop'[m].at = "sign" => Covered(loop'[m]) \/ SmallNeed(loop'[m])
  BY <1>1 DEF CoverInv, RemainderCoversDeposit
<1>3. \A m \in Loops : \A o \in loop'[m].created \union loop'[m].toPush : IsCash(o)
  BY <1>1 DEF CoverInv
<1>4. \A o \in ToSet(hints') : IsCash(o)
  BY DEF CoverInv
<1>5. Output' = Output /\ \A o : Amount(o)' = Amount(o)
  BY DEF Output, Amount
<1>6. RemainderCoversDeposit'
  BY <1>2 DEF RemainderCoversDeposit, Covered, SmallNeed, Need
<1> QED
  BY <1>3, <1>4, <1>5, <1>6 DEF CoverInv, IsCash

\* What a loop asks for, and where it goes on afterwards.
LEMMA CoverSync ==
    ASSUME IndexInv, CoverInv, NEW l \in Loops,
           \/ CashInit(l) \/ Prepare(l) \/ Retry(l) \/ SyncCreated(l) \/ SyncQuiet(l) \/ SyncBatch(l)
           \/ SyncFails(l)
    PROVE  CoverInv'
<1>1. /\ loop \in [Loops -> Locals] /\ loop[l] \in Locals /\ hints \in Seq(OutputId)
      /\ \A o \in loop[l].created \union loop[l].toPush : IsCash(o)
      /\ TypeOK /\ Known
  BY DEF IndexInv, TypeOK, CoverInv
<1>2. ASSUME NEW ret \in Returns, Ask(l, ret), UNCHANGED <<flags, pool, txs>>
      PROVE  CoverInv'
  <2> DEFINE made == {o \in Unspent(account) : IsCash(o)}
             used == {o \in OnLedger(account) \intersect Consumed : IsCash(o)}
             r == [loop[l] EXCEPT !.at = "sync", !.ret = ret, !.asked = account,
                            !.created = made, !.consumed = used]
  <2>1. \A o \in made : IsCash(o)
    OBVIOUS
  <2>2. Goto(l, r)
    BY <1>2 DEF Ask
  <2> HIDE DEF made, used
  <2>3. r.at = "sync" /\ r.created = made /\ r.toPush = loop[l].toPush
    BY <1>1 DEF Locals
  <2> HIDE DEF r
  <2>4. \A o \in r.created \union r.toPush : IsCash(o)
    BY <1>1, <2>1, <2>3
  <2>5. txs' = txs /\ hints' = hints
    BY <1>2 DEF pool
  <2> QED
    BY <1>1, <2>2, <2>3, <2>4, <2>5, CoverMoves
<1>3. ASSUME NEW seen, NEW consumed, EndSync(l, seen, consumed),
             ToSet(hints') \subseteq ToSet(hints) \union loop[l].toPush
      PROVE  CoverInv'
  <2>1. Goto(l, AfterSync(l)) /\ txs' = txs
    BY <1>3 DEF EndSync, ledger
  <2>2. /\ AfterSync(l).at # "sign"
        /\ AfterSync(l).created = {} /\ AfterSync(l).toPush = {}
    BY <1>1, AfterSyncTyped
  <2> QED
    BY <1>1, <1>3, <2>1, <2>2, CoverMoves
<1>4. CASE CashInit(l)
  <2>1. CASE cooling
    <3> DEFINE r == [Idle EXCEPT !.at = "consolidate"]
    <3>1. r.at = "consolidate" /\ r.created = {} /\ r.toPush = {}
      BY DEF Idle
    <3>2. Goto(l, r) /\ txs' = txs /\ hints' = hints
      BY <1>4, <2>1 DEF CashInit, ledger, pool
    <3> HIDE DEF r
    <3> QED
      BY <1>1, <3>1, <3>2, CoverMoves
  <2>2. CASE ~cooling
    BY <1>2, <1>4, <2>2 DEF CashInit, ledger, Returns
  <2> QED
    BY <2>1, <2>2
<1>5. CASE Prepare(l)
  BY <1>2, <1>5 DEF Prepare, ledger, Returns
<1>6. CASE Retry(l)
  BY <1>2, <1>6 DEF Retry, ledger, Returns
<1>7. CASE SyncCreated(l)
  <2> DEFINE r == [loop[l] EXCEPT !.at = "batch", !.toPush = New(l)]
  <2>1. New(l) \subseteq loop[l].created
    BY DEF New, Free
  <2>2. Goto(l, r) /\ txs' = txs /\ hints' = hints
    BY <1>7 DEF SyncCreated, ledger
  <2>3. r.at = "batch" /\ r.created = loop[l].created /\ r.toPush = New(l)
    BY <1>1 DEF Locals
  <2> HIDE DEF r
  <2>4. \A o \in r.created \union r.toPush : IsCash(o)
    BY <1>1, <2>1, <2>3
  <2> QED
    BY <1>1, <2>2, <2>3, <2>4, CoverMoves
<1>8. CASE SyncQuiet(l)
  <2>1. ToSet(hints') \subseteq ToSet(hints)
    BY <1>1, <1>8, WithoutProperties DEF SyncQuiet
  <2> QED
    BY <1>3, <1>8, <2>1 DEF SyncQuiet
<1>9. CASE SyncBatch(l)
  <2>1. PICK q \in SetToSeqs(loop[l].toPush) : hints' \in Without(hints \o q, loop[l].consumed)
    BY <1>9 DEF SyncBatch
  <2>2. ToSet(hints') \subseteq ToSet(hints) \union loop[l].toPush
    BY <1>1, <2>1, BatchHints
  <2> QED
    BY <1>3, <1>9, <2>2 DEF SyncBatch
<1>10. CASE SyncFails(l)
  BY <1>3, <1>10 DEF SyncFails
<1> QED
  BY <1>4, <1>5, <1>6, <1>7, <1>8, <1>9, <1>10

\* What a loop signs.
LEMMA CoverSigns ==
    ASSUME IndexInv, CoverInv, NEW l \in Loops, Split(l) \/ GetCash(l) \/ Fly(l)
    PROVE  CoverInv'
<1>1. /\ loop \in [Loops -> Locals] /\ loop[l] \in Locals /\ hints \in Seq(OutputId)
      /\ \A o \in loop[l].created \union loop[l].toPush : IsCash(o)
      /\ ToSet(hints) \subseteq Output
  BY DEF IndexInv, TypeOK, Known, CoverInv
<1>2. txs' = txs /\ hints' = hints
  BY DEF Split, GetCash, Fly, ledger, pool
<1>3. ASSUME NEW r, Goto(l, r), r.created \subseteq loop[l].created, r.toPush \subseteq loop[l].toPush,
             r.at = "sign" => Covered(r) \/ SmallNeed(r)
      PROVE  CoverInv'
  <2>1. \A o \in r.created \union r.toPush : IsCash(o)
    BY <1>1, <1>3
  <2> QED
    BY <1>1, <1>2, <1>3, <2>1, CoverMoves
<1>4. CASE Goto(l, Idle)
  BY <1>3, <1>4 DEF Idle
<1>5. /\ Deposit \in Nat
      /\ \A o \in Output : Amount(o) \in Int /\ (IsCash(o) => Amount(o) >= Deposit)
      /\ Need(loop[l].send) \in Int
  <2>1. loop[l].send.pay \in Nat /\ loop[l].send.extra \in Nat
    BY <1>1 DEF Locals
  <2> QED
    BY <2>1, OutputTyped, SplitAssumption DEF IndexInv, TypeOK, Need, CoverInv
<1>6. CASE Split(l)
  <2> DEFINE unspent == Unspent(loop[l].asked)
             total == TotalAmount(unspent)
             per   == total \div SplitNums
             outs  == [i \in 1..SplitNums |->
                         IF i < SplitNums THEN per ELSE total - (SplitNums - 1) * per]
             r     == [Idle EXCEPT !.at = "sign", !.src = "all", !.asked = loop[l].asked,
                                   !.ins = unspent, !.outs = outs]
  <2>1. CASE ~Goto(l, Idle)
    <3>1. total \in Nat /\ ~(per < Deposit) /\ Goto(l, r)
      BY <1>6, <2>1 DEF Split
    <3> HIDE DEF total
    <3>2. SplitNums * per <= total /\ per \in Nat
      BY <3>1, QuotientFits, SplitAssumption
    <3> HIDE DEF per
    <3>3. total - (SplitNums - 1) * per >= per
      BY <3>1, <3>2, LastPart, SplitAssumption
    <3>4. Len(outs) = SplitNums
      BY SplitAssumption
    <3>5. (SplitNums - 1) * per \in Int
      BY <3>2, SplitAssumption
    <3>6. \A k \in 1..SplitNums : outs[k] >= Deposit
      BY <1>5, <3>1, <3>2, <3>3, <3>5, SplitAssumption
    <3> HIDE DEF outs, unspent
    <3>7. r.at = "sign" /\ r.outs = outs /\ r.created = {} /\ r.toPush = {}
      BY DEF Idle
    <3> HIDE DEF r
    <3>8. Covered(r)
      BY <3>4, <3>6, <3>7 DEF Covered
    <3> QED
      BY <1>3, <3>1, <3>7, <3>8
  <2> QED
    BY <1>4, <2>1
\* A remainder of an output that holds twice the need.
<1>7. ASSUME NEW r, NEW o \in Output, Amount(o) >= 2 * Need(loop[l].send), Goto(l, r),
             r.at = "sign", r.src \in {"hint", "fly"}, r.send = loop[l].send,
             r.src = "hint" => IsCash(o),
             r.outs = <<Amount(o) - Need(loop[l].send)>>,
             r.created = loop[l].created, r.toPush = loop[l].toPush
      PROVE  CoverInv'
  <2> DEFINE need == Need(loop[l].send)
             a == Amount(o)
  <2>1. /\ need \in Int /\ a \in Int /\ Deposit \in Nat /\ a >= 2 * need
        /\ r.src = "hint" => a >= Deposit
    BY <1>5, <1>7
  <2>2. Need(r.send) = need /\ r.outs = <<a - need>>
    BY <1>7
  <2> HIDE DEF need, a
  <2>3. CASE need >= Deposit \/ (r.src = "hint" /\ need = 0)
    <3>1. a - need >= Deposit
      BY <2>1, <2>3
    <3> QED
      BY <1>3, <1>7, <2>2, <3>1 DEF Covered
  <2>4. CASE need < Deposit /\ (r.src = "hint" => need # 0)
    <3>1. SmallNeed(r)
      BY <1>7, <2>2, <2>4 DEF SmallNeed
    <3> QED
      BY <1>3, <1>7, <3>1
  <2> QED
    BY <2>1, <2>3, <2>4
<1>8. CASE GetCash(l)
  <2>1. CASE NoHint(l)
    <3> DEFINE at == IF loop[l].attempt + 1 = MaxRetries THEN "fly" ELSE "retry"
               r  == [loop[l] EXCEPT !.attempt = @ + 1, !.asked = account, !.at = at]
    <3>1. Goto(l, r) /\ at \in {"fly", "retry"}
      BY <2>1 DEF NoHint
    <3> HIDE DEF at
    <3>2. r.at = at /\ r.created = loop[l].created /\ r.toPush = loop[l].toPush
      BY <1>1 DEF Locals
    <3> HIDE DEF r
    <3> QED
      BY <1>3, <3>1, <3>2
  <2>2. ASSUME NEW i \in 1..Len(hints), UseHint(l, i)
        PROVE  CoverInv'
    <3> DEFINE outs == <<Amount(hints[i]) - Need(loop[l].send)>>
               r == [loop[l] EXCEPT !.at = "sign", !.src = "hint", !.index = i, !.asked = account,
                      !.ins = {hints[i]}, !.outs = outs]
    <3>1. Goto(l, r) /\ Amount(hints[i]) >= 2 * Need(loop[l].send)
      BY <2>2 DEF UseHint
    <3>2. hints[i] \in ToSet(hints)
      BY <1>1 DEF ToSet
    <3>3. hints[i] \in Output /\ IsCash(hints[i])
      BY <1>1, <3>2 DEF CoverInv
    <3> HIDE DEF outs
    <3>4. /\ r.at = "sign" /\ r.src = "hint" /\ r.send = loop[l].send /\ r.outs = outs
          /\ r.created = loop[l].created /\ r.toPush = loop[l].toPush
      BY <1>1 DEF Locals
    <3> HIDE DEF r
    <3> QED
      BY <1>7, <3>1, <3>3, <3>4 DEF outs
  <2>3. ASSUME NEW i \in 1..Len(hints), LeaveHint(l, i)
        PROVE  CoverInv'
    <3> DEFINE r == [loop[l] EXCEPT !.at = "fly", !.index = i, !.asked = account]
    <3>1. Goto(l, r)
      BY <2>3 DEF LeaveHint
    <3>2. r.at = "fly" /\ r.created = loop[l].created /\ r.toPush = loop[l].toPush
      BY <1>1 DEF Locals
    <3> HIDE DEF r
    <3> QED
      BY <1>3, <3>1, <3>2
  <2> QED
    BY <1>8, <2>1, <2>2, <2>3 DEF GetCash
<1>9. CASE Fly(l)
  <2>1. ASSUME NEW o \in Unspent(loop[l].asked), Amount(o) > 2 * Need(loop[l].send),
               Goto(l, [loop[l] EXCEPT !.at = "sign", !.src = "fly", !.ins = {o},
                                       !.outs = <<Amount(o) - Need(loop[l].send)>>])
        PROVE  CoverInv'
    <3> DEFINE outs == <<Amount(o) - Need(loop[l].send)>>
               r == [loop[l] EXCEPT !.at = "sign", !.src = "fly", !.ins = {o}, !.outs = outs]
    <3>1. Goto(l, r)
      BY <2>1
    <3>2. o \in Output /\ Amount(o) >= 2 * Need(loop[l].send)
      BY <1>5, <2>1, UnspentIsOutput
    <3> HIDE DEF outs
    <3>3. /\ r.at = "sign" /\ r.src = "fly" /\ r.send = loop[l].send /\ r.outs = outs
          /\ r.created = loop[l].created /\ r.toPush = loop[l].toPush
      BY <1>1 DEF Locals
    <3> HIDE DEF r
    <3> QED
      BY <1>7, <3>1, <3>2, <3>3 DEF outs
  <2> QED
    BY <1>4, <1>9, <2>1 DEF Fly
<1> QED
  BY <1>6, <1>8, <1>9

\* The other steps of a loop that submit nothing.
LEMMA CoverRest ==
    ASSUME IndexInv, CoverInv, NEW l \in Loops,
           \/ Consolidate(l) \/ RequestFails(l) \/ AnswerLost(l) \/ AnswerAll(l) \/ AnswerSend(l)
           \/ \E s \in Sends : Send(l, s)
    PROVE  CoverInv'
<1>1. /\ loop \in [Loops -> Locals] /\ loop[l] \in Locals /\ hints \in Seq(OutputId)
      /\ loop[l].index \in Nat
  BY DEF IndexInv, TypeOK, Locals
<1>2. txs' = txs
  BY DEF Consolidate, RequestFails, AnswerLost, AnswerAll, AnswerSend, Send, ledger
<1>3. ToSet(hints') \subseteq ToSet(hints)
  <2>1. CASE hints' = hints
    BY <2>1
  <2>2. CASE hints' = <<>>
    BY <2>2 DEF ToSet
  <2>3. CASE hints' = Splice(hints, loop[l].index)
    BY <1>1, <2>3, SpliceProperties
  <2> QED
    BY <2>1, <2>2, <2>3
       DEF Consolidate, RequestFails, AnswerLost, AnswerAll, AnswerSend, Send, pool
<1>4. ASSUME NEW r, Goto(l, r), r.created = {}, r.toPush = {}, r.outs = <<>>
      PROVE  CoverInv'
  <2>1. Covered(r)
    BY <1>4 DEF Covered
  <2> QED
    BY <1>1, <1>2, <1>3, <1>4, <2>1, CoverMoves
<1>5. CASE Goto(l, Idle)
  BY <1>4, <1>5 DEF Idle
<1>6. CASE Goto(l, [Idle EXCEPT !.at = "unspent", !.asked = account])
  <2> DEFINE r == [Idle EXCEPT !.at = "unspent", !.asked = account]
  <2>1. r.created = {} /\ r.toPush = {} /\ r.outs = <<>>
    BY DEF Idle
  <2>2. Goto(l, r)
    BY <1>6
  <2> HIDE DEF r
  <2> QED
    BY <1>4, <2>1, <2>2
<1>7. ASSUME NEW s \in Sends, NEW at \in {"sign", "getcash"},
             Goto(l, [Idle EXCEPT !.at = at, !.send = s])
      PROVE  CoverInv'
  <2> DEFINE r == [Idle EXCEPT !.at = at, !.send = s]
  <2>1. r.created = {} /\ r.toPush = {} /\ r.outs = <<>>
    BY DEF Idle
  <2>2. Goto(l, r)
    BY <1>7
  <2> HIDE DEF r
  <2> QED
    BY <1>4, <2>1, <2>2
<1> QED
  BY <1>5, <1>6, <1>7 DEF Consolidate, RequestFails, AnswerLost, AnswerAll, AnswerSend, Send

\* The node takes a transaction whose outputs cover their deposits only.
LEMMA CoverSubmit ==
    ASSUME IndexInv, CoverInv, NEW l \in Loops, Submit(l)
    PROVE  CoverInv'
<1> DEFINE t == [owner |-> account, ins |-> loop[l].ins,
                 outs |-> loop[l].outs, src |-> loop[l].src]
           r == [loop[l] EXCEPT !.at = "answer", !.tx = Len(txs) + 1]
<1>1. loop \in [Loops -> Locals] /\ loop[l] \in Locals /\ account \in Accounts
  BY DEF IndexInv, TypeOK
<1>2. /\ t \in Transaction /\ txs \in Seq(Transaction) /\ txs' = Append(txs, t)
      /\ t.outs = loop[l].outs /\ Covered(loop[l])
  BY <1>1 DEF Locals, Transaction, IndexInv, TypeOK, Submit
<1>3. r.at = "answer" /\ r.created = loop[l].created /\ r.toPush = loop[l].toPush /\ Goto(l, r)
  BY <1>1 DEF Locals, Submit
<1> HIDE DEF t, r
<1>4. /\ Len(txs) \in Nat /\ Len(txs') = Len(txs) + 1 /\ txs'[Len(txs) + 1] = t
      /\ \A i \in 1..Len(txs) : txs'[i] = txs[i]
  BY <1>2, AppendProperties, LenProperties
<1>5. loop'[l] = r /\ \A m \in Loops : m # l => loop'[m] = loop[m]
  BY <1>1, <1>3 DEF Goto
<1>6. RemainderCoversDeposit'
  <2>1. \A m \in Loops : loop'[m].at = "sign" => Covered(loop'[m]) \/ SmallNeed(loop'[m])
    BY <1>3, <1>5 DEF CoverInv, RemainderCoversDeposit
  <2> QED
    BY <2>1 DEF RemainderCoversDeposit, Covered, SmallNeed, Need
<1>7. ASSUME NEW o \in Output', IsCash(o) PROVE Amount(o)' >= Deposit
  <2>1. CASE o \in Output
    <3>1. o[1] = 0 \/ o[1] \in 1..Len(txs)
      BY <2>1 DEF Output
    <3>2. Amount(o)' = Amount(o)
      BY <1>4, <3>1 DEF Amount
    <3> QED
      BY <1>7, <2>1, <3>2 DEF CoverInv
  <2>2. CASE o \notin Output
    <3>1. PICK i \in 1..Len(txs') : o \in {<<i, k>> : k \in 1..Len(txs'[i].outs)}
      BY <1>7, <2>2 DEF Output
    <3>2. i = Len(txs) + 1
      BY <1>4, <2>2, <3>1 DEF Output
    <3>3. PICK k \in 1..Len(t.outs) : o = <<i, k>>
      BY <1>4, <3>1, <3>2
    <3>4. Amount(o)' = t.outs[k]
      BY <1>4, <3>2, <3>3 DEF Amount
    <3> QED
      BY <1>2, <3>3, <3>4 DEF Covered
  <2> QED
    BY <2>1, <2>2
<1>8. hints' = hints
  BY DEF Submit, pool
<1>9. \A m \in Loops : \A o \in loop'[m].created \union loop'[m].toPush : IsCash(o)
  BY <1>3, <1>5 DEF CoverInv
<1> QED
  BY <1>6, <1>7, <1>8, <1>9 DEF CoverInv, IsCash

\* The initial funds cover their deposits.
LEMMA CoverInit == Init => CoverInv
<1> SUFFICES ASSUME Init PROVE CoverInv
  OBVIOUS
<1>1. RemainderCoversDeposit /\ ToSet(hints) = {}
      /\ \A l \in Loops : loop[l].created \union loop[l].toPush = {}
  BY DEF Init, RemainderCoversDeposit, Idle, ToSet
<1>2. ASSUME NEW o \in Output, IsCash(o) PROVE Amount(o) >= Deposit
  <2>1. PICK k \in 1..Len(Funds) : o = <<0, k>>
    BY DEF Output, Init
  <2> QED
    BY <1>2, <2>1, DepositAssumption DEF IsCash, Amount
<1> QED
  BY <1>1, <1>2 DEF CoverInv

\* Every step keeps the deposits covered.
LEMMA CoverStep == IndexInv /\ CoverInv /\ [Next]_vars => CoverInv'
<1> SUFFICES ASSUME IndexInv, CoverInv, [Next]_vars PROVE CoverInv'
  OBVIOUS
<1>1. ASSUME txs' = txs, loop' = loop, ToSet(hints') \subseteq ToSet(hints) PROVE CoverInv'
  <2>1. Output' = Output /\ \A o : Amount(o)' = Amount(o)
    BY <1>1 DEF Output, Amount
  <2>2. RemainderCoversDeposit'
    BY <1>1 DEF CoverInv, RemainderCoversDeposit, Covered, SmallNeed, Need
  <2> QED
    BY <1>1, <2>1, <2>2 DEF CoverInv, IsCash
<1>2. CASE UNCHANGED vars
  BY <1>1, <1>2 DEF vars, ledger, pool
<1>3. CASE \/ \E t \in 1..Len(txs) : Confirm(t) \/ Drop(t)
           \/ \E t \in DOMAIN pending : Age(t)
           \/ CoolDown \/ Toggle
  BY <1>1, <1>3 DEF Confirm, Drop, Age, CoolDown, Toggle, ledger, pool
<1>4. CASE \E a \in Accounts : SwitchAddress(a)
  <2>1. txs' = txs /\ loop' = loop /\ ToSet(hints') = {}
    BY <1>4 DEF SwitchAddress, ledger, ToSet
  <2> QED
    BY <1>1, <2>1
<1>5. ASSUME NEW l \in Loops, Step(l) \/ \E s \in Sends : Send(l, s) PROVE CoverInv'
  BY <1>5, CoverSync, CoverSigns, CoverRest, CoverSubmit DEF Step
<1> QED
  BY <1>2, <1>3, <1>4, <1>5 DEF Next

\* The node accepts what the client is about to sign, for any funds, loops,
\* sends, switches and failures: every part of a split and every remainder
\* covers its storage deposit, but for the remainder of a send that needs
\* less than one (client 2176-2214).
THEOREM RemainderInvariant == Spec => []RemainderCoversDeposit
<1>1. Init => CoverInv
  BY CoverInit
<1>2. IndexInv /\ CoverInv /\ [Next]_vars => CoverInv'
  BY CoverStep
<1>3. CoverInv => RemainderCoversDeposit
  BY DEF CoverInv
<1> QED
  BY <1>1, <1>2, <1>3, IndexInvariant, PTL DEF Spec

-----------------------------------------------------------------------------
(* The owner.  What the node lists for an account is the account's, an      *)
(* output keeps its owner, and a switch forgets the hints.                  *)

\* A loop goes on, and nothing is submitted.  What is pushed is the account's
\* or recorded among the strays.
LEMMA OwnMoves ==
    ASSUME OwnInv, NEW l \in Loops, NEW r, loop \in [Loops -> Locals], Goto(l, r),
           txs' = txs, account' = account, strays \subseteq strays',
           \A o \in ToSet(hints') : o \in ToSet(hints) \/ Owner(o) = account \/ o \in strays',
           \A o \in r.created \union r.toPush : Owner(o) = r.asked,
           r.at \notin {"sync", "batch"} => r.created = {},
           r.at # "batch" => r.toPush = {},
           r.at = "sign" => \A o \in r.ins : o \in Output /\ (Owner(o) = r.asked \/ o \in strays)
    PROVE  OwnInv'
<1>1. loop'[l] = r /\ \A m \in Loops : m # l => loop'[m] = loop[m]
  BY DEF Goto
<1>2. (\A o : Owner(o)' = Owner(o)) /\ Output' = Output
  BY DEF Owner, Output
<1>3. \A o \in ToSet(hints') : Owner(o) = account \/ o \in strays'
  BY DEF OwnInv, HintsOwned
<1>4. HintsOwned'
  <2>1. \A m \in Loops : loop'[m].at = "sign" =>
            \A o \in loop'[m].ins : Owner(o) = loop'[m].asked \/ o \in strays'
    BY <1>1 DEF OwnInv, HintsOwned
  <2> QED
    BY <1>2, <1>3, <2>1 DEF HintsOwned
<1>5. ASSUME NEW m \in Loops
      PROVE  /\ \A o \in loop'[m].created \union loop'[m].toPush : Owner(o) = loop'[m].asked
             /\ loop'[m].at \notin {"sync", "batch"} => loop'[m].created = {}
             /\ loop'[m].at # "batch" => loop'[m].toPush = {}
             /\ loop'[m].at = "sign" => loop'[m].ins \subseteq Output
  <2>1. CASE m = l
    BY <1>1, <2>1
  <2>2. CASE m # l
    BY <1>1, <2>2 DEF OwnInv
  <2> QED
    BY <2>1, <2>2
<1> QED
  BY <1>2, <1>4, <1>5 DEF OwnInv

\* A synchronization: what is asked for, what is to be fetched, what is pushed.
LEMMA OwnSync ==
    ASSUME IndexInv, OwnInv, NEW l \in Loops,
           \/ CashInit(l) \/ Prepare(l) \/ Retry(l) \/ SyncCreated(l) \/ SyncQuiet(l) \/ SyncBatch(l)
           \/ SyncFails(l)
    PROVE  OwnInv'
<1>1. /\ loop \in [Loops -> Locals] /\ loop[l] \in Locals /\ hints \in Seq(OutputId)
      /\ \A o \in loop[l].created \union loop[l].toPush : Owner(o) = loop[l].asked
      /\ loop[l].at # "batch" => loop[l].toPush = {}
      /\ TypeOK /\ Known
  BY DEF IndexInv, TypeOK, OwnInv
<1>2. ASSUME NEW ret \in Returns, Ask(l, ret), UNCHANGED <<flags, pool, txs, strays>>,
             loop[l].at # "batch"
      PROVE  OwnInv'
  <2> DEFINE made == {o \in Unspent(account) : IsCash(o)}
             used == {o \in OnLedger(account) \intersect Consumed : IsCash(o)}
             r == [loop[l] EXCEPT !.at = "sync", !.ret = ret, !.asked = account,
                            !.created = made, !.consumed = used]
  <2>1. \A o \in made : Owner(o) = account
    BY DEF Unspent, OnLedger
  <2>2. Goto(l, r)
    BY <1>2 DEF Ask
  <2> HIDE DEF made, used
  <2>3. r.at = "sync" /\ r.created = made /\ r.toPush = {} /\ r.asked = account
    BY <1>1, <1>2 DEF Locals
  <2> HIDE DEF r
  <2>4. \A o \in r.created \union r.toPush : Owner(o) = r.asked
    BY <2>1, <2>3
  <2>5. txs' = txs /\ account' = account /\ hints' = hints /\ strays' = strays
    BY <1>2 DEF flags, pool
  <2> QED
    BY <1>1, <2>2, <2>3, <2>4, <2>5, OwnMoves
<1>3. ASSUME NEW seen, NEW consumed, EndSync(l, seen, consumed), strays \subseteq strays',
             \A o \in ToSet(hints') : o \in ToSet(hints) \/ Owner(o) = account \/ o \in strays'
      PROVE  OwnInv'
  <2>1. Goto(l, AfterSync(l)) /\ txs' = txs /\ account' = account
    BY <1>3 DEF EndSync, ledger
  <2>2. /\ AfterSync(l).at # "sign"
        /\ AfterSync(l).created = {} /\ AfterSync(l).toPush = {}
    BY <1>1, AfterSyncTyped
  <2> QED
    BY <1>1, <1>3, <2>1, <2>2, OwnMoves
<1>4. CASE CashInit(l)
  <2>1. CASE cooling
    <3> DEFINE r == [Idle EXCEPT !.at = "consolidate"]
    <3>1. r.at = "consolidate" /\ r.created = {} /\ r.toPush = {}
      BY DEF Idle
    <3>2. Goto(l, r) /\ txs' = txs /\ account' = account /\ hints' = hints /\ strays' = strays
      BY <1>4, <2>1 DEF CashInit, ledger, flags, pool, counts
    <3> HIDE DEF r
    <3> QED
      BY <1>1, <3>1, <3>2, OwnMoves
  <2>2. CASE ~cooling
    BY <1>2, <1>4, <2>2 DEF CashInit, ledger, counts, Returns
  <2> QED
    BY <2>1, <2>2
<1>5. CASE Prepare(l)
  BY <1>2, <1>5 DEF Prepare, ledger, counts, Returns
<1>6. CASE Retry(l)
  BY <1>2, <1>6 DEF Retry, ledger, counts, Returns
<1>7. CASE SyncCreated(l)
  <2> DEFINE r == [loop[l] EXCEPT !.at = "batch", !.toPush = New(l)]
  <2>1. New(l) \subseteq loop[l].created
    BY DEF New, Free
  <2>2. Goto(l, r) /\ txs' = txs /\ account' = account /\ hints' = hints /\ strays' = strays
    BY <1>7 DEF SyncCreated, ledger, flags, counts
  <2>3. /\ r.at = "batch" /\ r.created = loop[l].created /\ r.toPush = New(l)
        /\ r.asked = loop[l].asked
    BY <1>1 DEF Locals
  <2> HIDE DEF r
  <2>4. \A o \in r.created \union r.toPush : Owner(o) = r.asked
    BY <1>1, <2>1, <2>3
  <2> QED
    BY <1>1, <2>2, <2>3, <2>4, OwnMoves
<1>8. CASE SyncQuiet(l)
  <2>1. ToSet(hints') \subseteq ToSet(hints)
    BY <1>1, <1>8, WithoutProperties DEF SyncQuiet
  <2> QED
    BY <1>3, <1>8, <2>1 DEF SyncQuiet
<1>9. CASE SyncBatch(l)
  <2>1. PICK q \in SetToSeqs(loop[l].toPush) : hints' \in Without(hints \o q, loop[l].consumed)
    BY <1>9 DEF SyncBatch
  <2>2. ToSet(hints') \subseteq ToSet(hints) \union loop[l].toPush
    BY <1>1, <2>1, BatchHints
  <2>3. strays' = strays \union {o \in loop[l].toPush : loop[l].asked # account}
    BY <1>9 DEF SyncBatch
  <2>4. \A o \in ToSet(hints') : o \in ToSet(hints) \/ Owner(o) = account \/ o \in strays'
    BY <1>1, <2>2, <2>3
  <2> QED
    BY <1>3, <1>9, <2>3, <2>4 DEF SyncBatch
<1>10. CASE SyncFails(l)
  BY <1>3, <1>10 DEF SyncFails
<1> QED
  BY <1>4, <1>5, <1>6, <1>7, <1>8, <1>9, <1>10

\* What a loop takes its cash from: a hint, or what the node lists.
LEMMA OwnSigns ==
    ASSUME IndexInv, OwnInv, NEW l \in Loops, Split(l) \/ GetCash(l) \/ Fly(l)
    PROVE  OwnInv'
<1>1. /\ loop \in [Loops -> Locals] /\ loop[l] \in Locals /\ hints \in Seq(OutputId)
      /\ loop[l].at \in {"unspent", "getcash", "fly"}
      /\ loop[l].created = {} /\ loop[l].toPush = {} /\ ToSet(hints) \subseteq Output
  BY DEF IndexInv, TypeOK, Known, OwnInv, Split, GetCash, Fly
<1>2. txs' = txs /\ account' = account /\ hints' = hints /\ strays' = strays
  BY DEF Split, GetCash, Fly, ledger, flags, pool, counts
<1>3. \A a : \A o \in Unspent(a) : o \in Output /\ Owner(o) = a
  BY DEF Unspent, OnLedger
<1>4. ASSUME NEW r, Goto(l, r), r.created = {}, r.toPush = {},
             r.at = "sign" => \A o \in r.ins : o \in Output /\ (Owner(o) = r.asked \/ o \in strays)
      PROVE  OwnInv'
  BY <1>1, <1>2, <1>4, OwnMoves
<1>5. CASE Goto(l, Idle)
  BY <1>4, <1>5 DEF Idle
<1>6. CASE Split(l)
  <2> DEFINE unspent == Unspent(loop[l].asked)
             outs == [i \in 1..SplitNums |->
                         IF i < SplitNums THEN TotalAmount(unspent) \div SplitNums
                         ELSE TotalAmount(unspent)
                                - (SplitNums - 1) * (TotalAmount(unspent) \div SplitNums)]
             r    == [Idle EXCEPT !.at = "sign", !.src = "all", !.asked = loop[l].asked,
                                  !.ins = unspent, !.outs = outs]
  <2>1. Goto(l, Idle) \/ Goto(l, r)
    BY <1>6 DEF Split
  <2>2. \A o \in unspent : o \in Output /\ Owner(o) = loop[l].asked
    BY <1>3
  <2> HIDE DEF outs, unspent
  <2>3. /\ r.at = "sign" /\ r.ins = unspent /\ r.created = {} /\ r.toPush = {}
        /\ r.asked = loop[l].asked
    BY DEF Idle
  <2> HIDE DEF r
  <2> QED
    BY <1>4, <1>5, <2>1, <2>2, <2>3
<1>7. CASE GetCash(l)
  <2>1. CASE NoHint(l)
    <3> DEFINE at == IF loop[l].attempt + 1 = MaxRetries THEN "fly" ELSE "retry"
               r  == [loop[l] EXCEPT !.attempt = @ + 1, !.asked = account, !.at = at]
    <3>1. Goto(l, r) /\ at \in {"fly", "retry"}
      BY <2>1 DEF NoHint
    <3> HIDE DEF at
    <3>2. r.at = at /\ r.created = {} /\ r.toPush = {}
      BY <1>1 DEF Locals
    <3> HIDE DEF r
    <3> QED
      BY <1>4, <3>1, <3>2
  <2>2. ASSUME NEW i \in 1..Len(hints), UseHint(l, i)
        PROVE  OwnInv'
    <3> DEFINE outs == <<Amount(hints[i]) - Need(loop[l].send)>>
               r == [loop[l] EXCEPT !.at = "sign", !.src = "hint", !.index = i, !.asked = account,
                      !.ins = {hints[i]}, !.outs = outs]
    <3>1. Goto(l, r)
      BY <2>2 DEF UseHint
    <3>2. hints[i] \in ToSet(hints)
      BY <1>1 DEF ToSet
    <3>3. hints[i] \in Output /\ (Owner(hints[i]) = account \/ hints[i] \in strays)
      BY <1>1, <3>2 DEF OwnInv, HintsOwned
    <3> HIDE DEF outs
    <3>4. /\ r.at = "sign" /\ r.ins = {hints[i]} /\ r.asked = account
          /\ r.created = {} /\ r.toPush = {}
      BY <1>1 DEF Locals
    <3> HIDE DEF r
    <3> QED
      BY <1>4, <3>1, <3>3, <3>4
  <2>3. ASSUME NEW i \in 1..Len(hints), LeaveHint(l, i)
        PROVE  OwnInv'
    <3> DEFINE r == [loop[l] EXCEPT !.at = "fly", !.index = i, !.asked = account]
    <3>1. Goto(l, r)
      BY <2>3 DEF LeaveHint
    <3>2. r.at = "fly" /\ r.created = {} /\ r.toPush = {}
      BY <1>1 DEF Locals
    <3> HIDE DEF r
    <3> QED
      BY <1>4, <3>1, <3>2
  <2> QED
    BY <1>7, <2>1, <2>2, <2>3 DEF GetCash
<1>8. CASE Fly(l)
  <2>1. ASSUME NEW o \in Unspent(loop[l].asked),
               Goto(l, [loop[l] EXCEPT !.at = "sign", !.src = "fly", !.ins = {o},
                                       !.outs = <<Amount(o) - Need(loop[l].send)>>])
        PROVE  OwnInv'
    <3> DEFINE outs == <<Amount(o) - Need(loop[l].send)>>
               r == [loop[l] EXCEPT !.at = "sign", !.src = "fly", !.ins = {o}, !.outs = outs]
    <3>1. Goto(l, r)
      BY <2>1
    <3> HIDE DEF outs
    <3>2. /\ r.at = "sign" /\ r.ins = {o} /\ r.asked = loop[l].asked
          /\ r.created = {} /\ r.toPush = {}
      BY <1>1 DEF Locals
    <3> HIDE DEF r
    <3> QED
      BY <1>3, <1>4, <3>1, <3>2
  <2> QED
    BY <1>5, <1>8, <2>1 DEF Fly
<1> QED
  BY <1>6, <1>7, <1>8

\* The other steps of a loop that submit nothing.
LEMMA OwnRest ==
    ASSUME IndexInv, OwnInv, NEW l \in Loops,
           \/ Consolidate(l) \/ RequestFails(l) \/ AnswerLost(l) \/ AnswerAll(l) \/ AnswerSend(l)
           \/ \E s \in Sends : Send(l, s)
    PROVE  OwnInv'
<1>1. /\ loop \in [Loops -> Locals] /\ loop[l] \in Locals /\ hints \in Seq(OutputId)
      /\ loop[l].index \in Nat
  BY DEF IndexInv, TypeOK, Locals
<1>2. txs' = txs /\ account' = account /\ strays' = strays
  BY DEF Consolidate, RequestFails, AnswerLost, AnswerAll, AnswerSend, Send, ledger, flags, counts
<1>3. ToSet(hints') \subseteq ToSet(hints)
  <2>1. CASE hints' = hints
    BY <2>1
  <2>2. CASE hints' = <<>>
    BY <2>2 DEF ToSet
  <2>3. CASE hints' = Splice(hints, loop[l].index)
    BY <1>1, <2>3, SpliceProperties
  <2> QED
    BY <2>1, <2>2, <2>3
       DEF Consolidate, RequestFails, AnswerLost, AnswerAll, AnswerSend, Send, pool
<1>4. ASSUME NEW r, Goto(l, r), r.created = {}, r.toPush = {}, r.ins = {}
      PROVE  OwnInv'
  BY <1>1, <1>2, <1>3, <1>4, OwnMoves
<1>5. CASE Goto(l, Idle)
  BY <1>4, <1>5 DEF Idle
<1>6. CASE Goto(l, [Idle EXCEPT !.at = "unspent", !.asked = account])
  <2> DEFINE r == [Idle EXCEPT !.at = "unspent", !.asked = account]
  <2>1. r.created = {} /\ r.toPush = {} /\ r.ins = {}
    BY DEF Idle
  <2>2. Goto(l, r)
    BY <1>6
  <2> HIDE DEF r
  <2> QED
    BY <1>4, <2>1, <2>2
<1>7. ASSUME NEW s \in Sends, NEW at \in {"sign", "getcash"},
             Goto(l, [Idle EXCEPT !.at = at, !.send = s])
      PROVE  OwnInv'
  <2> DEFINE r == [Idle EXCEPT !.at = at, !.send = s]
  <2>1. r.created = {} /\ r.toPush = {} /\ r.ins = {}
    BY DEF Idle
  <2>2. Goto(l, r)
    BY <1>7
  <2> HIDE DEF r
  <2> QED
    BY <1>4, <2>1, <2>2
<1> QED
  BY <1>5, <1>6, <1>7 DEF Consolidate, RequestFails, AnswerLost, AnswerAll, AnswerSend, Send

\* A new transaction changes no owner: all that is remembered has existed.
LEMMA OwnSubmit ==
    ASSUME IndexInv, OwnInv, NEW l \in Loops, Submit(l)
    PROVE  OwnInv'
<1> DEFINE t == [owner |-> account, ins |-> loop[l].ins,
                 outs |-> loop[l].outs, src |-> loop[l].src]
           r == [loop[l] EXCEPT !.at = "answer", !.tx = Len(txs) + 1]
<1>1. loop \in [Loops -> Locals] /\ loop[l] \in Locals /\ account \in Accounts
  BY DEF IndexInv, TypeOK
<1>2. t \in Transaction /\ txs \in Seq(Transaction) /\ txs' = Append(txs, t)
  BY <1>1 DEF Locals, Transaction, IndexInv, TypeOK, Submit
<1>3. /\ r.at = "answer" /\ r.created = {} /\ r.toPush = {} /\ r.asked = loop[l].asked
      /\ Goto(l, r)
  BY <1>1 DEF Locals, Submit, OwnInv
<1> HIDE DEF t, r
<1>4. /\ Len(txs) \in Nat /\ \A i \in 1..Len(txs) : txs'[i] = txs[i]
  BY <1>2, AppendProperties, LenProperties
<1>5. \A o \in Output : o \in Output' /\ Owner(o)' = Owner(o)
  <2> SUFFICES ASSUME NEW o \in Output PROVE o \in Output' /\ Owner(o)' = Owner(o)
    OBVIOUS
  <2>1. o \in Output'
    BY <1>2, OutputGrows
  <2>2. o[1] = 0 \/ o[1] \in 1..Len(txs)
    BY DEF Output
  <2> QED
    BY <1>4, <2>1, <2>2 DEF Owner
<1>6. loop'[l] = r /\ \A m \in Loops : m # l => loop'[m] = loop[m]
  BY <1>1, <1>3 DEF Goto
<1>7. account' = account /\ hints' = hints /\ strays' = strays
  BY DEF Submit, flags, pool, counts
<1>8. \A o \in ToSet(hints) : o \in Output /\ (Owner(o) = account \/ o \in strays)
  BY DEF IndexInv, Known, OwnInv, HintsOwned
<1>9. \A m \in Loops : \A o \in loop'[m].created \union loop'[m].toPush :
          o \in Output /\ Owner(o) = loop'[m].asked
  BY <1>3, <1>6 DEF IndexInv, Known, OwnInv
<1>10. \A m \in Loops : loop'[m].at = "sign" =>
           \A o \in loop'[m].ins : o \in Output /\ (Owner(o) = loop'[m].asked \/ o \in strays)
  BY <1>3, <1>6 DEF OwnInv, HintsOwned
<1>11. \A m \in Loops : /\ loop'[m].at \notin {"sync", "batch"} => loop'[m].created = {}
                        /\ loop'[m].at # "batch" => loop'[m].toPush = {}
  BY <1>3, <1>6 DEF OwnInv
<1>12. HintsOwned'
  BY <1>5, <1>7, <1>8, <1>10 DEF HintsOwned
<1>13. \A m \in Loops : /\ \A o \in loop'[m].created \union loop'[m].toPush : Owner(o)' = loop'[m].asked
                        /\ loop'[m].at = "sign" => loop'[m].ins \subseteq Output'
  BY <1>5, <1>9, <1>10
<1> QED
  BY <1>11, <1>12, <1>13 DEF OwnInv

\* Every step keeps what is remembered the account's own, or among the strays.
LEMMA OwnStep == IndexInv /\ OwnInv /\ [Next]_vars => OwnInv'
<1> SUFFICES ASSUME IndexInv, OwnInv, [Next]_vars PROVE OwnInv'
  OBVIOUS
<1>1. ASSUME UNCHANGED <<txs, loop, strays>>,
             hints' = <<>> \/ UNCHANGED <<hints, account>>
      PROVE  OwnInv'
  <2>1. (\A o : Owner(o)' = Owner(o)) /\ Output' = Output
    BY <1>1 DEF Owner, Output
  <2>2. \A o \in ToSet(hints') : Owner(o) = account' \/ o \in strays
    BY <1>1 DEF OwnInv, HintsOwned, ToSet
  <2> QED
    BY <1>1, <2>1, <2>2 DEF OwnInv, HintsOwned
<1>2. CASE UNCHANGED vars
  BY <1>1, <1>2 DEF vars, ledger, pool, flags, counts
<1>3. CASE \/ \E t \in 1..Len(txs) : Confirm(t) \/ Drop(t)
           \/ \E t \in DOMAIN pending : Age(t)
           \/ CoolDown \/ Toggle \/ \E a \in Accounts : SwitchAddress(a)
  BY <1>1, <1>3 DEF Confirm, Drop, Age, CoolDown, Toggle, SwitchAddress,
                    ledger, pool, flags, counts
<1>4. ASSUME NEW l \in Loops, Step(l) \/ \E s \in Sends : Send(l, s) PROVE OwnInv'
  BY <1>4, OwnSync, OwnSigns, OwnRest, OwnSubmit DEF Step
<1> QED
  BY <1>2, <1>3, <1>4 DEF Next

\* Whenever switchAddress comes (client 272-295), and with any number of
\* loops, a hint is of the account or was pushed by a synchronization that the
\* switch straddled, and the inputs a loop is about to sign for are of the
\* account they were chosen for, or such strays.
THEOREM HintsOwnedInvariant == Spec => []HintsOwned
<1>1. Init => OwnInv
  BY DEF Init, OwnInv, HintsOwned, Idle, ToSet
<1>2. IndexInv /\ OwnInv /\ [Next]_vars => OwnInv'
  BY OwnStep
<1>3. OwnInv => HintsOwned
  BY DEF OwnInv
<1> QED
  BY <1>1, <1>2, <1>3, IndexInvariant, PTL DEF Spec
=============================================================================
