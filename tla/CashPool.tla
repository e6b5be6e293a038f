------------------------------ MODULE CashPool ------------------------------
(***************************************************************************)
(* The client's pool of cash outputs (packages/client/src/index.ts): the   *)
(* remainder hints a send takes its cash from, the transactions the client *)
(* has sent and not yet seen confirmed, and their reconciliation with what *)
(* the node reports.  One client, several accounts (switchAddress), one or *)
(* more poll loops of OutputSendingDomain that drive it.                   *)
(*                                                                         *)
(* An output is a pair <<t, k>>: the k-th cash output of transaction t, or *)
(* the k-th of the initial Funds when t = 0.  An await splits a method     *)
(* into the action before it and the action after it; loop[l].at says      *)
(* which await loop l stands at.                                           *)
(***************************************************************************)
EXTENDS Integers, Sequences, FiniteSets, FiniteSetsExt, Functions, SequencesExt

CONSTANTS
    Loops,        \* poll loops alive at once (one, unless a stop timed out)
    Accounts,     \* addresses the user switches between
    Funds,        \* initial outputs: sequence of [owner, amount, cash]
    SplitNums,    \* cashSplitNums
    Deposit,      \* storage deposit of a cash output
    Sends,        \* what a command sends: set of [pay, extra]
    MaxRetries,   \* maxRetries of _tryGetCashFromRemainderHint
    MaxSends,     \* bound: commands ever taken
    MaxSwitches,  \* bound: calls of switchAddress
    MaxToggles,   \* bound: enters of and navigations away from a group
    LostAnswers   \* a submitted transaction may lose its answer

ASSUME LoopsAssumption == IsFiniteSet(Loops)
ASSUME FundsAssumption ==
    Funds \in Seq([owner : Accounts, amount : Nat, cash : BOOLEAN])
ASSUME SplitAssumption == SplitNums \in Nat \ {0} /\ Deposit \in Nat
\* The ledger holds no cash output below its storage deposit.
ASSUME DepositAssumption == \A k \in 1..Len(Funds) : Funds[k].cash => Funds[k].amount >= Deposit
ASSUME SendsAssumption == Sends \subseteq [pay : Nat, extra : Nat]
ASSUME RetryAssumption == MaxRetries \in Nat \ {0}

VARIABLES
    account,         \* _accountBech32Address and the keys that go with it
    inited,          \* _isCashDataInited
    cooling,         \* _lastActualPrepareTimestamp is within the cool-down
    preparing,       \* _prepareRemainderHintSwitch
    hints,           \* _remainderHintSet, in insertion order
    pending,         \* _pendingTransactions
    pendingSpent,    \* _pendingSpentOutputIdToTxId
    pendingCreated,  \* _pendingCreatedOutputToTxId
    aged,            \* pending transactions older than five minutes
    loop,            \* where each loop stands and its local variables
    txs,             \* every transaction handed to the node
    milestones,      \* the confirmed ones, in confirmation order
    dropped,         \* the ones that will never be confirmed
    sends, switches, toggles,  \* the counters of the bounds
    strays           \* history: the outputs pushed by synchronizations that
                     \* a switch to another account straddled

ledger == <<txs, milestones, dropped>>
pool   == <<hints, pending, pendingSpent, pendingCreated>>
flags  == <<account, inited, cooling, preparing>>
counts == <<sends, switches, toggles, strays>>
vars   == <<flags, pool, aged, loop, ledger, counts>>

-----------------------------------------------------------------------------
(* The ledger, as the node and its indexer report it.                      *)

Confirmed == ToSet(milestones)
Output == {<<0, k>> : k \in 1..Len(Funds)}
            \union UNION {{<<t, k>> : k \in 1..Len(txs[t].outs)} : t \in 1..Len(txs)}
Amount(o) == IF o[1] = 0 THEN Funds[o[2]].amount ELSE txs[o[1]].outs[o[2]]
Owner(o)  == IF o[1] = 0 THEN Funds[o[2]].owner ELSE txs[o[1]].owner
IsCash(o) == o[1] = 0 => Funds[o[2]].cash
OnLedger(a) == {o \in Output : Owner(o) = a /\ (o[1] = 0 \/ o[1] \in Confirmed)}
Consumed == UNION {txs[t].ins : t \in Confirmed}
Unspent(a) == OnLedger(a) \ Consumed

\* milestoneTimestamp of an output: the milestone that confirmed it.
Timestamp(o) == IF o[1] = 0 THEN 0
                ELSE CHOOSE i \in 1..Len(milestones) : milestones[i] = o[1]

TotalAmount(S) == MapThenSumSet(Amount, S)

-----------------------------------------------------------------------------
Idle == [at |-> "idle", ret |-> "idle", created |-> {}, consumed |-> {},
         toPush |-> {}, send |-> [pay |-> 0, extra |-> 0], attempt |-> 0,
         index |-> 0, ins |-> {}, outs |-> <<>>, src |-> "none", tx |-> 0,
         asked |-> "none"]

Init ==
    /\ account \in Accounts
    /\ inited = FALSE /\ cooling = FALSE /\ preparing = FALSE
    /\ hints = <<>>
    /\ pending = <<>> /\ pendingSpent = <<>> /\ pendingCreated = <<>>
    /\ aged = {}
    /\ loop = [l \in Loops |-> Idle]
    /\ txs = <<>> /\ milestones = <<>> /\ dropped = {}
    /\ sends = 0 /\ switches = 0 /\ toggles = 0 /\ strays = {}

\* The sequences that list the elements of h outside S in the order of h
\* (Array.filter: there is exactly one).
Without(h, S) ==
    LET kept == {i \in 1..Len(h) : h[i] \notin S}
    IN  {[i \in 1..Len(f) |-> h[f[i]]] :
            f \in {g \in SetToSeqs(kept) :
                      \A i, j \in 1..Len(g) : i < j => g[i] < g[j]}}

\* Array.splice(i - 1, 1): nothing when i is past the end.
Splice(h, i) == IF i \in 1..Len(h) THEN RemoveAt(h, i) ELSE h

\* Mutant: the inputs stay indexed as spent.
MutSettle(ts) ==
    LET known == ts \intersect DOMAIN pending
        outs  == UNION {pending[t].outputs : t \in known}
    IN  /\ pending' = Restrict(pending, DOMAIN pending \ known)
        /\ pendingSpent' = pendingSpent
        /\ pendingCreated' = Restrict(pendingCreated, DOMAIN pendingCreated \ outs)

\* handleTransactionConfirmation and handleTransactionFailure, which treat
\* their transaction alike, for every transaction of ts.
Settle(ts) ==
    LET known == ts \intersect DOMAIN pending
        ins   == UNION {pending[t].inputs : t \in known}
        outs  == UNION {pending[t].outputs : t \in known}
    IN  /\ pending' = Restrict(pending, DOMAIN pending \ known)
        /\ pendingSpent' = Restrict(pendingSpent, DOMAIN pendingSpent \ ins)
        /\ pendingCreated' = Restrict(pendingCreated, DOMAIN pendingCreated \ outs)

\* f with every key of S set to v.
PutAll(f, S, v) == [x \in DOMAIN f \union S |-> IF x \in S THEN v ELSE f[x]]

AddPending(t, inputs, outputs) ==
    /\ pending' = PutAll(pending, {t}, [inputs |-> inputs, outputs |-> outputs])
    /\ pendingSpent' = PutAll(pendingSpent, inputs, t)
    /\ pendingCreated' = PutAll(pendingCreated, outputs, t)

\* The hint at i has the smallest timestamp and is the first that has it.
IsOldest(i) ==
    \A j \in 1..Len(hints) :
        \/ Timestamp(hints[i]) < Timestamp(hints[j])
        \/ Timestamp(hints[i]) = Timestamp(hints[j]) /\ i <= j

Need(s) == s.pay - s.extra
Goto(l, r) == loop' = [loop EXCEPT ![l] = r]

-----------------------------------------------------------------------------
(* The network.                                                            *)

Confirm(t) ==
    /\ t \in 1..Len(txs) /\ t \notin Confirmed /\ t \notin dropped
    /\ \A o \in txs[t].ins : o \in Unspent(txs[t].owner)
    /\ milestones' = Append(milestones, t)
    /\ UNCHANGED <<flags, pool, aged, loop, txs, dropped, counts>>

Drop(t) ==
    /\ t \in 1..Len(txs) /\ t \notin Confirmed /\ t \notin dropped
    /\ dropped' = dropped \union {t}
    /\ UNCHANGED <<flags, pool, aged, loop, txs, milestones, counts>>

(* Time.                                                                   *)

Age(t) ==
    /\ t \in DOMAIN pending /\ t \notin aged
    /\ aged' = aged \union {t}
    /\ UNCHANGED <<flags, pool, loop, ledger, counts>>

CoolDown ==
    /\ cooling
    /\ cooling' = FALSE
    /\ UNCHANGED <<account, inited, preparing, pool, aged, loop, ledger, counts>>

(* The application: entering a group, leaving it, switching the address    *)
(* (at any await of a loop).                                               *)

Toggle ==
    /\ toggles < MaxToggles
    /\ toggles' = toggles + 1
    /\ preparing' = ~preparing
    /\ UNCHANGED <<account, inited, cooling, pool, aged, loop, ledger, sends, switches, strays>>

\* Mutant: the hints of the old account stay.
MutSwitchAddress(a) ==
    /\ switches < MaxSwitches
    /\ switches' = switches + 1
    /\ account' = a
    /\ inited' = FALSE /\ cooling' = FALSE
    /\ pending' = <<>> /\ pendingSpent' = <<>> /\ pendingCreated' = <<>>
    /\ UNCHANGED <<hints, preparing, aged, loop, ledger, sends, toggles, strays>>

SwitchAddress(a) ==
    /\ switches < MaxSwitches
    /\ switches' = switches + 1
    /\ account' = a
    /\ inited' = FALSE /\ cooling' = FALSE
    /\ hints' = <<>>
    /\ pending' = <<>> /\ pendingSpent' = <<>> /\ pendingCreated' = <<>>
    /\ UNCHANGED <<preparing, aged, loop, ledger, sends, toggles, strays>>

-----------------------------------------------------------------------------
(* Reconciliation: synchronizeUTXOPool, then checkForStaleTransactions.    *)

\* Mutant: of the consumed outputs only those this client spent.
MutAsk(l, ret) ==
    Goto(l, [loop[l] EXCEPT !.at = "sync", !.ret = ret, !.asked = account,
                            !.created = {o \in Unspent(account) : IsCash(o)},
                            !.consumed = DOMAIN pendingSpent \intersect Consumed])

\* getAddressCashOutputs is asked and answered; ret is what follows it.
Ask(l, ret) ==
    Goto(l, [loop[l] EXCEPT !.at = "sync", !.ret = ret, !.asked = account,
                            !.created = {o \in Unspent(account) : IsCash(o)},
                            !.consumed = {o \in OnLedger(account) \intersect Consumed : IsCash(o)}])

\* poll without a command: cashInit.
CashInit(l) ==
    /\ loop[l].at = "idle" /\ ~inited
    /\ IF cooling THEN Goto(l, [Idle EXCEPT !.at = "consolidate"])
       ELSE Ask(l, "consolidate")
    /\ UNCHANGED <<flags, pool, aged, ledger, counts>>

\* poll without a command: prepareRemainderHint.
Prepare(l) ==
    /\ loop[l].at = "idle" /\ inited
    /\ DOMAIN pending # {} \/ preparing
    /\ ~cooling
    /\ Ask(l, "idle")
    /\ UNCHANGED <<flags, pool, aged, ledger, counts>>

\* The wait of the retry loop is over: _actualPrepareRemainderHint.
Retry(l) ==
    /\ loop[l].at = "retry"
    /\ Ask(l, "getcash")
    /\ UNCHANGED <<flags, pool, aged, ledger, counts>>

\* Where the loop goes on, its local variables kept for the send.
AfterSync(l) ==
    IF loop[l].ret = "getcash"
    THEN [Idle EXCEPT !.at = "getcash", !.send = loop[l].send,
                      !.attempt = loop[l].attempt]
    ELSE [Idle EXCEPT !.at = loop[l].ret]

\* Mutant: no stale check.
MutEndSync(l, seen, consumed) ==
    /\ Settle(seen \union {pendingSpent[o] : o \in consumed \intersect DOMAIN pendingSpent})
    /\ cooling' = TRUE
    /\ Goto(l, AfterSync(l))
    /\ UNCHANGED <<account, inited, preparing, aged, ledger, sends, switches, toggles>>

\* The end of a synchronization whose created outputs confirmed seen and that
\* is told of consumed outputs.  Settling a transaction clears all its inputs,
\* so of two transactions that spend one output the order of the answer
\* decides which is settled.  Stale transactions go in any case.
EndSync(l, seen, consumed) ==
    LET inputs(ts) == UNION {pending[t].inputs : t \in ts \intersect DOMAIN pending}
        told == (consumed \intersect DOMAIN pendingSpent) \ inputs(seen)
    IN  /\ \E ts \in SUBSET {pendingSpent[o] : o \in told} :
              /\ \A o \in told : pendingSpent[o] \in ts \/ o \in inputs(ts)
              /\ Settle(seen \union ts \union (aged \intersect DOMAIN pending))
        /\ cooling' = TRUE
        /\ Goto(l, AfterSync(l))
        /\ UNCHANGED <<account, inited, preparing, aged, ledger, sends, switches, toggles>>

\* A request failed: the pool is left alone, the stale check is made.
SyncFails(l) ==
    /\ loop[l].at \in {"sync", "batch"}
    /\ EndSync(l, {}, {})
    /\ UNCHANGED <<hints, strays>>

\* Mutants: what a pending transaction spends is not skipped; known hints are
\* fetched again.
MutFree(l) == loop[l].created
\* The created outputs: those a pending transaction spends are skipped, the
\* unknown ones are to be fetched, the expected ones confirm their sender.
Free(l) == loop[l].created \ DOMAIN pendingSpent
MutNew(l) == Free(l)
New(l)  == Free(l) \ ToSet(hints)
Seen(l) == {pendingCreated[o] : o \in Free(l) \intersect DOMAIN pendingCreated}

SyncCreated(l) ==
    /\ loop[l].at = "sync" /\ New(l) # {}
    /\ Settle(Seen(l))
    /\ Goto(l, [loop[l] EXCEPT !.at = "batch", !.toPush = New(l)])
    /\ UNCHANGED <<flags, hints, aged, ledger, counts>>

\* With nothing to fetch there is no await before the consumed outputs, which
\* leave the hints and confirm the transactions that spent them.
SyncQuiet(l) ==
    /\ loop[l].at = "sync" /\ New(l) = {}
    /\ hints' \in Without(hints, loop[l].consumed)
    /\ EndSync(l, Seen(l), loop[l].consumed)
    /\ UNCHANGED strays

\* The fetched outputs are pushed in the order of the answer, then the same.
SyncBatch(l) ==
    /\ loop[l].at = "batch"
    /\ \E q \in SetToSeqs(loop[l].toPush) :
          hints' \in Without(hints \o q, loop[l].consumed)
    /\ EndSync(l, {}, loop[l].consumed)
    /\ strays' = strays \union {o \in loop[l].toPush : loop[l].asked # account}

-----------------------------------------------------------------------------
(* Sending.                                                                *)

\* consolidateIfNeeded up to its await: nothing to do while a transaction is
\* pending, otherwise the unspent outputs are asked for.
Consolidate(l) ==
    /\ loop[l].at = "consolidate"
    /\ inited' = TRUE
    /\ IF DOMAIN pending # {} THEN Goto(l, Idle)
       ELSE Goto(l, [Idle EXCEPT !.at = "unspent", !.asked = account])
    /\ UNCHANGED <<account, cooling, preparing, pool, aged, ledger, counts>>

\* The answer: everything unspent is split into SplitNums cash outputs, unless
\* the hints already are such a split.  The conjunct total \in Nat is a type
\* annotation for the prover.
Split(l) ==
    LET unspent == Unspent(loop[l].asked)
        total   == TotalAmount(unspent)
        per     == total \div SplitNums
        whole   == ToSet(hints) = unspent /\ Cardinality(unspent) >= SplitNums
        outs    == [i \in 1..SplitNums |->
                       IF i < SplitNums THEN per ELSE total - (SplitNums - 1) * per]
    IN  /\ loop[l].at = "unspent"
        /\ total \in Nat
        /\ IF whole \/ unspent = {} \/ per < Deposit
           THEN Goto(l, Idle)
           ELSE Goto(l, [Idle EXCEPT !.at = "sign", !.src = "all", !.asked = loop[l].asked,
                                     !.ins = unspent, !.outs = outs])
        /\ UNCHANGED <<flags, pool, aged, ledger, counts>>

\* poll takes a command that ends in _sendBasicOutput; consumed outputs that
\* cover the created ones make cash unnecessary.
Send(l, s) ==
    /\ loop[l].at = "idle"
    /\ sends < MaxSends
    /\ sends' = sends + 1
    /\ IF Need(s) < 0
       THEN Goto(l, [Idle EXCEPT !.at = "sign", !.send = s])
       ELSE Goto(l, [Idle EXCEPT !.at = "getcash", !.send = s])
    /\ UNCHANGED <<flags, pool, aged, ledger, switches, toggles, strays>>

\* The oldest hint pays if it holds twice what is needed; its index is kept
\* for the splice in either case.
NoHint(l) ==
    /\ hints = <<>>
    /\ Goto(l, [loop[l] EXCEPT !.attempt = @ + 1, !.asked = account,
                  !.at = IF loop[l].attempt + 1 = MaxRetries THEN "fly" ELSE "retry"])

UseHint(l, i) ==
    LET need == Need(loop[l].send)
    IN  /\ IsOldest(i) /\ Amount(hints[i]) >= 2 * need
        /\ Goto(l, [loop[l] EXCEPT !.at = "sign", !.src = "hint", !.index = i, !.asked = account,
                      !.ins = {hints[i]}, !.outs = <<Amount(hints[i]) - need>>])

LeaveHint(l, i) ==
    /\ IsOldest(i) /\ Amount(hints[i]) < 2 * Need(loop[l].send)
    /\ Goto(l, [loop[l] EXCEPT !.at = "fly", !.index = i, !.asked = account])

GetCash(l) ==
    /\ loop[l].at = "getcash"
    /\ NoHint(l) \/ \E i \in 1..Len(hints) : UseHint(l, i) \/ LeaveHint(l, i)
    /\ UNCHANGED <<flags, pool, aged, ledger, counts>>

\* Mutant: what is needed is enough, once.
MutFly(l) ==
    LET need == Need(loop[l].send)
        fit  == {o \in Unspent(loop[l].asked) : Amount(o) >= need}
    IN  /\ loop[l].at = "fly"
        /\ \/ \E o \in fit :
                 Goto(l, [loop[l] EXCEPT !.at = "sign", !.src = "fly",
                                         !.ins = {o}, !.outs = <<Amount(o) - need>>])
           \/ fit = {} /\ Goto(l, Idle)
        /\ UNCHANGED <<flags, pool, aged, ledger, counts>>

\* "get cash from unspent outputs on the fly": any large enough output the
\* indexer lists.
Fly(l) ==
    LET need == Need(loop[l].send)
        fit  == {o \in Unspent(loop[l].asked) : Amount(o) > 2 * need}
    IN  /\ loop[l].at = "fly"
        /\ \/ \E o \in fit :
                 Goto(l, [loop[l] EXCEPT !.at = "sign", !.src = "fly",
                                         !.ins = {o}, !.outs = <<Amount(o) - need>>])
           \/ fit = {} /\ Goto(l, Idle)
        /\ UNCHANGED <<flags, pool, aged, ledger, counts>>

\* Every cash output to be created covers its storage deposit.
Covered(r) == \A k \in 1..Len(r.outs) : r.outs[k] >= Deposit

\* Mutant: the transaction id is one ahead of the node's.
MutSubmit(l) ==
    /\ loop[l].at = "sign"
    /\ Covered(loop[l])
    /\ txs' = Append(txs, [owner |-> account, ins |-> loop[l].ins,
                           outs |-> loop[l].outs, src |-> loop[l].src])
    /\ Goto(l, [loop[l] EXCEPT !.at = "answer", !.tx = Len(txs) + 2])
    /\ UNCHANGED <<flags, pool, aged, milestones, dropped, counts>>

\* The transaction is signed and reaches the node, which refuses one with an
\* output below its storage deposit.
Submit(l) ==
    /\ loop[l].at = "sign"
    /\ Covered(loop[l])
    /\ txs' = Append(txs, [owner |-> account, ins |-> loop[l].ins,
                           outs |-> loop[l].outs, src |-> loop[l].src])
    /\ Goto(l, [loop[l] EXCEPT !.at = "answer", !.tx = Len(txs) + 1])
    /\ UNCHANGED <<flags, pool, aged, milestones, dropped, counts>>

\* A request, signing or submitting throws: the command is lost, the pool is
\* left alone.
RequestFails(l) ==
    /\ loop[l].at \in {"unspent", "fly", "sign"}
    /\ Goto(l, Idle)
    /\ UNCHANGED <<flags, pool, aged, ledger, counts>>

CreatedBy(l) == {<<loop[l].tx, k>> : k \in 1..Len(loop[l].outs)}

\* The answer to a consolidation: the hints start over.
AnswerAll(l) ==
    /\ loop[l].at = "answer" /\ loop[l].src = "all"
    /\ AddPending(loop[l].tx, {o \in loop[l].ins : IsCash(o)}, CreatedBy(l))
    /\ hints' = <<>>
    /\ Goto(l, Idle)
    /\ UNCHANGED <<flags, aged, ledger, counts>>

\* The answer to a send: the hint at the remembered index goes.
AnswerSend(l) ==
    /\ loop[l].at = "answer" /\ loop[l].src # "all"
    /\ AddPending(loop[l].tx, loop[l].ins, CreatedBy(l))
    /\ hints' = Splice(hints, loop[l].index)
    /\ Goto(l, Idle)
    /\ UNCHANGED <<flags, aged, ledger, counts>>

\* The transaction reached the node and the answer did not come back.
AnswerLost(l) ==
    /\ LostAnswers
    /\ loop[l].at = "answer"
    /\ Goto(l, Idle)
    /\ UNCHANGED <<flags, pool, aged, ledger, counts>>

-----------------------------------------------------------------------------
Step(l) ==
    \/ CashInit(l) \/ Prepare(l) \/ Retry(l)
    \/ SyncCreated(l) \/ SyncQuiet(l) \/ SyncBatch(l) \/ SyncFails(l)
    \/ Consolidate(l) \/ Split(l) \/ GetCash(l) \/ Fly(l)
    \/ Submit(l) \/ RequestFails(l)
    \/ AnswerAll(l) \/ AnswerSend(l) \/ AnswerLost(l)

Next ==
    \/ \E l \in Loops : Step(l) \/ \E s \in Sends : Send(l, s)
    \/ \E t \in 1..Len(txs) : Confirm(t) \/ Drop(t)
    \/ \E t \in DOMAIN pending : Age(t)
    \/ CoolDown
    \/ Toggle
    \/ \E a \in Accounts : SwitchAddress(a)

Spec == Init /\ [][Next]_vars

\* A loop that stands at an await goes on, time passes, and a node that is
\* asked again and again answers again and again.
Fairness ==
    /\ \A l \in Loops : /\ WF_vars(Step(l))
                        /\ SF_vars(SyncCreated(l)) /\ SF_vars(SyncQuiet(l))
                        /\ SF_vars(SyncBatch(l))
    /\ WF_vars(CoolDown)
    /\ WF_vars(\E t \in DOMAIN pending : Age(t))

FairSpec == Spec /\ Fairness

-----------------------------------------------------------------------------
TxId     == 1..Len(txs)
OutputId == Nat \X Nat
Source   == {"hint", "fly", "all", "none"}
Places   == {"idle", "sync", "batch", "consolidate", "unspent", "getcash", "retry",
             "fly", "sign", "answer"}

\* A synchronization returns to one of its three callers.
Returns  == {"idle", "consolidate", "getcash"}

Transaction ==
    [owner : Accounts, ins : SUBSET OutputId, outs : Seq(Int), src : Source]

Locals ==
    [at : Places, ret : Returns, created : SUBSET OutputId, consumed : SUBSET OutputId,
     toPush : SUBSET OutputId, send : [pay : Nat, extra : Nat], attempt : Nat,
     index : Nat, ins : SUBSET OutputId, outs : Seq(Int), src : Source, tx : Nat,
     asked : Accounts \union {"none"}]

TypeOK ==
    /\ account \in Accounts
    /\ inited \in BOOLEAN /\ cooling \in BOOLEAN /\ preparing \in BOOLEAN
    /\ hints \in Seq(OutputId)
    /\ pending \in [DOMAIN pending -> [inputs : SUBSET OutputId, outputs : SUBSET OutputId]]
    /\ DOMAIN pending \subseteq TxId
    /\ pendingSpent \in [DOMAIN pendingSpent -> TxId]
    /\ pendingCreated \in [DOMAIN pendingCreated -> TxId]
    /\ txs \in Seq(Transaction)
    /\ loop \in [Loops -> Locals]

\* The two indexes of the pending transactions agree with them: an output
\* indexed as spent or as awaited belongs to a transaction that is still
\* pending and lists it, so that settling the transaction clears the index
\* and no output stays blocked by a transaction that is gone.
PendingIndexed ==
    /\ \A o \in DOMAIN pendingSpent :
          /\ pendingSpent[o] \in DOMAIN pending
          /\ o \in pending[pendingSpent[o]].inputs
    /\ \A o \in DOMAIN pendingCreated :
          /\ pendingCreated[o] \in DOMAIN pending
          /\ o \in pending[pendingCreated[o]].outputs

\* One poll loop never holds an output twice among the hints: a hint pushed
\* twice would survive the splice of the send that spends it.
HintsDistinct == IsInjective(hints)

\* An output that a pending transaction spends is no hint, except when that
\* transaction took its cash on the fly (where the splice hits another hint).
OnlyFlyLeavesSpentHints ==
    \A o \in ToSet(hints) \intersect DOMAIN pendingSpent :
        txs[pendingSpent[o]].src = "fly"

\* The remainder hints, and the outputs a loop is about to sign for, are of
\* the account they are used for, whenever switchAddress comes; the exceptions
\* are strays, which a synchronization of the account that was left pushed
\* after the reset, and inputs chosen before the switch.
HintsOwned ==
    /\ \A o \in ToSet(hints) : Owner(o) = account \/ o \in strays
    /\ \A l \in Loops : loop[l].at = "sign" =>
          \A o \in loop[l].ins : Owner(o) = loop[l].asked \/ o \in strays

\* A send that needs less cash than a deposit.  From a hint, which covers its
\* own deposit, a need of nothing is safe.
SmallNeed(r) ==
    /\ r.src # "all" /\ Need(r.send) < Deposit
    /\ r.src = "hint" => Need(r.send) # 0

\* The node accepts what the client is about to sign: each cash output of a
\* split and each remainder of a chain of sends covers its storage deposit.
\* The threshold of twice the need does not ensure it for a send of a small
\* need (the commands that rewrite a list or a profile), the exception here.
RemainderCoversDeposit ==
    \A l \in Loops : loop[l].at = "sign" =>
        Covered(loop[l]) \/ SmallNeed(loop[l])

\* The comment at line 2248 asks that an output already being spent by a
\* pending transaction be no hint.
HintsExcludePendingSpent == ToSet(hints) \intersect DOMAIN pendingSpent = {}

\* The doc of handleTransactionFailure (line 2327) promises that the inputs
\* of a failed transaction return to the pool.
FailureReAddsInputs ==
    [][\A t \in DOMAIN pending \ DOMAIN pending' :
          t \in dropped /\ switches' = switches
             => {o \in pending[t].inputs : o \notin Consumed} \subseteq ToSet(hints')]_vars

\* A transaction does not stay pending for ever: the node confirms it, or it
\* ages and the stale check of a later synchronization removes it, whatever
\* requests fail.
PendingSettles ==
    \A t \in 1..MaxSends + MaxSwitches + 1 :
        t \in DOMAIN pending ~> t \notin DOMAIN pending

\* While a group is open, an output that the ledger has consumed does not
\* remain a hint for ever, even when the answer to its spending was lost.
SpentHintDropped ==
    <>[]preparing =>
        \A k \in 1..Len(Funds) :
            [](<<0, k>> \in ToSet(hints) /\ <<0, k>> \in Consumed
                 => <>(<<0, k>> \notin ToSet(hints)))

-----------------------------------------------------------------------------
(* What the safety properties rest on: the inductive invariants proved in  *)
(* CashPoolProofs.                                                         *)

\* Whatever the client remembers of the ledger has existed.
Known ==
    /\ ToSet(hints) \subseteq Output
    /\ \A l \in Loops : /\ loop[l].created \subseteq Output
                        /\ loop[l].toPush \subseteq Output

\* An answer that is awaited is not of a transaction already recorded, and
\* no two loops await the same one.
Fresh ==
    /\ \A l \in Loops : loop[l].at = "answer" => loop[l].tx \in TxId \ DOMAIN pending
    /\ \A l, m \in Loops : loop[l].at = "answer" /\ loop[m].at = "answer" /\ l # m
                              => loop[l].tx # loop[m].tx

IndexInv == TypeOK /\ Known /\ Fresh /\ PendingIndexed

\* What is about to be pushed is neither a hint nor being spent.
BatchNew ==
    \A l \in Loops : loop[l].at = "batch" =>
        loop[l].toPush \intersect (ToSet(hints) \union DOMAIN pendingSpent) = {}

\* A send remembers where its hint stands, unless the pool was emptied since.
SpendingHint ==
    \A l \in Loops : loop[l].at \in {"sign", "answer"} =>
        /\ loop[l].src = "hint" =>
              \/ hints = <<>>
              \/ loop[l].index \in 1..Len(hints) /\ loop[l].ins = {hints[loop[l].index]}
        /\ loop[l].src = "none" => loop[l].ins = {}
        /\ loop[l].at = "answer" => txs[loop[l].tx].src = loop[l].src

HintInv == HintsDistinct /\ OnlyFlyLeavesSpentHints /\ BatchNew /\ SpendingHint

\* The hints, and what may become one, are cash outputs of the ledger, which
\* cover their deposits.
CoverInv ==
    /\ RemainderCoversDeposit
    /\ \A o \in Output : IsCash(o) => Amount(o) >= Deposit
    /\ \A o \in ToSet(hints) : IsCash(o)
    /\ \A l \in Loops : \A o \in loop[l].created \union loop[l].toPush : IsCash(o)

\* What a synchronization was told is of the account it asked for, and it
\* ends with it; what is signed for exists.
OwnInv ==
    /\ HintsOwned
    /\ \A l \in Loops :
          /\ \A o \in loop[l].created \union loop[l].toPush : Owner(o) = loop[l].asked
          /\ loop[l].at \notin {"sync", "batch"} => loop[l].created = {}
          /\ loop[l].at # "batch" => loop[l].toPush = {}
          /\ loop[l].at = "sign" => loop[l].ins \subseteq Output
=============================================================================
