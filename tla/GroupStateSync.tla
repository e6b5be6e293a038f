--------------------------- MODULE GroupStateSync ---------------------------
(***************************************************************************)
(* Which messages of a group an address has read is kept in one output of  *)
(* the address, its state output, so that its other devices learn of it.   *)
(* GroupMemberDomain (packages/chat/src/domain/GroupMemberDomain.ts) holds *)
(* the content of the output and the output itself; a change of a time of  *)
(* reading sets a low-priority task in the facade, which runs when the     *)
(* user sends something or when it is due and nothing else is to be sent;  *)
(* the outputs it makes wait in the client for the next transaction.       *)
(*                                                                         *)
(* A time 0 stands for no time: the code cannot tell them apart.  Output   *)
(* i is the i-th state output of the ledger, 0 is no output.  The commands *)
(* of the user and the due tasks run in one loop, that of                  *)
(* OutputSendingDomain, so that one sends at a time.                       *)
(***************************************************************************)
EXTENDS Integers, Sequences, FiniteSets

CONSTANTS
    Group,        \* the groups
    MaxTime,      \* bound: the clock, in seconds
    SendFails,    \* a transaction may fail to be sent
    BusyRestart,  \* the account may be left and entered again while a sync is under way
    Bounds        \* the bounds: records that say how often each may happen in a behaviour
                  \* (sends, foreigns: syncs of other devices)

VARIABLES
    now,       \* the clock
    ledger,    \* the state outputs in order: what they hold and whether they are spent
    notice,    \* an event of a new state output is on its way
    items,     \* _groupStateSyncs.items
    source,    \* _groupStateSyncs.outputWrapper
    used,      \* _isGroupStateSyncOutputUsed
    inited,    \* _isGroupStateSyncInited
    shouldLoad,\* _shouldLoadGroupState
    asked,     \* the answer to the request in flight: {} or {output}
    task,      \* the low-priority task: "none", "waits" or "due"
    sending,   \* the loop that sends: "no", "user" (a command) or "clean" (a due task)
    temps,     \* _tempCreatedOutputs and _tempConsumedOutputs of the client
    sent,      \* transactions that are neither confirmed nor refused
    left       \* what is left of the bounds

ledgerVars == <<ledger, notice>>
stateVars  == <<items, source, used, inited, shouldLoad, asked>>
sendVars   == <<sending, temps, sent>>
syncVars   == <<now, ledger, notice, items, source, used, inited, shouldLoad, asked,
                task, sending, temps, sent, left>>

NoTimes == [g \in Group |-> 0]
Later(a, b) == IF a > b THEN a ELSE b
Latest(f, h) == [g \in Group |-> IF g \in DOMAIN h THEN Later(f[g], h[g]) ELSE f[g]]

Unspent == {i \in DOMAIN ledger : ~ledger[i].spent}

\* The node answers with the newest state output.
Newest == IF Unspent = {} THEN 0 ELSE CHOOSE i \in Unspent : \A j \in Unspent : i >= j

\* An address may have a state output of an earlier session.
SyncInit ==
    /\ now = 0
    /\ ledger \in {<<>>, <<[items |-> NoTimes, spent |-> FALSE]>>}
    /\ notice = FALSE
    /\ items = NoTimes /\ source = 0 /\ used = FALSE /\ inited = FALSE
    /\ shouldLoad = FALSE /\ asked = {}
    /\ task = "none" /\ sending = "no" /\ temps = <<>> /\ sent = {}
    /\ left \in Bounds

Uses(c) == left[c] > 0 /\ left' = [left EXCEPT ![c] = @ - 1]

Tick ==
    /\ now < MaxTime
    /\ now' = now + 1
    /\ UNCHANGED <<ledgerVars, stateVars, task, sendVars, left>>

-----------------------------------------------------------------------------
(* The times in memory.  reads gives the time of reading of each group in  *)
(* the cache of InboxDomain.                                               *)

HasChanges(reads) == \E g \in DOMAIN reads : items[g] = 0 \/ items[g] < reads[g]

\* Mutant: a later time in memory does not reach the group.
MutCorrected(times, reads) == reads

\* What the cached groups then hold, where times are those in memory.
Corrected(times, reads) == [g \in DOMAIN reads |-> Later(times[g], reads[g])]

\* _syncGroupState: a change sets the task anew.
SyncGroupState(reads) ==
    /\ items' = Latest(items, reads)
    /\ task' = IF HasChanges(reads) THEN "waits" ELSE task
    /\ UNCHANGED <<source, used, inited, shouldLoad, asked>>

\* syncGroupStateTimestamps, the task: one output per output fetched.
SyncTimestamps(reads) ==
    /\ items' = Latest(items, reads)
    /\ temps' = IF used THEN temps ELSE Append(temps, [items |-> items', takes |-> source])
    /\ used' = TRUE
    /\ UNCHANGED <<source, inited, shouldLoad, asked>>

-----------------------------------------------------------------------------
(* Transactions.  Whatever waits in the client goes with the next one and  *)
(* is forgotten at once.                                                   *)

Send ==
    /\ Uses("sends")
    /\ sent' = IF temps = <<>> THEN sent ELSE sent \union {temps}
    /\ temps' = <<>>

SendThrows ==
    /\ SendFails
    /\ temps' = <<>>
    /\ UNCHANGED <<sent, left>>

\* A command of the user begins: a task that waits goes with it.
UserCommand(reads) ==
    /\ sending = "no" /\ left.sends > 0
    /\ sending' = "user"
    /\ IF task = "none" THEN UNCHANGED <<stateVars, temps>> ELSE SyncTimestamps(reads)
    /\ task' = "none"
    /\ UNCHANGED <<now, ledgerVars, sent, left>>

\* It sends its own outputs and those that wait, or it fails before that.
UserSends ==
    /\ sending = "user"
    /\ sending' = "no"
    /\ \/ Send \/ SendThrows
       \/ SendFails /\ UNCHANGED <<temps, sent, left>>
    /\ UNCHANGED <<now, ledgerVars, stateVars, task>>

Expire ==
    /\ task = "waits"
    /\ task' = "due"
    /\ UNCHANGED <<now, ledgerVars, stateVars, sendVars, left>>

\* An idle poll finds the task due.
CleanExpired(reads) ==
    /\ sending = "no" /\ task = "due" /\ left.sends > 0
    /\ SyncTimestamps(reads)
    /\ sending' = "clean"
    /\ UNCHANGED <<now, ledgerVars, task, sent, left>>

\* The transaction was sent, or it failed, or there was nothing to send.
\* The key is deleted last, with a task that was set in between.
Cleaned ==
    /\ sending = "clean"
    /\ sending' = "no"
    /\ task' = "none"
    /\ IF temps = <<>> THEN UNCHANGED <<temps, sent, left>> ELSE Send \/ SendThrows
    /\ UNCHANGED <<now, ledgerVars, stateVars>>

Takes(tx)  == {tx[k].takes : k \in DOMAIN tx} \ {0}
Made(tx)   == [k \in DOMAIN tx |-> [items |-> tx[k].items, spent |-> FALSE]]
Spend(ids) == [i \in DOMAIN ledger |-> [ledger[i] EXCEPT !.spent = @ \/ i \in ids]]

Confirm(tx) ==
    /\ tx \in sent /\ Takes(tx) \subseteq Unspent
    /\ sent' = sent \ {tx}
    /\ ledger' = Spend(Takes(tx)) \o Made(tx)
    /\ notice' = TRUE
    /\ UNCHANGED <<now, stateVars, task, sending, temps, left>>

Refuse(tx) ==
    /\ tx \in sent /\ ~(Takes(tx) \subseteq Unspent)
    /\ sent' = sent \ {tx}
    /\ UNCHANGED <<now, ledgerVars, stateVars, task, sending, temps, left>>

\* Another device of the address, which has the newest output, reads g.
Foreign(g) ==
    /\ now > 0 /\ Uses("foreigns")
    /\ LET old == IF Newest = 0 THEN NoTimes ELSE ledger[Newest].items
           new == [items |-> [old EXCEPT ![g] = Later(@, now)], spent |-> FALSE]
       IN  ledger' = Append(Spend({Newest}), new)
    /\ notice' = TRUE
    /\ UNCHANGED <<now, stateVars, task, sendVars>>

-----------------------------------------------------------------------------
(* The output is fetched with the groups of the user, until it has been    *)
(* fetched once, and after each event of a new one.                        *)

EventArrives ==
    /\ notice
    /\ notice' = FALSE
    /\ shouldLoad' = TRUE
    /\ UNCHANGED <<now, ledger, items, source, used, inited, asked, task, sendVars, left>>

FetchState ==
    /\ asked = {} /\ (shouldLoad \/ ~inited)
    /\ asked' = {Newest}
    /\ UNCHANGED <<now, ledgerVars, items, source, used, inited, shouldLoad, task, sendVars, left>>

\* Mutant: the times in memory are kept, with the new output.
MutFetched ==
    /\ asked # {} /\ asked # {0}
    /\ \E new \in asked :
           /\ used' = (used /\ (source = 0 \/ source = new))
           /\ source' = new
    /\ inited' = TRUE /\ shouldLoad' = FALSE /\ asked' = {}
    /\ UNCHANGED <<now, ledgerVars, items, task, sendVars, left>>

\* The output and its times replace those in memory, times of this device
\* that are not on the ledger included.
Fetched ==
    /\ asked # {} /\ asked # {0}
    /\ \E new \in asked :
           /\ used' = (used /\ (source = 0 \/ source = new))
           /\ source' = new
           /\ items' = ledger[new].items
    /\ inited' = TRUE /\ shouldLoad' = FALSE /\ asked' = {}
    /\ UNCHANGED <<now, ledgerVars, task, sendVars, left>>

\* No answer, or one without an output.
FetchEmpty ==
    /\ asked # {}
    /\ asked' = {}
    /\ UNCHANGED <<now, ledgerVars, items, source, used, inited, shouldLoad, task, sendVars, left>>

\* cacheClear, when the account is left.  The task and the outputs that wait
\* in the client stay.
ClearState ==
    /\ BusyRestart \/ (sent = {} /\ temps = <<>> /\ asked = {} /\ sending = "no")
    /\ items' = NoTimes /\ source' = 0 /\ used' = FALSE /\ inited' = FALSE
    /\ UNCHANGED <<shouldLoad, asked>>

SyncNext ==
    \/ Tick \/ UserSends \/ Expire \/ Cleaned
    \/ EventArrives \/ FetchState \/ Fetched \/ FetchEmpty
    \/ \E tx \in sent : Confirm(tx) \/ Refuse(tx)
    \/ \E g \in Group : Foreign(g)

-----------------------------------------------------------------------------
Times == [Group -> Nat]

SyncTypeOK ==
    LET Part == [items : Times, takes : 0..Len(ledger)]
    IN  /\ now \in 0..MaxTime
        /\ ledger \in Seq([items : Times, spent : BOOLEAN])
        /\ items \in Times /\ source \in 0..Len(ledger)
        /\ {notice, used, inited, shouldLoad} \subseteq BOOLEAN
        /\ asked \subseteq 0..Len(ledger) /\ \A m, n \in asked : m = n
        /\ task \in {"none", "waits", "due"} /\ sending \in {"no", "user", "clean"}
        /\ temps \in Seq(Part) /\ sent \subseteq Seq(Part) \ {<<>>}

\* The parts of transactions that wait, or that the ledger may still confirm.
Parts == UNION {{tx[k] : k \in DOMAIN tx} : tx \in sent \union {temps}}

\* A sync that takes the place of an output knows all the times that output
\* held: what another device has read is not unread by this one.
MergedNotLost ==
    \A p \in Parts : p.takes # 0 => \A g \in Group : p.items[g] >= ledger[p.takes].items[g]

\* No two transactions of this device take the same output: the ledger would
\* refuse the second, and with it the message the user sent along.  Only a
\* sync of another device may make one fail.
ConsumedOnce ==
    LET Txs == sent \union {temps}
    IN  /\ \A t, u \in Txs : t # u => Takes(t) \intersect Takes(u) = {}
        /\ \A t \in Txs : \A j, k \in DOMAIN t : j # k => t[j].takes # t[k].takes \/ t[j].takes = 0

\* GroupMemberDomain.ts:1181 "case outputid changed" and :1185 "outputId
\* changed, reset _isGroupStateSyncOutputUsed to false": with each change of
\* the output the next sync is free to use it.
ResetOnChange == [][source' # source => ~used']_syncVars
=============================================================================
