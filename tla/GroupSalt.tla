------------------------------ MODULE GroupSalt ------------------------------
(***************************************************************************)
(* How the client reads and writes private messages (packages/client).  A  *)
(* message of a private group names a shared output, in which a salt lies  *)
(* encrypted for each recipient.  Salts are cached; callers that need one  *)
(* that is being fetched wait for it; a pushed message whose shared output *)
(* is not on the node yet is kept and looked for every five seconds.       *)
(* Whole pages of messages are converted in a batch.  A sender takes the   *)
(* salt of the group's shared output, or makes a new one.                  *)
(*                                                                         *)
(* Encryption is who can read: a salt is a number, and a key opens what    *)
(* was written for its account.  The node, the service that knows the      *)
(* shared output of a group, and the wallet are external.                  *)
(***************************************************************************)
EXTENDS Integers, Sequences, SequencesExt, FiniteSets

CONSTANTS
    Account, Message, Output,
    Bounds    \* the bounds: records [of: the shared output of each message, {} if it is public;
              \* readers; there: outputs on the node; own: ids of outputs to be made;
              \* pushes: messages; batches: sequences of messages; sends, switches, fails, moves]

VARIABLES
    account,    \* whose pairX the client holds
    ledger,     \* shared outputs the node knows
    saltOf,     \* the salt in a shared output
    readers,    \* the recipients of a shared output
    service,    \* the shared output of the group: {} or {o}
    cache,      \* _sharedSaltCache: {} or {salt} of each output
    failed,     \* _sharedSaltFailedCache
    waiting,    \* outputs with an entry in _sharedSaltWaitingCache
    recovering, \* _sharedNotFoundRecoveringMessage: [of, payload], in the order they came
    recovery,   \* the pass over them: {} or {[at, keys, seen]}
    toRead,     \* payloadToBeProcessed: what the pass has still to read
    calls,      \* messages being read: [msg, by, source, at, key]
    batch,      \* batchConvertOutputIdsToMessages: {} or {[at, asked, by, ...]}
    send,       \* sendMessage: {} or {[at, of, salt]}
    sent,       \* messages sent: [of, salt]
    pushed,     \* history: messages pushed
    delivered,  \* history: <<message, account>> read
    excused,    \* history: messages the push path dropped
    straddled,  \* history: outputs whose salt was on its way when accounts were switched, or made
                \* by an account that is not a recipient
    salts,      \* salts made so far
    left        \* what is left of the bounds

world == <<ledger, saltOf, readers, service>>
saltVars == <<cache, failed, waiting>>
pushVars == <<recovering, recovery, toRead, calls, pushed, excused>>
sendVars == <<send, sent, salts>>
vars == <<account, ledger, saltOf, readers, service, cache, failed, waiting, recovering, recovery, toRead, calls,
          batch, send, sent, pushed, delivered, excused, straddled, salts, left>>

BoundType ==
    [of : [Message -> SUBSET Output], readers : [Output -> SUBSET Account], there : SUBSET Output,
     own : SUBSET Output, pushes : SUBSET Message, batches : SUBSET Seq(Message),
     sends : Nat, switches : Nat, fails : Nat, moves : Nat]

ASSUME BoundsAssumption ==
    /\ Bounds \subseteq BoundType
    /\ \A b \in Bounds, m \in Message : \A x, y \in b.of[m] : x = y

Uses(c) == left[c] > 0 /\ left' = [left EXCEPT ![c] = @ - 1]
Of(m) == left.of[m]

Init ==
    /\ left \in Bounds
    /\ account \in Account
    /\ ledger = left.there /\ saltOf = [o \in Output |-> o] /\ readers = left.readers /\ service = {}
    /\ cache = [o \in Output |-> {}] /\ failed = {} /\ waiting = {}
    /\ recovering = <<>> /\ recovery = {} /\ toRead = <<>> /\ calls = {} /\ batch = {} /\ send = {} /\ sent = {}
    /\ pushed = {} /\ delivered = {} /\ excused = {} /\ straddled = {} /\ salts = 0

\* What an address finds of itself in a shared output, opened with the key
\* the client holds.
Readable(o, by, key) == by \in readers[o] /\ by = key

-----------------------------------------------------------------------------
(* Reading one message, for a push or for the recovery.                    *)

PayloadOf(list) == {p.msg : p \in UNION {ToSet(list[i].payload) : i \in DOMAIN list}}

Delivers(m, by) == delivered' = delivered \union {<<m, by>>}

\* What throws ends the recovery it is read for, with all that is left of it.
Throws(m, source) ==
    /\ excused' = excused \union {m} \union
           (IF source = "push" THEN {} ELSE {p.msg : p \in ToSet(toRead)})
    /\ recovery' = IF source = "push" THEN recovery ELSE {}
KeepReading == toRead' = IF recovery' = {} THEN <<>> ELSE toRead

Fetching(o) == {c \in calls : c.at \in {"fetch", "decrypt"} /\ o \in Of(c.msg)}
Waiters(os) == {c \in calls : c.at = "waits" /\ Of(c.msg) \subseteq os}
Wake(cs, os, how) == {IF c \in Waiters(os) THEN [c EXCEPT !.at = how] ELSE c : c \in cs}

\* getMessageFromMetafeaturepayloadAndSender, up to its first wait.
Reads(m, by, source) ==
    LET o == Of(m)
        Call(where) == calls' = calls \union {[msg |-> m, by |-> by, source |-> source, at |-> where, key |-> {}]}
    IN  \/ /\ o = {} \/ (o \cap failed = {} /\ \E p \in o : cache[p] # {})
           /\ Delivers(m, by)
           /\ UNCHANGED <<calls, waiting, excused, recovery>>
        \/ /\ o \cap failed # {}
           /\ Throws(m, source)
           /\ UNCHANGED <<calls, waiting, delivered>>
        \/ /\ o \cap failed = {} /\ \E p \in o : cache[p] = {}
           /\ IF o \subseteq waiting THEN Call("waits") ELSE Call("fetch")
           /\ waiting' = waiting \union o
           /\ UNCHANGED <<delivered, excused, recovery>>

\* A message names an output of this client only once that is made.
Written(m) == Of(m) \cap left.own \subseteq ledger

Push(m) ==
    /\ m \in left.pushes \ pushed /\ Written(m)
    /\ pushed' = pushed \union {m}
    /\ Reads(m, account, "push")
    /\ UNCHANGED <<account, world, cache, failed, recovering, toRead, batch, sendVars, straddled, left>>

\* The node does not know the output: the payload is kept.  Who waits is
\* not told.
NotFound(c) ==
    LET p == [msg |-> c.msg, by |-> c.by]
        o == CHOOSE x \in Of(c.msg) : TRUE
        known == {i \in DOMAIN recovering : recovering[i].of = o}
    IN  /\ recovering' = IF known = {} THEN Append(recovering, [of |-> o, payload |-> <<p>>])
                         ELSE [i \in DOMAIN recovering |->
                                  IF i \in known THEN [recovering[i] EXCEPT !.payload = Append(@, p)]
                                  ELSE recovering[i]]
        /\ IF c.source = "push" THEN UNCHANGED <<excused, recovery>>
           ELSE recovery' = {} /\ excused' = excused \union {q.msg : q \in ToSet(toRead)}

\* Any other failure is passed on to who waits.
Rejects(c, o) ==
    /\ calls' = Wake(calls \ {c}, o, "rejected")
    /\ waiting' = waiting \ o
    /\ Throws(c.msg, c.source)

\* Mutant: a message whose shared output is not found is not kept.
MutFetchAnswered(c) ==
    /\ c \in calls /\ c.at = "fetch"
    /\ calls' = calls \ {c}
    /\ UNCHANGED <<recovering, excused, recovery, toRead, waiting, account, world, cache, failed, batch,
                   sendVars, pushed, delivered, straddled, left>>

FetchAnswered(c) ==
    /\ c \in calls /\ c.at = "fetch"
    /\ \/ /\ Of(c.msg) \subseteq ledger
          /\ calls' = (calls \ {c}) \union {[c EXCEPT !.at = "decrypt", !.key = {account}]}
          /\ UNCHANGED <<recovering, excused, recovery, waiting, left>>
       \/ /\ Of(c.msg) \cap ledger = {}
          /\ NotFound(c)
          /\ calls' = calls \ {c}
          /\ UNCHANGED <<waiting, left>>
       \/ Uses("fails") /\ Rejects(c, Of(c.msg)) /\ UNCHANGED recovering
    /\ KeepReading
    /\ UNCHANGED <<account, world, cache, failed, batch, sendVars, pushed, delivered, straddled>>

Decrypted(c) ==
    /\ c \in calls /\ c.at = "decrypt"
    /\ LET o == Of(c.msg)
       IN  IF \A p \in o, k \in c.key : Readable(p, c.by, k)
           THEN /\ cache' = [p \in Output |-> IF p \in o THEN {saltOf[p]} ELSE cache[p]]
                /\ waiting' = waiting \ o
                /\ calls' = Wake(calls \ {c}, o, "resolved")
                /\ Delivers(c.msg, c.by)
                /\ UNCHANGED <<excused, recovery>>
           ELSE Rejects(c, o) /\ UNCHANGED <<cache, delivered>>
    /\ KeepReading
    /\ UNCHANGED <<account, world, failed, recovering, batch, sendVars, pushed, straddled, left>>

\* Who waits is answered, or gives up after five seconds.
WaitEnds(c) ==
    /\ c \in calls /\ c.at \in {"waits", "resolved", "rejected"}
    /\ calls' = calls \ {c}
    /\ IF c.at = "resolved" THEN Delivers(c.msg, c.by) /\ UNCHANGED <<excused, recovery>>
       ELSE Throws(c.msg, c.source) /\ UNCHANGED delivered
    /\ KeepReading
    /\ UNCHANGED <<account, world, saltVars, recovering, batch, sendVars, pushed, straddled, left>>

-----------------------------------------------------------------------------
(* The recovery, every five seconds unless it is still at it.              *)

RecoveryBegins ==
    /\ recovery = {} /\ recovering # <<>>
    /\ recovery' = {[at |-> "query", keys |-> [i \in DOMAIN recovering |-> recovering[i].of],
                     seen |-> ledger]}
    /\ UNCHANGED <<account, world, saltVars, recovering, toRead, calls, batch, sendVars, pushed, delivered,
                   excused, straddled, left>>

\* The outputs are asked for one by one; nothing happens while none is found.
\* Else one that is not found is given up at the first look, since its last
\* check counts as made at time zero; and one that cannot be read ends the
\* pass, with the ones after it, every time.
RecoveryQueried(r) ==
    /\ r \in recovery /\ r.at = "query"
    /\ \E found \in SUBSET (ToSet(r.keys) \cap ledger) :
          LET Item(o) == recovering[CHOOSE i \in DOMAIN recovering : recovering[i].of = o]
              bad == {i \in DOMAIN r.keys : /\ r.keys[i] \in found
                                            /\ ~Readable(r.keys[i], Item(r.keys[i]).payload[1].by, account)}
              upTo == {i \in DOMAIN r.keys : \A b \in bad : i < b}
              good == {r.keys[i] : i \in upTo} \cap found
              gone == {r.keys[i] : i \in upTo} \ found
          IN  /\ ToSet(r.keys) \cap r.seen \subseteq found
              /\ IF found = {} THEN /\ recovery' = {}
                                    /\ UNCHANGED <<failed, waiting, calls, excused, toRead>>
                 ELSE /\ failed' = failed \union gone
                      /\ waiting' = waiting \ good
                      /\ calls' = Wake(calls, good, "resolved")
                      /\ IF bad # {}
                         THEN /\ recovery' = {}
                              /\ excused' = excused \union PayloadOf(recovering)
                              /\ UNCHANGED toRead
                         ELSE /\ excused' = excused \union
                                     PayloadOf(SelectSeq(recovering, LAMBDA x : x.of \in gone))
                              /\ recovery' = {[r EXCEPT !.at = "replace"]}
                              /\ toRead' = FlattenSeq([i \in DOMAIN r.keys |->
                                     IF r.keys[i] \in good THEN Item(r.keys[i]).payload ELSE <<>>])
    /\ UNCHANGED <<account, world, cache, recovering, batch, sendVars, pushed, delivered, straddled, left>>

\* The list is replaced by what is left of it: what was added meanwhile is
\* lost.
RecoveryReplaces(r) ==
    /\ r \in recovery /\ r.at = "replace"
    /\ recovering' = <<>>
    /\ excused' = excused \union (PayloadOf(recovering) \ {p.msg : p \in ToSet(toRead)})
    /\ recovery' = {[r EXCEPT !.at = "read"]}
    /\ UNCHANGED <<account, world, saltVars, toRead, calls, batch, sendVars, pushed, delivered, straddled,
                   left>>

\* They are read one after the other.
RecoveryReads(r) ==
    /\ r \in recovery /\ r.at = "read" /\ \A c \in calls : c.source = "push"
    /\ IF toRead = <<>>
       THEN recovery' = {} /\ UNCHANGED <<calls, waiting, delivered, excused, toRead>>
       ELSE /\ Reads(Head(toRead).msg, Head(toRead).by, "recovery")
            /\ toRead' = IF recovery' = {} THEN <<>> ELSE Tail(toRead)
    /\ UNCHANGED <<account, world, cache, failed, recovering, batch, sendVars, pushed, straddled, left>>

-----------------------------------------------------------------------------
(* A page of messages.                                                     *)

batchRest == <<account, world, failed, waiting, pushVars, sendVars>>
Among(list, ms) ==
    LET kept[i \in 0..Len(list)] == IF i = 0 THEN <<>>
                                    ELSE IF list[i] \in ms THEN Append(kept[i - 1], list[i]) ELSE kept[i - 1]
    IN  kept[Len(list)]
Deliver(b, ms) == [b EXCEPT !.done = @ \o Among(b.asked, ms)]
BatchDelivers(b, ms) == delivered' = delivered \union {<<m, b.by>> : m \in ms}

BatchBegins(list) ==
    /\ list \in left.batches /\ (\A m \in ToSet(list) : Written(m)) /\ (batch = {} \/ \E b \in batch : b.at = "ended")
    /\ left' = [left EXCEPT !.batches = @ \ {list}]
    /\ batch' = {[at |-> "outputs", asked |-> list, by |-> account, done |-> <<>>, failed |-> {}, late |-> {},
                  found |-> {}, key |-> {}, missing |-> {}, cached |-> {}, absent |-> {}]}
    /\ UNCHANGED <<batchRest, cache, delivered, straddled>>

\* What needs no salt is handed on at once.
BatchOutputs(b) ==
    /\ b \in batch /\ b.at = "outputs"
    /\ \E missing \in SUBSET ToSet(b.asked) :
          LET clear == {m \in ToSet(b.asked) \ missing : Of(m) = {}}
          IN  /\ IF missing = {} THEN UNCHANGED left ELSE Uses("fails")
              /\ batch' = {[Deliver(b, clear) EXCEPT !.at = "salts", !.missing = missing, !.failed = missing]}
              /\ BatchDelivers(b, clear)
    /\ UNCHANGED <<batchRest, cache, straddled>>

\* Then what has its salt in the cache, in order; whatever failed before is
\* asked for again.
BatchCached(b) ==
    /\ b \in batch /\ b.at = "salts"
    /\ LET private == {m \in ToSet(b.asked) \ b.missing : Of(m) # {}}
           cached == {m \in private : \A o \in Of(m) : cache[o] # {}}
       IN  /\ batch' = {[Deliver(b, cached) EXCEPT !.at = IF cached = private THEN "ended" ELSE "shared",
                                                   !.cached = cached, !.late = private \ cached]}
           /\ BatchDelivers(b, cached)
    /\ UNCHANGED <<batchRest, cache, straddled, left>>

\* The shared outputs are fetched, or the batch throws.
BatchShared(b) ==
    /\ b \in batch /\ b.at = "shared"
    /\ LET wanted == UNION {Of(m) : m \in b.late}
       IN  \/ /\ batch' = {[b EXCEPT !.at = "decrypt", !.found = wanted \cap ledger, !.key = {account},
                                      !.absent = wanted \ ledger]}
              /\ UNCHANGED left
           \/ Uses("fails") /\ batch' = {}
    /\ UNCHANGED <<batchRest, cache, delivered, straddled>>

\* Mutant: what was given up is taken for missing.
MutBatchDecrypted(b) ==
    /\ b \in batch /\ b.at = "decrypt"
    /\ LET open == {o \in b.found \ failed : \A k \in b.key : Readable(o, b.by, k)}
           ms == {m \in b.late : Of(m) \subseteq open}
       IN  /\ cache' = [o \in Output |-> IF o \in open THEN {saltOf[o]} ELSE cache[o]]
           /\ batch' = {[Deliver(b, ms) EXCEPT !.at = "ended", !.failed = @ \union (b.late \ ms),
                                               !.absent = @ \union {o \in b.found : \A k \in b.key :
                                                                       ~Readable(o, b.by, k)}]}
           /\ BatchDelivers(b, ms)
    /\ UNCHANGED <<batchRest, straddled, left>>

BatchDecrypted(b) ==
    /\ b \in batch /\ b.at = "decrypt"
    /\ LET open == {o \in b.found : \A k \in b.key : Readable(o, b.by, k)}
           ms == {m \in b.late : Of(m) \subseteq open}
       IN  /\ cache' = [o \in Output |-> IF o \in open THEN {saltOf[o]} ELSE cache[o]]
           /\ batch' = {[Deliver(b, ms) EXCEPT !.at = "ended", !.failed = @ \union (b.late \ ms),
                                               !.absent = @ \union (b.found \ open)]}
           /\ BatchDelivers(b, ms)
    /\ UNCHANGED <<batchRest, straddled, left>>

-----------------------------------------------------------------------------
(* Sending: one message, or the preload of a group's salt, at a time.      *)

sendRest == <<account, failed, waiting, pushVars, batch, delivered>>

Sends ==
    /\ send = {} /\ Uses("sends")
    /\ send' = {[at |-> "ask", of |-> {}, salt |-> 0, by |-> account, key |-> {}]}
    /\ UNCHANGED <<sendRest, straddled, world, cache, sent, salts>>

\* A message is written with a salt and names the output it is in; with
\* none, when the group has too many members, it is public.
Finish(of, salt) == send' = {} /\ sent' = sent \union {[of |-> of, salt |-> salt]}
MakeShared(d) == send' = {[d EXCEPT !.at = "create", !.salt = 10 + salts]} /\ salts' = salts + 1

ServiceAnswers(d) ==
    /\ d \in send /\ d.at = "ask"
    /\ \/ /\ service = {} /\ MakeShared(d) /\ UNCHANGED <<sent, left>>
       \/ /\ \E o \in service : IF cache[o] # {} THEN \E salt \in cache[o] : Finish({o}, salt)
                                ELSE /\ send' = IF o \in failed THEN {} ELSE {[d EXCEPT !.at = "fetch", !.of = {o}]}
                                     /\ UNCHANGED sent
          /\ UNCHANGED <<salts, left>>
       \/ Uses("fails") /\ (Finish({}, 0) \/ (send' = {} /\ UNCHANGED sent)) /\ UNCHANGED salts
    /\ UNCHANGED <<sendRest, straddled, world, cache>>

\* If the output is not found, or cannot be fetched or read, a new one is
\* made.
SharedFetched(d) ==
    /\ d \in send /\ d.at = "fetch"
    /\ \/ /\ d.of \subseteq ledger /\ send' = {[d EXCEPT !.at = "decrypt", !.key = {account}]}
          /\ UNCHANGED <<salts, left>>
       \/ d.of \cap ledger = {} /\ MakeShared(d) /\ UNCHANGED left
       \/ Uses("fails") /\ MakeShared(d)
    /\ UNCHANGED <<sendRest, straddled, world, cache, sent>>

SharedDecrypted(d) ==
    /\ d \in send /\ d.at = "decrypt"
    /\ IF \A o \in d.of, k \in d.key : Readable(o, d.by, k)
       THEN (\E o \in d.of : Finish(d.of, saltOf[o])) /\ UNCHANGED salts
       ELSE MakeShared(d) /\ UNCHANGED sent
    /\ UNCHANGED <<sendRest, straddled, world, cache, left>>

\* Mutant: the message names the output the service knew.
MutSharedSent(d) ==
    /\ d \in send /\ d.at = "create"
    /\ \/ /\ \E o \in left.own \ ledger :
                /\ ledger' = ledger \union {o}
                /\ saltOf' = [saltOf EXCEPT ![o] = d.salt] /\ cache' = [cache EXCEPT ![o] = {d.salt}]
                /\ straddled' = straddled \union (IF account \in readers[o] THEN {} ELSE {o})
                /\ Finish(IF d.of = {} THEN {o} ELSE d.of, d.salt)
          /\ UNCHANGED left
       \/ Uses("fails") /\ send' = {} /\ UNCHANGED <<ledger, saltOf, cache, sent, straddled>>
    /\ UNCHANGED <<sendRest, readers, service, salts>>

\* The new output is sent first: its id is what the message names.  Its salt
\* is cached, whoever the recipients are and whoever the account is by then.
SharedSent(d) ==
    /\ d \in send /\ d.at = "create"
    /\ \/ /\ \E o \in left.own \ ledger :
                /\ ledger' = ledger \union {o}
                /\ saltOf' = [saltOf EXCEPT ![o] = d.salt] /\ cache' = [cache EXCEPT ![o] = {d.salt}]
                /\ straddled' = straddled \union (IF account \in readers[o] THEN {} ELSE {o})
                /\ Finish({o}, d.salt)
          /\ UNCHANGED left
       \/ Uses("fails") /\ send' = {} /\ UNCHANGED <<ledger, saltOf, cache, sent, straddled>>
    /\ UNCHANGED <<sendRest, readers, service, salts>>

-----------------------------------------------------------------------------
(* The node, the service and the wallet.                                   *)

Appears(o) ==
    /\ o \in UNION {Of(m) : m \in pushed} \ (ledger \union left.own)
    /\ ledger' = ledger \union {o}
    /\ UNCHANGED <<account, saltOf, readers, service, saltVars, pushVars, batch, sendVars, delivered, straddled,
                   left>>

ServiceMoves(o) ==
    /\ {o} # service /\ Uses("moves")
    /\ service' = {o}
    /\ UNCHANGED <<account, ledger, saltOf, readers, saltVars, pushVars, batch, sendVars, delivered, straddled>>

\* Shared outputs of messages that are being read, or kept, for the account.
UnderWay ==
    UNION {Of(m) : m \in {c.msg : c \in calls} \union PayloadOf(recovering) \union {p.msg : p \in ToSet(toRead)}
                         \union UNION {ToSet(b.asked) : b \in batch}}
        \union UNION {d.of : d \in send}

\* Mutant: the salts are kept.
MutSwitchAddress(a) ==
    /\ a # account /\ Uses("switches")
    /\ account' = a
    /\ straddled' = straddled \union UnderWay
    /\ UNCHANGED <<world, cache, failed, waiting, pushVars, batch, sendVars, delivered>>

\* The salts are dropped; what is on its way is not.
SwitchAddress(a) ==
    /\ a # account /\ Uses("switches")
    /\ account' = a
    /\ cache' = [o \in Output |-> {}]
    /\ straddled' = straddled \union UnderWay
    /\ UNCHANGED <<world, failed, waiting, pushVars, batch, sendVars, delivered>>

-----------------------------------------------------------------------------
Recovers == RecoveryBegins \/ \E r \in recovery : RecoveryQueried(r) \/ RecoveryReplaces(r) \/ RecoveryReads(r)
Answers(c) == FetchAnswered(c) \/ Decrypted(c) \/ WaitEnds(c)
BatchStep == \E b \in batch : BatchOutputs(b) \/ BatchCached(b) \/ BatchShared(b) \/ BatchDecrypted(b)
SendStep == \E d \in send : ServiceAnswers(d) \/ SharedFetched(d) \/ SharedDecrypted(d) \/ SharedSent(d)

Next ==
    \/ \E m \in Message : Push(m)
    \/ \E c \in calls : Answers(c)
    \/ Recovers \/ BatchStep \/ SendStep \/ Sends
    \/ \E list \in left.batches : BatchBegins(list)
    \/ \E o \in Output : Appears(o) \/ ServiceMoves(o)
    \/ \E a \in Account : SwitchAddress(a)

Spec ==
    /\ Init /\ [][Next]_vars
    /\ WF_vars(Recovers) /\ WF_vars(\E c \in calls : Answers(c))
    /\ WF_vars(\E o \in Output : Appears(o))

-----------------------------------------------------------------------------
\* Whatever is in the cache for an output is the salt in it, and a message
\* is written with the salt of the output it names, so that the recipients
\* of that output can read it.
SaltsAreRight ==
    /\ \A o \in Output : \A s \in cache[o] : s = saltOf[o] /\ o \in ledger
    /\ \A w \in sent : \A o \in w.of : w.salt = saltOf[o]

\* A message is read only for an account that its shared output was written
\* for, also after accounts were switched; unless the salt was on its way
\* then, or was made here for others.
ReadersOnly ==
    \A d \in delivered : \A o \in Of(d[1]) : d[2] \in readers[o] \/ o \in straddled

\* A batch answers for each message once: read, in the order asked for among
\* those without salt, with a cached and with a fetched one; or failed, and
\* then the message or its shared output was not there or not for this
\* account, whatever the push path has given up.
BatchAnswers ==
    \A b \in batch : b.at = "ended" =>
        LET stage(m) == IF Of(m) = {} THEN 1 ELSE IF m \in b.cached THEN 2 ELSE 3
            place(m) == CHOOSE i \in DOMAIN b.asked : b.asked[i] = m
        IN  /\ ToSet(b.done) \union b.failed = ToSet(b.asked)
            /\ Len(b.done) + Cardinality(b.failed) = Len(b.asked)
            /\ \A i, j \in DOMAIN b.done : i < j => \/ stage(b.done[i]) < stage(b.done[j])
                                                   \/ /\ stage(b.done[i]) = stage(b.done[j])
                                                      /\ place(b.done[i]) < place(b.done[j])
            /\ \A m \in b.failed \ b.missing : Of(m) \cap b.absent # {}

\* A pushed message is read, also when its shared output comes to the node
\* later; unless a request failed, it is not for the account, it waited for
\* one that was not found, or the recovery lost it: given up as another was
\* found, added while the list was replaced, or next to one that throws.
PushedArrives ==
    \A m \in Message : m \in pushed ~> (m \in excused \/ \E a \in Account : <<m, a>> \in delivered)
=============================================================================
