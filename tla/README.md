# Formal models of the GroupFi SDK

TLA+ models of the stateful core of GroupFi-SDK, the TLC instances that check
them and the theorems TLAPS proves about them. The SDK is TypeScript: one
thread, so an `async` function runs alone between two awaits, and everything
that can go wrong goes wrong at an await, a timer, a callback, a failed request
or a closed page. All modules follow one rule: an await splits a method into
the action before it and the action after it, and what happens between two
awaits is one action.

## The system

| Part | Code (`src/packages`) | State | Operations | Hard because | Modules |
|---|---|---|---|---|---|
| Cash pool | `client/src/index.ts` | remainder hints, pending transactions and two indexes of them, flags | spend a hint, spend on the fly, submit, synchronize with the indexer, consolidate, stale check, switch address | every step awaits the node; answers get lost; an index is kept across awaits | `CashPool` |
| Poll loop | `chat/src/util/thread.ts` | stop, drain and pause flags, one resolve callback, one stop callback, timers | start, pause, resume, stop, drain, destroy | timers outlive what they were set for; a stop gives up after three seconds | `ThreadHandler` |
| Event source | `chat/src/domain/EventSourceDomain.ts` | anchor, pending list, dirty flags, and their copies in local storage | poll (command, catch up, convert, store), pushed items, start, pause, stop | two awaited writes, failing requests, closed pages, a stop that clears memory before the loop has ended | `EventSource` |
| Message hub | `MessageHubDomain.ts` | message store (cache and disk) | drop the known, store, pass on | the only place where duplicates are dropped; the store is written later | `MessageHub` |
| Conversations | `ConversationDomain.ts` | chunked message lists | insert by time, split, page | readers hold a chunk key across a split | `Conversation`, `Paging`, `Board` |
| Inbox | `InboxDomain.ts` | group order, last message, unread counts | receive, clear, set, store | an update that is not awaited; counts at their limit | `Inbox` |
| Read positions | `GroupMemberDomain.ts`, `facade`, `client` | times of reading in memory, in a state output, in waiting outputs | merge, sync by a low-priority task, fetch | four copies of one fact | `GroupStateSync` |
| Group members | `GroupMemberDomain.ts` | public groups, marks, standing, configs, member lists, dirty sets | events, refreshes, stores | flags cleared after an await; caches cleared beside the loop | `GroupMember` |
| Output sending | `OutputSendingDomain.ts`, `MesssageAggregateRootDomain.ts`, `facade`, `client` | command queue, callback fields, mute map, lists on the ledger | join, leave, mark, mute, like, vote, send, choose a profile | results share one event; callback fields shared by concurrent calls; another device | `UserLists` |
| Session | `facade`, `client`, `SharedContext.ts`, `OutputSendingDomain.ts`, proxy modes | who the program acts for: account, mode, key, proxy account, profile | account change, load, decrypt, register, store | five holders of one fact, changed while a loop is in a step | `Session` |
| Salts and conversion | `client/src/index.ts` | salts of shared outputs, waiters, messages to recover | push, recover, batch, send | a shared output may come later, or is for another | `GroupSalt` |
| Mapping caches | `client/src/nameMappingCache.ts`, `AddressMappingStore.ts` | cache, callbacks, pending set | batched get | one timer drops the callbacks of all waiters | `MappingCache` |
| Storage | `StorageManager.ts`, `repository`, `CombinedStorageService.ts` | address list, prefix, write-behind cache | get, write behind, clean, evict an address | scans while removing; a prefix read at call time | `StorageManager`, and each user of the cache |
| Connections | `core/src`, `facade`, `client` | node url, initialization promise, MQTT client and topics | initialize, retry, refresh, subscribe | parts of a failed attempt end late | `Connection` |
| Pipes and queues, codecs, adapters, embedding, demos | `util/src`, `core/src`, `walletembed`, `demoweb` | - | - | layout, cryptography, examples | not modelled |

How they interact. The application calls the lifecycle facade
(`MesssageAggregateRootDomain`), which starts, resumes, pauses and stops every
domain. Each domain owns a poll loop and input channels. Messages flow from
the node through the event source (fetched or pushed), are converted by the
client, which finds the salt they are encrypted with, and checked against the
facade's mute map; they go to the hub, which passes each new one to the inbox
and to its conversation. Events go to the group members. Commands of the user
go to output sending, whose loop also decides who the user is (session) and
drives the cash pool: with a command it sends, without one it initialises,
synchronizes and consolidates, and runs the low-priority tasks that write read
positions to the ledger. All domains share one local storage, whose keys carry
the current address. A change of account in the wallet reaches the facade, the
client, the context, the prefix and the loops, one after the other.

Each interaction is a module of its own or is in the module of the receiver:
`UserLists` has the calls with the loop, the client, the ledger and the events
that come back; `Session` the wallet, facade, client, context, storage and
loop; `Inbox` extends `GroupStateSync` by the domain that reads and writes the
times; `Conversation` extends `MessageHub`, and `Paging` extends
`Conversation`.

## The modules

### CashPool (`MCCashPool`, `CashPoolProofs`)

The client's pool of cash outputs together with the ledger as the node reports
it. `hints` is `_remainderHintSet`; `pending`, `pendingSpent` and
`pendingCreated` are `_pendingTransactions` and its two indexes; `loop[l]` is
where a poll loop stands and its local variables.

| Action | Code |
|---|---|
| `CashInit`, `Prepare`, `Retry` | `cashInit`, `prepareRemainderHint`, the retries of `_tryGetCashFromRemainderHint`, each up to the request for the address's outputs |
| `SyncCreated`, `SyncQuiet`, `SyncBatch`, `SyncFails` | `synchronizeUTXOPool` up to its second request, without one, after it, and failed; then `checkForStaleTransactions` |
| `Consolidate`, `Split` | `consolidateIfNeeded` before and after its request |
| `Send`, `GetCash`, `Fly` | a command, the choice of a hint, the choice of an unspent output |
| `Submit`, `AnswerAll`, `AnswerSend`, `AnswerLost`, `RequestFails` | signing and submitting, and what may come back |
| `Toggle`, `SwitchAddress`, `Age`, `CoolDown`, `Confirm`, `Drop` | the application, time and the network |

External: the ledger. A transaction confirms when its inputs are unspent, or is
dropped; the indexer tells what is confirmed and consumed. Left out:
`resetAllRemainderHints` after a fresh registration and the extra outputs that
low-priority tasks attach. The answer to a synchronization lists outputs in any
order, so the order in which hints are pushed is free. `strays` is history: the
outputs that a synchronization pushed after the account it had asked for was
left.

### ThreadHandler (`Services`, `LoopProofs`)

The poll loop of every domain, over several starts. Run r is the r-th start,
with its loop and its stop. `pauseResolve` is whose pause `_pauseResolve` ends,
`stoppedCallback` whose stop `_stoppedCallback` settles; both are single fields
that a later run overwrites, and the timers that refer to them are never
cleared. The caller awaits a stop before the next start, as the facade does.

### EventSource (`LoopProofs`)

Item i is the i-th item of the inbox and the token that follows it. `es` is
where the loop stands. `Fetch`, `Answer`, `PendingSaved`, `AnchorSaved` are the
catch-up between its awaits; `EmptyAnswer`, `FetchFails` and `SaveFails` its
other endings; `Consume`, `HandOver`, `Mute`, `Fails`, `BatchThrows`,
`BatchDone` one batch; `Persist`, `Persisted` the storing of the emptied list;
`Push` and `AddToFront` what comes in beside the loop; `Start`, `Resume`,
`Pause`, `Stop` and `Crash` the life of the domain. `handled`, `missed`,
`emitted` and `early` are history variables; `early` has the events that were
seen before the anchors had passed them, pushed or in a page that could not be
stored. External: the inbox, which answers with at
most `PageSize` items after the token and with a token only when it answers
with items (the code takes a missing token to mean "no data").

Left out: the set of group ids that asks for splits of conversations, and the
profile events, which pass although they were seen. That pending messages are
stored again after three seconds cannot happen while there are any, because
the poll returns before it gets there; the module has only the other branch.

### MessageHub, Conversation, Paging (`Device`, `MCDevice`, `Board`)

The way of a message into its conversation. `MessageHub` has the hub's poll
(`Drop`, `PassOn`), its store (`known` is the cache, `knownDisk` local storage)
and `timers`, the zero timers that are set, in order: the writes of
`setSingleThreaded` and the ends of `sleepYield`. `Conversation` extends it by
`ConversationDomain`: `Insert` enters a message by time, `SplitFirst` and
`SplitAgain` are `_splitFirstChunkIfNecessary` without and with an older split
chunk, `NoSplit` the short chunk, `TrySplit` the command of the event source,
`ReadDisk` and `ReadDone` a read of a chunk by the application on both sides of
its await, `HubStop`, `ConvStop` and `Close` the end of a domain and of the
page. `cache` and `disk` hold the chunks by key. `Paging` adds a reader:
`Open` asks for the latest messages, `Page` for the next older one by the
message and the chunk key of the last.

Three details carry the weight. A timer serializes its object when it fires, so
a chunk changed meanwhile is written as changed (`Changed`). A `TrySplit` does
not give way: the loop polls again in the same turn of the event loop, or
pauses for longer than the writes take (`Commanded`, `convGoesOn`). And a read
that finds no cached chunk puts what local storage answered over what was
cached meanwhile. `harmed` records that memory was lost before it was written:
a page closed with anything under way, a cache cleared or overwritten that was
ahead of local storage.

Two `TrySplit` commands may be queued (`MaxSplits = 2`), and then two splits
run before a write of either is done. The second names its new part as the tail
of the first chunk's object, which has left the cache but not its timer
(`_splitFirstChunkIfNecessary`, line 280): the timer stores a first chunk that
leads to a part not stored yet. A write whose object has left the cache has the
kind "past" (`Replaced`), `inTurn` counts the splits since the loop last gave
way, and `torn` records that memory was lost between such writes. What is kept
then may lead nowhere, or back into itself, where a reader pages without end.
This was found as the proof of `ChainStored` was tried with one command at a
time lifted; the models had excluded it by their bound.

`Board` is the abstract specification: a message joins at most once, those
shown keep their order, only after harm may an older state come back, and
nothing is promised once memory was torn. That `Conversation` implements it
(`IsBoard`), with `shown` mapped to the concatenated chunks, says that a split
is a stuttering step.

Simplified: one group; a chunk's key is its content (the hash is taken to be
injective); the store that backs local storage applies calls in order; the
caches never evict (50 entries, while at most a handful are ahead of local
storage); a page of the reader has one message. External: what the event
source hands over, which is any message at any time, again and again. Left
out: reading towards newer messages, and the read position of the conversation
that is open in the user interface (a debounced write of what `Inbox` models).

### GroupStateSync, Inbox (`MCInbox`, `InboxProofs`)

Which messages of a group were read is a time per group, and that time has
copies: in the cached groups of the inbox (`group[g].read`), in memory
(`items`), in the state output on the ledger (`ledger`), in the answer to a
request in flight (`asked`) and in outputs that wait in the client for the next
transaction (`temps`). `GroupStateSync` has the low-priority task that writes
it (`task`, `sending`), transactions that fail, events and fetches, and other
devices. `Inbox` adds the domain: `TakeMessage`, `AdjustDone` (the update of
the list that nobody awaits), `SaveList`, `SaveGroups`, `Command`, `Clean`,
`GetInbox`, `ClearUnreadCount`, `SetUnreadCount`, the write timers
(`FireWrite`), `Stop`, `LoopEnds`, `Start` and `Close`. Each use of a group
merges the cached groups with the times in memory, in `WithGroups`.

`seen` and `astray` are history. `astray` names the groups stored while the
list was not, and those placed on it while another update of it waited for
local storage: the code can lose these from the list. Where the code filters a
group out of the list the model takes it out once (`Without`), which is the
same for a list that holds no group twice; `ListRight` proves that it does not.

### GroupMember (`MCGroupMember`, `GroupMemberProofs`)

The loop that asks the service for the included groups, the marked ones, the
standing of the address in each, which are public, and read positions; each
refresh is an action before its request and one after (`BootAnswered`,
`ForMeAnswered`, `MarkedAnswered`, `DirtyAnswered`, `PublicPersisted`,
`MarkedPersisted`). Standings and read positions are asked
for beside a step (`beside` of it, `BesideAnswered`), and when one of these
requests, or the step's own, fails (`RefreshFails`) the others stay in flight
and are answered whenever that is (`late`, `LateAnswered`): after the step, the
loop or the account. `Stop` clears the caches and then the loop drains, that is
it polls until nothing is due (`Rests`), and may fill them again; `refilled`
is the history of what was filled after it was cleared. That a stop gives up
after three seconds is `ThreadHandler`'s; here `Start` waits for the loop.
Beside the loop: events (`HandleEvent`, `WorldChanges`), requests for member lists
(`EnterGroup`, `ReadMembers`, `MembersAnswered`, `MembersFail`), configs with
their waiting callers (`WaitForConfig`, `WaitTimesOut`, `WarmedUp`), the
application (`Start`, `Stop`, `LogIn`, `SwitchAccount`, `SetIncludes`,
`PauseAndResume`) and time. Left out: the token range of public messages and
the flags the user interface sets per group.

### UserLists (`MCUserLists`, `UserListsProofs`)

A call of the lifecycle facade puts a command on the channel and registers a
listener for the event that says it happened (`Call`); the loop takes one
command at a time (`Begin`), asks the indexer for the output that holds the
list (`ReadOutput`), the INX service for its content (`ReadList`), and submits
an output with the changed list in the place of the first (`Submit`), which
confirms or is refused; the event comes back (`Deliver`). `field` is the
callback field that calls of one kind share, `answer` which command settled a
call. Mutes toggle the facade's map as well, messages are shown at once
(`ShowMessage`). Another device changes the lists with `Foreign`.

### Session (`MCSession`, `SessionProofs`)

Who the program acts for. `wallet`, `facade`, `client`, `ctx`, `os` and
`storage` each hold a part of it; `step` is where the loop of output sending
waits. The changes of the wallet (`WalletChanges`, `AccountsChanged`,
`MetaMaskAccountChanged`, `ProxyAnswered`), the application (`Stop`, `Start`),
the user (`CallLogin`, `CallRegister`) and the loop's steps interleave; the
loop loads a key from storage and checks it (`Poll`, `CheckStored`), asks the
service (`ServiceAnswers`), decrypts or registers, stores, gets the profiles
and says that the user can chat. On the way each gate ends the step and is met
again by the next poll, as in `poll` (OutputSendingDomain 511-542): `CashInit`
and `ConsolidateIfNeeded` after a switch of the address, outside delegation
mode `CheckBalance`, at least 10 SMR at the proxy account (`funded`), and
`PrepareOrClean`, which takes a step for hints or an expired task. `works`
bounds these steps; the code makes one every five seconds, and one for each
task that expired. A stopped loop drains (`Rests`), and `Start` waits for it:
the time-out of a stop is `ThreadHandler`'s. A key is a record of the address it was made
for and a number, so that two registrations of one address differ (`NewKey`).

`moved`, `crossed`, `swapped`, `late` and `tainted` are history. `tainted` are
the addresses that a loop of the account before has written to, after the
facade moved: a second command to register, still queued when the account
changes, registers the old account's key for the new address. `crossed` says
that such a loop told the facade and the client its own proxy account after the
switch to a shimmer account had given them theirs. Both were found as the
proofs of `StoredIsOwn` and `ReadyIsRight` were tried, and are now among the
scenarios.

### GroupSalt (`MCGroupSalt`, `GroupSaltProofs`)

A message names a shared output in which a salt lies encrypted for each
recipient. `Push` and `Answers` read one message, `Recovers` is the pass every
five seconds over messages whose shared output was not there, `BatchStep` the
conversion of a page in three rounds, `SendStep` a sender that takes the
group's salt or makes one. Encryption is modelled as who can read: `Readable`.
What a stage of a batch hands on is the messages of the page that it has the
salts of, in the order of the page (`Among`, a recursive function).

### MappingCache, Connection, ThreadHandler together (`Services`, `MCServices`, `LoopProofs`)

`MappingCache` has the callers of both caches, with a timer each and one
debounced fetch; `Connection` up to three attempts to initialize, each with a
node manager and a client, the url and its refresh, and the MQTT topics.
`Services` composes them with `ThreadHandler`. They share no variable, so what
one does is the same whatever the others do, and in `MCServices` one part moves
in each behaviour (`part`); the bounds of the others are then those
of `NamesIdle` and `ConnectionIdle`. Fairness of an idle part is met because
none of its fair actions is enabled, and a mutant of each part makes the run
fail, so the properties are not true for want of behaviours.

### StorageManager (`Device`, `MCDevice`, `DeviceProofs`)

The hashes of the accounts with their last use, the first page's cleaning
after an update (`CleanStorageEntry`, `CleaningEnds`), the eviction
(`AddAddressHash`, `DeleteEntry`, `EvictionEnds`), writes under the prefix of
the account in use, and pages that close. `MCDevice` composes it with `Paging`
as `MCServices` does. In `MCDevice` a reader is not followed once memory was
harmed, which `PagesComplete` excuses.

## The runs

The newer modules take their bounds as one CONSTANT `Bounds`, a set of records;
`Init` chooses one and `left` counts down what is left of it. Each record is a
scenario: it names which calls, changes, failures and stops can happen, how
often, and TLC takes them in every order. One run then covers scenarios that
would be too large in one product.

| Run | Question | Instance |
|---|---|---|
| `CashPoolSafe` | do the indexes agree, is no hint held twice, which sends leave a spent hint, does every remainder cover its deposit, are hints and inputs of the account they are used for | one loop, two accounts, sends and switches, two in all, a switch at any await; a send needs a deposit, half of one, nothing, or has more than it pays, as the commands that rewrite a list do; lost answers, drops, ageing |
| `CashPoolLive` | does every pending transaction settle, does every spent hint go | one send, failing requests, lost answers |
| `EventSourceSafe` | does an anchor ever pass a message not dealt with, is an event skipped | two pages or more, two events between two messages, one muted, one garbled; one stop, logout, push and crash; failing writes |
| `EventSourceLive` | is every message handed over | two events and a message, pages of two, one stop, pause, logout and crash |
| `InboxSafe` | does a group stay on the list, is what is unread counted, do syncs lose anything, does what was read stay read | two groups, three messages out of order, two readings, two transactions that may fail, another device, a stop or closed page: five scenarios |
| `UserLists` | is an update of a list lost, is a call answered by its own command, does each call settle | each kind of command twice (sends three times), a command of another device, a failure: seven scenarios |
| `Session` | is who can chat ready as who they are, is anything stored for another, does who has a key, or 10 SMR in shimmer mode, get to chat | mixes of the three modes, two addresses, two account changes, log-in, registration here and elsewhere, with and without 10 SMR, SMR that come later, steps for hints, a failure: ten scenarios |
| `GroupMember` | is what is held of the account in use, do member lists and all others catch up | two groups, two accounts, changes of each kind of fact, a switch, two failures, a waiting caller: ten scenarios |
| `GroupSalt` | is a salt right, does only a recipient read, does a batch answer once and in order, does a pushed message arrive | three messages in three shared outputs, there, late or never, for another account; a batch, sends, a switch, a failure: five scenarios |
| `Services` | how many loops, can a pause be ended, is a stopped domain quiet, does a resumed one poll; is each caller answered; do topics follow; does initialization end | loop: two runs, three calls; names: three callers, a batch, a failure, a slow request; connections: three attempts, two failures, a url that moves, three changes of topics |
| `Device` | is a message listed once, is anything lost, is the chain of chunks whole, is it a board, does a reader see everything, is data kept that can be evicted, and that in use | three messages, two of the same time, handed over four times, chunks of one, two splits in a row, a stop, reads, a closed page; three accounts, what older pages left, three switches, two writes |
| `NodeUrl` | (violated) a stored url is tried first | as `Services`, a call of the loop |

Why the bounds are enough. Two sends suffice for two transactions on one output
and for a splice that finds the hints moved. Two runs of a domain give an old
loop next to a new one. Three items on pages of two give a full page, a half
page and an empty one, with an event alone on a page or before a message. Three
messages in chunks of one give two splits, hence a chunk in the middle of the
chain, and the fourth hand-over a repetition. Two commands on one list and a
foreign one give each pair of reads and writes that can cross; a third send
shows two waiters and one that comes after. Two accounts and two changes give a
change, a change back and two that cross. Three callers give a waiter whose
callback another's timer deletes while a third asks for another key. Three
accounts with room for two give an eviction, and a return of the evicted. What
the instances cannot show, any number of these, the theorems do for the parts
they are about.

### What the code does not do

The violated run: `NodeUrl`. `fetchUrlFromBackend` reads the stored url under
the prefix of the storage, `fetchFromApi` stores it without (nodeManager.ts 29
and 58), so a page never finds it, though the comment above says "First try to
get from storage immediately".

Properties that a comment or documentation states and the code does not meet
are in their modules, and no run checks them:

* `HintsExcludePendingSpent` (`CashPool`): a send that finds its oldest hint
  too small takes an output on the fly and then removes the hint it rejected
  (`_sendBasicOutput`, the splice under "Remove the spent UTXO from
  _remainderHintSet using the index"). If the output it spent is itself a hint,
  it stays one. `OnlyFlyLeavesSpentHints` says that nothing else does.
* `FailureReAddsInputs` (`CashPool`): `handleTransactionFailure` does not
  re-add the inputs, as its documentation says; the next synchronization may.
* `OnePollAtATime` (`ThreadHandler`): `_stop` resolves after three seconds even
  if the poll has not ended; the next start clears the flag the old loop was to
  see, and both poll.
* `SplitHeadKey` (`Conversation`): the first split of a group sets neither key
  of the split chunk, although the comment above says "hence headKey is
  HeadKey"; reading from that chunk towards the head ends in it.
* `ResetOnChange` (`GroupStateSync`): `_fetchGroupState` resets the flag of the
  used output only if there was an output before; the first one fetched after
  a sync leaves it set, unlike its comment says.
* `MuteMapAgrees` (`UserLists`): the mute map is loaded and toggled after the
  transaction was sent; loaded once the transaction has confirmed, the map has
  the mute and the toggle takes it out.

Other properties hold with an exception that names what the code loses; the
history variable says when. These are the defects the exceptions stand for:

| Property | Exception |
|---|---|
| `AnchorCovered` | holds for `BusyStop = FALSE`: a stop while a fetch is under way empties the list in memory, then the loop stores the new page alone and moves the anchor |
| `EventsTaken` | `early`: `handleIncommingEvent` leaves the page at the first event it has seen, which was pushed, or came in a page that could not be stored; those behind it on the page are dropped, no others |
| `NothingLost`, `IsBoard` | `harmed`: a page closed after the hub stored a message and before its list was written loses the message, since the hub drops it ever after |
| `ChainStored`, `IsBoard` | `torn`: the second of two splits in a row changes the first chunk whose write is due, and memory lost between the writes leaves a chain that is broken, cyclic or has messages twice; two commands are queued if the event source empties its list twice before the loop polls |
| `HintsOwned` | `strays`: a switch during a synchronization leaves the outputs of the account before to be pushed as hints (client 272-295); and inputs chosen before a switch are signed for after it |
| `RemainderCoversDeposit` | `SmallNeed`: of a send that needs less than a deposit (lists, likes, votes and profiles replace an output by one of about its size, client 2763-2766 and 2862-2866) twice the need does not leave a deposit behind (2180, 2212), and the node refuses the transaction; as the oldest hint is always tried first, the next such send meets it again |
| `PagesComplete` | `again`: a reader whose chunk was split is shown the latest messages again |
| `Listed` | `astray`: two updates of the list at once, or a group stored without the list |
| `NoLostUpdate` | `split`: two unspent outputs hold one list, as after two first entries at once; and profiles, which are written without reading |
| `OwnAnswer`, `CallSettles` | `crowded`: calls of one kind that overlap share a callback field or an event; `lost`: commands that failed or did nothing leave their call waiting |
| `ReadyIsRight`, `StoredIsOwn` | `moved`, `crossed`, `late`, `tainted`: the facade moves while the loop of the old account is in a step or has a command queued, or an answer comes in the next session; `swapped`: impersonation mode takes `mmProxyAddress` for `tp` (OutputSendingDomain 639) |
| `LoginCompletes` | `funded`: without 10 SMR at the address a session in shimmer mode waits for ever (OutputSendingDomain 122-143), which the code means it to; and a request for the profiles that failed is not made again in the session |
| `OfAccount` | `refilled`: caches are cleared before the loop has stopped (GroupMemberDomain 515-521), its drain and late answers fill them for the account that is left, and `start` does not clear them; a standing is right again once the loop has refreshed it, read positions once an event asks for them |
| `MembersCatchUp` | an event that comes when the answer is on its way is dropped |
| `AnsweredInTheEnd` | `dropped`, `Stranded`: a timer deletes the callbacks of others; or finds the key there and says nothing |
| `AccountsKept` | `skipped`: the scan's index moves on while keys are removed; `excused`: an account that comes back as it is evicted, a hash overwritten by the load |
| `TopicsFollow` | `steady`: a new MQTT client, or a resume, does not subscribe again |
| `ReadersOnly`, `PushedArrives` | `straddled`, `excused`: a salt on its way when accounts are switched; a message added while the list to recover is replaced |

Smaller things seen on the way that no property is about: unmuting hashes the
lowercased address (facade 1557), muting and liking the address as it is
(1499); commands left in a channel survive a stop and a start; the token range
of a group's public messages is stored under one key of its cache and read
under another (GroupMemberDomain 657-664), so its first change on a page is
stored as an empty range, and the cache is kept when accounts are switched; the
unread count of a group passes its maximum by one (InboxDomain 225).

## Fairness

* `CashPool`: an `async` function that can go on does; requests may fail, but
  not for ever when repeated (strong fairness of the answers); time passes.
  Liveness is claimed only while something is pending or a group is open,
  which is when the loop synchronizes at all.
* `ThreadHandler`: timers fire and resolved promises continue (weak fairness);
  a poll that is called again and again finds nothing to do now and then
  (strong fairness of `PollEmpty`).
* `EventSource`: the loop goes on, the application starts and resumes the
  domain and the user logs in (weak); of repeated requests some succeed and
  the four seconds pass although the loop keeps polling (strong). No fairness
  is assumed of the items, stops, pauses, logouts and crashes.
* `UserLists`: the loop goes on, the mute map is asked for, the ledger decides
  on what was sent, its events come (weak). None of calls, failures, other
  devices.
* `Session`: the loop and the requests for profiles go on, time passes (weak).
  None of the wallet, the user, the application.
* `GroupMember`: the application starts the domain, the loop, the warm-ups and
  the member requests go on, requests that a failed step left in flight are
  answered, time passes (weak).
* `GroupSalt`: the recovery's timer fires, requests are answered, a shared
  output that was sent comes to the node (weak).
* `MappingCache`: the debounced fetch, the answers and the timers (weak).
  `Connection`: answers, the application's call and the reading of a url
  (weak). None of pauses, resumes or changes of topics.
* `Inbox`, `Conversation`, `Paging`, `StorageManager`: none; only safety is
  claimed of them.

Failures are bounded in each scenario: the number of failed requests is finite,
so weak fairness of a retried request is enough there.

## The proofs

All theorems are proved by TLAPS for every value of the constants, under the
assumptions stated in the modules and the hypotheses stated in the theorems.
The assumptions say what the constants are: sets are finite, sizes positive,
`Funds` a sequence of outputs, each scenario in `Bounds` a record of sets and
numbers (`BoundsAssumption`), an account its address and mode
(`AccountAssumption`), a message one in at most one shared output. Hypotheses
are named where they matter. In each module the theorem of types comes first,
since every other proof rests on it; the steps of an invariant that leave its
variables alone are one lemma (`Same...`, `...Still`), the others one lemma
each. Induction over data takes an operator as parameter, which the provers
cannot instantiate; what a recursive function computes (the messages `Among` a
page, say) is proved by the least index at which the claim fails, of which the
well-foundedness of the naturals says that there is one.

* `CashPoolProofs`. `IndexInv` is `TypeOK`, that loops know only existing
  transactions, that the transaction about to be recorded is fresh, and
  `PendingIndexed`; it is inductive for any number of loops and accounts, with
  switches at any await. It is needed because `PendingIndexed` is disturbed
  only when an answer records a transaction, and then only freshness keeps the
  entries of older transactions. `HintInv` is `HintsDistinct`,
  `OnlyFlyLeavesSpentHints` and two facts about loop variables: the outputs
  to be pushed after the second request are not hints, and the hint chosen by a
  send is still at its index, unless a switch emptied the pool. It is proved
  for one loop (`OneLoop`), with switches at any await. `CoverInv` adds to
  `RemainderCoversDeposit` that hints, and what a synchronization was told, are
  cash outputs, and that these cover their deposits: those there at first by
  `DepositAssumption`, since a ledger holds no others, those made later because
  what is signed does. `OwnInv` adds to `HintsOwned` that what a synchronization
  was told is of the account it asked for (`asked`) and forgotten as it ends.
  Both hold for any number of loops, with switches at any await.
  `Split` has the conjunct `total \in Nat`, true of every
  state, because the sum is a fold that the provers cannot induct over.
* `LoopProofs`, the poll loop. `CountInv` bounds the settled stops by the
  ended loops: a loop settles at most one stop, whosever it is, and ends when it
  does; so loops alive are at most one plus the stops that timed out. `WakeInv`
  says that without a time-out the single resolve field names the paused loop
  and a timer is outstanding, and that a settled stop's own loop is done.
* `LoopProofs`, connections. `TopicsInv` says which topics the page takes for
  subscribed while the first synchronized client is there.
* `DeviceProofs`, storage. `AccountsInv` follows each scan of the storage: what lies before its index
  has been dealt with (`Covered`), or was stepped over as an entry before it
  went and is named; and every hash that is stored is tracked. The hypotheses
  are that the mark of foreign data is no account and that old data consists of
  entries. `AccountsKeptProperty` is both an invariant and an action property.
* `DeviceProofs`, messages. The induction is over `TypeOK`, `TurnInv`,
  `FreshInv`, `ChainInv` and `HoldInv`, in which each part rests on those before
  it. `TurnInv` says what may be under way while a domain waits: the end of its
  pause is behind the writes, so that without splits in a row none is left when
  it goes on. `FreshInv` says that what the conversation has yet to insert is in
  no chunk, written or about to be, and that what a chunk lists is known on
  disk by the time the chunk is stored. `ChainInv` holds until memory is torn:
  there are positions of the messages for which each chunk, cached, stored, read
  or about to be stored, is in order and behind its tail, and a chunk about to be
  stored names a tail that is stored before it. The positions are what keeps the
  chain from running back into itself; they are not the times, since a late
  message enters the first chunk however old it is, so that each insertion finds
  new ones (`Spaced`). They are needed because "the chain leads to stored chunks"
  says nothing of the walk along it, which is a recursive function: that the walk
  ends follows since positions fall (`KeysEnd`). `ChainStored` needs no more.
  `HoldInv` says that as long as nothing was lost local storage will hold what is
  in the cache once its writes are done; hence stops, reads and closed pages are
  not seen. What the walk finds after an insertion or a split (`ShownInsert`,
  `ShownSplitFirst`, `ShownSplitAgain`) gives `IsBoard`, and with `KeptInv`, that
  what is known waits for its insertion or is shown, `NothingLost`.
  `PagerInv` is about whoever pages through the messages, and rests on these:
  what he has got and what is `Ahead` of him, in his chunk before the message he
  is at and in the chunks behind it, cover what was shown as he began, and the
  two are apart unless he lost his place. It is needed because his place is a
  message and a key: insertions and splits shift both the index of the one and
  what the other leads to. A place is lost only by a split of the chunk under
  `HeadKey`, which the number of chunks shows. `PagesComplete` follows.
* `LoopProofs`, the event source. `CoverInv` says that both anchors are covered by the
  stored list, that while there is a loop both are covered by the list in
  memory, and that at each await the local copy is still the list in memory and
  covers the token about to be stored. "Covered up to k" means that each
  message up to k is in the list or has been handed over, found muted or given
  up. The stored anchor alone is not inductive: the loop overwrites the stored
  list with its copy of memory, and start loads the stored list back. The
  assumption `BusyStop = FALSE` is used in one step, `Stop`. `EventInv` adds to
  `EventsTaken` the anchor in memory and the token of the page under way, and
  that events seen that are not `early` lie before the page that is asked for,
  so that whatever stops the loop over its events is early and on that page. It
  needs no hypothesis: pushes, failing writes and stops at any await are in it.
* `InboxProofs`. `CountInv` states `UnreadCounted` of the cached and the stored
  copy of a group and that no message is later than its latest. `MergedInv`
  says that the times in memory are no earlier than those of the output in
  memory, hence that a sync forgets none; it holds with any switch. `OnceInv`
  adds that parts take outputs up to the one in memory, and that one only once
  it is marked as used, and that what is being fetched is not older; the
  hypothesis `BusyRestart = FALSE` is used where an account is left, which
  clears the mark. `ListInv` relates four copies of the list, in memory, in
  storage, and in the updates that wait, up to the groups that are `astray`,
  and the groups that are cached, stored and about to be written to them; it
  needs `Fits`, that the list has room for every group, since a full list drops
  its last.
* `UserListsProofs`. `UpdateInv` says that a list that was never in two unspent
  outputs is in the newest output only, and that what a command is about to
  send, or a transaction holds, is the list in the output it takes with the
  command's entry changed, as long as that output is unspent. `AnswerInv` says
  that a command that will still emit its event has its listener, and that of
  two calls that could answer each other both are known as `crowded`.
* `SessionProofs`. `OwnInv` states that what the session and its step hold is
  of its account, and what is registered for an address is of the address,
  unless it is tainted; `StoredIsOwn` alone is not inductive, since what is
  stored comes from both. `ReadyInv` adds where the loop is and what it has found
  by then (`StationInv`, `FlowInv`) and what facade and client were told
  (`ToldInv`, `ShimmerInv`): the fields of the facade and the client are never
  cleared on a change of account, so that "ready" is right only since the loop
  always tells them before.
* `GroupSaltProofs`. `SaltInv` follows the output a salt was read from to where
  it is used. `ReadInv` says of everything under way, the calls, batches,
  messages to recover and salts in the cache, that it is for the account or its
  output is `straddled`. `AnswersInv` describes a batch at each stage: what was
  handed on is exactly the messages without a salt, then those with a cached
  one, and the rest is late or failed; the page has no message twice.
* `GroupMemberProofs`. `AccountInv` says that the step the loop waits in is of
  the account (`Right`), that marks asked for, held or stored are of the account
  they are of (`MarksInv`), and that of standings and read positions, but for
  those `refilled`, a running domain holds only its account's and one that does
  not run none (`HeldInv`). The last part is what a start needs, which clears
  nothing. Every action is of one of two kinds, `Turns`, which leave what is held
  alone, and `Fills`, which learn one thing about one account; each kind keeps
  the invariant by one lemma. `GroupAssumption` says that `Positions`, the name
  of the read positions among what is refilled, is no group.

Only model-checked: all liveness, which no prover here handles, and the
properties of `MappingCache`, which are of that kind.

## Not modelled, and the plan

Left out of the parts that are modelled:

* Cash pool: `resetAllRemainderHints` after a fresh registration, and the extra
  outputs that low-priority tasks attach (a send that brings its own outputs
  stands for them).
* Event source: the group ids kept for splits, the profile events.
* Public history: `AddToFront` has its effect on the pending list. The token
  range it keeps is left out: what the service takes a start token, an end
  token and a direction to mean is not to be had from the code, which uses them
  in two ways (ConversationDomain 197-202 and 392).
* Conversations: reading towards newer messages, events for the user
  interface, the read position of the open conversation.
* Caches: the linked list of the LRU cache and its eviction. Its users hold
  fewer entries than it has room for.
* Lifecycle facade: the order in which one call starts and stops the domains;
  the domains do not call one another, and each is modelled with a start and a
  stop at any time.
* `Connection` has `setupMqttConnection` called once, as the application does.
* `Session`: the cache of profiles of others.

Not modelled: cryptography, byte codecs, HTTP and wallet adapters, uploads and
demo pages, which keep no state that a step of another part could invalidate,
or whose content is layout; the wallet embedding, an older entry point to the
same client; the pipes and the batch runner, which the client imports and never
uses; the serial queue of `clientMode.ts`, which lets one wallet signature at a
time through, where no two wait in these models.

What would come next: the LRU cache as a refinement of a sequence, and the
lifecycle facade with two domains, for the order of starts and stops.

## Running

From this directory, `tlc -config Device.cfg MCDevice` and likewise for the
other pairs (`PROJECT.json` lists them); each run ends within four minutes on
two workers. `tlapm CashPoolProofs.tla` checks the proofs of a module.
