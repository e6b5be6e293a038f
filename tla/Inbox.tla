------------------------------- MODULE Inbox -------------------------------
(***************************************************************************)
(* InboxDomain (packages/chat/src/domain/InboxDomain.ts): the list of the  *)
(* groups of the user by their latest message, and of each group its       *)
(* latest message, the number of unread messages and the time of reading.  *)
(* Each use of a group merges the times of reading of the cached groups    *)
(* with the state output (GroupStateSync).                                 *)
(*                                                                         *)
(* A group is a cached object over local storage (CombinedStorageService): *)
(* a write reaches local storage by a zero timer and takes the object as   *)
(* it is then.  A group that local storage does not know begins empty.     *)
(* Left out: what a message says and who sent it, and the events.          *)
(***************************************************************************)
EXTENDS GroupStateSync, SequencesExt

CONSTANTS
    Message,     \* records [group, time]
    ListSize,    \* MaxGroupInInbox
    MaxUnread,   \* MaxUnReadInInbox
    ReadAhead,   \* seconds from now that clearUnreadCount counts as read
    SetAhead     \* the same of setUnreadCount
                 \* Bounds has also: messages (those that come), reads (calls of
                 \* clearUnreadCount and setUnreadCount), stops (or pages closed)

ASSUME MessageAssumption == Message \subseteq [group : Group, time : Nat]

ASSUME NumberAssumption ==
    /\ {MaxTime, ListSize, MaxUnread, ReadAhead, SetAhead} \subseteq Nat
    /\ {SendFails, BusyRestart} \subseteq BOOLEAN

ASSUME BoundsAssumption == \A b \in Bounds : b.messages \subseteq Message

VARIABLES
    list,        \* _groupIdsList
    cached,      \* the groups in _groups
    group,       \* the cached objects; seen is history: the messages they count
    dirtyList,   \* _pendingGroupIdsListUpdate
    dirtyGroups, \* _pendingGroupsUpdateGroupIds
    adjusting,   \* updates of the list that wait for a group to load
    writes,      \* groups whose write timer is set
    diskList, diskGroup, \* local storage
    loop,        \* of the domain: runs, drains (after stop), rests
    toInbox,     \* messages not yet taken from outChannelToInbox
    astray       \* history: groups stored before the list was, and those placed on it
                 \* while another update of it waited for local storage

inboxVars == <<list, cached, group, dirtyList, dirtyGroups, adjusting, writes,
               diskList, diskGroup, loop, toInbox, astray>>
memoryVars == <<list, dirtyList, dirtyGroups, adjusting>>
diskVars   == <<writes, diskList, diskGroup>>
vars == <<syncVars, inboxVars>>

NewGroup == [latest |-> 0, unread |-> 0, read |-> 0, seen |-> {}]

InboxInit ==
    /\ list = <<>> /\ cached = {} /\ group = [g \in Group |-> NewGroup]
    /\ dirtyList = FALSE /\ dirtyGroups = {} /\ adjusting = {}
    /\ writes = {} /\ diskList = <<>> /\ diskGroup = [g \in Group |-> NewGroup]
    /\ loop = "runs" /\ toInbox = left.messages /\ astray = {}

Init == SyncInit /\ InboxInit

-----------------------------------------------------------------------------
(* A group is loaded where it is not cached; the cached groups and the     *)
(* times in memory are merged.                                             *)

Loaded(gs) == [g \in Group |-> IF g \in gs \ cached THEN diskGroup[g] ELSE group[g]]
Reads(objects, gs) == [g \in gs |-> objects[g].read]
CachedReads == Reads(group, cached)

With(objects, gs, times) ==
    [g \in Group |-> IF g \in gs THEN [objects[g] EXCEPT !.read = times[g]] ELSE objects[g]]

\* getGroup: the objects once the groups gs are got and merged.
Got(gs) ==
    LET reads == Reads(Loaded(gs), cached \union gs)
    IN  With(Loaded(gs), DOMAIN reads, Corrected(items, reads))

\* The groups gs are got, the caller makes them changed, and what it leaves is
\* merged once more.
WithGroups(gs, changed) ==
    LET all == cached \union gs
        got == Reads(Loaded(gs), all)
        set == Reads(changed, all)
    IN  /\ SyncGroupState([g \in all |-> Later(got[g], set[g])])
        /\ cached' = all
        /\ group' = With(changed, all, Corrected(Latest(items, got), set))

\* getInbox, called by the program that shows the list.
GetInbox ==
    /\ list # <<>>
    /\ WithGroups(ToSet(list), Got(ToSet(list)))
    /\ UNCHANGED <<now, ledgerVars, sendVars, left, memoryVars, diskVars, loop, toInbox, astray>>

Reading(g, unread, time) ==
    /\ Uses("reads")
    /\ WithGroups({g}, [Got({g}) EXCEPT ![g].unread = unread, ![g].read = time])
    /\ writes' = writes \union {g}
    /\ astray' = IF dirtyList \/ adjusting # {} THEN astray \union {g} ELSE astray
    /\ UNCHANGED <<now, ledgerVars, sendVars, memoryVars, diskList, diskGroup, loop, toInbox>>

\* Both count what comes within the next seconds as read.  A time in memory
\* that is later wins.
ClearUnreadCount(g) == Reading(g, 0, Later(now + ReadAhead, Loaded({g})[g].latest))
SetUnreadCount(g)   == Reading(g, 1, now + SetAhead)

-----------------------------------------------------------------------------
(* poll with a message.                                                    *)

\* The list holds no group twice.
Without(g, old) ==
    IF g \in ToSet(old) THEN RemoveAt(old, CHOOSE k \in DOMAIN old : old[k] = g) ELSE old

\* _adjustGroupIdsList: before the first group whose latest message is not
\* later.
Adjusted(g, time, old, objects) ==
    LET rest  == Without(g, old)
        later == Cardinality({k \in DOMAIN rest : \A j \in 1..k : objects[rest[j]].latest > time})
        new   == InsertAt(rest, later + 1, g)
    IN  SubSeq(new, 1, IF Len(new) < ListSize THEN Len(new) ELSE ListSize)

\* Mutant: a message in the second after the time of reading counts as read.
MutCounts(object, m) == object.unread <= MaxUnread /\ m.time > object.read + 1

\* The comparison lets the count pass its maximum by one.
Counts(object, m) == object.unread <= MaxUnread /\ m.time > object.read

WithMessage(object, m) ==
    [object EXCEPT !.latest = Later(@, m.time),
                   !.unread = IF Counts(object, m) THEN @ + 1 ELSE @,
                   !.seen   = @ \union {m}]

Waiting == {a.group : a \in adjusting}

\* The update of the list is not awaited: when a group of it must be loaded
\* the polls go on.
TakeMessage(m) ==
    LET g     == m.group
        other == ToSet(list) \ {g}
        warm  == other \subseteq cached
    IN  /\ loop # "rests"
        /\ m \in toInbox /\ m.time <= now
        /\ toInbox' = toInbox \ {m}
        /\ WithGroups({g}, [Got({g}) EXCEPT ![g] = WithMessage(@, m)])
        /\ LET old    == Loaded({g})[g]
               newest == old.latest = 0 \/ m.time >= old.latest
           IN  /\ list' = IF newest /\ warm THEN Adjusted(g, m.time, list, group') ELSE list
               /\ dirtyList' = (dirtyList \/ (newest /\ warm))
               /\ adjusting' = IF newest /\ ~warm
                               THEN adjusting \union {[group |-> g, time |-> m.time, base |-> list]}
                               ELSE adjusting
               /\ dirtyGroups' = IF newest \/ group'[g].unread > old.unread
                                 THEN dirtyGroups \union {g} ELSE dirtyGroups
        /\ astray' = astray \union ({g} \intersect writes)
                     \union (IF adjusting = {} THEN {} ELSE {g} \union Waiting)
        /\ UNCHANGED <<now, ledgerVars, sendVars, left, diskVars, loop>>

\* The groups have been loaded: the list is made from the one at the start.
AdjustDone(a) ==
    /\ a \in adjusting
    /\ adjusting' = adjusting \ {a}
    /\ WithGroups(ToSet(a.base), Got(ToSet(a.base)))
    /\ list' = Adjusted(a.group, a.time, a.base, group')
    /\ dirtyList' = TRUE
    /\ UNCHANGED <<now, ledgerVars, sendVars, left, dirtyGroups, diskVars, loop, toInbox, astray>>

-----------------------------------------------------------------------------
(* poll without one: the list is stored, then the groups.                  *)

SaveList ==
    /\ loop # "rests" /\ dirtyList
    /\ dirtyList' = FALSE
    /\ diskList' = list
    /\ UNCHANGED <<syncVars, list, cached, group, dirtyGroups, adjusting, writes, diskGroup,
                   loop, toInbox, astray>>

\* Mutant: the groups are stored before the list.
MutSaveGroups ==
    /\ loop # "rests" /\ dirtyGroups # {}
    /\ dirtyGroups' = {}
    /\ WithGroups({}, Got({}))
    /\ writes' = writes \union (dirtyGroups \intersect cached)
    /\ astray' = astray \union Waiting
    /\ UNCHANGED <<now, ledgerVars, sendVars, left, list, dirtyList, adjusting, diskList,
                   diskGroup, loop, toInbox>>

\* One that is no longer cached is skipped.
SaveGroups ==
    /\ loop # "rests" /\ ~dirtyList /\ dirtyGroups # {}
    /\ dirtyGroups' = {}
    /\ WithGroups({}, Got({}))
    /\ writes' = writes \union (dirtyGroups \intersect cached)
    /\ astray' = astray \union Waiting
    /\ UNCHANGED <<now, ledgerVars, sendVars, left, list, dirtyList, adjusting, diskList,
                   diskGroup, loop, toInbox>>

Stored(gs) == [g \in Group |-> IF g \in gs THEN group[g] ELSE diskGroup[g]]

FireWrite(g) ==
    /\ g \in writes
    /\ writes' = writes \ {g}
    /\ diskGroup' = Stored({g})
    /\ UNCHANGED <<syncVars, memoryVars, cached, group, diskList, loop, toInbox, astray>>

-----------------------------------------------------------------------------
(* The sends take the times of the cached groups.                          *)

Command ==
    /\ UserCommand(CachedReads)
    /\ group' = [g \in Group |-> [group[g] EXCEPT !.read =
                    IF task # "none" /\ g \in cached THEN Corrected(items, CachedReads)[g] ELSE @]]
    /\ UNCHANGED <<memoryVars, cached, diskVars, loop, toInbox, astray>>

Clean ==
    /\ CleanExpired(CachedReads)
    /\ group' = [g \in Group |-> [group[g] EXCEPT !.read =
                    IF g \in cached THEN Corrected(items, CachedReads)[g] ELSE @]]
    /\ UNCHANGED <<memoryVars, cached, diskVars, loop, toInbox, astray>>

-----------------------------------------------------------------------------
(* The account is left and entered again, or the page is closed.           *)

\* The timers that are set hold the objects; what the loop has not stored is
\* lost with the cache, and the loop drains.
Stop ==
    /\ Uses("stops") /\ loop = "runs"
    /\ loop' = "drains"
    /\ ClearState
    /\ cached' = {} /\ group' = [g \in Group |-> NewGroup]
    /\ diskGroup' = Stored(writes) /\ writes' = {}
    /\ UNCHANGED <<now, ledgerVars, task, sendVars, memoryVars, diskList, toInbox, astray>>

LoopEnds ==
    /\ loop = "drains" /\ ~dirtyList /\ dirtyGroups = {}
    /\ loop' = "rests"
    /\ UNCHANGED <<syncVars, memoryVars, cached, group, diskVars, toInbox, astray>>

\* start loads the list; an update of the list may end between the two.
Start ==
    /\ loop = "rests"
    /\ loop' = "runs"
    /\ list' = diskList
    /\ UNCHANGED <<syncVars, cached, group, dirtyList, dirtyGroups, adjusting, diskVars,
                   toInbox, astray>>

Close ==
    /\ Uses("stops")
    /\ BusyRestart \/ sent = {}
    /\ items' = NoTimes /\ source' = 0 /\ used' = FALSE /\ inited' = FALSE
    /\ shouldLoad' = FALSE /\ asked' = {}
    /\ task' = "none" /\ sending' = "no" /\ temps' = <<>>
    /\ list' = diskList /\ cached' = {} /\ group' = [g \in Group |-> NewGroup]
    /\ dirtyList' = FALSE /\ dirtyGroups' = {} /\ adjusting' = {} /\ writes' = {}
    /\ loop' = "runs"
    /\ UNCHANGED <<now, ledgerVars, sent, diskList, diskGroup, toInbox, astray>>

Next ==
    \/ SyncNext /\ UNCHANGED inboxVars
    \/ GetInbox \/ SaveList \/ SaveGroups \/ Command \/ Clean
    \/ Stop \/ LoopEnds \/ Start \/ Close
    \/ \E g \in Group : ClearUnreadCount(g) \/ SetUnreadCount(g) \/ FireWrite(g)
    \/ \E m \in Message : TakeMessage(m)
    \/ \E a \in adjusting : AdjustDone(a)

Spec == Init /\ [][Next]_vars

-----------------------------------------------------------------------------
Object == [latest : Nat, unread : Nat, read : Nat, seen : SUBSET Message]

TypeOK ==
    /\ SyncTypeOK
    /\ cached \subseteq Group /\ dirtyGroups \subseteq Group /\ writes \subseteq cached
    /\ group \in [Group -> Object] /\ diskGroup \in [Group -> Object]
    /\ list \in Seq(Group) /\ diskList \in Seq(Group)
    /\ adjusting \subseteq [group : Group, time : Nat, base : Seq(Group)]
    /\ toInbox \subseteq Message /\ dirtyList \in BOOLEAN /\ loop \in {"runs", "drains", "rests"}
    /\ astray \subseteq Group

Current(g) == IF g \in cached THEN group[g] ELSE diskGroup[g]

\* A group with a message stays on the list, once, also across a stop or a
\* page closed between the write of the list and the writes of the groups.
\* Only a group stored while the list was not, by a reading or because the
\* update of the list waited, or one placed while another update waited, may
\* go missing.
Listed ==
    /\ IsInjective(list)
    /\ \A g \in Group : Current(g).latest > 0 => g \in ToSet(list) \union Waiting \union astray

\* A message later than the time of reading is counted, whatever the order
\* in which messages, readings of this device and readings of another come.
UnreadCounted ==
    \A g \in Group : \A m \in Current(g).seen : m.time > Current(g).read => Current(g).unread > 0

\* Syncs take nothing back and do not get in each other's way.
SyncSafe == MergedNotLost /\ ConsumedOnce

\* What was read stays read: neither a second reading with a shorter lead
\* nor an older state output turns the time of a cached group back.
ReadStays == [][\A g \in cached \intersect cached' : group'[g].read >= group[g].read]_vars
=============================================================================
