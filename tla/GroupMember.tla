---------------------------- MODULE GroupMember ----------------------------
(***************************************************************************)
(* What the program knows about groups: GroupMemberDomain                  *)
(* (packages/chat/src/domain).  Its loop asks the service again and again  *)
(* for the groups the application includes, the groups the address has     *)
(* marked, the standing of the address in each, which groups are public    *)
(* and the read positions of other devices; events of the service bring    *)
(* a refresh forward.  Member lists are asked for outside the loop.        *)
(*                                                                         *)
(* An id of a group and its legacy form are one group here, and a config   *)
(* is there or not.  The mute map is UserLists', what is done with the     *)
(* read positions GroupStateSync's; the token range of public messages is  *)
(* left out.  The service and the application are external.                *)
(***************************************************************************)
EXTENDS Integers, Sequences, FiniteSets

CONSTANTS
    Group,
    Account,
    Bounds    \* the bounds: records [ops, groups, marks, known: what may happen, to which groups,
              \* what is marked, and whose config an earlier session stored; includes, changes,
              \* switches, logins, enters, fails, pauses]

VARIABLES
    app,        \* "running", "stopping", "stopped"
    account,    \* walletAddress of the context
    loggedIn,   \* isLoggedIn of the context
    includes,   \* includesAndExcludes of the context: {} while unset, or {the groups}
    listening,  \* the login handler is registered
    forMe,      \* _formeGroupIds
    loading,    \* isForMeGroupsLoading of the context
    started,    \* _isStartRefreshForMeGroupConfigs
    marked,     \* _markedGroupIds
    loaded,     \* _isMarkedGroupIdsLoaded
    due,        \* which of "forMe", "marked", "all" are to be refreshed
    status,     \* _addressStatusCache: of each group whose standing it holds
    statusTime, \* _lastTimeRefreshAddressStatusMap: "none", "due" or "fresh"
    public,     \* _isGroupPublic
    dirty,      \* _dirtyGroupIds
    unsaved,    \* _isGroupPublicDirty, _markedGroupIdsDirty: a set of "public", "marked"
    boot,       \* publicGroupOnBoot commands, as the groups they name
    processed,  \* _processedPublicGroupIds
    sync,       \* whose read positions _groupStateSyncs holds: {} or {account}
    reload,     \* _shouldLoadGroupState
    allIds,     \* allGroupIds of the context
    configs,    \* groups whose config is cached
    waiting,    \* groups whose config a caller waits for
    warming,    \* warm-ups of configs that are not done: the groups each is about
    members,    \* of each group the version of its cached member list
    processing, \* _processingGroupIds
    fetches,    \* requests for members: [group, version read: {} or {n}, timer]
    step,       \* where the loop waits: {} or {[at, of, groups, read, beside]}
    late,       \* requests that a failed step of the loop has left in flight: [of, about, fail]
    events,     \* events of the service
    world,      \* the service: [marks, public, version], and who ever marked what: everMarked
    stored,     \* storage: [public, marks of each account, configs]; the first two {} or {value}
    heard,      \* history: the version of each group that an event told of
    excused,    \* history: groups of which a request failed, or was not made
    refilled,   \* history: what was filled again after the caches were cleared, and not since the loop runs
    left        \* what is left of the bounds

contextVars == <<account, loggedIn, includes, listening>>
listVars    == <<forMe, loading, started, marked, loaded>>
publicVars  == <<public, dirty, unsaved, boot, processed>>
statusVars  == <<status, statusTime, sync, reload, late, refilled>>
configVars  == <<configs, waiting, warming>>
memberVars  == <<members, processing, fetches, heard, excused>>
vars == <<app, account, loggedIn, includes, listening, forMe, loading, started, marked, loaded, due,
          status, statusTime, public, dirty, unsaved, boot, processed, sync, reload, allIds, configs,
          waiting, warming, members, processing, fetches, step, late, events, world, stored, heard, excused,
          refilled, left>>

Unknown == "unknown"
Positions == "positions"
Publicity == {Unknown, "public", "private"}
World == [marks : [Account -> SUBSET Group], everMarked : [Account -> SUBSET Group],
          public : [Group -> {"public", "private"}], version : [Group -> Nat]]
Storage == [public : SUBSET [Group -> Publicity], marks : [Account -> SUBSET SUBSET Group],
            configs : SUBSET Group]
Request == [group : Group, version : SUBSET Nat, timer : BOOLEAN]
Event == [type : {"member", "mark", "public", "sync"}, group : Group, version : Nat]
Step == [at : {"boot", "forMe", "marked", "status", "dirty", "sync", "savePublic", "saveMarked"},
         of : Account, groups : SUBSET Group, read : [Group -> Publicity], beside : SUBSET (Group \union {Positions})]
Late == [of : Account, about : Group \union {Positions}, fail : Nat]

BoundType == [ops : SUBSET {"wait", "enter", "member", "mark", "public", "sync"}, groups : SUBSET Group,
              marks : [Account -> SUBSET Group], known : SUBSET Group, includes : Nat, changes : Nat,
              switches : Nat, logins : Nat, enters : Nat, fails : Nat, pauses : Nat]
ASSUME BoundsAssumption == Bounds \subseteq BoundType
ASSUME GroupAssumption == Positions \notin Group

Uses(c) == left[c] > 0 /\ left' = [left EXCEPT ![c] = @ - 1]

Init ==
    /\ left \in Bounds
    /\ app = "stopped" /\ account \in Account /\ loggedIn = FALSE /\ includes = {} /\ listening = FALSE
    /\ forMe = {} /\ loading = FALSE /\ started = FALSE /\ marked = {} /\ loaded = FALSE
    /\ due = {"forMe", "marked", "all"}
    /\ status = [g \in Group |-> {}] /\ statusTime = [g \in Group |-> "none"]
    /\ public = [g \in Group |-> Unknown] /\ dirty = {} /\ unsaved = {} /\ boot = {} /\ processed = {}
    /\ sync = {} /\ reload = FALSE /\ allIds = {}
    /\ configs = {} /\ waiting = {} /\ warming = {}
    /\ members = [g \in Group |-> 0] /\ processing = {} /\ fetches = {}
    /\ step = {} /\ late = {} /\ events = <<>>
    /\ world = [marks |-> left.marks, everMarked |-> left.marks, public |-> [g \in Group |-> "public"], version |-> [g \in Group |-> 0]]
    /\ stored = [public |-> {}, marks |-> [a \in Account |-> {}], configs |-> left.known]
    /\ heard = [g \in Group |-> 0] /\ excused = {} /\ refilled = {}

-----------------------------------------------------------------------------
(* The application.                                                        *)

Included == UNION includes

\* The configs of the groups are looked up, in the cache and in storage.
WarmUp(gs) == warming' = warming \union {gs}

OnIncludesAndExcludesChanged(gs) ==
    /\ due' = due \union {"forMe"}
    /\ started' = TRUE
    /\ forMe' = gs
    /\ dirty' = dirty \union gs
    /\ WarmUp(gs)

\* A group without a config is taken off the list again, until the service
\* is asked.  An event that says a config is there makes the listener of a
\* waiting caller throw, and the warm-up fails with it.
WarmedUp(gs) ==
    LET found == gs \intersect (configs \union stored.configs)
    IN  /\ gs \in warming
        /\ warming' = warming \ {gs}
        /\ configs' = configs \union found
        /\ IF found \intersect waiting # {}
           THEN /\ \E g \in found \intersect waiting : waiting' = waiting \ {g}
                /\ UNCHANGED <<forMe, loading>>
           ELSE /\ forMe' = found
                /\ loading' = (loading /\ found # gs)
                /\ UNCHANGED waiting
        /\ UNCHANGED <<app, contextVars, started, marked, loaded, due, statusVars, publicVars, allIds,
                       memberVars, step, events, world, stored, left>>

SetIncludesAndExcludes(gs) == includes # {gs} /\ includes' = {gs}

\* The groups count as loading again with each change.
SetIncludes(gs) ==
    /\ gs \subseteq left.groups /\ Uses("includes")
    /\ SetIncludesAndExcludes(gs)
    /\ OnIncludesAndExcludesChanged(gs)
    /\ loading' = TRUE
    /\ UNCHANGED <<app, account, loggedIn, listening, marked, loaded, public, unsaved, boot, processed,
                   statusVars, allIds, configs, waiting, memberVars, step, events, world, stored>>

\* The lists start again, the marks from storage; what is not cleared when
\* the loop is stopped is still there.
Start ==
    /\ app = "stopped"
    /\ app' = "running"
    /\ processing' = {} /\ processed' = {}
    /\ due' = due \union {"forMe", "marked"}
    /\ public' \in IF stored.public = {} THEN {public} ELSE stored.public
    /\ marked' = UNION stored.marks[account]
    /\ loaded' = (loaded \/ \E m \in stored.marks[account] : m \subseteq configs \union stored.configs)
    /\ forMe' = Included /\ loading' = TRUE /\ started' = TRUE
    /\ dirty' = dirty \union Included
    /\ WarmUp(Included)
    /\ configs' = configs \union (marked' \intersect stored.configs)
    /\ UNCHANGED <<contextVars, unsaved, boot, statusVars, allIds, waiting, members, fetches, heard,
                   excused, step, events, world, stored, left>>

\* Mutant: the standing of the address is kept.
MutCacheClear ==
    /\ processing' = {} /\ fetches' = {f \in fetches : ~f.timer}
    /\ forMe' = {} /\ marked' = {} /\ unsaved' = unsaved \ {"marked"}
    /\ sync' = {}
    /\ UNCHANGED <<status, statusTime>>

CacheClear ==
    /\ processing' = {} /\ fetches' = {f \in fetches : ~f.timer}
    /\ forMe' = {} /\ marked' = {} /\ unsaved' = unsaved \ {"marked"}
    /\ status' = [g \in Group |-> {}] /\ statusTime' = [g \in Group |-> "none"]
    /\ sync' = {}

\* The caches are cleared first.  Then the loop goes on with its step, and
\* with whatever is due, until a poll finds nothing to do.
Stop ==
    /\ app = "running" /\ Uses("switches")
    /\ app' = "stopping"
    /\ CacheClear
    /\ refilled' = {}
    /\ excused' = Group
    /\ UNCHANGED <<contextVars, loading, started, loaded, due, public, dirty, boot, processed, reload, late, allIds,
                   configVars, members, heard, step, events, world, stored>>

SwitchAccount(a) ==
    /\ app = "stopped" /\ a # account
    /\ account' = a /\ loggedIn' = FALSE
    /\ UNCHANGED <<app, includes, listening, listVars, due, publicVars, statusVars, allIds, configVars,
                   memberVars, step, events, world, stored, left>>

\* The login handler is registered when the loops are resumed.
LogIn ==
    /\ app = "running" /\ ~loggedIn /\ Uses("logins")
    /\ loggedIn' = TRUE
    /\ due' = IF listening THEN due \union {"marked", "all"} ELSE due
    /\ UNCHANGED <<app, account, includes, listening, listVars, publicVars, statusVars, allIds, configVars,
                   memberVars, step, events, world, stored>>

PauseAndResume ==
    /\ app = "running" /\ ~listening /\ Uses("pauses")
    /\ listening' = TRUE
    /\ UNCHANGED <<app, account, loggedIn, includes, listVars, due, publicVars, statusVars, allIds,
                   configVars, memberVars, step, events, world, stored>>

\* waitForGroupConfigReady, and its timeout.
WaitForConfig(g) ==
    /\ "wait" \in left.ops /\ g \in left.groups \ (configs \union waiting) /\ Uses("enters")
    /\ waiting' = waiting \union {g}
    /\ UNCHANGED <<app, contextVars, listVars, due, publicVars, statusVars, allIds, configs, warming,
                   memberVars, step, events, world, stored>>

WaitTimesOut(g) ==
    /\ g \in waiting /\ waiting' = waiting \ {g}
    /\ UNCHANGED <<app, contextVars, listVars, due, publicVars, statusVars, allIds, configs, warming,
                   memberVars, step, events, world, stored, left>>

-----------------------------------------------------------------------------
(* The loop.                                                               *)

\* A step may wait for more than its own request: for the standing in groups
\* or the read positions, asked for beside it.
AwaitBeside(where, gs, read, beside) ==
    step' = {[at |-> where, of |-> account, groups |-> gs, read |-> read, beside |-> beside]}
Await(where, gs, read) == AwaitBeside(where, gs, read, {})
At(where) == {d \in step : d.at = where}
Ends == step' = {} /\ UNCHANGED app
Idle == app # "stopped" /\ step = {}

\* A poll that had nothing to do is the last of a loop that is to stop.
Rested == app' = IF app = "stopping" THEN "stopped" ELSE app

MarkedIds == IF loggedIn THEN marked ELSE {}
AllGroupIds == forMe \union MarkedIds
CanForMe  == includes # {} /\ "forMe" \in due
CanMarked == loggedIn /\ "marked" \in due
CanAll    == (includes # {} \/ loggedIn) /\ "all" \in due
StatusDue == {g \in AllGroupIds : statusTime[g] # "fresh"}
Refreshed == ~CanForMe /\ ~CanMarked /\ ~CanAll /\ StatusDue = {}

\* Configs from the service are stored and cached one by one; a caller that
\* waits for one makes its event throw, and the rest is not done.
Throws(gs) == gs \intersect waiting # {}
SetConfigs(gs) ==
    IF Throws(gs)
    THEN \E g \in gs \intersect waiting, some \in SUBSET (gs \ waiting) :
             /\ configs' = configs \union some \union {g}
             /\ stored' = [stored EXCEPT !.configs = @ \union some \union {g}]
             /\ waiting' = waiting \ {g}
    ELSE /\ configs' = configs \union gs
         /\ stored' = [stored EXCEPT !.configs = @ \union gs]
         /\ UNCHANGED waiting

SetPublic(gs, values) == public' = [g \in Group |-> IF g \in gs THEN values[g] ELSE public[g]]

\* Commands come first: groups found public are asked about once.
PublicGroupOnBoot ==
    /\ Idle /\ boot # {}
    /\ boot' = {} /\ processed' = processed \union boot
    /\ IF boot \subseteq processed THEN UNCHANGED step ELSE Await("boot", boot \ processed, world.public)
    /\ UNCHANGED <<app, contextVars, listVars, due, public, dirty, unsaved, statusVars, allIds, configVars,
                   memberVars, events, world, stored, left>>

BootAnswered(d) ==
    /\ d \in At("boot")
    /\ SetPublic(d.groups, d.read)
    /\ Ends
    /\ UNCHANGED <<contextVars, listVars, due, dirty, unsaved, boot, processed, statusVars, allIds,
                   configVars, memberVars, events, world, stored, left>>

\* The read positions are fetched along with it if they are not there.
TryRefreshForMe ==
    /\ Idle /\ boot = {} /\ CanForMe
    /\ loading' = (loading \/ ~started) /\ started' = TRUE
    /\ AwaitBeside("forMe", Included, world.public, IF sync = {} /\ Included # {} THEN {Positions} ELSE {})
    /\ UNCHANGED <<app, contextVars, forMe, marked, loaded, due, publicVars, statusVars, allIds, configVars,
                   memberVars, events, world, stored, left>>

\* Mutant: the groups stay as loading.
MutForMeAnswered(d) ==
    /\ d \in At("forMe") /\ d.beside = {}
    /\ SetConfigs(d.groups)
    /\ IF Throws(d.groups) THEN UNCHANGED <<forMe, due, public, unsaved, boot>>
       ELSE /\ forMe' = d.groups /\ due' = due \ {"forMe"}
            /\ SetPublic(d.groups, d.read) /\ unsaved' = unsaved \union {"public"}
            /\ boot' = boot \union {g \in d.groups : d.read[g] = "public"}
    /\ Ends
    /\ UNCHANGED <<contextVars, loading, started, marked, loaded, dirty, processed, statusVars, allIds,
                   warming, memberVars, events, world, left>>

\* The answer is about the groups that were included when it was asked for,
\* and counts as fresh whatever has changed since.
ForMeAnswered(d) ==
    /\ d \in At("forMe") /\ d.beside = {}
    /\ SetConfigs(d.groups)
    /\ IF Throws(d.groups) THEN UNCHANGED <<forMe, due, public, unsaved, boot, loading>>
       ELSE /\ forMe' = d.groups /\ due' = due \ {"forMe"} /\ loading' = FALSE
            /\ SetPublic(d.groups, d.read) /\ unsaved' = unsaved \union {"public"}
            /\ boot' = boot \union {g \in d.groups : d.read[g] = "public"}
    /\ Ends
    /\ UNCHANGED <<contextVars, started, marked, loaded, dirty, processed, statusVars, allIds,
                   warming, memberVars, events, world, left>>

\* The groups whose standing is due, each now with a time of its refresh.
NotesStatusDue ==
    statusTime' = [g \in Group |-> IF g \in AllGroupIds /\ statusTime[g] = "none" THEN "due" ELSE statusTime[g]]

\* The standing of the address is asked along with the first marks.
TryRefreshMarked ==
    /\ Idle /\ boot = {} /\ ~CanForMe /\ CanMarked
    /\ IF \A g \in Group : statusTime[g] = "none"
       THEN AwaitBeside("marked", world.marks[account], world.public, StatusDue) /\ NotesStatusDue
       ELSE Await("marked", world.marks[account], world.public) /\ UNCHANGED statusTime
    /\ UNCHANGED <<app, contextVars, listVars, due, publicVars, status, sync, reload, late, refilled, allIds,
                   configVars, memberVars, events, world, stored, left>>

MarkedAnswered(d) ==
    /\ d \in At("marked") /\ d.beside = {}
    /\ SetConfigs(d.groups)
    /\ IF Throws(d.groups) THEN UNCHANGED <<marked, loaded, due, public, unsaved>>
       ELSE /\ marked' = d.groups /\ loaded' = TRUE /\ due' = due \ {"marked"}
            /\ SetPublic(d.groups, d.read)
            /\ unsaved' = unsaved \union {"public"} \union (IF loaded /\ marked = d.groups THEN {} ELSE {"marked"})
    /\ Ends
    /\ UNCHANGED <<contextVars, forMe, loading, started, dirty, boot, processed, statusVars, allIds,
                   warming, memberVars, events, world, left>>

UpdateAllGroupIds ==
    /\ Idle /\ boot = {} /\ ~CanForMe /\ ~CanMarked /\ CanAll
    /\ allIds' = AllGroupIds /\ due' = due \ {"all"}
    /\ UNCHANGED <<app, contextVars, listVars, publicVars, statusVars, configVars, memberVars, step, events,
                   world, stored, left>>

\* The standing of the address in each group.
TryRefreshAddressStatus ==
    /\ Idle /\ boot = {} /\ ~CanForMe /\ ~CanMarked /\ ~CanAll /\ StatusDue # {}
    /\ AwaitBeside("status", StatusDue, world.public, StatusDue) /\ NotesStatusDue
    /\ UNCHANGED <<app, contextVars, listVars, due, publicVars, status, sync, reload, late, refilled, allIds,
                   configVars, memberVars, events, world, stored, left>>

ActualRefreshAddressStatus(g, a) ==
    /\ status' = [status EXCEPT ![g] = {a}] /\ statusTime' = [statusTime EXCEPT ![g] = "fresh"]
    /\ UNCHANGED <<sync, reload>>
FetchedGroupState(a) == sync' = {a} /\ reload' = FALSE /\ UNCHANGED <<status, statusTime>>
Learns(x, a) == IF x = Positions THEN FetchedGroupState(a) ELSE ActualRefreshAddressStatus(x, a)

\* An answer of those a step waits for beside its own.  That the read
\* positions could not be fetched is only logged.
BesideAnswered(d, x) ==
    /\ d \in step /\ x \in d.beside
    /\ \/ /\ Learns(x, d.of)
          /\ refilled' = IF app = "running" THEN refilled \ {x} ELSE refilled \union {x}
          /\ UNCHANGED left
       \/ x = Positions /\ Uses("fails") /\ UNCHANGED <<status, statusTime, sync, reload, refilled>>
    /\ step' = IF d.at \in {"status", "sync"} /\ d.beside = {x} THEN {} ELSE {[d EXCEPT !.beside = @ \ {x}]}
    /\ UNCHANGED <<app, contextVars, listVars, due, publicVars, late, allIds, configVars, memberVars,
                   events, world, stored>>

\* One request for members of a group at a time.
RefreshGroupMember(g, timer) ==
    IF g \in processing
    THEN /\ excused' = IF \E f \in fetches : f.group = g /\ f.version # {} THEN excused \union {g} ELSE excused
         /\ UNCHANGED <<processing, fetches>>
    ELSE /\ processing' = processing \union {g}
         /\ fetches' = fetches \union {[group |-> g, version |-> {}, timer |-> timer]}
         /\ UNCHANGED excused

\* An event of the service.  For a member the profile is looked up first; if
\* that fails the event is gone.
HandleEvent ==
    /\ Idle /\ boot = {} /\ Refreshed /\ events # <<>>
    /\ events' = Tail(events)
    /\ LET e == Head(events)
       IN  CASE e.type = "member" ->
                  \/ /\ due' = due \union {"marked"}
                     /\ RefreshGroupMember(e.group, TRUE)
                     /\ heard' = [heard EXCEPT ![e.group] = e.version]
                     /\ UNCHANGED <<dirty, reload, left>>
                  \/ /\ Uses("fails") /\ excused' = excused \union {e.group}
                     /\ UNCHANGED <<due, processing, fetches, heard, dirty, reload>>
             [] e.type = "mark" ->
                  /\ due' = due \union {"marked"}
                  /\ UNCHANGED <<processing, fetches, heard, excused, dirty, reload, left>>
             [] e.type = "public" ->
                  /\ dirty' = dirty \union {e.group}
                  /\ UNCHANGED <<due, processing, fetches, heard, excused, reload, left>>
             [] e.type = "sync" ->
                  /\ reload' = TRUE
                  /\ UNCHANGED <<due, processing, fetches, heard, excused, dirty, left>>
    /\ UNCHANGED <<app, contextVars, listVars, public, unsaved, boot, processed, status, statusTime, sync,
                   late, refilled, allIds, configVars, members, step, world, stored>>

Quiet == Idle /\ boot = {} /\ Refreshed /\ events = <<>>

RefreshDirtyGroupIds ==
    /\ Quiet /\ dirty # {}
    /\ Await("dirty", dirty, world.public)
    /\ UNCHANGED <<app, contextVars, listVars, due, publicVars, statusVars, allIds, configVars, memberVars,
                   events, world, stored, left>>

\* What became dirty meanwhile is not asked for; nor is anything again if
\* the request failed.
DirtyAnswered(d) ==
    /\ d \in At("dirty")
    /\ \/ /\ SetPublic(d.groups, d.read)
          /\ unsaved' = IF public' = public THEN unsaved ELSE unsaved \union {"public"}
          /\ UNCHANGED left
       \/ Uses("fails") /\ UNCHANGED <<public, unsaved>>
    /\ dirty' = {}
    /\ Ends
    /\ UNCHANGED <<contextVars, listVars, due, boot, processed, statusVars, allIds, configVars, memberVars,
                   events, world, stored>>

FetchGroupState ==
    /\ Quiet /\ dirty = {} /\ reload
    /\ AwaitBeside("sync", {}, world.public, {Positions})
    /\ UNCHANGED <<app, contextVars, listVars, due, publicVars, statusVars, allIds, configVars, memberVars,
                   events, world, stored, left>>

\* At the end of a pass what has changed is written, and the pass had nothing
\* to do: the publicity first, then the marks, which never change without it.
Persist(where) == Await(where, marked, public)
PersistGroupPublicStatuses ==
    /\ Quiet /\ dirty = {} /\ ~reload /\ "public" \in unsaved
    /\ Persist("savePublic")
    /\ UNCHANGED <<app, contextVars, listVars, due, publicVars, statusVars, allIds, configVars, memberVars,
                   events, world, stored, left>>

PublicPersisted(d) ==
    /\ d \in At("savePublic")
    /\ stored' = [stored EXCEPT !.public = {d.read}]
    /\ unsaved' = unsaved \ {"public"}
    /\ IF "marked" \in unsaved THEN Persist("saveMarked") /\ UNCHANGED app ELSE step' = {} /\ Rested
    /\ UNCHANGED <<contextVars, listVars, due, public, dirty, boot, processed, statusVars, allIds,
                   configVars, memberVars, events, world, left>>

MarkedPersisted(d) ==
    /\ d \in At("saveMarked")
    /\ stored' = [stored EXCEPT !.marks[account] = {d.groups}]
    /\ unsaved' = unsaved \ {"marked"}
    /\ step' = {} /\ Rested
    /\ UNCHANGED <<contextVars, listVars, due, public, dirty, boot, processed, statusVars, allIds,
                   configVars, memberVars, events, world, left>>

\* There was nothing to do, nor to write.
Rests ==
    /\ app = "stopping" /\ Quiet /\ dirty = {} /\ ~reload /\ unsaved = {}
    /\ app' = "stopped"
    /\ UNCHANGED <<contextVars, listVars, due, publicVars, statusVars, allIds, configVars, memberVars,
                   step, events, world, stored, left>>

LeftBy(d, xs) == {[of |-> d.of, about |-> x, fail |-> left.fails] : x \in xs}

\* A request of the loop fails, its own or one beside it: the step ends and is
\* made again, the others of its requests are still to be answered.
RefreshFails(d) ==
    /\ \/ d.at \in {"forMe", "marked"} /\ late' = late \union LeftBy(d, d.beside)
       \/ \E g \in d.beside \ {Positions} : late' = late \union LeftBy(d, d.beside \ {g})
    /\ Uses("fails")
    /\ Ends
    /\ UNCHANGED <<contextVars, listVars, due, publicVars, status, statusTime, sync, reload, refilled, allIds,
                   configVars, memberVars, events, world, stored>>

\* They write what they find, whoever the account is by then.
LateAnswered(l) ==
    /\ l \in late /\ late' = late \ {l}
    /\ \/ Learns(l.about, l.of) /\ refilled' = refilled \union {l.about} /\ UNCHANGED left
       \/ Uses("fails") /\ UNCHANGED <<status, statusTime, sync, reload, refilled>>
    /\ UNCHANGED <<app, contextVars, listVars, due, publicVars, allIds, configVars, memberVars,
                   step, events, world, stored>>

-----------------------------------------------------------------------------
(* Members and publicity outside the loop.                                 *)

\* The user enters a group.
EnterGroup(g) ==
    /\ app = "running" /\ "enter" \in left.ops /\ g \in left.groups /\ Uses("enters")
    /\ RefreshGroupMember(g, FALSE)
    /\ UNCHANGED <<app, contextVars, listVars, due, publicVars, statusVars, allIds, configVars, members,
                   heard, step, events, world, stored>>

\* The service reads, then the answer comes.
ReadMembers(f) ==
    /\ f \in fetches /\ f.version = {}
    /\ fetches' = (fetches \ {f}) \union {[f EXCEPT !.version = {world.version[f.group]}, !.timer = FALSE]}
    /\ UNCHANGED <<app, contextVars, listVars, due, publicVars, statusVars, allIds, configVars, members,
                   processing, heard, excused, step, events, world, stored, left>>

\* Mutant: the mark of the request stays.
MutMembersAnswered(f) ==
    /\ f \in fetches /\ f.version # {}
    /\ \E v \in f.version : members' = [members EXCEPT ![f.group] = v]
    /\ fetches' = fetches \ {f}
    /\ UNCHANGED <<app, contextVars, listVars, due, publicVars, statusVars, allIds, configVars, processing,
                   heard, excused, step, events, world, stored, left>>

MembersAnswered(f) ==
    /\ f \in fetches /\ f.version # {}
    /\ \E v \in f.version : members' = [members EXCEPT ![f.group] = v]
    /\ fetches' = fetches \ {f}
    /\ processing' = processing \ {f.group}
    /\ UNCHANGED <<app, contextVars, listVars, due, publicVars, statusVars, allIds, configVars,
                   heard, excused, step, events, world, stored, left>>

MembersFail(f) ==
    /\ f \in fetches /\ Uses("fails")
    /\ fetches' = fetches \ {f}
    /\ processing' = processing \ {f.group}
    /\ excused' = excused \union {f.group}
    /\ UNCHANGED <<app, contextVars, listVars, due, publicVars, statusVars, allIds, configVars, members,
                   heard, step, events, world, stored>>

-----------------------------------------------------------------------------
(* The service, and time.                                                  *)

Happens(type, g) == events' = Append(events, [type |-> type, group |-> g, version |-> world'.version[g]])

WorldChanges(type, g) ==
    /\ type \in left.ops /\ g \in left.groups /\ Uses("changes")
    /\ world' = CASE type = "member" -> [world EXCEPT !.version[g] = @ + 1]
                  [] type = "public" -> [world EXCEPT !.public[g] = IF @ = "public" THEN "private" ELSE "public"]
                  [] type = "mark"   -> [world EXCEPT !.marks[account] =
                                            IF g \in @ THEN @ \ {g} ELSE @ \union {g},
                                          !.everMarked[account] = @ \union {g}]
                  [] OTHER -> world
    /\ Happens(type, g)
    /\ UNCHANGED <<app, contextVars, listVars, due, publicVars, statusVars, allIds, configVars, memberVars,
                   step, stored>>

\* A minute passes: longer than the loop is busy, so it finds it with nothing to do.
TimePasses ==
    /\ app = "running" /\ Quiet /\ dirty = {} /\ ~reload /\ unsaved = {}
    /\ due' = {"forMe", "marked", "all"}
    /\ statusTime' = [g \in Group |-> IF statusTime[g] = "fresh" THEN "due" ELSE statusTime[g]]
    /\ <<due, statusTime>>' # <<due, statusTime>>
    /\ UNCHANGED <<app, contextVars, listVars, publicVars, status, sync, reload, late, refilled, allIds,
                   configVars, memberVars, step, events, world, stored, left>>

-----------------------------------------------------------------------------
Begin ==
    \/ PublicGroupOnBoot \/ TryRefreshForMe \/ TryRefreshMarked \/ UpdateAllGroupIds
    \/ TryRefreshAddressStatus \/ HandleEvent \/ RefreshDirtyGroupIds \/ FetchGroupState
    \/ PersistGroupPublicStatuses \/ Rests
Answered(d) ==
    \/ BootAnswered(d) \/ ForMeAnswered(d) \/ MarkedAnswered(d) \/ DirtyAnswered(d)
    \/ PublicPersisted(d) \/ MarkedPersisted(d) \/ \E x \in d.beside : BesideAnswered(d, x)
Work == Begin \/ \E d \in step : Answered(d)
LateWork == \E l \in late : LateAnswered(l)
Warm == \E gs \in warming : WarmedUp(gs)
Fetch == \E f \in fetches : ReadMembers(f) \/ MembersAnswered(f)

Next ==
    \/ Work \/ LateWork \/ Warm \/ Fetch \/ TimePasses
    \/ Start \/ Stop \/ LogIn \/ PauseAndResume
    \/ \E a \in Account : SwitchAccount(a)
    \/ \E gs \in SUBSET Group : SetIncludes(gs)
    \/ \E d \in step : RefreshFails(d)
    \/ \E f \in fetches : MembersFail(f)
    \/ \E g \in Group : WaitForConfig(g) \/ WaitTimesOut(g) \/ EnterGroup(g)
    \/ \E type \in {"member", "mark", "public", "sync"}, g \in Group : WorldChanges(type, g)

Spec ==
    /\ Init /\ [][Next]_vars
    /\ WF_vars(Start) /\ WF_vars(Work) /\ WF_vars(LateWork) /\ WF_vars(Warm) /\ WF_vars(Fetch) /\ WF_vars(TimePasses)

-----------------------------------------------------------------------------
\* The types, and the one step of the loop.
TypeOK ==
    /\ app \in {"running", "stopping", "stopped"} /\ account \in Account
    /\ {loggedIn, listening, loading, started, loaded, reload} \subseteq BOOLEAN
    /\ includes \in SUBSET SUBSET Group
    /\ forMe \union marked \union allIds \union configs \union waiting \subseteq Group
    /\ dirty \union boot \union processed \union processing \union excused \subseteq Group
    /\ due \subseteq {"forMe", "marked", "all"} /\ unsaved \subseteq {"public", "marked"}
    /\ warming \in SUBSET SUBSET Group
    /\ status \in [Group -> SUBSET Account] /\ statusTime \in [Group -> {"none", "due", "fresh"}]
    /\ sync \subseteq Account /\ refilled \subseteq Group \union {Positions} /\ public \in [Group -> Publicity]
    /\ members \in [Group -> Nat] /\ heard \in [Group -> Nat] /\ fetches \subseteq Request
    /\ step \subseteq Step /\ (\A d, e \in step : d = e) /\ (app = "stopped" => step = {}) /\ late \subseteq Late
    /\ events \in Seq(Event) /\ world \in World /\ stored \in Storage /\ left \in BoundType

\* What the domain holds of an address - its standing in a group, its marks,
\* its read positions - is of the account in use, also after accounts were
\* switched: the step of the loop and its drain, the caches and the storage of
\* an account end with it.  Excepted is what was filled again after the caches
\* had been cleared - by the drain of the loop, or by an answer that a failed
\* step had left in flight - until the running loop refreshes it; never the marks.
OfAccount ==
    app = "running" =>
        /\ marked \subseteq world.everMarked[account]
        /\ \A g \in Group : g \in refilled \/ status[g] \subseteq {account}
        /\ Positions \in refilled \/ sync \subseteq {account}

\* A change of the members that an event has told of gets to the cached list,
\* unless the request failed, the loop was stopped, or the event came while a
\* request that had been read was still to be answered.
MembersCatchUp ==
    \A g \in Group, v \in 1..2 : heard[g] = v ~> (members[g] >= v \/ g \in excused)

\* When nothing changes any more the lists are what the application includes
\* and the service has, in storage too, the standing in their groups is of the
\* account in use, and nothing stays as loading: whatever was answered late,
\* failed once, was thrown out by a waiting caller or filled again by a drain.
Settles ==
    <>[](app = "running" => /\ includes # {} => forMe = Included /\ ~loading
                            /\ loggedIn => marked = world.marks[account] /\ UNION stored.marks[account] = marked
                            /\ includes # {} => allIds = AllGroupIds
                            /\ \A g \in AllGroupIds : status[g] = {account}
                            /\ \A g \in Included : public[g] = world.public[g]
                                                       /\ \A p \in stored.public : p[g] = world.public[g])
=============================================================================
