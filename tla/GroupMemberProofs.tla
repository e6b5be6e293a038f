------------------------- MODULE GroupMemberProofs -------------------------
(***************************************************************************)
(* Proofs about GroupMember, for every set of groups and accounts and      *)
(* every bound: what the domain holds of an address is of the account in   *)
(* use.                                                                    *)
(***************************************************************************)
EXTENDS GroupMember, SequenceTheorems, TLAPS

-----------------------------------------------------------------------------
(* The types.                                                              *)

Counter == {"includes", "changes", "switches", "logins", "enters", "fails", "pauses"}

\* What is left of the bounds.
LEMMA UsesTypes ==
    ASSUME TypeOK, NEW c \in Counter, Uses(c)
    PROVE  left' \in BoundType
<1>1. left \in BoundType /\ left[c] \in Nat /\ left[c] > 0
  BY DEF TypeOK, Uses, BoundType, Counter
<1>2. left' = [left EXCEPT ![c] = left[c] - 1] /\ left[c] - 1 \in Nat
  BY <1>1 DEF Uses
<1> QED
  BY <1>1, <1>2 DEF BoundType, Counter

\* Configs that are set.
LEMMA ConfigTypes ==
    ASSUME TypeOK, NEW gs \in SUBSET Group, SetConfigs(gs)
    PROVE  /\ configs' \in SUBSET Group /\ waiting' \in SUBSET Group /\ stored' \in Storage
           /\ stored'.marks = stored.marks
<1>1. configs \in SUBSET Group /\ waiting \in SUBSET Group /\ stored \in Storage
  BY DEF TypeOK
<1>2. CASE Throws(gs)
  <2>1. PICK g \in gs \intersect waiting, some \in SUBSET (gs \ waiting) :
               /\ configs' = configs \union some \union {g}
               /\ stored' = [stored EXCEPT !.configs = @ \union some \union {g}]
               /\ waiting' = waiting \ {g}
    BY <1>2 DEF SetConfigs
  <2> QED
    BY <1>1, <2>1 DEF Storage
<1>3. CASE ~Throws(gs)
  BY <1>1, <1>3 DEF SetConfigs, Storage
<1> QED
  BY <1>2, <1>3

\* Groups that turn out public or private.
LEMMA PublicTypes ==
    ASSUME TypeOK, NEW d \in step, SetPublic(d.groups, d.read)
    PROVE  public' \in [Group -> Publicity]
BY DEF TypeOK, SetPublic, Step

\* An answer about an account, by the loop or late.
LEMMA LearnTypes ==
    ASSUME TypeOK, NEW x \in Group \union {Positions}, NEW a \in Account, Learns(x, a)
    PROVE  /\ status' \in [Group -> SUBSET Account] /\ statusTime' \in [Group -> {"none", "due", "fresh"}]
           /\ sync' \in SUBSET Account /\ reload' \in BOOLEAN
<1>1. CASE x = Positions
  BY <1>1 DEF Learns, FetchedGroupState, TypeOK
<1>2. CASE x # Positions
  <2>1. x \in Group /\ ActualRefreshAddressStatus(x, a)
    BY <1>2 DEF Learns
  <2>2. /\ status \in [Group -> SUBSET Account] /\ statusTime \in [Group -> {"none", "due", "fresh"}]
        /\ sync \in SUBSET Account /\ reload \in BOOLEAN
    BY DEF TypeOK
  <2> QED
    BY <2>1, <2>2 DEF ActualRefreshAddressStatus
<1> QED
  BY <1>1, <1>2

\* What a failed step leaves in flight.
LEMMA LateTypes ==
    ASSUME TypeOK, NEW d \in step, NEW xs \in SUBSET d.beside
    PROVE  LeftBy(d, xs) \subseteq Late
<1>1. d.of \in Account /\ d.beside \subseteq Group \union {Positions} /\ left.fails \in Nat
  BY DEF TypeOK, Step, BoundType
<1> QED
  BY <1>1 DEF LeftBy, Late

\* The loop waits in the step it has begun.
LEMMA AwaitTypes ==
    ASSUME TypeOK, Idle, UNCHANGED app,
           NEW where \in {"boot", "forMe", "marked", "status", "dirty", "sync", "savePublic", "saveMarked"},
           NEW gs \in SUBSET Group, NEW read \in [Group -> Publicity], NEW beside \in SUBSET (Group \union {Positions}),
           AwaitBeside(where, gs, read, beside)
    PROVE  step' \in SUBSET Step /\ (\A d, e \in step' : d = e) /\ (app' = "stopped" => step' = {})
BY DEF TypeOK, Idle, AwaitBeside, Step

\* A request for the members of a group.
LEMMA RequestTypes ==
    ASSUME TypeOK, NEW g \in Group, NEW timer \in BOOLEAN, RefreshGroupMember(g, timer)
    PROVE  processing' \in SUBSET Group /\ excused' \in SUBSET Group /\ fetches' \in SUBSET Request
<1>1. processing \in SUBSET Group /\ excused \in SUBSET Group /\ fetches \in SUBSET Request
  BY DEF TypeOK
<1>2. [group |-> g, version |-> {}, timer |-> timer] \in Request
  BY DEF Request
<1> QED
  BY <1>1, <1>2 DEF RefreshGroupMember

\* The event that is handled.
LEMMA EventTypes ==
    ASSUME TypeOK, events # <<>>
    PROVE  Head(events) \in Event /\ Tail(events) \in Seq(Event)
BY HeadTailProperties DEF TypeOK

\* A change of the service.
LEMMA WorldTypes ==
    ASSUME TypeOK, NEW type \in {"member", "mark", "public", "sync"}, NEW g \in Group, WorldChanges(type, g)
    PROVE  world' \in World /\ events' \in Seq(Event)
<1>1. world \in World /\ account \in Account /\ events \in Seq(Event)
  BY DEF TypeOK
<1>2. world' \in World
  <2>1. ASSUME type = "member" PROVE world' = [world EXCEPT !.version[g] = @ + 1]
    BY <2>1 DEF WorldChanges
  <2>2. ASSUME type = "public"
        PROVE  world' = [world EXCEPT !.public[g] = IF @ = "public" THEN "private" ELSE "public"]
    BY <2>2 DEF WorldChanges
  <2>3. ASSUME type = "mark"
        PROVE  world' = [world EXCEPT !.marks[account] = IF g \in @ THEN @ \ {g} ELSE @ \union {g},
                                      !.everMarked[account] = @ \union {g}]
    BY <2>3 DEF WorldChanges
  <2>4. ASSUME type = "sync" PROVE world' = world
    BY <2>4 DEF WorldChanges
  <2>5. CASE type = "member"
    BY <1>1, <2>1, <2>5 DEF World
  <2>6. CASE type = "public"
    <3> DEFINE p == IF world.public[g] = "public" THEN "private" ELSE "public"
    <3>1. world' = [world EXCEPT !.public = [world.public EXCEPT ![g] = p]]
      BY <1>1, <2>2, <2>6 DEF World
    <3>2. [world.public EXCEPT ![g] = p] \in [Group -> {"public", "private"}]
      BY <1>1 DEF World
    <3> QED
      BY <1>1, <3>1, <3>2 DEF World
  <2>7. CASE type = "mark"
    <3> DEFINE m == IF g \in world.marks[account] THEN world.marks[account] \ {g} ELSE world.marks[account] \union {g}
               e == world.everMarked[account] \union {g}
    <3>1. /\ world.marks \in [Account -> SUBSET Group] /\ world.everMarked \in [Account -> SUBSET Group]
          /\ world.public \in [Group -> {"public", "private"}] /\ world.version \in [Group -> Nat]
      BY <1>1 DEF World
    <3>2. m \in SUBSET Group /\ e \in SUBSET Group
      BY <1>1, <3>1
    <3>3. world' = [marks |-> [world.marks EXCEPT ![account] = m],
                    everMarked |-> [world.everMarked EXCEPT ![account] = e],
                    public |-> world.public, version |-> world.version]
      BY <1>1, <2>3, <2>7 DEF World
    <3> HIDE DEF m, e
    <3> QED
      BY <1>1, <3>1, <3>2, <3>3 DEF World
  <2> QED
    BY <1>1, <2>4, <2>5, <2>6, <2>7
<1>3. [type |-> type, group |-> g, version |-> world'.version[g]] \in Event
  BY <1>2 DEF World, Event
<1>4. events' = Append(events, [type |-> type, group |-> g, version |-> world'.version[g]])
  BY DEF WorldChanges, Happens
<1> QED
  BY <1>1, <1>2, <1>3, <1>4

\* The first state has the types.
LEMMA TypeInit ==
    ASSUME Init
    PROVE  TypeOK
<1>1. left \in BoundType
  BY BoundsAssumption DEF Init
<1>2. left.marks \in [Account -> SUBSET Group] /\ left.known \in SUBSET Group
  BY <1>1 DEF BoundType
<1>3. world \in World /\ stored \in Storage
  BY <1>2 DEF Init, World, Storage
<1>4. events \in Seq(Event) /\ fetches \subseteq Request /\ step \subseteq Step
  BY DEF Init
<1>5. /\ status \in [Group -> SUBSET Account] /\ statusTime \in [Group -> {"none", "due", "fresh"}]
      /\ public \in [Group -> Publicity] /\ members \in [Group -> Nat] /\ heard \in [Group -> Nat]
  BY DEF Init, Publicity
<1> QED
  BY <1>1, <1>3, <1>4, <1>5 DEF Init, TypeOK

\* Every step keeps them: a case per action.
LEMMA TypeStep ==
    ASSUME TypeOK, [Next]_vars
    PROVE  TypeOK'
<1> USE UsesTypes DEF Counter, TypeOK, contextVars, listVars, publicVars, statusVars, configVars, memberVars
<1>0. /\ world.public \in [Group -> Publicity] /\ world.marks[account] \in SUBSET Group /\ Included \in SUBSET Group
      /\ StatusDue \in SUBSET Group /\ {} \in SUBSET (Group \union {Positions})
      /\ StatusDue \in SUBSET (Group \union {Positions}) /\ {Positions} \in SUBSET (Group \union {Positions})
  BY DEF World, Publicity, Included, StatusDue, AllGroupIds, MarkedIds
<1>a. NotesStatusDue => statusTime' \in [Group -> {"none", "due", "fresh"}]
  BY DEF NotesStatusDue
<1>1. ASSUME PublicGroupOnBoot PROVE TypeOK'
  <2>1. CASE boot \subseteq processed
    BY <1>1, <2>1 DEF PublicGroupOnBoot
  <2>2. CASE ~(boot \subseteq processed)
    <3>1. Idle /\ UNCHANGED app /\ boot \ processed \in SUBSET Group /\ AwaitBeside("boot", boot \ processed, world.public, {})
      BY <1>1, <2>2 DEF PublicGroupOnBoot, Await
    <3>2. step' \in SUBSET Step /\ (\A d, e \in step' : d = e) /\ (app' = "stopped" => step' = {})
      BY <1>0, <3>1, AwaitTypes
    <3> QED
      BY <1>1, <3>2 DEF PublicGroupOnBoot
  <2> QED
    BY <2>1, <2>2
<1>2. ASSUME TryRefreshForMe PROVE TypeOK'
  <2> DEFINE b == IF sync = {} /\ Included # {} THEN {Positions} ELSE {}
  <2>1. Idle /\ UNCHANGED app /\ AwaitBeside("forMe", Included, world.public, b) /\ b \in SUBSET (Group \union {Positions})
    BY <1>2 DEF TryRefreshForMe
  <2> HIDE DEF b
  <2>2. step' \in SUBSET Step /\ (\A d, e \in step' : d = e) /\ (app' = "stopped" => step' = {})
    BY <1>0, <2>1, AwaitTypes
  <2> QED
    BY <1>2, <2>2 DEF TryRefreshForMe
<1>3. ASSUME TryRefreshMarked PROVE TypeOK'
  <2>1. PICK b \in SUBSET (Group \union {Positions}) : AwaitBeside("marked", world.marks[account], world.public, b)
    BY <1>0, <1>3 DEF TryRefreshMarked, Await
  <2>2. step' \in SUBSET Step /\ (\A d, e \in step' : d = e) /\ (app' = "stopped" => step' = {})
    BY <1>0, <1>3, <2>1, AwaitTypes DEF TryRefreshMarked
  <2>3. statusTime' \in [Group -> {"none", "due", "fresh"}]
    BY <1>3, <1>a DEF TryRefreshMarked
  <2> QED
    BY <1>3, <2>2, <2>3 DEF TryRefreshMarked
<1>4. ASSUME TryRefreshAddressStatus PROVE TypeOK'
  <2>1. Idle /\ UNCHANGED app /\ AwaitBeside("status", StatusDue, world.public, StatusDue)
    BY <1>4 DEF TryRefreshAddressStatus, Await
  <2>2. step' \in SUBSET Step /\ (\A d, e \in step' : d = e) /\ (app' = "stopped" => step' = {})
    BY <1>0, <2>1, AwaitTypes
  <2> QED
    BY <1>4, <1>a, <2>2 DEF TryRefreshAddressStatus
<1>5. ASSUME RefreshDirtyGroupIds PROVE TypeOK'
  <2>1. Idle /\ UNCHANGED app /\ AwaitBeside("dirty", dirty, world.public, {})
    BY <1>5 DEF RefreshDirtyGroupIds, Await, Quiet
  <2>2. step' \in SUBSET Step /\ (\A d, e \in step' : d = e) /\ (app' = "stopped" => step' = {})
    BY <1>0, <2>1, AwaitTypes
  <2> QED
    BY <1>5, <1>a, <2>2 DEF RefreshDirtyGroupIds
<1>6. ASSUME FetchGroupState PROVE TypeOK'
  <2>1. Idle /\ UNCHANGED app /\ AwaitBeside("sync", {}, world.public, {Positions})
    BY <1>6 DEF FetchGroupState, Await, Quiet
  <2>2. step' \in SUBSET Step /\ (\A d, e \in step' : d = e) /\ (app' = "stopped" => step' = {})
    BY <1>0, <2>1, AwaitTypes
  <2> QED
    BY <1>6, <1>a, <2>2 DEF FetchGroupState
<1>7. ASSUME PersistGroupPublicStatuses PROVE TypeOK'
  <2>1. Idle /\ UNCHANGED app /\ AwaitBeside("savePublic", marked, public, {})
    BY <1>7 DEF PersistGroupPublicStatuses, Await, Quiet, Persist
  <2>2. step' \in SUBSET Step /\ (\A d, e \in step' : d = e) /\ (app' = "stopped" => step' = {})
    BY <1>0, <2>1, AwaitTypes
  <2> QED
    BY <1>7, <1>a, <2>2 DEF PersistGroupPublicStatuses
<1>9. ASSUME UpdateAllGroupIds PROVE TypeOK'
  BY <1>9 DEF UpdateAllGroupIds, AllGroupIds, MarkedIds
<1>10. ASSUME HandleEvent PROVE TypeOK'
  <2> DEFINE e == Head(events)
  <2>1. e \in Event /\ events' \in Seq(Event)
    BY <1>10, EventTypes DEF HandleEvent
  <2> HIDE DEF e
  <2>2. CASE e.type = "member"
    <3>1. e.group \in Group /\ e.version \in Nat
      BY <2>1 DEF Event
    <3>2. CASE /\ due' = due \union {"marked"} /\ RefreshGroupMember(e.group, TRUE)
               /\ heard' = [heard EXCEPT ![e.group] = e.version] /\ UNCHANGED <<dirty, reload, left>>
      <4>1. processing' \in SUBSET Group /\ excused' \in SUBSET Group /\ fetches' \in SUBSET Request
        BY <3>1, <3>2, RequestTypes
      <4>2. heard' \in [Group -> Nat] /\ due' \subseteq {"forMe", "marked", "all"}
        BY <3>1, <3>2
      <4> QED
        BY <1>10, <2>1, <3>2, <4>1, <4>2 DEF HandleEvent
    <3>3. CASE /\ Uses("fails") /\ excused' = excused \union {e.group}
               /\ UNCHANGED <<due, processing, fetches, heard, dirty, reload>>
      BY <1>10, <2>1, <3>1, <3>3 DEF HandleEvent
    <3> QED
      BY <1>10, <2>2, <3>2, <3>3 DEF HandleEvent, e
  <2>3. CASE e.type # "member"
    <3>1. e.type \in {"mark", "public", "sync"} /\ e.group \in Group
      BY <2>1, <2>3 DEF Event
    <3>2. /\ due' \subseteq {"forMe", "marked", "all"} /\ dirty' \subseteq Group /\ reload' \in BOOLEAN
          /\ UNCHANGED <<processing, fetches, heard, excused, left>>
      BY <1>10, <3>1 DEF HandleEvent, e
    <3> QED
      BY <1>10, <2>1, <3>2 DEF HandleEvent
  <2> QED
    BY <2>2, <2>3
<1>11. ASSUME NEW d \in step, ForMeAnswered(d) PROVE TypeOK'
  <2>1. d.groups \in SUBSET Group /\ d.of \in Account /\ step' = {}
    BY <1>11 DEF Step, Ends, ForMeAnswered
  <2>2. configs' \in SUBSET Group /\ waiting' \in SUBSET Group /\ stored' \in Storage
    BY <1>11, <2>1, ConfigTypes DEF ForMeAnswered
  <2>3. public' \in [Group -> Publicity]
    BY <1>11, PublicTypes DEF ForMeAnswered
  <2>4. forMe' \subseteq Group /\ due' \subseteq due /\ boot' \subseteq Group
    BY ONLY TypeOK, <1>11, <2>1 DEF ForMeAnswered
  <2>6. loading' \in BOOLEAN /\ unsaved' \subseteq {"public", "marked"}
    BY <1>11, <2>1 DEF ForMeAnswered
  <2>5. app' \in {"running", "stopping", "stopped"} /\ UNCHANGED <<account, loggedIn, includes, listening, started,
            marked, loaded, dirty, processed, status, statusTime, sync, reload, allIds, warming, members, processing,
            fetches, heard, excused, late, refilled, events, world, left>>
    BY <1>11 DEF ForMeAnswered, Ends
  <2> QED
    BY <2>1, <2>2, <2>3, <2>4, <2>5, <2>6
<1>12. ASSUME NEW d \in step, MarkedAnswered(d) PROVE TypeOK'
  <2>1. d.groups \in SUBSET Group /\ d.of \in Account /\ step' = {}
    BY <1>12 DEF Step, Ends, MarkedAnswered
  <2>2. configs' \in SUBSET Group /\ waiting' \in SUBSET Group /\ stored' \in Storage
    BY <1>12, <2>1, ConfigTypes DEF MarkedAnswered
  <2>3. public' \in [Group -> Publicity]
    BY <1>12, PublicTypes DEF MarkedAnswered
  <2>4. marked' \subseteq Group /\ due' \subseteq due
    BY ONLY TypeOK, <1>12, <2>1 DEF MarkedAnswered
  <2>6. loaded' \in BOOLEAN /\ unsaved' \subseteq {"public", "marked"}
    BY <1>12, <2>1 DEF MarkedAnswered
  <2>5. app' \in {"running", "stopping", "stopped"} /\ UNCHANGED <<account, loggedIn, includes, listening, forMe,
            loading, started, dirty, boot, processed, status, statusTime, sync, reload, allIds, warming,
            members, processing, fetches, heard, excused, late, refilled, events, world, left>>
    BY <1>12 DEF MarkedAnswered, Ends
  <2> QED
    BY <2>1, <2>2, <2>3, <2>4, <2>5, <2>6
<1>13. ASSUME NEW d \in step, DirtyAnswered(d) PROVE TypeOK'
  <2>1. public' \in [Group -> Publicity] /\ unsaved' \subseteq {"public", "marked"} /\ left' \in BoundType
    BY <1>13, PublicTypes DEF DirtyAnswered
  <2> QED
    BY <1>13, <2>1 DEF DirtyAnswered, Ends
<1>14. ASSUME NEW d \in step, BootAnswered(d) PROVE TypeOK'
  BY <1>14 DEF BootAnswered, At, Ends, Step, SetPublic
<1>15. ASSUME NEW d \in step, NEW x \in d.beside, BesideAnswered(d, x) PROVE TypeOK'
  <2>1. d \in Step /\ d.of \in Account /\ x \in Group \union {Positions}
    BY DEF Step
  <2>2. [d EXCEPT !.beside = @ \ {x}] \in Step
    BY <2>1 DEF Step
  <2>3. step' \in SUBSET Step /\ (\A e, f \in step' : e = f) /\ (app' = "stopped" => step' = {})
    BY <1>15, <2>2 DEF BesideAnswered
  <2>4. CASE /\ Learns(x, d.of)
             /\ refilled' = (IF app = "running" THEN refilled \ {x} ELSE refilled \union {x})
             /\ UNCHANGED left
    <3>1. /\ status' \in [Group -> SUBSET Account] /\ statusTime' \in [Group -> {"none", "due", "fresh"}]
          /\ sync' \in SUBSET Account /\ reload' \in BOOLEAN
      BY <2>1, <2>4, LearnTypes
    <3>2. refilled' \subseteq Group \union {Positions}
      BY <2>1, <2>4
    <3> QED
      BY <1>15, <2>3, <2>4, <3>1, <3>2 DEF BesideAnswered
  <2>5. CASE x = Positions /\ Uses("fails") /\ UNCHANGED <<status, statusTime, sync, reload, refilled>>
    BY <1>15, <2>3, <2>5 DEF BesideAnswered
  <2> QED
    BY <1>15, <2>4, <2>5 DEF BesideAnswered
<1>16. ASSUME NEW l \in late, LateAnswered(l) PROVE TypeOK'
  <2>1. l.of \in Account /\ l.about \in Group \union {Positions}
    BY DEF Late
  <2>2. CASE Learns(l.about, l.of) /\ refilled' = refilled \union {l.about} /\ UNCHANGED left
    <3>1. /\ status' \in [Group -> SUBSET Account] /\ statusTime' \in [Group -> {"none", "due", "fresh"}]
          /\ sync' \in SUBSET Account /\ reload' \in BOOLEAN
      BY <2>1, <2>2, LearnTypes
    <3> QED
      BY <1>16, <2>1, <2>2, <3>1 DEF LateAnswered
  <2>3. CASE Uses("fails") /\ UNCHANGED <<status, statusTime, sync, reload, refilled>>
    BY <1>16, <2>3 DEF LateAnswered
  <2> QED
    BY <1>16, <2>2, <2>3 DEF LateAnswered
<1>17. ASSUME NEW d \in step, RefreshFails(d) PROVE TypeOK'
  <2>1. late' \subseteq Late
    <3>1. PICK xs \in SUBSET d.beside : late' = late \union LeftBy(d, xs)
      BY <1>17 DEF RefreshFails
    <3> QED
      BY <3>1, LateTypes
  <2> QED
    BY <1>17, <2>1 DEF RefreshFails, Ends
<1>18. ASSUME NEW d \in step, PublicPersisted(d) PROVE TypeOK'
  <2> DEFINE p == {d.read}
  <2>1. p \in SUBSET [Group -> Publicity] /\ stored' = [stored EXCEPT !.public = p]
    BY <1>18 DEF PublicPersisted, Step
  <2> HIDE DEF p
  <2>2. stored' \in Storage
    BY <2>1 DEF Storage
  <2>3. /\ step' \in SUBSET Step /\ (\A e, f \in step' : e = f) /\ (app' = "stopped" => step' = {})
        /\ app' \in {"running", "stopping", "stopped"}
    <3>1. CASE "marked" \in unsaved
      <4> DEFINE r == [at |-> "saveMarked", of |-> account, groups |-> marked, read |-> public, beside |-> {}]
      <4>1. r \in Step
        BY DEF Step
      <4>2. step' = {r} /\ app' = app
        BY <1>18, <3>1 DEF PublicPersisted, Persist, Await, AwaitBeside
      <4> HIDE DEF r
      <4>3. app # "stopped"
        OBVIOUS
      <4> QED
        BY <4>1, <4>2, <4>3
    <3>2. CASE "marked" \notin unsaved
      BY <1>18, <3>2 DEF PublicPersisted, Rested
    <3> QED
      BY <3>1, <3>2
  <2> QED
    BY <1>18, <2>2, <2>3 DEF PublicPersisted
<1>19. ASSUME NEW d \in step, MarkedPersisted(d) PROVE TypeOK'
  <2> DEFINE marks == [stored.marks EXCEPT ![account] = {d.groups}]
  <2>1. d.groups \in SUBSET Group /\ stored \in Storage /\ stored.marks \in [Account -> SUBSET SUBSET Group]
    BY DEF Step, Storage
  <2>2. marks \in [Account -> SUBSET SUBSET Group]
    BY <2>1
  <2>3. stored' = [stored EXCEPT !.marks = marks]
    BY <1>19 DEF MarkedPersisted
  <2> HIDE DEF marks
  <2>4. stored' \in Storage
    BY <2>1, <2>2, <2>3 DEF Storage
  <2> QED
    BY <1>19, <2>4 DEF MarkedPersisted, Rested
<1>20. ASSUME Start PROVE TypeOK'
  BY <1>20 DEF Start, Included, WarmUp, Storage
<1>21. ASSUME Stop PROVE TypeOK'
  BY <1>21 DEF Stop, CacheClear
<1>22. ASSUME LogIn PROVE TypeOK'
  BY <1>22 DEF LogIn
<1>23. ASSUME PauseAndResume PROVE TypeOK'
  BY <1>23 DEF PauseAndResume
<1>24. ASSUME TimePasses PROVE TypeOK'
  BY <1>24 DEF TimePasses
<1>25. ASSUME NEW a \in Account, SwitchAccount(a) PROVE TypeOK'
  BY <1>25 DEF SwitchAccount
<1>26. ASSUME NEW gs \in SUBSET Group, SetIncludes(gs) PROVE TypeOK'
  BY <1>26 DEF SetIncludes, SetIncludesAndExcludes, OnIncludesAndExcludesChanged, WarmUp
<1>27. ASSUME NEW gs \in warming, WarmedUp(gs) PROVE TypeOK'
  <2> DEFINE found == gs \intersect (configs \union stored.configs)
  <2>1. found \subseteq Group /\ gs \subseteq Group
    BY DEF Storage
  <2>2. /\ warming' = warming \ {gs} /\ configs' = configs \union found
        /\ forMe' \in {forMe, found} /\ waiting' \subseteq waiting /\ loading' \in BOOLEAN
    BY <1>27 DEF WarmedUp
  <2> HIDE DEF found
  <2> QED
    BY <1>27, <2>1, <2>2 DEF WarmedUp
<1>28. ASSUME NEW f \in fetches, ReadMembers(f) PROVE TypeOK'
  <2> DEFINE v == {world.version[f.group]}
             r == [f EXCEPT !.version = v, !.timer = FALSE]
  <2>1. f \in Request /\ v \in SUBSET Nat
    BY DEF World, Request
  <2>2. fetches' = (fetches \ {f}) \union {r}
    BY <1>28 DEF ReadMembers
  <2> HIDE DEF v
  <2>3. r \in Request
    BY <2>1 DEF Request
  <2> HIDE DEF r
  <2> QED
    BY <1>28, <2>2, <2>3 DEF ReadMembers
<1>29. ASSUME NEW f \in fetches, MembersAnswered(f) PROVE TypeOK'
  BY <1>29 DEF MembersAnswered, Request
<1>30. ASSUME NEW f \in fetches, MembersFail(f) PROVE TypeOK'
  BY <1>30 DEF MembersFail, Request
<1>31. ASSUME NEW g \in Group, WaitForConfig(g) PROVE TypeOK'
  BY <1>31 DEF WaitForConfig
<1>32. ASSUME NEW g \in Group, WaitTimesOut(g) PROVE TypeOK'
  BY <1>32 DEF WaitTimesOut
<1>33. ASSUME NEW g \in Group, EnterGroup(g) PROVE TypeOK'
  <2>1. processing' \in SUBSET Group /\ excused' \in SUBSET Group /\ fetches' \in SUBSET Request
    BY <1>33, RequestTypes DEF EnterGroup
  <2> QED
    BY <1>33, <2>1 DEF EnterGroup
<1>34. ASSUME NEW type \in {"member", "mark", "public", "sync"}, NEW g \in Group, WorldChanges(type, g) PROVE TypeOK'
  <2>1. world' \in World /\ events' \in Seq(Event)
    BY <1>34, WorldTypes
  <2> QED
    BY <1>34, <2>1 DEF WorldChanges
<1>35. ASSUME UNCHANGED vars PROVE TypeOK'
  BY <1>35 DEF vars
<1>36. ASSUME Rests PROVE TypeOK'
  BY <1>36 DEF Rests, Quiet, Idle
<1> QED
  BY ONLY [Next]_vars, <1>1, <1>2, <1>3, <1>4, <1>5, <1>6, <1>7, <1>9, <1>10, <1>11, <1>12, <1>13, <1>14,
    <1>15, <1>16, <1>17, <1>18, <1>19, <1>20, <1>21, <1>22, <1>23, <1>24, <1>25, <1>26, <1>27, <1>28,
    <1>29, <1>30, <1>31, <1>32, <1>33, <1>34, <1>35, <1>36
  DEF Next, Work, Begin, Answered, LateWork, Warm, Fetch

\* Every variable of GroupMemberDomain stays within its type; the loop waits
\* in at most one step, and in none when it is stopped.
THEOREM TypeCorrect == Spec => []TypeOK
BY TypeInit, TypeStep, PTL DEF Spec

-----------------------------------------------------------------------------
(* Whose data the domain holds.                                            *)

\* The step that is waited for is of the account, which changes only when the
\* loop has come to rest; marks that are asked for, held or stored were marked
\* by the account they are of; and while the loop does not run nothing is held
\* of anyone, but what was filled again after the caches were cleared.
Here == IF app = "running" THEN {account} ELSE {}
Right(s) == \A d \in s : /\ d.of = account
                         /\ d.at \in {"marked", "saveMarked"} => d.groups \subseteq world.everMarked[account]
MarksInv ==
    /\ \A a \in Account : /\ world.marks[a] \subseteq world.everMarked[a]
                          /\ \A m \in stored.marks[a] : m \subseteq world.everMarked[a]
    /\ app # "stopped" => marked \subseteq world.everMarked[account]
HeldInv ==
    /\ \A g \in Group : g \in refilled \/ status[g] \subseteq Here
    /\ Positions \in refilled \/ sync \subseteq Here
AccountInv == Right(step) /\ MarksInv /\ HeldInv

\* What a step may do to this.  The loop begins a step or takes its answer, or
\* something happens that is no matter of accounts; or an answer tells what an
\* address has.
Turns ==
    /\ app' = app \/ (app = "stopping" /\ app' = "stopped")
    /\ UNCHANGED <<account, status, sync, refilled, world>>
    /\ Right(step')
    /\ marked' = marked \/ marked' \subseteq world.everMarked[account]
    /\ \A a \in Account : \A m \in stored'.marks[a] : m \in stored.marks[a] \/ m \subseteq world.everMarked[a]
Fills ==
    /\ UNCHANGED <<app, account, marked, world, stored>>
    /\ Right(step')
    /\ \E x \in Group \union {Positions}, a \in Account :
           /\ Learns(x, a)
           /\ \/ refilled' = refilled \union {x}
              \/ app = "running" /\ a = account /\ refilled' = refilled \ {x}

\* These keep what is held of the account.
LEMMA AccountKept ==
    ASSUME TypeOK, AccountInv, Turns \/ Fills
    PROVE  AccountInv'
<1>1. CASE Turns
  <2>1. MarksInv'
    BY <1>1 DEF Turns, AccountInv, MarksInv
  <2>2. HeldInv'
    BY <1>1 DEF Turns, AccountInv, HeldInv, Here
  <2>3. Right(step)'
    BY <1>1 DEF Turns, Right
  <2> QED
    BY <2>1, <2>2, <2>3 DEF AccountInv
<1>2. CASE Fills
  <2>1. PICK x \in Group \union {Positions}, a \in Account :
             /\ Learns(x, a)
             /\ \/ refilled' = refilled \union {x}
                \/ app = "running" /\ a = account /\ refilled' = refilled \ {x}
    BY <1>2 DEF Fills
  <2>2. MarksInv' /\ Right(step)' /\ Here' = Here
    BY <1>2 DEF Fills, AccountInv, MarksInv, Right, Here
  <2>3. CASE x = Positions
    <3>1. sync' = {a} /\ UNCHANGED status /\ x \notin Group
      BY <2>1, <2>3, GroupAssumption DEF Learns, FetchedGroupState
    <3>2. HeldInv'
      BY <2>1, <2>2, <2>3, <3>1 DEF AccountInv, HeldInv, Here
    <3> QED
      BY <2>2, <3>2 DEF AccountInv
  <2>4. CASE x # Positions
    <3>1. x \in Group /\ status' = [status EXCEPT ![x] = {a}] /\ UNCHANGED sync
      BY <2>1, <2>4 DEF Learns, ActualRefreshAddressStatus
    <3>2. status \in [Group -> SUBSET Account]
      BY DEF TypeOK
    <3>3. HeldInv'
      BY <2>1, <2>2, <2>4, <3>1, <3>2 DEF AccountInv, HeldInv, Here
    <3> QED
      BY <2>2, <3>3 DEF AccountInv
  <2> QED
    BY <2>3, <2>4
<1> QED
  BY <1>1, <1>2

\* The steps that the loop begins.
LEMMA LoopAsks ==
    ASSUME TypeOK, AccountInv, Begin
    PROVE  Turns
<1> USE DEF Turns, Right, AwaitBeside, contextVars, listVars, publicVars, statusVars
<1>1. Right(step)
  BY DEF AccountInv
<1>2. ASSUME PublicGroupOnBoot PROVE Turns
  BY <1>1, <1>2 DEF PublicGroupOnBoot, Await
<1>3. ASSUME TryRefreshForMe PROVE Turns
  BY <1>3 DEF TryRefreshForMe
<1>4. ASSUME TryRefreshMarked PROVE Turns
  <2>1. world.marks[account] \subseteq world.everMarked[account]
    BY DEF AccountInv, MarksInv, TypeOK
  <2>2. Right(step')
    BY <1>4, <2>1 DEF TryRefreshMarked, Await
  <2> QED
    BY <1>4, <2>2 DEF TryRefreshMarked
<1>5. ASSUME UpdateAllGroupIds \/ HandleEvent \/ Rests PROVE Turns
  BY <1>1, <1>5 DEF UpdateAllGroupIds, HandleEvent, Rests
<1>6. ASSUME TryRefreshAddressStatus PROVE Turns
  BY <1>6 DEF TryRefreshAddressStatus
<1>7. ASSUME RefreshDirtyGroupIds \/ FetchGroupState PROVE Turns
  BY <1>7 DEF RefreshDirtyGroupIds, FetchGroupState, Await
<1>8. ASSUME PersistGroupPublicStatuses PROVE Turns
  BY <1>8 DEF PersistGroupPublicStatuses, Persist, Await
<1> QED
  BY <1>2, <1>3, <1>4, <1>5, <1>6, <1>7, <1>8 DEF Begin

\* Their answers.
LEMMA LoopAnswers ==
    ASSUME TypeOK, AccountInv, NEW d \in step, Answered(d) \/ RefreshFails(d)
    PROVE  Turns \/ Fills
<1> USE DEF Ends, contextVars, listVars, publicVars, statusVars
<1>1. /\ d.of = account /\ account \in Account /\ d.groups \in SUBSET Group /\ app # "stopped"
      /\ d.at \in {"marked", "saveMarked"} => d.groups \subseteq world.everMarked[account]
      /\ marked \subseteq world.everMarked[account] /\ stored \in Storage
  BY DEF AccountInv, MarksInv, Right, TypeOK, Step
<1>2. ASSUME BootAnswered(d) \/ DirtyAnswered(d) \/ RefreshFails(d) PROVE Turns
  <2>1. stored'.marks = stored.marks
    BY <1>1, <1>2 DEF BootAnswered, DirtyAnswered, RefreshFails, Storage
  <2> QED
    BY <1>2, <2>1 DEF BootAnswered, DirtyAnswered, RefreshFails, Turns, Right
<1>3. ASSUME ForMeAnswered(d) PROVE Turns
  <2>1. stored'.marks = stored.marks
    BY <1>1, <1>3, ConfigTypes DEF ForMeAnswered
  <2> QED
    BY <1>1, <1>3, <2>1 DEF ForMeAnswered, Turns, Right
<1>4. ASSUME MarkedAnswered(d) PROVE Turns
  <2>1. stored'.marks = stored.marks
    BY <1>1, <1>4, ConfigTypes DEF MarkedAnswered
  <2>2. d.at = "marked"
    BY <1>4 DEF MarkedAnswered, At
  <2> QED
    BY <1>1, <1>4, <2>1, <2>2 DEF MarkedAnswered, Turns, Right
<1>5. ASSUME PublicPersisted(d) PROVE Turns
  <2>1. stored'.marks = stored.marks
    BY <1>1, <1>5 DEF PublicPersisted, Storage
  <2>2. Right(step')
    BY <1>1, <1>5 DEF PublicPersisted, Persist, Await, AwaitBeside, Right
  <2>3. app' = app \/ (app = "stopping" /\ app' = "stopped")
    BY <1>5 DEF PublicPersisted, Rested
  <2> QED
    BY <1>5, <2>1, <2>2, <2>3 DEF PublicPersisted, Turns
<1>6. ASSUME MarkedPersisted(d) PROVE Turns
  <2>1. d.at = "saveMarked" /\ stored' = [stored EXCEPT !.marks[account] = {d.groups}]
    BY <1>6 DEF MarkedPersisted, At
  <2>2. \A a \in Account : stored'.marks[a] = IF a = account THEN {d.groups} ELSE stored.marks[a]
    BY <1>1, <2>1 DEF Storage
  <2> QED
    BY <1>1, <1>6, <2>1, <2>2 DEF MarkedPersisted, Rested, Turns, Right
<1>7. ASSUME NEW x \in d.beside, BesideAnswered(d, x) PROVE Turns \/ Fills
  <2>1. x \in Group \union {Positions} /\ d \in Step
    BY DEF TypeOK, Step
  <2>2. Right(step')
    <3>1. /\ [d EXCEPT !.beside = @ \ {x}].of = d.of /\ [d EXCEPT !.beside = @ \ {x}].at = d.at
          /\ [d EXCEPT !.beside = @ \ {x}].groups = d.groups
      BY <2>1 DEF Step
    <3> QED
      BY <1>1, <1>7, <3>1 DEF BesideAnswered, Right
  <2>3. UNCHANGED <<app, account, marked, world, stored>>
    BY <1>7 DEF BesideAnswered
  <2>4. CASE /\ Learns(x, d.of)
             /\ refilled' = (IF app = "running" THEN refilled \ {x} ELSE refilled \union {x})
    BY <1>1, <2>1, <2>2, <2>3, <2>4 DEF Fills
  <2>5. CASE UNCHANGED <<status, statusTime, sync, reload, refilled>>
    BY <2>2, <2>3, <2>5 DEF Turns
  <2> QED
    BY <1>7, <2>4, <2>5 DEF BesideAnswered
<1> QED
  BY <1>2, <1>3, <1>4, <1>5, <1>6, <1>7 DEF Answered

\* The answers of requests that a failed step has left.
LEMMA LateKept ==
    ASSUME TypeOK, AccountInv, NEW l \in late, LateAnswered(l)
    PROVE  Turns \/ Fills
<1>1. l.of \in Account /\ l.about \in Group \union {Positions}
  BY DEF TypeOK, Late
<1>2. Right(step')
  BY DEF LateAnswered, AccountInv, Right
<1>3. UNCHANGED <<app, account, marked, world, stored>>
  BY DEF LateAnswered, contextVars, listVars
<1>4. CASE Learns(l.about, l.of) /\ refilled' = refilled \union {l.about}
  BY <1>1, <1>2, <1>3, <1>4 DEF Fills
<1>5. CASE UNCHANGED <<status, statusTime, sync, reload, refilled>>
  BY <1>2, <1>3, <1>5 DEF Turns
<1> QED
  BY <1>4, <1>5 DEF LateAnswered

\* Every step keeps what is held of the account.
LEMMA AccountStep ==
    ASSUME TypeOK, AccountInv, [Next]_vars
    PROVE  AccountInv'
<1> USE DEF contextVars, listVars, publicVars, statusVars, configVars
<1>1. ASSUME Begin PROVE AccountInv'
  BY <1>1, LoopAsks, AccountKept
<1>2. ASSUME NEW d \in step, Answered(d) \/ RefreshFails(d) PROVE AccountInv'
  BY <1>2, LoopAnswers, AccountKept
<1>8. ASSUME NEW l \in late, LateAnswered(l) PROVE AccountInv'
  BY <1>8, LateKept, AccountKept
<1>3. ASSUME \/ TimePasses \/ LogIn \/ PauseAndResume \/ UNCHANGED vars
             \/ \E gs \in warming : WarmedUp(gs)
             \/ \E gs \in SUBSET Group : SetIncludes(gs)
             \/ \E f \in fetches : ReadMembers(f) \/ MembersAnswered(f) \/ MembersFail(f)
             \/ \E g \in Group : WaitForConfig(g) \/ WaitTimesOut(g) \/ EnterGroup(g)
      PROVE  AccountInv'
  <2>1. UNCHANGED <<app, account, marked, status, sync, refilled, step, world, stored>>
    BY <1>3 DEF TimePasses, LogIn, PauseAndResume, vars, WarmedUp, SetIncludes, ReadMembers, MembersAnswered,
                MembersFail, WaitForConfig, WaitTimesOut, EnterGroup
  <2>2. Turns
    BY <2>1 DEF Turns, AccountInv, Right
  <2> QED
    BY <2>2, AccountKept
<1>4. ASSUME Start PROVE AccountInv'
  <2>1. /\ app = "stopped" /\ app' = "running" /\ marked' = UNION stored.marks[account]
        /\ UNCHANGED <<account, status, sync, refilled, step, world, stored>>
    BY <1>4 DEF Start
  <2>2. MarksInv' /\ Right(step)'
    BY <2>1 DEF AccountInv, MarksInv, TypeOK, Right
  <2>3. HeldInv'
    BY <2>1 DEF AccountInv, HeldInv, Here
  <2> QED
    BY <2>2, <2>3 DEF AccountInv
<1>5. ASSUME Stop PROVE AccountInv'
  <2>1. /\ app' = "stopping" /\ marked' = {} /\ status' = [g \in Group |-> {}] /\ sync' = {}
        /\ UNCHANGED <<account, step, world, stored>>
    BY <1>5 DEF Stop, CacheClear
  <2>2. MarksInv' /\ Right(step)'
    BY <2>1 DEF AccountInv, MarksInv, Right
  <2>3. HeldInv'
    BY <2>1 DEF HeldInv
  <2> QED
    BY <2>2, <2>3 DEF AccountInv
<1>6. ASSUME NEW a \in Account, SwitchAccount(a) PROVE AccountInv'
  <2>1. app = "stopped" /\ step = {} /\ UNCHANGED <<app, marked, status, sync, refilled, step, world, stored>>
    BY <1>6 DEF SwitchAccount, TypeOK
  <2>2. MarksInv' /\ Right(step)'
    BY <2>1 DEF AccountInv, MarksInv, Right
  <2>3. HeldInv'
    BY <2>1 DEF AccountInv, HeldInv, Here
  <2> QED
    BY <2>2, <2>3 DEF AccountInv
<1>7. ASSUME NEW type \in {"member", "mark", "public", "sync"}, NEW g \in Group, WorldChanges(type, g)
      PROVE  AccountInv'
  <2>1. UNCHANGED <<app, account, marked, status, sync, refilled, step, stored>> /\ account \in Account
    BY <1>7 DEF WorldChanges, TypeOK
  <2>2. \A a \in Account : /\ world.everMarked[a] \subseteq world'.everMarked[a]
                           /\ world'.marks[a] \subseteq world.marks[a] \union world'.everMarked[a]
    <3>1. world \in World
      BY DEF TypeOK
    <3>2. CASE type = "mark"
      <4>1. world' = [world EXCEPT !.marks[account] = IF g \in @ THEN @ \ {g} ELSE @ \union {g},
                                   !.everMarked[account] = @ \union {g}]
        BY <1>7, <3>2 DEF WorldChanges
      <4>2. /\ world'.marks = [world.marks EXCEPT ![account] = IF g \in @ THEN @ \ {g} ELSE @ \union {g}]
            /\ world'.everMarked = [world.everMarked EXCEPT ![account] = @ \union {g}]
        BY <3>1, <4>1 DEF World
      <4>3. world.marks \in [Account -> SUBSET Group] /\ world.everMarked \in [Account -> SUBSET Group]
        BY <3>1 DEF World
      <4> QED
        BY <2>1, <4>2, <4>3
    <3>3. CASE type # "mark"
      <4>1. world' \in {world, [world EXCEPT !.version[g] = @ + 1],
                        [world EXCEPT !.public[g] = IF @ = "public" THEN "private" ELSE "public"]}
        BY <1>7, <3>3 DEF WorldChanges
      <4> QED
        BY <3>1, <4>1 DEF World
    <3> QED
      BY <3>2, <3>3
  <2>3. MarksInv' /\ Right(step)'
    BY <2>1, <2>2 DEF AccountInv, MarksInv, TypeOK, Right
  <2>4. HeldInv'
    BY <2>1 DEF AccountInv, HeldInv, Here
  <2> QED
    BY <2>3, <2>4 DEF AccountInv
<1> QED
  BY <1>1, <1>2, <1>3, <1>4, <1>5, <1>6, <1>7, <1>8 DEF Next, Work, LateWork, Warm, Fetch

\* What the domain holds of an address - its standing in groups, its marks,
\* its read positions - is of the account in use, for any switches, marks and
\* failures (cacheClear, stop, start and poll of GroupMemberDomain), but for
\* what a drain or a late answer filled again, until it is refreshed.
THEOREM HeldRight == Spec => []OfAccount
<1>1. Init => AccountInv
  <2> SUFFICES ASSUME Init PROVE AccountInv
    OBVIOUS
  <2>1. left \in BoundType /\ app = "stopped" /\ step = {} /\ sync = {} /\ \A g \in Group : status[g] = {}
    BY BoundsAssumption DEF Init
  <2>2. world.marks = left.marks /\ world.everMarked = left.marks /\ \A a \in Account : stored.marks[a] = {}
    BY DEF Init
  <2> QED
    BY <2>1, <2>2 DEF Init, AccountInv, MarksInv, HeldInv, Right
<1>2. TypeOK /\ AccountInv /\ [Next]_vars => AccountInv'
  BY AccountStep
<1>3. AccountInv => OfAccount
  BY DEF AccountInv, MarksInv, HeldInv, Here, OfAccount
<1> QED
  BY <1>1, <1>2, <1>3, TypeCorrect, PTL DEF Spec
=============================================================================
