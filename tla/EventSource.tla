---------------------------- MODULE EventSource ----------------------------
(***************************************************************************)
(* EventSourceDomain (packages/chat/src/domain/EventSourceDomain.ts): the  *)
(* inbox of the address, as the node lists it, is fetched page by page     *)
(* from an anchor; messages go to a pending list, are converted in batches *)
(* and pushed to outChannel; events go to GroupMemberDomain at once.  The  *)
(* anchor and the pending list are kept in local storage.                  *)
(*                                                                         *)
(* Item i is the i-th of the inbox and the token that follows it; 0 is no  *)
(* token.  The one poll loop runs alone between two awaits; at says which  *)
(* await it stands at ("poll" and "after" are no awaits).  A list that     *)
(* holds an item twice hands it out twice, as a push of it does: the       *)
(* pending list is a set here.  Left out: the set of group ids kept for    *)
(* the splits of ConversationDomain, and the profile events, which pass    *)
(* although they were seen.                                                *)
(***************************************************************************)
EXTENDS Integers, Sequences, FiniteSets, FiniteSetsExt

CONSTANTS
    Items,       \* how many items the inbox ever gets
    Events,      \* the items that are events; the others are messages
    Muted,       \* the messages whose sender the user has muted
    Garbled,     \* the messages that may turn out impossible to convert
    PageSize,    \* items the node returns at once
    BatchSize,   \* messages converted at once
    MuteFails,   \* the request for the list of muted members may fail
    StorageFails,\* local storage may refuse to store
    BusyStop,    \* stop may find messages pending, or the loop at any await
    MaxStops,    \* bound: calls of stop
    MaxPauses,   \* bound: calls of pause
    MaxLogouts,  \* bound: times the user logs out
    MaxPushes,   \* bound: items pushed, and messages added to the list
    MaxCrashes   \* bound: the page is closed without a stop

ASSUME ItemsAssumption == Items \in Nat /\ Events \subseteq 1..Items
ASSUME SizesAssumption == PageSize \in Nat \ {0} /\ BatchSize \in Nat \ {0}

VARIABLES
    published,     \* length of the inbox
    anchor,        \* anchor
    pending,       \* _pendingMessageList
    added,         \* _pendingListAdded
    dirty,         \* _pendingMessageListDirty
    due,           \* the last empty answer is more than four seconds old
    seen,          \* _seenEventIds
    mute,          \* _muteMap and _muteMapPromise of the facade
    loggedIn,      \* isCanCatchUpFromApi
    running,       \* "off", "on" or, until the loop has ended, "stopping"
    paused,        \* _shouldPause of the thread handler
    listening,     \* _isStartListenningNewMessage
    es,            \* where the loop stands and its local variables
    savedAnchor,   \* the anchor in local storage
    savedPending,  \* the list in local storage, if there is one: {} or {list}
    emitted,       \* events pushed to GroupMemberDomain
    handled,       \* history: messages pushed to _outChannel or found muted
    missed,        \* history: messages given up as failed
    early,         \* history: events seen before the anchors had passed them
    count          \* the counters of the bounds

Msg == 1..Items \ Events

memory  == <<anchor, pending, added, dirty, due, seen>>
disk    == <<savedAnchor, savedPending>>
session == <<running, paused, listening>>
results == <<emitted, handled, missed, early>>
esVars  == <<published, memory, mute, loggedIn, session, es, disk, results, count>>

Resting == [at |-> "rest", token |-> 0, list |-> {}, batch |-> {}, failed |-> {}]

Init ==
    /\ published = 0
    /\ anchor = 0 /\ pending = {} /\ added = FALSE /\ dirty = FALSE /\ due = TRUE
    /\ seen = {} /\ mute = "unknown" /\ loggedIn = FALSE
    /\ running = "off" /\ paused = TRUE /\ listening = FALSE
    /\ es = Resting
    /\ savedAnchor = 0 /\ savedPending = {}
    /\ emitted = {} /\ handled = {} /\ missed = {} /\ early = {}
    /\ count = [stops |-> 0, pauses |-> 0, logouts |-> 0, pushes |-> 0, crashes |-> 0]

Used(c, max) == count[c] < max /\ count' = [count EXCEPT ![c] = @ + 1]

Polls == es.at = "poll" /\ running # "off"
Moves(place) == es' = [es EXCEPT !.at = place]

\* A poll is over and there may be more to do: the loop polls again at once,
\* unless it is to stop or to pause.
EndPoll ==
    /\ es' = [Resting EXCEPT !.at = IF running = "on" /\ ~paused THEN "poll" ELSE "rest"]
    /\ running' = IF running = "stopping" THEN "off" ELSE running
    /\ UNCHANGED <<paused, listening>>

-----------------------------------------------------------------------------
(* The node, the user and the clock.                                       *)

Publish ==
    /\ published < Items
    /\ published' = published + 1
    /\ UNCHANGED <<memory, mute, loggedIn, session, es, disk, results, count>>

Login ==
    /\ ~loggedIn
    /\ loggedIn' = TRUE
    /\ UNCHANGED <<published, memory, mute, session, es, disk, results, count>>

Logout ==
    /\ loggedIn
    /\ Used("logouts", MaxLogouts)
    /\ loggedIn' = FALSE
    /\ UNCHANGED <<published, memory, mute, session, es, disk, results>>

\* It does not strike between two polls with no await between them.
FourSeconds ==
    /\ ~due /\ es.at \notin {"poll", "after"}
    /\ due' = TRUE
    /\ UNCHANGED <<published, anchor, pending, added, dirty, seen, mute, loggedIn,
                   session, es, disk, results, count>>

-----------------------------------------------------------------------------
(* start, resume, pause, stop, and the end of the page.                    *)

\* switchAddress loads what local storage holds, before any answer of the
\* node can arrive; the loop begins paused.
Start ==
    /\ running = "off"
    /\ running' = "on" /\ paused' = TRUE /\ listening' = TRUE
    /\ es' = Resting
    /\ anchor' = IF savedAnchor = 0 THEN anchor ELSE savedAnchor
    /\ pending' = IF savedPending = {} THEN pending ELSE UNION savedPending
    /\ UNCHANGED <<published, added, dirty, due, seen, mute, loggedIn, disk, results, count>>

Resume ==
    /\ running = "on" /\ paused
    /\ paused' = FALSE
    /\ UNCHANGED <<published, memory, mute, loggedIn, running, listening, es, disk,
                   results, count>>

Pause ==
    /\ running = "on" /\ ~paused /\ es.at \notin {"poll", "after"}
    /\ Used("pauses", MaxPauses)
    /\ paused' = TRUE /\ listening' = FALSE
    /\ UNCHANGED <<published, memory, mute, loggedIn, running, es, disk, results>>

\* stop clears the memory first; the loop ends after its current poll, or,
\* when it rests, after one more.
Stop ==
    /\ running = "on" /\ es.at \notin {"poll", "after"}
    /\ BusyStop \/ (es.at = "rest" /\ pending = {})
    /\ Used("stops", MaxStops)
    /\ anchor' = 0 /\ pending' = {} /\ due' = TRUE /\ seen' = {}
    /\ running' = "stopping" /\ paused' = FALSE
    /\ UNCHANGED <<published, added, dirty, mute, loggedIn, listening, es, disk, results>>

\* The page is closed: only local storage is left.
Crash ==
    /\ running # "off"
    /\ Used("crashes", MaxCrashes)
    /\ anchor' = 0 /\ pending' = {} /\ added' = FALSE /\ dirty' = FALSE /\ due' = TRUE
    /\ seen' = {} /\ mute' = "unknown" /\ loggedIn' = FALSE
    /\ running' = "off" /\ paused' = TRUE /\ listening' = FALSE
    /\ es' = Resting
    /\ UNCHANGED <<published, disk, results>>

-----------------------------------------------------------------------------
(* What comes in beside the loop.                                          *)

Event(e) == emitted' = emitted \union {e} /\ seen' = seen \union {e}

\* _onNewEventItem: the node pushes an item while the domain listens.
Push(i) ==
    /\ listening /\ i \in 1..published
    /\ Used("pushes", MaxPushes)
    /\ IF i \in Events
       THEN /\ IF i \in seen
               THEN UNCHANGED <<emitted, seen, early>>
               ELSE Event(i) /\ early' = early \union {i}
            /\ UNCHANGED handled
       ELSE /\ handled' = handled \union {i}
            /\ UNCHANGED <<emitted, seen, early>>
    /\ UNCHANGED <<published, anchor, pending, added, dirty, due, mute, loggedIn, session,
                   es, disk, missed>>

\* addPendingMessageToFront: ConversationDomain found m in a public group.
AddToFront(m) ==
    /\ Polls /\ m \in 1..published \ Events
    /\ Used("pushes", MaxPushes)
    /\ pending' = pending \union {m} /\ added' = TRUE
    /\ EndPoll
    /\ UNCHANGED <<published, anchor, dirty, due, seen, mute, loggedIn, disk, results>>

-----------------------------------------------------------------------------
(* poll: catching up from the inbox.                                       *)

Wake ==
    /\ es.at = "rest" /\ running # "off" /\ ~paused
    /\ Moves("poll")
    /\ UNCHANGED <<published, memory, mute, loggedIn, session, disk, results, count>>

Fetch ==
    /\ Polls /\ loggedIn /\ due
    /\ es' = [es EXCEPT !.at = "fetch", !.token = anchor]
    /\ UNCHANGED <<published, memory, mute, loggedIn, session, disk, results, count>>

Page == {i \in 1..published : es.token < i /\ i <= es.token + PageSize}

NextToken == Max(Page)

\* Mutant: the loop over the events returns after the first one.
MutTakenEvents ==
    {e \in (Page \intersect Events) \ seen : \A f \in Page \intersect Events : e <= f}

\* handleIncommingEvent returns at the first event seen before.
TakenEvents ==
    {e \in Page \intersect Events : \A f \in Page \intersect Events : f <= e => f \notin seen}

\* Mutant: the time of the empty answer is not noted.
MutEmptyAnswer ==
    /\ es.at = "fetch" /\ Page = {}
    /\ EndPoll
    /\ UNCHANGED <<published, memory, mute, loggedIn, disk, results, count>>

EmptyAnswer ==
    /\ es.at = "fetch" /\ Page = {}
    /\ due' = FALSE
    /\ EndPoll
    /\ UNCHANGED <<published, anchor, pending, added, dirty, seen, mute, loggedIn, disk,
                   results, count>>

\* Mutant: the anchor moves before the list is stored.
MutAnswer ==
    /\ es.at = "fetch" /\ Page # {}
    /\ pending' = pending \union (Page \ Events)
    /\ added' = (added \/ Page \ Events # {})
    /\ seen' = seen \union TakenEvents
    /\ emitted' = emitted \union TakenEvents
    /\ es' = [es EXCEPT !.at = "saveAnchor", !.token = NextToken]
    /\ anchor' = NextToken
    /\ UNCHANGED <<published, dirty, due, mute, loggedIn, session, disk, handled, missed,
                   early, count>>

\* Messages are added to the list, and the list, if anything was added since
\* it was stored, is stored before the anchor moves.
Answer ==
    /\ es.at = "fetch" /\ Page # {}
    /\ pending' = pending \union (Page \ Events)
    /\ added' = (added \/ Page \ Events # {})
    /\ seen' = seen \union TakenEvents
    /\ emitted' = emitted \union TakenEvents
    /\ IF added'
       THEN /\ es' = [es EXCEPT !.at = "savePending", !.token = NextToken, !.list = pending']
            /\ UNCHANGED anchor
       ELSE /\ es' = [es EXCEPT !.at = "saveAnchor", !.token = NextToken]
            /\ anchor' = NextToken
    /\ UNCHANGED <<published, dirty, due, mute, loggedIn, session, disk, handled, missed,
                   early, count>>

\* The error is caught and the poll goes on with the pending list.
FetchFails ==
    /\ es.at = "fetch"
    /\ Moves("after")
    /\ UNCHANGED <<published, memory, mute, loggedIn, session, disk, results, count>>

PendingSaved ==
    /\ es.at = "savePending"
    /\ savedPending' = {es.list}
    /\ added' = FALSE
    /\ anchor' = es.token
    /\ Moves("saveAnchor")
    /\ UNCHANGED <<published, pending, dirty, due, seen, mute, loggedIn, session,
                   savedAnchor, results, count>>

AnchorSaved ==
    /\ es.at = "saveAnchor"
    /\ savedAnchor' = es.token
    /\ EndPoll
    /\ UNCHANGED <<published, memory, mute, loggedIn, savedPending, results, count>>

\* Local storage refuses: caught like a failed fetch, but something was done.
\* The page will be fetched again, if only after a stop, and its events have
\* been seen.
SaveFails ==
    /\ StorageFails /\ es.at \in {"savePending", "saveAnchor"}
    /\ early' = early \union {e \in seen : anchor < e \/ savedAnchor < e}
    /\ EndPoll
    /\ UNCHANGED <<published, memory, mute, loggedIn, disk, emitted, handled, missed, count>>

-----------------------------------------------------------------------------
(* poll: consuming the pending list.                                       *)

CaughtUp == (Polls /\ ~(loggedIn /\ due)) \/ es.at = "after"

\* Which messages come first depends on their groups and times.
Consume ==
    /\ CaughtUp /\ pending # {}
    /\ \E b \in SUBSET pending :
          /\ Cardinality(b) = (IF Cardinality(pending) < BatchSize
                               THEN Cardinality(pending) ELSE BatchSize)
          /\ es' = [es EXCEPT !.at = "convert", !.batch = b]
    /\ UNCHANGED <<published, memory, mute, loggedIn, session, disk, results, count>>

\* onMessageCompleted, after its awaits, which no other reader of the list
\* sees: the message leaves the list.
Done(m) ==
    /\ pending' = pending \ {m} /\ dirty' = TRUE
    /\ es' = [es EXCEPT !.batch = @ \ {m}]

Checked == loggedIn => mute = "ready"

HandOver(m) ==
    /\ es.at = "convert" /\ m \in es.batch
    /\ Checked /\ (loggedIn => m \notin Muted)
    /\ handled' = handled \union {m}
    /\ Done(m)
    /\ UNCHANGED <<published, anchor, added, due, seen, mute, loggedIn, session, disk,
                   emitted, missed, early, count>>

Mute(m) ==
    /\ es.at = "convert" /\ m \in es.batch \intersect Muted
    /\ Checked /\ loggedIn
    /\ handled' = handled \union {m}
    /\ Done(m)
    /\ UNCHANGED <<published, anchor, added, due, seen, mute, loggedIn, session, disk,
                   emitted, missed, early, count>>

\* _ensureMuteMap asks once; the promise of a request that failed is kept
\* and fails every later check.
MuteMapAnswers ==
    /\ es.at = "convert" /\ es.batch # {} /\ loggedIn /\ mute = "unknown"
    /\ mute' \in (IF MuteFails THEN {"ready", "rejected"} ELSE {"ready"})
    /\ UNCHANGED <<published, memory, loggedIn, session, es, disk, results, count>>

\* The conversion or the check of m throws where it is caught for m alone.
Fails(m) ==
    /\ es.at = "convert" /\ m \in es.batch
    /\ m \in Garbled \/ (loggedIn /\ mute = "rejected")
    /\ es' = [es EXCEPT !.batch = @ \ {m}, !.failed = @ \union {m}]
    /\ UNCHANGED <<published, memory, mute, loggedIn, session, disk, results, count>>

\* Mutant: a batch that throws is given up.
MutBatchThrows ==
    /\ es.at = "convert" /\ es.batch # {}
    /\ pending' = pending \ es.batch
    /\ es' = Resting
    /\ UNCHANGED <<published, anchor, added, dirty, due, seen, mute, loggedIn, session, disk,
                   results, count>>

\* It throws where it ends the batch: the thread handler sleeps for a second
\* and polls again, whether or not it is to stop.
BatchThrows ==
    /\ es.at = "convert" /\ es.batch # {}
    /\ es' = Resting
    /\ UNCHANGED <<published, memory, mute, loggedIn, session, disk, results, count>>

\* The failed messages leave the list, which does not count as dirty.
BatchDone ==
    /\ es.at = "convert" /\ es.batch = {}
    /\ pending' = pending \ es.failed
    /\ missed' = missed \union es.failed
    /\ EndPoll
    /\ UNCHANGED <<published, anchor, added, dirty, due, seen, mute, loggedIn, disk,
                   emitted, handled, early, count>>

-----------------------------------------------------------------------------
(* poll: nothing pending.                                                  *)

\* The list is stored once it has been emptied.
Persist ==
    /\ CaughtUp /\ pending = {} /\ dirty
    /\ es' = [es EXCEPT !.at = "persist", !.list = pending]
    /\ UNCHANGED <<published, memory, mute, loggedIn, session, disk, results, count>>

Persisted ==
    /\ es.at = "persist"
    /\ savedPending' = {es.list}
    /\ dirty' = FALSE
    /\ EndPoll
    /\ UNCHANGED <<published, anchor, pending, added, due, seen, mute, loggedIn,
                   savedAnchor, results, count>>

Nothing ==
    /\ CaughtUp /\ pending = {} /\ ~dirty
    /\ es' = Resting
    /\ running' = IF running = "stopping" THEN "off" ELSE running
    /\ UNCHANGED <<published, memory, mute, loggedIn, paused, listening, disk, results, count>>

-----------------------------------------------------------------------------
Poll ==
    \/ Wake \/ Fetch \/ EmptyAnswer \/ Answer \/ FetchFails
    \/ PendingSaved \/ AnchorSaved \/ SaveFails
    \/ Consume \/ MuteMapAnswers \/ BatchThrows \/ BatchDone
    \/ \E m \in Msg : HandOver(m) \/ Mute(m) \/ Fails(m)
    \/ Persist \/ Persisted \/ Nothing

Environment ==
    \/ Publish \/ Login \/ Logout \/ FourSeconds
    \/ Start \/ Resume \/ Pause \/ Stop \/ Crash
    \/ \E i \in 1..Items : Push(i)
    \/ \E m \in Msg : AddToFront(m)

Next == Poll \/ Environment


Spec == Init /\ [][Next]_esVars

\* The loop goes on, time passes, the application starts and resumes the
\* domain and the user logs in; of the requests the loop repeats, some succeed.
Fairness ==
    /\ WF_esVars(Poll) /\ SF_esVars(FourSeconds)
    /\ WF_esVars(Start) /\ WF_esVars(Resume) /\ WF_esVars(Login)
    /\ SF_esVars(Answer) /\ SF_esVars(EmptyAnswer)
    /\ SF_esVars(PendingSaved) /\ SF_esVars(AnchorSaved) /\ SF_esVars(MuteMapAnswers)
    /\ \A m \in Msg : SF_esVars(HandOver(m)) /\ SF_esVars(Mute(m))

FairSpec == Spec /\ Fairness

-----------------------------------------------------------------------------
Places == {"rest", "poll", "after", "fetch", "savePending", "saveAnchor", "convert", "persist"}

TypeOK ==
    /\ published \in 0..Items /\ anchor \in 0..published /\ savedAnchor \in 0..published
    /\ pending \subseteq Msg /\ seen \subseteq Events
    /\ added \in BOOLEAN /\ dirty \in BOOLEAN /\ due \in BOOLEAN
    /\ mute \in {"unknown", "ready", "rejected"} /\ loggedIn \in BOOLEAN
    /\ running \in {"off", "on", "stopping"} /\ paused \in BOOLEAN /\ listening \in BOOLEAN
    /\ es \in [at : Places, token : 0..published, list : SUBSET Msg, batch : SUBSET Msg,
               failed : SUBSET Msg]
    /\ savedPending = {} \/ \E list \in SUBSET Msg : savedPending = {list}
    /\ emitted \subseteq Events /\ early \subseteq Events
    /\ handled \subseteq Msg /\ missed \subseteq Msg

Settled == handled \union missed

\* Local storage never loses a message: one before the stored anchor is in
\* the stored list or has been dealt with, whatever the order in which the
\* two are written and wherever the page is closed, as long as stop finds
\* the list empty.
AnchorCovered ==
    \A m \in Msg : m <= savedAnchor => m \in (UNION savedPending) \union Settled

\* The same of the memory of a running domain.
PendingCovers ==
    running = "on" => \A m \in Msg : m <= anchor => m \in pending \union Settled

\* No event before the stored anchor was dropped, but for those that
\* handleIncommingEvent gives up with the rest of a page, at an event it has
\* seen: that one was pushed, or fetched in a page that could not be stored,
\* and stands before the dropped one in the same page.
EventsTaken ==
    \A e \in Events : e <= savedAnchor =>
       e \in emitted \/ \E f \in early : f < e /\ e < f + PageSize

\* Every message of the inbox that can be converted is handed over or found
\* muted in the end, through failed requests, throwing batches, pauses, stops
\* and closed pages, if the list of muted members can be had.
AllHandled == \A m \in Msg \ Garbled : m <= published ~> m \in handled
=============================================================================
