----------------------------- MODULE LoopProofs -----------------------------
(***************************************************************************)
(* Theorems about the event source, and about the loop it polls in and the *)
(* connections it listens to.                                              *)
(*                                                                         *)
(* EventSource, for any inbox, page and batch size and any number of stops *)
(* and crashes: the types; that neither the stored nor the loaded anchor   *)
(* ever runs ahead of the messages dealt with, provided stop finds the     *)
(* list empty and the loop at rest; and, for any stops, pushes and failing *)
(* writes, that no event before the stored anchor is dropped but on the    *)
(* page of one seen early.                                                 *)
(*                                                                         *)
(* ThreadHandler, for any number of runs and calls.  CountInv bounds the   *)
(* loops: a settled stop was settled by its timer or by a loop that ended  *)
(* doing so, and every run but the last has a settled stop, so the loops   *)
(* alive are at most one more than the time-outs.  WakeInv describes the   *)
(* runs while no stop timed out: the last loop is the only one left, so    *)
(* that the pause that can be ended is its own.                            *)
(*                                                                         *)
(* Connection, for any topics and bounds.  TopicsInv says what the page    *)
(* takes for subscribed.                                                   *)
(***************************************************************************)
EXTENDS EventSource, Services, FiniteSetTheorems, TLAPS

-----------------------------------------------------------------------------
(* Facts about the operators.                                              *)

LEMMA MsgInRange == \A m \in Msg : m \in 1..Items /\ m \notin Events
BY DEF Msg

\* A page is an interval that begins after the token asked for.
LEMMA PageFacts ==
    ASSUME TypeOK, Page # {}
    PROVE  /\ NextToken \in Page
           /\ NextToken \in 1..published
           /\ \A m \in Msg : m <= NextToken => m <= es.token \/ m \in Page
<1>1. published \in Nat /\ es.token \in Nat
  BY ItemsAssumption DEF TypeOK
<1>2. PageSize \in Nat \ {0}
  BY SizesAssumption
<1> DEFINE top == IF published <= es.token + PageSize THEN published
                  ELSE es.token + PageSize
<1>3. top \in Page /\ \A i \in Page : top >= i
  BY <1>1, <1>2 DEF Page
<1>4. NextToken \in Page /\ \A i \in Page : NextToken >= i
  <2> HIDE DEF top
  <2> QED BY <1>3 DEF NextToken, Max
<1>5. NextToken \in 1..published
  BY <1>4 DEF Page
<1>6. ASSUME NEW m \in Msg, m <= NextToken, ~(m <= es.token)
      PROVE  m \in Page
  <2>1. m \in Int /\ m >= 1
    BY MsgInRange, ItemsAssumption
  <2>2. NextToken \in Int /\ NextToken <= published /\ NextToken <= es.token + PageSize
    BY <1>1, <1>4, <1>5 DEF Page
  <2> QED BY <2>1, <2>2, <1>6, <1>1, <1>2 DEF Page
<1> QED BY <1>4, <1>5, <1>6

LEMMA PageMessages ==
    ASSUME TypeOK
    PROVE  Page \ Events \subseteq Msg
BY ItemsAssumption DEF Page, Msg, TypeOK

-----------------------------------------------------------------------------
(* Types.                                                                  *)

EsType == [at : Places, token : 0..published, list : SUBSET Msg, batch : SUBSET Msg,
           failed : SUBSET Msg]

LEMMA RestingType ==
    ASSUME published \in Nat, NEW place \in Places
    PROVE  [Resting EXCEPT !.at = place] \in EsType
BY DEF Resting, EsType

LEMMA EndPollType ==
    ASSUME TypeOK, EndPoll
    PROVE  /\ es' \in EsType
           /\ running' \in {"off", "on", "stopping"}
           /\ paused' = paused /\ listening' = listening
<1>1. published \in Nat
  BY ItemsAssumption DEF TypeOK
<1>2. "poll" \in Places /\ "rest" \in Places
  BY DEF Places
<1>3. es' \in EsType
  BY <1>1, <1>2, RestingType DEF EndPoll
<1> QED BY <1>3 DEF EndPoll, TypeOK

LEMMA TypeInit == Init => TypeOK
<1> SUFFICES ASSUME Init PROVE TypeOK
  OBVIOUS
<1>1. 0 \in 0..published /\ published \in 0..Items
  BY ItemsAssumption DEF Init
<1>2. es \in EsType
  BY <1>1 DEF Init, Resting, EsType, Places
<1> QED BY <1>1, <1>2 DEF Init, TypeOK, EsType

LEMMA TypeStep == TypeOK /\ [Next]_esVars => TypeOK'
<1> SUFFICES ASSUME TypeOK, [Next]_esVars PROVE TypeOK'
  OBVIOUS
<1> USE DEF memory, disk, session, results
<1>n. published \in Nat /\ anchor \in Nat /\ es.token \in Nat /\ savedAnchor \in Nat
  BY DEF TypeOK
<1>e. es \in EsType
  BY DEF TypeOK, EsType
<1>r. Resting \in EsType
  BY <1>n DEF Resting, EsType, Places
<1>m. ASSUME NEW place \in Places
      PROVE  [es EXCEPT !.at = place] \in EsType
  BY <1>e, <1>m DEF EsType
<1>1. CASE Publish
  <2>1. published' \in 0..Items /\ 0..published \subseteq 0..published'
    BY <1>1, <1>n, ItemsAssumption DEF Publish, TypeOK
  <2> QED BY <1>1, <2>1 DEF Publish, TypeOK
<1>2. CASE Login \/ Logout \/ FourSeconds
  BY <1>2 DEF Login, Logout, FourSeconds, TypeOK
<1>3. CASE Start
  <2>1. anchor' \in 0..published
    BY <1>3 DEF Start, TypeOK
  <2>2. pending' \subseteq Msg
    BY <1>3 DEF Start, TypeOK
  <2>3. es' \in EsType
    BY <1>3, <1>r DEF Start
  <2> QED BY <1>3, <2>1, <2>2, <2>3 DEF Start, TypeOK, EsType
<1>4. CASE Resume \/ Pause
  BY <1>4 DEF Resume, Pause, TypeOK
<1>5. CASE Stop
  <2>1. 0 \in 0..published
    BY <1>n
  <2>2. anchor' \in 0..published' /\ pending' \subseteq Msg /\ seen' \subseteq Events
    BY <1>5, <2>1 DEF Stop
  <2>3. es' \in EsType
    BY <1>5, <1>e DEF Stop
  <2> QED BY <1>5, <2>2, <2>3 DEF Stop, TypeOK, EsType
<1>6. CASE Crash
  <2>1. es' \in EsType /\ 0 \in 0..published
    BY <1>6, <1>r, <1>n DEF Crash
  <2> QED BY <1>6, <2>1 DEF Crash, TypeOK, EsType
<1>7. ASSUME NEW i \in 1..Items, Push(i)
      PROVE  TypeOK'
  <2>1. CASE i \in Events
    BY <1>7, <2>1 DEF Push, Event, TypeOK
  <2>2. CASE i \notin Events
    <3>1. i \in Msg
      BY <2>2 DEF Msg
    <3> QED BY <1>7, <2>2, <3>1 DEF Push, TypeOK
  <2> QED BY <2>1, <2>2
<1>8. ASSUME NEW m \in Msg, AddToFront(m)
      PROVE  TypeOK'
  <2>1. es' \in EsType /\ running' \in {"off", "on", "stopping"}
        /\ paused' = paused /\ listening' = listening
    BY <1>8, EndPollType DEF AddToFront
  <2> QED BY <1>8, <2>1 DEF AddToFront, TypeOK, EsType
<1>9. CASE Wake \/ FetchFails
  <2>1. es' \in EsType
    BY <1>9, <1>m DEF Wake, FetchFails, Moves, Places
  <2> QED BY <1>9, <2>1 DEF Wake, FetchFails, TypeOK, EsType
<1>10. CASE Fetch
  <2>1. es' \in EsType
    BY <1>10, <1>e DEF Fetch, TypeOK, EsType, Places
  <2> QED BY <1>10, <2>1 DEF Fetch, TypeOK, EsType
<1>11. CASE EmptyAnswer
  <2>1. es' \in EsType /\ running' \in {"off", "on", "stopping"}
        /\ paused' = paused /\ listening' = listening
    BY <1>11, EndPollType DEF EmptyAnswer
  <2> QED BY <1>11, <2>1 DEF EmptyAnswer, TypeOK, EsType
<1>12. CASE Answer
  <2>1. NextToken \in 0..published /\ pending' \subseteq Msg
    BY <1>12, <1>n, PageFacts, PageMessages DEF Answer, TypeOK
  <2>2. TakenEvents \subseteq Events
    BY DEF TakenEvents
  <2>3. es' \in EsType
    <3>1. CASE added'
      BY <1>12, <3>1, <2>1, <1>e DEF Answer, EsType, Places
    <3>2. CASE ~added'
      BY <1>12, <3>2, <2>1, <1>e DEF Answer, EsType, Places
    <3> QED BY <3>1, <3>2
  <2>4. anchor' \in 0..published
    BY <1>12, <2>1 DEF Answer, TypeOK
  <2>5. added' \in BOOLEAN
    BY <1>12 DEF Answer
  <2> QED BY <1>12, <2>1, <2>2, <2>3, <2>4, <2>5 DEF Answer, TypeOK, EsType
<1>13. CASE PendingSaved
  <2>1. es' \in EsType
    BY <1>13, <1>m DEF PendingSaved, Moves, Places
  <2>2. savedPending' = {es.list} /\ es.list \in SUBSET Msg
    BY <1>13 DEF PendingSaved, TypeOK
  <2> QED BY <1>13, <2>1, <2>2 DEF PendingSaved, TypeOK, EsType
<1>14. CASE AnchorSaved \/ SaveFails
  <2>1. es' \in EsType /\ running' \in {"off", "on", "stopping"}
        /\ paused' = paused /\ listening' = listening
    BY <1>14, EndPollType DEF AnchorSaved, SaveFails
  <2> QED BY <1>14, <2>1 DEF AnchorSaved, SaveFails, TypeOK, EsType
<1>15. CASE Consume
  <2>1. PICK b \in SUBSET pending : es' = [es EXCEPT !.at = "convert", !.batch = b]
    BY <1>15 DEF Consume
  <2>2. es' \in EsType
    BY <2>1, <1>e DEF EsType, Places, TypeOK
  <2> QED BY <1>15, <2>2 DEF Consume, TypeOK, EsType
<1>16. CASE MuteMapAnswers
  BY <1>16 DEF MuteMapAnswers, TypeOK
<1>17. ASSUME NEW m \in Msg, HandOver(m) \/ Mute(m)
       PROVE  TypeOK'
  <2>1. es' \in EsType
    BY <1>17, <1>e DEF HandOver, Mute, Done, EsType
  <2> QED BY <1>17, <2>1 DEF HandOver, Mute, Done, TypeOK, EsType
<1>18. ASSUME NEW m \in Msg, Fails(m)
       PROVE  TypeOK'
  <2>1. es' \in EsType
    BY <1>18, <1>e DEF Fails, EsType
  <2> QED BY <1>18, <2>1 DEF Fails, TypeOK, EsType
<1>19. CASE BatchThrows
  BY <1>19, <1>r DEF BatchThrows, TypeOK, EsType
<1>20. CASE BatchDone
  <2>1. es' \in EsType /\ running' \in {"off", "on", "stopping"}
        /\ paused' = paused /\ listening' = listening
    BY <1>20, EndPollType DEF BatchDone
  <2>2. missed' \subseteq Msg
    BY <1>20 DEF BatchDone, TypeOK
  <2> QED BY <1>20, <2>1, <2>2 DEF BatchDone, TypeOK, EsType
<1>21. CASE Persist
  <2>1. es' \in EsType
    BY <1>21, <1>e DEF Persist, EsType, Places, TypeOK
  <2> QED BY <1>21, <2>1 DEF Persist, TypeOK, EsType
<1>22. CASE Persisted
  <2>1. es' \in EsType /\ running' \in {"off", "on", "stopping"}
        /\ paused' = paused /\ listening' = listening
    BY <1>22, EndPollType DEF Persisted
  <2>2. savedPending' = {es.list} /\ es.list \in SUBSET Msg
    BY <1>22 DEF Persisted, TypeOK
  <2> QED BY <1>22, <2>1, <2>2 DEF Persisted, TypeOK, EsType
<1>23. CASE Nothing
  BY <1>23, <1>r DEF Nothing, TypeOK, EsType
<1>24. CASE UNCHANGED esVars
  BY <1>24 DEF esVars, TypeOK
<1> QED
  BY <1>1, <1>2, <1>3, <1>4, <1>5, <1>6, <1>7, <1>8, <1>9, <1>10, <1>11, <1>12, <1>13,
     <1>14, <1>15, <1>16, <1>17, <1>18, <1>19, <1>20, <1>21, <1>22, <1>23, <1>24
     DEF Next, Poll, Environment

\* The types of the state of EventSourceDomain.
THEOREM TypeInvariant == Spec => []TypeOK
BY TypeInit, TypeStep, PTL DEF Spec

-----------------------------------------------------------------------------
(* The anchors never run ahead.                                            *)

Covers(S, k) == \A m \in Msg : m <= k => m \in S \union Settled

\* Both anchors are covered by what is stored ...
StoredCovers ==
    /\ Covers(UNION savedPending, savedAnchor)
    /\ Covers(UNION savedPending, anchor)

\* ... and, while there is a loop, by the list in memory ...
MemoryCovers ==
    running # "off" => Covers(pending, savedAnchor) /\ Covers(pending, anchor)

\* ... and an await leaves alone what the code after it relies on.
AwaitCovers ==
    /\ es.at # "rest" => running # "off"
    /\ es.at = "fetch" => es.token = anchor
    /\ es.at \in {"savePending", "persist"} => es.list = pending
    /\ es.at \in {"savePending", "saveAnchor"} => Covers(pending, es.token)
    /\ es.at = "saveAnchor" => Covers(UNION savedPending, es.token)

CoverInv == TypeOK /\ StoredCovers /\ MemoryCovers /\ AwaitCovers

LEMMA EndPollRests ==
    ASSUME EndPoll, es.at # "rest" => running # "off"
    PROVE  /\ es'.at \in {"poll", "rest"}
           /\ es'.at # "rest" => running' # "off"
           /\ running' # "off" => running # "off"
BY DEF EndPoll, Resting

LEMMA CoverInit == Init => CoverInv
<1> SUFFICES ASSUME Init PROVE CoverInv
  OBVIOUS
<1>1. \A m \in Msg : ~(m <= 0)
  BY MsgInRange, ItemsAssumption
<1>2. \A S : Covers(S, 0)
  BY <1>1 DEF Covers
<1>3. anchor = 0 /\ savedAnchor = 0 /\ es.at = "rest" /\ running = "off"
  BY DEF Init, Resting
<1> QED BY <1>2, <1>3, TypeInit DEF CoverInv, StoredCovers, MemoryCovers, AwaitCovers

\* Whatever a step does, what was dealt with stays dealt with.
LEMMA SettledGrows ==
    ASSUME [Next]_esVars
    PROVE  Settled \subseteq Settled'
BY DEF Next, Poll, Environment, Settled, esVars, memory, disk, session, results, Publish,
       Login, Logout, FourSeconds, Start, Resume, Pause, Stop, Crash, Push, Event,
       AddToFront, Wake, Fetch, EmptyAnswer, Answer, FetchFails, PendingSaved, AnchorSaved,
       SaveFails, Consume, MuteMapAnswers, BatchThrows, BatchDone, HandOver, Mute, Done,
       Fails, Persist, Persisted, Nothing

\* A step that leaves the anchors and the stored list alone, removes from the
\* list in memory only what it settles, starts no loop and ends every await.
LEMMA QuietStep ==
    ASSUME CoverInv, TypeOK', Settled \subseteq Settled',
           UNCHANGED <<anchor, savedAnchor, savedPending>>,
           pending \subseteq pending' \union Settled',
           running' # "off" => running # "off",
           es'.at \in {"rest", "poll", "after", "convert"},
           es'.at # "rest" => running' # "off"
    PROVE  CoverInv'
<1>1. StoredCovers'
  BY DEF CoverInv, StoredCovers, Covers
<1>2. MemoryCovers'
  BY DEF CoverInv, MemoryCovers, Covers
<1>3. AwaitCovers'
  BY DEF AwaitCovers
<1> QED BY <1>1, <1>2, <1>3 DEF CoverInv

LEMMA CoverStep ==
    ASSUME BusyStop = FALSE, CoverInv, [Next]_esVars
    PROVE  CoverInv'
<1> USE DEF memory, disk, session, results
<1>t. TypeOK'
  BY TypeStep DEF CoverInv
<1>g. Settled \subseteq Settled'
  BY SettledGrows
<1>n. published \in Nat /\ anchor \in Nat /\ es.token \in Nat /\ savedAnchor \in Nat
  BY DEF CoverInv, TypeOK
<1>z. \A m \in Msg : ~(m <= 0)
  BY MsgInRange, ItemsAssumption
<1>1. ASSUME UNCHANGED <<anchor, savedAnchor, savedPending, pending, running, es>>
      PROVE  CoverInv'
  BY <1>1, <1>t, <1>g DEF CoverInv, StoredCovers, MemoryCovers, AwaitCovers, Covers
<1>2. ASSUME UNCHANGED <<anchor, savedAnchor, savedPending, pending>>, EndPoll
      PROVE  CoverInv'
  BY <1>2, <1>t, <1>g, QuietStep, EndPollRests DEF CoverInv, AwaitCovers
<1>3. ASSUME UNCHANGED <<anchor, savedAnchor, savedPending, pending, running>>,
             es'.at \in {"rest", "poll", "after", "convert"}, running # "off"
      PROVE  CoverInv'
  BY <1>3, <1>t, <1>g, QuietStep
<1>4. CASE Publish \/ Login \/ Logout \/ FourSeconds \/ Resume \/ Pause \/ MuteMapAnswers
  BY <1>4, <1>1 DEF Publish, Login, Logout, FourSeconds, Resume, Pause, MuteMapAnswers
<1>5. CASE Start
  <2>1. pending' = IF savedPending = {} THEN pending ELSE UNION savedPending
    BY <1>5 DEF Start
  <2>2. UNION savedPending \subseteq pending'
    BY <2>1
  <2>3. anchor' \in {anchor, savedAnchor} /\ UNCHANGED <<savedAnchor, savedPending>>
    BY <1>5 DEF Start
  <2>4. es'.at = "rest"
    BY <1>5 DEF Start, Resting
  <2>5. StoredCovers'
    BY <2>3, <1>g DEF CoverInv, StoredCovers, Covers
  <2>6. MemoryCovers'
    BY <2>2, <2>3, <2>5 DEF StoredCovers, MemoryCovers, Covers
  <2> QED BY <2>4, <2>5, <2>6, <1>t DEF CoverInv, AwaitCovers
<1>6. CASE Stop
  <2>1. es.at = "rest" /\ pending = {} /\ running # "off"
    BY <1>6 DEF Stop
  <2>2. anchor' = 0 /\ pending' = {} /\ es' = es /\ UNCHANGED <<savedAnchor, savedPending>>
    BY <1>6 DEF Stop
  <2>3. StoredCovers'
    BY <2>2, <1>g, <1>z DEF CoverInv, StoredCovers, Covers
  <2>4. MemoryCovers'
    BY <2>1, <2>2, <1>g, <1>z DEF CoverInv, MemoryCovers, Covers
  <2> QED BY <2>1, <2>2, <2>3, <2>4, <1>t DEF CoverInv, AwaitCovers
<1>7. CASE Crash
  <2>1. anchor' = 0 /\ running' = "off" /\ es'.at = "rest"
        /\ UNCHANGED <<savedAnchor, savedPending>>
    BY <1>7 DEF Crash, Resting
  <2>2. StoredCovers'
    BY <2>1, <1>g, <1>z DEF CoverInv, StoredCovers, Covers
  <2> QED BY <2>1, <2>2, <1>t DEF CoverInv, AwaitCovers, MemoryCovers
<1>8. ASSUME NEW i \in 1..Items, Push(i)
      PROVE  CoverInv'
  BY <1>8, <1>1 DEF Push
<1>9. ASSUME NEW m \in Msg, AddToFront(m)
      PROVE  CoverInv'
  <2>1. pending \subseteq pending' /\ UNCHANGED <<anchor, savedAnchor, savedPending>>
    BY <1>9 DEF AddToFront
  <2>2. EndPoll
    BY <1>9 DEF AddToFront
  <2> QED BY <2>1, <2>2, <1>t, <1>g, QuietStep, EndPollRests DEF CoverInv, AwaitCovers
<1>10. CASE Wake \/ FetchFails
  <2>1. es'.at \in {"poll", "after"}
    BY <1>10 DEF Wake, FetchFails, Moves, CoverInv, TypeOK
  <2>2. running # "off"
    BY <1>10 DEF Wake, FetchFails, CoverInv, AwaitCovers
  <2> QED BY <1>10, <2>1, <2>2, <1>3 DEF Wake, FetchFails
<1>11. CASE Fetch
  <2>1. es'.at = "fetch" /\ es'.token = anchor
    BY <1>11 DEF Fetch, CoverInv, TypeOK
  <2>2. running # "off"
    BY <1>11 DEF Fetch, Polls
  <2>3. UNCHANGED <<anchor, savedAnchor, savedPending, pending, running>>
    BY <1>11 DEF Fetch
  <2>4. StoredCovers' /\ MemoryCovers'
    BY <2>3, <1>g DEF CoverInv, StoredCovers, MemoryCovers, Covers
  <2> QED BY <2>1, <2>2, <2>3, <2>4, <1>t DEF CoverInv, AwaitCovers
<1>12. CASE EmptyAnswer \/ SaveFails
  BY <1>12, <1>2 DEF EmptyAnswer, SaveFails
<1>13. CASE Answer
  <2>1. UNCHANGED <<savedAnchor, savedPending, running>> /\ running # "off"
        /\ es.at = "fetch" /\ Page # {} /\ pending' = pending \union (Page \ Events)
    BY <1>13 DEF Answer, CoverInv, AwaitCovers
  <2>2. es.token = anchor
    BY <2>1 DEF CoverInv, AwaitCovers
  <2>3. \A m \in Msg : m <= NextToken => m \in pending' \union Settled'
    BY <2>1, <2>2, <1>g, PageFacts, MsgInRange DEF CoverInv, MemoryCovers, Covers
  <2>4. /\ Covers(UNION savedPending, savedAnchor)' /\ Covers(pending, savedAnchor)'
        /\ \A m \in Msg : m <= anchor => m \in (UNION savedPending') \union Settled'
        /\ \A m \in Msg : m <= anchor => m \in pending' \union Settled'
    BY <2>1, <1>g DEF CoverInv, StoredCovers, MemoryCovers, Covers
  <2>5. CASE added'
    <3>1. es'.at = "savePending" /\ es'.token = NextToken /\ es'.list = pending'
      BY <1>13, <2>5 DEF Answer, CoverInv, TypeOK
    <3>2. anchor' = anchor
      BY <1>13, <2>5 DEF Answer
    <3> QED BY <2>1, <2>3, <2>4, <3>1, <3>2, <1>t
            DEF CoverInv, StoredCovers, MemoryCovers, AwaitCovers, Covers
  <2>6. CASE ~added'
    <3>1. es'.at = "saveAnchor" /\ es'.token = NextToken /\ anchor' = NextToken
      BY <1>13, <2>6 DEF Answer, CoverInv, TypeOK
    <3>2. Page \ Events = {}
      BY <1>13, <2>6 DEF Answer
    <3>3. \A m \in Msg : m <= NextToken => m <= anchor
      BY <3>2, <2>1, <2>2, PageFacts, MsgInRange DEF CoverInv
    <3> QED BY <2>1, <2>3, <2>4, <3>1, <3>3, <1>t
            DEF CoverInv, StoredCovers, MemoryCovers, AwaitCovers, Covers
  <2> QED BY <2>5, <2>6
<1>14. CASE PendingSaved
  <2>1. UNCHANGED <<savedAnchor, pending, running>> /\ savedPending' = {es.list}
        /\ anchor' = es.token /\ es.at = "savePending"
    BY <1>14 DEF PendingSaved
  <2>2. es.list = pending /\ Covers(pending, es.token) /\ running # "off"
    BY <2>1 DEF CoverInv, AwaitCovers
  <2>3. es'.at = "saveAnchor" /\ es'.token = es.token
    BY <1>14 DEF PendingSaved, Moves, CoverInv, TypeOK
  <2>4. UNION savedPending' = pending
    BY <2>1, <2>2
  <2> QED BY <2>1, <2>2, <2>3, <2>4, <1>g, <1>t
          DEF CoverInv, StoredCovers, MemoryCovers, AwaitCovers, Covers
<1>15. CASE AnchorSaved
  <2>1. UNCHANGED <<anchor, pending, savedPending>> /\ savedAnchor' = es.token
        /\ es.at = "saveAnchor" /\ EndPoll
    BY <1>15 DEF AnchorSaved
  <2>2. Covers(pending, es.token) /\ Covers(UNION savedPending, es.token)
        /\ running # "off"
    BY <2>1 DEF CoverInv, AwaitCovers
  <2>3. es'.at \in {"poll", "rest"} /\ (es'.at # "rest" => running' # "off")
    BY <2>1, <2>2, EndPollRests
  <2> QED BY <2>1, <2>2, <2>3, <1>g, <1>t
          DEF CoverInv, StoredCovers, MemoryCovers, AwaitCovers, Covers
<1>16. CASE Consume
  <2>1. PICK b \in SUBSET pending : es' = [es EXCEPT !.at = "convert", !.batch = b]
    BY <1>16 DEF Consume
  <2>2. es'.at = "convert"
    BY <2>1 DEF CoverInv, TypeOK
  <2>3. running # "off"
    BY <1>16 DEF Consume, CaughtUp, Polls, CoverInv, AwaitCovers
  <2> QED BY <1>16, <2>2, <2>3, <1>3 DEF Consume
<1>17. ASSUME NEW m \in Msg, HandOver(m) \/ Mute(m)
       PROVE  CoverInv'
  <2>1. pending \subseteq pending' \union Settled'
    BY <1>17 DEF HandOver, Mute, Done, Settled
  <2>2. es'.at = "convert" /\ running # "off"
    BY <1>17 DEF HandOver, Mute, Done, CoverInv, TypeOK, AwaitCovers
  <2> QED BY <1>17, <2>1, <2>2, <1>t, <1>g, QuietStep DEF HandOver, Mute
<1>18. ASSUME NEW m \in Msg, Fails(m)
       PROVE  CoverInv'
  <2>1. es'.at = "convert" /\ running # "off"
    BY <1>18 DEF Fails, CoverInv, TypeOK, AwaitCovers
  <2> QED BY <1>18, <2>1, <1>3 DEF Fails
<1>19. CASE BatchThrows
  BY <1>19, <1>3 DEF BatchThrows, Resting, CoverInv, AwaitCovers
<1>20. CASE BatchDone
  <2>1. pending \subseteq pending' \union Settled'
    BY <1>20 DEF BatchDone, Settled
  <2> QED BY <1>20, <2>1, <1>t, <1>g, QuietStep, EndPollRests
          DEF BatchDone, CoverInv, AwaitCovers
<1>21. CASE Persist
  <2>1. es'.at = "persist" /\ es'.list = pending
    BY <1>21 DEF Persist, CoverInv, TypeOK
  <2>2. running # "off"
    BY <1>21 DEF Persist, CaughtUp, Polls, CoverInv, AwaitCovers
  <2>3. UNCHANGED <<anchor, savedAnchor, savedPending, pending, running>>
    BY <1>21 DEF Persist
  <2>4. StoredCovers' /\ MemoryCovers'
    BY <2>3, <1>g DEF CoverInv, StoredCovers, MemoryCovers, Covers
  <2> QED BY <2>1, <2>2, <2>3, <2>4, <1>t DEF CoverInv, AwaitCovers
<1>22. CASE Persisted
  <2>1. UNCHANGED <<anchor, savedAnchor, pending>> /\ savedPending' = {es.list}
        /\ es.at = "persist" /\ EndPoll
    BY <1>22 DEF Persisted
  <2>2. es.list = pending /\ running # "off"
    BY <2>1 DEF CoverInv, AwaitCovers
  <2>3. es'.at \in {"poll", "rest"} /\ (es'.at # "rest" => running' # "off")
    BY <2>1, <2>2, EndPollRests
  <2>4. UNION savedPending' = pending
    BY <2>1, <2>2
  <2> QED BY <2>1, <2>2, <2>3, <2>4, <1>g, <1>t
          DEF CoverInv, StoredCovers, MemoryCovers, AwaitCovers, Covers
<1>23. CASE Nothing
  <2>1. es'.at = "rest" /\ (running' # "off" => running # "off")
    BY <1>23 DEF Nothing, Resting
  <2> QED BY <1>23, <2>1, <1>t, <1>g, QuietStep DEF Nothing
<1>24. CASE UNCHANGED esVars
  BY <1>24, <1>1 DEF esVars
<1> QED
  BY <1>4, <1>5, <1>6, <1>7, <1>8, <1>9, <1>10, <1>11, <1>12, <1>13, <1>14, <1>15, <1>16,
     <1>17, <1>18, <1>19, <1>20, <1>21, <1>22, <1>23, <1>24 DEF Next, Poll, Environment

\* The stored anchor never runs ahead: a message before it is in the stored
\* list or has been dealt with, when stop finds the list empty.
THEOREM AnchorCoveredInvariant ==
    ASSUME BusyStop = FALSE
    PROVE  Spec => []AnchorCovered
<1>1. CoverInv => AnchorCovered
  BY DEF CoverInv, StoredCovers, Covers, AnchorCovered
<1>2. CoverInv /\ [Next]_esVars => CoverInv'
  BY CoverStep
<1> QED BY <1>1, <1>2, CoverInit, PTL DEF Spec

\* Nor does the anchor in the memory of a running domain.
THEOREM PendingCoversInvariant ==
    ASSUME BusyStop = FALSE
    PROVE  Spec => []PendingCovers
<1>1. CoverInv => PendingCovers
  BY DEF CoverInv, MemoryCovers, Covers, PendingCovers
<1>2. CoverInv /\ [Next]_esVars => CoverInv'
  BY CoverStep
<1> QED BY <1>1, <1>2, CoverInit, PTL DEF Spec

-----------------------------------------------------------------------------
(* The anchors pass no event but those given up behind an early one.       *)

GivenUp(e)  == \E f \in early : f < e /\ e < f + PageSize
Taken(k)    == \A e \in Events : e <= k => e \in emitted \/ GivenUp(e)
SeenUpTo(k) == \A e \in seen \ early : e <= k

\* Not only the stored anchor: the one in memory, which the next page follows
\* and a poll stores in the end.
AnchorsTaken == Taken(savedAnchor) /\ Taken(anchor)

\* What was seen, and not early, lies before the page that is asked for, so
\* that only an early event of an answer can stop the loop over its events;
\* while a page is being stored, it lies before its token.
AwaitTaken ==
    /\ seen \subseteq emitted
    /\ es.at \in {"fetch", "savePending", "saveAnchor"} => Taken(es.token) /\ SeenUpTo(es.token)
    /\ es.at # "savePending" => SeenUpTo(anchor)
    /\ es.at \notin {"savePending", "saveAnchor"} => SeenUpTo(savedAnchor)
    /\ es.at # "rest" => running # "off"

EventInv == AnchorsTaken /\ AwaitTaken

\* Every item of the inbox up to the next token is in the page or before it.
LEMMA PageInterval ==
    ASSUME TypeOK, Page # {}
    PROVE  \A i \in 1..Items : i <= NextToken => i <= es.token \/ i \in Page
<1>1. published \in Nat /\ es.token \in Nat /\ PageSize \in Nat /\ Items \in Nat
  BY ItemsAssumption, SizesAssumption DEF TypeOK
<1>2. NextToken \in Page
  BY PageFacts
<1>3. NextToken \in 1..published /\ NextToken <= es.token + PageSize
  BY <1>2 DEF Page
<1> QED
  BY <1>1, <1>3 DEF Page

\* Of the events of a page, those given up stand behind an early one.
LEMMA PageTaken ==
    ASSUME TypeOK, SeenUpTo(es.token), seen \subseteq emitted,
           NEW e \in Page \intersect Events, e \notin emitted, e \notin TakenEvents
    PROVE  GivenUp(e)
<1>1. PICK f \in Page \intersect Events : f <= e /\ f \in seen
  BY DEF TakenEvents
<1>2. f # e
  BY <1>1
<1>3. /\ es.token \in Nat /\ PageSize \in Nat /\ e \in Int /\ f \in Int
      /\ es.token < f /\ e <= es.token + PageSize
  BY <1>1, SizesAssumption, ItemsAssumption DEF TypeOK, Page
<1>4. f < e /\ e < f + PageSize /\ ~(f <= es.token)
  BY <1>1, <1>2, <1>3
<1>5. f \in early
  BY <1>1, <1>4 DEF SeenUpTo
<1> QED
  BY <1>4, <1>5 DEF GivenUp

\* What was taken stays taken, and what was given up, given up.
LEMMA TakenStays ==
    ASSUME NEW k, Taken(k), emitted \subseteq emitted', early \subseteq early'
    PROVE  \A e \in Events : e <= k => e \in emitted' \/ GivenUp(e)'
BY DEF Taken, GivenUp

\* A step that takes at most early events and moves no anchor, and either
\* stands still or goes from and to where no page is on its way to be stored.
LEMMA EventsAside ==
    ASSUME EventInv, UNCHANGED <<anchor, savedAnchor>>,
           early \subseteq early', emitted \subseteq emitted', seen' \subseteq emitted',
           seen' \ early' \subseteq seen \ early,
           es'.at # "rest" => running' # "off",
           \/ es'.at = es.at /\ es'.token = es.token
           \/ /\ es'.at \notin {"fetch", "savePending", "saveAnchor"}
              /\ es.at \notin {"savePending", "saveAnchor"}
    PROVE  EventInv'
<1>1. AnchorsTaken'
  BY TakenStays DEF EventInv, AnchorsTaken, Taken
<1>2. CASE es'.at = es.at /\ es'.token = es.token
  <2>1. es'.at \in {"fetch", "savePending", "saveAnchor"} => Taken(es.token)' /\ SeenUpTo(es.token)'
    BY <1>2, TakenStays DEF EventInv, AwaitTaken, Taken, SeenUpTo
  <2>2. /\ es'.at # "savePending" => SeenUpTo(anchor)'
        /\ es'.at \notin {"savePending", "saveAnchor"} => SeenUpTo(savedAnchor)'
    BY <1>2 DEF EventInv, AwaitTaken, SeenUpTo
  <2> QED
    BY <1>1, <2>1, <2>2 DEF EventInv, AwaitTaken
<1>3. CASE /\ es'.at \notin {"fetch", "savePending", "saveAnchor"}
           /\ es.at \notin {"savePending", "saveAnchor"}
  <2>1. SeenUpTo(anchor)' /\ SeenUpTo(savedAnchor)'
    BY <1>3 DEF EventInv, AwaitTaken, SeenUpTo
  <2> QED
    BY <1>1, <1>3, <2>1 DEF EventInv, AwaitTaken
<1> QED
  BY <1>2, <1>3

LEMMA EventInit == Init => EventInv
<1> SUFFICES ASSUME Init PROVE EventInv
  OBVIOUS
<1>1. \A e \in Events : ~(e <= 0)
  BY ItemsAssumption
<1>2. AnchorsTaken
  BY <1>1 DEF Init, AnchorsTaken, Taken
<1>3. AwaitTaken
  BY DEF Init, AwaitTaken, SeenUpTo, Resting
<1> QED
  BY <1>2, <1>3 DEF EventInv

\* The page: its events are taken, and its token is what will be stored.
LEMMA EventAnswer ==
    ASSUME TypeOK, EventInv, Answer
    PROVE  EventInv'
<1>0. es.at = "fetch" /\ Page # {}
  BY DEF Answer
<1>1. /\ es.at = "fetch" /\ Page # {} /\ Taken(es.token) /\ SeenUpTo(es.token)
      /\ running # "off" /\ running' = running /\ savedAnchor' = savedAnchor
      /\ seen \subseteq emitted
  <2>1. running' = running /\ savedAnchor' = savedAnchor
    BY DEF Answer, session, disk
  <2> QED
    BY <1>0, <2>1 DEF EventInv, AwaitTaken
<1>2. /\ seen' = seen \union TakenEvents /\ emitted' = emitted \union TakenEvents
      /\ early' = early /\ TakenEvents \subseteq Page /\ seen' \subseteq emitted'
  BY <1>1 DEF Answer, TakenEvents
<1>3. \A e \in Events : e <= NextToken => e \in emitted' \/ GivenUp(e)
  <2>1. ASSUME NEW e \in Events, e <= NextToken PROVE e \in emitted' \/ GivenUp(e)
    <3>1. e \in 1..Items
      BY ItemsAssumption
    <3>2. e <= es.token \/ e \in Page
      BY <1>1, <2>1, <3>1, PageInterval
    <3>3. CASE e <= es.token
      BY <1>1, <1>2, <3>3 DEF Taken
    <3>4. CASE e \in Page
      BY <1>1, <1>2, <3>4, PageTaken
    <3> QED
      BY <3>2, <3>3, <3>4
  <2> QED
    BY <2>1
<1>4. \A e \in seen' \ early' : e <= NextToken
  <2>1. /\ es.token \in Nat /\ published \in Nat /\ seen \subseteq Int
        /\ NextToken \in Page
    BY <1>1, PageFacts, ItemsAssumption DEF TypeOK
  <2>2. NextToken \in Int /\ es.token < NextToken
    BY <2>1 DEF Page
  <2>3. \A e \in seen \ early : e <= NextToken
    BY <1>1, <2>1, <2>2 DEF SeenUpTo
  <2>4. \A e \in Page : e <= NextToken
    <3> DEFINE top == IF published <= es.token + PageSize THEN published
                      ELSE es.token + PageSize
    <3>0. PageSize \in Nat \ {0} /\ NextToken <= published
      BY <2>1, SizesAssumption DEF Page
    <3>1. top \in Page /\ \A e \in Page : e <= top
      BY <2>1, <2>2, <3>0 DEF Page
    <3> HIDE DEF top
    <3> QED
      BY <3>1 DEF NextToken, Max
  <2> QED
    BY <1>2, <2>3, <2>4
<1>5. \A e \in Events : e <= savedAnchor \/ e <= anchor => e \in emitted' \/ GivenUp(e)
  BY <1>2 DEF EventInv, AnchorsTaken, Taken
<1>g. \A e \in Events : GivenUp(e)' <=> GivenUp(e)
  BY <1>2 DEF GivenUp
<1>6. CASE added'
  <2>1. es'.at = "savePending" /\ es'.token = NextToken /\ anchor' = anchor
    BY <1>6 DEF Answer, TypeOK
  <2>2. AnchorsTaken'
    BY <1>1, <1>5, <1>g, <2>1 DEF AnchorsTaken, Taken
  <2>3. AwaitTaken'
    BY <1>1, <1>2, <1>3, <1>4, <1>g, <2>1 DEF AwaitTaken, Taken, SeenUpTo
  <2> QED
    BY <1>1, <2>2, <2>3 DEF EventInv
<1>7. CASE ~added'
  <2>1. es'.at = "saveAnchor" /\ es'.token = NextToken /\ anchor' = NextToken
    BY <1>7 DEF Answer, TypeOK
  <2>2. AnchorsTaken'
    BY <1>1, <1>3, <1>5, <1>g, <2>1 DEF AnchorsTaken, Taken
  <2>3. AwaitTaken'
    BY <1>1, <1>2, <1>3, <1>4, <1>g, <2>1 DEF AwaitTaken, Taken, SeenUpTo
  <2> QED
    BY <1>1, <2>2, <2>3 DEF EventInv
<1> QED
  BY <1>6, <1>7

\* The storing of a page: both tokens follow what was taken.
LEMMA EventSaved ==
    ASSUME TypeOK, EventInv, PendingSaved \/ AnchorSaved
    PROVE  EventInv'
<1>1. CASE PendingSaved
  <2>1. /\ es.at = "savePending" /\ es'.at = "saveAnchor" /\ es'.token = es.token
        /\ anchor' = es.token /\ Taken(es.token) /\ SeenUpTo(es.token) /\ running # "off"
        /\ UNCHANGED <<savedAnchor, seen, emitted, early, running>> /\ seen \subseteq emitted
    BY <1>1 DEF PendingSaved, Moves, EventInv, AwaitTaken, session, results, TypeOK
  <2>2. AnchorsTaken'
    BY <2>1 DEF EventInv, AnchorsTaken, Taken, GivenUp
  <2>3. AwaitTaken'
    BY <2>1 DEF AwaitTaken, Taken, GivenUp, SeenUpTo
  <2> QED
    BY <2>1, <2>2, <2>3 DEF EventInv
<1>2. CASE AnchorSaved
  <2>1. /\ es.at = "saveAnchor" /\ savedAnchor' = es.token /\ Taken(es.token)
        /\ SeenUpTo(es.token) /\ SeenUpTo(anchor) /\ EndPoll
        /\ UNCHANGED <<anchor, seen, emitted, early>> /\ seen \subseteq emitted
    BY <1>2 DEF AnchorSaved, EventInv, AwaitTaken, memory, results
  <2>2. es'.at \in {"poll", "rest"} /\ (es'.at # "rest" => running' # "off")
    BY <2>1, EndPollRests DEF EventInv, AwaitTaken
  <2>3. AnchorsTaken'
    BY <2>1 DEF EventInv, AnchorsTaken, Taken, GivenUp
  <2>4. AwaitTaken'
    BY <2>1, <2>2 DEF AwaitTaken, SeenUpTo
  <2> QED
    BY <2>1, <2>3, <2>4 DEF EventInv
<1> QED
  BY <1>1, <1>2

\* The start, the stop and the end of the page.
LEMMA EventSession ==
    ASSUME TypeOK, EventInv, Start \/ Stop \/ Crash
    PROVE  EventInv'
<1>1. \A e \in Events : ~(e <= 0)
  BY ItemsAssumption
<1>2. CASE Start
  <2>1. es.at = "rest" /\ es'.at = "rest" /\ anchor' \in {anchor, savedAnchor}
        /\ UNCHANGED <<savedAnchor, seen, emitted, early>>
    BY <1>2 DEF Start, Resting, disk, results, EventInv, AwaitTaken
  <2>2. AnchorsTaken'
    BY <2>1 DEF EventInv, AnchorsTaken, Taken, GivenUp
  <2>3. AwaitTaken'
    BY <2>1 DEF EventInv, AwaitTaken, SeenUpTo
  <2> QED
    BY <2>1, <2>2, <2>3 DEF EventInv
<1>3. CASE Stop
  <2>1. anchor' = 0 /\ seen' = {} /\ running' = "stopping" /\ UNCHANGED <<es, savedAnchor, emitted, early>>
    BY <1>3 DEF Stop, disk, results
  <2>2. AnchorsTaken'
    BY <1>1, <2>1 DEF EventInv, AnchorsTaken, Taken, GivenUp
  <2>3. AwaitTaken'
    BY <2>1 DEF EventInv, AwaitTaken, Taken, GivenUp, SeenUpTo
  <2> QED
    BY <2>2, <2>3 DEF EventInv
<1>4. CASE Crash
  <2>1. anchor' = 0 /\ seen' = {} /\ es'.at = "rest" /\ UNCHANGED <<savedAnchor, emitted, early>>
    BY <1>4 DEF Crash, Resting, disk, results
  <2>2. AnchorsTaken'
    BY <1>1, <2>1 DEF EventInv, AnchorsTaken, Taken, GivenUp
  <2>3. AwaitTaken'
    BY <2>1 DEF AwaitTaken, SeenUpTo
  <2> QED
    BY <2>2, <2>3 DEF EventInv
<1> QED
  BY <1>2, <1>3, <1>4

\* A write that fails leaves nothing seen beyond the anchors that is not early.
LEMMA EventSaveFails ==
    ASSUME TypeOK, EventInv, SaveFails
    PROVE  EventInv'
<1>1. /\ UNCHANGED <<anchor, savedAnchor, seen, emitted>> /\ EndPoll
      /\ early' = early \union {e \in seen : anchor < e \/ savedAnchor < e}
      /\ seen \subseteq emitted
  BY DEF SaveFails, memory, disk, EventInv, AwaitTaken
<1>2. es'.at \in {"poll", "rest"} /\ (es'.at # "rest" => running' # "off")
  BY <1>1, EndPollRests DEF EventInv, AwaitTaken
<1>3. anchor \in Int /\ savedAnchor \in Int /\ \A e \in seen : e \in Int
  BY ItemsAssumption DEF TypeOK
<1>4. \A e \in seen \ early' : e <= anchor /\ e <= savedAnchor
  BY <1>1, <1>3
<1>5. AnchorsTaken'
  BY <1>1, TakenStays DEF EventInv, AnchorsTaken, Taken
<1>6. AwaitTaken'
  BY <1>1, <1>2, <1>4 DEF AwaitTaken, SeenUpTo
<1> QED
  BY <1>5, <1>6 DEF EventInv

\* Every step keeps the anchors behind the events taken or given up.
LEMMA EventStep ==
    ASSUME TypeOK, EventInv, [Next]_esVars
    PROVE  EventInv'
<1> USE DEF memory, disk, session, results
<1>r. (es.at # "rest" => running # "off") /\ seen \subseteq emitted
  BY DEF EventInv, AwaitTaken
<1>1. ASSUME UNCHANGED <<anchor, savedAnchor, seen, emitted, early>>,
             es'.at # "rest" => running' # "off",
             \/ es'.at = es.at /\ es'.token = es.token
             \/ /\ es'.at \notin {"fetch", "savePending", "saveAnchor"}
                /\ es.at \notin {"savePending", "saveAnchor"}
      PROVE  EventInv'
  BY <1>1, <1>r, EventsAside
<1>2. ASSUME UNCHANGED <<anchor, savedAnchor, seen, emitted, early>>, EndPoll,
             es.at \notin {"savePending", "saveAnchor"}
      PROVE  EventInv'
  BY <1>1, <1>2, <1>r, EndPollRests
<1>3. CASE Publish \/ Login \/ FourSeconds \/ Resume \/ MuteMapAnswers
  BY <1>1, <1>3, <1>r DEF Publish, Login, FourSeconds, Resume, MuteMapAnswers
<1>4. CASE Logout \/ Pause
  BY <1>1, <1>4, <1>r DEF Logout, Pause
<1>5. CASE Start \/ Stop \/ Crash
  BY <1>5, EventSession
<1>6. ASSUME NEW i \in 1..Items, Push(i) PROVE EventInv'
  <2>1. UNCHANGED <<anchor, savedAnchor, es, running>>
    BY <1>6 DEF Push
  <2>2. /\ early \subseteq early' /\ emitted \subseteq emitted' /\ seen' \subseteq emitted'
        /\ seen' \ early' \subseteq seen \ early
    BY <1>6, <1>r DEF Push, Event
  <2> QED
    BY <1>r, <2>1, <2>2, EventsAside
<1>7. ASSUME NEW m \in Msg, AddToFront(m) PROVE EventInv'
  BY <1>2, <1>7 DEF AddToFront, Polls
<1>8. CASE Wake \/ FetchFails
  <2>1. es'.at \in {"poll", "after"} /\ es.at \in {"rest", "fetch"} /\ running' # "off"
    BY <1>8, <1>r DEF Wake, FetchFails, Moves, TypeOK
  <2> QED
    BY <1>1, <1>8, <2>1 DEF Wake, FetchFails
<1>9. CASE Fetch
  <2>1. es.at = "poll" /\ es'.at = "fetch" /\ es'.token = anchor /\ running' # "off"
        /\ UNCHANGED <<anchor, savedAnchor, seen, emitted, early>>
    BY <1>9 DEF Fetch, Polls, TypeOK
  <2>2. AnchorsTaken'
    BY <2>1 DEF EventInv, AnchorsTaken, Taken, GivenUp
  <2>3. AwaitTaken'
    BY <2>1 DEF EventInv, AnchorsTaken, AwaitTaken, Taken, GivenUp, SeenUpTo
  <2> QED
    BY <2>1, <2>2, <2>3 DEF EventInv
<1>10. CASE EmptyAnswer
  BY <1>2, <1>10 DEF EmptyAnswer
<1>11. CASE Answer
  BY <1>11, EventAnswer
<1>12. CASE PendingSaved \/ AnchorSaved
  BY <1>12, EventSaved
<1>13. CASE SaveFails
  BY <1>13, EventSaveFails
<1>14. CASE Consume \/ Persist
  <2>1. es'.at \in {"convert", "persist"} /\ es.at \in {"poll", "after"} /\ running' # "off"
    BY <1>14, <1>r DEF Consume, Persist, CaughtUp, Polls, TypeOK
  <2> QED
    BY <1>1, <1>14, <2>1 DEF Consume, Persist
<1>15. ASSUME NEW m \in Msg, HandOver(m) \/ Mute(m) \/ Fails(m) PROVE EventInv'
  <2>1. es'.at = es.at /\ es'.token = es.token
    BY <1>15 DEF HandOver, Mute, Fails, Done, TypeOK
  <2> QED
    BY <1>1, <1>15, <1>r, <2>1 DEF HandOver, Mute, Fails
<1>16. CASE BatchThrows \/ Nothing
  <2>1. es'.at = "rest" /\ es.at \in {"convert", "poll", "after"}
    BY <1>16 DEF BatchThrows, Nothing, CaughtUp, Polls, Resting
  <2> QED
    BY <1>1, <1>16, <2>1 DEF BatchThrows, Nothing
<1>17. CASE BatchDone \/ Persisted
  BY <1>2, <1>17 DEF BatchDone, Persisted
<1>18. CASE UNCHANGED esVars
  BY <1>1, <1>18, <1>r DEF esVars
<1> QED
  BY <1>3, <1>4, <1>5, <1>6, <1>7, <1>8, <1>9, <1>10, <1>11, <1>12, <1>13, <1>14, <1>15,
     <1>16, <1>17, <1>18 DEF Next, Poll, Environment

\* No event before the stored anchor was dropped, but on the page of one seen
\* early and behind it: wherever the page is closed, whenever stop is called,
\* whatever is pushed and whichever write fails (handleIncommingEvent,
\* EventSourceDomain).
THEOREM EventsTakenInvariant == Spec => []EventsTaken
<1>1. EventInv => EventsTaken
  BY DEF EventInv, AnchorsTaken, Taken, GivenUp, EventsTaken
<1>2. TypeOK /\ EventInv /\ [Next]_esVars => EventInv'
  BY EventStep
<1> QED BY <1>1, <1>2, EventInit, TypeInvariant, PTL DEF Spec

-----------------------------------------------------------------------------
(* The poll loop: facts about the pieces the actions share.                *)

\* Ending a pause moves at most the loop that paused.
LEMMA ForceProperties ==
    ASSUME Handler!TypeOK, Handler!Resolvable, Handler!ForcePauseResolve
    PROVE  /\ at' \in [Handler!Runs -> Handler!Places] /\ pauseResolve' = 0
           /\ \A r \in Handler!Runs : \/ at'[r] = at[r]
                                      \/ at[r] = "paused" /\ at'[r] = "awake"
<1>1. at \in [Handler!Runs -> Handler!Places] /\ pauseResolve \in 0..run /\ run \in 0..MaxRuns
  BY DEF Handler!TypeOK
<1>2. pauseResolve # 0 => pauseResolve \in Handler!Runs
  BY <1>1, BoundAssumption DEF Handler!Runs
<1> QED
  BY <1>1, <1>2 DEF Handler!ForcePauseResolve, Handler!Resolvable, Handler!Places

\* Sets of runs are finite.
LEMMA BegunFinite ==
    ASSUME run \in Nat
    PROVE  /\ IsFiniteSet(Handler!Begun) /\ Cardinality(Handler!Begun) = run
           /\ \A S \in SUBSET Handler!Begun : IsFiniteSet(S) /\ Cardinality(S) \in Nat
<1>1. IsFiniteSet(Handler!Begun) /\ Cardinality(Handler!Begun) = run
  BY FS_Interval DEF Handler!Begun
<1> QED
  BY <1>1, FS_Subset, FS_CardinalityType

-----------------------------------------------------------------------------
(* What every action keeps: the types, the resolver and the order of runs. *)

Core == Handler!TypeOK /\ Handler!Resolvable /\ Handler!Ordered

\* A loop settles at most one stop, and ends when it does.
Counted == Cardinality(Handler!Settled \ timedOut) <= Cardinality(Handler!Ended)
CountInv == Core /\ Counted

\* The instance speaks of the same cardinalities.
LEMMA SameCardinality == \A S : Handler!Cardinality(S) = Cardinality(S)
BY DEF Handler!Cardinality, Cardinality

LEMMA CoreInit == ASSUME Handler!Init PROVE Core
<1>1. /\ shouldStopAfterCurrent \in BOOLEAN /\ shouldDrainAndStop \in BOOLEAN
      /\ shouldPause \in BOOLEAN
  BY DEF Handler!Init
<1>2. /\ run = 0 /\ Handler!Begun = {} /\ pauseResolve = 0 /\ pauseTimers = 0
      /\ stoppedCallback = 0 /\ stopTimers = {} /\ timedOut = {} /\ thread = 0
  BY DEF Handler!Init, Handler!Begun
<1>3. at \in [Handler!Runs -> Handler!Places] /\ stop \in [Handler!Runs -> Handler!Stages]
  BY DEF Handler!Init, Handler!Places, Handler!Stages
<1>4. Handler!TypeOK
  BY <1>1, <1>2, <1>3, BoundAssumption DEF Handler!TypeOK
<1> QED
  BY <1>2, <1>4 DEF Handler!Init, Core, Handler!Resolvable, Handler!Ordered

LEMMA CoreStart == ASSUME Core, Handler!Start PROVE Core'
<1>1. /\ run \in Nat /\ run' = run + 1 /\ run' \in 1..MaxRuns
      /\ at \in [Handler!Runs -> Handler!Places] /\ at' = [at EXCEPT ![run'] = "scheduled"]
  BY BoundAssumption DEF Core, Handler!TypeOK, Handler!Start
<1>2. Handler!TypeOK'
  <2>1. /\ shouldStopAfterCurrent' \in BOOLEAN /\ shouldDrainAndStop' \in BOOLEAN
        /\ shouldPause' \in BOOLEAN
    BY DEF Handler!Start
  <2>2. /\ UNCHANGED <<pauseResolve, pauseTimers, stoppedCallback, stopTimers, stop, timedOut>>
        /\ thread' = run'
    BY DEF Handler!Start, Handler!pauses, Handler!stops
  <2>3. at' \in [Handler!Runs -> Handler!Places] /\ run' \in 0..MaxRuns
    <3>1. "scheduled" \in Handler!Places
      BY DEF Handler!Places
    <3>2. at' \in [Handler!Runs -> Handler!Places]
      BY <1>1, <3>1
    <3> QED
      BY <1>1, <3>2, BoundAssumption
  <2>4. \A q \in 0..run : q \in 0..run'
    BY <1>1
  <2>5. Handler!Begun \subseteq Handler!Begun'
    BY <1>1 DEF Handler!Begun
  <2>6. /\ pauseResolve' \in 0..run' /\ stoppedCallback' \in 0..run' /\ thread' \in 0..run'
        /\ stopTimers' \subseteq Handler!Begun' /\ timedOut' \subseteq Handler!Begun' /\ pauseTimers' \in Nat
    BY <1>1, <2>2, <2>4, <2>5 DEF Core, Handler!TypeOK
  <2> QED
    BY <2>1, <2>2, <2>3, <2>6 DEF Core, Handler!TypeOK
<1>3. Handler!Resolvable'
  BY <1>1 DEF Core, Handler!TypeOK, Handler!Resolvable, Handler!Start, Handler!pauses, Handler!Runs
<1>4. Handler!Ordered'
  BY <1>1 DEF Core, Handler!TypeOK, Handler!Ordered, Handler!Start, Handler!stops, Handler!Begun,
              Handler!Settled, Handler!Runs
<1> QED
  BY <1>2, <1>3, <1>4 DEF Core

\* Actions that at most end a pause, and leave the stops alone.
LEMMA CoreCalls ==
    ASSUME Core, Handler!SetPause \/ Handler!Resume \/ Handler!Wake \/ Handler!Destroy \/ Handler!PauseTimer
    PROVE  /\ Core' /\ UNCHANGED <<run, Handler!stops>>
           /\ \A r \in Handler!Runs : \/ at'[r] = at[r]
                                      \/ at[r] = "paused" /\ at'[r] = "awake"
<1>1. CASE Handler!SetPause \/ Handler!Destroy
  <2>1. /\ UNCHANGED <<Handler!flags, Handler!pauses, Handler!stops, run, at>>
        /\ shouldPause' \in BOOLEAN /\ thread' \in {0, thread}
    BY <1>1 DEF Handler!SetPause, Handler!Destroy, Core, Handler!TypeOK
  <2>2. Handler!TypeOK'
    BY <2>1 DEF Core, Handler!TypeOK, Handler!flags, Handler!pauses, Handler!stops, Handler!Begun
  <2> QED
    BY <2>1, <2>2 DEF Core, Handler!Resolvable, Handler!Ordered, Handler!pauses, Handler!stops,
                      Handler!Begun, Handler!Settled
<1>2. CASE Handler!Resume \/ Handler!Wake \/ Handler!PauseTimer
  <2>1. Handler!ForcePauseResolve /\ UNCHANGED <<Handler!flags, Handler!stops, thread, run>>
    BY <1>2 DEF Handler!Resume, Handler!Wake, Handler!PauseTimer
  <2>2. shouldPause' \in BOOLEAN /\ pauseTimers' \in Nat
    <3>1. shouldPause' \in BOOLEAN
      BY <1>2 DEF Handler!Resume, Handler!Wake, Handler!PauseTimer, Core, Handler!TypeOK
    <3>2. pauseTimers' \in Nat
      BY <1>2 DEF Handler!Resume, Handler!Wake, Handler!PauseTimer, Core, Handler!TypeOK
    <3> QED
      BY <3>1, <3>2
  <2>3. /\ at' \in [Handler!Runs -> Handler!Places] /\ pauseResolve' = 0
        /\ \A r \in Handler!Runs : \/ at'[r] = at[r]
                                   \/ at[r] = "paused" /\ at'[r] = "awake"
    BY <2>1, ForceProperties DEF Core
  <2>4. Handler!TypeOK' /\ Handler!Resolvable'
    BY <2>1, <2>2, <2>3 DEF Core, Handler!TypeOK, Handler!Resolvable, Handler!flags, Handler!stops,
                            Handler!Begun
  <2>5. Handler!Ordered'
    <3>1. \A r \in Handler!Begun : r \in Handler!Runs
      BY BoundAssumption DEF Core, Handler!TypeOK, Handler!Begun, Handler!Runs
    <3> QED
      BY <2>1, <2>3, <3>1 DEF Core, Handler!Ordered, Handler!stops, Handler!Begun, Handler!Settled
  <2> QED
    BY <2>1, <2>3, <2>4, <2>5 DEF Core
<1> QED
  BY <1>1, <1>2

LEMMA CoreBeginStop ==
    ASSUME Core, Handler!StopAfterCurrent \/ Handler!DrainAndStop
    PROVE  /\ Core' /\ run \in Handler!Runs /\ stop[run] = "none"
           /\ stop' = [stop EXCEPT ![run] = "waiting"] /\ UNCHANGED <<run, timedOut>>
           /\ \A r \in Handler!Runs : \/ at'[r] = at[r]
                                      \/ at[r] = "paused" /\ at'[r] = "awake"
<1>1. /\ Handler!BeginStop
      /\ shouldStopAfterCurrent' \in BOOLEAN /\ shouldDrainAndStop' \in BOOLEAN
  BY DEF Handler!StopAfterCurrent, Handler!DrainAndStop, Core, Handler!TypeOK
<1>2. /\ at' \in [Handler!Runs -> Handler!Places] /\ pauseResolve' \in {0, pauseResolve}
      /\ Handler!Resolvable'
      /\ \A r \in Handler!Runs : \/ at'[r] = at[r]
                                 \/ at[r] = "paused" /\ at'[r] = "awake"
  BY <1>1, ForceProperties DEF Handler!BeginStop, Core, Handler!TypeOK, Handler!Resolvable
<1>3. /\ run \in Handler!Runs /\ run \in Handler!Begun /\ stop[run] = "none"
      /\ stop' = [stop EXCEPT ![run] = "waiting"]
      /\ UNCHANGED <<pauseTimers, timedOut, thread, run>>
  BY <1>1, BoundAssumption DEF Handler!BeginStop, Core, Handler!TypeOK, Handler!Runs, Handler!Begun
<1>4. Handler!TypeOK'
  <2>1. stop' \in [Handler!Runs -> Handler!Stages]
    BY <1>3 DEF Core, Handler!TypeOK, Handler!Stages
  <2>2. stoppedCallback' \in 0..run /\ stopTimers' \subseteq Handler!Begun /\ shouldPause' \in BOOLEAN
    <3>1. shouldPause' \in BOOLEAN
      BY <1>1 DEF Handler!BeginStop
    <3>2. stoppedCallback' \in 0..run /\ stopTimers' \subseteq Handler!Begun
      BY <1>1, <1>3 DEF Handler!BeginStop, Core, Handler!TypeOK
    <3> QED
      BY <3>1, <3>2
  <2> QED
    BY <1>1, <1>2, <1>3, <2>1, <2>2 DEF Core, Handler!TypeOK, Handler!Begun
<1>5. Handler!Ordered'
  <2>1. \A r \in Handler!Begun : r \in Handler!Runs
    BY BoundAssumption DEF Core, Handler!TypeOK, Handler!Begun, Handler!Runs
  <2>2. \A r \in Handler!Runs : r # run => stop'[r] = stop[r]
    BY <1>3 DEF Core, Handler!TypeOK
  <2>3. run \in Int /\ \A r \in Handler!Runs : r \in Int
    BY DEF Core, Handler!TypeOK, Handler!Runs
  <2>4. Handler!Settled' = Handler!Settled
    BY <1>3, <2>1, <2>2 DEF Handler!Settled, Handler!Begun, Core, Handler!TypeOK
  <2> QED
    BY <1>2, <1>3, <2>1, <2>2, <2>3, <2>4 DEF Core, Handler!Ordered, Handler!Begun
<1> QED
  BY <1>2, <1>3, <1>4, <1>5 DEF Core

LEMMA CoreStopTimer ==
    ASSUME Core, NEW r \in Handler!Begun, Handler!StopTimer(r)
    PROVE  /\ Core' /\ UNCHANGED <<run, at, Handler!pauses>>
           /\ \/ UNCHANGED <<stop, timedOut>>
              \/ /\ timedOut' = timedOut \union {r}
                 /\ Handler!Settled' = Handler!Settled \union {r}
<1>1. r \in Handler!Runs
  BY BoundAssumption DEF Core, Handler!TypeOK, Handler!Begun, Handler!Runs
<1>2. CASE stop[r] = "waiting"
  <2>1. /\ stop' = [stop EXCEPT ![r] = "settled"] /\ timedOut' = timedOut \union {r}
        /\ UNCHANGED <<run, at, Handler!pauses, Handler!flags, shouldPause, thread>>
        /\ stoppedCallback' = 0 /\ stopTimers' = stopTimers \ {r}
    BY <1>2 DEF Handler!StopTimer
  <2>2. Handler!Settled' = Handler!Settled \union {r}
    BY <1>1, <2>1 DEF Handler!Settled, Handler!Begun, Core, Handler!TypeOK
  <2>3. Handler!TypeOK'
    <3>1. stop' \in [Handler!Runs -> Handler!Stages]
      BY <1>1, <2>1 DEF Core, Handler!TypeOK, Handler!Stages
    <3>2. /\ stoppedCallback' \in 0..run /\ stopTimers' \subseteq Handler!Begun
          /\ timedOut' \subseteq Handler!Begun
      BY <2>1 DEF Core, Handler!TypeOK
    <3> QED
      BY <2>1, <3>1, <3>2 DEF Core, Handler!TypeOK, Handler!Begun, Handler!flags, Handler!pauses
  <2>4. r = run
    BY <1>2 DEF Core, Handler!TypeOK, Handler!Ordered, Handler!Begun
  <2>5. Handler!Ordered'
    BY <1>1, <2>1, <2>2, <2>4 DEF Core, Handler!Ordered, Handler!TypeOK, Handler!Begun, Handler!Runs
  <2> QED
    BY <2>1, <2>2, <2>3, <2>5 DEF Core, Handler!Resolvable, Handler!pauses
<1>3. CASE stop[r] # "waiting"
  <2>1. /\ UNCHANGED <<stop, timedOut, run, at, Handler!pauses, Handler!flags, shouldPause, thread>>
        /\ stoppedCallback' = 0 /\ stopTimers' = stopTimers \ {r}
    BY <1>3 DEF Handler!StopTimer
  <2>2. stoppedCallback' \in 0..run /\ stopTimers' \subseteq Handler!Begun
    BY <2>1 DEF Core, Handler!TypeOK
  <2>3. Handler!TypeOK'
    BY <2>1, <2>2 DEF Core, Handler!TypeOK, Handler!Begun, Handler!flags, Handler!pauses
  <2> QED
    BY <2>1, <2>3 DEF Core, Handler!Resolvable, Handler!Ordered, Handler!Begun, Handler!Settled, Handler!pauses
<1> QED
  BY <1>2, <1>3

LEMMA CoreStopReturns ==
    ASSUME Core, NEW r \in Handler!Begun, Handler!StopReturns(r)
    PROVE  /\ Core' /\ UNCHANGED <<run, timedOut, Handler!pauses>> /\ Handler!Settled' = Handler!Settled
           /\ r = run /\ stop[r] = "settled"
           /\ \/ at' = at
              \/ /\ thread \in Handler!Begun /\ at[thread] = "scheduled"
                 /\ at' = [at EXCEPT ![thread] = "cancelled"]
<1>1. /\ r \in Handler!Runs /\ stop[r] = "settled" /\ stop' = [stop EXCEPT ![r] = "returned"]
      /\ thread' = 0 /\ thread \in 0..run
      /\ UNCHANGED <<Handler!flags, shouldPause, Handler!pauses, stoppedCallback, stopTimers, timedOut, run>>
  BY BoundAssumption DEF Handler!StopReturns, Core, Handler!TypeOK, Handler!Begun, Handler!Runs
<1>2. Handler!Settled' = Handler!Settled
  BY <1>1 DEF Handler!Settled, Handler!Begun, Core, Handler!TypeOK
<1>3. \/ at' = at
      \/ /\ thread \in Handler!Begun /\ at[thread] = "scheduled"
         /\ at' = [at EXCEPT ![thread] = "cancelled"]
  BY <1>1 DEF Handler!StopReturns, Handler!Begun, Core, Handler!TypeOK
<1>4. \A q \in Handler!Begun : q \in Handler!Runs
  BY BoundAssumption DEF Core, Handler!TypeOK, Handler!Begun, Handler!Runs
<1>5. Handler!TypeOK'
  BY <1>1, <1>3, <1>4 DEF Core, Handler!TypeOK, Handler!Begun, Handler!flags, Handler!pauses, Handler!Places,
                          Handler!Stages
<1>6. Handler!Resolvable'
  BY <1>1, <1>3, <1>4 DEF Core, Handler!Resolvable, Handler!TypeOK, Handler!pauses, Handler!Begun
<1>7. Handler!Ordered'
  BY <1>1, <1>2, <1>3, <1>4 DEF Core, Handler!Ordered, Handler!TypeOK, Handler!Begun, Handler!Runs
<1>8. r = run
  BY <1>1 DEF Core, Handler!TypeOK, Handler!Ordered, Handler!Begun
<1> QED
  BY <1>1, <1>2, <1>3, <1>5, <1>6, <1>7, <1>8 DEF Core

\* What a step of a loop can do.
Pauses(r) ==
    /\ at' = [at EXCEPT ![r] = "paused"]
    /\ pauseResolve' = r /\ pauseTimers' = pauseTimers + 1 /\ UNCHANGED stop

Walks(r) ==
    /\ at' \in {[at EXCEPT ![r] = p] : p \in {"polling", "sleeping"}}
    /\ UNCHANGED <<Handler!pauses, stop>>

LEMMA LoopCases ==
    ASSUME NEW r, Handler!Loop(r)
    PROVE  /\ at[r] \in {"scheduled", "awake", "sleeping", "polling"} /\ Handler!Kept
           /\ Pauses(r) \/ Walks(r) \/ (at[r] = "polling" /\ Handler!Finish(r))
  BY DEF Handler!Loop, Handler!Continue, Handler!PollEmpty, Handler!PollItem, Handler!PollThrows,
         Handler!Iterate, Handler!Pause, Pauses, Walks

LEMMA CoreLoop ==
    ASSUME Core, NEW r \in Handler!Begun, Handler!Loop(r)
    PROVE  Core'
<1>1. /\ at[r] \in {"scheduled", "awake", "sleeping", "polling"} /\ Handler!Kept
      /\ Pauses(r) \/ Walks(r) \/ (at[r] = "polling" /\ Handler!Finish(r))
  BY LoopCases
<1>2. r \in Handler!Runs /\ \A q \in Handler!Begun : q \in Handler!Runs
  BY BoundAssumption DEF Core, Handler!TypeOK, Handler!Begun, Handler!Runs
<1>3. CASE Pauses(r)
  BY <1>1, <1>2, <1>3 DEF Pauses, Handler!Kept, Core, Handler!TypeOK, Handler!Resolvable, Handler!Ordered,
                          Handler!Begun, Handler!Settled,
                          Handler!flags, Handler!Places
<1>4. CASE Walks(r)
  BY <1>1, <1>2, <1>4 DEF Walks, Handler!Kept, Core, Handler!TypeOK, Handler!Resolvable, Handler!Ordered,
                          Handler!Begun, Handler!Settled,
                          Handler!flags, Handler!pauses, Handler!Places
<1>5. CASE at[r] = "polling" /\ Handler!Finish(r)
  <2>1. at' = [at EXCEPT ![r] = "done"] /\ UNCHANGED Handler!pauses
    BY <1>5 DEF Handler!Finish
  <2>2. \/ stop' = stop
        \/ /\ stoppedCallback \in Handler!Begun /\ stop[stoppedCallback] = "waiting"
           /\ stop' = [stop EXCEPT ![stoppedCallback] = "settled"]
    BY <1>5 DEF Handler!Finish, Core, Handler!TypeOK, Handler!Begun
  <2>3. Handler!TypeOK' /\ Handler!Resolvable'
    BY <1>1, <1>2, <1>5, <2>1, <2>2
       DEF Handler!Kept, Core, Handler!TypeOK, Handler!Resolvable, Handler!Begun, Handler!flags,
           Handler!pauses, Handler!Places, Handler!Stages
  <2>4. Handler!Settled \subseteq Handler!Settled'
    BY <1>1, <1>2, <2>2 DEF Handler!Kept, Handler!Settled, Handler!Begun, Core, Handler!TypeOK
  <2>5. Handler!Ordered'
    BY <1>1, <1>2, <2>1, <2>2, <2>4 DEF Handler!Kept, Core, Handler!Ordered, Handler!TypeOK, Handler!Begun,
                                        Handler!Runs
  <2> QED
    BY <2>3, <2>5 DEF Core
<1> QED
  BY <1>1, <1>3, <1>4, <1>5

LEMMA CoreStutter ==
    ASSUME Core, UNCHANGED Handler!vars
    PROVE  Core'
  BY DEF Core, Handler!TypeOK, Handler!Resolvable, Handler!Ordered, Handler!Begun, Handler!Settled,
         Handler!vars, Handler!flags, Handler!pauses, Handler!stops

\* The state is well-typed, what can be ended is a pause and the runs follow
\* one another, in every behaviour.
LEMMA CoreNext ==
    ASSUME Core, [Handler!Next]_Handler!vars
    PROVE  Core'
<1>1. CASE Handler!Start
  BY <1>1, CoreStart
<1>2. CASE Handler!SetPause \/ Handler!Resume \/ Handler!Wake \/ Handler!Destroy \/ Handler!PauseTimer
  BY <1>2, CoreCalls
<1>3. CASE Handler!StopAfterCurrent \/ Handler!DrainAndStop
  BY <1>3, CoreBeginStop
<1>4. CASE \E r \in Handler!Begun : Handler!StopTimer(r) \/ Handler!StopReturns(r) \/ Handler!Loop(r)
  BY <1>4, CoreStopTimer, CoreStopReturns, CoreLoop
<1>5. CASE UNCHANGED Handler!vars
  BY <1>5, CoreStutter
<1> QED
  BY <1>1, <1>2, <1>3, <1>4, <1>5 DEF Handler!Next

\* The state of a thread handler is well-typed, whatever the calls and timers.
THEOREM HandlerTypeInvariant == Handler!Spec => []Handler!TypeOK
<1>1. Handler!Init => Core
  BY CoreInit
<1>2. Core /\ [Handler!Next]_Handler!vars => Core'
  BY CoreNext
<1>3. Core => Handler!TypeOK
  BY DEF Core
<1> QED
  BY <1>1, <1>2, <1>3, PTL DEF Handler!Spec

-----------------------------------------------------------------------------
(* The number of loops.                                                    *)

\* Loops do not come back, and none ends without a step that says so.
LEMMA EndedKept ==
    ASSUME Core, UNCHANGED run,
           \A r \in Handler!Begun : at[r] \in {"done", "cancelled"} => at'[r] = at[r]
    PROVE  Handler!Ended \subseteq Handler!Ended'
  BY DEF Handler!Ended, Handler!Begun

\* Counted is kept when no more stops are settled by loops and no loop
\* comes back.
LEMMA CountedKept ==
    ASSUME Core, Core', Counted, UNCHANGED run,
           (Handler!Settled \ timedOut)' \subseteq Handler!Settled \ timedOut, Handler!Ended \subseteq Handler!Ended'
    PROVE  Counted'
<1>1. run \in Nat /\ run' = run /\ Handler!Begun' = Handler!Begun
  BY BoundAssumption DEF Core, Handler!TypeOK, Handler!Begun
<1>2. /\ Handler!Settled \ timedOut \in SUBSET Handler!Begun /\ Handler!Ended' \in SUBSET Handler!Begun
      /\ Handler!Ended \in SUBSET Handler!Begun /\ (Handler!Settled \ timedOut)' \in SUBSET Handler!Begun
  BY <1>1 DEF Handler!Settled, Handler!Ended
<1>3. /\ IsFiniteSet(Handler!Settled \ timedOut) /\ IsFiniteSet(Handler!Ended')
      /\ Cardinality(Handler!Settled \ timedOut) \in Nat /\ Cardinality(Handler!Ended') \in Nat
      /\ Cardinality(Handler!Ended) \in Nat /\ Cardinality((Handler!Settled \ timedOut)') \in Nat
  BY <1>1, <1>2, BegunFinite
<1>4. /\ Cardinality((Handler!Settled \ timedOut)') <= Cardinality(Handler!Settled \ timedOut)
      /\ Cardinality(Handler!Ended) <= Cardinality(Handler!Ended')
  BY <1>3, FS_Subset
<1> QED
  BY <1>3, <1>4 DEF Counted

\* A loop that ends settles at most one stop.
LEMMA CountedFinish ==
    ASSUME Core, Core', Counted, NEW r \in Handler!Begun, at[r] = "polling", Handler!Finish(r), Handler!Kept
    PROVE  Counted'
<1>1. /\ run \in Nat /\ UNCHANGED <<run, timedOut>> /\ Handler!Begun' = Handler!Begun
      /\ r \in Handler!Runs /\ \A q \in Handler!Begun : q \in Handler!Runs
  BY BoundAssumption DEF Core, Handler!TypeOK, Handler!Begun, Handler!Runs, Handler!Kept
<1>2. Handler!Ended' = Handler!Ended \union {r} /\ r \notin Handler!Ended
  BY <1>1 DEF Handler!Finish, Handler!Ended, Core, Handler!TypeOK
<1>3. \E c : (Handler!Settled \ timedOut)' \subseteq (Handler!Settled \ timedOut) \union {c}
  <2>1. Handler!Settled' \subseteq Handler!Settled \union {stoppedCallback}
    BY <1>1 DEF Handler!Finish, Handler!Settled, Core, Handler!TypeOK
  <2> QED
    BY <1>1, <2>1
<1>4. PICK c : (Handler!Settled \ timedOut)' \subseteq (Handler!Settled \ timedOut) \union {c}
  BY <1>3
<1> DEFINE S == Handler!Settled \ timedOut
           T == (Handler!Settled \ timedOut)'
<1>5. S \in SUBSET Handler!Begun /\ T \in SUBSET Handler!Begun /\ Handler!Ended \in SUBSET Handler!Begun
  BY <1>1 DEF Handler!Settled, Handler!Ended
<1>6. /\ IsFiniteSet(S) /\ IsFiniteSet(Handler!Ended)
      /\ Cardinality(S) \in Nat /\ Cardinality(T) \in Nat /\ Cardinality(Handler!Ended) \in Nat
  BY <1>1, <1>5, BegunFinite
<1>7. Cardinality(Handler!Ended') = Cardinality(Handler!Ended) + 1
  BY <1>2, <1>6, FS_AddElement
<1>8. T \subseteq S \union {c}
  BY <1>4
<1> HIDE DEF S, T
<1>9. IsFiniteSet(S \union {c}) /\ Cardinality(S \union {c}) \in {Cardinality(S), Cardinality(S) + 1}
  BY <1>6, FS_AddElement
<1>10. Cardinality(T) <= Cardinality(S \union {c})
  BY <1>8, <1>9, FS_Subset
<1>11. Cardinality(T) <= Cardinality(S) + 1
  BY <1>6, <1>9, <1>10
<1>12. Cardinality(S) <= Cardinality(Handler!Ended)
  BY DEF Counted, S
<1> QED
  BY <1>6, <1>7, <1>11, <1>12 DEF Counted, T

LEMMA CountedStep ==
    ASSUME Core, Counted, [Handler!Next]_Handler!vars
    PROVE  Counted'
<1>1. Core'
  BY CoreNext
<1>2. run \in Nat /\ \A r \in Handler!Begun : r \in Handler!Runs
  BY BoundAssumption DEF Core, Handler!TypeOK, Handler!Begun, Handler!Runs
<1>3. CASE Handler!Start
  <2>1. /\ run' = run + 1 /\ Handler!Begun' = Handler!Begun \union {run + 1}
        /\ at' = [at EXCEPT ![run + 1] = "scheduled"] /\ UNCHANGED <<stop, timedOut>>
    BY <1>2, <1>3 DEF Handler!Start, Handler!stops, Handler!Begun
  <2>2. \A r \in Handler!Begun : r # run + 1
    BY <1>2 DEF Handler!Begun
  <2>3. run + 1 \in Handler!Runs /\ stop[run + 1] = "none"
    <3>1. run < MaxRuns
      BY <1>3 DEF Handler!Start
    <3>2. run + 1 \in Handler!Runs
      BY <1>2, <3>1, BoundAssumption DEF Handler!Runs
    <3> QED
      BY <1>2, <3>2 DEF Core, Handler!Ordered
  <2>4. Handler!Settled' = Handler!Settled
    BY <2>1, <2>2, <2>3 DEF Handler!Settled
  <2>5. Handler!Ended' = Handler!Ended
    BY <1>2, <2>1, <2>2, <2>3 DEF Handler!Ended, Core, Handler!TypeOK
  <2> QED
    BY <2>1, <2>4, <2>5 DEF Counted
<1>4. CASE Handler!SetPause \/ Handler!Resume \/ Handler!Wake \/ Handler!Destroy \/ Handler!PauseTimer
  <2>1. /\ UNCHANGED <<run, Handler!stops>>
        /\ \A r \in Handler!Runs : \/ at'[r] = at[r]
                                   \/ at[r] = "paused" /\ at'[r] = "awake"
    BY <1>4, CoreCalls
  <2>2. Handler!Settled' = Handler!Settled /\ timedOut' = timedOut
    BY <2>1 DEF Handler!Settled, Handler!Begun, Handler!stops
  <2>3. Handler!Ended \subseteq Handler!Ended'
    BY <1>2, <2>1, EndedKept
  <2> QED
    BY <1>1, <2>1, <2>2, <2>3, CountedKept
<1>5. CASE Handler!StopAfterCurrent \/ Handler!DrainAndStop
  <2>1. /\ run \in Handler!Runs /\ stop[run] = "none"
        /\ stop' = [stop EXCEPT ![run] = "waiting"] /\ UNCHANGED <<run, timedOut>>
        /\ \A r \in Handler!Runs : \/ at'[r] = at[r]
                                   \/ at[r] = "paused" /\ at'[r] = "awake"
    BY <1>5, CoreBeginStop
  <2>2. Handler!Settled' = Handler!Settled
    BY <1>2, <2>1 DEF Handler!Settled, Handler!Begun, Core, Handler!TypeOK
  <2>3. Handler!Ended \subseteq Handler!Ended'
    BY <1>2, <2>1, EndedKept
  <2> QED
    BY <1>1, <2>1, <2>2, <2>3, CountedKept
<1>6. ASSUME NEW r \in Handler!Begun, Handler!StopTimer(r)
      PROVE  Counted'
  <2>1. /\ UNCHANGED <<run, at>>
        /\ \/ UNCHANGED <<stop, timedOut>>
           \/ /\ timedOut' = timedOut \union {r} /\ Handler!Settled' = Handler!Settled \union {r}
    BY <1>6, CoreStopTimer
  <2>2. (Handler!Settled \ timedOut)' \subseteq Handler!Settled \ timedOut
    BY <2>1 DEF Handler!Settled, Handler!Begun
  <2>3. Handler!Ended \subseteq Handler!Ended'
    BY <1>2, <2>1, EndedKept
  <2> QED
    BY <1>1, <2>1, <2>2, <2>3, CountedKept
<1>7. ASSUME NEW r \in Handler!Begun, Handler!StopReturns(r)
      PROVE  Counted'
  <2>1. /\ UNCHANGED <<run, timedOut>> /\ Handler!Settled' = Handler!Settled
        /\ \/ at' = at
           \/ /\ thread \in Handler!Begun /\ at[thread] = "scheduled"
              /\ at' = [at EXCEPT ![thread] = "cancelled"]
    BY <1>7, CoreStopReturns
  <2>2. Handler!Ended \subseteq Handler!Ended'
    BY <1>2, <2>1, EndedKept DEF Core, Handler!TypeOK
  <2> QED
    BY <1>1, <2>1, <2>2, CountedKept
<1>8. ASSUME NEW r \in Handler!Begun, Handler!Loop(r)
      PROVE  Counted'
  <2>1. /\ at[r] \in {"scheduled", "awake", "sleeping", "polling"} /\ Handler!Kept
        /\ Pauses(r) \/ Walks(r) \/ (at[r] = "polling" /\ Handler!Finish(r))
    BY <1>8, LoopCases
  <2>2. CASE Pauses(r) \/ Walks(r)
    <3>1. UNCHANGED <<stop, run, timedOut>>
      BY <2>1, <2>2 DEF Pauses, Walks, Handler!Kept
    <3>2. \A q \in Handler!Runs : q # r => at'[q] = at[q]
      BY <2>2 DEF Pauses, Walks, Core, Handler!TypeOK
    <3>3. Handler!Ended \subseteq Handler!Ended'
      BY <1>2, <2>1, <3>1, <3>2, EndedKept
    <3>4. Handler!Settled' = Handler!Settled
      BY <3>1 DEF Handler!Settled, Handler!Begun
    <3> QED
      BY <1>1, <3>1, <3>3, <3>4, CountedKept
  <2> QED
    BY <1>1, <2>1, <2>2, CountedFinish
<1>9. CASE UNCHANGED Handler!vars
  BY <1>9 DEF Counted, Handler!Settled, Handler!Ended, Handler!Begun, Handler!vars, Handler!stops
<1> QED
  BY <1>3, <1>4, <1>5, <1>6, <1>7, <1>8, <1>9 DEF Handler!Next

LEMMA CountedBounds ==
    ASSUME Core, Counted
    PROVE  LoopsBounded
<1>1. run \in Nat /\ IsFiniteSet(Handler!Begun) /\ Cardinality(Handler!Begun) = run
  BY BegunFinite, BoundAssumption DEF Core, Handler!TypeOK
<1>2. /\ Handler!Ended \in SUBSET Handler!Begun /\ Handler!Settled \in SUBSET Handler!Begun
      /\ timedOut \in SUBSET Handler!Settled
  BY DEF Handler!Ended, Handler!Settled, Core, Handler!Ordered
<1>3. /\ IsFiniteSet(Handler!Settled) /\ IsFiniteSet(timedOut) /\ IsFiniteSet(Handler!Ended)
      /\ Cardinality(Handler!Settled) \in Nat /\ Cardinality(timedOut) \in Nat
      /\ Cardinality(Handler!Ended) \in Nat
  BY <1>1, <1>2, BegunFinite
<1>4. Cardinality(Handler!Alive) = run - Cardinality(Handler!Ended)
  <2>1. Handler!Begun \intersect Handler!Ended = Handler!Ended
    BY <1>2
  <2> QED
    BY <1>1, <2>1, FS_Difference DEF Handler!Alive
<1>5. Cardinality(Handler!Settled \ timedOut) = Cardinality(Handler!Settled) - Cardinality(timedOut)
  <2>1. Handler!Settled \intersect timedOut = timedOut
    BY <1>2
  <2> QED
    BY <1>3, <2>1, FS_Difference
<1>6. run - 1 <= Cardinality(Handler!Settled)
  <2>1. CASE run = 0
    BY <1>3, <2>1
  <2>2. CASE run # 0
    <3>1. (1..(run - 1)) \subseteq Handler!Settled
      BY <1>1, <2>2 DEF Core, Handler!Ordered, Handler!Settled, Handler!Begun
    <3>2. IsFiniteSet(1..(run - 1)) /\ Cardinality(1..(run - 1)) = run - 1
      BY <1>1, <2>2, FS_Interval
    <3> QED
      BY <1>3, <3>1, <3>2, FS_Subset
  <2> QED
    BY <2>1, <2>2
<1> QED
  BY <1>1, <1>3, <1>4, <1>5, <1>6, SameCardinality DEF Counted, LoopsBounded, Handler!LoopsBounded

\* However often a domain is stopped and started, its loops are never more
\* than one and those that timed-out stops left behind.
THEOREM LoopsBoundedInvariant == Handler!Spec => []LoopsBounded
<1>1. Handler!Init => CountInv
  <2>1. Handler!Init => Core
    BY CoreInit
  <2>2. Handler!Init => Handler!Begun = {}
    BY DEF Handler!Init, Handler!Begun
  <2>3. Handler!Init => Counted
    BY <2>2, FS_EmptySet DEF Counted, Handler!Settled, Handler!Ended
  <2> QED
    BY <2>1, <2>3 DEF CountInv
<1>2. CountInv /\ [Handler!Next]_Handler!vars => CountInv'
  BY CoreNext, CountedStep DEF CountInv
<1>3. CountInv => LoopsBounded
  BY CountedBounds DEF CountInv
<1> QED
  BY <1>1, <1>2, <1>3, PTL DEF Handler!Spec

-----------------------------------------------------------------------------
(* While no stop timed out.                                                *)

LEMMA WakeStep ==
    ASSUME Handler!WakeInv, [Handler!Next]_Handler!vars
    PROVE  Handler!WakeInv'
<1>1. Core /\ Core' /\ Handler!NoneLeft /\ Handler!PausedLoopWakes
  BY CoreNext DEF Core, Handler!WakeInv
<1>2. run \in Nat /\ run <= MaxRuns /\ MaxRuns \in Nat /\ \A r \in Handler!Begun : r \in Handler!Runs
  BY <1>1, BoundAssumption DEF Core, Handler!TypeOK, Handler!Begun, Handler!Runs
<1>3. timedOut \subseteq timedOut'
  <2>1. CASE \/ Handler!Start \/ Handler!SetPause \/ Handler!Resume \/ Handler!Wake \/ Handler!Destroy
             \/ Handler!PauseTimer
    BY <2>1 DEF Handler!Start, Handler!SetPause, Handler!Resume, Handler!Wake, Handler!Destroy,
                Handler!PauseTimer, Handler!stops
  <2>2. CASE Handler!StopAfterCurrent \/ Handler!DrainAndStop
    BY <2>2 DEF Handler!StopAfterCurrent, Handler!DrainAndStop, Handler!BeginStop
  <2>3. CASE \E r \in Handler!Begun : Handler!StopTimer(r)
    BY <2>3 DEF Handler!StopTimer
  <2>4. CASE \E r \in Handler!Begun : Handler!StopReturns(r)
    BY <2>4 DEF Handler!StopReturns
  <2>5. CASE \E r \in Handler!Begun : Handler!Loop(r)
    BY <2>5, LoopCases DEF Handler!Kept
  <2>6. CASE UNCHANGED Handler!vars
    BY <2>6 DEF Handler!vars, Handler!stops
  <2> QED
    BY <2>1, <2>2, <2>3, <2>4, <2>5, <2>6 DEF Handler!Next
<1> SUFFICES ASSUME timedOut' = {}
             PROVE  /\ \A r \in Handler!Settled' : at'[r] = "done"
                    /\ \A r \in Handler!Begun' : at'[r] # "cancelled"
                    /\ \A r \in Handler!Begun' : at'[r] = "paused" =>
                          pauseResolve' = r /\ pauseTimers' > 0
  BY <1>1 DEF Handler!WakeInv, Core, Handler!NoneLeft, Handler!PausedLoopWakes
<1>4. timedOut = {}
  BY <1>3
<1>5. /\ \A r \in Handler!Settled : at[r] = "done"
      /\ \A r \in Handler!Begun : at[r] # "cancelled"
      /\ \A r \in Handler!Begun : at[r] = "paused" => pauseResolve = r /\ pauseTimers > 0
  BY <1>1, <1>4 DEF Handler!NoneLeft, Handler!PausedLoopWakes
<1>6. \A r \in Handler!Begun : r # run => r \in Handler!Settled /\ at[r] = "done"
  BY <1>1, <1>2, <1>5 DEF Core, Handler!Ordered, Handler!Settled, Handler!Begun
<1>7. CASE Handler!Start
  <2>1. /\ run' = run + 1 /\ Handler!Begun' = Handler!Begun \union {run + 1}
        /\ at' = [at EXCEPT ![run + 1] = "scheduled"] /\ UNCHANGED <<stop, Handler!pauses>>
    BY <1>2, <1>7 DEF Handler!Start, Handler!stops, Handler!Begun
  <2>2. /\ \A r \in Handler!Begun : r # run + 1
        /\ run + 1 \in Handler!Runs
    BY <1>2, <1>7 DEF Handler!Start, Handler!Begun, Handler!Runs
  <2>3. stop[run + 1] = "none"
    BY <1>1, <1>2, <2>2 DEF Core, Handler!Ordered
  <2>4. Handler!Settled' = Handler!Settled /\ Handler!Settled \subseteq Handler!Begun
    BY <2>1, <2>2, <2>3 DEF Handler!Settled
  <2>5. /\ \A r \in Handler!Begun : at'[r] = at[r]
        /\ at'[run + 1] = "scheduled"
    BY <1>1, <1>2, <2>1, <2>2 DEF Core, Handler!TypeOK
  <2> QED
    BY <1>5, <2>1, <2>2, <2>4, <2>5 DEF Handler!pauses
<1>8. CASE Handler!SetPause \/ Handler!Destroy
  <2>1. UNCHANGED <<run, at, stop, Handler!pauses>>
    BY <1>8 DEF Handler!SetPause, Handler!Destroy, Handler!stops
  <2> QED
    BY <1>5, <2>1 DEF Handler!Settled, Handler!Begun, Handler!pauses
<1>9. CASE Handler!Resume \/ Handler!Wake \/ Handler!PauseTimer \/ Handler!StopAfterCurrent \/ Handler!DrainAndStop
  <2>1. /\ run' = run /\ Handler!Begun' = Handler!Begun /\ Handler!Settled' = Handler!Settled
        /\ \A r \in Handler!Runs : \/ at'[r] = at[r]
                                   \/ at[r] = "paused" /\ at'[r] = "awake"
    <3>1. CASE Handler!StopAfterCurrent \/ Handler!DrainAndStop
      BY <1>1, <1>2, <3>1, CoreBeginStop DEF Handler!Settled, Handler!Begun, Core, Handler!TypeOK
    <3>2. CASE Handler!Resume \/ Handler!Wake \/ Handler!PauseTimer
      BY <1>1, <3>2, CoreCalls DEF Handler!Settled, Handler!Begun, Handler!stops
    <3> QED
      BY <1>9, <3>1, <3>2
  <2>2. \/ Handler!ForcePauseResolve
        \/ UNCHANGED <<at, Handler!pauses>>
    BY <1>9 DEF Handler!Resume, Handler!Wake, Handler!PauseTimer, Handler!StopAfterCurrent,
                Handler!DrainAndStop, Handler!BeginStop, Handler!pauses
  <2>3. CASE UNCHANGED <<at, Handler!pauses>>
    BY <1>5, <2>1, <2>3 DEF Handler!pauses
  <2>4. CASE Handler!ForcePauseResolve
    <3>1. \A r \in Handler!Begun : at'[r] # "paused"
      BY <1>1, <1>2, <1>5, <2>1, <2>4 DEF Handler!ForcePauseResolve, Core, Handler!TypeOK, Handler!Begun
    <3> QED
      BY <1>2, <1>5, <2>1, <3>1 DEF Handler!Settled
  <2> QED
    BY <2>2, <2>3, <2>4
<1>10. ASSUME NEW r \in Handler!Begun, Handler!StopTimer(r)
       PROVE  UNCHANGED <<run, at, stop, Handler!pauses>>
  BY <1>1, <1>4, <1>10, CoreStopTimer DEF Handler!StopTimer
<1>11. ASSUME NEW r \in Handler!Begun, Handler!StopReturns(r)
       PROVE  UNCHANGED <<run, at, Handler!pauses>> /\ Handler!Settled' = Handler!Settled
  <2>1. r = run /\ r \in Handler!Settled
    BY <1>1, <1>11, CoreStopReturns DEF Handler!Settled
  <2>2. \A q \in Handler!Begun : at[q] # "scheduled"
    BY <1>5, <1>6, <2>1
  <2> QED
    BY <1>1, <1>11, <2>2, CoreStopReturns
<1>12. CASE \E r \in Handler!Begun : Handler!StopTimer(r) \/ Handler!StopReturns(r)
  <2>1. UNCHANGED <<run, at, Handler!pauses>> /\ Handler!Settled' = Handler!Settled
    BY <1>10, <1>11, <1>12 DEF Handler!Settled, Handler!Begun
  <2> QED
    BY <1>5, <2>1 DEF Handler!Begun, Handler!pauses
<1>13. ASSUME NEW r \in Handler!Begun, Handler!Loop(r)
       PROVE  /\ \A q \in Handler!Settled' : at'[q] = "done"
              /\ \A q \in Handler!Begun' : at'[q] # "cancelled"
              /\ \A q \in Handler!Begun' : at'[q] = "paused" =>
                    pauseResolve' = q /\ pauseTimers' > 0
  <2>1. /\ at[r] \in {"scheduled", "awake", "sleeping", "polling"} /\ Handler!Kept
        /\ Pauses(r) \/ Walks(r) \/ (at[r] = "polling" /\ Handler!Finish(r))
    BY <1>13, LoopCases
  <2>2. r = run /\ r \notin Handler!Settled /\ r \in Handler!Runs /\ Handler!Begun' = Handler!Begun
    BY <1>2, <1>5, <1>6, <2>1 DEF Handler!Kept, Handler!Begun
  <2>3. \A q \in Handler!Begun : q # r => at[q] = "done" /\ q \in Handler!Runs
    BY <1>2, <1>6, <2>2
  <2>4. Handler!Settled \subseteq Handler!Begun /\ pauseTimers \in Nat /\ at \in [Handler!Runs -> Handler!Places]
    BY <1>1 DEF Handler!Settled, Core, Handler!TypeOK
  <2>5. CASE Pauses(r)
    <3>1. Handler!Settled' = Handler!Settled
      BY <2>2, <2>5 DEF Pauses, Handler!Settled
    <3> QED
      BY <2>2, <2>3, <2>4, <2>5, <3>1 DEF Pauses
  <2>6. CASE Walks(r)
    <3>1. Handler!Settled' = Handler!Settled
      BY <2>2, <2>6 DEF Walks, Handler!Settled
    <3> QED
      BY <2>2, <2>3, <2>4, <2>6, <3>1 DEF Walks
  <2>7. CASE Handler!Finish(r)
    <3>1. \A q \in Handler!Begun : at'[q] = "done"
      BY <2>2, <2>3, <2>4, <2>7 DEF Handler!Finish
    <3>2. Handler!Settled' \subseteq Handler!Begun
      BY <2>2 DEF Handler!Settled
    <3> QED
      BY <2>2, <3>1, <3>2
  <2> QED
    BY <2>1, <2>5, <2>6, <2>7
<1>14. CASE UNCHANGED Handler!vars
  BY <1>5, <1>14 DEF Handler!Settled, Handler!Begun, Handler!vars, Handler!pauses, Handler!stops
<1> QED
  BY <1>7, <1>8, <1>9, <1>12, <1>13, <1>14 DEF Handler!Next

\* The induction the two theorems below draw on.
THEOREM WakeInvariant == Handler!Spec => []Handler!WakeInv
<1>1. Handler!Init => Handler!WakeInv
  <2>1. ASSUME Handler!Init PROVE Handler!WakeInv
    <3>1. Core
      BY <2>1, CoreInit
    <3>2. Handler!Begun = {}
      BY <2>1 DEF Handler!Init, Handler!Begun
    <3> QED
      BY <3>1, <3>2 DEF Core, Handler!WakeInv, Handler!NoneLeft, Handler!PausedLoopWakes, Handler!Settled
  <2> QED
    BY <2>1
<1> QED
  BY <1>1, WakeStep, PTL DEF Handler!Spec

\* As long as no stop timed out, a paused loop is the one that resume, the
\* timers and a stop wake, and a timer that will wake it is set.
THEOREM PausedLoopWakesInvariant == Handler!Spec => []PausedLoopWakes
<1>1. Handler!WakeInv => PausedLoopWakes
  BY DEF Handler!WakeInv, PausedLoopWakes
<1> QED
  BY <1>1, WakeInvariant, PTL

\* A stop that came back without its time limit left no loop alive.
THEOREM StoppedIsQuietInvariant == Handler!Spec => []StoppedIsQuiet
<1>1. Handler!WakeInv => StoppedIsQuiet
  <2>1. SUFFICES ASSUME Handler!WakeInv, timedOut = {}, run > 0, stop[run] = "returned"
                 PROVE  Handler!Alive = {}
    BY DEF StoppedIsQuiet, Handler!StoppedIsQuiet
  <2>2. run \in Handler!Begun /\ \A r \in Handler!Begun : r # run => r < run
    BY <2>1, BoundAssumption DEF Handler!WakeInv, Handler!TypeOK, Handler!Begun
  <2>3. \A r \in Handler!Begun : r \in Handler!Settled
    BY <2>1, <2>2 DEF Handler!WakeInv, Handler!Ordered, Handler!Settled
  <2> QED
    BY <2>1, <2>3 DEF Handler!WakeInv, Handler!NoneLeft, Handler!Alive, Handler!Ended
<1> QED
  BY <1>1, WakeInvariant, PTL

-----------------------------------------------------------------------------
(* The connections.                                                        *)

\* A new client of MQTT begins without topics.
LEMMA NewClient ==
    ASSUME Connections!TopicsInv,
           Connections!RecreateMqttClient \/ UNCHANGED <<mqtt, subs, subscribed, steady>>,
           UNCHANGED <<handler, wanted>>
    PROVE  Connections!TopicsInv'
BY DEF Connections!TopicsInv, Connections!RecreateMqttClient

\* Whatever comes of an attempt to initialize, at most the client of MQTT is
\* made again.
LEMMA Initializes ==
    ASSUME Connections!Answers \/ Connections!InitializeClientAndChainList
    PROVE  /\ Connections!RecreateMqttClient \/ UNCHANGED <<mqtt, subs, subscribed, steady>>
           /\ UNCHANGED <<handler, wanted>>
<1>1. ASSUME NEW n \in Connections!Attempt, Connections!FetchUrlAnswered(n) \/ Connections!ClientSetUp(n)
      PROVE  /\ Connections!RecreateMqttClient \/ UNCHANGED <<mqtt, subs, subscribed, steady>>
             /\ UNCHANGED <<handler, wanted>>
  BY <1>1 DEF Connections!FetchUrlAnswered, Connections!ClientSetUp, Connections!SetNodeManagers,
              Connections!push, Connections!topics
<1>2. ASSUME NEW n \in Connections!Attempt, Connections!RefreshAnswered(n) \/ Connections!ChainListAnswered(n)
      PROVE  UNCHANGED <<mqtt, subs, subscribed, steady, handler, wanted>>
  BY <1>2 DEF Connections!RefreshAnswered, Connections!ChainListAnswered, Connections!push, Connections!topics
<1>3. ASSUME Connections!InitializeClientAndChainList
      PROVE  UNCHANGED <<mqtt, subs, subscribed, steady, handler, wanted>>
  BY <1>3 DEF Connections!InitializeClientAndChainList, Connections!push, Connections!topics
<1> QED
  BY <1>1, <1>2, <1>3 DEF Connections!Answers

\* The listener brings what the broker has to the topics that are wanted.
LEMMA TopicsSynced ==
    ASSUME Connections!TopicsInv, NEW new \in SUBSET Topic, Connections!TopicsChange(new)
    PROVE  Connections!TopicsInv'
<1>1. wanted' = new /\ UNCHANGED <<mqtt, handler>>
  BY DEF Connections!TopicsChange
<1>2. CASE handler /\ mqtt
  <2>1. /\ subs' = (subs \ (subscribed \ new)) \union (new \ subscribed)
        /\ subscribed' = new
        /\ steady' = (steady \/ subscribed = {})
    BY <1>2 DEF Connections!TopicsChange, Connections!SyncAllTopics
  <2>2. subs \subseteq subscribed /\ (steady \/ subscribed = {} => subs = subscribed)
    BY DEF Connections!TopicsInv
  <2>3. subs' \subseteq new /\ (steady' => subs' = new)
    BY <2>1, <2>2
  <2> QED
    BY <1>1, <1>2, <2>1, <2>3 DEF Connections!TopicsInv
<1>3. CASE handler /\ ~mqtt
  <2>1. steady' = FALSE /\ UNCHANGED <<subs, subscribed>>
    BY <1>3 DEF Connections!TopicsChange, Connections!SyncAllTopics
  <2> QED
    BY <1>1, <1>3, <2>1 DEF Connections!TopicsInv
<1>4. CASE ~handler
  <2>1. UNCHANGED <<subs, subscribed, steady>>
    BY <1>4 DEF Connections!TopicsChange
  <2> QED
    BY <1>1, <1>4, <2>1 DEF Connections!TopicsInv
<1> QED
  BY <1>2, <1>3, <1>4

\* No topic is subscribed to at the broker that is not wanted, and all that
\* are wanted are while the client is the one they were first synchronized
\* with: whatever attempts to initialize, new urls, changes of the groups and
\* pauses come between.
THEOREM TopicsFollowInvariant == Connections!Spec => []TopicsFollow
<1>1. Connections!Init => Connections!TopicsInv
  BY DEF Connections!Init, Connections!TopicsInv
<1>2. Connections!TopicsInv /\ [Connections!Next]_Connections!vars => Connections!TopicsInv'
  <2> SUFFICES ASSUME Connections!TopicsInv, [Connections!Next]_Connections!vars
               PROVE  Connections!TopicsInv'
    OBVIOUS
  <2>1. CASE Connections!Answers \/ Connections!InitializeClientAndChainList
    BY <2>1, Initializes, NewClient
  <2>2. CASE Connections!BackendMoves
    BY <2>2 DEF Connections!BackendMoves, Connections!TopicsInv, Connections!push, Connections!topics
  <2>3. CASE Connections!SetupMqttConnection \/ \E h \in Connections!Holder : Connections!GetUrl(h)
    <3>1. /\ Connections!RecreateMqttClient \/ UNCHANGED <<mqtt, subs, subscribed, steady>>
          /\ UNCHANGED <<handler, wanted>>
      BY <2>3 DEF Connections!SetupMqttConnection, Connections!GetUrl, Connections!push, Connections!topics
    <3> QED
      BY <3>1, NewClient
  <2>4. CASE \E new \in SUBSET Topic : Connections!TopicsChange(new)
    BY <2>4, TopicsSynced
  <2>5. CASE Connections!Resume \/ Connections!Pause
    BY <2>5 DEF Connections!Resume, Connections!Pause, Connections!TopicsInv, Connections!push,
                Connections!topics
  <2>6. CASE UNCHANGED Connections!vars
    BY <2>6 DEF Connections!vars, Connections!TopicsInv
  <2> QED
    BY <2>1, <2>2, <2>3, <2>4, <2>5, <2>6 DEF Connections!Next
<1>3. Connections!TopicsInv => TopicsFollow
  BY DEF Connections!TopicsInv, TopicsFollow, Connections!TopicsFollow
<1> QED
  BY <1>1, <1>2, <1>3, PTL DEF Connections!Spec
=============================================================================
