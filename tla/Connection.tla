----------------------------- MODULE Connection -----------------------------
(***************************************************************************)
(* How a page gets its connections (packages/facade, core, client): the    *)
(* url of a node from the node manager, the protocol parameters of the     *)
(* client, the list of chains, and the topics whose events are pushed over *)
(* MQTT.  The application initializes, and again if that failed, while     *)
(* parts of the first attempt are still on their way; it hands in a way to *)
(* connect to MQTT at any time.  The event source keeps the topics in step *)
(* with the groups of the user.                                            *)
(*                                                                         *)
(* Attempts are numbered; each has a node manager and a client of its own. *)
(* The backend that names nodes, the node and the MQTT broker are external.*)
(***************************************************************************)
EXTENDS Integers, FiniteSets

CONSTANTS
    Topic,
    Bounds    \* the bounds: records [attempts; stored: urls an earlier page stored, as {} or {url};
              \* prefix: whether the storage has one; protocolStored; chainsStored;
              \* fails; moves; changes; pauses]

Attempt == 1..3
NoUrl == 0    \* urls are numbered by the backend, which gives out its latest

VARIABLES
    backend,     \* the url the backend gives out
    storedUrl,   \* url under STORAGE_KEY: {} or {url}
    storedChain, \* whether the list of chains is stored
    storedProto, \* whether the protocol parameters are stored
    promise,     \* _initializationPromise: {} or {attempt}
    last,        \* the last attempt, 0 before the first
    node, setup, chain, \* of each attempt: "no", "asks", "ok" or "failed"
    url,         \* currentUrl of each node manager
    refreshing,  \* node managers whose background refresh is on its way
    chainList,   \* whether there is a _chainList
    chainAsked,  \* attempts whose request for the chains is on its way
    managers,    \* _nodeManager of "core", "client" and "auxiliary", 0 for none; the client's is that of the last
    using,       \* _currentUrlUsing of each
    connectFn,   \* whether _connectFn is set
    mqtt,        \* whether there is an _mqttClient
    subs,        \* topics the broker has for it
    subscribed,  \* _subscribedTopics
    handler,     \* whether the event source hears of changes of the topics
    wanted,      \* inbox topics of the groups and the address of the user
    steady,      \* history: the topics were synchronized with this client from the start
    left         \* what is left of the bounds

store == <<storedUrl, storedChain, storedProto>>
start == <<promise, last, node, setup, chain, url, refreshing, chainList, chainAsked>>
hold == <<managers, using>>
push == <<connectFn, mqtt, subs, subscribed, steady>>
topics == <<handler, wanted>>
vars == <<backend, storedUrl, storedChain, storedProto, promise, last, node, setup, chain, url, refreshing,
          chainList, chainAsked, managers, using, connectFn, mqtt, subs, subscribed, handler, wanted, steady, left>>

Uses(c) == left[c] > 0 /\ left' = [left EXCEPT ![c] = @ - 1]
Holder == {"core", "client", "auxiliary"}

Init ==
    /\ left \in Bounds
    /\ backend = 1
    /\ storedUrl = left.stored /\ storedChain = left.chainsStored /\ storedProto = left.protocolStored
    /\ promise = {} /\ last = 0
    /\ node = [n \in Attempt |-> "no"] /\ setup = node /\ chain = node
    /\ url = [n \in Attempt |-> NoUrl] /\ refreshing = {} /\ chainList = FALSE /\ chainAsked = {}
    /\ managers = [h \in Holder |-> 0] /\ using = [h \in Holder |-> NoUrl]
    /\ connectFn = FALSE /\ mqtt = FALSE /\ subs = {} /\ subscribed = {}
    /\ handler = FALSE /\ wanted = {} /\ steady = FALSE

-----------------------------------------------------------------------------
(* The MQTT client.                                                        *)

\* recreateMqttClient: the old client is closed, and its subscriptions with
\* it; the topics count as subscribed still.
RecreateMqttClient ==
    IF connectFn' THEN mqtt' = TRUE /\ subs' = {} /\ steady' = FALSE /\ UNCHANGED subscribed
    ELSE UNCHANGED <<mqtt, subs, subscribed, steady>>

\* Without a node manager there is no url to connect to: it throws.
SetupMqttConnection ==
    /\ ~connectFn /\ connectFn' = TRUE
    /\ IF managers["core"] = 0 THEN UNCHANGED <<mqtt, subs, subscribed, steady>> ELSE RecreateMqttClient
    /\ UNCHANGED <<backend, store, start, hold, topics, left>>

\* getUrl, which every request calls: a new url of the node manager.
GetUrl(h) ==
    LET n == managers[h]
    IN  /\ n # 0 /\ using[h] # url[n]
        /\ using' = [using EXCEPT ![h] = url[n]]
        /\ IF h = "core" THEN UNCHANGED connectFn /\ RecreateMqttClient ELSE UNCHANGED push
        /\ UNCHANGED <<backend, store, start, managers, topics, left>>

\* Mutant: topics that are not wanted any more still count as subscribed.
MutSyncAllTopics(new) ==
    IF ~mqtt THEN steady' = FALSE /\ UNCHANGED <<subs, subscribed>>
    ELSE /\ subs' = (subs \ (subscribed \ new)) \union (new \ subscribed)
         /\ subscribed' = subscribed \union new
         /\ steady' = (steady \/ subscribed = {})

\* Only what is new is subscribed to, and what is not wanted any more
\* unsubscribed.
SyncAllTopics(new) ==
    IF ~mqtt THEN steady' = FALSE /\ UNCHANGED <<subs, subscribed>>
    ELSE /\ subs' = (subs \ (subscribed \ new)) \union (new \ subscribed)
         /\ subscribed' = new
         /\ steady' = (steady \/ subscribed = {})

TopicsChange(new) ==
    /\ new # wanted /\ Uses("changes")
    /\ wanted' = new
    /\ IF handler THEN SyncAllTopics(new) ELSE UNCHANGED <<subs, subscribed, steady>>
    /\ UNCHANGED <<backend, store, start, hold, connectFn, mqtt, handler>>

Resume ==
    /\ ~handler /\ handler' = TRUE
    /\ UNCHANGED <<backend, store, start, hold, push, wanted, left>>

\* Its listener is not removed: the bound function is another one.
Pause ==
    /\ handler /\ Uses("pauses")
    /\ IF mqtt THEN subs' = subs \ subscribed /\ subscribed' = {} ELSE UNCHANGED <<subs, subscribed>>
    /\ steady' = FALSE
    /\ UNCHANGED <<backend, store, start, hold, connectFn, mqtt, topics>>

-----------------------------------------------------------------------------
(* Initialization.                                                         *)

\* The url is read under the prefix and written without.
UrlFound == IF left.prefix THEN {} ELSE storedUrl

\* The request is made anyway; with a stored list nobody waits for it.
FetchChainList(n) ==
    /\ chainList' = (chainList \/ storedChain)
    /\ chain' = [chain EXCEPT ![n] = IF chainList' THEN "ok" ELSE "asks"]
    /\ chainAsked' = IF chainList THEN chainAsked ELSE chainAsked \union {n}

\* Mutant: an attempt that failed leaves its promise.
MutRejects(n) == promise' = promise

\* The promise of the attempt is given up so that another may be made.
Rejects(n) == promise' = promise \ {n}

InitializeClientAndChainList ==
    /\ promise = {} /\ last \in 0..2 /\ Uses("attempts")
    /\ LET n == last + 1
       IN  /\ last' = n /\ promise' = {n}
           /\ IF UrlFound # {}
              THEN /\ node' = [node EXCEPT ![n] = "ok"] /\ refreshing' = refreshing \union {n}
                   /\ \E u \in UrlFound : url' = [url EXCEPT ![n] = u]
              ELSE node' = [node EXCEPT ![n] = "asks"] /\ UNCHANGED <<url, refreshing>>
           /\ setup' = [setup EXCEPT ![n] = "asks"]
           /\ managers' = [managers EXCEPT !["client"] = 0] /\ using' = [using EXCEPT !["client"] = NoUrl]
           /\ FetchChainList(n)
    /\ UNCHANGED <<backend, store, push, topics>>

\* Once the node and the client of an attempt are there, whoever talks to
\* the node is told of its node manager, the client being that of the last
\* attempt.
SetNodeManagers(n) ==
    IF node'[n] = "ok" /\ setup'[n] = "ok"
    THEN /\ managers' = [h \in Holder |-> n] /\ using' = [h \in Holder |-> url'[n]]
         /\ UNCHANGED connectFn /\ RecreateMqttClient
    ELSE UNCHANGED <<hold, push>>

FetchUrlAnswered(n) ==
    /\ node[n] = "asks"
    /\ \/ /\ node' = [node EXCEPT ![n] = "ok"] /\ url' = [url EXCEPT ![n] = backend]
          /\ storedUrl' = {backend}
          /\ UNCHANGED <<setup, left, promise>>
          /\ SetNodeManagers(n)
       \/ /\ Uses("fails") /\ node' = [node EXCEPT ![n] = "failed"] /\ Rejects(n)
          /\ UNCHANGED <<setup, url, storedUrl, hold, push>>
    /\ UNCHANGED <<backend, storedChain, storedProto, last, chain, refreshing, chainList, chainAsked, topics>>

\* recreateClient: the parameters are stored, or asked for; without them it
\* throws.
ClientSetUp(n) ==
    /\ setup[n] = "asks"
    /\ \/ /\ setup' = [setup EXCEPT ![n] = "ok"] /\ storedProto' = TRUE
          /\ UNCHANGED <<node, url, left, promise>>
          /\ SetNodeManagers(n)
       \/ /\ ~storedProto /\ Uses("fails") /\ setup' = [setup EXCEPT ![n] = "failed"] /\ Rejects(n)
          /\ UNCHANGED <<node, url, storedProto, hold, push>>
    /\ UNCHANGED <<backend, storedUrl, storedChain, last, chain, refreshing, chainList, chainAsked, topics>>

ChainListAnswered(n) ==
    /\ n \in chainAsked /\ chainAsked' = chainAsked \ {n}
    /\ \/ /\ chainList' = TRUE /\ storedChain' = TRUE
          /\ chain' = [chain EXCEPT ![n] = "ok"]
          /\ UNCHANGED <<left, promise>>
       \/ /\ Uses("fails")
          /\ IF chain[n] = "ok" THEN UNCHANGED <<chain, promise>>
             ELSE chain' = [chain EXCEPT ![n] = "failed"] /\ Rejects(n)
          /\ UNCHANGED <<chainList, storedChain>>
    /\ UNCHANGED <<backend, storedUrl, storedProto, last, node, setup, url, refreshing, hold, push, topics>>

\* A failed refresh leaves the url.
RefreshAnswered(n) ==
    /\ n \in refreshing /\ refreshing' = refreshing \ {n}
    /\ \/ url' = [url EXCEPT ![n] = backend] /\ storedUrl' = {backend} /\ UNCHANGED left
       \/ Uses("fails") /\ UNCHANGED <<url, storedUrl>>
    /\ UNCHANGED <<backend, storedChain, storedProto, promise, last, node, setup, chain, chainList, chainAsked,
                   hold, push, topics>>

BackendMoves ==
    /\ Uses("moves")
    /\ backend' = backend + 1
    /\ UNCHANGED <<store, start, hold, push, topics>>

-----------------------------------------------------------------------------
Answers ==
    \E n \in Attempt : FetchUrlAnswered(n) \/ ClientSetUp(n) \/ RefreshAnswered(n) \/ ChainListAnswered(n)

Next ==
    \/ Answers \/ InitializeClientAndChainList \/ BackendMoves
    \/ SetupMqttConnection \/ \E h \in Holder : GetUrl(h)
    \/ \E new \in SUBSET Topic : TopicsChange(new)
    \/ Resume \/ Pause

Fairness ==
    WF_vars(Answers) /\ WF_vars(InitializeClientAndChainList) /\ WF_vars(\E h \in Holder : GetUrl(h))

Spec == Init /\ [][Next]_vars /\ Fairness

-----------------------------------------------------------------------------
Resolved(n) == node[n] = "ok" /\ setup[n] = "ok" /\ chain[n] = "ok"

\* No topic is subscribed to that is not wanted, and while the client is the
\* one the topics were first synchronized with, all that are wanted are.
TopicsFollow == subs \subseteq wanted /\ (steady => subs = wanted)

\* If the application tries again after a failure, it is initialized in the
\* end, although parts of an earlier attempt may end after the last: the
\* chains are there, and all use the url of one node manager.
InitializedInTheEnd ==
    <>[](/\ chainList /\ \E n \in promise : Resolved(n)
         /\ \E m \in Attempt : url[m] # NoUrl /\ \A h \in Holder : managers[h] = m /\ using[h] = url[m])

\* An url that an earlier page stored is where the next one starts.
StoredUrlIsTried ==
    \A n \in Attempt : node[n] = "asks" => left.stored = {}

\* Why the topics follow: what the broker has counts as subscribed, as a new
\* client begins with nothing, and nothing counts as subscribed before there
\* are a client and a listener, neither of which ever goes.
TopicsInv ==
    /\ subs \subseteq subscribed /\ subscribed \subseteq wanted
    /\ ~mqtt \/ ~handler => subscribed = {}
    /\ steady => mqtt /\ handler /\ subs = wanted
=============================================================================
