---------------------------- MODULE MappingCache ----------------------------
(***************************************************************************)
(* The caches of names and addresses (packages/client: MappingCache of     *)
(* nameMappingCache.ts, AddressMappingStore.ts).  Callers that ask for a   *)
(* key that is not there leave a callback and start a timer of fifteen     *)
(* seconds; the keys asked for within a tenth of a second are fetched      *)
(* together.  The first cache also remembers the keys the service does not *)
(* know, the second does not; the first has batches that fetch at once.    *)
(***************************************************************************)
EXTENDS Integers, FiniteSets

CONSTANTS
    Caller, Key,
    Bounds    \* the bounds: records [remembers: the cache is the one of names; known: keys of the
              \* service; asks: {} or {k} of each caller; batches: sets of keys; fails; slow]

VARIABLES
    cached,     \* the keys of _mappingCache
    notFetched, \* _notFetchedSet
    callbacks,  \* callers whose callback is in _callbacks
    timers,     \* callers whose timer is running
    pending,    \* _pendingSet
    debounce,   \* whether the timer of the debounced fetch is running
    requests,   \* sets of keys being fetched: [keys, batch]
    answer,     \* of each caller: "none", "waits", "value", "null" or "error"
    dropped,    \* history: callers whose callback was deleted by another's timer
    excused,    \* history: keys of which a request failed or took fifteen seconds
    left        \* what is left of the bounds

vars == <<cached, notFetched, callbacks, timers, pending, debounce, requests, answer, dropped, excused, left>>

Uses(c) == left[c] > 0 /\ left' = [left EXCEPT ![c] = @ - 1]
Of(c) == left.asks[c]

Init ==
    /\ left \in Bounds
    /\ cached = {} /\ notFetched = {} /\ callbacks = {} /\ timers = {} /\ pending = {} /\ debounce = FALSE
    /\ requests = {} /\ answer = [c \in Caller |-> "none"] /\ dropped = {} /\ excused = {}

-----------------------------------------------------------------------------
\* getRes, getMapping: answered at once, or a callback and a timer of its own.
Ask(c, k) ==
    /\ answer[c] = "none" /\ k \in Of(c)
    /\ IF k \in cached \union notFetched
       THEN /\ answer' = [answer EXCEPT ![c] = IF k \in cached THEN "value" ELSE "null"]
            /\ UNCHANGED <<callbacks, timers, pending, debounce>>
       ELSE /\ answer' = [answer EXCEPT ![c] = "waits"]
            /\ callbacks' = callbacks \union {c} /\ timers' = timers \union {c}
            /\ pending' = pending \union {k} /\ debounce' = TRUE
    /\ UNCHANGED <<cached, notFetched, requests, dropped, excused, left>>

\* The keys are taken before the request: what is asked for meanwhile is
\* fetched by the next.
FetchPendingSet ==
    /\ debounce /\ debounce' = FALSE
    /\ requests' = requests \union {[keys |-> pending, batch |-> FALSE]}
    /\ pending' = {}
    /\ UNCHANGED <<cached, notFetched, callbacks, timers, answer, dropped, excused, left>>

\* batchGetRes, batchGetEvmAddresses: what is missing is fetched at once.
BatchGetRes(ks) ==
    /\ ks \in left.batches /\ left' = [left EXCEPT !.batches = @ \ {ks}]
    /\ LET misses == ks \ (cached \union notFetched)
       IN  requests' = IF misses = {} THEN requests ELSE requests \union {[keys |-> misses, batch |-> TRUE]}
    /\ UNCHANGED <<cached, notFetched, callbacks, timers, pending, debounce, answer, dropped, excused>>

\* Mutant: who waits for a batched key is taken to be answered by the batch.
MutAnswered(r) ==
    /\ r \in requests /\ requests' = requests \ {r}
    /\ LET found == r.keys \cap left.known
           told == {c \in callbacks : Of(c) \subseteq found}
       IN  /\ cached' = cached \union found
           /\ notFetched' = IF left.remembers THEN notFetched \union (r.keys \ found) ELSE notFetched
           /\ answer' = [c \in Caller |-> IF c \in told /\ ~r.batch THEN "value" ELSE answer[c]]
           /\ callbacks' = callbacks \ told
    /\ UNCHANGED <<timers, pending, debounce, dropped, excused, left>>

\* _updateCache and, for what was pending, the callbacks of the keys found.
\* Nobody is told of a key that was not.
Answered(r) ==
    /\ r \in requests /\ requests' = requests \ {r}
    /\ LET found == r.keys \cap left.known
           told == IF r.batch THEN {} ELSE {c \in callbacks : Of(c) \subseteq found}
       IN  /\ cached' = cached \union found
           /\ notFetched' = IF left.remembers THEN notFetched \union (r.keys \ found) ELSE notFetched
           /\ answer' = [c \in Caller |-> IF c \in told THEN "value" ELSE answer[c]]
           /\ callbacks' = callbacks \ told
    /\ UNCHANGED <<timers, pending, debounce, dropped, excused, left>>

\* The keys of a request that fails are not asked for again.
Fails(r) ==
    /\ r \in requests /\ requests' = requests \ {r}
    /\ Uses("fails")
    /\ excused' = IF r.batch THEN excused ELSE excused \union r.keys
    /\ UNCHANGED <<cached, notFetched, callbacks, timers, pending, debounce, answer, dropped>>

\* After fifteen seconds, when nothing is asked for or the request is slow.
\* The callbacks of the key are all deleted, and the caller is told as often
\* as there were some; the others are not.
TimerFires(c) ==
    /\ c \in timers /\ timers' = timers \ {c}
    /\ ~debounce
    /\ IF \E r \in requests : Of(c) \cap r.keys # {}
       THEN Uses("slow") /\ excused' = excused \union Of(c)
       ELSE UNCHANGED <<left, excused>>
    /\ LET waiting == {d \in callbacks : Of(d) = Of(c)}
       IN  IF Of(c) \subseteq cached \/ waiting = {}
           THEN UNCHANGED <<callbacks, answer, dropped>>
           ELSE /\ callbacks' = callbacks \ waiting
                /\ answer' = [answer EXCEPT ![c] = IF @ # "waits" THEN @
                                                   ELSE IF left.remembers THEN "null" ELSE "error"]
                /\ dropped' = dropped \union {d \in waiting \ {c} : answer[d] = "waits"}
    /\ UNCHANGED <<cached, notFetched, pending, debounce, requests>>

Next ==
    \/ \E c \in Caller, k \in Key : Ask(c, k)
    \/ \E c \in Caller : TimerFires(c)
    \/ \E r \in requests : Answered(r) \/ Fails(r)
    \/ \E ks \in left.batches : BatchGetRes(ks)
    \/ FetchPendingSet

Fairness ==
    /\ WF_vars(FetchPendingSet)
    /\ WF_vars(\E r \in requests : Answered(r))
    /\ WF_vars(\E c \in Caller : TimerFires(c))

Spec == Init /\ [][Next]_vars /\ Fairness

-----------------------------------------------------------------------------
\* A caller whose request failed, or was slow, as a batch put the key in the
\* cache: its timer finds the key there and says nothing.
Stranded(c) == c \in callbacks /\ Of(c) \subseteq cached \intersect excused

\* Whoever asks is answered, and with the value if the service knows the key
\* and the request for it neither failed nor took fifteen seconds; unless
\* the timer of another caller deleted the callback, or it was stranded.
AnsweredInTheEnd ==
    \A c \in Caller :
        answer[c] = "waits" ~>
            \/ c \in dropped \/ Stranded(c)
            \/ answer[c] = "value"
            \/ answer[c] \in {"null", "error"} /\ (~(Of(c) \subseteq left.known) \/ Of(c) \subseteq excused)
=============================================================================
