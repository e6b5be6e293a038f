------------------------------ MODULE Services ------------------------------
(***************************************************************************)
(* The services of a page: the poll loop of a domain (ThreadHandler), the  *)
(* cache of names (MappingCache) and the connections (Connection).  They   *)
(* share no variable.                                                      *)
(***************************************************************************)
EXTENDS Integers

CONSTANTS
    MaxRuns, MaxCalls,               \* of ThreadHandler
    Caller, Key, NamesBounds,        \* of MappingCache
    Topic, ConnectionBounds          \* of Connection

ASSUME BoundAssumption == MaxRuns \in Nat /\ MaxCalls \in Nat

VARIABLES
    shouldStopAfterCurrent, shouldDrainAndStop, shouldPause, pauseResolve, pauseTimers, stoppedCallback,
    stopTimers, thread, run, at, stop, timedOut, calls,
    cached, notFetched, callbacks, nameTimers, namesPending, debounce, requests, answer, dropped, namesExcused,
    namesLeft,
    backend, storedUrl, storedChain, storedProto, promise, last, node, setup, chain, url, refreshing, chainList,
    chainAsked, managers, using, connectFn, mqtt, subs, subscribed, handler, wanted, steady, connectionLeft

loop ==
    <<shouldStopAfterCurrent, shouldDrainAndStop, shouldPause, pauseResolve, pauseTimers, stoppedCallback,
      stopTimers, thread, run, at, stop, timedOut, calls>>
names ==
    <<cached, notFetched, callbacks, nameTimers, namesPending, debounce, requests, answer, dropped, namesExcused,
      namesLeft>>
connections ==
    <<backend, storedUrl, storedChain, storedProto, promise, last, node, setup, chain, url, refreshing, chainList,
      chainAsked, managers, using, connectFn, mqtt, subs, subscribed, handler, wanted, steady, connectionLeft>>

Handler == INSTANCE ThreadHandler
Names ==
    INSTANCE MappingCache
        WITH timers <- nameTimers, pending <- namesPending, excused <- namesExcused, left <- namesLeft,
             Bounds <- NamesBounds
Connections == INSTANCE Connection WITH left <- connectionLeft, Bounds <- ConnectionBounds

-----------------------------------------------------------------------------
\* The loops alive are at most one more than the stops that timed out, a pause
\* of the last loop can be ended, and a stop that returned in time left no
\* loop behind (ThreadHandler).
LoopsBounded    == Handler!LoopsBounded
PausedLoopWakes == Handler!PausedLoopWakes
StoppedIsQuiet  == Handler!StoppedIsQuiet

\* A domain that was resumed polls (ThreadHandler).
ResumedPolls == Handler!ResumedPolls

\* Whoever asks for a name or an address is answered (MappingCache).
AnsweredInTheEnd == Names!AnsweredInTheEnd

\* The topics of the broker are those of the user's groups (Connection).
TopicsFollow == Connections!TopicsFollow

\* "First try to get from storage immediately" (the comment in
\* fetchUrlFromBackend): a page for which an earlier one stored a url does
\* not wait for the backend.
StoredUrlIsTried == Connections!StoredUrlIsTried
=============================================================================
