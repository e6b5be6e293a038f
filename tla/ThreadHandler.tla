--------------------------- MODULE ThreadHandler ---------------------------
(***************************************************************************)
(* The poll loop every chat domain runs on                                 *)
(* (packages/chat/src/util/thread.ts, class ThreadHandler): start, pause,  *)
(* resume, stop with its three-second time limit, the cancellable pause.   *)
(*                                                                         *)
(* A domain is started, stopped and started again; run r is the r-th       *)
(* start, its loop is loop r and the call that stops it is stop r.  The    *)
(* caller awaits a stop before the next start; nothing else orders it: a   *)
(* stop gives up after three seconds, and the loop it gave up on is still  *)
(* there when the next run begins.  0 stands for undefined.                *)
(***************************************************************************)
EXTENDS Integers, FiniteSets

CONSTANTS
    MaxRuns,   \* bound: starts of the domain
    MaxCalls   \* bound: calls of pause, resume, forcePauseResolve and destroy

VARIABLES
    shouldStopAfterCurrent,  \* _shouldStopAfterCurrent
    shouldDrainAndStop,      \* _shouldDrainAndStop
    shouldPause,             \* _shouldPause
    pauseResolve,            \* the loop whose pause _pauseResolve ends
    pauseTimers,             \* timers of createCancellablePause not yet fired
    stoppedCallback,         \* the stop that _stoppedCallback settles
    stopTimers,              \* stops whose three-second timer is still set
    thread,                  \* the loop whose setTimeout _thread names
    run,                     \* starts so far
    at,                      \* where each loop stands
    stop,                    \* where each stop stands
    timedOut,                \* the stops that their timer settled
    calls                    \* the counter of the bound

flags  == <<shouldStopAfterCurrent, shouldDrainAndStop>>
pauses == <<pauseResolve, pauseTimers>>
stops  == <<stoppedCallback, stopTimers, stop, timedOut>>
vars   == <<flags, shouldPause, pauses, stops, thread, run, at, calls>>

Runs  == 1..MaxRuns
Begun == 1..run

Init ==
    /\ shouldStopAfterCurrent = FALSE /\ shouldDrainAndStop = FALSE
    /\ shouldPause = TRUE
    /\ pauseResolve = 0 /\ pauseTimers = 0
    /\ stoppedCallback = 0 /\ stopTimers = {} /\ timedOut = {}
    /\ thread = 0 /\ run = 0
    /\ at = [r \in Runs |-> "none"]
    /\ stop = [r \in Runs |-> "none"]
    /\ calls = 0

-----------------------------------------------------------------------------
(* The pause.                                                              *)

\* Mutant: the pause has no timer of its own.
MutPause(r) ==
    /\ at' = [at EXCEPT ![r] = "paused"]
    /\ pauseResolve' = r
    /\ pauseTimers' = pauseTimers

\* createCancellablePause: the latest pause is the one that can be ended.
Pause(r) ==
    /\ at' = [at EXCEPT ![r] = "paused"]
    /\ pauseResolve' = r
    /\ pauseTimers' = pauseTimers + 1

\* Mutant: the resolver is dropped before it is called.
MutForcePauseResolve ==
    /\ at' = at
    /\ pauseResolve' = 0

ForcePauseResolve ==
    /\ at' = IF pauseResolve = 0 THEN at ELSE [at EXCEPT ![pauseResolve] = "awake"]
    /\ pauseResolve' = 0

\* A timer of a pause ends whatever pause there is, its own or a later one.
PauseTimer ==
    /\ pauseTimers > 0
    /\ pauseTimers' = pauseTimers - 1
    /\ ForcePauseResolve
    /\ UNCHANGED <<flags, shouldPause, stops, thread, run, calls>>

-----------------------------------------------------------------------------
(* What the domain calls.                                                  *)

Start ==
    /\ run < MaxRuns
    /\ run > 0 => stop[run] = "returned"
    /\ run' = run + 1
    /\ shouldStopAfterCurrent' = FALSE /\ shouldDrainAndStop' = FALSE
    /\ shouldPause' = TRUE
    /\ thread' = run'
    /\ at' = [at EXCEPT ![run'] = "scheduled"]
    /\ UNCHANGED <<pauses, stops, calls>>

Call == calls < MaxCalls /\ calls' = calls + 1

SetPause ==
    /\ Call
    /\ shouldPause' = TRUE
    /\ UNCHANGED <<flags, pauses, stops, thread, run, at>>

Resume ==
    /\ Call
    /\ shouldPause' = FALSE
    /\ ForcePauseResolve
    /\ UNCHANGED <<flags, pauseTimers, stops, thread, run>>

\* EventSourceDomain wakes its loop when an event arrives (line 264).
Wake ==
    /\ Call
    /\ ForcePauseResolve
    /\ UNCHANGED <<flags, shouldPause, pauseTimers, stops, thread, run>>

Destroy ==
    /\ Call
    /\ thread' = 0
    /\ UNCHANGED <<flags, shouldPause, pauses, stops, run, at>>

\* _stop up to its await; a paused loop is resumed so that it sees the flag.
BeginStop ==
    /\ run > 0 /\ stop[run] = "none"
    /\ stop' = [stop EXCEPT ![run] = "waiting"]
    /\ stoppedCallback' = run
    /\ stopTimers' = stopTimers \union {run}
    /\ shouldPause' = FALSE
    /\ IF shouldPause THEN ForcePauseResolve ELSE UNCHANGED <<at, pauseResolve>>
    /\ UNCHANGED <<pauseTimers, timedOut, thread, run, calls>>

StopAfterCurrent ==
    /\ shouldStopAfterCurrent' = TRUE
    /\ BeginStop
    /\ UNCHANGED shouldDrainAndStop

DrainAndStop ==
    /\ shouldDrainAndStop' = TRUE
    /\ BeginStop
    /\ UNCHANGED shouldStopAfterCurrent

\* Three seconds after stop r: it is settled if it was not, and whichever
\* stop is waiting now loses its callback.  The timer is never cleared.
StopTimer(r) ==
    /\ r \in stopTimers
    /\ stopTimers' = stopTimers \ {r}
    /\ stoppedCallback' = 0
    /\ IF stop[r] = "waiting"
       THEN stop' = [stop EXCEPT ![r] = "settled"] /\ timedOut' = timedOut \union {r}
       ELSE UNCHANGED <<stop, timedOut>>
    /\ UNCHANGED <<flags, shouldPause, pauses, thread, run, at, calls>>

\* _stop after its await: a loop that has not begun is cancelled.
StopReturns(r) ==
    /\ stop[r] = "settled"
    /\ stop' = [stop EXCEPT ![r] = "returned"]
    /\ thread' = 0
    /\ at' = IF thread # 0 /\ at[thread] = "scheduled"
             THEN [at EXCEPT ![thread] = "cancelled"] ELSE at
    /\ UNCHANGED <<flags, shouldPause, pauses, stoppedCallback, stopTimers, timedOut, run, calls>>

-----------------------------------------------------------------------------
(* The loop.  Between two awaits it runs alone.                            *)

\* The top of the loop: pause if asked to, otherwise poll.
Iterate(r) ==
    /\ IF shouldPause THEN Pause(r)
       ELSE at' = [at EXCEPT ![r] = "polling"] /\ UNCHANGED pauses
    /\ UNCHANGED stop

\* Mutant: the loop reports that it stopped and goes on polling.
MutFinish(r) ==
    /\ at' = at
    /\ stop' = IF stoppedCallback # 0 /\ stop[stoppedCallback] = "waiting"
               THEN [stop EXCEPT ![stoppedCallback] = "settled"] ELSE stop
    /\ UNCHANGED pauses

\* The loop ends and calls the callback there is, set by its own stop or by
\* that of a later run.
Finish(r) ==
    /\ at' = [at EXCEPT ![r] = "done"]
    /\ stop' = IF stoppedCallback # 0 /\ stop[stoppedCallback] = "waiting"
               THEN [stop EXCEPT ![stoppedCallback] = "settled"] ELSE stop
    /\ UNCHANGED pauses

Kept == UNCHANGED <<flags, shouldPause, stoppedCallback, stopTimers, timedOut, thread, run, calls>>

\* The loop begins, its pause is over or its sleep after an error is.
Continue(r) ==
    /\ at[r] \in {"scheduled", "awake", "sleeping"}
    /\ Iterate(r)
    /\ Kept

\* The poll found nothing to do.
PollEmpty(r) ==
    /\ at[r] = "polling"
    /\ IF shouldDrainAndStop \/ shouldStopAfterCurrent
       THEN Finish(r) ELSE Pause(r) /\ UNCHANGED stop
    /\ Kept

\* The poll handled an item; a drain goes on until there is none.
PollItem(r) ==
    /\ at[r] = "polling"
    /\ IF shouldStopAfterCurrent THEN Finish(r) ELSE Iterate(r)
    /\ Kept

\* The poll threw: no stop flag is looked at.
PollThrows(r) ==
    /\ at[r] = "polling"
    /\ at' = [at EXCEPT ![r] = "sleeping"]
    /\ UNCHANGED <<pauses, stop>>
    /\ Kept

-----------------------------------------------------------------------------
Loop(r) == Continue(r) \/ PollEmpty(r) \/ PollItem(r) \/ PollThrows(r)

Next ==
    \/ Start \/ SetPause \/ Resume \/ Wake \/ Destroy
    \/ StopAfterCurrent \/ DrainAndStop
    \/ PauseTimer
    \/ \E r \in Begun : StopTimer(r) \/ StopReturns(r) \/ Loop(r)

Spec == Init /\ [][Next]_vars

\* Timers fire, resolved promises continue, polls end, and a poll that is
\* called again and again finds nothing to do now and then.
Fairness ==
    /\ WF_vars(PauseTimer)
    /\ \A r \in Runs : /\ WF_vars(StopTimer(r)) /\ WF_vars(StopReturns(r))
                       /\ WF_vars(Loop(r)) /\ SF_vars(PollEmpty(r))

FairSpec == Spec /\ Fairness

-----------------------------------------------------------------------------
Ended == {r \in Begun : at[r] \in {"done", "cancelled"}}
Alive == Begun \ Ended

Places == {"none", "scheduled", "polling", "paused", "awake", "sleeping", "done", "cancelled"}
Stages == {"none", "waiting", "settled", "returned"}

TypeOK ==
    /\ shouldStopAfterCurrent \in BOOLEAN /\ shouldDrainAndStop \in BOOLEAN
    /\ shouldPause \in BOOLEAN
    /\ run \in 0..MaxRuns
    /\ pauseResolve \in 0..run /\ pauseTimers \in Nat
    /\ stoppedCallback \in 0..run
    /\ stopTimers \subseteq Begun /\ timedOut \subseteq Begun
    /\ thread \in 0..run
    /\ at \in [Runs -> Places] /\ stop \in [Runs -> Stages]

\* There are never more loops than one and those that timed-out stops left
\* behind, although any loop may settle the stop of another run.
LoopsBounded == Cardinality(Alive) <= 1 + Cardinality(timedOut)

\* As long as no stop timed out, a loop that pauses can be woken: resume and
\* the timers end its pause and no other, and a timer is still to come.
PausedLoopWakes ==
    timedOut = {} =>
        \A r \in Begun : at[r] = "paused" => pauseResolve = r /\ pauseTimers > 0

\* A stop that returns before its time limit leaves no loop behind, asleep,
\* paused or about to begin, until the next start.
StoppedIsQuiet ==
    timedOut = {} /\ run > 0 /\ stop[run] = "returned" => Alive = {}

\* The comment of MesssageAggregateRootDomain.ts:24-26 wants a handle
\* function called only when no such call is in progress.
OnePollAtATime ==
    \A r, q \in Begun : at[r] = "polling" /\ at[q] = "polling" => r = q

\* Every stop comes back, whatever the loop does.
StopComesBack == \A r \in Runs : stop[r] = "waiting" ~> stop[r] = "returned"

\* A domain that is resumed for good, and whose stops never timed out, polls
\* again and again: no pause, error or stale timer hangs its loop.
ResumedPolls ==
    <>[](run > 0 /\ stop[run] = "none" /\ ~shouldPause /\ timedOut = {})
        => []<>(\E r \in Begun : at[r] = "polling")

\* The loop of a stopped domain ends, also one its stop gave up on, unless
\* the domain is paused after the stop or another loop took over its pause.
StoppedLoopEnds ==
    [](Cardinality(Alive) <= 1) /\ <>[](run > 0 /\ stop[run] # "none" /\ ~shouldPause)
        => <>[](Alive = {})

-----------------------------------------------------------------------------
(* What the safety properties rest on (LoopProofs).                        *)

Settled == {r \in Begun : stop[r] \in {"settled", "returned"}}

\* What can be ended is a pause.
Resolvable == pauseResolve # 0 => at[pauseResolve] = "paused"

\* Runs follow one another: all but the last have returned.
Ordered ==
    /\ \A r \in Runs : r > run => at[r] = "none" /\ stop[r] = "none"
    /\ \A r \in Begun : at[r] # "none" /\ (r < run => stop[r] = "returned")
    /\ timedOut \subseteq Settled

\* Without a time-out, a settled stop means that its own loop has ended.
NoneLeft ==
    timedOut = {} =>
        /\ \A r \in Settled : at[r] = "done"
        /\ \A r \in Begun : at[r] # "cancelled"

WakeInv == TypeOK /\ Resolvable /\ Ordered /\ NoneLeft /\ PausedLoopWakes
=============================================================================
