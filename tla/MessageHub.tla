----------------------------- MODULE MessageHub -----------------------------
(***************************************************************************)
(* MessageHubDomain: of the messages EventSourceDomain hands over, the     *)
(* known ones are dropped, the others are stored and passed on to          *)
(* ConversationDomain.                                                     *)
(*                                                                         *)
(* A store is a cache over local storage (CombinedStorageService): a write *)
(* goes to the cache at once and to local storage by a zero timer.  After  *)
(* each message the domain gives way by another zero timer (sleepYield).   *)
(* Zero timers fire in the order they were set, and local storage applies  *)
(* writes in the order of the calls.                                       *)
(***************************************************************************)
EXTENDS SequencesExt

CONSTANTS
    Msg,        \* the messages
    MaxHands,   \* bound: messages handed over, repetitions included
    MaxClears   \* bound: times a cache is cleared

VARIABLES
    out,        \* _outChannel of EventSourceDomain
    hubYields,  \* the domain waits in sleepYield
    known,      \* messages in the cache
    knownDisk,  \* messages in local storage
    toConv,     \* _outChannelToConversation
    timers,     \* zero timers that are set, in order
    handed,     \* history: the messages handed over
    hands, clears   \* the counters of the bounds

hubVars == <<out, hubYields, known, knownDisk, toConv, timers, handed, hands, clears>>

MessageWrite(m) == [kind |-> "message", msg |-> m]
HubWakes        == [kind |-> "hub"]

HubInit ==
    /\ out = <<>> /\ hubYields = FALSE /\ known = {} /\ knownDisk = {}
    /\ toConv = <<>> /\ timers = <<>> /\ handed = {}
    /\ hands = 0 /\ clears = 0

\* EventSourceDomain hands a message over: a pushed one, one it fetched, or
\* one it fetches again after a restart.
Hand(m) ==
    /\ hands < MaxHands
    /\ hands' = hands + 1
    /\ out' = Append(out, m)
    /\ handed' = handed \union {m}
    /\ UNCHANGED <<hubYields, known, knownDisk, toConv, timers, clears>>

-----------------------------------------------------------------------------
(* poll.                                                                   *)

\* What getMessage finds.
Known == known \union knownDisk

Drop ==
    /\ ~hubYields /\ out # <<>> /\ Head(out) \in Known
    /\ out' = Tail(out)
    /\ known' = known \union {Head(out)}
    /\ UNCHANGED <<hubYields, knownDisk, toConv, timers, handed, hands, clears>>

PassOn ==
    /\ ~hubYields /\ out # <<>> /\ Head(out) \notin Known
    /\ out' = Tail(out)
    /\ known' = known \union {Head(out)}
    /\ toConv' = Append(toConv, Head(out))
    /\ hubYields' = TRUE
    /\ timers' = timers \o <<MessageWrite(Head(out)), HubWakes>>
    /\ UNCHANGED <<knownDisk, handed, hands, clears>>

-----------------------------------------------------------------------------
(* Timers, stop, the end of the page.                                      *)

FireMessage ==
    /\ timers # <<>> /\ Head(timers).kind = "message"
    /\ timers' = Tail(timers)
    /\ knownDisk' = knownDisk \union {Head(timers).msg}
    /\ UNCHANGED <<out, hubYields, known, toConv, handed, hands, clears>>

FireHub ==
    /\ timers # <<>> /\ Head(timers) = HubWakes
    /\ timers' = Tail(timers)
    /\ hubYields' = FALSE
    /\ UNCHANGED <<out, known, knownDisk, toConv, handed, hands, clears>>

\* stop clears the cache first, whatever the loop is doing, which goes on
\* until it is drained.
HubStop ==
    /\ clears < MaxClears
    /\ clears' = clears + 1
    /\ known' = {}
    /\ UNCHANGED <<out, hubYields, knownDisk, toConv, timers, handed, hands>>

\* The page is closed: local storage remains.
HubClose ==
    /\ out' = <<>> /\ hubYields' = FALSE /\ known' = {}
    /\ toConv' = <<>> /\ timers' = <<>>
    /\ UNCHANGED <<knownDisk, handed, hands, clears>>
=============================================================================
