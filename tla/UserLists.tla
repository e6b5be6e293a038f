----------------------------- MODULE UserLists -----------------------------
(***************************************************************************)
(* The commands of the user: join, leave, mark, mute, like, vote, send a   *)
(* message, choose a profile.  A call of MessageAggregateRootDomain puts a *)
(* command on the channel of OutputSendingDomain (packages/chat/src/domain)*)
(* and waits for an event that says it happened; the loop of that domain   *)
(* runs one command at a time through the facade and the client.           *)
(*                                                                         *)
(* The user's marks, mutes, likes and votes are lists, each kept whole in  *)
(* one output on the ledger: a command asks the indexer for the output,    *)
(* then the INX service for the list, and sends an output with the changed *)
(* list in the place of the first.  Another device of the address does the *)
(* same.  How a transaction is built is CashPool's; here it is sent or it  *)
(* fails.  The ledger, the indexer and INX (external) agree at all times.  *)
(***************************************************************************)
EXTENDS Integers, Sequences, FiniteSets

CONSTANTS
    Entry,    \* records [group, member]: a mark or a vote is about one member of a group
    Lower,    \* the entry that unmuting an entry looks for: it lowers the case of the address
    Bounds    \* the bounds: records [ops, entries: what is called and about what, calls, foreigns:
              \* commands of other devices, fails: failures]

VARIABLES
    calls,     \* the calls so far: their commands
    channel,   \* _inChannel: the numbers of the calls whose command waits
    doing,     \* the command that runs: {} or {[call, step, takes, content]}
    listeners, \* the calls whose event listener is registered
    field,     \* the callback fields: of each kind the call that set it last
    answer,    \* of each call the command it was answered by (0 is another device), or none
    lost,      \* history: calls whose command did nothing, failed or was refused
    crowded,   \* history: calls that listened at the same time as another of their kind,
               \* or before the command of such a call was done
    joined,    \* groups whose cached member list has this address
    muteMap,   \* _muteMap of the facade: {} or {list}
    mapFailed, \* _muteMapPromise is a promise that failed
    shown,     \* messages given to EventSourceDomain as sent
    ledger,    \* the outputs with lists, in order
    txs,       \* transactions that are neither confirmed nor refused
    events,    \* events on their way to GroupMemberDomain
    split,     \* history: lists that two unspent outputs held at once
    left       \* what is left of the bounds

callVars   == <<calls, listeners, field, answer, lost, crowded>>
mapVars    == <<muteMap, mapFailed>>
ledgerVars == <<ledger, txs, events, split>>
vars == <<calls, channel, doing, listeners, field, answer, lost, crowded, joined, muteMap,
          mapFailed, shown, ledger, txs, events, split, left>>

None == -1

ListOf ==
    [join |-> "mark", leave |-> "mark", mark |-> "mark", unmark |-> "mark",
     mute |-> "mute", unmute |-> "mute", like |-> "like", unlike |-> "like",
     vote |-> "vote", unvote |-> "vote", profile |-> "profile", send |-> "none"]

\* The callback field that holds the listener: two calls share it.
FieldOf ==
    [join |-> "member", leave |-> "member", mark |-> "mark", unmark |-> "mark",
     mute |-> "mute", unmute |-> "mute", like |-> "like", unlike |-> "like",
     vote |-> "vote", unvote |-> "vote", profile |-> "none", send |-> "send"]

Ops == DOMAIN ListOf
Lists == {"mark", "mute", "like", "vote", "profile"}
Fields == {"member", "mark", "mute", "like", "vote", "send"}
Values == {"in", "out", "up", "down", "void"}

ASSUME EntryAssumption == Entry # {} /\ Lower \in [Entry -> Entry]
ASSUME BoundsAssumption ==
    Bounds \subseteq [ops : SUBSET Ops, entries : SUBSET Entry, calls : Nat, foreigns : Nat, fails : Nat]

\* What an entry of the list is after the command.  A vote that is taken
\* back stays on the list, as void.
Wanted(op) ==
    CASE op \in {"join", "mark", "mute", "like", "profile", "send"} -> {"in"}
      [] op \in {"leave", "unmark", "unmute", "unlike"} -> {"out"}
      [] op = "vote" -> {"up", "down"}
      [] op = "unvote" -> {"void"}

Empty == [e \in Entry |-> "out"]
Outputs(l) == {i \in DOMAIN ledger : ledger[i].list = l}
Unspent(l) == {i \in Outputs(l) : ~ledger[i].spent}

\* INX answers with the list of the newest output.
Known(l) == IF Outputs(l) = {} THEN Empty
            ELSE ledger[CHOOSE i \in Outputs(l) : \A j \in Outputs(l) : i >= j].content

\* An address may have a list of an earlier session, of marks say.
Init ==
    /\ calls = <<>> /\ channel = <<>> /\ doing = {}
    /\ listeners = {} /\ field = [f \in Fields |-> 0] /\ answer = <<>>
    /\ lost = {} /\ crowded = {} /\ joined = {}
    /\ muteMap = {} /\ mapFailed = FALSE /\ shown = {}
    /\ left \in Bounds
    /\ \E old \in SUBSET ({ListOf[op] : op \in left.ops} \intersect {"mark", "mute", "like", "vote"}) :
           ledger = IF old = {} THEN <<>>
                    ELSE <<[list |-> CHOOSE l \in old : TRUE, content |-> Empty, takes |-> 0,
                            by |-> 0, entry |-> CHOOSE e \in Entry : TRUE, value |-> "out",
                            spent |-> FALSE]>>
    /\ txs = {} /\ events = {} /\ split = {}

Uses(c) == left[c] > 0 /\ left' = [left EXCEPT ![c] = @ - 1]

-----------------------------------------------------------------------------
(* A call puts its command on the channel and its listener in place.       *)

Call(op, e, value) ==
    LET c == Len(calls) + 1
        f == FieldOf[op]
        late == {channel[k] : k \in DOMAIN channel} \union {d.call : d \in doing}
        others == {d \in listeners \union (late \intersect crowded) : FieldOf[calls[d].op] = f}
    IN  /\ op \in left.ops /\ e \in left.entries /\ value \in Wanted(op) /\ Uses("calls")
        /\ calls' = Append(calls, [op |-> op, entry |-> e, value |-> value])
        /\ channel' = Append(channel, c)
        /\ answer' = Append(answer, None)
        /\ IF f = "none" THEN UNCHANGED <<listeners, field>>
           ELSE /\ listeners' = listeners \union {c}
                /\ field' = [field EXCEPT ![f] = c]
        /\ crowded' = IF others = {} THEN crowded ELSE crowded \union others \union {c}
        /\ UNCHANGED <<doing, lost, joined, mapVars, shown, ledgerVars>>

\* An emitted event answers the calls that ask for it.  The listener of one
\* takes off the callback that its field holds by then.
Emit(f, match, by) ==
    /\ answer' = [c \in DOMAIN answer |-> IF c \in match /\ answer[c] = None THEN by ELSE answer[c]]
    /\ listeners' = IF match = {} THEN listeners ELSE listeners \ {field[f]}

VoteSent(c) ==
    Emit("vote", {d \in listeners : FieldOf[calls[d].op] = "vote"
                                        /\ calls[d].entry.group = calls[c].entry.group}, c)

-----------------------------------------------------------------------------
(* The loop.                                                               *)

Doing(step) == {d \in doing : d.step = step}
OpOf(d) == calls[d.call].op
Finish == doing' = {}
Fails(d) == lost' = lost \union {d.call}

\* The entry of the list that the command is about.
EntryOf(c) == IF calls[c].op = "unmute" THEN Lower[calls[c].entry] ELSE calls[c].entry

\* Who is a member already does not join.  Who joins is put on the member
\* list, which is the cached one if there is one.
BeginJoin(c, cached) ==
    LET g == calls[c].entry.group
    IN  IF g \in joined
        THEN /\ lost' = lost \union {c} /\ Finish /\ UNCHANGED joined
        ELSE /\ joined' = IF cached THEN joined \union {g} ELSE joined
             /\ doing' = {[call |-> c, step |-> "output", takes |-> 0, content |-> Empty]}
             /\ UNCHANGED lost

Begin ==
    /\ doing = {} /\ channel # <<>>
    /\ channel' = Tail(channel)
    /\ LET c == Head(channel)
       IN  IF calls[c].op = "join"
           THEN \E cached \in BOOLEAN : BeginJoin(c, cached)
           ELSE /\ doing' = {[call |-> c, step |-> IF calls[c].op = "send" THEN "sending" ELSE "output",
                              takes |-> 0, content |-> Empty]}
                /\ UNCHANGED <<lost, joined>>
    /\ UNCHANGED <<calls, listeners, field, answer, crowded, mapVars, shown, ledgerVars, left>>

\* The members of a group are asked for again.
RefreshMembers(g) ==
    LET own == \E e \in Entry : e.group = g /\ Known("mark")[e] = "in"
    IN  /\ own # (g \in joined) /\ "join" \in left.ops
        /\ joined' = IF own THEN joined \union {g} ELSE joined \ {g}
        /\ UNCHANGED <<callVars, channel, doing, mapVars, shown, ledgerVars, left>>

\* The output, of which there may be two; then the list.
ReadOutput(d) ==
    /\ d \in Doing("output")
    /\ LET unspent == Unspent(ListOf[OpOf(d)])
       IN  \E i \in IF unspent = {} THEN {0} ELSE unspent :
               doing' = {[d EXCEPT !.step = "list", !.takes = i]}
    /\ UNCHANGED <<callVars, channel, joined, mapVars, shown, ledgerVars, left>>

\* Nothing is sent for a mark, a mute, a like or a vote that is there, nor
\* to take back what is not there.
Changes(c, list) ==
    LET old == list[EntryOf(c)]
    IN  CASE calls[c].op = "profile" -> TRUE
          [] calls[c].op = "unvote"  -> old # "out"
          [] OTHER -> old # calls[c].value

ReadList(d) ==
    LET c == d.call
        list == Known(ListOf[OpOf(d)])
        mutes == OpOf(d) \in {"mute", "unmute"}
    IN  /\ d \in Doing("list")
        /\ IF Changes(c, list)
           THEN /\ doing' = {[d EXCEPT !.step = "submit",
                                       !.content = [list EXCEPT ![EntryOf(c)] = calls[c].value]]}
                /\ UNCHANGED lost
           ELSE /\ Fails(d)
                /\ doing' = IF mutes THEN {[d EXCEPT !.step = "map"]} ELSE {}
        /\ UNCHANGED <<calls, listeners, field, answer, crowded, channel, joined, mapVars, shown,
                       ledgerVars, left>>

Sent(d, takes) == txs' = txs \union {[call |-> d.call, takes |-> takes, content |-> d.content]}

\* Mutant: the output is asked for when it is taken.
MutSubmit(d) ==
    /\ d \in Doing("submit")
    /\ \E i \in Unspent(ListOf[OpOf(d)]) \union (IF d.takes = 0 THEN {0} ELSE {}) : Sent(d, i)
    /\ doing' = IF OpOf(d) \in {"mute", "unmute"} THEN {[d EXCEPT !.step = "map"]} ELSE {}
    /\ IF OpOf(d) \in {"vote", "unvote"} THEN VoteSent(d.call) ELSE UNCHANGED <<answer, listeners>>
    /\ UNCHANGED <<calls, field, lost, crowded, channel, joined, mapVars, shown, ledger, events,
                   split, left>>

\* A vote is answered when it has been sent.
Submit(d) ==
    /\ d \in Doing("submit")
    /\ Sent(d, d.takes)
    /\ doing' = IF OpOf(d) \in {"mute", "unmute"} THEN {[d EXCEPT !.step = "map"]} ELSE {}
    /\ IF OpOf(d) \in {"vote", "unvote"} THEN VoteSent(d.call) ELSE UNCHANGED <<answer, listeners>>
    /\ UNCHANGED <<calls, field, lost, crowded, channel, joined, mapVars, shown, ledger, events,
                   split, left>>

\* A request or the transaction fails: the command is gone.
CommandFails(d) ==
    /\ d \in Doing("output") \union Doing("list") \union Doing("submit")
    /\ Uses("fails")
    /\ Fails(d) /\ Finish
    /\ UNCHANGED <<calls, listeners, field, answer, crowded, channel, joined, mapVars, shown,
                   ledgerVars>>

-----------------------------------------------------------------------------
(* The mute map of the facade.                                             *)

\* _ensureMuteMap, which a timer and the filter of messages call; here only
\* where something is muted.
EnsureMuteMap ==
    /\ muteMap = {} /\ ~mapFailed /\ "mute" \in left.ops
    /\ \/ muteMap' = {Known("mute")} /\ UNCHANGED <<mapFailed, left>>
       \/ Uses("fails") /\ mapFailed' = TRUE /\ UNCHANGED muteMap
    /\ UNCHANGED <<callVars, channel, doing, joined, shown, ledgerVars>>

\* A command toggles its entry, also if it changed nothing on the ledger.
UpdateMuteMap(d) ==
    /\ d \in Doing("map") /\ muteMap # {}
    /\ muteMap' = {[m EXCEPT ![EntryOf(d.call)] = IF @ = "in" THEN "out" ELSE "in"] : m \in muteMap}
    /\ Finish
    /\ UNCHANGED <<callVars, channel, joined, mapFailed, shown, ledgerVars, left>>

MapMissing(d) ==
    /\ d \in Doing("map") /\ mapFailed
    /\ Finish
    /\ UNCHANGED <<callVars, channel, joined, mapVars, shown, ledgerVars, left>>

-----------------------------------------------------------------------------
(* A message is shown, and its call answered, 200 ms after its transaction *)
(* was begun, unless that has failed by then.                              *)

Show(d) ==
    LET open == {c \in listeners : calls[c].op = "send"}
    IN  /\ shown' = shown \union {d.call}
        /\ answer' = [c \in DOMAIN answer |-> IF c \in open THEN d.call ELSE answer[c]]
        /\ listeners' = listeners \ open

ShowMessage(d) ==
    /\ d \in Doing("sending") \union Doing("sent")
    /\ Show(d)
    /\ doing' = IF d.step = "sent" THEN {} ELSE {[d EXCEPT !.step = "shown"]}
    /\ UNCHANGED <<calls, field, lost, crowded, channel, joined, mapVars, ledgerVars, left>>

\* Mutant: the event is emitted again when the transaction has been sent.
MutSendMessage(d) ==
    /\ d \in Doing("sending") \union Doing("shown")
    /\ Sent(d, 0)
    /\ IF d.step = "shown" THEN Show(d) ELSE UNCHANGED <<shown, answer, listeners>>
    /\ doing' = IF d.step = "shown" THEN {} ELSE {[d EXCEPT !.step = "sent"]}
    /\ UNCHANGED <<calls, field, lost, crowded, channel, joined, mapVars, ledger, events, split, left>>

SendMessage(d) ==
    /\ d \in Doing("sending") \union Doing("shown")
    /\ Sent(d, 0)
    /\ doing' = IF d.step = "shown" THEN {} ELSE {[d EXCEPT !.step = "sent"]}
    /\ UNCHANGED <<callVars, channel, joined, mapVars, shown, ledger, events, split, left>>

SendFails(d) ==
    /\ d \in Doing("sending") \union Doing("shown")
    /\ Uses("fails")
    /\ Fails(d) /\ Finish
    /\ UNCHANGED <<calls, listeners, field, answer, crowded, channel, joined, mapVars, shown,
                   ledgerVars>>

-----------------------------------------------------------------------------
(* The ledger, and its events.  A change of the marks is also one of the   *)
(* members.                                                                *)

Published(l, e, value, by) ==
    {[field |-> f, group |-> e.group, value |-> value, by |-> by] :
        f \in CASE l = "mark" -> {"mark", "member"} [] l \in {"mute", "like"} -> {l} [] OTHER -> {}}

Output(l, content, takes, by, e, value) ==
    /\ ledger' = Append([i \in DOMAIN ledger |-> [ledger[i] EXCEPT !.spent = @ \/ i = takes]],
                        [list |-> l, content |-> content, takes |-> takes, by |-> by,
                         entry |-> e, value |-> value, spent |-> FALSE])
    /\ split' = IF Unspent(l) \subseteq {takes} THEN split ELSE split \union {l}
    /\ events' = events \union Published(l, e, value, by)

Confirm(tx) ==
    /\ tx \in txs
    /\ txs' = txs \ {tx}
    /\ IF calls[tx.call].op = "send" THEN UNCHANGED <<ledger, events, split>>
       ELSE LET l == ListOf[calls[tx.call].op]
            IN  /\ tx.takes \in Unspent(l) \union {0}
                /\ Output(l, tx.content, tx.takes, tx.call, EntryOf(tx.call), calls[tx.call].value)
    /\ UNCHANGED <<callVars, channel, doing, joined, mapVars, shown, left>>

Refuse(tx) ==
    /\ tx \in txs /\ tx.takes # 0 /\ ledger[tx.takes].spent
    /\ txs' = txs \ {tx}
    /\ lost' = lost \union {tx.call}
    /\ UNCHANGED <<calls, listeners, field, answer, crowded, channel, doing, joined, mapVars, shown,
                   ledger, events, split, left>>

\* Another device changes an entry.
Foreign(l, e, value) ==
    /\ Uses("foreigns") /\ Known(l)[e] # value
    /\ \E i \in IF Unspent(l) = {} THEN {0} ELSE Unspent(l) :
           Output(l, [Known(l) EXCEPT ![e] = value], i, 0, e, value)
    /\ UNCHANGED <<callVars, channel, doing, joined, mapVars, shown, txs>>

\* Mutant: the listener is taken off by any event of its kind.
MutDeliver(ev) ==
    /\ ev \in events
    /\ events' = events \ {ev}
    /\ LET asked == {c \in listeners : FieldOf[calls[c].op] = ev.field
                        /\ calls[c].entry.group = ev.group /\ calls[c].value = ev.value}
       IN  /\ answer' = [c \in DOMAIN answer |-> IF c \in asked /\ answer[c] = None THEN ev.by ELSE answer[c]]
           /\ listeners' = listeners \ {field[ev.field]}
    /\ UNCHANGED <<calls, channel, doing, field, lost, crowded, joined, mapVars, shown, ledger, txs,
                   split, left>>

\* GroupMemberDomain hands an event on.  It says of which group it is, not
\* of which member.
Deliver(ev) ==
    /\ ev \in events
    /\ events' = events \ {ev}
    /\ Emit(ev.field, {c \in listeners : FieldOf[calls[c].op] = ev.field
                           /\ calls[c].entry.group = ev.group /\ calls[c].value = ev.value}, ev.by)
    /\ UNCHANGED <<calls, channel, doing, field, lost, crowded, joined, mapVars, shown, ledger, txs,
                   split, left>>

\* The name of the member is asked for first: when that fails the event is
\* lost.
DeliverFails(ev) ==
    /\ ev \in events /\ ev.field = "member" /\ Uses("fails")
    /\ events' = events \ {ev}
    /\ lost' = lost \union {ev.by}
    /\ UNCHANGED <<calls, listeners, field, answer, crowded, channel, doing, joined, mapVars, shown,
                   ledger, txs, split>>

-----------------------------------------------------------------------------
Work ==
    \/ Begin
    \/ \E d \in doing : ReadOutput(d) \/ ReadList(d) \/ Submit(d) \/ UpdateMuteMap(d)
                        \/ MapMissing(d) \/ ShowMessage(d) \/ SendMessage(d)
Settle == \E tx \in txs : Confirm(tx) \/ Refuse(tx)
Event  == \E ev \in events : Deliver(ev)

Next ==
    \/ \E op \in left.ops, e \in left.entries, v \in Values : Call(op, e, v)
    \/ Work \/ Settle \/ Event \/ EnsureMuteMap
    \/ \E d \in doing : CommandFails(d) \/ SendFails(d)
    \/ \E ev \in events : DeliverFails(ev)
    \/ \E e \in left.entries : RefreshMembers(e.group)
    \/ \E op \in left.ops, e \in left.entries, v \in Values :
           ListOf[op] # "none" /\ v \in Wanted(op) /\ Foreign(ListOf[op], e, v)

\* The loop goes on, the mute map is asked for again and again, the ledger
\* decides on what was sent, and its events come.
Fairness ==
    /\ WF_vars(Work) /\ WF_vars(EnsureMuteMap) /\ WF_vars(Settle) /\ WF_vars(Event)

Spec == Init /\ [][Next]_vars /\ Fairness

-----------------------------------------------------------------------------
TypeOK ==
    LET Ids == 1..Len(calls)
    IN  /\ \A c \in Ids : calls[c].op \in Ops /\ calls[c].entry \in Entry /\ calls[c].value \in Values
        /\ \A k \in DOMAIN channel : channel[k] \in Ids \ {d.call : d \in doing}
        /\ Cardinality(doing) <= 1 /\ \A d \in doing : d.takes \in 0..Len(ledger)
        /\ listeners \union crowded \union shown \subseteq Ids /\ lost \subseteq Ids \union {0}
        /\ field \in [Fields -> Ids \union {0}]
        /\ DOMAIN answer = Ids /\ \A c \in Ids : answer[c] \in Ids \union {0, None}
        /\ \A i \in DOMAIN ledger : ledger[i].content \in [Entry -> Values] /\ ledger[i].takes < i
        /\ \A m \in muteMap : m \in [Entry -> Values]

\* A list that takes the place of another is that one with the command of
\* its call applied, whatever other devices did while the command was read,
\* made and sent: no entry is lost and none comes back.  Only where two
\* outputs hold the list at once, because two were made before the first
\* was confirmed, may it be another.
NoLostUpdate ==
    \A i \in DOMAIN ledger :
        LET o == ledger[i]
        IN  o.by # 0 /\ o.takes # 0 /\ o.list \notin split /\ o.list # "profile" =>
                o.content = [ledger[o.takes].content EXCEPT ![o.entry] = o.value]

\* The call of a vote or a message is answered by its own command unless
\* another such call waited at the same time, or had and was still to run.
OwnAnswer ==
    \A c \in DOMAIN calls :
        calls[c].op \in {"vote", "unvote", "send"} /\ answer[c] # None => answer[c] = c \/ c \in crowded

\* The facade's comment on its mute map (facade/src/index.ts:140): "Cache for
\* storing information about which users are muted by a specific user".  As
\* soon as nothing is under way it is the list on the ledger.
MuteMapAgrees ==
    doing = {} /\ channel = <<>> /\ txs = {} => muteMap \subseteq {Known("mute")}

Waits(c) == c \in DOMAIN calls /\ calls[c].op # "profile"
Settled(c) == c \in DOMAIN calls /\ (answer[c] # None \/ c \in lost \union crowded)

\* The promise of a call is settled, unless its command did nothing, failed
\* or was refused, or another call of its kind waited at the same time.
CallSettles == \A c \in 1..3 : Waits(c) ~> Settled(c)
=============================================================================
