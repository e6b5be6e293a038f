--------------------------- MODULE UserListsProofs ---------------------------
(***************************************************************************)
(* Proofs about UserLists, for every set of entries and of bounds: no      *)
(* update of a list is lost, and the call of a vote or of a message is     *)
(* answered by its own command.                                            *)
(***************************************************************************)
EXTENDS UserLists, SequenceTheorems, FiniteSetTheorems, WellFoundedInduction, TLAPS

LEMMA OpsFacts ==
    /\ Ops = {"join", "leave", "mark", "unmark", "mute", "unmute", "like", "unlike", "vote", "unvote",
              "profile", "send"}
    /\ \A op \in Ops : /\ ListOf[op] \in Lists \union {"none"}
                       /\ FieldOf[op] \in Fields \union {"none"}
                       /\ ListOf[op] = "none" <=> op = "send"
                       /\ FieldOf[op] = "send" <=> op = "send"
                       /\ FieldOf[op] = "vote" <=> op \in {"vote", "unvote"}
<1>1. Ops = {"join", "leave", "mark", "unmark", "mute", "unmute", "like", "unlike", "vote", "unvote",
              "profile", "send"}
  BY DEF Ops, ListOf
<1>2. ASSUME NEW op \in Ops
      PROVE  /\ ListOf[op] \in Lists \union {"none"}
             /\ FieldOf[op] \in Fields \union {"none"}
             /\ ListOf[op] = "none" <=> op = "send"
             /\ FieldOf[op] = "send" <=> op = "send"
             /\ FieldOf[op] = "vote" <=> op \in {"vote", "unvote"}
  BY <1>1 DEF ListOf, FieldOf, Lists, Fields
<1> QED BY <1>1, <1>2

-----------------------------------------------------------------------------
(* Sequences and sets of numbers.                                          *)

LEMMA EnumerationIsSeq ==
    ASSUME NEW T, NEW n \in Nat, NEW f \in [1..n -> T]
    PROVE  f \in Seq(T) /\ Len(f) = n /\ DOMAIN f = 1..n
<1>1. f \in Seq(T)
  BY SeqDef
<1> QED
  BY <1>1, LenProperties

LEMMA AppendFacts ==
    ASSUME NEW T, NEW s \in Seq(T), NEW x \in T
    PROVE  /\ Append(s, x) \in Seq(T) /\ Len(Append(s, x)) = Len(s) + 1
           /\ \A i \in 1..Len(s) : Append(s, x)[i] = s[i]
           /\ Append(s, x)[Len(s) + 1] = x
BY AppendProperties

Less == {p \in Nat \X Nat : p[1] < p[2]}

\* A set of positions that is not empty has a last one.
LEMMA LastExists ==
    ASSUME NEW n \in Nat, NEW T, T \subseteq 1..n, T # {}
    PROVE  \E i \in T : \A j \in T : i >= j
<1> DEFINE D == {n - i : i \in T}
<1>1. IsWellFoundedOn(Less, Nat)
  BY NatLessThanWellFounded DEF OpToRel, Less, IsWellFoundedOn
<1>2. D \subseteq Nat
  <2>1. \A i \in T : n - i \in Nat
    OBVIOUS
  <2> QED
    BY <2>1
<1>3. D # {}
  <2>1. PICK i : i \in T
    OBVIOUS
  <2>2. n - i \in D
    BY <2>1
  <2> QED
    BY <2>2
<1>4. PICK d \in D : \A e \in D : <<e, d>> \notin Less
  <2> HIDE DEF D
  <2> QED
    BY <1>1, <1>2, <1>3, WFMin
<1>5. \A e \in D : d <= e
  <2>1. \A e \in D : ~(e < d)
    BY <1>2, <1>4 DEF Less
  <2> HIDE DEF D
  <2> QED
    BY <1>2, <2>1
<1>6. PICK i \in T : d = n - i
  OBVIOUS
<1>7. \A j \in T : n - i <= n - j
  BY <1>5, <1>6
<1> QED
  BY <1>7

-----------------------------------------------------------------------------
(* The inductive invariant.                                                *)

Ids == 1..Len(calls)
BoundType == [ops : SUBSET Ops, entries : SUBSET Entry, calls : Nat, foreigns : Nat, fails : Nat]
CallType == [op : Ops, entry : Entry, value : Values]
ListType == [Entry -> Values]
CommandType ==
    [call : Nat, step : {"output", "list", "submit", "map", "sending", "sent", "shown"}, takes : Nat,
     content : ListType]
TxType == [call : Nat, takes : Nat, content : ListType]
OutputType ==
    [list : Lists, content : ListType, takes : Nat, by : Nat, entry : Entry, value : Values, spent : BOOLEAN]

CallInv ==
    /\ left \in BoundType
    /\ calls \in Seq(CallType)
    /\ listeners \subseteq Ids /\ crowded \subseteq Ids /\ shown \subseteq Ids /\ lost \subseteq Ids \union {0}
    /\ field \in [Fields -> Ids \union {0}]
    /\ answer \in Seq(Ids \union {0, None}) /\ Len(answer) = Len(calls)

\* Commands wait once, and not while they run; there is one that runs.
LoopInv ==
    /\ channel \in Seq(Nat) /\ \A k \in 1..Len(channel) : channel[k] \in Ids
    /\ \A j, k \in 1..Len(channel) : channel[j] = channel[k] => j = k
    /\ doing \subseteq CommandType
    /\ \A d \in doing :
           /\ d.call \in Ids /\ d.takes \in 0..Len(ledger)
           /\ \A k \in 1..Len(channel) : channel[k] # d.call
           /\ d.step \in {"sending", "sent", "shown"} <=> calls[d.call].op = "send"
    /\ \A d, e \in doing : d = e

LedgerInv ==
    /\ ledger \in Seq(OutputType)
    /\ \A i \in 1..Len(ledger) : ledger[i].takes < i
    /\ txs \subseteq TxType
    /\ \A tx \in txs : tx.call \in Ids /\ tx.takes \in 0..Len(ledger)
    /\ \A ev \in events : ev.field \in {"mark", "member", "mute", "like"} /\ ev.by \in Ids \union {0}
    /\ \A m \in muteMap : m \in ListType

TypeInv == CallInv /\ LoopInv /\ LedgerInv

\* A list that was never in two outputs is in the newest, and that alone is
\* unspent.
NewestInv ==
    \A l \in Lists \ split : \A i \in Unspent(l) : \A j \in Outputs(l) : j <= i

\* What is to be sent is the list in the output it takes, changed, as long
\* as that output can be taken.
Prepared(call, takes, content) ==
    takes \in Unspent(ListOf[calls[call].op]) /\ ListOf[calls[call].op] \notin split =>
        content = [ledger[takes].content EXCEPT ![EntryOf(call)] = calls[call].value]
PreparedInv ==
    /\ \A d \in Doing("submit") : Prepared(d.call, d.takes, d.content)
    /\ \A tx \in txs : calls[tx.call].op # "send" => Prepared(tx.call, tx.takes, tx.content)

UpdateInv == TypeInv /\ NewestInv /\ PreparedInv /\ NoLostUpdate

\* The commands that will still emit their event.
Answering == {channel[k] : k \in 1..Len(channel)} \union {d.call : d \in {e \in doing : e.step # "shown"}}
Own(c) == calls[c].op \in {"vote", "unvote", "send"}

\* Such a command has its listener, unless another took it off; and of two
\* that could answer each other's call both are known to be crowded.
ListenInv ==
    /\ \A f \in Fields : field[f] # 0 => FieldOf[calls[field[f]].op] = f
    /\ \A c \in Answering : Own(c) => c \in listeners \union crowded
    /\ \A c, d \in Answering \union listeners :
           c # d /\ Own(c) /\ FieldOf[calls[c].op] = FieldOf[calls[d].op] => c \in crowded

AnswerInv == TypeInv /\ ListenInv /\ OwnAnswer

-----------------------------------------------------------------------------
(* Types.                                                                  *)

LEMMA UsesType ==
    ASSUME left \in BoundType, NEW c \in {"calls", "foreigns", "fails"}, Uses(c)
    PROVE  left' \in BoundType
BY DEF BoundType, Uses

LEMMA CallFacts ==
    ASSUME CallInv, NEW c \in Ids
    PROVE  calls[c] \in CallType /\ EntryOf(c) \in Entry
<1>1. calls[c] \in CallType
  BY DEF CallInv, Ids
<1> QED
  BY <1>1, EntryAssumption DEF CallType, EntryOf

LEMMA OutputFacts ==
    ASSUME LedgerInv, NEW l
    PROVE  /\ Len(ledger) \in Nat /\ DOMAIN ledger = 1..Len(ledger)
           /\ \A i \in 1..Len(ledger) : ledger[i] \in OutputType
           /\ Outputs(l) \subseteq 1..Len(ledger) /\ Unspent(l) \subseteq Outputs(l)
BY DEF LedgerInv, Outputs, Unspent

\* INX knows the list of the newest output.
LEMMA KnownFacts ==
    ASSUME LedgerInv, NEW l
    PROVE  /\ Known(l) \in ListType
           /\ \A i \in Outputs(l) : (\A j \in Outputs(l) : j <= i) => Known(l) = ledger[i].content
<1>1. Empty \in ListType
  BY DEF Empty, ListType, Values
<1>2. ASSUME NEW i \in Outputs(l), \A j \in Outputs(l) : j <= i
      PROVE  Known(l) = ledger[i].content
  <2> DEFINE k == CHOOSE k \in Outputs(l) : \A j \in Outputs(l) : k >= j
  <2>1. \A j \in Outputs(l) : i >= j
    BY <1>2, OutputFacts
  <2>2. k \in Outputs(l) /\ \A j \in Outputs(l) : k >= j
    BY <2>1
  <2>3. k = i
    BY <1>2, <2>2, OutputFacts
  <2> QED
    BY <2>3 DEF Known
<1>3. CASE Outputs(l) = {}
  BY <1>1, <1>2, <1>3 DEF Known
<1>4. CASE Outputs(l) # {}
  <2>1. PICK i \in Outputs(l) : \A j \in Outputs(l) : i >= j
    BY <1>4, OutputFacts, LastExists
  <2>2. \A j \in Outputs(l) : j <= i
    BY <2>1, OutputFacts
  <2>3. ledger[i].content \in ListType
    BY OutputFacts DEF OutputType
  <2> QED
    BY <1>2, <2>2, <2>3
<1> QED
  BY <1>3, <1>4

\* The parts of the invariant do not notice what they do not mention.
LEMMA CallFrame ==
    ASSUME CallInv, UNCHANGED <<calls, field, answer, crowded, listeners>>, shown' \subseteq Ids,
           lost' \subseteq Ids \union {0}, left' \in BoundType
    PROVE  CallInv'
BY DEF CallInv, Ids

LEMMA LoopFrame ==
    ASSUME LoopInv, UNCHANGED <<calls, channel, ledger>>, doing' = {}
    PROVE  LoopInv'
BY DEF LoopInv, Ids

LEMMA LedgerFrame ==
    ASSUME LedgerInv, UNCHANGED <<calls, ledger, txs, muteMap>>, events' \subseteq events
    PROVE  LedgerInv'
BY DEF LedgerInv, Ids

\* A command that goes on keeps its call.
LEMMA GoesOn ==
    ASSUME LoopInv, UNCHANGED <<calls, channel, ledger>>, NEW d \in doing,
           NEW e \in CommandType, doing' = {e}, e.call = d.call, e.takes \in 0..Len(ledger),
           e.step \in {"sending", "sent", "shown"} <=> calls[d.call].op = "send"
    PROVE  LoopInv'
BY DEF LoopInv, Ids

LEMMA DoingFacts ==
    ASSUME TypeInv, NEW d \in doing
    PROVE  /\ d \in CommandType /\ d.call \in Ids /\ d.takes \in 0..Len(ledger)
           /\ calls[d.call] \in CallType /\ EntryOf(d.call) \in Entry
           /\ Len(ledger) \in Nat /\ Len(calls) \in Nat
           /\ doing = {d}
           /\ d.step \in {"sending", "sent", "shown"} <=> calls[d.call].op = "send"
           /\ ListOf[calls[d.call].op] = "none" <=> calls[d.call].op = "send"
<1>1. d \in CommandType /\ d.call \in Ids /\ d.takes \in 0..Len(ledger) /\ doing = {d}
  BY DEF TypeInv, LoopInv
<1>2. d.step \in {"sending", "sent", "shown"} <=> calls[d.call].op = "send"
  BY DEF TypeInv, LoopInv
<1>3. Len(ledger) \in Nat /\ Len(calls) \in Nat
  BY DEF TypeInv, LedgerInv, CallInv
<1>4. calls[d.call] \in CallType /\ EntryOf(d.call) \in Entry
  BY <1>1, CallFacts DEF TypeInv
<1> QED
  BY <1>1, <1>2, <1>3, <1>4, OpsFacts DEF CallType

\* Answering calls changes nothing else of them.
LEMMA AnswerType ==
    ASSUME CallInv, UNCHANGED <<calls, field, crowded>>, NEW new \in [Ids -> Ids \union {0, None}],
           answer' = [c \in DOMAIN answer |-> new[c]], listeners' \subseteq listeners,
           shown' \subseteq Ids, lost' \subseteq Ids \union {0}, left' \in BoundType
    PROVE  CallInv'
<1>1. DOMAIN answer = Ids /\ Len(calls) \in Nat
  BY LenProperties DEF CallInv, Ids
<1>2. answer' \in [1..Len(calls) -> Ids \union {0, None}]
  BY <1>1 DEF Ids
<1>3. answer' \in Seq(Ids \union {0, None}) /\ Len(answer') = Len(calls)
  BY <1>1, <1>2, EnumerationIsSeq
<1> QED
  BY <1>3 DEF CallInv, Ids

LEMMA AnswerFacts ==
    ASSUME CallInv
    PROVE  /\ DOMAIN answer = Ids /\ DOMAIN calls = Ids /\ Len(calls) \in Nat
           /\ \A c \in Ids : answer[c] \in Ids \union {0, None}
BY LenProperties DEF CallInv, Ids

LEMMA EmitType ==
    ASSUME CallInv, NEW f, NEW match, NEW by \in Ids \union {0}, Emit(f, match, by),
           UNCHANGED <<calls, field, crowded, shown, lost, left>>
    PROVE  CallInv'
<1> DEFINE new == [c \in Ids |-> IF c \in match /\ answer[c] = None THEN by ELSE answer[c]]
<1>1. new \in [Ids -> Ids \union {0, None}]
  BY AnswerFacts
<1>2. answer' = [c \in DOMAIN answer |-> new[c]]
  BY AnswerFacts DEF Emit
<1>3. listeners' \subseteq listeners
  BY DEF Emit
<1>4. shown' \subseteq Ids /\ lost' \subseteq Ids \union {0} /\ left' \in BoundType
  BY DEF CallInv
<1> HIDE DEF new
<1> QED
  BY <1>1, <1>2, <1>3, <1>4, AnswerType

\* A list that is made joins the ledger; the output it takes is spent.
LEMMA LedgerAfter ==
    ASSUME LedgerInv, NEW l \in Lists, NEW content \in ListType, NEW takes \in Nat,
           NEW by \in Nat, NEW e \in Entry, NEW value \in Values,
           Output(l, content, takes, by, e, value)
    PROVE  LET n == Len(ledger)
           IN  /\ ledger' \in Seq(OutputType) /\ Len(ledger') = n + 1
               /\ \A i \in 1..n : ledger'[i] = [ledger[i] EXCEPT !.spent = @ \/ i = takes]
               /\ ledger'[n + 1] = [list |-> l, content |-> content, takes |-> takes, by |-> by,
                                    entry |-> e, value |-> value, spent |-> FALSE]
<1> DEFINE n == Len(ledger)
           old == [i \in 1..n |-> [ledger[i] EXCEPT !.spent = @ \/ i = takes]]
           new == [list |-> l, content |-> content, takes |-> takes, by |-> by,
                   entry |-> e, value |-> value, spent |-> FALSE]
<1>1. n \in Nat /\ DOMAIN ledger = 1..n /\ \A i \in 1..n : ledger[i] \in OutputType
  BY OutputFacts
<1>2. old \in [1..n -> OutputType]
  BY <1>1 DEF OutputType
<1>3. new \in OutputType
  BY DEF OutputType
<1>4. ledger' = Append(old, new)
  BY <1>1 DEF Output
<1>5. old \in Seq(OutputType) /\ Len(old) = n
  BY <1>1, <1>2, EnumerationIsSeq
<1>6. \A i \in 1..n : old[i] = [ledger[i] EXCEPT !.spent = @ \/ i = takes]
  OBVIOUS
<1> HIDE DEF n, old, new
<1>7. /\ ledger' \in Seq(OutputType) /\ Len(ledger') = n + 1 /\ ledger'[n + 1] = new
      /\ \A i \in 1..n : ledger'[i] = old[i]
  BY <1>3, <1>4, <1>5, AppendFacts
<1> QED
  BY <1>6, <1>7 DEF n, new

LEMMA PublishedFacts ==
    ASSUME NEW l, NEW e, NEW value, NEW by, NEW ev \in Published(l, e, value, by)
    PROVE  ev.field \in {"mark", "member", "mute", "like"} /\ ev.by = by
BY DEF Published

LEMMA OutputStep ==
    ASSUME TypeInv, NEW l \in Lists, NEW content \in ListType, NEW takes \in 0..Len(ledger),
           NEW by \in Ids \union {0}, NEW e \in Entry, NEW value \in Values,
           Output(l, content, takes, by, e, value),
           UNCHANGED <<callVars, channel, doing, mapVars, shown>>, left' \in BoundType,
           txs' \subseteq txs
    PROVE  TypeInv'
<1>1. CallInv /\ LoopInv /\ LedgerInv /\ Len(ledger) \in Nat /\ takes \in Nat /\ by \in Nat
  BY OutputFacts DEF TypeInv, Ids, CallInv
<1>2. /\ ledger' \in Seq(OutputType) /\ Len(ledger') = Len(ledger) + 1
      /\ \A i \in 1..Len(ledger) : ledger'[i].takes = ledger[i].takes
      /\ ledger'[Len(ledger) + 1].takes = takes
  <2> DEFINE new == [list |-> l, content |-> content, takes |-> takes, by |-> by,
                     entry |-> e, value |-> value, spent |-> FALSE]
  <2>1. /\ ledger' \in Seq(OutputType) /\ Len(ledger') = Len(ledger) + 1
        /\ \A i \in 1..Len(ledger) : ledger'[i] = [ledger[i] EXCEPT !.spent = @ \/ i = takes]
        /\ ledger'[Len(ledger) + 1] = new
    BY <1>1, LedgerAfter
  <2>2. new.takes = takes
    OBVIOUS
  <2>3. \A i \in 1..Len(ledger) : ledger[i] \in OutputType
    BY <1>1, OutputFacts
  <2>4. \A i \in 1..Len(ledger) : ledger'[i].takes = ledger[i].takes
    BY <2>1, <2>3 DEF OutputType
  <2> QED
    BY <2>1, <2>2, <2>4
<1>3. CallInv'
  BY <1>1, CallFrame DEF callVars, CallInv
<1>4. LoopInv'
  <2>1. \A t \in 0..Len(ledger) : t \in 0..Len(ledger')
    BY <1>1, <1>2
  <2>2. UNCHANGED <<calls, channel, doing>>
    BY DEF callVars
  <2> QED
    BY <1>1, <2>1, <2>2 DEF LoopInv, Ids
<1>5. \A i \in 1..Len(ledger') : ledger'[i].takes < i
  BY <1>1, <1>2 DEF LedgerInv
<1>6. \A tx \in txs' : tx.call \in Ids' /\ tx.takes \in 0..Len(ledger')
  BY <1>1, <1>2 DEF LedgerInv, callVars, Ids
<1>7. \A ev \in events' : ev.field \in {"mark", "member", "mute", "like"} /\ ev.by \in Ids' \union {0}
  <2>1. \A ev \in events : ev.field \in {"mark", "member", "mute", "like"} /\ ev.by \in Ids' \union {0}
    BY <1>1 DEF LedgerInv, callVars, Ids
  <2>2. \A ev \in Published(l, e, value, by) :
            ev.field \in {"mark", "member", "mute", "like"} /\ ev.by \in Ids' \union {0}
    BY PublishedFacts DEF callVars, Ids
  <2> QED
    BY <2>1, <2>2 DEF Output
<1>8. LedgerInv'
  BY <1>1, <1>2, <1>5, <1>6, <1>7 DEF LedgerInv, mapVars
<1> QED
  BY <1>3, <1>4, <1>8 DEF TypeInv

\* A call: its command waits last, its listener is in place.
LEMMA CallStep ==
    ASSUME TypeInv, NEW op \in left.ops, NEW e \in left.entries, NEW v \in Values, Call(op, e, v)
    PROVE  TypeInv'
<1> DEFINE c == Len(calls) + 1
           cmd == [op |-> op, entry |-> e, value |-> v]
<1>1. /\ CallInv /\ LoopInv /\ LedgerInv /\ Len(calls) \in Nat /\ left \in BoundType
      /\ op \in Ops /\ e \in Entry /\ cmd \in CallType
  BY DEF TypeInv, CallInv, BoundType, CallType
<1>2. /\ calls' \in Seq(CallType) /\ Len(calls') = c
      /\ \A i \in Ids : calls'[i] = calls[i]
  <2>1. calls' = Append(calls, cmd) /\ calls \in Seq(CallType)
    BY <1>1 DEF Call, CallInv
  <2> HIDE DEF cmd
  <2> QED
    BY <1>1, <2>1, AppendFacts DEF Ids
<1>3. Ids' = Ids \union {c} /\ c \notin Ids /\ c \in Nat
  BY <1>1, <1>2 DEF Ids
<1>4. answer' \in Seq(Ids' \union {0, None}) /\ Len(answer') = Len(calls')
  <2>1. answer \in Seq(Ids' \union {0, None}) /\ answer' = Append(answer, None)
    <3>1. answer \in Seq(Ids \union {0, None})
      BY <1>1 DEF CallInv
    <3>2. \A i \in 1..Len(answer) : answer[i] \in Ids' \union {0, None}
      BY <1>3, <3>1
    <3> HIDE DEF c
    <3>3. answer \in [1..Len(answer) -> Ids' \union {0, None}] /\ Len(answer) \in Nat
      BY <3>1, <3>2, LenProperties
    <3>4. answer \in Seq(Ids' \union {0, None})
      BY <3>3, EnumerationIsSeq
    <3> QED
      BY <3>4 DEF Call
  <2>2. Len(answer) = Len(calls)
    BY <1>1 DEF CallInv
  <2> QED
    BY <1>2, <2>1, <2>2, AppendFacts
<1>5. left' \in BoundType
  BY <1>1, UsesType DEF Call
<1>6. CallInv'
  <2>1. listeners' \subseteq Ids'
    BY <1>1, <1>3 DEF Call, CallInv
  <2>2. crowded' \subseteq Ids'
    <3>1. {channel[k] : k \in DOMAIN channel} \union {d.call : d \in doing} \subseteq Ids
      BY <1>1, LenProperties DEF LoopInv
    <3>2. \A d \in listeners \union crowded : d \in Ids
      BY <1>1 DEF CallInv
    <3> QED
      BY <1>3, <3>1, <3>2 DEF Call, c
  <2>3. shown' \subseteq Ids' /\ lost' \subseteq Ids' \union {0}
    BY <1>1, <1>3 DEF Call, CallInv
  <2>4. field' \in [Fields -> Ids' \union {0}]
    BY <1>1, <1>3 DEF Call, CallInv
  <2> QED
    BY <1>2, <1>4, <1>5, <2>1, <2>2, <2>3, <2>4 DEF CallInv
<1>7. LoopInv'
  <2>1. channel \in Seq(Nat) /\ channel' = Append(channel, c)
    BY <1>1 DEF LoopInv, Call
  <2>2. /\ channel' \in Seq(Nat) /\ Len(channel') = Len(channel) + 1 /\ channel'[Len(channel) + 1] = c
        /\ Len(channel) \in Nat /\ \A k \in 1..Len(channel) : channel'[k] = channel[k]
    BY <1>3, <2>1, AppendFacts
  <2>3. \A k \in 1..Len(channel') : channel'[k] \in Ids'
    <3>1. \A k \in 1..Len(channel) : channel[k] \in Ids
      BY <1>1 DEF LoopInv
    <3>2. \A k \in 1..Len(channel') : k \in 1..Len(channel) \/ k = Len(channel) + 1
      BY <2>2
    <3> QED
      BY <1>3, <2>2, <3>1, <3>2
  <2>4. \A j, k \in 1..Len(channel') : channel'[j] = channel'[k] => j = k
    BY <1>1, <1>3, <2>2 DEF LoopInv
  <2>5. /\ doing' \subseteq CommandType
        /\ \A d, f \in doing' : d = f
    BY <1>1 DEF Call, LoopInv
  <2>6. ASSUME NEW d \in doing'
        PROVE  /\ d.call \in Ids' /\ d.takes \in 0..Len(ledger')
               /\ \A k \in 1..Len(channel') : channel'[k] # d.call
               /\ d.step \in {"sending", "sent", "shown"} <=> calls'[d.call].op = "send"
    <3>1. UNCHANGED <<doing, ledger>>
      BY DEF Call, ledgerVars
    <3>2. d.call \in Ids /\ d.takes \in 0..Len(ledger)
      BY <1>1, <3>1 DEF LoopInv
    <3>3. \A k \in 1..Len(channel) : channel[k] # d.call
      BY <1>1, <3>1 DEF LoopInv
    <3>4. d.step \in {"sending", "sent", "shown"} <=> calls[d.call].op = "send"
      BY <1>1, <3>1 DEF LoopInv
    <3> HIDE DEF c
    <3>5. \A k \in 1..Len(channel') : channel'[k] # d.call
      <4>1. \A k \in 1..Len(channel') : k \in 1..Len(channel) \/ k = Len(channel) + 1
        BY <2>2
      <4> QED
        BY <1>3, <2>2, <3>2, <3>3, <4>1
    <3> QED
      BY <1>2, <1>3, <3>1, <3>2, <3>4, <3>5
  <2> QED
    BY <2>2, <2>3, <2>4, <2>5, <2>6 DEF LoopInv
<1>8. LedgerInv'
  <2> HIDE DEF c
  <2> QED
    BY <1>1, <1>3 DEF Call, LedgerInv, ledgerVars, mapVars
<1> QED
  BY <1>6, <1>7, <1>8 DEF TypeInv

LEMMA BeginStep ==
    ASSUME TypeInv, Begin
    PROVE  TypeInv'
<1> DEFINE c == Head(channel)
<1>1. CallInv /\ LoopInv /\ LedgerInv /\ channel \in Seq(Nat) /\ channel # <<>>
  BY DEF TypeInv, Begin, LoopInv
<1>2. /\ channel' \in Seq(Nat) /\ Len(channel') = Len(channel) - 1 /\ Len(channel) \in Nat \ {0}
      /\ \A k \in 1..Len(channel') : channel'[k] = channel[k + 1]
      /\ c = channel[1]
  BY <1>1, HeadTailProperties DEF Begin
<1> HIDE DEF c
<1>a. \A k \in 1..Len(channel') : /\ k + 1 \in 1..Len(channel) /\ k + 1 # 1
                                  /\ channel'[k] = channel[k + 1]
  BY <1>2
<1>b. 1 \in 1..Len(channel)
  BY <1>2
<1>3. c \in Ids /\ \A k \in 1..Len(channel') : channel'[k] \in Ids /\ channel'[k] # c
  BY <1>1, <1>2, <1>a, <1>b DEF LoopInv
<1>4. \A j, k \in 1..Len(channel') : channel'[j] = channel'[k] => j = k
  <2> SUFFICES ASSUME NEW j \in 1..Len(channel'), NEW k \in 1..Len(channel'), channel'[j] = channel'[k]
               PROVE  j = k
    OBVIOUS
  <2>1. j + 1 = k + 1
    BY <1>1, <1>a DEF LoopInv
  <2> QED
    BY <1>2, <2>1
<1>5. \/ doing' = {} /\ lost' \in {lost, lost \union {c}}
      \/ /\ lost' = lost
         /\ doing' = {[call |-> c, step |-> IF calls[c].op = "send" THEN "sending" ELSE "output",
                       takes |-> 0, content |-> Empty]}
  BY DEF Begin, BeginJoin, Finish, c
<1>6. CallInv'
  BY <1>1, <1>3, <1>5, CallFrame DEF Begin, CallInv
<1>7. LoopInv'
  <2>1. Len(ledger) \in Nat
    BY <1>1, OutputFacts
  <2>2. Empty \in ListType
    BY DEF Empty, ListType, Values
  <2>3. UNCHANGED <<calls, ledger>>
    BY DEF Begin, ledgerVars
  <2>4. CASE doing' = {}
    BY <1>2, <1>3, <1>4, <2>3, <2>4 DEF LoopInv, Ids
  <2>5. CASE doing' # {}
    <3> DEFINE e == [call |-> c, step |-> IF calls[c].op = "send" THEN "sending" ELSE "output",
                     takes |-> 0, content |-> Empty]
    <3>1. doing' = {e}
      BY <1>5, <2>5
    <3>2. c \in Nat
      BY <1>1, <1>3 DEF Ids, CallInv
    <3>3. e \in CommandType /\ e.call = c /\ e.takes \in 0..Len(ledger)
      BY <3>2, <2>1, <2>2 DEF CommandType
    <3>4. e.step \in {"sending", "sent", "shown"} <=> calls[e.call].op = "send"
      OBVIOUS
    <3> HIDE DEF e, c
    <3> QED
      BY <1>2, <1>3, <1>4, <2>3, <3>1, <3>3, <3>4 DEF LoopInv, Ids
  <2> QED
    BY <2>4, <2>5
<1>8. LedgerInv'
  BY <1>1, LedgerFrame DEF Begin, ledgerVars, mapVars
<1> QED
  BY <1>6, <1>7, <1>8 DEF TypeInv

\* The list of the command is read in two steps, and then it is sent.
LEMMA ReadStep ==
    ASSUME TypeInv, NEW d \in doing, ReadOutput(d) \/ ReadList(d)
    PROVE  TypeInv'
<1>1. CallInv /\ LoopInv /\ LedgerInv
  BY DEF TypeInv
<1>2. UNCHANGED <<calls, channel, ledger, txs, muteMap, events>>
  BY DEF ReadOutput, ReadList, callVars, ledgerVars, mapVars
<1>3. CallInv'
  <2>1. lost' \in {lost, lost \union {d.call}}
    BY DEF ReadOutput, ReadList, callVars, Fails
  <2>2. UNCHANGED <<calls, field, answer, crowded, listeners, shown, left>>
    BY DEF ReadOutput, ReadList, callVars
  <2>3. shown' \subseteq Ids /\ lost' \subseteq Ids \union {0} /\ left' \in BoundType
    BY <1>1, <2>1, <2>2, DoingFacts DEF CallInv
  <2> QED
    BY <1>1, <2>2, <2>3, CallFrame
<1>4. LoopInv'
  <2>1. CASE ReadOutput(d)
    <3>1. PICK i \in 0..Len(ledger) : doing' = {[d EXCEPT !.step = "list", !.takes = i]}
      <4>1. \A i \in Unspent(ListOf[OpOf(d)]) : i \in 0..Len(ledger)
        BY <1>1, OutputFacts
      <4>2. 0 \in 0..Len(ledger)
        BY DoingFacts
      <4> QED
        BY <2>1, <4>1, <4>2 DEF ReadOutput
    <3>2. d.step = "output"
      BY <2>1 DEF ReadOutput, Doing
    <3> DEFINE e == [d EXCEPT !.step = "list", !.takes = i]
    <3>a. i \in Nat /\ d \in CommandType
      BY DoingFacts
    <3>3. e \in CommandType /\ e.call = d.call /\ e.takes = i /\ e.step = "list"
      BY <3>a DEF CommandType
    <3> HIDE DEF e
    <3> QED
      BY <1>1, <1>2, <3>1, <3>2, <3>3, DoingFacts, GoesOn DEF e
  <2>2. CASE ReadList(d)
    <3> DEFINE list == Known(ListOf[OpOf(d)])
               new  == [list EXCEPT ![EntryOf(d.call)] = calls[d.call].value]
    <3>1. d.step = "list"
      BY <2>2 DEF ReadList, Doing
    <3>2. new \in ListType
      BY <1>1, DoingFacts, KnownFacts DEF ListType, CallType
    <3>3. \/ doing' = {}
          \/ doing' = {[d EXCEPT !.step = "map"]}
          \/ doing' = {[d EXCEPT !.step = "submit", !.content = new]}
      BY <2>2 DEF ReadList
    <3> HIDE DEF new
    <3>4. CASE doing' = {}
      BY <1>1, <1>2, <3>4, LoopFrame
    <3>5. CASE doing' = {[d EXCEPT !.step = "map"]}
      <4> DEFINE e == [d EXCEPT !.step = "map"]
      <4>1. e \in CommandType /\ e.call = d.call /\ e.takes = d.takes /\ e.step = "map"
        BY DoingFacts DEF CommandType
      <4> HIDE DEF e
      <4> QED
        BY <1>1, <1>2, <3>1, <3>5, <4>1, DoingFacts, GoesOn DEF e
    <3>6. CASE doing' = {[d EXCEPT !.step = "submit", !.content = new]}
      <4> DEFINE e == [d EXCEPT !.step = "submit", !.content = new]
      <4>1. e \in CommandType /\ e.call = d.call /\ e.takes = d.takes /\ e.step = "submit"
        BY <3>2, DoingFacts DEF CommandType
      <4> HIDE DEF e
      <4> QED
        BY <1>1, <1>2, <3>1, <3>6, <4>1, DoingFacts, GoesOn DEF e
    <3> QED
      BY <3>3, <3>4, <3>5, <3>6
  <2> QED
    BY <2>1, <2>2
<1>5. LedgerInv'
  BY <1>1, <1>2, LedgerFrame
<1> QED
  BY <1>3, <1>4, <1>5 DEF TypeInv

\* What is sent is a transaction that may be confirmed.
LEMMA SentType ==
    ASSUME TypeInv, NEW d \in doing, NEW takes \in 0..Len(ledger), Sent(d, takes),
           UNCHANGED <<calls, ledger, muteMap, events>>
    PROVE  LedgerInv'
<1> DEFINE tx == [call |-> d.call, takes |-> takes, content |-> d.content]
<1>1. tx \in TxType /\ tx.call \in Ids /\ tx.takes \in 0..Len(ledger)
  BY DoingFacts DEF TxType, CommandType
<1>2. txs' = txs \union {tx}
  BY DEF Sent
<1> HIDE DEF tx
<1> QED
  BY <1>1, <1>2 DEF TypeInv, LedgerInv, Ids

LEMMA SubmitStep ==
    ASSUME TypeInv, NEW d \in doing, Submit(d)
    PROVE  TypeInv'
<1>1. CallInv /\ LoopInv /\ LedgerInv
  BY DEF TypeInv
<1>2. UNCHANGED <<calls, channel, ledger, muteMap, events>>
  BY DEF Submit, mapVars
<1>3. CallInv'
  <2>1. CASE VoteSent(d.call)
    <3>1. UNCHANGED <<calls, field, crowded, shown, lost, left>>
      BY DEF Submit
    <3>2. d.call \in Ids \union {0}
      BY DoingFacts
    <3> QED
      BY <1>1, <2>1, <3>1, <3>2, EmitType DEF VoteSent
  <2>2. CASE UNCHANGED <<answer, listeners>>
    BY <1>1, <2>2, CallFrame DEF Submit, CallInv, Ids
  <2> QED
    BY <2>1, <2>2 DEF Submit
<1>4. LoopInv'
  <2>1. CASE doing' = {}
    BY <1>1, <1>2, <2>1, LoopFrame
  <2>2. CASE doing' # {}
    <3> DEFINE e == [d EXCEPT !.step = "map"]
    <3>1. doing' = {e}
      BY <2>2 DEF Submit
    <3>2. e \in CommandType /\ e.call = d.call /\ e.takes = d.takes /\ e.step = "map"
      BY DoingFacts DEF CommandType
    <3>3. d.step = "submit"
      BY DEF Submit, Doing
    <3> HIDE DEF e
    <3> QED
      BY <1>1, <1>2, <3>1, <3>2, <3>3, DoingFacts, GoesOn
  <2> QED
    BY <2>1, <2>2
<1>5. LedgerInv'
  BY <1>2, DoingFacts, SentType DEF Submit
<1> QED
  BY <1>3, <1>4, <1>5 DEF TypeInv

\* The command ends, with what it does to the mute map.
LEMMA MapStep ==
    ASSUME TypeInv, NEW d \in doing, UpdateMuteMap(d) \/ MapMissing(d)
    PROVE  TypeInv'
<1>1. CallInv /\ LoopInv /\ LedgerInv
  BY DEF TypeInv
<1>2. /\ UNCHANGED <<calls, field, answer, crowded, listeners, lost, shown, left, channel, ledger>>
      /\ UNCHANGED <<txs, events>> /\ doing' = {}
  BY DEF UpdateMuteMap, MapMissing, callVars, ledgerVars, Finish
<1>3. CallInv'
  BY <1>1, <1>2, CallFrame DEF CallInv
<1>4. LoopInv'
  BY <1>1, <1>2, LoopFrame
<1>5. \A m \in muteMap' : m \in ListType
  <2>1. \A m \in muteMap : [m EXCEPT ![EntryOf(d.call)] = IF @ = "in" THEN "out" ELSE "in"] \in ListType
    BY <1>1, DoingFacts DEF LedgerInv, ListType, Values
  <2> QED
    BY <1>1, <2>1 DEF UpdateMuteMap, MapMissing, mapVars, LedgerInv
<1>6. LedgerInv'
  BY <1>1, <1>2, <1>5 DEF LedgerInv, Ids
<1> QED
  BY <1>3, <1>4, <1>6 DEF TypeInv

\* A message is shown, and its call answered; its transaction is sent.
LEMMA ShowStep ==
    ASSUME TypeInv, NEW d \in doing, ShowMessage(d)
    PROVE  TypeInv'
<1> DEFINE open == {c \in listeners : calls[c].op = "send"}
           new  == [c \in Ids |-> IF c \in open THEN d.call ELSE answer[c]]
<1>1. CallInv /\ LoopInv /\ LedgerInv
  BY DEF TypeInv
<1>2. UNCHANGED <<calls, channel, ledger, muteMap, events, txs, field, lost, crowded, left>>
  BY DEF ShowMessage, mapVars, ledgerVars
<1>3. CallInv'
  <2>1. new \in [Ids -> Ids \union {0, None}]
    BY <1>1, DoingFacts, AnswerFacts
  <2>2. answer' = [c \in DOMAIN answer |-> new[c]] /\ listeners' \subseteq listeners
    BY <1>1, AnswerFacts DEF ShowMessage, Show
  <2>3. shown' \subseteq Ids /\ lost' \subseteq Ids \union {0} /\ left' \in BoundType
    BY <1>1, <1>2, DoingFacts DEF CallInv, ShowMessage, Show
  <2> HIDE DEF new
  <2> QED
    BY <1>1, <1>2, <2>1, <2>2, <2>3, AnswerType
<1>4. LoopInv'
  <2>1. d.step \in {"sending", "sent"}
    BY DEF ShowMessage, Doing
  <2>2. CASE doing' = {}
    BY <1>1, <1>2, <2>2, LoopFrame
  <2>3. CASE doing' # {}
    <3> DEFINE e == [d EXCEPT !.step = "shown"]
    <3>1. doing' = {e}
      BY <2>3 DEF ShowMessage
    <3>2. e \in CommandType /\ e.call = d.call /\ e.takes = d.takes /\ e.step = "shown"
      BY DoingFacts DEF CommandType
    <3> HIDE DEF e
    <3> QED
      BY <1>1, <1>2, <2>1, <3>1, <3>2, DoingFacts, GoesOn
  <2> QED
    BY <2>2, <2>3
<1>5. LedgerInv'
  BY <1>1, <1>2, LedgerFrame
<1> QED
  BY <1>3, <1>4, <1>5 DEF TypeInv

LEMMA SendStep ==
    ASSUME TypeInv, NEW d \in doing, SendMessage(d)
    PROVE  TypeInv'
<1>1. CallInv /\ LoopInv /\ LedgerInv
  BY DEF TypeInv
<1>2. UNCHANGED <<calls, channel, ledger, muteMap, events, field, answer, crowded, listeners, lost, shown, left>>
  BY DEF SendMessage, mapVars, callVars
<1>3. CallInv'
  BY <1>1, <1>2, CallFrame DEF CallInv
<1>4. LoopInv'
  <2>1. d.step \in {"sending", "shown"}
    BY DEF SendMessage, Doing
  <2>2. CASE doing' = {}
    BY <1>1, <1>2, <2>2, LoopFrame
  <2>3. CASE doing' # {}
    <3> DEFINE e == [d EXCEPT !.step = "sent"]
    <3>1. doing' = {e}
      BY <2>3 DEF SendMessage
    <3>2. e \in CommandType /\ e.call = d.call /\ e.takes = d.takes /\ e.step = "sent"
      BY DoingFacts DEF CommandType
    <3> HIDE DEF e
    <3> QED
      BY <1>1, <1>2, <2>1, <3>1, <3>2, DoingFacts, GoesOn
  <2> QED
    BY <2>2, <2>3
<1>5. LedgerInv'
  <2>1. 0 \in 0..Len(ledger)
    BY DoingFacts
  <2> QED
    BY <1>2, <2>1, SentType DEF SendMessage
<1> QED
  BY <1>3, <1>4, <1>5 DEF TypeInv

LEMMA FailsStep ==
    ASSUME TypeInv, NEW d \in doing, CommandFails(d) \/ SendFails(d)
    PROVE  TypeInv'
<1>1. CallInv /\ LoopInv /\ LedgerInv
  BY DEF TypeInv
<1>2. /\ UNCHANGED <<calls, channel, ledger, muteMap, events, txs, field, answer, crowded, listeners, shown>>
      /\ doing' = {} /\ lost' = lost \union {d.call} /\ Uses("fails")
  BY DEF CommandFails, SendFails, mapVars, ledgerVars, Fails, Finish
<1>3. left' \in BoundType
  BY <1>1, <1>2, UsesType DEF CallInv
<1>4. shown' \subseteq Ids /\ lost' \subseteq Ids \union {0}
  BY <1>1, <1>2, DoingFacts DEF CallInv
<1>5. CallInv'
  BY <1>1, <1>2, <1>3, <1>4, CallFrame
<1>6. LoopInv' /\ LedgerInv'
  BY <1>1, <1>2, LoopFrame, LedgerFrame
<1> QED
  BY <1>5, <1>6 DEF TypeInv

\* The mute map and the members are asked for: the list is the one INX knows.
LEMMA CacheStep ==
    ASSUME TypeInv, EnsureMuteMap \/ \E g : RefreshMembers(g)
    PROVE  TypeInv'
<1>1. CallInv /\ LoopInv /\ LedgerInv
  BY DEF TypeInv
<1>2. UNCHANGED <<callVars, channel, doing, ledger, txs, events, shown>>
  BY DEF EnsureMuteMap, RefreshMembers, ledgerVars
<1>3. left' \in BoundType
  BY <1>1, UsesType DEF EnsureMuteMap, RefreshMembers, CallInv
<1>4. CallInv'
  BY <1>1, <1>2, <1>3, CallFrame DEF callVars, CallInv
<1>5. LoopInv'
  BY <1>1, <1>2 DEF LoopInv, callVars, Ids
<1>6. \A m \in muteMap' : m \in ListType
  <2>1. muteMap' \in {muteMap, {Known("mute")}}
    BY DEF EnsureMuteMap, RefreshMembers, mapVars
  <2> QED
    BY <1>1, <2>1, KnownFacts DEF LedgerInv
<1>7. LedgerInv'
  BY <1>1, <1>2, <1>6 DEF LedgerInv, callVars, Ids
<1> QED
  BY <1>4, <1>5, <1>7 DEF TypeInv

\* The ledger settles a transaction, or another device changes a list.
LEMMA TxFacts ==
    ASSUME TypeInv, NEW tx \in txs
    PROVE  /\ tx.call \in Ids /\ tx.takes \in 0..Len(ledger) /\ tx.content \in ListType
           /\ calls[tx.call] \in CallType /\ EntryOf(tx.call) \in Entry
           /\ calls[tx.call].op # "send" => ListOf[calls[tx.call].op] \in Lists
<1>1. tx.call \in Ids /\ tx.takes \in 0..Len(ledger) /\ tx.content \in ListType
  BY DEF TypeInv, LedgerInv, TxType
<1>2. calls[tx.call] \in CallType /\ EntryOf(tx.call) \in Entry
  BY <1>1, CallFacts DEF TypeInv
<1> QED
  BY <1>1, <1>2, OpsFacts DEF CallType

LEMMA ConfirmStep ==
    ASSUME TypeInv, NEW tx \in txs, Confirm(tx)
    PROVE  TypeInv'
<1>1. CallInv /\ LoopInv /\ LedgerInv
  BY DEF TypeInv
<1>2. UNCHANGED <<callVars, channel, doing, mapVars, shown, left>> /\ txs' \subseteq txs
  BY DEF Confirm
<1>3. CASE calls[tx.call].op = "send"
  <2>1. UNCHANGED <<ledger, events>>
    BY <1>3 DEF Confirm
  <2>2. CallInv'
    BY <1>1, <1>2, CallFrame DEF callVars, CallInv
  <2>3. LoopInv'
    BY <1>1, <1>2, <2>1 DEF LoopInv, callVars, Ids
  <2>4. LedgerInv'
    BY <1>1, <1>2, <2>1 DEF LedgerInv, callVars, mapVars, Ids
  <2> QED
    BY <2>2, <2>3, <2>4 DEF TypeInv
<1>4. CASE calls[tx.call].op # "send"
  <2>1. Output(ListOf[calls[tx.call].op], tx.content, tx.takes, tx.call, EntryOf(tx.call), calls[tx.call].value)
    BY <1>4 DEF Confirm
  <2>2. left' \in BoundType
    BY <1>1, <1>2 DEF CallInv
  <2> QED
    BY <1>2, <1>4, <2>1, <2>2, TxFacts, OutputStep DEF CallType
<1> QED
  BY <1>3, <1>4

LEMMA RefuseStep ==
    ASSUME TypeInv, NEW tx \in txs, Refuse(tx)
    PROVE  TypeInv'
<1>1. CallInv /\ LoopInv /\ LedgerInv
  BY DEF TypeInv
<1>2. /\ UNCHANGED <<calls, channel, doing, ledger, muteMap, events, field, answer, crowded, listeners, shown, left>>
      /\ lost' = lost \union {tx.call} /\ txs' \subseteq txs
  BY DEF Refuse, mapVars
<1>3. shown' \subseteq Ids /\ lost' \subseteq Ids \union {0} /\ left' \in BoundType
  BY <1>1, <1>2, TxFacts DEF CallInv
<1>4. CallInv'
  BY <1>1, <1>2, <1>3, CallFrame
<1>5. LoopInv'
  BY <1>1, <1>2 DEF LoopInv, Ids
<1>6. LedgerInv'
  BY <1>1, <1>2 DEF LedgerInv, Ids
<1> QED
  BY <1>4, <1>5, <1>6 DEF TypeInv

LEMMA ForeignStep ==
    ASSUME TypeInv, NEW l \in Lists, NEW e \in left.entries, NEW v \in Values, Foreign(l, e, v)
    PROVE  TypeInv'
<1>1. LedgerInv /\ left \in BoundType /\ e \in Entry /\ Len(ledger) \in Nat
  BY OutputFacts DEF TypeInv, CallInv, BoundType
<1>2. left' \in BoundType
  BY <1>1, UsesType DEF Foreign
<1>3. PICK i \in IF Unspent(l) = {} THEN {0} ELSE Unspent(l) :
          Output(l, [Known(l) EXCEPT ![e] = v], i, 0, e, v)
  BY DEF Foreign
<1>4. i \in 0..Len(ledger)
  BY <1>1, OutputFacts
<1>5. [Known(l) EXCEPT ![e] = v] \in ListType
  BY <1>1, KnownFacts DEF ListType
<1> QED
  BY <1>1, <1>2, <1>3, <1>4, <1>5, OutputStep DEF Foreign

\* An event is handed on, or lost.
LEMMA EventStep ==
    ASSUME TypeInv, NEW ev \in events, Deliver(ev) \/ DeliverFails(ev)
    PROVE  TypeInv'
<1>1. CallInv /\ LoopInv /\ LedgerInv /\ ev.by \in Ids \union {0}
  BY DEF TypeInv, LedgerInv
<1>2. UNCHANGED <<calls, channel, doing, field, crowded, shown, ledger, txs, muteMap>> /\ events' \subseteq events
  BY DEF Deliver, DeliverFails, mapVars
<1>3. CallInv'
  <2>1. CASE Deliver(ev)
    <3>1. UNCHANGED <<calls, field, crowded, shown, lost, left>>
      BY <2>1 DEF Deliver
    <3> QED
      BY <1>1, <2>1, <3>1, EmitType DEF Deliver
  <2>2. CASE DeliverFails(ev)
    <3>1. left' \in BoundType /\ UNCHANGED <<answer, listeners>> /\ lost' = lost \union {ev.by}
      BY <1>1, <2>2, UsesType DEF DeliverFails, CallInv
    <3>2. shown' \subseteq Ids /\ lost' \subseteq Ids \union {0}
      BY <1>1, <1>2, <3>1 DEF CallInv
    <3> QED
      BY <1>1, <1>2, <3>1, <3>2, CallFrame
  <2> QED
    BY <2>1, <2>2
<1>4. LoopInv'
  BY <1>1, <1>2 DEF LoopInv, Ids
<1>5. LedgerInv'
  BY <1>1, <1>2, LedgerFrame
<1> QED
  BY <1>3, <1>4, <1>5 DEF TypeInv

LEMMA TypeStep ==
    ASSUME TypeInv, [Next]_vars
    PROVE  TypeInv'
<1>1. ASSUME NEW op \in left.ops, NEW e \in left.entries, NEW v \in Values, Call(op, e, v)
      PROVE  TypeInv'
  BY <1>1, CallStep
<1>2. CASE Work
  <2>1. CASE Begin
    BY <2>1, BeginStep
  <2>2. ASSUME NEW d \in doing, ReadOutput(d) \/ ReadList(d) \/ Submit(d) \/ UpdateMuteMap(d)
                                    \/ MapMissing(d) \/ ShowMessage(d) \/ SendMessage(d)
        PROVE  TypeInv'
    BY <2>2, ReadStep, SubmitStep, MapStep, ShowStep, SendStep
  <2> QED
    BY <1>2, <2>1, <2>2 DEF Work
<1>3. ASSUME NEW d \in doing, CommandFails(d) \/ SendFails(d)
      PROVE  TypeInv'
  BY <1>3, FailsStep
<1>4. CASE Settle \/ Event \/ \E ev \in events : DeliverFails(ev)
  BY <1>4, ConfirmStep, RefuseStep, EventStep DEF Settle, Event
<1>5. CASE EnsureMuteMap \/ \E e \in left.entries : RefreshMembers(e.group)
  BY <1>5, CacheStep
<1>6. ASSUME NEW op \in left.ops, NEW e \in left.entries, NEW v \in Values,
             ListOf[op] # "none", Foreign(ListOf[op], e, v)
      PROVE  TypeInv'
  <2>1. ListOf[op] \in Lists
    BY <1>6, OpsFacts DEF TypeInv, CallInv, BoundType
  <2> QED
    BY <1>6, <2>1, ForeignStep
<1>7. CASE UNCHANGED vars
  <2>1. CallInv' /\ LoopInv' /\ LedgerInv'
    BY <1>7 DEF vars, TypeInv, CallInv, LoopInv, LedgerInv, Ids
  <2> QED
    BY <2>1 DEF TypeInv
<1> QED
  BY <1>1, <1>2, <1>3, <1>4, <1>5, <1>6, <1>7 DEF Next

\* An address may start with a list.
LEMMA InitFacts ==
    ASSUME Init
    PROVE  /\ ledger = <<>> \/ \E o \in OutputType : /\ ledger = <<o>> /\ o.takes = 0 /\ o.by = 0
           /\ left \in BoundType
<1>1. left \in BoundType
  BY BoundsAssumption DEF Init, BoundType
<1>2. PICK old \in SUBSET ({ListOf[op] : op \in left.ops} \intersect {"mark", "mute", "like", "vote"}) :
           ledger = IF old = {} THEN <<>>
                    ELSE <<[list |-> CHOOSE l \in old : TRUE, content |-> Empty, takes |-> 0,
                            by |-> 0, entry |-> CHOOSE e \in Entry : TRUE, value |-> "out",
                            spent |-> FALSE]>>
  BY DEF Init
<1>3. CASE old # {}
  <2> DEFINE o == [list |-> CHOOSE l \in old : TRUE, content |-> Empty, takes |-> 0,
                   by |-> 0, entry |-> CHOOSE e \in Entry : TRUE, value |-> "out", spent |-> FALSE]
  <2>1. (CHOOSE l \in old : TRUE) \in Lists
    BY <1>3 DEF Lists
  <2>2. (CHOOSE e \in Entry : TRUE) \in Entry
    BY EntryAssumption
  <2>3. Empty \in ListType
    BY DEF Empty, ListType, Values
  <2>4. o \in OutputType /\ o.takes = 0 /\ o.by = 0
    BY <2>1, <2>2, <2>3 DEF OutputType, Values
  <2>5. ledger = <<o>>
    BY <1>2, <1>3
  <2> QED
    BY <1>1, <2>4, <2>5
<1> QED
  BY <1>1, <1>2, <1>3

LEMMA TypeInit ==
    ASSUME Init
    PROVE  TypeInv
<1>1. CallInv
  <2>1. left \in BoundType
    BY InitFacts
  <2>2. calls = <<>> /\ answer = <<>> /\ Len(calls) = 0 /\ Len(answer) = 0
    BY DEF Init
  <2>3. calls \in Seq(CallType) /\ answer \in Seq(Ids \union {0, None})
    BY <2>2
  <2>4. field \in [Fields -> Ids \union {0}]
    BY DEF Init
  <2> QED
    BY <2>1, <2>2, <2>3, <2>4 DEF CallInv, Init
<1>2. LoopInv
  BY DEF Init, LoopInv
<1>3. LedgerInv
  <2>1. ledger \in Seq(OutputType) /\ \A i \in 1..Len(ledger) : ledger[i].takes < i
    <3>1. ASSUME NEW o \in OutputType, ledger = <<o>>, o.takes = 0
          PROVE  ledger \in Seq(OutputType) /\ \A i \in 1..Len(ledger) : ledger[i].takes < i
      <4>1. <<o>> \in Seq(OutputType) /\ Len(<<o>>) = 1 /\ <<o>>[1] = o
        OBVIOUS
      <4> QED
        BY <3>1, <4>1
    <3>2. CASE ledger = <<>>
      BY <3>2
    <3> QED
      BY <3>1, <3>2, InitFacts
  <2> QED
    BY <2>1 DEF Init, LedgerInv
<1> QED
  BY <1>1, <1>2, <1>3 DEF TypeInv

LEMMA TypeImplied ==
    ASSUME TypeInv
    PROVE  TypeOK
<1>1. CallInv /\ LoopInv /\ LedgerInv
  BY DEF TypeInv
<1>2. \A c \in Ids : calls[c].op \in Ops /\ calls[c].entry \in Entry /\ calls[c].value \in Values
  BY <1>1, CallFacts DEF CallType
<1>3. \A k \in DOMAIN channel : channel[k] \in Ids \ {d.call : d \in doing}
  BY <1>1, LenProperties DEF LoopInv
<1>4. Cardinality(doing) <= 1
  <2>1. CASE doing = {}
    BY <2>1, FS_EmptySet
  <2>2. CASE doing # {}
    <3>1. PICK d : d \in doing
      BY <2>2
    <3>2. doing = {d}
      BY <1>1, <3>1 DEF LoopInv
    <3> QED
      BY <3>2, FS_Singleton
  <2> QED
    BY <2>1, <2>2
<1>5. \A d \in doing : d.takes \in 0..Len(ledger)
  BY <1>1 DEF LoopInv
<1>6. /\ listeners \union crowded \union shown \subseteq Ids /\ lost \subseteq Ids \union {0}
      /\ field \in [Fields -> Ids \union {0}]
      /\ DOMAIN answer = Ids /\ \A c \in Ids : answer[c] \in Ids \union {0, None}
  BY <1>1, AnswerFacts DEF CallInv
<1>7. \A i \in DOMAIN ledger : ledger[i].content \in [Entry -> Values] /\ ledger[i].takes < i
  BY <1>1, OutputFacts DEF LedgerInv, OutputType, ListType
<1>8. \A m \in muteMap : m \in [Entry -> Values]
  BY <1>1 DEF LedgerInv, ListType
<1> QED
  BY <1>2, <1>3, <1>4, <1>5, <1>6, <1>7, <1>8 DEF TypeOK, Ids

\* Every reachable state is of the declared types, and the loop runs at most
\* one command, which does not wait any more.
THEOREM TypeCorrect == Spec => [](TypeInv /\ TypeOK)
<1>1. Init => TypeInv
  BY TypeInit
<1>2. TypeInv /\ [Next]_vars => TypeInv'
  BY TypeStep
<1>3. TypeInv => TypeOK
  BY TypeImplied
<1> QED
  BY <1>1, <1>2, <1>3, PTL DEF Spec

-----------------------------------------------------------------------------
(* No update is lost.                                                      *)

\* What an output leaves as it was, and what it adds.
LEMMA OutputSets ==
    ASSUME LedgerInv, NEW l \in Lists, NEW content \in ListType, NEW takes \in Unspent(l) \union {0},
           NEW by \in Nat, NEW e \in Entry, NEW value \in Values,
           Output(l, content, takes, by, e, value)
    PROVE  LET n == Len(ledger)
           IN  /\ \A k : Outputs(k)' = IF k = l THEN Outputs(k) \union {n + 1} ELSE Outputs(k)
               /\ \A k : Unspent(k)' = IF k = l THEN (Unspent(k) \ {takes}) \union {n + 1} ELSE Unspent(k)
               /\ Len(ledger') = n + 1
               /\ \A i \in 1..n : /\ ledger'[i].content = ledger[i].content /\ ledger'[i].takes = ledger[i].takes
                                  /\ ledger'[i].list = ledger[i].list /\ ledger'[i].by = ledger[i].by
                                  /\ ledger'[i].entry = ledger[i].entry /\ ledger'[i].value = ledger[i].value
<1> DEFINE n == Len(ledger)
           new == [list |-> l, content |-> content, takes |-> takes, by |-> by,
                   entry |-> e, value |-> value, spent |-> FALSE]
<1>1. n \in Nat /\ takes \in Nat /\ \A i \in 1..n : ledger[i] \in OutputType
  BY OutputFacts
<1>2. /\ ledger' \in Seq(OutputType) /\ Len(ledger') = n + 1 /\ ledger'[n + 1] = new
      /\ \A i \in 1..n : ledger'[i] = [ledger[i] EXCEPT !.spent = @ \/ i = takes]
  BY <1>1, LedgerAfter
<1>3. new.list = l /\ new.spent = FALSE
  OBVIOUS
<1>4. ASSUME NEW i \in 1..n
      PROVE  /\ ledger'[i].content = ledger[i].content /\ ledger'[i].takes = ledger[i].takes
             /\ ledger'[i].list = ledger[i].list /\ ledger'[i].by = ledger[i].by
             /\ ledger'[i].entry = ledger[i].entry /\ ledger'[i].value = ledger[i].value
             /\ ledger'[i].spent <=> (ledger[i].spent \/ i = takes)
  <2>1. ASSUME NEW o \in OutputType, NEW b \in BOOLEAN
        PROVE  LET p == [o EXCEPT !.spent = b]
               IN  /\ p.content = o.content /\ p.takes = o.takes /\ p.list = o.list /\ p.by = o.by
                   /\ p.entry = o.entry /\ p.value = o.value /\ p.spent = b
    BY DEF OutputType
  <2>2. ledger[i] \in OutputType /\ ledger[i].spent \in BOOLEAN
    BY <1>1 DEF OutputType
  <2>3. ledger'[i] = [ledger[i] EXCEPT !.spent = (ledger[i].spent \/ i = takes)]
    BY <1>2
  <2> QED
    BY <2>1, <2>2, <2>3
<1> HIDE DEF new
<1>5. DOMAIN ledger = 1..n /\ DOMAIN ledger' = 1..(n + 1) /\ n + 1 \notin 1..n
  BY <1>1, <1>2, OutputFacts, LenProperties
<1>6. \A i : i \in 1..(n + 1) <=> i \in 1..n \/ i = n + 1
  BY <1>1
<1> HIDE DEF n
<1>7. ASSUME NEW k
      PROVE  Outputs(k)' = IF k = l THEN Outputs(k) \union {n + 1} ELSE Outputs(k)
  BY <1>2, <1>3, <1>4, <1>5, <1>6 DEF Outputs
<1>8. ASSUME NEW k
      PROVE  Unspent(k)' = IF k = l THEN (Unspent(k) \ {takes}) \union {n + 1} ELSE Unspent(k)
  <2>1. CASE k = l
    <3>1. \A i \in Outputs(k) : ledger'[i].spent <=> (ledger[i].spent \/ i = takes)
      BY <1>4, <1>5 DEF Outputs
    <3>2. ~ledger'[n + 1].spent /\ n + 1 \notin Outputs(k)
      BY <1>2, <1>3, <1>5 DEF Outputs
    <3> QED
      BY <1>7, <2>1, <3>1, <3>2 DEF Unspent
  <2>2. CASE k # l
    <3>1. takes \notin Outputs(k)
      BY <1>1, <1>5, <2>2 DEF Unspent, Outputs
    <3>2. \A i \in Outputs(k) : ledger'[i].spent <=> ledger[i].spent
      BY <1>4, <1>5, <3>1 DEF Outputs
    <3> QED
      BY <1>7, <2>2, <3>2 DEF Unspent
  <2> QED
    BY <2>1, <2>2
<1> QED
  BY <1>2, <1>4, <1>7, <1>8 DEF n

\* The output of a list that has taken the place of the one before it.
LEMMA OutputUpdates ==
    ASSUME UpdateInv, NEW l \in Lists, NEW content \in ListType, NEW takes \in Unspent(l) \union {0},
           NEW by \in Ids \union {0}, NEW e \in Entry, NEW value \in Values,
           by # 0 /\ takes \in Unspent(l) /\ l \notin split =>
               content = [ledger[takes].content EXCEPT ![e] = value],
           Output(l, content, takes, by, e, value),
           UNCHANGED <<calls, doing>>, txs' \subseteq txs
    PROVE  NewestInv' /\ PreparedInv' /\ NoLostUpdate'
<1> DEFINE n == Len(ledger)
<1>1. /\ CallInv /\ LoopInv /\ LedgerInv /\ NewestInv /\ PreparedInv /\ NoLostUpdate
      /\ n \in Nat /\ by \in Nat /\ DOMAIN ledger = 1..n
  BY OutputFacts DEF UpdateInv, TypeInv, CallInv, Ids
<1>2. /\ \A k : Outputs(k)' = IF k = l THEN Outputs(k) \union {n + 1} ELSE Outputs(k)
      /\ \A k : Unspent(k)' = IF k = l THEN (Unspent(k) \ {takes}) \union {n + 1} ELSE Unspent(k)
      /\ Len(ledger') = n + 1
      /\ \A i \in 1..n : /\ ledger'[i].content = ledger[i].content /\ ledger'[i].takes = ledger[i].takes
                         /\ ledger'[i].list = ledger[i].list /\ ledger'[i].by = ledger[i].by
                         /\ ledger'[i].entry = ledger[i].entry /\ ledger'[i].value = ledger[i].value
  BY <1>1, OutputSets
<1>3. \A k : /\ Outputs(k) \subseteq 1..n /\ Unspent(k) \subseteq Outputs(k)
  BY <1>1, OutputFacts
<1>4. split \subseteq split' /\ (l \notin split' => Unspent(l) \subseteq {takes})
  BY DEF Output
<1> HIDE DEF n
<1>5. NewestInv'
  <2> SUFFICES ASSUME NEW k \in Lists \ split', NEW i \in Unspent(k)', NEW j \in Outputs(k)'
               PROVE  j <= i
    BY DEF NewestInv
  <2>1. CASE k = l
    <3>1. i = n + 1
      BY <1>2, <1>4, <2>1
    <3>2. j \in 1..n \/ j = n + 1
      BY <1>2, <1>3, <2>1
    <3> QED
      BY <1>1, <3>1, <3>2
  <2>2. CASE k # l
    BY <1>1, <1>2, <1>4, <2>2 DEF NewestInv
  <2> QED
    BY <2>1, <2>2
<1>6. ASSUME NEW c \in Ids, NEW t \in 0..n, NEW new, Prepared(c, t, new)
      PROVE  Prepared(c, t, new)'
  <2> DEFINE k == ListOf[calls[c].op]
  <2> SUFFICES ASSUME t \in Unspent(k)', k \notin split'
               PROVE  new = [ledger'[t].content EXCEPT ![EntryOf(c)] = calls[c].value]
    BY DEF Prepared, EntryOf
  <2>1. t \in Unspent(k)
    BY <1>1, <1>2
  <2>2. ledger'[t].content = ledger[t].content
    BY <1>2, <1>3, <2>1
  <2> QED
    BY <1>4, <1>6, <2>1, <2>2 DEF Prepared
<1>7. PreparedInv'
  <2>1. ASSUME NEW d \in Doing("submit")'
        PROVE  Prepared(d.call, d.takes, d.content)'
    <3>1. d \in Doing("submit") /\ d.call \in Ids /\ d.takes \in 0..n
      BY <1>1 DEF Doing, LoopInv, n
    <3> QED
      BY <1>1, <1>6, <3>1 DEF PreparedInv
  <2>2. ASSUME NEW tx \in txs', calls[tx.call].op # "send"
        PROVE  Prepared(tx.call, tx.takes, tx.content)'
    <3>1. tx \in txs /\ tx.call \in Ids /\ tx.takes \in 0..n
      BY <1>1 DEF LedgerInv, n
    <3> QED
      BY <1>1, <1>6, <2>2, <3>1 DEF PreparedInv
  <2> QED
    BY <2>1, <2>2 DEF PreparedInv
<1>8. NoLostUpdate'
  <2> SUFFICES ASSUME NEW i \in 1..(n + 1), ledger'[i].by # 0, ledger'[i].takes # 0,
                      ledger'[i].list \notin split', ledger'[i].list # "profile"
               PROVE  ledger'[i].content =
                          [ledger'[ledger'[i].takes].content EXCEPT ![ledger'[i].entry] = ledger'[i].value]
    <3>1. DOMAIN ledger' = 1..(n + 1)
      <4>1. ledger' \in Seq(OutputType)
        <5>1. takes \in Nat
          BY <1>1, <1>3
        <5> QED
          BY <1>1, <5>1, LedgerAfter
      <4> QED
        BY <1>2, <4>1, LenProperties
    <3> QED
      BY <3>1 DEF NoLostUpdate
  <2>1. CASE i \in 1..n
    <3>1. ledger[i].takes \in 1..n
      <4>1. ledger[i] \in OutputType /\ ledger[i].takes < i
        BY <1>1, <2>1 DEF LedgerInv, n
      <4> QED
        BY <1>1, <1>2, <2>1, <4>1 DEF OutputType
    <3>2. ledger[i].content = [ledger[ledger[i].takes].content EXCEPT ![ledger[i].entry] = ledger[i].value]
      BY <1>1, <1>2, <1>4, <2>1 DEF NoLostUpdate
    <3> QED
      BY <1>2, <2>1, <3>1, <3>2
  <2>2. CASE i = n + 1
    <3> DEFINE o == [list |-> l, content |-> content, takes |-> takes, by |-> by,
                     entry |-> e, value |-> value, spent |-> FALSE]
    <3>1. ledger'[i] = o
      <4>1. takes \in Nat
        BY <1>1, <1>3
      <4> QED
        BY <1>1, <2>2, <4>1, LedgerAfter DEF n
    <3>2. /\ o.content = content /\ o.takes = takes /\ o.by = by /\ o.entry = e /\ o.value = value
          /\ o.list = l
      OBVIOUS
    <3> HIDE DEF o
    <3>3. by # 0 /\ takes \in Unspent(l) /\ l \notin split
      BY <1>4, <3>1, <3>2
    <3>4. ledger'[takes].content = ledger[takes].content
      BY <1>2, <1>3, <3>3
    <3> QED
      BY <3>1, <3>2, <3>3, <3>4
  <2> QED
    BY <1>1, <2>1, <2>2
<1> QED
  BY <1>5, <1>7, <1>8

\* A step that leaves the ledger alone prepares nothing but what it should.
LEMMA UpdateFrame ==
    ASSUME UpdateInv, UNCHANGED <<ledger, split>>,
           \A c \in Ids : calls'[c] = calls[c],
           \A d \in doing' : \/ d \in doing
                             \/ d.step # "submit"
                             \/ d.call \in Ids /\ Prepared(d.call, d.takes, d.content),
           \A tx \in txs' : \/ tx \in txs
                            \/ tx.call \in Ids /\ (\/ calls[tx.call].op = "send"
                                                   \/ Prepared(tx.call, tx.takes, tx.content))
    PROVE  NewestInv' /\ PreparedInv' /\ NoLostUpdate'
<1>1. CallInv /\ LoopInv /\ LedgerInv /\ NewestInv /\ PreparedInv /\ NoLostUpdate
  BY DEF UpdateInv, TypeInv
<1>2. \A k : Outputs(k)' = Outputs(k) /\ Unspent(k)' = Unspent(k)
  BY DEF Outputs, Unspent
<1>3. NewestInv' /\ NoLostUpdate'
  BY <1>1, <1>2 DEF NewestInv, NoLostUpdate
<1>4. ASSUME NEW c \in Ids, NEW t, NEW new, Prepared(c, t, new)
      PROVE  Prepared(c, t, new)'
  BY <1>2, <1>4 DEF Prepared, EntryOf
<1>5. ASSUME NEW d \in Doing("submit")'
      PROVE  Prepared(d.call, d.takes, d.content)'
  BY <1>1, <1>4, <1>5 DEF Doing, PreparedInv, LoopInv
<1>6. ASSUME NEW tx \in txs', calls'[tx.call].op # "send"
      PROVE  Prepared(tx.call, tx.takes, tx.content)'
  BY <1>1, <1>4, <1>6 DEF PreparedInv, LedgerInv
<1> QED
  BY <1>3, <1>5, <1>6 DEF PreparedInv

\* The list that is read is the one of the output that was read before, if
\* that can still be taken.
LEMMA ReadPrepares ==
    ASSUME UpdateInv, NEW d \in doing, ReadList(d), NEW e \in doing', e.step = "submit"
    PROVE  e.call \in Ids /\ Prepared(e.call, e.takes, e.content)
<1> DEFINE l == ListOf[OpOf(d)]
           new == [Known(l) EXCEPT ![EntryOf(d.call)] = calls[d.call].value]
<1>1. TypeInv /\ LedgerInv /\ NewestInv
  BY DEF UpdateInv, TypeInv
<1>2. d \in CommandType /\ d.call \in Ids /\ d.step = "list" /\ l \in Lists
  <2>1. d \in CommandType /\ d.call \in Ids /\ calls[d.call] \in CallType
    BY <1>1, DoingFacts
  <2>2. d.step = "list"
    BY DEF ReadList, Doing
  <2>3. calls[d.call].op # "send"
    BY <1>1, <2>2, DoingFacts
  <2> QED
    BY <2>1, <2>2, <2>3, OpsFacts DEF CallType, OpOf
<1>3. doing' \in {{}, {[d EXCEPT !.step = "map"]}, {[d EXCEPT !.step = "submit", !.content = new]}}
  BY DEF ReadList
<1>4. e = [d EXCEPT !.step = "submit", !.content = new]
  <2>1. [d EXCEPT !.step = "map"].step = "map"
    BY <1>2 DEF CommandType
  <2> HIDE DEF new
  <2> QED
    BY <1>3, <2>1
<1>5. e.call = d.call /\ e.takes = d.takes /\ e.content = new
  <2> HIDE DEF new
  <2> QED
    BY <1>2, <1>4 DEF CommandType
<1>6. ASSUME d.takes \in Unspent(l), l \notin split
      PROVE  Known(l) = ledger[d.takes].content
  <2>1. d.takes \in Outputs(l) /\ \A j \in Outputs(l) : j <= d.takes
    BY <1>1, <1>2, <1>6, OutputFacts DEF NewestInv
  <2> QED
    BY <1>1, <2>1, KnownFacts
<1> QED
  BY <1>2, <1>5, <1>6 DEF Prepared, OpOf

LEMMA UpdateStep ==
    ASSUME UpdateInv, [Next]_vars
    PROVE  NewestInv' /\ PreparedInv' /\ NoLostUpdate'
<1> DEFINE Goal == NewestInv' /\ PreparedInv' /\ NoLostUpdate'
<1>0. TypeInv /\ CallInv /\ LoopInv /\ LedgerInv /\ PreparedInv
  BY DEF UpdateInv, TypeInv
<1> HIDE DEF Goal
<1>1. ASSUME NEW op \in left.ops, NEW e \in left.entries, NEW v \in Values, Call(op, e, v)
      PROVE  Goal
  <2>1. \A c \in Ids : calls'[c] = calls[c]
    <3> DEFINE cmd == [op |-> op, entry |-> e, value |-> v]
    <3>1. calls \in Seq(CallType) /\ cmd \in CallType /\ calls' = Append(calls, cmd)
      BY <1>0, <1>1 DEF CallInv, CallType, BoundType, Call
    <3> HIDE DEF cmd
    <3> QED
      BY <3>1, AppendFacts DEF Ids
  <2>2. UNCHANGED <<ledger, split, doing, txs>>
    BY <1>1 DEF Call, ledgerVars
  <2> QED
    BY <2>1, <2>2, UpdateFrame DEF Goal
<1>2. ASSUME Begin
      PROVE  Goal
  <2>1. UNCHANGED <<calls, ledger, split, txs>>
    BY <1>2 DEF Begin, ledgerVars
  <2>2. \A d \in doing' : d.step # "submit"
    BY <1>2 DEF Begin, BeginJoin, Finish
  <2> QED
    BY <2>1, <2>2, UpdateFrame DEF Goal
<1>3. ASSUME NEW d \in doing, ReadOutput(d) \/ UpdateMuteMap(d) \/ MapMissing(d) \/ ShowMessage(d)
                              \/ CommandFails(d) \/ SendFails(d)
      PROVE  Goal
  <2>1. UNCHANGED <<calls, ledger, split, txs>>
    BY <1>3 DEF ReadOutput, UpdateMuteMap, MapMissing, ShowMessage, CommandFails, SendFails,
                callVars, ledgerVars
  <2>2. ASSUME NEW x \in doing'
        PROVE  x.step # "submit"
    <3>1. d \in CommandType
      BY <1>0, DoingFacts
    <3>2. CASE ReadOutput(d)
      <4>1. PICK i : x = [d EXCEPT !.step = "list", !.takes = i]
        BY <3>2 DEF ReadOutput
      <4> QED
        BY <3>1, <4>1 DEF CommandType
    <3>3. CASE ShowMessage(d)
      <4>1. x = [d EXCEPT !.step = "shown"]
        BY <3>3 DEF ShowMessage
      <4> QED
        BY <3>1, <4>1 DEF CommandType
    <3> QED
      BY <1>3, <3>2, <3>3 DEF UpdateMuteMap, MapMissing, CommandFails, SendFails, Finish
  <2> QED
    BY <2>1, <2>2, UpdateFrame DEF Goal
<1>4. ASSUME NEW d \in doing, ReadList(d)
      PROVE  Goal
  <2>1. UNCHANGED <<calls, ledger, split, txs>>
    BY <1>4 DEF ReadList, ledgerVars
  <2>2. \A e \in doing' : e.step # "submit" \/ (e.call \in Ids /\ Prepared(e.call, e.takes, e.content))
    BY <1>4, ReadPrepares
  <2> QED
    BY <2>1, <2>2, UpdateFrame DEF Goal
<1>5. ASSUME NEW d \in doing, Submit(d) \/ SendMessage(d)
      PROVE  Goal
  <2>1. UNCHANGED <<calls, ledger, split>>
    BY <1>5 DEF Submit, SendMessage, callVars
  <2>2. d \in CommandType /\ d.call \in Ids /\ (d.step \in {"sending", "sent", "shown"} <=> calls[d.call].op = "send")
    BY <1>0, DoingFacts
  <2>3. ASSUME NEW x \in doing'
        PROVE  x.step # "submit"
    <3>1. x \in {[d EXCEPT !.step = "map"], [d EXCEPT !.step = "sent"]}
      BY <1>5 DEF Submit, SendMessage
    <3> QED
      BY <2>2, <3>1 DEF CommandType
  <2>4. PICK t \in {0, d.takes} : Sent(d, t) /\ (calls[d.call].op = "send" \/ (t = d.takes /\ d.step = "submit"))
    BY <1>5, <2>2 DEF Submit, SendMessage, Doing
  <2>5. ASSUME NEW tx \in txs'
        PROVE  \/ tx \in txs
               \/ tx.call \in Ids /\ (calls[tx.call].op = "send" \/ Prepared(tx.call, tx.takes, tx.content))
    <3>1. CASE tx \notin txs
      <4>1. tx.call = d.call /\ tx.takes = t /\ tx.content = d.content
        BY <2>4, <3>1 DEF Sent
      <4> QED
        BY <1>0, <2>2, <2>4, <4>1 DEF PreparedInv, Doing
    <3> QED
      BY <3>1
  <2> QED
    BY <2>1, <2>3, <2>5, UpdateFrame DEF Goal
<1>6. ASSUME NEW tx \in txs, Confirm(tx)
      PROVE  Goal
  <2>1. UNCHANGED <<calls, doing>> /\ txs' \subseteq txs
    BY <1>6 DEF Confirm, callVars
  <2>2. CASE calls[tx.call].op = "send"
    <3>1. UNCHANGED <<ledger, split>>
      BY <1>6, <2>2 DEF Confirm
    <3> QED
      BY <2>1, <3>1, UpdateFrame DEF Goal
  <2>3. CASE calls[tx.call].op # "send"
    <3> DEFINE l == ListOf[calls[tx.call].op]
    <3>1. /\ tx.takes \in Unspent(l) \union {0}
          /\ Output(l, tx.content, tx.takes, tx.call, EntryOf(tx.call), calls[tx.call].value)
      BY <1>6, <2>3 DEF Confirm
    <3>2. tx.takes \in Unspent(l) /\ l \notin split =>
              tx.content = [ledger[tx.takes].content EXCEPT ![EntryOf(tx.call)] = calls[tx.call].value]
      BY <1>0, <2>3 DEF PreparedInv, Prepared
    <3>3. /\ tx.call \in Ids /\ tx.content \in ListType /\ calls[tx.call].value \in Values
          /\ EntryOf(tx.call) \in Entry /\ l \in Lists
      BY <1>0, <2>3, TxFacts DEF CallType
    <3> HIDE DEF l
    <3> QED
      BY <2>1, <3>1, <3>2, <3>3, OutputUpdates DEF Goal
  <2> QED
    BY <2>2, <2>3
<1>7. ASSUME NEW tx \in txs, Refuse(tx)
      PROVE  Goal
  <2>1. UNCHANGED <<calls, doing, ledger, split>> /\ txs' \subseteq txs
    BY <1>7 DEF Refuse
  <2> QED
    BY <2>1, UpdateFrame DEF Goal
<1>8. ASSUME NEW ev \in events, Deliver(ev) \/ DeliverFails(ev)
      PROVE  Goal
  <2>1. UNCHANGED <<calls, doing, ledger, split, txs>>
    BY <1>8 DEF Deliver, DeliverFails
  <2> QED
    BY <2>1, UpdateFrame DEF Goal
<1>9. ASSUME EnsureMuteMap \/ \E e \in left.entries : RefreshMembers(e.group)
      PROVE  Goal
  <2>1. UNCHANGED <<calls, doing, ledger, split, txs>>
    BY <1>9 DEF EnsureMuteMap, RefreshMembers, callVars, ledgerVars
  <2> QED
    BY <2>1, UpdateFrame DEF Goal
<1>10. ASSUME NEW op \in left.ops, NEW e \in left.entries, NEW v \in Values,
              ListOf[op] # "none", Foreign(ListOf[op], e, v)
       PROVE  Goal
  <2> DEFINE l == ListOf[op]
             content == [Known(l) EXCEPT ![e] = v]
  <2>1. l \in Lists /\ e \in Entry
    BY <1>0, <1>10, OpsFacts DEF CallInv, BoundType
  <2>2. content \in ListType
    BY <1>0, <2>1, KnownFacts DEF ListType
  <2>3. PICK i \in IF Unspent(l) = {} THEN {0} ELSE Unspent(l) : Output(l, content, i, 0, e, v)
    BY <1>10 DEF Foreign
  <2>4. UNCHANGED <<calls, doing>> /\ txs' \subseteq txs
    BY <1>10 DEF Foreign, callVars
  <2> HIDE DEF l, content
  <2>5. i \in Unspent(l) \union {0}
    BY <2>3
  <2> QED
    BY <2>1, <2>2, <2>3, <2>4, <2>5, OutputUpdates DEF Goal
<1>11. CASE UNCHANGED vars
  <2>1. UNCHANGED <<calls, doing, ledger, split, txs>>
    BY <1>11 DEF vars
  <2> QED
    BY <2>1, UpdateFrame DEF Goal
<1> QED
  BY <1>1, <1>2, <1>3, <1>4, <1>5, <1>6, <1>7, <1>8, <1>9, <1>10, <1>11
  DEF Goal, Next, Work, Settle, Event

LEMMA UpdateInit ==
    ASSUME Init
    PROVE  UpdateInv
<1>1. TypeInv
  BY TypeInit
<1>2. PreparedInv
  BY DEF Init, PreparedInv, Doing
<1>3. CASE ledger = <<>>
  BY <1>1, <1>2, <1>3 DEF UpdateInv, NewestInv, NoLostUpdate, Outputs
<1>4. ASSUME NEW o \in OutputType, ledger = <<o>>, o.takes = 0, o.by = 0
      PROVE  NewestInv /\ NoLostUpdate
  <2>1. DOMAIN <<o>> = {1} /\ <<o>>[1] = o
    OBVIOUS
  <2> HIDE DEF OutputType
  <2>2. NewestInv
    BY <1>4, <2>1 DEF NewestInv, Outputs, Unspent
  <2>3. NoLostUpdate
    BY <1>4, <2>1 DEF NoLostUpdate
  <2> QED
    BY <2>2, <2>3
<1> QED
  BY <1>1, <1>2, <1>3, <1>4, InitFacts DEF UpdateInv

\* A list on the ledger that took the place of another is that one with the
\* command of its call applied, unless two outputs held the list at once.
THEOREM NoUpdateLost == Spec => []NoLostUpdate
<1>1. Init => UpdateInv
  BY UpdateInit
<1>2. UpdateInv /\ [Next]_vars => UpdateInv'
  BY TypeStep, UpdateStep DEF UpdateInv
<1>3. UpdateInv => NoLostUpdate
  BY DEF UpdateInv
<1> QED
  BY <1>1, <1>2, <1>3, PTL DEF Spec

-----------------------------------------------------------------------------
(* The call of a vote or of a message is answered by its own command.      *)

LEMMA OwnFacts ==
    ASSUME CallInv, NEW c \in Ids
    PROVE  /\ Own(c) <=> FieldOf[calls[c].op] \in {"vote", "send"}
           /\ calls[c].op = "send" <=> FieldOf[calls[c].op] = "send"
           /\ calls[c].op \in {"vote", "unvote"} <=> FieldOf[calls[c].op] = "vote"
<1>1. calls[c].op \in Ops
  BY CallFacts DEF CallType
<1> QED
  BY <1>1, OpsFacts DEF Own

LEMMA AnsweringFacts ==
    ASSUME TypeInv
    PROVE  Answering \subseteq Ids /\ listeners \subseteq Ids
BY DEF Answering, TypeInv, LoopInv, CallInv

\* A step of the loop that answers nobody.
LEMMA ListenFrame ==
    ASSUME AnswerInv, UNCHANGED <<calls, field, answer, crowded, listeners>>, Answering' \subseteq Answering
    PROVE  ListenInv' /\ OwnAnswer'
<1>1. ListenInv /\ OwnAnswer
  BY DEF AnswerInv
<1>2. \A c : Own(c)' <=> Own(c)
  BY DEF Own
<1>3. ListenInv'
  BY <1>1, <1>2 DEF ListenInv
<1>4. OwnAnswer'
  BY <1>1 DEF OwnAnswer
<1> QED
  BY <1>3, <1>4

LEMMA StaysAnswering ==
    ASSUME NEW d \in doing, d.step # "shown", channel' = channel, \A e \in doing' : e.call = d.call
    PROVE  Answering' \subseteq Answering
BY DEF Answering

\* The command d answers: the calls that wait for it are crowded, but for
\* its own.
LEMMA AnsweredCrowded ==
    ASSUME AnswerInv, NEW d \in doing, d.step # "shown", Own(d.call),
           NEW c \in Answering \union listeners, FieldOf[calls[c].op] = FieldOf[calls[d.call].op]
    PROVE  c = d.call \/ c \in crowded
<1>1. d.call \in Answering /\ d.call \in Ids /\ c \in Ids
  BY DoingFacts, AnsweringFacts DEF Answering, AnswerInv
<1>2. Own(c)
  BY <1>1, OwnFacts DEF AnswerInv, TypeInv
<1> QED
  BY <1>1, <1>2 DEF AnswerInv, ListenInv

\* It is done then, and no other is about to answer.
LEMMA AnsweringAfter ==
    ASSUME AnswerInv, NEW d \in doing, channel' = channel,
           doing' = {} \/ \A e \in doing' : e.step = "shown"
    PROVE  Answering' \subseteq Answering \ {d.call}
BY DEF Answering, AnswerInv, TypeInv, LoopInv

LEMMA AnswerStep ==
    ASSUME AnswerInv, NEW d \in doing, d.step # "shown", Own(d.call),
           NEW off, NEW match, match \subseteq listeners,
           \A c \in match \union off : FieldOf[calls[c].op] = FieldOf[calls[d.call].op],
           UNCHANGED <<calls, field, crowded>>, listeners' = listeners \ off,
           \A c \in Ids : answer'[c] = answer[c] \/ (c \in match /\ answer'[c] = d.call),
           Answering' \subseteq Answering \ {d.call}
    PROVE  ListenInv' /\ OwnAnswer'
<1>1. ListenInv /\ OwnAnswer /\ TypeInv /\ CallInv
  BY DEF AnswerInv, TypeInv
<1>2. \A c : Own(c)' <=> Own(c)
  BY DEF Own
<1>3. ASSUME NEW c \in Answering', Own(c)
      PROVE  c \in listeners' \union crowded
  <2>1. CASE c \in off
    BY <1>3, <2>1, AnsweredCrowded
  <2> QED
    BY <1>1, <1>3, <2>1 DEF ListenInv
<1>4. ListenInv'
  BY <1>1, <1>2, <1>3 DEF ListenInv
<1>5. OwnAnswer'
  <2> SUFFICES ASSUME NEW c \in Ids, Own(c), answer'[c] # None
               PROVE  answer'[c] = c \/ c \in crowded
    BY <1>1, AnswerFacts DEF OwnAnswer, Own
  <2>1. CASE c \in match /\ answer'[c] = d.call
    BY <2>1, AnsweredCrowded
  <2>2. CASE answer'[c] = answer[c]
    BY <1>1, <2>2, AnswerFacts DEF OwnAnswer, Own
  <2> QED
    BY <2>1, <2>2
<1> QED
  BY <1>4, <1>5

LEMMA CallListens ==
    ASSUME AnswerInv, NEW op \in left.ops, NEW e \in left.entries, NEW v \in Values, Call(op, e, v)
    PROVE  ListenInv' /\ OwnAnswer'
<1> DEFINE n == Len(calls) + 1
           f == FieldOf[op]
           cmd == [op |-> op, entry |-> e, value |-> v]
           late == {channel[k] : k \in DOMAIN channel} \union {d.call : d \in doing}
           others == {d \in listeners \union (late \intersect crowded) : FieldOf[calls[d].op] = f}
<1>1. /\ ListenInv /\ OwnAnswer /\ TypeInv /\ CallInv /\ LoopInv
      /\ Len(calls) \in Nat /\ op \in Ops /\ cmd \in CallType
  BY DEF AnswerInv, TypeInv, CallInv, BoundType, CallType
<1>2. /\ \A c \in Ids : calls'[c] = calls[c] /\ answer'[c] = answer[c]
      /\ calls'[n].op = op /\ answer'[n] = None /\ DOMAIN calls' = Ids \union {n} /\ n \notin Ids
  <2>1. calls \in Seq(CallType) /\ calls' = Append(calls, cmd) /\ cmd.op = op
    BY <1>1 DEF CallInv, Call
  <2>2. answer \in Seq(Ids \union {0, None}) /\ answer' = Append(answer, None) /\ Len(answer) = Len(calls)
    BY <1>1 DEF CallInv, Call
  <2> HIDE DEF cmd
  <2>3. \A c \in Ids : calls'[c] = calls[c] /\ answer'[c] = answer[c]
    BY <1>1, <2>1, <2>2, AppendFacts DEF Ids
  <2>4. calls'[n] = cmd /\ answer'[n] = None /\ Len(calls') = n /\ calls' \in Seq(CallType)
    BY <1>1, <2>1, <2>2, AppendFacts
  <2>5. DOMAIN calls' = 1..n
    BY <2>4, LenProperties
  <2> QED
    BY <1>1, <2>1, <2>3, <2>4, <2>5 DEF Ids
<1>3. /\ Answering' = Answering \union {n} /\ Answering \subseteq late
  <2>1. channel \in Seq(Nat) /\ channel' = Append(channel, n) /\ doing' = doing
    BY <1>1 DEF Call, LoopInv
  <2>2. /\ Len(channel) \in Nat /\ DOMAIN channel = 1..Len(channel) /\ Len(channel') = Len(channel) + 1
        /\ \A k \in 1..Len(channel) : channel'[k] = channel[k]
        /\ channel'[Len(channel) + 1] = n
    BY <1>1, <2>1, AppendFacts, LenProperties
  <2> HIDE DEF n
  <2>3. \A k : k \in 1..Len(channel') <=> k \in 1..Len(channel) \/ k = Len(channel) + 1
    BY <2>2
  <2>4. {channel'[k] : k \in 1..Len(channel')} = {channel[k] : k \in 1..Len(channel)} \union {n}
    BY <2>2, <2>3
  <2> QED
    BY <2>1, <2>2, <2>4 DEF Answering
<1>4. /\ listeners' = IF f = "none" THEN listeners ELSE listeners \union {n}
      /\ field' = IF f = "none" THEN field ELSE [field EXCEPT ![f] = n]
      /\ crowded' = IF others = {} THEN crowded ELSE crowded \union others \union {n}
  BY DEF Call
<1> HIDE DEF n, cmd, late, others
<1>5. Answering \subseteq Ids /\ listeners \subseteq Ids /\ crowded \subseteq crowded'
  BY <1>1, <1>4, AnsweringFacts
<1>6. \A c \in Ids : /\ Own(c)' <=> Own(c)
                     /\ FieldOf[calls'[c].op] = FieldOf[calls[c].op]
  BY <1>2 DEF Own
<1>7. /\ calls'[n].op \in {"vote", "unvote", "send"} <=> f \in {"vote", "send"}
      /\ FieldOf[calls'[n].op] = f
  BY <1>1, <1>2, OpsFacts
\* Whoever could answer the new call, or be answered by it, is crowded now.
<1>8. ASSUME NEW c \in Answering \union listeners, FieldOf[calls[c].op] = f, f \in {"vote", "send"}
      PROVE  c \in crowded' /\ n \in crowded'
  <2>1. c \in listeners \/ (c \in late /\ c \in crowded)
    BY <1>1, <1>3, <1>5, <1>8, OwnFacts DEF ListenInv
  <2>2. c \in others
    BY <1>8, <2>1 DEF others
  <2> QED
    BY <1>4, <2>2
<1>9. ListenInv'
  <2>1. ASSUME NEW g \in Fields, field'[g] # 0
        PROVE  FieldOf[calls'[field'[g]].op] = g
    <3>1. CASE f # "none" /\ g = f
      <4>1. field'[g] = n
        BY <1>1, <1>4, <3>1 DEF CallInv
      <4> QED
        BY <1>7, <3>1, <4>1
    <3>2. CASE ~(f # "none" /\ g = f)
      <4>1. field'[g] = field[g] /\ field[g] \in Ids \union {0}
        BY <1>1, <1>4, <3>2 DEF CallInv
      <4> QED
        BY <1>1, <1>6, <2>1, <4>1 DEF ListenInv
    <3> QED
      BY <3>1, <3>2
  <2>2. ASSUME NEW c \in Answering', Own(c)'
        PROVE  c \in listeners' \union crowded'
    <3>1. CASE c = n
      BY <1>4, <1>7, <2>2, <3>1 DEF Own
    <3>2. CASE c # n
      <4>1. c \in listeners \union crowded
        BY <1>1, <1>3, <1>5, <1>6, <2>2, <3>2 DEF ListenInv
      <4> QED
        BY <1>4, <1>5, <4>1
    <3> QED
      BY <3>1, <3>2
  <2>3. ASSUME NEW c \in Answering' \union listeners', NEW d \in Answering' \union listeners',
               c # d, Own(c)', FieldOf[calls'[c].op] = FieldOf[calls'[d].op]
        PROVE  c \in crowded'
    <3>1. /\ c \in Answering \union listeners \union {n}
          /\ d \in Answering \union listeners \union {n}
      BY <1>3, <1>4
    <3>2. CASE c = n
      <4>1. d \in Answering \union listeners /\ d \in Ids
        BY <1>5, <2>3, <3>1, <3>2
      <4>2. FieldOf[calls[d].op] = f /\ f \in {"vote", "send"}
        BY <1>6, <1>7, <2>3, <3>2, <4>1 DEF Own
      <4> QED
        BY <1>8, <3>2, <4>1, <4>2
    <3>3. CASE c # n /\ d = n
      <4>1. c \in Answering \union listeners /\ c \in Ids
        BY <1>5, <3>1, <3>3
      <4>2. FieldOf[calls[c].op] = f /\ f \in {"vote", "send"}
        BY <1>1, <1>6, <1>7, <2>3, <3>3, <4>1, OwnFacts
      <4> QED
        BY <1>8, <4>1, <4>2
    <3>4. CASE c # n /\ d # n
      <4>1. c \in Answering \union listeners /\ d \in Answering \union listeners /\ c \in Ids /\ d \in Ids
        BY <1>5, <3>1, <3>4
      <4> QED
        BY <1>1, <1>5, <1>6, <2>3, <4>1 DEF ListenInv
    <3> QED
      BY <3>2, <3>3, <3>4
  <2> QED
    BY <2>1, <2>2, <2>3 DEF ListenInv
<1>10. OwnAnswer'
  <2> SUFFICES ASSUME NEW c \in Ids \union {n}, Own(c)', answer'[c] # None
               PROVE  answer'[c] = c \/ c \in crowded'
    BY <1>2 DEF OwnAnswer, Own
  <2>1. c \in Ids
    BY <1>2
  <2> QED
    BY <1>1, <1>2, <1>5, <1>6, <2>1, AnswerFacts DEF OwnAnswer, Own
<1> QED
  BY <1>9, <1>10

LEMMA ListenStep ==
    ASSUME AnswerInv, [Next]_vars
    PROVE  ListenInv' /\ OwnAnswer'
<1> DEFINE Goal == ListenInv' /\ OwnAnswer'
<1>0. TypeInv /\ CallInv /\ LoopInv /\ LedgerInv /\ ListenInv
  BY DEF AnswerInv, TypeInv
<1> HIDE DEF Goal
<1>1. ASSUME NEW op \in left.ops, NEW e \in left.entries, NEW v \in Values, Call(op, e, v)
      PROVE  Goal
  BY <1>1, CallListens DEF Goal
<1>2. ASSUME Begin
      PROVE  Goal
  <2>1. UNCHANGED <<calls, field, answer, crowded, listeners>>
    BY <1>2 DEF Begin
  <2>2. Answering' \subseteq Answering
    <3>1. channel \in Seq(Nat) /\ channel # <<>> /\ channel' = Tail(channel)
      BY <1>0, <1>2 DEF Begin, LoopInv
    <3>2. /\ Len(channel) \in Nat \ {0} /\ Len(channel') = Len(channel) - 1
          /\ \A k \in 1..Len(channel') : channel'[k] = channel[k + 1]
          /\ Head(channel) = channel[1]
      BY <3>1, HeadTailProperties
    <3>3. \A k \in 1..Len(channel') : k + 1 \in 1..Len(channel) /\ channel'[k] = channel[k + 1]
      BY <3>2
    <3>4. \A e \in doing' : e.call = channel[1]
      BY <1>2, <3>2 DEF Begin, BeginJoin, Finish
    <3>5. 1 \in 1..Len(channel)
      BY <3>2
    <3> QED
      BY <3>3, <3>4, <3>5 DEF Answering
  <2> QED
    BY <2>1, <2>2, ListenFrame DEF Goal
<1>3. ASSUME NEW d \in doing, ReadOutput(d) \/ ReadList(d) \/ SendMessage(d)
      PROVE  Goal
  <2>1. UNCHANGED <<calls, field, answer, crowded, listeners, channel>>
    BY <1>3 DEF ReadOutput, ReadList, SendMessage, callVars
  <2>2. d \in CommandType
    BY <1>0, DoingFacts
  <2>3. \A e \in doing' : e.call = d.call
    <3>1. \A e \in doing' : \/ \E i : e = [d EXCEPT !.step = "list", !.takes = i]
                            \/ \E new : e = [d EXCEPT !.step = "submit", !.content = new]
                            \/ e = [d EXCEPT !.step = "map"]
                            \/ e = [d EXCEPT !.step = "sent"]
      BY <1>3 DEF ReadOutput, ReadList, SendMessage
    <3> QED
      BY <2>2, <3>1 DEF CommandType
  <2>4. CASE d.step # "shown"
    BY <2>1, <2>3, <2>4, StaysAnswering, ListenFrame DEF Goal
  <2>5. CASE d.step = "shown"
    <3>1. doing' = {}
      BY <1>3, <2>5 DEF ReadOutput, ReadList, SendMessage, Doing
    <3>2. Answering' \subseteq Answering
      BY <2>1, <3>1 DEF Answering
    <3> QED
      BY <2>1, <3>2, ListenFrame DEF Goal
  <2> QED
    BY <2>4, <2>5
<1>4. ASSUME NEW d \in doing, UpdateMuteMap(d) \/ MapMissing(d) \/ CommandFails(d) \/ SendFails(d)
      PROVE  Goal
  <2>1. UNCHANGED <<calls, field, answer, crowded, listeners, channel>> /\ doing' = {}
    BY <1>4 DEF UpdateMuteMap, MapMissing, CommandFails, SendFails, callVars, Finish
  <2>2. Answering' \subseteq Answering
    BY <2>1 DEF Answering
  <2> QED
    BY <2>1, <2>2, ListenFrame DEF Goal
<1>5. ASSUME NEW d \in doing, Submit(d)
      PROVE  Goal
  <2>1. d.step = "submit" /\ UNCHANGED <<calls, field, crowded, channel>> /\ d.call \in Ids /\ d \in CommandType
    BY <1>0, <1>5, DoingFacts DEF Submit, Doing
  <2>2. CASE calls[d.call].op \in {"vote", "unvote"}
    <3> DEFINE match == {c \in listeners : FieldOf[calls[c].op] = "vote"
                                        /\ calls[c].entry.group = calls[d.call].entry.group}
               off == IF match = {} THEN {} ELSE {field["vote"]} \intersect listeners
    <3>1. Own(d.call) /\ FieldOf[calls[d.call].op] = "vote" /\ doing' = {}
      BY <1>0, <1>5, <2>1, <2>2, OwnFacts DEF Own, Submit, OpOf
    <3>2. VoteSent(d.call)
      BY <1>5, <2>2 DEF Submit, OpOf
    <3>3. listeners' = listeners \ off
      BY <3>2 DEF VoteSent, Emit
    <3>4. \A c \in Ids : answer'[c] = answer[c] \/ (c \in match /\ answer'[c] = d.call)
      BY <1>0, <3>2, AnswerFacts DEF VoteSent, Emit
    <3>5. \A c \in match \union off : FieldOf[calls[c].op] = FieldOf[calls[d.call].op]
      <4>1. ASSUME NEW c \in off
            PROVE  FieldOf[calls[c].op] = "vote"
        <5>1. c = field["vote"] /\ c \in Ids /\ c # 0 /\ "vote" \in Fields
          BY <1>0, AnsweringFacts DEF Fields, Ids
        <5> QED
          BY <1>0, <5>1 DEF ListenInv
      <4> QED
        BY <3>1, <4>1
    <3>6. Answering' \subseteq Answering \ {d.call}
      BY <2>1, <3>1, AnsweringAfter
    <3>7. match \subseteq listeners
      OBVIOUS
    <3> HIDE DEF match, off
    <3> QED
      BY <2>1, <3>1, <3>3, <3>4, <3>5, <3>6, <3>7, AnswerStep DEF Goal
  <2>3. CASE calls[d.call].op \notin {"vote", "unvote"}
    <3>1. UNCHANGED <<answer, listeners>>
      BY <1>5, <2>3 DEF Submit, OpOf
    <3>2. \A e \in doing' : e.call = d.call
      <4>1. \A e \in doing' : e = [d EXCEPT !.step = "map"]
        BY <1>5 DEF Submit
      <4> QED
        BY <2>1, <4>1 DEF CommandType
    <3> QED
      BY <2>1, <3>1, <3>2, StaysAnswering, ListenFrame DEF Goal
  <2> QED
    BY <2>2, <2>3
<1>6. ASSUME NEW d \in doing, ShowMessage(d)
      PROVE  Goal
  <2> DEFINE open == {c \in listeners : calls[c].op = "send"}
  <2>1. /\ d.step \in {"sending", "sent"} /\ UNCHANGED <<calls, field, crowded, channel>> /\ d.call \in Ids
        /\ d \in CommandType /\ calls[d.call].op = "send"
    BY <1>0, <1>6, DoingFacts DEF ShowMessage, Doing
  <2>2. Own(d.call) /\ FieldOf[calls[d.call].op] = "send"
    BY <1>0, <2>1, OwnFacts DEF Own
  <2>3. doing' = {} \/ \A e \in doing' : e.step = "shown"
    BY <1>6, <2>1 DEF ShowMessage, CommandType
  <2>4. Answering' \subseteq Answering \ {d.call}
    BY <2>1, <2>3, AnsweringAfter
  <2>5. \A c \in Ids : answer'[c] = answer[c] \/ (c \in open /\ answer'[c] = d.call)
    BY <1>0, <1>6, AnswerFacts DEF ShowMessage, Show
  <2>6. listeners' = listeners \ open /\ open \subseteq listeners
    BY <1>6 DEF ShowMessage, Show
  <2>7. \A c \in open : FieldOf[calls[c].op] = FieldOf[calls[d.call].op]
    BY <1>0, <2>2, AnsweringFacts, OwnFacts
  <2> HIDE DEF open
  <2> QED
    BY <2>1, <2>2, <2>4, <2>5, <2>6, <2>7, AnswerStep DEF Goal
<1>7. ASSUME NEW ev \in events, Deliver(ev)
      PROVE  Goal
  <2> DEFINE match == {c \in listeners : FieldOf[calls[c].op] = ev.field
                           /\ calls[c].entry.group = ev.group /\ calls[c].value = ev.value}
  <2>1. UNCHANGED <<calls, field, crowded, channel, doing>> /\ Emit(ev.field, match, ev.by)
    BY <1>7 DEF Deliver
  <2>2. ev.field \in {"mark", "member", "mute", "like"}
    BY <1>0 DEF LedgerInv
  <2>3. \A c \in match : ~Own(c)
    BY <1>0, <2>2, AnsweringFacts, OwnFacts
  <2>4. \A c \in listeners \ listeners' : ~Own(c)
    <3>1. ASSUME NEW c \in listeners \ listeners'
          PROVE  FieldOf[calls[c].op] = ev.field
      <4>1. c = field[ev.field] /\ c # 0 /\ ev.field \in Fields
        BY <1>0, <2>1, <2>2, <3>1, AnsweringFacts DEF Emit, Ids, Fields
      <4> QED
        BY <1>0, <4>1 DEF ListenInv
    <3> QED
      BY <1>0, <2>2, <3>1, AnsweringFacts, OwnFacts
  <2>5. listeners' \subseteq listeners /\ \A c \in Ids : answer'[c] = answer[c] \/ c \in match
    BY <1>0, <2>1, AnswerFacts DEF Emit
  <2> HIDE DEF match
  <2>6. Answering' = Answering
    BY <2>1 DEF Answering
  <2>7. \A c : Own(c)' <=> Own(c)
    BY <2>1 DEF Own
  <2>8. ListenInv'
    BY <1>0, <2>1, <2>4, <2>5, <2>6, <2>7 DEF ListenInv
  <2>9. OwnAnswer'
    BY <1>0, <2>1, <2>3, <2>5, AnswerFacts DEF OwnAnswer, AnswerInv, Own
  <2> QED
    BY <2>8, <2>9 DEF Goal
<1>8. ASSUME UNCHANGED <<calls, field, answer, crowded, listeners, channel, doing>>
      PROVE  Goal
  <2>1. Answering' = Answering
    BY <1>8 DEF Answering
  <2> QED
    BY <1>8, <2>1, ListenFrame DEF Goal
<1>9. ASSUME NEW tx \in txs, Confirm(tx) \/ Refuse(tx)
      PROVE  Goal
  BY <1>8, <1>9 DEF Confirm, Refuse, callVars
<1>10. ASSUME NEW ev \in events, DeliverFails(ev)
       PROVE  Goal
  BY <1>8, <1>10 DEF DeliverFails
<1>11. ASSUME EnsureMuteMap \/ \E e \in left.entries : RefreshMembers(e.group)
       PROVE  Goal
  BY <1>8, <1>11 DEF EnsureMuteMap, RefreshMembers, callVars
<1>12. ASSUME NEW op \in left.ops, NEW e \in left.entries, NEW v \in Values, Foreign(ListOf[op], e, v)
       PROVE  Goal
  BY <1>8, <1>12 DEF Foreign, callVars
<1>13. ASSUME UNCHANGED vars
       PROVE  Goal
  BY <1>8, <1>13 DEF vars
<1> QED
  BY <1>1, <1>2, <1>3, <1>4, <1>5, <1>6, <1>7, <1>9, <1>10, <1>11, <1>12, <1>13
  DEF Goal, Next, Work, Settle, Event

\* The call of a vote or of a message is answered by its own command unless
\* another such call waited at the same time, or had and was still to run.
THEOREM AnsweredByOwn == Spec => []OwnAnswer
<1>1. Init => AnswerInv
  <2> SUFFICES ASSUME Init
               PROVE  AnswerInv
    OBVIOUS
  <2>1. TypeInv
    BY TypeInit
  <2>2. ListenInv /\ OwnAnswer
    BY DEF Init, ListenInv, OwnAnswer, Answering
  <2> QED
    BY <2>1, <2>2 DEF AnswerInv
<1>2. AnswerInv /\ [Next]_vars => AnswerInv'
  BY TypeStep, ListenStep DEF AnswerInv
<1>3. AnswerInv => OwnAnswer
  BY DEF AnswerInv
<1> QED
  BY <1>1, <1>2, <1>3, PTL DEF Spec
=============================================================================
