---------------------------- MODULE Conversation ----------------------------
(***************************************************************************)
(* ConversationDomain: the messages of a group as a chain of chunks, each  *)
(* under a key of its own in local storage.  New messages enter the chunk  *)
(* under HeadKey by time; when it is long, its oldest part is split off.   *)
(*                                                                         *)
(* One group.  The key of a split chunk is the hash of its content: the    *)
(* sequence of its messages stands for it, and the empty one for HeadKey.  *)
(* The keys headKey and tailKey may be undefined: they are sets of at most *)
(* one key.                                                                *)
(***************************************************************************)
EXTENDS MessageHub

CONSTANTS
    Time,       \* the timestamp of a message
    ChunkSize,  \* ConversationGroupMessageListChunkSize
    SplitThreshold, \* ConversationGroupMessageListChunkSplitThreshold
    MaxSplits,  \* bound: TrySplit commands waiting
    MaxReads,   \* bound: reads of a chunk that is not cached
    MaxCloses   \* bound: times the page is closed

ASSUME SizeAssumption == ChunkSize \in 1..SplitThreshold /\ SplitThreshold \in Nat
ASSUME TimeAssumption == Time \in [Msg -> Nat]

VARIABLES
    convYields, \* the domain waits in sleepYield, or in the pause after a split
    convGoesOn, \* it polls again in the same turn of the event loop
    splits,     \* TrySplit commands in _cmdChannel
    cache,      \* chunks in the cache, by key
    disk,       \* chunks in local storage, by key
    read,       \* the read in flight: {} or what local storage answered
    inTurn,     \* history: splits since the loop last gave way
    harmed,     \* history: memory was lost before it was written
    torn,       \* history: memory was lost between the writes of two splits
    reads, closes   \* the counters of the bounds

convVars == <<convYields, convGoesOn, splits, cache, disk, read, inTurn, harmed, torn, reads, closes>>
vars == <<hubVars, convVars>>

HeadKey == <<>>
Empty   == [list |-> <<>>, headKey |-> {}, tailKey |-> {}]
NoChunks == [k \in {} |-> Empty]

\* What getGroupMessageList returns.
Chunk(k) ==
    IF k \in DOMAIN cache THEN cache[k]
    ELSE IF k \in DOMAIN disk THEN disk[k] ELSE Empty

\* The chunks after c is put under the key k.
Put(chunks, k, c) == [j \in DOMAIN chunks \union {k} |-> IF j = k THEN c ELSE chunks[j]]

ChunkWrite(k, c) == [kind |-> "chunk", key |-> k, chunk |-> c]
ConvWakes        == [kind |-> "conversation"]

\* A zero timer stores the object it was set with as it is when it fires.
\* The timers after the object of key k in the cache became c.
Changed(ts, k, c) ==
    [i \in DOMAIN ts |-> IF ts[i].kind = "chunk" /\ ts[i].key = k THEN ChunkWrite(k, c) ELSE ts[i]]

\* The timers after the objects of the keys ks left the cache: what they write
\* is changed no more.
Replaced(ts, ks) ==
    [i \in DOMAIN ts |-> IF ts[i].kind = "chunk" /\ ts[i].key \in ks THEN [ts[i] EXCEPT !.kind = "past"]
                         ELSE ts[i]]

Writes == {i \in DOMAIN timers : timers[i].kind \in {"chunk", "past"}}

Init ==
    /\ HubInit
    /\ convYields = FALSE /\ convGoesOn = FALSE /\ splits = 0
    /\ cache = NoChunks /\ disk = NoChunks
    /\ read = {} /\ inTurn = 0 /\ harmed = FALSE /\ torn = FALSE /\ reads = 0 /\ closes = 0

-----------------------------------------------------------------------------
(* poll: a message.                                                        *)

\* Before the first message that is not older.
Entered(list, m) ==
    LET later == {i \in 1..Len(list) : Time[m] <= Time[list[i]]}
    IN  IF later = {} THEN Append(list, m) ELSE InsertAt(list, Min(later), m)

Insert ==
    LET c == [Chunk(HeadKey) EXCEPT !.list = Entered(@, Head(toConv))]
    IN  /\ ~convYields /\ splits = 0 /\ toConv # <<>>
        /\ toConv' = Tail(toConv)
        /\ cache' = Put(cache, HeadKey, c)
        /\ convYields' = TRUE /\ convGoesOn' = FALSE
        /\ timers' = Changed(timers, HeadKey, c) \o <<ChunkWrite(HeadKey, c), ConvWakes>>
        /\ UNCHANGED <<out, hubYields, known, knownDisk, handed, hands, clears,
                       splits, disk, read, inTurn, harmed, torn, reads, closes>>

-----------------------------------------------------------------------------
(* poll: a TrySplit command.                                               *)

\* EventSourceDomain has stored its pending list and sends the command.
TrySplit ==
    /\ splits < MaxSplits
    /\ splits' = splits + 1
    /\ UNCHANGED <<hubVars, convYields, convGoesOn, cache, disk, read, inTurn, harmed, torn, reads, closes>>

\* A command is done and the writes ws are due.  The loop does not give way: it
\* polls again or, with nothing to poll, pauses for longer than they take.
Commanded(ts, ws) ==
    /\ splits' = splits - 1
    /\ IF splits > 1 \/ toConv # <<>>
       THEN convGoesOn' = TRUE /\ timers' = ts \o ws /\ UNCHANGED convYields
       ELSE convGoesOn' = FALSE /\ timers' = Append(ts \o ws, ConvWakes) /\ convYields' = TRUE
    /\ UNCHANGED <<out, hubYields, known, knownDisk, toConv, handed, hands, clears,
                   disk, read, harmed, torn, reads, closes>>

NoSplit ==
    /\ ~convYields /\ splits > 0
    /\ Len(Chunk(HeadKey).list) <= SplitThreshold
    /\ Commanded(timers, <<>>)
    /\ UNCHANGED <<cache, inTurn>>

\* Mutant: one message too many is cut off.
MutRest(old, key) ==
    [list |-> SubSeq(old.list, ChunkSize + 2, Len(old.list)), headKey |-> {}, tailKey |-> {key}]

\* What remains under HeadKey.
Rest(old, key) ==
    [list |-> SubSeq(old.list, ChunkSize + 1, Len(old.list)), headKey |-> {}, tailKey |-> {key}]

\* Mutant: the first chunk is stored before the part it refers to.
MutSplitFirst ==
    LET old  == Chunk(HeadKey)
        key  == SubSeq(old.list, 1, ChunkSize)
        part == [list |-> key, headKey |-> {}, tailKey |-> {}]
        rest == Rest(old, key)
    IN  /\ ~convYields /\ splits > 0
        /\ Len(old.list) > SplitThreshold /\ old.tailKey = {}
        /\ cache' = Put(Put(cache, HeadKey, rest), key, part)
        /\ inTurn' = inTurn + 1
        /\ Commanded(Replaced(timers, {HeadKey, key}), <<ChunkWrite(HeadKey, rest), ChunkWrite(key, part)>>)

\* The first chunk is split for the first time.
SplitFirst ==
    LET old  == Chunk(HeadKey)
        key  == SubSeq(old.list, 1, ChunkSize)
        part == [list |-> key, headKey |-> {}, tailKey |-> {}]
        rest == Rest(old, key)
    IN  /\ ~convYields /\ splits > 0
        /\ Len(old.list) > SplitThreshold /\ old.tailKey = {}
        /\ cache' = Put(Put(cache, HeadKey, rest), key, part)
        /\ inTurn' = inTurn + 1
        /\ Commanded(Replaced(timers, {HeadKey, key}), <<ChunkWrite(key, part), ChunkWrite(HeadKey, rest)>>)

\* Mutant: the new part does not name its tail.
MutSplitAgain ==
    LET old  == Chunk(HeadKey)
        key  == SubSeq(old.list, 1, ChunkSize)
        rest == Rest(old, key)
    IN  /\ ~convYields /\ splits > 0
        /\ Len(old.list) > SplitThreshold
        /\ \E tailKey \in old.tailKey :
              LET tail == [Chunk(tailKey) EXCEPT !.headKey = {key}]
                  part == [list |-> key, headKey |-> {HeadKey}, tailKey |-> {}]
                  due  == Changed(Changed(timers, tailKey, tail), HeadKey, [old EXCEPT !.tailKey = {key}])
              IN  /\ cache' = Put(Put(Put(cache, HeadKey, rest), key, part), tailKey, tail)
                  /\ inTurn' = inTurn + 1
                  /\ Commanded(Replaced(due, {HeadKey, key}),
                               <<ChunkWrite(tailKey, tail), ChunkWrite(key, part),
                                 ChunkWrite(HeadKey, rest)>>)

\* The chunk split off before becomes the tail of the new one.  The objects of
\* the first chunk and of the tail are changed before the first is replaced.
SplitAgain ==
    LET old  == Chunk(HeadKey)
        key  == SubSeq(old.list, 1, ChunkSize)
        rest == Rest(old, key)
    IN  /\ ~convYields /\ splits > 0
        /\ Len(old.list) > SplitThreshold
        /\ \E tailKey \in old.tailKey :
              LET tail == [Chunk(tailKey) EXCEPT !.headKey = {key}]
                  part == [list |-> key, headKey |-> {HeadKey}, tailKey |-> {tailKey}]
                  due  == Changed(Changed(timers, tailKey, tail), HeadKey, [old EXCEPT !.tailKey = {key}])
              IN  /\ cache' = Put(Put(Put(cache, HeadKey, rest), key, part), tailKey, tail)
                  /\ inTurn' = inTurn + 1
                  /\ Commanded(Replaced(due, {HeadKey, key}),
                               <<ChunkWrite(tailKey, tail), ChunkWrite(key, part),
                                 ChunkWrite(HeadKey, rest)>>)

-----------------------------------------------------------------------------
(* Timers.                                                                 *)

FireChunk ==
    /\ timers # <<>> /\ Head(timers).kind \in {"chunk", "past"}
    /\ timers' = Tail(timers)
    /\ disk' = Put(disk, Head(timers).key, Head(timers).chunk)
    /\ UNCHANGED <<out, hubYields, known, knownDisk, toConv, handed, hands, clears,
                   convYields, convGoesOn, splits, cache, read, inTurn, harmed, torn, reads, closes>>

FireConv ==
    /\ timers # <<>> /\ Head(timers) = ConvWakes
    /\ timers' = Tail(timers)
    /\ convYields' = FALSE /\ inTurn' = 0
    /\ UNCHANGED <<out, hubYields, known, knownDisk, toConv, handed, hands, clears,
                   convGoesOn, splits, cache, disk, read, harmed, torn, reads, closes>>

-----------------------------------------------------------------------------
(* The application reads a chunk.                                          *)

\* It is not cached: local storage is asked, and answers.
ReadDisk ==
    /\ reads < MaxReads /\ read = {}
    /\ \E k \in DOMAIN disk \ DOMAIN cache : read' = {[key |-> k, chunk |-> disk[k]]}
    /\ reads' = reads + 1
    /\ UNCHANGED <<hubVars, convYields, convGoesOn, splits, cache, disk, inTurn, harmed, torn, closes>>

\* The answer goes to the cache, over what was put there meanwhile.
ReadDone ==
    \E r \in read :
        /\ read' = {}
        /\ cache' = Put(cache, r.key, r.chunk)
        /\ timers' = Replaced(timers, {r.key})
        /\ harmed' = (harmed \/ Chunk(r.key) # r.chunk)
        /\ UNCHANGED <<out, hubYields, known, knownDisk, toConv, handed, hands, clears,
                       convYields, convGoesOn, splits, disk, inTurn, torn, reads, closes>>

-----------------------------------------------------------------------------
(* stop, and the end of the page.                                          *)

\* stop clears the cache first, whatever the loop is doing.
ConvStop ==
    /\ clears < MaxClears
    /\ clears' = clears + 1
    /\ cache' = NoChunks
    /\ timers' = Replaced(timers, DOMAIN cache)
    /\ harmed' = (harmed \/ Writes # {})
    /\ torn' = (torn \/ (Writes # {} /\ inTurn > 1))
    /\ UNCHANGED <<out, hubYields, known, knownDisk, toConv, handed, hands,
                   convYields, convGoesOn, splits, disk, read, inTurn, reads, closes>>

Close ==
    /\ closes < MaxCloses
    /\ closes' = closes + 1
    /\ HubClose
    /\ convYields' = FALSE /\ convGoesOn' = FALSE /\ splits' = 0
    /\ cache' = NoChunks /\ read' = {}
    /\ inTurn' = 0
    /\ harmed' = (harmed \/ out # <<>> \/ toConv # <<>> \/ timers # <<>>)
    /\ torn' = (torn \/ (timers # <<>> /\ inTurn > 1))
    /\ UNCHANGED <<disk, reads>>

-----------------------------------------------------------------------------
\* While the loop goes on no timer fires and nothing else runs.
Next ==
    \/ Insert \/ NoSplit \/ SplitFirst \/ SplitAgain
    \/ /\ ~convGoesOn
       /\ \/ /\ \/ \E m \in Msg : Hand(m)
                \/ Drop \/ PassOn \/ FireMessage \/ FireHub \/ HubStop
             /\ UNCHANGED convVars
          \/ TrySplit \/ FireChunk \/ FireConv \/ ReadDisk \/ ReadDone \/ ConvStop \/ Close

Spec == Init /\ [][Next]_vars

-----------------------------------------------------------------------------
SplitKey   == Seq(Msg) \ {HeadKey}
AtMostOne(S) == {T \in SUBSET S : \A x, y \in T : x = y}
ChunkType  == [list : Seq(Msg), headKey : AtMostOne(Seq(Msg)), tailKey : AtMostOne(SplitKey)]
ChunksType(f) == IsFiniteSet(DOMAIN f) /\ \A k \in DOMAIN f : k \in Seq(Msg) /\ f[k] \in ChunkType

TimerType ==
    [kind : {"message"}, msg : Msg] \union [kind : {"hub", "conversation"}]
    \union [kind : {"chunk", "past"}, key : Seq(Msg), chunk : ChunkType]

\* The types of the variables of both modules.
TypeOK ==
    /\ out \in Seq(Msg) /\ toConv \in Seq(Msg) /\ timers \in Seq(TimerType)
    /\ known \subseteq Msg /\ knownDisk \subseteq Msg /\ handed \subseteq Msg
    /\ {hubYields, convYields, convGoesOn, harmed, torn} \subseteq BOOLEAN
    /\ {inTurn, hands, clears, splits, reads, closes} \subseteq Nat
    /\ ChunksType(cache) /\ ChunksType(disk)
    /\ \A r \in read : r.key \in Seq(Msg) /\ r.chunk \in ChunkType

-----------------------------------------------------------------------------
(* The conversation.                                                       *)

Stored == DOMAIN cache \union DOMAIN disk

Behind(k) == {t \in Chunk(k).tailKey : t \in DOMAIN cache \/ t \in DOMAIN disk}

\* The keys ks and the one that the last of them leads to.
Further ==
    [ks \in Seq(Seq(Msg)) |->
        IF Behind(Last(ks)) = {} THEN ks ELSE Append(ks, CHOOSE t \in Behind(Last(ks)) : TRUE)]

\* The keys of the chain, as far as the tail keys lead.
Keys ==
    LET n == Cardinality(Stored)
        from[i \in 0..n] == IF i = 0 THEN <<HeadKey>> ELSE Further[from[i - 1]]
    IN  from[n]

\* The messages under the keys ks, those of the last key first.
Joined ==
    [ks \in Seq(Seq(Msg)) |->
        LET upto[i \in 0..Len(ks)] == IF i = 0 THEN <<>> ELSE Chunk(ks[i]).list \o upto[i - 1]
        IN  upto[Len(ks)]]

\* The messages, the oldest chunk first.
Shown == Joined[Keys]

\* A message that was handed over is lost only with memory that was lost before
\* it was written: no insertion, split or write loses one.
NothingLost == ~harmed => handed \subseteq ToSet(out \o toConv \o Shown)

Due == {timers[i].msg : i \in {j \in DOMAIN timers : timers[j].kind = "message"}}

\* The tail keys of the chain lead to chunks that are stored, wherever the page
\* was closed but between the writes of two splits, and each message of the
\* chain can be retrieved, now or when its write is done (getMessageList).
ChainStored ==
    /\ ~torn => \A k \in ToSet(Keys) : Chunk(k).tailKey \subseteq Stored
    /\ ToSet(Shown) \subseteq Known \union Due

\* What the pipeline promises (Board): a split is not seen.
ConversationBoard == INSTANCE Board WITH shown <- Shown
IsBoard == ConversationBoard!Spec

\* "head chunk of splited chunk should be first chunk, hence headKey is HeadKey"
\* (the comment in _splitFirstChunkIfNecessary): the chunks are linked both ways.
SplitHeadKey ==
    \A i \in 2..Len(Keys) : Chunk(Keys[i]).headKey = {Keys[i - 1]}
=============================================================================
