------------------------------- MODULE Paging -------------------------------
(***************************************************************************)
(* The application shows a conversation: it asks for the latest messages   *)
(* and then, page by page, for the ones before the last it has, by the     *)
(* message and the key of the chunk it was in (getMessageList of           *)
(* ConversationDomain, direction tail).  Meanwhile messages enter and the  *)
(* first chunk is split.                                                   *)
(*                                                                         *)
(* A page has one message: larger ones stop at fewer points.  A chunk that *)
(* is not cached is read first (ReadDisk, ReadDone).                       *)
(***************************************************************************)
EXTENDS Conversation

VARIABLE
    pager   \* {} or {[key, at: {} or {message}, got, ended, again: it began again
            \* at the latest, base: what was shown as it began, parts: the chunks then]}

pagingVars == <<vars, pager>>

PagingInit == Init /\ pager = {}

\* getConversationMessageListFromLatest.
Open ==
    /\ pager = {} /\ Shown # <<>>
    /\ pager' = {[key |-> HeadKey, at |-> {}, got |-> <<>>, ended |-> FALSE, again |-> FALSE,
                  base |-> ToSet(Shown), parts |-> Len(Keys)]}
    /\ UNCHANGED vars

\* Where the reading is in a chunk: behind its end unless the message the
\* last page ended with is found in it.
Anchor(list, at) ==
    LET found == {i \in DOMAIN list : list[i] \in at}
    IN  IF found = {} THEN Len(list) + 1 ELSE Min(found)

\* Mutant: the next chunk is begun one message further on.
MutNext(p, chunk) ==
    IF chunk.tailKey = {} THEN {[p EXCEPT !.ended = TRUE]}
    ELSE {[p EXCEPT !.key = k, !.at = {Last(k)}] : k \in chunk.tailKey}

\* The chunk is at its end: on to the one behind it, if there is one.
NextChunk(p, chunk) ==
    IF chunk.tailKey = {} THEN {[p EXCEPT !.ended = TRUE]}
    ELSE {[p EXCEPT !.key = k, !.at = {}] : k \in chunk.tailKey}

Page ==
    \E p \in pager :
        LET chunk  == Chunk(p.key)
            anchor == Anchor(chunk.list, p.at)
            lost   == p.at # {} /\ anchor > Len(chunk.list)
        IN  /\ ~p.ended
            /\ p.key \in DOMAIN cache \/ p.key \notin DOMAIN disk
            /\ pager' = IF anchor = 1 THEN NextChunk(p, chunk)
                        ELSE LET m == chunk.list[anchor - 1]
                             IN  {[p EXCEPT !.at = {m}, !.got = Append(@, m), !.again = @ \/ lost]}
            /\ UNCHANGED vars

PagingNext ==
    \/ Next /\ UNCHANGED pager
    \/ ~convGoesOn /\ (Open \/ Page)

PagingSpec == PagingInit /\ [][PagingNext]_pagingVars

-----------------------------------------------------------------------------
\* Whoever pages to the end has been shown every message that was there when
\* he began, whatever entered and was split off meanwhile, and none twice
\* unless the chunk he read was split: its message is not found there any
\* more, and he is shown the latest again.  Harm to memory is excused.
PagesComplete ==
    \A p \in pager : ~harmed =>
        /\ p.ended => p.base \subseteq ToSet(p.got)
        /\ p.again \/ IsInjective(p.got)
        /\ p.again => Len(Keys) > p.parts
=============================================================================
