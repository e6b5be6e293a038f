------------------------------ MODULE MCDevice ------------------------------
(***************************************************************************)
(* What a page keeps on the device, model-checked.  One part moves in each *)
(* behaviour: part says which.  A reader pages with as many reads of       *)
(* storage, fewer repetitions and no end of the page, and is not followed  *)
(* once memory was lost before it was written.  The latest message is 3,   *)
(* the others are equally old.                                             *)
(***************************************************************************)
EXTENDS Device

CONSTANTS a1, a2

VARIABLE part

MCTime == [m \in Msg |-> m \div 3]

E(a, k) == [of |-> a, k |-> k]
S(max, old, switches, writes, reloads, ticks) ==
    [max |-> max, entries |-> old, switches |-> switches, writes |-> writes, reloads |-> reloads, ticks |-> ticks]
Idle == S(2, <<>>, 0, 0, 0, 0)
MCStorage ==
    {Idle,
     S(3, <<>>, 3, 2, 1, 1), S(3, <<E(a1, 1), E(a2, 1)>>, 2, 1, 1, 1),
     S(2, <<E(a1, 1), E(a1, 2), E("foreign", 1), E("global", 1), E(a2, 1)>>, 2, 1, 0, 1)}

MCInit ==
    /\ part \in {"messages", "pages", "accounts"}
    /\ PagingInit /\ Storage!Init
    /\ part = "accounts" <=> storageLeft # Idle

MCNext ==
    /\ UNCHANGED part
    /\ \/ part = "messages" /\ Next /\ reads' <= 1 /\ UNCHANGED <<pager, storage>>
       \/ part = "pages" /\ PagingNext /\ hands' <= 3 /\ closes' = 0 /\ ~harmed' /\ UNCHANGED storage
       \/ part = "accounts" /\ Storage!Next /\ UNCHANGED pagingVars

MCSpec == MCInit /\ [][MCNext]_<<part, pagingVars, storage>>
=============================================================================
