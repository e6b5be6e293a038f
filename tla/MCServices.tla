----------------------------- MODULE MCServices -----------------------------
(***************************************************************************)
(* The services of a page, model-checked.  What one of them does is the    *)
(* same whatever the others do, and it is enough to let one move in each   *)
(* behaviour: part says which.                                             *)
(***************************************************************************)
EXTENDS Services

CONSTANTS c1, c2, c3, k1, k2

VARIABLE part

N(remembers, known, asks, batches, fails, slow) ==
    [remembers |-> remembers, known |-> known,
     asks |-> [c \in {c1, c2, c3} |-> IF c = c3 THEN {asks[2]} ELSE {asks[1]}],
     batches |-> batches, fails |-> fails, slow |-> slow]
NamesIdle == N(TRUE, {}, <<k1, k2>>, {}, 0, 0)
MCNames ==
    {NamesIdle,
     N(TRUE, {k2}, <<k1, k2>>, {{k1, k2}}, 1, 1), N(TRUE, {k1, k2}, <<k1, k1>>, {{k1}}, 1, 1),
     N(FALSE, {k1}, <<k1, k2>>, {}, 1, 1), N(FALSE, {k1, k2}, <<k2, k2>>, {}, 0, 1)}

P(attempts, stored, prefix, protocolStored, chainsStored, fails, moves, changes, halts) ==
    [attempts |-> attempts, stored |-> stored, prefix |-> prefix, protocolStored |-> protocolStored,
     chainsStored |-> chainsStored, fails |-> fails, moves |-> moves, changes |-> changes, pauses |-> halts]
ConnectionIdle == P(0, {}, TRUE, FALSE, FALSE, 0, 0, 0, 0)
MCConnection ==
    {ConnectionIdle,
     P(2, {}, TRUE, FALSE, FALSE, 1, 1, 0, 0), P(2, {5}, FALSE, TRUE, TRUE, 1, 1, 1, 0),
     P(1, {5}, TRUE, TRUE, TRUE, 0, 1, 3, 1), P(3, {}, FALSE, FALSE, FALSE, 2, 0, 0, 0)}

MCInit ==
    /\ part \in {"loop", "names", "connection"}
    /\ Handler!Init /\ Names!Init /\ Connections!Init
    /\ part = "names" <=> namesLeft # NamesIdle
    /\ part = "connection" <=> connectionLeft # ConnectionIdle

MCNext ==
    /\ UNCHANGED part
    /\ \/ part = "loop" /\ Handler!Next /\ UNCHANGED <<names, connections>>
       \/ part = "names" /\ Names!Next /\ UNCHANGED <<loop, connections>>
       \/ part = "connection" /\ Connections!Next /\ UNCHANGED <<loop, names>>

MCSpec ==
    /\ MCInit /\ [][MCNext]_<<part, loop, names, connections>>
    /\ Handler!Fairness /\ Names!Fairness /\ Connections!Fairness

-----------------------------------------------------------------------------
\* Initialization ends, over failed attempts (Connection).
InitializedInTheEnd == part = "connection" => Connections!InitializedInTheEnd
=============================================================================
