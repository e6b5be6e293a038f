---------------------------- MODULE MCUserLists ----------------------------
EXTENDS UserLists

CONSTANTS g1, g2, m1, m2, m3

E(g, m) == [group |-> g, member |-> m]
Groups  == {E(g1, m1), E(g2, m1)}
Members == {E(g1, m1), E(g1, m2)}
MCEntry == Groups \union Members \union {E(g1, m3)}

\* The address m2 has capital letters: unmuting it looks for m3, which
\* nobody is.
MCLower == [e \in MCEntry |-> IF e.member = m2 THEN [e EXCEPT !.member = m3] ELSE e]

B(o, es, n, f, x) == [ops |-> o, entries |-> es, calls |-> n, foreigns |-> f, fails |-> x]
MCBounds ==
    {B({"join", "leave"}, {E(g1, m1)}, 2, 1, 1),
     B({"mark", "unmark"}, Groups, 2, 1, 1),
     B({"mute", "unmute"}, Members, 2, 1, 1),
     B({"like", "unlike"}, Members, 2, 1, 0),
     B({"vote", "unvote"}, {E(g1, m1)}, 2, 1, 1),
     B({"send"}, {E(g1, m1)}, 3, 0, 1),
     B({"profile", "join"}, {E(g1, m1)}, 2, 1, 0)}
=============================================================================
