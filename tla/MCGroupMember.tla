---------------------------- MODULE MCGroupMember ----------------------------
EXTENDS GroupMember

CONSTANTS g1, g2, a1, a2

Marks(s1, s2) == [a \in {a1, a2} |-> IF a = a1 THEN s1 ELSE s2]
B(o, gs, ms, known, inc, ch, sw, lo, en, fa, pa) ==
    [ops |-> o, groups |-> gs, marks |-> ms, known |-> known, includes |-> inc, changes |-> ch,
     switches |-> sw, logins |-> lo, enters |-> en, fails |-> fa, pauses |-> pa]
MCBounds ==
    {B({}, {g1, g2}, Marks({}, {}), {g1}, 2, 0, 0, 0, 0, 0, 0),
     B({"wait"}, {g1}, Marks({g1}, {}), {}, 1, 0, 0, 1, 1, 0, 1),
     B({"wait"}, {g1}, Marks({}, {}), {g1}, 1, 0, 0, 0, 2, 0, 0),
     B({}, {g1}, Marks({g1}, {}), {}, 1, 0, 1, 2, 0, 0, 0),
     B({}, {g1}, Marks({g2}, {}), {}, 1, 0, 1, 1, 0, 1, 0),
     B({}, {g1}, Marks({}, {}), {}, 1, 0, 0, 0, 0, 2, 0),
     B({"mark"}, {g1}, Marks({g1}, {}), {}, 1, 1, 0, 1, 0, 1, 0),
     B({"sync"}, {g1}, Marks({}, {}), {}, 1, 1, 1, 0, 0, 1, 0),
     B({"public"}, {g1}, Marks({}, {}), {}, 1, 2, 0, 0, 0, 1, 0),
     B({"member", "enter"}, {g1}, Marks({}, {}), {}, 0, 2, 1, 0, 1, 1, 0)}
=============================================================================
