----------------------------- MODULE MCGroupSalt -----------------------------
EXTENDS GroupSalt

CONSTANTS a1, a2, m1, m2, m3

\* The messages are of the outputs o1, o2 and o3, 0 for public.
Scenario(o1, o2, o3, others, there, own, pushes, batches, sends, switches, fails, moves) ==
    [of |-> [m \in Message |-> (CASE m = m1 -> {o1} [] m = m2 -> {o2} [] m = m3 -> {o3}) \ {0}],
     readers |-> [o \in Output |-> IF o \in others THEN {a2} ELSE {a1}],
     there |-> there, own |-> own, pushes |-> pushes, batches |-> batches, sends |-> sends,
     switches |-> switches, fails |-> fails, moves |-> moves]
MCOutput == 1..3
MCBounds ==
    {Scenario(1, 1, 2, {}, {}, {}, {m1, m2, m3}, {}, 0, 0, 1, 0),
     Scenario(1, 2, 2, {2}, {}, {}, {m1, m2, m3}, {}, 0, 0, 0, 0),
     Scenario(1, 2, 0, {}, {}, {}, {m1, m2}, {<<m2, m3, m1>>}, 0, 0, 1, 0),
     Scenario(1, 2, 1, {2}, {1, 2}, {}, {m1}, {<<m1, m2, m3>>}, 0, 1, 0, 0),
     Scenario(1, 2, 3, {2}, {2}, {3}, {m1, m3}, {}, 2, 1, 1, 2)}
=============================================================================
