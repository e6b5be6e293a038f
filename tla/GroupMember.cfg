SPECIFICATION Spec
CONSTANTS
    g1 = g1
    g2 = g2
    a1 = a1
    a2 = a2
    Group = {g1, g2}
    Account = {a1, a2}
    Bounds <- MCBounds
INVARIANTS OfAccount
PROPERTIES MembersCatchUp Settles
CHECK_DEADLOCK FALSE
