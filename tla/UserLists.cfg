SPECIFICATION Spec
CONSTANTS
    g1 = g1
    g2 = g2
    m1 = m1
    m2 = m2
    m3 = m3
    Entry <- MCEntry
    Lower <- MCLower
    Bounds <- MCBounds
INVARIANTS NoLostUpdate OwnAnswer
PROPERTY CallSettles
CHECK_DEADLOCK FALSE
