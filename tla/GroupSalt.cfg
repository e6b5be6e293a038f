SPECIFICATION Spec
CONSTANTS
    a1 = a1
    a2 = a2
    m1 = m1
    m2 = m2
    m3 = m3
    Account = {a1, a2}
    Message = {m1, m2, m3}
    Output <- MCOutput
    Bounds <- MCBounds
INVARIANTS SaltsAreRight ReadersOnly BatchAnswers
PROPERTY PushedArrives
CHECK_DEADLOCK FALSE
