SPECIFICATION MCSpec
CONSTANTS
    c1 = c1
    c2 = c2
    c3 = c3
    k1 = k1
    k2 = k2
    Caller = {c1, c2, c3}
    Key = {k1, k2}
    Topic = {t1, t2}
    NamesBounds <- MCNames
    ConnectionBounds <- MCConnection
    MaxRuns = 2
    MaxCalls = 1
INVARIANT StoredUrlIsTried
CHECK_DEADLOCK FALSE
