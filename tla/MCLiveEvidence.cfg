SPECIFICATION FairSpec
CONSTANTS
    Batches = {b1, b2, b3}
    Drainers = {d1, d2}
    Closers = {c1, c2}
    Persisters = {p1}
    Nobody = Nobody
    Capacity = 2
    TimeLimits = TRUE
    MaxFaults = 1
    b1 = b1
    b2 = b2
    b3 = b3
    d1 = d1
    d2 = d2
    c1 = c1
    c2 = c2
    p1 = p1
INVARIANTS
    FinishedRunIsComplete
    NewestResultWins
    CapacityIsGivenBack
    RetentionIsSet
PROPERTIES
    ImplementsAtLeastOnce
    ClosedSessionEnds
CHECK_DEADLOCK FALSE
