SPECIFICATION Spec
CONSTANTS
    Calls = {c1, c2, c3}
    StageCalls = {c1, c2}
    Limit = 1
    Lease = 6
    Interval = 2
    Margin = 2
    Unwind = 1
    SocketTimeout = 2
    Estimates = {2}
    Cap = 5
    Before = 1
    MaxEscaped = 2
    c1 = c1
    c2 = c2
    c3 = c3
INVARIANTS
    RunningWithinLimit
    CapHolds
    MeteredOnce
SYMMETRY Symmetry
CHECK_DEADLOCK FALSE
