SPECIFICATION Spec
CONSTANTS
    Workers = {w1, w2}
    Stages = {"s1"}
    ReportStages = {"s1"}
    max_attempts = 2
    Trigger = "direct"
    MaxDeliveries = 1
    MaxManual = 0
    MaxDeaths = 1
    Cancels = FALSE
    LostDispatch = FALSE
    ReviewFailures = FALSE
    w1 = w1
    w2 = w2
SYMMETRY Symmetry
INVARIANTS
    ResultOfLatestAttempt
CHECK_DEADLOCK FALSE
