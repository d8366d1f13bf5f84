SPECIFICATION Spec
CONSTANTS
    Workers = {w1, w2}
    Stages = {"s1"}
    ReportStages = {"s1"}
    max_attempts = 3
    Trigger = "direct"
    MaxDeliveries = 1
    MaxManual = 0
    MaxDeaths = 2
    Cancels = FALSE
    LostDispatch = TRUE
    ReviewFailures = TRUE
    w1 = w1
    w2 = w2
SYMMETRY Symmetry
INVARIANTS
    AttemptCeiling
    ResumedResultsAreFenced
CHECK_DEADLOCK FALSE
