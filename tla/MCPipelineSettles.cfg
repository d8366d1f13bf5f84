SPECIFICATION FairSpec
CONSTANTS
    Workers = {w1, w2}
    Stages = {"s1"}
    ReportStages = {}
    max_attempts = 2
    Trigger = "outbox"
    MaxDeliveries = 2
    MaxManual = 0
    MaxDeaths = 1
    Cancels = FALSE
    LostDispatch = FALSE
    ReviewFailures = FALSE
    w1 = w1
    w2 = w2
PROPERTIES
    InProgressSettles
CHECK_DEADLOCK FALSE
