SPECIFICATION Spec
CONSTANTS
    Workers = {w1, w2}
    Stages = {"s1"}
    ReportStages = {"s1"}
    max_attempts = 2
    Trigger = "invocation"
    MaxDeliveries = 1
    MaxManual = 1
    MaxDeaths = 1
    Cancels = TRUE
    LostDispatch = FALSE
    ReviewFailures = FALSE
    w1 = w1
    w2 = w2
SYMMETRY Symmetry
INVARIANTS
    RunningIsLeased
    RetryIsScheduled
    AcceptedWhatWasShown
PROPERTIES
    CancelIsSticky
    RejectionStands
    ImplementsRunLifecycle
CHECK_DEADLOCK FALSE
