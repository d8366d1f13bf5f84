SPECIFICATION FairSpec
CONSTANTS
    Runs = {"r"}
    RunOf <- AllRunOf
    Intents = {"l"}
    Children = {}
    LiveClose = {"l"}
    Publishers = {p1}
    Workers = {w1, w2}
    Finalizers = {}
    MAX_DISPATCH_ATTEMPTS = 2
    MAX_EXECUTION_ATTEMPTS = 2
    MAX_FINALIZATION_RECOVERY_ATTEMPTS = 2
    MaxRequeues = 0
    TimeLimits = FALSE
    p1 = p1
    w1 = w1
    w2 = w2
INVARIANTS
    TypeOK
    OneExecution
    CompletedByItsOwnWork
PROPERTIES
    ImplementsAtLeastOnce
    EveryIntentSettles
CHECK_DEADLOCK FALSE
