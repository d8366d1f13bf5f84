SPECIFICATION FairSpec
CONSTANTS
    Runs = {"r"}
    RunOf <- AllRunOf
    Intents = {"c", "d"}
    Children = {"c", "d"}
    LiveClose = {}
    Publishers = {}
    Workers = {}
    Finalizers = {f1, f2, f3}
    MAX_DISPATCH_ATTEMPTS = 2
    MAX_EXECUTION_ATTEMPTS = 2
    MAX_FINALIZATION_RECOVERY_ATTEMPTS = 2
    MaxRequeues = 1
    TimeLimits = TRUE
    f1 = f1
    f2 = f2
    f3 = f3
INVARIANTS
    GateOpensAtTheEnd
    RecoveryExclusive
PROPERTIES
    NoGateStranded
