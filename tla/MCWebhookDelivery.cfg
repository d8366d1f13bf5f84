SPECIFICATION FairSpec
CONSTANTS
    Deliveries = {d1, d2}
    Relays = {r1}
    Workers = {w1, w2}
    Editors = {e1}
    MaxRetries = 1
    BreakerThreshold = 2
    MAX_WEBHOOK_DISPATCH_ATTEMPTS = 2
    MaxFaults = 1
    d1 = d1
    d2 = d2
    r1 = r1
    w1 = w1
    w2 = w2
    e1 = e1
INVARIANTS
    OneAttempt
    AttemptBudget
    EachFailureCountsOnce
PROPERTIES
    ImplementsAtLeastOnce
    EveryDeliveryEnds
ACTION_CONSTRAINT InOrder
CHECK_DEADLOCK FALSE
