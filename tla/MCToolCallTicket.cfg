SPECIFICATION FairSpec
CONSTANTS
    StageCalls = {"t"}
    OneClickCalls = {"o"}
    Actions = {"a", "q"}
    Committing = {"q"}
    MaxAttempts = 4
    Requests = {q1, q2}
    Relays = {r1, r2}
    Executors = {e1, e2}
    Undoers = {u1, u2}
    Nobody = Nobody
    StageKnowsUnknown = FALSE
    TimeLimits = TRUE
    q1 = q1
    q2 = q2
    r1 = r1
    r2 = r2
    e1 = e1
    e2 = e2
    u1 = u1
    u2 = u2
INVARIANTS
    OneIssue
ACTION_CONSTRAINT OneRow
CHECK_DEADLOCK FALSE
