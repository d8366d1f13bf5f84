SPECIFICATION Spec
CONSTANTS
    c1 = c1
    p1 = p1
    Children = {c1}
    Parents = {p1}
    Attempts = {1, 2}
    Beats = {b1}
    Runners = {r1}
    None = None
    parent_of <- ParentOf
    run_of <- RunOf
    max_active = 1
    max_daily = 1
    max_publishes = 1
    MaxResumes = 1
INVARIANTS
    TaskTellsTheEnd
    PartialNeverCompletes
    LedgerFollowsChild
PROPERTIES
    EndedUnclaimedIsFinal
    ImplementsAtLeastOnce
CHECK_DEADLOCK FALSE
