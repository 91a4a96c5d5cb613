SPECIFICATION FairSpec
CONSTANTS
    a = a
    b = b
    c = c
    gone = gone
    LoadAll = LoadAll
    Names = {a, b, c, gone}
    Scans <- MCScans
    Profiles <- MCProfiles
INVARIANTS
    SelectionIsRequestClosure
    PlanIsStartPlan
    BlockVerdictsAreExact
PROPERTY PlanningEnds
CHECK_DEADLOCK FALSE
