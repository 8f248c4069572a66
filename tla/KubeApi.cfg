CONSTANTS
    c1 = c1
    c2 = c2
    Callers = {c1, c2}
    Earlier = Earlier
    Attempts = 3
    MaxLate = 1
    MaxPods = 4
SPECIFICATION FairSpec
INVARIANTS
    TypeOK
    CreatedIsOwn
    InUseUnlessAstray
    DeletedIsGone
    DeployedPodStays
PROPERTY CallsEnd
CHECK_DEADLOCK FALSE
