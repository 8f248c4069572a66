CONSTANTS
    s1 = s1
    s2 = s2
    s3 = s3
    d1 = d1
    d2 = d2
    Scenarios = {s1, s2, s3}
    ProcessingPods = {d1, d2}
    NumberOfWorkers = 2
SPECIFICATION FairSpec
INVARIANTS
    TypeOK
    ReportNeverBlocks
    AllPodsDeployedFirst
    CancellationExplained
    NeverStuck
PROPERTIES
    FailedWatchShows
    ImplementsBatch
    CancelledRunExits
    RunEnds
CHECK_DEADLOCK FALSE
