CONSTANTS
    s1 = s1
    s2 = s2
    s3 = s3
    Scenarios = {s1, s2, s3}
    Processors = {"flows"}
    ScenarioName <- Names
    TargetNames <- Targets
    Multi = {s1, s3}
    MaxCalls = 2
    MaxRuns = 2
SPECIFICATION Spec
INVARIANTS
    TypeOK
    ResultIsOwn
    OthersNeverMix
    NilMeansReports
CHECK_DEADLOCK FALSE
