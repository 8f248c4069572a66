CONSTANT
    Configurations <- MCConfigurations
SPECIFICATION Spec
INVARIANTS
    TypeOK
    ShapingAsAsked
    InitFailureExplained
    FilterAgreesWithCommand
CHECK_DEADLOCK FALSE
