CONSTANTS
    Attacks <- AllAttacks
    NoTime = NoTime
    MaxCommands = 2
    PipeCapacity = 1
SPECIFICATION Spec
INVARIANTS
    TypeOK
    LogComplete
    StatusTellsTheEnd
PROPERTIES
    BoundedAttackReturns
CHECK_DEADLOCK FALSE
