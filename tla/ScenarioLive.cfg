CONSTANTS
    a = a
    t1 = t1
    t2 = t2
    Attacker = a
    Targets = {t1}
    MaxPackets = 1
SPECIFICATION FairSpec
PROPERTIES
    ImplementsExecution
    CancelledScenarioReturns
    EndedAttackReturns
CHECK_DEADLOCK FALSE
