CONSTANTS
    a = a
    t1 = t1
    t2 = t2
    Attacker = a
    Targets = {t1, t2}
    MaxPackets = 1
SPECIFICATION Spec
SYMMETRY Symmetry
INVARIANTS
    TypeOK
    NormalizedHoldsRaw
    CleanupIgnoresCancellation
CHECK_DEADLOCK FALSE
