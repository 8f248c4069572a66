CONSTANTS
    c1 = c1
    c2 = c2
    p1 = p1
    Callers = {c1, c2}
    Pods = {p1}
    PodOf <- SameName
    NoCaller = NoCaller
    MaxVersion = 4
SPECIFICATION Spec
INVARIANT ReadyMeansOwnPod
CHECK_DEADLOCK FALSE
