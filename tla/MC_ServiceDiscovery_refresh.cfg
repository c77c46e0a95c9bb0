CONSTANTS
    t1 = t1
    t2 = t2
    s1 = s1
    Threads <- MCThreads
    Services <- MCServices
    None = None
    Raised = Raised
    TTL = 1
    MaxVersion = 1
    MaxTime = 4

SPECIFICATION Spec

INVARIANT RefreshEffective
