CONSTANTS
    t1 = t1
    t2 = t2
    Threads <- MCThreads
    FailureThreshold = 3
    SuccessThreshold = 2
    RecoveryTimeout = 2
    WindowSize = 2
    RateNum = 3
    RateDen = 4
    HasFallback = TRUE
    OtherErrors = TRUE

SPECIFICATION FairSpec

INVARIANT TypeOK
INVARIANT BreakerStateInv
PROPERTY Recovery
PROPERTY BreakerRefinement
