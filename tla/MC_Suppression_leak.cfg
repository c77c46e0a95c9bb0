CONSTANTS
    Deployments = {d1, d2}
    Duration = 2
    ExtendBy = 1
    MaxIds = 3
    MaxTime = 3
    MaxEnd = 5

SPECIFICATION Spec

INVARIANT NoUntrackedSuppression


\* The bounds stop creation and the clock; the service and the manager
\* then have nothing left to do.
CHECK_DEADLOCK FALSE
