CONSTANTS
    MaxAttempts = 3
    Timeout = 2

SPECIFICATION Spec

INVARIANT TypeOK
INVARIANT ReturnedIsCompleted
INVARIANT GaveUpRolledBack

\* deploy_with_canary is one call: it stops once it has returned or raised.
CHECK_DEADLOCK FALSE
