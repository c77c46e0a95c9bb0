CONSTANTS
    c1 = c1
    c2 = c2
    k1 = k1
    Clients <- MCClients
    Items <- MCItems
    None = None
    TTL = 2
    MaxTasks = 2
    MaxTime = 3

SPECIFICATION Spec

INVARIANT CompletedHasResult

\* With the task and time bounds reached and every task finished, the
\* service only answers status requests, which change nothing.
CHECK_DEADLOCK FALSE
