CONSTANTS
    c1 = c1
    c2 = c2
    Clients <- MCClients
    None = None
    MaxItems = 2
    MaxReqs = 2

SPECIFICATION Spec

INVARIANT AnswerMatchesQueue

\* Every client has sent its MaxReqs requests: the bound, not the code, ends
\* the behaviour.
CHECK_DEADLOCK FALSE
