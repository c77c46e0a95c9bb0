CONSTANTS
    p1 = p1
    p2 = p2
    Partitions <- MCPartitions
    LogEnd = 2
    BatchSize = 3
    MaxPollRecords = 2
    DLQEnabled = TRUE
    ErrorHandlerMayRaise = TRUE
    MaxCrashes = 1
    MaxSignals = 0

SPECIFICATION FairSpec

INVARIANT TypeOK  CommitNeverAhead
PROPERTY FlushEventually

\* The process may legitimately stop: after stop() the loop exits, and a
\* stop() that waits on batch_lock held below it never returns.
CHECK_DEADLOCK FALSE
