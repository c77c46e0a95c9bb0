CONSTANTS
    p1 = p1
    p2 = p2
    Partitions <- MCPartitions
    LogEnd = 2
    BatchSize = 1
    MaxPollRecords = 2
    DLQEnabled = FALSE
    ErrorHandlerMayRaise = FALSE
    MaxCrashes = 0
    MaxSignals = 0

SPECIFICATION Spec

INVARIANT NoLossOnCommit

CHECK_DEADLOCK FALSE
