CONSTANTS
    Threads = {t1, t2, t3}
    NoOwner = NoOwner
    StatsReaders = TRUE

SPECIFICATION FairSpec


PROPERTY OpsComplete
CHECK_DEADLOCK FALSE
