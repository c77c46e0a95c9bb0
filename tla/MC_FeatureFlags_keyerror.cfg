CONSTANTS
    t1 = t1
    t2 = t2
    f1 = f1
    f2 = f2
    Threads <- MCThreads
    Features <- MCFeatures
    None = None
    TypeError = TypeError
    KeyError = KeyError
    TTL = 0
    MaxTime = 1

SPECIFICATION Spec

INVARIANT NoKeyError
