\* Four threads, six calls, nesting of two.
SPECIFICATION MutexFairSpec
CONSTANTS
    Callers = {t1, t2, t3, t4}
    Nobody = Nobody
    MaxDepth = 2
    MaxCalls = 6
INVARIANTS
    MutexInv
PROPERTIES
    ImplementsRecursiveLock
    EveryCallReturns
CHECK_DEADLOCK FALSE
