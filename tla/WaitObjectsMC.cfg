\* Two threads and two objects of every pair of kinds, or two timers.
SPECIFICATION FairSpec
CONSTANTS
    Threads = {t1, t2}
    Nobody = Nobody
    Objects = {1, 2}
    Creations <- Pairs
    Waits <- SinglesAndPairs
    maximum_count_ = 2
    MaxSignals = 2
INVARIANTS
    WaitInv
    UnitsAreConserved
    TimersKeepTime
    NoMissedSignal
PROPERTIES
    WaitsEnd
CHECK_DEADLOCK FALSE
