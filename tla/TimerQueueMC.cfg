\* A ring with a single slot: producers wait for room, sequences wrap around.
\* No symmetry: liveness is checked in the same run.
SPECIFICATION FairSpec
CONSTANTS
    once = once
    tick = tick
    kick = kick
    t1 = t1
    t2 = t2
    Items <- MCItems
    Kick = kick
    Threads <- MCThreads
    Dispatcher = Dispatcher
    NoItem = NoItem
    Interval <- MCInterval
    WaitCount = 1
    MaxTime = 2
    MayDisarmTwice = TRUE
INVARIANTS
    TimerInv
    NoCallbackAfterDisarm
    OnePlace
PROPERTIES
    ImplementsContract
    Fires
    CallsReturn
CHECK_DEADLOCK FALSE
