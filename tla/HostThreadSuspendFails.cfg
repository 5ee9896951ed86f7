\* A thread created suspended is resumed and then suspended.
SPECIFICATION HostFairSpec
CONSTANTS
    Callers = {c1}
    MaxSuspends = 1
    MaxResumes = 1
    MayTerminate = FALSE
INVARIANTS
    SuspendStops
CHECK_DEADLOCK FALSE
