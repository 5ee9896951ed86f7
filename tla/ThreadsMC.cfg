\* A host thread created running or suspended, under three calls of Suspend, by
\* two callers and by itself, against three of Resume, with termination; or a
\* running guest thread, under two suspensions, its own or by others, against
\* two resumptions.
SPECIFICATION GuestSpec
CONSTANTS
    Callers = {c1, c2}
    Creator = c1
    Nobody = Nobody
    GuestSuspended = FALSE
    MaxSuspends = 3
    MaxResumes = 3
    MaxGuestSuspends = 2
    MaxGuestResumes = 2
    MayTerminate = TRUE
INVARIANTS
    HostInv
    RunningThreadStops
    HeldHasReason
    GuestInv
PROPERTIES
    ResumedRuns
    TerminateEnds
    CallsReturn
CHECK_DEADLOCK FALSE
