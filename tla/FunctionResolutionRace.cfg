CONSTANTS
    f = f
    g = g
    None = None
    Threads = {t1, t2}
    Addresses = {f, g}
    Callees <- MCCallees
    MaxLoads = 1
    MaxBreakpoints = 0
    MaxDeaths = 0
SPECIFICATION Spec
INVARIANTS
    CallersGetCode
CHECK_DEADLOCK FALSE
