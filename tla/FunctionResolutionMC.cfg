CONSTANTS
    f = f
    g = g
    None = None
    Threads = {t1, t2}
    Addresses = {f, g}
    Callees <- MCCallees
    MaxLoads = 2
    MaxBreakpoints = 1
    MaxDeaths = 1
SPECIFICATION FairSpec
INVARIANTS
    ResolutionInv
    WhatIsReady
PROPERTIES
    CodeIsStable
    ImplementsContract
    ResolvesReturn
CHECK_DEADLOCK FALSE
