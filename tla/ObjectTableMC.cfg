\* Two threads create, open by name, use, duplicate, move, reference and close
\* handles of objects without names, or with one name, and titles end.
SPECIFICATION Spec
CONSTANTS
    t1 = t1
    t2 = t2
    o1 = o1
    o2 = o2
    n1 = n1
    NoName = NoName
    NoObject = NoObject
    NoSlot = NoSlot
    Objects = {o1, o2}
    Namings <- SomeNamings
    Threads = {t1, t2}
    Calls = {"use", "duplicate", "duplicate_close", "reference", "purge"}
    Grow = 2
    MaxSlots = 4
    MaxRefs = 2
    MayMix = FALSE
    MayRace = FALSE
INVARIANTS
    OTInv
    LifetimesAreExact
    GuestHandlesStayOpen
    NamesResolve
CHECK_DEADLOCK FALSE
SYMMETRY Symmetry
