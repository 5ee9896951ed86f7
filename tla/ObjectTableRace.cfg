\* Two threads create an object of the same name, and close it.
SPECIFICATION Spec
CONSTANTS
    t1 = t1
    t2 = t2
    o1 = o1
    o2 = o2
    n1 = n1
    Objects = {o1, o2}
    Namings <- OneNaming
    NoName = NoName
    NoObject = NoObject
    NoSlot = NoSlot
    Threads = {t1, t2}
    Calls = {}
    Grow = 2
    MaxSlots = 2
    MaxRefs = 2
    MayMix = FALSE
    MayRace = TRUE
INVARIANTS
    GuestHandlesStayOpen
CHECK_DEADLOCK FALSE
