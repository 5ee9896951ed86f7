\* Two allocated APCs and one of the guest, two other threads that queue.
SPECIFICATION Spec
CONSTANTS
    Queuers = {t1, t2}
    Self = self
    Heap = {h1, h2}
    Own = {own}
    None = None
    MaxDepth = 2
    MayQueueLate = FALSE
INVARIANTS
    ApcInv
PROPERTIES
    ImplementsApcContract
CHECK_DEADLOCK FALSE
