\* Three frames and attempts at a fourth, the guest output thread, the UI thread
\* and one thread that captures; two changes of surface or user interface or failing paints.
SPECIFICATION FairSpec
CONSTANTS
    Capturers = {c1}
    MaxFrames = 3
    MaxEvents = 2
INVARIANTS
    PresenterInv
    NoTornFrame
PROPERTIES
    ImplementsLatestFrame
    ScreenCatchesUp
CHECK_DEADLOCK FALSE
