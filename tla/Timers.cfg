SPECIFICATION Spec
CONSTANTS
    Threads = {loop, other}
    Handles = {h1, h2}
    Delays = {0, 1}
    NoTimer = NoTimer
    ArmBound = 4
    ClockBound = 2
    ClearBound = 1
SYMMETRY ThreadAndHandleSymmetry
INVARIANTS
    TypeOK
    EveryTimerInOnePlace
    EveryLiveTimerHasItsHandle
    PostedInDueOrder
PROPERTY
    OwnCancelIsSynchronous
CHECK_DEADLOCK FALSE
