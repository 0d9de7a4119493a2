SPECIFICATION Spec
CONSTANTS
    Threads = {loop, other}
    Handles = {h1, h2}
    Delays = {0, 1}
    NoTimer = NoTimer
    ArmBound = 3
    ClockBound = 2
    ClearBound = 1
SYMMETRY ThreadAndHandleSymmetry
PROPERTY
    CancelIsSynchronous
CHECK_DEADLOCK FALSE
