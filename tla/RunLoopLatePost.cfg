SPECIFICATION Spec
CONSTANTS
    Foreign = {f1}
    Loop = Loop
    NoEnvelope = NoEnvelope
    DrainBudget = 2
    PostBound = 1
    StopBound = 1
    LifeBound = 1
PROPERTY
    LatePostIsDropped
CHECK_DEADLOCK FALSE
