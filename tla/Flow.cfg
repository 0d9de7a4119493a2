SPECIFICATION Spec
CONSTANTS
    States = {s0, s1, s2}
    Initial = s0
    DepthBound = 5
INVARIANTS
    TypeOK
    LocalsFollowState
    FlagFollowsStack
PROPERTY
    OwnerMayRestart
CHECK_DEADLOCK FALSE
