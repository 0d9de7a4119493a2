SPECIFICATION Spec
CONSTANTS
    Modules = 3
    LifeBound = 2
INVARIANT
    HandlesMeetTheirService
CHECK_DEADLOCK FALSE
