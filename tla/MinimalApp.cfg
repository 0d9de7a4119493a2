SPECIFICATION Spec
CONSTANTS
    CountBound = 7
    PostBound = 4
    LifeBound = 2
INVARIANTS
    TypeOK
    WorkIsConserved
    TokensMeetTheirState
PROPERTY
    RoundsGoOn
CHECK_DEADLOCK FALSE
