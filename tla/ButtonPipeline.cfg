SPECIFICATION FairSpec
CONSTANTS
    DebounceWindow = 1
    DoubleClickWindow = 2
    LongPressThreshold = 3
    NotArmed = NotArmed
    PostBound = 6
    LateBound = 4
INVARIANTS
    TypeOK
    TimersMeetTheirState
    NoImpossibleEdge
    EveryPressIsAnswered
PROPERTIES
    ImplementsUi
    TimersEndStates
CHECK_DEADLOCK FALSE
