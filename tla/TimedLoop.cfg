SPECIFICATION Spec
CONSTANTS
    Loop = Loop
    Ticker = Ticker
    Nobody = Nobody
    Plain = Plain
    Delays = {0, 1, 2}
    LastTime = 2
    ArmBound = 2
    ClockBound = 1
    PostBound = 1
INVARIANTS
    TypeOK
    SleepsUntilTheNextTimer
    MutexesAreOrdered
PROPERTIES
    ImplementsAlarms
    DueTimersFire
CHECK_DEADLOCK FALSE
