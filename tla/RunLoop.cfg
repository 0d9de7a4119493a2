SPECIFICATION FairSpec
CONSTANTS
    Foreign = {f1, f2}
    Loop = Loop
    NoEnvelope = NoEnvelope
    DrainBudget = 1
    PostBound = 1
    StopBound = 1
    LifeBound = 2
INVARIANTS
    TypeOK
    Ledger
    NoLostWakeup
    QuietAfterRun
PROPERTIES
    ImplementsQueue
    AcceptedIsServed
    StopEndsRun
CHECK_DEADLOCK FALSE
