SPECIFICATION FairSpec
CONSTANTS
    KeyBound = 1
    SigintBound = 1
PROPERTY
    SigintEndsProgram
CHECK_DEADLOCK FALSE
