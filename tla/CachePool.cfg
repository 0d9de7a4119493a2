SPECIFICATION Spec
CONSTANTS
    Keys = {k1, k2}
    Values = {v1, v2}
    Unset = Unset
    NoKey = NoKey
    Modules = {m1, m2}
    NoModule = NoModule
    Handles = {h1, h2, h3}
    NoSub = NoSub
    MaxSubs = 2
    WriteBound = 3
    SubBound = 4
SYMMETRY Symmetric
INVARIANTS
    TypeOK
    PoolBalanced
    HandlesOwnSlots
    SubscribersKnowTheValue
PROPERTY
    OnlyOverflowFaults
CHECK_DEADLOCK FALSE
