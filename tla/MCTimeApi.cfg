SPECIFICATION FairSpec
CONSTANTS
    MAX_EVENTS = 3
    Null = Null
    Args = {a1, a2}
    Delays = {0, 1}
    IncantationTime = 1
    MaxTime = 2
INVARIANTS
    TypeOK
    RingInv
    NeverLate
    ArgOwnership
    RealIncantationReady
PROPERTIES
    RefinesDeque
    EventuallyExecuted
