SPECIFICATION FairSpec
CONSTANTS
    c1 = c1
    c2 = c2
    Callers <- OneCaller
    MaxUnits = 7
    PageUnits = 3
    MaxRequest = 3
INVARIANTS
    TypeOK
    WellFormed
    NeverTrashed
    LiveDisjoint
PROPERTIES
    DoubleFreeIgnored
    CallersServed
    Implements
CHECK_DEADLOCK FALSE
