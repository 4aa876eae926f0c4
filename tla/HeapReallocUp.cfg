SPECIFICATION ReallocUpSpec
CONSTANTS
    Callers = {c1}
    MaxUnits = 7
    PageUnits = 4
    MaxRequest = 3
INVARIANTS
    ReallocTypeOK
PROPERTIES
    DataKept
CHECK_DEADLOCK FALSE
