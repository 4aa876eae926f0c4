SPECIFICATION QuietSpec
CONSTANTS
    Null = Null
    k = k
    p1 = p1
    p2 = p2
    p3 = p3
    Kernel = k
    Procs <- FourProcs
    Slots = 1
    Delays = {1, 3}
    Word = 8
INVARIANTS
    TypeOK
    
PROPERTIES
    RunsInTime
CHECK_DEADLOCK FALSE
