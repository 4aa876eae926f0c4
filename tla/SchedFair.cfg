SPECIFICATION QuietSpec
CONSTANTS
    Null = Null
    k = k
    p1 = p1
    p2 = p2
    p3 = p3
    Kernel = k
    Procs <- FourProcs
    Slots = 1
    Delays = {1}
    Word = 16
PROPERTY Scheduled
CHECK_DEADLOCK FALSE
