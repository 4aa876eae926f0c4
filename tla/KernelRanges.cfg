SPECIFICATION QuietSpec
CONSTANTS
    W = 2
    Total = 8
    Reserved = 1
    Procs = {p1, p2, p3}
    Slots = 2
    Tries = 2
    HW = 4
    Holders = {h1}
    Devices <- MCDevices
    Local = 1
    None = None
SYMMETRY MCSymmetry
INVARIANTS
    TypeOK
    PagesSound
    MappingsKept
CHECK_DEADLOCK FALSE
