SPECIFICATION QuietSpec
CONSTANTS
    None = None
    p1 = p1
    p2 = p2
    p3 = p3
    v1 = v1
    v2 = v2
    x1 = x1
    x2 = x2
    Pids <- ThreePids
    VPages <- TwoPages
    Values <- TwoValues
    Frames = {1, 2, 3, 4, 5, 6}
SYMMETRY Symmetry
INVARIANTS
    TypeOK
    
PROPERTIES
    PrivateSpec
CHECK_DEADLOCK FALSE
