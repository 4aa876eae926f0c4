SPECIFICATION QuietSpec
CONSTANTS
    None = None
    Kernel = Kernel
    Dir = Dir
    p1 = p1
    p2 = p2
    f1 = f1
    f2 = f2
    f3 = f3
    c1 = c1
    c2 = c2
    c3 = c3
    Procs <- TwoProcs
    Files <- ThreeFiles
    Cells <- ThreeCells
    PerPage = 1
    MaxPages = 2
SYMMETRY Symmetry
INVARIANTS
    TypeOK
    

    
