SPECIFICATION QuietSpec
CONSTANTS
    Procs = {p1, p2}
    Disks = {0, 1, 2}
    Size <- MCSize
    Parts <- MCParts
    Volumes <- MCVolumes
    Table <- MCTable
    Entries <- MCEntries
    Values = 4
    PerSector = 2
    Below <- MCBelow
    Eoc = 99
    None = None
SYMMETRY MCSymmetry
VIEW MCView
INVARIANTS
    TypeOK
    TransfersRight
    ReadRight
    NamesRight
CHECK_DEADLOCK FALSE
