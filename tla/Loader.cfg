SPECIFICATION QuietSpec
CONSTANTS
    Page = 2
    Files <- MCFiles
    File <- MCFile
    None = None
    p1 = p1
    p2 = p2
    p3 = p3
    Pids <- MCPids
    Boot = p1
    Shell = "sh"
    Linker = "ld"
    LoadedCell = 1
    Commands = {"app", "text"}
    Preloads = {"app", "lib"}
    Others = {"ld", "broken"}
    MaxMaps = 7
    Frames <- MCFrames
    Top = 11
    Lowest = 2
    Highest = 10
    Gran = 2
    ArgHome = 2
    StackTop = 8
    StackSize = 1
    StackCount = 2
VIEW View
SYMMETRY Symmetry
INVARIANTS TypeOK ImagesIntact ProgramRight
CHECK_DEADLOCK FALSE
