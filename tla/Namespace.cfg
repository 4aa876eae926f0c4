SPECIFICATION QuietSpec
CONSTANTS
    Disks <- MCDisks
    Tables = {{1, 3}}
    Floppies = {"0"}
    Terminals <- MCTerminals
    Bus <- MCBus
    Decodes <- MCCards
    Wants <- MCCards
    Ports <- MCPorts
    Reserved = 3
    MaxDrivers = 7
    Loadable = {"fdd", "bochsvbe"}
    Unloads = {"bochsvbe"}
    None = None
    Users <- MCUsers
    Opened <- MCOpened
    Modes <- MCModes
    Paths <- MCPaths
    Asked <- MCAsked
    FatDevices <- MCFatDevices
    FatFiles <- MCFatFiles
    Later <- MCLater
    MaxRoot = 4
    ChildStep = 2
    MaxMounts = 4
    Alike = {}
    Before = 0
INVARIANTS
    TypeOK
    DevicesSound
    NamesRight
PROPERTY TreeKept
CHECK_DEADLOCK FALSE
