SPECIFICATION QuietSpec
CONSTANTS
    Nothing = Nothing
    NoTimer = NoTimer
    r1 = r1
    r2 = r2
    d1 = d1
    d2 = d2
    Readers <- TwoReaders
    Disks <- OneDisk
    Calls <- DiskCalls
    Sectors <- HeadZero
    TimerCount = 2
    PerTrack = 1
    PerHead = 1
    MaxCyl = 3
    CacheSize = 1
    SeekTimeout = 1
INVARIANTS
    TypeOK
    ReadsRight
PROPERTIES
    AllEnd
