SPECIFICATION QuietSpec
CONSTANTS
    KeyMap <- MCKeyMap
    Shifts = {"L", "R"}
    Caps = "C"
    Printable = {"a"}
    Width = 4
    Tab = 2
    Rows = 2
    TermSize = 8
    Terms = {1, 2}
    Current = 1
    Default = "plain"
    Yellow = "yellow"
    None = None
    Boot = boot
    Vm = vm
    Nobody = nobody
    Procs = {boot, p, q}
    P = p
    Q = q
    Codes <- MCCodes
    Sizes <- MCSizes
    HasVbe = {TRUE, FALSE}
    Garbage = Garbage
    Programs <- MCPrograms
    Typings <- MCTypings
INVARIANTS
    TypeOK
    TerminalRight
    DisplayRight
PROPERTY Served
CHECK_DEADLOCK FALSE
