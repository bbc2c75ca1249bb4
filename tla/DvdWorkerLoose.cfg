CONSTANTS
    Header = 2
    MaxEntries = 6
    MaxStrings = 4
    MaxDol = 2
    NoName = NoName
    Main = Main
    Worker = Worker
    Players = {p1}
    Nobody = Nobody
    NoFile = NoFile
    NoCmd = NoCmd
    NoTable = NoTable
    Images <- MCImages
    LooseFiles = TRUE
    Offsets = {1, 3}
    Wants = {1, 4}
    MaxOpens = 2
    MaxFaults = 0
SPECIFICATION Spec
INVARIANT OpenerReads
CHECK_DEADLOCK FALSE
