CONSTANTS
    BinNs = 2
    BinCount = 3
    Window = 6
    LateNs = 3
    Durations = {9}
    NoReport = NoReport
    Main = Main
    Workers = {w1}
    Nobody = Nobody
    MaxTries = 2
    AbortInside = TRUE
    MaxCalls = 3
    MaxFaults = 0
SPECIFICATION Spec
PROPERTY ExitEnds
CHECK_DEADLOCK FALSE
