CONSTANTS
    BinNs = 2
    BinCount = 3
    Window = 6
    LateNs = 3
    Durations = {1, 4, 9}
    NoReport = NoReport
    Main = Main
    Workers = {w1}
    Nobody = Nobody
    MaxTries = 2
    AbortInside = FALSE
    MaxCalls = 3
    MaxFaults = 1
SPECIFICATION Spec
INVARIANTS TypeOK StreamsSafe ExitKeeps FramesHonest
PROPERTY ExitEnds
CHECK_DEADLOCK FALSE
