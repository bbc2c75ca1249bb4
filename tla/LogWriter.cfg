CONSTANTS
    Clients = {c1, c2}
    Exiters = {c1}
    small = small
    large = large
    huge = huge
    Recs = {small, large, huge}
    Size <- MCSize
    Capacity = 2
    Blank = Blank
    MaxFlush = 1
    MaxFaults = 0
SPECIFICATION Spec
INVARIANTS TypeOK StreamIntact FlushCommits LossesAnnounced NoStrandedWaiter ShutdownDrains
CHECK_DEADLOCK FALSE
