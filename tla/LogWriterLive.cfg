CONSTANTS
    Clients = {c1, c2}
    Exiters = {c1}
    small = small
    large = large
    huge = huge
    Recs = {huge}
    Size <- MCSize
    Capacity = 2
    Blank = Blank
    MaxFlush = 1
    MaxFaults = 1
SPECIFICATION FairSpec
PROPERTIES FlushReturns ShutdownEnds
CHECK_DEADLOCK FALSE
