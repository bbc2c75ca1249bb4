CONSTANTS
    Clients = {c1}
    k1 = k1
    k2 = k2
    k3 = k3
    k4 = k4
    h1 = h1
    h2 = h2
    h3 = h3
    small = small
    medium = medium
    big = big
    empty = empty
    Keys = {k1, k2, k3, k4}
    Hashes = {h1, h2, h3}
    Values <- MCValues
    Hash <- MCHash
    Owner <- MCOwner
    Size <- MCSize
    KeySize = 1
    Absent = Absent
    Changed = Changed
    NoAsk = NoAsk
    Budget = 6
    Limit = 2
    MaxPending = 2
    MaxPendingBytes = 6
    MaxStores = 3
    MaxFaults = 1
SPECIFICATION Spec
INVARIANTS TypeOK RamExact ShutdownSaves TornIsRecovered
PROPERTY IsMap
