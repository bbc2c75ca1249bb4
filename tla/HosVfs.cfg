CONSTANTS
    Conns = {c1, c2, c3}
    Paths = {db, journal}
    NoPath = NoPath
    MaxFaults = 1
SYMMETRY ConnSymmetry
SPECIFICATION Spec
INVARIANTS TypeOK HandleShared DirtyReachable Exclusion NoStaleLock
