CONSTANTS
    NEntries = 3
    Dirs <- MCDirs
    Length <- MCLength
    Held <- MCHeld
    UserDeletes = FALSE
    MaxFaults = 2
SPECIFICATION FairSpec
INVARIANTS TypeOK ManifestCovers NoTornFile ResultHonest NoLeftover
PROPERTY ExtractEnds
CHECK_DEADLOCK FALSE
