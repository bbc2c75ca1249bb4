CONSTANTS
    NEntries = 3
    Dirs <- MCDirs
    Length <- MCLength
    Held <- MCHeld
    UserDeletes = TRUE
    MaxFaults = 0
SPECIFICATION Spec
INVARIANT NextLaunchTrusts
CHECK_DEADLOCK FALSE
