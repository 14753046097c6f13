CONSTANTS
    Repos = {r1}
    Folders = {a}
    Sizes = {1}
    ForeignKeys = FALSE
    Second = 2
    Horizon = 5
    MaxChanges = 2
    MaxFaults = 1
SPECIFICATION FairSpec
INVARIANT FreshRowsAreKept
PROPERTIES ScanIsAccurate LockIsReleased
CHECK_DEADLOCK FALSE
