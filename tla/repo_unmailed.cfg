CONSTANTS
    Repos = {r1, r2}
    Pids = {p1, p2}
    Settings <- WatchedOrNot
    Given <- SomeGiven
    MaxIncrements = 1
    Activity = {TRUE}
    PerDay = 1
    LastStart = 2
    Horizon = 2
SYMMETRY Symmetry
SPECIFICATION Spec
PROPERTY OverdueIsMailed
CHECK_DEADLOCK FALSE
