CONSTANTS
    Repos = {r1}
    Pids = {p1, p2}
    Settings <- SomeSettings
    MaxIncrements = 2
    Activity = {TRUE}
    PerDay = 1
    LastStart = 2
    Horizon = 3
    Given <- SomeGiven
SYMMETRY Symmetry
SPECIFICATION Spec
PROPERTY InterruptedIsTold
CHECK_DEADLOCK FALSE
