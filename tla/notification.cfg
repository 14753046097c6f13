CONSTANTS
    Repos = {r1}
    Pids = {p1, p2}
    Settings <- SomeSettings
    MaxIncrements = 3
    Activity = {TRUE}
    PerDay = 1
    LastStart = 4
    Horizon = 7
    Given <- SomeGiven
    FirstDays <- WinterFirstDays
    Monday = 6
    FirstDay = 62
    LastDay = 126
    TimeRanges = {0, 1, 7, 30}
    MaxFaults = 1
SYMMETRY Symmetry
SPECIFICATION NotificationSpec
INVARIANTS TypeOK OverdueIsCounted EveryOtherPeriod
PROPERTIES StatusIsTrue KeepdaysAreKept NoDayReportedTwice WholePeriod
CHECK_DEADLOCK FALSE
