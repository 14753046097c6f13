CONSTANTS
    FirstDays <- WinterFirstDays
    Monday = 6
    FirstDay = 62
    LastDay = 126
    TimeRanges = {0, 1, 7, 30}
    MaxFaults = 1
SPECIFICATION ReportSpec
INVARIANT EveryPeriod
CHECK_DEADLOCK FALSE
