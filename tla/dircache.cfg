CONSTANTS
    Dirs = {d1, d2}
    Names = {n1}
    Threads = {t1}
    Monitor = monitor
    MaxRefresh = 1
    MaxMtime = 2
SPECIFICATION FairSpec
INVARIANTS TypeOK FreshWhenMtimeMatches RegularListing
PROPERTY StaleIsRefreshed
CHECK_DEADLOCK FALSE
