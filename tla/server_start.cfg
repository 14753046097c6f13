CONSTANTS
    Users = {u1, u2}
    Names = {"bob", "9"}
    BadNames = {"9"}
    Emails = {"m"}
    Repos = {r1, r2, r3}
    Paths <- SortedPaths
    Below <- Nested
    Versions <- OlderVersions
    MaxStarts = 3
    MaxEdits = 2
    Accounts = {a1, a2}
    Outside = {out}
    PublicKeys = {k1, k2}
    Workers = {t1, t2}
    Starter = starter
    NoUser = nobody
    Restricted = TRUE
    MaxChanges = 4
    MaxFaults = 1
    MaxCrashes = 1
SPECIFICATION StartSpec
SYMMETRY Symmetry
INVARIANTS ServedIsUpdated UniqueWhenServing CarriedOver SecondStartIsIdle FileIsCurrent BoundToBaseDir
PROPERTIES RemovedAreCovered
CHECK_DEADLOCK FALSE
