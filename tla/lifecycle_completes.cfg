CONSTANTS
    Users = {u1}
    Roots = {d1, d2}
    Paths = {p1}
    Threads = {t1, t2}
    Slots = {s1, s2}
    MaxRow = 2
    Operations = {"deleteRepo", "deleteUserData", "deleteUser", "refresh", "setRoot"}
    MaxRequests = 4
    MaxCrashes = 0
    MaxFaults = 0
    ForeignKeys = FALSE
SPECIFICATION FairSpec
INVARIANT DeletionInProgress
PROPERTY DeletionCompletes
CHECK_DEADLOCK FALSE
