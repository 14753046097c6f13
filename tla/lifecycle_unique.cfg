CONSTANTS
    Users = {u1}
    Roots = {d1}
    Paths = {p1, p2}
    Threads = {t1, t2}
    Slots = {s1, s2}
    MaxRow = 2
    Operations = {"deleteRepo", "deleteUserData", "deleteUser", "setStatus", "refresh"}
    MaxRequests = 4
    MaxCrashes = 1
    MaxFaults = 1
    ForeignKeys = TRUE
SPECIFICATION Spec
SYMMETRY Symmetry
INVARIANTS TypeOK NoOrphanRepo
PROPERTIES OnlyScheduledDataIsDeleted WalkLeavesOneRecord
CHECK_DEADLOCK FALSE
