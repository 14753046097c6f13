CONSTANTS
    Names = {n1, n2}
    Versions = {v1, v2}
    Threads = {t1}
    Unwanted = {n1}
    MaxChanged = 1
    MaxDate = 3
SYMMETRY Symmetry
SPECIFICATION PromptSpec
INVARIANTS NothingIsHidden EveryVersionIsOffered OfferedDatesRestore
PROPERTY DoneMeansGone
CHECK_DEADLOCK FALSE
