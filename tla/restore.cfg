CONSTANTS
    Restores = {r1, r2}
    Server = server
    Asked <- DirectoryAndFile
    MaxFiles = 2
    Capacity = 1
    BufferSize = 1
    MaxFaults = 1
SPECIFICATION FairSpec
INVARIANTS SuccessIsComplete RemovedUnlessCut
PROPERTIES ImplementsDownload ThreadIsFreed
CHECK_DEADLOCK FALSE
