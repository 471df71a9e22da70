CONSTANTS
    Client = {c1, c2, c3}
    Capacity = 2
    DiskFails = TRUE
    MaxTime = 0
    MaxRestarts = 1
SPECIFICATION FairSpec
CHECK_DEADLOCK FALSE
PROPERTY EventuallySaved
