CONSTANTS
    Client = {c1, c2, c3}
    Capacity = 2
    DiskFails = TRUE
    MaxTime = 1
    MaxRestarts = 1
SPECIFICATION Spec
SYMMETRY Symmetry
CHECK_DEADLOCK FALSE
INVARIANTS CleanIsSaved FloodNeedsCapacity
PROPERTY ImplementsWriteBehind
