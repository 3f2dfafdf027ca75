SPECIFICATION LockFairSpec
CONSTANTS
    None = None
    Procs = {p1, p2, p3}
    Inodes = {i1, i2, i3}
    AllowedRetries = 2
INVARIANTS
    ManyInv
    ExclusionUnlessLost
    LockedIsNamed
    LockfileRemoved
PROPERTIES
    AloneAcquires
CHECK_DEADLOCK FALSE
