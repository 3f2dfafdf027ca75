SPECIFICATION Spec
CONSTANTS
    None = None
    Absent = Absent
    Procs = {p1, p2, p3}
    Inodes = {i1, i2, i3}
    AllowedRetries = 1
    SysKey = SysKey
    UserKey = UserKey
    v1 = v1
    v2 = v2
    Keys = {UserKey}
    SysKeys = {}
    Values = {v1}
    Unserializable = {}
    PrefixEnforced = TRUE
    Commands <- MC_Changes
SYMMETRY MC_Symmetry
INVARIANTS
    SnapshotIsCurrent

    
CHECK_DEADLOCK FALSE
