SPECIFICATION Spec
CONSTANTS
    None = None
    Absent = Absent
    Procs = {p1, p2}
    Inodes = {i1, i2}
    AllowedRetries = 1
    SysKey = SysKey
    UserKey = UserKey
    v1 = v1
    v2 = v2
    Keys <- MC_Keys
    SysKeys <- MC_SysKeys
    Values = {v1, v2}
    Unserializable = {}
    PrefixEnforced = TRUE
    Commands <- MC_FewCommands
INVARIANTS
    SuccessMeansDone
CHECK_DEADLOCK FALSE
