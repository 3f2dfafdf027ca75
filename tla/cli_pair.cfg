SPECIFICATION FairSpec
CONSTANTS
    None = None
    Absent = Absent
    Procs = {p1, p2}
    Inodes = {i1, i2}
    AllowedRetries = 2
    SysKey = SysKey
    UserKey = UserKey
    v1 = v1
    v2 = v2
    Keys <- MC_Keys
    SysKeys <- MC_SysKeys
    Values = {v1, v2}
    Unserializable <- MC_Unserializable
    PrefixEnforced = TRUE
    Commands <- MC_Commands
INVARIANTS
    TypeOK
    CliInv
    StoresSeparated
    LockedSuccessMeansDone
PROPERTIES
    SystemWritesUnlocked
    RunsEnd
CHECK_DEADLOCK FALSE
