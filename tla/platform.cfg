SPECIFICATION Spec
CONSTANTS
    Absent = Absent
    Erased = Erased
    Bare = Bare
    Damaged = Damaged
    U32Fields = {"config1"}
    U64Fields = {"ddrc_size"}
    Keys = {"name", "config1", "ddrc_size", "other"}
    Max32 = 1
    Max64 = 3
    MaxNumber = 4
    SetTexts <- MC_SetTexts
    Deployments <- MC_Deployments
INVARIANTS
    TypeOK
    PlatformInv
    HeaderRoundTrip
    NumbersKept
    ProtectionRestored
PROPERTIES
    WritesUnprotected
    PlatformStore
