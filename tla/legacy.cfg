SPECIFICATION Spec
CONSTANTS
    Bare = Bare
    Damaged = Damaged
    Texts <- MC_Texts
    Keys <- MC_Keys
    Values <- MC_Values
    MaxEntries = 3
    Deployments <- MC_Deployments
INVARIANTS
    TypeOK
    ScanIsLineWise
    RewriteKeepsList
PROPERTIES
    LegacyStore
