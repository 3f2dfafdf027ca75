SPECIFICATION Spec
CONSTANTS
    Bare = Bare
    Damaged = Damaged
    Texts <- MC_FewTexts
    Keys <- MC_OddKeys
    Values <- MC_OddValues
    MaxEntries = 2
    Deployments <- MC_NoFaults
INVARIANTS
    CommittedIsRead
