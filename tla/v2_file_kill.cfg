SPECIFICATION Spec
CONSTANTS
    EmptyList = l0
    Lists = {l0, l1}
    MaxCounter = 3
    Deployments <- MC_FileWithKill
INVARIANTS
    ReadableWithFallback
