SPECIFICATION Spec
CONSTANTS
    EmptyList = l0
    Lists = {l0, l1, l2}
    MaxCounter = 3
    Deployments <- MC_FileWithPowerLoss
PROPERTIES
    StoredListSurvives
