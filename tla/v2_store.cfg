SPECIFICATION Spec
CONSTANTS
    EmptyList = l0
    Lists = {l0, l1, l2}
    MaxCounter = 4
    Deployments <- MC_SafeDeployments
INVARIANTS
    TypeOK
    Inductive
    TieImpliesSame
    CountersAdjacent
    HandleIsCurrent
PROPERTIES
    StoredListSurvives
    StoreRefinement
