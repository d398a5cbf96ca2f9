CONSTANTS
    o1 = o1
    o2 = o2
    i1 = i1
    i2 = i2
    Instances <- MCInstances
    Indices <- MCIndices
    MayHave <- MCMayHave
    NoIndex = NoIndex
    PausingModes = {TRUE}
    MaxQueued = 2
SPECIFICATION FairHistorySpec
INVARIANTS
    TypeOK
    ClientsConverge
    RestIsExplained
    LitClientsAreFilmedAmongClients
PROPERTIES
    StaleImagesGo
