CONSTANTS
    Indices = {0, 1}
    Lives = {l1, l2}
    Clients = {c1, c2}
    NoObject = NoObject
    NoClient = NoClient
    MaxCalls = 2
SPECIFICATION FairSpec
INVARIANTS
    TypeOK
    ClientsHoldStartedInstances
PROPERTIES
    ImplementsInstanceLife
    StoppedInstancesGo
    StartsAreAnswered
