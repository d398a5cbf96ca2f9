CONSTANTS
    Indices = {0, 1}
    Lives = {l1, l2}
    Clients = {c1, c2}
    NoObject = NoObject
    NoClient = NoClient
    MaxCalls = 2
SPECIFICATION Spec
INVARIANTS
    ClientsDriveTheirInstance
