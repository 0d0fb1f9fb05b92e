SPECIFICATION Spec
CONSTANTS
    c1 = c1  c2 = c2
    k1 = k1  k2 = k2
    nServers = 1
    Client = {c1}
    Key = {k1}
    Types = {"Append"}
    Compacting = FALSE
    MaxOps = 2
    MaxCalls = 4
    MaxRequests = 4
    MaxTerm = 1
    MaxLost = 2
    MaxCrashes = 0
INVARIANT AppliedOnce
CHECK_DEADLOCK FALSE
