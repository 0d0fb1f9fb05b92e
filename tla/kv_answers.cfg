SPECIFICATION Spec
CONSTANTS
    c1 = c1  c2 = c2
    k1 = k1  k2 = k2
    nServers = 2
    Client = {c1, c2}
    Key = {k1}
    Types = {"Get", "Append"}
    Compacting = FALSE
    MaxOps = 1
    MaxCalls = 4
    MaxRequests = 4
    MaxTerm = 2
    MaxLost = 0
    MaxCrashes = 0
SYMMETRY Clients
INVARIANTS TypeOK AnswerFromLog ClosedOnce
CHECK_DEADLOCK FALSE
