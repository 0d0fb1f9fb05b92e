SPECIFICATION Spec
CONSTANTS
    c1 = c1  c2 = c2
    k1 = k1  k2 = k2
    nServers = 2
    Client = {c1}
    Key = {k1}
    Types = {"Put", "Append"}
    Compacting = TRUE
    MaxOps = 2
    MaxCalls = 3
    MaxRequests = 3
    MaxTerm = 1
    MaxLost = 1
    MaxCrashes = 1
INVARIANTS StateFollowsLog AnswerFromLog
CHECK_DEADLOCK FALSE
