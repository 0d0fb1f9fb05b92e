SPECIFICATION FairSpec
CONSTANTS
    f1 = f1  f2 = f2
    w1 = w1  w2 = w2  w3 = w3
    File = {f1}
    nReduce = 2
    Emits <- AllToAll
    Worker = {w1, w2}
    MaxMapErrors = 1
    MaxReduceErrors = 0
    MaxCrashes = 1
INVARIANT OutputComplete
PROPERTY Termination
CHECK_DEADLOCK FALSE
