SPECIFICATION Spec
CONSTANTS
    f1 = f1  f2 = f2
    w1 = w1  w2 = w2  w3 = w3
    File = {f1, f2}
    nReduce = 1
    Emits <- AllToAll
    Worker = {w1, w2}
    MaxMapErrors = 0
    MaxReduceErrors = 0
    MaxCrashes = 0
INVARIANT OutputComplete
CHECK_DEADLOCK FALSE
