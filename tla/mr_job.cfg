SPECIFICATION Spec
CONSTANTS
    f1 = f1  f2 = f2
    w1 = w1  w2 = w2  w3 = w3
    File = {f1, f2}
    nReduce = 2
    Emits <- Uneven
    Worker = {w1, w2}
    MaxMapErrors = 1
    MaxReduceErrors = 1
    MaxCrashes = 1
SYMMETRY Workers
INVARIANTS TypeOK NoFileForgotten
PROPERTY FinishedMapStays
CHECK_DEADLOCK FALSE
