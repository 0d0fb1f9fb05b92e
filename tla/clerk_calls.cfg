SPECIFICATION Spec
CONSTANTS
    nServers = 3
    Host = {0, 1, 2}
    Owner = {0, 1, 2, 3}
    Call = {1}
    Reply = {"OK", "ErrWrongLeader"}
    Handles <- Shuffled
    Victims <- Downs
    Sides <- Cuts
INVARIANT TypeOK
INVARIANT ReplyPersisted
PROPERTY RPCPromise
PROPERTY CallReturns
PROPERTY Answered
CHECK_DEADLOCK FALSE
