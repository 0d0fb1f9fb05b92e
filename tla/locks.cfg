SPECIFICATION Spec
CONSTANTS
  Handler = {h1}
  Peer = {p1}
  MaxBatch = 1
  MaxTimers = 2
  MaxElections = 1
  ChanCap = 1
  None = None
INVARIANT TypeOK
PROPERTY MakeReturns
PROPERTY StartReturns
PROPERTY HandlerReturns
PROPERTY KilledTimersEnd
CHECK_DEADLOCK FALSE
