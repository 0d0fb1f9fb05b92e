\* All histories of up to three operations on two keys.
SPECIFICATION Spec
CONSTANTS
  Request <- Requests
  MaxOps = 3
  WordBits = 2
INVARIANT TypeOK
INVARIANT VerdictRight
INVARIANT SearchConsistent
INVARIANT PartialsRight
PROPERTY CheckReturns
CHECK_DEADLOCK FALSE
