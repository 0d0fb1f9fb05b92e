\* Two candidates, a voter and two commands.
SPECIFICATION Spec
CONSTANTS
  s1 = s1
  s2 = s2
  s3 = s3
  s4 = s4
  s5 = s5
  Server = {s1, s2, s3}
  Command = {c1, c2}
  Nil = Nil
  Rounds <- TwoRivals
  Compacting = {}
  Serving = {s1, s2, s3}
  Faulty = {}
  MaxIndex = 2
  MaxCalls = 2
  MaxElections = 1
  MaxLinger = 0
  MaxGap = 1
  MaxRestarts = 0
  ChanCap = 1
INVARIANT AppliedAgree
CHECK_DEADLOCK FALSE
