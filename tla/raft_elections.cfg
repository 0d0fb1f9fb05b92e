\* Two candidates of the same term among five peers; one crashes, its timer fires
\* twice.  The leaders send nothing (MaxGap).
SPECIFICATION Spec
CONSTANTS
  s1 = s1
  s2 = s2
  s3 = s3
  s4 = s4
  s5 = s5
  Server = {s1, s2, s3, s4, s5}
  Command = {c1}
  Nil = Nil
  Rounds <- TwoRivals
  Compacting = {}
  Serving = {}
  Faulty = {s1}
  MaxIndex = 1
  MaxCalls = 1
  MaxElections = 1
  MaxLinger = 1
  MaxGap = 0
  MaxRestarts = 1
  ChanCap = 1
SYMMETRY Passive
INVARIANT FollowerHasTimer
PROPERTY WinnerHasVotes
CHECK_DEADLOCK FALSE
