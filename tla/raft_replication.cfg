\* Two leaders, one of them compacting; two calls in flight, conflicts, late replies.
SPECIFICATION Spec
CONSTANTS
  s1 = s1
  s2 = s2
  s3 = s3
  s4 = s4
  s5 = s5
  Server = {s1, s2}
  Command = {c1}
  Nil = Nil
  Rounds <- Overtaken
  Compacting = {s1}
  Serving = {s1}
  Faulty = {s2}
  MaxIndex = 3
  MaxCalls = 2
  MaxElections = 1
  MaxLinger = 0
  MaxGap = 1
  MaxRestarts = 0
  ChanCap = 1
INVARIANT TypeOK
INVARIANT FollowerHasTimer
INVARIANT LeaderReplicates
INVARIANT DurableState
INVARIANT CommitHasOrigin
INVARIANT LogContiguous
CHECK_DEADLOCK FALSE
