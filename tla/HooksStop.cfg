SPECIFICATION BornSpec
INVARIANT TypeOK
INVARIANT BlocksBounded
INVARIANT ToldBeforeSilence
PROPERTY HeldUntilFixed
PROPERTY CommitGated
PROPERTY LoopEnds
CONSTANTS
  f1 = f1  f2 = f2  good = good  bad = bad  s1 = s1  s2 = s2
  Files = {f1}
  Texts = {good, bad}
  Blocking = {bad}
  Gone = Gone
  NoHead = NoHead
  Sessions = {s1, s2}
  MaxRounds = 1
  MaxFaults = 1
CHECK_DEADLOCK FALSE
