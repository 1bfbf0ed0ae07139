SPECIFICATION UnbornSpec
PROPERTY HeldUntilFixed
CONSTANTS
  f1 = f1  f2 = f2  good = good  bad = bad  s1 = s1  s2 = s2
  Files = {f1}
  Texts = {good, bad}
  Blocking = {bad}
  Gone = Gone
  NoHead = NoHead
  Sessions = {s1}
  MaxRounds = 2
  MaxFaults = 0
CHECK_DEADLOCK FALSE
