SPECIFICATION Spec
CONSTANTS
  Ids = {i1, i2}
  Severities = {medium, high}
  Writers = {w1, w2}
  Inodes = {n1, n2, n3, n4}
  Torn = Torn  None = None
  Overlap = TRUE
  MaxReports = 2
  MaxKills = 0
INVARIANTS
  BaselineReadable
CHECK_DEADLOCK FALSE
