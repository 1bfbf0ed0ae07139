SPECIFICATION Spec
CONSTANTS
  p1 = p1  p2 = p2  q = q
  None = None
  Procs = {p1, p2, q}
  Versions = {4, 5}
  Build <- OneOlder
  Dbs = {d1, d2, d3, d4}
  Rush = TRUE
  MaxFaults = 0
INVARIANTS
  ReadyShares
SYMMETRY FileSymmetry
CHECK_DEADLOCK FALSE
