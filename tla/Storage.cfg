SPECIFICATION StorageSpec
CONSTANTS
  Ids = {i1, i2}
  Severities = {medium, high}
  Writers = {w1, w2}
  Inodes = {n1, n2, n3, n4}
  Torn = Torn  None = None
  Overlap = FALSE
  MaxReports = 2
  MaxKills = 1
  p1 = p1  p2 = p2  q = q
  Procs = {p1, p2, q}
  Versions = {4, 5}
  Build <- OneOlder
  Dbs = {n1, n2, n3, n4}
  MaxFaults = 2
  Wanted <- TwoDocuments
  Variant <- UsersForms
  Own = {"own"}
  MaxEdits = 1
INVARIANTS
  StorageType NeverMislabelled ReadyShares BaselineReadable InitSafe
PROPERTY KeepsPromise
SYMMETRY FileSymmetry
CHECK_DEADLOCK FALSE
