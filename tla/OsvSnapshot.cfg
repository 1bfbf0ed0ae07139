SPECIFICATION Spec
CONSTANTS
  npm = npm  bare = bare
  ghsa = ghsa  cve = cve  pysec = pysec
  Locks = {npm, bare}
  Ids = {ghsa, cve, pysec}
  Ghsa = {ghsa}
  Rank <- SortOrder
  Safe = {ghsa, cve, pysec}
  MaxEdition = 1
  Listed <- TwoListings
  Aliases <- TwoAliasings
  Chunk = 2
  MaxAge = 1
  MaxDay = 1
  Runs = {r1, r2}
  MaxRuns = 2
  MaxDamage = 1
  None = None  Torn = Torn
INVARIANTS
  TypeOK ReportHonest SkipTold DownCostsOne
PROPERTY Reproducible
SYMMETRY RunSymmetry
CHECK_DEADLOCK FALSE
