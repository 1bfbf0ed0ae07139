SPECIFICATION Spec
CONSTANTS
  a = a  b = b  c = c
  plain = plain  uses = uses  more = more
  toB = toB  toC = toC
  all = all  some = some
  x = x  y = y
  Binary = Binary  Gone = Gone  None = None
  Files = {a, b}
  Mute = {}
  Texts = {plain, uses}
  Specs = {toB}
  SpecsOf <- OneImport
  Candidates <- NamesB
  Rules = {x}
  Configs = {all}
  EnabledBy <- EveryRule
  ExcludedBy <- NoExcludes
  Modes = {"changed", "repo"}
  Runs = {r1, r2}
  MaxWrites = 2
  MaxRuns = 3
INVARIANTS
  TypeOK EdgesCurrent
PROPERTIES
  CommitCurrent LostTargetsCaptured
SYMMETRY RunSymmetry
CHECK_DEADLOCK FALSE
