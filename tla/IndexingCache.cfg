SPECIFICATION Spec
CONSTANTS
  a = a  b = b  c = c
  plain = plain  uses = uses  more = more
  toB = toB  toC = toC
  all = all  some = some
  x = x  y = y
  Binary = Binary  Gone = Gone  None = None
  Files = {a}
  Mute = {a}
  Texts = {plain, uses}
  Specs = {}
  SpecsOf <- NoImports
  Candidates <- NamesB
  Rules = {x, y}
  Configs = {all, some}
  EnabledBy <- SomeRules
  ExcludedBy <- SomeExcludesA
  Modes = {"repo", "paths"}
  Runs = {r1, r2}
  MaxWrites = 2
  MaxRuns = 3
INVARIANTS
  IInv StatSound ReportTrue ReportComplete
SYMMETRY RunSymmetry
CHECK_DEADLOCK FALSE
