SPECIFICATION Spec
CONSTANTS
  a = a  b = b  c = c
  plain = plain  uses = uses  more = more
  toB = toB  toC = toC
  all = all  some = some
  x = x  y = y
  Binary = Binary  Gone = Gone  None = None
  Files = {a, b, c}
  Mute = {}
  Texts = {plain, uses}
  Specs = {toB}
  SpecsOf <- OneImport
  Candidates <- NamesBorC
  Rules = {x}
  Configs = {all}
  EnabledBy <- EveryRule
  ExcludedBy <- NoExcludes
  Modes = {"repo"}
  Runs = {r1}
  MaxWrites = 3
  MaxRuns = 2
PROPERTY NewFileHeals
CHECK_DEADLOCK FALSE
