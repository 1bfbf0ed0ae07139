SPECIFICATION MCAnswersSpec
CONSTANTS
  secret = secret  debug = debug  rls = rls
  a = a  b = b  q = q
  t1 = t1  t2 = t2
  dup = dup  brace = brace
  fn = fn
  old = old  fixed = fixed  both = both  hashed = hashed
  RuleIds = {secret, debug, rls}
  Langs = {"ts", "php"}
  JsFamily = {"ts"}
  Typo = Typo  NoLang = NoLang  None = None
  Files = {a, b, q}
  LangOf <- MCLangOf
  Texts = {t1, t2}
  Broken = {t2}
  LastLine <- MCLastLine
  Content <- MCContent
  SymbolAt <- MCSymbolAt
  Allowed <- MCAllowed
  Severities = {"high", "low"}
  Bodies = {old, fixed, both, hashed}
  Finds <- MCFinds
  Names <- MCNames
  Carries <- MCCarries
  Engines <- MCEngines
  Configs <- MCConfigs
  MaxMessages = 2
  MaxEvents = 2
INVARIANTS
  IInv ServedTrue LockHolds IdsApart
  GraphSafe RlsTold AdviceGrounded AdviceSafe TreesTold
PROPERTIES AnswersKept EveryoneAnswered
CHECK_DEADLOCK FALSE
