------------------------------ MODULE MCRules ------------------------------
(* A small instance of Rules for TLC: a file rule that some builds lock, a *)
(* file rule with a language to turn on, and a graph rule that also reads  *)
(* a file no language names.                                               *)
EXTENDS Rules

CONSTANTS
  secret, debug, rls,   \* rules
  a, b, q,              \* a TypeScript file, a PHP file, a migration
  t1, t2,               \* texts
  dup, brace,           \* lines
  fn,                   \* a symbol
  old, fixed, both, hashed  \* bodies

MCLangOf == [f \in Files |-> IF f = a THEN "ts" ELSE IF f = b THEN "php" ELSE NoLang]

(* t1 holds one line four times, once outside the function and once with a *)
(* locrin:allow mark; t2 does not parse.                                   *)
MCLastLine == [t \in Texts |-> IF t = t1 THEN 5 ELSE 2]
MCContent == [t \in Texts |-> IF t = t1 THEN <<dup, dup, brace, dup, dup>>
                              ELSE <<dup, dup>>]
MCSymbolAt == [t \in Texts |-> IF t = t1 THEN <<fn, fn, None, None, fn>> ELSE <<fn, fn>>]
MCAllowed == [t \in Texts |-> IF t = t1 THEN {5} ELSE {}]
MCFinds == [y \in Bodies |-> [t \in Texts |->
  IF t = t2 THEN {1, 2} ELSE IF y = fixed THEN {1, 5} ELSE {1, 2, 4, 5}]]
(* `hashed` names what it finds by its value: the same line is the same     *)
(* value wherever it stands.                                               *)
MCNames == [y \in Bodies |-> [t \in Texts |-> [l \in 1..MCLastLine[t] |->
  IF y = hashed THEN MCContent[t][l] ELSE None]]]
MCCarries == [y \in Bodies |-> IF y = both THEN "low" ELSE None]

Said(enabled, severity) ==
  [enabled |-> enabled, severity |-> severity, lists |-> FALSE, languages |-> {}]
Nothing == Said(None, None)
On(languages) == [Nothing EXCEPT !.lists = TRUE, !.languages = languages]

Secret == [graph |-> FALSE, languages |-> {"ts", "php"}, off |-> {},
           severity |-> "high", confidence |-> "high", on |-> TRUE,
           locked |-> TRUE, body |-> hashed]
Debug == [graph |-> FALSE, languages |-> {"ts", "php"}, off |-> {"php"},
          severity |-> "low", confidence |-> "high", on |-> TRUE,
          locked |-> FALSE, body |-> old]
Rls == [graph |-> TRUE, languages |-> {"ts"}, off |-> {},
        severity |-> "high", confidence |-> "medium", on |-> TRUE,
        locked |-> FALSE, body |-> both]

Set(s, d, r) == [x \in RuleIds |-> IF x = secret THEN s ELSE IF x = debug THEN d ELSE r]

Build(version, revision, rules) ==
  [version |-> version, revision |-> revision, rules |-> rules]

(* A release; the same tree with a language turned on, and with a rule's   *)
(* body fixed and RULES_REVISION raised.                                   *)
MCEngines == {
  Build(1, 1, Set(Secret, Debug, Rls)),
  Build(1, 1, Set(Secret, [Debug EXCEPT !.off = {}], Rls)),
  Build(1, 2, Set(Secret, [Debug EXCEPT !.body = fixed], Rls)) }

MCConfigs == {
  [also |-> {"php"}, rules |-> Set(Nothing, Nothing, Nothing)],
  [also |-> {}, rules |-> Set(Said(FALSE, "low"), Said(FALSE, None), Nothing)],
  [also |-> {"php"},
   rules |-> Set(Nothing, [On({"php"}) EXCEPT !.severity = "high"], Said(None, "low"))],
  [also |-> {"php"}, rules |-> Set(On({"ts"}), Nothing, Nothing)],
  [also |-> {}, rules |-> Set(Nothing, On({}), Nothing)] }
=============================================================================
