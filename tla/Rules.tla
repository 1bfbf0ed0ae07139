------------------------------- MODULE Rules -------------------------------
(***************************************************************************)
(* The rule registry and its findings cache: run_rules, run_file_rules,    *)
(* rules_fingerprint, validate_config and anchor_for in                    *)
(* crates/rules/src/lib.rs, with the [rules] and [languages] tables of     *)
(* core/src/config.rs and the cache key of core/src/cache.rs, while the    *)
(* engine is upgraded, the config is edited and files change.              *)
(*                                                                         *)
(* Abstractions.  A text stands for its hash.  What the body of a rule     *)
(* finds in a text is a set of lines.  A graph rule's lines in one file    *)
(* are a function of the row the index has of it, or of the file itself    *)
(* when no language is named by its path; what the rule asks the rows of   *)
(* other files is ImportGraph.  A hash of several fields is the fields.    *)
(* Runs are one at a time here; Indexing interleaves them.  The evidence   *)
(* some rules join to the anchor of a line is left out.                    *)
(***************************************************************************)
EXTENDS Naturals, FiniteSets

CONSTANTS
  RuleIds,     \* the ids any engine ships
  Langs,       \* ALL, the languages the engine parses
  JsFamily,    \* JS_FAMILY
  Typo,        \* a name that is no language
  NoLang,      \* what from_path says of a lockfile or a migration
  Files,       \* repo-relative paths
  LangOf,      \* LangOf[f]: Language::from_path, or NoLang
  Texts,       \* contents of a file
  Broken,      \* texts with a blocking syntax error
  LastLine,    \* LastLine[t]: the number of lines of t
  Content,     \* Content[t][l]: line l of t, trimmed
  SymbolAt,    \* SymbolAt[t][l]: the name of the symbol around line l, or None
  Allowed,     \* Allowed[t]: the lines of t that carry locrin:allow
  Severities,
  Bodies,      \* versions of the body of a rule
  Finds,       \* Finds[b][t]: the lines body b finds in text t
  Names,       \* Names[b][t][l]: what b names a finding on line l by, or None
  Carries,     \* Carries[b]: the severity its findings bring along, or None
  Engines,     \* builds of locrin
  Configs,     \* contents of locrin.toml
  None         \* no row, no override, no answer yet

Lines(t) == 1..LastLine[t]

(* One shipped rule: its answers to the Rule trait. *)
Declaration ==
  [graph : BOOLEAN, languages : SUBSET Langs, off : SUBSET Langs,
   severity : Severities, confidence : {"high", "medium"}, on : BOOLEAN,
   locked : BOOLEAN, body : Bodies]

(* `version` is the crate's, `revision` is RULES_REVISION, `rules` is      *)
(* all_rules().                                                            *)
IsEngine(e) ==
  /\ DOMAIN e = {"version", "revision", "rules"}
  /\ e.version \in Nat /\ e.revision \in Nat
  /\ DOMAIN e.rules \subseteq RuleIds
  /\ \A x \in DOMAIN e.rules : e.rules[x] \in Declaration

(* RuleOverride: every field is optional.  `lists` says languages is set.  *)
Override == [enabled : BOOLEAN \cup {None}, severity : Severities \cup {None},
             lists : BOOLEAN, languages : SUBSET (Langs \cup {Typo})]

(* `also` is the [languages] table. *)
Config == [also : SUBSET (Langs \ JsFamily), rules : [RuleIds -> Override]]

(* What FingerprintOf reads of a rule that does not depend on the config. *)
Declared(d) == [languages |-> d.languages, severity |-> d.severity,
                confidence |-> d.confidence, on |-> d.on]

ASSUME RulesAssumption ==
  /\ NoLang \notin Langs /\ Typo \notin Langs /\ JsFamily \subseteq Langs
  /\ LangOf \in [Files -> Langs \cup {NoLang}]
  /\ Broken \subseteq Texts /\ LastLine \in [Texts -> Nat]
  /\ None \notin Texts /\ None \notin Severities /\ None \notin BOOLEAN
  /\ \A t \in Texts : Allowed[t] \subseteq Lines(t)
  /\ \A b \in Bodies, t \in Texts : Finds[b][t] \subseteq Lines(t)
  /\ \A b \in Bodies, t \in Texts : DOMAIN Names[b][t] = Lines(t)
  /\ Carries \in [Bodies -> Severities \cup {None}]
  /\ \A e \in Engines : IsEngine(e)
  /\ Configs \subseteq Config

(* The discipline RULES_REVISION asks for: two builds that agree on the    *)
(* version, the revision and what the fingerprint can see of a rule agree  *)
(* on the rest of it.                                                      *)
ASSUME RevisionAssumption ==
  \A e, g \in Engines :
    /\ e.version = g.version /\ e.revision = g.revision
    /\ DOMAIN e.rules = DOMAIN g.rules
    => \A x \in DOMAIN e.rules :
         Declared(e.rules[x]) = Declared(g.rules[x]) =>
           /\ e.rules[x].body = g.rules[x].body
           /\ e.rules[x].locked = g.rules[x].locked
           /\ e.rules[x].graph = g.rules[x].graph

VARIABLES
  engine,   \* the build that is installed
  config,   \* locrin.toml
  disk,     \* disk[f]: the text of f
  rows,     \* rows[f]: the text the index last recorded, or None
  cache,    \* cache[f][x]: the findings_cache row, or None
  report    \* the answer of the last run, if nothing changed since

vars == <<engine, config, disk, rows, cache, report>>

-----------------------------------------------------------------------------
(* Faulty forms of definitions below, each a bug this code could have. *)

(* The key as it was: the version and the config. *)
KeyWithoutRules(e, k) == [version |-> e.version, config |-> k]

(* The fingerprint reads the default per language, not the override. *)
KeyWithoutConfig(e, k) ==
  [version |-> e.version, revision |-> e.revision,
   rules |-> [x \in DOMAIN e.rules |-> Declared(e.rules[x])]]

(* The config's severity wins over the lock. *)
SeverityOverLock(d, o) ==
  IF o.severity # None THEN o.severity
  ELSE IF Carries[d.body] # None THEN Carries[d.body] ELSE d.severity

(* A locked rule can be turned off. *)
RunsUnlocked(d, o) == IF o.enabled = None THEN d.on ELSE o.enabled

(* Identical lines are told apart inside a symbol and counted across it. *)
OrdinalAcross(t, l) ==
  Cardinality({m \in 1..(l - 1) : SymbolAt[t][m] # SymbolAt[t][l]
                                  /\ Content[t][m] = Content[t][l]})

(* The cache answers although a rule has no row. *)
ServesPart(f, first) ==
  /\ cache[f][first] # None
  /\ cache[f][first].hash = disk[f]

-----------------------------------------------------------------------------
(* Which rules run, where, and how severe. *)

RuleRuns(d, o) ==
  d.locked \/ IF o.enabled = None THEN d.on ELSE o.enabled

(* language_override: whether the config names the languages of a rule.    *)
Overridden(d, o) == o.lists /\ ~d.locked

(* rule_languages drops a name that is no language. *)
LanguagesOf(d, o) ==
  IF Overridden(d, o) THEN o.languages \cap Langs ELSE d.languages

LanguageAllowed(f, languages) == LangOf[f] \in languages \cup {NoLang}

EnabledForFile(d, f) == LangOf[f] \notin d.off

ReportsOn(d, o, f) ==
  /\ LanguageAllowed(f, LanguagesOf(d, o))
  /\ Overridden(d, o) \/ EnabledForFile(d, f)

SeverityOf(d, o) ==
  IF d.locked THEN d.severity
  ELSE IF o.severity # None THEN o.severity
  ELSE IF Carries[d.body] # None THEN Carries[d.body]
  ELSE d.severity

(* Config::load: a list names languages, and at least one. *)
Loads(k) ==
  \A x \in RuleIds : k.rules[x].lists =>
    k.rules[x].languages # {} /\ Typo \notin k.rules[x].languages

ValidateConfig(e, k) ==
  \A x \in DOMAIN e.rules : k.rules[x].lists =>
    /\ ~e.rules[x].locked
    /\ k.rules[x].languages \cap Langs \subseteq e.rules[x].languages

(* Language::enabled: the files a walk lists. *)
Walked(k) == {f \in Files : LangOf[f] \in JsFamily \cup k.also}

-----------------------------------------------------------------------------
(* Findings. *)

(* The lines above l that read the same inside a symbol of the same name. *)
Earlier(t, l) ==
  {m \in 1..(l - 1) : Content[t][m] = Content[t][l]
                      /\ SymbolAt[t][m] = SymbolAt[t][l]}

Ordinal(t, l) == Cardinality(Earlier(t, l))

AnchorFor(t, l) == <<SymbolAt[t][l], Content[t][l], Ordinal(t, l)>>

(* A rule that reports a line anchors on the line.  One that reports a      *)
(* thing with a name (an import, a test case, a secret value, a route)      *)
(* anchors on the name, wherever and however often it stands.               *)
ByLine(b, t, l) == Names[b][t][l] = None

AnchorOf(b, t, l) == IF ByLine(b, t, l) THEN AnchorFor(t, l) ELSE <<Names[b][t][l]>>

FindingAt(x, d, o, f, l, anchor) ==
  [rule |-> x, file |-> f, line |-> l, anchor |-> anchor,
   severity |-> SeverityOf(d, o), confidence |-> d.confidence]

(* clean_files: what a file rule is handed of one file. *)
Handed(f, t, languages) == t \notin Broken /\ LangOf[f] \in languages

(* The gate on a file parsed in this run. *)
Dropped(t, l) == t \in Broken \/ l \in Allowed[t]

(* run_file_rules, one rule on one file. *)
FileFindings(x, d, o, f, t) ==
  IF ~Handed(f, t, LanguagesOf(d, o)) \/ ~ReportsOn(d, o, f) THEN {}
  ELSE {FindingAt(x, d, o, f, l, AnchorOf(d.body, t, l)) :
          l \in {m \in Finds[d.body][t] : ~Dropped(t, m)}}

(* run_rules with one graph rule on one file.  The gate asks the row for a *)
(* file this run did not parse, and a file without a row passes.  Anchors  *)
(* of graph rules are their own and not modelled.                          *)
GraphFindings(x, d, o, f, row, parsed) ==
  LET seen == IF LangOf[f] = NoLang THEN disk[f] ELSE row
      text == IF f \in parsed THEN disk[f] ELSE row
  IN IF seen = None \/ ~ReportsOn(d, o, f) THEN {}
     ELSE {FindingAt(x, d, o, f, l, None) :
             l \in {m \in Finds[d.body][seen] :
                      text = None \/ ~Dropped(text, m)}}

FileRules(e, k) ==
  {x \in DOMAIN e.rules : ~e.rules[x].graph /\ RuleRuns(e.rules[x], k.rules[x])}

GraphRules(e, k) ==
  {x \in DOMAIN e.rules : e.rules[x].graph /\ RuleRuns(e.rules[x], k.rules[x])}

(* The file rules over one text, and the graph rules over the index. *)
OnFile(e, k, f, t) ==
  UNION {FileFindings(x, e.rules[x], k.rules[x], f, t) : x \in FileRules(e, k)}

OnFiles(e, k, S) == UNION {OnFile(e, k, f, disk[f]) : f \in S}

OnIndex(e, k, index, parsed) ==
  UNION {GraphFindings(x, e.rules[x], k.rules[x], f, index[f], parsed) :
           x \in GraphRules(e, k), f \in Files}

-----------------------------------------------------------------------------
(* The cache's key. *)

(* The languages a rule reports on under a config. *)
Reports(d, o) ==
  {language \in Langs : /\ language \in LanguagesOf(d, o)
                        /\ Overridden(d, o) \/ language \notin d.off}

RulePrints(e, k) ==
  [x \in DOMAIN e.rules |->
     [declared |-> Declared(e.rules[x]),
      reports |-> Reports(e.rules[x], k.rules[x])]]

FingerprintOf(e, k) ==
  [revision |-> e.revision, rules |-> RulePrints(e, k)]

(* config_hash *)
Key(e, k) ==
  [version |-> e.version, rules |-> FingerprintOf(e, k), config |-> k]

(* load_all and serve: a file's rows are read under the hashes of the      *)
(* first of them, and every enabled rule must have one.                    *)
Serves(f, first) ==
  /\ cache[f][first] # None
  /\ cache[f][first].hash = disk[f]
  /\ cache[f][first].key = Key(engine, config)
  /\ \A x \in FileRules(engine, config) :
       /\ cache[f][x] # None
       /\ cache[f][x].hash = cache[f][first].hash
       /\ cache[f][x].key = cache[f][first].key

HasRows(f) == \E x \in RuleIds : cache[f][x] # None

ServedFindings(f) == UNION {cache[f][x].found : x \in FileRules(engine, config)}

FromCache(S) == UNION {ServedFindings(f) : f \in S}

-----------------------------------------------------------------------------
Init ==
  /\ engine \in Engines /\ config \in Configs
  /\ disk \in [Files -> Texts]
  /\ rows = [f \in Files |-> None]
  /\ cache = [f \in Files |-> [x \in RuleIds |-> None]]
  /\ report = None

(* A release, or a developer's next build. *)
Upgrade(e) ==
  /\ engine' = e /\ report' = None
  /\ UNCHANGED <<config, disk, rows, cache>>

Configure(k) ==
  /\ config' = k /\ report' = None
  /\ UNCHANGED <<engine, disk, rows, cache>>

Edit(f, t) ==
  /\ disk' = [disk EXCEPT ![f] = t] /\ report' = None
  /\ UNCHANGED <<engine, config, rows, cache>>

Valid == Loads(config) /\ ValidateConfig(engine, config)

(* The `files` rows a run leaves. *)
Indexed(k) == [f \in Files |-> IF f \in Walked(k) THEN disk[f] ELSE None]

Changed == {f \in Walked(config) : rows[f] # disk[f]}

(* Rows for every rule the build ships, not for the ones that ran. *)
RecordsAll(parsed) ==
  /\ rows' = Indexed(config)
  /\ cache' = [f \in Files |-> [x \in RuleIds |->
       IF f \in parsed /\ x \in DOMAIN engine.rules
         THEN [hash |-> disk[f], key |-> Key(engine, config),
               found |-> {g \in OnFile(engine, config, f, disk[f]) : g.rule = x}]
       ELSE IF f \in Walked(config) \ Changed THEN cache[f][x]
       ELSE None]]
  /\ UNCHANGED <<engine, config, disk>>

(* Recording, remove_missing and write_cache: a changed or departed file   *)
(* loses its rows, and the parsed ones get one per enabled file rule.      *)
Records(parsed) ==
  /\ rows' = Indexed(config)
  /\ cache' = [f \in Files |-> [x \in RuleIds |->
       IF f \in parsed /\ x \in FileRules(engine, config)
         THEN [hash |-> disk[f], key |-> Key(engine, config),
               found |-> FileFindings(x, engine.rules[x], config.rules[x], f, disk[f])]
       ELSE IF f \in Walked(config) \ Changed THEN cache[f][x]
       ELSE None]]
  /\ UNCHANGED <<engine, config, disk>>

(* A whole-repository run: what the cache does not answer is parsed.  Any  *)
(* of a file's rows may be the first that load_all reads.                  *)
CheckAll ==
  /\ Valid
  /\ \E served \in SUBSET (Walked(config) \ Changed) :
       LET parsed == Walked(config) \ served
       IN /\ \A f \in served : \E first \in RuleIds : Serves(f, first)
          /\ \A f \in parsed \ Changed : HasRows(f) =>
               \E first \in RuleIds : cache[f][first] # None /\ ~Serves(f, first)
          /\ Records(parsed)
          /\ report' = FromCache(served) \cup OnFiles(engine, config, parsed)
                         \cup OnIndex(engine, config, Indexed(config), parsed)

(* A run over named files parses them and whatever else changed.  What it  *)
(* reports is narrowed to a scope: see Reporting.                          *)
CheckNamed(S) ==
  /\ Valid
  /\ Records((S \cap Walked(config)) \cup Changed)
  /\ report' = None

Next ==
  \/ \E e \in Engines : Upgrade(e)
  \/ \E k \in Configs : Configure(k)
  \/ \E f \in Files, t \in Texts : Edit(f, t)
  \/ CheckAll
  \/ \E S \in SUBSET Files : CheckNamed(S)

Spec == Init /\ [][Next]_vars

-----------------------------------------------------------------------------
(* Properties. *)

(* The findings_cache table: every row is what one rule, run by some build *)
(* under some config, found in the text it is keyed by.                    *)
RowTrue(f, x, row) ==
  /\ row.hash \in Texts
  /\ \E e \in Engines, k \in Configs :
       /\ row.key = Key(e, k)
       /\ x \in FileRules(e, k)
       /\ row.found = FileFindings(x, e.rules[x], k.rules[x], f, row.hash)

CacheTrue ==
  \A f \in Files, x \in RuleIds : cache[f][x] # None => RowTrue(f, x, cache[f][x])

TypeOK ==
  /\ engine \in Engines /\ config \in Configs
  /\ disk \in [Files -> Texts]
  /\ rows \in [Files -> Texts \cup {None}]

IInv == TypeOK /\ CacheTrue

(* What the rules would say with nothing in the cache. *)
Answer(e, k) ==
  OnFiles(e, k, Walked(k)) \cup OnIndex(e, k, Indexed(k), Walked(k))

(* Whatever builds and configs wrote the cache, a whole-repository run     *)
(* answers what this build's rules find in this tree under this config:    *)
(* serving a row never changes the answer.                                 *)
ServedTrue == report # None => report = Answer(engine, config)

(* Config k with nothing said of rule x. *)
Silent(k, x) ==
  [k EXCEPT !.rules[x] = [enabled |-> None, severity |-> None,
                          lists |-> FALSE, languages |-> {}]]

(* Nothing the [rules] table says can silence a locked rule, narrow where  *)
(* it reports or change the severity it reports with.                      *)
LockHolds ==
  report # None =>
    \A x \in DOMAIN engine.rules : engine.rules[x].locked =>
      {f \in report : f.rule = x} = {f \in Answer(engine, Silent(config, x)) : f.rule = x}

(* finding.rs: "the caller's anchor gives every occurrence its own id".     *)
(* Two lines that a file rule reports as lines never share an id, however  *)
(* alike they read and whoever wrote the row they are served from:         *)
(* accepting one into the baseline leaves the other.  It does not speak of *)
(* findings that are named: those of one name share their id.              *)
AsLine(f) ==
  LET rule == engine.rules[f.rule]
  IN ~rule.graph /\ ByLine(rule.body, disk[f.file], f.line)

IdsApart ==
  report # None =>
    \A f, g \in report :
      /\ f.rule = g.rule /\ f.file = g.file /\ f.anchor = g.anchor
      /\ AsLine(f) /\ AsLine(g)
      => f.line = g.line
=============================================================================
