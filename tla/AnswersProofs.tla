---------------------------- MODULE AnswersProofs ----------------------------
(***************************************************************************)
(* Theorems of the parts of Answers.                                       *)
(*                                                                         *)
(* Rules, for every rule set, engine, config and text: the key determines  *)
(* what each file rule finds (KeyDetermines), so a row some build wrote    *)
(* (CacheTrue, inductive) is what the installed build would write whenever *)
(* the keys agree.                                                         *)
(*                                                                         *)
(* McpServer, for any number of messages and events: what was sent is the  *)
(* answers to what was taken, less those of the call in hand (ServerInv).  *)
(*                                                                         *)
(* ImportGraph, for every repository (GraphHolds).                         *)
(*                                                                         *)
(* Versions, for every set of versions read (AdviceOrders), and Lockfiles, *)
(* for every pair of trees of lockfiles (LocksHold).                       *)
(***************************************************************************)
EXTENDS Answers, SequencesExt, FiniteSetTheorems, SequenceTheorems, WellFoundedInduction, TLAPS

-----------------------------------------------------------------------------
(* The rules behind their cache. *)

(* Two lines of a text never share an anchor: the lines above the later    *)
(* one that read like it include the earlier one and all above that.       *)
LEMMA EarlierGrows ==
  ASSUME NEW t \in Texts, NEW l \in Nat, NEW m \in Nat, l >= 1, l < m,
         Content[t][l] = Content[t][m], SymbolAt[t][l] = SymbolAt[t][m]
  PROVE  Ordinal(t, l) < Ordinal(t, m)
<1>1. IsFiniteSet(Earlier(t, m))
  <2>1. IsFiniteSet(1..(m - 1))
    <3>1. 1 \in Int /\ m - 1 \in Int  OBVIOUS
    <3> QED  BY ONLY <3>1, FS_Interval
  <2>2. Earlier(t, m) \subseteq 1..(m - 1)  BY DEF Earlier
  <2> QED  BY <2>1, <2>2, FS_Subset
<1>2. Earlier(t, l) \cup {l} \subseteq Earlier(t, m)  BY DEF Earlier
<1>3. l \notin Earlier(t, l)  BY DEF Earlier
<1>4. IsFiniteSet(Earlier(t, l))  BY <1>1, <1>2, FS_Subset
<1>5. /\ IsFiniteSet(Earlier(t, l) \cup {l})
      /\ Cardinality(Earlier(t, l) \cup {l}) = Cardinality(Earlier(t, l)) + 1
  BY <1>3, <1>4, FS_AddElement
<1>6. Cardinality(Earlier(t, l) \cup {l}) <= Cardinality(Earlier(t, m))
  BY <1>1, <1>2, FS_Subset
<1>7. Cardinality(Earlier(t, l)) \in Nat /\ Cardinality(Earlier(t, m)) \in Nat
  BY <1>1, <1>4, FS_CardinalityType
<1> QED  BY <1>5, <1>6, <1>7 DEF Ordinal

LEMMA OrdinalType ==
  ASSUME NEW t \in Texts, NEW l \in Nat
  PROVE  Ordinal(t, l) \in Nat
<1>1. IsFiniteSet(1..(l - 1))  BY FS_Interval
<1>2. Earlier(t, l) \subseteq 1..(l - 1)  BY DEF Earlier
<1> QED  BY <1>1, <1>2, FS_Subset, FS_CardinalityType DEF Ordinal

(* anchor_for gives every line of a file an anchor of its own. *)
THEOREM AnchorsApart ==
  ASSUME NEW t \in Texts, NEW l \in Lines(t), NEW m \in Lines(t),
         AnchorFor(t, l) = AnchorFor(t, m)
  PROVE  l = m
<1>0. l \in Nat /\ m \in Nat /\ l >= 1 /\ m >= 1
  BY RulesAssumption DEF Lines
<1>1. /\ Content[t][l] = Content[t][m] /\ SymbolAt[t][l] = SymbolAt[t][m]
      /\ Ordinal(t, l) = Ordinal(t, m)
  BY DEF AnchorFor
<1>2. ~(l < m)  BY <1>0, <1>1, EarlierGrows, OrdinalType
<1>3. ~(m < l)  BY <1>0, <1>1, EarlierGrows, OrdinalType
<1> QED  BY <1>0, <1>2, <1>3

-----------------------------------------------------------------------------
(* The cache key sees everything a file rule's findings depend on besides  *)
(* the text: rules_fingerprint with config_hash, under the discipline of   *)
(* RULES_REVISION.                                                         *)
LEMMA KeyDetermines ==
  ASSUME NEW e \in Engines, NEW g \in Engines, NEW k \in Configs, NEW j \in Configs,
         Key(e, k) = Key(g, j), NEW x \in DOMAIN e.rules
  PROVE  /\ k = j
         /\ x \in DOMAIN g.rules
         /\ x \in FileRules(e, k) <=> x \in FileRules(g, j)
         /\ \A f \in Files, t \in Texts :
              FileFindings(x, e.rules[x], k.rules[x], f, t)
                = FileFindings(x, g.rules[x], j.rules[x], f, t)
<1>1. /\ k = j /\ e.version = g.version
      /\ FingerprintOf(e, k) = FingerprintOf(g, j)
  BY DEF Key
<1>2. /\ e.revision = g.revision /\ DOMAIN e.rules = DOMAIN g.rules
      /\ \A y \in DOMAIN e.rules :
           /\ Declared(e.rules[y]) = Declared(g.rules[y])
           /\ Reports(e.rules[y], k.rules[y]) = Reports(g.rules[y], j.rules[y])
  <2>1. e.revision = g.revision /\ RulePrints(e, k) = RulePrints(g, j)
    BY <1>1 DEF FingerprintOf
  <2>2. DOMAIN e.rules = DOMAIN g.rules  BY <2>1 DEF RulePrints
  <2>3. ASSUME NEW y \in DOMAIN e.rules
        PROVE  /\ Declared(e.rules[y]) = Declared(g.rules[y])
               /\ Reports(e.rules[y], k.rules[y]) = Reports(g.rules[y], j.rules[y])
    <3>1. RulePrints(e, k)[y] = RulePrints(g, j)[y]  BY <2>1
    <3>2. /\ RulePrints(e, k)[y].declared = Declared(e.rules[y])
          /\ RulePrints(e, k)[y].reports = Reports(e.rules[y], k.rules[y])
      BY DEF RulePrints
    <3>3. /\ RulePrints(g, j)[y].declared = Declared(g.rules[y])
          /\ RulePrints(g, j)[y].reports = Reports(g.rules[y], j.rules[y])
      BY <2>2 DEF RulePrints
    <3> QED  BY <3>1, <3>2, <3>3
  <2> QED  BY <2>1, <2>2, <2>3
<1>3. /\ e.rules[x].body = g.rules[x].body
      /\ e.rules[x].locked = g.rules[x].locked
      /\ e.rules[x].graph = g.rules[x].graph
  BY <1>1, <1>2, RevisionAssumption
<1>4. /\ e.rules[x].languages = g.rules[x].languages
      /\ e.rules[x].severity = g.rules[x].severity
      /\ e.rules[x].confidence = g.rules[x].confidence
      /\ e.rules[x].on = g.rules[x].on
  BY <1>2 DEF Declared
<1> DEFINE d == e.rules[x]  c == g.rules[x]  o == k.rules[x]
<1>5. o = j.rules[x]  BY <1>1
<1>6. /\ Overridden(d, o) = Overridden(c, o)
      /\ LanguagesOf(d, o) = LanguagesOf(c, o)
      /\ SeverityOf(d, o) = SeverityOf(c, o)
      /\ RuleRuns(d, o) = RuleRuns(c, o)
  BY <1>3, <1>4 DEF Overridden, LanguagesOf, SeverityOf, RuleRuns
<1>7. x \in FileRules(e, k) <=> x \in FileRules(g, j)
  BY <1>2, <1>3, <1>5, <1>6 DEF FileRules
<1>8. ASSUME NEW f \in Files, NEW t \in Texts
      PROVE  FileFindings(x, d, o, f, t) = FileFindings(x, c, o, f, t)
  <2>1. Handed(f, t, LanguagesOf(d, o)) <=> Handed(f, t, LanguagesOf(c, o))  BY <1>6
  <2>2. ASSUME Handed(f, t, LanguagesOf(d, o))
        PROVE  ReportsOn(d, o, f) <=> ReportsOn(c, o, f)
    <3>1. LangOf[f] \in LanguagesOf(d, o)  BY <2>2 DEF Handed
    <3>2. LangOf[f] \in Langs
      <4>1. e.rules[x] \in Declaration  BY RulesAssumption DEF IsEngine
      <4>2. LanguagesOf(d, o) \subseteq Langs  BY <4>1 DEF LanguagesOf, Declaration
      <4> QED  BY <3>1, <4>2
    <3>3. Reports(d, o) = Reports(c, o)  BY <1>2, <1>5
    <3>4. LangOf[f] \in Reports(d, o) <=> ReportsOn(d, o, f)
      BY <3>1, <3>2 DEF Reports, ReportsOn, LanguageAllowed,
             EnabledForFile
    <3>5. LangOf[f] \in Reports(c, o) <=> ReportsOn(c, o, f)
      BY <1>5, <1>6, <3>1, <3>2 DEF Reports, ReportsOn, LanguageAllowed,
             EnabledForFile
    <3> QED  BY <3>3, <3>4, <3>5
  <2>3. \A l : FindingAt(x, d, o, f, l, AnchorOf(d.body, t, l))
               = FindingAt(x, c, o, f, l, AnchorOf(c.body, t, l))
    BY <1>3, <1>4, <1>6 DEF FindingAt
  <2> QED  BY <1>3, <2>1, <2>2, <2>3 DEF FileFindings
<1> QED  BY <1>1, <1>2, <1>5, <1>7, <1>8

-----------------------------------------------------------------------------
LEMMA RecordsTrue ==
  ASSUME IInv, NEW parsed \in SUBSET Walked(config), Records(parsed)
  PROVE  IInv'
<1>1. TypeOK'  BY DEF IInv, TypeOK, Records, Indexed
<1>2. ASSUME NEW f \in Files, NEW x \in RuleIds, cache'[f][x] # None
      PROVE  RowTrue(f, x, cache'[f][x])
  <2>1. CASE f \in parsed /\ x \in FileRules(engine, config)
    <3> DEFINE row == [hash |-> disk[f], key |-> Key(engine, config),
                 found |-> FileFindings(x, engine.rules[x], config.rules[x], f, disk[f])]
    <3>1. cache'[f][x] = row  BY <2>1 DEF Records
    <3>2. /\ row.hash = disk[f] /\ row.key = Key(engine, config)
          /\ row.found = FileFindings(x, engine.rules[x], config.rules[x], f, disk[f])
      OBVIOUS
    <3>3. disk[f] \in Texts /\ engine \in Engines /\ config \in Configs
      BY DEF IInv, TypeOK
    <3> HIDE DEF row
    <3> QED  BY <2>1, <3>1, <3>2, <3>3 DEF RowTrue
  <2>2. CASE ~(f \in parsed /\ x \in FileRules(engine, config))
    <3>1. cache'[f][x] = cache[f][x]  BY <1>2, <2>2 DEF Records
    <3> QED  BY <1>2, <3>1 DEF IInv, CacheTrue
  <2> QED  BY <2>1, <2>2
<1>3. CacheTrue'  BY <1>2 DEF CacheTrue, RowTrue, Key, FileRules, FileFindings
<1> QED  BY <1>1, <1>3 DEF IInv

LEMMA ChecksTrue ==
  ASSUME IInv, CheckAll \/ \E S \in SUBSET Files : CheckNamed(S)
  PROVE  IInv'
<1>1. CASE CheckAll
  <2>1. PICK served \in SUBSET (Walked(config) \ Changed) :
          Records(Walked(config) \ served)
    BY <1>1 DEF CheckAll
  <2> QED  BY <2>1, RecordsTrue
<1>2. CASE \E S \in SUBSET Files : CheckNamed(S)
  <2>1. PICK S \in SUBSET Files : CheckNamed(S)  BY <1>2
  <2>2. Records((S \cap Walked(config)) \cup Changed)  BY <2>1 DEF CheckNamed
  <2>3. (S \cap Walked(config)) \cup Changed \subseteq Walked(config)  BY DEF Changed
  <2> QED  BY <2>2, <2>3, RecordsTrue
<1> QED  BY <1>1, <1>2

(* What the cache holds was found by some build under some config in the   *)
(* text it is keyed by, whatever is upgraded, configured and edited.       *)
THEOREM CacheIsTrue == Spec => []IInv
<1>1. Init => IInv  BY DEF Init, IInv, TypeOK, CacheTrue
<1>2. IInv /\ [Next]_vars => IInv'
  <2> SUFFICES ASSUME IInv, [Next]_vars  PROVE IInv'  OBVIOUS
  <2>1. ASSUME NEW e \in Engines, Upgrade(e)  PROVE IInv'
    BY <2>1 DEF Upgrade, IInv, TypeOK, CacheTrue
  <2>2. ASSUME NEW k \in Configs, Configure(k)  PROVE IInv'
    BY <2>2 DEF Configure, IInv, TypeOK, CacheTrue
  <2>3. ASSUME NEW f \in Files, NEW t \in Texts, Edit(f, t)  PROVE IInv'
    BY <2>3 DEF Edit, IInv, TypeOK, CacheTrue
  <2>4. CASE CheckAll \/ \E S \in SUBSET Files : CheckNamed(S)
    BY <2>4, ChecksTrue
  <2>5. CASE UNCHANGED vars
    BY <2>5 DEF vars, IInv, TypeOK, CacheTrue
  <2> QED  BY <2>1, <2>2, <2>3, <2>4, <2>5 DEF Next
<1> QED  BY <1>1, <1>2, PTL DEF Spec

-----------------------------------------------------------------------------
(* A served file answers what the installed build finds in it. *)
LEMMA ServedIsFresh ==
  ASSUME IInv, NEW f \in Files, NEW first \in RuleIds, Serves(f, first)
  PROVE  ServedFindings(f) = OnFile(engine, config, f, disk[f])
<1>1. ASSUME NEW x \in FileRules(engine, config)
      PROVE  cache[f][x].found
               = FileFindings(x, engine.rules[x], config.rules[x], f, disk[f])
  <2>0. engine \in Engines /\ config \in Configs /\ disk[f] \in Texts
    BY DEF IInv, TypeOK
  <2>1. x \in DOMAIN engine.rules  BY DEF FileRules
  <2>2. x \in RuleIds  BY <2>0, <2>1, RulesAssumption DEF IsEngine
  <2>3. /\ cache[f][x] # None /\ cache[f][x].hash = disk[f]
        /\ cache[f][x].key = Key(engine, config)
    BY DEF Serves
  <2>4. PICK e \in Engines, k \in Configs :
          /\ cache[f][x].key = Key(e, k)
          /\ x \in FileRules(e, k)
          /\ cache[f][x].found
               = FileFindings(x, e.rules[x], k.rules[x], f, cache[f][x].hash)
    BY <2>2, <2>3 DEF IInv, CacheTrue, RowTrue
  <2>5. Key(engine, config) = Key(e, k)  BY <2>3, <2>4
  <2>6. \A g \in Files, t \in Texts :
          FileFindings(x, engine.rules[x], config.rules[x], g, t)
            = FileFindings(x, e.rules[x], k.rules[x], g, t)
    BY <2>0, <2>1, <2>5, KeyDetermines
  <2> QED  BY <2>0, <2>3, <2>4, <2>6
<1> QED  BY <1>1 DEF ServedFindings, OnFile

(* A whole-repository run answers what the rules find in the tree. *)
LEMMA CheckAnswers ==
  ASSUME IInv, CheckAll
  PROVE  report' = Answer(engine, config) /\ UNCHANGED <<engine, config, disk>>
<1> DEFINE W == Walked(config)
<1>1. PICK served \in SUBSET (W \ Changed) :
        /\ \A f \in served : \E first \in RuleIds : Serves(f, first)
        /\ Records(W \ served)
        /\ report' = FromCache(served) \cup OnFiles(engine, config, W \ served)
                       \cup OnIndex(engine, config, Indexed(config), W \ served)
  BY DEF CheckAll
<1>2. \A f \in served : ServedFindings(f) = OnFile(engine, config, f, disk[f])
  BY ServedIsFresh, <1>1 DEF Walked
<1>3. FromCache(served) \cup OnFiles(engine, config, W \ served)
        = OnFiles(engine, config, W)
  <2> HIDE DEF W
  <2>1. ASSUME NEW y \in FromCache(served) \cup OnFiles(engine, config, W \ served)
        PROVE  y \in OnFiles(engine, config, W)
    <3>1. \E f \in W : y \in OnFile(engine, config, f, disk[f])
      BY <1>2, <2>1 DEF FromCache, OnFiles
    <3> QED  BY <3>1 DEF OnFiles
  <2>2. ASSUME NEW y \in OnFiles(engine, config, W)
        PROVE  y \in FromCache(served) \cup OnFiles(engine, config, W \ served)
    <3>1. PICK f \in W : y \in OnFile(engine, config, f, disk[f])  BY <2>2 DEF OnFiles
    <3>2. CASE f \in served
      <4>1. y \in ServedFindings(f)  BY <1>2, <3>1, <3>2
      <4> QED  BY <3>2, <4>1 DEF FromCache
    <3>3. CASE f \notin served  BY <3>1, <3>3 DEF OnFiles
    <3> QED  BY <3>2, <3>3
  <2> QED  BY <2>1, <2>2
<1>4. OnIndex(engine, config, Indexed(config), W \ served)
        = OnIndex(engine, config, Indexed(config), W)
  <2> DEFINE G(x, f, P) == GraphFindings(x, engine.rules[x], config.rules[x], f,
                                         Indexed(config)[f], P)
  <2>1. ASSUME NEW x \in GraphRules(engine, config), NEW f \in Files
        PROVE  G(x, f, W \ served) = G(x, f, W)
    <3>1. f \in served => Indexed(config)[f] = disk[f]  BY DEF Indexed
    <3> HIDE DEF W
    <3> QED  BY <3>1 DEF GraphFindings
  <2> DEFINE A == {G(x, f, W \ served) : x \in GraphRules(engine, config), f \in Files}
             B == {G(x, f, W) : x \in GraphRules(engine, config), f \in Files}
  <2>2. /\ OnIndex(engine, config, Indexed(config), W \ served) = UNION A
        /\ OnIndex(engine, config, Indexed(config), W) = UNION B
    BY DEF OnIndex
  <2> HIDE DEF G, W
  <2>3. ASSUME NEW P, NEW Q,
               \A x \in GraphRules(engine, config), f \in Files : G(x, f, P) = G(x, f, Q)
        PROVE  {G(x, f, P) : x \in GraphRules(engine, config), f \in Files}
                 \subseteq {G(x, f, Q) : x \in GraphRules(engine, config), f \in Files}
    BY <2>3
  <2>4. A = B
    <3>1. A \subseteq B  BY <2>1, <2>3
    <3>2. B \subseteq A  BY <2>1, <2>3
    <3> QED  BY <3>1, <3>2
  <2> HIDE DEF A, B
  <2> QED  BY <2>2, <2>4
<1>5. UNCHANGED <<engine, config, disk>>  BY <1>1 DEF Records
<1> QED  BY <1>1, <1>3, <1>4, <1>5 DEF Answer

LEMMA AnswerSame ==
  ASSUME UNCHANGED <<engine, config, disk>>
  PROVE  Answer(engine, config)' = Answer(engine, config)
BY DEF Answer, OnFiles, OnIndex, GraphFindings, Indexed

(* Serving cached findings never changes the answer: what a run reports is *)
(* what the installed build finds in this tree under this config.          *)
THEOREM ServedIsTrue == Spec => []ServedTrue
<1>1. Init => ServedTrue  BY DEF Init, ServedTrue
<1>2. IInv /\ ServedTrue /\ [Next]_vars => ServedTrue'
  <2> SUFFICES ASSUME IInv, ServedTrue, [Next]_vars  PROVE ServedTrue'  OBVIOUS
  <2>1. CASE CheckAll
    <3>1. report' = Answer(engine, config) /\ UNCHANGED <<engine, config, disk>>
      BY <2>1, CheckAnswers
    <3> QED  BY <3>1, AnswerSame DEF ServedTrue
  <2>2. CASE report' = None  BY <2>2 DEF ServedTrue
  <2>3. CASE UNCHANGED vars
    <3>1. UNCHANGED <<engine, config, disk>> /\ report' = report  BY <2>3 DEF vars
    <3> QED  BY <3>1, AnswerSame DEF ServedTrue
  <2> QED
    BY <2>1, <2>2, <2>3 DEF Next, Upgrade, Configure, Edit, CheckNamed
<1> QED  BY <1>1, <1>2, CacheIsTrue, PTL DEF Spec

-----------------------------------------------------------------------------
(* What a finding of the answer says of the rule that made it. *)
LEMMA RuleOfAnswer ==
  ASSUME NEW e \in Engines, NEW k, NEW y \in Answer(e, k)
  PROVE  \/ /\ y.rule \in FileRules(e, k)
            /\ \E f \in Walked(k) :
                 y \in FileFindings(y.rule, e.rules[y.rule], k.rules[y.rule], f, disk[f])
         \/ /\ y.rule \in GraphRules(e, k)
            /\ \E f \in Files :
                 y \in GraphFindings(y.rule, e.rules[y.rule], k.rules[y.rule], f,
                                     Indexed(k)[f], Walked(k))
<1>1. CASE y \in OnFiles(e, k, Walked(k))
  <2>1. PICK f \in Walked(k), x \in FileRules(e, k) :
          y \in FileFindings(x, e.rules[x], k.rules[x], f, disk[f])
    BY <1>1 DEF OnFiles, OnFile
  <2>2. y.rule = x  BY <2>1 DEF FileFindings, FindingAt
  <2> QED  BY <2>1, <2>2
<1>2. CASE y \in OnIndex(e, k, Indexed(k), Walked(k))
  <2>1. PICK x \in GraphRules(e, k), f \in Files :
          y \in GraphFindings(x, e.rules[x], k.rules[x], f, Indexed(k)[f], Walked(k))
    BY <1>2 DEF OnIndex
  <2>2. y.rule = x  BY <2>1 DEF GraphFindings, FindingAt
  <2> QED  BY <2>1, <2>2
<1> QED  BY <1>1, <1>2 DEF Answer

LEMMA AnswerOfRule ==
  ASSUME NEW e \in Engines, NEW k, NEW x, NEW y
  PROVE  /\ \A f \in Walked(k) :
              x \in FileRules(e, k) /\ y \in FileFindings(x, e.rules[x], k.rules[x], f, disk[f])
                => y \in Answer(e, k)
         /\ \A f \in Files :
              x \in GraphRules(e, k)
              /\ y \in GraphFindings(x, e.rules[x], k.rules[x], f, Indexed(k)[f], Walked(k))
                => y \in Answer(e, k)
BY DEF Answer, OnFiles, OnFile, OnIndex

(* Two configs that differ only in what they say of a locked rule get the  *)
(* same findings of that rule.                                             *)
LEMMA LockedSame ==
  ASSUME NEW e \in Engines, NEW k, NEW j, NEW x \in DOMAIN e.rules,
         e.rules[x].locked = TRUE, k.also = j.also,
         NEW y \in Answer(e, k), y.rule = x
  PROVE  y \in Answer(e, j)
<1>1. Walked(k) = Walked(j)  BY DEF Walked
<1>2. Indexed(k) = Indexed(j)  BY <1>1 DEF Indexed
<1> DEFINE d == e.rules[x]
<1>3. /\ RuleRuns(d, j.rules[x])
      /\ \A f, t : FileFindings(x, d, k.rules[x], f, t) = FileFindings(x, d, j.rules[x], f, t)
      /\ \A f, row, P : GraphFindings(x, d, k.rules[x], f, row, P)
                          = GraphFindings(x, d, j.rules[x], f, row, P)
  <2> DEFINE o == k.rules[x]  u == j.rules[x]
  <2>0. d.locked = TRUE  OBVIOUS
  <2> HIDE DEF d, o, u
  <2>1. RuleRuns(d, u)  BY <2>0 DEF RuleRuns
  <2>2. /\ LanguagesOf(d, o) = LanguagesOf(d, u)
        /\ SeverityOf(d, o) = SeverityOf(d, u)
        /\ ~Overridden(d, o) /\ ~Overridden(d, u)
    BY <2>0 DEF LanguagesOf, SeverityOf, Overridden
  <2>3. \A f : ReportsOn(d, o, f) <=> ReportsOn(d, u, f)  BY <2>2 DEF ReportsOn
  <2>4. \A f, l, z : FindingAt(x, d, o, f, l, z) = FindingAt(x, d, u, f, l, z)
    BY <2>2 DEF FindingAt
  <2>5. \A f, t : FileFindings(x, d, o, f, t) = FileFindings(x, d, u, f, t)
    BY <2>2, <2>3, <2>4 DEF FileFindings
  <2>6. \A f, row, P : GraphFindings(x, d, o, f, row, P)
                        = GraphFindings(x, d, u, f, row, P)
    BY <2>3, <2>4 DEF GraphFindings
  <2> QED  BY <2>1, <2>5, <2>6 DEF o, u
<1>4. /\ x \in FileRules(e, k) => x \in FileRules(e, j)
      /\ x \in GraphRules(e, k) => x \in GraphRules(e, j)
  BY <1>3 DEF FileRules, GraphRules
<1>5. CASE /\ x \in FileRules(e, k)
           /\ \E f \in Walked(k) : y \in FileFindings(x, d, k.rules[x], f, disk[f])
  <2>1. PICK f \in Walked(k) : y \in FileFindings(x, d, k.rules[x], f, disk[f])  BY <1>5
  <2>2. y \in FileFindings(x, d, j.rules[x], f, disk[f])  BY <2>1, <1>3
  <2> QED  BY <1>1, <1>4, <1>5, <2>2, AnswerOfRule
<1>6. CASE /\ x \in GraphRules(e, k)
           /\ \E f \in Files :
                y \in GraphFindings(x, d, k.rules[x], f, Indexed(k)[f], Walked(k))
  <2>1. PICK f \in Files :
          y \in GraphFindings(x, d, k.rules[x], f, Indexed(k)[f], Walked(k))
    BY <1>6
  <2>2. y \in GraphFindings(x, d, j.rules[x], f, Indexed(j)[f], Walked(j))
    BY <1>1, <1>2, <1>3, <2>1
  <2> QED  BY <1>4, <1>6, <2>2, AnswerOfRule
<1> QED  BY <1>5, <1>6, RuleOfAnswer

(* No valid or invalid [rules] table, no cached row and no upgrade can     *)
(* silence a locked rule or move the severity it reports with.             *)
THEOREM LockIsHeld == Spec => []LockHolds
<1>1. TypeOK /\ ServedTrue => LockHolds
  <2> SUFFICES ASSUME TypeOK, ServedTrue, report # None,
                      NEW x \in DOMAIN engine.rules, engine.rules[x].locked
               PROVE  {f \in report : f.rule = x}
                        = {f \in Answer(engine, Silent(config, x)) : f.rule = x}
    BY DEF LockHolds
  <2>1. engine \in Engines /\ config \in Configs /\ report = Answer(engine, config)
    BY DEF TypeOK, ServedTrue
  <2>2. engine.rules[x].locked = TRUE
    BY <2>1, RulesAssumption DEF IsEngine, Declaration
  <2>3. Silent(config, x).also = config.also
    BY <2>1, RulesAssumption DEF Silent, Config
  <2> QED  BY <2>1, <2>2, <2>3, LockedSame
<1>2. IInv => TypeOK  BY DEF IInv
<1> QED  BY <1>1, <1>2, CacheIsTrue, ServedIsTrue, PTL

(* Accepting a line that a file rule reports never accepts another line of   *)
(* that file, however alike they read.  What a rule names is left out: those *)
(* findings share the id of their name.                                      *)
THEOREM IdsAreApart == Spec => []IdsApart
<1>1. TypeOK /\ ServedTrue => IdsApart
  <2> SUFFICES ASSUME TypeOK, ServedTrue, report # None,
                      NEW y \in report, NEW z \in report,
                      y.rule = z.rule, y.file = z.file,
                      y.anchor = z.anchor, AsLine(y), AsLine(z)
               PROVE  y.line = z.line
    BY DEF IdsApart
  <2>1. engine \in Engines /\ report = Answer(engine, config) /\ disk \in [Files -> Texts]
    BY DEF TypeOK, ServedTrue
  <2>2. ASSUME NEW w \in report, AsLine(w)
        PROVE  /\ w.file \in Files
               /\ w.line \in Lines(disk[w.file])
               /\ w.anchor = AnchorFor(disk[w.file], w.line)
    <3>1. \/ w.rule \in FileRules(engine, config) /\ \E f \in Walked(config) :
               w \in FileFindings(w.rule, engine.rules[w.rule], config.rules[w.rule], f, disk[f])
          \/ w.rule \in GraphRules(engine, config)
      BY <2>1, <2>2, RuleOfAnswer
    <3>2. w.rule \notin GraphRules(engine, config)  BY <2>2 DEF GraphRules, AsLine
    <3>3. PICK f \in Walked(config) :
            /\ w.rule \in DOMAIN engine.rules
            /\ w \in FileFindings(w.rule, engine.rules[w.rule], config.rules[w.rule], f, disk[f])
      BY <3>1, <3>2 DEF FileRules
    <3> DEFINE d == engine.rules[w.rule]
    <3>4. PICK l \in Finds[d.body][disk[f]] :
            w = FindingAt(w.rule, d, config.rules[w.rule], f, l, AnchorOf(d.body, disk[f], l))
      BY <3>3 DEF FileFindings
    <3>5. w.file = f /\ w.line = l /\ w.anchor = AnchorFor(disk[f], l)
      BY <2>2, <3>4 DEF FindingAt, AnchorOf, AsLine
    <3>6. d.body \in Bodies  BY <2>1, <3>3, RulesAssumption DEF IsEngine, Declaration
    <3>7. f \in Files  BY DEF Walked
    <3>8. l \in Lines(disk[f])  BY <2>1, <3>6, <3>7, RulesAssumption
    <3> QED  BY <3>5, <3>7, <3>8
  <2> QED  BY <2>1, <2>2, AnchorsApart
<1>2. IInv => TypeOK  BY DEF IInv
<1> QED  BY <1>1, <1>2, CacheIsTrue, ServedIsTrue, PTL

-----------------------------------------------------------------------------
(* The server. *)

LEMMA LeastNumber ==
  ASSUME NEW S \in SUBSET Nat, S # {}
  PROVE  \E n \in S : \A m \in S : n <= m
<1>1. PICK n \in S : \A m \in S : ~ (<<m, n>> \in OpToRel(<, Nat))
  BY NatLessThanWellFounded, WFMin
<1>2. ASSUME NEW m \in S  PROVE n <= m
  <2>1. ~ (<<m, n>> \in {ss \in Nat \X Nat : ss[1] < ss[2]})
    BY <1>1 DEF OpToRel
  <2> QED  BY <2>1
<1> QED  BY <1>2

-----------------------------------------------------------------------------
(* FlattenSeq, which is defined by recursion on the number of sequences:   *)
(* g holds what the first i of the sequences are end to end.  *)
Flattens(g, seqs, n) ==
  g = [i \in 1..n |-> IF i = 1 THEN seqs[i] ELSE g[i - 1] \o seqs[i]]

LEMMA FlattenExists ==
  ASSUME NEW seqs, NEW n \in Nat
  PROVE  \E g : Flattens(g, seqs, n)
<1> DEFINE bad == {m \in Nat : ~ \E g : Flattens(g, seqs, m)}
<1> SUFFICES ASSUME bad # {}  PROVE FALSE
  OBVIOUS
<1>1. PICK m \in bad : \A l \in bad : m <= l  BY LeastNumber
<1>2. CASE m = 0
  <2> DEFINE g == [i \in 1..0 |-> seqs[i]]
  <2>1. g = [i \in 1..0 |-> IF i = 1 THEN seqs[i] ELSE g[i - 1] \o seqs[i]]
    OBVIOUS
  <2>2. Flattens(g, seqs, 0)  BY <2>1 DEF Flattens
  <2> QED  BY <1>1, <1>2, <2>2
<1>3. CASE m # 0
  <2>1. m - 1 \in Nat /\ m - 1 \notin bad  BY <1>1, <1>3
  <2>2. PICK f : Flattens(f, seqs, m - 1)  BY <2>1
  <2> DEFINE g == [i \in 1..m |-> IF i = 1 THEN seqs[i] ELSE f[i - 1] \o seqs[i]]
  <2>3. ASSUME NEW i \in 1..m, i # 1  PROVE g[i - 1] = f[i - 1]
    <3>1. i - 1 \in 1..m /\ i - 1 \in 1..(m - 1)  BY <1>1, <2>3
    <3>2. f[i - 1] = IF i - 1 = 1 THEN seqs[i - 1] ELSE f[(i - 1) - 1] \o seqs[i - 1]
      BY <2>2, <3>1 DEF Flattens
    <3> QED  BY <3>1, <3>2
  <2>4. g = [i \in 1..m |-> IF i = 1 THEN seqs[i] ELSE g[i - 1] \o seqs[i]]
    <3> HIDE DEF g
    <3>1. \A i \in 1..m : (IF i = 1 THEN seqs[i] ELSE f[i - 1] \o seqs[i])
                             = IF i = 1 THEN seqs[i] ELSE g[i - 1] \o seqs[i]
      BY <2>3
    <3> QED  BY <3>1 DEF g
  <2> HIDE DEF g
  <2>5. Flattens(g, seqs, m)  BY <2>4 DEF Flattens
  <2> QED  BY <1>1, <2>5
<1> QED  BY <1>2, <1>3

LEMMA FlattenUnfolds ==
  ASSUME NEW seqs, Len(seqs) \in Nat \ {0}
  PROVE  \E g : Flattens(g, seqs, Len(seqs)) /\ FlattenSeq(seqs) = g[Len(seqs)]
<1> DEFINE flat == CHOOSE g : g = [i \in 1..Len(seqs) |->
                     IF i = 1 THEN seqs[i] ELSE g[i - 1] \o seqs[i]]
<1>1. flat = [i \in 1..Len(seqs) |-> IF i = 1 THEN seqs[i] ELSE flat[i - 1] \o seqs[i]]
  <2>1. \E g : g = [i \in 1..Len(seqs) |-> IF i = 1 THEN seqs[i] ELSE g[i - 1] \o seqs[i]]
    BY FlattenExists DEF Flattens
  <2> QED  BY <2>1
<1>2. FlattenSeq(seqs) = flat[Len(seqs)]  BY DEF FlattenSeq
<1> HIDE DEF flat
<1> QED  BY <1>1, <1>2 DEF Flattens

LEMMA FlattenTyped ==
  ASSUME NEW S, NEW seqs, NEW n \in Nat, \A i \in 1..n : seqs[i] \in Seq(S),
         NEW g, Flattens(g, seqs, n), NEW i \in 1..n
  PROVE  g[i] \in Seq(S)
<1> DEFINE bad == {j \in 1..n : g[j] \notin Seq(S)}
<1> SUFFICES ASSUME bad # {}  PROVE FALSE
  OBVIOUS
<1>1. PICK j \in bad : \A l \in bad : j <= l
  <2>1. bad \in SUBSET Nat  OBVIOUS
  <2> HIDE DEF bad
  <2> QED  BY <2>1, LeastNumber
<1>2. g[j] = IF j = 1 THEN seqs[j] ELSE g[j - 1] \o seqs[j]  BY <1>1 DEF Flattens
<1>3. j # 1 => j - 1 \in 1..n /\ j - 1 \notin bad  BY <1>1
<1>4. j # 1 => g[j - 1] \in Seq(S)  BY <1>3
<1>5. j # 1 => g[j - 1] \o seqs[j] \in Seq(S)  BY <1>1, <1>4, ConcatProperties
<1> QED  BY <1>1, <1>2, <1>5

LEMMA FlattenSeqTyped ==
  ASSUME NEW S, NEW seqs \in Seq(Seq(S))
  PROVE  FlattenSeq(seqs) \in Seq(S)
<1>0. Len(seqs) \in Nat /\ \A i \in 1..Len(seqs) : seqs[i] \in Seq(S)
  BY LenProperties, ElementOfSeq
<1>1. CASE Len(seqs) = 0  BY <1>1, EmptySeq DEF FlattenSeq
<1>2. CASE Len(seqs) # 0
  <2>1. PICK g : Flattens(g, seqs, Len(seqs)) /\ FlattenSeq(seqs) = g[Len(seqs)]
    BY <1>0, <1>2, FlattenUnfolds
  <2>2. PICK n \in Nat : n = Len(seqs)  BY <1>0
  <2>3. n \in 1..n  BY <1>2, <2>2
  <2>4. g[n] \in Seq(S)  BY <1>0, <2>1, <2>2, <2>3, FlattenTyped
  <2> QED  BY <2>1, <2>2, <2>4
<1> QED  BY <1>1, <1>2

LEMMA FlattenAppend ==
  ASSUME NEW S, NEW s \in Seq(Seq(S)), NEW e \in Seq(S)
  PROVE  FlattenSeq(Append(s, e)) = FlattenSeq(s) \o e
<1>a. /\ Len(s) \in Nat /\ Len(Append(s, e)) = Len(s) + 1
      /\ Append(s, e)[Len(s) + 1] = e
      /\ \A i \in 1..Len(s) : Append(s, e)[i] = s[i]
  BY AppendProperties, LenProperties
<1>b. PICK n \in Nat : n = Len(s)  BY <1>a
<1>0. PICK t : /\ t = Append(s, e) /\ n = Len(s) /\ Len(t) = n + 1 /\ t[n + 1] = e
               /\ \A i \in 1..n : s[i] = t[i]
  BY <1>a, <1>b
<1> SUFFICES FlattenSeq(t) = FlattenSeq(s) \o t[n + 1]
  BY <1>0
<1>1. PICK g : Flattens(g, t, n + 1) /\ FlattenSeq(t) = g[n + 1]
  <2>1. Len(t) \in Nat \ {0}  BY <1>0
  <2>2. \E g : Flattens(g, t, Len(t)) /\ FlattenSeq(t) = g[Len(t)]
    BY <2>1, FlattenUnfolds
  <2> QED  BY <1>0, <2>2
<1>2. g[n + 1] = IF n + 1 = 1 THEN t[n + 1] ELSE g[(n + 1) - 1] \o t[n + 1]
  <2>1. n + 1 \in 1..(n + 1)  OBVIOUS
  <2> QED  BY <1>1, <2>1 DEF Flattens
<1>3. CASE n = 0
  <2>1. FlattenSeq(s) = s /\ s = <<>>  BY <1>0, <1>3, EmptySeq DEF FlattenSeq
  <2>2. <<>> \o t[n + 1] = t[n + 1]  BY <1>0, ConcatEmptySeq
  <2> QED  BY <1>1, <1>2, <1>3, <2>1, <2>2
<1>4. CASE n # 0
  <2>1. PICK f : Flattens(f, s, n) /\ FlattenSeq(s) = f[n]  BY <1>0, <1>4, FlattenUnfolds
  <2> DEFINE bad == {j \in 1..n : f[j] # g[j]}
  <2>2. bad = {}
    <3> SUFFICES ASSUME bad # {}  PROVE FALSE
      OBVIOUS
    <3>1. PICK j \in bad : \A l \in bad : j <= l
      <4>1. bad \in SUBSET Nat  OBVIOUS
      <4> HIDE DEF bad
      <4> QED  BY <4>1, LeastNumber
    <3>2. j \in 1..n /\ j \in 1..(n + 1)  BY <3>1
    <3>3. f[j] = IF j = 1 THEN s[j] ELSE f[j - 1] \o s[j]  BY <2>1, <3>2 DEF Flattens
    <3>4. g[j] = IF j = 1 THEN t[j] ELSE g[j - 1] \o t[j]  BY <1>1, <3>2 DEF Flattens
    <3>5. j # 1 => j - 1 \in 1..n /\ j - 1 \notin bad
      <4> HIDE DEF bad
      <4> QED  BY <3>1, <3>2
    <3> QED  BY <1>0, <3>1, <3>2, <3>3, <3>4, <3>5
  <2>3. f[n] = g[n]  BY <1>4, <2>2
  <2>4. n + 1 # 1 /\ (n + 1) - 1 = n  BY <1>4
  <2> QED  BY <1>1, <1>2, <2>1, <2>3, <2>4
<1> QED  BY <1>3, <1>4

-----------------------------------------------------------------------------
(* The MCP server. *)
Messages == UNION {Server!Lines(n) : n \in Nat}

LEMMA MessageTyped ==
  ASSUME NEW m \in Messages
  PROVE  /\ m.id \in Nat
         /\ m.form \in {"blank", "garbage", "no method", "method", "unknown method", "call"}
<1>1. PICK n \in Nat : m \in Server!Lines(n)  BY DEF Messages
<1> DEFINE yes == {TRUE}  no == {FALSE}
<1>2. \/ m \in [form : {"blank", "garbage"}, id : {0}, tool : {"none"}, good : no]
      \/ m \in [form : {"no method", "method", "unknown method"}, id : {0, n},
               tool : {"none"}, good : no]
      \/ m \in [form : {"call"}, id : {0, n}, tool : Server!KnownTools \cup {"unknown tool"},
               good : yes]
      \/ m \in [form : {"call"}, id : {n}, tool : Server!KnownTools, good : no]
  BY <1>1, Zenon DEF Server!Lines, Server!NoId
<1> HIDE DEF yes, no
<1>3. m.id \in {0, n}  BY <1>2
<1>4. m.form \in {"blank", "garbage", "no method", "method", "unknown method", "call"}
  BY <1>2
<1>5. m.id \in Nat  BY <1>3
<1> QED  BY <1>4, <1>5

LEMMA OwedTyped ==
  ASSUME NEW m \in Messages
  PROVE  Server!Owed(m) \in Seq(Nat)
<1>1. m.id \in Nat  BY MessageTyped
<1>2. <<>> \in Seq(Nat) /\ <<m.id>> \in Seq(Nat)  BY <1>1
<1> QED  BY <1>2 DEF Server!Owed

(* What is owed for the lines so far, and for one more. *)
LEMMA OwedIdsAppend ==
  ASSUME NEW ms \in Seq(Messages), NEW m \in Messages
  PROVE  /\ Server!OwedIds(ms) \in Seq(Nat)
         /\ Server!OwedIds(Append(ms, m)) = Server!OwedIds(ms) \o Server!Owed(m)
<1>1. PICK n \in Nat, more \in Seq(Messages) : n = Len(ms) /\ more = Append(ms, m)
  BY AppendProperties, LenProperties
<1>2. Len(more) = n + 1 /\ more[n + 1] = m /\ \A i \in 1..n : more[i] = ms[i]
  BY <1>1, AppendProperties
<1>3. PICK s, t : /\ s = [i \in 1..Len(ms) |-> Server!Owed(ms[i])]
                  /\ t = [i \in 1..Len(more) |-> Server!Owed(more[i])]
  OBVIOUS
<1>4. Server!OwedIds(ms) = FlattenSeq(s) /\ Server!OwedIds(more) = FlattenSeq(t)
  BY <1>3 DEF Server!OwedIds, Server!FlattenSeq, FlattenSeq
<1>5. s \in Seq(Seq(Nat)) /\ Server!Owed(m) \in Seq(Nat)
  <2>1. \A i \in 1..n : Server!Owed(ms[i]) \in Seq(Nat)
    BY <1>1, OwedTyped, ElementOfSeq
  <2> QED  BY <1>1, <1>3, <2>1, OwedTyped
<1>6. t = Append(s, Server!Owed(m))
  BY <1>1, <1>2, <1>3
<1>7. FlattenSeq(s) \in Seq(Nat)
  BY <1>5, FlattenSeqTyped
<1>8. FlattenSeq(Append(s, Server!Owed(m))) = FlattenSeq(s) \o Server!Owed(m)
  BY <1>5, FlattenAppend
<1> QED  BY <1>1, <1>4, <1>6, <1>7, <1>8

LEMMA OwedNothing == Server!OwedIds(<<>>) = <<>>
BY DEF Server!OwedIds, Server!FlattenSeq

(* The lines read so far, one more line read, and one more line sent. *)
LEMMA LinesRead ==
  ASSUME NEW ms \in Seq(Messages), NEW n \in Nat, n < Len(ms)
  PROVE  SubSeq(ms, 1, n + 1) = Append(SubSeq(ms, 1, n), ms[n + 1])
<1>1. Len(ms) \in Nat /\ \A i \in 1..Len(ms) : ms[i] \in Messages
  BY LenProperties, ElementOfSeq
<1>2. \A i \in 1..n : ms[i] \in Messages  BY <1>1
<1>3. \A i \in 1..(n + 1) : ms[i] \in Messages  BY <1>1
<1>4. n \in Int /\ n + 1 \in Int /\ 1 \in Int /\ 1 <= n + 1  OBVIOUS
<1>5. PICK s \in Seq(Messages) : /\ s = SubSeq(ms, 1, n)
                                 /\ Len(s) = IF 1 <= n THEN n - 1 + 1 ELSE 0
                                 /\ \A i \in 1..(n - 1 + 1) : s[i] = ms[1 + i - 1]
  <2>1. /\ SubSeq(ms, 1, n) \in Seq(Messages)
        /\ Len(SubSeq(ms, 1, n)) = IF 1 <= n THEN n - 1 + 1 ELSE 0
        /\ \A i \in 1..(n - 1 + 1) : SubSeq(ms, 1, n)[i] = ms[1 + i - 1]
    BY <1>2, <1>4, SubSeqProperties
  <2> QED  BY <2>1
<1>6. PICK t \in Seq(Messages) : /\ t = SubSeq(ms, 1, n + 1)
                                 /\ Len(t) = IF 1 <= n + 1 THEN n + 1 - 1 + 1 ELSE 0
                                 /\ \A i \in 1..(n + 1 - 1 + 1) : t[i] = ms[1 + i - 1]
  <2>1. /\ SubSeq(ms, 1, n + 1) \in Seq(Messages)
        /\ Len(SubSeq(ms, 1, n + 1)) = IF 1 <= n + 1 THEN n + 1 - 1 + 1 ELSE 0
        /\ \A i \in 1..(n + 1 - 1 + 1) : SubSeq(ms, 1, n + 1)[i] = ms[1 + i - 1]
    BY <1>3, <1>4, SubSeqProperties
  <2> QED  BY <2>1
<1>7. Len(s) = n /\ Len(t) = n + 1
  BY <1>5, <1>6
<1>8. \A i \in 1..n : s[i] = ms[i]
  <2> TAKE i \in 1..n
  <2>1. i \in 1..(n - 1 + 1) /\ 1 + i - 1 = i  OBVIOUS
  <2> QED  BY <1>5, <2>1
<1>9. \A i \in 1..(n + 1) : t[i] = ms[i]
  <2> TAKE i \in 1..(n + 1)
  <2>1. i \in 1..(n + 1 - 1 + 1) /\ 1 + i - 1 = i  OBVIOUS
  <2> QED  BY <1>6, <2>1
<1>10. t = Append(s, ms[n + 1])
  BY <1>1, <1>7, <1>8, <1>9
<1> QED  BY <1>5, <1>6, <1>10

LEMMA LinesSent ==
  ASSUME NEW ms \in Seq(Messages), NEW m \in Messages, NEW n \in Int, n <= Len(ms)
  PROVE  SubSeq(Append(ms, m), 1, n) = SubSeq(ms, 1, n)
<1>1. /\ Len(ms) \in Nat /\ Append(ms, m) \in Seq(Messages)
      /\ \A i \in 1..Len(ms) : ms[i] \in Messages /\ Append(ms, m)[i] = ms[i]
  BY LenProperties, ElementOfSeq, AppendProperties
<1>2. CASE n < 1
  BY <1>2, SubSeqEmpty
<1>3. CASE n >= 1
  <2>1. PICK s : s = Append(ms, m)  OBVIOUS
  <2>2. \A i \in 1..n : ms[i] \in Messages /\ s[i] = ms[i] /\ s[i] \in Messages
    BY <1>1, <2>1
  <2>3. /\ SubSeq(ms, 1, n) \in Seq(Messages) /\ Len(SubSeq(ms, 1, n)) = n
        /\ \A i \in 1..(n - 1 + 1) : SubSeq(ms, 1, n)[i] = ms[1 + i - 1]
    BY <1>3, <2>2, SubSeqProperties
  <2>4. /\ SubSeq(s, 1, n) \in Seq(Messages) /\ Len(SubSeq(s, 1, n)) = n
        /\ \A i \in 1..(n - 1 + 1) : SubSeq(s, 1, n)[i] = s[1 + i - 1]
    BY <1>3, <2>2, SubSeqProperties
  <2>5. \A i \in 1..n : SubSeq(s, 1, n)[i] = SubSeq(ms, 1, n)[i]
    <3> TAKE i \in 1..n
    <3>1. i \in 1..(n - 1 + 1) /\ 1 + i - 1 = i  BY <1>3
    <3> QED  BY <2>2, <2>3, <2>4, <3>1
  <2> QED  BY <2>1, <2>3, <2>4, <2>5, SeqEqual
<1> QED  BY <1>2, <1>3

-----------------------------------------------------------------------------
Says == {"parse error", "invalid request", "method not found", "invalid params", "result",
         "tool error", "matches", "nothing exists", "internal engine failure"}
Replies == [id : Nat, says : Says]

(* The lines that are done with: the one whose tool runs is not. *)
Finished == IF call = Server!Idle THEN taken ELSE taken - 1

ServerTyped ==
  /\ sent \in Seq(Messages) /\ inbox \in Seq(Messages)
  /\ taken \in Nat /\ outbox \in Seq(Replies) /\ buffer = <<>>

(* What is in the pipe is what was sent and not yet read. *)
PipeHolds ==
  /\ taken + Len(inbox) = Len(sent)
  /\ \A i \in 1..Len(inbox) : inbox[i] = sent[taken + i]

(* The call in hand is the request read last. *)
CallIsLast ==
  \/ call = Server!Idle
  \/ /\ taken # 0 /\ call.id = sent[taken].id /\ sent[taken].id # Server!NoId
     /\ sent[taken].form = "call" /\ call.tool \in Server!KnownTools
     /\ call = [id |-> call.id, tool |-> call.tool, step |-> call.step, good |-> call.good]

AnsweredSoFar == Server!Ids(outbox) = Server!OwedIds(SubSeq(sent, 1, Finished))

(* Files that are in the index, or on the connection, were seen in the call. *)
FilesWereHeld ==
  /\ call = Server!Idle => sees = "closed"
  /\ (call # Server!Idle /\ index = "filled") => held
  /\ sees = "filled" => held

ServerInv ==
  serving /\ ServerTyped /\ PipeHolds /\ CallIsLast /\ AnsweredSoFar /\ FilesWereHeld

LEMMA IdsAppend ==
  ASSUME NEW rs \in Seq(Replies), NEW r \in Replies
  PROVE  Server!Ids(Append(rs, r)) = Server!Ids(rs) \o <<r.id>>
<1>1. Len(Append(rs, r)) = Len(rs) + 1 /\ Len(rs) \in Nat
  BY AppendProperties, LenProperties
<1>2. Append(rs, r)[Len(rs) + 1] = r /\ \A i \in 1..Len(rs) : Append(rs, r)[i] = rs[i]
  BY AppendProperties
<1>3. \A i \in 1..Len(rs) : rs[i].id \in Nat
  <2>1. \A i \in 1..Len(rs) : rs[i] \in Replies  BY ElementOfSeq
  <2> QED  BY <2>1 DEF Replies
<1>4. Server!Ids(rs) \in Seq(Nat) /\ Len(Server!Ids(rs)) = Len(rs)
  BY <1>1, <1>3 DEF Server!Ids
<1>5. r.id \in Nat  BY DEF Replies
<1>6. Server!Ids(Append(rs, r)) = Append(Server!Ids(rs), r.id)
  <2>0. PICK n \in Nat : n = Len(rs)  BY <1>1
  <2>1. PICK t : t = Append(rs, r) /\ n = Len(rs)  BY <2>0
  <2>2. Server!Ids(t) = [i \in 1..(n + 1) |-> t[i].id]  BY <1>1, <2>1 DEF Server!Ids
  <2>3. \A i \in 1..n : Server!Ids(rs)[i] = rs[i].id /\ t[i] = rs[i]
    BY <1>2, <2>1 DEF Server!Ids
  <2>4. t[n + 1] = r  BY <1>2, <2>1
  <2> QED  BY <1>4, <1>5, <2>1, <2>2, <2>3, <2>4
<1>7. Append(Server!Ids(rs), r.id) = Server!Ids(rs) \o <<r.id>>
  BY <1>4, <1>5, AppendIsConcat
<1> QED  BY <1>6, <1>7

(* A message written is with the client at once. *)
LEMMA WriteFlushes ==
  ASSUME ServerTyped, NEW r \in Replies, Server!Write(r)
  PROVE  /\ outbox' = Append(outbox, r) /\ buffer' = <<>> /\ outbox' \in Seq(Replies)
         /\ Server!Ids(outbox') = Server!Ids(outbox) \o <<r.id>>
<1>1. buffer = <<>> /\ outbox \in Seq(Replies)  BY DEF ServerTyped
<1>2. Append(buffer, r) = <<r>> /\ <<r>> # <<>>  BY <1>1
<1>3. outbox' = outbox \o <<r>> /\ buffer' = <<>>
  BY <1>2 DEF Server!Write, Server!Flushed
<1>4. outbox' = Append(outbox, r) /\ outbox' \in Seq(Replies)  BY <1>1, <1>3
<1> QED  BY <1>1, <1>3, <1>4, IdsAppend

(* One answer for the line whose tool ran, however the tool ends. *)
LEMMA Returned ==
  ASSUME ServerInv, call # Server!Idle, NEW says \in Says, Server!Return(says),
         UNCHANGED <<inbox, sent, taken, serving>>
  PROVE  ServerInv' /\ Server!Last(outbox').says = says
<1>0. taken \in Nat \ {0} /\ taken <= Len(sent)
  <2>1. taken # 0  BY DEF ServerInv, CallIsLast
  <2>2. Len(inbox) \in Nat /\ Len(sent) \in Nat  BY LenProperties DEF ServerInv, ServerTyped
  <2> QED  BY <2>1, <2>2 DEF ServerInv, ServerTyped, PipeHolds
<1>1. PICK n \in Nat : n + 1 = taken /\ n < Len(sent)
  <2>1. taken - 1 \in Nat /\ (taken - 1) + 1 = taken /\ taken - 1 < Len(sent)
    BY <1>0, LenProperties DEF ServerInv, ServerTyped
  <2> QED  BY <2>1
<1>2. PICK m \in Messages : m = sent[n + 1] /\ m.id = call.id /\ m.id # Server!NoId
                            /\ m.form = "call" /\ m.id \in Nat
  <2>1. sent[n + 1] \in Messages  BY <1>0, <1>1, ElementOfSeq DEF ServerInv, ServerTyped
  <2>2. sent[n + 1].id \in Nat  BY <2>1, MessageTyped
  <2>3. /\ call.id = sent[n + 1].id /\ sent[n + 1].id # Server!NoId
        /\ sent[n + 1].form = "call"
    BY <1>1 DEF ServerInv, CallIsLast
  <2> QED  BY <2>1, <2>2, <2>3
<1>3. PICK r \in Replies : r = [id |-> call.id, says |-> says] /\ r.id = call.id
  <2>1. call.id \in Nat  BY <1>2
  <2>2. [id |-> call.id, says |-> says] \in Replies  BY <2>1 DEF Replies
  <2> QED  BY <2>2
<1>4. Server!Write(r) /\ call' = Server!Idle /\ sees' = "closed"
  BY <1>3 DEF Server!Return, Server!Reply
<1>5. ServerTyped  BY DEF ServerInv
<1>6. /\ outbox' = Append(outbox, r) /\ buffer' = <<>> /\ outbox' \in Seq(Replies)
      /\ Server!Ids(outbox') = Server!Ids(outbox) \o <<r.id>>
  BY <1>4, <1>5, WriteFlushes
<1>7. Server!Owed(m) = <<m.id>>  BY <1>2 DEF Server!Owed
<1>8. SubSeq(sent, 1, n + 1) = Append(SubSeq(sent, 1, n), m)
  BY <1>1, <1>2, <1>5, LinesRead DEF ServerTyped
<1>9. SubSeq(sent, 1, n) \in Seq(Messages)
  <2>1. sent \in Seq(Messages) /\ \A i \in 1..n : sent[i] \in Messages
    BY <1>1, <1>5 DEF ServerTyped
  <2> QED  BY <2>1, SubSeqProperties
<1>10. Server!OwedIds(SubSeq(sent, 1, n + 1)) = Server!OwedIds(SubSeq(sent, 1, n)) \o <<m.id>>
  BY <1>2, <1>7, <1>8, <1>9, OwedIdsAppend
<1>11. Server!Ids(outbox) = Server!OwedIds(SubSeq(sent, 1, n))
  BY <1>1 DEF ServerInv, AnsweredSoFar, Finished
<1>12. Server!Ids(outbox') = Server!OwedIds(SubSeq(sent', 1, n + 1))
  BY <1>2, <1>3, <1>6, <1>10, <1>11
<1>13. Finished' = n + 1 /\ taken' = n + 1
  BY <1>1, <1>4 DEF Finished
<1>14. ServerInv'
  <2>1. ServerTyped'  BY <1>6 DEF ServerInv, ServerTyped
  <2>2. PipeHolds'  BY DEF ServerInv, PipeHolds
  <2>3. CallIsLast' /\ FilesWereHeld'  BY <1>4 DEF CallIsLast, FilesWereHeld
  <2>4. AnsweredSoFar'  BY <1>12, <1>13 DEF AnsweredSoFar
  <2> QED  BY <2>1, <2>2, <2>3, <2>4 DEF ServerInv
<1>15. Server!Last(outbox').says = says
  <2>1. outbox'[Len(outbox')] = r  BY <1>5, <1>6, AppendProperties DEF ServerTyped
  <2> QED  BY <1>3, <2>1 DEF Server!Last
<1> QED  BY <1>14, <1>15

(* What NothingByAccident says of one step. *)
SaysTruly ==
  (call.tool = "find_existing" /\ call' = Server!Idle /\ Len(outbox') > Len(outbox)
    /\ Server!Last(outbox').says = "nothing exists") => held

LEMMA CallInHand ==
  ASSUME NEW tools \in SUBSET Server!KnownTools, NEW s, Server!At(tools, s)
  PROVE  call # Server!Idle
<1>1. Server!Idle.tool = "none"  BY DEF Server!Idle
<1>2. "none" \notin Server!KnownTools  BY DEF Server!KnownTools, Server!Gates
<1> QED  BY <1>1, <1>2 DEF Server!At

LEMMA ServerStarts ==
  ASSUME Server!Init
  PROVE  ServerInv
<1> USE DEF Server!Init
<1>1. ServerTyped /\ PipeHolds  BY EmptySeq DEF ServerTyped, PipeHolds
<1>2. SubSeq(sent, 1, 0) = <<>>  BY SubSeqEmpty
<1>3. Finished = 0  BY DEF Finished
<1>4. Server!Ids(outbox) = <<>>  BY DEF Server!Ids
<1>5. AnsweredSoFar  BY <1>2, <1>3, <1>4, OwedNothing DEF AnsweredSoFar
<1>6. CallIsLast /\ FilesWereHeld  BY DEF CallIsLast, FilesWereHeld
<1> QED  BY <1>1, <1>5, <1>6 DEF ServerInv

LEMMA SendKeeps ==
  ASSUME ServerInv, NEW m \in Server!Lines(Len(sent) + 1), Server!Send(m)
  PROVE  ServerInv' /\ SaysTruly
<1> USE DEF Server!Send
<1>1. sent \in Seq(Messages) /\ inbox \in Seq(Messages) /\ taken \in Nat
  BY DEF ServerInv, ServerTyped
<1>2. PICK k, l \in Nat : k = Len(sent) /\ l = Len(inbox)
  <2>1. Len(sent) \in Nat /\ Len(inbox) \in Nat  BY <1>1, LenProperties
  <2> QED  BY <2>1
<1>3. m \in Messages
  <2>1. k + 1 \in Nat  OBVIOUS
  <2> QED  BY <1>2, <2>1 DEF Messages
<1>4. /\ sent' \in Seq(Messages) /\ Len(sent') = k + 1 /\ sent'[k + 1] = m
      /\ \A i \in 1..k : sent'[i] = sent[i]
  BY <1>1, <1>2, <1>3, AppendProperties
<1>5. /\ inbox' \in Seq(Messages) /\ Len(inbox') = l + 1 /\ inbox'[l + 1] = m
      /\ \A i \in 1..l : inbox'[i] = inbox[i]
  BY <1>1, <1>2, <1>3, AppendProperties
<1>6. taken + l = k /\ \A i \in 1..l : inbox[i] = sent[taken + i]
  BY <1>2 DEF ServerInv, PipeHolds
<1>7. ServerTyped'  BY <1>4, <1>5 DEF ServerInv, ServerTyped
<1>8. PipeHolds'
  <2>1. taken' + Len(inbox') = Len(sent')  BY <1>1, <1>4, <1>5, <1>6
  <2>2. ASSUME NEW i \in 1..(l + 1)  PROVE inbox'[i] = sent'[taken + i]
    <3>1. CASE i = l + 1  BY <1>1, <1>4, <1>5, <1>6, <3>1
    <3>2. CASE i # l + 1
      <4>1. i \in 1..l /\ taken + i \in 1..k  BY <1>1, <1>6, <3>2
      <4> QED  BY <1>4, <1>5, <1>6, <4>1
    <3> QED  BY <3>1, <3>2
  <2> QED  BY <1>5, <2>1, <2>2 DEF PipeHolds
<1>9. CallIsLast'
  <2>1. taken # 0 => taken \in 1..k  BY <1>1, <1>2, <1>6
  <2>2. taken # 0 => sent'[taken] = sent[taken]  BY <1>4, <2>1
  <2> QED  BY <2>2 DEF ServerInv, CallIsLast
<1>10. AnsweredSoFar'
  <2>1. Finished \in Int /\ Finished <= k /\ Finished' = Finished
    BY <1>1, <1>2, <1>6 DEF Finished
  <2>2. SubSeq(sent', 1, Finished) = SubSeq(sent, 1, Finished)
    BY <1>1, <1>2, <1>3, <2>1, LinesSent
  <2> QED  BY <2>1, <2>2 DEF ServerInv, AnsweredSoFar
<1>11. FilesWereHeld'  BY DEF ServerInv, FilesWereHeld
<1>12. SaysTruly
  <2>1. Len(outbox) \in Nat  BY LenProperties DEF ServerInv, ServerTyped
  <2>2. outbox' = outbox  OBVIOUS
  <2>3. ~ (Len(outbox') > Len(outbox))  BY <2>1, <2>2
  <2> QED  BY <2>3 DEF SaysTruly
<1> QED  BY <1>7, <1>8, <1>9, <1>10, <1>11, <1>12 DEF ServerInv

LEMMA ReadKeeps ==
  ASSUME ServerInv, Server!Read
  PROVE  ServerInv' /\ SaysTruly
<1>1. /\ serving /\ call = Server!Idle /\ inbox # <<>>
      /\ inbox' = Tail(inbox) /\ taken' = taken + 1
      /\ UNCHANGED <<sent, serving, index, sees, events>>
  BY DEF Server!Read
<1>2. sent \in Seq(Messages) /\ inbox \in Seq(Messages) /\ taken \in Nat
  BY DEF ServerInv, ServerTyped
<1>3. PICK k, l \in Nat : k = Len(sent) /\ l = Len(inbox)
  <2>1. Len(sent) \in Nat /\ Len(inbox) \in Nat  BY <1>2, LenProperties
  <2> QED  BY <2>1
<1>4. l # 0  BY <1>1, <1>2, <1>3, EmptySeq
<1>5. taken + l = k /\ \A i \in 1..l : inbox[i] = sent[taken + i]
  BY <1>3 DEF ServerInv, PipeHolds
<1>6. PICK m \in Messages : m = Head(inbox) /\ m = sent[taken + 1] /\ m.id \in Nat
  <2>1. Head(inbox) \in Messages /\ Head(inbox) = inbox[1]
    BY <1>1, <1>2, HeadTailProperties
  <2>2. 1 \in 1..l  BY <1>4
  <2>3. Head(inbox).id \in Nat  BY <2>1, MessageTyped
  <2> QED  BY <1>5, <2>1, <2>2, <2>3
<1>7. PipeHolds' /\ inbox' \in Seq(Messages)
  <2>1. /\ inbox' \in Seq(Messages) /\ Len(inbox') = l - 1
        /\ \A i \in 1..(l - 1) : inbox'[i] = inbox[i + 1]
    BY <1>1, <1>2, <1>3, HeadTailProperties
  <2>2. \A i \in 1..(l - 1) : i + 1 \in 1..l /\ taken + (i + 1) = (taken + 1) + i
    BY <1>2
  <2>3. \A i \in 1..(l - 1) : inbox'[i] = sent[(taken + 1) + i]
    BY <1>5, <2>1, <2>2
  <2>4. (taken + 1) + (l - 1) = k  BY <1>2, <1>5
  <2> QED  BY <1>1, <1>3, <2>1, <2>3, <2>4 DEF PipeHolds
<1>8. sees = "closed" /\ sees' = "closed" /\ Server!Ids(outbox) = Server!OwedIds(SubSeq(sent, 1, taken))
  BY <1>1 DEF ServerInv, FilesWereHeld, AnsweredSoFar, Finished
<1>9. SaysTruly
  <2>1. call.tool = "none"  BY <1>1 DEF Server!Idle
  <2> QED  BY <2>1 DEF SaysTruly
<1>10. CASE Server!Runs(m)
  <2>1. /\ call' = [id |-> m.id, tool |-> m.tool, step |-> "start", good |-> m.good]
        /\ held' = (index = "filled") /\ UNCHANGED <<buffer, outbox>>
    BY <1>6, <1>10 DEF Server!Read
  <2>2. m.form = "call" /\ m.tool \in Server!KnownTools /\ m.id # Server!NoId
    BY <1>10 DEF Server!Runs
  <2>3. /\ call'.id = m.id /\ call'.tool \in Server!KnownTools
        /\ call' = [id |-> call'.id, tool |-> call'.tool, step |-> call'.step,
                    good |-> call'.good]
    BY <2>1, <2>2
  <2>4. call' # Server!Idle
    BY <2>3 DEF Server!Idle, Server!KnownTools, Server!Gates
  <2>5. CallIsLast'  BY <1>1, <1>2, <1>6, <2>2, <2>3 DEF CallIsLast
  <2>6. Finished' = taken  BY <1>1, <1>2, <2>4 DEF Finished
  <2>7. AnsweredSoFar'  BY <1>1, <1>8, <2>1, <2>6 DEF AnsweredSoFar
  <2>8. FilesWereHeld'  BY <1>1, <1>8, <2>1, <2>4 DEF FilesWereHeld
  <2>9. ServerTyped'  BY <1>1, <1>2, <1>7, <2>1 DEF ServerInv, ServerTyped
  <2> QED  BY <1>1, <1>7, <1>9, <2>5, <2>7, <2>8, <2>9 DEF ServerInv
<1>11. CASE ~ Server!Runs(m)
  <2>1. /\ IF Server!GetsReply(m) THEN Server!Write(Server!Reply(m.id, Server!Plain(m)))
                                  ELSE UNCHANGED <<buffer, outbox>>
        /\ UNCHANGED <<call, held>>
    BY <1>6, <1>11 DEF Server!Read
  <2>2. /\ outbox' \in Seq(Replies) /\ buffer' = <<>>
        /\ Server!Ids(outbox') = Server!Ids(outbox) \o Server!Owed(m)
    <3>1. CASE Server!GetsReply(m)
      <4>1. Server!Plain(m) \in Says
        <5>1. m.form \in {"garbage", "no method", "method", "unknown method", "call"}
          BY <3>1, MessageTyped DEF Server!GetsReply
        <5> QED  BY <5>1, Zenon DEF Server!Plain, Says
      <4>2. [id |-> m.id, says |-> Server!Plain(m)] \in Replies
        BY <1>6, <4>1 DEF Replies
      <4>3. PICK r \in Replies : r = [id |-> m.id, says |-> Server!Plain(m)]
        BY <4>2
      <4>4. Server!Write(r) /\ r.id = m.id  BY <2>1, <3>1, <4>3 DEF Server!Reply
      <4>5. Server!Owed(m) = <<m.id>>  BY <3>1 DEF Server!GetsReply, Server!Owed
      <4>6. ServerTyped  BY DEF ServerInv
      <4> QED  BY <4>4, <4>5, <4>6, WriteFlushes
    <3>2. CASE ~ Server!GetsReply(m)
      <4>1. Server!Owed(m) = <<>>  BY <3>2 DEF Server!GetsReply, Server!Owed
      <4>2. outbox' = outbox /\ buffer' = buffer  BY <2>1, <3>2
      <4>3. outbox \in Seq(Replies) /\ buffer = <<>>  BY DEF ServerInv, ServerTyped
      <4>4. Server!Ids(outbox) \in Seq(Nat)
        <5>1. \A i \in 1..Len(outbox) : outbox[i] \in Replies  BY <4>3, ElementOfSeq
        <5>2. \A i \in 1..Len(outbox) : outbox[i].id \in Nat  BY <5>1 DEF Replies
        <5>3. Len(outbox) \in Nat  BY <4>3, LenProperties
        <5> QED  BY <5>2, <5>3 DEF Server!Ids
      <4> QED  BY <4>1, <4>2, <4>3, <4>4, ConcatEmptySeq
    <3> QED  BY <3>1, <3>2
  <2>3. SubSeq(sent, 1, taken) \in Seq(Messages)
    <3>1. \A i \in 1..taken : sent[i] \in Messages
      BY <1>2, <1>3, <1>5, ElementOfSeq
    <3> QED  BY <1>2, <3>1, SubSeqProperties
  <2>4. SubSeq(sent, 1, taken + 1) = Append(SubSeq(sent, 1, taken), m)
    BY <1>2, <1>3, <1>4, <1>5, <1>6, LinesRead
  <2>5. Server!OwedIds(SubSeq(sent, 1, taken + 1))
          = Server!OwedIds(SubSeq(sent, 1, taken)) \o Server!Owed(m)
    BY <2>3, <2>4, OwedIdsAppend
  <2>6. Finished' = taken + 1  BY <1>1, <2>1 DEF Finished
  <2>7. AnsweredSoFar'  BY <1>1, <1>8, <2>2, <2>5, <2>6 DEF AnsweredSoFar
  <2>8. CallIsLast' /\ FilesWereHeld'
    BY <1>1, <1>8, <2>1 DEF CallIsLast, FilesWereHeld
  <2>9. ServerTyped'  BY <1>1, <1>2, <1>7, <2>2 DEF ServerTyped
  <2> QED  BY <1>1, <1>7, <1>9, <2>7, <2>8, <2>9 DEF ServerInv
<1> QED  BY <1>10, <1>11

(* A step of a tool that answers nothing yet. *)
LEMMA StillCalling ==
  ASSUME ServerInv, call # Server!Idle, call' # Server!Idle,
         call' = call \/ \E at : call' = [call EXCEPT !.step = at],
         UNCHANGED <<inbox, sent, taken, buffer, outbox, serving>>
  PROVE  /\ serving' /\ ServerTyped' /\ PipeHolds' /\ CallIsLast' /\ AnsweredSoFar'
         /\ SaysTruly
<1>1. serving' /\ ServerTyped' /\ PipeHolds'
  BY DEF ServerInv, ServerTyped, PipeHolds
<1>2. CallIsLast'
  <2>1. call = [id |-> call.id, tool |-> call.tool, step |-> call.step, good |-> call.good]
    BY DEF ServerInv, CallIsLast
  <2>2. /\ call'.id = call.id /\ call'.tool = call.tool
        /\ call' = [id |-> call'.id, tool |-> call'.tool, step |-> call'.step,
                    good |-> call'.good]
    BY <2>1
  <2> QED  BY <2>2 DEF ServerInv, CallIsLast
<1>3. Finished' = Finished  BY DEF Finished
<1>4. AnsweredSoFar'  BY <1>3 DEF ServerInv, AnsweredSoFar
<1>5. SaysTruly  BY DEF SaysTruly
<1> QED  BY <1>1, <1>2, <1>4, <1>5

(* The call goes on to its next step, still the same call. *)
LEMMA NextStep ==
  ASSUME ServerInv, call.tool \in Server!KnownTools, NEW at,
         call # Server!Idle, call' = [call EXCEPT !.step = at]
  PROVE  call' # Server!Idle
<1>1. call = [id |-> call.id, tool |-> call.tool, step |-> call.step, good |-> call.good]
  BY DEF ServerInv, CallIsLast
<1>2. call'.tool = call.tool  BY <1>1
<1> QED  BY <1>2 DEF Server!Idle, Server!KnownTools, Server!Gates

(* A tool that answers with anything but "nothing exists". *)
LEMMA AnswersOther ==
  ASSUME ServerInv, call # Server!Idle, NEW says \in Says, says # "nothing exists",
         Server!Return(says), UNCHANGED <<inbox, sent, taken, serving>>
  PROVE  ServerInv' /\ SaysTruly
BY Returned DEF SaysTruly

LEMMA ServeKeeps ==
  ASSUME ServerInv, Server!Serve
  PROVE  ServerInv' /\ SaysTruly
<1>0. /\ "tool error" \in Says /\ "result" \in Says
      /\ "matches" \in Says /\ "nothing exists" \in Says
  BY Zenon DEF Says
<1>1. CASE Server!Read  BY <1>1, ReadKeeps
<1>2. CASE Server!RefuseArguments
  <2>1. call # Server!Idle
    BY <1>2, CallInHand DEF Server!RefuseArguments
  <2>2. Server!Return("tool error") /\ UNCHANGED <<inbox, sent, taken, serving>>
    BY <1>2 DEF Server!RefuseArguments
  <2> QED  BY <1>0, <2>1, <2>2, AnswersOther
<1>3. CASE Server!RunGate
  <2>1. call # Server!Idle
    BY <1>3, CallInHand DEF Server!RunGate, Server!KnownTools
  <2>2. /\ Server!Return("tool error") \/ Server!Return("result")
        /\ UNCHANGED <<inbox, sent, taken, serving>>
    BY <1>3 DEF Server!RunGate
  <2> QED  BY <1>0, <2>1, <2>2, AnswersOther
<1>4. CASE Server!LookForIndex
  <2>1. call # Server!Idle /\ call.tool \in Server!KnownTools
    BY <1>4, CallInHand DEF Server!LookForIndex, Server!KnownTools, Server!At
  <2>2. UNCHANGED <<inbox, sent, taken, serving, index, held>>
    BY <1>4 DEF Server!LookForIndex
  <2>3. CASE Server!Return("tool error") \/ Server!Return("result")
    BY <1>0, <2>1, <2>2, <2>3, AnswersOther
  <2>4. CASE call' = [call EXCEPT !.step = "open"] /\ UNCHANGED <<buffer, outbox, sees>>
    <3>1. call' # Server!Idle  BY <2>1, <2>4, NextStep
    <3>2. FilesWereHeld'  BY <2>1, <2>2, <2>4, <3>1 DEF ServerInv, FilesWereHeld
    <3> QED  BY <2>1, <2>2, <2>4, <3>1, <3>2, StillCalling DEF ServerInv
  <2>5. \/ Server!Return(IF call.tool = "status" THEN "result" ELSE "tool error")
        \/ call' = [call EXCEPT !.step = "open"] /\ UNCHANGED <<buffer, outbox, sees>>
    BY <1>4 DEF Server!LookForIndex
  <2> QED  BY <2>3, <2>4, <2>5
<1>5. CASE Server!OpenIndex
  <2>1. call # Server!Idle /\ call.tool \in Server!KnownTools
    BY <1>5, CallInHand DEF Server!OpenIndex, Server!KnownTools, Server!At
  <2>2. /\ UNCHANGED <<inbox, sent, taken, buffer, outbox, serving, held>>
        /\ call' = [call EXCEPT !.step = "query"]
        /\ index' = IF index = "none" THEN "empty" ELSE index
        /\ sees' = index'
    BY <1>5 DEF Server!OpenIndex
  <2>3. call' # Server!Idle  BY <2>1, <2>2, NextStep
  <2>4. FilesWereHeld'  BY <2>1, <2>2, <2>3 DEF ServerInv, FilesWereHeld
  <2> QED  BY <2>1, <2>2, <2>3, <2>4, StillCalling DEF ServerInv
<1>6. CASE Server!Query
  <2>1. call # Server!Idle
    BY <1>6, CallInHand DEF Server!Query, Server!KnownTools
  <2>2. UNCHANGED <<inbox, sent, taken, serving, held>>
    BY <1>6 DEF Server!Query
  <2>3. CASE \/ Server!Return("result") \/ Server!Return("tool error")
             \/ Server!Return("matches")
    BY <1>0, <2>1, <2>2, <2>3, AnswersOther
  <2>4. CASE Server!HasFiles(sees) /\ Server!Return("nothing exists")
    <3>1. held  BY <2>4 DEF Server!HasFiles, ServerInv, FilesWereHeld
    <3> QED  BY <1>0, <2>1, <2>2, <2>4, <3>1, Returned DEF SaysTruly
  <2>5. \/ Server!Return("result") \/ Server!Return("tool error")
        \/ Server!Return("matches")
        \/ Server!HasFiles(sees) /\ Server!Return("nothing exists")
    <3>1. CASE Server!HasFiles(sees)  BY <1>6, <3>1 DEF Server!Query
    <3>2. CASE ~ Server!HasFiles(sees)  BY <1>6, <3>2 DEF Server!Query
    <3> QED  BY <3>1, <3>2
  <2> QED  BY <2>3, <2>4, <2>5
<1> QED  BY <1>1, <1>2, <1>3, <1>4, <1>5, <1>6 DEF Server!Serve

LEMMA ServerNextKeeps ==
  ASSUME ServerInv, Server!Next
  PROVE  ServerInv' /\ SaysTruly
<1>1. CASE Server!Serve  BY <1>1, ServeKeeps
<1>2. CASE Server!RebuildOnOpen
  <2>1. call # Server!Idle /\ call.tool \in Server!KnownTools
    BY <1>2, CallInHand DEF Server!RebuildOnOpen, Server!KnownTools, Server!At
  <2>2. /\ UNCHANGED <<inbox, sent, taken, buffer, outbox, serving, held>>
        /\ call' = [call EXCEPT !.step = "query"]
        /\ index' = "empty" /\ sees' = "empty"
    BY <1>2 DEF Server!RebuildOnOpen
  <2>3. call' # Server!Idle  BY <2>1, <2>2, NextStep
  <2>4. FilesWereHeld'  BY <2>1, <2>2, <2>3 DEF ServerInv, FilesWereHeld
  <2> QED  BY <2>1, <2>2, <2>3, <2>4, StillCalling DEF ServerInv
<1>3. CASE Server!Panic
  <2>1. /\ call # Server!Idle /\ Server!Return("internal engine failure")
        /\ UNCHANGED <<inbox, sent, taken, serving>>
    BY <1>3 DEF Server!Panic, Server!SurvivesPanic
  <2>2. "internal engine failure" \in Says  BY Zenon DEF Says
  <2> QED  BY <2>1, <2>2, AnswersOther
<1>4. CASE \E m \in Server!Lines(Len(sent) + 1) : Server!Send(m)
  BY <1>4, SendKeeps
<1>5. ASSUME NEW to \in {"none", "empty", "filled"}, Server!OtherProcess(to)
      PROVE  ServerInv' /\ SaysTruly
  <2>1. /\ UNCHANGED <<inbox, sent, taken, call, buffer, outbox, serving>>
        /\ index' = to /\ held' = (held \/ to = "filled")
        /\ sees' = IF sees = "closed" \/ to = "none" THEN sees ELSE to
    BY <1>5 DEF Server!OtherProcess
  <2>2. FilesWereHeld'  BY <2>1 DEF ServerInv, FilesWereHeld
  <2>3. CASE call # Server!Idle
    BY <2>1, <2>2, <2>3, StillCalling DEF ServerInv
  <2>4. CASE call = Server!Idle
    <3>1. SaysTruly  BY <2>4 DEF SaysTruly, Server!Idle
    <3>2. ServerTyped' /\ PipeHolds' /\ CallIsLast'
      BY <2>1, <2>4 DEF ServerInv, ServerTyped, PipeHolds, CallIsLast
    <3>3. AnsweredSoFar'  BY <2>1 DEF ServerInv, AnsweredSoFar, Finished
    <3> QED  BY <2>1, <2>2, <3>1, <3>2, <3>3 DEF ServerInv
  <2> QED  BY <2>3, <2>4
<1> QED  BY <1>1, <1>2, <1>3, <1>4, <1>5 DEF Server!Next

-----------------------------------------------------------------------------
(* McpServer: every line that is owed an answer has exactly one, in the     *)
(* order the lines came, whatever the tools and the other processes do, and *)
(* "nothing exists" is said of no index that held no file during the call.  *)
THEOREM ServerAnswers == AnswersSpec => AnswersKept
<1>1. AnswersInit => ServerInv
  <2>1. AnswersInit => Server!Init  BY DEF AnswersInit
  <2> QED  BY <2>1, ServerStarts
<1>2. ASSUME ServerInv, [RulesStep \/ ServerStep]_answersVars
      PROVE  ServerInv' /\ (SaysTruly \/ UNCHANGED serverVars)
  <2>1. CASE ServerStep  BY <1>2, <2>1, ServerNextKeeps DEF ServerStep
  <2>2. CASE UNCHANGED serverVars
    BY <1>2, <2>2
    DEF serverVars, ServerInv, ServerTyped, PipeHolds, CallIsLast, AnsweredSoFar, Finished,
        FilesWereHeld
  <2> QED  BY <1>2, <2>1, <2>2 DEF RulesStep, answersVars
<1>3. ServerInv => Server!AnswersInOrder
  <2> SUFFICES ASSUME ServerInv  PROVE Server!AnswersInOrder
    OBVIOUS
  <2>1. outbox \in Seq(Replies) /\ buffer = <<>> /\ serving
    BY DEF ServerInv, ServerTyped
  <2>2. outbox \o buffer = outbox  BY <2>1, ConcatEmptySeq
  <2> QED
    BY <2>1, <2>2 DEF ServerInv, AnsweredSoFar, Finished, Server!AnswersInOrder, Server!Done
<1>4. [SaysTruly]_serverVars
        <=> [(call.tool = "find_existing" /\ call' = Server!Idle
               /\ Len(outbox') > Len(outbox)
               /\ Server!Last(outbox').says = "nothing exists") => held]_(Server!serverVars)
  BY DEF SaysTruly, serverVars, Server!serverVars
<1> QED
  BY <1>1, <1>2, <1>3, <1>4, PTL DEF AnswersSpec, AnswersKept, Server!NothingByAccident

-----------------------------------------------------------------------------
(* The graph. *)

(* The marks of a text are a sequence, and each specifier opens at one. *)
IsText(t) == Len(t.marks) \in Nat /\ \A s \in t.imports : s.at \in 1..Len(t.marks)

(* What a scan is in behind each of the first n marks. *)
Scans(mode, t, passed, n) ==
  mode = [i \in 0..n |-> IF i = 0 THEN "code" ELSE Graph!Behind(mode[i - 1], t, i, passed)]

LEMMA ScansExist ==
  ASSUME NEW t, NEW passed, NEW n \in Nat
  PROVE  \E mode : Scans(mode, t, passed, n)
<1> DEFINE bad == {m \in Nat : ~ \E mode : Scans(mode, t, passed, m)}
<1> SUFFICES ASSUME bad # {}  PROVE FALSE
  OBVIOUS
<1>1. PICK m \in bad : \A l \in bad : m <= l  BY LeastNumber
<1>2. CASE m = 0
  <2>1. PICK mode : mode = [i \in 0..0 |-> "code"]  OBVIOUS
  <2>2. Scans(mode, t, passed, 0)  BY <2>1 DEF Scans
  <2> QED  BY <1>1, <1>2, <2>2
<1>3. CASE m # 0
  <2>1. m - 1 \in Nat /\ m - 1 \notin bad  BY <1>1, <1>3
  <2>2. PICK f : Scans(f, t, passed, m - 1)  BY <2>1
  <2>3. PICK mode : mode = [i \in 0..m |->
                              IF i = 0 THEN "code" ELSE Graph!Behind(f[i - 1], t, i, passed)]
    OBVIOUS
  <2>4. ASSUME NEW i \in 0..m, i # 0  PROVE f[i - 1] = mode[i - 1]
    <3>1. i - 1 \in 0..m /\ i - 1 \in 0..(m - 1)  BY <1>1, <2>4
    <3> QED  BY <2>2, <2>3, <3>1 DEF Scans
  <2>5. Scans(mode, t, passed, m)  BY <2>3, <2>4 DEF Scans
  <2> QED  BY <1>1, <2>5
<1> QED  BY <1>2, <1>3

LEMMA ScanUnfolds ==
  ASSUME NEW t, NEW passed, Len(t.marks) \in Nat
  PROVE  /\ Graph!Scan(t, passed)[0] = "code"
         /\ \A i \in 1..Len(t.marks) :
              Graph!Scan(t, passed)[i]
                = Graph!Behind(Graph!Scan(t, passed)[i - 1], t, i, passed)
<1> DEFINE mode == CHOOSE f : f = [i \in 0..Len(t.marks) |->
                     IF i = 0 THEN "code" ELSE Graph!Behind(f[i - 1], t, i, passed)]
<1>1. mode = [i \in 0..Len(t.marks) |->
                IF i = 0 THEN "code" ELSE Graph!Behind(mode[i - 1], t, i, passed)]
  <2>1. \E f : f = [i \in 0..Len(t.marks) |->
                      IF i = 0 THEN "code" ELSE Graph!Behind(f[i - 1], t, i, passed)]
    <3>1. PICK f : Scans(f, t, passed, Len(t.marks))  BY ScansExist
    <3>2. f = [i \in 0..Len(t.marks) |->
                 IF i = 0 THEN "code" ELSE Graph!Behind(f[i - 1], t, i, passed)]
      BY <3>1 DEF Scans
    <3> QED  BY <3>2
  <2> QED  BY <2>1
<1>2. Graph!Scan(t, passed) = mode  BY DEF Graph!Scan
<1> HIDE DEF mode
<1>3. mode[0] = "code"
  <2>1. 0 \in 0..Len(t.marks)  OBVIOUS
  <2> QED  BY <1>1, <2>1
<1>4. ASSUME NEW i \in 1..Len(t.marks)  PROVE mode[i] = Graph!Behind(mode[i - 1], t, i, passed)
  <2>1. i \in 0..Len(t.marks) /\ i # 0  OBVIOUS
  <2> QED  BY <1>1, <2>1
<1> QED  BY <1>2, <1>3, <1>4

(* What the end of a line ends, and what it does not. *)
OfALine == {"code", "single", "double", "slashes"}
OfSeveral == {"tick", "open"}

LEMMA StepsOfScan ==
  ASSUME NEW mode \in OfALine \cup OfSeveral, NEW mark
  PROVE  /\ Graph!Step(mode, mark) \in OfALine \cup OfSeveral
         /\ mode \in OfALine => Graph!Step(mode, "newline") = "code"
         /\ mode \in OfALine /\ mark \notin OfSeveral => Graph!Step(mode, mark) \in OfALine
         /\ mode \in OfSeveral /\ mark \in OfALine => Graph!Step(mode, mark) = mode
<1>1. CASE mode = "code"  BY <1>1 DEF Graph!Step, Graph!Closers, OfALine, OfSeveral
<1>2. CASE mode = "single"  BY <1>2 DEF Graph!Step, Graph!Closers, OfALine, OfSeveral
<1>3. CASE mode = "double"  BY <1>3 DEF Graph!Step, Graph!Closers, OfALine, OfSeveral
<1>4. CASE mode = "slashes"  BY <1>4 DEF Graph!Step, Graph!Closers, OfALine, OfSeveral
<1>5. CASE mode = "tick"  BY <1>5 DEF Graph!Step, Graph!Closers, OfALine, OfSeveral
<1>6. CASE mode = "open"  BY <1>6 DEF Graph!Step, Graph!Closers, OfALine, OfSeveral
<1> QED  BY <1>1, <1>2, <1>3, <1>4, <1>5, <1>6 DEF OfALine, OfSeveral

(* The scan of a broken text finds what is legible: where it reads a stray  *)
(* mark, it and a scan that passes the mark are both in what the end of the *)
(* line ends, until it does.                                                *)
THEOREM LegibleIsSeen ==
  ASSUME NEW t, IsText(t), NEW s \in t.imports, Graph!Legible(t, s)
  PROVE  Graph!Scan(t, {})[s.at - 1] = "code"
<1>1. PICK scan : scan = Graph!Scan(t, {})  OBVIOUS
<1>2. PICK real : real = Graph!Scan(t, t.stray)  OBVIOUS
<1>3. PICK n \in Nat : n = s.at - 1 /\ n <= Len(t.marks) /\ Len(t.marks) \in Nat
  BY DEF IsText
<1>4. scan[0] = "code" /\ real[0] = "code"  BY <1>1, <1>2, <1>3, ScanUnfolds
<1>5. ASSUME NEW i \in 1..n
      PROVE  /\ scan[i] = Graph!Step(scan[i - 1], t.marks[i])
             /\ i \in t.stray => real[i] = real[i - 1]
             /\ i \notin t.stray => real[i] = Graph!Step(real[i - 1], t.marks[i])
  <2>1. i \in 1..Len(t.marks) /\ i \notin {}  BY <1>3
  <2> QED  BY <1>1, <1>2, <1>3, <2>1, ScanUnfolds DEF Graph!Behind
<1>6. ASSUME NEW i \in t.stray, i \in 1..n
      PROVE  /\ t.marks[i] \in {"single", "double", "slashes"}
             /\ \E j \in (i + 1)..n : /\ t.marks[j] = "newline"
                                      /\ \A k \in (i + 1)..j : t.marks[k] \notin OfSeveral
  <2>1. s.at = n + 1 /\ i < s.at  BY <1>3, <1>6 DEF IsText
  <2>2. Graph!CostsItsLine(t, i, s.at)  BY <2>1 DEF Graph!Legible
  <2>3. s.at - 1 = n  BY <1>3
  <2> QED  BY <2>2, <2>3 DEF Graph!CostsItsLine, OfSeveral
<1>7. real[n] = "code"  BY <1>2, <1>3 DEF Graph!Legible
<1> DEFINE Stray(i) == \E x \in t.stray :
                          x \in 1..i /\ \A j \in (x + 1)..i : t.marks[j] # "newline"
           Apart(i) == scan[i] \in OfALine /\ real[i] \in OfALine /\ Stray(i)
           Holds(i) == scan[i] \in OfALine \cup OfSeveral /\ (scan[i] = real[i] \/ Apart(i))
           bad == {i \in Nat : i <= n /\ ~ Holds(i)}
<1>8. bad = {}
  <2> SUFFICES ASSUME bad # {}  PROVE FALSE
    OBVIOUS
  <2>1. PICK m \in bad : \A l \in bad : m <= l
    <3>1. bad \in SUBSET Nat  OBVIOUS
    <3> HIDE DEF bad
    <3> QED  BY <3>1, LeastNumber
  <2>2. m # 0  BY <1>4, <2>1 DEF OfALine
  <2>3. m \in 1..n /\ m - 1 \in Nat /\ m - 1 <= n  BY <1>3, <2>1, <2>2
  <2>4. Holds(m - 1)  BY <2>1, <2>3
  <2>5. PICK was, now, mark : was = scan[m - 1] /\ now = real[m - 1] /\ mark = t.marks[m]
    OBVIOUS
  <2>6. /\ was \in OfALine \cup OfSeveral
        /\ was = now \/ (was \in OfALine /\ now \in OfALine /\ Stray(m - 1))
    BY <2>4, <2>5
  <2>7. /\ scan[m] = Graph!Step(was, mark)
        /\ m \in t.stray => real[m] = now
        /\ m \notin t.stray => real[m] = Graph!Step(now, mark)
    BY <1>5, <2>3, <2>5
  <2>8. scan[m] \in OfALine \cup OfSeveral  BY <2>6, <2>7, StepsOfScan
  <2>9. scan[m] = real[m] \/ Apart(m)
    <3>1. CASE was = now /\ m \notin t.stray  BY <2>7, <3>1
    <3>2. CASE was = now /\ m \in t.stray
      <4>1. mark \in {"single", "double", "slashes"}  BY <1>6, <2>3, <2>5, <3>2
      <4>2. mark \in OfALine /\ mark \notin OfSeveral  BY <4>1 DEF OfALine, OfSeveral
      <4>3. CASE was \in OfSeveral  BY <2>6, <2>7, <3>2, <4>2, <4>3, StepsOfScan
      <4>4. CASE was \in OfALine
        <5>1. scan[m] \in OfALine /\ real[m] \in OfALine
          BY <2>6, <2>7, <3>2, <4>2, <4>4, StepsOfScan
        <5>2. Stray(m)  BY <2>3, <3>2
        <5> QED  BY <5>1, <5>2
      <4> QED  BY <2>6, <4>3, <4>4
    <3>3. CASE was # now
      <4>1. was \in OfALine /\ now \in OfALine  BY <2>6, <3>3
      <4>2. PICK x \in t.stray : x \in 1..(m - 1)
                                 /\ \A j \in (x + 1)..(m - 1) : t.marks[j] # "newline"
        BY <2>6, <3>3
      <4>3. x \in 1..n  BY <2>3, <4>2
      <4>4. PICK j \in (x + 1)..n : /\ t.marks[j] = "newline"
                                    /\ \A k \in (x + 1)..j : t.marks[k] \notin OfSeveral
        BY <1>6, <4>3
      <4>5. j >= m  BY <2>3, <4>2, <4>3, <4>4
      <4>6. mark \notin OfSeveral  BY <2>3, <2>5, <4>2, <4>3, <4>4, <4>5
      <4>7. CASE mark = "newline"
        <5>1. m \notin t.stray  BY <1>6, <2>3, <2>5, <4>7
        <5> QED  BY <2>6, <2>7, <4>1, <4>7, <5>1, StepsOfScan
      <4>8. CASE mark # "newline"
        <5>1. scan[m] \in OfALine /\ real[m] \in OfALine
          BY <2>6, <2>7, <4>1, <4>6, StepsOfScan
        <5>2. ASSUME NEW l \in (x + 1)..m  PROVE t.marks[l] # "newline"
          <6>1. l = m \/ l \in (x + 1)..(m - 1)  BY <2>3, <4>2
          <6> QED  BY <2>5, <4>2, <4>8, <6>1
        <5>3. x \in 1..m  BY <2>3, <4>2
        <5>4. Stray(m)  BY <5>2, <5>3
        <5> QED  BY <5>1, <5>4
      <4> QED  BY <4>7, <4>8
    <3> QED  BY <3>1, <3>2, <3>3
  <2> QED  BY <2>1, <2>8, <2>9
<1>9. scan[n] = real[n] \/ Apart(n)  BY <1>3, <1>8
<1>10. ~ Stray(n)
  <2> SUFFICES ASSUME NEW x \in t.stray, x \in 1..n,
                      \A j \in (x + 1)..n : t.marks[j] # "newline"
               PROVE  FALSE
    OBVIOUS
  <2> QED  BY <1>6
<1> QED  BY <1>1, <1>3, <1>7, <1>9, <1>10

(* The specifier of a statement the scan sees is among what it takes. *)
LEMMA SeenIsTaken ==
  ASSUME NEW t, IsText(t), NEW s \in Graph!Seen(t)
  PROVE  \E i \in Graph!TextFallback(t) : i.spec = s.spec /\ "*" \in i.names
<1> DEFINE places == {n \in Nat : \E x \in Graph!Seen(t) : x.spec = s.spec /\ x.at = n}
<1>1. \A x \in Graph!Seen(t) : x.at \in Nat  BY DEF Graph!Seen, IsText
<1>2. places \in SUBSET Nat /\ places # {}  BY <1>1
<1>3. PICK n \in places : \A m \in places : n <= m
  <2> HIDE DEF places
  <2> QED  BY <1>2, LeastNumber
<1>4. PICK x \in Graph!Seen(t) : x.spec = s.spec /\ x.at = n  BY <1>3
<1>5. \A y \in Graph!Seen(t) : y.spec = x.spec => x.at <= y.at  BY <1>1, <1>3, <1>4
<1>6. PICK i : i = [Graph!Import(x) EXCEPT !.names = {"*"}]  OBVIOUS
<1>7. i \in Graph!TextFallback(t)  BY <1>5, <1>6 DEF Graph!TextFallback
<1>8. i.spec = s.spec /\ "*" \in i.names  BY <1>4, <1>6 DEF Graph!Import
<1> QED  BY <1>7, <1>8

(* An import that a text says, broken or not, is an edge of the graph, under *)
(* each name it takes or for the whole module.                               *)
LEMMA StatementLinks ==
  ASSUME NEW w, NEW g \in w.indexed, IsText(w.texts[g]),
         NEW s \in Graph!Heard(w.texts[g]), s.literal
  PROVE  \E i \in Graph!FileImports(w.texts[g]) :
           i.spec = s.spec /\ (i.names = Graph!Taken(s) \/ "*" \in i.names)
<1> DEFINE tx == w.texts[g]
<1>0. s \in tx.imports  BY DEF Graph!Heard
<1>1. CASE ~ tx.broken
  <2>1. Graph!Import(s) \in Graph!FileImports(tx)
    BY <1>0, <1>1 DEF Graph!FileImports, Graph!Extract
  <2> QED  BY <2>1 DEF Graph!Import
<1>2. CASE tx.broken
  <2>1. Graph!FileImports(tx)
          = {[i EXCEPT !.names = @ \cup {"*"}] : i \in Graph!Extract(tx.kept)}
              \cup {i \in Graph!TextFallback(tx) :
                      \A k \in Graph!Extract(tx.kept) : k.spec # i.spec}
    BY <1>2 DEF Graph!FileImports
  <2>2. CASE \E k \in Graph!Extract(tx.kept) : k.spec = s.spec
    <3>1. PICK k \in Graph!Extract(tx.kept) : k.spec = s.spec  BY <2>2
    <3>2. PICK x : k = [spec |-> x.spec, names |-> Graph!Taken(x), line |-> x.line]
      BY <3>1 DEF Graph!Extract, Graph!Import
    <3>3. PICK j : j = [k EXCEPT !.names = @ \cup {"*"}]  OBVIOUS
    <3>4. j \in Graph!FileImports(tx)  BY <2>1, <3>1, <3>3
    <3>5. j.spec = s.spec /\ "*" \in j.names  BY <3>1, <3>2, <3>3
    <3> QED  BY <3>4, <3>5
  <2>3. CASE \A k \in Graph!Extract(tx.kept) : k.spec # s.spec
    <3>1. ASSUME NEW k \in tx.kept, k.literal  PROVE k.spec # s.spec
      <4>1. PICK j : j = Graph!Import(k)  OBVIOUS
      <4>2. j \in Graph!Extract(tx.kept) /\ j.spec = k.spec
        BY <3>1, <4>1 DEF Graph!Extract, Graph!Import
      <4> QED  BY <2>3, <4>2
    <3>2. Graph!Legible(tx, s)  BY <1>2, <3>1 DEF Graph!Heard
    <3>3. s \in Graph!Seen(tx)  BY <1>0, <3>2, LegibleIsSeen DEF Graph!Seen
    <3>4. PICK i \in Graph!TextFallback(tx) : i.spec = s.spec /\ "*" \in i.names
      BY <3>3, SeenIsTaken
    <3>5. i \in Graph!FileImports(tx)  BY <2>1, <2>3, <3>4
    <3> QED  BY <3>4, <3>5
  <2> QED  BY <2>2, <2>3
<1> QED  BY <1>1, <1>2

(* What a statement resolves to has an edge for each name it takes. *)
LEMMA StatementEdges ==
  ASSUME NEW w, NEW g \in w.indexed, IsText(w.texts[g]),
         NEW s \in Graph!Heard(w.texts[g]), s.literal, NEW f,
         Graph!Resolve(w, g, s.spec) = Graph!Resolved(f)
  PROVE  LET names == Graph!ImportedNames(Graph!Edges(w), f)
         IN names # {} /\ ("*" \in names \/ Graph!Taken(s) \subseteq names)
<1> DEFINE names == Graph!ImportedNames(Graph!Edges(w), f)
<1>1. PICK i \in Graph!FileImports(w.texts[g]) :
        i.spec = s.spec /\ (i.names = Graph!Taken(s) \/ "*" \in i.names)
  BY StatementLinks
<1>2. PICK l : l = [from |-> g, import |-> i, to |-> Graph!Resolve(w, g, i.spec)]
  OBVIOUS
<1>3. l \in Graph!Links(w)  BY <1>2 DEF Graph!Links
<1>4. l.to.kind = "resolved" /\ l.to.file = f
  BY <1>1, <1>2 DEF Graph!Resolved
<1>5. ASSUME NEW n \in IF i.names = {} THEN {""} ELSE i.names  PROVE n \in names
  <2>1. PICK e : e = [from |-> l.from, to |-> l.to.file, name |-> n, line |-> l.import.line]
    OBVIOUS
  <2>2. l.import.names = i.names  BY <1>2
  <2>3. e \in Graph!Edges(w)
    <3>1. l \in {x \in Graph!Links(w) : x.to.kind = "resolved"}  BY <1>3, <1>4
    <3>2. n \in IF l.import.names = {} THEN {""} ELSE l.import.names  BY <1>5, <2>2
    <3>3. e \in {[from |-> l.from, to |-> l.to.file, name |-> m, line |-> l.import.line] :
                   m \in IF l.import.names = {} THEN {""} ELSE l.import.names}
      BY <2>1, <3>2
    <3> QED  BY <3>1, <3>3 DEF Graph!Edges
  <2>4. e.to = f /\ e.name = n  BY <1>4, <2>1
  <2> QED  BY <2>3, <2>4 DEF Graph!ImportedNames
<1> HIDE DEF names
<1>6. names # {}  BY <1>5
<1>7. i.names \subseteq names  BY <1>5
<1>8. "*" \in names \/ Graph!Taken(s) \subseteq names  BY <1>1, <1>7
<1> QED  BY <1>6, <1>8 DEF names

LEMMA DeadHolds ==
  ASSUME \A f \in input.indexed : IsText(input.texts[f])
  PROVE  Graph!DeadIsDead
<1>1. ASSUME NEW d \in Graph!DeadExports(input, Graph!Edges(input)),
             NEW g \in input.indexed, NEW s \in Graph!Heard(input.texts[g])
      PROVE  ~ Graph!Takes(input, g, s, d[1], d[2])
  <2> SUFFICES ASSUME Graph!Takes(input, g, s, d[1], d[2])  PROVE FALSE
    OBVIOUS
  <2>1. PICK f, n : d = <<f, n>> /\ n \notin Graph!ImportedNames(Graph!Edges(input), f)
                    /\ "*" \notin Graph!ImportedNames(Graph!Edges(input), f)
    BY DEF Graph!DeadExports
  <2>2. /\ s.literal /\ Graph!Resolve(input, g, s.spec) = Graph!Resolved(f)
        /\ n \in Graph!Taken(s) \/ "*" \in Graph!Taken(s)
    BY <2>1 DEF Graph!Takes
  <2> QED  BY <2>1, <2>2, StatementEdges
<1>2. ASSUME NEW f \in Graph!DeadFiles(input, Graph!Edges(input)),
             NEW g \in input.indexed, NEW s \in Graph!Heard(input.texts[g]), s.literal
      PROVE  Graph!Resolve(input, g, s.spec) # Graph!Resolved(f)
  <2>1. Graph!ImportedNames(Graph!Edges(input), f) = {}  BY DEF Graph!DeadFiles
  <2> QED  BY <1>2, <2>1, StatementEdges
<1> QED  BY <1>1, <1>2 DEF Graph!DeadIsDead

LEMMA OneFindingPerLine == Graph!OnePerLine
<1> SUFFICES ASSUME NEW x \in Graph!BoundaryFindings(input, Graph!Edges(input)),
                    NEW y \in Graph!BoundaryFindings(input, Graph!Edges(input)),
                    x.from = y.from, x.line = y.line, x.label = y.label
             PROVE  x = y
  BY DEF Graph!OnePerLine
<1>1. ASSUME NEW z \in Graph!BoundaryFindings(input, Graph!Edges(input))
      PROVE  z = [from |-> z.from, line |-> z.line, label |-> z.label]
  <2>1. PICK e, bd : z = Graph!FoundKey(e, bd)
    BY DEF Graph!BoundaryFindings
  <2> QED  BY <2>1 DEF Graph!FoundKey
<1> QED  BY <1>1

LEMMA SeqSet ==
  ASSUME NEW S, NEW s \in Seq(S)
  PROVE  /\ Graph!ToSet(s) = {s[i] : i \in 1..Len(s)}
         /\ Len(s) \in Nat
BY LenProperties DEF Graph!ToSet

LEMMA JoinSet ==
  ASSUME NEW S, NEW s \in Seq(S), NEW t \in Seq(S)
  PROVE  s \o t \in Seq(S) /\ Graph!ToSet(s \o t) = Graph!ToSet(s) \cup Graph!ToSet(t)
<1>1. PICK u, m, n : u = s \o t /\ m = Len(s) /\ n = Len(t)  OBVIOUS
<1>2. /\ u \in Seq(S) /\ m \in Nat /\ n \in Nat /\ Len(u) = m + n
      /\ \A i \in 1..(m + n) : u[i] = IF i <= m THEN s[i] ELSE t[i - m]
  BY <1>1, ConcatProperties, LenProperties
<1>3. /\ Graph!ToSet(u) = {u[i] : i \in 1..(m + n)}
      /\ Graph!ToSet(s) = {s[i] : i \in 1..m} /\ Graph!ToSet(t) = {t[i] : i \in 1..n}
  <2>1. Graph!ToSet(u) = {u[i] : i \in 1..Len(u)}  BY <1>2, SeqSet
  <2>2. Graph!ToSet(s) = {s[i] : i \in 1..Len(s)}  BY SeqSet
  <2>3. Graph!ToSet(t) = {t[i] : i \in 1..Len(t)}  BY SeqSet
  <2> QED  BY <1>1, <1>2, <2>1, <2>2, <2>3
<1>4. Graph!ToSet(u) \subseteq Graph!ToSet(s) \cup Graph!ToSet(t)
  <2> SUFFICES ASSUME NEW i \in 1..(m + n)  PROVE u[i] \in Graph!ToSet(s) \cup Graph!ToSet(t)
    BY <1>3
  <2>1. CASE i <= m
    <3>1. i \in 1..m /\ u[i] = s[i]  BY <1>2, <2>1
    <3> QED  BY <1>3, <3>1
  <2>2. CASE ~ (i <= m)
    <3>1. i - m \in 1..n /\ u[i] = t[i - m]  BY <1>2, <2>2
    <3> QED  BY <1>3, <3>1
  <2> QED  BY <2>1, <2>2
<1>5. Graph!ToSet(s) \subseteq Graph!ToSet(u)
  <2> SUFFICES ASSUME NEW i \in 1..m  PROVE s[i] \in Graph!ToSet(u)
    BY <1>3
  <2>1. i \in 1..(m + n) /\ u[i] = s[i]  BY <1>2
  <2> QED  BY <1>3, <2>1
<1>6. Graph!ToSet(t) \subseteq Graph!ToSet(u)
  <2> SUFFICES ASSUME NEW i \in 1..n  PROVE t[i] \in Graph!ToSet(u)
    BY <1>3
  <2>1. i + m \in 1..(m + n) /\ u[i + m] = t[i]  BY <1>2
  <2> QED  BY <1>3, <2>1
<1> QED  BY <1>1, <1>2, <1>4, <1>5, <1>6

Extensions == {"ts", "tsx", "js", "jsx", "mts", "cts", "mjs", "cjs"}

LEMMA SourceExtsTyped ==
  ASSUME NEW ext
  PROVE  Graph!SourceExts(ext) \in Seq(Extensions)
<1>1. CASE /\ ext # <<>> /\ Graph!Last(ext) \in DOMAIN Graph!OUTPUT_TO_SOURCE
  <2>1. PICK x : x = Graph!Last(ext)  OBVIOUS
  <2>2. x \in {"js", "jsx", "mjs", "cjs"}  BY <1>1, <2>1 DEF Graph!OUTPUT_TO_SOURCE
  <2>3. Graph!OUTPUT_TO_SOURCE[x] \in {<<"ts", "tsx">>, <<"tsx">>, <<"mts">>, <<"cts">>}
    BY <2>2 DEF Graph!OUTPUT_TO_SOURCE
  <2>4. Graph!OUTPUT_TO_SOURCE[x] \in Seq(Extensions)
    <3>1. /\ "ts" \in Extensions /\ "tsx" \in Extensions
          /\ "mts" \in Extensions /\ "cts" \in Extensions
      BY DEF Extensions
    <3>2. \A y, z \in Extensions : <<y>> \in Seq(Extensions) /\ <<y, z>> \in Seq(Extensions)
      OBVIOUS
    <3>3. /\ <<"ts", "tsx">> \in Seq(Extensions) /\ <<"tsx">> \in Seq(Extensions)
          /\ <<"mts">> \in Seq(Extensions) /\ <<"cts">> \in Seq(Extensions)
      BY <3>1, <3>2
    <3> QED  BY <2>3, <3>3
  <2> QED  BY <1>1, <2>1, <2>4 DEF Graph!SourceExts
<1>2. CASE ~ (ext # <<>> /\ Graph!Last(ext) \in DOMAIN Graph!OUTPUT_TO_SOURCE)
  BY <1>2, EmptySeq DEF Graph!SourceExts
<1> QED  BY <1>1, <1>2


LEMMA SourcesTyped == Graph!SOURCE_EXTS \in Seq(Extensions)
<1>1. /\ "ts" \in Extensions /\ "tsx" \in Extensions /\ "js" \in Extensions
      /\ "jsx" \in Extensions /\ "mts" \in Extensions /\ "cts" \in Extensions
      /\ "mjs" \in Extensions /\ "cjs" \in Extensions
  BY DEF Extensions
<1> QED  BY <1>1 DEF Graph!SOURCE_EXTS

(* What is tried for a path: every spelling of it, in one order. *)
LEMMA CandidatesHold ==
  ASSUME NEW p
  PROVE  LET cands == Graph!Candidates(p)
         IN /\ Len(cands) \in Nat
            /\ Graph!ToSet(cands) = {cands[i] : i \in 1..Len(cands)}
            /\ p \in Graph!ToSet(cands)
            /\ \A x \in Graph!ToSet(Graph!SourceExts(p.ext)) :
                 Graph!Path(p.at, Append(Graph!Front(p.ext), x)) \in Graph!ToSet(cands)
            /\ p.at # <<>> => \A x \in Graph!ToSet(Graph!SOURCE_EXTS) :
                 Graph!Path(p.at, Append(p.ext, x)) \in Graph!ToSet(cands)
            /\ (p.at # <<>> /\ p.ext = <<>>) => \A x \in Graph!ToSet(Graph!SOURCE_EXTS) :
                 Graph!Path(Append(p.at, "index"), <<x>>) \in Graph!ToSet(cands)
<1>1. PICK exts \in Seq(Extensions) : exts = Graph!SourceExts(p.ext)
  BY SourceExtsTyped
<1>2. PICK all \in Seq(Extensions) : all = Graph!SOURCE_EXTS  BY SourcesTyped
<1>3. /\ Len(exts) \in Nat /\ Graph!ToSet(exts) = {exts[i] : i \in 1..Len(exts)}
  BY SeqSet
<1>4. /\ Len(all) \in Nat /\ Graph!ToSet(all) = {all[i] : i \in 1..Len(all)}
  BY SeqSet
<1>5. PICK s1 : s1 = Graph!Sources(p)  OBVIOUS
<1>6. PICK s2 : s2 = IF p.at = <<>> THEN <<>> ELSE Graph!Extended(p)  OBVIOUS
<1>7. PICK s3 : s3 = IF p.at = <<>> \/ p.ext # <<>> THEN <<>> ELSE Graph!Indexes(p)  OBVIOUS
<1> DEFINE S == {p} \cup {Graph!Path(p.at, Append(Graph!Front(p.ext), exts[i])) : i \in 1..Len(exts)}
                  \cup {Graph!Path(p.at, Append(p.ext, all[i])) : i \in 1..Len(all)}
                  \cup {Graph!Path(Append(p.at, "index"), <<all[i]>>) : i \in 1..Len(all)}
<1>8. s1 \in Seq(S) /\ \A x \in Graph!ToSet(exts) :
                         Graph!Path(p.at, Append(Graph!Front(p.ext), x)) \in Graph!ToSet(s1)
  <2>1. s1 = [i \in 1..Len(exts) |-> Graph!Path(p.at, Append(Graph!Front(p.ext), exts[i]))]
    BY <1>1, <1>5 DEF Graph!Sources
  <2>2. \A i \in 1..Len(exts) : Graph!Path(p.at, Append(Graph!Front(p.ext), exts[i])) \in S
    OBVIOUS
  <2> HIDE DEF S
  <2>3. s1 \in Seq(S)  BY <1>3, <2>1, <2>2
  <2> QED  BY <1>3, <2>1, <2>3 DEF Graph!ToSet
<1>9. /\ s2 \in Seq(S)
      /\ p.at # <<>> => \A x \in Graph!ToSet(all) :
                         Graph!Path(p.at, Append(p.ext, x)) \in Graph!ToSet(s2)
  <2>1. CASE p.at = <<>>  BY <1>6, <2>1, EmptySeq
  <2>2. CASE p.at # <<>>
    <3>1. s2 = [i \in 1..Len(all) |-> Graph!Path(p.at, Append(p.ext, all[i]))]
      BY <1>2, <1>6, <2>2 DEF Graph!Extended
    <3>2. \A i \in 1..Len(all) : Graph!Path(p.at, Append(p.ext, all[i])) \in S
      OBVIOUS
    <3> HIDE DEF S
    <3>3. s2 \in Seq(S)  BY <1>4, <3>1, <3>2
    <3> QED  BY <1>4, <3>1, <3>3 DEF Graph!ToSet
  <2> QED  BY <2>1, <2>2
<1>10. /\ s3 \in Seq(S)
       /\ (p.at # <<>> /\ p.ext = <<>>) => \A x \in Graph!ToSet(all) :
                         Graph!Path(Append(p.at, "index"), <<x>>) \in Graph!ToSet(s3)
  <2>1. CASE p.at = <<>> \/ p.ext # <<>>  BY <1>7, <2>1, EmptySeq
  <2>2. CASE p.at # <<>> /\ p.ext = <<>>
    <3>1. s3 = [i \in 1..Len(all) |-> Graph!Path(Append(p.at, "index"), <<all[i]>>)]
      BY <1>2, <1>7, <2>2 DEF Graph!Indexes
    <3>2. \A i \in 1..Len(all) : Graph!Path(Append(p.at, "index"), <<all[i]>>) \in S
      OBVIOUS
    <3> HIDE DEF S
    <3>3. s3 = [i \in 1..Len(all) |-> s3[i]] /\ \A i \in 1..Len(all) : s3[i] \in S
      BY <3>1, <3>2
    <3>4. s3 \in [1..Len(all) -> S]  BY <3>3
    <3>5. s3 \in Seq(S)  BY <1>4, <3>4
    <3> QED  BY <1>4, <3>1, <3>5 DEF Graph!ToSet
  <2> QED  BY <2>1, <2>2
<1>11. <<p>> \in Seq(S) /\ p \in Graph!ToSet(<<p>>)
  <2>1. p \in S  OBVIOUS
  <2> HIDE DEF S
  <2> QED  BY <2>1 DEF Graph!ToSet
<1> HIDE DEF S
<1>12. PICK c1 \in Seq(S) : c1 = <<p>> \o s1 /\ Graph!ToSet(c1) = Graph!ToSet(<<p>>) \cup Graph!ToSet(s1)
  <2>1. /\ <<p>> \o s1 \in Seq(S)
        /\ Graph!ToSet(<<p>> \o s1) = Graph!ToSet(<<p>>) \cup Graph!ToSet(s1)
    BY <1>8, <1>11, JoinSet
  <2> QED  BY <2>1
<1>13. PICK c2 \in Seq(S) : c2 = c1 \o s2 /\ Graph!ToSet(c2) = Graph!ToSet(c1) \cup Graph!ToSet(s2)
  <2>1. c1 \o s2 \in Seq(S) /\ Graph!ToSet(c1 \o s2) = Graph!ToSet(c1) \cup Graph!ToSet(s2)
    BY <1>9, JoinSet
  <2> QED  BY <2>1
<1>14. PICK c3 \in Seq(S) : c3 = c2 \o s3 /\ Graph!ToSet(c3) = Graph!ToSet(c2) \cup Graph!ToSet(s3)
  <2>1. c2 \o s3 \in Seq(S) /\ Graph!ToSet(c2 \o s3) = Graph!ToSet(c2) \cup Graph!ToSet(s3)
    BY <1>10, JoinSet
  <2> QED  BY <2>1
<1>15. c3 = Graph!Candidates(p)
  BY <1>5, <1>6, <1>7, <1>12, <1>13, <1>14 DEF Graph!Candidates
<1>16. Len(c3) \in Nat /\ Graph!ToSet(c3) = {c3[i] : i \in 1..Len(c3)}  BY SeqSet
<1> QED
  BY <1>1, <1>2, <1>8, <1>9, <1>10, <1>11, <1>12, <1>13, <1>14, <1>15, <1>16

(* The modules of a repository, and what a specifier can come to. *)
Modules(w) == {f \in w.indexed : ~Graph!IsDeclaration(f)}
Verdicts(w) ==
  {Graph!Resolved(f) : f \in Modules(w)} \cup {Graph!External, Graph!Unresolved}

(* The first of the paths that is a module, or what stands for none. *)
LEMMA FirstIsAModule ==
  ASSUME NEW w, NEW cands, Len(cands) \in Nat, NEW otherwise
  PROVE  LET hit == Graph!FirstHit(w, cands, otherwise)
         IN /\ \/ hit = otherwise /\ \A i \in 1..Len(cands) : cands[i] \notin Modules(w)
               \/ \E f \in Modules(w) : hit = Graph!Resolved(f)
            /\ (\E i \in 1..Len(cands) : cands[i] \in Modules(w)) => hit.kind = "resolved"
<1>1. PICK hits : hits = Graph!IndexedHit(w, cands)  OBVIOUS
<1>2. hits = {i \in 1..Len(cands) : cands[i] \in Modules(w)}
  BY <1>1 DEF Graph!IndexedHit, Modules
<1>3. CASE hits = {}
  BY <1>1, <1>2, <1>3 DEF Graph!FirstHit
<1>4. CASE hits # {}
  <2>1. hits \in SUBSET Nat  BY <1>2
  <2>2. PICK n \in hits : \A m \in hits : n <= m  BY <1>4, <2>1, LeastNumber
  <2>3. PICK k : k = Graph!Min(hits)  OBVIOUS
  <2>4. k \in hits  BY <2>2, <2>3 DEF Graph!Min
  <2>5. cands[k] \in Modules(w)  BY <1>2, <2>4
  <2>6. Graph!FirstHit(w, cands, otherwise) = Graph!Resolved(cands[k])
    BY <1>1, <1>4, <2>3 DEF Graph!FirstHit
  <2> QED  BY <2>5, <2>6 DEF Graph!Resolved
<1> QED  BY <1>3, <1>4

LEMMA KindsApart ==
  /\ Graph!External.kind = "external" /\ Graph!Unresolved.kind = "unresolved"
  /\ \A f : Graph!Resolved(f).kind = "resolved" /\ Graph!Resolved(f).file = f
BY DEF Graph!External, Graph!Unresolved, Graph!Resolved

(* Nothing on disk is spelled so: no candidate, no package, no declaration. *)
LEMMA NothingMeant ==
  ASSUME NEW w, NEW p, ~ Graph!Exists(w, p), p.at # <<>>
  PROVE  Graph!Meant(w, p) = {} /\ ~ Graph!HasPackage(w, p)
<1>1. /\ Graph!ToSet(Graph!Candidates(p)) \cap Graph!OnDisk(w) = {}
      /\ ~ Graph!HasPackage(w, p)
      /\ p.ext = <<>> => Graph!Path(Append(p.at, "index"), <<"d", "ts">>) \notin Graph!OnDisk(w)
      /\ Graph!Path(p.at, p.ext \o <<"d", "ts">>) \notin Graph!OnDisk(w)
  BY DEF Graph!Exists
<1>2. PICK cands : cands = Graph!Candidates(p)  OBVIOUS
<1>3. /\ p \in Graph!ToSet(cands)
      /\ \A x \in Graph!ToSet(Graph!SourceExts(p.ext)) :
           Graph!Path(p.at, Append(Graph!Front(p.ext), x)) \in Graph!ToSet(cands)
      /\ \A x \in Graph!ToSet(Graph!SOURCE_EXTS) :
           Graph!Path(p.at, Append(p.ext, x)) \in Graph!ToSet(cands)
      /\ p.ext = <<>> => \A x \in Graph!ToSet(Graph!SOURCE_EXTS) :
           Graph!Path(Append(p.at, "index"), <<x>>) \in Graph!ToSet(cands)
  BY <1>2, CandidatesHold
<1>4. ASSUME NEW f \in Graph!Meant(w, p)  PROVE FALSE
  <2>1. f \in Graph!OnDisk(w)  BY DEF Graph!Meant
  <2>2. f \notin Graph!ToSet(cands)  BY <1>1, <1>2, <2>1
  <2>3. f # p /\ f # Graph!Path(p.at, p.ext \o <<"d", "ts">>)  BY <1>1, <1>3, <2>1, <2>2
  <2>4. \A x \in Graph!ToSet(Graph!SOURCE_EXTS) : f # Graph!Path(p.at, Append(p.ext, x))
    BY <1>3, <2>2
  <2>5. \A x \in Graph!ToSet(Graph!SourceExts(p.ext)) :
          f # Graph!Path(p.at, Append(Graph!Front(p.ext), x))
    BY <1>3, <2>2
  <2>6. p.ext = <<>> => \A x \in Graph!ToSet(Graph!SOURCE_EXTS) :
          f # Graph!Path(Append(p.at, "index"), <<x>>)
    BY <1>3, <2>2
  <2>7. p.ext = <<>> => f # Graph!Path(Append(p.at, "index"), <<"d", "ts">>)
    BY <1>1, <2>1
  <2> QED  BY <2>3, <2>4, <2>5, <2>6, <2>7 DEF Graph!Meant
<1> QED  BY <1>1, <1>4

(* A path spelled as a declaration is one. *)
LEMMA DeclarationForms ==
  ASSUME NEW S, "d" \in S, "ts" \in S, NEW at, NEW ext \in Seq(S)
  PROVE  Graph!IsDeclaration(Graph!Path(at, ext \o <<"d", "ts">>))
<1>1. PICK e, m : e = ext \o <<"d", "ts">> /\ m = Len(ext)  OBVIOUS
<1>2. <<"d", "ts">> \in Seq(S) /\ m \in Nat  BY <1>1, LenProperties
<1>3. /\ e \in Seq(S) /\ Len(e) = m + 2
      /\ \A i \in 1..(m + 2) : e[i] = IF i <= m THEN ext[i] ELSE <<"d", "ts">>[i - m]
  BY <1>1, <1>2, ConcatProperties
<1>4. e[m + 1] = "d" /\ e[m + 2] = "ts"
  <2>1. m + 1 \in 1..(m + 2) /\ m + 2 \in 1..(m + 2)  BY <1>2
  <2>2. ~ (m + 1 <= m) /\ ~ (m + 2 <= m) /\ (m + 1) - m = 1 /\ (m + 2) - m = 2
    BY <1>2
  <2>3. <<"d", "ts">>[1] = "d" /\ <<"d", "ts">>[2] = "ts"  OBVIOUS
  <2> QED  BY <1>3, <2>1, <2>2, <2>3
<1>5. Graph!Last(e) = "ts"  BY <1>3, <1>4 DEF Graph!Last
<1>6. Graph!Last(Graph!Front(e)) = "d"
  <2>1. Len(e) - 1 = m + 1 /\ m + 1 \in Nat  BY <1>2, <1>3
  <2>2. Graph!Front(e) = SubSeq(e, 1, m + 1)  BY <2>1 DEF Graph!Front
  <2>3. \A i \in 1..(m + 1) : e[i] \in S  BY <1>2, <1>3, ElementOfSeq
  <2>4. /\ Len(SubSeq(e, 1, m + 1)) = IF 1 <= m + 1 THEN (m + 1) - 1 + 1 ELSE 0
        /\ \A i \in 1..((m + 1) - 1 + 1) : SubSeq(e, 1, m + 1)[i] = e[1 + i - 1]
    BY <1>2, <2>1, <2>3, SubSeqProperties
  <2>5. Len(SubSeq(e, 1, m + 1)) = m + 1 /\ SubSeq(e, 1, m + 1)[m + 1] = e[m + 1]
    <3>1. m + 1 \in 1..((m + 1) - 1 + 1) /\ 1 + (m + 1) - 1 = m + 1 /\ 1 <= m + 1
      BY <1>2
    <3> QED  BY <1>2, <2>4, <3>1
  <2> QED  BY <1>4, <2>2, <2>5 DEF Graph!Last
<1>7. Len(e) > 1  BY <1>2, <1>3
<1> QED  BY <1>1, <1>5, <1>6, <1>7 DEF Graph!IsDeclaration, Graph!Path

(* What a probe says of a path. *)
LEMMA ProbeHolds ==
  ASSUME NEW w, NEW p
  PROVE  /\ Graph!Probe(w, p) \in Verdicts(w)
         /\ (\E f \in Modules(w) : f \in Graph!ToSet(Graph!Candidates(p)))
              => Graph!Probe(w, p).kind = "resolved"
         /\ Graph!Probe(w, p).kind = "unresolved" => ~ Graph!Exists(w, p)
<1> DEFINE other == IF Graph!HasMain(w, p)
                     THEN Graph!ProbeMain(w, p, Graph!Normalized(p.at \o w.packages[p.at].main))
                     ELSE IF Graph!Exists(w, p) THEN Graph!External ELSE Graph!Unresolved
<1>1. PICK cands : cands = Graph!Candidates(p)  OBVIOUS
<1>2. Len(cands) \in Nat /\ Graph!ToSet(cands) = {cands[i] : i \in 1..Len(cands)}
  BY <1>1, CandidatesHold
<1>3. PICK otherwise : otherwise = other  OBVIOUS
<1>4. PICK hit : hit = Graph!FirstHit(w, cands, otherwise)  OBVIOUS
<1>5. hit = Graph!Probe(w, p)  BY <1>1, <1>3, <1>4 DEF Graph!Probe
<1>6. /\ hit = otherwise \/ \E f \in Modules(w) : hit = Graph!Resolved(f)
      /\ (\E i \in 1..Len(cands) : cands[i] \in Modules(w)) => hit.kind = "resolved"
  BY <1>2, <1>4, FirstIsAModule
<1>7. /\ otherwise \in Verdicts(w)
      /\ otherwise.kind = "unresolved" => ~ Graph!Exists(w, p)
  <2>1. CASE ~ Graph!HasMain(w, p)
    BY <1>3, <2>1, KindsApart DEF Verdicts
  <2>2. CASE Graph!HasMain(w, p)
    <3>1. Graph!Exists(w, p)  BY <2>2 DEF Graph!HasMain, Graph!Exists
    <3>2. PICK target : target = Graph!Normalized(p.at \o w.packages[p.at].main)  OBVIOUS
    <3>3. otherwise = Graph!ProbeMain(w, p, target)  BY <1>3, <2>2, <3>2
    <3>4. CASE ~ target.ok
      <4>1. otherwise = Graph!External  BY <3>1, <3>3, <3>4 DEF Graph!ProbeMain
      <4> QED  BY <4>1, KindsApart DEF Verdicts
    <3>5. CASE target.ok
      <4>1. PICK mains : mains = Graph!Candidates(Graph!Path(target.at, <<>>))  OBVIOUS
      <4>2. otherwise = Graph!FirstHit(w, mains, Graph!External)
        BY <3>3, <3>5, <4>1 DEF Graph!ProbeMain
      <4>3. Len(mains) \in Nat  BY <4>1, CandidatesHold
      <4>4. otherwise = Graph!External \/ \E f \in Modules(w) : otherwise = Graph!Resolved(f)
        BY <4>2, <4>3, FirstIsAModule
      <4> QED  BY <4>4, KindsApart DEF Verdicts
    <3> QED  BY <3>4, <3>5
  <2> QED  BY <2>1, <2>2
<1>8. hit \in Verdicts(w)  BY <1>6, <1>7 DEF Verdicts
<1>9. hit.kind = "unresolved" => ~ Graph!Exists(w, p)  BY <1>6, <1>7, KindsApart
<1> QED  BY <1>1, <1>2, <1>5, <1>6, <1>8, <1>9

(* A project file over the ones it extends, `left` of them at most. *)
Layer(w, left, from) ==
  [c \in DOMAIN w.configs |->
     IF left = 0 \/ ~w.configs[c].parses THEN Graph!NoConfig
     ELSE Graph!Merged(w.configs[c],
                       IF w.configs[c].extends \in DOMAIN w.configs
                         THEN from[w.configs[c].extends] ELSE Graph!NoConfig,
                       Graph!Normalized(w.configs[c].dir \o w.configs[c].base))]

Layers(l, w, n) == l = [left \in 0..n |-> Layer(w, left, l[left - 1])]

LEMMA LayersExist ==
  ASSUME NEW w, NEW n \in Nat
  PROVE  \E l : Layers(l, w, n)
<1> DEFINE bad == {m \in Nat : ~ \E l : Layers(l, w, m)}
<1> SUFFICES ASSUME bad # {}  PROVE FALSE
  OBVIOUS
<1>1. PICK m \in bad : \A k \in bad : m <= k  BY LeastNumber
<1>2. CASE m = 0
  <2>1. PICK l : l = [left \in 0..0 |-> Layer(w, left, <<>>)]  OBVIOUS
  <2>2. \A left \in 0..0 : Layer(w, left, <<>>) = Layer(w, left, l[left - 1])
    <3> SUFFICES Layer(w, 0, <<>>) = Layer(w, 0, l[0 - 1])
      OBVIOUS
    <3> QED  BY DEF Layer
  <2>3. Layers(l, w, 0)  BY <2>1, <2>2 DEF Layers
  <2> QED  BY <1>1, <1>2, <2>3
<1>3. CASE m # 0
  <2>1. m - 1 \in Nat /\ m - 1 \notin bad  BY <1>1, <1>3
  <2>2. PICK f : Layers(f, w, m - 1)  BY <2>1
  <2>3. PICK l : l = [left \in 0..m |-> Layer(w, left, f[left - 1])]  OBVIOUS
  <2>4. ASSUME NEW left \in 0..m  PROVE Layer(w, left, f[left - 1]) = Layer(w, left, l[left - 1])
    <3>1. CASE left = 0  BY <3>1 DEF Layer
    <3>2. CASE left # 0
      <4>1. left - 1 \in 0..m /\ left - 1 \in 0..(m - 1)  BY <1>1, <3>2
      <4>2. f[left - 1] = Layer(w, left - 1, f[(left - 1) - 1])  BY <2>2, <4>1 DEF Layers
      <4>3. l[left - 1] = Layer(w, left - 1, f[(left - 1) - 1])  BY <2>3, <4>1
      <4> QED  BY <4>2, <4>3
    <3> QED  BY <3>1, <3>2
  <2>5. Layers(l, w, m)  BY <2>3, <2>4 DEF Layers
  <2> QED  BY <1>1, <2>5
<1> QED  BY <1>2, <1>3

(* A config that was loaded has the paths of one of the files, or none. *)
IsConfig(w, cfg) ==
  /\ cfg = [loaded |-> cfg.loaded, base |-> cfg.base, based |-> cfg.based, dir |-> cfg.dir,
            paths |-> cfg.paths]
  /\ cfg.paths = {} \/ \E c \in DOMAIN w.configs : cfg.paths = w.configs[c].paths

LEMMA MergedKeeps ==
  ASSUME NEW w, NEW c \in DOMAIN w.configs, NEW from, IsConfig(w, from), NEW norm
  PROVE  IsConfig(w, Graph!Merged(w.configs[c], from, norm))
<1>1. PICK file : file = w.configs[c]  OBVIOUS
<1>2. PICK base : base = IF norm.ok THEN norm.at ELSE <<>>  OBVIOUS
<1>3. PICK mid : mid = IF file.based THEN [from EXCEPT !.based = TRUE, !.base = base] ELSE from
  OBVIOUS
<1>4. IsConfig(w, mid)
  <2>1. CASE file.based  BY <1>3, <2>1 DEF IsConfig
  <2>2. CASE ~ file.based  BY <1>3, <2>2
  <2> QED  BY <2>1, <2>2
<1>5. Graph!Merged(file, from, norm)
        = IF file.mapped THEN [mid EXCEPT !.loaded = TRUE, !.dir = file.dir, !.paths = file.paths]
          ELSE [mid EXCEPT !.loaded = TRUE]
  BY <1>2, <1>3 DEF Graph!Merged
<1>6. CASE file.mapped  BY <1>1, <1>4, <1>5, <1>6 DEF IsConfig
<1>7. CASE ~ file.mapped  BY <1>1, <1>4, <1>5, <1>7 DEF IsConfig
<1> QED  BY <1>1, <1>6, <1>7

LEMMA ConfigFromFile ==
  ASSUME NEW w
  PROVE  IsConfig(w, Graph!TsConfig(w))
<1>1. IsConfig(w, Graph!NoConfig)  BY DEF IsConfig, Graph!NoConfig
<1> DEFINE load == CHOOSE l : l = [left \in 0..6 |-> [c \in DOMAIN w.configs |->
     IF left = 0 \/ ~w.configs[c].parses THEN Graph!NoConfig
     ELSE Graph!Merged(w.configs[c],
                       IF w.configs[c].extends \in DOMAIN w.configs
                         THEN l[left - 1][w.configs[c].extends] ELSE Graph!NoConfig,
                       Graph!Normalized(w.configs[c].dir \o w.configs[c].base))]]
<1>2. Graph!TsConfig(w) = IF "tsconfig" \in DOMAIN w.configs THEN load[6]["tsconfig"]
                          ELSE Graph!NoConfig
  BY DEF Graph!TsConfig
<1>3. Layers(load, w, 6)
  <2>1. \E l : Layers(l, w, 6)  BY LayersExist
  <2> QED  BY <2>1 DEF Layers, Layer
<1> HIDE DEF load
<1> DEFINE bad == {n \in 0..6 : \E c \in DOMAIN w.configs : ~ IsConfig(w, load[n][c])}
<1>4. bad = {}
  <2> SUFFICES ASSUME bad # {}  PROVE FALSE
    OBVIOUS
  <2>1. PICK n \in bad : \A k \in bad : n <= k
    <3>1. bad \in SUBSET Nat  OBVIOUS
    <3> HIDE DEF bad
    <3> QED  BY <3>1, LeastNumber
  <2>2. n \in 0..6  BY <2>1
  <2>3. PICK c \in DOMAIN w.configs : ~ IsConfig(w, load[n][c])  BY <2>1
  <2>4. load[n] = Layer(w, n, load[n - 1])  BY <1>3, <2>2 DEF Layers
  <2>5. n # 0 => n - 1 \in 0..6 /\ n - 1 \notin bad
    <3> HIDE DEF bad
    <3> QED  BY <2>1, <2>2
  <2>6. n # 0 => \A d \in DOMAIN w.configs : IsConfig(w, load[n - 1][d])
    BY <2>5
  <2>7. load[n][c] = IF n = 0 \/ ~w.configs[c].parses THEN Graph!NoConfig
                     ELSE Graph!Merged(w.configs[c],
                            IF w.configs[c].extends \in DOMAIN w.configs
                              THEN load[n - 1][w.configs[c].extends] ELSE Graph!NoConfig,
                            Graph!Normalized(w.configs[c].dir \o w.configs[c].base))
    BY <2>3, <2>4 DEF Layer
  <2>8. CASE n = 0 \/ ~w.configs[c].parses  BY <1>1, <2>3, <2>7, <2>8
  <2>9. CASE n # 0 /\ w.configs[c].parses
    <3>1. PICK from : from = IF w.configs[c].extends \in DOMAIN w.configs
                               THEN load[n - 1][w.configs[c].extends] ELSE Graph!NoConfig
      OBVIOUS
    <3>2. IsConfig(w, from)  BY <1>1, <2>6, <2>9, <3>1
    <3>3. PICK norm : norm = Graph!Normalized(w.configs[c].dir \o w.configs[c].base)
      OBVIOUS
    <3>4. load[n][c] = Graph!Merged(w.configs[c], from, norm)
      BY <2>7, <2>9, <3>1, <3>3
    <3> QED  BY <2>3, <3>2, <3>4, MergedKeeps
  <2> QED  BY <2>8, <2>9
<1>5. "tsconfig" \in DOMAIN w.configs => IsConfig(w, load[6]["tsconfig"])
  BY <1>4
<1> QED  BY <1>1, <1>2, <1>5

-----------------------------------------------------------------------------
(* What the texts and project files of a repository hold: no file has two   *)
(* patterns of one spelling, they are the keys of a JSON object.            *)
IsPattern(x, Segs) == x.pre \in Seq(Segs) /\ x.targets \in Seq(Seq(Segs))
OneEach(xs) == \A x, y \in xs : (x.pre = y.pre /\ (x.star <=> y.star)) => x = y
IsSpecifier(spec, Segs) ==
  /\ spec.form \in {"relative", "absolute", "bare"}
  /\ spec.segs \in Seq(Segs) /\ spec.ext \in Seq(Segs)

Repository(w, Segs) ==
  /\ \A c \in DOMAIN w.configs : OneEach(w.configs[c].paths)
  /\ \A c \in DOMAIN w.configs : \A x \in w.configs[c].paths : IsPattern(x, Segs)
  /\ \A spec \in Graph!Specifiers(w) : IsSpecifier(spec, Segs)
  /\ \A f \in w.indexed : IsText(w.texts[f])

LEMMA ConfigTyped ==
  ASSUME NEW Segs, NEW w, Repository(w, Segs)
  PROVE  /\ OneEach(Graph!TsConfig(w).paths)
         /\ \A x \in Graph!TsConfig(w).paths : IsPattern(x, Segs)
<1>1. PICK xs : xs = Graph!TsConfig(w).paths  OBVIOUS
<1>2. xs = {} \/ \E c \in DOMAIN w.configs : xs = w.configs[c].paths
  BY <1>1, ConfigFromFile DEF IsConfig
<1>3. CASE xs = {}  BY <1>1, <1>3 DEF OneEach
<1>4. CASE \E c \in DOMAIN w.configs : xs = w.configs[c].paths
  BY <1>1, <1>4 DEF Repository
<1> QED  BY <1>2, <1>3, <1>4

(* Two patterns that match a specifier with prefixes of one length are one. *)
LEMMA RankTells ==
  ASSUME NEW Segs, NEW xs, OneEach(xs), \A x \in xs : IsPattern(x, Segs),
         NEW spec, spec.segs \in Seq(Segs),
         NEW x \in xs, NEW y \in xs, Graph!Matches(x, spec), Graph!Matches(y, spec),
         Len(x.pre) = Len(y.pre)
  PROVE  x = y
<1>1. x.pre \in Seq(Segs) /\ y.pre \in Seq(Segs)  BY DEF IsPattern
<1>2. PICK segs \in Seq(Segs) : segs = spec.segs  OBVIOUS
<1>3. ASSUME NEW z \in xs, Graph!Matches(z, spec)
      PROVE  /\ z.pre = SubSeq(segs, 1, Len(z.pre))
             /\ z.star <=> Len(segs) > Len(z.pre)
  <2>1. z.pre \in Seq(Segs)  BY DEF IsPattern
  <2>2. Len(segs) \in Nat /\ Len(z.pre) \in Nat  BY <2>1, LenProperties
  <2>3. CASE z.star
    BY <1>2, <1>3, <2>3 DEF Graph!Matches, Graph!Within, Graph!Start
  <2>4. CASE ~ z.star
    <3>1. z.pre = segs  BY <1>2, <1>3, <2>4 DEF Graph!Matches
    <3>2. SubSeq(segs, 1, Len(segs)) = segs  BY SubSeqFull
    <3> QED  BY <2>2, <2>4, <3>1, <3>2
  <2> QED  BY <2>3, <2>4
<1>4. x.pre = SubSeq(segs, 1, Len(x.pre)) /\ (x.star <=> Len(segs) > Len(x.pre))
  BY <1>3
<1>5. y.pre = SubSeq(segs, 1, Len(y.pre)) /\ (y.star <=> Len(segs) > Len(y.pre))
  BY <1>3
<1> QED  BY <1>4, <1>5 DEF OneEach

LEMMA MatchIsPrefix ==
  ASSUME NEW Segs, NEW x, IsPattern(x, Segs), NEW spec, spec.segs \in Seq(Segs), Graph!Matches(x, spec)
  PROVE  Len(x.pre) \in Nat /\ Len(spec.segs) \in Nat /\ Len(x.pre) <= Len(spec.segs)
<1>1. x.pre \in Seq(Segs)  BY DEF IsPattern
<1>2. Len(x.pre) \in Nat /\ Len(spec.segs) \in Nat  BY <1>1, LenProperties
<1>3. CASE x.star  BY <1>3, <1>2 DEF Graph!Matches, Graph!Within
<1>4. CASE ~ x.star  BY <1>4, <1>2 DEF Graph!Matches
<1> QED  BY <1>2, <1>3, <1>4

(* What one target of a matching pattern leads to. *)
Try(w, cfg, spec, x, i) ==
  [rank |-> Len(x.pre), nth |-> i,
   said |-> Graph!ProbeAt(w, Graph!Target(cfg, spec, x, i), spec.ext)]

LEMMA TriesAre ==
  ASSUME NEW w, NEW cfg, NEW spec
  PROVE  /\ \A t \in Graph!Tries(w, cfg, spec) :
              \E x \in cfg.paths : \E i \in 1..Len(x.targets) :
                /\ Graph!Matches(x, spec) /\ t = Try(w, cfg, spec, x, i)
                /\ Graph!Normalized(Graph!Target(cfg, spec, x, i)).ok
         /\ \A x \in cfg.paths : \A i \in 1..Len(x.targets) :
              (Graph!Matches(x, spec) /\ Graph!Normalized(Graph!Target(cfg, spec, x, i)).ok)
                => Try(w, cfg, spec, x, i) \in Graph!Tries(w, cfg, spec)
BY DEF Graph!Tries, Try

LEMMA ProbeAtHolds ==
  ASSUME NEW w, NEW segs, NEW ext
  PROVE  Graph!ProbeAt(w, segs, ext) \in Verdicts(w)
<1>1. PICK norm : norm = Graph!Normalized(segs)  OBVIOUS
<1>2. CASE norm.ok
  BY <1>1, <1>2, ProbeHolds DEF Graph!ProbeAt, Graph!ProbeNormal
<1>3. CASE ~ norm.ok
  BY <1>1, <1>3 DEF Graph!ProbeAt, Graph!ProbeNormal, Verdicts
<1> QED  BY <1>2, <1>3

(* Tries that found a module have a first one: the longest prefix, and of  *)
(* its targets the first.                                                   *)
LEMMA FirstTry ==
  ASSUME NEW hits, hits # {}, NEW bound \in Nat,
         \A t \in hits : t.rank \in Nat /\ t.rank <= bound, \A t \in hits : t.nth \in Nat
  PROVE  \E t \in hits : \A u \in hits : Graph!Before(t, u)
<1>1. PICK depths : depths = {bound - t.rank : t \in hits}  OBVIOUS
<1>2. depths \in SUBSET Nat /\ depths # {}  BY <1>1
<1>3. PICK d \in depths : \A e \in depths : d <= e  BY <1>2, LeastNumber
<1>4. PICK t \in hits : d = bound - t.rank  BY <1>1, <1>3
<1>5. ASSUME NEW u \in hits  PROVE u.rank <= t.rank
  <2>1. bound - u.rank \in depths  BY <1>1
  <2>2. bound - t.rank <= bound - u.rank  BY <1>3, <1>4, <2>1
  <2> QED  BY <2>2
<1>6. PICK places : places = {u.nth : u \in {v \in hits : v.rank = t.rank}}  OBVIOUS
<1>7. places \in SUBSET Nat /\ places # {}  BY <1>4, <1>6
<1>8. PICK n \in places : \A m \in places : n <= m  BY <1>7, LeastNumber
<1>9. PICK first \in hits : first.rank = t.rank /\ first.nth = n  BY <1>6, <1>8
<1>10. ASSUME NEW u \in hits  PROVE Graph!Before(first, u)
  <2>1. u.rank <= first.rank  BY <1>5, <1>9
  <2>2. u.rank = first.rank => first.nth <= u.nth
    <3>1. u.rank = t.rank => u.nth \in places  BY <1>6
    <3> QED  BY <1>8, <1>9, <3>1
  <2>3. u.rank \in Nat /\ first.rank \in Nat  OBVIOUS
  <2> QED  BY <2>1, <2>2, <2>3 DEF Graph!Before
<1> QED  BY <1>9, <1>10

LEMMA AliasHolds ==
  ASSUME NEW Segs, NEW w, Repository(w, Segs), NEW spec \in Graph!Specifiers(w)
  PROVE  Graph!Aliased(Graph!Tries(w, Graph!TsConfig(w), spec)) \in Verdicts(w)
<1>1. PICK cfg : cfg = Graph!TsConfig(w)  OBVIOUS
<1>2. \A x \in cfg.paths : IsPattern(x, Segs)  BY <1>1, ConfigTyped
<1>3. PICK tries : tries = Graph!Tries(w, cfg, spec)  OBVIOUS
<1>4. spec.segs \in Seq(Segs)  BY DEF Repository, IsSpecifier
<1>5. ASSUME NEW t \in tries
      PROVE  /\ t.said \in Verdicts(w) /\ t.nth \in Nat
             /\ t.rank \in Nat /\ t.rank <= Len(spec.segs)
  <2>0. PICK x \in cfg.paths : \E i \in 1..Len(x.targets) :
          Graph!Matches(x, spec) /\ t = Try(w, cfg, spec, x, i)
    BY <1>3, TriesAre
  <2>1. PICK i \in 1..Len(x.targets) :
          Graph!Matches(x, spec) /\ t = Try(w, cfg, spec, x, i)
    BY <2>0
  <2>2. t.rank = Len(x.pre) /\ t.nth = i
        /\ t.said = Graph!ProbeAt(w, Graph!Target(cfg, spec, x, i), spec.ext)
    BY <2>1 DEF Try
  <2>3. IsPattern(x, Segs)  BY <1>2
  <2>4. Len(x.targets) \in Nat  BY <2>3, LenProperties DEF IsPattern
  <2>5. i \in Nat  BY <2>4
  <2>6. Len(x.pre) \in Nat /\ Len(x.pre) <= Len(spec.segs)
    BY <1>4, <2>1, <2>3, MatchIsPrefix
  <2> QED  BY <2>2, <2>5, <2>6, ProbeAtHolds
<1>6. PICK hits : hits = {t \in tries : t.said.kind = "resolved"}  OBVIOUS
<1>7. CASE hits # {}
  <2>1. Len(spec.segs) \in Nat  BY <1>4, LenProperties
  <2>2. \A t \in hits : t.rank \in Nat /\ t.rank <= Len(spec.segs)  BY <1>5, <1>6
  <2>3. \A t \in hits : t.nth \in Nat  BY <1>5, <1>6
  <2>4. \E t \in hits : \A u \in hits : Graph!Before(t, u)
    BY <1>7, <2>1, <2>2, <2>3, FirstTry
  <2>5. PICK first : first = CHOOSE t \in hits : \A u \in hits : Graph!Before(t, u)  OBVIOUS
  <2>6. first \in hits  BY <2>4, <2>5
  <2>7. Graph!Aliased(tries) = first.said  BY <1>6, <1>7, <2>5 DEF Graph!Aliased
  <2> QED  BY <1>1, <1>3, <1>5, <1>6, <2>6, <2>7
<1>8. CASE hits = {}
  <2>1. Graph!Aliased(tries) \in {Graph!External, Graph!Unresolved}
    BY <1>6, <1>8 DEF Graph!Aliased
  <2> QED  BY <1>1, <1>3, <2>1 DEF Verdicts
<1> QED  BY <1>7, <1>8

LEMMA ResolveHolds ==
  ASSUME NEW Segs, NEW w, Repository(w, Segs), NEW from, NEW spec \in Graph!Specifiers(w)
  PROVE  Graph!Resolve(w, from, spec) \in Verdicts(w)
<1>1. spec.form \in {"relative", "absolute", "bare"}  BY DEF Repository, IsSpecifier
<1>2. CASE spec.form = "relative"
  BY <1>2, ProbeAtHolds DEF Graph!Resolve
<1>3. CASE spec.form = "absolute"
  BY <1>3 DEF Graph!Resolve, Verdicts
<1>4. CASE spec.form = "bare"
  <2>1. PICK tries : tries = Graph!Tries(w, Graph!TsConfig(w), spec)  OBVIOUS
  <2>2. PICK owners : owners = Graph!Owners(w, spec)  OBVIOUS
  <2>3. Graph!Resolve(w, from, spec) = Graph!Bare(w, spec, tries, owners)
    BY <1>4, <2>1, <2>2 DEF Graph!Resolve
  <2>4. CASE tries # {}
    BY <2>1, <2>3, <2>4, AliasHolds DEF Graph!Bare
  <2>5. CASE tries = {} /\ owners # {}
    <3>1. PICK dir : dir = Graph!FirstOwner(w, owners)  OBVIOUS
    <3>2. Graph!Resolve(w, from, spec) = Graph!InPackage(w, dir, spec)
      BY <2>3, <2>5, <3>1 DEF Graph!Bare
    <3>3. \E segs, ext : Graph!InPackage(w, dir, spec) = Graph!ProbeAt(w, segs, ext)
      BY DEF Graph!InPackage
    <3> QED  BY <3>2, <3>3, ProbeAtHolds
  <2>6. CASE tries = {} /\ owners = {}
    BY <2>3, <2>6 DEF Graph!Bare, Verdicts
  <2> QED  BY <2>4, <2>5, <2>6
<1> QED  BY <1>1, <1>2, <1>3, <1>4

(* resolve.rs never guesses, in any repository. *)
LEMMA ResolverHonest ==
  ASSUME NEW Segs, NEW w, Repository(w, Segs), NEW from, NEW spec \in Graph!Specifiers(w)
  PROVE  Graph!Honest(w, spec, Graph!Normalized(Graph!Dir(from) \o spec.segs),
                      Graph!Resolve(w, from, spec))
<1>1. PICK norm : norm = Graph!Normalized(Graph!Dir(from) \o spec.segs)  OBVIOUS
<1>2. PICK p : p = Graph!Path(norm.at, spec.ext)  OBVIOUS
<1>3. PICK r : r = Graph!Resolve(w, from, spec)  OBVIOUS
<1>4. r.kind = "resolved" => r.file \in w.indexed /\ ~ Graph!IsDeclaration(r.file)
  <2>1. r \in Verdicts(w)  BY <1>3, ResolveHolds
  <2> QED  BY <2>1, KindsApart DEF Verdicts, Modules
<1>5. ASSUME spec.form = "relative", norm.ok, p.at # <<>>
      PROVE  /\ r.kind = "unresolved" => Graph!Meant(w, p) = {} /\ ~ Graph!HasPackage(w, p)
             /\ (\E f \in Graph!Meant(w, p) \cap w.indexed : ~ Graph!IsDeclaration(f))
                  => r.kind = "resolved"
  <2>1. r = Graph!Probe(w, p)
    BY <1>1, <1>2, <1>3, <1>5 DEF Graph!Resolve, Graph!ProbeAt, Graph!ProbeNormal
  <2>2. r.kind = "unresolved" => Graph!Meant(w, p) = {} /\ ~ Graph!HasPackage(w, p)
    BY <1>5, <2>1, ProbeHolds, NothingMeant
  <2>3. ASSUME NEW f \in Graph!Meant(w, p), f \in w.indexed, ~ Graph!IsDeclaration(f)
        PROVE  r.kind = "resolved"
    <3>1. PICK cands : cands = Graph!ToSet(Graph!Candidates(p))  OBVIOUS
    <3>2. /\ p \in cands
          /\ \A x \in Graph!ToSet(Graph!SourceExts(p.ext)) :
               Graph!Path(p.at, Append(Graph!Front(p.ext), x)) \in cands
          /\ \A x \in Graph!ToSet(Graph!SOURCE_EXTS) :
               Graph!Path(p.at, Append(p.ext, x)) \in cands
          /\ p.ext = <<>> => \A x \in Graph!ToSet(Graph!SOURCE_EXTS) :
               Graph!Path(Append(p.at, "index"), <<x>>) \in cands
      BY <1>5, <3>1, CandidatesHold
    <3>3. PICK S : S = Segs \cup {"d", "ts"}  OBVIOUS
    <3>4. "d" \in S /\ "ts" \in S /\ Segs \subseteq S  BY <3>3
    <3>5. spec.ext \in Seq(S)
      <4>1. spec.ext \in Seq(Segs)  BY DEF Repository, IsSpecifier
      <4> QED  BY <3>4, <4>1, SeqMonotonic
    <3>6. f # Graph!Path(p.at, p.ext \o <<"d", "ts">>)
      <4>1. p.ext = spec.ext  BY <1>2 DEF Graph!Path
      <4>2. Graph!IsDeclaration(Graph!Path(p.at, p.ext \o <<"d", "ts">>))
        BY <3>4, <3>5, <4>1, DeclarationForms
      <4> QED  BY <2>3, <4>2
    <3>7. f # Graph!Path(Append(p.at, "index"), <<"d", "ts">>)
      <4>1. <<>> \in Seq(S) /\ <<"d", "ts">> \in Seq(S)  BY <3>4
      <4>2. <<>> \o <<"d", "ts">> = <<"d", "ts">>  BY <4>1, ConcatEmptySeq
      <4>3. Graph!IsDeclaration(Graph!Path(Append(p.at, "index"), <<>> \o <<"d", "ts">>))
        BY <3>4, <4>1, DeclarationForms
      <4> QED  BY <2>3, <4>2, <4>3
    <3>8. f \in cands
      BY <3>2, <3>6, <3>7 DEF Graph!Meant
    <3>9. f \in Modules(w)  BY <2>3 DEF Modules
    <3> QED  BY <2>1, <3>1, <3>8, <3>9, ProbeHolds
  <2> QED  BY <2>2, <2>3
<1> QED  BY <1>1, <1>2, <1>3, <1>4, <1>5 DEF Graph!Honest

(* resolve.rs: the longest prefix decides, in any repository. *)
LEMMA LongestDecides ==
  ASSUME NEW Segs, NEW w, Repository(w, Segs), NEW spec \in Graph!Specifiers(w),
         NEW x \in Graph!TsConfig(w).paths, NEW from,
         spec.form = "bare", Graph!Matches(x, spec), x.targets # <<>>,
         \A y \in Graph!TsConfig(w).paths :
           Graph!Matches(y, spec) => Len(y.pre) <= Len(x.pre),
         Graph!ProbeAt(w, Graph!Target(Graph!TsConfig(w), spec, x, 1), spec.ext).kind
           = "resolved"
  PROVE  Graph!Resolve(w, from, spec)
           = Graph!ProbeAt(w, Graph!Target(Graph!TsConfig(w), spec, x, 1), spec.ext)
<1>1. PICK cfg : cfg = Graph!TsConfig(w)  OBVIOUS
<1>2. PICK tries : tries = Graph!Tries(w, cfg, spec)  OBVIOUS
<1>3. PICK hits : hits = {t \in tries : t.said.kind = "resolved"}  OBVIOUS
<1>4. PICK best : best = Try(w, cfg, spec, x, 1)  OBVIOUS
<1>5. spec.segs \in Seq(Segs)  BY DEF Repository, IsSpecifier
<1>6. OneEach(cfg.paths) /\ \A y \in cfg.paths : IsPattern(y, Segs)  BY <1>1, ConfigTyped
<1>7. x.pre \in Seq(Segs) /\ x.targets \in Seq(Seq(Segs)) /\ x \in cfg.paths
  BY <1>1, <1>6 DEF IsPattern
<1>8. /\ best.rank = Len(x.pre) /\ best.nth = 1
      /\ best.said = Graph!ProbeAt(w, Graph!Target(cfg, spec, x, 1), spec.ext)
  BY <1>4 DEF Try
<1>9. best \in hits
  <2>1. 1 \in 1..Len(x.targets)  BY <1>7, EmptySeq
  <2>2. Graph!Normalized(Graph!Target(cfg, spec, x, 1)).ok
    BY <1>1, KindsApart DEF Graph!ProbeAt, Graph!ProbeNormal
  <2>3. best \in tries  BY <1>2, <1>4, <1>7, <2>1, <2>2, TriesAre
  <2> QED  BY <1>1, <1>3, <1>8, <2>3
<1>10. ASSUME NEW t \in hits
       PROVE  /\ t.rank \in Nat /\ t.nth \in Nat \ {0} /\ t.rank <= best.rank
              /\ t.rank = best.rank /\ t.nth = 1 => t.said = best.said
  <2>0. PICK y \in cfg.paths : \E i \in 1..Len(y.targets) :
          Graph!Matches(y, spec) /\ t = Try(w, cfg, spec, y, i)
    BY <1>2, <1>3, TriesAre
  <2>1. PICK i \in 1..Len(y.targets) :
          Graph!Matches(y, spec) /\ t = Try(w, cfg, spec, y, i)
    BY <2>0
  <2>2. t.rank = Len(y.pre) /\ t.nth = i
        /\ t.said = Graph!ProbeAt(w, Graph!Target(cfg, spec, y, i), spec.ext)
    BY <2>1 DEF Try
  <2>3. Len(y.targets) \in Nat /\ Len(y.pre) \in Nat
    BY <1>6, <2>1, LenProperties DEF IsPattern
  <2>4. t.rank <= best.rank  BY <1>1, <1>8, <2>1, <2>2
  <2>5. ASSUME t.rank = best.rank, t.nth = 1  PROVE t.said = best.said
    <3>1. Len(x.pre) = Len(y.pre)  BY <1>8, <2>2, <2>5
    <3>2. x = y  BY <1>5, <1>6, <1>7, <2>1, <3>1, RankTells
    <3> QED  BY <1>8, <2>2, <2>5, <3>2
  <2> QED  BY <2>2, <2>3, <2>4, <2>5
<1>11. \A u \in hits : Graph!Before(best, u)
  BY <1>8, <1>9, <1>10 DEF Graph!Before
<1>12. PICK first : first = CHOOSE t \in hits : \A u \in hits : Graph!Before(t, u)  OBVIOUS
<1>13. first \in hits /\ Graph!Before(first, best)  BY <1>9, <1>11, <1>12
<1>14. first.rank = best.rank /\ first.nth = 1
  BY <1>8, <1>9, <1>10, <1>13 DEF Graph!Before
<1>15. first.said = best.said  BY <1>10, <1>13, <1>14
<1>16. Graph!Aliased(tries) = best.said
  BY <1>3, <1>9, <1>12, <1>15 DEF Graph!Aliased
<1>17. tries # {}  BY <1>3, <1>9
<1> QED  BY <1>1, <1>2, <1>8, <1>16, <1>17 DEF Graph!Resolve, Graph!Bare

(* Every property of the graph, for every repository: resolve.rs never      *)
(* guesses and lets the longest prefix decide, boundary-violation reports   *)
(* an import line once, and dead-file and dead-export report nothing that   *)
(* is taken by a text that parses, or by what a broken one says legibly:    *)
(* a stray quote costs its line, and what the scan loses otherwise is not   *)
(* spoken of.                                                               *)
THEOREM GraphHolds ==
  ASSUME NEW Segs, Repository(input, Segs)
  PROVE  Graph!GraphSafe
<1>1. Graph!NeverGuesses  BY ResolverHonest DEF Graph!NeverGuesses
<1>2. Graph!LongestWins
  <2> SUFFICES ASSUME NEW spec \in Graph!Specifiers(input),
                      NEW x \in Graph!TsConfig(input).paths, NEW from \in input.indexed,
                      spec.form = "bare", Graph!Matches(x, spec), x.targets # <<>>,
                      \A y \in Graph!TsConfig(input).paths :
                        Graph!Matches(y, spec) => Len(y.pre) <= Len(x.pre),
                      Graph!ProbeAt(input, Graph!Target(Graph!TsConfig(input), spec, x, 1),
                                    spec.ext).kind = "resolved"
               PROVE  Graph!Resolve(input, from, spec)
                        = Graph!ProbeAt(input, Graph!Target(Graph!TsConfig(input), spec, x, 1),
                                        spec.ext)
    BY DEF Graph!LongestWins
  <2> QED  BY LongestDecides
<1>3. Graph!DeadIsDead  BY DeadHolds DEF Repository
<1> QED  BY <1>1, <1>2, <1>3, OneFindingPerLine DEF Graph!GraphSafe

Words == {".", "..", "a", "lib", "src", "pkg", "@", "*", "js", "css"}

LEMMA SpecifiersTyped ==
  ASSUME NEW s \in Graph!Statements
  PROVE  IsSpecifier(s.spec, Words)
<1>1. \E form \in {"relative", "absolute", "bare"} : \E segs, ext \in Seq(Words) :
        s.spec = Graph!Spec(form, segs, ext)
  <2>1. /\ <<".", "a">> \in Seq(Words) /\ <<"..", "lib", "a">> \in Seq(Words)
        /\ <<"@", "a">> \in Seq(Words) /\ <<"pkg">> \in Seq(Words)
        /\ <<"..", "..", "a">> \in Seq(Words)
        /\ <<>> \in Seq(Words) /\ <<"js">> \in Seq(Words) /\ <<"css">> \in Seq(Words)
    BY DEF Words
  <2>2. s.spec \in {Graph!Spec("relative", <<".", "a">>, <<>>),
                    Graph!Spec("relative", <<".", "a">>, <<"js">>),
                    Graph!Spec("bare", <<"@", "a">>, <<>>),
                    Graph!Spec("relative", <<"..", "lib", "a">>, <<"css">>),
                    Graph!Spec("bare", <<"pkg">>, <<>>),
                    Graph!Spec("relative", <<"..", "..", "a">>, <<>>)}
    BY DEF Graph!Statements, Graph!Statement
  <2> QED  BY <2>1, <2>2
<1>2. PICK form \in {"relative", "absolute", "bare"}, segs \in Seq(Words), ext \in Seq(Words) :
        s.spec = Graph!Spec(form, segs, ext)
  BY <1>1
<1> QED  BY <1>2 DEF IsSpecifier, Graph!Spec

Marks == {"single", "double", "newline", "slashes", "tick", "open", "close"}

LEMMA StatementsTyped ==
  ASSUME NEW s \in Graph!Statements, NEW n \in Nat
  PROVE  LET x == [s EXCEPT !.at = n + @]
         IN x.spec = s.spec /\ x.at \in (n + 1)..(n + 16)
<1>1. /\ s = [form |-> s.form, spec |-> s.spec, names |-> s.names, line |-> s.line,
             literal |-> s.literal, at |-> s.at]
      /\ s.at \in 1..16
  BY DEF Graph!Statements, Graph!Statement
<1>2. PICK x : x = [s EXCEPT !.at = n + @]  OBVIOUS
<1>3. x.spec = s.spec /\ x.at = n + s.at  BY <1>1, <1>2
<1> QED  BY <1>1, <1>2, <1>3

LEMMA TextTyped ==
  ASSUME NEW S \in SUBSET Graph!Statements, NEW broken, NEW kept, NEW head \in Seq(Marks), NEW stray
  PROVE  LET t == Graph!Text(S, broken, kept, head, stray)
         IN IsText(t) /\ \A s \in t.imports : \E x \in Graph!Statements : s.spec = x.spec
<1>1. PICK t : t = Graph!Text(S, broken, kept, head, stray)  OBVIOUS
<1>2. /\ t.imports = {[s EXCEPT !.at = Len(head) + @] : s \in S}
      /\ t.marks = head \o Graph!Strings
  BY <1>1 DEF Graph!Text
<1>3. Graph!Strings \in Seq(Marks) /\ Len(Graph!Strings) = 18
  <2>1. Graph!Strings = [i \in 1..18 |-> IF i % 3 = 0 THEN "newline" ELSE "double"]
    BY DEF Graph!Strings
  <2>2. \A i \in 1..18 : (IF i % 3 = 0 THEN "newline" ELSE "double") \in Marks
    BY DEF Marks
  <2> QED  BY <2>1, <2>2
<1>4. Len(head) \in Nat /\ Len(t.marks) = Len(head) + 18
  <2>1. PICK strings \in Seq(Marks) : strings = Graph!Strings /\ Len(strings) = 18  BY <1>3
  <2>2. Len(head) \in Nat  BY LenProperties
  <2>3. Len(head \o strings) = Len(head) + Len(strings)  BY ConcatProperties
  <2> QED  BY <1>2, <2>1, <2>2, <2>3
<1>5. ASSUME NEW s \in t.imports
      PROVE  s.at \in 1..Len(t.marks) /\ \E x \in Graph!Statements : s.spec = x.spec
  <2>1. PICK x \in Graph!Statements : s = [x EXCEPT !.at = Len(head) + @]  BY <1>2
  <2>2. s.spec = x.spec /\ s.at \in (Len(head) + 1)..(Len(head) + 16)
    BY <1>4, <2>1, StatementsTyped
  <2> QED  BY <1>4, <2>2
<1> QED  BY <1>1, <1>4, <1>5 DEF IsText

LEMMA TextsTyped ==
  ASSUME NEW t \in Graph!MainTexts \cup {Graph!Parsed({})}
  PROVE  IsText(t) /\ \A s \in t.imports : \E x \in Graph!Statements : s.spec = x.spec
<1>1. <<>> \in Seq(Marks) /\ \A h \in Graph!Heads : h.marks \in Seq(Marks)
  <2>1. \A h \in Graph!Heads :
          h.marks \in {<<"single", "newline">>, <<"double">>,
                       <<"single", "tick", "newline", "tick", "newline">>,
                       <<"tick", "newline", "single", "tick", "slashes", "tick", "newline",
                         "open", "double", "newline", "close">>,
                       <<"double", "double", "slashes", "newline">>, <<"tick">>}
    BY DEF Graph!Heads
  <2>2. /\ <<"single", "newline">> \in Seq(Marks) /\ <<"double">> \in Seq(Marks)
        /\ <<"single", "tick", "newline", "tick", "newline">> \in Seq(Marks)
        /\ <<"double", "double", "slashes", "newline">> \in Seq(Marks)
        /\ <<"tick">> \in Seq(Marks) /\ <<>> \in Seq(Marks)
    BY DEF Marks
  <2>3. <<"tick", "newline", "single", "tick", "slashes", "tick", "newline",
          "open", "double", "newline", "close">> \in Seq(Marks)
    BY DEF Marks
  <2> QED  BY <2>1, <2>2, <2>3
<1>2. \E S \in SUBSET Graph!Statements : \E broken, kept, stray : \E head \in Seq(Marks) :
        t = Graph!Text(S, broken, kept, head, stray)
  <2>1. CASE \E S \in SUBSET Graph!Statements : t = Graph!Parsed(S)
    <3>1. PICK S \in SUBSET Graph!Statements : t = Graph!Text(S, FALSE, {}, <<>>, {})
      BY <2>1 DEF Graph!Parsed
    <3> QED  BY <1>1, <3>1
  <2>2. CASE \E s \in Graph!Statements : t = Graph!Text({s}, TRUE, {}, <<>>, {})
    <3>1. PICK s \in Graph!Statements : t = Graph!Text({s}, TRUE, {}, <<>>, {})  BY <2>2
    <3>2. {s} \in SUBSET Graph!Statements  OBVIOUS
    <3> QED  BY <1>1, <3>1, <3>2
  <2>3. CASE \E s \in Graph!Statements, h \in Graph!Heads :
               t = Graph!Text({s}, TRUE, {}, h.marks, h.stray)
    <3>1. PICK s \in Graph!Statements, h \in Graph!Heads :
            t = Graph!Text({s}, TRUE, {}, h.marks, h.stray)
      BY <2>3
    <3>2. {s} \in SUBSET Graph!Statements /\ h.marks \in Seq(Marks)  BY <1>1
    <3> QED  BY <3>1, <3>2
  <2>4. CASE \E S \in SUBSET Graph!Statements : \E kept :
               t = Graph!Text(S, TRUE, kept, <<>>, {})
    <3>1. PICK S \in SUBSET Graph!Statements :
            \E kept : t = Graph!Text(S, TRUE, kept, <<>>, {})
      BY <2>4
    <3> QED  BY <1>1, <3>1
  <2>5. \A S \in Graph!Told : S \in SUBSET Graph!Statements  BY DEF Graph!Told
  <2>6. /\ t \in Graph!Read => \E S \in Graph!Told : t = Graph!Parsed(S)
        /\ t \in Graph!Torn =>
             \E s \in Graph!Statements : t = Graph!Text({s}, TRUE, {}, <<>>, {})
        /\ t \in Graph!Headed =>
             \E s \in {x \in Graph!Statements : x.line <= 2}, h \in Graph!Heads :
               t = Graph!Text({s}, TRUE, {}, h.marks, h.stray)
        /\ t \in Graph!Recovered =>
             \E S \in Graph!Told : t = Graph!Text(S, TRUE, Graph!LessY(S), <<>>, {})
    <3>1. t \in Graph!Read => \E S \in Graph!Told : t = Graph!Parsed(S)
      BY Zenon DEF Graph!Read
    <3>2. t \in Graph!Torn =>
            \E s \in Graph!Statements : t = Graph!Text({s}, TRUE, {}, <<>>, {})
      BY Zenon DEF Graph!Torn
    <3>3. t \in Graph!Headed =>
            \E s \in {x \in Graph!Statements : x.line <= 2}, h \in Graph!Heads :
              t = Graph!Text({s}, TRUE, {}, h.marks, h.stray)
      BY Zenon DEF Graph!Headed, Graph!Heading
    <3>4. t \in Graph!Recovered =>
            \E S \in Graph!Told : t = Graph!Text(S, TRUE, Graph!LessY(S), <<>>, {})
      BY Zenon DEF Graph!Recovered
    <3> QED  BY <3>1, <3>2, <3>3, <3>4
  <2>7. CASE t = Graph!Parsed({})  BY <2>1, <2>7
  <2>8. CASE \E S \in Graph!Told : t = Graph!Parsed(S)  BY <2>1, <2>5, <2>8
  <2>9. CASE \E s \in {x \in Graph!Statements : x.line <= 2}, h \in Graph!Heads :
               t = Graph!Text({s}, TRUE, {}, h.marks, h.stray)
    BY <2>3, <2>9
  <2>10. CASE \E S \in Graph!Told : t = Graph!Text(S, TRUE, Graph!LessY(S), <<>>, {})
    BY <2>4, <2>5, <2>10
  <2>11. \/ t \in Graph!Read \/ t \in Graph!Torn \/ t \in Graph!Headed
         \/ t \in Graph!Recovered \/ t = Graph!Parsed({})
    BY DEF Graph!MainTexts
  <2> QED  BY <2>2, <2>6, <2>7, <2>8, <2>9, <2>10, <2>11
<1> QED  BY <1>2, TextTyped

LEMMA ConfigsTyped ==
  ASSUME NEW C \in Graph!TsConfigs, NEW c \in DOMAIN C
  PROVE  OneEach(C[c].paths) /\ \A x \in C[c].paths : IsPattern(x, Words)
<1>1. PICK at, every :
        /\ at = [pre |-> <<"@">>, star |-> TRUE, targets |-> <<<<"src", "*">>, <<"lib", "*">>>>]
        /\ every = [pre |-> <<>>, star |-> TRUE, targets |-> <<<<"lib", "a">>>>]
  OBVIOUS
<1>2. C[c].paths = {} \/ C[c].paths = {at, every}
  BY <1>1 DEF Graph!TsConfigs
<1>3. IsPattern(at, Words) /\ IsPattern(every, Words)
  <2>1. /\ <<"@">> \in Seq(Words) /\ <<>> \in Seq(Words) /\ <<"src", "*">> \in Seq(Words)
        /\ <<"lib", "*">> \in Seq(Words) /\ <<"lib", "a">> \in Seq(Words)
    BY DEF Words
  <2> QED  BY <1>1, <2>1 DEF IsPattern
<1>4. at.pre # every.pre
  <2>1. at.pre = <<"@">> /\ every.pre = <<>>  BY <1>1
  <2>2. <<"@">> # <<>>  OBVIOUS
  <2> QED  BY <2>1, <2>2
<1> QED  BY <1>2, <1>3, <1>4 DEF OneEach

LEMMA WorldsTyped ==
  ASSUME Graph!WorldInit
  PROVE  Repository(input, Words)
<1>1. PICK I \in SUBSET {Graph!Module, Graph!Index, Graph!Library},
           O \in {{}, {Graph!Declarations}, {Graph!Style}}, K \in Graph!Packages,
           C \in Graph!TsConfigs, t \in Graph!MainTexts :
        input = Graph!World(I, O, K, C, t)
  BY DEF Graph!WorldInit
<1>2. /\ input.configs = C /\ input.indexed = I \cup {Graph!Main}
      /\ input.texts = [f \in I \cup {Graph!Main} |->
                          IF f = Graph!Main THEN t ELSE Graph!Parsed({})]
  BY <1>1 DEF Graph!World
<1>3. ASSUME NEW f \in input.indexed
      PROVE  /\ IsText(input.texts[f])
             /\ \A s \in input.texts[f].imports : \E x \in Graph!Statements : s.spec = x.spec
  <2>1. input.texts[f] = t \/ input.texts[f] = Graph!Parsed({})  BY <1>2
  <2> QED  BY <2>1, TextsTyped
<1>4. \A spec \in Graph!Specifiers(input) : IsSpecifier(spec, Words)
  BY <1>3, SpecifiersTyped DEF Graph!Specifiers
<1>5. \A c \in DOMAIN input.configs :
        OneEach(input.configs[c].paths) /\ \A x \in input.configs[c].paths : IsPattern(x, Words)
  BY <1>2, ConfigsTyped
<1> QED  BY <1>3, <1>4, <1>5 DEF Repository

GraphInv == part = "graph" => Repository(input, Words)

(* Among them those the run of Answers starts from (resolve.rs, dead_file.rs, *)
(* dead_export.rs, boundary.rs).                                              *)
THEOREM GraphIsSafe == AnswersSpec => []GraphSafe
<1>1. AnswersInit => GraphInv
  BY WorldsTyped DEF AnswersInit, InputInit, GraphInv
<1>2. GraphInv /\ [RulesStep \/ ServerStep]_answersVars => GraphInv'
  BY DEF GraphInv, RulesStep, ServerStep, answersVars, inputs
<1>3. GraphInv => GraphSafe  BY GraphHolds DEF GraphInv, GraphSafe
<1> QED  BY <1>1, <1>2, <1>3, PTL DEF AnswersSpec

-----------------------------------------------------------------------------
(* The order of versions. *)

(* Precedes orders sequences of numbers strictly and totally. *)
LEMMA PrecedesOrders ==
  ASSUME NEW s \in Seq(Int), NEW t \in Seq(Int), NEW u \in Seq(Int)
  PROVE  /\ ~ Versions!Precedes(s, s)
         /\ s # t => Versions!Precedes(s, t) \/ Versions!Precedes(t, s)
         /\ Versions!Precedes(s, t) /\ Versions!Precedes(t, u) => Versions!Precedes(s, u)
<1>1. /\ Len(s) \in Nat /\ Len(t) \in Nat /\ Len(u) \in Nat
      /\ \A i \in 1..Len(s) : s[i] \in Int
      /\ \A i \in 1..Len(t) : t[i] \in Int
      /\ \A i \in 1..Len(u) : u[i] \in Int
  BY LenProperties, ElementOfSeq
<1>2. ~ Versions!Precedes(s, s)
  BY <1>1 DEF Versions!Precedes
<1>3. ASSUME s # t  PROVE Versions!Precedes(s, t) \/ Versions!Precedes(t, s)
  <2> DEFINE apart == {i \in Nat : i \in 1..Len(s) /\ i \in 1..Len(t) /\ s[i] # t[i]}
  <2>1. CASE apart # {}
    <3>1. PICK d \in apart : \A i \in apart : d <= i
      <4>1. apart \in SUBSET Nat  OBVIOUS
      <4> HIDE DEF apart
      <4> QED  BY <2>1, <4>1, LeastNumber
    <3>2. d \in 1..Len(s) /\ d \in 1..Len(t) /\ s[d] # t[d]  OBVIOUS
    <3>3. \A j \in 1..(d - 1) : s[j] = t[j]
      <4> SUFFICES ASSUME NEW j \in 1..(d - 1), s[j] # t[j]  PROVE FALSE
        OBVIOUS
      <4>1. j \in apart  BY <1>1, <3>2
      <4>2. d <= j  BY <3>1, <4>1
      <4> QED  BY <1>1, <3>2, <4>2
    <3> HIDE DEF apart
    <3>4. d <= Len(s) + 1 /\ d <= Len(t) + 1  BY <1>1, <3>2
    <3>5. CASE s[d] < t[d]  BY <3>2, <3>3, <3>4, <3>5 DEF Versions!Precedes
    <3>6. CASE t[d] < s[d]
      <4>1. \A j \in 1..(d - 1) : t[j] = s[j]  BY <3>3
      <4> QED  BY <3>2, <3>4, <3>6, <4>1 DEF Versions!Precedes
    <3> QED  BY <1>1, <3>2, <3>5, <3>6
  <2>2. CASE apart = {}
    <3>1. \A i \in Nat : (i \in 1..Len(s) /\ i \in 1..Len(t)) => s[i] = t[i]  BY <2>2
    <3> HIDE DEF apart
    <3>2. Len(s) # Len(t)
      <4> SUFFICES ASSUME Len(s) = Len(t)  PROVE FALSE
        OBVIOUS
      <4>1. \A i \in 1..Len(s) : s[i] = t[i]  BY <1>1, <3>1
      <4> QED  BY <1>3, <4>1, SeqEqual
    <3>3. CASE Len(s) < Len(t)
      <4>1. Len(s) + 1 \in 1..Len(t) /\ \A j \in 1..((Len(s) + 1) - 1) : s[j] = t[j]
        BY <1>1, <3>1, <3>3
      <4>2. ~ (Len(s) + 1 <= Len(s)) /\ Len(s) + 1 <= Len(s) + 1  BY <1>1
      <4> QED  BY <4>1, <4>2 DEF Versions!Precedes
    <3>4. CASE Len(t) < Len(s)
      <4>1. Len(t) + 1 \in 1..Len(s) /\ \A j \in 1..((Len(t) + 1) - 1) : t[j] = s[j]
        BY <1>1, <3>1, <3>4
      <4>2. ~ (Len(t) + 1 <= Len(t)) /\ Len(t) + 1 <= Len(t) + 1  BY <1>1
      <4> QED  BY <4>1, <4>2 DEF Versions!Precedes
    <3> QED  BY <1>1, <3>2, <3>3, <3>4
  <2> QED  BY <2>1, <2>2
<1>4. ASSUME Versions!Precedes(s, t), Versions!Precedes(t, u)  PROVE Versions!Precedes(s, u)
  <2>1. PICK i \in 1..Len(t) : /\ i <= Len(s) + 1 /\ \A j \in 1..(i - 1) : s[j] = t[j]
                               /\ i <= Len(s) => s[i] < t[i]
    BY <1>4 DEF Versions!Precedes
  <2>2. PICK k \in 1..Len(u) : /\ k <= Len(t) + 1 /\ \A j \in 1..(k - 1) : t[j] = u[j]
                               /\ k <= Len(t) => t[k] < u[k]
    BY <1>4 DEF Versions!Precedes
  <2>3. PICK l : l = IF i <= k THEN i ELSE k  OBVIOUS
  <2>4. l \in 1..Len(u) /\ l <= Len(s) + 1  BY <1>1, <2>1, <2>2, <2>3
  <2>5. \A j \in 1..(l - 1) : s[j] = u[j]  BY <1>1, <2>1, <2>2, <2>3
  <2>6. ASSUME l <= Len(s)  PROVE s[l] < u[l]
    <3>1. l \in 1..Len(s) /\ l \in 1..Len(t) /\ l \in 1..Len(u)  BY <1>1, <2>1, <2>3, <2>4, <2>6
    <3>2. s[l] \in Int /\ t[l] \in Int /\ u[l] \in Int  BY <1>1, <3>1
    <3>3. CASE i < k  BY <1>1, <2>1, <2>2, <2>3, <2>6, <3>1, <3>2, <3>3
    <3>4. CASE i = k  BY <1>1, <2>1, <2>2, <2>3, <2>6, <3>1, <3>2, <3>4
    <3>5. CASE i > k  BY <1>1, <2>1, <2>2, <2>3, <2>6, <3>1, <3>2, <3>5
    <3> QED  BY <1>1, <2>1, <2>2, <3>3, <3>4, <3>5
  <2> QED  BY <2>4, <2>5, <2>6 DEF Versions!Precedes
<1> QED  BY <1>2, <1>3, <1>4

(* And KeyLess does keys of one length. *)
Keys(n) == {k \in Seq(Seq(Int)) : Len(k) = n}

LEMMA KeysOrdered ==
  ASSUME NEW n \in Nat, NEW k \in Keys(n), NEW l \in Keys(n), NEW m \in Keys(n)
  PROVE  /\ ~ Versions!KeyLess(k, k)
         /\ k # l => Versions!KeyLess(k, l) \/ Versions!KeyLess(l, k)
         /\ Versions!KeyLess(k, l) /\ Versions!KeyLess(l, m) => Versions!KeyLess(k, m)
<1>1. /\ Len(k) = n /\ Len(l) = n /\ Len(m) = n
      /\ \A i \in 1..n : k[i] \in Seq(Int) /\ l[i] \in Seq(Int) /\ m[i] \in Seq(Int)
  BY ElementOfSeq DEF Keys
<1>2. ~ Versions!KeyLess(k, k)
  <2> SUFFICES ASSUME NEW i \in 1..n, Versions!Precedes(k[i], k[i])  PROVE FALSE
    BY <1>1 DEF Versions!KeyLess
  <2> QED  BY <1>1, PrecedesOrders
<1>3. ASSUME k # l  PROVE Versions!KeyLess(k, l) \/ Versions!KeyLess(l, k)
  <2> DEFINE apart == {i \in Nat : i \in 1..n /\ k[i] # l[i]}
  <2>1. apart # {} /\ apart \in SUBSET Nat
    <3>1. \E i \in 1..n : k[i] # l[i]  BY <1>1, <1>3, SeqEqual DEF Keys
    <3> QED  BY <3>1
  <2> HIDE DEF apart
  <2>2. PICK d \in apart : \A i \in apart : d <= i  BY <2>1, LeastNumber
  <2> USE DEF apart
  <2>3. d \in 1..n /\ k[d] # l[d]  OBVIOUS
  <2>4. \A j \in 1..(d - 1) : k[j] = l[j]
    <3> SUFFICES ASSUME NEW j \in 1..(d - 1), k[j] # l[j]  PROVE FALSE
      OBVIOUS
    <3>1. j \in apart  BY <2>3
    <3>2. d <= j  BY <2>2, <3>1
    <3> QED  BY <2>3, <3>2
  <2> HIDE DEF apart
  <2>5. Versions!Precedes(k[d], l[d]) \/ Versions!Precedes(l[d], k[d])
    BY <1>1, <2>3, PrecedesOrders
  <2> QED  BY <1>1, <2>3, <2>4, <2>5 DEF Versions!KeyLess
<1>4. ASSUME Versions!KeyLess(k, l), Versions!KeyLess(l, m)  PROVE Versions!KeyLess(k, m)
  <2>1. PICK i \in 1..n : Versions!Precedes(k[i], l[i]) /\ \A j \in 1..(i - 1) : k[j] = l[j]
    BY <1>1, <1>4 DEF Versions!KeyLess
  <2>2. PICK h \in 1..n : Versions!Precedes(l[h], m[h]) /\ \A j \in 1..(h - 1) : l[j] = m[j]
    BY <1>1, <1>4 DEF Versions!KeyLess
  <2>3. CASE i < h
    <3>1. l[i] = m[i] /\ \A j \in 1..(i - 1) : k[j] = m[j]  BY <2>1, <2>2, <2>3
    <3> QED  BY <1>1, <2>1, <3>1 DEF Versions!KeyLess
  <2>4. CASE i = h
    <3>1. Versions!Precedes(k[i], m[i])  BY <1>1, <2>1, <2>2, <2>4, PrecedesOrders
    <3> QED  BY <1>1, <2>1, <2>2, <2>4, <3>1 DEF Versions!KeyLess
  <2>5. CASE i > h
    <3>1. k[h] = l[h] /\ \A j \in 1..(h - 1) : k[j] = m[j]  BY <2>1, <2>2, <2>5
    <3> QED  BY <1>1, <2>2, <3>1 DEF Versions!KeyLess
  <2> QED  BY <2>3, <2>4, <2>5
<1> QED  BY <1>2, <1>3, <1>4

LEMMA ComparedOrders ==
  ASSUME NEW n \in Nat, NEW k \in Keys(n), NEW l \in Keys(n), NEW m \in Keys(n)
  PROVE  /\ Versions!Compared(k, l) = -Versions!Compared(l, k)
         /\ (Versions!Compared(k, l) # 1 /\ Versions!Compared(l, m) # 1)
              => Versions!Compared(k, m) # 1
<1>1. /\ ~ Versions!KeyLess(k, k) /\ ~ Versions!KeyLess(l, l)
      /\ k # l => Versions!KeyLess(k, l) \/ Versions!KeyLess(l, k)
      /\ l # m => Versions!KeyLess(l, m) \/ Versions!KeyLess(m, l)
      /\ k # m => Versions!KeyLess(k, m) \/ Versions!KeyLess(m, k)
  BY KeysOrdered
<1>2. /\ Versions!KeyLess(k, l) /\ Versions!KeyLess(l, k) => Versions!KeyLess(k, k)
      /\ Versions!KeyLess(k, l) /\ Versions!KeyLess(l, m) => Versions!KeyLess(k, m)
  BY KeysOrdered
<1>3. Versions!Compared(k, l) = -Versions!Compared(l, k)
  BY <1>1, <1>2 DEF Versions!Compared
<1>4. ASSUME Versions!Compared(k, l) # 1, Versions!Compared(l, m) # 1
      PROVE  Versions!Compared(k, m) # 1
  <2>1. (k = l \/ Versions!KeyLess(k, l)) /\ (l = m \/ Versions!KeyLess(l, m))
    BY <1>4 DEF Versions!Compared
  <2>2. k = m \/ Versions!KeyLess(k, m)  BY <1>2, <2>1
  <2> QED  BY <2>2 DEF Versions!Compared
<1> QED  BY <1>3, <1>4

(* What the readers make of a version: keys of numbers. *)
IsVersion(v) ==
  /\ v.epoch \in Int /\ v.nums \in Seq(Int) /\ v.local \in Seq(Int) /\ v.place \in Int
  /\ \E T : v.tags \in Seq(T) /\ \A x \in T : x.n \in Int
  /\ \A x \in Versions!ToSet(v.tags) : x.n \in Int

LEMMA NumberedTyped ==
  ASSUME NEW n \in Int
  PROVE  Versions!Numbered(n) \in Int
BY DEF Versions!Numbered

LEMMA ReleaseTyped ==
  ASSUME NEW nums \in Seq(Int), nums # <<>>
  PROVE  Versions!Release(nums) \in Seq(Int)
<1>1. Len(nums) \in Nat /\ Len(nums) # 0 /\ \A i \in 1..Len(nums) : nums[i] \in Int
  BY LenProperties, ElementOfSeq, EmptySeq
<1>2. PICK last : last = {i \in 1..Len(nums) : i = 1 \/ nums[i] # 0}  OBVIOUS
<1>3. PICK ends : ends = {Len(nums) - i : i \in last}  OBVIOUS
<1>4. ends \in SUBSET Nat /\ ends # {}  BY <1>1, <1>2, <1>3
<1>5. PICK e \in ends : \A x \in ends : e <= x  BY <1>4, LeastNumber
<1>6. \E i \in last : \A j \in last : j <= i
  <2>1. PICK i \in last : e = Len(nums) - i  BY <1>3, <1>5
  <2>2. ASSUME NEW j \in last  PROVE j <= i
    <3>1. Len(nums) - j \in ends  BY <1>3
    <3>2. Len(nums) - i <= Len(nums) - j  BY <1>5, <2>1, <3>1
    <3> QED  BY <1>1, <1>2, <3>2
  <2> QED  BY <2>2
<1>7. PICK i : i = CHOOSE h \in last : \A j \in last : j <= h  OBVIOUS
<1>8. i \in 1..Len(nums)  BY <1>2, <1>6, <1>7
<1>9. Versions!Release(nums) = SubSeq(nums, 1, i)  BY <1>2, <1>7 DEF Versions!Release
<1>10. \A j \in 1..i : nums[j] \in Int  BY <1>1, <1>8
<1>11. SubSeq(nums, 1, i) \in Seq(Int)  BY <1>1, <1>8, <1>10, SubSeqProperties
<1> QED  BY <1>9, <1>11

LEMMA SemverTyped ==
  ASSUME NEW v, IsVersion(v), Versions!SemverKey(v) # Versions!NoKey
  PROVE  Versions!SemverKey(v) \in Keys(2)
<1>1. PICK nums : nums = [i \in 1..3 |-> IF i <= Len(v.nums) THEN v.nums[i] ELSE 0]  OBVIOUS
<1>2. PICK dash : dash = IF v.tags # <<>> THEN 0 ELSE 1  OBVIOUS
<1>3. Versions!SemverKey(v) = <<nums, <<dash>>>>
  BY <1>1, <1>2 DEF Versions!SemverKey
<1>4. nums \in Seq(Int)
  <2>1. Len(v.nums) \in Nat /\ \A i \in 1..Len(v.nums) : v.nums[i] \in Int
    BY LenProperties, ElementOfSeq DEF IsVersion
  <2>2. \A i \in 1..3 : (IF i <= Len(v.nums) THEN v.nums[i] ELSE 0) \in Int  BY <2>1
  <2> QED  BY <1>1, <2>2
<1>5. <<dash>> \in Seq(Int)  BY <1>2
<1> QED  BY <1>3, <1>4, <1>5 DEF Keys

LEMMA SuffixTyped ==
  ASSUME NEW v, IsVersion(v), NEW x \in Versions!ToSet(v.tags)
  PROVE  x.n \in Int
BY DEF IsVersion

LEMMA ComposerTyped ==
  ASSUME NEW v, IsVersion(v), Versions!ComposerKey(v) # Versions!NoKey
  PROVE  Versions!ComposerKey(v) \in Keys(2)
<1>1. v.nums # <<>>
  BY DEF Versions!ComposerKey
<1>2. PICK release : release = Versions!Release(v.nums)  OBVIOUS
<1>3. release \in Seq(Int)  BY <1>1, <1>2, ReleaseTyped DEF IsVersion
<1>4. \A label : Versions!Stability(label) \in Int  BY DEF Versions!Stability
<1>5. PICK stage : stage = IF v.tags = <<>> THEN <<Versions!Stability("stable"), 0>>
                           ELSE <<Versions!Stability(v.tags[1].label), Versions!Numbered(v.tags[1].n)>>
  OBVIOUS
<1>6. stage \in Seq(Int)
  <2>1. CASE v.tags = <<>>
    <3>1. PICK s : s = Versions!Stability("stable")  OBVIOUS
    <3>2. stage = <<s, 0>> /\ s \in Int  BY <1>4, <1>5, <2>1, <3>1
    <3> QED  BY <3>2
  <2>2. CASE v.tags # <<>>
    <3>1. PICK s, n : s = Versions!Stability(v.tags[1].label) /\ n = Versions!Numbered(v.tags[1].n)
      OBVIOUS
    <3>2. v.tags[1].n \in Int
      <4>1. PICK T : v.tags \in Seq(T) /\ \A x \in T : x.n \in Int  BY DEF IsVersion
      <4>2. v.tags[1] \in T  BY <2>2, <4>1, EmptySeq, LenProperties, ElementOfSeq
      <4> QED  BY <4>1, <4>2
    <3>3. stage = <<s, n>> /\ s \in Int /\ n \in Int  BY <1>4, <1>5, <2>2, <3>1, <3>2, NumberedTyped
    <3> QED  BY <3>3
  <2> QED  BY <2>1, <2>2
<1>7. Versions!ComposerKey(v) = <<release, stage>>
  BY <1>2, <1>5 DEF Versions!ComposerKey
<1> QED  BY <1>3, <1>6, <1>7 DEF Keys

(* A suffix that is there is one of the version's. *)
LEMMA OnlyTyped ==
  ASSUME NEW v, IsVersion(v), NEW kind, Versions!Suffix(v, kind) # {}
  PROVE  Versions!Numbered(Versions!Only(Versions!Suffix(v, kind)).n) \in Int
<1>1. PICK x : x = Versions!Only(Versions!Suffix(v, kind))  OBVIOUS
<1>2. x \in Versions!Suffix(v, kind)  BY <1>1 DEF Versions!Only
<1>3. x \in Versions!ToSet(v.tags)  BY <1>2 DEF Versions!Suffix
<1> QED  BY <1>1, <1>3, SuffixTyped, NumberedTyped

LEMMA LocalTyped ==
  ASSUME NEW label \in Seq(Int)
  PROVE  Versions!LocalKey(label) \in Seq(Int)
<1>1. Len(label) \in Nat /\ \A i \in 1..Len(label) : label[i] \in Int
  BY LenProperties, ElementOfSeq
<1>2. PICK parts : parts = [i \in 1..Len(label) |-> Versions!Segment(label[i])]  OBVIOUS
<1>3. \A i \in 1..Len(label) : Versions!Segment(label[i]) \in Seq(Int)
  <2>1. ASSUME NEW n \in Int  PROVE Versions!Segment(n) \in Seq(Int)
    <3>1. CASE n < 0
      <4>1. Versions!Segment(n) = <<0, -n>> /\ -n \in Int  BY <3>1 DEF Versions!Segment
      <4> QED  BY <4>1
    <3>2. CASE ~ (n < 0)
      <4>1. Versions!Segment(n) = <<1, n>>  BY <3>2 DEF Versions!Segment
      <4> QED  BY <4>1
    <3> QED  BY <3>1, <3>2
  <2> QED  BY <1>1, <2>1
<1>4. parts \in Seq(Seq(Int))  BY <1>1, <1>2, <1>3
<1>5. FlattenSeq(parts) \in Seq(Int)  BY <1>4, FlattenSeqTyped
<1>6. Versions!LocalKey(label) = Versions!FlattenSeq(parts)  BY <1>2 DEF Versions!LocalKey
<1>7. Versions!FlattenSeq(parts) = FlattenSeq(parts)  BY DEF Versions!FlattenSeq, FlattenSeq
<1> QED  BY <1>5, <1>6, <1>7

LEMMA Pep440Typed ==
  ASSUME NEW v, IsVersion(v), Versions!Pep440Key(v) # Versions!NoKey
  PROVE  Versions!Pep440Key(v) \in Keys(6)
<1>1. v.nums # <<>>
  BY DEF Versions!Pep440Key
<1>2. PICK pre, post, dev : /\ pre = Versions!Suffix(v, 1) /\ post = Versions!Suffix(v, 2)
                            /\ dev = Versions!Suffix(v, 3)
  OBVIOUS
<1>3. PICK k1, k2, k3, k4, k5, k6 :
        /\ k1 = <<Versions!Numbered(v.epoch)>> /\ k2 = Versions!Release(v.nums)
        /\ k3 = Versions!PreKey(pre, post, dev) /\ k4 = Versions!PostKey(post)
        /\ k5 = Versions!DevKey(dev) /\ k6 = Versions!LocalKey(v.local)
  OBVIOUS
<1>4. Versions!Pep440Key(v) = <<k1, k2, k3, k4, k5, k6>>
  BY <1>2, <1>3 DEF Versions!Pep440Key, Versions!Pep440Of
<1>5. k1 \in Seq(Int)
  <2>1. PICK n : n = Versions!Numbered(v.epoch)  OBVIOUS
  <2>2. n \in Int  BY <2>1, NumberedTyped DEF IsVersion
  <2> QED  BY <1>3, <2>1, <2>2
<1>6. k2 \in Seq(Int)  BY <1>1, <1>3, ReleaseTyped DEF IsVersion
<1>7. k3 \in Seq(Int)
  <2>1. CASE pre # {}
    <3>1. PICK p, n : /\ p = Versions!PreTag(Versions!Only(pre).label)
                      /\ n = Versions!Numbered(Versions!Only(pre).n)
      OBVIOUS
    <3>2. n \in Int  BY <1>2, <2>1, <3>1, OnlyTyped
    <3>3. p \in Int  BY <3>1 DEF Versions!PreTag
    <3>4. k3 = <<1, p, n>>  BY <1>3, <2>1, <3>1 DEF Versions!PreKey
    <3> QED  BY <3>2, <3>3, <3>4
  <2>2. CASE pre = {}
    <3>1. CASE post = {} /\ dev # {}
      <4>1. k3 = <<0>>  BY <1>3, <2>2, <3>1 DEF Versions!PreKey
      <4> QED  BY <4>1
    <3>2. CASE ~ (post = {} /\ dev # {})
      <4>1. k3 = <<2>>  BY <1>3, <2>2, <3>2 DEF Versions!PreKey
      <4> QED  BY <4>1
    <3> QED  BY <3>1, <3>2
  <2> QED  BY <2>1, <2>2
<1>8. k4 \in Seq(Int)
  <2>1. CASE post # {}
    <3>1. PICK n : n = Versions!Numbered(Versions!Only(post).n)  OBVIOUS
    <3>2. n \in Int  BY <1>2, <2>1, <3>1, OnlyTyped
    <3>3. k4 = <<n>>  BY <1>3, <2>1, <3>1 DEF Versions!PostKey
    <3> QED  BY <3>2, <3>3
  <2>2. CASE post = {}
    <3>1. k4 = <<>>  BY <1>3, <2>2 DEF Versions!PostKey
    <3> QED  BY <3>1
  <2> QED  BY <2>1, <2>2
<1>9. k5 \in Seq(Int)
  <2>1. CASE dev # {}
    <3>1. PICK n : n = Versions!Numbered(Versions!Only(dev).n)  OBVIOUS
    <3>2. n \in Int  BY <1>2, <2>1, <3>1, OnlyTyped
    <3>3. k5 = <<0, n>>  BY <1>3, <2>1, <3>1 DEF Versions!DevKey
    <3> QED  BY <3>2, <3>3
  <2>2. CASE dev = {}
    <3>1. k5 = <<1>>  BY <1>3, <2>2 DEF Versions!DevKey
    <3> QED  BY <3>1
  <2> QED  BY <2>1, <2>2
<1>10. k6 \in Seq(Int)  BY <1>3, LocalTyped DEF IsVersion
<1> QED  BY <1>4, <1>5, <1>6, <1>7, <1>8, <1>9, <1>10 DEF Keys

(* A match whose versions are those of W. *)
MatchOf(W) ==
  /\ \A v \in W : IsVersion(v)
  /\ input.version \in W
  /\ \A r \in Versions!Ranges :
       /\ Len(r.events) \in Nat
       /\ \A i \in 1..Len(r.events) : \A j \in 1..3 :
            Versions!Boundaries[j] \in DOMAIN r.events[i]
              => r.events[i][Versions!Boundaries[j]] \in W

EventsOf(W) == {[kind |-> Versions!Boundaries[j], at |-> w] : j \in 1..3, w \in W}

LEMMA EventsTyped ==
  ASSUME NEW W, MatchOf(W), NEW r \in Versions!Ranges
  PROVE  Versions!Events(r) \in Seq(EventsOf(W))
<1>1. Len(r.events) \in Nat /\ \A i \in 1..Len(r.events) : \A j \in 1..3 :
        Versions!Boundaries[j] \in DOMAIN r.events[i] => r.events[i][Versions!Boundaries[j]] \in W
  BY DEF MatchOf
<1>2. PICK one : one = [i \in 1..Len(r.events) |-> [j \in 1..3 |->
        IF Versions!Boundaries[j] \in DOMAIN r.events[i]
          THEN <<[kind |-> Versions!Boundaries[j], at |-> r.events[i][Versions!Boundaries[j]]]>>
          ELSE <<>>]]
  OBVIOUS
<1>3. PICK all : all = [i \in 1..Len(r.events) |-> FlattenSeq(one[i])]  OBVIOUS
<1>4. \A i \in 1..Len(r.events) : one[i] \in Seq(Seq(EventsOf(W)))
  <2> SUFFICES ASSUME NEW i \in 1..Len(r.events)  PROVE one[i] \in Seq(Seq(EventsOf(W)))
    OBVIOUS
  <2>1. ASSUME NEW j \in 1..3  PROVE one[i][j] \in Seq(EventsOf(W))
    <3>1. CASE Versions!Boundaries[j] \in DOMAIN r.events[i]
      <4>1. PICK e : e = [kind |-> Versions!Boundaries[j], at |-> r.events[i][Versions!Boundaries[j]]]
        OBVIOUS
      <4>2. e \in EventsOf(W)  BY <1>1, <3>1, <4>1 DEF EventsOf
      <4>3. one[i][j] = <<e>>  BY <1>2, <3>1, <4>1
      <4> QED  BY <4>2, <4>3
    <3>2. CASE Versions!Boundaries[j] \notin DOMAIN r.events[i]
      <4>1. one[i][j] = <<>>  BY <1>2, <3>2
      <4> QED  BY <4>1
    <3> QED  BY <3>1, <3>2
  <2>2. DOMAIN one[i] = 1..3 /\ one[i] = [j \in 1..3 |-> one[i][j]]  BY <1>2
  <2> QED  BY <2>1, <2>2
<1>5. \A i \in 1..Len(r.events) : FlattenSeq(one[i]) \in Seq(EventsOf(W))
  BY <1>4, FlattenSeqTyped
<1>6. all \in Seq(Seq(EventsOf(W)))  BY <1>1, <1>3, <1>5
<1>7. FlattenSeq(all) \in Seq(EventsOf(W))  BY <1>6, FlattenSeqTyped
<1>8. \A s : Versions!FlattenSeq(s) = FlattenSeq(s)  BY DEF Versions!FlattenSeq, FlattenSeq
<1>9. \A i \in 1..Len(r.events) :
        one[i] = [j \in 1..3 |->
          IF Versions!Boundaries[j] \in DOMAIN r.events[i]
            THEN <<[kind |-> Versions!Boundaries[j], at |-> r.events[i][Versions!Boundaries[j]]]>>
            ELSE <<>>]
  BY <1>2
<1>10. \A i \in 1..Len(r.events) : all[i] = FlattenSeq(one[i])  BY <1>3
<1>11. \A i \in 1..Len(r.events) :
         Versions!FlattenSeq([j \in 1..3 |->
           IF Versions!Boundaries[j] \in DOMAIN r.events[i]
             THEN <<[kind |-> Versions!Boundaries[j], at |-> r.events[i][Versions!Boundaries[j]]]>>
             ELSE <<>>]) = all[i]
  BY <1>8, <1>9, <1>10
<1>12. [i \in 1..Len(r.events) |-> Versions!FlattenSeq([j \in 1..3 |->
           IF Versions!Boundaries[j] \in DOMAIN r.events[i]
             THEN <<[kind |-> Versions!Boundaries[j], at |-> r.events[i][Versions!Boundaries[j]]]>>
             ELSE <<>>])] = all
  BY <1>3, <1>10, <1>11
<1>13. Versions!Events(r) = FlattenSeq(all)
  BY <1>8, <1>12 DEF Versions!Events
<1> QED  BY <1>7, <1>13

LEMMA ReadTyped ==
  ASSUME NEW W, MatchOf(W), NEW r \in Versions!Ranges, NEW v \in Versions!Read(r)
  PROVE  IsVersion(v)
<1>1. CASE v = input.version  BY <1>1 DEF MatchOf
<1>2. CASE v # input.version
  <2>1. PICK e \in Versions!ToSet(Versions!Events(r)) : v = e.at  BY <1>2 DEF Versions!Read
  <2>2. PICK s \in Seq(EventsOf(W)) : s = Versions!Events(r)  BY EventsTyped
  <2>3. PICK i \in 1..Len(s) : e = s[i]  BY <2>1, <2>2 DEF Versions!ToSet
  <2>4. e \in EventsOf(W)  BY <2>3, LenProperties, ElementOfSeq
  <2>5. e.at \in W  BY <2>4 DEF EventsOf
  <2> QED  BY <2>1, <2>5 DEF MatchOf
<1> QED  BY <1>1, <1>2

(* The order of a range is the one of the keys its comparator reads. *)
LEMMA ReadKeys ==
  ASSUME NEW W, MatchOf(W), NEW r \in Versions!Ranges
  PROVE  \E n \in Nat : \E key : \A v, w \in Versions!Read(r) :
           /\ key[v] \in Keys(n)
           /\ Versions!RangeOrder(r.type, input.ecosystem, v, w) = Versions!Compared(key[v], key[w])
<1>1. CASE r.type = "SEMVER"
  <2>1. PICK key : key = [v \in Versions!Read(r) |-> Versions!SemverKey(v)]  OBVIOUS
  <2>2. \A v \in Versions!Read(r) : Versions!SemverKey(v) # Versions!NoKey
    BY <1>1 DEF Versions!Read
  <2>3. \A v \in Versions!Read(r) : key[v] \in Keys(2)
    BY <2>1, <2>2, ReadTyped, SemverTyped
  <2>4. ASSUME NEW v \in Versions!Read(r), NEW w \in Versions!Read(r)
        PROVE  Versions!RangeOrder(r.type, input.ecosystem, v, w) = Versions!Compared(key[v], key[w])
    BY <1>1, <2>1, <2>2 DEF Versions!RangeOrder, Versions!VersionCmp, Versions!OfKeys
  <2> QED  BY <2>3, <2>4
<1>2. CASE r.type = "ECOSYSTEM" /\ input.ecosystem = "PyPI"
  <2>1. PICK key : key = [v \in Versions!Read(r) |-> Versions!Pep440Key(v)]  OBVIOUS
  <2>a. \A v, w \in Versions!Read(r) :
          Versions!RangeOrder(r.type, input.ecosystem, v, w) = Versions!Pep440Cmp(v, w)
    BY <1>2 DEF Versions!RangeOrder
  <2>2. \A v \in Versions!Read(r) : Versions!Pep440Key(v) # Versions!NoKey
    <3>1. \A v \in Versions!Read(r) : Versions!Pep440Cmp(v, v) # Versions!Unread
      BY <2>a DEF Versions!Read
    <3> QED  BY <3>1 DEF Versions!Pep440Cmp, Versions!OfKeys
  <2>3. \A v \in Versions!Read(r) : key[v] \in Keys(6)
    BY <2>1, <2>2, ReadTyped, Pep440Typed
  <2>4. ASSUME NEW v \in Versions!Read(r), NEW w \in Versions!Read(r)
        PROVE  Versions!RangeOrder(r.type, input.ecosystem, v, w) = Versions!Compared(key[v], key[w])
    BY <2>1, <2>2, <2>a DEF Versions!Pep440Cmp, Versions!OfKeys
  <2> QED  BY <2>3, <2>4
<1>3. CASE r.type = "ECOSYSTEM" /\ input.ecosystem = "Packagist"
  <2>1. PICK key : key = [v \in Versions!Read(r) |-> Versions!ComposerKey(v)]  OBVIOUS
  <2>a. \A v, w \in Versions!Read(r) :
          Versions!RangeOrder(r.type, input.ecosystem, v, w) = Versions!ComposerCmp(v, w)
    BY <1>3 DEF Versions!RangeOrder
  <2>2. \A v \in Versions!Read(r) : Versions!ComposerKey(v) # Versions!NoKey
    <3>1. \A v \in Versions!Read(r) : Versions!ComposerCmp(v, v) # Versions!Unread
      BY <2>a DEF Versions!Read
    <3> QED  BY <3>1 DEF Versions!ComposerCmp, Versions!OfKeys
  <2>3. \A v \in Versions!Read(r) : key[v] \in Keys(2)
    BY <2>1, <2>2, ReadTyped, ComposerTyped
  <2>4. ASSUME NEW v \in Versions!Read(r), NEW w \in Versions!Read(r)
        PROVE  Versions!RangeOrder(r.type, input.ecosystem, v, w) = Versions!Compared(key[v], key[w])
    BY <2>1, <2>2, <2>a DEF Versions!ComposerCmp, Versions!OfKeys
  <2> QED  BY <2>3, <2>4
<1>4. CASE ~ Versions!HasOrder(r.type, input.ecosystem)
  <2>1. Versions!Read(r) = {}
    BY <1>4 DEF Versions!Read, Versions!RangeOrder, Versions!HasOrder, Versions!Unread
  <2> QED  BY <2>1
<1> QED  BY <1>1, <1>2, <1>3, <1>4 DEF Versions!HasOrder

(* What a comparator reads, it orders totally (osv.rs, range_order). *)
LEMMA VersionsOrdered ==
  ASSUME NEW W, MatchOf(W)
  PROVE  Versions!OrdersVersions
<1> SUFFICES ASSUME NEW r \in Versions!Ranges
             PROVE  LET o == [v \in Versions!Read(r) |-> [w \in Versions!Read(r) |->
                               Versions!RangeOrder(r.type, input.ecosystem, v, w)]]
                    IN \A v, w \in Versions!Read(r) :
                         /\ o[v][w] = -o[w][v]
                         /\ o[v][w] # 1 =>
                              \A u \in Versions!Read(r) : o[w][u] # 1 => o[v][u] # 1
  BY DEF Versions!OrdersVersions
<1>0. PICK o : o = [v \in Versions!Read(r) |-> [w \in Versions!Read(r) |->
                      Versions!RangeOrder(r.type, input.ecosystem, v, w)]]
  OBVIOUS
<1>1. PICK n \in Nat : \E key : \A v, w \in Versions!Read(r) :
           /\ key[v] \in Keys(n)
           /\ Versions!RangeOrder(r.type, input.ecosystem, v, w) = Versions!Compared(key[v], key[w])
  BY ReadKeys
<1>2. PICK key : \A v, w \in Versions!Read(r) :
           /\ key[v] \in Keys(n)
           /\ Versions!RangeOrder(r.type, input.ecosystem, v, w) = Versions!Compared(key[v], key[w])
  BY <1>1
<1>3. \A u, v, w \in Versions!Read(r) :
        /\ Versions!Compared(key[u], key[v]) = -Versions!Compared(key[v], key[u])
        /\ (Versions!Compared(key[u], key[v]) # 1 /\ Versions!Compared(key[v], key[w]) # 1)
             => Versions!Compared(key[u], key[w]) # 1
  BY <1>2, ComparedOrders
<1>4. \A v, w \in Versions!Read(r) : o[v][w] = Versions!Compared(key[v], key[w])
  BY <1>0, <1>2
<1>5. \A v, w \in Versions!Read(r) :
        /\ o[v][w] = -o[w][v]
        /\ o[v][w] # 1 => \A u \in Versions!Read(r) : o[w][u] # 1 => o[v][u] # 1
  BY <1>3, <1>4
<1> QED  BY <1>0, <1>5

Written == Versions!Pool \cup {Versions!Two, Versions!Three}

LEMMA VersionTyped ==
  ASSUME NEW T, \A x \in T : x.n \in Int, NEW v, v.epoch \in Int, v.nums \in Seq(Int),
         v.tags \in Seq(T), v.local = <<>>, v.place \in Int
  PROVE  IsVersion(v)
<1>1. \A x \in Versions!ToSet(v.tags) : x \in T  BY ElementOfSeq, LenProperties DEF Versions!ToSet
<1>2. <<>> \in Seq(Int)  OBVIOUS
<1> QED  BY <1>1, <1>2 DEF IsVersion

LEMMA PoolTyped ==
  ASSUME NEW v \in Written
  PROVE  IsVersion(v)
<1>1. PICK tag1, tag2, tag3, tag4 :
         /\ tag1 = Versions!Tag("-", "", 1) /\ tag2 = Versions!Tag("-", "rc", 1)
         /\ tag3 = Versions!Tag(".", "dev", -1) /\ tag4 = Versions!Tag("-", "main", -1)
  OBVIOUS
<1>2. tag1.n = 1 /\ tag2.n = 1 /\ tag3.n = -1 /\ tag4.n = -1  BY <1>1 DEF Versions!Tag
<1>3. PICK T : T = {tag1, tag2, tag3, tag4}  OBVIOUS
<1>4. \A x \in T : x.n \in Int  BY <1>2, <1>3
<1>5. v \in { Versions!One, Versions!Dashed, Versions!Candidate, Versions!Zeros, Versions!Epoch,
              Versions!Dev, Versions!Four, Versions!Nine, Versions!Ten, Versions!Two,
              Versions!Main, Versions!Three }
  BY DEF Written, Versions!Pool, Versions!Usual
<1>6. v \in { Versions!Version(<<1, 0>>, <<>>, 2), Versions!Version(<<1, 0>>, <<tag1>>, 3),
              Versions!Version(<<1, 0>>, <<tag2>>, 4), Versions!Version(<<1, 0, 0>>, <<>>, 5),
              [Versions!Version(<<0, 9>>, <<>>, 1) EXCEPT !.epoch = 1],
              Versions!Version(<<1, 0>>, <<tag3>>, 6), Versions!Version(<<1, 10, 0, 1>>, <<>>, 7),
              Versions!Version(<<1, 9, 0>>, <<>>, 8), Versions!Version(<<10>>, <<>>, 9),
              Versions!Version(<<2>>, <<>>, 10), Versions!Version(<<>>, <<tag4>>, 12),
              Versions!Version(<<3>>, <<>>, 11) }
  BY Zenon, <1>1, <1>5 DEF Versions!One, Versions!Dashed, Versions!Candidate, Versions!Zeros,
     Versions!Epoch, Versions!Dev, Versions!Four, Versions!Nine, Versions!Ten, Versions!Two,
     Versions!Main, Versions!Three
<1>7. v.local = <<>> /\ v.place \in Int /\ v.epoch \in {-1, 1}
  BY <1>6 DEF Versions!Version
<1>8. v.nums \in Seq(Int)
  <2>1. /\ <<1, 0>> \in Seq(Int) /\ <<1, 0, 0>> \in Seq(Int) /\ <<10>> \in Seq(Int)
        /\ <<0, 9>> \in Seq(Int) /\ <<>> \in Seq(Int) /\ <<2>> \in Seq(Int) /\ <<3>> \in Seq(Int)
        /\ <<1, 10, 0, 1>> \in Seq(Int) /\ <<1, 9, 0>> \in Seq(Int)
    OBVIOUS
  <2>2. \/ v.nums = <<1, 0>> \/ v.nums = <<1, 0, 0>> \/ v.nums = <<10>> \/ v.nums = <<0, 9>>
        \/ v.nums = <<>> \/ v.nums = <<2>> \/ v.nums = <<3>>
        \/ v.nums = <<1, 10, 0, 1>> \/ v.nums = <<1, 9, 0>>
    BY <1>6 DEF Versions!Version
  <2> QED  BY <2>1, <2>2
<1>9. v.tags \in Seq(T)
  <2>1. /\ <<>> \in Seq(T) /\ <<tag1>> \in Seq(T) /\ <<tag2>> \in Seq(T)
        /\ <<tag3>> \in Seq(T) /\ <<tag4>> \in Seq(T)
    BY <1>3
  <2>2. \/ v.tags = <<>> \/ v.tags = <<tag1>> \/ v.tags = <<tag2>>
        \/ v.tags = <<tag3>> \/ v.tags = <<tag4>>
    BY <1>6 DEF Versions!Version
  <2> QED  BY <2>1, <2>2
<1> QED  BY <1>4, <1>7, <1>8, <1>9, VersionTyped

(* An event that speaks of versions of W. *)
Speaks(e, W) == \A j \in 1..3 : Versions!Boundaries[j] \in DOMAIN e => e[Versions!Boundaries[j]] \in W

LEMMA EventsSpeak ==
  ASSUME NEW W, NEW v \in W, NEW w \in W
  PROVE  /\ Speaks(Versions!From(v), W) /\ Speaks(Versions!Until(v), W)
         /\ Speaks([last_affected |-> v], W) /\ Speaks([introduced |-> v, fixed |-> w], W)
<1>1. /\ Versions!Boundaries[1] = "introduced" /\ Versions!Boundaries[2] = "fixed"
      /\ Versions!Boundaries[3] = "last_affected"
  BY DEF Versions!Boundaries
<1>2. Speaks(Versions!From(v), W)  BY <1>1 DEF Speaks, Versions!From
<1>3. Speaks(Versions!Until(v), W)  BY <1>1 DEF Speaks, Versions!Until
<1>4. Speaks([last_affected |-> v], W)  BY <1>1 DEF Speaks
<1>5. Speaks([introduced |-> v, fixed |-> w], W)  BY <1>1 DEF Speaks
<1> QED  BY <1>2, <1>3, <1>4, <1>5

Speakers(W) == {Versions!From(v) : v \in W} \cup {Versions!Until(v) : v \in W}
                 \cup {[last_affected |-> v] : v \in W}
                 \cup {[introduced |-> p[1], fixed |-> p[2]] : p \in W \X W}

LEMMA SpeakersAre ==
  ASSUME NEW W, NEW v \in W, NEW w \in W
  PROVE  /\ Versions!From(v) \in Speakers(W) /\ Versions!Until(v) \in Speakers(W)
         /\ [last_affected |-> v] \in Speakers(W)
         /\ [introduced |-> v, fixed |-> w] \in Speakers(W)
<1>1. PICK p : p = <<v, w>>  OBVIOUS
<1>2. p \in W \X W /\ p[1] = v /\ p[2] = w  BY <1>1
<1>3. [introduced |-> p[1], fixed |-> p[2]] \in Speakers(W)  BY <1>2 DEF Speakers
<1> QED  BY <1>2, <1>3 DEF Speakers

LEMMA SpeakersSpeak ==
  ASSUME NEW W, NEW s \in Seq(Speakers(W))
  PROVE  Len(s) \in Nat /\ \A i \in 1..Len(s) : Speaks(s[i], W)
<1>1. ASSUME NEW e \in Speakers(W)  PROVE Speaks(e, W)
  <2>1. CASE \E v \in W : e = Versions!From(v)  BY <2>1, EventsSpeak
  <2>2. CASE \E v \in W : e = Versions!Until(v)  BY <2>2, EventsSpeak
  <2>3. CASE \E v \in W : e = [last_affected |-> v]  BY <2>3, EventsSpeak
  <2>4. CASE \E p \in W \X W : e = [introduced |-> p[1], fixed |-> p[2]]
    <3>1. PICK v, w \in W : e = [introduced |-> v, fixed |-> w]  BY <2>4
    <3> QED  BY <3>1, EventsSpeak
  <2> QED  BY <2>1, <2>2, <2>3, <2>4 DEF Speakers
<1> QED  BY <1>1, LenProperties, ElementOfSeq

LEMMA ListsSpeak ==
  ASSUME NEW list \in Versions!EventLists
  PROVE  list \in Seq(Speakers(Versions!Pool))
<1>1. PICK S : S = Speakers(Versions!Pool)  OBVIOUS
<1>2. /\ Versions!Usual \subseteq Versions!Pool
      /\ Versions!Usual \cup {Versions!Epoch, Versions!Main} \subseteq Versions!Pool
  BY DEF Versions!Pool
<1>3. \A v, w \in Versions!Pool :
        /\ Versions!From(v) \in S /\ Versions!Until(v) \in S
        /\ [last_affected |-> v] \in S /\ [introduced |-> v, fixed |-> w] \in S
  BY <1>1, SpeakersAre
<1>4. \/ \E v \in Versions!Usual \cup {Versions!Epoch, Versions!Main}, w \in Versions!Pool :
           list = <<Versions!From(v), Versions!Until(w)>>
      \/ \E v, w \in Versions!Usual : list = <<Versions!From(v), [last_affected |-> w]>>
      \/ \E v, w \in Versions!Usual : list = <<[introduced |-> v, fixed |-> w]>>
      \/ \E u, v, w \in Versions!Usual :
           list = <<Versions!From(u), Versions!Until(v), Versions!From(w)>>
  BY DEF Versions!EventLists
<1>5. \/ \E x \in S : list = <<x>>
      \/ \E x, y \in S : list = <<x, y>>
      \/ \E x, y, z \in S : list = <<x, y, z>>
  BY <1>2, <1>3, <1>4
<1>6. CASE \E x \in S : list = <<x>>  BY <1>1, <1>6
<1>7. CASE \E x, y \in S : list = <<x, y>>  BY <1>1, <1>7
<1>8. CASE \E x, y, z \in S : list = <<x, y, z>>  BY <1>1, <1>8
<1> QED  BY <1>5, <1>6, <1>7, <1>8

LEMMA MatchesTyped ==
  ASSUME Versions!MatchInit
  PROVE  MatchOf(Written)
<1>1. PICK kind \in Versions!Kinds, v \in Versions!Pool, list \in Versions!EventLists :
        LET entry(name, ranges) == [name |-> name, ecosystem |-> kind[2], ranges |-> ranges]
        IN input = [name |-> Versions!Named(FALSE, "-"), ecosystem |-> kind[2], version |-> v,
                    affected |-> <<
                      entry(Versions!Named(TRUE, "_"),
                            <<Versions!RangeOf("SEMVER",
                                <<Versions!From(Versions!One),
                                  Versions!Until(Versions!Two)>>)>>),
                      entry(Versions!Named(FALSE, "-"),
                            <<Versions!RangeOf(kind[1], list),
                              Versions!RangeOf("SEMVER",
                                <<Versions!From(Versions!Three)>>)>>) >>]
  BY DEF Versions!MatchInit
<1>2. PICK list1, list2 :
        /\ list1 = <<Versions!From(Versions!One), Versions!Until(Versions!Two)>>
        /\ list2 = <<Versions!From(Versions!Three)>>
  OBVIOUS
<1>3. PICK one, two, three :
        /\ one = Versions!RangeOf("SEMVER", list1) /\ two = Versions!RangeOf(kind[1], list)
        /\ three = Versions!RangeOf("SEMVER", list2)
  OBVIOUS
<1>4. PICK x, y :
        /\ x = [name |-> Versions!Named(TRUE, "_"), ecosystem |-> kind[2], ranges |-> <<one>>]
        /\ y = [name |-> Versions!Named(FALSE, "-"), ecosystem |-> kind[2], ranges |-> <<two, three>>]
  OBVIOUS
<1>5. input.version = v /\ input.affected = <<x, y>>  BY <1>1, <1>2, <1>3, <1>4
<1>6. \A r \in Versions!Ranges : r = one \/ r = two \/ r = three
  <2>1. \A z \in Versions!ToSet(<<x, y>>) : z = x \/ z = y  BY DEF Versions!ToSet
  <2>2. \A r \in Versions!ToSet(<<one>>) : r = one  BY DEF Versions!ToSet
  <2>3. \A r \in Versions!ToSet(<<two, three>>) : r = two \/ r = three  BY DEF Versions!ToSet
  <2>4. x.ranges = <<one>> /\ y.ranges = <<two, three>>  BY <1>4
  <2> QED  BY <1>5, <2>1, <2>2, <2>3, <2>4 DEF Versions!Ranges
<1>7. one.events = list1 /\ two.events = list /\ three.events = list2
  BY <1>3 DEF Versions!RangeOf
<1>8. /\ Versions!Pool \subseteq Written
      /\ Versions!One \in Written /\ Versions!Two \in Written /\ Versions!Three \in Written
  <2>1. Versions!One \in Versions!Usual  BY Zenon DEF Versions!Usual
  <2>2. Versions!Usual \subseteq Versions!Pool  BY Zenon DEF Versions!Pool
  <2> QED  BY <2>1, <2>2 DEF Written
<1>9. list1 \in Seq(Speakers(Written)) /\ list2 \in Seq(Speakers(Written))
  <2>1. \A w \in Written : /\ Versions!From(w) \in Speakers(Written)
                           /\ Versions!Until(w) \in Speakers(Written)
    BY DEF Speakers
  <2>2. PICK e1, e2, e3 \in Speakers(Written) :
          /\ e1 = Versions!From(Versions!One) /\ e2 = Versions!Until(Versions!Two)
          /\ e3 = Versions!From(Versions!Three)
    BY <1>8, <2>1
  <2> QED  BY <1>2, <2>2
<1>10. list \in Seq(Speakers(Written))
  <2>1. Speakers(Versions!Pool) \subseteq Speakers(Written)  BY <1>8 DEF Speakers
  <2>2. list \in Seq(Speakers(Versions!Pool))  BY ListsSpeak
  <2> QED  BY <2>1, <2>2
<1>11. \A r \in Versions!Ranges :
         Len(r.events) \in Nat /\ \A i \in 1..Len(r.events) : Speaks(r.events[i], Written)
  BY <1>6, <1>7, <1>9, <1>10, SpeakersSpeak
<1>12. input.version \in Written  BY <1>5, <1>8
<1> QED  BY <1>11, <1>12, PoolTyped DEF MatchOf, Speaks

(* What a comparator reads it orders totally, whatever versions an advisory  *)
(* and a lockfile hold (osv.rs, range_order: the sort of the boundaries      *)
(* relies on it).                                                            *)
THEOREM AdviceOrders ==
  ASSUME NEW W, MatchOf(W)
  PROVE  Versions!OrdersVersions
BY VersionsOrdered

-----------------------------------------------------------------------------
(* Lockfiles. *)

(* A strict total order on a set, as the set of its pairs. *)
Orders(R, S) ==
  /\ \A x \in S : <<x, x>> \notin R
  /\ \A x, y \in S : x # y => <<x, y>> \in R \/ <<y, x>> \in R
  /\ \A x, y, z \in S : <<x, y>> \in R /\ <<y, z>> \in R => <<x, z>> \in R

(* Lists a finite set under it: every member, each before those it precedes. *)
ListsAll(s, S, R) ==
  /\ s \in Seq(S)
  /\ \A x \in S : \E i \in 1..Len(s) : s[i] = x
  /\ \A i, j \in 1..Len(s) : i < j => <<s[i], s[j]>> \in R

LEMMA LocksCounts == \A T : Locks!Cardinality(T) = Cardinality(T)
BY DEF Locks!Cardinality, Cardinality

LEMMA InOrderLists ==
  ASSUME NEW S, IsFiniteSet(S), NEW R, Orders(R, S)
  PROVE  ListsAll(Locks!InOrder(S, R), S, R)
<1>1. PICK n \in Nat : n = Cardinality(S)  BY FS_CardinalityType
<1>2. PICK below : below = [x \in S |-> {y \in S : <<y, x>> \in R}]  OBVIOUS
<1>3. PICK rank : rank = [x \in S |-> Cardinality(below[x])]  OBVIOUS
<1>4. \A x \in S : below[x] \in SUBSET S /\ IsFiniteSet(below[x])
  BY <1>2, FS_Subset
<1>5. ASSUME NEW x \in S  PROVE rank[x] \in 0..(n - 1)
  <2>1. below[x] # S  BY <1>2 DEF Orders
  <2>2. Cardinality(below[x]) \in Nat /\ Cardinality(below[x]) <= n /\ Cardinality(below[x]) # n
    BY <1>1, <1>4, <2>1, FS_Subset, FS_CardinalityType
  <2> QED  BY <1>3, <2>2
<1>6. ASSUME NEW x \in S, NEW y \in S, <<x, y>> \in R  PROVE rank[x] < rank[y]
  <2>1. below[x] \in SUBSET below[y]  BY <1>2, <1>6 DEF Orders
  <2>2. x \in below[y] /\ x \notin below[x]  BY <1>2, <1>6 DEF Orders
  <2>3. Cardinality(below[x]) <= Cardinality(below[y]) /\ Cardinality(below[x]) # Cardinality(below[y])
    BY <1>4, <2>1, <2>2, FS_Subset
  <2>4. Cardinality(below[x]) \in Nat /\ Cardinality(below[y]) \in Nat
    BY <1>4, FS_CardinalityType
  <2> QED  BY <1>3, <2>3, <2>4
<1>7. \A x, y \in S : rank[x] = rank[y] => x = y
  <2> SUFFICES ASSUME NEW x \in S, NEW y \in S, rank[x] = rank[y], x # y  PROVE FALSE
    OBVIOUS
  <2>1. <<x, y>> \in R \/ <<y, x>> \in R  BY DEF Orders
  <2>2. rank[x] < rank[y] \/ rank[y] < rank[x]  BY <1>6, <2>1
  <2> QED  BY <1>5, <2>2
<1>8. ASSUME NEW r \in 0..(n - 1)  PROVE \E x \in S : rank[x] = r
  <2> SUFFICES ASSUME \A x \in S : rank[x] # r  PROVE FALSE
    OBVIOUS
  <2>1. PICK T : T = (0..(n - 1)) \ {r}  OBVIOUS
  <2>2. IsFiniteSet(0..(n - 1)) /\ Cardinality(0..(n - 1)) = n
    BY <1>1, FS_Interval
  <2>3. IsFiniteSet(T) /\ Cardinality(T) = n - 1
    BY <2>1, <2>2, FS_RemoveElement
  <2>4. rank \in [S -> T]  BY <1>3, <1>5, <2>1
  <2>5. Cardinality(T) < Cardinality(S)  BY <1>1, <2>3
  <2>6. \E x, y \in S : x # y /\ rank[x] = rank[y]
    BY <2>3, <2>4, <2>5, FS_PigeonHole
  <2> QED  BY <1>7, <2>6
<1>9. PICK s : s = Locks!InOrder(S, R)  OBVIOUS
<1>10. \A x \in S : rank[x] = Cardinality({y \in S : <<y, x>> \in R})  BY <1>2, <1>3
<1>11. s = [i \in 1..n |-> Locks!Nth(S, R, i)]
  BY <1>1, <1>9, LocksCounts DEF Locks!InOrder
<1>15. \A i \in 1..n : s[i] \in S /\ rank[s[i]] = i - 1
  <2> SUFFICES ASSUME NEW i \in 1..n  PROVE s[i] \in S /\ rank[s[i]] = i - 1
    OBVIOUS
  <2>1. s[i] = CHOOSE x \in S : Locks!Cardinality({y \in S : <<y, x>> \in R}) = i - 1
    BY <1>11 DEF Locks!Nth
  <2>2. \E x \in S : rank[x] = i - 1  BY <1>1, <1>8
  <2>3. \E x \in S : Locks!Cardinality({y \in S : <<y, x>> \in R}) = i - 1
    BY <1>10, <2>2, LocksCounts
  <2>4. s[i] \in S /\ Locks!Cardinality({y \in S : <<y, s[i]>> \in R}) = i - 1
    BY <2>1, <2>3
  <2> QED  BY <1>10, <2>4, LocksCounts
<1>12. s \in Seq(S) /\ Len(s) = n
  BY <1>1, <1>11, <1>15
<1>13. ASSUME NEW x \in S  PROVE \E i \in 1..n : s[i] = x
  <2>1. rank[x] + 1 \in 1..n  BY <1>1, <1>5
  <2>2. rank[s[rank[x] + 1]] = rank[x]  BY <1>5, <1>15, <2>1
  <2> QED  BY <1>7, <1>15, <2>1, <2>2
<1>14. ASSUME NEW i \in 1..n, NEW j \in 1..n, i < j  PROVE <<s[i], s[j]>> \in R
  <2>1. rank[s[i]] < rank[s[j]] /\ s[i] \in S /\ s[j] \in S  BY <1>15, <1>14
  <2>2. s[i] # s[j]  BY <1>15, <1>14
  <2>3. <<s[j], s[i]>> \notin R
    <3> SUFFICES ASSUME <<s[j], s[i]>> \in R  PROVE FALSE
      OBVIOUS
    <3>1. rank[s[j]] < rank[s[i]]  BY <1>6, <2>1
    <3> QED  BY <1>15, <1>14, <3>1
  <2> QED  BY <2>1, <2>2, <2>3 DEF Orders
<1> QED  BY <1>9, <1>12, <1>13, <1>14 DEF ListsAll

(* There is one list. *)
LEMMA ListsAgree ==
  ASSUME NEW S, NEW R, Orders(R, S), NEW s, NEW t, ListsAll(s, S, R), ListsAll(t, S, R)
  PROVE  s = t
<1>1. /\ Len(s) \in Nat /\ Len(t) \in Nat
      /\ \A i \in 1..Len(s) : s[i] \in S
      /\ \A i \in 1..Len(t) : t[i] \in S
  BY LenProperties, ElementOfSeq DEF ListsAll
<1>2. \A i \in 1..Len(s) : i \in 1..Len(t) => s[i] = t[i]
  <2> DEFINE apart == {i \in Nat : i \in 1..Len(s) /\ i \in 1..Len(t) /\ s[i] # t[i]}
  <2> SUFFICES ASSUME apart # {}  PROVE FALSE
    OBVIOUS
  <2>1. apart \in SUBSET Nat /\ apart # {}  OBVIOUS
  <2> HIDE DEF apart
  <2>2. PICK d \in apart : \A i \in apart : d <= i  BY <2>1, LeastNumber
  <2> USE DEF apart
  <2>3. d \in 1..Len(s) /\ d \in 1..Len(t) /\ s[d] # t[d]  OBVIOUS
  <2>4. \A j \in 1..Len(s) : j < d => s[j] = t[j]
    <3> SUFFICES ASSUME NEW j \in 1..Len(s), j < d, s[j] # t[j]  PROVE FALSE
      OBVIOUS
    <3>1. j \in apart  BY <1>1, <2>3
    <3>2. d <= j  BY <2>2, <3>1
    <3> QED  BY <2>3, <3>2
  <2> HIDE DEF apart
  <2>5. PICK i \in 1..Len(t) : t[i] = s[d]  BY <1>1, <2>3 DEF ListsAll
  <2>6. PICK j \in 1..Len(s) : s[j] = t[d]  BY <1>1, <2>3 DEF ListsAll
  <2>7. d < i
    <3>1. i # d  BY <2>3, <2>5
    <3>2. ~ (i < d)
      <4> SUFFICES ASSUME i < d  PROVE FALSE
        OBVIOUS
      <4>1. i \in 1..Len(s) /\ s[i] = t[i]  BY <1>1, <2>3, <2>4
      <4>2. <<s[i], s[d]>> \in R  BY <2>3, <4>1 DEF ListsAll
      <4> QED  BY <1>1, <2>3, <2>5, <4>1, <4>2 DEF Orders
    <3> QED  BY <1>1, <2>3, <3>1, <3>2
  <2>8. d < j
    <3>1. j # d  BY <2>3, <2>6
    <3>2. ~ (j < d)
      <4> SUFFICES ASSUME j < d  PROVE FALSE
        OBVIOUS
      <4>1. j \in 1..Len(t) /\ s[j] = t[j]  BY <1>1, <2>3, <2>4
      <4>2. <<t[j], t[d]>> \in R  BY <2>3, <4>1 DEF ListsAll
      <4> QED  BY <1>1, <2>3, <2>6, <4>1, <4>2 DEF Orders
    <3> QED  BY <1>1, <2>3, <3>1, <3>2
  <2>9. <<t[d], t[i]>> \in R /\ <<s[d], s[j]>> \in R
    BY <2>3, <2>7, <2>8 DEF ListsAll
  <2>10. <<t[d], s[d]>> \in R /\ <<s[d], t[d]>> \in R  BY <2>5, <2>6, <2>9
  <2> QED  BY <1>1, <2>3, <2>10 DEF Orders
<1>3. Len(s) = Len(t)
  <2>1. ~ (Len(s) < Len(t))
    <3> SUFFICES ASSUME Len(s) < Len(t)  PROVE FALSE
      OBVIOUS
    <3>1. PICK e \in Nat : e = Len(s) + 1  BY <1>1
    <3>2. e \in 1..Len(t) /\ t[e] \in S  BY <1>1, <3>1
    <3>3. PICK i \in 1..Len(s) : s[i] = t[e]  BY <3>2 DEF ListsAll
    <3>4. i \in 1..Len(t) /\ t[i] = t[e] /\ i < e  BY <1>1, <1>2, <3>1, <3>3
    <3>5. <<t[i], t[e]>> \in R  BY <3>2, <3>4 DEF ListsAll
    <3> QED  BY <3>2, <3>4, <3>5 DEF Orders
  <2>2. ~ (Len(t) < Len(s))
    <3> SUFFICES ASSUME Len(t) < Len(s)  PROVE FALSE
      OBVIOUS
    <3>1. PICK e \in Nat : e = Len(t) + 1  BY <1>1
    <3>2. e \in 1..Len(s) /\ s[e] \in S  BY <1>1, <3>1
    <3>3. PICK i \in 1..Len(t) : t[i] = s[e]  BY <3>2 DEF ListsAll
    <3>4. i \in 1..Len(s) /\ s[i] = s[e] /\ i < e  BY <1>1, <1>2, <3>1, <3>3
    <3>5. <<s[i], s[e]>> \in R  BY <3>2, <3>4 DEF ListsAll
    <3> QED  BY <3>2, <3>4, <3>5 DEF Orders
  <2> QED  BY <1>1, <2>1, <2>2
<1> QED  BY <1>2, <1>3, SeqEqual DEF ListsAll

(* What a parser lists. *)
IsRow(x) ==
  /\ x.name \in Nat \X Nat /\ x.version \in Nat /\ x.line \in Nat
  /\ x = Locks!Package(x.name, x.version, x.line, x.ecosystem)

AreRows(listed, ecosystem) ==
  /\ IsFiniteSet(listed)
  /\ \A x \in listed : IsRow(x) /\ x.ecosystem = ecosystem

(* Names and versions before lines. *)
Older(x, y) ==
  \/ x.name[1] < y.name[1]
  \/ x.name[1] = y.name[1] /\ x.name[2] < y.name[2]
  \/ x.name = y.name /\ x.version < y.version

LEMMA OlderOrders ==
  ASSUME NEW x, IsRow(x), NEW y, IsRow(y), NEW z, IsRow(z)
  PROVE  /\ ~ Older(x, x)
         /\ Older(x, y) \/ Older(y, x) \/ Locks!SameVersion(x, y)
         /\ Older(x, y) => ~ Locks!SameVersion(x, y)
         /\ Older(x, y) /\ Older(y, z) => Older(x, z)
         /\ Older(x, y) /\ Locks!SameVersion(y, z) => Older(x, z)
         /\ Locks!SameVersion(x, y) /\ Older(y, z) => Older(x, z)
         /\ Locks!Before(x, y) <=> \/ Older(x, y)
                                   \/ Locks!SameVersion(x, y) /\ x.line < y.line
<1>1. \A n \in Nat \X Nat : \E i, j \in Nat : n = <<i, j>>  OBVIOUS
<1>x. PICK x1, x2 \in Nat : x.name = <<x1, x2>>  BY <1>1 DEF IsRow
<1>y. PICK y1, y2 \in Nat : y.name = <<y1, y2>>  BY <1>1 DEF IsRow
<1>z. PICK z1, z2 \in Nat : z.name = <<z1, z2>>  BY <1>1 DEF IsRow
<1>3. PICK u \in Nat, v \in Nat, w \in Nat : x.version = u /\ y.version = v /\ z.version = w
  BY DEF IsRow
<1> QED  BY <1>x, <1>y, <1>z, <1>3 DEF Older, Locks!SameVersion, Locks!Before

LEMMA RowsOrdered ==
  ASSUME NEW listed, NEW ecosystem, AreRows(listed, ecosystem)
  PROVE  ListsAll(Locks!Sorted(listed), listed, {p \in listed \X listed : Locks!Before(p[1], p[2])})
<1>1. PICK R : R = {p \in listed \X listed : Locks!Before(p[1], p[2])}  OBVIOUS
<1>2. \A x, y \in listed : <<x, y>> \in R <=> Locks!Before(x, y)  BY <1>1
<1>3. \A x \in listed : IsRow(x) /\ x.ecosystem = ecosystem /\ x.line \in Nat  BY DEF AreRows, IsRow
<1>4. \A x \in listed : ~ Locks!Before(x, x)  BY <1>3, OlderOrders
<1>5. ASSUME NEW x \in listed, NEW y \in listed, x # y
      PROVE  Locks!Before(x, y) \/ Locks!Before(y, x)
  <2>1. ~ Locks!SameVersion(x, y) \/ x.line # y.line
    <3> SUFFICES ASSUME Locks!SameVersion(x, y), x.line = y.line  PROVE FALSE
      OBVIOUS
    <3>1. x = Locks!Package(x.name, x.version, x.line, ecosystem)  BY <1>3 DEF IsRow
    <3>2. y = Locks!Package(y.name, y.version, y.line, ecosystem)  BY <1>3 DEF IsRow
    <3>3. x.name = y.name /\ x.version = y.version  BY DEF Locks!SameVersion
    <3> QED  BY <1>5, <3>1, <3>2, <3>3
  <2>2. Locks!SameVersion(x, y) <=> Locks!SameVersion(y, x)  BY DEF Locks!SameVersion
  <2>3. Older(x, y) \/ Older(y, x) \/ Locks!SameVersion(x, y)  BY <1>3, OlderOrders
  <2>4. Older(x, y) => Locks!Before(x, y)  BY <1>3, OlderOrders
  <2>5. Older(y, x) => Locks!Before(y, x)  BY <1>3, OlderOrders
  <2>6. Locks!SameVersion(x, y) /\ x.line < y.line => Locks!Before(x, y)  BY <1>3, OlderOrders
  <2>7. Locks!SameVersion(y, x) /\ y.line < x.line => Locks!Before(y, x)  BY <1>3, OlderOrders
  <2> QED  BY <1>3, <2>1, <2>2, <2>3, <2>4, <2>5, <2>6, <2>7
<1>6. ASSUME NEW x \in listed, NEW y \in listed, NEW z \in listed,
             Locks!Before(x, y), Locks!Before(y, z)
      PROVE  Locks!Before(x, z)
  <2>1. Older(x, y) \/ (Locks!SameVersion(x, y) /\ x.line < y.line)  BY <1>3, <1>6, OlderOrders
  <2>2. Older(y, z) \/ (Locks!SameVersion(y, z) /\ y.line < z.line)  BY <1>3, <1>6, OlderOrders
  <2>3. Older(x, z) \/ (Locks!SameVersion(x, z) /\ x.line < z.line)
    <3>1. CASE Older(x, y)  BY <1>3, <2>2, <3>1, OlderOrders
    <3>2. CASE Older(y, z)  BY <1>3, <2>1, <3>2, OlderOrders
    <3>3. CASE Locks!SameVersion(x, y) /\ x.line < y.line /\ Locks!SameVersion(y, z) /\ y.line < z.line
      BY <1>3, <3>3 DEF Locks!SameVersion
    <3> QED  BY <2>1, <2>2, <3>1, <3>2, <3>3
  <2> QED  BY <1>3, <2>3, OlderOrders
<1>7. Orders(R, listed)  BY <1>2, <1>4, <1>5, <1>6 DEF Orders
<1>8. ListsAll(Locks!InOrder(listed, R), listed, R)  BY <1>7, InOrderLists DEF AreRows
<1> QED  BY <1>1, <1>8 DEF Locks!Sorted

LEMMA AscendingLists ==
  ASSUME NEW I \in SUBSET Nat, IsFiniteSet(I)
  PROVE  ListsAll(Locks!Ascending(I), I, {p \in I \X I : p[1] < p[2]})
<1>1. PICK R : R = {p \in I \X I : p[1] < p[2]}  OBVIOUS
<1>2. \A x, y \in I : <<x, y>> \in R <=> x < y  BY <1>1
<1>3. Orders(R, I)  BY <1>2 DEF Orders
<1>4. ListsAll(Locks!InOrder(I, R), I, R)  BY <1>3, InOrderLists
<1> QED  BY <1>1, <1>4 DEF Locks!Ascending

(* What is kept: each name and version once, in order, with its first line. *)
IsNormal(list, listed) ==
  /\ list \in Seq(listed)
  /\ \A i, j \in 1..Len(list) : i < j => Older(list[i], list[j])
  /\ \A x \in listed : \E i \in 1..Len(list) :
       Locks!SameVersion(list[i], x) /\ list[i].line <= x.line

LEMMA Normalizes ==
  ASSUME NEW listed, NEW ecosystem, AreRows(listed, ecosystem)
  PROVE  IsNormal(Locks!Normalize(listed), listed)
<1>1. PICK all : all = Locks!Sorted(listed)  OBVIOUS
<1>2. PICK n \in Nat : n = Len(all)  BY <1>1, RowsOrdered, LenProperties DEF ListsAll
<1>3. /\ all \in Seq(listed)
      /\ \A i \in 1..n : all[i] \in listed /\ IsRow(all[i]) /\ all[i].line \in Nat
      /\ \A x \in listed : \E i \in 1..n : all[i] = x
      /\ \A i, j \in 1..n : i < j => Locks!Before(all[i], all[j])
  <2>1. PICK R : R = {p \in listed \X listed : Locks!Before(p[1], p[2])}  OBVIOUS
  <2>2. ListsAll(all, listed, R)  BY <1>1, <2>1, RowsOrdered
  <2>3. \A x, y \in listed : <<x, y>> \in R => Locks!Before(x, y)  BY <2>1
  <2>4. all \in Seq(listed) /\ \A i \in 1..n : all[i] \in listed
    BY <1>2, <2>2, ElementOfSeq DEF ListsAll
  <2>5. \A x \in listed : IsRow(x) /\ x.line \in Nat  BY DEF AreRows, IsRow
  <2>6. \A i, j \in 1..n : i < j => <<all[i], all[j]>> \in R  BY <1>2, <2>2 DEF ListsAll
  <2>7. \A x \in listed : \E i \in 1..n : all[i] = x  BY <1>2, <2>2 DEF ListsAll
  <2> QED  BY <2>3, <2>4, <2>5, <2>6, <2>7
<1>4. PICK I : I = Locks!Firsts(all)  OBVIOUS
<1>5. \A i : i \in I <=> i \in 1..n /\ (i = 1 \/ ~ Locks!SameVersion(all[i], all[i - 1]))
  BY <1>2, <1>4 DEF Locks!Firsts
<1>6. I \in SUBSET Nat /\ IsFiniteSet(I)
  <2>1. I \in SUBSET (1..n)  BY <1>5
  <2>2. IsFiniteSet(1..n)  BY FS_Interval
  <2>3. IsFiniteSet(I)  BY <2>1, <2>2, FS_Subset
  <2> QED  BY <2>1, <2>3
<1>7. PICK first : first = Locks!Ascending(I)  OBVIOUS
<1>8. PICK m \in Nat : m = Len(first)  BY <1>6, <1>7, AscendingLists, LenProperties DEF ListsAll
<1>9. /\ \A i \in 1..m : first[i] \in I
      /\ \A k \in I : \E i \in 1..m : first[i] = k
      /\ \A i, j \in 1..m : i < j => first[i] < first[j]
  <2>1. PICK R : R = {p \in I \X I : p[1] < p[2]}  OBVIOUS
  <2>2. ListsAll(first, I, R)  BY <1>6, <1>7, <2>1, AscendingLists
  <2>3. \A i \in 1..m : first[i] \in I  BY <1>8, <2>2, ElementOfSeq DEF ListsAll
  <2>4. \A k \in I : \E i \in 1..m : first[i] = k  BY <1>8, <2>2 DEF ListsAll
  <2>5. \A i, j \in 1..m : i < j => <<first[i], first[j]>> \in R  BY <1>8, <2>2 DEF ListsAll
  <2> QED  BY <2>1, <2>3, <2>4, <2>5
<1>10. PICK list : list = [i \in 1..m |-> all[first[i]]]  OBVIOUS
<1>11. list = Locks!Normalize(listed)
  BY <1>1, <1>4, <1>7, <1>8, <1>10 DEF Locks!Normalize, Locks!FirstLines
<1>12. list \in Seq(listed) /\ Len(list) = m
  <2>1. \A i \in 1..m : all[first[i]] \in listed  BY <1>3, <1>5, <1>9
  <2> QED  BY <1>10, <2>1
<1>13. ASSUME NEW i \in 1..m, NEW j \in 1..m, i < j  PROVE Older(list[i], list[j])
  <2>1. PICK a1 \in 1..n, b1 \in 1..n : a1 = first[i] /\ b1 = first[j]  BY <1>5, <1>9
  <2>2. a1 < b1 /\ b1 \in I  BY <1>9, <1>13, <2>1
  <2>3. b1 - 1 \in 1..n /\ ~ Locks!SameVersion(all[b1], all[b1 - 1]) /\ b1 - 1 < b1 /\ b1 # 1
    BY <1>5, <2>1, <2>2
  <2>4. ~ Locks!SameVersion(all[b1 - 1], all[b1])  BY <2>3 DEF Locks!SameVersion
  <2>5. Locks!Before(all[b1 - 1], all[b1])  BY <1>3, <2>1, <2>3
  <2>6. Older(all[b1 - 1], all[b1])  BY <1>3, <2>1, <2>3, <2>4, <2>5, OlderOrders
  <2>7. Older(all[a1], all[b1])
    <3>1. CASE a1 = b1 - 1  BY <2>6, <3>1
    <3>2. CASE a1 < b1 - 1
      <4>1. Locks!Before(all[a1], all[b1 - 1])  BY <1>3, <2>1, <2>3, <3>2
      <4>2. Older(all[a1], all[b1 - 1]) \/ Locks!SameVersion(all[a1], all[b1 - 1])
        BY <1>3, <2>1, <2>3, <4>1, OlderOrders
      <4> QED  BY <1>3, <2>1, <2>3, <2>6, <4>2, OlderOrders
    <3> QED  BY <2>1, <2>2, <3>1, <3>2
  <2> QED  BY <1>10, <2>1, <2>7
<1>14. ASSUME NEW x \in listed
       PROVE  \E i \in 1..m : Locks!SameVersion(list[i], x) /\ list[i].line <= x.line
  <2>1. PICK k \in 1..n : all[k] = x  BY <1>3
  <2> DEFINE same == {h \in Nat : h \in 1..n /\ Locks!SameVersion(all[h], x)}
  <2>2. k \in same  BY <2>1 DEF Locks!SameVersion
  <2>3. same \in SUBSET Nat /\ same # {}  BY <2>2
  <2>4. \A h \in same : h \in 1..n /\ Locks!SameVersion(all[h], x)  OBVIOUS
  <2>5. \A h \in 1..n : h \notin same => ~ Locks!SameVersion(all[h], x)  OBVIOUS
  <2> HIDE DEF same
  <2>6. PICK h \in same : \A g \in same : h <= g  BY <2>3, LeastNumber
  <2>7. h \in 1..n /\ Locks!SameVersion(all[h], x)  BY <2>4, <2>6
  <2>8. h \in I
    <3> SUFFICES ASSUME h # 1, Locks!SameVersion(all[h], all[h - 1])  PROVE FALSE
      BY <1>5, <2>7
    <3>1. h - 1 \in 1..n /\ h - 1 < h  BY <2>7
    <3>2. Locks!SameVersion(all[h - 1], x)  BY <2>7 DEF Locks!SameVersion
    <3>3. h - 1 \in same  BY <2>5, <3>1, <3>2
    <3>4. h <= h - 1  BY <2>6, <3>3
    <3> QED  BY <2>7, <3>4
  <2>9. PICK i \in 1..m : first[i] = h  BY <1>9, <2>8
  <2>10. all[h].line <= x.line
    <3>1. CASE h = k  BY <1>3, <2>1, <3>1
    <3>2. CASE h # k
      <4>1. h < k  BY <2>2, <2>6, <2>7, <3>2
      <4>2. Locks!Before(all[h], all[k])  BY <1>3, <2>7, <4>1
      <4>3. ~ Older(all[h], all[k])  BY <1>3, <2>1, <2>7, OlderOrders
      <4>4. all[h].line < all[k].line  BY <1>3, <2>7, <4>2, <4>3, OlderOrders
      <4> QED  BY <1>3, <2>1, <2>7, <4>4
    <3> QED  BY <3>1, <3>2
  <2> QED  BY <1>10, <2>7, <2>9, <2>10
<1> QED  BY <1>11, <1>12, <1>13, <1>14 DEF IsNormal

(* Lockfiles whose names and versions are numbers. *)
LockTree(tree) ==
  \A rel \in DOMAIN tree :
    /\ Len(tree[rel].entries) \in Nat
    /\ \A i \in 1..Len(tree[rel].entries) :
         tree[rel].entries[i].name \in Nat \X Nat /\ tree[rel].entries[i].version \in Nat

LEMMA RowsAre ==
  ASSUME NEW file, Len(file.entries) \in Nat, NEW ecosystem, NEW entries,
         \A i \in 1..Len(file.entries) :
           file.entries[i].name \in Nat \X Nat /\ file.entries[i].version \in Nat
  PROVE  AreRows(Locks!Rows(file, ecosystem, entries), ecosystem)
<1>1. PICK J : J = {i \in 1..Len(file.entries) : file.entries[i] \in entries}  OBVIOUS
<1>2. J \in SUBSET (1..Len(file.entries)) /\ IsFiniteSet(J)
  <2>1. IsFiniteSet(1..Len(file.entries))  BY FS_Interval
  <2>2. J \in SUBSET (1..Len(file.entries))  BY <1>1
  <2> QED  BY <2>1, <2>2, FS_Subset
<1>3. PICK row : row = [i \in J |->
        Locks!Package(IF ecosystem = "PyPI" THEN Locks!PypiName(file.entries[i].name)
                                            ELSE file.entries[i].name,
                      file.entries[i].version, i, ecosystem)]
  OBVIOUS
<1>4. PICK T : T = {row[i] : i \in J}  OBVIOUS
<1>5. IsFiniteSet(T)
  <2>1. row \in Surjection(J, T)  BY <1>3, <1>4 DEF Surjection
  <2> QED  BY <1>2, <2>1, FS_Surjection
<1>6. \A x \in T : IsRow(x) /\ x.ecosystem = ecosystem
  <2> SUFFICES ASSUME NEW i \in J  PROVE IsRow(row[i]) /\ row[i].ecosystem = ecosystem
    BY <1>4
  <2>1. file.entries[i].name \in Nat \X Nat /\ file.entries[i].version \in Nat /\ i \in Nat
    BY <1>2
  <2>2. Locks!PypiName(file.entries[i].name) \in Nat \X Nat  BY <2>1 DEF Locks!PypiName
  <2>3. PICK name \in Nat \X Nat, v \in Nat :
          row[i] = Locks!Package(name, v, i, ecosystem)
    BY <1>3, <2>1, <2>2
  <2> QED  BY <2>1, <2>3 DEF IsRow, Locks!Package
<1>7. Locks!Rows(file, ecosystem, entries) = {} \/ Locks!Rows(file, ecosystem, entries) = T
  BY <1>1, <1>3, <1>4 DEF Locks!Rows
<1>8. AreRows({}, ecosystem)  BY FS_EmptySet DEF AreRows
<1>9. AreRows(T, ecosystem)  BY <1>5, <1>6 DEF AreRows
<1> QED  BY <1>7, <1>8, <1>9

Rels == {Locks!CANDIDATES[i] : i \in 1..6}

LEMMA ParseRows ==
  ASSUME NEW rel \in Rels, NEW file, Len(file.entries) \in Nat,
         \A i \in 1..Len(file.entries) :
           file.entries[i].name \in Nat \X Nat /\ file.entries[i].version \in Nat
  PROVE  AreRows(Locks!Parse(rel, file), Locks!EcosystemOf(rel))
<1>1. \A ecosystem, entries : AreRows(Locks!Rows(file, ecosystem, entries), ecosystem)
  BY RowsAre
<1>2. rel \in {"package-lock.json", "yarn.lock", "pnpm-lock.yaml", "composer.lock", "poetry.lock",
               "requirements.txt"}
  BY DEF Rels, Locks!CANDIDATES
<1>3. CASE rel = "package-lock.json"
  <2>1. PICK entries : Locks!Parse(rel, file) = Locks!Rows(file, "npm", entries)
    BY <1>3 DEF Locks!Parse, Locks!ParseNpm
  <2>2. Locks!EcosystemOf(rel) = "npm"  BY <1>3 DEF Locks!EcosystemOf
  <2> QED  BY <1>1, <2>1, <2>2
<1>4. CASE rel = "yarn.lock"
  <2>1. PICK entries : Locks!Parse(rel, file) = Locks!Rows(file, "npm", entries)
    BY <1>4 DEF Locks!Parse, Locks!ParseYarn
  <2>2. Locks!EcosystemOf(rel) = "npm"  BY <1>4 DEF Locks!EcosystemOf
  <2> QED  BY <1>1, <2>1, <2>2
<1>5. CASE rel = "pnpm-lock.yaml"
  <2>1. PICK entries : Locks!Parse(rel, file) = Locks!Rows(file, "npm", entries)
    BY <1>5 DEF Locks!Parse, Locks!ParsePnpm
  <2>2. Locks!EcosystemOf(rel) = "npm"  BY <1>5 DEF Locks!EcosystemOf
  <2> QED  BY <1>1, <2>1, <2>2
<1>6. CASE rel = "composer.lock"
  <2>1. PICK entries : Locks!Parse(rel, file) = Locks!Rows(file, "Packagist", entries)
    BY <1>6 DEF Locks!Parse, Locks!ParseComposer
  <2>2. Locks!EcosystemOf(rel) = "Packagist"  BY <1>6 DEF Locks!EcosystemOf
  <2> QED  BY <1>1, <2>1, <2>2
<1>7. CASE rel = "poetry.lock"
  <2>1. PICK entries : Locks!Parse(rel, file) = Locks!Rows(file, "PyPI", entries)
    BY <1>7 DEF Locks!Parse, Locks!ParsePoetry
  <2>2. Locks!EcosystemOf(rel) = "PyPI"  BY <1>7 DEF Locks!EcosystemOf
  <2> QED  BY <1>1, <2>1, <2>2
<1>8. CASE rel = "requirements.txt"
  <2>1. PICK entries : Locks!Parse(rel, file) = Locks!Rows(file, "PyPI", entries)
    BY <1>8 DEF Locks!Parse, Locks!ParseRequirements
  <2>2. Locks!EcosystemOf(rel) = "PyPI"  BY <1>8 DEF Locks!EcosystemOf
  <2> QED  BY <1>1, <2>1, <2>2
<1> QED  BY <1>2, <1>3, <1>4, <1>5, <1>6, <1>7, <1>8

(* A lock that is read is that of a file of the tree, normal. *)
IsLock(lock, tree) ==
  \E rel \in Rels : \E packages :
    /\ rel \in DOMAIN tree
    /\ AreRows(Locks!Parse(rel, tree[rel]), Locks!EcosystemOf(rel))
    /\ IsNormal(packages, Locks!Parse(rel, tree[rel]))
    /\ lock = Locks!LockOf(rel, packages)

LEMMA ReadLocks ==
  ASSUME NEW tree, LockTree(tree), NEW lock \in Locks!ToSet(Locks!Read(tree))
  PROVE  IsLock(lock, tree)
<1>1. PICK S : S = {Locks!ReadLock(rel, tree[rel]) : rel \in {r \in Rels : r \in DOMAIN tree}}
  OBVIOUS
<1>2. PICK parts : parts = [i \in 1..Len(Locks!CANDIDATES) |->
        IF Locks!CANDIDATES[i] \in DOMAIN tree /\ tree[Locks!CANDIDATES[i]].readable
          THEN <<Locks!ReadLock(Locks!CANDIDATES[i], tree[Locks!CANDIDATES[i]])>> ELSE <<>>]
  OBVIOUS
<1>3. Len(Locks!CANDIDATES) = 6  BY DEF Locks!CANDIDATES
<1>4. ASSUME NEW i \in 1..6  PROVE parts[i] \in Seq(S)
  <2>1. PICK rel : rel = Locks!CANDIDATES[i]  OBVIOUS
  <2>2. CASE rel \in DOMAIN tree /\ tree[rel].readable
    <3>1. PICK x : x = Locks!ReadLock(rel, tree[rel])  OBVIOUS
    <3>2. x \in S  BY <1>1, <2>1, <2>2, <3>1 DEF Rels
    <3>3. parts[i] = <<x>>  BY <1>2, <1>3, <2>1, <2>2, <3>1
    <3> QED  BY <3>2, <3>3
  <2>3. CASE ~ (rel \in DOMAIN tree /\ tree[rel].readable)
    <3>1. parts[i] = <<>>  BY <1>2, <1>3, <2>1, <2>3
    <3> QED  BY <3>1
  <2> QED  BY <2>2, <2>3
<1>5. parts \in Seq(Seq(S))
  <2>1. parts = [i \in 1..6 |-> parts[i]]  BY <1>2, <1>3
  <2> QED  BY <1>4, <2>1
<1>6. Locks!FlattenSeq(parts) = FlattenSeq(parts)  BY DEF Locks!FlattenSeq, FlattenSeq
<1>7. PICK s : s = Locks!Read(tree)  OBVIOUS
<1>8. s = FlattenSeq(parts)  BY <1>2, <1>6, <1>7 DEF Locks!Read
<1>9. s \in Seq(S)  BY <1>5, <1>8, FlattenSeqTyped
<1>10. PICK i \in 1..Len(s) : lock = s[i]  BY <1>7, <1>9 DEF Locks!ToSet
<1>11. lock \in S  BY <1>9, <1>10, LenProperties, ElementOfSeq
<1>12. PICK rel \in Rels : rel \in DOMAIN tree /\ lock = Locks!ReadLock(rel, tree[rel])
  BY <1>1, <1>11
<1>13. AreRows(Locks!Parse(rel, tree[rel]), Locks!EcosystemOf(rel))
  BY <1>12, ParseRows DEF LockTree
<1>14. IsNormal(Locks!Normalize(Locks!Parse(rel, tree[rel])), Locks!Parse(rel, tree[rel]))
  BY <1>13, Normalizes
<1> QED  BY <1>12, <1>13, <1>14 DEF IsLock, Locks!ReadLock

(* The names and versions of a lock, as the positions of a snapshot know them. *)
Triples(lock) ==
  {<<lock.packages[i].name, lock.packages[i].version, Locks!EcosystemOf(lock.rel)>> :
     i \in 1..Len(lock.packages)}

Called(t) == [name |-> t[1], version |-> t[2]]
Later(S) == {p \in S \X S : Older(Called(p[1]), Called(p[2]))}

LEMMA ListedInOrder ==
  ASSUME NEW tree, NEW lock, IsLock(lock, tree)
  PROVE  /\ Orders(Later(Triples(lock)), Triples(lock))
         /\ ListsAll(Locks!Listed(lock), Triples(lock), Later(Triples(lock)))
         /\ lock.hash = <<Locks!EcosystemOf(lock.rel), {<<t[3], t[1], t[2]>> : t \in Triples(lock)}>>
<1>1. PICK rel \in Rels : \E packages :
        /\ AreRows(Locks!Parse(rel, tree[rel]), Locks!EcosystemOf(rel))
        /\ IsNormal(packages, Locks!Parse(rel, tree[rel]))
        /\ lock = Locks!LockOf(rel, packages)
  BY DEF IsLock
<1>2. PICK listed, e : listed = Locks!Parse(rel, tree[rel]) /\ e = Locks!EcosystemOf(rel)  OBVIOUS
<1>3. PICK packages : IsNormal(packages, listed) /\ lock = Locks!LockOf(rel, packages)
  BY <1>1, <1>2
<1>4. /\ lock.rel = rel /\ lock.packages = packages
      /\ lock.hash = Locks!PackageHash(e, packages)
  BY <1>2, <1>3 DEF Locks!LockOf
<1>5. PICK n \in Nat : n = Len(packages)  BY <1>3, LenProperties DEF IsNormal
<1>6. /\ packages \in Seq(listed)
      /\ \A i \in 1..n : packages[i] \in listed /\ IsRow(packages[i]) /\ packages[i].ecosystem = e
      /\ \A i, j \in 1..n : i < j => Older(packages[i], packages[j])
  <2>1. packages \in Seq(listed) /\ \A i \in 1..n : packages[i] \in listed
    BY <1>3, <1>5, ElementOfSeq DEF IsNormal
  <2>2. \A x \in listed : IsRow(x) /\ x.ecosystem = e  BY <1>1, <1>2 DEF AreRows
  <2>3. \A i, j \in 1..n : i < j => Older(packages[i], packages[j])  BY <1>3, <1>5 DEF IsNormal
  <2> QED  BY <2>1, <2>2, <2>3
<1>7. PICK list : list = [i \in 1..n |-> <<packages[i].name, packages[i].version, e>>]  OBVIOUS
<1>8. Locks!Listed(lock) = list  BY <1>2, <1>4, <1>5, <1>7 DEF Locks!Listed
<1>9. PICK S : S = Triples(lock)  OBVIOUS
<1>10. S = {list[i] : i \in 1..n}  BY <1>2, <1>4, <1>5, <1>7, <1>9 DEF Triples
<1>11. ASSUME NEW i \in 1..n, NEW j \in 1..n
       PROVE  /\ <<list[i], list[j]>> \in Later(S) <=> Older(packages[i], packages[j])
              /\ list[i] = list[j] <=> Locks!SameVersion(packages[i], packages[j])
  <2>1. list[i] = <<packages[i].name, packages[i].version, e>> /\ list[i] \in S
    BY <1>7, <1>10
  <2>2. list[j] = <<packages[j].name, packages[j].version, e>> /\ list[j] \in S
    BY <1>7, <1>10
  <2>3. Older(Called(list[i]), Called(list[j])) <=> Older(packages[i], packages[j])
    BY <2>1, <2>2 DEF Older, Called
  <2>4. <<list[i], list[j]>> \in Later(S) <=> Older(Called(list[i]), Called(list[j]))
    BY <2>1, <2>2 DEF Later
  <2>5. list[i] = list[j] <=> Locks!SameVersion(packages[i], packages[j])
    BY <2>1, <2>2 DEF Locks!SameVersion
  <2> QED  BY <2>3, <2>4, <2>5
<1>12. Orders(Later(S), S)
  <2>1. \A i \in 1..n : <<list[i], list[i]>> \notin Later(S)
    BY <1>6, <1>11, OlderOrders
  <2>2. \A i, j \in 1..n : list[i] # list[j] =>
          <<list[i], list[j]>> \in Later(S) \/ <<list[j], list[i]>> \in Later(S)
    BY <1>6, <1>11, OlderOrders
  <2>3. \A i, j, k \in 1..n : <<list[i], list[j]>> \in Later(S) /\ <<list[j], list[k]>> \in Later(S)
          => <<list[i], list[k]>> \in Later(S)
    BY <1>6, <1>11, OlderOrders
  <2> QED  BY <1>10, <2>1, <2>2, <2>3 DEF Orders
<1>13. ListsAll(list, S, Later(S))
  <2>1. list \in Seq(S) /\ Len(list) = n
    <3>1. \A i \in 1..n : list[i] \in S  BY ONLY <1>10
    <3> QED  BY ONLY <1>7, <3>1, n \in Nat
  <2>2. \A x \in S : \E i \in 1..n : list[i] = x  BY <1>10
  <2>3. \A i, j \in 1..n : i < j => <<list[i], list[j]>> \in Later(S)  BY <1>6, <1>11
  <2> QED  BY <2>1, <2>2, <2>3 DEF ListsAll
<1>14. lock.hash = <<e, {<<t[3], t[1], t[2]>> : t \in S}>>
  <2>1. DOMAIN packages = 1..n  BY <1>5, <1>6
  <2>2. PICK H : H = {<<p.ecosystem, p.name, p.version>> : p \in Locks!ToSet(packages)}  OBVIOUS
  <2>3. H = {<<packages[i].ecosystem, packages[i].name, packages[i].version>> : i \in 1..n}
    BY <2>1, <2>2 DEF Locks!ToSet
  <2>4. \A i \in 1..n : <<packages[i].ecosystem, packages[i].name, packages[i].version>>
                          = <<list[i][3], list[i][1], list[i][2]>>
    BY <1>6, <1>7
  <2>5. H = {<<t[3], t[1], t[2]>> : t \in S}  BY <1>10, <2>3, <2>4
  <2> QED  BY <1>4, <2>2, <2>5 DEF Locks!PackageHash
<1> QED  BY <1>2, <1>4, <1>8, <1>9, <1>12, <1>13, <1>14

(* One key, one list. *)
LEMMA KeysMeanLists ==
  ASSUME LockTree(input.before), LockTree(input.now)
  PROVE  Locks!KeyMeansList
<1> SUFFICES ASSUME NEW x \in Locks!ToSet(Locks!Read(input.before)),
                    NEW y \in Locks!ToSet(Locks!Read(input.now))
             PROVE  /\ x.hash = y.hash => Locks!Listed(x) = Locks!Listed(y)
                    /\ (/\ Locks!ToSet(Locks!Listed(x)) = Locks!ToSet(Locks!Listed(y))
                        /\ Locks!EcosystemOf(x.rel) = Locks!EcosystemOf(y.rel)) => x.hash = y.hash
  BY DEF Locks!KeyMeansList
<1>1. PICK S, T, p, r : /\ S = Triples(x) /\ T = Triples(y)
                        /\ p = Locks!Listed(x) /\ r = Locks!Listed(y)
  OBVIOUS
<1>2. /\ Orders(Later(S), S) /\ ListsAll(p, S, Later(S))
      /\ x.hash = <<Locks!EcosystemOf(x.rel), {<<t[3], t[1], t[2]>> : t \in S}>>
  BY <1>1, ReadLocks, ListedInOrder
<1>3. /\ Orders(Later(T), T) /\ ListsAll(r, T, Later(T))
      /\ y.hash = <<Locks!EcosystemOf(y.rel), {<<t[3], t[1], t[2]>> : t \in T}>>
  BY <1>1, ReadLocks, ListedInOrder
<1>4. /\ \A t \in S : t = <<t[1], t[2], t[3]>>
      /\ \A t \in T : t = <<t[1], t[2], t[3]>>
  BY <1>1 DEF Triples
<1>5. ASSUME x.hash = y.hash  PROVE p = r
  <2>1. {<<t[3], t[1], t[2]>> : t \in S} = {<<t[3], t[1], t[2]>> : t \in T}
    BY <1>2, <1>3, <1>5
  <2>2. ASSUME NEW v \in S  PROVE v \in T
    <3>1. <<v[3], v[1], v[2]>> \in {<<t[3], t[1], t[2]>> : t \in S}  OBVIOUS
    <3>2. <<v[3], v[1], v[2]>> \in {<<t[3], t[1], t[2]>> : t \in T}  BY <2>1, <3>1
    <3>3. PICK u \in T : <<v[3], v[1], v[2]>> = <<u[3], u[1], u[2]>>  BY <3>2
    <3>4. v[1] = u[1] /\ v[2] = u[2] /\ v[3] = u[3]  BY <3>3
    <3>5. v = <<v[1], v[2], v[3]>> /\ u = <<u[1], u[2], u[3]>>  BY <1>4
    <3> QED  BY <3>4, <3>5
  <2>3. ASSUME NEW v \in T  PROVE v \in S
    <3>1. <<v[3], v[1], v[2]>> \in {<<t[3], t[1], t[2]>> : t \in T}  OBVIOUS
    <3>2. <<v[3], v[1], v[2]>> \in {<<t[3], t[1], t[2]>> : t \in S}  BY <2>1, <3>1
    <3>3. PICK u \in S : <<v[3], v[1], v[2]>> = <<u[3], u[1], u[2]>>  BY <3>2
    <3>4. v[1] = u[1] /\ v[2] = u[2] /\ v[3] = u[3]  BY <3>3
    <3>5. v = <<v[1], v[2], v[3]>> /\ u = <<u[1], u[2], u[3]>>  BY <1>4
    <3> QED  BY <3>4, <3>5
  <2>4. S = T  BY <2>2, <2>3
  <2> QED  BY <1>2, <1>3, <2>4, ListsAgree
<1>6. ASSUME Locks!ToSet(p) = Locks!ToSet(r), Locks!EcosystemOf(x.rel) = Locks!EcosystemOf(y.rel)
      PROVE  x.hash = y.hash
  <2>1. ASSUME NEW U, NEW s, ListsAll(s, U, Later(U))  PROVE Locks!ToSet(s) = U
    <3>1. s \in Seq(U) /\ DOMAIN s = 1..Len(s)  BY <2>1 DEF ListsAll
    <3>2. \A i \in 1..Len(s) : s[i] \in U  BY <3>1, ElementOfSeq
    <3>3. \A u \in U : \E i \in 1..Len(s) : s[i] = u  BY <2>1 DEF ListsAll
    <3> QED  BY <3>1, <3>2, <3>3 DEF Locks!ToSet
  <2>2. S = T  BY <1>2, <1>3, <1>6, <2>1
  <2> QED  BY <1>2, <1>3, <1>6, <2>2
<1> QED  BY <1>1, <1>5, <1>6

(* Two versions of a package are two findings. *)
LEMMA CopiesAreApart ==
  ASSUME LockTree(input.now)
  PROVE  Locks!CopiesApart
<1> SUFFICES ASSUME NEW lock \in Locks!ToSet(Locks!Read(input.now)), NEW hits,
                    hits = Locks!Hits(lock, [p \in Locks!ToSet(lock.packages) |-> {"GHSA"}])
             PROVE  /\ \A x, y \in hits :
                         \/ x = y
                         \/ /\ Locks!Anchor(lock.rel, x) # Locks!Anchor(lock.rel, y)
                            /\ x[1].name # y[1].name \/ x[1].version # y[1].version
                    /\ \A x \in hits : \A p \in Locks!Parse(lock.rel, input.now[lock.rel]) :
                         (p.name = x[1].name /\ p.version = x[1].version) => x[1].line <= p.line
  BY DEF Locks!CopiesApart
<1>1. IsLock(lock, input.now)  BY ReadLocks
<1>2. PICK rel \in Rels : \E packages :
        /\ AreRows(Locks!Parse(rel, input.now[rel]), Locks!EcosystemOf(rel))
        /\ IsNormal(packages, Locks!Parse(rel, input.now[rel]))
        /\ lock = Locks!LockOf(rel, packages)
  BY <1>1 DEF IsLock
<1>3. PICK listed : listed = Locks!Parse(rel, input.now[rel])  OBVIOUS
<1>4. PICK packages : IsNormal(packages, listed) /\ lock = Locks!LockOf(rel, packages)
  BY <1>2, <1>3
<1>5. lock.rel = rel /\ lock.packages = packages  BY <1>4 DEF Locks!LockOf
<1>6. PICK n \in Nat : n = Len(packages)  BY <1>4, LenProperties DEF IsNormal
<1>7. /\ packages \in Seq(listed) /\ DOMAIN packages = 1..n
      /\ \A i \in 1..n : packages[i] \in listed
      /\ \A x \in listed : IsRow(x) /\ x.line \in Nat
      /\ \A i, j \in 1..n : i < j => Older(packages[i], packages[j])
      /\ \A x \in listed : \E i \in 1..n : Locks!SameVersion(packages[i], x) /\ packages[i].line <= x.line
  <2>1. packages \in Seq(listed)  BY <1>4 DEF IsNormal
  <2>2. \A i \in 1..n : packages[i] \in listed  BY <1>6, <2>1, ElementOfSeq
  <2>3. \A x \in listed : IsRow(x) /\ x.line \in Nat  BY <1>2, <1>3 DEF AreRows, IsRow
  <2>4. DOMAIN packages = 1..n  BY <1>6, <2>1
  <2> QED  BY <1>4, <1>6, <2>1, <2>2, <2>3, <2>4 DEF IsNormal
<1>8. \A i, j \in 1..n : Locks!SameVersion(packages[i], packages[j]) => i = j
  <2> SUFFICES ASSUME NEW i \in 1..n, NEW j \in 1..n,
                      Locks!SameVersion(packages[i], packages[j]), i # j
               PROVE  FALSE
    OBVIOUS
  <2>1. i < j \/ j < i  OBVIOUS
  <2>2. Older(packages[i], packages[j]) \/ Older(packages[j], packages[i])  BY <1>7, <2>1
  <2>3. Locks!SameVersion(packages[j], packages[i])  BY DEF Locks!SameVersion
  <2> QED  BY <1>7, <2>2, <2>3, OlderOrders
<1>9. \A x \in hits : \E i \in 1..n : x = <<packages[i], "GHSA">>
  <2>1. \A x \in hits : \E p \in Locks!ToSet(packages) : x = <<p, "GHSA">>
    BY <1>5 DEF Locks!Hits
  <2>2. \A p \in Locks!ToSet(packages) : \E i \in 1..n : p = packages[i]
    BY <1>7 DEF Locks!ToSet
  <2> QED  BY <2>1, <2>2
<1>10. ASSUME NEW x \in hits, NEW y \in hits, x # y
       PROVE  /\ Locks!Anchor(lock.rel, x) # Locks!Anchor(lock.rel, y)
              /\ x[1].name # y[1].name \/ x[1].version # y[1].version
  <2>1. PICK i \in 1..n : x = <<packages[i], "GHSA">>  BY <1>9
  <2>2. PICK j \in 1..n : y = <<packages[j], "GHSA">>  BY <1>9
  <2>3. ~ Locks!SameVersion(packages[i], packages[j])  BY <1>8, <1>10, <2>1, <2>2
  <2> QED  BY <2>1, <2>2, <2>3 DEF Locks!SameVersion, Locks!Anchor
<1>11. ASSUME NEW x \in hits, NEW p \in Locks!Parse(lock.rel, input.now[lock.rel]),
              p.name = x[1].name, p.version = x[1].version
       PROVE  x[1].line <= p.line
  <2>1. p \in listed  BY <1>3, <1>5
  <2>2. PICK i \in 1..n : x = <<packages[i], "GHSA">>  BY <1>9
  <2>3. PICK j \in 1..n : Locks!SameVersion(packages[j], p) /\ packages[j].line <= p.line
    BY <1>7, <2>1
  <2>4. Locks!SameVersion(packages[i], packages[j])
    BY <1>11, <2>2, <2>3 DEF Locks!SameVersion
  <2>5. i = j  BY <1>8, <2>4
  <2> QED  BY <2>2, <2>3, <2>5
<1> QED  BY <1>10, <1>11

LEMMA EntriesTyped ==
  ASSUME NEW n \in Nat, NEW k \in Nat, NEW v \in Nat, NEW w
  PROVE  LET e == Locks!Entry(n, k, v, w) IN e.name \in Nat \X Nat /\ e.version \in Nat
BY DEF Locks!Entry

IsFile(file) ==
  /\ Len(file.entries) \in Nat
  /\ \A i \in 1..Len(file.entries) :
       file.entries[i].name \in Nat \X Nat /\ file.entries[i].version \in Nat

LEMMA FilesTyped ==
  ASSUME NEW E, \A e \in E : e.name \in Nat \X Nat /\ e.version \in Nat, NEW s \in Seq(E)
  PROVE  IsFile(Locks!File(s))
<1>1. Len(s) \in Nat /\ \A i \in 1..Len(s) : s[i] \in E  BY LenProperties, ElementOfSeq
<1>2. Locks!File(s).entries = s  BY DEF Locks!File
<1> QED  BY <1>1, <1>2 DEF IsFile

EntriesIn(w) == {Locks!Entry(n, k, v, w) : n, k, v \in Nat}

LEMMA ListsTyped ==
  ASSUME NEW w, NEW s \in Locks!Lists(w)
  PROVE  IsFile(Locks!File(s))
<1>1. \A e \in EntriesIn(w) : e.name \in Nat \X Nat /\ e.version \in Nat
  BY EntriesTyped DEF EntriesIn
<1>2. \A n, k, v \in Nat : Locks!Entry(n, k, v, w) \in EntriesIn(w)  BY DEF EntriesIn
<1>3. Locks!Named(w) \subseteq EntriesIn(w)  BY <1>2 DEF Locks!Named
<1>4. Locks!Spelled(w) \subseteq EntriesIn(w)  BY <1>2 DEF Locks!Spelled
<1>5. \/ s = <<>>
      \/ \E x, y \in Locks!Named(w) : s = <<x, y>>
      \/ \E x, y, z \in Locks!Spelled(w) : s = <<x, y, z>>
  BY DEF Locks!Lists, Locks!Pairs
<1>6. s \in Seq(EntriesIn(w))
  <2>1. CASE s = <<>>  BY <2>1
  <2>2. CASE \E x, y \in Locks!Named(w) : s = <<x, y>>
    <3>1. PICK x, y \in EntriesIn(w) : s = <<x, y>>  BY <1>3, <2>2
    <3> QED  BY <3>1
  <2>3. CASE \E x, y, z \in Locks!Spelled(w) : s = <<x, y, z>>
    <3>1. PICK x, y, z \in EntriesIn(w) : s = <<x, y, z>>  BY <1>4, <2>3
    <3> QED  BY <3>1
  <2> QED  BY <1>5, <2>1, <2>2, <2>3
<1> QED  BY <1>1, <1>6, FilesTyped

LEMMA TreesTyped ==
  ASSUME Locks!LocksInit
  PROVE  LockTree(input.before) /\ LockTree(input.now)
<1>1. PICK before \in Locks!Earlier, now \in Locks!Trees : input = [before |-> before, now |-> now]
  BY DEF Locks!LocksInit
<1>2. PICK E : E = {Locks!OnBranch, Locks!Entry(2, 0, 1, "packages-dev"),
                    Locks!Entry(1, 0, 1, "header"), Locks!Entry(2, 1, 1, "table")}
  OBVIOUS
<1>3. \A e \in E : e.name \in Nat \X Nat /\ e.version \in Nat
  BY <1>2 DEF Locks!Entry, Locks!OnBranch
<1>4. IsFile(Locks!File(<<Locks!Entry(2, 1, 1, "table")>>))
  <2>1. PICK e : e = Locks!Entry(2, 1, 1, "table")  OBVIOUS
  <2>2. <<e>> \in Seq(E)  BY <1>2, <2>1
  <2> QED  BY <1>3, <2>1, <2>2, FilesTyped
<1>5. ASSUME NEW r \in BOOLEAN
      PROVE  IsFile([Locks!File(<<Locks!Entry(1, 0, 1, "header")>>) EXCEPT !.readable = r])
  <2>1. PICK e : e = Locks!Entry(1, 0, 1, "header")  OBVIOUS
  <2>2. <<e>> \in Seq(E)  BY <1>2, <2>1
  <2>3. PICK file : file = Locks!File(<<e>>)  OBVIOUS
  <2>4. IsFile(file)  BY <1>3, <2>2, <2>3, FilesTyped
  <2>5. [file EXCEPT !.readable = r].entries = file.entries  BY <2>3 DEF Locks!File
  <2> QED  BY <2>1, <2>3, <2>4, <2>5 DEF IsFile
<1>6. ASSUME NEW p \in BOOLEAN
      PROVE  IsFile([Locks!File(<<Locks!OnBranch, Locks!Entry(2, 0, 1, "packages-dev")>>)
                       EXCEPT !.parses = p])
  <2>1. PICK d, e : d = Locks!OnBranch /\ e = Locks!Entry(2, 0, 1, "packages-dev")  OBVIOUS
  <2>2. <<d, e>> \in Seq(E)  BY <1>2, <2>1
  <2>3. PICK file : file = Locks!File(<<d, e>>)  OBVIOUS
  <2>4. IsFile(file)  BY <1>3, <2>2, <2>3, FilesTyped
  <2>5. [file EXCEPT !.parses = p].entries = file.entries  BY <2>3 DEF Locks!File
  <2> QED  BY <2>1, <2>3, <2>4, <2>5 DEF IsFile
<1>7. ASSUME NEW rel, NEW file, IsFile(file)  PROVE LockTree(Locks!Alone(rel, file))
  BY <1>7 DEF LockTree, IsFile, Locks!Alone
<1>8. ASSUME NEW rel, NEW file, NEW other, NEW beside, IsFile(file), IsFile(beside)
      PROVE  LockTree(Locks!Both(rel, file, other, beside))
  BY <1>8 DEF LockTree, IsFile, Locks!Both
<1>9. LockTree(before)
  <2>1. \/ \E x \in Locks!Pairs("node_modules") :
             before = Locks!Alone("package-lock.json", Locks!File(x))
        \/ before = Locks!Alone("poetry.lock", Locks!File(<<Locks!Entry(2, 1, 1, "table")>>))
    BY <1>1 DEF Locks!Earlier
  <2>2. Locks!Pairs("node_modules") \subseteq Locks!Lists("node_modules")  BY DEF Locks!Lists
  <2> QED  BY <1>4, <1>7, <2>1, <2>2, ListsTyped
<1>10. LockTree(now)
  <2>1. \/ \E x \in Locks!Lists("node_modules") :
             now = Locks!Alone("package-lock.json", Locks!File(x))
        \/ \E x \in Locks!Lists("pin") : \E p \in BOOLEAN :
             now = Locks!Both("requirements.txt", Locks!File(x), "composer.lock",
                     [Locks!File(<<Locks!OnBranch, Locks!Entry(2, 0, 1, "packages-dev")>>)
                        EXCEPT !.parses = p])
        \/ \E x \in Locks!Lists("packages") : \E r \in BOOLEAN :
             now = Locks!Both("pnpm-lock.yaml", Locks!File(x), "yarn.lock",
                     [Locks!File(<<Locks!Entry(1, 0, 1, "header")>>) EXCEPT !.readable = r])
    BY <1>1 DEF Locks!Trees
  <2> QED  BY <1>5, <1>6, <1>7, <1>8, <2>1, ListsTyped
<1> QED  BY <1>1, <1>9, <1>10

(* For the lockfiles of any two runs, the key of a snapshot is the list its *)
(* positions are zipped with, and two versions of a package are two         *)
(* findings (lockfile.rs, vulnerable_dependency.rs).                        *)
THEOREM LocksHold ==
  ASSUME LockTree(input.before), LockTree(input.now)
  PROVE  Locks!LocksSafe
BY KeysMeanLists, CopiesAreApart DEF Locks!LocksSafe

AdviceInv ==
  /\ part = "versions" => MatchOf(Written)
  /\ part = "locks" => LockTree(input.before) /\ LockTree(input.now)

(* Among them those the run of Answers starts from. *)
THEOREM AdviceIsGrounded == AnswersSpec => []AdviceGrounded
<1>1. AnswersInit => AdviceInv
  BY MatchesTyped, TreesTyped DEF AnswersInit, InputInit, AdviceInv
<1>2. AdviceInv /\ [RulesStep \/ ServerStep]_answersVars => AdviceInv'
  <2> SUFFICES ASSUME AdviceInv, [RulesStep \/ ServerStep]_answersVars  PROVE AdviceInv'
    OBVIOUS
  <2>1. part' = part /\ input' = input
    BY DEF RulesStep, ServerStep, answersVars, inputs
  <2>2. MatchOf(Written) => MatchOf(Written)'
    BY <2>1 DEF MatchOf, Versions!Ranges
  <2>3. LockTree(input.before) /\ LockTree(input.now) => (LockTree(input.before) /\ LockTree(input.now))'
    BY <2>1 DEF LockTree
  <2> QED  BY <2>1, <2>2, <2>3 DEF AdviceInv
<1>3. AdviceInv => AdviceGrounded
  BY AdviceOrders, LocksHold DEF AdviceInv, AdviceGrounded
<1> QED  BY <1>1, <1>2, <1>3, PTL DEF AnswersSpec
=============================================================================
