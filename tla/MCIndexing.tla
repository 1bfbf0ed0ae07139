---------------------------- MODULE MCIndexing ----------------------------
(* Small instances of Indexing for TLC. *)
EXTENDS Indexing, TLC

CONSTANTS a, b, c        \* paths
CONSTANTS plain, uses, more  \* texts
CONSTANTS toB, toC       \* specifiers
CONSTANTS all, some      \* configs
CONSTANTS x, y           \* rules

NoImports == [t \in Texts |-> {}]

(* `uses` imports one file; `plain` and `more` import nothing. *)
OneImport == [t \in Texts |-> IF t = uses THEN {toB} ELSE {}]

(* One path a specifier can name: a file and no index file, no .js twin. *)
NamesB == [s \in Specs |-> <<b>>]

(* Two: b is probed before c, as `utils.ts` before `utils/index.ts`. *)
NamesBorC == [s \in Specs |-> <<b, c>>]

EveryRule == [k \in Configs |-> Rules]

(* One config turns a rule off, *)
SomeRules == [k \in Configs |-> IF k = some THEN {x} ELSE Rules]

NoExcludes == [k \in Configs |-> {}]

(* and keeps a out of the repository. *)
SomeExcludesA == [k \in Configs |-> IF k = some THEN {a} ELSE {}]

RunSymmetry == Permutations(Runs)
=============================================================================
