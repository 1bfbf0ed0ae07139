---------------------------- MODULE ImportGraph ----------------------------
(***************************************************************************)
(* From import statements to the graph rules: what a statement takes       *)
(* (core/src/imports.rs, indexer.rs), what a specifier names (resolve.rs,  *)
(* project.rs), what a file exports (symbols.rs), which files nobody has   *)
(* to import (entry.rs), and the rules that ask the graph: dead-file,      *)
(* dead-export and boundary-violation.                                     *)
(*                                                                         *)
(* Abstractions.  A path is its segments and the extensions of the last    *)
(* one, no directory has a dot in its name, and what follows the star of a *)
(* tsconfig pattern is left out.  A text is its statements; a text with a  *)
(* syntax error also has what is left of them in the recovered tree, the   *)
(* marks that open and close strings and comments, which of those are      *)
(* stray (they stand in a regular expression, a JSX text or the ${} of a   *)
(* template), and the mark `at` which the specifier of a statement opens.  *)
(* Escapes are left out, and the word before a specifier is next to it.    *)
(* Globs are the sets of paths they match.                                 *)
(***************************************************************************)
EXTENDS Naturals, SequencesExt

VARIABLE world   \* the repository a run looks at: files, texts, project files

Path(at, ext) == [at |-> at, ext |-> ext]
NoPath == Path(<<>>, <<"none">>)

Start(s, n) == SubSeq(s, 1, n)
After(s, n) == SubSeq(s, n + 1, Len(s))
Within(s, t) == Len(s) <= Len(t) /\ Start(t, Len(s)) = s
Dir(file) == Front(file.at)

(* `..` above the root fails the whole path. *)
Normalized(segs) ==
  FoldLeft(LAMBDA acc, seg :
             IF ~acc.ok \/ seg = "." THEN acc
             ELSE IF seg # ".." THEN [acc EXCEPT !.at = Append(@, seg)]
             ELSE IF acc.at = <<>> THEN [acc EXCEPT !.ok = FALSE]
             ELSE [acc EXCEPT !.at = Front(@)],
           [ok |-> TRUE, at |-> <<>>], segs)

-----------------------------------------------------------------------------
(* Probing one path. *)

SOURCE_EXTS == <<"ts", "tsx", "js", "jsx", "mts", "cts", "mjs", "cjs">>

OUTPUT_TO_SOURCE ==
  [js |-> <<"ts", "tsx">>, jsx |-> <<"tsx">>, mjs |-> <<"mts">>, cjs |-> <<"cts">>]

IsDeclaration(p) ==
  Len(p.ext) > 1 /\ Last(Front(p.ext)) = "d" /\ Last(p.ext) \in {"ts", "mts", "cts"}

SourceExts(ext) ==
  IF ext # <<>> /\ Last(ext) \in DOMAIN OUTPUT_TO_SOURCE THEN OUTPUT_TO_SOURCE[Last(ext)]
  ELSE <<>>

Sources(p) ==
  [i \in 1..Len(SourceExts(p.ext)) |-> Path(p.at, Append(Front(p.ext), SourceExts(p.ext)[i]))]

Extended(p) == [i \in 1..Len(SOURCE_EXTS) |-> Path(p.at, Append(p.ext, SOURCE_EXTS[i]))]
Indexes(p) ==
  [i \in 1..Len(SOURCE_EXTS) |-> Path(Append(p.at, "index"), <<SOURCE_EXTS[i]>>)]

(* The root has no name to extend, and "/index.ts" is not a repo path. *)
Candidates(p) ==
  <<p>> \o Sources(p) \o (IF p.at = <<>> THEN <<>> ELSE Extended(p))
        \o (IF p.at = <<>> \/ p.ext # <<>> THEN <<>> ELSE Indexes(p))

Resolved(f) == [kind |-> "resolved", file |-> f]
External == [kind |-> "external", file |-> NoPath]
Unresolved == [kind |-> "unresolved", file |-> NoPath]

(* Two faulty forms: a declaration counts as a hit, and what is on disk but *)
(* not indexed is called missing.                                          *)
HitAny(w, cands) == {i \in 1..Len(cands) : cands[i] \in w.indexed \cup w.others}
ExistsNever(w, p) == FALSE

OnDisk(w) == w.indexed \cup w.others

IndexedHit(w, cands) ==
  {i \in 1..Len(cands) : ~IsDeclaration(cands[i]) /\ cands[i] \in w.indexed}

HasPackage(w, p) == p.ext = <<>> /\ p.at \in DOMAIN w.packages

Exists(w, p) ==
  \/ ToSet(Candidates(p)) \cap OnDisk(w) # {}
  \/ HasPackage(w, p)
  \/ p.ext = <<>> /\ Path(Append(p.at, "index"), <<"d", "ts">>) \in OnDisk(w)
  \/ Path(p.at, p.ext \o <<"d", "ts">>) \in OnDisk(w)

FirstHit(w, cands, otherwise) ==
  LET hits == IndexedHit(w, cands)
  IN IF hits # {} THEN Resolved(cands[Min(hits)]) ELSE otherwise

HasMain(w, p) == HasPackage(w, p) /\ w.packages[p.at].main # <<>>

(* A directory's package file states its own entry, once: a `main` in the   *)
(* repository decides.                                                      *)
ProbeMain(w, p, target) ==
  IF target.ok THEN FirstHit(w, Candidates(Path(target.at, <<>>)), External)
  ELSE IF Exists(w, p) THEN External ELSE Unresolved

Probe(w, p) ==
  FirstHit(w, Candidates(p),
           IF HasMain(w, p) THEN ProbeMain(w, p, Normalized(p.at \o w.packages[p.at].main))
           ELSE IF Exists(w, p) THEN External ELSE Unresolved)

ProbeNormal(w, norm, ext) == IF norm.ok THEN Probe(w, Path(norm.at, ext)) ELSE Unresolved

ProbeAt(w, segs, ext) == ProbeNormal(w, Normalized(segs), ext)

-----------------------------------------------------------------------------
(* Project files. *)

NoConfig == [loaded |-> FALSE, base |-> <<>>, based |-> FALSE, dir |-> <<>>, paths |-> {}]

(* A file's own options over those it extends. *)
Merged(file, from, norm) ==
  LET base == IF norm.ok THEN norm.at ELSE <<>>
      mid == IF file.based THEN [from EXCEPT !.based = TRUE, !.base = base] ELSE from
  IN IF file.mapped THEN [mid EXCEPT !.loaded = TRUE, !.dir = file.dir, !.paths = file.paths]
     ELSE [mid EXCEPT !.loaded = TRUE]

(* load_file follows extends, at most five deep, and a file that is missing *)
(* or does not parse contributes nothing.                                  *)
TsConfig(w) ==
  LET load[left \in 0..6] ==
        [c \in DOMAIN w.configs |->
           IF left = 0 \/ ~w.configs[c].parses THEN NoConfig
           ELSE Merged(w.configs[c],
                       IF w.configs[c].extends \in DOMAIN w.configs
                         THEN load[left - 1][w.configs[c].extends] ELSE NoConfig,
                       Normalized(w.configs[c].dir \o w.configs[c].base))]
  IN IF "tsconfig" \in DOMAIN w.configs THEN load[6]["tsconfig"] ELSE NoConfig

PathsBase(config) == IF config.based THEN config.base ELSE config.dir

(* workspace_packages: a plain directory, or every child of one. *)
WorkspaceDirs(w) ==
  {dir \in DOMAIN w.packages :
     /\ w.packages[dir].name # <<>>
     /\ \E pattern \in w.workspaces :
          IF pattern.children THEN dir # <<>> /\ Front(dir) = pattern.dir ELSE dir = pattern.dir}

StripExt(p) == IF p.ext = <<>> THEN p ELSE [p EXCEPT !.ext = Front(@)]

(* entry_files of the root package and of the workspaces, app.json and      *)
(* wrangler.toml: what is named, without its extension.                    *)
EntryFiles(w) ==
  UNION {{StripExt(Path(Normalized(dir \o e.segs).at, e.ext)) :
            e \in {x \in w.packages[dir].names : Normalized(dir \o x.segs).ok}} :
          dir \in ({<<>>} \cap DOMAIN w.packages) \cup WorkspaceDirs(w)}
    \cup {StripExt(p) : p \in w.plugins}

IsEntry(w, f) == f \in w.conventional \/ StripExt(f) \in EntryFiles(w)

-----------------------------------------------------------------------------
(* Resolver::resolve. *)

Matches(pattern, spec) ==
  IF pattern.star THEN Within(pattern.pre, spec.segs) /\ Len(spec.segs) > Len(pattern.pre)
  ELSE pattern.pre = spec.segs

(* The text the star stood for takes the place of the target's star. *)
Filled(target, rest) ==
  FlattenSeq([i \in 1..Len(target) |-> IF target[i] = "*" THEN rest ELSE <<target[i]>>])

Target(config, spec, x, i) ==
  PathsBase(config) \o Filled(x.targets[i], After(spec.segs, Len(x.pre)))

(* What probing the targets of the matching patterns says; those outside   *)
(* the root are passed.                                                    *)
Tries(w, config, spec) ==
  UNION {{[rank |-> Len(x.pre), nth |-> i,
           said |-> ProbeAt(w, Target(config, spec, x, i), spec.ext)] :
            i \in {j \in 1..Len(x.targets) : Normalized(Target(config, spec, x, j)).ok}} :
          x \in {y \in config.paths : Matches(y, spec)}}

(* A fault: patterns are tried in an order of their own. *)
BeforeByShortest(t, u) == t.rank < u.rank \/ (t.rank = u.rank /\ t.nth <= u.nth)

(* The longest prefix first, and a pattern's targets as they are written.   *)
(* Two patterns that match one specifier have prefixes of two lengths.      *)
Before(t, u) == t.rank > u.rank \/ (t.rank = u.rank /\ t.nth <= u.nth)

(* The first target that is indexed, or how the best of them fared. *)
Aliased(tries) ==
  LET hits == {t \in tries : t.said.kind = "resolved"}
  IN IF hits # {} THEN (CHOOSE t \in hits : \A u \in hits : Before(t, u)).said
     ELSE IF \E t \in tries : t.said = External THEN External ELSE Unresolved

Owners(w, spec) == {dir \in WorkspaceDirs(w) : Within(w.packages[dir].name, spec.segs)}

(* Names that are prefixes of one specifier sort by their length. *)
FirstOwner(w, owners) ==
  CHOOSE dir \in owners :
    \A other \in owners : Len(w.packages[dir].name) <= Len(w.packages[other].name)

(* A package is its main, and what stands behind its name is inside it. *)
InPackage(w, dir, spec) ==
  LET package == w.packages[dir]
      sub == After(spec.segs, Len(package.name))
      main == IF package.main = <<>> THEN <<"index">> ELSE package.main
  IN ProbeAt(w, dir \o (IF sub # <<>> THEN sub ELSE main), IF sub # <<>> THEN spec.ext ELSE <<>>)

Bare(w, spec, tries, owners) ==
  IF tries # {} THEN Aliased(tries)
  ELSE IF owners # {} THEN InPackage(w, FirstOwner(w, owners), spec) ELSE External

Resolve(w, from, spec) ==
  CASE spec.form = "relative" -> ProbeAt(w, Dir(from) \o spec.segs, spec.ext)
    [] spec.form = "absolute" -> Unresolved
    [] spec.form = "bare" ->
         Bare(w, spec, Tries(w, TsConfig(w), spec), Owners(w, spec))

-----------------------------------------------------------------------------
(* Statements and edges. *)

(* What a statement takes: names, "*" for the whole module. *)
Taken(s) == IF s.form \in {"dynamic", "require"} THEN {"*"} ELSE s.names

(* A computed specifier is skipped, never guessed. *)
Import(s) == [spec |-> s.spec, names |-> Taken(s), line |-> s.line]
Extract(statements) == {Import(s) : s \in {x \in statements : x.literal}}

(* A fault: a string runs on over the end of its line. *)
ClosersOfStrings ==
  [single |-> {"single"}, double |-> {"double"}, slashes |-> {"newline"},
   tick |-> {"tick"}, open |-> {"close"}]

(* What ends a string, a template and the two kinds of comment. *)
Closers ==
  [single |-> {"single", "newline"}, double |-> {"double", "newline"},
   slashes |-> {"newline"}, tick |-> {"tick"}, open |-> {"close"}]

Step(mode, mark) ==
  IF mode = "code" THEN IF mark \in DOMAIN Closers THEN mark ELSE "code"
  ELSE IF mark \in Closers[mode] THEN "code" ELSE mode

Behind(mode, t, i, passed) == IF i \in passed THEN mode ELSE Step(mode, t.marks[i])

(* tokenize: what the scan is in behind each mark, when it passes some.     *)
Scan(t, passed) ==
  LET mode[i \in 0..Len(t.marks)] ==
        IF i = 0 THEN "code" ELSE Behind(mode[i - 1], t, i, passed)
  IN mode

(* extract_text_fallback takes a stray mark for what it looks like, and the *)
(* first import of a specifier whole.                                      *)
Seen(t) == {s \in t.imports : s.literal /\ Scan(t, {})[s.at - 1] = "code"}

TextFallback(t) ==
  {[Import(s) EXCEPT !.names = {"*"}] :
     s \in {x \in Seen(t) : \A y \in Seen(t) : y.spec = x.spec => x.at <= y.at}}

(* A fault: a broken file has the imports of its recovered tree. *)
TreeOnly(t) == Extract(IF t.broken THEN t.kept ELSE t.imports)

FileImports(t) ==
  IF ~t.broken THEN Extract(t.imports)
  ELSE {[i EXCEPT !.names = @ \cup {"*"}] : i \in Extract(t.kept)}
         \cup {i \in TextFallback(t) : \A k \in Extract(t.kept) : k.spec # i.spec}

Links(w) ==
  UNION {{[from |-> f, import |-> i, to |-> Resolve(w, f, i.spec)] : i \in FileImports(w.texts[f])} :
          f \in w.indexed}

(* One edge for each name; an import for its effects has none. *)
Edges(w) ==
  UNION {{[from |-> l.from, to |-> l.to.file, name |-> n, line |-> l.import.line] :
            n \in IF l.import.names = {} THEN {""} ELSE l.import.names} :
          l \in {x \in Links(w) : x.to.kind = "resolved"}}

(* The name other files import a declaration by; "" for none. *)
ExportName(x) ==
  CASE x.form = "named" -> x.name
    [] x.form = "default" -> "default"
    [] x.form \in {"clause", "star as"} -> x.alias
    [] x.form \in {"star", "plain"} -> ""

Exported(t) == {ExportName(x) : x \in t.exports} \ {""}

-----------------------------------------------------------------------------
(* The graph rules.  run_rules drops what they find in a broken file. *)

Clean(w) == {f \in w.indexed : ~w.texts[f].broken}

ImportedNames(edges, f) == {e.name : e \in {x \in edges : x.to = f}}

DeadFiles(w, edges) == {f \in Clean(w) : ImportedNames(edges, f) = {} /\ ~IsEntry(w, f)}

DeadExports(w, edges) ==
  UNION {{<<f, n>> : n \in Exported(w.texts[f]) \ ImportedNames(edges, f)} :
          f \in {g \in Clean(w) : /\ ~IsEntry(w, g)
                                  /\ ImportedNames(edges, g) # {}
                                  /\ "*" \notin ImportedNames(edges, g)}}

Violated(b, from, to) ==
  /\ from \in b.from
  /\ IF b.forbid # {} THEN to \in b.forbid ELSE to \notin b.allow /\ to \notin b.from

(* A fault: one finding for each name on the line. *)
FoundKeyEach(e, b) == [from |-> e.from, line |-> e.line, label |-> b.label, name |-> e.name]

FoundKey(e, b) == [from |-> e.from, line |-> e.line, label |-> b.label]

BoundaryFindings(w, edges) ==
  UNION {{FoundKey(e, b) : e \in {x \in edges : x.from \in Clean(w) /\ Violated(b, x.from, x.to)}} :
          b \in w.boundaries}

-----------------------------------------------------------------------------
(* Every file of w that TypeScript, or the package files it reads, could   *)
(* mean by path p: said once more, without an order.                       *)
Meant(w, p) ==
  LET exts == ToSet(SOURCE_EXTS)
      indexes == IF p.ext = <<>> THEN {<<"d", "ts">>} \cup {<<x>> : x \in exts} ELSE {}
  IN OnDisk(w) \cap
       ({p, Path(p.at, p.ext \o <<"d", "ts">>)}
          \cup {Path(p.at, Append(p.ext, x)) : x \in exts}
          \cup {Path(p.at, Append(Front(p.ext), x)) : x \in ToSet(SourceExts(p.ext))}
          \cup {Path(Append(p.at, "index"), e) : e \in indexes})

Specifiers(w) == UNION {{s.spec : s \in w.texts[f].imports} : f \in w.indexed}

Honest(w, spec, norm, r) ==
  LET p == Path(norm.at, spec.ext)
  IN /\ r.kind = "resolved" => r.file \in w.indexed /\ ~IsDeclaration(r.file)
     /\ (spec.form = "relative" /\ norm.ok /\ p.at # <<>>) =>
          /\ r.kind = "unresolved" => Meant(w, p) = {} /\ ~HasPackage(w, p)
          /\ (\E f \in Meant(w, p) \cap w.indexed : ~IsDeclaration(f)) => r.kind = "resolved"

(* resolve.rs: "Never guesses".  What it resolves is an indexed module that *)
(* is not a declaration, of a relative path it says unresolved only when    *)
(* nothing on disk could be meant, and it resolves whenever an indexed      *)
(* module is what could be meant.                                           *)
NeverGuesses ==
  \A from \in world.indexed : \A spec \in Specifiers(world) :
    Honest(world, spec, Normalized(Dir(from) \o spec.segs), Resolve(world, from, spec))

(* resolve.rs: an ambiguous specifier goes to the longest prefix: when its  *)
(* first target is indexed, no other pattern decides.                       *)
LongestWins ==
  \A spec \in Specifiers(world) : \A x \in TsConfig(world).paths :
    LET config == TsConfig(world)
        first == ProbeAt(world, Target(config, spec, x, 1), spec.ext)
    IN (/\ spec.form = "bare" /\ Matches(x, spec) /\ x.targets # <<>>
        /\ \A y \in config.paths : Matches(y, spec) => Len(y.pre) <= Len(x.pre)
        /\ first.kind = "resolved")
         => \A from \in world.indexed : Resolve(world, from, spec) = first

(* The statement itself, in the text and not in the tree, takes name n of f. *)
Takes(w, g, s, f, n) ==
  s.literal /\ Resolve(w, g, s.spec) = Resolved(f) /\ (n \in Taken(s) \/ "*" \in Taken(s))

(* A stray quote, or the two slashes of an address, before a statement      *)
(* costs its own line and no more when no template and no comment of        *)
(* several lines begins behind it on that line.                             *)
CostsItsLine(t, i, at) ==
  /\ t.marks[i] \in {"single", "double", "slashes"}
  /\ \E j \in (i + 1)..(at - 1) :
       /\ t.marks[j] = "newline"
       /\ \A k \in (i + 1)..j : t.marks[k] \notin {"tick", "open"}

(* The statement is code, and what is stray before it is on other lines.    *)
Legible(t, s) ==
  /\ Scan(t, t.stray)[s.at - 1] = "code"
  /\ \A i \in t.stray : i < s.at => CostsItsLine(t, i, s.at)

Heard(t) ==
  {s \in t.imports :
     ~t.broken \/ (\E k \in t.kept : k.literal /\ k.spec = s.spec) \/ Legible(t, s)}

(* indexer.rs: "a broken file must never make another file look dead".  An  *)
(* export or a file is reported only when nothing a text says takes it:     *)
(* any statement of a text that parses, and of a broken one those the tree  *)
(* kept and those that imports.rs says the scan finds, where a stray quote  *)
(* "costs at most the specifiers on that one line".  What the scan loses    *)
(* otherwise (README) can make a file look dead.                            *)
DeadIsDead ==
  /\ \A d \in DeadExports(world, Edges(world)) :
       \A g \in world.indexed : \A s \in Heard(world.texts[g]) :
         ~Takes(world, g, s, d[1], d[2])
  /\ \A f \in DeadFiles(world, Edges(world)) :
       \A g \in world.indexed : \A s \in Heard(world.texts[g]) :
         s.literal => Resolve(world, g, s.spec) # Resolved(f)

(* boundary.rs: one finding for an import line and a boundary, however      *)
(* many names the line takes.                                               *)
OnePerLine ==
  \A x, y \in BoundaryFindings(world, Edges(world)) :
    (x.from = y.from /\ x.line = y.line /\ x.label = y.label) => x = y

GraphSafe == NeverGuesses /\ LongestWins /\ DeadIsDead /\ OnePerLine
=============================================================================
