------------------------------ MODULE Lockfiles -----------------------------
(***************************************************************************)
(* Which package versions an install puts on disk (core/src/lockfile.rs),  *)
(* the key a snapshot of advisories about them is kept under, and the      *)
(* identity of a finding about one (rules/src/vulnerable_dependency.rs).   *)
(*                                                                         *)
(* Abstractions.  A lockfile is its entries in order, entry i on line i:   *)
(* what the parsers tell apart of them.  A name is <<which, spelling>>,    *)
(* spelling 0 being the registry's own for PyPI; 0 is a name or version    *)
(* that is missing or empty.  Numbers sort as the strings do.              *)
(***************************************************************************)
EXTENDS Naturals, FiniteSets, SequencesExt

VARIABLE locks   \* the lockfiles of two runs: what was there then, and now

Package(name, version, line, ecosystem) ==
  [name |-> name, version |-> version, line |-> line, ecosystem |-> ecosystem]

PypiName(name) == <<name[1], 0>>

(* One row for each of the entries; none of a broken file. *)
Rows(file, ecosystem, entries) ==
  IF ~file.parses THEN {}
  ELSE {LET e == file.entries[i]
        IN Package(IF ecosystem = "PyPI" THEN PypiName(e.name) ELSE e.name, e.version, i, ecosystem) :
          i \in {j \in 1..Len(file.entries) : file.entries[j] \in entries}}

Whole(file) == {e \in ToSet(file.entries) : e.name[1] # 0 /\ e.version # 0}

(* The repository itself and workspace directories are no installs, and a   *)
(* link is listed where it leads.                                           *)
ParseNpm(file) ==
  Rows(file, "npm", {e \in Whole(file) : e.within = "node_modules" /\ ~e.link})

(* A header names ranges, the block under it says the version. *)
ParseYarn(file) == Rows(file, "npm", {e \in Whole(file) : e.within = "header"})

(* Only the packages section: others repeat its keys. *)
ParsePnpm(file) == Rows(file, "npm", {e \in Whole(file) : e.within = "packages"})

(* Both sections are installed; a branch is not a release. *)
ParseComposer(file) ==
  Rows(file, "Packagist",
       {e \in Whole(file) : e.within \in {"packages", "packages-dev"} /\ ~e.branch})

(* The table's own keys, not those of its sub-tables. *)
ParsePoetry(file) == Rows(file, "PyPI", {e \in Whole(file) : e.within = "table"})

(* One exact version, whatever marker, extra or comment goes with it. *)
ParseRequirements(file) == Rows(file, "PyPI", {e \in Whole(file) : e.within = "pin"})

CANDIDATES ==
  <<"package-lock.json", "yarn.lock", "pnpm-lock.yaml", "composer.lock", "poetry.lock",
    "requirements.txt">>

Parse(rel, file) ==
  CASE rel = "package-lock.json" -> ParseNpm(file)
    [] rel = "yarn.lock" -> ParseYarn(file)
    [] rel = "pnpm-lock.yaml" -> ParsePnpm(file)
    [] rel = "composer.lock" -> ParseComposer(file)
    [] rel = "poetry.lock" -> ParsePoetry(file)
    [] rel = "requirements.txt" -> ParseRequirements(file)

EcosystemOf(rel) ==
  CASE rel = "composer.lock" -> "Packagist"
    [] rel \in {"poetry.lock", "requirements.txt"} -> "PyPI"
    [] OTHER -> "npm"

-----------------------------------------------------------------------------
(* normalize and package_hash. *)

(* A finite set from its first member to its last; `order` holds the pairs  *)
(* whose first comes before the second.                                     *)
Nth(S, order, i) == CHOOSE x \in S : Cardinality({y \in S : <<y, x>> \in order}) = i - 1

InOrder(S, order) == [i \in 1..Cardinality(S) |-> Nth(S, order, i)]

(* Tuples compare member by member. *)
Before(x, y) ==
  \/ x.name[1] < y.name[1]
  \/ x.name[1] = y.name[1] /\ x.name[2] < y.name[2]
  \/ x.name = y.name /\ x.version < y.version
  \/ x.name = y.name /\ x.version = y.version /\ x.line < y.line

Sorted(rows) == InOrder(rows, {p \in rows \X rows : Before(p[1], p[2])})

Ascending(I) == InOrder(I, {p \in I \X I : p[1] < p[2]})

SameVersion(x, y) == x.name = y.name /\ x.version = y.version

(* Faults: copies stay, the file's order stays, and the last line is kept. *)
NormalizeAll(rows) == Sorted(rows)
NormalizeInOrder(rows) ==
  LET first == {x \in rows : ~\E y \in rows : SameVersion(x, y) /\ y.line < x.line}
  IN InOrder(first, {p \in first \X first : p[1].line < p[2].line})

Firsts(all) == {i \in 1..Len(all) : i = 1 \/ ~SameVersion(all[i], all[i - 1])}
FirstLines(all) ==
  LET first == Ascending(Firsts(all)) IN [i \in 1..Len(first) |-> all[first[i]]]

Normalize(rows) == FirstLines(Sorted(rows))

(* Faults: a key that says nothing of versions, or of the registry. *)
PackageHashNames(ecosystem, packages) ==
  <<ecosystem, [i \in 1..Len(packages) |-> packages[i].name]>>
PackageHashBare(ecosystem, packages) ==
  <<"", {<<p.name, p.version>> : p \in ToSet(packages)}>>

(* The lines are sorted before they are hashed, so a set of them stands for *)
(* the text.                                                                *)
PackageHash(ecosystem, packages) ==
  <<ecosystem, {<<p.ecosystem, p.name, p.version>> : p \in ToSet(packages)}>>

LockOf(rel, packages) ==
  [rel |-> rel, packages |-> packages, hash |-> PackageHash(EcosystemOf(rel), packages)]

ReadLock(rel, file) == LockOf(rel, Normalize(Parse(rel, file)))

(* read: what exists and can be read, in the order of CANDIDATES. *)
Read(tree) ==
  FlattenSeq([i \in 1..Len(CANDIDATES) |->
    IF CANDIDATES[i] \in DOMAIN tree /\ tree[CANDIDATES[i]].readable
      THEN <<ReadLock(CANDIDATES[i], tree[CANDIDATES[i]])>> ELSE <<>>])

-----------------------------------------------------------------------------
(* check_one: a finding for each package and advisory. *)

Hits(lock, advisories) ==
  UNION {{<<p, id>> : id \in advisories[p]} : p \in ToSet(lock.packages)}

(* A fault: an anchor without the version. *)
AnchorShort(rel, hit) == <<rel, hit[1].name, hit[2]>>

Anchor(rel, hit) == <<rel, hit[1].name, hit[1].version, hit[2]>>

-----------------------------------------------------------------------------
Listed(lock) ==
  [i \in 1..Len(lock.packages) |->
     <<lock.packages[i].name, lock.packages[i].version, EcosystemOf(lock.rel)>>]

(* lockfile.rs: a snapshot "is zipped positionally against packages, so     *)
(* what the key has to promise is that the list is the same one the         *)
(* snapshot answered for", whichever lockfile and run either belongs to:    *)
(* and it is the same whenever an install puts the same packages on disk.   *)
KeyMeansList ==
  \A x \in ToSet(Read(locks.before)), y \in ToSet(Read(locks.now)) :
    /\ x.hash = y.hash => Listed(x) = Listed(y)
    /\ ToSet(Listed(x)) = ToSet(Listed(y)) /\ EcosystemOf(x.rel) = EcosystemOf(y.rel)
         => x.hash = y.hash

(* vulnerable_dependency.rs: "an install tree holding three copies of one   *)
(* package at three versions is three findings", with three ids, so         *)
(* accepting one accepts no other, and each is on the line nearest the top; *)
(* a hoisted copy of one version is no finding of its own.                  *)
CopiesApart ==
  \A lock \in ToSet(Read(locks.now)) :
    LET hits == Hits(lock, [p \in ToSet(lock.packages) |-> {"GHSA"}])
    IN /\ \A x, y \in hits :
            \/ x = y
            \/ /\ Anchor(lock.rel, x) # Anchor(lock.rel, y)
               /\ x[1].name # y[1].name \/ x[1].version # y[1].version
       /\ \A x \in hits : \A p \in Parse(lock.rel, locks.now[lock.rel]) :
            (p.name = x[1].name /\ p.version = x[1].version) => x[1].line <= p.line

LocksSafe == KeyMeansList /\ CopiesApart
=============================================================================
