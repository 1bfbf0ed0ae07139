----------------------------- MODULE Reporting -----------------------------
(***************************************************************************)
(* What a run answers for: the scopes of crates/cli/src/run.rs (pass,      *)
(* explicit_files, index_files), the "previous" that test-newly-skipped    *)
(* compares with, the widening of graph findings to the neighbourhood of a *)
(* scope, and the verdict of core/src/finding.rs.                          *)
(*                                                                         *)
(* Abstractions.  A run is one step, or two when it dies between the       *)
(* commit of its index and its findings cache; Indexing takes it apart.    *)
(* The config does not change (Rules has it change).  File rules find a    *)
(* `flag` in some texts and the skips that are new; the graph rules are    *)
(* dead-file and the two that read files the engine does not parse.  An    *)
(* import names one file, and it resolves if the run lists that file.      *)
(***************************************************************************)
EXTENDS Naturals, SequencesExt

CONSTANTS
  Files,      \* source files
  TestFiles,  \* the ones is_test_file says yes to
  Entries,    \* the ones is_entry says yes to
  Locks,      \* lockfiles
  Migrations, \* SQL migrations
  Flawed,     \* lockfiles and migrations a rule finds something in
  Texts,      \* contents of a source file
  Broken,     \* texts with a blocking syntax error
  Flagged,    \* texts a file rule that keeps no memory finds something in
  Names,      \* names of test cases
  Skipped,    \* Skipped[t]: the cases text t skips
  Seen,       \* Seen[t]: the ones the extractor sees, fewer in a recovered tree
  Imports,    \* Imports[t]: the files text t imports
  Base,       \* Base[f]: f at the revision a diff scope compares with, or Gone
  Gone,       \* no such file
  None,       \* no row, no scope, no previous version, no report yet
  MaxWrites   \* bound on the edits

Unread == Locks \cup Migrations

ASSUME ReportingAssumption ==
  /\ IsFiniteSet(Files) /\ IsFiniteSet(Unread) /\ IsFiniteSet(Names)
  /\ TestFiles \subseteq Files /\ Entries \subseteq Files
  /\ Locks \cap Migrations = {} /\ Unread \cap Files = {} /\ Flawed \subseteq Unread
  /\ Broken \subseteq Texts /\ Flagged \subseteq Texts
  /\ Gone \notin Texts /\ None \notin Texts
  /\ \A t \in Texts :
       /\ Seen[t] \subseteq Skipped[t] /\ Skipped[t] \subseteq Names
       /\ t \notin Broken => Seen[t] = Skipped[t]
       /\ Imports[t] \subseteq Files
  /\ Base \in [Files -> Texts \cup {Gone}]
  /\ MaxWrites \in Nat

(* No row, no scope and no set of names is None. *)
ASSUME NoneAssumption ==
  /\ \A row \in [text : Texts, to : SUBSET Files] : row # None
  /\ \A S \in (SUBSET Files) \cup (SUBSET Names) : S # None

VARIABLES
  disk,    \* disk[f]: the text of f, or Gone
  head,    \* the files a commit since Base has changed
  rows,    \* rows[f]: the text the index recorded and its resolved imports
  cache,   \* cache[f]: the file rules' findings in that text, or None
  report,  \* the answer of the run that is about to end
  writes,  \* edits so far
  past,    \* history: past[f], what the extractor saw in versions of f
  owed     \* history: skips that appeared between two recorded versions of
           \* a file and that no report has shown

vars == <<disk, head, rows, cache, report, writes, past, owed>>

Skip(f, n, newly) == [kind |-> "skip", file |-> f, name |-> n, newly |-> newly]
Other(kind, f) == [kind |-> kind, file |-> f, name |-> None, newly |-> FALSE]

-----------------------------------------------------------------------------
(* What one version of a file says. *)

(* The previous version of a case: a set of names, or None for no version. *)
NewlySkipped(f, t, was) ==
  IF f \notin TestFiles THEN {}
  ELSE {Skip(f, n, was # None) : n \in {m \in Skipped[t] : was = None \/ m \notin was}}

(* The file rules over one parsed file; a broken one is exempt. *)
FileFindings(f, t, was) ==
  IF t \in Broken THEN {}
  ELSE NewlySkipped(f, t, was) \cup {Other("flag", g) : g \in {h \in {f} : t \in Flagged}}

(* skipped_at: a revision that lacks the file skipped nothing, and one     *)
(* that does not parse says nothing.                                       *)
SkippedAt(f) ==
  IF f \notin TestFiles \/ Base[f] = Gone THEN {}
  ELSE IF Base[f] \in Broken THEN None
  ELSE Skipped[Base[f]]

-----------------------------------------------------------------------------
(* The verdict. *)

Severity(x) ==
  CASE x.kind \in {"advisory", "rls"} -> 1
    [] x.kind \in {"skip", "dead"} -> 2
    [] x.kind = "flag" -> 3

(* Confidence alone decides: dead-file is the advisory rule here. *)
Blocks(x) == x.kind # "dead"

Confidence(x) == IF Blocks(x) THEN 1 ELSE 2

(* A fault: severity is the primary key. *)
SeverityFirst(x) == <<Severity(x), Confidence(x)>>

(* from_findings sorts on confidence, then severity.  The rest of its chain *)
(* breaks ties by name; any order of those that tie will do here.           *)
SortKey(x) == <<Confidence(x), Severity(x)>>

Sorted(found) ==
  LET Those(i, j) == SetToSeq({x \in found : SortKey(x) = <<i, j>>})
      Group(i) == Those(i, 1) \o Those(i, 2) \o Those(i, 3)
  IN Group(1) \o Group(2) \o Group(3)

Capped(found, n) ==
  IF Len(Sorted(found)) > n THEN SubSeq(Sorted(found), 1, n) ELSE Sorted(found)

-----------------------------------------------------------------------------
(* Faulty forms of definitions below, each a bug this code could have. *)

(* The index's memory is used for a diff scope too. *)
MemoryOnly(q, table, f) == IF table[f] = None THEN None ELSE Seen[table[f].text]

(* A file the index never saw has an empty previous version. *)
EmptyPrevious(q, table, f) ==
  IF q.mode \in {"base", "since"} /\ f \in q.scope /\ SkippedAt(f) # None THEN SkippedAt(f)
  ELSE IF table[f] = None THEN {} ELSE Seen[table[f].text]

(* The targets of edges this run replaces or deletes are not captured. *)
NoBefore(table, changed, listed) == {}

(* The watermark widens a diff's scope as well. *)
WideAlways(q) == TRUE

-----------------------------------------------------------------------------
(* The scope of a run. *)

Existing == {f \in Files : disk[f] # Gone}

(* changed_files: a base run compares the working tree, a since run the    *)
(* commits; a path that is gone is dropped.                                *)
Diff(mode) ==
  IF mode = "base" THEN {f \in Existing : disk[f] # Base[f]} ELSE head \cap Existing

(* A request: its mode, the source files it is scoped to, and everything   *)
(* it was pointed at (raw_scope).  explicit_files reads names both ways.   *)
Requests ==
  {[mode |-> "repo", scope |-> None, raw |-> None],
   [mode |-> "changed", scope |-> None, raw |-> None]}
  \cup {[mode |-> "paths", scope |-> S \cap Files, raw |-> S] :
          S \in (SUBSET (Existing \cup Unread)) \ {{}}}
  \cup {[mode |-> m, scope |-> Diff(m), raw |-> Diff(m) \cup S] :
          m \in {"base", "since"}, S \in SUBSET Unread}

InScope(q, f) == q.scope # None /\ f \in q.scope

LockInScope(q) == q.mode # "changed" /\ (q.raw = None \/ q.raw \cap Locks # {})
RlsInScope(q) == q.mode # "changed" /\ (q.raw = None \/ q.raw \cap Migrations # {})

ScopeIsWatermark(q) == q.mode = "changed"

-----------------------------------------------------------------------------
(* index_files, on a table of rows. *)

Row(f, listed) == [text |-> disk[f], to |-> Imports[disk[f]] \cap listed]

ChangedIn(table) ==
  {f \in Existing : table[f] = None \/ table[f].text # disk[f]}

Recorded(table, changed) ==
  [f \in Files |-> IF f \in changed THEN Row(f, Existing) ELSE table[f]]

Unresolved(table) ==
  {f \in Files : table[f] # None /\ table[f].to # Imports[table[f].text]}

(* When a file is new, importers with an unresolved import are revisited. *)
Repaired(table, changed) ==
  IF \A f \in changed : table[f] # None THEN {}
  ELSE (Unresolved(Recorded(table, changed)) \cap Existing) \ changed

(* The rows after the repairs and remove_missing. *)
IndexAfter(table, changed) ==
  [f \in Files |->
     IF f \notin Existing THEN None
     ELSE LET row == IF f \in Repaired(table, changed) THEN Row(f, Existing)
                     ELSE Recorded(table, changed)[f]
          IN [row EXCEPT !.to = @ \cap Existing]]

(* Where the edges this run replaces or deletes pointed. *)
Before(table, changed, listed) ==
  UNION {table[f].to : f \in {g \in Files : table[g] # None /\ g \in changed \cup (Files \ listed)}}

(* What the index or git remembers of a file about to be judged. *)
Previous(q, table, f) ==
  IF q.mode \in {"base", "since"} /\ f \in q.scope /\ SkippedAt(f) # None THEN SkippedAt(f)
  ELSE IF table[f] = None THEN None ELSE Seen[table[f].text]

(* A repository run parses what the cache cannot answer; any other run its *)
(* scope; every run what it had to record.                                 *)
Parsed(q, table, served) ==
  LET changed == ChangedIn(table)
  IN changed \cup Repaired(table, changed)
       \cup (IF q.mode = "repo" THEN {f \in Existing : served[f] = None}
             ELSE IF q.mode = "changed" THEN {} ELSE q.scope)

(* neighbours: files an edge joins to the scope, either way. *)
Neighbours(table, S) ==
  (UNION {table[f].to : f \in {g \in S : table[g] # None}})
    \cup {f \in Files : table[f] # None /\ table[f].to \cap S # {}}

-----------------------------------------------------------------------------
(* The rules, and what is kept of their findings. *)

Dead(table) ==
  {f \in Files \ Entries : table[f] # None
                           /\ \A g \in Files : table[g] # None => f \notin table[g].to}

(* The gate drops a graph finding in a file that did not parse. *)
GraphFindings(q, table) ==
  {Other("dead", f) : f \in {g \in Dead(table) : table[g].text \notin Broken}}
    \cup {Other("advisory", u) : u \in {v \in Flawed \cap Locks : LockInScope(q)}}
    \cup {Other("rls", u) : u \in {v \in Flawed \cap Migrations : RlsInScope(q)}}

FoundIn(q, table, f) == FileFindings(f, disk[f], Previous(q, table, f))

(* The report of request q on an index and a cache. *)
Answer(q, table, served) ==
  LET changed == ChangedIn(table)
      parsed == Parsed(q, table, served)
      after == IndexAfter(table, changed)
      scope == IF ScopeIsWatermark(q) THEN changed ELSE q.scope
      fileFindings == (UNION {FoundIn(q, table, f) : f \in parsed})
        \cup (IF q.mode # "repo" THEN {} ELSE UNION {served[f] : f \in Existing \ parsed})
      graph == GraphFindings(q, after)
      wide == scope \cup Neighbours(after, scope)
                \cup (IF ScopeIsWatermark(q) THEN Before(table, changed, Existing) ELSE {})
  IN IF scope = None THEN fileFindings \cup graph
     ELSE {x \in fileFindings : x.file \in scope}
            \cup {x \in graph : x.file \in wide \/ (q.raw # None /\ x.file \in q.raw)}

NoRows == [f \in Files |-> None]

(* cache::clear on the changed, the rows of the departed, write_cache. *)
CacheAfter(q, wrote) ==
  [f \in Files |->
     IF f \in Parsed(q, rows, cache) /\ wrote THEN FoundIn(q, rows, f)
     ELSE IF f \in Existing \ ChangedIn(rows) THEN cache[f]
     ELSE None]

-----------------------------------------------------------------------------
(* The skips that appeared in this run's changes, as a reader would say. *)
Appeared ==
  UNION {{<<f, n>> : n \in Skipped[disk[f]] \ Seen[rows[f].text]} :
           f \in {g \in ChangedIn(rows) \cap TestFiles :
                    /\ rows[g] # None /\ rows[g].text \notin Broken
                    /\ disk[g] \notin Broken}}

StillOwed ==
  {p \in owed \cup Appeared :
     /\ disk[p[1]] # Gone /\ disk[p[1]] \notin Broken
     /\ p[2] \in Skipped[disk[p[1]]]}

Shown(answer) == {<<x.file, x.name>> : x \in {y \in answer : y.kind = "skip"}}

Remembers ==
  past' = [f \in Files |-> IF f \in ChangedIn(rows) THEN past[f] \cup {Seen[disk[f]]}
                           ELSE past[f]]

-----------------------------------------------------------------------------
Init ==
  /\ disk = Base /\ head = {}
  /\ rows = NoRows /\ cache = NoRows
  /\ report = None /\ writes = 0
  /\ past = [f \in Files |-> {IF Base[f] = Gone THEN {} ELSE Seen[Base[f]]}]
  /\ owed = {}

Write(f, t) ==
  /\ report = None /\ writes < MaxWrites /\ t # disk[f]
  /\ disk' = [disk EXCEPT ![f] = t]
  /\ writes' = writes + 1
  /\ UNCHANGED <<head, rows, cache, report, past, owed>>

(* The working tree is committed on top of Base. *)
GitCommit ==
  /\ report = None
  /\ head' = {f \in Files : disk[f] # Base[f]} /\ head' # head
  /\ UNCHANGED <<disk, rows, cache, report, writes, past, owed>>

(* A recording run: check, scan, a hook. *)
Run(q) ==
  /\ report = None
  /\ rows' = IndexAfter(rows, ChangedIn(rows))
  /\ cache' = CacheAfter(q, TRUE)
  /\ Remembers
  /\ LET answer == Answer(q, rows, cache)
         scope == IF q.mode = "repo" THEN Existing
                  ELSE IF ScopeIsWatermark(q) THEN ChangedIn(rows) ELSE q.scope
     IN /\ report' = [asked |-> q, found |-> answer,
                      bereft |-> Dead(rows') \ Dead(rows),
                      known |-> {f \in Files : rows[f] # None},
                      missed |-> {p \in StillOwed : p[1] \in scope} \ Shown(answer)]
        /\ owed' = StillOwed \ Shown(answer)
  /\ UNCHANGED <<disk, head, writes>>

(* A run that dies between its commit and write_cache. *)
Cut(q) ==
  /\ report = None
  /\ rows' = IndexAfter(rows, ChangedIn(rows))
  /\ cache' = CacheAfter(q, FALSE)
  /\ Remembers /\ owed' = StillOwed
  /\ UNCHANGED <<disk, head, report, writes>>

(* A baseline command: the whole repository, on a throwaway index. *)
Unrecorded ==
  /\ report = None
  /\ LET q == [mode |-> "repo", scope |-> None, raw |-> None]
         answer == Answer(q, NoRows, NoRows)
     IN report' = [asked |-> q, found |-> answer, bereft |-> {}, known |-> {},
                   missed |-> {p \in owed : disk[p[1]] \in Texts \ Broken
                                            /\ p[2] \in Skipped[disk[p[1]]]}
                              \ Shown(answer)]
  /\ UNCHANGED <<disk, head, rows, cache, writes, past, owed>>

(* The answer is printed and the process is gone. *)
Exit ==
  /\ report # None /\ report' = None
  /\ UNCHANGED <<disk, head, rows, cache, writes, past, owed>>

Next ==
  \/ \E f \in Files, t \in Texts \cup {Gone} : Write(f, t)
  \/ GitCommit
  \/ \E q \in Requests : Run(q) \/ Cut(q)
  \/ Unrecorded
  \/ Exit

Spec == Init /\ [][Next]_vars

-----------------------------------------------------------------------------
IsDiff(q) == q.mode \in {"base", "since"}

(* run.rs pass, on the scopes that are not the watermark: "so the answer   *)
(* depends only on the tree and the ref".  A diff run answers what the     *)
(* same run on a fresh checkout would, whatever this index saw before, as  *)
(* long as the test files it asks git about parse at the base revision.    *)
DiffAnswersTree ==
  (report # None /\ IsDiff(report.asked)
     /\ \A f \in report.asked.scope \cap TestFiles : Base[f] \notin Broken) =>
    report.found = Answer(report.asked, NoRows, NoRows)

(* Indexed::before: `check --changed` names every file that this run's     *)
(* changes and deletions left without an importer.  No file it reads says  *)
(* so: the edge that kept the file alive is one the run deletes.           *)
NewlyDeadTold ==
  (report # None /\ ScopeIsWatermark(report.asked)) =>
    \A f \in report.bereft \cap report.known :
      disk[f] \in Broken \/ Other("dead", f) \in report.found

(* test_newly_skipped.rs: "(newly)" is said only where a version of the    *)
(* file that lacked the skip was seen, by the index or by git, even when   *)
(* the finding is served from the cache many runs later.                   *)
NewlyHonest ==
  report # None =>
    \A x \in report.found :
      (x.kind = "skip" /\ x.newly) => \E s \in past[x.file] : x.name \notin s

(* Verdict::capped: a cap never hides a finding that blocks behind one     *)
(* that does not, so what a capped verdict shows explains its status.      *)
CapKeepsBlockers ==
  report # None =>
    \A n \in 1 .. Cardinality(report.found) :
      LET shown == ToSet(Capped(report.found, n))
      IN (\E x \in report.found \ shown : Blocks(x)) => \A y \in shown : Blocks(y)

(* test_newly_skipped.rs: "A newly skipped case is therefore reported      *)
(* once": a skip that appeared between two recorded versions of a test     *)
(* file is in the first report, of those that ask the index and not git,   *)
(* whose scope holds the file.                                             *)
SkipReported == (report # None /\ ~IsDiff(report.asked)) => report.missed = {}
=============================================================================
