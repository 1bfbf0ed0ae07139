# Locrin in TLA+

Locrin checks a repository for the mistakes coding agents make (dead exports,
skipped tests, swallowed errors, open tables ...). It is a Rust workspace: an
incremental index in SQLite, rules that run over it, and three ways of being
asked, namely a command line, hooks that sit between an agent and the
repository, and an MCP server. Every path below is relative to `src/`, the
repository's root.

What is hard is of two kinds. Several processes share one index and one baseline
while an editor changes files under them, builds and configs come and go, and
hooks are killed by watchdogs: those are state machines. And the answers rest on
functions with many interacting cases (what an import names, which version to
move to, which table is open, which test checks nothing), whose fixtures show
single inputs: those are checked against a reference on every small input.

## The system

| Part | Source | State it keeps | Operations | Used by |
|---|---|---|---|---|
| repository index | `crates/core/src/index.rs`, `indexer.rs`, `edges.rs` | SQLite tables `files`, `symbols`, `edges`, `allows`, `skipped_tests`, `findings_cache`, `meta` and the OSV snapshots, outside the repository | open or rebuild, begin, record, refresh a stat, remove the missing, commit | every recording run |
| recording run | `crates/cli/src/run.rs` (`pass`, `index_files`, `write_cache`) | stats, reads, pending and parsed files, the `--changed` scope | walk, load the cache, index, repair importers, prune, rules, write the cache, report | `check`, `scan`, hooks, init, MCP tools |
| findings cache | `core/src/cache.rs` | rows per file and rule, keyed by hash and config | load_all, put, clear | recording run |
| import resolver | `core/src/resolve.rs`, `project.rs` | none (tsconfig paths, workspace packages) | resolve a specifier | recording run |
| walk and config | `core/src/walk.rs`, `tree.rs`, `config.rs` | none | list the source files | recording run |
| baseline | `core/src/baseline.rs`, `cli/src/run.rs` | the committed file `locrin-baseline.json` | load, filter, accept, save, create | `baseline`, `init`, MCP `accept_finding` |
| hooks | `cli/src/hook/mod.rs`, `session.rs`, `cli/src/git.rs` | one round counter per session | post-edit, Stop, pre-commit | the agent and git |
| explicit paths, scopes, verdict | `cli/src/run.rs`, `core/src/finding.rs` | the last verdict in `meta` | narrow to a scope, cap, record | recording run |
| advisories | `core/src/osv.rs`, `lockfile.rs` | snapshots of batches and advisory details | check online or offline | `vulnerable-dependency` |
| MCP server | `mcp/src/lib.rs`, `cli/src/mcp_tools.rs` | none between requests | JSON-RPC loop, five tools | the agent |
| init | `cli/src/init.rs` | files the user owns too | plan, write, first scan, baseline | a person |
| rule registry | `rules/src/lib.rs` | none; its fingerprint is half of the findings cache's key | which rule runs where, overrides and locks, anchors, serving from the cache | recording run |
| graph rules | `rules/src/dead_export.rs`, `dead_file.rs`, `boundary.rs`, `core/src/entry.rs` | none | judge the import graph | recording run |
| skipped tests | `core/src/previous.rs`, `rules/src/test_newly_skipped.rs` | the table `skipped_tests`, or a git revision | compare with the version before | recording run |
| migrations | `rules/src/supabase/rls.rs` | none | tables created and secured by a sequence of files | recording run |
| extraction | `core/src/symbols.rs`, `imports.rs`, `testcases.rs` | tables of the index | one syntax tree to symbols, imports, test cases; search | recording run, MCP `find_existing` |
| parsing and file rules | `core/src/parse.rs`, the other files of `rules/src` | none | one syntax tree to findings | recording run |
| reporters | `reporters/src` | none | format a report | command line, hooks |
| distribution | `action/`, `npm/`, `pypi/`, `scripts/`, `install.sh`, `install.ps1` | none | build and download | |
| fingerprint spike | `spike/fingerprint` | none | an experiment outside the product | |

How they interact. A run reads the config, walks the tree, opens the index,
takes its write lock for the whole of `index_files` and releases it before the
rules run; the findings cache is written under the lock a second time. Two runs
meet only at that lock, at the tables, at the working tree and at the baseline.
A hook runs a check on a worker thread and waits for it with a timeout, so a
run that nobody waits for may still commit. The MCP server answers one request
at a time but shares index and baseline with every terminal.

What each part must get right:

* **index**: a stat may only say "certainly unchanged"; no edge points at a row
  that is gone, no import stays unresolved once its target is back; an
  undisturbed run leaves the index saying what is on disk; a schema stamp tells
  the truth, and a database another process can use is not deleted under it.
* **findings cache**: a report says of each file what the rules say of a text
  it held, under this run's config, and leaves nothing out.
* **hooks**: an agent is sent back while findings block and no more than the cap
  allows; the person hears of the cap before the hook falls silent; the loop
  ends; the gate holds back what blocks.
* **baseline**: the file always parses, and changes only by what was accepted.
* **scopes and verdict**: a diff answer follows from the tree and git; what a
  change leaves without an importer is told; a cap hides nothing that blocks.
* **rule registry**: serving a cached finding never changes an answer, whatever
  build or config wrote it; a locked rule cannot be turned down; two lines that
  are reported as lines never share an id.
* **resolver, graph rules**: a file some import reaches is not called dead.
* **migrations**: a table is reported exactly when no migration locks it down.
* **advisories**: the answer says where it came from; a failure costs one timeout;
  a version is named only when moving to it leaves the affected range.
* **extraction**: a line has one symbol; a search keeps the best; a case counts as
  skipped only when the runner skips it, and as unchecked only when nothing the rule
  looks into can fail it.
* **MCP**: one answer per request, none per notification, whatever a tool does.
* **init**: a failure half way leaves every file whole, and running it again
  finishes the job.

`PROJECT.json` lists these parts again with their status, and under `hazards`
each place where the code is hard to test.

## The modules

| Module | Models |
|---|---|
| `Indexing` | recording runs over the `files`, `edges` and `findings_cache` tables, beside an editor and each other |
| `IndexingProofs` | the theorems of `Indexing` |
| `AgentHooks` | the three hooks, the round counter, and the scopes they take from git and the index |
| `AgentHooksProofs` | the theorems of `AgentHooks` |
| `Reporting` | what a run answers for: scopes, the neighbourhood of a change, previous versions of skipped tests, the verdict and its cap |
| `ReportingProofs` | the theorems of `Reporting` |
| `Rules` | the registry: which rule runs where, overrides and locks, anchors, and the findings cache across builds and configs |
| `IndexOpen` | opening, rebuilding and stamping the database, by builds of several schemas |
| `IndexOpenProofs` | the theorems of `IndexOpen` |
| `SignedOff` | the abstract baseline: a set of accepted findings |
| `Baseline` | the baseline file, its temporary name and the commands that rewrite it; implements `SignedOff` |
| `InitRun` | `locrin init`: plan, merges, writes, hook, scan and baseline, with failures, kills and edits |
| `StorageProofs` | the theorems of `Baseline` and of `InitRun`, and of them and `IndexOpen` side by side (`MCStorage`) |
| `McpServer` | the request loop and the five tools, beside processes that fill, rebuild and delete the index |
| `OsvSnapshot` | asking osv.dev about a lockfile, with the stored rows that answer when it does not |
| `OsvProofs` | the theorems of `OsvSnapshot` |
| `ImportGraph` | imports, exports, the resolver, entry points and the three graph rules |
| `Migrations` | the tables that `supabase-table-without-rls` reports |
| `MigrationsPart` | `Migrations` as a part of `MCAnswers` |
| `MigrationsProofs` | the theorems of `Migrations` |
| `Versions` | comparators, version ranges and the version a finding names |
| `Lockfiles` | what counts as installed, the snapshot's key and the finding's identity |
| `SymbolTable` | extraction of symbols, the symbol around a line, tokens and search |
| `TestCases` | the cases of a test file, which are skipped and which check nothing |
| `Sinks` | `injection-sink` |
| `Answers` | `Rules`, `McpServer`, `ImportGraph`, `Versions` and `Lockfiles` side by side |
| `AnswersProofs` | the theorems of `Answers` and its parts |
| `Parts` | the variables `Answers` and `MCAnswers` share: whose behavior it is, and a function's input |
| `MCAnswers`, `MCStorage` | several of the above in one run, see below |
| other `MC*` | small instances of one module for TLC |

The modules are separate because the components meet at narrow interfaces. For
`AgentHooks` a check is one step that moves the watermark (`known`); for
`Reporting` and `Rules` a run is one step; what can happen inside it is
`Indexing`. For `Indexing` the database is open; opening it is `IndexOpen`. What
a rule's body finds is a set of lines in `Rules` and a kind of finding in
`Reporting`; `ImportGraph`, `Migrations` and `Sinks` say what it is.

`MCStorage`, `Answers` and `MCAnswers` put modules that share no step side by
side: a behavior belongs to one `part` from its first state on and the variables
of the others stay where they start, so the state space is the sum of the parts
and every property of a part is checked over all its behaviors. In `Answers`
a function of the code is a state machine without steps: its inputs are the
initial states, and its property is an invariant. `MCAnswers` is `Answers` and
four more functions: `Migrations`, which has proofs of its own, and the three that
read syntax trees and partly use RECURSIVE operators, of which nothing is proved.
So `Answers`, which its proofs use, leaves them out.

Each module carries faulty operators, named for the bug
they are. They are in no specification. `PROJECT.json` pairs every property with
one of them: put in place of the right definition, the property fails.

### Indexing

`disk` is the working tree, each file with its content and its modification
stamp. `rows` is the committed index and `work` the same tables as the
transaction of the `lock` holder sees them; `cache` is `findings_cache`.
Everything indexed by a run `r` is what that process holds in memory: `cached`
is what `cache::load_all` returned, `stat[r][f]` and `got[r][f]` are
`FileRead`'s two fields, `pending` and `parsed` are the vectors of `index_files`,
`before` the targets it captures for `--changed`.

| Action | Code |
|---|---|
| `Start` | `pass` up to opening the index: config, `source_files`, explicit paths |
| `LoadCache` | `cache::load_all`, only when the run answers for the whole repository |
| `Begin` | `Index::begin`, `BEGIN IMMEDIATE` |
| `SkipByStat`, `ServeByStat`, `TakeStat` | the first half of the loop over candidates: `unchanged_by_stat`, `serve` |
| `ReadBinary`, `ReadChanged`, `ReadUnchanged` | the second half: `read_source`, the hash, `refresh_stat` |
| `Record`, `StartRepair` | the recording loop, then `with_unresolved_edges` and the choice of what to repair |
| `RepairParsed`, `RepairStat`, `RepairRead` | the repair pass: a file in hand, or one to stat and read |
| `Commit` | the departed files' targets, `remove_missing`, `COMMIT` |
| `RunRules` | the file rules and `write_cache` |
| `ReadFails`, `Busy`, `Kill` | a file gone by the time it is read, the busy timeout, a watchdog or a crash: the transaction rolls back |

The stat and the read are two steps because the code makes two system calls and
an edit may land between them. `window` and `quiet` are history variables: what
each file held while a run was going, and which runs no edit disturbed. They
constrain no action.

Abstractions: a text stands for its hash; the stat (size and time) is one stamp,
and every save gives a new one (two saves of one size within the resolution of
the filesystem's clock are out of scope: `file_stat` takes nanoseconds for that
reason, `index.rs:105-110`); `Mute` files may
answer with a zero stat, which covers both a filesystem that does not answer and
an empty file; candidates are visited in any order; `symbols`, `allows` and
`skipped_tests` rows are written and removed with their file's row and are not
told apart from it; what a rule finds is named by the text and the config it was
computed from. The findings-cache rows `Record` and `remove_missing` delete
inside the transaction become visible at `Commit`. Runs that do not record (the
`baseline` commands index into a throwaway in-memory database) and parse errors
are not modelled.

### AgentHooks

`tree`, `staged` and `head` are the repository; `known` is what the index has
recorded, which is the `--changed` watermark. `saved` is the counter in a session's
file. A Stop hook is a process of small steps: load the session
(`StopsSilently` past the cap, else `StopBegins`), take the scope from git on the
worker (`TakeScope`), check (`Check`), write the counter (`Save`, or `SaveFails`
with a warning), answer (`LetsGo`, `SendsBack`, `StandsDown`). `GivesUp` is a
timeout, a panic or an error; `Kill` may tear the counter file, which the next
`load` reads as zero. `PostEdit` and `GitCommit` (the pre-commit gate) are one
step each, since neither keeps state between its steps other than the index.
One editor stands for everybody who edits, and one Stop hook runs per session at
a time, which is how the agent calls it.

History: `sent` and `lost` count rounds and lost counters since the last clean
verdict, `told` the sessions whose person heard of the cap, `held` the files an
agent was sent back for that are still as they were.

### IndexOpen

A database is a file that outlives its name, as on POSIX: a process keeps what
it opened after the path is removed. The steps of `open_at` are actions, because
nothing is locked across them: look at what is there, drop the connection,
remove, open again, create the per-file tables, create `meta`, stamp. The file and
its write-ahead log are removed in one step.

`Rush` is the environment. When it is TRUE processes start whenever they like;
`IndexOpenRush.cfg` shows what goes wrong then. When it is FALSE a process starts
beside others only once the database is one it can use, and the invariants hold
over crashes, corruption and old builds.

### Baseline and SignedOff

`SignedOff` says what a committed baseline promises: it grows by one accepted
finding, or is replaced by all that one check found, and nothing else changes it.
`Baseline` has inodes, the name, the temporary name and writers that truncate,
write and rename, and can be killed between any two. It implements `SignedOff`
with `accepted` read through the name (`OnFile`); the run checks the refinement
as the property `KeepsPromise`.

`Overlap` is the environment: whether two writers may be at work at once. The
code takes no lock, so the promise is checked for one at a time and
`BaselineOverlap.cfg` shows what happens otherwise.

### OsvSnapshot

`batch` and `vulns` are the tables `osv_batch` and `osv_vulns`; everything
indexed by a run `r` is a local of `check` in that process. The registry is
outside: `edition` is what it says now, and a stored document is the edition it
came from, so that a batch whose chunks were answered across an edit is a mixed
one. `dawn` remembers what each day began with. `details` holds documents; of
a document only the aliases matter here, because they decide which ids are one
finding.

| Action | Code |
|---|---|
| `Begin` | `check` up to the cached row, an unreadable one told and dropped |
| `UseSnapshot` | offline, or a row younger than a day |
| `ChunkAnswers`, `ChunkFails` | one request of `fetch_batch`; the last answer stores the row, the first failure falls back |
| `DetailAnswers`, `ServesDetail` | `vuln_detail`, id after id in sort order: asked, stored and used; or the stored document |
| `Finish` | the count of missing details, `one_per_family` for each package |
| `DayPasses`, `Publish`, `Damage`, `Kill` | the clock, the registry, a row that stops parsing, a process that ends |

`OnePerFamily` is the code's union-find as a fold over the aliases; its
reference, `NamesEachOnce`, speaks of sets of ids that no alias enters or
leaves. What a document says of versions is `Versions`.

### Reporting

`disk` and `head` are the tree and the commits on top of `Base`; `rows` and
`cache` are the index and the findings cache. `Requests` are the five ways to
ask: the repository, `--changed`, named paths, `--base` and `--since`; the last
three also point at lockfiles and migrations, which decide whether those rules
run at all. `Run` is `pass` as one step; `Cut` is a run that ends between the
index's commit and `write_cache`; `Unrecorded` a baseline command, on a
throwaway index. `Previous` is what a file's skips are compared with: the
index's rows before this run replaces them, or the file at the base revision.
`Before` is `Indexed::before`. `past` and `owed` are history: what every version
of a file skipped as far as anyone saw, and the skips that have not been
reported since they appeared.

### Rules

An engine is a build: its version, its `RULES_REVISION` and its rules with what
each declares; a config is the `[rules]` and `[languages]` tables. `Upgrade`,
editing the config, writing a file and a whole-repository check are the steps.
`Key` is `config_hash` beside `rules_fingerprint`, with a hash as the fields it
is made of. Two facts about engines are assumptions, because the code cannot
establish them: each id names one rule, and a rule's body (also whether it is
locked or a graph rule) changes only together with the revision or with
something the fingerprint sees. The second is what the comment at
`rules/src/lib.rs:520-531` asks of whoever edits a rule. `Names` says what a body names
a finding by, if it does not report the line: `unused-import`, `test-no-assert`,
`test-newly-skipped`, `secrets` and two rules of `express` anchor on a name, and
`AnchorOf` gives their findings an anchor without an ordinal.

### InitRun and McpServer

In `InitRun` a document is a set of entries, and the user has a form of their
own for each entry that counts as it. A run plans both merges, then writes
`locrin.toml`, the documents, the pre-commit hook and its mode, scans, and
creates the baseline. Any of these can fail, `Kill` can leave a document blank
or broken, and the user edits at any time. `touched`, `named` and `wrote` are what the
run says it did, what its error names and what it did.

In `McpServer` messages wait in a pipe, one call is in hand at a time and
replies go through a buffer. `find_existing` and `status` look for the index,
open it and query it in three steps; other processes act in between. `Panic`
can hit any step of a call.

### Functions

Each of these modules has one variable, the input, and translates the code's
functions as operators. The references are said another way: as sets instead of
loops, from the outside in, or with an order left out.

* `ImportGraph`: `Resolve` against `Meant`, all files a path could mean; dead
  exports and files against the import statements of the text, also where the
  recovered tree has lost them. A text has the marks that open and close strings,
  templates and comments, and `stray` names those that are none (in a regular
  expression, a JSX text or the `${}` of a template). `Scan(t, {})` is `tokenize`, which
  cannot tell, `Scan(t, t.stray)` a scan that can; `Seen` is what the first one
  leaves as code.
* `Migrations`: a file is a list of statements, each in code, a comment, a
  string or a body; `Written` turns it into tokens, `strip_comments` (`Reader`)
  and the rest read them back, and `Says` is what the statements meant. Of the
  creates of a table the first stands for it, by file and then by line.
* `Versions`: each comparator orders what it reads. `MCVersions` writes down the order
  in which the registries publish a pool of versions (`Published`), and everything
  about the advice is said by that list: each comparator agrees with it
  (`OrderAsPublished`), the version named is newer by it than the installed one and
  closes its interval, and the order of the events is of no matter.
* `Lockfiles`: the key of a snapshot against the list it was asked about, and
  the identity of findings against what is installed.
* `SymbolTable`: `Tokens` gives back the words a name was `Written` from, in five
  styles; the symbol of a line against the symbols that cover it; the search against a
  ranking.
* `TestCases`: `Registers` is the runner's walk from the top, `RunnerSkips` what it
  skips, for being off or for a focus elsewhere in the file, and `CanFail` what can
  fail a case.
* `Sinks`: `Scan` on an expression against `Scan` on its `Bare` form, on a
  declared constant and in a test file; `Reads` says what is no constant.

`TestCases` and `Sinks` use RECURSIVE operators over trees. Theorems are
about `ImportGraph`, `Lockfiles` and the comparators of `Versions`.

## What is model-checked

Passing runs:

| Run | Instance | Question |
|---|---|---|
| `IndexingEdges.cfg` | two files, one importing the other, 2 concurrent runs, with and without `--changed`, 3 in all, one edit at any step | Do edges follow departing and returning files, is an undisturbed run's commit current, is what lost its last importer captured? |
| `IndexingCache.cfg` | one file with two texts and bytes that are not UTF-8, two rules, two configs of which one turns a rule off and excludes the file, 2 concurrent runs, whole or of named paths, 3 in all, one edit at any step, stats that may not answer | Are stored stats sound, and is a report true and complete? `IInv`, the inductive invariant, is checked here before it is proved |
| `HooksStop.cfg` | one file, two sessions, a cap of 1, one fault | Is the budget of rounds kept, is nobody let go too early, is the gate right, does the loop end? |
| `Storage.cfg` | baseline: two ids, two severities, two writers one after another, two reports, one kill; index: two builds in three processes, four databases, two faults; init: two documents with one entry each, one entry of the user's own, one edit | Does the baseline always parse and implement `SignedOff`, is the stamp true, do running processes share, does init keep what is the user's? |
| `OsvSnapshot.cfg` | two lockfiles (one with three packages in two requests, one empty), three advisories in two editions, two days, 2 processes and 2 runs in all, one damaged row | Is a report what the registry said within the time it owns up to, is no gap silent, does a failed batch cost one timeout, is a run repeatable offline? |
| `Reporting.cfg` | a test file, the file it imports and a third, four texts, two edits, any number of runs of all kinds, a lockfile and a migration with findings | Do answers depend on earlier runs only where they may? |
| `Answers.cfg` | rules: three rules in three builds, five configs, three files; server: two messages, two events; functions: all inputs of the `MC` module | Is what locrin says what its rules say, once, in order, and right? |

Why the bounds are enough. Three runs over one index are a first one that fills
it and two that then overlap. `MaxWrites` counts the stamp every file starts with,
so one edit is left: it may fall between any two steps, and a stamp only has to be
older, equal or newer than the one in hand. `IndexingRename` has two. Two files are an importer and a target, and
two rules are the least that a partly cached file needs. A cap of one reaches
every branch of the counter (below it, at it, past it) and two sessions share
the watermark. Four databases let each of three processes hold one of its own
while a fourth has the name. Three inodes are the name, the temporary name and
one still open, and a fourth is spare. `sent` saturates at `SentCap`, one past
what `BlocksBounded` can allow.

Two runs of a dependency check are one that stores and one that meets what it
stored, also half way; two days are enough for a row to be fresh or old, with
`MaxAge` 1 in place of 30; three ids are the least with a chain of aliases.

In `Reporting` two edits make and break an import or a skip, and three files are
a chain. In `Rules` the builds differ from a release in a language and in a
body, the configs in what each kind of override can say, and one text holds the
same line four times, once outside the function and once allowed. Two messages
are an answer overtaken or lost. The inputs of the functions are enumerated in
each `MC` module: every list of two events over eight spellings of a version, and
of three events over four of them, in four schemes; every one or two import statements, whole or recovered,
over a module, an index file, a library, a declaration and a stylesheet,
with and without a tsconfig that inherits in a circle; every form of a case
around every one or two statements under two suites.

Deadlock is not checked (`CHECK_DEADLOCK FALSE`) because every counter of edits,
runs and faults is bounded and a model that has used them up stops; the code has
no such end.

The properties:

* `StatSound`: a matching stat means the recorded text.
* `ReportTrue`, `ReportComplete`: a whole-repository report against what each
  file held during the run, for served and for parsed files.
* `CommitCurrent`, `EdgesCurrent`, `LostTargetsCaptured`: the graph.
  `CommitCurrent` also says that an undisturbed run stores the stats it took, so
  that the next one opens nothing it need not. `EdgesCurrent` is about imports
  with a single candidate, see the findings for two.
* `BlocksBounded`, `ToldBeforeSilence`, `HeldUntilFixed`, `CommitGated`,
  `LoopEnds`: the hooks. `CommitGated` says what the gate can promise: it reads
  the tree, so a staged text edited away in the tree afterwards is not seen
  (`README.md:161` of the repository says as much).
* `NeverMislabelled`, `ReadyShares`: opening.
  `NeverMislabelled` leaves out databases whose creation was cut short: those
  have tables of one build and no `meta`, which the next build stamps as its own.
* `BaselineReadable`, `KeepsPromise`: the baseline.
* `InitSafe`: a run names every file it put bytes in, however it ends; entries the
  user left survive (unless a kill cut a write short or an edit raced the plan);
  none is doubled; after a run that ended well a second one changes nothing.
* `DiffAnswersTree`: a `--base` or `--since` answer is that of a fresh checkout.
  It leaves out base revisions whose test files do not parse: then the index's
  memory is used after all, and the answer depends on it.
* `NewlyDeadTold`, `NewlyHonest`, `CapKeepsBlockers`: what a change left
  unimported is named by the run that sees it, "(newly)" is said only where a
  version without the skip was seen, and a capped verdict shows why it blocks.
* `ServedTrue`, `LockHolds`, `IdsApart`: the registry and its cache. `IdsApart` is about
  findings reported as lines; those a rule names share an id, see the divergences.
* `AnswersKept`: what was sent is the answers owed, once each and in order, and
  "nothing exists" is never said of an index that held no file.
  `EveryoneAnswered`: every line that is owed an answer has it in the end.
* `GraphSafe`, `RlsTold`: imports and the graph rules; migrations. `DeadIsDead`, in
  `GraphSafe`, speaks of `Heard`: every statement of a text that parses, and of a
  broken one the specifiers its recovered tree kept and the statements that are
  `Legible`, which stand in code with stray marks before them that cost no more than
  their own line, as `imports.rs:216-220` promises. What the scan loses otherwise is
  listed under the divergences.
* `AdviceGrounded`: what the advice about a version rests on. A comparator orders
  what it reads, one snapshot key is one list, two versions are two findings.
  `AdviceSafe`: the advice, held to the list of published versions. Where a range is
  about a version its registry does not order (`1.10.0.1` in an npm range), it only
  asks that what is named is a fix of a range with an order of the package's own
  entry.
* `TreesTold`: `SymbolsSafe`, `CasesTold` and `SinksTold`, each the conjunction of
  the properties at the end of its module. In a file without a focus the extractor
  skips what the runner skips; beside one it skips nothing the runner runs. A helper is
  followed where a statement calls it or the case names it, one level deep.
* `ReportHonest`, `SkipTold`, `DownCostsOne`, `Reproducible`: advisories.
  `DownCostsOne` is about a batch request that fails; see the divergences for
  the other case. `Reproducible` compares an offline run with the last complete
  one while no one else stored or damaged a row: the registry may have changed
  and days passed.

**Fairness.** `LoopEnds` and `EveryoneAnswered` are liveness properties.
For the server, weak fairness of `Serve`: the loop reads while there is a line,
and every tool returns (the gate's waits are bounded by its timeouts). Nobody has to send. For the
hooks, `Fairness` assumes weak
fairness of `HookRuns(s)`, because every wait of the hook ends
(`recv_timeout` around the worker) and nothing else can disable a hook for good,
and of `AgentStops(s)`, because an agent that was sent back tries to stop
again. Neither edits nor commits are fair, and nothing is assumed of the person.

Runs that end in a counterexample, each a place where the code does not do what
the repository says (quoted in `PROJECT.json` under `findings`):

| Run | What it shows |
|---|---|
| `IndexingRename.cfg` | The list of importers to repair is taken before departed files are unlinked: when `a.ts` becomes `a/index.ts` in one run, the importer of `./a` stays unresolved. |
| `HooksUnborn.cfg` | Without a first commit, Stop uses `--changed`, whose watermark its own check moved: the second stop is let go with the finding in place. |
| `IndexOpenRush.cfg` | Of two processes starting on a fresh index, the second can take the database, not stamped yet, for a stale one and delete it. |
| `BaselineOverlap.cfg` | Two baseline commands share one temporary name, and one renames what the other is still writing. |
| `SkipReported.cfg` | A run that records a test file and does not report it (it ends before its cache is written, or answers for other files) leaves the next report without the new skip. |

Other divergences met while modelling, without a run of their own: `run.rs:563`
calls pruning always safe, but a run whose walk is older than another's record
prunes that record until the next run; `run.rs:516` calls every file of the
repair pass unchanged, but it may have been edited since the main pass; a kill
between saving the round and answering lets the hook reach its silence without a
word (`hook/mod.rs:302-303`); `osv.rs:18-19` says an unreachable registry costs one timeout and not one per
advisory, but a run that uses a batch row younger than a day makes no batch
request, and then each detail that is missing or too old waits for a timeout of its
own; `git.rs:211-212` speaks of what is about to be
committed where the tree is checked; and a finding whose configured severity
rose after it was accepted is still filtered (`baseline.rs:14-16` against the
filter at 153-157).

Met in this part of the work:

* `rules/src/lib.rs:533` calls the fingerprint a hash of "everything the rule set
  declares about itself"; `fingerprint_of` leaves out `locked`, `scope` and
  `category`. A build that only locks a rule must raise the revision.
* An import of a file that is excluded when its importer is recorded stays external
  after the file is included: the repair pass only revisits unresolved edges.
* A skip in a text that did not parse is stored as far as the recovered tree has
  it, so an old skip can be called new once the text parses again.
* `init`: a kill between writing the pre-commit hook and making it executable
  leaves one that git ignores and a second run calls unchanged; a kill inside a
  write leaves the document blank, and a blank document is merged as an empty one;
  an edit between plan and write is overwritten.
* `status` says it only reads, but the index may go after it looked, and opening
  creates one.
* `resolve.rs`: `..` from a directory at the root names the root, whose candidate
  `/index.ts` is no path of the index; and when all targets of the longest
  matching alias are external, shorter ones are still tried.
* `version_cmp` compares as strings what it cannot read, which orders pairs but not
  triples of mixed versions (`1.10`, `1.9` and a word between them); the comment at
  `osv.rs:609-611` says that every boundary parsed, which `version_cmp`, answering for
  whatever it is given, does not ensure. So a SEMVER range may name an older release:
  with `1.10.0.1` installed and a fix in `1.9.0` the strings say that `1.9.0` is the
  upgrade, and the comment on `fixed_for` calls that "a wrong instruction"
  (`osv.rs:415-416`). `OrdersVersions` and `AdviceSafe` speak of what is read; of such a
  mixture `AdviceSafe` asks only that a fix of an own range is named. The sort is
  modelled as insertion.
* Two prereleases of one version (`1.0-1` and `1.0-rc1`) are one version to a SEMVER
  range; `osv.rs` says so and `Published` has them in one set, npm orders them.
* `imports.rs:317-320` says that the syntactic extraction is partial and "this text
  scan is not", and that a file it cannot read "must never make another file look
  dead". The scan does lose specifiers: on the line of a stray quote, as
  `imports.rs:216-220` says; and more than "that one line" when a template or a comment
  of several lines opens behind the quote on it, for then the scan comes out of step; up
  to the next backtick or the end of the file behind a stray backtick, up to the next
  `*/` behind a stray `/*`; inside the `${}` of a template; and when the specifier
  itself is written with an escape. A file that only such an import takes is reported
  dead. `DeadIsDead` leaves these out.
* `finding.rs:77-82` says that a rule which reports a class anchors on the class. Beside
  secrets and routes, `unused-import` (specifier and name), `test-no-assert` and
  `test-newly-skipped` (the name of the case) do so too, and two cases of one name in
  one file are two lines with one id: accepting one accepts the other.
* `pypi_name` turns `_` into `-` but leaves dots and runs, although its comment
  cites PEP 503.
* Two acronyms in a row are one token in camel case; a one-letter word with a
  digit behind an acronym (`IDB6`) does not come apart.
* `rls.rs` never forgets a table that is dropped.
* `testcases.rs:1-2` says the extractor knows "whether the runner will skip" a case. It
  looks at no focus: beside `it.only`, `fit` or `describe.only` the runner skips the
  other cases of the file, and they are recorded as run and may be reported as
  unchecked. `xcontext`, `describe.skip.each` and `it.skip.each` are not seen as
  skipped.
* `test-no-assert`: an assertion in a function declared inside a case counts although it
  is never called. A helper that a body hands on by its name (`items.forEach(checks)`)
  is not looked into, nor is the helper of a helper, so a case that only they can fail
  is reported.
* `injection-sink`: a command line given to an unknown object's `exec` is filed as
  a command when it is written there and as SQL when it is a constant above.

## What is proved

Eight modules hold theorems, each for any number of files, processes, writers,
messages and edits, and any bounds. A theorem is proved from the named
assumptions on the constants, which TLC evaluates in the runs, and from no other
fact; a hypothesis a theorem adds is in its statement and in the tables. For
each component the conjuncts of the inductive invariant are definitions of their
own, each with a lemma that every action keeps it; the theorem combines them.

### Indexing (`IndexingProofs`)

Assumptions: `DataAssumption` (special values differ from ordinary ones, the
constant functions have their types) and `NoneAssumption`.

| Theorem | States |
|---|---|
| `Invariance`, `TypeCorrect`, `StatSoundness` | `Spec => []IInv`, `[]TypeOK`, `[]StatSound` |
| `RunsInvariance` | `Spec => []RunsInv` |
| `ReportHonesty`, `ReportWhole` | `Spec => []ReportTrue`, `[]ReportComplete` |
| `CommitsCurrent` | `Spec => CommitCurrent` |
| `EdgesPoint` | `Spec => []PointsAtRow`: a resolved edge points at a row |
| `SoleImportsHeal` | `Spec => []SoleCurrent`: an import only one file can answer to is not left unresolved |
| `EdgesStayCurrent` | `Unrivalled`: `Spec => []EdgesCurrent` |
| `SoleTargetsCaptured` | `Spec => SoleCaptured`: a candidate that loses the last import only it can answer to is captured |
| `TargetsCaptured` | `Unrivalled`: `Spec => LostTargetsCaptured` |

`StatSound` speaks of committed rows only. A row becomes committed from `work`,
where it was put from a text and a stat in some run's hands, taken at two moments
with edits between. So `IInv` adds `StampsSound`: no stamp is ahead of the
clock, and the pair (hash, stat) is sound in `rows`, in `work`, and in every
run's memory; `InHand`: `got[r][f]` is a text exactly for the files in `pending`
or `parsed`; and `Phases`: which working sets may overlap in which phase, so that
a stat is never retaken for a file whose text is in hand. The order of the two
system calls is what makes it true. The stat is taken first, so an edit between
the two gives the disk a stamp above every one in use, and the older stat
matches nothing again (`Write`, in `StampsStep`). With the order reversed
(`StatAfterRead`) TLC finds an unsound row in `IndexingCache.cfg`.

`RunsInv` is about what a run knows. `LockHeld` says one run records at a time.
For reports: `SeenTrue`, a run's texts were on disk while it went; `CachedTrue`, the cached
rows of a file are of one text and one config; `AnsweredTrue` and `Covered`, what has
been answered is of such a text and nothing was dropped. For commits: `Present`,
a candidate the run is through with has a row; `HandFresh` and `WorkFresh`, that row
and the stat in hand are what is on disk as long as nothing disturbed the run,
however many runs recorded other things before it got the lock.

`PointInv` and `OpenInv` are the two halves of `EdgesCurrent`. A resolved edge of
the transaction may point ahead of it, at a candidate still to be recorded
(`PointsAhead`); an unresolved edge whose target is there is an old one that awaits
the repair pass (`AwaitsRepair`), because the run that brings the target is one
that re-resolves everything unresolved. The second half needs specifiers that
only one file can answer to (`Sole`; `Unrivalled` is that of all), and so does
the capture of lost targets (`LostInv`). That is not timidity of the proof. With two
files competing for a specifier both properties are false of the code:

* `IndexingRename.cfg` leaves an import unresolved whose second candidate arrived
  while its first one left;
* let `a` import something that may be `b` or `c`, now `c`, and something else
  that resolves to nothing. When `b` appears, the repair pass revisits `a` for its
  unresolved import, and the other edge moves from `c` to `b` with it. `before` was
  completed before the repairs (`run.rs:430`, `run.rs:522`), so the run is not told
  that `c` lost its importer, although `run.rs:84-90` says "the link has to be
  captured while it still exists or a `--changed` run could never report the finding
  it caused". TLC finds it with four files, one run and two edits; the instance of
  `IndexingEdges.cfg` has no such pair.

### Agent hooks (`AgentHooksProofs`)

Assumption: `HooksAssumption`.

| Theorem | States |
|---|---|
| `TypeCorrect` | `Spec => []TypeOK` |
| `RoundsBounded` | `Spec => []BlocksBounded` |
| `NeverSilentUntold` | `Spec => []ToldBeforeSilence` |
| `HeldWhenBorn` | `Spec /\ head # NoHead => HeldUntilFixed` |
| `GateHolds` | `Spec => CommitGated` |

`IInv` is there because `BlocksBounded` counts answers while the hook counts
before it answers: `Budget` says that every round sent is in the saved counter or
was forgotten with a lost write, and that a hook between its count and its
answer has room for the one it is about to send; `CounterInHand` that until then
it holds the counter it loaded. `CapTold` ties a counter past the cap to a
message, given or due, and needs that nothing failed. `HeldInScope` follows a
file an agent was sent back for through the diff and the verdict of the next hook,
and needs a first commit: it is what fails in `HooksUnborn.cfg`. `GateHolds`
needs only types.

### Answers (`AnswersProofs`)

Assumptions: `RulesAssumption`, the types of the constants, and
`RevisionAssumption`, described under Rules. The parts other than Rules need none.

| Theorem | States |
|---|---|
| `AnchorsApart` | two lines of a text with one anchor are one line |
| `CacheIsTrue`, `ServedIsTrue` | `Spec => []IInv`, `[]ServedTrue` |
| `LockIsHeld` | `Spec => []LockHolds` |
| `IdsAreApart` | `Spec => []IdsApart` |
| `ServerAnswers` | `AnswersSpec => AnswersKept` |
| `LegibleIsSeen` | the scan is in code where a legible specifier stands, in any text |
| `GraphHolds` | `GraphSafe` of every `Repository` |
| `GraphIsSafe` | `AnswersSpec => []GraphSafe` |
| `AdviceOrders` | `OrdersVersions` of every document and installed version (`MatchOf`) |
| `LocksHold` | `LocksSafe` of any two trees of lockfiles (`LockTree`) |
| `AdviceIsGrounded` | `AnswersSpec => []AdviceGrounded` |

Rules. `ServedTrue` speaks of the last report; the cache it was served from was
written by other builds under other configs. `CacheTrue`, in `IInv`, says of every
row that some build and some config with the row's key would find this in the
row's text; `KeyDetermines` is the heart of the proof: equal keys mean equal
configs, and rules that run on the same files with the same severities and bodies.
`LockIsHeld` compares two configs rule by rule through what the engine asks of
each (`LockedSame`). `AnchorsApart` counts earlier lines that read alike: of two
lines with the same text and symbol the later one has strictly more before it
(`EarlierGrows`). `IdsAreApart` rests on `ServedIsTrue` as well: a finding may be served
from a row another build wrote, and it is reported as a line only if that build's rule
did so too.

Server. `ServerInv` says that the pipe holds what was sent and not taken
(`PipeHolds`), that the call in hand is the last message taken (`CallIsLast`), and that
what was written answers everything taken but the call in hand, once each and in order
(`AnsweredSoFar`). `FilesWereHeld` follows a call through look, open and query:
files it meets in the index were held during the call, whatever other processes do
in between. Messages and events may be any number.

Graph. A `Repository` has patterns and specifiers made of segments, and config files
that give a pattern one entry, as an object of JSON does. `NeverGuesses` and
`LongestWins` come down to where a sequence of candidates has its first hit, and to a
chain of `extends` as long as the chain may be. `DeadIsDead` compares the edges of the
index with the texts statement by statement; of a broken one it needs that the scan
finds what is legible (`LegibleIsSeen`), whatever marks the text holds and however many.
The proof follows two scans side by side, the code's and one that passes the stray
marks: at a stray quote they part, neither is in a template or a comment of several
lines until the line ends, and there they meet again. `Repository` asks of a text only
that its statements stand at marks of it (`IsText`). `OnePerLine` needs nothing: two
findings with one key are one line.

Versions. A key is a sequence of sequences of numbers, and `Precedes` orders those
as derived `Ord` does: irreflexive, total and transitive, because two sequences differ
first in one place. What is left is that the keys of each reader are such sequences and
of one length (`SemverTyped`, `ComposerTyped`, `Pep440Typed`), whatever suffixes and
labels a version has.

Lockfiles. `InOrder` lists a finite set by rank: under a total order each rank up to
the cardinality is taken exactly once (`InOrderLists`), and lists of one set in one
order are one list (`ListsAgree`). So `Normalize` keeps one row of each version, the
one on the smallest line, and what it lists is determined by the set of versions,
which is what the key hashes.

### Reporting (`ReportingProofs`)

Assumptions: `ReportingAssumption` and `NoneAssumption`.

| Theorem | States |
|---|---|
| `Invariance` | `Spec => []IInv` |
| `NewlyIsHonest` | `Spec => []NewlyHonest` |
| `DeadIsTold` | `Spec => []NewlyDeadTold` |
| `DiffIsTree` | `Spec => []DiffAnswersTree` |
| `CapIsHonest` | `Spec => []CapKeepsBlockers` |

Everything rests on `IndexFresh`: whatever index a run finds, it leaves the one a
fresh checkout would get. It needs the conjunct `Exact` of `IInv`: a row's imports
are exactly those that name a file with a row. So an import of an unchanged file
can come to resolve only when a file is new, and then the repair pass revisits
it. `DiffIsTree` follows with `DiffTree`: a diff run parses its whole scope and asks
git, so neither table nor cache is left in its answer. `DeadIsTold` compares the
two indexes: who had an importer and lost it had one whose row the run replaces or
deletes, and those are captured (`BereftBefore`). `NewlyIsHonest` needs the history
(`Remembered`) and that cached findings were honest when written (`CacheHonest`).

### The files locrin keeps (`StorageProofs`, `IndexOpenProofs`)

Assumptions: `BaselineAssumption`, `OpenAssumption`, `InitAssumption` (with the two
documents init merges into). `StorageSpec` puts the three parts side by side; each
of its behaviors is one of each part (`BaselinePart`, `OpenPart`), and the theorems
about a part carry over.

| Theorem | States |
|---|---|
| `StorageTyped` | `StorageSpec => []StorageType` |
| `StampsTrue`, `RunsShareOne` | `StorageSpec => []NeverMislabelled`, `[]ReadyShares` |
| `InitIsSafe`, `InitStaysSafe` | `InitSafe` of `InitRun` by itself, and `StorageSpec => []InitSafe` |
| `AlwaysReadable` | `Overlap = FALSE`: `Spec => []BaselineReadable` |
| `Refinement` | `Overlap = FALSE`: `Spec => KeepsPromise`, and `StorageReadable` both for `StorageSpec` |
| `IndexOpenProofs!TypeCorrect` | the types of `IndexOpen`, also with `Rush` |

`Overlap = FALSE` and `Rush = FALSE` (in `MCStorage`) are environments, not
assumptions about the code: `BaselineOverlap.cfg` and `IndexOpenRush.cfg` show what
goes wrong without them. Types hold either way.

Baseline: the writer that works is alone (`OneWrites`), so the temporary name
names what it opened and never what the baseline's name names (`NamesApart`); a rename
finds the whole of what the writer holds (`WholeWritten`); and that is a snapshot some
check found, the file as it is, or the file and one reported finding more (`Earned`). The
last is what turns a rename into a step of `SignedOff` (`PromiseStep`); every other step
is a stutter, because nothing else changes what the name shows (`Shown`).

Opening: one process opens at a time (`OneOpens`) and has the file at the path
(`OpensPath`); whoever is ready beside it sees a checker that agrees with its stamp, and
a remover only after damage (`ReadyKeeps`); the tables in a creator's hands are its own
(`InHandTrue`); without `meta` there are no tables unless a creation was cut short
(`FreshEmpty`), which is what `schema_matches` takes for granted.

Init: `ToldInv` ties what has been written to what has been said, step by step, so that an
error or a kill at any of them leaves a true account; `PlanInv` keeps a plan at least what the
document had and never both forms of an entry; `CalmInv` says that a run nothing disturbs
leaves everything behind it complete and finds the rest as planned; `SettledInv` that
after such a run nothing is left to do.

### Advisories (`OsvProofs`)

Assumptions: `OsvAssumption` (at least one lockfile, finitely many ids, and types) and
`NoneAssumption`.

| Theorem | States |
|---|---|
| `Invariance`, `TypeCorrect` | `Spec => []IInv`, `[]TypeOK` |
| `HonestReport` | `Spec => []ReportHonest` |
| `SilenceTold` | `Spec => []SkipTold` |
| `OneTimeout` | `Spec => []DownCostsOne` |
| `SameAnswerOffline` | `Spec => Reproducible` |

A stored row says what the registry said on or after the day of its stamp
(`TablesTrue`), and so does what each run holds of it (`RunsTrue`), through
publications and days that pass between its requests; `PhasesTrue` is what each phase
has found out and told. `AloneTrue` says that the tables answer a run, beside whose reads
nobody stored and nothing was damaged, with exactly what it used, and `LastTrue` that they still do for the last such
report of a lockfile.

`OnePerFamily` is a union-find written as a fold over a set of pairs. `FoldUnfolds`
proves that `FoldSet` has a recursive form on every finite set, `FoldConnects` that the
classes are then the connected ones, whichever order the pairs are joined in, and
`FamiliesNamed` that one id is named per class. The induction is on the least number of
pairs for which the claim fails, since the library's induction rules cannot be used.

### Migrations (`MigrationsProofs`)

| Theorem | States |
|---|---|
| `TablesAreTold` | `RlsTold` of every repository (`IsRepository`) |
| `RunsAreTold` | `[]RlsTold` for the repositories a run starts from (`SqlInit`) |

`IsRepository` says that each migration is text `Written` from items, each a statement
in one of the five places, and that a place among the names of the directory is one
file's. Files, items and spellings may be any; the letters of identifiers come from a
set `Letters` that nothing is known of (`RunsAreTold` needs those of the run in it). The reader's depth is bounded by what
the items hold, but it meets them one after another, so the proof has to show that it
comes out of each as it went in: `ReadsCode` to `ReadsBody` follow it through the tokens
of one item, and `TextLeaves` says that it is in code at every item of a text, by
induction on the least item where it would not be. `FlattenPlaces` says where each
item's tokens stand in a text of any length. `EntriesAreSaid` ties the statements that
are left to what the items say, and `FirstEntry` finds the create that is reported.
Both recursions (`FlattenSeq`, `Reader`) are unfolded once each (`FlattenUnfolds`,
`ReaderUnfolds`).

### Only model-checked

* `LoopEnds` of the hooks and `EveryoneAnswered` of the server: liveness under
  fairness, out of the prover's reach.
* `AdviceSafe`: the sort of a range's boundaries and the walk along them are folds
  with an operator of their own, which the provers cannot unfold, and the list it is
  judged by is one of a pool of versions. Nothing like it holds of documents that mix in
  what `version_cmp` does not read: see the divergence.
* `TreesTold`: `TestCases` and `Sinks` use RECURSIVE operators, which the prover
  cannot reason about, and `SymbolTable` is folds over trees and texts.
* The runs with a counterexample.

## What is not modelled, and the plan

Not modelled for good: the grammars (`parse.rs`, third-party parsers; a text is
whole or broken here), the other file rules (pattern matches over one tree,
without state: in `Rules` a rule's body is a set of lines), how each lockfile
format is spelled, reporters, hook wording, argument parsing, distribution
scripts and the spike. Glob matching and the parallel walk stay sets of paths.

Next:

1. Proofs: that the version named closes its interval for ranges whose boundaries all
   parse, under any total order, with the sort and the walk written as recursive
   functions as `Reader` is.
2. `SkipReported` of `Reporting` under the hypothesis that no run is cut and every run is of
   the whole repository, as a theorem beside the run that refutes it in general.
3. The rules of `secrets` and `express` that combine several lines.
