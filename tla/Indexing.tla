------------------------------ MODULE Indexing ------------------------------
(***************************************************************************)
(* Recording runs over one repository's index: crates/cli/src/run.rs       *)
(* (pass, index_files, write_cache) on the tables of core/src/index.rs,    *)
(* edges.rs and cache.rs.                                                  *)
(*                                                                         *)
(* A run walks the working tree, takes the index's write lock, stats and   *)
(* reads the files it cannot vouch for, records the changed ones, repairs  *)
(* importers, prunes departed files and commits; the findings cache is     *)
(* written in a second transaction.  An editor changes files at any moment *)
(* and several runs (an editor hook beside a terminal) share the index.    *)
(*                                                                         *)
(* Abstractions.  The text of a file stands for its hash.  A specifier is  *)
(* an import already joined to its importer's directory, with the paths it *)
(* may resolve to in probing order.  What one rule finds in one file is a  *)
(* function of the text and the config, so a set of findings is named by   *)
(* that pair.  Candidates are visited in any order, not only in path order.*)
(***************************************************************************)
EXTENDS Naturals, Sequences

CONSTANTS
  Files,        \* repo-relative paths
  Texts,        \* the UTF-8 texts a file may hold
  Binary,       \* bytes that are not UTF-8
  Gone,         \* no such file on disk
  None,         \* no row, no file, no holder
  Mute,         \* files whose stat may be zero: no answer, or an empty file
  Specs,        \* import specifiers
  SpecsOf,      \* SpecsOf[t]: the specifiers text t imports
  Candidates,   \* Candidates[s]: the paths s may name, in probing order
  Rules,        \* file rules
  Configs,      \* contents of the config file
  EnabledBy,    \* EnabledBy[k]: the rules config k runs
  ExcludedBy,   \* ExcludedBy[k]: the files config k keeps out of the walk
  Modes,        \* how runs are asked: "repo", "changed", "paths"
  Runs,         \* processes that may run a check
  MaxWrites,    \* bound on the clock: the first stamp and the edits
  MaxRuns       \* bound on the runs started

ASSUME DataAssumption ==
  /\ Binary \notin Texts /\ Gone \notin Texts /\ Binary # Gone
  /\ None \notin Files \cup Runs \cup Texts
  /\ SpecsOf \in [Texts -> SUBSET Specs]
  /\ Candidates \in [Specs -> Seq(Files)]
  /\ EnabledBy \in [Configs -> SUBSET Rules]
  /\ ExcludedBy \in [Configs -> SUBSET Files]
  /\ Modes \subseteq {"repo", "changed", "paths"}
  /\ MaxWrites \in Nat /\ MaxRuns \in Nat

VARIABLES
  disk,      \* disk[f]: the content and the stat of f in the working tree
  clock,     \* the last modification stamp the filesystem gave
  rows,      \* committed `files` rows with their `edges`
  cache,     \* committed `findings_cache` rows, per file and rule
  lock,      \* the run inside BEGIN IMMEDIATE .. COMMIT, or None
  work,      \* `rows` as the lock holder's transaction sees them
  pc, mode, config, scope,
  cand,      \* cand[r]: the candidates (walk plus named paths)
  cached,    \* cached[r]: what cache::load_all returned
  todo,      \* candidates (or repairs) not visited yet
  at,        \* the file between its stat and its read, or None
  stat, got, \* stat[r][f] and got[r][f]: the stat taken, the text read
  pending,   \* read but not recorded yet
  changed,   \* recorded with a new hash: the --changed scope
  anyNew,    \* the runs that recorded a file the index had never seen
  parsed,    \* `files`: what the rules run over
  before,    \* targets of the edges this run replaced or deleted
  answered,  \* answered[r][f][x]: the findings of rule x the report holds
  started,   \* runs started so far
  window,    \* history: contents each file had while the run was going
  quiet,     \* history: the runs no edit has disturbed
  wasBinary  \* history: files that have held Binary

tree  == <<disk, clock, wasBinary>>
db    == <<rows, cache, lock, work>>
opts  == <<mode, config, scope, cand, started>>
reads == <<stat, got>>
hist  == <<window, quiet>>
vars  == <<tree, db, opts, reads, hist, pc, cached, todo, at, pending,
           changed, anyNew, parsed, before, answered>>

-----------------------------------------------------------------------------
(* Faulty forms of operators below: the bugs the properties would catch. *)

(* The stat taken after the read. *)
StatAfterRead(r, f) == disk[f].stat

(* refresh_stat left out. *)
NotRefreshed(f, s) == work

(* The edges about to be replaced or deleted are not captured. *)
NoTargets(f) == {}

(* A hit whatever text or config the cached rows are of. *)
ServesStale(r, f, h) ==
  \A x \in EnabledBy[config[r]] : cached[r][f].byRule[x] # None

(* A hit when some of the enabled rules have a row. *)
ServesSome(r, f, h) ==
  /\ cached[r][f].key = [hash |-> h, config |-> config[r]]
  /\ \E x \in EnabledBy[config[r]] : cached[r][f].byRule[x] # None

(* The repair pass left out. *)
NoRepairs(r) == {}

(* remove_missing left out. *)
NoneDeparted(r) == {}

(* remove_missing deletes rows and leaves the edges that point at them. *)
KeptLink(e, lost) == e

(* remove_missing clears the target and leaves the resolution. *)
HalfUnlinked(e, lost) == IF e.to \in lost THEN [e EXCEPT !.to = None] ELSE e

-----------------------------------------------------------------------------
(* The tables. *)

Edge == [spec : Specs, res : {"resolved"}, to : Files] \cup
        [spec : Specs, res : {"external", "unresolved"}, to : {None}]
Row == [hash : Texts, stat : Nat, edges : SUBSET Edge]
Found == [hash : Texts, config : Configs]
NoFindings == [x \in Rules |-> None]

NoCached == [key |-> None, byRule |-> NoFindings]

ASSUME NoneAssumption == None \notin Row \cup Found

OnDisk(f) == disk[f].content # Gone

(* Resolver::probe: the first candidate that is indexed, else External when *)
(* one is on disk, else Unresolved.                                         *)
Resolve(s, indexed) ==
  LET hits == {i \in DOMAIN Candidates[s] : Candidates[s][i] \in indexed}
      first == CHOOSE i \in hits : \A j \in hits : i <= j
  IN  CASE hits # {} ->
             [spec |-> s, res |-> "resolved", to |-> Candidates[s][first]]
        [] hits = {} /\ \E i \in DOMAIN Candidates[s] : OnDisk(Candidates[s][i]) ->
             [spec |-> s, res |-> "external", to |-> None]
        [] OTHER -> [spec |-> s, res |-> "unresolved", to |-> None]

EdgesOf(t, indexed) == {Resolve(s, indexed) : s \in SpecsOf[t]}

(* The stat stored beside a hash is the one taken before the read. *)
StatToStore(r, f) == stat[r][f]

(* record_with_stat, for a text that was just read or is in hand. *)
Recorded(r, f, t, s) ==
  [hash |-> t, stat |-> s, edges |-> EdgesOf(t, cand[r])]

(* Index::unchanged_by_stat.  Zero is "the filesystem did not answer". *)
UnchangedByStat(f, s) ==
  s # 0 /\ work[f] # None /\ work[f].stat = s

(* Index::refresh_stat: only an existing row, and never with a zero. *)
Refreshed(f, s) ==
  IF work[f] # None /\ s # 0 THEN [work EXCEPT ![f].stat = s] ELSE work

HasUnresolved(f) ==
  work[f] # None /\ \E e \in work[f].edges : e.res = "unresolved"

Targets(f) ==
  IF work[f] = None THEN {} ELSE {e.to : e \in work[f].edges} \ {None}

(* cache::load_all.  Rows come back in no stated order; the first one of a  *)
(* file gives the key and the rows that disagree with it are left out.      *)
Grouped(f, first) ==
  [key |-> cache[f][first],
   byRule |-> [x \in Rules |->
                 IF cache[f][x] = cache[f][first] THEN cache[f][x] ELSE None]]

(* serve: every enabled rule, for exactly this hash under this config. *)
Serves(r, f, h) ==
  LET entry == cached[r][f]
  IN  /\ entry.key = [hash |-> h, config |-> config[r]]
      /\ \A x \in EnabledBy[config[r]] : entry.byRule[x] # None

Served(r, f) ==
  [x \in Rules |->
     IF x \in EnabledBy[config[r]] THEN cached[r][f].byRule[x] ELSE None]

Fresh(r, f) ==
  [x \in Rules |-> IF x \in EnabledBy[config[r]]
                   THEN [hash |-> got[r][f], config |-> config[r]] ELSE None]

ReportAll(r) == mode[r] = "repo"

(* file_stat: the stat on disk, or zero (no answer from it, or no bytes). *)
StatAnswers(f) == {disk[f].stat} \cup (IF f \in Mute THEN {0} ELSE {})

-----------------------------------------------------------------------------
(* The editor. *)

Running(r) == pc[r] \notin {"idle", "done"}

Seen(f, c) ==
  window' = [r \in Runs |-> IF Running(r) THEN [window[r] EXCEPT ![f] = @ \cup {c}]
                            ELSE window[r]]

(* Creates f, edits it, or saves it unchanged; every save moves the stat. *)
Write(f, c) ==
  /\ clock < MaxWrites
  /\ clock' = clock + 1
  /\ disk' = [disk EXCEPT ![f] = [content |-> c, stat |-> clock + 1]]
  /\ wasBinary' = IF c = Binary THEN wasBinary \cup {f} ELSE wasBinary
  /\ Seen(f, c)
  /\ quiet' = {}
  /\ UNCHANGED <<db, opts, reads, pc, cached, todo, at, pending, changed,
                 anyNew, parsed, before, answered>>

Delete(f) ==
  /\ OnDisk(f)
  /\ clock < MaxWrites
  /\ clock' = clock + 1
  /\ disk' = [disk EXCEPT ![f] = [content |-> Gone, stat |-> 0]]
  /\ Seen(f, Gone)
  /\ quiet' = {}
  /\ UNCHANGED <<wasBinary, db, opts, reads, pc, cached, todo, at, pending,
                 changed, anyNew, parsed, before, answered>>

-----------------------------------------------------------------------------
(* One run. *)

(* source_files: what the walk finds under a config's excludes. *)
Walk(k) == {f \in Files \ ExcludedBy[k] : OnDisk(f)}

(* What a run holds in memory and drops when it ends. *)
Scratch(r) ==
  /\ cached' = [cached EXCEPT ![r] = [f \in Files |-> NoCached]]
  /\ todo' = [todo EXCEPT ![r] = {}]
  /\ at' = [at EXCEPT ![r] = None]
  /\ stat' = [stat EXCEPT ![r] = [f \in Files |-> 0]]
  /\ got' = [got EXCEPT ![r] = [f \in Files |-> None]]
  /\ pending' = [pending EXCEPT ![r] = {}]
  /\ changed' = [changed EXCEPT ![r] = {}]
  /\ anyNew' = anyNew \ {r}
  /\ parsed' = [parsed EXCEPT ![r] = {}]
  /\ before' = [before EXCEPT ![r] = {}]

(* pass: the config, the walk and the named paths, before the index is open. *)
Start(r, m, k, named) ==
  /\ ~Running(r)
  /\ started < MaxRuns
  /\ started' = started + 1
  /\ (m = "paths") <=> (named # {})
  /\ \A f \in named : OnDisk(f)
  /\ mode' = [mode EXCEPT ![r] = m]
  /\ config' = [config EXCEPT ![r] = k]
  /\ scope' = [scope EXCEPT ![r] = named]
  /\ cand' = [cand EXCEPT ![r] = Walk(k) \cup named]
  /\ pc' = [pc EXCEPT ![r] = "walked"]
  /\ answered' = [answered EXCEPT ![r] = [f \in Files |-> NoFindings]]
  /\ window' = [window EXCEPT ![r] = [f \in Files |-> {disk[f].content}]]
  /\ quiet' = quiet \cup {r}
  /\ Scratch(r)
  /\ UNCHANGED <<tree, db>>

(* cache::load_all, before the run's transaction and only for a run that *)
(* answers for the whole repository.                                     *)
LoadCache(r) ==
  /\ pc[r] = "walked"
  /\ \E first \in [Files -> Rules] :
       /\ \A f \in Files : (\E x \in Rules : cache[f][x] # None) => cache[f][first[f]] # None
       /\ cached' = [cached EXCEPT ![r] =
            [f \in Files |-> IF ReportAll(r) THEN Grouped(f, first[f]) ELSE NoCached]]
  /\ pc' = [pc EXCEPT ![r] = "loaded"]
  /\ UNCHANGED <<tree, db, opts, reads, hist, todo, at, pending, changed,
                 anyNew, parsed, before, answered>>

(* Index::begin: BEGIN IMMEDIATE waits for the other writer. *)
Begin(r) ==
  /\ pc[r] = "loaded"
  /\ lock = None
  /\ lock' = r
  /\ work' = rows
  /\ todo' = [todo EXCEPT ![r] = cand[r]]
  /\ pc' = [pc EXCEPT ![r] = "main"]
  /\ UNCHANGED <<tree, rows, cache, opts, reads, hist, cached, at, pending,
                 changed, anyNew, parsed, before, answered>>

(* The main pass, one candidate at a time.  Trusted: the stat alone says   *)
(* the file is the one on record, and no scope asks for it by name.        *)
Trusted(r, f, s) == f \notin scope[r] /\ UnchangedByStat(f, s)

Visiting(r, f) == pc[r] = "main" /\ at[r] = None /\ f \in todo[r]

Leave(r, f) == todo' = [todo EXCEPT ![r] = @ \ {f}]

SkipByStat(r, f) ==
  /\ Visiting(r, f)
  /\ ~ReportAll(r)
  /\ \E s \in StatAnswers(f) : Trusted(r, f, s)
  /\ Leave(r, f)
  /\ UNCHANGED <<tree, db, opts, reads, hist, pc, cached, at, pending,
                 changed, anyNew, parsed, before, answered>>

ServeByStat(r, f) ==
  /\ Visiting(r, f)
  /\ ReportAll(r)
  /\ \E s \in StatAnswers(f) : Trusted(r, f, s)
  /\ Serves(r, f, work[f].hash)
  /\ answered' = [answered EXCEPT ![r][f] = Served(r, f)]
  /\ Leave(r, f)
  /\ UNCHANGED <<tree, db, opts, reads, hist, pc, cached, at, pending,
                 changed, anyNew, parsed, before>>

(* Anything else falls through to the read, the stat in hand. *)
TakeStat(r, f) ==
  /\ Visiting(r, f)
  /\ \E s \in StatAnswers(f) :
       /\ Trusted(r, f, s) => ReportAll(r) /\ ~Serves(r, f, work[f].hash)
       /\ stat' = [stat EXCEPT ![r][f] = s]
  /\ at' = [at EXCEPT ![r] = f]
  /\ UNCHANGED <<tree, db, opts, got, hist, pc, cached, todo, pending,
                 changed, anyNew, parsed, before, answered>>

Reading(r, f) == pc[r] = "main" /\ at[r] = f /\ f \in Files

Close(r, f) == at' = [at EXCEPT ![r] = None] /\ Leave(r, f)

(* Not UTF-8: one warning, and whatever the index holds stays. *)
ReadBinary(r, f) ==
  /\ Reading(r, f)
  /\ disk[f].content = Binary
  /\ Close(r, f)
  /\ UNCHANGED <<tree, db, opts, reads, hist, pc, cached, pending, changed,
                 anyNew, parsed, before, answered>>

NewText(f, t) == ~(work[f] # None /\ work[f].hash = t)

ReadChanged(r, f) ==
  /\ Reading(r, f)
  /\ disk[f].content \in Texts
  /\ NewText(f, disk[f].content)
  /\ got' = [got EXCEPT ![r][f] = disk[f].content]
  /\ pending' = [pending EXCEPT ![r] = @ \cup {f}]
  /\ before' = [before EXCEPT ![r] =
                  IF mode[r] = "changed" THEN @ \cup Targets(f) ELSE @]
  /\ Close(r, f)
  /\ UNCHANGED <<tree, db, opts, stat, hist, pc, cached, changed, anyNew,
                 parsed, answered>>

(* Touched, not edited: the stat is refreshed; then in scope it is parsed, *)
(* out of scope it is skipped, served, or parsed after a miss.             *)
ReadUnchanged(r, f) ==
  /\ Reading(r, f)
  /\ disk[f].content \in Texts
  /\ ~NewText(f, disk[f].content)
  /\ work' = Refreshed(f, StatToStore(r, f))
  /\ \/ /\ f \notin scope[r] /\ ~ReportAll(r)
        /\ UNCHANGED <<got, pending, answered>>
     \/ /\ f \notin scope[r] /\ ReportAll(r) /\ Serves(r, f, disk[f].content)
        /\ answered' = [answered EXCEPT ![r][f] = Served(r, f)]
        /\ UNCHANGED <<got, pending>>
     \/ /\ f \in scope[r] \/ (ReportAll(r) /\ ~Serves(r, f, disk[f].content))
        /\ got' = [got EXCEPT ![r][f] = disk[f].content]
        /\ pending' = [pending EXCEPT ![r] = @ \cup {f}]
        /\ UNCHANGED answered
  /\ Close(r, f)
  /\ UNCHANGED <<tree, rows, cache, lock, opts, stat, hist, pc, cached,
                 changed, anyNew, parsed, before>>

(* The recording pass: a changed file replaces its rows and its cached     *)
(* findings are cleared (`changed` names them; Commit publishes that); an  *)
(* unchanged one is only handed to the rules.                              *)
Record(r, f) ==
  /\ pc[r] = "main" /\ todo[r] = {} /\ at[r] = None
  /\ f \in pending[r]
  /\ pending' = [pending EXCEPT ![r] = @ \ {f}]
  /\ parsed' = [parsed EXCEPT ![r] = @ \cup {f}]
  /\ IF NewText(f, got[r][f])
     THEN /\ changed' = [changed EXCEPT ![r] = @ \cup {f}]
          /\ anyNew' = IF work[f] = None THEN anyNew \cup {r} ELSE anyNew
          /\ work' = [work EXCEPT ![f] = Recorded(r, f, got[r][f], StatToStore(r, f))]
     ELSE UNCHANGED <<changed, anyNew, work>>
  /\ UNCHANGED <<tree, rows, cache, lock, opts, reads, hist, pc, cached, todo,
                 at, before, answered>>

(* The repair pass: only when a file new to the index was recorded, and only *)
(* over importers that hold an unresolved edge at that moment.               *)
RepairList(r) ==
  IF r \in anyNew THEN {f \in Files : HasUnresolved(f)} \ changed[r] ELSE {}

StartRepair(r) ==
  /\ pc[r] = "main" /\ todo[r] = {} /\ at[r] = None /\ pending[r] = {}
  /\ todo' = [todo EXCEPT ![r] = RepairList(r) \cap (cand[r] \cup parsed[r])]
  /\ pc' = [pc EXCEPT ![r] = "repair"]
  /\ UNCHANGED <<tree, db, opts, reads, hist, cached, at, pending, changed,
                 anyNew, parsed, before, answered>>

(* An importer this run parsed already is recorded from what is in hand. *)
RepairParsed(r, f) ==
  /\ pc[r] = "repair" /\ at[r] = None
  /\ f \in todo[r] \cap parsed[r]
  /\ work' = [work EXCEPT ![f] = Recorded(r, f, got[r][f], StatToStore(r, f))]
  /\ Leave(r, f)
  /\ UNCHANGED <<tree, rows, cache, lock, opts, reads, hist, pc, cached, at,
                 pending, changed, anyNew, parsed, before, answered>>

RepairStat(r, f) ==
  /\ pc[r] = "repair" /\ at[r] = None
  /\ f \in todo[r] \ parsed[r]
  /\ \E s \in StatAnswers(f) : stat' = [stat EXCEPT ![r][f] = s]
  /\ at' = [at EXCEPT ![r] = f]
  /\ UNCHANGED <<tree, db, opts, got, hist, pc, cached, todo, pending,
                 changed, anyNew, parsed, before, answered>>

RepairRead(r, f) ==
  /\ pc[r] = "repair" /\ at[r] = f /\ f \in Files
  /\ OnDisk(f)
  /\ IF disk[f].content \in Texts
     THEN /\ got' = [got EXCEPT ![r][f] = disk[f].content]
          /\ work' = [work EXCEPT ![f] =
               Recorded(r, f, disk[f].content, StatToStore(r, f))]
          /\ parsed' = [parsed EXCEPT ![r] = @ \cup {f}]
     ELSE UNCHANGED <<got, work, parsed>>
  /\ Close(r, f)
  /\ UNCHANGED <<tree, rows, cache, lock, opts, stat, hist, pc, cached,
                 pending, changed, anyNew, before, answered>>

(* Index::remove_missing: the departed leave every table, and edges that   *)
(* pointed at them become unresolved.                                      *)
Departed(r) == {f \in Files : work[f] # None /\ f \notin cand[r]}

Unlink(e, lost) ==
  IF e.to \in lost THEN [spec |-> e.spec, res |-> "unresolved", to |-> None] ELSE e

Pruned(r) ==
  [f \in Files |->
     IF f \in Departed(r) THEN None
     ELSE IF work[f] = None THEN None
     ELSE [work[f] EXCEPT !.edges = {Unlink(e, Departed(r)) : e \in work[f].edges}]]

(* The end of index_files: the departed files' targets are captured, their *)
(* rows pruned, the transaction committed; a parse wins over a served row. *)
Commit(r) ==
  /\ pc[r] = "repair" /\ todo[r] = {} /\ at[r] = None
  /\ before' = [before EXCEPT ![r] =
       IF mode[r] = "changed" THEN @ \cup UNION {Targets(f) : f \in Departed(r)} ELSE @]
  /\ rows' = Pruned(r)
  /\ work' = Pruned(r)
  /\ cache' = [f \in Files |-> IF f \in changed[r] \cup Departed(r) THEN NoFindings
                               ELSE cache[f]]
  /\ lock' = None
  /\ answered' = [answered EXCEPT ![r] =
       [f \in Files |-> IF f \in parsed[r] THEN NoFindings ELSE @[f]]]
  /\ pc' = [pc EXCEPT ![r] = "rules"]
  /\ UNCHANGED <<tree, opts, reads, hist, cached, todo, at, pending, changed,
                 anyNew, parsed>>

(* The file rules over what was parsed, then write_cache in a transaction  *)
(* of its own: a row per parsed file and enabled rule, under the hash of   *)
(* the bytes this run read.                                                *)
RunRules(r) ==
  /\ pc[r] = "rules"
  /\ lock = None
  /\ cache' = [f \in Files |-> [x \in Rules |->
       IF f \in parsed[r] /\ x \in EnabledBy[config[r]]
       THEN [hash |-> got[r][f], config |-> config[r]] ELSE cache[f][x]]]
  /\ answered' = [answered EXCEPT ![r] =
       [f \in Files |-> IF f \in parsed[r] THEN Fresh(r, f) ELSE @[f]]]
  /\ pc' = [pc EXCEPT ![r] = "done"]
  /\ Scratch(r)
  /\ UNCHANGED <<tree, rows, lock, work, opts, hist>>

(* The run ends without a verdict; an open transaction rolls back. *)
Stop(r) ==
  /\ pc' = [pc EXCEPT ![r] = "idle"]
  /\ lock' = IF lock = r THEN None ELSE lock
  /\ work' = IF lock = r THEN rows ELSE work
  /\ scope' = [scope EXCEPT ![r] = {}]
  /\ cand' = [cand EXCEPT ![r] = {}]
  /\ answered' = [answered EXCEPT ![r] = [f \in Files |-> NoFindings]]
  /\ window' = [window EXCEPT ![r] = [f \in Files |-> {}]]
  /\ quiet' = quiet \ {r}
  /\ Scratch(r)
  /\ UNCHANGED <<tree, rows, cache, mode, config, started>>

(* read_source: a candidate that is gone by now fails the whole run. *)
ReadFails(r, f) ==
  /\ pc[r] \in {"main", "repair"} /\ at[r] = f /\ f \in Files
  /\ ~OnDisk(f)
  /\ Stop(r)

(* The busy timeout runs out behind another writer. *)
Busy(r) ==
  /\ pc[r] \in {"loaded", "rules"}
  /\ lock # None
  /\ Stop(r)

(* Killed, timed out by the hook's watchdog, or any other error. *)
Kill(r) ==
  /\ Running(r)
  /\ Stop(r)

-----------------------------------------------------------------------------
Init ==
  /\ disk \in [Files -> [content : Texts \cup {Binary}, stat : {1}]
                        \cup {[content |-> Gone, stat |-> 0]}]
  /\ clock = 1
  /\ wasBinary = {f \in Files : disk[f].content = Binary}
  /\ rows = [f \in Files |-> None]
  /\ work = rows
  /\ cache = [f \in Files |-> NoFindings]
  /\ lock = None
  /\ pc = [r \in Runs |-> "idle"]
  /\ mode = [r \in Runs |-> "repo"]
  /\ config \in {[r \in Runs |-> k] : k \in Configs}
  /\ scope = [r \in Runs |-> {}]
  /\ cand = [r \in Runs |-> {}]
  /\ started = 0
  /\ cached = [r \in Runs |-> [f \in Files |-> NoCached]]
  /\ todo = [r \in Runs |-> {}]
  /\ at = [r \in Runs |-> None]
  /\ stat = [r \in Runs |-> [f \in Files |-> 0]]
  /\ got = [r \in Runs |-> [f \in Files |-> None]]
  /\ pending = [r \in Runs |-> {}]
  /\ changed = [r \in Runs |-> {}]
  /\ anyNew = {}
  /\ parsed = [r \in Runs |-> {}]
  /\ before = [r \in Runs |-> {}]
  /\ answered = [r \in Runs |-> [f \in Files |-> NoFindings]]
  /\ window = [r \in Runs |-> [f \in Files |-> {}]]
  /\ quiet = {}

Edit(f) == Delete(f) \/ \E c \in Texts \cup {Binary} : Write(f, c)

Visit(r, f) ==
  \/ SkipByStat(r, f) \/ ServeByStat(r, f) \/ TakeStat(r, f)
  \/ ReadBinary(r, f) \/ ReadChanged(r, f) \/ ReadUnchanged(r, f)
  \/ Record(r, f)
  \/ RepairParsed(r, f) \/ RepairStat(r, f) \/ RepairRead(r, f)
  \/ ReadFails(r, f)

Step(r) ==
  \/ LoadCache(r) \/ Begin(r) \/ StartRepair(r) \/ Commit(r) \/ RunRules(r)
  \/ \E f \in Files : Visit(r, f)

Next ==
  \/ \E f \in Files : Edit(f)
  \/ \E r \in Runs :
       \/ \E m \in Modes, k \in Configs, named \in SUBSET Files :
            Start(r, m, k, named)
       \/ Step(r) \/ Busy(r) \/ Kill(r)

Spec == Init /\ [][Next]_vars

-----------------------------------------------------------------------------
(* Properties. *)

TreeType ==
  /\ disk \in [Files -> [content : Texts \cup {Binary, Gone}, stat : Nat]]
  /\ clock \in Nat /\ wasBinary \subseteq Files

TablesType ==
  /\ rows \in [Files -> Row \cup {None}] /\ work \in [Files -> Row \cup {None}]
  /\ cache \in [Files -> [Rules -> Found \cup {None}]]
  /\ lock \in Runs \cup {None}

RunType ==
  /\ pc \in [Runs -> {"idle", "walked", "loaded", "main", "repair", "rules", "done"}]
  /\ mode \in [Runs -> {"repo", "changed", "paths"}]
  /\ config \in [Runs -> Configs] /\ started \in Nat
  /\ scope \in [Runs -> SUBSET Files] /\ cand \in [Runs -> SUBSET Files]

HandType ==
  /\ cached \in [Runs -> [Files -> [key : Found \cup {None},
                                    byRule : [Rules -> Found \cup {None}]]]]
  /\ todo \in [Runs -> SUBSET Files] /\ at \in [Runs -> Files \cup {None}]
  /\ stat \in [Runs -> [Files -> Nat]]
  /\ got \in [Runs -> [Files -> Texts \cup {None}]]

SetsType ==
  /\ pending \in [Runs -> SUBSET Files] /\ changed \in [Runs -> SUBSET Files]
  /\ anyNew \subseteq Runs /\ parsed \in [Runs -> SUBSET Files]
  /\ before \in [Runs -> SUBSET Files]

ReportType ==
  /\ answered \in [Runs -> [Files -> [Rules -> Found \cup {None}]]]
  /\ window \in [Runs -> [Files -> SUBSET (Texts \cup {Binary, Gone})]]
  /\ quiet \subseteq Runs

TypeOK ==
  TreeType /\ TablesType /\ RunType /\ HandType /\ SetsType /\ ReportType

(* What a run has in hand is exactly what it read and has not dropped. *)
InHand ==
  \A r \in Runs : pending[r] \cup parsed[r] = {f \in Files : got[r][f] # None}

(* Which of a run's working sets may overlap, phase by phase. *)
InPhase(r) ==
  /\ pc[r] \in {"idle", "walked", "loaded", "done"} =>
       pending[r] = {} /\ parsed[r] = {} /\ at[r] = None
  /\ pc[r] = "main" =>
       /\ todo[r] \cap pending[r] = {}
       /\ todo[r] # {} => parsed[r] = {}
       /\ at[r] # None => at[r] \in todo[r]
  /\ pc[r] = "repair" =>
       pending[r] = {} /\ (at[r] # None => at[r] \in todo[r] \ parsed[r])

Phases == \A r \in Runs : InPhase(r)

(* A text t read under stat s speaks for what f holds now if s still       *)
(* matches; and every stamp in use came from a clock that has moved on.    *)
Vouches(t, s, f) == s # 0 /\ s = disk[f].stat => t = disk[f].content

TableSound(table) ==
  \A f \in Files : table[f] # None =>
    table[f].stat <= clock /\ Vouches(table[f].hash, table[f].stat, f)

HandSound ==
  \A r \in Runs, f \in Files :
    stat[r][f] <= clock /\ (got[r][f] # None => Vouches(got[r][f], stat[r][f], f))

StampsSound ==
  /\ \A f \in Files : disk[f].stat <= clock
  /\ TableSound(rows) /\ TableSound(work) /\ HandSound

(* StatSound, strengthened until every step preserves it. *)
IInv == TypeOK /\ InHand /\ Phases /\ StampsSound

(* "The stat may only say certainly unchanged" (run.rs): a file whose stat  *)
(* matches its row still holds the text the row was recorded from, whatever *)
(* edits landed between a run's stats, reads, records and repairs.          *)
StatSound ==
  \A f \in Files :
    rows[f] # None /\ rows[f].stat # 0 /\ rows[f].stat = disk[f].stat
      => rows[f].hash = disk[f].content

(* Whatever a whole-repository report says of a file, from a parse or from *)
(* the findings cache, is what the rules say under this run's config of a  *)
(* text the file held while the run was going.                             *)
ReportTrue ==
  \A r \in Runs : pc[r] = "done" /\ ReportAll(r) =>
    \A f \in cand[r], x \in Rules : answered[r][f][x] # None =>
      /\ answered[r][f][x].hash \in window[r][f]
      /\ answered[r][f][x].config = config[r]

(* A whole-repository report answers for every enabled rule on every       *)
(* candidate that was readable text throughout: serving part of a file's   *)
(* findings would report it as cleaner than it is (serve).                 *)
ReportComplete ==
  \A r \in Runs : pc[r] = "done" /\ ReportAll(r) =>
    \A f \in cand[r], x \in EnabledBy[config[r]] :
      answered[r][f][x] # None \/ Binary \in window[r][f]

(* A run no edit disturbed commits an index that says what is on disk: the *)
(* current text of every text file among its candidates and no row for a   *)
(* file outside them, whatever earlier runs left behind.  And the next run *)
(* need not open a file: every stat the filesystem answered is stored, for *)
(* files touched without an edit too (refresh_stat).                       *)
CommitCurrent ==
  [][\A r \in Runs : Commit(r) /\ r \in quiet =>
       \A f \in Files :
         /\ f \notin cand[r] => rows'[f] = None
         /\ f \in cand[r] /\ disk[f].content \in Texts =>
              /\ rows'[f] # None /\ rows'[f].hash = disk[f].content
              /\ rows'[f].stat = disk[f].stat \/ stat[r][f] = 0]_vars

(* An import that holds an unresolved edge has nothing to resolve to: when *)
(* the file it names is indexed (again) the repair pass re-records it.  And *)
(* one that holds a resolved edge points at an indexed file: remove_missing *)
(* leaves no importer pointing at a departed one, also when another run's   *)
(* walk was older than the record.                                          *)
EdgesCurrent ==
  \A f \in Files : rows[f] # None =>
    \A e \in rows[f].edges :
      /\ e.res = "unresolved" /\ f \notin wasBinary =>
           \A i \in DOMAIN Candidates[e.spec] : rows[Candidates[e.spec][i]] = None
      /\ e.res = "resolved" => rows[e.to] # None \/ e.to \in wasBinary

PointedAt(table) == UNION {IF table[f] = None THEN {} ELSE
                           {e.to : e \in table[f].edges} \ {None} : f \in Files}

(* A --changed run no edit disturbed captures every file that loses its    *)
(* last importer, whether the importer was edited or left: that file's     *)
(* newly dead exports are what the run has to report.                      *)
LostTargetsCaptured ==
  [][\A r \in Runs : Commit(r) /\ r \in quiet /\ mode[r] = "changed" =>
       cand[r] \cap PointedAt(rows) \subseteq PointedAt(rows') \cup before'[r]]_vars

(* Stated by run.rs ("whenever a run records a file the index had not seen  *)
(* before, re-record the importers that still hold an unresolved edge"): an *)
(* undisturbed run that records a new file leaves no import unresolved that *)
(* names an indexed file.  The list is made before departed rows unlink.    *)
NewFileHeals ==
  [][\A r \in Runs : Commit(r) /\ r \in quiet \cap anyNew =>
       \A f \in Files : rows'[f] # None =>
         \A e \in rows'[f].edges : e.res = "unresolved" =>
           \A i \in DOMAIN Candidates[e.spec] : rows'[Candidates[e.spec][i]] = None]_vars
=============================================================================
