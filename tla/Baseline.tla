------------------------------ MODULE Baseline ------------------------------
(***************************************************************************)
(* The baseline file and the commands that rewrite it: Baseline::load,     *)
(* accept and save (crates/core/src/baseline.rs) under baseline_create and *)
(* baseline_accept_as (cli/src/run.rs), from the command line, init and    *)
(* MCP servers.                                                            *)
(*                                                                         *)
(* Abstractions.  An entry is an id and the severity recorded with it; the *)
(* check that finds the current findings is one step.  A file is an inode: *)
(* the temporary name and the baseline's name point at one, and a writer   *)
(* keeps the one it opened.                                                *)
(***************************************************************************)
EXTENDS Naturals, FiniteSets

CONSTANTS
  Ids,          \* finding ids
  Severities,   \* severities
  Writers,      \* processes that rewrite the baseline
  Inodes,       \* files: as many as writers and names at a time
  Torn,         \* content that does not parse
  None,         \* no such name, no inode open
  Overlap,      \* whether writers may work at the same time
  MaxReports,   \* bound on the different sets of findings
  MaxKills      \* bound on the writers killed

Entry == [id : Ids, severity : Severities]

ASSUME BaselineAssumption ==
  /\ \A entries \in SUBSET Entry : entries # Torn
  /\ None \notin Inodes \cup Ids
  /\ Overlap \in BOOLEAN /\ MaxReports \in Nat /\ MaxKills \in Nat

VARIABLES
  findings,   \* what a check of the repository finds now
  past,       \* history: all of what it has found
  path,       \* the inode locrin-baseline.json names, or None
  tmp,        \* the inode its temporary name names, or None
  content,    \* content[n]: the entries in an inode, or Torn
  pc,         \* where each writer is
  op,         \* the id it accepts, or None to create
  found,      \* the findings its check returned
  mem,        \* the entries it holds
  fd,         \* the inode it writes
  kills       \* writers killed so far

disk == <<path, tmp, content>>
mine == <<pc, op, found, mem, fd>>
vars == <<findings, past, disk, mine, kills>>

-----------------------------------------------------------------------------
Covers(entries, e) == \E d \in entries : d.id = e.id

OneEach(entries) == \A d, e \in entries : d.id = e.id => d = e

Reports == {entries \in SUBSET Entry : OneEach(entries)}

-----------------------------------------------------------------------------
(* Faulty forms of definitions below, each a bug this code could have. *)

(* save writes the baseline itself, without a temporary file. *)
OpensPath(w) ==
  IF path # None
  THEN /\ fd' = [fd EXCEPT ![w] = path]
       /\ content' = [content EXCEPT ![path] = Torn]
       /\ UNCHANGED <<path, tmp>>
  ELSE \E n \in Inodes :
         /\ fd' = [fd EXCEPT ![w] = n]
         /\ content' = [content EXCEPT ![n] = Torn]
         /\ path' = n
         /\ UNCHANGED tmp

(* accept does not look whether the id is there. *)
AcceptAgain(entries, e) == entries \cup {e}

(* accept starts from an empty baseline, as create does. *)
StartsEmpty(entries, e) == {e}

-----------------------------------------------------------------------------
(* Baseline::accept: an id that is there keeps the entry it has. *)
Accepted(entries, e) == IF Covers(entries, e) THEN entries ELSE entries \cup {e}

Unused == Inodes \ ({path, tmp} \cup {fd[w] : w \in Writers})

(* Baseline::load: no file is an empty baseline. *)
OnFile == IF path = None THEN {} ELSE content[path]

Goto(w, where) == pc' = [pc EXCEPT ![w] = where]

(* The command is over, with its answer or with an error. *)
Ends(w) ==
  /\ Goto(w, "idle")
  /\ op' = [op EXCEPT ![w] = None]
  /\ found' = [found EXCEPT ![w] = {}]
  /\ mem' = [mem EXCEPT ![w] = {}]
  /\ fd' = [fd EXCEPT ![w] = None]

Change(report) ==
  /\ report # findings
  /\ Cardinality(past \cup {report}) <= MaxReports
  /\ findings' = report
  /\ past' = past \cup {report}
  /\ UNCHANGED <<disk, mine, kills>>

(* full_findings. *)
Finds(w, what) ==
  /\ pc[w] = "idle"
  /\ Overlap \/ \A v \in Writers : pc[v] = "idle"
  /\ found' = [found EXCEPT ![w] = findings]
  /\ op' = [op EXCEPT ![w] = what]
  /\ Goto(w, "found")
  /\ UNCHANGED <<findings, past, disk, mem, fd, kills>>

(* baseline_create: every current finding, whatever the file holds. *)
Collects(w) ==
  /\ pc[w] = "found" /\ op[w] = None
  /\ mem' = [mem EXCEPT ![w] = found[w]]
  /\ Goto(w, "save")
  /\ UNCHANGED <<findings, past, disk, op, found, fd, kills>>

(* baseline_accept_as: the file as it is now, and the one finding. *)
Accepts(w) ==
  /\ pc[w] = "found" /\ op[w] # None
  /\ OnFile # Torn
  /\ \E e \in found[w] :
       /\ e.id = op[w]
       /\ mem' = [mem EXCEPT ![w] = Accepted(OnFile, e)]
  /\ Goto(w, "save")
  /\ UNCHANGED <<findings, past, disk, op, found, fd, kills>>

(* No current finding has that id, or the file does not parse. *)
Refuses(w) ==
  /\ pc[w] = "found" /\ op[w] # None
  /\ OnFile = Torn \/ \A e \in found[w] : e.id # op[w]
  /\ Ends(w)
  /\ UNCHANGED <<findings, past, disk, kills>>

(* save: fs::write opens the temporary file and truncates it, ... *)
OpensTmp(w) ==
  IF tmp # None
  THEN /\ fd' = [fd EXCEPT ![w] = tmp]
       /\ content' = [content EXCEPT ![tmp] = Torn]
       /\ UNCHANGED <<path, tmp>>
  ELSE \E n \in Unused :
         /\ fd' = [fd EXCEPT ![w] = n]
         /\ content' = [content EXCEPT ![n] = Torn]
         /\ tmp' = n
         /\ UNCHANGED path

Opens(w) ==
  /\ pc[w] = "save"
  /\ OpensTmp(w)
  /\ Goto(w, "write")
  /\ UNCHANGED <<findings, past, op, found, mem, kills>>

(* ... writes it, over the bytes of another writer if there is one, ... *)
Writes(w) ==
  /\ pc[w] = "write"
  /\ \E left \in {mem[w]} \cup (IF content[fd[w]] = Torn THEN {} ELSE {Torn}) :
       content' = [content EXCEPT ![fd[w]] = left]
  /\ Goto(w, "rename")
  /\ UNCHANGED <<findings, past, path, tmp, op, found, mem, fd, kills>>

(* ... and the rename puts what the temporary name names in place.  A file *)
(* that loses its name goes when nobody writes it.                         *)
Renames(w) ==
  /\ pc[w] = "rename"
  /\ IF tmp = None THEN UNCHANGED <<path, tmp>> ELSE path' = tmp /\ tmp' = None
  /\ content' = [n \in Inodes |->
       IF tmp # None /\ n = path /\ (\A v \in Writers \ {w} : fd[v] # n)
       THEN Torn ELSE content[n]]
  /\ Ends(w)
  /\ UNCHANGED <<findings, past, kills>>

(* A writer is killed, or an error ends it: the disk stays as it is. *)
Killed(w) ==
  /\ pc[w] # "idle"
  /\ kills < MaxKills
  /\ kills' = kills + 1
  /\ Ends(w)
  /\ UNCHANGED <<findings, past, disk>>

Init ==
  /\ findings \in Reports
  /\ past = {findings}
  /\ path = None /\ tmp = None
  /\ content = [n \in Inodes |-> Torn]
  /\ pc = [w \in Writers |-> "idle"]
  /\ op = [w \in Writers |-> None]
  /\ found = [w \in Writers |-> {}]
  /\ mem = [w \in Writers |-> {}]
  /\ fd = [w \in Writers |-> None]
  /\ kills = 0

Next ==
  \/ \E report \in Reports : Change(report)
  \/ \E w \in Writers :
       \/ \E what \in Ids \cup {None} : Finds(w, what)
       \/ Collects(w) \/ Accepts(w) \/ Refuses(w)
       \/ Opens(w) \/ Writes(w) \/ Renames(w) \/ Killed(w)

Spec == Init /\ [][Next]_vars

-----------------------------------------------------------------------------
TypeOK ==
  /\ findings \in Reports /\ past \subseteq Reports /\ findings \in past
  /\ path \in Inodes \cup {None} /\ tmp \in Inodes \cup {None}
  /\ content \in [Inodes -> {Torn} \cup Reports]
  /\ pc \in [Writers -> {"idle", "found", "save", "write", "rename"}]
  /\ op \in [Writers -> Ids \cup {None}]
  /\ found \in [Writers -> past \cup {{}}]
  /\ mem \in [Writers -> Reports]
  /\ fd \in [Writers -> Inodes \cup {None}]
  /\ kills \in 0..MaxKills

(* A writer interrupted at any step leaves the previous baseline or the    *)
(* whole next one, never one that no longer parses (save).  It holds when  *)
(* writers come one after another: they share one temporary name.          *)
BaselineReadable == OnFile # Torn

(* The file keeps what SignedOff promises: every change of it is one       *)
(* acceptance of a finding some check reported, or one whole snapshot.     *)
Promise == INSTANCE SignedOff WITH accepted <- OnFile

KeepsPromise == Promise!Spec
=============================================================================
