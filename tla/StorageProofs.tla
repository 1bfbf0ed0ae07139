--------------------------- MODULE StorageProofs ---------------------------
(***************************************************************************)
(* What holds of the files locrin keeps, for every set of findings,        *)
(* writers, processes, builds and entries: of Baseline by itself, then of  *)
(* InitRun, and then of the three parts of MCStorage side by side, the     *)
(* third of which is proved in IndexOpenProofs.                            *)
(*                                                                         *)
(* Baseline keeps its types however writers overlap.  The rest is for      *)
(* writers that come one after another (Overlap = FALSE): the one that     *)
(* works is alone (OneWrites), so the temporary name names what it opened  *)
(* and that is never what the baseline's name names (NamesApart), what it  *)
(* renames is the whole of what it holds (WholeWritten), and what it holds *)
(* is what SignedOff lets follow the file (Earned).                        *)
(***************************************************************************)
EXTENDS MCStorage, TLAPS

-----------------------------------------------------------------------------
Works(w) == pc[w] # "idle"

OneWrites == \A v, w \in Writers : Works(v) /\ Works(w) => v = w

NamesApart ==
  /\ tmp # None => tmp # path
  /\ \A w \in Writers :
       IF pc[w] \in {"write", "rename"} THEN fd[w] # None /\ fd[w] = tmp
                                        ELSE fd[w] = None

WholeWritten ==
  \A w \in Writers :
    /\ pc[w] = "write" => content[fd[w]] = Torn
    /\ pc[w] = "rename" => content[fd[w]] = mem[w]

(* A snapshot of what a check found, or the file and one finding more. *)
Earned ==
  \A w \in Writers : pc[w] \in {"save", "write", "rename"} =>
    \/ mem[w] \in past
    \/ mem[w] = OnFile
    \/ \E report \in past : \E e \in report :
         ~Covers(OnFile, e) /\ mem[w] = OnFile \cup {e}

Found == \A w \in Writers : Works(w) => found[w] \in past

IInv ==
  /\ TypeOK
  /\ OneWrites /\ NamesApart /\ WholeWritten
  /\ BaselineReadable /\ Found /\ Earned

-----------------------------------------------------------------------------
(* Baseline::accept keeps one entry per id. *)
LEMMA AcceptedType ==
  ASSUME NEW entries \in Reports, NEW report \in Reports, NEW e \in report
  PROVE  Accepted(entries, e) \in Reports
  BY DEF Accepted, Covers, Reports, OneEach

LEMMA Values ==
  /\ {} \in Reports
  /\ Torn \notin Reports
  BY BaselineAssumption DEF Reports, OneEach

LEMMA InitType ==
  ASSUME Init
  PROVE  TypeOK
<1>1. kills \in 0..MaxKills  BY BaselineAssumption DEF Init
<1>2. /\ findings \in Reports /\ past \subseteq Reports /\ findings \in past
      /\ path \in Inodes \cup {None} /\ tmp \in Inodes \cup {None}
  BY DEF Init
<1>3. /\ content \in [Inodes -> {Torn} \cup Reports]
      /\ pc \in [Writers -> {"idle", "found", "save", "write", "rename"}]
      /\ op \in [Writers -> Ids \cup {None}]
      /\ fd \in [Writers -> Inodes \cup {None}]
  BY DEF Init
<1>4. found \in [Writers -> past \cup {{}}] /\ mem \in [Writers -> Reports]
  BY Values DEF Init
<1> QED  BY <1>1, <1>2, <1>3, <1>4 DEF TypeOK

(* Every step keeps the types, however writers overlap. *)
LEMMA TypeStep ==
  ASSUME TypeOK, [Next]_vars
  PROVE  TypeOK'
<1> USE Values DEF TypeOK
<1>0. ASSUME NEW w \in Writers, Ends(w)
      PROVE  /\ pc' \in [Writers -> {"idle", "found", "save", "write", "rename"}]
             /\ op' \in [Writers -> Ids \cup {None}]
             /\ found' \in [Writers -> past \cup {{}}]
             /\ mem' \in [Writers -> Reports]
             /\ fd' \in [Writers -> Inodes \cup {None}]
  BY <1>0 DEF Ends, Goto
<1>1. ASSUME NEW report \in Reports, Change(report)  PROVE TypeOK'
  BY <1>1 DEF Change, disk, mine
<1>2. ASSUME NEW w \in Writers, NEW what \in Ids \cup {None}, Finds(w, what)
      PROVE  TypeOK'
  BY <1>2 DEF Finds, Goto, disk
<1>3. ASSUME NEW w \in Writers, Collects(w)  PROVE TypeOK'
  <2>1. found[w] \in Reports  OBVIOUS
  <2> QED  BY <1>3, <2>1 DEF Collects, Goto, disk
<1>4. ASSUME NEW w \in Writers, Accepts(w)  PROVE TypeOK'
  <2>1. PICK e \in found[w] : mem' = [mem EXCEPT ![w] = Accepted(OnFile, e)]
    BY <1>4 DEF Accepts
  <2>2. found[w] \in Reports /\ OnFile \in Reports
    BY <1>4 DEF Accepts, OnFile
  <2>3. Accepted(OnFile, e) \in Reports  BY <2>2, AcceptedType
  <2> QED  BY <1>4, <2>1, <2>3 DEF Accepts, Goto, disk
<1>5. ASSUME NEW w \in Writers, Refuses(w)  PROVE TypeOK'
  BY <1>0, <1>5 DEF Refuses, disk
<1>6. ASSUME NEW w \in Writers, Opens(w)  PROVE TypeOK'
  <2>1. /\ path' = path /\ tmp' \in Inodes \cup {None}
        /\ content' \in [Inodes -> {Torn} \cup Reports]
        /\ fd' \in [Writers -> Inodes \cup {None}]
    BY <1>6 DEF Opens, OpensTmp, Unused
  <2> QED  BY <1>6, <2>1 DEF Opens, Goto
<1>7. ASSUME NEW w \in Writers, Writes(w)  PROVE TypeOK'
  <2>1. content' \in [Inodes -> {Torn} \cup Reports]  BY <1>7 DEF Writes
  <2> QED  BY <1>7, <2>1 DEF Writes, Goto
<1>8. ASSUME NEW w \in Writers, Renames(w)  PROVE TypeOK'
  <2>1. /\ path' \in Inodes \cup {None} /\ tmp' \in Inodes \cup {None}
        /\ content' \in [Inodes -> {Torn} \cup Reports]
    BY <1>8 DEF Renames
  <2>2. Ends(w) /\ UNCHANGED <<findings, past, kills>>  BY <1>8 DEF Renames
  <2> QED  BY <1>0, <2>1, <2>2
<1>9. ASSUME NEW w \in Writers, Killed(w)  PROVE TypeOK'
  <2>1. kills' \in 0..MaxKills  BY <1>9, BaselineAssumption DEF Killed
  <2> QED  BY <1>0, <1>9, <2>1 DEF Killed, disk
<1>10. CASE UNCHANGED vars  BY <1>10 DEF vars, disk, mine
<1> QED
  BY <1>1, <1>2, <1>3, <1>4, <1>5, <1>6, <1>7, <1>8, <1>9, <1>10 DEF Next

-----------------------------------------------------------------------------
(* When the one writer that works ends, nobody works. *)
LEMMA AllIdle ==
  ASSUME TypeOK, OneWrites, NamesApart, NEW w \in Writers, Works(w), Ends(w)
  PROVE  \A v \in Writers : pc'[v] = "idle" /\ fd'[v] = None
  BY DEF TypeOK, OneWrites, NamesApart, Works, Ends, Goto

(* One writer at a time, on a file whose name is not the baseline's. *)
LEMMA NamesStep ==
  ASSUME Overlap = FALSE, TypeOK, OneWrites, NamesApart, [Next]_vars
  PROVE  (OneWrites /\ NamesApart)'
<1> USE DEF TypeOK, OneWrites, NamesApart, Works
<1>1. ASSUME NEW report \in Reports, Change(report)  PROVE (OneWrites /\ NamesApart)'
  BY <1>1 DEF Change, disk, mine
<1>2. ASSUME NEW w \in Writers, NEW what \in Ids \cup {None}, Finds(w, what)
      PROVE  (OneWrites /\ NamesApart)'
  BY <1>2 DEF Finds, Goto, disk
<1>3. ASSUME NEW w \in Writers, Collects(w) \/ Accepts(w)
      PROVE  (OneWrites /\ NamesApart)'
  BY <1>3 DEF Collects, Accepts, Goto, disk
<1>4. ASSUME NEW w \in Writers, Refuses(w) \/ Killed(w)
      PROVE  (OneWrites /\ NamesApart)'
  <2>1. Works(w) /\ Ends(w) /\ UNCHANGED disk  BY <1>4 DEF Refuses, Killed
  <2> QED  BY <2>1, AllIdle DEF disk
<1>5. ASSUME NEW w \in Writers, Opens(w)  PROVE (OneWrites /\ NamesApart)'
  <2>1. /\ tmp' # None /\ tmp' # path /\ path' = path
        /\ fd' = [fd EXCEPT ![w] = tmp']
    BY <1>5, BaselineAssumption DEF Opens, OpensTmp, Unused
  <2> QED  BY <1>5, <2>1 DEF Opens, Goto
<1>6. ASSUME NEW w \in Writers, Writes(w)  PROVE (OneWrites /\ NamesApart)'
  BY <1>6 DEF Writes, Goto
<1>7. ASSUME NEW w \in Writers, Renames(w)  PROVE (OneWrites /\ NamesApart)'
  <2>1. Works(w) /\ Ends(w) /\ tmp' = None  BY <1>7 DEF Renames
  <2> QED  BY <2>1, AllIdle
<1>8. CASE UNCHANGED vars  BY <1>8 DEF vars, disk, mine
<1> QED  BY <1>1, <1>2, <1>3, <1>4, <1>5, <1>6, <1>7, <1>8 DEF Next

(* What the rename puts in place is the whole of what the writer holds,    *)
(* and no other step changes what the baseline's name shows.               *)
LEMMA Shown ==
  ASSUME TypeOK, OneWrites, NamesApart, WholeWritten, [Next]_vars
  PROVE  \/ OnFile' = OnFile
         \/ \E w \in Writers : pc[w] = "rename" /\ Renames(w) /\ OnFile' = mem[w]
<1> USE DEF TypeOK, NamesApart, OnFile
<1>1. ASSUME NEW w \in Writers, Opens(w)  PROVE OnFile' = OnFile
  <2>1. \E n \in Inodes : n # path /\ content' = [content EXCEPT ![n] = Torn]
    BY <1>1 DEF Opens, OpensTmp, Unused
  <2>2. path' = path  BY <1>1 DEF Opens, OpensTmp
  <2> QED  BY <2>1, <2>2
<1>2. ASSUME NEW w \in Writers, Writes(w)  PROVE OnFile' = OnFile
  BY <1>2 DEF Writes
<1>3. ASSUME NEW w \in Writers, Renames(w)
      PROVE  pc[w] = "rename" /\ OnFile' = mem[w]
  <2>1. pc[w] = "rename" /\ tmp # None /\ tmp = fd[w] /\ tmp # path  BY <1>3 DEF Renames
  <2>2. path' = tmp /\ content'[tmp] = content[tmp]  BY <1>3, <2>1 DEF Renames
  <2>3. content[tmp] = mem[w]  BY <2>1 DEF WholeWritten
  <2> QED  BY <2>1, <2>2, <2>3
<1>4. ASSUME NEW w \in Writers, NEW what \in Ids \cup {None},
             Finds(w, what) \/ Collects(w) \/ Accepts(w) \/ Refuses(w) \/ Killed(w)
      PROVE  OnFile' = OnFile
  BY <1>4 DEF Finds, Collects, Accepts, Refuses, Killed, disk
<1>5. ASSUME NEW report \in Reports, Change(report)  PROVE OnFile' = OnFile
  BY <1>5 DEF Change, disk
<1>6. CASE UNCHANGED vars  BY <1>6 DEF vars, disk
<1> QED  BY <1>1, <1>2, <1>3, <1>4, <1>5, <1>6 DEF Next

(* A rename finds the whole of what its writer holds. *)
LEMMA WholeStep ==
  ASSUME TypeOK, OneWrites, NamesApart, WholeWritten, [Next]_vars
  PROVE  WholeWritten'
<1> USE DEF TypeOK, OneWrites, NamesApart, WholeWritten, Works
<1>1. ASSUME NEW report \in Reports, Change(report)  PROVE WholeWritten'
  BY <1>1 DEF Change, disk, mine
<1>2. ASSUME NEW w \in Writers, NEW what \in Ids \cup {None},
             Finds(w, what) \/ Collects(w) \/ Accepts(w)
      PROVE  WholeWritten'
  BY <1>2 DEF Finds, Collects, Accepts, Goto, disk
<1>3. ASSUME NEW w \in Writers, Refuses(w) \/ Killed(w) \/ Renames(w)
      PROVE  WholeWritten'
  <2>1. Works(w) /\ Ends(w)  BY <1>3 DEF Refuses, Killed, Renames
  <2> QED  BY <2>1, AllIdle
<1>4. ASSUME NEW w \in Writers, Opens(w)  PROVE WholeWritten'
  <2>1. fd' = [fd EXCEPT ![w] = tmp'] /\ tmp' \in Inodes
        /\ content' = [content EXCEPT ![tmp'] = Torn]
    BY <1>4 DEF Opens, OpensTmp, Unused
  <2> QED  BY <1>4, <2>1 DEF Opens, Goto
<1>5. ASSUME NEW w \in Writers, Writes(w)  PROVE WholeWritten'
  <2>1. content' = [content EXCEPT ![fd[w]] = mem[w]] /\ fd[w] \in Inodes
    BY <1>5 DEF Writes
  <2> QED  BY <1>5, <2>1 DEF Writes, Goto
<1>6. CASE UNCHANGED vars  BY <1>6 DEF vars, disk, mine
<1> QED  BY <1>1, <1>2, <1>3, <1>4, <1>5, <1>6 DEF Next

(* What a writer will put in place is earned: a snapshot of what its check *)
(* found, or what the file holds, with the accepted finding added unless   *)
(* its id is there.                                                        *)
LEMMA EarnedStep ==
  ASSUME Overlap = FALSE, TypeOK, OneWrites, NamesApart, WholeWritten,
         Found, Earned, [Next]_vars
  PROVE  (Found /\ Earned)'
<1> USE DEF TypeOK, OneWrites, Works, Found, Earned
<1>1. ASSUME NEW report \in Reports, Change(report)  PROVE (Found /\ Earned)'
  <2>1. OnFile' = OnFile /\ past \subseteq past'  BY <1>1 DEF Change, disk, OnFile
  <2> QED  BY <1>1, <2>1 DEF Change, mine
<1>2. ASSUME NEW w \in Writers, NEW what \in Ids \cup {None}, Finds(w, what)
      PROVE  (Found /\ Earned)'
  BY <1>2 DEF Finds, Goto, disk
<1>3. ASSUME NEW w \in Writers, Collects(w)  PROVE (Found /\ Earned)'
  BY <1>3 DEF Collects, Goto, disk, OnFile
<1>4. ASSUME NEW w \in Writers, Accepts(w)  PROVE (Found /\ Earned)'
  <2>1. OnFile' = OnFile /\ found[w] \in past  BY <1>4 DEF Accepts, disk, OnFile
  <2>2. PICK e \in found[w] : mem' = [mem EXCEPT ![w] = Accepted(OnFile, e)]
    BY <1>4 DEF Accepts
  <2>3. mem'[w] = OnFile \/ (~Covers(OnFile, e) /\ mem'[w] = OnFile \cup {e})
    BY <2>2 DEF Accepted
  <2> QED  BY <1>4, <2>1, <2>2, <2>3 DEF Accepts, Goto
<1>5. ASSUME NEW w \in Writers, Refuses(w) \/ Killed(w) \/ Renames(w)
      PROVE  (Found /\ Earned)'
  <2>1. Works(w) /\ Ends(w)  BY <1>5 DEF Refuses, Killed, Renames
  <2> QED  BY <2>1, AllIdle
<1>6. ASSUME NEW w \in Writers, Opens(w) \/ Writes(w)  PROVE (Found /\ Earned)'
  <2>1. OnFile' = OnFile
    <3>1. pc[w] \in {"save", "write"}  BY <1>6 DEF Opens, Writes
    <3>2. ~\E v \in Writers : pc[v] = "rename"  BY <3>1
    <3> QED  BY <1>6, <3>2, Shown DEF Next
  <2> QED  BY <1>6, <2>1 DEF Opens, Writes, Goto
<1>7. CASE UNCHANGED vars  BY <1>7 DEF vars, disk, mine, OnFile
<1> QED  BY <1>1, <1>2, <1>3, <1>4, <1>5, <1>6, <1>7 DEF Next

(* The name never shows a torn file. *)
LEMMA ReadableStep ==
  ASSUME TypeOK, OneWrites, NamesApart, WholeWritten, BaselineReadable, [Next]_vars
  PROVE  BaselineReadable'
<1>1. \A w \in Writers : mem[w] # Torn  BY Values DEF TypeOK
<1> QED  BY <1>1, Shown DEF BaselineReadable

-----------------------------------------------------------------------------
(* The types hold under any interleaving of writers, kills and edits. *)
THEOREM TypeCorrect == Spec => []TypeOK
<1>1. Init => TypeOK  BY InitType
<1>2. TypeOK /\ [Next]_vars => TypeOK'  BY TypeStep
<1> QED  BY <1>1, <1>2, PTL DEF Spec

(* The inductive invariant of writers that come one after another. *)
THEOREM Invariance ==
  ASSUME Overlap = FALSE
  PROVE  Spec => []IInv
<1>1. Init => IInv
  <2> SUFFICES ASSUME Init  PROVE IInv
    OBVIOUS
  <2>1. TypeOK  BY InitType
  <2>2. {} # Torn  BY Values
  <2> QED
    BY <2>1, <2>2 DEF Init, IInv, OneWrites, Works, NamesApart, WholeWritten,
       BaselineReadable, OnFile, Found, Earned
<1>2. IInv /\ [Next]_vars => IInv'
  BY TypeStep, NamesStep, WholeStep, ReadableStep, EarnedStep DEF IInv
<1> QED  BY <1>1, <1>2, PTL DEF Spec

(* A writer interrupted at any step leaves the previous baseline or the    *)
(* whole next one (save): the file a reader finds always parses.           *)
THEOREM AlwaysReadable ==
  ASSUME Overlap = FALSE
  PROVE  Spec => []BaselineReadable
<1>1. IInv => BaselineReadable  BY DEF IInv
<1> QED  BY <1>1, Invariance, PTL

-----------------------------------------------------------------------------
(* A file that changes, changes as SignedOff says: by one acceptance of a  *)
(* finding some check reported, or to one whole snapshot.                  *)
LEMMA PromiseStep ==
  ASSUME IInv, [Next]_vars
  PROVE  [Promise!Next]_(Promise!vars)
<1> USE DEF IInv
<1>1. ASSUME NEW report \in Reports, Change(report)  PROVE Promise!Changes
  BY <1>1 DEF Change, disk, OnFile, Promise!Changes, Promise!Reports, Reports,
     Promise!OneEach, OneEach
<1>2. ASSUME past' = past, OnFile' = OnFile  PROVE UNCHANGED Promise!vars
  BY <1>2 DEF Promise!vars
<1>3. ASSUME NEW w \in Writers, pc[w] = "rename", past' = past, OnFile' = mem[w]
      PROVE  Promise!Next \/ UNCHANGED Promise!vars
  <2>1. CASE mem[w] \in past
    BY <1>3, <2>1 DEF Promise!Next, Promise!Create
  <2>2. CASE mem[w] = OnFile
    BY <1>2, <1>3, <2>2
  <2>3. ASSUME NEW report \in past, NEW e \in report,
               ~Covers(OnFile, e), mem[w] = OnFile \cup {e}
        PROVE  Promise!Accept
    BY <1>3, <2>3 DEF Promise!Accept, Promise!Covers, Covers
  <2> QED  BY <1>3, <2>1, <2>2, <2>3 DEF Earned, Promise!Next
<1>4. (\E report \in Reports : Change(report)) \/ past' = past
  BY DEF Next, Finds, Collects, Accepts, Refuses, Opens, Writes, Renames, Killed,
     vars
<1> QED  BY <1>1, <1>2, <1>3, <1>4, Shown DEF Promise!Next

(* Baseline, its writers one after another, implements SignedOff. *)
THEOREM Refinement ==
  ASSUME Overlap = FALSE
  PROVE  Spec => KeepsPromise
<1>1. Init => Promise!Init
  BY Values DEF Init, OnFile, Promise!Init, Promise!Reports, Reports,
     Promise!OneEach, OneEach
<1>2. IInv /\ [Next]_vars => [Promise!Next]_(Promise!vars)
  BY PromiseStep
<1> QED  BY <1>1, <1>2, Invariance, PTL DEF Spec, KeepsPromise, Promise!Spec

-----------------------------------------------------------------------------
(* `locrin init` is safe, for every set of entries it wants and the user   *)
(* has: it names what it changed, keeps and never doubles the user's       *)
(* entries, and once it has run well it has nothing left to do.            *)

(* The types.  A document is a kind and a set of entries. *)
SetupEntries == Setup!Theirs \cup Setup!Ours
Document == [kind : {"absent", "bad", "object"}, has : SUBSET SetupEntries]
Plans == [has : SUBSET SetupEntries, changed : BOOLEAN, existed : BOOLEAN, was : Document]
SetupSteps == {"idle", "toml", "settings", "mcp", "gate", "chmod", "scan", "baseline"}

SetupType ==
  /\ docs \in [Setup!Docs -> Document] /\ planned \in [Setup!Docs -> Plans]
  /\ toml \in {"absent", "loads", "typo"} /\ gate \in {"none", "plain", "ours", "theirs"}
  /\ place \in {"git", "husky", "bare"} /\ signed \in BOOLEAN /\ step \in SetupSteps
  /\ settled \in {"no", "calm", "yes"} /\ kept \in [Setup!Docs -> SUBSET SetupEntries]
  /\ raced \subseteq Setup!Docs /\ edits \in Nat

-----------------------------------------------------------------------------
(* The files a run is through with when it is at a step. *)
Behind(s) ==
  CASE s = "toml" -> {}
    [] s = "settings" -> {"toml"}
    [] s = "mcp" -> {"toml", "settings"}
    [] s \in {"gate", "chmod"} -> {"toml", "settings", "mcp"}
    [] s \in {"scan", "baseline"} -> {"toml", "settings", "mcp", "gate"}
    [] OTHER -> {}

(* Lines are only of files the run is through with, each file's bytes have *)
(* their line by then, and no line denies them.                            *)
ToldInv ==
  step # "idle" =>
    /\ \A x \in touched : x.file \in Behind(step)
    /\ wrote \subseteq Behind(step) \cup (IF step = "chmod" THEN {"gate"} ELSE {})
    /\ wrote \cap Behind(step) \subseteq Setup!Said(Setup!Changing)
    /\ Setup!Said({"unchanged", "skipped"}) \cap wrote = {}

(* A plan keeps what it was decided on, and neither form of an entry is    *)
(* ever joined by the other.                                               *)
Single(d, S) == \A w \in Wanted[d] : ~({w, Variant[w]} \subseteq S)

PlanInv ==
  \A d \in Setup!Docs : planned[d].was.has \subseteq planned[d].has /\ Single(d, planned[d].has)

(* Nothing is left to do for document d. *)
Complete(d) == docs[d].kind = "object" /\ Setup!Merged(d, docs[d].has) = docs[d].has

(* The plan is the one for what d was when the run began. *)
Planned(d) ==
  LET p == planned[d]
  IN /\ p.has = Setup!Merged(d, p.was.has) /\ p.changed = (p.has # p.was.has)
     /\ p.existed = (p.was.kind # "absent") /\ p.was.kind # "bad"

(* A run that nothing disturbs leaves what it is through with complete, and *)
(* finds the rest as it was planned.                                       *)
CalmInv ==
  settled # "no" /\ step # "idle" =>
    /\ "toml" \in Behind(step) => toml # "absent"
    /\ "gate" \in Behind(step) \/ step = "chmod" => place # "git" \/ gate # "none"
    /\ \A d \in Setup!Docs : IF d \in Behind(step) THEN Complete(d)
                       ELSE docs[d] = planned[d].was /\ Planned(d)

(* After a run that ended well there is nothing to do. *)
SettledInv ==
  settled = "yes" =>
    /\ toml # "absent" /\ signed /\ (place # "git" \/ gate # "none")
    /\ \A d \in Setup!Docs : Complete(d)
    /\ step # "idle" => wrote = {}

SetupInv ==
  /\ SetupType /\ ToldInv /\ PlanInv /\ CalmInv /\ SettledInv
  /\ Setup!InitTold /\ Setup!UsersKept /\ Setup!OneEach

-----------------------------------------------------------------------------
LEMMA DocsTwo ==
  ASSUME Setup!InitAssumption
  PROVE  /\ Setup!Docs = {"settings", "mcp"} /\ Setup!Theirs \cap Setup!Ours = {}
         /\ \A d \in Setup!Docs : /\ Wanted[d] \subseteq Setup!Ours
                               /\ \A w \in Wanted[d] : Variant[w] \in Setup!Theirs
BY DEF Setup!InitAssumption, Setup!Ours, Setup!Theirs

(* The merge keeps what is there, adds no second form of an entry and has  *)
(* nothing to add to its own result.                                       *)
LEMMA MergeTrue ==
  ASSUME Setup!InitAssumption, NEW d \in Setup!Docs, NEW S \in SUBSET SetupEntries
  PROVE  /\ Setup!Merged(d, S) \in SUBSET SetupEntries /\ S \subseteq Setup!Merged(d, S)
         /\ Single(d, S) => Single(d, Setup!Merged(d, S))
         /\ Setup!Merged(d, Setup!Merged(d, S)) = Setup!Merged(d, S)
<1>1. Setup!Merged(d, S) \in SUBSET SetupEntries /\ S \subseteq Setup!Merged(d, S)
  BY DocsTwo DEF Setup!Merged, SetupEntries
<1>2. ASSUME Single(d, S), NEW w \in Wanted[d],
             w \in Setup!Merged(d, S), Variant[w] \in Setup!Merged(d, S)
      PROVE  FALSE
  <2>1. Variant[w] \in S  BY <1>2, DocsTwo DEF Setup!Merged
  <2> QED  BY <1>2, <2>1 DEF Setup!Merged, Setup!Holds, Single
<1>3. Single(d, S) => Single(d, Setup!Merged(d, S))  BY <1>2 DEF Single
<1>4. ASSUME NEW w \in Wanted[d]  PROVE Setup!Holds(Setup!Merged(d, S), w)
  BY DEF Setup!Merged, Setup!Holds
<1>5. Setup!Merged(d, Setup!Merged(d, S))
        = Setup!Merged(d, S) \cup {w \in Wanted[d] : ~Setup!Holds(Setup!Merged(d, S), w)}
  BY DEF Setup!Merged
<1> QED  BY <1>1, <1>3, <1>4, <1>5

(* The plan of a document, as Start makes it. *)
LEMMA PlanTrue ==
  ASSUME Setup!InitAssumption, SetupType, Setup!OneEach, NEW d \in Setup!Docs
  PROVE  /\ Setup!Plan(d) \in Plans /\ Setup!Plan(d).was = docs[d]
         /\ Setup!Plan(d).was.has \subseteq Setup!Plan(d).has /\ Single(d, Setup!Plan(d).has)
         /\ Setup!Plan(d).has = Setup!Merged(d, docs[d].has)
         /\ Setup!Plan(d).changed = (Setup!Plan(d).has # docs[d].has)
         /\ Setup!Plan(d).existed = (docs[d].kind # "absent")
<1>1. docs[d] \in Document /\ docs[d].has \in SUBSET SetupEntries
  BY DEF SetupType, Document
<1>2. Single(d, docs[d].has)  BY DEF Setup!OneEach, Single
<1> QED  BY <1>1, <1>2, MergeTrue DEF Setup!Plan, Plans

LEMMA TornTyped ==
  ASSUME NEW torn \in Setup!HalfWritten
  PROVE  torn \in Document /\ torn.has = {}
BY DEF Setup!HalfWritten, Setup!Object, Setup!Bad, Document

LEMMA SetupTypeStep ==
  ASSUME Setup!InitAssumption, SetupType, Setup!OneEach, [Setup!Next]_(Setup!initVars)
  PROVE  SetupType'
<1> USE DocsTwo DEF SetupType
<1>1. CASE Setup!Start
  <2>1. \A d \in Setup!Docs : Setup!Plan(d) \in Plans  BY PlanTrue
  <2> QED  BY <1>1, <2>1 DEF Setup!Start, SetupSteps
<1>2. CASE Setup!WriteToml
  BY <1>2 DEF Setup!WriteToml, Setup!Tells, Setup!Fails, SetupSteps
<1>3. ASSUME NEW d \in Setup!Docs, Setup!WriteDoc(d)  PROVE SetupType'
  <2>1. Setup!Object(planned[d].has) \in Document
    BY DEF Setup!Object, Document, Plans
  <2>2. docs' \in [Setup!Docs -> Document]  BY <1>3, <2>1, TornTyped DEF Setup!WriteDoc
  <2>3. step' \in SetupSteps /\ settled' \in {"no", "calm", "yes"} /\ raced' \subseteq Setup!Docs
    BY <1>3 DEF Setup!WriteDoc, Setup!Tells, Setup!Fails, Setup!AfterDoc, SetupSteps
  <2> QED  BY <1>3, <2>2, <2>3 DEF Setup!WriteDoc
<1>4. CASE Setup!InstallGate
  BY <1>4 DEF Setup!InstallGate, Setup!Tells, Setup!Fails, SetupSteps
<1>5. CASE Setup!MarkExecutable
  BY <1>5 DEF Setup!MarkExecutable, Setup!Tells, Setup!Fails, SetupSteps
<1>6. CASE Setup!Scan  BY <1>6 DEF Setup!Scan, Setup!Fails, SetupSteps
<1>7. CASE Setup!Finish  BY <1>7 DEF Setup!Finish, Setup!Fails, SetupSteps
<1>8. CASE Setup!Kill
  <2>1. docs' \in [Setup!Docs -> Document] /\ raced' \subseteq Setup!Docs
    BY <1>8, TornTyped DEF Setup!Kill
  <2> QED  BY <1>8, <2>1 DEF Setup!Kill, SetupSteps
<1>9. ASSUME NEW d \in Setup!Docs, NEW S \in SUBSET (Setup!Theirs \cup Wanted[d]), Setup!EditDoc(d, S)
      PROVE  SetupType'
  <2>1. Setup!Object(S) \in Document /\ S \cap Setup!Theirs \in SUBSET SetupEntries
    BY DEF Setup!Object, Document, SetupEntries
  <2> QED  BY <1>9, <2>1 DEF Setup!EditDoc
<1>10. CASE UNCHANGED Setup!initVars  BY <1>10 DEF Setup!initVars
<1> QED  BY <1>1, <1>2, <1>3, <1>4, <1>5, <1>6, <1>7, <1>8, <1>9, <1>10 DEF Setup!Next

LEMMA BehindTrue ==
  /\ Behind("toml") = {} /\ Behind("settings") = {"toml"} /\ Behind("mcp") = {"toml", "settings"}
  /\ Behind("gate") = {"toml", "settings", "mcp"} /\ Behind("chmod") = {"toml", "settings", "mcp"}
  /\ Behind("scan") = {"toml", "settings", "mcp", "gate"}
  /\ Behind("baseline") = {"toml", "settings", "mcp", "gate"}
BY DEF Behind

(* What one more line adds to what is said. *)
LEMMA SaidMore ==
  ASSUME NEW file, NEW touch, touched' = touched \cup {Setup!Line(file, touch)}, NEW Touches
  PROVE  /\ touch \in Touches => Setup!Said(Touches)' = Setup!Said(Touches) \cup {file}
         /\ touch \notin Touches => Setup!Said(Touches)' = Setup!Said(Touches)
<1>1. Setup!Line(file, touch).file = file /\ Setup!Line(file, touch).touch = touch
  BY DEF Setup!Line
<1>2. ASSUME touch \in Touches  PROVE Setup!Said(Touches)' = Setup!Said(Touches) \cup {file}
  <2>1. {y \in touched' : y.touch \in Touches} =
          {y \in touched : y.touch \in Touches} \cup {Setup!Line(file, touch)}
    BY <1>1, <1>2
  <2> QED  BY <1>1, <2>1 DEF Setup!Said
<1>3. ASSUME touch \notin Touches  PROVE Setup!Said(Touches)' = Setup!Said(Touches)
  <2>1. {y \in touched' : y.touch \in Touches} = {y \in touched : y.touch \in Touches}
    BY <1>1, <1>3
  <2> QED  BY <2>1 DEF Setup!Said
<1> QED  BY <1>2, <1>3

(* A step's file has no bytes and no line before it, and its line says     *)
(* what happened; an error names the file.                                 *)
LEMMA TellStep ==
  ASSUME ToldInv, step # "idle", NEW file, NEW touch, NEW next \in {"settings", "mcp", "gate", "scan"},
         Setup!Tells(file, touch, next),
         file \notin Behind(step), Behind(next) = Behind(step) \cup {file},
         step = "chmod" => file = "gate" /\ touch \in Setup!Changing,
         \/ touch \in {"unchanged", "skipped"} /\ wrote' = wrote
         \/ touch \in Setup!Changing /\ wrote' \subseteq wrote \cup {file}
  PROVE  ToldInv' /\ Setup!InitTold'
<1> USE DEF Setup!Changing
<1>1. step' = next /\ touched' = touched \cup {Setup!Line(file, touch)}  BY DEF Setup!Tells
<1>2. \A x \in touched : x.file # file  BY DEF ToldInv
<1>3. \A x \in touched' : x.file \in Behind(next)  BY <1>1 DEF ToldInv, Setup!Line
<1>4. /\ touch \in Setup!Changing => /\ Setup!Said(Setup!Changing)' = Setup!Said(Setup!Changing) \cup {file}
                               /\ Setup!Said({"unchanged", "skipped"})' = Setup!Said({"unchanged", "skipped"})
      /\ touch \in {"unchanged", "skipped"} =>
           /\ Setup!Said(Setup!Changing)' = Setup!Said(Setup!Changing)
           /\ Setup!Said({"unchanged", "skipped"})' = Setup!Said({"unchanged", "skipped"}) \cup {file}
  <2>1. /\ touch \in Setup!Changing => touch \notin {"unchanged", "skipped"}
        /\ touch \in {"unchanged", "skipped"} => touch \notin Setup!Changing
    OBVIOUS
  <2> HIDE DEF Setup!Changing
  <2> QED  BY <1>1, <2>1, SaidMore
<1>5. file \notin Setup!Said({"unchanged", "skipped"})  BY <1>2 DEF Setup!Said
<1>6. /\ wrote \subseteq Behind(step) \cup {f \in {file} : step = "chmod"}
      /\ wrote \cap Behind(step) \subseteq Setup!Said(Setup!Changing)
      /\ Setup!Said({"unchanged", "skipped"}) \cap wrote = {}
  BY DEF ToldInv
<1>7. wrote' \subseteq Behind(next) /\ wrote' \cap Behind(next) \subseteq Setup!Said(Setup!Changing)'
  <2>1. CASE touch \in Setup!Changing  BY <1>4, <1>6, <2>1
  <2>2. CASE touch \in {"unchanged", "skipped"}
    <3>1. step # "chmod" /\ wrote' = wrote  BY <2>2
    <3>2. wrote \subseteq Behind(step)  BY <1>6, <3>1
    <3> QED  BY <1>4, <1>6, <2>2, <3>1, <3>2
  <2> QED  BY <2>1, <2>2
<1>8. Setup!Said({"unchanged", "skipped"})' \cap wrote' = {}
  <2>1. CASE touch \in Setup!Changing  BY <1>4, <1>5, <1>6, <2>1
  <2>2. CASE touch \in {"unchanged", "skipped"}
    <3>1. step # "chmod" /\ wrote' = wrote  BY <2>2
    <3>2. file \notin wrote  BY <1>6, <3>1
    <3> QED  BY <1>4, <1>6, <2>2, <3>1, <3>2
  <2> QED  BY <2>1, <2>2
<1> QED  BY <1>1, <1>3, <1>7, <1>8 DEF ToldInv, Setup!InitTold

LEMMA FailStep ==
  ASSUME ToldInv, step # "idle", NEW file, Setup!Fails(file),
         file \notin Behind(step), step = "chmod" => file = "gate",
         wrote' \subseteq wrote \cup {file}
  PROVE  ToldInv' /\ Setup!InitTold'
<1>1. /\ wrote \subseteq Behind(step) \cup {f \in {file} : step = "chmod"}
      /\ wrote \cap Behind(step) \subseteq Setup!Said(Setup!Changing)
      /\ Setup!Said({"unchanged", "skipped"}) \cap wrote = {}
      /\ \A x \in touched : x.file # file
  BY DEF ToldInv
<1>2. step' = "idle" /\ named' = file /\ touched' = touched  BY DEF Setup!Fails, Setup!Owed
<1>3. file \notin Setup!Said({"unchanged", "skipped"})  BY <1>1 DEF Setup!Said
<1>4. /\ Setup!Said(Setup!Changing)' = Setup!Said(Setup!Changing)
      /\ Setup!Said({"unchanged", "skipped"})' = Setup!Said({"unchanged", "skipped"})
  BY <1>2 DEF Setup!Said, Setup!Changing
<1>5. wrote' \subseteq Setup!Said(Setup!Changing) \cup {file}  BY <1>1
<1>6. Setup!Said({"unchanged", "skipped"}) \cap wrote' = {}  BY <1>1, <1>3
<1> QED  BY <1>2, <1>4, <1>5, <1>6 DEF ToldInv, Setup!InitTold

LEMMA ToldStep ==
  ASSUME Setup!InitAssumption, SetupType, ToldInv, Setup!InitTold, [Setup!Next]_(Setup!initVars)
  PROVE  ToldInv' /\ Setup!InitTold'
<1> USE DocsTwo, BehindTrue DEF SetupType, SetupSteps
<1>1. CASE Setup!Start
  <2>1. touched' = {} /\ wrote' = {} /\ step' \in {"idle", "toml"}  BY <1>1 DEF Setup!Start
  <2> QED  BY <2>1 DEF ToldInv, Setup!InitTold, Setup!Said
<1>2. CASE Setup!WriteToml
  <2>1. \/ Setup!Tells("toml", "unchanged", "settings") /\ wrote' = wrote
        \/ /\ Setup!Tells("toml", "wrote", "settings") \/ Setup!Fails("toml")
           /\ wrote' = wrote \cup {"toml"}
    BY <1>2 DEF Setup!WriteToml
  <2>2. step = "toml"  BY <1>2 DEF Setup!WriteToml
  <2> QED  BY <2>1, <2>2, TellStep, FailStep DEF Setup!Changing
<1>3. ASSUME NEW d \in Setup!Docs, Setup!WriteDoc(d)  PROVE ToldInv' /\ Setup!InitTold'
  <2>1. \/ Setup!Tells(d, "unchanged", Setup!AfterDoc(d)) /\ wrote' = wrote
        \/ /\ \/ Setup!Tells(d, "updated", Setup!AfterDoc(d))
              \/ Setup!Tells(d, "wrote", Setup!AfterDoc(d))
              \/ Setup!Fails(d)
           /\ wrote' = wrote \cup {d}
    BY <1>3 DEF Setup!WriteDoc
  <2>2. /\ step = d /\ Setup!AfterDoc(d) \in {"mcp", "gate"} /\ d \notin Behind(d)
        /\ Behind(Setup!AfterDoc(d)) = Behind(d) \cup {d}
    BY <1>3 DEF Setup!WriteDoc, Setup!AfterDoc
  <2> QED  BY <2>1, <2>2, TellStep, FailStep DEF Setup!Changing
<1>4. CASE Setup!InstallGate
  <2>1. step = "gate"  BY <1>4 DEF Setup!InstallGate
  <2>2. CASE /\ \/ Setup!Tells("gate", "skipped", "scan")
                \/ Setup!Tells("gate", "unchanged", "scan")
             /\ wrote' = wrote
    BY <2>1, <2>2, TellStep
  <2>3. CASE Setup!Fails("gate") /\ wrote' = wrote \cup {"gate"}  BY <2>1, <2>3, FailStep
  <2>4. CASE /\ step' = "chmod" /\ wrote' = wrote \cup {"gate"}
             /\ UNCHANGED <<touched, named, ended, settled>>
    <3>1. /\ Setup!Said(Setup!Changing)' = Setup!Said(Setup!Changing)
          /\ Setup!Said({"unchanged", "skipped"})' = Setup!Said({"unchanged", "skipped"})
      BY <2>4 DEF Setup!Said, Setup!Changing
    <3>2. "gate" \notin Setup!Said({"unchanged", "skipped"})
      BY <2>1 DEF ToldInv, Setup!Said
    <3> QED  BY <2>1, <2>4, <3>1, <3>2 DEF ToldInv, Setup!InitTold
  <2> QED  BY <1>4, <2>2, <2>3, <2>4 DEF Setup!InstallGate
<1>5. CASE Setup!MarkExecutable
  <2>1. step = "chmod" /\ wrote' = wrote /\ (Setup!Tells("gate", "wrote", "scan") \/ Setup!Fails("gate"))
    BY <1>5 DEF Setup!MarkExecutable
  <2> QED  BY <2>1, TellStep, FailStep DEF Setup!Changing
<1>6. CASE Setup!Scan
  <2>1. step = "scan" /\ wrote' = wrote  BY <1>6 DEF Setup!Scan
  <2>2. CASE Setup!Fails("scan")  BY <2>1, <2>2, FailStep
  <2>3. CASE step' = "baseline" /\ UNCHANGED <<touched, named, ended, settled>>
    <3>1. /\ Setup!Said(Setup!Changing)' = Setup!Said(Setup!Changing)
          /\ Setup!Said({"unchanged", "skipped"})' = Setup!Said({"unchanged", "skipped"})
      BY <2>3 DEF Setup!Said, Setup!Changing
    <3> QED  BY <2>1, <2>3, <3>1 DEF ToldInv, Setup!InitTold
  <2> QED  BY <1>6, <2>2, <2>3 DEF Setup!Scan
<1>7. CASE Setup!Finish
  <2>1. step = "baseline"  BY <1>7 DEF Setup!Finish
  <2>2. CASE Setup!Fails("baseline") /\ wrote' = wrote  BY <2>1, <2>2, FailStep
  <2>3. CASE /\ touched' = touched \cup {Setup!Line("baseline", IF signed THEN "unchanged" ELSE "wrote")}
             /\ wrote' = (IF signed THEN wrote ELSE wrote \cup {"baseline"})
             /\ step' = "idle"
    <3>1. /\ wrote \subseteq Behind("baseline") /\ wrote \subseteq Setup!Said(Setup!Changing)
          /\ Setup!Said({"unchanged", "skipped"}) \cap wrote = {}
      BY <2>1 DEF ToldInv
    <3>2. "baseline" \notin Setup!Said({"unchanged", "skipped"})
      BY <2>1 DEF ToldInv, Setup!Said
    <3>3. CASE signed
      <4>1. /\ Setup!Said(Setup!Changing)' = Setup!Said(Setup!Changing)
            /\ Setup!Said({"unchanged", "skipped"})' = Setup!Said({"unchanged", "skipped"}) \cup {"baseline"}
        BY <2>3, <3>3, SaidMore DEF Setup!Changing
      <4> QED  BY <2>3, <3>1, <3>3, <4>1 DEF ToldInv, Setup!InitTold
    <3>4. CASE ~signed
      <4>1. /\ Setup!Said(Setup!Changing)' = Setup!Said(Setup!Changing) \cup {"baseline"}
            /\ Setup!Said({"unchanged", "skipped"})' = Setup!Said({"unchanged", "skipped"})
        BY <2>3, <3>4, SaidMore DEF Setup!Changing
      <4> QED  BY <2>3, <3>1, <3>2, <3>4, <4>1 DEF ToldInv, Setup!InitTold
    <3> QED  BY <3>3, <3>4
  <2> QED  BY <1>7, <2>2, <2>3 DEF Setup!Finish
<1>8. CASE Setup!Kill  BY <1>8 DEF Setup!Kill, ToldInv, Setup!InitTold
<1>9. ASSUME UNCHANGED <<step, touched, named, wrote, ended>>
      PROVE ToldInv' /\ Setup!InitTold'
  BY <1>9 DEF ToldInv, Setup!InitTold, Setup!Said
<1> QED
  BY <1>1, <1>2, <1>3, <1>4, <1>5, <1>6, <1>7, <1>8, <1>9 DEF Setup!Next, Setup!EditDoc, Setup!initVars

-----------------------------------------------------------------------------
(* The user's entries. *)

(* A plan that nothing overtook writes what it found and more; one that    *)
(* something overtook is remembered as having raced.                       *)
LEMMA EntriesStep ==
  ASSUME Setup!InitAssumption, SetupType, Setup!UsersKept, Setup!OneEach, PlanInv, [Setup!Next]_(Setup!initVars)
  PROVE  Setup!UsersKept' /\ Setup!OneEach' /\ PlanInv'
<1> USE DocsTwo DEF SetupType
<1>1. CASE UNCHANGED <<docs, planned, kept, raced>>
  BY <1>1 DEF Setup!UsersKept, Setup!OneEach, PlanInv, Single
<1>2. CASE Setup!Start
  <2>1. /\ UNCHANGED <<docs, kept, raced>>
        /\ planned' = planned \/ planned' = [d \in Setup!Docs |-> Setup!Plan(d)]
    BY <1>2 DEF Setup!Start
  <2>2. \A d \in Setup!Docs : Setup!Plan(d).was.has \subseteq Setup!Plan(d).has /\ Single(d, Setup!Plan(d).has)
    BY PlanTrue
  <2> QED  BY <2>1, <2>2 DEF Setup!UsersKept, Setup!OneEach, PlanInv, Single
<1>3. ASSUME NEW d \in Setup!Docs, Setup!WriteDoc(d)
      PROVE Setup!UsersKept' /\ Setup!OneEach' /\ PlanInv'
  <2>1. UNCHANGED <<planned, kept>> /\ PlanInv'  BY <1>3 DEF Setup!WriteDoc, PlanInv, Single
  <2>2. CASE docs' = docs /\ raced' = raced  BY <1>1, <2>1, <2>2
  <2>3. CASE /\ docs' = [docs EXCEPT ![d] = Setup!Object(planned[d].has)]
             /\ raced' = IF docs[d] = planned[d].was THEN raced ELSE raced \cup {d}
    <3>1. docs'[d].has = planned[d].has /\ \A c \in Setup!Docs \ {d} : docs'[c] = docs[c]
      BY <2>3 DEF Setup!Object
    <3>2. planned[d].was.has \subseteq planned[d].has /\ Single(d, planned[d].has)
      BY DEF PlanInv
    <3>3. d \in raced' \/ kept[d] \subseteq planned[d].has
      BY <2>3, <3>2 DEF Setup!UsersKept
    <3> QED  BY <2>1, <2>3, <3>1, <3>2, <3>3 DEF Setup!UsersKept, Setup!OneEach, Single
  <2>4. ASSUME NEW torn \in Setup!HalfWritten, docs' = [docs EXCEPT ![d] = torn], raced' = raced \cup {d}
        PROVE  Setup!UsersKept' /\ Setup!OneEach'
    BY <2>1, <2>4, TornTyped DEF Setup!UsersKept, Setup!OneEach
  <2> QED  BY <1>3, <2>1, <2>2, <2>3, <2>4 DEF Setup!WriteDoc
<1>4. CASE Setup!Kill
  <2>1. UNCHANGED <<planned, kept>> /\ PlanInv'  BY <1>4 DEF Setup!Kill, PlanInv, Single
  <2>2. CASE docs' = docs /\ raced' = raced  BY <1>1, <2>1, <2>2
  <2>3. ASSUME NEW d \in Setup!Docs, NEW torn \in Setup!HalfWritten, docs' = [docs EXCEPT ![d] = torn],
               raced' = raced \cup {d}
        PROVE  Setup!UsersKept' /\ Setup!OneEach'
    BY <2>1, <2>3, TornTyped DEF Setup!UsersKept, Setup!OneEach
  <2> QED  BY <1>4, <2>1, <2>2, <2>3 DEF Setup!Kill
<1>5. ASSUME NEW d \in Setup!Docs, NEW S, Setup!EditDoc(d, S)
      PROVE Setup!UsersKept' /\ Setup!OneEach' /\ PlanInv'
  <2>1. planned' = planned /\ docs' = [docs EXCEPT ![d] = Setup!Object(S)] /\ raced' = raced \ {d}
        /\ kept' = [kept EXCEPT ![d] = S \cap Setup!Theirs]
    BY <1>5 DEF Setup!EditDoc
  <2>2. PlanInv'  BY <2>1 DEF PlanInv, Single
  <2>3. docs'[d].has = S /\ kept'[d] \subseteq S
        /\ \A c \in Setup!Docs \ {d} : docs'[c] = docs[c] /\ kept'[c] = kept[c]
    BY <2>1 DEF Setup!Object
  <2>4. \A w \in Wanted[d] : ~({w, Variant[w]} \subseteq S)  BY <1>5 DEF Setup!EditDoc
  <2> QED  BY <2>1, <2>2, <2>3, <2>4 DEF Setup!UsersKept, Setup!OneEach
<1> QED
  BY <1>1, <1>2, <1>3, <1>4, <1>5
     DEF Setup!Next, Setup!WriteToml, Setup!InstallGate, Setup!MarkExecutable, Setup!Scan,
     Setup!Finish, Setup!initVars

-----------------------------------------------------------------------------
(* The second run. *)

(* The write of a document as it was planned leaves nothing to do for it,  *)
(* and there is none where nothing was to do.                              *)
LEMMA WriteCompletes ==
  ASSUME Setup!InitAssumption, SetupType, NEW d \in Setup!Docs, Setup!WriteDoc(d),
         docs[d] = planned[d].was, Planned(d),
         settled' # "no"
  PROVE  /\ Complete(d)' /\ \A c \in Setup!Docs \ {d} : docs'[c] = docs[c]
         /\ Complete(d) => wrote' = wrote
<1> USE DEF SetupType
<1>1. planned[d].was \in Document /\ planned[d].was.has \in SUBSET SetupEntries
      /\ planned[d].was.kind \in {"absent", "bad", "object"}
  BY DEF Plans, Document
<1>2. CASE ~Setup!Writes(planned[d]) /\ UNCHANGED <<docs, wrote>>
  <2>1. planned[d].existed /\ ~planned[d].changed  BY <1>2 DEF Setup!Writes, Plans
  <2> QED  BY <1>1, <1>2, <2>1 DEF Planned, Complete
<1>3. CASE Setup!Writes(planned[d]) /\ docs' = [docs EXCEPT ![d] = Setup!Object(planned[d].has)]
  <2>1. docs'[d].kind = "object" /\ docs'[d].has = Setup!Merged(d, planned[d].was.has)
        /\ \A c \in Setup!Docs \ {d} : docs'[c] = docs[c]
    BY <1>3 DEF Setup!Object, Planned
  <2>2. Complete(d)'  BY <1>1, <2>1, MergeTrue DEF Complete
  <2>3. ~Complete(d)  BY <1>3 DEF Setup!Writes, Complete, Planned
  <2> QED  BY <2>1, <2>2, <2>3
<1>4. ~Setup!Fails(d)  BY DEF Setup!Fails
<1> QED  BY <1>2, <1>3, <1>4 DEF Setup!WriteDoc

LEMMA SettledStep ==
  ASSUME Setup!InitAssumption, SetupType, Setup!OneEach, CalmInv, SettledInv, [Setup!Next]_(Setup!initVars)
  PROVE  CalmInv' /\ SettledInv'
<1> USE DocsTwo, BehindTrue DEF SetupType, SetupSteps
<1>0. CASE settled' = "no"  BY <1>0 DEF CalmInv, SettledInv
<1>1. ASSUME UNCHANGED <<docs, planned, toml, gate, place, signed, wrote, settled>>,
             \/ step' \in {"idle", step}
             \/ step # "idle" /\ Behind(step') = Behind(step) /\ step' # "chmod"
      PROVE  CalmInv' /\ SettledInv'
  <2>1. \A d \in Setup!Docs : (Complete(d)' <=> Complete(d)) /\ (Planned(d)' <=> Planned(d))
    BY <1>1 DEF Complete, Planned
  <2> QED  BY <1>1, <2>1 DEF CalmInv, SettledInv
<1>2. CASE Setup!Start
  <2>1. CASE step' = step /\ settled' = "no"  BY <1>0, <2>1
  <2>2. CASE /\ step' = "toml" /\ planned' = [d \in Setup!Docs |-> Setup!Plan(d)] /\ wrote' = {}
             /\ settled' = IF settled = "yes" THEN "yes" ELSE "calm"
             /\ \A d \in Setup!Docs : docs[d].kind # "bad"
             /\ UNCHANGED <<docs, toml, gate, signed, place>>
    <3>1. \A d \in Setup!Docs : docs'[d] = planned'[d].was /\ Planned(d)'
      BY <2>2, PlanTrue DEF Planned
    <3>2. \A d \in Setup!Docs : Complete(d)' <=> Complete(d)  BY <2>2 DEF Complete
    <3> QED  BY <2>2, <3>1, <3>2 DEF CalmInv, SettledInv
  <2> QED  BY <1>2, <2>1, <2>2 DEF Setup!Start
<1>3. CASE Setup!WriteToml /\ settled' # "no"
  <2>1. /\ step = "toml" /\ step' = "settings" /\ toml' # "absent" /\ settled' = settled
        /\ toml # "absent" => UNCHANGED <<toml, wrote>>
        /\ UNCHANGED <<docs, planned, gate, place, signed>>
    BY <1>3 DEF Setup!WriteToml, Setup!Tells, Setup!Fails
  <2>2. \A d \in Setup!Docs : (Complete(d)' <=> Complete(d)) /\ (Planned(d)' <=> Planned(d))
    BY <2>1 DEF Complete, Planned
  <2> QED  BY <2>1, <2>2 DEF CalmInv, SettledInv
<1>4. ASSUME NEW d \in Setup!Docs, Setup!WriteDoc(d), settled' # "no"
      PROVE CalmInv' /\ SettledInv'
  <2>1. /\ step = d /\ step' = Setup!AfterDoc(d) /\ settled' = settled
        /\ UNCHANGED <<toml, gate, place, signed, planned>>
    BY <1>4 DEF Setup!WriteDoc, Setup!Tells, Setup!Fails
  <2>2. /\ Setup!AfterDoc(d) \in {"mcp", "gate"} /\ d \notin Behind(d)
        /\ Behind(Setup!AfterDoc(d)) = Behind(d) \cup {d}
    BY <2>1 DEF Setup!AfterDoc
  <2>3. docs[d] = planned[d].was /\ Planned(d)
    BY <1>4, <2>1, <2>2 DEF CalmInv
  <2>4. /\ Complete(d)' /\ \A c \in Setup!Docs \ {d} : docs'[c] = docs[c]
        /\ Complete(d) => wrote' = wrote
    BY <1>4, <2>3, WriteCompletes
  <2>5. \A c \in Setup!Docs \ {d} : (Complete(c)' <=> Complete(c)) /\ (Planned(c)' <=> Planned(c))
    BY <2>1, <2>4 DEF Complete, Planned
  <2>6. CalmInv'  BY <1>4, <2>1, <2>2, <2>4, <2>5 DEF CalmInv
  <2>7. SettledInv'  BY <2>1, <2>2, <2>4, <2>5 DEF SettledInv
  <2> QED  BY <2>6, <2>7
<1>5. CASE Setup!InstallGate /\ settled' # "no"
  <2>1. /\ step = "gate" /\ step' \in {"scan", "chmod"} /\ settled' = settled
        /\ place # "git" \/ gate' # "none"
        /\ place # "git" \/ gate # "none" => wrote' = wrote
        /\ UNCHANGED <<docs, planned, toml, place, signed>>
    BY <1>5 DEF Setup!InstallGate, Setup!Tells, Setup!Fails
  <2>2. \A d \in Setup!Docs : (Complete(d)' <=> Complete(d)) /\ (Planned(d)' <=> Planned(d))
    BY <2>1 DEF Complete, Planned
  <2> QED  BY <1>5, <2>1, <2>2 DEF CalmInv, SettledInv
<1>6. CASE Setup!MarkExecutable /\ settled' # "no"
  <2>1. /\ step = "chmod" /\ step' = "scan" /\ settled' = settled
        /\ gate' = (IF gate = "plain" THEN "ours" ELSE gate)
        /\ UNCHANGED <<docs, planned, toml, place, signed, wrote>>
    BY <1>6 DEF Setup!MarkExecutable, Setup!Tells, Setup!Fails
  <2>2. \A d \in Setup!Docs : (Complete(d)' <=> Complete(d)) /\ (Planned(d)' <=> Planned(d))
    BY <2>1 DEF Complete, Planned
  <2> QED  BY <1>6, <2>1, <2>2 DEF CalmInv, SettledInv
<1>7. CASE Setup!Scan /\ settled' # "no"
  <2>1. step = "scan" /\ step' = "baseline"
        /\ UNCHANGED <<docs, planned, toml, gate, place, signed, wrote, settled>>
    BY <1>7 DEF Setup!Scan, Setup!Fails
  <2> QED  BY <1>1, <2>1
<1>8. CASE Setup!Finish /\ settled' # "no"
  <2>1. /\ step = "baseline" /\ step' = "idle" /\ signed' = TRUE /\ settled # "no"
        /\ UNCHANGED <<docs, toml, gate, place>>
    BY <1>8 DEF Setup!Finish, Setup!Fails
  <2>2. \A d \in Setup!Docs : Complete(d)' <=> Complete(d)  BY <2>1 DEF Complete
  <2> QED  BY <2>1, <2>2 DEF CalmInv, SettledInv
<1>9. CASE Setup!Kill  BY <1>0, <1>9 DEF Setup!Kill
<1>10. ASSUME NEW d \in Setup!Docs, NEW S, Setup!EditDoc(d, S)  PROVE settled' = "no"
  BY <1>10 DEF Setup!EditDoc
<1>11. CASE UNCHANGED Setup!initVars  BY <1>1, <1>11 DEF Setup!initVars
<1> QED
  BY <1>0, <1>2, <1>3, <1>4, <1>5, <1>6, <1>7, <1>8, <1>9, <1>10, <1>11 DEF Setup!Next

-----------------------------------------------------------------------------
LEMMA SetupStarts ==
  ASSUME Setup!InitAssumption, Setup!Init
  PROVE  SetupInv
<1> USE DocsTwo
<1>1. docs \in [Setup!Docs -> Document] /\ \A d \in Setup!Docs : docs[d].has \subseteq Own
  <2>1. \A D \in {Setup!Absent, Setup!Bad} \cup {Setup!Object(S) : S \in SUBSET Own} :
          D \in Document /\ D.has \subseteq Own
    BY DEF Setup!Absent, Setup!Bad, Setup!Object, Document, SetupEntries, Setup!Theirs
  <2> QED  BY <2>1 DEF Setup!Init
<1>2. Setup!NoPlan \in [Setup!Docs -> Plans]
  BY DEF Setup!NoPlan, Plans, Setup!Absent, Document
<1>3. SetupType
  <2>1. kept \in [Setup!Docs -> SUBSET SetupEntries]
    BY <1>1 DEF Setup!Init, SetupEntries, Setup!Theirs
  <2> QED  BY <1>1, <1>2, <2>1 DEF Setup!Init, SetupType, SetupSteps
<1>4. ToldInv /\ Setup!InitTold /\ CalmInv /\ SettledInv
  BY DEF Setup!Init, ToldInv, Setup!InitTold, CalmInv, SettledInv
<1>5. Setup!UsersKept /\ Setup!OneEach
  BY <1>1 DEF Setup!Init, Setup!UsersKept, Setup!OneEach, Setup!Theirs
<1>6. PlanInv  BY DEF Setup!Init, PlanInv, Setup!NoPlan, Setup!Absent, Single
<1> QED  BY <1>3, <1>4, <1>5, <1>6 DEF SetupInv

LEMMA SetupKeeps ==
  ASSUME Setup!InitAssumption, SetupInv, [Setup!Next]_(Setup!initVars)
  PROVE  SetupInv'
BY SetupTypeStep, ToldStep, EntriesStep, SettledStep DEF SetupInv

LEMMA SetupSuffices ==
  ASSUME SetupInv
  PROVE  Setup!InitSafe
BY DEF SetupInv, Setup!InitSafe, SettledInv, Setup!SecondRunQuiet

(* Whatever fails, is killed or is edited in between: a run of `init`      *)
(* names every file it changed, the user's entries survive and are not     *)
(* doubled, and a run after one that ended well changes nothing.           *)
THEOREM InitIsSafe ==
  ASSUME Setup!InitAssumption
  PROVE  Setup!Init /\ [][Setup!Next]_(Setup!initVars) => []Setup!InitSafe
<1>1. Setup!Init => SetupInv  BY SetupStarts
<1>2. SetupInv /\ [Setup!Next]_(Setup!initVars) => SetupInv'  BY SetupKeeps
<1>3. SetupInv => Setup!InitSafe  BY SetupSuffices
<1> QED  BY <1>1, <1>2, <1>3, PTL

-----------------------------------------------------------------------------
Opened == INSTANCE IndexOpenProofs WITH path <- indexPath, pc <- at, Rush <- FALSE

(* Every behavior of the three parts side by side is one of each part. *)
LEMMA BaselinePart == StorageSpec => Spec
<1>1. StorageInit => Init  BY DEF StorageInit
<1>2. [BaselineStep \/ OpenStep \/ SetupStep]_storageVars => [Next]_vars
  BY DEF BaselineStep, OpenStep, SetupStep, storageVars
<1> QED  BY <1>1, <1>2, PTL DEF StorageSpec, Spec

(* The steps under the names of MCStorage and under those of the proofs:   *)
(* the same formulas, so everything in them is expanded.                   *)
LEMMA OpenNext == Open!Next => Opened!Next
BY DEF Open!Next, Opened!Next, Open!NewFile, Opened!NewFile, Open!Unused,
   Opened!Unused, Open!At, Opened!At, Open!Connect, Opened!Connect, Open!GoTo,
   Opened!GoTo, Open!Established, Opened!Established, Open!MayStart,
   Opened!MayStart, Open!Open, Opened!Open, Open!Matches, Opened!Matches,
   Open!ShouldRebuild, Opened!ShouldRebuild, Open!SchemaKept,
   Opened!SchemaKept, Open!SchemaStale, Opened!SchemaStale, Open!SchemaUnread,
   Opened!SchemaUnread, Open!RemoveFiles, Opened!RemoveFiles,
   Open!RemoveError, Opened!RemoveError, Open!RemoveFails, Opened!RemoveFails,
   Open!Reopen, Opened!Reopen, Open!CreateTables, Opened!CreateTables,
   Open!CreateMeta, Opened!CreateMeta, Open!Stamp, Opened!Stamp, Open!Close,
   Opened!Close, Open!Crash, Opened!Crash, Open!Corrupt, Opened!Corrupt

LEMMA OpenPart == StorageSpec => Opened!Spec
<1>1. StorageInit => Opened!Init
  BY DEF StorageInit, Open!Init, Opened!Init, Open!NewFile, Opened!NewFile
<1>2. [BaselineStep \/ OpenStep \/ SetupStep]_storageVars => [Opened!Next]_(Opened!vars)
  BY OpenNext DEF BaselineStep, OpenStep, SetupStep, storageVars, openVars, Opened!vars
<1> QED  BY <1>1, <1>2, PTL DEF StorageSpec, Opened!Spec

LEMMA OpenHypothesis == Opened!OpenAssumption
BY OpenFits DEF Open!OpenAssumption, Opened!OpenAssumption

(* Baseline and index database keep their types: a process has a database  *)
(* open exactly where its steps use one, a writer holds whole entries.     *)
THEOREM StorageTyped == StorageSpec => []StorageType
<1>1. Spec => []TypeOK  BY TypeCorrect
<1>2. Opened!Spec => []Opened!TypeOK  BY OpenHypothesis, Opened!TypeCorrect
<1>3. TypeOK /\ Opened!TypeOK => StorageType
  BY DEF StorageType, Open!TypeOK, Opened!TypeOK, Open!Database, Opened!Database
<1> QED  BY <1>1, <1>2, <1>3, BaselinePart, OpenPart, PTL

(* No database carries the stamp of a schema its tables are not of, unless *)
(* a creation was cut short (schema_matches, remove_database_files).       *)
THEOREM StampsTrue == StorageSpec => []NeverMislabelled
<1>1. Opened!Spec => []Opened!NeverMislabelled
  BY OpenHypothesis, Opened!NoneMislabelled
<1>2. Opened!NeverMislabelled => NeverMislabelled
  BY DEF NeverMislabelled, Open!NeverMislabelled, Opened!NeverMislabelled
<1> QED  BY <1>1, <1>2, OpenPart, PTL

(* Nobody records into a database another process has thrown away, unless  *)
(* it was damaged: a busy one is never removed (should_rebuild).           *)
THEOREM RunsShareOne == StorageSpec => []ReadyShares
<1>1. Opened!Spec => []Opened!ReadyShares
  BY OpenHypothesis, Opened!ReadyTogether
<1>2. Opened!ReadyShares => ReadyShares
  BY DEF ReadyShares, Open!ReadyShares, Opened!ReadyShares, Open!At, Opened!At
<1> QED  BY <1>1, <1>2, OpenPart, PTL

(* A run of init names every file it changed, however it ends; the user's  *)
(* entries survive, are never doubled, and a second run changes nothing.   *)
THEOREM InitStaysSafe == StorageSpec => []InitSafe
<1>1. StorageInit => Setup!Init  BY DEF StorageInit
<1>2. [BaselineStep \/ OpenStep \/ SetupStep]_storageVars => [Setup!Next]_(Setup!initVars)
  BY DEF BaselineStep, OpenStep, SetupStep, storageVars, setupVars, Setup!initVars
<1>3. Setup!InitSafe => InitSafe  BY DEF InitSafe
<1> QED  BY <1>1, <1>2, <1>3, SetupFits, InitIsSafe, PTL DEF StorageSpec

(* With writers one after another, the three parts side by side keep the   *)
(* baseline readable and what SignedOff promises.                          *)
THEOREM StorageReadable ==
  ASSUME Overlap = FALSE
  PROVE  StorageSpec => []BaselineReadable /\ KeepsPromise
BY AlwaysReadable, Refinement, BaselinePart, PTL

=============================================================================
