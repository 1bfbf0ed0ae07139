-------------------------- MODULE ReportingProofs --------------------------
(***************************************************************************)
(* Theorems of Reporting, for every set of files, texts and edits.  What   *)
(* they rest on is that a recording run leaves one index, whatever it      *)
(* found: the one a fresh checkout would get (IndexFresh), because a row's *)
(* imports are those that name an indexed file (Exact), so that an import  *)
(* can only come to resolve when a file is new, and then it is repaired.   *)
(***************************************************************************)
EXTENDS Reporting, FiniteSetTheorems, SequenceTheorems, TLAPS

RowType == [text : Texts, to : SUBSET Files]

Tables == [Files -> RowType \cup {None}]

Indexed(table) == {f \in Files : table[f] # None}

Exact(table) ==
  \A f \in Indexed(table) : table[f].to = Imports[table[f].text] \cap Indexed(table)

Fresh == [f \in Files |-> IF f \in Existing THEN Row(f, Existing) ELSE None]

(* The history holds what each row says, and what Base says. *)
Remembered(table) ==
  \A f \in Files :
    /\ table[f] # None => Seen[table[f].text] \in past[f]
    /\ (IF Base[f] = Gone THEN {} ELSE Seen[Base[f]]) \in past[f]

(* Each skip said to be new has a version that lacked it. *)
Honest(S, versions) ==
  \A x \in S : x.kind = "skip" /\ x.newly =>
    x.file \in Files /\ \E s \in versions[x.file] : x.name \notin s

TypeInv ==
  /\ disk \in [Files -> Texts \cup {Gone}] /\ head \subseteq Files
  /\ rows \in Tables

CacheHonest == \A f \in Files : cache[f] # None => Honest(cache[f], past)

IInv == TypeInv /\ Exact(rows) /\ Remembered(rows) /\ CacheHonest

(* The parts of an answer: what the file rules found, the scope, and what  *)
(* the graph rules may report in.                                          *)
ByFile(q, table, served) ==
  (UNION {FoundIn(q, table, f) : f \in Parsed(q, table, served)})
    \cup (IF q.mode # "repo" THEN {}
          ELSE UNION {served[f] : f \in Existing \ Parsed(q, table, served)})

Scope(q, table) == IF ScopeIsWatermark(q) THEN ChangedIn(table) ELSE q.scope

Wide(q, table, after) ==
  Scope(q, table) \cup Neighbours(after, Scope(q, table))
    \cup (IF ScopeIsWatermark(q) THEN Before(table, ChangedIn(table), Existing) ELSE {})

-----------------------------------------------------------------------------
LEMMA AnswerParts ==
  ASSUME NEW q, NEW table, NEW served,
         NEW after, after = IndexAfter(table, ChangedIn(table))
  PROVE  Answer(q, table, served) =
           IF Scope(q, table) = None THEN ByFile(q, table, served) \cup GraphFindings(q, after)
           ELSE {x \in ByFile(q, table, served) : x.file \in Scope(q, table)}
                  \cup {x \in GraphFindings(q, after) :
                          x.file \in Wide(q, table, after) \/ (q.raw # None /\ x.file \in q.raw)}
BY DEF Answer, ByFile, Scope, Wide

LEMMA RowTyped ==
  ASSUME TypeInv, NEW f \in Existing
  PROVE  /\ Row(f, Existing) \in RowType /\ Row(f, Existing) # None
         /\ Row(f, Existing).text = disk[f]
         /\ Row(f, Existing).to = Imports[disk[f]] \cap Existing
BY NoneAssumption DEF TypeInv, Existing, Row, RowType

LEMMA NoRowsExact ==
  NoRows \in Tables /\ Exact(NoRows) /\ (Remembered(rows) => Remembered(NoRows))
BY DEF NoRows, Tables, Exact, Indexed, Remembered

(* Whatever an exact index held, a run leaves the index of a fresh one.    *)
LEMMA IndexFresh ==
  ASSUME TypeInv, NEW table \in Tables, Exact(table)
  PROVE  IndexAfter(table, ChangedIn(table)) = Fresh
<1> DEFINE changed == ChangedIn(table)
<1>1. ASSUME NEW f \in Existing, f \in changed \cup Repaired(table, changed)
      PROVE  IndexAfter(table, changed)[f] = Row(f, Existing)
  <2>1. Recorded(table, changed)[f] = Row(f, Existing) \/ f \in Repaired(table, changed)
    BY <1>1 DEF Recorded, Existing
  <2> QED  BY <2>1, RowTyped DEF IndexAfter, Existing, Row
<1>2. ASSUME NEW f \in Existing, f \notin changed, f \notin Repaired(table, changed)
      PROVE  IndexAfter(table, changed)[f] = Row(f, Existing)
  <2>1. /\ f \in Files /\ table[f] # None /\ table[f].text = disk[f]
        /\ table[f] \in RowType
    BY <1>2 DEF ChangedIn, Existing, Tables
  <2>2. Recorded(table, changed)[f] = table[f]
    BY <1>2, <2>1 DEF Recorded
  <2>3. IndexAfter(table, changed)[f] = [table[f] EXCEPT !.to = @ \cap Existing]
    BY <1>2, <2>1, <2>2 DEF IndexAfter
  <2>4. table[f].to = Imports[disk[f]] \cap Indexed(table)
    BY <2>1 DEF Exact, Indexed
  <2>5. ASSUME NEW i \in Imports[disk[f]] \cap Existing  PROVE i \in Indexed(table)
    <3> SUFFICES ASSUME table[i] = None  PROVE FALSE
      BY DEF Indexed, Existing
    <3>1. i \in changed  BY DEF ChangedIn, Existing
    <3>2. f \in Unresolved(Recorded(table, changed))
      BY <2>1, <2>2, <2>4 DEF Unresolved, Indexed
    <3> QED  BY <1>2, <3>1, <3>2 DEF Repaired
  <2>6. table[f].to \cap Existing = Imports[disk[f]] \cap Existing
    BY <2>4, <2>5
  <2> QED  BY <2>1, <2>3, <2>6 DEF Row, RowType
<1>3. ASSUME NEW f \in Files, f \notin Existing
      PROVE  IndexAfter(table, changed)[f] = None
  BY <1>3 DEF IndexAfter
<1> QED  BY <1>1, <1>2, <1>3 DEF IndexAfter, Fresh, Existing

LEMMA FreshExact ==
  ASSUME TypeInv
  PROVE  Fresh \in Tables /\ Indexed(Fresh) = Existing /\ Exact(Fresh)
<1>1. Fresh \in Tables /\ Indexed(Fresh) = Existing
  BY RowTyped DEF Fresh, Tables, Indexed, Existing
<1> QED  BY <1>1, RowTyped DEF Exact, Fresh, Existing

-----------------------------------------------------------------------------
(* What one file's rules say is honest, whatever version they compare with *)
(* (NewlySkipped, Previous).                                               *)
LEMMA FoundHonest ==
  ASSUME NEW q, NEW table, Remembered(table), NEW f \in Files
  PROVE  Honest(FoundIn(q, table, f), past)
<1> DEFINE was == Previous(q, table, f)
<1>0. ASSUME NEW x \in FoundIn(q, table, f), x.kind = "skip", x.newly
      PROVE  x.file = f /\ f \in TestFiles /\ was # None /\ x.name \notin was
  <2>1. x \in NewlySkipped(f, disk[f], was)
    BY <1>0 DEF FoundIn, FileFindings, Other
  <2>2. PICK n \in {m \in Skipped[disk[f]] : was = None \/ m \notin was} :
               x = Skip(f, n, was # None)
    BY <2>1 DEF NewlySkipped
  <2>3. f \in TestFiles  BY <2>1 DEF NewlySkipped
  <2>4. x.file = f /\ x.name = n /\ x.newly = (was # None)  BY <2>2 DEF Skip
  <2> QED  BY <1>0, <2>2, <2>3, <2>4
<1> SUFFICES ASSUME NEW n, f \in TestFiles, was # None, n \notin was
             PROVE  \E s \in past[f] : n \notin s
  BY <1>0 DEF Honest
<1> HIDE DEF was
<1>1. CASE was = SkippedAt(f)
  <2>1. CASE Base[f] = Gone
    BY <1>1, <2>1 DEF SkippedAt, Remembered
  <2>2. CASE Base[f] # Gone
    <3>1. Base[f] \in Texts \ Broken /\ was = Skipped[Base[f]]
      BY <1>1, <2>2, ReportingAssumption DEF SkippedAt
    <3>2. Seen[Base[f]] = Skipped[Base[f]]
      BY <3>1, ReportingAssumption
    <3> QED  BY <2>2, <3>1, <3>2 DEF Remembered
  <2> QED  BY <2>1, <2>2
<1>2. CASE table[f] # None /\ was = Seen[table[f].text]
  BY <1>2 DEF Remembered
<1> QED  BY <1>1, <1>2 DEF Previous, was

(* So is a report, on an honest cache. *)
LEMMA AnswerHonest ==
  ASSUME NEW q, NEW table, NEW served, Remembered(table),
         q.mode \notin {"repo", "changed"} => q.scope \in SUBSET Files,
         \A f \in Files : served[f] # None => Honest(served[f], past)
  PROVE  Honest(Answer(q, table, served), past)
<1> DEFINE parsed == Parsed(q, table, served)
<1>1. parsed \subseteq Files
  BY DEF Parsed, ChangedIn, Repaired, Existing
<1>2. ASSUME NEW x \in Answer(q, table, served), x.kind = "skip"
      PROVE  \/ \E f \in parsed : x \in FoundIn(q, table, f)
             \/ \E f \in Existing \ parsed : (q.mode = "repo" /\ x \in served[f])
  <2> DEFINE after == IndexAfter(table, ChangedIn(table))
  <2>1. x \notin GraphFindings(q, after)
    BY <1>2 DEF GraphFindings, Other
  <2>2. x \in ByFile(q, table, served)
    <3> HIDE DEF after
    <3> QED  BY <1>2, <2>1, AnswerParts DEF after
  <2> QED  BY <2>2 DEF ByFile
<1>3. ASSUME NEW f \in Existing \ parsed, q.mode = "repo"  PROVE f \in Files /\ served[f] # None
  BY <1>3 DEF Parsed, Existing
<1> QED  BY <1>1, <1>2, <1>3, FoundHonest DEF Honest

(* The history only grows. *)
LEMMA PastGrows ==
  ASSUME TypeInv, Remembered(rows), Remembers
  PROVE  /\ \A f \in Files : past[f] \subseteq past'[f]
         /\ \A S : Honest(S, past) => Honest(S, past')
<1>1. \A f \in Files : past[f] \subseteq past'[f]  BY DEF Remembers
<1> QED  BY <1>1 DEF Honest

LEMMA ScopeTyped ==
  ASSUME NEW q \in Requests
  PROVE  q.mode \notin {"repo", "changed"} => q.scope \in SUBSET Files
BY DEF Requests, Existing, Diff

-----------------------------------------------------------------------------
LEMMA InitIInv ==
  ASSUME Init
  PROVE  IInv
<1>1. TypeInv  BY ReportingAssumption, NoRowsExact DEF Init, TypeInv
<1>2. Exact(rows) /\ Remembered(rows)
  BY NoRowsExact DEF Init, Remembered, NoRows
<1>3. CacheHonest  BY DEF Init, CacheHonest, NoRows
<1> QED  BY <1>1, <1>2, <1>3 DEF IInv

(* What both forms of a run leave: a fresh checkout's index, a history of  *)
(* its rows and an honest cache.                                           *)
LEMMA RunLeaves ==
  ASSUME IInv, NEW q \in Requests, NEW wrote \in BOOLEAN,
         rows' = IndexAfter(rows, ChangedIn(rows)), cache' = CacheAfter(q, wrote),
         Remembers, UNCHANGED <<disk, head>>
  PROVE  IInv' /\ rows' = Fresh
<1> USE DEF IInv
<1>1. rows' = Fresh  BY IndexFresh DEF TypeInv
<1>2. TypeInv' /\ Exact(rows')
  BY <1>1, FreshExact DEF TypeInv, Exact, Indexed
<1>3. Remembered(rows)'
  <2>1. ASSUME NEW f \in Existing  PROVE Seen[disk[f]] \in past'[f]
    BY <2>1 DEF Remembers, ChangedIn, Existing, Remembered
  <2>2. \A f \in Files : rows'[f] # None => f \in Existing /\ rows'[f].text = disk[f]
    BY <1>1, RowTyped DEF Fresh
  <2>3. \A f \in Files : past[f] \subseteq past'[f]  BY PastGrows
  <2> QED  BY <2>1, <2>2, <2>3 DEF Remembered
<1>4. CacheHonest'
  <2> SUFFICES ASSUME NEW f \in Files, cache'[f] # None  PROVE Honest(cache'[f], past')
    BY DEF CacheHonest
  <2>1. cache'[f] = FoundIn(q, rows, f) \/ (cache'[f] = cache[f])
    BY DEF CacheAfter
  <2>2. Honest(cache'[f], past)  BY <2>1, FoundHonest DEF CacheHonest
  <2> QED  BY <2>2, PastGrows
<1> QED  BY <1>1, <1>2, <1>3, <1>4

(* Steps that leave the index and the history as they are. *)
LEMMA IndexStays ==
  ASSUME IInv, UNCHANGED <<rows, cache, past>>, TypeInv'
  PROVE  IInv'
BY DEF IInv, Exact, Indexed, Remembered, CacheHonest, Honest

LEMMA IInvStep ==
  ASSUME IInv, [Next]_vars
  PROVE  IInv'
<1>1. ASSUME NEW f \in Files, NEW t \in Texts \cup {Gone}, Write(f, t)  PROVE IInv'
  BY <1>1, IndexStays DEF Write, TypeInv, IInv
<1>2. CASE GitCommit
  BY <1>2, IndexStays DEF GitCommit, TypeInv, IInv
<1>3. ASSUME NEW q \in Requests, Run(q) \/ Cut(q)  PROVE IInv'
  BY <1>3, RunLeaves DEF Run, Cut
<1>4. CASE Unrecorded \/ Exit \/ UNCHANGED vars
  BY <1>4, IndexStays DEF Unrecorded, Exit, vars, TypeInv, IInv
<1> QED  BY <1>1, <1>2, <1>3, <1>4 DEF Next

(* A report is given by a run, recorded or not, and stays until the end.   *)
LEMMA ReportGiven ==
  ASSUME [Next]_vars, report' # None
  PROVE  \/ UNCHANGED vars
         \/ report = None /\ \E q \in Requests : Run(q)
         \/ report = None /\ Unrecorded
BY DEF Next, Write, GitCommit, Run, Cut, Unrecorded, Exit, vars

-----------------------------------------------------------------------------
(* The report of a run is honest: what it parsed is compared with versions *)
(* that were seen, what it was served was when it was written.             *)
LEMMA HonestStep ==
  ASSUME IInv, NewlyHonest, [Next]_vars
  PROVE  NewlyHonest'
<1> SUFFICES ASSUME report' # None  PROVE NewlyHonest'
  BY DEF NewlyHonest
<1>1. CASE UNCHANGED vars
  BY <1>1 DEF NewlyHonest, vars
<1>2. ASSUME NEW q \in Requests, Run(q)  PROVE NewlyHonest'
  <2>1. report'.found = Answer(q, rows, cache)  BY <1>2 DEF Run
  <2>2. Honest(report'.found, past)
    BY <2>1, AnswerHonest, ScopeTyped DEF IInv, CacheHonest
  <2>3. Honest(report'.found, past')  BY <1>2, <2>2, PastGrows DEF Run, IInv
  <2> QED  BY <2>3 DEF Honest, NewlyHonest
<1>3. CASE Unrecorded
  <2> DEFINE q == [mode |-> "repo", scope |-> None, raw |-> None]
  <2>1. report'.found = Answer(q, NoRows, NoRows) /\ past' = past
    BY <1>3 DEF Unrecorded
  <2>2. Honest(report'.found, past)
    BY <2>1, AnswerHonest, NoRowsExact DEF IInv, NoRows
  <2> QED  BY <2>1, <2>2 DEF Honest, NewlyHonest
<1> QED  BY <1>1, <1>2, <1>3, ReportGiven

(* Whoever this run's changes leave without an importer had one whose row  *)
(* the run replaces or deletes: the other rows keep what they name.        *)
LEMMA BereftBefore ==
  ASSUME IInv, NEW f \in Dead(Fresh) \ Dead(rows), rows[f] # None
  PROVE  f \in Before(rows, ChangedIn(rows), Existing)
<1> USE DEF IInv
<1>1. f \in Files \ Entries /\ f \in Existing
  BY DEF Dead, Fresh
<1>2. PICK g \in Files : rows[g] # None /\ f \in rows[g].to
  BY <1>1 DEF Dead
<1> SUFFICES ASSUME g \in Existing, g \notin ChangedIn(rows)  PROVE FALSE
  BY <1>1, <1>2 DEF Before
<1>3. rows[g].text = disk[g]  BY <1>2 DEF ChangedIn
<1>4. f \in Imports[disk[g]]  BY <1>2, <1>3 DEF Exact, Indexed
<1>5. Fresh[g] = Row(g, Existing) /\ Fresh[g] # None
  BY RowTyped DEF Fresh, Existing
<1>6. f \in Fresh[g].to  BY <1>1, <1>4, <1>5, RowTyped
<1> QED  BY <1>2, <1>5, <1>6 DEF Dead

LEMMA DeadStep ==
  ASSUME IInv, NewlyDeadTold, [Next]_vars
  PROVE  NewlyDeadTold'
<1> SUFFICES ASSUME report' # None  PROVE NewlyDeadTold'
  BY DEF NewlyDeadTold
<1>1. CASE UNCHANGED vars
  BY <1>1 DEF NewlyDeadTold, vars
<1>2. ASSUME NEW q \in Requests, Run(q)  PROVE NewlyDeadTold'
  <2>1. /\ report'.asked = q /\ report'.found = Answer(q, rows, cache)
        /\ report'.bereft = Dead(rows') \ Dead(rows)
        /\ report'.known = {f \in Files : rows[f] # None}
        /\ disk' = disk
    BY <1>2 DEF Run
  <2>2. rows' = Fresh /\ Fresh = IndexAfter(rows, ChangedIn(rows))
    BY <1>2, IndexFresh DEF Run, IInv, TypeInv
  <2> SUFFICES ASSUME ScopeIsWatermark(q), NEW f \in Dead(Fresh) \ Dead(rows),
                      rows[f] # None, disk[f] \notin Broken
               PROVE  Other("dead", f) \in Answer(q, rows, cache)
    BY <2>1, <2>2 DEF NewlyDeadTold
  <2>3. f \in Existing /\ Fresh[f].text = disk[f]
    BY RowTyped DEF Dead, Fresh, IInv
  <2>4. Other("dead", f) \in GraphFindings(q, Fresh)
    BY <2>3 DEF GraphFindings
  <2>5. f \in Wide(q, rows, Fresh)  BY BereftBefore DEF Wide
  <2>6. Scope(q, rows) # None
    BY NoneAssumption DEF Scope, ChangedIn, Existing
  <2>7. Other("dead", f).file = f  BY DEF Other
  <2> QED  BY <2>2, <2>4, <2>5, <2>6, <2>7, AnswerParts
<1>3. CASE Unrecorded
  BY <1>3 DEF Unrecorded, NewlyDeadTold, ScopeIsWatermark
<1> QED  BY <1>1, <1>2, <1>3, ReportGiven

-----------------------------------------------------------------------------
(* What a diff run says, from the tree and git alone. *)
DiffAnswer(q) ==
  {x \in UNION {FileFindings(f, disk[f], SkippedAt(f)) : f \in q.scope} : x.file \in q.scope}
    \cup {x \in GraphFindings(q, Fresh) :
            x.file \in q.scope \cup Neighbours(Fresh, q.scope) \/ (q.raw # None /\ x.file \in q.raw)}

LEMMA SkippedTyped ==
  ASSUME NEW f \in Files, f \in TestFiles => Base[f] \notin Broken
  PROVE  SkippedAt(f) # None
<1>1. CASE f \notin TestFiles \/ Base[f] = Gone
  <2>1. {} \in SUBSET Names  OBVIOUS
  <2> QED  BY <1>1, <2>1, NoneAssumption DEF SkippedAt
<1>2. CASE f \in TestFiles /\ Base[f] # Gone
  <2>1. Skipped[Base[f]] \in SUBSET Names  BY <1>2, ReportingAssumption
  <2> QED  BY <1>2, <2>1, NoneAssumption DEF SkippedAt
<1> QED  BY <1>1, <1>2

LEMMA FoundInFile ==
  ASSUME NEW f, NEW t, NEW was, NEW x \in FileFindings(f, t, was)
  PROVE  x.file = f
<1>1. CASE x \in NewlySkipped(f, t, was)
  BY <1>1 DEF NewlySkipped, Skip
<1>2. CASE x \in {Other("flag", g) : g \in {h \in {f} : t \in Flagged}}
  BY <1>2 DEF Other
<1> QED  BY <1>1, <1>2 DEF FileFindings

(* A diff run parses its scope, compares it with what git says, and its    *)
(* index is a fresh one: nothing of the table or the cache is left in it.  *)
LEMMA DiffTree ==
  ASSUME TypeInv, NEW table \in Tables, Exact(table), NEW served,
         NEW q, IsDiff(q), q.scope \in SUBSET Files,
         \A f \in q.scope \cap TestFiles : Base[f] \notin Broken
  PROVE  Answer(q, table, served) = DiffAnswer(q)
<1> DEFINE parsed == Parsed(q, table, served)
           kept == {x \in UNION {FoundIn(q, table, f) : f \in parsed} : x.file \in q.scope}
           said == {x \in UNION {FileFindings(f, disk[f], SkippedAt(f)) : f \in q.scope} :
                      x.file \in q.scope}
<1>1. q.scope \subseteq parsed  BY DEF Parsed, IsDiff
<1>2. \A f \in q.scope : FoundIn(q, table, f) = FileFindings(f, disk[f], SkippedAt(f))
  BY SkippedTyped DEF FoundIn, Previous, IsDiff
<1>3. \A f \in parsed : \A x \in FoundIn(q, table, f) : x.file = f
  BY FoundInFile DEF FoundIn
<1>4. kept \subseteq said
  <2> HIDE DEF parsed
  <2> QED  BY <1>2, <1>3
<1>5. said \subseteq kept
  <2> HIDE DEF parsed
  <2> QED  BY <1>1, <1>2
<1>6. q.scope # None /\ Scope(q, table) = q.scope
  BY NoneAssumption DEF Scope, ScopeIsWatermark, IsDiff
<1>7. Wide(q, table, Fresh) = q.scope \cup Neighbours(Fresh, q.scope)
  BY <1>6 DEF Wide, ScopeIsWatermark, IsDiff
<1>8. {x \in ByFile(q, table, served) : x.file \in q.scope} = kept
  BY DEF ByFile, IsDiff
<1>9. IndexAfter(table, ChangedIn(table)) = Fresh  BY IndexFresh
<1> HIDE DEF parsed, kept, said
<1>10. Answer(q, table, served) = kept \cup {x \in GraphFindings(q, Fresh) :
         x.file \in Wide(q, table, Fresh) \/ (q.raw # None /\ x.file \in q.raw)}
  BY <1>6, <1>8, <1>9, AnswerParts
<1> QED  BY <1>4, <1>5, <1>7, <1>10 DEF DiffAnswer, said

LEMMA SameTree ==
  ASSUME UNCHANGED disk, NEW q
  PROVE  Answer(q, NoRows, NoRows)' = Answer(q, NoRows, NoRows)
BY DEF Answer, ChangedIn, Parsed, Repaired, Unresolved, Recorded, Row, Existing, IndexAfter,
   FoundIn, FileFindings, Previous, Neighbours, Before, GraphFindings, Dead, NoRows

LEMMA TreeStep ==
  ASSUME IInv, DiffAnswersTree, [Next]_vars
  PROVE  DiffAnswersTree'
<1> SUFFICES ASSUME report' # None  PROVE DiffAnswersTree'
  BY DEF DiffAnswersTree
<1>1. CASE UNCHANGED vars
  BY <1>1, SameTree DEF DiffAnswersTree, vars
<1>2. ASSUME NEW q \in Requests, Run(q)  PROVE DiffAnswersTree'
  <2>1. report'.asked = q /\ report'.found = Answer(q, rows, cache) /\ disk' = disk
    BY <1>2 DEF Run
  <2> SUFFICES ASSUME IsDiff(q), \A f \in q.scope \cap TestFiles : Base[f] \notin Broken
               PROVE  Answer(q, rows, cache) = Answer(q, NoRows, NoRows)
    BY <2>1, SameTree DEF DiffAnswersTree
  <2>2. q.scope \in SUBSET Files  BY ScopeTyped DEF IsDiff
  <2>3. TypeInv /\ rows \in Tables /\ Exact(rows)  BY DEF IInv, TypeInv
  <2> QED  BY <2>2, <2>3, DiffTree, NoRowsExact
<1>3. CASE Unrecorded
  BY <1>3 DEF Unrecorded, DiffAnswersTree, IsDiff
<1> QED  BY <1>1, <1>2, <1>3, ReportGiven

-----------------------------------------------------------------------------
(* The verdict's order.  SetToSeq lists a finite set. *)
LEMMA Listing ==
  ASSUME NEW S, IsFiniteSet(S)
  PROVE  SetToSeq(S) \in Seq(S) /\ ToSet(SetToSeq(S)) = S
<1>1. PICK n \in Nat : n = Cardinality(S) /\ ExistsBijection(1..n, S)
  BY FS_CardinalityType
<1>2. PICK f \in [1..n -> S] : IsInjective(f)
  BY <1>1 DEF ExistsBijection, Bijection, Injection
<1>3. SetToSeq(S) \in [1..n -> S] /\ IsInjective(SetToSeq(S))
  BY <1>1, <1>2 DEF SetToSeq
<1>4. SetToSeq(S) \in Injection(1..n, S)
  BY <1>3 DEF Injection
<1>5. IsFiniteSet(1..n) /\ Cardinality(1..n) = Cardinality(S)  BY <1>1, FS_Interval
<1>6. SetToSeq(S) \in Surjection(1..n, S)  BY <1>4, <1>5, FS_Injection
<1>7. \A x \in S : \E i \in 1..n : SetToSeq(S)[i] = x  BY <1>6 DEF Surjection
<1> QED  BY <1>1, <1>3, <1>7 DEF ToSet

(* What is in two sequences one after the other. *)
LEMMA Joining ==
  ASSUME NEW S, NEW s \in Seq(S), NEW t \in Seq(S)
  PROVE  s \o t \in Seq(S) /\ ToSet(s \o t) = ToSet(s) \cup ToSet(t)
<1>1. /\ s \o t \in Seq(S) /\ Len(s \o t) = Len(s) + Len(t)
      /\ \A i \in 1 .. Len(s) + Len(t) :
           (s \o t)[i] = IF i <= Len(s) THEN s[i] ELSE t[i - Len(s)]
  BY ConcatProperties
<1>2. /\ Len(s) \in Nat /\ DOMAIN s = 1..Len(s) /\ Len(t) \in Nat /\ DOMAIN t = 1..Len(t)
      /\ DOMAIN (s \o t) = 1..(Len(s) + Len(t))
  BY <1>1, LenProperties
<1>3. ToSet(s \o t) \subseteq ToSet(s) \cup ToSet(t)
  BY <1>1, <1>2 DEF ToSet
<1>4. ASSUME NEW i \in 1..Len(s)  PROVE s[i] \in ToSet(s \o t)
  BY <1>1, <1>2 DEF ToSet
<1>5. ASSUME NEW i \in 1..Len(t)  PROVE t[i] \in ToSet(s \o t)
  <2>1. i + Len(s) \in 1..(Len(s) + Len(t)) /\ (s \o t)[i + Len(s)] = t[i]
    BY <1>1, <1>2
  <2> QED  BY <1>2, <2>1 DEF ToSet
<1> QED  BY <1>1, <1>2, <1>3, <1>4, <1>5 DEF ToSet

LEMMA JoiningThree ==
  ASSUME NEW S, NEW s \in Seq(S), NEW t \in Seq(S), NEW u \in Seq(S)
  PROVE  /\ (s \o t) \o u \in Seq(S)
         /\ ToSet((s \o t) \o u) = (ToSet(s) \cup ToSet(t)) \cup ToSet(u)
<1> DEFINE st == s \o t
<1>1. st \in Seq(S) /\ ToSet(st) = ToSet(s) \cup ToSet(t)  BY Joining
<1> HIDE DEF st
<1>2. st \o u \in Seq(S) /\ ToSet(st \o u) = ToSet(st) \cup ToSet(u)
  BY <1>1, Joining
<1> QED  BY <1>1, <1>2 DEF st

Ranked(found, i) == {x \in found : SortKey(x)[1] = i}

(* Findings that block come first, and none is lost. *)
LEMMA SortedSplits ==
  ASSUME NEW found, IsFiniteSet(found),
         \A x \in found : SortKey(x)[1] \in 1..3 /\ SortKey(x)[2] \in 1..3
  PROVE  \E s \in Seq(found), t \in Seq(found) :
           /\ Sorted(found) = s \o t
           /\ ToSet(s) = Ranked(found, 1) /\ ToSet(t) = found \ Ranked(found, 1)
<1> DEFINE Those(i, j) == SetToSeq({x \in found : SortKey(x) = <<i, j>>})
           Group(i) == Those(i, 1) \o Those(i, 2) \o Those(i, 3)
<1>1. ASSUME NEW i \in 1..3
      PROVE  Group(i) \in Seq(found) /\ ToSet(Group(i)) = Ranked(found, i)
  <2> DEFINE S(j) == {x \in found : SortKey(x) = <<i, j>>}
  <2>1. ASSUME NEW j \in 1..3
        PROVE  Those(i, j) \in Seq(found) /\ ToSet(Those(i, j)) = S(j)
    <3>1. IsFiniteSet(S(j))  BY FS_Subset
    <3>2. Those(i, j) \in Seq(S(j)) /\ ToSet(Those(i, j)) = S(j)  BY <3>1, Listing
    <3> QED  BY <3>2
  <2>2. Ranked(found, i) = (S(1) \cup S(2)) \cup S(3)
    BY DEF Ranked, SortKey
  <2>3. /\ Those(i, 1) \in Seq(found) /\ ToSet(Those(i, 1)) = S(1)
        /\ Those(i, 2) \in Seq(found) /\ ToSet(Those(i, 2)) = S(2)
        /\ Those(i, 3) \in Seq(found) /\ ToSet(Those(i, 3)) = S(3)
    BY <2>1
  <2> HIDE DEF S, Those
  <2>4. /\ Group(i) \in Seq(found)
        /\ ToSet(Group(i)) = (S(1) \cup S(2)) \cup S(3)
    BY <2>3, JoiningThree
  <2> QED  BY <2>2, <2>4
<1>2. Sorted(found) = (Group(1) \o Group(2)) \o Group(3)  BY DEF Sorted
<1>3. /\ Group(1) \in Seq(found) /\ ToSet(Group(1)) = Ranked(found, 1)
      /\ Group(2) \in Seq(found) /\ ToSet(Group(2)) = Ranked(found, 2)
      /\ Group(3) \in Seq(found) /\ ToSet(Group(3)) = Ranked(found, 3)
  BY <1>1
<1> HIDE DEF Group
<1>4. /\ Group(2) \o Group(3) \in Seq(found)
      /\ ToSet(Group(2) \o Group(3)) = Ranked(found, 2) \cup Ranked(found, 3)
  BY <1>3, Joining
<1>5. found \ Ranked(found, 1) = Ranked(found, 2) \cup Ranked(found, 3)
  BY DEF Ranked
<1>6. (Group(1) \o Group(2)) \o Group(3) = Group(1) \o (Group(2) \o Group(3))
  BY <1>3, ConcatAssociative
<1> QED  BY <1>2, <1>3, <1>4, <1>5, <1>6

(* A cap shows blocking findings only, or all of them. *)
LEMMA CapShows ==
  ASSUME NEW found, IsFiniteSet(found), NEW n \in Nat \ {0},
         \A x \in found : SortKey(x)[1] \in 1..3 /\ SortKey(x)[2] \in 1..3
  PROVE  \/ ToSet(Capped(found, n)) \subseteq Ranked(found, 1)
         \/ /\ Ranked(found, 1) \subseteq ToSet(Capped(found, n))
            /\ ToSet(Capped(found, n)) \subseteq found
<1>1. PICK s \in Seq(found), t \in Seq(found) :
        /\ Sorted(found) = s \o t
        /\ ToSet(s) = Ranked(found, 1) /\ ToSet(t) = found \ Ranked(found, 1)
  BY SortedSplits
<1> DEFINE all == Sorted(found)
<1>2. /\ all \in Seq(found) /\ Len(all) = Len(s) + Len(t)
      /\ \A i \in 1 .. Len(s) + Len(t) :
           all[i] = IF i <= Len(s) THEN s[i] ELSE t[i - Len(s)]
  BY <1>1, ConcatProperties
<1>3. /\ Len(s) \in Nat /\ DOMAIN s = 1..Len(s) /\ Len(t) \in Nat /\ DOMAIN t = 1..Len(t)
      /\ DOMAIN all = 1..(Len(s) + Len(t))
  BY <1>2, LenProperties
<1>4. ToSet(all) = found
  <2>1. ToSet(s \o t) = ToSet(s) \cup ToSet(t)  BY Joining
  <2> QED  BY <1>1, <2>1 DEF Ranked
<1> HIDE DEF all
<1>5. CASE Len(all) > n
  <2> DEFINE shown == SubSeq(all, 1, n)
  <2>1. /\ Len(shown) = n /\ \A i \in 1..n : shown[i] = all[i]
        /\ shown \in Seq(found)
    BY <1>2, <1>3, <1>5, SubSeqProperties
  <2>2. DOMAIN shown = 1..n  BY <2>1, LenProperties
  <2> HIDE DEF shown
  <2>3. CASE n <= Len(s)
    <3>1. ToSet(shown) \subseteq ToSet(s)
      BY <1>2, <1>3, <2>1, <2>2, <2>3 DEF ToSet
    <3> QED  BY <1>1, <1>5, <3>1 DEF Capped, shown, all
  <2>4. CASE n > Len(s)
    <3>1. ToSet(s) \subseteq ToSet(shown)
      <4> SUFFICES ASSUME NEW i \in 1..Len(s)  PROVE s[i] \in ToSet(shown)
        BY <1>3 DEF ToSet
      <4>1. i \in 1..n /\ shown[i] = s[i]
        BY <1>2, <1>3, <2>1, <2>4
      <4> QED  BY <2>2, <4>1 DEF ToSet
    <3>2. ToSet(shown) \subseteq found
      BY <2>1, <2>2, LenProperties DEF ToSet
    <3> QED  BY <1>1, <1>5, <3>1, <3>2 DEF Capped, shown, all
  <2> QED  BY <1>3, <2>3, <2>4
<1>6. CASE ~(Len(all) > n)
  BY <1>4, <1>6 DEF Capped, all, Ranked
<1> QED  BY <1>5, <1>6

(* The findings there are, a finite set. *)
Kinds == {"skip", "flag", "dead", "advisory", "rls"}

AllFindings ==
  [kind : Kinds, file : Files \cup Unread, name : Names \cup {None}, newly : BOOLEAN]

FoundInv ==
  /\ \A f \in Files : cache[f] # None => cache[f] \subseteq AllFindings
  /\ report # None => report.found \subseteq AllFindings

LEMMA FindingsFinite == IsFiniteSet(AllFindings)
<1> DEFINE source == ((Kinds \X (Files \cup Unread)) \X (Names \cup {None})) \X BOOLEAN
           finding == [p \in source |-> [kind |-> p[1][1][1], file |-> p[1][1][2],
                                         name |-> p[1][2], newly |-> p[2]]]
<1>1. IsFiniteSet(Kinds) /\ IsFiniteSet(BOOLEAN)
  <2>1. IsFiniteSet({"skip"} \cup {"flag"}) /\ IsFiniteSet({"dead"} \cup {"advisory"})
    BY FS_Singleton, FS_Union
  <2>2. IsFiniteSet(({"skip"} \cup {"flag"}) \cup ({"dead"} \cup {"advisory"}))
    BY <2>1, FS_Union
  <2>3. IsFiniteSet((({"skip"} \cup {"flag"}) \cup ({"dead"} \cup {"advisory"})) \cup {"rls"})
    BY <2>2, FS_Singleton, FS_Union
  <2>4. Kinds = (({"skip"} \cup {"flag"}) \cup ({"dead"} \cup {"advisory"})) \cup {"rls"}
    BY DEF Kinds
  <2>5. IsFiniteSet({TRUE} \cup {FALSE})  BY FS_Singleton, FS_Union
  <2>6. BOOLEAN = {TRUE} \cup {FALSE}  OBVIOUS
  <2> QED  BY <2>3, <2>4, <2>5, <2>6
<1>2. IsFiniteSet(Files \cup Unread) /\ IsFiniteSet(Names \cup {None})
  BY ReportingAssumption, FS_Singleton, FS_Union
<1>3. IsFiniteSet(source)
  <2>1. IsFiniteSet(Kinds \X (Files \cup Unread))  BY <1>1, <1>2, FS_Product
  <2>2. IsFiniteSet((Kinds \X (Files \cup Unread)) \X (Names \cup {None}))
    BY <1>2, <2>1, FS_Product
  <2> QED  BY <1>1, <2>2, FS_Product
<1>4. finding \in [source -> AllFindings]
  BY DEF AllFindings
<1>5. ASSUME NEW x \in AllFindings  PROVE \E p \in source : finding[p] = x
  <2>1. <<<<<<x.kind, x.file>>, x.name>>, x.newly>> \in source
    BY DEF AllFindings
  <2>2. finding[<<<<<<x.kind, x.file>>, x.name>>, x.newly>>] = x
    BY <2>1 DEF AllFindings
  <2> QED  BY <2>1, <2>2
<1>6. finding \in Surjection(source, AllFindings)
  BY <1>4, <1>5 DEF Surjection
<1> HIDE DEF finding, source
<1> QED  BY <1>3, <1>6, FS_Surjection

LEMMA KeysRanked ==
  ASSUME NEW x \in AllFindings
  PROVE  /\ SortKey(x)[1] \in 1..3 /\ SortKey(x)[2] \in 1..3
         /\ SortKey(x)[1] = 1 <=> Blocks(x)
BY DEF AllFindings, Kinds, SortKey, Confidence, Severity, Blocks

LEMMA FileFindingsTyped ==
  ASSUME NEW f \in Files, NEW t \in Texts, NEW was
  PROVE  FileFindings(f, t, was) \subseteq AllFindings
<1>1. ASSUME NEW n \in Names, NEW b \in BOOLEAN  PROVE Skip(f, n, b) \in AllFindings
  BY DEF Skip, AllFindings, Kinds
<1>2. Other("flag", f) \in AllFindings
  BY DEF Other, AllFindings, Kinds
<1>3. Skipped[t] \subseteq Names  BY ReportingAssumption
<1>4. NewlySkipped(f, t, was) \subseteq AllFindings
  BY <1>1, <1>3 DEF NewlySkipped
<1> QED  BY <1>2, <1>4 DEF FileFindings

(* What a run parses is there. *)
LEMMA ParsedExists ==
  ASSUME NEW q, q.mode \notin {"repo", "changed"} => q.scope \subseteq Existing,
         NEW table, NEW served
  PROVE  Parsed(q, table, served) \subseteq Existing
BY DEF Parsed, ChangedIn, Repaired

LEMMA AnswerTyped ==
  ASSUME TypeInv, NEW q, q.mode \notin {"repo", "changed"} => q.scope \subseteq Existing,
         NEW table, NEW served,
         \A f \in Files : served[f] # None => served[f] \subseteq AllFindings
  PROVE  Answer(q, table, served) \subseteq AllFindings
<1> DEFINE parsed == Parsed(q, table, served)
           after == IndexAfter(table, ChangedIn(table))
<1>1. ASSUME NEW f \in parsed  PROVE FoundIn(q, table, f) \subseteq AllFindings
  <2>1. f \in Files /\ disk[f] \in Texts
    BY ParsedExists DEF Existing, TypeInv
  <2> QED  BY <2>1, FileFindingsTyped DEF FoundIn
<1>2. ASSUME NEW f \in Existing \ parsed, q.mode = "repo"
      PROVE  served[f] \subseteq AllFindings
  BY <1>2 DEF Parsed, Existing
<1>3. ByFile(q, table, served) \subseteq AllFindings
  BY <1>1, <1>2 DEF ByFile
<1> HIDE DEF after
<1>4. GraphFindings(q, after) \subseteq AllFindings
  <2>1. ASSUME NEW k \in {"dead", "advisory", "rls"}, NEW f \in Files \cup Unread
        PROVE  Other(k, f) \in AllFindings
    BY DEF Other, AllFindings, Kinds
  <2>2. Dead(after) \subseteq Files /\ Flawed \subseteq Unread
    BY ReportingAssumption DEF Dead
  <2> QED  BY <2>1, <2>2 DEF GraphFindings
<1> QED  BY <1>3, <1>4, AnswerParts DEF after

LEMMA ScopeExists ==
  ASSUME NEW q \in Requests
  PROVE  q.mode \notin {"repo", "changed"} => q.scope \subseteq Existing
BY ReportingAssumption DEF Requests, Existing, Diff

LEMMA FoundStep ==
  ASSUME TypeInv, FoundInv, [Next]_vars
  PROVE  FoundInv'
<1>0. AllFindings' = AllFindings  BY DEF AllFindings
<1>1. ASSUME NEW q \in Requests, NEW wrote \in BOOLEAN, cache' = CacheAfter(q, wrote)
      PROVE  \A f \in Files : cache'[f] # None => cache'[f] \subseteq AllFindings
  <2> SUFFICES ASSUME NEW f \in Files, cache'[f] # None
               PROVE  cache'[f] \subseteq AllFindings
    OBVIOUS
  <2>1. CASE f \in Parsed(q, rows, cache) /\ wrote
    <3>1. disk[f] \in Texts
      BY <2>1, ParsedExists, ScopeExists DEF Existing, TypeInv
    <3> QED  BY <1>1, <2>1, <3>1, FileFindingsTyped DEF CacheAfter, FoundIn
  <2>2. CASE ~(f \in Parsed(q, rows, cache) /\ wrote)
    BY <1>1, <2>2 DEF CacheAfter, FoundInv
  <2> QED  BY <2>1, <2>2
<1>2. ASSUME NEW q \in Requests, Run(q)  PROVE FoundInv'
  <2>1. report'.found = Answer(q, rows, cache)  BY <1>2 DEF Run
  <2>2. report'.found \subseteq AllFindings
    BY <2>1, AnswerTyped, ScopeExists DEF FoundInv
  <2>3. cache' = CacheAfter(q, TRUE)  BY <1>2 DEF Run
  <2> QED  BY <1>1, <2>2, <2>3 DEF FoundInv
<1>3. ASSUME NEW q \in Requests, Cut(q)  PROVE FoundInv'
  BY <1>1, <1>3 DEF Cut, FoundInv
<1>4. CASE Unrecorded
  <2> DEFINE q == [mode |-> "repo", scope |-> None, raw |-> None]
  <2>1. report'.found = Answer(q, NoRows, NoRows) /\ cache' = cache
    BY <1>4 DEF Unrecorded
  <2>2. report'.found \subseteq AllFindings
    BY <2>1, AnswerTyped DEF NoRows
  <2> QED  BY <2>1, <2>2 DEF FoundInv
<1>5. ASSUME UNCHANGED cache, report' = report \/ report' = None  PROVE FoundInv'
  BY <1>5 DEF FoundInv
<1> QED
  BY <1>2, <1>3, <1>4, <1>5 DEF Next, Write, GitCommit, Exit, vars

-----------------------------------------------------------------------------
(* The inductive invariant: what the index holds is exact, the history has *)
(* the versions it was taken from, and the cache says nothing newly that   *)
(* none of them lacked.                                                    *)
THEOREM Invariance == Spec => []IInv
<1>1. Init => IInv  BY InitIInv
<1>2. IInv /\ [Next]_vars => IInv'  BY IInvStep
<1> QED  BY <1>1, <1>2, PTL DEF Spec

(* "(newly)" is said only where a version of the file that lacked the skip *)
(* was seen, by the index or by git, also of a finding served from the     *)
(* cache many runs later (test_newly_skipped.rs).                          *)
THEOREM NewlyIsHonest == Spec => []NewlyHonest
<1>1. Init => NewlyHonest  BY DEF Init, NewlyHonest
<1>2. IInv /\ NewlyHonest /\ [Next]_vars => NewlyHonest'  BY HonestStep
<1> QED  BY <1>1, <1>2, Invariance, PTL DEF Spec

(* A --changed run names every file that its changes and deletions left    *)
(* without an importer (Indexed::before).                                  *)
THEOREM DeadIsTold == Spec => []NewlyDeadTold
<1>1. Init => NewlyDeadTold  BY DEF Init, NewlyDeadTold
<1>2. IInv /\ NewlyDeadTold /\ [Next]_vars => NewlyDeadTold'  BY DeadStep
<1> QED  BY <1>1, <1>2, Invariance, PTL DEF Spec

(* A diff run answers what the same run on a fresh checkout would: its     *)
(* answer depends only on the tree and the ref (run.rs pass).              *)
THEOREM DiffIsTree == Spec => []DiffAnswersTree
<1>1. Init => DiffAnswersTree  BY DEF Init, DiffAnswersTree
<1>2. IInv /\ DiffAnswersTree /\ [Next]_vars => DiffAnswersTree'  BY TreeStep
<1> QED  BY <1>1, <1>2, Invariance, PTL DEF Spec

(* What a capped verdict shows explains its status: no finding that blocks *)
(* is hidden behind one that does not, whatever a run found and however    *)
(* small the cap (Verdict::capped, on the order from_findings leaves).     *)
THEOREM CapIsHonest == Spec => []CapKeepsBlockers
<1>1. Init => FoundInv  BY DEF Init, FoundInv, NoRows
<1>2. IInv /\ FoundInv /\ [Next]_vars => FoundInv'  BY FoundStep DEF IInv
<1>3. FoundInv => CapKeepsBlockers
  <2> SUFFICES ASSUME FoundInv, report # None, NEW n \in 1..Cardinality(report.found)
               PROVE  LET shown == ToSet(Capped(report.found, n))
                      IN (\E x \in report.found \ shown : Blocks(x)) =>
                           \A y \in shown : Blocks(y)
    BY DEF CapKeepsBlockers
  <2> DEFINE found == report.found
  <2>1. found \subseteq AllFindings /\ IsFiniteSet(found)
    BY FindingsFinite, FS_Subset DEF FoundInv
  <2>2. n \in Nat \ {0}  BY <2>1, FS_CardinalityType
  <2>3. \A x \in found : /\ SortKey(x)[1] \in 1..3 /\ SortKey(x)[2] \in 1..3
                         /\ SortKey(x)[1] = 1 <=> Blocks(x)
    BY <2>1, KeysRanked
  <2> HIDE DEF found
  <2> SUFFICES LET shown == ToSet(Capped(found, n))
               IN (\E x \in found \ shown : Blocks(x)) => \A y \in shown : Blocks(y)
    BY DEF found
  <2> QED  BY <2>1, <2>2, <2>3, CapShows DEF Ranked
<1> QED  BY <1>1, <1>2, <1>3, Invariance, PTL DEF Spec
=============================================================================
