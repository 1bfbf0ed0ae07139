--------------------------- MODULE IndexingProofs ---------------------------
(***************************************************************************)
(* Theorems of Indexing, for every set of files, texts, rules, configs and *)
(* processes.                                                              *)
(***************************************************************************)
EXTENDS Indexing, WellFoundedInduction, TLAPS

(* Every non-empty set of numbers has a least element. *)
LEMMA LeastElement ==
  ASSUME NEW S \in SUBSET Nat, S # {}
  PROVE  \E i \in S : \A j \in S : i <= j
<1>1. \E i \in S : \A j \in S : ~ (<<j, i>> \in OpToRel(<, Nat))
  BY NatLessThanWellFounded, WFMin
<1>2. PICK i \in S : \A j \in S : ~ (<<j, i>> \in OpToRel(<, Nat))
  BY <1>1
<1>3. ASSUME NEW j \in S
      PROVE  i <= j
  <2>1. ~ (<<j, i>> \in {ss \in Nat \X Nat : ss[1] < ss[2]})
    BY <1>2 DEF OpToRel
  <2>2. i \in Nat /\ j \in Nat
    OBVIOUS
  <2>3. ~ (j < i)
    BY <2>1, <2>2
  <2>4. QED
    BY <2>2, <2>3
<1>4. QED
  BY <1>3

(* Probing a specifier yields a well-formed edge. *)
LEMMA ResolveType ==
  ASSUME NEW s \in Specs, NEW indexed \in SUBSET Files
  PROVE  Resolve(s, indexed) \in Edge
<1> DEFINE hits == {i \in DOMAIN Candidates[s] : Candidates[s][i] \in indexed}
           first == CHOOSE i \in hits : \A j \in hits : i <= j
<1>1. Candidates[s] \in Seq(Files)
  BY DataAssumption DEF DataAssumption
<1>2. ASSUME hits # {}
      PROVE  Candidates[s][first] \in Files
  <2>1. hits \in SUBSET Nat
    BY <1>1
  <2>2. \E i \in hits : \A j \in hits : i <= j
    BY <1>2, <2>1, LeastElement
  <2>3. first \in hits
    BY <2>2
  <2>4. QED
    BY <2>3, <1>1
<1>3. CASE hits # {}
  <2>1. Resolve(s, indexed) = [spec |-> s, res |-> "resolved", to |-> Candidates[s][first]]
    BY <1>3 DEF Resolve
  <2>2. QED
    BY <2>1, <1>2, <1>3 DEF Edge
<1>4. CASE hits = {}
  BY <1>4 DEF Resolve, Edge
<1>5. QED
  BY <1>3, <1>4

(* What a run records is a well-formed row. *)
LEMMA RecordedType ==
  ASSUME TypeOK, NEW r \in Runs, NEW f \in Files, NEW t \in Texts, NEW s \in Nat
  PROVE  Recorded(r, f, t, s) \in Row
<1>1. cand[r] \in SUBSET Files /\ SpecsOf[t] \in SUBSET Specs
  BY DataAssumption DEF TypeOK, RunType, DataAssumption
<1>2. EdgesOf(t, cand[r]) \in SUBSET Edge
  BY <1>1, ResolveType DEF EdgesOf
<1>3. QED
  BY <1>2 DEF Recorded, Row

(* The targets of a file's edges are files. *)
LEMMA TargetsType ==
  ASSUME TypeOK, NEW f \in Files
  PROVE  Targets(f) \in SUBSET Files
<1>1. CASE work[f] = None
  BY <1>1 DEF Targets
<1>2. CASE work[f] # None
  <2>1. work[f].edges \in SUBSET Edge
    BY <1>2 DEF TypeOK, TablesType, Row
  <2>2. \A e \in Edge : e.to \in Files \cup {None}
    BY DEF Edge
  <2>3. QED
    BY <1>2, <2>1, <2>2 DEF Targets
<1>3. QED
  BY <1>1, <1>2

(* Refreshing a stat keeps the table well formed. *)
LEMMA RefreshedType ==
  ASSUME TypeOK, NEW f \in Files, NEW s \in Nat
  PROVE  Refreshed(f, s) \in [Files -> Row \cup {None}]
<1>1. CASE work[f] # None /\ s # 0
  <2>1. work[f] \in Row
    BY <1>1 DEF TypeOK, TablesType
  <2>2. [work[f] EXCEPT !.stat = s] \in Row
    BY <2>1 DEF Row
  <2>3. Refreshed(f, s) = [work EXCEPT ![f] = [work[f] EXCEPT !.stat = s]]
    BY <1>1 DEF Refreshed
  <2>4. QED
    BY <2>2, <2>3 DEF TypeOK, TablesType
<1>2. CASE ~ (work[f] # None /\ s # 0)
  BY <1>2 DEF Refreshed, TypeOK, TablesType
<1>3. QED
  BY <1>1, <1>2

(* A grouped cache entry is well formed. *)
LEMMA GroupedType ==
  ASSUME TypeOK, NEW f \in Files, NEW x \in Rules
  PROVE  Grouped(f, x) \in [key : Found \cup {None}, byRule : [Rules -> Found \cup {None}]]
BY DEF Grouped, TypeOK, TablesType

(* What the cache serves is well formed. *)
LEMMA ServedType ==
  ASSUME TypeOK, NEW r \in Runs, NEW f \in Files
  PROVE  Served(r, f) \in [Rules -> Found \cup {None}]
<1>1. cached[r][f].byRule \in [Rules -> Found \cup {None}]
  BY DEF TypeOK, HandType
<1>2. QED
  BY <1>1 DEF Served

(* Pruning keeps the table well formed. *)
LEMMA PrunedType ==
  ASSUME TypeOK, NEW r \in Runs
  PROVE  Pruned(r) \in [Files -> Row \cup {None}]
<1> SUFFICES ASSUME NEW f \in Files, f \notin Departed(r), work[f] # None
             PROVE  [work[f] EXCEPT !.edges = {Unlink(e, Departed(r)) : e \in work[f].edges}] \in Row
  BY DEF Pruned
<1>1. work[f] \in Row
  BY DEF TypeOK, TablesType
<1>2. \A e \in Edge : Unlink(e, Departed(r)) \in Edge
  BY DEF Edge, Unlink
<1>3. {Unlink(e, Departed(r)) : e \in work[f].edges} \in SUBSET Edge
  BY <1>1, <1>2 DEF Row
<1>4. QED
  BY <1>1, <1>3 DEF Row

(* Nothing is in hand but text. *)
LEMMA InHandText ==
  ASSUME TypeOK, InHand, NEW r \in Runs, NEW f \in pending[r] \cup parsed[r]
  PROVE  f \in Files /\ got[r][f] \in Texts
BY DEF TypeOK, HandType, InHand

(* Every step keeps every variable in its type. *)
LEMMA TypeStep ==
  ASSUME TypeOK, InHand, [Next]_vars
  PROVE  TypeOK'
<1> USE DataAssumption DEF DataAssumption, TypeOK
<1>1. ASSUME NEW f \in Files, NEW c \in Texts \cup {Binary}, Write(f, c)
      PROVE  TypeOK'
  <2>1. TreeType'
    BY <1>1 DEF Write, TreeType, tree
  <2>2. ReportType'
    BY <1>1 DEF Write, ReportType, hist, Seen
  <2>3. QED
    BY <1>1, <2>1, <2>2 DEF Write, TablesType, RunType, HandType, SetsType, db, opts, reads
<1>2. ASSUME NEW f \in Files, Delete(f)
      PROVE  TypeOK'
  <2>1. TreeType'
    BY <1>2 DEF Delete, TreeType, tree
  <2>2. ReportType'
    BY <1>2 DEF Delete, ReportType, hist, Seen
  <2>3. QED
    BY <1>2, <2>1, <2>2 DEF Delete, TablesType, RunType, HandType, SetsType, db, opts, reads
<1>3. ASSUME NEW r \in Runs, NEW m \in Modes, NEW k \in Configs,
             NEW named \in SUBSET Files, Start(r, m, k, named)
      PROVE  TypeOK'
  <2>1. m \in {"repo", "changed", "paths"} /\ Walk(k) \cup named \in SUBSET Files
    BY DEF Walk
  <2>2. RunType'
    BY <1>3, <2>1 DEF Start, RunType, opts
  <2>3. HandType'
    BY <1>3 DEF Start, HandType, reads, Scratch, NoCached, NoFindings
  <2>4. SetsType'
    BY <1>3 DEF Start, SetsType, Scratch
  <2>5. ReportType'
    BY <1>3 DEF Start, ReportType, hist, NoFindings, TreeType
  <2>6. QED
    BY <1>3, <2>2, <2>3, <2>4, <2>5 DEF Start, TreeType, TablesType, tree, db
<1>4. ASSUME NEW r \in Runs, LoadCache(r)
      PROVE  TypeOK'
  <2>1. RunType'
    BY <1>4 DEF LoadCache, RunType, opts
  <2>2. HandType'
    <3>1. PICK first \in [Files -> Rules] :
            cached' = [cached EXCEPT ![r] =
              [f \in Files |-> IF ReportAll(r) THEN Grouped(f, first[f]) ELSE NoCached]]
      BY <1>4 DEF LoadCache
    <3>2. NoCached \in [key : Found \cup {None}, byRule : [Rules -> Found \cup {None}]]
      BY DEF NoCached, NoFindings
    <3>3. \A f \in Files : Grouped(f, first[f]) \in
            [key : Found \cup {None}, byRule : [Rules -> Found \cup {None}]]
      BY GroupedType
    <3>4. QED
      BY <1>4, <3>1, <3>2, <3>3 DEF LoadCache, HandType, reads
  <2>3. QED
    BY <1>4, <2>1, <2>2 DEF LoadCache, TreeType, TablesType, SetsType, ReportType, tree, db, hist
<1>5. ASSUME NEW r \in Runs, Begin(r)
      PROVE  TypeOK'
  <2>1. TablesType'
    BY <1>5 DEF Begin, TablesType, db
  <2>2. RunType'
    BY <1>5 DEF Begin, RunType, opts
  <2>3. HandType'
    BY <1>5 DEF Begin, HandType, reads, RunType
  <2>4. QED
    BY <1>5, <2>1, <2>2, <2>3 DEF Begin, TreeType, SetsType, ReportType, tree, hist
<1>6. ASSUME NEW r \in Runs, NEW f \in Files, SkipByStat(r, f)
      PROVE  TypeOK'
  <2>1. HandType'
    BY <1>6 DEF SkipByStat, HandType, reads, Leave
  <2>2. QED
    BY <1>6, <2>1 DEF SkipByStat, TreeType, TablesType, RunType, SetsType, ReportType, tree, db, opts, hist
<1>7. ASSUME NEW r \in Runs, NEW f \in Files, ServeByStat(r, f)
      PROVE  TypeOK'
  <2>1. HandType'
    BY <1>7 DEF ServeByStat, HandType, reads, Leave
  <2>2. Served(r, f) \in [Rules -> Found \cup {None}]
    BY ServedType
  <2>3. ReportType'
    BY <1>7, <2>2 DEF ServeByStat, ReportType, hist
  <2>4. QED
    BY <1>7, <2>1, <2>3 DEF ServeByStat, TreeType, TablesType, RunType, SetsType, tree, db, opts
<1>8. ASSUME NEW r \in Runs, NEW f \in Files, TakeStat(r, f)
      PROVE  TypeOK'
  <2>1. HandType'
    BY <1>8 DEF TakeStat, HandType, reads, StatAnswers, TreeType
  <2>2. QED
    BY <1>8, <2>1 DEF TakeStat, TreeType, TablesType, RunType, SetsType, ReportType, tree, db, opts, hist
<1>9. ASSUME NEW r \in Runs, NEW f \in Files, ReadBinary(r, f)
      PROVE  TypeOK'
  <2>1. HandType'
    BY <1>9 DEF ReadBinary, HandType, reads, Close, Leave
  <2>2. QED
    BY <1>9, <2>1 DEF ReadBinary, TreeType, TablesType, RunType, SetsType, ReportType, tree, db, opts, hist
<1>10. ASSUME NEW r \in Runs, NEW f \in Files, ReadChanged(r, f)
      PROVE  TypeOK'
  <2>1. HandType'
    BY <1>10 DEF ReadChanged, HandType, reads, Close, Leave
  <2>2. Targets(f) \in SUBSET Files
    BY TargetsType
  <2>3. SetsType'
    BY <1>10, <2>2 DEF ReadChanged, SetsType
  <2>4. QED
    BY <1>10, <2>1, <2>3 DEF ReadChanged, TreeType, TablesType, RunType, ReportType, tree, db, opts, hist
<1>11. ASSUME NEW r \in Runs, NEW f \in Files, ReadUnchanged(r, f)
      PROVE  TypeOK'
  <2>1. Refreshed(f, StatToStore(r, f)) \in [Files -> Row \cup {None}]
    BY RefreshedType DEF StatToStore, HandType
  <2>2. TablesType'
    BY <1>11, <2>1 DEF ReadUnchanged, TablesType, db
  <2>3. got' \in [Runs -> [Files -> Texts \cup {None}]]
    <3>1. \/ got' = got
          \/ got' = [got EXCEPT ![r][f] = disk[f].content] /\ disk[f].content \in Texts
      BY <1>11 DEF ReadUnchanged
    <3>2. CASE got' = got
      BY <3>2 DEF HandType
    <3>3. CASE got' = [got EXCEPT ![r][f] = disk[f].content] /\ disk[f].content \in Texts
      BY <3>3 DEF HandType
    <3>4. QED
      BY <3>1, <3>2, <3>3
  <2>4. HandType'
    BY <1>11, <2>3 DEF ReadUnchanged, HandType, Close, Leave
  <2>5. SetsType'
    <3>1. CASE pending' = pending
      BY <1>11, <3>1 DEF ReadUnchanged, SetsType
    <3>2. CASE pending' = [pending EXCEPT ![r] = @ \cup {f}]
      BY <1>11, <3>2 DEF ReadUnchanged, SetsType
    <3>3. QED
      BY <1>11, <3>1, <3>2 DEF ReadUnchanged
  <2>6. ReportType'
    <3>1. Served(r, f) \in [Rules -> Found \cup {None}]
      BY ServedType
    <3>2. CASE answered' = answered
      BY <1>11, <3>2 DEF ReadUnchanged, ReportType, hist
    <3>3. CASE answered' = [answered EXCEPT ![r][f] = Served(r, f)]
      BY <1>11, <3>1, <3>3 DEF ReadUnchanged, ReportType, hist
    <3>4. QED
      BY <1>11, <3>2, <3>3 DEF ReadUnchanged
  <2>7. QED
    BY <1>11, <2>2, <2>4, <2>5, <2>6 DEF ReadUnchanged, TreeType, RunType, tree, opts
<1>12. ASSUME NEW r \in Runs, NEW f \in Files, Record(r, f)
      PROVE  TypeOK'
  <2>1. work' \in [Files -> Row \cup {None}]
    <3>1. got[r][f] \in Texts
      BY <1>12, InHandText DEF Record
    <3>2. \/ work' = work
          \/ work' = [work EXCEPT ![f] = Recorded(r, f, got[r][f], StatToStore(r, f))]
      BY <1>12 DEF Record
    <3>3. Recorded(r, f, got[r][f], StatToStore(r, f)) \in Row
      BY <3>1, RecordedType DEF StatToStore, HandType
    <3>4. QED
      BY <3>2, <3>3 DEF TablesType
  <2>2. TablesType'
    BY <1>12, <2>1 DEF Record, TablesType
  <2>3. SetsType'
    BY <1>12, SMTT(30) DEF Record, SetsType
  <2>4. QED
    BY <1>12, <2>2, <2>3 DEF Record, TreeType, RunType, HandType, ReportType, tree, opts, reads, hist
<1>13. ASSUME NEW r \in Runs, StartRepair(r)
      PROVE  TypeOK'
  <2>1. RunType'
    BY <1>13 DEF StartRepair, RunType, opts
  <2>2. HandType'
    BY <1>13 DEF StartRepair, HandType, reads, RunType, SetsType
  <2>3. QED
    BY <1>13, <2>1, <2>2 DEF StartRepair, TreeType, TablesType, SetsType, ReportType, tree, db, hist
<1>14. ASSUME NEW r \in Runs, NEW f \in Files, RepairParsed(r, f)
      PROVE  TypeOK'
  <2>1. work' \in [Files -> Row \cup {None}]
    <3>1. got[r][f] \in Texts
      BY <1>14, InHandText DEF RepairParsed
    <3>2. \/ work' = work
          \/ work' = [work EXCEPT ![f] = Recorded(r, f, got[r][f], StatToStore(r, f))]
      BY <1>14 DEF RepairParsed
    <3>3. Recorded(r, f, got[r][f], StatToStore(r, f)) \in Row
      BY <3>1, RecordedType DEF StatToStore, HandType
    <3>4. QED
      BY <3>2, <3>3 DEF TablesType
  <2>2. TablesType'
    BY <1>14, <2>1 DEF RepairParsed, TablesType
  <2>3. HandType'
    BY <1>14 DEF RepairParsed, HandType, reads, Leave
  <2>4. QED
    BY <1>14, <2>2, <2>3 DEF RepairParsed, TreeType, RunType, SetsType, ReportType, tree, opts, hist
<1>15. ASSUME NEW r \in Runs, NEW f \in Files, RepairStat(r, f)
      PROVE  TypeOK'
  <2>1. HandType'
    BY <1>15 DEF RepairStat, HandType, reads, StatAnswers, TreeType
  <2>2. QED
    BY <1>15, <2>1 DEF RepairStat, TreeType, TablesType, RunType, SetsType, ReportType, tree, db, opts, hist
<1>16. ASSUME NEW r \in Runs, NEW f \in Files, RepairRead(r, f)
      PROVE  TypeOK'
  <2>1. work' \in [Files -> Row \cup {None}]
    <3>1. CASE disk[f].content \notin Texts
      BY <1>16, <3>1 DEF RepairRead, TablesType
    <3>2. CASE disk[f].content \in Texts
      <4>1. work' = [work EXCEPT ![f] = Recorded(r, f, disk[f].content, StatToStore(r, f))]
        BY <1>16, <3>2 DEF RepairRead
      <4>2. Recorded(r, f, disk[f].content, StatToStore(r, f)) \in Row
        BY <3>2, RecordedType DEF StatToStore, HandType
      <4>3. QED
        BY <4>1, <4>2 DEF TablesType
    <3>3. QED
      BY <3>1, <3>2
  <2>2. TablesType'
    BY <1>16, <2>1 DEF RepairRead, TablesType
  <2>3. got' \in [Runs -> [Files -> Texts \cup {None}]]
    <3>1. \/ got' = got
          \/ got' = [got EXCEPT ![r][f] = disk[f].content] /\ disk[f].content \in Texts
      BY <1>16 DEF RepairRead
    <3>2. CASE got' = got
      BY <3>2 DEF HandType
    <3>3. CASE got' = [got EXCEPT ![r][f] = disk[f].content] /\ disk[f].content \in Texts
      BY <3>3 DEF HandType
    <3>4. QED
      BY <3>1, <3>2, <3>3
  <2>4. HandType'
    BY <1>16, <2>3 DEF RepairRead, HandType, Close, Leave
  <2>5. SetsType'
    BY <1>16 DEF RepairRead, SetsType
  <2>6. QED
    BY <1>16, <2>2, <2>4, <2>5 DEF RepairRead, TreeType, RunType, ReportType, tree, opts, hist
<1>17. ASSUME NEW r \in Runs, Commit(r)
      PROVE  TypeOK'
  <2>1. Pruned(r) \in [Files -> Row \cup {None}]
    BY PrunedType
  <2>2. TablesType'
    BY <1>17, <2>1 DEF Commit, TablesType, db, NoFindings
  <2>3. RunType'
    BY <1>17 DEF Commit, RunType, opts
  <2>4. UNION {Targets(f) : f \in Departed(r)} \in SUBSET Files
    BY TargetsType DEF Departed
  <2>5. SetsType'
    BY <1>17, <2>4 DEF Commit, SetsType
  <2>6. ReportType'
    BY <1>17 DEF Commit, ReportType, hist, NoFindings
  <2>7. QED
    BY <1>17, <2>2, <2>3, <2>5, <2>6 DEF Commit, TreeType, HandType, tree, reads
<1>18. ASSUME NEW r \in Runs, RunRules(r)
      PROVE  TypeOK'
  <2>1. \A f \in parsed[r] : got[r][f] \in Texts
    BY InHandText
  <2>2. TablesType'
    BY <1>18, <2>1 DEF RunRules, TablesType, db, RunType, Found
  <2>3. RunType'
    BY <1>18 DEF RunRules, RunType, opts
  <2>4. HandType'
    BY <1>18 DEF RunRules, HandType, reads, Scratch, NoCached, NoFindings
  <2>5. SetsType'
    BY <1>18 DEF RunRules, SetsType, Scratch
  <2>6. \A f \in parsed[r] : Fresh(r, f) \in [Rules -> Found \cup {None}]
    BY <2>1 DEF Fresh, RunType, Found
  <2>7. ReportType'
    BY <1>18, <2>6 DEF RunRules, ReportType, hist
  <2>8. QED
    BY <1>18, <2>2, <2>3, <2>4, <2>5, <2>7 DEF RunRules, TreeType, tree
<1>19. ASSUME NEW r \in Runs, Stop(r)
      PROVE  TypeOK'
  <2>1. TablesType'
    BY <1>19 DEF Stop, TablesType, db
  <2>2. RunType'
    BY <1>19 DEF Stop, RunType, opts
  <2>3. HandType'
    BY <1>19 DEF Stop, HandType, reads, Scratch, NoCached, NoFindings
  <2>4. SetsType'
    BY <1>19 DEF Stop, SetsType, Scratch
  <2>5. ReportType'
    BY <1>19 DEF Stop, ReportType, hist, NoFindings
  <2>6. QED
    BY <1>19, <2>1, <2>2, <2>3, <2>4, <2>5 DEF Stop, TreeType, tree
<1>20. CASE UNCHANGED vars
  BY <1>20 DEF vars, tree, db, opts, reads, hist,
     TreeType, TablesType, RunType, HandType, SetsType, ReportType
<1>21. QED
  BY <1>1, <1>2, <1>3, <1>4, <1>5, <1>6, <1>7, <1>8, <1>9, <1>10, <1>11, <1>12, <1>13, <1>14, <1>15, <1>16, <1>17, <1>18, <1>19, <1>20
     DEF Next, Edit, Step, Visit, ReadFails, Busy, Kill

(* What is in hand stays exactly what was read. *)
LEMMA InHandStep ==
  ASSUME TypeOK, InHand, [Next]_vars
  PROVE  InHand'
<1> USE DataAssumption DEF DataAssumption, TypeOK
<1>1. ASSUME NEW f \in Files, NEW c \in Texts \cup {Binary}, Write(f, c)
      PROVE  InHand'
  BY <1>1 DEF Write, InHand, reads
<1>2. ASSUME NEW f \in Files, Delete(f)
      PROVE  InHand'
  BY <1>2 DEF Delete, InHand, reads
<1>3. ASSUME NEW r \in Runs, NEW m \in Modes, NEW k \in Configs,
             NEW named \in SUBSET Files, Start(r, m, k, named)
      PROVE  InHand'
  BY <1>3 DEF Start, InHand, Scratch, HandType, SetsType
<1>4. ASSUME NEW r \in Runs, LoadCache(r)
      PROVE  InHand'
  BY <1>4 DEF LoadCache, InHand, reads
<1>5. ASSUME NEW r \in Runs, Begin(r)
      PROVE  InHand'
  BY <1>5 DEF Begin, InHand, reads
<1>6. ASSUME NEW r \in Runs, NEW f \in Files, SkipByStat(r, f)
      PROVE  InHand'
  BY <1>6 DEF SkipByStat, InHand, reads
<1>7. ASSUME NEW r \in Runs, NEW f \in Files, ServeByStat(r, f)
      PROVE  InHand'
  BY <1>7 DEF ServeByStat, InHand, reads
<1>8. ASSUME NEW r \in Runs, NEW f \in Files, TakeStat(r, f)
      PROVE  InHand'
  BY <1>8 DEF TakeStat, InHand, reads
<1>9. ASSUME NEW r \in Runs, NEW f \in Files, ReadBinary(r, f)
      PROVE  InHand'
  BY <1>9 DEF ReadBinary, InHand, reads
<1>10. ASSUME NEW r \in Runs, NEW f \in Files, ReadChanged(r, f)
      PROVE  InHand'
  BY <1>10 DEF ReadChanged, InHand, HandType, SetsType
<1>11. ASSUME NEW r \in Runs, NEW f \in Files, ReadUnchanged(r, f)
      PROVE  InHand'
  <2>1. CASE UNCHANGED <<got, pending>>
    BY <1>11, <2>1 DEF ReadUnchanged, InHand
  <2>2. CASE /\ disk[f].content \in Texts
             /\ got' = [got EXCEPT ![r][f] = disk[f].content]
             /\ pending' = [pending EXCEPT ![r] = @ \cup {f}]
    BY <1>11, <2>2 DEF ReadUnchanged, InHand, HandType, SetsType
  <2>3. QED
    BY <1>11, <2>1, <2>2 DEF ReadUnchanged
<1>12. ASSUME NEW r \in Runs, NEW f \in Files, Record(r, f)
      PROVE  InHand'
  BY <1>12 DEF Record, InHand, HandType, SetsType, reads
<1>13. ASSUME NEW r \in Runs, StartRepair(r)
      PROVE  InHand'
  BY <1>13 DEF StartRepair, InHand, reads
<1>14. ASSUME NEW r \in Runs, NEW f \in Files, RepairParsed(r, f)
      PROVE  InHand'
  BY <1>14 DEF RepairParsed, InHand, reads
<1>15. ASSUME NEW r \in Runs, NEW f \in Files, RepairStat(r, f)
      PROVE  InHand'
  BY <1>15 DEF RepairStat, InHand, reads
<1>16. ASSUME NEW r \in Runs, NEW f \in Files, RepairRead(r, f)
      PROVE  InHand'
  <2>1. CASE disk[f].content \in Texts
    <3>1. /\ got' = [got EXCEPT ![r][f] = disk[f].content]
          /\ parsed' = [parsed EXCEPT ![r] = @ \cup {f}]
          /\ pending' = pending /\ disk[f].content # None
      BY <1>16, <2>1 DEF RepairRead
    <3>2. QED
      BY <3>1 DEF InHand, HandType, SetsType
  <2>2. CASE disk[f].content \notin Texts
    BY <1>16, <2>2 DEF RepairRead, InHand
  <2>3. QED
    BY <2>1, <2>2
<1>17. ASSUME NEW r \in Runs, Commit(r)
      PROVE  InHand'
  BY <1>17 DEF Commit, InHand, reads
<1>18. ASSUME NEW r \in Runs, RunRules(r)
      PROVE  InHand'
  BY <1>18 DEF RunRules, InHand, Scratch, HandType, SetsType
<1>19. ASSUME NEW r \in Runs, Stop(r)
      PROVE  InHand'
  BY <1>19 DEF Stop, InHand, Scratch, HandType, SetsType
<1>20. CASE UNCHANGED vars
  BY <1>20 DEF vars, tree, db, opts, reads, hist, InHand
<1>21. QED
  BY <1>1, <1>2, <1>3, <1>4, <1>5, <1>6, <1>7, <1>8, <1>9, <1>10, <1>11, <1>12, <1>13, <1>14, <1>15, <1>16, <1>17, <1>18, <1>19, <1>20
     DEF Next, Edit, Step, Visit, ReadFails, Busy, Kill

(* Every step keeps the working sets apart. *)
LEMMA PhasesStep ==
  ASSUME TypeOK, Phases, [Next]_vars
  PROVE  Phases'
<1> USE DataAssumption DEF DataAssumption, TypeOK
<1>1. ASSUME NEW f \in Files, NEW c \in Texts \cup {Binary}, Write(f, c)
      PROVE  Phases'
  BY <1>1 DEF Write, Phases, InPhase
<1>2. ASSUME NEW f \in Files, Delete(f)
      PROVE  Phases'
  BY <1>2 DEF Delete, Phases, InPhase
<1>3. ASSUME NEW r \in Runs, NEW m \in Modes, NEW k \in Configs,
             NEW named \in SUBSET Files, Start(r, m, k, named)
      PROVE  Phases'
  <2> SUFFICES ASSUME NEW q \in Runs
               PROVE  InPhase(q)'
    BY DEF Phases
  <2>1. InPhase(q) /\ InPhase(r)
    BY DEF Phases
  <2>2. CASE q # r
    BY <1>3, <2>1, <2>2 DEF Start, InPhase, RunType, HandType, SetsType, Scratch
  <2>3. CASE q = r
    BY <1>3, <2>1, <2>3 DEF Start, InPhase, RunType, HandType, SetsType, Scratch
  <2>4. QED
    BY <2>2, <2>3
<1>4. ASSUME NEW r \in Runs, LoadCache(r)
      PROVE  Phases'
  <2> SUFFICES ASSUME NEW q \in Runs
               PROVE  InPhase(q)'
    BY DEF Phases
  <2>1. InPhase(q) /\ InPhase(r)
    BY DEF Phases
  <2>2. CASE q # r
    BY <1>4, <2>1, <2>2 DEF LoadCache, InPhase, RunType, HandType, SetsType, reads
  <2>3. CASE q = r
    BY <1>4, <2>1, <2>3 DEF LoadCache, InPhase, RunType, HandType, SetsType, reads
  <2>4. QED
    BY <2>2, <2>3
<1>5. ASSUME NEW r \in Runs, Begin(r)
      PROVE  Phases'
  <2> SUFFICES ASSUME NEW q \in Runs
               PROVE  InPhase(q)'
    BY DEF Phases
  <2>1. InPhase(q) /\ InPhase(r)
    BY DEF Phases
  <2>2. CASE q # r
    BY <1>5, <2>1, <2>2 DEF Begin, InPhase, RunType, HandType, SetsType, reads
  <2>3. CASE q = r
    BY <1>5, <2>1, <2>3 DEF Begin, InPhase, RunType, HandType, SetsType, reads
  <2>4. QED
    BY <2>2, <2>3
<1>6. ASSUME NEW r \in Runs, NEW f \in Files, SkipByStat(r, f)
      PROVE  Phases'
  <2> SUFFICES ASSUME NEW q \in Runs
               PROVE  InPhase(q)'
    BY DEF Phases
  <2>1. InPhase(q) /\ InPhase(r)
    BY DEF Phases
  <2>2. CASE q # r
    BY <1>6, <2>1, <2>2 DEF SkipByStat, InPhase, RunType, HandType, SetsType, Visiting, Leave, reads
  <2>3. CASE q = r
    BY <1>6, <2>1, <2>3 DEF SkipByStat, InPhase, RunType, HandType, SetsType, Visiting, Leave, reads
  <2>4. QED
    BY <2>2, <2>3
<1>7. ASSUME NEW r \in Runs, NEW f \in Files, ServeByStat(r, f)
      PROVE  Phases'
  <2> SUFFICES ASSUME NEW q \in Runs
               PROVE  InPhase(q)'
    BY DEF Phases
  <2>1. InPhase(q) /\ InPhase(r)
    BY DEF Phases
  <2>2. CASE q # r
    BY <1>7, <2>1, <2>2 DEF ServeByStat, InPhase, RunType, HandType, SetsType, Visiting, Leave, reads
  <2>3. CASE q = r
    BY <1>7, <2>1, <2>3 DEF ServeByStat, InPhase, RunType, HandType, SetsType, Visiting, Leave, reads
  <2>4. QED
    BY <2>2, <2>3
<1>8. ASSUME NEW r \in Runs, NEW f \in Files, TakeStat(r, f)
      PROVE  Phases'
  <2> SUFFICES ASSUME NEW q \in Runs
               PROVE  InPhase(q)'
    BY DEF Phases
  <2>1. InPhase(q) /\ InPhase(r)
    BY DEF Phases
  <2>2. CASE q # r
    BY <1>8, <2>1, <2>2 DEF TakeStat, InPhase, RunType, HandType, SetsType, Visiting
  <2>3. CASE q = r
    BY <1>8, <2>1, <2>3 DEF TakeStat, InPhase, RunType, HandType, SetsType, Visiting
  <2>4. QED
    BY <2>2, <2>3
<1>9. ASSUME NEW r \in Runs, NEW f \in Files, ReadBinary(r, f)
      PROVE  Phases'
  <2> SUFFICES ASSUME NEW q \in Runs
               PROVE  InPhase(q)'
    BY DEF Phases
  <2>1. InPhase(q) /\ InPhase(r)
    BY DEF Phases
  <2>2. CASE q # r
    BY <1>9, <2>1, <2>2 DEF ReadBinary, InPhase, RunType, HandType, SetsType, Reading, Close, Leave, reads
  <2>3. CASE q = r
    BY <1>9, <2>1, <2>3 DEF ReadBinary, InPhase, RunType, HandType, SetsType, Reading, Close, Leave, reads
  <2>4. QED
    BY <2>2, <2>3
<1>10. ASSUME NEW r \in Runs, NEW f \in Files, ReadChanged(r, f)
      PROVE  Phases'
  <2> SUFFICES ASSUME NEW q \in Runs
               PROVE  InPhase(q)'
    BY DEF Phases
  <2>1. InPhase(q) /\ InPhase(r)
    BY DEF Phases
  <2>2. CASE q # r
    BY <1>10, <2>1, <2>2 DEF ReadChanged, InPhase, RunType, HandType, SetsType, Reading, Close, Leave
  <2>3. CASE q = r
    BY <1>10, <2>1, <2>3 DEF ReadChanged, InPhase, RunType, HandType, SetsType, Reading, Close, Leave
  <2>4. QED
    BY <2>2, <2>3
<1>11. ASSUME NEW r \in Runs, NEW f \in Files, ReadUnchanged(r, f)
      PROVE  Phases'
  <2> SUFFICES ASSUME NEW q \in Runs
               PROVE  InPhase(q)'
    BY DEF Phases
  <2>1. InPhase(q) /\ InPhase(r)
    BY DEF Phases
  <2>2. CASE q # r
    BY <1>11, <2>1, <2>2 DEF ReadUnchanged, InPhase, RunType, HandType, SetsType, Reading, Close, Leave
  <2>3. CASE q = r
    BY <1>11, <2>1, <2>3 DEF ReadUnchanged, InPhase, RunType, HandType, SetsType, Reading, Close, Leave
  <2>4. QED
    BY <2>2, <2>3
<1>12. ASSUME NEW r \in Runs, NEW f \in Files, Record(r, f)
      PROVE  Phases'
  <2> SUFFICES ASSUME NEW q \in Runs
               PROVE  InPhase(q)'
    BY DEF Phases
  <2>1. InPhase(q) /\ InPhase(r)
    BY DEF Phases
  <2>2. CASE q # r
    BY <1>12, <2>1, <2>2 DEF Record, InPhase, RunType, HandType, SetsType, reads
  <2>3. CASE q = r
    BY <1>12, <2>1, <2>3 DEF Record, InPhase, RunType, HandType, SetsType, reads
  <2>4. QED
    BY <2>2, <2>3
<1>13. ASSUME NEW r \in Runs, StartRepair(r)
      PROVE  Phases'
  <2> SUFFICES ASSUME NEW q \in Runs
               PROVE  InPhase(q)'
    BY DEF Phases
  <2>1. InPhase(q) /\ InPhase(r)
    BY DEF Phases
  <2>2. CASE q # r
    BY <1>13, <2>1, <2>2 DEF StartRepair, InPhase, RunType, HandType, SetsType, reads
  <2>3. CASE q = r
    BY <1>13, <2>1, <2>3 DEF StartRepair, InPhase, RunType, HandType, SetsType, reads
  <2>4. QED
    BY <2>2, <2>3
<1>14. ASSUME NEW r \in Runs, NEW f \in Files, RepairParsed(r, f)
      PROVE  Phases'
  <2> SUFFICES ASSUME NEW q \in Runs
               PROVE  InPhase(q)'
    BY DEF Phases
  <2>1. InPhase(q) /\ InPhase(r)
    BY DEF Phases
  <2>2. CASE q # r
    BY <1>14, <2>1, <2>2 DEF RepairParsed, InPhase, RunType, HandType, SetsType, Leave, reads
  <2>3. CASE q = r
    BY <1>14, <2>1, <2>3 DEF RepairParsed, InPhase, RunType, HandType, SetsType, Leave, reads
  <2>4. QED
    BY <2>2, <2>3
<1>15. ASSUME NEW r \in Runs, NEW f \in Files, RepairStat(r, f)
      PROVE  Phases'
  <2> SUFFICES ASSUME NEW q \in Runs
               PROVE  InPhase(q)'
    BY DEF Phases
  <2>1. InPhase(q) /\ InPhase(r)
    BY DEF Phases
  <2>2. CASE q # r
    BY <1>15, <2>1, <2>2 DEF RepairStat, InPhase, RunType, HandType, SetsType
  <2>3. CASE q = r
    BY <1>15, <2>1, <2>3 DEF RepairStat, InPhase, RunType, HandType, SetsType
  <2>4. QED
    BY <2>2, <2>3
<1>16. ASSUME NEW r \in Runs, NEW f \in Files, RepairRead(r, f)
      PROVE  Phases'
  <2> SUFFICES ASSUME NEW q \in Runs
               PROVE  InPhase(q)'
    BY DEF Phases
  <2>1. InPhase(q) /\ InPhase(r)
    BY DEF Phases
  <2>2. CASE q # r
    BY <1>16, <2>1, <2>2 DEF RepairRead, InPhase, RunType, HandType, SetsType, Close, Leave
  <2>3. CASE q = r
    BY <1>16, <2>1, <2>3 DEF RepairRead, InPhase, RunType, HandType, SetsType, Close, Leave
  <2>4. QED
    BY <2>2, <2>3
<1>17. ASSUME NEW r \in Runs, Commit(r)
      PROVE  Phases'
  <2> SUFFICES ASSUME NEW q \in Runs
               PROVE  InPhase(q)'
    BY DEF Phases
  <2>1. InPhase(q) /\ InPhase(r)
    BY DEF Phases
  <2>2. CASE q # r
    BY <1>17, <2>1, <2>2 DEF Commit, InPhase, RunType, HandType, SetsType, reads
  <2>3. CASE q = r
    BY <1>17, <2>1, <2>3 DEF Commit, InPhase, RunType, HandType, SetsType, reads
  <2>4. QED
    BY <2>2, <2>3
<1>18. ASSUME NEW r \in Runs, RunRules(r)
      PROVE  Phases'
  <2> SUFFICES ASSUME NEW q \in Runs
               PROVE  InPhase(q)'
    BY DEF Phases
  <2>1. InPhase(q) /\ InPhase(r)
    BY DEF Phases
  <2>2. CASE q # r
    BY <1>18, <2>1, <2>2 DEF RunRules, InPhase, RunType, HandType, SetsType, Scratch
  <2>3. CASE q = r
    BY <1>18, <2>1, <2>3 DEF RunRules, InPhase, RunType, HandType, SetsType, Scratch
  <2>4. QED
    BY <2>2, <2>3
<1>19. ASSUME NEW r \in Runs, Stop(r)
      PROVE  Phases'
  <2> SUFFICES ASSUME NEW q \in Runs
               PROVE  InPhase(q)'
    BY DEF Phases
  <2>1. InPhase(q) /\ InPhase(r)
    BY DEF Phases
  <2>2. CASE q # r
    BY <1>19, <2>1, <2>2 DEF Stop, InPhase, RunType, HandType, SetsType, Scratch
  <2>3. CASE q = r
    BY <1>19, <2>1, <2>3 DEF Stop, InPhase, RunType, HandType, SetsType, Scratch
  <2>4. QED
    BY <2>2, <2>3
<1>20. CASE UNCHANGED vars
  BY <1>20 DEF vars, tree, db, opts, reads, hist, Phases, InPhase
<1>21. QED
  BY <1>1, <1>2, <1>3, <1>4, <1>5, <1>6, <1>7, <1>8, <1>9, <1>10, <1>11, <1>12, <1>13, <1>14, <1>15, <1>16, <1>17, <1>18, <1>19, <1>20
     DEF Next, Edit, Step, Visit, ReadFails, Busy, Kill

(* No step lets a stale stat speak for a text. *)
LEMMA StampsStep ==
  ASSUME IInv, [Next]_vars
  PROVE  StampsSound'
<1> USE DataAssumption DEF DataAssumption, TypeOK, IInv
<1>1. ASSUME NEW f \in Files, NEW c \in Texts \cup {Binary}, Write(f, c)
      PROVE  StampsSound'
  BY <1>1 DEF Write, StampsSound, TableSound, HandSound, Vouches, TreeType, TablesType, HandType, Row, db, reads
<1>2. ASSUME NEW f \in Files, Delete(f)
      PROVE  StampsSound'
  BY <1>2 DEF Delete, StampsSound, TableSound, HandSound, Vouches, TreeType, TablesType, HandType, Row, db, reads
<1>3. ASSUME NEW r \in Runs, NEW m \in Modes, NEW k \in Configs,
             NEW named \in SUBSET Files, Start(r, m, k, named)
      PROVE  StampsSound'
  BY <1>3 DEF Start, StampsSound, TableSound, HandSound, Vouches, Scratch, TreeType, HandType, TablesType, tree, db
<1>4. ASSUME NEW r \in Runs, LoadCache(r)
      PROVE  StampsSound'
  BY <1>4 DEF LoadCache, StampsSound, TableSound, HandSound, Vouches, tree, db, reads
<1>5. ASSUME NEW r \in Runs, Begin(r)
      PROVE  StampsSound'
  BY <1>5 DEF Begin, StampsSound, TableSound, HandSound, Vouches, tree, db, reads
<1>6. ASSUME NEW r \in Runs, NEW f \in Files, SkipByStat(r, f)
      PROVE  StampsSound'
  BY <1>6 DEF SkipByStat, StampsSound, TableSound, HandSound, Vouches, tree, db, reads
<1>7. ASSUME NEW r \in Runs, NEW f \in Files, ServeByStat(r, f)
      PROVE  StampsSound'
  BY <1>7 DEF ServeByStat, StampsSound, TableSound, HandSound, Vouches, tree, db, reads
<1>8. ASSUME NEW r \in Runs, NEW f \in Files, TakeStat(r, f)
      PROVE  StampsSound'
  <2>1. got[r][f] = None
    BY <1>8 DEF TakeStat, InHand, Phases, InPhase, Visiting
  <2>2. PICK s \in StatAnswers(f) : stat' = [stat EXCEPT ![r][f] = s]
    BY <1>8 DEF TakeStat
  <2>3. s <= clock
    BY <2>2 DEF StatAnswers, TreeType, StampsSound
  <2>4. HandSound'
    BY <1>8, <2>1, <2>2, <2>3 DEF TakeStat, StampsSound, HandSound, Vouches, HandType, tree
  <2>5. QED
    BY <1>8, <2>4 DEF TakeStat, StampsSound, TableSound, Vouches, tree, db
<1>9. ASSUME NEW r \in Runs, NEW f \in Files, ReadBinary(r, f)
      PROVE  StampsSound'
  BY <1>9 DEF ReadBinary, StampsSound, TableSound, HandSound, Vouches, tree, db, reads
<1>10. ASSUME NEW r \in Runs, NEW f \in Files, ReadChanged(r, f)
      PROVE  StampsSound'
  <2>1. HandSound'
    BY <1>10 DEF ReadChanged, StampsSound, HandSound, Vouches, HandType, tree
  <2>2. QED
    BY <1>10, <2>1 DEF ReadChanged, StampsSound, TableSound, Vouches, tree, db
<1>11. ASSUME NEW r \in Runs, NEW f \in Files, ReadUnchanged(r, f)
      PROVE  StampsSound'
  <2>1. HandSound'
    <3>1. CASE got' = got
      BY <1>11, <3>1 DEF ReadUnchanged, StampsSound, HandSound, Vouches, tree
    <3>2. CASE got' = [got EXCEPT ![r][f] = disk[f].content]
      BY <1>11, <3>2 DEF ReadUnchanged, StampsSound, HandSound, Vouches, HandType, tree
    <3>3. QED
      BY <1>11, <3>1, <3>2 DEF ReadUnchanged
  <2>2. TableSound(work)'
    <3>1. CASE work' = work
      BY <1>11, <3>1 DEF ReadUnchanged, StampsSound, TableSound, Vouches, tree
    <3>2. CASE work' = [work EXCEPT ![f].stat = stat[r][f]]
      <4>1. work[f] # None /\ work[f].hash = disk[f].content
        BY <1>11 DEF ReadUnchanged, NewText
      <4>2. work'[f].hash = disk[f].content /\ work'[f].stat = stat[r][f]
        BY <3>2, <4>1 DEF TablesType, Row
      <4>3. \A g \in Files \ {f} : work'[g] = work[g]
        BY <3>2 DEF TablesType
      <4>4. QED
        BY <1>11, <4>2, <4>3 DEF ReadUnchanged, StampsSound, TableSound, HandSound, Vouches, tree
    <3>3. QED
      BY <1>11, <3>1, <3>2 DEF ReadUnchanged, Refreshed, StatToStore
  <2>3. QED
    BY <1>11, <2>1, <2>2 DEF ReadUnchanged, StampsSound, TableSound, Vouches, tree
<1>12. ASSUME NEW r \in Runs, NEW f \in Files, Record(r, f)
      PROVE  StampsSound'
  <2>1. got[r][f] # None
    BY <1>12 DEF Record, InHand
  <2>2. \/ work' = work
        \/ work' = [work EXCEPT ![f] = Recorded(r, f, got[r][f], StatToStore(r, f))]
    BY <1>12 DEF Record
  <2>3. TableSound(work)'
    <3>1. CASE work' = work
      BY <1>12, <3>1 DEF Record, StampsSound, TableSound, Vouches, tree
    <3>2. CASE work' = [work EXCEPT ![f] = Recorded(r, f, got[r][f], StatToStore(r, f))]
      <4>1. work'[f].hash = got[r][f] /\ work'[f].stat = stat[r][f]
        BY <3>2 DEF TablesType, Recorded, StatToStore
      <4>2. \A g \in Files \ {f} : work'[g] = work[g]
        BY <3>2 DEF TablesType
      <4>3. stat[r][f] <= clock /\ Vouches(got[r][f], stat[r][f], f)
        BY <2>1 DEF StampsSound, HandSound
      <4>4. disk' = disk /\ clock' = clock
        BY <1>12 DEF Record, tree
      <4>5. QED
        BY <4>1, <4>2, <4>3, <4>4 DEF StampsSound, TableSound, Vouches
    <3>3. QED
      BY <2>2, <3>1, <3>2
  <2>4. QED
    BY <1>12, <2>3 DEF Record, StampsSound, TableSound, HandSound, Vouches, tree, reads
<1>13. ASSUME NEW r \in Runs, StartRepair(r)
      PROVE  StampsSound'
  BY <1>13 DEF StartRepair, StampsSound, TableSound, HandSound, Vouches, tree, db, reads
<1>14. ASSUME NEW r \in Runs, NEW f \in Files, RepairParsed(r, f)
      PROVE  StampsSound'
  <2>1. got[r][f] # None
    BY <1>14 DEF RepairParsed, InHand
  <2>2. \/ work' = work
        \/ work' = [work EXCEPT ![f] = Recorded(r, f, got[r][f], StatToStore(r, f))]
    BY <1>14 DEF RepairParsed
  <2>3. TableSound(work)'
    <3>1. CASE work' = work
      BY <1>14, <3>1 DEF RepairParsed, StampsSound, TableSound, Vouches, tree
    <3>2. CASE work' = [work EXCEPT ![f] = Recorded(r, f, got[r][f], StatToStore(r, f))]
      <4>1. work'[f].hash = got[r][f] /\ work'[f].stat = stat[r][f]
        BY <3>2 DEF TablesType, Recorded, StatToStore
      <4>2. \A g \in Files \ {f} : work'[g] = work[g]
        BY <3>2 DEF TablesType
      <4>3. stat[r][f] <= clock /\ Vouches(got[r][f], stat[r][f], f)
        BY <2>1 DEF StampsSound, HandSound
      <4>4. disk' = disk /\ clock' = clock
        BY <1>14 DEF RepairParsed, tree
      <4>5. QED
        BY <4>1, <4>2, <4>3, <4>4 DEF StampsSound, TableSound, Vouches
    <3>3. QED
      BY <2>2, <3>1, <3>2
  <2>4. QED
    BY <1>14, <2>3 DEF RepairParsed, StampsSound, TableSound, HandSound, Vouches, tree, reads
<1>15. ASSUME NEW r \in Runs, NEW f \in Files, RepairStat(r, f)
      PROVE  StampsSound'
  <2>1. got[r][f] = None
    BY <1>15 DEF RepairStat, InHand, Phases, InPhase
  <2>2. PICK s \in StatAnswers(f) : stat' = [stat EXCEPT ![r][f] = s]
    BY <1>15 DEF RepairStat
  <2>3. s <= clock
    BY <2>2 DEF StatAnswers, TreeType, StampsSound
  <2>4. HandSound'
    BY <1>15, <2>1, <2>2, <2>3 DEF RepairStat, StampsSound, HandSound, Vouches, HandType, tree
  <2>5. QED
    BY <1>15, <2>4 DEF RepairStat, StampsSound, TableSound, Vouches, tree, db
<1>16. ASSUME NEW r \in Runs, NEW f \in Files, RepairRead(r, f)
      PROVE  StampsSound'
  <2>1. CASE disk[f].content \notin Texts
    BY <1>16, <2>1 DEF RepairRead, StampsSound, TableSound, HandSound, Vouches, tree
  <2>2. CASE disk[f].content \in Texts
    <3>1. HandSound'
      <4>1. /\ got' = [got EXCEPT ![r][f] = disk[f].content] /\ stat' = stat
            /\ disk' = disk /\ clock' = clock
        BY <1>16, <2>2 DEF RepairRead, tree
      <4>2. QED
        BY <4>1 DEF StampsSound, HandSound, Vouches, HandType
    <3>2. work'[f].hash = disk[f].content /\ work'[f].stat = stat[r][f]
      BY <1>16, <2>2 DEF RepairRead, TablesType, Recorded, StatToStore
    <3>3. \A g \in Files \ {f} : work'[g] = work[g]
      BY <1>16, <2>2 DEF RepairRead, TablesType
    <3>4. TableSound(work)'
      BY <1>16, <3>2, <3>3 DEF RepairRead, StampsSound, TableSound, HandSound, Vouches, tree
    <3>5. QED
      BY <1>16, <3>1, <3>4 DEF RepairRead, StampsSound, TableSound, Vouches, tree
  <2>3. QED
    BY <2>1, <2>2
<1>17. ASSUME NEW r \in Runs, Commit(r)
      PROVE  StampsSound'
  <2>1. \A f \in Files : Pruned(r)[f] # None =>
          /\ work[f] # None
          /\ Pruned(r)[f].hash = work[f].hash /\ Pruned(r)[f].stat = work[f].stat
    BY DEF Pruned, TablesType, Row
  <2>2. TableSound(Pruned(r))
    BY <2>1 DEF StampsSound, TableSound
  <2>3. TableSound(rows)' /\ TableSound(work)'
    BY <1>17, <2>2 DEF Commit, TableSound, Vouches, tree
  <2>4. QED
    BY <1>17, <2>3 DEF Commit, StampsSound, HandSound, Vouches, tree, reads
<1>18. ASSUME NEW r \in Runs, RunRules(r)
      PROVE  StampsSound'
  BY <1>18 DEF RunRules, StampsSound, TableSound, HandSound, Vouches, Scratch, TreeType, HandType, TablesType, tree, db
<1>19. ASSUME NEW r \in Runs, Stop(r)
      PROVE  StampsSound'
  BY <1>19 DEF Stop, StampsSound, TableSound, HandSound, Vouches, Scratch, TreeType, HandType, TablesType, tree, db
<1>20. CASE UNCHANGED vars
  BY <1>20 DEF vars, tree, db, opts, reads, hist, StampsSound, TableSound, HandSound, Vouches
<1>21. QED
  BY <1>1, <1>2, <1>3, <1>4, <1>5, <1>6, <1>7, <1>8, <1>9, <1>10, <1>11, <1>12, <1>13, <1>14, <1>15, <1>16, <1>17, <1>18, <1>19, <1>20
     DEF Next, Edit, Step, Visit, ReadFails, Busy, Kill

(* Every initial state satisfies the inductive invariant. *)
LEMMA InitInvariant ==
  ASSUME Init
  PROVE  IInv
<1> USE DataAssumption DEF DataAssumption
<1>1. TypeOK
  <2>1. TreeType
    BY DEF Init, TreeType
  <2>2. TablesType /\ RunType
    BY DEF Init, TablesType, RunType, NoFindings
  <2>3. HandType /\ SetsType /\ ReportType
    BY DEF Init, HandType, SetsType, ReportType, NoCached, NoFindings
  <2>4. QED
    BY <2>1, <2>2, <2>3 DEF TypeOK
<1>2. InHand /\ Phases
  BY DEF Init, InHand, Phases, InPhase
<1>3. StampsSound
  <2>1. ASSUME NEW f \in Files
        PROVE  disk[f].stat <= 1
    <3>1. disk[f] \in [content : Texts \cup {Binary}, stat : {1}]
                       \cup {[content |-> Gone, stat |-> 0]}
      BY DEF Init
    <3>2. CASE disk[f] \in [content : Texts \cup {Binary}, stat : {1}]
      BY <3>2
    <3>3. CASE disk[f] = [content |-> Gone, stat |-> 0]
      BY <3>3
    <3>4. QED
      BY <3>1, <3>2, <3>3
  <2>2. QED
    BY <2>1 DEF Init, StampsSound, TableSound, HandSound
<1>4. QED
  BY <1>1, <1>2, <1>3 DEF IInv

(* The strengthened invariant holds in every reachable state, whatever     *)
(* editors and other runs do between the steps of a run.                   *)
THEOREM Invariance == Spec => []IInv
<1>1. Init => IInv
  BY InitInvariant
<1>2. IInv /\ [Next]_vars => IInv'
  BY TypeStep, InHandStep, PhasesStep, StampsStep DEF IInv
<1>3. QED
  BY <1>1, <1>2, PTL DEF Spec

(* Every variable of the index, the runs and the report stays in its type. *)
THEOREM TypeCorrect == Spec => []TypeOK
<1>1. IInv => TypeOK
  BY DEF IInv
<1>2. QED
  BY <1>1, Invariance, PTL

(* A stat that matches the stored one is proof that the file still holds   *)
(* the text its row was recorded from: run.rs may skip the read.           *)
THEOREM StatSoundness == Spec => []StatSound
<1>1. IInv => StatSound
  BY DEF IInv, StampsSound, TableSound, Vouches, StatSound
<1>2. QED
  BY <1>1, Invariance, PTL

-----------------------------------------------------------------------------
(***************************************************************************)
(* What a recording run promises: what its report says is true and         *)
(* complete, the index it commits is current, its edges point somewhere,   *)
(* and what lost an importer is captured.                                  *)
(***************************************************************************)

(* Only one file can answer to the specifier.  Where two compete for one,  *)
(* an edge may be left unresolved, or move to the other file, unseen.      *)
Sole(s) == \A i, j \in DOMAIN Candidates[s] : Candidates[s][i] = Candidates[s][j]

Unrivalled == \A s \in Specs : Sole(s)

-----------------------------------------------------------------------------
(* One run has the write lock while it records. *)
Recording(r) == pc[r] \in {"main", "repair"}

LockHeld == \A r \in Runs : Recording(r) <=> lock = r

(* What a running run has seen of a file, it held while the run was going. *)
SeenTrue ==
  \A r \in Runs : Running(r) =>
    \A f \in Files :
      disk[f].content \in window[r][f] /\ got[r][f] \in window[r][f] \cup {None}

(* The cached findings of a file are all of one text under one config. *)
CachedTrue ==
  \A r \in Runs, f \in Files, x \in Rules :
    cached[r][f].byRule[x] \in {None, cached[r][f].key}

AnsweredTrue ==
  \A r \in Runs, f \in Files, x \in Rules : answered[r][f][x] # None =>
    /\ answered[r][f][x].hash \in window[r][f]
    /\ answered[r][f][x].config = config[r]

Answers(r, f) ==
  Binary \in window[r][f] \/ \A x \in EnabledBy[config[r]] : answered[r][f][x] # None

(* Every candidate is on its way to an answer. *)
Covered ==
  \A r \in Runs : ReportAll(r) => \A f \in cand[r] :
    /\ pc[r] = "main" => f \in todo[r] \cup pending[r] \cup parsed[r] \/ Answers(r, f)
    /\ pc[r] \in {"repair", "rules"} => f \in parsed[r] \/ Answers(r, f)
    /\ pc[r] = "done" => Answers(r, f)

ReportInv == SeenTrue /\ CachedTrue /\ AnsweredTrue /\ Covered

-----------------------------------------------------------------------------
(* The run is through with f, but for repairs. *)
Dealt(r, f) ==
  pc[r] = "repair" \/ (pc[r] = "main" /\ f \notin todo[r] \cup pending[r])

Within ==
  \A r \in Runs :
    /\ pc[r] = "main" => todo[r] \cup pending[r] \cup parsed[r] \subseteq cand[r]
    /\ pc[r] = "repair" =>
         todo[r] \subseteq cand[r] /\ \A f \in todo[r] : work[f] # None

BinaryTold == \A f \in Files : disk[f].content = Binary => f \in wasBinary

Present ==
  \A r \in Runs : \A f \in cand[r] : Dealt(r, f) => work[f] # None \/ f \in wasBinary

(* What an undisturbed run has in hand is what is on disk, *)
HandFresh ==
  \A r \in quiet, f \in Files :
    stat[r][f] \in {0, disk[f].stat} /\ got[r][f] \in {None, disk[f].content}

StatKept(r, f) == work[f].stat = disk[f].stat \/ stat[r][f] = 0

(* and so is what it has recorded or let stand. *)
WorkFresh ==
  \A r \in quiet : \A f \in cand[r] : disk[f].content \in Texts =>
    /\ Dealt(r, f) => work[f] # None /\ work[f].hash = disk[f].content
    /\ Dealt(r, f) /\ at[r] # f => StatKept(r, f)
    /\ pc[r] = "main" /\ f \in pending[r] /\ ~NewText(f, got[r][f]) => StatKept(r, f)

RecordInv == Within /\ BinaryTold /\ Present /\ HandFresh /\ WorkFresh

-----------------------------------------------------------------------------
(* Edges are of the text's imports, and resolve to what they may name. *)
NamesTrue(table) ==
  \A f \in Files : table[f] # None => \A e \in table[f].edges :
    /\ e.spec \in SpecsOf[table[f].hash]
    /\ e.res = "resolved" => \E i \in DOMAIN Candidates[e.spec] : e.to = Candidates[e.spec][i]

(* A committed edge points at a row. *)
PointsAtRow ==
  \A f \in Files : rows[f] # None => \A e \in rows[f].edges :
    e.res = "resolved" => rows[e.to] # None \/ e.to \in wasBinary

(* An edge in the transaction may point at a candidate still to be recorded. *)
PointsAhead ==
  \A r \in Runs : Recording(r) => \A f \in Files : work[f] # None =>
    \A e \in work[f].edges :
      e.res = "resolved" => work[e.to] # None \/ e.to \in wasBinary \cup cand[r]

PointInv == NamesTrue(rows) /\ NamesTrue(work) /\ PointsAtRow /\ PointsAhead

(* An unresolved edge that could be resolved is an old one, and awaits the *)
(* repair pass.                                                            *)
AwaitsRepair(r, f, b) ==
  \/ b \notin cand[r]
  \/ pc[r] = "main" /\ f \notin changed[r] /\ (work[b] = None \/ r \in anyNew)
  \/ pc[r] = "repair" /\ (work[b] = None \/ f \in todo[r] \/ f \notin cand[r])

OpenTrue ==
  \A r \in Runs : Recording(r) => \A f \in Files \ wasBinary : work[f] # None =>
    \A e \in work[f].edges : e.res = "unresolved" /\ Sole(e.spec) =>
      \A i \in DOMAIN Candidates[e.spec] : AwaitsRepair(r, f, Candidates[e.spec][i])

(* EdgesCurrent, of the specifiers only one file can answer to. *)
SoleCurrent ==
  \A f \in Files \ wasBinary : rows[f] # None => \A e \in rows[f].edges :
    e.res = "unresolved" /\ Sole(e.spec) =>
      \A i \in DOMAIN Candidates[e.spec] : rows[Candidates[e.spec][i]] = None

(* A run that has not begun has recorded nothing. *)
Unrecorded == \A r \in Runs : ~Recording(r) /\ pc[r] # "rules" => changed[r] = {}

OpenInv == OpenTrue /\ SoleCurrent /\ Unrecorded

(* A --changed run keeps, or has captured, the targets of every old edge. *)
KeptTrue ==
  \A r \in quiet : Recording(r) /\ mode[r] = "changed" =>
    \A f \in Files : rows[f] # None => \A e \in rows[f].edges :
      Sole(e.spec) /\ e.to \in cand[r] =>
        e.to \in before[r] \/ (work[f] # None /\ e \in work[f].edges)

CapturedTrue ==
  \A r \in quiet : pc[r] = "main" /\ mode[r] = "changed" =>
    \A f \in pending[r] : NewText(f, got[r][f]) => Targets(f) \subseteq before[r]

LostInv == KeptTrue /\ CapturedTrue

-----------------------------------------------------------------------------
(* One run takes its turn. *)
Turn(r) ==
  \/ Step(r) \/ Stop(r)
  \/ \E m \in Modes, k \in Configs, named \in SUBSET Files : Start(r, m, k, named)

LEMMA Turns ==
  ASSUME [Next]_vars
  PROVE  (\E f \in Files : Edit(f)) \/ (\E r \in Runs : Turn(r)) \/ UNCHANGED vars
BY DEF Next, Turn, Busy, Kill

(* What belongs to run q, when somebody else moves. *)
Aside(q) ==
  /\ pc'[q] = pc[q] /\ mode'[q] = mode[q] /\ config'[q] = config[q] /\ cand'[q] = cand[q]
  /\ cached'[q] = cached[q] /\ todo'[q] = todo[q] /\ at'[q] = at[q]
  /\ stat'[q] = stat[q] /\ got'[q] = got[q]
  /\ pending'[q] = pending[q] /\ changed'[q] = changed[q] /\ parsed'[q] = parsed[q]
  /\ before'[q] = before[q] /\ answered'[q] = answered[q]
  /\ (q \in anyNew' <=> q \in anyNew)

LEMMA OtherRun ==
  ASSUME TypeOK, NEW r \in Runs, NEW q \in Runs, r # q, Turn(r)
  PROVE  Aside(q) /\ UNCHANGED tree /\ window'[q] = window[q] /\ (q \in quiet' <=> q \in quiet)
<1> USE DEF TypeOK, RunType, HandType, SetsType, ReportType, Aside, tree, opts, reads, hist
<1>1. CASE Stop(r)  BY <1>1 DEF Stop, Scratch
<1>2. ASSUME NEW m \in Modes, NEW k \in Configs, NEW named \in SUBSET Files, Start(r, m, k, named)
      PROVE  Aside(q) /\ UNCHANGED tree /\ window'[q] = window[q] /\ (q \in quiet' <=> q \in quiet)
  BY <1>2 DEF Start, Scratch
<1>3. CASE LoadCache(r)  BY <1>3 DEF LoadCache
<1>4. CASE Begin(r)  BY <1>4 DEF Begin
<1>5. CASE StartRepair(r)  BY <1>5 DEF StartRepair
<1>6. CASE Commit(r)  BY <1>6 DEF Commit
<1>7. CASE RunRules(r)  BY <1>7 DEF RunRules, Scratch
<1>8. ASSUME NEW f \in Files, Visit(r, f), ~Stop(r)
      PROVE  Aside(q) /\ UNCHANGED tree /\ window'[q] = window[q] /\ (q \in quiet' <=> q \in quiet)
  <2> USE DEF Leave, Close
  <2>1. CASE SkipByStat(r, f)  BY <2>1 DEF SkipByStat
  <2>2. CASE ServeByStat(r, f)  BY <2>2 DEF ServeByStat
  <2>3. CASE TakeStat(r, f)  BY <2>3 DEF TakeStat
  <2>4. CASE ReadBinary(r, f)  BY <2>4 DEF ReadBinary
  <2>5. CASE ReadChanged(r, f)  BY <2>5 DEF ReadChanged
  <2>6. CASE ReadUnchanged(r, f)
    <3>1. got'[q] = got[q] /\ pending'[q] = pending[q] /\ answered'[q] = answered[q]
      BY <2>6 DEF ReadUnchanged
    <3> QED  BY <2>6, <3>1 DEF ReadUnchanged
  <2>7. CASE Record(r, f)
    <3>1. changed'[q] = changed[q] /\ (q \in anyNew' <=> q \in anyNew)  BY <2>7 DEF Record
    <3> QED  BY <2>7, <3>1 DEF Record
  <2>8. CASE RepairParsed(r, f)  BY <2>8 DEF RepairParsed
  <2>9. CASE RepairStat(r, f)  BY <2>9 DEF RepairStat
  <2>10. CASE RepairRead(r, f)
    <3>1. got'[q] = got[q] /\ parsed'[q] = parsed[q]  BY <2>10 DEF RepairRead
    <3> QED  BY <2>10, <3>1 DEF RepairRead
  <2> QED  BY <1>8, <2>1, <2>2, <2>3, <2>4, <2>5, <2>6, <2>7, <2>8, <2>9, <2>10 DEF Visit, ReadFails
<1> QED  BY <1>1, <1>2, <1>3, <1>4, <1>5, <1>6, <1>7, <1>8 DEF Turn, Step

(* An edit moves no run, but its window and its peace. *)
LEMMA EditAside ==
  ASSUME TypeOK, NEW f \in Files, Edit(f)
  PROVE  /\ UNCHANGED <<db, opts, reads, pc, cached, todo, at, pending, changed, anyNew,
                        parsed, before, answered>>
         /\ quiet' = {} /\ wasBinary \subseteq wasBinary'
         /\ \E c \in Texts \cup {Binary, Gone} :
              /\ Seen(f, c)
              /\ disk'[f].content = c /\ (c = Binary => f \in wasBinary')
              /\ \A g \in Files \ {f} : disk'[g] = disk[g]
<1> USE DEF TypeOK, TreeType
<1>1. CASE Delete(f)  BY <1>1, DataAssumption DEF Delete
<1>2. ASSUME NEW c \in Texts \cup {Binary}, Write(f, c)
      PROVE  /\ quiet' = {} /\ wasBinary \subseteq wasBinary'
             /\ Seen(f, c)
             /\ disk'[f].content = c /\ (c = Binary => f \in wasBinary')
             /\ \A g \in Files \ {f} : disk'[g] = disk[g]
  BY <1>2 DEF Write
<1>3. ASSUME NEW c \in Texts \cup {Binary}, Write(f, c)
      PROVE  UNCHANGED <<db, opts, reads, pc, cached, todo, at, pending, changed, anyNew,
                         parsed, before, answered>>
  BY <1>3 DEF Write
<1> QED  BY <1>1, <1>2, <1>3 DEF Edit

(* The lock is taken and given back with the phases. *)
LEMMA LockStep ==
  ASSUME TypeOK, LockHeld, [Next]_vars
  PROVE  LockHeld'
<1>1. ASSUME NEW f \in Files, Edit(f)  PROVE LockHeld'
  BY <1>1, EditAside DEF LockHeld, Recording, db
<1>2. CASE UNCHANGED vars  BY <1>2 DEF vars, db, LockHeld, Recording
<1>3. ASSUME NEW r \in Runs, Turn(r)  PROVE LockHeld'
  <2>1. \A q \in Runs \ {r} : pc'[q] = pc[q]  BY <1>3, OtherRun DEF Aside
  <2>2. \/ lock = None /\ lock' = r /\ pc'[r] = "main"
        \/ lock = r /\ lock' = None /\ pc'[r] \notin {"main", "repair"}
        \/ lock # r /\ lock' = lock /\ pc'[r] \notin {"main", "repair"}
        \/ lock = r /\ lock' = r /\ pc'[r] \in {"main", "repair"}
    <3> USE DEF LockHeld, Recording, TypeOK, RunType
    <3>1. CASE Stop(r)  BY <3>1 DEF Stop
    <3>2. ASSUME NEW m \in Modes, NEW k \in Configs, NEW named \in SUBSET Files, Start(r, m, k, named)
          PROVE  lock # r /\ lock' = lock /\ pc'[r] \notin {"main", "repair"}
      BY <3>2 DEF Start, Running, db
    <3>3. CASE LoadCache(r)  BY <3>3 DEF LoadCache, db
    <3>4. CASE Begin(r)  BY <3>4 DEF Begin
    <3>5. CASE StartRepair(r)  BY <3>5 DEF StartRepair, db
    <3>6. CASE Commit(r)  BY <3>6 DEF Commit
    <3>7. CASE RunRules(r)  BY <3>7, DataAssumption DEF RunRules
    <3>8. ASSUME NEW f \in Files, Visit(r, f), ~Stop(r)
          PROVE  lock = r /\ lock' = r /\ pc'[r] \in {"main", "repair"}
      BY <3>8 DEF Visit, SkipByStat, ServeByStat, TakeStat, ReadBinary, ReadChanged, ReadUnchanged,
         Record, RepairParsed, RepairStat, RepairRead, ReadFails, Visiting, Reading, db
    <3> QED  BY <1>3, <3>1, <3>2, <3>3, <3>4, <3>5, <3>6, <3>7, <3>8 DEF Turn, Step
  <2> QED  BY <2>1, <2>2, DataAssumption DEF LockHeld, Recording
<1> QED  BY <1>1, <1>2, <1>3, Turns

(* While q records, nobody else touches the tables. *)
LEMMA TablesHeld ==
  ASSUME TypeOK, LockHeld, NEW q \in Runs, Recording(q), NEW r \in Runs, r # q, Turn(r)
  PROVE  UNCHANGED <<rows, work>>
<1>1. lock = q /\ ~Recording(r)  BY DEF LockHeld
<1>2. q # None  BY DataAssumption
<1>3. CASE Stop(r)  BY <1>1, <1>3 DEF Stop
<1>4. ASSUME NEW f \in Files, Visit(r, f), ~Stop(r)  PROVE FALSE
  BY <1>1, <1>4 DEF Recording, Visit, SkipByStat, ServeByStat, TakeStat, ReadBinary, ReadChanged,
     ReadUnchanged, Record, RepairParsed, RepairStat, RepairRead, ReadFails, Visiting, Reading
<1>5. ~Begin(r) /\ ~StartRepair(r) /\ ~Commit(r) /\ ~RunRules(r)
  BY <1>1, <1>2 DEF Begin, StartRepair, Commit, RunRules, Recording
<1> QED  BY <1>3, <1>4, <1>5 DEF Turn, Step, LoadCache, Start, db

-----------------------------------------------------------------------------
(* What a run sees, serves and reports. *)
LEMMA SeenStep ==
  ASSUME TypeOK, SeenTrue, [Next]_vars
  PROVE  SeenTrue'
<1> DEFINE Seeing(q) == Running(q) =>
             \A g \in Files : disk[g].content \in window[q][g] /\ got[q][g] \in window[q][g] \cup {None}
<1> SUFFICES ASSUME NEW q \in Runs  PROVE Seeing(q)'
  BY DEF SeenTrue
<1>0. Seeing(q)  BY DEF SeenTrue
<1>1. ASSUME NEW f \in Files, Edit(f)  PROVE Seeing(q)'
  <2>1. UNCHANGED <<pc, got>>  BY <1>1, EditAside DEF reads
  <2>2. PICK c : /\ Seen(f, c) /\ disk'[f].content = c
                 /\ \A g \in Files \ {f} : disk'[g] = disk[g]
    BY <1>1, EditAside
  <2>3. Running(q) => window'[q] = [window[q] EXCEPT ![f] = @ \cup {c}]
    BY <2>2 DEF Seen
  <2> QED  BY <1>0, <2>1, <2>2, <2>3 DEF Running, TypeOK, ReportType
<1>2. CASE UNCHANGED vars  BY <1>0, <1>2 DEF vars, tree, reads, hist, Running
<1>3. ASSUME NEW r \in Runs, Turn(r), r # q  PROVE Seeing(q)'
  BY <1>0, <1>3, OtherRun DEF Aside, tree, Running
<1>4. CASE Turn(q)
  <2> USE DEF TypeOK, RunType, HandType, ReportType
  <2>1. CASE Stop(q)  BY <2>1 DEF Stop, Running
  <2>2. ASSUME NEW m \in Modes, NEW k \in Configs, NEW named \in SUBSET Files, Start(q, m, k, named)
        PROVE  Seeing(q)'
    BY <2>2 DEF Start, Scratch, tree
  <2>3. CASE RunRules(q)  BY <2>3 DEF RunRules, Running
  <2>4. CASE UNCHANGED <<tree, got, window>> /\ Running(q)
    BY <1>0, <2>4 DEF tree
  <2>5. ASSUME NEW f \in Files, UNCHANGED <<tree, window>>, Running(q),
               got' = [got EXCEPT ![q][f] = disk[f].content]
        PROVE  Seeing(q)'
    BY <1>0, <2>5 DEF tree
  <2>6. LoadCache(q) \/ Begin(q) \/ StartRepair(q) \/ Commit(q) =>
          UNCHANGED <<tree, got, window>> /\ Running(q)
    BY DEF LoadCache, Begin, StartRepair, Commit, Running, reads, hist
  <2>7. ASSUME NEW f \in Files, Visit(q, f), ~Stop(q)
        PROVE  /\ UNCHANGED <<tree, window>> /\ Running(q)
               /\ UNCHANGED got \/ got' = [got EXCEPT ![q][f] = disk[f].content]
    <3>1. CASE ReadUnchanged(q, f)
      BY <3>1 DEF ReadUnchanged, Reading, Running, hist
    <3>2. CASE RepairRead(q, f)
      BY <3>2 DEF RepairRead, Running, hist
    <3> QED  BY <2>7, <3>1, <3>2 DEF Visit, SkipByStat, ServeByStat, TakeStat, ReadBinary, ReadChanged,
         Record, RepairParsed, RepairStat, ReadFails, Visiting, Reading, Running, reads, hist
  <2> QED  BY <1>4, <2>1, <2>2, <2>3, <2>4, <2>5, <2>6, <2>7 DEF Turn, Step
<1> QED  BY <1>1, <1>2, <1>3, <1>4, Turns

LEMMA CachedStep ==
  ASSUME TypeOK, CachedTrue, [Next]_vars
  PROVE  CachedTrue'
<1> DEFINE Whole(q) == \A g \in Files, x \in Rules : cached[q][g].byRule[x] \in {None, cached[q][g].key}
<1> SUFFICES ASSUME NEW q \in Runs  PROVE Whole(q)'
  BY DEF CachedTrue
<1>0. Whole(q)  BY DEF CachedTrue
<1>1. CASE cached'[q] = cached[q]  BY <1>0, <1>1
<1>2. CASE cached'[q] = [f \in Files |-> NoCached]  BY <1>2 DEF NoCached, NoFindings
<1>3. CASE LoadCache(q)
  <2>1. PICK first \in [Files -> Rules] :
          cached' = [cached EXCEPT ![q] =
            [f \in Files |-> IF ReportAll(q) THEN Grouped(f, first[f]) ELSE NoCached]]
    BY <1>3 DEF LoadCache
  <2>2. \A f \in Files : cached'[q][f] \in {Grouped(f, first[f]), NoCached}
    BY <2>1 DEF TypeOK, HandType
  <2>3. ASSUME NEW f \in Files, NEW x \in Rules
        PROVE  /\ Grouped(f, first[f]).byRule[x] \in {None, Grouped(f, first[f]).key}
               /\ NoCached.byRule[x] = None
    BY DEF Grouped, NoCached, NoFindings
  <2> QED  BY <2>2, <2>3
<1>4. ASSUME NEW r \in Runs, Turn(r), r # q  PROVE cached'[q] = cached[q]
  BY <1>4, OtherRun DEF Aside
<1>5. ASSUME Turn(q)
      PROVE  cached'[q] = cached[q] \/ cached'[q] = [f \in Files |-> NoCached] \/ LoadCache(q)
  <2>1. cached \in [Runs -> [Files -> [key : Found \cup {None}, byRule : [Rules -> Found \cup {None}]]]]
    BY DEF TypeOK, HandType
  <2>2. CASE Scratch(q)  BY <2>1, <2>2 DEF Scratch
  <2>3. CASE Stop(q) \/ RunRules(q)  BY <2>2, <2>3 DEF Stop, RunRules
  <2>4. CASE \E m \in Modes, k \in Configs, named \in SUBSET Files : Start(q, m, k, named)
    BY <2>2, <2>4 DEF Start
  <2>5. CASE Begin(q) \/ StartRepair(q) \/ Commit(q)
    BY <2>5 DEF Begin, StartRepair, Commit
  <2>6. ASSUME NEW f \in Files, Visit(q, f)  PROVE cached'[q] = cached[q] \/ Stop(q)
    BY <2>6 DEF Visit, SkipByStat, ServeByStat, TakeStat, ReadBinary, ReadChanged, ReadUnchanged,
       Record, RepairParsed, RepairStat, RepairRead, ReadFails
  <2> QED  BY <1>5, <2>3, <2>4, <2>5, <2>6 DEF Turn, Step
<1>6. ASSUME UNCHANGED vars \/ \E f \in Files : Edit(f)  PROVE cached'[q] = cached[q]
  BY <1>6, EditAside DEF vars
<1> QED  BY <1>1, <1>2, <1>3, <1>4, <1>5, <1>6, Turns

(* What the cache serves of a text is the findings of that text. *)
LEMMA ServesTrue ==
  ASSUME TypeOK, CachedTrue, NEW r \in Runs, NEW f \in Files, NEW t, Serves(r, f, t)
  PROVE  /\ \A x \in Rules : Served(r, f)[x] # None =>
              Served(r, f)[x].hash = t /\ Served(r, f)[x].config = config[r]
         /\ \A x \in EnabledBy[config[r]] : Served(r, f)[x] # None
<1>1. EnabledBy[config[r]] \subseteq Rules  BY DataAssumption DEF TypeOK, RunType
<1>2. \A x \in Rules : cached[r][f].byRule[x] \in {None, [hash |-> t, config |-> config[r]]}
  BY DEF CachedTrue, Serves
<1> QED  BY <1>1, <1>2 DEF Serves, Served

(* A stat that answers for a file says that the row is of what is there. *)
LEMMA TrustedTrue ==
  ASSUME TypeOK, StampsSound, NEW r \in Runs, NEW f \in Files, NEW s \in StatAnswers(f),
         Trusted(r, f, s)
  PROVE  work[f] # None /\ work[f].hash = disk[f].content /\ work[f].stat = disk[f].stat
BY DEF Trusted, UnchangedByStat, StatAnswers, StampsSound, TableSound, Vouches

(* What a visit adds to the report. *)
LEMMA VisitAnswers ==
  ASSUME IInv, NEW r \in Runs, NEW f \in Files, Visit(r, f), ~Stop(r)
  PROVE  /\ UNCHANGED <<tree, mode, config, scope, cand, window, quiet>> /\ Running(r)
         /\ \/ UNCHANGED answered
            \/ /\ answered' = [answered EXCEPT ![r][f] = Served(r, f)]
               /\ Serves(r, f, disk[f].content)
<1> USE DEF opts, hist
<1>1. CASE ServeByStat(r, f)
  <2>1. PICK s \in StatAnswers(f) : Trusted(r, f, s)  BY <1>1 DEF ServeByStat
  <2>2. work[f].hash = disk[f].content  BY <2>1, TrustedTrue DEF IInv
  <2> QED  BY <1>1, <2>2 DEF ServeByStat, Visiting, Running
<1>2. CASE ReadUnchanged(r, f)
  BY <1>2 DEF ReadUnchanged, Reading, Running
<1> QED  BY <1>1, <1>2 DEF Visit, SkipByStat, TakeStat, ReadBinary, ReadChanged,
     Record, RepairParsed, RepairStat, RepairRead, ReadFails, Visiting, Reading, Running

LEMMA AnsweredStep ==
  ASSUME IInv, SeenTrue, CachedTrue, AnsweredTrue, [Next]_vars
  PROVE  AnsweredTrue'
<1> USE DEF IInv, TypeOK
<1> DEFINE Answer(q) == \A g \in Files, x \in Rules : answered[q][g][x] # None =>
             answered[q][g][x].hash \in window[q][g] /\ answered[q][g][x].config = config[q]
<1> SUFFICES ASSUME NEW q \in Runs  PROVE Answer(q)'
  BY DEF AnsweredTrue
<1>0. Answer(q)  BY DEF AnsweredTrue
<1>1. ASSUME NEW f \in Files, Edit(f)  PROVE Answer(q)'
  <2>1. answered' = answered /\ config' = config  BY <1>1, EditAside DEF opts
  <2>2. PICK c : Seen(f, c)  BY <1>1, EditAside
  <2>3. \A g \in Files : window[q][g] \subseteq window'[q][g]
    BY <2>2 DEF Seen, ReportType
  <2> QED  BY <1>0, <2>1, <2>3
<1>2. CASE answered'[q] = answered[q] /\ config'[q] = config[q] /\ window'[q] = window[q]
  BY <1>0, <1>2
<1>3. ASSUME NEW r \in Runs, Turn(r), r # q  PROVE Answer(q)'
  BY <1>2, <1>3, OtherRun DEF Aside
<1>4. CASE answered'[q] = [f \in Files |-> NoFindings]
  BY <1>4 DEF NoFindings
<1>5. CASE Stop(q)  BY <1>4, <1>5 DEF Stop, ReportType
<1>6. ASSUME NEW m \in Modes, NEW k \in Configs, NEW named \in SUBSET Files, Start(q, m, k, named)
      PROVE  Answer(q)'
  BY <1>4, <1>6 DEF Start, ReportType
<1>7. CASE Commit(q)
  <2>1. config' = config /\ window' = window  BY <1>7 DEF Commit, opts, hist
  <2>2. \A g \in Files : answered'[q][g] \in {NoFindings, answered[q][g]}
    BY <1>7 DEF Commit, ReportType
  <2> QED  BY <1>0, <2>1, <2>2 DEF NoFindings
<1>8. CASE RunRules(q)
  <2>1. config' = config /\ window' = window /\ Running(q)
    BY <1>8 DEF RunRules, opts, hist, Running
  <2>2. \A g \in Files : answered'[q][g] = IF g \in parsed[q] THEN Fresh(q, g) ELSE answered[q][g]
    BY <1>8 DEF RunRules, ReportType
  <2>3. \A g \in parsed[q] : g \in Files /\ got[q][g] \in window[q][g]
    BY <2>1 DEF InHand, SeenTrue, SetsType
  <2>4. ASSUME NEW g \in parsed[q], NEW x \in Rules, Fresh(q, g)[x] # None
        PROVE  Fresh(q, g)[x].hash = got[q][g] /\ Fresh(q, g)[x].config = config[q]
    BY <2>4 DEF Fresh
  <2> QED  BY <1>0, <2>1, <2>2, <2>3, <2>4
<1>9. CASE LoadCache(q) \/ Begin(q) \/ StartRepair(q)
  BY <1>2, <1>9 DEF LoadCache, Begin, StartRepair, opts, hist
<1>10. ASSUME NEW f \in Files, Visit(q, f), ~Stop(q)  PROVE Answer(q)'
  <2>1. /\ UNCHANGED <<disk, config, window>> /\ Running(q)
        /\ \/ UNCHANGED answered
           \/ /\ answered' = [answered EXCEPT ![q][f] = Served(q, f)]
              /\ Serves(q, f, disk[f].content)
    BY <1>10, VisitAnswers DEF tree
  <2>2. CASE UNCHANGED answered  BY <1>2, <2>1, <2>2
  <2>3. CASE answered' = [answered EXCEPT ![q][f] = Served(q, f)] /\ Serves(q, f, disk[f].content)
    <3>1. \A x \in Rules : Served(q, f)[x] # None =>
            Served(q, f)[x].hash = disk[f].content /\ Served(q, f)[x].config = config[q]
      BY <2>3, ServesTrue
    <3>2. answered'[q][f] = Served(q, f) /\ \A g \in Files \ {f} : answered'[q][g] = answered[q][g]
      BY <2>3 DEF ReportType
    <3>3. disk[f].content \in window[q][f]  BY <2>1 DEF SeenTrue
    <3> QED  BY <1>0, <2>1, <3>1, <3>2, <3>3
  <2> QED  BY <2>1, <2>2, <2>3
<1>11. CASE Turn(q)
  BY <1>5, <1>6, <1>7, <1>8, <1>9, <1>10, <1>11 DEF Turn, Step
<1>12. CASE UNCHANGED vars  BY <1>2, <1>12 DEF vars, opts, hist
<1> QED  BY <1>1, <1>3, <1>11, <1>12, Turns

(* No candidate of a whole-repository run goes without an answer. *)
LEMMA CoveredStep ==
  ASSUME IInv, SeenTrue, CachedTrue, Covered, [Next]_vars
  PROVE  Covered'
<1> USE DEF IInv, TypeOK
<1> DEFINE Cover(q) == ReportAll(q) => \A g \in cand[q] :
             /\ pc[q] = "main" => g \in todo[q] \cup pending[q] \cup parsed[q] \/ Answers(q, g)
             /\ pc[q] \in {"repair", "rules"} => g \in parsed[q] \/ Answers(q, g)
             /\ pc[q] = "done" => Answers(q, g)
<1> SUFFICES ASSUME NEW q \in Runs  PROVE Cover(q)'
  BY DEF Covered
<1>0. Cover(q) /\ cand[q] \subseteq Files  BY DEF Covered, RunType
<1>1. ASSUME NEW f \in Files, Edit(f)  PROVE Cover(q)'
  <2>1. UNCHANGED <<answered, config, cand, mode, pc, todo, pending, parsed>>
    BY <1>1, EditAside DEF opts
  <2>2. PICK c : Seen(f, c)  BY <1>1, EditAside
  <2>3. \A g \in Files : window[q][g] \subseteq window'[q][g]
    BY <2>2 DEF Seen, ReportType
  <2>4. \A g \in cand[q] : Answers(q, g) => Answers(q, g)'
    BY <1>0, <2>1, <2>3 DEF Answers
  <2> QED  BY <1>0, <2>1, <2>4 DEF ReportAll
<1>2. CASE /\ pc'[q] = pc[q] /\ cand'[q] = cand[q] /\ mode'[q] = mode[q]
           /\ todo'[q] = todo[q] /\ pending'[q] = pending[q] /\ parsed'[q] = parsed[q]
           /\ answered'[q] = answered[q] /\ config'[q] = config[q] /\ window'[q] = window[q]
  BY <1>0, <1>2 DEF Answers, ReportAll
<1>3. ASSUME NEW r \in Runs, Turn(r), r # q  PROVE Cover(q)'
  BY <1>2, <1>3, OtherRun DEF Aside
<1>4. CASE pc'[q] \in {"idle", "walked", "loaded"}  BY <1>4
<1>5. CASE Stop(q)  BY <1>4, <1>5 DEF Stop, RunType
<1>6. ASSUME NEW m \in Modes, NEW k \in Configs, NEW named \in SUBSET Files, Start(q, m, k, named)
      PROVE  Cover(q)'
  BY <1>4, <1>6 DEF Start, RunType
<1>7. CASE LoadCache(q)  BY <1>4, <1>7 DEF LoadCache, RunType
<1>8. CASE Begin(q)
  BY <1>8 DEF Begin, RunType, HandType, opts
<1>9. CASE StartRepair(q)
  <2>1. /\ UNCHANGED <<cand, mode, config, window, answered, parsed>>
        /\ pc[q] = "main" /\ todo[q] = {} /\ pending[q] = {} /\ pc'[q] = "repair"
    BY <1>9 DEF StartRepair, RunType, opts, hist
  <2> QED  BY <1>0, <2>1 DEF Answers, ReportAll
<1>10. CASE Commit(q)
  <2>1. /\ UNCHANGED <<cand, mode, config, window, parsed>>
        /\ pc[q] = "repair" /\ pc'[q] = "rules"
    BY <1>10 DEF Commit, RunType, opts, hist
  <2>2. \A g \in Files : g \notin parsed[q] => answered'[q][g] = answered[q][g]
    BY <1>10 DEF Commit, ReportType
  <2> QED  BY <1>0, <2>1, <2>2 DEF Answers, ReportAll
<1>11. CASE RunRules(q)
  <2>1. /\ UNCHANGED <<cand, mode, config, window>>
        /\ pc[q] = "rules" /\ pc'[q] = "done"
    BY <1>11 DEF RunRules, RunType, opts, hist
  <2>2. \A g \in Files : answered'[q][g] = IF g \in parsed[q] THEN Fresh(q, g) ELSE answered[q][g]
    BY <1>11 DEF RunRules, ReportType
  <2>3. ASSUME NEW g \in parsed[q], NEW x \in EnabledBy[config[q]]  PROVE Fresh(q, g)[x] # None
    <3>1. x \in Rules  BY DataAssumption DEF RunType
    <3>2. g \in Files /\ got[q][g] \in Texts /\ config[q] \in Configs
      BY InHandText DEF RunType
    <3>3. [hash |-> got[q][g], config |-> config[q]] \in Found  BY <3>2 DEF Found
    <3> QED  BY <3>1, <3>3, NoneAssumption DEF Fresh
  <2> QED  BY <1>0, <2>1, <2>2, <2>3 DEF Answers, ReportAll
<1>12. ASSUME NEW f \in Files, Visit(q, f), ~Stop(q)  PROVE Cover(q)'
  <2>1. /\ UNCHANGED <<tree, mode, config, cand, window>> /\ Running(q)
        /\ \/ UNCHANGED answered
           \/ /\ answered' = [answered EXCEPT ![q][f] = Served(q, f)]
              /\ Serves(q, f, disk[f].content)
    BY <1>12, VisitAnswers
  <2>2. ASSUME NEW g \in cand[q], Answers(q, g)  PROVE Answers(q, g)'
    <3>1. CASE UNCHANGED answered  BY <2>1, <2>2, <3>1 DEF Answers
    <3>2. CASE answered' = [answered EXCEPT ![q][f] = Served(q, f)] /\ Serves(q, f, disk[f].content)
      <4>1. \A x \in EnabledBy[config[q]] : Served(q, f)[x] # None  BY <3>2, ServesTrue
      <4>2. answered'[q][g] = IF g = f THEN Served(q, f) ELSE answered[q][g]
        BY <1>0, <3>2 DEF ReportType
      <4> QED  BY <2>1, <2>2, <4>1, <4>2 DEF Answers
    <3> QED  BY <2>1, <3>1, <3>2
  <2>3. CASE /\ todo'[q] = todo[q] \ {f} /\ UNCHANGED <<parsed, pc>> /\ pc[q] = "main"
             /\ pending'[q] = pending[q] \/ pending'[q] = pending[q] \cup {f}
             /\ ReportAll(q) /\ f \in cand[q] => f \in pending'[q] \/ Answers(q, f)'
    BY <1>0, <2>1, <2>2, <2>3 DEF ReportAll
  <2>4. CASE SkipByStat(q, f)  BY <2>3, <2>4 DEF SkipByStat, Visiting, Leave, HandType
  <2>5. CASE ServeByStat(q, f) \/ ReadUnchanged(q, f)
    <3>1. ReportAll(q) => f \in pending'[q] \/ answered' = [answered EXCEPT ![q][f] = Served(q, f)]
      <4>1. CASE ServeByStat(q, f)  BY <4>1 DEF ServeByStat
      <4>2. CASE ReadUnchanged(q, f)  BY <4>2 DEF ReadUnchanged, SetsType
      <4> QED  BY <2>5, <4>1, <4>2
    <3>2. ReportAll(q) /\ f \notin pending'[q] => \A x \in EnabledBy[config[q]] : answered'[q][f][x] # None
      <4>1. ReportAll(q) /\ f \notin pending'[q] =>
              answered'[q][f] = Served(q, f) /\ (Serves(q, f, disk[f].content) \/ answered' = answered)
        BY <2>1, <3>1 DEF ReportType
      <4>2. ReportAll(q) /\ f \notin pending'[q] => Serves(q, f, disk[f].content)
        <5>1. CASE ServeByStat(q, f)
          <6>1. work[f].hash = disk[f].content  BY <5>1, TrustedTrue DEF ServeByStat
          <6> QED  BY <5>1, <6>1 DEF ServeByStat
        <5>2. CASE ReadUnchanged(q, f)  BY <5>2 DEF ReadUnchanged, SetsType
        <5> QED  BY <2>5, <5>1, <5>2
      <4> QED  BY <4>1, <4>2, ServesTrue
    <3>3. /\ todo'[q] = todo[q] \ {f} /\ UNCHANGED <<parsed, pc>> /\ pc[q] = "main"
          /\ pending'[q] = pending[q] \/ pending'[q] = pending[q] \cup {f}
      <4>1. CASE ServeByStat(q, f)  BY <4>1 DEF ServeByStat, Visiting, Leave, HandType
      <4>2. CASE ReadUnchanged(q, f)  BY <4>2 DEF ReadUnchanged, Reading, Close, Leave, HandType, SetsType
      <4> QED  BY <2>5, <4>1, <4>2
    <3>4. ReportAll(q) => f \in pending'[q] \/ Answers(q, f)'  BY <2>1, <3>2 DEF Answers
    <3> QED  BY <2>3, <3>3, <3>4
  <2>6. CASE ReadBinary(q, f)
    <3>1. Answers(q, f)'  BY <2>1, <2>6 DEF ReadBinary, Answers, SeenTrue
    <3> QED  BY <2>3, <2>6, <3>1 DEF ReadBinary, Reading, Close, Leave, HandType
  <2>7. CASE ReadChanged(q, f)
    BY <2>3, <2>7 DEF ReadChanged, Reading, Close, Leave, HandType, SetsType
  <2>8. CASE TakeStat(q, f) \/ RepairStat(q, f) \/ RepairParsed(q, f)
    <3>1. UNCHANGED <<pending, parsed, pc>> /\ (pc[q] = "main" => UNCHANGED todo)
      BY <2>8 DEF TakeStat, RepairStat, RepairParsed
    <3> QED  BY <1>0, <2>1, <2>2, <3>1 DEF ReportAll
  <2>9. CASE Record(q, f) \/ RepairRead(q, f)
    <3>1. /\ UNCHANGED pc /\ parsed[q] \subseteq parsed'[q] /\ (pc[q] = "main" => UNCHANGED todo)
          /\ pending[q] \subseteq pending'[q] \cup parsed'[q]
      <4>1. CASE Record(q, f)  BY <4>1 DEF Record, SetsType
      <4>2. CASE RepairRead(q, f)  BY <4>2 DEF RepairRead, SetsType
      <4> QED  BY <2>9, <4>1, <4>2
    <3> QED  BY <1>0, <2>1, <2>2, <3>1 DEF ReportAll
  <2> QED  BY <1>12, <2>4, <2>5, <2>6, <2>7, <2>8, <2>9 DEF Visit, ReadFails
<1>13. CASE Turn(q)
  BY <1>5, <1>6, <1>7, <1>8, <1>9, <1>10, <1>11, <1>12, <1>13 DEF Turn, Step
<1>14. CASE UNCHANGED vars  BY <1>2, <1>14 DEF vars, opts, hist
<1> QED  BY <1>1, <1>3, <1>13, <1>14, Turns

-----------------------------------------------------------------------------
(* What a visit does to the transaction: f alone is touched, recorded, or  *)
(* left as it was.                                                         *)
Touched(r, f) ==
  /\ ReadUnchanged(r, f)
  /\ work[f] # None /\ work'[f] # None
  /\ work'[f].hash = work[f].hash /\ work'[f].edges = work[f].edges
  /\ work'[f].stat = stat[r][f]

RecordedNow(r, f) ==
  /\ Record(r, f) \/ RepairParsed(r, f) \/ RepairRead(r, f)
  /\ got'[r][f] \in Texts
  /\ work'[f] # None /\ work'[f] = Recorded(r, f, got'[r][f], stat[r][f])

(* An unchanged text has the stat in hand stored, if there was an answer. *)
LEMMA RefreshStores ==
  ASSUME TypeOK, NEW r \in Runs, NEW f \in Files, ReadUnchanged(r, f)
  PROVE  Touched(r, f) \/ (stat[r][f] = 0 /\ work'[f] = work[f])
<1> USE DEF TypeOK
<1>1. work' = Refreshed(f, stat[r][f])  BY DEF ReadUnchanged, StatToStore
<1>2. work[f] # None /\ work[f] \in Row  BY DEF ReadUnchanged, NewText, TablesType
<1>3. CASE stat[r][f] = 0  BY <1>1, <1>3 DEF Refreshed
<1>4. CASE stat[r][f] # 0
  <2>1. work' = [work EXCEPT ![f] = [work[f] EXCEPT !.stat = stat[r][f]]]
    BY <1>1, <1>2, <1>4 DEF Refreshed
  <2>2. stat[r][f] \in Nat  BY DEF HandType
  <2>3. [work[f] EXCEPT !.stat = stat[r][f]] \in Row  BY <1>2, <2>2 DEF Row
  <2>4. work'[f] = [work[f] EXCEPT !.stat = stat[r][f]]  BY <2>1 DEF TablesType
  <2> QED  BY <1>2, <2>3, <2>4, NoneAssumption DEF Touched, Row
<1> QED  BY <1>3, <1>4

(* A text in hand or just read is recorded, unless the row is of it. *)
LEMMA RecordStores ==
  ASSUME IInv, NEW r \in Runs, NEW f \in Files
  PROVE  /\ Record(r, f) => RecordedNow(r, f) \/ (~NewText(f, got[r][f]) /\ UNCHANGED work)
         /\ RepairParsed(r, f) => RecordedNow(r, f)
         /\ RepairRead(r, f) =>
              RecordedNow(r, f) \/ (disk[f].content \notin Texts /\ UNCHANGED <<work, got>>)
<1> USE DEF IInv, TypeOK
<1>1. ASSUME Record(r, f) \/ RepairParsed(r, f) \/ RepairRead(r, f),
             got'[r][f] \in Texts,
             work' = [work EXCEPT ![f] = Recorded(r, f, got'[r][f], stat[r][f])]
      PROVE  RecordedNow(r, f)
  <2>1. Recorded(r, f, got'[r][f], stat[r][f]) \in Row
    BY <1>1, RecordedType DEF HandType
  <2>2. work'[f] = Recorded(r, f, got'[r][f], stat[r][f])  BY <1>1 DEF TablesType
  <2> QED  BY <1>1, <2>1, <2>2, NoneAssumption DEF RecordedNow
<1>2. ASSUME Record(r, f)
      PROVE  RecordedNow(r, f) \/ (~NewText(f, got[r][f]) /\ UNCHANGED work)
  <2>1. got'[r][f] = got[r][f] /\ got[r][f] \in Texts
    BY <1>2, InHandText DEF Record, reads
  <2>2. \/ ~NewText(f, got[r][f]) /\ UNCHANGED work
        \/ work' = [work EXCEPT ![f] = Recorded(r, f, got[r][f], stat[r][f])]
    BY <1>2 DEF Record, StatToStore
  <2> QED  BY <1>1, <1>2, <2>1, <2>2
<1>3. ASSUME RepairParsed(r, f)  PROVE RecordedNow(r, f)
  <2>1. got'[r][f] = got[r][f] /\ got[r][f] \in Texts
    BY <1>3, InHandText DEF RepairParsed, reads
  <2>2. work' = [work EXCEPT ![f] = Recorded(r, f, got[r][f], stat[r][f])]
    BY <1>3 DEF RepairParsed, StatToStore
  <2> QED  BY <1>1, <1>3, <2>1, <2>2
<1>4. ASSUME RepairRead(r, f), disk[f].content \in Texts  PROVE RecordedNow(r, f)
  <2>1. got'[r][f] = disk[f].content  BY <1>4 DEF RepairRead, HandType
  <2>2. work' = [work EXCEPT ![f] = Recorded(r, f, disk[f].content, stat[r][f])]
    BY <1>4 DEF RepairRead, StatToStore
  <2> QED  BY <1>1, <1>4, <2>1, <2>2
<1>5. RepairRead(r, f) /\ disk[f].content \notin Texts => UNCHANGED <<work, got>>
  BY DEF RepairRead
<1> QED  BY <1>2, <1>3, <1>4, <1>5

LEMMA VisitWork ==
  ASSUME IInv, NEW r \in Runs, NEW f \in Files, Visit(r, f), ~Stop(r)
  PROVE  /\ UNCHANGED rows /\ \A g \in Files \ {f} : work'[g] = work[g]
         /\ work'[f] = work[f] \/ Touched(r, f) \/ RecordedNow(r, f)
<1> USE DEF IInv, TypeOK, TablesType
<1>1. CASE ReadUnchanged(r, f)
  <2>1. UNCHANGED rows /\ (\A g \in Files \ {f} : work'[g] = work[g])
    BY <1>1 DEF ReadUnchanged, Refreshed
  <2> QED  BY <1>1, <2>1, RefreshStores
<1>2. CASE Record(r, f) \/ RepairParsed(r, f) \/ RepairRead(r, f)
  <2>1. UNCHANGED rows /\ (\A g \in Files \ {f} : work'[g] = work[g])
    <3>1. CASE Record(r, f)  BY <3>1 DEF Record
    <3>2. CASE RepairParsed(r, f)  BY <3>2 DEF RepairParsed
    <3>3. CASE RepairRead(r, f)  BY <3>3 DEF RepairRead
    <3> QED  BY <1>2, <3>1, <3>2, <3>3
  <2> QED  BY <1>2, <2>1, RecordStores
<1> QED  BY <1>1, <1>2 DEF Visit, SkipByStat, ServeByStat, TakeStat, ReadBinary,
     ReadChanged, RepairStat, ReadFails, db

(* What a visit does to the stats and texts in hand. *)
LEMMA VisitHand ==
  ASSUME IInv, NEW r \in Runs, NEW f \in Files, Visit(r, f), ~Stop(r)
  PROVE  /\ \A g \in Files \ {f} : stat'[r][g] = stat[r][g] /\ got'[r][g] = got[r][g]
         /\ stat'[r][f] \in {stat[r][f], disk[f].stat, 0}
         /\ got'[r][f] \in {got[r][f], disk[f].content}
<1> USE DEF IInv, TypeOK, HandType
<1>1. CASE TakeStat(r, f)  BY <1>1 DEF TakeStat, StatAnswers
<1>2. CASE RepairStat(r, f)  BY <1>2 DEF RepairStat, StatAnswers
<1>3. CASE ReadChanged(r, f)  BY <1>3 DEF ReadChanged
<1>4. CASE ReadUnchanged(r, f)
  <2>1. UNCHANGED stat /\ (UNCHANGED got \/ got' = [got EXCEPT ![r][f] = disk[f].content])
    BY <1>4 DEF ReadUnchanged
  <2> QED  BY <2>1
<1>5. CASE RepairRead(r, f)
  <2>1. UNCHANGED stat /\ (UNCHANGED got \/ got' = [got EXCEPT ![r][f] = disk[f].content])
    BY <1>5 DEF RepairRead
  <2> QED  BY <2>1
<1> QED  BY <1>1, <1>2, <1>3, <1>4, <1>5 DEF Visit, SkipByStat, ServeByStat, ReadBinary,
     Record, RepairParsed, ReadFails, reads

LEMMA WithinStep ==
  ASSUME IInv, LockHeld, Within, [Next]_vars
  PROVE  Within'
<1> USE DEF IInv, TypeOK
<1> DEFINE In(q) ==
      /\ pc[q] = "main" => todo[q] \cup pending[q] \cup parsed[q] \subseteq cand[q]
      /\ pc[q] = "repair" => todo[q] \subseteq cand[q] /\ \A f \in todo[q] : work[f] # None
<1> SUFFICES ASSUME NEW q \in Runs  PROVE In(q)'
  BY DEF Within
<1>0. In(q)  BY DEF Within
<1>1. CASE /\ pc'[q] = pc[q] /\ todo'[q] = todo[q] /\ pending'[q] = pending[q]
           /\ parsed'[q] = parsed[q] /\ cand'[q] = cand[q]
           /\ Recording(q) => work' = work
  BY <1>0, <1>1 DEF Recording
<1>2. ASSUME NEW r \in Runs, Turn(r), r # q  PROVE In(q)'
  BY <1>1, <1>2, OtherRun, TablesHeld DEF Aside
<1>3. CASE UNCHANGED vars \/ \E f \in Files : Edit(f)
  <2>1. UNCHANGED <<pc, todo, pending, parsed, cand, work>>
    BY <1>3, EditAside DEF vars, db, opts
  <2> QED  BY <1>1, <2>1
<1>4. CASE pc'[q] \notin {"main", "repair"}  BY <1>4
<1>5. CASE Begin(q)
  <2>1. pending[q] = {} /\ parsed[q] = {}  BY <1>5 DEF Begin, Phases, InPhase
  <2> QED  BY <1>5, <2>1 DEF Begin, opts, RunType, HandType
<1>6. CASE StartRepair(q)
  <2>1. \A f \in RepairList(q) : work[f] # None  BY DEF RepairList, HasUnresolved
  <2> QED  BY <1>0, <1>6, <2>1 DEF StartRepair, opts, db, RunType, HandType
<1>7. ASSUME NEW f \in Files, Visit(q, f), ~Stop(q)  PROVE In(q)'
  <2>1. \A g \in Files : work[g] # None => work'[g] # None
    BY <1>7, VisitWork DEF Touched, RecordedNow
  <2>2. cand' = cand  BY <1>7, VisitAnswers
  <2>3. CASE pc[q] = "main"
    <3>1. /\ pc' = pc /\ todo'[q] \subseteq todo[q]
          /\ pending'[q] \subseteq pending[q] \cup todo[q]
          /\ parsed'[q] \subseteq parsed[q] \cup pending[q]
      <4>0. Reading(q, f) => f \in todo[q]
        BY DataAssumption DEF Reading, Phases, InPhase
      <4> USE DEF Leave, Close, HandType, SetsType
      <4>1. CASE ReadUnchanged(q, f)
        <5>1. UNCHANGED <<pc, parsed>> /\ todo'[q] = todo[q] \ {f} /\ Reading(q, f)
          BY <4>1 DEF ReadUnchanged
        <5>2. pending'[q] \subseteq pending[q] \cup {f}
          <6>1. UNCHANGED pending \/ pending' = [pending EXCEPT ![q] = @ \cup {f}]
            BY <4>1 DEF ReadUnchanged
          <6> QED  BY <6>1
        <5> QED  BY <4>0, <5>1, <5>2
      <4>2. CASE ReadChanged(q, f)
        <5>1. f \in todo[q]  BY <4>0, <4>2 DEF ReadChanged
        <5> QED  BY <4>2, <5>1 DEF ReadChanged
      <4>3. CASE Record(q, f)  BY <4>3 DEF Record
      <4> QED  BY <1>7, <2>3, <4>1, <4>2, <4>3 DEF Visit, SkipByStat, ServeByStat, TakeStat, ReadBinary,
           RepairParsed, RepairStat, RepairRead, ReadFails
    <3> QED  BY <1>0, <2>2, <2>3, <3>1
  <2>4. CASE pc[q] = "repair"
    <3>1. pc' = pc /\ todo'[q] \subseteq todo[q]
      BY <1>7, <2>4 DEF Visit, SkipByStat, ServeByStat, TakeStat, ReadBinary, ReadChanged, ReadUnchanged,
         Record, RepairParsed, RepairStat, RepairRead, ReadFails, Visiting, Reading, Leave, Close, HandType
    <3>2. todo[q] \subseteq Files  BY DEF HandType
    <3> QED  BY <1>0, <2>1, <2>2, <2>4, <3>1, <3>2
  <2>5. pc[q] \in {"main", "repair"}
    BY <1>7 DEF Visit, SkipByStat, ServeByStat, TakeStat, ReadBinary, ReadChanged, ReadUnchanged,
       Record, RepairParsed, RepairStat, RepairRead, ReadFails, Visiting, Reading
  <2> QED  BY <2>3, <2>4, <2>5
<1>8. ASSUME Turn(q)
      PROVE  pc'[q] \notin {"main", "repair"} \/ Begin(q) \/ StartRepair(q)
               \/ \E f \in Files : Visit(q, f) /\ ~Stop(q)
  BY <1>8 DEF Turn, Start, Stop, Step, LoadCache, Commit, RunRules, RunType
<1> QED  BY <1>2, <1>3, <1>4, <1>5, <1>6, <1>7, <1>8, Turns

LEMMA BinaryStep ==
  ASSUME TypeOK, BinaryTold, [Next]_vars
  PROVE  BinaryTold'
<1>1. ASSUME NEW f \in Files, Edit(f)  PROVE BinaryTold'
  BY <1>1, EditAside DEF BinaryTold
<1>2. ASSUME NEW r \in Runs, Turn(r)  PROVE UNCHANGED tree
  BY <1>2 DEF Turn, Start, Stop, Step, LoadCache, Begin, StartRepair, Commit, RunRules,
     Visit, SkipByStat, ServeByStat, TakeStat, ReadBinary, ReadChanged, ReadUnchanged,
     Record, RepairParsed, RepairStat, RepairRead, ReadFails
<1> QED  BY <1>1, <1>2, Turns DEF BinaryTold, tree, vars

(* A run's turn that records is its first, a repair's start, or a visit. *)
LEMMA RecordingTurns ==
  ASSUME TypeOK, NEW r \in Runs, Turn(r), Recording(r)'
  PROVE  Begin(r) \/ StartRepair(r) \/ \E f \in Files : Visit(r, f) /\ ~Stop(r)
BY DEF Turn, Start, Stop, Step, LoadCache, Commit, RunRules, Recording, TypeOK, RunType

(* In the main pass a visit takes one file out of todo, at its read or     *)
(* before, or one out of pending.                                          *)
LEMMA VisitDeals ==
  ASSUME IInv, NEW r \in Runs, NEW f \in Files, Visit(r, f), ~Stop(r)
  PROVE  /\ UNCHANGED pc /\ Recording(r)
         /\ \A g \in Files \ {f} :
              (g \in todo'[r] <=> g \in todo[r]) /\ (g \in pending'[r] <=> g \in pending[r])
         /\ Dealt(r, f)' =>
              \/ Dealt(r, f)
              \/ SkipByStat(r, f) \/ ServeByStat(r, f) \/ ReadBinary(r, f) \/ ReadUnchanged(r, f)
              \/ Record(r, f)
<1> USE DEF IInv, TypeOK, RunType, HandType, SetsType, Recording, Dealt, Leave, Close
<1>1. CASE SkipByStat(r, f)  BY <1>1 DEF SkipByStat, Visiting
<1>2. CASE ServeByStat(r, f)  BY <1>2 DEF ServeByStat, Visiting
<1>3. CASE TakeStat(r, f)  BY <1>3 DEF TakeStat, Visiting
<1>4. CASE ReadBinary(r, f)  BY <1>4 DEF ReadBinary, Reading
<1>5. CASE ReadChanged(r, f)  BY <1>5 DEF ReadChanged, Reading
<1>6. CASE ReadUnchanged(r, f)
  <2>1. UNCHANGED pc /\ pc[r] = "main" /\ todo' = [todo EXCEPT ![r] = @ \ {f}]
    BY <1>6 DEF ReadUnchanged, Reading
  <2>2. UNCHANGED pending \/ pending' = [pending EXCEPT ![r] = @ \cup {f}]
    BY <1>6 DEF ReadUnchanged
  <2> QED  BY <1>6, <2>1, <2>2
<1>7. CASE Record(r, f)  BY <1>7 DEF Record
<1>8. CASE RepairParsed(r, f)  BY <1>8 DEF RepairParsed
<1>9. CASE RepairStat(r, f)  BY <1>9 DEF RepairStat
<1>10. CASE RepairRead(r, f)  BY <1>10 DEF RepairRead
<1> QED  BY <1>1, <1>2, <1>3, <1>4, <1>5, <1>6, <1>7, <1>8, <1>9, <1>10 DEF Visit, ReadFails

(* Every candidate gets a row, or was binary. *)
LEMMA PresentStep ==
  ASSUME IInv, LockHeld, BinaryTold, Present, [Next]_vars
  PROVE  Present'
<1> USE DEF IInv, TypeOK
<1> DEFINE There(q) == \A g \in cand[q] : Dealt(q, g) => work[g] # None \/ g \in wasBinary
<1> SUFFICES ASSUME NEW q \in Runs  PROVE There(q)'
  BY DEF Present
<1>0. There(q) /\ cand[q] \subseteq Files  BY DEF Present, RunType
<1>1. CASE /\ pc'[q] = pc[q] /\ todo'[q] = todo[q] /\ pending'[q] = pending[q] /\ cand'[q] = cand[q]
           /\ Recording(q) => work' = work
           /\ wasBinary \subseteq wasBinary'
  BY <1>0, <1>1 DEF Recording, Dealt
<1>2. ASSUME NEW r \in Runs, Turn(r), r # q  PROVE There(q)'
  BY <1>1, <1>2, OtherRun, TablesHeld DEF Aside, tree
<1>3. CASE UNCHANGED vars \/ \E f \in Files : Edit(f)
  <2>1. UNCHANGED <<pc, todo, pending, cand, work>> /\ wasBinary \subseteq wasBinary'
    BY <1>3, EditAside DEF vars, db, opts, tree
  <2> QED  BY <1>1, <2>1
<1>4. CASE ~Recording(q)'  BY <1>4 DEF Recording, Dealt
<1>5. CASE Begin(q)  BY <1>5 DEF Begin, opts, RunType, HandType, Dealt
<1>6. CASE StartRepair(q)
  <2>1. /\ UNCHANGED <<cand, work, wasBinary>> /\ pc[q] = "main" /\ todo[q] = {} /\ pending[q] = {}
    BY <1>6 DEF StartRepair, opts, db, tree
  <2> QED  BY <1>0, <2>1 DEF Dealt
<1>7. ASSUME NEW f \in Files, Visit(q, f), ~Stop(q)  PROVE There(q)'
  <2>1. UNCHANGED <<disk, wasBinary, cand>>  BY <1>7, VisitAnswers DEF tree
  <2>2. \A g \in Files : work[g] # None => work'[g] # None
    BY <1>7, VisitWork DEF Touched, RecordedNow
  <2>3. \A g \in Files \ {f} : Dealt(q, g)' => Dealt(q, g)
    BY <1>7, VisitDeals DEF Dealt
  <2>4. Dealt(q, f)' => Dealt(q, f) \/ work'[f] # None \/ f \in wasBinary
    <3>1. CASE SkipByStat(q, f) \/ ServeByStat(q, f)
      <4>1. PICK s \in StatAnswers(f) : Trusted(q, f, s)  BY <3>1 DEF SkipByStat, ServeByStat
      <4> QED  BY <2>2, <4>1, TrustedTrue
    <3>2. CASE ReadBinary(q, f)  BY <3>2 DEF ReadBinary, BinaryTold
    <3>3. CASE ReadUnchanged(q, f)
      <4>1. work[f] # None  BY <3>3 DEF ReadUnchanged, NewText
      <4> QED  BY <2>2, <4>1
    <3>4. CASE Record(q, f)
      <4>1. work[f] # None \/ work'[f] # None
        BY <3>4, RecordStores DEF RecordedNow, NewText
      <4> QED  BY <2>2, <4>1
    <3> QED  BY <1>7, <3>1, <3>2, <3>3, <3>4, VisitDeals
  <2> QED  BY <1>0, <2>1, <2>2, <2>3, <2>4
<1> QED  BY <1>2, <1>3, <1>4, <1>5, <1>6, <1>7, Turns, RecordingTurns

(* Quiet runs: a new one has seen nothing, and no edit leaves one quiet. *)
LEMMA HandFreshStep ==
  ASSUME IInv, HandFresh, [Next]_vars
  PROVE  HandFresh'
<1> USE DEF IInv, TypeOK
<1> SUFFICES ASSUME NEW q \in quiet', NEW g \in Files
             PROVE  stat'[q][g] \in {0, disk'[g].stat} /\ got'[q][g] \in {None, disk'[g].content}
  BY DEF HandFresh
<1>0. q \in quiet => stat[q][g] \in {0, disk[g].stat} /\ got[q][g] \in {None, disk[g].content}
  BY DEF HandFresh
<1>1. \A f \in Files : ~Edit(f)  BY EditAside
<1>2. CASE UNCHANGED vars  BY <1>0, <1>2 DEF vars, tree, reads, hist
<1>3. ASSUME NEW r \in Runs, Turn(r), r # q, q \in Runs
      PROVE  stat'[q][g] \in {0, disk'[g].stat} /\ got'[q][g] \in {None, disk'[g].content}
  BY <1>0, <1>3, OtherRun DEF Aside, tree
<1>4. ASSUME Turn(q), q \in Runs
      PROVE  stat'[q][g] \in {0, disk'[g].stat} /\ got'[q][g] \in {None, disk'[g].content}
  <2>1. CASE Stop(q)  BY <2>1 DEF Stop
  <2>2. CASE stat'[q][g] = 0 /\ got'[q][g] = None  BY <2>2
  <2>3. (\E m \in Modes, k \in Configs, named \in SUBSET Files : Start(q, m, k, named)) \/ RunRules(q) =>
          stat'[q][g] = 0 /\ got'[q][g] = None
    BY <1>4 DEF Start, RunRules, Scratch, HandType
  <2>4. CASE LoadCache(q) \/ Begin(q) \/ StartRepair(q) \/ Commit(q)
    BY <1>0, <2>4 DEF LoadCache, Begin, StartRepair, Commit, tree, reads, hist
  <2>5. ASSUME NEW f \in Files, Visit(q, f), ~Stop(q)
        PROVE  stat'[q][g] \in {0, disk'[g].stat} /\ got'[q][g] \in {None, disk'[g].content}
    <3>1. UNCHANGED <<disk, quiet>>  BY <1>4, <2>5, VisitAnswers DEF tree
    <3> QED  BY <1>0, <1>4, <2>5, <3>1, VisitHand
  <2> QED  BY <1>4, <2>1, <2>2, <2>3, <2>4, <2>5 DEF Turn, Step
<1>5. q \in Runs  BY TypeStep DEF ReportType
<1> QED  BY <1>1, <1>2, <1>3, <1>4, <1>5, Turns

(* What an undisturbed run recorded, or let stand, is what is on disk. *)
LEMMA WorkFreshStep ==
  ASSUME IInv, LockHeld, HandFresh, HandFresh', WorkFresh, [Next]_vars
  PROVE  WorkFresh'
<1> USE DEF IInv, TypeOK
<1> DEFINE Good(q, g) ==
      /\ Dealt(q, g) => work[g] # None /\ work[g].hash = disk[g].content
      /\ Dealt(q, g) /\ at[q] # g => StatKept(q, g)
      /\ pc[q] = "main" /\ g \in pending[q] /\ ~NewText(g, got[q][g]) => StatKept(q, g)
<1> SUFFICES ASSUME NEW q \in quiet', NEW g \in cand'[q], disk'[g].content \in Texts
             PROVE  Good(q, g)'
  BY DEF WorkFresh
<1>0. q \in quiet /\ g \in cand[q] /\ disk[g].content \in Texts => Good(q, g)
  BY DEF WorkFresh
<1>1. \A f \in Files : ~Edit(f)  BY EditAside
<1>2. CASE /\ pc'[q] = pc[q] /\ todo'[q] = todo[q] /\ pending'[q] = pending[q]
           /\ cand'[q] = cand[q] /\ at'[q] = at[q] /\ stat'[q] = stat[q] /\ got'[q] = got[q]
           /\ Recording(q) => work' = work
           /\ disk' = disk /\ q \in quiet
  BY <1>0, <1>2 DEF Recording, Dealt, StatKept, NewText
<1>3. ASSUME NEW r \in Runs, Turn(r), r # q, q \in Runs  PROVE Good(q, g)'
  BY <1>2, <1>3, OtherRun, TablesHeld DEF Aside, tree
<1>4. CASE UNCHANGED vars
  BY <1>2, <1>4 DEF vars, tree, db, opts, reads, hist
<1>5. CASE ~Recording(q)'  BY <1>5 DEF Recording, Dealt
<1>6. q \in Runs /\ g \in Files
  <2>1. TypeOK'  BY TypeStep
  <2> QED  BY <2>1 DEF RunType, ReportType
<1>7. CASE Begin(q)
  <2>1. pending[q] = {}  BY <1>6, <1>7 DEF Begin, Phases, InPhase
  <2> QED  BY <1>6, <1>7, <2>1 DEF Begin, opts, RunType, HandType, Dealt
<1>8. CASE StartRepair(q)
  <2>1. /\ UNCHANGED <<work, disk, quiet, cand, at, stat>>
        /\ pc[q] = "main" /\ pc'[q] = "repair" /\ todo[q] = {} /\ pending[q] = {} /\ at[q] = None
    BY <1>6, <1>8 DEF StartRepair, db, tree, hist, opts, reads, RunType
  <2>2. Good(q, g)  BY <1>0, <2>1
  <2> QED  BY <1>6, <2>1, <2>2, DataAssumption DEF Dealt, StatKept
<1>9. ASSUME NEW f \in Files, Visit(q, f), ~Stop(q)  PROVE Good(q, g)'
  <2>1. UNCHANGED <<disk, cand, quiet>>  BY <1>6, <1>9, VisitAnswers DEF tree
  <2>2. Good(q, g)  BY <1>0, <2>1
  <2>3. CASE g # f
    <3>1. /\ UNCHANGED pc /\ work'[g] = work[g] /\ stat'[q][g] = stat[q][g] /\ got'[q][g] = got[q][g]
          /\ (g \in todo'[q] <=> g \in todo[q]) /\ (g \in pending'[q] <=> g \in pending[q])
      BY <1>6, <1>9, <2>3, VisitDeals, VisitWork, VisitHand
    <3>2. at[q] # g
      BY <1>6, <1>9, <2>3, DataAssumption DEF Visit, SkipByStat, ServeByStat, TakeStat, ReadBinary,
         ReadChanged, ReadUnchanged, Record, RepairParsed, RepairStat, RepairRead, ReadFails,
         Visiting, Reading
    <3> QED  BY <2>1, <2>2, <3>1, <3>2 DEF Dealt, StatKept, NewText
  <2>4. CASE g = f
    <3>1. UNCHANGED pc  BY <1>6, <1>9, VisitDeals
    <3>2. stat[q][f] \in {0, disk[f].stat}  BY <2>1, <1>9 DEF HandFresh
    <3>3. CASE RecordedNow(q, f)
      <4>1. stat'[q][f] = stat[q][f]
        BY <3>3 DEF RecordedNow, Record, RepairParsed, RepairRead, reads
      <4>2. got'[q][f] = disk[f].content
        BY <2>1, <3>3, DataAssumption DEF HandFresh, RecordedNow
      <4>3. /\ work'[f] # None /\ work'[f].hash = got'[q][f] /\ work'[f].stat = stat[q][f]
        BY <3>3 DEF RecordedNow, Recorded
      <4> QED  BY <2>1, <2>4, <3>2, <4>1, <4>2, <4>3 DEF StatKept
    <3>4. CASE SkipByStat(q, f) \/ ServeByStat(q, f)
      <4>1. PICK s \in StatAnswers(f) : Trusted(q, f, s)  BY <3>4 DEF SkipByStat, ServeByStat
      <4>2. work[f] # None /\ work[f].hash = disk[f].content /\ work[f].stat = disk[f].stat
        BY <1>6, <4>1, TrustedTrue
      <4>3. UNCHANGED work  BY <3>4 DEF SkipByStat, ServeByStat, db
      <4> QED  BY <2>1, <2>4, <4>2, <4>3 DEF StatKept
    <3>5. CASE TakeStat(q, f)
      <4>1. f \in todo'[q] /\ f \notin pending'[q] /\ pc[q] = "main"
        BY <1>6, <3>5 DEF TakeStat, Visiting, Phases, InPhase
      <4> QED  BY <2>4, <3>1, <4>1 DEF Dealt
    <3>6. CASE ReadBinary(q, f)
      <4>1. FALSE  BY <2>1, <2>4, <3>6, DataAssumption DEF ReadBinary
      <4> QED  BY <4>1
    <3>7. CASE ReadChanged(q, f)
      <4>1. f \in pending'[q] /\ pc[q] = "main" /\ UNCHANGED work /\ got'[q][f] = disk[f].content
        BY <1>6, <3>7 DEF ReadChanged, Reading, SetsType, HandType, db
      <4>2. NewText(f, got'[q][f])  BY <3>7, <4>1 DEF ReadChanged
      <4> QED  BY <2>4, <3>1, <4>1, <4>2 DEF Dealt, NewText
    <3>8. CASE ReadUnchanged(q, f)
      <4>1. work[f] # None /\ work[f].hash = disk[f].content /\ UNCHANGED stat
        BY <3>8 DEF ReadUnchanged, NewText
      <4>2. Touched(q, f) \/ (stat[q][f] = 0 /\ work'[f] = work[f])
        BY <1>6, <3>8, RefreshStores
      <4> QED  BY <2>1, <2>4, <3>2, <4>1, <4>2 DEF Touched, StatKept
    <3>9. CASE Record(q, f) /\ ~RecordedNow(q, f)
      <4>1. ~NewText(f, got[q][f]) /\ UNCHANGED work  BY <1>6, <3>9, RecordStores
      <4>2. UNCHANGED stat /\ pc[q] = "main" /\ f \in pending[q]  BY <3>9 DEF Record, reads
      <4>3. got[q][f] \in Texts  BY <1>6, <4>2, InHandText
      <4>4. got[q][f] = disk[f].content
        BY <2>1, <4>3, DataAssumption DEF HandFresh
      <4>5. work[f] # None /\ work[f].hash = disk[f].content  BY <4>1, <4>4 DEF NewText
      <4> QED  BY <2>1, <2>2, <2>4, <4>1, <4>2, <4>5 DEF StatKept
    <3>10. CASE RepairStat(q, f)
      <4>1. pc[q] = "repair" /\ at'[q] = f /\ UNCHANGED work
        BY <1>6, <3>10 DEF RepairStat, HandType, db
      <4> QED  BY <2>1, <2>2, <2>4, <3>1, <4>1 DEF Dealt
    <3>11. CASE RepairParsed(q, f) \/ RepairRead(q, f)
      <4>1. RecordedNow(q, f)  BY <1>6, <2>1, <2>4, <3>11, RecordStores
      <4> QED  BY <3>3, <4>1
    <3> QED  BY <1>9, <3>3, <3>4, <3>5, <3>6, <3>7, <3>8, <3>9, <3>10, <3>11 DEF Visit, ReadFails
  <2> QED  BY <2>3, <2>4
<1> QED  BY <1>1, <1>3, <1>4, <1>5, <1>6, <1>7, <1>8, <1>9, Turns, RecordingTurns

-----------------------------------------------------------------------------
(* All that holds of the runs and of the transaction. *)
RunsInv == IInv /\ LockHeld /\ ReportInv /\ RecordInv

LEMMA RunsInit ==
  ASSUME Init
  PROVE  RunsInv
<1>1. /\ \A r \in Runs : pc[r] = "idle" /\ cand[r] = {}
      /\ \A r \in Runs, f \in Files : cached[r][f] = NoCached /\ answered[r][f] = NoFindings
      /\ lock = None /\ quiet = {} /\ wasBinary = {f \in Files : disk[f].content = Binary}
  BY DEF Init
<1>2. LockHeld  BY <1>1, DataAssumption DEF LockHeld, Recording
<1>3. SeenTrue /\ Covered  BY <1>1 DEF SeenTrue, Covered, Running
<1>4. CachedTrue /\ AnsweredTrue
  BY <1>1 DEF CachedTrue, AnsweredTrue, NoCached, NoFindings
<1>5. Within /\ Present  BY <1>1 DEF Within, Present
<1>6. BinaryTold /\ HandFresh /\ WorkFresh  BY <1>1 DEF BinaryTold, HandFresh, WorkFresh
<1> QED  BY <1>2, <1>3, <1>4, <1>5, <1>6, InitInvariant DEF RunsInv, ReportInv, RecordInv

LEMMA RunsStep ==
  ASSUME RunsInv, [Next]_vars
  PROVE  RunsInv'
<1> USE DEF RunsInv, ReportInv, RecordInv
<1>1. IInv'  BY TypeStep, InHandStep, PhasesStep, StampsStep DEF IInv
<1>2. LockHeld' /\ SeenTrue' /\ CachedTrue' /\ BinaryTold'
  BY LockStep, SeenStep, CachedStep, BinaryStep DEF IInv
<1>3. AnsweredTrue' /\ Covered'  BY AnsweredStep, CoveredStep
<1>4. Within' /\ Present' /\ HandFresh'  BY WithinStep, PresentStep, HandFreshStep
<1>5. WorkFresh'  BY <1>4, WorkFreshStep
<1> QED  BY <1>1, <1>2, <1>3, <1>4, <1>5

(* The invariant of the runs holds in every reachable state, whatever      *)
(* editors and other runs do between the steps of a run.                   *)
THEOREM RunsInvariance == Spec => []RunsInv
<1>1. RunsInv /\ [Next]_vars => RunsInv'  BY RunsStep
<1> QED  BY <1>1, RunsInit, PTL DEF Spec

(* A finished whole-repository report says of a file only what the rules   *)
(* say, under its config, of a text the file held while the run was going: *)
(* no stale parse and no stale row of the findings cache gets into it.     *)
THEOREM ReportHonesty == Spec => []ReportTrue
<1>1. RunsInv => ReportTrue
  BY DEF RunsInv, IInv, TypeOK, RunType, ReportInv, AnsweredTrue, ReportTrue
<1> QED  BY <1>1, RunsInvariance, PTL

(* A finished whole-repository report answers for every enabled rule on    *)
(* every candidate that was text throughout: nothing is served in part and *)
(* nothing is skipped between the stat, the read and the rules.            *)
THEOREM ReportWhole == Spec => []ReportComplete
<1>1. RunsInv => ReportComplete
  BY DEF RunsInv, ReportInv, Covered, Answers, ReportComplete
<1> QED  BY <1>1, RunsInvariance, PTL

(* What remove_missing leaves of a row. *)
LEMMA PrunedRow ==
  ASSUME TypeOK, NEW r \in Runs, NEW f \in Files
  PROVE  /\ f \in Departed(r) \/ work[f] = None => Pruned(r)[f] = None
         /\ f \notin Departed(r) /\ work[f] # None =>
              /\ Pruned(r)[f] # None
              /\ Pruned(r)[f].hash = work[f].hash /\ Pruned(r)[f].stat = work[f].stat
              /\ Pruned(r)[f].edges = {Unlink(e, Departed(r)) : e \in work[f].edges}
<1>1. f \in Departed(r) \/ work[f] = None => Pruned(r)[f] = None  BY DEF Pruned
<1>2. ASSUME f \notin Departed(r), work[f] # None
      PROVE  /\ Pruned(r)[f] # None
             /\ Pruned(r)[f].hash = work[f].hash /\ Pruned(r)[f].stat = work[f].stat
             /\ Pruned(r)[f].edges = {Unlink(e, Departed(r)) : e \in work[f].edges}
  <2>1. work[f] \in Row  BY <1>2 DEF TypeOK, TablesType
  <2>2. Pruned(r)[f] = [work[f] EXCEPT !.edges = {Unlink(e, Departed(r)) : e \in work[f].edges}]
    BY <1>2 DEF Pruned
  <2>3. \A e \in work[f].edges : Unlink(e, Departed(r)) \in Edge
    BY <2>1 DEF Row, Edge, Unlink
  <2>4. {Unlink(e, Departed(r)) : e \in work[f].edges} \in SUBSET Edge  BY <2>3
  <2>5. Pruned(r)[f] \in Row  BY <2>1, <2>2, <2>4 DEF Row
  <2> QED  BY <2>1, <2>2, <2>5, NoneAssumption DEF Row
<1> QED  BY <1>1, <1>2

LEMMA CommitStores ==
  ASSUME RunsInv, NEW r \in quiet, Commit(r), NEW f \in Files
  PROVE  /\ f \notin cand[r] => rows'[f] = None
         /\ f \in cand[r] /\ disk[f].content \in Texts =>
              /\ rows'[f] # None /\ rows'[f].hash = disk[f].content
              /\ rows'[f].stat = disk[f].stat \/ stat[r][f] = 0
<1> USE DEF RunsInv, IInv
<1>1. r \in Runs /\ TypeOK  BY DEF TypeOK, ReportType
<1>2. rows' = Pruned(r) /\ pc[r] = "repair" /\ at[r] # f
  BY DataAssumption DEF Commit
<1>3. f \notin cand[r] => f \in Departed(r) \/ work[f] = None  BY DEF Departed
<1>4. ASSUME f \in cand[r], disk[f].content \in Texts
      PROVE  /\ rows'[f] # None /\ rows'[f].hash = disk[f].content
             /\ rows'[f].stat = disk[f].stat \/ stat[r][f] = 0
  <2>1. /\ work[f] # None /\ work[f].hash = disk[f].content
        /\ work[f].stat = disk[f].stat \/ stat[r][f] = 0
    BY <1>2, <1>4 DEF RecordInv, WorkFresh, Dealt, StatKept
  <2>2. f \notin Departed(r)  BY <1>4 DEF Departed
  <2> QED  BY <1>1, <1>2, <2>1, <2>2, PrunedRow
<1> QED  BY <1>1, <1>2, <1>3, <1>4, PrunedRow

(* A run that no edit disturbed commits the text and the stat on disk of   *)
(* every text file among its candidates, and no row of any other file.     *)
THEOREM CommitsCurrent == Spec => CommitCurrent
<1>1. RunsInv /\ [Next]_vars =>
        [\A r \in Runs : Commit(r) /\ r \in quiet =>
           \A f \in Files :
             /\ f \notin cand[r] => rows'[f] = None
             /\ f \in cand[r] /\ disk[f].content \in Texts =>
                  /\ rows'[f] # None /\ rows'[f].hash = disk[f].content
                  /\ rows'[f].stat = disk[f].stat \/ stat[r][f] = 0]_vars
  BY CommitStores
<1> QED  BY <1>1, RunsInvariance, PTL DEF Spec, CommitCurrent

-----------------------------------------------------------------------------
(* The edges. *)

(* What a specifier resolves to: a candidate, if it has one that is indexed. *)
LEMMA ResolveTrue ==
  ASSUME NEW s \in Specs, NEW indexed \in SUBSET Files
  PROVE  /\ Resolve(s, indexed).spec = s
         /\ Resolve(s, indexed).res = "resolved" =>
              /\ Resolve(s, indexed).to \in indexed
              /\ \E i \in DOMAIN Candidates[s] : Resolve(s, indexed).to = Candidates[s][i]
         /\ Resolve(s, indexed).res # "resolved" =>
              \A i \in DOMAIN Candidates[s] : Candidates[s][i] \notin indexed
<1> DEFINE hits == {i \in DOMAIN Candidates[s] : Candidates[s][i] \in indexed}
           first == CHOOSE i \in hits : \A j \in hits : i <= j
<1>1. Candidates[s] \in Seq(Files)  BY DataAssumption
<1>2. CASE hits # {}
  <2>1. Resolve(s, indexed) = [spec |-> s, res |-> "resolved", to |-> Candidates[s][first]]
    BY <1>2 DEF Resolve
  <2>2. hits \in SUBSET Nat  BY <1>1
  <2>3. \E i \in hits : \A j \in hits : i <= j  BY <1>2, <2>2, LeastElement
  <2>4. first \in DOMAIN Candidates[s] /\ Candidates[s][first] \in indexed  BY <2>3
  <2> HIDE DEF first
  <2>5. \E i \in DOMAIN Candidates[s] : Candidates[s][first] = Candidates[s][i]  BY <2>4
  <2> QED  BY <2>1, <2>4, <2>5
<1>3. CASE hits = {}
  <2>1. /\ Resolve(s, indexed).spec = s
        /\ Resolve(s, indexed).res # "resolved"
    BY <1>3 DEF Resolve
  <2> QED  BY <1>3, <2>1
<1> QED  BY <1>2, <1>3

(* The edges of a row just recorded are its text's, against the candidates. *)
LEMMA RecordedEdges ==
  ASSUME IInv, NEW r \in Runs, NEW f \in Files, RecordedNow(r, f), NEW e \in work'[f].edges
  PROVE  /\ e.spec \in SpecsOf[work'[f].hash]
         /\ e.res = "resolved" =>
              /\ e.to \in cand[r]
              /\ \E i \in DOMAIN Candidates[e.spec] : e.to = Candidates[e.spec][i]
         /\ e.res # "resolved" =>
              \A i \in DOMAIN Candidates[e.spec] : Candidates[e.spec][i] \notin cand[r]
<1>1. PICK s \in SpecsOf[got'[r][f]] : e = Resolve(s, cand[r])
  BY DEF RecordedNow, Recorded, EdgesOf
<1>2. s \in Specs /\ cand[r] \in SUBSET Files
  BY DataAssumption DEF RecordedNow, IInv, TypeOK, RunType
<1>3. work'[f].hash = got'[r][f]  BY DEF RecordedNow, Recorded
<1> QED  BY <1>1, <1>2, <1>3, ResolveTrue

(* An edge a commit leaves was there before, or lost its target. *)
LEMMA PrunedEdges ==
  ASSUME TypeOK, NEW r \in Runs, NEW f \in Files, Pruned(r)[f] # None
  PROVE  /\ work[f] # None /\ f \in cand[r]
         /\ Pruned(r)[f].hash = work[f].hash
         /\ \A e \in Pruned(r)[f].edges :
              \/ e \in work[f].edges /\ e.to \notin Departed(r)
              \/ /\ e.res = "unresolved"
                 /\ \E old \in work[f].edges : old.spec = e.spec /\ old.to \in Departed(r)
         /\ \A e \in work[f].edges : e.to \notin Departed(r) => e \in Pruned(r)[f].edges
<1>1. f \notin Departed(r) /\ work[f] # None  BY PrunedRow
<1>2. Pruned(r)[f].hash = work[f].hash
      /\ Pruned(r)[f].edges = {Unlink(e, Departed(r)) : e \in work[f].edges}
  BY <1>1, PrunedRow
<1> QED  BY <1>1, <1>2 DEF Unlink, Departed

(* How a turn may move the tables. *)
LEMMA TurnTables ==
  ASSUME IInv, NEW r \in Runs, Turn(r)
  PROVE  \/ UNCHANGED <<rows, work>>
         \/ rows' = rows /\ work' = rows
         \/ Commit(r)
         \/ UNCHANGED rows /\ \E f \in Files : Visit(r, f) /\ ~Stop(r)
<1>1. CASE Stop(r)  BY <1>1 DEF Stop
<1>2. ASSUME NEW f \in Files, Visit(r, f), ~Stop(r)  PROVE UNCHANGED rows
  BY <1>2, VisitWork
<1>3. CASE Begin(r)  BY <1>3 DEF Begin
<1> QED  BY <1>1, <1>2, <1>3 DEF Turn, Start, Step, LoadCache, StartRepair, RunRules, db

LEMMA NamesStep ==
  ASSUME IInv, NamesTrue(rows), NamesTrue(work), [Next]_vars
  PROVE  NamesTrue(rows)' /\ NamesTrue(work)'
<1> USE DEF IInv, TypeOK
<1> DEFINE Named(row) == row # None => \A e \in row.edges :
             /\ e.spec \in SpecsOf[row.hash]
             /\ e.res = "resolved" =>
                  \E i \in DOMAIN Candidates[e.spec] : e.to = Candidates[e.spec][i]
<1>0. \A f \in Files : Named(rows[f]) /\ Named(work[f])  BY DEF NamesTrue
<1> SUFFICES \A f \in Files : Named(rows'[f]) /\ Named(work'[f])
  BY DEF NamesTrue
<1>1. CASE UNCHANGED <<rows, work>>  BY <1>0, <1>1
<1>2. CASE UNCHANGED vars \/ \E f \in Files : Edit(f)
  BY <1>1, <1>2, EditAside DEF vars, db
<1>3. ASSUME NEW r \in Runs, Turn(r)  PROVE \A f \in Files : Named(rows'[f]) /\ Named(work'[f])
  <2>1. CASE rows' = rows /\ work' = rows  BY <1>0, <2>1
  <2>2. CASE Commit(r)
    <3>1. rows' = Pruned(r) /\ work' = Pruned(r)  BY <2>2 DEF Commit
    <3>2. ASSUME NEW f \in Files, Pruned(r)[f] # None, NEW e \in Pruned(r)[f].edges
          PROVE  /\ e.spec \in SpecsOf[Pruned(r)[f].hash]
                 /\ e.res = "resolved" =>
                      \E i \in DOMAIN Candidates[e.spec] : e.to = Candidates[e.spec][i]
      <4>1. \/ e \in work[f].edges
            \/ e.res = "unresolved" /\ \E old \in work[f].edges : old.spec = e.spec
        BY <3>2, PrunedEdges
      <4>2. work[f] # None /\ Pruned(r)[f].hash = work[f].hash  BY <3>2, PrunedEdges
      <4> QED  BY <1>0, <4>1, <4>2
    <3> QED  BY <3>1, <3>2
  <2>3. ASSUME NEW g \in Files, Visit(r, g), ~Stop(r)
        PROVE  \A f \in Files : Named(rows'[f]) /\ Named(work'[f])
    <3>1. UNCHANGED rows /\ \A f \in Files \ {g} : work'[f] = work[f]  BY <2>3, VisitWork
    <3>2. Named(work'[g])
      <4>1. CASE work'[g] = work[g]  BY <1>0, <4>1
      <4>2. CASE Touched(r, g)  BY <1>0, <4>2 DEF Touched
      <4>3. CASE RecordedNow(r, g)  BY <4>3, RecordedEdges
      <4> QED  BY <2>3, <4>1, <4>2, <4>3, VisitWork
    <3> QED  BY <1>0, <3>1, <3>2
  <2> QED  BY <1>1, <1>3, <2>1, <2>2, <2>3, TurnTables
<1> QED  BY <1>2, <1>3, Turns

(* While a run records, no row leaves its transaction. *)
LEMMA VisitKeeps ==
  ASSUME IInv, NEW r \in Runs, NEW f \in Files, Visit(r, f), ~Stop(r), NEW g \in Files, work[g] # None
  PROVE  work'[g] # None
BY VisitWork DEF Touched, RecordedNow

(* An edge that may point at a candidate finds it recorded at the commit:  *)
(* by then every candidate is, or was binary.                              *)
LEMMA PointsStep ==
  ASSUME IInv, LockHeld, Present, PointsAtRow, PointsAhead, [Next]_vars
  PROVE  PointsAtRow' /\ PointsAhead'
<1> USE DEF IInv, TypeOK
<1> DEFINE Ahead(q) == Recording(q) => \A f \in Files : work[f] # None =>
             \A e \in work[f].edges :
               e.res = "resolved" => work[e.to] # None \/ e.to \in wasBinary \cup cand[q]
<1>0. \A q \in Runs : Ahead(q)  BY DEF PointsAhead
<1>1. ASSUME UNCHANGED <<rows, work, pc, cand>>, wasBinary \subseteq wasBinary'
      PROVE  PointsAtRow' /\ PointsAhead'
  BY <1>1 DEF PointsAtRow, PointsAhead, Recording
<1>2. CASE UNCHANGED vars \/ \E f \in Files : Edit(f)
  <2>1. UNCHANGED <<rows, work, pc, cand>> /\ wasBinary \subseteq wasBinary'
    BY <1>2, EditAside DEF vars, db, opts, tree
  <2> QED  BY <1>1, <2>1
<1>3. ASSUME NEW r \in Runs, Turn(r)  PROVE wasBinary' = wasBinary
  BY <1>3 DEF Turn, Start, Stop, Step, LoadCache, Begin, StartRepair, Commit, RunRules,
     Visit, SkipByStat, ServeByStat, TakeStat, ReadBinary, ReadChanged, ReadUnchanged,
     Record, RepairParsed, RepairStat, RepairRead, ReadFails, tree
<1>4. ASSUME NEW r \in Runs, Turn(r)  PROVE PointsAtRow'
  <2>1. CASE UNCHANGED rows  BY <1>3, <1>4, <2>1 DEF PointsAtRow
  <2>2. CASE Commit(r)
    <3>1. /\ rows' = Pruned(r) /\ pc[r] = "repair" /\ Recording(r)
      BY <2>2 DEF Commit, Recording
    <3>2. ASSUME NEW f \in Files, Pruned(r)[f] # None, NEW e \in Pruned(r)[f].edges,
                 e.res = "resolved"
          PROVE  Pruned(r)[e.to] # None \/ e.to \in wasBinary
      <4>1. work[f] # None /\ e \in work[f].edges /\ e.to \notin Departed(r)
        BY <3>2, PrunedEdges
      <4>2. e.to \in Files
        <5>1. work[f] \in Row /\ e \in Edge  BY <4>1 DEF TablesType, Row
        <5> QED  BY <3>2, <5>1 DEF Edge
      <4>3. work[e.to] # None \/ e.to \in wasBinary
        BY <1>0, <3>1, <4>1, <3>2 DEF Present, Dealt
      <4> QED  BY <4>1, <4>2, <4>3, PrunedRow
    <3> QED  BY <1>3, <1>4, <3>1, <3>2 DEF PointsAtRow
  <2> QED  BY <1>4, <2>1, <2>2, TurnTables
<1>5. ASSUME NEW q \in Runs, NEW r \in Runs, Turn(r)  PROVE Ahead(q)'
  <2>1. CASE UNCHANGED <<work, wasBinary>> /\ cand'[q] = cand[q] /\ pc'[q] = pc[q]
    BY <1>0, <2>1 DEF Recording
  <2>2. CASE r # q
    <3>1. cand'[q] = cand[q] /\ pc'[q] = pc[q]  BY <1>5, <2>2, OtherRun DEF Aside
    <3>2. Recording(q) => UNCHANGED work  BY <1>5, <2>2, TablesHeld
    <3> QED  BY <1>0, <1>3, <1>5, <3>1, <3>2 DEF Recording
  <2>3. CASE Begin(q)
    <3>1. work' = rows  BY <2>3 DEF Begin
    <3> QED  BY <1>3, <1>5, <3>1 DEF PointsAtRow
  <2>4. CASE StartRepair(q)
    <3>1. UNCHANGED <<work, cand>> /\ pc[q] = "main"
      BY <2>4 DEF StartRepair, db, opts
    <3> QED  BY <1>0, <1>3, <1>5, <3>1 DEF Recording
  <2>5. ASSUME NEW g \in Files, Visit(q, g), ~Stop(q)  PROVE Ahead(q)'
    <3>1. UNCHANGED <<wasBinary, cand>> /\ Recording(q)
      BY <2>5, VisitAnswers, VisitDeals DEF tree
    <3>2. ASSUME NEW f \in Files, work'[f] # None, NEW e \in work'[f].edges, e.res = "resolved"
          PROVE  work'[e.to] # None \/ e.to \in wasBinary \cup cand[q]
      <4>1. CASE work[f] # None /\ e \in work[f].edges
        <5>1. work[e.to] # None \/ e.to \in wasBinary \cup cand[q]
          BY <1>0, <3>1, <3>2, <4>1
        <5>2. work[f] \in Row /\ e \in Edge  BY <4>1 DEF TablesType, Row
        <5>3. e.to \in Files  BY <3>2, <5>2 DEF Edge
        <5> QED  BY <2>5, <5>1, <5>3, VisitKeeps
      <4>2. CASE RecordedNow(q, f)  BY <3>2, <4>2, RecordedEdges
      <4>3. \/ work'[f] = work[f] \/ Touched(q, f) \/ RecordedNow(q, f)
        BY <2>5, VisitWork
      <4> QED  BY <3>2, <4>1, <4>2, <4>3 DEF Touched
    <3> QED  BY <3>1, <3>2
  <2>6. ~Recording(q)' => Ahead(q)'  OBVIOUS
  <2> QED  BY <1>5, <2>2, <2>3, <2>4, <2>5, <2>6, RecordingTurns
<1>6. ASSUME NEW r \in Runs, Turn(r)  PROVE PointsAhead'
  BY <1>5, <1>6 DEF PointsAhead
<1> QED  BY <1>2, <1>4, <1>6, Turns

LEMMA PointInit ==
  ASSUME Init
  PROVE  PointInv
BY DEF Init, PointInv, NamesTrue, PointsAtRow, PointsAhead

LEMMA PointStep ==
  ASSUME RunsInv, PointInv, [Next]_vars
  PROVE  PointInv'
BY NamesStep, PointsStep DEF RunsInv, RecordInv, PointInv

(* Every edge of the index, and of what its writer holds, is named by its  *)
(* file's text and points at a row or at one the writer will visit again.  *)
THEOREM PointInvariance == Spec => []PointInv
<1>1. RunsInv /\ PointInv /\ [Next]_vars => PointInv'  BY PointStep
<1> QED  BY <1>1, PointInit, RunsInvariance, PTL DEF Spec

(* A resolved edge of the committed index points at a row, or at a file    *)
(* that was binary when it was read: remove_missing leaves no importer     *)
(* pointing at a departed file, also when another run's walk was older     *)
(* than the record.  This half of EdgesCurrent needs nothing of the        *)
(* specifiers.                                                             *)
THEOREM EdgesPoint == Spec => []PointsAtRow
<1>1. PointInv => PointsAtRow  BY DEF PointInv
<1> QED  BY <1>1, PointInvariance, PTL

LEMMA UnrecordedStep ==
  ASSUME TypeOK, Unrecorded, [Next]_vars
  PROVE  Unrecorded'
<1> USE DEF TypeOK, RunType, SetsType, Recording
<1> SUFFICES ASSUME NEW q \in Runs, ~Recording(q)', pc'[q] # "rules"
             PROVE  changed'[q] = {}
  BY DEF Unrecorded
<1>0. ~Recording(q) /\ pc[q] # "rules" => changed[q] = {}  BY DEF Unrecorded
<1>1. CASE pc'[q] = pc[q] /\ changed'[q] = changed[q]  BY <1>0, <1>1
<1>2. CASE UNCHANGED vars \/ \E f \in Files : Edit(f)
  BY <1>1, <1>2, EditAside DEF vars
<1>3. ASSUME NEW r \in Runs, Turn(r), r # q  PROVE changed'[q] = {}
  BY <1>1, <1>3, OtherRun DEF Aside
<1>4. CASE Turn(q)
  <2>1. CASE Stop(q)  BY <2>1 DEF Stop, Scratch
  <2>2. ASSUME NEW m \in Modes, NEW k \in Configs, NEW named \in SUBSET Files, Start(q, m, k, named)
        PROVE  changed'[q] = {}
    BY <2>2 DEF Start, Scratch
  <2>3. CASE LoadCache(q)  BY <1>0, <2>3 DEF LoadCache
  <2>4. CASE RunRules(q)  BY <2>4 DEF RunRules, Scratch
  <2>5. CASE Commit(q)  BY <2>5 DEF Commit
  <2>6. CASE Begin(q) \/ StartRepair(q)  BY <2>6 DEF Begin, StartRepair
  <2>7. ASSUME NEW f \in Files, Visit(q, f), ~Stop(q)  PROVE FALSE
    BY <2>7 DEF Visit, SkipByStat, ServeByStat, TakeStat, ReadBinary, ReadChanged, ReadUnchanged,
       Record, RepairParsed, RepairStat, RepairRead, ReadFails, Visiting, Reading
  <2> QED  BY <1>4, <2>1, <2>2, <2>3, <2>4, <2>5, <2>6, <2>7 DEF Turn, Step
<1> QED  BY <1>2, <1>3, <1>4, Turns

(* What a visit does to the repairs still to come. *)
LEMMA VisitRepairs ==
  ASSUME IInv, BinaryTold, Within, NEW r \in Runs, NEW f \in Files, Visit(r, f), ~Stop(r)
  PROVE  /\ anyNew \subseteq anyNew'
         /\ \A g \in Files \ {f} : g \in changed'[r] => g \in changed[r]
         /\ work[f] = None /\ work'[f] # None => pc[r] = "main" /\ r \in anyNew'
         /\ \/ RecordedNow(r, f)
            \/ f \in wasBinary
            \/ /\ f \in changed'[r] => f \in changed[r]
               /\ pc[r] = "repair" /\ f \in todo[r] => f \in todo'[r]
<1> USE DEF IInv, TypeOK, SetsType, HandType, Leave, Close
<1>1. CASE Record(r, f)
  <2>1. CASE NewText(f, got[r][f])
    <3>1. /\ anyNew' = (IF work[f] = None THEN anyNew \cup {r} ELSE anyNew)
          /\ changed' = [changed EXCEPT ![r] = @ \cup {f}] /\ pc[r] = "main"
          /\ work' = [work EXCEPT ![f] = Recorded(r, f, got[r][f], StatToStore(r, f))]
      BY <1>1, <2>1 DEF Record
    <3>2. got'[r][f] = got[r][f] /\ got[r][f] \in Texts
      BY <1>1, InHandText DEF Record, reads
    <3>3. RecordedNow(r, f)  BY <1>1, <2>1, RecordStores
    <3> QED  BY <3>1, <3>3
  <2>2. CASE ~NewText(f, got[r][f])
    <3>1. UNCHANGED <<changed, anyNew, work, pc>> /\ pc[r] = "main"
      BY <1>1, <2>2 DEF Record
    <3> QED  BY <3>1
  <2> QED  BY <2>1, <2>2
<1>2. CASE RepairParsed(r, f)
  <2>1. UNCHANGED <<changed, anyNew>> /\ RecordedNow(r, f)
    BY <1>2, RecordStores DEF RepairParsed
  <2>2. work[f] # None  BY <1>2 DEF RepairParsed, Within
  <2> QED  BY <2>1, <2>2
<1>3. CASE RepairRead(r, f)
  <2>1. UNCHANGED <<changed, anyNew>>  BY <1>3 DEF RepairRead
  <2>2. f \in todo[r]  BY <1>3, DataAssumption DEF RepairRead, Phases, InPhase
  <2>3. work[f] # None  BY <1>3, <2>2 DEF RepairRead, Within
  <2>4. RecordedNow(r, f) \/ f \in wasBinary
    <3>1. CASE disk[f].content \in Texts  BY <1>3, <3>1, RecordStores
    <3>2. CASE disk[f].content \notin Texts
      BY <1>3, <3>2 DEF RepairRead, OnDisk, BinaryTold, TreeType
    <3> QED  BY <3>1, <3>2
  <2> QED  BY <2>1, <2>3, <2>4
<1>4. CASE ReadUnchanged(r, f)
  <2>1. UNCHANGED <<changed, anyNew>> /\ pc[r] = "main" /\ work[f] # None
    BY <1>4 DEF ReadUnchanged, Reading, NewText
  <2> QED  BY <2>1
<1>5. CASE RepairStat(r, f)
  BY <1>5 DEF RepairStat, db
<1>6. CASE \/ SkipByStat(r, f) \/ ServeByStat(r, f) \/ TakeStat(r, f)
           \/ ReadBinary(r, f) \/ ReadChanged(r, f)
  <2>1. UNCHANGED <<changed, anyNew, work>> /\ pc[r] = "main"
    BY <1>6 DEF SkipByStat, ServeByStat, TakeStat, ReadBinary, ReadChanged, Visiting, Reading, db
  <2> QED  BY <2>1
<1> QED  BY <1>1, <1>2, <1>3, <1>4, <1>5, <1>6 DEF Visit, ReadFails

(* A new file makes the run one that repairs before the file has its row,  *)
(* and what the repair pass takes up it records against every candidate.   *)
LEMMA OpenStep ==
  ASSUME RunsInv, OpenTrue, SoleCurrent, Unrecorded, [Next]_vars
  PROVE  OpenTrue'
<1> USE DEF RunsInv, RecordInv, IInv, TypeOK
<1> DEFINE Open(q) == Recording(q) => \A f \in Files \ wasBinary : work[f] # None =>
             \A e \in work[f].edges : e.res = "unresolved" /\ Sole(e.spec) =>
               \A i \in DOMAIN Candidates[e.spec] : AwaitsRepair(q, f, Candidates[e.spec][i])
<1> SUFFICES ASSUME NEW q \in Runs  PROVE Open(q)'
  BY DEF OpenTrue
<1>0. Open(q)  BY DEF OpenTrue
<1>1. CASE /\ pc'[q] = pc[q] /\ cand'[q] = cand[q] /\ changed'[q] = changed[q]
           /\ todo'[q] = todo[q] /\ (q \in anyNew' <=> q \in anyNew)
           /\ Recording(q) => work' = work
           /\ wasBinary \subseteq wasBinary'
  BY <1>0, <1>1 DEF Recording, AwaitsRepair
<1>2. CASE UNCHANGED vars \/ \E f \in Files : Edit(f)
  <2>1. UNCHANGED <<pc, cand, changed, todo, anyNew, work>> /\ wasBinary \subseteq wasBinary'
    BY <1>2, EditAside DEF vars, db, opts, tree
  <2> QED  BY <1>1, <2>1
<1>3. ASSUME NEW r \in Runs, Turn(r), r # q  PROVE Open(q)'
  BY <1>1, <1>3, OtherRun, TablesHeld DEF Aside, tree
<1>4. CASE ~Recording(q)'  BY <1>4
<1>5. CASE Begin(q)
  <2>1. /\ work' = rows /\ UNCHANGED <<wasBinary, changed>>
        /\ pc[q] = "loaded" /\ pc'[q] = "main"
    BY <1>5 DEF Begin, tree, RunType
  <2>2. changed'[q] = {}  BY <2>1 DEF Unrecorded, Recording
  <2> QED  BY <2>1, <2>2 DEF SoleCurrent, AwaitsRepair
<1>6. CASE StartRepair(q)
  <2>1. /\ UNCHANGED <<work, wasBinary, changed, anyNew, cand>>
        /\ pc[q] = "main" /\ pc'[q] = "repair"
        /\ todo'[q] = RepairList(q) \cap (cand[q] \cup parsed[q])
    BY <1>6 DEF StartRepair, tree, db, opts, RunType, HandType
  <2>2. ASSUME NEW f \in Files \ wasBinary, work[f] # None, NEW e \in work[f].edges,
               e.res = "unresolved", Sole(e.spec), NEW i \in DOMAIN Candidates[e.spec]
        PROVE  AwaitsRepair(q, f, Candidates[e.spec][i])'
    <3>1. AwaitsRepair(q, f, Candidates[e.spec][i])
      BY <1>0, <2>1, <2>2 DEF Recording
    <3>2. HasUnresolved(f)  BY <2>2 DEF HasUnresolved
    <3>3. f \notin changed[q] /\ q \in anyNew => f \in RepairList(q)
      BY <3>2 DEF RepairList
    <3> QED  BY <2>1, <3>1, <3>3 DEF AwaitsRepair
  <2> QED  BY <2>1, <2>2
<1>7. ASSUME NEW g \in Files, Visit(q, g), ~Stop(q)  PROVE Open(q)'
  <2>1. UNCHANGED <<wasBinary, cand, pc>> /\ Recording(q)
    BY <1>7, VisitAnswers, VisitDeals DEF tree
  <2>2. /\ anyNew \subseteq anyNew'
        /\ \A f \in Files \ {g} :
             /\ work'[f] = work[f] /\ (f \in changed'[q] => f \in changed[q])
             /\ (f \in todo'[q] <=> f \in todo[q])
        /\ work[g] = None /\ work'[g] # None => pc[q] = "main" /\ q \in anyNew'
    BY <1>7, VisitRepairs, VisitWork, VisitDeals
  <2>3. ASSUME NEW f \in Files \ wasBinary, work'[f] # None, NEW e \in work'[f].edges,
               e.res = "unresolved", Sole(e.spec), NEW i \in DOMAIN Candidates[e.spec],
               ~RecordedNow(q, f) \/ f # g
        PROVE  AwaitsRepair(q, f, Candidates[e.spec][i])'
    <3> DEFINE b == Candidates[e.spec][i]
    <3>1. work[f] # None /\ e \in work[f].edges
      <4>1. f = g => work'[f] = work[f] \/ Touched(q, f)  BY <1>7, <2>3, VisitWork
      <4> QED  BY <2>2, <2>3, <4>1 DEF Touched
    <3>2. AwaitsRepair(q, f, b)  BY <1>0, <2>1, <2>3, <3>1
    <3>3. /\ f \in changed'[q] => f \in changed[q]
          /\ pc[q] = "repair" /\ f \in todo[q] => f \in todo'[q]
      <4>1. CASE f = g  BY <1>7, <2>3, <4>1, VisitRepairs
      <4>2. CASE f # g  BY <2>2, <4>2
      <4> QED  BY <4>1, <4>2
    <3>4. cand[q] \subseteq Files  BY DEF RunType
    <3>5. b \in cand[q] /\ work[b] = None =>
            work'[b] = None \/ (pc[q] = "main" /\ q \in anyNew')
      BY <2>2, <3>4
    <3> HIDE DEF b
    <3> QED  BY <2>1, <2>2, <3>2, <3>3, <3>5 DEF AwaitsRepair, b
  <2>4. ASSUME RecordedNow(q, g), NEW e \in work'[g].edges, e.res = "unresolved",
               NEW i \in DOMAIN Candidates[e.spec]
        PROVE  AwaitsRepair(q, g, Candidates[e.spec][i])'
    BY <2>1, <2>4, RecordedEdges DEF AwaitsRepair
  <2> QED  BY <2>1, <2>3, <2>4
<1> QED  BY <1>2, <1>3, <1>4, <1>5, <1>6, <1>7, Turns, RecordingTurns

(* An edge a commit unlinks names the departed file and no other; one it   *)
(* leaves unresolved names no row.                                         *)
LEMMA SoleStep ==
  ASSUME RunsInv, PointInv, OpenTrue, SoleCurrent, [Next]_vars
  PROVE  SoleCurrent'
<1> USE DEF RunsInv, IInv, TypeOK
<1>1. CASE UNCHANGED rows /\ wasBinary \subseteq wasBinary'  BY <1>1 DEF SoleCurrent
<1>2. CASE UNCHANGED vars \/ \E f \in Files : Edit(f)
  BY <1>1, <1>2, EditAside DEF vars, db, tree
<1>3. ASSUME NEW r \in Runs, Turn(r)  PROVE SoleCurrent'
  <2>1. wasBinary' = wasBinary
    BY <1>3 DEF Turn, Start, Stop, Step, LoadCache, Begin, StartRepair, Commit, RunRules,
       Visit, SkipByStat, ServeByStat, TakeStat, ReadBinary, ReadChanged, ReadUnchanged,
       Record, RepairParsed, RepairStat, RepairRead, ReadFails, tree
  <2>2. CASE Commit(r)
    <3>1. rows' = Pruned(r) /\ pc[r] = "repair" /\ todo[r] = {}  BY <2>2 DEF Commit
    <3>2. ASSUME NEW f \in Files \ wasBinary, Pruned(r)[f] # None, NEW e \in Pruned(r)[f].edges,
                 e.res = "unresolved", Sole(e.spec), NEW i \in DOMAIN Candidates[e.spec]
          PROVE  Pruned(r)[Candidates[e.spec][i]] = None
      <4> DEFINE b == Candidates[e.spec][i]
      <4>1. b \in Files
        <5>1. e.spec \in Specs
          <6>1. Pruned(r)[f] \in Row  BY <3>2, PrunedType
          <6>2. e \in Edge  BY <6>1 DEF Row
          <6> QED  BY <6>2 DEF Edge
        <5> QED  BY <5>1, DataAssumption
      <4>2. work[f] # None /\ f \in cand[r]  BY <3>2, PrunedEdges
      <4>3. CASE e \in work[f].edges
        <5>1. AwaitsRepair(r, f, b)
          BY <3>1, <3>2, <4>2, <4>3 DEF OpenTrue, Recording
        <5>2. b \notin cand[r] \/ work[b] = None
          BY <3>1, <4>2, <5>1 DEF AwaitsRepair
        <5>3. b \in Departed(r) \/ work[b] = None  BY <4>1, <5>2 DEF Departed
        <5> QED  BY <4>1, <5>3, PrunedRow
      <4>4. ASSUME NEW old \in work[f].edges, old.spec = e.spec, old.to \in Departed(r)
            PROVE  Pruned(r)[b] = None
        <5>1. work[f] \in Row /\ old \in Edge  BY <4>2 DEF TablesType, Row
        <5>2. old.to \in Files  BY <4>4 DEF Departed
        <5>3. old.res = "resolved"  BY <5>1, <5>2, DataAssumption DEF Edge
        <5>4. PICK j \in DOMAIN Candidates[e.spec] : old.to = Candidates[e.spec][j]
          BY <4>2, <4>4, <5>3 DEF PointInv, NamesTrue
        <5>5. b = old.to  BY <3>2, <5>4 DEF Sole
        <5> QED  BY <4>1, <4>4, <5>5, PrunedRow
      <4> QED  BY <3>2, <4>3, <4>4, PrunedEdges
    <3> QED  BY <2>1, <3>1, <3>2 DEF SoleCurrent
  <2> QED  BY <1>1, <1>3, <2>1, <2>2, TurnTables
<1> QED  BY <1>2, <1>3, Turns

LEMMA OpenInit ==
  ASSUME Init
  PROVE  OpenInv
BY DEF Init, OpenInv, OpenTrue, SoleCurrent, Unrecorded, Recording

(* An unresolved import whose only file is indexed belongs to a recording  *)
(* run that has not reached its repair yet.                                *)
THEOREM OpenInvariance == Spec => []OpenInv
<1>1. RunsInv /\ PointInv /\ OpenInv /\ [Next]_vars => OpenInv'
  BY OpenStep, SoleStep, UnrecordedStep DEF OpenInv, RunsInv, IInv
<1> QED  BY <1>1, OpenInit, RunsInvariance, PointInvariance, PTL DEF Spec

(* An import that only one file can answer to is never left unresolved     *)
(* while that file is indexed, whatever runs, edits and crashes came in    *)
(* between: the repair pass re-records it when the file is new.            *)
THEOREM SoleImportsHeal == Spec => []SoleCurrent
<1>1. OpenInv => SoleCurrent  BY DEF OpenInv
<1> QED  BY <1>1, OpenInvariance, PTL

(* Where no two files compete for a specifier, unresolved edges have       *)
(* nothing to resolve to and resolved ones point at a row.                 *)
THEOREM EdgesStayCurrent ==
  ASSUME Unrivalled
  PROVE  Spec => []EdgesCurrent
<1>1. Unrivalled /\ TypeOK /\ SoleCurrent /\ PointsAtRow => EdgesCurrent
  <2> SUFFICES ASSUME Unrivalled, TypeOK, SoleCurrent, PointsAtRow,
                      NEW f \in Files, rows[f] # None, NEW e \in rows[f].edges
               PROVE  /\ e.res = "unresolved" /\ f \notin wasBinary =>
                           \A i \in DOMAIN Candidates[e.spec] : rows[Candidates[e.spec][i]] = None
                      /\ e.res = "resolved" => rows[e.to] # None \/ e.to \in wasBinary
    BY DEF EdgesCurrent
  <2>1. rows[f] \in Row /\ e \in Edge  BY DEF TypeOK, TablesType, Row
  <2>2. Sole(e.spec)  BY <2>1 DEF Edge, Unrivalled
  <2> QED  BY <2>2 DEF SoleCurrent, PointsAtRow
<1>2. Unrivalled  OBVIOUS
<1> QED  BY <1>1, <1>2, TypeCorrect, SoleImportsHeal, EdgesPoint, PTL

-----------------------------------------------------------------------------
(* The targets a --changed run captures. *)

(* What a visit does to the captured targets and to what is pending. *)
LEMMA VisitCaptures ==
  ASSUME IInv, NEW r \in Runs, NEW f \in Files, Visit(r, f), ~Stop(r)
  PROVE  /\ before[r] \subseteq before'[r]
         /\ f \in pending'[r] =>
              \/ f \in pending[r] /\ work'[f] = work[f] /\ got'[r][f] = got[r][f]
              \/ ReadChanged(r, f)
              \/ work'[f] # None /\ work'[f].hash = got'[r][f]
<1> USE DEF IInv, TypeOK, SetsType, HandType, RunType
<1>1. before[r] \subseteq before'[r]
  BY DEF Visit, SkipByStat, ServeByStat, TakeStat, ReadBinary, ReadChanged, ReadUnchanged,
     Record, RepairParsed, RepairStat, RepairRead, ReadFails
<1>2. CASE ReadUnchanged(r, f)
  <2>1. work[f] # None /\ work[f].hash = disk[f].content /\ UNCHANGED disk
    BY <1>2 DEF ReadUnchanged, NewText, tree
  <2>2. work'[f] # None /\ work'[f].hash = disk[f].content
    BY <1>2, <2>1, RefreshStores DEF Touched
  <2>3. UNCHANGED <<got, pending>> \/ got'[r][f] = disk[f].content
    BY <1>2 DEF ReadUnchanged
  <2>4. pc[r] = "main" /\ f \in todo[r]
    BY <1>2, DataAssumption DEF ReadUnchanged, Reading, Phases, InPhase
  <2>5. f \notin pending[r]  BY <2>4 DEF Phases, InPhase
  <2> QED  BY <1>1, <2>2, <2>3, <2>5
<1>3. CASE Record(r, f)  BY <1>1, <1>3 DEF Record
<1>4. CASE RepairParsed(r, f) \/ RepairRead(r, f)
  <2>1. pc[r] = "repair" /\ UNCHANGED pending  BY <1>4 DEF RepairParsed, RepairRead
  <2> QED  BY <1>1, <2>1 DEF Phases, InPhase
<1>5. CASE \/ SkipByStat(r, f) \/ ServeByStat(r, f) \/ TakeStat(r, f)
           \/ ReadBinary(r, f) \/ RepairStat(r, f)
  <2>1. UNCHANGED <<work, got, pending>>
    BY <1>5 DEF SkipByStat, ServeByStat, TakeStat, ReadBinary, RepairStat, db, reads
  <2> QED  BY <1>1, <2>1
<1> QED  BY <1>1, <1>2, <1>3, <1>4, <1>5 DEF Visit, ReadFails

(* What is read and new to the index has its old targets captured, until   *)
(* it is recorded.                                                         *)
LEMMA CapturedStep ==
  ASSUME RunsInv, CapturedTrue, [Next]_vars
  PROVE  CapturedTrue'
<1> USE DEF RunsInv, IInv, TypeOK
<1> DEFINE Caught(q) == pc[q] = "main" /\ mode[q] = "changed" =>
             \A f \in pending[q] : NewText(f, got[q][f]) => Targets(f) \subseteq before[q]
<1> SUFFICES ASSUME NEW q \in quiet'  PROVE Caught(q)'
  BY DEF CapturedTrue
<1>0. q \in quiet => Caught(q)  BY DEF CapturedTrue
<1>1. \A f \in Files : ~Edit(f)  BY EditAside
<1>2. q \in Runs
  <2>1. TypeOK'  BY TypeStep
  <2> QED  BY <2>1 DEF ReportType
<1>3. CASE /\ pc'[q] = pc[q] /\ mode'[q] = mode[q] /\ pending'[q] = pending[q]
           /\ got'[q] = got[q] /\ before'[q] = before[q]
           /\ Recording(q) => work' = work
           /\ q \in quiet
  BY <1>0, <1>3 DEF Recording, NewText, Targets
<1>4. CASE UNCHANGED vars  BY <1>3, <1>4 DEF vars, db, opts, reads, hist
<1>5. ASSUME NEW r \in Runs, Turn(r), r # q  PROVE Caught(q)'
  BY <1>2, <1>3, <1>5, OtherRun, TablesHeld DEF Aside
<1>6. CASE pc'[q] # "main"  BY <1>6
<1>7. CASE Begin(q)
  <2>1. pending'[q] = {}  BY <1>2, <1>7 DEF Begin, Phases, InPhase
  <2> QED  BY <2>1
<1>8. CASE StartRepair(q)  BY <1>2, <1>6, <1>8 DEF StartRepair, RunType
<1>9. ASSUME NEW g \in Files, Visit(q, g), ~Stop(q)  PROVE Caught(q)'
  <2>1. UNCHANGED <<mode, quiet, pc>>  BY <1>2, <1>9, VisitAnswers, VisitDeals
  <2>2. /\ before[q] \subseteq before'[q] /\ pending'[q] \subseteq Files
        /\ \A f \in Files \ {g} :
             /\ work'[f] = work[f] /\ got'[q][f] = got[q][f]
             /\ (f \in pending'[q] <=> f \in pending[q])
    <3>1. TypeOK'  BY TypeStep
    <3>2. pending'[q] \subseteq Files  BY <1>2, <3>1 DEF SetsType
    <3> QED  BY <1>2, <1>9, <3>2, VisitCaptures, VisitWork, VisitHand, VisitDeals
  <2>3. ASSUME pc[q] = "main", mode[q] = "changed", NEW f \in pending'[q],
               f \in pending[q], work'[f] = work[f], got'[q][f] = got[q][f],
               NewText(f, got[q][f])'
        PROVE  Targets(f)' \subseteq before'[q]
    <3>1. Targets(f)' = Targets(f)  BY <2>3 DEF Targets
    <3>2. NewText(f, got[q][f])  BY <2>3 DEF NewText
    <3> QED  BY <1>0, <2>1, <2>2, <2>3, <3>1, <3>2
  <2>4. CASE ReadChanged(q, g)
    <3>1. mode[q] = "changed" => before'[q] = before[q] \cup Targets(g)
      BY <1>2, <2>4 DEF ReadChanged, SetsType
    <3>2. Targets(g)' = Targets(g)  BY <2>4 DEF ReadChanged, db, Targets
    <3> QED  BY <2>1, <2>2, <2>3, <3>1, <3>2
  <2>5. CASE g \in pending'[q] /\ work'[g] # None /\ work'[g].hash = got'[q][g]
    BY <2>1, <2>2, <2>3, <2>5 DEF NewText
  <2>6. \/ g \notin pending'[q]
        \/ g \in pending[q] /\ work'[g] = work[g] /\ got'[q][g] = got[q][g]
        \/ ReadChanged(q, g)
        \/ work'[g] # None /\ work'[g].hash = got'[q][g]
    BY <1>2, <1>9, VisitCaptures
  <2> QED  BY <2>1, <2>2, <2>3, <2>4, <2>5, <2>6
<1> QED  BY <1>1, <1>2, <1>4, <1>5, <1>6, <1>7, <1>8, <1>9, Turns, RecordingTurns DEF Recording

(* A repair of an undisturbed run records the text the row was of already. *)
LEMMA RepairSame ==
  ASSUME RunsInv, HandFresh', NEW r \in quiet, NEW f \in Files, Visit(r, f), RecordedNow(r, f),
         RepairParsed(r, f) \/ RepairRead(r, f)
  PROVE  work[f] # None /\ work'[f].hash = work[f].hash
<1> USE DEF RunsInv, IInv, TypeOK
<1>1. r \in Runs /\ UNCHANGED disk /\ r \in quiet'
  BY DEF RepairParsed, RepairRead, tree, hist, ReportType
<1>2. got'[r][f] \in Texts /\ work'[f].hash = got'[r][f]  BY DEF RecordedNow, Recorded
<1>3. got'[r][f] = disk[f].content
  BY <1>1, <1>2, DataAssumption DEF HandFresh
<1>4. pc[r] = "repair" /\ f \in todo[r]
  BY <1>1, DataAssumption DEF RepairParsed, RepairRead, Phases, InPhase
<1>5. f \in cand[r]  BY <1>1, <1>4 DEF RecordInv, Within
<1> QED  BY <1>2, <1>3, <1>4, <1>5 DEF RecordInv, WorkFresh, Dealt

(* An edge to a candidate stays, or its target is captured: a new text is  *)
(* recorded after its old targets were captured, and a repair finds the    *)
(* only file the specifier can mean again.                                 *)
LEMMA KeptStep ==
  ASSUME RunsInv, RunsInv', PointInv, KeptTrue, CapturedTrue, [Next]_vars
  PROVE  KeptTrue'
<1> USE DEF RunsInv, IInv, TypeOK
<1> DEFINE Held(q) == Recording(q) /\ mode[q] = "changed" =>
             \A f \in Files : rows[f] # None => \A e \in rows[f].edges :
               Sole(e.spec) /\ e.to \in cand[q] =>
                 e.to \in before[q] \/ (work[f] # None /\ e \in work[f].edges)
<1> SUFFICES ASSUME NEW q \in quiet'  PROVE Held(q)'
  BY DEF KeptTrue
<1>0. q \in quiet => Held(q)  BY DEF KeptTrue
<1>1. \A f \in Files : ~Edit(f)  BY EditAside
<1>2. q \in Runs  BY DEF ReportType
<1>3. CASE /\ pc'[q] = pc[q] /\ mode'[q] = mode[q] /\ cand'[q] = cand[q] /\ before'[q] = before[q]
           /\ Recording(q) => UNCHANGED <<rows, work>>
           /\ q \in quiet
  BY <1>0, <1>3 DEF Recording
<1>4. CASE UNCHANGED vars  BY <1>3, <1>4 DEF vars, db, opts, hist
<1>5. ASSUME NEW r \in Runs, Turn(r), r # q  PROVE Held(q)'
  BY <1>2, <1>3, <1>5, OtherRun, TablesHeld DEF Aside
<1>6. CASE ~Recording(q)'  BY <1>6
<1>7. CASE Begin(q)
  <2>1. work' = rows /\ rows' = rows  BY <1>7 DEF Begin
  <2> QED  BY <2>1
<1>8. CASE StartRepair(q)
  <2>1. UNCHANGED <<rows, work, mode, cand, before, quiet>> /\ Recording(q)
    BY <1>8 DEF StartRepair, db, opts, hist, Recording
  <2> QED  BY <1>0, <2>1
<1>9. ASSUME NEW g \in Files, Visit(q, g), ~Stop(q)  PROVE Held(q)'
  <2>1. UNCHANGED <<mode, quiet, pc, cand, rows>> /\ Recording(q)
    BY <1>2, <1>9, VisitAnswers, VisitDeals, VisitWork
  <2>2. before[q] \subseteq before'[q] /\ \A f \in Files \ {g} : work'[f] = work[f]
    BY <1>2, <1>9, VisitCaptures, VisitWork
  <2>3. ASSUME mode[q] = "changed", work[g] # None, NEW e \in work[g].edges, Sole(e.spec),
               e.to \in cand[q]
        PROVE  e.to \in before'[q] \/ (work'[g] # None /\ e \in work'[g].edges)
    <3>1. CASE work'[g] = work[g] \/ Touched(q, g)  BY <2>3, <3>1 DEF Touched
    <3>2. work[g] \in Row /\ e \in Edge /\ e.to \in Files
      BY <1>2, <2>3 DEF TablesType, Row, RunType
    <3>3. e.res = "resolved" /\ e.to # None  BY <3>2, DataAssumption DEF Edge
    <3>4. CASE Record(q, g) /\ RecordedNow(q, g)
      <4>1. CASE NewText(g, got[q][g])
        <5>1. Targets(g) \subseteq before[q]
          BY <2>1, <2>3, <3>4, <4>1 DEF CapturedTrue, Record
        <5>2. e.to \in Targets(g)  BY <2>3, <3>3 DEF Targets
        <5> QED  BY <2>2, <5>1, <5>2
      <4>2. CASE ~NewText(g, got[q][g])
        <5>1. UNCHANGED work  BY <3>4, <4>2 DEF Record
        <5> QED  BY <3>1, <5>1
      <4> QED  BY <4>1, <4>2
    <3>5. CASE (RepairParsed(q, g) \/ RepairRead(q, g)) /\ RecordedNow(q, g)
      <4>1. work'[g].hash = work[g].hash
        BY <1>9, <2>1, <3>5, RepairSame DEF RecordInv
      <4>2. work'[g] # None /\ work'[g] = Recorded(q, g, got'[q][g], stat[q][g])
        BY <3>5 DEF RecordedNow
      <4>3. e.spec \in SpecsOf[got'[q][g]] /\ \E i \in DOMAIN Candidates[e.spec] : e.to = Candidates[e.spec][i]
        BY <2>3, <3>3, <4>1, <4>2 DEF PointInv, NamesTrue, Recorded
      <4> DEFINE now == Resolve(e.spec, cand[q])
      <4>4. now \in work'[g].edges  BY <4>2, <4>3 DEF Recorded, EdgesOf
      <4>5. e.spec \in Specs /\ cand[q] \in SUBSET Files  BY <1>2, <3>2 DEF Edge, RunType
      <4>6. now.spec = e.spec /\ now.res = "resolved"
        BY <2>3, <4>3, <4>5, ResolveTrue
      <4>7. now.to = e.to  BY <2>3, <4>3, <4>5, <4>6, ResolveTrue DEF Sole
      <4>8. now \in Edge  BY <4>5, ResolveType
      <4> HIDE DEF now
      <4>9. now = e
        <5>1. /\ now \in [spec : Specs, res : {"resolved"}, to : Files]
              /\ e \in [spec : Specs, res : {"resolved"}, to : Files]
          BY <3>2, <3>3, <4>6, <4>8 DEF Edge
        <5> QED  BY <4>6, <4>7, <3>3, <5>1
      <4> QED  BY <4>2, <4>4, <4>9
    <3> QED  BY <1>2, <1>9, <3>1, <3>4, <3>5, VisitWork DEF RecordedNow
  <2>4. ASSUME mode[q] = "changed", NEW f \in Files, rows[f] # None, NEW e \in rows[f].edges,
               Sole(e.spec), e.to \in cand[q]
        PROVE  e.to \in before'[q] \/ (work'[f] # None /\ e \in work'[f].edges)
    <3>1. e.to \in before[q] \/ (work[f] # None /\ e \in work[f].edges)
      BY <1>0, <2>1, <2>4
    <3> QED  BY <2>2, <2>3, <2>4, <3>1
  <2> QED  BY <2>1, <2>4
<1> QED  BY <1>1, <1>2, <1>4, <1>5, <1>6, <1>7, <1>8, <1>9, Turns, RecordingTurns

LEMMA LostInit ==
  ASSUME Init
  PROVE  LostInv
BY DEF Init, LostInv, KeptTrue, CapturedTrue

(* Until it commits, an undisturbed --changed run has captured or still    *)
(* holds every target that the committed index points at.                  *)
THEOREM LostInvariance == Spec => []LostInv
<1>1. RunsInv /\ RunsInv' /\ PointInv /\ LostInv /\ [Next]_vars => LostInv'
  BY KeptStep, CapturedStep DEF LostInv
<1> QED  BY <1>1, LostInit, RunsInvariance, PointInvariance, PTL DEF Spec

(* What a committed table points at through a specifier of one meaning. *)
SolePointed ==
  UNION {IF rows[f] = None THEN {} ELSE
         {e.to : e \in {x \in rows[f].edges : Sole(x.spec)}} \ {None} : f \in Files}

(* LostTargetsCaptured, of the files reached through such a specifier. *)
SoleCaptured ==
  [][\A r \in Runs : Commit(r) /\ r \in quiet /\ mode[r] = "changed" =>
       cand[r] \cap SolePointed \subseteq PointedAt(rows') \cup before'[r]]_vars

LEMMA CommitCaptures ==
  ASSUME RunsInv, LostInv, NEW r \in quiet, Commit(r), mode[r] = "changed"
  PROVE  cand[r] \cap SolePointed \subseteq PointedAt(rows') \cup before'[r]
<1> USE DEF RunsInv, IInv, TypeOK
<1>1. r \in Runs /\ Recording(r) /\ rows' = Pruned(r)  BY DEF ReportType, Commit, Recording
<1>2. before'[r] = before[r] \cup UNION {Targets(f) : f \in Departed(r)}
  BY <1>1 DEF Commit, SetsType
<1> SUFFICES ASSUME NEW f \in Files, rows[f] # None, NEW e \in rows[f].edges, Sole(e.spec),
                    e.to # None, e.to \in cand[r]
             PROVE  e.to \in PointedAt(rows') \cup before'[r]
  BY DEF SolePointed
<1>3. CASE e.to \in before[r]  BY <1>2, <1>3
<1>4. CASE work[f] # None /\ e \in work[f].edges
  <2>1. CASE f \in Departed(r)
    <3>1. e.to \in Targets(f)  BY <1>4 DEF Targets
    <3> QED  BY <1>2, <2>1, <3>1
  <2>2. CASE f \notin Departed(r)
    <3>1. Pruned(r)[f] # None  BY <1>1, <1>4, <2>2, PrunedRow
    <3>2. e.to \notin Departed(r)  BY DEF Departed
    <3>3. e \in Pruned(r)[f].edges  BY <1>1, <1>4, <3>1, <3>2, PrunedEdges
    <3>4. e.to \in {x.to : x \in Pruned(r)[f].edges} \ {None}  BY <3>3
    <3> QED  BY <1>1, <3>1, <3>4 DEF PointedAt
  <2> QED  BY <2>1, <2>2
<1> QED  BY <1>1, <1>3, <1>4 DEF LostInv, KeptTrue

(* An undisturbed --changed run captures every file that loses the last    *)
(* import that can only mean it.                                           *)
THEOREM SoleTargetsCaptured == Spec => SoleCaptured
<1>1. RunsInv /\ LostInv /\ [Next]_vars =>
        [\A r \in Runs : Commit(r) /\ r \in quiet /\ mode[r] = "changed" =>
           cand[r] \cap SolePointed \subseteq PointedAt(rows') \cup before'[r]]_vars
  BY CommitCaptures
<1> QED  BY <1>1, RunsInvariance, LostInvariance, PTL DEF Spec, SoleCaptured

(* Where no two files compete for a specifier, that is every file that     *)
(* loses its last importer.                                                *)
THEOREM TargetsCaptured ==
  ASSUME Unrivalled
  PROVE  Spec => LostTargetsCaptured
<1>1. TypeOK => PointedAt(rows) \subseteq SolePointed
  <2> SUFFICES ASSUME TypeOK, NEW f \in Files, rows[f] # None, NEW e \in rows[f].edges, e.to # None
               PROVE  e.to \in SolePointed
    BY DEF PointedAt
  <2>1. rows[f] \in Row /\ e \in Edge  BY DEF TypeOK, TablesType, Row
  <2>2. e \in {x \in rows[f].edges : Sole(x.spec)}  BY <2>1 DEF Edge, Unrivalled
  <2> QED  BY <2>2 DEF SolePointed
<1>2. RunsInv /\ LostInv /\ [Next]_vars =>
        [\A r \in Runs : Commit(r) /\ r \in quiet /\ mode[r] = "changed" =>
           cand[r] \cap PointedAt(rows) \subseteq PointedAt(rows') \cup before'[r]]_vars
  <2>1. ASSUME RunsInv, LostInv, NEW r \in quiet, Commit(r), mode[r] = "changed"
        PROVE  cand[r] \cap PointedAt(rows) \subseteq PointedAt(rows') \cup before'[r]
    BY <1>1, <2>1, CommitCaptures DEF RunsInv, IInv
  <2> QED  BY <2>1
<1> QED  BY <1>2, RunsInvariance, LostInvariance, PTL DEF Spec, LostTargetsCaptured
=============================================================================
