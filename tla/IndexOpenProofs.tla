-------------------------- MODULE IndexOpenProofs --------------------------
(* What holds of IndexOpen for every set of processes, builds and files.   *)
(* The types hold however processes start.  The rest is for runs that do   *)
(* not start on top of an opening that is going on (Rush = FALSE): then    *)
(* one process opens at a time (OneOpens), holding the file at the path    *)
(* (OpensPath), whoever is ready beside it sees it keep that file or lost  *)
(* it to damage (ReadyKeeps), and the tables under its hands are its own   *)
(* (InHandTrue).  A file without meta has no tables unless a creation was  *)
(* cut short (FreshEmpty), which is what schema_matches takes for granted. *)
EXTENDS IndexOpen, TLAPS

-----------------------------------------------------------------------------
Opening(p) == pc[p] \notin {"closed", "ready"}

OneOpens == \A p, q \in Procs : Opening(p) /\ Opening(q) => p = q

OpensPath ==
  \A p \in Procs :
    /\ pc[p] \in {"check", "create", "meta", "stamp"} => conn[p] = path
    /\ pc[p] = "reopen" => path = None

(* Beside a process that checks, the others' database is the checker's own *)
(* schema; beside one that removes, they have lost theirs to damage.       *)
ReadyKeeps ==
  \A p, q \in Procs :
    pc[q] = "ready" /\ ~At(q).bad =>
      /\ pc[p] = "check" => At(q).stamp = Build[p]
      /\ pc[p] \notin {"remove", "reopen"}

InHandTrue ==
  ~cutShort => \A p \in Procs :
    /\ pc[p] = "create" /\ ~At(p).bad => At(p).tables \in {None, Build[p]}
    /\ pc[p] \in {"meta", "stamp"} => At(p).tables = Build[p]

FreshEmpty ==
  ~cutShort => \A d \in Dbs :
    db[d].meta \/ db[d].bad \/ db[d].tables = None
      \/ \E p \in Procs : pc[p] = "meta" /\ conn[p] = d

IInv ==
  /\ TypeOK
  /\ OneOpens /\ OpensPath
  /\ ReadyShares /\ ReadyKeeps
  /\ InHandTrue /\ FreshEmpty /\ NeverMislabelled

-----------------------------------------------------------------------------
(* Connecting takes the file at the path, or puts a new one there that no  *)
(* process holds.                                                          *)
LEMMA Connected ==
  ASSUME OpenAssumption, TypeOK, NEW p \in Procs, Connect(p)
  PROVE  /\ path' \in Dbs /\ conn' = [conn EXCEPT ![p] = path']
         /\ db' \in [Dbs -> Database]
         /\ path # None => path' = path /\ db' = db
         /\ path = None =>
              /\ \A q \in Procs : conn[q] # path'
              /\ db' = [db EXCEPT ![path'] = NewFile]
<1>1. CASE path # None
  BY <1>1 DEF Connect, TypeOK
<1>2. CASE path = None
  <2>1. PICK d \in Unused : /\ path' = d
                            /\ db' = [db EXCEPT ![d] = NewFile]
                            /\ conn' = [conn EXCEPT ![p] = d]
    BY <1>2 DEF Connect
  <2>2. d \in Dbs /\ \A q \in Procs : conn[q] # d  BY DEF Unused
  <2>3. NewFile \in Database  BY DEF NewFile, Database
  <2> QED  BY <1>2, <2>1, <2>2, <2>3 DEF TypeOK
<1> QED  BY <1>1, <1>2

LEMMA InitType ==
  ASSUME OpenAssumption, Init
  PROVE  TypeOK
<1>1. faults \in 0..MaxFaults  BY DEF OpenAssumption, Init
<1>2. db \in [Dbs -> Database]  BY DEF Init, NewFile, Database
<1>3. /\ pc \in [Procs -> {"closed", "check", "remove", "reopen", "create",
                            "meta", "stamp", "ready"}]
      /\ path \in Dbs \cup {None} /\ conn \in [Procs -> Dbs \cup {None}]
      /\ cutShort \in BOOLEAN
  BY DEF Init
<1>4. \A p \in Procs : pc[p] = "closed" /\ conn[p] = None  BY DEF Init
<1> QED  BY <1>1, <1>2, <1>3, <1>4 DEF TypeOK

(* Every step keeps the types, however processes start. *)
LEMMA TypeStep ==
  ASSUME OpenAssumption, TypeOK, [Next]_vars
  PROVE  TypeOK'
<1> USE DEF OpenAssumption, TypeOK, Database, At
<1>1. ASSUME NEW p \in Procs, Open(p)  PROVE TypeOK'
  <2>1. path' \in Dbs /\ conn' = [conn EXCEPT ![p] = path'] /\ db' \in [Dbs -> Database]
    BY <1>1, Connected DEF Open
  <2> QED  BY <1>1, <2>1 DEF Open, GoTo
<1>2. ASSUME NEW p \in Procs, SchemaKept(p)  PROVE TypeOK'
  BY <1>2 DEF SchemaKept, GoTo
<1>3. ASSUME NEW p \in Procs, SchemaStale(p)  PROVE TypeOK'
  BY <1>3 DEF SchemaStale, GoTo
<1>4. ASSUME NEW p \in Procs, SchemaUnread(p)  PROVE TypeOK'
  BY <1>4 DEF SchemaUnread, ShouldRebuild, GoTo
<1>5. ASSUME NEW p \in Procs, RemoveFiles(p)  PROVE TypeOK'
  BY <1>5 DEF RemoveFiles, GoTo
<1>6. ASSUME NEW p \in Procs, RemoveFails(p)  PROVE TypeOK'
  <2>1. /\ pc' = [pc EXCEPT ![p] = "closed"] /\ conn' = [conn EXCEPT ![p] = None]
        /\ UNCHANGED <<path, db, faults, cutShort>>
    BY <1>6 DEF RemoveFails, RemoveError, GoTo
  <2> QED  BY <2>1
<1>7. ASSUME NEW p \in Procs, Reopen(p)  PROVE TypeOK'
  <2>1. path' \in Dbs /\ conn' = [conn EXCEPT ![p] = path'] /\ db' \in [Dbs -> Database]
    BY <1>7, Connected DEF Reopen
  <2> QED  BY <1>7, <2>1 DEF Reopen, GoTo
<1>8. ASSUME NEW p \in Procs, CreateTables(p)  PROVE TypeOK'
  BY <1>8 DEF CreateTables, GoTo
<1>9. ASSUME NEW p \in Procs, CreateMeta(p)  PROVE TypeOK'
  BY <1>9 DEF CreateMeta, GoTo
<1>10. ASSUME NEW p \in Procs, Stamp(p)  PROVE TypeOK'
  BY <1>10 DEF Stamp, GoTo
<1>11. ASSUME NEW p \in Procs, Close(p)  PROVE TypeOK'
  BY <1>11 DEF Close, GoTo
<1>12. ASSUME NEW p \in Procs, Crash(p)  PROVE TypeOK'
  <2>1. faults' \in 0..MaxFaults /\ cutShort' \in BOOLEAN  BY <1>12 DEF Crash
  <2>2. /\ pc' = [pc EXCEPT ![p] = "closed"] /\ conn' = [conn EXCEPT ![p] = None]
        /\ UNCHANGED <<path, db>>
    BY <1>12 DEF Crash, GoTo
  <2>3. \A q \in Procs :
          pc'[q] \in {"check", "create", "meta", "stamp", "ready"} <=> conn'[q] # None
    BY <2>2
  <2>4. /\ path' \in Dbs \cup {None} /\ db' \in [Dbs -> Database]
        /\ conn' \in [Procs -> Dbs \cup {None}]
        /\ pc' \in [Procs -> {"closed", "check", "remove", "reopen", "create", "meta",
                              "stamp", "ready"}]
    BY <2>2
  <2> QED  BY <2>1, <2>3, <2>4
<1>13. CASE Corrupt
  <2>1. path \in Dbs /\ faults' \in 0..MaxFaults  BY <1>13 DEF Corrupt
  <2>2. \A x \in Database : [x EXCEPT !.bad = TRUE] \in Database  OBVIOUS
  <2>3. db' = [db EXCEPT ![path] = [@ EXCEPT !.bad = TRUE]]  BY <1>13 DEF Corrupt
  <2>4. db' \in [Dbs -> Database]  BY <2>1, <2>2, <2>3
  <2> QED  BY <1>13, <2>1, <2>4 DEF Corrupt
<1>14. CASE UNCHANGED vars  BY <1>14 DEF vars
<1> QED
  BY <1>1, <1>2, <1>3, <1>4, <1>5, <1>6, <1>7, <1>8, <1>9, <1>10, <1>11, <1>12, <1>13, <1>14 DEF Next

(* One process opens at a time, and what it holds is what the path names. *)
LEMMA OneStep ==
  ASSUME OpenAssumption, Rush = FALSE, TypeOK, OneOpens, OpensPath, [Next]_vars
  PROVE  (OneOpens /\ OpensPath)'
<1> USE DEF OpenAssumption, TypeOK, OneOpens, OpensPath, Opening, At
<1>1. ASSUME NEW p \in Procs, Open(p)  PROVE (OneOpens /\ OpensPath)'
  BY <1>1, Connected DEF Open, GoTo, MayStart
<1>2. ASSUME NEW p \in Procs, SchemaKept(p)  PROVE (OneOpens /\ OpensPath)'
  BY <1>2 DEF SchemaKept, GoTo
<1>3. ASSUME NEW p \in Procs, SchemaStale(p)  PROVE (OneOpens /\ OpensPath)'
  BY <1>3 DEF SchemaStale, GoTo
<1>4. ASSUME NEW p \in Procs, SchemaUnread(p)  PROVE (OneOpens /\ OpensPath)'
  BY <1>4 DEF SchemaUnread, ShouldRebuild, GoTo
<1>5. ASSUME NEW p \in Procs, RemoveFiles(p)  PROVE (OneOpens /\ OpensPath)'
  BY <1>5 DEF RemoveFiles, GoTo
<1>6. ASSUME NEW p \in Procs, RemoveFails(p)  PROVE (OneOpens /\ OpensPath)'
  BY <1>6 DEF RemoveFails, RemoveError, GoTo
<1>7. ASSUME NEW p \in Procs, Reopen(p)  PROVE (OneOpens /\ OpensPath)'
  BY <1>7, Connected DEF Reopen, GoTo
<1>8. ASSUME NEW p \in Procs, CreateTables(p)  PROVE (OneOpens /\ OpensPath)'
  BY <1>8 DEF CreateTables, GoTo
<1>9. ASSUME NEW p \in Procs, CreateMeta(p)  PROVE (OneOpens /\ OpensPath)'
  BY <1>9 DEF CreateMeta, GoTo
<1>10. ASSUME NEW p \in Procs, Stamp(p)  PROVE (OneOpens /\ OpensPath)'
  BY <1>10 DEF Stamp, GoTo
<1>11. ASSUME NEW p \in Procs, Close(p)  PROVE (OneOpens /\ OpensPath)'
  BY <1>11 DEF Close, GoTo
<1>12. ASSUME NEW p \in Procs, Crash(p)  PROVE (OneOpens /\ OpensPath)'
  BY <1>12 DEF Crash, GoTo
<1>13. CASE Corrupt  BY <1>13 DEF Corrupt
<1>14. CASE UNCHANGED vars  BY <1>14 DEF vars
<1> QED
  BY <1>1, <1>2, <1>3, <1>4, <1>5, <1>6, <1>7, <1>8, <1>9, <1>10, <1>11, <1>12, <1>13, <1>14 DEF Next

(* Who is ready keeps the file at the path, or has lost it to damage. *)
LEMMA ReadyStep ==
  ASSUME OpenAssumption, Rush = FALSE, TypeOK, OneOpens, OpensPath,
         ReadyShares, ReadyKeeps, [Next]_vars
  PROVE  (ReadyShares /\ ReadyKeeps)'
<1> USE DEF OpenAssumption, TypeOK, Database, OneOpens, OpensPath, ReadyShares, ReadyKeeps,
          Opening, At
<1>1. ASSUME NEW p \in Procs, Open(p)  PROVE (ReadyShares /\ ReadyKeeps)'
  BY <1>1, Connected DEF Open, GoTo, MayStart, Established
<1>2. ASSUME NEW p \in Procs, SchemaKept(p)  PROVE (ReadyShares /\ ReadyKeeps)'
  BY <1>2 DEF SchemaKept, GoTo
<1>3. ASSUME NEW p \in Procs, SchemaStale(p)  PROVE (ReadyShares /\ ReadyKeeps)'
  BY <1>3 DEF SchemaStale, GoTo, Matches
<1>4. ASSUME NEW p \in Procs, SchemaUnread(p)  PROVE (ReadyShares /\ ReadyKeeps)'
  BY <1>4 DEF SchemaUnread, ShouldRebuild, GoTo
<1>5. ASSUME NEW p \in Procs, RemoveFiles(p)  PROVE (ReadyShares /\ ReadyKeeps)'
  BY <1>5 DEF RemoveFiles, GoTo
<1>6. ASSUME NEW p \in Procs, RemoveFails(p)  PROVE (ReadyShares /\ ReadyKeeps)'
  BY <1>6 DEF RemoveFails, RemoveError, GoTo
<1>7. ASSUME NEW p \in Procs, Reopen(p)  PROVE (ReadyShares /\ ReadyKeeps)'
  BY <1>7, Connected DEF Reopen, GoTo
<1>8. ASSUME NEW p \in Procs, CreateTables(p)  PROVE (ReadyShares /\ ReadyKeeps)'
  BY <1>8 DEF CreateTables, GoTo
<1>9. ASSUME NEW p \in Procs, CreateMeta(p)  PROVE (ReadyShares /\ ReadyKeeps)'
  BY <1>9 DEF CreateMeta, GoTo
<1>10. ASSUME NEW p \in Procs, Stamp(p)  PROVE (ReadyShares /\ ReadyKeeps)'
  BY <1>10 DEF Stamp, GoTo
<1>11. ASSUME NEW p \in Procs, Close(p)  PROVE (ReadyShares /\ ReadyKeeps)'
  BY <1>11 DEF Close, GoTo
<1>12. ASSUME NEW p \in Procs, Crash(p)  PROVE (ReadyShares /\ ReadyKeeps)'
  BY <1>12 DEF Crash, GoTo
<1>13. CASE Corrupt  BY <1>13 DEF Corrupt
<1>14. CASE UNCHANGED vars  BY <1>14 DEF vars
<1> QED
  BY <1>1, <1>2, <1>3, <1>4, <1>5, <1>6, <1>7, <1>8, <1>9, <1>10, <1>11, <1>12, <1>13, <1>14 DEF Next

(* No tables of one schema under the stamp of another. *)
LEMMA TablesStep ==
  ASSUME OpenAssumption, Rush = FALSE, TypeOK, OneOpens, OpensPath,
         InHandTrue, FreshEmpty, NeverMislabelled, [Next]_vars
  PROVE  (InHandTrue /\ FreshEmpty /\ NeverMislabelled)'
<1> USE DEF OpenAssumption, TypeOK, Database, OneOpens, OpensPath, InHandTrue, FreshEmpty,
          NeverMislabelled, Opening, At
<1>1. ASSUME NEW p \in Procs, Open(p)  PROVE (InHandTrue /\ FreshEmpty /\ NeverMislabelled)'
  BY <1>1, Connected, SMTT(30) DEF Open, GoTo, NewFile
<1>2. ASSUME NEW p \in Procs, SchemaKept(p)  PROVE (InHandTrue /\ FreshEmpty /\ NeverMislabelled)'
  BY <1>2 DEF SchemaKept, GoTo, Matches
<1>3. ASSUME NEW p \in Procs, SchemaStale(p)  PROVE (InHandTrue /\ FreshEmpty /\ NeverMislabelled)'
  BY <1>3 DEF SchemaStale, GoTo
<1>4. ASSUME NEW p \in Procs, SchemaUnread(p)  PROVE (InHandTrue /\ FreshEmpty /\ NeverMislabelled)'
  BY <1>4 DEF SchemaUnread, ShouldRebuild, GoTo
<1>5. ASSUME NEW p \in Procs, RemoveFiles(p)  PROVE (InHandTrue /\ FreshEmpty /\ NeverMislabelled)'
  BY <1>5 DEF RemoveFiles, GoTo
<1>6. ASSUME NEW p \in Procs, RemoveFails(p)  PROVE (InHandTrue /\ FreshEmpty /\ NeverMislabelled)'
  BY <1>6 DEF RemoveFails, RemoveError, GoTo
<1>7. ASSUME NEW p \in Procs, Reopen(p)  PROVE (InHandTrue /\ FreshEmpty /\ NeverMislabelled)'
  BY <1>7, Connected DEF Reopen, GoTo, NewFile
<1>8. ASSUME NEW p \in Procs, CreateTables(p)  PROVE (InHandTrue /\ FreshEmpty /\ NeverMislabelled)'
  BY <1>8 DEF CreateTables, GoTo
<1>9. ASSUME NEW p \in Procs, CreateMeta(p)  PROVE (InHandTrue /\ FreshEmpty /\ NeverMislabelled)'
  BY <1>9 DEF CreateMeta, GoTo
<1>10. ASSUME NEW p \in Procs, Stamp(p)  PROVE (InHandTrue /\ FreshEmpty /\ NeverMislabelled)'
  BY <1>10 DEF Stamp, GoTo
<1>11. ASSUME NEW p \in Procs, Close(p)  PROVE (InHandTrue /\ FreshEmpty /\ NeverMislabelled)'
  BY <1>11 DEF Close, GoTo
<1>12. ASSUME NEW p \in Procs, Crash(p)  PROVE (InHandTrue /\ FreshEmpty /\ NeverMislabelled)'
  <2>1. ~cutShort' => ~cutShort /\ pc[p] \notin {"meta", "stamp"}
    BY <1>12 DEF Crash
  <2>2. /\ pc' = [pc EXCEPT ![p] = "closed"] /\ conn' = [conn EXCEPT ![p] = None]
        /\ UNCHANGED <<path, db>>
    BY <1>12 DEF Crash, GoTo
  <2>3. InHandTrue'  BY <2>1, <2>2
  <2>4. FreshEmpty'  BY <2>1, <2>2
  <2>5. NeverMislabelled'  BY <2>1, <2>2
  <2> QED  BY <2>3, <2>4, <2>5
<1>13. CASE Corrupt  BY <1>13 DEF Corrupt
<1>14. CASE UNCHANGED vars  BY <1>14 DEF vars
<1> QED
  BY <1>1, <1>2, <1>3, <1>4, <1>5, <1>6, <1>7, <1>8, <1>9, <1>10, <1>11, <1>12, <1>13, <1>14 DEF Next

-----------------------------------------------------------------------------
(* A process has a database open exactly where its steps use one, under    *)
(* any schedule, any number of crashes and corruptions.                    *)
THEOREM TypeCorrect ==
  ASSUME OpenAssumption
  PROVE  Spec => []TypeOK
<1>1. Init => TypeOK  BY InitType
<1>2. TypeOK /\ [Next]_vars => TypeOK'  BY TypeStep
<1> QED  BY <1>1, <1>2, PTL DEF Spec

(* The inductive invariant of openings that do not start on one another. *)
THEOREM Invariance ==
  ASSUME OpenAssumption, Rush = FALSE
  PROVE  Spec => []IInv
<1>1. Init => IInv
  <2> SUFFICES ASSUME Init  PROVE IInv
    OBVIOUS
  <2>1. TypeOK  BY InitType
  <2> QED
    BY <2>1 DEF Init, NewFile, IInv, OneOpens, OpensPath, ReadyShares,
       ReadyKeeps, InHandTrue, FreshEmpty, NeverMislabelled, Opening
<1>2. IInv /\ [Next]_vars => IInv'
  BY TypeStep, OneStep, ReadyStep, TablesStep DEF IInv
<1> QED  BY <1>1, <1>2, PTL DEF Spec

(* Whatever builds share a path, and whatever is damaged or killed outside *)
(* a creation, no database carries the stamp of a schema its tables are    *)
(* not of (schema_matches, remove_database_files).                         *)
THEOREM NoneMislabelled ==
  ASSUME OpenAssumption, Rush = FALSE
  PROVE  Spec => []NeverMislabelled
<1>1. IInv => NeverMislabelled  BY DEF IInv
<1> QED  BY <1>1, Invariance, PTL

(* Nobody records into a file another process has thrown away, unless it   *)
(* was damaged: a busy database is never removed (should_rebuild).         *)
THEOREM ReadyTogether ==
  ASSUME OpenAssumption, Rush = FALSE
  PROVE  Spec => []ReadyShares
<1>1. IInv => ReadyShares  BY DEF IInv
<1> QED  BY <1>1, Invariance, PTL

=============================================================================
