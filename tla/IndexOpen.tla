----------------------------- MODULE IndexOpen -----------------------------
(***************************************************************************)
(* Opening the index database (crates/core/src/index.rs): check the schema *)
(* of whatever is at the path, throw it away when this build cannot use    *)
(* it, create the tables and stamp them.  No lock spans the steps, and     *)
(* builds with different schemas may share the path.                       *)
(*                                                                         *)
(* Abstractions.  A database is a file that outlives its name: a process   *)
(* keeps the one it opened.  The file and its write-ahead log are removed  *)
(* in one step.  SCHEMA's statements are two: the per-file tables, whose   *)
(* columns differ between builds, and then meta, the last of them.         *)
(***************************************************************************)
EXTENDS Naturals

CONSTANTS
  Procs,      \* processes that open the index
  Versions,   \* schema versions
  Build,      \* Build[p]: the SCHEMA_VERSION p was compiled with
  Dbs,        \* database files, more of them than processes
  None,       \* no file, no stamp, no tables
  Rush,       \* TRUE: processes start whenever they like.  FALSE: one starts
              \* beside others only when the database is theirs already
  MaxFaults   \* bound on crashes and corruptions

OpenAssumption ==
  /\ None \notin Dbs \cup Versions
  /\ Build \in [Procs -> Versions]
  /\ Rush \in BOOLEAN /\ MaxFaults \in Nat

VARIABLES
  path,      \* the database the path names, or None
  db,        \* db[d]: tables, meta, stamp, bad
  conn,      \* conn[p]: the database p holds open, or None
  pc,        \* where p is
  faults,    \* faults so far
  cutShort   \* history: a process died between creating and stamping

vars == <<path, db, conn, pc, faults, cutShort>>

-----------------------------------------------------------------------------
(* Faulty forms of definitions below, each a bug this code could have. *)

(* should_rebuild says yes to a busy database too. *)
RebuildsBusy(p) == TRUE

(* A database that cannot be removed is kept, and stamped. *)
RemoveIgnored(p) ==
  pc' = [pc EXCEPT ![p] = "create"] /\ conn' = [conn EXCEPT ![p] = path]

(* The same, on the connection that was dropped. *)
RemoveUnseen(p) == pc' = [pc EXCEPT ![p] = "create"] /\ UNCHANGED conn

-----------------------------------------------------------------------------
Database == [tables : Versions \cup {None}, meta : BOOLEAN,
             stamp : Versions \cup {None}, bad : BOOLEAN]

(* What Connection::open makes of a path with nothing there. *)
NewFile ==
  [tables |-> None, meta |-> FALSE, stamp |-> None, bad |-> FALSE]

Unused == {d \in Dbs : d # path /\ \A p \in Procs : conn[p] # d}

At(p) == db[conn[p]]

(* open_with_timeout: the file at the path, created when there is none. *)
Connect(p) ==
  IF path # None
  THEN conn' = [conn EXCEPT ![p] = path] /\ UNCHANGED <<path, db>>
  ELSE \E d \in Unused :
         /\ path' = d
         /\ db' = [db EXCEPT ![d] = NewFile]
         /\ conn' = [conn EXCEPT ![p] = d]

GoTo(p, where) == pc' = [pc EXCEPT ![p] = where]

Established(p) == path # None /\ db[path].stamp = Build[p] /\ ~db[path].bad

MayStart(p) ==
  Rush \/ \A q \in Procs : pc[q] = "closed" \/ (pc[q] = "ready" /\ Established(p))

Open(p) ==
  /\ pc[p] = "closed"
  /\ MayStart(p)
  /\ Connect(p)
  /\ GoTo(p, "check")
  /\ UNCHANGED <<faults, cutShort>>

(* schema_matches: a database without meta is a fresh one. *)
Matches(p) == ~At(p).meta \/ At(p).stamp = Build[p]

(* should_rebuild: bytes that are no database, never one in use. *)
ShouldRebuild(p) == At(p).bad

SchemaKept(p) ==
  /\ pc[p] = "check" /\ ~At(p).bad /\ Matches(p)
  /\ GoTo(p, "create")
  /\ UNCHANGED <<path, db, conn, faults, cutShort>>

(* The connection is dropped, the files are still there. *)
SchemaStale(p) ==
  /\ pc[p] = "check"
  /\ At(p).bad \/ ~Matches(p)
  /\ conn' = [conn EXCEPT ![p] = None]
  /\ GoTo(p, "remove")
  /\ UNCHANGED <<path, db, faults, cutShort>>

(* The read of the schema fails: busy behind another process, or an I/O    *)
(* error.  Only a corrupt file is thrown away for that.                    *)
SchemaUnread(p) ==
  /\ pc[p] = "check"
  /\ conn' = [conn EXCEPT ![p] = None]
  /\ GoTo(p, IF ShouldRebuild(p) THEN "remove" ELSE "closed")
  /\ UNCHANGED <<path, db, faults, cutShort>>

(* remove_database_files: whatever the path names by now. *)
RemoveFiles(p) ==
  /\ pc[p] = "remove"
  /\ path' = None
  /\ GoTo(p, "reopen")
  /\ UNCHANGED <<db, conn, faults, cutShort>>

(* A failure to remove surfaces. *)
RemoveError(p) == GoTo(p, "closed") /\ conn' = [conn EXCEPT ![p] = None]

RemoveFails(p) ==
  /\ pc[p] = "remove"
  /\ path # None
  /\ RemoveError(p)
  /\ UNCHANGED <<path, db, faults, cutShort>>

Reopen(p) ==
  /\ pc[p] = "reopen"
  /\ Connect(p)
  /\ GoTo(p, "create")
  /\ UNCHANGED <<faults, cutShort>>

(* init: CREATE TABLE IF NOT EXISTS leaves the tables that are there. *)
CreateTables(p) ==
  /\ pc[p] = "create" /\ ~At(p).bad
  /\ db' = [db EXCEPT ![conn[p]].tables = IF @ = None THEN Build[p] ELSE @]
  /\ GoTo(p, "meta")
  /\ UNCHANGED <<path, conn, faults, cutShort>>

CreateMeta(p) ==
  /\ pc[p] = "meta" /\ ~At(p).bad
  /\ db' = [db EXCEPT ![conn[p]].meta = TRUE]
  /\ GoTo(p, "stamp")
  /\ UNCHANGED <<path, conn, faults, cutShort>>

Stamp(p) ==
  /\ pc[p] = "stamp" /\ ~At(p).bad
  /\ db' = [db EXCEPT ![conn[p]].stamp = Build[p]]
  /\ GoTo(p, "ready")
  /\ UNCHANGED <<path, conn, faults, cutShort>>

(* The run is over, or an error ended it: a statement of init that failed, *)
(* a column that is not there.                                             *)
Close(p) ==
  /\ pc[p] \in {"ready", "create", "meta", "stamp"}
  /\ pc[p] # "ready" => At(p).bad
  /\ conn' = [conn EXCEPT ![p] = None]
  /\ GoTo(p, "closed")
  /\ UNCHANGED <<path, db, faults, cutShort>>

(* The process is killed, at any step. *)
Crash(p) ==
  /\ pc[p] # "closed"
  /\ faults < MaxFaults
  /\ faults' = faults + 1
  /\ cutShort' = (cutShort \/ pc[p] \in {"meta", "stamp"})
  /\ conn' = [conn EXCEPT ![p] = None]
  /\ GoTo(p, "closed")
  /\ UNCHANGED <<path, db>>

(* The file at the path is damaged. *)
Corrupt ==
  /\ path # None /\ ~db[path].bad
  /\ faults < MaxFaults
  /\ faults' = faults + 1
  /\ db' = [db EXCEPT ![path].bad = TRUE]
  /\ UNCHANGED <<path, conn, pc, cutShort>>

Init ==
  /\ path = None
  /\ db = [d \in Dbs |-> NewFile]
  /\ conn = [p \in Procs |-> None]
  /\ pc = [p \in Procs |-> "closed"]
  /\ faults = 0
  /\ cutShort = FALSE

Next ==
  \/ \E p \in Procs :
       \/ Open(p) \/ SchemaKept(p) \/ SchemaStale(p) \/ SchemaUnread(p)
       \/ RemoveFiles(p) \/ RemoveFails(p) \/ Reopen(p)
       \/ CreateTables(p) \/ CreateMeta(p) \/ Stamp(p)
       \/ Close(p) \/ Crash(p)
  \/ Corrupt

Spec == Init /\ [][Next]_vars

-----------------------------------------------------------------------------
TypeOK ==
  /\ path \in Dbs \cup {None}
  /\ db \in [Dbs -> Database]
  /\ conn \in [Procs -> Dbs \cup {None}]
  /\ pc \in [Procs -> {"closed", "check", "remove", "reopen", "create", "meta",
                       "stamp", "ready"}]
  /\ faults \in 0..MaxFaults
  /\ cutShort \in BOOLEAN
  /\ \A p \in Procs :
       pc[p] \in {"check", "create", "meta", "stamp", "ready"} <=> conn[p] # None

(* No database says it has a schema its tables do not have: the mismatch   *)
(* would be hidden for ever (remove_database_files).  It needs creations   *)
(* that are not cut short, since meta comes last and its absence reads as  *)
(* fresh.                                                                  *)
NeverMislabelled ==
  ~cutShort => \A d \in Dbs : db[d].stamp # None => db[d].tables = db[d].stamp

(* Runs that are going share the database at the path (init: "two runs     *)
(* against one repository share a database"): nobody records into a file   *)
(* that another process has thrown away, unless it was damaged.            *)
ReadyShares ==
  \A p \in Procs : pc[p] = "ready" /\ ~At(p).bad => conn[p] = path
=============================================================================
