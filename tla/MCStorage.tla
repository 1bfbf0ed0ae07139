------------------------------ MODULE MCStorage ------------------------------
(***************************************************************************)
(* The files locrin keeps in a repository, for TLC: the committed baseline, *)
(* the index database and what init writes.  They share no step, so a       *)
(* behavior is one part's: `part` says whose, and the other variables stay  *)
(* where they start.                                                        *)
(***************************************************************************)
EXTENDS Baseline, TLC

CONSTANTS
  p1, p2, q,                                \* processes
  Procs, Versions, Build, Dbs, MaxFaults,   \* IndexOpen
  Wanted, Variant, Own, MaxEdits            \* InitRun

VARIABLES
  part,                                           \* whose behavior this is
  indexPath, db, conn, at, faults, cutShort,      \* IndexOpen
  docs, toml, gate, signed, place, step, planned, \* InitRun
  touched, named, wrote, ended, kept, raced, settled, edits

openVars == <<indexPath, db, conn, at, faults, cutShort>>
setupVars == <<docs, toml, gate, signed, place, step, planned, touched, named,
               wrote, ended, kept, raced, settled, edits>>
storageVars == <<part, vars, openVars, setupVars>>

Open == INSTANCE IndexOpen WITH path <- indexPath, pc <- at, Rush <- FALSE
Setup == INSTANCE InitRun WITH mine <- kept

(* The constants are what the other two parts ask of them. *)
ASSUME OpenFits == Open!OpenAssumption
ASSUME SetupFits == Setup!InitAssumption

-----------------------------------------------------------------------------
SetupRest ==
  /\ docs = [d \in DOMAIN Wanted |-> Setup!Absent]
  /\ toml = "absent" /\ gate = "none" /\ place = "bare"

StorageInit ==
  /\ Init /\ Open!Init /\ Setup!Init
  /\ part \in {"baseline", "index", "setup"}
  /\ part # "baseline" => findings = {}
  /\ part # "setup" => SetupRest

BaselineStep == part = "baseline" /\ Next /\ UNCHANGED <<part, openVars, setupVars>>
OpenStep == part = "index" /\ Open!Next /\ UNCHANGED <<part, vars, setupVars>>
SetupStep == part = "setup" /\ Setup!Next /\ UNCHANGED <<part, vars, openVars>>

StorageSpec == StorageInit /\ [][BaselineStep \/ OpenStep \/ SetupStep]_storageVars

-----------------------------------------------------------------------------
(* The types of Baseline and IndexOpen; a process has a database open       *)
(* exactly where its steps use one.                                         *)
StorageType == TypeOK /\ Open!TypeOK

(* IndexOpen: no database carries the stamp of a schema its tables are not  *)
(* of, unless a creation was cut short.                                     *)
NeverMislabelled == Open!NeverMislabelled

(* IndexOpen: who is ready to record has the database at the path open,     *)
(* unless it was damaged.                                                   *)
ReadyShares == Open!ReadyShares

(* InitRun: a run names every file it changed, however it ends; the user's  *)
(* entries survive, are never doubled, and a second run changes nothing.    *)
InitSafe == Setup!InitSafe

-----------------------------------------------------------------------------
(* Two processes of one build and one of an older one. *)
OneOlder == [p \in Procs |-> IF p = q THEN 4 ELSE 5]

(* The two documents init merges into, and the user's form of each entry. *)
TwoDocuments == ("settings" :> {"stop"}) @@ ("mcp" :> {"server"})
UsersForms == ("stop" :> "my stop") @@ ("server" :> "my server")

(* Databases and the baseline's inodes are one set of files, all alike. *)
FileSymmetry == Permutations(Inodes)
==============================================================================
