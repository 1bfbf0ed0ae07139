------------------------------ MODULE InitRun ------------------------------
(***************************************************************************)
(* `locrin init` (crates/cli/src/init.rs): it reads and decides everything *)
(* first, then writes locrin.toml, merges its entries into two JSON files  *)
(* the user also owns, installs the pre-commit hook, scans, and creates    *)
(* the baseline.  Every step can fail, the process can be killed inside a  *)
(* write, and the user edits the same files.                               *)
(*                                                                         *)
(* Abstractions.  A JSON file is its kind and its set of entries, which    *)
(* two merges of the same file may leave in another order.  A write that   *)
(* is cut short leaves an empty file or one that is not JSON.  The scan    *)
(* (Indexing) and the file the baseline goes to (Baseline) are modelled    *)
(* elsewhere: here they succeed or fail.                                   *)
(***************************************************************************)
EXTENDS Naturals, FiniteSets

CONSTANTS
  Wanted,      \* Wanted[d]: the entries init wants in document d
  Variant,     \* Variant[w]: the user's own form of entry w, which counts as it
  Own,         \* other entries of the user's
  MaxEdits     \* bound on the user's edits

Docs == DOMAIN Wanted
Ours == UNION {Wanted[d] : d \in Docs}
Theirs == Own \cup {Variant[w] : w \in Ours}

InitAssumption ==
  /\ Docs = {"settings", "mcp"}
  /\ \A d \in Docs : Wanted[d] \subseteq DOMAIN Variant
  /\ Theirs \cap Ours = {} /\ MaxEdits \in Nat

VARIABLES
  docs,      \* docs[d]: .claude/settings.json and .mcp.json
  toml,      \* locrin.toml: "absent", "loads" or "typo"
  gate,      \* the pre-commit hook: "none", "plain" (not executable), "ours",
             \* "theirs"
  signed,    \* the baseline exists
  place,     \* what install_pre_commit finds: "git", "husky" or "bare"
  step,      \* where the run is, or "idle"
  planned,   \* planned[d]: the merge decided and not yet written, and (a
             \* history) the document it was decided on
  touched,   \* the lines the run owes its caller
  named,     \* the file the run's error message names, or "none"
  wrote,     \* history: what this run has put bytes in
  ended,     \* how the last run ended: "never", "ok", "error", "killed"
  mine,      \* history: mine[d], the user's entries as the user left them
  raced,     \* history: documents a run overwrote with a plan older than an
             \* edit, or left half written
  settled,   \* history: "yes" when a run ended ok and neither it nor
             \* anything since met an edit, a failure or a kill
  edits      \* edits so far

initVars == <<docs, toml, gate, signed, place, step, planned, touched, named,
              wrote, ended, mine, raced, settled, edits>>

Absent == [kind |-> "absent", has |-> {}]
Bad == [kind |-> "bad", has |-> {}]
Object(S) == [kind |-> "object", has |-> S]

(* What a half-written document looks like: a blank one is read as {}. *)
HalfWritten == {Object({}), Bad}

-----------------------------------------------------------------------------
(* The merge.  The first three are faulty forms of what follows: the entry *)
(* is looked for by equality, the document is replaced, and the lines come *)
(* back as a result, which an error has none of.                           *)
HoldsExactly(S, w) == w \in S
MergedAnew(d, S) == Wanted[d]
OwedOnSuccess(lines) == {}

(* ensure_hook scans every command for one that starts like ours. *)
Holds(S, w) == w \in S \/ Variant[w] \in S

Merged(d, S) == S \cup {w \in Wanted[d] : ~Holds(S, w)}

Plan(d) ==
  LET was == docs[d].has
  IN [has |-> Merged(d, was), changed |-> Merged(d, was) # was,
      existed |-> docs[d].kind # "absent", was |-> docs[d]]

(* An existing file that needs nothing is not rewritten. *)
Writes(plan) == ~plan.existed \/ plan.changed

-----------------------------------------------------------------------------
(* What the run says. *)

Line(file, touch) == [file |-> file, touch |-> touch]
Said(touch) == {x.file : x \in {y \in touched : y.touch \in touch}}

(* The list belongs to the caller, so an error does not lose it. *)
Owed(lines) == lines

Fails(file) ==
  /\ step' = "idle" /\ ended' = "error" /\ named' = file
  /\ touched' = Owed(touched) /\ settled' = "no"

Tells(file, touch, next) ==
  /\ touched' = touched \cup {Line(file, touch)}
  /\ step' = next
  /\ UNCHANGED <<named, ended, settled>>

AfterDoc(d) == IF d = "settings" THEN "mcp" ELSE "gate"

-----------------------------------------------------------------------------
NoPlan ==
  [d \in Docs |-> [has |-> {}, changed |-> FALSE, existed |-> FALSE, was |-> Absent]]

Init ==
  /\ docs \in [Docs -> {Absent, Bad} \cup {Object(S) : S \in SUBSET Own}]
  /\ toml \in {"absent", "loads", "typo"} /\ gate \in {"none", "theirs"}
  /\ place \in {"git", "husky", "bare"} /\ (place = "bare" => gate = "none")
  /\ signed = FALSE
  /\ step = "idle" /\ planned = NoPlan /\ touched = {} /\ named = "none"
  /\ wrote = {} /\ ended = "never"
  /\ mine = [d \in Docs |-> docs[d].has] /\ raced = {}
  /\ settled = "no" /\ edits = 0

(* Everything init reads is read and decided before the first write. *)
Start ==
  /\ step = "idle"
  /\ touched' = {} /\ wrote' = {}
  /\ IF toml = "typo" \/ \E d \in Docs : docs[d].kind = "bad"
       THEN /\ ended' = "error" /\ named' = "plan" /\ settled' = "no"
            /\ UNCHANGED <<step, planned>>
       ELSE /\ step' = "toml" /\ planned' = [d \in Docs |-> Plan(d)]
            /\ named' = "none" /\ UNCHANGED ended
            /\ settled' = IF settled = "yes" THEN "yes" ELSE "calm"
  /\ UNCHANGED <<docs, toml, gate, signed, place, mine, raced, edits>>

WriteToml ==
  /\ step = "toml"
  /\ \/ /\ toml # "absent" /\ Tells("toml", "unchanged", "settings")
        /\ UNCHANGED <<toml, wrote>>
     \/ /\ toml = "absent" /\ toml' = "loads"
        /\ wrote' = wrote \cup {"toml"}
        /\ Tells("toml", "wrote", "settings") \/ Fails("toml")
  /\ UNCHANGED <<docs, gate, signed, place, planned, mine, raced, edits>>

(* write_planned.  A failing write has already emptied the file. *)
WriteDoc(d) ==
  /\ step = d
  /\ \/ /\ ~Writes(planned[d]) /\ Tells(d, "unchanged", AfterDoc(d))
        /\ UNCHANGED <<docs, wrote, raced>>
     \/ /\ Writes(planned[d]) /\ wrote' = wrote \cup {d}
        /\ \/ /\ docs' = [docs EXCEPT ![d] = Object(planned[d].has)]
              /\ Tells(d, IF planned[d].existed THEN "updated" ELSE "wrote", AfterDoc(d))
              /\ raced' = IF docs[d] = planned[d].was THEN raced ELSE raced \cup {d}
           \/ \E torn \in HalfWritten :
                /\ docs' = [docs EXCEPT ![d] = torn]
                /\ Fails(d) /\ raced' = raced \cup {d}
  /\ UNCHANGED <<toml, gate, signed, place, planned, mine, edits>>

(* install_pre_commit: the script is written, then made executable. *)
InstallGate ==
  /\ step = "gate"
  /\ \/ /\ place # "git" \/ gate = "theirs"
        /\ Tells("gate", "skipped", "scan") /\ UNCHANGED <<gate, wrote>>
     \/ /\ place = "git" /\ gate \in {"plain", "ours"}
        /\ Tells("gate", "unchanged", "scan") /\ UNCHANGED <<gate, wrote>>
     \/ /\ place = "git" /\ gate = "none" /\ wrote' = wrote \cup {"gate"}
        /\ \/ gate' = "plain" /\ step' = "chmod"
              /\ UNCHANGED <<touched, named, ended, settled>>
           \/ gate' = "theirs" /\ Fails("gate")
  /\ UNCHANGED <<docs, toml, signed, place, planned, mine, raced, edits>>

MarkExecutable ==
  /\ step = "chmod"
  /\ \/ Tells("gate", "wrote", "scan") /\ gate' = IF gate = "plain" THEN "ours" ELSE gate
     \/ Fails("gate") /\ UNCHANGED gate
  /\ UNCHANGED <<docs, toml, signed, place, planned, wrote, mine, raced, edits>>

Scan ==
  /\ step = "scan"
  /\ \/ step' = "baseline" /\ UNCHANGED <<touched, named, ended, settled>>
     \/ Fails("scan")
  /\ UNCHANGED <<docs, toml, gate, signed, place, planned, wrote, mine, raced, edits>>

Finish ==
  /\ step = "baseline"
  /\ \/ /\ touched' = touched \cup {Line("baseline", IF signed THEN "unchanged" ELSE "wrote")}
        /\ signed' = TRUE /\ wrote' = IF signed THEN wrote ELSE wrote \cup {"baseline"}
        /\ step' = "idle" /\ ended' = "ok" /\ UNCHANGED named
        /\ settled' = IF settled = "no" THEN "no" ELSE "yes"
     \/ /\ ~signed /\ Fails("baseline") /\ UNCHANGED <<signed, wrote>>
  /\ UNCHANGED <<docs, toml, gate, place, planned, mine, raced, edits>>

(* Killed between two steps, or inside the write of a document. *)
Kill ==
  /\ step # "idle" /\ step' = "idle" /\ ended' = "killed" /\ settled' = "no"
  /\ touched' = {}
  /\ \/ UNCHANGED <<docs, raced>>
     \/ \E d \in Docs : step = d /\ Writes(planned[d]) /\ raced' = raced \cup {d}
          /\ \E torn \in HalfWritten : docs' = [docs EXCEPT ![d] = torn]
  /\ UNCHANGED <<toml, gate, signed, place, planned, named, wrote, mine, edits>>

(* The user writes a document whole, and keeps no entry in two forms. *)
EditDoc(d, S) ==
  /\ edits < MaxEdits /\ docs[d] # Object(S)
  /\ \A w \in Wanted[d] : ~(w \in S /\ Variant[w] \in S)
  /\ docs' = [docs EXCEPT ![d] = Object(S)]
  /\ mine' = [mine EXCEPT ![d] = S \cap Theirs] /\ raced' = raced \ {d}
  /\ edits' = edits + 1 /\ settled' = "no"
  /\ UNCHANGED <<toml, gate, signed, place, step, planned, touched, named, wrote, ended>>

Next ==
  \/ Start \/ WriteToml \/ InstallGate \/ MarkExecutable \/ Scan \/ Finish \/ Kill
  \/ \E d \in Docs : WriteDoc(d) \/ \E S \in SUBSET (Theirs \cup Wanted[d]) : EditDoc(d, S)

-----------------------------------------------------------------------------
Changing == {"wrote", "updated"}

(* init.rs run: whatever happens after the first file is on disk, the run  *)
(* names every file it put bytes in, as touched or in its error message,   *)
(* and calls untouched no file that it changed.                            *)
InitTold ==
  ended \in {"ok", "error"} /\ step = "idle" =>
    /\ wrote \subseteq Said(Changing) \cup {named}
    /\ Said({"unchanged", "skipped"}) \cap wrote = {}

(* "Nothing here overwrites a file locrin did not write": the entries the  *)
(* user left in a document survive any number of runs, failures and kills, *)
(* unless an edit raced the plan of a run or a write was cut short.        *)
UsersKept == \A d \in Docs : d \in raced \/ mine[d] \subseteq docs[d].has

(* The user's own arrangement of an entry is never doubled. *)
OneEach == \A d \in Docs : \A w \in Wanted[d] : ~({w, Variant[w]} \subseteq docs[d].has)

(* "a second run reports Unchanged for every step": after a run that ended *)
(* well, runs change nothing until somebody edits.                         *)
SecondRunQuiet == (settled = "yes" /\ step # "idle") => wrote = {}

InitSafe == InitTold /\ UsersKept /\ OneEach /\ SecondRunQuiet
=============================================================================
