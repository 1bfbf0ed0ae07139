----------------------------- MODULE SignedOff -----------------------------
(***************************************************************************)
(* What the baseline file promises (crates/core/src/baseline.rs and the    *)
(* baseline commands of cli/src/run.rs): a set of accepted findings that   *)
(* grows by one accepted finding at a time, or is replaced as a whole by   *)
(* what one check found, and that nothing else changes.                    *)
(***************************************************************************)
CONSTANT Entry   \* accepted findings: an id and the severity it had

VARIABLES
  accepted,   \* the entries of the baseline
  past        \* every set of findings a check could have seen so far

vars == <<accepted, past>>

Covers(entries, e) == \E d \in entries : d.id = e.id

(* One entry per id. *)
OneEach(entries) == \A d, e \in entries : d.id = e.id => d = e

Reports == {entries \in SUBSET Entry : OneEach(entries)}

Init ==
  /\ accepted \in Reports
  /\ past \in SUBSET Reports

(* The findings change: an edit, or a severity set in the configuration. *)
Changes ==
  /\ \E report \in Reports : past' = past \cup {report}
  /\ UNCHANGED accepted

(* Baseline::accept: a finding already there keeps its first entry. *)
Accept ==
  \E report \in past : \E e \in report :
    /\ ~Covers(accepted, e)
    /\ accepted' = accepted \cup {e}
    /\ UNCHANGED past

(* baseline_create: "a fresh line in the sand, not a merge". *)
Create ==
  /\ accepted' \in past
  /\ UNCHANGED past

Next == Changes \/ Accept \/ Create

Spec == Init /\ [][Next]_vars
=============================================================================
