---------------------------- MODULE MCAgentHooks ----------------------------
(* Small instances of AgentHooks for TLC. *)
EXTENDS AgentHooks, TLC

CONSTANTS f1, f2   \* files
CONSTANTS good, bad  \* texts, without and with a blocking finding
CONSTANTS s1, s2   \* sessions

(* A repository with a first commit. *)
BornInit == Init /\ head # NoHead

BornSpec == BornInit /\ [][Next]_vars /\ Fairness

(* A repository nobody has committed to yet. *)
UnbornSpec == Init /\ head = NoHead /\ [][Next]_vars
=============================================================================
