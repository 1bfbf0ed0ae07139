---------------------------- MODULE MCIndexOpen ----------------------------
(* Small instances of IndexOpen for TLC: two processes of one build and    *)
(* one of an older one, on one repository's index.                         *)
EXTENDS IndexOpen, TLC

CONSTANTS p1, p2, q   \* processes

OneOlder == [p \in Procs |-> IF p = q THEN 4 ELSE 5]

FileSymmetry == Permutations(Dbs)
=============================================================================
