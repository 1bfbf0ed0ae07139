--------------------------- MODULE MCOsvSnapshot ---------------------------
(* A small instance of OsvSnapshot for TLC. *)
EXTENDS OsvSnapshot, TLC

CONSTANTS npm, bare         \* lockfiles; the last one lists no package
CONSTANTS ghsa, cve, pysec  \* advisory ids

SortOrder == (cve :> 1) @@ (ghsa :> 2) @@ (pysec :> 3)

(* Three packages, two to a request; the second edition moves an advisory *)
(* from the first to the last.                                            *)
TwoListings ==
  0 :> ((npm :> <<{cve, ghsa, pysec}, {}, {}>>) @@ (bare :> <<>>)) @@
  1 :> ((npm :> <<{ghsa, pysec}, {}, {cve}>>) @@ (bare :> <<>>))

(* First only the poorer records name the GHSA one; then it names one back. *)
TwoAliasings ==
  0 :> ((ghsa :> {}) @@ (cve :> {pysec}) @@ (pysec :> {ghsa})) @@
  1 :> ((ghsa :> {cve}) @@ (cve :> {}) @@ (pysec :> {}))

RunSymmetry == Permutations(Runs)
=============================================================================
