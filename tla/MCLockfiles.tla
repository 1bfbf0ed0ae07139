----------------------------- MODULE MCLockfiles -----------------------------
(* Lockfiles for Lockfiles: up to three entries in every order, with copies  *)
(* of one version and several versions of one package, missing names and     *)
(* versions, two spellings, and beside them a file that does not parse or    *)
(* cannot be read; against what an earlier run read.                         *)
EXTENDS Lockfiles

Entry(which, spelling, version, within) ==
  [name |-> <<which, spelling>>, version |-> version, within |-> within,
   link |-> FALSE, branch |-> FALSE]
File(entries) == [readable |-> TRUE, parses |-> TRUE, entries |-> entries]

Named(within) == {Entry(n, 0, v, within) : n \in {1, 2}, v \in {0, 1, 2}}
Spelled(within) == {Entry(1, s, v, within) : s \in {0, 1}, v \in {1, 2}}

Pairs(within) == {<<>>} \cup {<<x, y>> : x, y \in Named(within)}
Lists(within) == Pairs(within) \cup {<<x, y, z>> : x, y, z \in Spelled(within)}

OnBranch == [Entry(2, 0, 1, "packages") EXCEPT !.branch = TRUE]

(* A tree of one lockfile, and of two. *)
Alone(rel, file) == [r \in {rel} |-> file]
Both(rel, file, other, beside) == [r \in {rel, other} |-> IF r = rel THEN file ELSE beside]

Trees ==
  {Alone("package-lock.json", File(x)) : x \in Lists("node_modules")}
  \cup {Both("requirements.txt", File(x),
              "composer.lock", [File(<<OnBranch, Entry(2, 0, 1, "packages-dev")>>) EXCEPT !.parses = p]) :
         x \in Lists("pin"), p \in BOOLEAN}
  \cup {Both("pnpm-lock.yaml", File(x),
              "yarn.lock", [File(<<Entry(1, 0, 1, "header")>>) EXCEPT !.readable = r]) :
         x \in Lists("packages"), r \in BOOLEAN}

Earlier == {Alone("package-lock.json", File(x)) : x \in Pairs("node_modules")}
             \cup {Alone("poetry.lock", File(<<Entry(2, 1, 1, "table")>>))}

LocksInit == \E b \in Earlier, n \in Trees : locks = [before |-> b, now |-> n]
==============================================================================
