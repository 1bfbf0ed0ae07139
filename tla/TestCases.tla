----------------------------- MODULE TestCases -----------------------------
(***************************************************************************)
(* The cases of a test file (core/src/testcases.rs): which the runner will *)
(* skip, how many assertions each makes, and the rule that reports the     *)
(* ones that make none (rules/src/test_no_assert.rs).                      *)
(*                                                                         *)
(* Abstractions.  A syntax tree is its calls, functions, named functions,  *)
(* throws and `should` chains; whatever else stands around them is left    *)
(* out.  A callee is how it is spelled: a bare name, a property of a name, *)
(* a property further down a chain, or the call that `each` makes.         *)
(***************************************************************************)
EXTENDS Naturals, SequencesExt

VARIABLE file   \* a file: where it is and its top-level nodes

(* `name` is the property of a member, `obj` the plain name before it and   *)
(* `left` the name its chain starts with, each "" when there is none.       *)
Callee(form, left, obj, name) == [form |-> form, left |-> left, obj |-> obj, name |-> name]
NoCallee == Callee("none", "", "", "")

(* `inside` is what a callee holds, the body of a function, or the function *)
(* a name is declared for; `args` are the arguments of a call.              *)
Node(kind, callee, name, inside, args) ==
  [kind |-> kind, callee |-> callee, name |-> name, inside |-> inside, args |-> args]

Kids(n) == n.inside \o n.args

RECURSIVE Below(_)
Below(n) == <<n>> \o FlattenSeq([i \in 1..Len(Kids(n)) |-> Below(Kids(n)[i])])

-----------------------------------------------------------------------------
(* What a name says. *)

IsTestFile(path) == path.marked \/ "__tests__" \in ToSet(path.segments)

CASE_IDENTS == {"it", "test", "xit", "xtest", "fit", "ftest"}
CASE_PROPS == {"skip", "only", "todo", "failing", "concurrent"}

(* Names with one of THROWING_QUERY_PREFIXES, one of each. *)
ThrowingQueries == {"getByText", "getAllByRole", "findByText", "findAllByRole"}

CaseCallee(n) ==
  /\ n.kind = "call"
  /\ LET c == n.callee
     IN \/ c.form = "bare" /\ c.name \in CASE_IDENTS
        \/ c.form = "member" /\ c.obj \in {"it", "test"} /\ c.name \in CASE_PROPS
        \/ c.form = "each" /\ c.obj \in {"it", "test"}

(* A fault: a case that is still to be written is run. *)
SkipsAlone(c) == \/ c.form = "bare" /\ c.name \in {"xit", "xtest"}
                 \/ c.form = "member" /\ c.name = "skip"

CalleeSkips(c) ==
  \/ c.form = "bare" /\ c.name \in {"xit", "xtest"}
  \/ c.form = "member" /\ c.name \in {"skip", "todo"}

SkippedSuite(c) ==
  \/ c.form = "bare" /\ c.name = "xdescribe"
  \/ c.form = "member" /\ c.obj \in {"describe", "context"} /\ c.name = "skip"

(* `above` are the calls around a node, the innermost last.  A fault: only  *)
(* the nearest suite is asked.                                              *)
InNearestSuite(above) == above # <<>> /\ SkippedSuite(Last(above).callee)

InSkippedSuite(above) == \E i \in 1..Len(above) : SkippedSuite(above[i].callee)

-----------------------------------------------------------------------------
(* Assertions. *)

(* Two faults: a query that returns null counts, and a throw does not. *)
AssertsByQuery(n, helpers) ==
  \/ n.kind \in {"throw", "should"}
  \/ n.kind = "call" /\ n.callee.form \in {"bare", "member", "deep"}
       /\ n.callee.name \in ThrowingQueries \cup {"queryByText"}
  \/ n.kind = "call" /\ n.callee.form = "bare" /\ n.callee.name \in {"expect", "assert"} \cup helpers

AssertsNoThrow(n, helpers) ==
  \/ n.kind = "should"
  \/ n.kind = "call" /\ n.callee.form \in {"bare", "member", "deep"}
       /\ n.callee.name \in ThrowingQueries \cup {"expect", "assert"} \cup helpers

Asserts(n, helpers) ==
  \/ n.kind \in {"throw", "should"}
  \/ /\ n.kind = "call"
     /\ LET c == n.callee
        IN \/ c.form = "bare" /\ c.name \in {"expect", "assert"} \cup ThrowingQueries \cup helpers
           \/ c.form \in {"member", "deep"}
                /\ (c.left \in {"expect", "assert"} \/ c.name \in ThrowingQueries)

CountAssertions(n, helpers) == Len(SelectSeq(Below(n), LAMBDA x : Asserts(x, helpers)))

(* One level: no helper counts inside a helper. *)
AssertionHelpers(nodes) ==
  {d.name : d \in {x \in UNION {ToSet(Below(nodes[i])) : i \in 1..Len(nodes)} :
                     x.kind = "declared" /\ CountAssertions(x, {}) > 0}}

(* Two faults: the second argument is the body, and only an inline body is. *)
BodySecond(n) ==
  IF Len(n.args) > 1 /\ n.args[2].kind = "function" THEN <<n.args[2]>> ELSE <<>>
NamesNone(n, helpers) == FALSE

(* The last function among the arguments after the name. *)
CaseBody(n) ==
  LET functions == SelectSeq(IF n.args = <<>> THEN <<>> ELSE Tail(n.args),
                             LAMBDA a : a.kind = "function")
  IN IF functions = <<>> THEN <<>> ELSE <<Last(functions)>>

NamesAssertionHelper(n, helpers) ==
  \E i \in 2..Len(n.args) : n.args[i].kind = "name" /\ n.args[i].name \in helpers

CaseName(n) ==
  IF n.args # <<>> /\ Head(n.args).kind = "text" THEN Head(n.args).name ELSE "<unnamed>"

TestCase(n, above, helpers) ==
  [name |-> CaseName(n), of |-> n,
   skipped |-> CalleeSkips(n.callee) \/ InSkippedSuite(above),
   assertions |-> IF CaseBody(n) # <<>> THEN CountAssertions(CaseBody(n)[1], helpers)
                  ELSE IF NamesAssertionHelper(n, helpers) THEN 1 ELSE 0]

RECURSIVE ExtractIn(_, _, _)
ExtractIn(n, above, helpers) ==
  (IF CaseCallee(n) THEN <<TestCase(n, above, helpers)>> ELSE <<>>)
    \o FlattenSeq([i \in 1..Len(Kids(n)) |->
         ExtractIn(Kids(n)[i], IF n.kind = "call" THEN Append(above, n) ELSE above, helpers)])

Extract(nodes) ==
  LET helpers == AssertionHelpers(nodes)
  IN FlattenSeq([i \in 1..Len(nodes) |-> ExtractIn(nodes[i], <<>>, helpers)])

SkippedNames(f) ==
  IF IsTestFile(f.path) THEN {c.name : c \in {x \in ToSet(Extract(f.nodes)) : x.skipped}} ELSE {}

(* The rule. *)
Unchecked(f) ==
  IF ~IsTestFile(f.path) THEN {}
  ELSE {c \in ToSet(Extract(f.nodes)) : c.assertions = 0 /\ ~c.skipped}

-----------------------------------------------------------------------------
(* The runner, told from the top: a suite runs its callback to find what is *)
(* in it, everything found under a skipped suite is skipped, and when any   *)
(* case or suite of a file is focused, so is what is found under no focus.  *)

Suites == {"describe", "context", "xdescribe", "fdescribe"}
IsSuite(n) ==
  n.kind = "call" /\ (n.callee.name \in Suites \/ n.callee.obj \in Suites)

Off(n) ==
  \/ n.callee.name \in {"xit", "xtest", "xdescribe", "todo"}
  \/ n.callee.form = "member" /\ n.callee.name = "skip"

Focus(n) ==
  \/ n.callee.name \in {"fit", "ftest", "fdescribe"}
  \/ n.callee.form = "member" /\ n.callee.name = "only"

RECURSIVE Registers(_, _, _)
Registers(n, off, focus) ==
  LET dim == off \/ Off(n)
      lit == focus \/ Focus(n)
      body == Last(n.args).inside
  IN IF CaseCallee(n) THEN <<[name |-> CaseName(n), off |-> dim, focus |-> lit]>>
     ELSE IF ~IsSuite(n) THEN <<>>
     ELSE FlattenSeq([i \in 1..Len(body) |-> Registers(body[i], dim, lit)])

Registered(nodes) == FlattenSeq([i \in 1..Len(nodes) |-> Registers(nodes[i], FALSE, FALSE)])

Focused(nodes) == \E c \in ToSet(Registered(nodes)) : c.focus

RunnerSkips(nodes, c) == c.off \/ (Focused(nodes) /\ ~c.focus)

(* What can make a run of a node fail by a check of this file: a named      *)
(* function is run when it is called, and a function that is written as an  *)
(* argument of a call may be run by it.  One that is only named there       *)
(* (`items.forEach(checks)`) is not followed, by the rule neither.  `depth` *)
(* is how many declared functions deep it looks.                            *)
DeclaredAs(name) ==
  {d \in UNION {ToSet(Below(file.nodes[i])) : i \in 1..Len(file.nodes)} :
     d.kind = "declared" /\ d.name = name}

RECURSIVE CanFail(_, _)
CanFail(n, depth) ==
  LET within(x) == \E i \in 1..Len(Kids(x)) : CanFail(Kids(x)[i], depth)
      calls(name) == depth > 0 /\ \E d \in DeclaredAs(name) :
                       \E i \in 1..Len(d.inside) : CanFail(d.inside[i], depth - 1)
  IN CASE n.kind \in {"throw", "should"} -> TRUE
       [] n.kind \in {"function", "other"} -> within(n)
       [] n.kind = "call" ->
            \/ n.callee.left \in {"expect", "assert"} \/ n.callee.name \in ThrowingQueries
            \/ n.callee.form = "bare" /\ calls(n.callee.name)
            \/ within(n)
       [] OTHER -> FALSE

(* What the runner calls for a case: a function, or one it names. *)
CaseCanFail(n) ==
  \E i \in 2..Len(n.args) :
    LET given == n.args[i]
    IN \/ given.kind = "function" /\ CanFail(given, 1)
       \/ given.kind = "name" /\ \E d \in DeclaredAs(given.name) :
            \E j \in 1..Len(d.inside) : CanFail(d.inside[j], 0)

DeclaresInside(n) == \E x \in ToSet(Below(n)) : x.kind = "declared"

(* testcases.rs: what "the runner will skip".  The cases the extractor has  *)
(* are the ones the runner registers, at any depth of suites.  What it      *)
(* calls skipped the runner skips, so the index remembers no skip that is   *)
(* none; and where nothing in the file is focused the runner skips no more. *)
(* Beside a focused case it does, and the extractor does not know: README.  *)
SkippedAsRun ==
  LET cases == Extract(file.nodes)
      run == Registered(file.nodes)
  IN /\ Len(cases) = Len(run)
     /\ \A i \in 1..Len(run) :
          /\ cases[i].name = run[i].name
          /\ cases[i].skipped => RunnerSkips(file.nodes, run[i])
          /\ ~Focused(file.nodes) => (cases[i].skipped <=> RunnerSkips(file.nodes, run[i]))
     /\ SkippedNames(file) \subseteq {c.name : c \in {x \in ToSet(run) : RunnerSkips(file.nodes, x)}}

(* test_no_assert.rs: a case is reported only when no check that its own    *)
(* statements hold, the functions written in them, or a helper they call or *)
(* the case names can fail it, and a case that declares nothing of its own  *)
(* is let off only when one can.  A helper that a statement hands on by its *)
(* name, and a helper of a helper, are not looked into: see README.         *)
ReportedChecksNothing ==
  /\ \A c \in Unchecked(file) : ~CaseCanFail(c.of)
  /\ IsTestFile(file.path) =>
       \A c \in ToSet(Extract(file.nodes)) \ Unchecked(file) :
         (~c.skipped /\ ~DeclaresInside(c.of)) => CaseCanFail(c.of)

CasesTold == SkippedAsRun /\ ReportedChecksNothing
=============================================================================
