------------------------------- MODULE Sinks -------------------------------
(***************************************************************************)
(* injection-sink (rules/src/injection_sink.rs): which calls hand a built  *)
(* string to an evaluator, a shell or a SQL driver, under which weakness   *)
(* the finding is filed, and how sure it is.                               *)
(*                                                                         *)
(* Abstractions.  A file is one call and the declarations around it, in    *)
(* order.  An expression is its kind, its parts and, for a string or a     *)
(* template, the words of its text in lower case.                          *)
(***************************************************************************)
EXTENDS Naturals, SequencesExt

VARIABLE site   \* a call, where it stands and what is declared there

(* `parts` are operands, what is wrapped, or an object's pairs; `words` the *)
(* text written here; `built` says a template has a substitution.           *)
Expr(kind, name, words, built, parts) ==
  [kind |-> kind, name |-> name, words |-> words, built |-> built, parts |-> parts]

SHELL_CALLEES == {"exec", "execSync"}
SHELL_OBJECTS == {"child_process", "childProcess", "cp", "shell", "sh"}
ARGV_CALLEES == {"spawn", "spawnSync", "execFile"}
SQL_PROPERTIES ==
  {"query", "raw", "execute", "exec", "$queryRawUnsafe", "$executeRawUnsafe", "unsafe"}
SQL_KEYWORDS ==
  {"select", "insert", "update", "delete", "create", "drop", "alter", "replace", "pragma",
   "attach", "begin", "commit", "truncate", "vacuum", "with", "merge", "explain", "grant",
   "revoke"}
SQL_SETTINGS == {"search_path", "session", "local", "role", "transaction"}
Punctuation == {"-", "="}

-----------------------------------------------------------------------------
(* The shape of an expression.  A fault: casts are not looked through. *)
UnwrapParens(e) == IF e.kind = "parens" THEN e.parts[1] ELSE e

RECURSIVE Unwrap(_)
Unwrap(e) == IF e.kind \in {"parens", "cast"} THEN Unwrap(e.parts[1]) ELSE e

(* A fault: an addition is never a literal. *)
IsWritten(e) == Unwrap(e).kind \in {"string", "number"}

RECURSIVE IsLiteral(_)
IsLiteral(e) ==
  LET x == Unwrap(e)
  IN CASE x.kind \in {"string", "number"} -> TRUE
       [] x.kind = "template" -> ~x.built
       [] x.kind = "add" -> \A i \in 1..2 : IsLiteral(x.parts[i])
       [] OTHER -> FALSE

NoKind == "none"

SinkKind(e) ==
  LET x == Unwrap(e)
  IN CASE IsLiteral(x) -> NoKind
       [] x.kind = "template" -> "template"
       [] x.kind = "name" -> "variable"
       [] x.kind = "add" -> "concatenation"
       [] OTHER -> NoKind

(* At an evaluator anything that is not fixed is code. *)
CodeKind(e) ==
  IF IsLiteral(e) THEN NoKind
  ELSE IF SinkKind(e) = NoKind THEN "variable" ELSE SinkKind(e)

RECURSIVE IsStringTyped(_)
IsStringTyped(e) ==
  LET x == Unwrap(e)
  IN \/ x.kind \in {"string", "template"}
     \/ x.kind = "add" /\ \E i \in 1..2 : IsStringTyped(x.parts[i])

RECURSIVE LiteralText(_)
LiteralText(e) ==
  e.words \o FlattenSeq([i \in 1..Len(e.parts) |-> LiteralText(e.parts[i])])

(* `set` opens a statement in SQL and in a shell: the second word decides. *)
SetsADatabaseSetting(words) ==
  /\ words[1] = "set" /\ Len(words) > 1 /\ words[2] \notin Punctuation
  /\ words[2] \in SQL_SETTINGS \/ (Len(words) > 2 /\ words[3] \in {"to", "="})

(* A fault: a statement's word counts wherever it is. *)
CarriesAnywhere(e) ==
  LET words == LiteralText(e) IN words = <<>> \/ ToSet(words) \cap SQL_KEYWORDS # {}

(* What this file cannot read is taken for SQL. *)
CarriesSql(e) ==
  LET text == LiteralText(e)
      words == SelectSeq(text, LAMBDA w : w \notin Punctuation)
  IN CASE words = <<>> -> TRUE
       [] words # <<>> /\ Head(words) = "set" -> SetsADatabaseSetting(text)
       [] OTHER -> Head(words) \in SQL_KEYWORDS

-----------------------------------------------------------------------------
(* Declarations.  The first one of a name stands for it. *)

Declared(s, name) == SelectSeq(s.declarations, LAMBDA d : d.name = name)
Known(s, e) == e.kind = "name" /\ Declared(s, e.name) # <<>>
ValueOf(s, e) == Head(Declared(s, e.name)).value

BuiltFromData(e) == SinkKind(e) \in {"template", "concatenation"}

IsRegexValue(e) == Unwrap(e).kind \in {"regex", "new RegExp"}

(* The object of a call is an expression, or NoObject. *)
NoObject == Expr("none", "", <<>>, FALSE, <<>>)

IsRegexpReceiver(s) ==
  LET object == Unwrap(s.object)
  IN IsRegexValue(object) \/ (Known(s, object) /\ IsRegexValue(ValueOf(s, object)))

ShellObject(s) == s.object.kind = "name" /\ s.object.name \in SHELL_OBJECTS
KnownObject(s) == s.object = NoObject \/ ShellObject(s)

(* A pair is its key and its value; `shell` is true, or names a shell. *)
HasPair(e, key) == Unwrap(e).kind = "object" /\ \E i \in DOMAIN Unwrap(e).parts :
                     Unwrap(e).parts[i].name = key
PairOf(e, key) == Head(SelectSeq(Unwrap(e).parts, LAMBDA p : p.name = key)).parts[1]

HasShellOption(s) ==
  \E a \in ToSet(s.args) :
    HasPair(a, "shell") /\ Unwrap(PairOf(a, "shell")).kind \in {"true", "string", "template"}

TextProperty(e) == IF HasPair(e, "text") THEN PairOf(e, "text") ELSE e

-----------------------------------------------------------------------------
(* The three families. *)

NoForm == [family |-> "none", kind |-> NoKind, confidence |-> "none"]
Form(family, kind, confidence) ==
  IF kind = NoKind THEN NoForm ELSE [family |-> family, kind |-> kind, confidence |-> confidence]

(* A timer is given a function unless this file shows a string. *)
TimerTakesString(s) ==
  LET first == Unwrap(Head(s.args))
  IN IF first.kind = "name" THEN Known(s, first) /\ IsStringTyped(ValueOf(s, first))
     ELSE IsStringTyped(first)

CodeSink(s) ==
  CASE s.args = <<>> -> NoForm
    [] s.form = "new" -> IF s.object = NoObject /\ s.callee = "Function"
                           THEN Form("code", CodeKind(Last(s.args)), "high") ELSE NoForm
    [] s.callee = "eval" -> Form("code", CodeKind(Head(s.args)), "high")
    [] s.callee \in {"setTimeout", "setInterval"} /\ TimerTakesString(s) ->
         Form("code", CodeKind(Head(s.args)), "high")
    [] OTHER -> NoForm

ReachesAShell(s) ==
  \/ /\ s.callee \in SHELL_CALLEES
     /\ KnownObject(s) \/ (~IsRegexpReceiver(s) /\ ~CarriesSql(Head(s.args)))
  \/ s.callee \in ARGV_CALLEES /\ KnownObject(s) /\ HasShellOption(s)

CommandSink(s) ==
  IF s.form # "call" \/ s.args = <<>> \/ ~ReachesAShell(s) THEN NoForm
  ELSE LET kind == SinkKind(Head(s.args))
       IN Form("command", kind, IF kind = "variable" THEN "medium" ELSE "high")

NamedASqlSink(s) ==
  IF s.object = NoObject THEN s.callee = "sql"
  ELSE /\ s.callee \in SQL_PROPERTIES
       /\ s.callee = "exec" => ~ShellObject(s) /\ ~IsRegexpReceiver(s)

(* A fault: the declaration is not looked at. *)
NeverBuilt(s, e) == FALSE

(* A query built above the call is the same finding as one written in it. *)
BuiltAbove(s, e) == Known(s, Unwrap(e)) /\ BuiltFromData(ValueOf(s, Unwrap(e)))

SqlSink(s) ==
  IF s.form # "call" \/ s.args = <<>> \/ ~NamedASqlSink(s) THEN NoForm
  ELSE LET argument == TextProperty(Head(s.args))
           kind == SinkKind(argument)
       IN Form("sql", kind, IF kind = "variable" /\ ~BuiltAbove(s, argument) THEN "medium" ELSE "high")

FirstOf(forms) ==
  LET found == SelectSeq(forms, LAMBDA f : f # NoForm)
  IN IF found = <<>> THEN NoForm ELSE Head(found)

(* A fault: every family is advisory in a test. *)
AdvisoryInTests(s, form) ==
  IF s.test /\ form # NoForm THEN [form EXCEPT !.confidence = "medium"] ELSE form

Advised(s, form) ==
  IF s.test /\ form.family = "sql" THEN [form EXCEPT !.confidence = "medium"] ELSE form

Scan(s) == Advised(s, FirstOf(<<CodeSink(s), CommandSink(s), SqlSink(s)>>))

-----------------------------------------------------------------------------
(* Evaluating e reads something that is not written in it. *)
RECURSIVE Reads(_)
Reads(e) ==
  \/ e.kind \in {"name", "call"} \/ e.built
  \/ \E i \in 1..Len(e.parts) : Reads(e.parts[i])

(* e without the parentheses and casts in it. *)
RECURSIVE Bare(_)
Bare(e) ==
  IF e.kind \in {"parens", "cast"} THEN Bare(e.parts[1])
  ELSE [e EXCEPT !.parts = [i \in DOMAIN @ |-> Bare(@[i])]]

WithFirst(s, e) == [s EXCEPT !.args = <<e>> \o Tail(@)]

(* "A constant is not a finding, however it is spelled": no call is         *)
(* reported whose arguments read nothing, unless what is evaluated is no    *)
(* string at all.                                                           *)
ConstantsQuiet ==
  (/\ \A i \in 1..Len(site.args) : ~Reads(site.args[i])
   /\ site.form = "new" => \A i \in 1..Len(site.args) : Bare(site.args[i]).kind # "object")
  => Scan(site) = NoForm

(* Parentheses and casts "wrap an expression without changing what it is":  *)
(* nowhere in an argument or a declared value do they change the answer.    *)
WrappingNoMatter ==
  Scan(site) = Scan([site EXCEPT !.args = [i \in DOMAIN @ |-> Bare(@[i])],
                                 !.declarations = [i \in DOMAIN @ |-> [@[i] EXCEPT !.value = Bare(@)]]])

(* "a query built above and passed down by name is the same finding as one  *)
(* written inline": family and confidence survive the move to a const, in a *)
(* test file or not, where the callee alone says it is SQL.                 *)
NamedIsInline ==
  LET first == Head(site.args)
      named == [WithFirst(site, Expr("name", "moved", <<>>, FALSE, <<>>)) EXCEPT
                  !.declarations = @ \o <<[name |-> "moved", value |-> first]>>]
  IN (/\ site.args # <<>> /\ site.callee # "exec" /\ first.kind # "object"
      /\ Scan(site).family = "sql" /\ Scan(site).kind # "variable")
       => /\ Scan(named).family = "sql"
          /\ Scan(named).confidence = Scan(site).confidence

(* A file being a test changes nothing but how sure a SQL finding is.       *)
TestsStillTold ==
  LET plain == Scan([site EXCEPT !.test = FALSE])
      told == Scan([site EXCEPT !.test = TRUE])
  IN /\ told.family = plain.family /\ told.kind = plain.kind
     /\ plain.family # "sql" => told = plain
     /\ told.family = "sql" => told.confidence # "high"

(* "a regular expression ... is nobody's sink", and what carries a command  *)
(* is never filed as a query because of the name of its wrapper, nor a      *)
(* query as a command: an exec on an unknown object is filed by its text.   *)
ExecByText ==
  (site.form = "call" /\ site.callee = "exec" /\ site.object.kind = "name"
     /\ ~ShellObject(site) /\ site.args # <<>> /\ LiteralText(Head(site.args)) # <<>>)
  => LET first == LiteralText(Head(site.args))[1]
         regex == \E d \in ToSet(site.declarations) : d.name = site.object.name
                                                    /\ Bare(d.value).kind \in {"regex", "new RegExp"}
     IN /\ first \in {"rm", "kubectl"} => Scan(site).family \in {"command", "none"}
        /\ first \in {"select", "with"} => Scan(site).family \in {"sql", "none"}
        /\ Len(site.declarations) = 1 /\ regex => Scan(site) = NoForm

SinksTold ==
  ConstantsQuiet /\ WrappingNoMatter /\ NamedIsInline /\ TestsStillTold /\ ExecByText
=============================================================================
