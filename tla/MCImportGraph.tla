---------------------------- MODULE MCImportGraph ----------------------------
(* Repositories for ImportGraph: one importer, candidates that shadow each *)
(* other, aliases through a tsconfig that inherits in a circle, a package  *)
(* of the workspace, and texts that may be broken, behind marks that are   *)
(* and are not what they look like.                                        *)
EXTENDS ImportGraph, TLC

Main == Path(<<"src", "main">>, <<"ts">>)
Module == Path(<<"src", "a">>, <<"ts">>)
Index == Path(<<"src", "a", "index">>, <<"ts">>)
Library == Path(<<"lib", "a">>, <<"js">>)
Declarations == Path(<<"src", "a">>, <<"d", "ts">>)
Style == Path(<<"lib", "a">>, <<"css">>)

Spec(form, segs, ext) == [form |-> form, segs |-> segs, ext |-> ext]
Statement(form, spec, names, line) ==
  [form |-> form, spec |-> spec, names |-> names, line |-> line, literal |-> TRUE,
   at |-> 3 * line - 2]

Statements == {
  Statement("import", Spec("relative", <<".", "a">>, <<>>), {"x", "y"}, 1),
  Statement("import", Spec("relative", <<".", "a">>, <<"js">>), {"x"}, 2),
  Statement("dynamic", Spec("bare", <<"@", "a">>, <<>>), {}, 3),
  Statement("reexport", Spec("relative", <<"..", "lib", "a">>, <<"css">>), {}, 4),
  Statement("import", Spec("bare", <<"pkg">>, <<>>), {"x"}, 5),
  [Statement("require", Spec("relative", <<"..", "..", "a">>, <<>>), {}, 6)
     EXCEPT !.literal = FALSE] }

TsConfigs == {
  <<>>,
  [tsconfig |-> [parses |-> TRUE, extends |-> "base", dir |-> <<>>, based |-> FALSE,
                 base |-> <<>>, mapped |-> FALSE, paths |-> {}],
   base |-> [parses |-> TRUE, extends |-> "tsconfig", dir |-> <<"lib">>, based |-> TRUE,
             base |-> <<"..">>, mapped |-> TRUE,
             paths |-> {[pre |-> <<"@">>, star |-> TRUE,
                         targets |-> <<<<"src", "*">>, <<"lib", "*">>>>],
                        [pre |-> <<>>, star |-> TRUE, targets |-> <<<<"lib", "a">>>>]}]] }

InLibrary == <<"..", "..", "lib", "a">>
Packages == {
  <<>>,
  <<"src", "a">> :> [name |-> <<"pkg">>, main |-> InLibrary,
                     names |-> {[segs |-> InLibrary, ext |-> <<"ts">>]}] }

Exports == {[form |-> "named", name |-> "x", alias |-> ""],
            [form |-> "default", name |-> "z", alias |-> ""]}

(* Six lines, each with a string in double quotes, behind the marks `head`. *)
Strings == [i \in 1..18 |-> IF i % 3 = 0 THEN "newline" ELSE "double"]
Text(imports, broken, kept, head, stray) ==
  [imports |-> {[s EXCEPT !.at = Len(head) + @] : s \in imports}, broken |-> broken,
   kept |-> kept, exports |-> Exports, marks |-> head \o Strings, stray |-> stray]
Parsed(imports) == Text(imports, FALSE, {}, <<>>, {})

(* A quote in a regular expression on a line of its own, on the line of an  *)
(* import and before a template; a template and comments that hold quotes;  *)
(* an address in a JSX text; a tick that nothing closes.                    *)
Heads == {
  [marks |-> <<"single", "newline">>, stray |-> {1}],
  [marks |-> <<"double">>, stray |-> {1}],
  [marks |-> <<"single", "tick", "newline", "tick", "newline">>, stray |-> {1}],
  [marks |-> <<"tick", "newline", "single", "tick", "slashes", "tick", "newline",
               "open", "double", "newline", "close">>, stray |-> {}],
  [marks |-> <<"double", "double", "slashes", "newline">>, stray |-> {3}],
  [marks |-> <<"tick">>, stray |-> {1}] }

(* A recovered tree may have lost every statement, or one name of one. *)
Told == {T \in SUBSET Statements : Cardinality(T) \in 1..2}
LessY(S) == {[(CHOOSE s \in S : TRUE) EXCEPT !.names = @ \ {"y"}]}
Read == {Parsed(S) : S \in Told}
Torn == {Text({s}, TRUE, {}, <<>>, {}) : s \in Statements}
Heading(h) == {Text({s}, TRUE, {}, h.marks, h.stray) : s \in {x \in Statements : x.line <= 2}}
Headed == UNION {Heading(h) : h \in Heads}
Recovered == {Text(S, TRUE, LessY(S), <<>>, {}) : S \in Told}
MainTexts == Read \cup Torn \cup Headed \cup Recovered

World(I, O, K, C, t) ==
  [indexed |-> I \cup {Main}, others |-> O, packages |-> K, configs |-> C,
   workspaces |-> {[dir |-> <<"src">>, children |-> TRUE]},
   plugins |-> {}, conventional |-> {Main},
   boundaries |-> {[label |-> "b", from |-> {Main}, forbid |-> {}, allow |-> {Library}]},
   texts |-> [f \in I \cup {Main} |-> IF f = Main THEN t ELSE Parsed({})]]

WorldInit ==
  \E I \in SUBSET {Module, Index, Library}, O \in {{}, {Declarations}, {Style}},
     K \in Packages, C \in TsConfigs, t \in MainTexts : world = World(I, O, K, C, t)
==============================================================================
