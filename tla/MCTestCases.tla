---------------------------- MODULE MCTestCases ------------------------------
(* Test files for TestCases: one case of every form, around each kind of     *)
(* statement, in two suites of every form, with and without helpers at the   *)
(* top of the file.                                                          *)
EXTENDS TestCases

Call(name, args) == Node("call", Callee("bare", name, "", name), "", <<>>, args)
Member(obj, name, args) == Node("call", Callee("member", obj, obj, name), "", <<>>, args)
Each(obj, args) ==
  Node("call", Callee("each", "", obj, "each"), "", <<Member(obj, "each", <<>>)>>, args)
(* expect(x).toBe(y), within(row).getByText(t). *)
OnCall(callee, name) ==
  Node("call", Callee("deep", "", "", name), "", <<Call(callee, <<>>)>>, <<>>)

Function(body) == Node("function", NoCallee, "", body, <<>>)
Declared(name, body) == Node("declared", NoCallee, name, <<Function(body)>>, <<>>)
Name(name) == Node("name", NoCallee, name, <<>>, <<>>)
Title(name) == Node("text", NoCallee, name, <<>>, <<>>)
Plain(kind, body) == Node(kind, NoCallee, "", body, <<>>)
Throw == Plain("throw", <<>>)
Options == Plain("other", <<>>)

Statements == {
  Throw, Plain("should", <<>>), OnCall("expect", "toBe"),
  OnCall("within", "getByText"), OnCall("within", "queryByText"),
  Call("checks", <<>>), Call("outer", <<>>),
  Declared("local", <<Throw>>), Call("local", <<>>),
  Member("items", "forEach", <<Function(<<OnCall("expect", "toBe")>>)>>),
  Member("items", "forEach", <<Name("checks")>>),
  Member("assert", "equal", <<>>), Plain("other", <<Call("render", <<>>)>>) }

CaseBodies == {<<>>} \cup {<<s>> : s \in Statements} \cup {<<s, t>> : s, t \in Statements}

Cases ==
  {Call("it", <<Title("c"), Function(b)>>) : b \in CaseBodies}
  \cup {Member("it", p, <<Title("p"), Function(<<s>>)>>) :
          p \in {"skip", "only", "todo"}, s \in Statements}
  \cup {Call("xtest", <<Name("n"), Options, Function(<<s>>)>>) : s \in Statements}
  \cup {Call("it", <<Title("t"), Options, Function(<<s>>)>>) : s \in Statements}
  \cup {Call("test", <<Title("named"), Options, Name(h)>>) : h \in {"checks", "outer", "far"}}
  \cup {Each("it", <<Title("e"), Function(<<s>>)>>) : s \in Statements}
  \cup {Call("it", <<Title("todo")>>), Call("it", <<>>)}

Suite(form, body) == [form EXCEPT !.args = <<Title("s"), Function(body)>>]
SuiteForms == {Call("describe", <<>>), Call("xdescribe", <<>>),
               Member("describe", "skip", <<>>), Member("describe", "only", <<>>)}

Beside == Call("it", <<Title("beside"), Function(<<Throw>>)>>)
Helpers == <<Declared("checks", <<Plain("other", <<Throw>>)>>),
             Declared("outer", <<Call("checks", <<>>)>>)>>

FileInit ==
  \E case \in Cases, outer, inner \in SuiteForms, h \in {<<>>, Helpers}, marked \in BOOLEAN :
    file = [path |-> [marked |-> marked, segments |-> <<"src">>],
            nodes |-> Append(h, Suite(outer, <<Suite(inner, <<case>>), Beside>>))]
==============================================================================
