------------------------------ MODULE MCSinks --------------------------------
(* Calls for Sinks: every callee on every kind of object, with arguments of  *)
(* every shape, bare or wrapped, with and without a shell option, beside one *)
(* declaration of the name an argument or the object may be.                 *)
EXTENDS Sinks

Leaf(kind) == Expr(kind, "", <<>>, FALSE, <<>>)
Str(words) == Expr("string", "", words, FALSE, <<>>)
Template(words, built) == Expr("template", "", words, built, <<>>)
Add(a, b) == Expr("add", "", <<>>, FALSE, <<a, b>>)
Named(n) == Expr("name", n, <<>>, FALSE, <<>>)
Wrap(kind, e) == Expr(kind, "", <<>>, FALSE, <<e>>)
Object(pairs) == Expr("object", "", <<>>, FALSE, pairs)
Pair(key, e) == Expr("pair", key, <<>>, FALSE, <<e>>)

Lines == {<<"select">>, <<"rm">>, <<"kubectl", "delete">>, <<"set", "role">>,
          <<"set", "-", "e">>, <<"set", "x", "=">>}

Simple == {Str(<<"rm">>), Named("q"), Template(<<"select">>, TRUE), Template(<<"select">>, FALSE)}

Arguments ==
  {Str(t) : t \in Lines} \cup {Template(t, b) : t \in Lines, b \in BOOLEAN}
  \cup {Named("q"), Named("p"), Leaf("call"), Template(<<>>, TRUE)}
  \cup {Add(a, b) : a, b \in Simple}
  \cup {Wrap(k, e) : k \in {"parens", "cast"}, e \in Simple}
  \cup {Wrap("cast", Wrap("parens", e)) : e \in Simple}
  \cup {Add(Wrap("parens", Add(a, Str(<<"rm">>))), Wrap("cast", b)) : a, b \in Simple}
  \cup {Object(<<Pair("text", e), Pair("values", Named("p"))>>) : e \in Simple}

Values == {Template(<<"select">>, TRUE), Wrap("cast", Add(Str(<<"select">>), Named("p"))),
           Str(<<"rm">>), Wrap("parens", Leaf("regex")), Leaf("call")}

WithShell == Wrap("parens", Object(<<Pair("shell", Wrap("cast", Leaf("true")))>>))

Calls == {"eval", "setTimeout", "exec", "spawn", "query", "sql"}

SiteInit ==
  \E first \in Arguments, v \in Values, o \in {NoObject, Named("cp"), Named("db"), Named("q")},
     c \in Calls \cup {"Function"}, rest \in {<<>>, <<WithShell>>}, t \in BOOLEAN :
    site = [form |-> IF c \in Calls THEN "call" ELSE "new", callee |-> c, object |-> o,
            args |-> <<first>> \o rest, test |-> t,
            declarations |-> <<[name |-> "q", value |-> v]>>]
==============================================================================
