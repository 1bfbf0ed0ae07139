---------------------------- MODULE MCSymbolTable ----------------------------
(* Programs and queries for SymbolTable: one text of each shape against a few   *)
(* queries, and every name of up to three words against a few texts.         *)
EXTENDS SymbolTable

Word(letters, acronym) == [letters |-> letters, acronym |-> acronym]
Day == Word(<<"d", "a", "y">>, FALSE)
Id == Word(<<"i", "d">>, TRUE)
Base64 == Word(<<"b", "a", "6">>, FALSE)
Words == {Day, Id, Base64}
Phrases == {<<u>> : u \in Words} \cup {<<u, v>> : u, v \in Words}
             \cup {<<u, v, w>> : u, v, w \in Words}
Camel(words) == Written(words, "camel")
Snake(words) == Written(words, "snake")

Node(kind, name, start, end, parts) ==
  [kind |-> kind, name |-> name, start |-> start, end |-> end, params |-> 1,
   parts |-> parts, public |-> TRUE, underscore |-> FALSE, form |-> "declaration",
   default |-> FALSE, source |-> FALSE, alias |-> NoName]

(* A class whose methods share a line, and a function that starts where the *)
(* class ends; in a namespace or not.                                       *)
Php(spaced, end, params) ==
  LET class == Node("class", Camel(<<Day>>), 10, end + 1,
                    <<Node("method", Camel(<<Day, Id>>), 12, end, <<>>),
                      Node("method", Camel(<<Id>>), end, end + 1, <<>>)>>)
      function == [Node("function", Camel(<<Id, Day>>), end + 2, end + 11, <<>>)
                     EXCEPT !.params = params]
      members == <<class, function>>
  IN [language |-> "php",
      nodes |-> IF spaced THEN <<Node("namespace", NoName, 10, end + 12, members)>> ELSE members]

Ts(kind, default, form, params) ==
  LET callable == [Node("callable", Camel(<<Id>>), 15, 18, <<>>) EXCEPT !.params = params]
      function == [Node("function", IF default THEN NoName ELSE Camel(<<Day, Id>>), 22, 30, <<>>)
                     EXCEPT !.params = params, !.alias = IF default THEN Camel(<<Id>>) ELSE NoName]
  IN [language |-> "ts",
      nodes |-> <<Node(kind, Camel(<<Day>>), 10, 21, <<callable, Node("literal", NoName, 19, 20, <<>>)>>),
                  [Node("export", Camel(<<Day, Day>>), 22, 30, <<function>>)
                     EXCEPT !.default = default, !.form = form]>>]

Python(kind, underscore) ==
  LET def == [Node(kind, Camel(<<Day>>), 20, 25, <<>>) EXCEPT !.underscore = underscore]
  IN [language |-> "python",
      nodes |-> <<Node("decorated", NoName, 10, 25, <<def>>),
                  Node("assignment", Camel(<<Id, Day>>), 31, 33, <<>>)>>]

Programs ==
  {Php(s, end, p) : s \in BOOLEAN, end \in {14, 23, 35}, p \in {0, 1}}
  \cup {Ts(kind, d, form, p) : kind \in {"class", "lexical", "other"}, d \in BOOLEAN,
          form \in {"declaration", "value", "clause", "star as", "star"}, p \in {0, 1}}
  \cup {Python(kind, u) : kind \in {"function", "class"}, u \in BOOLEAN}

FewTexts == {Php(FALSE, 23, 1), Ts("class", FALSE, "declaration", 1), Python("function", FALSE)}
FewPhrases == {<<Id>>, <<Day, Id>>, <<Base64, Day>>}

Asks(words) ==
  \E intent \in {<<>>, <<Day>>}, p \in {Unknown, 0, 1}, limit \in {1, 3} :
    query = [words |-> words, name |-> Snake(words), intent |-> Snake(intent),
             params |-> p, limit |-> limit]

SymbolsInit ==
  \/ text \in Programs /\ \E words \in FewPhrases : Asks(words)
  \/ text \in FewTexts /\ \E words \in Phrases : Asks(words)
==============================================================================
