---------------------------- MODULE SymbolTable ----------------------------
(***************************************************************************)
(* The symbols of a text (core/src/symbols.rs): what is extracted in each  *)
(* language, the one symbol a line belongs to, and the search that ranks   *)
(* symbols against what a caller is about to write.                        *)
(*                                                                         *)
(* Abstractions.  A syntax tree is its top-level nodes with what they      *)
(* hold; a place is a line and a column in one number, line * Cols + col.  *)
(* A name is its characters, a character its letter and its case: "upper", *)
(* "lower", "digit", or "none" for whatever separates words.               *)
(***************************************************************************)
EXTENDS Integers, SequencesExt

VARIABLES
  text,    \* the language and the nodes of a file
  query    \* what is searched for, and how many answers are wanted

Cols == 10   \* columns of a line
Line(place) == place \div Cols

NoName == <<>>
Unknown == -1   \* the parameters of what cannot be called

Symbol(kind, name, export, node) ==
  [kind |-> kind, name |-> name, export |-> export, start |-> node.start, end |-> node.end,
   params |-> IF node.kind \in {"function", "method", "callable"} THEN node.params ELSE Unknown]

-----------------------------------------------------------------------------
(* collect, collect_export. *)

DefaultName == <<<<"default", "lower">>>>
Star == <<<<"*", "none">>>>

ExportName(export, own) ==
  CASE export = "no" -> NoName [] export = "named" -> own [] export = "default" -> DefaultName

(* A const has a declarator for each plain name; a function value gives it  *)
(* parameters.                                                              *)
Collect(node, export) ==
  CASE node.kind \in {"function", "class", "interface", "type", "enum"} ->
         IF node.name = NoName THEN <<>>
         ELSE <<Symbol(node.kind, node.name, ExportName(export, node.name), node)>>
    [] node.kind = "lexical" ->
         LET plain == SelectSeq(node.parts, LAMBDA d : d.name # NoName)
         IN [i \in 1..Len(plain) |-> Symbol("const", plain[i].name, ExportName(export, plain[i].name), plain[i])]
    [] OTHER -> <<>>

CollectExport(node) ==
  LET inner == Collect(node.parts[1], IF node.default THEN "default" ELSE "named")
      kind == IF node.source THEN "reexport" ELSE "export"
  IN CASE node.form = "declaration" ->
            IF inner = <<>> /\ node.default
              THEN <<Symbol("default", DefaultName, DefaultName, node)>> ELSE inner
       [] node.form = "value" -> <<Symbol("default", DefaultName, DefaultName, node)>>
       [] node.form = "clause" ->
            [i \in 1..Len(node.parts) |->
               Symbol(kind, node.parts[i].name,
                      IF node.parts[i].alias = NoName THEN node.parts[i].name ELSE node.parts[i].alias,
                      node.parts[i])]
       [] node.form = "star as" -> <<Symbol("reexport", Star, node.name, node)>>
       [] OTHER -> <<>>

(* A class, then its methods under its name; a function has none.  Only the *)
(* braces of a namespace are looked into.                                   *)
Qualified(owner, name) == owner \o <<<<"::", "none">>>> \o name

PhpMembers(owner) ==
  LET methods == SelectSeq(owner.parts, LAMBDA x : x.kind = "method")
      full(x) == Qualified(owner.name, x.name)
  IN [i \in 1..Len(methods) |->
        Symbol("method", full(methods[i]),
               IF methods[i].public THEN full(methods[i]) ELSE NoName, methods[i])]

PhpDeclaration(node) ==
  IF node.kind \notin {"function", "class", "interface", "trait", "enum"} THEN <<>>
  ELSE <<Symbol(node.kind, node.name, node.name, node)>>
         \o IF node.kind = "function" THEN <<>> ELSE PhpMembers(node)

CollectPhp(node) ==
  IF node.kind # "namespace" THEN PhpDeclaration(node)
  ELSE FlattenSeq([i \in 1..Len(node.parts) |-> PhpDeclaration(node.parts[i])])

(* A decorator stands around what it decorates. *)
CollectPython(node) ==
  LET def == IF node.kind = "decorated" THEN node.parts[1] ELSE node
  IN IF def.kind \in {"function", "class", "assignment"} /\ def.name # NoName
       THEN <<Symbol(IF def.kind = "assignment" THEN "const" ELSE def.kind, def.name,
                     IF def.underscore THEN NoName ELSE def.name, def)>>
     ELSE <<>>

Extract(t) ==
  FlattenSeq([i \in 1..Len(t.nodes) |->
    CASE t.language = "php" -> CollectPhp(t.nodes[i])
      [] t.language = "python" -> CollectPython(t.nodes[i])
      [] t.nodes[i].kind = "export" -> CollectExport(t.nodes[i])
      [] OTHER -> Collect(t.nodes[i], "no")])

-----------------------------------------------------------------------------
(* enclosing. *)

NoSymbol == [kind |-> "none", name |-> NoName, export |-> NoName, start |-> 0, end |-> -1,
             params |-> Unknown]

Covers(s, line) == Line(s.start) <= line /\ line <= Line(s.end)

Inside(inner, outer) ==
  /\ outer.start <= inner.start /\ inner.end <= outer.end
  /\ outer.start < inner.start \/ inner.end < outer.end

Height(s) == Line(s.end) - Line(s.start)

(* Two faults: the narrowest of all, and the first of all. *)
EnclosingNarrowest(symbols, line) ==
  LET at == {i \in 1..Len(symbols) : Covers(symbols[i], line)}
      least == {i \in at : \A j \in at : Height(symbols[i]) <= Height(symbols[j])}
  IN IF at = {} THEN NoSymbol ELSE symbols[CHOOSE i \in least : \A j \in least : i <= j]

EnclosingFirst(symbols, line) ==
  LET at == {i \in 1..Len(symbols) : Covers(symbols[i], line)}
  IN IF at = {} THEN NoSymbol ELSE symbols[CHOOSE i \in at : \A j \in at : i <= j]

Enclosing(symbols, line) ==
  LET at == {i \in 1..Len(symbols) : Covers(symbols[i], line)}
      first == CHOOSE i \in at : \A j \in at : i <= j
      nested == {i \in at : i > first /\ Inside(symbols[i], symbols[first])}
      least == {i \in nested : \A j \in nested : Height(symbols[i]) <= Height(symbols[j])}
  IN IF at = {} THEN NoSymbol
     ELSE IF nested = {} THEN symbols[first]
     ELSE symbols[CHOOSE i \in least : \A j \in least : i <= j]

-----------------------------------------------------------------------------
(* tokens: where a word starts. *)

Upper(c) == c[2] = "upper"

(* A fault: every capital starts a word. *)
StartsEach(s, i) == Upper(s[i])

StartsWord(s, i) ==
  /\ i > 1 /\ Upper(s[i])
  /\ \/ ~Upper(s[i - 1])
     \/ i < Len(s) /\ s[i + 1][2] = "lower"

(* Words in lower case: letters alone. *)
Tokens(s) ==
  LET step(acc, i) ==
        IF s[i][2] = "none" THEN Append(acc, <<>>)
        ELSE IF acc = <<>> THEN <<<<s[i][1]>>>>
        ELSE IF StartsWord(s, i) THEN Append(acc, <<s[i][1]>>)
        ELSE [acc EXCEPT ![Len(acc)] = Append(@, s[i][1])]
  IN SelectSeq(FoldLeft(step, <<>>, [i \in 1..Len(s) |-> i]), LAMBDA w : w # <<>>)

(* search. *)
Stopwords == {<<"a">>}

Wanted(q) == ToSet(Tokens(q.name)) \cup (ToSet(Tokens(q.intent)) \ Stopwords)

Overlap(q, s) == Cardinality(ToSet(Tokens(s.name)) \cap Wanted(q))

(* A fault: two unknown counts are the same count. *)
SignatureLoose(q, s) == IF q.params = s.params THEN 1 ELSE 0

Signature(q, s) == IF q.params # Unknown /\ q.params = s.params THEN 1 ELSE 0

(* A fault: words before the signature. *)
BetterByWords(q, s, t) ==
  Overlap(q, s) > Overlap(q, t) \/ (Overlap(q, s) = Overlap(q, t) /\ s.start < t.start)

Better(q, s, t) ==
  \/ Signature(q, s) > Signature(q, t)
  \/ Signature(q, s) = Signature(q, t) /\ Overlap(q, s) > Overlap(q, t)
  \/ Signature(q, s) = Signature(q, t) /\ Overlap(q, s) = Overlap(q, t) /\ s.start < t.start

Search(symbols, q) ==
  LET hits == {s \in symbols : Overlap(q, s) > 0}
      ranked == SetToSortSeq(hits, LAMBDA s, t : Better(q, s, t))
  IN SubSeq(ranked, 1, IF q.limit < Len(ranked) THEN q.limit ELSE Len(ranked))
-----------------------------------------------------------------------------
(* How people write a name: words of two letters or more, an acronym all in *)
(* capitals, in the styles of the languages there are.                      *)

Styles == {"camel", "pascal", "snake", "kebab", "screaming"}

Spelled(word, i, style) ==
  [j \in 1..Len(word.letters) |->
     <<word.letters[j],
       IF word.letters[j] \in {"6", "4"} THEN "digit"
       ELSE IF \/ style = "screaming"
               \/ style \in {"camel", "pascal"} /\ word.acronym /\ (i > 1 \/ style = "pascal")
               \/ style = "pascal" /\ j = 1
               \/ style = "camel" /\ j = 1 /\ i > 1
         THEN "upper" ELSE "lower">>]

Written(words, style) ==
  LET gap == IF style \in {"camel", "pascal"} THEN <<>> ELSE <<<<"_", "none">>>>
  IN FlattenSeq([i \in 1..Len(words) |->
       (IF i = 1 THEN <<>> ELSE gap) \o Spelled(words[i], i, style)])

(* symbols.rs, tokens: "camelCase, PascalCase, snake_case, kebab-case and   *)
(* whitespace all separate, and a run of capitals stays one token until a   *)
(* lowercase letter starts the next word": a name is found by its words in  *)
(* whatever style it is asked for, two acronyms in a row apart.             *)
WordsComeBack ==
  \A style \in Styles :
    (\/ style \notin {"camel", "pascal"}
     \/ \A i \in 1..(Len(query.words) - 1) : ~(query.words[i].acronym /\ query.words[i + 1].acronym))
      => Tokens(Written(query.words, style))
           = [i \in 1..Len(query.words) |-> query.words[i].letters]

Symbols == Extract(text)
Lines == 1..5

(* symbols.rs, enclosing: a line belongs to the symbol that opened first    *)
(* ("every anchor id in every existing baseline is keyed on that answer"),  *)
(* or to the method of it that covers the line, and to no symbol only when  *)
(* none covers it.                                                          *)
LinesOwned ==
  \A line \in Lines :
    LET e == Enclosing(Symbols, line)
        covering == {s \in ToSet(Symbols) : Covers(s, line)}
        outer == {s \in covering : ~\E t \in ToSet(Symbols) : Inside(s, t)}
    IN /\ e = NoSymbol <=> covering = {}
       /\ e # NoSymbol =>
            /\ \A s \in covering : ~Inside(s, e)
            /\ \E s \in outer : /\ s = e \/ Inside(e, s)
                               /\ \A t \in outer : s.start <= t.start

(* symbols.rs, search: signature first, "an unknown count on either side is *)
(* not a match: None == None would rank every class above a function that   *)
(* shares the same tokens", then words, then place; and the limit cuts off  *)
(* the worst.                                                               *)
BestKept ==
  LET found == Search(ToSet(Symbols), query)
      words(s) == Cardinality(ToSet(Tokens(s.name)) \cap Wanted(query))
      fits(s) == query.params # Unknown /\ s.params = query.params
      rank(s) == (IF fits(s) THEN 100 ELSE 0) + words(s)
  IN /\ \A i, j \in 1..Len(found) : i < j =>
          \/ rank(found[i]) > rank(found[j])
          \/ rank(found[i]) = rank(found[j]) /\ found[i].start < found[j].start
     /\ \A s \in ToSet(Symbols) \ ToSet(found) : words(s) > 0 =>
          /\ Len(found) = query.limit
          /\ \A i \in 1..Len(found) : rank(found[i]) >= rank(s)

SymbolsSafe == WordsComeBack /\ LinesOwned /\ BestKept
=============================================================================
