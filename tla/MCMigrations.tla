----------------------------- MODULE MCMigrations -----------------------------
(* Repositories for Migrations: statements about one table in every spelling *)
(* of its name and schema, in code, comments and literals, over two or three *)
(* files of which some are no migration or cannot be read.                   *)
EXTENDS Migrations

Word(letters, upper, quoted) == [letters |-> letters, upper |-> upper, quoted |-> quoted]
Statement(kind, schema, name) == [kind |-> kind, schema |-> schema, name |-> name]

Plain == Word("t", FALSE, FALSE)
Shouted == Word("t", TRUE, FALSE)
Kept == Word("t", TRUE, TRUE)

Creates == {
  Statement("create", NoSchema, Shouted),
  Statement("create", Word("public", TRUE, FALSE), Word("t", FALSE, TRUE)),
  Statement("create", Word("public", FALSE, TRUE), Kept),
  Statement("create", Word("auth", FALSE, FALSE), Plain) }
Enables == {Statement("enable", NoSchema, Plain), Statement("enable", NoSchema, Kept)}

Items(places) == [statement : Creates \cup Enables, within : places]

File(name, dir, ext, readable, items) ==
  [path |-> [dir |-> dir, name |-> name, ext |-> ext], readable |-> readable,
   items |-> items,
   text |-> FlattenSeq([i \in 1..Len(items) |-> Written(items[i])])]

RepoInit ==
  \/ \E x \in Items({"code", "block", "string"}), y \in Items({"code"}),
        z \in Items({"code", "line", "block", "string", "body"}), ext \in {"SQL", "md"} :
       repo = {File(1, MIGRATIONS, "sql", TRUE, <<x, y>>), File(2, MIGRATIONS, ext, TRUE, <<z>>)}
  \/ \E x, y \in Items({"code"}), z \in Items({"code", "block", "body"}) :
       repo = {File(1, MIGRATIONS, "sql", FALSE, <<x>>),
               File(2, "supabase/migrations/x", "sql", TRUE, <<y>>),
               File(3, MIGRATIONS, "sql", TRUE, <<z>>)}
===============================================================================
