----------------------------- MODULE Migrations -----------------------------
(***************************************************************************)
(* supabase-table-without-rls (rules/src/supabase/rls.rs): the answer of   *)
(* every migration at once to "which public table has nobody locked down". *)
(*                                                                         *)
(* Abstractions.  A text is its tokens: what opens and closes comments and *)
(* literals, line ends, and the two statements the regexes match, each one *)
(* token.  An identifier is its letters and whether they are written in    *)
(* upper case and in double quotes.  A path is a directory, the place of   *)
(* the name among its names, and an extension.                             *)
(***************************************************************************)
EXTENDS Naturals, FiniteSets, SequencesExt

VARIABLE repo   \* the files of a repository

MIGRATIONS == "supabase/migrations"

Lower(ext) == IF ext = "SQL" THEN "sql" ELSE ext

(* What a scope is asked, and what the directory is read for. *)
IsMigration(path) == path.dir = MIGRATIONS /\ Lower(path.ext) = "sql"

MigrationFiles(r) == {f \in r : f.path.dir = MIGRATIONS /\ Lower(f.path.ext) = "sql"}

(* A fault: identifiers compare as they are written. *)
Verbatim(raw) == [letters |-> raw.letters, upper |-> raw.upper]

(* Postgres folds an unquoted identifier and keeps a quoted one. *)
Normalise(raw) == [letters |-> raw.letters, upper |-> raw.upper /\ raw.quoted]

NoSchema == [letters |-> "", upper |-> FALSE, quoted |-> FALSE]

IsPublic(schema) ==
  schema = NoSchema \/ Normalise(schema) = [letters |-> "public", upper |-> FALSE]

-----------------------------------------------------------------------------
(* strip_comments: where the reader of a text is, one token at a time. *)

At(mode, depth, tag) == [mode |-> mode, depth |-> depth, tag |-> tag]
InCode == At("code", 0, "")

(* Two faults: block comments that do not nest, as in C, and literals in    *)
(* which a comment can open.                                                *)
StepFlat(at, t) ==
  CASE at.mode = "block" /\ t.kind = "close" -> InCode
    [] at.mode = "line" /\ t.kind = "newline" -> InCode
    [] at.mode = "code" /\ t.kind = "open" -> At("block", 1, "")
    [] at.mode = "code" /\ t.kind = "dash" -> At("line", 0, "")
    [] at.mode = "code" /\ t.kind = "quote" -> At("quote", 0, "")
    [] at.mode = "code" /\ t.kind = "dollar" -> At("dollar", 0, t.tag)
    [] at.mode = "quote" /\ t.kind = "quote" -> InCode
    [] at.mode = "dollar" /\ t.kind = "dollar" /\ t.tag = at.tag -> InCode
    [] OTHER -> at

StepLiteral(at, t) ==
  CASE at.mode = "block" /\ t.kind = "open" -> At("block", at.depth + 1, "")
    [] at.mode = "block" /\ t.kind = "close" ->
         IF at.depth = 1 THEN InCode ELSE At("block", at.depth - 1, "")
    [] at.mode = "line" /\ t.kind = "newline" -> InCode
    [] at.mode = "code" /\ t.kind = "open" -> At("block", 1, "")
    [] at.mode = "code" /\ t.kind = "dash" -> At("line", 0, "")
    [] OTHER -> at

Step(at, t) ==
  CASE at.mode = "code" /\ t.kind = "quote" -> At("quote", 0, "")
    [] at.mode = "code" /\ t.kind = "dollar" -> At("dollar", 0, t.tag)
    [] at.mode = "code" /\ t.kind = "dash" -> At("line", 0, "")
    [] at.mode = "code" /\ t.kind = "open" -> At("block", 1, "")
    [] at.mode = "quote" /\ t.kind = "quote" -> InCode
    [] at.mode = "dollar" /\ t.kind = "dollar" /\ t.tag = at.tag -> InCode
    [] at.mode = "line" /\ t.kind = "newline" -> InCode
    [] at.mode = "block" /\ t.kind = "open" -> At("block", at.depth + 1, "")
    [] at.mode = "block" /\ t.kind = "close" ->
         IF at.depth = 1 THEN InCode ELSE At("block", at.depth - 1, "")
    [] OTHER -> at

(* Where the reader is after each of the tokens. *)
Reader(text) ==
  LET at[i \in 0..Len(text)] == IF i = 0 THEN InCode ELSE Step(at[i - 1], text[i]) IN at

LineOf(text, i) == 1 + Cardinality({j \in 1..(i - 1) : text[j].kind = "newline"})

(* The statements that are left, each with the line it starts on: a blanked *)
(* comment keeps its newlines.                                              *)
Statements(text) ==
  {[kind |-> text[i].kind, schema |-> text[i].schema, name |-> text[i].name,
    line |-> LineOf(text, i)] :
     i \in {j \in 1..Len(text) : /\ text[j].kind \in {"create", "enable"}
                                 /\ Reader(text)[j - 1].mode \notin {"line", "block"}}}

-----------------------------------------------------------------------------
(* The rule: a migration that cannot be read is left out, the first create *)
(* of a table stands for it, and enabling counts wherever it is.           *)

Entries(f, kind) ==
  {[table |-> Normalise(s.name), path |-> f.path, line |-> s.line] :
     s \in {x \in Statements(f.text) : x.kind = kind /\ IsPublic(x.schema)}}

Stated(r, kind) == UNION {Entries(f, kind) : f \in {g \in MigrationFiles(r) : g.readable}}

Earlier(x, y) ==
  x.path.name < y.path.name \/ (x.path.name = y.path.name /\ x.line < y.line)

(* Faults: the last create is reported, and a table has to be locked down   *)
(* by the migration that creates it.                                        *)
LastCreates(r) ==
  LET all == Stated(r, "create")
  IN {x \in all : ~\E y \in all : y.table = x.table /\ Earlier(x, y)}

EnabledWithin(r, x) ==
  \E y \in Stated(r, "enable") : y.table = x.table /\ y.path = x.path

Created(r) ==
  LET all == Stated(r, "create")
  IN {x \in all : ~\E y \in all : y.table = x.table /\ Earlier(y, x)}

Enabled(r, x) == \E y \in Stated(r, "enable") : y.table = x.table

RlsFindings(r) == {x \in Created(r) : ~Enabled(r, x)}

-----------------------------------------------------------------------------
(* What was written, before it was text.  An item is a statement on a line *)
(* of its own and what it stands in: nothing, a line comment, a block      *)
(* comment inside a block comment, a string or a function body that holds  *)
(* the marks of a comment.                                                 *)

Mark(kind) == [kind |-> kind]
Dollar(tag) == [kind |-> "dollar", tag |-> tag]

Written(item) ==
  CASE item.within = "code" -> <<item.statement, Mark("newline")>>
    [] item.within = "line" ->
         <<Mark("dash"), Mark("quote"), Mark("open"), item.statement, Mark("newline")>>
    [] item.within = "block" ->
         <<Mark("open"), Mark("open"), Mark("quote"), Mark("newline"), Mark("close"),
           item.statement, Dollar("x"), Mark("close"), Mark("newline")>>
    [] item.within = "string" ->
         <<Mark("quote"), Mark("open"), Mark("dash"), Mark("quote"), item.statement, Mark("newline")>>
    [] item.within = "body" ->
         <<Dollar("x"), Mark("quote"), Mark("open"), Dollar(""), item.statement, Mark("newline"),
           Dollar("x"), Mark("newline")>>

(* What a file states of public tables, told from its items. *)
TableOf(s) == <<s.name.letters, s.name.upper /\ s.name.quoted>>

InPublic(s) ==
  \/ s.schema = NoSchema
  \/ s.schema.letters = "public" /\ (s.schema.quoted => ~s.schema.upper)

Says(f, kind) ==
  {TableOf(item.statement) :
     item \in {x \in ToSet(f.items) : /\ x.within \notin {"line", "block"}
                                     /\ x.statement.kind = kind
                                     /\ InPublic(x.statement)}}

TableFound(finding) == <<finding.table.letters, finding.table.upper>>

Told(found, read) ==
  /\ {TableFound(x) : x \in found}
        = (UNION {Says(f, "create") : f \in read}) \ (UNION {Says(f, "enable") : f \in read})
  /\ \A x, y \in found : TableFound(x) = TableFound(y) => x = y
  /\ \A x \in found : \A f \in read :
       TableFound(x) \in Says(f, "create") => x.path.name <= f.path.name

(* rls.rs: "A table created in January and secured in March is secure, and  *)
(* neither of those two files says so on its own".  A table is reported,    *)
(* once and in the first migration that creates it, exactly when a readable *)
(* migration creates it in public and none locks it down, whatever stands   *)
(* in comments and however the statements spell it.                         *)
RlsTold == Told(RlsFindings(repo), {f \in repo : IsMigration(f.path) /\ f.readable})
=============================================================================
