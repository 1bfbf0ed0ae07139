---------------------------- MODULE MigrationsPart ----------------------------
(* The part of MCAnswers that reads migrations.                              *)
EXTENDS Parts

Sql == INSTANCE MCMigrations WITH repo <- input

SqlInit == part = "migrations" /\ Sql!RepoInit

(* Migrations: the tables reported are those the migrations create in the   *)
(* public schema and nowhere lock down.                                     *)
RlsTold == part = "migrations" => Sql!RlsTold
===============================================================================
