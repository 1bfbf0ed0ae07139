------------------------------ MODULE MCAnswers ------------------------------
(* Answers for TLC, with the parts that read statements and syntax trees:    *)
(* migrations, the symbols of a file, its skipped tests, and the calls that  *)
(* hand text to an interpreter.                                              *)
EXTENDS Answers, MigrationsPart

Symbols == INSTANCE MCSymbolTable WITH text <- input
Tests == INSTANCE MCTestCases WITH file <- input
Sinks == INSTANCE MCSinks WITH site <- input

ReadingInit ==
  \/ SqlInit /\ query = None
  \/ part = "symbols" /\ Symbols!SymbolsInit
  \/ part = "tests" /\ Tests!FileInit /\ query = None
  \/ part = "sinks" /\ Sinks!SiteInit /\ query = None

MCAnswersInit ==
  \/ AnswersInit
  \/ RulesRest /\ Server!Init /\ index = "none" /\ ReadingInit

MCAnswersSpec ==
  MCAnswersInit /\ [][RulesStep \/ ServerStep]_answersVars /\ WF_answersVars(Serve)

-----------------------------------------------------------------------------
(* SymbolTable: a name is found by its words, a line has the symbol its     *)
(* anchors are keyed on, and a search keeps the best.  TestCases: a case    *)
(* called skipped is one the runner skips, in a file with no focus the      *)
(* other way too, and one is reported only when no check in it or in a      *)
(* helper it calls can fail it.  Sinks: constants are no findings, and how  *)
(* an argument is wrapped, named or where the file is does not change what  *)
(* is found.                                                                *)
TreesTold ==
  /\ part = "symbols" => Symbols!SymbolsSafe
  /\ part = "tests" => Tests!CasesTold
  /\ part = "sinks" => Sinks!SinksTold
=============================================================================
