------------------------------- MODULE Answers -------------------------------
(***************************************************************************)
(* What locrin answers: the rules behind their cache while builds and      *)
(* configs change, the MCP server beside other processes, and the          *)
(* functions that read a repository.  A behavior is one part's: `part`     *)
(* says whose, and the other variables stay where they start.  A function  *)
(* has no steps: each of its inputs is a state.  MCAnswers adds the parts  *)
(* that read statements and syntax trees.                                  *)
(***************************************************************************)
EXTENDS MCRules, Parts

CONSTANTS MaxMessages, MaxEvents  \* bounds of McpServer

VARIABLES
  inbox, sent, taken, call, buffer,  \* McpServer
  outbox, serving, index, sees, held, events,
  query                              \* the second input of a function

serverVars == <<inbox, sent, taken, call, buffer, outbox, serving, index, sees, held, events>>
inputs == <<input, query>>
answersVars == <<part, vars, serverVars, inputs>>

Server == INSTANCE McpServer
Graph == INSTANCE MCImportGraph WITH world <- input
Versions == INSTANCE MCVersions WITH match <- input
Locks == INSTANCE MCLockfiles WITH locks <- input

-----------------------------------------------------------------------------
RulesRest ==
  /\ engine = CHOOSE e \in Engines : TRUE
  /\ config = CHOOSE k \in Configs : TRUE
  /\ disk = [f \in Files |-> t1]
  /\ rows = [f \in Files |-> None]
  /\ cache = [f \in Files |-> [x \in RuleIds |-> None]]
  /\ report = None

InputInit ==
  \/ part = "graph" /\ Graph!WorldInit /\ query = None
  \/ part = "versions" /\ Versions!MatchInit /\ query = None
  \/ part = "locks" /\ Locks!LocksInit /\ query = None

NoInput == input = None /\ query = None

AnswersInit ==
  \/ part = "rules" /\ Init /\ Server!Init /\ index = "none" /\ NoInput
  \/ part = "server" /\ RulesRest /\ Server!Init /\ NoInput
  \/ RulesRest /\ Server!Init /\ index = "none" /\ InputInit

RulesStep == part = "rules" /\ Next /\ UNCHANGED <<part, serverVars, inputs>>

ServerStep == part = "server" /\ Server!Next /\ UNCHANGED <<part, vars, inputs>>

Serve == part = "server" /\ Server!Serve /\ UNCHANGED <<part, vars, inputs>>

(* The loop of the server reads on while there are lines to read; nobody    *)
(* has to send, and no run has to be made.                                  *)
AnswersSpec ==
  AnswersInit /\ [][RulesStep \/ ServerStep]_answersVars /\ WF_answersVars(Serve)

-----------------------------------------------------------------------------
(* McpServer: every line that is owed an answer has one, exactly once and   *)
(* in the order the lines came, whatever a tool does, and "nothing exists"  *)
(* is never the answer about an index that held no file.                    *)
AnswersKept == []Server!AnswersInOrder /\ Server!NothingByAccident

(* McpServer: a response left in a buffer, or a server a tool took down, is *)
(* a client that waits forever.                                             *)
EveryoneAnswered == Server!EveryoneAnswered

(* ImportGraph: an import resolves to what it names, the longest alias      *)
(* first, nothing is reported dead that a text takes which parses, or a     *)
(* broken one where the scan is said to find it, and an import line crosses *)
(* a boundary once.                                                         *)
GraphSafe == part = "graph" => Graph!GraphSafe

(* Versions and Lockfiles: versions compare in a total order, a snapshot is *)
(* used for the packages it answered for, and two versions of a package are *)
(* two findings.                                                            *)
AdviceGrounded ==
  /\ part = "versions" => Versions!OrdersVersions
  /\ part = "locks" => Locks!LocksSafe

(* Versions: versions compare as their registry publishes them, the fix     *)
(* that is named is newer by that order than the installed version and      *)
(* closes the interval that holds it, and the order of the document changes *)
(* nothing.                                                                 *)
AdviceSafe == part = "versions" => Versions!UpgradeSafe
=============================================================================
