----------------------------- MODULE McpServer -----------------------------
(***************************************************************************)
(* The MCP server: the loop of crates/mcp/src/lib.rs over one connection   *)
(* and the tools of cli/src/mcp_tools.rs behind it, beside other processes *)
(* that fill, rebuild and delete the index the tools open.                 *)
(*                                                                         *)
(* Abstractions.  A message is its form, its id and what it calls; the     *)
(* arguments of a call are good or bad.  The gate that check_changes,      *)
(* explain_finding and accept_finding run is Reporting's and Baseline's:   *)
(* here it fills the index and may fail.  A search finds something or not, *)
(* in an index that holds files.  A panic can happen in any tool.          *)
(***************************************************************************)
EXTENDS Naturals, Sequences, SequencesExt

CONSTANTS
  MaxMessages,  \* bound on what the client sends
  MaxEvents     \* bound on what other processes do to the index

Gates == {"check_changes", "explain_finding", "accept_finding"}
KnownTools == Gates \cup {"find_existing", "status"}

(* No id and a null id are the same to the server. *)
NoId == 0

VARIABLES
  inbox,   \* messages in the server's pipe
  sent,    \* history: every message sent
  taken,   \* how many the server has read
  call,    \* the tool call in hand, or Idle
  buffer,  \* messages written and not flushed
  outbox,  \* messages the client has
  serving, \* FALSE once serve has returned
  index,   \* the index file: "none", "empty", "filled"
  sees,    \* what the call's connection reads, or "closed"
  held,    \* history: the index held files while the call in hand ran
  events   \* what other processes did to the index, counted

serverVars == <<inbox, sent, taken, call, buffer, outbox, serving, index, sees,
                held, events>>

Idle == [id |-> NoId, tool |-> "none", step |-> "idle", good |-> FALSE]

(* What can arrive on a line; the id is the message's place. *)
Lines(n) ==
  [form : {"blank", "garbage"}, id : {NoId}, tool : {"none"}, good : {FALSE}]
  \cup [form : {"no method", "method", "unknown method"}, id : {NoId, n},
        tool : {"none"}, good : {FALSE}]
  \cup [form : {"call"}, id : {NoId, n}, tool : KnownTools \cup {"unknown tool"},
        good : {TRUE}]
  \cup [form : {"call"}, id : {n}, tool : KnownTools, good : {FALSE}]

Reply(id, says) == [id |-> id, says |-> says]

-----------------------------------------------------------------------------
(* Three faulty forms: a message without an id is answered, a tool's panic *)
(* takes the server down, and a written message is not flushed.            *)
AnswersAll(m) == m.form # "blank"
DiesOnPanic == FALSE
KeptInBuffer(written) == <<>>
TrustsPath(view) == TRUE

(* handle: the method is looked for before the id. *)
GetsReply(m) ==
  \/ m.form \in {"garbage", "no method"}
  \/ m.form # "blank" /\ m.id # NoId

(* catch_unwind around the call. *)
SurvivesPanic == TRUE

(* write_message flushes after each message. *)
Flushed(written) == written

(* has_files on the open connection. *)
HasFiles(view) == view = "filled"

(* The answer to a message that runs no tool. *)
Plain(m) ==
  CASE m.form = "garbage" -> "parse error"
    [] m.form = "no method" -> "invalid request"
    [] m.form = "method" -> "result"
    [] m.form = "unknown method" -> "method not found"
    [] m.form = "call" -> "invalid params"

Runs(m) == m.form = "call" /\ m.tool \in KnownTools /\ m.id # NoId

Write(reply) ==
  LET written == Append(buffer, reply)
      out == Flushed(written)
  IN /\ outbox' = outbox \o out
     /\ buffer' = IF out = <<>> THEN written ELSE <<>>

-----------------------------------------------------------------------------
Init ==
  /\ inbox = <<>> /\ sent = <<>> /\ taken = 0 /\ call = Idle
  /\ buffer = <<>> /\ outbox = <<>> /\ serving = TRUE
  /\ index \in {"none", "empty", "filled"} /\ sees = "closed"
  /\ held = FALSE /\ events = 0

(* A client may send before it has its answers. *)
Send(m) ==
  /\ Len(sent) < MaxMessages
  /\ sent' = Append(sent, m) /\ inbox' = Append(inbox, m)
  /\ UNCHANGED <<taken, call, buffer, outbox, serving, index, sees, held, events>>

(* One line is read and, unless it runs a tool, answered or not. *)
Read ==
  /\ serving /\ call = Idle /\ inbox # <<>>
  /\ LET m == Head(inbox)
     IN IF Runs(m)
          THEN /\ call' = [id |-> m.id, tool |-> m.tool, step |-> "start", good |-> m.good]
               /\ held' = (index = "filled")
               /\ UNCHANGED <<buffer, outbox>>
          ELSE /\ IF GetsReply(m) THEN Write(Reply(m.id, Plain(m)))
                                  ELSE UNCHANGED <<buffer, outbox>>
               /\ UNCHANGED <<call, held>>
  /\ inbox' = Tail(inbox) /\ taken' = taken + 1
  /\ UNCHANGED <<sent, serving, index, sees, events>>

(* The tool returned, or failed as a tool, which is a result all the same. *)
Return(says) ==
  /\ Write(Reply(call.id, says))
  /\ call' = Idle /\ sees' = "closed"

At(tools, s) == serving /\ call.tool \in tools /\ call.step = s

(* An argument the tool refuses. *)
RefuseArguments ==
  /\ At(KnownTools \ {"status"}, "start") /\ ~call.good
  /\ Return("tool error")
  /\ UNCHANGED <<inbox, sent, taken, serving, index, held, events>>

(* A gate run opens the index, making one if need be, and records. *)
RunGate ==
  /\ At(Gates, "start") /\ call.good
  /\ \/ index' = "filled" /\ Return("result")
     \/ index' \in {index, "empty"} /\ Return("tool error")
  /\ UNCHANGED <<inbox, sent, taken, serving, held, events>>

(* The index must be there before it is opened: opening would create it. *)
LookForIndex ==
  /\ At({"find_existing", "status"}, "start") /\ (call.good \/ call.tool = "status")
  /\ \/ /\ index = "none"
        /\ Return(IF call.tool = "status" THEN "result" ELSE "tool error")
     \/ /\ index # "none" /\ call' = [call EXCEPT !.step = "open"]
        /\ UNCHANGED <<buffer, outbox, sees>>
  /\ UNCHANGED <<inbox, sent, taken, serving, index, held, events>>

(* Index::open: it may rebuild what this build cannot read, and creates an *)
(* index that went away since the look.                                    *)
OpenIndex ==
  /\ At({"find_existing", "status"}, "open")
  /\ index' = IF index = "none" THEN "empty" ELSE index
  /\ sees' = index' /\ call' = [call EXCEPT !.step = "query"]
  /\ UNCHANGED <<inbox, sent, taken, buffer, outbox, serving, held, events>>

RebuildOnOpen ==
  /\ At({"find_existing", "status"}, "open") /\ index = "filled" /\ events < MaxEvents
  /\ index' = "empty" /\ sees' = "empty" /\ events' = events + 1
  /\ call' = [call EXCEPT !.step = "query"]
  /\ UNCHANGED <<inbox, sent, taken, buffer, outbox, serving, held>>

Query ==
  /\ At({"find_existing", "status"}, "query")
  /\ \/ call.tool = "status" /\ Return("result")
     \/ /\ call.tool = "find_existing"
        /\ IF HasFiles(sees) THEN \E says \in {"matches", "nothing exists"} : Return(says)
                             ELSE Return("tool error")
  /\ UNCHANGED <<inbox, sent, taken, serving, index, held, events>>

(* The call panics, anywhere in it. *)
Panic ==
  /\ serving /\ call # Idle
  /\ IF SurvivesPanic
       THEN Return("internal engine failure") /\ UNCHANGED serving
       ELSE /\ serving' = FALSE /\ call' = Idle
            /\ UNCHANGED <<buffer, outbox, sees>>
  /\ UNCHANGED <<inbox, sent, taken, index, held, events>>

(* Another process scans, rebuilds the index in place, or deletes it.  A   *)
(* connection keeps reading the file that was deleted under it.            *)
OtherProcess(to) ==
  /\ events < MaxEvents /\ index # to
  /\ index' = to /\ events' = events + 1
  /\ sees' = IF sees = "closed" \/ to = "none" THEN sees ELSE to
  /\ held' = (held \/ to = "filled")
  /\ UNCHANGED <<inbox, sent, taken, call, buffer, outbox, serving>>

Serve ==
  \/ Read \/ RefuseArguments \/ RunGate \/ LookForIndex \/ OpenIndex \/ Query

Next ==
  \/ Serve \/ RebuildOnOpen \/ Panic
  \/ \E m \in Lines(Len(sent) + 1) : Send(m)
  \/ \E to \in {"none", "empty", "filled"} : OtherProcess(to)

-----------------------------------------------------------------------------
(* What the protocol owes for one line, as JSON-RPC says it: a request has *)
(* an id and one answer with it, a notification has none, and a line that  *)
(* is no request at all is answered with what id could be read.            *)
Owed(m) ==
  IF m.form = "blank" THEN <<>>
  ELSE IF m.form \in {"garbage", "no method"} THEN <<m.id>>
  ELSE IF m.id = NoId THEN <<>> ELSE <<m.id>>

OwedIds(messages) == FlattenSeq([i \in 1..Len(messages) |-> Owed(messages[i])])
Ids(replies) == [i \in 1..Len(replies) |-> replies[i].id]

Done == SubSeq(sent, 1, IF call = Idle THEN taken ELSE taken - 1)

(* serve, handle: whatever a tool does, every line is answered once or, a  *)
(* notification or a blank, not at all, in the order the lines came.       *)
AnswersInOrder == serving /\ Ids(outbox \o buffer) = OwedIds(Done)

(* find_existing: "nothing exists" is never said of an index that held no  *)
(* file at any moment of the call: "the one answer this tool must never    *)
(* give by accident".                                                      *)
NothingByAccident ==
  [][(call.tool = "find_existing" /\ call' = Idle /\ Len(outbox') > Len(outbox)
       /\ Last(outbox').says = "nothing exists") => held]_serverVars

(* Every line that is owed an answer has it in the end: a response left in *)
(* a buffer, or a server a tool took down, is a client that waits forever. *)
EveryoneAnswered ==
  \A n \in 1..MaxMessages :
    (Len(sent) >= n /\ Owed(sent[n]) # <<>>)
      ~> (Len(sent) >= n /\ Len(outbox) >= Len(OwedIds(SubSeq(sent, 1, n))))
=============================================================================
