----------------------------- MODULE AgentHooks -----------------------------
(***************************************************************************)
(* The three hooks that stand between an agent and a broken repository:    *)
(* post-edit, Stop and pre-commit (crates/cli/src/hook/mod.rs), with the   *)
(* Stop hook's round counter (hook/session.rs) and the scopes the checks   *)
(* take from git (git.rs) or from the index's watermark (run.rs, pass).    *)
(*                                                                         *)
(* Abstractions.  A finding that blocks is a property of one file's text   *)
(* (`Blocking`).  A check is one step on the index: its own interleavings  *)
(* are Indexing's.  Everyone who edits (agents, people) is one editor.     *)
(***************************************************************************)
EXTENDS Naturals, FiniteSets

CONSTANTS
  Files,      \* source files of the repository
  Texts,      \* what they may hold
  Blocking,   \* the texts with a blocking finding
  Gone,       \* no such file
  NoHead,     \* git has no commit to compare with
  Sessions,   \* agent sessions: one counter file, one Stop hook at a time each
  MaxRounds,  \* MAX_ROUNDS
  MaxFaults   \* bound on hooks killed and counters not written

ASSUME HooksAssumption ==
  /\ Blocking \subseteq Texts /\ Gone \notin Texts
  /\ NoHead \notin [Files -> Texts \cup {Gone}]
  /\ MaxRounds \in Nat /\ MaxFaults \in Nat

VARIABLES
  tree,     \* the working tree
  staged,   \* git's index
  head,     \* the last commit, or NoHead
  known,    \* the texts Locrin's index holds: the --changed watermark
  saved,    \* the round counter in each session's file
  hook,     \* where each session's Stop hook is
  byHead,   \* the Stop hooks that diff against HEAD
  rounds,   \* the counter as the hook holds it
  scope,    \* the files a diff named
  verdict,  \* the files with blocking findings, once checked
  agent,    \* "working", or "stopped"
  sent,     \* history: times sent back since the last clean verdict
  lost,     \* history: counters lost since then
  faults,   \* faults so far
  told,     \* history: sessions whose person heard of the cap
  held      \* history: the files each session was last sent back for, unedited
            \* and uncommitted since

repo == <<tree, staged, head, known>>
proc == <<hook, byHead, rounds, scope, verdict>>
hist == <<sent, lost, faults, told, held>>
vars == <<repo, proc, hist, saved, agent>>

Contents == Texts \cup {Gone}

(* The history counter of rounds saturates past what BlocksBounded allows. *)
SentCap == MaxRounds * (1 + MaxFaults) + 1

-----------------------------------------------------------------------------
(* Faulty forms of definitions below, each a bug this code could have. *)

(* The Stop hook answers for what the index calls changed, HEAD or not. *)
ScopeByWatermark(s) == {f \in Files : tree[f] # Gone /\ tree[f] # known[f]}

(* A blocking verdict leaves the counter as it was. *)
NotCounted(s) == rounds[s]

(* The gate asks for what the index calls changed among the staged files. *)
GateByWatermark ==
  {f \in Files : /\ staged[f] # Gone /\ staged[f] # head[f]
                 /\ tree[f] # Gone /\ tree[f] # known[f]}

(* The cap is looked for one round late. *)
PastCapLate(s) == saved[s] > MaxRounds + 1

(* A blocking verdict at the cap sends the agent back once more. *)
OneMoreRound(s) == verdict[s] # {} /\ rounds[s] <= MaxRounds + 1

(* At the cap the hook stands down without a word. *)
Unheard(s) == told

-----------------------------------------------------------------------------
(* The scopes a check can take. *)

(* changed_files for `--base HEAD`: what differs from HEAD and is on disk. *)
DiffScope == {f \in Files : tree[f] # Gone /\ tree[f] # head[f]}

(* --changed: what the index has not recorded in this form. *)
Watermark == {f \in Files : tree[f] # Gone /\ tree[f] # known[f]}

(* staged_files: added, copied, modified or renamed, never deleted. *)
StagedFiles ==
  {f \in Files : staged[f] # Gone /\ (head = NoHead \/ staged[f] # head[f])}

(* Findings of a check narrowed to a scope: what is on disk decides. *)
BlockingIn(files) == {f \in files : tree[f] \in Blocking}

(* Every recording check walks the whole repository, whatever its scope. *)
Recorded == tree

(* What a Stop hook's check answers for. *)
StopScope(s) == IF s \in byHead THEN scope[s] ELSE Watermark

-----------------------------------------------------------------------------
(* The working tree, git, and the two hooks that answer in one step. *)

Edit(f, c) ==
  /\ tree[f] # c
  /\ tree' = [tree EXCEPT ![f] = c]
  /\ held' = [s \in Sessions |-> held[s] \ {f}]
  /\ UNCHANGED <<staged, head, known, proc, sent, lost, faults, told, saved, agent>>

Stage(f) ==
  /\ staged[f] # tree[f]
  /\ staged' = [staged EXCEPT ![f] = tree[f]]
  /\ UNCHANGED <<tree, head, known, proc, hist, saved, agent>>

(* post_edit: a check of the path just written.  Whatever it answers, the  *)
(* run has recorded the whole repository.                                  *)
PostEdit(f) ==
  /\ tree[f] # Gone
  /\ known' = Recorded
  /\ UNCHANGED <<tree, staged, head, proc, hist, saved, agent>>

(* git commit behind pre_commit: the staged paths that are on disk are     *)
(* checked; nothing to check passes, and a blocking verdict stops the      *)
(* commit.                                                                 *)
PreCommitPaths == {f \in StagedFiles : tree[f] # Gone}

GitCommit ==
  /\ staged # head
  /\ known' = IF PreCommitPaths = {} THEN known ELSE Recorded
  /\ IF BlockingIn(PreCommitPaths) = {}
       THEN /\ head' = staged
            /\ held' = [s \in Sessions |-> {}]
       ELSE UNCHANGED <<head, held>>
  /\ UNCHANGED <<tree, staged, proc, sent, lost, faults, told, saved, agent>>

-----------------------------------------------------------------------------
(* The Stop hook. *)

(* What the hook forgets when its process ends. *)
Exit(s) ==
  /\ hook' = [hook EXCEPT ![s] = "idle"]
  /\ byHead' = byHead \ {s}
  /\ rounds' = [rounds EXCEPT ![s] = 0]
  /\ scope' = [scope EXCEPT ![s] = {}]
  /\ verdict' = [verdict EXCEPT ![s] = {}]

Stopped(s) == agent' = [agent EXCEPT ![s] = "stopped"]

PastCap(s) == saved[s] > MaxRounds

(* The session is loaded.  Past the cap the hook says nothing and lets go;  *)
(* otherwise the scope is chosen by whether git has a commit.               *)
StopsSilently(s) ==
  /\ hook[s] = "idle" /\ agent[s] = "working"
  /\ PastCap(s)
  /\ Stopped(s)
  /\ UNCHANGED <<repo, proc, hist, saved>>

StopBegins(s) ==
  /\ hook[s] = "idle" /\ agent[s] = "working"
  /\ ~PastCap(s)
  /\ hook' = [hook EXCEPT ![s] = "begun"]
  /\ rounds' = [rounds EXCEPT ![s] = saved[s]]
  /\ byHead' = IF head # NoHead THEN byHead \cup {s} ELSE byHead
  /\ UNCHANGED <<repo, scope, verdict, hist, saved, agent>>

(* The worker: git names the files, then the run reads and records. *)
TakeScope(s) ==
  /\ hook[s] = "begun"
  /\ scope' = [scope EXCEPT ![s] = IF s \in byHead THEN DiffScope ELSE {}]
  /\ hook' = [hook EXCEPT ![s] = "scoped"]
  /\ UNCHANGED <<repo, byHead, rounds, verdict, hist, saved, agent>>

Check(s) ==
  /\ hook[s] = "scoped"
  /\ verdict' = [verdict EXCEPT ![s] = BlockingIn(StopScope(s))]
  /\ known' = Recorded
  /\ hook' = [hook EXCEPT ![s] = "checked"]
  /\ UNCHANGED <<tree, staged, head, byHead, rounds, scope, hist, saved, agent>>

(* A timeout, a panic or an error: the person is told that nothing was      *)
(* checked and the stop goes ahead.  The worker may have recorded by then.  *)
GivesUp(s) ==
  /\ hook[s] \in {"begun", "scoped", "checked"}
  /\ Stopped(s)
  /\ Exit(s)
  /\ UNCHANGED <<repo, hist, saved>>

(* A clean verdict returns the budget, a blocking one spends a round. *)
Spent(s) == rounds[s] + 1

NextRounds(s) == IF verdict[s] = {} THEN 0 ELSE Spent(s)

Counts(s) ==
  /\ hook[s] = "checked"
  /\ hook' = [hook EXCEPT ![s] = "counted"]
  /\ rounds' = [rounds EXCEPT ![s] = NextRounds(s)]
  /\ sent' = IF verdict[s] = {} THEN [sent EXCEPT ![s] = 0] ELSE sent
  /\ UNCHANGED <<repo, byHead, scope, verdict, agent, told, held>>

Save(s) ==
  /\ Counts(s)
  /\ saved' = [saved EXCEPT ![s] = NextRounds(s)]
  /\ lost' = IF verdict[s] = {} THEN [lost EXCEPT ![s] = 0] ELSE lost
  /\ UNCHANGED faults

(* The counter cannot be written: a warning, and the answer goes out. *)
SaveFails(s) ==
  /\ faults < MaxFaults
  /\ Counts(s)
  /\ faults' = faults + 1
  /\ lost' = [lost EXCEPT ![s] = @ + 1]
  /\ UNCHANGED saved

(* The answer: nothing when clean, a block while rounds remain, and at the *)
(* cap a message to the person instead.                                    *)
Blocks(s) == verdict[s] # {} /\ rounds[s] <= MaxRounds

Hearing(s) == told \cup {s}

LetsGo(s) ==
  /\ hook[s] = "counted" /\ verdict[s] = {}
  /\ Stopped(s)
  /\ Exit(s)
  /\ UNCHANGED <<repo, saved, hist>>

SendsBack(s) ==
  /\ hook[s] = "counted" /\ Blocks(s)
  /\ sent' = [sent EXCEPT ![s] = IF @ < SentCap THEN @ + 1 ELSE @]
  /\ held' = [held EXCEPT ![s] = {f \in verdict[s] :
                 tree[f] \in Blocking /\ (head = NoHead \/ tree[f] # head[f])}]
  /\ Exit(s)
  /\ UNCHANGED <<repo, saved, agent, lost, faults, told>>

StandsDown(s) ==
  /\ hook[s] = "counted" /\ verdict[s] # {} /\ ~Blocks(s)
  /\ Stopped(s)
  /\ told' = Hearing(s)
  /\ Exit(s)
  /\ UNCHANGED <<repo, saved, sent, lost, faults, held>>

(* The process dies.  In the middle of writing the counter it leaves a file *)
(* that does not parse, which the next stop reads as zero.                  *)
Kill(s) ==
  /\ hook[s] # "idle"
  /\ faults < MaxFaults
  /\ faults' = faults + 1
  /\ \/ UNCHANGED <<saved, lost>>
     \/ /\ hook[s] = "checked"
        /\ saved' = [saved EXCEPT ![s] = 0]
        /\ lost' = [lost EXCEPT ![s] = @ + 1]
  /\ Stopped(s)
  /\ Exit(s)
  /\ UNCHANGED <<repo, sent, told, held>>

(* The person gives the agent something else to do. *)
Prompt(s) ==
  /\ agent[s] = "stopped"
  /\ agent' = [agent EXCEPT ![s] = "working"]
  /\ UNCHANGED <<repo, proc, hist, saved>>

-----------------------------------------------------------------------------
(* The repository starts clean and Locrin's index knows it, with a first   *)
(* commit or none; no session has stopped yet.                             *)
Init ==
  /\ tree \in [Files -> Contents \ Blocking]
  /\ staged = tree
  /\ head \in {tree, NoHead}
  /\ known = tree
  /\ saved = [s \in Sessions |-> 0]
  /\ hook = [s \in Sessions |-> "idle"]
  /\ byHead = {}
  /\ rounds = [s \in Sessions |-> 0]
  /\ scope = [s \in Sessions |-> {}]
  /\ verdict = [s \in Sessions |-> {}]
  /\ agent = [s \in Sessions |-> "working"]
  /\ sent = [s \in Sessions |-> 0]
  /\ lost = [s \in Sessions |-> 0]
  /\ faults = 0
  /\ told = {}
  /\ held = [s \in Sessions |-> {}]

(* What the hook's process does by itself once started, and the stop of an *)
(* agent that is at work: both answered within the budget.                 *)
HookRuns(s) ==
  \/ TakeScope(s) \/ Check(s) \/ GivesUp(s)
  \/ Save(s) \/ SaveFails(s)
  \/ LetsGo(s) \/ SendsBack(s) \/ StandsDown(s)

AgentStops(s) == StopsSilently(s) \/ StopBegins(s)

Next ==
  \/ \E f \in Files : (\E c \in Contents : Edit(f, c)) \/ Stage(f) \/ PostEdit(f)
  \/ GitCommit
  \/ \E s \in Sessions : HookRuns(s) \/ AgentStops(s) \/ Kill(s) \/ Prompt(s)

Spec == Init /\ [][Next]_vars

(* recv_timeout ends every wait, so a hook started ends; and an agent sent *)
(* back does try to stop again.                                            *)
Fairness ==
  \A s \in Sessions : WF_vars(HookRuns(s)) /\ WF_vars(AgentStops(s))

-----------------------------------------------------------------------------
TypeOK ==
  /\ tree \in [Files -> Contents]
  /\ staged \in [Files -> Contents]
  /\ head \in [Files -> Contents] \cup {NoHead}
  /\ known \in [Files -> Contents]
  /\ saved \in [Sessions -> 0..(MaxRounds + 1)]
  /\ hook \in [Sessions -> {"idle", "begun", "scoped", "checked", "counted"}]
  /\ byHead \subseteq Sessions
  /\ rounds \in [Sessions -> 0..(MaxRounds + 1)]
  /\ scope \in [Sessions -> SUBSET Files]
  /\ verdict \in [Sessions -> SUBSET Files]
  /\ agent \in [Sessions -> {"working", "stopped"}]
  /\ sent \in [Sessions -> 0..SentCap]
  /\ lost \in [Sessions -> 0..MaxFaults]
  /\ faults \in 0..MaxFaults
  /\ told \subseteq Sessions
  /\ held \in [Sessions -> SUBSET Files]
  /\ \A s \in byHead : head # NoHead

(* An agent is sent back at most MaxRounds times between clean verdicts,   *)
(* and a counter lost to a failed or a torn write returns at most one      *)
(* budget (session.rs load and save, the cap in stop).                     *)
BlocksBounded == \A s \in Sessions : sent[s] <= MaxRounds * (1 + lost[s])

(* While no hook is killed and every counter is written, the hook falls     *)
(* silent about blocking findings only after the person was told that it    *)
(* would (the early return of stop and its comment).                        *)
ToldBeforeSilence ==
  faults = 0 =>
    \A s \in Sessions : saved[s] > MaxRounds /\ hook[s] = "idle" => s \in told

(* A clean verdict never lets an agent go while a file it was sent back    *)
(* for still holds its blocking finding, neither edited nor committed      *)
(* since: what stop checks is not used up by the checks that went before.  *)
HeldUntilFixed ==
  [][\A s \in Sessions : LetsGo(s) => held[s] = {}]_vars

(* The pre-commit gate reads the working tree: a blocking text is committed *)
(* only where the tree no longer holds what was staged, whatever the checks *)
(* that ran before have recorded.                                           *)
CommitGated ==
  [][head' # head =>
       \A f \in Files : head'[f] \in Blocking /\ head'[f] = tree[f] =>
         head # NoHead /\ head'[f] = head[f]]_vars

(* The loop of stops and answers ends: an agent at work that keeps trying  *)
(* is at last let go, whatever is edited meanwhile.                        *)
LoopEnds == \A s \in Sessions : hook[s] # "idle" ~> agent[s] = "stopped"
=============================================================================
