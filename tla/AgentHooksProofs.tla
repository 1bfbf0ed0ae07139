-------------------------- MODULE AgentHooksProofs --------------------------
(***************************************************************************)
(* Theorems of AgentHooks, for every set of files, texts and sessions, any *)
(* cap on the rounds and any number of faults.                             *)
(***************************************************************************)
EXTENDS AgentHooks, TLAPS

-----------------------------------------------------------------------------
(* What the properties rest on. *)

(* Until it counts, a hook holds the counter it loaded, and was not past   *)
(* the cap when it did.                                                    *)
CounterInHand ==
  \A s \in Sessions : hook[s] \in {"begun", "scoped", "checked"} =>
    rounds[s] = saved[s] /\ saved[s] <= MaxRounds

(* The rounds the counter has forgotten: one budget for each write lost. *)
Forgotten(s) == MaxRounds * lost[s]

(* Every round sent is in the counter or forgotten; and between the count  *)
(* and the answer there is room for the round that is about to be sent.    *)
WithinBudget(s) ==
  /\ sent[s] <= Forgotten(s) + saved[s]
  /\ sent[s] <= Forgotten(s) + MaxRounds
  /\ hook[s] = "counted" /\ Blocks(s) =>
       /\ sent[s] + 1 <= Forgotten(s) + saved[s]
       /\ sent[s] + 1 <= Forgotten(s) + MaxRounds

Budget == \A s \in Sessions : WithinBudget(s)

LostCounted == \A s \in Sessions : lost[s] <= faults

IInv == TypeOK /\ CounterInHand /\ LostCounted /\ Budget

(* While nothing has failed, a counter past the cap belongs to a session   *)
(* whose person was told, or is about to be.                               *)
CapTold ==
  faults = 0 =>
    \A s \in Sessions :
      /\ hook[s] = "counted" => rounds[s] = saved[s]
      /\ saved[s] > MaxRounds =>
           s \in told \/ (hook[s] = "counted" /\ verdict[s] # {})

(* With a commit to compare with, a file an agent was sent back for keeps  *)
(* its place in every scope and every verdict until it is dealt with.      *)
HeldInScope ==
  /\ head # NoHead
  /\ \A s \in Sessions : hook[s] # "idle" => s \in byHead
  /\ \A s \in Sessions : \A f \in held[s] :
       /\ tree[f] \in Blocking /\ tree[f] # head[f]
       /\ hook[s] \in {"scoped", "checked", "counted"} => f \in scope[s]
       /\ hook[s] \in {"checked", "counted"} => f \in verdict[s]

-----------------------------------------------------------------------------
(* The products the budget is made of, for provers that only add. *)
LEMMA Budgets ==
  /\ MaxRounds * 0 = 0
  /\ \A n \in Nat : MaxRounds * n \in Nat
  /\ \A n \in Nat : MaxRounds * (n + 1) = MaxRounds * n + MaxRounds
  /\ \A n \in Nat : MaxRounds * (1 + n) = MaxRounds * n + MaxRounds
BY HooksAssumption DEF HooksAssumption

(* A step that changes an operator's arguments at one session only leaves  *)
(* the types as they are.                                                  *)
LEMMA TypeStep ==
  ASSUME TypeOK, CounterInHand, LostCounted, [Next]_vars
  PROVE  TypeOK'
<1> USE HooksAssumption DEF HooksAssumption, TypeOK, Contents
<1>1. ASSUME NEW f \in Files, NEW c \in Contents, Edit(f, c)
      PROVE  TypeOK'
  BY <1>1 DEF Edit, proc
<1>2. ASSUME NEW f \in Files, Stage(f)
      PROVE  TypeOK'
  BY <1>2 DEF Stage, proc, hist
<1>3. ASSUME NEW f \in Files, PostEdit(f)
      PROVE  TypeOK'
  BY <1>3 DEF PostEdit, Recorded, proc, hist
<1>4. CASE GitCommit
  BY <1>4 DEF GitCommit, Recorded, proc
<1>5. ASSUME NEW s \in Sessions, StopsSilently(s)
      PROVE  TypeOK'
  BY <1>5 DEF StopsSilently, Stopped, repo, proc, hist
<1>6. ASSUME NEW s \in Sessions, StopBegins(s)
      PROVE  TypeOK'
  BY <1>6 DEF StopBegins, repo, hist
<1>7. ASSUME NEW s \in Sessions, TakeScope(s)
      PROVE  TypeOK'
  BY <1>7 DEF TakeScope, DiffScope, repo, hist
<1>8. ASSUME NEW s \in Sessions, Check(s)
      PROVE  TypeOK'
  BY <1>8 DEF Check, BlockingIn, StopScope, Watermark, Recorded, hist
<1>9. ASSUME NEW s \in Sessions, GivesUp(s)
      PROVE  TypeOK'
  BY <1>9 DEF GivesUp, Stopped, Exit, repo, hist
<1>10. ASSUME NEW s \in Sessions, Counts(s)
       PROVE  /\ NextRounds(s) \in 0..(MaxRounds + 1)
              /\ hook' \in [Sessions -> {"idle", "begun", "scoped", "checked", "counted"}]
              /\ rounds' \in [Sessions -> 0..(MaxRounds + 1)]
              /\ sent' \in [Sessions -> 0..SentCap]
  <2>1. NextRounds(s) \in 0..(MaxRounds + 1)
    BY <1>10 DEF Counts, NextRounds, Spent, CounterInHand
  <2>2. 0 \in 0..SentCap
    <3>1. MaxRounds * (1 + MaxFaults) \in Nat
      BY Budgets
    <3>2. QED
      BY <3>1 DEF SentCap
  <2>3. QED
    BY <1>10, <2>1, <2>2 DEF Counts
<1>11. ASSUME NEW s \in Sessions, Save(s)
       PROVE  TypeOK'
  <2>1. Counts(s)
    BY <1>11 DEF Save
  <2>2. NextRounds(s) \in 0..(MaxRounds + 1)
    BY <1>10, <2>1
  <2>3. saved' \in [Sessions -> 0..(MaxRounds + 1)]
    BY <1>11, <2>2 DEF Save
  <2>4. lost' \in [Sessions -> 0..MaxFaults]
    BY <1>11 DEF Save
  <2>5. QED
    BY <1>10, <1>11, <2>1, <2>3, <2>4 DEF Save, Counts, repo
<1>12. ASSUME NEW s \in Sessions, SaveFails(s)
       PROVE  TypeOK'
  <2>1. lost[s] + 1 \in 0..MaxFaults /\ faults + 1 \in 0..MaxFaults
    BY <1>12 DEF SaveFails, LostCounted
  <2>2. QED
    BY <1>10, <1>12, <2>1 DEF SaveFails, Counts, repo
<1>13. ASSUME NEW s \in Sessions, LetsGo(s)
       PROVE  TypeOK'
  BY <1>13 DEF LetsGo, Stopped, Exit, repo, hist
<1>14. ASSUME NEW s \in Sessions, SendsBack(s)
       PROVE  TypeOK'
  <2>1. SentCap \in Nat
    BY Budgets DEF SentCap
  <2>2. sent' \in [Sessions -> 0..SentCap]
    BY <1>14, <2>1 DEF SendsBack
  <2>3. held' \in [Sessions -> SUBSET Files]
    BY <1>14 DEF SendsBack
  <2>4. QED
    BY <1>14, <2>2, <2>3 DEF SendsBack, Exit, repo
<1>15. ASSUME NEW s \in Sessions, StandsDown(s)
       PROVE  TypeOK'
  BY <1>15 DEF StandsDown, Stopped, Hearing, Exit, repo
<1>16. ASSUME NEW s \in Sessions, Kill(s)
       PROVE  TypeOK'
  <2>1. faults + 1 \in 0..MaxFaults /\ lost[s] + 1 \in 0..MaxFaults
    BY <1>16 DEF Kill, LostCounted
  <2>2. QED
    BY <1>16, <2>1 DEF Kill, Stopped, Exit, repo
<1>17. ASSUME NEW s \in Sessions, Prompt(s)
       PROVE  TypeOK'
  BY <1>17 DEF Prompt, repo, proc, hist
<1>18. CASE UNCHANGED vars
  BY <1>18 DEF vars, repo, proc, hist
<1>19. QED
  BY <1>1, <1>2, <1>3, <1>4, <1>5, <1>6, <1>7, <1>8, <1>9, <1>11, <1>12,
     <1>13, <1>14, <1>15, <1>16, <1>17, <1>18
     DEF Next, HookRuns, AgentStops

(* Every step leaves what a hook has loaded as it found it. *)
LEMMA CounterStep ==
  ASSUME TypeOK, CounterInHand, [Next]_vars
  PROVE  CounterInHand'
<1> USE HooksAssumption DEF HooksAssumption, TypeOK, CounterInHand
<1>1. CASE UNCHANGED <<saved, hook, rounds>>
  BY <1>1
<1>2. ASSUME NEW s \in Sessions, StopBegins(s)
      PROVE  CounterInHand'
  BY <1>2 DEF StopBegins, PastCap
<1>3. ASSUME NEW s \in Sessions, TakeScope(s)
      PROVE  CounterInHand'
  BY <1>3 DEF TakeScope
<1>4. ASSUME NEW s \in Sessions, Check(s)
      PROVE  CounterInHand'
  BY <1>4 DEF Check
<1>5. ASSUME NEW s \in Sessions, Counts(s),
             \A q \in Sessions \ {s} : saved'[q] = saved[q]
      PROVE  CounterInHand'
  BY <1>5 DEF Counts
<1>6. ASSUME NEW s \in Sessions, Exit(s),
             \A q \in Sessions \ {s} : saved'[q] = saved[q]
      PROVE  CounterInHand'
  BY <1>6 DEF Exit
<1>7. QED
  BY <1>1, <1>2, <1>3, <1>4, <1>5, <1>6
     DEF Next, HookRuns, AgentStops, Edit, Stage, PostEdit, GitCommit, StopsSilently,
         GivesUp, Save, SaveFails, LetsGo, SendsBack, StandsDown, Kill, Prompt,
         vars, repo, proc, hist

(* Every counter lost was one of the faults. *)
LEMMA LostStep ==
  ASSUME TypeOK, LostCounted, [Next]_vars
  PROVE  LostCounted'
<1> USE HooksAssumption DEF HooksAssumption, TypeOK, LostCounted
<1>1. CASE UNCHANGED <<lost, faults>>
  BY <1>1
<1>2. ASSUME NEW s \in Sessions, Save(s)
      PROVE  LostCounted'
  BY <1>2 DEF Save
<1>3. ASSUME NEW s \in Sessions, SaveFails(s)
      PROVE  LostCounted'
  BY <1>3 DEF SaveFails
<1>4. ASSUME NEW s \in Sessions, Kill(s)
      PROVE  LostCounted'
  BY <1>4 DEF Kill
<1>5. QED
  BY <1>1, <1>2, <1>3, <1>4
     DEF Next, HookRuns, AgentStops, Edit, Stage, PostEdit, GitCommit, StopsSilently,
         StopBegins, TakeScope, Check, GivesUp, LetsGo, SendsBack, StandsDown, Prompt,
         vars, repo, proc, hist

(* Every step keeps to the budget. *)
LEMMA BudgetStep ==
  ASSUME TypeOK, CounterInHand, Budget, [Next]_vars
  PROVE  Budget'
<1> USE HooksAssumption DEF HooksAssumption, TypeOK
<1>1. ASSUME NEW q \in Sessions,
             UNCHANGED <<saved[q], sent[q], lost[q], hook[q], rounds[q], verdict[q]>>
      PROVE  WithinBudget(q)'
  BY <1>1 DEF Budget, WithinBudget, Forgotten, Blocks
<1>2. ASSUME NEW q \in Sessions, hook'[q] # "counted",
             UNCHANGED <<saved[q], sent[q], lost[q]>>
      PROVE  WithinBudget(q)'
  BY <1>2 DEF Budget, WithinBudget, Forgotten
<1>3. ASSUME NEW q \in Sessions
      PROVE  /\ Forgotten(q) \in Nat /\ sent[q] \in Nat
             /\ lost'[q] = lost[q] + 1 => Forgotten(q)' = Forgotten(q) + MaxRounds
  BY Budgets DEF SentCap, Forgotten
<1>4. ASSUME NEW s \in Sessions, Save(s)
      PROVE  Budget'
  <2>1. CASE verdict[s] = {}
    <3>1. sent'[s] = 0 /\ lost'[s] = 0 /\ saved'[s] = 0 /\ verdict'[s] = {}
      BY <1>4, <2>1 DEF Save, Counts, NextRounds
    <3>2. MaxRounds * 0 = 0
      BY Budgets
    <3>3. WithinBudget(s)'
      BY <3>1, <3>2 DEF WithinBudget, Forgotten, Blocks
    <3>4. QED
      BY <1>1, <1>4, <3>3 DEF Save, Counts, Budget
  <2>2. CASE verdict[s] # {}
    <3>1. /\ sent'[s] = sent[s] /\ Forgotten(s)' = Forgotten(s)
          /\ saved'[s] = saved[s] + 1 /\ rounds'[s] = saved[s] + 1
      BY <1>4, <2>2 DEF Save, Counts, NextRounds, Spent, CounterInHand, Forgotten
    <3>2. saved[s] <= MaxRounds /\ WithinBudget(s)
      BY <1>4 DEF Save, Counts, CounterInHand, Budget
    <3>3. WithinBudget(s)'
      BY <1>3, <3>1, <3>2 DEF WithinBudget, Blocks
    <3>4. QED
      BY <1>1, <1>4, <3>3 DEF Save, Counts, Budget
  <2>3. QED
    BY <2>1, <2>2
<1>5. ASSUME NEW s \in Sessions, SaveFails(s)
      PROVE  Budget'
  <2>1. /\ saved'[s] = saved[s] /\ saved[s] <= MaxRounds
        /\ Forgotten(s)' = Forgotten(s) + MaxRounds
    BY <1>3, <1>5 DEF SaveFails, Counts, CounterInHand
  <2>2. CASE verdict[s] = {}
    <3>1. sent'[s] = 0 /\ verdict'[s] = {}
      BY <1>5, <2>2 DEF SaveFails, Counts
    <3>2. WithinBudget(s)'
      BY <1>3, <2>1, <3>1 DEF WithinBudget, Blocks
    <3>3. QED
      BY <1>1, <1>5, <3>2 DEF SaveFails, Counts, Budget
  <2>3. CASE verdict[s] # {}
    <3>1. sent'[s] = sent[s] /\ rounds'[s] = saved[s] + 1
      BY <1>5, <2>3 DEF SaveFails, Counts, NextRounds, Spent, CounterInHand
    <3>2. WithinBudget(s)'
      BY <1>3, <2>1, <3>1 DEF WithinBudget, Blocks, Budget
    <3>3. QED
      BY <1>1, <1>5, <3>2 DEF SaveFails, Counts, Budget
  <2>4. QED
    BY <2>2, <2>3
<1>6. ASSUME NEW s \in Sessions, SendsBack(s)
      PROVE  Budget'
  <2>1. /\ hook'[s] = "idle" /\ saved'[s] = saved[s]
        /\ Forgotten(s)' = Forgotten(s)
        /\ sent'[s] \in {sent[s], sent[s] + 1}
    BY <1>6 DEF SendsBack, Exit, Forgotten
  <2>2. /\ sent[s] + 1 <= Forgotten(s) + saved[s]
        /\ sent[s] + 1 <= Forgotten(s) + MaxRounds
    BY <1>6 DEF SendsBack, Budget, WithinBudget
  <2>3. WithinBudget(s)'
    BY <1>3, <2>1, <2>2 DEF WithinBudget
  <2>4. QED
    BY <1>1, <1>6, <2>3 DEF SendsBack, Exit, Budget
<1>7. ASSUME NEW s \in Sessions, Kill(s)
      PROVE  Budget'
  <2>1. hook'[s] = "idle" /\ sent'[s] = sent[s]
    BY <1>7 DEF Kill, Exit
  <2>2. CASE UNCHANGED <<saved, lost>>
    BY <1>1, <1>2, <1>7, <2>1, <2>2 DEF Kill, Exit, Budget
  <2>3. CASE /\ saved' = [saved EXCEPT ![s] = 0]
             /\ lost' = [lost EXCEPT ![s] = @ + 1]
    <3>1. saved'[s] = 0 /\ Forgotten(s)' = Forgotten(s) + MaxRounds
      BY <1>3, <2>3
    <3>2. WithinBudget(s)'
      BY <1>3, <2>1, <3>1 DEF WithinBudget, Budget
    <3>3. QED
      BY <1>1, <1>7, <2>3, <3>2 DEF Kill, Exit, Budget
  <2>4. QED
    BY <1>7, <2>2, <2>3 DEF Kill
<1>8. ASSUME NEW s \in Sessions,
             \/ StopBegins(s) \/ TakeScope(s) \/ Check(s)
             \/ GivesUp(s) \/ LetsGo(s) \/ StandsDown(s)
      PROVE  Budget'
  BY <1>1, <1>2, <1>8
     DEF StopBegins, TakeScope, Check, GivesUp, LetsGo, StandsDown, Exit, repo, hist, Budget
<1>9. CASE UNCHANGED <<saved, sent, lost, hook, rounds, verdict>>
  BY <1>1, <1>9 DEF Budget
<1>10. QED
  BY <1>4, <1>5, <1>6, <1>7, <1>8, <1>9
     DEF Next, HookRuns, AgentStops, Edit, Stage, PostEdit, GitCommit, StopsSilently,
         Prompt, vars, repo, proc, hist

LEMMA InitInvariant == Init => IInv
<1> USE HooksAssumption DEF HooksAssumption
<1>1. ASSUME Init
      PROVE  TypeOK
  <2>1. 0 \in 0..SentCap
    BY Budgets DEF SentCap
  <2>2. QED
    BY <1>1, <2>1 DEF Init, TypeOK, Contents
<1>2. ASSUME Init
      PROVE  Budget
  BY <1>2, Budgets DEF Init, Budget, WithinBudget, Forgotten
<1>3. QED
  BY <1>1, <1>2 DEF Init, IInv, CounterInHand, LostCounted

-----------------------------------------------------------------------------
(* The inductive invariant: types, the counter in hand, and the budget. *)
THEOREM Invariance == Spec => []IInv
<1>1. Init => IInv
  BY InitInvariant
<1>2. IInv /\ [Next]_vars => IInv'
  BY TypeStep, CounterStep, LostStep, BudgetStep DEF IInv
<1>3. QED
  BY <1>1, <1>2, PTL DEF Spec

(* Every variable of the hooks keeps its type. *)
THEOREM TypeCorrect == Spec => []TypeOK
<1>1. IInv => TypeOK
  BY DEF IInv
<1>2. QED
  BY <1>1, Invariance, PTL

(* An agent is sent back at most MaxRounds times between clean verdicts, and *)
(* once more as often for each counter lost, whatever is killed and whenever *)
(* (stop and session.rs).                                                    *)
THEOREM RoundsBounded == Spec => []BlocksBounded
<1>1. IInv => BlocksBounded
  <2>1. ASSUME IInv, NEW s \in Sessions
        PROVE  sent[s] <= MaxRounds * (1 + lost[s])
    <3>1. lost[s] \in Nat
      BY <2>1 DEF IInv, TypeOK
    <3>2. MaxRounds * (1 + lost[s]) = MaxRounds * lost[s] + MaxRounds
      BY <3>1, Budgets
    <3>3. sent[s] <= MaxRounds * lost[s] + MaxRounds
      BY <2>1 DEF IInv, Budget, WithinBudget, Forgotten
    <3>4. QED
      BY <3>2, <3>3
  <2>2. QED
    BY <2>1 DEF BlocksBounded
<1>2. QED
  BY <1>1, Invariance, PTL

-----------------------------------------------------------------------------
(* Every step keeps the person as informed as the counter says. *)
LEMMA CapToldStep ==
  ASSUME TypeOK, CounterInHand, CapTold, [Next]_vars
  PROVE  CapTold'
<1> USE HooksAssumption DEF HooksAssumption, TypeOK
<1> SUFFICES ASSUME faults' = 0, NEW q \in Sessions
             PROVE  /\ hook'[q] = "counted" => rounds'[q] = saved'[q]
                    /\ saved'[q] > MaxRounds =>
                         q \in told' \/ (hook'[q] = "counted" /\ verdict'[q] # {})
  BY DEF CapTold
<1> DEFINE Told(p) ==
      /\ hook[p] = "counted" => rounds[p] = saved[p]
      /\ saved[p] > MaxRounds =>
           p \in told \/ (hook[p] = "counted" /\ verdict[p] # {})
<1>1. faults = 0 => Told(q)
  BY DEF CapTold
<1>2. CASE UNCHANGED <<saved, hook, rounds, verdict, told, faults>>
  BY <1>1, <1>2
<1>3. ASSUME NEW s \in Sessions, StopBegins(s) \/ TakeScope(s) \/ Check(s) \/ GivesUp(s)
      PROVE  Told(q)'
  BY <1>1, <1>3
     DEF StopBegins, TakeScope, Check, GivesUp, Exit, PastCap, CounterInHand, repo, hist
<1>4. ASSUME NEW s \in Sessions, Save(s)
      PROVE  Told(q)'
  BY <1>1, <1>4 DEF Save, Counts, NextRounds, Spent, CounterInHand
<1>5. ASSUME NEW s \in Sessions, SaveFails(s) \/ Kill(s)
      PROVE  FALSE
  BY <1>5 DEF SaveFails, Kill
<1>6. ASSUME NEW s \in Sessions, LetsGo(s)
      PROVE  Told(q)'
  BY <1>1, <1>6 DEF LetsGo, Exit, repo, hist
<1>7. ASSUME NEW s \in Sessions, SendsBack(s)
      PROVE  Told(q)'
  BY <1>1, <1>7 DEF SendsBack, Blocks, Exit, repo
<1>8. ASSUME NEW s \in Sessions, StandsDown(s)
      PROVE  Told(q)'
  BY <1>1, <1>8 DEF StandsDown, Hearing, Exit, repo
<1>9. QED
  BY <1>2, <1>3, <1>4, <1>5, <1>6, <1>7, <1>8
     DEF Next, HookRuns, AgentStops, Edit, Stage, PostEdit, GitCommit, StopsSilently,
         Prompt, vars, repo, proc, hist

(* While nothing has failed, nobody's findings go silent untold: the early *)
(* return of stop is reached only through the message at the cap.          *)
THEOREM NeverSilentUntold == Spec => []ToldBeforeSilence
<1>1. Init => CapTold
  BY HooksAssumption DEF HooksAssumption, Init, CapTold
<1>2. IInv /\ CapTold /\ [Next]_vars => CapTold'
  BY CapToldStep DEF IInv
<1>3. CapTold => ToldBeforeSilence
  BY DEF CapTold, ToldBeforeSilence
<1>4. QED
  BY <1>1, <1>2, <1>3, Invariance, PTL DEF Spec

-----------------------------------------------------------------------------
(* Every step keeps the files held in the scope that is being checked. *)
LEMMA HeldStep ==
  ASSUME TypeOK, HeldInScope, [Next]_vars
  PROVE  HeldInScope'
<1> USE HooksAssumption DEF HooksAssumption, TypeOK, HeldInScope
<1>1. ASSUME NEW f \in Files, NEW c \in Contents, Edit(f, c)
      PROVE  HeldInScope'
  BY <1>1 DEF Edit, proc
<1>2. ASSUME NEW f \in Files, Stage(f) \/ PostEdit(f)
      PROVE  HeldInScope'
  BY <1>2 DEF Stage, PostEdit, proc, hist
<1>3. CASE GitCommit
  <2>1. head' # NoHead
    BY <1>3 DEF GitCommit, Contents
  <2>2. QED
    BY <1>3, <2>1 DEF GitCommit, proc
<1>4. ASSUME NEW s \in Sessions, StopBegins(s)
      PROVE  HeldInScope'
  BY <1>4 DEF StopBegins, repo, hist
<1>5. ASSUME NEW s \in Sessions, TakeScope(s)
      PROVE  HeldInScope'
  BY <1>5 DEF TakeScope, DiffScope, repo, hist
<1>6. ASSUME NEW s \in Sessions, Check(s)
      PROVE  HeldInScope'
  BY <1>6 DEF Check, StopScope, BlockingIn, hist
<1>7. ASSUME NEW s \in Sessions, Save(s) \/ SaveFails(s)
      PROVE  HeldInScope'
  BY <1>7 DEF Save, SaveFails, Counts, repo
<1>8. ASSUME NEW s \in Sessions, GivesUp(s) \/ LetsGo(s) \/ StandsDown(s) \/ Kill(s)
      PROVE  HeldInScope'
  BY <1>8, SMTT(30) DEF GivesUp, LetsGo, StandsDown, Kill, Exit, repo, hist
<1>9. ASSUME NEW s \in Sessions, SendsBack(s)
      PROVE  HeldInScope'
  BY <1>9 DEF SendsBack, Exit, repo
<1>10. ASSUME NEW s \in Sessions, StopsSilently(s) \/ Prompt(s)
       PROVE  HeldInScope'
  BY <1>10 DEF StopsSilently, Prompt, repo, proc, hist
<1>11. CASE UNCHANGED vars
  BY <1>11 DEF vars, repo, proc, hist
<1>12. QED
  BY <1>1, <1>2, <1>3, <1>4, <1>5, <1>6, <1>7, <1>8, <1>9, <1>10, <1>11
     DEF Next, HookRuns, AgentStops

(* In a repository with a commit, no clean verdict lets an agent go while a *)
(* file it was sent back for is as it was: neither the agent's own edits of *)
(* other files nor anyone's checks, commits or hooks take it out of scope.  *)
THEOREM HeldWhenBorn == Spec /\ head # NoHead => HeldUntilFixed
<1>1. Init /\ head # NoHead => HeldInScope
  BY DEF Init, HeldInScope
<1>2. IInv /\ HeldInScope /\ [Next]_vars => HeldInScope'
  BY HeldStep DEF IInv
<1>3. HeldInScope => [\A s \in Sessions : LetsGo(s) => held[s] = {}]_vars
  BY DEF HeldInScope, LetsGo
<1>4. QED
  BY <1>1, <1>2, <1>3, Invariance, PTL DEF Spec, HeldUntilFixed

(* The gate commits no blocking text that the working tree still holds,     *)
(* whatever the checks before it have recorded (pre_commit).                *)
THEOREM GateHolds == Spec => CommitGated
<1> DEFINE Gated ==
      head' # head =>
        \A f \in Files : head'[f] \in Blocking /\ head'[f] = tree[f] =>
          head # NoHead /\ head'[f] = head[f]
<1>1. ASSUME TypeOK, [Next]_vars, head' # head
      PROVE  GitCommit
  BY <1>1
     DEF Next, HookRuns, AgentStops, Edit, Stage, PostEdit, StopsSilently, StopBegins,
         TakeScope, Check, GivesUp, Save, SaveFails, Counts, LetsGo, SendsBack,
         StandsDown, Kill, Prompt, vars, repo
<1>2. ASSUME TypeOK, GitCommit, head' # head
      PROVE  Gated
  <2>1. head' = staged /\ BlockingIn(PreCommitPaths) = {}
    BY <1>2 DEF GitCommit
  <2>2. ASSUME NEW f \in Files, staged[f] \in Blocking, staged[f] = tree[f],
               head = NoHead \/ staged[f] # head[f]
        PROVE  f \in BlockingIn(PreCommitPaths)
    BY <2>2, HooksAssumption
       DEF HooksAssumption, BlockingIn, PreCommitPaths, StagedFiles
  <2>3. QED
    BY <2>1, <2>2
<1>3. TypeOK /\ [Next]_vars => [Gated]_vars
  BY <1>1, <1>2
<1>4. QED
  BY <1>3, TypeCorrect, PTL DEF Spec, CommitGated
=============================================================================
