---------------------------- MODULE OsvSnapshot ----------------------------
(***************************************************************************)
(* Asking osv.dev about a lockfile, and the snapshot that answers when it  *)
(* does not: check, fetch_batch, vuln_detail and one_per_family in         *)
(* crates/core/src/osv.rs, called by the vulnerable-dependency rule.       *)
(*                                                                         *)
(* Abstractions.  What the registry publishes is numbered: edition e lists *)
(* Listed[e][l][k] for package k of lockfile l and says Aliases[e][i] in   *)
(* the detail document of advisory i.  A stored document is the edition it *)
(* came from.  A lockfile stands for its hash.  Ages are whole days.  Of a *)
(* detail document only its aliases are modelled; reading a version range  *)
(* from it is a pure function.  The clock does not run backwards.          *)
(***************************************************************************)
EXTENDS Naturals, Sequences, FiniteSetsExt

CONSTANTS
  Locks,        \* lockfiles, by hash
  Ids,          \* advisory ids
  Ghsa,         \* the ids that start with GHSA-
  Rank,         \* Rank[i]: the place of i in sort order
  Safe,         \* the ids that may go into a URL
  MaxEdition,   \* bound on what the registry publishes, from edition 0
  Listed,       \* Listed[e][l]: the ids for each package, in order
  Aliases,      \* Aliases[e][i]: the ids the document of i names
  Chunk,        \* CHUNK: packages in one request
  MaxAge,       \* VULN_MAX_AGE_DAYS
  MaxDay,       \* bound on the days, from day 0
  Runs,         \* processes that may run the rule
  MaxRuns,      \* bound on the runs started
  MaxDamage,    \* bound on the rows damaged
  None,         \* no row, no document, no age
  Torn          \* a row, or the document of one, that does not parse

Editions == 0..MaxEdition
Days == 0..MaxDay

ASSUME OsvAssumption ==
  /\ Locks # {} /\ IsFiniteSet(Ids)
  /\ Ghsa \subseteq Ids /\ Safe \subseteq Ids
  /\ Rank \in [Ids -> Nat] /\ \A i, j \in Ids : Rank[i] = Rank[j] => i = j
  /\ MaxEdition \in Nat /\ MaxDay \in Nat /\ MaxAge \in Nat
  /\ MaxRuns \in Nat /\ MaxDamage \in Nat /\ Chunk \in Nat \ {0}
  /\ Listed \in [Editions -> [Locks -> Seq(SUBSET Ids)]]
  /\ \A e \in Editions, l \in Locks : Len(Listed[e][l]) = Len(Listed[0][l])
  /\ Aliases \in [Editions -> [Ids -> SUBSET Ids]]
  /\ None # Torn /\ None \notin Editions /\ Torn \notin Editions

VARIABLES
  today,     \* the clock, in days
  edition,   \* what the registry says now
  dawn,      \* history: dawn[d] is the edition day d began with
  batch,     \* osv_batch: the row of each lockfile
  vulns,     \* osv_vulns: the row of each advisory
  damage,    \* rows damaged so far
  pc, lock, offline, began, started,
  cached,    \* cached[r]: the batch row check read, if it parses
  asked,     \* the editions the chunks answered so far came from
  got,       \* the batch answer in use
  age,       \* snapshot_age_days
  down,      \* the runs that found the network down
  spent,     \* requests that ran into the timeout
  todo,      \* advisories whose detail is still to be had
  details,   \* details[r][i]: the document of i, or None
  warned,    \* the warnings so far
  hits,      \* hits[r][k]: the ids reported for package k
  alone,     \* history: the runs beside whose reads no one stored or damaged
  last       \* history: what the last complete run reported for each lockfile,
             \* if the tables still hold all it used

registry == <<today, edition, dawn>>
tables == <<batch, vulns, damage>>
asking == <<pc, lock, offline, began, started, cached, asked, got, age, down, spent>>
answer == <<todo, details, warned, hits>>
hist == <<alone, last>>
vars == <<registry, tables, asking, answer, hist>>

Warnings == {"unreadable", "failed", "old", "skipped", "details"}

Row == [of : Seq(Editions), lock : Locks, at : Days]
Detail == [of : Editions \cup {Torn}, at : Days]

ASSUME NoneAssumption == None \notin Row \cup Detail /\ Torn \notin Row

Packages(l) == DOMAIN Listed[0][l]

(* parse_batch: what a batch answer lists, package by package. *)
IdsOf(row, k) == Listed[row.of[k]][row.lock][k]

AllIds(row) == UNION {IdsOf(row, k) : k \in Packages(row.lock)}

-----------------------------------------------------------------------------
(* Faulty forms of definitions below, each a bug this code could have. *)

(* An off-by-one in the age at which a run says so. *)
OldAfterADay(days) == days > 1

(* The detail of an advisory is used and not stored. *)
DetailNotStored(r, i) == vulns

(* A stored document that does not parse counts as available. *)
NeverStored(r) == {i \in AllIds(got[r]) : vulns[i] = None}

(* Every chunk is taken for a whole one. *)
WholeChunk(r) == asked[r] \o [n \in 1..Chunk |-> edition]

(* A failed batch does not mark the network down. *)
StillUp(r) == down

(* Families are joined along the aliases of GHSA records only. *)
JoinFromGhsa(I, doc) ==
  {p \in I \X I : p[1] \in Ghsa /\ doc[p[1]] # None /\ p[2] \in Aliases[doc[p[1]]][p[1]]}

-----------------------------------------------------------------------------
(* age_in_days: a stamp from later than now has age zero. *)
AgeInDays(now, at) == IF now >= at THEN now - at ELSE 0

IsOld(days) == days >= 1

Fresh(r) == cached[r] # None /\ ~IsOld(AgeInDays(began[r], cached[r].at))

(* one_per_family: ids joined along the aliases of the documents at hand,  *)
(* each family under its first GHSA id, or its first id.                   *)
Joined(I, doc) ==
  {p \in I \X I : doc[p[1]] # None /\ p[2] \in Aliases[doc[p[1]]][p[1]]}

Union(p, parent) ==
  [i \in DOMAIN parent |-> IF parent[i] = parent[p[1]] THEN parent[p[2]] ELSE parent[i]]

Least(I) == CHOOSE i \in I : \A j \in I : Rank[i] <= Rank[j]

Named(family) == IF family \cap Ghsa # {} THEN Least(family \cap Ghsa) ELSE Least(family)

OnePerFamily(I, doc) ==
  LET parent == FoldSet(Union, [i \in I |-> i], Joined(I, doc))
  IN  {Named({j \in I : parent[j] = parent[i]}) : i \in I}

-----------------------------------------------------------------------------
(* The world: days pass, the registry publishes, a disk damages a row. *)

DayPasses ==
  /\ today < MaxDay
  /\ today' = today + 1
  /\ dawn' = [dawn EXCEPT ![today + 1] = edition]
  /\ UNCHANGED <<edition, tables, asking, answer, hist>>

Publish ==
  /\ edition < MaxEdition
  /\ edition' = edition + 1
  /\ UNCHANGED <<today, dawn, tables, asking, answer, hist>>

(* The stored document of i parses. *)
Parses(i) == IF vulns[i] = None THEN FALSE ELSE vulns[i].of # Torn

Damage ==
  /\ damage < MaxDamage
  /\ damage' = damage + 1
  /\ \/ \E l \in Locks : batch[l] \notin {None, Torn} /\ batch' = [batch EXCEPT ![l] = Torn]
        /\ UNCHANGED vulns
     \/ \E i \in Ids : Parses(i) /\ vulns' = [vulns EXCEPT ![i].of = Torn]
        /\ UNCHANGED batch
  /\ alone' = {}
  /\ last' = [l \in Locks |-> None]
  /\ UNCHANGED <<registry, asking, answer>>

-----------------------------------------------------------------------------
(* One run of check over one lockfile. *)

Running(r) == pc[r] \in {"loaded", "asking", "details"}

Forgets(r) ==
  /\ asked' = [asked EXCEPT ![r] = <<>>]
  /\ got' = [got EXCEPT ![r] = None]
  /\ age' = [age EXCEPT ![r] = None]
  /\ down' = down \ {r}
  /\ spent' = [spent EXCEPT ![r] = 0]
  /\ todo' = [todo EXCEPT ![r] = {}]
  /\ details' = [details EXCEPT ![r] = [i \in Ids |-> None]]
  /\ hits' = [hits EXCEPT ![r] = <<>>]

Begin(r, l, off) ==
  /\ ~Running(r)
  /\ started < MaxRuns
  /\ started' = started + 1
  /\ lock' = [lock EXCEPT ![r] = l]
  /\ offline' = [offline EXCEPT ![r] = off]
  /\ began' = [began EXCEPT ![r] = today]
  /\ pc' = [pc EXCEPT ![r] = IF Packages(l) = {} THEN "done" ELSE "loaded"]
  /\ cached' = [cached EXCEPT ![r] = IF batch[l] = Torn THEN None ELSE batch[l]]
  /\ warned' = [warned EXCEPT ![r] = IF batch[l] = Torn /\ Packages(l) # {}
                                     THEN {"unreadable"} ELSE {}]
  /\ Forgets(r)
  /\ alone' = alone \cup {r}
  /\ UNCHANGED <<registry, tables, last>>

(* The batch answer is in hand: its advisories are next. *)
Uses(r, row, days) ==
  /\ got' = [got EXCEPT ![r] = row]
  /\ age' = [age EXCEPT ![r] = days]
  /\ todo' = [todo EXCEPT ![r] = AllIds(row)]
  /\ pc' = [pc EXCEPT ![r] = "details"]

(* The snapshot, with a warning when it is a day old; or none, and the *)
(* rule is skipped.                                                    *)
FromSnapshot(r, warnings) ==
  IF cached[r] # None
  THEN LET days == AgeInDays(began[r], cached[r].at)
       IN  /\ Uses(r, cached[r], days)
           /\ warned' = [warned EXCEPT ![r] =
                           @ \cup warnings \cup (IF IsOld(days) THEN {"old"} ELSE {})]
  ELSE /\ warned' = [warned EXCEPT ![r] = @ \cup warnings \cup {"skipped"}]
       /\ pc' = [pc EXCEPT ![r] = "done"]
       /\ UNCHANGED <<got, age, todo>>

UseSnapshot(r) ==
  /\ pc[r] = "loaded"
  /\ offline[r] \/ Fresh(r)
  /\ FromSnapshot(r, {})
  /\ UNCHANGED <<registry, tables, lock, offline, began, started, cached, asked,
                 down, spent, details, hits, hist>>

Asks(r) ==
  \/ pc[r] = "loaded" /\ ~offline[r] /\ ~Fresh(r)
  \/ pc[r] = "asking"

(* Someone else's store may be what this run is about to read, and makes *)
(* what earlier runs reported another run's answer.                      *)
Stores(r) ==
  /\ alone' = alone \cap {r}
  /\ last' = [l \in Locks |-> None]

(* One request answered; the last one stores the answers as one document. *)
Answered(r) ==
  LET left == Len(Listed[0][lock[r]]) - Len(asked[r])
  IN  asked[r] \o [n \in 1..(IF left < Chunk THEN left ELSE Chunk) |-> edition]

ChunkAnswers(r) ==
  /\ Asks(r)
  /\ IF Len(Answered(r)) < Len(Listed[0][lock[r]])
     THEN /\ asked' = [asked EXCEPT ![r] = Answered(r)]
          /\ pc' = [pc EXCEPT ![r] = "asking"]
          /\ UNCHANGED <<batch, got, age, todo, hist>>
     ELSE LET row == [of |-> Answered(r), lock |-> lock[r], at |-> began[r]]
          IN  /\ asked' = [asked EXCEPT ![r] = <<>>]
              /\ batch' = [batch EXCEPT ![lock[r]] = row]
              /\ Uses(r, row, 0)
              /\ Stores(r)
  /\ UNCHANGED <<registry, vulns, damage, lock, offline, began, started, cached,
                 down, spent, details, warned, hits>>

NetworkDown(r) == down \cup {r}

(* No answer, one that does not parse, or one of another length. *)
ChunkFails(r) ==
  /\ Asks(r)
  /\ down' = NetworkDown(r)
  /\ spent' = [spent EXCEPT ![r] = @ + 1]
  /\ asked' = [asked EXCEPT ![r] = <<>>]
  /\ FromSnapshot(r, {"failed"})
  /\ UNCHANGED <<registry, tables, lock, offline, began, started, cached,
                 details, hits, hist>>

(* vuln_detail. *)
StaleDetail(r, i) ==
  IF vulns[i] = None THEN TRUE ELSE AgeInDays(began[r], vulns[i].at) >= MaxAge

MayFetch(r, i) ==
  ~offline[r] /\ r \notin down /\ StaleDetail(r, i) /\ i \in Safe

(* The advisories are taken in sort order. *)
WantsDetail(r, i) == pc[r] = "details" /\ todo[r] # {} /\ i = Least(todo[r])

StoredDetail(r, i) == [vulns EXCEPT ![i] = [of |-> edition, at |-> began[r]]]

DetailAnswers(r, i) ==
  /\ WantsDetail(r, i)
  /\ MayFetch(r, i)
  /\ vulns' = StoredDetail(r, i)
  /\ details' = [details EXCEPT ![r][i] = edition]
  /\ todo' = [todo EXCEPT ![r] = @ \ {i}]
  /\ Stores(r)
  /\ UNCHANGED <<registry, batch, damage, asking, warned, hits>>

(* Served from the snapshot: not asked for, or asked for in vain. *)
ServesDetail(r, i) ==
  /\ WantsDetail(r, i)
  /\ spent' = [spent EXCEPT ![r] = IF MayFetch(r, i) THEN @ + 1 ELSE @]
  /\ details' = [details EXCEPT ![r][i] =
                   IF Parses(i) THEN vulns[i].of ELSE None]
  /\ todo' = [todo EXCEPT ![r] = @ \ {i}]
  /\ UNCHANGED <<registry, tables, pc, lock, offline, began, started, cached, asked,
                 got, age, down, warned, hits, hist>>

(* One hit per package and family. *)
Reported(r) == [k \in Packages(lock[r]) |-> OnePerFamily(IdsOf(got[r], k), details[r])]

Unavailable(r) == {i \in AllIds(got[r]) : details[r][i] = None}

Finish(r) ==
  /\ pc[r] = "details" /\ todo[r] = {}
  /\ pc' = [pc EXCEPT ![r] = "done"]
  /\ hits' = [hits EXCEPT ![r] = Reported(r)]
  /\ warned' = [warned EXCEPT ![r] =
       IF Unavailable(r) # {} THEN @ \cup {"details"} ELSE @]
  /\ last' = IF r \in alone THEN [last EXCEPT ![lock[r]] = Reported(r)] ELSE last
  /\ UNCHANGED <<registry, tables, lock, offline, began, started, cached, asked,
                 got, age, down, spent, todo, details, alone>>

(* The process dies, or the index does not answer: what it held is gone. *)
Kill(r) ==
  /\ Running(r)
  /\ pc' = [pc EXCEPT ![r] = "idle"]
  /\ warned' = [warned EXCEPT ![r] = {}]
  /\ Forgets(r)
  /\ UNCHANGED <<registry, tables, lock, offline, began, started, cached, hist>>

-----------------------------------------------------------------------------
Init ==
  /\ today = 0 /\ edition = 0
  /\ dawn = [d \in Days |-> 0]
  /\ batch = [l \in Locks |-> None]
  /\ vulns = [i \in Ids |-> None]
  /\ damage = 0 /\ started = 0
  /\ pc = [r \in Runs |-> "idle"]
  /\ lock = [r \in Runs |-> CHOOSE l \in Locks : TRUE]
  /\ offline = [r \in Runs |-> TRUE]
  /\ began = [r \in Runs |-> 0]
  /\ cached = [r \in Runs |-> None]
  /\ asked = [r \in Runs |-> <<>>]
  /\ got = [r \in Runs |-> None]
  /\ age = [r \in Runs |-> None]
  /\ down = {}
  /\ spent = [r \in Runs |-> 0]
  /\ todo = [r \in Runs |-> {}]
  /\ details = [r \in Runs |-> [i \in Ids |-> None]]
  /\ warned = [r \in Runs |-> {}]
  /\ hits = [r \in Runs |-> <<>>]
  /\ alone = {}
  /\ last = [l \in Locks |-> None]

Step(r) ==
  \/ UseSnapshot(r) \/ ChunkAnswers(r) \/ ChunkFails(r) \/ Finish(r) \/ Kill(r)
  \/ \E i \in Ids : DetailAnswers(r, i) \/ ServesDetail(r, i)

Next ==
  \/ DayPasses \/ Publish \/ Damage
  \/ \E r \in Runs : Step(r) \/ \E l \in Locks, off \in BOOLEAN : Begin(r, l, off)

Spec == Init /\ [][Next]_vars

-----------------------------------------------------------------------------
TypeOK ==
  /\ today \in Days /\ edition \in Editions /\ dawn \in [Days -> Editions]
  /\ batch \in [Locks -> Row \cup {None, Torn}]
  /\ vulns \in [Ids -> Detail \cup {None}]
  /\ pc \in [Runs -> {"idle", "loaded", "asking", "details", "done"}]
  /\ lock \in [Runs -> Locks] /\ offline \in [Runs -> BOOLEAN] /\ began \in [Runs -> Days]
  /\ cached \in [Runs -> Row \cup {None}] /\ got \in [Runs -> Row \cup {None}]
  /\ asked \in [Runs -> Seq(Editions)] /\ age \in [Runs -> Days \cup {None}]
  /\ down \subseteq Runs /\ spent \in [Runs -> Nat]
  /\ todo \in [Runs -> SUBSET Ids] /\ details \in [Runs -> [Ids -> Editions \cup {None}]]
  /\ warned \in [Runs -> SUBSET Warnings] /\ hits \in [Runs -> Seq(SUBSET Ids)]
  /\ alone \subseteq Runs /\ last \in [Locks -> Seq(SUBSET Ids) \cup {None}]
  /\ \A l \in Locks : batch[l] \notin {None, Torn} => Len(batch[l].of) = Len(Listed[0][l])

(* The reference for one_per_family: a set of ids no alias leads out of, or  *)
(* into, is one flaw or several.                                             *)
Closed(I, doc) ==
  LET Names(i, j) == IF doc[i] = None THEN FALSE ELSE j \in Aliases[doc[i]][i]
  IN  {F \in SUBSET I : \A i \in F, j \in I \ F : ~Names(i, j) /\ ~Names(j, i)}

(* H names every flaw among I once, under a GHSA id where it has one. *)
NamesEachOnce(H, I, doc) ==
  LET closed == Closed(I, doc)
  IN  /\ H \subseteq I
      /\ \A F \in closed : F # {} => F \cap H # {}
      /\ \A F \in closed : F \cap Ghsa # {} => F \cap Ghsa \cap H # {}
      /\ \A g, h \in H : g # h => \E F \in closed : g \in F /\ h \notin F

Done(r) == pc[r] = "done" /\ got[r] # None

(* Whatever a run reports is, package by package, what the registry said of *)
(* that package no longer ago than the run says: within the day when it has *)
(* no warning, and otherwise since the day the warning counts back to.      *)
ReportHonest ==
  \A r \in Runs : Done(r) =>
    LET since == IF "old" \in warned[r] THEN began[r] - age[r] ELSE began[r]
    IN  \A k \in Packages(lock[r]) : \E e \in dawn[since]..edition :
          NamesEachOnce(hits[r][k], Listed[e][lock[r]][k], details[r])

(* An empty answer is never silence: no report at all comes with a warning, *)
(* and so does one whose details could not be had.                          *)
SkipTold ==
  \A r \in Runs : pc[r] = "done" /\ Packages(lock[r]) # {} =>
    /\ got[r] = None => "skipped" \in warned[r]
    /\ (\E k \in DOMAIN hits[r] : \E i \in hits[r][k] : details[r][i] = None) =>
         "details" \in warned[r]

(* "An unreachable registry costs one timeout" where the batch request is   *)
(* the one that finds out: nothing is asked after it.                       *)
DownCostsOne == \A r \in Runs : r \in down \/ "failed" \in warned[r] => spent[r] = 1

(* The module's promise: an answer is written to the index first, so that   *)
(* the next run can produce the same findings with the network unplugged,   *)
(* however many days later, while nothing else is stored.                   *)
Reproducible ==
  [][\A r \in Runs : Finish(r) /\ offline[r] /\ r \in alone /\ last[lock[r]] # None =>
       hits'[r] = last[lock[r]]]_vars
=============================================================================
