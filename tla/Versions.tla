------------------------------ MODULE Versions ------------------------------
(***************************************************************************)
(* The version an advisory tells a repository to move to (core/src/osv.rs, *)
(* fixed_for and what it calls): the three comparators, and the interval   *)
(* an installed version falls in.                                          *)
(*                                                                         *)
(* Abstractions.  A version is how it is written: an epoch (-1 for none),  *)
(* its numbers, its suffixes as separator, label and number (-1 for none), *)
(* a local label (numbers are positive, words are not), and its place in   *)
(* the order of strings.  A package name is its letters, their case and    *)
(* what stands between them.                                               *)
(***************************************************************************)
EXTENDS Integers, SequencesExt

VARIABLE match   \* an installed package and the advisory document matched to it

(* A fault: only the places both have are compared. *)
PrecedesZipped(s, t) ==
  \E i \in 1..Len(t) : /\ i <= Len(s)
                       /\ \A j \in 1..(i - 1) : s[j] = t[j]
                       /\ s[i] < t[i]

(* Sequences of numbers as Vec and derive(Ord) compare them, and a          *)
(* comparison of keys that are sequences of those.                          *)
Precedes(s, t) ==
  \E i \in 1..Len(t) : /\ i <= Len(s) + 1
                       /\ \A j \in 1..(i - 1) : s[j] = t[j]
                       /\ i <= Len(s) => s[i] < t[i]

KeyLess(k, l) ==
  \E i \in 1..Len(k) : Precedes(k[i], l[i]) /\ \A j \in 1..(i - 1) : k[j] = l[j]

Compared(k, l) == IF k = l THEN 0 ELSE IF KeyLess(k, l) THEN -1 ELSE 1

NoKey == <<>>   \* what a comparator does not read

-----------------------------------------------------------------------------
(* A fault: zeros at the end of a release count. *)
ReleaseWhole(nums) == nums

(* The readers.  Trailing zeros go: 1.0 and 1.0.0 are one version. *)

Release(nums) ==
  LET last == {i \in 1..Len(nums) : i = 1 \/ nums[i] # 0}
  IN SubSeq(nums, 1, CHOOSE i \in last : \A j \in last : j <= i)

Numbered(n) == IF n < 0 THEN 0 ELSE n

PreTag(label) ==
  CASE label \in {"alpha", "a"} -> 1
    [] label \in {"beta", "b"} -> 2
    [] label \in {"rc", "c", "pre", "preview"} -> 3
    [] OTHER -> 0

IsPost(x) == x.label \in {"post", "rev", "r"} \/ (x.label = "" /\ x.sep = "-" /\ x.n >= 0)

SuffixKind(x) ==
  CASE PreTag(x.label) > 0 -> 1
    [] IsPost(x) -> 2
    [] x.label = "dev" -> 3
    [] OTHER -> 0

(* A key is made of a version with at most one suffix of a kind. *)
Suffix(v, kind) == {x \in ToSet(v.tags) : SuffixKind(x) = kind}
Only(set) == CHOOSE x \in set : TRUE

Segment(n) == IF n < 0 THEN <<0, -n>> ELSE <<1, n>>

PreKey(pre, post, dev) ==
  IF pre # {} THEN <<1, PreTag(Only(pre).label), Numbered(Only(pre).n)>>
  ELSE IF post = {} /\ dev # {} THEN <<0>> ELSE <<2>>

PostKey(post) == IF post = {} THEN <<>> ELSE <<Numbered(Only(post).n)>>
DevKey(dev) == IF dev = {} THEN <<1>> ELSE <<0, Numbered(Only(dev).n)>>
LocalKey(label) == FlattenSeq([i \in 1..Len(label) |-> Segment(label[i])])

Pep440Of(v, pre, post, dev) ==
  << <<Numbered(v.epoch)>>, Release(v.nums), PreKey(pre, post, dev), PostKey(post),
     DevKey(dev), LocalKey(v.local) >>

(* One optional suffix of each kind, in this order, and nothing else. *)
Pep440Key(v) ==
  IF \/ v.nums = <<>>
     \/ \E i \in 1..Len(v.tags) :
          SuffixKind(v.tags[i]) <= (IF i = 1 THEN 0 ELSE SuffixKind(v.tags[i - 1]))
    THEN NoKey
  ELSE Pep440Of(v, Suffix(v, 1), Suffix(v, 2), Suffix(v, 3))

Stability(label) ==
  CASE label = "dev" -> 1
    [] label \in {"alpha", "a"} -> 2
    [] label \in {"beta", "b"} -> 3
    [] label = "rc" -> 4
    [] label = "stable" -> 5
    [] label \in {"patch", "pl", "p"} -> 6
    [] OTHER -> 0

(* At most one suffix, after a dash.  A branch name has no numbers. *)
ComposerKey(v) ==
  IF \/ v.nums = <<>> \/ v.epoch >= 0 \/ v.local # <<>> \/ Len(v.tags) > 1
     \/ v.tags # <<>> /\ (v.tags[1].sep # "-" \/ Stability(v.tags[1].label) = 0)
    THEN NoKey
  ELSE << Release(v.nums),
          IF v.tags = <<>> THEN <<Stability("stable"), 0>>
            ELSE <<Stability(v.tags[1].label), Numbered(v.tags[1].n)>> >>

(* A fault: a prerelease is the release. *)
SemverFlat(v) ==
  IF Len(v.nums) \notin 1..3 \/ v.epoch >= 0 THEN NoKey
  ELSE << [i \in 1..3 |-> IF i <= Len(v.nums) THEN v.nums[i] ELSE 0], <<0>> >>

(* Three numbers and whether a dash follows them; the local label is build  *)
(* metadata.                                                                *)
SemverKey(v) ==
  IF \/ Len(v.nums) \notin 1..3 \/ v.epoch >= 0
     \/ v.tags # <<>> /\ v.tags[1].sep # "-"
    THEN NoKey
  ELSE << [i \in 1..3 |-> IF i <= Len(v.nums) THEN v.nums[i] ELSE 0],
          <<IF v.tags # <<>> THEN 0 ELSE 1>> >>

-----------------------------------------------------------------------------
(* Comparators: -1, 0 and 1, and Unread. *)

Unread == 2

OfKeys(k, l, otherwise) == IF NoKey \in {k, l} THEN otherwise ELSE Compared(k, l)

Pep440Cmp(a, b) == OfKeys(Pep440Key(a), Pep440Key(b), Unread)

ComposerCmp(a, b) == OfKeys(ComposerKey(a), ComposerKey(b), Unread)

(* What semver does not read is compared as a string, and never Unread. *)
VersionCmp(a, b) ==
  OfKeys(SemverKey(a), SemverKey(b), Compared(<<<<a.place>>>>, <<<<b.place>>>>))

HasOrder(type, ecosystem) ==
  type = "SEMVER" \/ (type = "ECOSYSTEM" /\ ecosystem \in {"PyPI", "Packagist"})

RangeOrder(type, ecosystem, a, b) ==
  CASE type = "SEMVER" -> VersionCmp(a, b)
    [] type = "ECOSYSTEM" /\ ecosystem = "PyPI" -> Pep440Cmp(a, b)
    [] type = "ECOSYSTEM" /\ ecosystem = "Packagist" -> ComposerCmp(a, b)
    [] OTHER -> Unread

-----------------------------------------------------------------------------
(* One range. *)

Boundaries == <<"introduced", "fixed", "last_affected">>

(* An event may hold several boundaries; they are read in this order. *)
Events(range) ==
  FlattenSeq([i \in 1..Len(range.events) |->
    FlattenSeq([j \in 1..3 |->
      IF Boundaries[j] \in DOMAIN range.events[i]
        THEN <<[kind |-> Boundaries[j], at |-> range.events[i][Boundaries[j]]]>> ELSE <<>>])])

KindRank(kind) == CHOOSE i \in 1..3 : Boundaries[i] = kind

(* A fault: the document's order is taken. *)
AsWritten(range, ecosystem) == Events(range)

Earlier(o, kind, other) == o = -1 \/ (o # 1 /\ KindRank(kind) < KindRank(other))

Placed(acc, x, behind) ==
  IF behind = {} THEN <<x>> \o acc
  ELSE InsertAt(acc, 1 + (CHOOSE i \in behind : \A j \in behind : j <= i), x)

(* sort_by on a short list: each event goes behind the last one that it is  *)
(* not before.                                                              *)
Sorted(range, ecosystem) ==
  FoldLeft(LAMBDA acc, x :
             Placed(acc, x, {i \in 1..Len(acc) :
               ~Earlier(RangeOrder(range.type, ecosystem, x.at, acc[i].at), x.kind, acc[i].kind)}),
           <<>>, Events(range))

Holds(fix) == [says |-> "holds", fix |-> fix]
NoFix == <<>>
Outside == [says |-> "outside", fix |-> NoFix]
Unreadable == [says |-> "unreadable", fix |-> NoFix]

(* A fault: an interval holds its own fix. *)
EndsInclusive(kind, o) == o # 1

(* introduced <= v < fixed, and v <= last_affected. *)
Ends(kind, o) == IF kind = "fixed" THEN o = -1 ELSE o # 1

(* The walk: what opened the interval the walk is in, and the answer. *)
WalkStep(acc, e, o) ==
  IF acc.done THEN acc
  ELSE IF e.kind = "introduced" THEN [acc EXCEPT !.opened = o]
  ELSE IF acc.opened \in {0, 1} /\ Ends(e.kind, o)
    THEN [acc EXCEPT !.done = TRUE,
                     !.says = Holds(IF e.kind = "fixed" THEN <<e.at>> ELSE NoFix)]
  ELSE [acc EXCEPT !.opened = Unread]

WalkSays(walk) ==
  IF walk.done THEN walk.says
  ELSE IF walk.opened \in {0, 1} THEN Holds(NoFix) ELSE Outside

ContainingRange(range, version, ecosystem) ==
  IF \/ ~HasOrder(range.type, ecosystem)
     \/ \E e \in ToSet(Events(range)) : RangeOrder(range.type, ecosystem, version, e.at) = Unread
    THEN Unreadable
  ELSE WalkSays(FoldLeft(LAMBDA acc, e :
                           WalkStep(acc, e, RangeOrder(range.type, ecosystem, version, e.at)),
                         [done |-> FALSE, opened |-> Unread, says |-> Outside],
                         Sorted(range, ecosystem)))

-----------------------------------------------------------------------------
(* The document, and the finding. *)

Pep503(name) == [letters |-> name.letters, upper |-> FALSE,
                 sep |-> IF name.sep = "" THEN "" ELSE "-"]

(* A fault: names are folded in every registry. *)
SameFolded(ecosystem, installed, named) == Pep503(installed) = Pep503(named)

SamePackage(ecosystem, installed, named) ==
  IF ecosystem = "PyPI" THEN Pep503(installed) = Pep503(named) ELSE installed = named

(* A fault: the first fix in the document, whatever branch it is of. *)
FirstFix(m) ==
  LET fixes == SelectSeq(FlattenSeq([i \in 1..Len(m.affected) |->
                 FlattenSeq([j \in 1..Len(m.affected[i].ranges) |-> Events(m.affected[i].ranges[j])])]),
                         LAMBDA e : e.kind = "fixed")
  IN IF fixes = <<>> THEN [kind |-> "NonePublished", to |-> NoFix]
     ELSE [kind |-> "Named", to |-> <<fixes[1].at>>]

(* What each range of the package's own entries says, in document order. *)
AnswersOf(m, entries) ==
  FlattenSeq([i \in 1..Len(entries) |->
    [j \in 1..Len(entries[i].ranges) |->
       ContainingRange(entries[i].ranges[j], m.version, m.ecosystem)]])

Answers(m) ==
  AnswersOf(m, SelectSeq(m.affected, LAMBDA a : /\ a.ecosystem = m.ecosystem
                                                /\ SamePackage(m.ecosystem, m.name, a.name)))

FixOf(answers) ==
  LET holding == SelectSeq(answers, LAMBDA a : a.says = "holds")
  IN IF holding # <<>>
       THEN IF Head(holding).fix # NoFix THEN [kind |-> "Named", to |-> Head(holding).fix]
            ELSE [kind |-> "NonePublished", to |-> NoFix]
     ELSE IF Unreadable \in ToSet(answers) THEN [kind |-> "UnreadableRanges", to |-> NoFix]
     ELSE [kind |-> "OutsideAllSemver", to |-> NoFix]

FixedFor(m) == FixOf(Answers(m))

-----------------------------------------------------------------------------
Ranges == UNION {ToSet(a.ranges) : a \in ToSet(match.affected)}

(* The versions of the match that the comparator of range r reads. *)
Read(r) ==
  {v \in {e.at : e \in ToSet(Events(r))} \cup {match.version} :
     /\ RangeOrder(r.type, match.ecosystem, v, v) # Unread
     /\ r.type = "SEMVER" => SemverKey(v) # NoKey}

(* osv.rs: the sort "means every boundary parsed, so no pair of them can be *)
(* incomparable": what a comparator reads, it orders totally.               *)
OrdersVersions ==
  \A r \in Ranges :
    LET o == [v \in Read(r) |-> [w \in Read(r) |->
               RangeOrder(r.type, match.ecosystem, v, w)]]
    IN \A v, w \in Read(r) :
         /\ o[v][w] = -o[w][v]
         /\ o[v][w] # 1 => \A u \in Read(r) : o[w][u] # 1 => o[v][u] # 1
=============================================================================
