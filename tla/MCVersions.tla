----------------------------- MODULE MCVersions ------------------------------
(* Advisories for Versions: an installed version against every list of two *)
(* or three events, in each ecosystem, with an entry of another spelling   *)
(* of the package's name before it; and the order in which the registries  *)
(* publish those versions, written down as a list.  `place` is the order   *)
(* of the versions as strings.                                             *)
EXTENDS Versions

Version(nums, tags, place) ==
  [epoch |-> -1, nums |-> nums, tags |-> tags, local |-> <<>>, place |-> place]
Tag(sep, label, n) == [sep |-> sep, label |-> label, n |-> n]

Epoch == [Version(<<0, 9>>, <<>>, 1) EXCEPT !.epoch = 1]     \* 1!0.9
One == Version(<<1, 0>>, <<>>, 2)                            \* 1.0
Dashed == Version(<<1, 0>>, <<Tag("-", "", 1)>>, 3)          \* 1.0-1
Candidate == Version(<<1, 0>>, <<Tag("-", "rc", 1)>>, 4)     \* 1.0-rc1
Zeros == Version(<<1, 0, 0>>, <<>>, 5)                       \* 1.0.0
Dev == Version(<<1, 0>>, <<Tag(".", "dev", -1)>>, 6)         \* 1.0.dev
Four == Version(<<1, 10, 0, 1>>, <<>>, 7)                    \* 1.10.0.1
Nine == Version(<<1, 9, 0>>, <<>>, 8)                        \* 1.9.0
Ten == Version(<<10>>, <<>>, 9)                              \* 10
Two == Version(<<2>>, <<>>, 10)                              \* 2
Three == Version(<<3>>, <<>>, 11)                            \* 3
Main == Version(<<>>, <<Tag("-", "main", -1)>>, 12)          \* dev-main

Usual == {One, Dashed, Candidate, Zeros}
Pool == Usual \cup {Epoch, Dev, Four, Nine, Ten, Main}

(* The versions a registry orders, oldest first; those in one set are one   *)
(* version, and what is in none it does not order.  npm says more of two    *)
(* prereleases, and osv.rs says that it does not.                           *)
Published ==
  [SEMVER |-> <<{Dashed, Candidate}, {One, Zeros}, {Nine}, {Two}, {Three}, {Ten}>>,
   PyPI |-> <<{Dev}, {Candidate}, {One, Zeros}, {Dashed}, {Nine}, {Four}, {Two}, {Three},
              {Ten}, {Epoch}>>,
   Packagist |-> <<{Candidate}, {One, Zeros}, {Nine}, {Four}, {Two}, {Three}, {Ten}>>]

From(v) == [introduced |-> v]
Until(v) == [fixed |-> v]
EventLists ==
  {<<From(v), Until(w)>> : v \in Usual \cup {Epoch, Main}, w \in Pool}
  \cup {<<From(v), [last_affected |-> w]>> : v, w \in Usual}
  \cup {<<[introduced |-> v, fixed |-> w]>> : v, w \in Usual}
  \cup {<<From(u), Until(v), From(w)>> : u, v, w \in Usual}

Named(upper, sep) == [letters |-> "p", upper |-> upper, sep |-> sep]
RangeOf(type, events) == [type |-> type, events |-> events]
Kinds == {<<"SEMVER", "npm">>, <<"ECOSYSTEM", "PyPI">>, <<"ECOSYSTEM", "Packagist">>,
          <<"ECOSYSTEM", "npm">>}

MatchInit ==
  \E kind \in Kinds, v \in Pool, events \in EventLists :
    LET entry(name, ranges) == [name |-> name, ecosystem |-> kind[2], ranges |-> ranges]
    IN match = [name |-> Named(FALSE, "-"), ecosystem |-> kind[2], version |-> v,
                affected |-> <<
                  entry(Named(TRUE, "_"), <<RangeOf("SEMVER", <<From(One), Until(Two)>>)>>),
                  entry(Named(FALSE, "-"),
                        <<RangeOf(kind[1], events), RangeOf("SEMVER", <<From(Three)>>)>>) >>]

-----------------------------------------------------------------------------
(* The list a range is to be ordered by; none orders an ECOSYSTEM of npm. *)
Listed(r) ==
  IF r.type = "SEMVER" THEN Published["SEMVER"]
  ELSE IF match.ecosystem \in DOMAIN Published THEN Published[match.ecosystem] ELSE <<>>

Age(r, v) == CHOOSE i \in DOMAIN Listed(r) : v \in Listed(r)[i]

Said(r) == {e.at : e \in ToSet(Events(r))} \cup {match.version}

(* Every version a range is about is one its registry orders. *)
Legible(r) == Said(r) \subseteq UNION ToSet(Listed(r))

(* osv.rs: "a prerelease of a version sorted before that version so         *)
(* 3.1.6-rc.1 is inside a range fixed at 3.1.6", "1.0 and 1.0.0 are one     *)
(* version", a patch or post release comes after it, and numbers compare as *)
(* numbers: each comparator says of two versions what their registry does,  *)
(* and of a version the registry does not order an ECOSYSTEM range says     *)
(* that it is unread.                                                       *)
OrderAsPublished ==
  \A r \in Ranges : \A a, b \in Said(r) :
    LET o == RangeOrder(r.type, match.ecosystem, a, b)
    IN IF {a, b} \subseteq UNION ToSet(Listed(r))
         THEN o = IF Age(r, a) < Age(r, b) THEN -1 ELSE IF Age(r, a) = Age(r, b) THEN 0 ELSE 1
         ELSE r.type = "ECOSYSTEM" => o = Unread

(* Said of the events as a set: b closes the interval a opens, and the      *)
(* installed version is in it.                                              *)
Holding(r, a, b) ==
  LET age(e) == Age(r, e.at)
  IN /\ a.kind = "introduced"
     /\ age(a) <= Age(r, match.version) /\ Age(r, match.version) < age(b)
     /\ ~\E e \in ToSet(Events(r)) : age(a) < age(e) /\ age(e) < age(b)

(* osv.rs, fixed_for: "A security finding that names an older release is a  *)
(* wrong instruction".  A version is named only when it is the fix of a     *)
(* range with an order, of the package's own entry, and when its registry   *)
(* orders every version the range is about, it is newer than the installed  *)
(* one and closes the interval that one is in.  Of a SEMVER range with a    *)
(* version semver does not read it says no more: see README.                *)
NamesTheUpgrade ==
  LET fix == FixedFor(match)
      own == {a \in ToSet(match.affected) :
                /\ a.ecosystem = match.ecosystem
                /\ a.name.letters = match.name.letters
                /\ match.ecosystem # "PyPI" => a.name = match.name}
  IN fix.kind = "Named" =>
       \E a \in own : \E r \in ToSet(a.ranges) : \E b \in ToSet(Events(r)) :
         /\ Listed(r) # <<>> /\ b.kind = "fixed" /\ fix.to = <<b.at>>
         /\ Legible(r) => \E e \in ToSet(Events(r)) : Holding(r, e, b)

(* Where a registry orders every version that the ranges with an order are  *)
(* about, no version is named and no reason given because of the order the  *)
(* document holds its events in.                                            *)
OrderOfNoMatter ==
  LET turned == [match EXCEPT !.affected =
                   [i \in DOMAIN @ |-> [@[i] EXCEPT !.ranges =
                      [j \in DOMAIN @ |-> [@[j] EXCEPT !.events = Reverse(@)]]]]]
  IN (\A r \in {x \in Ranges : Listed(x) # <<>>} :
        /\ Legible(r)
        /\ \A x, y \in ToSet(Events(r)) : x # y => Age(r, x.at) # Age(r, y.at))
       => FixedFor(turned) = FixedFor(match)

UpgradeSafe == OrderAsPublished /\ NamesTheUpgrade /\ OrderOfNoMatter
==============================================================================
