----------------------------- MODULE OsvProofs -----------------------------
(* What holds of OsvSnapshot for every registry, lockfile, clock and run.  *)
(* Rows say what the registry said on or after the day they are stamped    *)
(* with (TablesTrue, RunsTrue), a run's state is what its phase allows     *)
(* (PhasesTrue), the tables answer a run beside whose reads nobody stored  *)
(* with exactly what it used (AloneTrue), and so does the report kept of   *)
(* the last such run (LastTrue).  one_per_family is a union-find: its fold *)
(* is unfolded by induction on the pairs joined (FoldUnfolds), and names   *)
(* every flaw once (FamiliesNamed).                                        *)
EXTENDS OsvSnapshot, FiniteSetTheorems, SequenceTheorems, WellFoundedInduction, TLAPS

-----------------------------------------------------------------------------
(* A row of lockfile l that says what was published from the day of its    *)
(* stamp on, seen from day `now` with edition `latest`.                    *)
Dated(row, l, now, begun, latest) ==
  /\ row.lock = l /\ Len(row.of) = Len(Listed[0][l])
  /\ row.at <= now
  /\ \A k \in DOMAIN row.of : row.of[k] \in begun[row.at]..latest

RowTrue(row, l) == Dated(row, l, today, dawn, edition)

DawnTrue == \A d \in Days : d <= today => dawn[d] <= edition

TablesTrue == \A l \in Locks : batch[l] \notin {None, Torn} => RowTrue(batch[l], l)

AskedTrue ==
  \A r \in Runs :
    /\ began[r] <= today
    /\ Len(asked[r]) <= Len(Listed[0][lock[r]])
    /\ \A k \in DOMAIN asked[r] : asked[r][k] \in dawn[began[r]]..edition

CachedTrue ==
  \A r \in Runs : cached[r] # None =>
    RowTrue(cached[r], lock[r]) /\ cached[r].at <= began[r]

GotTrue ==
  \A r \in Runs : got[r] # None =>
    /\ RowTrue(got[r], lock[r]) /\ got[r].at <= began[r]
    /\ age[r] = began[r] - got[r].at
    /\ "old" \in warned[r] <=> age[r] >= 1

RunsTrue == AskedTrue /\ CachedTrue /\ GotTrue

(* What has been found out and told, phase by phase. *)
NothingYet(r) ==
  /\ got[r] = None /\ hits[r] = <<>> /\ todo[r] = {}
  /\ r \notin down /\ spent[r] = 0 /\ warned[r] \subseteq {"unreadable"}

Detailing(r) == got[r] # None /\ hits[r] = <<>> /\ todo[r] \subseteq AllIds(got[r])

Told(r) ==
  IF got[r] = None
  THEN hits[r] = <<>> /\ (Packages(lock[r]) # {} => "skipped" \in warned[r])
  ELSE hits[r] = Reported(r) /\ (Unavailable(r) # {} => "details" \in warned[r])

PhasesTrue ==
  \A r \in Runs :
    /\ pc[r] \in {"idle", "loaded", "asking"} => NothingYet(r)
    /\ pc[r] = "details" => Detailing(r)
    /\ pc[r] = "done" => Told(r)
    /\ "failed" \in warned[r] => r \in down
    /\ r \in down => spent[r] = 1

(* The document of i the tables would serve. *)
Held(i) == IF Parses(i) THEN vulns[i].of ELSE None

(* What a run over l would report from the tables alone. *)
FromTables(l) ==
  [k \in Packages(l) |-> OnePerFamily(IdsOf(batch[l], k), [i \in Ids |-> Held(i)])]

AloneTrue ==
  \A r \in alone :
    /\ pc[r] \in {"loaded", "asking"} /\ cached[r] # None => cached[r] = batch[lock[r]]
    /\ pc[r] = "details" =>
         /\ got[r] = batch[lock[r]]
         /\ \A i \in AllIds(got[r]) \ todo[r] : details[r][i] = Held(i)

LastTrue ==
  \A l \in Locks : last[l] # None => batch[l] \notin {None, Torn} /\ last[l] = FromTables(l)

IInv ==
  /\ TypeOK
  /\ DawnTrue /\ TablesTrue /\ RunsTrue
  /\ PhasesTrue
  /\ AloneTrue /\ LastTrue

-----------------------------------------------------------------------------
(* one_per_family, what its callers need of it. *)

(* A set of numbers has a least one: how an induction is put below. *)
LEMMA LeastNumber ==
  ASSUME NEW S \in SUBSET Nat, S # {}
  PROVE  \E n \in S : \A m \in S : n <= m
<1>1. PICK n \in S : \A m \in S : ~ (<<m, n>> \in OpToRel(<, Nat))
  BY NatLessThanWellFounded, WFMin
<1>2. ASSUME NEW m \in S  PROVE n <= m
  <2>1. ~ (<<m, n>> \in {ss \in Nat \X Nat : ss[1] < ss[2]})
    BY <1>1 DEF OpToRel
  <2> QED  BY <2>1
<1> QED  BY <1>2

(* Least is a choice that can be made. *)
LEMMA LeastIn ==
  ASSUME NEW I \in SUBSET Ids, I # {}
  PROVE  Least(I) \in I
<1> DEFINE ranks == {Rank[i] : i \in I}
<1>1. ranks \subseteq Nat /\ ranks # {}  BY OsvAssumption
<1>2. PICK n \in ranks : \A m \in ranks : n <= m  BY <1>1, LeastNumber
<1>3. PICK i \in I : n = Rank[i]  OBVIOUS
<1>4. \A j \in I : Rank[i] <= Rank[j]  BY <1>2, <1>3
<1> QED  BY <1>4 DEF Least

(* A family is named by one of its own, by a GHSA id where it has one. *)
LEMMA NamedIn ==
  ASSUME NEW family \in SUBSET Ids, family # {}
  PROVE  /\ Named(family) \in family
         /\ family \cap Ghsa # {} => Named(family) \in Ghsa
<1>1. Least(family) \in family  BY LeastIn
<1>2. family \cap Ghsa # {} => Least(family \cap Ghsa) \in family \cap Ghsa
  BY LeastIn
<1> QED  BY <1>1, <1>2 DEF Named

(* Nothing is reported that was not listed. *)
LEMMA AmongThem ==
  ASSUME NEW I \in SUBSET Ids, NEW doc
  PROVE  OnePerFamily(I, doc) \subseteq I
<1> DEFINE parent == FoldSet(Union, [i \in I |-> i], Joined(I, doc))
           Family(i) == {j \in I : parent[j] = parent[i]}
<1> HIDE DEF parent
<1>1. \A i \in I : Named(Family(i)) \in I
  <2> SUFFICES ASSUME NEW i \in I  PROVE Named(Family(i)) \in I
    OBVIOUS
  <2>1. Family(i) # {} /\ Family(i) \in SUBSET Ids /\ Family(i) \subseteq I
    OBVIOUS
  <2> QED  BY <2>1, NamedIn
<1>2. OnePerFamily(I, doc) = {Named(Family(i)) : i \in I}
  BY DEF OnePerFamily, parent
<1> QED  BY <1>1, <1>2

(* Only the documents of the ids at hand matter. *)
LEMMA OnlyTheirs ==
  ASSUME NEW I, NEW doc, NEW other, \A i \in I : doc[i] = other[i]
  PROVE  OnePerFamily(I, doc) = OnePerFamily(I, other)
<1>1. Joined(I, doc) = Joined(I, other)  BY DEF Joined
<1> QED  BY <1>1 DEF OnePerFamily

-----------------------------------------------------------------------------
(* The union-find of one_per_family.  Its fold takes one pair at a time out *)
(* of the set of pairs that is left: a member of it.                        *)
Some(s) == CHOOSE x \in s : TRUE

(* The sets of at most n pairs, and a fold of Union over the sets in D. *)
UpTo(J, n) == {s \in SUBSET J : Cardinality(s) <= n}

Unfolds(g, D, base) ==
  g = [s \in D |-> IF s = {} THEN base ELSE Union(Some(s), g[s \ {Some(s)}])]

(* Taking one pair out leaves one less to fold. *)
LEMMA OneLess ==
  ASSUME NEW J, IsFiniteSet(J), NEW s \in SUBSET J, s # {}
  PROVE  /\ Some(s) \in s /\ s \ {Some(s)} \in SUBSET J
         /\ Cardinality(s) \in Nat \ {0}
         /\ Cardinality(s \ {Some(s)}) = Cardinality(s) - 1
         /\ s = (s \ {Some(s)}) \cup {Some(s)}
<1>1. Some(s) \in s  BY DEF Some
<1>2. IsFiniteSet(s)  BY FS_Subset
<1>3. Cardinality(s) \in Nat /\ Cardinality(s) # 0
  BY <1>2, FS_CardinalityType, FS_EmptySet
<1>4. Cardinality(s \ {Some(s)}) = Cardinality(s) - 1
  BY <1>1, <1>2, FS_RemoveElement
<1> QED  BY <1>1, <1>3, <1>4

(* The definition of the fold has a solution on every finite set. *)
LEMMA FoldExists ==
  ASSUME NEW J, IsFiniteSet(J), NEW base
  PROVE  \E g : Unfolds(g, SUBSET J, base)
<1> DEFINE bad == {n \in Nat : ~ \E g : Unfolds(g, UpTo(J, n), base)}
<1>1. bad = {}
  <2> SUFFICES ASSUME bad # {}  PROVE FALSE
    OBVIOUS
  <2>1. PICK n \in bad : \A m \in bad : n <= m  BY LeastNumber
  <2>2. CASE n = 0
    <3> DEFINE g == [s \in UpTo(J, 0) |-> base]
    <3>1. \A s \in UpTo(J, 0) : s = {}
      <4> SUFFICES ASSUME NEW s \in UpTo(J, 0), s # {}  PROVE FALSE
        OBVIOUS
      <4>1. s \in SUBSET J /\ Cardinality(s) <= 0  BY DEF UpTo
      <4>2. Cardinality(s) \in Nat \ {0}  BY <4>1, OneLess
      <4> QED  BY <4>1, <4>2
    <3>2. Unfolds(g, UpTo(J, 0), base)  BY <3>1 DEF Unfolds
    <3> QED  BY <2>1, <2>2, <3>2
  <2>3. CASE n # 0
    <3>1. n - 1 \in Nat /\ n - 1 \notin bad  BY <2>1, <2>3
    <3>2. PICK f : Unfolds(f, UpTo(J, n - 1), base)  BY <3>1
    <3> DEFINE g == [s \in UpTo(J, n) |-> IF s = {} THEN base ELSE Union(Some(s), f[s \ {Some(s)}])]
    <3>3. ASSUME NEW t \in UpTo(J, n - 1)  PROVE g[t] = f[t]
      <4>1. t \in UpTo(J, n)
        <5>1. t \in SUBSET J /\ IsFiniteSet(t)  BY FS_Subset DEF UpTo
        <5>2. Cardinality(t) \in Nat /\ Cardinality(t) <= n - 1
          BY <5>1, FS_CardinalityType DEF UpTo
        <5> QED  BY <3>1, <5>1, <5>2 DEF UpTo
      <4>2. f[t] = IF t = {} THEN base ELSE Union(Some(t), f[t \ {Some(t)}])
        BY <3>2 DEF Unfolds
      <4> QED  BY <4>1, <4>2
    <3>4. ASSUME NEW s \in UpTo(J, n), s # {}  PROVE s \ {Some(s)} \in UpTo(J, n - 1)
      <4>1. s \in SUBSET J /\ Cardinality(s) <= n  BY DEF UpTo
      <4>2. /\ s \ {Some(s)} \in SUBSET J /\ Cardinality(s) \in Nat
            /\ Cardinality(s \ {Some(s)}) = Cardinality(s) - 1
        BY <3>4, <4>1, OneLess
      <4> QED  BY <3>1, <4>1, <4>2 DEF UpTo
    <3> HIDE DEF g
    <3>5. g = [s \in UpTo(J, n) |-> IF s = {} THEN base ELSE Union(Some(s), g[s \ {Some(s)}])]
      <4>1. \A s \in UpTo(J, n) : s # {} => g[s \ {Some(s)}] = f[s \ {Some(s)}]
        BY <3>3, <3>4
      <4> QED  BY <4>1 DEF g
    <3>6. Unfolds(g, UpTo(J, n), base)  BY <3>5 DEF Unfolds
    <3> QED  BY <2>1, <3>6
  <2> QED  BY <2>2, <2>3
<1>2. Cardinality(J) \in Nat  BY FS_CardinalityType
<1>3. UpTo(J, Cardinality(J)) = SUBSET J  BY FS_Subset DEF UpTo
<1>4. \E g : Unfolds(g, UpTo(J, Cardinality(J)), base)
  <2> HIDE DEF bad
  <2>1. Cardinality(J) \notin bad  BY <1>1
  <2> QED  BY <1>2, <2>1 DEF bad
<1> QED  BY <1>3, <1>4

(* So FoldSet unfolds: it joins one pair after the others. *)
LEMMA FoldUnfolds ==
  ASSUME NEW J, IsFiniteSet(J), NEW base
  PROVE  \E g : Unfolds(g, SUBSET J, base) /\ FoldSet(Union, base, J) = g[J]
<1> DEFINE fold == CHOOSE g : g = [s \in SUBSET J |->
             IF s = {} THEN base
             ELSE Union(CHOOSE x \in s : TRUE, g[s \ {CHOOSE x \in s : TRUE}])]
<1>1. Unfolds(fold, SUBSET J, base)
  <2>1. PICK g : Unfolds(g, SUBSET J, base)  BY FoldExists
  <2>2. g = [s \in SUBSET J |->
               IF s = {} THEN base
               ELSE Union(CHOOSE x \in s : TRUE, g[s \ {CHOOSE x \in s : TRUE}])]
    BY <2>1 DEF Unfolds, Some
  <2>3. fold = [s \in SUBSET J |->
               IF s = {} THEN base
               ELSE Union(CHOOSE x \in s : TRUE, fold[s \ {CHOOSE x \in s : TRUE}])]
    BY <2>2
  <2> QED  BY <2>3 DEF Unfolds, Some
<1>2. FoldSet(Union, base, J) = fold[J]  BY DEF FoldSet, MapThenFoldSet
<1> QED  BY <1>1, <1>2

(* parent joins exactly the ids that the pairs in S connect. *)
Uncut(F, S) == \A p \in S : p[1] \in F <=> p[2] \in F

Connects(parent, I, S) ==
  /\ parent \in [I -> I]
  /\ \A p \in S : parent[p[1]] = parent[p[2]]
  /\ \A F \in SUBSET I : Uncut(F, S) =>
       \A i, j \in I : parent[i] = parent[j] => (i \in F <=> j \in F)

(* Joining one more pair. *)
LEMMA UnionConnects ==
  ASSUME NEW I, NEW T \in SUBSET (I \X I), NEW q, Connects(q, I, T), NEW p \in I \X I
  PROVE  Connects(Union(p, q), I, T \cup {p})
<1> DEFINE parent == [i \in I |-> IF q[i] = q[p[1]] THEN q[p[2]] ELSE q[i]]
<1>1. q \in [I -> I] /\ \A t \in T : q[t[1]] = q[t[2]]  BY DEF Connects
<1>2. Union(p, q) = parent  BY <1>1 DEF Union
<1>3. p[1] \in I /\ p[2] \in I  OBVIOUS
<1>4. parent \in [I -> I]  BY <1>1, <1>3
<1>5. \A t \in T \cup {p} : parent[t[1]] = parent[t[2]]
  <2>1. \A t \in T : t[1] \in I /\ t[2] \in I  OBVIOUS
  <2> QED  BY <1>1, <1>3, <2>1
<1>6. ASSUME NEW F \in SUBSET I, Uncut(F, T \cup {p}), NEW i \in I, NEW j \in I,
             parent[i] = parent[j]
      PROVE  i \in F <=> j \in F
  <2>1. \A a, b \in I : q[a] = q[b] => (a \in F <=> b \in F)
    BY <1>6 DEF Connects, Uncut
  <2>2. p[1] \in F <=> p[2] \in F  BY <1>6 DEF Uncut
  <2>3. \/ q[i] = q[j]
        \/ q[i] = q[p[1]] /\ q[j] = q[p[2]]
        \/ q[j] = q[p[1]] /\ q[i] = q[p[2]]
    BY <1>6
  <2> QED  BY <1>3, <2>1, <2>2, <2>3
<1> QED  BY <1>2, <1>4, <1>5, <1>6 DEF Connects

(* Joining them all. *)
LEMMA FoldConnects ==
  ASSUME NEW I, NEW J \in SUBSET (I \X I), IsFiniteSet(J)
  PROVE  Connects(FoldSet(Union, [i \in I |-> i], J), I, J)
<1> DEFINE base == [i \in I |-> i]
<1> HIDE DEF base
<1>1. PICK g : Unfolds(g, SUBSET J, base) /\ FoldSet(Union, base, J) = g[J]
  BY FoldUnfolds
<1>2. \A s \in SUBSET J : g[s] = IF s = {} THEN base ELSE Union(Some(s), g[s \ {Some(s)}])
  BY <1>1 DEF Unfolds
<1> DEFINE wrong == {s \in SUBSET J : ~Connects(g[s], I, s)}
           bad == {Cardinality(s) : s \in wrong}
<1>3. wrong = {}
  <2> SUFFICES ASSUME wrong # {}  PROVE FALSE
    OBVIOUS
  <2>1. bad \in SUBSET Nat /\ bad # {}  BY FS_Subset, FS_CardinalityType
  <2>2. PICK n \in bad : \A m \in bad : n <= m  BY <2>1, LeastNumber
  <2>3. PICK s \in wrong : n = Cardinality(s)  OBVIOUS
  <2>4. CASE s = {}
    <3>1. g[s] = base  BY <1>1, <2>4 DEF Unfolds
    <3>2. Connects(base, I, {})  BY DEF Connects, base
    <3> QED  BY <2>3, <2>4, <3>1, <3>2
  <2>5. CASE s # {}
    <3> DEFINE p == Some(s)
               t == s \ {p}
    <3>1. /\ p \in s /\ t \in SUBSET J /\ s = t \cup {p}
          /\ Cardinality(s) \in Nat /\ Cardinality(t) = Cardinality(s) - 1
      BY <2>5, OneLess
    <3>2. g[s] = Union(p, g[t])  BY <1>2, <2>5
    <3> HIDE DEF p, t
    <3>3. t \notin wrong
      <4> SUFFICES ASSUME t \in wrong  PROVE FALSE
        OBVIOUS
      <4>1. Cardinality(t) \in bad  OBVIOUS
      <4>2. n <= Cardinality(t)  BY <2>2, <4>1
      <4> QED  BY <2>3, <3>1, <4>2
    <3>4. Connects(g[t], I, t)  BY <3>1, <3>3
    <3>5. Connects(Union(p, g[t]), I, t \cup {p})
      BY <3>1, <3>4, UnionConnects
    <3> QED  BY <2>3, <3>1, <3>2, <3>5
  <2> QED  BY <2>4, <2>5
<1> HIDE DEF wrong
<1>4. J \notin wrong  BY <1>3
<1>5. Connects(g[J], I, J)  BY <1>4 DEF wrong
<1> QED  BY <1>1, <1>5 DEF base

(* one_per_family names every flaw among I once, whatever the documents at *)
(* hand say and in whichever order their aliases are joined.               *)
LEMMA FamiliesNamed ==
  ASSUME NEW I \in SUBSET Ids, NEW doc
  PROVE  NamesEachOnce(OnePerFamily(I, doc), I, doc)
<1> DEFINE parent == FoldSet(Union, [i \in I |-> i], Joined(I, doc))
           Family(i) == {j \in I : parent[j] = parent[i]}
           H == {Named(Family(i)) : i \in I}
<1>1. Connects(parent, I, Joined(I, doc))
  <2>1. IsFiniteSet(I)  BY OsvAssumption, FS_Subset
  <2>2. IsFiniteSet(I \X I)  BY <2>1, FS_Product
  <2>3. Joined(I, doc) \in SUBSET (I \X I)  BY DEF Joined
  <2>4. IsFiniteSet(Joined(I, doc))  BY <2>2, <2>3, FS_Subset
  <2> QED  BY <2>3, <2>4, FoldConnects
<1> HIDE DEF parent
<1>2. OnePerFamily(I, doc) = H  BY DEF OnePerFamily, parent
<1>3. ASSUME NEW i \in I
      PROVE  /\ Named(Family(i)) \in I
             /\ parent[Named(Family(i))] = parent[i]
             /\ i \in Ghsa => Named(Family(i)) \in Ghsa
  <2>1. Family(i) # {} /\ Family(i) \in SUBSET Ids /\ i \in Family(i)  OBVIOUS
  <2>2. /\ Named(Family(i)) \in Family(i)
        /\ Family(i) \cap Ghsa # {} => Named(Family(i)) \in Ghsa
    BY <2>1, NamedIn
  <2> QED  BY <2>1, <2>2
<1>4. ASSUME NEW F \in Closed(I, doc), NEW i \in F
      PROVE  i \in I /\ Named(Family(i)) \in F
  <2>1. F \in SUBSET I  BY DEF Closed
  <2>2. Uncut(F, Joined(I, doc))
    <3>1. ASSUME NEW p \in Joined(I, doc)  PROVE p[1] \in F <=> p[2] \in F
      <4>1. p[1] \in I /\ p[2] \in I /\ doc[p[1]] # None /\ p[2] \in Aliases[doc[p[1]]][p[1]]
        BY DEF Joined
      <4> QED  BY <4>1 DEF Closed
    <3> QED  BY <3>1 DEF Uncut
  <2>3. parent[Named(Family(i))] = parent[i] /\ Named(Family(i)) \in I
    BY <1>3, <2>1
  <2> QED  BY <1>1, <2>1, <2>2, <2>3 DEF Connects
<1>5. ASSUME NEW a \in I  PROVE Family(a) \in Closed(I, doc)
  <2> SUFFICES ASSUME NEW i \in Family(a), NEW j \in I \ Family(a)
               PROVE  /\ doc[i] # None => j \notin Aliases[doc[i]][i]
                      /\ doc[j] # None => i \notin Aliases[doc[j]][j]
    BY DEF Closed
  <2>1. \A p \in Joined(I, doc) : parent[p[1]] = parent[p[2]]  BY <1>1 DEF Connects
  <2>2. <<i, j>> \notin Joined(I, doc) /\ <<j, i>> \notin Joined(I, doc)  BY <2>1
  <2> QED  BY <2>2 DEF Joined
<1>6. H \subseteq I  BY <1>3
<1>7. \A F \in Closed(I, doc) : F # {} => F \cap H # {}
  <2> SUFFICES ASSUME NEW F \in Closed(I, doc), NEW i \in F  PROVE F \cap H # {}
    OBVIOUS
  <2>1. i \in I /\ Named(Family(i)) \in F  BY <1>4
  <2> QED  BY <2>1
<1>8. \A F \in Closed(I, doc) : F \cap Ghsa # {} => F \cap Ghsa \cap H # {}
  <2> SUFFICES ASSUME NEW F \in Closed(I, doc), NEW i \in F \cap Ghsa
               PROVE  F \cap Ghsa \cap H # {}
    OBVIOUS
  <2>1. i \in I /\ Named(Family(i)) \in F  BY <1>4
  <2>2. Named(Family(i)) \in Ghsa /\ Named(Family(i)) \in H  BY <1>3, <2>1
  <2> QED  BY <2>1, <2>2
<1>9. ASSUME NEW g \in H, NEW h \in H, g # h
      PROVE  \E F \in Closed(I, doc) : g \in F /\ h \notin F
  <2>1. PICK a \in I : g = Named(Family(a))  OBVIOUS
  <2>2. PICK b \in I : h = Named(Family(b))  OBVIOUS
  <2>3. g \in I /\ parent[g] = parent[a] /\ parent[h] = parent[b]  BY <1>3, <2>1, <2>2
  <2>4. parent[a] # parent[b]
    <3> SUFFICES ASSUME parent[a] = parent[b]  PROVE FALSE
      OBVIOUS
    <3>1. Family(a) = Family(b)  OBVIOUS
    <3> QED  BY <1>9, <2>1, <2>2, <3>1
  <2>5. g \in Family(a) /\ h \notin Family(a)  BY <2>3, <2>4
  <2> QED  BY <1>5, <2>5
<1>10. NamesEachOnce(H, I, doc)
  <2> HIDE DEF H
  <2> QED  BY <1>6, <1>7, <1>8, <1>9 DEF NamesEachOnce
<1> QED  BY <1>2, <1>10

-----------------------------------------------------------------------------
(* A batch answer lists ids for each package of its lockfile. *)
LEMMA RowIds ==
  ASSUME NEW l \in Locks, NEW row \in Row, row.lock = l,
         Len(row.of) = Len(Listed[0][l])
  PROVE  /\ Packages(l) = DOMAIN row.of
         /\ \A k \in Packages(l) : IdsOf(row, k) \in SUBSET Ids
         /\ AllIds(row) \in SUBSET Ids
         /\ \A k \in Packages(l) : IdsOf(row, k) \subseteq AllIds(row)
<1>1. row.of \in Seq(Editions)  BY DEF Row
<1>2. 0 \in Editions  BY OsvAssumption DEF Editions
<1>3. \A e \in Editions : Listed[e][l] \in Seq(SUBSET Ids)
  BY OsvAssumption
<1>4. Packages(l) = DOMAIN row.of  BY <1>1, <1>2, <1>3 DEF Packages
<1>5. ASSUME NEW k \in Packages(l)  PROVE IdsOf(row, k) \in SUBSET Ids
  <2>1. row.of[k] \in Editions  BY <1>1, <1>4
  <2>2. Len(Listed[row.of[k]][l]) = Len(Listed[0][l])  BY <2>1, OsvAssumption
  <2>3. k \in DOMAIN Listed[row.of[k]][l]
    BY <1>2, <1>3, <2>1, <2>2 DEF Packages
  <2> QED  BY <1>3, <2>1, <2>3 DEF IdsOf
<1> QED  BY <1>4, <1>5 DEF AllIds

(* The next answers are one edition's, and no more than there are packages. *)
LEMMA AnsweredType ==
  ASSUME TypeOK, RunsTrue, NEW r \in Runs
  PROVE  /\ Answered(r) \in Seq(Editions)
         /\ Len(Answered(r)) <= Len(Listed[0][lock[r]])
         /\ \A k \in DOMAIN Answered(r) :
              Answered(r)[k] \in {edition} \cup {asked[r][j] : j \in DOMAIN asked[r]}
<1> DEFINE left == Len(Listed[0][lock[r]]) - Len(asked[r])
           m == IF left < Chunk THEN left ELSE Chunk
           more == [n \in 1..m |-> edition]
<1>1. /\ asked[r] \in Seq(Editions) /\ edition \in Editions
      /\ Len(asked[r]) <= Len(Listed[0][lock[r]])
      /\ lock[r] \in Locks /\ 0 \in Editions
  BY OsvAssumption DEF TypeOK, RunsTrue, AskedTrue, Editions
<1>2. Listed[0][lock[r]] \in Seq(SUBSET Ids)  BY <1>1, OsvAssumption
<1>3. m \in Nat /\ m <= left
  <2>1. Len(asked[r]) \in Nat /\ Len(Listed[0][lock[r]]) \in Nat
    BY <1>1, <1>2, LenProperties
  <2>2. Chunk \in Nat  BY OsvAssumption
  <2>3. \A a, b, c \in Nat : a <= b =>
          /\ (IF b - a < c THEN b - a ELSE c) \in Nat
          /\ (IF b - a < c THEN b - a ELSE c) <= b - a
    OBVIOUS
  <2> QED  BY <1>1, <2>1, <2>2, <2>3
<1>4. more \in Seq(Editions) /\ Len(more) = m /\ \A n \in 1..m : more[n] = edition
  <2> HIDE DEF m
  <2>1. more \in [1..m -> Editions] /\ DOMAIN more = 1..m  BY <1>1
  <2> HIDE DEF more
  <2>2. more \in Seq(Editions)  BY <1>3, <2>1, IsASeq
  <2>3. Len(more) = m  BY <1>3, <2>1, <2>2, LenProperties
  <2> QED  BY <2>2, <2>3 DEF more
<1> HIDE DEF m, more
<1>5. Answered(r) = asked[r] \o more  BY DEF Answered, m, more
<1>6. /\ asked[r] \o more \in Seq(Editions)
      /\ Len(asked[r] \o more) = Len(asked[r]) + m
      /\ \A k \in 1..Len(asked[r]) + m : (asked[r] \o more)[k] =
            IF k <= Len(asked[r]) THEN asked[r][k] ELSE more[k - Len(asked[r])]
  <2>1. \A i \in 1..Len(asked[r]) + Len(more) : (asked[r] \o more)[i] =
          IF i <= Len(asked[r]) THEN asked[r][i] ELSE more[i - Len(asked[r])]
    BY <1>1, <1>4, ConcatProperties
  <2>2. asked[r] \o more \in Seq(Editions) /\ Len(asked[r] \o more) = Len(asked[r]) + Len(more)
    <3>1. asked[r] \in Seq(Editions) /\ more \in Seq(Editions)  BY <1>1, <1>4
    <3> QED  BY <3>1, ConcatProperties, Zenon
  <2> QED  BY <1>4, <2>1, <2>2
<1>7. \A k \in 1..Len(asked[r]) + m :
        (asked[r] \o more)[k] \in {edition} \cup {asked[r][j] : j \in DOMAIN asked[r]}
  BY <1>1, <1>3, <1>4, <1>6
<1> QED  BY <1>1, <1>2, <1>3, <1>5, <1>6, <1>7

(* A run's answer fits its lockfile, and so does what it reports. *)
LEMMA GotIds ==
  ASSUME TypeOK, RunsTrue, NEW r \in Runs, got[r] # None
  PROVE  /\ got[r] \in Row
         /\ AllIds(got[r]) \in SUBSET Ids
         /\ \A k \in Packages(lock[r]) :
              IdsOf(got[r], k) \in SUBSET Ids /\ IdsOf(got[r], k) \subseteq AllIds(got[r])
<1>1. /\ got[r] \in Row /\ lock[r] \in Locks
      /\ got[r].lock = lock[r] /\ Len(got[r].of) = Len(Listed[0][lock[r]])
  BY DEF TypeOK, RunsTrue, GotTrue, RowTrue, Dated
<1> QED  BY <1>1, RowIds

LEMMA ReportedType ==
  ASSUME TypeOK, RunsTrue, NEW r \in Runs, got[r] # None
  PROVE  Reported(r) \in Seq(SUBSET Ids)
<1> DEFINE n == Len(Listed[0][lock[r]])
<1>1. n \in Nat /\ Packages(lock[r]) = 1..n
  <2>1. lock[r] \in Locks /\ 0 \in Editions  BY OsvAssumption DEF TypeOK, Editions
  <2>2. Listed[0][lock[r]] \in Seq(SUBSET Ids)  BY <2>1, OsvAssumption
  <2> QED  BY <2>2, LenProperties DEF Packages
<1> HIDE DEF n
<1>2. \A k \in 1..n : OnePerFamily(IdsOf(got[r], k), details[r]) \in SUBSET Ids
  BY <1>1, GotIds, AmongThem
<1>3. Reported(r) \in [1..n -> SUBSET Ids]  BY <1>1, <1>2 DEF Reported
<1> QED  BY <1>1, <1>3

-----------------------------------------------------------------------------
(* The types. *)
LEMMA InitType ==
  ASSUME Init
  PROVE  TypeOK
<1>1. 0 \in Days /\ 0 \in Editions  BY OsvAssumption DEF Days, Editions
<1>2. (CHOOSE l \in Locks : TRUE) \in Locks  BY OsvAssumption
<1>3. <<>> \in Seq(Editions) /\ <<>> \in Seq(SUBSET Ids)  OBVIOUS
<1> QED  BY <1>1, <1>2, <1>3 DEF Init, TypeOK

LEMMA ForgetsType ==
  ASSUME TypeOK, NEW r \in Runs, Forgets(r)
  PROVE  /\ asked' \in [Runs -> Seq(Editions)]
         /\ got' \in [Runs -> Row \cup {None}] /\ age' \in [Runs -> Days \cup {None}]
         /\ down' \subseteq Runs /\ spent' \in [Runs -> Nat]
         /\ todo' \in [Runs -> SUBSET Ids]
         /\ details' \in [Runs -> [Ids -> Editions \cup {None}]]
         /\ hits' \in [Runs -> Seq(SUBSET Ids)]
<1>1. <<>> \in Seq(Editions) /\ <<>> \in Seq(SUBSET Ids)  OBVIOUS
<1> QED  BY <1>1 DEF TypeOK, Forgets

LEMMA SnapshotType ==
  ASSUME TypeOK, RunsTrue, NEW r \in Runs, NEW told \in SUBSET Warnings,
         FromSnapshot(r, told)
  PROVE  /\ got' \in [Runs -> Row \cup {None}] /\ age' \in [Runs -> Days \cup {None}]
         /\ todo' \in [Runs -> SUBSET Ids] /\ warned' \in [Runs -> SUBSET Warnings]
         /\ pc' \in [Runs -> {"idle", "loaded", "asking", "details", "done"}]
<1>1. "old" \in Warnings /\ "skipped" \in Warnings  BY DEF Warnings
<1>0. ASSUME NEW more \in SUBSET Warnings, warned' = [warned EXCEPT ![r] = @ \cup told \cup more]
      PROVE  warned' \in [Runs -> SUBSET Warnings]
  <2>1. warned[r] \cup told \cup more \in SUBSET Warnings  BY DEF TypeOK
  <2> QED  BY <1>0, <2>1 DEF TypeOK
<1>2. CASE cached[r] = None
  <2>1. /\ warned' = [warned EXCEPT ![r] = @ \cup told \cup {"skipped"}]
        /\ pc' = [pc EXCEPT ![r] = "done"]
        /\ UNCHANGED <<got, age, todo>>
    BY <1>2 DEF FromSnapshot
  <2>2. warned' \in [Runs -> SUBSET Warnings]  BY <1>0, <1>1, <2>1
  <2> QED  BY <2>1, <2>2 DEF TypeOK
<1>3. CASE cached[r] # None
  <2>1. /\ cached[r] \in Row /\ lock[r] \in Locks
        /\ cached[r].lock = lock[r] /\ Len(cached[r].of) = Len(Listed[0][lock[r]])
    BY <1>3 DEF TypeOK, RunsTrue, CachedTrue, RowTrue, Dated
  <2>2. AllIds(cached[r]) \in SUBSET Ids  BY <2>1, RowIds
  <2>3. AgeInDays(began[r], cached[r].at) \in Days
    <3>1. began[r] \in Days /\ cached[r].at \in Days  BY <2>1 DEF TypeOK, Row
    <3> QED  BY <3>1, OsvAssumption DEF Days, AgeInDays
  <2>4. Uses(r, cached[r], AgeInDays(began[r], cached[r].at))
    BY <1>3 DEF FromSnapshot
  <2>5. warned' \in [Runs -> SUBSET Warnings]
    <3> DEFINE more == IF IsOld(AgeInDays(began[r], cached[r].at)) THEN {"old"} ELSE {}
    <3>1. more \in SUBSET Warnings  BY <1>1
    <3>2. warned' = [warned EXCEPT ![r] = @ \cup told \cup more]
      BY <1>3 DEF FromSnapshot
    <3> QED  BY <1>0, <3>1, <3>2
  <2> QED  BY <2>1, <2>2, <2>3, <2>4, <2>5 DEF Uses, TypeOK
<1> QED  BY <1>2, <1>3

(* What the last chunk makes of the answers. *)
LEMMA StoredRow ==
  ASSUME TypeOK, RunsTrue, NEW r \in Runs,
         ~(Len(Answered(r)) < Len(Listed[0][lock[r]])),
         NEW row, row = [of |-> Answered(r), lock |-> lock[r], at |-> began[r]]
  PROVE  /\ row \in Row /\ row.lock = lock[r]
         /\ Len(row.of) = Len(Listed[0][lock[r]])
         /\ AllIds(row) \in SUBSET Ids
<1>1. Answered(r) \in Seq(Editions) /\ Len(Answered(r)) <= Len(Listed[0][lock[r]])
  BY AnsweredType
<1>2. lock[r] \in Locks /\ began[r] \in Days /\ 0 \in Editions
  BY OsvAssumption DEF TypeOK, Editions
<1>3. Listed[0][lock[r]] \in Seq(SUBSET Ids)  BY <1>2, OsvAssumption
<1>4. Len(Answered(r)) = Len(Listed[0][lock[r]])
  BY <1>1, <1>3, LenProperties
<1>5. row \in Row /\ row.lock = lock[r] /\ row.of = Answered(r)  BY <1>1, <1>2 DEF Row
<1> QED  BY <1>2, <1>4, <1>5, RowIds

LEMMA TypeStep ==
  ASSUME TypeOK, RunsTrue, PhasesTrue, [Next]_vars
  PROVE  TypeOK'
<1> USE DEF registry, tables, asking, answer, hist
<1>1. CASE DayPasses
  <2>1. today' \in Days /\ dawn' \in [Days -> Editions]
    BY <1>1, OsvAssumption DEF DayPasses, TypeOK, Days
  <2> QED  BY <1>1, <2>1 DEF DayPasses, TypeOK
<1>2. CASE Publish
  <2>1. edition' \in Editions  BY <1>2, OsvAssumption DEF Publish, TypeOK, Editions
  <2> QED  BY <1>2, <2>1 DEF Publish, TypeOK
<1>3. CASE Damage
  <2>1. batch' \in [Locks -> Row \cup {None, Torn}]
    BY <1>3 DEF Damage, TypeOK
  <2>2. vulns' \in [Ids -> Detail \cup {None}]
    <3>1. CASE UNCHANGED vulns  BY <3>1 DEF TypeOK
    <3>2. ASSUME NEW i \in Ids, Parses(i), vulns' = [vulns EXCEPT ![i].of = Torn]
          PROVE  vulns' \in [Ids -> Detail \cup {None}]
      <4>1. vulns[i] \in Detail  BY <3>2 DEF Parses, TypeOK
      <4>2. [vulns[i] EXCEPT !.of = Torn] \in Detail  BY <4>1 DEF Detail
      <4>3. vulns' = [vulns EXCEPT ![i] = [@ EXCEPT !.of = Torn]]  BY <3>2
      <4> QED  BY <4>2, <4>3 DEF TypeOK
    <3> QED  BY <1>3, <3>1, <3>2 DEF Damage
  <2>3. \A l \in Locks : batch'[l] \notin {None, Torn} => Len(batch'[l].of) = Len(Listed[0][l])
    BY <1>3 DEF Damage, TypeOK
  <2> QED  BY <1>3, <2>1, <2>2, <2>3 DEF Damage, TypeOK
<1>4. ASSUME NEW r \in Runs, NEW l \in Locks, NEW off \in BOOLEAN, Begin(r, l, off)
      PROVE  TypeOK'
  <2>1. /\ lock' \in [Runs -> Locks] /\ offline' \in [Runs -> BOOLEAN]
        /\ began' \in [Runs -> Days]
        /\ pc' \in [Runs -> {"idle", "loaded", "asking", "details", "done"}]
        /\ cached' \in [Runs -> Row \cup {None}]
        /\ alone' \subseteq Runs
    BY <1>4 DEF Begin, TypeOK
  <2>2. warned' \in [Runs -> SUBSET Warnings]
    BY <1>4 DEF Begin, TypeOK, Warnings
  <2> QED  BY <1>4, <2>1, <2>2, ForgetsType DEF Begin, TypeOK
<1>5. ASSUME NEW r \in Runs, UseSnapshot(r)  PROVE TypeOK'
  BY <1>5, SnapshotType DEF UseSnapshot, TypeOK
<1>6. ASSUME NEW r \in Runs, ChunkAnswers(r)  PROVE TypeOK'
  <2> DEFINE row == [of |-> Answered(r), lock |-> lock[r], at |-> began[r]]
  <2>1. CASE Len(Answered(r)) < Len(Listed[0][lock[r]])
    <3>1. Answered(r) \in Seq(Editions)  BY AnsweredType
    <3>2. /\ asked' = [asked EXCEPT ![r] = Answered(r)]
          /\ pc' = [pc EXCEPT ![r] = "asking"]
          /\ UNCHANGED <<batch, got, age, todo, hist>>
      BY <1>6, <2>1 DEF ChunkAnswers
    <3> QED  BY <1>6, <3>1, <3>2 DEF ChunkAnswers, TypeOK
  <2>2. CASE ~(Len(Answered(r)) < Len(Listed[0][lock[r]]))
    <3>1. /\ row \in Row /\ row.lock = lock[r] /\ AllIds(row) \in SUBSET Ids
          /\ Len(row.of) = Len(Listed[0][lock[r]])
      BY <2>2, StoredRow
    <3>2. /\ asked' = [asked EXCEPT ![r] = <<>>]
          /\ batch' = [batch EXCEPT ![lock[r]] = row]
          /\ Uses(r, row, 0) /\ Stores(r)
      BY <1>6, <2>2 DEF ChunkAnswers
    <3> HIDE DEF row
    <3>3. <<>> \in Seq(Editions) /\ 0 \in Days  BY OsvAssumption DEF Days
    <3>4. /\ got' \in [Runs -> Row \cup {None}] /\ age' \in [Runs -> Days \cup {None}]
          /\ todo' \in [Runs -> SUBSET Ids]
          /\ pc' \in [Runs -> {"idle", "loaded", "asking", "details", "done"}]
      BY <3>1, <3>2, <3>3 DEF Uses, TypeOK
    <3>5. alone' \subseteq Runs /\ last' \in [Locks -> Seq(SUBSET Ids) \cup {None}]
      BY <3>2 DEF Stores, TypeOK
    <3>6. /\ batch' \in [Locks -> Row \cup {None, Torn}]
          /\ \A l \in Locks : batch'[l] \notin {None, Torn} =>
                Len(batch'[l].of) = Len(Listed[0][l])
      BY <3>1, <3>2 DEF TypeOK
    <3>7. asked' \in [Runs -> Seq(Editions)]  BY <3>2, <3>3 DEF TypeOK
    <3> QED  BY <1>6, <3>4, <3>5, <3>6, <3>7 DEF ChunkAnswers, TypeOK
  <2> QED  BY <2>1, <2>2
<1>7. ASSUME NEW r \in Runs, ChunkFails(r)  PROVE TypeOK'
  <2>1. {"failed"} \in SUBSET Warnings  BY DEF Warnings
  <2>2. /\ down' \subseteq Runs /\ spent' \in [Runs -> Nat]
        /\ asked' \in [Runs -> Seq(Editions)]
    BY <1>7 DEF ChunkFails, NetworkDown, TypeOK
  <2>3. FromSnapshot(r, {"failed"})  BY <1>7 DEF ChunkFails
  <2> QED  BY <1>7, <2>1, <2>2, <2>3, SnapshotType DEF ChunkFails, TypeOK
<1>8. ASSUME NEW r \in Runs, NEW i \in Ids, DetailAnswers(r, i)  PROVE TypeOK'
  <2>1. vulns' \in [Ids -> Detail \cup {None}]
    <3>1. [of |-> edition, at |-> began[r]] \in Detail  BY DEF Detail, TypeOK
    <3> QED  BY <1>8, <3>1 DEF DetailAnswers, StoredDetail, TypeOK
  <2>2. /\ details' \in [Runs -> [Ids -> Editions \cup {None}]]
        /\ todo' \in [Runs -> SUBSET Ids]
    BY <1>8 DEF DetailAnswers, TypeOK
  <2>3. alone' \subseteq Runs /\ last' \in [Locks -> Seq(SUBSET Ids) \cup {None}]
    BY <1>8 DEF DetailAnswers, Stores, TypeOK
  <2> QED  BY <1>8, <2>1, <2>2, <2>3 DEF DetailAnswers, TypeOK
<1>9. ASSUME NEW r \in Runs, NEW i \in Ids, ServesDetail(r, i)  PROVE TypeOK'
  <2>1. (IF Parses(i) THEN vulns[i].of ELSE None) \in Editions \cup {None}
    BY DEF Parses, TypeOK, Detail
  <2>2. /\ details' \in [Runs -> [Ids -> Editions \cup {None}]]
        /\ todo' \in [Runs -> SUBSET Ids] /\ spent' \in [Runs -> Nat]
    BY <1>9, <2>1 DEF ServesDetail, TypeOK
  <2> QED  BY <1>9, <2>2 DEF ServesDetail, TypeOK
<1>10. ASSUME NEW r \in Runs, Finish(r)  PROVE TypeOK'
  <2>1. Reported(r) \in Seq(SUBSET Ids)
    BY <1>10, ReportedType DEF Finish, PhasesTrue, Detailing
  <2>2. /\ hits' \in [Runs -> Seq(SUBSET Ids)]
        /\ last' \in [Locks -> Seq(SUBSET Ids) \cup {None}]
    BY <1>10, <2>1 DEF Finish, TypeOK
  <2>3. warned' \in [Runs -> SUBSET Warnings]
    BY <1>10 DEF Finish, TypeOK, Warnings
  <2> QED  BY <1>10, <2>2, <2>3 DEF Finish, TypeOK
<1>11. ASSUME NEW r \in Runs, Kill(r)  PROVE TypeOK'
  BY <1>11, ForgetsType DEF Kill, TypeOK
<1>12. CASE UNCHANGED vars  BY <1>12 DEF vars, TypeOK
<1> QED
  BY <1>1, <1>2, <1>3, <1>4, <1>5, <1>6, <1>7, <1>8, <1>9, <1>10, <1>11, <1>12
     DEF Next, Step

-----------------------------------------------------------------------------
(* What the rows say, and since when. *)

LEMMA ClockStep ==
  ASSUME TypeOK, DawnTrue, [Next]_vars
  PROVE  /\ today <= today' /\ edition <= edition'
         /\ \A d \in Days : d <= today => dawn'[d] = dawn[d]
         /\ DawnTrue'
<1>0. today \in Nat /\ edition \in Nat /\ \A d \in Days : d \in Nat /\ dawn[d] \in Nat
  BY OsvAssumption DEF TypeOK, Days, Editions
<1>1. CASE DayPasses
  <2>1. today + 1 \in Days /\ dawn' = [dawn EXCEPT ![today + 1] = edition]
    BY <1>1, <1>0, OsvAssumption DEF DayPasses, Days
  <2>2. today' = today + 1 /\ edition' = edition  BY <1>1 DEF DayPasses
  <2>3. \A d \in Days : d # today + 1 => dawn'[d] = dawn[d]  BY <2>1 DEF TypeOK
  <2>4. dawn'[today + 1] = edition  BY <2>1 DEF TypeOK
  <2> QED  BY <1>0, <2>2, <2>3, <2>4 DEF DawnTrue
<1>2. CASE Publish  BY <1>0, <1>2 DEF Publish, DawnTrue
<1>3. CASE UNCHANGED registry  BY <1>0, <1>3 DEF registry, DawnTrue
<1>4. DayPasses \/ Publish \/ UNCHANGED registry
  <2>1. ASSUME NEW r \in Runs, NEW l \in Locks, NEW off \in BOOLEAN, Begin(r, l, off)
        PROVE  UNCHANGED registry
    BY <2>1 DEF Begin
  <2>2. ASSUME NEW r \in Runs, Step(r)  PROVE UNCHANGED registry
    BY <2>2 DEF Step, UseSnapshot, ChunkAnswers, ChunkFails, DetailAnswers,
       ServesDetail, Finish, Kill
  <2>3. Damage \/ UNCHANGED vars => UNCHANGED registry  BY DEF Damage, vars
  <2> QED  BY <2>1, <2>2, <2>3 DEF Next
<1> QED  BY <1>1, <1>2, <1>3, <1>4

(* A row that is true stays true while the registry goes on publishing. *)
LEMMA DatedLater ==
  ASSUME TypeOK, TypeOK', DawnTrue, [Next]_vars, NEW row \in Row, NEW l, RowTrue(row, l)
  PROVE  Dated(row, l, today', dawn', edition')
<1>1. row.at \in Days /\ row.of \in Seq(Editions)  BY DEF Row
<1>2. row.at \in Nat /\ today \in Nat /\ today' \in Nat /\ edition \in Nat /\ edition' \in Nat
  BY <1>1, OsvAssumption DEF TypeOK, Days, Editions
<1> QED  BY <1>1, <1>2, ClockStep DEF RowTrue, Dated

LEMMA TablesStep ==
  ASSUME TypeOK, TypeOK', DawnTrue, TablesTrue, RunsTrue, [Next]_vars
  PROVE  TablesTrue'
<1> SUFFICES ASSUME NEW l \in Locks, batch'[l] \notin {None, Torn}
             PROVE  Dated(batch'[l], l, today', dawn', edition')
  BY DEF TablesTrue, RowTrue
<1>1. CASE batch'[l] = batch[l]
  <2>1. batch[l] \in Row /\ RowTrue(batch[l], l)  BY <1>1 DEF TypeOK, TablesTrue
  <2> QED  BY <1>1, <2>1, DatedLater
<1>2. ASSUME NEW r \in Runs, ChunkAnswers(r), batch'[l] # batch[l]
      PROVE  Dated(batch'[l], l, today', dawn', edition')
  <2> DEFINE row == [of |-> Answered(r), lock |-> lock[r], at |-> began[r]]
  <2>1. /\ ~(Len(Answered(r)) < Len(Listed[0][lock[r]])) /\ UNCHANGED registry
        /\ batch' = [batch EXCEPT ![lock[r]] = row]
    BY <1>2 DEF ChunkAnswers
  <2>2. row \in Row /\ row.lock = lock[r] /\ Len(row.of) = Len(Listed[0][lock[r]])
    BY <2>1, StoredRow
  <2>3. \A k \in DOMAIN Answered(r) : Answered(r)[k] \in dawn[began[r]]..edition
    <3>1. \A k \in DOMAIN asked[r] : asked[r][k] \in dawn[began[r]]..edition
      BY DEF RunsTrue, AskedTrue
    <3>2. edition \in dawn[began[r]]..edition
      <4>1. began[r] \in Days /\ began[r] <= today  BY DEF RunsTrue, AskedTrue, TypeOK
      <4>2. dawn[began[r]] <= edition  BY <4>1 DEF DawnTrue
      <4>3. dawn[began[r]] \in Int /\ edition \in Int
        BY <4>1, OsvAssumption DEF TypeOK, Editions
      <4> QED  BY <4>2, <4>3
    <3> QED  BY <3>1, <3>2, AnsweredType
  <2>4. began[r] <= today  BY DEF RunsTrue, AskedTrue
  <2>5. Dated(row, lock[r], today, dawn, edition)  BY <2>2, <2>3, <2>4 DEF Dated
  <2> HIDE DEF row
  <2>6. l = lock[r] /\ batch'[l] = row  BY <1>2, <2>1 DEF TypeOK
  <2> QED  BY <2>1, <2>5, <2>6 DEF registry
<1>3. CASE Damage
  BY <1>1, <1>3 DEF Damage, TypeOK
<1>4. CASE UNCHANGED batch  BY <1>1, <1>4
<1>5. Damage \/ (\E r \in Runs : ChunkAnswers(r)) \/ UNCHANGED batch
  <2>1. ASSUME NEW r \in Runs, NEW k \in Locks, NEW off \in BOOLEAN, Begin(r, k, off)
        PROVE  UNCHANGED batch
    BY <2>1 DEF Begin, tables
  <2>2. ASSUME NEW r \in Runs, Step(r)  PROVE ChunkAnswers(r) \/ UNCHANGED batch
    BY <2>2 DEF Step, UseSnapshot, ChunkFails, DetailAnswers, ServesDetail, Finish, Kill, tables
  <2>3. DayPasses \/ Publish \/ UNCHANGED vars => UNCHANGED batch
    BY DEF DayPasses, Publish, vars, tables
  <2> QED  BY <2>1, <2>2, <2>3 DEF Next
<1> QED  BY <1>1, <1>2, <1>3, <1>4, <1>5

(* Chunks already answered were answered since the run began. *)
LEMMA AskedStep ==
  ASSUME TypeOK, TypeOK', DawnTrue, RunsTrue, [Next]_vars
  PROVE  AskedTrue'
<1> SUFFICES ASSUME NEW q \in Runs
             PROVE  /\ began'[q] <= today'
                    /\ Len(asked'[q]) <= Len(Listed[0][lock'[q]])
                    /\ \A k \in DOMAIN asked'[q] : asked'[q][k] \in dawn'[began'[q]]..edition'
  BY DEF AskedTrue
<1>1. /\ began[q] <= today /\ Len(asked[q]) <= Len(Listed[0][lock[q]])
      /\ \A k \in DOMAIN asked[q] : asked[q][k] \in dawn[began[q]]..edition
  BY DEF RunsTrue, AskedTrue
<1>2. /\ today \in Nat /\ today' \in Nat /\ edition \in Nat /\ edition' \in Nat
      /\ began[q] \in Days /\ began[q] \in Nat /\ today <= today' /\ edition <= edition'
      /\ dawn'[began[q]] = dawn[began[q]] /\ dawn[began[q]] \in Nat /\ dawn[began[q]] <= edition
  <2>1. /\ today \in Nat /\ today' \in Nat /\ edition \in Nat /\ edition' \in Nat
        /\ began[q] \in Days /\ began[q] \in Nat /\ dawn[began[q]] \in Nat
    <3>1. /\ today \in Days /\ today' \in Days /\ edition \in Editions /\ edition' \in Editions
          /\ began[q] \in Days /\ dawn \in [Days -> Editions]
      BY DEF TypeOK
    <3>2. Days \subseteq Nat /\ Editions \subseteq Nat  BY OsvAssumption DEF Days, Editions
    <3> QED  BY <3>1, <3>2
  <2>2. /\ today <= today' /\ edition <= edition' /\ dawn'[began[q]] = dawn[began[q]]
    BY <1>1, <2>1, ClockStep
  <2> QED  BY <1>1, <2>1, <2>2 DEF DawnTrue
<1>3. CASE asked'[q] = asked[q] /\ began'[q] = began[q] /\ lock'[q] = lock[q]
  <2>1. asked[q] \in Seq(Editions)  BY DEF TypeOK
  <2>2. \A e : e \in dawn[began[q]]..edition => e \in dawn'[began[q]]..edition'
    BY <1>2
  <2> QED  BY <1>1, <1>2, <1>3, <2>1, <2>2
<1>4. CASE asked'[q] = <<>> /\ began'[q] <= today'
  <2>1. lock'[q] \in Locks /\ 0 \in Editions  BY OsvAssumption DEF TypeOK, Editions
  <2>2. Len(Listed[0][lock'[q]]) \in Nat  BY <2>1, OsvAssumption, LenProperties
  <2> QED  BY <1>4, <2>2
<1>5. ASSUME NEW r \in Runs, NEW l \in Locks, NEW off \in BOOLEAN, Begin(r, l, off)
      PROVE  \/ asked'[q] = asked[q] /\ began'[q] = began[q] /\ lock'[q] = lock[q]
             \/ asked'[q] = <<>> /\ began'[q] <= today'
  BY <1>2, <1>5 DEF Begin, Forgets, TypeOK, registry
<1>6. ASSUME NEW r \in Runs, Kill(r) \/ ChunkFails(r)
      PROVE  \/ asked'[q] = asked[q] /\ began'[q] = began[q] /\ lock'[q] = lock[q]
             \/ asked'[q] = <<>> /\ began'[q] <= today'
  BY <1>1, <1>2, <1>6 DEF Kill, ChunkFails, Forgets, TypeOK, registry
<1>7. ASSUME NEW r \in Runs, ChunkAnswers(r), q # r \/ asked'[q] = <<>>
      PROVE  \/ asked'[q] = asked[q] /\ began'[q] = began[q] /\ lock'[q] = lock[q]
             \/ asked'[q] = <<>> /\ began'[q] <= today'
  BY <1>1, <1>2, <1>7 DEF ChunkAnswers, TypeOK, registry
<1>8. CASE ChunkAnswers(q) /\ asked'[q] # <<>>
  <2>1. /\ asked'[q] = Answered(q) /\ UNCHANGED <<registry, began, lock>>
    BY <1>8 DEF ChunkAnswers, TypeOK
  <2>2. edition \in dawn[began[q]]..edition  BY <1>2
  <2> QED  BY <1>1, <2>1, <2>2, AnsweredType DEF registry
<1>9. CASE UNCHANGED <<asked, began, lock>>  BY <1>3, <1>9
<1>10. \/ \E r \in Runs, l \in Locks, off \in BOOLEAN : Begin(r, l, off)
       \/ \E r \in Runs : Kill(r) \/ ChunkFails(r) \/ ChunkAnswers(r)
       \/ UNCHANGED <<asked, began, lock>>
  <2>1. ASSUME NEW r \in Runs, Step(r)
        PROVE  Kill(r) \/ ChunkFails(r) \/ ChunkAnswers(r) \/ UNCHANGED <<asked, began, lock>>
    BY <2>1 DEF Step, UseSnapshot, DetailAnswers, ServesDetail, Finish, asking
  <2>2. Damage \/ DayPasses \/ Publish \/ UNCHANGED vars => UNCHANGED <<asked, began, lock>>
    BY DEF Damage, DayPasses, Publish, vars, asking
  <2> QED  BY <2>1, <2>2 DEF Next
<1> QED  BY <1>3, <1>4, <1>5, <1>6, <1>7, <1>8, <1>9, <1>10

(* The row a run read when it began. *)
LEMMA CachedStep ==
  ASSUME TypeOK, TypeOK', DawnTrue, TablesTrue, RunsTrue, [Next]_vars
  PROVE  CachedTrue'
<1> SUFFICES ASSUME NEW q \in Runs, cached'[q] # None
             PROVE  /\ Dated(cached'[q], lock'[q], today', dawn', edition')
                    /\ cached'[q].at <= began'[q]
  BY DEF CachedTrue, RowTrue
<1>1. CASE cached'[q] = cached[q] /\ lock'[q] = lock[q] /\ began'[q] = began[q]
  <2>1. cached[q] \in Row /\ RowTrue(cached[q], lock[q]) /\ cached[q].at <= began[q]
    BY <1>1 DEF RunsTrue, CachedTrue, TypeOK
  <2> QED  BY <1>1, <2>1, DatedLater
<1>2. ASSUME NEW r \in Runs, NEW l \in Locks, NEW off \in BOOLEAN, Begin(r, l, off)
      PROVE  /\ Dated(cached'[q], lock'[q], today', dawn', edition')
             /\ cached'[q].at <= began'[q]
  <2>1. CASE q = r
    <3>1. cached'[q] = batch[l] /\ lock'[q] = l /\ began'[q] = today
      BY <1>2, <2>1 DEF Begin, TypeOK
    <3>2. batch[l] \in Row /\ RowTrue(batch[l], l)
      BY <3>1, <1>2, <2>1 DEF Begin, TablesTrue, TypeOK
    <3> QED  BY <3>1, <3>2, DatedLater DEF RowTrue, Dated
  <2>2. CASE q # r  BY <1>1, <1>2, <2>2 DEF Begin
  <2> QED  BY <2>1, <2>2
<1>3. (\E r \in Runs, l \in Locks, off \in BOOLEAN : Begin(r, l, off))
        \/ UNCHANGED <<cached, lock, began>>
  <2>1. ASSUME NEW r \in Runs, Step(r)  PROVE UNCHANGED <<cached, lock, began>>
    BY <2>1 DEF Step, UseSnapshot, ChunkAnswers, ChunkFails, DetailAnswers, ServesDetail,
       Finish, Kill, asking
  <2>2. Damage \/ DayPasses \/ Publish \/ UNCHANGED vars => UNCHANGED <<cached, lock, began>>
    BY DEF Damage, DayPasses, Publish, vars, asking
  <2> QED  BY <2>1, <2>2 DEF Next
<1> QED  BY <1>1, <1>2, <1>3

(* The snapshot is used with its age, and said to be old when it is. *)
LEMMA SnapshotGot ==
  ASSUME TypeOK, RunsTrue, PhasesTrue, NEW q \in Runs, pc[q] \in {"loaded", "asking"},
         NEW told \in SUBSET {"failed"}, FromSnapshot(q, told), got'[q] # None
  PROVE  /\ got'[q] = cached[q] /\ cached[q] # None
         /\ cached[q].at <= began[q] /\ age'[q] = began[q] - cached[q].at
         /\ "old" \in warned'[q] <=> age'[q] >= 1
<1>1. cached[q] # None
  <2> SUFFICES ASSUME cached[q] = None  PROVE FALSE
    OBVIOUS
  <2>1. got'[q] = got[q]  BY DEF FromSnapshot
  <2> QED  BY <2>1 DEF PhasesTrue, NothingYet
<1>2. cached[q] \in Row /\ cached[q].at \in Days /\ began[q] \in Days
      /\ cached[q].at <= began[q]
  BY <1>1 DEF TypeOK, Row, RunsTrue, CachedTrue
<1>3. AgeInDays(began[q], cached[q].at) = began[q] - cached[q].at
  BY <1>2, OsvAssumption DEF AgeInDays, Days
<1>4. /\ got'[q] = cached[q] /\ age'[q] = began[q] - cached[q].at
      /\ warned'[q] = warned[q] \cup told \cup
            (IF IsOld(began[q] - cached[q].at) THEN {"old"} ELSE {})
  BY <1>1, <1>3 DEF FromSnapshot, Uses, TypeOK
<1>5. "old" \notin warned[q] \cup told  BY DEF PhasesTrue, NothingYet
<1> QED  BY <1>1, <1>2, <1>4, <1>5 DEF IsOld

LEMMA GotStep ==
  ASSUME TypeOK, TypeOK', DawnTrue, TablesTrue, RunsTrue, PhasesTrue, [Next]_vars
  PROVE  GotTrue'
<1> SUFFICES ASSUME NEW q \in Runs, got'[q] # None
             PROVE  /\ Dated(got'[q], lock'[q], today', dawn', edition')
                    /\ got'[q].at <= began'[q]
                    /\ age'[q] = began'[q] - got'[q].at
                    /\ "old" \in warned'[q] <=> age'[q] >= 1
  BY DEF GotTrue, RowTrue
<1> DEFINE Goal == /\ Dated(got'[q], lock'[q], today', dawn', edition')
                   /\ got'[q].at <= began'[q]
                   /\ age'[q] = began'[q] - got'[q].at
                   /\ "old" \in warned'[q] <=> age'[q] >= 1
<1>1. CASE /\ got'[q] = got[q] /\ lock'[q] = lock[q] /\ began'[q] = began[q]
           /\ age'[q] = age[q] /\ ("old" \in warned'[q] <=> "old" \in warned[q])
  <2>1. /\ got[q] \in Row /\ RowTrue(got[q], lock[q]) /\ got[q].at <= began[q]
        /\ age[q] = began[q] - got[q].at /\ ("old" \in warned[q] <=> age[q] >= 1)
    BY <1>1 DEF RunsTrue, GotTrue, TypeOK
  <2> QED  BY <1>1, <2>1, DatedLater
<1>2. ASSUME NEW told \in SUBSET {"failed"}, FromSnapshot(q, told),
             pc[q] \in {"loaded", "asking"}, UNCHANGED <<lock, began>>
      PROVE  Goal
  <2>1. /\ got'[q] = cached[q] /\ cached[q] # None
        /\ cached[q].at <= began[q] /\ age'[q] = began[q] - cached[q].at
        /\ "old" \in warned'[q] <=> age'[q] >= 1
    BY <1>2, SnapshotGot
  <2>2. cached[q] \in Row /\ RowTrue(cached[q], lock[q])
    BY <2>1 DEF RunsTrue, CachedTrue, TypeOK
  <2> QED  BY <1>2, <2>1, <2>2, DatedLater
<1>3. CASE ChunkAnswers(q)
  <2> DEFINE row == [of |-> Answered(q), lock |-> lock[q], at |-> began[q]]
  <2>1. pc[q] \in {"loaded", "asking"} /\ UNCHANGED <<lock, began, warned>>
    BY <1>3 DEF ChunkAnswers, Asks
  <2>2. ~(Len(Answered(q)) < Len(Listed[0][lock[q]]))
    BY <1>3, <2>1 DEF ChunkAnswers, PhasesTrue, NothingYet
  <2>3. got'[q] = row /\ age'[q] = 0  BY <1>3, <2>2 DEF ChunkAnswers, Uses, TypeOK
  <2>4. batch' = [batch EXCEPT ![lock[q]] = row] /\ lock[q] \in Locks
    BY <1>3, <2>2 DEF ChunkAnswers, TypeOK
  <2>5. row \in Row  BY <2>2, StoredRow
  <2>6. began[q] \in Nat /\ row.at = began[q]  BY OsvAssumption DEF TypeOK, Days
  <2> HIDE DEF row
  <2>7. batch'[lock[q]] = row /\ row \notin {None, Torn}
    BY <2>4, <2>5, NoneAssumption DEF TypeOK
  <2>8. TablesTrue'  BY TablesStep
  <2>9. "old" \notin warned[q]  BY <2>1 DEF PhasesTrue, NothingYet
  <2> QED  BY <2>1, <2>3, <2>4, <2>6, <2>7, <2>8, <2>9 DEF TablesTrue, RowTrue
<1>4. ASSUME NEW r \in Runs, Step(r), r # q  PROVE Goal
  <2> DEFINE Same == /\ got'[q] = got[q] /\ lock'[q] = lock[q] /\ began'[q] = began[q]
                     /\ age'[q] = age[q] /\ warned'[q] = warned[q]
  <2>1. ASSUME NEW told, FromSnapshot(r, told), UNCHANGED <<lock, began>>  PROVE Same
    BY <1>4, <2>1 DEF FromSnapshot, Uses, TypeOK
  <2>2. UseSnapshot(r) => Same  BY <2>1 DEF UseSnapshot
  <2>3. ChunkFails(r) => Same  BY <2>1 DEF ChunkFails
  <2>4. ChunkAnswers(r) => Same  BY <1>4 DEF ChunkAnswers, Uses, TypeOK
  <2>5. ASSUME NEW i \in Ids, DetailAnswers(r, i) \/ ServesDetail(r, i)  PROVE Same
    BY <2>5 DEF DetailAnswers, ServesDetail, asking
  <2>6. Finish(r) => Same  BY <1>4 DEF Finish, TypeOK
  <2>7. Kill(r) => Same  BY <1>4 DEF Kill, Forgets, TypeOK
  <2>8. Same  BY <1>4, <2>2, <2>3, <2>4, <2>5, <2>6, <2>7 DEF Step
  <2> QED  BY <1>1, <2>8
<1>5. CASE Step(q)
  <2>1. CASE UseSnapshot(q)  BY <1>2, <2>1 DEF UseSnapshot
  <2>2. CASE ChunkFails(q)  BY <1>2, <2>2 DEF ChunkFails, Asks
  <2>3. CASE Kill(q)
    <3>1. got'[q] = None  BY <2>3 DEF Kill, Forgets, TypeOK
    <3> QED  BY <3>1
  <2>4. CASE Finish(q)
    <3>1. "old" \in warned'[q] <=> "old" \in warned[q]  BY <2>4 DEF Finish, TypeOK
    <3> QED  BY <1>1, <2>4, <3>1 DEF Finish
  <2>5. ASSUME NEW i \in Ids, DetailAnswers(q, i) \/ ServesDetail(q, i)  PROVE Goal
    BY <1>1, <2>5 DEF DetailAnswers, ServesDetail, asking
  <2> QED  BY <1>3, <1>5, <2>1, <2>2, <2>3, <2>4, <2>5 DEF Step
<1>6. ASSUME NEW r \in Runs, NEW l \in Locks, NEW off \in BOOLEAN, Begin(r, l, off)
      PROVE  Goal
  <2>1. q # r  BY <1>6 DEF Begin, Forgets, TypeOK
  <2> QED  BY <1>1, <1>6, <2>1 DEF Begin, Forgets, TypeOK
<1>7. CASE Damage \/ DayPasses \/ Publish \/ UNCHANGED vars
  BY <1>1, <1>7 DEF Damage, DayPasses, Publish, vars, asking, answer
<1> QED  BY <1>4, <1>5, <1>6, <1>7 DEF Next

-----------------------------------------------------------------------------
(* What a run has found out and told. *)
LEMMA PhasesStep ==
  ASSUME TypeOK, RunsTrue, PhasesTrue, [Next]_vars
  PROVE  PhasesTrue'
<1> DEFINE Phase(q) ==
             /\ pc[q] \in {"idle", "loaded", "asking"} => NothingYet(q)
             /\ pc[q] = "details" => Detailing(q)
             /\ pc[q] = "done" => Told(q)
             /\ "failed" \in warned[q] => q \in down
             /\ q \in down => spent[q] = 1
           Same(q) ==
             /\ pc'[q] = pc[q] /\ lock'[q] = lock[q] /\ got'[q] = got[q]
             /\ hits'[q] = hits[q] /\ todo'[q] = todo[q] /\ warned'[q] = warned[q]
             /\ (q \in down' <=> q \in down) /\ spent'[q] = spent[q]
             /\ details'[q] = details[q]
<1>1. SUFFICES ASSUME NEW q \in Runs  PROVE Phase(q)'
  BY DEF PhasesTrue
<1>2. Phase(q)  BY DEF PhasesTrue
<1>3. CASE Same(q)
  BY <1>2, <1>3 DEF NothingYet, Detailing, Told, Reported, Unavailable
<1>4. ASSUME NEW r \in Runs, Step(r), r # q  PROVE Same(q)
  <2>1. ASSUME NEW told, FromSnapshot(r, told), UNCHANGED <<lock, hits, details>>,
               q \in down' <=> q \in down, spent'[q] = spent[q]
        PROVE  Same(q)
    BY <1>4, <2>1 DEF FromSnapshot, Uses, TypeOK
  <2>2. UseSnapshot(r) => Same(q)  BY <2>1 DEF UseSnapshot
  <2>3. ChunkFails(r) => Same(q)
    BY <1>4, <2>1 DEF ChunkFails, NetworkDown, TypeOK
  <2>4. ChunkAnswers(r) => Same(q)  BY <1>4 DEF ChunkAnswers, Uses, TypeOK
  <2>5. ASSUME NEW i \in Ids, DetailAnswers(r, i) \/ ServesDetail(r, i)  PROVE Same(q)
    BY <1>4, <2>5 DEF DetailAnswers, ServesDetail, asking, TypeOK
  <2>6. Finish(r) => Same(q)  BY <1>4 DEF Finish, TypeOK
  <2>7. Kill(r) => Same(q)  BY <1>4 DEF Kill, Forgets, TypeOK
  <2> QED  BY <1>4, <2>2, <2>3, <2>4, <2>5, <2>6, <2>7 DEF Step
<1>5. CASE UseSnapshot(q) \/ ChunkFails(q)
  <2>1. pc[q] \in {"loaded", "asking"} /\ NothingYet(q)
    BY <1>2, <1>5 DEF UseSnapshot, ChunkFails, Asks
  <2>2. UNCHANGED <<lock, hits>>  BY <1>5 DEF UseSnapshot, ChunkFails
  <2>3. PICK told \in {{}, {"failed"}} :
          /\ FromSnapshot(q, told)
          /\ IF told = {} THEN q \notin down' /\ spent'[q] = 0
                         ELSE q \in down' /\ spent'[q] = 1
    <3>1. CASE UseSnapshot(q)
      BY <2>1, <3>1 DEF UseSnapshot, NothingYet
    <3>2. CASE ChunkFails(q)
      BY <2>1, <3>2 DEF ChunkFails, NetworkDown, NothingYet, TypeOK
    <3> QED  BY <1>5, <3>1, <3>2
  <2>4. CASE cached[q] = None
    <3>1. /\ pc'[q] = "done" /\ got'[q] = None /\ hits'[q] = <<>>
          /\ warned'[q] = warned[q] \cup told \cup {"skipped"}
      BY <2>1, <2>2, <2>3, <2>4 DEF FromSnapshot, NothingYet, TypeOK
    <3> QED  BY <2>1, <2>3, <3>1 DEF Told, NothingYet
  <2>5. CASE cached[q] # None
    <3>1. /\ pc'[q] = "details" /\ got'[q] = cached[q] /\ hits'[q] = <<>>
          /\ todo'[q] = AllIds(cached[q])
      BY <2>1, <2>2, <2>3, <2>5 DEF FromSnapshot, Uses, NothingYet, TypeOK
    <3>2. "failed" \in warned'[q] => told = {"failed"}
      <4>1. PICK more \in {{}, {"old"}} : warned'[q] = warned[q] \cup told \cup more
        BY <2>3, <2>5 DEF FromSnapshot, TypeOK
      <4> QED  BY <2>1, <4>1 DEF NothingYet
    <3> QED  BY <2>3, <2>5, <3>1, <3>2 DEF Detailing
  <2> QED  BY <2>4, <2>5
<1>6. CASE ChunkAnswers(q)
  <2> DEFINE row == [of |-> Answered(q), lock |-> lock[q], at |-> began[q]]
  <2>1. /\ pc[q] \in {"loaded", "asking"} /\ NothingYet(q)
        /\ UNCHANGED <<lock, hits, warned, down, spent, details>>
    BY <1>2, <1>6 DEF ChunkAnswers, Asks
  <2>2. CASE Len(Answered(q)) < Len(Listed[0][lock[q]])
    <3>1. pc'[q] = "asking" /\ UNCHANGED <<got, todo>>
      BY <1>6, <2>2 DEF ChunkAnswers, TypeOK
    <3> QED  BY <2>1, <3>1 DEF NothingYet
  <2>3. CASE ~(Len(Answered(q)) < Len(Listed[0][lock[q]]))
    <3>1. pc'[q] = "details" /\ got'[q] = row /\ todo'[q] = AllIds(row)
      BY <1>6, <2>3 DEF ChunkAnswers, Uses, TypeOK
    <3>2. row # None  BY <2>3, StoredRow, NoneAssumption
    <3> QED  BY <2>1, <3>1, <3>2 DEF NothingYet, Detailing
  <2> QED  BY <2>2, <2>3
<1>7. ASSUME NEW i \in Ids, DetailAnswers(q, i)  PROVE Phase(q)'
  <2>1. /\ pc[q] = "details" /\ todo'[q] \subseteq todo[q]
        /\ UNCHANGED <<pc, got, hits, warned, down, spent>>
    BY <1>7 DEF DetailAnswers, WantsDetail, TypeOK, asking
  <2> QED  BY <1>2, <2>1 DEF Detailing
<1>8. ASSUME NEW i \in Ids, ServesDetail(q, i)  PROVE Phase(q)'
  <2>1. /\ pc[q] = "details" /\ todo'[q] \subseteq todo[q]
        /\ UNCHANGED <<pc, got, hits, warned, down>>
    BY <1>8 DEF ServesDetail, WantsDetail, TypeOK
  <2>2. q \in down => spent'[q] = spent[q]
    BY <1>8 DEF ServesDetail, MayFetch, TypeOK
  <2> QED  BY <1>2, <2>1, <2>2 DEF Detailing
<1>9. CASE Finish(q)
  <2>1. /\ pc[q] = "details" /\ pc'[q] = "done"
        /\ hits'[q] = Reported(q)
        /\ warned'[q] = IF Unavailable(q) # {} THEN warned[q] \cup {"details"} ELSE warned[q]
        /\ UNCHANGED <<lock, got, down, spent, details>>
    BY <1>9 DEF Finish, TypeOK
  <2>2. got[q] # None  BY <1>2, <2>1 DEF Detailing
  <2>3. Reported(q)' = Reported(q) /\ Unavailable(q)' = Unavailable(q)
    BY <2>1 DEF Reported, Unavailable
  <2> QED  BY <1>2, <2>1, <2>2, <2>3 DEF Told
<1>10. CASE Kill(q)
  BY <1>10 DEF Kill, Forgets, NothingYet, TypeOK
<1>11. ASSUME NEW r \in Runs, NEW l \in Locks, NEW off \in BOOLEAN, Begin(r, l, off)
       PROVE  Phase(q)'
  <2>1. CASE q # r
    <3>1. Same(q)  BY <1>11, <2>1 DEF Begin, Forgets, TypeOK
    <3> QED  BY <1>3, <3>1
  <2>2. CASE q = r
    <3>1. /\ got'[q] = None /\ hits'[q] = <<>> /\ todo'[q] = {} /\ q \notin down'
          /\ spent'[q] = 0
      BY <1>11, <2>2 DEF Begin, Forgets, TypeOK
    <3>2. /\ lock'[q] = l /\ pc'[q] = IF Packages(l) = {} THEN "done" ELSE "loaded"
          /\ warned'[q] \subseteq {"unreadable"}
      BY <1>11, <2>2 DEF Begin, TypeOK
    <3> QED  BY <3>1, <3>2 DEF NothingYet, Told
  <2> QED  BY <2>1, <2>2
<1>12. CASE Damage \/ DayPasses \/ Publish \/ UNCHANGED vars
  <2>1. Same(q)
    BY <1>12 DEF Damage, DayPasses, Publish, vars, asking, answer
  <2> QED  BY <1>3, <2>1
<1>13. CASE Step(q)
  BY <1>5, <1>6, <1>7, <1>8, <1>9, <1>10, <1>13 DEF Step
<1> QED  BY <1>3, <1>4, <1>11, <1>12, <1>13 DEF Next

-----------------------------------------------------------------------------
(* What the tables hold of a run beside whose reads nobody stored. *)
LEMMA AloneStep ==
  ASSUME TypeOK, RunsTrue, PhasesTrue, AloneTrue, [Next]_vars
  PROVE  AloneTrue'
<1> DEFINE Alone(q) ==
             /\ pc[q] \in {"loaded", "asking"} /\ cached[q] # None => cached[q] = batch[lock[q]]
             /\ pc[q] = "details" =>
                  /\ got[q] = batch[lock[q]]
                  /\ \A i \in AllIds(got[q]) \ todo[q] : details[q][i] = Held(i)
           Same(q) ==
             /\ pc'[q] = pc[q] /\ cached'[q] = cached[q] /\ lock'[q] = lock[q]
             /\ got'[q] = got[q] /\ todo'[q] = todo[q] /\ details'[q] = details[q]
<1>1. SUFFICES ASSUME NEW q \in alone'  PROVE Alone(q)'
  BY DEF AloneTrue
<1>2. q \in alone => Alone(q)  BY DEF AloneTrue
<1>3. CASE Same(q) /\ q \in alone /\ UNCHANGED <<batch, vulns>>
  BY <1>2, <1>3 DEF Held, Parses
<1>4. ASSUME NEW r \in Runs, Step(r), r # q, q \in Runs
      PROVE  Same(q) /\ q \in alone /\ UNCHANGED <<batch, vulns>>
  <2>0. ~Stores(r)  BY <1>1, <1>4 DEF Stores
  <2>1. ASSUME NEW told, FromSnapshot(r, told), UNCHANGED <<lock, cached, details, tables, hist>>
        PROVE  Same(q) /\ q \in alone /\ UNCHANGED <<batch, vulns>>
    BY <1>1, <1>4, <2>1 DEF FromSnapshot, Uses, TypeOK, tables, hist
  <2>2. CASE UseSnapshot(r)  BY <2>1, <2>2 DEF UseSnapshot
  <2>3. CASE ChunkFails(r)  BY <2>1, <2>3 DEF ChunkFails
  <2>4. CASE ChunkAnswers(r)
    <3>1. Len(Answered(r)) < Len(Listed[0][lock[r]])  BY <2>0, <2>4 DEF ChunkAnswers
    <3> QED  BY <1>1, <1>4, <2>4, <3>1 DEF ChunkAnswers, TypeOK, hist
  <2>5. ASSUME NEW i \in Ids, ServesDetail(r, i)
        PROVE  Same(q) /\ q \in alone /\ UNCHANGED <<batch, vulns>>
    BY <1>1, <1>4, <2>5 DEF ServesDetail, TypeOK, tables, hist
  <2>6. CASE Finish(r)  BY <1>1, <1>4, <2>6 DEF Finish, TypeOK, tables
  <2>7. CASE Kill(r)  BY <1>1, <1>4, <2>7 DEF Kill, Forgets, TypeOK, tables, hist
  <2>8. ASSUME NEW i \in Ids, DetailAnswers(r, i)  PROVE FALSE
    BY <2>0, <2>8 DEF DetailAnswers
  <2> QED  BY <1>4, <2>2, <2>3, <2>4, <2>5, <2>6, <2>7, <2>8 DEF Step
<1>5. ASSUME NEW told, FromSnapshot(q, told), UNCHANGED <<lock, cached, tables, hist>>,
             q \in Runs, pc[q] \in {"loaded", "asking"}
      PROVE  Alone(q)'
  <2>1. q \in alone  BY <1>1, <1>5 DEF hist
  <2>2. CASE cached[q] = None
    BY <1>5, <2>2 DEF FromSnapshot, TypeOK
  <2>3. CASE cached[q] # None
    <3>1. /\ pc'[q] = "details" /\ got'[q] = cached[q] /\ todo'[q] = AllIds(cached[q])
      BY <1>5, <2>3 DEF FromSnapshot, Uses, TypeOK
    <3> QED  BY <1>2, <1>5, <2>1, <2>3, <3>1 DEF tables
  <2> QED  BY <2>2, <2>3
<1>6. CASE q \in Runs /\ ChunkAnswers(q)
  <2> DEFINE row == [of |-> Answered(q), lock |-> lock[q], at |-> began[q]]
  <2>1. pc[q] \in {"loaded", "asking"} /\ UNCHANGED <<cached, lock>>
    BY <1>6 DEF ChunkAnswers, Asks
  <2>2. CASE Len(Answered(q)) < Len(Listed[0][lock[q]])
    <3>1. pc'[q] = "asking" /\ UNCHANGED <<batch, hist>>
      BY <1>6, <2>2 DEF ChunkAnswers, TypeOK
    <3> QED  BY <1>1, <1>2, <2>1, <3>1 DEF hist
  <2>3. CASE ~(Len(Answered(q)) < Len(Listed[0][lock[q]]))
    <3>1. /\ pc'[q] = "details" /\ got'[q] = row /\ todo'[q] = AllIds(row)
          /\ batch'[lock[q]] = row
      BY <1>6, <2>3 DEF ChunkAnswers, Uses, TypeOK
    <3> QED  BY <2>1, <3>1
  <2> QED  BY <2>2, <2>3
<1>7. ASSUME NEW i \in Ids, DetailAnswers(q, i), q \in Runs  PROVE Alone(q)'
  <2>1. /\ pc[q] = "details" /\ q \in alone
        /\ UNCHANGED <<pc, lock, got, batch>>
        /\ vulns' = [vulns EXCEPT ![i] = [of |-> edition, at |-> began[q]]]
        /\ details'[q] = [details[q] EXCEPT ![i] = edition]
        /\ todo'[q] = todo[q] \ {i}
    BY <1>1, <1>7 DEF DetailAnswers, WantsDetail, StoredDetail, Stores, TypeOK, asking
  <2>2. [of |-> edition, at |-> began[q]] \in Detail  BY <1>7 DEF Detail, TypeOK
  <2>3. Held(i)' = edition
    <3>1. vulns'[i] = [of |-> edition, at |-> began[q]] /\ edition # Torn
      BY <2>1, OsvAssumption DEF TypeOK
    <3> QED  BY <2>2, <3>1, NoneAssumption DEF Held, Parses
  <2>4. details'[q][i] = edition /\ AllIds(got[q]) \in SUBSET Ids
    <3>1. got[q] # None  BY <1>7, <2>1 DEF PhasesTrue, Detailing
    <3> QED  BY <1>7, <2>1, <3>1, GotIds DEF TypeOK
  <2>5. \A j \in Ids : j # i => Held(j)' = Held(j) /\ details'[q][j] = details[q][j]
    BY <1>7, <2>1 DEF Held, Parses, TypeOK
  <2> QED  BY <1>2, <2>1, <2>3, <2>4, <2>5
<1>8. ASSUME NEW i \in Ids, ServesDetail(q, i), q \in Runs  PROVE Alone(q)'
  <2>1. /\ pc[q] = "details" /\ q \in alone
        /\ UNCHANGED <<pc, lock, got, batch, vulns>>
        /\ details'[q] = [details[q] EXCEPT ![i] = Held(i)]
        /\ todo'[q] = todo[q] \ {i}
    BY <1>1, <1>8 DEF ServesDetail, WantsDetail, Held, TypeOK, tables, hist
  <2>2. details'[q][i] = Held(i) /\ AllIds(got[q]) \in SUBSET Ids
    <3>1. got[q] # None  BY <1>8, <2>1 DEF PhasesTrue, Detailing
    <3> QED  BY <1>8, <2>1, <3>1, GotIds DEF TypeOK
  <2>3. \A j \in Ids : Held(j)' = Held(j) /\ (j # i => details'[q][j] = details[q][j])
    BY <1>8, <2>1 DEF Held, Parses, TypeOK
  <2> QED  BY <1>2, <2>1, <2>2, <2>3
<1>9. CASE q \in Runs /\ (Finish(q) \/ Kill(q))
  BY <1>9 DEF Finish, Kill, TypeOK
<1>10. CASE q \in Runs /\ Step(q)
  <2>1. CASE UseSnapshot(q)  BY <1>5, <1>10, <2>1 DEF UseSnapshot
  <2>2. CASE ChunkFails(q)  BY <1>5, <1>10, <2>2 DEF ChunkFails, Asks
  <2> QED  BY <1>6, <1>7, <1>8, <1>9, <1>10, <2>1, <2>2 DEF Step
<1>11. ASSUME NEW r \in Runs, NEW l \in Locks, NEW off \in BOOLEAN, Begin(r, l, off)
       PROVE  Alone(q)'
  <2>1. CASE q # r
    <3>1. Same(q) /\ q \in alone /\ UNCHANGED <<batch, vulns>>
      BY <1>1, <1>11, <2>1 DEF Begin, Forgets, TypeOK, tables
    <3> QED  BY <1>3, <3>1
  <2>2. CASE q = r
    <3>1. /\ pc'[q] \in {"done", "loaded"} /\ lock'[q] = l /\ batch' = batch
          /\ cached'[q] = IF batch[l] = Torn THEN None ELSE batch[l]
      BY <1>11, <2>2 DEF Begin, TypeOK, tables
    <3> QED  BY <3>1
  <2> QED  BY <2>1, <2>2
<1>12. CASE Damage  BY <1>1, <1>12 DEF Damage
<1>13. CASE DayPasses \/ Publish \/ UNCHANGED vars
  <2>1. Same(q) /\ q \in alone /\ UNCHANGED <<batch, vulns>>
    BY <1>1, <1>13 DEF DayPasses, Publish, vars, tables, asking, answer, hist
  <2> QED  BY <1>3, <2>1
<1>14. q \in Runs
  <2>1. alone \subseteq Runs  BY DEF TypeOK
  <2>2. ASSUME NEW r \in Runs, NEW l \in Locks, NEW off \in BOOLEAN, Begin(r, l, off)
        PROVE  alone' \subseteq Runs
    BY <2>1, <2>2 DEF Begin
  <2>3. ASSUME NEW r \in Runs, Step(r)  PROVE alone' \subseteq Runs
    BY <2>1, <2>3 DEF Step, UseSnapshot, ChunkAnswers, ChunkFails, DetailAnswers, ServesDetail,
       Finish, Kill, Stores, hist
  <2>4. Damage \/ DayPasses \/ Publish \/ UNCHANGED vars => alone' \subseteq Runs
    BY <2>1 DEF Damage, DayPasses, Publish, vars, hist
  <2> QED  BY <1>1, <2>2, <2>3, <2>4 DEF Next
<1> QED  BY <1>3, <1>4, <1>10, <1>11, <1>12, <1>13, <1>14 DEF Next

(* A run that nobody stored or damaged beside reports what the tables say. *)
LEMMA ReportsTables ==
  ASSUME TypeOK, RunsTrue, PhasesTrue, AloneTrue, NEW r \in alone, Finish(r)
  PROVE  /\ batch[lock[r]] \notin {None, Torn}
         /\ Reported(r) = FromTables(lock[r])
<1>1. /\ r \in Runs /\ pc[r] = "details" /\ todo[r] = {} /\ got[r] # None
      /\ got[r] = batch[lock[r]]
      /\ \A i \in AllIds(got[r]) : details[r][i] = Held(i)
  BY DEF Finish, TypeOK, PhasesTrue, Detailing, AloneTrue
<1>2. got[r] \in Row /\ got[r] # Torn  BY <1>1, NoneAssumption DEF TypeOK
<1>3. ASSUME NEW k \in Packages(lock[r])
      PROVE  OnePerFamily(IdsOf(got[r], k), details[r])
               = OnePerFamily(IdsOf(got[r], k), [i \in Ids |-> Held(i)])
  <2> DEFINE held == [i \in Ids |-> Held(i)]
  <2>1. \A i \in IdsOf(got[r], k) : i \in Ids /\ details[r][i] = Held(i)
    BY <1>1, <1>3, GotIds
  <2>2. \A i \in IdsOf(got[r], k) : details[r][i] = held[i]  BY <2>1
  <2> HIDE DEF held
  <2>3. OnePerFamily(IdsOf(got[r], k), details[r]) = OnePerFamily(IdsOf(got[r], k), held)
    BY <2>2, OnlyTheirs
  <2> QED  BY <2>3 DEF held
<1> QED  BY <1>1, <1>2, <1>3 DEF Reported, FromTables

(* The report kept of each lockfile is the one its tables give. *)
LEMMA LastStep ==
  ASSUME TypeOK, RunsTrue, PhasesTrue, AloneTrue, LastTrue, [Next]_vars
  PROVE  LastTrue'
<1>1. CASE UNCHANGED <<batch, vulns, last>>
  BY <1>1 DEF LastTrue, FromTables, Held, Parses
<1>2. CASE last' = [l \in Locks |-> None]
  BY <1>2 DEF LastTrue
<1>3. ASSUME NEW r \in Runs, Finish(r), r \in alone  PROVE LastTrue'
  <2>1. UNCHANGED <<batch, vulns>>  BY <1>3 DEF Finish, tables
  <2>2. last' = [last EXCEPT ![lock[r]] = Reported(r)]  BY <1>3 DEF Finish
  <2>3. \A l \in Locks : FromTables(l)' = FromTables(l)
    BY <2>1 DEF FromTables, Held, Parses
  <2> QED  BY <1>3, <2>1, <2>2, <2>3, ReportsTables DEF LastTrue, TypeOK
<1>4. ASSUME NEW r \in Runs, Step(r)
      PROVE  \/ UNCHANGED <<batch, vulns, last>>
             \/ last' = [l \in Locks |-> None]
             \/ Finish(r) /\ r \in alone
  BY <1>4 DEF Step, UseSnapshot, ChunkAnswers, ChunkFails, DetailAnswers, ServesDetail,
     Finish, Kill, Stores, tables, hist
<1>5. ASSUME NEW r \in Runs, NEW l \in Locks, NEW off \in BOOLEAN, Begin(r, l, off)
      PROVE  UNCHANGED <<batch, vulns, last>>
  BY <1>5 DEF Begin, tables
<1>6. \/ Damage /\ last' = [l \in Locks |-> None]
      \/ UNCHANGED <<batch, vulns, last>>
      \/ \E r \in Runs : Step(r)
  BY <1>5 DEF Next, Damage, DayPasses, Publish, vars, tables, hist
<1> QED  BY <1>1, <1>2, <1>3, <1>4, <1>6

-----------------------------------------------------------------------------
LEMMA InitTrue ==
  ASSUME Init
  PROVE  IInv
<1>1. TypeOK  BY InitType
<1>2. RunsTrue
  <2>1. \A r \in Runs :
          /\ began[r] = today /\ asked[r] = <<>> /\ cached[r] = None /\ got[r] = None
    BY DEF Init
  <2>2. \A r \in Runs : Len(Listed[0][lock[r]]) \in Nat
    <3>1. 0 \in Editions  BY OsvAssumption DEF Editions
    <3> QED  BY <1>1, <3>1, OsvAssumption, LenProperties DEF TypeOK
  <2>3. today \in Nat  BY DEF Init
  <2>4. AskedTrue  BY <2>1, <2>2, <2>3 DEF AskedTrue
  <2> QED  BY <2>1, <2>4 DEF RunsTrue, CachedTrue, GotTrue
<1>3. PhasesTrue  BY DEF Init, PhasesTrue, NothingYet
<1>4. DawnTrue /\ TablesTrue /\ AloneTrue /\ LastTrue
  BY <1>1 DEF Init, DawnTrue, TablesTrue, AloneTrue, LastTrue, TypeOK
<1> QED  BY <1>1, <1>2, <1>3, <1>4 DEF IInv

LEMMA StepTrue ==
  ASSUME IInv, [Next]_vars
  PROVE  IInv'
<1>1. TypeOK /\ DawnTrue /\ TablesTrue /\ RunsTrue /\ PhasesTrue /\ AloneTrue /\ LastTrue
  BY DEF IInv
<1>2. TypeOK'  BY <1>1, TypeStep
<1>3. DawnTrue' /\ TablesTrue'  BY <1>1, <1>2, ClockStep, TablesStep
<1>4. RunsTrue'  BY <1>1, <1>2, AskedStep, CachedStep, GotStep DEF RunsTrue
<1>5. PhasesTrue' /\ AloneTrue' /\ LastTrue'
  BY <1>1, PhasesStep, AloneStep, LastStep
<1> QED  BY <1>2, <1>3, <1>4, <1>5 DEF IInv

(* Every reachable state satisfies the inductive invariant. *)
THEOREM Invariance == Spec => []IInv
<1>1. Init => IInv  BY InitTrue
<1>2. IInv /\ [Next]_vars => IInv'  BY StepTrue
<1> QED  BY <1>1, <1>2, PTL DEF Spec

(* The types of the tables, the runs and the histories (TypeOK): whatever  *)
(* the registry publishes, a stored row has one answer per package.        *)
THEOREM TypeCorrect == Spec => []TypeOK
<1>1. IInv => TypeOK  BY DEF IInv
<1> QED  BY <1>1, Invariance, PTL

(* What a run reports is, package by package and flaw by flaw, what the    *)
(* registry said of that package since the day the run counts back to:     *)
(* its own when it has no warning, the stamp's when it warns of an old     *)
(* snapshot; and one_per_family names each flaw once, under a GHSA id      *)
(* where it has one (ReportHonest).                                        *)
THEOREM HonestReport == Spec => []ReportHonest
<1>1. ASSUME IInv, NEW r \in Runs, Done(r), NEW k \in Packages(lock[r])
      PROVE  LET since == IF "old" \in warned[r] THEN began[r] - age[r] ELSE began[r]
             IN  \E e \in dawn[since]..edition :
                   NamesEachOnce(hits[r][k], Listed[e][lock[r]][k], details[r])
  <2> DEFINE since == IF "old" \in warned[r] THEN began[r] - age[r] ELSE began[r]
             e == got[r].of[k]
  <2>1. TypeOK /\ RunsTrue /\ Told(r) /\ got[r] # None
    BY <1>1 DEF IInv, PhasesTrue, Done
  <2>2. /\ got[r] \in Row /\ lock[r] \in Locks /\ began[r] \in Nat /\ got[r].at \in Nat
        /\ RowTrue(got[r], lock[r]) /\ got[r].at <= began[r]
        /\ age[r] = began[r] - got[r].at /\ ("old" \in warned[r] <=> age[r] >= 1)
    BY <2>1, OsvAssumption DEF TypeOK, RunsTrue, GotTrue, Row, Days
  <2>3. since = got[r].at
    <3>1. CASE age[r] >= 1  BY <2>2, <3>1
    <3>2. CASE ~(age[r] >= 1)
      <4>1. began[r] = got[r].at  BY <2>2, <3>2
      <4> QED  BY <2>2, <3>2, <4>1
    <3> QED  BY <3>1, <3>2
  <2>4. Packages(lock[r]) = DOMAIN got[r].of  BY <2>2, RowIds DEF RowTrue, Dated
  <2>5. e \in dawn[since]..edition  BY <1>1, <2>2, <2>3, <2>4 DEF RowTrue, Dated
  <2>6. IdsOf(got[r], k) = Listed[e][lock[r]][k]  BY <2>2 DEF IdsOf, RowTrue, Dated
  <2>7. hits[r][k] = OnePerFamily(IdsOf(got[r], k), details[r])
    BY <1>1, <2>1 DEF Told, Reported
  <2>8. NamesEachOnce(hits[r][k], IdsOf(got[r], k), details[r])
    BY <1>1, <2>1, <2>7, GotIds, FamiliesNamed
  <2> HIDE DEF since, e
  <2>9. NamesEachOnce(hits[r][k], Listed[e][lock[r]][k], details[r])  BY <2>6, <2>8
  <2>10. \E d \in dawn[since]..edition :
           NamesEachOnce(hits[r][k], Listed[d][lock[r]][k], details[r])
    BY <2>5, <2>9
  <2> QED  BY <2>10 DEF since
<1>2. IInv => ReportHonest  BY <1>1 DEF ReportHonest
<1> QED  BY <1>2, Invariance, PTL

(* A run that reports nothing because it has no answer says "skipped", and *)
(* one that reports an advisory without its details says "details", over   *)
(* any interleaving of runs, failures and damage (SkipTold).               *)
THEOREM SilenceTold == Spec => []SkipTold
<1>1. ASSUME IInv  PROVE SkipTold
  <2> SUFFICES ASSUME NEW r \in Runs, pc[r] = "done", Packages(lock[r]) # {}
               PROVE  /\ got[r] = None => "skipped" \in warned[r]
                      /\ (\E k \in DOMAIN hits[r] : \E i \in hits[r][k] : details[r][i] = None)
                           => "details" \in warned[r]
    BY DEF SkipTold
  <2>1. TypeOK /\ RunsTrue /\ Told(r)  BY <1>1 DEF IInv, PhasesTrue
  <2>2. CASE got[r] = None
    <3>1. DOMAIN hits[r] = {}  BY <2>1, <2>2 DEF Told
    <3> QED  BY <2>1, <2>2, <3>1 DEF Told
  <2>3. CASE got[r] # None
    <3>1. ASSUME NEW k \in DOMAIN hits[r], NEW i \in hits[r][k], details[r][i] = None
          PROVE  "details" \in warned[r]
      <4>1. hits[r] = Reported(r)  BY <2>1, <2>3 DEF Told
      <4>2. k \in Packages(lock[r]) /\ i \in OnePerFamily(IdsOf(got[r], k), details[r])
        BY <3>1, <4>1 DEF Reported
      <4>3. IdsOf(got[r], k) \in SUBSET Ids /\ IdsOf(got[r], k) \subseteq AllIds(got[r])
        BY <2>1, <2>3, <4>2, GotIds
      <4>4. i \in AllIds(got[r])  BY <4>2, <4>3, AmongThem
      <4>5. Unavailable(r) # {}  BY <3>1, <4>4 DEF Unavailable
      <4> QED  BY <2>1, <2>3, <4>5 DEF Told
    <3> QED  BY <2>3, <3>1
  <2> QED  BY <2>2, <2>3
<1> QED  BY <1>1, Invariance, PTL

(* A run that finds the registry unreachable at its batch request has run  *)
(* into one timeout and asks nothing more, not even for details            *)
(* (DownCostsOne).                                                         *)
THEOREM OneTimeout == Spec => []DownCostsOne
<1>1. IInv => DownCostsOne  BY DEF IInv, PhasesTrue, DownCostsOne
<1> QED  BY <1>1, Invariance, PTL

(* A run that finishes offline, beside whose reads no other run stored and *)
(* nothing was damaged, reports what the last such run over its lockfile   *)
(* did, however many days and publications lie between (Reproducible).     *)
THEOREM SameAnswerOffline == Spec => Reproducible
<1>1. ASSUME IInv, [Next]_vars, NEW r \in Runs, Finish(r), r \in alone, last[lock[r]] # None
      PROVE  hits'[r] = last[lock[r]]
  <2>1. TypeOK /\ RunsTrue /\ PhasesTrue /\ AloneTrue /\ LastTrue  BY <1>1 DEF IInv
  <2>2. hits'[r] = Reported(r) /\ lock[r] \in Locks  BY <1>1, <2>1 DEF Finish, TypeOK
  <2>3. Reported(r) = FromTables(lock[r])  BY <1>1, <2>1, ReportsTables
  <2> QED  BY <1>1, <2>1, <2>2, <2>3 DEF LastTrue
<1>2. IInv /\ [Next]_vars =>
        [\A r \in Runs : Finish(r) /\ offline[r] /\ r \in alone /\ last[lock[r]] # None =>
           hits'[r] = last[lock[r]]]_vars
  BY <1>1
<1> QED  BY <1>2, Invariance, PTL DEF Spec, Reproducible
=============================================================================
