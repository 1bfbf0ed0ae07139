-------------------------- MODULE MigrationsProofs --------------------------
(***************************************************************************)
(* supabase-table-without-rls tells the truth of every repository: however *)
(* many migrations, statements and comments there are, and in whichever    *)
(* spelling.                                                               *)
(*                                                                         *)
(* Both the text of a migration (FlattenSeq) and the reader of it (Reader) *)
(* are defined by recursion.  Each induction on them is on the least       *)
(* number for which the claim fails (LeastNumber).                         *)
(*                                                                         *)
(* What one item does to the reader that meets it in code is worked out    *)
(* token by token (ReadsCode to ReadsBody); the items of a file follow one *)
(* another, so the reader is in code at each (TextLeaves), and a file      *)
(* states what its items say (EntriesAreSaid).  The rest is about the      *)
(* first of several creates.                                               *)
(***************************************************************************)
EXTENDS MigrationsPart, FiniteSetTheorems, SequenceTheorems, WellFoundedInduction, TLAPS

CONSTANT Letters   \* what the identifiers of a repository are made of

(* Every set of numbers has a least one. *)
LEMMA LeastNumber ==
  ASSUME NEW S \in SUBSET Nat, S # {}
  PROVE  \E n \in S : \A m \in S : n <= m
<1>1. PICK n \in S : \A m \in S : ~ (<<m, n>> \in OpToRel(<, Nat))
  BY NatLessThanWellFounded, WFMin
<1>2. ASSUME NEW m \in S  PROVE n <= m
  <2>1. ~ (<<m, n>> \in {ss \in Nat \X Nat : ss[1] < ss[2]})
    BY <1>1 DEF OpToRel
  <2> QED  BY <2>1
<1> QED  BY <1>2

-----------------------------------------------------------------------------
(* FlattenSeq, which is defined by recursion on the number of sequences:   *)
(* g[i] is what the first i of the sequences are end to end.               *)
Flattens(g, seqs, n) ==
  g = [i \in 1..n |-> IF i = 1 THEN seqs[i] ELSE g[i - 1] \o seqs[i]]

LEMMA FlattenExists ==
  ASSUME NEW seqs, NEW n \in Nat
  PROVE  \E g : Flattens(g, seqs, n)
<1> DEFINE bad == {m \in Nat : ~ \E g : Flattens(g, seqs, m)}
<1> SUFFICES ASSUME bad # {}  PROVE FALSE
  OBVIOUS
<1>1. PICK m \in bad : \A l \in bad : m <= l  BY LeastNumber
<1>2. CASE m = 0
  <2> DEFINE g == [i \in 1..0 |-> seqs[i]]
  <2>1. g = [i \in 1..0 |-> IF i = 1 THEN seqs[i] ELSE g[i - 1] \o seqs[i]]
    OBVIOUS
  <2>2. Flattens(g, seqs, 0)  BY <2>1 DEF Flattens
  <2> QED  BY <1>1, <1>2, <2>2
<1>3. CASE m # 0
  <2>1. m - 1 \in Nat /\ m - 1 \notin bad  BY <1>1, <1>3
  <2>2. PICK f : Flattens(f, seqs, m - 1)  BY <2>1
  <2> DEFINE g == [i \in 1..m |-> IF i = 1 THEN seqs[i] ELSE f[i - 1] \o seqs[i]]
  <2>3. ASSUME NEW i \in 1..m, i # 1  PROVE g[i - 1] = f[i - 1]
    <3>1. i - 1 \in 1..m /\ i - 1 \in 1..(m - 1)  BY <1>1, <2>3
    <3>2. f[i - 1] = IF i - 1 = 1 THEN seqs[i - 1] ELSE f[(i - 1) - 1] \o seqs[i - 1]
      BY <2>2, <3>1 DEF Flattens
    <3> QED  BY <3>1, <3>2
  <2>4. g = [i \in 1..m |-> IF i = 1 THEN seqs[i] ELSE g[i - 1] \o seqs[i]]
    <3> HIDE DEF g
    <3>1. \A i \in 1..m : (IF i = 1 THEN seqs[i] ELSE f[i - 1] \o seqs[i])
                             = IF i = 1 THEN seqs[i] ELSE g[i - 1] \o seqs[i]
      BY <2>3
    <3> QED  BY <3>1 DEF g
  <2> HIDE DEF g
  <2>5. Flattens(g, seqs, m)  BY <2>4 DEF Flattens
  <2> QED  BY <1>1, <2>5
<1> QED  BY <1>2, <1>3

LEMMA FlattenUnfolds ==
  ASSUME NEW seqs, Len(seqs) \in Nat \ {0}
  PROVE  \E g : Flattens(g, seqs, Len(seqs)) /\ Sql!FlattenSeq(seqs) = g[Len(seqs)]
<1> DEFINE flat == CHOOSE g : g = [i \in 1..Len(seqs) |->
                     IF i = 1 THEN seqs[i] ELSE g[i - 1] \o seqs[i]]
<1>1. flat = [i \in 1..Len(seqs) |-> IF i = 1 THEN seqs[i] ELSE flat[i - 1] \o seqs[i]]
  <2>1. \E g : g = [i \in 1..Len(seqs) |-> IF i = 1 THEN seqs[i] ELSE g[i - 1] \o seqs[i]]
    BY FlattenExists DEF Flattens
  <2> QED  BY <2>1
<1>2. Sql!FlattenSeq(seqs) = flat[Len(seqs)]  BY DEF Sql!FlattenSeq
<1> HIDE DEF flat
<1> QED  BY <1>1, <1>2 DEF Flattens

LEMMA FlattenTyped ==
  ASSUME NEW S, NEW seqs, NEW n \in Nat, \A i \in 1..n : seqs[i] \in Seq(S),
         NEW g, Flattens(g, seqs, n), NEW i \in 1..n
  PROVE  g[i] \in Seq(S)
<1> DEFINE bad == {j \in 1..n : g[j] \notin Seq(S)}
<1> SUFFICES ASSUME bad # {}  PROVE FALSE
  OBVIOUS
<1>1. PICK j \in bad : \A l \in bad : j <= l
  <2>1. bad \in SUBSET Nat  OBVIOUS
  <2> HIDE DEF bad
  <2> QED  BY <2>1, LeastNumber
<1>2. g[j] = IF j = 1 THEN seqs[j] ELSE g[j - 1] \o seqs[j]  BY <1>1 DEF Flattens
<1>3. j # 1 => j - 1 \in 1..n /\ j - 1 \notin bad  BY <1>1
<1>4. j # 1 => g[j - 1] \in Seq(S)  BY <1>3
<1>5. j # 1 => g[j - 1] \o seqs[j] \in Seq(S)  BY <1>1, <1>4, ConcatProperties
<1> QED  BY <1>1, <1>2, <1>5


(* Where the sequences stand in what they are end to end. *)
Offset(g, i) == IF i = 1 THEN 0 ELSE Len(g[i - 1])

Places(g, seqs, k) ==
  /\ \A i \in 1..k : \A j \in 1..Len(seqs[i]) :
       Offset(g, i) + j \in 1..Len(g[k]) /\ g[k][Offset(g, i) + j] = seqs[i][j]
  /\ \A x \in 1..Len(g[k]) : \E i \in 1..k : \E j \in 1..Len(seqs[i]) : x = Offset(g, i) + j

LEMMA FlattenPlaces ==
  ASSUME NEW S, NEW seqs, NEW n \in Nat, \A i \in 1..n : seqs[i] \in Seq(S),
         NEW g, Flattens(g, seqs, n), NEW k \in 1..n
  PROVE  Places(g, seqs, k)
<1>0. \A i \in 1..n : g[i] \in Seq(S) /\ Len(g[i]) \in Nat /\ Len(seqs[i]) \in Nat
  BY FlattenTyped, LenProperties
<1> DEFINE bad == {l \in 1..n : ~ Places(g, seqs, l)}
<1> SUFFICES ASSUME bad # {}  PROVE FALSE
  OBVIOUS
<1>1. PICK l \in bad : \A m \in bad : l <= m
  <2>1. bad \in SUBSET Nat  OBVIOUS
  <2> HIDE DEF bad
  <2> QED  BY <2>1, LeastNumber
<1>2. g[l] = IF l = 1 THEN seqs[l] ELSE g[l - 1] \o seqs[l]  BY <1>1 DEF Flattens
<1>3. CASE l = 1
  <2>1. g[l] = seqs[l] /\ Offset(g, l) = 0  BY <1>2, <1>3 DEF Offset
  <2>2. \A j \in 1..Len(seqs[l]) : 0 + j = j  BY <1>0, <1>1
  <2> QED  BY <1>0, <1>1, <1>3, <2>1, <2>2 DEF Places
<1>4. CASE l # 1
  <2>1. l - 1 \in 1..n /\ l - 1 \notin bad  BY <1>1, <1>4
  <2>2. PICK s, t : s = g[l - 1] /\ t = seqs[l]  OBVIOUS
  <2>3. s \in Seq(S) /\ t \in Seq(S) /\ Len(s) \in Nat /\ Len(t) \in Nat
    BY <1>0, <1>1, <2>1, <2>2
  <2>4. /\ g[l] = s \o t /\ Len(g[l]) = Len(s) + Len(t)
        /\ \A x \in 1..(Len(s) + Len(t)) : g[l][x] = IF x <= Len(s) THEN s[x] ELSE t[x - Len(s)]
    <3>1. g[l] = s \o t  BY <1>2, <1>4, <2>2
    <3> QED  BY <2>3, <3>1, ConcatProperties
  <2>5. Offset(g, l) = Len(s)  BY <1>4, <2>2 DEF Offset
  <2>6. Places(g, seqs, l - 1)  BY <2>1
  <2>7. ASSUME NEW i \in 1..l, NEW j \in 1..Len(seqs[i])
        PROVE  Offset(g, i) + j \in 1..Len(g[l]) /\ g[l][Offset(g, i) + j] = seqs[i][j]
    <3>1. CASE i = l
      <4>1. j \in 1..Len(t) /\ seqs[i][j] = t[j]  BY <2>2, <2>7, <3>1
      <4>2. Len(s) + j \in 1..(Len(s) + Len(t)) /\ ~ (Len(s) + j <= Len(s))
            /\ (Len(s) + j) - Len(s) = j
        BY <2>3, <4>1
      <4> QED  BY <2>4, <2>5, <3>1, <4>1, <4>2
    <3>2. CASE i # l
      <4>1. i \in 1..(l - 1)  BY <1>1, <2>7, <3>2
      <4>2. Offset(g, i) + j \in 1..Len(s) /\ s[Offset(g, i) + j] = seqs[i][j]
        BY <2>2, <2>6, <2>7, <4>1 DEF Places
      <4> QED  BY <2>3, <2>4, <4>2
    <3> QED  BY <3>1, <3>2
  <2>8. ASSUME NEW x \in 1..Len(g[l])
        PROVE  \E i \in 1..l : \E j \in 1..Len(seqs[i]) : x = Offset(g, i) + j
    <3>1. CASE x <= Len(s)
      <4>1. x \in 1..Len(s)  BY <2>3, <2>4, <2>8, <3>1
      <4>2. PICK i \in 1..(l - 1) : \E j \in 1..Len(seqs[i]) : x = Offset(g, i) + j
        BY <2>2, <2>6, <4>1 DEF Places
      <4>3. i \in 1..l  BY <1>1, <4>2
      <4> QED  BY <4>2, <4>3
    <3>2. CASE ~ (x <= Len(s))
      <4>1. x - Len(s) \in 1..Len(t) /\ x = Len(s) + (x - Len(s))
        BY <2>3, <2>4, <2>8, <3>2
      <4>2. l \in 1..l  BY <1>1
      <4>3. \E j \in 1..Len(seqs[l]) : x = Offset(g, l) + j  BY <2>2, <2>5, <4>1
      <4> QED  BY <4>2, <4>3
    <3> QED  BY <3>1, <3>2
  <2>9. Places(g, seqs, l)  BY <2>7, <2>8 DEF Places
  <2> QED  BY <1>1, <2>9
<1> QED  BY <1>3, <1>4

-----------------------------------------------------------------------------
(* The reader of a text, which is defined by recursion on its tokens. *)
Reads(at, text, n) ==
  at = [i \in 0..n |-> IF i = 0 THEN Sql!InCode ELSE Sql!Step(at[i - 1], text[i])]

LEMMA ReadsExist ==
  ASSUME NEW text, NEW n \in Nat
  PROVE  \E at : Reads(at, text, n)
<1> DEFINE bad == {m \in Nat : ~ \E at : Reads(at, text, m)}
<1> SUFFICES ASSUME bad # {}  PROVE FALSE
  OBVIOUS
<1>1. PICK m \in bad : \A l \in bad : m <= l  BY LeastNumber
<1>2. CASE m = 0
  <2>1. PICK at : at = [i \in 0..0 |-> Sql!InCode]  OBVIOUS
  <2>2. Reads(at, text, 0)  BY <2>1 DEF Reads
  <2> QED  BY <1>1, <1>2, <2>2
<1>3. CASE m # 0
  <2>1. m - 1 \in Nat /\ m - 1 \notin bad  BY <1>1, <1>3
  <2>2. PICK f : Reads(f, text, m - 1)  BY <2>1
  <2>3. PICK at : at = [i \in 0..m |-> IF i = 0 THEN Sql!InCode ELSE Sql!Step(f[i - 1], text[i])]
    OBVIOUS
  <2>4. ASSUME NEW i \in 0..m, i # 0  PROVE f[i - 1] = at[i - 1]
    <3>1. i - 1 \in 0..m /\ i - 1 \in 0..(m - 1)  BY <1>1, <2>4
    <3> QED  BY <2>2, <2>3, <3>1 DEF Reads
  <2>5. Reads(at, text, m)  BY <2>3, <2>4 DEF Reads
  <2> QED  BY <1>1, <2>5
<1> QED  BY <1>2, <1>3

LEMMA ReaderUnfolds ==
  ASSUME NEW text, Len(text) \in Nat
  PROVE  /\ Sql!Reader(text)[0] = Sql!InCode
         /\ \A i \in 1..Len(text) : Sql!Reader(text)[i] = Sql!Step(Sql!Reader(text)[i - 1], text[i])
<1> DEFINE at == CHOOSE f : f = [i \in 0..Len(text) |->
                   IF i = 0 THEN Sql!InCode ELSE Sql!Step(f[i - 1], text[i])]
<1>1. at = [i \in 0..Len(text) |-> IF i = 0 THEN Sql!InCode ELSE Sql!Step(at[i - 1], text[i])]
  <2>1. \E f : f = [i \in 0..Len(text) |->
                    IF i = 0 THEN Sql!InCode ELSE Sql!Step(f[i - 1], text[i])]
    BY ReadsExist DEF Reads
  <2> QED  BY <2>1
<1>2. Sql!Reader(text) = at  BY DEF Sql!Reader
<1> HIDE DEF at
<1> QED  BY <1>1, <1>2

-----------------------------------------------------------------------------
(* What the reader makes of one item. *)
IsStatement(st) == st.kind \in {"create", "enable"}

LEMMA StepsInCode ==
  ASSUME NEW st, IsStatement(st)
  PROVE  /\ Sql!Step(Sql!InCode, st) = Sql!InCode
         /\ Sql!Step(Sql!InCode, Sql!Mark("newline")) = Sql!InCode
         /\ Sql!Step(Sql!InCode, Sql!Mark("dash")) = Sql!At("line", 0, "")
         /\ Sql!Step(Sql!InCode, Sql!Mark("open")) = Sql!At("block", 1, "")
         /\ Sql!Step(Sql!InCode, Sql!Mark("quote")) = Sql!At("quote", 0, "")
         /\ Sql!Step(Sql!InCode, Sql!Dollar("x")) = Sql!At("dollar", 0, "x")
BY DEF Sql!Step, Sql!InCode, Sql!At, Sql!Mark, Sql!Dollar, IsStatement

LEMMA StepsInComments ==
  ASSUME NEW st, IsStatement(st)
  PROVE  /\ Sql!Step(Sql!At("line", 0, ""), Sql!Mark("quote")) = Sql!At("line", 0, "")
         /\ Sql!Step(Sql!At("line", 0, ""), Sql!Mark("open")) = Sql!At("line", 0, "")
         /\ Sql!Step(Sql!At("line", 0, ""), st) = Sql!At("line", 0, "")
         /\ Sql!Step(Sql!At("line", 0, ""), Sql!Mark("newline")) = Sql!InCode
         /\ Sql!Step(Sql!At("block", 1, ""), Sql!Mark("open")) = Sql!At("block", 2, "")
         /\ Sql!Step(Sql!At("block", 2, ""), Sql!Mark("quote")) = Sql!At("block", 2, "")
         /\ Sql!Step(Sql!At("block", 2, ""), Sql!Mark("newline")) = Sql!At("block", 2, "")
         /\ Sql!Step(Sql!At("block", 2, ""), Sql!Mark("close")) = Sql!At("block", 1, "")
         /\ Sql!Step(Sql!At("block", 1, ""), st) = Sql!At("block", 1, "")
         /\ Sql!Step(Sql!At("block", 1, ""), Sql!Dollar("x")) = Sql!At("block", 1, "")
         /\ Sql!Step(Sql!At("block", 1, ""), Sql!Mark("close")) = Sql!InCode
<1>1. Sql!Step(Sql!At("line", 0, ""), Sql!Mark("quote")) = Sql!At("line", 0, "")
  BY DEF Sql!Step, Sql!InCode, Sql!At, Sql!Mark, Sql!Dollar, IsStatement
<1>2. Sql!Step(Sql!At("line", 0, ""), Sql!Mark("open")) = Sql!At("line", 0, "")
  BY DEF Sql!Step, Sql!InCode, Sql!At, Sql!Mark, Sql!Dollar, IsStatement
<1>3. Sql!Step(Sql!At("line", 0, ""), st) = Sql!At("line", 0, "")
  BY DEF Sql!Step, Sql!InCode, Sql!At, Sql!Mark, Sql!Dollar, IsStatement
<1>4. Sql!Step(Sql!At("line", 0, ""), Sql!Mark("newline")) = Sql!InCode
  BY DEF Sql!Step, Sql!InCode, Sql!At, Sql!Mark, Sql!Dollar, IsStatement
<1>5. Sql!Step(Sql!At("block", 1, ""), Sql!Mark("open")) = Sql!At("block", 2, "")
  BY DEF Sql!Step, Sql!InCode, Sql!At, Sql!Mark, Sql!Dollar, IsStatement
<1>6. Sql!Step(Sql!At("block", 2, ""), Sql!Mark("quote")) = Sql!At("block", 2, "")
  BY DEF Sql!Step, Sql!InCode, Sql!At, Sql!Mark, Sql!Dollar, IsStatement
<1>7. Sql!Step(Sql!At("block", 2, ""), Sql!Mark("newline")) = Sql!At("block", 2, "")
  BY DEF Sql!Step, Sql!InCode, Sql!At, Sql!Mark, Sql!Dollar, IsStatement
<1>8. Sql!Step(Sql!At("block", 2, ""), Sql!Mark("close")) = Sql!At("block", 1, "")
  BY DEF Sql!Step, Sql!InCode, Sql!At, Sql!Mark, Sql!Dollar, IsStatement
<1>9. Sql!Step(Sql!At("block", 1, ""), st) = Sql!At("block", 1, "")
  BY DEF Sql!Step, Sql!InCode, Sql!At, Sql!Mark, Sql!Dollar, IsStatement
<1>10. Sql!Step(Sql!At("block", 1, ""), Sql!Dollar("x")) = Sql!At("block", 1, "")
  BY DEF Sql!Step, Sql!InCode, Sql!At, Sql!Mark, Sql!Dollar, IsStatement
<1>11. Sql!Step(Sql!At("block", 1, ""), Sql!Mark("close")) = Sql!InCode
  BY DEF Sql!Step, Sql!InCode, Sql!At, Sql!Mark, Sql!Dollar, IsStatement
<1> QED  BY <1>1, <1>2, <1>3, <1>4, <1>5, <1>6, <1>7, <1>8, <1>9, <1>10, <1>11

LEMMA StepsInLiterals ==
  ASSUME NEW st, IsStatement(st)
  PROVE  /\ Sql!Step(Sql!At("quote", 0, ""), Sql!Mark("open")) = Sql!At("quote", 0, "")
         /\ Sql!Step(Sql!At("quote", 0, ""), Sql!Mark("dash")) = Sql!At("quote", 0, "")
         /\ Sql!Step(Sql!At("quote", 0, ""), Sql!Mark("quote")) = Sql!InCode
         /\ Sql!Step(Sql!At("dollar", 0, "x"), Sql!Mark("quote")) = Sql!At("dollar", 0, "x")
         /\ Sql!Step(Sql!At("dollar", 0, "x"), Sql!Mark("open")) = Sql!At("dollar", 0, "x")
         /\ Sql!Step(Sql!At("dollar", 0, "x"), Sql!Dollar("")) = Sql!At("dollar", 0, "x")
         /\ Sql!Step(Sql!At("dollar", 0, "x"), st) = Sql!At("dollar", 0, "x")
         /\ Sql!Step(Sql!At("dollar", 0, "x"), Sql!Mark("newline")) = Sql!At("dollar", 0, "x")
         /\ Sql!Step(Sql!At("dollar", 0, "x"), Sql!Dollar("x")) = Sql!InCode
<1>1. Sql!Step(Sql!At("quote", 0, ""), Sql!Mark("open")) = Sql!At("quote", 0, "")
  BY DEF Sql!Step, Sql!InCode, Sql!At, Sql!Mark, Sql!Dollar, IsStatement
<1>2. Sql!Step(Sql!At("quote", 0, ""), Sql!Mark("dash")) = Sql!At("quote", 0, "")
  BY DEF Sql!Step, Sql!InCode, Sql!At, Sql!Mark, Sql!Dollar, IsStatement
<1>3. Sql!Step(Sql!At("quote", 0, ""), Sql!Mark("quote")) = Sql!InCode
  BY DEF Sql!Step, Sql!InCode, Sql!At, Sql!Mark, Sql!Dollar, IsStatement
<1>4. Sql!Step(Sql!At("dollar", 0, "x"), Sql!Mark("quote")) = Sql!At("dollar", 0, "x")
  BY DEF Sql!Step, Sql!InCode, Sql!At, Sql!Mark, Sql!Dollar, IsStatement
<1>5. Sql!Step(Sql!At("dollar", 0, "x"), Sql!Mark("open")) = Sql!At("dollar", 0, "x")
  BY DEF Sql!Step, Sql!InCode, Sql!At, Sql!Mark, Sql!Dollar, IsStatement
<1>6. Sql!Step(Sql!At("dollar", 0, "x"), Sql!Dollar("")) = Sql!At("dollar", 0, "x")
  BY DEF Sql!Step, Sql!InCode, Sql!At, Sql!Mark, Sql!Dollar, IsStatement
<1>7. Sql!Step(Sql!At("dollar", 0, "x"), st) = Sql!At("dollar", 0, "x")
  BY DEF Sql!Step, Sql!InCode, Sql!At, Sql!Mark, Sql!Dollar, IsStatement
<1>8. Sql!Step(Sql!At("dollar", 0, "x"), Sql!Mark("newline")) = Sql!At("dollar", 0, "x")
  BY DEF Sql!Step, Sql!InCode, Sql!At, Sql!Mark, Sql!Dollar, IsStatement
<1>9. Sql!Step(Sql!At("dollar", 0, "x"), Sql!Dollar("x")) = Sql!InCode
  BY DEF Sql!Step, Sql!InCode, Sql!At, Sql!Mark, Sql!Dollar, IsStatement
<1> QED  BY <1>1, <1>2, <1>3, <1>4, <1>5, <1>6, <1>7, <1>8, <1>9

Within == {"code", "line", "block", "string", "body"}
Hidden == {"line", "block"}

(* Token j of a text is a statement that the reader at leaves. *)
Remains(text, at, j) == IsStatement(text[j]) /\ at[j - 1].mode \notin Hidden

(* An item leaves its statement, unless it stands in a comment, and nothing *)
(* else; and the reader is in code after it.                                *)
ItemLeaves(item, text, at, p) ==
  /\ at[p + Len(Sql!Written(item))] = Sql!InCode
  /\ \A j \in 1..Len(Sql!Written(item)) :
       IsStatement(text[p + j]) /\ at[p + (j - 1)].mode \notin Hidden =>
         text[p + j] = item.statement /\ item.within \notin Hidden
  /\ item.within \notin Hidden =>
       \E j \in 1..Len(Sql!Written(item)) :
         /\ IsStatement(text[p + j]) /\ at[p + (j - 1)].mode \notin Hidden
         /\ text[p + j] = item.statement

LEMMA NoMarkIsStatement ==
  /\ ~ IsStatement(Sql!Mark("newline")) /\ ~ IsStatement(Sql!Mark("dash"))
  /\ ~ IsStatement(Sql!Mark("open")) /\ ~ IsStatement(Sql!Mark("close"))
  /\ ~ IsStatement(Sql!Mark("quote"))
  /\ ~ IsStatement(Sql!Dollar("x")) /\ ~ IsStatement(Sql!Dollar(""))
BY DEF IsStatement, Sql!Mark, Sql!Dollar

LEMMA Modes ==
  /\ Sql!InCode.mode \notin Hidden /\ Sql!At("quote", 0, "").mode \notin Hidden
  /\ Sql!At("dollar", 0, "x").mode \notin Hidden
  /\ Sql!At("line", 0, "").mode \in Hidden /\ Sql!At("block", 1, "").mode \in Hidden
BY DEF Sql!InCode, Sql!At, Hidden


LEMMA ReadsCode ==
  ASSUME NEW st, IsStatement(st), NEW at, NEW text, NEW p \in Nat, at[p] = Sql!InCode,
         NEW item, item.within = "code", item.statement = st,
         \A j \in 1..Len(Sql!Written(item)) :
           /\ text[p + j] = Sql!Written(item)[j]
           /\ at[p + j] = Sql!Step(at[p + (j - 1)], Sql!Written(item)[j])
  PROVE  ItemLeaves(item, text, at, p)
<1>1. Sql!Written(item) =
        <<st, Sql!Mark("newline")>>
  BY DEF Sql!Written
<1>2. Len(Sql!Written(item)) = 2
  BY <1>1
<1>3. /\ Sql!Written(item)[1] = st
      /\ Sql!Written(item)[2] = Sql!Mark("newline")
  BY <1>1
<1>4. text[p + 1] = st /\ at[p + 1] = Sql!InCode
  <2>1. 1 \in 1..Len(Sql!Written(item)) /\ p + (1 - 1) = p
    BY <1>2
  <2>2. text[p + 1] = st /\ at[p + 1] = Sql!Step(at[p], st)
    BY <1>3, <2>1
  <2> QED  BY <2>2, StepsInCode
<1>5. text[p + 2] = Sql!Mark("newline") /\ at[p + 2] = Sql!InCode
  <2>1. 2 \in 1..Len(Sql!Written(item)) /\ p + (2 - 1) = p + 1
    BY <1>2
  <2>2. text[p + 2] = Sql!Mark("newline") /\ at[p + 2] = Sql!Step(at[p + 1], Sql!Mark("newline"))
    BY <1>3, <2>1
  <2> QED  BY <2>2, <1>4, StepsInCode
<1>6. \A j \in 1..Len(Sql!Written(item)) : IsStatement(text[p + j]) => j = 1
  <2>1. \A j \in 1..2 : j = 1 \/ j = 2
    OBVIOUS
  <2> QED  BY <1>2, <2>1, NoMarkIsStatement,
           <1>4, <1>5
<1>7. at[p + (1 - 1)].mode \notin Hidden
  <2>1. p + (1 - 1) = p
    OBVIOUS
  <2> QED  BY <2>1, Modes
<1>8. 1 \in 1..Len(Sql!Written(item)) /\ at[p + Len(Sql!Written(item))] = Sql!InCode
  BY <1>2, <1>5
<1>9. item.within \notin Hidden
  BY DEF Hidden
<1> QED
  BY <1>2, <1>6, <1>7, <1>8, <1>9, <1>4 DEF ItemLeaves, Remains

LEMMA ReadsLine ==
  ASSUME NEW st, IsStatement(st), NEW at, NEW text, NEW p \in Nat, at[p] = Sql!InCode,
         NEW item, item.within = "line", item.statement = st,
         \A j \in 1..Len(Sql!Written(item)) :
           /\ text[p + j] = Sql!Written(item)[j]
           /\ at[p + j] = Sql!Step(at[p + (j - 1)], Sql!Written(item)[j])
  PROVE  ItemLeaves(item, text, at, p)
<1>1. Sql!Written(item) =
        <<Sql!Mark("dash"), Sql!Mark("quote"), Sql!Mark("open"), st, Sql!Mark("newline")>>
  BY DEF Sql!Written
<1>2. Len(Sql!Written(item)) = 5
  BY <1>1
<1>3. /\ Sql!Written(item)[1] = Sql!Mark("dash")
      /\ Sql!Written(item)[2] = Sql!Mark("quote")
      /\ Sql!Written(item)[3] = Sql!Mark("open")
      /\ Sql!Written(item)[4] = st
      /\ Sql!Written(item)[5] = Sql!Mark("newline")
  BY <1>1
<1>4. text[p + 1] = Sql!Mark("dash") /\ at[p + 1] = Sql!At("line", 0, "")
  <2>1. 1 \in 1..Len(Sql!Written(item)) /\ p + (1 - 1) = p
    BY <1>2
  <2>2. text[p + 1] = Sql!Mark("dash") /\ at[p + 1] = Sql!Step(at[p], Sql!Mark("dash"))
    BY <1>3, <2>1
  <2> QED  BY <2>2, StepsInCode
<1>5. text[p + 2] = Sql!Mark("quote") /\ at[p + 2] = Sql!At("line", 0, "")
  <2>1. 2 \in 1..Len(Sql!Written(item)) /\ p + (2 - 1) = p + 1
    BY <1>2
  <2>2. text[p + 2] = Sql!Mark("quote") /\ at[p + 2] = Sql!Step(at[p + 1], Sql!Mark("quote"))
    BY <1>3, <2>1
  <2> QED  BY <2>2, <1>4, StepsInComments
<1>6. text[p + 3] = Sql!Mark("open") /\ at[p + 3] = Sql!At("line", 0, "")
  <2>1. 3 \in 1..Len(Sql!Written(item)) /\ p + (3 - 1) = p + 2
    BY <1>2
  <2>2. text[p + 3] = Sql!Mark("open") /\ at[p + 3] = Sql!Step(at[p + 2], Sql!Mark("open"))
    BY <1>3, <2>1
  <2> QED  BY <2>2, <1>5, StepsInComments
<1>7. text[p + 4] = st /\ at[p + 4] = Sql!At("line", 0, "")
  <2>1. 4 \in 1..Len(Sql!Written(item)) /\ p + (4 - 1) = p + 3
    BY <1>2
  <2>2. text[p + 4] = st /\ at[p + 4] = Sql!Step(at[p + 3], st)
    BY <1>3, <2>1
  <2> QED  BY <2>2, <1>6, StepsInComments
<1>8. text[p + 5] = Sql!Mark("newline") /\ at[p + 5] = Sql!InCode
  <2>1. 5 \in 1..Len(Sql!Written(item)) /\ p + (5 - 1) = p + 4
    BY <1>2
  <2>2. text[p + 5] = Sql!Mark("newline") /\ at[p + 5] = Sql!Step(at[p + 4], Sql!Mark("newline"))
    BY <1>3, <2>1
  <2> QED  BY <2>2, <1>7, StepsInComments
<1>9. \A j \in 1..Len(Sql!Written(item)) : IsStatement(text[p + j]) => j = 4
  <2>1. \A j \in 1..5 : j = 1 \/ j = 2 \/ j = 3 \/ j = 4 \/ j = 5
    OBVIOUS
  <2> QED  BY <1>2, <2>1, NoMarkIsStatement,
           <1>4, <1>5, <1>6, <1>7, <1>8
<1>10. at[p + (4 - 1)].mode \in Hidden
  <2>1. p + (4 - 1) = p + 3
    OBVIOUS
  <2> QED  BY <2>1, <1>6, Modes
<1>11. 4 \in 1..Len(Sql!Written(item)) /\ at[p + Len(Sql!Written(item))] = Sql!InCode
  BY <1>2, <1>8
<1>12. item.within \in Hidden
  BY DEF Hidden
<1> QED
  BY <1>2, <1>9, <1>10, <1>11, <1>12, <1>7 DEF ItemLeaves, Remains

LEMMA ReadsBlock ==
  ASSUME NEW st, IsStatement(st), NEW at, NEW text, NEW p \in Nat, at[p] = Sql!InCode,
         NEW item, item.within = "block", item.statement = st,
         \A j \in 1..Len(Sql!Written(item)) :
           /\ text[p + j] = Sql!Written(item)[j]
           /\ at[p + j] = Sql!Step(at[p + (j - 1)], Sql!Written(item)[j])
  PROVE  ItemLeaves(item, text, at, p)
<1>1. Sql!Written(item) =
        <<Sql!Mark("open"), Sql!Mark("open"), Sql!Mark("quote"), Sql!Mark("newline"),
          Sql!Mark("close"), st, Sql!Dollar("x"), Sql!Mark("close"), Sql!Mark("newline")>>
  BY DEF Sql!Written
<1>2. Len(Sql!Written(item)) = 9
  BY <1>1
<1>3. /\ Sql!Written(item)[1] = Sql!Mark("open")
      /\ Sql!Written(item)[2] = Sql!Mark("open")
      /\ Sql!Written(item)[3] = Sql!Mark("quote")
      /\ Sql!Written(item)[4] = Sql!Mark("newline")
      /\ Sql!Written(item)[5] = Sql!Mark("close")
      /\ Sql!Written(item)[6] = st
      /\ Sql!Written(item)[7] = Sql!Dollar("x")
      /\ Sql!Written(item)[8] = Sql!Mark("close")
      /\ Sql!Written(item)[9] = Sql!Mark("newline")
  BY <1>1
<1>4. text[p + 1] = Sql!Mark("open") /\ at[p + 1] = Sql!At("block", 1, "")
  <2>1. 1 \in 1..Len(Sql!Written(item)) /\ p + (1 - 1) = p
    BY <1>2
  <2>2. text[p + 1] = Sql!Mark("open") /\ at[p + 1] = Sql!Step(at[p], Sql!Mark("open"))
    BY <1>3, <2>1
  <2> QED  BY <2>2, StepsInCode
<1>5. text[p + 2] = Sql!Mark("open") /\ at[p + 2] = Sql!At("block", 2, "")
  <2>1. 2 \in 1..Len(Sql!Written(item)) /\ p + (2 - 1) = p + 1
    BY <1>2
  <2>2. text[p + 2] = Sql!Mark("open") /\ at[p + 2] = Sql!Step(at[p + 1], Sql!Mark("open"))
    BY <1>3, <2>1
  <2> QED  BY <2>2, <1>4, StepsInComments
<1>6. text[p + 3] = Sql!Mark("quote") /\ at[p + 3] = Sql!At("block", 2, "")
  <2>1. 3 \in 1..Len(Sql!Written(item)) /\ p + (3 - 1) = p + 2
    BY <1>2
  <2>2. text[p + 3] = Sql!Mark("quote") /\ at[p + 3] = Sql!Step(at[p + 2], Sql!Mark("quote"))
    BY <1>3, <2>1
  <2> QED  BY <2>2, <1>5, StepsInComments
<1>7. text[p + 4] = Sql!Mark("newline") /\ at[p + 4] = Sql!At("block", 2, "")
  <2>1. 4 \in 1..Len(Sql!Written(item)) /\ p + (4 - 1) = p + 3
    BY <1>2
  <2>2. text[p + 4] = Sql!Mark("newline") /\ at[p + 4] = Sql!Step(at[p + 3], Sql!Mark("newline"))
    BY <1>3, <2>1
  <2> QED  BY <2>2, <1>6, StepsInComments
<1>8. text[p + 5] = Sql!Mark("close") /\ at[p + 5] = Sql!At("block", 1, "")
  <2>1. 5 \in 1..Len(Sql!Written(item)) /\ p + (5 - 1) = p + 4
    BY <1>2
  <2>2. text[p + 5] = Sql!Mark("close") /\ at[p + 5] = Sql!Step(at[p + 4], Sql!Mark("close"))
    BY <1>3, <2>1
  <2> QED  BY <2>2, <1>7, StepsInComments
<1>9. text[p + 6] = st /\ at[p + 6] = Sql!At("block", 1, "")
  <2>1. 6 \in 1..Len(Sql!Written(item)) /\ p + (6 - 1) = p + 5
    BY <1>2
  <2>2. text[p + 6] = st /\ at[p + 6] = Sql!Step(at[p + 5], st)
    BY <1>3, <2>1
  <2> QED  BY <2>2, <1>8, StepsInComments
<1>10. text[p + 7] = Sql!Dollar("x") /\ at[p + 7] = Sql!At("block", 1, "")
  <2>1. 7 \in 1..Len(Sql!Written(item)) /\ p + (7 - 1) = p + 6
    BY <1>2
  <2>2. text[p + 7] = Sql!Dollar("x") /\ at[p + 7] = Sql!Step(at[p + 6], Sql!Dollar("x"))
    BY <1>3, <2>1
  <2> QED  BY <2>2, <1>9, StepsInComments
<1>11. text[p + 8] = Sql!Mark("close") /\ at[p + 8] = Sql!InCode
  <2>1. 8 \in 1..Len(Sql!Written(item)) /\ p + (8 - 1) = p + 7
    BY <1>2
  <2>2. text[p + 8] = Sql!Mark("close") /\ at[p + 8] = Sql!Step(at[p + 7], Sql!Mark("close"))
    BY <1>3, <2>1
  <2> QED  BY <2>2, <1>10, StepsInComments
<1>12. text[p + 9] = Sql!Mark("newline") /\ at[p + 9] = Sql!InCode
  <2>1. 9 \in 1..Len(Sql!Written(item)) /\ p + (9 - 1) = p + 8
    BY <1>2
  <2>2. text[p + 9] = Sql!Mark("newline") /\ at[p + 9] = Sql!Step(at[p + 8], Sql!Mark("newline"))
    BY <1>3, <2>1
  <2> QED  BY <2>2, <1>11, StepsInCode
<1>13. \A j \in 1..Len(Sql!Written(item)) : IsStatement(text[p + j]) => j = 6
  <2>1. \A j \in 1..9 : j = 1 \/ j = 2 \/ j = 3 \/ j = 4 \/ j = 5
                        \/ j = 6 \/ j = 7 \/ j = 8 \/ j = 9
    OBVIOUS
  <2> QED  BY <1>2, <2>1, NoMarkIsStatement,
           <1>4, <1>5, <1>6, <1>7, <1>8, <1>9, <1>10, <1>11, <1>12
<1>14. at[p + (6 - 1)].mode \in Hidden
  <2>1. p + (6 - 1) = p + 5
    OBVIOUS
  <2> QED  BY <2>1, <1>8, Modes
<1>15. 6 \in 1..Len(Sql!Written(item)) /\ at[p + Len(Sql!Written(item))] = Sql!InCode
  BY <1>2, <1>12
<1>16. item.within \in Hidden
  BY DEF Hidden
<1> QED
  BY <1>2, <1>13, <1>14, <1>15, <1>16, <1>9 DEF ItemLeaves, Remains

LEMMA ReadsString ==
  ASSUME NEW st, IsStatement(st), NEW at, NEW text, NEW p \in Nat, at[p] = Sql!InCode,
         NEW item, item.within = "string", item.statement = st,
         \A j \in 1..Len(Sql!Written(item)) :
           /\ text[p + j] = Sql!Written(item)[j]
           /\ at[p + j] = Sql!Step(at[p + (j - 1)], Sql!Written(item)[j])
  PROVE  ItemLeaves(item, text, at, p)
<1>1. Sql!Written(item) =
        <<Sql!Mark("quote"), Sql!Mark("open"), Sql!Mark("dash"), Sql!Mark("quote"), st,
          Sql!Mark("newline")>>
  BY DEF Sql!Written
<1>2. Len(Sql!Written(item)) = 6
  BY <1>1
<1>3. /\ Sql!Written(item)[1] = Sql!Mark("quote")
      /\ Sql!Written(item)[2] = Sql!Mark("open")
      /\ Sql!Written(item)[3] = Sql!Mark("dash")
      /\ Sql!Written(item)[4] = Sql!Mark("quote")
      /\ Sql!Written(item)[5] = st
      /\ Sql!Written(item)[6] = Sql!Mark("newline")
  BY <1>1
<1>4. text[p + 1] = Sql!Mark("quote") /\ at[p + 1] = Sql!At("quote", 0, "")
  <2>1. 1 \in 1..Len(Sql!Written(item)) /\ p + (1 - 1) = p
    BY <1>2
  <2>2. text[p + 1] = Sql!Mark("quote") /\ at[p + 1] = Sql!Step(at[p], Sql!Mark("quote"))
    BY <1>3, <2>1
  <2> QED  BY <2>2, StepsInCode
<1>5. text[p + 2] = Sql!Mark("open") /\ at[p + 2] = Sql!At("quote", 0, "")
  <2>1. 2 \in 1..Len(Sql!Written(item)) /\ p + (2 - 1) = p + 1
    BY <1>2
  <2>2. text[p + 2] = Sql!Mark("open") /\ at[p + 2] = Sql!Step(at[p + 1], Sql!Mark("open"))
    BY <1>3, <2>1
  <2> QED  BY <2>2, <1>4, StepsInLiterals
<1>6. text[p + 3] = Sql!Mark("dash") /\ at[p + 3] = Sql!At("quote", 0, "")
  <2>1. 3 \in 1..Len(Sql!Written(item)) /\ p + (3 - 1) = p + 2
    BY <1>2
  <2>2. text[p + 3] = Sql!Mark("dash") /\ at[p + 3] = Sql!Step(at[p + 2], Sql!Mark("dash"))
    BY <1>3, <2>1
  <2> QED  BY <2>2, <1>5, StepsInLiterals
<1>7. text[p + 4] = Sql!Mark("quote") /\ at[p + 4] = Sql!InCode
  <2>1. 4 \in 1..Len(Sql!Written(item)) /\ p + (4 - 1) = p + 3
    BY <1>2
  <2>2. text[p + 4] = Sql!Mark("quote") /\ at[p + 4] = Sql!Step(at[p + 3], Sql!Mark("quote"))
    BY <1>3, <2>1
  <2> QED  BY <2>2, <1>6, StepsInLiterals
<1>8. text[p + 5] = st /\ at[p + 5] = Sql!InCode
  <2>1. 5 \in 1..Len(Sql!Written(item)) /\ p + (5 - 1) = p + 4
    BY <1>2
  <2>2. text[p + 5] = st /\ at[p + 5] = Sql!Step(at[p + 4], st)
    BY <1>3, <2>1
  <2> QED  BY <2>2, <1>7, StepsInCode
<1>9. text[p + 6] = Sql!Mark("newline") /\ at[p + 6] = Sql!InCode
  <2>1. 6 \in 1..Len(Sql!Written(item)) /\ p + (6 - 1) = p + 5
    BY <1>2
  <2>2. text[p + 6] = Sql!Mark("newline") /\ at[p + 6] = Sql!Step(at[p + 5], Sql!Mark("newline"))
    BY <1>3, <2>1
  <2> QED  BY <2>2, <1>8, StepsInCode
<1>10. \A j \in 1..Len(Sql!Written(item)) : IsStatement(text[p + j]) => j = 5
  <2>1. \A j \in 1..6 : j = 1 \/ j = 2 \/ j = 3 \/ j = 4 \/ j = 5 \/ j = 6
    OBVIOUS
  <2> QED  BY <1>2, <2>1, NoMarkIsStatement,
           <1>4, <1>5, <1>6, <1>7, <1>8, <1>9
<1>11. at[p + (5 - 1)].mode \notin Hidden
  <2>1. p + (5 - 1) = p + 4
    OBVIOUS
  <2> QED  BY <2>1, <1>7, Modes
<1>12. 5 \in 1..Len(Sql!Written(item)) /\ at[p + Len(Sql!Written(item))] = Sql!InCode
  BY <1>2, <1>9
<1>13. item.within \notin Hidden
  BY DEF Hidden
<1> QED
  BY <1>2, <1>10, <1>11, <1>12, <1>13, <1>8 DEF ItemLeaves, Remains

LEMMA ReadsBody ==
  ASSUME NEW st, IsStatement(st), NEW at, NEW text, NEW p \in Nat, at[p] = Sql!InCode,
         NEW item, item.within = "body", item.statement = st,
         \A j \in 1..Len(Sql!Written(item)) :
           /\ text[p + j] = Sql!Written(item)[j]
           /\ at[p + j] = Sql!Step(at[p + (j - 1)], Sql!Written(item)[j])
  PROVE  ItemLeaves(item, text, at, p)
<1>1. Sql!Written(item) =
        <<Sql!Dollar("x"), Sql!Mark("quote"), Sql!Mark("open"), Sql!Dollar(""), st,
          Sql!Mark("newline"), Sql!Dollar("x"), Sql!Mark("newline")>>
  BY DEF Sql!Written
<1>2. Len(Sql!Written(item)) = 8
  <2>1. PICK x, quo, o, y, n :
          /\ x = Sql!Dollar("x") /\ quo = Sql!Mark("quote") /\ o = Sql!Mark("open")
          /\ y = Sql!Dollar("") /\ n = Sql!Mark("newline")
    OBVIOUS
  <2>2. Sql!Written(item) = <<x, quo, o, y, st, n, x, n>>
    BY <1>1, <2>1
  <2> QED  BY <2>2
<1>3. /\ Sql!Written(item)[1] = Sql!Dollar("x")
      /\ Sql!Written(item)[2] = Sql!Mark("quote")
      /\ Sql!Written(item)[3] = Sql!Mark("open")
      /\ Sql!Written(item)[4] = Sql!Dollar("")
      /\ Sql!Written(item)[5] = st
      /\ Sql!Written(item)[6] = Sql!Mark("newline")
      /\ Sql!Written(item)[7] = Sql!Dollar("x")
      /\ Sql!Written(item)[8] = Sql!Mark("newline")
  <2>1. PICK x, quo, o, y, n :
          /\ x = Sql!Dollar("x") /\ quo = Sql!Mark("quote") /\ o = Sql!Mark("open")
          /\ y = Sql!Dollar("") /\ n = Sql!Mark("newline")
    OBVIOUS
  <2>2. Sql!Written(item) = <<x, quo, o, y, st, n, x, n>>
    BY <1>1, <2>1
  <2>3. /\ Sql!Written(item)[1] = x /\ Sql!Written(item)[2] = quo /\ Sql!Written(item)[3] = o
        /\ Sql!Written(item)[4] = y /\ Sql!Written(item)[5] = st /\ Sql!Written(item)[6] = n
        /\ Sql!Written(item)[7] = x /\ Sql!Written(item)[8] = n
    BY <2>2
  <2> QED  BY <2>1, <2>3
<1>4. text[p + 1] = Sql!Dollar("x") /\ at[p + 1] = Sql!At("dollar", 0, "x")
  <2>1. 1 \in 1..Len(Sql!Written(item)) /\ p + (1 - 1) = p
    BY <1>2
  <2>2. text[p + 1] = Sql!Dollar("x") /\ at[p + 1] = Sql!Step(at[p], Sql!Dollar("x"))
    BY <1>3, <2>1
  <2> QED  BY <2>2, StepsInCode
<1>5. text[p + 2] = Sql!Mark("quote") /\ at[p + 2] = Sql!At("dollar", 0, "x")
  <2>1. 2 \in 1..Len(Sql!Written(item)) /\ p + (2 - 1) = p + 1
    BY <1>2
  <2>2. text[p + 2] = Sql!Mark("quote") /\ at[p + 2] = Sql!Step(at[p + 1], Sql!Mark("quote"))
    BY <1>3, <2>1
  <2> QED  BY <2>2, <1>4, StepsInLiterals
<1>6. text[p + 3] = Sql!Mark("open") /\ at[p + 3] = Sql!At("dollar", 0, "x")
  <2>1. 3 \in 1..Len(Sql!Written(item)) /\ p + (3 - 1) = p + 2
    BY <1>2
  <2>2. text[p + 3] = Sql!Mark("open") /\ at[p + 3] = Sql!Step(at[p + 2], Sql!Mark("open"))
    BY <1>3, <2>1
  <2> QED  BY <2>2, <1>5, StepsInLiterals
<1>7. text[p + 4] = Sql!Dollar("") /\ at[p + 4] = Sql!At("dollar", 0, "x")
  <2>1. 4 \in 1..Len(Sql!Written(item)) /\ p + (4 - 1) = p + 3
    BY <1>2
  <2>2. text[p + 4] = Sql!Dollar("") /\ at[p + 4] = Sql!Step(at[p + 3], Sql!Dollar(""))
    BY <1>3, <2>1
  <2> QED  BY <2>2, <1>6, StepsInLiterals
<1>8. text[p + 5] = st /\ at[p + 5] = Sql!At("dollar", 0, "x")
  <2>1. 5 \in 1..Len(Sql!Written(item)) /\ p + (5 - 1) = p + 4
    BY <1>2
  <2>2. text[p + 5] = st /\ at[p + 5] = Sql!Step(at[p + 4], st)
    BY <1>3, <2>1
  <2> QED  BY <2>2, <1>7, StepsInLiterals
<1>9. text[p + 6] = Sql!Mark("newline") /\ at[p + 6] = Sql!At("dollar", 0, "x")
  <2>1. 6 \in 1..Len(Sql!Written(item)) /\ p + (6 - 1) = p + 5
    BY <1>2
  <2>2. text[p + 6] = Sql!Mark("newline") /\ at[p + 6] = Sql!Step(at[p + 5], Sql!Mark("newline"))
    BY <1>3, <2>1
  <2> QED  BY <2>2, <1>8, StepsInLiterals
<1>10. text[p + 7] = Sql!Dollar("x") /\ at[p + 7] = Sql!InCode
  <2>1. 7 \in 1..Len(Sql!Written(item)) /\ p + (7 - 1) = p + 6
    BY <1>2
  <2>2. text[p + 7] = Sql!Dollar("x") /\ at[p + 7] = Sql!Step(at[p + 6], Sql!Dollar("x"))
    BY <1>3, <2>1
  <2> QED  BY <2>2, <1>9, StepsInLiterals
<1>11. text[p + 8] = Sql!Mark("newline") /\ at[p + 8] = Sql!InCode
  <2>1. 8 \in 1..Len(Sql!Written(item)) /\ p + (8 - 1) = p + 7
    BY <1>2
  <2>2. text[p + 8] = Sql!Mark("newline") /\ at[p + 8] = Sql!Step(at[p + 7], Sql!Mark("newline"))
    BY <1>3, <2>1
  <2> QED  BY <2>2, <1>10, StepsInCode
<1>12. \A j \in 1..Len(Sql!Written(item)) : IsStatement(text[p + j]) => j = 5
  <2>1. \A j \in 1..8 : j = 1 \/ j = 2 \/ j = 3 \/ j = 4 \/ j = 5 \/ j = 6 \/ j = 7 \/ j = 8
    OBVIOUS
  <2> QED  BY <1>2, <2>1, NoMarkIsStatement,
           <1>4, <1>5, <1>6, <1>7, <1>8, <1>9, <1>10, <1>11
<1>13. at[p + (5 - 1)].mode \notin Hidden
  <2>1. p + (5 - 1) = p + 4
    OBVIOUS
  <2> QED  BY <2>1, <1>7, Modes
<1>14. 5 \in 1..Len(Sql!Written(item)) /\ at[p + Len(Sql!Written(item))] = Sql!InCode
  BY <1>2, <1>11
<1>15. item.within \notin Hidden
  BY DEF Hidden
<1> QED
  BY <1>2, <1>12, <1>13, <1>14, <1>15, <1>8 DEF ItemLeaves, Remains

LEMMA ItemReads ==
  ASSUME NEW item, item.within \in Within, IsStatement(item.statement),
         NEW at, NEW text, NEW p \in Nat, at[p] = Sql!InCode,
         \A j \in 1..Len(Sql!Written(item)) :
           /\ text[p + j] = Sql!Written(item)[j]
           /\ at[p + j] = Sql!Step(at[p + (j - 1)], Sql!Written(item)[j])
  PROVE  ItemLeaves(item, text, at, p)
<1>1. CASE item.within = "code"    BY <1>1, ReadsCode
<1>2. CASE item.within = "line"    BY <1>2, ReadsLine
<1>3. CASE item.within = "block"   BY <1>3, ReadsBlock
<1>4. CASE item.within = "string"  BY <1>4, ReadsString
<1>5. CASE item.within = "body"    BY <1>5, ReadsBody
<1> QED  BY <1>1, <1>2, <1>3, <1>4, <1>5 DEF Within

-----------------------------------------------------------------------------
(* What the reader makes of a file. *)
Words == [letters : Letters, upper : BOOLEAN, quoted : BOOLEAN]
StatementsWritten == [kind : {"create", "enable"}, schema : Words, name : Words]
ItemsWritten == [statement : StatementsWritten, within : Within]
Texts(items) == [i \in 1..Len(items) |-> Sql!Written(items[i])]

Tokens == {Sql!Mark("newline"), Sql!Mark("dash"), Sql!Mark("open"), Sql!Mark("close"),
           Sql!Mark("quote"), Sql!Dollar("x"), Sql!Dollar("")} \cup StatementsWritten

LEMMA WrittenTyped ==
  ASSUME NEW item \in ItemsWritten
  PROVE  Sql!Written(item) \in Seq(Tokens) /\ Len(Sql!Written(item)) \in Nat \ {0}
<1>1. PICK x, y, n, d, o, c, q, s :
        /\ x = Sql!Dollar("x") /\ y = Sql!Dollar("") /\ n = Sql!Mark("newline")
        /\ d = Sql!Mark("dash") /\ o = Sql!Mark("open") /\ c = Sql!Mark("close")
        /\ q = Sql!Mark("quote") /\ s = item.statement
  OBVIOUS
<1>2. {x, y, n, d, o, c, q, s} \in SUBSET Tokens
  BY <1>1 DEF Tokens, ItemsWritten
<1>3. CASE item.within = "code"
  <2>1. Sql!Written(item) = <<s, n>>  BY <1>1, <1>3 DEF Sql!Written
  <2> QED  BY <1>2, <2>1
<1>4. CASE item.within = "line"
  <2>1. Sql!Written(item) = <<d, q, o, s, n>>  BY <1>1, <1>4 DEF Sql!Written
  <2> QED  BY <1>2, <2>1
<1>5. CASE item.within = "block"
  <2>1. Sql!Written(item) = <<o, o, q, n, c, s, x, c, n>>  BY <1>1, <1>5 DEF Sql!Written
  <2> QED  BY <1>2, <2>1
<1>6. CASE item.within = "string"
  <2>1. Sql!Written(item) = <<q, o, d, q, s, n>>  BY <1>1, <1>6 DEF Sql!Written
  <2> QED  BY <1>2, <2>1
<1>7. CASE item.within = "body"
  <2>1. Sql!Written(item) = <<x, q, o, y, s, n, x, n>>  BY <1>1, <1>7 DEF Sql!Written
  <2> QED  BY <1>2, <2>1
<1> QED  BY <1>3, <1>4, <1>5, <1>6, <1>7 DEF ItemsWritten, Within

LEMMA OffsetNext ==
  ASSUME NEW S, NEW seqs, NEW n \in Nat, \A i \in 1..n : seqs[i] \in Seq(S),
         NEW g, Flattens(g, seqs, n), NEW i \in 1..n
  PROVE  /\ Offset(g, i) \in Nat
         /\ Len(g[i]) = Offset(g, i) + Len(seqs[i])
         /\ Len(seqs[i]) # 0 => Offset(g, i) + Len(seqs[i]) <= Len(g[n])
         /\ i + 1 \in 1..n => Offset(g, i + 1) = Offset(g, i) + Len(seqs[i])
<1>1. \A k \in 1..n : g[k] \in Seq(S) /\ Len(g[k]) \in Nat /\ Len(seqs[k]) \in Nat
  BY FlattenTyped, LenProperties
<1>2. g[i] = IF i = 1 THEN seqs[i] ELSE g[i - 1] \o seqs[i]  BY DEF Flattens
<1>3. i # 1 => i - 1 \in 1..n  OBVIOUS
<1>4. Offset(g, i) \in Nat /\ Len(g[i]) = Offset(g, i) + Len(seqs[i])
  <2>1. CASE i = 1  BY <1>1, <1>2, <2>1 DEF Offset
  <2>2. CASE i # 1
    <3>1. Len(g[i - 1] \o seqs[i]) = Len(g[i - 1]) + Len(seqs[i])
      BY <1>1, <1>3, <2>2, ConcatProperties
    <3> QED  BY <1>1, <1>2, <1>3, <2>2, <3>1 DEF Offset
  <2> QED  BY <2>1, <2>2
<1>5. i + 1 \in 1..n => Offset(g, i + 1) = Len(g[i])
  <2>1. i + 1 # 1 /\ (i + 1) - 1 = i  OBVIOUS
  <2> QED  BY <2>1 DEF Offset
<1>6. Len(seqs[i]) # 0 => Offset(g, i) + Len(seqs[i]) <= Len(g[n])
  <2>1. n \in 1..n  OBVIOUS
  <2>2. Places(g, seqs, n)  BY <2>1, FlattenPlaces
  <2>3. Len(seqs[i]) # 0 => Len(seqs[i]) \in 1..Len(seqs[i])  BY <1>1
  <2> QED  BY <1>1, <1>4, <2>1, <2>2, <2>3 DEF Places
<1> QED  BY <1>4, <1>5, <1>6

(* A statement is left in the text exactly when an item out of a comment *)
(* states it.                                                            *)
TextLeft(items, text) ==
  /\ Len(text) \in Nat
  /\ \A x \in 1..Len(text) : Remains(text, Sql!Reader(text), x) =>
       \E i \in 1..Len(items) : text[x] = items[i].statement /\ items[i].within \notin Hidden
  /\ \A i \in 1..Len(items) : items[i].within \notin Hidden =>
       \E x \in 1..Len(text) : Remains(text, Sql!Reader(text), x) /\ text[x] = items[i].statement

LEMMA TextLeaves ==
  ASSUME NEW items \in Seq(ItemsWritten), NEW text, text = Sql!FlattenSeq(Texts(items))
  PROVE  TextLeft(items, text)
<1>1. PICK n \in Nat : n = Len(items)
  BY LenProperties
<1>2. PICK seqs : seqs = Texts(items)
  OBVIOUS
<1>3. /\ Len(seqs) = n
      /\ \A i \in 1..n : /\ items[i] \in ItemsWritten /\ seqs[i] = Sql!Written(items[i])
                         /\ seqs[i] \in Seq(Tokens) /\ Len(seqs[i]) \in Nat \ {0}
  <2>1. seqs = [i \in 1..n |-> Sql!Written(items[i])]
    BY <1>1, <1>2 DEF Texts
  <2>2. \A i \in 1..n : items[i] \in ItemsWritten
    <3>1. items \in [1..Len(items) -> ItemsWritten]
      BY LenProperties
    <3> QED  BY <1>1, <3>1
  <2>3. \A i \in 1..n : seqs[i] \in Seq(Tokens) /\ Len(seqs[i]) \in Nat \ {0}
    BY <2>1, <2>2, WrittenTyped
  <2>4. seqs \in Seq(Seq(Tokens)) /\ Len(seqs) = n
    BY <2>1, <2>3, IsASeq
  <2> QED  BY <2>1, <2>2, <2>3, <2>4
<1>4. CASE n = 0
  <2>1. Len(text) = 0
    BY <1>2, <1>3, <1>4 DEF Sql!FlattenSeq
  <2> QED  BY <1>1, <1>4, <2>1 DEF TextLeft
<1>5. CASE n # 0
  <2>1. PICK g : Flattens(g, seqs, n) /\ text = g[n]
    BY <1>2, <1>3, <1>5, FlattenUnfolds
  <2>2. n \in 1..n
    BY <1>5
  <2>3. Len(text) \in Nat
    BY <1>3, <2>1, <2>2, FlattenTyped, LenProperties
  <2>4. Places(g, seqs, n)
    BY <1>3, <2>1, <2>2, FlattenPlaces
  <2>5. PICK at : at = Sql!Reader(text)
    OBVIOUS
  <2>6. at[0] = Sql!InCode /\ \A x \in 1..Len(text) : at[x] = Sql!Step(at[x - 1], text[x])
    BY <2>3, <2>5, ReaderUnfolds
  <2>7. ASSUME NEW i \in 1..n
        PROVE  /\ Offset(g, i) \in Nat /\ Offset(g, i) + Len(seqs[i]) <= Len(text)
               /\ i + 1 \in 1..n => Offset(g, i + 1) = Offset(g, i) + Len(seqs[i])
    <3>1. \A k \in 1..n : seqs[k] \in Seq(Tokens)
      BY <1>3
    <3>2. Len(seqs[i]) # 0
      BY <1>3
    <3>3. /\ Offset(g, i) \in Nat
          /\ Len(seqs[i]) # 0 => Offset(g, i) + Len(seqs[i]) <= Len(g[n])
          /\ i + 1 \in 1..n => Offset(g, i + 1) = Offset(g, i) + Len(seqs[i])
      BY <2>1, <3>1, OffsetNext
    <3> QED  BY <2>1, <3>2, <3>3
  <2>8. ASSUME NEW i \in 1..n, at[Offset(g, i)] = Sql!InCode
        PROVE  ItemLeaves(items[i], text, at, Offset(g, i))
    <3>1. ASSUME NEW j \in 1..Len(Sql!Written(items[i]))
          PROVE  /\ text[Offset(g, i) + j] = Sql!Written(items[i])[j]
                 /\ at[Offset(g, i) + j]
                      = Sql!Step(at[Offset(g, i) + (j - 1)], Sql!Written(items[i])[j])
      <4>1. j \in 1..Len(seqs[i])
        BY <1>3, <3>1
      <4>2. Offset(g, i) + j \in 1..Len(text) /\ text[Offset(g, i) + j] = seqs[i][j]
        BY <2>1, <2>2, <2>4, <4>1 DEF Places
      <4>3. (Offset(g, i) + j) - 1 = Offset(g, i) + (j - 1)
        BY <1>3, <2>7, <4>1
      <4> QED  BY <1>3, <2>6, <4>2, <4>3
    <3>2. items[i].within \in Within /\ IsStatement(items[i].statement)
      BY <1>3 DEF ItemsWritten, StatementsWritten, IsStatement
    <3>3. PICK p \in Nat : p = Offset(g, i)
      BY <2>7
    <3> QED  BY <2>8, <3>1, <3>2, <3>3, ItemReads
  <2>9. ASSUME NEW i \in 1..n  PROVE at[Offset(g, i)] = Sql!InCode
    <3> DEFINE bad == {k \in 1..n : at[Offset(g, k)] # Sql!InCode}
    <3> SUFFICES ASSUME bad # {}  PROVE FALSE
      OBVIOUS
    <3>1. PICK k \in bad : \A l \in bad : k <= l
      <4>1. bad \in SUBSET Nat  OBVIOUS
      <4> HIDE DEF bad
      <4> QED  BY <4>1, LeastNumber
    <3>2. k # 1
      BY <2>6, <3>1 DEF Offset
    <3>3. PICK l : l = k - 1
      OBVIOUS
    <3>4. l \in 1..n /\ l + 1 = k /\ l \notin bad
      BY <3>1, <3>2, <3>3
    <3>5. ItemLeaves(items[l], text, at, Offset(g, l))
      BY <2>8, <3>4
    <3>6. at[Offset(g, l) + Len(seqs[l])] = Sql!InCode
      BY <1>3, <3>4, <3>5 DEF ItemLeaves
    <3>7. Offset(g, k) = Offset(g, l) + Len(seqs[l])
      BY <2>7, <3>1, <3>4
    <3> QED  BY <3>1, <3>6, <3>7
  <2>10. ASSUME NEW i \in 1..n, NEW j \in 1..Len(seqs[i])
         PROVE  /\ Offset(g, i) + j \in 1..Len(text)
                /\ Remains(text, at, Offset(g, i) + j)
                     <=> /\ IsStatement(text[Offset(g, i) + j])
                         /\ at[Offset(g, i) + (j - 1)].mode \notin Hidden
    <3>1. Offset(g, i) + j \in 1..Len(text)
      BY <2>1, <2>2, <2>4, <2>10 DEF Places
    <3>2. (Offset(g, i) + j) - 1 = Offset(g, i) + (j - 1)
      BY <1>3, <2>7, <2>10
    <3> QED  BY <3>1, <3>2 DEF Remains
  <2>11. ASSUME NEW x \in 1..Len(text), Remains(text, at, x)
         PROVE  \E i \in 1..n : text[x] = items[i].statement /\ items[i].within \notin Hidden
    <3>1. PICK i \in 1..n : \E j \in 1..Len(seqs[i]) : x = Offset(g, i) + j
      BY <2>1, <2>2, <2>4, <2>11 DEF Places
    <3>2. PICK j \in 1..Len(seqs[i]) : x = Offset(g, i) + j
      BY <3>1
    <3>3. ItemLeaves(items[i], text, at, Offset(g, i)) /\ j \in 1..Len(Sql!Written(items[i]))
      BY <1>3, <2>8, <2>9, <3>2
    <3> QED  BY <2>10, <2>11, <3>2, <3>3 DEF ItemLeaves
  <2>12. ASSUME NEW i \in 1..n, items[i].within \notin Hidden
         PROVE  \E x \in 1..Len(text) : Remains(text, at, x) /\ text[x] = items[i].statement
    <3>1. ItemLeaves(items[i], text, at, Offset(g, i))
      BY <2>8, <2>9
    <3>2. PICK j \in 1..Len(Sql!Written(items[i])) :
            /\ IsStatement(text[Offset(g, i) + j])
            /\ at[Offset(g, i) + (j - 1)].mode \notin Hidden
            /\ text[Offset(g, i) + j] = items[i].statement
      BY <2>12, <3>1 DEF ItemLeaves
    <3>3. j \in 1..Len(seqs[i])
      BY <1>3, <3>2
    <3> QED  BY <2>10, <3>2, <3>3
  <2> QED  BY <1>1, <2>3, <2>5, <2>11, <2>12 DEF TextLeft
<1> QED  BY <1>4, <1>5

-----------------------------------------------------------------------------
(* What a file states of public tables. *)

(* Lines are numbers. *)
LEMMA LineTyped ==
  ASSUME NEW text, NEW i \in Nat
  PROVE  Sql!LineOf(text, i) \in Nat
<1> DEFINE breaks == {j \in 1..(i - 1) : text[j].kind = "newline"}
<1>1. IsFiniteSet(1..(i - 1))
  BY FS_Interval
<1>2. IsFiniteSet(breaks)
  BY <1>1, FS_Subset
<1>3. Cardinality(breaks) \in Nat
  BY <1>2, FS_CardinalityType
<1>4. Sql!Cardinality(breaks) = Cardinality(breaks)
  BY DEF Sql!Cardinality, Cardinality
<1> QED  BY <1>3, <1>4 DEF Sql!LineOf

(* Folding an identifier, twice told. *)
LEMMA SchemaFolds ==
  ASSUME NEW st \in StatementsWritten
  PROVE  /\ Sql!IsPublic(st.schema) <=> Sql!InPublic(st)
         /\ Sql!Normalise(st.name) = [letters |-> Sql!TableOf(st)[1], upper |-> Sql!TableOf(st)[2]]
<1>1. st.schema.upper \in BOOLEAN /\ st.schema.quoted \in BOOLEAN
  BY DEF StatementsWritten, Words
<1>2. (st.schema.upper /\ st.schema.quoted) = FALSE <=> (st.schema.quoted => ~ st.schema.upper)
  BY <1>1
<1>3. Sql!Normalise(st.schema) = [letters |-> "public", upper |-> FALSE]
        <=> st.schema.letters = "public" /\ (st.schema.upper /\ st.schema.quoted) = FALSE
  BY DEF Sql!Normalise
<1>4. Sql!IsPublic(st.schema) <=> Sql!InPublic(st)
  BY <1>2, <1>3 DEF Sql!IsPublic, Sql!InPublic
<1>5. Sql!Normalise(st.name) = [letters |-> Sql!TableOf(st)[1], upper |-> Sql!TableOf(st)[2]]
  BY DEF Sql!Normalise, Sql!TableOf
<1> QED  BY <1>4, <1>5

IsFile(f) ==
  /\ f.path.name \in Nat
  /\ f.items \in Seq(ItemsWritten)
  /\ f.text = Sql!FlattenSeq(Texts(f.items))

IsEntry(x) ==
  /\ x = [table |-> x.table, path |-> x.path, line |-> x.line]
  /\ x.table = [letters |-> x.table.letters, upper |-> x.table.upper]
  /\ x.line \in Nat

LEMMA EntriesAreSaid ==
  ASSUME NEW f, IsFile(f), NEW kind \in {"create", "enable"}
  PROVE  /\ \A x \in Sql!Entries(f, kind) :
              IsEntry(x) /\ x.path = f.path /\ Sql!TableFound(x) \in Sql!Says(f, kind)
         /\ \A table \in Sql!Says(f, kind) :
              \E x \in Sql!Entries(f, kind) : Sql!TableFound(x) = table
<1>1. /\ f.items \in Seq(ItemsWritten)
      /\ \A i \in 1..Len(f.items) : f.items[i].statement \in StatementsWritten
      /\ Sql!ToSet(f.items) = {f.items[i] : i \in 1..Len(f.items)}
  <2>1. f.items \in [1..Len(f.items) -> ItemsWritten] /\ DOMAIN f.items = 1..Len(f.items)
    BY LenProperties DEF IsFile
  <2>2. \A i \in 1..Len(f.items) : f.items[i].statement \in StatementsWritten
    BY <2>1 DEF ItemsWritten
  <2> QED  BY <2>1, <2>2 DEF Sql!ToSet, IsFile
<1>2. /\ Len(f.text) \in Nat
      /\ \A j \in 1..Len(f.text) : Remains(f.text, Sql!Reader(f.text), j) =>
           \E i \in 1..Len(f.items) :
             f.text[j] = f.items[i].statement /\ f.items[i].within \notin Hidden
      /\ \A i \in 1..Len(f.items) : f.items[i].within \notin Hidden =>
           \E j \in 1..Len(f.text) :
             Remains(f.text, Sql!Reader(f.text), j) /\ f.text[j] = f.items[i].statement
  <2>1. TextLeft(f.items, f.text)
    BY <1>1, TextLeaves DEF IsFile
  <2> QED  BY <2>1 DEF TextLeft
<1> DEFINE Stands(j) == [kind |-> f.text[j].kind, schema |-> f.text[j].schema,
                         name |-> f.text[j].name, line |-> Sql!LineOf(f.text, j)]
           Entry(s) == [table |-> Sql!Normalise(s.name), path |-> f.path, line |-> s.line]
<1>3. Sql!Statements(f.text)
        = {Stands(j) : j \in {k \in 1..Len(f.text) : Remains(f.text, Sql!Reader(f.text), k)}}
  BY DEF Sql!Statements, Remains, IsStatement, Hidden
<1>4. Sql!Entries(f, kind) =
        {Entry(s) : s \in {x \in Sql!Statements(f.text) : x.kind = kind /\ Sql!IsPublic(x.schema)}}
  BY DEF Sql!Entries
<1>5. ASSUME NEW x \in Sql!Entries(f, kind)
      PROVE  IsEntry(x) /\ x.path = f.path /\ Sql!TableFound(x) \in Sql!Says(f, kind)
  <2>1. PICK s \in Sql!Statements(f.text) : s.kind = kind /\ Sql!IsPublic(s.schema) /\ x = Entry(s)
    BY <1>4, <1>5
  <2>2. PICK j \in 1..Len(f.text) : Remains(f.text, Sql!Reader(f.text), j) /\ s = Stands(j)
    BY <1>3, <2>1
  <2>3. PICK i \in 1..Len(f.items) :
          f.text[j] = f.items[i].statement /\ f.items[i].within \notin Hidden
    BY <1>2, <2>2
  <2>4. PICK st \in StatementsWritten : st = f.items[i].statement
    BY <1>1, <2>3
  <2>5. /\ s.kind = st.kind /\ s.schema = st.schema /\ s.name = st.name
        /\ s.line = Sql!LineOf(f.text, j)
    BY <2>2, <2>3, <2>4
  <2>6. x.table = [letters |-> Sql!TableOf(st)[1], upper |-> Sql!TableOf(st)[2]] /\ x.path = f.path
        /\ x.line = s.line /\ x = [table |-> x.table, path |-> x.path, line |-> x.line]
    BY <2>1, <2>4, <2>5, SchemaFolds
  <2>7. IsEntry(x)
    <3>1. x.line \in Nat
      BY <2>2, <2>5, <2>6, LineTyped
    <3> QED  BY <2>6, <3>1 DEF IsEntry
  <2>8. Sql!TableFound(x) = Sql!TableOf(st)
    BY <2>6 DEF Sql!TableFound, Sql!TableOf
  <2>9. Sql!InPublic(st) /\ st.kind = kind
    BY <2>1, <2>4, <2>5, SchemaFolds
  <2>10. Sql!TableOf(st) \in Sql!Says(f, kind)
    BY <1>1, <2>3, <2>4, <2>9 DEF Sql!Says, Hidden
  <2> QED  BY <2>6, <2>7, <2>8, <2>10
<1>6. ASSUME NEW table \in Sql!Says(f, kind)
      PROVE  \E x \in Sql!Entries(f, kind) : Sql!TableFound(x) = table
  <2>1. PICK i \in 1..Len(f.items) :
          /\ f.items[i].within \notin Hidden /\ f.items[i].statement.kind = kind
          /\ Sql!InPublic(f.items[i].statement) /\ table = Sql!TableOf(f.items[i].statement)
    BY <1>1, <1>6 DEF Sql!Says, Hidden
  <2>2. PICK st \in StatementsWritten : st = f.items[i].statement
    BY <1>1, <2>1
  <2>3. PICK j \in 1..Len(f.text) : Remains(f.text, Sql!Reader(f.text), j) /\ f.text[j] = st
    BY <1>2, <2>1, <2>2
  <2>4. PICK s \in Sql!Statements(f.text) : s = Stands(j)
    BY <1>3, <2>3
  <2>5. s.kind = kind /\ Sql!IsPublic(s.schema) /\ s.name = st.name
    BY <2>1, <2>2, <2>3, <2>4, SchemaFolds
  <2>6. PICK x \in Sql!Entries(f, kind) : x = Entry(s)
    BY <1>4, <2>5
  <2>7. x.table = [letters |-> Sql!TableOf(st)[1], upper |-> Sql!TableOf(st)[2]]
    BY <2>5, <2>6, SchemaFolds
  <2>8. Sql!TableFound(x) = table
    BY <2>1, <2>2, <2>7 DEF Sql!TableFound, Sql!TableOf
  <2> QED  BY <2>6, <2>8
<1> QED  BY <1>5, <1>6

-----------------------------------------------------------------------------
(* Of the entries of a set some stand first: the least place, and the least *)
(* line there.                                                              *)
LEMMA FirstEntry ==
  ASSUME NEW S, S # {}, \A x \in S : x.path.name \in Nat /\ x.line \in Nat
  PROVE  \E x \in S : \A y \in S : ~ Sql!Earlier(y, x)
<1>1. PICK n \in Nat : /\ \E x \in S : x.path.name = n
                       /\ \A x \in S : n <= x.path.name
  <2> DEFINE names == {x.path.name : x \in S}
  <2>1. names \in SUBSET Nat /\ names # {}  OBVIOUS
  <2>2. PICK n \in names : \A m \in names : n <= m
    <3> HIDE DEF names
    <3> QED  BY <2>1, LeastNumber
  <2> QED  BY <2>1, <2>2
<1>2. PICK l \in Nat : /\ \E x \in S : x.path.name = n /\ x.line = l
                       /\ \A x \in S : x.path.name = n => l <= x.line
  <2> DEFINE lines == {x.line : x \in {y \in S : y.path.name = n}}
  <2>1. lines \in SUBSET Nat /\ lines # {}  BY <1>1
  <2>2. PICK l \in lines : \A m \in lines : l <= m
    <3> HIDE DEF lines
    <3> QED  BY <2>1, LeastNumber
  <2> QED  BY <2>1, <2>2
<1>3. PICK x \in S : x.path.name = n /\ x.line = l
  BY <1>2
<1>4. ASSUME NEW y \in S  PROVE ~ Sql!Earlier(y, x)
  <2>1. n <= y.path.name /\ (y.path.name = n => l <= y.line)
    BY <1>1, <1>2
  <2>2. y.path.name \in Nat /\ y.line \in Nat
    OBVIOUS
  <2> QED  BY <1>3, <2>1, <2>2 DEF Sql!Earlier
<1> QED  BY <1>4

(* Migrations are text of the statements and comments of an item each, and *)
(* a place among the names of their directory is one file's.               *)
IsRepository(r) ==
  /\ \A f \in r : Sql!IsMigration(f.path) => IsFile(f)
  /\ \A f, g \in r : /\ Sql!IsMigration(f.path) /\ Sql!IsMigration(g.path)
                     /\ f.path.name = g.path.name
                     => f.path = g.path

(* However many the files, statements and comments: the findings are the   *)
(* tables that a readable migration creates in public and none locks down, *)
(* each once and where it is first created.                                *)
LEMMA RepositoryIsTold ==
  ASSUME IsRepository(input)
  PROVE  Sql!RlsTold
<1> DEFINE read == {f \in input : Sql!IsMigration(f.path) /\ f.readable}
           creates == UNION {Sql!Says(f, "create") : f \in read}
           enables == UNION {Sql!Says(f, "enable") : f \in read}
<1>1. \A f \in read : f \in input /\ Sql!IsMigration(f.path) /\ IsFile(f)
  BY DEF IsRepository
<1>2. \A kind : Sql!Stated(input, kind) = UNION {Sql!Entries(f, kind) : f \in read}
  BY DEF Sql!Stated, Sql!MigrationFiles, Sql!IsMigration
<1>3. ASSUME NEW kind \in {"create", "enable"}, NEW x \in Sql!Stated(input, kind)
      PROVE  \E f \in read : /\ x \in Sql!Entries(f, kind) /\ IsEntry(x) /\ x.path = f.path
                             /\ Sql!TableFound(x) \in Sql!Says(f, kind) /\ x.path.name \in Nat
  <2>1. PICK f \in read : x \in Sql!Entries(f, kind)
    BY <1>2, <1>3
  <2>2. IsFile(f) /\ f.path.name \in Nat
    BY <1>1 DEF IsFile
  <2> QED  BY <2>1, <2>2, EntriesAreSaid
<1>4. ASSUME NEW kind \in {"create", "enable"}, NEW f \in read, NEW table \in Sql!Says(f, kind)
      PROVE  \E x \in Sql!Stated(input, kind) :
               x \in Sql!Entries(f, kind) /\ Sql!TableFound(x) = table /\ x.path = f.path
  <2>1. PICK x \in Sql!Entries(f, kind) : Sql!TableFound(x) = table /\ x.path = f.path
    BY <1>1, EntriesAreSaid
  <2> QED  BY <1>2, <2>1
<1>5. ASSUME NEW x, NEW y, IsEntry(x), IsEntry(y), Sql!TableFound(x) = Sql!TableFound(y)
      PROVE  x.table = y.table
  <2>1. x.table.letters = y.table.letters /\ x.table.upper = y.table.upper
    BY <1>5 DEF Sql!TableFound
  <2> QED  BY <1>5, <2>1 DEF IsEntry
<1>6. ASSUME NEW x \in Sql!RlsFindings(input)
      PROVE  /\ x \in Sql!Stated(input, "create")
             /\ \A y \in Sql!Stated(input, "create") : y.table = x.table => ~ Sql!Earlier(y, x)
             /\ \A y \in Sql!Stated(input, "enable") : y.table # x.table
  BY DEF Sql!RlsFindings, Sql!Created, Sql!Enabled
<1>7. ASSUME NEW x \in Sql!RlsFindings(input)
      PROVE  /\ Sql!TableFound(x) \in creates
             /\ Sql!TableFound(x) \notin enables
  <2>1. PICK f \in read : IsEntry(x) /\ Sql!TableFound(x) \in Sql!Says(f, "create")
    BY <1>3, <1>6
  <2>2. ASSUME NEW g \in read, Sql!TableFound(x) \in Sql!Says(g, "enable")  PROVE FALSE
    <3>1. PICK y \in Sql!Stated(input, "enable") : Sql!TableFound(y) = Sql!TableFound(x)
      BY <1>4, <2>2
    <3>2. IsEntry(y)
      BY <1>3
    <3>3. y.table = x.table
      BY <1>5, <2>1, <3>1, <3>2
    <3> QED  BY <1>6, <3>3
  <2> QED  BY <2>1, <2>2
<1>8. ASSUME NEW table \in creates, table \notin enables
      PROVE  \E x \in Sql!RlsFindings(input) : Sql!TableFound(x) = table
  <2> DEFINE stated == {x \in Sql!Stated(input, "create") : Sql!TableFound(x) = table}
  <2>1. stated # {}
    <3>1. PICK f \in read : table \in Sql!Says(f, "create")
      BY <1>8
    <3> QED  BY <1>4, <3>1
  <2>2. \A x \in stated : IsEntry(x) /\ x.path.name \in Nat /\ x.line \in Nat
    BY <1>3 DEF IsEntry
  <2>3. PICK x \in stated : \A y \in stated : ~ Sql!Earlier(y, x)
    <3> HIDE DEF stated
    <3> QED  BY <2>1, <2>2, FirstEntry
  <2>4. ASSUME NEW y \in Sql!Stated(input, "create"), y.table = x.table
        PROVE  ~ Sql!Earlier(y, x)
    <3>1. Sql!TableFound(y) = Sql!TableFound(x)
      BY <2>4 DEF Sql!TableFound
    <3> QED  BY <2>3, <3>1
  <2>5. ASSUME NEW y \in Sql!Stated(input, "enable")  PROVE y.table # x.table
    <3>1. PICK g \in read : Sql!TableFound(y) \in Sql!Says(g, "enable")
      BY <1>3
    <3>2. Sql!TableFound(y) # table
      BY <1>8, <3>1
    <3> QED  BY <2>3, <3>2 DEF Sql!TableFound
  <2>6. x \in Sql!RlsFindings(input)
    BY <2>3, <2>4, <2>5 DEF Sql!RlsFindings, Sql!Created, Sql!Enabled
  <2> QED  BY <2>3, <2>6
<1>9. ASSUME NEW x \in Sql!RlsFindings(input), NEW y \in Sql!RlsFindings(input),
             Sql!TableFound(x) = Sql!TableFound(y)
      PROVE  x = y
  <2>1. PICK f \in read : IsEntry(x) /\ x.path = f.path /\ x.path.name \in Nat
    BY <1>3, <1>6
  <2>2. PICK g \in read : IsEntry(y) /\ y.path = g.path /\ y.path.name \in Nat
    BY <1>3, <1>6
  <2>3. x.table = y.table
    BY <1>5, <1>9, <2>1, <2>2
  <2>4. ~ Sql!Earlier(x, y) /\ ~ Sql!Earlier(y, x)
    BY <1>6, <2>3
  <2>5. x.path.name = y.path.name /\ x.line = y.line
    BY <2>1, <2>2, <2>4 DEF Sql!Earlier, IsEntry
  <2>6. x.path = y.path
    BY <1>1, <2>1, <2>2, <2>5 DEF IsRepository
  <2> QED  BY <2>1, <2>2, <2>3, <2>5, <2>6 DEF IsEntry
<1>10. ASSUME NEW x \in Sql!RlsFindings(input), NEW f \in read,
              Sql!TableFound(x) \in Sql!Says(f, "create")
       PROVE  x.path.name <= f.path.name
  <2>1. IsEntry(x) /\ x.path.name \in Nat
    BY <1>3, <1>6
  <2>2. PICK y \in Sql!Stated(input, "create") :
          Sql!TableFound(y) = Sql!TableFound(x) /\ y.path = f.path
    BY <1>4, <1>10
  <2>3. IsEntry(y) /\ y.path.name \in Nat
    BY <1>3
  <2>4. ~ Sql!Earlier(y, x)
    BY <1>5, <1>6, <2>1, <2>2, <2>3
  <2> QED  BY <2>1, <2>2, <2>3, <2>4 DEF Sql!Earlier
<1>11. {Sql!TableFound(x) : x \in Sql!RlsFindings(input)}
         = creates \ enables
  <2> HIDE DEF creates, enables
  <2> QED  BY <1>7, <1>8
<1>12. Sql!Told(Sql!RlsFindings(input), read)
  <2> HIDE DEF read
  <2> QED  BY <1>9, <1>10, <1>11 DEF Sql!Told
<1> QED  BY <1>12 DEF Sql!RlsTold

(* RlsTold of every such repository. *)
THEOREM TablesAreTold ==
  ASSUME part = "migrations" => IsRepository(input)
  PROVE  RlsTold
BY RepositoryIsTold DEF RlsTold

-----------------------------------------------------------------------------
(* The repositories TLC starts from are such repositories. *)
LettersRun == {"", "t", "public", "auth"}

LEMMA WordsRun ==
  ASSUME LettersRun \subseteq Letters
  PROVE  Sql!Creates \in SUBSET StatementsWritten /\ Sql!Enables \in SUBSET StatementsWritten
<1>1. "" \in Letters /\ "t" \in Letters /\ "public" \in Letters /\ "auth" \in Letters
  BY DEF LettersRun
<1>2. Sql!NoSchema \in Words /\ Sql!Plain \in Words /\ Sql!Shouted \in Words /\ Sql!Kept \in Words
  <2>1. Sql!NoSchema \in Words
    BY <1>1 DEF Sql!NoSchema, Words
  <2>2. Sql!Plain \in Words /\ Sql!Shouted \in Words /\ Sql!Kept \in Words
    BY <1>1 DEF Sql!Plain, Sql!Shouted, Sql!Kept, Sql!Word, Words
  <2> QED  BY <2>1, <2>2
<1>3. ASSUME NEW kind \in {"create", "enable"}, NEW schema \in Words, NEW name \in Words
      PROVE  Sql!Statement(kind, schema, name) \in StatementsWritten
  BY DEF Sql!Statement, StatementsWritten
<1>4. Sql!Creates \in SUBSET StatementsWritten
  <2>1. Sql!Word("public", TRUE, FALSE) \in Words /\ Sql!Word("public", FALSE, TRUE) \in Words
    BY <1>1 DEF Sql!Word, Words
  <2>2. Sql!Word("t", FALSE, TRUE) \in Words /\ Sql!Word("auth", FALSE, FALSE) \in Words
    BY <1>1 DEF Sql!Word, Words
  <2>3. /\ Sql!Statement("create", Sql!NoSchema, Sql!Shouted) \in StatementsWritten
        /\ Sql!Statement("create", Sql!Word("auth", FALSE, FALSE), Sql!Plain) \in StatementsWritten
    BY <1>2, <1>3, <2>2
  <2>4. /\ Sql!Statement("create", Sql!Word("public", TRUE, FALSE), Sql!Word("t", FALSE, TRUE))
              \in StatementsWritten
        /\ Sql!Statement("create", Sql!Word("public", FALSE, TRUE), Sql!Kept) \in StatementsWritten
    BY <1>2, <1>3, <2>1, <2>2
  <2> QED  BY <2>3, <2>4 DEF Sql!Creates
<1>5. Sql!Enables \in SUBSET StatementsWritten
  BY <1>2, <1>3 DEF Sql!Enables
<1> QED  BY <1>4, <1>5

LEMMA ItemTyped ==
  ASSUME LettersRun \subseteq Letters,
         NEW places \in SUBSET Within, NEW item \in Sql!Items(places)
  PROVE  item \in ItemsWritten
BY WordsRun DEF ItemsWritten, Sql!Items

LEMMA RunsAreRepositories ==
  ASSUME LettersRun \subseteq Letters, Sql!RepoInit
  PROVE  IsRepository(input)
<1>1. ASSUME NEW x \in Sql!Items({"code", "block", "string"}), NEW y \in Sql!Items({"code"}),
             NEW z \in Sql!Items({"code", "line", "block", "string", "body"}), NEW ext,
             input = {Sql!File(1, Sql!MIGRATIONS, "sql", TRUE, <<x, y>>),
                     Sql!File(2, Sql!MIGRATIONS, ext, TRUE, <<z>>)}
      PROVE  IsRepository(input)
  <2>1. x \in ItemsWritten /\ y \in ItemsWritten /\ z \in ItemsWritten
    BY ItemTyped DEF Within
  <2>2. <<x, y>> \in Seq(ItemsWritten) /\ <<z>> \in Seq(ItemsWritten)
    BY <2>1
  <2>3. PICK f, g : f = Sql!File(1, Sql!MIGRATIONS, "sql", TRUE, <<x, y>>)
                    /\ g = Sql!File(2, Sql!MIGRATIONS, ext, TRUE, <<z>>)
    OBVIOUS
  <2>4. IsFile(f) /\ f.path.name = 1
    BY <2>2, <2>3 DEF IsFile, Sql!File, Texts
  <2>5. IsFile(g) /\ g.path.name = 2
    BY <2>2, <2>3 DEF IsFile, Sql!File, Texts
  <2>6. input = {f, g}
    BY <1>1, <2>3
  <2> QED  BY <2>4, <2>5, <2>6 DEF IsRepository
<1>2. ASSUME NEW x \in Sql!Items({"code"}), NEW y \in Sql!Items({"code"}),
             NEW z \in Sql!Items({"code", "block", "body"}),
             input = {Sql!File(1, Sql!MIGRATIONS, "sql", FALSE, <<x>>),
                     Sql!File(2, "supabase/migrations/x", "sql", TRUE, <<y>>),
                     Sql!File(3, Sql!MIGRATIONS, "sql", TRUE, <<z>>)}
      PROVE  IsRepository(input)
  <2>1. x \in ItemsWritten /\ y \in ItemsWritten /\ z \in ItemsWritten
    BY ItemTyped DEF Within
  <2>2. <<x>> \in Seq(ItemsWritten) /\ <<y>> \in Seq(ItemsWritten) /\ <<z>> \in Seq(ItemsWritten)
    BY <2>1
  <2>3. PICK f, g, h : /\ f = Sql!File(1, Sql!MIGRATIONS, "sql", FALSE, <<x>>)
                       /\ g = Sql!File(2, "supabase/migrations/x", "sql", TRUE, <<y>>)
                       /\ h = Sql!File(3, Sql!MIGRATIONS, "sql", TRUE, <<z>>)
    OBVIOUS
  <2>4. IsFile(f) /\ f.path.name = 1
    BY <2>2, <2>3 DEF IsFile, Sql!File, Texts
  <2>5. IsFile(g) /\ g.path.name = 2
    BY <2>2, <2>3 DEF IsFile, Sql!File, Texts
  <2>6. IsFile(h) /\ h.path.name = 3
    BY <2>2, <2>3 DEF IsFile, Sql!File, Texts
  <2>7. input = {f, g, h}
    BY <1>2, <2>3
  <2> QED  BY <2>4, <2>5, <2>6, <2>7 DEF IsRepository
<1> QED  BY <1>1, <1>2 DEF Sql!RepoInit

(* So RlsTold, and for good, of every repository the runs start from. *)
THEOREM RunsAreTold ==
  LettersRun \subseteq Letters /\ (part = "migrations" => SqlInit) /\ [][FALSE]_<<part, input>>
    => []RlsTold
<1> DEFINE Start == LettersRun \subseteq Letters /\ (part = "migrations" => SqlInit)
<1>1. Start => RlsTold
  <2> SUFFICES ASSUME LettersRun \subseteq Letters, part = "migrations" => SqlInit
               PROVE  RlsTold
    OBVIOUS
  <2> QED  BY RunsAreRepositories, TablesAreTold DEF SqlInit
<1>2. Start /\ [FALSE]_<<part, input>> => Start'
  <2> SUFFICES ASSUME Start, UNCHANGED <<part, input>>  PROVE Start'
    OBVIOUS
  <2> QED  BY DEF SqlInit, Sql!RepoInit, LettersRun
<1> QED  BY <1>1, <1>2, PTL
=============================================================================
