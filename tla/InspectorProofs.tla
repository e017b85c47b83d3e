-------------------------- MODULE InspectorProofs --------------------------
(***************************************************************************)
(* The inspector serves committed history, for every history of a network, *)
(* any number of request threads and every bound: what its index holds,    *)
(* what a view shows, and what a client sees who pages through the feed.   *)
(***************************************************************************)
EXTENDS Inspector, ArtifactLedgerProofs, FiniteSetTheorems

-----------------------------------------------------------------------------
(* Sequences.                                                              *)

\* A set of sequences that holds the empty one, and with each its
\* extensions, holds them all.
LEMMA SeqInduction ==
  ASSUME NEW T, NEW X \in SUBSET Seq(T), <<>> \in X,
         \A s \in X : \A e \in T : Append(s, e) \in X
  PROVE  X = Seq(T)
<1> DEFINE N == {n \in Nat : \A s \in Seq(T) : Len(s) = n => s \in X}
<1>1. 0 \in N
  BY EmptySeq
<1>2. ASSUME NEW n \in N PROVE n + 1 \in N
  <2>1. n \in Nat /\ n + 1 \in Nat /\ \A s \in Seq(T) : Len(s) = n => s \in X
    OBVIOUS
  <2>2. ASSUME NEW s \in Seq(T), Len(s) = n + 1 PROVE s \in X
    <3>1. s # <<>>
      BY <2>1, <2>2, EmptySeq
    <3>2. PICK front \in Seq(T), e \in T : s = Append(front, e)
      BY <3>1, SequenceEmptyOrAppend
    <3>3. Len(front) = n
      BY <2>1, <2>2, <3>2, AppendProperties, LenProperties
    <3>. QED  BY <2>1, <3>2, <3>3
  <2>. QED  BY <2>1, <2>2
<1>3. N = Nat
  <2>. HIDE DEF N
  <2>. QED  BY <1>1, <1>2, Induction DEF N
<1>4. \A s \in Seq(T) : s \in X
  BY <1>3, LenProperties
<1>. QED  BY <1>4

\* f[i] joins the first i of some sequences.
Joins(f, ss, n) ==
  /\ f = [i \in 1 .. n |-> f[i]]
  /\ \A i \in 1 .. n : f[i] = IF i = 1 THEN ss[i] ELSE f[i - 1] \o ss[i]

LEMMA JoinsOn ==
  ASSUME NEW ss, NEW n \in Nat, NEW f, Joins(f, ss, n), NEW tt,
         \A i \in 1 .. n : tt[i] = ss[i]
  PROVE  LET last == IF n = 0 THEN tt[1] ELSE f[n] \o tt[n + 1]
         IN  Joins([i \in 1 .. n + 1 |-> IF i \in 1 .. n THEN f[i] ELSE last], tt, n + 1)
<1> DEFINE last == IF n = 0 THEN tt[1] ELSE f[n] \o tt[n + 1]
           g == [i \in 1 .. n + 1 |-> IF i \in 1 .. n THEN f[i] ELSE last]
<1>1. g = [i \in 1 .. n + 1 |-> g[i]]
  <2>. HIDE DEF last
  <2>. QED  OBVIOUS
<1>2. ASSUME NEW i \in 1 .. n + 1
      PROVE  g[i] = IF i = 1 THEN tt[i] ELSE g[i - 1] \o tt[i]
  <2>1. CASE i \in 1 .. n
    <3>1. i \in 1 .. n + 1 /\ (i # 1 => i - 1 \in 1 .. n /\ i - 1 \in 1 .. n + 1)
      BY <2>1
    <3>2. g[i] = f[i] /\ (i # 1 => g[i - 1] = f[i - 1])
      BY <2>1, <3>1
    <3>. QED  BY <2>1, <3>2 DEF Joins
  <2>2. CASE i = n + 1 /\ n = 0
    BY <2>2
  <2>3. CASE i = n + 1 /\ n # 0
    <3>1. i # 1 /\ i - 1 = n /\ n \in 1 .. n /\ n \in 1 .. n + 1 /\ i \notin 1 .. n
      BY <2>3
    <3>2. g[i] = last /\ g[i - 1] = f[n]
      BY <3>1
    <3>. QED  BY <2>3, <3>1, <3>2
  <2>. QED  BY <2>1, <2>2, <2>3
<1>. QED  BY <1>1, <1>2 DEF Joins

\* Every sequence of sequences can be joined.
LEMMA JoinsExist ==
  ASSUME NEW ss, Len(ss) \in Nat
  PROVE  \E f : Joins(f, ss, Len(ss))
<1> DEFINE N == {n \in Nat : \E f : Joins(f, ss, n)}
<1>1. 0 \in N
  <2>1. Joins([i \in 1 .. 0 |-> ss], ss, 0)
    BY DEF Joins
  <2>. QED  BY <2>1
<1>2. ASSUME NEW n \in N PROVE n + 1 \in N
  <2>1. n \in Nat /\ n + 1 \in Nat
    OBVIOUS
  <2>2. PICK f : Joins(f, ss, n)
    OBVIOUS
  <2>3. \E g : Joins(g, ss, n + 1)
    BY <2>1, <2>2, JoinsOn
  <2>. QED  BY <2>1, <2>3
<1>3. N = Nat
  <2>. HIDE DEF N
  <2>. QED  BY <1>1, <1>2, Induction DEF N
<1>. QED  BY <1>3

\* FlattenSeq is what they join to.
LEMMA FlattenJoins ==
  ASSUME NEW ss, Len(ss) \in Nat \ {0}, NEW f, Joins(f, ss, Len(ss))
  PROVE  FlattenSeq(ss) = f[Len(ss)]
<1> DEFINE After(g) ==
      [i \in 1 .. Len(ss) |-> IF i = 1 THEN ss[i] ELSE g[i - 1] \o ss[i]]
      after == CHOOSE g : g = After(g)
<1>1. f = After(f)
  <2>1. \A i \in 1 .. Len(ss) : f[i] = After(f)[i]
    BY DEF Joins
  <2>2. f = [i \in 1 .. Len(ss) |-> f[i]]
    BY DEF Joins
  <2>. QED  BY <2>1, <2>2
<1>2. after = After(after)
  <2>. HIDE DEF After
  <2>1. \E g : g = After(g)
    BY <1>1
  <2>. QED  BY <2>1, Zenon
<1>3. FlattenSeq(ss) = after[Len(ss)]
  BY DEF FlattenSeq
<1>. HIDE DEF after
<1> DEFINE N == {n \in Nat : n \in 1 .. Len(ss) => after[n] = f[n]}
<1>4. 0 \in N
  OBVIOUS
<1>5. ASSUME NEW n \in N PROVE n + 1 \in N
  <2>. SUFFICES ASSUME n + 1 \in 1 .. Len(ss) PROVE after[n + 1] = f[n + 1]
    OBVIOUS
  <2>1. n \in Nat /\ (n + 1) - 1 = n /\ (n + 1 # 1 => after[n] = f[n])
    OBVIOUS
  <2>2. After(after)[n + 1] = After(f)[n + 1]
    BY <2>1
  <2>. HIDE DEF After
  <2>. QED  BY <1>1, <1>2, <2>2
<1>6. N = Nat
  <2>. HIDE DEF N
  <2>. QED  BY <1>4, <1>5, Induction DEF N
<1>7. Len(ss) \in Nat /\ Len(ss) \in 1 .. Len(ss)
  OBVIOUS
<1>8. after[Len(ss)] = f[Len(ss)]
  BY <1>6, <1>7
<1>. QED  BY <1>3, <1>8

LEMMA FlattenEmpty == FlattenSeq(<<>>) = <<>>
BY DEF FlattenSeq

\* One sequence more is joined at the end.
LEMMA FlattenAppend ==
  ASSUME NEW T, NEW ss \in Seq(Seq(T)), NEW t \in Seq(T)
  PROVE  FlattenSeq(Append(ss, t)) = FlattenSeq(ss) \o t
<1> DEFINE n == Len(ss)
           tt == Append(ss, t)
<1>1. /\ n \in Nat /\ Len(tt) = n + 1 /\ tt[n + 1] = t
      /\ \A i \in 1 .. n : tt[i] = ss[i]
  BY AppendProperties, LenProperties
<1>2. PICK f : Joins(f, ss, n)
  BY <1>1, JoinsExist
<1> DEFINE last == IF n = 0 THEN tt[1] ELSE f[n] \o tt[n + 1]
           g == [i \in 1 .. n + 1 |-> IF i \in 1 .. n THEN f[i] ELSE last]
<1>3. Joins(g, tt, n + 1)
  <2>. HIDE DEF n, tt
  <2>. QED  BY <1>1, <1>2, JoinsOn
<1>4. FlattenSeq(tt) = g[n + 1]
  <2>. HIDE DEF n, tt, g
  <2>1. Len(tt) \in Nat \ {0} /\ Joins(g, tt, Len(tt))
    BY <1>1, <1>3
  <2>. QED  BY <1>1, <2>1, FlattenJoins
<1>5. g[n + 1] = last
  BY <1>1
<1>6. CASE n = 0
  <2>1. ss = <<>> /\ tt[1] = t
    BY <1>1, <1>6, EmptySeq
  <2>2. <<>> \o t = t
    BY ConcatEmptySeq
  <2>. QED  BY <1>4, <1>5, <1>6, <2>1, <2>2, FlattenEmpty
<1>7. CASE n # 0
  <2>1. n \in Nat \ {0}
    BY <1>1, <1>7
  <2>2. FlattenSeq(ss) = f[n]
    BY <1>2, <2>1, FlattenJoins
  <2>. QED  BY <1>1, <1>4, <1>5, <1>7, <2>2
<1>. QED  BY <1>6, <1>7

LEMMA FlattenType ==
  ASSUME NEW T, NEW ss \in Seq(Seq(T))
  PROVE  FlattenSeq(ss) \in Seq(T)
<1> DEFINE X == {s \in Seq(Seq(T)) : FlattenSeq(s) \in Seq(T)}
<1>1. <<>> \in X
  BY FlattenEmpty, EmptySeq
<1>2. ASSUME NEW s \in X, NEW t \in Seq(T) PROVE Append(s, t) \in X
  <2>1. s \in Seq(Seq(T)) /\ FlattenSeq(s) \in Seq(T)
    OBVIOUS
  <2>2. Append(s, t) \in Seq(Seq(T))
    BY <2>1, AppendProperties
  <2>3. FlattenSeq(s) \o t \in Seq(T)
    BY <2>1, ConcatProperties
  <2>. QED  BY <2>1, <2>2, <2>3, FlattenAppend
<1>3. X = Seq(Seq(T))
  <2>. HIDE DEF X
  <2>1. X \in SUBSET Seq(Seq(T))
    BY DEF X
  <2>. QED  BY <1>1, <1>2, <2>1, SeqInduction
<1>. QED  BY <1>3

\* A sequence mapped member by member, with one member more.
LEMMA MapAppend ==
  ASSUME NEW T, NEW U, NEW s \in Seq(T), NEW e \in T, NEW old, NEW new,
         DOMAIN old = DOMAIN s, old \in Seq(U), DOMAIN new = DOMAIN Append(s, e), new \in Seq(U),
         \A i \in DOMAIN s : new[i] = old[i]
  PROVE  new = Append(old, new[Len(s) + 1]) /\ new[Len(s) + 1] \in U
<1>1. /\ Len(s) \in Nat /\ DOMAIN s = 1 .. Len(s)
      /\ DOMAIN Append(s, e) = 1 .. Len(s) + 1
  BY AppendProperties, LenProperties
<1>2. Len(old) = Len(s) /\ Len(new) = Len(s) + 1
  BY <1>1, LenProperties
<1>3. new[Len(s) + 1] \in U
  BY <1>1, <1>2, ElementOfSeq
<1> DEFINE last == new[Len(s) + 1]
           app == Append(old, last)
<1>4. /\ app \in Seq(U) /\ Len(app) = Len(s) + 1 /\ app[Len(s) + 1] = last
      /\ \A i \in 1 .. Len(s) : app[i] = old[i]
  <2>. HIDE DEF last
  <2>. QED  BY <1>2, <1>3, AppendProperties DEF last
<1>5. \A i \in 1 .. Len(new) : new[i] = app[i]
  <2>. HIDE DEF app
  <2>1. ASSUME NEW i \in 1 .. Len(new) PROVE i \in 1 .. Len(s) \/ i = Len(s) + 1
    BY <1>1, <1>2
  <2>. QED  BY <1>1, <1>2, <1>4, <2>1
<1>. HIDE DEF app
<1>6. new = app
  BY <1>2, <1>4, <1>5, SeqEqual
<1>. QED  BY <1>3, <1>6 DEF app

LEMMA OnlyEmpty == \A S : Only(<<>>, S) = <<>>
<1>1. ASSUME NEW S
      PROVE  [i \in DOMAIN <<>> |-> IF <<>>[i] \in S THEN << <<>>[i] >> ELSE <<>>] = <<>>
  BY EmptySeq
<1>. QED  BY <1>1, FlattenEmpty DEF Only

LEMMA OnlyAppend ==
  ASSUME NEW T, NEW s \in Seq(T), NEW e \in T, NEW S
  PROVE  Only(Append(s, e), S) = Only(s, S) \o (IF e \in S THEN <<e>> ELSE <<>>)
<1> DEFINE Kept(q) == [i \in DOMAIN q |-> IF q[i] \in S THEN <<q[i]>> ELSE <<>>]
           n == Len(s)
<1>1. ASSUME NEW q \in Seq(T) PROVE Kept(q) \in Seq(Seq(T)) /\ DOMAIN Kept(q) = DOMAIN q
  <2>1. \A i \in DOMAIN q : q[i] \in T
    BY ElementOfSeq, LenProperties
  <2>2. \A i \in DOMAIN q : <<q[i]>> \in Seq(T) /\ <<>> \in Seq(T)
    BY <2>1
  <2>3. DOMAIN q = 1 .. Len(q) /\ Len(q) \in Nat
    BY LenProperties
  <2>. QED  BY <2>2, <2>3, IsASeq
<1>2. /\ n \in Nat /\ DOMAIN s = 1 .. n /\ Append(s, e) \in Seq(T)
      /\ DOMAIN Append(s, e) = 1 .. n + 1 /\ Append(s, e)[n + 1] = e
      /\ \A i \in 1 .. n : Append(s, e)[i] = s[i]
  BY AppendProperties, LenProperties
<1>3. \A i \in DOMAIN s : Kept(Append(s, e))[i] = Kept(s)[i]
  BY <1>2
<1>4. Kept(Append(s, e))[n + 1] = IF e \in S THEN <<e>> ELSE <<>>
  BY <1>2
<1>5. Only(s, S) = FlattenSeq(Kept(s)) /\ Only(Append(s, e), S) = FlattenSeq(Kept(Append(s, e)))
  BY DEF Only
<1>. HIDE DEF Kept
<1>6. /\ Kept(Append(s, e)) = Append(Kept(s), Kept(Append(s, e))[n + 1])
      /\ Kept(Append(s, e))[n + 1] \in Seq(T)
  <2>1. /\ Kept(s) \in Seq(Seq(T)) /\ DOMAIN Kept(s) = DOMAIN s
        /\ Kept(Append(s, e)) \in Seq(Seq(T))
        /\ DOMAIN Kept(Append(s, e)) = DOMAIN Append(s, e)
    BY <1>1, <1>2
  <2> DEFINE U == Seq(T)
             old == Kept(s)
             new == Kept(Append(s, e))
  <2>2. /\ old \in Seq(U) /\ DOMAIN old = DOMAIN s
        /\ new \in Seq(U) /\ DOMAIN new = DOMAIN Append(s, e)
        /\ \A i \in DOMAIN s : new[i] = old[i]
    BY <2>1, <1>3
  <2>. HIDE DEF U, old, new
  <2>3. new = Append(old, new[Len(s) + 1]) /\ new[Len(s) + 1] \in U
    BY <2>2, MapAppend
  <2>. QED  BY <2>3 DEF U, old, new
<1>7. FlattenSeq(Kept(Append(s, e))) = FlattenSeq(Kept(s)) \o Kept(Append(s, e))[n + 1]
  BY <1>1, <1>6, FlattenAppend
<1>. QED  BY <1>4, <1>5, <1>7

\* The members of a sequence that grows.
LEMMA Members ==
  /\ ToSet(<<>>) = {}
  /\ \A T : \A s \in Seq(T), e \in T : ToSet(Append(s, e)) = ToSet(s) \cup {e}
  /\ \A T : \A s, t \in Seq(T) : ToSet(s \o t) = ToSet(s) \cup ToSet(t)
  /\ \A T : \A s \in Seq(T) : ToSet(s) \subseteq T
<1>1. ToSet(<<>>) = {}
  <2>1. DOMAIN <<>> = {}
    OBVIOUS
  <2>. QED  BY <2>1 DEF ToSet
<1>2. ASSUME NEW T, NEW s \in Seq(T), NEW e \in T PROVE ToSet(Append(s, e)) = ToSet(s) \cup {e}
  <2>1. /\ Len(s) \in Nat /\ DOMAIN s = 1 .. Len(s)
        /\ DOMAIN Append(s, e) = 1 .. Len(s) + 1 /\ Append(s, e)[Len(s) + 1] = e
        /\ \A i \in 1 .. Len(s) : Append(s, e)[i] = s[i]
    BY AppendProperties, LenProperties
  <2>2. 1 .. Len(s) + 1 = (1 .. Len(s)) \cup {Len(s) + 1}
    BY <2>1
  <2>. QED  BY <2>1, <2>2 DEF ToSet
<1>3. ASSUME NEW T, NEW s \in Seq(T), NEW t \in Seq(T) PROVE ToSet(s \o t) = ToSet(s) \cup ToSet(t)
  <2>1. /\ Len(s) \in Nat /\ DOMAIN s = 1 .. Len(s)
        /\ Len(t) \in Nat /\ DOMAIN t = 1 .. Len(t)
        /\ DOMAIN (s \o t) = 1 .. Len(s) + Len(t)
        /\ \A i \in 1 .. Len(s) + Len(t) :
             (s \o t)[i] = IF i <= Len(s) THEN s[i] ELSE t[i - Len(s)]
    BY ConcatProperties, LenProperties
  <2>2. ASSUME NEW i \in DOMAIN s PROVE s[i] \in ToSet(s \o t)
    <3>1. i \in DOMAIN (s \o t) /\ (s \o t)[i] = s[i]
      BY <2>1
    <3>. QED  BY <3>1 DEF ToSet
  <2>3. ASSUME NEW i \in DOMAIN t PROVE t[i] \in ToSet(s \o t)
    <3>1. i + Len(s) \in DOMAIN (s \o t) /\ (s \o t)[i + Len(s)] = t[i]
      BY <2>1
    <3>. QED  BY <3>1 DEF ToSet
  <2>4. ASSUME NEW i \in DOMAIN (s \o t) PROVE (s \o t)[i] \in ToSet(s) \cup ToSet(t)
    <3>1. CASE i <= Len(s)
      <4>1. i \in DOMAIN s /\ (s \o t)[i] = s[i]
        BY <2>1, <3>1
      <4>. QED  BY <4>1 DEF ToSet
    <3>2. CASE ~(i <= Len(s))
      <4>1. i - Len(s) \in DOMAIN t /\ (s \o t)[i] = t[i - Len(s)]
        BY <2>1, <3>2
      <4>. QED  BY <4>1 DEF ToSet
    <3>. QED  BY <3>1, <3>2
  <2>. QED  BY <2>2, <2>3, <2>4 DEF ToSet
<1>4. ASSUME NEW T, NEW s \in Seq(T) PROVE ToSet(s) \subseteq T
  BY ElementOfSeq, LenProperties DEF ToSet
<1>. QED  BY <1>1, <1>2, <1>3, <1>4

\* What is kept are the members in the set.
LEMMA OnlyMembers ==
  ASSUME NEW T, NEW s \in Seq(T), NEW S
  PROVE  Only(s, S) \in Seq(T) /\ ToSet(Only(s, S)) = ToSet(s) \cap S
<1> DEFINE X == {q \in Seq(T) : Only(q, S) \in Seq(T) /\ ToSet(Only(q, S)) = ToSet(q) \cap S}
<1>1. <<>> \in X
  <2>1. ToSet(<<>>) = {} /\ Only(<<>>, S) = <<>> /\ <<>> \in Seq(T)
    BY OnlyEmpty, EmptySeq, Members
  <2>. QED  BY <2>1
<1>2. ASSUME NEW q \in X, NEW e \in T PROVE Append(q, e) \in X
  <2>1. q \in Seq(T) /\ Only(q, S) \in Seq(T) /\ ToSet(Only(q, S)) = ToSet(q) \cap S
    OBVIOUS
  <2>2. Append(q, e) \in Seq(T) /\ ToSet(Append(q, e)) = ToSet(q) \cup {e}
    BY <2>1, AppendProperties, Members
  <2>3. CASE e \in S
    <3>0. Append(Only(q, S), e) = Only(q, S) \o <<e>>
      BY <2>1, AppendIsConcat
    <3>1. Only(Append(q, e), S) = Append(Only(q, S), e)
      BY <2>1, <2>3, <3>0, OnlyAppend
    <3>2. Append(Only(q, S), e) \in Seq(T) /\ ToSet(Append(Only(q, S), e)) = ToSet(Only(q, S)) \cup {e}
      BY <2>1, AppendProperties, Members
    <3>. QED  BY <2>1, <2>2, <2>3, <3>1, <3>2
  <2>4. CASE e \notin S
    <3>0. Only(q, S) \o <<>> = Only(q, S)
      BY <2>1, ConcatEmptySeq
    <3>1. Only(Append(q, e), S) = Only(q, S)
      BY <2>1, <2>4, <3>0, OnlyAppend
    <3>. QED  BY <2>1, <2>2, <2>4, <3>1
  <2>. QED  BY <2>3, <2>4
<1>3. X = Seq(T)
  <2>. HIDE DEF X
  <2>1. X \in SUBSET Seq(T)
    BY DEF X
  <2>. QED  BY <1>1, <1>2, <2>1, SeqInduction
<1>. QED  BY <1>3

LEMMA OnlyConcat ==
  ASSUME NEW T, NEW s \in Seq(T), NEW t \in Seq(T), NEW S
  PROVE  Only(s \o t, S) = Only(s, S) \o Only(t, S)
<1> DEFINE X == {q \in Seq(T) : Only(s \o q, S) = Only(s, S) \o Only(q, S)}
<1>0. Only(s, S) \in Seq(T)
  BY OnlyMembers
<1>1. <<>> \in X
  <2>1. s \o <<>> = s /\ Only(s, S) \o <<>> = Only(s, S) /\ Only(<<>>, S) = <<>> /\ <<>> \in Seq(T)
    BY <1>0, ConcatEmptySeq, OnlyEmpty, EmptySeq
  <2>. QED  BY <2>1
<1>2. ASSUME NEW q \in X, NEW e \in T PROVE Append(q, e) \in X
  <2> DEFINE kept == IF e \in S THEN <<e>> ELSE <<>>
  <2>1. q \in Seq(T) /\ Only(s \o q, S) = Only(s, S) \o Only(q, S) /\ Append(q, e) \in Seq(T)
    BY AppendProperties
  <2>2. s \o q \in Seq(T) /\ Only(q, S) \in Seq(T) /\ kept \in Seq(T) /\ <<e>> \in Seq(T)
    BY <2>1, ConcatProperties, OnlyMembers
  <2>3. s \o Append(q, e) = Append(s \o q, e)
    <3>1. Append(q, e) = q \o <<e>> /\ Append(s \o q, e) = (s \o q) \o <<e>>
      BY <2>1, <2>2, AppendIsConcat
    <3>. QED  BY <2>1, <2>2, <3>1, ConcatAssociative
  <2>4. /\ Only(Append(s \o q, e), S) = Only(s \o q, S) \o kept
        /\ Only(Append(q, e), S) = Only(q, S) \o kept
    BY <2>1, <2>2, OnlyAppend
  <2>. HIDE DEF kept
  <2>5. (Only(s, S) \o Only(q, S)) \o kept = Only(s, S) \o (Only(q, S) \o kept)
    <3>1. \A x, y, z \in Seq(T) : (x \o y) \o z = x \o (y \o z)
      BY ConcatAssociative
    <3>. QED  BY <1>0, <2>2, <3>1
  <2>. QED  BY <2>1, <2>3, <2>4, <2>5
<1>3. X = Seq(T)
  <2>. HIDE DEF X
  <2>1. X \in SUBSET Seq(T)
    BY DEF X
  <2>. QED  BY <1>1, <1>2, <2>1, SeqInduction
<1>. QED  BY <1>3

\* A sequence of members of the set is kept whole, one of others not at all.
LEMMA OnlyAll ==
  ASSUME NEW T, NEW s \in Seq(T), NEW S
  PROVE  /\ ToSet(s) \subseteq S => Only(s, S) = s
         /\ ToSet(s) \cap S = {} => Only(s, S) = <<>>
<1> DEFINE X == {q \in Seq(T) : ToSet(q) \subseteq S => Only(q, S) = q}
<1>1. <<>> \in X
  BY OnlyEmpty, EmptySeq
<1>2. ASSUME NEW q \in X, NEW e \in T PROVE Append(q, e) \in X
  <2>1. q \in Seq(T) /\ (ToSet(q) \subseteq S => Only(q, S) = q) /\ Append(q, e) \in Seq(T)
    BY AppendProperties
  <2>2. SUFFICES ASSUME ToSet(Append(q, e)) \subseteq S PROVE Only(Append(q, e), S) = Append(q, e)
    BY <2>1
  <2>3. ToSet(q) \subseteq S /\ e \in S
    BY <2>1, <2>2, Members
  <2>4. Append(q, e) = q \o <<e>>
    BY <2>1, AppendIsConcat
  <2>5. Only(Append(q, e), S) = Only(q, S) \o (IF e \in S THEN <<e>> ELSE <<>>)
    BY <2>1, OnlyAppend
  <2>. QED  BY <2>1, <2>3, <2>4, <2>5
<1>3. X = Seq(T)
  <2>. HIDE DEF X
  <2>1. X \in SUBSET Seq(T)
    BY DEF X
  <2>. QED  BY <1>1, <1>2, <2>1, SeqInduction
<1>4. ASSUME ToSet(s) \cap S = {} PROVE Only(s, S) = <<>>
  <2>1. Only(s, S) \in Seq(T) /\ ToSet(Only(s, S)) = {}
    BY <1>4, OnlyMembers
  <2>2. DOMAIN Only(s, S) = {}
    BY <2>1 DEF ToSet
  <2>. QED  BY <2>1, <2>2, LenProperties, EmptySeq
<1>. QED  BY <1>3, <1>4

\* Sets that agree on the members keep the same.
LEMMA OnlySame ==
  ASSUME NEW s, NEW A, NEW B, ToSet(s) \cap A = ToSet(s) \cap B
  PROVE  Only(s, A) = Only(s, B)
<1>1. \A i \in DOMAIN s : s[i] \in A <=> s[i] \in B
  BY DEF ToSet
<1>2. [i \in DOMAIN s |-> IF s[i] \in A THEN <<s[i]>> ELSE <<>>]
      = [i \in DOMAIN s |-> IF s[i] \in B THEN <<s[i]>> ELSE <<>>]
  BY <1>1
<1>. QED  BY <1>2 DEF Only

\* A member that is kept ends the result, one that is not leaves it alone.
LEMMA OnlyAppendIn ==
  ASSUME NEW T, NEW s \in Seq(T), NEW e \in T, NEW S, e \in S
  PROVE  Only(Append(s, e), S) = Append(Only(s, S), e)
<1>1. Only(Append(s, e), S) = Only(s, S) \o (IF e \in S THEN <<e>> ELSE <<>>)
  BY OnlyAppend
<1>2. Only(Append(s, e), S) = Only(s, S) \o <<e>>
  BY <1>1
<1>3. Only(s, S) \in Seq(T)
  BY OnlyMembers
<1>4. Append(Only(s, S), e) = Only(s, S) \o <<e>>
  BY <1>3, AppendIsConcat
<1>. QED  BY <1>2, <1>4

LEMMA OnlyAppendOut ==
  ASSUME NEW T, NEW s \in Seq(T), NEW e \in T, NEW S, e \notin S
  PROVE  Only(Append(s, e), S) = Only(s, S)
<1>1. Only(Append(s, e), S) = Only(s, S) \o (IF e \in S THEN <<e>> ELSE <<>>)
  BY OnlyAppend
<1>2. Only(Append(s, e), S) = Only(s, S) \o <<>>
  BY <1>1
<1>3. Only(s, S) \in Seq(T)
  BY OnlyMembers
<1>. QED  BY <1>2, <1>3, ConcatEmptySeq

LEMMA OnlyTwice ==
  ASSUME NEW T, NEW s \in Seq(T), NEW A, NEW B
  PROVE  Only(Only(s, A), B) = Only(s, A \cap B)
<1> DEFINE C == A \cap B
<1>0. \A x : x \in C <=> x \in A /\ x \in B
  OBVIOUS
<1>. HIDE DEF C
<1> DEFINE X == {q \in Seq(T) : Only(Only(q, A), B) = Only(q, C)}
<1>1. <<>> \in X
  BY OnlyEmpty, EmptySeq
<1>2. ASSUME NEW q \in X, NEW e \in T PROVE Append(q, e) \in X
  <2>1. q \in Seq(T) /\ Only(Only(q, A), B) = Only(q, C) /\ Append(q, e) \in Seq(T)
    BY AppendProperties
  <2>. HIDE DEF X
  <2>2. Only(q, A) \in Seq(T)
    BY <2>1, OnlyMembers
  <2>3. Only(Only(Append(q, e), A), B) = Only(Append(q, e), C)
    <3>1. CASE e \in A /\ e \in B
      <4>1. Only(Append(q, e), A) = Append(Only(q, A), e)
        BY <2>1, <3>1, OnlyAppendIn
      <4>2. Only(Append(Only(q, A), e), B) = Append(Only(Only(q, A), B), e)
        BY <2>2, <3>1, OnlyAppendIn
      <4>3. e \in C
        BY <1>0, <3>1
      <4>4. Only(Append(q, e), C) = Append(Only(q, C), e)
        BY <2>1, <4>3, OnlyAppendIn
      <4>. QED  BY <2>1, <4>1, <4>2, <4>4
    <3>2. CASE e \in A /\ e \notin B
      <4>1. Only(Append(q, e), A) = Append(Only(q, A), e)
        BY <2>1, <3>2, OnlyAppendIn
      <4>2. Only(Append(Only(q, A), e), B) = Only(Only(q, A), B)
        BY <2>2, <3>2, OnlyAppendOut
      <4>3. e \notin C
        BY <1>0, <3>2
      <4>4. Only(Append(q, e), C) = Only(q, C)
        BY <2>1, <4>3, OnlyAppendOut
      <4>. QED  BY <2>1, <4>1, <4>2, <4>4
    <3>3. CASE e \notin A
      <4>1. Only(Append(q, e), A) = Only(q, A)
        BY <2>1, <3>3, OnlyAppendOut
      <4>2. e \notin C
        BY <1>0, <3>3
      <4>3. Only(Append(q, e), C) = Only(q, C)
        BY <2>1, <4>2, OnlyAppendOut
      <4>. QED  BY <2>1, <4>1, <4>3
    <3>. QED  BY <3>1, <3>2, <3>3
  <2>. QED  BY <2>1, <2>3 DEF X
<1>3. X = Seq(T)
  <2>. HIDE DEF X
  <2>1. X \in SUBSET Seq(T)
    BY DEF X
  <2>. QED  BY <1>1, <1>2, <2>1, SeqInduction
<1>. QED  BY <1>3 DEF C

\* No member occurs twice.
Distinct(s) == \A i, j \in DOMAIN s : s[i] = s[j] => i = j

LEMMA DistinctAppend ==
  ASSUME NEW T, NEW s \in Seq(T), NEW e \in T
  PROVE  Distinct(Append(s, e)) <=> Distinct(s) /\ e \notin ToSet(s)
<1>1. /\ Len(s) \in Nat /\ DOMAIN s = 1 .. Len(s)
      /\ DOMAIN Append(s, e) = 1 .. Len(s) + 1 /\ Append(s, e)[Len(s) + 1] = e
      /\ \A i \in 1 .. Len(s) : Append(s, e)[i] = s[i]
  BY AppendProperties, LenProperties
<1>2. 1 .. Len(s) + 1 = (1 .. Len(s)) \cup {Len(s) + 1} /\ Len(s) + 1 \notin 1 .. Len(s)
  BY <1>1
<1>3. ASSUME Distinct(Append(s, e)) PROVE Distinct(s) /\ e \notin ToSet(s)
  BY <1>1, <1>2, <1>3 DEF Distinct, ToSet
<1>4. ASSUME Distinct(s), e \notin ToSet(s),
             NEW i \in DOMAIN Append(s, e), NEW j \in DOMAIN Append(s, e),
             Append(s, e)[i] = Append(s, e)[j]
      PROVE  i = j
  <2>1. CASE i \in 1 .. Len(s) /\ j \in 1 .. Len(s)
    BY <1>1, <1>4, <2>1 DEF Distinct
  <2>2. CASE i \in 1 .. Len(s) /\ j = Len(s) + 1
    BY <1>1, <1>4, <2>2 DEF ToSet
  <2>3. CASE j \in 1 .. Len(s) /\ i = Len(s) + 1
    BY <1>1, <1>4, <2>3 DEF ToSet
  <2>4. CASE j = Len(s) + 1 /\ i = Len(s) + 1
    BY <2>4
  <2>. QED  BY <1>1, <1>2, <1>4, <2>1, <2>2, <2>3, <2>4
<1>. QED  BY <1>3, <1>4 DEF Distinct

LEMMA OnlyDistinct ==
  ASSUME NEW T, NEW s \in Seq(T), NEW S, Distinct(s)
  PROVE  Distinct(Only(s, S))
<1> DEFINE X == {q \in Seq(T) : Distinct(q) => Distinct(Only(q, S))}
<1>1. <<>> \in X
  BY OnlyEmpty, EmptySeq
<1>2. ASSUME NEW q \in X, NEW e \in T PROVE Append(q, e) \in X
  <2>1. q \in Seq(T) /\ (Distinct(q) => Distinct(Only(q, S))) /\ Append(q, e) \in Seq(T)
    BY AppendProperties
  <2>2. SUFFICES ASSUME Distinct(Append(q, e)) PROVE Distinct(Only(Append(q, e), S))
    BY <2>1
  <2>3. Distinct(Only(q, S)) /\ e \notin ToSet(q)
    BY <2>1, <2>2, DistinctAppend
  <2>4. Only(q, S) \in Seq(T) /\ e \notin ToSet(Only(q, S))
    BY <2>1, <2>3, OnlyMembers
  <2>5. CASE e \in S
    <3>0. Append(Only(q, S), e) = Only(q, S) \o <<e>>
      BY <2>4, AppendIsConcat
    <3>1. Only(Append(q, e), S) = Append(Only(q, S), e)
      BY <2>1, <2>5, <3>0, OnlyAppend
    <3>2. Distinct(Append(Only(q, S), e))
      BY <2>3, <2>4, DistinctAppend
    <3>. QED  BY <3>1, <3>2
  <2>6. CASE e \notin S
    <3>0. Only(q, S) \o <<>> = Only(q, S)
      BY <2>4, ConcatEmptySeq
    <3>1. Only(Append(q, e), S) = Only(q, S)
      BY <2>1, <2>6, <3>0, OnlyAppend
    <3>. QED  BY <2>3, <3>1
  <2>. QED  BY <2>5, <2>6
<1>3. X = Seq(T)
  <2>. HIDE DEF X
  <2>1. X \in SUBSET Seq(T)
    BY DEF X
  <2>. QED  BY <1>1, <1>2, <2>1, SeqInduction
<1>. QED  BY <1>3

-----------------------------------------------------------------------------
(* The artifacts of a ledger.                                              *)

ArtifactsOf(entry) == [i \in DOMAIN entry.tx.artifacts |-> Indexed(entry, i)]

\* A transaction holds a sequence of artifacts.
LEMMA EntryArtifacts ==
  ASSUME NEW e \in Entry
  PROVE  /\ e.tx \in Transaction /\ e.tx.chain \in Chain
         /\ e.tx.artifacts \in Seq(Artifact) /\ e.tx.artifacts # <<>>
         /\ DOMAIN e.tx.artifacts = 1 .. Len(e.tx.artifacts) /\ Len(e.tx.artifacts) \in Nat
         /\ \A i \in DOMAIN e.tx.artifacts :
              /\ e.tx.artifacts[i] \in Artifact
              /\ Indexed(e, i) \in IndexedArtifact
              /\ e.tx.artifacts[i].kind = "relation" =>
                   e.tx.artifacts[i].ends = {FromOf[e.tx.artifacts[i].ref],
                                             ToOf[e.tx.artifacts[i].ref]}
<1>1. e.height \in Nat \ {0} /\ e.index \in Nat /\ e.tx \in Transaction
  BY DEF Entry
<1>2. e.tx.chain \in Chain /\ e.tx.artifacts \in Seq(Artifact)
  BY <1>1, TransactionAssumption
<1>3. e.tx.artifacts # <<>>
  BY <1>1, ContentAssumption
<1>4. DOMAIN e.tx.artifacts = 1 .. Len(e.tx.artifacts) /\ Len(e.tx.artifacts) \in Nat
  BY <1>2, LenProperties
<1>5. ASSUME NEW i \in DOMAIN e.tx.artifacts
      PROVE  e.tx.artifacts[i] \in Artifact /\ Indexed(e, i) \in IndexedArtifact
  <2>1. e.tx.artifacts[i] \in Artifact
    BY <1>2, <1>4, ElementOfSeq
  <2>2. i - 1 \in Nat
    BY <1>4
  <2>3. e.tx.artifacts[i].ref \in Ref /\ e.tx.artifacts[i].kind \in {"contribution", "relation"}
    BY <2>1 DEF Artifact
  <2>. QED  BY <1>1, <1>2, <2>1, <2>2, <2>3 DEF Indexed, IndexedArtifact
<1>6. \A i \in DOMAIN e.tx.artifacts :
        e.tx.artifacts[i].kind = "relation" =>
          e.tx.artifacts[i].ends = {FromOf[e.tx.artifacts[i].ref], ToOf[e.tx.artifacts[i].ref]}
  BY <1>1, ContentAssumption
<1>. QED  BY <1>1, <1>2, <1>3, <1>4, <1>5, <1>6

LEMMA ArtifactsOfType ==
  ASSUME NEW e \in Entry
  PROVE  /\ ArtifactsOf(e) \in Seq(IndexedArtifact)
         /\ DOMAIN ArtifactsOf(e) = DOMAIN e.tx.artifacts
         /\ \A i \in DOMAIN e.tx.artifacts : ArtifactsOf(e)[i] = Indexed(e, i)
<1>1. DOMAIN ArtifactsOf(e) = DOMAIN e.tx.artifacts
  BY DEF ArtifactsOf
<1>2. ArtifactsOf(e) \in Seq(IndexedArtifact)
  BY EntryArtifacts, IsASeq DEF ArtifactsOf
<1>. QED  BY <1>1, <1>2 DEF ArtifactsOf

LEMMA ArtifactsEmpty == IndexedArtifacts(<<>>) = <<>>
<1>1. ASSUME NEW F(_) PROVE [k \in DOMAIN <<>> |-> F(k)] = <<>>
  BY EmptySeq
<1>. QED  BY <1>1, FlattenEmpty DEF IndexedArtifacts

LEMMA ArtifactsAppend ==
  ASSUME NEW l \in Ledger, NEW e \in Entry
  PROVE  IndexedArtifacts(Append(l, e)) = IndexedArtifacts(l) \o ArtifactsOf(e)
<1> DEFINE Lists(q) == [k \in DOMAIN q |-> ArtifactsOf(q[k])]
           n == Len(l)
<1>0. l \in Seq(Entry)
  BY DEF Ledger
<1>1. ASSUME NEW q \in Seq(Entry)
      PROVE  Lists(q) \in Seq(Seq(IndexedArtifact)) /\ DOMAIN Lists(q) = DOMAIN q
  <2>1. DOMAIN q = 1 .. Len(q) /\ Len(q) \in Nat /\ \A i \in DOMAIN q : q[i] \in Entry
    BY ElementOfSeq, LenProperties
  <2>2. \A i \in DOMAIN q : ArtifactsOf(q[i]) \in Seq(IndexedArtifact)
    BY <2>1, ArtifactsOfType
  <2>. QED  BY <2>1, <2>2, IsASeq
<1>2. /\ n \in Nat /\ DOMAIN l = 1 .. n /\ Append(l, e) \in Seq(Entry)
      /\ DOMAIN Append(l, e) = 1 .. n + 1 /\ Append(l, e)[n + 1] = e
      /\ \A i \in 1 .. n : Append(l, e)[i] = l[i]
  BY <1>0, AppendProperties, LenProperties
<1>3. \A i \in DOMAIN l : Lists(Append(l, e))[i] = Lists(l)[i]
  BY <1>2
<1>4. Lists(Append(l, e))[n + 1] = ArtifactsOf(e)
  BY <1>2
<1>5. ASSUME NEW q PROVE IndexedArtifacts(q) = FlattenSeq(Lists(q))
  BY DEF IndexedArtifacts, ArtifactsOf
<1>6. Lists(Append(l, e)) = Append(Lists(l), ArtifactsOf(e)) /\ ArtifactsOf(e) \in Seq(IndexedArtifact)
  <2> DEFINE U == Seq(IndexedArtifact)
             old == Lists(l)
             new == Lists(Append(l, e))
  <2>1. /\ old \in Seq(U) /\ DOMAIN old = DOMAIN l
        /\ new \in Seq(U) /\ DOMAIN new = DOMAIN Append(l, e)
        /\ \A i \in DOMAIN l : new[i] = old[i]
    <3>. HIDE DEF Lists
    <3>. QED  BY <1>0, <1>1, <1>2, <1>3
  <2>2. new[n + 1] = ArtifactsOf(e)
    BY <1>4
  <2>. HIDE DEF U, old, new
  <2>3. new = Append(old, new[Len(l) + 1]) /\ new[Len(l) + 1] \in U
    BY <1>0, <2>1, MapAppend
  <2>. QED  BY <2>2, <2>3 DEF U, old, new
<1>. HIDE DEF Lists
<1>7. FlattenSeq(Append(Lists(l), ArtifactsOf(e))) = FlattenSeq(Lists(l)) \o ArtifactsOf(e)
  BY <1>0, <1>1, <1>6, FlattenAppend
<1>. QED  BY <1>5, <1>6, <1>7

\* What a ledger holds, as a set.
Recorded(l) ==
  {x \in IndexedArtifact :
     \E k \in DOMAIN l : \E i \in DOMAIN l[k].tx.artifacts : x = Indexed(l[k], i)}

\* The artifacts of the entries are those recorded, in a sequence.
LEMMA ArtifactsType ==
  ASSUME NEW l \in Ledger
  PROVE  /\ IndexedArtifacts(l) \in Seq(IndexedArtifact)
         /\ ToSet(IndexedArtifacts(l)) = Recorded(l)
<1> DEFINE X == {q \in Seq(Entry) : /\ IndexedArtifacts(q) \in Seq(IndexedArtifact)
                                    /\ ToSet(IndexedArtifacts(q)) = Recorded(q)}
<1>1. <<>> \in X
  <2>1. Recorded(<<>>) = {}
    BY EmptySeq DEF Recorded
  <2>2. IndexedArtifacts(<<>>) = <<>> /\ ToSet(<<>>) = {}
    BY ArtifactsEmpty, Members
  <2>3. <<>> \in Seq(Entry) /\ <<>> \in Seq(IndexedArtifact)
    BY EmptySeq
  <2>. QED  BY <2>1, <2>2, <2>3
<1>2. ASSUME NEW q \in X, NEW e \in Entry PROVE Append(q, e) \in X
  <2>1. /\ q \in Seq(Entry) /\ q \in Ledger
        /\ IndexedArtifacts(q) \in Seq(IndexedArtifact)
        /\ ToSet(IndexedArtifacts(q)) = Recorded(q)
    BY DEF Ledger
  <2>2. /\ Append(q, e) \in Seq(Entry)
        /\ IndexedArtifacts(Append(q, e)) = IndexedArtifacts(q) \o ArtifactsOf(e)
        /\ ArtifactsOf(e) \in Seq(IndexedArtifact)
    BY <2>1, AppendProperties, ArtifactsAppend, ArtifactsOfType
  <2>3. /\ IndexedArtifacts(q) \o ArtifactsOf(e) \in Seq(IndexedArtifact)
        /\ ToSet(IndexedArtifacts(q) \o ArtifactsOf(e)) = Recorded(q) \cup ToSet(ArtifactsOf(e))
    BY <2>1, <2>2, ConcatProperties, Members
  <2>4. ToSet(ArtifactsOf(e)) = {Indexed(e, i) : i \in DOMAIN e.tx.artifacts}
    BY ArtifactsOfType DEF ToSet
  <2>5. /\ DOMAIN Append(q, e) = DOMAIN q \cup {Len(q) + 1} /\ Append(q, e)[Len(q) + 1] = e
        /\ \A k \in DOMAIN q : Append(q, e)[k] = q[k]
    <3>1. Len(q) \in Nat /\ DOMAIN q = 1 .. Len(q) /\ DOMAIN Append(q, e) = 1 .. Len(q) + 1
      BY <2>1, LenProperties, AppendProperties
    <3>2. 1 .. Len(q) + 1 = (1 .. Len(q)) \cup {Len(q) + 1}
      BY <3>1
    <3>. QED  BY <2>1, <3>1, <3>2, AppendProperties
  <2>6. Recorded(Append(q, e)) = Recorded(q) \cup {Indexed(e, i) : i \in DOMAIN e.tx.artifacts}
    BY <2>5, EntryArtifacts DEF Recorded
  <2>. QED  BY <2>2, <2>3, <2>4, <2>6
<1>3. X = Seq(Entry)
  <2>. HIDE DEF X
  <2>1. X \in SUBSET Seq(Entry)
    BY DEF X
  <2>. QED  BY <1>1, <1>2, <2>1, SeqInduction
<1>. QED  BY <1>3 DEF Ledger

LEMMA ArtifactsConcat ==
  ASSUME NEW l \in Ledger, NEW m \in Ledger
  PROVE  IndexedArtifacts(l \o m) = IndexedArtifacts(l) \o IndexedArtifacts(m)
<1> DEFINE X == {q \in Seq(Entry) :
                   IndexedArtifacts(l \o q) = IndexedArtifacts(l) \o IndexedArtifacts(q)}
<1>0. l \in Seq(Entry) /\ m \in Seq(Entry) /\ IndexedArtifacts(l) \in Seq(IndexedArtifact)
  BY ArtifactsType DEF Ledger
<1>1. <<>> \in X
  BY <1>0, ConcatEmptySeq, ArtifactsEmpty, EmptySeq
<1>2. ASSUME NEW q \in X, NEW e \in Entry PROVE Append(q, e) \in X
  <2> DEFINE a == IndexedArtifacts(l)
             b == IndexedArtifacts(q)
             c == ArtifactsOf(e)
  <2>1. /\ q \in Seq(Entry) /\ Append(q, e) \in Seq(Entry) /\ l \o q \in Seq(Entry)
        /\ IndexedArtifacts(l \o q) = a \o b
    BY <1>0, AppendProperties, ConcatProperties
  <2>2. l \o Append(q, e) = Append(l \o q, e)
    <3>1. Append(q, e) = q \o <<e>> /\ Append(l \o q, e) = (l \o q) \o <<e>> /\ <<e>> \in Seq(Entry)
      BY <2>1, AppendIsConcat
    <3>. QED  BY <1>0, <2>1, <3>1, ConcatAssociative
  <2>3. /\ IndexedArtifacts(Append(l \o q, e)) = (a \o b) \o c
        /\ IndexedArtifacts(Append(q, e)) = b \o c
    BY <2>1, ArtifactsAppend DEF Ledger
  <2>4. a \in Seq(IndexedArtifact) /\ b \in Seq(IndexedArtifact) /\ c \in Seq(IndexedArtifact)
    BY <1>0, <2>1, ArtifactsType, ArtifactsOfType DEF Ledger
  <2>. HIDE DEF a, b, c
  <2>5. (a \o b) \o c = a \o (b \o c)
    BY <2>4, ConcatAssociative
  <2>. QED  BY <2>1, <2>2, <2>3, <2>5 DEF a
<1>3. X = Seq(Entry)
  <2>. HIDE DEF X
  <2>1. X \in SUBSET Seq(Entry)
    BY DEF X
  <2>. QED  BY <1>1, <1>2, <2>1, SeqInduction
<1>. QED  BY <1>0, <1>3

-----------------------------------------------------------------------------
(* The references filed under a key.                                       *)

LEMMA RefsType ==
  ASSUME NEW s \in Seq(IndexedArtifact)
  PROVE  /\ RefsOf(s) \in Seq(Ref) /\ Len(RefsOf(s)) = Len(s)
         /\ ToSet(RefsOf(s)) = {x.ref : x \in ToSet(s)}
<1>1. DOMAIN s = 1 .. Len(s) /\ Len(s) \in Nat /\ \A i \in DOMAIN s : s[i].ref \in Ref
  <2>1. DOMAIN s = 1 .. Len(s) /\ Len(s) \in Nat /\ \A i \in 1 .. Len(s) : s[i] \in IndexedArtifact
    BY ElementOfSeq, LenProperties
  <2>. QED  BY <2>1 DEF IndexedArtifact
<1>2. RefsOf(s) \in Seq(Ref) /\ DOMAIN RefsOf(s) = 1 .. Len(s)
  BY <1>1, IsASeq DEF RefsOf
<1>3. Len(RefsOf(s)) = Len(s)
  BY <1>1, <1>2, LenProperties
<1>4. ToSet(RefsOf(s)) = {x.ref : x \in ToSet(s)}
  BY DEF RefsOf, ToSet
<1>. QED  BY <1>2, <1>3, <1>4

LEMMA RefsConcat ==
  ASSUME NEW s \in Seq(IndexedArtifact), NEW t \in Seq(IndexedArtifact)
  PROVE  RefsOf(s \o t) = RefsOf(s) \o RefsOf(t)
<1> DEFINE a == RefsOf(s \o t)
           b == RefsOf(s) \o RefsOf(t)
<1>1. /\ s \o t \in Seq(IndexedArtifact) /\ Len(s \o t) = Len(s) + Len(t)
      /\ Len(s) \in Nat /\ Len(t) \in Nat
      /\ DOMAIN s = 1 .. Len(s) /\ DOMAIN t = 1 .. Len(t) /\ DOMAIN (s \o t) = 1 .. Len(s) + Len(t)
      /\ \A i \in 1 .. Len(s) + Len(t) :
           (s \o t)[i] = IF i <= Len(s) THEN s[i] ELSE t[i - Len(s)]
  BY ConcatProperties, LenProperties
<1>2. /\ RefsOf(s) \in Seq(Ref) /\ Len(RefsOf(s)) = Len(s)
      /\ RefsOf(t) \in Seq(Ref) /\ Len(RefsOf(t)) = Len(t)
      /\ a \in Seq(Ref) /\ Len(a) = Len(s) + Len(t)
  BY <1>1, RefsType
<1>3. /\ b \in Seq(Ref) /\ Len(b) = Len(s) + Len(t)
      /\ \A i \in 1 .. Len(s) + Len(t) :
           b[i] = IF i <= Len(s) THEN RefsOf(s)[i] ELSE RefsOf(t)[i - Len(s)]
  BY <1>2, ConcatProperties
<1>4. ASSUME NEW i \in 1 .. Len(s) + Len(t) PROVE a[i] = b[i]
  <2>1. a[i] = (s \o t)[i].ref
    BY <1>1 DEF RefsOf
  <2>2. CASE i <= Len(s)
    <3>1. i \in DOMAIN s
      BY <1>1, <2>2
    <3>2. RefsOf(s)[i] = s[i].ref
      BY <3>1 DEF RefsOf
    <3>. QED  BY <1>1, <1>3, <2>1, <2>2, <3>2
  <2>3. CASE ~(i <= Len(s))
    <3>1. i - Len(s) \in DOMAIN t
      BY <1>1, <2>3
    <3>2. RefsOf(t)[i - Len(s)] = t[i - Len(s)].ref
      BY <3>1 DEF RefsOf
    <3>. QED  BY <1>1, <1>3, <2>1, <2>3, <3>2
  <2>. QED  BY <2>2, <2>3
<1>. HIDE DEF a, b
<1>5. a = b
  BY <1>2, <1>3, <1>4, SeqEqual
<1>. QED  BY <1>5 DEF a, b

LEMMA RefsEmpty == RefsOf(<<>>) = <<>>
<1>1. ASSUME NEW F(_) PROVE [k \in DOMAIN <<>> |-> F(k)] = <<>>
  BY EmptySeq
<1>. QED  BY <1>1 DEF RefsOf

\* References are selected as the artifacts they name.
LEMMA OnlyRefs ==
  ASSUME NEW s \in Seq(IndexedArtifact), NEW B
  PROVE  Only(RefsOf(s), B) = RefsOf(Only(s, {x \in IndexedArtifact : x.ref \in B}))
<1> DEFINE C == {x \in IndexedArtifact : x.ref \in B}
           X == {q \in Seq(IndexedArtifact) : Only(RefsOf(q), B) = RefsOf(Only(q, C))}
<1>0. \A x \in IndexedArtifact : x \in C <=> x.ref \in B
  OBVIOUS
<1>. HIDE DEF C
<1>1. <<>> \in X
  BY OnlyEmpty, RefsEmpty, EmptySeq
<1>2. ASSUME NEW q \in X, NEW e \in IndexedArtifact PROVE Append(q, e) \in X
  <2>1. /\ q \in Seq(IndexedArtifact) /\ Append(q, e) \in Seq(IndexedArtifact)
        /\ Only(RefsOf(q), B) = RefsOf(Only(q, C))
    BY AppendProperties
  <2>2. /\ Append(q, e) = q \o <<e>> /\ <<e>> \in Seq(IndexedArtifact)
        /\ RefsOf(<<e>>) = <<e.ref>> /\ e.ref \in Ref
    BY <2>1, AppendIsConcat DEF RefsOf, IndexedArtifact
  <2>3. RefsOf(Append(q, e)) = Append(RefsOf(q), e.ref) /\ RefsOf(q) \in Seq(Ref)
    <3>1. RefsOf(q) \in Seq(Ref) /\ RefsOf(q \o <<e>>) = RefsOf(q) \o RefsOf(<<e>>)
      BY <2>1, <2>2, RefsType, RefsConcat
    <3>2. Append(RefsOf(q), e.ref) = RefsOf(q) \o <<e.ref>>
      BY <2>2, <3>1, AppendIsConcat
    <3>. QED  BY <2>2, <3>1, <3>2
  <2>4. /\ Only(Append(RefsOf(q), e.ref), B)
             = Only(RefsOf(q), B) \o (IF e.ref \in B THEN <<e.ref>> ELSE <<>>)
        /\ Only(Append(q, e), C) = Only(q, C) \o (IF e \in C THEN <<e>> ELSE <<>>)
    <3>1. Only(Append(q, e), C) = Only(q, C) \o (IF e \in C THEN <<e>> ELSE <<>>)
      BY <2>1, OnlyAppend
    <3>2. e.ref \in Ref /\ RefsOf(q) \in Seq(Ref)
      BY <2>2, <2>3
    <3>3. Only(Append(RefsOf(q), e.ref), B)
          = Only(RefsOf(q), B) \o (IF e.ref \in B THEN <<e.ref>> ELSE <<>>)
      BY <3>2, OnlyAppend
    <3>. QED  BY <3>1, <3>3
  <2>5. Only(q, C) \in Seq(IndexedArtifact) /\ <<>> \in Seq(IndexedArtifact)
    BY <2>1, OnlyMembers, EmptySeq
  <2>6. CASE e \in C
    <3>1. RefsOf(Only(q, C) \o <<e>>) = RefsOf(Only(q, C)) \o <<e.ref>>
      BY <2>2, <2>5, RefsConcat
    <3>. QED  BY <1>0, <2>1, <2>3, <2>4, <2>6, <3>1
  <2>7. CASE e \notin C
    <3>1. RefsOf(Only(q, C) \o <<>>) = RefsOf(Only(q, C)) \o <<>>
      BY <2>5, RefsEmpty, RefsConcat
    <3>. QED  BY <1>0, <2>1, <2>3, <2>4, <2>7, <3>1
  <2>. QED  BY <2>6, <2>7
<1>3. X = Seq(IndexedArtifact)
  <2>. HIDE DEF X
  <2>1. X \in SUBSET Seq(IndexedArtifact)
    BY DEF X
  <2>. QED  BY <1>1, <1>2, <2>1, SeqInduction
<1>. QED  BY <1>3 DEF C

\* The adjacency files every artifact of the index.
Files(adjacency, nodes) ==
  /\ DOMAIN adjacency \subseteq Key
  /\ \A key \in Key : Neighbors(adjacency, key) = RefsOf(Only(nodes, FiledUnder(key)))

LEMMA KeysAreKeys ==
  ASSUME NEW x \in IndexedArtifact
  PROVE  Keys(x) \subseteq Key
<1>1. x.ref \in Ref /\ KindOf[x.ref] \in Kind /\ FromOf[x.ref] \in Ref /\ ToOf[x.ref] \in Ref
  BY ContentAssumption DEF IndexedArtifact
<1>. QED  BY <1>1 DEF Keys, Key, OfTheKind, AtTheEnd

LEMMA ConnectedFiles ==
  ASSUME NEW nodes \in Seq(IndexedArtifact), NEW added \in Seq(IndexedArtifact), NEW adjacency,
         Files(adjacency, nodes)
  PROVE  Files(Connected(adjacency, added), nodes \o added)
<1> DEFINE new == Connected(adjacency, added)
           keys == UNION {Keys(added[i]) : i \in DOMAIN added}
<1>1. DOMAIN new = DOMAIN adjacency \cup keys
  BY DEF Connected
<1>2. \A i \in DOMAIN added : added[i] \in IndexedArtifact
  BY ElementOfSeq, LenProperties
<1>3. keys \subseteq Key
  BY <1>2, KeysAreKeys
<1>4. ASSUME NEW key \in Key
      PROVE  Neighbors(new, key) = RefsOf(Only(nodes \o added, FiledUnder(key)))
  <2>1. /\ Only(nodes, FiledUnder(key)) \in Seq(IndexedArtifact)
        /\ Only(added, FiledUnder(key)) \in Seq(IndexedArtifact)
    BY OnlyMembers
  <2>2. RefsOf(Only(nodes \o added, FiledUnder(key)))
        = Neighbors(adjacency, key) \o RefsOf(Only(added, FiledUnder(key)))
    <3>1. Only(nodes \o added, FiledUnder(key))
          = Only(nodes, FiledUnder(key)) \o Only(added, FiledUnder(key))
      BY OnlyConcat
    <3>2. RefsOf(Only(nodes, FiledUnder(key)) \o Only(added, FiledUnder(key)))
          = RefsOf(Only(nodes, FiledUnder(key))) \o RefsOf(Only(added, FiledUnder(key)))
      BY <2>1, RefsConcat
    <3>. QED  BY <3>1, <3>2 DEF Files
  <2>3. CASE key \in DOMAIN new
    BY <2>2, <2>3 DEF Connected, Neighbors
  <2>4. CASE key \notin DOMAIN new
    <3>1. key \notin DOMAIN adjacency /\ \A i \in DOMAIN added : added[i] \notin FiledUnder(key)
      BY <1>1, <2>4 DEF FiledUnder
    <3>2. Only(added, FiledUnder(key)) = <<>>
      BY <3>1, OnlyAll DEF ToSet
    <3>3. Neighbors(adjacency, key) = <<>> /\ Neighbors(new, key) = <<>>
      BY <2>4, <3>1 DEF Neighbors
    <3>. QED  BY <2>2, <3>2, <3>3, RefsEmpty, ConcatEmptySeq, EmptySeq
  <2>. QED  BY <2>3, <2>4
<1>. QED  BY <1>1, <1>3, <1>4 DEF Files

-----------------------------------------------------------------------------
(* Ledgers a network can have committed.                                   *)

\* The k-th entry is legal after those before it, and none came later.
LegalAt(l, k, c) ==
  /\ l[k].tx.chain = c
  /\ ~Duplicate(l[k].tx, Prefix(l, k - 1))
  /\ ~MissingReference(l[k].tx, Prefix(l, k - 1))
  /\ \A j \in 1 .. k - 1 : l[j].height <= l[k].height

Grown(l, c) == \A k \in DOMAIN l : LegalAt(l, k, c)

\* The legality of an entry depends on those before it.
LEMMA LegalAtConcat ==
  ASSUME NEW l \in Ledger, NEW m \in Ledger, NEW c, NEW k \in DOMAIN l
  PROVE  LegalAt(l \o m, k, c) <=> LegalAt(l, k, c)
<1>1. /\ l \in Seq(Entry) /\ m \in Seq(Entry) /\ l \o m \in Seq(Entry)
      /\ Len(l) \in Nat /\ DOMAIN l = 1 .. Len(l) /\ k \in 1 .. Len(l) /\ k \in Nat /\ k - 1 \in Nat
      /\ Len(m) \in Nat
  BY ConcatProperties, LenProperties DEF Ledger
<1>2. /\ Len(l \o m) = Len(l) + Len(m)
      /\ \A i \in 1 .. Len(l) : (l \o m)[i] = l[i]
  BY <1>1, ConcatProperties
<1>3. Prefix(l \o m, k - 1) = Prefix(l, k - 1)
  <2>1. 1 \in 1 .. Len(l) + 1 /\ k - 1 \in 0 .. Len(l)
    BY <1>1
  <2>2. SubSeq(l \o m, 1, k - 1) = SubSeq(l, 1, k - 1)
    BY <1>1, <2>1, SubSeqOfConcat1
  <2>. QED  BY <2>2 DEF Prefix
<1>4. (l \o m)[k] = l[k] /\ \A j \in 1 .. k - 1 : (l \o m)[j] = l[j]
  BY <1>1, <1>2
<1>. QED  BY <1>3, <1>4 DEF LegalAt

LEMMA GrownConcat ==
  ASSUME NEW l \in Ledger, NEW m \in Ledger, NEW c, Grown(l \o m, c)
  PROVE  Grown(l, c)
<1>1. DOMAIN l \subseteq DOMAIN (l \o m)
  <2>1. /\ Len(l) \in Nat /\ DOMAIN l = 1 .. Len(l) /\ Len(m) \in Nat
        /\ DOMAIN (l \o m) = 1 .. Len(l) + Len(m)
    BY ConcatProperties, LenProperties DEF Ledger
  <2>. QED  BY <2>1
<1>. QED  BY <1>1, LegalAtConcat DEF Grown

LEMMA GrownAppend ==
  ASSUME NEW l \in Ledger, NEW e \in Entry, NEW c
  PROVE  Grown(Append(l, e), c) <=> /\ Grown(l, c)
                                    /\ e.tx.chain = c
                                    /\ ~Duplicate(e.tx, l)
                                    /\ ~MissingReference(e.tx, l)
                                    /\ \A j \in DOMAIN l : l[j].height <= e.height
<1> DEFINE n == Len(l)
           new == Append(l, e)
<1>1. /\ l \in Seq(Entry) /\ n \in Nat /\ DOMAIN l = 1 .. n
      /\ new \in Seq(Entry) /\ DOMAIN new = 1 .. n + 1 /\ new[n + 1] = e
      /\ \A i \in 1 .. n : new[i] = l[i]
  BY AppendProperties, LenProperties DEF Ledger
<1>2. new = l \o <<e>> /\ <<e>> \in Ledger
  BY <1>1, AppendIsConcat DEF Ledger
<1>3. \A k \in DOMAIN l : LegalAt(new, k, c) <=> LegalAt(l, k, c)
  <2>. HIDE DEF new
  <2>. QED  BY <1>2, LegalAtConcat
<1>4. Prefix(new, n) = l
  BY <1>1, PrefixOfAppend, LenProperties
<1>5. (n + 1) - 1 = n
  BY <1>1
<1>. HIDE DEF new, n
<1>6. LegalAt(new, n + 1, c) <=> /\ e.tx.chain = c
                                 /\ ~Duplicate(e.tx, l)
                                 /\ ~MissingReference(e.tx, l)
                                 /\ \A j \in DOMAIN l : l[j].height <= e.height
  BY <1>1, <1>4, <1>5 DEF LegalAt
<1>7. DOMAIN new = DOMAIN l \cup {n + 1}
  BY <1>1
<1>. QED  BY <1>3, <1>6, <1>7 DEF Grown, new

\* A ledger is what it held up to a height, and what came later.
LEMMA OnlySplit ==
  ASSUME NEW l \in Ledger, NEW c, Grown(l, c), NEW h \in Int
  PROVE  l = Only(l, {e \in Entry : e.height <= h}) \o Only(l, {e \in Entry : e.height > h})
<1> DEFINE Old == {e \in Entry : e.height <= h}
           New == {e \in Entry : e.height > h}
           X == {q \in Seq(Entry) : Grown(q, c) => q = Only(q, Old) \o Only(q, New)}
<1>0. \A e \in Entry : e.height \in Nat /\ (e \in Old <=> e.height <= h) /\ (e \in New <=> e.height > h)
  BY DEF Entry
<1>. HIDE DEF Old, New
<1>1. <<>> \in X
  <2>1. <<>> = <<>> \o <<>>
    BY ConcatEmptySeq, EmptySeq
  <2>. QED  BY <2>1, OnlyEmpty, EmptySeq
<1>2. ASSUME NEW q \in X, NEW e \in Entry PROVE Append(q, e) \in X
  <2>1. /\ q \in Seq(Entry) /\ q \in Ledger /\ Append(q, e) \in Seq(Entry)
        /\ (Grown(q, c) => q = Only(q, Old) \o Only(q, New))
    BY AppendProperties DEF Ledger
  <2>2. SUFFICES ASSUME Grown(Append(q, e), c)
                 PROVE  Append(q, e) = Only(Append(q, e), Old) \o Only(Append(q, e), New)
    BY <2>1
  <2>3. q = Only(q, Old) \o Only(q, New) /\ \A j \in DOMAIN q : q[j].height <= e.height
    BY <2>1, <2>2, GrownAppend
  <2>4. /\ Only(q, Old) \in Seq(Entry) /\ Only(q, New) \in Seq(Entry)
        /\ <<e>> \in Seq(Entry) /\ Append(q, e) = q \o <<e>>
    BY <2>1, OnlyMembers, AppendIsConcat
  <2>5. /\ Only(Append(q, e), Old) = Only(q, Old) \o (IF e \in Old THEN <<e>> ELSE <<>>)
        /\ Only(Append(q, e), New) = Only(q, New) \o (IF e \in New THEN <<e>> ELSE <<>>)
    BY <2>1, OnlyAppend
  <2>6. CASE e.height > h
    <3>1. e \in New /\ e \notin Old
      BY <1>0, <2>6
    <3>2. Only(Append(q, e), Old) = Only(q, Old) /\ Only(Append(q, e), New) = Only(q, New) \o <<e>>
      BY <2>4, <2>5, <3>1, ConcatEmptySeq
    <3>3. (Only(q, Old) \o Only(q, New)) \o <<e>> = Only(q, Old) \o (Only(q, New) \o <<e>>)
      BY <2>4, ConcatAssociative
    <3>. QED  BY <2>3, <2>4, <3>2, <3>3
  <2>7. CASE e.height <= h
    <3>1. e \in Old /\ e \notin New
      BY <1>0, <2>7
    <3>2. \A x \in ToSet(q) : x \in Old /\ x \notin New
      <4>1. ASSUME NEW j \in DOMAIN q PROVE q[j] \in Old /\ q[j] \notin New
        <5>1. q[j] \in Entry
          BY <2>1, ElementOfSeq, LenProperties
        <5>2. q[j].height <= e.height /\ q[j].height \in Nat /\ e.height \in Nat
          BY <1>0, <2>3, <5>1
        <5>3. q[j].height <= h /\ ~(q[j].height > h)
          BY <2>7, <5>2
        <5>. QED  BY <1>0, <5>1, <5>3
      <4>. QED  BY <4>1 DEF ToSet
    <3>3. Only(q, New) = <<>>
      <4>1. ToSet(q) \cap New = {}
        BY <3>2
      <4>. QED  BY <2>1, <4>1, OnlyAll
    <3>4. q = Only(q, Old)
      BY <2>3, <2>4, <3>3, ConcatEmptySeq
    <3>5. Only(Append(q, e), New) = <<>> /\ Only(Append(q, e), Old) = q \o <<e>>
      BY <2>5, <3>1, <3>3, <3>4, ConcatEmptySeq, EmptySeq
    <3>. QED  BY <2>1, <2>4, <3>5, ConcatEmptySeq
  <2>8. e.height \in Nat
    BY <1>0
  <2>. QED  BY <2>6, <2>7, <2>8
<1>3. X = Seq(Entry)
  <2>. HIDE DEF X
  <2>1. X \in SUBSET Seq(Entry)
    BY DEF X
  <2>. QED  BY <1>1, <1>2, <2>1, SeqInduction
<1>. QED  BY <1>3 DEF Ledger, Old, New

\* The references of a ledger's artifacts are those recorded.
LEMMA RecordedHasRefs ==
  ASSUME NEW l \in Ledger
  PROVE  /\ {x.ref : x \in Recorded(l)} = RecordedRefs(l)
         /\ {x.ref : x \in {y \in Recorded(l) : IsContribution(y)}} = RecordedContributions(l)
<1>0. l \in Seq(Entry) /\ \A k \in DOMAIN l : l[k] \in Entry
  BY ElementOfSeq, LenProperties DEF Ledger
<1>1. \A k \in DOMAIN l : \A i \in DOMAIN l[k].tx.artifacts :
         /\ Indexed(l[k], i) \in Recorded(l)
         /\ Indexed(l[k], i).ref = l[k].tx.artifacts[i].ref
         /\ IsContribution(Indexed(l[k], i)) <=> l[k].tx.artifacts[i].kind = "contribution"
  <2>1. ASSUME NEW k \in DOMAIN l, NEW i \in DOMAIN l[k].tx.artifacts
        PROVE  Indexed(l[k], i) \in Recorded(l)
    BY <1>0, EntryArtifacts DEF Recorded
  <2>. QED  BY <2>1 DEF Indexed, IsContribution
<1>2. ASSUME NEW x \in Recorded(l)
      PROVE  \E k \in DOMAIN l : \E i \in DOMAIN l[k].tx.artifacts : x = Indexed(l[k], i)
  BY DEF Recorded
<1>3. {x.ref : x \in Recorded(l)} = RecordedRefs(l)
  BY <1>1, <1>2 DEF RecordedRefs, Refs
<1>4. {x.ref : x \in {y \in Recorded(l) : IsContribution(y)}} = RecordedContributions(l)
  BY <1>1, <1>2 DEF RecordedContributions, Contributions
<1>. QED  BY <1>3, <1>4

LEMMA DistinctConcat ==
  ASSUME NEW T, NEW s \in Seq(T), NEW t \in Seq(T)
  PROVE  Distinct(s \o t) <=> Distinct(s) /\ Distinct(t) /\ ToSet(s) \cap ToSet(t) = {}
<1>1. /\ Len(s) \in Nat /\ DOMAIN s = 1 .. Len(s)
      /\ Len(t) \in Nat /\ DOMAIN t = 1 .. Len(t)
      /\ DOMAIN (s \o t) = 1 .. Len(s) + Len(t)
      /\ \A i \in 1 .. Len(s) + Len(t) :
           (s \o t)[i] = IF i <= Len(s) THEN s[i] ELSE t[i - Len(s)]
  BY ConcatProperties, LenProperties
<1>2. \A i \in DOMAIN s : i \in DOMAIN (s \o t) /\ (s \o t)[i] = s[i]
  BY <1>1
<1>3. \A i \in DOMAIN t : i + Len(s) \in DOMAIN (s \o t) /\ (s \o t)[i + Len(s)] = t[i]
  BY <1>1
<1>4. ASSUME NEW i \in DOMAIN (s \o t)
      PROVE  i \in DOMAIN s \/ \E k \in DOMAIN t : i = k + Len(s)
  <2>1. i \in DOMAIN s \/ (i - Len(s) \in DOMAIN t /\ i = (i - Len(s)) + Len(s))
    BY <1>1
  <2>. QED  BY <2>1
<1>5. \A i \in DOMAIN s : \A k \in DOMAIN t : i # k + Len(s)
  BY <1>1
<1>6. \A i, j \in DOMAIN t : i + Len(s) = j + Len(s) => i = j
  BY <1>1
<1>7. ASSUME Distinct(s \o t) PROVE Distinct(s) /\ Distinct(t) /\ ToSet(s) \cap ToSet(t) = {}
  <2>1. Distinct(s)
    BY <1>2, <1>7 DEF Distinct
  <2>2. Distinct(t)
    BY <1>3, <1>6, <1>7 DEF Distinct
  <2>3. ASSUME NEW i \in DOMAIN s, NEW k \in DOMAIN t PROVE s[i] # t[k]
    BY <1>2, <1>3, <1>5, <1>7 DEF Distinct
  <2>. QED  BY <2>1, <2>2, <2>3 DEF ToSet
<1>8. ASSUME Distinct(s), Distinct(t), ToSet(s) \cap ToSet(t) = {},
             NEW i \in DOMAIN (s \o t), NEW j \in DOMAIN (s \o t), (s \o t)[i] = (s \o t)[j]
      PROVE  i = j
  <2>0. \A p \in DOMAIN s : \A k \in DOMAIN t : s[p] # t[k]
    BY <1>8 DEF ToSet
  <2>1. CASE i \in DOMAIN s /\ j \in DOMAIN s
    BY <1>2, <1>8, <2>1 DEF Distinct
  <2>2. CASE i \in DOMAIN s /\ \E k \in DOMAIN t : j = k + Len(s)
    BY <1>2, <1>3, <1>8, <2>0, <2>2
  <2>3. CASE j \in DOMAIN s /\ \E k \in DOMAIN t : i = k + Len(s)
    BY <1>2, <1>3, <1>8, <2>0, <2>3
  <2>4. CASE (\E k \in DOMAIN t : i = k + Len(s)) /\ (\E k \in DOMAIN t : j = k + Len(s))
    BY <1>3, <1>8, <2>4 DEF Distinct
  <2>. QED  BY <1>4, <2>1, <2>2, <2>3, <2>4
<1>. QED  BY <1>7, <1>8 DEF Distinct

\* No reference is indexed twice.
LEMMA GrownIsDistinct ==
  ASSUME NEW l \in Ledger, NEW c, Grown(l, c)
  PROVE  Distinct(RefsOf(IndexedArtifacts(l)))
<1> DEFINE X == {q \in Seq(Entry) : Grown(q, c) => Distinct(RefsOf(IndexedArtifacts(q)))}
<1>1. <<>> \in X
  BY ArtifactsEmpty, RefsEmpty, EmptySeq DEF Distinct
<1>2. ASSUME NEW q \in X, NEW e \in Entry PROVE Append(q, e) \in X
  <2>1. /\ q \in Seq(Entry) /\ q \in Ledger /\ Append(q, e) \in Seq(Entry)
        /\ (Grown(q, c) => Distinct(RefsOf(IndexedArtifacts(q))))
    BY AppendProperties DEF Ledger
  <2>2. SUFFICES ASSUME Grown(Append(q, e), c)
                 PROVE  Distinct(RefsOf(IndexedArtifacts(Append(q, e))))
    BY <2>1
  <2>3. Distinct(RefsOf(IndexedArtifacts(q))) /\ ~Duplicate(e.tx, q)
    BY <2>1, <2>2, GrownAppend
  <2>4. /\ IndexedArtifacts(Append(q, e)) = IndexedArtifacts(q) \o ArtifactsOf(e)
        /\ IndexedArtifacts(q) \in Seq(IndexedArtifact)
        /\ ArtifactsOf(e) \in Seq(IndexedArtifact)
        /\ ToSet(IndexedArtifacts(q)) = Recorded(q)
    BY <2>1, ArtifactsAppend, ArtifactsType, ArtifactsOfType
  <2>5. /\ RefsOf(IndexedArtifacts(q)) \in Seq(Ref) /\ RefsOf(ArtifactsOf(e)) \in Seq(Ref)
        /\ ToSet(RefsOf(IndexedArtifacts(q))) = RecordedRefs(q)
        /\ RefsOf(IndexedArtifacts(Append(q, e)))
             = RefsOf(IndexedArtifacts(q)) \o RefsOf(ArtifactsOf(e))
    BY <2>1, <2>4, RefsType, RefsConcat, RecordedHasRefs
  <2>6. /\ DOMAIN RefsOf(ArtifactsOf(e)) = DOMAIN e.tx.artifacts
        /\ \A i \in DOMAIN e.tx.artifacts : RefsOf(ArtifactsOf(e))[i] = e.tx.artifacts[i].ref
    <3>1. /\ DOMAIN ArtifactsOf(e) = DOMAIN e.tx.artifacts
          /\ \A i \in DOMAIN e.tx.artifacts : ArtifactsOf(e)[i] = Indexed(e, i)
      BY ArtifactsOfType
    <3>2. \A i \in DOMAIN e.tx.artifacts : Indexed(e, i).ref = e.tx.artifacts[i].ref
      BY DEF Indexed
    <3>. QED  BY <3>1, <3>2 DEF RefsOf
  <2>7. Distinct(RefsOf(ArtifactsOf(e))) /\ ToSet(RefsOf(ArtifactsOf(e))) = Refs(e.tx)
    BY <2>3, <2>6 DEF Duplicate, DistinctRefs, Distinct, ToSet, Refs
  <2>8. RecordedRefs(q) \cap Refs(e.tx) = {}
    BY <2>3 DEF Duplicate
  <2>. QED  BY <2>3, <2>5, <2>7, <2>8, DistinctConcat
<1>3. X = Seq(Entry)
  <2>. HIDE DEF X
  <2>1. X \in SUBSET Seq(Entry)
    BY DEF X
  <2>. QED  BY <1>1, <1>2, <2>1, SeqInduction
<1>. QED  BY <1>3 DEF Ledger

\* The ends of a recorded relation are recorded contributions.
LEMMA GrownResolves ==
  ASSUME NEW l \in Ledger, NEW c, Grown(l, c), NEW x \in Recorded(l), ~IsContribution(x)
  PROVE  FromOf[x.ref] \in RecordedContributions(l) /\ ToOf[x.ref] \in RecordedContributions(l)
<1>1. PICK k \in DOMAIN l : \E i \in DOMAIN l[k].tx.artifacts : x = Indexed(l[k], i)
  BY DEF Recorded
<1>2. PICK i \in DOMAIN l[k].tx.artifacts : x = Indexed(l[k], i)
  BY <1>1
<1>3. l[k] \in Entry /\ l \in Seq(Entry) /\ Len(l) \in Nat /\ DOMAIN l = 1 .. Len(l) /\ k \in 1 .. Len(l)
  BY ElementOfSeq, LenProperties DEF Ledger
<1>4. l[k].tx.artifacts[i].kind = "relation" /\ l[k].tx.artifacts[i].ref = x.ref
  <2>1. l[k].tx.artifacts[i].kind \in {"contribution", "relation"}
    BY <1>3, EntryArtifacts DEF Artifact
  <2>. QED  BY <1>2, <2>1 DEF Indexed, IsContribution
<1>5. {FromOf[x.ref], ToOf[x.ref]} \subseteq Endpoints(l[k].tx)
  <2>1. l[k].tx.artifacts[i].ends = {FromOf[x.ref], ToOf[x.ref]}
    BY <1>3, <1>4, EntryArtifacts
  <2>. QED  BY <1>4, <2>1 DEF Endpoints
<1>6. Endpoints(l[k].tx) \subseteq Contributions(l[k].tx) \cup RecordedContributions(Prefix(l, k - 1))
  BY DEF Grown, LegalAt, MissingReference
<1>7. Contributions(l[k].tx) \subseteq RecordedContributions(l)
  BY DEF RecordedContributions
<1>8. RecordedContributions(Prefix(l, k - 1)) \subseteq RecordedContributions(l)
  <2>1. /\ DOMAIN Prefix(l, k - 1) = 1 .. k - 1
        /\ \A j \in 1 .. k - 1 : Prefix(l, k - 1)[j] = l[j] /\ j \in DOMAIN l
    <3>1. 1 \in 1 .. Len(l) + 1 /\ k - 1 \in (1 - 1) .. Len(l)
      BY <1>3
    <3>2. \A j \in 1 .. k - 1 : j \in DOMAIN l
      BY <1>3
    <3>. QED  BY <1>3, <3>1, <3>2, SubSeqProperties DEF Prefix
  <2>. QED  BY <2>1 DEF RecordedContributions
<1>. QED  BY <1>5, <1>6, <1>7, <1>8

-----------------------------------------------------------------------------
(* The queries over an index that files a ledger.                          *)

\* What is joined holds the members of its parts.
LEMMA FlattenMembers ==
  ASSUME NEW T, NEW ss \in Seq(Seq(T))
  PROVE  ToSet(FlattenSeq(ss)) = UNION {ToSet(t) : t \in ToSet(ss)}
<1> DEFINE X == {q \in Seq(Seq(T)) : ToSet(FlattenSeq(q)) = UNION {ToSet(t) : t \in ToSet(q)}}
<1>1. <<>> \in X
  BY FlattenEmpty, EmptySeq, Members
<1>2. ASSUME NEW q \in X, NEW t \in Seq(T) PROVE Append(q, t) \in X
  <2>1. q \in Seq(Seq(T)) /\ ToSet(FlattenSeq(q)) = UNION {ToSet(x) : x \in ToSet(q)}
    OBVIOUS
  <2>2. Append(q, t) \in Seq(Seq(T)) /\ ToSet(Append(q, t)) = ToSet(q) \cup {t}
    BY <2>1, AppendProperties, Members
  <2>3. FlattenSeq(q) \in Seq(T) /\ FlattenSeq(Append(q, t)) = FlattenSeq(q) \o t
    BY <2>1, FlattenType, FlattenAppend
  <2>4. ToSet(FlattenSeq(q) \o t) = ToSet(FlattenSeq(q)) \cup ToSet(t)
    BY <2>3, Members
  <2>. QED  BY <2>1, <2>2, <2>3, <2>4
<1>3. X = Seq(Seq(T))
  <2>. HIDE DEF X
  <2>1. X \in SUBSET Seq(Seq(T))
    BY DEF X
  <2>. QED  BY <1>1, <1>2, <2>1, SeqInduction
<1>. QED  BY <1>3

\* Contributions of the index are resolved, all of them.
LEMMA ResolvedAll ==
  ASSUME NEW idx, NEW refs \in Seq(Ref),
         \A i \in DOMAIN refs : \E x \in Get(idx, refs[i]) : IsContribution(x)
  PROVE  ToSet(Resolved(idx, refs, anyKind)) = ToSet(refs)
<1> DEFINE Once(i) == \A j \in 1 .. (i - 1) : refs[j] # refs[i]
           parts == [i \in DOMAIN refs |-> IF Once(i) THEN <<refs[i]>> ELSE <<>>]
<1>1. Resolved(idx, refs, anyKind) = FlattenSeq(parts)
  BY DEF Resolved, OfKind
<1>2. DOMAIN refs = 1 .. Len(refs) /\ Len(refs) \in Nat /\ \A i \in DOMAIN refs : refs[i] \in Ref
  BY ElementOfSeq, LenProperties
<1>3. parts \in Seq(Seq(Ref)) /\ DOMAIN parts = DOMAIN refs
  <2>1. \A i \in DOMAIN refs : <<refs[i]>> \in Seq(Ref) /\ <<>> \in Seq(Ref)
    BY <1>2
  <2>. HIDE DEF Once
  <2>. QED  BY <1>2, <2>1, IsASeq
<1>4. \A i \in DOMAIN refs : parts[i] = IF Once(i) THEN <<refs[i]>> ELSE <<>>
  OBVIOUS
<1>5. ToSet(FlattenSeq(parts)) = UNION {ToSet(t) : t \in ToSet(parts)}
  <2>. HIDE DEF parts
  <2>. QED  BY <1>3, FlattenMembers
<1>6. ASSUME NEW i \in DOMAIN refs PROVE \E j \in DOMAIN refs : Once(j) /\ refs[j] = refs[i]
  <2> DEFINE same == {j \in DOMAIN refs : refs[j] = refs[i]}
  <2>1. same \subseteq Nat /\ i \in same
    BY <1>2
  <2>2. PICK j \in same : \A k \in same : ~(<<k, j>> \in Less)
    BY <2>1, WFMin, LessIsWellFounded
  <2>3. ASSUME NEW k \in 1 .. (j - 1), refs[k] = refs[j] PROVE FALSE
    <3>1. k \in DOMAIN refs /\ k < j /\ k \in Nat /\ j \in Nat
      BY <1>2
    <3>. QED  BY <2>2, <2>3, <3>1 DEF Less
  <2>. QED  BY <2>2, <2>3
<1>. HIDE DEF Once
<1>7. ToSet(FlattenSeq(parts)) \subseteq ToSet(refs)
  <2>1. ASSUME NEW i \in DOMAIN refs PROVE ToSet(parts[i]) \subseteq ToSet(refs)
    <3>1. ToSet(<<refs[i]>>) = {refs[i]} /\ ToSet(<<>>) = {}
      BY Members DEF ToSet
    <3>2. refs[i] \in ToSet(refs)
      BY DEF ToSet
    <3>. QED  BY <1>4, <3>1, <3>2
  <2>2. ToSet(parts) = {parts[i] : i \in DOMAIN refs}
    BY <1>3 DEF ToSet
  <2>. HIDE DEF parts
  <2>. QED  BY <1>5, <2>1, <2>2
<1>8. ASSUME NEW i \in DOMAIN refs PROVE refs[i] \in ToSet(FlattenSeq(parts))
  <2>1. PICK j \in DOMAIN refs : Once(j) /\ refs[j] = refs[i]
    BY <1>6
  <2>2. parts[j] = <<refs[i]>>
    BY <1>4, <2>1
  <2>3. refs[i] \in ToSet(parts[j])
    BY <2>2 DEF ToSet
  <2>4. parts[j] \in ToSet(parts)
    BY <1>3 DEF ToSet
  <2>. HIDE DEF parts
  <2>. QED  BY <1>5, <2>3, <2>4
<1>. HIDE DEF parts
<1>9. ToSet(refs) \subseteq ToSet(FlattenSeq(parts))
  BY <1>8 DEF ToSet
<1>. QED  BY <1>1, <1>7, <1>9

LEMMA GetNodes ==
  ASSUME NEW idx, NEW ref
  PROVE  Get(idx, ref) = {x \in ToSet(idx.nodes) : x.ref = ref}
BY DEF Get, ToSet

\* Relations found at one end are those the ledger holds.
LEMMA FiledRelations ==
  ASSUME NEW l \in Ledger, NEW idx, idx.nodes = IndexedArtifacts(l),
         Files(idx.adjacency, idx.nodes), NEW ref \in Ref, NEW B \in SUBSET Ref,
         \A r \in B : FromOf[r] = ref \/ ToOf[r] = ref
  PROVE  Only(Neighbors(idx.adjacency, AtTheEnd(ref)), B) = RelationsOf(l, B)
<1> DEFINE A == FiledUnder(AtTheEnd(ref))
           C == {x \in IndexedArtifact : x.ref \in B}
           D == {x \in IndexedArtifact : ~IsContribution(x) /\ x.ref \in B}
<1>1. idx.nodes \in Seq(IndexedArtifact)
  BY ArtifactsType
<1>2. AtTheEnd(ref) \in Key
  BY DEF Key, AtTheEnd
<1>3. Neighbors(idx.adjacency, AtTheEnd(ref)) = RefsOf(Only(idx.nodes, A))
  BY <1>2 DEF Files
<1>4. \A x \in IndexedArtifact : x \in A /\ x \in C <=> x \in D
  <2>1. ASSUME NEW x \in IndexedArtifact, AtTheEnd(ref) \in Keys(x) PROVE ~IsContribution(x)
    <3>1. AtTheEnd(ref) # OfTheKind(KindOf[x.ref])
      <4>1. AtTheEnd(ref).by = "end" /\ OfTheKind(KindOf[x.ref]).by = "kind"
        BY DEF AtTheEnd, OfTheKind
      <4>. QED  BY <4>1
    <3>. QED  BY <2>1, <3>1 DEF Keys
  <2>2. ASSUME NEW x \in IndexedArtifact, ~IsContribution(x), x.ref \in B
        PROVE  AtTheEnd(ref) \in Keys(x)
    BY <2>2 DEF Keys
  <2>. QED  BY <2>1, <2>2 DEF FiledUnder
<1>5. Only(idx.nodes, A) \in Seq(IndexedArtifact)
  <2>. HIDE DEF A
  <2>. QED  BY <1>1, OnlyMembers
<1>6. Only(RefsOf(Only(idx.nodes, A)), B) = RefsOf(Only(Only(idx.nodes, A), C))
  <2>. HIDE DEF A
  <2>. QED  BY <1>5, OnlyRefs
<1>. HIDE DEF A, C, D
<1>7. Only(Only(idx.nodes, A), C) = Only(idx.nodes, A \cap C)
  BY <1>1, OnlyTwice
<1>8. Only(idx.nodes, A \cap C) = Only(idx.nodes, D)
  <2>1. ToSet(idx.nodes) \subseteq IndexedArtifact
    BY <1>1, Members
  <2>2. ToSet(idx.nodes) \cap (A \cap C) = ToSet(idx.nodes) \cap D
    BY <2>1, <1>4
  <2>. QED  BY <2>2, OnlySame
<1>. QED  BY <1>3, <1>6, <1>7, <1>8 DEF RelationsOf, D

\* The ends of the relations found are contributions of the index.
LEMMA EndsResolved ==
  ASSUME NEW l \in Ledger, NEW c, Grown(l, c), NEW idx, idx.nodes = IndexedArtifacts(l),
         NEW B \in SUBSET Ref, NEW EndOf \in {FromOf, ToOf}
  PROVE  LET relations == RelationsOf(l, B)
         IN  ToSet(Resolved(idx, [i \in DOMAIN relations |-> EndOf[relations[i]]], anyKind))
             = {EndOf[r] : r \in ToSet(relations)}
<1> DEFINE D == {x \in IndexedArtifact : ~IsContribution(x) /\ x.ref \in B}
           relations == RelationsOf(l, B)
           refs == [i \in DOMAIN relations |-> EndOf[relations[i]]]
<1>1. IndexedArtifacts(l) \in Seq(IndexedArtifact) /\ ToSet(idx.nodes) = Recorded(l)
  BY ArtifactsType
<1>2. /\ Only(IndexedArtifacts(l), D) \in Seq(IndexedArtifact)
      /\ ToSet(Only(IndexedArtifacts(l), D)) = Recorded(l) \cap D
  <2>. HIDE DEF D
  <2>. QED  BY <1>1, OnlyMembers, ArtifactsType
<1>3. relations \in Seq(Ref) /\ ToSet(relations) = {x.ref : x \in Recorded(l) \cap D}
  <2>1. relations = RefsOf(Only(IndexedArtifacts(l), D))
    BY DEF RelationsOf
  <2>. HIDE DEF D, relations
  <2>. QED  BY <1>2, <2>1, RefsType
<1>4. DOMAIN relations = 1 .. Len(relations) /\ Len(relations) \in Nat
      /\ \A i \in DOMAIN relations : relations[i] \in Ref /\ relations[i] \in ToSet(relations)
  <2>. HIDE DEF relations
  <2>. QED  BY <1>3, ElementOfSeq, LenProperties DEF ToSet
<1>5. \A r \in Ref : EndOf[r] \in Ref
  BY ContentAssumption
<1>6. refs \in Seq(Ref) /\ DOMAIN refs = DOMAIN relations
  <2>. HIDE DEF relations
  <2>. QED  BY <1>4, <1>5, IsASeq
<1>7. ASSUME NEW i \in DOMAIN refs PROVE \E x \in Get(idx, refs[i]) : IsContribution(x)
  <2>1. refs[i] = EndOf[relations[i]] /\ relations[i] \in ToSet(relations)
    BY <1>4
  <2>. HIDE DEF refs, relations
  <2>2. PICK y \in Recorded(l) \cap D : y.ref = relations[i]
    BY <1>3, <2>1
  <2>3. ~IsContribution(y)
    BY <2>2
  <2>4. FromOf[y.ref] \in RecordedContributions(l) /\ ToOf[y.ref] \in RecordedContributions(l)
    BY <2>2, <2>3, GrownResolves
  <2>5. refs[i] \in RecordedContributions(l)
    BY <2>1, <2>2, <2>4
  <2>6. PICK z \in Recorded(l) : IsContribution(z) /\ z.ref = refs[i]
    BY <2>5, RecordedHasRefs
  <2>. QED  BY <1>1, <2>6, GetNodes
<1>8. ToSet(refs) = {EndOf[r] : r \in ToSet(relations)}
  BY DEF ToSet
<1>. HIDE DEF refs
<1>9. ToSet(Resolved(idx, refs, anyKind)) = ToSet(refs)
  BY <1>6, <1>7, ResolvedAll
<1>. QED  BY <1>8, <1>9 DEF refs

\* An index that files the artifacts of a ledger answers as the ledger does.
LEMMA FiledAnswers ==
  ASSUME NEW l \in Ledger, NEW c, Grown(l, c), NEW idx, idx.nodes = IndexedArtifacts(l),
         Files(idx.adjacency, idx.nodes)
  PROVE  AnswersFrom(idx, l)
<1>1. ASSUME NEW kind \in Kind
      PROVE  Neighbors(idx.adjacency, OfTheKind(kind)) =
               RefsOf(Only(idx.nodes, {x \in IndexedArtifact : KindOf[x.ref] = kind}))
  <2>1. OfTheKind(kind) \in Key
    BY DEF Key, OfTheKind
  <2>2. ASSUME NEW x \in IndexedArtifact
        PROVE  OfTheKind(kind) \in Keys(x) <=> KindOf[x.ref] = kind
    <3>1. \A r : OfTheKind(kind) # AtTheEnd(r)
      <4>1. ASSUME NEW r PROVE OfTheKind(kind).by = "kind" /\ AtTheEnd(r).by = "end"
        BY DEF AtTheEnd, OfTheKind
      <4>. QED  BY <4>1
    <3>2. OfTheKind(kind) = OfTheKind(KindOf[x.ref]) <=> kind = KindOf[x.ref]
      <4>1. OfTheKind(kind).of = kind /\ OfTheKind(KindOf[x.ref]).of = KindOf[x.ref]
        BY DEF OfTheKind
      <4>. QED  BY <4>1
    <3>. QED  BY <3>1, <3>2 DEF Keys
  <2>3. FiledUnder(OfTheKind(kind)) = {x \in IndexedArtifact : KindOf[x.ref] = kind}
    BY <2>2 DEF FiledUnder
  <2>. QED  BY <2>1, <2>3 DEF Files
<1>2. ASSUME NEW ref \in Ref, NEW via \in Kind \cup {anyKind}
      PROVE  /\ IncomingRelations(idx, ref, via) = RelationsOf(l, Into(ref, via))
             /\ OutgoingRelations(idx, ref, via) = RelationsOf(l, OutOf(ref, via))
  <2>1. /\ Into(ref, via) \in SUBSET Ref /\ \A r \in Into(ref, via) : ToOf[r] = ref
        /\ OutOf(ref, via) \in SUBSET Ref /\ \A r \in OutOf(ref, via) : FromOf[r] = ref
    BY DEF Into, OutOf
  <2>. QED  BY <2>1, FiledRelations DEF IncomingRelations, OutgoingRelations
<1>3. ASSUME NEW ref \in Ref, NEW via \in Kind \cup {anyKind}
      PROVE  /\ ToSet(IncomingContributions(idx, ref, via, anyKind)) =
                  {FromOf[r] : r \in ToSet(RelationsOf(l, Into(ref, via)))}
             /\ ToSet(OutgoingContributions(idx, ref, via, anyKind)) =
                  {ToOf[r] : r \in ToSet(RelationsOf(l, OutOf(ref, via)))}
  <2>1. Into(ref, via) \in SUBSET Ref /\ OutOf(ref, via) \in SUBSET Ref
    BY DEF Into, OutOf
  <2>2. ToSet(IncomingContributions(idx, ref, via, anyKind)) =
          {FromOf[r] : r \in ToSet(RelationsOf(l, Into(ref, via)))}
    BY <1>2, <2>1, EndsResolved DEF IncomingContributions
  <2>3. ToSet(OutgoingContributions(idx, ref, via, anyKind)) =
          {ToOf[r] : r \in ToSet(RelationsOf(l, OutOf(ref, via)))}
    BY <1>2, <2>1, EndsResolved DEF OutgoingContributions
  <2>. QED  BY <2>2, <2>3
<1>. QED  BY <1>1, <1>2, <1>3 DEF AnswersFrom

-----------------------------------------------------------------------------
(* The newest positions.                                                   *)

Above(P, p) == {q \in P : Later(q, p)}

\* Positions are ordered.
LEMMA LaterOrders ==
  ASSUME NEW p \in Cursor, NEW q \in Cursor
  PROVE  /\ ~Later(p, p)
         /\ p = q \/ Later(p, q) \/ Later(q, p)
         /\ ~(Later(p, q) /\ Later(q, p))
         /\ \A r \in Cursor : Later(p, q) /\ Later(q, r) => Later(p, r)
         /\ p.height > 0 => Later(p, NoCursor) /\ p # NoCursor
<1>1. p.height \in Nat /\ p.index \in Nat /\ q.height \in Nat /\ q.index \in Nat
  BY DEF Cursor
<1>2. p = q \/ Later(p, q) \/ Later(q, p)
  <2>1. p.height = q.height /\ p.index = q.index => p = q
    BY DEF Cursor
  <2>. QED  BY <1>1, <2>1 DEF Later
<1>3. ASSUME NEW r \in Cursor PROVE Later(p, q) /\ Later(q, r) => Later(p, r)
  <2>1. r.height \in Nat /\ r.index \in Nat
    BY DEF Cursor
  <2>. QED  BY <1>1, <2>1 DEF Later
<1>4. NoCursor.height = 0 /\ NoCursor.index = 0
  BY DEF NoCursor
<1>5. p.height > 0 => Later(p, NoCursor) /\ p # NoCursor
  BY <1>1, <1>4 DEF Later
<1>. QED  BY <1>1, <1>2, <1>3, <1>5 DEF Later

\* Fewer positions are above a later one.
LEMMA RankFalls ==
  ASSUME NEW P \in SUBSET Cursor, IsFiniteSet(P), NEW p \in P, NEW q \in P
  PROVE  /\ Cardinality(Above(P, p)) \in Nat /\ Cardinality(P) \in Nat
         /\ Cardinality(Above(P, p)) < Cardinality(P)
         /\ Later(p, q) => Cardinality(Above(P, p)) < Cardinality(Above(P, q))
<1>1. /\ Above(P, p) \in SUBSET P /\ Above(P, q) \in SUBSET P
      /\ IsFiniteSet(Above(P, p)) /\ IsFiniteSet(Above(P, q))
  <2>1. Above(P, p) \in SUBSET P /\ Above(P, q) \in SUBSET P
    BY DEF Above
  <2>. QED  BY <2>1, FS_Subset
<1>2. Cardinality(Above(P, p)) \in Nat /\ Cardinality(Above(P, q)) \in Nat /\ Cardinality(P) \in Nat
  BY <1>1, FS_CardinalityType
<1>3. p \in Cursor /\ q \in Cursor
  OBVIOUS
<1>4. Cardinality(Above(P, p)) < Cardinality(P)
  <2>1. p \notin Above(P, p)
    BY <1>3, LaterOrders DEF Above
  <2>2. Above(P, p) # P
    BY <2>1
  <2>. QED  BY <1>1, <1>2, <2>2, FS_Subset
<1>5. ASSUME Later(p, q) PROVE Cardinality(Above(P, p)) < Cardinality(Above(P, q))
  <2>1. p \in Above(P, q) /\ p \notin Above(P, p)
    BY <1>3, <1>5, LaterOrders DEF Above
  <2>2. Above(P, p) \in SUBSET Above(P, q)
    <3>1. ASSUME NEW r \in Above(P, p) PROVE r \in Above(P, q)
      BY <1>3, <1>5, LaterOrders DEF Above
    <3>. QED  BY <3>1
  <2>3. Above(P, p) # Above(P, q)
    BY <2>1
  <2>. QED  BY <1>1, <1>2, <2>2, <2>3, FS_Subset
<1>. QED  BY <1>2, <1>4, <1>5

\* The k-th newest exists.
LEMMA NewestIs ==
  ASSUME NEW P \in SUBSET Cursor, IsFiniteSet(P), NEW k \in 1 .. Cardinality(P)
  PROVE  Newest(P, k) \in P /\ Cardinality(Above(P, Newest(P, k))) = k - 1
<1> DEFINE n == Cardinality(P)
           T == 0 .. (n - 1)
           rank == [p \in P |-> Cardinality(Above(P, p))]
<1>1. n \in Nat /\ k \in 1 .. n
  BY FS_CardinalityType
<1>2. IsFiniteSet(T) /\ Cardinality(T) = n
  <2>. HIDE DEF n
  <2>1. 0 \in Int /\ n - 1 \in Int
    BY <1>1
  <2>2. IsFiniteSet(T) /\ Cardinality(T) = IF 0 > n - 1 THEN 0 ELSE (n - 1) - 0 + 1
    BY <2>1, FS_Interval
  <2>. QED  BY <1>1, <2>2
<1>3. \A p \in P : Cardinality(Above(P, p)) \in T
  BY <1>1, RankFalls
<1>4. \A p, q \in P : rank[p] = rank[q] => p = q
  <2>1. ASSUME NEW p \in P, NEW q \in P, p # q PROVE rank[p] # rank[q]
    <3>1. Later(p, q) \/ Later(q, p)
      BY <2>1, LaterOrders
    <3>2. /\ Cardinality(Above(P, p)) \in Nat /\ Cardinality(Above(P, q)) \in Nat
          /\ Later(p, q) => Cardinality(Above(P, p)) < Cardinality(Above(P, q))
          /\ Later(q, p) => Cardinality(Above(P, q)) < Cardinality(Above(P, p))
      BY RankFalls
    <3>. QED  BY <3>1, <3>2
  <2>. QED  BY <2>1
<1>5. rank \in Injection(P, T)
  BY <1>3, <1>4 DEF Injection, IsInjective
<1>6. rank \in Surjection(P, T)
  <2>. HIDE DEF rank, T
  <2>. QED  BY <1>2, <1>5, FS_Injection
<1>7. k - 1 \in T
  BY <1>1
<1>8. \E p \in P : rank[p] = k - 1
  BY <1>6, <1>7 DEF Surjection
<1>9. \E p \in P : Cardinality({q \in P : Later(q, p)}) = k - 1
  BY <1>8 DEF Above
<1>. QED  BY <1>9 DEF Newest, Above

\* The positions of artifacts.
LEMMA PositionsType ==
  ASSUME NEW s \in Seq(IndexedArtifact)
  PROVE  /\ IsFiniteSet(Positions(s)) /\ Positions(s) \in SUBSET Cursor
         /\ Positions(s) = {Position(x) : x \in ToSet(s)}
         /\ \A p \in Positions(s) : p.height > 0
<1>1. Len(s) \in Nat /\ DOMAIN s = 1 .. Len(s) /\ \A i \in 1 .. Len(s) : s[i] \in IndexedArtifact
  BY ElementOfSeq, LenProperties
<1>2. \A x \in IndexedArtifact : Position(x) \in Cursor /\ Position(x).height > 0
  BY DEF IndexedArtifact, Position, Cursor
<1> DEFINE f == [i \in 1 .. Len(s) |-> Position(s[i])]
<1>3. f \in Surjection(1 .. Len(s), Positions(s))
  BY <1>1 DEF Surjection, Positions
<1>4. IsFiniteSet(1 .. Len(s))
  BY <1>1, FS_Interval
<1>5. IsFiniteSet(Positions(s))
  BY <1>3, <1>4, FS_Surjection
<1>. QED  BY <1>1, <1>2, <1>5 DEF Positions, ToSet

\* The transaction at a recorded position.
LEMMA TransactionIsThere ==
  ASSUME NEW s \in Seq(IndexedArtifact), NEW p \in Positions(s)
  PROVE  /\ TransactionAt(s, p) \in Seq(IndexedArtifact) /\ TransactionAt(s, p) # <<>>
         /\ Position(TransactionAt(s, p)[1]) = p
         /\ ToSet(TransactionAt(s, p)) \subseteq ToSet(s)
<1> DEFINE S == {x \in IndexedArtifact : Position(x) = p}
           t == TransactionAt(s, p)
<1>1. t = Only(s, S)
  BY DEF TransactionAt
<1>. HIDE DEF t
<1>2. t \in Seq(IndexedArtifact) /\ ToSet(t) = ToSet(s) \cap S
  <2>. HIDE DEF S
  <2>. QED  BY <1>1, OnlyMembers
<1>3. PICK x \in ToSet(s) : Position(x) = p
  BY PositionsType
<1>4. x \in ToSet(t)
  BY <1>2, <1>3, Members
<1>5. t # <<>>
  BY <1>4, Members
<1>6. 1 \in DOMAIN t
  <2>1. Len(t) \in Nat /\ DOMAIN t = 1 .. Len(t) /\ Len(t) # 0
    BY <1>2, <1>5, LenProperties, EmptySeq
  <2>. QED  BY <2>1
<1>7. t[1] \in S
  BY <1>2, <1>6 DEF ToSet
<1>. QED  BY <1>2, <1>5, <1>7 DEF t

\* The newest positions, from the newest to the k-th.
LEMMA NewestDescend ==
  ASSUME NEW P \in SUBSET Cursor, IsFiniteSet(P)
  PROVE  /\ Cardinality(P) \in Nat
         /\ \A k \in 1 .. Cardinality(P) : Newest(P, k) \in P
         /\ \A j, k \in 1 .. Cardinality(P) : j < k => Later(Newest(P, j), Newest(P, k))
         /\ \A k \in 1 .. Cardinality(P) : \A p \in P :
              ~Later(Newest(P, k), p) => \E j \in 1 .. k : p = Newest(P, j)
         /\ \A p \in P : \E j \in 1 .. Cardinality(P) : p = Newest(P, j)
         /\ \A k \in 1 .. Cardinality(P) :
              k < Cardinality(P) => \E p \in P : Later(Newest(P, k), p)
<1> DEFINE n == Cardinality(P)
           at(k) == Newest(P, k)
           rank(p) == Cardinality(Above(P, p))
<1>1. n \in Nat
  BY FS_CardinalityType
<1>2. \A k \in 1 .. n : at(k) \in P /\ rank(at(k)) = k - 1
  BY NewestIs
<1>3. \A p \in P : rank(p) \in Nat /\ rank(p) < n
  BY RankFalls
<1>4. \A p, q \in P : Later(p, q) => rank(p) < rank(q)
  BY RankFalls
<1>5. \A p, q \in P : p = q \/ Later(p, q) \/ Later(q, p)
  BY LaterOrders
<1>. HIDE DEF n, at, rank
<1>6. ASSUME NEW j \in 1 .. n, NEW k \in 1 .. n, j < k PROVE Later(at(j), at(k))
  <2>1. at(j) \in P /\ at(k) \in P /\ rank(at(j)) = j - 1 /\ rank(at(k)) = k - 1
    BY <1>2
  <2>2. ~(rank(at(k)) < rank(at(j))) /\ rank(at(j)) # rank(at(k))
    BY <1>1, <1>6, <2>1
  <2>. QED  BY <1>4, <1>5, <2>1, <2>2
<1>7. ASSUME NEW p \in P PROVE rank(p) + 1 \in 1 .. n /\ p = at(rank(p) + 1)
  <2>1. rank(p) \in Nat /\ rank(p) < n
    BY <1>3
  <2>2. rank(p) + 1 \in 1 .. n /\ (rank(p) + 1) - 1 = rank(p)
    BY <1>1, <2>1
  <2>3. at(rank(p) + 1) \in P /\ rank(at(rank(p) + 1)) = rank(p)
    BY <1>2, <2>2
  <2>4. p = at(rank(p) + 1)
    <3>1. ~(rank(p) < rank(p))
      BY <2>1
    <3>. QED  BY <1>4, <1>5, <2>3, <3>1
  <2>. QED  BY <2>2, <2>4
<1>8. ASSUME NEW k \in 1 .. n, NEW p \in P, ~Later(at(k), p)
      PROVE  \E j \in 1 .. k : p = at(j)
  <2>1. at(k) \in P /\ rank(at(k)) = k - 1 /\ k \in Nat
    BY <1>1, <1>2
  <2>2. p = at(k) \/ rank(p) < k - 1
    BY <1>4, <1>5, <1>8, <2>1
  <2>3. CASE p = at(k)
    <3>1. k \in 1 .. k
      BY <1>1
    <3>. QED  BY <2>3, <3>1
  <2>4. CASE rank(p) < k - 1
    <3>1. rank(p) \in Nat /\ rank(p) + 1 \in 1 .. k
      BY <1>3, <2>1, <2>4
    <3>. QED  BY <1>7, <3>1
  <2>. QED  BY <2>2, <2>3, <2>4
<1>9. ASSUME NEW k \in 1 .. n, k < n PROVE \E p \in P : Later(at(k), p)
  <2>1. k + 1 \in 1 .. n /\ k < k + 1
    BY <1>1, <1>9
  <2>. QED  BY <1>2, <1>6, <2>1
<1>10. \A p \in P : \E j \in 1 .. n : p = at(j)
  BY <1>7
<1>. QED  BY <1>1, <1>2, <1>6, <1>8, <1>9, <1>10 DEF n, at

\* A page shows the newest transactions before its cursor.
LEMMA FeedPageShows ==
  ASSUME NEW idx, idx.nodes \in Seq(IndexedArtifact), NEW before \in Cursor
  PROVE  LET older == PositionsBefore(idx, before)
             feed  == FeedPage(idx, before)
         IN  /\ feed.page \in Seq(Seq(IndexedArtifact)) /\ feed.next \in Cursor
             /\ Shows(feed.page, idx.nodes, UpTo(feed.next, older))
             /\ Len(feed.page) <= FeedLimit
             /\ feed.next # NoCursor => /\ feed.next \in older
                                        /\ Len(feed.page) = FeedLimit
                                        /\ UpTo(feed.next, older) # older
             /\ \A k \in DOMAIN feed.page : ToSet(feed.page[k]) \subseteq ToSet(idx.nodes)
<1> DEFINE older == PositionsBefore(idx, before)
           count == Cardinality(older)
           size == IF count > FeedLimit THEN FeedLimit ELSE count
           page == [k \in 1 .. size |-> TransactionAt(idx.nodes, Newest(older, k))]
           next == IF count > FeedLimit THEN Newest(older, size) ELSE NoCursor
<1>1. FeedPage(idx, before).page = page /\ FeedPage(idx, before).next = next
  BY DEF FeedPage
<1>2. /\ older \in SUBSET Positions(idx.nodes) /\ older \in SUBSET Cursor /\ IsFiniteSet(older)
      /\ \A p \in older : p.height > 0
  <2>1. older \in SUBSET Positions(idx.nodes)
    BY DEF PositionsBefore
  <2>. QED  BY <2>1, PositionsType, FS_Subset
<1>3. FeedLimit \in Nat \ {0}
  BY InspectorAssumption
<1>. HIDE DEF older
<1>4. count \in Nat
  BY <1>2, NewestDescend
<1>5. size \in Nat /\ size <= count /\ size <= FeedLimit /\ (count > FeedLimit => size = FeedLimit)
      /\ (~(count > FeedLimit) => size = count)
  BY <1>3, <1>4
<1>6. 1 .. size \subseteq 1 .. count
  BY <1>4, <1>5
<1>. HIDE DEF count, size
<1>7. ASSUME NEW k \in 1 .. size
      PROVE  /\ Newest(older, k) \in older
             /\ page[k] = TransactionAt(idx.nodes, Newest(older, k))
             /\ page[k] \in Seq(IndexedArtifact) /\ page[k] # <<>>
             /\ Position(page[k][1]) = Newest(older, k)
             /\ ToSet(page[k]) \subseteq ToSet(idx.nodes)
  <2>1. Newest(older, k) \in older
    BY <1>2, <1>6, NewestDescend DEF count
  <2>. QED  BY <1>2, <2>1, TransactionIsThere
<1>8. page \in Seq(Seq(IndexedArtifact)) /\ Len(page) = size /\ DOMAIN page = 1 .. size
  <2>1. \A k \in 1 .. size : TransactionAt(idx.nodes, Newest(older, k)) \in Seq(IndexedArtifact)
    BY <1>7
  <2>2. page \in Seq(Seq(IndexedArtifact))
    BY <1>5, <2>1, IsASeq
  <2>3. DOMAIN page = 1 .. size
    OBVIOUS
  <2>. HIDE DEF page
  <2>. QED  BY <1>5, <2>2, <2>3, LenProperties
<1>9. count > FeedLimit => /\ size \in 1 .. count /\ size < count /\ next = Newest(older, size)
                           /\ next \in older /\ next # NoCursor
  <2>. SUFFICES ASSUME count > FeedLimit
                PROVE  /\ size \in 1 .. count /\ size < count /\ next = Newest(older, size)
                       /\ next \in older /\ next # NoCursor
    OBVIOUS
  <2>1. size \in 1 .. count /\ size < count /\ next = Newest(older, size)
    BY <1>3, <1>4, <1>5
  <2>2. next \in older
    BY <1>2, <2>1, NewestDescend DEF count
  <2>. QED  BY <1>2, <2>1, <2>2, LaterOrders
<1>10. ~(count > FeedLimit) => next = NoCursor
  OBVIOUS
<1>11. NoCursor \in Cursor /\ next \in Cursor
  BY <1>2, <1>9, <1>10 DEF NoCursor, Cursor
<1>. HIDE DEF page, next
<1>12. ASSUME NEW p \in UpTo(next, older) PROVE \E k \in 1 .. size : p = Newest(older, k)
  <2>1. p \in older /\ (next = NoCursor \/ ~Later(next, p))
    BY DEF UpTo
  <2>2. CASE count > FeedLimit
    BY <1>2, <1>9, <2>1, <2>2, NewestDescend DEF count
  <2>3. CASE ~(count > FeedLimit)
    BY <1>2, <1>5, <2>1, <2>3, NewestDescend DEF count
  <2>. QED  BY <2>2, <2>3
<1>13. ASSUME NEW k \in 1 .. size PROVE Newest(older, k) \in UpTo(next, older)
  <2>1. CASE count > FeedLimit
    <3>1. k \in 1 .. count /\ size \in 1 .. count /\ (k < size \/ k = size)
      BY <1>5, <1>6, <1>9, <2>1
    <3>2. Newest(older, k) = next \/ Later(Newest(older, k), next)
      BY <1>2, <1>9, <2>1, <3>1, NewestDescend DEF count
    <3>3. ~Later(next, Newest(older, k))
      BY <1>2, <1>7, <1>11, <3>2, LaterOrders
    <3>. QED  BY <1>7, <3>3 DEF UpTo
  <2>2. CASE ~(count > FeedLimit)
    BY <1>7, <1>10, <2>2 DEF UpTo
  <2>. QED  BY <2>1, <2>2
<1>14. \A j, k \in 1 .. size : j < k => Later(Newest(older, j), Newest(older, k))
  BY <1>2, <1>6, NewestDescend DEF count
<1>15. Shows(page, idx.nodes, UpTo(next, older))
  <2>1. ASSUME NEW k \in DOMAIN page
        PROVE  /\ page[k] # <<>>
               /\ Position(page[k][1]) \in UpTo(next, older)
               /\ page[k] = TransactionAt(idx.nodes, Position(page[k][1]))
    BY <1>7, <1>8, <1>13
  <2>2. ASSUME NEW j \in DOMAIN page, NEW k \in DOMAIN page, j < k
        PROVE  Later(Position(page[j][1]), Position(page[k][1]))
    BY <1>7, <1>8, <1>14, <2>2
  <2>3. ASSUME NEW p \in UpTo(next, older) PROVE \E k \in DOMAIN page : Position(page[k][1]) = p
    BY <1>7, <1>8, <1>12
  <2>. QED  BY <2>1, <2>2, <2>3 DEF Shows
<1>16. ASSUME next # NoCursor
       PROVE  next \in older /\ Len(page) = FeedLimit /\ UpTo(next, older) # older
  <2>1. count > FeedLimit
    BY <1>10, <1>16
  <2>2. PICK p \in older : Later(next, p)
    BY <1>2, <1>9, <2>1, NewestDescend DEF count
  <2>3. p \notin UpTo(next, older)
    BY <1>16, <2>2 DEF UpTo
  <2>. QED  BY <1>5, <1>8, <1>9, <2>1, <2>3
<1>17. Len(page) <= FeedLimit
  BY <1>5, <1>8
<1>18. /\ page \in Seq(Seq(IndexedArtifact)) /\ next \in Cursor
       /\ \A k \in DOMAIN page : ToSet(page[k]) \subseteq ToSet(idx.nodes)
  BY <1>7, <1>8, <1>11
<1>. QED  BY <1>1, <1>15, <1>16, <1>17, <1>18 DEF older

-----------------------------------------------------------------------------
(* The history at a height.                                                *)

UpToHeight(l, h) == Only(l, {e \in Entry : e.height <= h})
After(l, h) == Only(l, {e \in Entry : e.height > h})

LEMMA AtIs == \A h : At(h).ledger = UpToHeight(history.ledger, h)
BY DEF At, UpToHeight

\* What was committed up to a height grows by what was committed later.
LEMMA HistoryGrows ==
  ASSUME NEW l \in Ledger, NEW c, Grown(l, c), NEW h \in Nat, NEW g \in Nat, h <= g
  PROVE  /\ UpToHeight(l, h) \in Ledger /\ Grown(UpToHeight(l, h), c)
         /\ UpToHeight(l, g) \in Ledger /\ Grown(UpToHeight(l, g), c)
         /\ After(UpToHeight(l, g), h) \in Ledger
         /\ UpToHeight(l, g) = UpToHeight(l, h) \o After(UpToHeight(l, g), h)
<1>0. l \in Seq(Entry)
  BY DEF Ledger
<1>1. ASSUME NEW n \in Nat PROVE UpToHeight(l, n) \in Ledger /\ Grown(UpToHeight(l, n), c)
  <2>1. UpToHeight(l, n) \in Seq(Entry) /\ After(l, n) \in Seq(Entry)
    BY <1>0, OnlyMembers DEF UpToHeight, After
  <2>2. l = UpToHeight(l, n) \o After(l, n)
    <3>1. n \in Int
      OBVIOUS
    <3>. QED  BY <3>1, OnlySplit DEF UpToHeight, After
  <2>. QED  BY <2>1, <2>2, GrownConcat DEF Ledger
<1> DEFINE G == UpToHeight(l, g)
<1>2. G \in Ledger /\ G \in Seq(Entry) /\ Grown(G, c)
  BY <1>1 DEF Ledger
<1>3. After(G, h) \in Ledger
  <2>. HIDE DEF G
  <2>. QED  BY <1>2, OnlyMembers DEF After, Ledger
<1>4. G = UpToHeight(G, h) \o After(G, h)
  <2>. HIDE DEF G
  <2>1. h \in Int
    OBVIOUS
  <2>. QED  BY <1>2, <2>1, OnlySplit DEF UpToHeight, After
<1>5. UpToHeight(G, h) = UpToHeight(l, h)
  <2> DEFINE A == {e \in Entry : e.height <= g}
             B == {e \in Entry : e.height <= h}
  <2>1. \A e \in Entry : e.height \in Nat
    BY DEF Entry
  <2>2. \A e : e \in A \cap B <=> e \in B
    BY <2>1
  <2>3. ToSet(l) \cap (A \cap B) = ToSet(l) \cap B
    BY <2>2
  <2>4. UpToHeight(G, h) = Only(Only(l, A), B) /\ UpToHeight(l, h) = Only(l, B)
    BY DEF UpToHeight
  <2>. HIDE DEF A, B, G
  <2>5. Only(Only(l, A), B) = Only(l, A \cap B) /\ Only(l, A \cap B) = Only(l, B)
    BY <1>0, <2>3, OnlyTwice, OnlySame
  <2>. QED  BY <2>4, <2>5
<1>. QED  BY <1>1, <1>2, <1>3, <1>4, <1>5

-----------------------------------------------------------------------------
(* The inductive invariant.                                                *)

\* The node's history is that of one network.
HistoryIsGrown == WithinHeight(history) /\ Grown(history.ledger, chain)

\* The node is behind its network only after a restore.
NodeIsCurrent == restores = 0 => stored = history.height

\* The index files its artifacts, all of one chain, and indexedHeight is its
\* height once a request has advanced it.
IndexIsFiled ==
  /\ Files(index.adjacency, index.nodes)
  /\ index = IF indexedHeight = NoHeight THEN EmptyIndex
             ELSE [height |-> indexedHeight, nodes |-> index.nodes, adjacency |-> index.adjacency]
  /\ \A x \in ToSet(index.nodes) : x.chain = indexedChain

\* In the first network the index holds what was committed up to its height.
IndexIsHistory ==
  replacements = 0 =>
    /\ index.height <= history.height
    /\ index.nodes = IndexedArtifacts(At(index.height).ledger)

\* Who reads and advances holds the lock.
Exclusive == \A t \in Thread : request[t].phase \in {"read", "advance"} => lock = t

\* What a request is about, and what it has been told, in each phase.
Unanswered(r) ==
  /\ r.phase # "done" => r.answer = NoAnswer
  /\ r.phase = "idle" => r = Idle
  /\ r.phase \in {"wait", "read", "advance"} => r.node \in Chain /\ r.op # "node"
  /\ r.phase \in {"observe", "wait", "read"} => r.asked <= stored

\* The updates that were read continue the index, which waits for them.
UpdatesContinue(r) ==
  r.phase = "advance" =>
    /\ indexedChain \in {NoChain, r.node}
    /\ r.asked <= r.height
    /\ replacements = 0 =>
         /\ r.height <= history.height
         /\ r.entries = After(At(r.height).ledger, index.height)

\* A view is one of committed history.
ViewIsSound(r) ==
  /\ Viewed(r) =>
       /\ r.asked <= r.answer.height
       /\ \A shown \in {r.answer.body} \cup ToSet(r.answer.page) :
            \A x \in ToSet(shown) : x.chain = r.node
       /\ replacements = 0 =>
            /\ r.answer.height <= history.height
            /\ ShowsExactly(r, IndexedArtifacts(At(r.answer.height).ledger))
  /\ replacements = 0 => r.answer.cause # "append"

\* A client goes on from the pages it has loaded.
PagingGoesOn(s, r) ==
  restores = 0 /\ replacements = 0 =>
    LET all == IndexedArtifacts(At(s.top).ledger)
    IN  /\ s.top <= stored
        /\ Shows(s.seen, all, UpTo(s.cursor, Positions(all)))
        /\ s.cursor # NoCursor => s.cursor \in Positions(all)
        /\ r.phase # "idle" => s.top <= r.asked
        /\ r.phase # "idle" /\ r.op = "feed" => r.before \in {NoCursor, s.cursor}

\* What is true of a thread and of its client.
ThreadIsSound(r, s) ==
  Unanswered(r) /\ UpdatesContinue(r) /\ ViewIsSound(r) /\ PagingGoesOn(s, r)

InspectorInv ==
  /\ TypeOK
  /\ HistoryIsGrown
  /\ NodeIsCurrent
  /\ IndexIsFiled
  /\ IndexIsHistory
  /\ Exclusive
  /\ \A t \in Thread : ThreadIsSound(request[t], session[t])

Session == [seen : Seq(Seq(IndexedArtifact)), cursor : Cursor, top : Nat]

\* A thread that keeps its request in an unchanged world.
LEMMA ThreadKeeps ==
  ASSUME NEW u \in Thread, ThreadIsSound(request[u], session[u]), UNCHANGED <<world, service>>,
         request'[u] = request[u], session'[u] = session[u]
  PROVE  ThreadIsSound(request[u], session[u])'
<1>1. \A h : At(h)' = At(h)
  BY DEF At, world
<1>2. Unanswered(request[u])'
  BY DEF ThreadIsSound, Unanswered, world
<1>3. UpdatesContinue(request[u])'
  BY DEF ThreadIsSound, UpdatesContinue, At, world, service
<1>4. ViewIsSound(request[u])'
  BY DEF ThreadIsSound, ViewIsSound, Viewed, At, world
<1>5. PagingGoesOn(session[u], request[u])'
  BY DEF ThreadIsSound, PagingGoesOn, At, world
<1>. QED  BY <1>2, <1>3, <1>4, <1>5 DEF ThreadIsSound

\* The parts of the invariant a step of one request leaves alone.
LEMMA WorldKeeps ==
  ASSUME HistoryIsGrown, NodeIsCurrent, IndexIsFiled, IndexIsHistory, UNCHANGED <<world, service>>
  PROVE  HistoryIsGrown' /\ NodeIsCurrent' /\ IndexIsFiled' /\ IndexIsHistory'
<1>1. \A h : At(h)' = At(h)
  BY DEF At, world
<1>2. HistoryIsGrown'
  BY DEF HistoryIsGrown, WithinHeight, world
<1>3. NodeIsCurrent'
  BY DEF NodeIsCurrent, world
<1>4. IndexIsFiled'
  BY DEF IndexIsFiled, service
<1>5. IndexIsHistory'
  BY DEF IndexIsHistory, At, world, service
<1>. QED  BY <1>2, <1>3, <1>4, <1>5

\* A step of one request, in an unchanged world.
LEMMA RequestStep ==
  ASSUME InspectorInv, NEW t \in Thread, NEW r \in Request, NEW s \in Session,
         UNCHANGED <<world, service>>,
         request' = [request EXCEPT ![t] = r], session' = [session EXCEPT ![t] = s],
         lock' \in Thread \cup {NoThread},
         r.phase \in {"read", "advance"} => lock' = t,
         \A u \in Thread \ {t} : lock = u => lock' = u,
         ThreadIsSound(r, s)
  PROVE  InspectorInv'
<1>1. request \in [Thread -> Request] /\ session \in [Thread -> Session]
  BY DEF InspectorInv, TypeOK, Session
<1>2. /\ request' \in [Thread -> Request] /\ session' \in [Thread -> Session]
      /\ request'[t] = r /\ session'[t] = s
      /\ \A u \in Thread \ {t} : request'[u] = request[u] /\ session'[u] = session[u]
  BY <1>1
<1>3. TypeOK'
  BY <1>2 DEF InspectorInv, TypeOK, Session, world, service
<1>4. HistoryIsGrown' /\ NodeIsCurrent' /\ IndexIsFiled' /\ IndexIsHistory'
  BY WorldKeeps DEF InspectorInv
<1>5. Exclusive'
  BY <1>2 DEF InspectorInv, Exclusive
<1>6. ASSUME NEW u \in Thread PROVE ThreadIsSound(request[u], session[u])'
  <2>1. CASE u # t
    <3>1. ThreadIsSound(request[u], session[u])
      BY DEF InspectorInv
    <3>. QED  BY <1>2, <2>1, <3>1, ThreadKeeps
  <2>2. CASE u = t
    <3>0. \A h : At(h)' = At(h)
      BY DEF At, world
    <3>1. Unanswered(request[t])'
      BY <1>2 DEF ThreadIsSound, Unanswered, world
    <3>2. UpdatesContinue(request[t])'
      BY <1>2 DEF ThreadIsSound, UpdatesContinue, At, world, service
    <3>3. ViewIsSound(request[t])'
      BY <1>2 DEF ThreadIsSound, ViewIsSound, Viewed, At, world
    <3>4. PagingGoesOn(session[t], request[t])'
      BY <1>2 DEF ThreadIsSound, PagingGoesOn, At, world
    <3>. QED  BY <2>2, <3>1, <3>2, <3>3, <3>4 DEF ThreadIsSound
  <2>. QED  BY <2>1, <2>2
<1>. QED  BY <1>3, <1>4, <1>5, <1>6 DEF InspectorInv

\* The constants, one by one.
LEMMA InspectorBounds ==
  /\ FeedLimit \in Nat \ {0} /\ MaxHeight \in Nat /\ MaxBlockTxs \in Nat
  /\ MaxRestores \in Nat /\ MaxReplacements \in Nat
  /\ NoThread \notin Thread /\ NoChain \notin Chain /\ Ref # {}
BY InspectorAssumption

LEMMA IdleType ==
  /\ Idle \in Request /\ NoAnswer \in Answer /\ NoCursor \in Cursor /\ NoSession \in Session
  /\ \A cause \in {"unavailable", "chain", "behind", "append", "after"} : Failure(cause) \in Answer
<1>1. NoCursor \in Cursor
  BY DEF NoCursor, Cursor
<1>2. NoAnswer \in Answer
  BY <1>1, EmptySeq DEF NoAnswer, Answer
<1>3. (CHOOSE r \in Ref : TRUE) \in Ref
  BY InspectorBounds
<1>4. Idle \in Request
  <2>1. <<>> \in Ledger /\ NoHeight \in Int
    BY EmptySeq DEF Ledger, NoHeight
  <2>. QED  BY <1>1, <1>2, <1>3, <2>1 DEF Idle, Request, Operation
<1>5. NoSession \in Session
  BY <1>1, EmptySeq DEF NoSession, Session
<1>6. \A cause \in {"unavailable", "chain", "behind", "append", "after"} : Failure(cause) \in Answer
  BY <1>2 DEF Failure, Answer
<1>. QED  BY <1>1, <1>2, <1>4, <1>5, <1>6

-----------------------------------------------------------------------------
(* The steps of a request.                                                 *)

\* A thread and its client, as the invariant has them.
LEMMA ThreadFacts ==
  ASSUME InspectorInv, NEW t \in Thread
  PROVE  /\ request[t] \in Request /\ session[t] \in Session
         /\ request \in [Thread -> Request] /\ session \in [Thread -> Session]
         /\ session = [session EXCEPT ![t] = session[t]]
         /\ ThreadIsSound(request[t], session[t])
         /\ lock \in Thread \cup {NoThread} /\ stored \in Nat /\ replacements \in Nat /\ restores \in Nat
         /\ stored <= history.height /\ history \in Snapshot /\ history.height \in Nat
         /\ history.ledger \in Ledger /\ chain \in Chain
<1>1. request \in [Thread -> Request] /\ session \in [Thread -> Session]
  BY DEF InspectorInv, TypeOK, Session
<1>2. history \in Snapshot /\ stored \in 0 .. history.height /\ chain \in Chain
      /\ lock \in Thread \cup {NoThread} /\ replacements \in Nat /\ restores \in Nat
  BY DEF InspectorInv, TypeOK
<1>3. history.height \in Nat /\ history.ledger \in Ledger
  BY <1>2 DEF Snapshot
<1>4. session = [session EXCEPT ![t] = session[t]]
  BY <1>1
<1>. QED  BY <1>1, <1>2, <1>3, <1>4 DEF InspectorInv

\* A request that is parsed.
LEMMA ParsedKeeps ==
  ASSUME InspectorInv, NEW t \in Thread, NEW r \in Request, r.answer = NoAnswer,
         r.before \in {NoCursor, session[t].cursor}, Parsed(t, r)
  PROVE  InspectorInv'
<1> DEFINE q == [r EXCEPT !.phase = "observe", !.asked = stored, !.network = replacements]
<1>1. q \in Request
  BY ThreadFacts DEF Request
<1>2. /\ q.phase = "observe" /\ q.asked = stored /\ q.answer = NoAnswer /\ q.before = r.before
  BY DEF Request
<1>3. request' = [request EXCEPT ![t] = q] /\ session' = [session EXCEPT ![t] = session[t]]
      /\ UNCHANGED <<world, service>> /\ lock' = lock
  BY ThreadFacts DEF Parsed
<1>. HIDE DEF q
<1>4. ThreadIsSound(q, session[t])
  <2>1. Unanswered(q)
    BY <1>2, ThreadFacts DEF Unanswered
  <2>2. UpdatesContinue(q) /\ ViewIsSound(q)
    BY <1>2 DEF UpdatesContinue, ViewIsSound, Viewed, NoAnswer
  <2>3. PagingGoesOn(session[t], q)
    BY <1>2, ThreadFacts DEF ThreadIsSound, PagingGoesOn
  <2>. QED  BY <2>1, <2>2, <2>3 DEF ThreadIsSound
<1>. QED  BY <1>1, <1>2, <1>3, <1>4, ThreadFacts, RequestStep

LEMMA ReceiveKeeps ==
  ASSUME InspectorInv, NEW t \in Thread, Receive(t)
  PROVE  InspectorInv'
<1>0. Idle.answer = NoAnswer /\ Idle.before = NoCursor
  BY DEF Idle
<1>1. CASE \E op \in Asked \cap {"node", "snapshot"} : Parsed(t, [Idle EXCEPT !.op = op])
  <2>1. PICK op \in {"node", "snapshot"} : Parsed(t, [Idle EXCEPT !.op = op])
    BY <1>1
  <2> DEFINE r == [Idle EXCEPT !.op = op]
  <2>2. r \in Request /\ r.answer = NoAnswer /\ r.before = NoCursor
    BY <1>0, IdleType DEF Request, Operation
  <2>3. Parsed(t, r)
    BY <2>1
  <2>. HIDE DEF r
  <2>. QED  BY <2>2, <2>3, ParsedKeeps
<1>2. CASE GetGraph(t)
  <2>1. PICK after \in {NoHeight} \cup 0 .. MaxHeight :
               Parsed(t, [Idle EXCEPT !.op = "graph", !.after = after])
    BY <1>2 DEF GetGraph
  <2> DEFINE r == [Idle EXCEPT !.op = "graph", !.after = after]
  <2>2. after \in Int
    BY InspectorBounds DEF NoHeight
  <2>3. r \in Request /\ r.answer = NoAnswer /\ r.before = NoCursor
    BY <1>0, <2>2, IdleType DEF Request, Operation
  <2>4. Parsed(t, r)
    BY <2>1
  <2>. HIDE DEF r
  <2>. QED  BY <2>3, <2>4, ParsedKeeps
<1>3. CASE GetFeed(t)
  <2>1. PICK before \in {NoCursor, session[t].cursor} :
               Parsed(t, [Idle EXCEPT !.op = "feed", !.before = before])
    BY <1>3 DEF GetFeed
  <2> DEFINE r == [Idle EXCEPT !.op = "feed", !.before = before]
  <2>2. before \in Cursor
    BY ThreadFacts, IdleType DEF Session
  <2>3. r \in Request /\ r.answer = NoAnswer /\ r.before = before
    BY <1>0, <2>2, IdleType DEF Request, Operation
  <2>4. Parsed(t, r)
    BY <2>1
  <2>. HIDE DEF r
  <2>. QED  BY <2>3, <2>4, ParsedKeeps
<1>4. CASE GetContribution(t)
  <2>1. PICK ref \in Ref : Parsed(t, [Idle EXCEPT !.op = "contribution", !.ref = ref])
    BY <1>4 DEF GetContribution
  <2> DEFINE r == [Idle EXCEPT !.op = "contribution", !.ref = ref]
  <2>2. r \in Request /\ r.answer = NoAnswer /\ r.before = NoCursor
    BY <1>0, IdleType DEF Request, Operation
  <2>3. Parsed(t, r)
    BY <2>1
  <2>. HIDE DEF r
  <2>. QED  BY <2>2, <2>3, ParsedKeeps
<1>. QED  BY <1>1, <1>2, <1>3, <1>4 DEF Receive

\* A request that ends in an error.
LEMMA FailureKeeps ==
  ASSUME InspectorInv, NEW t \in Thread, request[t].phase \in {"observe", "read", "advance"},
         NEW cause \in {"unavailable", "chain", "behind", "append", "after"},
         replacements = 0 => cause # "append",
         request' = [request EXCEPT ![t].phase = "done", ![t].answer = Failure(cause)],
         lock' = lock \/ (lock = t /\ lock' = NoThread),
         UNCHANGED <<world, service, session>>
  PROVE  InspectorInv'
<1> DEFINE q == [request[t] EXCEPT !.phase = "done", !.answer = Failure(cause)]
<1>1. q \in Request
  BY ThreadFacts, IdleType DEF Request
<1>2. /\ q.phase = "done" /\ q.answer = Failure(cause) /\ q.asked = request[t].asked
      /\ q.op = request[t].op /\ q.before = request[t].before
  BY ThreadFacts DEF Request
<1>3. request' = [request EXCEPT ![t] = q]
  BY ThreadFacts
<1>4. Failure(cause).status = "error" /\ Failure(cause).cause = cause
  BY DEF Failure, NoAnswer
<1>. HIDE DEF q
<1>5. ThreadIsSound(q, session[t])
  <2>1. Unanswered(q) /\ UpdatesContinue(q)
    BY <1>2 DEF Unanswered, UpdatesContinue
  <2>2. ViewIsSound(q)
    BY <1>2, <1>4 DEF ViewIsSound, Viewed
  <2>3. PagingGoesOn(session[t], q)
    BY <1>2, ThreadFacts DEF ThreadIsSound, PagingGoesOn
  <2>. QED  BY <2>1, <2>2, <2>3 DEF ThreadIsSound
<1>6. session' = [session EXCEPT ![t] = session[t]] /\ session[t] \in Session
  BY ThreadFacts
<1>7. lock' \in Thread \cup {NoThread} /\ \A u \in Thread \ {t} : lock = u => lock' = u
  BY ThreadFacts
<1>8. UNCHANGED <<world, service>> /\ q.phase \notin {"read", "advance"}
  BY <1>2
<1>. QED  BY <1>1, <1>3, <1>5, <1>6, <1>7, <1>8, RequestStep

LEMMA ObserveKeeps ==
  ASSUME InspectorInv, NEW t \in Thread, Observe(t)
  PROVE  InspectorInv'
<1> DEFINE r == request[t]
           q == [r EXCEPT !.node = chain,
                          !.phase = IF r.op = "node" THEN "done" ELSE "wait",
                          !.answer = IF r.op = "node"
                                     THEN [NoAnswer EXCEPT !.status = "ok"] ELSE NoAnswer]
<1>1. r \in Request /\ r.phase = "observe" /\ chain \in Chain
  BY ThreadFacts DEF Observe
<1>2. [NoAnswer EXCEPT !.status = "ok"] \in Answer
  BY IdleType DEF Answer
<1>3. q \in Request
  BY <1>1, <1>2, IdleType DEF Request
<1>4. /\ q.node = chain /\ q.op = r.op /\ q.asked = r.asked /\ q.before = r.before
      /\ r.op = "node" => q.phase = "done" /\ q.answer.cause = "none"
      /\ r.op # "node" => q.phase = "wait" /\ q.answer = NoAnswer
      /\ NoAnswer.cause = "none" /\ q.phase \in {"done", "wait"}
  BY <1>1 DEF Request, NoAnswer
<1>5. request' = [request EXCEPT ![t] = q]
  BY ThreadFacts DEF Observe
<1>. HIDE DEF q
<1>6. ThreadIsSound(q, session[t])
  <2>1. Unanswered(q)
    BY <1>1, <1>4, ThreadFacts DEF Unanswered, ThreadIsSound
  <2>2. UpdatesContinue(q) /\ ViewIsSound(q)
    BY <1>4 DEF UpdatesContinue, ViewIsSound, Viewed
  <2>3. PagingGoesOn(session[t], q)
    BY <1>1, <1>4, ThreadFacts DEF ThreadIsSound, PagingGoesOn
  <2>. QED  BY <2>1, <2>2, <2>3 DEF ThreadIsSound
<1>7. session' = [session EXCEPT ![t] = session[t]] /\ session[t] \in Session
      /\ UNCHANGED <<world, service>> /\ lock' = lock /\ lock \in Thread \cup {NoThread}
  BY ThreadFacts DEF Observe
<1>8. q.phase \notin {"read", "advance"}
  BY <1>4
<1>. QED  BY <1>3, <1>5, <1>6, <1>7, <1>8, RequestStep

LEMMA LockKeeps ==
  ASSUME InspectorInv, NEW t \in Thread, Lock(t)
  PROVE  InspectorInv'
<1> DEFINE r == request[t]
           q == [r EXCEPT !.phase = "read"]
<1>1. r \in Request /\ r.phase = "wait" /\ lock = NoThread /\ lock' = t
  BY ThreadFacts DEF Lock
<1>2. q \in Request
  BY <1>1 DEF Request
<1>3. /\ q.node = r.node /\ q.op = r.op /\ q.asked = r.asked /\ q.before = r.before
      /\ q.answer = r.answer /\ q.phase = "read"
  BY <1>1 DEF Request
<1>4. request' = [request EXCEPT ![t] = q]
  BY ThreadFacts DEF Lock
<1>. HIDE DEF q
<1>5. ThreadIsSound(q, session[t])
  <2>1. Unanswered(q)
    BY <1>1, <1>3, ThreadFacts DEF Unanswered, ThreadIsSound
  <2>2. UpdatesContinue(q) /\ ViewIsSound(q)
    BY <1>3, ThreadFacts DEF UpdatesContinue, ViewIsSound, Viewed, ThreadIsSound
  <2>3. PagingGoesOn(session[t], q)
    BY <1>1, <1>3, ThreadFacts DEF ThreadIsSound, PagingGoesOn
  <2>. QED  BY <2>1, <2>2, <2>3 DEF ThreadIsSound
<1>6. session' = [session EXCEPT ![t] = session[t]] /\ session[t] \in Session
      /\ UNCHANGED <<world, service>>
  BY ThreadFacts DEF Lock
<1>7. \A u \in Thread \ {t} : lock = u => lock' = u
  BY <1>1, InspectorBounds
<1>. QED  BY <1>1, <1>2, <1>4, <1>5, <1>6, <1>7, RequestStep

LEMMA ReadUpdatesKeeps ==
  ASSUME InspectorInv, NEW t \in Thread, ReadUpdates(t)
  PROVE  InspectorInv'
<1> DEFINE r == request[t]
           found == After(At(stored).ledger, index.height)
           q == [r EXCEPT !.phase = "advance", !.height = stored, !.entries = found]
<1>1. r \in Request /\ r.phase = "read" /\ ~WrongNode(t) /\ stored \in Nat /\ lock = t
  BY ThreadFacts DEF ReadUpdates, InspectorInv, Exclusive
<1>2. found \in Ledger
  <2>1. At(stored).ledger \in Seq(Entry)
    <3>1. Grown(history.ledger, chain) /\ stored <= stored
      BY <1>1 DEF InspectorInv, HistoryIsGrown
    <3>2. UpToHeight(history.ledger, stored) \in Ledger
      BY <1>1, <3>1, ThreadFacts, HistoryGrows
    <3>. QED  BY <3>2, AtIs DEF Ledger
  <2>. QED  BY <2>1, OnlyMembers DEF After, Ledger
<1>3. UpdatesAfter(index.height).height = stored /\ UpdatesAfter(index.height).entries = found
  BY DEF UpdatesAfter, After
<1>4. request' = [request EXCEPT ![t] = q]
  BY <1>3, ThreadFacts DEF ReadUpdates
<1>. HIDE DEF found
<1>5. q \in Request
  BY <1>1, <1>2 DEF Request
<1>6. /\ q.node = r.node /\ q.op = r.op /\ q.asked = r.asked /\ q.before = r.before
      /\ q.answer = r.answer /\ q.phase = "advance" /\ q.height = stored /\ q.entries = found
  BY <1>1 DEF Request
<1>. HIDE DEF q
<1>7. ThreadIsSound(q, session[t])
  <2>1. Unanswered(q)
    BY <1>1, <1>6, ThreadFacts DEF Unanswered, ThreadIsSound
  <2>2. indexedChain \in {NoChain, q.node} /\ q.asked <= q.height
    BY <1>1, <1>6, ThreadFacts DEF Unanswered, ThreadIsSound, WrongNode
  <2>3. UpdatesContinue(q)
    BY <1>6, <2>2, ThreadFacts DEF UpdatesContinue, found
  <2>4. ViewIsSound(q)
    BY <1>6, ThreadFacts DEF ViewIsSound, Viewed, ThreadIsSound
  <2>5. PagingGoesOn(session[t], q)
    BY <1>1, <1>6, ThreadFacts DEF ThreadIsSound, PagingGoesOn
  <2>. QED  BY <2>1, <2>3, <2>4, <2>5 DEF ThreadIsSound
<1>8. session' = [session EXCEPT ![t] = session[t]] /\ session[t] \in Session
      /\ UNCHANGED <<world, service>> /\ lock' = t
  BY <1>1, ThreadFacts DEF ReadUpdates
<1>. QED  BY <1>1, <1>4, <1>5, <1>7, <1>8, RequestStep

\* A request that holds the lock and waits with the updates it read.
LEMMA AdvancingFacts ==
  ASSUME InspectorInv, NEW t \in Thread, request[t].phase = "advance"
  PROVE  /\ lock = t /\ request[t].node \in Chain /\ request[t].op # "node"
         /\ request[t].height \in Nat /\ request[t].entries \in Ledger
         /\ IndexedArtifacts(request[t].entries) \in Seq(IndexedArtifact)
         /\ indexedChain \in {NoChain, request[t].node} /\ request[t].asked <= request[t].height
         /\ index.height \in Nat /\ index.nodes \in Seq(IndexedArtifact)
         /\ indexedHeight \in Nat \cup {NoHeight}
         /\ indexedHeight = NoHeight => index = EmptyIndex
         /\ indexedHeight # NoHeight => index.height = indexedHeight
<1>1. request[t] \in Request /\ ThreadIsSound(request[t], session[t])
  BY ThreadFacts
<1>2. lock = t
  BY DEF InspectorInv, Exclusive
<1>3. request[t].height \in Nat /\ request[t].entries \in Ledger
  BY <1>1 DEF Request
<1>4. IndexedArtifacts(request[t].entries) \in Seq(IndexedArtifact)
  BY <1>3, ArtifactsType
<1>5. /\ index.height \in Nat /\ index.nodes \in Seq(IndexedArtifact)
      /\ indexedHeight \in Nat \cup {NoHeight}
  BY DEF InspectorInv, TypeOK
<1>6. /\ indexedHeight = NoHeight => index = EmptyIndex
      /\ indexedHeight # NoHeight => index.height = indexedHeight
  BY DEF InspectorInv, IndexIsFiled
<1>. QED  BY <1>1, <1>2, <1>3, <1>4, <1>5, <1>6 DEF ThreadIsSound, Unanswered, UpdatesContinue

\* In the first network the index and the updates are the ledger they reach.
LEMMA UpdatesComplete ==
  ASSUME InspectorInv, NEW t \in Thread, request[t].phase = "advance", replacements = 0,
         index.height <= request[t].height
  PROVE  /\ IndexedArtifacts(At(request[t].height).ledger)
              = index.nodes \o IndexedArtifacts(request[t].entries)
         /\ Grown(At(request[t].height).ledger, chain) /\ At(request[t].height).ledger \in Ledger
         /\ \A e \in ToSet(request[t].entries) :
              e.height > index.height /\ e.height <= request[t].height
<1> DEFINE r == request[t]
           l == history.ledger
           old == UpToHeight(l, index.height)
           new == UpToHeight(l, r.height)
<1>1. /\ r.height \in Nat /\ index.height \in Nat /\ index.height <= r.height
      /\ l \in Ledger /\ Grown(l, chain)
  BY AdvancingFacts, ThreadFacts DEF InspectorInv, HistoryIsGrown
<1>2. index.nodes = IndexedArtifacts(old)
  BY AtIs DEF InspectorInv, IndexIsHistory
<1>3. r.entries = After(new, index.height)
  BY AtIs, ThreadFacts DEF ThreadIsSound, UpdatesContinue
<1>. HIDE DEF l
<1>4. /\ old \in Ledger /\ new \in Ledger /\ Grown(new, chain) /\ After(new, index.height) \in Ledger
      /\ new = old \o After(new, index.height)
  <2>. HIDE DEF r
  <2>. QED  BY <1>1, HistoryGrows
<1>5. IndexedArtifacts(new) = index.nodes \o IndexedArtifacts(r.entries)
  <2>. HIDE DEF new, old, r
  <2>. QED  BY <1>2, <1>3, <1>4, ArtifactsConcat
<1>6. ASSUME NEW e \in ToSet(r.entries) PROVE e.height > index.height /\ e.height <= r.height
  <2> DEFINE A == {x \in Entry : x.height > index.height}
             B == {x \in Entry : x.height <= r.height}
  <2>1. new = Only(l, B) /\ r.entries = Only(new, A)
    BY <1>3 DEF UpToHeight, After
  <2>2. l \in Seq(Entry) /\ new \in Seq(Entry)
    BY <1>1, <1>4 DEF Ledger
  <2>. HIDE DEF A, B, new, r
  <2>3. e \in A /\ e \in ToSet(new)
    BY <2>1, <2>2, OnlyMembers
  <2>4. e \in B
    BY <2>1, <2>2, <2>3, OnlyMembers
  <2>. QED  BY <2>3, <2>4 DEF A, B
<1>. QED  BY <1>4, <1>5, <1>6, AtIs DEF l

\* Updates that are not behind the index can be appended to it.
LEMMA AppendIsAllowed ==
  ASSUME InspectorInv, NEW t \in Thread, request[t].phase = "advance", replacements = 0,
         index.height <= request[t].height
  PROVE  AppendAllowed(index, request[t].entries, request[t].height)
<1> DEFINE r == request[t]
           added == IndexedArtifacts(r.entries)
           l == At(r.height).ledger
<1>1. /\ r.height \in Nat /\ index.height \in Nat /\ r.entries \in Seq(Entry)
      /\ added \in Seq(IndexedArtifact) /\ index.nodes \in Seq(IndexedArtifact)
  BY AdvancingFacts DEF Ledger
<1>2. /\ IndexedArtifacts(l) = index.nodes \o added /\ Grown(l, chain) /\ l \in Ledger
      /\ \A e \in ToSet(r.entries) : e.height > index.height /\ e.height <= r.height
  BY UpdatesComplete
<1>3. \A i \in DOMAIN r.entries : r.entries[i].height \in (index.height + 1) .. r.height
  <2>1. ASSUME NEW i \in DOMAIN r.entries PROVE r.entries[i].height \in (index.height + 1) .. r.height
    <3>1. r.entries[i] \in ToSet(r.entries) /\ r.entries[i] \in Entry
      BY <1>1, ElementOfSeq DEF ToSet
    <3>2. r.entries[i].height \in Nat
      BY <3>1 DEF Entry
    <3>. QED  BY <1>1, <1>2, <3>1, <3>2
  <2>. QED  BY <2>1
<1>. HIDE DEF l, added, r
<1>4. Distinct(RefsOf(index.nodes) \o RefsOf(added))
  BY <1>1, <1>2, GrownIsDistinct, RefsConcat
<1>5. RefsOf(index.nodes) \in Seq(Ref) /\ RefsOf(added) \in Seq(Ref)
  BY <1>1, RefsType
<1>6. Distinct(RefsOf(added)) /\ ToSet(RefsOf(index.nodes)) \cap ToSet(RefsOf(added)) = {}
  BY <1>4, <1>5, DistinctConcat
<1>7. \A i, j \in DOMAIN added : added[i].ref = added[j].ref => i = j
  BY <1>6 DEF Distinct, RefsOf
<1>8. \A i \in DOMAIN added : added[i].ref \notin NodeRefs(index)
  BY <1>6 DEF RefsOf, NodeRefs, ToSet
<1>. QED  BY <1>1, <1>3, <1>7, <1>8 DEF AppendAllowed, added, r

LEMMA ErrorsKeep ==
  ASSUME InspectorInv, NEW t \in Thread,
         ObserveFails(t) \/ RefuseNode(t) \/ ReadFails(t) \/ Refuse(t)
  PROVE  InspectorInv'
<1> DEFINE fails(cause) ==
             request' = [request EXCEPT ![t].phase = "done", ![t].answer = Failure(cause)]
<1>1. CASE ObserveFails(t)
  <2>1. /\ request[t].phase = "observe" /\ fails("unavailable") /\ lock' = lock
        /\ UNCHANGED <<world, service, session>>
    BY <1>1 DEF ObserveFails
  <2>. QED  BY <2>1, FailureKeeps
<1>2. request[t].phase \in {"read", "advance"} => lock = t
  BY DEF InspectorInv, Exclusive
<1>3. CASE RefuseNode(t)
  <2>1. /\ request[t].phase = "read" /\ fails("chain") /\ lock' = NoThread
        /\ UNCHANGED <<world, service, session>>
    BY <1>3 DEF RefuseNode, Finish
  <2>. QED  BY <1>2, <2>1, FailureKeeps
<1>4. CASE ReadFails(t)
  <2>1. /\ request[t].phase = "read" /\ fails("unavailable") /\ lock' = NoThread
        /\ UNCHANGED <<world, service, session>>
    BY <1>4 DEF ReadFails, Finish
  <2>. QED  BY <1>2, <2>1, FailureKeeps
<1>5. CASE Refuse(t)
  <2> DEFINE cause == Refusal(request[t])
  <2>1. /\ request[t].phase = "advance" /\ fails(cause) /\ lock' = NoThread /\ cause # "none"
        /\ UNCHANGED <<world, service, session>>
    BY <1>5 DEF Refuse, Finish
  <2>2. cause \in {"unavailable", "chain", "behind", "append", "after"}
    BY <2>1 DEF Refusal
  <2>3. ASSUME replacements = 0 PROVE cause # "append"
    <3>1. SUFFICES ASSUME cause = "append" PROVE FALSE
      OBVIOUS
    <3>2. /\ ~(indexedHeight # NoHeight /\ request[t].height < indexedHeight)
          /\ ~AppendAllowed(index, request[t].entries, request[t].height)
      BY <3>1 DEF Refusal
    <3>3. index.height <= request[t].height
      <4>1. EmptyIndex.height = 0
        BY DEF EmptyIndex
      <4>2. request[t].height \in Nat /\ index.height \in Nat
            /\ (indexedHeight = NoHeight => index = EmptyIndex)
            /\ (indexedHeight # NoHeight => index.height = indexedHeight)
        BY <2>1, AdvancingFacts
      <4>. QED  BY <3>2, <4>1, <4>2
    <3>. QED  BY <2>1, <2>3, <3>2, <3>3, AppendIsAllowed
  <2>. HIDE DEF cause
  <2>. QED  BY <1>2, <2>1, <2>2, <2>3, FailureKeeps
<1>. QED  BY <1>1, <1>3, <1>4, <1>5

\* The index a request leaves, when nothing refuses its updates.
LEMMA IndexAdvances ==
  ASSUME InspectorInv, NEW t \in Thread, Advance(t)
  PROVE  LET r == request[t]
         IN  /\ index'.height = r.height /\ indexedHeight' = r.height /\ index.height <= r.height
             /\ index'.nodes = index.nodes \o IndexedArtifacts(r.entries)
             /\ index'.nodes \in Seq(IndexedArtifact)
             /\ IndexIsFiled' /\ indexedChain' \in Chain \cup {NoChain}
             /\ \A x \in ToSet(index'.nodes) : x.chain = r.node
             /\ replacements = 0 =>
                  /\ r.height <= history.height
                  /\ index'.nodes = IndexedArtifacts(At(r.height).ledger)
                  /\ Grown(At(r.height).ledger, chain) /\ At(r.height).ledger \in Ledger
<1> DEFINE r == request[t]
           added == IndexedArtifacts(r.entries)
<1>1. /\ r.phase = "advance" /\ Refusal(r) = "none"
      /\ index' = IF Unchanged(r) THEN index ELSE Appended(index, r.entries, r.height)
      /\ indexedHeight' = r.height
      /\ indexedChain' = IF r.entries = <<>> THEN indexedChain ELSE r.node
      /\ UNCHANGED world
  BY DEF Advance
<1>2. /\ r.node \in Chain /\ r.height \in Nat /\ r.entries \in Ledger
      /\ added \in Seq(IndexedArtifact) /\ indexedChain \in {NoChain, r.node}
      /\ index.height \in Nat /\ index.nodes \in Seq(IndexedArtifact)
      /\ (indexedHeight = NoHeight => index = EmptyIndex)
      /\ (indexedHeight # NoHeight => index.height = indexedHeight)
  BY <1>1, AdvancingFacts
<1>3. /\ ~(indexedHeight # NoHeight /\ r.height < indexedHeight)
      /\ ~Unchanged(r) => ChainsOf(r.entries) \subseteq {r.node}
  BY <1>1 DEF Refusal
<1>4. index.height <= r.height
  <2>1. EmptyIndex.height = 0
    BY DEF EmptyIndex
  <2>. QED  BY <1>2, <1>3, <2>1
<1>5. Files(index.adjacency, index.nodes) /\ \A x \in ToSet(index.nodes) : x.chain = indexedChain
  BY DEF InspectorInv, IndexIsFiled
<1>6. ToSet(added) = Recorded(r.entries)
  BY <1>2, ArtifactsType
<1>. HIDE DEF added, r
<1>7. /\ index'.height = r.height /\ index'.nodes = index.nodes \o added
      /\ index' = [height |-> r.height, nodes |-> index'.nodes, adjacency |-> index'.adjacency]
      /\ Files(index'.adjacency, index'.nodes)
  <2>1. CASE Unchanged(r)
    <3>1. r.height = indexedHeight /\ r.entries = <<>> /\ index' = index
      BY <1>1, <2>1 DEF Unchanged
    <3>2. indexedHeight # NoHeight
      BY <1>2, <3>1 DEF NoHeight
    <3>3. added = <<>>
      BY <3>1, ArtifactsEmpty DEF added, r
    <3>4. index.nodes \o added = index.nodes
      BY <1>2, <3>3, ConcatEmptySeq
    <3>5. index = [height |-> indexedHeight, nodes |-> index.nodes, adjacency |-> index.adjacency]
      BY <3>2 DEF InspectorInv, IndexIsFiled
    <3>. QED  BY <1>2, <1>5, <3>1, <3>2, <3>4, <3>5
  <2>2. CASE ~Unchanged(r)
    <3>1. index' = [height |-> r.height, nodes |-> index.nodes \o added,
                    adjacency |-> Connected(index.adjacency, added)]
      BY <1>1, <2>2 DEF Appended, added, r
    <3>2. Files(Connected(index.adjacency, added), index.nodes \o added)
      BY <1>2, <1>5, ConnectedFiles
    <3>. QED  BY <3>1, <3>2
  <2>. QED  BY <2>1, <2>2
<1>8. index'.nodes \in Seq(IndexedArtifact) /\ ToSet(index'.nodes) = ToSet(index.nodes) \cup ToSet(added)
  BY <1>2, <1>7, ConcatProperties, Members
<1>9. ASSUME NEW x \in ToSet(index.nodes) PROVE x.chain = r.node
  <2>1. x \in IndexedArtifact /\ x.chain = indexedChain
    BY <1>2, <1>5, <1>9, Members
  <2>2. x.chain \in Chain
    BY <2>1 DEF IndexedArtifact
  <2>. QED  BY <1>2, <2>1, <2>2, InspectorBounds
<1>10. ASSUME NEW x \in ToSet(added) PROVE x.chain = r.node /\ r.entries # <<>>
  <2>1. PICK k \in DOMAIN r.entries : \E i \in DOMAIN r.entries[k].tx.artifacts :
               x = Indexed(r.entries[k], i)
    BY <1>6, <1>10 DEF Recorded
  <2>2. r.entries # <<>>
    BY <2>1, EmptySeq
  <2>3. r.entries[k].tx.chain = r.node
    <3>1. ~Unchanged(r)
      BY <2>2 DEF Unchanged
    <3>. QED  BY <1>3, <2>1, <3>1 DEF ChainsOf
  <2>. QED  BY <2>1, <2>2, <2>3 DEF Indexed
<1>11. \A x \in ToSet(index'.nodes) : x.chain = r.node
  BY <1>8, <1>9, <1>10
<1>12. indexedChain' \in Chain \cup {NoChain}
  BY <1>1, <1>2
<1>13. ASSUME NEW x \in ToSet(index'.nodes) PROVE x.chain = indexedChain'
  BY <1>1, <1>5, <1>8, <1>10, <1>11, <1>13
<1>14. IndexIsFiled'
  <2>1. r.height # NoHeight
    BY <1>2 DEF NoHeight
  <2>. QED  BY <1>1, <1>7, <1>13, <2>1 DEF IndexIsFiled
<1>15. replacements = 0 => /\ r.height <= history.height
                           /\ index'.nodes = IndexedArtifacts(At(r.height).ledger)
                           /\ Grown(At(r.height).ledger, chain) /\ At(r.height).ledger \in Ledger
  BY <1>1, <1>4, <1>7, UpdatesComplete, ThreadFacts DEF ThreadIsSound, UpdatesContinue, r, added
<1>. QED  BY <1>1, <1>4, <1>7, <1>8, <1>11, <1>12, <1>14, <1>15 DEF r, added

\* A request, once it is answered from an index.
Answered(r, idx) == [r EXCEPT !.phase = "done", !.answer = AnswerFrom(r, idx)]

\* What contribution answers is the one contribution of that reference.
LEMMA DetailShows ==
  ASSUME NEW idx, idx.nodes \in Seq(IndexedArtifact), NEW ref
  PROVE  /\ Detail(idx, ref) \in Seq(IndexedArtifact)
         /\ ToSet(Detail(idx, ref)) =
              {x \in ToSet(idx.nodes) : x.ref = ref /\ IsContribution(x)}
         /\ Distinct(RefsOf(idx.nodes)) => Len(Detail(idx, ref)) <= 1
<1> DEFINE S == {x \in IndexedArtifact : x.ref = ref /\ IsContribution(x)}
           d == Detail(idx, ref)
<1>1. d = Only(idx.nodes, S) /\ ToSet(idx.nodes) \subseteq IndexedArtifact
  BY Members DEF Detail
<1>2. d \in Seq(IndexedArtifact) /\ ToSet(d) = ToSet(idx.nodes) \cap S
  <2>. HIDE DEF S, d
  <2>. QED  BY <1>1, OnlyMembers
<1>3. ToSet(d) = {x \in ToSet(idx.nodes) : x.ref = ref /\ IsContribution(x)}
  BY <1>1, <1>2
<1>4. ASSUME Distinct(RefsOf(idx.nodes)) PROVE Len(d) <= 1
  <2>1. \A i, j \in DOMAIN idx.nodes : idx.nodes[i].ref = idx.nodes[j].ref => i = j
    BY <1>4 DEF Distinct, RefsOf
  <2>2. Distinct(idx.nodes)
    BY <2>1 DEF Distinct
  <2>3. Distinct(d)
    <3>. HIDE DEF S, d
    <3>. QED  BY <1>1, <2>2, OnlyDistinct
  <2>. HIDE DEF d
  <2>4. \A x, y \in ToSet(d) : x = y
    BY <1>3, <2>1 DEF ToSet
  <2>5. Len(d) \in Nat /\ DOMAIN d = 1 .. Len(d)
    BY <1>2, LenProperties
  <2>6. ASSUME Len(d) > 1 PROVE FALSE
    <3>1. 1 \in DOMAIN d /\ 2 \in DOMAIN d
      BY <2>5, <2>6
    <3>2. d[1] = d[2]
      BY <2>4, <3>1 DEF ToSet
    <3>. QED  BY <2>3, <3>1, <3>2 DEF Distinct
  <2>. QED  BY <2>5, <2>6
<1>. QED  BY <1>2, <1>3, <1>4

\* The view built from an index shows what the operation says of its artifacts.
LEMMA AnswerShows ==
  ASSUME NEW idx, idx.nodes \in Seq(IndexedArtifact), idx.height \in Nat,
         NEW r \in Request, r.op # "node"
  PROVE  LET a == AnswerFrom(r, idx)
         IN  /\ a \in Answer /\ a.height = idx.height /\ a.status = "ok" /\ a.cause = "none"
             /\ \A shown \in {a.body} \cup ToSet(a.page) : ToSet(shown) \subseteq ToSet(idx.nodes)
             /\ Distinct(RefsOf(idx.nodes)) => ShowsExactly(Answered(r, idx), idx.nodes)
<1> DEFINE a == AnswerFrom(r, idx)
           q == Answered(r, idx)
           feed == FeedPage(idx, r.before)
           base == [NoAnswer EXCEPT !.status = "ok", !.height = idx.height]
<1>1. base \in Answer /\ base.body = <<>> /\ base.page = <<>> /\ base.next = NoCursor
      /\ base.height = idx.height /\ base.status = "ok" /\ base.cause = "none"
  BY IdleType DEF Answer, NoAnswer
<1>2. r.before \in Cursor
  BY DEF Request
<1>3. q.op = r.op /\ q.answer = a /\ q.before = r.before /\ q.ref = r.ref /\ q.after = r.after
  BY DEF Answered, Request
<1>4. ToSet(<<>>) = {}
  BY Members
<1>. HIDE DEF base, q
<1>5. CASE r.op = "feed"
  <2>1. a = [base EXCEPT !.page = feed.page, !.next = feed.next]
    BY <1>5 DEF AnswerFrom, base
  <2>2. /\ feed.page \in Seq(Seq(IndexedArtifact)) /\ feed.next \in Cursor
        /\ Shows(feed.page, idx.nodes, UpTo(feed.next, PositionsBefore(idx, r.before)))
        /\ Len(feed.page) <= FeedLimit
        /\ feed.next # NoCursor => /\ feed.next \in PositionsBefore(idx, r.before)
                                   /\ Len(feed.page) = FeedLimit
                                   /\ UpTo(feed.next, PositionsBefore(idx, r.before))
                                        # PositionsBefore(idx, r.before)
        /\ \A k \in DOMAIN feed.page : ToSet(feed.page[k]) \subseteq ToSet(idx.nodes)
    BY <1>2, FeedPageShows
  <2>. HIDE DEF feed, a
  <2>3. a \in Answer /\ a.page = feed.page /\ a.next = feed.next /\ a.body = <<>>
        /\ a.height = idx.height /\ a.status = "ok" /\ a.cause = "none"
    BY <1>1, <2>1, <2>2 DEF Answer
  <2>4. ShowsExactly(q, idx.nodes)
    BY <1>3, <1>5, <2>2, <2>3 DEF ShowsExactly, PageIsNext, PositionsBefore
  <2>5. \A shown \in {a.body} \cup ToSet(a.page) : ToSet(shown) \subseteq ToSet(idx.nodes)
    <3>1. \A shown \in ToSet(feed.page) : \E k \in DOMAIN feed.page : shown = feed.page[k]
      BY DEF ToSet
    <3>. QED  BY <1>4, <2>2, <2>3, <3>1
  <2>. QED  BY <2>3, <2>4, <2>5 DEF a, q
<1>6. CASE r.op = "contribution"
  <2>1. a = [base EXCEPT !.body = Detail(idx, r.ref)]
    BY <1>6 DEF AnswerFrom, base
  <2>2. /\ Detail(idx, r.ref) \in Seq(IndexedArtifact)
        /\ ToSet(Detail(idx, r.ref)) =
             {x \in ToSet(idx.nodes) : x.ref = r.ref /\ IsContribution(x)}
        /\ Distinct(RefsOf(idx.nodes)) => Len(Detail(idx, r.ref)) <= 1
    BY DetailShows
  <2>. HIDE DEF a
  <2>3. a \in Answer /\ a.page = <<>> /\ a.body = Detail(idx, r.ref)
        /\ a.height = idx.height /\ a.status = "ok" /\ a.cause = "none"
    BY <1>1, <2>1, <2>2 DEF Answer
  <2>4. Distinct(RefsOf(idx.nodes)) => ShowsExactly(q, idx.nodes)
    BY <1>3, <1>6, <2>2, <2>3 DEF ShowsExactly
  <2>5. \A shown \in {a.body} \cup ToSet(a.page) : ToSet(shown) \subseteq ToSet(idx.nodes)
    BY <1>4, <2>2, <2>3
  <2>. QED  BY <2>3, <2>4, <2>5 DEF a, q
<1>7. CASE r.op \notin {"feed", "contribution"}
  <2> DEFINE S == {x \in IndexedArtifact : x.height > r.after}
  <2>1. a = [base EXCEPT !.body = Only(idx.nodes, S)]
    BY <1>7 DEF AnswerFrom, TopologyAfter, base
  <2>2. Only(idx.nodes, S) \in Seq(IndexedArtifact)
        /\ ToSet(Only(idx.nodes, S)) = ToSet(idx.nodes) \cap S
    <3>. HIDE DEF S
    <3>. QED  BY OnlyMembers
  <2>. HIDE DEF a
  <2>3. a \in Answer /\ a.page = <<>> /\ a.body = Only(idx.nodes, S)
        /\ a.height = idx.height /\ a.status = "ok" /\ a.cause = "none"
    <3>. HIDE DEF S
    <3>. QED  BY <1>1, <2>1, <2>2 DEF Answer
  <2>4. ShowsExactly(q, idx.nodes)
    BY <1>3, <1>7, <2>3 DEF ShowsExactly
  <2>5. \A shown \in {a.body} \cup ToSet(a.page) : ToSet(shown) \subseteq ToSet(idx.nodes)
    <3>. HIDE DEF S
    <3>. QED  BY <1>4, <2>2, <2>3
  <2>. QED  BY <2>3, <2>4, <2>5 DEF a, q
<1>. QED  BY <1>5, <1>6, <1>7

LEMMA AdvanceKeeps ==
  ASSUME InspectorInv, NEW t \in Thread, Advance(t)
  PROVE  InspectorInv'
<1> DEFINE r == request[t]
           answer == IF r.after > index'.height THEN Failure("after") ELSE AnswerFrom(r, index')
           q == [r EXCEPT !.phase = "done", !.answer = answer]
<1>1. /\ r \in Request /\ r.phase = "advance" /\ lock' = NoThread
      /\ request' = [request EXCEPT ![t] = q]
      /\ UNCHANGED <<world, session>>
  BY ThreadFacts DEF Advance, Finish
<1>2. /\ lock = t /\ r.op # "node" /\ r.asked <= r.height /\ r.height \in Nat
  BY <1>1, AdvancingFacts
<1>3. /\ index'.height = r.height /\ indexedHeight' = r.height
      /\ index'.nodes \in Seq(IndexedArtifact)
      /\ IndexIsFiled' /\ indexedChain' \in Chain \cup {NoChain}
      /\ \A x \in ToSet(index'.nodes) : x.chain = r.node
      /\ replacements = 0 => /\ r.height <= history.height
                             /\ index'.nodes = IndexedArtifacts(At(r.height).ledger)
                             /\ Grown(At(r.height).ledger, chain) /\ At(r.height).ledger \in Ledger
  BY IndexAdvances
<1>4. /\ AnswerFrom(r, index') \in Answer /\ AnswerFrom(r, index').height = r.height
      /\ AnswerFrom(r, index').cause = "none"
      /\ \A shown \in {AnswerFrom(r, index').body} \cup ToSet(AnswerFrom(r, index').page) :
           ToSet(shown) \subseteq ToSet(index'.nodes)
      /\ Distinct(RefsOf(index'.nodes)) => ShowsExactly(Answered(r, index'), index'.nodes)
  BY <1>1, <1>2, <1>3, AnswerShows
<1>5. answer \in Answer
  BY <1>4, IdleType
<1>. HIDE DEF answer
<1>6. q \in Request
  BY <1>1, <1>5 DEF Request
<1>7. /\ q.phase = "done" /\ q.op = r.op /\ q.asked = r.asked /\ q.before = r.before
      /\ q.node = r.node /\ q.answer = answer
  BY <1>1 DEF Request
<1>8. \A h : At(h)' = At(h)
  BY <1>1 DEF At, world
<1>. HIDE DEF q
<1>9. Unanswered(q) /\ UpdatesContinue(q)
  BY <1>7 DEF Unanswered, UpdatesContinue
<1>10. ViewIsSound(q)
  <2>1. CASE r.after > index'.height
    <3>1. answer = Failure("after")
      BY <2>1 DEF answer
    <3>2. answer.status = "error" /\ answer.cause = "after"
      BY <3>1 DEF Failure, NoAnswer
    <3>. QED  BY <1>7, <3>2 DEF ViewIsSound, Viewed
  <2>2. CASE ~(r.after > index'.height)
    <3>1. answer = AnswerFrom(r, index')
      BY <2>2 DEF answer
    <3>2. q = Answered(r, index')
      BY <3>1 DEF q, Answered
    <3>3. \A shown \in {q.answer.body} \cup ToSet(q.answer.page) :
            \A x \in ToSet(shown) : x.chain = q.node
      BY <1>3, <1>4, <1>7, <3>1
    <3>4. ASSUME replacements = 0
          PROVE  /\ q.answer.height <= history.height
                 /\ ShowsExactly(q, IndexedArtifacts(At(q.answer.height).ledger))
      <4>1. Distinct(RefsOf(index'.nodes))
        BY <1>3, <3>4, GrownIsDistinct
      <4>2. index'.nodes = IndexedArtifacts(At(q.answer.height).ledger)
        BY <1>3, <1>4, <1>7, <3>1, <3>4
      <4>. QED  BY <1>3, <1>4, <1>7, <3>1, <3>2, <3>4, <4>1, <4>2
    <3>5. q.asked <= q.answer.height /\ q.answer.cause = "none"
      BY <1>2, <1>4, <1>7, <3>1
    <3>. QED  BY <3>3, <3>4, <3>5 DEF ViewIsSound
  <2>. QED  BY <2>1, <2>2
<1>11. PagingGoesOn(session[t], q)
  <2>1. PagingGoesOn(session[t], r)
    BY ThreadFacts DEF ThreadIsSound
  <2>. QED  BY <1>1, <1>7, <2>1 DEF PagingGoesOn
<1>12. /\ request' \in [Thread -> Request] /\ request'[t] = q
       /\ \A u \in Thread \ {t} : request'[u] = request[u]
  BY <1>1, <1>6, ThreadFacts
<1>13. \A u \in Thread \ {t} : request[u].phase \notin {"read", "advance"}
  BY <1>2 DEF InspectorInv, Exclusive
<1>14. Exclusive'
  BY <1>7, <1>12, <1>13 DEF Exclusive
<1>15. ASSUME NEW u \in Thread PROVE ThreadIsSound(request[u], session[u])'
  <2>1. CASE u = t
    <3>1. request'[t] = q /\ session'[t] = session[t] /\ q.phase = "done"
      BY <1>1, <1>7, <1>12
    <3>2. Unanswered(request[t])' /\ UpdatesContinue(request[t])'
      BY <1>9, <3>1 DEF Unanswered, UpdatesContinue
    <3>3. ViewIsSound(request[t])'
      BY <1>1, <1>10, <3>1 DEF ViewIsSound, Viewed, At, world
    <3>4. PagingGoesOn(session[t], request[t])'
      BY <1>1, <1>11, <3>1 DEF PagingGoesOn, At, world
    <3>. QED  BY <2>1, <3>2, <3>3, <3>4 DEF ThreadIsSound
  <2>2. CASE u # t
    <3>1. ThreadIsSound(request[u], session[u]) /\ request'[u] = request[u] /\ session'[u] = session[u]
          /\ request[u].phase # "advance"
      BY <1>1, <1>12, <1>13, <2>2 DEF InspectorInv
    <3>2. Unanswered(request[u])' /\ UpdatesContinue(request[u])'
      BY <1>1, <3>1 DEF ThreadIsSound, Unanswered, UpdatesContinue, world
    <3>3. ViewIsSound(request[u])'
      BY <1>1, <3>1 DEF ThreadIsSound, ViewIsSound, Viewed, At, world
    <3>4. PagingGoesOn(session[u], request[u])'
      BY <1>1, <3>1 DEF ThreadIsSound, PagingGoesOn, At, world
    <3>. QED  BY <3>2, <3>3, <3>4 DEF ThreadIsSound
  <2>. QED  BY <2>1, <2>2
<1>16. DOMAIN index'.adjacency \subseteq Key
  BY <1>3 DEF IndexIsFiled, Files
<1>17. TypeOK'
  BY <1>1, <1>2, <1>3, <1>12, <1>16 DEF InspectorInv, TypeOK, world
<1>18. HistoryIsGrown' /\ NodeIsCurrent'
  BY <1>1 DEF InspectorInv, HistoryIsGrown, NodeIsCurrent, WithinHeight, world
<1>19. IndexIsHistory'
  BY <1>1, <1>3 DEF IndexIsHistory, At, world
<1>. QED  BY <1>3, <1>14, <1>15, <1>17, <1>18, <1>19 DEF InspectorInv

-----------------------------------------------------------------------------
(* Pages loaded one after another.                                         *)

\* An artifact has the height of its entry.
LEMMA ArtifactHeights ==
  ASSUME NEW l \in Ledger
  PROVE  \A x \in ToSet(IndexedArtifacts(l)) : \E e \in ToSet(l) : x.height = e.height
<1>1. ToSet(IndexedArtifacts(l)) = Recorded(l)
  BY ArtifactsType
<1>2. ASSUME NEW x \in Recorded(l) PROVE \E e \in ToSet(l) : x.height = e.height
  <2>1. PICK k \in DOMAIN l : \E i \in DOMAIN l[k].tx.artifacts : x = Indexed(l[k], i)
    BY DEF Recorded
  <2>2. x.height = l[k].height
    BY <2>1 DEF Indexed
  <2>. QED  BY <2>1, <2>2 DEF ToSet
<1>. QED  BY <1>1, <1>2

\* Later blocks add no transaction at an earlier height, and change none.
LEMMA PositionsSettle ==
  ASSUME NEW l \in Ledger, NEW c, Grown(l, c), NEW h \in Nat, NEW g \in Nat, h <= g
  PROVE  LET old == IndexedArtifacts(UpToHeight(l, h))
             new == IndexedArtifacts(UpToHeight(l, g))
         IN  /\ old \in Seq(IndexedArtifact) /\ new \in Seq(IndexedArtifact)
             /\ \A p \in Positions(old) : p.height <= h
             /\ \A p \in Cursor : p.height <= h =>
                  /\ p \in Positions(old) <=> p \in Positions(new)
                  /\ TransactionAt(new, p) = TransactionAt(old, p)
<1> DEFINE L == UpToHeight(l, h)
           G == UpToHeight(l, g)
           N == After(G, h)
           old == IndexedArtifacts(L)
           new == IndexedArtifacts(G)
           more == IndexedArtifacts(N)
<1>1. L \in Ledger /\ G \in Ledger /\ N \in Ledger /\ G = L \o N
  BY HistoryGrows
<1>2. \A e \in ToSet(L) : e.height <= h
  <2> DEFINE A == {e \in Entry : e.height <= h}
  <2>1. L = Only(l, A) /\ l \in Seq(Entry)
    BY DEF UpToHeight, Ledger
  <2>. HIDE DEF L, A
  <2>2. ToSet(L) \subseteq A
    BY <2>1, OnlyMembers
  <2>. QED  BY <2>2 DEF A
<1>3. \A e \in ToSet(N) : e.height > h
  <2> DEFINE A == {e \in Entry : e.height > h}
  <2>1. N = Only(G, A) /\ G \in Seq(Entry)
    BY <1>1 DEF After, Ledger
  <2>. HIDE DEF N, G, A
  <2>2. ToSet(N) \subseteq A
    BY <2>1, OnlyMembers
  <2>. QED  BY <2>2 DEF A
<1>. HIDE DEF L, G, N
<1>4. old \in Seq(IndexedArtifact) /\ new \in Seq(IndexedArtifact) /\ more \in Seq(IndexedArtifact)
  BY <1>1, ArtifactsType
<1>5. new = old \o more
  BY <1>1, ArtifactsConcat
<1>6. /\ \A x \in ToSet(old) : x.height <= h
      /\ \A x \in ToSet(more) : x.height > h
  BY <1>1, <1>2, <1>3, ArtifactHeights
<1>. HIDE DEF old, new, more
<1>7. ToSet(new) = ToSet(old) \cup ToSet(more)
  BY <1>4, <1>5, Members
<1>8. /\ Positions(old) = {Position(x) : x \in ToSet(old)}
      /\ Positions(new) = {Position(x) : x \in ToSet(new)}
  BY <1>4, PositionsType
<1>9. \A x : Position(x).height = x.height
  BY DEF Position
<1>10. \A p \in Positions(old) : p.height <= h
  BY <1>6, <1>8, <1>9
<1>11. ToSet(old) \subseteq IndexedArtifact /\ ToSet(more) \subseteq IndexedArtifact
  BY <1>4, Members
<1>12. \A x \in ToSet(more) : ~(Position(x).height <= h)
  <2>1. \A x \in IndexedArtifact : x.height \in Nat
    BY DEF IndexedArtifact
  <2>. QED  BY <1>6, <1>9, <1>11, <2>1
<1>13. ASSUME NEW p \in Cursor, p.height <= h
       PROVE  /\ p \in Positions(old) <=> p \in Positions(new)
              /\ TransactionAt(new, p) = TransactionAt(old, p)
  <2> DEFINE S == {x \in IndexedArtifact : Position(x) = p}
  <2>1. p \in Positions(old) <=> p \in Positions(new)
    BY <1>7, <1>8, <1>12, <1>13
  <2>2. ToSet(more) \cap S = {}
    BY <1>12, <1>13
  <2>3. TransactionAt(new, p) = Only(new, S) /\ TransactionAt(old, p) = Only(old, S)
    BY DEF TransactionAt
  <2>. HIDE DEF S
  <2>4. Only(more, S) = <<>>
    BY <1>4, <2>2, OnlyAll
  <2>5. Only(new, S) = Only(old, S) \o Only(more, S)
    BY <1>4, <1>5, OnlyConcat
  <2>6. Only(old, S) \in Seq(IndexedArtifact)
    BY <1>4, OnlyMembers
  <2>7. Only(old, S) \o <<>> = Only(old, S)
    BY <2>6, ConcatEmptySeq
  <2>. QED  BY <2>1, <2>3, <2>4, <2>5, <2>7
<1>. QED  BY <1>4, <1>10, <1>13 DEF old, new, L, G

\* Pages that go on below what was seen show more of the same.
LEMMA ShowsConcat ==
  ASSUME NEW seen \in Seq(Seq(IndexedArtifact)), NEW page \in Seq(Seq(IndexedArtifact)),
         NEW artifacts, NEW P, NEW Q, Shows(seen, artifacts, P), Shows(page, artifacts, Q),
         \A p \in P, q \in Q : Later(p, q)
  PROVE  Shows(seen \o page, artifacts, P \cup Q)
<1> DEFINE all == seen \o page
           m == Len(seen)
           n == Len(page)
<1>1. /\ m \in Nat /\ n \in Nat /\ DOMAIN seen = 1 .. m /\ DOMAIN page = 1 .. n
      /\ DOMAIN all = 1 .. (m + n)
      /\ \A k \in 1 .. (m + n) : all[k] = IF k <= m THEN seen[k] ELSE page[k - m]
  <2>1. all \in Seq(Seq(IndexedArtifact)) /\ Len(all) = m + n
        /\ \A k \in 1 .. (m + n) : all[k] = IF k <= m THEN seen[k] ELSE page[k - m]
    BY ConcatProperties
  <2>. HIDE DEF all
  <2>. QED  BY <2>1, LenProperties
<1>. HIDE DEF all, m, n
<1>2. ASSUME NEW k \in 1 .. (m + n)
      PROVE  \/ k \in 1 .. m /\ all[k] = seen[k]
             \/ k - m \in 1 .. n /\ k > m /\ all[k] = page[k - m]
  BY <1>1
<1>3. \A k \in DOMAIN all :
        /\ all[k] # <<>>
        /\ Position(all[k][1]) \in P \cup Q
        /\ all[k] = TransactionAt(artifacts, Position(all[k][1]))
  BY <1>1, <1>2 DEF Shows
<1>4. ASSUME NEW k \in DOMAIN all, NEW l \in DOMAIN all, k < l
      PROVE  Later(Position(all[k][1]), Position(all[l][1]))
  <2>1. CASE l \in 1 .. m
    <3>1. k \in 1 .. m /\ all[k] = seen[k] /\ all[l] = seen[l]
      BY <1>1, <1>4, <2>1
    <3>. QED  BY <1>1, <1>4, <2>1, <3>1 DEF Shows
  <2>2. CASE k \in 1 .. m /\ l \notin 1 .. m
    <3>1. all[k] = seen[k] /\ l - m \in 1 .. n /\ all[l] = page[l - m]
      BY <1>1, <1>4, <2>2
    <3>2. Position(all[k][1]) \in P /\ Position(all[l][1]) \in Q
      BY <1>1, <2>2, <3>1 DEF Shows
    <3>. QED  BY <3>2
  <2>3. CASE k \notin 1 .. m /\ l \notin 1 .. m
    <3>1. /\ k - m \in 1 .. n /\ l - m \in 1 .. n /\ k - m < l - m
          /\ all[k] = page[k - m] /\ all[l] = page[l - m]
      BY <1>1, <1>4, <2>3
    <3>. QED  BY <1>1, <3>1 DEF Shows
  <2>. QED  BY <2>1, <2>2, <2>3
<1>5. ASSUME NEW p \in P \cup Q PROVE \E k \in DOMAIN all : Position(all[k][1]) = p
  <2>1. CASE p \in P
    <3>1. PICK k \in 1 .. m : Position(seen[k][1]) = p
      BY <1>1, <2>1 DEF Shows
    <3>2. k \in 1 .. (m + n) /\ all[k] = seen[k]
      BY <1>1
    <3>. QED  BY <1>1, <3>1, <3>2
  <2>2. CASE p \in Q
    <3>1. PICK k \in 1 .. n : Position(page[k][1]) = p
      BY <1>1, <2>2 DEF Shows
    <3>2. m + k \in 1 .. (m + n) /\ ~(m + k <= m) /\ (m + k) - m = k
      BY <1>1
    <3>3. all[m + k] = page[k]
      BY <1>1, <3>2
    <3>. QED  BY <1>1, <3>1, <3>2, <3>3
  <2>. QED  BY <2>1, <2>2
<1>. QED  BY <1>3, <1>4, <1>5 DEF Shows, all

\* What lies above the next cursor lies above the last, or below it.
LEMMA UpToSplits ==
  ASSUME NEW P \in SUBSET Cursor, NEW cursor \in P, cursor # NoCursor, NEW next,
         next # NoCursor => next \in P /\ Later(cursor, next)
  PROVE  LET older == {p \in P : Later(cursor, p)}
         IN  /\ UpTo(next, P) = UpTo(cursor, P) \cup UpTo(next, older)
             /\ \A p \in UpTo(cursor, P), q \in UpTo(next, older) : Later(p, q)
<1> DEFINE older == {p \in P : Later(cursor, p)}
<1>1. ASSUME NEW p \in P, ~Later(cursor, p), next # NoCursor PROVE ~Later(next, p)
  <2>1. next \in Cursor /\ p \in Cursor /\ cursor \in Cursor /\ Later(cursor, next)
    BY <1>1
  <2>2. Later(next, p) => Later(cursor, p)
    BY <2>1, LaterOrders
  <2>. QED  BY <1>1, <2>2
<1>2. UpTo(next, P) = UpTo(cursor, P) \cup UpTo(next, older)
  BY <1>1 DEF UpTo
<1>3. ASSUME NEW p \in P, ~Later(cursor, p), NEW q \in P, Later(cursor, q) PROVE Later(p, q)
  <2>1. p \in Cursor /\ q \in Cursor /\ cursor \in Cursor
    OBVIOUS
  <2>2. p = cursor \/ Later(p, cursor)
    BY <1>3, <2>1, LaterOrders
  <2>. QED  BY <1>3, <2>1, <2>2, LaterOrders
<1>. QED  BY <1>2, <1>3 DEF UpTo

\* The next page goes on from the pages loaded before.
LEMMA PagesGoOn ==
  ASSUME InspectorInv, NEW t \in Thread, restores = 0, replacements = 0,
         Viewed(request[t]), request[t].op = "feed", request[t].before # NoCursor
  PROVE  LET r   == request[t]
             s   == session[t]
             all == IndexedArtifacts(At(s.top).ledger)
         IN  /\ Shows(s.seen \o r.answer.page, all, UpTo(r.answer.next, Positions(all)))
             /\ r.answer.next # NoCursor => r.answer.next \in Positions(all)
<1> DEFINE r == request[t]
           s == session[t]
           l == history.ledger
           all == IndexedArtifacts(UpToHeight(l, s.top))
           new == IndexedArtifacts(UpToHeight(l, r.answer.height))
           P == Positions(all)
           older == {p \in P : Later(s.cursor, p)}
<1>1. /\ r \in Request /\ s \in Session /\ l \in Ledger /\ Grown(l, chain)
      /\ ThreadIsSound(r, s)
  BY ThreadFacts DEF InspectorInv, HistoryIsGrown
<1>2. /\ r.answer.height \in Nat /\ r.answer.page \in Seq(Seq(IndexedArtifact))
      /\ s.top \in Nat /\ s.seen \in Seq(Seq(IndexedArtifact)) /\ r.asked \in Nat
  BY <1>1 DEF Request, Answer, Session
<1>3. /\ r.before = s.cursor /\ s.top <= r.asked /\ s.cursor \in P
      /\ Shows(s.seen, all, UpTo(s.cursor, P))
  BY <1>1, AtIs DEF ThreadIsSound, PagingGoesOn, Viewed
<1>4. r.asked <= r.answer.height /\ PageIsNext(r, new)
  BY <1>1, AtIs DEF ThreadIsSound, ViewIsSound, ShowsExactly
<1>5. s.top <= r.answer.height
  BY <1>2, <1>3, <1>4
<1>6. /\ all \in Seq(IndexedArtifact) /\ new \in Seq(IndexedArtifact)
      /\ \A p \in P : p.height <= s.top
      /\ \A p \in Cursor : p.height <= s.top =>
           /\ p \in P <=> p \in Positions(new)
           /\ TransactionAt(new, p) = TransactionAt(all, p)
  <2> DEFINE h == s.top
             g == r.answer.height
  <2>1. l \in Ledger /\ Grown(l, chain) /\ h \in Nat /\ g \in Nat /\ h <= g
    BY <1>1, <1>2, <1>5
  <2>. HIDE DEF l, h, g
  <2>2. /\ IndexedArtifacts(UpToHeight(l, h)) \in Seq(IndexedArtifact)
        /\ IndexedArtifacts(UpToHeight(l, g)) \in Seq(IndexedArtifact)
        /\ \A p \in Positions(IndexedArtifacts(UpToHeight(l, h))) : p.height <= h
        /\ \A p \in Cursor : p.height <= h =>
             /\ p \in Positions(IndexedArtifacts(UpToHeight(l, h)))
                  <=> p \in Positions(IndexedArtifacts(UpToHeight(l, g)))
             /\ TransactionAt(IndexedArtifacts(UpToHeight(l, g)), p)
                  = TransactionAt(IndexedArtifacts(UpToHeight(l, h)), p)
    BY <2>1, PositionsSettle
  <2>. QED  BY <2>2 DEF h, g
<1>. HIDE DEF all, new
<1>7. P \in SUBSET Cursor /\ Positions(new) \in SUBSET Cursor
  BY <1>6, PositionsType
<1>8. ASSUME NEW p \in Cursor, Later(s.cursor, p) PROVE p.height <= s.top
  <2>1. s.cursor \in Cursor /\ s.cursor.height <= s.top
    BY <1>3, <1>6, <1>7
  <2>2. s.cursor.height \in Nat /\ p.height \in Nat
    BY <2>1 DEF Cursor
  <2>. QED  BY <1>2, <1>8, <2>1, <2>2 DEF Later
<1>9. {p \in Positions(new) : Later(s.cursor, p)} = older
  BY <1>6, <1>7, <1>8
<1>10. {p \in Positions(new) : r.before = NoCursor \/ Later(r.before, p)} = older
  BY <1>3, <1>9
<1>11. /\ Shows(r.answer.page, new, UpTo(r.answer.next, older))
       /\ r.answer.next # NoCursor => r.answer.next \in older
  BY <1>4, <1>10 DEF PageIsNext
<1>12. \A p \in UpTo(r.answer.next, older) : TransactionAt(new, p) = TransactionAt(all, p)
  BY <1>6, <1>7, <1>8 DEF UpTo
<1>13. Shows(r.answer.page, all, UpTo(r.answer.next, older))
  BY <1>11, <1>12 DEF Shows
<1>14. s.cursor # NoCursor
  BY <1>3
<1>. HIDE DEF P, r, s
<1>15. /\ UpTo(r.answer.next, P) = UpTo(s.cursor, P) \cup UpTo(r.answer.next, older)
       /\ \A p \in UpTo(s.cursor, P), q \in UpTo(r.answer.next, older) : Later(p, q)
  BY <1>3, <1>7, <1>11, <1>14, UpToSplits
<1>. HIDE DEF older
<1>16. Shows(s.seen \o r.answer.page, all, UpTo(r.answer.next, P))
  BY <1>2, <1>3, <1>13, <1>15, ShowsConcat
<1>. QED  BY <1>11, <1>16, AtIs DEF older, P, all, r, s

LEMMA DeliverKeeps ==
  ASSUME InspectorInv, NEW t \in Thread, Deliver(t)
  PROVE  InspectorInv'
<1> DEFINE r == request[t]
           first == r.before = NoCursor
           loaded == [seen   |-> (IF first THEN <<>> ELSE session[t].seen) \o r.answer.page,
                      cursor |-> r.answer.next,
                      top    |-> IF first THEN r.answer.height ELSE session[t].top]
           s == IF r.op # "feed" \/ r.answer.status # "ok" THEN session[t] ELSE loaded
<1>1. /\ r \in Request /\ session[t] \in Session /\ ThreadIsSound(r, session[t])
      /\ r.phase = "done" /\ Idle \in Request
      /\ request' = [request EXCEPT ![t] = Idle] /\ session' = [session EXCEPT ![t] = s]
      /\ UNCHANGED <<world, service>> /\ lock' = lock /\ lock \in Thread \cup {NoThread}
  BY ThreadFacts, IdleType DEF Deliver
<1>2. /\ r.answer.page \in Seq(Seq(IndexedArtifact)) /\ r.answer.next \in Cursor
      /\ r.answer.height \in Nat /\ session[t].top \in Nat
      /\ session[t].seen \in Seq(Seq(IndexedArtifact))
  BY <1>1 DEF Request, Answer, Session
<1>3. loaded \in Session
  <2>1. <<>> \in Seq(Seq(IndexedArtifact))
    BY EmptySeq
  <2>2. (IF first THEN <<>> ELSE session[t].seen) \o r.answer.page \in Seq(Seq(IndexedArtifact))
    BY <1>2, <2>1, ConcatProperties
  <2>. QED  BY <1>2, <2>2 DEF Session
<1>4. Idle.phase = "idle" /\ Idle.answer = NoAnswer
  BY DEF Idle
<1>5. Unanswered(Idle) /\ UpdatesContinue(Idle) /\ ViewIsSound(Idle)
  BY <1>4 DEF Unanswered, UpdatesContinue, ViewIsSound, Viewed, NoAnswer
<1>6. PagingGoesOn(s, Idle)
  <2>1. CASE r.op # "feed" \/ r.answer.status # "ok"
    BY <1>1, <1>4, <2>1 DEF ThreadIsSound, PagingGoesOn
  <2>2. CASE ~(r.op # "feed" \/ r.answer.status # "ok")
    <3>1. Viewed(r) /\ s = loaded
      BY <1>1, <2>2 DEF Viewed
    <3>2. SUFFICES ASSUME restores = 0, replacements = 0
                   PROVE  LET all == IndexedArtifacts(At(loaded.top).ledger)
                          IN  /\ loaded.top <= stored
                              /\ Shows(loaded.seen, all, UpTo(loaded.cursor, Positions(all)))
                              /\ loaded.cursor # NoCursor => loaded.cursor \in Positions(all)
      BY <1>4, <3>1 DEF PagingGoesOn
    <3>3. CASE first
      <4> DEFINE new == IndexedArtifacts(At(r.answer.height).ledger)
      <4>1. r.answer.height <= history.height /\ PageIsNext(r, new)
        BY <1>1, <2>2, <3>1, <3>2 DEF ThreadIsSound, ViewIsSound, ShowsExactly
      <4>2. {p \in Positions(new) : r.before = NoCursor \/ Later(r.before, p)} = Positions(new)
        BY <3>3
      <4>3. r.answer.height <= stored
        BY <3>2, <4>1 DEF InspectorInv, NodeIsCurrent
      <4>4. <<>> \o r.answer.page = r.answer.page
        BY <1>2, ConcatEmptySeq
      <4>5. loaded.top = r.answer.height /\ loaded.seen = r.answer.page
            /\ loaded.cursor = r.answer.next
        BY <3>3, <4>4
      <4>. HIDE DEF new, loaded
      <4>. QED  BY <4>1, <4>2, <4>3, <4>5 DEF PageIsNext, new
    <3>4. CASE ~first
      <4>1. loaded.top = session[t].top /\ loaded.seen = session[t].seen \o r.answer.page
            /\ loaded.cursor = r.answer.next
        BY <3>4
      <4>2. session[t].top <= stored
        BY <1>1, <3>2 DEF ThreadIsSound, PagingGoesOn
      <4>. HIDE DEF loaded
      <4>. QED  BY <2>2, <3>1, <3>2, <3>4, <4>1, <4>2, PagesGoOn
    <3>. QED  BY <3>3, <3>4
  <2>. QED  BY <2>1, <2>2
<1>7. ThreadIsSound(Idle, s)
  BY <1>5, <1>6 DEF ThreadIsSound
<1>8. s \in Session
  BY <1>1, <1>3
<1>. HIDE DEF s
<1>. QED  BY <1>1, <1>4, <1>7, <1>8, RequestStep

-----------------------------------------------------------------------------
(* The steps of the node and of the operator.                              *)

\* A history that only grows, and a node that follows it.
LEMMA HistoryExtends ==
  ASSUME InspectorInv,
         UNCHANGED <<chain, restores, replacements, service, lock, request, session>>,
         history' \in Snapshot, history.height <= history'.height,
         stored' \in 0 .. history'.height, stored <= stored',
         HistoryIsGrown', NodeIsCurrent',
         \A h \in Nat : h <= history.height =>
            UpToHeight(history'.ledger, h) = UpToHeight(history.ledger, h)
  PROVE  InspectorInv'
<1>1. /\ history.height \in Nat /\ history'.height \in Nat /\ stored \in Nat /\ stored' \in Nat
      /\ stored <= history.height /\ index.height \in Nat
  BY DEF InspectorInv, TypeOK, Snapshot
<1>2. \A h \in Nat : h <= history.height => At(h).ledger' = At(h).ledger
  BY AtIs DEF At, UpToHeight
<1>3. TypeOK'
  BY DEF InspectorInv, TypeOK, service
<1>4. IndexIsFiled' /\ Exclusive'
  BY DEF InspectorInv, IndexIsFiled, Exclusive, service
<1>5. IndexIsHistory'
  <2>1. SUFFICES ASSUME replacements = 0
                 PROVE  /\ index.height <= history'.height
                        /\ index.nodes
                             = IndexedArtifacts(UpToHeight(history'.ledger, index.height))
    BY DEF IndexIsHistory, service, At, UpToHeight
  <2>2. index.height <= history.height
        /\ index.nodes = IndexedArtifacts(UpToHeight(history.ledger, index.height))
    BY <2>1, AtIs DEF InspectorInv, IndexIsHistory
  <2>. QED  BY <1>1, <2>2
<1>6. ASSUME NEW t \in Thread PROVE ThreadIsSound(request[t], session[t])'
  <2> DEFINE r == request[t]
             s == session[t]
  <2>1. /\ ThreadIsSound(r, s) /\ r \in Request /\ s \in Session
        /\ request' = request /\ session' = session /\ replacements' = replacements
        /\ restores' = restores
    BY ThreadFacts
  <2>2. r.asked \in Nat /\ r.height \in Nat /\ r.answer.height \in Nat /\ s.top \in Nat
    BY <2>1 DEF Request, Answer, Session
  <2>3. Unanswered(r)'
    BY <1>1, <2>1, <2>2 DEF ThreadIsSound, Unanswered
  <2>4. UpdatesContinue(r)'
    <3>1. ASSUME r.phase = "advance", replacements = 0
          PROVE  r.height <= history'.height /\ r.entries = After(At(r.height).ledger', index.height)
      BY <1>1, <1>2, <2>1, <2>2, <3>1 DEF ThreadIsSound, UpdatesContinue
    <3>. QED  BY <2>1, <3>1 DEF ThreadIsSound, UpdatesContinue, service, At
  <2>5. ViewIsSound(r)'
    <3>1. ASSUME Viewed(r), replacements = 0
          PROVE  /\ r.answer.height <= history'.height
                 /\ ShowsExactly(r, IndexedArtifacts(At(r.answer.height).ledger'))
      BY <1>1, <1>2, <2>1, <2>2, <3>1 DEF ThreadIsSound, ViewIsSound
    <3>. QED  BY <2>1, <3>1 DEF ThreadIsSound, ViewIsSound, Viewed, At
  <2>6. PagingGoesOn(s, r)'
    <3>1. ASSUME restores = 0, replacements = 0
          PROVE  s.top <= stored /\ s.top <= stored' /\ At(s.top).ledger' = At(s.top).ledger
      BY <1>1, <1>2, <2>1, <2>2, <3>1 DEF ThreadIsSound, PagingGoesOn
    <3>. QED  BY <2>1, <3>1 DEF ThreadIsSound, PagingGoesOn, At
  <2>. QED  BY <2>3, <2>4, <2>5, <2>6 DEF ThreadIsSound
<1>. QED  BY <1>3, <1>4, <1>5, <1>6 DEF InspectorInv

LEMMA CatchUpKeeps ==
  ASSUME InspectorInv, CatchUp
  PROVE  InspectorInv'
<1>1. /\ history \in Snapshot /\ stored \in 0 .. history.height /\ history.height \in Nat
      /\ restores \in Nat
  BY DEF InspectorInv, TypeOK, Snapshot
<1>2. history' = history /\ stored' \in 0 .. history.height /\ stored <= stored'
      /\ UNCHANGED <<chain, restores, replacements, service, lock, request, session>>
  BY <1>1 DEF CatchUp
<1>3. HistoryIsGrown'
  BY <1>2 DEF InspectorInv, HistoryIsGrown, WithinHeight
<1>4. NodeIsCurrent'
  BY <1>1, <1>2 DEF CatchUp, InspectorInv, NodeIsCurrent
<1>. QED  BY <1>1, <1>2, <1>3, <1>4, HistoryExtends

LEMMA CommitBlockKeeps ==
  ASSUME InspectorInv, CommitBlock
  PROVE  InspectorInv'
<1>1. /\ history \in Snapshot /\ history.height \in Nat /\ history.ledger \in Ledger
      /\ stored = history.height /\ stored' = stored + 1
      /\ WithinHeight(history) /\ Grown(history.ledger, chain)
      /\ UNCHANGED <<chain, restores, replacements, service, lock, request, session>>
  BY DEF InspectorInv, TypeOK, Snapshot, HistoryIsGrown, CommitBlock
<1> DEFINE l == history.ledger
           n == Len(l)
           entries(k, block) == [i \in 1 .. k |->
                                   [height |-> stored + 1, index |-> i - 1, tx |-> block[i]]]
<1>2. PICK k \in 0 .. MaxBlockTxs : \E block \in [1 .. k -> Transaction] :
         /\ \A i \in 1 .. k : Legal(block[i], Prefix(l \o entries(k, block), n + i - 1))
         /\ history' = [height |-> stored + 1, ledger |-> l \o entries(k, block)]
  BY DEF CommitBlock
<1>3. PICK block \in [1 .. k -> Transaction] :
         /\ \A i \in 1 .. k : Legal(block[i], Prefix(l \o entries(k, block), n + i - 1))
         /\ history' = [height |-> stored + 1, ledger |-> l \o entries(k, block)]
  BY <1>2
<1> DEFINE es == entries(k, block)
           L == l \o es
<1>4. k \in Nat
  BY InspectorBounds
<1>5. /\ es \in Seq(Entry) /\ Len(es) = k /\ l \in Seq(Entry) /\ n \in Nat
      /\ \A i \in 1 .. k : es[i].height = stored + 1 /\ es[i].tx = block[i]
  <2>1. \A i \in 1 .. k : es[i] \in Entry
    BY <1>1, <1>4 DEF Entry
  <2>2. es \in Seq(Entry) /\ Len(es) = k
    BY <1>4, <2>1, IsASeq
  <2>. QED  BY <1>1, <2>2, LenProperties DEF Ledger
<1>6. /\ history'.height = stored + 1 /\ history'.ledger = L
      /\ \A i \in 1 .. k : Legal(block[i], Prefix(L, n + i - 1))
  BY <1>3
<1>. HIDE DEF es, l, n
<1>7. /\ L \in Seq(Entry) /\ DOMAIN L = 1 .. (n + k) /\ Len(L) = n + k
      /\ \A i \in 1 .. (n + k) : L[i] = IF i <= n THEN l[i] ELSE es[i - n]
  <2>1. Len(l) = n
    BY DEF n
  <2>2. /\ L \in Seq(Entry) /\ Len(L) = n + k
        /\ \A i \in 1 .. (n + k) : L[i] = IF i <= n THEN l[i] ELSE es[i - n]
    BY <1>5, <2>1, ConcatProperties
  <2>. HIDE DEF L
  <2>. QED  BY <2>2, LenProperties
<1>. HIDE DEF L
<1>8. \A i \in DOMAIN l : l[i].height <= stored
  BY <1>1 DEF WithinHeight, l
<1>9. DOMAIN l = 1 .. n
  BY <1>5, LenProperties DEF n
<1>10. \A i \in 1 .. (n + k) : L[i].height \in Nat /\ L[i].height <= stored + 1
  <2>1. ASSUME NEW i \in 1 .. (n + k) PROVE L[i].height \in Nat /\ L[i].height <= stored + 1
    <3>1. L[i] \in Entry
      BY <1>7, ElementOfSeq
    <3>2. L[i].height \in Nat
      BY <3>1 DEF Entry
    <3>3. CASE i <= n
      <4>1. i \in 1 .. n
        BY <3>3
      <4>2. i \in DOMAIN l
        BY <1>9, <4>1
      <4>3. L[i] = l[i]
        BY <1>7, <3>3
      <4>4. l[i].height <= stored
        BY <1>8, <4>2
      <4>5. stored \in Nat
        BY <1>1
      <4>. QED  BY <3>2, <4>3, <4>4, <4>5
    <3>4. CASE ~(i <= n)
      <4>1. i - n \in 1 .. k /\ L[i] = es[i - n]
        BY <1>4, <1>5, <1>7, <3>4
      <4>. QED  BY <1>1, <1>5, <3>2, <4>1
    <3>. QED  BY <3>3, <3>4
  <2>. QED  BY <2>1
<1>11. Grown(L, chain)
  <2>1. ASSUME NEW i \in 1 .. (n + k) PROVE LegalAt(L, i, chain)
    <3>1. CASE i <= n
      <4>1. i \in DOMAIN l /\ LegalAt(l, i, chain)
        BY <1>1, <1>4, <1>5, <1>9, <3>1 DEF Grown, l
      <4>. QED  BY <1>5, <4>1, LegalAtConcat DEF L, Ledger
    <3>2. CASE ~(i <= n)
      <4>1. i - n \in 1 .. k /\ L[i] = es[i - n] /\ n + (i - n) - 1 = i - 1
        BY <1>4, <1>5, <1>7, <3>2
      <4>2. L[i].height = stored + 1 /\ Legal(L[i].tx, Prefix(L, i - 1))
        <5>1. Legal(block[i - n], Prefix(L, n + (i - n) - 1))
          BY <1>6, <4>1
        <5>. QED  BY <1>5, <4>1, <5>1
      <4>3. \A j \in 1 .. i - 1 : L[j].height <= L[i].height
        BY <1>4, <1>5, <1>10, <4>2
      <4>. QED  BY <4>2, <4>3 DEF LegalAt, Legal
    <3>. QED  BY <3>1, <3>2
  <2>. QED  BY <1>7, <2>1 DEF Grown
<1>12. HistoryIsGrown'
  <2>1. WithinHeight(history')
    BY <1>6, <1>7, <1>10 DEF WithinHeight
  <2>. QED  BY <1>1, <1>6, <1>11, <2>1 DEF HistoryIsGrown
<1>13. ASSUME NEW h \in Nat, h <= history.height PROVE UpToHeight(L, h) = UpToHeight(l, h)
  <2> DEFINE A == {e \in Entry : e.height <= h}
  <2>1. ToSet(es) \cap A = {}
    <3>1. ASSUME NEW e \in ToSet(es) PROVE ~(e.height <= h)
      <4>1. PICK i \in 1 .. k : e = es[i]
        BY <1>5, LenProperties DEF ToSet
      <4>. QED  BY <1>1, <1>5, <1>13, <4>1
    <3>. QED  BY <3>1
  <2>2. UpToHeight(L, h) = Only(l \o es, A) /\ UpToHeight(l, h) = Only(l, A)
    BY DEF UpToHeight, L
  <2>. HIDE DEF A
  <2>3. Only(l \o es, A) = Only(l, A) \o Only(es, A)
    BY <1>5, OnlyConcat
  <2>5. Only(es, A) = <<>>
    BY <1>5, <2>1, OnlyAll
  <2>6. Only(l, A) \in Seq(Entry)
    BY <1>5, OnlyMembers
  <2>4. Only(l, A) \o <<>> = Only(l, A)
    BY <2>6, ConcatEmptySeq
  <2>. QED  BY <2>2, <2>3, <2>4, <2>5
<1>14. history' \in Snapshot
  BY <1>1, <1>3, <1>7 DEF Snapshot, Ledger, L, es, l
<1>15. NodeIsCurrent'
  BY <1>1, <1>6 DEF NodeIsCurrent
<1>16. history.height <= history'.height /\ stored' \in 0 .. history'.height /\ stored <= stored'
  BY <1>1, <1>6
<1>. QED  BY <1>1, <1>6, <1>12, <1>13, <1>14, <1>15, <1>16, HistoryExtends DEF l

\* A request that is owed less than before, once a database is put back or
\* replaced.
LEMMA AskedFalls ==
  ASSUME InspectorInv, NEW t \in Thread, NEW asked \in Nat,
         asked <= request[t].asked, asked <= stored',
         request'[t] = [request[t] EXCEPT !.asked = asked],
         UNCHANGED <<service, session>>, restores' # 0 \/ replacements' # 0,
         replacements' = 0 => replacements = 0 /\ history' = history
  PROVE  /\ request'[t] \in Request /\ request'[t].phase = request[t].phase
         /\ ThreadIsSound(request[t], session[t])'
<1> DEFINE r == request[t]
           q == [r EXCEPT !.asked = asked]
<1>1. r \in Request /\ ThreadIsSound(r, session[t])
  BY ThreadFacts
<1>2. r.asked \in Nat /\ r.height \in Nat /\ r.answer.height \in Nat
  BY <1>1 DEF Request, Answer
<1>. HIDE DEF r
<1>3. /\ q \in Request /\ q.asked = asked
      /\ q.phase = r.phase /\ q.op = r.op /\ q.after = r.after /\ q.before = r.before
      /\ q.ref = r.ref /\ q.node = r.node /\ q.height = r.height /\ q.entries = r.entries
      /\ q.answer = r.answer
  BY <1>1 DEF Request
<1>4. r = Idle => q = Idle
  <2>1. SUFFICES ASSUME r = Idle PROVE q = Idle
    OBVIOUS
  <2>2. r.asked = 0
    BY <2>1 DEF Idle
  <2>3. asked = 0
    BY <1>2, <2>2 DEF r
  <2>. QED  BY <2>1, <2>3 DEF Idle
<1>5. /\ request'[t] = q /\ indexedChain' = indexedChain /\ index' = index
      /\ asked <= r.asked /\ asked <= stored'
  BY DEF service, r
<1>. HIDE DEF q
<1>6. Unanswered(request[t])'
  BY <1>1, <1>3, <1>4, <1>5 DEF ThreadIsSound, Unanswered
<1>7. UpdatesContinue(request[t])'
  <2>1. r.phase = "advance" => indexedChain \in {NoChain, r.node} /\ asked <= r.height
    BY <1>1, <1>2, <1>5 DEF ThreadIsSound, UpdatesContinue
  <2>2. ASSUME r.phase = "advance", replacements' = 0
        PROVE  /\ r.height <= history'.height
               /\ r.entries = After(UpToHeight(history'.ledger, r.height), index.height)
    BY <1>1, <2>2, AtIs DEF ThreadIsSound, UpdatesContinue
  <2>. QED  BY <1>3, <1>5, <2>1, <2>2 DEF UpdatesContinue, At, UpToHeight
<1>8. ViewIsSound(request[t])'
  <2>1. Viewed(q) <=> Viewed(r)
    BY <1>3 DEF Viewed
  <2>2. ASSUME NEW artifacts PROVE ShowsExactly(q, artifacts) <=> ShowsExactly(r, artifacts)
    BY <1>3 DEF ShowsExactly, PageIsNext
  <2>3. ViewIsSound(r)
    BY <1>1 DEF ThreadIsSound
  <2>4. Viewed(q) =>
          /\ asked <= r.answer.height
          /\ \A shown \in {r.answer.body} \cup ToSet(r.answer.page) :
               \A x \in ToSet(shown) : x.chain = r.node
    BY <1>2, <1>5, <2>1, <2>3 DEF ViewIsSound
  <2>5. ASSUME Viewed(q), replacements' = 0
        PROVE  /\ r.answer.height <= history'.height
               /\ ShowsExactly(q, IndexedArtifacts(UpToHeight(history'.ledger, r.answer.height)))
    BY <2>1, <2>2, <2>3, <2>5, AtIs DEF ViewIsSound
  <2>6. replacements' = 0 => r.answer.cause # "append"
    BY <2>3 DEF ViewIsSound
  <2>. QED  BY <1>3, <1>5, <2>4, <2>5, <2>6 DEF ViewIsSound, Viewed, At, UpToHeight
<1>9. PagingGoesOn(session[t], request[t])'
  BY DEF PagingGoesOn
<1>. QED  BY <1>3, <1>5, <1>6, <1>7, <1>8, <1>9 DEF ThreadIsSound, r

LEMMA RestoreDatabaseKeeps ==
  ASSUME InspectorInv, RestoreDatabase
  PROVE  InspectorInv'
<1>1. PICK height \in 0 .. (stored - 1) :
        /\ stored' = height
        /\ request' = [t \in Thread |->
             IF request[t].asked > height THEN [request[t] EXCEPT !.asked = height]
                                          ELSE request[t]]
  BY DEF RestoreDatabase
<1>2. /\ UNCHANGED <<chain, history, replacements, service, lock, session>>
      /\ restores' = restores + 1 /\ restores < MaxRestores
  BY DEF RestoreDatabase
<1>3. /\ restores \in Nat /\ stored \in Nat /\ height \in Nat /\ stored \in 0 .. history.height
      /\ history.height \in Nat /\ request \in [Thread -> Request]
      /\ restores \in 0 .. MaxRestores /\ MaxRestores \in Nat
  <2>1. /\ restores \in 0 .. MaxRestores /\ stored \in 0 .. history.height /\ history \in Snapshot
        /\ request \in [Thread -> Request] /\ MaxRestores \in Nat
    BY InspectorBounds DEF InspectorInv, TypeOK
  <2>. QED  BY <2>1 DEF Snapshot
<1>4. restores' # 0 /\ restores' \in 0 .. MaxRestores /\ stored' \in 0 .. history.height
  BY <1>1, <1>2, <1>3
<1>5. ASSUME NEW t \in Thread
      PROVE  /\ request'[t] \in Request /\ request'[t].phase = request[t].phase
             /\ ThreadIsSound(request[t], session[t])'
  <2>1. request[t] \in Request /\ request[t].asked \in Nat
    BY <1>3 DEF Request
  <2>2. PICK asked \in Nat : /\ request'[t] = [request[t] EXCEPT !.asked = asked]
                             /\ asked <= request[t].asked /\ asked <= height
    <3>1. CASE request[t].asked > height
      BY <1>1, <1>3, <2>1, <3>1
    <3>2. CASE ~(request[t].asked > height)
      <4>1. request'[t] = request[t] /\ request[t].asked <= height
            /\ request[t] = [request[t] EXCEPT !.asked = request[t].asked]
        BY <1>1, <1>3, <2>1, <3>2 DEF Request
      <4>. QED  BY <2>1, <4>1
    <3>. QED  BY <3>1, <3>2
  <2>. QED  BY <1>1, <1>2, <1>4, <2>2, AskedFalls
<1>6. request' \in [Thread -> Request]
  <2>1. request' = [t \in Thread |-> request'[t]]
    BY <1>1
  <2>. QED  BY <1>5, <2>1
<1>7. TypeOK'
  BY <1>2, <1>4, <1>6 DEF InspectorInv, TypeOK, service
<1>8. HistoryIsGrown' /\ NodeIsCurrent' /\ IndexIsFiled'
  BY <1>2, <1>4 DEF InspectorInv, HistoryIsGrown, WithinHeight, NodeIsCurrent, IndexIsFiled, service
<1>9. IndexIsHistory'
  BY <1>2 DEF InspectorInv, IndexIsHistory, At, service
<1>10. Exclusive'
  BY <1>2, <1>5 DEF InspectorInv, Exclusive
<1>. QED  BY <1>5, <1>7, <1>8, <1>9, <1>10 DEF InspectorInv

LEMMA ReplaceNetworkKeeps ==
  ASSUME InspectorInv, ReplaceNetwork
  PROVE  InspectorInv'
<1>1. /\ chain' \in Chain /\ history' = EmptySnapshot /\ stored' = 0
      /\ request' = [t \in Thread |-> [request[t] EXCEPT !.asked = 0]]
      /\ UNCHANGED <<restores, service, lock, session>>
      /\ replacements' = replacements + 1 /\ replacements < MaxReplacements
  BY DEF ReplaceNetwork
<1>2. /\ replacements \in 0 .. MaxReplacements /\ MaxReplacements \in Nat
      /\ request \in [Thread -> Request]
  BY InspectorBounds DEF InspectorInv, TypeOK
<1>3. replacements' \in 0 .. MaxReplacements /\ replacements' # 0
  BY <1>1, <1>2
<1>4. history' \in Snapshot /\ history'.height = 0 /\ history'.ledger = <<>>
  BY <1>1, EmptySeq DEF EmptySnapshot, Snapshot, Ledger
<1>5. ASSUME NEW t \in Thread
      PROVE  /\ request'[t] \in Request /\ request'[t].phase = request[t].phase
             /\ ThreadIsSound(request[t], session[t])'
  <2>1. request[t].asked \in Nat /\ 0 \in Nat
    BY <1>2 DEF Request
  <2>2. request'[t] = [request[t] EXCEPT !.asked = 0] /\ 0 <= request[t].asked /\ 0 <= stored'
    BY <1>1, <2>1
  <2>. QED  BY <1>1, <1>3, <2>1, <2>2, AskedFalls
<1>6. request' \in [Thread -> Request]
  <2>1. request' = [t \in Thread |-> request'[t]]
    BY <1>1
  <2>. QED  BY <1>5, <2>1
<1>7. TypeOK'
  BY <1>1, <1>3, <1>4, <1>6 DEF InspectorInv, TypeOK, service
<1>8. HistoryIsGrown'
  BY <1>4, EmptySeq DEF HistoryIsGrown, WithinHeight, Grown
<1>9. NodeIsCurrent' /\ IndexIsFiled' /\ IndexIsHistory'
  BY <1>1, <1>3, <1>4 DEF InspectorInv, NodeIsCurrent, IndexIsFiled, IndexIsHistory, service
<1>10. Exclusive'
  BY <1>1, <1>5 DEF InspectorInv, Exclusive
<1>. QED  BY <1>5, <1>7, <1>8, <1>9, <1>10 DEF InspectorInv

-----------------------------------------------------------------------------
(* Every behaviour.                                                        *)

\* Nothing is committed at height 0, and an empty index files nothing.
LEMMA StartsEmpty ==
  ASSUME NEW l \in Ledger
  PROVE  UpToHeight(l, 0) = <<>> /\ Files(<<>>, <<>>)
<1>1. UpToHeight(l, 0) = <<>>
  <2> DEFINE A == {e \in Entry : e.height <= 0}
  <2>1. A = {}
    BY DEF Entry
  <2>2. ToSet(l) \cap A = {}
    BY <2>1
  <2>3. UpToHeight(l, 0) = Only(l, A) /\ l \in Seq(Entry)
    BY DEF UpToHeight, Ledger
  <2>. HIDE DEF A
  <2>. QED  BY <2>2, <2>3, OnlyAll
<1>2. Files(<<>>, <<>>)
  <2>1. DOMAIN <<>> = {}
    OBVIOUS
  <2>. QED  BY <2>1, OnlyEmpty, RefsEmpty DEF Files, Neighbors
<1>. QED  BY <1>1, <1>2

LEMMA RestartInspectorKeeps ==
  ASSUME InspectorInv, RestartInspector
  PROVE  InspectorInv'
<1>1. /\ index' = EmptyIndex /\ indexedHeight' = NoHeight /\ indexedChain' = NoChain
      /\ lock' = NoThread /\ request' = [t \in Thread |-> Idle]
      /\ UNCHANGED <<world, session>>
  BY DEF RestartInspector
<1>2. Idle \in Request /\ Idle.phase = "idle" /\ Idle.answer = NoAnswer
  BY IdleType DEF Idle
<1>3. EmptyIndex.height = 0 /\ EmptyIndex.nodes = <<>> /\ EmptyIndex.adjacency = <<>>
  BY DEF EmptyIndex
<1>4. history.ledger \in Ledger /\ history.height \in Nat
  BY DEF InspectorInv, TypeOK, Snapshot
<1>5. UpToHeight(history.ledger, 0) = <<>> /\ Files(<<>>, <<>>)
  BY <1>4, StartsEmpty
<1>6. IndexIsFiled'
  BY <1>1, <1>3, <1>5, Members DEF IndexIsFiled
<1>7. IndexIsHistory'
  BY <1>1, <1>3, <1>4, <1>5, AtIs, ArtifactsEmpty DEF IndexIsHistory, At, UpToHeight, world
<1>8. TypeOK'
  <2>1. DOMAIN index'.adjacency \subseteq Key
    BY <1>6 DEF IndexIsFiled, Files
  <2>2. index'.height \in Nat /\ index'.nodes \in Seq(IndexedArtifact)
    BY <1>1, <1>3, EmptySeq
  <2>3. request' \in [Thread -> Request]
    BY <1>1, <1>2
  <2>. QED  BY <1>1, <2>1, <2>2, <2>3 DEF InspectorInv, TypeOK, world
<1>9. HistoryIsGrown' /\ NodeIsCurrent'
  BY <1>1 DEF InspectorInv, HistoryIsGrown, WithinHeight, NodeIsCurrent, world
<1>10. Exclusive'
  BY <1>1, <1>2 DEF Exclusive
<1>11. ASSUME NEW t \in Thread PROVE ThreadIsSound(request[t], session[t])'
  <2>1. request'[t] = Idle /\ session'[t] = session[t]
    BY <1>1
  <2>2. PagingGoesOn(session[t], request[t])
    BY DEF InspectorInv, ThreadIsSound
  <2>3. Unanswered(request[t])' /\ UpdatesContinue(request[t])' /\ ViewIsSound(request[t])'
    BY <1>2, <2>1 DEF Unanswered, UpdatesContinue, ViewIsSound, Viewed, NoAnswer
  <2>4. PagingGoesOn(session[t], request[t])'
    BY <1>1, <1>2, <2>1, <2>2 DEF PagingGoesOn, At, world
  <2>. QED  BY <2>3, <2>4 DEF ThreadIsSound
<1>. QED  BY <1>6, <1>7, <1>8, <1>9, <1>10, <1>11 DEF InspectorInv

LEMMA InspectorStarts == Init => InspectorInv
<1>. SUFFICES ASSUME Init PROVE InspectorInv
  OBVIOUS
<1>1. /\ index = EmptyIndex /\ indexedHeight = NoHeight /\ indexedChain = NoChain
      /\ lock = NoThread /\ request = [t \in Thread |-> Idle]
      /\ session = [t \in Thread |-> NoSession] /\ history = EmptySnapshot /\ stored = 0
      /\ restores = 0 /\ replacements = 0 /\ chain \in Chain
  BY LimitsAssumption DEF Init
<1>2. Idle \in Request /\ Idle.phase = "idle" /\ Idle.answer = NoAnswer /\ NoSession \in Session
  BY IdleType DEF Idle
<1>3. EmptyIndex.height = 0 /\ EmptyIndex.nodes = <<>> /\ EmptyIndex.adjacency = <<>>
  BY DEF EmptyIndex
<1>4. history \in Snapshot /\ history.height = 0 /\ history.ledger = <<>> /\ <<>> \in Ledger
  BY <1>1, EmptySeq DEF EmptySnapshot, Snapshot, Ledger
<1>5. UpToHeight(<<>>, 0) = <<>> /\ Files(<<>>, <<>>)
  BY <1>4, StartsEmpty
<1>6. IndexIsFiled
  BY <1>1, <1>3, <1>5, Members DEF IndexIsFiled
<1>7. IndexedArtifacts(At(0).ledger) = <<>>
  BY <1>4, <1>5, AtIs, ArtifactsEmpty
<1>8. TypeOK
  <2>1. DOMAIN index.adjacency \subseteq Key
    BY <1>6 DEF IndexIsFiled, Files
  <2>2. index.height \in Nat /\ index.nodes \in Seq(IndexedArtifact)
    BY <1>1, <1>3, EmptySeq
  <2>3. request \in [Thread -> Request] /\ session \in [Thread -> Session]
    BY <1>1, <1>2
  <2>. QED  BY <1>1, <1>4, <2>1, <2>2, <2>3, InspectorBounds DEF TypeOK, Session
<1>9. HistoryIsGrown /\ NodeIsCurrent
  BY <1>1, <1>4 DEF HistoryIsGrown, WithinHeight, NodeIsCurrent, Grown
<1>10. Exclusive
  BY <1>1, <1>2 DEF Exclusive
<1>11. IndexIsHistory
  BY <1>1, <1>3, <1>4, <1>7 DEF IndexIsHistory
<1>12. ASSUME NEW t \in Thread PROVE ThreadIsSound(request[t], session[t])
  <2>1. request[t] = Idle /\ session[t] = NoSession
    BY <1>1
  <2>2. Unanswered(request[t]) /\ UpdatesContinue(request[t]) /\ ViewIsSound(request[t])
    BY <1>2, <2>1 DEF Unanswered, UpdatesContinue, ViewIsSound, Viewed, NoAnswer
  <2>3. PagingGoesOn(NoSession, Idle)
    <3>1. NoSession.top = 0 /\ NoSession.seen = <<>> /\ NoSession.cursor = NoCursor
      BY DEF NoSession
    <3>2. UpTo(NoCursor, Positions(<<>>)) = {}
      BY DEF UpTo, Positions
    <3>3. Shows(<<>>, <<>>, {})
      BY DEF Shows
    <3>4. NoSession.top <= stored
      BY <1>1, <3>1
    <3>. QED  BY <1>2, <1>7, <3>1, <3>2, <3>3, <3>4 DEF PagingGoesOn
  <2>. QED  BY <2>1, <2>2, <2>3 DEF ThreadIsSound
<1>. QED  BY <1>6, <1>8, <1>9, <1>10, <1>11, <1>12 DEF InspectorInv

LEMMA InspectorSteps == InspectorInv /\ [Next]_vars => InspectorInv'
<1>. SUFFICES ASSUME InspectorInv, [Next]_vars PROVE InspectorInv'
  OBVIOUS
<1>1. CASE UNCHANGED vars
  <2>1. /\ UNCHANGED <<chain, restores, replacements, service, lock, request, session>>
        /\ history' = history /\ stored' = stored
    BY <1>1 DEF vars, world
  <2>2. history \in Snapshot /\ stored \in 0 .. history.height /\ history.height \in Nat
    BY DEF InspectorInv, TypeOK, Snapshot
  <2>3. HistoryIsGrown' /\ NodeIsCurrent'
    BY <2>1 DEF InspectorInv, HistoryIsGrown, WithinHeight, NodeIsCurrent
  <2>. QED  BY <2>1, <2>2, <2>3, HistoryExtends
<1>2. ASSUME NEW t \in Thread, Receive(t) \/ Serve(t) \/ Deliver(t) PROVE InspectorInv'
  BY <1>2, ReceiveKeeps, ObserveKeeps, LockKeeps, ReadUpdatesKeeps, ErrorsKeep, AdvanceKeeps,
     DeliverKeeps DEF Serve
<1>. QED  BY <1>1, <1>2, CommitBlockKeeps, CatchUpKeeps, RestoreDatabaseKeeps,
             ReplaceNetworkKeeps, RestartInspectorKeeps DEF Next

\* In every state of every behaviour the invariant holds: the history is one
\* network's, the index files what was committed, and every request and every
\* client is where its steps have led it.
THEOREM InspectorInvariance == Spec => []InspectorInv
<1>. QED  BY InspectorStarts, InspectorSteps, PTL DEF Spec

\* The state of the inspector, of its threads and of its clients is of its type.
THEOREM InspectorTypeCorrect == Spec => []TypeOK
<1>1. InspectorInv => TypeOK
  BY DEF InspectorInv
<1>. QED  BY <1>1, InspectorInvariance, PTL

\* Every view of the first network shows exactly what was committed up to its
\* height, however requests, blocks, restores and restarts interleave.
THEOREM ViewsShowHistory == Spec => []ViewsMatchHistory
<1>1. InspectorInv => ViewsMatchHistory
  BY DEF InspectorInv, ThreadIsSound, ViewIsSound, ViewsMatchHistory
<1>. QED  BY <1>1, InspectorInvariance, PTL

\* No view is older than the database was when its request came.
THEOREM ViewsStayFresh == Spec => []ViewsAreFresh
<1>1. ASSUME InspectorInv, NEW t \in Thread, Viewed(request[t])
      PROVE  request[t].answer.height >= request[t].asked
  <2>1. request[t] \in Request /\ ViewIsSound(request[t])
    BY <1>1, ThreadFacts DEF ThreadIsSound
  <2>2. request[t].answer.height \in Nat /\ request[t].asked \in Nat
    BY <2>1 DEF Request, Answer
  <2>. QED  BY <1>1, <2>1, <2>2 DEF ViewIsSound
<1>2. InspectorInv => ViewsAreFresh
  BY <1>1 DEF ViewsAreFresh
<1>. QED  BY <1>2, InspectorInvariance, PTL

\* The index grown block by block answers every query as the ledger does, and
\* append never refuses what a request has read under the lock.
THEOREM IndexStaysSound == Spec => []IndexIsSound
<1>1. ASSUME InspectorInv, replacements = 0 PROVE AnswersFrom(index, At(index.height).ledger)
  <2> DEFINE l == UpToHeight(history.ledger, index.height)
  <2>1. history.ledger \in Ledger /\ Grown(history.ledger, chain) /\ index.height \in Nat
    BY <1>1 DEF InspectorInv, TypeOK, Snapshot, HistoryIsGrown
  <2>2. l \in Ledger /\ Grown(l, chain)
    <3>1. index.height <= index.height
      BY <2>1
    <3>. QED  BY <2>1, <3>1, HistoryGrows
  <2>3. index.nodes = IndexedArtifacts(l) /\ Files(index.adjacency, index.nodes)
    BY <1>1, AtIs DEF InspectorInv, IndexIsHistory, IndexIsFiled
  <2>4. At(index.height).ledger = l
    BY AtIs
  <2>. HIDE DEF l
  <2>. QED  BY <2>2, <2>3, <2>4, FiledAnswers
<1>2. InspectorInv => IndexMatchesLedger
  BY <1>1 DEF IndexMatchesLedger
<1>3. InspectorInv => AppendNeverRefuses
  BY DEF InspectorInv, ThreadIsSound, ViewIsSound, AppendNeverRefuses
<1>4. InspectorInv => IndexIsSound
  BY <1>2, <1>3 DEF IndexIsSound
<1>. QED  BY <1>4, InspectorInvariance, PTL

\* The artifacts of one view are of the chain it observed before the lock,
\* whichever network the node has been moved to since.
THEOREM ViewsAreOfOneChain == Spec => []OneChainPerView
<1>1. InspectorInv => OneChainPerView
  BY DEF InspectorInv, ThreadIsSound, ViewIsSound, OneChainPerView
<1>. QED  BY <1>1, InspectorInvariance, PTL

\* A client that loads one page after another misses no transaction and sees
\* none twice, while blocks arrive between its requests.
THEOREM PagesAreTheHistory == Spec => []PagesCoverHistory
<1>1. InspectorInv => PagesCoverHistory
  BY DEF InspectorInv, ThreadIsSound, PagingGoesOn, PagesCoverHistory
<1>. QED  BY <1>1, InspectorInvariance, PTL

\* The height of the index never falls but in a new process.
THEOREM HeightNeverFalls == Spec => PresentedHeightNeverFalls
<1>1. ASSUME InspectorInv, [Next]_vars, index'.height < index.height PROVE index' = EmptyIndex
  <2>1. CASE \E t \in Thread : Advance(t)
    <3>1. PICK t \in Thread : Advance(t)
      BY <2>1
    <3>2. index'.height = request[t].height /\ index.height <= request[t].height
      BY <1>1, <3>1, IndexAdvances
    <3>3. index.height \in Nat /\ request[t].height \in Nat
      BY <1>1, ThreadFacts DEF InspectorInv, TypeOK, Request
    <3>. QED  BY <1>1, <3>2, <3>3
  <2>2. CASE RestartInspector
    BY <2>2 DEF RestartInspector
  <2>3. CASE index' = index
    <3>1. index.height \in Nat
      BY <1>1 DEF InspectorInv, TypeOK
    <3>. QED  BY <1>1, <2>3, <3>1
  <2>4. (\E t \in Thread : Advance(t)) \/ RestartInspector \/ index' = index
    BY <1>1 DEF Next, vars, service, Receive, Parsed, GetGraph, GetFeed, GetContribution, Serve,
       Observe, ObserveFails, Lock, RefuseNode, ReadUpdates, ReadFails, Refuse, Deliver,
       CommitBlock, CatchUp, RestoreDatabase, ReplaceNetwork
  <2>. QED  BY <2>1, <2>2, <2>3, <2>4
<1>2. InspectorInv /\ [Next]_vars => [index'.height < index.height => index' = EmptyIndex]_index
  BY <1>1
<1>. QED  BY <1>2, InspectorInvariance, PTL DEF Spec, PresentedHeightNeverFalls
=============================================================================
