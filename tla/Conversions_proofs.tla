-------------------------- MODULE Conversions_proofs -------------------------
(***************************************************************************)
(* Proofs about Conversation, for any messages, any bounds and any counts: *)
(* that a reply put together from its events is the reply that is not      *)
(* streamed, that it can be sent back, that the whole conversation reaches *)
(* the provider as it was written, and that what is estimated for a reply  *)
(* was reserved.  And about Dashboard, for any log, any times and any size *)
(* of a page: that what is read in pages is complete, and that charts,     *)
(* counters and alerts tell the same.                                      *)
(***************************************************************************)
EXTENDS MCConversions, FiniteSetTheorems, SequenceTheorems, WellFoundedInduction, TLAPS

-----------------------------------------------------------------------------
(* Flattening, whose recursive function exists and is unique by induction  *)
(* over the length of the sequence.                                        *)

\* Induction over the naturals, stated for a set in place of a predicate.
LEMMA NaturalsIn ==
  ASSUME NEW G, 0 \in G, \A n \in Nat : n \in G => n + 1 \in G
  PROVE  Nat \subseteq G
<1> SUFFICES ASSUME Nat \ G # {} PROVE FALSE
  OBVIOUS
<1>1. PICK m \in Nat \ G : \A n \in Nat \ G : ~(<<n, m>> \in OpToRel(<, Nat))
  BY NatLessThanWellFounded, WFMin, Zenon
<1>2. m # 0 /\ m - 1 \in Nat /\ m - 1 < m /\ (m - 1) + 1 = m
  OBVIOUS
<1>3. m - 1 \notin G
  BY <1>2
<1>4. <<m - 1, m>> \in OpToRel(<, Nat)
  BY <1>2 DEF OpToRel
<1> QED BY <1>1, <1>2, <1>3, <1>4

\* The function that FlattenSeq computes: the texts up to each, joined.
Joins(f, s) == f = [i \in 1 .. Len(s) |-> IF i = 1 THEN s[i] ELSE f[i - 1] \o s[i]]

\* A sequence has such a function, ...
LEMMA JoinsExist ==
  ASSUME NEW S, NEW s \in Seq(Seq(S))
  PROVE  \E f \in [1 .. Len(s) -> Seq(S)] : Joins(f, s)
<1> DEFINE Upto(n) == \E f \in [1 .. Len(s) -> Seq(S)] :
                        \A i \in 1 .. Len(s) : i <= n => f[i] = IF i = 1 THEN s[i] ELSE f[i - 1] \o s[i]
           G == {n \in Nat : Upto(n)}
<1>1. Len(s) \in Nat /\ \A i \in 1 .. Len(s) : s[i] \in Seq(S)
  BY LenProperties, ElementOfSeq
<1>2. 0 \in G
  <2>1. [i \in 1 .. Len(s) |-> s[i]] \in [1 .. Len(s) -> Seq(S)]
    BY <1>1
  <2> QED BY <2>1
<1>3. ASSUME NEW n \in Nat, n \in G
      PROVE  n + 1 \in G
  <2>1. PICK f \in [1 .. Len(s) -> Seq(S)] :
          \A i \in 1 .. Len(s) : i <= n => f[i] = IF i = 1 THEN s[i] ELSE f[i - 1] \o s[i]
    BY <1>3
  <2> DEFINE next == IF n + 1 = 1 THEN s[n + 1] ELSE f[n] \o s[n + 1]
             g == [i \in 1 .. Len(s) |-> IF i = n + 1 THEN next ELSE f[i]]
  <2>2. ASSUME n + 1 \in 1 .. Len(s) PROVE next \in Seq(S)
    <3>1. CASE n = 0
      BY <1>1, <2>2, <3>1
    <3>2. CASE n # 0
      <4>1. n \in 1 .. Len(s)
        BY <1>1, <2>2, <3>2
      <4>2. f[n] \in Seq(S) /\ s[n + 1] \in Seq(S)
        BY <1>1, <2>2, <4>1
      <4> QED BY <3>2, <4>2, ConcatProperties
    <3> QED BY <3>1, <3>2
  <2> HIDE DEF next
  <2>3. g \in [1 .. Len(s) -> Seq(S)]
    BY <2>2
  <2>4. ASSUME NEW i \in 1 .. Len(s), i <= n + 1
        PROVE  g[i] = IF i = 1 THEN s[i] ELSE g[i - 1] \o s[i]
    <3>1. CASE i = n + 1
      <4>1. g[i] = next
        BY <3>1
      <4>2. i # 1 => g[i - 1] = f[n]
        BY <1>1, <3>1
      <4> QED BY <3>1, <4>1, <4>2 DEF next
    <3>2. CASE i # n + 1
      <4>1. i <= n
        BY <1>1, <2>4, <3>2
      <4>2. g[i] = f[i] /\ i # 1 => g[i - 1] = f[i - 1]
        BY <1>1, <4>1
      <4>3. g[i] = f[i]
        BY <3>2
      <4> QED BY <2>1, <4>1, <4>2, <4>3
    <3> QED BY <3>1, <3>2
  <2> HIDE DEF g
  <2>5. Upto(n + 1)
    BY <2>3, <2>4
  <2> HIDE DEF Upto
  <2> QED BY <2>5
<1>4. Nat \subseteq G
  <2> HIDE DEF G
  <2> QED BY <1>2, <1>3, NaturalsIn
<1>5. PICK f \in [1 .. Len(s) -> Seq(S)] :
        \A i \in 1 .. Len(s) : i <= Len(s) => f[i] = IF i = 1 THEN s[i] ELSE f[i - 1] \o s[i]
  BY <1>1, <1>4
<1>6. ASSUME NEW i \in 1 .. Len(s)
      PROVE  f[i] = IF i = 1 THEN s[i] ELSE f[i - 1] \o s[i]
  <2>1. i <= Len(s)
    BY <1>1
  <2> QED BY <1>5, <2>1, Zenon
<1> QED BY <1>6 DEF Joins

\* ... and one only.
LEMMA JoinsUnique ==
  ASSUME NEW s, Len(s) \in Nat, NEW f, Joins(f, s), NEW g, Joins(g, s)
  PROVE  f = g
<1> DEFINE G == {n \in Nat : \A i \in 1 .. Len(s) : i <= n => f[i] = g[i]}
<1>1. /\ \A i \in 1 .. Len(s) : f[i] = IF i = 1 THEN s[i] ELSE f[i - 1] \o s[i]
      /\ \A i \in 1 .. Len(s) : g[i] = IF i = 1 THEN s[i] ELSE g[i - 1] \o s[i]
  BY DEF Joins
<1>2. 0 \in G
  OBVIOUS
<1>3. ASSUME NEW n \in Nat, n \in G
      PROVE  n + 1 \in G
  <2>1. ASSUME NEW i \in 1 .. Len(s), i <= n + 1
        PROVE  f[i] = g[i]
    <3>1. CASE i = 1
      BY <1>1, <3>1
    <3>2. CASE i # 1
      <4>1. i - 1 \in 1 .. Len(s) /\ i - 1 <= n
        BY <2>1, <3>2
      <4>2. f[i - 1] = g[i - 1]
        BY <1>3, <4>1
      <4> QED BY <1>1, <3>2, <4>2
    <3> QED BY <3>1, <3>2
  <2> QED BY <2>1
<1>4. Nat \subseteq G
  <2> HIDE DEF G
  <2> QED BY <1>2, <1>3, NaturalsIn
<1>5. Len(s) \in G
  BY <1>4
<1>6. \A i \in 1 .. Len(s) : f[i] = g[i]
  BY <1>5
<1> DEFINE h(e) == [i \in 1 .. Len(s) |-> IF i = 1 THEN s[i] ELSE e[i - 1] \o s[i]]
<1>7. \A i \in 1 .. Len(s) : h(f)[i] = h(g)[i]
  BY <1>1, <1>6
<1>8. f = h(f) /\ g = h(g)
  BY DEF Joins
<1>9. h(f) = h(g)
  BY <1>7
<1> QED BY <1>8, <1>9

\* It is the one that FlattenSeq uses.
LEMMA FlattenJoins ==
  ASSUME NEW s, Len(s) \in Nat \ {0}, NEW f, Joins(f, s)
  PROVE  FlattenSeq(s) = f[Len(s)]
<1> DEFINE g == CHOOSE g : Joins(g, s)
<1>1. FlattenSeq(s) = g[Len(s)]
  BY DEF FlattenSeq, Joins
<1>2. Joins(g, s)
  OBVIOUS
<1> HIDE DEF g
<1>3. g = f
  BY <1>2, JoinsUnique
<1> QED BY <1>1, <1>3

\* Nothing is flattened to nothing, ...
LEMMA FlattenEmpty == FlattenSeq(<<>>) = <<>>
BY DEF FlattenSeq

\* ... a last text is joined to what is before it, ...
LEMMA FlattenAppend ==
  ASSUME NEW S, NEW s \in Seq(Seq(S)), NEW e \in Seq(S)
  PROVE  FlattenSeq(Append(s, e)) = FlattenSeq(s) \o e
<1> DEFINE t == Append(s, e)
<1>1. /\ t \in Seq(Seq(S)) /\ Len(t) = Len(s) + 1 /\ Len(s) \in Nat
      /\ \A i \in 1 .. Len(s) : t[i] = s[i]
      /\ t[Len(t)] = e
  BY AppendProperties, LenProperties
<1> HIDE DEF t
<1>2. PICK f \in [1 .. Len(s) -> Seq(S)] : Joins(f, s)
  BY JoinsExist
<1>3. PICK g \in [1 .. Len(t) -> Seq(S)] : Joins(g, t)
  BY <1>1, JoinsExist
<1>4. FlattenSeq(t) = g[Len(t)]
  BY <1>1, <1>3, FlattenJoins
<1>5. \A i \in 1 .. Len(t) : g[i] = IF i = 1 THEN t[i] ELSE g[i - 1] \o t[i]
  BY <1>3 DEF Joins
<1>6. CASE Len(s) = 0
  <2>1. s = <<>>
    BY <1>6, EmptySeq
  <2>2. FlattenSeq(s) = <<>>
    BY <2>1, FlattenEmpty
  <2>3. g[Len(t)] = e
    BY <1>1, <1>5, <1>6
  <2>4. <<>> \o e = e
    BY ConcatEmptySeq
  <2> QED BY <1>4, <2>2, <2>3, <2>4 DEF t
<1>7. CASE Len(s) # 0
  <2> DEFINE h == [i \in 1 .. Len(s) |-> g[i]]
  <2>1. ASSUME NEW i \in 1 .. Len(s)
        PROVE  h[i] = IF i = 1 THEN s[i] ELSE h[i - 1] \o s[i]
    <3>1. i \in 1 .. Len(t) /\ t[i] = s[i] /\ h[i] = g[i]
      BY <1>1
    <3>2. i # 1 => h[i - 1] = g[i - 1]
      BY <1>1
    <3> QED BY <1>5, <3>1, <3>2
  <2>2. Joins(h, s)
    BY <2>1 DEF Joins
  <2>3. FlattenSeq(s) = h[Len(s)]
    <3> HIDE DEF h
    <3> QED BY <1>1, <1>7, <2>2, FlattenJoins
  <2>4. h[Len(s)] = g[Len(s)]
    BY <1>1, <1>7
  <2>5. g[Len(t)] = g[Len(s)] \o t[Len(t)]
    <3>1. Len(t) \in 1 .. Len(t) /\ Len(t) # 1 /\ Len(t) - 1 = Len(s)
      BY <1>1, <1>7
    <3> QED BY <1>5, <3>1
  <2> QED BY <1>1, <1>4, <2>3, <2>4, <2>5 DEF t
<1> QED BY <1>6, <1>7

\* ... and what comes out is a sequence of the same elements.
LEMMA FlattenType ==
  ASSUME NEW S, NEW s \in Seq(Seq(S))
  PROVE  FlattenSeq(s) \in Seq(S)
<1>1. CASE s = <<>>
  BY <1>1, FlattenEmpty, EmptySeq
<1>2. CASE s # <<>>
  <2>1. Len(s) \in Nat \ {0}
    BY <1>2, EmptySeq
  <2>2. PICK f \in [1 .. Len(s) -> Seq(S)] : Joins(f, s)
    BY JoinsExist
  <2> QED BY <2>1, <2>2, FlattenJoins, SMTT(30)
<1> QED BY <1>1, <1>2

\* Flattening is done piece by piece: what joins two sequences joins their texts.
LEMMA FlattenConcat ==
  ASSUME NEW S, NEW x \in Seq(Seq(S)), NEW y \in Seq(Seq(S))
  PROVE  FlattenSeq(x \o y) = FlattenSeq(x) \o FlattenSeq(y)
<1>1. FlattenSeq(x) \in Seq(S) /\ FlattenSeq(y) \in Seq(S)
  BY FlattenType
<1>2. CASE x = <<>>
  BY <1>1, <1>2, FlattenEmpty, ConcatEmptySeq
<1>3. CASE y = <<>>
  BY <1>1, <1>3, FlattenEmpty, ConcatEmptySeq
<1>4. CASE x # <<>> /\ y # <<>>
  <2>1. PICK a : a = Len(x)
    OBVIOUS
  <2>2. PICK b : b = Len(y)
    OBVIOUS
  <2>3. PICK z : z = x \o y
    OBVIOUS
  <2>4. a \in Nat \ {0} /\ b \in Nat \ {0}
    <3>1. a \in Nat /\ b \in Nat
      BY <2>1, <2>2, LenProperties
    <3> QED BY <1>4, <2>1, <2>2, <3>1, EmptySeq
  <2>5. Len(z) = a + b /\ \A i \in 1 .. a + b : z[i] = IF i <= a THEN x[i] ELSE y[i - a]
    BY <2>1, <2>2, <2>3, ConcatProperties
  <2>6. PICK f \in [1 .. a -> Seq(S)] : Joins(f, x)
    BY <2>1, JoinsExist
  <2>7. PICK g \in [1 .. b -> Seq(S)] : Joins(g, y)
    BY <2>2, JoinsExist
  <2>8. \A i \in 1 .. a : f[i] = IF i = 1 THEN x[i] ELSE f[i - 1] \o x[i]
    BY <2>1, <2>6 DEF Joins
  <2>9. \A i \in 1 .. b : g[i] = IF i = 1 THEN y[i] ELSE g[i - 1] \o y[i]
    BY <2>2, <2>7 DEF Joins
  <2>10. PICK h : h = [i \in 1 .. a + b |-> IF i <= a THEN f[i] ELSE f[a] \o g[i - a]]
    OBVIOUS
  <2>11. ASSUME NEW i \in 1 .. a + b
         PROVE  h[i] = IF i = 1 THEN z[i] ELSE h[i - 1] \o z[i]
    <3>1. CASE i <= a
      <4>1. i \in 1 .. a /\ h[i] = f[i] /\ z[i] = x[i]
        BY <2>4, <2>5, <2>10, <3>1
      <4>2. i # 1 => i - 1 \in 1 .. a + b /\ h[i - 1] = f[i - 1]
        BY <2>4, <2>10, <3>1
      <4> QED BY <2>8, <4>1, <4>2
    <3>2. CASE i = a + 1
      <4>1. i - a = 1 /\ i # 1 /\ 1 \in 1 .. b /\ a \in 1 .. a + b /\ i - 1 = a /\ ~(i <= a)
        BY <2>4, <3>2
      <4>2. h[i] = f[a] \o g[1] /\ h[i - 1] = f[a] /\ z[i] = y[1]
        <5>1. h[i] = f[a] \o g[1]
          BY <2>10, <4>1
        <5>2. h[a] = f[a]
          BY <2>4, <2>10, <4>1
        <5>3. z[i] = y[i - a]
          BY <2>5, <4>1
        <5> QED BY <4>1, <5>1, <5>2, <5>3
      <4>3. g[1] = y[1]
        BY <2>9, <4>1
      <4> QED BY <4>1, <4>2, <4>3
    <3>3. CASE i > a + 1
      <4>1. PICK k : k = i - a
        OBVIOUS
      <4>2. /\ k \in 1 .. b /\ k # 1 /\ k - 1 \in 1 .. b /\ i # 1 /\ i - 1 \in 1 .. a + b
            /\ ~(i <= a) /\ ~(i - 1 <= a) /\ (i - 1) - a = k - 1 /\ a \in 1 .. a
        BY <2>4, <3>3, <4>1
      <4>3. h[i] = f[a] \o g[k] /\ h[i - 1] = f[a] \o g[k - 1] /\ z[i] = y[k]
        BY <2>5, <2>10, <4>1, <4>2
      <4>4. g[k] = g[k - 1] \o y[k]
        BY <2>9, <4>2
      <4>5. f[a] \in Seq(S) /\ g[k - 1] \in Seq(S) /\ y[k] \in Seq(S)
        BY <2>2, <2>6, <2>7, <4>2, ElementOfSeq
      <4>6. f[a] \o (g[k - 1] \o y[k]) = (f[a] \o g[k - 1]) \o y[k]
        <5>1. \A p, q, r \in Seq(S) : (p \o q) \o r = p \o (q \o r)
          BY ConcatAssociative, SMTT(30)
        <5> QED BY <4>5, <5>1
      <4> QED BY <4>2, <4>3, <4>4, <4>6
    <3> QED BY <2>4, <3>1, <3>2, <3>3
  <2>12. Joins(h, z)
    <3>1. h = [i \in 1 .. a + b |-> h[i]]
      BY <2>10
    <3>2. h = [i \in 1 .. a + b |-> IF i = 1 THEN z[i] ELSE h[i - 1] \o z[i]]
      BY <2>11, <3>1
    <3> QED BY <2>5, <3>2 DEF Joins
  <2>13. FlattenSeq(z) = h[a + b]
    <3>1. Len(z) \in Nat \ {0}
      BY <2>4, <2>5
    <3> QED BY <2>5, <2>12, <3>1, FlattenJoins
  <2>14. FlattenSeq(x) = f[a] /\ FlattenSeq(y) = g[b]
    BY <2>1, <2>2, <2>4, <2>6, <2>7, FlattenJoins
  <2>15. h[a + b] = f[a] \o g[b]
    <3>1. a + b \in 1 .. a + b /\ ~(a + b <= a) /\ (a + b) - a = b
      BY <2>4
    <3> QED BY <2>10, <3>1
  <2> QED BY <2>3, <2>13, <2>14, <2>15
<1> QED BY <1>2, <1>3, <1>4

-----------------------------------------------------------------------------
(* Something made of each element, one after another.                      *)

Flat(s, g) == FlattenSeq([i \in DOMAIN s |-> g[s[i]]])

\* What is made are texts.
LEMMA MadeType ==
  ASSUME NEW S, NEW T, NEW g \in [S -> Seq(T)], NEW s \in Seq(S)
  PROVE  /\ [i \in DOMAIN s |-> g[s[i]]] \in Seq(Seq(T))
         /\ Len([i \in DOMAIN s |-> g[s[i]]]) = Len(s)
<1>1. PICK made : made = [i \in DOMAIN s |-> g[s[i]]]
  OBVIOUS
<1>2. PICK n \in Nat : n = Len(s)
  BY LenProperties
<1>3. DOMAIN s = 1 .. n /\ \A i \in 1 .. n : s[i] \in S
  BY <1>2, LenProperties, ElementOfSeq
<1>4. made \in [1 .. n -> Seq(T)]
  BY <1>1, <1>3
<1>5. made \in Seq(Seq(T)) /\ Len(made) = n
  BY <1>4
<1> QED BY <1>1, <1>2, <1>5

\* It is a text itself, ...
LEMMA FlatType ==
  ASSUME NEW S, NEW T, NEW g \in [S -> Seq(T)], NEW s \in Seq(S)
  PROVE  Flat(s, g) \in Seq(T)
<1>1. PICK made : made = [i \in DOMAIN s |-> g[s[i]]]
  OBVIOUS
<1>2. made \in Seq(Seq(T))
  BY <1>1, MadeType
<1>3. FlattenSeq(made) \in Seq(T)
  BY <1>2, FlattenType
<1> QED BY <1>1, <1>3 DEF Flat

\* ... is made of two sequences one after another, ...
LEMMA FlatConcat ==
  ASSUME NEW S, NEW T, NEW g \in [S -> Seq(T)], NEW s \in Seq(S), NEW t \in Seq(S)
  PROVE  Flat(s \o t, g) = Flat(s, g) \o Flat(t, g)
<1>1. PICK x : x = [i \in DOMAIN s |-> g[s[i]]]
  OBVIOUS
<1>2. PICK y : y = [i \in DOMAIN t |-> g[t[i]]]
  OBVIOUS
<1>3. PICK u : u = s \o t
  OBVIOUS
<1>4. PICK z : z = [i \in DOMAIN u |-> g[u[i]]]
  OBVIOUS
<1>5. /\ u \in Seq(S) /\ Len(u) = Len(s) + Len(t) /\ Len(s) \in Nat /\ Len(t) \in Nat
      /\ DOMAIN u = 1 .. Len(u) /\ DOMAIN s = 1 .. Len(s) /\ DOMAIN t = 1 .. Len(t)
      /\ \A i \in 1 .. Len(s) + Len(t) : u[i] = IF i <= Len(s) THEN s[i] ELSE t[i - Len(s)]
  <2>1. u \in Seq(S)
    BY <1>3, ConcatProperties
  <2>2. DOMAIN u = 1 .. Len(u)
    BY <2>1, LenProperties
  <2> QED BY <1>3, <2>1, <2>2, ConcatProperties, LenProperties
<1>6. x \in Seq(Seq(T)) /\ Len(x) = Len(s) /\ y \in Seq(Seq(T)) /\ Len(y) = Len(t)
  <2>1. \A r \in Seq(S) : /\ [i \in DOMAIN r |-> g[r[i]]] \in Seq(Seq(T))
                          /\ Len([i \in DOMAIN r |-> g[r[i]]]) = Len(r)
    BY MadeType, SMTT(30)
  <2>2. x \in Seq(Seq(T)) /\ Len(x) = Len(s)
    BY <1>1, <2>1
  <2>3. y \in Seq(Seq(T)) /\ Len(y) = Len(t)
    BY <1>2, <2>1
  <2> QED BY <2>2, <2>3
<1>7. z \in Seq(Seq(T)) /\ Len(z) = Len(u)
  BY <1>4, <1>5, MadeType
<1>8. PICK w : w = x \o y
  OBVIOUS
<1>9. /\ w \in Seq(Seq(T)) /\ Len(w) = Len(s) + Len(t)
      /\ \A i \in 1 .. Len(s) + Len(t) : w[i] = IF i <= Len(s) THEN x[i] ELSE y[i - Len(s)]
  <2>1. /\ w \in Seq(Seq(T)) /\ Len(w) = Len(x) + Len(y)
        /\ \A i \in 1 .. Len(x) + Len(y) : w[i] = IF i <= Len(x) THEN x[i] ELSE y[i - Len(x)]
    <3>1. x \in Seq(Seq(T)) /\ y \in Seq(Seq(T))
      BY <1>6
    <3> QED BY <1>8, <3>1, ConcatProperties
  <2> QED BY <1>6, <2>1
<1>10. ASSUME NEW i \in 1 .. Len(s) + Len(t) PROVE z[i] = w[i]
  <2>1. z[i] = g[u[i]]
    BY <1>4, <1>5
  <2>2. CASE i <= Len(s)
    <3>1. i \in 1 .. Len(s)
      BY <1>5, <2>2
    <3> QED BY <1>1, <1>5, <1>9, <2>1, <2>2, <3>1
  <2>3. CASE ~(i <= Len(s))
    <3>1. PICK k : k = i - Len(s)
      OBVIOUS
    <3>2. k \in 1 .. Len(t)
      BY <1>5, <2>3, <3>1
    <3> QED BY <1>2, <1>5, <1>9, <2>1, <2>3, <3>1, <3>2
  <2> QED BY <2>2, <2>3
<1>11. z = w
  BY <1>5, <1>7, <1>9, <1>10, SeqEqual
<1>12. FlattenSeq(w) = FlattenSeq(x) \o FlattenSeq(y)
  BY <1>6, <1>8, FlattenConcat
<1> QED BY <1>1, <1>2, <1>3, <1>4, <1>11, <1>12 DEF Flat

\* ... of none from nothing, of one from one, ...
LEMMA FlatOne ==
  ASSUME NEW S, NEW T, NEW g \in [S -> Seq(T)], NEW e \in S
  PROVE  Flat(<<>>, g) = <<>> /\ Flat(<<e>>, g) = g[e]
<1>1. [i \in DOMAIN <<>> |-> g[<<>>[i]]] = <<>>
  OBVIOUS
<1>2. [i \in DOMAIN <<e>> |-> g[<<e>>[i]]] = <<g[e]>>
  OBVIOUS
<1>3. Append(<<>>, g[e]) = <<g[e]>> /\ <<>> \in Seq(Seq(T)) /\ <<>> \in Seq(T)
  BY EmptySeq
<1>4. FlattenSeq(<<g[e]>>) = <<>> \o g[e]
  BY <1>3, FlattenAppend, FlattenEmpty
<1>5. <<>> \o g[e] = g[e]
  BY ConcatEmptySeq
<1> QED BY <1>1, <1>2, <1>4, <1>5, FlattenEmpty DEF Flat

\* ... grows with the sequence, ...
LEMMA FlatAppend ==
  ASSUME NEW S, NEW T, NEW g \in [S -> Seq(T)], NEW s \in Seq(S), NEW e \in S
  PROVE  Flat(Append(s, e), g) = Flat(s, g) \o g[e]
<1>1. Append(s, e) = s \o <<e>> /\ <<e>> \in Seq(S)
  BY AppendIsConcat
<1>2. Flat(s \o <<e>>, g) = Flat(s, g) \o Flat(<<e>>, g)
  BY <1>1, FlatConcat
<1>3. Flat(<<e>>, g) = g[e]
  BY FlatOne
<1> QED BY <1>1, <1>2, <1>3

\* ... is nothing where each makes nothing, ...
LEMMA FlatNothing ==
  ASSUME NEW S, NEW g, NEW s \in Seq(S), \A i \in DOMAIN s : g[s[i]] = <<>>
  PROVE  Flat(s, g) = <<>>
<1>1. PICK made : made = [i \in DOMAIN s |-> g[s[i]]]
  OBVIOUS
<1>2. DOMAIN s = 1 .. Len(s) /\ Len(s) \in Nat
  BY LenProperties
<1>3. <<>> \in Seq({})
  BY EmptySeq
<1>4. made \in [1 .. Len(s) -> Seq({})]
  BY <1>1, <1>2, <1>3
<1>5. made \in Seq(Seq({}))
  BY <1>2, <1>4
<1>6. FlattenSeq(made) \in Seq({})
  BY <1>5, FlattenType
<1>7. \A t \in Seq({}) : t = <<>>
  <2>1. ASSUME NEW t \in Seq({}) PROVE t = <<>>
    <3>1. Len(t) \in Nat /\ \A i \in 1 .. Len(t) : t[i] \in {}
      BY LenProperties, ElementOfSeq
    <3>2. Len(t) = 0
      <4>1. 1 \notin 1 .. Len(t)
        BY <3>1
      <4> QED BY <3>1, <4>1
    <3> QED BY <3>2, EmptySeq
  <2> QED BY <2>1
<1> QED BY <1>1, <1>6, <1>7 DEF Flat

\* ... and everything where each is kept.
LEMMA FlatEverything ==
  ASSUME NEW S, NEW g, NEW s \in Seq(S), \A i \in DOMAIN s : g[s[i]] = <<s[i]>>
  PROVE  Flat(s, g) = s
<1>1. PICK made : made = [i \in DOMAIN s |-> g[s[i]]]
  OBVIOUS
<1>2. PICK n : n = Len(s)
  OBVIOUS
<1>3. DOMAIN s = 1 .. n /\ n \in Nat /\ \A i \in 1 .. n : s[i] \in S
  BY <1>2, LenProperties, ElementOfSeq
<1>4. made = [i \in 1 .. n |-> <<s[i]>>]
  BY <1>1, <1>3
<1>5. Len(made) = n
  BY <1>3, <1>4
<1>6. CASE n = 0
  <2>1. s = <<>>
    BY <1>2, <1>6, EmptySeq
  <2>2. made = <<>>
    BY <1>4, <1>6
  <2> QED BY <1>1, <2>1, <2>2, FlattenEmpty DEF Flat
<1>7. CASE n # 0
  <2>1. PICK f : f = [i \in 1 .. n |-> [j \in 1 .. i |-> s[j]]]
    OBVIOUS
  <2>2. ASSUME NEW i \in 1 .. n
        PROVE  f[i] = IF i = 1 THEN made[i] ELSE f[i - 1] \o made[i]
    <3>1. \A k \in 1 .. n : f[k] \in Seq(S) /\ Len(f[k]) = k /\ \A j \in 1 .. k : f[k][j] = s[j]
      <4>1. ASSUME NEW k \in 1 .. n
            PROVE  f[k] \in Seq(S) /\ Len(f[k]) = k /\ \A j \in 1 .. k : f[k][j] = s[j]
        <5>1. f[k] = [j \in 1 .. k |-> s[j]]
          BY <2>1
        <5>2. k \in Nat /\ \A j \in 1 .. k : j \in 1 .. n
          BY <1>3
        <5>3. f[k] \in [1 .. k -> S]
          BY <1>3, <5>1, <5>2
        <5> QED BY <5>1, <5>2, <5>3
      <4> QED BY <4>1
    <3>2. made[i] = <<s[i]>> /\ <<s[i]>> \in Seq(S) /\ Len(<<s[i]>>) = 1 /\ <<s[i]>>[1] = s[i]
      BY <1>3, <1>4
    <3>3. CASE i = 1
      <4>1. \A j \in 1 .. 1 : f[1][j] = <<s[1]>>[j]
        BY <3>1, <3>2, <3>3
      <4>2. f[1] \in Seq(S) /\ Len(f[1]) = 1
        BY <3>1, <3>3
      <4>3. f[1] = <<s[1]>>
        BY <3>2, <3>3, <4>1, <4>2, SeqEqual
      <4> QED BY <3>2, <3>3, <4>3
    <3>4. CASE i # 1
      <4>1. PICK k : k = i - 1
        OBVIOUS
      <4>2. k \in 1 .. n /\ k + 1 = i /\ i \in Nat
        BY <1>3, <3>4, <4>1
      <4>3. PICK l : l = <<s[i]>>
        OBVIOUS
      <4>4. PICK w : w = f[k] \o l
        OBVIOUS
      <4>5. /\ w \in Seq(S) /\ Len(w) = i
            /\ \A j \in 1 .. i : w[j] = IF j <= k THEN f[k][j] ELSE l[j - k]
        BY <3>1, <3>2, <4>2, <4>3, <4>4, ConcatProperties
      <4>6. ASSUME NEW j \in 1 .. i PROVE f[i][j] = w[j]
        <5>1. CASE j <= k
          <6>1. j \in 1 .. k
            BY <4>2, <5>1
          <6> QED BY <3>1, <4>2, <4>5, <5>1, <6>1
        <5>2. CASE ~(j <= k)
          <6>1. j = i /\ j - k = 1
            BY <4>2, <5>2
          <6> QED BY <3>1, <3>2, <4>3, <4>5, <5>2, <6>1
        <5> QED BY <5>1, <5>2
      <4>7. f[i] = w
        BY <3>1, <4>5, <4>6, SeqEqual
      <4> QED BY <3>2, <3>4, <4>1, <4>3, <4>4, <4>7
    <3> QED BY <3>3, <3>4
  <2>3. Joins(f, made)
    <3>1. f = [i \in 1 .. n |-> f[i]]
      BY <2>1
    <3>2. f = [i \in 1 .. n |-> IF i = 1 THEN made[i] ELSE f[i - 1] \o made[i]]
      BY <2>2, <3>1
    <3> QED BY <1>5, <3>2 DEF Joins
  <2>4. FlattenSeq(made) = f[n]
    BY <1>3, <1>5, <1>7, <2>3, FlattenJoins
  <2>5. n \in 1 .. n /\ f[n] = [j \in 1 .. n |-> s[j]]
    BY <1>3, <1>7, <2>1
  <2>6. s = [j \in 1 .. n |-> s[j]]
    BY <1>3
  <2> QED BY <1>1, <2>4, <2>5, <2>6 DEF Flat
<1> QED BY <1>6, <1>7

-----------------------------------------------------------------------------
(* Sorting: every rank below the number of elements is one element's.      *)

\* Two elements have different ranks.
LEMMA RankUnique ==
  ASSUME NEW S \in SUBSET Int, IsFiniteSet(S), NEW x \in S, NEW y \in S, Rank(S, x) = Rank(S, y)
  PROVE  x = y
<1> SUFFICES ASSUME NEW a \in S, NEW b \in S, a < b PROVE Rank(S, a) # Rank(S, b)
  OBVIOUS
<1> DEFINE A == {m \in S : m < a}
           B == {m \in S : m < b}
<1>1. A \in SUBSET B /\ a \in B /\ a \notin A
  <2>1. a \in Int /\ b \in Int
    OBVIOUS
  <2>2. ASSUME NEW m \in A PROVE m \in B
    <3>1. m \in S /\ m \in Int /\ m < a
      OBVIOUS
    <3>2. m < b
      BY <2>1, <3>1
    <3> QED BY <3>1, <3>2
  <2>3. ~(a < a)
    BY <2>1
  <2> QED BY <2>2, <2>3
<1>2. IsFiniteSet(B)
  BY FS_Subset
<1>3. Cardinality(A) = Cardinality(B) => A = B
  BY <1>1, <1>2, FS_Subset
<1>4. A # B
  BY <1>1
<1> QED BY <1>3, <1>4 DEF Rank

\* Every rank is taken.
Ranked(S) == \A i \in 1 .. Cardinality(S) : \E n \in S : Rank(S, n) = i - 1

\* The ascending sequence has at each place the element of that rank.
LEMMA AscendingHas ==
  ASSUME NEW S \in SUBSET Int, IsFiniteSet(S), Ranked(S)
  PROVE  /\ Ascending(S) \in Seq(S) /\ Len(Ascending(S)) = Cardinality(S)
         /\ \A i \in 1 .. Cardinality(S) : \A n \in S : Rank(S, n) = i - 1 => Ascending(S)[i] = n
<1>1. Cardinality(S) \in Nat
  BY FS_CardinalityType
<1>2. ASSUME NEW i \in 1 .. Cardinality(S)
      PROVE  /\ Ascending(S)[i] \in S
             /\ \A n \in S : Rank(S, n) = i - 1 => Ascending(S)[i] = n
  <2> DEFINE c == CHOOSE n \in S : Rank(S, n) = i - 1
  <2>1. \E n \in S : Rank(S, n) = i - 1
    BY DEF Ranked
  <2>2. c \in S /\ Rank(S, c) = i - 1
    BY <2>1
  <2>3. Ascending(S)[i] = c
    BY DEF Ascending
  <2> HIDE DEF c
  <2> QED BY <2>2, <2>3, RankUnique
<1>3. Ascending(S) \in [1 .. Cardinality(S) -> S]
  BY <1>2 DEF Ascending
<1> QED BY <1>1, <1>2, <1>3

\* A higher number goes to the end.
LEMMA RankedAdds ==
  ASSUME NEW S \in SUBSET Int, IsFiniteSet(S), Ranked(S), NEW n \in Int, \A m \in S : m < n
  PROVE  Ranked(S \cup {n})
<1> DEFINE T == S \cup {n}
<1>1. n \notin S /\ Cardinality(S) \in Nat
  BY FS_CardinalityType
<1>2. Cardinality(T) = Cardinality(S) + 1
  BY <1>1, FS_AddElement
<1>3. ASSUME NEW m \in S PROVE Rank(T, m) = Rank(S, m)
  <2>1. {k \in T : k < m} = {k \in S : k < m}
    OBVIOUS
  <2> QED BY <2>1 DEF Rank
<1>4. Rank(T, n) = Cardinality(S)
  <2>1. {k \in T : k < n} = S
    <3>1. ~(n < n)
      OBVIOUS
    <3> QED BY <3>1
  <2> QED BY <2>1 DEF Rank
<1>5. ASSUME NEW i \in 1 .. Cardinality(T) PROVE \E m \in T : Rank(T, m) = i - 1
  <2>1. CASE i = Cardinality(T)
    BY <1>1, <1>2, <1>4, <2>1
  <2>2. CASE i # Cardinality(T)
    <3>1. i \in 1 .. Cardinality(S)
      BY <1>1, <1>2, <2>2
    <3> QED BY <1>3, <3>1 DEF Ranked
  <2> QED BY <2>1, <2>2
<1> QED BY <1>5 DEF Ranked

\* Sets of numbers up to any bound are ranked.
LEMMA AllRanked ==
  ASSUME NEW n \in Nat, NEW S \in SUBSET (1 .. n)
  PROVE  IsFiniteSet(S) /\ Ranked(S)
<1> DEFINE G == {k \in Nat : \A T \in SUBSET (1 .. k) : Ranked(T)}
<1>1. \A k \in Nat : IsFiniteSet(1 .. k)
  BY FS_Interval
<1>2. 0 \in G
  <2>1. \A T \in SUBSET (1 .. 0) : T = {}
    OBVIOUS
  <2>2. Ranked({})
    <3>1. Cardinality({}) = 0
      BY FS_EmptySet
    <3> QED BY <3>1 DEF Ranked
  <2> QED BY <2>1, <2>2
<1>3. ASSUME NEW k \in Nat, k \in G
      PROVE  k + 1 \in G
  <2>1. ASSUME NEW T \in SUBSET (1 .. k + 1) PROVE Ranked(T)
    <3> DEFINE U == T \ {k + 1}
    <3>1. U \in SUBSET (1 .. k) /\ U \in SUBSET Int /\ \A m \in U : m < k + 1
      OBVIOUS
    <3>2. Ranked(U) /\ IsFiniteSet(U)
      BY <1>1, <1>3, <3>1, FS_Subset
    <3>3. Ranked(U \cup {k + 1})
      BY <3>1, <3>2, RankedAdds
    <3>4. T = U \/ T = U \cup {k + 1}
      OBVIOUS
    <3> QED BY <3>2, <3>3, <3>4
  <2> QED BY <2>1
<1>4. Nat \subseteq G
  <2> HIDE DEF G
  <2> QED BY <1>2, <1>3, NaturalsIn
<1>5. n \in G
  BY <1>4
<1>6. Ranked(S)
  BY <1>5
<1>7. IsFiniteSet(S)
  BY <1>1, FS_Subset
<1> QED BY <1>6, <1>7

\* Such a set becomes a sequence of its elements, ...
LEMMA AscendingType ==
  ASSUME NEW n \in Nat, NEW S \in SUBSET (1 .. n)
  PROVE  Ascending(S) \in Seq(S) /\ Len(Ascending(S)) = Cardinality(S)
<1>1. S \in SUBSET Int
  OBVIOUS
<1> QED BY <1>1, AllRanked, AscendingHas

\* ... to which a higher number is appended.
LEMMA AscendingAppend ==
  ASSUME NEW n \in Nat, NEW S \in SUBSET (1 .. n)
  PROVE  Ascending(S \cup {n + 1}) = Append(Ascending(S), n + 1)
<1> DEFINE T == S \cup {n + 1}
<1>1. T \in SUBSET (1 .. n + 1) /\ S \in SUBSET Int /\ T \in SUBSET Int /\ \A m \in S : m < n + 1
  OBVIOUS
<1>2. IsFiniteSet(S) /\ Ranked(S) /\ IsFiniteSet(T) /\ Ranked(T)
  <2>1. n + 1 \in Nat
    OBVIOUS
  <2> HIDE DEF T
  <2> QED BY <1>1, <2>1, AllRanked
<1>3. Cardinality(S) \in Nat /\ Cardinality(T) = Cardinality(S) + 1
  <2>1. n + 1 \notin S
    BY <1>1
  <2> QED BY <1>2, <2>1, FS_CardinalityType, FS_AddElement
<1>4. /\ Ascending(S) \in Seq(S) /\ Len(Ascending(S)) = Cardinality(S)
      /\ Ascending(T) \in Seq(T) /\ Len(Ascending(T)) = Cardinality(T)
  BY <1>1, <1>2, AscendingHas
<1>5. ASSUME NEW i \in 1 .. Cardinality(S) PROVE Ascending(T)[i] = Ascending(S)[i]
  <2>1. PICK m \in S : Rank(S, m) = i - 1
    BY <1>2 DEF Ranked
  <2>2. {k \in T : k < m} = {k \in S : k < m}
    BY <1>1
  <2>3. Rank(T, m) = i - 1
    BY <2>1, <2>2 DEF Rank
  <2>4. i \in 1 .. Cardinality(T) /\ m \in T
    BY <1>3
  <2>5. Ascending(T)[i] = m
    BY <1>1, <1>2, <2>3, <2>4, AscendingHas
  <2>6. Ascending(S)[i] = m
    BY <1>1, <1>2, <2>1, AscendingHas
  <2> QED BY <2>5, <2>6
<1>6. Ascending(T)[Cardinality(T)] = n + 1
  <2>1. {k \in T : k < n + 1} = S
    <3>1. ~(n + 1 < n + 1)
      OBVIOUS
    <3> QED BY <1>1, <3>1
  <2>2. Rank(T, n + 1) = Cardinality(T) - 1
    <3>1. Rank(T, n + 1) = Cardinality(S)
      BY <2>1 DEF Rank
    <3> HIDE DEF T
    <3> QED BY <1>3, <3>1
  <2>3. Cardinality(T) \in 1 .. Cardinality(T) /\ n + 1 \in T
    BY <1>3
  <2> QED BY <1>1, <1>2, <2>2, <2>3, AscendingHas
<1> DEFINE a == Append(Ascending(S), n + 1)
<1>7. Ascending(S) \in Seq(T)
  BY <1>4, SeqMonotonic
<1>8. /\ a \in Seq(T) /\ Len(a) = Cardinality(S) + 1
      /\ \A i \in 1 .. Cardinality(S) : a[i] = Ascending(S)[i]
      /\ a[Cardinality(S) + 1] = n + 1
  BY <1>4, <1>7, AppendProperties
<1> HIDE DEF a, T
<1>9. \A i \in 1 .. Len(a) : Ascending(T)[i] = a[i]
  BY <1>3, <1>5, <1>6, <1>8
<1>10. Ascending(T) = a
  BY <1>3, <1>4, <1>8, <1>9, SeqEqual
<1> QED BY <1>10 DEF a, T

\* Nothing is sorted to nothing.
LEMMA AscendingEmpty == Ascending({}) = <<>>
<1>1. Cardinality({}) = 0
  BY FS_EmptySet
<1> QED BY <1>1 DEF Ascending

\* The numbers from zero are each at the place after their own.
LEMMA AscendingUpto ==
  ASSUME NEW n \in Nat
  PROVE  Ascending(0 .. n - 1) = [i \in 1 .. n |-> i - 1]
<1> DEFINE S == 0 .. n - 1
<1>1. S \in SUBSET Int /\ IsFiniteSet(S) /\ Cardinality(S) = n
  <2>1. 0 \in Int /\ n - 1 \in Int
    OBVIOUS
  <2> QED BY <2>1, FS_Interval
<1>2. ASSUME NEW i \in 1 .. n PROVE i - 1 \in S /\ Rank(S, i - 1) = i - 1
  <2>1. {m \in S : m < i - 1} = 0 .. i - 2
    OBVIOUS
  <2>2. 0 \in Int /\ i - 2 \in Int
    OBVIOUS
  <2>3. Cardinality(0 .. i - 2) = i - 1
    BY <2>2, FS_Interval
  <2>4. Rank(S, i - 1) = i - 1
    BY <2>1, <2>3 DEF Rank
  <2>5. i - 1 \in S
    OBVIOUS
  <2> QED BY <2>4, <2>5
<1> HIDE DEF S
<1>3. Ranked(S)
  BY <1>1, <1>2 DEF Ranked
<1>4. \A i \in 1 .. n : Ascending(S)[i] = i - 1
  BY <1>1, <1>2, <1>3, AscendingHas
<1>5. Ascending(S) = [i \in 1 .. n |-> Ascending(S)[i]]
  BY <1>1 DEF Ascending
<1> QED BY <1>4, <1>5 DEF S

-----------------------------------------------------------------------------
(* The blocks of a reply: what they say, and the calls they make.          *)

Kinds == {"text", "thinking", "tool"}
Sent == [type : Kinds, parts : Nat]

At(blocks, type) == {i \in DOMAIN blocks : blocks[i].type = type}
Places(blocks, type) == Ascending(At(blocks, type))

\* The fragments of block i of message m, of the blocks at some places, and of a type; ...
Piece(m, i, parts) == [k \in 1 .. parts |-> <<m, i, k>>]
Pieces(places, blocks, m) == [j \in DOMAIN places |-> Piece(m, places[j], blocks[places[j]].parts)]
Spoken(blocks, m, type) == FlattenSeq(Pieces(Places(blocks, type), blocks, m))

\* ... and the calls.
Call(m, i, parts) == [id |-> <<m, i>>, arguments |-> Piece(m, i, parts)]
Uses(places, blocks, m) == [j \in DOMAIN places |-> Call(m, places[j], blocks[places[j]].parts)]
Calls(blocks, m) == Uses(Places(blocks, "tool"), blocks, m)

\* Fragments are fragments.
LEMMA PieceType ==
  ASSUME NEW m \in Nat, NEW i \in Nat, NEW n \in Nat
  PROVE  Piece(m, i, n) \in Seq(Fragment) /\ Len(Piece(m, i, n)) = n
<1>1. \A k \in 1 .. n : <<m, i, k>> \in Fragment
  BY DEF Fragment
<1>2. Piece(m, i, n) \in [1 .. n -> Fragment]
  BY <1>1 DEF Piece
<1> QED BY <1>2

\* The places of a type are places, ...
LEMMA PlacesType ==
  ASSUME NEW blocks \in Seq(Sent), NEW type
  PROVE  /\ At(blocks, type) \in SUBSET (1 .. Len(blocks))
         /\ Places(blocks, type) \in Seq(1 .. Len(blocks))
         /\ \A j \in DOMAIN Places(blocks, type) : Places(blocks, type)[j] \in At(blocks, type)
         /\ Len(Places(blocks, type)) = Cardinality(At(blocks, type))
         /\ Cardinality(At(blocks, type)) \in Nat
<1> DEFINE S == At(blocks, type)
<1>1. Len(blocks) \in Nat /\ S \in SUBSET (1 .. Len(blocks))
  BY LenProperties DEF At
<1> HIDE DEF S
<1>2. Ascending(S) \in Seq(S) /\ Len(Ascending(S)) = Cardinality(S)
  BY <1>1, AscendingType
<1>3. Ascending(S) \in Seq(1 .. Len(blocks))
  BY <1>1, <1>2, SeqMonotonic
<1>4. \A j \in DOMAIN Ascending(S) : Ascending(S)[j] \in S
  BY <1>2, LenProperties, ElementOfSeq
<1>5. Cardinality(S) \in Nat
  BY <1>2, LenProperties
<1> QED BY <1>1, <1>2, <1>3, <1>4, <1>5 DEF Places, S

\* ... and a block that is added is the last of its type.
LEMMA AtAppend ==
  ASSUME NEW blocks \in Seq(Sent), NEW b \in Sent, NEW type
  PROVE  At(Append(blocks, b), type) =
           IF b.type = type THEN At(blocks, type) \cup {Len(blocks) + 1} ELSE At(blocks, type)
<1>1. PICK n : n = Len(blocks)
  OBVIOUS
<1>2. PICK more : more = Append(blocks, b)
  OBVIOUS
<1>3. /\ n \in Nat /\ DOMAIN blocks = 1 .. n
      /\ DOMAIN more = 1 .. n + 1 /\ more[n + 1] = b
      /\ \A i \in 1 .. n : more[i] = blocks[i]
  BY <1>1, <1>2, AppendProperties, LenProperties
<1>4. \A i : i \in 1 .. n + 1 <=> i \in 1 .. n \/ i = n + 1
  BY <1>3
<1>5. n + 1 \notin 1 .. n
  BY <1>3
<1>6. At(more, type) = IF b.type = type THEN At(blocks, type) \cup {n + 1} ELSE At(blocks, type)
  BY <1>3, <1>4, <1>5 DEF At
<1> QED BY <1>1, <1>2, <1>6

\* The place of a block that is added comes last.
LEMMA PlacesAppend ==
  ASSUME NEW blocks \in Seq(Sent), NEW b \in Sent, NEW type
  PROVE  Places(Append(blocks, b), type) =
           IF b.type = type THEN Append(Places(blocks, type), Len(blocks) + 1)
           ELSE Places(blocks, type)
<1>1. PICK n : n = Len(blocks)
  OBVIOUS
<1>2. n \in Nat /\ At(blocks, type) \in SUBSET (1 .. n)
  BY <1>1, LenProperties, PlacesType
<1>3. Ascending(At(blocks, type) \cup {n + 1}) = Append(Ascending(At(blocks, type)), n + 1)
  BY <1>2, AscendingAppend
<1> QED BY <1>1, <1>3, AtAppend DEF Places

\* What is said is a text.
LEMMA PiecesType ==
  ASSUME NEW blocks \in Seq(Sent), NEW m \in Nat, NEW places \in Seq(1 .. Len(blocks))
  PROVE  /\ Pieces(places, blocks, m) \in Seq(Seq(Fragment))
         /\ Len(Pieces(places, blocks, m)) = Len(places)
<1>1. DOMAIN places = 1 .. Len(places) /\ Len(places) \in Nat
  BY LenProperties
<1>2. ASSUME NEW j \in 1 .. Len(places)
      PROVE  Piece(m, places[j], blocks[places[j]].parts) \in Seq(Fragment)
  <2>1. places[j] \in 1 .. Len(blocks)
    BY ElementOfSeq
  <2>2. Len(blocks) \in Nat /\ blocks[places[j]] \in Sent
    BY <2>1, LenProperties, ElementOfSeq
  <2>3. places[j] \in Nat /\ blocks[places[j]].parts \in Nat
    BY <2>1, <2>2 DEF Sent
  <2> QED BY <2>3, PieceType
<1>3. Pieces(places, blocks, m) \in [1 .. Len(places) -> Seq(Fragment)]
  BY <1>1, <1>2 DEF Pieces
<1> QED BY <1>1, <1>3

\* What the blocks of a type say is a text of fragments.
LEMMA SpokenType ==
  ASSUME NEW blocks \in Seq(Sent), NEW m \in Nat, NEW type
  PROVE  Spoken(blocks, m, type) \in Seq(Fragment)
<1>1. Pieces(Places(blocks, type), blocks, m) \in Seq(Seq(Fragment))
  BY PlacesType, PiecesType
<1> QED BY <1>1, FlattenType DEF Spoken

\* The fragments of a block that is added come last.
LEMMA SpokenAppend ==
  ASSUME NEW blocks \in Seq(Sent), NEW b \in Sent, NEW m \in Nat, NEW type
  PROVE  Spoken(Append(blocks, b), m, type) =
           IF b.type = type THEN Spoken(blocks, m, type) \o Piece(m, Len(blocks) + 1, b.parts)
           ELSE Spoken(blocks, m, type)
<1>1. PICK n : n = Len(blocks)
  OBVIOUS
<1>2. PICK more : more = Append(blocks, b)
  OBVIOUS
<1>3. PICK places : places = Places(blocks, type)
  OBVIOUS
<1>4. /\ n \in Nat /\ more \in Seq(Sent) /\ Len(more) = n + 1 /\ more[n + 1] = b
      /\ \A i \in 1 .. n : more[i] = blocks[i]
  BY <1>1, <1>2, AppendProperties, LenProperties
<1>5. places \in Seq(1 .. n) /\ Len(places) \in Nat /\ DOMAIN places = 1 .. Len(places)
  <2>1. places \in Seq(1 .. n)
    BY <1>1, <1>3, PlacesType
  <2> QED BY <2>1, LenProperties
<1>6. \A j \in 1 .. Len(places) : places[j] \in 1 .. n
  BY <1>5, ElementOfSeq
<1>7. Pieces(places, more, m) = Pieces(places, blocks, m)
  BY <1>4, <1>5, <1>6 DEF Pieces
<1>8. CASE b.type # type
  BY <1>2, <1>3, <1>7, <1>8, PlacesAppend DEF Spoken
<1>9. CASE b.type = type
  <2> DEFINE new == Append(places, n + 1)
             piece == Piece(m, n + 1, b.parts)
             all == Append(Pieces(places, blocks, m), piece)
  <2>1. Places(more, type) = new
    BY <1>1, <1>2, <1>3, <1>9, PlacesAppend
  <2>2. new \in Seq(1 .. n + 1) /\ Len(new) = Len(places) + 1 /\ new[Len(places) + 1] = n + 1
        /\ \A j \in 1 .. Len(places) : new[j] = places[j]
    <3>1. places \in Seq(1 .. n + 1) /\ n + 1 \in 1 .. n + 1
      <4>1. (1 .. n) \subseteq (1 .. n + 1)
        BY <1>4
      <4> QED BY <1>4, <1>5, <4>1, SeqMonotonic
    <3> QED BY <3>1, AppendProperties
  <2>3. piece \in Seq(Fragment)
    <3>1. n + 1 \in Nat /\ b.parts \in Nat
      BY <1>4 DEF Sent
    <3> QED BY <3>1, PieceType
  <2>4. Pieces(places, blocks, m) \in Seq(Seq(Fragment)) /\ Len(Pieces(places, blocks, m)) = Len(places)
    BY <1>1, <1>5, PiecesType
  <2>5. Pieces(new, more, m) \in Seq(Seq(Fragment)) /\ Len(Pieces(new, more, m)) = Len(places) + 1
    <3> HIDE DEF new
    <3> QED BY <1>4, <2>2, PiecesType
  <2>6. all \in Seq(Seq(Fragment)) /\ Len(all) = Len(places) + 1 /\ all[Len(places) + 1] = piece
        /\ \A j \in 1 .. Len(places) : all[j] = Pieces(places, blocks, m)[j]
    <3> HIDE DEF piece
    <3> QED BY <2>3, <2>4, AppendProperties
  <2>7. ASSUME NEW j \in 1 .. Len(places) + 1 PROVE Pieces(new, more, m)[j] = all[j]
    <3> HIDE DEF new
    <3>1. DOMAIN new = 1 .. Len(places) + 1
      BY <2>2, LenProperties
    <3>2. CASE j = Len(places) + 1
      BY <1>4, <2>2, <2>6, <3>1, <3>2 DEF Pieces
    <3>3. CASE j # Len(places) + 1
      <4>1. j \in 1 .. Len(places)
        BY <1>5, <3>3
      <4>2. all[j] = Pieces(places, more, m)[j]
        BY <1>7, <2>6, <4>1
      <4>3. new[j] = places[j]
        BY <2>2, <4>1
      <4> HIDE DEF all
      <4> QED BY <1>5, <3>1, <4>1, <4>2, <4>3 DEF Pieces
    <3> QED BY <3>2, <3>3
  <2>8. Pieces(new, more, m) = all
    <3> HIDE DEF new, all
    <3> QED BY <2>5, <2>6, <2>7, SeqEqual
  <2>9. FlattenSeq(all) = FlattenSeq(Pieces(places, blocks, m)) \o piece
    <3> HIDE DEF piece
    <3> QED BY <2>3, <2>4, FlattenAppend
  <2> HIDE DEF new, all, piece
  <2> QED BY <1>1, <1>2, <1>3, <1>9, <2>1, <2>8, <2>9 DEF Spoken, piece
<1> QED BY <1>8, <1>9

-----------------------------------------------------------------------------
(* What an event does.                                                     *)

\* No event is lost on the way: the chunk it becomes changes just these fields.
Gathers(content, reasoning, calls, finish, prompt, completion, total) ==
  /\ accumulator'.content = content /\ accumulator'.reasoning = reasoning
  /\ accumulator'.calls = calls /\ accumulator'.finish = finish
  /\ accumulator'.prompt = prompt /\ accumulator'.completion = completion
  /\ accumulator'.total = total

\* What one event leaves in the translator and the accumulator: the start, ...
LEMMA StartGathers ==
  ASSUME NEW input, Receive([type |-> "message_start", input |-> input])
  PROVE  /\ translator' = [translator EXCEPT !.input = input]
         /\ Gathers(accumulator.content, accumulator.reasoning, accumulator.calls,
                    accumulator.finish, Known(input, accumulator.prompt),
                    accumulator.completion, accumulator.total)
<1> DEFINE event == [type |-> "message_start", input |-> input]
<1>0. ~OpensCall(event) /\ event.type = "message_start" /\ event.input = input
  BY DEF OpensCall
<1>1. Tracked(translator, event) = [translator EXCEPT !.input = input]
  BY <1>0 DEF Tracked
<1>2. Translated(translator, event) = [NoChunk EXCEPT !.prompt = input]
  BY <1>0 DEF Translated
<1>3. PICK chunk : chunk = [NoChunk EXCEPT !.prompt = input]
  OBVIOUS
<1>4. /\ chunk.content = Null /\ chunk.reasoning = Null /\ chunk.calls = {} /\ chunk.finish = Null
      /\ chunk.prompt = input /\ chunk.completion = Null /\ chunk.total = Null
  BY <1>3 DEF NoChunk
<1>5. accumulator' = Consumed(accumulator, chunk)
  BY <1>2, <1>3 DEF Receive
<1> QED BY <1>1, <1>4, <1>5 DEF Receive, Consumed, Gathers, Extended, Known

\* ... a block, which opens a call where it is one, ...
LEMMA BlockGathers ==
  ASSUME NEW type \in Kinds, NEW index, NEW id,
         Receive([type |-> "content_block_start", block |-> type, index |-> index, id |-> id])
  PROVE  IF type = "tool"
           THEN /\ translator' = [translator EXCEPT !.tools =
                      [i \in DOMAIN translator.tools \cup {index} |->
                         IF i = index THEN NextCall(translator) ELSE translator.tools[i]]]
                /\ Gathers(accumulator.content, accumulator.reasoning,
                     Joined(accumulator.calls,
                            [index |-> NextCall(translator), id |-> id, arguments |-> <<>>]),
                     accumulator.finish, accumulator.prompt,
                     accumulator.completion, accumulator.total)
           ELSE /\ translator' = translator
                /\ Gathers(accumulator.content, accumulator.reasoning, accumulator.calls,
                           accumulator.finish, accumulator.prompt,
                           accumulator.completion, accumulator.total)
<1> DEFINE event == [type |-> "content_block_start", block |-> type, index |-> index, id |-> id]
<1>1. CASE type = "tool"
  <2>1. OpensCall(event)
    BY <1>1 DEF OpensCall
  <2>2. Tracked(translator, event) = [translator EXCEPT !.tools =
                      [i \in DOMAIN translator.tools \cup {index} |->
                         IF i = index THEN NextCall(translator) ELSE translator.tools[i]]]
    BY <2>1 DEF Tracked
  <2>3. PICK call : call = [index |-> NextCall(translator), id |-> id, arguments |-> <<>>]
    OBVIOUS
  <2>4. Translated(translator, event) = [NoChunk EXCEPT !.calls = {call}]
    BY <2>1, <2>3 DEF Translated
  <2>5. PICK chunk : chunk = [NoChunk EXCEPT !.calls = {call}]
    OBVIOUS
  <2>6. /\ chunk.content = Null /\ chunk.reasoning = Null /\ chunk.calls = {call}
        /\ chunk.finish = Null
        /\ chunk.prompt = Null /\ chunk.completion = Null /\ chunk.total = Null
    BY <2>5 DEF NoChunk
  <2>7. accumulator' = Consumed(accumulator, chunk)
    BY <2>4, <2>5 DEF Receive
  <2>8. (CHOOSE c \in {call} : TRUE) = call /\ {call} # {}
    OBVIOUS
  <2>9. Gathers(accumulator.content, accumulator.reasoning, Joined(accumulator.calls, call),
                accumulator.finish, accumulator.prompt, accumulator.completion, accumulator.total)
    BY <2>6, <2>7, <2>8 DEF Consumed, Gathers, Extended, Known
  <2> QED BY <1>1, <2>2, <2>3, <2>9 DEF Receive
<1>2. CASE type # "tool"
  <2>1. ~OpensCall(event)
    BY <1>2 DEF OpensCall
  <2>2. Tracked(translator, event) = translator
    BY <2>1 DEF Tracked
  <2>3. Translated(translator, event) = NoChunk
    BY <2>1 DEF Translated
  <2>4. accumulator' = Consumed(accumulator, NoChunk)
    BY <2>3 DEF Receive
  <2> QED BY <1>2, <2>2, <2>4 DEF Receive, Consumed, Gathers, Extended, Known, NoChunk
<1> QED BY <1>1, <1>2

\* ... a fragment, which goes where the type of its block says, ...
LEMMA FragmentGathers ==
  ASSUME NEW type \in Kinds, NEW index, NEW part, part # Null,
         Receive([type |-> DeltaOf[type], index |-> index, part |-> part])
  PROVE  /\ translator' = translator
         /\ Gathers(IF type = "text" THEN Append(accumulator.content, part) ELSE accumulator.content,
                    IF type = "thinking" THEN Append(accumulator.reasoning, part)
                    ELSE accumulator.reasoning,
                    IF type = "tool"
                      THEN Joined(accumulator.calls, [index |-> ToolIndex(translator, index),
                                                      id |-> Null, arguments |-> <<part>>])
                      ELSE accumulator.calls,
                    accumulator.finish, accumulator.prompt,
                    accumulator.completion, accumulator.total)
<1> DEFINE event == [type |-> DeltaOf[type], index |-> index, part |-> part]
<1>1. DeltaOf[type] = IF type = "text" THEN "text_delta"
                      ELSE IF type = "thinking" THEN "thinking_delta" ELSE "input_json_delta"
  BY DEF DeltaOf, Kinds
<1>2. ~OpensCall(event) /\ event.type # "message_start"
  BY <1>1 DEF OpensCall
<1>3. Tracked(translator, event) = translator
  BY <1>2 DEF Tracked
<1>4. CASE type = "text"
  <2>1. Translated(translator, event) = [NoChunk EXCEPT !.content = part]
    BY <1>1, <1>4, <1>2 DEF Translated
  <2>2. PICK chunk : chunk = [NoChunk EXCEPT !.content = part]
    OBVIOUS
  <2>3. /\ chunk.content = part /\ chunk.reasoning = Null /\ chunk.calls = {} /\ chunk.finish = Null
        /\ chunk.prompt = Null /\ chunk.completion = Null /\ chunk.total = Null
    BY <2>2 DEF NoChunk
  <2>4. accumulator' = Consumed(accumulator, chunk)
    BY <2>1, <2>2 DEF Receive
  <2> QED BY <1>3, <1>4, <2>3, <2>4 DEF Receive, Consumed, Gathers, Extended, Known
<1>5. CASE type = "thinking"
  <2>1. Translated(translator, event) = [NoChunk EXCEPT !.reasoning = part]
    BY <1>1, <1>5, <1>2 DEF Translated
  <2>2. PICK chunk : chunk = [NoChunk EXCEPT !.reasoning = part]
    OBVIOUS
  <2>3. /\ chunk.content = Null /\ chunk.reasoning = part /\ chunk.calls = {} /\ chunk.finish = Null
        /\ chunk.prompt = Null /\ chunk.completion = Null /\ chunk.total = Null
    BY <2>2 DEF NoChunk
  <2>4. accumulator' = Consumed(accumulator, chunk)
    BY <2>1, <2>2 DEF Receive
  <2> QED BY <1>3, <1>5, <2>3, <2>4 DEF Receive, Consumed, Gathers, Extended, Known
<1>6. CASE type = "tool"
  <2>1. PICK call : call = [index |-> ToolIndex(translator, index), id |-> Null, arguments |-> <<part>>]
    OBVIOUS
  <2>2. Translated(translator, event) = [NoChunk EXCEPT !.calls = {call}]
    BY <1>1, <1>6, <1>2, <2>1 DEF Translated
  <2>3. PICK chunk : chunk = [NoChunk EXCEPT !.calls = {call}]
    OBVIOUS
  <2>4. /\ chunk.content = Null /\ chunk.reasoning = Null /\ chunk.calls = {call}
        /\ chunk.finish = Null
        /\ chunk.prompt = Null /\ chunk.completion = Null /\ chunk.total = Null
    BY <2>3 DEF NoChunk
  <2>5. accumulator' = Consumed(accumulator, chunk)
    BY <2>2, <2>3 DEF Receive
  <2>6. (CHOOSE c \in {call} : TRUE) = call /\ {call} # {}
    OBVIOUS
  <2>7. Gathers(accumulator.content, accumulator.reasoning, Joined(accumulator.calls, call),
                accumulator.finish, accumulator.prompt, accumulator.completion, accumulator.total)
    BY <2>4, <2>5, <2>6 DEF Consumed, Gathers, Extended, Known
  <2> QED BY <1>3, <1>6, <2>1, <2>7 DEF Receive
<1> QED BY <1>4, <1>5, <1>6 DEF Kinds

\* ... the end, with its reason and its counts, ...
LEMMA StopGathers ==
  ASSUME NEW reason, NEW output,
         Receive([type |-> "message_delta", reason |-> reason, output |-> output])
  PROVE  /\ translator' = translator
         /\ Gathers(accumulator.content, accumulator.reasoning, accumulator.calls,
                    Known(FinishReason(reason), accumulator.finish),
                    Known(translator.input, accumulator.prompt),
                    Known(output, accumulator.completion),
                    Known(Total(translator.input, output), accumulator.total))
<1> DEFINE event == [type |-> "message_delta", reason |-> reason, output |-> output]
<1>1. ~OpensCall(event) /\ event.type = "message_delta" /\ event.reason = reason /\ event.output = output
  BY DEF OpensCall
<1>2. Tracked(translator, event) = translator
  BY <1>1 DEF Tracked
<1> DEFINE made == [NoChunk EXCEPT !.finish = FinishReason(reason), !.prompt = translator.input,
                                   !.completion = output, !.total = Total(translator.input, output)]
<1>3. Translated(translator, event) = made
  BY <1>1 DEF Translated
<1>4. PICK chunk : chunk = made
  OBVIOUS
<1>5. /\ chunk.content = Null /\ chunk.reasoning = Null /\ chunk.calls = {}
      /\ chunk.finish = FinishReason(reason) /\ chunk.prompt = translator.input
      /\ chunk.completion = output /\ chunk.total = Total(translator.input, output)
  BY <1>4 DEF NoChunk
<1>6. accumulator' = Consumed(accumulator, chunk)
  BY <1>3, <1>4 DEF Receive
<1> QED BY <1>2, <1>5, <1>6 DEF Receive, Consumed, Gathers, Extended

\* ... and an error, which leaves what there is.
LEMMA ErrorGathers ==
  ASSUME Receive([type |-> "error"])
  PROVE  /\ translator' = translator
         /\ Gathers(accumulator.content, accumulator.reasoning, accumulator.calls,
                    accumulator.finish, accumulator.prompt,
                    accumulator.completion, accumulator.total)
<1> DEFINE event == [type |-> "error"]
<1>1. ~OpensCall(event) /\ event.type = "error"
  BY DEF OpensCall
<1>2. Tracked(translator, event) = translator
  BY <1>1 DEF Tracked
<1>3. Translated(translator, event) = [NoChunk EXCEPT !.error = TRUE]
  BY <1>1 DEF Translated
<1>4. PICK chunk : chunk = [NoChunk EXCEPT !.error = TRUE]
  OBVIOUS
<1>5. /\ chunk.content = Null /\ chunk.reasoning = Null /\ chunk.calls = {} /\ chunk.finish = Null
      /\ chunk.prompt = Null /\ chunk.completion = Null /\ chunk.total = Null
  BY <1>4 DEF NoChunk
<1>6. accumulator' = Consumed(accumulator, chunk)
  BY <1>3, <1>4 DEF Receive
<1> QED BY <1>2, <1>5, <1>6 DEF Receive, Consumed, Gathers, Extended, Known

-----------------------------------------------------------------------------
(* The calls as the accumulator holds them, by index.                      *)

Held(blocks, m) ==
  [c \in 0 .. Len(Places(blocks, "tool")) - 1 |->
     Call(m, Places(blocks, "tool")[c + 1], blocks[Places(blocks, "tool")[c + 1]].parts)]

\* A piece that is empty, and one that gets another fragment.
LEMMA PieceEmpty ==
  ASSUME NEW m, NEW i
  PROVE  Piece(m, i, 0) = <<>>
BY DEF Piece

\* A block that gets a fragment has it last.
LEMMA PieceGrows ==
  ASSUME NEW m \in Nat, NEW i \in Nat, NEW n \in Nat
  PROVE  /\ Piece(m, i, n + 1) = Append(Piece(m, i, n), <<m, i, n + 1>>)
         /\ Piece(m, i, n + 1) = Piece(m, i, n) \o <<<<m, i, n + 1>>>>
<1>1. PICK new : new = <<m, i, n + 1>>
  OBVIOUS
<1>2. PICK old : old = Piece(m, i, n)
  OBVIOUS
<1>3. new \in Fragment /\ old \in Seq(Fragment) /\ Len(old) = n
  <2>1. new \in Fragment
    BY <1>1 DEF Fragment
  <2>2. Piece(m, i, n) \in Seq(Fragment) /\ Len(Piece(m, i, n)) = n
    BY PieceType
  <2> QED BY <1>2, <2>1, <2>2
<1>4. Piece(m, i, n + 1) \in Seq(Fragment) /\ Len(Piece(m, i, n + 1)) = n + 1
  BY PieceType
<1>5. \A k \in 1 .. n : Piece(m, i, n + 1)[k] = old[k]
  BY <1>2 DEF Piece
<1>6. Piece(m, i, n + 1)[n + 1] = new
  BY <1>1 DEF Piece
<1>7. Append(old, new) \in Seq(Fragment) /\ Len(Append(old, new)) = n + 1
      /\ (\A k \in 1 .. n : Append(old, new)[k] = old[k]) /\ Append(old, new)[n + 1] = new
  BY <1>3, AppendProperties
<1>8. \A k \in 1 .. n + 1 : k \in 1 .. n \/ k = n + 1
  OBVIOUS
<1>9. Piece(m, i, n + 1) = Append(old, new)
  BY <1>4, <1>5, <1>6, <1>7, <1>8, SeqEqual
<1>10. Append(old, new) = old \o <<new>>
  BY <1>3, AppendIsConcat
<1> QED BY <1>1, <1>2, <1>9, <1>10

\* A block that is no call changes nothing; ...
LEMMA HeldSkips ==
  ASSUME NEW blocks \in Seq(Sent), NEW b \in Sent, b.type # "tool", NEW m
  PROVE  Held(Append(blocks, b), m) = Held(blocks, m)
<1>1. PICK places : places = Places(blocks, "tool")
  OBVIOUS
<1>2. Places(Append(blocks, b), "tool") = places
  BY <1>1, PlacesAppend
<1>3. places \in Seq(1 .. Len(blocks)) /\ Len(places) \in Nat
  BY <1>1, PlacesType, LenProperties
<1>4. ASSUME NEW c \in 0 .. Len(places) - 1
      PROVE  Append(blocks, b)[places[c + 1]] = blocks[places[c + 1]]
  <2>1. c + 1 \in 1 .. Len(places)
    BY <1>3
  <2>2. places[c + 1] \in 1 .. Len(blocks)
    BY <1>3, <2>1, ElementOfSeq
  <2> QED BY <2>2, AppendProperties
<1> QED BY <1>1, <1>2, <1>4 DEF Held

\* ... a call is the last.
LEMMA HeldAppend ==
  ASSUME NEW blocks \in Seq(Sent), NEW b \in Sent, b.type = "tool", NEW m,
         NEW k, k = Len(Places(blocks, "tool"))
  PROVE  /\ k \in Nat
         /\ Held(Append(blocks, b), m) =
              [c \in 0 .. k |-> IF c = k THEN Call(m, Len(blocks) + 1, b.parts)
                                ELSE Held(blocks, m)[c]]
         /\ DOMAIN Held(blocks, m) = 0 .. k - 1
<1>1. PICK places : places = Places(blocks, "tool")
  OBVIOUS
<1>2. PICK more : more = Append(blocks, b)
  OBVIOUS
<1>3. PICK n : n = Len(blocks)
  OBVIOUS
<1>4. n \in Nat /\ more[n + 1] = b /\ \A i \in 1 .. n : more[i] = blocks[i]
  BY <1>2, <1>3, LenProperties, AppendProperties
<1>5. places \in Seq(1 .. n) /\ Len(places) = k /\ k \in Nat
  <2>1. places \in Seq(1 .. n) /\ Len(places) = k
    BY <1>1, <1>3, PlacesType
  <2> QED BY <2>1, LenProperties
<1>6. PICK new : new = Append(places, n + 1)
  OBVIOUS
<1>7. Len(new) = k + 1 /\ new[k + 1] = n + 1 /\ \A j \in 1 .. k : new[j] = places[j]
  <2>1. (1 .. n) \subseteq (1 .. n + 1) /\ n + 1 \in 1 .. n + 1
    BY <1>4
  <2>2. places \in Seq(1 .. n + 1)
    BY <1>5, <2>1, SeqMonotonic
  <2> QED BY <1>5, <1>6, <2>1, <2>2, AppendProperties
<1>8. Places(more, "tool") = new
  BY <1>1, <1>2, <1>3, <1>6, PlacesAppend
<1>9. Held(more, m) = [c \in 0 .. k |-> Call(m, new[c + 1], more[new[c + 1]].parts)]
  <2>1. Len(new) - 1 = k
    BY <1>5, <1>7
  <2> QED BY <1>8, <2>1 DEF Held
<1>10. ASSUME NEW c \in 0 .. k
       PROVE  Call(m, new[c + 1], more[new[c + 1]].parts) =
                IF c = k THEN Call(m, n + 1, b.parts) ELSE Held(blocks, m)[c]
  <2>1. CASE c = k
    BY <1>4, <1>7, <2>1
  <2>2. CASE c # k
    <3>1. c \in 0 .. k - 1 /\ c + 1 \in 1 .. k
      BY <1>5, <2>2
    <3>2. new[c + 1] = places[c + 1] /\ places[c + 1] \in 1 .. n
      BY <1>5, <1>7, <3>1, ElementOfSeq
    <3>3. more[new[c + 1]] = blocks[places[c + 1]]
      BY <1>4, <3>2
    <3>4. Held(blocks, m)[c] = Call(m, places[c + 1], blocks[places[c + 1]].parts)
      BY <1>1, <1>5, <3>1 DEF Held
    <3> QED BY <2>2, <3>2, <3>3, <3>4
  <2> QED BY <2>1, <2>2
<1>11. DOMAIN Held(blocks, m) = 0 .. k - 1
  BY <1>1, <1>5 DEF Held
<1> QED BY <1>2, <1>3, <1>5, <1>9, <1>10, <1>11

\* A call that begins is the next one, without arguments; ...
LEMMA HeldOpens ==
  ASSUME NEW blocks \in Seq(Sent), NEW b \in Sent, b.type = "tool", b.parts = 0, NEW m \in Nat,
         NEW id, id = <<m, Len(blocks) + 1>>
  PROVE  Held(Append(blocks, b), m) =
           Joined(Held(blocks, m),
                  [index |-> Len(Places(blocks, "tool")), id |-> id, arguments |-> <<>>])
<1>1. PICK k : k = Len(Places(blocks, "tool"))
  OBVIOUS
<1>2. PICK h : h = Held(blocks, m)
  OBVIOUS
<1>3. PICK g : g = Call(m, Len(blocks) + 1, b.parts)
  OBVIOUS
<1>4. /\ k \in Nat /\ DOMAIN h = 0 .. k - 1
      /\ Held(Append(blocks, b), m) = [c \in 0 .. k |-> IF c = k THEN g ELSE h[c]]
  BY <1>1, <1>2, <1>3, HeldAppend
<1>5. id # Null
  <2>1. Len(blocks) + 1 \in Nat
    BY LenProperties
  <2>2. id \in Nat \X Nat
    BY <2>1
  <2> QED BY <2>2, NullAssumption
<1>6. g = [id |-> id, arguments |-> <<>>]
  BY <1>3, PieceEmpty DEF Call
<1>7. PICK call : call = [index |-> k, id |-> id, arguments |-> <<>>]
  OBVIOUS
<1>8. call.index = k /\ call.id = id /\ call.arguments = <<>>
  BY <1>7
<1>9. k \notin DOMAIN h /\ DOMAIN h \cup {k} = 0 .. k
  BY <1>4
<1>10. <<>> \o <<>> = <<>>
  BY EmptySeq, ConcatEmptySeq
<1>11. Known(id, Null) = id
  BY <1>5 DEF Known
<1>12. Joined(h, call) = [c \in 0 .. k |-> IF c = k THEN g ELSE h[c]]
  <2>1. ASSUME NEW c \in 0 .. k
        PROVE  (LET old == IF c \in DOMAIN h THEN h[c] ELSE [id |-> Null, arguments |-> <<>>]
                IN IF c # call.index THEN old
                   ELSE [id |-> Known(call.id, old.id), arguments |-> old.arguments \o call.arguments])
               = IF c = k THEN g ELSE h[c]
    <3>1. CASE c = k
      BY <1>6, <1>8, <1>9, <1>10, <1>11, <3>1
    <3>2. CASE c # k
      <4>1. c \in DOMAIN h
        BY <1>9, <3>2
      <4> QED BY <1>8, <3>2, <4>1
    <3> QED BY <3>1, <3>2
  <2>2. DOMAIN h \cup {call.index} = 0 .. k
    BY <1>8, <1>9
  <2> QED BY <2>1, <2>2 DEF Joined
<1> QED BY <1>1, <1>2, <1>4, <1>7, <1>12

\* ... and one that gets a fragment keeps the others.
LEMMA HeldGrows ==
  ASSUME NEW blocks \in Seq(Sent), NEW b \in Sent, b.type = "tool", NEW c \in Sent, c.type = "tool",
         c.parts = b.parts + 1, NEW m \in Nat, NEW part, part = <<m, Len(blocks) + 1, b.parts + 1>>
  PROVE  Held(Append(blocks, c), m) =
           Joined(Held(Append(blocks, b), m),
                  [index |-> Len(Places(blocks, "tool")), id |-> Null, arguments |-> <<part>>])
<1>1. PICK k : k = Len(Places(blocks, "tool"))
  OBVIOUS
<1>2. PICK o : o = Held(blocks, m)
  OBVIOUS
<1>3. PICK i : i = Len(blocks) + 1
  OBVIOUS
<1>4. i \in Nat /\ b.parts \in Nat
  BY <1>3, LenProperties DEF Sent
<1>5. PICK h : h = Held(Append(blocks, b), m)
  OBVIOUS
<1>6. /\ k \in Nat
      /\ h = [n \in 0 .. k |-> IF n = k THEN Call(m, i, b.parts) ELSE o[n]]
      /\ Held(Append(blocks, c), m) = [n \in 0 .. k |-> IF n = k THEN Call(m, i, c.parts) ELSE o[n]]
  BY <1>1, <1>2, <1>3, <1>5, HeldAppend
<1>7. PICK piece : piece = Piece(m, i, b.parts)
  OBVIOUS
<1>8. h[k] = [id |-> <<m, i>>, arguments |-> piece]
  BY <1>6, <1>7 DEF Call
<1>9. Call(m, i, c.parts) = [id |-> <<m, i>>, arguments |-> piece \o <<part>>]
  <2>1. Piece(m, i, b.parts + 1) = piece \o <<<<m, i, b.parts + 1>>>>
    BY <1>4, <1>7, PieceGrows
  <2> QED BY <1>3, <2>1 DEF Call
<1>10. PICK call : call = [index |-> k, id |-> Null, arguments |-> <<part>>]
  OBVIOUS
<1>11. call.index = k /\ call.id = Null /\ call.arguments = <<part>>
  BY <1>10
<1>12. DOMAIN h = 0 .. k /\ k \in 0 .. k
  BY <1>6
<1>13. Joined(h, call) = [n \in 0 .. k |-> IF n = k THEN Call(m, i, c.parts) ELSE o[n]]
  <2>1. ASSUME NEW n \in 0 .. k
        PROVE  (LET old == IF n \in DOMAIN h THEN h[n] ELSE [id |-> Null, arguments |-> <<>>]
                IN IF n # call.index THEN old
                   ELSE [id |-> Known(call.id, old.id), arguments |-> old.arguments \o call.arguments])
               = IF n = k THEN Call(m, i, c.parts) ELSE o[n]
    <3>1. CASE n = k
      <4>1. n \in DOMAIN h /\ h[n].id = <<m, i>> /\ h[n].arguments = piece
        BY <1>8, <1>12, <3>1
      <4>2. Known(call.id, h[n].id) = <<m, i>>
        BY <1>11, <4>1 DEF Known
      <4> QED BY <1>9, <1>11, <3>1, <4>1, <4>2
    <3>2. CASE n # k
      BY <1>6, <1>11, <1>12, <3>2
    <3> QED BY <3>1, <3>2
  <2>2. DOMAIN h \cup {call.index} = 0 .. k
    BY <1>11, <1>12
  <2> QED BY <2>1, <2>2 DEF Joined
<1> QED BY <1>1, <1>5, <1>6, <1>10, <1>13

\* In the order of their indexes they are the calls.
LEMMA HeldSorted ==
  ASSUME NEW blocks \in Seq(Sent), NEW m
  PROVE  /\ Sorted(Held(blocks, m)) = Calls(blocks, m)
         /\ Cardinality(DOMAIN Held(blocks, m)) = Cardinality(At(blocks, "tool"))
<1>1. PICK places : places = Places(blocks, "tool")
  OBVIOUS
<1>2. PICK k : k = Len(places)
  OBVIOUS
<1>3. k \in Nat /\ DOMAIN places = 1 .. k /\ k = Cardinality(At(blocks, "tool"))
  <2>1. places \in Seq(1 .. Len(blocks))
    BY <1>1, PlacesType
  <2> QED BY <1>1, <1>2, <2>1, PlacesType, LenProperties
<1>4. PICK h : h = Held(blocks, m)
  OBVIOUS
<1>5. h = [c \in 0 .. k - 1 |-> Call(m, places[c + 1], blocks[places[c + 1]].parts)]
  BY <1>1, <1>2, <1>4 DEF Held
<1>6. Ascending(DOMAIN h) = [i \in 1 .. k |-> i - 1]
  BY <1>3, <1>5, AscendingUpto
<1>7. Sorted(h) = [i \in 1 .. k |-> h[i - 1]]
  <2>1. PICK a : a = Ascending(DOMAIN h)
    OBVIOUS
  <2>2. Sorted(h) = [i \in DOMAIN a |-> h[a[i]]]
    BY <2>1 DEF Sorted
  <2>3. DOMAIN a = 1 .. k /\ \A i \in 1 .. k : a[i] = i - 1
    BY <1>6, <2>1
  <2> QED BY <2>2, <2>3
<1>8. ASSUME NEW i \in 1 .. k
      PROVE  h[i - 1] = Call(m, places[i], blocks[places[i]].parts)
  <2>1. i - 1 \in 0 .. k - 1 /\ (i - 1) + 1 = i
    BY <1>3
  <2> QED BY <1>5, <2>1
<1>9. Sorted(h) = Calls(blocks, m)
  BY <1>1, <1>3, <1>7, <1>8 DEF Calls, Uses
<1>10. Cardinality(DOMAIN h) = k
  <2>1. 0 \in Int /\ k - 1 \in Int
    BY <1>3
  <2>2. DOMAIN h = 0 .. k - 1
    BY <1>5
  <2>3. Cardinality(0 .. k - 1) = IF 0 > k - 1 THEN 0 ELSE k - 1 - 0 + 1
    BY <2>1, FS_Interval
  <2> QED BY <1>3, <2>2, <2>3
<1> QED BY <1>3, <1>4, <1>9, <1>10

-----------------------------------------------------------------------------
(* The invariant.  Its parts speak of any reply r, translator t and        *)
(* accumulator a, so that they can be said of the state after a step.      *)

CallRecords == [id : Nat \X Nat, arguments : Seq(Fragment)]
Messages == [role : Roles, answers : (Nat \X Nat) \cup {Null}, calls : Seq(CallRecords),
             content : Seq(Parts) \cup {Null}]

\* A message is as the client writes it, or sends a reply back; the ids of the calls it may answer.
Fine(message) ==
  /\ message.role # "assistant" => message.calls = <<>> /\ message.content # Null
  /\ message.content # Null =>
       \A j \in DOMAIN message.content : message.content[j].text # NoneText
Ids(p) == {SentCalls(p)[i].id : i \in DOMAIN SentCalls(p)}

\* Types: of the messages, and of a reply and its translation.
Appended ==
  /\ phase \in {"writing", "replying", "over", "interrupted"} /\ maxTokens \in MaxTokens \cup {0}
  /\ payload \in Seq(Messages) /\ Len(payload) <= MaxMessages

Shaped(r, t, a) ==
  /\ r = [started |-> r.started, input |-> r.input, blocks |-> r.blocks,
          reason |-> r.reason, output |-> r.output, error |-> r.error]
  /\ r.input \in Counts \cup {Null} /\ r.output \in Counts \cup {Null}
  /\ r.reason \in Reasons \cup {Null}
  /\ r.blocks \in Seq(Sent) /\ Len(r.blocks) <= MaxBlocks
  /\ t = [input |-> t.input, tools |-> t.tools]
  /\ a.content \in Seq(Atoms) /\ a.reasoning \in Seq(Atoms)

\* The tool table knows the blocks that are calls, and the number of the last.
Tabled(blocks, tools) ==
  /\ DOMAIN tools = {i - 1 : i \in At(blocks, "tool")}
  /\ Cardinality(DOMAIN tools) = Cardinality(At(blocks, "tool"))
  /\ blocks # <<>> /\ blocks[Len(blocks)].type = "tool" =>
       tools[Len(blocks) - 1] = Cardinality(At(blocks, "tool")) - 1

\* Usage and finish reason are what the provider has said of them.
Reported(r, t, a) ==
  /\ t.input = r.input /\ a.prompt = r.input /\ a.completion = r.output
  /\ a.finish = (IF r.reason = Null THEN Null ELSE FinishReason(r.reason))
  /\ a.total = (IF r.reason = Null THEN Null ELSE Total(r.input, r.output))
  /\ r.reason = Null => r.output = Null
  /\ ~r.started => r.input = Null /\ r.reason = Null

\* The accumulator has what the blocks say, as message m; ...
Assembled(blocks, a, m) ==
  /\ a.content = Spoken(blocks, m, "text")
  /\ a.reasoning = Spoken(blocks, m, "thinking")
  /\ a.calls = Held(blocks, m)

Gathered(r, t, a) == Shaped(r, t, a) /\ Tabled(r.blocks, t.tools) /\ Reported(r, t, a)

\* ... which is the one to come, or the last reply that came.
Returned == {i \in DOMAIN payload : payload[i].role = "assistant"}
LastReturned(m) ==
  Returned # {} =>
    /\ m \in Returned /\ \A i \in Returned : i <= m
    /\ ~ContentRefused(payload[m].content) /\ payload[m].calls = Calls(reply.blocks, m)
Numbered(m) == IF phase = "writing" THEN LastReturned(m) ELSE m = Len(payload) + 1

IInv ==
  /\ Appended /\ Gathered(reply, translator, accumulator)
  /\ \E m \in Nat : Assembled(reply.blocks, accumulator, m) /\ Numbered(m)

\* No blocks: nothing is said and nothing called.
LEMMA NoBlocks ==
  ASSUME NEW m, NEW type
  PROVE  At(<<>>, type) = {} /\ Spoken(<<>>, m, type) = <<>> /\ Held(<<>>, m) = <<>>
<1>1. \A t : At(<<>>, t) = {}
  BY DEF At
<1>2. \A t : Places(<<>>, t) = <<>>
  BY <1>1, AscendingEmpty DEF Places
<1>3. Pieces(<<>>, <<>>, m) = <<>>
  BY DEF Pieces
<1>4. Spoken(<<>>, m, type) = <<>>
  BY <1>2, <1>3, FlattenEmpty DEF Spoken
<1>5. Len(<<>>) = 0
  BY EmptySeq
<1>6. 0 .. 0 - 1 = {}
  OBVIOUS
<1>7. Held(<<>>, m) = <<>>
  BY <1>2, <1>5, <1>6 DEF Held
<1> QED BY <1>1, <1>4, <1>7

\* What holds of a reply that has not begun.
LEMMA FreshReply ==
  /\ Gathered(NoReply, NewTranslator, NewAccumulator) /\ NoReply.blocks = <<>>
  /\ \A m \in Nat : Assembled(NoReply.blocks, NewAccumulator, m)
<1>1. PICK r : r = NoReply
  OBVIOUS
<1>2. PICK t : t = NewTranslator
  OBVIOUS
<1>3. PICK a : a = NewAccumulator
  OBVIOUS
<1>4. /\ r = [started |-> r.started, input |-> r.input, blocks |-> r.blocks,
                  reason |-> r.reason, output |-> r.output, error |-> r.error]
      /\ r.input = Null /\ r.output = Null /\ r.reason = Null /\ r.blocks = <<>>
  BY <1>1 DEF NoReply
<1>5. t.input = Null /\ t.tools = <<>> /\ t = [input |-> t.input, tools |-> t.tools]
  BY <1>2 DEF NewTranslator
<1>6. /\ a.content = <<>> /\ a.reasoning = <<>> /\ a.calls = <<>> /\ a.finish = Null
      /\ a.prompt = Null /\ a.completion = Null /\ a.total = Null
  BY <1>3 DEF NewAccumulator
<1>7. Shaped(r, t, a)
  BY <1>4, <1>5, <1>6, EmptySeq, BoundsAssumption DEF Shaped
<1>8. Tabled(r.blocks, t.tools)
  <2>1. At(<<>>, "tool") = {}
    BY NoBlocks
  <2>2. DOMAIN t.tools = {}
    BY <1>5
  <2>3. {i - 1 : i \in {}} = {}
    OBVIOUS
  <2> QED BY <1>4, <2>1, <2>2, <2>3 DEF Tabled
<1>9. Reported(r, t, a)
  BY <1>4, <1>5, <1>6 DEF Reported
<1>10. \A m \in Nat : Assembled(r.blocks, a, m)
  BY <1>4, <1>6, NoBlocks DEF Assembled
<1> QED BY <1>1, <1>2, <1>3, <1>4, <1>7, <1>8, <1>9, <1>10 DEF Gathered

\* The invariant holds at first, ...
LEMMA InitIInv == Init => IInv
<1> SUFFICES ASSUME Init PROVE IInv
  OBVIOUS
<1>1. reply = NoReply /\ translator = NewTranslator /\ accumulator = NewAccumulator
      /\ payload = <<>> /\ maxTokens = 0 /\ phase = "writing"
  BY DEF Init
<1>2. Appended
  BY <1>1, EmptySeq, BoundsAssumption DEF Appended
<1>3. Numbered(0)
  <2>1. Returned = {}
    BY <1>1 DEF Returned
  <2> QED BY <1>1, <2>1 DEF Numbered, LastReturned
<1>4. 0 \in Nat
  OBVIOUS
<1> QED BY <1>1, <1>2, <1>3, <1>4, FreshReply DEF IInv

\* A call that is made begins a reply.
LEMMA AskIInv ==
  ASSUME IInv, NEW tokens \in MaxTokens, Ask(tokens)
  PROVE  IInv'
<1>1. reply' = NoReply /\ translator' = NewTranslator /\ accumulator' = NewAccumulator
      /\ payload' = payload /\ maxTokens' = tokens /\ phase' = "replying"
  BY DEF Ask
<1>2. Appended' /\ Len(payload) + 1 \in Nat
  BY <1>1, LenProperties DEF IInv, Appended
<1>3. Numbered(Len(payload) + 1)'
  BY <1>1 DEF Numbered
<1>4. \E m \in Nat : Assembled(NoReply.blocks, NewAccumulator, m) /\ Numbered(m)'
  BY <1>2, <1>3, FreshReply
<1>5. Gathered(reply, translator, accumulator)'
  BY <1>1, FreshReply
<1>6. (\E m \in Nat : Assembled(reply.blocks, accumulator, m) /\ Numbered(m))'
  BY <1>1, <1>4
<1> QED BY <1>2, <1>5, <1>6 DEF IInv

\* What the client writes is a message, and no reply, ...
LEMMA WriteAdds ==
  ASSUME IInv, NEW said \in Said, Write(said)
  PROVE  \E message \in Messages :
           /\ payload' = Append(payload, message) /\ message.role # "assistant"
           /\ Fine(message) /\ (message.role = "tool" => message.answers \in Ids(payload))
<1>1. PICK answers \in IF said.role = "tool" THEN SentIds ELSE {Null} :
        payload' = Append(payload,
         [role |-> said.role, answers |-> answers, calls |-> <<>>,
          content |-> [k \in DOMAIN said.types |->
            [type |-> said.types[k],
             text |-> IF said.types[k] \in {"text", "image"}
                        THEN <<<<Len(payload) + 1, 0, k>>>> ELSE <<>>]]])
  BY DEF Write
<1>3. payload \in Seq(Messages) /\ Len(payload) \in Nat
  BY LenProperties DEF IInv, Appended
<1> DEFINE text(k) == IF said.types[k] \in {"text", "image"} THEN <<<<Len(payload) + 1, 0, k>>>> ELSE <<>>
           content == [k \in DOMAIN said.types |-> [type |-> said.types[k], text |-> text(k)]]
           message == [role |-> said.role, answers |-> answers, calls |-> <<>>, content |-> content]
<1>4. answers \in (Nat \X Nat) \cup {Null}
  <2>1. ASSUME NEW id \in SentIds PROVE id \in Nat \X Nat
    <3> DEFINE each == [i \in DOMAIN payload |-> payload[i].calls]
    <3>1. \A i \in 1 .. Len(payload) : payload[i] \in Messages
      BY <1>3, ElementOfSeq
    <3>2. DOMAIN payload = 1 .. Len(payload)
      BY <1>3, LenProperties
    <3>3. \A i \in 1 .. Len(payload) : payload[i].calls \in Seq(CallRecords)
      BY <3>1 DEF Messages
    <3>4. each \in [1 .. Len(payload) -> Seq(CallRecords)]
      BY <3>2, <3>3
    <3>5. each \in Seq(Seq(CallRecords))
      <4> HIDE DEF each
      <4> QED BY <1>3, <3>4
    <3>6. SentCalls(payload) \in Seq(CallRecords)
      BY <3>5, FlattenType DEF SentCalls
    <3>7. PICK i \in DOMAIN SentCalls(payload) : id = SentCalls(payload)[i].id
      BY DEF SentIds
    <3>8. SentCalls(payload)[i] \in CallRecords
      BY <3>6, <3>7, LenProperties, ElementOfSeq
    <3> QED BY <3>7, <3>8 DEF CallRecords
  <2>2. CASE said.role = "tool"
    BY <2>1, <2>2
  <2>3. CASE said.role # "tool"
    BY <2>3
  <2> QED BY <2>2, <2>3
<1>5. content \in Seq(Parts)
  <2>1. said.types \in Seq(PartTypes)
    BY SaidAssumption
  <2>2. DOMAIN said.types = 1 .. Len(said.types) /\ Len(said.types) \in Nat
    BY <2>1, LenProperties
  <2>3. ASSUME NEW k \in 1 .. Len(said.types)
        PROVE  [type |-> said.types[k], text |-> text(k)] \in Parts
    <3>1. said.types[k] \in PartTypes
      BY <2>1, ElementOfSeq
    <3>2. text(k) \in Seq(Fragment)
      <4>1. PICK f : f = <<Len(payload) + 1, 0, k>>
        OBVIOUS
      <4>2. f \in Fragment
        BY <1>3, <2>2, <4>1 DEF Fragment
      <4>3. <<f>> \in Seq(Fragment) /\ <<>> \in Seq(Fragment)
        BY <4>2, EmptySeq
      <4> QED BY <4>1, <4>3
    <3> HIDE DEF text
    <3> QED BY <3>1, <3>2 DEF Parts
  <2>4. content \in [1 .. Len(said.types) -> Parts]
    <3> HIDE DEF text
    <3> QED BY <2>2, <2>3
  <2> HIDE DEF content
  <2> QED BY <2>2, <2>4
<1>6. said.role \in Roles \ {"assistant"}
  BY SaidAssumption
<1>7. message \in Messages
  <2>1. <<>> \in Seq(CallRecords)
    BY EmptySeq
  <2> HIDE DEF content
  <2> QED BY <1>4, <1>5, <1>6, <2>1 DEF Messages
<1>8. /\ message.role = said.role /\ message.calls = <<>> /\ message.content = content
      /\ message.answers = answers
  <2> HIDE DEF content
  <2> QED OBVIOUS
<1>9. ASSUME NEW k \in DOMAIN content PROVE content[k].text # NoneText
  <2>1. content[k].text = text(k)
    <3> HIDE DEF text
    <3> QED OBVIOUS
  <2>2. text(k) # NoneText
    <3>1. CASE said.types[k] \in {"text", "image"}
      <4>1. PICK n : n = Len(payload) + 1
        OBVIOUS
      <4>2. n # 0
        BY <1>3, <4>1
      <4>3. <<<<n, 0, k>>>>[1][1] = n /\ <<<<0, 0, 0>>>>[1][1] = 0
        OBVIOUS
      <4> QED BY <3>1, <4>1, <4>2, <4>3 DEF NoneText
    <3>2. CASE said.types[k] \notin {"text", "image"}
      <4>1. <<>> # <<<<0, 0, 0>>>>
        <5>1. Len(<<>>) = 0 /\ Len(<<<<0, 0, 0>>>>) = 1
          OBVIOUS
        <5> QED BY <5>1
      <4> QED BY <3>2, <4>1 DEF NoneText
    <3> QED BY <3>1, <3>2
  <2> QED BY <2>1, <2>2
<1>10. content # Null
  <2> HIDE DEF content
  <2> QED BY <1>5, NullAssumption
<1>11. Fine(message)
  <2> HIDE DEF content, message
  <2> QED BY <1>8, <1>9, <1>10 DEF Fine
<1>12. message.role = "tool" => message.answers \in Ids(payload)
  <2>1. said.role = "tool" => answers \in SentIds
    OBVIOUS
  <2> HIDE DEF content, message
  <2> QED BY <1>8, <2>1 DEF SentIds, Ids
<1> HIDE DEF message
<1>13. payload' = Append(payload, message)
  BY <1>1 DEF message
<1> QED BY <1>6, <1>7, <1>8, <1>11, <1>12, <1>13

\* ... and leaves the reply as it is.
LEMMA WriteIInv ==
  ASSUME IInv, NEW said \in Said, Write(said)
  PROVE  IInv'
<1>1. PICK message \in Messages : payload' = Append(payload, message) /\ message.role # "assistant"
  BY WriteAdds
<1>2. UNCHANGED <<maxTokens, phase, reply, translator, accumulator>> /\ phase = "writing"
      /\ Len(payload) < MaxMessages
  BY DEF Write, exchange, Room
<1>3. payload \in Seq(Messages) /\ Len(payload) \in Nat
  BY LenProperties DEF IInv, Appended
<1>8. /\ payload' \in Seq(Messages) /\ Len(payload') = Len(payload) + 1
      /\ DOMAIN payload' = 1 .. Len(payload) + 1 /\ DOMAIN payload = 1 .. Len(payload)
      /\ payload'[Len(payload) + 1] = message
      /\ \A i \in 1 .. Len(payload) : payload'[i] = payload[i]
  BY <1>1, <1>3, AppendProperties, LenProperties
<1>9. Appended'
  BY <1>2, <1>3, <1>8, BoundsAssumption DEF IInv, Appended
<1>10. Returned' = Returned
  <2>1. \A i : i \in 1 .. Len(payload) + 1 <=> i \in 1 .. Len(payload) \/ i = Len(payload) + 1
    BY <1>3
  <2> QED BY <1>1, <1>8, <2>1 DEF Returned
<1>11. ASSUME NEW m \in Nat, Numbered(m) PROVE Numbered(m)'
  <2>1. LastReturned(m) /\ \A i \in Returned : i \in 1 .. Len(payload)
    BY <1>2, <1>8, <1>11 DEF Numbered, Returned
  <2>2. LastReturned(m)'
    BY <1>2, <1>8, <1>10, <2>1 DEF LastReturned
  <2> QED BY <1>2, <2>2 DEF Numbered
<1>12. (\E m \in Nat : Assembled(reply.blocks, accumulator, m) /\ Numbered(m))'
  BY <1>2, <1>11 DEF IInv
<1>13. Gathered(reply, translator, accumulator)'
  BY <1>2 DEF IInv
<1> QED BY <1>9, <1>12, <1>13 DEF IInv

\* While a reply comes, the accumulator has what its blocks say so far, ...
LEMMA Replying ==
  ASSUME IInv, phase # "writing"
  PROVE  Len(payload) + 1 \in Nat /\ Assembled(reply.blocks, accumulator, Len(payload) + 1)
<1>1. Len(payload) \in Nat
  BY LenProperties DEF IInv, Appended
<1> QED BY <1>1 DEF IInv, Numbered

\* ... and a step has to keep that, and what is known of the reply.
LEMMA Continues ==
  ASSUME IInv, phase # "writing", UNCHANGED <<payload, maxTokens, phase>>,
         Gathered(reply, translator, accumulator)',
         Assembled(reply.blocks, accumulator, Len(payload) + 1)'
  PROVE  IInv'
<1>1. Appended'
  BY DEF IInv, Appended
<1>2. Len(payload) + 1 \in Nat
  BY Replying
<1>3. Numbered(Len(payload) + 1)'
  BY DEF Numbered
<1>4. \E m \in Nat : (Assembled(reply.blocks, accumulator, m) /\ Numbered(m))'
  BY <1>2, <1>3
<1> QED BY <1>1, <1>4 DEF IInv

\* The first event brings the count of the prompt.
LEMMA StartMessageIInv ==
  ASSUME IInv, NEW input \in Counts \cup {Null}, StartMessage(input)
  PROVE  IInv'
<1>1. /\ phase = "replying" /\ ~reply.started
      /\ reply' = [reply EXCEPT !.started = TRUE, !.input = input]
      /\ Receive([type |-> "message_start", input |-> input])
  BY DEF StartMessage
<1>2. /\ translator' = [translator EXCEPT !.input = input]
      /\ Gathers(accumulator.content, accumulator.reasoning, accumulator.calls,
                 accumulator.finish, Known(input, accumulator.prompt),
                 accumulator.completion, accumulator.total)
  BY <1>1, StartGathers
<1>3. UNCHANGED <<payload, maxTokens, phase>>
  BY <1>1 DEF Receive
<1>4. Shaped(reply, translator, accumulator) /\ Tabled(reply.blocks, translator.tools)
      /\ Reported(reply, translator, accumulator)
  BY DEF IInv, Gathered
<1>5. /\ reply'.started = TRUE /\ reply'.input = input /\ reply'.blocks = reply.blocks
      /\ reply'.reason = reply.reason /\ reply'.output = reply.output
      /\ reply' = [started |-> reply'.started, input |-> reply'.input, blocks |-> reply'.blocks,
                   reason |-> reply'.reason, output |-> reply'.output, error |-> reply'.error]
  BY <1>1, <1>4 DEF Shaped
<1>6. /\ translator'.input = input /\ translator'.tools = translator.tools
      /\ translator' = [input |-> translator'.input, tools |-> translator'.tools]
  BY <1>2, <1>4 DEF Shaped
<1>7. reply.input = Null /\ reply.reason = Null
  BY <1>1, <1>4 DEF Reported
<1>8. Shaped(reply, translator, accumulator)'
  BY <1>2, <1>4, <1>5, <1>6 DEF Shaped, Gathers
<1>9. Tabled(reply.blocks, translator.tools)'
  BY <1>4, <1>5, <1>6 DEF Tabled
<1>10. Reported(reply, translator, accumulator)'
  <2>1. Known(input, accumulator.prompt) = input
    BY <1>4, <1>7 DEF Reported, Known
  <2> QED BY <1>2, <1>4, <1>5, <1>6, <1>7, <2>1 DEF Reported, Gathers
<1>11. Assembled(reply.blocks, accumulator, Len(payload) + 1)'
  <2>1. Assembled(reply.blocks, accumulator, Len(payload) + 1)
    BY <1>1, Replying
  <2> QED BY <1>2, <1>3, <1>5, <2>1 DEF Assembled, Gathers
<1> QED BY <1>1, <1>3, <1>8, <1>9, <1>10, <1>11, Continues DEF Gathered

\* The last event brings the rest.
LEMMA StopMessageIInv ==
  ASSUME IInv, NEW reason \in Reasons, NEW output \in Counts \cup {Null}, StopMessage(reason, output)
  PROVE  IInv'
<1>1. /\ phase = "replying" /\ reply.started /\ reply.reason = Null
      /\ reply' = [reply EXCEPT !.reason = reason, !.output = output]
      /\ Receive([type |-> "message_delta", reason |-> reason, output |-> output])
  BY DEF StopMessage, Sending
<1>2. /\ translator' = translator
      /\ Gathers(accumulator.content, accumulator.reasoning, accumulator.calls,
                 Known(FinishReason(reason), accumulator.finish),
                 Known(translator.input, accumulator.prompt),
                 Known(output, accumulator.completion),
                 Known(Total(translator.input, output), accumulator.total))
  BY <1>1, StopGathers
<1>3. UNCHANGED <<payload, maxTokens, phase>>
  BY <1>1 DEF Receive
<1>4. Shaped(reply, translator, accumulator) /\ Tabled(reply.blocks, translator.tools)
      /\ Reported(reply, translator, accumulator)
  BY DEF IInv, Gathered
<1>5. /\ reply'.started = reply.started /\ reply'.input = reply.input /\ reply'.blocks = reply.blocks
      /\ reply'.reason = reason /\ reply'.output = output
      /\ reply' = [started |-> reply'.started, input |-> reply'.input, blocks |-> reply'.blocks,
                   reason |-> reply'.reason, output |-> reply'.output, error |-> reply'.error]
  BY <1>1, <1>4 DEF Shaped
<1>6. FinishReason(reason) \in Finishes
  <2>1. /\ FinishReason("end_turn") = "stop" /\ FinishReason("max_tokens") = "length"
        /\ FinishReason("tool_use") = "tool_calls" /\ FinishReason("refusal") = "refusal"
    BY Zenon DEF FinishReason
  <2> QED BY <2>1 DEF Reasons, Finishes
<1>7. reason # Null /\ FinishReason(reason) # Null
  BY <1>6, NullAssumption
<1>8. Shaped(reply, translator, accumulator)'
  BY <1>2, <1>4, <1>5 DEF Shaped, Gathers
<1>9. Tabled(reply.blocks, translator.tools)'
  BY <1>2, <1>4, <1>5 DEF Tabled
<1>10. Reported(reply, translator, accumulator)'
  <2>1. accumulator.finish = Null /\ accumulator.total = Null /\ reply.output = Null
        /\ translator.input = reply.input /\ accumulator.prompt = reply.input
        /\ accumulator.completion = reply.output
    BY <1>1, <1>4 DEF Reported
  <2>2. /\ Known(FinishReason(reason), accumulator.finish) = FinishReason(reason)
        /\ Known(translator.input, accumulator.prompt) = reply.input
        /\ Known(output, accumulator.completion) = output
        /\ Known(Total(translator.input, output), accumulator.total) = Total(reply.input, output)
    BY <2>1 DEF Known
  <2> QED BY <1>1, <1>2, <1>5, <1>7, <2>1, <2>2 DEF Reported, Gathers
<1>11. Assembled(reply.blocks, accumulator, Len(payload) + 1)'
  <2>1. Assembled(reply.blocks, accumulator, Len(payload) + 1)
    BY <1>1, Replying
  <2> QED BY <1>2, <1>3, <1>5, <2>1 DEF Assembled, Gathers
<1> QED BY <1>1, <1>3, <1>8, <1>9, <1>10, <1>11, Continues DEF Gathered

\* An error changes neither.
LEMMA FailIInv ==
  ASSUME IInv, Fail
  PROVE  IInv'
<1>1. /\ phase = "replying" /\ reply' = [reply EXCEPT !.error = TRUE]
      /\ Receive([type |-> "error"])
  BY DEF Fail, Sending
<1>2. /\ translator' = translator
      /\ Gathers(accumulator.content, accumulator.reasoning, accumulator.calls,
                 accumulator.finish, accumulator.prompt,
                 accumulator.completion, accumulator.total)
  BY <1>1, ErrorGathers
<1>3. UNCHANGED <<payload, maxTokens, phase>>
  BY <1>1 DEF Receive
<1>4. Shaped(reply, translator, accumulator) /\ Tabled(reply.blocks, translator.tools)
      /\ Reported(reply, translator, accumulator)
  BY DEF IInv, Gathered
<1>5. /\ reply'.started = reply.started /\ reply'.input = reply.input /\ reply'.blocks = reply.blocks
      /\ reply'.reason = reply.reason /\ reply'.output = reply.output
      /\ reply' = [started |-> reply'.started, input |-> reply'.input, blocks |-> reply'.blocks,
                   reason |-> reply'.reason, output |-> reply'.output, error |-> reply'.error]
  BY <1>1, <1>4 DEF Shaped
<1>6. Shaped(reply, translator, accumulator)'
  BY <1>2, <1>4, <1>5 DEF Shaped, Gathers
<1>7. Tabled(reply.blocks, translator.tools)'
  BY <1>2, <1>4, <1>5 DEF Tabled
<1>8. Reported(reply, translator, accumulator)'
  BY <1>2, <1>4, <1>5 DEF Reported, Gathers
<1>9. Assembled(reply.blocks, accumulator, Len(payload) + 1)'
  <2>1. Assembled(reply.blocks, accumulator, Len(payload) + 1)
    BY <1>1, Replying
  <2> QED BY <1>2, <1>3, <1>5, <2>1 DEF Assembled, Gathers
<1> QED BY <1>1, <1>3, <1>6, <1>7, <1>8, <1>9, Continues DEF Gathered

\* A stream that breaks leaves all as it is.
LEMMA InterruptIInv ==
  ASSUME IInv, Interrupt
  PROVE  IInv'
<1>1. /\ phase = "replying" /\ phase' = "interrupted"
      /\ UNCHANGED <<payload, maxTokens, reply, translator, accumulator>>
  BY DEF Interrupt, exchange
<1>2. Appended'
  BY <1>1 DEF IInv, Appended
<1>3. Gathered(reply, translator, accumulator)'
  BY <1>1 DEF IInv
<1>4. Len(payload) + 1 \in Nat /\ Assembled(reply.blocks, accumulator, Len(payload) + 1)
  BY <1>1, Replying
<1>5. Numbered(Len(payload) + 1)'
  BY <1>1 DEF Numbered
<1>6. (\E m \in Nat : Assembled(reply.blocks, accumulator, m) /\ Numbered(m))'
  BY <1>1, <1>4, <1>5
<1> QED BY <1>2, <1>3, <1>6 DEF IInv

\* A block that begins says nothing yet, and is the next call if it is one.
LEMMA StartBlockIInv ==
  ASSUME IInv, NEW type \in Kinds, StartBlock(type)
  PROVE  IInv'
<1>1. PICK n : n = Len(reply.blocks)
  OBVIOUS
<1>2. PICK m : m = Len(payload) + 1
  OBVIOUS
<1>3. PICK id : id = <<m, n + 1>>
  OBVIOUS
<1>4. PICK b : b = [type |-> type, parts |-> 0]
  OBVIOUS
<1>5. /\ phase = "replying" /\ n < MaxBlocks
      /\ reply' = [reply EXCEPT !.blocks = Append(@, b)]
      /\ Receive([type |-> "content_block_start", block |-> type, index |-> n, id |-> id])
  BY <1>1, <1>2, <1>3, <1>4 DEF StartBlock, Sending, CallId
<1>6. UNCHANGED <<payload, maxTokens, phase>>
  BY <1>5 DEF Receive
<1>7. Shaped(reply, translator, accumulator) /\ Tabled(reply.blocks, translator.tools)
      /\ Reported(reply, translator, accumulator)
  BY DEF IInv, Gathered
<1>8. m \in Nat /\ Assembled(reply.blocks, accumulator, m)
  BY <1>2, <1>5, Replying
<1>9. b \in Sent /\ b.type = type /\ b.parts = 0
  BY <1>4 DEF Sent
<1>10. PICK blocks : blocks = reply.blocks
  OBVIOUS
<1>11. blocks \in Seq(Sent) /\ n \in Nat /\ n = Len(blocks)
  BY <1>1, <1>7, <1>10, LenProperties DEF Shaped
<1>12. PICK more : more = Append(blocks, b)
  OBVIOUS
<1>13. more \in Seq(Sent) /\ Len(more) = n + 1 /\ more[n + 1] = b /\ more # <<>>
  <2>1. more \in Seq(Sent) /\ Len(more) = n + 1 /\ more[n + 1] = b
    BY <1>9, <1>11, <1>12, AppendProperties
  <2>2. Len(<<>>) = 0
    BY EmptySeq
  <2> QED BY <1>11, <2>1, <2>2
<1>14. /\ reply'.started = reply.started /\ reply'.input = reply.input /\ reply'.blocks = more
       /\ reply'.reason = reply.reason /\ reply'.output = reply.output
       /\ reply' = [started |-> reply'.started, input |-> reply'.input, blocks |-> reply'.blocks,
                    reason |-> reply'.reason, output |-> reply'.output, error |-> reply'.error]
  BY <1>5, <1>7, <1>10, <1>12 DEF Shaped
<1>15. \A t : Spoken(more, m, t) = Spoken(blocks, m, t)
  <2>1. ASSUME NEW t PROVE Spoken(more, m, t) = Spoken(blocks, m, t)
    <3>1. Spoken(more, m, t) = IF type = t THEN Spoken(blocks, m, t) \o <<>> ELSE Spoken(blocks, m, t)
      <4>1. Piece(m, n + 1, b.parts) = <<>>
        BY <1>9, PieceEmpty
      <4>2. Spoken(Append(blocks, b), m, t) =
              IF b.type = t THEN Spoken(blocks, m, t) \o Piece(m, Len(blocks) + 1, b.parts)
              ELSE Spoken(blocks, m, t)
        BY <1>8, <1>9, <1>11, SpokenAppend, SMTT(30)
      <4> QED BY <1>9, <1>11, <1>12, <4>1, <4>2
    <3>2. Spoken(blocks, m, t) \in Seq(Fragment)
      BY <1>8, <1>11, SpokenType
    <3>3. Spoken(blocks, m, t) \o <<>> = Spoken(blocks, m, t)
      BY <3>2, ConcatEmptySeq
    <3> QED BY <3>1, <3>3
  <2> QED BY <2>1
<1>16. At(more, "tool") = IF type = "tool" THEN At(blocks, "tool") \cup {n + 1} ELSE At(blocks, "tool")
  BY <1>9, <1>11, <1>12, AtAppend
<1>17. PICK tools : tools = translator.tools
  OBVIOUS
<1>18. DOMAIN tools = {i - 1 : i \in At(blocks, "tool")}
       /\ Cardinality(DOMAIN tools) = Cardinality(At(blocks, "tool"))
  BY <1>7, <1>10, <1>17 DEF Tabled
<1>19. At(blocks, "tool") \in SUBSET (1 .. n) /\ Cardinality(At(blocks, "tool")) \in Nat
       /\ Len(Places(blocks, "tool")) = Cardinality(At(blocks, "tool"))
  BY <1>11, PlacesType
<1>20. CASE type = "tool"
  <2>1. PICK k : k = NextCall(translator)
    OBVIOUS
  <2>2. k = Cardinality(At(blocks, "tool")) /\ k \in Nat /\ k = Len(Places(blocks, "tool"))
    BY <1>17, <1>18, <1>19, <2>1 DEF NextCall
  <2>3. PICK new : new = [i \in DOMAIN tools \cup {n} |-> IF i = n THEN k ELSE tools[i]]
    OBVIOUS
  <2>4. /\ translator' = [translator EXCEPT !.tools = new]
        /\ Gathers(accumulator.content, accumulator.reasoning,
                   Joined(accumulator.calls, [index |-> k, id |-> id, arguments |-> <<>>]),
                   accumulator.finish, accumulator.prompt,
                   accumulator.completion, accumulator.total)
    <3>1. /\ translator' = [translator EXCEPT !.tools =
                [i \in DOMAIN translator.tools \cup {n} |->
                   IF i = n THEN NextCall(translator) ELSE translator.tools[i]]]
          /\ Gathers(accumulator.content, accumulator.reasoning,
               Joined(accumulator.calls,
                      [index |-> NextCall(translator), id |-> id, arguments |-> <<>>]),
               accumulator.finish, accumulator.prompt, accumulator.completion, accumulator.total)
      BY <1>5, <1>20, BlockGathers, Zenon
    <3> QED BY <1>17, <2>1, <2>3, <3>1
  <2>5. /\ translator'.input = translator.input /\ translator'.tools = new
        /\ translator' = [input |-> translator'.input, tools |-> translator'.tools]
    BY <1>7, <2>4 DEF Shaped
  <2>6. Shaped(reply, translator, accumulator)'
    BY <1>5, <1>7, <1>11, <1>13, <1>14, <2>4, <2>5, BoundsAssumption DEF Shaped, Gathers
  <2>7. Tabled(more, new)
    <3>1. n \notin DOMAIN tools /\ IsFiniteSet(DOMAIN tools)
      <4>1. \A i \in DOMAIN tools : i \in 0 .. n - 1
        BY <1>11, <1>18, <1>19
      <4>2. 0 \in Int /\ n - 1 \in Int /\ n \notin 0 .. n - 1
        BY <1>11
      <4>3. IsFiniteSet(0 .. n - 1)
        BY <4>2, FS_Interval
      <4> QED BY <4>1, <4>2, <4>3, FS_Subset
    <3>2. DOMAIN new = DOMAIN tools \cup {n} /\ new[n] = k
      BY <2>3
    <3>3. Cardinality(DOMAIN new) = k + 1
      BY <1>18, <2>2, <3>1, <3>2, FS_AddElement
    <3>4. Cardinality(At(more, "tool")) = k + 1
      <4>1. n + 1 \notin At(blocks, "tool")
        BY <1>11, <1>19
      <4>2. IsFiniteSet(At(blocks, "tool"))
        BY <1>11, <1>19, AllRanked
      <4> QED BY <1>16, <1>20, <2>2, <4>1, <4>2, FS_AddElement
    <3>5. DOMAIN new = {i - 1 : i \in At(more, "tool")}
      <4>1. (n + 1) - 1 = n
        BY <1>11
      <4>2. {i - 1 : i \in At(blocks, "tool") \cup {n + 1}} = {i - 1 : i \in At(blocks, "tool")} \cup {n}
        BY <4>1
      <4> QED BY <1>16, <1>18, <1>20, <3>2, <4>2
    <3>6. new[Len(more) - 1] = Cardinality(At(more, "tool")) - 1
      <4>1. Len(more) - 1 = n /\ (k + 1) - 1 = k
        BY <1>11, <1>13, <2>2
      <4> QED BY <3>2, <3>4, <4>1
    <3> QED BY <3>3, <3>4, <3>5, <3>6 DEF Tabled
  <2>8. Tabled(reply.blocks, translator.tools)'
    BY <1>14, <2>5, <2>7
  <2>9. Reported(reply, translator, accumulator)'
    BY <1>7, <1>14, <2>4, <2>5 DEF Reported, Gathers
  <2>10. Held(more, m) = Joined(Held(blocks, m), [index |-> k, id |-> id, arguments |-> <<>>])
    BY <1>3, <1>8, <1>9, <1>11, <1>12, <1>20, <2>2, HeldOpens
  <2>11. Assembled(more, accumulator', m)
    BY <1>8, <1>10, <1>15, <2>4, <2>10 DEF Assembled, Gathers
  <2>12. Assembled(reply.blocks, accumulator, Len(payload) + 1)'
    BY <1>2, <1>6, <1>14, <2>11
  <2> QED BY <1>5, <1>6, <2>6, <2>8, <2>9, <2>12, Continues DEF Gathered
<1>21. CASE type # "tool"
  <2>1. /\ translator' = translator
        /\ Gathers(accumulator.content, accumulator.reasoning, accumulator.calls,
                   accumulator.finish, accumulator.prompt,
                   accumulator.completion, accumulator.total)
    BY <1>5, <1>21, BlockGathers
  <2>2. Shaped(reply, translator, accumulator)'
    BY <1>5, <1>7, <1>11, <1>13, <1>14, <2>1, BoundsAssumption DEF Shaped, Gathers
  <2>3. Tabled(more, tools)
    BY <1>9, <1>13, <1>16, <1>18, <1>21 DEF Tabled
  <2>4. Tabled(reply.blocks, translator.tools)'
    BY <1>14, <1>17, <2>1, <2>3
  <2>5. Reported(reply, translator, accumulator)'
    BY <1>7, <1>14, <2>1 DEF Reported, Gathers
  <2>6. Held(more, m) = Held(blocks, m)
    BY <1>9, <1>11, <1>12, <1>21, HeldSkips
  <2>7. Assembled(more, accumulator', m)
    BY <1>8, <1>10, <1>15, <2>1, <2>6 DEF Assembled, Gathers
  <2>8. Assembled(reply.blocks, accumulator, Len(payload) + 1)'
    BY <1>2, <1>6, <1>14, <2>7
  <2> QED BY <1>5, <1>6, <2>2, <2>4, <2>5, <2>8, Continues DEF Gathered
<1> QED BY <1>20, <1>21

\* A sequence that is not empty is what is before its last element, and that.
LEMMA LastBlock ==
  ASSUME NEW blocks \in Seq(Sent), NEW n \in Nat, n = Len(blocks), n > 0
  PROVE  \E front \in Seq(Sent) :
           /\ Len(front) = n - 1
           /\ blocks = Append(front, blocks[n])
           /\ \A c \in Sent : [blocks EXCEPT ![n] = c] = Append(front, c)
<1> DEFINE front == [i \in 1 .. n - 1 |-> blocks[i]]
<1>1. n - 1 \in Nat /\ n \in 1 .. n /\ \A i \in 1 .. n : i = n \/ i \in 1 .. n - 1
  OBVIOUS
<1>2. \A i \in 1 .. n : blocks[i] \in Sent
  BY ElementOfSeq
<1>3. front \in [1 .. n - 1 -> Sent] /\ \A i \in 1 .. n - 1 : front[i] = blocks[i]
  BY <1>2
<1> HIDE DEF front
<1>4. front \in Seq(Sent) /\ Len(front) = n - 1
  BY <1>1, <1>3
<1>5. ASSUME NEW c \in Sent
      PROVE  [blocks EXCEPT ![n] = c] = Append(front, c)
  <2>1. /\ Append(front, c) \in Seq(Sent) /\ Len(Append(front, c)) = n
        /\ Append(front, c)[n] = c
        /\ \A i \in 1 .. n - 1 : Append(front, c)[i] = blocks[i]
    <3>1. (n - 1) + 1 = n
      OBVIOUS
    <3> QED BY <1>3, <1>4, <3>1, AppendProperties
  <2>2. PICK e : e = [blocks EXCEPT ![n] = c]
    OBVIOUS
  <2>3. e \in Seq(Sent) /\ Len(e) = n /\ \A j \in 1 .. n : e[j] = IF j = n THEN c ELSE blocks[j]
    BY <1>1, <2>2, ExceptSeq
  <2>4. \A j \in 1 .. n : e[j] = Append(front, c)[j]
    BY <1>1, <2>1, <2>3
  <2> QED BY <2>1, <2>2, <2>3, <2>4, SeqEqual
<1>6. [blocks EXCEPT ![n] = blocks[n]] = blocks
  <2>1. PICK e : e = [blocks EXCEPT ![n] = blocks[n]]
    OBVIOUS
  <2>2. e \in Seq(Sent) /\ Len(e) = n /\ \A j \in 1 .. n : e[j] = blocks[j]
    BY <1>1, <1>2, <2>1, ExceptSeq
  <2> QED BY <2>1, <2>2, SeqEqual
<1>7. blocks = Append(front, blocks[n])
  BY <1>1, <1>2, <1>5, <1>6
<1> QED BY <1>4, <1>5, <1>7

\* A fragment goes to the end of its block, the last.
LEMMA SendFragmentIInv ==
  ASSUME IInv, SendFragment
  PROVE  IInv'
<1>1. PICK n : n = Len(reply.blocks)
  OBVIOUS
<1>2. PICK m : m = Len(payload) + 1
  OBVIOUS
<1>3. PICK blocks : blocks = reply.blocks
  OBVIOUS
<1>4. PICK b : b = blocks[n]
  OBVIOUS
<1>5. PICK part : part = <<m, n, b.parts + 1>>
  OBVIOUS
<1>6. /\ phase = "replying" /\ n > 0 /\ b.parts < MaxParts
      /\ reply' = [reply EXCEPT !.blocks[n].parts = @ + 1]
      /\ Receive([type |-> DeltaOf[b.type], index |-> n - 1, part |-> part])
  BY <1>1, <1>2, <1>3, <1>4, <1>5 DEF SendFragment, Sending
<1>7. UNCHANGED <<payload, maxTokens, phase>>
  BY <1>6 DEF Receive
<1>8. Shaped(reply, translator, accumulator) /\ Tabled(blocks, translator.tools)
      /\ Reported(reply, translator, accumulator)
  BY <1>3 DEF IInv, Gathered
<1>9. m \in Nat /\ Assembled(blocks, accumulator, m)
  BY <1>2, <1>3, <1>6, Replying
<1>10. blocks \in Seq(Sent) /\ n \in Nat /\ n = Len(blocks) /\ n \in 1 .. n /\ DOMAIN blocks = 1 .. n
  <2>1. blocks \in Seq(Sent) /\ n = Len(blocks)
    BY <1>1, <1>3, <1>8 DEF Shaped
  <2>2. n \in Nat /\ DOMAIN blocks = 1 .. n
    BY <2>1, LenProperties
  <2> QED BY <1>6, <2>1, <2>2
<1>11. b \in Sent
  BY <1>4, <1>10, ElementOfSeq
<1>12. PICK c : c = [b EXCEPT !.parts = b.parts + 1]
  OBVIOUS
<1>13. c \in Sent /\ c.type = b.type /\ c.parts = b.parts + 1 /\ b.parts \in Nat /\ b.type \in Kinds
  BY <1>11, <1>12 DEF Sent
<1>14. PICK front \in Seq(Sent) :
         /\ Len(front) = n - 1
         /\ blocks = Append(front, b)
         /\ \A s \in Sent : [blocks EXCEPT ![n] = s] = Append(front, s)
  <2>1. \E front \in Seq(Sent) :
          /\ Len(front) = n - 1
          /\ blocks = Append(front, blocks[n])
          /\ \A s \in Sent : [blocks EXCEPT ![n] = s] = Append(front, s)
    BY <1>6, <1>10, LastBlock
  <2> QED BY <1>4, <2>1
<1>15. PICK more : more = Append(front, c)
  OBVIOUS
<1>16. more \in Seq(Sent) /\ Len(more) = n /\ more[n] = c
  <2>1. (n - 1) + 1 = n
    BY <1>10
  <2> QED BY <1>13, <1>14, <1>15, <2>1, AppendProperties
<1>17. /\ reply'.started = reply.started /\ reply'.input = reply.input /\ reply'.blocks = more
       /\ reply'.reason = reply.reason /\ reply'.output = reply.output
       /\ reply' = [started |-> reply'.started, input |-> reply'.input, blocks |-> reply'.blocks,
                    reason |-> reply'.reason, output |-> reply'.output, error |-> reply'.error]
  <2>1. reply' = [reply EXCEPT !.blocks = [blocks EXCEPT ![n] = c]]
    BY <1>3, <1>4, <1>6, <1>12
  <2>2. [blocks EXCEPT ![n] = c] = more
    BY <1>13, <1>14, <1>15
  <2>3. reply' = [reply EXCEPT !.blocks = more]
    BY <2>1, <2>2
  <2> QED BY <1>8, <2>3 DEF Shaped
<1>18. part \in Fragment /\ part # Null
  <2>1. b.parts + 1 \in Nat
    BY <1>13
  <2>2. part \in Fragment
    BY <1>5, <1>9, <1>10, <2>1 DEF Fragment
  <2> QED BY <2>2, NullAssumption
<1>19. part \in Atoms
  <2>1. m \in 0 .. MaxMessages + 1
    <3>1. Len(payload) <= MaxMessages /\ Len(payload) \in Nat
      BY LenProperties DEF IInv, Appended
    <3> QED BY <1>2, <3>1, BoundsAssumption
  <2>2. n \in 0 .. MaxBlocks
    BY <1>1, <1>8, <1>10, BoundsAssumption DEF Shaped
  <2>3. b.parts + 1 \in 0 .. MaxParts + 1
    BY <1>6, <1>13, BoundsAssumption
  <2> QED BY <1>5, <2>1, <2>2, <2>3 DEF Atoms
<1>20. \A t : At(more, t) = At(blocks, t)
  <2>1. ASSUME NEW t PROVE At(more, t) = At(blocks, t)
    <3>1. At(Append(front, b), t) = IF b.type = t THEN At(front, t) \cup {Len(front) + 1} ELSE At(front, t)
      BY <1>11, AtAppend
    <3>2. At(Append(front, c), t) = IF c.type = t THEN At(front, t) \cup {Len(front) + 1} ELSE At(front, t)
      BY <1>13, AtAppend
    <3> QED BY <1>13, <1>14, <1>15, <3>1, <3>2
  <2> QED BY <2>1
<1>21. ASSUME NEW t PROVE Spoken(more, m, t) = IF b.type = t THEN Append(Spoken(blocks, m, t), part)
                                               ELSE Spoken(blocks, m, t)
  <2>1. Len(front) + 1 = n
    BY <1>10, <1>14
  <2>2. Spoken(Append(front, b), m, t) = IF b.type = t THEN Spoken(front, m, t) \o Piece(m, n, b.parts)
                                         ELSE Spoken(front, m, t)
    BY <1>9, <1>11, <2>1, SpokenAppend
  <2>3. Spoken(Append(front, c), m, t) = IF b.type = t THEN Spoken(front, m, t) \o Piece(m, n, b.parts + 1)
                                         ELSE Spoken(front, m, t)
    <3>1. Spoken(Append(front, c), m, t) =
            IF c.type = t THEN Spoken(front, m, t) \o Piece(m, Len(front) + 1, c.parts)
            ELSE Spoken(front, m, t)
      BY <1>9, <1>13, SpokenAppend
    <3> QED BY <1>13, <2>1, <3>1
  <2>4. PICK said : said = Spoken(front, m, t)
    OBVIOUS
  <2>5. PICK piece : piece = Piece(m, n, b.parts)
    OBVIOUS
  <2>6. said \in Seq(Fragment) /\ piece \in Seq(Fragment) /\ <<part>> \in Seq(Fragment)
    <3>1. said \in Seq(Fragment)
      BY <1>9, <2>4, SpokenType
    <3>2. piece \in Seq(Fragment)
      BY <1>9, <1>10, <1>13, <2>5, PieceType
    <3>3. <<part>> \in Seq(Fragment)
      BY <1>18
    <3> QED BY <3>1, <3>2, <3>3
  <2>7. Piece(m, n, b.parts + 1) = piece \o <<part>>
    BY <1>5, <1>9, <1>10, <1>13, <2>5, PieceGrows
  <2>8. said \o (piece \o <<part>>) = (said \o piece) \o <<part>>
    BY <2>6, ConcatAssociative
  <2>9. (said \o piece) \o <<part>> = Append(said \o piece, part)
    <3>1. said \o piece \in Seq(Fragment)
      BY <2>6, ConcatProperties
    <3> QED BY <1>18, <3>1, AppendIsConcat
  <2> QED BY <1>14, <1>15, <2>2, <2>3, <2>4, <2>5, <2>7, <2>8, <2>9
<1>22. PICK k : k = Len(Places(front, "tool"))
  OBVIOUS
<1>23. b.type = "tool" => ToolIndex(translator, n - 1) = k
  <2>1. SUFFICES ASSUME b.type = "tool" PROVE ToolIndex(translator, n - 1) = k
    OBVIOUS
  <2>2. Places(blocks, "tool") = Append(Places(front, "tool"), Len(front) + 1)
    BY <1>11, <1>14, <2>1, PlacesAppend
  <2>3. Places(front, "tool") \in Seq(1 .. Len(front)) /\ Len(front) \in Nat
    BY PlacesType, LenProperties
  <2>4. Len(Places(blocks, "tool")) = k + 1 /\ k \in Nat
    <3>1. (1 .. Len(front)) \subseteq Nat /\ Len(front) + 1 \in Nat
      BY <2>3
    <3>2. Places(front, "tool") \in Seq(Nat)
      BY <2>3, <3>1, SeqMonotonic
    <3> QED BY <1>22, <2>2, <3>1, <3>2, AppendProperties, LenProperties
  <2>5. Cardinality(At(blocks, "tool")) = k + 1
    BY <1>10, <2>4, PlacesType
  <2>6. blocks # <<>>
    <3>1. Len(<<>>) = 0
      BY EmptySeq
    <3> QED BY <1>6, <1>10, <3>1
  <2>7. translator.tools[n - 1] = k
    <3>1. translator.tools[n - 1] = (k + 1) - 1
      BY <1>4, <1>8, <1>10, <2>1, <2>5, <2>6 DEF Tabled
    <3> QED BY <2>4, <3>1
  <2>8. n - 1 \in DOMAIN translator.tools
    <3>1. n \in At(blocks, "tool")
      BY <1>4, <1>10, <2>1 DEF At
    <3> QED BY <1>8, <3>1 DEF Tabled
  <2> QED BY <2>7, <2>8 DEF ToolIndex
<1>24. /\ translator' = translator
       /\ Gathers(IF b.type = "text" THEN Append(accumulator.content, part) ELSE accumulator.content,
                  IF b.type = "thinking" THEN Append(accumulator.reasoning, part)
                  ELSE accumulator.reasoning,
                  IF b.type = "tool"
                    THEN Joined(accumulator.calls, [index |-> ToolIndex(translator, n - 1),
                                                    id |-> Null, arguments |-> <<part>>])
                    ELSE accumulator.calls,
                  accumulator.finish, accumulator.prompt,
                  accumulator.completion, accumulator.total)
  BY <1>6, <1>13, <1>18, FragmentGathers
<1>25. Shaped(reply, translator, accumulator)'
  <2>1. Append(accumulator.content, part) \in Seq(Atoms) /\ Append(accumulator.reasoning, part) \in Seq(Atoms)
    BY <1>8, <1>19, AppendProperties DEF Shaped
  <2>2. accumulator'.content \in Seq(Atoms) /\ accumulator'.reasoning \in Seq(Atoms)
    BY <1>8, <1>24, <2>1 DEF Shaped, Gathers
  <2> QED BY <1>1, <1>8, <1>10, <1>16, <1>17, <1>24, <2>2 DEF Shaped
<1>26. Tabled(reply.blocks, translator.tools)'
  <2>1. At(more, "tool") = At(blocks, "tool")
    BY <1>20
  <2>2. blocks # <<>>
    <3>1. Len(<<>>) = 0
      BY EmptySeq
    <3> QED BY <1>6, <1>10, <3>1
  <2>3. Tabled(more, translator.tools)
    BY <1>4, <1>8, <1>10, <1>13, <1>16, <2>1, <2>2 DEF Tabled
  <2> QED BY <1>17, <1>24, <2>3
<1>27. Reported(reply, translator, accumulator)'
  BY <1>8, <1>17, <1>24 DEF Reported, Gathers
<1>28. Held(more, m) = IF b.type = "tool"
                         THEN Joined(Held(blocks, m), [index |-> k, id |-> Null, arguments |-> <<part>>])
                         ELSE Held(blocks, m)
  <2>1. CASE b.type = "tool"
    <3>1. part = <<m, Len(front) + 1, b.parts + 1>>
      BY <1>5, <1>10, <1>14
    <3> QED BY <1>9, <1>11, <1>13, <1>14, <1>15, <1>22, <2>1, <3>1, HeldGrows
  <2>2. CASE b.type # "tool"
    BY <1>11, <1>13, <1>14, <1>15, <2>2, HeldSkips
  <2> QED BY <2>1, <2>2
<1>29. Assembled(more, accumulator', m)
  <2>1. accumulator'.content = Spoken(more, m, "text")
    BY <1>9, <1>21, <1>24 DEF Assembled, Gathers
  <2>2. accumulator'.reasoning = Spoken(more, m, "thinking")
    BY <1>9, <1>21, <1>24 DEF Assembled, Gathers
  <2>3. accumulator'.calls = Held(more, m)
    BY <1>9, <1>23, <1>24, <1>28 DEF Assembled, Gathers
  <2> QED BY <2>1, <2>2, <2>3 DEF Assembled
<1>30. Assembled(reply.blocks, accumulator, Len(payload) + 1)'
  BY <1>2, <1>7, <1>17, <1>29
<1> QED BY <1>6, <1>7, <1>25, <1>26, <1>27, <1>30, Continues DEF Gathered

\* The calls of a reply are calls.
LEMMA CallsType ==
  ASSUME NEW blocks \in Seq(Sent), NEW m \in Nat
  PROVE  /\ Calls(blocks, m) \in Seq(CallRecords)
         /\ DOMAIN Calls(blocks, m) = DOMAIN Places(blocks, "tool")
         /\ \A i \in DOMAIN Calls(blocks, m) :
              /\ Places(blocks, "tool")[i] \in At(blocks, "tool")
              /\ Len(Calls(blocks, m)[i].arguments) = blocks[Places(blocks, "tool")[i]].parts
<1>1. PICK places : places = Places(blocks, "tool")
  OBVIOUS
<1>2. /\ places \in Seq(1 .. Len(blocks)) /\ Len(places) \in Nat /\ DOMAIN places = 1 .. Len(places)
      /\ \A i \in DOMAIN places : places[i] \in At(blocks, "tool")
  BY <1>1, PlacesType, LenProperties
<1>3. ASSUME NEW i \in 1 .. Len(places)
      PROVE  /\ Call(m, places[i], blocks[places[i]].parts) \in CallRecords
             /\ Len(Piece(m, places[i], blocks[places[i]].parts)) = blocks[places[i]].parts
  <2>1. places[i] \in 1 .. Len(blocks) /\ Len(blocks) \in Nat
    BY <1>2, ElementOfSeq, LenProperties
  <2>2. blocks[places[i]] \in Sent /\ places[i] \in Nat
    BY <2>1, ElementOfSeq
  <2>3. blocks[places[i]].parts \in Nat
    BY <2>2 DEF Sent
  <2>4. Piece(m, places[i], blocks[places[i]].parts) \in Seq(Fragment)
        /\ Len(Piece(m, places[i], blocks[places[i]].parts)) = blocks[places[i]].parts
    BY <2>2, <2>3, PieceType
  <2> QED BY <2>2, <2>4 DEF Call, CallRecords
<1>4. PICK calls : calls = Calls(blocks, m)
  OBVIOUS
<1>5. calls = [i \in 1 .. Len(places) |-> Call(m, places[i], blocks[places[i]].parts)]
  BY <1>1, <1>2, <1>4 DEF Calls, Uses
<1>6. calls \in [1 .. Len(places) -> CallRecords]
  BY <1>3, <1>5
<1>7. calls \in Seq(CallRecords) /\ DOMAIN calls = DOMAIN places
  BY <1>2, <1>6, SMTT(30)
<1>8. ASSUME NEW i \in DOMAIN calls
      PROVE  places[i] \in At(blocks, "tool") /\ Len(calls[i].arguments) = blocks[places[i]].parts
  <2>1. i \in 1 .. Len(places) /\ calls[i] = Call(m, places[i], blocks[places[i]].parts)
    BY <1>5
  <2>2. calls[i].arguments = Piece(m, places[i], blocks[places[i]].parts)
    BY <2>1 DEF Call
  <2> QED BY <1>2, <1>3, <2>1, <2>2
<1> QED BY <1>1, <1>4, <1>7, <1>8

\* What is said of message m is all fragments of it.
LEMMA SpokenFrom ==
  ASSUME NEW blocks \in Seq(Sent), NEW m \in Nat, NEW type, NEW k \in DOMAIN Spoken(blocks, m, type)
  PROVE  Spoken(blocks, m, type)[k] \in {m} \X Nat \X Nat
<1> DEFINE F == {m} \X Nat \X Nat
<1>1. PICK places : places = Places(blocks, type)
  OBVIOUS
<1>2. PICK n \in Nat : n = Len(places)
  BY <1>1, PlacesType, LenProperties
<1>3. places \in Seq(1 .. Len(blocks)) /\ DOMAIN places = 1 .. n /\ Len(blocks) \in Nat
  <2>1. places \in Seq(1 .. Len(blocks))
    BY <1>1, PlacesType
  <2> QED BY <1>2, <2>1, LenProperties
<1>4. ASSUME NEW j \in 1 .. n PROVE Piece(m, places[j], blocks[places[j]].parts) \in Seq(F)
  <2>1. PICK i \in Nat : i = places[j] /\ blocks[i] \in Sent
    <3>1. places[j] \in 1 .. Len(blocks)
      BY <1>2, <1>3, ElementOfSeq
    <3>2. blocks[places[j]] \in Sent
      BY <1>3, <3>1, ElementOfSeq
    <3> QED BY <1>3, <3>1, <3>2
  <2>2. PICK parts \in Nat : parts = blocks[i].parts
    BY <2>1 DEF Sent
  <2>3. \A h \in 1 .. parts : <<m, i, h>> \in F
    OBVIOUS
  <2>4. Piece(m, i, parts) \in [1 .. parts -> F]
    <3> HIDE DEF F
    <3> QED BY <2>3 DEF Piece
  <2>5. Piece(m, i, parts) \in Seq(F)
    <3> HIDE DEF F
    <3> QED BY <2>4
  <2> QED BY <2>1, <2>2, <2>5
<1>5. Spoken(blocks, m, type) \in Seq(F)
  <2> HIDE DEF F
  <2>1. PICK made : made = Pieces(places, blocks, m)
    OBVIOUS
  <2>2. made \in [1 .. n -> Seq(F)]
    BY <1>3, <1>4, <2>1 DEF Pieces
  <2>3. made \in Seq(Seq(F))
    BY <2>2
  <2>4. FlattenSeq(made) \in Seq(F)
    BY <2>3, FlattenType
  <2> QED BY <1>1, <2>1, <2>4 DEF Spoken
<1>6. Spoken(blocks, m, type)[k] \in F
  <2> HIDE DEF F
  <2> QED BY <1>5, LenProperties, ElementOfSeq
<1> QED BY <1>6

\* At the end of the stream the reply becomes a message, ...
LEMMA EndAdds ==
  ASSUME IInv, End, reply.reason # Null, Room, NEW m, m = Len(payload) + 1
  PROVE  \E message \in Messages :
           /\ payload' = Append(payload, message) /\ message.role = "assistant" /\ Fine(message)
           /\ ~ContentRefused(message.content) /\ message.calls = Calls(reply.blocks, m)
<1>1. m \in Nat /\ Assembled(reply.blocks, accumulator, m)
  BY Replying DEF End
<1> DEFINE text == Message(accumulator).content
           content == IF text = Null THEN Null ELSE <<Text(text)>>
           message == [role |-> "assistant", answers |-> Null, calls |-> Message(accumulator).calls,
                       content |-> content]
<1>2. payload' = Append(payload, message)
  BY DEF End, SentBack
<1>3. PICK blocks \in Seq(Sent) : blocks = reply.blocks
  BY DEF IInv, Gathered, Shaped
<1>4. Message(accumulator).calls = Calls(blocks, m)
  BY <1>1, <1>3, HeldSorted DEF Message, Assembled
<1>5. PICK said : said = accumulator.content
  OBVIOUS
<1>6. said = Spoken(blocks, m, "text") /\ said \in Seq(Fragment)
  BY <1>1, <1>3, <1>5, SpokenType DEF Assembled
<1>7. said # NoneText
  <2>1. SUFFICES ASSUME said = NoneText PROVE FALSE
    OBVIOUS
  <2>2. 1 \in DOMAIN said /\ said[1] = <<0, 0, 0>>
    BY <2>1 DEF NoneText
  <2>3. said[1] \in {m} \X Nat \X Nat
    BY <1>1, <1>6, <2>2, SpokenFrom
  <2>4. m = 0
    BY <2>2, <2>3
  <2>5. Len(payload) \in Nat
    BY LenProperties DEF IInv, Appended
  <2> QED BY <2>4, <2>5
<1>8. text = Null \/ (text = said /\ text \in Seq(Fragment))
  BY <1>5, <1>6 DEF Message, Content
<1> HIDE DEF text
<1>9. \/ content = Null
      \/ /\ content \in Seq(Parts)
         /\ \A i \in DOMAIN content : content[i].type = "text" /\ content[i].text # NoneText
  <2>1. CASE text # Null
    <3>1. PICK part : part = [type |-> "text", text |-> text]
      OBVIOUS
    <3>2. part \in Parts /\ part.type = "text" /\ part.text # NoneText
      BY <1>7, <1>8, <2>1, <3>1 DEF Parts, PartTypes
    <3>3. content = <<part>>
      BY <2>1, <3>1 DEF Text
    <3>4. /\ <<part>> \in Seq(Parts)
          /\ \A i \in DOMAIN <<part>> : <<part>>[i].type = "text" /\ <<part>>[i].text # NoneText
      BY <3>2
    <3> HIDE DEF content
    <3> QED BY <3>3, <3>4
  <2>2. CASE text = Null
    BY <2>2
  <2> QED BY <2>1, <2>2
<1> HIDE DEF content
<1>10. message \in Messages /\ message.role = "assistant" /\ message.content = content
       /\ message.calls = Calls(blocks, m)
  <2>1. Calls(blocks, m) \in Seq(CallRecords)
    BY <1>1, CallsType
  <2> QED BY <1>4, <1>9, <2>1 DEF Messages, Roles
<1> HIDE DEF message
<1>11. ~ContentRefused(content)
  BY <1>9 DEF ContentRefused
<1>12. Fine(message)
  BY <1>9, <1>10 DEF Fine
<1> QED BY <1>2, <1>3, <1>10, <1>11, <1>12

\* ... which is the last reply returned.
LEMMA EndIInv ==
  ASSUME IInv, End
  PROVE  IInv'
<1>1. phase = "replying" /\ UNCHANGED <<maxTokens, reply, translator, accumulator>>
  BY DEF End, exchange
<1>2. PICK m : m = Len(payload) + 1
  OBVIOUS
<1>3. m \in Nat /\ Assembled(reply.blocks, accumulator, m)
  BY <1>1, <1>2, Replying
<1>4. Gathered(reply, translator, accumulator)'
  BY <1>1 DEF IInv
<1>5. CASE ~(reply.reason # Null /\ Room)
  <2>1. phase' = "over" /\ UNCHANGED payload
    BY <1>5 DEF End
  <2>2. Appended'
    BY <1>1, <2>1 DEF IInv, Appended
  <2>3. Numbered(m)'
    BY <1>2, <2>1 DEF Numbered
  <2>4. (\E k \in Nat : Assembled(reply.blocks, accumulator, k) /\ Numbered(k))'
    BY <1>1, <1>3, <2>3
  <2> QED BY <1>4, <2>2, <2>4 DEF IInv
<1>6. CASE reply.reason # Null /\ Room
  <2>1. phase' = "writing" /\ Len(payload) < MaxMessages
    BY <1>6 DEF End, Room
  <2>2. payload \in Seq(Messages) /\ Len(payload) \in Nat
    BY LenProperties DEF IInv, Appended
  <2>3. PICK message \in Messages :
          /\ payload' = Append(payload, message) /\ message.role = "assistant"
          /\ ~ContentRefused(message.content) /\ message.calls = Calls(reply.blocks, m)
    BY <1>2, <1>6, EndAdds
  <2>4. /\ payload' \in Seq(Messages) /\ Len(payload') = Len(payload) + 1
        /\ DOMAIN payload' = 1 .. m
        /\ payload'[m] = message
    BY <1>2, <2>2, <2>3, AppendProperties, LenProperties
  <2>5. Appended'
    BY <1>1, <2>1, <2>2, <2>4, BoundsAssumption DEF IInv, Appended
  <2>6. LastReturned(m)'
    <3>1. m \in Returned' /\ \A i \in Returned' : i <= m
      BY <1>3, <2>3, <2>4 DEF Returned
    <3> QED BY <1>1, <2>3, <2>4, <3>1 DEF LastReturned
  <2>7. Numbered(m)'
    BY <2>1, <2>6 DEF Numbered
  <2>8. (\E k \in Nat : Assembled(reply.blocks, accumulator, k) /\ Numbered(k))'
    BY <1>1, <1>3, <2>7
  <2> QED BY <1>4, <2>5, <2>8 DEF IInv
<1> QED BY <1>5, <1>6

\* Every step keeps the invariant.
LEMMA NextIInv == IInv /\ [Next]_vars => IInv'
<1> SUFFICES ASSUME IInv, [Next]_vars PROVE IInv'
  OBVIOUS
<1>1. CASE UNCHANGED vars
  <2>1. UNCHANGED <<payload, maxTokens, phase, reply, translator, accumulator>>
    BY <1>1 DEF vars, exchange
  <2>2. Appended'
    BY <2>1 DEF IInv, Appended
  <2>3. ASSUME NEW m, Numbered(m) PROVE Numbered(m)'
    BY <2>1, <2>3 DEF Numbered, LastReturned, Returned
  <2>4. (\E m \in Nat : Assembled(reply.blocks, accumulator, m) /\ Numbered(m))'
    BY <2>1, <2>3 DEF IInv
  <2>5. Gathered(reply, translator, accumulator)'
    BY <2>1 DEF IInv
  <2> QED BY <2>2, <2>4, <2>5 DEF IInv
<1>2. ASSUME NEW said \in Said, Write(said) PROVE IInv'
  BY <1>2, WriteIInv
<1>3. ASSUME NEW tokens \in MaxTokens, Ask(tokens) PROVE IInv'
  BY <1>3, AskIInv
<1>4. ASSUME NEW input \in Counts \cup {Null}, StartMessage(input) PROVE IInv'
  BY <1>4, StartMessageIInv
<1>5. ASSUME NEW type \in {"text", "thinking", "tool"}, StartBlock(type) PROVE IInv'
  BY <1>5, StartBlockIInv DEF Kinds
<1>6. ASSUME SendFragment PROVE IInv'
  BY <1>6, SendFragmentIInv
<1>7. ASSUME NEW reason \in Reasons, NEW output \in Counts \cup {Null}, StopMessage(reason, output)
      PROVE  IInv'
  BY <1>7, StopMessageIInv
<1>8. ASSUME Fail PROVE IInv'
  BY <1>8, FailIInv
<1>9. ASSUME End PROVE IInv'
  BY <1>9, EndIInv
<1>10. ASSUME Interrupt PROVE IInv'
  BY <1>10, InterruptIInv
<1> QED BY <1>1, <1>2, <1>3, <1>4, <1>5, <1>6, <1>7, <1>8, <1>9, <1>10 DEF Next

\* The invariant holds in every state.
LEMMA Invariance == Spec => []IInv
BY InitIInv, NextIInv, PTL DEF Spec

-----------------------------------------------------------------------------
(* What is sent of a conversation.  It only grows at its end, so that it   *)
(* is enough to look at what one message adds.                             *)

\* The blocks of Anthropic messages; parts of messages that are text are blocks as well.
Blocked == Parts
  \cup [type : {"tool_use"}, id : Nat \X Nat, input : Seq(Fragment)]
  \cup [type : {"tool_result"}, id : (Nat \X Nat) \cup {Null}, content : Seq(Parts) \cup {Null}]
Outs == [role : Roles, content : Seq(Blocked)]

Only(type) == [b \in Blocked |-> IF b.type = type THEN <<b>> ELSE <<>>]

\* Blocks of one type are made of the blocks one by one, ...
LEMMA TypedFlat ==
  ASSUME NEW s \in Seq(Blocked), NEW type
  PROVE  /\ Only(type) \in [Blocked -> Seq(Blocked)]
         /\ \A i \in DOMAIN s : s[i] \in Blocked
         /\ \A i \in DOMAIN s : Only(type)[s[i]] = IF s[i].type = type THEN <<s[i]>> ELSE <<>>
         /\ Typed(s, type) = Flat(s, Only(type))
<1>1. \A b \in Blocked : (IF b.type = type THEN <<b>> ELSE <<>>) \in Seq(Blocked)
  <2>1. <<>> \in Seq(Blocked)
    BY EmptySeq
  <2>2. \A b \in Blocked : <<b>> \in Seq(Blocked)
    OBVIOUS
  <2> QED BY <2>1, <2>2
<1>2. Only(type) \in [Blocked -> Seq(Blocked)]
  BY <1>1 DEF Only
<1>3. \A i \in DOMAIN s : s[i] \in Blocked
  BY LenProperties, ElementOfSeq
<1>4. \A i \in DOMAIN s : Only(type)[s[i]] = IF s[i].type = type THEN <<s[i]>> ELSE <<>>
  BY <1>3 DEF Only
<1>5. [i \in DOMAIN s |-> IF s[i].type = type THEN <<s[i]>> ELSE <<>>]
        = [i \in DOMAIN s |-> Only(type)[s[i]]]
  BY <1>4
<1>6. Typed(s, type) = Flat(s, Only(type))
  BY <1>5 DEF Typed, Flat
<1> QED BY <1>2, <1>3, <1>4, <1>6

\* ... so that sequences one after another have them one after another, ...
LEMMA TypedConcat ==
  ASSUME NEW s \in Seq(Blocked), NEW t \in Seq(Blocked), NEW type
  PROVE  /\ Typed(s, type) \in Seq(Blocked)
         /\ Typed(s \o t, type) = Typed(s, type) \o Typed(t, type)
<1>1. s \o t \in Seq(Blocked)
  BY ConcatProperties
<1>2. Only(type) \in [Blocked -> Seq(Blocked)]
  BY TypedFlat
<1>3. Flat(s, Only(type)) \in Seq(Blocked)
  BY <1>2, FlatType
<1>4. Flat(s \o t, Only(type)) = Flat(s, Only(type)) \o Flat(t, Only(type))
  BY <1>2, FlatConcat
<1>5. Typed(s, type) = Flat(s, Only(type)) /\ Typed(t, type) = Flat(t, Only(type))
  BY TypedFlat
<1>6. Typed(s \o t, type) = Flat(s \o t, Only(type))
  BY <1>1, TypedFlat
<1> QED BY <1>3, <1>4, <1>5, <1>6

\* ... and none or all are of a type if none or all of the blocks are.
LEMMA TypedNone ==
  ASSUME NEW s \in Seq(Blocked), NEW type, \A i \in DOMAIN s : s[i].type # type
  PROVE  Typed(s, type) = <<>>
<1>1. \A i \in DOMAIN s : Only(type)[s[i]] = <<>>
  BY TypedFlat
<1>2. Flat(s, Only(type)) = <<>>
  BY <1>1, FlatNothing
<1> QED BY <1>2, TypedFlat

\* See TypedNone.
LEMMA TypedAll ==
  ASSUME NEW s \in Seq(Blocked), NEW type, \A i \in DOMAIN s : s[i].type = type
  PROVE  Typed(s, type) = s
<1>1. \A i \in DOMAIN s : Only(type)[s[i]] = <<s[i]>>
  BY TypedFlat
<1>2. Flat(s, Only(type)) = s
  BY <1>1, FlatEverything
<1> QED BY <1>2, TypedFlat

\* What is of a type is one of the blocks.
LEMMA TypedFrom ==
  ASSUME NEW s \in Seq(Blocked), NEW type, NEW k \in DOMAIN Typed(s, type)
  PROVE  \E j \in DOMAIN s : s[j] = Typed(s, type)[k] /\ s[j].type = type
<1> DEFINE T == {s[j] : j \in {i \in DOMAIN s : s[i].type = type}}
<1>1. PICK made : made = [i \in DOMAIN s |-> IF s[i].type = type THEN <<s[i]>> ELSE <<>>]
  OBVIOUS
<1>2. PICK n \in Nat : n = Len(s)
  BY LenProperties
<1>3. DOMAIN s = 1 .. n
  BY <1>2, LenProperties
<1>4. ASSUME NEW i \in DOMAIN s
      PROVE  (IF s[i].type = type THEN <<s[i]>> ELSE <<>>) \in Seq(T)
  <2>1. CASE s[i].type = type
    <3>1. s[i] \in T
      BY <2>1
    <3> HIDE DEF T
    <3>2. <<s[i]>> \in Seq(T)
      BY <3>1
    <3> QED BY <2>1, <3>2
  <2>2. CASE s[i].type # type
    <3> HIDE DEF T
    <3> QED BY <2>2, EmptySeq
  <2> QED BY <2>1, <2>2
<1>5. FlattenSeq(made) \in Seq(T)
  <2> HIDE DEF T
  <2>1. made \in [1 .. n -> Seq(T)]
    BY <1>1, <1>3, <1>4
  <2>2. made \in Seq(Seq(T))
    BY <2>1
  <2> QED BY <2>2, FlattenType
<1>6. Typed(s, type)[k] \in T
  <2> HIDE DEF T
  <2>1. Typed(s, type) = FlattenSeq(made)
    BY <1>1 DEF Typed
  <2> QED BY <1>5, <2>1, LenProperties, ElementOfSeq
<1> QED BY <1>6

\* The blocks but the text that stands for none.
Worded(texts) == FlattenSeq([i \in DOMAIN texts |-> IF texts[i].text = NoneText THEN <<>> ELSE <<texts[i]>>])
Wordy == [b \in Blocked |-> IF b.text = NoneText THEN <<>> ELSE <<b>>]

\* They are made of the blocks one by one, too, ...
LEMMA WordedFlat ==
  ASSUME NEW s \in Seq(Blocked)
  PROVE  /\ Wordy \in [Blocked -> Seq(Blocked)]
         /\ \A i \in DOMAIN s : Wordy[s[i]] = IF s[i].text = NoneText THEN <<>> ELSE <<s[i]>>
         /\ Worded(s) = Flat(s, Wordy)
<1>1. \A b \in Blocked : (IF b.text = NoneText THEN <<>> ELSE <<b>>) \in Seq(Blocked)
  <2>1. <<>> \in Seq(Blocked)
    BY EmptySeq
  <2>2. \A b \in Blocked : <<b>> \in Seq(Blocked)
    OBVIOUS
  <2> QED BY <2>1, <2>2
<1>2. Wordy \in [Blocked -> Seq(Blocked)]
  BY <1>1 DEF Wordy
<1>3. \A i \in DOMAIN s : s[i] \in Blocked
  BY LenProperties, ElementOfSeq
<1>4. \A i \in DOMAIN s : Wordy[s[i]] = IF s[i].text = NoneText THEN <<>> ELSE <<s[i]>>
  BY <1>3 DEF Wordy
<1>5. [i \in DOMAIN s |-> IF s[i].text = NoneText THEN <<>> ELSE <<s[i]>>]
        = [i \in DOMAIN s |-> Wordy[s[i]]]
  BY <1>4
<1> QED BY <1>2, <1>4, <1>5 DEF Worded, Flat

\* ... and where nothing is missing they are all.
LEMMA WordedConcat ==
  ASSUME NEW s \in Seq(Blocked), NEW t \in Seq(Blocked)
  PROVE  /\ Worded(s \o t) = Worded(s) \o Worded(t)
         /\ (\A i \in DOMAIN s : s[i].text # NoneText) => Worded(s) = s
         /\ (\A i \in DOMAIN s : s[i].text = NoneText) => Worded(s) = <<>>
<1>1. s \o t \in Seq(Blocked)
  BY ConcatProperties
<1>2. Wordy \in [Blocked -> Seq(Blocked)]
  BY WordedFlat
<1>3. Flat(s \o t, Wordy) = Flat(s, Wordy) \o Flat(t, Wordy)
  BY <1>2, FlatConcat
<1>4. Worded(s) = Flat(s, Wordy) /\ Worded(t) = Flat(t, Wordy)
  BY WordedFlat
<1>5. Worded(s \o t) = Flat(s \o t, Wordy)
  BY <1>1, WordedFlat
<1>6. ASSUME \A i \in DOMAIN s : s[i].text # NoneText PROVE Worded(s) = s
  <2>1. \A i \in DOMAIN s : Wordy[s[i]] = <<s[i]>>
    BY <1>6, WordedFlat
  <2> QED BY <1>4, <2>1, FlatEverything
<1>7. ASSUME \A i \in DOMAIN s : s[i].text = NoneText PROVE Worded(s) = <<>>
  <2>1. \A i \in DOMAIN s : Wordy[s[i]] = <<>>
    BY <1>7, WordedFlat
  <2> QED BY <1>4, <2>1, FlatNothing
<1> QED BY <1>3, <1>4, <1>5, <1>6, <1>7

\* What one message adds: the blocks that are sent of it.
Sends(message) == IF System(message) THEN <<>> ELSE Outgoing(message).content

\* The parts of messages.
Made == [part \in Parts |-> PartBlock(part)]

\* A part becomes a block, or none if it is bare.
LEMMA PartMade ==
  ASSUME NEW part \in Parts
  PROVE  Made[part] = (IF part.type = "bare" THEN <<>> ELSE <<part>>) /\ Made[part] \in Seq(Parts)
<1>1. part = [type |-> part.type, text |-> part.text]
  BY DEF Parts
<1>2. Made[part] = IF part.type = "bare" THEN <<>> ELSE <<part>>
  BY <1>1 DEF Made, PartBlock
<1>3. <<>> \in Seq(Parts) /\ <<part>> \in Seq(Parts)
  BY EmptySeq
<1> QED BY <1>2, <1>3

\* The blocks of parts are parts, made one by one, ...
LEMMA PartBlocksFlat ==
  ASSUME NEW parts \in Seq(Parts)
  PROVE  /\ Made \in [Parts -> Seq(Parts)] /\ PartBlocks(parts) = Flat(parts, Made)
         /\ PartBlocks(parts) \in Seq(Parts)
<1>1. Made \in [Parts -> Seq(Parts)]
  BY PartMade DEF Made
<1>2. \A i \in DOMAIN parts : parts[i] \in Parts
  BY LenProperties, ElementOfSeq
<1>3. [i \in DOMAIN parts |-> PartBlock(parts[i])] = [i \in DOMAIN parts |-> Made[parts[i]]]
  BY <1>2 DEF Made
<1>4. PartBlocks(parts) = Flat(parts, Made)
  BY <1>3 DEF PartBlocks, Flat
<1> QED BY <1>1, <1>4, FlatType

\* ... so that another part adds its own, ...
LEMMA PartBlocksAppend ==
  ASSUME NEW parts \in Seq(Parts), NEW part \in Parts
  PROVE  PartBlocks(Append(parts, part)) = PartBlocks(parts) \o Made[part]
<1>1. Append(parts, part) \in Seq(Parts)
  BY AppendProperties
<1>2. Made \in [Parts -> Seq(Parts)]
  BY PartBlocksFlat
<1>3. Flat(Append(parts, part), Made) = Flat(parts, Made) \o Made[part]
  BY <1>2, FlatAppend
<1> QED BY <1>1, <1>3, PartBlocksFlat

\* ... and what is of a type, but bare, stays.
LEMMA PartBlocksKept ==
  ASSUME NEW parts \in Seq(Parts)
  PROVE  /\ parts \in Seq(Blocked) /\ PartBlocks(parts) \in Seq(Blocked)
         /\ \A i \in DOMAIN PartBlocks(parts) : PartBlocks(parts)[i].type \in PartTypes
         /\ \A type : type # "bare" => Typed(PartBlocks(parts), type) = Typed(parts, type)
<1>1. \A s \in Seq(Parts) : s \in Seq(Blocked)
  <2>1. Parts \subseteq Blocked
    BY DEF Blocked
  <2> QED BY <2>1, SeqMonotonic
<1>2. PartBlocks(parts) \in Seq(Parts)
  BY PartBlocksFlat
<1>3. ASSUME NEW i \in DOMAIN PartBlocks(parts) PROVE PartBlocks(parts)[i].type \in PartTypes
  <2>1. PartBlocks(parts)[i] \in Parts
    BY <1>2, LenProperties, ElementOfSeq
  <2> QED BY <2>1 DEF Parts
<1>4. ASSUME NEW type, type # "bare" PROVE Typed(PartBlocks(parts), type) = Typed(parts, type)
  <2>0. \A s, t \in Seq(Blocked) : Typed(s \o t, type) = Typed(s, type) \o Typed(t, type)
    BY TypedConcat
  <2> DEFINE Same(s) == Typed(PartBlocks(s), type) = Typed(s, type)
             G == {n \in Nat : \A s \in Seq(Parts) : Len(s) = n => Same(s)}
  <2>1. 0 \in G
    <3>1. ASSUME NEW s \in Seq(Parts), Len(s) = 0 PROVE Same(s)
      <4>1. s = <<>>
        BY <3>1, EmptySeq
      <4>2. PartBlocks(<<>>) = <<>>
        <5>1. <<>> \in Seq(Parts) /\ DOMAIN <<>> = {}
          BY EmptySeq
        <5> QED BY <5>1, PartBlocksFlat, FlatNothing
      <4> QED BY <4>1, <4>2
    <3> HIDE DEF Same
    <3> QED BY <3>1
  <2>2. ASSUME NEW n \in Nat, n \in G PROVE n + 1 \in G
    <3>1. ASSUME NEW s \in Seq(Parts), Len(s) = n + 1 PROVE Same(s)
      <4>1. PICK front \in Seq(Parts), part \in Parts : s = Append(front, part) /\ Len(front) = n
        <5>1. n + 1 \in 1 .. Len(s) /\ (n + 1) - 1 = n /\ \A i \in 1 .. n : i \in 1 .. Len(s)
          BY <3>1
        <5>2. s[n + 1] \in Parts /\ \A i \in 1 .. n : s[i] \in Parts
          BY <5>1, ElementOfSeq
        <5>3. PICK front : front = [i \in 1 .. n |-> s[i]]
          OBVIOUS
        <5>4. front \in [1 .. n -> Parts] /\ \A i \in 1 .. n : front[i] = s[i]
          BY <5>2, <5>3
        <5>5. front \in Seq(Parts) /\ Len(front) = n
          BY <5>4
        <5>6. PICK e : e = Append(front, s[n + 1])
          OBVIOUS
        <5>7. /\ e \in Seq(Parts) /\ Len(e) = n + 1 /\ e[n + 1] = s[n + 1]
              /\ \A i \in 1 .. n : e[i] = s[i]
          BY <5>2, <5>4, <5>5, <5>6, AppendProperties
        <5>8. \A i \in 1 .. n + 1 : e[i] = s[i]
          BY <5>7
        <5>9. e = s
          BY <3>1, <5>7, <5>8, SeqEqual
        <5> QED BY <5>2, <5>5, <5>6, <5>9
      <4>2. Same(front)
        BY <2>2, <4>1
      <4>3. PICK old : old = PartBlocks(front)
        OBVIOUS
      <4>4. PICK new : new = Made[part]
        OBVIOUS
      <4>5. new = (IF part.type = "bare" THEN <<>> ELSE <<part>>) /\ new \in Seq(Parts)
            /\ old \in Seq(Parts) /\ <<part>> \in Seq(Parts)
        BY <4>3, <4>4, PartMade, PartBlocksFlat
      <4>6. /\ old \in Seq(Blocked) /\ new \in Seq(Blocked) /\ front \in Seq(Blocked)
            /\ <<part>> \in Seq(Blocked)
        BY <1>1, <4>5
      <4>7. PartBlocks(s) = old \o new
        BY <4>1, <4>3, <4>4, PartBlocksAppend
      <4>8. s = front \o <<part>>
        BY <4>1, AppendIsConcat
      <4>9. Typed(old \o new, type) = Typed(old, type) \o Typed(new, type)
        BY <2>0, <4>6
      <4>10. Typed(front \o <<part>>, type) = Typed(front, type) \o Typed(<<part>>, type)
        BY <2>0, <4>6
      <4>11. Typed(new, type) = Typed(<<part>>, type)
        <5>1. CASE part.type = "bare"
          <6>1. <<>> \in Seq(Blocked) /\ DOMAIN <<>> = {}
            BY EmptySeq
          <6>2. Typed(<<>>, type) = <<>>
            BY <6>1, TypedNone
          <6>3. \A i \in DOMAIN <<part>> : <<part>>[i].type # type
            BY <1>4, <5>1
          <6>4. Typed(<<part>>, type) = <<>>
            BY <4>6, <6>3, TypedNone
          <6> QED BY <4>5, <5>1, <6>2, <6>4
        <5>2. CASE part.type # "bare"
          BY <4>5, <5>2
        <5> QED BY <5>1, <5>2
      <4> QED BY <4>2, <4>3, <4>7, <4>8, <4>9, <4>10, <4>11
    <3> HIDE DEF Same
    <3> QED BY <3>1
  <2>3. Nat \subseteq G
    <3> HIDE DEF G
    <3> QED BY <2>1, <2>2, NaturalsIn
  <2>4. PICK n \in Nat : n = Len(parts)
    BY LenProperties
  <2>5. Same(parts)
    <3> HIDE DEF Same
    <3> QED BY <2>3, <2>4
  <2> QED BY <2>5
<1> QED BY <1>1, <1>2, <1>3, <1>4

\* Calls become blocks of one type, one by one.
LEMMA ToolUsesKept ==
  ASSUME NEW calls \in Seq(CallRecords)
  PROVE  /\ ToolUses(calls) \in Seq(Blocked)
         /\ DOMAIN ToolUses(calls) = DOMAIN calls
         /\ \A i \in DOMAIN calls :
              ToolUses(calls)[i].type = "tool_use" /\ ToolUses(calls)[i].id = calls[i].id
<1>1. PICK n \in Nat : n = Len(calls)
  BY LenProperties
<1>2. DOMAIN calls = 1 .. n /\ \A i \in 1 .. n : calls[i] \in CallRecords
  BY <1>1, LenProperties, ElementOfSeq
<1>3. PICK uses : uses = ToolUses(calls)
  OBVIOUS
<1>4. uses = [i \in 1 .. n |-> [type |-> "tool_use", id |-> calls[i].id, input |-> calls[i].arguments]]
  BY <1>2, <1>3 DEF ToolUses
<1>5. ASSUME NEW i \in 1 .. n
      PROVE  [type |-> "tool_use", id |-> calls[i].id, input |-> calls[i].arguments] \in Blocked
  <2>1. calls[i].id \in Nat \X Nat /\ calls[i].arguments \in Seq(Fragment)
    BY <1>2 DEF CallRecords
  <2> QED BY <2>1 DEF Blocked
<1>6. uses \in [1 .. n -> Blocked]
  BY <1>4, <1>5
<1>7. uses \in Seq(Blocked) /\ DOMAIN uses = DOMAIN calls
  BY <1>2, <1>6
<1>8. \A i \in DOMAIN calls : uses[i].type = "tool_use" /\ uses[i].id = calls[i].id
  BY <1>2, <1>4
<1> QED BY <1>3, <1>7, <1>8

\* Calls one after another.
LEMMA ToolUsesConcat ==
  ASSUME NEW c \in Seq(CallRecords), NEW d \in Seq(CallRecords)
  PROVE  ToolUses(c \o d) = ToolUses(c) \o ToolUses(d)
<1>1. PICK e : e = c \o d
  OBVIOUS
<1>2. PICK n \in Nat : n = Len(c)
  BY LenProperties
<1>3. PICK k \in Nat : k = Len(d)
  BY LenProperties
<1>4. /\ e \in Seq(CallRecords) /\ Len(e) = n + k
      /\ \A i \in 1 .. n + k : e[i] = IF i <= n THEN c[i] ELSE d[i - n]
  BY <1>1, <1>2, <1>3, ConcatProperties
<1>5. DOMAIN e = 1 .. n + k /\ DOMAIN c = 1 .. n /\ DOMAIN d = 1 .. k
  BY <1>2, <1>3, <1>4, LenProperties
<1>6. PICK x : x = ToolUses(c)
  OBVIOUS
<1>7. PICK y : y = ToolUses(d)
  OBVIOUS
<1>8. PICK z : z = ToolUses(e)
  OBVIOUS
<1>9. PICK w : w = x \o y
  OBVIOUS
<1>10. x \in Seq(Blocked) /\ y \in Seq(Blocked) /\ z \in Seq(Blocked)
       /\ DOMAIN x = DOMAIN c /\ DOMAIN y = DOMAIN d /\ DOMAIN z = DOMAIN e
  BY <1>4, <1>6, <1>7, <1>8, ToolUsesKept
<1>11. Len(x) = n /\ Len(y) = k /\ Len(z) = n + k
  BY <1>5, <1>10, LenProperties
<1>12. /\ w \in Seq(Blocked) /\ Len(w) = n + k
       /\ \A i \in 1 .. n + k : w[i] = IF i <= n THEN x[i] ELSE y[i - n]
  BY <1>9, <1>10, <1>11, ConcatProperties
<1>13. ASSUME NEW i \in 1 .. n + k PROVE z[i] = w[i]
  <2>1. z[i] = [type |-> "tool_use", id |-> e[i].id, input |-> e[i].arguments]
    BY <1>5, <1>8 DEF ToolUses
  <2>2. CASE i <= n
    <3>1. i \in 1 .. n
      BY <2>2
    <3>2. x[i] = [type |-> "tool_use", id |-> c[i].id, input |-> c[i].arguments]
      BY <1>5, <1>6, <3>1 DEF ToolUses
    <3> QED BY <1>4, <1>12, <2>1, <2>2, <3>2
  <2>3. CASE ~(i <= n)
    <3>1. PICK j : j = i - n
      OBVIOUS
    <3>2. j \in 1 .. k
      BY <2>3, <3>1
    <3>3. y[j] = [type |-> "tool_use", id |-> d[j].id, input |-> d[j].arguments]
      BY <1>5, <1>7, <3>2 DEF ToolUses
    <3> QED BY <1>4, <1>12, <2>1, <2>3, <3>1, <3>3
  <2> QED BY <2>2, <2>3
<1>14. z = w
  BY <1>10, <1>11, <1>12, <1>13, SeqEqual
<1> QED BY <1>1, <1>6, <1>7, <1>8, <1>9, <1>14

\* The types of what is sent of a message.
LEMMA SendsType ==
  ASSUME NEW message \in Messages
  PROVE  /\ AnthropicContent(message.content) \in Seq(Blocked)
         /\ ToolUses(message.calls) \in Seq(Blocked)
         /\ Outgoing(message) \in Outs /\ Instruction(message) \in Seq(Blocked)
         /\ Turn(message) \in Seq(Outs) /\ Sends(message) \in Seq(Blocked)
         /\ Written(message, TRUE) \in Seq(Parts) /\ Written(message, FALSE) \in Seq(Parts)
<1>1. PICK content : content = message.content
  OBVIOUS
<1>2. PICK calls : calls = message.calls
  OBVIOUS
<1>3. content \in Seq(Parts) \cup {Null} /\ calls \in Seq(CallRecords) /\ message.role \in Roles
      /\ message.answers \in (Nat \X Nat) \cup {Null}
  BY <1>1, <1>2 DEF Messages
<1>4. AnthropicContent(content) \in Seq(Blocked)
  <2>1. CASE content = Null
    <3>1. <<<<0, 0, 0>>>> \in Seq(Fragment)
      <4>1. PICK f : f = <<0, 0, 0>>
        OBVIOUS
      <4>2. f \in Fragment
        BY <4>1 DEF Fragment
      <4>3. <<f>> \in Seq(Fragment)
        BY <4>2
      <4> QED BY <4>1, <4>3
    <3>2. PICK b : b = Text(NoneText)
      OBVIOUS
    <3>3. NoneText \in Seq(Fragment)
      BY <3>1 DEF NoneText
    <3>4. b \in Blocked
      BY <3>2, <3>3 DEF Text, Blocked, Parts, PartTypes
    <3>5. <<b>> \in Seq(Blocked)
      BY <3>4
    <3> QED BY <2>1, <3>2, <3>5 DEF AnthropicContent
  <2>2. CASE content # Null
    <3>1. content \in Seq(Parts)
      BY <1>3, <2>2
    <3> QED BY <2>2, <3>1, PartBlocksKept DEF AnthropicContent
  <2> QED BY <2>1, <2>2
<1>5. ToolUses(calls) \in Seq(Blocked)
  BY <1>3, ToolUsesKept
<1>6. Outgoing(message) \in Outs
  <2>1. CASE message.role = "tool"
    <3>1. PICK b : b = [type |-> "tool_result", id |-> message.answers, content |-> content]
      OBVIOUS
    <3>2. b \in Blocked
      BY <1>3, <3>1 DEF Blocked
    <3>3. <<b>> \in Seq(Blocked)
      BY <3>2
    <3>4. Outgoing(message) = [role |-> "user", content |-> <<b>>]
      BY <1>1, <2>1, <3>1 DEF Outgoing
    <3> QED BY <3>3, <3>4 DEF Outs, Roles
  <2>2. CASE message.role # "tool"
    <3>1. PICK blocks : blocks = AnthropicContent(content) \o ToolUses(calls)
      OBVIOUS
    <3>2. blocks \in Seq(Blocked)
      BY <1>4, <1>5, <3>1, ConcatProperties
    <3>3. Outgoing(message) = [role |-> message.role, content |-> blocks]
      BY <1>1, <1>2, <2>2, <3>1 DEF Outgoing
    <3> QED BY <1>3, <3>2, <3>3 DEF Outs
  <2> QED BY <2>1, <2>2
<1>7. <<>> \in Seq(Blocked) /\ <<>> \in Seq(Outs) /\ <<>> \in Seq(Parts)
  BY EmptySeq
<1>8. Instruction(message) \in Seq(Blocked)
  BY <1>1, <1>4, <1>7 DEF Instruction
<1>9. Turn(message) \in Seq(Outs)
  <2>1. <<Outgoing(message)>> \in Seq(Outs)
    BY <1>6
  <2> QED BY <1>7, <2>1 DEF Turn
<1>10. Sends(message) \in Seq(Blocked)
  BY <1>6, <1>7 DEF Sends, Outs
<1>11. Written(message, TRUE) \in Seq(Parts) /\ Written(message, FALSE) \in Seq(Parts)
  BY <1>1, <1>3, <1>7 DEF Written
<1> QED BY <1>1, <1>2, <1>4, <1>5, <1>6, <1>8, <1>9, <1>10, <1>11

\* The result that a message is, if it is one.
Result(message) ==
  IF message.role = "tool"
    THEN <<[type |-> "tool_result", id |-> message.answers, content |-> message.content]>>
    ELSE <<>>

\* Its texts, images, calls and results are sent.
LEMMA SendsKept ==
  ASSUME NEW message \in Messages, Fine(message)
  PROVE  /\ \A type \in {"text", "image"} :
              Typed(Instruction(message), type) = Typed(Written(message, TRUE), type)
         /\ Worded(Typed(Sends(message), "text")) = Typed(Written(message, FALSE), "text")
         /\ Typed(Sends(message), "image") = Typed(Written(message, FALSE), "image")
         /\ Typed(Sends(message), "tool_use") = ToolUses(message.calls)
         /\ Typed(Sends(message), "tool_result") = Result(message)
         /\ \A i \in DOMAIN Sends(message) : Sends(message)[i].type = "tool_result" =>
              message.role = "tool" /\ Sends(message)[i].id = message.answers
<1>1. PICK content : content = message.content
  OBVIOUS
<1>2. PICK calls : calls = message.calls
  OBVIOUS
<1>3. content \in Seq(Parts) \cup {Null} /\ calls \in Seq(CallRecords) /\ message.role \in Roles
  BY <1>1, <1>2 DEF Messages
<1>4. <<>> \in Seq(Blocked) /\ DOMAIN <<>> = {}
  BY EmptySeq
<1>5. \A type : Typed(<<>>, type) = <<>>
  BY <1>4, TypedNone
<1>6. Worded(<<>>) = <<>>
  BY <1>4, WordedConcat
<1>7. ToolUses(<<>>) = <<>>
  BY DEF ToolUses
<1>8. CASE System(message)
  <2>1. message.role = "system" /\ calls = <<>> /\ content # Null
    BY <1>1, <1>2, <1>8 DEF System, Fine
  <2>2. content \in Seq(Parts)
    BY <1>3, <2>1
  <2>3. Instruction(message) = PartBlocks(content)
    BY <1>1, <1>8, <2>1 DEF Instruction, AnthropicContent
  <2>4. System(message) = TRUE /\ System(message) # FALSE
    BY <1>8 DEF System
  <2>5. Written(message, TRUE) = content /\ Written(message, FALSE) = <<>>
    BY <1>1, <2>1, <2>4 DEF Written
  <2>6. \A type \in {"text", "image"} : Typed(PartBlocks(content), type) = Typed(content, type)
    BY <2>2, PartBlocksKept
  <2>7. Sends(message) = <<>> /\ Result(message) = <<>>
    BY <1>8, <2>1 DEF Sends, Result
  <2> QED BY <1>2, <1>4, <1>5, <1>6, <1>7, <2>1, <2>3, <2>5, <2>6, <2>7
<1>9. CASE message.role = "tool"
  <2>1. calls = <<>> /\ ~System(message)
    BY <1>2, <1>9 DEF System, Fine
  <2>2. PICK b : b = [type |-> "tool_result", id |-> message.answers, content |-> content]
    OBVIOUS
  <2>3. Sends(message) = <<b>> /\ Instruction(message) = <<>>
    BY <1>1, <1>9, <2>1, <2>2 DEF Sends, Outgoing, Instruction
  <2>4. Written(message, TRUE) = <<>> /\ Written(message, FALSE) = <<>>
    BY <1>9 DEF Written
  <2>5. <<b>> \in Seq(Blocked)
    BY <2>3, SendsType
  <2>6. DOMAIN <<b>> = {1} /\ <<b>>[1] = b /\ b.type = "tool_result" /\ b.id = message.answers
    BY <2>2
  <2>7. Typed(<<b>>, "text") = <<>> /\ Typed(<<b>>, "tool_use") = <<>> /\ Typed(<<b>>, "image") = <<>>
    <3>1. \A i \in DOMAIN <<b>> : /\ <<b>>[i].type # "text" /\ <<b>>[i].type # "tool_use"
                                  /\ <<b>>[i].type # "image"
      BY <2>6
    <3> QED BY <2>5, <3>1, TypedNone
  <2>8. Typed(<<b>>, "tool_result") = <<b>>
    BY <2>5, <2>6, TypedAll
  <2>9. Result(message) = <<b>>
    BY <1>1, <1>9, <2>2 DEF Result
  <2> QED BY <1>2, <1>5, <1>6, <1>7, <1>9, <2>1, <2>3, <2>4, <2>6, <2>7, <2>8, <2>9
<1>10. CASE ~System(message) /\ message.role # "tool"
  <2>1. PICK said : said = AnthropicContent(content)
    OBVIOUS
  <2>2. PICK uses : uses = ToolUses(calls)
    OBVIOUS
  <2>3. said \in Seq(Blocked) /\ uses \in Seq(Blocked)
    BY <1>1, <1>2, <2>1, <2>2, SendsType
  <2>4. Sends(message) = said \o uses /\ Instruction(message) = <<>>
    BY <1>1, <1>2, <1>10, <2>1, <2>2 DEF Sends, Outgoing, Instruction
  <2>5. Written(message, TRUE) = <<>>
    <3>1. System(message) # TRUE
      BY <1>10 DEF System
    <3> QED BY <3>1 DEF Written
  <2>6. Written(message, FALSE) = IF content = Null THEN <<>> ELSE content
    <3>1. System(message) = FALSE
      BY <1>10 DEF System
    <3> QED BY <1>1, <1>10, <3>1 DEF Written
  <2>7. \A i \in DOMAIN uses : uses[i].type = "tool_use"
    BY <1>3, <2>2, ToolUsesKept
  <2>8. /\ Typed(uses, "text") = <<>> /\ Typed(uses, "image") = <<>> /\ Typed(uses, "tool_result") = <<>>
        /\ Typed(uses, "tool_use") = uses
    <3>1. Typed(uses, "text") = <<>> /\ Typed(uses, "image") = <<>> /\ Typed(uses, "tool_result") = <<>>
      <4>1. \A i \in DOMAIN uses : /\ uses[i].type # "text" /\ uses[i].type # "image"
                                   /\ uses[i].type # "tool_result"
        BY <2>7
      <4> QED BY <2>3, <4>1, TypedNone
    <3>2. Typed(uses, "tool_use") = uses
      BY <2>3, <2>7, TypedAll
    <3> QED BY <3>1, <3>2
  <2>9. /\ \A i \in DOMAIN said : said[i].type \in PartTypes
        /\ Typed(said, "image") = Typed(Written(message, FALSE), "image")
        /\ Worded(Typed(said, "text")) = Typed(Written(message, FALSE), "text")
    <3>1. CASE content = Null
      <4>1. PICK b : b = Text(NoneText)
        OBVIOUS
      <4>2. said = <<b>> /\ b.type = "text" /\ b.text = NoneText /\ DOMAIN <<b>> = {1} /\ <<b>>[1] = b
        BY <2>1, <3>1, <4>1 DEF AnthropicContent, Text
      <4>3. Typed(said, "text") = said
        BY <2>3, <4>2, TypedAll
      <4>4. Worded(said) = <<>>
        BY <2>3, <4>2, WordedConcat
      <4>5. Typed(said, "image") = <<>>
        <5>1. \A i \in DOMAIN said : said[i].type # "image"
          BY <4>2
        <5> QED BY <2>3, <5>1, TypedNone
      <4> QED BY <1>5, <2>6, <3>1, <4>2, <4>3, <4>4, <4>5 DEF PartTypes
    <3>2. CASE content # Null
      <4>1. content \in Seq(Parts) /\ said = PartBlocks(content)
        BY <1>3, <2>1, <3>2 DEF AnthropicContent
      <4>2. PICK texts : texts = Typed(content, "text")
        OBVIOUS
      <4>3. /\ content \in Seq(Blocked) /\ Typed(said, "text") = texts
            /\ Typed(said, "image") = Typed(content, "image")
            /\ \A i \in DOMAIN said : said[i].type \in PartTypes
        BY <4>1, <4>2, PartBlocksKept
      <4>4. texts \in Seq(Blocked)
        BY <4>2, <4>3, TypedConcat
      <4>5. \A k \in DOMAIN texts : \E j \in DOMAIN content : content[j] = texts[k]
        BY <4>2, <4>3, TypedFrom
      <4>6. \A k \in DOMAIN texts : texts[k].text # NoneText
        BY <1>1, <3>2, <4>5 DEF Fine
      <4>7. Worded(texts) = texts
        BY <4>4, <4>6, WordedConcat
      <4> QED BY <2>6, <3>2, <4>2, <4>3, <4>7
    <3> QED BY <3>1, <3>2
  <2>10. Typed(said, "tool_use") = <<>> /\ Typed(said, "tool_result") = <<>>
    <3>1. \A i \in DOMAIN said : said[i].type # "tool_use" /\ said[i].type # "tool_result"
      BY <2>9 DEF PartTypes
    <3> QED BY <2>3, <3>1, TypedNone
  <2>11. \A type : Typed(said \o uses, type) = Typed(said, type) \o Typed(uses, type)
    BY <2>3, TypedConcat
  <2>12. Typed(said, "text") \in Seq(Blocked) /\ Typed(said, "image") \in Seq(Blocked)
    BY <2>3, TypedConcat
  <2>13. /\ Typed(said \o uses, "text") = Typed(said, "text")
         /\ Typed(said \o uses, "image") = Typed(said, "image")
    BY <2>8, <2>11, <2>12, ConcatEmptySeq
  <2>14. Typed(said \o uses, "tool_use") = uses /\ Typed(said \o uses, "tool_result") = <<>>
    <3>1. <<>> \o uses = uses
      BY <2>3, ConcatEmptySeq
    <3>2. <<>> \o <<>> = <<>>
      BY <1>4, ConcatEmptySeq
    <3> QED BY <2>8, <2>10, <2>11, <3>1, <3>2
  <2>15. ASSUME NEW i \in DOMAIN (said \o uses) PROVE (said \o uses)[i].type # "tool_result"
    <3>1. PICK w : w = said \o uses
      OBVIOUS
    <3>2. /\ w \in Seq(Blocked) /\ Len(w) = Len(said) + Len(uses)
          /\ \A j \in 1 .. Len(said) + Len(uses) :
               w[j] = IF j <= Len(said) THEN said[j] ELSE uses[j - Len(said)]
      BY <2>3, <3>1, ConcatProperties
    <3>3. DOMAIN w = 1 .. Len(w) /\ DOMAIN said = 1 .. Len(said) /\ DOMAIN uses = 1 .. Len(uses)
          /\ Len(said) \in Nat /\ Len(uses) \in Nat
      BY <2>3, <3>2, LenProperties
    <3>4. i \in 1 .. Len(said) + Len(uses)
      BY <2>15, <3>1, <3>2, <3>3
    <3>5. CASE i <= Len(said)
      <4>1. i \in DOMAIN said /\ w[i] = said[i]
        BY <3>2, <3>3, <3>4, <3>5
      <4> QED BY <2>9, <3>1, <4>1 DEF PartTypes
    <3>6. CASE ~(i <= Len(said))
      <4>1. i - Len(said) \in DOMAIN uses /\ w[i] = uses[i - Len(said)]
        BY <3>2, <3>3, <3>4, <3>6
      <4> QED BY <2>7, <3>1, <4>1
    <3> QED BY <3>5, <3>6
  <2>16. Result(message) = <<>>
    BY <1>10 DEF Result
  <2> QED BY <1>2, <1>5, <2>2, <2>4, <2>5, <2>9, <2>13, <2>14, <2>15, <2>16
<1> QED BY <1>8, <1>9, <1>10 DEF System

\* What a conversation adds up to, each made of its messages one by one.
Instructions == [m \in Messages |-> Instruction(m)]
Turns == [m \in Messages |-> Turn(m)]
Contents == [o \in Outs |-> o.content]
MadeCalls == [m \in Messages |-> m.calls]
Writings(system) == [m \in Messages |-> Written(m, system)]

MadeResults == [m \in Messages |-> Result(m)]

Words(p, type, system) == Typed(FlattenSeq([i \in DOMAIN p |-> Written(p[i], system)]), type)
Dispatched(p) == Blocks(Prepared(p).messages)

\* The definitions are such sums.
LEMMA Sums ==
  ASSUME NEW p \in Seq(Messages)
  PROVE  /\ Prepared(p).system = Flat(p, Instructions) /\ Prepared(p).messages = Flat(p, Turns)
         /\ SentCalls(p) = Flat(p, MadeCalls) /\ Results(p) = Flat(p, MadeResults)
         /\ \A type : /\ Words(p, type, TRUE) = Typed(Flat(p, Writings(TRUE)), type)
                      /\ Words(p, type, FALSE) = Typed(Flat(p, Writings(FALSE)), type)
<1>1. \A i \in DOMAIN p : p[i] \in Messages
  BY LenProperties, ElementOfSeq
<1>2. [i \in DOMAIN p |-> Instruction(p[i])] = [i \in DOMAIN p |-> Instructions[p[i]]]
  BY <1>1 DEF Instructions
<1>3. [i \in DOMAIN p |-> Turn(p[i])] = [i \in DOMAIN p |-> Turns[p[i]]]
  BY <1>1 DEF Turns
<1>4. [i \in DOMAIN p |-> p[i].calls] = [i \in DOMAIN p |-> MadeCalls[p[i]]]
  BY <1>1 DEF MadeCalls
<1>5. [i \in DOMAIN p |-> Written(p[i], TRUE)] = [i \in DOMAIN p |-> Writings(TRUE)[p[i]]]
  BY <1>1 DEF Writings
<1>6. [i \in DOMAIN p |-> Written(p[i], FALSE)] = [i \in DOMAIN p |-> Writings(FALSE)[p[i]]]
  BY <1>1 DEF Writings
<1>7. Prepared(p).system = Flat(p, Instructions) /\ Prepared(p).messages = Flat(p, Turns)
  BY <1>2, <1>3 DEF Prepared, Flat
<1>8. SentCalls(p) = Flat(p, MadeCalls)
  BY <1>4 DEF SentCalls, Flat
<1>9. \A type : Words(p, type, TRUE) = Typed(Flat(p, Writings(TRUE)), type)
  BY <1>5 DEF Words, Flat
<1>10. \A type : Words(p, type, FALSE) = Typed(Flat(p, Writings(FALSE)), type)
  BY <1>6 DEF Words, Flat
<1>11. [i \in DOMAIN p |-> Result(p[i])] = [i \in DOMAIN p |-> MadeResults[p[i]]]
  BY <1>1 DEF MadeResults
<1>12. Results(p) = Flat(p, MadeResults)
  BY <1>11 DEF Results, Result, Flat
<1> QED BY <1>7, <1>8, <1>9, <1>10, <1>12

\* A result is a block.
LEMMA ResultType ==
  ASSUME NEW m \in Messages
  PROVE  Result(m) \in Seq(Blocked)
<1>1. PICK b : b = [type |-> "tool_result", id |-> m.answers, content |-> m.content]
  OBVIOUS
<1>2. b \in Blocked
  BY <1>1 DEF Blocked, Messages
<1>3. <<b>> \in Seq(Blocked) /\ <<>> \in Seq(Blocked)
  BY <1>2, EmptySeq
<1> QED BY <1>1, <1>3 DEF Result

\* Their types.
LEMMA SumsType ==
  /\ Instructions \in [Messages -> Seq(Blocked)] /\ Turns \in [Messages -> Seq(Outs)]
  /\ Contents \in [Outs -> Seq(Blocked)] /\ MadeCalls \in [Messages -> Seq(CallRecords)]
  /\ Writings(TRUE) \in [Messages -> Seq(Parts)] /\ Writings(FALSE) \in [Messages -> Seq(Parts)]
  /\ MadeResults \in [Messages -> Seq(Blocked)]
<1>1. Instructions \in [Messages -> Seq(Blocked)]
  BY SendsType DEF Instructions
<1>2. Turns \in [Messages -> Seq(Outs)]
  BY SendsType DEF Turns
<1>3. Contents \in [Outs -> Seq(Blocked)]
  BY DEF Contents, Outs
<1>4. MadeCalls \in [Messages -> Seq(CallRecords)]
  BY DEF MadeCalls, Messages
<1>5. Writings(TRUE) \in [Messages -> Seq(Parts)]
  BY SendsType DEF Writings
<1>6. Writings(FALSE) \in [Messages -> Seq(Parts)]
  BY SendsType DEF Writings
<1>7. MadeResults \in [Messages -> Seq(Blocked)]
  BY ResultType DEF MadeResults
<1> QED BY <1>1, <1>2, <1>3, <1>4, <1>5, <1>6, <1>7

\* The blocks of messages are a sum as well, ...
LEMMA BlocksSum ==
  ASSUME NEW outs \in Seq(Outs)
  PROVE  Blocks(outs) = Flat(outs, Contents) /\ Blocks(outs) \in Seq(Blocked)
<1>1. \A i \in DOMAIN outs : outs[i] \in Outs
  BY LenProperties, ElementOfSeq
<1>2. [i \in DOMAIN outs |-> outs[i].content] = [i \in DOMAIN outs |-> Contents[outs[i]]]
  BY <1>1 DEF Contents
<1>3. Blocks(outs) = Flat(outs, Contents)
  BY <1>2 DEF Blocks, Flat
<1>4. Contents \in [Outs -> Seq(Blocked)]
  BY SumsType
<1>5. Flat(outs, Contents) \in Seq(Blocked)
  BY <1>4, FlatType
<1> QED BY <1>3, <1>5

\* ... so that a message adds its own to what there is.
LEMMA ConversationGrows ==
  ASSUME NEW p \in Seq(Messages), NEW m \in Messages
  PROVE  /\ Prepared(p).system \in Seq(Blocked) /\ Dispatched(p) \in Seq(Blocked)
         /\ SentCalls(p) \in Seq(CallRecords)
         /\ Prepared(Append(p, m)).system = Prepared(p).system \o Instruction(m)
         /\ Dispatched(Append(p, m)) = Dispatched(p) \o Sends(m)
         /\ SentCalls(Append(p, m)) = SentCalls(p) \o m.calls
         /\ Results(Append(p, m)) = Results(p) \o Result(m)
         /\ \A type :
              /\ Words(Append(p, m), type, TRUE) = Words(p, type, TRUE) \o Typed(Written(m, TRUE), type)
              /\ Words(Append(p, m), type, FALSE) = Words(p, type, FALSE) \o Typed(Written(m, FALSE), type)
<1>1. PICK q : q = Append(p, m)
  OBVIOUS
<1>2. q \in Seq(Messages)
  BY <1>1, AppendProperties
<1>3. /\ Instructions[m] = Instruction(m) /\ Turns[m] = Turn(m) /\ MadeCalls[m] = m.calls
      /\ Writings(TRUE)[m] = Written(m, TRUE) /\ Writings(FALSE)[m] = Written(m, FALSE)
  BY DEF Instructions, Turns, MadeCalls, Writings
<1>4. /\ Flat(p, Instructions) \in Seq(Blocked)
      /\ Flat(q, Instructions) = Flat(p, Instructions) \o Instruction(m)
  <2>1. Instructions \in [Messages -> Seq(Blocked)]
    BY SumsType
  <2>2. Flat(p, Instructions) \in Seq(Blocked)
    BY <2>1, FlatType
  <2>3. Flat(Append(p, m), Instructions) = Flat(p, Instructions) \o Instructions[m]
    BY <2>1, FlatAppend
  <2> QED BY <1>1, <1>3, <2>2, <2>3
<1>5. Flat(p, Turns) \in Seq(Outs) /\ Flat(q, Turns) = Flat(p, Turns) \o Turn(m)
  <2>1. Turns \in [Messages -> Seq(Outs)]
    BY SumsType
  <2>2. Flat(p, Turns) \in Seq(Outs)
    BY <2>1, FlatType
  <2>3. Flat(Append(p, m), Turns) = Flat(p, Turns) \o Turns[m]
    BY <2>1, FlatAppend
  <2> QED BY <1>1, <1>3, <2>2, <2>3
<1>6. Flat(p, MadeCalls) \in Seq(CallRecords) /\ Flat(q, MadeCalls) = Flat(p, MadeCalls) \o m.calls
  <2>1. MadeCalls \in [Messages -> Seq(CallRecords)]
    BY SumsType
  <2>2. Flat(p, MadeCalls) \in Seq(CallRecords)
    BY <2>1, FlatType
  <2>3. Flat(Append(p, m), MadeCalls) = Flat(p, MadeCalls) \o MadeCalls[m]
    BY <2>1, FlatAppend
  <2> QED BY <1>1, <1>3, <2>2, <2>3
<1>7. /\ Flat(p, Writings(TRUE)) \in Seq(Parts)
      /\ Flat(q, Writings(TRUE)) = Flat(p, Writings(TRUE)) \o Written(m, TRUE)
  <2>1. Writings(TRUE) \in [Messages -> Seq(Parts)]
    BY SumsType
  <2>2. Flat(p, Writings(TRUE)) \in Seq(Parts)
    BY <2>1, FlatType
  <2>3. Flat(Append(p, m), Writings(TRUE)) = Flat(p, Writings(TRUE)) \o Writings(TRUE)[m]
    BY <2>1, FlatAppend
  <2> QED BY <1>1, <1>3, <2>2, <2>3
<1>8. /\ Flat(p, Writings(FALSE)) \in Seq(Parts)
      /\ Flat(q, Writings(FALSE)) = Flat(p, Writings(FALSE)) \o Written(m, FALSE)
  <2>1. Writings(FALSE) \in [Messages -> Seq(Parts)]
    BY SumsType
  <2>2. Flat(p, Writings(FALSE)) \in Seq(Parts)
    BY <2>1, FlatType
  <2>3. Flat(Append(p, m), Writings(FALSE)) = Flat(p, Writings(FALSE)) \o Writings(FALSE)[m]
    BY <2>1, FlatAppend
  <2> QED BY <1>1, <1>3, <2>2, <2>3
<1>9. \A w \in Seq(Parts) : w \in Seq(Blocked)
  <2>1. Parts \subseteq Blocked
    BY DEF Blocked
  <2> QED BY <2>1, SeqMonotonic
<1>10. ASSUME NEW type
       PROVE  Words(q, type, TRUE) = Words(p, type, TRUE) \o Typed(Written(m, TRUE), type)
  <2>1. Flat(p, Writings(TRUE)) \in Seq(Blocked) /\ Written(m, TRUE) \in Seq(Blocked)
    BY <1>7, <1>9, SendsType
  <2>2. Typed(Flat(p, Writings(TRUE)) \o Written(m, TRUE), type)
          = Typed(Flat(p, Writings(TRUE)), type) \o Typed(Written(m, TRUE), type)
    BY <2>1, TypedConcat
  <2> QED BY <1>2, <1>7, <2>2, Sums
<1>11. ASSUME NEW type
       PROVE  Words(q, type, FALSE) = Words(p, type, FALSE) \o Typed(Written(m, FALSE), type)
  <2>1. Flat(p, Writings(FALSE)) \in Seq(Blocked) /\ Written(m, FALSE) \in Seq(Blocked)
    BY <1>8, <1>9, SendsType
  <2>2. Typed(Flat(p, Writings(FALSE)) \o Written(m, FALSE), type)
          = Typed(Flat(p, Writings(FALSE)), type) \o Typed(Written(m, FALSE), type)
    BY <2>1, TypedConcat
  <2> QED BY <1>2, <1>8, <2>2, Sums
<1>12. Dispatched(q) = Dispatched(p) \o Sends(m) /\ Dispatched(p) \in Seq(Blocked)
  <2>1. PICK outs \in Seq(Outs) : outs = Prepared(p).messages
    BY <1>5, Sums
  <2>2. Prepared(q).messages = outs \o Turn(m)
    BY <1>2, <1>5, <2>1, Sums
  <2>3. Blocks(outs) = Flat(outs, Contents) /\ Blocks(outs) \in Seq(Blocked)
    BY BlocksSum
  <2>4. CASE System(m)
    <3>1. Turn(m) = <<>> /\ Sends(m) = <<>>
      BY <2>4 DEF Turn, Sends
    <3>2. outs \o <<>> = outs
      BY ConcatEmptySeq
    <3>3. Blocks(outs) \o <<>> = Blocks(outs)
      BY <2>3, ConcatEmptySeq
    <3> QED BY <2>1, <2>2, <2>3, <3>1, <3>2, <3>3 DEF Dispatched
  <2>5. CASE ~System(m)
    <3>1. PICK out : out = Outgoing(m)
      OBVIOUS
    <3>2. out \in Outs /\ Turn(m) = <<out>> /\ Sends(m) = out.content
      BY <2>5, <3>1, SendsType DEF Turn, Sends
    <3>3. outs \o <<out>> = Append(outs, out) /\ Append(outs, out) \in Seq(Outs)
      BY <3>2, AppendIsConcat, AppendProperties
    <3>4. Flat(Append(outs, out), Contents) = Flat(outs, Contents) \o Contents[out]
      BY <3>2, SumsType, FlatAppend, ZenonT(30)
    <3>5. Contents[out] = out.content
      BY <3>2 DEF Contents
    <3>6. Blocks(Append(outs, out)) = Flat(Append(outs, out), Contents)
      BY <3>3, BlocksSum
    <3> QED BY <2>1, <2>2, <2>3, <3>2, <3>3, <3>4, <3>5, <3>6 DEF Dispatched
  <2> QED BY <2>4, <2>5
<1>13. Prepared(p).system \in Seq(Blocked) /\ Prepared(q).system = Prepared(p).system \o Instruction(m)
  BY <1>2, <1>4, Sums
<1>14. SentCalls(p) \in Seq(CallRecords) /\ SentCalls(q) = SentCalls(p) \o m.calls
  BY <1>2, <1>6, Sums
<1>15. Results(q) = Results(p) \o Result(m)
  <2>1. MadeResults \in [Messages -> Seq(Blocked)]
    BY SumsType
  <2>2. Flat(Append(p, m), MadeResults) = Flat(p, MadeResults) \o MadeResults[m]
    BY <2>1, FlatAppend
  <2>3. MadeResults[m] = Result(m)
    BY DEF MadeResults
  <2> QED BY <1>1, <1>2, <2>2, <2>3, Sums
<1> QED BY <1>1, <1>10, <1>11, <1>12, <1>13, <1>14, <1>15

\* What is kept of a conversation.
Kept(p) ==
  /\ \A type \in {"text", "image"} : Typed(Prepared(p).system, type) = Words(p, type, TRUE)
  /\ Worded(Typed(Dispatched(p), "text")) = Words(p, "text", FALSE)
  /\ Typed(Dispatched(p), "image") = Words(p, "image", FALSE)
  /\ Typed(Dispatched(p), "tool_use") = ToolUses(SentCalls(p))
  /\ Typed(Dispatched(p), "tool_result") = Results(p)
  /\ \A i \in DOMAIN Dispatched(p) : Dispatched(p)[i].type = "tool_result" =>
       \E j \in 1 .. i - 1 : Dispatched(p)[j].type = "tool_use" /\ Dispatched(p)[j].id = Dispatched(p)[i].id

\* Nothing is kept of nothing.
LEMMA KeptAtFirst == Kept(<<>>)
<1>1. <<>> \in Seq(Messages) /\ <<>> \in Seq(Blocked) /\ <<>> \in Seq(Outs) /\ <<>> \in Seq(CallRecords)
      /\ DOMAIN <<>> = {}
  BY EmptySeq
<1>2. \A g : Flat(<<>>, g) = <<>>
  BY <1>1, FlatNothing
<1>3. \A type : Typed(<<>>, type) = <<>>
  BY <1>1, TypedNone
<1>4. Worded(<<>>) = <<>>
  BY <1>1, WordedConcat
<1>5. ToolUses(<<>>) = <<>>
  BY DEF ToolUses
<1>6. /\ Prepared(<<>>).system = <<>> /\ Prepared(<<>>).messages = <<>> /\ SentCalls(<<>>) = <<>>
      /\ Results(<<>>) = <<>>
      /\ \A type : Words(<<>>, type, TRUE) = <<>> /\ Words(<<>>, type, FALSE) = <<>>
  <2>1. /\ Prepared(<<>>).system = Flat(<<>>, Instructions) /\ Prepared(<<>>).messages = Flat(<<>>, Turns)
        /\ SentCalls(<<>>) = Flat(<<>>, MadeCalls) /\ Results(<<>>) = Flat(<<>>, MadeResults)
        /\ \A type : /\ Words(<<>>, type, TRUE) = Typed(Flat(<<>>, Writings(TRUE)), type)
                     /\ Words(<<>>, type, FALSE) = Typed(Flat(<<>>, Writings(FALSE)), type)
    BY <1>1, Sums
  <2> QED BY <1>2, <1>3, <2>1
<1>7. Dispatched(<<>>) = <<>>
  BY <1>1, <1>2, <1>6, BlocksSum DEF Dispatched
<1> QED BY <1>1, <1>3, <1>4, <1>5, <1>6, <1>7 DEF Kept

\* A message is added to what is kept; a result is sent after its call.
LEMMA KeptGrows ==
  ASSUME NEW p \in Seq(Messages), Kept(p), NEW m \in Messages, Fine(m),
         m.role = "tool" => m.answers \in Ids(p)
  PROVE  Kept(Append(p, m))
<1>1. PICK q : q = Append(p, m)
  OBVIOUS
<1>2. PICK old : old = Dispatched(p)
  OBVIOUS
<1>3. PICK new : new = Sends(m)
  OBVIOUS
<1>4. PICK all : all = Dispatched(q)
  OBVIOUS
<1>5. old \in Seq(Blocked) /\ new \in Seq(Blocked) /\ all = old \o new
  BY <1>1, <1>2, <1>3, <1>4, ConversationGrows, SendsType
<1>6. PICK n \in Nat : n = Len(old)
  BY <1>5, LenProperties
<1>7. PICK k \in Nat : k = Len(new)
  BY <1>5, LenProperties
<1>8. /\ all \in Seq(Blocked) /\ Len(all) = n + k
      /\ \A i \in 1 .. n + k : all[i] = IF i <= n THEN old[i] ELSE new[i - n]
  BY <1>5, <1>6, <1>7, ConcatProperties
<1>9. DOMAIN all = 1 .. n + k /\ DOMAIN old = 1 .. n /\ DOMAIN new = 1 .. k
  BY <1>5, <1>6, <1>7, <1>8, LenProperties
<1>10. ASSUME NEW type \in {"text", "image"} PROVE Typed(Prepared(q).system, type) = Words(q, type, TRUE)
  <2>1. PICK s \in Seq(Blocked) : s = Prepared(p).system
    BY ConversationGrows
  <2>2. Prepared(q).system = s \o Instruction(m) /\ Instruction(m) \in Seq(Blocked)
    BY <1>1, <2>1, ConversationGrows, SendsType
  <2>3. Typed(s \o Instruction(m), type) = Typed(s, type) \o Typed(Instruction(m), type)
    BY <2>2, TypedConcat
  <2>4. Typed(s, type) = Words(p, type, TRUE) /\ Typed(Instruction(m), type) = Typed(Written(m, TRUE), type)
    BY <2>1, SendsKept DEF Kept
  <2> QED BY <1>1, <2>2, <2>3, <2>4, ConversationGrows
<1>11. Worded(Typed(all, "text")) = Words(q, "text", FALSE)
  <2>1. PICK s : s = Typed(old, "text")
    OBVIOUS
  <2>2. PICK t : t = Typed(new, "text")
    OBVIOUS
  <2>3. s \in Seq(Blocked) /\ t \in Seq(Blocked)
    BY <1>5, <2>1, <2>2, TypedConcat
  <2>4. Typed(all, "text") = s \o t
    BY <1>5, <2>1, <2>2, TypedConcat
  <2>5. Worded(s \o t) = Worded(s) \o Worded(t)
    BY <2>3, WordedConcat
  <2>6. Worded(s) = Words(p, "text", FALSE) /\ Worded(t) = Typed(Written(m, FALSE), "text")
    BY <1>2, <1>3, <2>1, <2>2, SendsKept DEF Kept
  <2> QED BY <1>1, <2>4, <2>5, <2>6, ConversationGrows
<1>12. Typed(all, "tool_use") = ToolUses(SentCalls(q))
  <2>1. PICK calls \in Seq(CallRecords) : calls = SentCalls(p)
    BY ConversationGrows
  <2>2. PICK more \in Seq(CallRecords) : more = m.calls
    BY DEF Messages
  <2>3. SentCalls(q) = calls \o more
    BY <1>1, <2>1, <2>2, ConversationGrows
  <2>4. ToolUses(calls \o more) = ToolUses(calls) \o ToolUses(more)
    BY ToolUsesConcat
  <2>5. Typed(old \o new, "tool_use") = Typed(old, "tool_use") \o Typed(new, "tool_use")
    BY <1>5, TypedConcat
  <2>6. Typed(old, "tool_use") = ToolUses(calls) /\ Typed(new, "tool_use") = ToolUses(more)
    BY <1>2, <1>3, <2>1, <2>2, SendsKept DEF Kept
  <2> QED BY <1>5, <2>3, <2>4, <2>5, <2>6
<1>13. ASSUME NEW i \in DOMAIN all, all[i].type = "tool_result"
       PROVE  \E j \in 1 .. i - 1 : all[j].type = "tool_use" /\ all[j].id = all[i].id
  <2>1. \A j \in 1 .. n : j \in 1 .. n + k /\ all[j] = old[j]
    BY <1>8
  <2>2. CASE i <= n
    <3>1. i \in DOMAIN old /\ all[i] = old[i]
      BY <1>8, <1>9, <2>2
    <3>2. PICK j \in 1 .. i - 1 : old[j].type = "tool_use" /\ old[j].id = old[i].id
      BY <1>2, <1>13, <3>1 DEF Kept
    <3>3. j \in 1 .. n
      BY <1>9, <3>1
    <3> QED BY <2>1, <3>1, <3>2, <3>3
  <2>3. CASE ~(i <= n)
    <3>1. i - n \in DOMAIN new /\ all[i] = new[i - n]
      BY <1>8, <1>9, <2>3
    <3>2. m.role = "tool" /\ all[i].id = m.answers
      BY <1>3, <1>13, <3>1, SendsKept
    <3>3. PICK calls \in Seq(CallRecords) : calls = SentCalls(p)
      BY ConversationGrows
    <3>4. PICK c \in DOMAIN calls : calls[c].id = m.answers
      BY <3>2, <3>3 DEF Ids
    <3>5. PICK uses : uses = ToolUses(calls)
      OBVIOUS
    <3>6. c \in DOMAIN uses /\ uses[c].type = "tool_use" /\ uses[c].id = m.answers
      BY <3>4, <3>5, ToolUsesKept
    <3>7. uses = Typed(old, "tool_use")
      BY <1>2, <3>3, <3>5 DEF Kept
    <3>8. PICK j \in DOMAIN old : old[j] = uses[c] /\ old[j].type = "tool_use"
      BY <1>5, <3>6, <3>7, TypedFrom
    <3>9. j \in 1 .. i - 1
      BY <1>9, <2>3
    <3> QED BY <1>9, <2>1, <3>2, <3>6, <3>8, <3>9
  <2> QED BY <1>9, <2>2, <2>3
<1>14. Typed(all, "image") = Words(q, "image", FALSE)
  <2>1. Typed(old \o new, "image") = Typed(old, "image") \o Typed(new, "image")
    BY <1>5, TypedConcat
  <2>2. Typed(old, "image") = Words(p, "image", FALSE) /\ Typed(new, "image") = Typed(Written(m, FALSE), "image")
    BY <1>2, <1>3, SendsKept DEF Kept
  <2> QED BY <1>1, <1>5, <2>1, <2>2, ConversationGrows
<1>15. Typed(all, "tool_result") = Results(q)
  <2>1. Typed(old \o new, "tool_result") = Typed(old, "tool_result") \o Typed(new, "tool_result")
    BY <1>5, TypedConcat
  <2>2. Typed(old, "tool_result") = Results(p) /\ Typed(new, "tool_result") = Result(m)
    BY <1>2, <1>3, SendsKept DEF Kept
  <2> QED BY <1>1, <1>5, <2>1, <2>2, ConversationGrows
<1> QED BY <1>1, <1>4, <1>10, <1>11, <1>12, <1>13, <1>14, <1>15 DEF Kept

\* The payload of a step is the one before or has one message more, as it should be.
LEMMA StepAdds ==
  ASSUME IInv, [Next]_vars
  PROVE  \/ payload' = payload
         \/ \E m \in Messages : /\ payload' = Append(payload, m) /\ Fine(m)
                                /\ (m.role = "tool" => m.answers \in Ids(payload))
<1>1. CASE UNCHANGED vars
  BY <1>1 DEF vars
<1>2. ASSUME NEW said \in Said, Write(said)
      PROVE  \E m \in Messages : /\ payload' = Append(payload, m) /\ Fine(m)
                                 /\ (m.role = "tool" => m.answers \in Ids(payload))
  BY <1>2, WriteAdds
<1>3. ASSUME End, reply.reason # Null, Room
      PROVE  \E m \in Messages : /\ payload' = Append(payload, m) /\ Fine(m)
                                 /\ (m.role = "tool" => m.answers \in Ids(payload))
  <2>1. PICK m \in Messages : payload' = Append(payload, m) /\ m.role = "assistant" /\ Fine(m)
    BY <1>3, EndAdds
  <2>2. m.role # "tool"
    BY <2>1
  <2> QED BY <2>1, <2>2
<1>4. ASSUME End, ~(reply.reason # Null /\ Room) PROVE payload' = payload
  BY <1>4 DEF End
<1>5. ASSUME NEW tokens \in MaxTokens, Ask(tokens) PROVE payload' = payload
  BY <1>5 DEF Ask
<1>6. ASSUME NEW input \in Counts \cup {Null}, StartMessage(input) PROVE payload' = payload
  BY <1>6 DEF StartMessage, Receive
<1>7. ASSUME NEW type \in {"text", "thinking", "tool"}, StartBlock(type) PROVE payload' = payload
  BY <1>7 DEF StartBlock, Receive
<1>8. ASSUME SendFragment PROVE payload' = payload
  BY <1>8 DEF SendFragment, Receive
<1>9. ASSUME NEW reason \in Reasons, NEW output \in Counts \cup {Null}, StopMessage(reason, output)
      PROVE  payload' = payload
  BY <1>9 DEF StopMessage, Receive
<1>10. ASSUME Fail PROVE payload' = payload
  BY <1>10 DEF Fail, Receive
<1>11. ASSUME Interrupt PROVE payload' = payload
  BY <1>11 DEF Interrupt
<1> QED BY <1>1, <1>2, <1>3, <1>4, <1>5, <1>6, <1>7, <1>8, <1>9, <1>10, <1>11 DEF Next

\* The two halves of HistoryKept are what is kept of the payload.
LEMMA HistoryIsKept == HistoryKept <=> (Accepted(payload) => Kept(payload))
<1>1. \A type : /\ WrittenParts(type, TRUE) = Words(payload, type, TRUE)
                /\ WrittenParts(type, FALSE) = Words(payload, type, FALSE)
  BY DEF WrittenParts, Words
<1>2. SentTexts = Worded(Typed(Dispatched(payload), "text"))
  BY DEF SentTexts, Worded, Dispatched
<1>3. CallsKept <=>
        (Accepted(payload) =>
           /\ Typed(Dispatched(payload), "tool_use") = ToolUses(SentCalls(payload))
           /\ Typed(Dispatched(payload), "tool_result") = Results(payload)
           /\ \A i \in DOMAIN Dispatched(payload) : Dispatched(payload)[i].type = "tool_result" =>
                \E j \in 1 .. i - 1 : /\ Dispatched(payload)[j].type = "tool_use"
                                      /\ Dispatched(payload)[j].id = Dispatched(payload)[i].id)
  BY DEF CallsKept, Dispatched
<1>4. PartsKept <=>
        (Accepted(payload) =>
           /\ \A type \in {"text", "image"} :
                Typed(Prepared(payload).system, type) = Words(payload, type, TRUE)
           /\ Worded(Typed(Dispatched(payload), "text")) = Words(payload, "text", FALSE)
           /\ Typed(Dispatched(payload), "image") = Words(payload, "image", FALSE))
  BY <1>1, <1>2 DEF PartsKept, Dispatched
<1> QED BY <1>3, <1>4 DEF HistoryKept, Kept

\* What is kept stays, and a message is added to it.
LEMMA KeptStep ==
  ASSUME IInv, [Next]_vars, Accepted(payload) => Kept(payload)
  PROVE  (Accepted(payload) => Kept(payload))'
<1> SUFFICES ASSUME Accepted(payload') PROVE Kept(payload')
  OBVIOUS
<1>1. CASE payload' = payload
  BY <1>1
<1>2. ASSUME NEW m \in Messages, payload' = Append(payload, m), Fine(m),
             m.role = "tool" => m.answers \in Ids(payload)
      PROVE  Kept(payload')
  <2>1. payload \in Seq(Messages)
    BY DEF IInv, Appended
  <2>2. PICK n \in Nat : n = Len(payload)
    BY <2>1, LenProperties
  <2>3. /\ DOMAIN payload = 1 .. n /\ DOMAIN payload' = 1 .. n + 1
        /\ \A i \in 1 .. n : payload'[i] = payload[i]
    <3>1. payload' \in Seq(Messages) /\ Len(payload') = n + 1
          /\ \A i \in 1 .. n : payload'[i] = payload[i]
      BY <1>2, <2>1, <2>2, AppendProperties
    <3> QED BY <2>1, <2>2, <3>1, LenProperties
  <2>4. Accepted(payload)
    BY <2>3 DEF Accepted
  <2> QED BY <1>2, <2>1, <2>4, KeptGrows
<1> QED BY <1>1, <1>2, StepAdds

-----------------------------------------------------------------------------
(* What follows.                                                           *)

\* A number has a quarter, rounded up, which is none for none only.
LEMMA QuarterType ==
  ASSUME NEW n \in Nat
  PROVE  Quarter(n) \in Nat /\ (Quarter(n) = 0 => n = 0)
BY DEF Quarter

\* The size of the texts of a payload is a number.
LEMMA TextSizeType ==
  ASSUME NEW messages \in Seq(Messages)
  PROVE  TextSize(messages) \in Nat
<1> DEFINE inner(i) == [j \in DOMAIN messages[i].content |->
                          IF messages[i].content[j].type = "text" THEN messages[i].content[j].text ELSE <<>>]
           text(i) == IF messages[i].content = Null THEN <<>> ELSE FlattenSeq(inner(i))
           each == [i \in DOMAIN messages |-> text(i)]
<1>1. DOMAIN messages = 1 .. Len(messages) /\ Len(messages) \in Nat
  BY LenProperties
<1>2. ASSUME NEW i \in 1 .. Len(messages) PROVE text(i) \in Seq(Fragment)
  <2>1. messages[i] \in Messages
    BY ElementOfSeq
  <2>2. CASE messages[i].content = Null
    BY <2>2, EmptySeq
  <2>3. CASE messages[i].content # Null
    <3>1. PICK content : content = messages[i].content
      OBVIOUS
    <3>2. content \in Seq(Parts)
      BY <2>1, <2>3, <3>1 DEF Messages
    <3>3. DOMAIN content = 1 .. Len(content) /\ Len(content) \in Nat
      BY <3>2, LenProperties
    <3>4. \A j \in 1 .. Len(content) : content[j] \in Parts
      BY <3>2, ElementOfSeq
    <3>5. \A j \in 1 .. Len(content) :
            (IF content[j].type = "text" THEN content[j].text ELSE <<>>) \in Seq(Fragment)
      <4>1. <<>> \in Seq(Fragment)
        BY EmptySeq
      <4> QED BY <3>4, <4>1 DEF Parts
    <3>6. PICK texts :
            texts = [j \in DOMAIN content |-> IF content[j].type = "text" THEN content[j].text ELSE <<>>]
      OBVIOUS
    <3>7. texts \in [1 .. Len(content) -> Seq(Fragment)]
      BY <3>3, <3>5, <3>6
    <3>8. texts \in Seq(Seq(Fragment))
      BY <3>3, <3>7
    <3>9. FlattenSeq(texts) \in Seq(Fragment)
      BY <3>8, FlattenType
    <3> QED BY <2>3, <3>1, <3>6, <3>9
  <2> QED BY <2>2, <2>3
<1>3. each \in Seq(Seq(Fragment))
  <2> HIDE DEF text
  <2>1. each \in [1 .. Len(messages) -> Seq(Fragment)]
    BY <1>1, <1>2
  <2> HIDE DEF each
  <2> QED BY <1>1, <2>1
<1>4. FlattenSeq(each) \in Seq(Fragment)
  <2> HIDE DEF each
  <2> QED BY <1>3, FlattenType
<1>5. Len(FlattenSeq(each)) \in Nat
  <2> HIDE DEF each
  <2> QED BY <1>4, LenProperties
<1>6. TextSize(messages) = PartSize * Len(FlattenSeq(each))
  BY DEF TextSize
<1> HIDE DEF each
<1> QED BY <1>5, <1>6, SizesAssumption

\* The types follow from the invariant.
LEMMA TypeFollows ==
  ASSUME IInv
  PROVE  TypeOK
<1>1. Appended /\ Shaped(reply, translator, accumulator) /\ Tabled(reply.blocks, translator.tools)
  BY DEF IInv, Gathered
<1>2. PICK m \in Nat : Assembled(reply.blocks, accumulator, m)
  BY DEF IInv
<1>3. PICK blocks \in Seq(Sent) : blocks = reply.blocks /\ Len(blocks) <= MaxBlocks
  BY <1>1 DEF Shaped
<1>4. ASSUME NEW i \in DOMAIN payload PROVE payload[i].role \in Roles
  <2>1. payload \in Seq(Messages)
    BY <1>1 DEF Appended
  <2>2. payload[i] \in Messages
    BY <2>1, LenProperties, ElementOfSeq
  <2> QED BY <2>2 DEF Messages
<1>5. IsText(accumulator.content) /\ IsText(accumulator.reasoning)
  <2>1. ASSUME NEW text \in Seq(Atoms) PROVE IsText(text)
    BY LenProperties, ElementOfSeq DEF IsText
  <2> QED BY <1>1, <2>1 DEF Shaped
<1>6. DOMAIN accumulator.calls = 0 .. Cardinality(DOMAIN accumulator.calls) - 1
  <2>1. accumulator.calls = Held(blocks, m)
    BY <1>2, <1>3 DEF Assembled
  <2>2. DOMAIN Held(blocks, m) = 0 .. Len(Places(blocks, "tool")) - 1
    BY DEF Held
  <2>3. Cardinality(DOMAIN Held(blocks, m)) = Len(Places(blocks, "tool"))
    BY HeldSorted, PlacesType
  <2> QED BY <2>1, <2>2, <2>3
<1>7. DOMAIN translator.tools \subseteq 0 .. MaxBlocks
  <2>1. Len(blocks) \in Nat /\ At(blocks, "tool") \in SUBSET (1 .. Len(blocks))
    BY LenProperties, PlacesType
  <2>2. \A i \in At(blocks, "tool") : i - 1 \in 0 .. MaxBlocks
    BY <1>3, <2>1, BoundsAssumption
  <2> QED BY <1>1, <1>3, <2>2 DEF Tabled
<1> QED BY <1>1, <1>4, <1>5, <1>6, <1>7 DEF TypeOK, Appended

\* The fragments of a block are JSON if they are the whole of it, and none is "{}".
LEMMA PieceJson ==
  ASSUME NEW m \in Nat \ {0}, NEW i, NEW n \in Nat
  PROVE  /\ Piece(m, i, n) # EmptyObject
         /\ Json(Piece(m, i, n)) <=> n = Whole
<1>1. PICK piece : piece = Piece(m, i, n)
  OBVIOUS
<1>2. piece = [k \in 1 .. n |-> <<m, i, k>>]
  BY <1>1 DEF Piece
<1>3. Len(piece) = n /\ DOMAIN piece = 1 .. n
  BY <1>2
<1>4. piece # EmptyObject
  <2>1. SUFFICES ASSUME piece = EmptyObject PROVE FALSE
    OBVIOUS
  <2>2. Len(EmptyObject) = 1 /\ EmptyObject[1] = <<0, 0, 1>>
    BY DEF EmptyObject
  <2>3. 1 \in 1 .. n
    BY <1>3, <2>1, <2>2
  <2>4. piece[1] = <<m, i, 1>>
    BY <1>2, <2>3
  <2>5. m = 0
    BY <2>1, <2>2, <2>4
  <2> QED BY <2>5
<1>5. ASSUME n = Whole PROVE \A k \in DOMAIN piece : piece[k] = <<piece[1][1], piece[1][2], k>>
  <2>1. 1 \in 1 .. n
    BY <1>5, SizesAssumption
  <2>2. piece[1] = <<m, i, 1>>
    BY <1>2, <2>1
  <2>3. piece[1][1] = m /\ piece[1][2] = i
    BY <2>2
  <2> QED BY <1>2, <1>3, <2>3
<1>6. Json(piece) <=> n = Whole
  BY <1>3, <1>4, <1>5 DEF Json
<1> QED BY <1>1, <1>4, <1>6

\* The parts of the unstreamed reply, as the message to come.
LEMMA NormalizedParts ==
  ASSUME IInv, NEW m, m = Len(payload) + 1
  PROVE  LET tools == Places(reply.blocks, "tool") IN
         /\ Normalized.content = Content(Spoken(reply.blocks, m, "text"))
         /\ Normalized.calls = [j \in DOMAIN tools |-> [id |-> <<m, tools[j]>>, arguments |-> Dumped(tools[j])]]
         /\ Normalized.finish = IF reply.reason = Null THEN Null ELSE FinishReason(reply.reason)
         /\ Normalized = [content |-> Normalized.content, calls |-> Normalized.calls,
                          finish |-> Normalized.finish]
         /\ \A i : Fragments(i) = Piece(m, i, reply.blocks[i].parts)
<1>1. \A i : Fragments(i) = Piece(m, i, reply.blocks[i].parts) /\ CallId(i) = <<m, i>>
  BY DEF Fragments, Piece, CallId
<1>2. OfType("text") = Places(reply.blocks, "text") /\ OfType("tool") = Places(reply.blocks, "tool")
  BY DEF OfType, Places, At
<1>3. PICK texts : texts = Places(reply.blocks, "text")
  OBVIOUS
<1>4. PICK tools : tools = Places(reply.blocks, "tool")
  OBVIOUS
<1>5. [j \in DOMAIN texts |-> Fragments(texts[j])] = Pieces(texts, reply.blocks, m)
  BY <1>1 DEF Pieces
<1>6. [j \in DOMAIN tools |-> [id |-> CallId(tools[j]), arguments |-> Dumped(tools[j])]]
        = [j \in DOMAIN tools |-> [id |-> <<m, tools[j]>>, arguments |-> Dumped(tools[j])]]
  BY <1>1
<1>7. Normalized = [content |-> Content(FlattenSeq([j \in DOMAIN texts |-> Fragments(texts[j])])),
                    calls |-> [j \in DOMAIN tools |-> [id |-> CallId(tools[j]),
                                                       arguments |-> Dumped(tools[j])]],
                    finish |-> IF reply.reason = Null THEN Null ELSE FinishReason(reply.reason)]
  BY <1>2, <1>3, <1>4 DEF Normalized
<1> QED BY <1>1, <1>3, <1>4, <1>5, <1>6, <1>7 DEF Spoken

\* While a reply is not a message yet, what is put together is that reply.
LEMMA AgreementFollows ==
  ASSUME IInv
  PROVE  StreamAgrees
<1>1. Shaped(reply, translator, accumulator) /\ Reported(reply, translator, accumulator)
  BY DEF IInv, Gathered
<1>2. ASSUME phase # "writing"
      PROVE  Message(accumulator) = [Normalized EXCEPT !.calls = [j \in DOMAIN @ |-> WithoutInput(@[j])]]
  <2>1. PICK m : m = Len(payload) + 1
    OBVIOUS
  <2>2. Assembled(reply.blocks, accumulator, m) /\ m \in Nat \ {0}
    <3>1. Assembled(reply.blocks, accumulator, m) /\ m \in Nat
      BY <1>2, <2>1, Replying
    <3>2. Len(payload) \in Nat
      BY LenProperties DEF IInv, Appended
    <3> QED BY <2>1, <3>1, <3>2
  <2>3. PICK blocks \in Seq(Sent) : blocks = reply.blocks
    BY <1>1 DEF Shaped
  <2>4. PICK tools : tools = Places(blocks, "tool")
    OBVIOUS
  <2>5. PICK calls : calls = [j \in DOMAIN tools |-> [id |-> <<m, tools[j]>>, arguments |-> Dumped(tools[j])]]
    OBVIOUS
  <2>6. /\ Normalized = [content |-> Content(Spoken(blocks, m, "text")), calls |-> calls,
                         finish |-> IF reply.reason = Null THEN Null ELSE FinishReason(reply.reason)]
        /\ \A i : Fragments(i) = Piece(m, i, blocks[i].parts)
    BY <2>1, <2>3, <2>4, <2>5, NormalizedParts
  <2>7. ASSUME NEW j \in DOMAIN tools
        PROVE  WithoutInput(calls[j]) = Call(m, tools[j], blocks[tools[j]].parts)
    <3>1. PICK i : i = tools[j]
      OBVIOUS
    <3>2. i \in DOMAIN blocks
      BY <2>3, <2>4, <3>1, PlacesType DEF At
    <3>3. blocks[i] \in Sent
      BY <2>3, <3>2, LenProperties, ElementOfSeq
    <3>4. PICK n \in Nat : n = blocks[i].parts
      BY <3>3 DEF Sent
    <3>5. calls[j] = [id |-> <<m, i>>, arguments |-> Dumped(i)]
      BY <2>5, <3>1
    <3>6. Fragments(i) = Piece(m, i, n)
      BY <2>6, <3>4
    <3>7. CASE Piece(m, i, n) = <<>>
      <4>1. Dumped(i) = EmptyObject
        BY <3>6, <3>7 DEF Dumped
      <4>2. WithoutInput(calls[j]) = [id |-> <<m, i>>, arguments |-> <<>>]
        BY <3>5, <4>1 DEF WithoutInput
      <4> QED BY <3>1, <3>4, <3>7, <4>2 DEF Call
    <3>8. CASE Piece(m, i, n) # <<>>
      <4>1. Dumped(i) = Piece(m, i, n)
        BY <3>6, <3>8 DEF Dumped
      <4>2. Piece(m, i, n) # EmptyObject
        BY <2>2, PieceJson
      <4>3. WithoutInput(calls[j]) = calls[j]
        BY <3>5, <4>1, <4>2 DEF WithoutInput
      <4> QED BY <3>1, <3>4, <3>5, <4>1, <4>3 DEF Call
    <3> QED BY <3>7, <3>8
  <2>8. [j \in DOMAIN calls |-> WithoutInput(calls[j])] = Calls(blocks, m)
    <3>1. DOMAIN calls = DOMAIN tools
      BY <2>5
    <3>2. [j \in DOMAIN tools |-> WithoutInput(calls[j])]
            = [j \in DOMAIN tools |-> Call(m, tools[j], blocks[tools[j]].parts)]
      BY <2>7
    <3> QED BY <2>4, <3>1, <3>2 DEF Calls, Uses
  <2>9. accumulator.content = Spoken(blocks, m, "text")
    BY <2>2, <2>3 DEF Assembled
  <2>10. Sorted(accumulator.calls) = Calls(blocks, m)
    BY <2>2, <2>3, HeldSorted DEF Assembled
  <2>11. accumulator.finish = IF reply.reason = Null THEN Null ELSE FinishReason(reply.reason)
    BY <1>1 DEF Reported
  <2>12. [Normalized EXCEPT !.calls = [j \in DOMAIN @ |-> WithoutInput(@[j])]]
           = [content |-> Content(Spoken(blocks, m, "text")), calls |-> Calls(blocks, m),
              finish |-> IF reply.reason = Null THEN Null ELSE FinishReason(reply.reason)]
    BY <2>6, <2>8
  <2> QED BY <2>9, <2>10, <2>11, <2>12 DEF Message
<1>3. ASSUME reply.reason # Null, Null \notin {reply.input, reply.output}
      PROVE  Usage(accumulator) = [prompt |-> reply.input, completion |-> reply.output,
                                   total |-> reply.input + reply.output]
  <2>1. reply.input \in Nat /\ reply.output \in Nat
    BY <1>1, <1>3, SizesAssumption DEF Shaped
  <2>2. reply.input + reply.output # Null
    BY <2>1, NullAssumption
  <2>3. /\ accumulator.prompt = reply.input /\ accumulator.completion = reply.output
        /\ accumulator.total = reply.input + reply.output
    BY <1>1, <1>3 DEF Reported, Total
  <2> QED BY <1>3, <2>2, <2>3 DEF Usage
<1> QED BY <1>2, <1>3, TypeFollows DEF StreamAgrees

\* Every block of a type has a place.
LEMMA PlacesAll ==
  ASSUME NEW blocks \in Seq(Sent), NEW type, NEW i \in At(blocks, type)
  PROVE  \E j \in DOMAIN Places(blocks, type) : Places(blocks, type)[j] = i
<1> DEFINE S == At(blocks, type)
<1>1. PICK n \in Nat : n = Len(blocks) /\ S \in SUBSET (1 .. n)
  BY LenProperties DEF At
<1> HIDE DEF S
<1>2. S \in SUBSET Int /\ IsFiniteSet(S) /\ Ranked(S)
  <2>1. S \in SUBSET Int
    BY <1>1
  <2>2. IsFiniteSet(S) /\ Ranked(S)
    BY <1>1, AllRanked, Zenon
  <2> QED BY <2>1, <2>2
<1>3. PICK below : below = {k \in S : k < i}
  OBVIOUS
<1>4. i \in S /\ i \in Int
  BY <1>2 DEF S
<1>5. Cardinality(below) \in Nat /\ Cardinality(below) < Cardinality(S) /\ Cardinality(S) \in Nat
  <2>1. below \in SUBSET S /\ i \notin below
    BY <1>3, <1>4
  <2>2. IsFiniteSet(below) /\ Cardinality(below) <= Cardinality(S)
        /\ (Cardinality(below) = Cardinality(S) => below = S)
    BY <1>2, <2>1, FS_Subset
  <2>3. below # S
    BY <1>4, <2>1
  <2>4. Cardinality(below) \in Nat /\ Cardinality(S) \in Nat
    BY <1>2, <2>2, FS_CardinalityType
  <2> QED BY <2>2, <2>3, <2>4
<1>6. PICK j : j = Cardinality(below) + 1
  OBVIOUS
<1>7. j \in 1 .. Cardinality(S) /\ Rank(S, i) = j - 1
  BY <1>3, <1>5, <1>6 DEF Rank
<1>8. Ascending(S)[j] = i /\ DOMAIN Ascending(S) = 1 .. Cardinality(S)
  <2>1. Ascending(S) \in Seq(S) /\ Len(Ascending(S)) = Cardinality(S) /\ Ascending(S)[j] = i
    BY <1>2, <1>4, <1>7, AscendingHas
  <2> QED BY <2>1, LenProperties
<1> QED BY <1>7, <1>8 DEF Places, S

\* The last message is a reply that prepare_request takes unless a call of it is cut.
LEMMA ReturnedFollows ==
  ASSUME IInv, phase = "writing", Returned # {}
  PROVE  Refused(payload[Max(Returned)]) <=> \E i \in DOMAIN reply.blocks : Cut(reply.blocks[i])
<1>1. PICK m \in Nat : Numbered(m)
  BY DEF IInv
<1>2. /\ m \in Returned /\ \A i \in Returned : i <= m
      /\ ~ContentRefused(payload[m].content) /\ payload[m].calls = Calls(reply.blocks, m)
  BY <1>1 DEF Numbered, LastReturned
<1>3. Returned \subseteq Nat \ {0}
  <2>1. payload \in Seq(Messages)
    BY DEF IInv, Appended
  <2> QED BY <2>1, LenProperties DEF Returned
<1>4. Max(Returned) = m
  <2>1. \A i \in Returned : (\A j \in Returned : i >= j) => i = m
    BY <1>2, <1>3
  <2>2. \A j \in Returned : m >= j
    BY <1>2, <1>3
  <2> QED BY <1>2, <2>1, <2>2 DEF Max
<1>5. m \in Nat \ {0}
  BY <1>2, <1>3
<1>6. PICK blocks \in Seq(Sent) : blocks = reply.blocks
  BY DEF IInv, Gathered, Shaped
<1>7. PICK places : places = Places(blocks, "tool")
  OBVIOUS
<1>8. PICK calls : calls = Calls(blocks, m)
  OBVIOUS
<1>9. /\ DOMAIN calls = DOMAIN places
      /\ \A j \in DOMAIN places : calls[j].arguments = Piece(m, places[j], blocks[places[j]].parts)
  BY <1>7, <1>8 DEF Calls, Uses, Call
<1>10. \A i \in DOMAIN blocks : blocks[i].parts \in Nat
  <2>1. \A i \in DOMAIN blocks : blocks[i] \in Sent
    BY <1>6, LenProperties, ElementOfSeq
  <2> QED BY <2>1 DEF Sent
<1>11. \A j \in DOMAIN places : places[j] \in DOMAIN blocks /\ blocks[places[j]].type = "tool"
  <2>1. \A j \in DOMAIN places : places[j] \in At(blocks, "tool")
    BY <1>7, PlacesType
  <2> QED BY <2>1 DEF At
<1>12. \A j \in DOMAIN places : ~Json(calls[j].arguments) <=> Cut(blocks[places[j]])
  <2> TAKE j \in DOMAIN places
  <2>1. Json(Piece(m, places[j], blocks[places[j]].parts)) <=> blocks[places[j]].parts = Whole
    BY <1>5, <1>10, <1>11, PieceJson
  <2> QED BY <1>9, <1>11, <2>1 DEF Cut
<1>13. (\E j \in DOMAIN calls : ~Json(calls[j].arguments)) <=> \E i \in DOMAIN blocks : Cut(blocks[i])
  <2>1. ASSUME NEW j \in DOMAIN calls, ~Json(calls[j].arguments) PROVE \E i \in DOMAIN blocks : Cut(blocks[i])
    BY <1>9, <1>11, <1>12, <2>1
  <2>2. ASSUME NEW i \in DOMAIN blocks, Cut(blocks[i]) PROVE \E j \in DOMAIN calls : ~Json(calls[j].arguments)
    <3>1. i \in At(blocks, "tool")
      BY <2>2 DEF At, Cut
    <3>2. PICK j \in DOMAIN places : places[j] = i
      BY <1>6, <1>7, <3>1, PlacesAll
    <3> QED BY <1>9, <1>12, <2>2, <3>2
  <2> QED BY <2>1, <2>2
<1>14. payload[m].role = "assistant"
  BY <1>2 DEF Returned
<1>15. Refused(payload[m]) <=> \E j \in DOMAIN calls : ~Json(calls[j].arguments)
  BY <1>2, <1>6, <1>8, <1>14 DEF Refused
<1> QED BY <1>4, <1>6, <1>13, <1>15

\* The same reply, unstreamed, is one that it takes if no call of it is cut.
LEMMA UnstreamedFollows ==
  ASSUME IInv, \A i \in DOMAIN reply.blocks : Cut(reply.blocks[i]) => reply.blocks[i].parts = 0
  PROVE  ~Refused(SentBack(Normalized))
<1>1. PICK m : m = Len(payload) + 1
  OBVIOUS
<1>2. m \in Nat \ {0}
  <2>1. Len(payload) \in Nat
    BY LenProperties DEF IInv, Appended
  <2> QED BY <1>1, <2>1
<1>3. PICK blocks \in Seq(Sent) : blocks = reply.blocks
  BY DEF IInv, Gathered, Shaped
<1>4. PICK tools : tools = Places(blocks, "tool")
  OBVIOUS
<1>5. PICK calls : calls = [j \in DOMAIN tools |-> [id |-> <<m, tools[j]>>, arguments |-> Dumped(tools[j])]]
  OBVIOUS
<1>6. Normalized.calls = calls /\ \A i : Fragments(i) = Piece(m, i, blocks[i].parts)
  BY <1>1, <1>3, <1>4, <1>5, NormalizedParts
<1>7. PICK message : message = SentBack(Normalized)
  OBVIOUS
<1>8. /\ message.role = "assistant" /\ message.calls = calls
      /\ message.content = IF Normalized.content = Null THEN Null ELSE <<Text(Normalized.content)>>
  BY <1>6, <1>7 DEF SentBack
<1>9. ~ContentRefused(message.content)
  <2>1. CASE Normalized.content = Null
    BY <1>8, <2>1 DEF ContentRefused
  <2>2. CASE Normalized.content # Null
    <3>1. PICK part : part = Text(Normalized.content)
      OBVIOUS
    <3>2. part.type = "text" /\ message.content = <<part>>
      BY <1>8, <2>2, <3>1 DEF Text
    <3>3. \A i \in DOMAIN <<part>> : <<part>>[i].type # "unsupported"
      BY <3>2
    <3> QED BY <3>2, <3>3 DEF ContentRefused
  <2> QED BY <2>1, <2>2
<1>10. ASSUME NEW j \in DOMAIN calls PROVE Json(calls[j].arguments)
  <2>1. PICK i : i = tools[j]
    OBVIOUS
  <2>2. i \in DOMAIN blocks /\ blocks[i].type = "tool"
    <3>1. \A k \in DOMAIN tools : tools[k] \in At(blocks, "tool")
      BY <1>4, PlacesType
    <3>2. j \in DOMAIN tools
      BY <1>5
    <3> QED BY <2>1, <3>1, <3>2 DEF At
  <2>3. blocks[i] \in Sent
    BY <1>3, <2>2, LenProperties, ElementOfSeq
  <2>4. PICK n \in Nat : n = blocks[i].parts
    BY <2>3 DEF Sent
  <2>5. calls[j].arguments = Dumped(i)
    BY <1>5, <2>1
  <2>6. n = 0 \/ n = Whole
    BY <1>3, <2>2, <2>4 DEF Cut
  <2>7. CASE n = 0
    <3>1. Fragments(i) = <<>>
      BY <1>6, <2>4, <2>7, PieceEmpty
    <3> QED BY <2>5, <3>1 DEF Dumped, Json
  <2>8. CASE n = Whole
    <3>1. Json(Piece(m, i, n))
      BY <1>2, <2>8, PieceJson
    <3>2. Fragments(i) = Piece(m, i, n)
      BY <1>6, <2>4
    <3> QED BY <2>5, <3>1, <3>2 DEF Dumped, Json
  <2> QED BY <2>6, <2>7, <2>8
<1> QED BY <1>7, <1>8, <1>9, <1>10 DEF Refused

\* What is said of replies that are sent back.
LEMMA AcceptanceFollows ==
  ASSUME IInv
  PROVE  RepliesAccepted
BY ReturnedFollows, UnstreamedFollows DEF RepliesAccepted, Returned

\* The prompt is estimated from what is reserved, to which the reply adds
\* at most the tokens asked for.
LEMMA EstimateFollows ==
  ASSUME IInv
  PROVE  EstimateCovered
<1> SUFFICES ASSUME accumulator.prompt = Null, accumulator.completion = Null,
                    Usage(accumulator).completion <= maxTokens
             PROVE  Usage(accumulator).total <= Reserved + (IF TextSize(payload) = 0 THEN 1 ELSE 0)
  BY DEF EstimateCovered
<1>1. Shaped(reply, translator, accumulator) /\ Reported(reply, translator, accumulator)
  BY DEF IInv, Gathered
<1>2. PICK completion :
        completion = Quarter(PartSize * (Len(accumulator.content) + Len(accumulator.reasoning)))
  OBVIOUS
<1>3. completion \in Nat
  <2>1. PICK content \in Nat : content = Len(accumulator.content)
    BY <1>1, LenProperties DEF Shaped
  <2>2. PICK reasoning \in Nat : reasoning = Len(accumulator.reasoning)
    BY <1>1, LenProperties DEF Shaped
  <2>3. content + reasoning \in Nat
    OBVIOUS
  <2>4. PartSize * (content + reasoning) \in Nat
    BY <2>3, SizesAssumption
  <2> QED BY <1>2, <2>1, <2>2, <2>4, QuarterType
<1>4. accumulator.total = Null
  BY <1>1 DEF Reported, Total
<1>5. Usage(accumulator).completion = completion /\ Usage(accumulator).total = PromptEstimate + completion
  BY <1>2, <1>4 DEF Usage
<1>6. TextSize(payload) \in Nat
  BY TextSizeType DEF IInv, Appended
<1>7. PICK text : text = Quarter(TextSize(payload))
  OBVIOUS
<1>8. text \in Nat /\ (text = 0 => TextSize(payload) = 0)
  BY <1>6, <1>7, QuarterType
<1>9. maxTokens \in Nat
  BY SizesAssumption DEF IInv, Appended
<1>10. Reserved = IF text + maxTokens < 1 THEN 1 ELSE text + maxTokens
  BY <1>7 DEF Reserved
<1>11. PromptEstimate = IF Reserved - maxTokens < 1 THEN 1 ELSE Reserved - maxTokens
  BY DEF PromptEstimate
<1>12. completion <= maxTokens
  BY <1>5
<1> QED BY <1>3, <1>5, <1>8, <1>9, <1>10, <1>11, <1>12

\* Whatever the provider sends and wherever it stops, the calls that are put
\* together are numbered from zero without a gap, the tool table knows blocks
\* only, and texts are made of fragments.
THEOREM TypeCorrect == Spec => []TypeOK
<1>1. IInv => TypeOK
  BY TypeFollows
<1> QED BY <1>1, Invariance, PTL

\* A streamed reply, cut anywhere, says what the same reply says unstreamed:
\* StreamAccumulator after translate_stream agrees with normalize_response in
\* text, calls, finish reason and, where both counts are given, usage; except
\* that the arguments of a call without input are "" in one and "{}" in the
\* other.  (Thinking is only streamed.)
THEOREM StreamsAlwaysAgree == Spec => []StreamAgrees
<1>1. IInv => StreamAgrees
  BY AgreementFollows
<1> QED BY <1>1, Invariance, PTL

\* prepare_request refuses the message that the client makes of a streamed
\* reply exactly if some call of it has no arguments or only a part of them,
\* and takes that of an unstreamed one wherever no call of it was cut.
THEOREM RepliesAlwaysAccepted == Spec => []RepliesAccepted
<1>1. IInv => RepliesAccepted
  BY AcceptanceFollows
<1> QED BY <1>1, Invariance, PTL

\* Usage that the provider does not report is estimated within what was
\* reserved for the call, for a reply of at most the tokens asked for.
THEOREM EstimatesCovered == Spec => []EstimateCovered
<1>1. IInv => EstimateCovered
  BY EstimateFollows
<1> QED BY <1>1, Invariance, PTL

\* However long a conversation gets, whatever of it the provider has written:
\* if prepare_request takes it, every text, image, call and result is sent
\* once, in order, the instructions apart, each result with its content and
\* after the call it answers.  (Parts that are no objects are left out.)
THEOREM HistoryAlwaysKept == Spec => []HistoryKept
<1>1. Init => (Accepted(payload) => Kept(payload))
  BY KeptAtFirst DEF Init
<1>2. IInv /\ (Accepted(payload) => Kept(payload)) /\ [Next]_vars => (Accepted(payload) => Kept(payload))'
  BY KeptStep
<1>3. (Accepted(payload) => Kept(payload)) => HistoryKept
  BY HistoryIsKept
<1> QED BY <1>1, <1>2, <1>3, Invariance, PTL DEF Spec

-----------------------------------------------------------------------------
(* The operators of FiniteSets that Dashboard uses are those of here.      *)
LEMMA SameCardinality == \A S : D!Cardinality(S) = Cardinality(S)
BY DEF D!Cardinality, Cardinality

-----------------------------------------------------------------------------
(* SumsUpto over a finite set.                                                 *)

\* The function that SumFunction computes: the sums of f over the subsets of S.
SumsUpto(h, f, S) ==
  h = [s \in SUBSET S |->
         IF s = {} THEN 0
         ELSE LET x == CHOOSE x \in s : TRUE IN f[x] + h[s \ {x}]]

\* A finite set has one such function only.
LEMMA SumsUnique ==
  ASSUME NEW S, IsFiniteSet(S), NEW f, NEW h, SumsUpto(h, f, S), NEW k, SumsUpto(k, f, S)
  PROVE  h[S] = k[S]
<1> DEFINE G == {n \in Nat : \A s \in SUBSET S : Cardinality(s) = n => h[s] = k[s]}
<1>1. /\ \A s \in SUBSET S : h[s] = IF s = {} THEN 0
                               ELSE f[CHOOSE x \in s : TRUE] + h[s \ {CHOOSE x \in s : TRUE}]
      /\ \A s \in SUBSET S : k[s] = IF s = {} THEN 0
                               ELSE f[CHOOSE x \in s : TRUE] + k[s \ {CHOOSE x \in s : TRUE}]
  BY DEF SumsUpto
<1>2. \A s \in SUBSET S : IsFiniteSet(s)
  BY FS_Subset
<1>3. 0 \in G
  <2>1. ASSUME NEW s \in SUBSET S, Cardinality(s) = 0
        PROVE  s = {}
    BY <1>2, <2>1, FS_EmptySet
  <2> QED BY <1>1, <2>1
<1>4. ASSUME NEW n \in Nat, n \in G
      PROVE  n + 1 \in G
  <2>1. ASSUME NEW s \in SUBSET S, Cardinality(s) = n + 1
        PROVE  h[s] = k[s]
    <3> DEFINE x == CHOOSE x \in s : TRUE
    <3>1. s # {}
      BY <2>1, FS_EmptySet
    <3>2. x \in s
      BY <3>1
    <3>3. Cardinality(s \ {x}) = n /\ s \ {x} \in SUBSET S
      <4> HIDE DEF x
      <4>1. IsFiniteSet(s)
        BY <1>2
      <4>2. Cardinality(s \ {x}) = Cardinality(s) - 1
        BY <3>2, <4>1, FS_RemoveElement
      <4> QED BY <2>1, <4>2
    <3>4. h[s \ {x}] = k[s \ {x}]
      BY <1>4, <3>3
    <3> QED BY <1>1, <3>1, <3>4
  <2> QED BY <2>1
<1>5. Nat \subseteq G
  <2> HIDE DEF G
  <2> QED BY <1>3, <1>4, NaturalsIn
<1>6. Cardinality(S) \in Nat
  BY FS_CardinalityType
<1> QED BY <1>5, <1>6

\* It is the one that SumFunction uses.
LEMMA SumFunctionSums ==
  ASSUME NEW f, IsFiniteSet(DOMAIN f), NEW h, SumsUpto(h, f, DOMAIN f)
  PROVE  D!SumFunction(f) = h[DOMAIN f]
<1> DEFINE k == CHOOSE k : SumsUpto(k, f, DOMAIN f)
<1>1. D!SumFunction(f) = k[DOMAIN f]
  BY DEF D!SumFunction, D!SumFunctionOnSet, D!FoldFunctionOnSet, D!MapThenFoldSet, SumsUpto
<1>2. SumsUpto(k, f, DOMAIN f)
  OBVIOUS
<1> HIDE DEF k
<1>3. k[DOMAIN f] = h[DOMAIN f]
  BY <1>2, SumsUnique
<1> QED BY <1>1, <1>3

\* Rows that are put into buckets are counted once: the sum over the buckets
\* of the rows that fall into each is the number of rows.
LEMMA BucketsCount ==
  ASSUME NEW R, IsFiniteSet(R), NEW S, IsFiniteSet(S), NEW g \in [R -> S],
         NEW f, DOMAIN f = S, \A b \in S : f[b] = Cardinality({r \in R : g[r] = b})
  PROVE  D!SumFunction(f) = Cardinality(R)
<1> DEFINE In(s) == {r \in R : g[r] \in s}
           h == [s \in SUBSET S |-> Cardinality(In(s))]
<1>1. \A s : IsFiniteSet(In(s)) /\ Cardinality(In(s)) \in Nat
  BY FS_Subset, FS_CardinalityType
<1>2. ASSUME NEW s \in SUBSET S, NEW x \in s
      PROVE  h[s] = f[x] + h[s \ {x}]
  <2> DEFINE A == {r \in R : g[r] = x}
             B == In(s \ {x})
  <2>1. In(s) = A \cup B /\ A \cap B = {}
    OBVIOUS
  <2>2. IsFiniteSet(A) /\ IsFiniteSet(B)
    BY FS_Subset
  <2>3. Cardinality(In(s)) = Cardinality(A) + Cardinality(B) - Cardinality(A \cap B)
    <3> HIDE DEF A, B
    <3> QED BY <2>1, <2>2, FS_Union
  <2>4. Cardinality(A \cap B) = 0
    <3> HIDE DEF A, B
    <3> QED BY <2>1, FS_EmptySet
  <2>5. Cardinality(A) \in Nat /\ Cardinality(B) \in Nat
    <3> HIDE DEF A, B
    <3> QED BY <2>2, FS_CardinalityType
  <2>6. h[s] = Cardinality(In(s)) /\ h[s \ {x}] = Cardinality(B) /\ f[x] = Cardinality(A)
    OBVIOUS
  <2> HIDE DEF h, A, B, In
  <2> QED BY <2>3, <2>4, <2>5, <2>6
<1>3. h[{}] = 0
  BY FS_EmptySet
<1>4. SumsUpto(h, f, S)
  <2>1. ASSUME NEW s \in SUBSET S
        PROVE  h[s] = IF s = {} THEN 0
                      ELSE f[CHOOSE x \in s : TRUE] + h[s \ {CHOOSE x \in s : TRUE}]
    <3>1. CASE s = {}
      BY <1>3, <3>1
    <3>2. CASE s # {}
      <4>1. (CHOOSE x \in s : TRUE) \in s
        BY <3>2
      <4> HIDE DEF h
      <4> QED BY <1>2, <3>2, <4>1
    <3> QED BY <3>1, <3>2
  <2>2. h = [s \in SUBSET S |-> h[s]]
    OBVIOUS
  <2> DEFINE e == [s \in SUBSET S |->
         IF s = {} THEN 0 ELSE f[CHOOSE x \in s : TRUE] + h[s \ {CHOOSE x \in s : TRUE}]]
  <2>3. h = e
    <3> HIDE DEF h
    <3> QED BY <2>1, <2>2
  <2> HIDE DEF h
  <2> QED BY <2>3 DEF SumsUpto
<1>5. In(S) = R
  OBVIOUS
<1>6. h[S] = Cardinality(R)
  BY <1>5
<1> HIDE DEF h
<1> QED BY <1>4, <1>6, SumFunctionSums

-----------------------------------------------------------------------------
(* Division, and the larger of two numbers.                                *)

\* The whole part of a quotient.
LEMMA Divided ==
  ASSUME NEW a \in Nat, NEW d \in Nat \ {0}
  PROVE  a \div d \in Nat /\ (a \div d) * d <= a /\ a < (a \div d) * d + d
OBVIOUS

\* What is below c times d is in one of c buckets of the size d.
LEMMA BucketBelow ==
  ASSUME NEW a \in Nat, NEW c \in Nat, NEW d \in Nat \ {0}, a < c * d
  PROVE  a \div d \in 0 .. c - 1
<1> DEFINE q == a \div d
<1>1. q \in Nat /\ q * d <= a
  BY Divided
<1> HIDE DEF q
<1>2. q < c
  BY <1>1
<1> QED BY <1>1, <1>2 DEF q

\* What is in one of them is below c times d.
LEMMA BelowBucket ==
  ASSUME NEW a \in Nat, NEW c \in Nat, NEW d \in Nat \ {0}, a \div d \in 0 .. c - 1
  PROVE  a < c * d
<1> DEFINE q == a \div d
<1>1. q \in Nat /\ a < q * d + d
  BY Divided
<1>2. q + 1 <= c
  OBVIOUS
<1> HIDE DEF q
<1>3. (q + 1) * d <= c * d
  BY <1>1, <1>2
<1> QED BY <1>1, <1>3

\* Buckets enough to cover a window: CeilDiv rounds up.
LEMMA CeilCovers ==
  ASSUME NEW n \in Nat, NEW d \in Nat \ {0}
  PROVE  D!CeilDiv(n, d) \in Nat /\ n <= D!CeilDiv(n, d) * d
<1> DEFINE a == n + d - 1
           q == a \div d
<1>1. a \in Nat
  OBVIOUS
<1>2. q \in Nat /\ a < q * d + d
  <2> HIDE DEF a
  <2> QED BY <1>1, Divided
<1>3. D!CeilDiv(n, d) = q
  BY DEF D!CeilDiv
<1> HIDE DEF q
<1> QED BY <1>2, <1>3

\* A quotient that is rounded to the nearest number is a natural.
LEMMA RoundType ==
  ASSUME NEW n \in Nat
  PROVE  D!RoundHalfEven(n, 40) \in Nat
<1>1. n \div 40 \in Nat
  BY Divided
<1> QED BY <1>1 DEF D!RoundHalfEven

\* Max and Min of two numbers.
LEMMA MaxMin ==
  ASSUME NEW a \in Int, NEW b \in Int
  PROVE  /\ D!Max({a, b}) \in {a, b} /\ D!Max({a, b}) >= a /\ D!Max({a, b}) >= b
         /\ D!Min({a, b}) \in {a, b} /\ D!Min({a, b}) <= a /\ D!Min({a, b}) <= b
<1>1. \E x \in {a, b} : \A y \in {a, b} : x >= y
  OBVIOUS
<1>2. \E x \in {a, b} : \A y \in {a, b} : x <= y
  OBVIOUS
<1>3. D!Max({a, b}) \in {a, b} /\ \A y \in {a, b} : D!Max({a, b}) >= y
  BY <1>1 DEF D!Max
<1>4. D!Min({a, b}) \in {a, b} /\ \A y \in {a, b} : D!Min({a, b}) <= y
  BY <1>2 DEF D!Min
<1> QED BY <1>3, <1>4

-----------------------------------------------------------------------------
(* The newest rows of a set of rows with ids of their own.                 *)

Identified(rows) ==
  /\ IsFiniteSet(rows)
  /\ \A row \in rows : row.id \in Nat
  /\ \A row, other \in rows : row.id = other.id => row = other

\* Each row has its own place: as many rows are newer as are placed before it,
\* and every place is taken.
LEMMA NewerPlaces ==
  ASSUME NEW rows, Identified(rows)
  PROVE  /\ Cardinality(rows) \in Nat
         /\ \A row \in rows : D!Newer(rows, row) \in 0 .. Cardinality(rows) - 1
         /\ \A row, other \in rows : row.id < other.id => D!Newer(rows, other) < D!Newer(rows, row)
         /\ \A k \in 0 .. Cardinality(rows) - 1 : \E row \in rows : D!Newer(rows, row) = k
<1> DEFINE Above(row) == {other \in rows : other.id > row.id}
           N == Cardinality(rows)
<1>1. N \in Nat
  BY FS_CardinalityType DEF Identified
<1>2. ASSUME NEW row \in rows
      PROVE  IsFiniteSet(Above(row)) /\ Cardinality(Above(row)) \in Nat
  BY FS_Subset, FS_CardinalityType DEF Identified
<1>3. ASSUME NEW row \in rows
      PROVE  D!Newer(rows, row) \in 0 .. N - 1
  <2>1. Above(row) \in SUBSET rows /\ row \notin Above(row)
    BY DEF Identified
  <2>2. Above(row) # rows
    BY <2>1
  <2>3. Cardinality(Above(row)) <= N /\ Cardinality(Above(row)) # N
    BY <2>1, <2>2, FS_Subset DEF Identified
  <2>4. D!Newer(rows, row) = Cardinality(Above(row))
    BY SameCardinality DEF D!Newer
  <2> HIDE DEF N, Above
  <2> QED BY <1>1, <1>2, <2>3, <2>4
<1>4. ASSUME NEW row \in rows, NEW other \in rows, row.id < other.id
      PROVE  D!Newer(rows, other) < D!Newer(rows, row)
  <2>1. Above(other) \in SUBSET Above(row) /\ other \in Above(row) /\ other \notin Above(other)
    BY <1>4 DEF Identified
  <2>2. Above(other) # Above(row)
    BY <2>1
  <2>3. Cardinality(Above(other)) <= Cardinality(Above(row))
        /\ Cardinality(Above(other)) # Cardinality(Above(row))
    <3> HIDE DEF Above
    <3> QED BY <1>2, <2>1, <2>2, FS_Subset
  <2>4. /\ D!Newer(rows, row) = Cardinality(Above(row))
        /\ D!Newer(rows, other) = Cardinality(Above(other))
    BY SameCardinality DEF D!Newer
  <2> HIDE DEF Above
  <2> QED BY <1>2, <2>3, <2>4
<1>5. ASSUME NEW k \in 0 .. N - 1
      PROVE  \E row \in rows : D!Newer(rows, row) = k
  <2> DEFINE place == [row \in rows |-> D!Newer(rows, row)]
             T == 0 .. N - 1
  <2>1. place \in [rows -> T]
    BY <1>3
  <2>2. ASSUME NEW row \in rows, NEW other \in rows, place[row] = place[other]
        PROVE  row = other
    <3>1. D!Newer(rows, row) = D!Newer(rows, other) /\ D!Newer(rows, row) \in Nat
      BY <1>1, <1>3, <2>2
    <3>2. ~(row.id < other.id) /\ ~(other.id < row.id)
      BY <1>4, <3>1
    <3>3. row.id = other.id
      BY <3>2 DEF Identified
    <3> QED BY <3>3 DEF Identified
  <2>3. place \in Injection(rows, T)
    <3> HIDE DEF place, T
    <3> QED BY <2>1, <2>2 DEF Injection, IsInjective
  <2>4. IsFiniteSet(T) /\ Cardinality(T) = N
    BY <1>1, FS_Interval
  <2>5. place \in Surjection(rows, T)
    <3> HIDE DEF place, T
    <3> QED BY <2>3, <2>4, FS_Injection
  <2>6. \A t \in T : \E row \in rows : place[row] = t
    <3> HIDE DEF place, T
    <3> QED BY <2>5 DEF Surjection
  <2> QED BY <2>6
<1> QED BY <1>1, <1>3, <1>4, <1>5

\* A page of the newest n rows: as many as there are of n, each in its place,
\* and no row that is not on it is newer than one that is.
Foremost(rows, n, page) ==
  /\ page \in Seq(rows)
  /\ Len(page) <= n /\ Len(page) \in {n, Cardinality(rows)}
  /\ DOMAIN page = 1 .. Len(page)
  /\ \A i \in 1 .. Len(page) : D!Newer(rows, page[i]) = i - 1
  /\ \A i, j \in 1 .. Len(page) : i < j => page[i].id > page[j].id
  /\ \A row \in rows : D!Newer(rows, row) < n =>
       D!Newer(rows, row) + 1 \in 1 .. Len(page) /\ page[D!Newer(rows, row) + 1] = row
  /\ \A row \in rows : D!Newer(rows, row) >= n =>
       Len(page) = n /\ \A i \in 1 .. n : row.id < page[i].id

LEMMA NewestRows ==
  ASSUME NEW rows, Identified(rows), NEW n \in Nat
  PROVE  Foremost(rows, n, D!Newest(rows, n))
<1> DEFINE N == Cardinality(rows)
           m == D!Min({n, N})
           page == D!Newest(rows, n)
<1>1. /\ N \in Nat
      /\ \A row \in rows : D!Newer(rows, row) \in 0 .. N - 1
      /\ \A row, other \in rows : row.id < other.id => D!Newer(rows, other) < D!Newer(rows, row)
      /\ \A k \in 0 .. N - 1 : \E row \in rows : D!Newer(rows, row) = k
  BY NewerPlaces
<1>2. m \in {n, N} /\ m <= n /\ m <= N
  <2>1. n \in Int /\ N \in Int
    BY <1>1
  <2> HIDE DEF N
  <2> QED BY <2>1, MaxMin
<1>3. page = [i \in 1 .. m |-> CHOOSE row \in rows : D!Newer(rows, row) = i - 1]
  <2>1. D!Cardinality(rows) = N
    BY SameCardinality
  <2> HIDE DEF N
  <2> QED BY <2>1 DEF D!Newest
<1> HIDE DEF N, m, page
<1>4. m \in Nat
  BY <1>1, <1>2
<1>5. ASSUME NEW i \in 1 .. m
      PROVE  page[i] \in rows /\ D!Newer(rows, page[i]) = i - 1
  <2>1. i - 1 \in 0 .. N - 1
    BY <1>1, <1>2, <1>4
  <2>2. \E row \in rows : D!Newer(rows, row) = i - 1
    BY <1>1, <2>1
  <2> QED BY <1>3, <2>2
<1>6. page \in [1 .. m -> rows]
  BY <1>3, <1>5
<1>7. page \in Seq(rows) /\ Len(page) = m
  BY <1>4, <1>6, SeqDef, LenProperties
<1>8. \A row, other \in rows : D!Newer(rows, row) < D!Newer(rows, other) => row.id > other.id
  <2> SUFFICES ASSUME NEW row \in rows, NEW other \in rows,
                      D!Newer(rows, row) < D!Newer(rows, other)
               PROVE  row.id > other.id
    OBVIOUS
  <2>1. D!Newer(rows, row) \in Int /\ D!Newer(rows, other) \in Int
    BY <1>1
  <2>2. row.id # other.id
    BY <2>1 DEF Identified
  <2>3. ~(row.id < other.id)
    BY <1>1, <2>1
  <2> QED BY <2>2, <2>3 DEF Identified
<1>9. \A i, j \in 1 .. m : i < j => page[i].id > page[j].id
  BY <1>4, <1>5, <1>8
<1>10. ASSUME NEW row \in rows, D!Newer(rows, row) < n
       PROVE  D!Newer(rows, row) + 1 \in 1 .. m /\ page[D!Newer(rows, row) + 1] = row
  <2>1. D!Newer(rows, row) \in 0 .. N - 1
    BY <1>1
  <2>2. D!Newer(rows, row) + 1 \in 1 .. m
    BY <1>1, <1>2, <1>10, <2>1
  <2>3. LET r == page[D!Newer(rows, row) + 1] IN r \in rows /\ D!Newer(rows, r) = D!Newer(rows, row)
    BY <1>5, <2>1, <2>2
  <2> DEFINE r == page[D!Newer(rows, row) + 1]
  <2>4. r \in rows /\ D!Newer(rows, r) = D!Newer(rows, row)
    BY <2>3
  <2> HIDE DEF r
  <2>5. ~(row.id < r.id) /\ ~(r.id < row.id)
    BY <1>1, <2>1, <2>4
  <2>6. row = r
    BY <2>4, <2>5 DEF Identified
  <2> QED BY <2>2, <2>6 DEF r
<1>11. ASSUME NEW row \in rows, D!Newer(rows, row) >= n
       PROVE  m = n /\ \A i \in 1 .. n : row.id < page[i].id
  <2>1. D!Newer(rows, row) \in 0 .. N - 1
    BY <1>1
  <2>2. m = n
    BY <1>1, <1>2, <1>11, <2>1
  <2>3. ASSUME NEW i \in 1 .. n PROVE row.id < page[i].id
    <3>1. page[i] \in rows /\ D!Newer(rows, page[i]) < D!Newer(rows, row)
      BY <1>5, <1>11, <2>1, <2>2
    <3>2. page[i].id > row.id
      BY <1>8, <3>1
    <3> QED BY <3>1, <3>2 DEF Identified
  <2> QED BY <2>2, <2>3
<1>12. DOMAIN page = 1 .. m
  BY <1>6
<1> QED BY <1>1, <1>2, <1>5, <1>7, <1>9, <1>10, <1>11, <1>12 DEF N, page, Foremost

-----------------------------------------------------------------------------
(* The inductive invariant of Dashboard.                                   *)

Row == [id : Nat, time : Nat, code : {Absent} \cup 100 .. 599, wait : Nat]

\* The log: rows of ids of their own, none given out yet to come, none later
\* than now.
Logged ==
  /\ now \in Nat /\ lastId \in Nat
  /\ IsFiniteSet(log) /\ log \subseteq Row
  /\ \A row \in log : row.id <= lastId /\ row.time <= now
  /\ \A row, other \in log : row.id = other.id => row = other

\* A reader got ids in order, and each row it began with that is still there
\* is among them or older than all of them, while it has more to read.
Reading ==
  /\ pages \in [got : Seq(Nat), base : SUBSET Nat, more : BOOLEAN]
  /\ \A id \in pages.base : id <= lastId
  /\ \A i, j \in 1 .. Len(pages.got) : i < j => pages.got[i] > pages.got[j]
  /\ pages.more => Len(pages.got) # 0
  /\ \A row \in log : row.id \in pages.base =>
       \/ \E i \in 1 .. Len(pages.got) : pages.got[i] = row.id
       \/ pages.more /\ row.id < pages.got[Len(pages.got)]

\* A range has buckets enough for its window.
Covering(range) ==
  /\ range.window \in Nat /\ range.count \in Nat /\ range.size \in Nat \ {0}
  /\ range.window <= range.count * range.size

\* A record of these fields.
Fielded(c) == c = [stage |-> c.stage, oldest |-> c.oldest, range |-> c.range, rows |-> c.rows,
                   known |-> c.known, read |-> c.read, at |-> c.at]

\* A reader of a chart: nothing it knows of is older than the oldest time it
\* read, then its range has all of that in its window, and what it selected
\* is rows of the past, among them all it knows of unless a clock was later.
Charting ==
  /\ Fielded(chart)
  /\ chart.stage \in {"none", "oldest", "ranged", "selected"}
  /\ chart.known \subseteq Row
  /\ chart.stage = "oldest" =>
       \/ chart.oldest = Absent /\ chart.known = {}
       \/ chart.oldest \in Nat /\ chart.oldest <= now
            /\ \A row \in chart.known : chart.oldest <= row.time
  /\ chart.stage \in {"ranged", "selected"} =>
       /\ Covering(chart.range) /\ chart.read \in Nat
       /\ \A row \in chart.known : chart.read - row.time < chart.range.window
  /\ chart.stage = "selected" =>
       /\ IsFiniteSet(chart.rows) /\ chart.rows \subseteq Row
       /\ \A row \in chart.rows : row.time <= now
       /\ chart.at + Skew <= chart.read => chart.known \subseteq chart.rows

Counted(counts) ==
  (IF Len(counts) >= 1 THEN counts[1] ELSE 0) + (IF Len(counts) >= 2 THEN counts[2] ELSE 0)
    + (IF Len(counts) = 3 THEN counts[3] ELSE 0)

\* The counts of the alerts are of rows of the statuses that were asked for,
\* and every row that was in the window throughout is one, if of such a status.
Alerting ==
  /\ alert.counts \in Seq(Nat) /\ Len(alert.counts) \in 0 .. 3
  /\ IsFiniteSet(alert.rows) /\ alert.rows \subseteq Row /\ alert.throughout \subseteq Row
  /\ \A row \in alert.rows :
       \E k \in 1 .. Len(alert.counts) : D!SqlStatus(row, D!AlertOrder[k])
  /\ \A row \in alert.throughout : \A k \in 1 .. Len(alert.counts) :
       D!SqlStatus(row, D!AlertOrder[k]) => row \in alert.rows
  /\ Counted(alert.counts) = Cardinality(alert.rows)

DashInv == Logged /\ Reading /\ Charting /\ Alerting

\* The log, and any part of it, is of rows with ids of their own.
LEMMA LogIdentified ==
  ASSUME Logged, NEW rows \in SUBSET log
  PROVE  Identified(rows)
<1>1. IsFiniteSet(rows)
  BY FS_Subset DEF Logged
<1>2. \A row \in log : row.id \in Nat
  BY DEF Logged, Row
<1> QED BY <1>1, <1>2 DEF Logged, Identified

\* A page: ids in order, older than where it begins, and every row that it
\* could have and has not is older than the last one it has, and announced.
LEMMA PageReads ==
  ASSUME Logged, NEW before \in Nat \cup {Absent}
  PROVE  LET page == D!Page(before)
             ids == D!Ids(page)
         IN /\ ids \in Seq(Nat)
            /\ D!HasMore(page) \in BOOLEAN
            /\ D!HasMore(page) => Len(ids) # 0
            /\ \A i \in 1 .. Len(ids) : before # Absent => ids[i] < before
            /\ \A i, j \in 1 .. Len(ids) : i < j => ids[i] > ids[j]
            /\ \A row \in log : before = Absent \/ row.id < before =>
                 \/ \E i \in 1 .. Len(ids) : ids[i] = row.id
                 \/ D!HasMore(page) /\ row.id < ids[Len(ids)]
<1> DEFINE rows == {row \in log : before = Absent \/ row.id < before}
           page == D!Page(before)
           ids == D!Ids(page)
<1>1. Identified(rows)
  <2>1. rows \in SUBSET log
    OBVIOUS
  <2> HIDE DEF rows
  <2> QED BY <2>1, LogIdentified
<1>2. page = D!Newest(rows, Limit)
  BY DEF D!Page
<1>3. Limit \in Nat \ {0} /\ Absent \notin Nat
  BY RowsAssumption, OutcomesAssumption
<1>4. \A row \in rows : row \in log /\ row.id \in Nat /\ (before # Absent => row.id < before)
  BY <1>1 DEF Identified
<1> HIDE DEF page
<1>5. /\ page \in Seq(rows)
      /\ DOMAIN page = 1 .. Len(page)
      /\ \A i, j \in 1 .. Len(page) : i < j => page[i].id > page[j].id
      /\ \A row \in rows : D!Newer(rows, row) < Limit =>
           D!Newer(rows, row) + 1 \in 1 .. Len(page) /\ page[D!Newer(rows, row) + 1] = row
      /\ \A row \in rows : D!Newer(rows, row) >= Limit =>
           Len(page) = Limit /\ \A i \in 1 .. Limit : row.id < page[i].id
  <2> HIDE DEF rows
  <2>1. Foremost(rows, Limit, page)
    BY <1>1, <1>2, <1>3, NewestRows
  <2> QED BY <2>1 DEF Foremost
<1>6. Len(page) \in Nat /\ \A i \in 1 .. Len(page) : page[i] \in rows
  <2> HIDE DEF rows
  <2> QED BY <1>5, LenProperties, ElementOfSeq
<1>7. ids = [i \in 1 .. Len(page) |-> page[i].id]
  BY <1>5 DEF D!Ids
<1>8. D!HasMore(page) <=> Len(page) = Limit
  BY DEF D!HasMore
<1> HIDE DEF ids, rows
<1>9. \A i \in 1 .. Len(page) : ids[i] = page[i].id /\ ids[i] \in Nat
  BY <1>4, <1>6, <1>7
<1>10. ids \in Seq(Nat) /\ Len(ids) = Len(page)
  <2>1. ids \in [1 .. Len(page) -> Nat]
    BY <1>7, <1>9
  <2> QED BY <1>6, <2>1, SeqDef, LenProperties
<1>11. D!HasMore(page) \in BOOLEAN
  BY DEF D!HasMore
<1>12. D!HasMore(page) => Len(ids) # 0
  BY <1>3, <1>8, <1>10
<1>13. \A i \in 1 .. Len(ids) : before # Absent => ids[i] < before
  BY <1>4, <1>6, <1>9, <1>10
<1>14. \A i, j \in 1 .. Len(ids) : i < j => ids[i] > ids[j]
  BY <1>5, <1>9, <1>10
<1>15. ASSUME NEW row \in log, before = Absent \/ row.id < before
       PROVE  \/ \E i \in 1 .. Len(ids) : ids[i] = row.id
              \/ D!HasMore(page) /\ row.id < ids[Len(ids)]
  <2>1. row \in rows
    BY <1>15 DEF rows
  <2>2. D!Newer(rows, row) \in Nat
    <3>1. Cardinality(rows) \in Nat /\ D!Newer(rows, row) \in 0 .. Cardinality(rows) - 1
      BY <1>1, <2>1, NewerPlaces
    <3> QED BY <3>1
  <2>3. CASE D!Newer(rows, row) < Limit
    <3>1. LET i == D!Newer(rows, row) + 1 IN i \in 1 .. Len(page) /\ page[i] = row
      BY <1>5, <2>1, <2>3
    <3> QED BY <1>9, <1>10, <3>1
  <2>4. CASE D!Newer(rows, row) >= Limit
    <3>1. Len(page) = Limit /\ \A i \in 1 .. Limit : row.id < page[i].id
      BY <1>5, <2>1, <2>4
    <3>2. row.id < page[Limit].id /\ ids[Limit] = page[Limit].id
      BY <1>3, <1>9, <3>1
    <3> QED BY <1>8, <1>10, <3>1, <3>2
  <2> QED BY <1>3, <2>2, <2>3, <2>4
<1> QED BY <1>10, <1>11, <1>12, <1>13, <1>14, <1>15 DEF ids, page

LEMMA DashInit == D!Init => DashInv
<1> SUFFICES ASSUME D!Init PROVE DashInv
  OBVIOUS
<1> USE DEF D!Init
<1>1. Logged
  BY FS_EmptySet DEF Logged
<1>2. pages = [got |-> <<>>, base |-> {}, more |-> FALSE]
  BY DEF D!NotReading
<1>3. <<>> \in Seq(Nat) /\ Len(<<>>) = 0
  OBVIOUS
<1>4. Reading
  BY <1>2, <1>3 DEF Reading
<1>5. Charting
  BY DEF Charting, Fielded, D!NoChart
<1>6. Alerting
  <2>1. alert = [counts |-> <<>>, rows |-> {}, throughout |-> {}]
    BY DEF D!NoAlert
  <2>2. alert.counts = <<>> /\ alert.rows = {} /\ alert.throughout = {}
    BY <2>1
  <2>3. Counted(alert.counts) = 0
    BY <1>3, <2>2 DEF Counted
  <2> QED BY <1>3, <2>2, <2>3, FS_EmptySet DEF Alerting
<1> QED BY <1>1, <1>4, <1>5, <1>6 DEF DashInv

LEMMA RecordDash ==
  ASSUME DashInv, NEW outcome \in Outcomes, D!Record(outcome)
  PROVE  DashInv'
<1> DEFINE new == [id |-> lastId + 1, time |-> now - outcome.delay, code |-> outcome.code, wait |-> outcome.wait]
<1> USE DEF DashInv
<1>1. /\ lastId' = lastId + 1 /\ log' = log \cup {new}
      /\ now' = now /\ pages' = pages /\ chart' = chart /\ alert' = alert
      /\ outcome.delay <= now
  BY DEF D!Record
<1>2. new \in Row /\ new.id = lastId + 1 /\ new.time <= now
  <2>1. outcome.delay \in Nat /\ now \in Nat /\ lastId \in Nat
    BY OutcomesAssumption DEF Logged
  <2>2. now - outcome.delay \in Nat /\ now - outcome.delay <= now
    BY <1>1, <2>1
  <2> QED BY <2>1, <2>2, OutcomesAssumption DEF Row
<1> HIDE DEF new
<1>3. \A row \in log : row.id \in Nat /\ row.time \in Nat /\ row.id <= lastId
  BY DEF Logged, Row
<1>4. Logged'
  <2>1. IsFiniteSet(log')
    BY <1>1, FS_AddElement DEF Logged
  <2>2. \A row \in log' : row.id <= lastId' /\ row.time <= now'
    BY <1>1, <1>2, <1>3 DEF Logged
  <2>3. \A row, other \in log' : row.id = other.id => row = other
    BY <1>1, <1>2, <1>3 DEF Logged
  <2> QED BY <1>1, <1>2, <2>1, <2>2, <2>3 DEF Logged
<1>5. Reading'
  <2>1. \A id \in pages.base : id \in Nat /\ id <= lastId
    BY DEF Reading
  <2>2. \A id \in pages'.base : id <= lastId'
    BY <1>1, <2>1 DEF Logged
  <2>3. \A row \in log' : row.id \in pages'.base => row \in log
    BY <1>1, <1>2, <2>1 DEF Logged
  <2> QED BY <1>1, <2>2, <2>3 DEF Reading
<1>6. Charting' /\ Alerting'
  BY <1>1 DEF Charting, Alerting
<1> QED BY <1>4, <1>5, <1>6

LEMMA EraseDash ==
  ASSUME DashInv, D!Erase
  PROVE  DashInv'
<1> USE DEF DashInv
<1>1. PICK row \in log : log' = log \ {row}
  BY DEF D!Erase
<1>2. /\ now' = now /\ lastId' = lastId /\ pages' = pages
      /\ chart' = chart /\ alert' = alert
  BY DEF D!Erase
<1>3. IsFiniteSet(log')
  BY <1>1, FS_RemoveElement DEF Logged
<1>4. Logged'
  BY <1>1, <1>2, <1>3 DEF Logged
<1>5. Reading'
  BY <1>1, <1>2 DEF Reading
<1>6. Charting' /\ Alerting'
  BY <1>2 DEF Charting, Alerting
<1> QED BY <1>4, <1>5, <1>6

LEMMA PassDash ==
  ASSUME DashInv, NEW seconds \in Steps, D!Pass(seconds)
  PROVE  DashInv'
<1> USE DEF DashInv
<1>1. /\ now' = now + seconds /\ seconds \in Nat
      /\ log' = log /\ lastId' = lastId /\ pages' = pages
      /\ chart' = chart /\ alert' = alert
  BY StepsAssumption DEF D!Pass
<1>2. now' \in Nat /\ now <= now'
  BY <1>1 DEF Logged
<1>3. \A row \in log : row.time \in Nat /\ row.time <= now
  BY DEF Logged, Row
<1>4. \A row \in log : row.time <= now'
  BY <1>2, <1>3 DEF Logged
<1>5. Logged'
  BY <1>1, <1>2, <1>4 DEF Logged
<1>6. Reading' /\ Alerting'
  BY <1>1 DEF Reading, Alerting
<1>7. Charting'
  <2>1. \A row \in Row : row.time <= now => row.time <= now'
    BY <1>1, <1>2 DEF Logged, Row
  <2>2. \A t \in Nat : t <= now => t <= now'
    BY <1>1, <1>2 DEF Logged
  <2> QED BY <1>1, <2>1, <2>2 DEF Charting
<1> QED BY <1>5, <1>6, <1>7

LEMMA ReadFirstDash ==
  ASSUME DashInv, D!ReadFirst
  PROVE  DashInv'
<1> USE DEF DashInv
<1> DEFINE page == D!Page(Absent)
           ids == D!Ids(page)
<1>1. /\ pages' = [got |-> ids, base |-> {row.id : row \in log}, more |-> D!HasMore(page)]
      /\ log' = log /\ now' = now /\ lastId' = lastId /\ chart' = chart /\ alert' = alert
  BY DEF D!ReadFirst
<1>2. /\ ids \in Seq(Nat) /\ D!HasMore(page) \in BOOLEAN
      /\ D!HasMore(page) => Len(ids) # 0
      /\ \A i, j \in 1 .. Len(ids) : i < j => ids[i] > ids[j]
      /\ \A row \in log : \/ \E i \in 1 .. Len(ids) : ids[i] = row.id
                          \/ D!HasMore(page) /\ row.id < ids[Len(ids)]
  BY PageReads
<1> HIDE DEF ids, page
<1>3. \A row \in log : row.id \in Nat /\ row.id <= lastId
  BY DEF Logged, Row
<1>4. Logged'
  BY <1>1 DEF Logged
<1>5. Reading'
  BY <1>1, <1>2, <1>3 DEF Reading
<1>6. Charting' /\ Alerting'
  BY <1>1 DEF Charting, Alerting
<1> QED BY <1>4, <1>5, <1>6

LEMMA ReadNextDash ==
  ASSUME DashInv, D!ReadNext
  PROVE  DashInv'
<1> USE DEF DashInv
<1> DEFINE got == pages.got
           before == D!Last(got)
           page == D!Page(before)
           ids == D!Ids(page)
<1>1. /\ pages' = [pages EXCEPT !.got = got \o ids, !.more = D!HasMore(page)]
      /\ pages.more
      /\ log' = log /\ now' = now /\ lastId' = lastId /\ chart' = chart /\ alert' = alert
  BY DEF D!ReadNext
<1>2. /\ got \in Seq(Nat) /\ Len(got) \in Nat \ {0}
      /\ \A i \in 1 .. Len(got) : got[i] \in Nat
      /\ pages \in [got : Seq(Nat), base : SUBSET Nat, more : BOOLEAN]
  <2>1. got \in Seq(Nat) /\ Len(got) # 0
    BY <1>1 DEF Reading
  <2> HIDE DEF got
  <2>2. Len(got) \in Nat /\ \A i \in 1 .. Len(got) : got[i] \in Nat
    BY <2>1, LenProperties, ElementOfSeq
  <2> QED BY <2>1, <2>2 DEF Reading
<1>3. before = got[Len(got)] /\ before \in Nat /\ before # Absent
  <2>1. before = got[Len(got)]
    BY DEF D!Last
  <2> HIDE DEF before, got
  <2>2. before \in Nat
    BY <1>2, <2>1
  <2> QED BY <2>1, <2>2, OutcomesAssumption
<1> HIDE DEF before
<1>4. /\ ids \in Seq(Nat) /\ D!HasMore(page) \in BOOLEAN
      /\ D!HasMore(page) => Len(ids) # 0
      /\ \A i \in 1 .. Len(ids) : ids[i] < before
      /\ \A i, j \in 1 .. Len(ids) : i < j => ids[i] > ids[j]
      /\ \A row \in log : row.id < before =>
           \/ \E i \in 1 .. Len(ids) : ids[i] = row.id
           \/ D!HasMore(page) /\ row.id < ids[Len(ids)]
  BY <1>3, PageReads
<1> HIDE DEF page, ids
<1> DEFINE all == got \o ids
<1>5. /\ all \in Seq(Nat) /\ Len(all) = Len(got) + Len(ids) /\ Len(ids) \in Nat
      /\ \A i \in 1 .. Len(all) :
           all[i] = IF i <= Len(got) THEN got[i] ELSE ids[i - Len(got)]
  <2> HIDE DEF got
  <2> QED BY <1>2, <1>4, ConcatProperties, LenProperties
<1>13. Len(all) = Len(got) + Len(ids) /\ Len(ids) \in Nat /\ Len(got) \in Nat
  BY <1>2, <1>5
<1>6. /\ pages'.got = all /\ pages'.base = pages.base /\ pages'.more = D!HasMore(page)
      /\ pages' \in [got : Seq(Nat), base : SUBSET Nat, more : BOOLEAN]
  <2>1. all \in Seq(Nat) /\ D!HasMore(page) \in BOOLEAN
    BY <1>4, <1>5
  <2> QED BY <1>1, <1>2, <2>1
<1>7. /\ \A i, j \in 1 .. Len(got) : i < j => got[i] > got[j]
      /\ \A row \in log : row.id \in pages.base =>
           (\E i \in 1 .. Len(got) : got[i] = row.id) \/ row.id < before
      /\ \A id \in pages.base : id <= lastId
  BY <1>3 DEF Reading
<1> HIDE DEF all, got
<1>8. \A i \in 1 .. Len(got) : got[i] >= before
  <2> SUFFICES ASSUME NEW i \in 1 .. Len(got) PROVE got[i] >= before
    OBVIOUS
  <2>1. CASE i = Len(got)
    BY <1>3, <2>1
  <2>2. CASE i # Len(got)
    BY <1>2, <1>3, <1>7, <2>2
  <2> QED BY <2>1, <2>2
<1>9. \A i, j \in 1 .. Len(all) : i < j => all[i] > all[j]
  <2> SUFFICES ASSUME NEW i \in 1 .. Len(all), NEW j \in 1 .. Len(all), i < j
               PROVE  all[i] > all[j]
    OBVIOUS
  <2>1. CASE j <= Len(got)
    <3>1. i \in 1 .. Len(got) /\ j \in 1 .. Len(got)
      BY <1>2, <1>5, <2>1
    <3>2. all[i] = got[i] /\ all[j] = got[j]
      BY <1>2, <1>5, <2>1, <3>1
    <3> QED BY <1>7, <3>1, <3>2
  <2>2. CASE i <= Len(got) /\ j > Len(got)
    <3>1. i \in 1 .. Len(got) /\ j - Len(got) \in 1 .. Len(ids)
      BY <1>2, <1>5, <2>2
    <3>2. all[i] = got[i] /\ all[j] = ids[j - Len(got)]
      BY <1>2, <1>5, <2>2
    <3>3. got[i] \in Nat /\ ids[j - Len(got)] \in Nat
      BY <1>2, <1>4, <3>1, ElementOfSeq
    <3>4. got[i] >= before /\ ids[j - Len(got)] < before
      BY <1>4, <1>8, <3>1
    <3> QED BY <1>3, <3>2, <3>3, <3>4
  <2>3. CASE i > Len(got)
    <3>1. i - Len(got) \in 1 .. Len(ids) /\ j - Len(got) \in 1 .. Len(ids)
          /\ i - Len(got) < j - Len(got)
      BY <1>13, <2>3
    <3>2. all[i] = ids[i - Len(got)] /\ all[j] = ids[j - Len(got)]
      BY <1>2, <1>5, <2>3
    <3> QED BY <1>4, <3>1, <3>2
  <2> QED BY <1>2, <1>5, <2>1, <2>2, <2>3
<1>10. ASSUME NEW row \in log, row.id \in pages.base
       PROVE  \/ \E i \in 1 .. Len(all) : all[i] = row.id
              \/ D!HasMore(page) /\ row.id < all[Len(all)]
  <2>1. CASE \E i \in 1 .. Len(got) : got[i] = row.id
    <3>1. PICK i \in 1 .. Len(got) : got[i] = row.id
      BY <2>1
    <3>2. i \in 1 .. Len(all) /\ all[i] = row.id
      BY <1>2, <1>5, <3>1
    <3> QED BY <3>2
  <2>2. CASE row.id < before
    <3>1. CASE \E i \in 1 .. Len(ids) : ids[i] = row.id
      <4>1. PICK i \in 1 .. Len(ids) : ids[i] = row.id
        BY <3>1
      <4> DEFINE k == i + Len(got)
      <4>2. k \in 1 .. Len(all) /\ ~(k <= Len(got)) /\ k - Len(got) = i
        BY <1>2, <1>5, <4>1
      <4> HIDE DEF k
      <4>3. all[k] = ids[i]
        BY <1>5, <4>2
      <4> QED BY <4>1, <4>2, <4>3
    <3>2. CASE D!HasMore(page) /\ row.id < ids[Len(ids)]
      <4>1. Len(ids) \in Nat \ {0}
        BY <1>4, <1>5, <3>2
      <4> DEFINE k == Len(all)
      <4>2. k \in 1 .. k /\ ~(k <= Len(got)) /\ k - Len(got) = Len(ids)
        BY <1>2, <1>5, <4>1
      <4>3. all[k] = ids[Len(ids)]
        <5>1. all[k] = IF k <= Len(got) THEN got[k] ELSE ids[k - Len(got)]
          BY <1>5, <4>2
        <5> HIDE DEF k
        <5> QED BY <4>2, <5>1
      <4> QED BY <3>2, <4>3
    <3> QED BY <1>4, <2>2, <3>1, <3>2
  <2> QED BY <1>7, <1>10, <2>1, <2>2
<1>11. Logged'
  BY <1>1 DEF Logged
<1>12. Reading'
  <2>1. Len(all) # 0
    BY <1>2, <1>5
  <2> QED BY <1>1, <1>6, <1>7, <1>9, <1>10, <2>1 DEF Reading
<1>14. Charting' /\ Alerting'
  BY <1>1 DEF Charting, Alerting
<1> QED BY <1>11, <1>12, <1>14

-----------------------------------------------------------------------------
(* Charts and alerts: statuses, windows and ranges, and then their steps.  *)

\* The conditions in SQL and the classification of the charts agree, and a
\* row has one status.
LEMMA StatusOnce ==
  ASSUME NEW row \in Row
  PROVE  /\ D!ChartStatus(row) \in D!Statuses
         /\ \A status \in D!Statuses : D!SqlStatus(row, status) <=> D!ChartStatus(row) = status
         /\ D!SqlError(row) <=> D!StatusLabel(row.code) = "error"
<1>1. /\ row.code = Absent \/ row.code \in 100 .. 599
      /\ row.wait \in Nat /\ Absent # 429
      /\ row.code = Absent => row.code \notin Int
  BY OutcomesAssumption DEF Row
<1>2. D!SqlError(row) <=> D!StatusLabel(row.code) = "error"
  BY <1>1 DEF D!SqlError, D!StatusLabel, D!Below
<1>3. D!SqlThrottled(row) <=> D!StatusLabel(row.code) = "429"
                              \/ (D!StatusLabel(row.code) = "success" /\ row.wait > 2000)
  BY <1>1 DEF D!SqlThrottled, D!StatusLabel, D!Below
<1>4. D!SqlSuccess(row) <=> D!StatusLabel(row.code) = "success" /\ ~(row.wait > 2000)
  BY <1>1 DEF D!SqlSuccess, D!StatusLabel, D!Below
<1>5. D!StatusLabel(row.code) \in {"error", "429", "success"}
  BY <1>1 DEF D!StatusLabel
<1>6. D!ChartStatus(row) = "error" <=> D!SqlError(row)
  BY <1>2, <1>5 DEF D!ChartStatus
<1>7. D!ChartStatus(row) = "throttled" <=> D!SqlThrottled(row)
  BY <1>3, <1>5 DEF D!ChartStatus
<1>8. D!ChartStatus(row) = "success" <=> D!SqlSuccess(row)
  BY <1>4, <1>5 DEF D!ChartStatus
<1>9. D!ChartStatus(row) \in D!Statuses
  BY <1>5 DEF D!ChartStatus, D!Statuses
<1> QED BY <1>2, <1>6, <1>7, <1>8, <1>9 DEF D!SqlStatus, D!Statuses

\* The rows of a window are some of the log, and a row's age is a natural.
LEMMA WindowRows ==
  ASSUME Logged, NEW seconds
  PROVE  /\ IsFiniteSet(D!Window(seconds)) /\ D!Window(seconds) \subseteq log
         /\ D!Window(seconds) = {row \in log : D!Age(row) + Skew < seconds}
         /\ \A row \in log : row \in Row /\ row.time <= now
<1>1. D!Window(seconds) = {row \in log : D!Age(row) + Skew < seconds}
  BY DEF D!Window
<1>2. D!Window(seconds) \in SUBSET log
  BY <1>1
<1>3. IsFiniteSet(D!Window(seconds))
  BY <1>2, FS_Subset DEF Logged
<1> QED BY <1>1, <1>2, <1>3 DEF Logged

\* The oldest time is the oldest.
LEMMA OldestTime ==
  ASSUME Logged
  PROVE  \/ log = {} /\ D!OldestTime = Absent
         \/ D!OldestTime \in Nat /\ D!OldestTime <= now
              /\ \A row \in log : D!OldestTime <= row.time
<1>1. CASE log = {}
  BY <1>1 DEF D!OldestTime
<1>2. CASE log # {}
  <2> DEFINE Times == {row.time : row \in log}
  <2>1. \A row \in log : row.time \in Nat /\ row.time <= now
    BY DEF Logged, Row
  <2>2. Times # {} /\ Times \subseteq Nat
    BY <1>2, <2>1
  <2>3. PICK t \in Times : \A u \in Times : ~(<<u, t>> \in OpToRel(<, Nat))
    <3> HIDE DEF Times
    <3> QED BY <2>2, NatLessThanWellFounded, WFMin, Zenon
  <2>4. \A u \in Times : t <= u
    <3> HIDE DEF Times
    <3>1. \A u \in Times : ~(u < t)
      BY <2>2, <2>3 DEF OpToRel
    <3> QED BY <2>2, <3>1
  <2>5. D!OldestTime = D!Min(Times)
    BY <1>2 DEF D!OldestTime
  <2>6. D!Min(Times) \in Times /\ \A u \in Times : D!Min(Times) <= u
    <3> HIDE DEF Times
    <3> QED BY <2>4 DEF D!Min
  <2> QED BY <2>1, <2>5, <2>6
<1> QED BY <1>1, <1>2

LEMMA PresetsCover == \A range \in D!Presets \cup {D!Hours} : Covering(range)
<1>1. Covering(D!Preset(300, 10))
  BY DEF D!Preset, Covering
<1>2. Covering(D!Preset(1800, 60))
  BY DEF D!Preset, Covering
<1>3. Covering(D!Preset(3600, 120))
  BY DEF D!Preset, Covering
<1>4. Covering(D!Preset(21600, 600))
  BY DEF D!Preset, Covering
<1>5. Covering(D!Preset(86400, 1800))
  BY DEF D!Preset, Covering
<1>8. Covering(D!Hours)
  BY DEF D!Hours, D!Preset, Covering
<1>6. SUFFICES ASSUME NEW range \in D!Presets \cup {D!Hours} PROVE Covering(range)
  OBVIOUS
<1>7. \/ range = D!Preset(300, 10) \/ range = D!Preset(1800, 60)
      \/ range = D!Preset(3600, 120) \/ range = D!Preset(21600, 600)
      \/ range = D!Preset(86400, 1800) \/ range = D!Hours
  BY <1>6 DEF D!Presets
<1> QED BY <1>1, <1>2, <1>3, <1>4, <1>5, <1>7, <1>8

\* ... and the range of "all" is longer than the oldest age.
LEMMA AllCovers ==
  ASSUME NEW oldest \in Nat \cup {Absent}
  PROVE  /\ Covering(D!AllRange(oldest))
         /\ oldest \in Nat => oldest < D!AllRange(oldest).window
<1> DEFINE window == IF oldest = Absent THEN 300 ELSE D!Max({60, oldest + 1})
           size == D!Max({10, D!RoundHalfEven(window, 40)})
           count == D!CeilDiv(window, size)
<1>1. D!AllRange(oldest) = [window |-> window, size |-> size, count |-> count]
  BY DEF D!AllRange
<1>2. window \in Nat /\ (oldest \in Nat => oldest < window)
  <2>1. CASE oldest = Absent
    BY <2>1, OutcomesAssumption
  <2>2. CASE oldest # Absent
    <3>1. oldest \in Nat
      BY <2>2
    <3>2. D!Max({60, oldest + 1}) \in {60, oldest + 1} /\ D!Max({60, oldest + 1}) >= oldest + 1
      <4>1. oldest + 1 \in Int /\ 60 \in Int
        BY <3>1
      <4> HIDE DEF window
      <4> QED BY <4>1, MaxMin
    <3>3. window = D!Max({60, oldest + 1})
      BY <2>2
    <3> HIDE DEF window
    <3> QED BY <3>1, <3>2, <3>3
  <2> QED BY <2>1, <2>2
<1> HIDE DEF window
<1>3. size \in Nat \ {0}
  <2>1. D!RoundHalfEven(window, 40) \in Nat
    BY <1>2, RoundType
  <2>2. size \in {10, D!RoundHalfEven(window, 40)} /\ size >= 10
    BY <2>1, MaxMin
  <2> HIDE DEF size
  <2> QED BY <2>1, <2>2
<1> HIDE DEF size
<1>4. count \in Nat /\ window <= count * size
  BY <1>2, <1>3, CeilCovers
<1> HIDE DEF count
<1>5. Covering(D!AllRange(oldest))
  BY <1>1, <1>2, <1>3, <1>4 DEF Covering
<1> QED BY <1>1, <1>2, <1>5

LEMMA ChooseRangeDash ==
  ASSUME DashInv, NEW range \in D!Presets \cup {D!Hours}, D!ChooseRange(range)
  PROVE  DashInv'
<1> USE DEF DashInv
<1>1. /\ chart' = [D!NoChart EXCEPT !.stage = "ranged", !.range = range]
      /\ log' = log /\ now' = now /\ lastId' = lastId /\ pages' = pages /\ alert' = alert
  BY DEF D!ChooseRange
<1>2. /\ chart'.stage = "ranged" /\ chart'.range = range /\ chart'.known = {} /\ chart'.read = 0
      /\ Fielded(chart')
  <2>1. chart' = [stage |-> "ranged", oldest |-> Absent, range |-> range, rows |-> {}, known |-> {},
                  read |-> 0, at |-> 0]
    BY <1>1 DEF D!NoChart
  <2> QED BY <2>1 DEF Fielded
<1>3. Covering(range)
  BY PresetsCover
<1>4. Charting'
  BY <1>2, <1>3 DEF Charting
<1>5. Logged' /\ Reading' /\ Alerting'
  BY <1>1 DEF Logged, Reading, Alerting
<1> QED BY <1>4, <1>5

LEMMA ReadOldestDash ==
  ASSUME DashInv, D!ReadOldest
  PROVE  DashInv'
<1> USE DEF DashInv
<1>1. /\ chart' = [D!NoChart EXCEPT !.stage = "oldest", !.oldest = D!OldestTime, !.known = log]
      /\ log' = log /\ now' = now /\ lastId' = lastId /\ pages' = pages /\ alert' = alert
  BY DEF D!ReadOldest
<1>2. /\ chart'.stage = "oldest" /\ chart'.oldest = D!OldestTime /\ chart'.known = log
      /\ Fielded(chart')
  <2>1. chart' = [stage |-> "oldest", oldest |-> D!OldestTime, range |-> D!NoRange, rows |-> {},
                  known |-> log, read |-> 0, at |-> 0]
    BY <1>1 DEF D!NoChart
  <2> QED BY <2>1 DEF Fielded
<1>3. log \subseteq Row
  BY DEF Logged
<1>4. Charting'
  BY <1>1, <1>2, <1>3, OldestTime DEF Charting
<1>5. Logged' /\ Reading' /\ Alerting'
  BY <1>1 DEF Logged, Reading, Alerting
<1> QED BY <1>4, <1>5

LEMMA SizeRangeDash ==
  ASSUME DashInv, D!SizeRange
  PROVE  DashInv'
<1> USE DEF DashInv
<1> DEFINE age == IF chart.oldest = Absent THEN Absent ELSE now - chart.oldest
<1>1. /\ chart.stage = "oldest"
      /\ chart' = [chart EXCEPT !.stage = "ranged", !.read = now, !.range = D!AllRange(age)]
      /\ log' = log /\ now' = now /\ lastId' = lastId /\ pages' = pages /\ alert' = alert
  BY DEF D!SizeRange
<1> DEFINE range == D!AllRange(age)
<1>2. \/ age = Absent /\ chart.known = {}
      \/ age \in Nat /\ \A row \in chart.known : now - row.time <= age
  <2>1. CASE chart.oldest = Absent /\ chart.known = {}
    BY <2>1
  <2>2. CASE chart.oldest \in Nat /\ chart.oldest <= now
               /\ \A row \in chart.known : chart.oldest <= row.time
    <3>1. chart.oldest # Absent
      BY <2>2, OutcomesAssumption
    <3>2. age = now - chart.oldest
      BY <3>1
    <3>3. \A row \in chart.known : row.time \in Nat
      BY DEF Charting, Row
    <3> HIDE DEF age
    <3> QED BY <2>2, <3>2, <3>3 DEF Logged
  <2> QED BY <1>1, <2>1, <2>2 DEF Charting
<1> HIDE DEF age
<1>3. Covering(range) /\ (age \in Nat => age < range.window)
  <2>1. age \in Nat \cup {Absent}
    BY <1>2
  <2> QED BY <2>1, AllCovers
<1> HIDE DEF range
<1>4. /\ chart'.stage = "ranged" /\ chart'.read = now /\ chart'.range = range
      /\ chart'.known = chart.known /\ Fielded(chart')
  <2>1. chart' = [chart EXCEPT !.stage = "ranged", !.read = now, !.range = range]
    BY <1>1 DEF range
  <2>2. chart' = [stage |-> "ranged", oldest |-> chart.oldest, range |-> range, rows |-> chart.rows,
                  known |-> chart.known, read |-> now, at |-> chart.at]
    BY <2>1 DEF Charting, Fielded
  <2> QED BY <2>2 DEF Fielded
<1>5. \A row \in chart.known : now - row.time < range.window
  <2> SUFFICES ASSUME NEW row \in chart.known PROVE now - row.time < range.window
    OBVIOUS
  <2>1. age \in Nat /\ now - row.time <= age /\ age < range.window
    BY <1>2, <1>3
  <2>2. row.time \in Nat /\ now \in Nat /\ range.window \in Nat
    BY <1>3 DEF Logged, Charting, Row, Covering
  <2> QED BY <2>1, <2>2
<1>6. Charting'
  <2>1. chart.known \subseteq Row /\ now \in Nat
    BY DEF Charting, Logged
  <2> QED BY <1>3, <1>4, <1>5, <2>1 DEF Charting
<1>7. Logged' /\ Reading' /\ Alerting'
  BY <1>1 DEF Logged, Reading, Alerting
<1> QED BY <1>6, <1>7

LEMMA SelectRowsDash ==
  ASSUME DashInv, D!SelectRows
  PROVE  DashInv'
<1> USE DEF DashInv
<1> DEFINE W == D!Window(chart.range.window)
<1>1. /\ chart.stage = "ranged"
      /\ chart' = [chart EXCEPT !.stage = "selected", !.rows = W, !.known = chart.known \cap log,
                                !.at = now]
      /\ log' = log /\ now' = now /\ lastId' = lastId /\ pages' = pages /\ alert' = alert
  BY DEF D!SelectRows
<1>2. /\ IsFiniteSet(W) /\ W \subseteq log
      /\ W = {row \in log : D!Age(row) + Skew < chart.range.window}
      /\ \A row \in log : row \in Row /\ row.time <= now
  BY WindowRows
<1> HIDE DEF W
<1>3. /\ chart'.stage = "selected" /\ chart'.rows = W /\ chart'.known = chart.known \cap log
      /\ chart'.at = now /\ chart'.read = chart.read /\ chart'.range = chart.range
      /\ Fielded(chart')
  <2>1. chart' = [stage |-> "selected", oldest |-> chart.oldest, range |-> chart.range, rows |-> W,
                  known |-> chart.known \cap log, read |-> chart.read, at |-> now]
    BY <1>1 DEF Charting, Fielded
  <2> QED BY <2>1 DEF Fielded
<1>4. Covering(chart.range) /\ chart.read \in Nat
      /\ \A row \in chart.known : chart.read - row.time < chart.range.window
  BY <1>1 DEF Charting
<1>5. now + Skew <= chart.read => chart.known \cap log \subseteq W
  <2> SUFFICES ASSUME now + Skew <= chart.read, NEW row \in chart.known \cap log
               PROVE  row \in W
    OBVIOUS
  <2>1. row.time \in Nat /\ now \in Nat /\ Skew \in Int /\ chart.range.window \in Nat
    BY <1>2, <1>4, StepsAssumption DEF Row, Logged, Covering
  <2>2. (now - row.time) + Skew < chart.range.window
    BY <1>4, <2>1
  <2> QED BY <1>2, <2>2 DEF D!Age
<1>6. Charting'
  BY <1>1, <1>2, <1>3, <1>4, <1>5 DEF Charting
<1>7. Logged' /\ Reading' /\ Alerting'
  BY <1>1 DEF Logged, Reading, Alerting
<1> QED BY <1>6, <1>7

\* The rows that a statement of the alerts counts are the rows of its status.
LEMMA CountedRows ==
  ASSUME Logged, NEW k \in 1 .. 3
  PROVE  LET rows == D!StatusSince(D!AlertOrder[k], D!AlertWindow)
             W == D!Window(D!AlertWindow)
         IN /\ IsFiniteSet(rows) /\ rows \subseteq Row /\ W \subseteq Row
            /\ Cardinality(rows) \in Nat /\ D!Cardinality(rows) = Cardinality(rows)
            /\ \A row \in W : row \in rows <=> D!SqlStatus(row, D!AlertOrder[k])
            /\ rows \subseteq W
<1> DEFINE rows == D!StatusSince(D!AlertOrder[k], D!AlertWindow)
           W == D!Window(D!AlertWindow)
<1>1. IsFiniteSet(W) /\ W \subseteq Row
  BY WindowRows
<1>2. rows = {row \in W : D!SqlStatus(row, D!AlertOrder[k])}
  BY DEF D!StatusSince
<1>3. rows \in SUBSET W
  BY <1>2
<1> HIDE DEF W, rows
<1>4. IsFiniteSet(rows) /\ Cardinality(rows) \in Nat
  BY <1>1, <1>3, FS_Subset, FS_CardinalityType
<1> QED BY <1>1, <1>2, <1>3, <1>4, SameCardinality DEF W, rows

LEMMA EvaluateAlertsDash ==
  ASSUME DashInv, D!EvaluateAlerts
  PROVE  DashInv'
<1> USE DEF DashInv
<1> DEFINE rows == D!StatusSince(D!AlertOrder[1], D!AlertWindow)
           W == D!Window(D!AlertWindow)
<1>1. /\ alert' = [counts |-> <<D!Cardinality(rows)>>, rows |-> rows, throughout |-> W]
      /\ log' = log /\ now' = now /\ lastId' = lastId /\ pages' = pages /\ chart' = chart
  BY DEF D!EvaluateAlerts
<1>2. /\ IsFiniteSet(rows) /\ rows \subseteq Row /\ W \subseteq Row
      /\ Cardinality(rows) \in Nat /\ D!Cardinality(rows) = Cardinality(rows)
      /\ \A row \in W : row \in rows <=> D!SqlStatus(row, D!AlertOrder[1])
      /\ rows \subseteq W
  BY CountedRows
<1> HIDE DEF rows, W
<1> DEFINE n == Cardinality(rows)
<1>3. alert'.counts = <<n>> /\ alert'.rows = rows /\ alert'.throughout = W
  BY <1>1, <1>2
<1>4. n \in Nat
  BY <1>2
<1> HIDE DEF n
<1>5. <<n>> \in Seq(Nat) /\ Len(<<n>>) = 1 /\ <<n>>[1] = n
  BY <1>4
<1>6. Counted(<<n>>) = n
  BY <1>4, <1>5 DEF Counted
<1>7. Alerting'
  BY <1>2, <1>3, <1>5, <1>6 DEF Alerting, n
<1>8. Logged' /\ Reading' /\ Charting'
  BY <1>1 DEF Logged, Reading, Charting
<1> QED BY <1>7, <1>8

LEMMA CountNextDash ==
  ASSUME DashInv, D!CountNext
  PROVE  DashInv'
<1> USE DEF DashInv
<1> DEFINE counts == alert.counts
           k == Len(alert.counts)
           rows == D!StatusSince(D!AlertOrder[k + 1], D!AlertWindow)
           W == D!Window(D!AlertWindow)
           before == alert.rows
           n == Cardinality(rows)
           more == Append(counts, n)
<1>1. /\ k \in {1, 2}
      /\ alert' = [counts |-> Append(counts, D!Cardinality(rows)), rows |-> before \cup rows,
                   throughout |-> alert.throughout \cap W]
      /\ log' = log /\ now' = now /\ lastId' = lastId /\ pages' = pages /\ chart' = chart
  BY DEF D!CountNext
<1>2. /\ counts \in Seq(Nat) /\ IsFiniteSet(before) /\ before \subseteq Row
      /\ alert.throughout \subseteq Row
      /\ \A row \in before : \E j \in 1 .. k : D!SqlStatus(row, D!AlertOrder[j])
      /\ \A row \in alert.throughout : \A j \in 1 .. k :
           D!SqlStatus(row, D!AlertOrder[j]) => row \in before
      /\ Counted(counts) = Cardinality(before)
  BY DEF Alerting
<1>3. Len(counts) = k
  OBVIOUS
<1> HIDE DEF k
<1>4. /\ IsFiniteSet(rows) /\ rows \subseteq Row /\ W \subseteq Row
      /\ n \in Nat /\ D!Cardinality(rows) = n
      /\ \A row \in W : row \in rows <=> D!SqlStatus(row, D!AlertOrder[k + 1])
      /\ rows \subseteq W
  <2>1. k + 1 \in 1 .. 3
    BY <1>1
  <2> QED BY <2>1, CountedRows
<1>5. alert'.counts = more /\ alert'.rows = before \cup rows /\ alert'.throughout = alert.throughout \cap W
  BY <1>1, <1>4
<1> HIDE DEF rows, W, before, n, counts
\* A row has one status: what is counted now was not counted before.
<1>6. before \cap rows = {}
  <2> SUFFICES ASSUME NEW row \in before, row \in rows PROVE FALSE
    OBVIOUS
  <2>1. row \in Row /\ D!SqlStatus(row, D!AlertOrder[k + 1])
    BY <1>4
  <2>2. PICK j \in 1 .. k : D!SqlStatus(row, D!AlertOrder[j])
    BY <1>2
  <2>3. /\ D!AlertOrder[j] \in D!Statuses /\ D!AlertOrder[k + 1] \in D!Statuses
        /\ D!AlertOrder[j] # D!AlertOrder[k + 1]
    BY <1>1, <2>2 DEF D!AlertOrder, D!Statuses
  <2> QED BY <2>1, <2>2, <2>3, StatusOnce
<1>7. IsFiniteSet(before \cup rows) /\ Cardinality(before \cup rows) = Cardinality(before) + n
  <2>1. Cardinality(before) \in Nat
    BY <1>2, FS_CardinalityType
  <2>2. /\ IsFiniteSet(before \cup rows)
        /\ Cardinality(before \cup rows)
             = Cardinality(before) + Cardinality(rows) - Cardinality(before \cap rows)
    BY <1>2, <1>4, FS_Union
  <2>3. Cardinality(before \cap rows) = 0
    BY <1>6, FS_EmptySet
  <2>4. Cardinality(rows) = n
    BY DEF n
  <2> QED BY <1>4, <2>1, <2>2, <2>3, <2>4
<1>8. /\ more \in Seq(Nat) /\ Len(more) = k + 1 /\ more[k + 1] = n
      /\ \A j \in 1 .. k : more[j] = counts[j]
  BY <1>2, <1>3, <1>4, AppendProperties
<1> HIDE DEF more
<1>9. Counted(more) = Counted(counts) + n
  <2>1. \A j \in 1 .. k : counts[j] \in Nat
    BY <1>2, <1>3, ElementOfSeq
  <2>2. CASE k = 1
    <3>1. Len(counts) = 1 /\ Len(more) = 2 /\ more[1] = counts[1] /\ more[2] = n /\ counts[1] \in Nat
      BY <1>3, <1>8, <2>1, <2>2
    <3> QED BY <1>4, <3>1 DEF Counted
  <2>3. CASE k = 2
    <3>1. /\ Len(counts) = 2 /\ Len(more) = 3 /\ more[1] = counts[1] /\ more[2] = counts[2]
          /\ more[3] = n /\ counts[1] \in Nat /\ counts[2] \in Nat
      BY <1>3, <1>8, <2>1, <2>3
    <3> QED BY <1>4, <3>1 DEF Counted
  <2> QED BY <1>1, <2>2, <2>3
<1>10. \A row \in before \cup rows : \E j \in 1 .. k + 1 : D!SqlStatus(row, D!AlertOrder[j])
  <2>1. \A j \in 1 .. k : j \in 1 .. k + 1
    BY <1>1
  <2>2. k + 1 \in 1 .. k + 1
    BY <1>1
  <2> QED BY <1>2, <1>4, <2>1, <2>2
<1>11. \A row \in alert.throughout \cap W : \A j \in 1 .. k + 1 :
         D!SqlStatus(row, D!AlertOrder[j]) => row \in before \cup rows
  <2>1. \A j \in 1 .. k + 1 : j \in 1 .. k \/ j = k + 1
    BY <1>1
  <2> QED BY <1>2, <1>4, <2>1
<1>12. Alerting'
  <2>1. k + 1 \in 0 .. 3
    BY <1>1
  <2> QED BY <1>2, <1>4, <1>5, <1>7, <1>8, <1>9, <1>10, <1>11, <2>1 DEF Alerting
<1>13. Logged' /\ Reading' /\ Charting'
  BY <1>1 DEF Logged, Reading, Charting
<1> QED BY <1>12, <1>13

\* DashInv is inductive.
LEMMA DashNext == DashInv /\ [D!Next]_(D!vars) => DashInv'
<1> SUFFICES ASSUME DashInv, [D!Next]_(D!vars) PROVE DashInv'
  OBVIOUS
<1>1. CASE D!LogNext
  BY <1>1, RecordDash, EraseDash, PassDash DEF D!LogNext
<1>2. CASE D!PagesNext
  BY <1>2, ReadFirstDash, ReadNextDash DEF D!PagesNext
<1>3. CASE D!ChartNext
  BY <1>3, ChooseRangeDash, ReadOldestDash, SizeRangeDash, SelectRowsDash DEF D!ChartNext
<1>4. CASE D!AlertNext
  BY <1>4, EvaluateAlertsDash, CountNextDash DEF D!AlertNext
<1>5. CASE UNCHANGED D!vars
  BY <1>5 DEF D!vars, DashInv, Logged, Reading, Charting, Alerting
<1> QED BY <1>1, <1>2, <1>3, <1>4, <1>5 DEF D!Next

LEMMA DashHolds == D!Spec => []DashInv
BY DashInit, DashNext, PTL DEF D!Spec

\* Whoever pages to the end while requests are logged and deleted has got
\* every request that was there when it began and still is, in order, and
\* none twice, however long the log and whatever the size of a page.
THEOREM PagesAlwaysComplete == D!Spec => [](PagesComplete /\ D!PagesComplete)
<1>1. DashInv => D!PagesComplete
  <2> SUFFICES ASSUME DashInv PROVE D!PagesComplete
    OBVIOUS
  <2> USE DEF DashInv
  <2>1. pages.got \in Seq(Nat) /\ DOMAIN pages.got = 1 .. Len(pages.got)
    BY DEF Reading
  <2>2. \A i, j \in DOMAIN pages.got : i < j => pages.got[i] > pages.got[j]
    BY <2>1 DEF Reading
  <2>3. D!ToSet(pages.got) = {pages.got[i] : i \in 1 .. Len(pages.got)}
    BY <2>1 DEF D!ToSet
  <2>4. ~pages.more => pages.base \cap {row.id : row \in log} \subseteq D!ToSet(pages.got)
    BY <2>3 DEF Reading
  <2> QED BY <2>2, <2>4 DEF D!PagesComplete
<1>2. D!PagesComplete => PagesComplete
  BY DEF PagesComplete
<1> QED BY <1>1, <1>2, DashHolds, PTL


-----------------------------------------------------------------------------
(* What charts, counters and alerts say of a log.                          *)

\* The buckets of a chart count each of its rows once that they cover.
LEMMA ChartedAll ==
  ASSUME DashInv, chart.stage = "selected", NEW status \in D!Statuses
  PROVE  D!Charted(status)
           = Cardinality({row \in chart.rows :
               D!SqlStatus(row, status) /\ D!Age(row) < chart.range.count * chart.range.size})
<1> DEFINE W == chart.rows
           c == chart.range.count
           d == chart.range.size
           n == c * d
           R == {row \in W : D!SqlStatus(row, status) /\ D!Age(row) < n}
           S == 0 .. c - 1
           g == [row \in R |-> D!BucketOf(chart.range, row)]
           f == [b \in S |-> D!Bucket(b, status)]
<1>1. IsFiniteSet(W) /\ \A row \in W : row \in Row /\ D!Age(row) \in Nat
  <2>1. IsFiniteSet(W) /\ W \subseteq Row /\ \A row \in W : row.time <= now
    BY DEF DashInv, Charting
  <2> HIDE DEF W
  <2>2. \A row \in W : row.time \in Nat /\ row.time <= now /\ now \in Nat
    BY <2>1 DEF DashInv, Logged, Row
  <2> QED BY <2>1, <2>2 DEF D!Age
<1>2. c \in Nat /\ d \in Nat \ {0}
  BY DEF DashInv, Charting, Covering
<1>3. \A row : D!BucketOf(chart.range, row) = c - 1 - (D!Age(row) \div d)
  BY DEF D!BucketOf
<1>4. \A b \in S : f[b] = D!Cardinality({row \in W :
                          D!BucketOf(chart.range, row) = b /\ D!ChartStatus(row) = status})
  BY DEF D!Bucket
<1>5. D!Charted(status) = D!SumFunction(f)
  BY DEF D!Charted
<1> HIDE DEF W, c, d
<1>6. IsFiniteSet(R)
  BY <1>1, FS_Subset
<1>7. IsFiniteSet(S)
  BY <1>2, FS_Interval
<1>8. ASSUME NEW row \in W
      PROVE  D!Age(row) < n <=> D!BucketOf(chart.range, row) \in S
  <2> DEFINE a == D!Age(row)
  <2>1. a \in Nat
    BY <1>1
  <2> HIDE DEF a
  <2>2. a < n => a \div d \in 0 .. c - 1
    BY <1>2, <2>1, BucketBelow
  <2>3. a \div d \in 0 .. c - 1 => a < n
    BY <1>2, <2>1, BelowBucket
  <2>4. a \div d \in Nat
    BY <1>2, <2>1, Divided
  <2>5. D!BucketOf(chart.range, row) = c - 1 - (a \div d)
    BY <1>3 DEF a
  <2> DEFINE q == a \div d
  <2> HIDE DEF q, n
  <2>6. q \in 0 .. c - 1 <=> c - 1 - q \in S
    BY <1>2, <2>4 DEF q
  <2> QED BY <2>2, <2>3, <2>5, <2>6 DEF a, q
<1>9. g \in [R -> S]
  BY <1>8
<1>10. ASSUME NEW b \in S
       PROVE  f[b] = Cardinality({row \in R : g[row] = b})
  <2>1. f[b] = Cardinality({row \in W : D!BucketOf(chart.range, row) = b /\ D!ChartStatus(row) = status})
    BY <1>4, SameCardinality
  <2>2. \A row \in W : D!SqlStatus(row, status) <=> D!ChartStatus(row) = status
    BY <1>1, StatusOnce
  <2> HIDE DEF n, f
  <2>3. {row \in W : D!BucketOf(chart.range, row) = b /\ D!ChartStatus(row) = status}
          = {row \in R : g[row] = b}
    BY <1>8, <2>2
  <2> QED BY <2>1, <2>3
<1>11. DOMAIN f = S
  OBVIOUS
<1>12. D!SumFunction(f) = Cardinality(R)
  <2> HIDE DEF R, S, f, g
  <2> QED BY <1>6, <1>7, <1>9, <1>10, <1>11, BucketsCount
<1> QED BY <1>5, <1>12 DEF W, c, d

LEMMA ChartsAlwaysExact ==
  ASSUME DashInv
  PROVE  D!ChartsExact
<1> SUFFICES ASSUME chart.stage = "selected" PROVE D!ChartsExact
  BY DEF D!ChartsExact
<1>1. chart.range.window <= chart.range.count * chart.range.size
  BY DEF DashInv, Charting, Covering
<1>2. \A status \in D!Statuses :
        D!Charted(status)
          = D!Cardinality({row \in chart.rows :
              D!SqlStatus(row, status) /\ D!Age(row) < chart.range.count * chart.range.size})
  BY ChartedAll, SameCardinality
<1> QED BY <1>1, <1>2 DEF D!ChartsExact

LEMMA RateAlwaysTrue ==
  ASSUME DashInv
  PROVE  D!ErrorRateTrue
<1> SUFFICES ASSUME Len(alert.counts) = 3
             PROVE  /\ alert.counts[1] + alert.counts[2] + alert.counts[3] = Cardinality(alert.rows)
                    /\ alert.throughout \subseteq alert.rows
  BY SameCardinality DEF D!ErrorRateTrue
<1>1. Counted(alert.counts) = alert.counts[1] + alert.counts[2] + alert.counts[3]
  BY DEF Counted
<1>2. ASSUME NEW row \in alert.throughout
      PROVE  row \in alert.rows
  <2>1. row \in Row
    BY DEF DashInv, Alerting
  <2>2. \E status \in D!Statuses : D!SqlStatus(row, status)
    BY <2>1, StatusOnce
  <2>3. \E k \in 1 .. 3 : D!SqlStatus(row, D!AlertOrder[k])
    BY <2>2 DEF D!Statuses, D!AlertOrder
  <2> QED BY <2>3 DEF DashInv, Alerting
<1> QED BY <1>1, <1>2 DEF DashInv, Alerting

LEMMA DownAlwaysDown ==
  ASSUME Logged
  PROVE  D!DownIsDown
<1> SUFFICES ASSUME D!AllFailed(3)
             PROVE  Cardinality({row \in log : D!SqlError(row) /\ D!Newer(log, row) < 3}) = 3
  BY SameCardinality DEF D!DownIsDown
<1> DEFINE page == D!Newest(log, 3)
           Last3 == {row \in log : D!SqlError(row) /\ D!Newer(log, row) < 3}
<1>1. Identified(log)
  BY LogIdentified
<1>2. Cardinality(log) \in Nat /\ Cardinality(log) >= 3
      /\ \A i \in DOMAIN page : D!StatusLabel(page[i].code) = "error"
  <2>1. Cardinality(log) \in Nat
    BY <1>1, NewerPlaces
  <2> QED BY <2>1, SameCardinality DEF D!AllFailed
<1> HIDE DEF Last3
<1>3. Foremost(log, 3, page)
  BY <1>1, NewestRows
<1> HIDE DEF page
<1>4. Len(page) = 3 /\ DOMAIN page = 1 .. 3 /\ page \in Seq(log)
  BY <1>2, <1>3 DEF Foremost
<1>5. \A i \in 1 .. 3 : page[i] \in log
  BY <1>4, ElementOfSeq
<1>14. \A i \in 1 .. 3 : D!Newer(log, page[i]) = i - 1
  BY <1>3, <1>4 DEF Foremost
<1>15. \A row \in log : D!Newer(log, row) < 3 =>
         D!Newer(log, row) + 1 \in 1 .. 3 /\ page[D!Newer(log, row) + 1] = row
  BY <1>3, <1>4 DEF Foremost
<1>6. \A i \in 1 .. 3 : D!Newer(log, page[i]) = i - 1 /\ D!SqlError(page[i])
  <2>1. \A row \in log : row \in Row
    BY DEF Logged
  <2> QED BY <1>2, <1>4, <1>5, <1>14, <2>1, StatusOnce
<1>7. \A i \in 1 .. 3 : page[i] \in Last3
  BY <1>5, <1>6 DEF Last3
<1>8. \A row \in Last3 : \E i \in 1 .. 3 : page[i] = row
  BY <1>15 DEF Last3
<1>9. \A i, j \in 1 .. 3 : page[i] = page[j] => i = j
  BY <1>6
<1>10. page \in [1 .. 3 -> Last3]
  <2>1. page = [i \in DOMAIN page |-> page[i]]
    BY <1>4
  <2> HIDE DEF Last3
  <2> QED BY <1>4, <1>7, <2>1
<1>11. page \in Bijection(1 .. 3, Last3)
  <2> HIDE DEF Last3
  <2> QED BY <1>8, <1>9, <1>10 DEF Bijection, Injection, IsInjective, Surjection
<1>12. IsFiniteSet(1 .. 3) /\ Cardinality(1 .. 3) = 3
  <2>1. 1 \in Int /\ 3 \in Int /\ ~(1 > 3) /\ 3 - 1 + 1 = 3
    OBVIOUS
  <2>2. IsFiniteSet(1 .. 3) /\ Cardinality(1 .. 3) = IF 1 > 3 THEN 0 ELSE 3 - 1 + 1
    BY <2>1, FS_Interval
  <2> QED BY <2>1, <2>2
<1>13. Cardinality(Last3) = Cardinality(1 .. 3)
  <2>1. ExistsBijection(1 .. 3, Last3)
    <3> HIDE DEF Last3
    <3> QED BY <1>11 DEF ExistsBijection
  <2> HIDE DEF Last3
  <2> QED BY <1>12, <2>1, FS_Bijection
<1> QED BY <1>12, <1>13 DEF Last3

LEMMA ErrorsAlwaysTyped ==
  ASSUME Logged
  PROVE  D!ErrorsHaveTypes
<1> SUFFICES ASSUME NEW row \in log, row.code # Absent
             PROVE  D!ErrorType(row.code) # "none" <=> ~D!Below(row.code, 400)
  BY DEF D!ErrorsHaveTypes
<1>1. row.code \in 100 .. 599
  BY DEF Logged, Row
<1> QED BY <1>1 DEF D!ErrorType, D!Below

\* Whatever was logged and deleted, whenever the clocks were read, and however
\* far apart they are: a chart of any range counts each request it selected
\* once, under the status the SQL conditions give it, unless it outgrew what
\* the buckets cover; that of "all" has every request that was there at first
\* and stayed, unless a clock moved on; the error rate is of counts that have
\* no request twice and every one that stayed; and three failures in a row are
\* told when there were three.
THEOREM StatisticsAlwaysAgree == D!Spec => [](StatisticsAgree /\ D!StatisticsAgree)
<1>1. DashInv => D!StatisticsAgree
  <2> SUFFICES ASSUME DashInv PROVE D!StatisticsAgree
    OBVIOUS
  <2>1. D!AllExact
    BY DEF DashInv, Charting, D!AllExact
  <2>2. D!ChartsExact /\ D!ErrorRateTrue
    BY ChartsAlwaysExact, RateAlwaysTrue
  <2>3. D!DownIsDown /\ D!ErrorsHaveTypes
    BY DownAlwaysDown, ErrorsAlwaysTyped DEF DashInv
  <2> QED BY <2>1, <2>2, <2>3 DEF D!StatisticsAgree
<1>2. D!StatisticsAgree => StatisticsAgree
  BY DEF StatisticsAgree
<1> QED BY <1>1, <1>2, DashHolds, PTL

-----------------------------------------------------------------------------
(* What MCConversions checks are behaviours of the two.                    *)

LEMMA ConversionsConverse == MCSpec => Spec
<1>1. MCInit => Init
  BY DEF MCInit
<1>2. [MCNext]_<<subject, shown, vars>> => [Next]_vars
  BY DEF MCNext, vars
<1> QED BY <1>1, <1>2, PTL DEF MCSpec, Spec

LEMMA ConversionsShow == MCSpec => D!Spec
<1>1. MCInit => D!Init
  BY DEF MCInit
<1>2. [MCNext]_<<subject, shown, vars>> => [D!Next]_(D!vars)
  BY DEF MCNext, shown, D!vars, D!Next
<1> QED BY <1>1, <1>2, PTL DEF MCSpec, D!Spec
=============================================================================
