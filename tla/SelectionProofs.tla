--------------------------- MODULE SelectionProofs ---------------------------
(***************************************************************************)
(* What Selection keeps of a queue, for any queue and any set of places:   *)
(* every place that is kept has one number, the numbers follow the order   *)
(* of the places, and the members that are kept are the ones asked for,    *)
(* each as often as it was.                                                *)
(***************************************************************************)
EXTENDS Selection, SequencesExt, FiniteSetTheorems, SequenceTheorems, TLAPS

\* A set of places of a queue is finite.
LEMMA PlacesAreFinite ==
    ASSUME NEW n \in Nat, NEW I \in SUBSET (1 .. n)
    PROVE  /\ IsFiniteSet(I) /\ Cardinality(I) \in Nat /\ Cardinality(I) <= n
PROOF
  <1>1. IsFiniteSet(1 .. n) /\ Cardinality(1 .. n) = n
    BY FS_Interval
  <1> QED
    BY <1>1, FS_Subset, FS_CardinalityType

\* A place is numbered by how many there are up to it.
Rank(I, i) == Cardinality({j \in I : j <= i})

\* Later places have higher numbers.
LEMMA RanksIncrease ==
    ASSUME NEW n \in Nat, NEW I \in SUBSET (1 .. n), NEW i \in I, NEW k \in I, i < k
    PROVE  Rank(I, i) < Rank(I, k)
PROOF
  <1> DEFINE upTo(m) == {j \in I : j <= m}
  <1>0. I \subseteq Nat /\ i \in Nat /\ k \in Nat
    OBVIOUS
  <1>1. upTo(i) \subseteq upTo(k)
    <2>1. \A j \in I : j <= i => j <= k
      BY <1>0
    <2> QED
      BY <2>1
  <1>5. k \in upTo(k) /\ k \notin upTo(i)
    <2>1. k <= k /\ ~(k <= i)
      BY <1>0
    <2> QED
      BY <2>1
  <1>2. IsFiniteSet(upTo(k)) /\ Cardinality(upTo(k)) \in Nat
    BY PlacesAreFinite
  <1>3. Cardinality(upTo(i)) \in Nat
    BY PlacesAreFinite
  <1> QED
    BY <1>1, <1>2, <1>3, <1>5, FS_Subset DEF Rank

\* The places are numbered 1, 2, ... in their order, and Place finds each again.
THEOREM PlacesAreNumbered ==
    ASSUME NEW n \in Nat, NEW I \in SUBSET (1 .. n)
    PROVE  /\ Cardinality(I) \in Nat
           /\ \A k \in 1 .. Cardinality(I) : Place(I, k) \in I
           /\ \A i \in I : \E k \in 1 .. Cardinality(I) : Place(I, k) = i
           /\ \A k, m \in 1 .. Cardinality(I) : k < m <=> Place(I, k) < Place(I, m)
PROOF
  <1> DEFINE c == Cardinality(I)
             rank == [i \in I |-> Rank(I, i)]
  <1>1. IsFiniteSet(I) /\ c \in Nat
    BY PlacesAreFinite
  <1>2. ASSUME NEW i \in I
        PROVE  Rank(I, i) \in 1 .. c
    <2> DEFINE upTo == {j \in I : j <= i}
    <2>1. i \in upTo /\ upTo \subseteq I
      OBVIOUS
    <2>2. IsFiniteSet(upTo) /\ Cardinality(upTo) \in Nat /\ Cardinality(upTo) <= c
      BY <1>1, <2>1, FS_Subset, FS_CardinalityType
    <2>3. Cardinality(upTo) # 0
      BY <2>1, <2>2, FS_EmptySet
    <2> QED
      BY <1>1, <2>2, <2>3 DEF Rank
  <1>3. \A i, k \in I : i < k => Rank(I, i) < Rank(I, k)
    BY RanksIncrease
  <1>4. \A i, k \in I : Rank(I, i) = Rank(I, k) => i = k
    <2> TAKE i, k \in I
    <2>1. i \in Nat /\ k \in Nat
      OBVIOUS
    <2>2. Rank(I, i) \in Nat /\ Rank(I, k) \in Nat
      BY <1>1, <1>2
    <2> QED
      BY <1>3, <2>1, <2>2
  <1>5. rank \in Injection(I, 1 .. c)
    BY <1>2, <1>4 DEF Injection, IsInjective
  <1>6. IsFiniteSet(1 .. c) /\ Cardinality(1 .. c) = c
    BY <1>1, FS_Interval
  <1>7. rank \in Surjection(I, 1 .. c)
    BY <1>5, <1>6, FS_Injection
  <1>8. \A k \in 1 .. c : \E i \in I : Rank(I, i) = k
    BY <1>7 DEF Surjection
  <1>9. \A k \in 1 .. c : Place(I, k) \in I /\ Rank(I, Place(I, k)) = k
    BY <1>8 DEF Place, Rank
  <1>10. ASSUME NEW i \in I
         PROVE  \E k \in 1 .. c : Place(I, k) = i
    <2>1. Rank(I, i) \in 1 .. c
      BY <1>2
    <2>2. Place(I, Rank(I, i)) \in I /\ Rank(I, Place(I, Rank(I, i))) = Rank(I, i)
      BY <1>9, <2>1
    <2> QED
      BY <1>4, <2>1, <2>2
  <1>11. ASSUME NEW k \in 1 .. c, NEW m \in 1 .. c
         PROVE  k < m <=> Place(I, k) < Place(I, m)
    <2>1. Place(I, k) \in 1 .. n /\ Place(I, m) \in 1 .. n
      BY <1>9
    <2>2. Place(I, k) < Place(I, m) => k < m
      BY <1>3, <1>9
    <2>3. Place(I, m) < Place(I, k) => m < k
      BY <1>3, <1>9
    <2>4. Place(I, m) = Place(I, k) => m = k
      BY <1>9
    <2> QED
      BY <1>1, <2>1, <2>2, <2>3, <2>4
  <1> QED
    BY <1>1, <1>9, <1>10, <1>11

\* What is kept of a sequence is one over the same set.
LEMMA KeptIsSequence ==
    ASSUME NEW S, NEW q \in Seq(S), NEW I \in SUBSET DOMAIN q
    PROVE  /\ Kept(q, I) \in Seq(S)
           /\ Len(Kept(q, I)) = Cardinality(I)
           /\ Cardinality(I) \in Nat /\ Cardinality(I) <= Len(q)
PROOF
  <1>1. Len(q) \in Nat /\ DOMAIN q = 1 .. Len(q) /\ q \in [1 .. Len(q) -> S]
    BY LenProperties
  <1>2. /\ Cardinality(I) \in Nat /\ Cardinality(I) <= Len(q)
        /\ \A k \in 1 .. Cardinality(I) : Place(I, k) \in I
    BY <1>1, PlacesAreNumbered, PlacesAreFinite
  <1>3. Kept(q, I) \in [1 .. Cardinality(I) -> S]
    BY <1>1, <1>2 DEF Kept
  <1> QED
    BY <1>2, <1>3, SeqDef, LenProperties

\* f lists each of the c places once, in their order.
Lists(f, c, I) ==
    /\ f \in [1 .. c -> I]
    /\ \A k, m \in 1 .. c : k < m => f[k] < f[m]
    /\ \A i \in I : \E k \in 1 .. c : f[k] = i

\* Places that are listed in their order are listed as Place lists them.
LEMMA PlacesInOrder ==
    ASSUME NEW n \in Nat, NEW I \in SUBSET (1 .. n), NEW c \in Nat, NEW f, Lists(f, c, I)
    PROVE  Cardinality(I) = c /\ \A k \in 1 .. c : Place(I, k) = f[k]
PROOF
  <1> USE DEF Lists
  <1>0. \A k \in 1 .. c : f[k] \in I /\ f[k] \in Nat
    <2> TAKE k \in 1 .. c
    <2>1. f[k] \in I /\ I \subseteq Nat
      OBVIOUS
    <2> QED
      BY <2>1
  <1>1. \A k, m \in 1 .. c : f[k] <= f[m] => k <= m
    BY <1>0
  <1>2. \A k, m \in 1 .. c : k <= m => f[k] <= f[m]
    BY <1>0
  <1>3. ASSUME NEW k \in 1 .. c
        PROVE  Rank(I, f[k]) = k
    <2> DEFINE upTo == {j \in I : j <= f[k]}
               g == [m \in 1 .. k |-> f[m]]
    <2>1. g \in [1 .. k -> upTo]
      BY <1>2
    <2>2. \A m, l \in 1 .. k : g[m] = g[l] => m = l
      <3> TAKE m \in 1 .. k, l \in 1 .. k
      <3>1. m \in 1 .. c /\ l \in 1 .. c /\ f[m] \in Nat /\ f[l] \in Nat
        BY <1>0
      <3> QED
        BY <1>1, <3>1
    <2>3. \A j \in upTo : \E m \in 1 .. k : g[m] = j
      <3> TAKE j \in upTo
      <3>1. PICK m \in 1 .. c : f[m] = j
        OBVIOUS
      <3>2. m <= k
        BY <1>1, <3>1
      <3>3. m \in 1 .. k
        BY <3>2
      <3> QED
        BY <3>1, <3>3
    <2> HIDE DEF g, upTo
    <2>4. g \in Bijection(1 .. k, upTo)
      BY <2>1, <2>2, <2>3 DEF Bijection, Injection, Surjection, IsInjective
    <2>5. IsFiniteSet(1 .. k) /\ Cardinality(1 .. k) = k
      BY FS_Interval
    <2>6. Cardinality(upTo) = k
      BY <2>4, <2>5, FS_Bijection DEF ExistsBijection
    <2> QED
      BY <2>6 DEF Rank, upTo
  <1>4. f \in Bijection(1 .. c, I)
    <2>1. \A m, l \in 1 .. c : f[m] = f[l] => m = l
      <3> TAKE m \in 1 .. c, l \in 1 .. c
      <3>1. f[m] \in Nat /\ f[l] \in Nat
        BY <1>0
      <3> QED
        BY <1>1, <3>1
    <2> QED
      BY <2>1 DEF Bijection, Injection, Surjection, IsInjective
  <1>5. Cardinality(I) = c
    <2>1. IsFiniteSet(1 .. c) /\ Cardinality(1 .. c) = c
      BY FS_Interval
    <2> QED
      BY <1>4, <2>1, FS_Bijection DEF ExistsBijection
  <1>6. ASSUME NEW k \in 1 .. c
        PROVE  Place(I, k) = f[k]
    <2>1. f[k] \in I /\ Rank(I, f[k]) = k
      BY <1>3
    <2>2. \A i \in I : Rank(I, i) = k => i = f[k]
      BY <1>3
    <2> QED
      BY <2>1, <2>2 DEF Place, Rank
  <1> QED
    BY <1>5, <1>6

\* What is kept, when the places are known in their order.
LEMMA KeptInOrder ==
    ASSUME NEW S, NEW q \in Seq(S), NEW I \in SUBSET DOMAIN q, NEW r \in Seq(S),
           NEW f, Lists(f, Len(r), I),
           \A k \in 1 .. Len(r) : r[k] = q[f[k]]
    PROVE  Kept(q, I) = r
PROOF
  <1>1. Len(q) \in Nat /\ DOMAIN q = 1 .. Len(q) /\ Len(r) \in Nat
    BY LenProperties
  <1>2. Cardinality(I) = Len(r) /\ \A k \in 1 .. Len(r) : Place(I, k) = f[k]
    <2>1. I \in SUBSET (1 .. Len(q))
      BY <1>1
    <2> QED
      BY <1>1, <2>1, PlacesInOrder, ZenonT(150)
  <1>3. Kept(q, I) \in Seq(S) /\ Len(Kept(q, I)) = Len(r)
    BY <1>2, KeptIsSequence
  <1>4. \A k \in 1 .. Len(r) : Kept(q, I)[k] = r[k]
    BY <1>2 DEF Kept
  <1> QED
    BY <1>3, <1>4, SeqEqual

\* r is what q holds of S, f where it stands there.
Selects(f, q, S, r) ==
    /\ f \in [1 .. Len(r) -> 1 .. Len(q)]
    /\ \A k, m \in 1 .. Len(r) : k < m => f[k] < f[m]
    /\ \A k \in 1 .. Len(r) : q[f[k]] \in S /\ r[k] = q[f[k]]
    /\ \A i \in 1 .. Len(q) : q[i] \in S => \E k \in 1 .. Len(r) : f[k] = i

\* Only selects.
LEMMA OnlySelects ==
    ASSUME NEW T, NEW q \in Seq(T), NEW S
    PROVE  Only(q, S) \in Seq(T) /\ \E f : Selects(f, q, S, Only(q, S))
PROOF
  <1> DEFINE I == {n \in DOMAIN q : q[n] \in S}
             f == [k \in 1 .. Cardinality(I) |-> Place(I, k)]
  <1>1. Len(q) \in Nat /\ DOMAIN q = 1 .. Len(q) /\ I \in SUBSET (1 .. Len(q))
    BY LenProperties
  <1>2. Only(q, S) = Kept(q, I)
    BY DEF Only
  <1>3. /\ Kept(q, I) \in Seq(T) /\ Len(Kept(q, I)) = Cardinality(I)
        /\ Cardinality(I) \in Nat
    BY <1>1, KeptIsSequence
  <1> HIDE DEF I
  <1>4. f \in [1 .. Cardinality(I) -> I]
    BY <1>1, PlacesAreNumbered
  <1>5. \A k, m \in 1 .. Cardinality(I) : k < m => f[k] < f[m]
    BY <1>1, PlacesAreNumbered
  <1>6. \A i \in I : \E k \in 1 .. Cardinality(I) : f[k] = i
    BY <1>1, PlacesAreNumbered
  <1>7. \A k \in 1 .. Cardinality(I) : Kept(q, I)[k] = q[f[k]]
    BY DEF Kept
  <1>8. \A i \in 1 .. Len(q) : q[i] \in S <=> i \in I
    BY <1>1 DEF I
  <1> HIDE DEF f
  <1>9. f \in [1 .. Cardinality(I) -> 1 .. Len(q)]
    BY <1>1, <1>4
  <1>10. \A k \in 1 .. Cardinality(I) : q[f[k]] \in S
    BY <1>1, <1>4, <1>8
  <1>11. Len(Only(q, S)) = Cardinality(I)
    BY <1>2, <1>3
  <1>12. \A i \in 1 .. Len(q) : q[i] \in S => \E k \in 1 .. Cardinality(I) : f[k] = i
    BY <1>6, <1>8
  <1>13. Selects(f, q, S, Only(q, S))
    BY <1>2, <1>5, <1>7, <1>9, <1>10, <1>11, <1>12 DEF Selects
  <1> QED
    BY <1>2, <1>3, <1>13

\* And what is selected is Only.
LEMMA SelectedIsOnly ==
    ASSUME NEW T, NEW q \in Seq(T), NEW S, NEW r \in Seq(T), NEW f, Selects(f, q, S, r)
    PROVE  Only(q, S) = r
PROOF
  <1> DEFINE I == {n \in DOMAIN q : q[n] \in S}
  <1> USE DEF Selects
  <1>1. DOMAIN q = 1 .. Len(q)
    BY LenProperties
  <1>2. f \in [1 .. Len(r) -> I]
    BY <1>1
  <1>3. \A i \in I : \E k \in 1 .. Len(r) : f[k] = i
    BY <1>1
  <1>4. I \in SUBSET DOMAIN q /\ Lists(f, Len(r), I)
    BY <1>2, <1>3 DEF Lists
  <1>5. \A k \in 1 .. Len(r) : r[k] = q[f[k]]
    OBVIOUS
  <1> HIDE DEF I, Selects
  <1>6. Kept(q, I) = r
    BY <1>4, <1>5, KeptInOrder
  <1> QED
    BY <1>6 DEF Only, I

\* Of nothing there is nothing.
LEMMA OnlyOfEmpty == \A S : Only(<<>>, S) = <<>>
PROOF
  <1> TAKE S
  <1>1. <<>> \in Seq({}) /\ Len(<<>>) = 0
    BY EmptySeq
  <1>2. 1 .. Len(<<>>) = {}
    BY <1>1
  <1> DEFINE f == [k \in {} |-> k]
  <1>3. f \in [1 .. Len(<<>>) -> 1 .. Len(<<>>)]
    BY <1>2
  <1> HIDE DEF f
  <1>4. Selects(f, <<>>, S, <<>>)
    BY <1>2, <1>3 DEF Selects
  <1> QED
    BY <1>1, <1>4, SelectedIsOnly

\* What is appended is selected last, or not at all.
LEMMA OnlyOfAppend ==
    ASSUME NEW T, NEW q \in Seq(T), NEW e \in T, NEW S
    PROVE  Only(Append(q, e), S) = IF e \in S THEN Append(Only(q, S), e) ELSE Only(q, S)
PROOF
  <1> DEFINE p == Append(q, e)
             r == Only(q, S)
             n == Len(q)
             c == Len(r)
  <1>1. r \in Seq(T) /\ \E f : Selects(f, q, S, r)
    BY OnlySelects
  <1>2. PICK f : Selects(f, q, S, r)
    BY <1>1
  <1>3. /\ p \in Seq(T) /\ n \in Nat /\ c \in Nat /\ Len(p) = n + 1
        /\ p[n + 1] = e /\ \A i \in 1 .. n : p[i] = q[i]
    BY <1>1, AppendProperties, LenProperties
  <1> HIDE DEF p, r, n, c
  <1>4. /\ f \in [1 .. c -> 1 .. n]
        /\ \A k, m \in 1 .. c : k < m => f[k] < f[m]
        /\ \A k \in 1 .. c : q[f[k]] \in S /\ r[k] = q[f[k]]
        /\ \A i \in 1 .. n : q[i] \in S => \E k \in 1 .. c : f[k] = i
    BY <1>2 DEF Selects, n, c
  <1>5. CASE e \in S
    <2> DEFINE g == [k \in 1 .. c + 1 |-> IF k = c + 1 THEN n + 1 ELSE f[k]]
               w == Append(r, e)
    <2>1. /\ w \in Seq(T) /\ Len(w) = c + 1 /\ w[c + 1] = e
          /\ \A k \in 1 .. c : w[k] = r[k]
      BY <1>1, <1>3, AppendProperties DEF c
    <2> HIDE DEF w
    <2>2. /\ g \in [1 .. c + 1 -> 1 .. n + 1]
          /\ c + 1 \in 1 .. c + 1 /\ g[c + 1] = n + 1
          /\ \A k \in 1 .. c : k \in 1 .. c + 1 /\ g[k] = f[k] /\ f[k] \in 1 .. n
          /\ \A k \in 1 .. c + 1 : k = c + 1 \/ k \in 1 .. c
          /\ \A i \in 1 .. n + 1 : i = n + 1 \/ i \in 1 .. n
      BY <1>3, <1>4
    <2> HIDE DEF g
    <2>3. ASSUME NEW k \in 1 .. c + 1, NEW m \in 1 .. c + 1, k < m
          PROVE  g[k] < g[m]
      <3>1. k \in 1 .. c
        BY <1>3, <2>3
      <3>2. CASE m = c + 1
        BY <1>3, <2>2, <3>1, <3>2
      <3>3. CASE m \in 1 .. c
        BY <1>4, <2>2, <2>3, <3>1, <3>3
      <3> QED
        BY <2>2, <3>2, <3>3
    <2>4. ASSUME NEW k \in 1 .. c + 1
          PROVE  p[g[k]] \in S /\ w[k] = p[g[k]]
      <3>1. CASE k = c + 1
        BY <1>3, <1>5, <2>1, <2>2, <3>1
      <3>2. CASE k \in 1 .. c
        BY <1>3, <1>4, <2>1, <2>2, <3>2
      <3> QED
        BY <2>2, <3>1, <3>2
    <2>5. ASSUME NEW i \in 1 .. n + 1, p[i] \in S
          PROVE  \E k \in 1 .. c + 1 : g[k] = i
      <3>1. CASE i = n + 1
        BY <2>2, <3>1
      <3>2. CASE i \in 1 .. n
        BY <1>3, <1>4, <2>2, <2>5, <3>2
      <3> QED
        BY <2>2, <3>1, <3>2
    <2>6. Selects(g, p, S, w)
      BY <1>3, <2>1, <2>2, <2>3, <2>4, <2>5 DEF Selects
    <2>7. Only(p, S) = w
      BY <1>3, <2>1, <2>6, SelectedIsOnly
    <2> QED
      BY <1>5, <2>7 DEF w, p, r
  <1>6. CASE e \notin S
    <2>1. f \in [1 .. c -> 1 .. n + 1]
      BY <1>3, <1>4
    <2>2. \A k \in 1 .. c : p[f[k]] \in S /\ r[k] = p[f[k]]
      BY <1>3, <1>4
    <2>3. \A i \in 1 .. n + 1 : p[i] \in S => \E k \in 1 .. c : f[k] = i
      <3> TAKE i \in 1 .. n + 1
      <3>1. CASE i = n + 1
        BY <1>3, <1>6, <3>1
      <3>2. CASE i \in 1 .. n
        BY <1>3, <1>4, <3>2
      <3> QED
        BY <1>3, <3>1, <3>2
    <2>4. Selects(f, p, S, r)
      BY <1>3, <1>4, <2>1, <2>2, <2>3 DEF Selects, c
    <2>5. Only(p, S) = r
      BY <1>1, <1>3, <2>4, SelectedIsOnly
    <2> QED
      BY <1>6, <2>5 DEF p, r
  <1> QED
    BY <1>5, <1>6

LEMMA OnlyOfOne == \A e, S : Only(<<e>>, S) = IF e \in S THEN <<e>> ELSE <<>>
PROOF
  <1> TAKE e, S
  <1>1. <<>> \in Seq({e}) /\ e \in {e} /\ Append(<<>>, e) = <<e>>
    BY EmptySeq
  <1>2. Only(Append(<<>>, e), S) = IF e \in S THEN Append(Only(<<>>, S), e) ELSE Only(<<>>, S)
    BY <1>1, OnlyOfAppend
  <1>3. Only(<<>>, S) = <<>>
    BY OnlyOfEmpty
  <1> QED
    BY <1>1, <1>2, <1>3

\* What stands first is selected first, or not at all.
LEMMA OnlyOfHead ==
    ASSUME NEW T, NEW q \in Seq(T), q # <<>>, NEW S
    PROVE  Only(q, S) = Only(<<Head(q)>>, S) \o Only(Tail(q), S)
PROOF
  <1> DEFINE e == Head(q)
             p == Tail(q)
             r == Only(p, S)
             n == Len(p)
             c == Len(r)
  <1>1. /\ p \in Seq(T) /\ e \in T /\ n \in Nat /\ Len(q) = n + 1 /\ q[1] = e
        /\ \A i \in 1 .. n : q[i + 1] = p[i]
    BY HeadTailProperties, LenProperties, EmptySeq
  <1>2. r \in Seq(T) /\ c \in Nat /\ \E f : Selects(f, p, S, r)
    BY <1>1, OnlySelects, LenProperties
  <1>3. PICK f : Selects(f, p, S, r)
    BY <1>2
  <1>4. Only(<<e>>, S) = IF e \in S THEN <<e>> ELSE <<>>
    BY OnlyOfOne
  <1> HIDE DEF e, p, r, n, c
  <1>5. /\ f \in [1 .. c -> 1 .. n]
        /\ \A k, m \in 1 .. c : k < m => f[k] < f[m]
        /\ \A k \in 1 .. c : p[f[k]] \in S /\ r[k] = p[f[k]]
        /\ \A i \in 1 .. n : p[i] \in S => \E k \in 1 .. c : f[k] = i
    BY <1>3 DEF Selects, n, c
  <1>6. \A i \in 1 .. n + 1 : i = 1 \/ (i - 1 \in 1 .. n /\ q[i] = p[i - 1])
    <2> TAKE i \in 1 .. n + 1
    <2>1. CASE i # 1
      <3>1. i - 1 \in 1 .. n /\ (i - 1) + 1 = i
        BY <1>1, <2>1
      <3> QED
        BY <1>1, <3>1
    <2> QED
      BY <2>1
  <1>7. CASE e \in S
    <2> DEFINE g == [k \in 1 .. c + 1 |-> IF k = 1 THEN 1 ELSE f[k - 1] + 1]
               w == <<e>> \o r
    <2>1. /\ w \in Seq(T) /\ Len(w) = c + 1 /\ w[1] = e
          /\ \A k \in 2 .. c + 1 : w[k] = r[k - 1]
      <3>1. <<e>> \in Seq(T) /\ Len(<<e>>) = 1 /\ <<e>>[1] = e
        BY <1>1
      <3>2. /\ w \in Seq(T) /\ Len(w) = 1 + c
            /\ \A k \in 1 .. 1 + c : w[k] = IF k <= 1 THEN <<e>>[k] ELSE r[k - 1]
        BY <1>2, <3>1, ConcatProperties DEF c
      <3> QED
        BY <1>2, <3>1, <3>2
    <2> HIDE DEF w
    <2>2. /\ g[1] = 1 /\ 1 \in 1 .. c + 1
          /\ \A k \in 1 .. c + 1 : k = 1 \/ k \in 2 .. c + 1
          /\ \A k \in 2 .. c + 1 : /\ k - 1 \in 1 .. c /\ f[k - 1] \in 1 .. n
                                   /\ g[k] = f[k - 1] + 1
      BY <1>2, <1>5
    <2>3. g \in [1 .. c + 1 -> 1 .. n + 1]
      <3>1. \A k \in 1 .. c + 1 : (IF k = 1 THEN 1 ELSE f[k - 1] + 1) \in 1 .. n + 1
        <4> TAKE k \in 1 .. c + 1
        <4>1. CASE k # 1
          <5>1. f[k - 1] \in 1 .. n
            BY <2>2, <4>1
          <5> QED
            BY <1>1, <4>1, <5>1
        <4> QED
          BY <1>1, <4>1
      <3> QED
        BY <3>1
    <2> HIDE DEF g
    <2>4. ASSUME NEW k \in 1 .. c + 1, NEW m \in 1 .. c + 1, k < m
          PROVE  g[k] < g[m]
      <3>1. m \in 2 .. c + 1
        BY <1>2, <2>4
      <3>2. CASE k = 1
        BY <1>1, <2>2, <3>1, <3>2, SMTT(60)
      <3>3. CASE k \in 2 .. c + 1
        <4>1. f[k - 1] < f[m - 1]
          BY <1>2, <1>5, <2>2, <2>4, <3>1, <3>3
        <4> QED
          BY <1>1, <2>2, <3>1, <3>3, <4>1
      <3> QED
        BY <2>2, <3>2, <3>3
    <2>5. ASSUME NEW k \in 1 .. c + 1
          PROVE  q[g[k]] \in S /\ w[k] = q[g[k]]
      <3>1. CASE k = 1
        BY <1>1, <1>7, <2>1, <2>2, <3>1
      <3>2. CASE k \in 2 .. c + 1
        <4> PICK m \in 1 .. c : m = k - 1
          BY <2>2, <3>2
        <4>1. g[k] = f[m] + 1 /\ f[m] \in 1 .. n /\ w[k] = r[m]
          BY <2>1, <2>2, <3>2
        <4>2. q[g[k]] = p[f[m]]
          BY <1>1, <4>1
        <4> QED
          BY <1>5, <4>1, <4>2
      <3> QED
        BY <2>2, <3>1, <3>2
    <2>6. ASSUME NEW i \in 1 .. n + 1, q[i] \in S
          PROVE  \E k \in 1 .. c + 1 : g[k] = i
      <3>1. CASE i # 1
        <4>1. PICK k \in 1 .. c : f[k] = i - 1
          BY <1>5, <1>6, <2>6, <3>1
        <4>2. k + 1 \in 2 .. c + 1 /\ (k + 1) - 1 = k /\ k + 1 \in 1 .. c + 1
          BY <1>2
        <4>3. g[k + 1] = i
          BY <2>2, <4>1, <4>2
        <4> QED
          BY <4>2, <4>3
      <3> QED
        BY <2>2, <3>1
    <2>7. Selects(g, q, S, w)
      BY <1>1, <2>1, <2>3, <2>4, <2>5, <2>6 DEF Selects
    <2>8. Only(q, S) = w
      BY <2>1, <2>7, SelectedIsOnly
    <2> QED
      BY <1>4, <1>7, <2>8 DEF w, r, e, p
  <1>8. CASE e \notin S
    <2> DEFINE g == [k \in 1 .. c |-> f[k] + 1]
    <2>1. g \in [1 .. c -> 1 .. n + 1] /\ \A k \in 1 .. c : g[k] = f[k] + 1 /\ f[k] \in 1 .. n
      <3>1. \A k \in 1 .. c : f[k] \in 1 .. n
        BY <1>5
      <3>2. \A j \in 1 .. n : j + 1 \in 1 .. n + 1
        BY <1>1
      <3> QED
        BY <3>1, <3>2
    <2> HIDE DEF g
    <2>2. ASSUME NEW k \in 1 .. c, NEW m \in 1 .. c, k < m
          PROVE  g[k] < g[m]
      BY <1>5, <2>1, <2>2
    <2>3. ASSUME NEW k \in 1 .. c
          PROVE  q[g[k]] \in S /\ r[k] = q[g[k]]
      BY <1>1, <1>5, <2>1
    <2>4. ASSUME NEW i \in 1 .. n + 1, q[i] \in S
          PROVE  \E k \in 1 .. c : g[k] = i
      <3>1. i # 1
        BY <1>1, <1>8, <2>4
      <3>2. PICK k \in 1 .. c : f[k] = i - 1
        BY <1>5, <1>6, <2>4, <3>1
      <3> QED
        BY <2>1, <3>2
    <2>5. Selects(g, q, S, r)
      BY <1>1, <2>1, <2>2, <2>3, <2>4 DEF Selects, c
    <2>6. Only(q, S) = r
      BY <1>2, <2>5, SelectedIsOnly
    <2> QED
      BY <1>2, <1>4, <1>8, <2>6, ConcatEmptySeq DEF r, e, p
  <1> QED
    BY <1>7, <1>8

\* A sequence without the member at one place.
LEMMA RemoveAtProperties ==
    ASSUME NEW T, NEW q \in Seq(T), NEW i \in 1 .. Len(q)
    PROVE  /\ RemoveAt(q, i) \in Seq(T) /\ Len(RemoveAt(q, i)) = Len(q) - 1
           /\ \A k \in 1 .. Len(q) - 1 : RemoveAt(q, i)[k] = IF k < i THEN q[k] ELSE q[k + 1]
PROOF
  <1> DEFINE a == SubSeq(q, 1, i - 1)
             b == SubSeq(q, i + 1, Len(q))
  <1>1. Len(q) \in Nat /\ \A k \in 1 .. Len(q) : q[k] \in T
    BY LenProperties, ElementOfSeq
  <1>2. a \in Seq(T) /\ Len(a) = i - 1 /\ \A k \in 1 .. i - 1 : a[k] = q[k]
    <2>1. \A k \in 1 .. i - 1 : q[k] \in T
      BY <1>1
    <2>2. /\ a \in Seq(T) /\ Len(a) = IF 1 <= i - 1 THEN (i - 1) - 1 + 1 ELSE 0
          /\ \A k \in 1 .. (i - 1) - 1 + 1 : a[k] = q[1 + k - 1]
      BY <2>1, SubSeqProperties
    <2> HIDE DEF a
    <2> QED
      BY <2>2
  <1>3. b \in Seq(T) /\ Len(b) = Len(q) - i /\ \A k \in 1 .. Len(q) - i : b[k] = q[i + k]
    <2>1. \A k \in i + 1 .. Len(q) : q[k] \in T
      BY <1>1
    <2>2. /\ b \in Seq(T) /\ Len(b) = IF i + 1 <= Len(q) THEN Len(q) - (i + 1) + 1 ELSE 0
          /\ \A k \in 1 .. Len(q) - (i + 1) + 1 : b[k] = q[i + 1 + k - 1]
      BY <1>1, <2>1, SubSeqProperties
    <2> HIDE DEF b
    <2>3. \A k \in 1 .. Len(q) - i : k \in 1 .. Len(q) - (i + 1) + 1 /\ i + 1 + k - 1 = i + k
      BY <1>1
    <2> QED
      BY <1>1, <2>2, <2>3
  <1> HIDE DEF a, b
  <1>4. /\ a \o b \in Seq(T) /\ Len(a \o b) = Len(a) + Len(b)
        /\ \A k \in 1 .. Len(a) + Len(b) :
              (a \o b)[k] = IF k <= Len(a) THEN a[k] ELSE b[k - Len(a)]
    BY <1>2, <1>3, ConcatProperties
  <1>5. Len(a) + Len(b) = Len(q) - 1
    BY <1>1, <1>2, <1>3
  <1>6. ASSUME NEW k \in 1 .. Len(q) - 1
        PROVE  (a \o b)[k] = IF k < i THEN q[k] ELSE q[k + 1]
    <2>1. CASE k < i
      BY <1>1, <1>2, <1>4, <1>5, <2>1
    <2>2. CASE ~(k < i)
      <3>1. /\ ~(k <= Len(a)) /\ k - Len(a) \in 1 .. Len(q) - i
            /\ i + (k - Len(a)) = k + 1 /\ k \in 1 .. Len(a) + Len(b)
        BY <1>1, <1>2, <1>5, <2>2
      <3> QED
        BY <1>3, <1>4, <2>2, <3>1
    <2> QED
      BY <2>1, <2>2
  <1> QED
    BY <1>4, <1>5, <1>6 DEF RemoveAt, a, b

\* Removing what is not selected changes nothing.
LEMMA OnlyOfRemove ==
    ASSUME NEW T, NEW q \in Seq(T), NEW i \in 1 .. Len(q), NEW S, q[i] \notin S
    PROVE  Only(RemoveAt(q, i), S) = Only(q, S)
PROOF
  <1> DEFINE p == RemoveAt(q, i)
             r == Only(p, S)
             n == Len(q)
             c == Len(r)
  <1>1. /\ p \in Seq(T) /\ n \in Nat /\ i \in 1 .. n /\ Len(p) = n - 1
        /\ \A k \in 1 .. n - 1 : p[k] = IF k < i THEN q[k] ELSE q[k + 1]
    BY RemoveAtProperties, LenProperties
  <1>2. r \in Seq(T) /\ c \in Nat /\ \E f : Selects(f, p, S, r)
    BY <1>1, OnlySelects, LenProperties
  <1>3. PICK f : Selects(f, p, S, r)
    BY <1>2
  <1> HIDE DEF p, r, n, c
  <1>4. /\ f \in [1 .. c -> 1 .. n - 1]
        /\ \A k, m \in 1 .. c : k < m => f[k] < f[m]
        /\ \A k \in 1 .. c : p[f[k]] \in S /\ r[k] = p[f[k]]
        /\ \A j \in 1 .. n - 1 : p[j] \in S => \E k \in 1 .. c : f[k] = j
    BY <1>1, <1>3 DEF Selects, c
  <1> DEFINE g == [k \in 1 .. c |-> IF f[k] < i THEN f[k] ELSE f[k] + 1]
  <1>5. /\ g \in [1 .. c -> 1 .. n]
        /\ \A k \in 1 .. c : f[k] \in 1 .. n - 1 /\ g[k] = IF f[k] < i THEN f[k] ELSE f[k] + 1
    BY <1>1, <1>4, SMTT(60)
  <1> HIDE DEF g
  <1>6. ASSUME NEW k \in 1 .. c, NEW m \in 1 .. c, k < m
        PROVE  g[k] < g[m]
    <2>1. f[k] < f[m] /\ f[k] \in 1 .. n - 1 /\ f[m] \in 1 .. n - 1
      BY <1>4, <1>5, <1>6
    <2> QED
      BY <1>1, <1>5, <2>1, SMTT(60)
  <1>7. ASSUME NEW k \in 1 .. c
        PROVE  q[g[k]] \in S /\ r[k] = q[g[k]]
    BY <1>1, <1>4, <1>5
  <1>8. ASSUME NEW j \in 1 .. n, q[j] \in S
        PROVE  \E k \in 1 .. c : g[k] = j
    <2>1. CASE j < i
      <3>1. j \in 1 .. n - 1 /\ p[j] = q[j]
        BY <1>1, <2>1
      <3>2. PICK k \in 1 .. c : f[k] = j
        BY <1>4, <1>8, <3>1
      <3> QED
        BY <1>5, <2>1, <3>2
    <2>2. CASE j > i
      <3>1. j - 1 \in 1 .. n - 1 /\ ~(j - 1 < i) /\ (j - 1) + 1 = j
        BY <1>1, <2>2
      <3>2. p[j - 1] = q[j]
        BY <1>1, <3>1
      <3>3. PICK k \in 1 .. c : f[k] = j - 1
        BY <1>4, <1>8, <3>1, <3>2
      <3> QED
        BY <1>5, <3>1, <3>3
    <2>3. j # i
      BY <1>8
    <2> QED
      BY <1>1, <2>1, <2>2, <2>3
  <1>9. Selects(g, q, S, r)
    BY <1>5, <1>6, <1>7, <1>8 DEF Selects, c, n
  <1> QED
    BY <1>2, <1>9, SelectedIsOnly DEF r, p

=============================================================================
