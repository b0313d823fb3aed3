---------------------------- MODULE OrderedProofs ----------------------------
(***************************************************************************)
(* What the operators of Ordered return, for every set and every sequence. *)
(***************************************************************************)
EXTENDS Ordered, SequencesExt, FiniteSetTheorems, SequenceTheorems, WellFoundedInduction, TLAPS

\* Every set of naturals has a least element.
LEMMA Least ==
    ASSUME NEW S \in SUBSET Nat, S # {}
    PROVE  \E n \in S : \A m \in S : n <= m
<1>1. IsWellFoundedOn(OpToRel(<, Nat), Nat)
  BY NatLessThanWellFounded
<1>2. PICK n \in S : \A m \in S : <<m, n>> \notin OpToRel(<, Nat)
  BY <1>1, WFMin
<1>3. \A m \in S : ~(m < n)
  BY <1>2 DEF OpToRel
<1> QED BY <1>3

\* Products and their order, which the provers do not see through larger terms.
LEMMA MulMonotone ==
    ASSUME NEW i \in Int, NEW j \in Int, NEW n \in Nat, i <= j
    PROVE  i * n <= j * n
OBVIOUS

\* A product with a positive number keeps what is strictly less.
LEMMA MulStrict ==
    ASSUME NEW i \in Int, NEW j \in Int, NEW n \in Nat \ {0}, i < j
    PROVE  i * n < j * n
OBVIOUS

\* What is strictly less as a product is strictly less without the factor.
LEMMA MulCancel ==
    ASSUME NEW i \in Int, NEW j \in Int, NEW n \in Nat \ {0}, i * n < j * n
    PROVE  i < j
<1> SUFFICES ASSUME j <= i PROVE FALSE
  OBVIOUS
<1>1. j * n <= i * n
  BY MulMonotone
<1>2. i * n \in Int /\ j * n \in Int
  OBVIOUS
<1> QED BY <1>1, <1>2

\* How many elements of S are no greater than i.
Rank(S, i) == Cardinality({j \in S : j <= i})

\* The rank tells the elements of S apart, is in their order, and takes every value.
LEMMA RankFacts ==
    ASSUME NEW S \in SUBSET Int, IsFiniteSet(S)
    PROVE  /\ Cardinality(S) \in Nat
           /\ \A i \in S : Rank(S, i) \in 1..Cardinality(S)
           /\ \A i, j \in S : i < j => Rank(S, i) < Rank(S, j)
           /\ \A k \in 1..Cardinality(S) : \E i \in S : Rank(S, i) = k
<1> DEFINE n == Cardinality(S)
           D(i) == {x \in S : x <= i}
<1>1. n \in Nat
  BY FS_CardinalityType
<1>2. \A i \in S : IsFiniteSet(D(i)) /\ Cardinality(D(i)) \in Nat /\ Cardinality(D(i)) <= n
  <2> TAKE i \in S
  <2>1. D(i) \in SUBSET S
    OBVIOUS
  <2> QED BY <2>1, FS_Subset, FS_CardinalityType
<1>3. \A i \in S : Cardinality(D(i)) # 0
  <2> TAKE i \in S
  <2>1. i \in D(i)
    OBVIOUS
  <2> QED BY <1>2, <2>1, FS_EmptySet
<1>4. \A i \in S : Rank(S, i) \in 1..n
  BY <1>1, <1>2, <1>3 DEF Rank
<1>5. \A i, j \in S : i < j => Rank(S, i) < Rank(S, j)
  <2> SUFFICES ASSUME NEW i \in S, NEW j \in S, i < j PROVE Rank(S, i) < Rank(S, j)
    OBVIOUS
  <2>0. i \in Int /\ j \in Int /\ \A x \in S : x \in Int
    OBVIOUS
  <2>1. \A x \in D(i) : x \in D(j)
    BY <2>0
  <2>4. j \in D(j) /\ j \notin D(i)
    BY <2>0
  <2>2. Cardinality(D(i)) <= Cardinality(D(j)) /\ Cardinality(D(i)) # Cardinality(D(j))
    BY <2>1, <2>4, <1>2, FS_Subset
  <2> QED BY <2>2, <1>2 DEF Rank
<1>6. \A k \in 1..n : \E i \in S : Rank(S, i) = k
  <2> DEFINE f == [i \in S |-> Rank(S, i)]
  <2>1. f \in [S -> 1..n]
    BY <1>4
  <2>2. \A i, j \in S : f[i] = f[j] => i = j
    <3> SUFFICES ASSUME NEW i \in S, NEW j \in S, f[i] = f[j] PROVE i = j
      OBVIOUS
    <3>1. ~(i < j) /\ ~(j < i)
      BY <1>4, <1>5
    <3> QED BY <3>1
  <2>3. f \in Injection(S, 1..n)
    BY <2>1, <2>2 DEF Injection, IsInjective
  <2>4. IsFiniteSet(1..n) /\ Cardinality(1..n) = n
    BY <1>1, FS_Interval
  <2>5. f \in Surjection(S, 1..n)
    BY <2>3, <2>4, FS_Injection
  <2> HIDE DEF f
  <2>6. \A k \in 1..n : \E i \in S : f[i] = k
    BY <2>5 DEF Surjection
  <2> QED BY <2>6 DEF f
<1> QED BY <1>1, <1>4, <1>5, <1>6

\* InOrder lists every element of S once, in ascending order.
LEMMA InOrderFacts ==
    ASSUME NEW S \in SUBSET Int, IsFiniteSet(S)
    PROVE  /\ Cardinality(S) \in Nat
           /\ InOrder(S) \in [1..Cardinality(S) -> S]
           /\ \A k, l \in 1..Cardinality(S) : k < l => InOrder(S)[k] < InOrder(S)[l]
           /\ \A i \in S : \E k \in 1..Cardinality(S) : InOrder(S)[k] = i
<1> DEFINE n == Cardinality(S)
<1>1. n \in Nat
  BY RankFacts
<1>2. \A k \in 1..n : InOrder(S)[k] \in S /\ Rank(S, InOrder(S)[k]) = k
  <2> TAKE k \in 1..n
  <2>1. \E i \in S : Rank(S, i) = k
    BY RankFacts
  <2>2. InOrder(S)[k] = CHOOSE i \in S : Rank(S, i) = k
    BY DEF InOrder, Rank
  <2> QED BY <2>1, <2>2
<1>3. InOrder(S) \in [1..n -> S]
  BY <1>2 DEF InOrder
<1>4. \A i, j \in S : /\ Rank(S, i) < Rank(S, j) => i < j
                      /\ Rank(S, i) = Rank(S, j) => i = j
  <2> SUFFICES ASSUME NEW i \in S, NEW j \in S
               PROVE  /\ Rank(S, i) < Rank(S, j) => i < j
                      /\ Rank(S, i) = Rank(S, j) => i = j
    OBVIOUS
  <2>1. Rank(S, i) \in Nat /\ Rank(S, j) \in Nat
    BY <1>1, RankFacts
  <2>2. (i < j => Rank(S, i) < Rank(S, j)) /\ (j < i => Rank(S, j) < Rank(S, i))
    BY RankFacts
  <2> QED BY <2>1, <2>2
<1>5. \A k, l \in 1..n : k < l => InOrder(S)[k] < InOrder(S)[l]
  <2> SUFFICES ASSUME NEW k \in 1..n, NEW l \in 1..n, k < l
               PROVE  InOrder(S)[k] < InOrder(S)[l]
    OBVIOUS
  <2>1. InOrder(S)[k] \in S /\ InOrder(S)[l] \in S
    BY <1>2
  <2>2. Rank(S, InOrder(S)[k]) < Rank(S, InOrder(S)[l])
    BY <1>2
  <2> QED BY <2>1, <2>2, <1>4
<1>6. \A i \in S : \E k \in 1..n : InOrder(S)[k] = i
  <2> TAKE i \in S
  <2>1. Rank(S, i) \in 1..n
    BY RankFacts
  <2>2. InOrder(S)[Rank(S, i)] \in S /\ Rank(S, InOrder(S)[Rank(S, i)]) = Rank(S, i)
    BY <1>2, <2>1
  <2>3. InOrder(S)[Rank(S, i)] = i
    BY <1>4, <2>2
  <2> QED BY <2>1, <2>3
<1> QED BY <1>1, <1>3, <1>5, <1>6

\* A list in ascending order of all the elements of S is InOrder(S).
LEMMA InOrderUnique ==
    ASSUME NEW S \in SUBSET Int, IsFiniteSet(S), NEW n \in Nat, NEW e \in [1..n -> S],
           \A k, l \in 1..n : k < l => e[k] < e[l],
           \A i \in S : \E k \in 1..n : e[k] = i
    PROVE  Cardinality(S) = n /\ InOrder(S) = e
<1>1. \A k, l \in 1..n : (e[k] = e[l] => k = l) /\ (e[k] <= e[l] <=> k <= l)
  <2> SUFFICES ASSUME NEW k \in 1..n, NEW l \in 1..n
               PROVE  (e[k] = e[l] => k = l) /\ (e[k] <= e[l] <=> k <= l)
    OBVIOUS
  <2>1. e[k] \in Int /\ e[l] \in Int
    OBVIOUS
  <2>2. (k < l => e[k] < e[l]) /\ (l < k => e[l] < e[k])
    OBVIOUS
  <2> QED BY <2>1, <2>2
<1>2. e \in Bijection(1..n, S)
  BY <1>1 DEF Bijection, Injection, Surjection, IsInjective
<1>3. Cardinality(S) = n
  BY <1>2, FS_CountingElements DEF ExistsBijection
<1>4. \A k \in 1..n : Rank(S, e[k]) = k
  <2> TAKE k \in 1..n
  <2> DEFINE D == {x \in S : x <= e[k]}
             f == [l \in 1..k |-> e[l]]
  <2>1. \A l \in 1..k : l \in 1..n /\ e[l] \in D
    BY <1>1
  <2>2. f \in [1..k -> D]
    BY <2>1
  <2>3. \A x \in D : \E l \in 1..k : f[l] = x
    <3> TAKE x \in D
    <3>1. PICK l \in 1..n : e[l] = x
      OBVIOUS
    <3>2. l \in 1..k
      BY <3>1, <1>1
    <3> QED BY <3>1, <3>2
  <2>4. \A l, m \in 1..k : f[l] = f[m] => l = m
    BY <1>1, <2>1
  <2>5. f \in Bijection(1..k, D)
    BY <2>2, <2>3, <2>4 DEF Bijection, Injection, Surjection, IsInjective
  <2>6. Cardinality(D) = k
    BY <2>5, FS_CountingElements DEF ExistsBijection
  <2> QED BY <2>6 DEF Rank
<1>5. \A k \in 1..n : InOrder(S)[k] = e[k]
  <2> TAKE k \in 1..n
  <2>1. InOrder(S)[k] = CHOOSE i \in S : Rank(S, i) = k
    BY <1>3 DEF InOrder, Rank
  <2>2. \A i \in S : Rank(S, i) = k => i = e[k]
    <3> SUFFICES ASSUME NEW i \in S, Rank(S, i) = k PROVE i = e[k]
      OBVIOUS
    <3>1. PICK l \in 1..n : e[l] = i
      OBVIOUS
    <3> QED BY <3>1, <1>4
  <2> QED BY <2>1, <2>2, <1>4
<1>6. InOrder(S) \in [1..n -> S]
  BY <1>3, InOrderFacts
<1> QED BY <1>3, <1>5, <1>6

-----------------------------------------------------------------------------
\* The places of s that Filtered keeps.
Places(s, Good) == InOrder({i \in DOMAIN s : s[i] \in Good})

\* f has the elements of s in Good, each from its place in e, in the order of s.
Keeps(f, e, s, Good) ==
    /\ e \in [1..Len(f) -> 1..Len(s)]
    /\ \A k \in 1..Len(f) : f[k] = s[e[k]] /\ f[k] \in Good
    /\ \A k, l \in 1..Len(f) : k < l => e[k] < e[l]
    /\ \A i \in 1..Len(s) : s[i] \in Good => \E k \in 1..Len(f) : e[k] = i

\* What is kept of a list are its elements in Good, each at its place, in the same order.
LEMMA FilteredFacts ==
    ASSUME NEW T, NEW s \in Seq(T), NEW Good
    PROVE  /\ Filtered(s, Good) \in Seq(T)
           /\ Keeps(Filtered(s, Good), Places(s, Good), s, Good)
<1> DEFINE P == {i \in DOMAIN s : s[i] \in Good}
           F == Filtered(s, Good)
           at == Places(s, Good)
           n == Cardinality(P)
<1>1. P \in SUBSET (1..Len(s)) /\ Len(s) \in Nat /\ DOMAIN s = 1..Len(s)
  OBVIOUS
<1>2. P \in SUBSET Int /\ IsFiniteSet(P)
  <2> HIDE DEF P
  <2>1. IsFiniteSet(1..Len(s))
    BY <1>1, FS_Interval
  <2>2. P \in SUBSET Int
    BY <1>1
  <2>3. IsFiniteSet(P)
    BY <1>1, <2>1, FS_Subset
  <2> QED BY <2>2, <2>3
<1>3. /\ n \in Nat
      /\ at \in [1..n -> P]
      /\ \A k, l \in 1..n : k < l => at[k] < at[l]
      /\ \A i \in P : \E k \in 1..n : at[k] = i
  BY <1>2, InOrderFacts DEF Places
<1>4. F = [k \in 1..n |-> s[at[k]]]
  BY <1>3 DEF Filtered, Places
<1> HIDE DEF F, at, n
<1>5. F \in Seq(T) /\ Len(F) = n
  <2>1. \A k \in 1..n : s[at[k]] \in T
    BY <1>1, <1>3, ElementOfSeq
  <2> QED BY <1>3, <1>4, <2>1, IsASeq
<1>6. \A k \in 1..n : F[k] = s[at[k]] /\ F[k] \in Good
  BY <1>3, <1>4
<1>7. at \in [1..n -> 1..Len(s)]
  BY <1>1, <1>3
<1>8. \A i \in 1..Len(s) : s[i] \in Good => \E k \in 1..n : at[k] = i
  BY <1>1, <1>3
<1> QED BY <1>3, <1>5, <1>6, <1>7, <1>8 DEF F, at, Keeps

\* A list with those elements in that order is what is kept.
LEMMA FilteredUnique ==
    ASSUME NEW T, NEW s \in Seq(T), NEW Good, NEW f \in Seq(T), NEW e, Keeps(f, e, s, Good)
    PROVE  Filtered(s, Good) = f
<1> DEFINE P == {i \in DOMAIN s : s[i] \in Good}
           n == Len(f)
<1>1. P \in SUBSET (1..Len(s)) /\ Len(s) \in Nat /\ DOMAIN s = 1..Len(s) /\ n \in Nat
  OBVIOUS
<1>2. P \in SUBSET Int /\ IsFiniteSet(P)
  <2> HIDE DEF P
  <2>1. IsFiniteSet(1..Len(s))
    BY <1>1, FS_Interval
  <2>2. P \in SUBSET Int
    BY <1>1
  <2>3. IsFiniteSet(P)
    BY <1>1, <2>1, FS_Subset
  <2> QED BY <2>2, <2>3
<1>3. /\ e \in [1..n -> P]
      /\ \A i \in P : \E k \in 1..n : e[k] = i
      /\ \A k, l \in 1..n : k < l => e[k] < e[l]
      /\ \A k \in 1..n : f[k] = s[e[k]]
  BY <1>1 DEF Keeps
<1>4. InOrder(P) = e
  BY <1>1, <1>2, <1>3, InOrderUnique
<1>5. Filtered(s, Good) = [k \in 1..n |-> s[e[k]]]
  BY <1>3, <1>4 DEF Filtered
<1>6. f = [k \in 1..n |-> f[k]]
  OBVIOUS
<1> QED BY <1>3, <1>5, <1>6

\* What is kept of a list grown by one.
LEMMA FilteredAppend ==
    ASSUME NEW T, NEW s \in Seq(T), NEW x \in T, NEW Good
    PROVE  Filtered(Append(s, x), Good) =
              IF x \in Good THEN Append(Filtered(s, Good), x) ELSE Filtered(s, Good)
<1> DEFINE F == Filtered(s, Good)
           at == Places(s, Good)
           t == Append(s, x)
<1>1. /\ F \in Seq(T) /\ Len(F) \in Nat
      /\ at \in [1..Len(F) -> 1..Len(s)]
      /\ \A k \in 1..Len(F) : F[k] = s[at[k]] /\ F[k] \in Good
      /\ \A k, l \in 1..Len(F) : k < l => at[k] < at[l]
      /\ \A i \in 1..Len(s) : s[i] \in Good => \E k \in 1..Len(F) : at[k] = i
  <2>1. F \in Seq(T) /\ Keeps(F, at, s, Good)
    BY FilteredFacts
  <2> HIDE DEF F, at
  <2> QED BY <2>1 DEF Keeps
<1>2. /\ t \in Seq(T) /\ Len(t) = Len(s) + 1 /\ Len(s) \in Nat
      /\ t[Len(s) + 1] = x
      /\ \A i \in 1..Len(s) : t[i] = s[i]
  OBVIOUS
<1> HIDE DEF F, at, t
<1>3. CASE x \notin Good
  <2>1. at \in [1..Len(F) -> 1..Len(t)]
    BY <1>1, <1>2
  <2>2. \A k \in 1..Len(F) : F[k] = t[at[k]] /\ F[k] \in Good
    BY <1>1, <1>2
  <2>3. \A i \in 1..Len(t) : t[i] \in Good => i \in 1..Len(s) /\ s[i] \in Good
    BY <1>2, <1>3
  <2>4. \A i \in 1..Len(t) : t[i] \in Good => \E k \in 1..Len(F) : at[k] = i
    BY <1>1, <2>3
  <2>5. F \in Seq(T) /\ \A k, l \in 1..Len(F) : k < l => at[k] < at[l]
    BY <1>1
  <2>6. t \in Seq(T)
    BY <1>2
  <2>7. Filtered(t, Good) = F
    <3>1. Keeps(F, at, t, Good)
      BY <2>1, <2>2, <2>4, <2>5 DEF Keeps
    <3> QED BY <2>5, <2>6, <3>1, FilteredUnique
  <2> QED BY <1>3, <2>7 DEF F, t
<1>4. CASE x \in Good
  <2> DEFINE G == Append(F, x)
             e == [k \in 1..Len(G) |-> IF k <= Len(F) THEN at[k] ELSE Len(t)]
  <2>1. /\ G \in Seq(T) /\ Len(G) = Len(F) + 1 /\ Len(G) \in Nat
        /\ G[Len(F) + 1] = x
        /\ \A k \in 1..Len(F) : G[k] = F[k]
    BY <1>1
  <2> HIDE DEF G
  <2>2. \A k \in 1..Len(F) : at[k] \in 1..Len(s)
    BY <1>1
  <2>3. e \in [1..Len(G) -> 1..Len(t)]
    BY <1>1, <1>2, <2>1, <2>2
  <2>4. \A k \in 1..Len(G) : G[k] = t[e[k]] /\ G[k] \in Good
    <3> TAKE k \in 1..Len(G)
    <3>1. CASE k <= Len(F)
      <4>1. k \in 1..Len(F)
        BY <3>1, <1>1, <2>1
      <4> QED BY <3>1, <4>1, <1>1, <1>2, <2>1, <2>2
    <3>2. CASE ~(k <= Len(F))
      <4>1. k = Len(F) + 1
        BY <3>2, <1>1, <2>1
      <4> QED BY <3>2, <4>1, <1>2, <1>4, <2>1
    <3> QED BY <3>1, <3>2
  <2>5. \A k, l \in 1..Len(G) : k < l => e[k] < e[l]
    <3> SUFFICES ASSUME NEW k \in 1..Len(G), NEW l \in 1..Len(G), k < l PROVE e[k] < e[l]
      OBVIOUS
    <3>1. k \in 1..Len(F)
      BY <1>1, <2>1
    <3>2. CASE l <= Len(F)
      BY <3>1, <3>2, <1>1
    <3>3. CASE ~(l <= Len(F))
      BY <3>1, <3>3, <1>2, <2>2
    <3> QED BY <3>2, <3>3
  <2>6. \A i \in 1..Len(t) : t[i] \in Good => \E k \in 1..Len(G) : e[k] = i
    <3> SUFFICES ASSUME NEW i \in 1..Len(t), t[i] \in Good PROVE \E k \in 1..Len(G) : e[k] = i
      OBVIOUS
    <3>1. CASE i \in 1..Len(s)
      <4>1. PICK k \in 1..Len(F) : at[k] = i
        BY <3>1, <1>1, <1>2
      <4> QED BY <4>1, <1>1, <2>1
    <3>2. CASE i \notin 1..Len(s)
      <4>1. i = Len(t) /\ Len(G) \in 1..Len(G) /\ ~(Len(G) <= Len(F))
        BY <3>2, <1>1, <1>2, <2>1
      <4> QED BY <4>1
    <3> QED BY <3>1, <3>2
  <2> HIDE DEF e
  <2>7. t \in Seq(T) /\ G \in Seq(T)
    BY <1>2, <2>1
  <2>8. Filtered(t, Good) = G
    <3>1. Keeps(G, e, t, Good)
      BY <2>3, <2>4, <2>5, <2>6 DEF Keeps
    <3> QED BY <2>7, <3>1, FilteredUnique
  <2> QED BY <1>4, <2>8 DEF F, t, G
<1> QED BY <1>3, <1>4

\* What is kept of a list without repetition is its elements in Good, without repetition.
LEMMA FilteredSet ==
    ASSUME NEW T, NEW s \in Seq(T), NEW Good
    PROVE  /\ ToSet(Filtered(s, Good)) = ToSet(s) \cap Good
           /\ IsInjective(s) => IsInjective(Filtered(s, Good))
<1> DEFINE F == Filtered(s, Good)
           at == Places(s, Good)
<1>1. F \in Seq(T) /\ Keeps(F, at, s, Good)
  BY FilteredFacts
<1> HIDE DEF F, at
<1>2. DOMAIN F = 1..Len(F) /\ DOMAIN s = 1..Len(s) /\ Len(F) \in Nat
  BY <1>1
<1>3. ToSet(F) = ToSet(s) \cap Good
  <2>1. ASSUME NEW x \in ToSet(F) PROVE x \in ToSet(s) \cap Good
    <3>1. PICK k \in 1..Len(F) : F[k] = x
      BY <1>2 DEF ToSet
    <3>2. at[k] \in 1..Len(s) /\ s[at[k]] = x /\ x \in Good
      BY <1>1, <3>1 DEF Keeps
    <3> QED BY <1>2, <3>2 DEF ToSet
  <2>2. ASSUME NEW x \in ToSet(s) \cap Good PROVE x \in ToSet(F)
    <3>1. PICK i \in 1..Len(s) : s[i] = x
      BY <1>2 DEF ToSet
    <3>2. PICK k \in 1..Len(F) : at[k] = i
      BY <1>1, <3>1 DEF Keeps
    <3>3. F[k] = x
      BY <1>1, <3>1, <3>2 DEF Keeps
    <3> QED BY <1>2, <3>3 DEF ToSet
  <2> QED BY <2>1, <2>2
<1>4. ASSUME IsInjective(s) PROVE IsInjective(F)
  <2> SUFFICES ASSUME NEW k \in 1..Len(F), NEW l \in 1..Len(F), F[k] = F[l] PROVE k = l
    BY <1>2 DEF IsInjective
  <2>1. at[k] \in 1..Len(s) /\ at[l] \in 1..Len(s) /\ s[at[k]] = s[at[l]]
    BY <1>1 DEF Keeps
  <2>2. at[k] = at[l]
    BY <1>2, <1>4, <2>1 DEF IsInjective
  <2>3. at[k] \in Int /\ at[l] \in Int /\ (k < l => at[k] < at[l]) /\ (l < k => at[l] < at[k])
    BY <1>1, <2>1 DEF Keeps
  <2> QED BY <2>2, <2>3
<1> QED BY <1>3, <1>4 DEF F

\* A list whose last element is kept ends in it.
LEMMA FilteredLast ==
    ASSUME NEW T, NEW s \in Seq(T), NEW Good, s # <<>>, Last(s) \in Good
    PROVE  Filtered(s, Good) # <<>> /\ Last(Filtered(s, Good)) = Last(s)
<1> DEFINE F == Filtered(s, Good)
           at == Places(s, Good)
<1>1. F \in Seq(T) /\ Keeps(F, at, s, Good)
  BY FilteredFacts
<1> HIDE DEF F, at
<1>2. Len(s) \in 1..Len(s) /\ s[Len(s)] \in Good
  BY DEF Last
<1>3. PICK k \in 1..Len(F) : at[k] = Len(s)
  BY <1>1, <1>2 DEF Keeps
<1>4. Len(F) \in Nat /\ Len(F) \in 1..Len(F) /\ k <= Len(F)
  BY <1>1, <1>3
<1>5. at[Len(F)] \in 1..Len(s) /\ (k < Len(F) => at[k] < at[Len(F)])
  BY <1>1, <1>3, <1>4 DEF Keeps
<1>6. k = Len(F)
  BY <1>2, <1>3, <1>4, <1>5
<1>7. F[Len(F)] = s[Len(s)]
  BY <1>1, <1>3, <1>4, <1>6 DEF Keeps
<1> QED BY <1>1, <1>4, <1>7 DEF F, Last

\* What is kept of a list is kept of it again.
LEMMA FilteredAgain ==
    ASSUME NEW T, NEW s \in Seq(T), NEW Good
    PROVE  Filtered(Filtered(s, Good), Good) = Filtered(s, Good)
<1> DEFINE F == Filtered(s, Good)
           e == [k \in 1..Len(F) |-> k]
<1>1. F \in Seq(T) /\ Len(F) \in Nat /\ \A k \in 1..Len(F) : F[k] \in Good
  <2>1. F \in Seq(T) /\ Keeps(F, Places(s, Good), s, Good)
    BY FilteredFacts
  <2> QED BY <2>1 DEF Keeps
<1> HIDE DEF F
<1>2. Keeps(F, e, F, Good)
  BY <1>1 DEF Keeps
<1>3. Filtered(F, Good) = F
  BY <1>1, <1>2, FilteredUnique
<1> QED BY <1>3 DEF F

\* A list is a prefix of itself and of itself grown by one.
LEMMA PrefixFacts ==
    ASSUME NEW T, NEW s \in Seq(T), NEW x \in T
    PROVE  IsPrefix(s, s) /\ IsPrefix(s, Append(s, x))
<1>1. /\ Append(s, x) \in Seq(T) /\ Len(Append(s, x)) = Len(s) + 1 /\ Len(s) \in Nat
      /\ \A i \in 1..Len(s) : Append(s, x)[i] = s[i]
  OBVIOUS
<1>2. SubSeq(s, 1, Len(s)) = SubSeq(Append(s, x), 1, Len(s))
  BY <1>1
<1> QED BY <1>1, <1>2 DEF IsPrefix

\* Two lists one after the other have the elements of both.
LEMMA ConcatSet ==
    ASSUME NEW T, NEW s \in Seq(T), NEW t \in Seq(T)
    PROVE  /\ s \o t \in Seq(T)
           /\ ToSet(s \o t) = ToSet(s) \cup ToSet(t)
<1> DEFINE u == s \o t
<1>1. /\ u \in Seq(T) /\ Len(u) = Len(s) + Len(t) /\ Len(s) \in Nat /\ Len(t) \in Nat
      /\ \A i \in 1..Len(s) : u[i] = s[i]
      /\ \A i \in 1..Len(t) : u[Len(s) + i] = t[i]
  BY ConcatProperties
<1> HIDE DEF u
<1>2. DOMAIN u = 1..Len(u) /\ DOMAIN s = 1..Len(s) /\ DOMAIN t = 1..Len(t)
  BY <1>1
<1>3. \A i \in 1..Len(u) :
         i \in 1..Len(s) \/ (i - Len(s) \in 1..Len(t) /\ u[i] = t[i - Len(s)])
  <2> SUFFICES ASSUME NEW i \in 1..Len(u), i \notin 1..Len(s)
               PROVE  i - Len(s) \in 1..Len(t) /\ u[i] = t[i - Len(s)]
    OBVIOUS
  <2>1. i - Len(s) \in 1..Len(t) /\ i = Len(s) + (i - Len(s))
    BY <1>1
  <2>2. u[Len(s) + (i - Len(s))] = t[i - Len(s)]
    <3> DEFINE k == i - Len(s)
    <3>1. k \in 1..Len(t)
      BY <2>1
    <3> HIDE DEF k
    <3>2. u[Len(s) + k] = t[k]
      BY <1>1, <3>1
    <3> QED BY <3>2 DEF k
  <2> QED BY <2>1, <2>2
<1>4. ToSet(u) = ToSet(s) \cup ToSet(t)
  <2>1. ASSUME NEW x \in ToSet(u) PROVE x \in ToSet(s) \cup ToSet(t)
    BY <1>1, <1>2, <1>3 DEF ToSet
  <2>2. ASSUME NEW x \in ToSet(s) PROVE x \in ToSet(u)
    <3>1. PICK i \in 1..Len(s) : s[i] = x
      BY <1>2 DEF ToSet
    <3>2. i \in 1..Len(u) /\ u[i] = x
      BY <1>1, <3>1
    <3> QED BY <1>2, <3>2 DEF ToSet
  <2>3. ASSUME NEW x \in ToSet(t) PROVE x \in ToSet(u)
    <3>1. PICK i \in 1..Len(t) : t[i] = x
      BY <1>2 DEF ToSet
    <3>2. Len(s) + i \in 1..Len(u) /\ u[Len(s) + i] = x
      BY <1>1, <3>1
    <3> QED BY <1>2, <3>2 DEF ToSet
  <2> QED BY <2>1, <2>2, <2>3
<1> QED BY <1>1, <1>4 DEF u

\* Two lists with no element in common, one after the other.
LEMMA ConcatFacts ==
    ASSUME NEW T, NEW s \in Seq(T), NEW t \in Seq(T),
           IsInjective(s), IsInjective(t), ToSet(s) \cap ToSet(t) = {}
    PROVE  /\ s \o t \in Seq(T)
           /\ IsInjective(s \o t)
           /\ ToSet(s \o t) = ToSet(s) \cup ToSet(t)
<1> DEFINE u == s \o t
<1>1. /\ u \in Seq(T) /\ Len(u) = Len(s) + Len(t) /\ Len(s) \in Nat /\ Len(t) \in Nat
      /\ \A i \in 1..Len(s) : u[i] = s[i]
      /\ \A i \in 1..Len(t) : u[Len(s) + i] = t[i]
  BY ConcatProperties
<1> HIDE DEF u
<1>2. DOMAIN u = 1..Len(u) /\ DOMAIN s = 1..Len(s) /\ DOMAIN t = 1..Len(t)
  BY <1>1
<1>3. \A i \in 1..Len(u) :
         i \in 1..Len(s) \/ (i - Len(s) \in 1..Len(t) /\ u[i] = t[i - Len(s)])
  <2> SUFFICES ASSUME NEW i \in 1..Len(u), i \notin 1..Len(s)
               PROVE  i - Len(s) \in 1..Len(t) /\ u[i] = t[i - Len(s)]
    OBVIOUS
  <2>1. i - Len(s) \in 1..Len(t) /\ i = Len(s) + (i - Len(s))
    BY <1>1
  <2> QED BY <1>1, <2>1
<1>4. IsInjective(u)
  <2> SUFFICES ASSUME NEW i \in 1..Len(u), NEW j \in 1..Len(u), u[i] = u[j] PROVE i = j
    BY <1>2 DEF IsInjective
  <2>1. CASE i \in 1..Len(s) /\ j \in 1..Len(s)
    BY <2>1, <1>1, <1>2 DEF IsInjective
  <2>2. CASE i \notin 1..Len(s) /\ j \notin 1..Len(s)
    <3>1. i - Len(s) \in 1..Len(t) /\ j - Len(s) \in 1..Len(t) /\ t[i - Len(s)] = t[j - Len(s)]
      BY <2>2, <1>3
    <3>2. i - Len(s) = j - Len(s)
      BY <3>1, <1>2 DEF IsInjective
    <3> QED BY <3>2, <1>1
  <2>3. ASSUME NEW k \in 1..Len(u), NEW l \in 1..Len(u), k \in 1..Len(s), l \notin 1..Len(s)
        PROVE  u[k] # u[l]
    <3>1. u[k] \in ToSet(s)
      BY <2>3, <1>1, <1>2 DEF ToSet
    <3>2. u[l] \in ToSet(t)
      BY <2>3, <1>2, <1>3 DEF ToSet
    <3> QED BY <3>1, <3>2
  <2> QED BY <2>1, <2>2, <2>3
<1>5. ToSet(u) = ToSet(s) \cup ToSet(t)
  BY ConcatSet DEF u
<1> QED BY <1>1, <1>4, <1>5 DEF u

-----------------------------------------------------------------------------
\* The greatest and the least of a finite set of numbers.
LEMMA Extremes ==
    ASSUME NEW S \in SUBSET Int, IsFiniteSet(S), S # {}
    PROVE  /\ Max(S) \in S /\ \A y \in S : y <= Max(S)
           /\ Min(S) \in S /\ \A y \in S : Min(S) <= y
<1> DEFINE n == Cardinality(S)
           e == InOrder(S)
<1>1. /\ n \in Nat
      /\ e \in [1..n -> S]
      /\ \A k, l \in 1..n : k < l => e[k] < e[l]
      /\ \A i \in S : \E k \in 1..n : e[k] = i
  BY InOrderFacts
<1> HIDE DEF n, e
<1>2. 1 \in 1..n /\ n \in 1..n
  <2>1. PICK i \in S : TRUE
    OBVIOUS
  <2>2. PICK k \in 1..n : e[k] = i
    BY <1>1, <2>1
  <2> QED BY <1>1, <2>2
<1>3. \A k \in 1..n : e[k] \in Int /\ e[1] <= e[k] /\ e[k] <= e[n]
  <2> TAKE k \in 1..n
  <2>1. e[k] \in Int /\ e[1] \in Int /\ e[n] \in Int
    BY <1>1, <1>2
  <2>2. (1 < k => e[1] < e[k]) /\ (k < n => e[k] < e[n])
    BY <1>1, <1>2
  <2>3. (1 = k \/ 1 < k) /\ (k = n \/ k < n)
    BY <1>1
  <2> QED BY <2>1, <2>2, <2>3
<1>4. \A i \in S : e[1] <= i /\ i <= e[n]
  BY <1>1, <1>3
<1>5. e[1] \in S /\ e[n] \in S
  BY <1>1, <1>2
<1>6. Max(S) \in S /\ \A y \in S : Max(S) >= y
  BY <1>4, <1>5 DEF Max
<1>7. Min(S) \in S /\ \A y \in S : Min(S) <= y
  BY <1>4, <1>5 DEF Min
<1> QED BY <1>6, <1>7

\* They are the only ones.
LEMMA ExtremeUnique ==
    ASSUME NEW S \in SUBSET Int, NEW m \in S
    PROVE  /\ (\A y \in S : y <= m) => Max(S) = m
           /\ (\A y \in S : m <= y) => Min(S) = m
<1>1. ASSUME \A y \in S : y <= m PROVE Max(S) = m
  <2>1. \A x \in S : (\A y \in S : x >= y) => x = m
    BY <1>1
  <2> QED BY <1>1, <2>1 DEF Max
<1>2. ASSUME \A y \in S : m <= y PROVE Min(S) = m
  <2>1. \A x \in S : (\A y \in S : x <= y) => x = m
    BY <1>2
  <2> QED BY <1>2, <2>1 DEF Min
<1> QED BY <1>1, <1>2

\* A set of numbers with a bound is finite.
LEMMA BoundedFinite ==
    ASSUME NEW a \in Int, NEW b \in Int, NEW S \in SUBSET (a..b)
    PROVE  IsFiniteSet(S) /\ S \in SUBSET Int
<1>1. IsFiniteSet(a..b)
  BY FS_Interval
<1>2. IsFiniteSet(S)
  BY <1>1, FS_Subset
<1> QED BY <1>2

\* What a function makes of a finite set is finite.
LEMMA FiniteImage ==
    ASSUME NEW S, IsFiniteSet(S), NEW U, NEW f \in [S -> U]
    PROVE  IsFiniteSet({f[x] : x \in S})
<1> DEFINE T == {f[x] : x \in S}
<1>1. f \in Surjection(S, T)
  <2>1. f \in [S -> T]
    OBVIOUS
  <2> QED BY <2>1 DEF Surjection
<1>2. IsFiniteSet(T)
  BY <1>1, FS_Surjection
<1> QED BY <1>2

\* A list that is sorted from each element to the next is sorted.
LEMMA SortedFacts ==
    ASSUME NEW n \in Nat, NEW e \in [1..n -> Int], \A i \in 2..n : e[i - 1] <= e[i]
    PROVE  \A i, j \in 1..n : i <= j => e[i] <= e[j]
<1> SUFFICES ASSUME NEW i \in 1..n, \E j \in 1..n : i <= j /\ ~(e[i] <= e[j]) PROVE FALSE
  OBVIOUS
<1> DEFINE S == {j \in 1..n : i <= j /\ ~(e[i] <= e[j])}
<1>1. S \in SUBSET Nat /\ S # {}
  <2>1. PICK j \in 1..n : i <= j /\ ~(e[i] <= e[j])
    OBVIOUS
  <2>2. j \in S /\ \A k \in S : k \in Nat
    BY <2>1
  <2> HIDE DEF S
  <2> QED BY <2>2
<1>2. PICK j \in S : \A k \in S : j <= k
  <2> HIDE DEF S
  <2> QED BY <1>1, Least
<1>3. j \in 1..n /\ i < j /\ ~(e[i] <= e[j])
  BY <1>2
<1>4. j - 1 \in 1..n /\ j \in 2..n /\ j - 1 \notin S
  BY <1>2, <1>3
<1>5. e[i] <= e[j - 1] /\ e[j - 1] <= e[j]
  BY <1>3, <1>4
<1> QED BY <1>3, <1>4, <1>5

\* The least of any set of naturals.
LEMMA LeastIsMin ==
    ASSUME NEW S \in SUBSET Nat, S # {}
    PROVE  Min(S) \in S /\ \A y \in S : Min(S) <= y
BY Least DEF Min

\* A list grown by one.
LEMMA GrownFacts ==
    ASSUME NEW s, s \in Seq(ToSet(s)), NEW x
    PROVE  LET t == Append(s, x) IN
           /\ t \in Seq(ToSet(t))
           /\ Len(s) \in Nat /\ Len(t) = Len(s) + 1
           /\ DOMAIN t = 1..Len(t) /\ DOMAIN s = 1..Len(s)
           /\ t[Len(t)] = x
           /\ \A i \in 1..Len(s) : t[i] = s[i]
<1> DEFINE t == Append(s, x)
           T == ToSet(s) \cup {x}
<1>1. s \in Seq(T) /\ x \in T
  <2>1. Len(s) \in Nat /\ s \in [1..Len(s) -> ToSet(s)]
    OBVIOUS
  <2>2. s \in [1..Len(s) -> T]
    BY <2>1
  <2> HIDE DEF T
  <2> QED BY <2>1, <2>2, SeqDef DEF T
<1> HIDE DEF T
<1>2. /\ t \in Seq(T) /\ Len(s) \in Nat /\ Len(t) = Len(s) + 1
      /\ DOMAIN t = 1..Len(t) /\ DOMAIN s = 1..Len(s)
      /\ t[Len(t)] = x
      /\ \A i \in 1..Len(s) : t[i] = s[i]
  BY <1>1
<1> HIDE DEF t
<1>3. t \in Seq(ToSet(t))
  <2>1. t \in [1..Len(t) -> ToSet(t)] /\ Len(t) \in Nat
    BY <1>2 DEF ToSet
  <2> QED BY <2>1, SeqDef
<1> QED BY <1>2, <1>3 DEF t

\* The quotient.
LEMMA DivFacts ==
    ASSUME NEW a \in Int, NEW n \in Nat \ {0}
    PROVE  /\ a \div n \in Int
           /\ n * (a \div n) <= a
           /\ a < n * (a \div n) + n
OBVIOUS

\* The remainder of a division, and its range.
LEMMA ModFacts ==
    ASSUME NEW a \in Int, NEW n \in Nat \ {0}
    PROVE  /\ a % n = a - n * (a \div n)
           /\ a % n \in 0..(n - 1)
OBVIOUS

\* The quotient is the only number whose multiple is at most a and within n of it.
LEMMA DivUnique ==
    ASSUME NEW a \in Int, NEW n \in Nat \ {0}, NEW q \in Int,
           n * q <= a, a < n * q + n
    PROVE  a \div n = q
<1> DEFINE d == a \div n
<1>1. d \in Int /\ n * d <= a /\ a < n * d + n
  BY DivFacts
<1> HIDE DEF d
<1>2. d * n < (q + 1) * n /\ q * n < (d + 1) * n
  BY <1>1
<1>3. d < q + 1 /\ q < d + 1
  BY <1>1, <1>2, MulCancel
<1> QED BY <1>1, <1>3 DEF d

\* It is monotone.
LEMMA DivMonotone ==
    ASSUME NEW a \in Int, NEW b \in Int, NEW n \in Nat \ {0}, a <= b
    PROVE  a \div n <= b \div n
<1>1. /\ a \div n \in Int /\ n * (a \div n) <= a
      /\ b \div n \in Int /\ b < n * (b \div n) + n
  BY DivFacts
<1> DEFINE d == a \div n
           e == b \div n
<1>2. d \in Int /\ e \in Int /\ d * n < (e + 1) * n
  BY <1>1
<1> HIDE DEF d, e
<1>3. d < e + 1
  BY <1>2, MulCancel
<1> QED BY <1>2, <1>3 DEF d, e

-----------------------------------------------------------------------------
\* The values of a loop of n turns over V: one before the first turn and one after each.
Turns(f, n, V, base, step) ==
    /\ f \in [0..n -> V]
    /\ f[0] = base
    /\ \A i \in 1..n : f[i] = step[<<i, f[i - 1]>>]

\* A loop has such values, and what it leaves is the last.
LEMMA LoopFacts ==
    ASSUME NEW n \in Nat, NEW V, NEW base \in V, NEW step \in [(1..n) \X V -> V]
    PROVE  \E f : Turns(f, n, V, base, step) /\ Looped(n, base, step) = f[n]
<1> DEFINE S == {m \in 0..n : ~\E g : Turns(g, m, V, base, step)}
<1>1. S = {}
  <2> SUFFICES ASSUME S # {} PROVE FALSE
    OBVIOUS
  <2>1. S \in SUBSET Nat
    OBVIOUS
  <2>2. PICK m \in S : \A l \in S : m <= l
    BY <2>1, Least
  <2>3. m \in 0..n /\ ~\E g : Turns(g, m, V, base, step)
    BY <2>2
  <2>4. CASE m = 0
    <3> DEFINE g == [i \in 0..0 |-> base]
    <3>1. Turns(g, 0, V, base, step)
      BY DEF Turns
    <3> QED BY <3>1, <2>3, <2>4
  <2>5. CASE m # 0
    <3>1. m - 1 \in 0..n /\ m - 1 \notin S
      BY <2>2, <2>3, <2>5
    <3>2. PICK g : Turns(g, m - 1, V, base, step)
      BY <3>1
    <3> DEFINE h == [i \in 0..m |-> IF i = m THEN step[<<m, g[m - 1]>>] ELSE g[i]]
    <3>3. /\ g \in [0..(m - 1) -> V]
          /\ g[0] = base
          /\ \A i \in 1..(m - 1) : g[i] = step[<<i, g[i - 1]>>]
      BY <3>2 DEF Turns
    <3>4. g[m - 1] \in V /\ step[<<m, g[m - 1]>>] \in V
      <4>1. g[m - 1] \in V
        BY <3>3, <2>3, <2>5
      <4>2. <<m, g[m - 1]>> \in (1..n) \X V
        BY <4>1, <2>3, <2>5
      <4> QED BY <4>1, <4>2
    <3>5. h \in [0..m -> V]
      BY <3>3, <3>4, <2>3, <2>5
    <3>6. h[0] = base
      BY <3>3, <2>3, <2>5
    <3>7. \A i \in 1..m : h[i] = step[<<i, h[i - 1]>>]
      <4> TAKE i \in 1..m
      <4>1. i - 1 \in 0..m /\ i - 1 # m /\ h[i - 1] = g[i - 1]
        BY <2>3
      <4>2. CASE i = m
        BY <4>1, <4>2
      <4>3. CASE i # m
        <5>1. i \in 1..(m - 1) /\ h[i] = g[i]
          BY <4>3, <2>3
        <5> QED BY <4>1, <5>1, <3>3
      <4> QED BY <4>2, <4>3
    <3>8. Turns(h, m, V, base, step)
      BY <3>5, <3>6, <3>7 DEF Turns
    <3> QED BY <3>8, <2>3
  <2> QED BY <2>4, <2>5
<1>2. PICK g : Turns(g, n, V, base, step)
  BY <1>1
<1> DEFINE Body(f) == [i \in 0..n |-> IF i = 0 THEN base ELSE step[<<i, f[i - 1]>>]]
           loop == CHOOSE f : f = Body(f)
<1>3. g = Body(g)
  <2>1. \A i \in 0..n : g[i] = IF i = 0 THEN base ELSE step[<<i, g[i - 1]>>]
    BY <1>2 DEF Turns
  <2>2. g = [i \in 0..n |-> g[i]]
    BY <1>2 DEF Turns
  <2> QED BY <2>1, <2>2
<1>4. loop = Body(loop)
  BY <1>3
<1>5. Looped(n, base, step) = loop[n]
  BY DEF Looped
<1> HIDE DEF loop
<1>6. \A i \in 0..n : loop[i] = g[i]
  <2> DEFINE D == {i \in 0..n : loop[i] # g[i]}
  <2> SUFFICES ASSUME D # {} PROVE FALSE
    OBVIOUS
  <2>1. D \in SUBSET Nat
    OBVIOUS
  <2>2. PICK i \in D : \A l \in D : i <= l
    BY <2>1, Least
  <2>3. i \in 0..n /\ loop[i] # g[i]
    BY <2>2
  <2>4. loop[i] = IF i = 0 THEN base ELSE step[<<i, loop[i - 1]>>]
    BY <1>4, <2>3
  <2>5. g[i] = IF i = 0 THEN base ELSE step[<<i, g[i - 1]>>]
    BY <1>3, <2>3
  <2>6. CASE i = 0
    BY <2>3, <2>4, <2>5, <2>6
  <2>7. CASE i # 0
    <3>1. i - 1 \in 0..n /\ i - 1 \notin D
      BY <2>2, <2>3, <2>7
    <3>2. loop[i - 1] = g[i - 1]
      BY <3>1
    <3> QED BY <3>2, <2>3, <2>4, <2>5, <2>7
  <2> QED BY <2>6, <2>7
<1>7. Looped(n, base, step) = g[n]
  BY <1>5, <1>6
<1> QED BY <1>2, <1>7

\* Each turn makes of what is right after the turns before it what is right after it; Good
\* has the pairs of a number of turns and a value that are right after so many.
KeptBy(step, n, V, Good) ==
    \A i \in 1..n : \A v \in V : <<i - 1, v>> \in Good => <<i, step[<<i, v>>]>> \in Good

\* What holds before a loop and is kept by each turn holds after every turn.
LEMMA LoopKeeps ==
    ASSUME NEW n \in Nat, NEW V, NEW base, NEW step, NEW f, Turns(f, n, V, base, step),
           NEW Good, <<0, base>> \in Good, KeptBy(step, n, V, Good)
    PROVE  \A i \in 0..n : f[i] \in V /\ <<i, f[i]>> \in Good
<1> DEFINE Bad == {i \in 0..n : <<i, f[i]>> \notin Good}
<1>1. f \in [0..n -> V] /\ f[0] = base /\ \A i \in 1..n : f[i] = step[<<i, f[i - 1]>>]
  BY DEF Turns
<1>2. ASSUME Bad # {} PROVE FALSE
  <2>1. Bad \in SUBSET Nat
    OBVIOUS
  <2>2. PICK i \in Bad : \A j \in Bad : i <= j
    <3> HIDE DEF Bad
    <3> QED BY <1>2, <2>1, Least
  <2>3. i \in 1..n /\ i - 1 \in 0..n /\ i - 1 < i
    BY <1>1, <2>2
  <2>4. i - 1 \notin Bad
    <3> HIDE DEF Bad
    <3> QED BY <2>1, <2>2, <2>3
  <2>5. <<i - 1, f[i - 1]>> \in Good /\ f[i - 1] \in V
    BY <1>1, <2>3, <2>4
  <2>6. <<i, f[i]>> \in Good
    BY <1>1, <2>3, <2>5 DEF KeptBy
  <2> QED BY <2>2, <2>6
<1> QED BY <1>1, <1>2

-----------------------------------------------------------------------------
(* Folds of a finite set. *)

Some(s) == CHOOSE x \in s : TRUE

\* g has the fold of every part of S.
FoldedBy(g, S, V, base, step) ==
    /\ g \in [SUBSET S -> V]
    /\ \A s \in SUBSET S : g[s] = IF s = {} THEN base ELSE step[<<Some(s), g[s \ {Some(s)}]>>]

\* The chosen element of a part of S is in it, and the part without it is one smaller.
LEMMA SomeFacts ==
    ASSUME NEW S, IsFiniteSet(S), NEW s \in SUBSET S, s # {}
    PROVE  /\ Some(s) \in s /\ s \ {Some(s)} \in SUBSET S
           /\ Cardinality(s) \in Nat /\ Cardinality(s \ {Some(s)}) = Cardinality(s) - 1
<1>1. Some(s) \in s
  BY DEF Some
<1>2. IsFiniteSet(s)
  BY FS_Subset
<1> QED BY <1>1, <1>2, FS_RemoveElement, FS_CardinalityType

\* Of any parts of S one is empty, or is not among them without its chosen element.
LEMMA Smallest ==
    ASSUME NEW S, IsFiniteSet(S), NEW F \in SUBSET SUBSET S, F # {}
    PROVE  \E s \in F : s = {} \/ s \ {Some(s)} \notin F
<1> DEFINE sizes == {Cardinality(s) : s \in F}
<1>1. sizes \in SUBSET Nat /\ sizes # {}
  <2>1. \A s \in F : Cardinality(s) \in Nat
    BY FS_Subset, FS_CardinalityType
  <2> QED BY <2>1
<1>2. PICK m \in sizes : \A k \in sizes : m <= k
  <2> HIDE DEF sizes
  <2> QED BY <1>1, Least
<1>3. PICK s \in F : Cardinality(s) = m
  BY <1>2
<1>4. s # {} => Cardinality(s \ {Some(s)}) = m - 1 /\ m \in Nat
  BY <1>3, SomeFacts
<1>5. s # {} => s \ {Some(s)} \notin F
  <2> SUFFICES ASSUME s # {}, s \ {Some(s)} \in F PROVE FALSE
    OBVIOUS
  <2>1. Cardinality(s \ {Some(s)}) \in sizes
    OBVIOUS
  <2> HIDE DEF sizes
  <2> QED BY <1>2, <1>4, <2>1
<1> QED BY <1>3, <1>5

\* Every fold has such a function.
LEMMA FoldFacts ==
    ASSUME NEW S, IsFiniteSet(S), NEW V, NEW base \in V, NEW step \in [S \X V -> V]
    PROVE  \E g : FoldedBy(g, S, V, base, step)
<1> DEFINE Upto(n) == {s \in SUBSET S : Cardinality(s) <= n}
           Part(g, n) == /\ g \in [Upto(n) -> V]
                         /\ \A s \in Upto(n) :
                               g[s] = IF s = {} THEN base ELSE step[<<Some(s), g[s \ {Some(s)}]>>]
           N == Cardinality(S)
           Bad == {n \in 0..N : ~\E g : Part(g, n)}
<1>0. \A s \in SUBSET S : Cardinality(s) \in 0..N /\ (Cardinality(s) = 0 <=> s = {})
  <2> TAKE s \in SUBSET S
  <2>1. IsFiniteSet(s) /\ Cardinality(s) <= N
    BY FS_Subset
  <2>2. Cardinality(s) \in Nat /\ N \in Nat /\ (Cardinality(s) = 0 <=> s = {})
    BY <2>1, FS_CardinalityType, FS_EmptySet
  <2> QED BY <2>1, <2>2
<1>00. N \in Nat
  BY FS_CardinalityType
<1>1. Bad = {}
  <2> SUFFICES ASSUME Bad # {} PROVE FALSE
    OBVIOUS
  <2>1. Bad \in SUBSET Nat
    OBVIOUS
  <2>2. PICK n \in Bad : \A m \in Bad : n <= m
    <3> HIDE DEF Bad
    <3> QED BY <2>1, Least
  <2>3. n \in 0..N /\ ~\E g : Part(g, n)
    BY <2>2
  <2>4. CASE n = 0
    <3> DEFINE g == [s \in Upto(0) |-> base]
    <3>1. \A s \in Upto(0) : s = {}
      BY <1>0, <1>00
    <3>2. Part(g, 0)
      BY <3>1
    <3> HIDE DEF g, Part
    <3> QED BY <2>3, <2>4, <3>2
  <2>5. CASE n # 0
    <3>1. n - 1 \in 0..N /\ n - 1 \notin Bad
      <4>1. n - 1 \in 0..N /\ ~(n <= n - 1)
        BY <1>00, <2>3, <2>5
      <4> HIDE DEF Bad
      <4> QED BY <2>2, <4>1
    <3>2. PICK g : Part(g, n - 1)
      <4> HIDE DEF Part
      <4> QED BY <3>1
    <3> DEFINE h == [s \in Upto(n) |-> IF s = {} THEN base ELSE step[<<Some(s), g[s \ {Some(s)}]>>]]
    <3>3. \A s \in Upto(n) : s # {} => /\ Some(s) \in S
                                       /\ s \ {Some(s)} \in Upto(n - 1)
                                       /\ s \ {Some(s)} \in Upto(n)
      BY <1>0, <1>00, <2>3, SomeFacts
    <3>4. h \in [Upto(n) -> V]
      <4>1. \A s \in Upto(n) : s # {} => step[<<Some(s), g[s \ {Some(s)}]>>] \in V
        <5> HIDE DEF Upto
        <5> QED BY <3>2, <3>3
      <4> HIDE DEF Upto
      <4> QED BY <4>1
    <3>5. \A s \in Upto(n - 1) : s \in Upto(n) /\ h[s] = g[s]
      <4>1. \A s \in Upto(n - 1) : s \in Upto(n)
        BY <1>0, <1>00, <2>3
      <4> HIDE DEF Upto
      <4> QED BY <3>2, <4>1
    <3>6. \A s \in Upto(n) : s # {} => h[s \ {Some(s)}] = g[s \ {Some(s)}]
      BY <3>3, <3>5
    <3>7. Part(h, n)
      <4> HIDE DEF Upto
      <4> QED BY <3>4, <3>6
    <3> HIDE DEF h, Part
    <3> QED BY <2>3, <3>7
  <2> QED BY <2>4, <2>5
<1>2. PICK g : Part(g, N)
  <2>1. N \in 0..N
    BY <1>00
  <2> HIDE DEF Part, N
  <2> QED BY <1>1, <2>1
<1>3. Upto(N) = SUBSET S
  BY <1>0
<1> QED BY <1>2, <1>3 DEF FoldedBy

\* g has the sum of f over every part of S.
Sums(g, f, S) ==
    /\ g \in [SUBSET S -> Int]
    /\ g[{}] = 0
    /\ \A s \in SUBSET S : s # {} => g[s] = f[Some(s)] + g[s \ {Some(s)}]

\* A sum over a finite set, with those over its parts.
LEMMA SumFacts ==
    ASSUME NEW S, IsFiniteSet(S), NEW f \in [S -> Int]
    PROVE  \E g : Sums(g, f, S) /\ SumOf(f, S) = g[S]
<1> DEFINE step == [p \in S \X Int |-> f[p[1]] + p[2]]
<1>1. step \in [S \X Int -> Int]
  OBVIOUS
<1>2. PICK g : FoldedBy(g, S, Int, 0, step)
  <2> HIDE DEF step
  <2> QED BY <1>1, FoldFacts
<1> DEFINE Body(h) == [s \in SUBSET S |-> IF s = {} THEN 0
                                          ELSE f[Some(s)] + h[s \ {Some(s)}]]
           iter == CHOOSE h : h = Body(h)
<1>3. \A s \in SUBSET S : s # {} => Some(s) \in S /\ s \ {Some(s)} \in SUBSET S
  BY SomeFacts
<1>4. g \in [SUBSET S -> Int] /\ g = Body(g)
  <2>1. g \in [SUBSET S -> Int]
    BY <1>2 DEF FoldedBy
  <2>2. \A s \in SUBSET S : g[s] = IF s = {} THEN 0 ELSE step[<<Some(s), g[s \ {Some(s)}]>>]
    BY <1>2 DEF FoldedBy
  <2>3. \A s \in SUBSET S : s # {} => step[<<Some(s), g[s \ {Some(s)}]>>] = f[Some(s)] + g[s \ {Some(s)}]
    BY <1>3, <2>1
  <2>4. \A s \in SUBSET S : g[s] = IF s = {} THEN 0 ELSE f[Some(s)] + g[s \ {Some(s)}]
    BY <2>2, <2>3
  <2> QED BY <2>1, <2>4
<1>5. iter = Body(iter)
  BY <1>4
<1>6. SumOf(f, S) = iter[S]
  BY DEF SumOf, MapThenSumSet, MapThenFoldSet, Some
<1> HIDE DEF iter
<1>7. \A s \in SUBSET S : iter[s] = IF s = {} THEN 0 ELSE f[Some(s)] + iter[s \ {Some(s)}]
  BY <1>5
<1>8. \A s \in SUBSET S : iter[s] = g[s]
  <2> DEFINE Bad == {s \in SUBSET S : iter[s] # g[s]}
  <2> SUFFICES ASSUME Bad # {} PROVE FALSE
    OBVIOUS
  <2>1. Bad \in SUBSET SUBSET S
    OBVIOUS
  <2>2. PICK s \in Bad : s = {} \/ s \ {Some(s)} \notin Bad
    <3> HIDE DEF Bad
    <3> QED BY <2>1, Smallest
  <2>3. s # {}
    BY <1>4, <1>7, <2>2
  <2>4. s \ {Some(s)} \in SUBSET S /\ iter[s \ {Some(s)}] = g[s \ {Some(s)}]
    BY <2>2, <2>3, SomeFacts
  <2> QED BY <1>4, <1>7, <2>2, <2>3, <2>4
<1>9. SumOf(f, S) = g[S]
  BY <1>6, <1>8
<1>10. Sums(g, f, S)
  BY <1>4 DEF Sums
<1> QED BY <1>9, <1>10
\* The numbers h are F times a of the numbers f and b.
LinearIn(h, f, S, F, a, b) == \A x \in S : h[x] = F * (a * f[x] + b)

LinearSum(h, f, S, F, a, b) == SumOf(h, S) = F * (a * SumOf(f, S) + Cardinality(S) * b)

\* So is their sum, with b once for each.
LEMMA SumScaled ==
    ASSUME NEW S, IsFiniteSet(S), NEW f \in [S -> Int], NEW h \in [S -> Int],
           NEW F \in Int, NEW a \in Int, NEW b \in Int,
           LinearIn(h, f, S, F, a, b)
    PROVE  /\ SumOf(f, S) \in Int
           /\ Cardinality(S) \in Nat
           /\ LinearSum(h, f, S, F, a, b)
<1>1. PICK g : Sums(g, f, S) /\ SumOf(f, S) = g[S]
  BY SumFacts
<1>2. PICK k : Sums(k, h, S) /\ SumOf(h, S) = k[S]
  BY SumFacts
<1> DEFINE Right(s) == k[s] = F * (a * g[s] + Cardinality(s) * b)
           Bad == {s \in SUBSET S : ~Right(s)}
<1>3. Bad = {}
  <2> SUFFICES ASSUME Bad # {} PROVE FALSE
    OBVIOUS
  <2>1. Bad \in SUBSET SUBSET S
    OBVIOUS
  <2>2. PICK s \in Bad : s = {} \/ s \ {Some(s)} \notin Bad
    <3> HIDE DEF Bad
    <3> QED BY <2>1, Smallest
  <2>3. s \in SUBSET S /\ ~Right(s)
    BY <2>2
  <2>4. s # {}
    <3>1. Cardinality({}) = 0
      BY FS_EmptySet
    <3>2. F * (a * 0 + 0 * b) = 0
      OBVIOUS
    <3>3. Right({})
      BY <1>1, <1>2, <3>1, <3>2 DEF Sums
    <3> QED BY <2>3, <3>3
  <2> DEFINE x == Some(s)
             t == s \ {x}
             n == Cardinality(s)
  <2>5. x \in S /\ t \in SUBSET S /\ Cardinality(t) = n - 1 /\ n \in Nat
    BY <2>3, <2>4, SomeFacts
  <2>6. Right(t)
    BY <2>2, <2>4, <2>5
  <2>7. g[s] = f[x] + g[t] /\ k[s] = h[x] + k[t] /\ f[x] \in Int /\ g[t] \in Int
    BY <1>1, <1>2, <2>3, <2>4, <2>5 DEF Sums
  <2>8. h[x] = F * (a * f[x] + b)
    BY <2>5 DEF LinearIn
  <2>9. ASSUME NEW y \in Int, NEW z \in Int
        PROVE  F * (a * y + b) + F * (a * z + (n - 1) * b) = F * (a * (y + z) + n * b)
    <3>1. n \in Int
      BY <2>5
    <3> HIDE DEF n
    <3>2. (n - 1) * b = n * b - b /\ a * (y + z) = a * y + a * z
      BY <3>1
    <3>3. a * y \in Int /\ a * z \in Int /\ n * b \in Int
      BY <3>1
    <3>4. \A u, v, w \in Int : F * (u + b) + F * (v + (w - b)) = F * ((u + v) + w)
      OBVIOUS
    <3> QED BY <3>2, <3>3, <3>4
  <2>10. k[s] = F * (a * g[s] + n * b)
    <3> HIDE DEF x, t, n
    <3> QED BY <2>5, <2>6, <2>7, <2>8, <2>9
  <2> QED BY <2>3, <2>10
<1>4. S \in SUBSET S /\ g[S] \in Int
  BY <1>1 DEF Sums
<1>5. Right(S)
  BY <1>3, <1>4
<1> QED BY <1>1, <1>2, <1>4, <1>5, FS_CardinalityType DEF LinearSum

\* Every element divides the product of all.
LEMMA ProductFacts ==
    ASSUME NEW S \in SUBSET (Nat \ {0}), IsFiniteSet(S)
    PROVE  /\ ProductSet(S) \in Nat \ {0}
           /\ \A x \in S : \E m \in Nat \ {0} : ProductSet(S) = x * m
<1> DEFINE V == Nat \ {0}
           step == [p \in S \X V |-> p[1] * p[2]]
<1>1. step \in [S \X V -> V]
  <2>1. \A m, n \in V : m * n \in V
    OBVIOUS
  <2> QED BY <2>1
<1>2. 1 \in V
  OBVIOUS
<1>3. PICK g : FoldedBy(g, S, V, 1, step)
  <2> HIDE DEF step, V
  <2> QED BY <1>1, <1>2, FoldFacts
<1> DEFINE Body(h) == [s \in SUBSET S |-> IF s = {} THEN 1 ELSE Some(s) * h[s \ {Some(s)}]]
           iter == CHOOSE h : h = Body(h)
<1>4. \A s \in SUBSET S : s # {} => Some(s) \in S /\ s \ {Some(s)} \in SUBSET S
  BY SomeFacts
<1>5. g \in [SUBSET S -> V] /\ g = Body(g)
  <2>1. g \in [SUBSET S -> V]
    BY <1>3 DEF FoldedBy
  <2>2. \A s \in SUBSET S : g[s] = IF s = {} THEN 1 ELSE step[<<Some(s), g[s \ {Some(s)}]>>]
    BY <1>3 DEF FoldedBy
  <2>3. \A s \in SUBSET S : s # {} => step[<<Some(s), g[s \ {Some(s)}]>>] = Some(s) * g[s \ {Some(s)}]
    BY <1>4, <2>1
  <2>4. \A s \in SUBSET S : g[s] = IF s = {} THEN 1 ELSE Some(s) * g[s \ {Some(s)}]
    BY <2>2, <2>3
  <2> QED BY <2>1, <2>4
<1>6. iter = Body(iter)
  BY <1>5
<1>7. ProductSet(S) = iter[S]
  BY DEF ProductSet, FoldSet, MapThenFoldSet, Some
<1> HIDE DEF iter
<1>8. \A s \in SUBSET S : iter[s] = IF s = {} THEN 1 ELSE Some(s) * iter[s \ {Some(s)}]
  BY <1>6
<1> DEFINE Divided(s) == iter[s] \in V /\ \A x \in s : \E m \in V : iter[s] = x * m
           Bad == {s \in SUBSET S : ~Divided(s)}
<1>9. Bad = {}
  <2> SUFFICES ASSUME Bad # {} PROVE FALSE
    OBVIOUS
  <2>1. Bad \in SUBSET SUBSET S
    OBVIOUS
  <2>2. PICK s \in Bad : s = {} \/ s \ {Some(s)} \notin Bad
    <3> HIDE DEF Bad
    <3> QED BY <2>1, Smallest
  <2>3. s \in SUBSET S /\ ~Divided(s)
    BY <2>2
  <2>4. s # {}
    BY <1>2, <1>8, <2>3
  <2> DEFINE x == Some(s)
             t == s \ {x}
  <2>5. x \in s /\ t \in SUBSET S /\ x \in V
    BY <2>3, <2>4, SomeFacts
  <2>6. Divided(t)
    BY <2>2, <2>4, <2>5
  <2>7. iter[s] = x * iter[t] /\ iter[t] \in V
    BY <1>8, <2>3, <2>4, <2>6
  <2> HIDE DEF x
  <2>8. \A a, b, c \in V : a * b \in V /\ a * (b * c) = b * (a * c)
    OBVIOUS
  <2>9. iter[s] \in V
    BY <2>5, <2>7, <2>8
  <2>10. ASSUME NEW y \in s PROVE \E m \in V : iter[s] = y * m
    <3>1. CASE y = x
      BY <2>7, <3>1
    <3>2. CASE y # x
      <4>1. PICK m \in V : iter[t] = y * m
        BY <2>6, <3>2
      <4>2. y \in V /\ x * m \in V
        BY <2>3, <2>5, <2>8, <4>1
      <4>3. iter[s] = y * (x * m)
        BY <2>5, <2>7, <2>8, <4>1, <4>2
      <4> QED BY <4>2, <4>3
    <3> QED BY <3>1, <3>2
  <2> HIDE DEF t, V
  <2> QED BY <2>3, <2>9, <2>10
<1>10. S \in SUBSET S
  OBVIOUS
<1>11. Divided(S)
  BY <1>9, <1>10
<1> QED BY <1>7, <1>11

\* Of any parts of S one is not among them without any of its elements.
LEMMA SmallestOfAll ==
    ASSUME NEW S, IsFiniteSet(S), NEW F \in SUBSET SUBSET S, F # {}
    PROVE  \E s \in F : \A x \in s : s \ {x} \notin F
<1> DEFINE sizes == {Cardinality(s) : s \in F}
<1>1. \A s \in F : IsFiniteSet(s) /\ Cardinality(s) \in Nat
  BY FS_Subset, FS_CardinalityType
<1>2. sizes \in SUBSET Nat /\ sizes # {}
  BY <1>1
<1>3. PICK m \in sizes : \A k \in sizes : m <= k
  <2> HIDE DEF sizes
  <2> QED BY <1>2, Least
<1>4. PICK s \in F : Cardinality(s) = m
  BY <1>3
<1>5. ASSUME NEW x \in s, s \ {x} \in F PROVE FALSE
  <2>1. Cardinality(s \ {x}) = m - 1 /\ m \in Nat
    BY <1>1, <1>4, FS_RemoveElement
  <2>2. Cardinality(s \ {x}) \in sizes
    BY <1>5
  <2> HIDE DEF sizes
  <2> QED BY <1>3, <2>1, <2>2
<1> QED BY <1>4, <1>5

\* A sum is that without any one of the elements, and the element's number.
LEMMA SumWithout ==
    ASSUME NEW S, IsFiniteSet(S), NEW f \in [S -> Int], NEW g, Sums(g, f, S)
    PROVE  \A s \in SUBSET S : \A x \in s : g[s] = f[x] + g[s \ {x}]
<1> DEFINE Bad == {s \in SUBSET S : \E x \in s : g[s] # f[x] + g[s \ {x}]}
<1> SUFFICES ASSUME Bad # {} PROVE FALSE
  OBVIOUS
<1>1. Bad \in SUBSET SUBSET S
  OBVIOUS
<1>2. PICK s \in Bad : \A x \in s : s \ {x} \notin Bad
  <2> HIDE DEF Bad
  <2> QED BY <1>1, SmallestOfAll
<1>3. PICK x \in s : g[s] # f[x] + g[s \ {x}]
  BY <1>2
<1> DEFINE y == Some(s)
<1>4. y \in s /\ s \in SUBSET S
  BY <1>2, <1>3, SomeFacts
<1>5. g[s] = f[y] + g[s \ {y}]
  BY <1>3, <1>4 DEF Sums
<1> HIDE DEF y
<1>6. y # x
  BY <1>3, <1>5
<1> DEFINE t == (s \ {x}) \ {y}
<1>7. /\ s \ {x} \in SUBSET S /\ y \in s \ {x}
      /\ s \ {y} \in SUBSET S /\ x \in s \ {y}
      /\ t \in SUBSET S /\ (s \ {y}) \ {x} = t
  BY <1>4, <1>6
<1>8. g[s \ {x}] = f[y] + g[t] /\ g[s \ {y}] = f[x] + g[t]
  <2>1. \A v \in SUBSET S : v \notin Bad => \A z \in v : g[v] = f[z] + g[v \ {z}]
    OBVIOUS
  <2>2. s \ {x} \notin Bad /\ s \ {y} \notin Bad
    BY <1>2, <1>3, <1>4
  <2> DEFINE v == s \ {x}
             w == s \ {y}
  <2>3. v \ {y} = t /\ w \ {x} = t
    BY <1>7
  <2>4. v \in SUBSET S /\ y \in v /\ w \in SUBSET S /\ x \in w /\ v \notin Bad /\ w \notin Bad
    BY <1>7, <2>2
  <2> HIDE DEF Bad, t, v, w
  <2>5. g[v] = f[y] + g[t] /\ g[w] = f[x] + g[t]
    BY <2>1, <2>3, <2>4
  <2> QED BY <2>5 DEF v, w
<1>9. g[t] \in Int /\ f[x] \in Int /\ f[y] \in Int
  BY <1>4, <1>7 DEF Sums
<1> HIDE DEF t
<1> QED BY <1>3, <1>5, <1>8, <1>9

\* h has the numbers of f on T, outside which f has only noughts.
CarriedBy(h, T, f, S) ==
    /\ T \in SUBSET S
    /\ h \in [T -> Int]
    /\ \A x \in T : h[x] = f[x]
    /\ \A x \in S \ T : f[x] = 0

\* Noughts do not count in a sum.
LEMMA SumPart ==
    ASSUME NEW S, IsFiniteSet(S), NEW f \in [S -> Int], NEW T, NEW h, CarriedBy(h, T, f, S)
    PROVE  SumOf(f, S) = SumOf(h, T)
<1>1. PICK g : Sums(g, f, S) /\ SumOf(f, S) = g[S]
  BY SumFacts
<1>2. IsFiniteSet(T) /\ h \in [T -> Int] /\ T \in SUBSET S
  BY FS_Subset DEF CarriedBy
<1>3. PICK k : Sums(k, h, T) /\ SumOf(h, T) = k[T]
  BY <1>2, SumFacts
<1> DEFINE Bad == {s \in SUBSET S : g[s] # k[s \cap T]}
<1>4. Bad = {}
  <2> SUFFICES ASSUME Bad # {} PROVE FALSE
    OBVIOUS
  <2>1. Bad \in SUBSET SUBSET S
    OBVIOUS
  <2>2. PICK s \in Bad : \A x \in s : s \ {x} \notin Bad
    <3> HIDE DEF Bad
    <3> QED BY <2>1, SmallestOfAll
  <2>3. s \in SUBSET S /\ g[s] # k[s \cap T]
    BY <2>2
  <2>4. PICK x \in s : TRUE
    <3>1. {} \cap T = {}
      OBVIOUS
    <3> QED BY <1>1, <1>3, <2>3, <3>1 DEF Sums
  <2>5. g[s] = f[x] + g[s \ {x}] /\ g[s \ {x}] = k[(s \ {x}) \cap T]
    <3>1. g[s] = f[x] + g[s \ {x}]
      BY <1>1, <2>3, SumWithout
    <3>2. s \ {x} \in SUBSET S /\ s \ {x} \notin Bad
      BY <2>2, <2>3
    <3> QED BY <3>1, <3>2
  <2>6. CASE x \in T
    <3>1. s \cap T \in SUBSET T /\ x \in s \cap T /\ (s \ {x}) \cap T = (s \cap T) \ {x}
      BY <2>6
    <3>2. k[s \cap T] = h[x] + k[(s \cap T) \ {x}]
      BY <1>2, <1>3, <3>1, SumWithout
    <3>3. h[x] = f[x]
      BY <2>6 DEF CarriedBy
    <3> QED BY <2>3, <2>5, <3>1, <3>2, <3>3
  <2>7. CASE x \notin T
    <3>1. (s \ {x}) \cap T = s \cap T /\ s \cap T \in SUBSET T
      BY <2>7
    <3>2. f[x] = 0
      BY <2>3, <2>7 DEF CarriedBy
    <3>3. k[s \cap T] \in Int
      BY <1>3, <3>1 DEF Sums
    <3>4. g[s \ {x}] = k[s \cap T]
      BY <2>5, <3>1
    <3> HIDE DEF Bad
    <3> QED BY <2>3, <2>5, <3>2, <3>3, <3>4
  <2> QED BY <2>6, <2>7
<1>5. S \in SUBSET S /\ S \cap T = T
  BY <1>2
<1> QED BY <1>1, <1>3, <1>4, <1>5

\* Nothing adds up to nought.
LEMMA SumOfNone == ASSUME NEW f \in [{} -> Int] PROVE SumOf(f, {}) = 0
<1>1. \E g : Sums(g, f, {}) /\ SumOf(f, {}) = g[{}]
  BY FS_EmptySet, SumFacts
<1> QED BY <1>1 DEF Sums

-----------------------------------------------------------------------------
(* Elements in an order. *)

\* R has the pairs of a strict order in which any two elements of S have one.
StrictOrder(R, S) ==
    /\ \A i \in S : <<i, i>> \notin R
    /\ \A i, j \in S : i # j => <<i, j>> \in R \/ <<j, i>> \in R
    /\ \A i, j, k \in S : <<i, j>> \in R /\ <<j, k>> \in R => <<i, k>> \in R

\* How many elements of S are before i.
Ahead(S, R, i) == Cardinality({j \in S : <<j, i>> \in R})

\* That number tells the elements apart, is in their order, and takes every value.
LEMMA AheadFacts ==
    ASSUME NEW S, IsFiniteSet(S), NEW R, StrictOrder(R, S)
    PROVE  /\ Cardinality(S) \in Nat
           /\ \A i \in S : Ahead(S, R, i) \in 0..(Cardinality(S) - 1)
           /\ \A i, j \in S : <<i, j>> \in R => Ahead(S, R, i) < Ahead(S, R, j)
           /\ \A k \in 0..(Cardinality(S) - 1) : \E i \in S : Ahead(S, R, i) = k
<1> DEFINE n == Cardinality(S)
           D(i) == {j \in S : <<j, i>> \in R}
           c(i) == Cardinality(D(i))
<1>1. n \in Nat
  BY FS_CardinalityType
<1>2. ASSUME NEW i \in S PROVE IsFiniteSet(D(i)) /\ c(i) \in Nat /\ c(i) < n
  <2>1. D(i) \in SUBSET S /\ i \notin D(i)
    BY DEF StrictOrder
  <2> HIDE DEF D
  <2>2. IsFiniteSet(D(i)) /\ Cardinality(D(i)) <= n /\ (Cardinality(D(i)) = n => D(i) = S)
    BY <2>1, FS_Subset
  <2>3. Cardinality(D(i)) \in Nat
    BY <2>2, FS_CardinalityType
  <2> QED BY <1>1, <2>1, <2>2, <2>3
<1>3. ASSUME NEW i \in S, NEW j \in S, <<i, j>> \in R PROVE c(i) < c(j)
  <2>1. D(i) \in SUBSET D(j)
    BY <1>3 DEF StrictOrder
  <2>2. i \in D(j) /\ i \notin D(i)
    BY <1>3 DEF StrictOrder
  <2>3. IsFiniteSet(D(i)) /\ IsFiniteSet(D(j)) /\ c(i) \in Nat /\ c(j) \in Nat
    BY <1>2
  <2> HIDE DEF D
  <2>4. Cardinality(D(i)) <= Cardinality(D(j)) /\ (Cardinality(D(i)) = Cardinality(D(j)) => D(i) = D(j))
    BY <2>1, <2>3, FS_Subset
  <2> QED BY <2>2, <2>3, <2>4
<1>4. \A i \in S : Ahead(S, R, i) = c(i)
  BY DEF Ahead
<1> HIDE DEF c, D
<1>5. ASSUME NEW i \in S, NEW j \in S, c(i) = c(j) PROVE i = j
  <2>1. ~(c(i) < c(j)) /\ ~(c(j) < c(i))
    BY <1>2, <1>5
  <2> QED BY <1>3, <2>1 DEF StrictOrder
<1>6. \A k \in 0..(n - 1) : \E i \in S : c(i) = k
  <2> DEFINE f == [i \in S |-> c(i) + 1]
  <2>1. f \in [S -> 1..n]
    BY <1>1, <1>2
  <2>2. \A i, j \in S : f[i] = f[j] => i = j
    BY <1>2, <1>5
  <2>3. f \in Injection(S, 1..n)
    BY <2>1, <2>2 DEF Injection, IsInjective
  <2>4. IsFiniteSet(1..n) /\ Cardinality(1..n) = n
    BY <1>1, FS_Interval
  <2>5. f \in Surjection(S, 1..n)
    <3> HIDE DEF f
    <3> QED BY <2>3, <2>4, FS_Injection
  <2>6. \A k \in 1..n : \E i \in S : c(i) + 1 = k
    BY <2>5 DEF Surjection
  <2>7. \A k \in 0..(n - 1) : k + 1 \in 1..n /\ \A i \in S : c(i) + 1 = k + 1 => c(i) = k
    BY <1>1, <1>2
  <2> QED BY <2>6, <2>7
<1>7. \A i \in S : c(i) \in 0..(n - 1)
  BY <1>1, <1>2
<1> QED BY <1>1, <1>3, <1>4, <1>6, <1>7

\* Arranged has every element once, and each before those it is before.
LEMMA ArrangedFacts ==
    ASSUME NEW S, IsFiniteSet(S), NEW R, StrictOrder(R, S)
    PROVE  /\ Cardinality(S) \in Nat
           /\ Arranged(S, R) \in [1..Cardinality(S) -> S]
           /\ \A k, l \in 1..Cardinality(S) : k < l => <<Arranged(S, R)[k], Arranged(S, R)[l]>> \in R
           /\ \A k, l \in 1..Cardinality(S) : Arranged(S, R)[k] = Arranged(S, R)[l] => k = l
           /\ \A i \in S : \E k \in 1..Cardinality(S) : Arranged(S, R)[k] = i
<1> DEFINE n == Cardinality(S)
           A == Arranged(S, R)
<1>1. n \in Nat
  BY AheadFacts
<1>2. ASSUME NEW k \in 1..n PROVE A[k] \in S /\ Ahead(S, R, A[k]) = k - 1
  <2>1. k - 1 \in 0..(n - 1)
    BY <1>1
  <2>2. \E i \in S : Ahead(S, R, i) = k - 1
    BY <2>1, AheadFacts
  <2>3. A[k] = CHOOSE i \in S : Ahead(S, R, i) = k - 1
    BY DEF Arranged, Ahead
  <2> QED BY <2>2, <2>3
<1>3. A \in [1..n -> S]
  BY <1>2 DEF Arranged
<1> HIDE DEF A
<1>4. ASSUME NEW i \in S, NEW j \in S
      PROVE  /\ Ahead(S, R, i) < Ahead(S, R, j) => <<i, j>> \in R
             /\ Ahead(S, R, i) = Ahead(S, R, j) => i = j
  <2>1. Ahead(S, R, i) \in Int /\ Ahead(S, R, j) \in Int
    BY AheadFacts
  <2>2. /\ <<i, j>> \in R => Ahead(S, R, i) < Ahead(S, R, j)
        /\ <<j, i>> \in R => Ahead(S, R, j) < Ahead(S, R, i)
    BY AheadFacts
  <2>3. i = j \/ <<i, j>> \in R \/ <<j, i>> \in R
    BY DEF StrictOrder
  <2> QED BY <2>1, <2>2, <2>3
<1>5. ASSUME NEW k \in 1..n, NEW l \in 1..n
      PROVE  (k < l => <<A[k], A[l]>> \in R) /\ (A[k] = A[l] => k = l)
  <2>1. A[k] \in S /\ A[l] \in S /\ Ahead(S, R, A[k]) = k - 1 /\ Ahead(S, R, A[l]) = l - 1
    BY <1>2
  <2> QED BY <1>4, <2>1
<1>6. ASSUME NEW i \in S PROVE \E k \in 1..n : A[k] = i
  <2>1. Ahead(S, R, i) \in 0..(n - 1)
    BY AheadFacts
  <2>2. PICK k \in 1..n : k - 1 = Ahead(S, R, i)
    <3>1. Ahead(S, R, i) + 1 \in 1..n /\ (Ahead(S, R, i) + 1) - 1 = Ahead(S, R, i)
      BY <1>1, <2>1
    <3> QED BY <3>1
  <2>3. A[k] \in S /\ Ahead(S, R, A[k]) = Ahead(S, R, i)
    BY <1>2, <2>2
  <2> QED BY <1>4, <2>3
<1> QED BY <1>1, <1>3, <1>5, <1>6 DEF A

\* s has what J has at the places I, from each once; its k-th element is from e[k].
Draws(s, e, J, I) ==
    /\ e \in [1..Len(s) -> I]
    /\ \A k, l \in 1..Len(s) : e[k] = e[l] => k = l
    /\ \A i \in I : \E k \in 1..Len(s) : e[k] = i
    /\ \A k \in 1..Len(s) : s[k] = J[e[k]]

\* Of the first n that are drawn those at A are from B.
FromPlaces(A, B, e, n) == \A k \in 1..n : k \in A <=> e[k] \in B

\* It has as many elements from some of those places as there are places.
LEMMA DrawnCount ==
    ASSUME NEW T, NEW s \in Seq(T), NEW e, NEW J, NEW I, Draws(s, e, J, I),
           NEW A \in SUBSET (1..Len(s)), NEW B \in SUBSET I, FromPlaces(A, B, e, Len(s))
    PROVE  Cardinality(A) = Cardinality(B)
<1> DEFINE n == Len(s)
           f == [k \in A |-> e[k]]
<1>1. n \in Nat /\ IsFiniteSet(1..n)
  BY FS_Interval
<1>2. f \in [A -> B]
  BY DEF FromPlaces
<1>3. \A k, l \in A : f[k] = f[l] => k = l
  BY DEF Draws
<1>4. \A i \in B : \E k \in A : f[k] = i
  BY DEF Draws, FromPlaces
<1> HIDE DEF f
<1>5. f \in Bijection(A, B)
  BY <1>2, <1>3, <1>4 DEF Bijection, Injection, Surjection, IsInjective
<1>6. IsFiniteSet(A)
  BY <1>1, FS_Subset
<1>7. ExistsBijection(A, B)
  BY <1>5 DEF ExistsBijection
<1> QED BY <1>6, <1>7, FS_Bijection

\* What is drawn from places P of what is drawn from J is drawn from J.
LEMMA DrawnThrough ==
    ASSUME NEW s, NEW t, NEW e, NEW d, NEW J, NEW I, NEW P \in SUBSET (1..Len(t)), NEW K \in SUBSET I,
           Draws(s, e, t, P), Draws(t, d, J, I), \A p \in 1..Len(t) : p \in P <=> d[p] \in K
    PROVE  Draws(s, [k \in 1..Len(s) |-> d[e[k]]], J, K)
<1> DEFINE n == Len(s)
           m == Len(t)
           b == [k \in 1..n |-> d[e[k]]]
<1>1. \A k \in 1..n : e[k] \in P /\ e[k] \in 1..m /\ s[k] = t[e[k]]
  BY DEF Draws
<1>2. \A p \in 1..m : d[p] \in I /\ t[p] = J[d[p]]
  BY DEF Draws
<1>3. \A k \in 1..n : b[k] = d[e[k]] /\ d[e[k]] \in K /\ s[k] = J[d[e[k]]]
  BY <1>1, <1>2
<1>4. \A k, l \in 1..n : b[k] = b[l] => k = l
  <2>1. \A p, r \in 1..m : d[p] = d[r] => p = r
    BY DEF Draws
  <2>2. \A k, l \in 1..n : e[k] = e[l] => k = l
    BY DEF Draws
  <2> QED BY <1>1, <2>1, <2>2
<1>5. \A i \in K : \E k \in 1..n : b[k] = i
  <2> TAKE i \in K
  <2>1. PICK p \in 1..m : d[p] = i
    BY DEF Draws
  <2>2. PICK k \in 1..n : e[k] = p
    BY <2>1 DEF Draws
  <2> QED BY <2>1, <2>2
<1> QED BY <1>3, <1>4, <1>5 DEF Draws

\* What is kept of a list is drawn from its places in Good.
LEMMA KeptDrawn ==
    ASSUME NEW T, NEW s \in Seq(T), NEW Good
    PROVE  Draws(Filtered(s, Good), Places(s, Good), s, {i \in 1..Len(s) : s[i] \in Good})
<1> DEFINE F == Filtered(s, Good)
           e == Places(s, Good)
           n == Len(F)
<1>1. F \in Seq(T) /\ Keeps(F, e, s, Good)
  BY FilteredFacts
<1> HIDE DEF F, e
<1>2. /\ e \in [1..n -> 1..Len(s)]
      /\ \A k \in 1..n : F[k] = s[e[k]] /\ F[k] \in Good
      /\ \A k, l \in 1..n : k < l => e[k] < e[l]
      /\ \A i \in 1..Len(s) : s[i] \in Good => \E k \in 1..n : e[k] = i
  BY <1>1 DEF Keeps
<1>3. \A k, l \in 1..n : e[k] = e[l] => k = l
  <2> SUFFICES ASSUME NEW k \in 1..n, NEW l \in 1..n, e[k] = e[l] PROVE k = l
    OBVIOUS
  <2>1. ~(e[k] < e[l]) /\ ~(e[l] < e[k])
    BY <1>2
  <2>2. ~(k < l) /\ ~(l < k)
    BY <1>2, <2>1
  <2> QED BY <1>1, <2>2
<1> QED BY <1>2, <1>3 DEF Draws, F, e

\* Of two lists drawn from places apart, the one after the other is drawn from all of them.
LEMMA BothDrawn ==
    ASSUME NEW T, NEW s \in Seq(T), NEW t \in Seq(T), NEW e, NEW d, NEW J, NEW I, NEW K,
           Draws(s, e, J, I), Draws(t, d, J, K), I \cap K = {}
    PROVE  \E b : Draws(s \o t, b, J, I \cup K)
<1> DEFINE n == Len(s)
           m == Len(t)
           u == s \o t
           b == [k \in 1..(n + m) |-> IF k <= n THEN e[k] ELSE d[k - n]]
<1>1. n \in Nat /\ m \in Nat /\ Len(u) = n + m
      /\ (\A i \in 1..n : u[i] = s[i]) /\ \A i \in 1..m : u[n + i] = t[i]
  BY ConcatProperties
<1> HIDE DEF u
<1>2. \A k \in 1..(n + m) : k \in 1..n \/ (~(k <= n) /\ k - n \in 1..m /\ n + (k - n) = k)
  BY <1>1
<1>3. \A k \in 1..n : b[k] = e[k] /\ e[k] \in I /\ u[k] = J[e[k]] /\ k \in 1..(n + m)
  <2> TAKE k \in 1..n
  <2>1. k \in 1..(n + m) /\ k <= n
    BY <1>1
  <2>2. b[k] = e[k]
    BY <2>1
  <2>3. e[k] \in I /\ s[k] = J[e[k]]
    BY DEF Draws
  <2> HIDE DEF b
  <2> QED BY <1>1, <2>1, <2>2, <2>3
<1>4. \A k \in 1..m : b[n + k] = d[k] /\ d[k] \in K /\ u[n + k] = J[d[k]] /\ n + k \in 1..(n + m)
  <2> TAKE k \in 1..m
  <2>1. n + k \in 1..(n + m) /\ ~(n + k <= n) /\ (n + k) - n = k
    BY <1>1
  <2>2. b[n + k] = d[(n + k) - n]
    BY <2>1
  <2>3. d[k] \in K /\ t[k] = J[d[k]]
    BY DEF Draws
  <2> HIDE DEF b
  <2> QED BY <1>1, <2>1, <2>2, <2>3
<1>5. DOMAIN b = 1..(n + m) /\ b = [k \in DOMAIN b |-> b[k]]
  OBVIOUS
<1> HIDE DEF b
<1>6. \A k \in 1..(n + m) : b[k] \in I \cup K /\ u[k] = J[b[k]]
  <2> TAKE k \in 1..(n + m)
  <2>1. CASE k \in 1..n
    BY <1>3, <2>1
  <2>2. CASE k - n \in 1..m /\ n + (k - n) = k
    <3> DEFINE l == k - n
    <3>1. l \in 1..m /\ n + l = k
      BY <2>2
    <3> HIDE DEF l
    <3> QED BY <1>4, <3>1
  <2> QED BY <1>2, <2>1, <2>2
<1>7. ASSUME NEW k \in 1..(n + m), NEW l \in 1..(n + m), b[k] = b[l] PROVE k = l
  <2>1. \A i, j \in 1..n : e[i] = e[j] => i = j
    BY DEF Draws
  <2>2. \A i, j \in 1..m : d[i] = d[j] => i = j
    BY DEF Draws
  <2>3. CASE k \in 1..n /\ l \in 1..n
    BY <1>3, <1>7, <2>1, <2>3
  <2>4. CASE k \in 1..n /\ l - n \in 1..m /\ n + (l - n) = l
    <3> DEFINE j == l - n
    <3>1. j \in 1..m /\ n + j = l
      BY <2>4
    <3> HIDE DEF j
    <3> QED BY <1>3, <1>4, <1>7, <2>4, <3>1
  <2>5. CASE l \in 1..n /\ k - n \in 1..m /\ n + (k - n) = k
    <3> DEFINE j == k - n
    <3>1. j \in 1..m /\ n + j = k
      BY <2>5
    <3> HIDE DEF j
    <3> QED BY <1>3, <1>4, <1>7, <2>5, <3>1
  <2>6. CASE /\ k - n \in 1..m /\ n + (k - n) = k
             /\ l - n \in 1..m /\ n + (l - n) = l
    <3> DEFINE i == k - n
               j == l - n
    <3>1. i \in 1..m /\ n + i = k /\ j \in 1..m /\ n + j = l
      BY <2>6
    <3> HIDE DEF i, j
    <3> QED BY <1>4, <1>7, <2>2, <3>1
  <2> QED BY <1>2, <2>3, <2>4, <2>5, <2>6
<1>8. \A i \in I \cup K : \E k \in 1..(n + m) : b[k] = i
  <2> TAKE i \in I \cup K
  <2>1. CASE i \in I
    <3>1. PICK k \in 1..n : e[k] = i
      BY <2>1 DEF Draws
    <3> QED BY <1>3, <3>1
  <2>2. CASE i \in K
    <3>1. PICK k \in 1..m : d[k] = i
      BY <2>2 DEF Draws
    <3> QED BY <1>4, <3>1
  <2> QED BY <2>1, <2>2
<1>9. Draws(u, b, J, I \cup K)
  BY <1>1, <1>5, <1>6, <1>7, <1>8 DEF Draws
<1> QED BY <1>9 DEF u
=============================================================================
