---------------------------- MODULE SearchProofs ----------------------------
(***************************************************************************)
(* Proofs about Search, for any prompts, texts and nearness, any constant  *)
(* of the ranking, any number of vectors that are kept and any size of a   *)
(* page: the ranking is fair to both halves of the search, and who turns   *)
(* all pages of a search in which nothing changes gets every relevant      *)
(* prompt once.  Sorting comes first: that it is possible, and what it     *)
(* leaves of a sequence.                                                   *)
(***************************************************************************)
EXTENDS Search, FiniteSetTheorems, FunctionTheorems, SequenceTheorems, TLAPS
-----------------------------------------------------------------------------
(* Sorting finite sets. *)

\* R orders S: whatever two members, one is ahead of the other.
Orders(R, S) ==
  /\ \A x \in S : <<x, x>> \notin R
  /\ \A x, y \in S : x # y => <<x, y>> \in R \/ <<y, x>> \in R
  /\ \A x, y, z \in S : <<x, y>> \in R /\ <<y, z>> \in R => <<x, z>> \in R

AheadOf(x, S, R) == {y \in S : <<y, x>> \in R}

\* Of two members that one comes first which has fewer ahead of it.
LEMMA FewerAhead ==
  ASSUME NEW S, IsFiniteSet(S), NEW R, Orders(R, S), NEW x \in S
  PROVE  /\ IsFiniteSet(AheadOf(x, S, R))
         /\ Cardinality(AheadOf(x, S, R)) \in 0..(Cardinality(S) - 1)
         /\ \A y \in S : <<x, y>> \in R =>
              Cardinality(AheadOf(x, S, R)) < Cardinality(AheadOf(y, S, R))
<1>1. AheadOf(x, S, R) \in SUBSET S /\ x \notin AheadOf(x, S, R)
  BY DEF AheadOf, Orders
<1>2. IsFiniteSet(AheadOf(x, S, R))
  BY <1>1, FS_Subset
<1>3. Cardinality(AheadOf(x, S, R)) \in Nat /\ Cardinality(S) \in Nat
  BY <1>2, FS_CardinalityType
<1>4. Cardinality(AheadOf(x, S, R)) <= Cardinality(S) - 1
  BY <1>1, <1>3, FS_Subset
<1>5. ASSUME NEW y \in S, <<x, y>> \in R
      PROVE  Cardinality(AheadOf(x, S, R)) < Cardinality(AheadOf(y, S, R))
  <2>1. AheadOf(x, S, R) \in SUBSET AheadOf(y, S, R)
    BY <1>5 DEF AheadOf, Orders
  <2>2. x \in AheadOf(y, S, R) /\ x \notin AheadOf(x, S, R)
    BY <1>5 DEF AheadOf, Orders
  <2>3. AheadOf(y, S, R) \in SUBSET S
    BY DEF AheadOf
  <2>4. IsFiniteSet(AheadOf(y, S, R))
    BY <2>3, FS_Subset
  <2>5. Cardinality(AheadOf(y, S, R)) \in Nat
    BY <2>4, FS_CardinalityType
  <2> QED BY <1>3, <2>1, <2>2, <2>4, <2>5, FS_Subset
<1> QED BY <1>2, <1>3, <1>4, <1>5

\* A finite set that is ordered can be sorted: by the number of those ahead.
LEMMA CanBeSorted ==
  ASSUME NEW S, IsFiniteSet(S), NEW R, Orders(R, S)
  PROVE  \E f \in SetToSeqs(S) : \A m, n \in DOMAIN f : m < n => <<f[m], f[n]>> \in R
<1> DEFINE N == Cardinality(S)
           rank == [x \in S |-> Cardinality(AheadOf(x, S, R)) + 1]
           f == [n \in 1..N |-> CHOOSE x \in S : rank[x] = n]
<1>1. N \in Nat
  BY FS_CardinalityType
<1>2. \A x, y \in S : rank[x] \in 1..N /\ (<<x, y>> \in R => rank[x] < rank[y])
  <2> SUFFICES ASSUME NEW x \in S, NEW y \in S
               PROVE  rank[x] \in 1..N /\ (<<x, y>> \in R => rank[x] < rank[y])
    OBVIOUS
  <2>1. /\ Cardinality(AheadOf(x, S, R)) \in 0..(N - 1)
        /\ Cardinality(AheadOf(y, S, R)) \in 0..(N - 1)
        /\ <<x, y>> \in R => Cardinality(AheadOf(x, S, R)) < Cardinality(AheadOf(y, S, R))
    BY FewerAhead
  <2> QED BY <1>1, <2>1
<1> HIDE DEF N
<1>3. rank \in [S -> 1..N] /\ \A x, y \in S : rank[x] = rank[y] => x = y
  <2>1. rank \in [S -> 1..N]
    BY <1>2
  <2> HIDE DEF rank
  <2>2. ASSUME NEW x \in S, NEW y \in S, rank[x] = rank[y], x # y
        PROVE  FALSE
    <3>1. <<x, y>> \in R \/ <<y, x>> \in R
      BY <2>2 DEF Orders
    <3> QED BY <1>1, <1>2, <2>2, <3>1
  <2> QED BY <2>1, <2>2
<1> HIDE DEF rank
<1>4. rank \in Injection(S, 1..N)
  BY <1>3, Fun_IsInj
<1>5. IsFiniteSet(1..N) /\ Cardinality(1..N) = N
  BY <1>1, FS_Interval
<1>6. rank \in Surjection(S, 1..N)
  BY <1>4, <1>5, FS_Injection DEF N
<1>7. \A n \in 1..N : \E x \in S : rank[x] = n
  BY <1>6 DEF Surjection
<1>8. \A n \in 1..N : f[n] \in S /\ rank[f[n]] = n
  BY <1>7
<1> HIDE DEF f
<1>9. f \in [1..N -> S]
  BY <1>8 DEF f
<1>10. f \in SetToSeqs(S)
  BY <1>8, <1>9 DEF SetToSeqs, N
<1>11. ASSUME NEW m \in 1..N, NEW n \in 1..N, m < n
       PROVE  <<f[m], f[n]>> \in R
  <2>1. ~(<<f[n], f[m]>> \in R) /\ f[n] # f[m]
    BY <1>1, <1>2, <1>8, <1>11
  <2> QED BY <1>8, <2>1 DEF Orders
<1> QED BY <1>9, <1>10, <1>11

\* Sorted has every member at one place, and n - 1 of them are ahead of the n-th.
LEMMA SortedProperties ==
  ASSUME NEW S, IsFiniteSet(S), NEW R, Orders(R, S)
  PROVE  LET f == Sorted(S, R)
             N == Cardinality(S)
         IN  /\ N \in Nat
             /\ f \in [1..N -> S]
             /\ \A m, n \in 1..N : f[m] = f[n] => m = n
             /\ \A x \in S : \E n \in 1..N : f[n] = x
             /\ \A m, n \in 1..N : m < n <=> <<f[m], f[n]>> \in R
             /\ \A n \in 1..N : Cardinality(AheadOf(f[n], S, R)) = n - 1
<1> DEFINE f == Sorted(S, R)
           N == Cardinality(S)
<1>1. f \in SetToSeqs(S) /\ \A m, n \in DOMAIN f : m < n => <<f[m], f[n]>> \in R
  BY CanBeSorted DEF Sorted
<1>2. N \in Nat
  BY FS_CardinalityType
<1>3. f \in [1..N -> S] /\ \A m, n \in 1..N : f[m] = f[n] => m = n
  BY <1>1 DEF SetToSeqs
<1> HIDE DEF f, N
<1>4. f \in Injection(1..N, S)
  BY <1>3, Fun_IsInj
<1>5. IsFiniteSet(1..N) /\ Cardinality(1..N) = N
  BY <1>2, FS_Interval
<1>6. f \in Surjection(1..N, S)
  BY <1>4, <1>5, FS_Injection DEF N
<1>7. \A x \in S : \E n \in 1..N : f[n] = x
  BY <1>6 DEF Surjection
<1>8. \A m, n \in 1..N : m < n <=> <<f[m], f[n]>> \in R
  <2> SUFFICES ASSUME NEW m \in 1..N, NEW n \in 1..N, <<f[m], f[n]>> \in R
               PROVE  m < n
    BY <1>1, <1>3
  <2>1. f[m] \in S /\ f[n] \in S
    BY <1>3
  <2>2. ~(<<f[n], f[m]>> \in R) /\ f[m] # f[n]
    BY <2>1 DEF Orders
  <2> QED BY <1>1, <1>2, <1>3, <2>2
<1>9. ASSUME NEW n \in 1..N
      PROVE  Cardinality(AheadOf(f[n], S, R)) = n - 1
  <2> DEFINE before == [m \in 1..(n - 1) |-> f[m]]
             A == AheadOf(f[n], S, R)
  <2>1. n - 1 \in Nat /\ 1..(n - 1) \subseteq 1..N
    BY <1>2
  <2>2. before \in [1..(n - 1) -> A]
    BY <1>2, <1>3, <1>8, <2>1 DEF AheadOf
  <2>3. \A a, b \in 1..(n - 1) : before[a] = before[b] => a = b
    BY <1>3, <2>1
  <2>4. \A y \in A : \E m \in 1..(n - 1) : before[m] = y
    <3> SUFFICES ASSUME NEW y \in A PROVE \E m \in 1..(n - 1) : before[m] = y
      OBVIOUS
    <3>1. y \in S /\ <<y, f[n]>> \in R
      BY DEF AheadOf
    <3>2. PICK m \in 1..N : f[m] = y
      BY <3>1, <1>7
    <3>3. m < n
      BY <1>8, <3>1, <3>2
    <3> QED BY <1>2, <3>2, <3>3
  <2> HIDE DEF before, A
  <2>5. before \in Bijection(1..(n - 1), A)
    BY <2>2, <2>3, <2>4, Fun_IsBij
  <2> QED BY <2>1, <2>5, FS_CountingElements DEF A, ExistsBijection
<1> QED BY <1>2, <1>3, <1>7, <1>8, <1>9 DEF f, N

-----------------------------------------------------------------------------
(* Parts of sequences, and stable sorting. *)

\* "before" ranks S: members may be level, and what is not level with one is not
\* level with the other of two that are.
Ranks(before, S) ==
  /\ \A x, y \in S : <<x, y>> \in before => <<y, x>> \notin before
  /\ \A x, y, z \in S : <<x, y>> \in before => <<x, z>> \in before \/ <<z, y>> \in before

\* o takes the places of a sequence to the places in s that it is made of.
Places(o, t, s) ==
  /\ o \in [1..Len(t) -> 1..Len(s)]
  /\ \A n \in 1..Len(t) : t[n] = s[o[n]]
  /\ \A m, n \in 1..Len(t) : o[m] = o[n] => m = n

\* Only takes the members of T out of a sequence and keeps their order.
LEMMA OnlyProperties ==
  ASSUME NEW X, NEW s \in Seq(X), NEW T
  PROVE  /\ Only(s, T) \in Seq(X)
         /\ ToSet(Only(s, T)) = ToSet(s) \cap T
         /\ \E o : /\ Places(o, Only(s, T), s)
                   /\ \A m, n \in 1..Len(Only(s, T)) : m < n <=> o[m] < o[n]
         /\ ToSet(s) \subseteq T => Only(s, T) = s
<1> DEFINE P == {i \in DOMAIN s : s[i] \in T}
           R == {ij \in P \X P : ij[1] < ij[2]}
           o == Sorted(P, R)
           N == Cardinality(P)
           t == Only(s, T)
<1>1. Len(s) \in Nat /\ s \in [1..Len(s) -> X] /\ DOMAIN s = 1..Len(s)
  BY LenProperties
<1>2. P \in SUBSET (1..Len(s)) /\ IsFiniteSet(P)
  <2>1. P \in SUBSET (1..Len(s))
    BY <1>1
  <2>2. IsFiniteSet(1..Len(s))
    BY <1>1, FS_Interval
  <2> QED BY <2>1, <2>2, FS_Subset
<1>3. Orders(R, P)
  BY <1>1, <1>2 DEF Orders
<1> HIDE DEF R
<1>4. /\ N \in Nat /\ o \in [1..N -> P]
      /\ \A m, n \in 1..N : o[m] = o[n] => m = n
      /\ \A i \in P : \E n \in 1..N : o[n] = i
      /\ \A m, n \in 1..N : m < n <=> <<o[m], o[n]>> \in R
      /\ \A n \in 1..N : Cardinality(AheadOf(o[n], P, R)) = n - 1
  BY <1>2, <1>3, SortedProperties
<1>5. t = [n \in DOMAIN o |-> s[o[n]]]
  BY DEF Only, R
<1> HIDE DEF o, N, t
<1>6. t = [n \in 1..N |-> s[o[n]]]
  BY <1>4, <1>5
<1>7. \A n \in 1..N : o[n] \in 1..Len(s) /\ s[o[n]] \in X /\ s[o[n]] \in T
  BY <1>1, <1>2, <1>4
<1>8. t \in Seq(X) /\ Len(t) = N
  <2>1. t \in [1..N -> X]
    BY <1>6, <1>7
  <2> QED BY <1>4, <2>1
<1>9. ToSet(t) = ToSet(s) \cap T
  <2>1. ASSUME NEW x \in ToSet(t) PROVE x \in ToSet(s) \cap T
    BY <1>1, <1>6, <1>7 DEF ToSet
  <2>2. ASSUME NEW x \in ToSet(s) \cap T PROVE x \in ToSet(t)
    <3>1. PICK i \in P : s[i] = x
      BY DEF ToSet
    <3>2. PICK n \in 1..N : o[n] = i
      BY <1>4, <3>1
    <3> QED BY <1>6, <3>1, <3>2 DEF ToSet
  <2> QED BY <2>1, <2>2
<1>10. Places(o, t, s)
  BY <1>4, <1>6, <1>7, <1>8 DEF Places
<1>11. \A m, n \in 1..N : m < n <=> o[m] < o[n]
  BY <1>4 DEF R
<1>12. ASSUME ToSet(s) \subseteq T PROVE t = s
  <2>1. P = 1..Len(s)
    BY <1>1, <1>12 DEF ToSet
  <2>2. N = Len(s)
    <3>1. Cardinality(1..Len(s)) = Len(s)
      BY <1>1, FS_Interval
    <3> QED BY <2>1, <3>1 DEF N
  <2>3. ASSUME NEW n \in 1..N PROVE o[n] = n
    <3>1. o[n] \in 1..Len(s)
      BY <1>7
    <3>2. AheadOf(o[n], P, R) = 1..(o[n] - 1)
      BY <1>1, <2>1, <3>1 DEF AheadOf, R
    <3>3. Cardinality(1..(o[n] - 1)) = o[n] - 1
      BY <3>1, FS_Interval
    <3> QED BY <1>4, <3>1, <3>2, <3>3
  <2> QED BY <1>1, <1>6, <2>2, <2>3
<1> QED BY <1>8, <1>9, <1>10, <1>11, <1>12 DEF t

\* A sequence of some places of one without repetition has none either.
LEMMA PlacesInjective ==
  ASSUME NEW X, NEW s \in Seq(X), NEW t \in Seq(X), NEW o, Places(o, t, s), IsInjective(s)
  PROVE  IsInjective(t)
<1>1. DOMAIN t = 1..Len(t) /\ DOMAIN s = 1..Len(s)
  BY LenProperties
<1>2. ASSUME NEW m \in 1..Len(t), NEW n \in 1..Len(t), t[m] = t[n] PROVE m = n
  <2>1. o[m] \in 1..Len(s) /\ o[n] \in 1..Len(s) /\ s[o[m]] = s[o[n]]
    BY <1>2 DEF Places
  <2>2. o[m] = o[n]
    BY <1>1, <2>1 DEF IsInjective
  <2> QED BY <2>2 DEF Places
<1> QED BY <1>1, <1>2 DEF IsInjective

\* No part of a sequence without repetition has any.
LEMMA OnlyInjective ==
  ASSUME NEW X, NEW s \in Seq(X), NEW T, IsInjective(s)
  PROVE  IsInjective(Only(s, T))
BY OnlyProperties, PlacesInjective

\* Of two places of s that one comes first in the sorted sequence.
Sooner(i, j, s, before) ==
  \/ <<s[i], s[j]>> \in before
  \/ <<s[j], s[i]>> \notin before /\ i < j

\* What a stable sort does with the places of a sequence.
LEMMA StableProperties ==
  ASSUME NEW X, NEW s \in Seq(X), NEW before, Ranks(before, ToSet(s))
  PROVE  LET t == StableSort(s, before)
         IN  /\ t \in Seq(X) /\ Len(t) = Len(s) /\ ToSet(t) = ToSet(s)
             /\ \A m, n \in 1..Len(t) : m < n => <<t[n], t[m]>> \notin before
             /\ \E o : /\ Places(o, t, s)
                       /\ \A m, n \in 1..Len(t) : m < n <=> Sooner(o[m], o[n], s, before)
                       /\ \A i \in 1..Len(s) : \E n \in 1..Len(t) : o[n] = i
<1> DEFINE t == StableSort(s, before)
           ahead(i, j) == \/ <<s[i], s[j]>> \in before
                          \/ <<s[j], s[i]>> \notin before /\ i < j
           P == DOMAIN s
           R == {ij \in P \X P : ahead(ij[1], ij[2])}
           o == Sorted(P, R)
           N == Cardinality(P)
<1>1. Len(s) \in Nat /\ s \in [1..Len(s) -> X] /\ P = 1..Len(s)
  BY LenProperties
<1>2. IsFiniteSet(P) /\ N = Len(s)
  BY <1>1, FS_Interval
<1>3. \A i \in P : s[i] \in ToSet(s) /\ i \in Nat
  BY <1>1 DEF ToSet
<1> HIDE DEF P, N
<1>4. Orders(R, P)
  <2>1. \A i, j \in P : <<i, j>> \in R <=> ahead(i, j)
    OBVIOUS
  <2>2. \A i \in P : ~ahead(i, i)
    BY <1>3 DEF Ranks
  <2>3. \A i, j \in P : i # j => ahead(i, j) \/ ahead(j, i)
    BY <1>3
  <2>4. \A i, j, k \in P : ahead(i, j) /\ ahead(j, k) => ahead(i, k)
    <3> SUFFICES ASSUME NEW i \in P, NEW j \in P, NEW k \in P, ahead(i, j), ahead(j, k)
                 PROVE  ahead(i, k)
      OBVIOUS
    <3>1. {s[i], s[j], s[k]} \subseteq ToSet(s) /\ i \in Nat /\ j \in Nat /\ k \in Nat
      BY <1>3
    <3>2. \A x, y, z \in ToSet(s) :
            /\ <<x, y>> \in before => <<y, x>> \notin before
            /\ <<x, y>> \in before => <<x, z>> \in before \/ <<z, y>> \in before
      BY DEF Ranks
    <3> QED BY <3>1, <3>2
  <2> HIDE DEF ahead, R
  <2> QED BY <2>1, <2>2, <2>3, <2>4 DEF Orders
<1> HIDE DEF R
<1>5. /\ o \in [1..N -> P]
      /\ \A m, n \in 1..N : o[m] = o[n] => m = n
      /\ \A i \in P : \E n \in 1..N : o[n] = i
      /\ \A m, n \in 1..N : m < n <=> <<o[m], o[n]>> \in R
  BY <1>2, <1>4, SortedProperties DEF N
<1>6. t = [n \in DOMAIN o |-> s[o[n]]]
  BY DEF StableSort, P, R
<1> HIDE DEF o, t
<1>7. t = [n \in 1..N |-> s[o[n]]]
  BY <1>5, <1>6
<1>8. t \in Seq(X) /\ Len(t) = N
  <2>1. t \in [1..N -> X]
    BY <1>1, <1>5, <1>7
  <2> QED BY <1>1, <1>2, <2>1
<1>9. ToSet(t) = ToSet(s)
  <2>1. ASSUME NEW x \in ToSet(t) PROVE x \in ToSet(s)
    BY <1>3, <1>5, <1>7 DEF ToSet
  <2>2. ASSUME NEW x \in ToSet(s) PROVE x \in ToSet(t)
    <3>1. PICK i \in P : s[i] = x
      BY DEF ToSet, P
    <3>2. PICK n \in 1..N : o[n] = i
      BY <1>5
    <3> QED BY <1>7, <3>1, <3>2 DEF ToSet
  <2> QED BY <2>1, <2>2
<1>10. Places(o, t, s)
  BY <1>1, <1>2, <1>5, <1>7, <1>8 DEF Places
<1>11. \A m, n \in 1..N : m < n <=> Sooner(o[m], o[n], s, before)
  BY <1>5 DEF R, Sooner
<1>12. \A m, n \in 1..N : m < n => <<t[n], t[m]>> \notin before
  <2> SUFFICES ASSUME NEW m \in 1..N, NEW n \in 1..N, m < n, <<t[n], t[m]>> \in before
               PROVE  FALSE
    OBVIOUS
  <2>1. s[o[m]] \in ToSet(s) /\ s[o[n]] \in ToSet(s) /\ t[m] = s[o[m]] /\ t[n] = s[o[n]]
    BY <1>3, <1>5, <1>7
  <2> QED BY <1>11, <2>1 DEF Ranks, Sooner
<1> QED BY <1>1, <1>2, <1>5, <1>8, <1>9, <1>10, <1>11, <1>12 DEF t

-----------------------------------------------------------------------------
(* Scores, and the list that is fused by them. *)

Pos == Nat \ {0}

\* The constants are numbers.
LEMMA ConstantsNatural ==
  RankConstant \in Nat /\ TopK \in Nat /\ MaxChanges \in Nat /\ PerPage \in Pos
BY SearchAssumption DEF SearchAssumption, Pos

USE ConstantsNatural

Fraction == Nat \X Pos

Sum2(a, b) == <<a[1] * b[2] + b[1] * a[2], a[2] * b[2]>>

\* The product of two positive numbers is one.
LEMMA ProductPositive == ASSUME NEW a \in Pos, NEW b \in Pos PROVE a * b \in Pos
BY DEF Pos

\* Products of natural numbers are natural numbers.
LEMMA ProductNatural == ASSUME NEW a \in Nat, NEW b \in Nat PROVE a * b \in Nat
OBVIOUS

\* A positive factor does not change an order.
LEMMA ProductOrder ==
  ASSUME NEW a \in Nat, NEW b \in Nat, NEW c \in Pos
  PROVE  /\ a * c <= b * c <=> a <= b
         /\ a * c < b * c <=> a < b
BY DEF Pos

\* Fractions are compared as numbers are.
LEMMA FractionsCompare ==
  ASSUME NEW a \in Fraction, NEW b \in Fraction, NEW c \in Fraction
  PROVE  /\ Higher(a, b) => ~Higher(b, a)
         /\ Higher(a, b) => Higher(a, c) \/ Higher(c, b)
<1> DEFINE x == a[1] u == a[2] y == b[1] v == b[2] z == c[1] w == c[2]
<1>1. x \in Nat /\ y \in Nat /\ z \in Nat /\ u \in Pos /\ v \in Pos /\ w \in Pos
  BY DEF Fraction
<1>2. (Higher(a, b) <=> x * v > y * u) /\ (Higher(b, a) <=> y * u > x * v)
  BY DEF Higher
<1>3. (Higher(a, c) <=> x * w > z * u) /\ (Higher(c, b) <=> z * v > y * w)
  BY DEF Higher
<1> HIDE DEF x, u, y, v, z, w
<1>4. u \in Nat /\ v \in Nat /\ w \in Nat
  BY <1>1 DEF Pos
<1>5. /\ x * v \in Nat /\ y * u \in Nat /\ x * w \in Nat
      /\ z * u \in Nat /\ z * v \in Nat /\ y * w \in Nat
  BY <1>1, <1>4, ProductNatural
<1>6. ASSUME x * w <= z * u, z * v <= y * w PROVE x * v <= y * u
  <2>1. (x * w) * v <= (z * u) * v
    BY <1>1, <1>5, <1>6, ProductOrder
  <2>2. (z * v) * u <= (y * w) * u
    BY <1>1, <1>5, <1>6, ProductOrder
  <2>3. (z * u) * v = (z * v) * u /\ (x * w) * v = (x * v) * w /\ (y * w) * u = (y * u) * w
    BY <1>1, <1>4
  <2>4. (x * w) * v \in Nat /\ (z * u) * v \in Nat /\ (y * w) * u \in Nat
    BY <1>4, <1>5, ProductNatural
  <2>5. (x * v) * w <= (y * u) * w
    BY <2>1, <2>2, <2>3, <2>4
  <2> QED BY <1>1, <1>5, <2>5, ProductOrder
<1> QED BY <1>2, <1>3, <1>5, <1>6

\* A sum is higher if no part is lower and one is higher.
LEMMA SumsCompare ==
  ASSUME NEW a \in Fraction, NEW b \in Fraction, NEW c \in Fraction, NEW d \in Fraction,
         ~Higher(a, c), ~Higher(b, d), Higher(c, a) \/ Higher(d, b)
  PROVE  Higher(Sum2(c, d), Sum2(a, b))
<1> DEFINE a1 == a[1] a2 == a[2] b1 == b[1] b2 == b[2]
           c1 == c[1] c2 == c[2] d1 == d[1] d2 == d[2]
<1>1. /\ a1 \in Nat /\ b1 \in Nat /\ c1 \in Nat /\ d1 \in Nat
      /\ a2 \in Pos /\ b2 \in Pos /\ c2 \in Pos /\ d2 \in Pos
  BY DEF Fraction
<1>2. /\ ~(a1 * c2 > c1 * a2) /\ ~(b1 * d2 > d1 * b2)
      /\ (c1 * a2 > a1 * c2 \/ d1 * b2 > b1 * d2)
  BY DEF Higher
<1>3. Higher(Sum2(c, d), Sum2(a, b)) <=>
        (c1 * d2 + d1 * c2) * (a2 * b2) > (a1 * b2 + b1 * a2) * (c2 * d2)
  BY DEF Higher, Sum2
<1> HIDE DEF a1, a2, b1, b2, c1, c2, d1, d2
<1>4. a2 \in Nat /\ b2 \in Nat /\ c2 \in Nat /\ d2 \in Nat
  BY <1>1 DEF Pos
<1> DEFINE ac == a1 * c2 ca == c1 * a2 bd == b1 * d2 db == d1 * b2
           m == b2 * d2 k == a2 * c2
<1>5. ac \in Nat /\ ca \in Nat /\ bd \in Nat /\ db \in Nat /\ m \in Pos /\ k \in Pos
  BY <1>1, <1>4, ProductNatural, ProductPositive
<1>6. (c1 * d2 + d1 * c2) * (a2 * b2) = ca * m + db * k
  BY <1>1, <1>4
<1>7. (a1 * b2 + b1 * a2) * (c2 * d2) = ac * m + bd * k
  BY <1>1, <1>4
<1>8. ac <= ca /\ bd <= db /\ (ac < ca \/ bd < db)
  BY <1>2, <1>5
<1> HIDE DEF ac, ca, bd, db, m, k
<1>9. /\ ac * m <= ca * m /\ bd * k <= db * k
      /\ ac * m < ca * m \/ bd * k < db * k
  BY <1>5, <1>8, ProductOrder
<1>10. ac * m \in Nat /\ ca * m \in Nat /\ bd * k \in Nat /\ db * k \in Nat
  BY <1>5, ProductNatural DEF Pos
<1>11. ca * m + db * k > ac * m + bd * k
  BY <1>9, <1>10
<1> QED BY <1>3, <1>6, <1>7, <1>11

\* A member of a sequence stands at its position.
LEMMA PositionProperties ==
  ASSUME NEW X, NEW s \in Seq(X), NEW p \in ToSet(s)
  PROVE  Position(p, s) \in 1..Len(s) /\ s[Position(p, s)] = p
<1>1. \E i \in DOMAIN s : s[i] = p
  BY DEF ToSet
<1> QED BY <1>1, LenProperties DEF Position

\* The share that a list gives an id is a fraction.
LEMMA TermFraction ==
  ASSUME NEW s \in Lists, NEW p
  PROVE  Term(p, s) \in Fraction
<1>1. ASSUME p \in ToSet(s) PROVE Term(p, s) \in Fraction
  <2>1. Position(p, s) \in Pos
    BY <1>1, PositionProperties, LenProperties DEF Lists, Pos
  <2> QED BY <1>1, <2>1 DEF Term, Fraction, Pos
<1>2. ASSUME p \notin ToSet(s) PROVE Term(p, s) \in Fraction
  BY <1>2 DEF Term, Fraction, Pos
<1> QED BY <1>1, <1>2

\* A score is the sum of the shares of both lists.
LEMMA ScoreFraction ==
  ASSUME NEW kw \in Lists, NEW near \in Lists, NEW p
  PROVE  /\ Score(p, kw, near) \in Fraction
         /\ Score(p, kw, near) = Sum2(Term(p, kw), Term(p, near))
<1> DEFINE a == Term(p, kw) b == Term(p, near)
<1>1. a \in Fraction /\ b \in Fraction
  BY TermFraction
<1>2. Score(p, kw, near) = Sum2(a, b)
  BY DEF Score, Sum2
<1> HIDE DEF a, b
<1>3. a[1] \in Nat /\ a[2] \in Pos /\ b[1] \in Nat /\ b[2] \in Pos
  BY <1>1 DEF Fraction
<1>4. a[1] * b[2] + b[1] * a[2] \in Nat
  BY <1>3 DEF Pos
<1>5. a[2] * b[2] \in Pos
  BY <1>3, ProductPositive
<1> QED BY <1>2, <1>4, <1>5 DEF Sum2, Fraction, a, b

\* What stands in a concatenation, and when it holds nothing twice.
LEMMA ConcatMembers ==
  ASSUME NEW X, NEW a \in Seq(X), NEW b \in Seq(X)
  PROVE  /\ a \o b \in Seq(X)
         /\ ToSet(a \o b) = ToSet(a) \cup ToSet(b)
         /\ IsInjective(a) /\ IsInjective(b) /\ ToSet(a) \cap ToSet(b) = {} => IsInjective(a \o b)
<1> DEFINE s == a \o b
<1>1. /\ s \in Seq(X) /\ Len(s) = Len(a) + Len(b)
      /\ \A i \in 1..(Len(a) + Len(b)) : s[i] = IF i <= Len(a) THEN a[i] ELSE b[i - Len(a)]
  BY ConcatProperties
<1> HIDE DEF s
<1>2. /\ Len(a) \in Nat /\ Len(b) \in Nat
      /\ DOMAIN a = 1..Len(a) /\ DOMAIN b = 1..Len(b) /\ DOMAIN s = 1..(Len(a) + Len(b))
  BY <1>1, LenProperties
<1>3. \A i \in DOMAIN a : i \in DOMAIN s /\ s[i] = a[i] /\ s[i] \in ToSet(a)
  BY <1>1, <1>2 DEF ToSet
<1>4. \A i \in DOMAIN b : Len(a) + i \in DOMAIN s /\ s[Len(a) + i] = b[i]
  <2> SUFFICES ASSUME NEW i \in 1..Len(b)
               PROVE  Len(a) + i \in DOMAIN s /\ s[Len(a) + i] = b[i]
    BY <1>2
  <2>1. Len(a) + i \in 1..(Len(a) + Len(b)) /\ ~(Len(a) + i <= Len(a)) /\ Len(a) + i - Len(a) = i
    BY <1>2
  <2> QED BY <1>1, <1>2, <2>1
<1>5. ASSUME NEW k \in DOMAIN s, k \notin DOMAIN a
      PROVE  k - Len(a) \in DOMAIN b /\ s[k] = b[k - Len(a)] /\ s[k] \in ToSet(b)
  <2>1. k \in 1..(Len(a) + Len(b)) /\ ~(k <= Len(a)) /\ k - Len(a) \in 1..Len(b)
    BY <1>2, <1>5
  <2>2. s[k] = b[k - Len(a)]
    BY <1>1, <2>1
  <2> QED BY <1>2, <2>1, <2>2 DEF ToSet
<1>6. ToSet(s) = ToSet(a) \cup ToSet(b)
  <2>1. ToSet(s) \subseteq ToSet(a) \cup ToSet(b)
    BY <1>3, <1>5 DEF ToSet
  <2>2. ToSet(a) \subseteq ToSet(s)
    BY <1>3 DEF ToSet
  <2>3. ToSet(b) \subseteq ToSet(s)
    BY <1>4 DEF ToSet
  <2> QED BY <2>1, <2>2, <2>3
<1>7. ASSUME IsInjective(a), IsInjective(b), ToSet(a) \cap ToSet(b) = {}
      PROVE  IsInjective(s)
  <2> SUFFICES ASSUME NEW i \in DOMAIN s, NEW j \in DOMAIN s, s[i] = s[j] PROVE i = j
    BY DEF IsInjective
  <2>1. CASE i \in DOMAIN a /\ j \in DOMAIN a
    BY <1>3, <1>7, <2>1 DEF IsInjective
  <2>2. CASE i \notin DOMAIN a /\ j \notin DOMAIN a
    <3>1. i - Len(a) = j - Len(a)
      BY <1>5, <1>7, <2>2 DEF IsInjective
    <3> QED BY <1>2, <3>1
  <2>3. CASE (i \in DOMAIN a) # (j \in DOMAIN a)
    BY <1>3, <1>5, <1>7, <2>3
  <2> QED BY <2>1, <2>2, <2>3
<1> QED BY <1>1, <1>6, <1>7 DEF s

\* The fused list has the ids of both, none twice, and none before a higher one.
LEMMA FuseProperties ==
  ASSUME NEW kw \in Lists, NEW near \in Lists
  PROVE  LET f == Fuse(kw, near)
         IN  /\ f \in Lists
             /\ ToSet(f) = ToSet(kw) \cup ToSet(near)
             /\ \A m, n \in DOMAIN f :
                  m < n => ~Higher(Score(f[n], kw, near), Score(f[m], kw, near))
<1> DEFINE rest == Only(near, ToSet(near) \ ToSet(kw))
           s == Found(kw, near)
           B == {pq \in PromptIds \X PromptIds :
                   Higher(Score(pq[1], kw, near), Score(pq[2], kw, near))}
           f == Fuse(kw, near)
<1>1. kw \in Seq(PromptIds) /\ near \in Seq(PromptIds) /\ IsInjective(kw) /\ IsInjective(near)
  BY DEF Lists
<1>2. /\ rest \in Seq(PromptIds) /\ IsInjective(rest)
      /\ ToSet(rest) = ToSet(near) \ ToSet(kw)
  BY <1>1, OnlyProperties, OnlyInjective
<1>3. s = kw \o rest
  BY DEF Found
<1> HIDE DEF rest, s
<1>4. /\ s \in Seq(PromptIds) /\ IsInjective(s)
      /\ ToSet(s) = ToSet(kw) \cup ToSet(near)
  BY <1>1, <1>2, <1>3, ConcatMembers
<1>5. ToSet(s) \subseteq PromptIds
  BY <1>4, LenProperties DEF ToSet
<1>6. Ranks(B, ToSet(s))
  <2>1. \A p, q \in ToSet(s) :
          <<p, q>> \in B <=> Higher(Score(p, kw, near), Score(q, kw, near))
    BY <1>5
  <2>2. \A p : Score(p, kw, near) \in Fraction
    BY ScoreFraction
  <2> HIDE DEF B
  <2>3. \A p, q \in ToSet(s) : <<p, q>> \in B => <<q, p>> \notin B
    BY <2>1, <2>2, FractionsCompare
  <2>4. \A p, q, r \in ToSet(s) : <<p, q>> \in B => <<p, r>> \in B \/ <<r, q>> \in B
    BY <2>1, <2>2, FractionsCompare
  <2> QED BY <2>3, <2>4 DEF Ranks
<1>7. f = StableSort(s, B)
  BY DEF Fuse, s
<1> HIDE DEF B, f
<1>8. /\ f \in Seq(PromptIds) /\ Len(f) = Len(s) /\ ToSet(f) = ToSet(s)
      /\ \A m, n \in 1..Len(f) : m < n => <<f[n], f[m]>> \notin B
      /\ \E o : Places(o, f, s)
  BY <1>4, <1>6, <1>7, StableProperties
<1>9. IsInjective(f)
  <2>1. PICK o : Places(o, f, s)
    BY <1>8
  <2> QED BY <1>4, <1>8, <2>1, PlacesInjective
<1>10. DOMAIN f = 1..Len(f) /\ \A n \in 1..Len(f) : f[n] \in PromptIds
  BY <1>8, LenProperties, ElementOfSeq
<1>11. \A m, n \in 1..Len(f) :
         m < n => ~Higher(Score(f[n], kw, near), Score(f[m], kw, near))
  BY <1>8, <1>10 DEF B
<1> QED BY <1>4, <1>8, <1>9, <1>10, <1>11 DEF f, Lists

\* The share of a list is higher the earlier an id stands in it, and none without it.
LEMMA TermsCompare ==
  ASSUME NEW s \in Lists, NEW p, NEW q
  PROVE  /\ p \in ToSet(s) /\ Leads(q, p, s) => Higher(Term(q, s), Term(p, s))
         /\ p \notin ToSet(s) => ~Higher(Term(p, s), Term(q, s))
<1>1. ASSUME p \in ToSet(s), Leads(q, p, s) PROVE Higher(Term(q, s), Term(p, s))
  <2>1. /\ q \in ToSet(s) /\ Position(q, s) < Position(p, s)
        /\ Position(p, s) \in Nat /\ Position(q, s) \in Nat
    BY <1>1, PositionProperties, LenProperties DEF Leads, Lists
  <2> QED BY <1>1, <2>1 DEF Higher, Term
<1>2. ASSUME p \notin ToSet(s) PROVE ~Higher(Term(p, s), Term(q, s))
  <2>1. Term(p, s) = <<0, 1>>
    BY <1>2 DEF Term
  <2>2. Term(q, s)[1] \in Nat /\ Term(q, s)[2] \in Nat
    BY TermFraction DEF Fraction, Pos
  <2> QED BY <2>1, <2>2 DEF Higher
<1> QED BY <1>1, <1>2

\* Two shares near the top make more than one.
LEMMA TwoNearTheTop ==
  ASSUME NEW x \in Pos, NEW y \in Pos, NEW z \in Nat,
         x <= 2 * RankConstant + 1, y <= 2 * RankConstant + 1, z >= RankConstant + 1
  PROVE  (x + y) * z > x * y
<1>1. x \in Nat /\ y \in Nat /\ x < 2 * z /\ y < 2 * z
  BY DEF Pos
<1>2. x * y < (2 * z) * y /\ y * x < (2 * z) * x
  BY <1>1, ProductOrder
<1>3. x * y \in Nat /\ x * z \in Nat /\ y * z \in Nat
  BY <1>1, ProductNatural
<1>4. (2 * z) * y = 2 * (y * z) /\ (2 * z) * x = 2 * (x * z) /\ y * x = x * y
  BY <1>1
<1>5. (x + y) * z = x * z + y * z
  BY <1>1
<1> QED BY <1>2, <1>3, <1>4, <1>5

\* An id found by both near the top of each is above any found by one.
LEMMA BothBeatOne ==
  ASSUME NEW kw \in Lists, NEW near \in Lists, NEW p, NEW q,
         q \in ToSet(kw), q \in ToSet(near),
         Position(q, kw) <= RankConstant + 1, Position(q, near) <= RankConstant + 1,
         (p \in ToSet(kw)) # (p \in ToSet(near))
  PROVE  Higher(Score(q, kw, near), Score(p, kw, near))
<1> DEFINE x == RankConstant + Position(q, kw)
           y == RankConstant + Position(q, near)
<1>1. x \in Pos /\ y \in Pos /\ x <= 2 * RankConstant + 1 /\ y <= 2 * RankConstant + 1
  BY PositionProperties, LenProperties DEF Lists, Pos
<1>2. Score(q, kw, near) = <<y + x, x * y>>
  <2>1. Term(q, kw) = <<1, x>> /\ Term(q, near) = <<1, y>>
    BY DEF Term
  <2> HIDE DEF x, y
  <2>2. Score(q, kw, near) = <<1 * y + 1 * x, x * y>>
    BY <2>1 DEF Score
  <2>3. 1 * y + 1 * x = y + x
    BY <1>1 DEF Pos
  <2> QED BY <2>2, <2>3
<1> HIDE DEF x, y
<1>3. \E z \in Nat : z >= RankConstant + 1 /\ Score(p, kw, near) = <<1, z>>
  <2>1. CASE p \in ToSet(kw)
    <3> DEFINE z == RankConstant + Position(p, kw)
    <3>1. z \in Nat /\ z >= RankConstant + 1
      BY <2>1, PositionProperties, LenProperties DEF Lists
    <3>2. Term(p, kw) = <<1, z>> /\ Term(p, near) = <<0, 1>>
      BY <2>1 DEF Term
    <3> HIDE DEF z
    <3>3. Score(p, kw, near) = <<1 * 1 + 0 * z, z * 1>>
      BY <3>2 DEF Score
    <3>4. 1 * 1 + 0 * z = 1 /\ z * 1 = z
      BY <3>1
    <3> QED BY <3>1, <3>3, <3>4
  <2>2. CASE p \in ToSet(near)
    <3> DEFINE z == RankConstant + Position(p, near)
    <3>1. z \in Nat /\ z >= RankConstant + 1
      BY <2>2, PositionProperties, LenProperties DEF Lists
    <3>2. Term(p, kw) = <<0, 1>> /\ Term(p, near) = <<1, z>>
      BY <2>2 DEF Term
    <3> HIDE DEF z
    <3>3. Score(p, kw, near) = <<0 * z + 1 * 1, 1 * z>>
      BY <3>2 DEF Score
    <3>4. 0 * z + 1 * 1 = 1 /\ 1 * z = z
      BY <3>1
    <3> QED BY <3>1, <3>3, <3>4
  <2> QED BY <2>1, <2>2
<1>4. PICK z \in Nat : z >= RankConstant + 1 /\ Score(p, kw, near) = <<1, z>>
  BY <1>3
<1>5. (x + y) * z > x * y
  BY <1>1, <1>4, TwoNearTheTop
<1>6. (y + x) * z > 1 * (x * y)
  BY <1>1, <1>5 DEF Pos
<1> QED BY <1>2, <1>4, <1>6 DEF Higher

\* What FusedFairly says of a fused list.
LEMMA FuseIsFair ==
  ASSUME NEW kw \in Lists, NEW near \in Lists,
         NEW i \in DOMAIN Fuse(kw, near), NEW j \in DOMAIN Fuse(kw, near), i < j
  PROVE  LET p == Fuse(kw, near)[i]
             q == Fuse(kw, near)[j]
             both == ToSet(kw) \cap ToSet(near)
         IN  /\ \E s \in {kw, near} : p \in ToSet(s) /\ ~Leads(q, p, s)
             /\ q \in both /\ p \notin both =>
                  \E s \in {kw, near} : Position(q, s) > RankConstant + 1
<1> DEFINE f == Fuse(kw, near)
           p == f[i]
           q == f[j]
           both == ToSet(kw) \cap ToSet(near)
<1>1. ~Higher(Score(q, kw, near), Score(p, kw, near))
  BY FuseProperties
<1>2. p \in ToSet(kw) \cup ToSet(near)
  <2>1. p \in ToSet(f)
    BY DEF ToSet
  <2> QED BY <2>1, FuseProperties
<1> HIDE DEF f, p, q
<1>3. ASSUME \A s \in {kw, near} : p \in ToSet(s) => Leads(q, p, s) PROVE FALSE
  <2> DEFINE a == Term(p, kw) b == Term(p, near) c == Term(q, kw) d == Term(q, near)
  <2>1. a \in Fraction /\ b \in Fraction /\ c \in Fraction /\ d \in Fraction
    BY TermFraction
  <2>2. p \in ToSet(kw) => Higher(c, a)
    BY <1>3, TermsCompare
  <2>3. p \in ToSet(near) => Higher(d, b)
    BY <1>3, TermsCompare
  <2>4. p \notin ToSet(kw) => ~Higher(a, c)
    BY TermsCompare
  <2>5. p \notin ToSet(near) => ~Higher(b, d)
    BY TermsCompare
  <2>6. Score(q, kw, near) = Sum2(c, d) /\ Score(p, kw, near) = Sum2(a, b)
    BY ScoreFraction
  <2> HIDE DEF a, b, c, d
  <2>7. ~Higher(a, c) /\ ~Higher(b, d) /\ (Higher(c, a) \/ Higher(d, b))
    BY <1>2, <2>1, <2>2, <2>3, <2>4, <2>5, FractionsCompare
  <2>8. Higher(Sum2(c, d), Sum2(a, b))
    BY <2>1, <2>7, SumsCompare
  <2> QED BY <1>1, <2>6, <2>8
<1>4. ASSUME q \in both, p \notin both,
             \A s \in {kw, near} : ~(Position(q, s) > RankConstant + 1)
      PROVE  FALSE
  <2>1. /\ Position(q, kw) \in Nat /\ Position(q, near) \in Nat
        /\ q \in ToSet(kw) /\ q \in ToSet(near)
    BY <1>4, PositionProperties, LenProperties DEF Lists
  <2>2. Position(q, kw) <= RankConstant + 1 /\ Position(q, near) <= RankConstant + 1
    BY <1>4, <2>1
  <2>3. (p \in ToSet(kw)) # (p \in ToSet(near))
    BY <1>2, <1>4
  <2> QED BY <1>1, <2>1, <2>2, <2>3, BothBeatOne
<1> QED BY <1>3, <1>4 DEF f, p, q

-----------------------------------------------------------------------------
(* The candidates: keyword hits and nearest vectors. *)

\* The keyword candidates as the table has them now.
Keywords == Only(heap, {p \in PromptIds : Passes(p) /\ table[p].text \in Hits})

\* Items of rows in the table, no two of one row.
Known(items) ==
  /\ items \in Seq(Item)
  /\ \A i, j \in DOMAIN items : items[i].id = items[j].id => i = j
  /\ \A i \in DOMAIN items : items[i].id \in ToSet(heap)

\* The minimum of two numbers.
LEMMA LesserOfTwo ==
  ASSUME NEW a \in Int, NEW b \in Int
  PROVE  Min({a, b}) = IF a <= b THEN a ELSE b
BY DEF Min

\* The maximum of two numbers.
LEMMA GreaterOfTwo ==
  ASSUME NEW a \in Int, NEW b \in Int
  PROVE  Max({a, b}) = IF a >= b THEN a ELSE b
BY DEF Max

\* A list and what it has of a set are lists.
LEMMA OnlyIsList ==
  ASSUME NEW s \in Lists, NEW T
  PROVE  /\ Only(s, T) \in Lists
         /\ ToSet(Only(s, T)) = ToSet(s) \cap T
         /\ ToSet(s) \subseteq T => Only(s, T) = s
BY OnlyProperties, OnlyInjective DEF Lists

\* Lists hold ids of prompts.
LEMMA ListMembers == ASSUME NEW s \in Lists PROVE ToSet(s) \subseteq PromptIds
BY LenProperties DEF Lists, ToSet

\* The items that are read into the matrix.
LEMMA StoredKnown ==
  ASSUME heap \in Lists, table \in [PromptIds -> Row]
  PROVE  Known(Stored)
<1> DEFINE ids == Only(heap, {p \in PromptIds : Live(p) /\ table[p].embedded})
<1>1. ids \in Lists /\ ToSet(ids) \subseteq ToSet(heap)
  BY OnlyIsList
<1>2. Stored = [i \in DOMAIN ids |-> [id |-> ids[i], text |-> table[ids[i]].text]]
  BY DEF Stored
<1> HIDE DEF ids
<1>3. ids \in [1..Len(ids) -> PromptIds] /\ Len(ids) \in Nat /\ DOMAIN ids = 1..Len(ids)
  BY <1>1, LenProperties DEF Lists
<1>4. \A i \in 1..Len(ids) : [id |-> ids[i], text |-> table[ids[i]].text] \in Item
  BY <1>3 DEF Item, Row
<1>5. Stored \in Seq(Item) /\ DOMAIN Stored = 1..Len(ids)
  <2>1. Stored \in [1..Len(ids) -> Item]
    BY <1>2, <1>3, <1>4
  <2> QED BY <1>3, <2>1
<1>6. \A i \in 1..Len(ids) : Stored[i].id = ids[i] /\ ids[i] \in ToSet(ids)
  BY <1>2, <1>3 DEF ToSet
<1>7. \A i, j \in 1..Len(ids) : ids[i] = ids[j] => i = j
  BY <1>1, <1>3 DEF Lists, IsInjective
<1> QED BY <1>1, <1>5, <1>6, <1>7 DEF Known

\* A sequence without repetition has n - 1 members before its n-th.
LEMMA CountBefore ==
  ASSUME NEW X, NEW s \in Seq(X), IsInjective(s), NEW n \in 1..Len(s)
  PROVE  Cardinality({s[m] : m \in 1..(n - 1)}) = n - 1
<1> DEFINE A == {s[m] : m \in 1..(n - 1)}
           before == [m \in 1..(n - 1) |-> s[m]]
<1>1. n - 1 \in Nat /\ 1..(n - 1) \subseteq DOMAIN s
  BY LenProperties
<1>2. before \in [1..(n - 1) -> A] /\ \A y \in A : \E m \in 1..(n - 1) : before[m] = y
  OBVIOUS
<1>3. \A a, b \in 1..(n - 1) : before[a] = before[b] => a = b
  BY <1>1 DEF IsInjective
<1> HIDE DEF before, A
<1>4. before \in Bijection(1..(n - 1), A)
  BY <1>2, <1>3, Fun_IsBij
<1> QED BY <1>1, <1>4, FS_CountingElements DEF A, ExistsBijection

\* The place of an item among those that are scored is that of its vector.
LEMMA ScoredInOrder ==
  ASSUME Known(vectors)
  PROVE  LET t == StableSort(Only(vectors, {e \in Item : Passes(e.id)}),
                    {ef \in Item \X Item : Nearness[ef[1].text] > Nearness[ef[2].text]})
         IN  /\ t \in Seq(Item) /\ IsInjective(t)
             /\ ToSet(t) = {e \in ToSet(vectors) : Passes(e.id)}
             /\ \A m, n \in 1..Len(t) : m < n <=> Ahead(t[m], t[n])
<1> DEFINE T == {e \in Item : Passes(e.id)}
           s == Only(vectors, T)
           B == {ef \in Item \X Item : Nearness[ef[1].text] > Nearness[ef[2].text]}
           t == StableSort(s, B)
<1>1. /\ vectors \in Seq(Item) /\ IsInjective(vectors)
      /\ DOMAIN vectors = 1..Len(vectors) /\ Len(vectors) \in Nat
  BY LenProperties DEF Known, IsInjective
<1>2. /\ s \in Seq(Item) /\ ToSet(s) = ToSet(vectors) \cap T /\ IsInjective(s)
      /\ \E o : Places(o, s, vectors) /\ \A m, n \in 1..Len(s) : m < n <=> o[m] < o[n]
  BY <1>1, OnlyProperties, OnlyInjective
<1> HIDE DEF s
<1>3. PICK o : Places(o, s, vectors) /\ \A m, n \in 1..Len(s) : m < n <=> o[m] < o[n]
  BY <1>2
<1>4. \A e \in Item : Nearness[e.text] \in Nat
  BY SearchAssumption DEF SearchAssumption, Item
<1>5. ToSet(s) \subseteq Item /\ ToSet(vectors) \subseteq Item
  BY <1>1, <1>2, LenProperties DEF ToSet
<1>6. Ranks(B, ToSet(s))
  <2>1. \A e, f \in ToSet(s) : <<e, f>> \in B <=> Nearness[e.text] > Nearness[f.text]
    BY <1>5
  <2>2. \A e \in ToSet(s) : Nearness[e.text] \in Nat
    BY <1>4, <1>5
  <2> HIDE DEF B
  <2> QED BY <2>1, <2>2 DEF Ranks
<1> HIDE DEF B
<1>7. /\ t \in Seq(Item) /\ Len(t) = Len(s) /\ ToSet(t) = ToSet(s)
      /\ \E r : /\ Places(r, t, s)
                /\ \A m, n \in 1..Len(t) : m < n <=> Sooner(r[m], r[n], s, B)
  BY <1>2, <1>6, StableProperties
<1> HIDE DEF t
<1>8. PICK r : /\ Places(r, t, s)
               /\ \A m, n \in 1..Len(t) : m < n <=> Sooner(r[m], r[n], s, B)
  BY <1>7
<1>9. IsInjective(t)
  BY <1>2, <1>7, <1>8, PlacesInjective
<1>10. ToSet(t) = {e \in ToSet(vectors) : Passes(e.id)}
  BY <1>2, <1>5, <1>7
<1>11. \A n \in 1..Len(s) : /\ s[n] \in Item /\ o[n] \in 1..Len(vectors)
                            /\ s[n] = vectors[o[n]] /\ Position(s[n], vectors) = o[n]
  <2> SUFFICES ASSUME NEW n \in 1..Len(s)
               PROVE  /\ s[n] \in Item /\ o[n] \in 1..Len(vectors)
                      /\ s[n] = vectors[o[n]] /\ Position(s[n], vectors) = o[n]
    OBVIOUS
  <2>1. o[n] \in 1..Len(vectors) /\ s[n] = vectors[o[n]]
    BY <1>3 DEF Places
  <2>2. s[n] \in ToSet(vectors)
    BY <1>1, <2>1 DEF ToSet
  <2>3. Position(s[n], vectors) \in 1..Len(vectors) /\ vectors[Position(s[n], vectors)] = s[n]
    BY <1>1, <2>2, PositionProperties
  <2>4. Position(s[n], vectors) = o[n]
    BY <1>1, <2>1, <2>3 DEF IsInjective
  <2> QED BY <1>5, <2>1, <2>2, <2>4
<1>12. ASSUME NEW m \in 1..Len(t), NEW n \in 1..Len(t)
       PROVE  m < n <=> Ahead(t[m], t[n])
  <2>1. /\ r[m] \in 1..Len(s) /\ t[m] = s[r[m]] /\ r[n] \in 1..Len(s) /\ t[n] = s[r[n]]
        /\ m < n <=> Sooner(r[m], r[n], s, B)
    BY <1>8 DEF Places
  <2>2. r[m] < r[n] <=> Position(t[m], vectors) < Position(t[n], vectors)
    BY <1>3, <1>11, <2>1
  <2>3. t[m] \in Item /\ t[n] \in Item
    BY <1>11, <2>1
  <2>4. Nearness[t[m].text] \in Nat /\ Nearness[t[n].text] \in Nat
    BY <1>4, <2>3
  <2>5. /\ <<t[m], t[n]>> \in B <=> Nearness[t[m].text] > Nearness[t[n].text]
        /\ <<t[n], t[m]>> \in B <=> Nearness[t[n].text] > Nearness[t[m].text]
    BY <2>3 DEF B
  <2>6. Sooner(r[m], r[n], s, B) <=>
          (<<t[m], t[n]>> \in B \/ (<<t[n], t[m]>> \notin B /\ r[m] < r[n]))
    BY <2>1 DEF Sooner
  <2> QED BY <2>1, <2>2, <2>4, <2>5, <2>6 DEF Ahead
<1> QED BY <1>7, <1>9, <1>10, <1>12 DEF t, s, B, T

\* The nearest vectors: those with fewer than TopK ahead.
LEMMA NearestProperties ==
  ASSUME Known(vectors)
  PROVE  /\ Nearest(vectors) \in Lists
         /\ ToSet(Nearest(vectors)) =
              {p \in PromptIds : \E e \in ToSet(vectors) :
                 /\ e.id = p /\ Passes(p)
                 /\ Cardinality({f \in ToSet(vectors) : Passes(f.id) /\ Ahead(f, e)}) < TopK}
<1> DEFINE t == StableSort(Only(vectors, {e \in Item : Passes(e.id)}),
                  {ef \in Item \X Item : Nearness[ef[1].text] > Nearness[ef[2].text]})
           K == Min({TopK, Len(t)})
           kept == SubSeq(t, 1, K)
           near == Nearest(vectors)
           Better(e) == {f \in ToSet(vectors) : Passes(f.id) /\ Ahead(f, e)}
<1>1. /\ t \in Seq(Item) /\ IsInjective(t)
      /\ ToSet(t) = {e \in ToSet(vectors) : Passes(e.id)}
      /\ \A m, n \in 1..Len(t) : m < n <=> Ahead(t[m], t[n])
  BY ScoredInOrder
<1>2. near = [i \in DOMAIN kept |-> kept[i].id]
  BY DEF Nearest
<1> HIDE DEF t, near
<1>3. Len(t) \in Nat /\ DOMAIN t = 1..Len(t) /\ \A n \in 1..Len(t) : t[n] \in Item
  BY <1>1, LenProperties
<1>4. K = IF TopK <= Len(t) THEN TopK ELSE Len(t)
  BY <1>3, LesserOfTwo
<1>5. K \in 0..Len(t) /\ \A n \in 1..Len(t) : (n <= K) <=> (n - 1 < TopK)
  <2> HIDE DEF K
  <2>1. TopK \in Nat /\ Len(t) \in Nat /\ K = IF TopK <= Len(t) THEN TopK ELSE Len(t)
    BY <1>3, <1>4
  <2>2. K \in 0..Len(t)
    BY <2>1
  <2>3. ASSUME NEW n \in 1..Len(t) PROVE (n <= K) <=> (n - 1 < TopK)
    BY <2>1
  <2> QED BY <2>2, <2>3
<1> HIDE DEF K
<1>6. DOMAIN kept = 1..K /\ \A n \in 1..K : kept[n] = t[n]
  <2>1. \A n \in 1..K : t[n] \in Item
    BY <1>3, <1>5
  <2>2. /\ kept \in Seq(Item) /\ Len(kept) = IF 1 <= K THEN K - 1 + 1 ELSE 0
        /\ \A n \in 1..(K - 1 + 1) : kept[n] = t[1 + n - 1]
    BY <1>5, <2>1, SubSeqProperties
  <2>3. Len(kept) = K
    BY <1>5, <2>2
  <2> QED BY <1>5, <2>2, <2>3, LenProperties
<1> HIDE DEF kept
<1>7. near = [n \in 1..K |-> t[n].id]
  BY <1>2, <1>6
<1>8. \A n \in 1..Len(t) : t[n] \in ToSet(vectors) /\ Passes(t[n].id) /\ t[n].id \in PromptIds
  <2>1. \A n \in 1..Len(t) : t[n] \in ToSet(t)
    BY <1>3 DEF ToSet
  <2> QED BY <1>1, <1>3, <2>1 DEF Item
<1>9. \A e, f \in ToSet(vectors) : e.id = f.id => e = f
  BY DEF Known, ToSet
<1>10. near \in Lists
  <2>1. near \in [1..K -> PromptIds]
    BY <1>3, <1>5, <1>7, <1>8
  <2>2. near \in Seq(PromptIds)
    BY <1>5, <2>1
  <2>3. ASSUME NEW m \in 1..K, NEW n \in 1..K, near[m] = near[n] PROVE m = n
    <3>1. m \in 1..Len(t) /\ n \in 1..Len(t) /\ t[m].id = t[n].id
      BY <1>5, <1>7, <2>3
    <3>2. t[m] = t[n]
      BY <1>8, <1>9, <3>1
    <3> QED BY <1>1, <1>3, <3>1, <3>2 DEF IsInjective
  <2> QED BY <1>7, <2>2, <2>3 DEF Lists, IsInjective
<1>11. ASSUME NEW n \in 1..Len(t) PROVE Cardinality(Better(t[n])) = n - 1
  <2> DEFINE before == {t[m] : m \in 1..(n - 1)}
  <2>1. ASSUME NEW f \in Better(t[n]) PROVE f \in before
    <3>1. f \in ToSet(t) /\ Ahead(f, t[n])
      BY <1>1
    <3>2. PICK m \in 1..Len(t) : t[m] = f
      BY <1>3, <3>1 DEF ToSet
    <3>3. m < n
      BY <1>1, <3>1, <3>2
    <3> QED BY <1>3, <3>2, <3>3
  <2>2. ASSUME NEW m \in 1..(n - 1) PROVE t[m] \in Better(t[n])
    <3>1. m \in 1..Len(t) /\ m < n
      BY <1>3
    <3> QED BY <1>1, <1>8, <3>1
  <2>3. Better(t[n]) = before
    BY <2>1, <2>2
  <2> QED BY <1>1, <2>3, CountBefore
<1> HIDE DEF Better
<1>12. \A p : p \in ToSet(near) <=> \E n \in 1..K : t[n].id = p
  BY <1>7 DEF ToSet
<1>13. ASSUME NEW p \in ToSet(near)
       PROVE  p \in PromptIds /\ \E e \in ToSet(vectors) :
                e.id = p /\ Passes(p) /\ Cardinality(Better(e)) < TopK
  <2>1. PICK n \in 1..K : t[n].id = p
    BY <1>12
  <2>2. n \in 1..Len(t) /\ n - 1 < TopK
    BY <1>5
  <2> QED BY <1>8, <1>11, <2>1, <2>2
<1>14. ASSUME NEW e \in ToSet(vectors), Passes(e.id), Cardinality(Better(e)) < TopK
       PROVE  e.id \in ToSet(near)
  <2>1. e \in ToSet(t)
    BY <1>1, <1>14
  <2>2. PICK n \in 1..Len(t) : t[n] = e
    BY <1>3, <2>1 DEF ToSet
  <2>3. n \in 1..K
    BY <1>5, <1>11, <1>14, <2>2
  <2> QED BY <1>12, <2>2, <2>3
<1>15. ToSet(near) = {p \in PromptIds : \E e \in ToSet(vectors) :
                        e.id = p /\ Passes(p) /\ Cardinality(Better(e)) < TopK}
  BY <1>13, <1>14
<1> QED BY <1>10, <1>15 DEF near, Better

\* Wherever the row of p comes to stand, the heap holds it once.
LEMMA HeapWritten ==
  ASSUME heap \in Lists, NEW p \in PromptIds, NEW row, Written(p, row)
  PROVE  heap' \in Lists /\ ToSet(heap') = ToSet(heap) \cup {p}
<1> DEFINE others == Only(heap, PromptIds \ {p})
<1>1. others \in Lists /\ ToSet(others) = ToSet(heap) \ {p}
  <2>1. others \in Lists /\ ToSet(others) = ToSet(heap) \cap (PromptIds \ {p})
    BY OnlyIsList
  <2> QED BY <2>1, ListMembers
<1>2. PICK i \in 1..(Len(others) + 1) : heap' = InsertAt(others, i, p)
  BY DEF Written
<1> HIDE DEF others
<1>3. /\ others \in Seq(PromptIds) /\ IsInjective(others) /\ Len(others) \in Nat
      /\ DOMAIN others = 1..Len(others)
  BY <1>1, LenProperties DEF Lists
<1> DEFINE a == SubSeq(others, 1, i - 1)
           b == SubSeq(others, i, Len(others))
<1>4. /\ a \in Seq(PromptIds) /\ DOMAIN a = 1..(i - 1)
      /\ \A k \in 1..(i - 1) : a[k] = others[k]
  <2>1. \A k \in 1..(i - 1) : others[k] \in PromptIds
    BY <1>3, LenProperties
  <2>2. /\ a \in Seq(PromptIds) /\ Len(a) = IF 1 <= i - 1 THEN i - 1 - 1 + 1 ELSE 0
        /\ \A k \in 1..(i - 1 - 1 + 1) : a[k] = others[1 + k - 1]
    BY <1>3, <2>1, SubSeqProperties
  <2>3. Len(a) = i - 1
    BY <1>3, <2>2
  <2> QED BY <1>3, <2>2, <2>3, LenProperties
<1>5. /\ b \in Seq(PromptIds) /\ DOMAIN b = 1..(Len(others) - i + 1)
      /\ \A k \in 1..(Len(others) - i + 1) : b[k] = others[i + k - 1]
  <2>1. \A k \in i..Len(others) : others[k] \in PromptIds
    BY <1>3, LenProperties
  <2>2. /\ b \in Seq(PromptIds) /\ Len(b) = IF i <= Len(others) THEN Len(others) - i + 1 ELSE 0
        /\ \A k \in 1..(Len(others) - i + 1) : b[k] = others[i + k - 1]
    BY <1>3, <2>1, SubSeqProperties
  <2>3. Len(b) = Len(others) - i + 1
    BY <1>3, <2>2
  <2> QED BY <2>2, <2>3, LenProperties
<1> HIDE DEF a, b
<1>6. IsInjective(a) /\ IsInjective(b) /\ ToSet(a) \cap ToSet(b) = {}
  <2>1. IsInjective(a)
    BY <1>3, <1>4 DEF IsInjective
  <2>2. IsInjective(b)
    <3> SUFFICES ASSUME NEW k \in 1..(Len(others) - i + 1), NEW l \in 1..(Len(others) - i + 1),
                        b[k] = b[l]
                 PROVE  k = l
      BY <1>5 DEF IsInjective
    <3>1. i + k - 1 \in DOMAIN others /\ i + l - 1 \in DOMAIN others
      BY <1>3
    <3>2. i + k - 1 = i + l - 1
      BY <1>3, <1>5, <3>1 DEF IsInjective
    <3> QED BY <1>3, <3>2
  <2>3. ASSUME NEW k \in 1..(i - 1), NEW l \in 1..(Len(others) - i + 1), a[k] = b[l] PROVE FALSE
    <3>1. k \in DOMAIN others /\ i + l - 1 \in DOMAIN others /\ k # i + l - 1
      BY <1>3
    <3> QED BY <1>3, <1>4, <1>5, <2>3, <3>1 DEF IsInjective
  <2>4. ToSet(a) \cap ToSet(b) = {}
    BY <1>4, <1>5, <2>3 DEF ToSet
  <2> QED BY <2>1, <2>2, <2>4
<1>7. ToSet(a) \cup ToSet(b) = ToSet(others)
  <2>1. ToSet(a) \subseteq ToSet(others)
    BY <1>3, <1>4 DEF ToSet
  <2>2. ToSet(b) \subseteq ToSet(others)
    <3>1. \A k \in 1..(Len(others) - i + 1) : i + k - 1 \in DOMAIN others
      BY <1>3
    <3> QED BY <1>5, <3>1 DEF ToSet
  <2>3. ASSUME NEW k \in DOMAIN others PROVE others[k] \in ToSet(a) \cup ToSet(b)
    <3>1. CASE k < i
      BY <1>3, <1>4, <3>1 DEF ToSet
    <3>2. CASE k >= i
      <4>1. k - i + 1 \in DOMAIN b /\ i + (k - i + 1) - 1 = k
        BY <1>3, <1>5, <3>2
      <4> QED BY <1>5, <4>1 DEF ToSet
    <3> QED BY <1>3, <3>1, <3>2
  <2> QED BY <2>1, <2>2, <2>3 DEF ToSet
<1> DEFINE u == <<p>>
           c == a \o u
<1>8. u \in Seq(PromptIds) /\ ToSet(u) = {p} /\ IsInjective(u)
  BY DEF ToSet, IsInjective
<1>9. heap' = c \o b
  BY <1>2 DEF InsertAt, a, b
<1> HIDE DEF u, c
<1>10. c \in Seq(PromptIds) /\ ToSet(c) = ToSet(a) \cup {p} /\ IsInjective(c)
  <2>1. ToSet(a) \cap ToSet(u) = {}
    BY <1>1, <1>7, <1>8
  <2> QED BY <1>4, <1>6, <1>8, <2>1, ConcatMembers DEF c
<1>11. /\ c \o b \in Seq(PromptIds) /\ ToSet(c \o b) = ToSet(c) \cup ToSet(b)
       /\ IsInjective(c \o b)
  <2>1. ToSet(c) \cap ToSet(b) = {}
    BY <1>1, <1>6, <1>7, <1>10
  <2> QED BY <1>5, <1>6, <1>10, <2>1, ConcatMembers
<1> QED BY <1>1, <1>7, <1>9, <1>10, <1>11 DEF Lists

\* A page ends PerPage results after the one before it.
LEMMA PageEnds ==
  ASSUME NEW n \in Pos
  PROVE  (n - 1) * PerPage \in Nat /\ n * PerPage = (n - 1) * PerPage + PerPage
<1>1. n - 1 \in Nat /\ PerPage \in Nat
  BY DEF Pos
<1>2. (n - 1) * PerPage \in Nat
  BY <1>1, ProductNatural
<1>3. n * PerPage = (n - 1) * PerPage + PerPage
  BY <1>1
<1> QED BY <1>2, <1>3

\* A page goes on where the pages before it end.
LEMMA SliceProperties ==
  ASSUME NEW s \in Lists, NEW n \in Pos
  PROVE  /\ Slice(s, n) \in Lists /\ ToSet(Slice(s, n)) \subseteq ToSet(s)
         /\ SubSeq(s, 1, Min({(n - 1) * PerPage, Len(s)})) \o Slice(s, n)
              = SubSeq(s, 1, Min({n * PerPage, Len(s)}))
<1> DEFINE k == (n - 1) * PerPage
           l == n * PerPage
           L == Len(s)
<1>1. k \in Nat /\ l \in Nat /\ l > k
  BY PageEnds DEF Pos
<1>2. s \in Seq(PromptIds) /\ IsInjective(s) /\ L \in Nat /\ DOMAIN s = 1..L
  BY LenProperties DEF Lists
<1>3. Slice(s, n) = SubSeq(s, k + 1, Min({l, L}))
  BY DEF Slice
<1> HIDE DEF k, l, L
<1>4. /\ Min({k, L}) = IF k <= L THEN k ELSE L
      /\ Min({l, L}) = IF l <= L THEN l ELSE L
  BY <1>1, <1>2, LesserOfTwo
<1> DEFINE e == Min({l, L}) t == SubSeq(s, k + 1, e)
<1>5. e \in 0..L
  BY <1>1, <1>2, <1>4
<1> HIDE DEF e
<1>6. /\ t \in Seq(PromptIds) /\ \A i \in DOMAIN t : i + k \in 1..L /\ t[i] = s[i + k]
      /\ DOMAIN t \subseteq Nat
  <2>1. \A i \in (k + 1)..e : s[i] \in PromptIds
    BY <1>1, <1>2, <1>5, LenProperties DEF L
  <2>2. /\ t \in Seq(PromptIds) /\ Len(t) = IF k + 1 <= e THEN e - (k + 1) + 1 ELSE 0
        /\ \A i \in 1..(e - (k + 1) + 1) : t[i] = s[k + 1 + i - 1]
    BY <1>1, <1>5, <2>1, SubSeqProperties
  <2>3. DOMAIN t = 1..Len(t)
    BY <2>2, LenProperties
  <2> HIDE DEF t
  <2>4. ASSUME NEW i \in 1..Len(t) PROVE i + k \in 1..L /\ t[i] = s[i + k]
    <3>1. i \in 1..(e - (k + 1) + 1) /\ k + 1 + i - 1 = i + k /\ i + k \in 1..L
      BY <1>1, <1>2, <1>5, <2>2
    <3> QED BY <2>2, <3>1
  <2> QED BY <2>2, <2>3, <2>4
<1> HIDE DEF t
<1>7. ToSet(t) \subseteq ToSet(s)
  BY <1>2, <1>6 DEF ToSet
<1>8. IsInjective(t)
  <2> SUFFICES ASSUME NEW i \in DOMAIN t, NEW j \in DOMAIN t, t[i] = t[j] PROVE i = j
    BY DEF IsInjective
  <2>1. i + k = j + k
    BY <1>2, <1>6 DEF IsInjective
  <2> QED BY <1>1, <1>6, <2>1
<1>9. SubSeq(s, 1, Min({k, L})) \o t = SubSeq(s, 1, e)
  <2>1. CASE k <= L
    <3>1. 1 \in 1..(L + 1) /\ k \in (1 - 1)..L /\ e \in k..L
      BY <1>1, <1>2, <1>4, <2>1 DEF e
    <3> QED BY <1>2, <1>4, <2>1, <3>1, ConcatAdjacentSubSeq DEF t, L
  <2>2. CASE ~(k <= L)
    <3>1. Min({k, L}) = L /\ e = L /\ L < k + 1
      BY <1>1, <1>2, <1>4, <2>2 DEF e
    <3>2. t = << >>
      BY <1>1, <1>2, <3>1, SubSeqEmpty DEF t
    <3>3. SubSeq(s, 1, L) = s
      BY <1>2, SubSeqFull DEF L
    <3> QED BY <1>2, <3>1, <3>2, <3>3, ConcatEmptySeq
  <2> QED BY <2>1, <2>2
<1> QED BY <1>3, <1>6, <1>7, <1>8, <1>9 DEF t, e, k, l, L, Lists

\* The last page by meta.pages holds the last result.
LEMMA PagesSuffice ==
  ASSUME NEW total \in Nat, NEW n \in Pos, ~(n < Pages(total))
  PROVE  total <= n * PerPage
<1> DEFINE q == (total + PerPage - 1) \div PerPage
<1>1. PerPage \in Nat /\ PerPage > 0 /\ n \in Nat
  BY DEF Pos
<1>2. q \in Int /\ total + PerPage - 1 < (q + 1) * PerPage
  BY <1>1
<1>3. n >= q
  <2>1. Pages(total) = Max({1, q})
    BY DEF Pages
  <2> HIDE DEF q
  <2> QED BY <1>1, <1>2, <2>1, GreaterOfTwo
<1> HIDE DEF q
<1>4. (q + 1) * PerPage <= (n + 1) * PerPage
  BY <1>1, <1>2, <1>3
<1>5. (n + 1) * PerPage = n * PerPage + PerPage /\ n * PerPage \in Nat
  BY <1>1
<1>6. (q + 1) * PerPage \in Int
  BY <1>1, <1>2
<1> QED BY <1>1, <1>2, <1>4, <1>5, <1>6

-----------------------------------------------------------------------------
(* What holds at every step. *)

\* The pages the client has.
PagesGot == IF pc \in {"answered", "done"} THEN page ELSE page - 1

\* Where the request has been ranking, or the one before it.
HasRanked == page > 1 \/ pc \in {"fused", "answered", "done"}

\* The ranking is that of the lists, and as long as nothing has changed, it and
\* the lists are those of the table and the vectors, and the client has its pages.
Turning ==
  /\ IF pc = "idle" THEN page = 0 /\ got = << >> ELSE page > 0
  /\ pc = "fused" => fused = Fuse(keyword, nearest)
  /\ pc = "done" => Len(fused) <= page * PerPage
  /\ steady /\ pc # "idle" =>
       /\ keyword = Keywords
       /\ HasRanked => nearest = Nearest(vectors) /\ fused = Fuse(keyword, nearest)
       /\ got = SubSeq(fused, 1, Min({PagesGot * PerPage, Len(fused)}))

SearchInv == SearchTypeOK /\ Known(matrix) /\ Known(vectors) /\ Turning

\* Lists are sequences.
LEMMA ListLength == ASSUME NEW s \in Lists PROVE Len(s) \in Nat /\ s \in Seq(PromptIds)
BY LenProperties DEF Lists

\* Before the first page the client has nothing.
LEMMA NoPages ==
  ASSUME NEW s \in Lists
  PROVE  SubSeq(s, 1, Min({0 * PerPage, Len(s)})) = << >>
<1>1. 0 * PerPage = 0
  BY DEF Pos
<1>2. Len(s) \in Nat
  BY ListLength
<1>3. Min({0 * PerPage, Len(s)}) = 0
  <2>1. Min({0, Len(s)}) = 0
    BY <1>2, LesserOfTwo
  <2> QED BY <1>1, <2>1
<1> QED BY <1>3, SubSeqEmpty

\* No items are items of rows in the table.
LEMMA KnownEmpty == Known(<< >>)
BY DEF Known

\* The empty list is one.
LEMMA EmptyList == << >> \in Lists
BY DEF Lists, IsInjective

\* The invariant holds at the start.
LEMMA SearchInitially == SearchInit => SearchInv
<1> SUFFICES ASSUME SearchInit PROVE SearchInv
  OBVIOUS
<1>1. heap \in Lists
  <2>1. PICK S \in SUBSET PromptIds : heap \in SetToSeqs(S)
    BY DEF SearchInit
  <2>2. Cardinality(S) \in Nat
    BY SearchAssumption, FS_Subset, FS_CardinalityType DEF SearchAssumption
  <2>3. heap \in [1..Cardinality(S) -> S] /\ IsInjective(heap)
    BY <2>1 DEF SetToSeqs, IsInjective
  <2>4. heap \in [1..Cardinality(S) -> PromptIds]
    BY <2>3
  <2>5. heap \in Seq(PromptIds)
    BY <2>2, <2>4
  <2> QED BY <2>3, <2>5 DEF Lists
<1>2. SearchTypeOK
  BY <1>1, EmptyList DEF SearchInit, SearchTypeOK, ToSet
<1>3. Turning
  BY DEF SearchInit, Turning
<1> QED BY <1>2, <1>3, KnownEmpty DEF SearchInv, SearchInit

\* The keyword candidates are a list.
LEMMA KeywordsList == ASSUME heap \in Lists PROVE Keywords \in Lists
BY OnlyIsList DEF Keywords

\* A step that leaves the table alone leaves what depends on it.
LEMMA SameTable ==
  ASSUME UNCHANGED <<heap, table>>
  PROVE  /\ Keywords' = Keywords
         /\ \A p : Passes(p)' <=> Passes(p)
         /\ \A p : Live(p)' <=> Live(p)
BY DEF Keywords, Passes, Live

\* A steady client asks for the next page with the lists and the ranking of the last.
LEMMA SelectKeywordKeeps == SearchInv /\ SelectKeyword => SearchInv'
<1> SUFFICES ASSUME SearchInv, SelectKeyword PROVE SearchInv'
  OBVIOUS
<1> USE DEF SelectKeyword, tableVars
<1>1. SearchTypeOK'
  <2>1. keyword' \in Lists
    BY OnlyIsList DEF SearchInv, SearchTypeOK
  <2> QED BY <2>1 DEF SearchInv, SearchTypeOK
<1>2. Known(matrix)' /\ Known(vectors)'
  BY DEF SearchInv, Known
<1>3. page \in Nat /\ page' = page + 1 /\ pc' = "keyword" /\ PagesGot' = page
  BY DEF SearchInv, SearchTypeOK, PagesGot
<1>4. ASSUME steady'
      PROVE  /\ keyword' = Keywords'
             /\ HasRanked' => nearest' = Nearest(vectors)' /\ fused' = Fuse(keyword, nearest)'
             /\ got' = SubSeq(fused', 1, Min({PagesGot' * PerPage, Len(fused')}))
  <2>1. keyword' = Keywords /\ Keywords' = Keywords
    BY SameTable DEF Keywords
  <2>2. Nearest(vectors)' = Nearest(vectors)
    BY DEF Nearest, Passes, Live
  <2>3. CASE pc = "idle"
    <3>1. page = 0 /\ got = << >> /\ ~HasRanked' /\ fused \in Lists
      BY <1>3, <2>3 DEF SearchInv, Turning, HasRanked, SearchTypeOK
    <3>2. PagesGot' = 0 /\ got' = << >> /\ fused' = fused
      BY <1>3, <3>1
    <3> QED BY <2>1, <3>1, <3>2, NoPages
  <2>4. CASE pc = "answered"
    <3>1. /\ steady /\ keyword = Keywords /\ nearest = Nearest(vectors)
          /\ fused = Fuse(keyword, nearest)
          /\ got = SubSeq(fused, 1, Min({page * PerPage, Len(fused)}))
      BY <1>4, <2>4 DEF SearchInv, Turning, HasRanked, PagesGot
    <3>2. Fuse(keyword, nearest)' = Fuse(keyword', nearest)
      OBVIOUS
    <3> QED BY <1>3, <2>1, <2>2, <3>1, <3>2
  <2> QED BY <2>3, <2>4
<1>5. Turning'
  <2>1. page' > 0 /\ pc' = "keyword"
    BY <1>3
  <2>2. steady' => /\ keyword' = Keywords'
                   /\ HasRanked' => nearest' = Nearest(vectors)' /\ fused' = Fuse(keyword, nearest)'
                   /\ got' = SubSeq(fused, 1, Min({PagesGot * PerPage, Len(fused)}))'
    BY <1>4
  <2> HIDE DEF SelectKeyword
  <2> QED BY <2>1, <2>2 DEF Turning
<1> QED BY <1>1, <1>2, <1>5 DEF SearchInv

\* Vectors other than those of the last page end the steadiness.
LEMMA LoadVectorsKeeps == SearchInv /\ LoadVectors => SearchInv'
<1> SUFFICES ASSUME SearchInv, LoadVectors PROVE SearchInv'
  OBVIOUS
<1> USE DEF LoadVectors, tableVars
<1>1. Known(matrix)' /\ Known(vectors)'
  <2>1. Known(Stored)
    BY StoredKnown DEF SearchInv, SearchTypeOK
  <2>2. Known(matrix')
    BY <2>1 DEF SearchInv
  <2> QED BY <2>2 DEF Known
<1>2. SearchTypeOK'
  <2>1. ToSet(matrix') \cup ToSet(vectors') \subseteq Item
    BY <1>1, LenProperties DEF Known, ToSet
  <2> QED BY <2>1 DEF SearchInv, SearchTypeOK
<1>3. page \in Nat /\ pc = "keyword" /\ pc' = "loaded" /\ PagesGot' = page - 1 /\ PagesGot = page - 1
  BY DEF SearchInv, SearchTypeOK, PagesGot
<1>4. ASSUME steady'
      PROVE  /\ keyword' = Keywords'
             /\ HasRanked' => nearest' = Nearest(vectors)' /\ fused' = Fuse(keyword, nearest)'
             /\ got' = SubSeq(fused', 1, Min({PagesGot' * PerPage, Len(fused')}))
  <2>1. keyword = Keywords /\ Keywords' = Keywords
    BY <1>3, <1>4, SameTable DEF SearchInv, Turning
  <2>2. got = SubSeq(fused, 1, Min({PagesGot * PerPage, Len(fused)}))
    BY <1>3, <1>4 DEF SearchInv, Turning
  <2>3. ASSUME HasRanked'
        PROVE  nearest = Nearest(vectors)' /\ fused = Fuse(keyword, nearest)
    <3>1. page > 1 /\ vectors' = vectors
      <4>1. page > 1
        BY <1>3, <2>3 DEF HasRanked
      <4>2. page = 1 \/ vectors' = vectors
        BY <1>4, Zenon
      <4> QED BY <1>3, <4>1, <4>2
    <3>2. nearest = Nearest(vectors) /\ fused = Fuse(keyword, nearest)
      BY <1>3, <1>4, <3>1 DEF SearchInv, Turning, HasRanked
    <3>3. Nearest(vectors)' = Nearest(vectors)
      BY <3>1 DEF Nearest, Passes, Live
    <3> QED BY <3>2, <3>3
  <2>4. Fuse(keyword, nearest)' = Fuse(keyword, nearest)
    OBVIOUS
  <2> QED BY <1>3, <2>1, <2>2, <2>3, <2>4
<1>5. Turning'
  BY <1>3, <1>4 DEF Turning, SearchInv
<1> QED BY <1>1, <1>2, <1>5 DEF SearchInv

\* The ranking of a steady search is made anew and is the same.
LEMMA FuseCandidatesKeeps == SearchInv /\ FuseCandidates => SearchInv'
<1> SUFFICES ASSUME SearchInv, FuseCandidates PROVE SearchInv'
  OBVIOUS
<1> USE DEF FuseCandidates, tableVars
<1>1. nearest' \in Lists /\ fused' \in Lists
  BY NearestProperties, FuseProperties DEF SearchInv, SearchTypeOK
<1>2. SearchTypeOK'
  BY <1>1 DEF SearchInv, SearchTypeOK
<1>3. Known(matrix)' /\ Known(vectors)'
  BY DEF SearchInv, Known
<1>4. /\ page \in Nat /\ page' = page /\ pc = "loaded" /\ pc' = "fused"
      /\ PagesGot' = page - 1 /\ PagesGot = page - 1
  BY DEF SearchInv, SearchTypeOK, PagesGot
<1>5. Nearest(vectors)' = Nearest(vectors) /\ Fuse(keyword, nearest)' = Fuse(keyword, nearest')
  BY DEF Nearest, Passes, Live
<1>6. ASSUME steady'
      PROVE  /\ keyword' = Keywords'
             /\ got' = SubSeq(fused', 1, Min({PagesGot' * PerPage, Len(fused')}))
  <2>1. keyword = Keywords /\ Keywords' = Keywords
    BY <1>4, <1>6, SameTable DEF SearchInv, Turning
  <2>2. got = SubSeq(fused, 1, Min({PagesGot * PerPage, Len(fused)}))
    BY <1>4, <1>6 DEF SearchInv, Turning
  <2>3. CASE page > 1
    <3>1. nearest = Nearest(vectors) /\ fused = Fuse(keyword, nearest)
      BY <1>4, <1>6, <2>3 DEF SearchInv, Turning, HasRanked
    <3>2. fused' = fused
      BY <3>1
    <3> QED BY <1>4, <2>1, <2>2, <3>2
  <2>4. CASE page = 1
    <3>1. PagesGot = 0
      BY <1>4, <2>4
    <3>2. got = << >>
      BY <2>2, <3>1, NoPages DEF SearchInv, SearchTypeOK
    <3> QED BY <1>1, <1>4, <2>1, <3>1, <3>2, NoPages
  <2>5. page > 0
    BY <1>4 DEF SearchInv, Turning
  <2>6. page > 1 \/ page = 1
    BY <1>4, <2>5
  <2> QED BY <2>3, <2>4, <2>6
<1>7. Turning'
  BY <1>4, <1>5, <1>6 DEF Turning, SearchInv
<1> QED BY <1>2, <1>3, <1>7 DEF SearchInv

\* The ranking of a search in which nothing has changed holds live prompts only.
LEMMA RankedLive ==
  ASSUME heap \in Lists, Known(vectors), keyword = Keywords,
         nearest = Nearest(vectors), fused = Fuse(keyword, nearest)
  PROVE  /\ ToSet(fused) = ToSet(Keywords) \cup ToSet(Nearest(vectors))
         /\ \A p \in ToSet(fused) : p \in PromptIds /\ Live(p)
<1>1. keyword \in Lists /\ nearest \in Lists
  BY KeywordsList, NearestProperties
<1>2. fused \in Lists /\ ToSet(fused) = ToSet(keyword) \cup ToSet(nearest)
  BY <1>1, FuseProperties
<1>3. \A p \in ToSet(Keywords) : Passes(p)
  BY OnlyIsList DEF Keywords
<1>4. \A p \in ToSet(Nearest(vectors)) : Passes(p)
  BY NearestProperties
<1> QED BY <1>2, <1>3, <1>4, ListMembers DEF Passes

\* A page of a steady search goes on where the pages before it end.
LEMMA FetchPageKeeps == SearchInv /\ FetchPage => SearchInv'
<1> SUFFICES ASSUME SearchInv, FetchPage PROVE SearchInv'
  OBVIOUS
<1> DEFINE live == {p \in PromptIds : Live(p)}
<1>1. /\ UNCHANGED <<heap, table, changes, matrix, page, keyword, vectors, nearest, fused, steady>>
      /\ got' = got \o Only(Slice(fused, page), live)
      /\ pc = "fused" /\ pc' = IF page < Pages(Len(fused)) THEN "answered" ELSE "done"
  BY DEF FetchPage, tableVars
<1> HIDE DEF live
<1>2. page \in Pos /\ PagesGot = page - 1 /\ PagesGot' = page /\ page \in Nat
  BY <1>1 DEF SearchInv, SearchTypeOK, Turning, PagesGot, Pos
<1>3. fused \in Lists /\ got \in Seq(PromptIds) /\ Slice(fused, page) \in Lists
  BY <1>2, SliceProperties DEF SearchInv, SearchTypeOK
<1>4. SearchTypeOK'
  <2>1. Only(Slice(fused, page), live) \in Seq(PromptIds)
    BY <1>3, OnlyIsList DEF Lists
  <2>2. got' \in Seq(PromptIds)
    BY <1>1, <1>3, <2>1
  <2> QED BY <1>1, <2>2 DEF SearchInv, SearchTypeOK
<1>5. Known(matrix)' /\ Known(vectors)'
  BY <1>1 DEF SearchInv, Known
<1>6. pc' = "done" => Len(fused') <= page' * PerPage
  BY <1>1, <1>2, <1>3, ListLength, PagesSuffice
<1>7. ASSUME steady
      PROVE  /\ keyword = Keywords /\ nearest = Nearest(vectors) /\ fused = Fuse(keyword, nearest)
             /\ got' = SubSeq(fused, 1, Min({page * PerPage, Len(fused)}))
  <2>1. /\ keyword = Keywords /\ nearest = Nearest(vectors) /\ fused = Fuse(keyword, nearest)
        /\ got = SubSeq(fused, 1, Min({(page - 1) * PerPage, Len(fused)}))
    BY <1>1, <1>2, <1>7 DEF SearchInv, Turning, HasRanked
  <2>2. \A p \in ToSet(fused) : p \in live
    BY <2>1, RankedLive DEF SearchInv, SearchTypeOK, live
  <2>3. Only(Slice(fused, page), live) = Slice(fused, page)
    BY <1>2, <1>3, <2>2, SliceProperties, OnlyIsList
  <2> QED BY <1>1, <1>2, <1>3, <2>1, <2>3, SliceProperties
<1>8. ASSUME steady'
      PROVE  /\ keyword' = Keywords'
             /\ nearest' = Nearest(vectors)' /\ fused' = Fuse(keyword, nearest)'
             /\ got' = SubSeq(fused, 1, Min({PagesGot * PerPage, Len(fused)}))'
  <2>1. Keywords' = Keywords
    BY <1>1, SameTable
  <2>2. Nearest(vectors)' = Nearest(vectors)
    BY <1>1 DEF Nearest, Passes, Live
  <2>3. Fuse(keyword, nearest)' = Fuse(keyword, nearest)
    BY <1>1 DEF Fuse
  <2>4. steady
    BY <1>1, <1>8
  <2> QED BY <1>1, <1>2, <1>7, <2>1, <2>2, <2>3, <2>4
<1>9. page' > 0 /\ pc' # "idle" /\ pc' # "fused"
  BY <1>1, <1>2 DEF Pos
<1>10. Turning'
  BY <1>6, <1>8, <1>9 DEF Turning
<1> QED BY <1>4, <1>5, <1>10 DEF SearchInv

\* Nothing is kept from one search to the next.
LEMMA StartOverKeeps == SearchInv /\ StartOver => SearchInv'
<1> SUFFICES ASSUME SearchInv, StartOver PROVE SearchInv'
  OBVIOUS
<1>1. /\ UNCHANGED <<heap, table, changes, matrix>> /\ pc' = "idle" /\ page' = 0
      /\ keyword' = << >> /\ vectors' = << >> /\ nearest' = << >> /\ fused' = << >>
      /\ got' = << >> /\ steady' = TRUE
  BY DEF StartOver, tableVars
<1>2. SearchTypeOK'
  BY <1>1, EmptyList DEF SearchInv, SearchTypeOK, ToSet
<1>3. Known(matrix)' /\ Known(vectors)'
  BY <1>1 DEF SearchInv, Known
<1>4. Turning'
  BY <1>1 DEF Turning
<1> QED BY <1>2, <1>3, <1>4 DEF SearchInv

\* Whatever another request writes, the search is no longer steady.
LEMMA WrittenKeeps ==
  ASSUME SearchInv, NEW p \in PromptIds, NEW row \in Row, Written(p, row)
  PROVE  SearchInv'
<1>1. /\ UNCHANGED <<matrix, pc, page, keyword, vectors, nearest, fused, got>>
      /\ table' = [table EXCEPT ![p] = row] /\ changes' = changes + 1 /\ steady' = FALSE
  BY DEF Written, requestVars
<1>2. heap' \in Lists /\ ToSet(heap) \subseteq ToSet(heap')
  BY HeapWritten DEF SearchInv, SearchTypeOK
<1>3. SearchTypeOK'
  <2>1. table' \in [PromptIds -> Row] /\ changes' \in Nat
    BY <1>1 DEF SearchInv, SearchTypeOK
  <2> QED BY <1>1, <1>2, <2>1 DEF SearchInv, SearchTypeOK
<1>4. Known(matrix)' /\ Known(vectors)'
  BY <1>1, <1>2 DEF SearchInv, Known
<1>5. Turning'
  <2>1. Fuse(keyword, nearest)' = Fuse(keyword, nearest)
    BY <1>1 DEF Fuse
  <2> QED BY <1>1, <2>1 DEF SearchInv, Turning
<1> QED BY <1>3, <1>4, <1>5 DEF SearchInv

\* The writes of other requests.
LEMMA OthersKeep ==
  ASSUME SearchInv, NEW p \in PromptIds,
         CreatePrompt(p) \/ UpdatePrompt(p) \/ CountView(p) \/ DeletePrompt(p)
  PROVE  SearchInv'
<1>1. table[p] \in Row
  BY DEF SearchInv, SearchTypeOK
<1>2. \A text \in Texts, shown \in BOOLEAN :
        [text |-> text, embedded |-> TRUE, shown |-> shown, deleted |-> FALSE] \in Row
  BY DEF Row
<1>3. CASE CreatePrompt(p)
  BY <1>2, <1>3, WrittenKeeps DEF CreatePrompt
<1>4. CASE UpdatePrompt(p)
  <2>1. \A text \in Texts : [table[p] EXCEPT !.text = text, !.embedded = TRUE] \in Row
    BY <1>1 DEF Row
  <2>2. [table[p] EXCEPT !.shown = ~table[p].shown] \in Row
    BY <1>1 DEF Row
  <2> QED BY <1>4, <2>1, <2>2, WrittenKeeps DEF UpdatePrompt
<1>5. CASE CountView(p)
  BY <1>1, <1>5, WrittenKeeps DEF CountView
<1>6. CASE DeletePrompt(p)
  <2>1. [table[p] EXCEPT !.deleted = TRUE] \in Row
    BY <1>1 DEF Row
  <2> QED BY <1>6, <2>1, WrittenKeeps DEF DeletePrompt
<1> QED BY <1>3, <1>4, <1>5, <1>6

\* The matrix may come and go: the request has its own.
LEMMA MatrixKeeps ==
  ASSUME SearchInv, UNCHANGED <<heap, table, changes, requestVars, steady>>,
         matrix' \in {<< >>, Stored, matrix}
  PROVE  SearchInv'
<1>1. UNCHANGED <<pc, page, keyword, vectors, nearest, fused, got>>
  BY DEF requestVars
<1>2. Known(matrix') /\ Known(vectors)
  BY StoredKnown, KnownEmpty DEF SearchInv, SearchTypeOK
<1>3. Known(matrix)' /\ Known(vectors)'
  BY <1>1, <1>2 DEF Known
<1>4. SearchTypeOK'
  <2>1. ToSet(matrix') \subseteq Item
    BY <1>2, LenProperties DEF Known, ToSet
  <2> QED BY <1>1, <2>1 DEF SearchInv, SearchTypeOK
<1>5. Turning'
  <2>1. Keywords' = Keywords
    BY SameTable
  <2>2. Nearest(vectors)' = Nearest(vectors)
    BY <1>1 DEF Nearest, Passes, Live
  <2>3. Fuse(keyword, nearest)' = Fuse(keyword, nearest)
    BY <1>1 DEF Fuse
  <2> QED BY <1>1, <2>1, <2>2, <2>3 DEF SearchInv, Turning, HasRanked, PagesGot
<1> QED BY <1>3, <1>4, <1>5 DEF SearchInv

\* Every step keeps the invariant.
LEMMA SearchInductive == SearchInv /\ [SearchNext]_searchVars => SearchInv'
<1> SUFFICES ASSUME SearchInv, [SearchNext]_searchVars PROVE SearchInv'
  OBVIOUS
<1>1. CASE SelectKeyword \/ LoadVectors \/ FuseCandidates \/ FetchPage \/ StartOver
  BY <1>1, SelectKeywordKeeps, LoadVectorsKeeps, FuseCandidatesKeeps, FetchPageKeeps,
     StartOverKeeps
<1>2. CASE \E p \in PromptIds :
             CreatePrompt(p) \/ UpdatePrompt(p) \/ CountView(p) \/ DeletePrompt(p)
  BY <1>2, OthersKeep
<1>3. CASE ForgetVectors \/ ReloadVectors
  BY <1>3, MatrixKeeps DEF ForgetVectors, ReloadVectors, tableVars
<1>4. CASE UNCHANGED searchVars
  BY <1>4, MatrixKeeps DEF searchVars, tableVars
<1> QED BY <1>1, <1>2, <1>3, <1>4 DEF SearchNext

\* The invariant holds in every behaviour.
LEMMA SearchInvariant == SearchSpec => []SearchInv
BY SearchInitially, SearchInductive, PTL DEF SearchSpec

\* Every variable has its type and no list holds an id twice, for any prompts,
\* texts and nearness and any number of writes.
THEOREM SearchTypeCorrect == SearchSpec => []SearchTypeOK
<1>1. SearchInv => SearchTypeOK
  BY DEF SearchInv
<1> QED BY <1>1, SearchInvariant, PTL

\* The ranking of _rrf_fuse is fair to both halves of the search, whatever they
\* find, for any number of candidates and any constant of the ranking.
THEOREM RankingIsFair == SearchSpec => []FusedFairly
<1>1. SearchInv => FusedFairly
  <2> SUFFICES ASSUME SearchInv, pc = "fused", NEW i \in DOMAIN fused, NEW j \in DOMAIN fused, i < j
               PROVE  LET p == fused[i]
                          q == fused[j]
                          both == ToSet(keyword) \cap ToSet(nearest)
                      IN  /\ \E s \in {keyword, nearest} : p \in ToSet(s) /\ ~Leads(q, p, s)
                          /\ q \in both /\ p \notin both =>
                               \E s \in {keyword, nearest} : Position(q, s) > RankConstant + 1
    BY DEF FusedFairly
  <2>1. keyword \in Lists /\ nearest \in Lists /\ fused = Fuse(keyword, nearest)
    BY DEF SearchInv, SearchTypeOK, Turning
  <2> QED BY <2>1, FuseIsFair
<1> QED BY <1>1, SearchInvariant, PTL

\* A client that turns all pages gets every relevant prompt once, for any number
\* of prompts, any size of a page and any number of vectors that are kept, if
\* nothing changes meanwhile.
THEOREM PagesAreComplete == SearchSpec => []PagesComplete
<1>1. SearchInv => PagesComplete
  <2> SUFFICES ASSUME SearchInv, pc = "done", steady
               PROVE  IsInjective(got) /\ ToSet(got) = {p \in PromptIds : Relevant(p)}
    BY DEF PagesComplete
  <2>1. /\ page \in Nat /\ fused \in Lists /\ heap \in Lists /\ Known(vectors)
        /\ keyword = Keywords /\ nearest = Nearest(vectors) /\ fused = Fuse(keyword, nearest)
        /\ got = SubSeq(fused, 1, Min({page * PerPage, Len(fused)}))
        /\ Len(fused) <= page * PerPage
    BY DEF SearchInv, SearchTypeOK, Turning, HasRanked, PagesGot
  <2>2. got = fused
    <3>1. Len(fused) \in Nat /\ page * PerPage \in Nat /\ fused \in Seq(PromptIds)
      BY <2>1, ListLength, ProductNatural DEF Pos
    <3>2. Min({page * PerPage, Len(fused)}) = Len(fused)
      BY <2>1, <3>1, LesserOfTwo
    <3> QED BY <2>1, <3>1, <3>2, SubSeqFull
  <2>3. IsInjective(got)
    BY <2>1, <2>2 DEF Lists
  <2>4. ToSet(fused) = ToSet(Keywords) \cup ToSet(Nearest(vectors))
    BY <2>1, RankedLive
  <2>5. ToSet(Keywords) = {p \in PromptIds :
                             p \in ToSet(heap) /\ Passes(p) /\ table[p].text \in Hits}
    <3>1. ToSet(Keywords) = ToSet(heap) \cap {p \in PromptIds : Passes(p) /\ table[p].text \in Hits}
      BY <2>1, OnlyIsList DEF Keywords
    <3> QED BY <3>1
  <2>6. \A e \in ToSet(vectors) : e.id \in ToSet(heap)
    BY <2>1 DEF Known, ToSet
  <2>7. ToSet(Nearest(vectors)) =
          {p \in PromptIds : \E e \in ToSet(vectors) :
             /\ e.id = p /\ Passes(p)
             /\ Cardinality({f \in ToSet(vectors) : Passes(f.id) /\ Ahead(f, e)}) < TopK}
    BY <2>1, NearestProperties
  <2>8. ASSUME NEW p \in PromptIds
        PROVE  p \in ToSet(fused) <=> Relevant(p)
    BY <2>4, <2>5, <2>6, <2>7 DEF Relevant
  <2>9. ToSet(fused) \subseteq PromptIds
    BY <2>1, ListMembers
  <2> QED BY <2>2, <2>3, <2>8, <2>9
<1> QED BY <1>1, SearchInvariant, PTL
=============================================================================
