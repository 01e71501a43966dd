--------------------------- MODULE NaturalLemmas ---------------------------
(***************************************************************************)
(* Least and greatest elements of sets of naturals, and their ranks: that  *)
(* the CHOOSE expressions by which the components' modules pick the first, *)
(* the last or the k-th of something pick one.                             *)
(***************************************************************************)
EXTENDS Integers, Positions, FiniteSetTheorems, FunctionTheorems, SequenceTheorems, WellFoundedInduction, TLAPS

\* Every set of naturals that is not empty has a least element.
LEMMA LeastNatural ==
  ASSUME NEW T \in SUBSET Nat, T # {}
  PROVE  \E m \in T : \A n \in T : m <= n
<1> DEFINE R == {ss \in Nat \X Nat : ss[1] < ss[2]}
<1>1. IsWellFoundedOn(R, Nat)
  BY NatLessThanWellFounded DEF OpToRel
<1>2. \A m, n \in Nat : m < n => <<m, n>> \in R
  OBVIOUS
<1> HIDE DEF R
<1>3. PICK m \in T : \A n \in T : ~(<<n, m>> \in R)
  BY <1>1, WFMin
<1>4. ASSUME NEW n \in T PROVE m <= n
  <2>1. n \in Nat /\ m \in Nat
    OBVIOUS
  <2>2. ~(n < m)
    BY <1>2, <1>3, <2>1
  <2> QED BY <2>1, <2>2
<1> QED BY <1>4

\* ... and a greatest one if it is bounded.
LEMMA GreatestNatural ==
  ASSUME NEW b \in Nat, NEW T \in SUBSET (0 .. b), T # {}
  PROVE  \E m \in T : \A n \in T : n <= m
<1> DEFINE D == {d \in 0 .. b : b - d \in T}
<1>1. \A n \in T : b - n \in D
  OBVIOUS
<1>2. D \in SUBSET Nat /\ D # {}
  <2>1. D # {}
    BY <1>1
  <2>2. D \in SUBSET Nat
    OBVIOUS
  <2> QED BY <2>1, <2>2
<1>3. \A d \in D : d \in 0 .. b /\ b - d \in T
  OBVIOUS
<1> HIDE DEF D
<1>4. PICK d \in D : \A e \in D : d <= e
  BY <1>2, LeastNatural
<1>5. ASSUME NEW n \in T PROVE n <= b - d
  <2>1. d <= b - n /\ n \in 0 .. b
    BY <1>1, <1>4
  <2> QED BY <1>3, <1>4, <2>1
<1> QED BY <1>3, <1>4, <1>5

-----------------------------------------------------------------------------

\* How many elements of P are not after i.
Rank(P, i) == Cardinality({j \in P : j <= i})

LEMMA RankIsNatural ==
  ASSUME NEW n \in Nat, NEW P \in SUBSET (1 .. n), NEW i \in Nat
  PROVE  /\ IsFiniteSet(P) /\ Cardinality(P) \in Nat
         /\ IsFiniteSet({j \in P : j <= i})
         /\ Rank(P, i) \in Nat /\ Rank(P, i) <= Cardinality(P)
<1>1. IsFiniteSet(1 .. n)
  BY FS_Interval
<1>2. IsFiniteSet(P)
  BY <1>1, FS_Subset
<1>3. {j \in P : j <= i} \in SUBSET P
  OBVIOUS
<1>4. /\ IsFiniteSet({j \in P : j <= i})
      /\ Cardinality({j \in P : j <= i}) <= Cardinality(P)
  BY <1>2, <1>3, FS_Subset
<1>5. Cardinality(P) \in Nat /\ Cardinality({j \in P : j <= i}) \in Nat
  BY <1>2, <1>4, FS_CardinalityType
<1> QED BY <1>2, <1>4, <1>5 DEF Rank

\* The rank grows with the elements, from one to the number of them, by one each.
LEMMA RankStep ==
  ASSUME NEW n \in Nat, NEW P \in SUBSET (1 .. n), NEW i \in Nat \ {0}
  PROVE  Rank(P, i) = IF i \in P THEN Rank(P, i - 1) + 1 ELSE Rank(P, i - 1)
<1> DEFINE Low  == {j \in P : j <= i - 1}
           Here == {j \in P : j <= i}
<1>1. i - 1 \in Nat /\ \A j \in P : j \in Nat /\ (j <= i <=> j <= i - 1 \/ j = i)
  OBVIOUS
<1>2. IsFiniteSet(Low)
  BY <1>1, RankIsNatural
<1>3. CASE i \in P
  <2>1. \A j : j \in Here <=> j \in Low \cup {i}
    BY <1>1, <1>3
  <2>2. Here = Low \cup {i} /\ i \notin Low
    BY <2>1
  <2>3. Cardinality(Low \cup {i}) = Cardinality(Low) + 1
    BY <1>2, <2>2, FS_AddElement
  <2> QED BY <1>3, <2>2, <2>3 DEF Rank
<1>4. CASE i \notin P
  <2>1. Here = Low
    BY <1>1, <1>4
  <2> QED BY <1>4, <2>1 DEF Rank
<1> QED BY <1>3, <1>4

LEMMA RankMonotonic ==
  ASSUME NEW n \in Nat, NEW P \in SUBSET (1 .. n), NEW i \in Nat, NEW k \in Nat, i <= k
  PROVE  Rank(P, i) <= Rank(P, k)
<1>1. {j \in P : j <= i} \in SUBSET {j \in P : j <= k}
  <2>1. \A j \in P : j <= i => j <= k
    OBVIOUS
  <2> QED BY <2>1
<1>2. IsFiniteSet({j \in P : j <= k})
  BY RankIsNatural
<1> QED BY <1>1, <1>2, FS_Subset DEF Rank

LEMMA RankStrict ==
  ASSUME NEW n \in Nat, NEW P \in SUBSET (1 .. n), NEW i \in P, NEW k \in P, i < k
  PROVE  Rank(P, i) < Rank(P, k)
<1>1. i \in Nat /\ k \in Nat \ {0} /\ k - 1 \in Nat /\ i <= k - 1
  OBVIOUS
<1>2. Rank(P, i) <= Rank(P, k - 1) /\ Rank(P, k) = Rank(P, k - 1) + 1
  BY <1>1, RankMonotonic, RankStep
<1>3. Rank(P, i) \in Nat /\ Rank(P, k - 1) \in Nat
  BY <1>1, RankIsNatural
<1> QED BY <1>2, <1>3

\* Every number up to the number of elements is the rank of one of them.
LEMMA RankReached ==
  ASSUME NEW n \in Nat, NEW P \in SUBSET (1 .. n), NEW r \in 1 .. Cardinality(P)
  PROVE  \E i \in P : Rank(P, i) = r
<1> DEFINE T == {i \in Nat : r <= Rank(P, i)}
<1>1. n \in T
  <2>1. \A j \in P : j <= n
    OBVIOUS
  <2>2. {j \in P : j <= n} = P
    BY <2>1
  <2>3. Rank(P, n) = Cardinality(P) /\ Cardinality(P) \in Nat
    BY <2>2, RankIsNatural DEF Rank
  <2> QED BY <2>3
<1>2. T \in SUBSET Nat /\ T # {}
  BY <1>1
<1>3. \A i \in T : i \in Nat /\ r <= Rank(P, i)
  OBVIOUS
<1>4. \A i \in Nat : r <= Rank(P, i) => i \in T
  OBVIOUS
<1> HIDE DEF T
<1>5. PICK i \in T : \A k \in T : i <= k
  BY <1>2, LeastNatural
<1>6. i \in Nat /\ r <= Rank(P, i) /\ Cardinality(P) \in Nat
  BY <1>3, <1>5, RankIsNatural
<1>7. i # 0
  <2>1. \A j \in P : ~(j <= 0)
    OBVIOUS
  <2>2. {j \in P : j <= 0} = {}
    BY <2>1
  <2>3. Rank(P, 0) = 0
    BY <2>2, FS_EmptySet DEF Rank
  <2> QED BY <1>6, <2>3
<1>8. i - 1 \in Nat /\ i - 1 \notin T
  BY <1>5, <1>6, <1>7
<1>9. Rank(P, i - 1) < r /\ Rank(P, i - 1) \in Nat
  <2>1. Rank(P, i - 1) \in Nat
    BY <1>8, RankIsNatural
  <2> QED BY <1>4, <1>8, <2>1
<1>10. Rank(P, i) = IF i \in P THEN Rank(P, i - 1) + 1 ELSE Rank(P, i - 1)
  BY <1>6, <1>7, RankStep
<1> QED BY <1>6, <1>9, <1>10

\* The elements in their order: an enumeration that is onto and grows.
Enumeration(P) == [r \in 1 .. Cardinality(P) |-> CHOOSE i \in P : Rank(P, i) = r]

LEMMA EnumerationProperties ==
  ASSUME NEW n \in Nat, NEW P \in SUBSET (1 .. n)
  PROVE  /\ Cardinality(P) \in Nat
         /\ Enumeration(P) \in [1 .. Cardinality(P) -> P]
         /\ \A i \in P : Rank(P, i) \in 1 .. Cardinality(P) /\ Enumeration(P)[Rank(P, i)] = i
         /\ \A q, r \in 1 .. Cardinality(P) : q < r => Enumeration(P)[q] < Enumeration(P)[r]
<1> DEFINE e == Enumeration(P)
<1>1. Cardinality(P) \in Nat /\ \A i \in P : i \in Nat \ {0} /\ i - 1 \in Nat
  <2>1. 0 \in Nat
    OBVIOUS
  <2>2. Cardinality(P) \in Nat
    BY <2>1, RankIsNatural
  <2> QED BY <2>2
<1>2. ASSUME NEW r \in 1 .. Cardinality(P) PROVE e[r] \in P /\ Rank(P, e[r]) = r
  <2>1. e[r] = CHOOSE i \in P : Rank(P, i) = r
    BY DEF Enumeration
  <2> QED BY <2>1, RankReached
<1>3. ASSUME NEW i \in P PROVE Rank(P, i) \in 1 .. Cardinality(P)
  <2>1. i \in Nat \ {0} /\ i - 1 \in Nat
    BY <1>1
  <2>2. Rank(P, i) = Rank(P, i - 1) + 1
    BY <2>1, RankStep
  <2>3. Rank(P, i) \in Nat /\ Rank(P, i) <= Cardinality(P) /\ Rank(P, i - 1) \in Nat
    BY <2>1, RankIsNatural
  <2> QED BY <1>1, <2>2, <2>3
<1>4. ASSUME NEW i \in P PROVE e[Rank(P, i)] = i
  <2> DEFINE k == e[Rank(P, i)]
  <2>1. k \in P /\ Rank(P, k) = Rank(P, i)
    BY <1>2, <1>3
  <2> HIDE DEF k
  <2>2. i \in Nat /\ k \in Nat /\ Rank(P, i) \in Nat
    BY <1>1, <1>3, <2>1
  <2>3. ASSUME k < i PROVE FALSE
    <3>1. Rank(P, k) < Rank(P, i)
      BY <2>1, <2>3, RankStrict
    <3> QED BY <2>1, <2>2, <3>1
  <2>4. ASSUME i < k PROVE FALSE
    <3>1. Rank(P, i) < Rank(P, k)
      BY <2>1, <2>4, RankStrict
    <3> QED BY <2>1, <2>2, <3>1
  <2>5. k = i
    BY <2>2, <2>3, <2>4
  <2> QED BY <2>5 DEF k
<1>5. ASSUME NEW q \in 1 .. Cardinality(P), NEW r \in 1 .. Cardinality(P), q < r
      PROVE  e[q] < e[r]
  <2>1. /\ e[q] \in P /\ Rank(P, e[q]) = q
        /\ e[r] \in P /\ Rank(P, e[r]) = r
    BY <1>2
  <2> HIDE DEF e
  <2>2. e[q] \in Nat /\ e[r] \in Nat
    BY <1>1, <2>1
  <2>3. CASE e[r] <= e[q]
    BY <1>5, <2>1, <2>2, <2>3, RankMonotonic
  <2> QED BY <2>2, <2>3
<1>6. e \in [1 .. Cardinality(P) -> P]
  BY <1>2 DEF Enumeration
<1> QED BY <1>1, <1>3, <1>4, <1>5, <1>6

-----------------------------------------------------------------------------
(* Positions *)

LEMMA PositionProperties ==
  ASSUME NEW n \in Nat, NEW P \in SUBSET (1 .. n)
  PROVE  /\ Cardinality(P) \in Nat
         /\ \A k \in 1 .. Cardinality(P) : Position(P, k) \in P
         /\ \A i \in P : \E k \in 1 .. Cardinality(P) : Position(P, k) = i
         /\ \A q, k \in 1 .. Cardinality(P) : q < k => Position(P, q) < Position(P, k)
<1>1. \A k \in 1 .. Cardinality(P) : Enumeration(P)[k] = Position(P, k)
  BY DEF Enumeration, Position, Rank
<1>2. /\ Cardinality(P) \in Nat
      /\ Enumeration(P) \in [1 .. Cardinality(P) -> P]
      /\ \A i \in P : Rank(P, i) \in 1 .. Cardinality(P) /\ Enumeration(P)[Rank(P, i)] = i
      /\ \A q, k \in 1 .. Cardinality(P) : q < k => Enumeration(P)[q] < Enumeration(P)[k]
  BY EnumerationProperties
<1>3. \A k \in 1 .. Cardinality(P) : Position(P, k) \in P
  BY <1>1, <1>2
<1>4. \A i \in P : \E k \in 1 .. Cardinality(P) : Position(P, k) = i
  BY <1>1, <1>2
<1>5. \A q, k \in 1 .. Cardinality(P) : q < k => Position(P, q) < Position(P, k)
  BY <1>1, <1>2
<1> QED BY <1>2, <1>3, <1>4, <1>5

\* Every occurrence of u comes before every one of v.
InOrder(s, u, v) == \A i, j \in DOMAIN s : s[i] = u /\ s[j] = v => i < j

LEMMA PickProperties ==
  ASSUME NEW S, NEW s \in Seq(S), NEW P \in SUBSET (1 .. Len(s))
  PROVE  /\ Pick(s, P) \in Seq(S) /\ Len(Pick(s, P)) = Cardinality(P)
         /\ Cardinality(P) \in Nat
         /\ \A k \in 1 .. Cardinality(P) :
              /\ Enumeration(P)[k] \in P
              /\ Pick(s, P)[k] = s[Enumeration(P)[k]]
<1>1. Len(s) \in Nat
  OBVIOUS
<1>2. Cardinality(P) \in Nat /\ Enumeration(P) \in [1 .. Cardinality(P) -> P]
  BY <1>1, EnumerationProperties
<1>3. ASSUME NEW k \in 1 .. Cardinality(P)
      PROVE  /\ Enumeration(P)[k] \in P /\ s[Enumeration(P)[k]] \in S
             /\ Pick(s, P)[k] = s[Enumeration(P)[k]]
  <2>1. Enumeration(P)[k] \in P
    BY <1>2
  <2>2. Enumeration(P)[k] = Position(P, k)
    BY DEF Enumeration, Position, Rank
  <2>3. Pick(s, P)[k] = s[Position(P, k)]
    BY DEF Pick
  <2> QED BY <2>1, <2>2, <2>3, ElementOfSeq
<1>4. Pick(s, P) \in [1 .. Cardinality(P) -> S]
  <2>1. DOMAIN Pick(s, P) = 1 .. Cardinality(P)
    BY DEF Pick
  <2>2. Pick(s, P) = [k \in 1 .. Cardinality(P) |-> Pick(s, P)[k]]
    BY DEF Pick
  <2> QED BY <1>3, <2>1, <2>2
<1> QED BY <1>2, <1>3, <1>4

\* What is picked is there, and in the order it was in.
LEMMA PickKeeps ==
  ASSUME NEW S, NEW s \in Seq(S), NEW P \in SUBSET (1 .. Len(s))
  PROVE  /\ \A i \in P : \E k \in DOMAIN Pick(s, P) : Pick(s, P)[k] = s[i]
         /\ \A u, v : InOrder(s, u, v) => InOrder(Pick(s, P), u, v)
<1> DEFINE e == Enumeration(P)
           p == Pick(s, P)
<1>0. Len(s) \in Nat
  OBVIOUS
<1>1. /\ p \in Seq(S) /\ Len(p) = Cardinality(P) /\ Cardinality(P) \in Nat
      /\ DOMAIN p = 1 .. Cardinality(P)
      /\ \A k \in 1 .. Cardinality(P) : e[k] \in P /\ p[k] = s[e[k]]
  BY PickProperties
<1>2. /\ \A i \in P : Rank(P, i) \in 1 .. Cardinality(P) /\ e[Rank(P, i)] = i
      /\ \A q, r \in 1 .. Cardinality(P) : q < r => e[q] < e[r]
  BY <1>0, EnumerationProperties
<1>3. P \subseteq Nat /\ P \subseteq DOMAIN s
  OBVIOUS
<1> HIDE DEF e, p
<1>4. ASSUME NEW i \in P PROVE \E k \in DOMAIN p : p[k] = s[i]
  BY <1>1, <1>2
<1>5. ASSUME NEW u, NEW v, InOrder(s, u, v) PROVE InOrder(p, u, v)
  <2> SUFFICES ASSUME NEW k \in 1 .. Cardinality(P), NEW m \in 1 .. Cardinality(P),
                      p[k] = u, p[m] = v
               PROVE  k < m
    BY <1>1 DEF InOrder
  <2>1. e[k] \in P /\ e[m] \in P /\ e[k] < e[m]
    BY <1>1, <1>3, <1>5 DEF InOrder
  <2>2. e[k] \in Nat /\ e[m] \in Nat
    BY <1>3, <2>1
  <2>3. ~(m < k) /\ m # k
    BY <1>2, <2>1, <2>2
  <2> QED BY <1>1, <2>3
<1> QED BY <1>4, <1>5 DEF p

-----------------------------------------------------------------------------
(* Sorted sets *)

\* R, a set of pairs, puts any two elements of S in one order.
Orders(R, S) ==
  /\ \A x \in S : <<x, x>> \notin R
  /\ \A x, y \in S : x # y => <<x, y>> \in R \/ <<y, x>> \in R
  /\ \A x, y, z \in S : <<x, y>> \in R /\ <<y, z>> \in R => <<x, z>> \in R

\* s has each element of S, once.
Enumerates(s, S) ==
  /\ s \in Seq(S) /\ Len(s) = Cardinality(S) /\ Cardinality(S) \in Nat
  /\ \A i, j \in 1 .. Len(s) : s[i] = s[j] => i = j
  /\ \A x \in S : \E i \in 1 .. Len(s) : s[i] = x

\* How many elements of S come before x.
Preceding(R, S, x) == Cardinality({y \in S : <<y, x>> \in R})

LEMMA PrecedingIsNatural ==
  ASSUME NEW S, IsFiniteSet(S), NEW R, Orders(R, S), NEW x \in S
  PROVE  Preceding(R, S, x) \in Nat /\ Cardinality(S) \in Nat /\ Preceding(R, S, x) < Cardinality(S)
<1> DEFINE B == {y \in S : <<y, x>> \in R}
<1>1. B \in SUBSET S /\ x \notin B
  BY DEF Orders
<1>2. /\ IsFiniteSet(B) /\ Cardinality(B) \in Nat /\ Cardinality(S) \in Nat
      /\ Cardinality(B) <= Cardinality(S)
      /\ Cardinality(S) = Cardinality(B) => S = B
  BY <1>1, FS_Subset, FS_CardinalityType
<1>3. Cardinality(B) # Cardinality(S)
  BY <1>1, <1>2
<1> QED BY <1>2, <1>3 DEF Preceding

LEMMA PrecedingDiffers ==
  ASSUME NEW S, IsFiniteSet(S), NEW R, Orders(R, S), NEW x \in S, NEW z \in S, x # z
  PROVE  Preceding(R, S, x) # Preceding(R, S, z)
<1>1. ASSUME NEW v \in S, NEW w \in S, <<v, w>> \in R
      PROVE  Preceding(R, S, v) # Preceding(R, S, w)
  <2> DEFINE B == {y \in S : <<y, v>> \in R}
             C == {y \in S : <<y, w>> \in R}
  <2>1. C \in SUBSET S /\ B \in SUBSET C /\ v \in C /\ v \notin B
    BY <1>1 DEF Orders
  <2>2. IsFiniteSet(C)
    BY <2>1, FS_Subset
  <2>3. Cardinality(C) = Cardinality(B) => C = B
    BY <2>1, <2>2, FS_Subset
  <2>4. Cardinality(C) # Cardinality(B)
    BY <2>1, <2>3
  <2> QED BY <2>4 DEF Preceding
<1>2. <<x, z>> \in R \/ <<z, x>> \in R
  BY DEF Orders
<1> QED BY <1>1, <1>2

\* Sorting a finite set lists it.
LEMMA SortedEnumerates ==
  ASSUME NEW S, IsFiniteSet(S), NEW R, Orders(R, S)
  PROVE  Enumerates(Sorted(S, R), S)
<1> DEFINE n == Cardinality(S)
           f == [x \in S |-> Preceding(R, S, x) + 1]
           s == Sorted(S, R)
<1>1. n \in Nat
  BY FS_CardinalityType
<1>2. \A x \in S : Preceding(R, S, x) \in Nat /\ Preceding(R, S, x) < n
  BY PrecedingIsNatural
<1>3. f \in [S -> 1 .. n]
  BY <1>1, <1>2
<1>4. \A x, z \in S : f[x] = f[z] => x = z
  <2> TAKE x, z \in S
  <2>1. f[x] = Preceding(R, S, x) + 1 /\ f[z] = Preceding(R, S, z) + 1
    OBVIOUS
  <2>2. x # z => Preceding(R, S, x) # Preceding(R, S, z)
    BY PrecedingDiffers
  <2> QED BY <1>2, <2>1, <2>2
<1>5. f \in Injection(S, 1 .. n)
  BY <1>3, <1>4, Fun_IsInj
<1>6. IsFiniteSet(1 .. n) /\ Cardinality(1 .. n) = n
  BY <1>1, FS_Interval
<1> HIDE DEF f
<1>7. f \in Surjection(S, 1 .. n)
  BY <1>5, <1>6, FS_Injection
<1>8. \A k \in 1 .. n : \E x \in S : f[x] = k
  BY <1>7, Fun_SurjectionProperties
<1> USE DEF f
<1>9. ASSUME NEW k \in 1 .. n PROVE s[k] \in S /\ Preceding(R, S, s[k]) = k - 1
  <2>1. s[k] = CHOOSE x \in S : Preceding(R, S, x) = k - 1
    BY DEF Sorted, Preceding
  <2>2. PICK x \in S : f[x] = k
    BY <1>8
  <2>3. Preceding(R, S, x) = k - 1
    BY <1>1, <1>2, <2>2
  <2> QED BY <2>1, <2>3
<1>10. s \in [1 .. n -> S]
  BY <1>9 DEF Sorted
<1>11. s \in Seq(S) /\ Len(s) = n
  BY <1>1, <1>10
<1>12. \A i, j \in 1 .. n : s[i] = s[j] => i = j
  <2> TAKE i, j \in 1 .. n
  <2>1. Preceding(R, S, s[i]) = i - 1 /\ Preceding(R, S, s[j]) = j - 1
    BY <1>9
  <2> HIDE DEF s
  <2> QED BY <1>1, <2>1
<1>13. ASSUME NEW x \in S PROVE \E i \in 1 .. n : s[i] = x
  <2>1. f[x] \in 1 .. n /\ f[x] = Preceding(R, S, x) + 1
    BY <1>3
  <2>2. Preceding(R, S, s[f[x]]) = Preceding(R, S, x) /\ s[f[x]] \in S
    BY <1>1, <1>2, <1>9, <2>1
  <2>3. s[f[x]] = x
    BY <2>2, PrecedingDiffers
  <2> QED BY <2>1, <2>3
<1> QED BY <1>1, <1>11, <1>12, <1>13 DEF Enumerates

\* Each of a set of positions has one place among them.
LEMMA PositionOnce ==
  ASSUME NEW n \in Nat, NEW P \in SUBSET (1 .. n)
  PROVE  /\ Cardinality(P) \in Nat
         /\ \A k \in 1 .. Cardinality(P) : Position(P, k) \in P
         /\ \A i \in P : \E m \in 1 .. Cardinality(P) :
              \A k \in 1 .. Cardinality(P) : Position(P, k) = i <=> k = m
<1>1. /\ Cardinality(P) \in Nat
      /\ \A k \in 1 .. Cardinality(P) : Position(P, k) \in P
      /\ \A i \in P : \E k \in 1 .. Cardinality(P) : Position(P, k) = i
      /\ \A q, k \in 1 .. Cardinality(P) : q < k => Position(P, q) < Position(P, k)
  BY PositionProperties
<1>0. \A i \in P : i \in Nat
  OBVIOUS
<1>2. ASSUME NEW q \in 1 .. Cardinality(P), NEW k \in 1 .. Cardinality(P), q # k
      PROVE  Position(P, q) # Position(P, k)
  <2>1. Position(P, q) \in Nat /\ Position(P, k) \in Nat
    BY <1>0, <1>1
  <2>2. q < k \/ k < q
    BY <1>1, <1>2
  <2> QED BY <1>1, <2>1, <2>2
<1> QED BY <1>1, <1>2

-----------------------------------------------------------------------------
(* Sequences of more than one part *)

\* What stands where when one sequence follows another.
Follows(u, s, t) ==
  /\ Len(s) \in Nat /\ DOMAIN s = 1 .. Len(s)
  /\ DOMAIN u = 1 .. (Len(s) + Len(t))
  /\ \A i \in DOMAIN s : u[i] = s[i]
  /\ \A k \in 1 .. Len(t) : u[Len(s) + k] = t[k]

LEMMA Appended ==
  ASSUME NEW S, NEW s \in Seq(S), NEW t \in Seq(S)
  PROVE  s \o t \in Seq(S) /\ Follows(s \o t, s, t)
  BY DEF Follows

\* A function on 1 .. n is a sequence.
LEMMA SeqOfFunction ==
  ASSUME NEW S, NEW n \in Nat, NEW s \in [1 .. n -> S]
  PROVE  s \in Seq(S) /\ Len(s) = n
OBVIOUS

\* Where an element of two sequences, one after the other, comes from.
LEMMA FollowsFrom ==
  ASSUME NEW S, NEW s \in Seq(S), NEW t \in Seq(S), NEW i \in DOMAIN (s \o t)
  PROVE  \/ i \in DOMAIN s /\ (s \o t)[i] = s[i]
         \/ \E k \in DOMAIN t : i = Len(s) + k /\ (s \o t)[i] = t[k]
<1>1. /\ Len(s) \in Nat /\ Len(t) \in Nat /\ DOMAIN s = 1 .. Len(s) /\ DOMAIN t = 1 .. Len(t)
      /\ DOMAIN (s \o t) = 1 .. (Len(s) + Len(t))
      /\ (s \o t)[i] = IF i <= Len(s) THEN s[i] ELSE t[i - Len(s)]
  OBVIOUS
<1>2. CASE i <= Len(s)
  BY <1>1, <1>2
<1>3. CASE ~(i <= Len(s))
  <2>1. i - Len(s) \in DOMAIN t /\ i = Len(s) + (i - Len(s))
    BY <1>1, <1>3
  <2> QED BY <1>1, <1>3, <2>1
<1> QED BY <1>2, <1>3

\* What two sequences have, one after the other, is what either has.
Joins(u, s, t) ==
  /\ \A i \in DOMAIN u : \/ \E k \in DOMAIN s : u[i] = s[k]
                         \/ \E k \in DOMAIN t : u[i] = t[k]
  /\ \A k \in DOMAIN s : \E i \in DOMAIN u : u[i] = s[k]
  /\ \A k \in DOMAIN t : \E i \in DOMAIN u : u[i] = t[k]

LEMMA Joined ==
  ASSUME NEW S, NEW s \in Seq(S), NEW t \in Seq(S)
  PROVE  s \o t \in Seq(S) /\ Joins(s \o t, s, t)
<1>1. s \o t \in Seq(S) /\ Follows(s \o t, s, t) /\ Len(t) \in Nat /\ DOMAIN t = 1 .. Len(t)
  BY Appended
<1>2. \A i \in DOMAIN (s \o t) : \/ \E k \in DOMAIN s : (s \o t)[i] = s[k]
                                 \/ \E k \in DOMAIN t : (s \o t)[i] = t[k]
  BY FollowsFrom
<1>3. \A k \in DOMAIN s : \E i \in DOMAIN (s \o t) : (s \o t)[i] = s[k]
  BY <1>1 DEF Follows
<1>4. \A k \in DOMAIN t : Len(s) + k \in DOMAIN (s \o t) /\ (s \o t)[Len(s) + k] = t[k]
  BY <1>1 DEF Follows
<1> QED BY <1>1, <1>2, <1>3, <1>4 DEF Joins

\* What is picked of a sequence is what it has at the positions.
Picks(p, s, P) ==
  /\ \A i \in DOMAIN p : \E k \in P : p[i] = s[k]
  /\ \A k \in P : \E i \in DOMAIN p : p[i] = s[k]

LEMMA Picked ==
  ASSUME NEW S, NEW s \in Seq(S), NEW P \in SUBSET (1 .. Len(s))
  PROVE  Pick(s, P) \in Seq(S) /\ Picks(Pick(s, P), s, P)
<1>1. /\ Pick(s, P) \in Seq(S) /\ DOMAIN Pick(s, P) = 1 .. Cardinality(P)
      /\ \A k \in 1 .. Cardinality(P) :
           Enumeration(P)[k] \in P /\ Pick(s, P)[k] = s[Enumeration(P)[k]]
  BY PickProperties DEF Pick
<1>2. \A i \in P : \E k \in DOMAIN Pick(s, P) : Pick(s, P)[k] = s[i]
  BY PickKeeps
<1> QED BY <1>1, <1>2, Zenon DEF Picks

-----------------------------------------------------------------------------
(* Positions and their ranks *)

\* The k-th position is the one of rank k.
LEMMA PositionIs ==
  ASSUME NEW n \in Nat, NEW P \in SUBSET (1 .. n), NEW i \in P
  PROVE  Rank(P, i) \in 1 .. Cardinality(P) /\ Position(P, Rank(P, i)) = i
<1>1. Rank(P, i) \in 1 .. Cardinality(P)
  BY EnumerationProperties
<1>2. \A k \in P : Rank(P, k) = Rank(P, i) => k = i
  <2>1. SUFFICES ASSUME NEW k \in P, k # i PROVE Rank(P, k) # Rank(P, i)
    OBVIOUS
  <2>2. i \in Nat /\ k \in Nat
    OBVIOUS
  <2>0. Rank(P, i) \in Nat /\ Rank(P, k) \in Nat
    BY <2>2, RankIsNatural
  <2>3. CASE i < k
    <3>1. Rank(P, i) < Rank(P, k)
      BY <2>3, RankStrict
    <3> QED
      BY <3>1, <2>0
  <2>4. CASE k < i
    <3>1. Rank(P, k) < Rank(P, i)
      BY <2>4, RankStrict
    <3> QED
      BY <3>1, <2>0
  <2> QED
    BY <2>1, <2>2, <2>3, <2>4
<1> QED
  BY <1>1, <1>2 DEF Position, Rank

\* The position at a place has that place as its rank.
LEMMA PositionRank ==
  ASSUME NEW n \in Nat, NEW P \in SUBSET (1 .. n), NEW k \in 1 .. Cardinality(P)
  PROVE  Position(P, k) \in P /\ Rank(P, Position(P, k)) = k
<1>1. PICK i \in P : Rank(P, i) = k
  BY RankReached
<1> QED
  BY <1>1, PositionIs

\* Without the r-th of them, the k-th of positions is the same, or the next from r on.
LEMMA PositionWithout ==
  ASSUME NEW n \in Nat, NEW P \in SUBSET (1 .. n), NEW r \in 1 .. Cardinality(P)
  PROVE  /\ Cardinality(P) \in Nat
         /\ Cardinality(P \ {Position(P, r)}) = Cardinality(P) - 1
         /\ \A k \in 1 .. Cardinality(P) - 1 :
              Position(P \ {Position(P, r)}, k) = Position(P, IF k < r THEN k ELSE k + 1)
<1> DEFINE p == Position(P, r)
           Q == P \ {p}
<1>0. IsFiniteSet(P) /\ Cardinality(P) \in Nat /\ \A j \in P : j \in Nat
  <2>1. IsFiniteSet(1 .. n)
    BY FS_Interval
  <2>2. IsFiniteSet(P)
    BY <2>1, FS_Subset
  <2> QED
    BY <2>2, FS_CardinalityType
<1>1. p \in P /\ Rank(P, p) = r
  BY PositionRank
<1>2. Cardinality(Q) = Cardinality(P) - 1 /\ Q \in SUBSET (1 .. n)
  BY <1>0, <1>1, FS_RemoveElement
<1> HIDE DEF p
<1>3. ASSUME NEW i \in P, i # p
      PROVE  Rank(Q, i) = IF i < p THEN Rank(P, i) ELSE Rank(P, i) - 1
  <2>1. i \in Nat /\ p \in Nat
    BY <1>0, <1>1
  <2>4. IsFiniteSet({j \in P : j <= i})
    BY <2>1, RankIsNatural
  <2>2. CASE i < p
    <3>1. {j \in Q : j <= i} = {j \in P : j <= i}
      BY <1>0, <1>1, <2>1, <2>2
    <3> QED
      BY <3>1, <2>2 DEF Rank
  <2>3. CASE p < i
    <3>1. {j \in Q : j <= i} = {j \in P : j <= i} \ {p} /\ p \in {j \in P : j <= i}
      BY <1>0, <1>1, <2>1, <2>3
    <3>2. Cardinality({j \in P : j <= i} \ {p}) = Cardinality({j \in P : j <= i}) - 1
      BY <3>1, <2>4, FS_RemoveElement
    <3>3. ~(i < p)
      BY <2>1, <2>3
    <3> QED
      BY <3>1, <3>2, <3>3 DEF Rank
  <2> QED
    BY <1>3, <2>1, <2>2, <2>3
<1>4. ASSUME NEW k \in 1 .. Cardinality(P) - 1, NEW m, m = IF k < r THEN k ELSE k + 1
      PROVE  Position(Q, k) = Position(P, m)
  <2>1. m \in 1 .. Cardinality(P) /\ m # r
    BY <1>0, <1>4
  <2>2. PICK i \in P : Rank(P, i) = m
    BY <2>1, RankReached
  <2>3. Position(P, m) = i
    BY <2>2, PositionIs
  <2>4. i # p
    BY <1>1, <2>1, <2>2
  <2>5. i < p <=> k < r
    <3>1. p \in Nat /\ i \in Nat /\ r \in Nat /\ k \in Nat
      BY <1>0, <1>1
    <3>2. i < p => m < r
      BY <1>1, <2>2, RankStrict
    <3>3. p < i => r < m
      BY <1>1, <2>2, RankStrict
    <3> QED
      BY <3>1, <3>2, <3>3, <2>4, <1>4
  <2>6. Rank(Q, i) = k
    <3>1. Rank(Q, i) = IF i < p THEN m ELSE m - 1
      BY <1>3, <2>2, <2>4
    <3> QED
      BY <3>1, <2>5, <1>4
  <2>7. i \in Q
    BY <2>4
  <2> HIDE DEF Q
  <2> QED
    BY <2>3, <2>6, <2>7, <1>2, PositionIs
<1> QED
  BY <1>0, <1>2, <1>4 DEF p

\* All positions are at their own places.
LEMMA PositionOfAll ==
  ASSUME NEW n \in Nat, NEW k \in 1 .. n
  PROVE  Cardinality(1 .. n) = n /\ Position(1 .. n, k) = k
<1>1. {j \in 1 .. n : j <= k} = 1 .. k
  OBVIOUS
<1>2. Cardinality(1 .. k) = k /\ Cardinality(1 .. n) = n
  BY FS_Interval
<1>3. Rank(1 .. n, k) = k
  BY <1>1, <1>2 DEF Rank
<1>4. Position(1 .. n, Rank(1 .. n, k)) = k
  BY PositionIs
<1> QED
  BY <1>2, <1>3, <1>4


-----------------------------------------------------------------------------
(* Sequences that lose, get or change an element *)

\* The sequence s but for its r-th element.
Without(s, r) == [k \in 1 .. (Len(s) - 1) |-> s[IF k < r THEN k ELSE k + 1]]

\* A sequence is the function of its places.
LEMMA SeqIsFunction ==
  ASSUME NEW S, NEW s \in Seq(S), NEW t \in Seq(S)
  PROVE  /\ s \o t \in Seq(S) /\ DOMAIN (s \o t) = 1 .. Len(s) + Len(t)
         /\ s \o t = [k \in DOMAIN (s \o t) |-> (s \o t)[k]]
<1>1. s \o t \in Seq(S)
  OBVIOUS
<1> DEFINE u == s \o t
<1> HIDE DEF u
<1>3. u \in Seq(S)
  BY <1>1 DEF u
<1>4. u \in [1 .. Len(u) -> S]
  BY <1>3
<1>5. u = [k \in DOMAIN u |-> u[k]]
  BY <1>4
<1> QED
  BY <1>1, <1>5, Appended DEF Follows, u

\* Picking all but one of a sequence is leaving that one out.
LEMMA PickOfOthers ==
  ASSUME NEW S, NEW s \in Seq(S), NEW r \in 1 .. Len(s)
  PROVE  Pick(s, DOMAIN s \ {r}) = Without(s, r)
<1> DEFINE n == Len(s)
           P == 1 .. n
<1>1. n \in Nat /\ DOMAIN s = P
  OBVIOUS
<1>2. Cardinality(P) = n /\ \A k \in P : Position(P, k) = k
  BY <1>1, PositionOfAll, FS_Interval
<1> HIDE DEF P, n
<1>3. r \in P /\ P = 1 .. n
  BY DEF P, n
<1>4. /\ Cardinality(P \ {r}) = n - 1
      /\ \A k \in 1 .. n - 1 : Position(P \ {r}, k) = Position(P, IF k < r THEN k ELSE k + 1)
  <2>1. P \in SUBSET (1 .. n) /\ r \in 1 .. Cardinality(P)
    BY <1>2, <1>3
  <2>2. /\ Cardinality(P \ {Position(P, r)}) = Cardinality(P) - 1
        /\ \A k \in 1 .. Cardinality(P) - 1 :
             Position(P \ {Position(P, r)}, k) = Position(P, IF k < r THEN k ELSE k + 1)
    BY <1>1, <2>1, PositionWithout
  <2> QED
    BY <1>2, <1>3, <2>2
<1>5. \A k \in 1 .. n - 1 : (IF k < r THEN k ELSE k + 1) \in P
  BY <1>1, <1>3
<1>6. \A k \in 1 .. n - 1 : Position(P \ {r}, k) = IF k < r THEN k ELSE k + 1
  BY <1>2, <1>4, <1>5
<1> QED
  BY <1>1, <1>4, <1>6 DEF Pick, Without, n

\* Picking all of a sequence gives the sequence, picking none the empty one.
LEMMA PickAll ==
  ASSUME NEW S, NEW s \in Seq(S)
  PROVE  Pick(s, 1 .. Len(s)) = s /\ Pick(s, {}) = <<>>
<1>1. Len(s) \in Nat
  OBVIOUS
<1>2. Cardinality(1 .. Len(s)) = Len(s)
  <2>1. ASSUME NEW n \in Nat PROVE Cardinality(1 .. n) = n
    BY FS_Interval
  <2> QED
    BY <1>1, <2>1
<1>3. \A k \in 1 .. Len(s) : Position(1 .. Len(s), k) = k
  BY <1>1, PositionOfAll
<1>4. Pick(s, 1 .. Len(s)) = [k \in 1 .. Len(s) |-> s[k]]
  BY <1>2, <1>3 DEF Pick
<1>5. Pick(s, {}) = [k \in {} |-> s[Position({}, k)]]
  <2>1. Cardinality({}) = 0
    BY FS_EmptySet
  <2> QED
    BY <2>1 DEF Pick
<1> QED
  BY <1>4, <1>5

\* Without the position at a place, what is picked lacks the element at that place.
LEMMA PickOfFewer ==
  ASSUME NEW S, NEW s \in Seq(S), NEW R \in SUBSET (1 .. Len(s)), NEW r \in 1 .. Cardinality(R)
  PROVE  Pick(s, R \ {Position(R, r)}) = Without(Pick(s, R), r)
<1> DEFINE p == Position(R, r)
<1>1. /\ Cardinality(R) \in Nat
      /\ Cardinality(R \ {p}) = Cardinality(R) - 1
      /\ \A k \in 1 .. Cardinality(R) - 1 :
           Position(R \ {p}, k) = Position(R, IF k < r THEN k ELSE k + 1)
  <2>1. Len(s) \in Nat
    OBVIOUS
  <2> QED
    BY <2>1, PositionWithout
<1>2. Len(Pick(s, R)) = Cardinality(R)
  BY PickProperties
<1>3. \A k \in 1 .. Cardinality(R) - 1 :
        (IF k < r THEN k ELSE k + 1) \in 1 .. Cardinality(R)
  BY <1>1
<1> HIDE DEF p
<1>4. \A k \in 1 .. Cardinality(R) : Pick(s, R)[k] = s[Position(R, k)]
  BY DEF Pick
<1>5. \A k \in 1 .. Cardinality(R) - 1 :
        s[Position(R \ {p}, k)] = Pick(s, R)[IF k < r THEN k ELSE k + 1]
  BY <1>1, <1>3, <1>4
<1>6. Pick(s, R \ {p}) = [k \in 1 .. Cardinality(R) - 1 |-> s[Position(R \ {p}, k)]]
  BY <1>1 DEF Pick
<1>7. Without(Pick(s, R), r)
        = [k \in 1 .. Cardinality(R) - 1 |-> Pick(s, R)[IF k < r THEN k ELSE k + 1]]
  BY <1>2 DEF Without
<1> QED
  BY <1>5, <1>6, <1>7 DEF p

\* Of two sequences, one after the other, the first loses an element.
LosesOneOfFirst(u, t, r) == Without(u \o t, r) = Without(u, r) \o t

\* Leaving out an element of the first of two sequences.
LEMMA WithoutFirst ==
  ASSUME NEW S, NEW u \in Seq(S), NEW t \in Seq(S), NEW r \in 1 .. Len(u)
  PROVE  LosesOneOfFirst(u, t, r)
<1> DEFINE w == Without(u, r)
<1>1. w \in [1 .. Len(u) - 1 -> S] /\ Len(u) - 1 \in Nat
  BY DEF Without
<1>2. w \in Seq(S) /\ Len(w) = Len(u) - 1
  BY <1>1, SeqOfFunction
<1>3. Len(u \o t) = Len(u) + Len(t) /\ Len(t) \in Nat
  OBVIOUS
<1>4. \A k \in 1 .. Len(u) + Len(t) - 1 :
        (u \o t)[IF k < r THEN k ELSE k + 1]
          = IF k <= Len(u) - 1 THEN u[IF k < r THEN k ELSE k + 1] ELSE t[k - (Len(u) - 1)]
  OBVIOUS
<1>5. \A k \in 1 .. Len(u) - 1 : w[k] = u[IF k < r THEN k ELSE k + 1]
  BY DEF Without
<1> HIDE DEF w
<1>6. DOMAIN (w \o t) = 1 .. Len(u) + Len(t) - 1
  <2>1. DOMAIN (w \o t) = 1 .. (Len(u) - 1) + Len(t)
    BY <1>2, Appended DEF Follows
  <2> QED
    BY <1>1, <1>3, <2>1
<1>7. \A k \in 1 .. Len(u) + Len(t) - 1 :
        (w \o t)[k] = IF k <= Len(u) - 1 THEN w[k] ELSE t[k - (Len(u) - 1)]
  BY <1>2, <1>3
<1>8. \A k \in 1 .. Len(u) + Len(t) - 1 :
        (w \o t)[k] = (u \o t)[IF k < r THEN k ELSE k + 1]
  BY <1>4, <1>5, <1>7, <1>1
<1>9. Without(u \o t, r)
        = [k \in 1 .. Len(u) + Len(t) - 1 |-> (u \o t)[IF k < r THEN k ELSE k + 1]]
  BY <1>3 DEF Without
<1>10. w \o t = [k \in 1 .. Len(u) + Len(t) - 1 |-> (w \o t)[k]]
  <2>1. w \o t = [k \in DOMAIN (w \o t) |-> (w \o t)[k]]
    BY <1>2, SeqIsFunction
  <2> QED
    BY <1>6, <2>1
<1> QED
  BY <1>8, <1>9, <1>10 DEF w, LosesOneOfFirst

\* Replacing an element of the first of two sequences.
LEMMA UpdateFirst ==
  ASSUME NEW S, NEW u \in Seq(S), NEW t \in Seq(S), NEW r \in 1 .. Len(u), NEW v \in S
  PROVE  [u \o t EXCEPT ![r] = v] = [u EXCEPT ![r] = v] \o t
<1> DEFINE w == [u EXCEPT ![r] = v]
<1>1. w \in Seq(S) /\ Len(w) = Len(u)
  OBVIOUS
<1>2. \A k \in 1 .. Len(u) : w[k] = IF k = r THEN v ELSE u[k]
  OBVIOUS
<1> HIDE DEF w
<1>3. DOMAIN (w \o t) = 1 .. Len(u) + Len(t) /\ DOMAIN (u \o t) = 1 .. Len(u) + Len(t)
  <2>0. w \in Seq(S)
    BY <1>1
  <2>1. DOMAIN (w \o t) = 1 .. Len(w) + Len(t)
    BY <2>0, SeqIsFunction
  <2>2. DOMAIN (u \o t) = 1 .. Len(u) + Len(t)
    BY SeqIsFunction
  <2> QED
    BY <1>1, <2>1, <2>2
<1>6. w \o t = [k \in DOMAIN (w \o t) |-> (w \o t)[k]]
  BY <1>1, SeqIsFunction
<1>7. u \o t = [k \in DOMAIN (u \o t) |-> (u \o t)[k]]
  BY <1>1, SeqIsFunction
<1>4. \A k \in 1 .. Len(u) + Len(t) :
        (w \o t)[k] = IF k = r THEN v ELSE (u \o t)[k]
  BY <1>1, <1>2
<1>5. w \o t = [k \in 1 .. Len(u) + Len(t) |-> IF k = r THEN v ELSE (u \o t)[k]]
  BY <1>3, <1>4, <1>6
<1>8. [u \o t EXCEPT ![r] = v] = [k \in 1 .. Len(u) + Len(t) |-> IF k = r THEN v ELSE (u \o t)[k]]
  BY <1>3, <1>7
<1> QED
  BY <1>5, <1>8 DEF w

\* Of two sequences, one after the other, the second gets an element.
GrowsAtLast(u, t, v) == Append(u \o t, v) = u \o Append(t, v)

\* Appending to two sequences is appending to the second.
LEMMA AppendLast ==
  ASSUME NEW S, NEW u \in Seq(S), NEW t \in Seq(S), NEW v \in S
  PROVE  GrowsAtLast(u, t, v)
BY DEF GrowsAtLast

\* A position after all others adds its element at the end.
LEMMA PickOfMore ==
  ASSUME NEW S, NEW s \in Seq(S), NEW P \in SUBSET (1 .. Len(s)), NEW p \in 1 .. Len(s),
         \A i \in P : i < p
  PROVE  Pick(s, P \cup {p}) = Append(Pick(s, P), s[p])
<1> DEFINE Q == P \cup {p}
           c == Cardinality(P)
<1>0. Len(s) \in Nat /\ \A i \in P : i \in Nat /\ i < p
  OBVIOUS
<1>15. p \in Nat /\ Q \in SUBSET (1 .. Len(s)) /\ p \in Q /\ p \notin P
  BY <1>0
<1>1. IsFiniteSet(P) /\ c \in Nat
  <2>1. IsFiniteSet(1 .. Len(s))
    BY <1>0, FS_Interval
  <2>2. IsFiniteSet(P)
    BY <2>1, FS_Subset
  <2> QED
    BY <2>2, FS_CardinalityType
<1>2. Cardinality(Q) = c + 1 /\ c + 1 \in 1 .. Cardinality(Q)
  <2>1. Cardinality(Q) = c + 1
    BY <1>1, <1>15, FS_AddElement
  <2> QED
    BY <2>1, <1>1
<1>3. {j \in Q : j <= p} = Q
  <2>1. \A j \in Q : j <= p
    BY <1>0, <1>15
  <2> QED
    BY <2>1
<1>4. Rank(Q, p) = c + 1
  BY <1>2, <1>3 DEF Rank
<1>5. Position(Q, c + 1) = p
  <2> HIDE DEF Q
  <2>1. Position(Q, Rank(Q, p)) = p
    BY <1>0, <1>15, PositionIs
  <2> QED
    BY <1>4, <2>1
<1> HIDE DEF Q, c
<1>6. Q \ {p} = P
  BY <1>15 DEF Q
<1>7. \A k \in 1 .. c : Position(P, k) = Position(Q, IF k < c + 1 THEN k ELSE k + 1)
  <2>1. \A k \in 1 .. Cardinality(Q) - 1 :
          Position(Q \ {Position(Q, c + 1)}, k) = Position(Q, IF k < c + 1 THEN k ELSE k + 1)
    BY <1>0, <1>2, <1>15, PositionWithout
  <2>2. Cardinality(Q) - 1 = c
    BY <1>1, <1>2
  <2> QED
    BY <1>5, <1>6, <2>1, <2>2
<1>8. \A k \in 1 .. c : Position(P, k) = Position(Q, k)
  BY <1>1, <1>7
<1>9. Pick(s, P) \in Seq(S) /\ Len(Pick(s, P)) = c
  BY PickProperties DEF c
<1>10. /\ DOMAIN Append(Pick(s, P), s[p]) = 1 .. c + 1
       /\ \A k \in 1 .. c : Append(Pick(s, P), s[p])[k] = Pick(s, P)[k]
       /\ Append(Pick(s, P), s[p])[c + 1] = s[p]
  BY <1>9, <1>1
<1>11. \A k \in 1 .. c : Pick(s, P)[k] = s[Position(P, k)]
  BY DEF Pick, c
<1>12. \A k \in 1 .. c + 1 : Append(Pick(s, P), s[p])[k] = s[Position(Q, k)]
  BY <1>1, <1>5, <1>8, <1>10, <1>11
<1>13. Pick(s, Q) = [k \in 1 .. c + 1 |-> s[Position(Q, k)]]
  BY <1>2 DEF Pick
<1>14. Append(Pick(s, P), s[p]) = [k \in 1 .. c + 1 |-> Append(Pick(s, P), s[p])[k]]
  BY <1>9, <1>10
<1> QED
  BY <1>12, <1>13, <1>14 DEF Q

\* What a function has on a finite set is finite.
LEMMA FiniteImage ==
  ASSUME NEW T, IsFiniteSet(T), NEW f, f = [i \in T |-> f[i]]
  PROVE  IsFiniteSet({f[i] : i \in T})
<1> DEFINE R == {f[i] : i \in T}
<1>1. f \in [T -> R] /\ \A x \in R : \E i \in T : f[i] = x
  OBVIOUS
<1> HIDE DEF R
<1>2. f \in Surjection(T, R)
  BY <1>1 DEF Surjection
<1>3. IsFiniteSet(R)
  BY <1>2, FS_Surjection
<1> QED
  BY <1>3 DEF R

=============================================================================
