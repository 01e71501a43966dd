---------------------------- MODULE DesignProofs ----------------------------
(***************************************************************************)
(* What becomes of an ERD.  It is drawn whole and once: what sorting,      *)
(* cutting and merging do to the tables, and the invariant that follows    *)
(* them from the components of the relations to the files.  And the        *)
(* database design made of it, or of an older design, keeps its tables,    *)
(* columns and keys: what normalisation and the merges of a model's answer *)
(* keep of a sequence of tables, and the invariant that follows them to    *)
(* the validator.  And a repair of an ERD stays in its scope: what the     *)
(* steps of the ERD agent leave of a document, loop by loop, and the       *)
(* invariant that the validator finds every key there could be.            *)
(***************************************************************************)
EXTENDS ErdGrouping, ErdDesign, DbDesign, NaturalLemmas

-----------------------------------------------------------------------------
(* Pieces of a sequence *)

LEMMA Quotient ==
  ASSUME NEW a \in Nat, NEW b \in Nat \ {0}
  PROVE  a \div b \in Nat /\ (a \div b) * b <= a /\ a < (a \div b) * b + b
OBVIOUS

LEMMA ProductMonotone ==
  ASSUME NEW m \in Nat, NEW n \in Nat, NEW b \in Nat, m <= n
  PROVE  m * b <= n * b /\ m * b \in Nat /\ n * b \in Nat
OBVIOUS

\* No element twice.
Injective(s) == \A i, j \in 1 .. Len(s) : s[i] = s[j] => i = j

LEMMA TablesOfSeq ==
  ASSUME NEW S, NEW s \in Seq(S)
  PROVE  /\ TablesOf(s) \subseteq S
         /\ \A i \in 1 .. Len(s) : s[i] \in TablesOf(s)
         /\ \A x \in TablesOf(s) : \E i \in 1 .. Len(s) : x = s[i]
<1>1. DOMAIN s = 1 .. Len(s) /\ \A i \in 1 .. Len(s) : s[i] \in S
  BY ElementOfSeq
<1> QED BY <1>1 DEF TablesOf

\* The k-th piece of s has the elements after the first (k - 1) * size.
LEMMA PieceOf ==
  ASSUME NEW S, NEW s \in Seq(S), NEW size \in Nat \ {0}, NEW k \in DOMAIN Pieces(s, size)
  PROVE  /\ k \in Nat \ {0} /\ (k - 1) * size \in Nat
         /\ Pieces(s, size)[k] \in Seq(S)
         /\ Len(Pieces(s, size)[k]) \in 1 .. size
         /\ \A j \in 1 .. Len(Pieces(s, size)[k]) :
              /\ (k - 1) * size + j \in 1 .. Len(s)
              /\ Pieces(s, size)[k][j] = s[(k - 1) * size + j]
<1> DEFINE n == (Len(s) + size - 1) \div size
           m == (k - 1) * size
           l == IF k * size <= Len(s) THEN k * size ELSE Len(s)
           p == Pieces(s, size)[k]
<1>1. Len(s) \in Nat /\ Len(s) + size - 1 \in Nat
  OBVIOUS
<1>2. n \in Nat /\ n * size <= Len(s) + size - 1
  <2> HIDE DEF n
  <2>1. (Len(s) + size - 1) \div size = n
    BY DEF n
  <2> QED BY <1>1, <2>1, Quotient
<1>3. k \in 1 .. n /\ p = SubSeq(s, m + 1, l)
  BY DEF Pieces
<1> HIDE DEF n
<1>4. k \in Nat \ {0} /\ k - 1 \in Nat /\ k * size = m + size /\ m \in Nat
  <2>1. k \in Nat \ {0} /\ k - 1 \in Nat
    BY <1>2, <1>3
  <2>2. (k - 1) * size \in Nat /\ (k - 1) * size + size = k * size
    BY <2>1
  <2> QED BY <2>1, <2>2
<1>5. k * size <= n * size /\ n * size \in Nat
  BY <1>2, <1>3, <1>4, ProductMonotone
<1> HIDE DEF m
<1>6. m + 1 <= Len(s) /\ l \in Nat /\ m + 1 <= l /\ l <= Len(s) /\ l <= m + size
  BY <1>1, <1>2, <1>4, <1>5
<1> HIDE DEF l
<1>7. \A i \in m + 1 .. l : i \in 1 .. Len(s)
  BY <1>1, <1>4, <1>6
<1>8. \A i \in m + 1 .. l : s[i] \in S
  BY <1>7, ElementOfSeq
<1>9. m + 1 \in Int /\ l \in Int
  BY <1>4, <1>6
<1>10. /\ p \in Seq(S) /\ Len(p) = l - m
       /\ \A j \in 1 .. l - m : p[j] = s[m + j]
  <2>1. /\ p \in Seq(S)
        /\ Len(p) = IF m + 1 <= l THEN l - (m + 1) + 1 ELSE 0
        /\ \A i \in 1 .. l - (m + 1) + 1 : p[i] = s[m + 1 + i - 1]
    BY <1>3, <1>8, <1>9, SubSeqProperties
  <2>2. l - (m + 1) + 1 = l - m
    BY <1>4, <1>6
  <2>3. \A j \in 1 .. l - m : m + 1 + j - 1 = m + j
    BY <1>4
  <2>4. Len(p) = l - m
    BY <1>6, <2>1, <2>2
  <2>5. \A j \in 1 .. l - m : p[j] = s[m + 1 + j - 1]
    BY <2>1, <2>2
  <2> QED BY <2>1, <2>3, <2>4, <2>5
<1>11. l - m \in 1 .. size
  BY <1>4, <1>6
<1>12. \A j \in 1 .. l - m : m + j \in 1 .. Len(s)
  BY <1>4, <1>6, <1>7
<1> QED BY <1>4, <1>10, <1>11, <1>12 DEF m

\* Every position is in one piece.
LEMMA PieceWith ==
  ASSUME NEW S, NEW s \in Seq(S), NEW size \in Nat \ {0}, NEW i \in 1 .. Len(s)
  PROVE  \E k \in DOMAIN Pieces(s, size) :
           \E j \in 1 .. Len(Pieces(s, size)[k]) : Pieces(s, size)[k][j] = s[i]
<1> DEFINE n == (Len(s) + size - 1) \div size
           q == (i - 1) \div size
           k == q + 1
           l == IF k * size <= Len(s) THEN k * size ELSE Len(s)
           p == Pieces(s, size)[k]
<1>1. Len(s) \in Nat /\ Len(s) + size - 1 \in Nat /\ i - 1 \in Nat /\ i <= Len(s)
  OBVIOUS
<1>2. n \in Nat /\ Len(s) + size - 1 < n * size + size
  <2> HIDE DEF n
  <2>1. (Len(s) + size - 1) \div size = n
    BY DEF n
  <2> QED BY <1>1, <2>1, Quotient
<1>3. q \in Nat /\ q * size <= i - 1 /\ i - 1 < q * size + size
  <2> HIDE DEF q
  <2>1. (i - 1) \div size = q
    BY DEF q
  <2> QED BY <1>1, <2>1, Quotient
<1>4. DOMAIN Pieces(s, size) = 1 .. n
  BY DEF Pieces
<1> HIDE DEF n, q
<1>5. q < n
  <2> SUFFICES ASSUME n <= q PROVE FALSE
    BY <1>2, <1>3
  <2>1. n * size <= q * size /\ n * size \in Nat /\ q * size \in Nat
    BY <1>2, <1>3, ProductMonotone
  <2> QED BY <1>1, <1>2, <1>3, <2>1
<1>6. k \in 1 .. n /\ k - 1 = q /\ k \in DOMAIN Pieces(s, size)
  BY <1>2, <1>3, <1>4, <1>5
<1>7. p = SubSeq(s, q * size + 1, l)
  BY <1>6, <1>4 DEF Pieces, n
<1>8. q * size \in Nat /\ k * size = q * size + size
  BY <1>3
<1> DEFINE j == i - q * size
<1>9. j \in 1 .. Len(p)
  <2>1. Len(p) = l - q * size
    <3>1. l \in Int /\ q * size + 1 \in Int /\ q * size + 1 <= l /\ l <= Len(s)
      BY <1>1, <1>3, <1>8
    <3> HIDE DEF l
    <3>2. \A x \in q * size + 1 .. l : s[x] \in S
      <4>1. \A x \in q * size + 1 .. l : x \in 1 .. Len(s)
        BY <1>1, <1>8, <3>1
      <4> QED BY <4>1, ElementOfSeq
    <3>3. Len(p) = IF q * size + 1 <= l THEN l - (q * size + 1) + 1 ELSE 0
      BY <1>7, <3>1, <3>2, SubSeqProperties
    <3> QED BY <1>8, <3>1, <3>3
  <2>2. i <= l
    BY <1>1, <1>3, <1>8
  <2>3. l \in Int
    BY <1>1, <1>8
  <2> HIDE DEF l
  <2> QED BY <1>1, <1>3, <1>8, <2>1, <2>2, <2>3
<1>10. p[j] = s[(k - 1) * size + j]
  <2> HIDE DEF j, k, l, p
  <2>1. p = Pieces(s, size)[k]
    BY DEF p
  <2>2. k \in DOMAIN Pieces(s, size) /\ j \in 1 .. Len(Pieces(s, size)[k])
    BY <1>6, <1>9, <2>1
  <2>3. \A x \in 1 .. Len(Pieces(s, size)[k]) : Pieces(s, size)[k][x] = s[(k - 1) * size + x]
    BY <2>2, PieceOf
  <2> QED BY <2>1, <2>2, <2>3
<1>11. (k - 1) * size + j = i
  BY <1>6, <1>8
<1> QED BY <1>6, <1>9, <1>10, <1>11

\* Nothing is in two.
LEMMA PiecesApart ==
  ASSUME NEW S, NEW s \in Seq(S), NEW size \in Nat \ {0}, Injective(s),
         NEW k \in DOMAIN Pieces(s, size), NEW h \in DOMAIN Pieces(s, size),
         NEW i \in 1 .. Len(Pieces(s, size)[k]), NEW j \in 1 .. Len(Pieces(s, size)[h]),
         Pieces(s, size)[k][i] = Pieces(s, size)[h][j]
  PROVE  k = h /\ i = j
<1>1. /\ k \in Nat \ {0} /\ (k - 1) * size \in Nat
      /\ Len(Pieces(s, size)[k]) \in 1 .. size
      /\ (k - 1) * size + i \in 1 .. Len(s)
      /\ Pieces(s, size)[k][i] = s[(k - 1) * size + i]
  BY PieceOf
<1>2. /\ h \in Nat \ {0} /\ (h - 1) * size \in Nat
      /\ Len(Pieces(s, size)[h]) \in 1 .. size
      /\ (h - 1) * size + j \in 1 .. Len(s)
      /\ Pieces(s, size)[h][j] = s[(h - 1) * size + j]
  BY PieceOf
<1>3. (k - 1) * size + i = (h - 1) * size + j
  BY <1>1, <1>2 DEF Injective
<1>4. i \in 1 .. size /\ j \in 1 .. size
  <2>1. \A l \in 1 .. size : \A x \in 1 .. l : x \in 1 .. size
    OBVIOUS
  <2> QED BY <1>1, <1>2, <2>1
<1>5. ASSUME NEW u \in Nat \ {0}, NEW v \in Nat \ {0}, u < v
      PROVE  (u - 1) * size + size <= (v - 1) * size
  <2>1. u \in Nat /\ v - 1 \in Nat /\ u <= v - 1
    BY <1>5
  <2>2. u * size <= (v - 1) * size
    BY <2>1, ProductMonotone
  <2>3. (u - 1) * size + size = u * size
    OBVIOUS
  <2> QED BY <2>2, <2>3
<1>6. ~(k < h)
  <2> SUFFICES ASSUME k < h PROVE FALSE
    OBVIOUS
  <2>1. (k - 1) * size + size <= (h - 1) * size
    BY <1>1, <1>2, <1>5
  <2> DEFINE u == (k - 1) * size
             v == (h - 1) * size
  <2>2. u \in Nat /\ v \in Nat /\ u + i = v + j
    BY <1>1, <1>2, <1>3
  <2> HIDE DEF u, v
  <2>3. u + size <= v
    BY <2>1 DEF u, v
  <2> QED BY <1>4, <2>2, <2>3
<1>7. ~(h < k)
  <2> SUFFICES ASSUME h < k PROVE FALSE
    OBVIOUS
  <2>1. (h - 1) * size + size <= (k - 1) * size
    BY <1>1, <1>2, <1>5
  <2> DEFINE u == (k - 1) * size
             v == (h - 1) * size
  <2>2. u \in Nat /\ v \in Nat /\ u + i = v + j
    BY <1>1, <1>2, <1>3
  <2> HIDE DEF u, v
  <2>3. v + size <= u
    BY <2>1 DEF u, v
  <2> QED BY <1>4, <2>2, <2>3
<1>8. k = h
  BY <1>1, <1>2, <1>6, <1>7
<1> QED BY <1>1, <1>3, <1>4, <1>8

-----------------------------------------------------------------------------
(* Orders of tables *)

\* The domains and scores are numbers.
Sortable == \A t \in AllTables : Domain(t) \in Int /\ Weight(t) \in Int

LEMMA TablesAreFinite ==
  /\ IsFiniteSet(AllTables)
  /\ \A S \in SUBSET AllTables : IsFiniteSet(S) /\ Cardinality(S) \in Nat
<1>1. IsFiniteSet(AllTables)
  BY DrawingAssumption, FS_Interval DEF AllTables
<1> QED BY <1>1, FS_Subset, FS_CardinalityType

LEMMA ScoresOrder ==
  ASSUME Sortable
  PROVE  Orders(ByScore, AllTables) /\ Orders(ByImportance, AllTables)
<1>1. \A t \in AllTables : t \in Int /\ Weight(t) \in Int
  BY DrawingAssumption DEF Sortable, AllTables
<1>2. \A x, y \in AllTables :
        <<x, y>> \in ByScore <=> Weight(x) > Weight(y) \/ (Weight(x) = Weight(y) /\ x < y)
  BY DEF ByScore, TablePairs
<1>3. \A x, y \in AllTables :
        <<x, y>> \in ByImportance <=> Weight(x) > Weight(y) \/ (Weight(x) = Weight(y) /\ x > y)
  BY DEF ByImportance, TablePairs
<1>4. Orders(ByScore, AllTables)
  BY <1>1, <1>2 DEF Orders
<1>5. Orders(ByImportance, AllTables)
  BY <1>1, <1>3 DEF Orders
<1> QED BY <1>4, <1>5

LEMMA DomainsOrder ==
  ASSUME Sortable
  PROVE  Orders(ByDomain, AllTables)
<1>1. \A t \in AllTables : Domain(t) \in Int
  BY DEF Sortable
<1>2. /\ \A x \in AllTables : <<x, x>> \notin ByScore
      /\ \A x, y \in AllTables : x # y => <<x, y>> \in ByScore \/ <<y, x>> \in ByScore
      /\ \A x, y, z \in AllTables :
           <<x, y>> \in ByScore /\ <<y, z>> \in ByScore => <<x, z>> \in ByScore
  <2>1. Orders(ByScore, AllTables)
    BY ScoresOrder
  <2> QED BY <2>1 DEF Orders
<1>3. \A x, y \in AllTables :
        <<x, y>> \in ByDomain
          <=> Domain(x) < Domain(y) \/ (Domain(x) = Domain(y) /\ <<x, y>> \in ByScore)
  BY DEF ByDomain, TablePairs
<1>4. \A x \in AllTables : <<x, x>> \notin ByDomain
  <2> TAKE x \in AllTables
  <2>1. Domain(x) \in Int /\ <<x, x>> \notin ByScore
    BY <1>1, <1>2
  <2>2. ~(Domain(x) < Domain(x))
    BY <2>1
  <2> QED BY <1>3, <2>1, <2>2
<1>5. \A x, y \in AllTables : x # y => <<x, y>> \in ByDomain \/ <<y, x>> \in ByDomain
  <2> TAKE x, y \in AllTables
  <2> HAVE x # y
  <2>1. <<x, y>> \in ByScore \/ <<y, x>> \in ByScore
    BY <1>2
  <2>2. Domain(x) < Domain(y) \/ Domain(y) < Domain(x) \/ Domain(x) = Domain(y)
    <3>1. Domain(x) \in Int /\ Domain(y) \in Int
      BY <1>1
    <3> QED BY <3>1
  <2> QED BY <1>3, <2>1, <2>2
<1>6. \A x, y, z \in AllTables :
        <<x, y>> \in ByDomain /\ <<y, z>> \in ByDomain => <<x, z>> \in ByDomain
  BY <1>1, <1>2, <1>3
<1> QED BY <1>4, <1>5, <1>6 DEF Orders

LEMMA SortedTables ==
  ASSUME Sortable, NEW C \in SUBSET AllTables
  PROVE  /\ Enumerates(Sorted(C, ByScore), C)
         /\ Enumerates(Sorted(C, ByImportance), C)
         /\ Enumerates(Sorted(C, ByDomain), C)
<1>1. \A R : Orders(R, AllTables) => Orders(R, C)
  BY DEF Orders
<1>2. IsFiniteSet(C)
  BY TablesAreFinite
<1>3. \A R : Orders(R, AllTables) => Enumerates(Sorted(C, R), C)
  BY <1>1, <1>2, SortedEnumerates
<1> QED BY <1>3, ScoresOrder, DomainsOrder

-----------------------------------------------------------------------------
(* Groups that part a set of tables *)

Fits(g) == g \in Seq(AllTables) /\ Len(g) \in 1 .. MaxTables /\ Injective(g)

Disjoint(g, h) == TablesOf(g) \cap TablesOf(h) = {}

\* Every table of C is in one group of G, which has no others.
Parted(G, C) ==
  /\ \A g \in G : Fits(g) /\ TablesOf(g) \subseteq C
  /\ \A g, h \in G : g # h => Disjoint(g, h)
  /\ \A t \in C : \E g \in G : t \in TablesOf(g)

LEMMA EnumeratedTables ==
  ASSUME NEW C, NEW s, Enumerates(s, C)
  PROVE  s \in Seq(C) /\ Injective(s) /\ TablesOf(s) = C /\ Len(s) = Cardinality(C)
<1>1. s \in Seq(C) /\ Injective(s) /\ Len(s) = Cardinality(C)
  BY DEF Enumerates, Injective
<1>2. TablesOf(s) = C
  <2>1. \A x \in C : \E i \in 1 .. Len(s) : s[i] = x
    BY DEF Enumerates
  <2>2. /\ TablesOf(s) \subseteq C
        /\ \A i \in 1 .. Len(s) : s[i] \in TablesOf(s)
    BY <1>1, TablesOfSeq
  <2>3. C \subseteq TablesOf(s)
    BY <2>1, <2>2
  <2> QED BY <2>2, <2>3
<1> QED BY <1>1, <1>2

LEMMA OneGroup ==
  ASSUME NEW C \in SUBSET AllTables, C # {}, Cardinality(C) <= MaxTables,
         NEW s, Enumerates(s, C)
  PROVE  Fits(s) /\ TablesOf(s) = C /\ Parted({s}, C)
<1>1. s \in Seq(C) /\ Injective(s) /\ TablesOf(s) = C /\ Len(s) = Cardinality(C)
  BY EnumeratedTables
<1>2. s \in Seq(AllTables)
  BY <1>1, SeqMonotonic
<1>3. Cardinality(C) \in 1 .. MaxTables
  <2>1. IsFiniteSet(C) /\ Cardinality(C) \in Nat
    BY TablesAreFinite
  <2>2. Cardinality(C) # 0
    BY <2>1, FS_EmptySet
  <2> QED BY <2>1, <2>2, DrawingAssumption
<1>4. Fits(s)
  BY <1>1, <1>2, <1>3 DEF Fits
<1> QED BY <1>1, <1>4 DEF Parted

\* The sequences of p have the tables of C, at most size each and no table twice.
Cuts(p, C, size) ==
  /\ p \in Seq(Seq(AllTables))
  /\ \A k \in DOMAIN p :
       Len(p[k]) \in 1 .. size /\ Injective(p[k]) /\ TablesOf(p[k]) \subseteq C
  /\ \A k, h \in DOMAIN p : k # h => Disjoint(p[k], p[h])
  /\ \A t \in C : \E k \in DOMAIN p : t \in TablesOf(p[k])

LEMMA PiecesOfTables ==
  ASSUME NEW C \in SUBSET AllTables, NEW s, Enumerates(s, C), NEW size \in Nat \ {0}
  PROVE  Cuts(Pieces(s, size), C, size)
<1> DEFINE p == Pieces(s, size)
<1>1. s \in Seq(C) /\ Injective(s) /\ TablesOf(s) = C
  BY EnumeratedTables
<1>2. \A k \in DOMAIN p : p[k] \in Seq(C) /\ Len(p[k]) \in 1 .. size
  BY <1>1, PieceOf
<1>3. \A k, h \in DOMAIN p : \A i \in 1 .. Len(p[k]), j \in 1 .. Len(p[h]) :
        p[k][i] = p[h][j] => k = h /\ i = j
  BY <1>1, PiecesApart
<1>4. \A i \in 1 .. Len(s) : \E k \in DOMAIN p : \E j \in 1 .. Len(p[k]) : p[k][j] = s[i]
  BY <1>1, PieceWith
<1>5. \E n \in Nat : p \in [1 .. n -> Seq(AllTables)]
  <2> DEFINE n == (Len(s) + size - 1) \div size
  <2>1. Len(s) + size - 1 \in Nat
    BY <1>1
  <2>2. n \in Nat
    BY <2>1, Quotient
  <2>3. DOMAIN p = 1 .. n /\ p = [k \in 1 .. n |-> p[k]]
    BY DEF Pieces
  <2> HIDE DEF n, p
  <2>4. \A k \in 1 .. n : p[k] \in Seq(AllTables)
    BY <1>2, <2>3, SeqMonotonic
  <2> QED BY <2>2, <2>3, <2>4
<1> HIDE DEF p
<1>6. p \in Seq(Seq(AllTables))
  BY <1>5
<1>7. \A k \in DOMAIN p : Injective(p[k]) /\ TablesOf(p[k]) \subseteq C
  <2> TAKE k \in DOMAIN p
  <2>1. Injective(p[k])
    BY <1>3 DEF Injective
  <2>2. TablesOf(p[k]) \subseteq C
    BY <1>2, TablesOfSeq
  <2> QED BY <2>1, <2>2
<1>8. \A k, h \in DOMAIN p : k # h => Disjoint(p[k], p[h])
  <2> TAKE k, h \in DOMAIN p
  <2>1. /\ \A x \in TablesOf(p[k]) : \E i \in 1 .. Len(p[k]) : x = p[k][i]
        /\ \A x \in TablesOf(p[h]) : \E i \in 1 .. Len(p[h]) : x = p[h][i]
    BY <1>2, TablesOfSeq
  <2> QED BY <1>3, <2>1 DEF Disjoint
<1>9. ASSUME NEW t \in C PROVE \E k \in DOMAIN p : t \in TablesOf(p[k])
  <2>1. PICK i \in 1 .. Len(s) : t = s[i]
    BY <1>1, TablesOfSeq
  <2>2. PICK k \in DOMAIN p : \E j \in 1 .. Len(p[k]) : p[k][j] = t
    BY <1>4, <2>1
  <2>3. t \in TablesOf(p[k])
    BY <1>2, <2>2, TablesOfSeq
  <2> QED BY <2>3
<1>10. Cuts(p, C, size)
  BY <1>2, <1>6, <1>7, <1>8, <1>9 DEF Cuts
<1> QED BY <1>10 DEF p

LEMMA PiecesPart ==
  ASSUME NEW C \in SUBSET AllTables, NEW s, Enumerates(s, C)
  PROVE  Parted(TablesOf(Pieces(s, MaxTables)), C)
<1> DEFINE p == Pieces(s, MaxTables)
<1>1. MaxTables \in Nat \ {0}
  BY DrawingAssumption
<1>2. Cuts(p, C, MaxTables)
  BY <1>1, PiecesOfTables
<1> HIDE DEF p
<1>3. \A k \in DOMAIN p : p[k] \in Seq(AllTables)
  BY <1>2, ElementOfSeq DEF Cuts
<1>4. /\ \A g \in TablesOf(p) : \E k \in DOMAIN p : g = p[k]
      /\ \A k \in DOMAIN p : p[k] \in TablesOf(p)
  BY DEF TablesOf
<1>5. Parted(TablesOf(p), C)
  BY <1>2, <1>3, <1>4 DEF Parted, Fits, Cuts
<1> QED BY <1>5 DEF p

Together(F, D) == UNION {F[d] : d \in D}

\* Groups that part sets without a table in common part all of their tables.
LEMMA PartedTogether ==
  ASSUME NEW D, NEW G, NEW C,
         \A d \in D : Parted(G[d], C[d]),
         \A d, e \in D : d # e => C[d] \cap C[e] = {}
  PROVE  Parted(Together(G, D), Together(C, D))
<1> DEFINE A == UNION {G[d] : d \in D}
           B == UNION {C[d] : d \in D}
<1>1. /\ \A g \in A : \E d \in D : g \in G[d]
      /\ \A d \in D : \A g \in G[d] : g \in A
      /\ \A t \in B : \E d \in D : t \in C[d]
      /\ \A d \in D : \A t \in C[d] : t \in B
  OBVIOUS
<1> HIDE DEF A, B
<1>2. \A g \in A : Fits(g) /\ TablesOf(g) \subseteq B
  BY <1>1 DEF Parted
<1>3. ASSUME NEW g \in A, NEW h \in A, g # h PROVE Disjoint(g, h)
  <2>1. PICK d \in D : g \in G[d]
    BY <1>1
  <2>2. PICK e \in D : h \in G[e]
    BY <1>1
  <2>3. CASE d = e
    BY <1>3, <2>1, <2>2, <2>3 DEF Parted
  <2>4. CASE d # e
    <3>1. TablesOf(g) \subseteq C[d] /\ TablesOf(h) \subseteq C[e]
      BY <2>1, <2>2 DEF Parted
    <3> QED BY <2>4, <3>1 DEF Disjoint
  <2> QED BY <2>3, <2>4
<1>4. ASSUME NEW t \in B PROVE \E g \in A : t \in TablesOf(g)
  <2>1. PICK d \in D : t \in C[d]
    BY <1>1
  <2>2. PICK g \in G[d] : t \in TablesOf(g)
    BY <2>1 DEF Parted
  <2> QED BY <1>1, <2>2
<1>5. Parted(A, B)
  BY <1>2, <1>3, <1>4 DEF Parted
<1> QED BY <1>5 DEF A, B, Together

LEMMA SplitDomainParts ==
  ASSUME Sortable, NEW S \in SUBSET AllTables, S # {}
  PROVE  Parted(SplitDomain(S), S)
<1>1. /\ Enumerates(Sorted(S, ByScore), S)
      /\ Enumerates(Sorted(S, ByImportance), S)
  BY SortedTables
<1>2. CASE Cardinality(S) <= MaxTables
  BY <1>1, <1>2, OneGroup DEF SplitDomain
<1>3. CASE ~(Cardinality(S) <= MaxTables)
  BY <1>1, <1>3, PiecesPart DEF SplitDomain
<1> QED BY <1>2, <1>3

\* A component is parted into groups, into one if it has no more tables than one may.
LEMMA SplitParts ==
  ASSUME Sortable, NEW C \in SUBSET AllTables, C # {}
  PROVE  /\ Parted(Split(C), C)
         /\ Cardinality(C) <= MaxTables => \E g \in Split(C) : TablesOf(g) = C
<1>1. CASE Cardinality(C) <= MaxTables
  <2>1. Enumerates(Sorted(C, ByScore), C)
    BY SortedTables
  <2>2. TablesOf(Sorted(C, ByScore)) = C /\ Parted({Sorted(C, ByScore)}, C)
    BY <1>1, <2>1, OneGroup
  <2> QED BY <1>1, <2>2 DEF Split
<1>2. CASE ~(Cardinality(C) <= MaxTables)
  <2> DEFINE D == {Domain(t) : t \in C}
             I == [d \in D |-> InDomain(C, d)]
             G == [d \in D |-> SplitDomain(InDomain(C, d))]
  <2>1. \A d \in D : InDomain(C, d) \in SUBSET AllTables /\ InDomain(C, d) # {}
    BY DEF InDomain
  <2>2. \A d \in D : Parted(G[d], I[d])
    BY <2>1, SplitDomainParts
  <2>3. \A d, e \in D : d # e => I[d] \cap I[e] = {}
    BY DEF InDomain
  <2>4. Together(I, D) = C
    <3>1. \A d \in D : I[d] \subseteq C
      BY DEF InDomain
    <3>2. \A t \in C : Domain(t) \in D /\ t \in I[Domain(t)]
      BY DEF InDomain
    <3> HIDE DEF D, I
    <3> QED BY <3>1, <3>2 DEF Together
  <2>5. Together(G, D) = Split(C)
    BY <1>2 DEF Split, Together
  <2> HIDE DEF D, I, G
  <2>6. Parted(Together(G, D), Together(I, D))
    BY <2>2, <2>3, PartedTogether, Zenon
  <2> QED BY <1>2, <2>4, <2>5, <2>6
<1> QED BY <1>1, <1>2

-----------------------------------------------------------------------------
(* Components *)

\* The tables with a relation to one that is there.
Connected == {e[1] : e \in Edges} \cup {e[2] : e \in Edges}

LEMMA EdgesAreThere ==
  \A e \in Edges : e[1] \in AllTables /\ e[2] \in AllTables /\ e \in related
BY DEF Edges, TablePairs

LEMMA ComponentOfItself ==
  ASSUME NEW t \in AllTables
  PROVE  t \in Component(t) /\ Component(t) \in SUBSET AllTables /\ Apart(Component(t))
<1>1. t \in Component(t) /\ Component(t) \in SUBSET AllTables
  BY DEF Component
<1>2. ASSUME NEW e \in Edges PROVE e[1] \in Component(t) <=> e[2] \in Component(t)
  <2>1. e[1] \in AllTables /\ e[2] \in AllTables
    BY EdgesAreThere
  <2>2. \A S \in SUBSET AllTables : Apart(S) => (e[1] \in S <=> e[2] \in S)
    BY DEF Apart
  <2> QED BY <2>1, <2>2 DEF Component
<1> QED BY <1>1, <1>2 DEF Apart

LEMMA ComponentIsShared ==
  ASSUME NEW t \in AllTables, NEW u \in Component(t)
  PROVE  Component(u) = Component(t)
<1>1. u \in AllTables
  BY DEF Component
<1>2. \A S \in SUBSET AllTables : t \in S /\ Apart(S) => u \in S
  BY DEF Component
<1>3. \A S \in SUBSET AllTables : u \in S /\ Apart(S) => t \in S
  <2> SUFFICES ASSUME NEW S \in SUBSET AllTables, u \in S, Apart(S), t \notin S
               PROVE  FALSE
    OBVIOUS
  <2>1. \A e \in Edges : e[1] \in AllTables \ S <=> e[2] \in AllTables \ S
    BY EdgesAreThere DEF Apart
  <2>2. Apart(AllTables \ S)
    BY <2>1 DEF Apart
  <2>3. u \in AllTables \ S
    BY <1>2, <2>2
  <2> QED BY <2>3
<1>4. \A S \in SUBSET AllTables : Apart(S) => (t \in S <=> u \in S)
  BY <1>2, <1>3
<1> QED BY <1>4 DEF Component

LEMMA ComponentsPart ==
  /\ \A C \in Components : C \in SUBSET AllTables /\ C # {}
  /\ \A C, D \in Components : C # D => C \cap D = {}
  /\ UNION Components = Connected
  /\ \A e \in Edges : /\ Component(e[1]) \in Components
                      /\ e[1] \in Component(e[1]) /\ e[2] \in Component(e[1])
<1>1. \A C \in Components : \E e \in Edges : C = Component(e[1])
  BY DEF Components
<1>2. \A C \in Components : C \in SUBSET AllTables /\ C # {}
  BY <1>1, EdgesAreThere, ComponentOfItself
<1>3. ASSUME NEW C \in Components, NEW D \in Components, NEW t \in C, t \in D
      PROVE  C = D
  <2>1. PICK e \in Edges : C = Component(e[1])
    BY <1>1
  <2>2. PICK f \in Edges : D = Component(f[1])
    BY <1>1
  <2> QED BY <1>3, <2>1, <2>2, EdgesAreThere, ComponentIsShared
<1>4. \A e \in Edges : /\ Component(e[1]) \in Components
                       /\ e[1] \in Component(e[1]) /\ e[2] \in Component(e[1])
  <2> TAKE e \in Edges
  <2>1. e[1] \in Component(e[1]) /\ Apart(Component(e[1]))
    BY EdgesAreThere, ComponentOfItself
  <2> QED BY <2>1 DEF Components, Apart
<1>5. Connected \subseteq UNION Components
  BY <1>4 DEF Connected
<1>6. \A C \in Components : C \subseteq Connected
  <2> TAKE C \in Components
  <2>1. PICK e \in Edges : C = Component(e[1])
    BY <1>1
  <2>2. Connected \in SUBSET AllTables /\ Apart(Connected) /\ e[1] \in Connected
    BY EdgesAreThere DEF Connected, Apart
  <2> QED BY <2>1, <2>2 DEF Component
<1> QED BY <1>2, <1>3, <1>4, <1>5, <1>6

LEMMA AllSplit ==
  ASSUME Sortable
  PROVE  /\ Parted(UNION {Split(C) : C \in Components}, Connected)
         /\ \A e \in Edges : Cardinality(Component(e[1])) <= MaxTables =>
              \E g \in UNION {Split(C) : C \in Components} : e[1] \in TablesOf(g) /\ e[2] \in TablesOf(g)
<1> DEFINE G == [C \in Components |-> Split(C)]
           I == [C \in Components |-> C]
<1>1. \A C \in Components :
        /\ Parted(Split(C), C)
        /\ Cardinality(C) <= MaxTables => \E g \in Split(C) : TablesOf(g) = C
  BY ComponentsPart, SplitParts
<1>2. \A C \in Components : Parted(G[C], I[C])
  BY <1>1
<1>3. \A C, D \in Components : C # D => I[C] \cap I[D] = {}
  BY ComponentsPart
<1>4. Together(G, Components) = UNION {Split(C) : C \in Components}
  BY DEF Together
<1>5. Together(I, Components) = Connected
  <2>1. Together(I, Components) = UNION Components
    BY DEF Together
  <2> QED BY <2>1, ComponentsPart
<1> HIDE DEF G, I
<1>6. Parted(Together(G, Components), Together(I, Components))
  BY <1>2, <1>3, PartedTogether, Zenon
<1>7. ASSUME NEW e \in Edges, Cardinality(Component(e[1])) <= MaxTables
      PROVE  \E g \in UNION {Split(C) : C \in Components} : e[1] \in TablesOf(g) /\ e[2] \in TablesOf(g)
  <2>1. Component(e[1]) \in Components /\ e[1] \in Component(e[1]) /\ e[2] \in Component(e[1])
    BY ComponentsPart
  <2>2. PICK g \in Split(Component(e[1])) : TablesOf(g) = Component(e[1])
    BY <1>1, <1>7, <2>1
  <2> QED BY <2>1, <2>2
<1> QED BY <1>4, <1>5, <1>6, <1>7

-----------------------------------------------------------------------------
(* The invariant *)

\* g shows both tables of e.
Holds(g, e) == e[1] \in TablesOf(g) /\ e[2] \in TablesOf(g)

Fitting(e) == Cardinality(Component(e[1])) <= MaxTables

DrawTypes ==
  /\ drawStage \in {"off", "split", "merge", "draw", "drawn", "failed"}
  /\ Sortable
  /\ drawStage \in {"off", "split"} => left = {} /\ merged = <<>>

\* While groups are merged, each connected table is in one group, of those that are left
\* or of those that are merged, and the tables of a component that fits stay together.
MergeInv ==
  drawStage \notin {"off", "split"} =>
    /\ merged \in Seq(Seq(AllTables))
    /\ \A g \in left : Fits(g)
    /\ \A i \in 1 .. Len(merged) : Fits(merged[i])
    /\ \A g, h \in left : g # h => Disjoint(g, h)
    /\ \A i, j \in 1 .. Len(merged) : i # j => Disjoint(merged[i], merged[j])
    /\ \A g \in left, i \in 1 .. Len(merged) : Disjoint(g, merged[i])
    /\ \A t \in AllTables :
         t \in Connected <=> \/ \E g \in left : t \in TablesOf(g)
                             \/ \E i \in 1 .. Len(merged) : t \in TablesOf(merged[i])
    /\ \A e \in Edges : Fitting(e) =>
         \/ \E g \in left : Holds(g, e)
         \/ \E i \in 1 .. Len(merged) : Holds(merged[i], e)

Groups == [type : {"detail", "orphan"}, no : Nat, tables : Seq(AllTables)]

\* The groups of an ERD that was validated have every table once.
PicturesInv ==
  drawStage \in {"draw", "drawn", "failed"} /\ related = Edges =>
    /\ drawStage # "failed"
    /\ pictures \in Seq(Groups)
    /\ \A i, j \in 1 .. Len(pictures) : FileOf(pictures[i]) = FileOf(pictures[j]) => i = j
    /\ \A i, j \in 1 .. Len(pictures) : i # j => Disjoint(pictures[i].tables, pictures[j].tables)
    /\ \A t \in AllTables : \E i \in 1 .. Len(pictures) : t \in TablesOf(pictures[i].tables)
    /\ \A i \in 1 .. Len(pictures) :
         Len(pictures[i].tables) <= IF pictures[i].type = "detail" THEN MaxTables ELSE OrphanTables
    /\ \A e \in Edges : Fitting(e) => \E i \in 1 .. Len(pictures) : Holds(pictures[i].tables, e)

FilesInv ==
  drawStage = "drawn" /\ related = Edges =>
    /\ DOMAIN files = {FileOf(pictures[i]) : i \in 1 .. Len(pictures)}
    /\ \A i \in 1 .. Len(pictures) : files[FileOf(pictures[i])] = TablesOf(pictures[i].tables)

DrawInv == DrawTypes /\ MergeInv /\ PicturesInv /\ FilesInv

LEMMA DrawInit ==
  DrawOff \/ DrawBegun => DrawInv
<1> SUFFICES ASSUME DrawOff \/ DrawBegun PROVE DrawInv
  OBVIOUS
<1>1. drawStage \in {"off", "split"} /\ left = {} /\ merged = <<>> /\ sorting \in Sortings
  BY DrawingAssumption DEF DrawOff, DrawBegun
<1>2. Sortable
  BY <1>1, DrawingAssumption DEF Sortable, AllTables, Domain, Weight
<1> QED BY <1>1, <1>2 DEF DrawInv, DrawTypes, MergeInv, PicturesInv, FilesInv

\* What the groups are parted from stays as it is.
LEMMA SameTables ==
  ASSUME UNCHANGED <<related, sorting>>
  PROVE  /\ Edges' = Edges /\ Connected' = Connected /\ Sortable' = Sortable
         /\ \A e : Fitting(e)' = Fitting(e)
BY DEF Edges, Connected, Sortable, Domain, Weight, Fitting, Component, Apart

LEMMA SplitKeeps ==
  ASSUME DrawInv, SplitComponents
  PROVE  DrawInv'
<1> USE DEF SplitComponents
<1>1. UNCHANGED <<related, sorting>>
  OBVIOUS
<1>2. Sortable /\ merged = <<>> /\ merged' = <<>> /\ drawStage' = "merge"
  BY DEF DrawInv, DrawTypes
<1>3. /\ Parted(left', Connected)
      /\ \A e \in Edges : Fitting(e) => \E g \in left' : Holds(g, e)
  BY <1>2, AllSplit DEF Fitting, Holds
<1>4. /\ \A g \in left' : Fits(g) /\ TablesOf(g) \subseteq Connected
      /\ \A g, h \in left' : g # h => Disjoint(g, h)
      /\ \A t \in Connected : \E g \in left' : t \in TablesOf(g)
  BY <1>3 DEF Parted
<1>5. merged' \in Seq(Seq(AllTables)) /\ \A i \in 1 .. Len(merged') : FALSE
  BY <1>2
<1>6. MergeInv'
  BY <1>1, <1>3, <1>4, <1>5, SameTables DEF MergeInv
<1>7. DrawTypes'
  BY <1>1, <1>2, SameTables DEF DrawTypes
<1> QED BY <1>2, <1>6, <1>7 DEF DrawInv, PicturesInv, FilesInv

\* A group merged into one with room has the tables of both, and still fits.
LEMMA MergedFits ==
  ASSUME Sortable, NEW g, NEW h, Fits(g), Fits(h), Len(h) + Len(g) <= MaxTables
  PROVE  LET s == Sorted(TablesOf(h) \cup TablesOf(g), ByScore)
         IN  Fits(s) /\ TablesOf(s) = TablesOf(h) \cup TablesOf(g)
<1> DEFINE U == TablesOf(h) \cup TablesOf(g)
           s == Sorted(U, ByScore)
<1>1. ASSUME NEW f, Fits(f)
      PROVE  /\ TablesOf(f) \in SUBSET AllTables /\ TablesOf(f) # {}
             /\ IsFiniteSet(TablesOf(f)) /\ Cardinality(TablesOf(f)) \in Nat
             /\ Cardinality(TablesOf(f)) <= Len(f)
  <2>1. /\ f \in Seq(AllTables) /\ Len(f) \in Nat /\ 1 \in 1 .. Len(f)
        /\ DOMAIN f = 1 .. Len(f)
    BY <1>1, DrawingAssumption DEF Fits
  <2>2. /\ TablesOf(f) \in SUBSET AllTables
        /\ \A i \in 1 .. Len(f) : f[i] \in TablesOf(f)
        /\ \A x \in TablesOf(f) : \E i \in 1 .. Len(f) : x = f[i]
    BY <2>1, TablesOfSeq
  <2>3. f \in [1 .. Len(f) -> TablesOf(f)]
    <3>1. f \in [1 .. Len(f) -> AllTables]
      BY <2>1, LenProperties
    <3> QED BY <2>2, <3>1
  <2>4. f \in Surjection(1 .. Len(f), TablesOf(f))
    BY <2>2, <2>3, Fun_IsSurj
  <2>5. IsFiniteSet(1 .. Len(f)) /\ Cardinality(1 .. Len(f)) = Len(f)
    BY <2>1, FS_Interval
  <2>6. IsFiniteSet(TablesOf(f)) /\ Cardinality(TablesOf(f)) <= Len(f)
    BY <2>4, <2>5, FS_Surjection
  <2> QED BY <2>1, <2>2, <2>6, FS_CardinalityType
<1>2. U \in SUBSET AllTables /\ U # {}
  BY <1>1
<1>3. Cardinality(U) <= MaxTables
  <2>1. /\ IsFiniteSet(U)
        /\ Cardinality(U) = Cardinality(TablesOf(h)) + Cardinality(TablesOf(g))
                              - Cardinality(TablesOf(h) \cap TablesOf(g))
    BY <1>1, FS_Union
  <2>2. Cardinality(TablesOf(h) \cap TablesOf(g)) \in Nat
    <3>1. TablesOf(h) \cap TablesOf(g) \in SUBSET AllTables
      BY <1>1
    <3> QED BY <3>1, TablesAreFinite
  <2>3. Len(g) \in Nat /\ Len(h) \in Nat /\ MaxTables \in Nat
    BY DrawingAssumption DEF Fits
  <2> QED BY <1>1, <2>1, <2>2, <2>3
<1>4. Enumerates(s, U)
  BY <1>2, SortedTables
<1> HIDE DEF s
<1>5. Fits(s) /\ TablesOf(s) = U
  BY <1>2, <1>3, <1>4, OneGroup
<1> QED BY <1>5 DEF s

LEMMA PositionOfOne ==
  ASSUME NEW n \in Nat, NEW P \in SUBSET (1 .. n), P # {}
  PROVE  Position(P, 1) \in P /\ Position(P, Cardinality(P)) \in P
<1>1. Cardinality(P) \in Nat /\ \A k \in 1 .. Cardinality(P) : Position(P, k) \in P
  BY PositionProperties
<1>2. \E k \in 1 .. Cardinality(P) : TRUE
  BY PositionProperties
<1> QED BY <1>1, <1>2

\* One turn of the merging: g goes to the end, or into one of the groups with room for it.
LEMMA AbsorbedIn ==
  ASSUME Sortable, merged \in Seq(Seq(AllTables)), \A i \in 1 .. Len(merged) : Fits(merged[i]),
         NEW g, Fits(g)
  PROVE  \/ Absorbed(g) = Append(merged, g)
         \/ \E i \in 1 .. Len(merged) : \E s :
              /\ Fits(s) /\ TablesOf(s) = TablesOf(merged[i]) \cup TablesOf(g)
              /\ Absorbed(g) = [merged EXCEPT ![i] = s]
<1>1. CASE Len(g) >= Few \/ Targets(g) = {}
  BY <1>1 DEF Absorbed
<1>2. CASE ~(Len(g) >= Few \/ Targets(g) = {})
  <2> DEFINE i == Position(Targets(g), 1)
             s == Sorted(TablesOf(merged[i]) \cup TablesOf(g), ByScore)
  <2>1. Len(merged) \in Nat /\ DOMAIN merged = 1 .. Len(merged)
    OBVIOUS
  <2>2. Targets(g) \subseteq Room(g) /\ Room(g) \in SUBSET (1 .. Len(merged))
    BY <2>1 DEF Targets, SameRoom, Room
  <2>3. i \in Targets(g)
    BY <1>2, <2>1, <2>2, PositionOfOne
  <2>4. i \in 1 .. Len(merged) /\ Len(merged[i]) + Len(g) <= MaxTables
    BY <2>2, <2>3 DEF Room
  <2>5. Fits(s) /\ TablesOf(s) = TablesOf(merged[i]) \cup TablesOf(g)
    <3> HIDE DEF i
    <3> QED BY <2>4, MergedFits
  <2>6. Absorbed(g) = [merged EXCEPT ![i] = s]
    BY <1>2 DEF Absorbed
  <2> HIDE DEF i, s
  <2> QED BY <2>4, <2>5, <2>6
<1> QED BY <1>1, <1>2

LEMMA MergeKeeps ==
  ASSUME DrawInv, MergeGroup
  PROVE  DrawInv'
<1>1. drawStage = "merge" /\ drawStage' = "merge" /\ UNCHANGED <<related, sorting>>
  BY DEF MergeGroup
<1>2. PICK g \in left : left' = left \ {g} /\ merged' = Absorbed(g)
  BY DEF MergeGroup
<1> DEFINE n == Len(merged)
           t(h) == TablesOf(h)
<1>3. /\ merged \in Seq(Seq(AllTables)) /\ n \in Nat
      /\ \A h \in left : Fits(h)
      /\ \A i \in 1 .. n : Fits(merged[i])
  BY <1>1 DEF DrawInv, MergeInv
<1>4. /\ \A f, h \in left : f # h => Disjoint(f, h)
      /\ \A i, j \in 1 .. n : i # j => Disjoint(merged[i], merged[j])
      /\ \A h \in left, i \in 1 .. n : Disjoint(h, merged[i])
  BY <1>1 DEF DrawInv, MergeInv
<1>5. \A u \in AllTables :
        u \in Connected <=> \/ \E h \in left : u \in TablesOf(h)
                            \/ \E i \in 1 .. n : u \in TablesOf(merged[i])
  BY <1>1 DEF DrawInv, MergeInv
<1>6. \A e \in Edges : Fitting(e) => \/ \E h \in left : Holds(h, e)
                                     \/ \E i \in 1 .. n : Holds(merged[i], e)
  BY <1>1 DEF DrawInv, MergeInv
<1>7. Sortable /\ Fits(g) /\ g \in Seq(AllTables)
  BY <1>3 DEF DrawInv, DrawTypes, Fits
<1>8. \A h \in left' : h \in left /\ h # g
  BY <1>2
<1>9. \A h \in left : h = g \/ h \in left'
  BY <1>2
<1>10. /\ Edges' = Edges /\ Connected' = Connected /\ \A e : Fitting(e)' = Fitting(e)
  BY <1>1, SameTables
<1>11. ASSUME merged' = Append(merged, g) PROVE MergeInv'
  <2>1. /\ merged' \in Seq(Seq(AllTables)) /\ Len(merged') = n + 1
        /\ \A i \in 1 .. n : merged'[i] = merged[i]
        /\ merged'[n + 1] = g
    BY <1>3, <1>7, <1>11, AppendProperties
  <2>2. \A i \in 1 .. n + 1 : i \in 1 .. n \/ i = n + 1
    BY <1>3
  <2>3. n + 1 \in 1 .. n + 1 /\ \A i \in 1 .. n : i \in 1 .. n + 1
    BY <1>3
  <2> HIDE DEF n
  <2>4. \A i \in 1 .. n + 1 : Fits(merged'[i])
    BY <1>3, <1>7, <2>1, <2>2
  <2>5. \A i, j \in 1 .. n + 1 : i # j => Disjoint(merged'[i], merged'[j])
    BY <1>4, <2>1, <2>2 DEF Disjoint
  <2>6. \A h \in left', i \in 1 .. n + 1 : Disjoint(h, merged'[i])
    BY <1>4, <1>8, <2>1, <2>2
  <2>7. \A u \in AllTables :
          u \in Connected <=> \/ \E h \in left' : u \in TablesOf(h)
                              \/ \E i \in 1 .. n + 1 : u \in TablesOf(merged'[i])
    <3> TAKE u \in AllTables
    <3>1. ASSUME u \in Connected
          PROVE  \/ \E h \in left' : u \in TablesOf(h)
                 \/ \E i \in 1 .. n + 1 : u \in TablesOf(merged'[i])
      BY <1>5, <1>9, <2>1, <2>3, <3>1
    <3>2. ASSUME NEW h \in left', u \in TablesOf(h) PROVE u \in Connected
      BY <1>5, <1>8, <3>2
    <3>3. ASSUME NEW i \in 1 .. n + 1, u \in TablesOf(merged'[i]) PROVE u \in Connected
      BY <1>5, <2>1, <2>2, <3>3
    <3> QED BY <3>1, <3>2, <3>3
  <2>8. \A e \in Edges : Fitting(e) => \/ \E h \in left' : Holds(h, e)
                                       \/ \E i \in 1 .. n + 1 : Holds(merged'[i], e)
    BY <1>6, <1>9, <2>1, <2>3
  <2> QED BY <1>3, <1>4, <1>8, <1>10, <2>1, <2>4, <2>5, <2>6, <2>7, <2>8 DEF MergeInv
<1>12. ASSUME NEW k \in 1 .. n, NEW s,
              Fits(s), TablesOf(s) = TablesOf(merged[k]) \cup TablesOf(g),
              merged' = [merged EXCEPT ![k] = s]
       PROVE  MergeInv'
  <2>1. /\ k \in 1 .. n /\ Fits(s) /\ TablesOf(s) = TablesOf(merged[k]) \cup TablesOf(g)
        /\ merged' = [merged EXCEPT ![k] = s]
    BY <1>12
  <2>2. /\ merged' \in Seq(Seq(AllTables)) /\ Len(merged') = n
        /\ \A i \in 1 .. n : merged'[i] = IF i = k THEN s ELSE merged[i]
    <3>1. s \in Seq(AllTables)
      BY <2>1 DEF Fits
    <3> QED BY <1>3, <2>1, <3>1, ExceptSeq
  <2> HIDE DEF n
  <2>3. merged'[k] = s /\ \A i \in 1 .. n : i # k => merged'[i] = merged[i]
    BY <2>2
  <2>4. \A i \in 1 .. n : Fits(merged'[i])
    BY <1>3, <2>1, <2>3
  <2>5. \A i \in 1 .. n : i # k => Disjoint(s, merged[i]) /\ Disjoint(merged[i], s)
    BY <1>4, <2>1 DEF Disjoint
  <2>6. \A i, j \in 1 .. n : i # j => Disjoint(merged'[i], merged'[j])
    BY <1>4, <2>3, <2>5
  <2>7. \A h \in left' : Disjoint(h, s)
    BY <1>4, <1>8, <2>1 DEF Disjoint
  <2>8. \A h \in left', i \in 1 .. n : Disjoint(h, merged'[i])
    BY <1>4, <1>8, <2>3, <2>7
  <2>9. \A u \in AllTables :
          u \in Connected <=> \/ \E h \in left' : u \in TablesOf(h)
                              \/ \E i \in 1 .. n : u \in TablesOf(merged'[i])
    <3> TAKE u \in AllTables
    <3>1. ASSUME u \in Connected
          PROVE  \/ \E h \in left' : u \in TablesOf(h)
                 \/ \E i \in 1 .. n : u \in TablesOf(merged'[i])
      <4>1. CASE \E h \in left : u \in TablesOf(h)
        BY <1>9, <2>1, <2>3, <4>1
      <4>2. CASE \E i \in 1 .. n : u \in TablesOf(merged[i])
        BY <2>1, <2>3, <4>2
      <4> QED BY <1>5, <3>1, <4>1, <4>2
    <3>2. ASSUME NEW h \in left', u \in TablesOf(h) PROVE u \in Connected
      BY <1>5, <1>8, <3>2
    <3>3. ASSUME NEW i \in 1 .. n, u \in TablesOf(merged'[i]) PROVE u \in Connected
      BY <1>5, <2>1, <2>3, <3>3
    <3> QED BY <3>1, <3>2, <3>3
  <2>10. \A e \in Edges : Fitting(e) => \/ \E h \in left' : Holds(h, e)
                                        \/ \E i \in 1 .. n : Holds(merged'[i], e)
    <3> TAKE e \in Edges
    <3> HAVE Fitting(e)
    <3>1. CASE \E h \in left : Holds(h, e)
      BY <1>9, <2>1, <2>3, <3>1 DEF Holds
    <3>2. CASE \E i \in 1 .. n : Holds(merged[i], e)
      BY <2>1, <2>3, <3>2 DEF Holds
    <3> QED BY <1>6, <3>1, <3>2
  <2> QED BY <1>3, <1>4, <1>8, <1>10, <2>2, <2>4, <2>6, <2>8, <2>9, <2>10 DEF MergeInv
<1>13. MergeInv'
  BY <1>2, <1>3, <1>7, <1>11, <1>12, AbsorbedIn
<1>14. DrawTypes'
  BY <1>1, <1>7, SameTables DEF DrawTypes
<1> QED BY <1>1, <1>13, <1>14 DEF DrawInv, PicturesInv, FilesInv

-----------------------------------------------------------------------------
(* The groups that are drawn *)

LEMMA OrphansCut ==
  ASSUME Sortable
  PROVE  Cuts(OrphanGroups, AllTables \ Mentioned, OrphanTables)
<1>1. Enumerates(Sorted(AllTables \ Mentioned, ByDomain), AllTables \ Mentioned)
  BY SortedTables
<1>2. OrphanTables \in Nat \ {0} /\ AllTables \ Mentioned \in SUBSET AllTables
  BY DrawingAssumption
<1> QED BY <1>1, <1>2, PiecesOfTables DEF OrphanGroups

LEMMA NumberedGroups ==
  ASSUME NEW type \in {"detail", "orphan"}, NEW from \in Nat, NEW gs \in Seq(Seq(AllTables))
  PROVE  /\ Numbered(type, from, gs) \in Seq(Groups)
         /\ Len(Numbered(type, from, gs)) = Len(gs)
         /\ \A i \in 1 .. Len(gs) : Numbered(type, from, gs)[i] = Group(type, from + i, gs[i])
<1>1. DOMAIN gs = 1 .. Len(gs) /\ Len(gs) \in Nat
  OBVIOUS
<1>2. \A i \in 1 .. Len(gs) : Group(type, from + i, gs[i]) \in Groups
  <2> TAKE i \in 1 .. Len(gs)
  <2>1. gs[i] \in Seq(AllTables) /\ from + i \in Nat
    BY ElementOfSeq
  <2> QED BY <2>1 DEF Group, Groups
<1>3. Numbered(type, from, gs) = [i \in 1 .. Len(gs) |-> Group(type, from + i, gs[i])]
  BY <1>1 DEF Numbered
<1> QED BY <1>1, <1>2, <1>3

\* Nothing is missed of an ERD that was validated, so that the groups are those that were
\* merged and those of the tables without relations, with the numbers of their places.
LEMMA GroupsOfAll ==
  ASSUME DrawInv, GroupTables, related = Edges
  PROVE  /\ AllGroups \in Seq(Groups)
         /\ Len(AllGroups) = Len(merged) + Len(OrphanGroups)
         /\ \A i \in 1 .. Len(AllGroups) :
              AllGroups[i] = IF i <= Len(merged) THEN Group("detail", i, merged[i])
                             ELSE Group("orphan", i, OrphanGroups[i - Len(merged)])
<1> DEFINE o == OrphanGroups
           n == Len(merged)
           m == Len(o)
           all == merged \o o
           z == MissingGroups(all)
<1>1. drawStage = "merge" /\ left = {}
  BY DEF GroupTables
<1>2. merged \in Seq(Seq(AllTables)) /\ n \in Nat /\ Sortable
  BY <1>1 DEF DrawInv, MergeInv, DrawTypes
<1>3. \A t \in AllTables : t \in Connected => \E i \in 1 .. n : t \in TablesOf(merged[i])
  BY <1>1 DEF DrawInv, MergeInv
<1>4. Cuts(o, AllTables \ Mentioned, OrphanTables)
  BY <1>2, OrphansCut
<1>5. o \in Seq(Seq(AllTables)) /\ m \in Nat /\ DOMAIN o = 1 .. m
  BY <1>4 DEF Cuts
<1>6. Mentioned = Connected
  BY DEF Mentioned, Connected
<1> HIDE DEF o, n, m
<1>7. /\ all \in Seq(Seq(AllTables)) /\ Len(all) = n + m
      /\ \A i \in 1 .. n + m : all[i] = IF i <= n THEN merged[i] ELSE o[i - n]
  BY <1>2, <1>5, ConcatProperties DEF n, m
<1>8. DOMAIN all = 1 .. n + m
  BY <1>2, <1>5, <1>7
<1> HIDE DEF all, z
<1>9. \A t \in AllTables : \E i \in 1 .. n + m : t \in TablesOf(all[i])
  <2> TAKE t \in AllTables
  <2>1. CASE t \in Connected
    <3>1. PICK i \in 1 .. n : t \in TablesOf(merged[i])
      BY <1>3, <2>1
    <3>2. i \in 1 .. n + m /\ i <= n
      BY <1>2, <1>5
    <3> QED BY <1>7, <3>1, <3>2
  <2>2. CASE t \notin Connected
    <3>1. PICK k \in 1 .. m : t \in TablesOf(o[k])
      BY <1>4, <1>5, <1>6, <2>2 DEF Cuts
    <3>2. PICK i \in 1 .. n + m : ~(i <= n) /\ i - n = k
      <4> DEFINE x == n + k
      <4>1. x \in 1 .. n + m /\ ~(x <= n) /\ x - n = k
        BY <1>2, <1>5
      <4> HIDE DEF x
      <4> QED BY <4>1
    <3>3. all[i] = o[k]
      BY <1>7, <3>2
    <3> QED BY <3>1, <3>3
  <2> QED BY <2>1, <2>2
<1>10. Missed(all) = {}
  BY <1>8, <1>9 DEF Missed
<1>11. z = <<>>
  <2> USE DEF z
  <2>1. Cardinality({}) = 0
    BY FS_EmptySet
  <2> DEFINE e == [k \in 1 .. Cardinality(Missed(all)) |-> Position(Missed(all), k)]
  <2>2. Cardinality(Missed(all)) = 0
    BY <1>10, <2>1
  <2>3. e = <<>>
    <3>1. DOMAIN e = {}
      BY <2>2
    <3> QED BY <3>1
  <2>4. z = Pieces(<<>>, OrphanTables)
    BY <2>3 DEF MissingGroups
  <2>5. (Len(<<>>) + OrphanTables - 1) \div OrphanTables = 0
    <3>1. OrphanTables \in Nat \ {0} /\ OrphanTables - 1 \in Nat
      BY DrawingAssumption
    <3> DEFINE q == (OrphanTables - 1) \div OrphanTables
    <3>2. q \in Nat /\ q * OrphanTables <= OrphanTables - 1
      BY <3>1, Quotient
    <3> HIDE DEF q
    <3>3. q = 0
      <4> SUFFICES ASSUME 1 <= q PROVE FALSE
        BY <3>2
      <4>1. 1 * OrphanTables <= q * OrphanTables
        BY <3>1, <3>2, ProductMonotone
      <4> QED BY <3>1, <3>2, <4>1
    <3>4. Len(<<>>) + OrphanTables - 1 = OrphanTables - 1
      BY <3>1
    <3> QED BY <3>3, <3>4 DEF q
  <2>6. DOMAIN z = {}
    BY <2>4, <2>5 DEF Pieces
  <2>7. z = [k \in DOMAIN z |-> z[k]]
    BY <2>4 DEF Pieces
  <2> QED BY <2>6, <2>7
<1> DEFINE d == Numbered("detail", 0, merged)
           r == Numbered("orphan", n, o)
<1>12. Numbered("orphan", 0, z) = <<>>
  BY <1>11 DEF Numbered
<1>13. AllGroups = d \o r \o <<>>
  BY <1>12 DEF AllGroups, o, n, z, all
<1>14. /\ d \in Seq(Groups) /\ Len(d) = n
       /\ \A i \in 1 .. n : d[i] = Group("detail", 0 + i, merged[i])
  BY <1>2, NumberedGroups DEF n
<1>15. /\ r \in Seq(Groups) /\ Len(r) = m
       /\ \A i \in 1 .. m : r[i] = Group("orphan", n + i, o[i])
  BY <1>2, <1>5, NumberedGroups DEF m
<1> HIDE DEF d, r
<1>16. /\ d \o r \in Seq(Groups) /\ Len(d \o r) = n + m
       /\ \A i \in 1 .. n + m : (d \o r)[i] = IF i <= n THEN d[i] ELSE r[i - n]
  <2>1. d \in Seq(Groups) /\ r \in Seq(Groups)
    BY <1>14, <1>15
  <2>2. /\ d \o r \in Seq(Groups) /\ Len(d \o r) = Len(d) + Len(r)
        /\ \A i \in 1 .. Len(d) + Len(r) :
             (d \o r)[i] = IF i <= Len(d) THEN d[i] ELSE r[i - Len(d)]
    BY <2>1, ConcatProperties
  <2> QED BY <1>14, <1>15, <2>2
<1>17. AllGroups = d \o r
  BY <1>13, <1>16, ConcatEmptySeq
<1>18. \A i \in 1 .. n + m :
         (d \o r)[i] = IF i <= n THEN Group("detail", i, merged[i]) ELSE Group("orphan", i, o[i - n])
  <2> TAKE i \in 1 .. n + m
  <2>1. CASE i <= n
    <3>1. i \in 1 .. n /\ 0 + i = i
      BY <1>2, <2>1
    <3> QED BY <1>14, <1>16, <2>1, <3>1
  <2>2. CASE ~(i <= n)
    <3>1. i - n \in 1 .. m /\ n + (i - n) = i
      BY <1>2, <1>5, <2>2
    <3> QED BY <1>15, <1>16, <2>2, <3>1
  <2> QED BY <2>1, <2>2
<1> QED BY <1>16, <1>17, <1>18 DEF n, m, o

LEMMA GroupKeeps ==
  ASSUME DrawInv, GroupTables
  PROVE  DrawInv'
<1> DEFINE n == Len(merged)
           o == OrphanGroups
           m == Len(o)
<1>1. /\ drawStage = "merge" /\ left = {} /\ UNCHANGED <<related, sorting, left, merged, files>>
      /\ pictures' = AllGroups
      /\ drawStage' = IF Covers(pictures') THEN "draw" ELSE "failed"
  BY DEF GroupTables
<1>2. drawStage' # "drawn" /\ drawStage' \in {"draw", "failed"}
  BY <1>1
<1>3. DrawTypes'
  BY <1>1, <1>2, SameTables DEF DrawInv, DrawTypes
<1>4. MergeInv'
  BY <1>1, <1>2, SameTables DEF DrawInv, MergeInv
<1>5. FilesInv'
  BY <1>2 DEF FilesInv
<1>6. ASSUME related' = Edges' PROVE PicturesInv'
  <2>1. related = Edges /\ Edges' = Edges /\ \A e : Fitting(e)' = Fitting(e)
    BY <1>1, <1>6, SameTables
  <2>2. /\ pictures' \in Seq(Groups) /\ Len(pictures') = n + m
        /\ \A i \in 1 .. Len(pictures') :
             pictures'[i] = IF i <= n THEN Group("detail", i, merged[i])
                            ELSE Group("orphan", i, o[i - n])
    BY <1>1, <2>1, GroupsOfAll
  <2>3. /\ n \in Nat
        /\ \A i \in 1 .. n : Fits(merged[i])
        /\ \A i, j \in 1 .. n : i # j => Disjoint(merged[i], merged[j])
        /\ \A t \in AllTables : t \in Connected <=> \E i \in 1 .. n : t \in TablesOf(merged[i])
        /\ \A e \in Edges : Fitting(e) => \E i \in 1 .. n : Holds(merged[i], e)
    BY <1>1 DEF DrawInv, MergeInv
  <2>4. Cuts(o, AllTables \ Connected, OrphanTables)
    <3>1. Mentioned = Connected
      BY <2>1 DEF Mentioned, Connected
    <3>2. Sortable
      BY DEF DrawInv, DrawTypes
    <3> QED BY <3>1, <3>2, OrphansCut
  <2>5. m \in Nat /\ DOMAIN o = 1 .. m
    BY <2>4 DEF Cuts
  <2> HIDE DEF n, m, o
  <2> DEFINE N == 1 .. n + m
             g(i) == IF i <= n THEN merged[i] ELSE o[i - n]
  <2>6. \A i \in N : /\ i \in Nat
                     /\ i <= n => i \in 1 .. n
                     /\ ~(i <= n) => i - n \in 1 .. m
    BY <2>3, <2>5
  <2>7. \A i \in N : /\ pictures'[i].no = i /\ pictures'[i].tables = g(i)
                     /\ pictures'[i].type = IF i <= n THEN "detail" ELSE "orphan"
    BY <2>2 DEF Group
  <2>8. \A k \in 1 .. m : \E i \in N : ~(i <= n) /\ i - n = k
    <3> TAKE k \in 1 .. m
    <3> DEFINE x == n + k
    <3>1. x \in N /\ ~(x <= n) /\ x - n = k
      BY <2>3, <2>5
    <3> HIDE DEF x
    <3> QED BY <3>1
  <2>9. \A i \in 1 .. n : i \in N /\ i <= n
    BY <2>3, <2>5
  <2>10. \A i \in 1 .. n, k \in 1 .. m : Disjoint(merged[i], o[k]) /\ Disjoint(o[k], merged[i])
    <3> TAKE i \in 1 .. n, k \in 1 .. m
    <3>1. TablesOf(o[k]) \subseteq AllTables \ Connected
      BY <2>4, <2>5 DEF Cuts
    <3>2. TablesOf(merged[i]) \cap AllTables \subseteq Connected
      BY <2>3
    <3> QED BY <3>1, <3>2 DEF Disjoint
  <2>11. \A i, j \in N : i # j => Disjoint(g(i), g(j))
    <3> TAKE i, j \in N
    <3> HAVE i # j
    <3>1. CASE i <= n /\ j <= n
      BY <2>3, <2>6, <3>1
    <3>2. CASE i <= n /\ ~(j <= n)
      BY <2>6, <2>10, <3>2
    <3>3. CASE ~(i <= n) /\ j <= n
      BY <2>6, <2>10, <3>3
    <3>4. CASE ~(i <= n) /\ ~(j <= n)
      <4>1. i - n \in 1 .. m /\ j - n \in 1 .. m /\ i - n # j - n
        BY <2>3, <2>6, <3>4
      <4> QED BY <2>4, <2>5, <3>4, <4>1 DEF Cuts
    <3> QED BY <3>1, <3>2, <3>3, <3>4
  <2>12. \A t \in AllTables : \E i \in N : t \in TablesOf(g(i))
    <3> TAKE t \in AllTables
    <3>1. CASE t \in Connected
      BY <2>3, <2>9, <3>1
    <3>2. CASE t \notin Connected
      <4>1. PICK k \in 1 .. m : t \in TablesOf(o[k])
        BY <2>4, <2>5, <3>2 DEF Cuts
      <4>2. PICK i \in N : ~(i <= n) /\ i - n = k
        BY <2>8
      <4> QED BY <4>1, <4>2
    <3> QED BY <3>1, <3>2
  <2>13. \A i \in N : Len(g(i)) <= IF i <= n THEN MaxTables ELSE OrphanTables
    <3> TAKE i \in N
    <3>1. CASE i <= n
      <4>1. Len(merged[i]) \in 1 .. MaxTables
        BY <2>3, <2>6, <3>1 DEF Fits
      <4> QED BY <3>1, <4>1
    <3>2. CASE ~(i <= n)
      <4>1. Len(o[i - n]) \in 1 .. OrphanTables
        BY <2>4, <2>5, <2>6, <3>2 DEF Cuts
      <4> QED BY <3>2, <4>1
    <3> QED BY <3>1, <3>2
  <2>14. \A e \in Edges : Fitting(e) => \E i \in N : Holds(g(i), e)
    BY <2>3, <2>9
  <2>15. AllTables' = UNION {TablesOf(pictures'[i].tables) : i \in DOMAIN pictures'}
    <3>1. DOMAIN pictures' = N
      BY <2>2
    <3>2. \A i \in N : TablesOf(g(i)) \subseteq AllTables
      <4> TAKE i \in N
      <4>1. CASE i <= n
        BY <2>3, <2>6, <4>1, TablesOfSeq DEF Fits
      <4>2. CASE ~(i <= n)
        BY <2>4, <2>5, <2>6, <4>2 DEF Cuts
      <4> QED BY <4>1, <4>2
    <3> HIDE DEF N, g
    <3>3. AllTables = UNION {TablesOf(g(i)) : i \in N}
      BY <2>12, <3>2
    <3>4. UNION {TablesOf(g(i)) : i \in N} = UNION {TablesOf(pictures'[i].tables) : i \in N}
      BY <2>7
    <3> QED BY <3>1, <3>3, <3>4 DEF AllTables
  <2>16. drawStage' = "draw"
    BY <1>1, <2>15 DEF Covers, AllTables
  <2>17. \A i, j \in N : FileOf(pictures'[i]) = FileOf(pictures'[j]) => i = j
    BY <2>7 DEF FileOf
  <2>18. Len(pictures') = n + m /\ pictures' \in Seq(Groups)
    BY <2>2
  <2> HIDE DEF g
  <2>19. \A i, j \in N : i # j => Disjoint(pictures'[i].tables, pictures'[j].tables)
    BY <2>7, <2>11
  <2>20. \A t \in AllTables : \E i \in N : t \in TablesOf(pictures'[i].tables)
    BY <2>7, <2>12
  <2>21. \A i \in N : Len(pictures'[i].tables)
           <= IF pictures'[i].type = "detail" THEN MaxTables ELSE OrphanTables
    BY <2>7, <2>13
  <2>22. \A e \in Edges : Fitting(e) => \E i \in N : Holds(pictures'[i].tables, e)
    BY <2>7, <2>14
  <2> QED BY <2>1, <2>16, <2>17, <2>18, <2>19, <2>20, <2>21, <2>22 DEF PicturesInv
<1>7. PicturesInv'
  BY <1>6 DEF PicturesInv
<1> QED BY <1>3, <1>4, <1>5, <1>7 DEF DrawInv

LEMMA FilesKeep ==
  ASSUME DrawInv, DrawGroups
  PROVE  DrawInv'
<1>1. /\ drawStage = "draw" /\ drawStage' = "drawn"
      /\ UNCHANGED <<related, sorting, left, merged, pictures>>
  BY DEF DrawGroups
<1>2. DrawTypes' /\ MergeInv' /\ PicturesInv'
  <2>1. DrawTypes'
    BY <1>1, SameTables DEF DrawInv, DrawTypes
  <2>2. MergeInv'
    BY <1>1, SameTables DEF DrawInv, MergeInv
  <2>3. PicturesInv'
    BY <1>1, SameTables DEF DrawInv, PicturesInv
  <2> QED BY <2>1, <2>2, <2>3
<1>3. ASSUME related' = Edges' PROVE FilesInv'
  <2> DEFINE N == 1 .. Len(pictures)
             Of(f) == {i \in N : FileOf(pictures[i]) = f}
             F == {FileOf(pictures[i]) : i \in N}
  <2>1. /\ pictures \in Seq(Groups)
        /\ \A i, j \in N : FileOf(pictures[i]) = FileOf(pictures[j]) => i = j
    BY <1>1, <1>3, SameTables DEF DrawInv, PicturesInv
  <2>2. Len(pictures) \in Nat /\ DOMAIN pictures = N
    BY <2>1
  <2>3. files' = [f \in F |-> TablesOf(pictures[Position(Of(f), Cardinality(Of(f)))].tables)]
    BY <2>2 DEF DrawGroups
  <2>4. ASSUME NEW i \in N
        PROVE  files'[FileOf(pictures[i])] = TablesOf(pictures[i].tables)
    <3> DEFINE f == FileOf(pictures[i])
               p == Position(Of(f), Cardinality(Of(f)))
    <3>1. Of(f) \in SUBSET (1 .. Len(pictures)) /\ i \in Of(f)
      OBVIOUS
    <3>2. p \in Of(f)
      <4> HIDE DEF Of, f
      <4> QED BY <2>2, <3>1, PositionOfOne
    <3>3. p = i
      <4> HIDE DEF p
      <4> QED BY <2>1, <3>2
    <3>4. f \in F
      OBVIOUS
    <3>5. files'[f] = TablesOf(pictures[p].tables)
      BY <2>3, <3>4
    <3> QED BY <3>3, <3>5
  <2>5. DOMAIN files' = F
    BY <2>3
  <2> QED BY <1>1, <2>4, <2>5 DEF FilesInv
<1>4. FilesInv'
  BY <1>3 DEF FilesInv
<1> QED BY <1>2, <1>4 DEF DrawInv

\* The invariant of the drawing: it holds at the start and is kept by every step.
THEOREM DrawingInvariant == DrawSpec => []DrawInv
<1>1. DrawOff \/ DrawBegun => DrawInv
  BY DrawInit
<1>2. DrawInv /\ [DrawNext]_drawVars => DrawInv'
  <2> SUFFICES ASSUME DrawInv, [DrawNext]_drawVars PROVE DrawInv'
    OBVIOUS
  <2>1. CASE SplitComponents
    BY <2>1, SplitKeeps
  <2>2. CASE MergeGroup
    BY <2>2, MergeKeeps
  <2>3. CASE GroupTables
    BY <2>3, GroupKeeps
  <2>4. CASE DrawGroups
    BY <2>4, FilesKeep
  <2>5. CASE UNCHANGED drawVars
    <3>1. UNCHANGED <<drawStage, related, sorting, left, merged, pictures, files>>
      BY <2>5 DEF drawVars
    <3>2. DrawTypes' /\ MergeInv'
      BY <3>1, SameTables DEF DrawInv, DrawTypes, MergeInv
    <3>3. PicturesInv' /\ FilesInv'
      BY <3>1, SameTables DEF DrawInv, PicturesInv, FilesInv
    <3> QED BY <3>2, <3>3 DEF DrawInv
  <2> QED BY <2>1, <2>2, <2>3, <2>4, <2>5 DEF DrawNext
<1> QED BY <1>1, <1>2, PTL DEF DrawSpec

\* An ERD that was validated is drawn whole and once (erd_grouping.py, _execute_erd): each
\* table is in one picture, no picture is too full or overwrites another, and only a
\* component that does not fit into one picture may lose a relation.
THEOREM ErdIsDrawnOnce == DrawSpec => []DrawnOnce
<1>1. DrawInv => DrawnOnce
  <2> SUFFICES ASSUME DrawInv, drawStage \in {"drawn", "failed"}, related = Edges
               PROVE  /\ drawStage = "drawn"
                      /\ \A t \in AllTables : Cardinality({f \in DOMAIN files : t \in files[f]}) = 1
                      /\ \A i \in DOMAIN pictures :
                           /\ files[FileOf(pictures[i])] = TablesOf(pictures[i].tables)
                           /\ Len(pictures[i].tables)
                                <= IF pictures[i].type = "detail" THEN MaxTables ELSE OrphanTables
                      /\ \A e \in related : Shown(e) \/ Cardinality(Component(e[1])) > MaxTables
    BY DEF DrawnOnce
  <2> DEFINE N == 1 .. Len(pictures)
  <2>1. drawStage = "drawn"
    BY DEF DrawInv, PicturesInv
  <2>2. /\ pictures \in Seq(Groups) /\ DOMAIN pictures = N
        /\ \A i, j \in N : FileOf(pictures[i]) = FileOf(pictures[j]) => i = j
        /\ \A i, j \in N : i # j => Disjoint(pictures[i].tables, pictures[j].tables)
        /\ \A t \in AllTables : \E i \in N : t \in TablesOf(pictures[i].tables)
        /\ \A i \in N : Len(pictures[i].tables)
             <= IF pictures[i].type = "detail" THEN MaxTables ELSE OrphanTables
        /\ \A e \in Edges : Fitting(e) => \E i \in N : Holds(pictures[i].tables, e)
    BY <2>1 DEF DrawInv, PicturesInv
  <2>3. /\ \A f \in DOMAIN files : \E i \in N : f = FileOf(pictures[i])
        /\ \A i \in N : /\ FileOf(pictures[i]) \in DOMAIN files
                        /\ files[FileOf(pictures[i])] = TablesOf(pictures[i].tables)
    BY <2>1 DEF DrawInv, FilesInv
  <2>4. ASSUME NEW t \in AllTables
        PROVE  Cardinality({f \in DOMAIN files : t \in files[f]}) = 1
    <3>1. PICK i \in N : t \in TablesOf(pictures[i].tables)
      BY <2>2
    <3>2. \A f \in DOMAIN files : t \in files[f] => f = FileOf(pictures[i])
      <4> TAKE f \in DOMAIN files
      <4> HAVE t \in files[f]
      <4>1. PICK j \in N : f = FileOf(pictures[j])
        BY <2>3
      <4>2. t \in TablesOf(pictures[j].tables)
        BY <2>3, <4>1
      <4>3. i = j
        BY <2>2, <3>1, <4>2 DEF Disjoint
      <4> QED BY <4>1, <4>3
    <3>3. {f \in DOMAIN files : t \in files[f]} = {FileOf(pictures[i])}
      BY <2>3, <3>1, <3>2
    <3> QED BY <3>3, FS_Singleton
  <2>5. ASSUME NEW e \in related
        PROVE  Shown(e) \/ Cardinality(Component(e[1])) > MaxTables
    <3>1. Cardinality(Component(e[1])) \in Nat /\ MaxTables \in Nat
      <4>1. Component(e[1]) \in SUBSET AllTables
        BY DEF Component
      <4> QED BY <4>1, TablesAreFinite, DrawingAssumption
    <3>2. CASE Fitting(e)
      <4>1. PICK i \in N : Holds(pictures[i].tables, e)
        BY <2>2, <3>2
      <4>2. {e[1], e[2]} \subseteq files[FileOf(pictures[i])] /\ FileOf(pictures[i]) \in DOMAIN files
        BY <2>3, <4>1 DEF Holds
      <4> QED BY <4>2 DEF Shown
    <3>3. CASE ~Fitting(e)
      BY <3>1, <3>3 DEF Fitting
    <3> QED BY <3>2, <3>3
  <2> QED BY <2>1, <2>2, <2>3, <2>4, <2>5
<1> QED BY <1>1, DrawingInvariant, PTL

-----------------------------------------------------------------------------
(* Sequences, as functions: those of a database design *)

\* A function on an interval from one is a sequence of what it has.
LEMMA SeqOfPlaces ==
  ASSUME NEW n \in Nat, NEW s, DOMAIN s = 1 .. n, s = [k \in DOMAIN s |-> s[k]]
  PROVE  s \in Seq(Members(s)) /\ Len(s) = n
<1>1. s \in [1 .. n -> Members(s)]
  BY DEF Members
<1> QED
  BY <1>1, SeqOfFunction

\* And a sequence is the function of its places.
LEMMA PlacesOfSeq ==
  ASSUME NEW s, s \in Seq(Members(s))
  PROVE  /\ Len(s) \in Nat /\ DOMAIN s = 1 .. Len(s)
         /\ s = [k \in DOMAIN s |-> s[k]]
         /\ (s = <<>> <=> Len(s) = 0)
<1> DEFINE S == Members(s)
<1>1. s \in Seq(S)
  OBVIOUS
<1> HIDE DEF S
<1>2. Len(s) \in Nat /\ s \in [1 .. Len(s) -> S]
  BY <1>1
<1>3. DOMAIN s = 1 .. Len(s) /\ s = [k \in DOMAIN s |-> s[k]]
  BY <1>2
<1>4. s = <<>> <=> Len(s) = 0
  BY <1>1, EmptySeq
<1> QED
  BY <1>2, <1>3, <1>4

\* The members are what is at the places.
LEMMA MembersAt ==
  ASSUME NEW s
  PROVE  /\ \A k \in DOMAIN s : s[k] \in Members(s)
         /\ \A x \in Members(s) : \E k \in DOMAIN s : s[k] = x
BY DEF Members

-----------------------------------------------------------------------------
(* Columns *)

\* A column as IsColumns has them.
IsColumn(c) == IsRecord(c, {"name", "pk", "fk"})

\* Primary keys are named like keys, and no two columns have a name.
Keyed(cols)    == \A k \in DOMAIN cols : cols[k].pk => IsKeyed(cols[k])
OnceEach(cols) == \A k, m \in DOMAIN cols : cols[k].name = cols[m].name => k = m

\* The key a table without columns gets is a column named like a key.
LEMMA KeyIsColumn ==
  ASSUME NEW n
  PROVE  IsColumn(Pk(n)) /\ IsColumns(<<Pk(n)>>) /\ IsKeyed(Pk(n)) /\ <<Pk(n)>> # <<>>
<1>1. IsColumn(Pk(n)) /\ IsKeyed(Pk(n))
  BY DEF IsColumn, IsRecord, Pk, IsKeyed, KeyOf
<1>2. <<Pk(n)>> \in Seq({Pk(n)}) /\ Members(<<Pk(n)>>) = {Pk(n)}
  BY DEF Members
<1>3. \A k \in DOMAIN <<Pk(n)>> : <<Pk(n)>>[k] = Pk(n)
  OBVIOUS
<1>4. <<Pk(n)>> # <<>>
  OBVIOUS
<1> QED
  BY <1>1, <1>2, <1>3, <1>4 DEF IsColumns, IsColumn, IsSeq

\* A column that gets a name has it, and its keys as before.
LEMMA RenamedColumn ==
  ASSUME NEW c, IsColumn(c), NEW n
  PROVE  IsColumn([c EXCEPT !.name = n]) /\ [c EXCEPT !.name = n].name = n
BY DEF IsColumn, IsRecord

\* The columns StandardColumns gives have primary keys named like keys; columns whose are it
\* leaves as they are.
LEMMA StandardColumnsAre ==
  ASSUME NEW entity, NEW cols, IsColumns(cols)
  PROVE  /\ IsColumns(StandardColumns(entity, cols))
         /\ Keyed(StandardColumns(entity, cols))
         /\ cols # <<>> /\ Keyed(cols) => StandardColumns(entity, cols) = cols
<1> DEFINE all  == IF cols = <<>> /\ entity # "" THEN <<Pk(Base(entity))>> ELSE cols
           P    == {i \in DOMAIN all : ~all[i].pk \/ IsKeyed(all[i]) \/ entity # ""}
           kept == Pick(all, P)
           New(c) == IF c.pk /\ ~IsKeyed(c) THEN [c EXCEPT !.name = KeyOf(Base(entity))] ELSE c
           r    == [i \in DOMAIN kept |-> New(kept[i])]
<1>1. StandardColumns(entity, cols) = r
  BY DEF StandardColumns
<1>2. IsColumns(all)
  BY KeyIsColumn
<1>3. cols # <<>> => all = cols
  OBVIOUS
<1>4. P \in SUBSET DOMAIN all
  OBVIOUS
<1>5. cols # <<>> /\ Keyed(cols) => P = DOMAIN all
  BY <1>3 DEF Keyed
<1> HIDE DEF all, P
<1>6. /\ all \in Seq(Members(all)) /\ DOMAIN all = 1 .. Len(all)
      /\ \A k \in DOMAIN all : IsColumn(all[k])
      /\ all = [k \in DOMAIN all |-> all[k]]
  BY <1>2, PlacesOfSeq DEF IsColumns, IsColumn, IsSeq
<1>7. kept \in Seq(Members(all)) /\ Len(kept) \in Nat
  <2>1. P \in SUBSET (1 .. Len(all))
    BY <1>4, <1>6
  <2> QED
    BY <2>1, <1>6, PickProperties
<1>8. cols # <<>> /\ Keyed(cols) => kept = cols
  BY <1>3, <1>5, <1>6, PickAll
<1> HIDE DEF kept
<1>9. DOMAIN kept = 1 .. Len(kept) /\ \A k \in DOMAIN kept : IsColumn(kept[k])
  <2>1. DOMAIN kept = 1 .. Len(kept) /\ \A k \in DOMAIN kept : kept[k] \in Members(all)
    BY <1>7
  <2> QED
    BY <2>1, <1>6, MembersAt
<1>10. ASSUME NEW c, IsColumn(c)
       PROVE  IsColumn(New(c)) /\ (New(c).pk => IsKeyed(New(c)))
  <2>1. CASE c.pk /\ ~IsKeyed(c)
    <3>1. New(c) = [c EXCEPT !.name = KeyOf(Base(entity))]
      BY <2>1
    <3>2. IsColumn(New(c)) /\ New(c).name = KeyOf(Base(entity))
      BY <1>10, <3>1, RenamedColumn
    <3> QED
      BY <3>2 DEF IsKeyed, KeyOf
  <2>2. CASE ~(c.pk /\ ~IsKeyed(c))
    BY <2>2, <1>10
  <2> QED
    BY <2>1, <2>2
<1>11. \A k \in DOMAIN r : r[k] = New(kept[k])
  OBVIOUS
<1>12. DOMAIN r = 1 .. Len(kept) /\ r = [k \in DOMAIN r |-> r[k]]
  BY <1>9
<1>13. cols # <<>> /\ Keyed(cols) => r = cols
  <2> SUFFICES ASSUME cols # <<>>, Keyed(cols) PROVE r = cols
    OBVIOUS
  <2>1. kept = cols /\ all = cols
    BY <1>3, <1>8
  <2>2. \A k \in DOMAIN kept : New(kept[k]) = kept[k]
    BY <2>1 DEF Keyed
  <2>3. r = [k \in DOMAIN kept |-> kept[k]]
    BY <2>2
  <2> QED
    BY <2>1, <2>3, <1>6
<1> HIDE DEF New, r
<1>14. \A k \in DOMAIN r : IsColumn(r[k]) /\ (r[k].pk => IsKeyed(r[k]))
  BY <1>9, <1>10, <1>11, <1>12
<1>15. r \in Seq(Members(r))
  BY <1>7, <1>12, SeqOfPlaces
<1> QED
  BY <1>1, <1>13, <1>14, <1>15 DEF IsColumns, IsColumn, Keyed, IsSeq

-----------------------------------------------------------------------------
(* Tables *)

\* A table that gets a name, an entity name and columns has them.
WithParts(u, t, n, e, c) == u = [t EXCEPT !.name = n, !.entity = e, !.cols = c]
WithName(u, t, n)   == u = [t EXCEPT !.name = n]
WithCols(u, t, c)   == u = [t EXCEPT !.cols = c]

LEMMA TableWith ==
  ASSUME NEW t, IsTable(t), NEW n, NEW e, NEW c, IsColumns(c), NEW u, WithParts(u, t, n, e, c)
  PROVE  IsTable(u) /\ u.name = n /\ u.entity = e /\ u.cols = c
BY DEF IsTable, IsRecord, WithParts

LEMMA TableWithName ==
  ASSUME NEW t, IsTable(t), NEW n, NEW u, WithName(u, t, n)
  PROVE  IsTable(u) /\ u.name = n /\ u.cols = t.cols
BY DEF IsTable, IsRecord, WithName

LEMMA TableWithColumns ==
  ASSUME NEW t, IsTable(t), NEW c, IsColumns(c), NEW u, WithCols(u, t, c)
  PROVE  IsTable(u) /\ u.name = t.name /\ u.cols = c
BY DEF IsTable, IsRecord, WithCols

\* Standardized gives a table its standard name, and leaves columns whose primary keys are
\* named like keys as they are.
LEMMA StandardizedIs ==
  ASSUME NEW t, IsTable(t)
  PROVE  /\ IsTable(Standardized(t)) /\ Keyed(Standardized(t).cols)
         /\ Standardized(t).name = StandardName(t.name)
         /\ t.cols # <<>> /\ Keyed(t.cols) => Standardized(t).cols = t.cols
<1> DEFINE e == IF t.entity \in Generic THEN "" ELSE t.entity
           c == StandardColumns(e, t.cols)
           n == StandardName(t.name)
<1>1. Standardized(t) = [t EXCEPT !.name = n, !.entity = e, !.cols = c]
  BY DEF Standardized
<1>2. IsColumns(c) /\ Keyed(c) /\ (t.cols # <<>> /\ Keyed(t.cols) => c = t.cols)
  BY StandardColumnsAre DEF IsTable
<1> HIDE DEF e, c, n
<1>3. IsTable(Standardized(t)) /\ Standardized(t).name = n /\ Standardized(t).cols = c
  <2> DEFINE u == Standardized(t)
  <2>1. WithParts(u, t, n, e, c)
    BY <1>1 DEF WithParts
  <2> HIDE DEF u
  <2>2. IsColumns(c)
    BY <1>2
  <2>3. IsTable(u) /\ u.name = n /\ u.entity = e /\ u.cols = c
    BY <2>1, <2>2, TableWith
  <2> QED
    BY <2>3 DEF u
<1> QED
  BY <1>2, <1>3 DEF n

\* A design's tables, and a design of tables.
LEMMA TablesOfDesign ==
  ASSUME NEW ts, IsDesign(ts)
  PROVE  /\ Len(ts) \in Nat /\ DOMAIN ts = 1 .. Len(ts)
         /\ ts = [i \in DOMAIN ts |-> ts[i]]
         /\ \A i \in DOMAIN ts :
              /\ i \in Nat /\ IsTable(ts[i]) /\ ts[i] \in Members(ts)
              /\ ts[i].cols \in Seq(Members(ts[i].cols))
              /\ DOMAIN ts[i].cols = 1 .. Len(ts[i].cols) /\ Len(ts[i].cols) \in Nat
              /\ \A k \in DOMAIN ts[i].cols : k \in Nat /\ IsColumn(ts[i].cols[k])
<1>1. Len(ts) \in Nat /\ DOMAIN ts = 1 .. Len(ts) /\ ts = [i \in DOMAIN ts |-> ts[i]]
  BY PlacesOfSeq DEF IsDesign, IsSeq
<1>2. ASSUME NEW i \in DOMAIN ts
      PROVE  /\ i \in Nat /\ IsTable(ts[i]) /\ ts[i] \in Members(ts)
             /\ ts[i].cols \in Seq(Members(ts[i].cols))
             /\ DOMAIN ts[i].cols = 1 .. Len(ts[i].cols) /\ Len(ts[i].cols) \in Nat
             /\ \A k \in DOMAIN ts[i].cols : k \in Nat /\ IsColumn(ts[i].cols[k])
  <2>1. i \in Nat /\ IsTable(ts[i]) /\ ts[i] \in Members(ts)
    BY <1>1, MembersAt DEF IsDesign, IsSeq
  <2>2. /\ ts[i].cols \in Seq(Members(ts[i].cols))
        /\ \A k \in DOMAIN ts[i].cols : IsColumn(ts[i].cols[k])
    BY <2>1 DEF IsTable, IsColumns, IsColumn, IsSeq
  <2>3. DOMAIN ts[i].cols = 1 .. Len(ts[i].cols) /\ Len(ts[i].cols) \in Nat
    BY <2>2, PlacesOfSeq
  <2>4. \A k \in DOMAIN ts[i].cols : k \in Nat
    BY <2>3
  <2> QED
    BY <2>1, <2>2, <2>3, <2>4
<1> QED
  BY <1>1, <1>2

LEMMA DesignOfTables ==
  ASSUME NEW n \in Nat, NEW ts, DOMAIN ts = 1 .. n, ts = [i \in DOMAIN ts |-> ts[i]],
         \A i \in DOMAIN ts : IsTable(ts[i])
  PROVE  IsDesign(ts) /\ Len(ts) = n
BY SeqOfPlaces DEF IsDesign, IsSeq

\* The tables of a design, standardised.
Own(ts) == [i \in DOMAIN ts |-> Standardized(ts[i])]

\* Standardising keeps the places of the tables, and the columns of tables that are tidy.
LEMMA OwnIs ==
  ASSUME NEW ts, IsDesign(ts)
  PROVE  /\ IsDesign(Own(ts)) /\ DOMAIN Own(ts) = DOMAIN ts /\ Len(Own(ts)) = Len(ts)
         /\ \A i \in DOMAIN ts :
              /\ Keyed(Own(ts)[i].cols) /\ Own(ts)[i].name = StandardName(ts[i].name)
              /\ ts[i].cols # <<>> /\ Keyed(ts[i].cols) => Own(ts)[i].cols = ts[i].cols
<1>1. /\ DOMAIN Own(ts) = DOMAIN ts
      /\ Own(ts) = [i \in DOMAIN Own(ts) |-> Own(ts)[i]]
      /\ \A i \in DOMAIN ts : Own(ts)[i] = Standardized(ts[i])
  BY DEF Own
<1>2. Len(ts) \in Nat /\ DOMAIN ts = 1 .. Len(ts) /\ \A i \in DOMAIN ts : IsTable(ts[i])
  BY TablesOfDesign
<1>3. ASSUME NEW i \in DOMAIN ts
      PROVE  /\ IsTable(Own(ts)[i])
             /\ Keyed(Own(ts)[i].cols) /\ Own(ts)[i].name = StandardName(ts[i].name)
             /\ ts[i].cols # <<>> /\ Keyed(ts[i].cols) => Own(ts)[i].cols = ts[i].cols
  BY <1>1, <1>2, StandardizedIs
<1>4. IsDesign(Own(ts)) /\ Len(Own(ts)) = Len(ts)
  BY <1>1, <1>2, <1>3, DesignOfTables
<1> QED
  BY <1>1, <1>3, <1>4

-----------------------------------------------------------------------------
(* The columns of all tables of a name *)

\* A place of a name is a table of it and one of its columns.
LEMMA PlacesAre ==
  ASSUME NEW ts, IsDesign(ts), NEW n
  PROVE  /\ \A i, k : <<i, k>> \in Places(ts, n)
                        <=> i \in DOMAIN ts /\ ts[i].name = n /\ k \in DOMAIN ts[i].cols
         /\ \A p \in Places(ts, n) :
              /\ p = <<p[1], p[2]>> /\ p[1] \in Nat /\ p[2] \in Nat
              /\ p[1] \in DOMAIN ts /\ ts[p[1]].name = n /\ p[2] \in DOMAIN ts[p[1]].cols
<1>1. \A p : p \in Places(ts, n)
               <=> \E i \in DOMAIN ts : ts[i].name = n /\ p \in {i} \X DOMAIN ts[i].cols
  BY DEF Places
<1>2. \A i, k, j, D : <<i, k>> \in {j} \X D <=> i = j /\ k \in D
  OBVIOUS
<1>3. \A p, j, D : p \in {j} \X D => p = <<p[1], p[2]>> /\ p[1] = j /\ p[2] \in D
  OBVIOUS
<1>4. \A i, k : <<i, k>> \in Places(ts, n)
                  <=> i \in DOMAIN ts /\ ts[i].name = n /\ k \in DOMAIN ts[i].cols
  BY <1>1, <1>2
<1>5. \A p \in Places(ts, n) :
        /\ p = <<p[1], p[2]>>
        /\ p[1] \in DOMAIN ts /\ ts[p[1]].name = n /\ p[2] \in DOMAIN ts[p[1]].cols
  BY <1>1, <1>3
<1>6. \A i \in DOMAIN ts : i \in Nat /\ \A k \in DOMAIN ts[i].cols : k \in Nat
  BY TablesOfDesign
<1> QED
  BY <1>4, <1>5, <1>6

\* A design has finitely many, so that they can be sorted.
LEMMA PlacesAreFinite ==
  ASSUME NEW ts, IsDesign(ts), NEW n
  PROVE  IsFiniteSet(Places(ts, n))
<1> DEFINE T == {k \in DOMAIN ts : ts[k].name = n}
           f == [i \in T |-> {i} \X DOMAIN ts[i].cols]
           R == {f[i] : i \in T}
<1>1. Places(ts, n) = UNION R
  BY DEF Places
<1>2. IsFiniteSet(T)
  <2>1. Len(ts) \in Nat /\ DOMAIN ts = 1 .. Len(ts)
    BY TablesOfDesign
  <2>2. IsFiniteSet(DOMAIN ts)
    BY <2>1, FS_Interval
  <2> QED
    BY <2>2, FS_Subset
<1>3. \A i \in T : IsFiniteSet(f[i])
  <2> SUFFICES ASSUME NEW i \in T PROVE IsFiniteSet({i} \X DOMAIN ts[i].cols)
    OBVIOUS
  <2>1. DOMAIN ts[i].cols = 1 .. Len(ts[i].cols) /\ Len(ts[i].cols) \in Nat
    BY TablesOfDesign
  <2>2. IsFiniteSet(DOMAIN ts[i].cols)
    BY <2>1, FS_Interval
  <2>3. IsFiniteSet({i})
    BY FS_Singleton
  <2> QED
    BY <2>2, <2>3, FS_Product
<1>5. IsFiniteSet(R)
  <2>1. f = [i \in T |-> f[i]]
    OBVIOUS
  <2> HIDE DEF T, f
  <2> QED
    BY <1>2, <2>1, FiniteImage
<1>6. \A X \in R : IsFiniteSet(X)
  BY <1>3
<1> QED
  BY <1>1, <1>5, <1>6, FS_UNION

\* They are sorted by table, then by column: the order they are read in.
LEMMA PlaceOrderIs ==
  ASSUME NEW P, NEW x \in P, NEW y \in P
  PROVE  <<x, y>> \in PlaceOrder(P) <=> x[1] < y[1] \/ (x[1] = y[1] /\ x[2] < y[2])
<1>1. <<x, y>> \in P \X P /\ <<x, y>>[1] = x /\ <<x, y>>[2] = y
  OBVIOUS
<1> QED
  BY <1>1 DEF PlaceOrder

\* Among the places of a column's name one is the first.
LEMMA OneIsFirst ==
  ASSUME NEW ts, IsDesign(ts), NEW n, NEW p \in Places(ts, n)
  PROVE  \E q \in FirstPlaces(ts, n) : ColumnAt(ts, q).name = ColumnAt(ts, p).name
<1> DEFINE all == Places(ts, n)
           c == ColumnAt(ts, p).name
           Has(i, k) == <<i, k>> \in all /\ ColumnAt(ts, <<i, k>>).name = c
           I == {i \in Nat : \E k \in Nat : Has(i, k)}
<1>1. \A q \in all : q = <<q[1], q[2]>> /\ q[1] \in Nat /\ q[2] \in Nat
  BY PlacesAre
<1>2. p[1] \in I
  BY <1>1
<1>3. PICK i \in I : \A j \in I : i <= j
  <2>1. I \in SUBSET Nat /\ I # {}
    BY <1>2
  <2> HIDE DEF I
  <2> QED
    BY <2>1, LeastNatural
<1> DEFINE K == {k \in Nat : Has(i, k)}
<1>4. PICK k \in K : \A m \in K : k <= m
  <2>1. K \in SUBSET Nat /\ K # {}
    BY <1>3
  <2> HIDE DEF K
  <2> QED
    BY <2>1, LeastNatural
<1>5. i \in Nat /\ k \in Nat /\ Has(i, k)
  BY <1>3, <1>4
<1> DEFINE q == <<i, k>>
<1>6. q \in all /\ q[1] = i /\ q[2] = k /\ ColumnAt(ts, q).name = c
  BY <1>5
<1>7. ASSUME NEW x \in PlaceOrder(all), x[2] = q
      PROVE  ColumnAt(ts, x[1]).name # c
  <2>1. /\ x[1] \in all
        /\ x[1][1] < x[2][1] \/ (x[1][1] = x[2][1] /\ x[1][2] < x[2][2])
    BY DEF PlaceOrder
  <2>2. SUFFICES ASSUME ColumnAt(ts, x[1]).name = c PROVE FALSE
    OBVIOUS
  <2>3. PICK a \in Nat, b \in Nat : x[1] = <<a, b>>
    BY <1>1, <2>1
  <2>4. Has(a, b)
    BY <2>1, <2>2, <2>3
  <2>5. a < i \/ (a = i /\ b < k)
    BY <1>6, <1>7, <2>1, <2>3
  <2>6. i <= a
    BY <1>3, <2>3, <2>4
  <2>7. a = i => k <= b
    BY <1>4, <2>3, <2>4
  <2> QED
    BY <2>5, <2>6, <2>7, <1>5, <2>3
<1>8. q \in FirstPlaces(ts, n)
  BY <1>6, <1>7 DEF FirstPlaces
<1> QED
  BY <1>6, <1>8

\* ColumnsOfAll has a column of each first place, and no two of a name.
LEMMA ColumnsOfAllAre ==
  ASSUME NEW ts, IsDesign(ts), NEW n
  PROVE  /\ IsColumns(ColumnsOfAll(ts, n)) /\ OnceEach(ColumnsOfAll(ts, n))
         /\ \A k \in DOMAIN ColumnsOfAll(ts, n) : \E p \in Places(ts, n) :
              ColumnsOfAll(ts, n)[k] = ColumnAt(ts, p)
         /\ \A p \in FirstPlaces(ts, n) : \E k \in DOMAIN ColumnsOfAll(ts, n) :
              ColumnsOfAll(ts, n)[k] = ColumnAt(ts, p)
<1> DEFINE all == Places(ts, n)
           F == FirstPlaces(ts, n)
           o == Sorted(F, PlaceOrder(F))
           s == [k \in DOMAIN o |-> ColumnAt(ts, o[k])]
<1>1. ColumnsOfAll(ts, n) = s
  BY DEF ColumnsOfAll
<1>2. /\ F \in SUBSET all
      /\ \A p \in F : \A x \in PlaceOrder(all) :
           x[2] = p => ColumnAt(ts, x[1]).name # ColumnAt(ts, p).name
  BY DEF FirstPlaces
<1>3. \A p \in all : p = <<p[1], p[2]>> /\ p[1] \in Nat /\ p[2] \in Nat
  BY PlacesAre
<1>4. IsFiniteSet(F)
  BY <1>2, PlacesAreFinite, FS_Subset
<1> HIDE DEF F, all
<1>5. \A x, y \in F : <<x, y>> \in PlaceOrder(F) <=> x[1] < y[1] \/ (x[1] = y[1] /\ x[2] < y[2])
  BY PlaceOrderIs
<1>6. \A x, y \in all :
        <<x, y>> \in PlaceOrder(all) <=> x[1] < y[1] \/ (x[1] = y[1] /\ x[2] < y[2])
  BY PlaceOrderIs
<1>7. Orders(PlaceOrder(F), F)
  <2>1. \A x \in F : x = <<x[1], x[2]>> /\ x[1] \in Nat /\ x[2] \in Nat
    BY <1>2, <1>3
  <2>2. \A x \in F : <<x, x>> \notin PlaceOrder(F)
    BY <2>1, <1>5
  <2>3. ASSUME NEW x \in F, NEW y \in F, x # y
        PROVE  <<x, y>> \in PlaceOrder(F) \/ <<y, x>> \in PlaceOrder(F)
    <3>1. x[1] # y[1] \/ x[2] # y[2]
      BY <2>1, <2>3
    <3>2. x[1] \in Nat /\ x[2] \in Nat /\ y[1] \in Nat /\ y[2] \in Nat
      BY <2>1
    <3> QED
      BY <3>1, <3>2, <1>5
  <2>4. ASSUME NEW x \in F, NEW y \in F, NEW z \in F,
               <<x, y>> \in PlaceOrder(F), <<y, z>> \in PlaceOrder(F)
        PROVE  <<x, z>> \in PlaceOrder(F)
    <3>1. /\ x[1] < y[1] \/ (x[1] = y[1] /\ x[2] < y[2])
          /\ y[1] < z[1] \/ (y[1] = z[1] /\ y[2] < z[2])
      BY <1>5, <2>4
    <3>2. /\ x[1] \in Nat /\ x[2] \in Nat /\ y[1] \in Nat /\ y[2] \in Nat
          /\ z[1] \in Nat /\ z[2] \in Nat
      BY <2>1
    <3>3. x[1] < z[1] \/ (x[1] = z[1] /\ x[2] < z[2])
      BY <3>1, <3>2
    <3> QED
      BY <3>3, <1>5
  <2> QED
    BY <2>2, <2>3, <2>4 DEF Orders
<1>8. Enumerates(o, F)
  BY <1>4, <1>7, SortedEnumerates
<1> HIDE DEF o
<1>9. /\ Len(o) \in Nat /\ DOMAIN o = 1 .. Len(o) /\ \A k \in DOMAIN o : o[k] \in F
      /\ \A k, m \in DOMAIN o : o[k] = o[m] => k = m
      /\ \A p \in F : \E k \in DOMAIN o : o[k] = p
  <2>1. o \in Seq(F)
    BY <1>8 DEF Enumerates
  <2>2. Len(o) \in Nat /\ DOMAIN o = 1 .. Len(o) /\ \A k \in DOMAIN o : o[k] \in F
    BY <2>1
  <2> QED
    BY <2>2, <1>8 DEF Enumerates
<1>10. DOMAIN s = DOMAIN o /\ s = [k \in DOMAIN s |-> s[k]]
       /\ \A k \in DOMAIN o : s[k] = ColumnAt(ts, o[k])
  OBVIOUS
<1> HIDE DEF s
<1>11. \A p \in all : IsColumn(ColumnAt(ts, p))
  <2>1. \A p \in Places(ts, n) : p[1] \in DOMAIN ts /\ p[2] \in DOMAIN ts[p[1]].cols
    BY PlacesAre
  <2>2. \A p \in Places(ts, n) : IsColumn(ts[p[1]].cols[p[2]])
    BY <2>1, TablesOfDesign
  <2> QED
    BY <2>2 DEF ColumnAt, all
<1>12. IsColumns(s)
  <2>1. \A k \in DOMAIN s : IsColumn(s[k])
    BY <1>2, <1>9, <1>10, <1>11
  <2>2. s \in Seq(Members(s))
    BY <1>9, <1>10, SeqOfPlaces
  <2> QED
    BY <2>1, <2>2 DEF IsColumns, IsColumn, IsSeq
<1>13. OnceEach(s)
  <2> SUFFICES ASSUME NEW k \in DOMAIN o, NEW m \in DOMAIN o, s[k].name = s[m].name,
                      o[k] # o[m]
               PROVE  FALSE
    BY <1>9, <1>10 DEF OnceEach
  <2>1. o[k] \in F /\ o[m] \in F /\ o[k] \in all /\ o[m] \in all
    BY <1>2, <1>9
  <2>2. <<o[k], o[m]>> \in PlaceOrder(all) \/ <<o[m], o[k]>> \in PlaceOrder(all)
    <3>1. <<o[k], o[m]>> \in PlaceOrder(F) \/ <<o[m], o[k]>> \in PlaceOrder(F)
      BY <2>1, <1>7 DEF Orders
    <3> QED
      BY <3>1, <2>1, <1>5, <1>6
  <2>3. \A p, q : <<p, q>>[1] = p /\ <<p, q>>[2] = q
    OBVIOUS
  <2>4. ColumnAt(ts, o[k]).name = ColumnAt(ts, o[m]).name
    BY <1>10
  <2>5. CASE <<o[k], o[m]>> \in PlaceOrder(all)
    BY <2>1, <2>3, <2>4, <2>5, <1>2
  <2>6. CASE <<o[m], o[k]>> \in PlaceOrder(all)
    BY <2>1, <2>3, <2>4, <2>6, <1>2
  <2> QED
    BY <2>2, <2>5, <2>6
<1>14. \A k \in DOMAIN s : \E p \in all : s[k] = ColumnAt(ts, p)
  BY <1>2, <1>9, <1>10
<1>15. \A p \in F : \E k \in DOMAIN s : s[k] = ColumnAt(ts, p)
  BY <1>9, <1>10
<1> QED
  BY <1>1, <1>12, <1>13, <1>14, <1>15 DEF all, F

-----------------------------------------------------------------------------
(* What normalisation keeps *)

\* What normalising a normal design leaves as it is.
Tidy(ts) == \A i \in DOMAIN ts : Keyed(ts[i].cols) /\ OnceEach(ts[i].cols)

\* Every name has a first table.
LEMMA NameHasFirst ==
  ASSUME NEW ts, IsDesign(ts), NEW i \in DOMAIN ts
  PROVE  \E k \in FirstOfName(ts) : ts[k].name = ts[i].name
<1> DEFINE T == {k \in DOMAIN ts : ts[k].name = ts[i].name}
<1>1. Len(ts) \in Nat /\ DOMAIN ts = 1 .. Len(ts)
  BY TablesOfDesign
<1>2. T \in SUBSET Nat /\ T # {}
  BY <1>1
<1>3. \A k : k \in T <=> k \in DOMAIN ts /\ ts[k].name = ts[i].name
  OBVIOUS
<1> HIDE DEF T
<1>4. PICK k \in T : \A m \in T : k <= m
  BY <1>2, LeastNatural
<1>5. k \in DOMAIN ts /\ ts[k].name = ts[i].name
  BY <1>3, <1>4
<1>6. ASSUME NEW m \in 1 .. (k - 1) PROVE ts[m].name # ts[k].name
  <2>1. m \in DOMAIN ts /\ ~(k <= m)
    BY <1>1, <1>5
  <2> QED
    BY <2>1, <1>3, <1>4, <1>5
<1> QED
  BY <1>5, <1>6 DEF FirstOfName

\* The result has one table for each name of what it normalises, with the columns of all.
LEMMA NormalIs ==
  ASSUME NEW ts, IsDesign(ts)
  PROVE  /\ IsDesign(Normal(ts)) /\ Tidy(Normal(ts))
         /\ \A i \in DOMAIN ts : \E t \in Members(Normal(ts)) :
              /\ t.name = Own(ts)[i].name
              /\ t.cols = ColumnsOfAll(Own(ts), Own(ts)[i].name)
<1> DEFINE own == Own(ts)
           P == FirstOfName(own)
           one == Pick(own, P)
           r == [j \in DOMAIN one |-> [one[j] EXCEPT !.cols = ColumnsOfAll(own, one[j].name)]]
<1>1. Normal(ts) = r
  BY DEF Normal, Own
<1>2. /\ IsDesign(own) /\ DOMAIN own = DOMAIN ts
      /\ \A i \in DOMAIN ts : Keyed(own[i].cols)
  BY OwnIs
<1>3. P \in SUBSET DOMAIN own
  BY DEF FirstOfName
<1>4. \A i \in DOMAIN own : \E k \in P : own[k].name = own[i].name
  BY <1>2, NameHasFirst
<1> HIDE DEF own, P
<1>5. /\ Len(own) \in Nat /\ DOMAIN own = 1 .. Len(own) /\ own \in Seq(Members(own))
      /\ \A i \in DOMAIN own : IsTable(own[i])
  BY <1>2, TablesOfDesign DEF IsDesign, IsSeq
<1>6. /\ one \in Seq(Members(own)) /\ Len(one) \in Nat
      /\ \A i \in P : \E j \in DOMAIN one : one[j] = own[i]
  <2>1. P \in SUBSET (1 .. Len(own))
    BY <1>3, <1>5
  <2> QED
    BY <2>1, <1>5, PickProperties, PickKeeps
<1> HIDE DEF one
<1>7. DOMAIN one = 1 .. Len(one) /\ \A j \in DOMAIN one : IsTable(one[j])
  <2>1. DOMAIN one = 1 .. Len(one) /\ \A j \in DOMAIN one : one[j] \in Members(own)
    BY <1>6
  <2> QED
    BY <2>1, <1>5, MembersAt
<1>8. /\ DOMAIN r = DOMAIN one /\ r = [j \in DOMAIN r |-> r[j]]
      /\ \A j \in DOMAIN one : WithCols(r[j], one[j], ColumnsOfAll(own, one[j].name))
  BY DEF WithCols
<1> HIDE DEF r
<1>9. ASSUME NEW n
      PROVE  /\ IsColumns(ColumnsOfAll(own, n)) /\ OnceEach(ColumnsOfAll(own, n))
             /\ Keyed(ColumnsOfAll(own, n))
  <2>1. /\ IsColumns(ColumnsOfAll(own, n)) /\ OnceEach(ColumnsOfAll(own, n))
        /\ \A k \in DOMAIN ColumnsOfAll(own, n) : \E p \in Places(own, n) :
             ColumnsOfAll(own, n)[k] = ColumnAt(own, p)
    BY <1>2, ColumnsOfAllAre
  <2>2. \A p \in Places(own, n) : ColumnAt(own, p).pk => IsKeyed(ColumnAt(own, p))
    <3>1. \A p \in Places(own, n) : p[1] \in DOMAIN own /\ p[2] \in DOMAIN own[p[1]].cols
      BY <1>2, PlacesAre
    <3> QED
      BY <3>1, <1>2 DEF ColumnAt, Keyed
  <2>3. Keyed(ColumnsOfAll(own, n))
    BY <2>1, <2>2 DEF Keyed
  <2> QED
    BY <2>1, <2>3
<1>10. \A j \in DOMAIN r : /\ IsTable(r[j]) /\ r[j].name = one[j].name
                           /\ r[j].cols = ColumnsOfAll(own, one[j].name)
  BY <1>7, <1>8, <1>9, TableWithColumns
<1>11. IsDesign(r)
  BY <1>6, <1>7, <1>8, <1>10, DesignOfTables
<1>12. Tidy(r)
  BY <1>9, <1>10 DEF Tidy
<1>13. ASSUME NEW i \in DOMAIN ts
       PROVE  \E t \in Members(r) : t.name = own[i].name /\ t.cols = ColumnsOfAll(own, own[i].name)
  <2>1. PICK k \in P : own[k].name = own[i].name
    BY <1>2, <1>4
  <2>2. PICK j \in DOMAIN one : one[j] = own[k]
    BY <1>6
  <2>3. r[j] \in Members(r) /\ j \in DOMAIN r
    BY <1>8, <2>2, MembersAt
  <2> QED
    BY <1>10, <2>1, <2>2, <2>3
<1> QED
  BY <1>1, <1>11, <1>12, <1>13 DEF own

\* Each table of A that has columns has them in a table of B.
Preserved(A, B) ==
  \A i \in DOMAIN A : A[i].cols # <<>> =>
    \E t \in Members(B) : ColumnNames(A[i]) \subseteq ColumnNames(t)

\* Normalising a tidy design loses no column, though it may make one table of several.
LEMMA NormalCovers ==
  ASSUME NEW ts, IsDesign(ts), Tidy(ts)
  PROVE  Preserved(ts, Normal(ts))
<1> SUFFICES ASSUME NEW i \in DOMAIN ts, ts[i].cols # <<>>
             PROVE  \E t \in Members(Normal(ts)) : ColumnNames(ts[i]) \subseteq ColumnNames(t)
  BY DEF Preserved
<1> DEFINE own == Own(ts)
           n == own[i].name
<1>1. IsDesign(own) /\ i \in DOMAIN own /\ own[i].cols = ts[i].cols
  BY OwnIs DEF Tidy
<1>2. PICK t \in Members(Normal(ts)) : t.cols = ColumnsOfAll(own, n)
  BY NormalIs
<1> HIDE DEF own
<1>3. ASSUME NEW k \in DOMAIN ts[i].cols PROVE ts[i].cols[k].name \in ColumnNames(t)
  <2>1. <<i, k>> \in Places(own, n) /\ ColumnAt(own, <<i, k>>) = ts[i].cols[k]
    BY <1>1, PlacesAre DEF ColumnAt
  <2>2. PICK q \in FirstPlaces(own, n) : ColumnAt(own, q).name = ts[i].cols[k].name
    BY <1>1, <2>1, OneIsFirst
  <2>3. PICK m \in DOMAIN t.cols : t.cols[m] = ColumnAt(own, q)
    BY <1>1, <1>2, ColumnsOfAllAre
  <2> QED
    BY <2>2, <2>3 DEF ColumnNames
<1> QED
  BY <1>3 DEF ColumnNames

\* A table with columns has names of columns.
LEMMA ColumnsAreNamed ==
  ASSUME NEW A, IsDesign(A), NEW i \in DOMAIN A, A[i].cols # <<>>
  PROVE  ColumnNames(A[i]) # {}
<1>1. A[i].cols \in Seq(Members(A[i].cols))
  BY TablesOfDesign
<1>2. DOMAIN A[i].cols = 1 .. Len(A[i].cols) /\ Len(A[i].cols) \in Nat /\ Len(A[i].cols) # 0
  BY <1>1, PlacesOfSeq
<1>3. 1 \in DOMAIN A[i].cols
  BY <1>2
<1> QED
  BY <1>3 DEF ColumnNames

\* What is preserved twice is preserved.
LEMMA CoversFurther ==
  ASSUME NEW A, NEW B, NEW C, IsDesign(A), IsDesign(B), Preserved(A, B), Preserved(B, C)
  PROVE  Preserved(A, C)
<1> SUFFICES ASSUME NEW i \in DOMAIN A, A[i].cols # <<>>
             PROVE  \E t \in Members(C) : ColumnNames(A[i]) \subseteq ColumnNames(t)
  BY DEF Preserved
<1>1. PICK b \in Members(B) : ColumnNames(A[i]) \subseteq ColumnNames(b)
  BY DEF Preserved
<1>2. PICK j \in DOMAIN B : B[j] = b
  BY MembersAt
<1>3. B[j].cols # <<>>
  <2>1. ColumnNames(b) # {}
    BY <1>1, ColumnsAreNamed
  <2>2. DOMAIN B[j].cols # {}
    BY <1>2, <2>1 DEF ColumnNames
  <2> QED
    BY <2>2
<1>4. PICK t \in Members(C) : ColumnNames(B[j]) \subseteq ColumnNames(t)
  BY <1>3 DEF Preserved
<1> QED
  BY <1>1, <1>2, <1>4

\* A table whose name is standard and no other's keeps its columns.
LEMMA NormalKeepsTable ==
  ASSUME NEW ts, IsDesign(ts), Tidy(ts), NEW i \in DOMAIN ts, ts[i].cols # <<>>,
         \A k \in DOMAIN ts : StandardName(ts[k].name) = ts[k].name,
         \A k \in DOMAIN ts : ts[k].name = ts[i].name => k = i
  PROVE  \E t \in Members(Normal(ts)) :
           /\ t.name = ts[i].name
           /\ \A k \in DOMAIN ts[i].cols : \E m \in DOMAIN t.cols : t.cols[m] = ts[i].cols[k]
<1> DEFINE own == Own(ts)
           n == ts[i].name
<1>1. /\ IsDesign(own) /\ DOMAIN own = DOMAIN ts /\ own[i].cols = ts[i].cols
      /\ \A k \in DOMAIN ts : own[k].name = ts[k].name
  BY OwnIs DEF Tidy
<1>2. PICK t \in Members(Normal(ts)) : t.name = n /\ t.cols = ColumnsOfAll(own, n)
  BY <1>1, NormalIs
<1> HIDE DEF own
<1>3. ASSUME NEW k \in DOMAIN ts[i].cols
      PROVE  \E m \in DOMAIN t.cols : t.cols[m] = ts[i].cols[k]
  <2>1. <<i, k>> \in Places(own, n) /\ ColumnAt(own, <<i, k>>) = ts[i].cols[k]
    BY <1>1, PlacesAre DEF ColumnAt
  <2>2. ASSUME NEW x \in PlaceOrder(Places(own, n)), x[2] = <<i, k>>
        PROVE  ColumnAt(own, x[1]).name # ColumnAt(own, <<i, k>>).name
    <3>1. /\ x[1] \in Places(own, n)
          /\ x[1][1] < x[2][1] \/ (x[1][1] = x[2][1] /\ x[1][2] < x[2][2])
      BY DEF PlaceOrder
    <3>2. x[2][1] = i /\ x[2][2] = k
      BY <2>2
    <3>3. x[1][1] \in DOMAIN own /\ own[x[1][1]].name = n /\ x[1][2] \in DOMAIN own[x[1][1]].cols
      BY <3>1, <1>1, PlacesAre
    <3>4. x[1][1] = i /\ x[1][2] \in DOMAIN ts[i].cols
      BY <3>3, <1>1
    <3>5. i \in Nat /\ k \in Nat /\ x[1][2] \in Nat
      BY <3>4, TablesOfDesign
    <3>6. x[1][2] # k
      BY <3>1, <3>2, <3>4, <3>5
    <3>7. ts[i].cols[x[1][2]].name # ts[i].cols[k].name
      BY <3>4, <3>6 DEF Tidy, OnceEach
    <3>8. ColumnAt(own, x[1]) = ts[i].cols[x[1][2]]
      BY <3>4, <1>1 DEF ColumnAt
    <3> QED
      BY <3>7, <3>8, <2>1
  <2>3. <<i, k>> \in FirstPlaces(own, n)
    BY <2>1, <2>2 DEF FirstPlaces
  <2> QED
    BY <1>1, <1>2, <2>1, <2>3, ColumnsOfAllAre
<1> QED
  BY <1>2, <1>3

-----------------------------------------------------------------------------
(* What the steps of a design keep *)

\* The columns of d have the names of those of b, in their order.
SameNames(b, d) ==
  /\ DOMAIN b.cols = DOMAIN d.cols
  /\ \A k \in DOMAIN b.cols : b.cols[k].name = d.cols[k].name

\* A design D of the tables B.
MadeOf(D, B) ==
  /\ Len(D) = Len(B)
  /\ \A i \in DOMAIN B : B[i].cols # <<>> => SameNames(B[i], D[i])

\* A design of what is made of another, with its names, is made of the other.
LEMMA MadeFurther ==
  ASSUME NEW B, NEW D, NEW E, IsDesign(B), IsDesign(D), IsDesign(E), MadeOf(D, B),
         Len(E) = Len(D), \A i \in DOMAIN D : SameNames(D[i], E[i])
  PROVE  MadeOf(E, B)
<1>1. DOMAIN B = 1 .. Len(B) /\ DOMAIN D = 1 .. Len(D)
  BY TablesOfDesign
<1>2. Len(D) = Len(B) /\ DOMAIN B = DOMAIN D
  BY <1>1 DEF MadeOf
<1>3. ASSUME NEW i \in DOMAIN B, B[i].cols # <<>> PROVE SameNames(B[i], E[i])
  BY <1>2, <1>3 DEF MadeOf, SameNames
<1> QED
  BY <1>2, <1>3 DEF MadeOf

\* A table for the database keeps its name and its columns, if it has any.
LEMMA TabledIs ==
  ASSUME NEW t, IsTable(t)
  PROVE  /\ IsTable(Tabled(t)) /\ Tabled(t).name = t.name
         /\ t.cols # <<>> => Tabled(t).cols = t.cols
<1> DEFINE c == IF t.cols = <<>> THEN <<Pk(t.name)>> ELSE t.cols
           e == IF t.entity = "" THEN t.name ELSE t.entity
           r == IF "refs" \in DOMAIN t THEN t.refs ELSE PkNames([t EXCEPT !.cols = c])
<1>1. Tabled(t) = [name |-> t.name, entity |-> e, cols |-> c, refs |-> r]
  BY DEF Tabled
<1>2. IsColumns(c) /\ (t.cols # <<>> => c = t.cols)
  BY KeyIsColumn DEF IsTable
<1> HIDE DEF c, e, r
<1>3. /\ Tabled(t).name = t.name /\ Tabled(t).cols = c
      /\ IsRecord(Tabled(t), {"name", "entity", "cols"})
  BY <1>1 DEF IsRecord
<1> QED
  BY <1>2, <1>3 DEF IsTable

\* So do all of them.
LEMMA TablesAre ==
  ASSUME NEW ts, IsDesign(ts)
  PROVE  /\ IsDesign(Tables(ts)) /\ Len(Tables(ts)) = Len(ts) /\ MadeOf(Tables(ts), ts)
         /\ \A i \in DOMAIN ts : Tables(ts)[i].name = ts[i].name
<1>1. Len(ts) \in Nat /\ DOMAIN ts = 1 .. Len(ts) /\ \A i \in DOMAIN ts : IsTable(ts[i])
  BY TablesOfDesign
<1>2. /\ DOMAIN Tables(ts) = DOMAIN ts /\ Tables(ts) = [i \in DOMAIN Tables(ts) |-> Tables(ts)[i]]
      /\ \A i \in DOMAIN ts : Tables(ts)[i] = Tabled(ts[i])
  BY DEF Tables
<1>3. \A i \in DOMAIN ts : /\ IsTable(Tables(ts)[i]) /\ Tables(ts)[i].name = ts[i].name
                           /\ ts[i].cols # <<>> => Tables(ts)[i].cols = ts[i].cols
  BY <1>1, <1>2, TabledIs
<1>4. IsDesign(Tables(ts)) /\ Len(Tables(ts)) = Len(ts)
  BY <1>1, <1>2, <1>3, DesignOfTables
<1>5. MadeOf(Tables(ts), ts)
  BY <1>3, <1>4 DEF MadeOf, SameNames
<1> QED
  BY <1>3, <1>4, <1>5

\* The identifiers a model gives change nothing but names.
LEMMA IdentifiedAre ==
  ASSUME NEW ts, IsDesign(ts), NEW us \in Identified(ts)
  PROVE  /\ IsDesign(us) /\ Len(us) = Len(ts)
         /\ \A i \in DOMAIN ts : us[i].name \in Stems /\ us[i].cols = ts[i].cols
<1>1. PICK f \in [DOMAIN ts -> Stems] : us = [i \in DOMAIN ts |-> [ts[i] EXCEPT !.name = f[i]]]
  BY DEF Identified
<1>2. Len(ts) \in Nat /\ DOMAIN ts = 1 .. Len(ts) /\ \A i \in DOMAIN ts : IsTable(ts[i])
  BY TablesOfDesign
<1>3. /\ DOMAIN us = DOMAIN ts /\ us = [i \in DOMAIN us |-> us[i]]
      /\ \A i \in DOMAIN ts : WithName(us[i], ts[i], f[i])
  BY <1>1 DEF WithName
<1>4. \A i \in DOMAIN ts : IsTable(us[i]) /\ us[i].name = f[i] /\ us[i].cols = ts[i].cols
  BY <1>2, <1>3, TableWithName
<1>5. IsDesign(us) /\ Len(us) = Len(ts)
  BY <1>2, <1>3, <1>4, DesignOfTables
<1> QED
  BY <1>4, <1>5

\* What a model writes may make a column a key, and does not rename it.
WithKeys(d, c, x, y) == d = [c EXCEPT !.pk = x, !.fk = y]

LEMMA ColumnWithKeys ==
  ASSUME NEW c, IsColumn(c), NEW x, NEW y, NEW d, WithKeys(d, c, x, y)
  PROVE  IsColumn(d) /\ d.name = c.name
BY DEF IsColumn, IsRecord, WithKeys

\* A model's answer may make a column a key; it does not rename it.
LEMMA MergedColumnIs ==
  ASSUME NEW c, IsColumn(c), NEW m
  PROVE  IsColumn(MergedColumn(c, m)) /\ MergedColumn(c, m).name = c.name
<1>1. MergedColumn(c, m) = c \/ \E x, y : WithKeys(MergedColumn(c, m), c, x, y)
  BY DEF MergedColumn, WithKeys
<1> QED
  BY <1>1, ColumnWithKeys

\* The columns of a table merged with a model's.
MergedColumns(cols, m) == [k \in DOMAIN cols |-> MergedColumn(cols[k], m)]

LEMMA MergedColumnsAre ==
  ASSUME NEW cols, IsColumns(cols), NEW m
  PROVE  /\ IsColumns(MergedColumns(cols, m)) /\ DOMAIN MergedColumns(cols, m) = DOMAIN cols
         /\ \A k \in DOMAIN cols : MergedColumns(cols, m)[k].name = cols[k].name
<1> DEFINE r == MergedColumns(cols, m)
<1>1. /\ DOMAIN r = DOMAIN cols /\ r = [k \in DOMAIN r |-> r[k]]
      /\ \A k \in DOMAIN cols : r[k] = MergedColumn(cols[k], m)
  BY DEF MergedColumns
<1> HIDE DEF r
<1>2. Len(cols) \in Nat /\ DOMAIN cols = 1 .. Len(cols) /\ \A k \in DOMAIN cols : IsColumn(cols[k])
  BY PlacesOfSeq DEF IsColumns, IsColumn, IsSeq
<1>3. \A k \in DOMAIN cols : IsColumn(r[k]) /\ r[k].name = cols[k].name
  BY <1>1, <1>2, MergedColumnIs
<1>4. r \in Seq(Members(r))
  BY <1>1, <1>2, SeqOfPlaces
<1> QED
  BY <1>1, <1>3, <1>4 DEF IsColumns, IsColumn, r, IsSeq

WithColsRefs(u, t, c, r) == u = [t EXCEPT !.cols = c, !.refs = r]

LEMMA TableWithColumnsRefs ==
  ASSUME NEW t, IsTable(t), NEW c, IsColumns(c), NEW r, NEW u, WithColsRefs(u, t, c, r)
  PROVE  IsTable(u) /\ u.name = t.name /\ u.cols = c
BY DEF IsTable, IsRecord, WithColsRefs

\* Whatever a model answers, the merge keeps the tables and the names of their columns.
LEMMA MergedDesignIs ==
  ASSUME NEW D, IsDesign(D), NEW model
  PROVE  /\ IsDesign(MergedDesign(D, model)) /\ Len(MergedDesign(D, model)) = Len(D)
         /\ \A i \in DOMAIN D : /\ MergedDesign(D, model)[i].name = D[i].name
                                /\ SameNames(D[i], MergedDesign(D, model)[i])
<1> DEFINE r == MergedDesign(D, model)
<1>1. /\ DOMAIN r = DOMAIN D /\ r = [i \in DOMAIN r |-> r[i]]
      /\ \A i \in DOMAIN D :
           \/ r[i] = D[i]
           \/ \E m : WithColsRefs(r[i], D[i], MergedColumns(D[i].cols, m), m.refs)
  BY DEF MergedDesign, MergedColumns, WithColsRefs
<1> HIDE DEF r
<1>2. Len(D) \in Nat /\ DOMAIN D = 1 .. Len(D) /\ \A i \in DOMAIN D : IsTable(D[i])
  BY TablesOfDesign
<1>3. ASSUME NEW i \in DOMAIN D
      PROVE  IsTable(r[i]) /\ r[i].name = D[i].name /\ SameNames(D[i], r[i])
  <2>1. CASE r[i] = D[i]
    BY <2>1, <1>2 DEF SameNames
  <2>2. CASE \E m : WithColsRefs(r[i], D[i], MergedColumns(D[i].cols, m), m.refs)
    <3>1. PICK m : WithColsRefs(r[i], D[i], MergedColumns(D[i].cols, m), m.refs)
      BY <2>2
    <3> DEFINE c == MergedColumns(D[i].cols, m)
    <3>2. /\ IsColumns(c) /\ DOMAIN c = DOMAIN D[i].cols
          /\ \A k \in DOMAIN D[i].cols : c[k].name = D[i].cols[k].name
      BY <1>2, MergedColumnsAre DEF IsTable
    <3> HIDE DEF c
    <3>3. IsTable(r[i]) /\ r[i].name = D[i].name /\ r[i].cols = c
      BY <1>2, <3>1, <3>2, TableWithColumnsRefs DEF c
    <3> QED
      BY <3>2, <3>3 DEF SameNames
  <2> QED
    BY <1>1, <2>1, <2>2
<1>4. IsDesign(r) /\ Len(r) = Len(D)
  BY <1>1, <1>2, <1>3, DesignOfTables
<1> QED
  BY <1>3, <1>4 DEF r

WithEntity(u, t, e) == u = [t EXCEPT !.entity = e]

LEMMA TableWithEntity ==
  ASSUME NEW t, IsTable(t), NEW e, NEW u, WithEntity(u, t, e)
  PROVE  IsTable(u) /\ u.name = t.name /\ u.cols = t.cols
BY DEF IsTable, IsRecord, WithEntity

\* Aligning the entity names keeps them too.
LEMMA AlignedIs ==
  ASSUME NEW D, IsDesign(D)
  PROVE  /\ IsDesign(Aligned(D)) /\ Len(Aligned(D)) = Len(D)
         /\ \A i \in DOMAIN D : /\ Aligned(D)[i].name = D[i].name
                                /\ SameNames(D[i], Aligned(D)[i])
<1> DEFINE r == Aligned(D)
<1>1. /\ DOMAIN r = DOMAIN D /\ r = [i \in DOMAIN r |-> r[i]]
      /\ \A i \in DOMAIN D : r[i] = D[i] \/ \E e : WithEntity(r[i], D[i], e)
  BY DEF Aligned, WithEntity
<1> HIDE DEF r
<1>2. Len(D) \in Nat /\ DOMAIN D = 1 .. Len(D) /\ \A i \in DOMAIN D : IsTable(D[i])
  BY TablesOfDesign
<1>3. \A i \in DOMAIN D : IsTable(r[i]) /\ r[i].name = D[i].name /\ r[i].cols = D[i].cols
  BY <1>1, <1>2, TableWithEntity
<1>4. IsDesign(r) /\ Len(r) = Len(D)
  BY <1>1, <1>2, <1>3, DesignOfTables
<1> QED
  BY <1>3, <1>4 DEF r, SameNames

-----------------------------------------------------------------------------
(* The invariant *)

DbStages == {"begin", "specify", "finalize", "check", "validated", "rejected"}

\* The types of the variables.
DbTypes ==
  dbStage \in DbStages /\ dbMode \in {"N", "Y"} /\ source \in Erds /\ reruns \in Nat

\* What a new design is made of.
Given == Normal(source)

\* The reference of a new design is the ERD it was given until it is written to; from then on
\* it covers it, and before anything is refused it has the same tables, which may have names
\* of their own.
ReferenceInv ==
  IF dbStage = "begin" /\ reruns = 0 THEN reference = source
  ELSE /\ IsDesign(reference) /\ Tidy(reference) /\ Preserved(Given, reference)
       /\ dbStage # "begin" =>
            /\ \A i \in DOMAIN reference : reference[i].name \in Stems
            /\ reruns = 0 => /\ Len(reference) = Len(Given)
                             /\ \A i \in DOMAIN Given : reference[i].cols = Given[i].cols

\* Once there is a new design, it is made of the reference, table by table.
DesignInv ==
  dbStage # "begin" =>
    /\ IsDesign(design) /\ MadeOf(design, reference)
    /\ \A i \in DOMAIN design : design[i].name = reference[i].name

\* The invariant.  DbKeepsErd follows from the others in the step that lets a design pass
\* (PassedKeeps); it is about the state after it.
DbInv ==
  dbStage = "off" \/ (DbTypes /\ (dbMode = "N" => ReferenceInv /\ DesignInv /\ DbKeepsErd))

\* Where nothing of a type is wrong there is none.
LEMMA NothingIsWrong ==
  ASSUME NEW bad \in BOOLEAN, NEW type, Type(bad, type) = {}
  PROVE  ~bad
BY DEF Type

\* What the validator lets pass has valid names, no two the same.
LEMMA NoErrors ==
  ASSUME IsDesign(design), DbFailing = {}
  PROVE  /\ \A i \in DOMAIN design : Valid(design[i].name)
         /\ \A i, k \in DOMAIN design : design[i].name = design[k].name => i = k
         /\ \A r \in AllColumns(ReferenceTables), d \in AllColumns(Members(design)) :
              r[1] = d[1] /\ r[2].name = d[2].name => r[2] = d[2]
<1> DEFINE two == {p \in (DOMAIN design) \X (DOMAIN design) : p[1] # p[2]}
           bad1 == \E i \in DOMAIN design : ~Valid(design[i].name)
           bad2 == \E p \in two : design[p[1]].name = design[p[2]].name
           bad3 == \E r \in AllColumns(ReferenceTables), d \in AllColumns(Members(design)) :
                     r[1] = d[1] /\ r[2].name = d[2].name /\ r[2] # d[2]
<1>1. /\ Type(bad1, "DB_TABLE_ID_UNRESOLVED") \subseteq DbErrors(design)
      /\ Type(bad2, "DB_TABLE_NAME_DUPLICATED") \subseteq DbErrors(design)
  BY DEF DbErrors
<1>2. DbErrors(design) \subseteq DbFailing /\ Type(bad3, "DB_KEY_MISMATCH") \subseteq DbFailing
  BY DEF DbFailing
<1>3. /\ bad1 \in BOOLEAN /\ bad2 \in BOOLEAN /\ bad3 \in BOOLEAN
  OBVIOUS
<1>4. /\ Type(bad1, "DB_TABLE_ID_UNRESOLVED") = {} /\ Type(bad2, "DB_TABLE_NAME_DUPLICATED") = {}
      /\ Type(bad3, "DB_KEY_MISMATCH") = {}
  BY <1>1, <1>2
<1> HIDE DEF bad1, bad2, bad3
<1>5. ~bad1 /\ ~bad2 /\ ~bad3
  BY <1>3, <1>4, NothingIsWrong
<1>6. ASSUME NEW i \in DOMAIN design, NEW k \in DOMAIN design, i # k
      PROVE  design[i].name # design[k].name
  <2>1. <<i, k>> \in two
    BY <1>6
  <2> HIDE DEF two
  <2>2. <<i, k>>[1] = i /\ <<i, k>>[2] = k
    OBVIOUS
  <2> QED
    BY <1>5, <2>1, <2>2 DEF bad2
<1> QED
  BY <1>5, <1>6 DEF bad1, bad3

\* A table with the columns of one of the reference that passes has also its keys.
LEMMA SameKeysPass ==
  ASSUME IsDesign(reference), Tidy(reference), IsDesign(design), Len(design) = Len(reference),
         \A i \in DOMAIN reference : reference[i].name \in Stems,
         \A i \in DOMAIN design : design[i].name = reference[i].name,
         DbFailing = {},
         NEW i \in DOMAIN reference, reference[i].cols # <<>>,
         SameNames(reference[i], design[i])
  PROVE  design[i].cols = reference[i].cols
<1>1. DOMAIN reference = DOMAIN design
  BY TablesOfDesign
<1>2. /\ \A k \in DOMAIN design : Valid(design[k].name)
      /\ \A k, m \in DOMAIN design : design[k].name = design[m].name => k = m
      /\ \A r \in AllColumns(ReferenceTables), d \in AllColumns(Members(design)) :
           r[1] = d[1] /\ r[2].name = d[2].name => r[2] = d[2]
  BY NoErrors
<1>3. \A k \in DOMAIN reference : StandardName(reference[k].name) = reference[k].name
  BY <1>1, <1>2, DbAssumption DEF Valid
<1>4. \A k \in DOMAIN reference : reference[k].name = reference[i].name => k = i
  BY <1>1, <1>2
<1>5. PICK t \in Members(Normal(reference)) :
        /\ t.name = reference[i].name
        /\ \A k \in DOMAIN reference[i].cols :
             \E m \in DOMAIN t.cols : t.cols[m] = reference[i].cols[k]
  BY <1>3, <1>4, NormalKeepsTable
<1>6. t \in ReferenceTables
  BY <1>5 DEF ReferenceTables, Names
<1>7. ASSUME NEW k \in DOMAIN reference[i].cols
      PROVE  design[i].cols[k] = reference[i].cols[k]
  <2>1. PICK m \in DOMAIN t.cols : t.cols[m] = reference[i].cols[k]
    BY <1>5
  <2> DEFINE r == <<t.name, t.cols[m]>>
             d == <<design[i].name, design[i].cols[k]>>
  <2>2. r \in AllColumns(ReferenceTables)
    BY <1>6 DEF AllColumns, ColumnsOf
  <2>3. d \in AllColumns(Members(design))
    <3>1. design[i] \in Members(design) /\ k \in DOMAIN design[i].cols
      BY <1>1, MembersAt DEF SameNames
    <3> QED
      BY <3>1 DEF AllColumns, ColumnsOf
  <2>4. r[1] = d[1] /\ r[2] = reference[i].cols[k] /\ d[2] = design[i].cols[k]
    BY <1>1, <1>5, <2>1
  <2>5. r[2].name = d[2].name
    BY <2>4 DEF SameNames
  <2> HIDE DEF r, d
  <2> QED
    BY <1>2, <2>2, <2>3, <2>4, <2>5
<1>8. /\ reference[i].cols = [k \in DOMAIN reference[i].cols |-> reference[i].cols[k]]
      /\ design[i].cols = [k \in DOMAIN design[i].cols |-> design[i].cols[k]]
  <2>1. /\ reference[i].cols \in Seq(Members(reference[i].cols))
        /\ design[i].cols \in Seq(Members(design[i].cols))
    BY <1>1, TablesOfDesign
  <2> QED
    BY <2>1, PlacesOfSeq
<1>9. DOMAIN design[i].cols = DOMAIN reference[i].cols
  BY DEF SameNames
<1> QED
  BY <1>7, <1>8, <1>9

\* What a run was given is a design, also once normalised.
LEMMA GivenIsDesign ==
  ASSUME DbTypes
  PROVE  IsDesign(Given)
<1>1. IsDesign(source)
  BY DbAssumption DEF DbTypes
<1> QED
  BY <1>1, NormalIs DEF Given

\* What DbKeepsErd says of a new design that is accepted.
KeepsErd ==
  /\ \A t \in {u \in Members(Given) : u.cols # <<>>} : \E d \in Members(design) :
       /\ ColumnNames(t) \subseteq ColumnNames(d)
       /\ reruns = 0 => SameKeys(t, d)
  /\ reruns = 0 => Len(design) = Len(Given)

\* Column by column the same names are the same names.
LEMMA SameNamesAre ==
  ASSUME NEW b, NEW d, SameNames(b, d)
  PROVE  ColumnNames(b) = ColumnNames(d)
BY DEF SameNames, ColumnNames

\* A design the validator lets pass keeps what it was made of.
LEMMA PassedKeeps ==
  ASSUME DbTypes, ReferenceInv, DesignInv, dbStage = "check", DbFailing = {}
  PROVE  KeepsErd
<1>0. IsDesign(Given) /\ IsDesign(design) /\ MadeOf(design, reference) /\ dbStage # "begin"
  BY GivenIsDesign DEF DesignInv
<1>1. /\ IsDesign(reference) /\ Tidy(reference) /\ Preserved(Given, reference)
      /\ \A i \in DOMAIN reference : reference[i].name \in Stems
      /\ reruns = 0 => /\ Len(reference) = Len(Given)
                       /\ \A i \in DOMAIN Given : reference[i].cols = Given[i].cols
  BY <1>0 DEF ReferenceInv
<1>2. /\ Len(design) = Len(reference)
      /\ \A i \in DOMAIN reference :
           reference[i].cols # <<>> => SameNames(reference[i], design[i])
      /\ \A i \in DOMAIN design : design[i].name = reference[i].name
  BY <1>0 DEF DesignInv, MadeOf
<1>3. DOMAIN reference = DOMAIN design /\ (reruns = 0 => DOMAIN Given = DOMAIN reference)
  <2>1. /\ DOMAIN reference = 1 .. Len(reference) /\ DOMAIN design = 1 .. Len(design)
        /\ DOMAIN Given = 1 .. Len(Given)
    BY <1>0, <1>1, TablesOfDesign
  <2> QED
    BY <2>1, <1>1, <1>2
<1>4. ASSUME NEW t \in Members(Given), t.cols # <<>>, reruns = 0
      PROVE  \E d \in Members(design) : d.cols = t.cols
  <2>1. PICK i \in DOMAIN Given : Given[i] = t
    BY MembersAt
  <2>2. i \in DOMAIN reference /\ reference[i].cols = t.cols
    BY <1>1, <1>3, <1>4, <2>1
  <2>3. SameNames(reference[i], design[i])
    BY <1>2, <1>4, <2>2
  <2>4. design[i].cols = reference[i].cols
    BY <1>0, <1>1, <1>2, <1>4, <2>2, <2>3, SameKeysPass
  <2>5. design[i] \in Members(design)
    BY <1>3, <2>2, MembersAt
  <2> QED
    BY <2>2, <2>4, <2>5
<1>5. ASSUME NEW t \in Members(Given), t.cols # <<>>
      PROVE  \E d \in Members(design) : ColumnNames(t) \subseteq ColumnNames(d)
  <2>1. PICK i \in DOMAIN Given : Given[i] = t
    BY MembersAt
  <2>2. PICK b \in Members(reference) : ColumnNames(t) \subseteq ColumnNames(b)
    BY <1>1, <1>5, <2>1 DEF Preserved
  <2>3. PICK j \in DOMAIN reference : reference[j] = b
    BY MembersAt
  <2>4. reference[j].cols # <<>>
    <3>1. ColumnNames(t) # {}
      BY <1>0, <1>5, <2>1, ColumnsAreNamed
    <3>2. ColumnNames(reference[j]) # {}
      BY <2>2, <2>3, <3>1
    <3>3. DOMAIN reference[j].cols # {}
      BY <3>2 DEF ColumnNames
    <3> QED
      BY <3>3
  <2>5. ColumnNames(b) = ColumnNames(design[j])
    BY <1>2, <2>3, <2>4, SameNamesAre
  <2>6. design[j] \in Members(design)
    BY <1>3, <2>3, MembersAt
  <2> QED
    BY <2>2, <2>5, <2>6
<1>6. ASSUME NEW t \in Members(Given), t.cols # <<>>
      PROVE  \E d \in Members(design) :
               /\ ColumnNames(t) \subseteq ColumnNames(d)
               /\ reruns = 0 => SameKeys(t, d)
  <2>1. CASE reruns = 0
    <3>1. PICK d \in Members(design) : d.cols = t.cols
      BY <1>4, <1>6, <2>1
    <3> QED
      BY <3>1 DEF SameKeys, ColumnNames
  <2>2. CASE reruns # 0
    BY <1>5, <1>6, <2>2
  <2> QED
    BY <2>1, <2>2
<1>7. reruns = 0 => Len(design) = Len(Given)
  BY <1>1, <1>2
<1> QED
  BY <1>6, <1>7 DEF KeepsErd

-----------------------------------------------------------------------------
(* The steps *)

\* A design of the same columns preserves them.
LEMMA CoversItself ==
  ASSUME NEW A, NEW C, IsDesign(A), Len(C) = Len(A), IsDesign(C),
         \A i \in DOMAIN A : C[i].cols = A[i].cols
  PROVE  Preserved(A, C)
<1>1. DOMAIN A = DOMAIN C
  BY TablesOfDesign
<1>2. ASSUME NEW i \in DOMAIN A
      PROVE  C[i] \in Members(C) /\ ColumnNames(A[i]) = ColumnNames(C[i])
  BY <1>1, MembersAt DEF ColumnNames
<1> QED
  BY <1>2 DEF Preserved

\* The first run's reference, normalised, is what was given; a later one's covers it.
LEMMA NormalReference ==
  ASSUME DbTypes, ReferenceInv, dbStage = "begin"
  PROVE  /\ IsDesign(Normal(reference)) /\ Tidy(Normal(reference))
         /\ Preserved(Given, Normal(reference))
         /\ reruns = 0 => Normal(reference) = Given
<1>1. CASE reruns = 0
  <2>1. reference = source /\ IsDesign(source) /\ Given = Normal(source)
    BY <1>1, DbAssumption DEF ReferenceInv, DbTypes, Given
  <2>2. IsDesign(Normal(source)) /\ Tidy(Normal(source))
    BY <2>1, NormalIs
  <2> QED
    BY <2>1, <2>2, CoversItself
<1>2. CASE reruns # 0
  <2>1. IsDesign(reference) /\ Tidy(reference) /\ Preserved(Given, reference)
    BY <1>2 DEF ReferenceInv
  <2>2. Preserved(reference, Normal(reference))
    BY <2>1, NormalCovers
  <2> QED
    BY <1>2, <2>1, <2>2, NormalIs, GivenIsDesign, CoversFurther
<1> QED
  BY <1>1, <1>2

\* The first design has the tables and columns of the reference it replaces.
LEMMA CreateDbKeeps ==
  ASSUME DbTypes, ReferenceInv, CreateDb
  PROVE  ReferenceInv' /\ DesignInv'
<1>1. PICK ts \in Identified(Normal(reference)) :
        reference' = ts /\ DbGoes("begin", "specify", Tables(ts))
  BY DEF CreateDb
<1>2. /\ dbMode = "N" /\ dbStage = "begin" /\ dbStage' = "specify" /\ design' = Tables(ts)
      /\ dbMode' = dbMode /\ source' = source /\ reruns' = reruns
  BY <1>1 DEF CreateDb, DbGoes
<1>3. Given' = Given
  BY <1>2 DEF Given
<1>4. /\ IsDesign(Normal(reference)) /\ Tidy(Normal(reference))
      /\ Preserved(Given, Normal(reference))
      /\ reruns = 0 => Normal(reference) = Given
  BY <1>2, NormalReference
<1>5. /\ IsDesign(ts) /\ Len(ts) = Len(Normal(reference))
      /\ \A i \in DOMAIN Normal(reference) :
           ts[i].name \in Stems /\ ts[i].cols = Normal(reference)[i].cols
  BY <1>4, IdentifiedAre
<1>6. DOMAIN ts = DOMAIN Normal(reference)
  BY <1>4, <1>5, TablesOfDesign
<1>7. Tidy(ts)
  BY <1>4, <1>5, <1>6 DEF Tidy
<1>8. Preserved(Given, ts)
  <2>1. Preserved(Normal(reference), ts)
    BY <1>4, <1>5, CoversItself
  <2> QED
    BY <2>1, <1>4, GivenIsDesign, CoversFurther
<1>9. ReferenceInv'
  BY <1>1, <1>2, <1>3, <1>4, <1>5, <1>6, <1>7, <1>8 DEF ReferenceInv
<1>10. /\ IsDesign(Tables(ts)) /\ Len(Tables(ts)) = Len(ts) /\ MadeOf(Tables(ts), ts)
       /\ \A i \in DOMAIN ts : Tables(ts)[i].name = ts[i].name
  BY <1>5, TablesAre
<1>11. DOMAIN Tables(ts) = DOMAIN ts
  BY <1>5, <1>10, TablesOfDesign
<1> QED
  BY <1>1, <1>2, <1>9, <1>10, <1>11 DEF DesignInv

\* A step that merges a model's answer into the design keeps what it is made of.
LEMMA AnswerKeeps ==
  ASSUME DbTypes, ReferenceInv, DesignInv, NEW E, IsDesign(E), Len(E) = Len(design),
         \A i \in DOMAIN design : E[i].name = design[i].name /\ SameNames(design[i], E[i]),
         design' = E, dbStage # "begin", dbStage' # "begin",
         UNCHANGED <<dbMode, source, reference, reruns>>
  PROVE  ReferenceInv' /\ DesignInv'
<1>1. Given' = Given
  BY DEF Given
<1>2. IsDesign(design) /\ MadeOf(design, reference)
  BY DEF DesignInv
<1>3. IsDesign(reference)
  BY DEF ReferenceInv
<1>4. MadeOf(E, reference)
  BY <1>2, <1>3, MadeFurther
<1>5. DOMAIN E = DOMAIN design
  BY <1>2, TablesOfDesign
<1>6. ReferenceInv'
  BY <1>1 DEF ReferenceInv
<1>7. DesignInv'
  BY <1>1, <1>4, <1>5 DEF DesignInv
<1> QED
  BY <1>6, <1>7

\* The two answers of a model are merged into the design.
LEMMA SpecifyKeeps ==
  ASSUME DbTypes, ReferenceInv, DesignInv, Specify
  PROVE  ReferenceInv' /\ DesignInv'
<1>1. PICK model : DbGoes("specify", "finalize", MergedDesign(design, Tables(model)))
  BY DEF Specify
<1> DEFINE E == MergedDesign(design, Tables(model))
<1>2. /\ dbStage = "specify" /\ dbStage' = "finalize" /\ design' = E
      /\ UNCHANGED <<dbMode, source, reference, reruns>>
  BY <1>1 DEF Specify, DbGoes
<1>3. IsDesign(design)
  BY <1>2 DEF DesignInv
<1>4. /\ IsDesign(E) /\ Len(E) = Len(design)
      /\ \A i \in DOMAIN design : E[i].name = design[i].name /\ SameNames(design[i], E[i])
  BY <1>3, MergedDesignIs
<1> HIDE DEF E
<1> QED
  BY <1>2, <1>4, AnswerKeeps

\* The second one, with the entity names aligned.
LEMMA FinalizeKeeps ==
  ASSUME DbTypes, ReferenceInv, DesignInv, Finalize
  PROVE  ReferenceInv' /\ DesignInv'
<1>1. PICK model : DbGoes("finalize", "check", Aligned(MergedDesign(design, Tables(model))))
  BY DEF Finalize
<1> DEFINE M == MergedDesign(design, Tables(model))
           E == Aligned(M)
<1>2. /\ dbStage = "finalize" /\ dbStage' = "check" /\ design' = E
      /\ UNCHANGED <<dbMode, source, reference, reruns>>
  BY <1>1 DEF Finalize, DbGoes
<1>3. IsDesign(design)
  BY <1>2 DEF DesignInv
<1>4. /\ IsDesign(M) /\ Len(M) = Len(design)
      /\ \A i \in DOMAIN design : M[i].name = design[i].name /\ SameNames(design[i], M[i])
  BY <1>3, MergedDesignIs
<1> HIDE DEF M
<1>5. /\ IsDesign(E) /\ Len(E) = Len(M)
      /\ \A i \in DOMAIN M : E[i].name = M[i].name /\ SameNames(M[i], E[i])
  BY <1>4, AlignedIs
<1>6. DOMAIN M = DOMAIN design
  BY <1>3, <1>4, TablesOfDesign
<1> HIDE DEF E
<1>7. /\ Len(E) = Len(design)
      /\ \A i \in DOMAIN design : E[i].name = design[i].name /\ SameNames(design[i], E[i])
  BY <1>4, <1>5, <1>6 DEF SameNames
<1> QED
  BY <1>2, <1>5, <1>7, AnswerKeeps

\* What passes keeps the ERD; what is refused is made again of a reference that covers it.
LEMMA CheckDbKeeps ==
  ASSUME DbTypes, ReferenceInv, DesignInv, CheckDb
  PROVE  ReferenceInv' /\ DesignInv' /\ DbKeepsErd'
<1>1. dbStage = "check" /\ UNCHANGED <<dbMode, source, reference>>
  BY DEF CheckDb
<1>2. Given' = Given
  BY <1>1 DEF Given
<1>3. CASE DbFailing = {}
  <2>1. dbStage' = "validated" /\ UNCHANGED <<design, reruns>>
    BY <1>3 DEF CheckDb
  <2>2. KeepsErd
    BY <1>1, <1>3, PassedKeeps
  <2>3. DbKeepsErd'
    BY <1>1, <1>2, <2>1, <2>2 DEF KeepsErd, DbKeepsErd, Given
  <2>4. ReferenceInv'
    BY <1>1, <1>2, <2>1 DEF ReferenceInv
  <2>5. DesignInv'
    BY <1>1, <2>1 DEF DesignInv
  <2> QED
    BY <2>3, <2>4, <2>5
<1>4. CASE DbFailing # {} /\ reruns < MaxReruns
  <2>1. dbStage' = "begin" /\ reruns' = reruns + 1 /\ reruns \in Nat
    BY <1>4 DEF CheckDb, DbTypes
  <2>2. reruns' # 0
    BY <2>1
  <2> QED
    BY <1>1, <1>2, <2>1, <2>2 DEF ReferenceInv, DesignInv, DbKeepsErd
<1>5. CASE DbFailing # {} /\ ~(reruns < MaxReruns)
  <2>1. dbStage' = "rejected" /\ UNCHANGED <<design, reruns>>
    BY <1>5 DEF CheckDb
  <2> QED
    BY <1>1, <1>2, <2>1 DEF ReferenceInv, DesignInv, DbKeepsErd
<1> QED
  BY <1>3, <1>4, <1>5

\* It holds before a design is begun and when it begins.
LEMMA DbInvInit == DbOff \/ DbBegun => DbInv
<1>1. DbOff => DbInv
  BY DEF DbOff, DbInv
<1>2. ASSUME DbBegun PROVE DbInv
  <2>1. DbTypes
    BY <1>2 DEF DbBegun, DbTypes, DbStages
  <2>2. dbMode = "N" => ReferenceInv /\ DesignInv /\ DbKeepsErd
    BY <1>2 DEF DbBegun, ReferenceInv, DesignInv, DbKeepsErd
  <2> QED
    BY <2>1, <2>2 DEF DbInv
<1> QED
  BY <1>1, <1>2

\* And every step keeps it.
LEMMA DbInvStep == DbInv /\ [DbNext]_dbVars => DbInv'
<1> SUFFICES ASSUME DbInv, [DbNext]_dbVars PROVE DbInv'
  OBVIOUS
<1>1. CASE dbStage = "off"
  <2>1. ~DbNext
    BY <1>1 DEF DbNext, CreateDb, UpdateDb, Specify, Finalize, CheckDb, DbGoes
  <2>2. dbStage' = "off"
    BY <1>1, <2>1 DEF dbVars
  <2> QED
    BY <2>2 DEF DbInv
<1>2. CASE dbStage # "off"
  <2>1. DbTypes
    BY <1>2 DEF DbInv
  <2>2. dbMode' = dbMode
    BY DEF DbNext, CreateDb, UpdateDb, Specify, Finalize, CheckDb, DbGoes, dbVars
  <2>3. DbTypes'
    BY <2>1 DEF DbTypes, DbStages, DbNext, CreateDb, UpdateDb, Specify, Finalize, CheckDb, DbGoes, dbVars
  <2>4. ASSUME dbMode = "N" PROVE ReferenceInv' /\ DesignInv' /\ DbKeepsErd'
    <3>0. ReferenceInv /\ DesignInv /\ DbKeepsErd
      BY <1>2, <2>4 DEF DbInv
    <3>1. CASE CreateDb
      <4>1. ReferenceInv' /\ DesignInv'
        BY <2>1, <3>0, <3>1, CreateDbKeeps
      <4>2. DbKeepsErd'
        BY <3>1 DEF CreateDb, DbGoes, DbKeepsErd
      <4> QED
        BY <4>1, <4>2
    <3>2. CASE UpdateDb
      BY <2>4, <3>2 DEF UpdateDb
    <3>3. CASE Specify
      <4>1. ReferenceInv' /\ DesignInv'
        BY <2>1, <3>0, <3>3, SpecifyKeeps
      <4>2. DbKeepsErd'
        BY <3>3 DEF Specify, DbGoes, DbKeepsErd
      <4> QED
        BY <4>1, <4>2
    <3>4. CASE Finalize
      <4>1. ReferenceInv' /\ DesignInv'
        BY <2>1, <3>0, <3>4, FinalizeKeeps
      <4>2. DbKeepsErd'
        BY <3>4 DEF Finalize, DbGoes, DbKeepsErd
      <4> QED
        BY <4>1, <4>2
    <3>5. CASE CheckDb
      BY <2>1, <3>0, <3>5, CheckDbKeeps
    <3>6. CASE UNCHANGED dbVars
      <4>1. Given' = Given
        BY <3>6 DEF dbVars, Given
      <4>2. ReferenceInv' /\ DesignInv'
        BY <3>0, <3>6, <4>1 DEF dbVars, ReferenceInv, DesignInv
      <4>3. DbKeepsErd'
        BY <3>0, <3>6 DEF dbVars, DbKeepsErd
      <4> QED
        BY <4>2, <4>3
    <3> QED
      BY <3>1, <3>2, <3>3, <3>4, <3>5, <3>6 DEF DbNext
  <2> QED
    BY <2>2, <2>3, <2>4 DEF DbInv
<1> QED
  BY <1>1, <1>2

\* The invariant holds for any ERDs, answers, names and number of reruns: in every state of a
\* new design the reference covers the ERD and the design is made of the reference.
THEOREM DbInvHolds == DbSpec => []DbInv
BY DbInvInit, DbInvStep, PTL DEF DbSpec

\* A new design the validator lets pass (db_validator.py, agent.py:_create_db) has every table
\* with columns of the ERD, with its columns, whatever the models wrote; one that was never
\* refused has as many tables, the same columns and the same keys.
THEOREM DesignKeepsErd == DbSpec => []DbKeepsErd
<1>1. DbInv => DbKeepsErd
  BY DEF DbInv, DbKeepsErd
<1> QED
  BY <1>1, DbInvHolds, PTL

-----------------------------------------------------------------------------
(* Lists and what is in them *)

\* A list has its elements at the places from one on.
LEMMA ListIs ==
  ASSUME NEW s, IsSeq(s)
  PROVE  /\ s \in Seq(Members(s)) /\ Len(s) \in Nat /\ DOMAIN s = 1 .. Len(s)
         /\ s = [k \in DOMAIN s |-> s[k]]
         /\ \A k \in DOMAIN s : k \in Nat /\ s[k] \in Members(s)
<1>1. s \in Seq(Members(s))
  BY DEF IsSeq
<1>2. Len(s) \in Nat /\ DOMAIN s = 1 .. Len(s) /\ s = [k \in DOMAIN s |-> s[k]]
  BY <1>1, PlacesOfSeq
<1> QED
  BY <1>1, <1>2, MembersAt

\* A list has finitely many places.
LEMMA ListIsFinite ==
  ASSUME NEW s, IsSeq(s)
  PROVE  IsFiniteSet(DOMAIN s)
<1>1. Len(s) \in Nat /\ DOMAIN s = 1 .. Len(s)
  BY ListIs
<1> QED
  BY <1>1, FS_Interval

\* What has its places from one to n is a list as long.
LEMMA ListOf ==
  ASSUME NEW n \in Nat, NEW s, DOMAIN s = 1 .. n, s = [k \in DOMAIN s |-> s[k]]
  PROVE  IsSeq(s) /\ Len(s) = n
BY SeqOfPlaces DEF IsSeq

\* The empty list is one.
LEMMA NoneIsList == IsSeq(<<>>) /\ DOMAIN <<>> = {}
<1>1. <<>> \in Seq(Members(<<>>))
  OBVIOUS
<1> QED
  BY <1>1 DEF IsSeq

\* So is the list of one element.
LEMMA OneIsList ==
  ASSUME NEW x
  PROVE  IsSeq(<<x>>) /\ DOMAIN <<x>> = {1} /\ <<x>>[1] = x
<1>1. <<x>> \in Seq({x}) /\ Members(<<x>>) = {x} /\ DOMAIN <<x>> = {1} /\ <<x>>[1] = x
  BY DEF Members
<1> QED
  BY <1>1 DEF IsSeq

\* Two lists, one after the other, have the elements of both.
LEMMA ListsJoined ==
  ASSUME NEW s, IsSeq(s), NEW t, IsSeq(t)
  PROVE  /\ IsSeq(s \o t) /\ Len(s \o t) = Len(s) + Len(t)
         /\ \A k \in DOMAIN (s \o t) : \/ \E i \in DOMAIN s : (s \o t)[k] = s[i]
                                       \/ \E i \in DOMAIN t : (s \o t)[k] = t[i]
         /\ \A i \in DOMAIN s : i \in DOMAIN (s \o t) /\ (s \o t)[i] = s[i]
         /\ \A i \in DOMAIN t : Len(s) + i \in DOMAIN (s \o t) /\ (s \o t)[Len(s) + i] = t[i]
<1> DEFINE S == Members(s) \cup Members(t)
           u == s \o t
<1>1. s \in Seq(S) /\ t \in Seq(S) /\ Len(s) \in Nat /\ Len(t) \in Nat
  <2>1. s \in [1 .. Len(s) -> S] /\ Len(s) \in Nat
    BY ListIs
  <2>2. t \in [1 .. Len(t) -> S] /\ Len(t) \in Nat
    BY ListIs
  <2> HIDE DEF S
  <2> QED
    BY <2>1, <2>2, SeqOfFunction
<1> HIDE DEF S
<1>2. u \in Seq(S) /\ Len(u) = Len(s) + Len(t) /\ DOMAIN u = 1 .. Len(s) + Len(t)
      /\ u = [k \in DOMAIN u |-> u[k]]
  BY <1>1, SeqIsFunction
<1>3. /\ \A k \in DOMAIN u : \/ \E i \in DOMAIN s : u[k] = s[i]
                             \/ \E i \in DOMAIN t : u[k] = t[i]
  BY <1>1, FollowsFrom
<1>4. /\ DOMAIN s = 1 .. Len(s) /\ DOMAIN t = 1 .. Len(t)
  BY ListIs
<1>5. /\ \A i \in 1 .. Len(s) : u[i] = s[i]
      /\ \A i \in 1 .. Len(t) : u[Len(s) + i] = t[i]
  BY <1>1
<1>6. /\ \A i \in 1 .. Len(s) : i \in 1 .. Len(s) + Len(t)
      /\ \A i \in 1 .. Len(t) : Len(s) + i \in 1 .. Len(s) + Len(t)
  BY <1>1
<1> HIDE DEF u
<1>7. IsSeq(u)
  <2>1. Len(s) + Len(t) \in Nat
    BY <1>1
  <2> QED
    BY <1>2, <2>1, ListOf
<1> QED
  BY <1>2, <1>3, <1>4, <1>5, <1>6, <1>7 DEF u

\* A list with one more element at its end.
LEMMA ListAppended ==
  ASSUME NEW s, IsSeq(s), NEW x
  PROVE  /\ IsSeq(Append(s, x)) /\ Len(Append(s, x)) = Len(s) + 1
         /\ \A k \in DOMAIN s : k \in DOMAIN Append(s, x) /\ Append(s, x)[k] = s[k]
         /\ Len(s) + 1 \in DOMAIN Append(s, x) /\ Append(s, x)[Len(s) + 1] = x
         /\ \A k \in DOMAIN Append(s, x) : k \in DOMAIN s \/ k = Len(s) + 1
<1> DEFINE S == Members(s) \cup {x}
           u == Append(s, x)
<1>1. s \in [1 .. Len(s) -> S] /\ Len(s) \in Nat /\ DOMAIN s = 1 .. Len(s)
  BY ListIs
<1>2. s \in Seq(S) /\ x \in S
  <2>1. x \in S
    OBVIOUS
  <2> HIDE DEF S
  <2> QED
    BY <1>1, <2>1, SeqOfFunction
<1> HIDE DEF S
<1>3. /\ u \in Seq(S) /\ Len(u) = Len(s) + 1 /\ DOMAIN u = 1 .. Len(s) + 1
      /\ \A k \in 1 .. Len(s) : u[k] = s[k]
      /\ u[Len(s) + 1] = x
  BY <1>2, <1>1
<1>4. u = [k \in DOMAIN u |-> u[k]] /\ Len(s) + 1 \in Nat
  <2>1. \A v : v \in Seq(S) => v \in [1 .. Len(v) -> S]
    OBVIOUS
  <2>2. u \in [1 .. Len(u) -> S]
    BY <1>3, <2>1
  <2> HIDE DEF u
  <2> QED
    BY <2>2, <1>1
<1>5. /\ \A k \in 1 .. Len(s) : k \in 1 .. Len(s) + 1
      /\ Len(s) + 1 \in 1 .. Len(s) + 1
      /\ \A k \in 1 .. Len(s) + 1 : k \in 1 .. Len(s) \/ k = Len(s) + 1
  BY <1>1
<1> HIDE DEF u
<1>6. IsSeq(u)
  BY <1>3, <1>4, ListOf
<1> QED
  BY <1>1, <1>3, <1>5, <1>6 DEF u

\* Some of a list are a list.
LEMMA ListPicked ==
  ASSUME NEW s, IsSeq(s), NEW P \in SUBSET DOMAIN s
  PROVE  /\ IsSeq(Pick(s, P))
         /\ \A k \in DOMAIN Pick(s, P) : \E i \in P : Pick(s, P)[k] = s[i]
         /\ \A i \in P : \E k \in DOMAIN Pick(s, P) : Pick(s, P)[k] = s[i]
<1>1. s \in Seq(Members(s)) /\ DOMAIN s = 1 .. Len(s) /\ Len(s) \in Nat
  BY ListIs
<1>2. P \in SUBSET (1 .. Len(s))
  BY <1>1
<1>3. /\ Cardinality(P) \in Nat /\ DOMAIN Pick(s, P) = 1 .. Cardinality(P)
      /\ Pick(s, P) = [k \in DOMAIN Pick(s, P) |-> Pick(s, P)[k]]
      /\ \A k \in 1 .. Cardinality(P) : Enumeration(P)[k] \in P /\ Pick(s, P)[k] = s[Enumeration(P)[k]]
  <2>1. /\ Cardinality(P) \in Nat
        /\ \A k \in 1 .. Cardinality(P) : Enumeration(P)[k] \in P /\ Pick(s, P)[k] = s[Enumeration(P)[k]]
    BY <1>1, <1>2, PickProperties
  <2> QED
    BY <2>1 DEF Pick
<1>4. \A i \in P : \E k \in DOMAIN Pick(s, P) : Pick(s, P)[k] = s[i]
  BY <1>1, <1>2, PickKeeps
<1> QED
  BY <1>3, <1>4, ListOf

\* A list in which one element is replaced.
Replaced(u, s, i, x) == u = [s EXCEPT ![i] = x]

\* A list with another element at one of its places.
LEMMA ListReplaced ==
  ASSUME NEW s, IsSeq(s), NEW i \in DOMAIN s, NEW x, NEW u, Replaced(u, s, i, x)
  PROVE  /\ IsSeq(u) /\ DOMAIN u = DOMAIN s /\ Len(u) = Len(s) /\ u[i] = x
         /\ \A k \in DOMAIN s : k # i => u[k] = s[k]
<1>1. Len(s) \in Nat /\ DOMAIN s = 1 .. Len(s)
  BY ListIs
<1>2. /\ DOMAIN u = DOMAIN s /\ u = [k \in DOMAIN u |-> u[k]] /\ u[i] = x
      /\ \A k \in DOMAIN s : k # i => u[k] = s[k]
  BY DEF Replaced
<1> QED
  BY <1>1, <1>2, ListOf

\* The greatest and the least of places.
LEMMA GreatestPlace ==
  ASSUME NEW s, IsSeq(s), NEW P \in SUBSET DOMAIN s, P # {}
  PROVE  Sets!Max(P) \in P /\ Sets!Min(P) \in P
<1>1. Len(s) \in Nat /\ DOMAIN s = 1 .. Len(s)
  BY ListIs
<1>2. P \in SUBSET (0 .. Len(s)) /\ P \in SUBSET Nat
  <2>1. \A k \in 1 .. Len(s) : k \in 0 .. Len(s) /\ k \in Nat
    BY <1>1
  <2> QED
    BY <1>1, <2>1
<1>3. \E m \in P : \A n \in P : n <= m
  BY <1>1, <1>2, GreatestNatural
<1>4. \E m \in P : \A n \in P : m <= n
  BY <1>2, LeastNatural
<1>5. \A m, n \in P : (m >= n <=> n <= m) /\ (m <= n <=> n >= m)
  BY <1>2
<1> QED
  BY <1>3, <1>4, <1>5 DEF Sets!Max, Sets!Min

-----------------------------------------------------------------------------
(* Tables and documents *)

\* Lists of tables are designs.
LEMMA DesignIs ==
  ASSUME NEW ts
  PROVE  IsDesign(ts) <=> IsSeq(ts) /\ \A i \in DOMAIN ts : IsTable(ts[i])
BY DEF IsDesign

\* Two designs, one after the other, are a design.
LEMMA DesignsJoined ==
  ASSUME NEW ts, IsDesign(ts), NEW us, IsDesign(us)
  PROVE  IsDesign(ts \o us)
<1>1. \A k \in DOMAIN (ts \o us) : IsTable((ts \o us)[k])
  BY ListsJoined, DesignIs
<1> QED
  BY <1>1, ListsJoined, DesignIs

\* Some tables of a design are a design.
LEMMA DesignPicked ==
  ASSUME NEW ts, IsDesign(ts), NEW P \in SUBSET DOMAIN ts
  PROVE  IsDesign(Pick(ts, P))
<1>1. \A k \in DOMAIN Pick(ts, P) : IsTable(Pick(ts, P)[k])
  BY ListPicked, DesignIs
<1> QED
  BY <1>1, ListPicked, DesignIs

\* A design with another table at one of its places is one.
LEMMA DesignReplaced ==
  ASSUME NEW ts, IsDesign(ts), NEW i \in DOMAIN ts, NEW t, IsTable(t), NEW us, Replaced(us, ts, i, t)
  PROVE  IsDesign(us)
<1>1. \A k \in DOMAIN us : IsTable(us[k])
  BY ListReplaced, DesignIs
<1> QED
  BY <1>1, ListReplaced, DesignIs

\* No document is one.
LEMMA NoneIsDesign == IsDesign(<<>>)
BY NoneIsList, DesignIs

\* Columns with one replaced, or one more.
LEMMA ColumnsReplaced ==
  ASSUME NEW cols, IsColumns(cols), NEW k \in DOMAIN cols, NEW c, IsColumn(c),
         NEW u, Replaced(u, cols, k, c)
  PROVE  IsColumns(u)
BY ListReplaced DEF IsColumns, IsColumn

\* Columns with one more at the end are columns.
LEMMA ColumnsAppended ==
  ASSUME NEW cols, IsColumns(cols), NEW c, IsColumn(c)
  PROVE  IsColumns(Append(cols, c))
<1>1. \A k \in DOMAIN Append(cols, c) : IsColumn(Append(cols, c)[k])
  BY ListAppended DEF IsColumns, IsColumn
<1> QED
  BY <1>1, ListAppended DEF IsColumns, IsColumn

\* Columns and further columns are columns.
LEMMA ColumnsJoined ==
  ASSUME NEW cols, IsColumns(cols), NEW more, IsColumns(more)
  PROVE  IsColumns(cols \o more)
<1>1. IsSeq(cols) /\ IsSeq(more)
  BY DEF IsColumns
<1>2. (\A k \in DOMAIN cols : IsColumn(cols[k])) /\ \A k \in DOMAIN more : IsColumn(more[k])
  BY DEF IsColumns, IsColumn
<1>3. \A k \in DOMAIN (cols \o more) : IsColumn((cols \o more)[k])
  BY <1>1, <1>2, ListsJoined
<1>4. IsSeq(cols \o more)
  BY <1>1, ListsJoined
<1> QED
  BY <1>3, <1>4 DEF IsColumns, IsColumn

\* Columns with one more before them are columns.
LEMMA ColumnsPreceded ==
  ASSUME NEW cols, IsColumns(cols), NEW c, IsColumn(c)
  PROVE  IsColumns(<<c>> \o cols)
<1>1. IsSeq(<<c>>) /\ DOMAIN <<c>> = {1} /\ <<c>>[1] = c
  BY OneIsList
<1>2. IsColumns(<<c>>)
  BY <1>1 DEF IsColumns, IsColumn
<1> QED
  BY <1>2, ColumnsJoined

\* The place of a name's table, and of a column.
LEMMA IndexIs ==
  ASSUME NEW ts, IsDesign(ts), NEW n \in Names(ts)
  PROVE  IndexOf(ts, n) \in DOMAIN ts /\ ts[IndexOf(ts, n)].name = n /\ IsTable(At(ts, n))
<1> DEFINE P == {i \in DOMAIN ts : ts[i].name = n}
<1>1. P # {} /\ P \in SUBSET DOMAIN ts
  BY DEF Names
<1>2. Sets!Max(P) \in P
  BY <1>1, GreatestPlace, DesignIs
<1> QED
  BY <1>2, DesignIs DEF IndexOf, At

\* A name a table has among its columns is that of the column at its index.
LEMMA ColumnIs ==
  ASSUME NEW t, IsTable(t), NEW c \in ColumnNames(t)
  PROVE  ColumnIndex(t, c) \in DOMAIN t.cols /\ t.cols[ColumnIndex(t, c)].name = c
<1> DEFINE P == {k \in DOMAIN t.cols : t.cols[k].name = c}
<1>1. P # {} /\ P \in SUBSET DOMAIN t.cols /\ IsSeq(t.cols)
  BY DEF ColumnNames, IsTable, IsColumns
<1>2. Sets!Min(P) \in P
  BY <1>1, GreatestPlace
<1> QED
  BY <1>2 DEF ColumnIndex

\* A table with a key has a column of that name.
LEMMA KeyIs ==
  ASSUME NEW t, IsTable(t), PkIndices(t) # {}
  PROVE  Sets!Min(PkIndices(t)) \in PkIndices(t) /\ PkName(t) \in ColumnNames(t)
<1>1. PkIndices(t) \in SUBSET DOMAIN t.cols /\ IsSeq(t.cols)
  BY DEF PkIndices, IsTable, IsColumns
<1>2. Sets!Min(PkIndices(t)) \in PkIndices(t)
  BY <1>1, GreatestPlace
<1> QED
  BY <1>1, <1>2 DEF PkName, ColumnNames

-----------------------------------------------------------------------------
(* What the rules after a naming leave of a design *)

\* The table u is t with other keys: it lost no primary key.
KeptTable(t, u) ==
  /\ u.name = t.name
  /\ DOMAIN u.cols = DOMAIN t.cols
  /\ \A k \in DOMAIN t.cols : u.cols[k].name = t.cols[k].name /\ (t.cols[k].pk => u.cols[k].pk)

\* So are all tables of us those of ts, but only those W names may have other entity names.
Kept(ts, us, W) ==
  /\ IsDesign(us) /\ DOMAIN us = DOMAIN ts
  /\ \A i \in DOMAIN ts : /\ KeptTable(ts[i], us[i])
                          /\ us[i].entity # ts[i].entity => ts[i].name \in W

\* A design keeps itself.
LEMMA KeptAsIs ==
  ASSUME NEW ts, IsDesign(ts), NEW W
  PROVE  Kept(ts, ts, W)
BY DEF Kept, KeptTable

\* What is kept twice is kept.
LEMMA KeptFurther ==
  ASSUME NEW ts, NEW us, NEW vs, NEW W, Kept(ts, us, W), Kept(us, vs, W)
  PROVE  Kept(ts, vs, W)
<1>1. IsDesign(vs) /\ DOMAIN vs = DOMAIN ts
  BY DEF Kept
<1>2. ASSUME NEW i \in DOMAIN ts
      PROVE  KeptTable(ts[i], vs[i]) /\ (vs[i].entity # ts[i].entity => ts[i].name \in W)
  <2>1. /\ KeptTable(ts[i], us[i]) /\ (us[i].entity # ts[i].entity => ts[i].name \in W)
        /\ KeptTable(us[i], vs[i]) /\ (vs[i].entity # us[i].entity => us[i].name \in W)
    BY DEF Kept
  <2>2. KeptTable(ts[i], vs[i]) /\ us[i].name = ts[i].name
    BY <2>1 DEF KeptTable
  <2> QED
    BY <2>1, <2>2
<1> QED
  BY <1>1, <1>2 DEF Kept

\* What few may rename is kept where more may.
LEMMA KeptByMore ==
  ASSUME NEW ts, NEW us, NEW V, NEW W, Kept(ts, us, V), V \subseteq W
  PROVE  Kept(ts, us, W)
BY DEF Kept

\* The names of tables and columns are what they were.
LEMMA KeptNames ==
  ASSUME NEW ts, IsDesign(ts), NEW us, NEW W, Kept(ts, us, W)
  PROVE  /\ Names(us) = Names(ts)
         /\ \A n : IndexOf(us, n) = IndexOf(ts, n)
         /\ \A i \in DOMAIN ts : ColumnNames(us[i]) = ColumnNames(ts[i])
<1>1. \A i \in DOMAIN ts : KeptTable(ts[i], us[i])
  BY DEF Kept
<1>2. DOMAIN us = DOMAIN ts /\ \A i \in DOMAIN ts : us[i].name = ts[i].name
  BY <1>1 DEF Kept, KeptTable
<1>3. Names(us) = Names(ts)
  BY <1>2 DEF Names
<1>4. ASSUME NEW n PROVE IndexOf(us, n) = IndexOf(ts, n)
  <2>1. {i \in DOMAIN us : us[i].name = n} = {i \in DOMAIN ts : ts[i].name = n}
    BY <1>2
  <2> QED
    BY <2>1 DEF IndexOf
<1>5. ASSUME NEW i \in DOMAIN ts PROVE ColumnNames(us[i]) = ColumnNames(ts[i])
  <2>1. /\ DOMAIN us[i].cols = DOMAIN ts[i].cols
        /\ \A k \in DOMAIN ts[i].cols : us[i].cols[k].name = ts[i].cols[k].name
    BY <1>1 DEF KeptTable
  <2> QED
    BY <2>1 DEF ColumnNames
<1> QED
  BY <1>3, <1>4, <1>5

\* What the rules mark keys for: a table without a primary key has no column named like one.
KeysGiven(t)  == PkIndices(t) = {} => \A k \in DOMAIN t.cols : ~IsKeyed(t.cols[k])
AllKeys(ts)   == \A i \in DOMAIN ts : KeysGiven(ts[i])

\* A table that keeps its columns and their key flags keeps its key.
LEMMA KeysStay ==
  ASSUME NEW t, NEW u, KeptTable(t, u), KeysGiven(t)
  PROVE  KeysGiven(u)
<1> SUFFICES ASSUME PkIndices(u) = {}, NEW k \in DOMAIN u.cols, IsKeyed(u.cols[k]) PROVE FALSE
  BY DEF KeysGiven
<1>1. PkIndices(t) = {}
  BY DEF KeptTable, PkIndices
<1>2. k \in DOMAIN t.cols /\ IsKeyed(t.cols[k])
  BY DEF KeptTable, IsKeyed
<1> QED
  BY <1>1, <1>2 DEF KeysGiven

\* So does every table of a design.
LEMMA AllKeysStay ==
  ASSUME NEW ts, NEW us, NEW W, Kept(ts, us, W), AllKeys(ts)
  PROVE  AllKeys(us)
BY KeysStay DEF Kept, AllKeys

\* A column with a key marked.
Marked(d, c, flag) == d = [c EXCEPT ![flag] = TRUE]

\* Marking a column takes no key away and changes no name.
LEMMA ColumnMarked ==
  ASSUME NEW c, IsColumn(c), NEW flag \in {"pk", "fk"}, NEW d, Marked(d, c, flag)
  PROVE  IsColumn(d) /\ d.name = c.name /\ (c.pk => d.pk) /\ (flag = "pk" => d.pk)
BY DEF IsColumn, IsRecord, Marked

\* Other columns leave a table its entity.
LEMMA TableWithSame ==
  ASSUME NEW t, IsTable(t), NEW c, IsColumns(c), NEW u, WithCols(u, t, c)
  PROVE  u.entity = t.entity
BY DEF IsTable, IsRecord, WithCols

\* A table with a key of a column marked.
WithKey(u, t, k, flag) == u = [t EXCEPT !.cols[k][flag] = TRUE]

\* Marking one column of a table keeps the table, and gives it a key.
LEMMA TableMarked ==
  ASSUME NEW t, IsTable(t), NEW k \in DOMAIN t.cols, NEW flag \in {"pk", "fk"},
         NEW u, WithKey(u, t, k, flag)
  PROVE  /\ IsTable(u) /\ KeptTable(t, u) /\ u.entity = t.entity
         /\ flag = "pk" => PkIndices(u) # {}
<1> DEFINE d == [t.cols[k] EXCEPT ![flag] = TRUE]
           cols == [t.cols EXCEPT ![k] = d]
<1>1. WithCols(u, t, cols)
  BY DEF WithKey, WithCols, IsTable, IsRecord
<1>2. Marked(d, t.cols[k], flag) /\ Replaced(cols, t.cols, k, d)
  BY DEF Marked, Replaced
<1>3. IsColumns(t.cols) /\ IsSeq(t.cols) /\ IsColumn(t.cols[k])
  BY DEF IsTable, IsColumns, IsColumn
<1> HIDE DEF d, cols
<1>4. IsColumn(d) /\ d.name = t.cols[k].name /\ (t.cols[k].pk => d.pk) /\ (flag = "pk" => d.pk)
  BY <1>2, <1>3, ColumnMarked
<1>5. IsColumns(cols)
  BY <1>2, <1>3, <1>4, ColumnsReplaced
<1>6. /\ DOMAIN cols = DOMAIN t.cols /\ cols[k] = d
      /\ \A m \in DOMAIN t.cols : m # k => cols[m] = t.cols[m]
  BY <1>2, <1>3, ListReplaced
<1>7. IsTable(u) /\ u.name = t.name /\ u.cols = cols /\ u.entity = t.entity
  BY <1>1, <1>5, TableWithColumns, TableWithSame
<1>8. KeptTable(t, u)
  BY <1>4, <1>6, <1>7 DEF KeptTable
<1>9. flag = "pk" => PkIndices(u) # {}
  BY <1>4, <1>6, <1>7 DEF PkIndices
<1> QED
  BY <1>7, <1>8, <1>9

-----------------------------------------------------------------------------
(* The quality rules mark keys and name no table *)

\* A list of the numbers of another.
LEMMA NumbersAre ==
  ASSUME NEW s, IsSeq(s)
  PROVE  /\ IsSeq([i \in DOMAIN s |-> i]) /\ Len([i \in DOMAIN s |-> i]) = Len(s)
         /\ \A n \in 1 .. Len(s) : [i \in DOMAIN s |-> i][n] = n /\ n \in DOMAIN s
<1> DEFINE u == [i \in DOMAIN s |-> i]
<1>1. DOMAIN u = 1 .. Len(s) /\ Len(s) \in Nat /\ u = [k \in DOMAIN u |-> u[k]]
  BY ListIs
<1>2. \A n \in 1 .. Len(s) : u[n] = n /\ n \in DOMAIN s
  BY ListIs
<1> HIDE DEF u
<1>3. IsSeq(u) /\ Len(u) = Len(s)
  BY <1>1, ListOf
<1> QED
  BY <1>2, <1>3 DEF u

\* Marking a column of a table keeps a design.
LEMMA FlaggedIs ==
  ASSUME NEW ts, IsDesign(ts), NEW n \in Names(ts), NEW c \in ColumnNames(At(ts, n)),
         NEW flag \in {"pk", "fk"}
  PROVE  Kept(ts, Flagged(ts, n, c, flag), {})
<1> DEFINE i == IndexOf(ts, n)
           k == ColumnIndex(ts[i], c)
           u == [ts[i] EXCEPT !.cols[k][flag] = TRUE]
           us == Flagged(ts, n, c, flag)
<1>1. i \in DOMAIN ts /\ IsTable(ts[i])
  BY IndexIs, DesignIs
<1>2. k \in DOMAIN ts[i].cols
  BY <1>1, ColumnIs DEF At
<1>3. WithKey(u, ts[i], k, flag)
  BY DEF WithKey
<1>4. Replaced(us, ts, i, u)
  BY <1>1 DEF Replaced, Flagged
<1> HIDE DEF i, k, u, us
<1>5. IsTable(u) /\ KeptTable(ts[i], u) /\ u.entity = ts[i].entity
  BY <1>1, <1>2, <1>3, TableMarked
<1>6. IsDesign(us)
  BY <1>1, <1>4, <1>5, DesignReplaced
<1>7. DOMAIN us = DOMAIN ts /\ us[i] = u /\ \A m \in DOMAIN ts : m # i => us[m] = ts[m]
  BY <1>1, <1>4, ListReplaced, DesignIs
<1>8. ASSUME NEW m \in DOMAIN ts PROVE KeptTable(ts[m], us[m]) /\ us[m].entity = ts[m].entity
  BY <1>5, <1>7 DEF KeptTable
<1>9. Kept(ts, us, {})
  BY <1>6, <1>7, <1>8 DEF Kept
<1> QED
  BY <1>9 DEF us

\* A document: a record of tables and relations.
IsErd(doc) == IsRecord(doc, {"tables", "rels"}) /\ IsDesign(doc.tables) /\ IsSeq(doc.rels)

\* A design and a list of relations are a document.
LEMMA ErdOf ==
  ASSUME NEW ts, IsDesign(ts), NEW rels, IsSeq(rels)
  PROVE  /\ IsErd([tables |-> ts, rels |-> rels])
         /\ [tables |-> ts, rels |-> rels].tables = ts /\ [tables |-> ts, rels |-> rels].rels = rels
BY DEF IsErd, IsRecord

WithTables(d, doc, ts) == d = [doc EXCEPT !.tables = ts]

\* A document with another design is one.
LEMMA ErdWithTables ==
  ASSUME NEW doc, IsErd(doc), NEW ts, IsDesign(ts), NEW d, WithTables(d, doc, ts)
  PROVE  IsErd(d) /\ d.tables = ts /\ d.rels = doc.rels
BY DEF IsErd, IsRecord, WithTables

WithRels(d, doc, rels) == d = [doc EXCEPT !.rels = rels]

\* A document with other relations is one.
LEMMA ErdWithRels ==
  ASSUME NEW doc, IsErd(doc), NEW rels, IsSeq(rels), NEW d, WithRels(d, doc, rels)
  PROVE  IsErd(d) /\ d.tables = doc.tables /\ d.rels = rels
BY DEF IsErd, IsRecord, WithRels

\* The parent's end of a relation is a column the parent has.
LEMMA EndsAre ==
  ASSUME NEW parent, IsTable(parent), NEW r, NEW c \in ParentColumn(parent, r)
  PROVE  c \in ColumnNames(parent)
<1>1. CASE r.pcol \in ColumnNames(parent)
  BY <1>1 DEF ParentColumn
<1>2. CASE r.pcol \notin ColumnNames(parent)
  <2>1. Cardinality(PkIndices(parent)) = 1 /\ c = PkName(parent)
    BY <1>2 DEF ParentColumn
  <2>2. PkIndices(parent) # {}
    BY <2>1, FS_EmptySet
  <2> QED
    BY <2>1, <2>2, KeyIs
<1> QED
  BY <1>1, <1>2

\* A list of relations of which one gets its columns and a label.
RelationTold(us, rels, i, p, c, l) ==
  us = [rels EXCEPT ![i].pcol = p, ![i].ccol = c, ![i].label = l]

\* Settling the columns of a relation leaves as many relations.
LEMMA RelationsTold ==
  ASSUME NEW rels, IsSeq(rels), NEW i \in DOMAIN rels, NEW p, NEW c, NEW l, NEW us,
         RelationTold(us, rels, i, p, c, l)
  PROVE  IsSeq(us) /\ DOMAIN us = DOMAIN rels
<1> DEFINE one == [rels EXCEPT ![i].pcol = p]
           two == [one EXCEPT ![i].ccol = c]
<1>1. us = [two EXCEPT ![i].label = l]
  BY DEF RelationTold
<1>2. DOMAIN one = DOMAIN rels
  OBVIOUS
<1> HIDE DEF one
<1>3. DOMAIN two = DOMAIN one
  OBVIOUS
<1> HIDE DEF two
<1>4. DOMAIN us = DOMAIN rels /\ us = [k \in DOMAIN us |-> us[k]]
  BY <1>1, <1>2, <1>3
<1>5. Len(rels) \in Nat /\ DOMAIN rels = 1 .. Len(rels)
  BY ListIs
<1> QED
  BY <1>4, <1>5, ListOf

\* Synchronising one relation marks the keys at its ends.
LEMMA SyncedIs ==
  ASSUME NEW doc, IsErd(doc), NEW i \in DOMAIN doc.rels
  PROVE  /\ IsErd(Synced(doc, i)) /\ DOMAIN Synced(doc, i).rels = DOMAIN doc.rels
         /\ Kept(doc.tables, Synced(doc, i).tables, {})
<1> DEFINE r == doc.rels[i]
           ts == doc.tables
           parent == At(ts, r.parent)
           child  == At(ts, r.child)
           ends   == {e \in ParentColumn(parent, r) \X ColumnNames(child) :
                        e[2] \in ChildColumn(parent, child, e[1], r)}
           e == CHOOSE x \in ends : TRUE
           us == Flagged(ts, r.parent, e[1], "pk")
           vs == Flagged(us, r.child, e[2], "fk")
           rels == [doc.rels EXCEPT ![i].pcol = e[1], ![i].ccol = e[2],
                                    ![i].label = <<parent.entity, child.entity>>]
           new == [tables |-> vs, rels |-> rels]
<1>1. CASE ~({r.parent, r.child} \subseteq Names(ts)) \/ ends = {}
  <2>1. Synced(doc, i) = doc
    BY <1>1 DEF Synced
  <2> QED
    BY <2>1, KeptAsIs DEF IsErd
<1>2. CASE {r.parent, r.child} \subseteq Names(ts) /\ ends # {}
  <2>1. Synced(doc, i) = new
    BY <1>2 DEF Synced
  <2>2. e \in ends
    BY <1>2
  <2>3. e[1] \in ParentColumn(parent, r) /\ e[2] \in ColumnNames(child)
    BY <2>2
  <2>4. RelationTold(rels, doc.rels, i, e[1], e[2], <<parent.entity, child.entity>>)
    BY DEF RelationTold
  <2>5. IsDesign(ts) /\ IsSeq(doc.rels) /\ r.parent \in Names(ts) /\ r.child \in Names(ts)
    BY <1>2 DEF IsErd
  <2> HIDE DEF e, ends, rels, ts, r
  <2>6. IsTable(parent) /\ e[1] \in ColumnNames(parent)
    BY <2>3, <2>5, IndexIs, EndsAre
  <2> HIDE DEF us
  <2>7. Kept(ts, us, {})
    <3>1. "pk" \in {"pk", "fk"}
      OBVIOUS
    <3> QED
      BY <2>5, <2>6, <3>1, FlaggedIs DEF us
  <2>8. IsDesign(us) /\ r.child \in Names(us) /\ e[2] \in ColumnNames(At(us, r.child))
    <3>1. IsDesign(us) /\ Names(us) = Names(ts) /\ IndexOf(us, r.child) = IndexOf(ts, r.child)
      BY <2>5, <2>7, KeptNames DEF Kept
    <3>2. IndexOf(ts, r.child) \in DOMAIN ts
      BY <2>5, IndexIs
    <3>3. ColumnNames(us[IndexOf(ts, r.child)]) = ColumnNames(ts[IndexOf(ts, r.child)])
      BY <2>5, <2>7, <3>2, KeptNames
    <3> QED
      BY <2>3, <2>5, <3>1, <3>3 DEF At
  <2> HIDE DEF vs
  <2>9. Kept(us, vs, {})
    <3>1. "fk" \in {"pk", "fk"}
      OBVIOUS
    <3> QED
      BY <2>8, <3>1, FlaggedIs DEF vs
  <2>10. Kept(ts, vs, {})
    BY <2>7, <2>9, KeptFurther
  <2>11. IsSeq(rels) /\ DOMAIN rels = DOMAIN doc.rels
    BY <2>4, <2>5, RelationsTold
  <2>12. IsErd(new) /\ new.tables = vs /\ new.rels = rels
    BY <2>9, <2>11, ErdOf DEF Kept
  <2> QED
    BY <2>1, <2>10, <2>11, <2>12 DEF ts
<1> QED
  BY <1>1, <1>2

SyncKeeps(doc, n, d) ==
  IsErd(d) /\ DOMAIN d.rels = DOMAIN doc.rels /\ Kept(doc.tables, d.tables, {})

SyncLoop == INSTANCE LoopLemmas WITH Turn <- Synced, Keeps <- SyncKeeps

\* Relations and foreign keys brought in line: a document, its tables kept.
LEMMA SyncIs ==
  ASSUME NEW doc, IsErd(doc)
  PROVE  IsErd(Sync(doc)) /\ Kept(doc.tables, Sync(doc).tables, {})
<1> DEFINE s == [i \in DOMAIN doc.rels |-> i]
<1>1. Sync(doc) = SyncLoop!Loop(doc, s)
  BY DEF Sync, Syncing!Loop, Syncing!Turns, SyncLoop!Loop, SyncLoop!Turns
<1>2. Len(s) \in Nat /\ \A n \in 1 .. Len(s) : s[n] = n /\ n \in DOMAIN doc.rels
  <2>1. IsSeq(doc.rels)
    BY DEF IsErd
  <2>2. Len(s) = Len(doc.rels) /\ Len(doc.rels) \in Nat
    BY <2>1, NumbersAre, ListIs
  <2>3. \A n \in 1 .. Len(doc.rels) : s[n] = n /\ n \in DOMAIN doc.rels
    BY <2>1, NumbersAre
  <2> QED
    BY <2>2, <2>3
<1> HIDE DEF s
<1>3. SyncKeeps(doc, 0, doc)
  BY KeptAsIs DEF SyncKeeps, IsErd
<1>4. ASSUME NEW n, NEW d, n \in 1 .. Len(s), SyncKeeps(doc, n - 1, d)
      PROVE  SyncKeeps(doc, n, Synced(d, s[n]))
  <2>1. IsErd(d) /\ DOMAIN d.rels = DOMAIN doc.rels /\ Kept(doc.tables, d.tables, {})
    BY <1>4 DEF SyncKeeps
  <2>2. s[n] = n /\ n \in DOMAIN d.rels
    BY <1>2, <1>4, <2>1
  <2>3. /\ IsErd(Synced(d, n)) /\ DOMAIN Synced(d, n).rels = DOMAIN d.rels
        /\ Kept(d.tables, Synced(d, n).tables, {})
    BY <2>1, <2>2, SyncedIs
  <2>4. Kept(doc.tables, Synced(d, n).tables, {})
    BY <2>1, <2>3, KeptFurther
  <2> QED
    BY <2>1, <2>2, <2>3, <2>4 DEF SyncKeeps
<1>5. SyncKeeps(doc, Len(s), SyncLoop!Loop(doc, s))
  BY <1>2, <1>3, <1>4, SyncLoop!LoopKeeps
<1> QED
  BY <1>1, <1>5 DEF SyncKeeps

-----------------------------------------------------------------------------
(* The relations the columns tell *)

\* Places of tables and columns are in order.
LEMMA PlacesInOrder ==
  ASSUME NEW F, \A x \in F : x = <<x[1], x[2]>> /\ x[1] \in Nat /\ x[2] \in Nat
  PROVE  Orders(PlaceOrder(F), F)
<1>1. \A x, y \in F : <<x, y>> \in PlaceOrder(F) <=> x[1] < y[1] \/ (x[1] = y[1] /\ x[2] < y[2])
  BY PlaceOrderIs
<1>2. \A x \in F : <<x, x>> \notin PlaceOrder(F)
  BY <1>1
<1>3. ASSUME NEW x \in F, NEW y \in F, x # y
      PROVE  <<x, y>> \in PlaceOrder(F) \/ <<y, x>> \in PlaceOrder(F)
  <2>1. x[1] # y[1] \/ x[2] # y[2]
    BY <1>3
  <2>2. x[1] \in Nat /\ x[2] \in Nat /\ y[1] \in Nat /\ y[2] \in Nat
    OBVIOUS
  <2> QED
    BY <2>1, <2>2, <1>1
<1>4. ASSUME NEW x \in F, NEW y \in F, NEW z \in F,
             <<x, y>> \in PlaceOrder(F), <<y, z>> \in PlaceOrder(F)
      PROVE  <<x, z>> \in PlaceOrder(F)
  <2>1. /\ x[1] < y[1] \/ (x[1] = y[1] /\ x[2] < y[2])
        /\ y[1] < z[1] \/ (y[1] = z[1] /\ y[2] < z[2])
    BY <1>1, <1>4
  <2>2. /\ x[1] \in Nat /\ x[2] \in Nat /\ y[1] \in Nat /\ y[2] \in Nat
        /\ z[1] \in Nat /\ z[2] \in Nat
    OBVIOUS
  <2>3. x[1] < z[1] \/ (x[1] = z[1] /\ x[2] < z[2])
    BY <2>1, <2>2
  <2> QED
    BY <2>3, <1>1
<1> QED
  BY <1>2, <1>3, <1>4 DEF Orders

\* A design has finitely many columns.
AllPlaces(ts) == UNION {{i} \X DOMAIN ts[i].cols : i \in DOMAIN ts}

\* The columns of a design are at finitely many pairs of places.
LEMMA AllPlacesAre ==
  ASSUME NEW ts, IsDesign(ts)
  PROVE  /\ IsFiniteSet(AllPlaces(ts))
         /\ \A p \in AllPlaces(ts) :
              /\ p = <<p[1], p[2]>> /\ p[1] \in Nat /\ p[2] \in Nat
              /\ p[1] \in DOMAIN ts /\ p[2] \in DOMAIN ts[p[1]].cols
<1> DEFINE f == [i \in DOMAIN ts |-> {i} \X DOMAIN ts[i].cols]
           R == {f[i] : i \in DOMAIN ts}
<1>1. AllPlaces(ts) = UNION R
  BY DEF AllPlaces
<1>2. IsFiniteSet(DOMAIN ts)
  <2>1. Len(ts) \in Nat /\ DOMAIN ts = 1 .. Len(ts)
    BY TablesOfDesign
  <2> QED
    BY <2>1, FS_Interval
<1>3. \A i \in DOMAIN ts : IsFiniteSet(f[i])
  <2> SUFFICES ASSUME NEW i \in DOMAIN ts PROVE IsFiniteSet({i} \X DOMAIN ts[i].cols)
    OBVIOUS
  <2>1. DOMAIN ts[i].cols = 1 .. Len(ts[i].cols) /\ Len(ts[i].cols) \in Nat
    BY TablesOfDesign
  <2>2. IsFiniteSet(DOMAIN ts[i].cols)
    BY <2>1, FS_Interval
  <2>3. IsFiniteSet({i})
    BY FS_Singleton
  <2> QED
    BY <2>2, <2>3, FS_Product
<1>4. IsFiniteSet(R)
  <2>1. f = [i \in DOMAIN ts |-> f[i]]
    OBVIOUS
  <2> HIDE DEF f
  <2> QED
    BY <1>2, <2>1, FiniteImage
<1>5. \A X \in R : IsFiniteSet(X)
  BY <1>3
<1>6. IsFiniteSet(AllPlaces(ts))
  BY <1>1, <1>4, <1>5, FS_UNION
<1>7. \A i \in DOMAIN ts : i \in Nat /\ \A k \in DOMAIN ts[i].cols : k \in Nat
  BY TablesOfDesign
<1>8. \A p, j, D : p \in {j} \X D => p = <<p[1], p[2]>> /\ p[1] = j /\ p[2] \in D
  OBVIOUS
<1>9. \A p \in AllPlaces(ts) : \E j \in DOMAIN ts : p \in {j} \X DOMAIN ts[j].cols
  BY DEF AllPlaces
<1>10. \A p \in AllPlaces(ts) :
         p = <<p[1], p[2]>> /\ p[1] \in DOMAIN ts /\ p[2] \in DOMAIN ts[p[1]].cols
  BY <1>8, <1>9
<1> QED
  BY <1>6, <1>7, <1>10

\* The relations the columns tell are a list.
LEMMA InferIs ==
  ASSUME NEW ts, IsDesign(ts)
  PROVE  IsSeq(Infer(ts))
<1> DEFINE F == Inferable(ts)
           o == Sorted(F, PlaceOrder(F))
           s == [k \in DOMAIN o |-> Inferred(ts, o[k])]
<1>1. F \in SUBSET AllPlaces(ts)
  BY DEF Inferable, AllPlaces
<1>2. Infer(ts) = s
  BY DEF Infer
<1> HIDE DEF F
<1>3. IsFiniteSet(F) /\ \A x \in F : x = <<x[1], x[2]>> /\ x[1] \in Nat /\ x[2] \in Nat
  BY <1>1, AllPlacesAre, FS_Subset
<1>4. Enumerates(o, F)
  BY <1>3, PlacesInOrder, SortedEnumerates
<1> HIDE DEF o
<1>5. Len(o) \in Nat /\ DOMAIN o = 1 .. Len(o)
  <2>1. o \in Seq(F)
    BY <1>4 DEF Enumerates
  <2> QED
    BY <2>1
<1>6. DOMAIN s = DOMAIN o /\ s = [k \in DOMAIN s |-> s[k]]
  OBVIOUS
<1> HIDE DEF s
<1> QED
  BY <1>2, <1>5, <1>6, ListOf

ColumnsTold(us, rels, i, p, c) == us = [rels EXCEPT ![i].pcol = p, ![i].ccol = c]

\* Telling a relation its columns leaves as many relations.
LEMMA RelationGetsColumns ==
  ASSUME NEW rels, IsSeq(rels), NEW i \in DOMAIN rels, NEW p, NEW c, NEW us,
         ColumnsTold(us, rels, i, p, c)
  PROVE  IsSeq(us) /\ DOMAIN us = DOMAIN rels
<1> DEFINE one == [rels EXCEPT ![i].pcol = p]
<1>1. us = [one EXCEPT ![i].ccol = c]
  BY DEF ColumnsTold
<1>2. DOMAIN one = DOMAIN rels
  OBVIOUS
<1> HIDE DEF one
<1>3. DOMAIN us = DOMAIN rels /\ us = [k \in DOMAIN us |-> us[k]]
  BY <1>1, <1>2
<1>4. Len(rels) \in Nat /\ DOMAIN rels = 1 .. Len(rels)
  BY ListIs
<1> QED
  BY <1>3, <1>4, ListOf

\* One told relation, added or completed, leaves a list.
LEMMA CompletedIs ==
  ASSUME NEW rels, IsSeq(rels), NEW r
  PROVE  IsSeq(Completed(rels, r))
<1> DEFINE pair == {i \in DOMAIN rels : rels[i].parent = r.parent /\ rels[i].child = r.child}
           i == Sets!Min(pair)
           us == [rels EXCEPT ![i].pcol = r.pcol, ![i].ccol = r.ccol]
<1>1. \/ pair # {} /\ Completed(rels, r) = us
      \/ Completed(rels, r) = rels
      \/ Completed(rels, r) = Append(rels, r)
  BY DEF Completed
<1>2. ASSUME pair # {} PROVE IsSeq(us)
  <2>1. pair \in SUBSET DOMAIN rels
    OBVIOUS
  <2> HIDE DEF pair
  <2>2. i \in DOMAIN rels
    BY <1>2, <2>1, GreatestPlace
  <2>3. ColumnsTold(us, rels, i, r.pcol, r.ccol)
    BY DEF ColumnsTold
  <2> HIDE DEF us, i
  <2> QED
    BY <2>2, <2>3, RelationGetsColumns
<1>3. IsSeq(Append(rels, r))
  BY ListAppended
<1> HIDE DEF pair, us
<1> QED
  BY <1>1, <1>2, <1>3

CompleteKeeps(a, n, rels) == IsSeq(rels)
CompleteLoop == INSTANCE LoopLemmas WITH Turn <- Completed, Keeps <- CompleteKeeps

\* So do all that are told.
LEMMA CompleteIs ==
  ASSUME NEW ts, IsDesign(ts), NEW rels, IsSeq(rels)
  PROVE  IsSeq(Complete(ts, rels))
<1> DEFINE s == Infer(ts)
<1>1. Complete(ts, rels) = CompleteLoop!Loop(rels, s)
  BY DEF Complete, Completing!Loop, Completing!Turns, CompleteLoop!Loop, CompleteLoop!Turns
<1>2. Len(s) \in Nat
  BY InferIs, ListIs
<1> HIDE DEF s
<1>3. CompleteKeeps(ts, 0, rels)
  BY DEF CompleteKeeps
<1>4. ASSUME NEW n, NEW x, n \in 1 .. Len(s), CompleteKeeps(ts, n - 1, x)
      PROVE  CompleteKeeps(ts, n, Completed(x, s[n]))
  BY <1>4, CompletedIs DEF CompleteKeeps
<1>5. CompleteKeeps(ts, Len(s), CompleteLoop!Loop(rels, s))
  BY <1>2, <1>3, <1>4, CompleteLoop!LoopKeeps
<1> QED
  BY <1>1, <1>5 DEF CompleteKeeps

-----------------------------------------------------------------------------
(* Primary keys *)

\* A table gets a key where a column is named like one, and is kept where it has one.
LEMMA WithPkIs ==
  ASSUME NEW t, IsTable(t)
  PROVE  /\ IsTable(WithPk(t)) /\ KeptTable(t, WithPk(t)) /\ WithPk(t).entity = t.entity
         /\ KeysGiven(WithPk(t))
         /\ KeysGiven(t) => WithPk(t) = t
<1> DEFINE keyed == {i \in DOMAIN t.cols : IsKeyed(t.cols[i])}
           u == [t EXCEPT !.cols[Sets!Min(keyed)].pk = TRUE]
<1>1. WithPk(t) = IF PkIndices(t) # {} \/ keyed = {} THEN t ELSE u
  BY DEF WithPk
<1>2. CASE PkIndices(t) # {} \/ keyed = {}
  <2>1. KeysGiven(t)
    BY <1>2 DEF KeysGiven
  <2>2. KeptTable(t, t)
    BY DEF KeptTable
  <2> QED
    BY <1>1, <1>2, <2>1, <2>2
<1>3. CASE PkIndices(t) = {} /\ keyed # {}
  <2>1. keyed \in SUBSET DOMAIN t.cols /\ IsSeq(t.cols)
    BY DEF IsTable, IsColumns
  <2>2. ~KeysGiven(t)
    BY <1>3 DEF KeysGiven
  <2> DEFINE k == Sets!Min(keyed)
  <2>3. WithKey(u, t, k, "pk")
    BY DEF WithKey
  <2> HIDE DEF keyed
  <2>4. k \in DOMAIN t.cols
    BY <1>3, <2>1, GreatestPlace
  <2> HIDE DEF u, k
  <2>5. /\ IsTable(u) /\ KeptTable(t, u) /\ u.entity = t.entity
        /\ PkIndices(u) # {}
    <3>1. "pk" \in {"pk", "fk"}
      OBVIOUS
    <3> QED
      BY <2>3, <2>4, <3>1, TableMarked
  <2>6. KeysGiven(u)
    BY <2>5 DEF KeysGiven
  <2>7. WithPk(t) = u
    BY <1>1, <1>3
  <2> QED
    BY <2>2, <2>5, <2>6, <2>7
<1> QED
  BY <1>2, <1>3

\* The tables in scope get their keys, and no table with its key changes.
LEMMA EnsurePksIs ==
  ASSUME NEW ts, IsDesign(ts), NEW W
  PROVE  /\ Kept(ts, EnsurePks(ts, W), {})
         /\ Names(ts) \subseteq W => AllKeys(EnsurePks(ts, W))
         /\ \A i \in DOMAIN ts : KeysGiven(ts[i]) => EnsurePks(ts, W)[i] = ts[i]
<1> DEFINE us == EnsurePks(ts, W)
<1>1. /\ DOMAIN us = DOMAIN ts /\ us = [i \in DOMAIN us |-> us[i]]
      /\ \A i \in DOMAIN ts : us[i] = IF ts[i].name \in W THEN WithPk(ts[i]) ELSE ts[i]
  BY DEF EnsurePks
<1>2. Len(ts) \in Nat /\ DOMAIN ts = 1 .. Len(ts) /\ \A i \in DOMAIN ts : IsTable(ts[i])
  BY TablesOfDesign
<1> HIDE DEF us
<1>3. ASSUME NEW i \in DOMAIN ts
      PROVE  /\ IsTable(us[i]) /\ KeptTable(ts[i], us[i]) /\ us[i].entity = ts[i].entity
             /\ ts[i].name \in W => KeysGiven(us[i])
             /\ KeysGiven(ts[i]) => us[i] = ts[i]
  <2>1. KeptTable(ts[i], ts[i])
    BY DEF KeptTable
  <2> QED
    BY <1>1, <1>2, <2>1, WithPkIs
<1>4. IsDesign(us)
  BY <1>1, <1>2, <1>3, DesignOfTables
<1>5. Kept(ts, us, {})
  BY <1>1, <1>3, <1>4 DEF Kept
<1>6. Names(ts) \subseteq W => AllKeys(us)
  BY <1>1, <1>3 DEF AllKeys, Names
<1> QED
  BY <1>3, <1>5, <1>6 DEF us

\* The quality rules leave tables, names and columns, and no table without the key it can have.
LEMMA PreparedIs ==
  ASSUME NEW doc, IsErd(doc)
  PROVE  /\ IsErd(Prepared(doc)) /\ Kept(doc.tables, Prepared(doc).tables, {})
         /\ AllKeys(Prepared(doc).tables)
<1> DEFINE ts == EnsurePks(doc.tables, Names(doc.tables))
           rels == Complete(ts, doc.rels)
           d == [tables |-> ts, rels |-> rels]
<1>1. Prepared(doc) = Sync(d)
  BY DEF Prepared
<1>2. IsDesign(doc.tables) /\ IsSeq(doc.rels)
  BY DEF IsErd
<1>3. Kept(doc.tables, ts, {}) /\ AllKeys(ts) /\ IsDesign(ts)
  BY <1>2, EnsurePksIs DEF Kept
<1> HIDE DEF ts
<1>4. IsSeq(rels)
  BY <1>2, <1>3, CompleteIs
<1> HIDE DEF rels
<1>5. IsErd(d) /\ d.tables = ts
  BY <1>3, <1>4, ErdOf
<1> HIDE DEF d
<1>6. IsErd(Sync(d)) /\ Kept(ts, Sync(d).tables, {})
  BY <1>5, SyncIs
<1>7. Kept(doc.tables, Sync(d).tables, {}) /\ AllKeys(Sync(d).tables)
  BY <1>3, <1>6, KeptFurther, AllKeysStay
<1> QED
  BY <1>1, <1>6, <1>7

-----------------------------------------------------------------------------
(* Entity names *)

\* A table with another entity name.
LEMMA TableRenamed ==
  ASSUME NEW t, IsTable(t), NEW e, NEW u, WithEntity(u, t, e)
  PROVE  IsTable(u) /\ KeptTable(t, u) /\ u.entity = e
<1>1. IsTable(u) /\ u.name = t.name /\ u.cols = t.cols /\ u.entity = e
  BY DEF IsTable, IsRecord, WithEntity
<1> QED
  BY <1>1 DEF KeptTable

\* Renaming the entities of some tables keeps the rest of a design.
LEMMA RenamedIs ==
  ASSUME NEW ts, IsDesign(ts), NEW f, NEW W, \A i \in DOMAIN ts : i \in DOMAIN f => ts[i].name \in W
  PROVE  Kept(ts, Renamed(ts, f), W)
<1> DEFINE us == Renamed(ts, f)
           u(i) == [ts[i] EXCEPT !.entity = f[i]]
<1>1. /\ DOMAIN us = DOMAIN ts /\ us = [i \in DOMAIN us |-> us[i]]
      /\ \A i \in DOMAIN ts : us[i] = IF i \in DOMAIN f THEN u(i) ELSE ts[i]
  BY DEF Renamed
<1>2. \A i \in DOMAIN ts : WithEntity(u(i), ts[i], f[i])
  BY DEF WithEntity
<1>3. Len(ts) \in Nat /\ DOMAIN ts = 1 .. Len(ts) /\ \A i \in DOMAIN ts : IsTable(ts[i])
  BY TablesOfDesign
<1> HIDE DEF us, u
<1>4. ASSUME NEW i \in DOMAIN ts
      PROVE  IsTable(us[i]) /\ KeptTable(ts[i], us[i]) /\ (us[i].entity # ts[i].entity => ts[i].name \in W)
  <2>1. KeptTable(ts[i], ts[i])
    BY DEF KeptTable
  <2>2. IsTable(u(i)) /\ KeptTable(ts[i], u(i))
    BY <1>2, <1>3, TableRenamed
  <2> QED
    BY <1>1, <1>3, <2>1, <2>2
<1>5. IsDesign(us)
  BY <1>1, <1>3, <1>4, DesignOfTables
<1> QED
  BY <1>1, <1>4, <1>5 DEF Kept, us

\* A table that takes a name its words support.
LEMMA RegroundingIs ==
  ASSUME NEW ts, IsDesign(ts), NEW x, x.at \in DOMAIN ts
  PROVE  Kept(ts, Regrounding(ts, x), {ts[x.at].name})
<1> DEFINE names == Fresh(ts[x.at].name, Used(ts) \cup x.taken)
           i == x.at
           u == [ts[i] EXCEPT !.entity = names[1]]
           us == [ts EXCEPT ![i].entity = names[1]]
<1>1. Regrounding(ts, x) = IF names = <<>> THEN ts ELSE us
  BY DEF Regrounding
<1>2. WithEntity(u, ts[i], names[1]) /\ Replaced(us, ts, i, u)
  BY DEF WithEntity, Replaced
<1>3. IsTable(ts[i]) /\ IsSeq(ts) /\ i \in DOMAIN ts
  BY DesignIs
<1> HIDE DEF names, i, u, us
<1>4. IsTable(u) /\ KeptTable(ts[i], u)
  BY <1>2, <1>3, TableRenamed
<1>5. IsDesign(us)
  BY <1>2, <1>3, <1>4, DesignReplaced
<1>6. DOMAIN us = DOMAIN ts /\ us[i] = u /\ \A m \in DOMAIN ts : m # i => us[m] = ts[m]
  BY <1>2, <1>3, ListReplaced
<1>7. ASSUME NEW m \in DOMAIN ts
      PROVE  KeptTable(ts[m], us[m]) /\ (us[m].entity # ts[m].entity => ts[m].name \in {ts[i].name})
  BY <1>4, <1>6 DEF KeptTable
<1>8. Kept(ts, us, {ts[i].name})
  BY <1>5, <1>6, <1>7 DEF Kept
<1>9. Kept(ts, ts, {ts[i].name})
  BY KeptAsIs
<1> QED
  BY <1>1, <1>8, <1>9 DEF i

RegroundKeeps(a, n, ts) == Kept(a[1], ts, a[2])
RegroundLoop == INSTANCE LoopLemmas WITH Turn <- Regrounding, Keeps <- RegroundKeeps

\* So do the tables asked one after the other; no other gets another name.
LEMMA RegroundedIs ==
  ASSUME NEW ts, IsDesign(ts), NEW is \in SUBSET DOMAIN ts, NEW W, \A i \in is : ts[i].name \in W
  PROVE  Kept(ts, Regrounded(ts, is), W)
<1> DEFINE all == [i \in DOMAIN ts |-> [at |-> i, taken |-> Used(ts)]]
           s == Pick(all, is)
           a == <<ts, W>>
<1>1. Regrounded(ts, is) = RegroundLoop!Loop(ts, s)
  BY DEF Regrounded, Grounding!Loop, Grounding!Turns, RegroundLoop!Loop, RegroundLoop!Turns
<1>2. Len(s) \in Nat /\ \A n \in 1 .. Len(s) : s[n].at \in is
  <2>1. /\ DOMAIN all = DOMAIN ts /\ all = [k \in DOMAIN all |-> all[k]]
        /\ \A i \in DOMAIN ts : all[i].at = i
    OBVIOUS
  <2>2. Len(ts) \in Nat /\ DOMAIN ts = 1 .. Len(ts)
    BY TablesOfDesign
  <2> HIDE DEF all
  <2>3. IsSeq(all)
    BY <2>1, <2>2, ListOf
  <2>4. IsSeq(s) /\ \A k \in DOMAIN s : \E i \in is : s[k] = all[i]
    BY <2>1, <2>3, ListPicked
  <2> HIDE DEF s
  <2>5. Len(s) \in Nat /\ DOMAIN s = 1 .. Len(s)
    BY <2>4, ListIs
  <2> QED
    BY <2>1, <2>4, <2>5
<1> HIDE DEF s
<1>3. a[1] = ts /\ a[2] = W
  OBVIOUS
<1> HIDE DEF a
<1>4. RegroundKeeps(a, 0, ts)
  BY <1>3, KeptAsIs DEF RegroundKeeps
<1>5. ASSUME NEW n, NEW x, n \in 1 .. Len(s), RegroundKeeps(a, n - 1, x)
      PROVE  RegroundKeeps(a, n, Regrounding(x, s[n]))
  <2>1. Kept(ts, x, W) /\ s[n].at \in is
    BY <1>2, <1>3, <1>5 DEF RegroundKeeps
  <2>2. IsDesign(x) /\ s[n].at \in DOMAIN x /\ x[s[n].at].name \in W
    BY <2>1 DEF Kept, KeptTable
  <2>3. Kept(x, Regrounding(x, s[n]), {x[s[n].at].name})
    BY <2>2, RegroundingIs
  <2>4. Kept(x, Regrounding(x, s[n]), W)
    BY <2>2, <2>3, KeptByMore
  <2>5. Kept(ts, Regrounding(x, s[n]), W)
    BY <2>1, <2>4, KeptFurther
  <2> QED
    BY <1>3, <2>5 DEF RegroundKeeps
<1>6. RegroundKeeps(a, Len(s), RegroundLoop!Loop(ts, s))
  BY <1>2, <1>4, <1>5, RegroundLoop!LoopKeeps
<1> QED
  BY <1>1, <1>3, <1>6 DEF RegroundKeeps

\* Telling like names apart renames tables of its scope only.
LEMMA DistinctIs ==
  ASSUME NEW ts, IsDesign(ts), NEW scope
  PROVE  Kept(ts, Distinct(ts, scope), scope)
BY RegroundedIs DEF Distinct

\* So does taking the names the words of the tables support.
LEMMA MatchedIs ==
  ASSUME NEW ts, IsDesign(ts), NEW scope
  PROVE  Kept(ts, Matched(ts, scope), scope)
<1> DEFINE is == {i \in Mismatched(ts) : ts[i].name \in scope}
<1>1. is \in SUBSET DOMAIN ts /\ \A i \in is : ts[i].name \in scope
  BY DEF Mismatched
<1>2. Matched(ts, scope) = Regrounded(ts, is)
  BY DEF Matched
<1> HIDE DEF is
<1> QED
  BY <1>1, <1>2, RegroundedIs

-----------------------------------------------------------------------------
(* The foreign keys without a relation *)

Unflagged(d, c) == d = [c EXCEPT !.fk = FALSE]

\* A column no longer a foreign key keeps its name and its key.
LEMMA ColumnUnflagged ==
  ASSUME NEW c, IsColumn(c), NEW d, Unflagged(d, c)
  PROVE  IsColumn(d) /\ d.name = c.name /\ (c.pk => d.pk)
BY DEF IsColumn, IsRecord, Unflagged

\* Clearing the flags of some keeps the tables, their columns and primary keys.
LEMMA ClearedIs ==
  ASSUME NEW doc, IsErd(doc)
  PROVE  /\ IsErd(Cleared(doc)) /\ Cleared(doc).rels = doc.rels
         /\ Kept(doc.tables, Cleared(doc).tables, {})
<1> DEFINE orphan == {u \in Unmapped(doc) : ~Likely(doc.tables, u[1], u[2])}
           ts == doc.tables
           Clear(t, c) == IF <<t.name, c.name>> \in orphan THEN [c EXCEPT !.fk = FALSE] ELSE c
           Rest(t) == [k \in DOMAIN t.cols |-> Clear(t, t.cols[k])]
           Off(c) == [c EXCEPT !.fk = FALSE]
           cols(i) == Rest(ts[i])
           us == [i \in DOMAIN ts |-> [ts[i] EXCEPT !.cols = cols(i)]]
<1>1. Cleared(doc) = [doc EXCEPT !.tables = us]
  BY DEF Cleared
<1>2. WithTables(Cleared(doc), doc, us)
  BY <1>1 DEF WithTables
<1>3. IsDesign(ts) /\ IsErd(doc)
  BY DEF IsErd
<1> HIDE DEF orphan, ts
<1>4. /\ DOMAIN us = DOMAIN ts /\ us = [i \in DOMAIN us |-> us[i]]
      /\ \A i \in DOMAIN ts : WithCols(us[i], ts[i], cols(i))
  BY DEF WithCols
<1>5. Len(ts) \in Nat /\ DOMAIN ts = 1 .. Len(ts) /\ \A i \in DOMAIN ts : IsTable(ts[i])
  BY <1>3, TablesOfDesign
<1>6. \A c : Unflagged(Off(c), c)
  BY DEF Unflagged
<1> HIDE DEF us, Off
<1>7. ASSUME NEW i \in DOMAIN ts
      PROVE  /\ IsTable(us[i]) /\ KeptTable(ts[i], us[i]) /\ us[i].entity = ts[i].entity
  <2>1. /\ DOMAIN ts[i].cols = 1 .. Len(ts[i].cols) /\ Len(ts[i].cols) \in Nat
        /\ \A k \in DOMAIN ts[i].cols : IsColumn(ts[i].cols[k])
    BY <1>3, TablesOfDesign
  <2>2. /\ DOMAIN cols(i) = DOMAIN ts[i].cols /\ cols(i) = [k \in DOMAIN cols(i) |-> cols(i)[k]]
        /\ \A k \in DOMAIN ts[i].cols : \/ cols(i)[k] = ts[i].cols[k]
                                       \/ cols(i)[k] = Off(ts[i].cols[k])
    BY DEF Off
  <2> HIDE DEF cols, Clear, Rest
  <2>3. IsSeq(cols(i))
    BY <2>1, <2>2, ListOf
  <2>4. ASSUME NEW k \in DOMAIN ts[i].cols
        PROVE  /\ IsColumn(cols(i)[k]) /\ cols(i)[k].name = ts[i].cols[k].name
               /\ ts[i].cols[k].pk => cols(i)[k].pk
    <3>1. /\ IsColumn(Off(ts[i].cols[k])) /\ Off(ts[i].cols[k]).name = ts[i].cols[k].name
          /\ ts[i].cols[k].pk => Off(ts[i].cols[k]).pk
      BY <1>6, <2>1, ColumnUnflagged
    <3>2. CASE cols(i)[k] = ts[i].cols[k]
      BY <2>1, <3>2
    <3>3. CASE cols(i)[k] = Off(ts[i].cols[k])
      BY <3>1, <3>3
    <3> QED
      BY <2>2, <3>2, <3>3
  <2>5. IsColumns(cols(i))
    BY <2>2, <2>3, <2>4 DEF IsColumns, IsColumn
  <2>6. IsTable(us[i]) /\ us[i].name = ts[i].name /\ us[i].cols = cols(i) /\ us[i].entity = ts[i].entity
    BY <1>4, <1>5, <2>5, TableWithColumns, TableWithSame
  <2> QED
    BY <2>2, <2>4, <2>6 DEF KeptTable
<1>8. IsDesign(us)
  BY <1>4, <1>5, <1>7, DesignOfTables
<1>9. Kept(ts, us, {})
  BY <1>4, <1>7, <1>8 DEF Kept
<1>10. IsErd(Cleared(doc)) /\ Cleared(doc).tables = us /\ Cleared(doc).rels = doc.rels
  BY <1>2, <1>3, <1>8, ErdWithTables
<1> QED
  BY <1>9, <1>10 DEF ts

\* There are finitely many to resolve.
LEMMA UnmappedIsFinite ==
  ASSUME NEW doc, IsErd(doc)
  PROVE  IsFiniteSet(Unmapped(doc))
<1> DEFINE ts == doc.tables
           f == [i \in DOMAIN ts |-> ts[i].name]
           g == [n \in Names(ts) |-> ForeignKeys(At(ts, n))]
           R == {g[n] : n \in Names(ts)}
<1>1. Unmapped(doc) \subseteq UNION R
  BY DEF Unmapped
<1>2. IsDesign(ts)
  BY DEF IsErd
<1>3. IsFiniteSet(Names(ts))
  <2>1. IsFiniteSet(DOMAIN ts)
    <3>1. IsSeq(ts)
      BY <1>2 DEF IsDesign
    <3> QED
      BY <3>1, ListIsFinite
  <2>2. f = [i \in DOMAIN ts |-> f[i]] /\ Names(ts) = {f[i] : i \in DOMAIN ts}
    BY DEF Names
  <2> HIDE DEF f
  <2> QED
    BY <2>1, <2>2, FiniteImage
<1>4. ASSUME NEW n \in Names(ts) PROVE IsFiniteSet(ForeignKeys(At(ts, n)))
  <2> DEFINE t == At(ts, n)
             D == DOMAIN t.cols
             h == [k \in D |-> <<t.name, t.cols[k].name>>]
  <2>1. IsTable(t)
    BY <1>2, IndexIs
  <2> HIDE DEF t
  <2>2. IsFiniteSet(D)
    <3>1. IsSeq(t.cols)
      BY <2>1 DEF IsTable, IsColumns
    <3> QED
      BY <3>1, ListIsFinite
  <2>3. h = [k \in D |-> h[k]]
    OBVIOUS
  <2>4. ForeignKeys(t) \subseteq {h[k] : k \in D}
    BY DEF ForeignKeys, Members
  <2> HIDE DEF h, D
  <2>5. IsFiniteSet({h[k] : k \in D})
    BY <2>2, <2>3, FiniteImage
  <2> QED
    BY <2>4, <2>5, FS_Subset DEF t
<1>5. IsFiniteSet(R)
  <2>1. g = [n \in Names(ts) |-> g[n]]
    OBVIOUS
  <2> HIDE DEF g
  <2> QED
    BY <1>3, <2>1, FiniteImage
<1>6. \A X \in R : IsFiniteSet(X)
  BY <1>4
<1>7. IsFiniteSet(UNION R)
  BY <1>5, <1>6, FS_UNION
<1> QED
  BY <1>1, <1>7, FS_Subset

\* A finite set, listed.
LEMMA SetIsListed ==
  ASSUME NEW S, IsFiniteSet(S)
  PROVE  IsSeq(Seqs!SetToSeq(S))
<1> DEFINE s == Seqs!SetToSeq(S)
<1>1. Cardinality(S) \in Nat /\ ExistsBijection(1 .. Cardinality(S), S)
  BY FS_CardinalityType
<1>2. \E f \in [1 .. Cardinality(S) -> S] : Seqs!IsInjective(f)
  BY <1>1 DEF ExistsBijection, Bijection, Injection, IsInjective, Seqs!IsInjective
<1>3. s \in [1 .. Cardinality(S) -> S]
  <2>0. Seqs!Cardinality(S) = Cardinality(S)
    BY DEF Seqs!Cardinality, Cardinality
  <2>1. s = CHOOSE f \in [1 .. Cardinality(S) -> S] : Seqs!IsInjective(f)
    BY <2>0 DEF Seqs!SetToSeq
  <2> HIDE DEF s
  <2> QED
    BY <1>2, <2>1
<1> HIDE DEF s
<1>4. DOMAIN s = 1 .. Cardinality(S) /\ s = [k \in DOMAIN s |-> s[k]]
  BY <1>3
<1>5. IsSeq(s)
  BY <1>1, <1>4, ListOf
<1> QED
  BY <1>5 DEF s

\* Resolving them adds relations, and may mark keys or clear flags; it changes no name.
LEMMA ResolvedIs ==
  ASSUME NEW doc, IsErd(doc), NEW e \in Resolved(doc)
  PROVE  IsErd(e) /\ Kept(doc.tables, e.tables, {}) /\ AllKeys(e.tables)
<1> DEFINE d    == Prepared(doc)
           open == {u \in Unmapped(d) : Likely(d.tables, u[1], u[2])}
           rest == Cleared(d)
           Ties(f) == {Relation(f[u][1], f[u][2], u[1], u[2], "N:1") : u \in {v \in open : f[v] # <<>>}}
           News(f) == Seqs!SetToSeq(Ties(f))
<1>1. PICK f : e = [rest EXCEPT !.rels = @ \o News(f)]
  BY DEF Resolved
<1>2. IsErd(d) /\ Kept(doc.tables, d.tables, {}) /\ AllKeys(d.tables)
  BY PreparedIs
<1> HIDE DEF d
<1>3. IsFiniteSet(open)
  BY <1>2, UnmappedIsFinite, FS_Subset
<1> HIDE DEF open
<1>4. IsSeq(News(f))
  <2> DEFINE S == {v \in open : f[v] # <<>>}
             g == [u \in S |-> Relation(f[u][1], f[u][2], u[1], u[2], "N:1")]
  <2>1. IsFiniteSet(S)
    BY <1>3, FS_Subset
  <2>2. g = [u \in S |-> g[u]] /\ Ties(f) = {g[u] : u \in S}
    OBVIOUS
  <2> HIDE DEF S, g, Ties
  <2>3. IsFiniteSet(Ties(f))
    BY <2>1, <2>2, FiniteImage
  <2> QED
    BY <2>3, SetIsListed
<1>5. IsErd(rest) /\ rest.rels = d.rels /\ Kept(d.tables, rest.tables, {})
  BY <1>2, ClearedIs
<1> HIDE DEF rest, News
<1>6. WithRels(e, rest, rest.rels \o News(f))
  BY <1>1 DEF WithRels
<1>7. IsSeq(rest.rels \o News(f))
  BY <1>4, <1>5, ListsJoined DEF IsErd
<1>8. IsErd(e) /\ e.tables = rest.tables
  BY <1>5, <1>6, <1>7, ErdWithRels
<1>9. Kept(doc.tables, rest.tables, {}) /\ AllKeys(rest.tables)
  BY <1>2, <1>5, KeptFurther, AllKeysStay
<1> QED
  BY <1>8, <1>9

-----------------------------------------------------------------------------
(* What a meeting requires *)

\* A requirement has lists.
IsWish(w) == IsSeq(w.tables) /\ IsSeq(w.cols) /\ IsSeq(w.rels)
AreWishes(ws) == IsSeq(ws) /\ \A i \in DOMAIN ws : IsWish(ws[i])

AllKeep(a, n, s) == IsSeq(s)
AllLoop == INSTANCE LoopLemmas WITH Turn <- Then, Keeps <- AllKeep

\* Lists, one after the other, are a list.
LEMMA AllIs ==
  ASSUME NEW seqs, IsSeq(seqs), \A i \in DOMAIN seqs : IsSeq(seqs[i])
  PROVE  IsSeq(All(seqs))
<1>1. All(seqs) = AllLoop!Loop(<<>>, seqs)
  BY DEF All, Joining!Loop, Joining!Turns, AllLoop!Loop, AllLoop!Turns
<1>2. Len(seqs) \in Nat /\ DOMAIN seqs = 1 .. Len(seqs)
  BY ListIs
<1>3. AllKeep(0, 0, <<>>)
  BY NoneIsList DEF AllKeep
<1>4. ASSUME NEW n, NEW x, n \in 1 .. Len(seqs), AllKeep(0, n - 1, x)
      PROVE  AllKeep(0, n, Then(x, seqs[n]))
  <2>1. IsSeq(x) /\ IsSeq(seqs[n])
    BY <1>2, <1>4 DEF AllKeep
  <2> QED
    BY <2>1, ListsJoined DEF AllKeep, Then
<1>5. AllKeep(0, Len(seqs), AllLoop!Loop(<<>>, seqs))
  BY <1>2, <1>3, <1>4, AllLoop!LoopKeeps
<1> QED
  BY <1>1, <1>5 DEF AllKeep

\* A list made of another, element by element.
Mapped(u, s) == DOMAIN u = DOMAIN s /\ u = [k \in DOMAIN u |-> u[k]]

\* Another element at each place of a list makes a list.
LEMMA ListMapped ==
  ASSUME NEW s, IsSeq(s), NEW u, Mapped(u, s)
  PROVE  IsSeq(u)
<1>1. Len(s) \in Nat /\ DOMAIN s = 1 .. Len(s)
  BY ListIs
<1> QED
  BY <1>1, ListOf DEF Mapped

\* The columns asked for are a list.
LEMMA ColumnsAskedAre ==
  ASSUME NEW n, NEW cols, IsSeq(cols)
  PROVE  IsSeq(ColumnsAsked(n, cols))
<1>1. Mapped(ColumnsAsked(n, cols), cols)
  BY DEF Mapped, ColumnsAsked
<1> QED
  BY <1>1, ListMapped

\* The relations asked for are a list.
LEMMA RelationsAskedAre ==
  ASSUME NEW r
  PROVE  IsSeq(RelationsAsked(r))
<1> DEFINE one == <<<<Called(r.from), Called(r.to)>>>>
           a == <<Called(r.from), Called(r.via)>>
           b == <<Called(r.to), Called(r.via)>>
           two == <<a, b>>
<1>1. RelationsAsked(r) = one \/ RelationsAsked(r) = two
  BY DEF RelationsAsked
<1>2. IsSeq(one)
  BY OneIsList
<1> HIDE DEF a, b, one
<1>3. two \in Seq({a, b}) /\ two[1] = a /\ two[2] = b /\ DOMAIN two = {1, 2}
  OBVIOUS
<1>4. Members(two) = {a, b}
  BY <1>3 DEF Members
<1>5. IsSeq(two)
  BY <1>3, <1>4 DEF IsSeq
<1> QED
  BY <1>1, <1>2, <1>5

\* A change of the minutes, as ErdAssumption has it.
IsChange(c) ==
  /\ IsSeq(c.entities) /\ IsSeq(c.cols) /\ IsSeq(c.rels)
  /\ \A k \in DOMAIN c.entities : IsSeq(c.entities[k].cols)

\* What a change of a meeting asks for is a requirement.
LEMMA StructuredIs ==
  ASSUME NEW c, IsChange(c)
  PROVE  IsWish(Structured(c))
<1> DEFINE named  == [i \in DOMAIN c.entities |-> EntityTable(c.entities[i])]
           P      == {i \in DOMAIN named : \A k \in 1..(i - 1) : named[k] # named[i]}
           tables == Pick(named, P)
           ownof  == [i \in DOMAIN c.entities |-> ColumnsAsked(named[i], c.entities[i].cols)]
           otherof == [i \in DOMAIN c.cols |-> ColumnsAsked(Called(c.cols[i].table), <<c.cols[i]>>)]
           relof  == [i \in DOMAIN c.rels |-> RelationsAsked(c.rels[i])]
           cols   == All(ownof) \o All(otherof)
           w      == Requirement(c.id, tables, cols, All(relof), {})
<1>1. Structured(c) = w
  BY DEF Structured
<1>2. IsSeq(c.entities) /\ IsSeq(c.cols) /\ IsSeq(c.rels)
  BY DEF IsChange
<1>3. IsSeq(tables)
  <2>1. Mapped(named, c.entities)
    BY DEF Mapped
  <2>2. P \in SUBSET DOMAIN named
    OBVIOUS
  <2> HIDE DEF named, P
  <2>3. IsSeq(named)
    BY <1>2, <2>1, ListMapped
  <2> QED
    BY <2>2, <2>3, ListPicked
<1>4. IsSeq(All(ownof))
  <2>1. Mapped(ownof, c.entities) /\ \A i \in DOMAIN c.entities : IsSeq(ownof[i])
    BY ColumnsAskedAre DEF Mapped, IsChange
  <2> HIDE DEF ownof
  <2>2. IsSeq(ownof) /\ DOMAIN ownof = DOMAIN c.entities
    BY <1>2, <2>1, ListMapped DEF Mapped
  <2> QED
    BY <2>1, <2>2, AllIs
<1>5. IsSeq(All(otherof))
  <2>1. Mapped(otherof, c.cols) /\ \A i \in DOMAIN c.cols : IsSeq(otherof[i])
    BY ColumnsAskedAre, OneIsList DEF Mapped
  <2> HIDE DEF otherof
  <2>2. IsSeq(otherof) /\ DOMAIN otherof = DOMAIN c.cols
    BY <1>2, <2>1, ListMapped DEF Mapped
  <2> QED
    BY <2>1, <2>2, AllIs
<1>6. IsSeq(All(relof))
  <2>1. Mapped(relof, c.rels) /\ \A i \in DOMAIN c.rels : IsSeq(relof[i])
    BY RelationsAskedAre DEF Mapped
  <2> HIDE DEF relof
  <2>2. IsSeq(relof) /\ DOMAIN relof = DOMAIN c.rels
    BY <1>2, <2>1, ListMapped DEF Mapped
  <2> QED
    BY <2>1, <2>2, AllIs
<1>7. IsSeq(cols)
  BY <1>4, <1>5, ListsJoined
<1> HIDE DEF tables, ownof, otherof, relof, cols
<1>8. w.tables = tables /\ w.cols = cols /\ w.rels = All(relof)
  BY DEF Requirement
<1> HIDE DEF w
<1> QED
  BY <1>1, <1>3, <1>6, <1>7, <1>8 DEF IsWish

\* What a meeting asks for is a list of requirements.
LEMMA WantedAre ==
  ASSUME NEW m \in Minutes
  PROVE  AreWishes(Wanted(m))
<1> DEFINE G == {i \in DOMAIN m : <<m[i].entities, m[i].cols, m[i].rels>> # <<<<>>, <<>>, <<>>>>}
           given == Pick(m, G)
           ids   == {given[i].id : i \in DOMAIN given}
           words == UNION {m[i].words : i \in DOMAIN m}
           D     == {i \in DOMAIN Definitions : Definitions[i].id \in words \ ids}
           asked == [i \in DOMAIN given |-> Structured(given[i])]
           defs  == Pick(Definitions, D)
<1>1. Wanted(m) = asked \o defs
  BY DEF Wanted
<1>2. IsSeq(m) /\ \A i \in DOMAIN m : IsChange(m[i])
  BY ErdAssumption DEF IsChange
<1>3. IsSeq(Definitions) /\ \A i \in DOMAIN Definitions : IsWish(Definitions[i])
  BY ErdAssumption DEF IsWish
<1>4. G \in SUBSET DOMAIN m /\ D \in SUBSET DOMAIN Definitions
  OBVIOUS
<1> HIDE DEF G, D
<1>5. IsSeq(given) /\ \A k \in DOMAIN given : \E i \in G : given[k] = m[i]
  BY <1>2, <1>4, ListPicked
<1>6. \A k \in DOMAIN given : IsChange(given[k])
  BY <1>2, <1>4, <1>5
<1>7. IsSeq(defs) /\ \A k \in DOMAIN defs : \E i \in D : defs[k] = Definitions[i]
  BY <1>3, <1>4, ListPicked
<1>8. \A k \in DOMAIN defs : IsWish(defs[k])
  BY <1>3, <1>4, <1>7
<1> HIDE DEF given, defs
<1>9. Mapped(asked, given) /\ \A k \in DOMAIN given : IsWish(asked[k])
  BY <1>6, StructuredIs DEF Mapped
<1> HIDE DEF asked
<1>10. IsSeq(asked) /\ DOMAIN asked = DOMAIN given
  BY <1>5, <1>9, ListMapped DEF Mapped
<1>11. \A k \in DOMAIN (asked \o defs) : IsWish((asked \o defs)[k])
  BY <1>7, <1>8, <1>9, <1>10, ListsJoined
<1>12. IsSeq(asked \o defs)
  BY <1>7, <1>10, ListsJoined
<1> QED
  BY <1>1, <1>11, <1>12 DEF AreWishes

-----------------------------------------------------------------------------
(* What granting a requirement makes *)

\* The table a name makes has that name.
LEMMA TemplateIs ==
  ASSUME NEW n
  PROVE  IsTable(Template(n)) /\ Template(n).name = n
BY KeyIsColumn DEF Template, IsTable, IsRecord

\* A name like that of a table finds one.
LEMMA FoundIs ==
  ASSUME NEW ts, IsDesign(ts), NEW n, Alike(ts, n) # {}
  PROVE  Found(ts, n) \in Alike(ts, n) /\ Found(ts, n) \in DOMAIN ts
<1>1. Alike(ts, n) \in SUBSET DOMAIN ts /\ IsSeq(ts)
  BY DEF Alike, IsDesign
<1> QED
  BY <1>1, GreatestPlace DEF Found

\* A table asked for is there then, and every one that was.
LEMMA TableEnsuredIs ==
  ASSUME NEW ts, IsDesign(ts), NEW n
  PROVE  /\ IsDesign(TableEnsured(ts, n)) /\ Alike(TableEnsured(ts, n), n) # {}
         /\ \A m : Alike(ts, m) \subseteq Alike(TableEnsured(ts, n), m)
<1> DEFINE us == Append(ts, Template(n))
<1>1. TableEnsured(ts, n) = IF Alike(ts, n) = {} THEN us ELSE ts
  BY DEF TableEnsured
<1>2. IsSeq(ts) /\ \A i \in DOMAIN ts : IsTable(ts[i])
  BY DesignIs
<1>3. /\ IsSeq(us) /\ Len(ts) + 1 \in DOMAIN us /\ us[Len(ts) + 1] = Template(n)
      /\ \A k \in DOMAIN ts : k \in DOMAIN us /\ us[k] = ts[k]
      /\ \A k \in DOMAIN us : k \in DOMAIN ts \/ k = Len(ts) + 1
  BY <1>2, ListAppended
<1> HIDE DEF us
<1>4. IsDesign(us)
  <2>1. \A k \in DOMAIN us : IsTable(us[k])
    BY <1>2, <1>3, TemplateIs
  <2> QED
    BY <1>3, <2>1, DesignIs
<1>5. Len(ts) + 1 \in Alike(us, n)
  BY <1>3, TemplateIs DEF Alike
<1>6. \A m : Alike(ts, m) \subseteq Alike(us, m)
  BY <1>3 DEF Alike
<1> QED
  BY <1>1, <1>4, <1>5, <1>6

NewColumn(n, f) == [name |-> n, pk |-> FALSE, fk |-> f]

\* A new column is a column.
LEMMA NewColumnIs == \A n, f : IsColumn(NewColumn(n, f))
BY DEF NewColumn, IsColumn, IsRecord

\* A design that gets a column stays one.
LEMMA ColumnEnsuredIs ==
  ASSUME NEW ts, IsDesign(ts), NEW c
  PROVE  IsDesign(ColumnEnsured(ts, c))
<1> DEFINE us == TableEnsured(ts, c.table)
           i  == Found(us, c.table)
           cols == Append(us[i].cols, NewColumn(c.name, c.fk))
           t  == [us[i] EXCEPT !.cols = cols]
           vs == [us EXCEPT ![i].cols = cols]
<1>1. ColumnEnsured(ts, c) = IF c.name \in ColumnNames(us[i]) THEN us ELSE vs
  BY DEF ColumnEnsured, NewColumn
<1>2. IsDesign(us) /\ i \in DOMAIN us
  BY TableEnsuredIs, FoundIs
<1>3. WithCols(t, us[i], cols) /\ Replaced(vs, us, i, t)
  BY DEF WithCols, Replaced
<1> HIDE DEF us, i, vs, t
<1>4. IsTable(us[i]) /\ IsColumns(us[i].cols)
  BY <1>2, DesignIs DEF IsTable
<1>5. IsColumns(cols)
  BY <1>4, NewColumnIs, ColumnsAppended
<1> HIDE DEF cols
<1>6. IsTable(t)
  BY <1>3, <1>4, <1>5, TableWithColumns
<1>7. IsDesign(vs)
  BY <1>2, <1>3, <1>6, DesignReplaced
<1> QED
  BY <1>1, <1>2, <1>7

\* A table that gets a key keeps its name.
LEMMA KeyEnsuredIs ==
  ASSUME NEW t, IsTable(t)
  PROVE  IsTable(KeyEnsured(t)) /\ KeyEnsured(t).name = t.name
<1> DEFINE cols == <<Pk(t.name)>> \o t.cols
           u == [t EXCEPT !.cols = cols]
<1>1. KeyEnsured(t) = IF PkIndices(t) # {} THEN t ELSE u
  BY DEF KeyEnsured
<1>2. WithCols(u, t, cols)
  BY DEF WithCols
<1>3. IsColumns(cols)
  BY KeyIsColumn, ColumnsPreceded DEF IsTable
<1> HIDE DEF cols, u
<1>4. IsTable(u) /\ u.name = t.name
  BY <1>2, <1>3, TableWithColumns
<1> QED
  BY <1>1, <1>4

\* So does one that gets a foreign key.
LEMMA ForeignKeyEnsuredIs ==
  ASSUME NEW t, IsTable(t), NEW c
  PROVE  IsTable(ForeignKeyEnsured(t, c)) /\ ForeignKeyEnsured(t, c).name = t.name
<1> DEFINE cols == Append(t.cols, NewColumn(c, TRUE))
           k == ColumnIndex(t, c)
           u == [t EXCEPT !.cols[k].fk = TRUE]
           v == [t EXCEPT !.cols = cols]
<1>1. ForeignKeyEnsured(t, c) = IF c \in ColumnNames(t) THEN u ELSE v
  BY DEF ForeignKeyEnsured, NewColumn
<1>2. WithCols(v, t, cols) /\ WithKey(u, t, k, "fk")
  BY DEF WithCols, WithKey
<1>3. IsColumns(cols)
  BY NewColumnIs, ColumnsAppended DEF IsTable
<1> HIDE DEF cols, u, v
<1>4. IsTable(v) /\ v.name = t.name
  BY <1>2, <1>3, TableWithColumns
<1>5. ASSUME c \in ColumnNames(t) PROVE IsTable(u) /\ u.name = t.name
  <2>1. k \in DOMAIN t.cols
    BY <1>5, ColumnIs
  <2> HIDE DEF k
  <2>2. IsTable(u) /\ KeptTable(t, u)
    <3>1. "fk" \in {"pk", "fk"}
      OBVIOUS
    <3> QED
      BY <1>2, <2>1, <3>1, TableMarked
  <2> QED
    BY <2>2 DEF KeptTable
<1> QED
  BY <1>1, <1>4, <1>5

\* Tables with one replaced by another of its name mean the same.
LEMMA AlikeReplaced ==
  ASSUME NEW ts, IsDesign(ts), NEW i \in DOMAIN ts, NEW t, t.name = ts[i].name,
         NEW us, Replaced(us, ts, i, t)
  PROVE  \A n : Alike(us, n) = Alike(ts, n)
<1>1. IsSeq(ts)
  BY DEF IsDesign
<1>2. DOMAIN us = DOMAIN ts /\ us[i] = t /\ \A k \in DOMAIN ts : k # i => us[k] = ts[k]
  BY <1>1, ListReplaced
<1>3. \A k \in DOMAIN ts : us[k].name = ts[k].name
  BY <1>2
<1> QED
  BY <1>2, <1>3 DEF Alike

\* A document that gets a relation stays one.
LEMMA RelationEnsuredIs ==
  ASSUME NEW doc, IsErd(doc), NEW pair
  PROVE  IsErd(RelationEnsured(doc, pair))
<1> DEFINE ss  == TableEnsured(doc.tables, pair[1])
           ts  == TableEnsured(ss, pair[2])
           i   == Found(ts, pair[1])
           us  == [ts EXCEPT ![i] = KeyEnsured(ts[i])]
           p   == us[Found(us, pair[1])]
           k   == Found(us, pair[2])
           vs  == [us EXCEPT ![k] = ForeignKeyEnsured(us[k], PkName(p))]
           ch  == vs[Found(vs, pair[2])].name
           rels == IF <<p.name, ch>> \in Pairs(doc.rels) THEN doc.rels
                   ELSE Append(doc.rels, Relation(p.name, PkName(p), ch, PkName(p), "1:N"))
<1>1. RelationEnsured(doc, pair) = [tables |-> vs, rels |-> rels]
  BY DEF RelationEnsured
<1>2. IsDesign(doc.tables) /\ IsSeq(doc.rels)
  BY DEF IsErd
<1>3. IsDesign(ss) /\ Alike(ss, pair[1]) # {}
  BY <1>2, TableEnsuredIs
<1>4. IsDesign(ts) /\ Alike(ts, pair[1]) # {} /\ Alike(ts, pair[2]) # {}
  BY <1>3, TableEnsuredIs
<1> HIDE DEF ss, ts
<1>5. i \in DOMAIN ts
  BY <1>4, FoundIs
<1>6. IsTable(KeyEnsured(ts[i])) /\ KeyEnsured(ts[i]).name = ts[i].name
  BY <1>4, <1>5, KeyEnsuredIs, DesignIs
<1>7. Replaced(us, ts, i, KeyEnsured(ts[i]))
  BY DEF Replaced
<1> HIDE DEF i, us
<1>8. IsDesign(us) /\ Alike(us, pair[2]) # {}
  BY <1>4, <1>5, <1>6, <1>7, DesignReplaced, AlikeReplaced
<1>9. k \in DOMAIN us /\ IsTable(us[k])
  BY <1>8, FoundIs, DesignIs
<1>10. Replaced(vs, us, k, ForeignKeyEnsured(us[k], PkName(p)))
  BY DEF Replaced
<1>11. IsTable(ForeignKeyEnsured(us[k], PkName(p)))
  BY <1>9, ForeignKeyEnsuredIs
<1> HIDE DEF k, p, vs
<1>12. IsDesign(vs)
  BY <1>8, <1>9, <1>10, <1>11, DesignReplaced
<1>13. IsSeq(rels)
  BY <1>2, ListAppended
<1> HIDE DEF rels
<1> QED
  BY <1>1, <1>12, <1>13, ErdOf

DesignKeeps(a, n, ts) == IsDesign(ts)
ErdKeeps(a, n, doc) == IsErd(doc)
TableLoop == INSTANCE LoopLemmas WITH Turn <- TableEnsured, Keeps <- DesignKeeps
ColumnLoop == INSTANCE LoopLemmas WITH Turn <- ColumnEnsured, Keeps <- DesignKeeps
RelationLoop == INSTANCE LoopLemmas WITH Turn <- RelationEnsured, Keeps <- ErdKeeps
GrantLoop == INSTANCE LoopLemmas WITH Turn <- WishGranted, Keeps <- ErdKeeps

\* A document that is granted a requirement stays one.
LEMMA WishGrantedIs ==
  ASSUME NEW doc, IsErd(doc), NEW w, IsWish(w)
  PROVE  IsErd(WishGranted(doc, w))
<1> DEFINE us == TableLoop!Loop(doc.tables, w.tables)
           vs == ColumnLoop!Loop(us, w.cols)
           d  == [doc EXCEPT !.tables = vs]
<1>1. WishGranted(doc, w) = RelationLoop!Loop(d, w.rels)
  BY DEF WishGranted, Tabling!Loop, Tabling!Turns, TableLoop!Loop, TableLoop!Turns,
         Columning!Loop, Columning!Turns, ColumnLoop!Loop, ColumnLoop!Turns,
         Relating!Loop, Relating!Turns, RelationLoop!Loop, RelationLoop!Turns
<1>2. Len(w.tables) \in Nat /\ Len(w.cols) \in Nat /\ Len(w.rels) \in Nat
  BY ListIs DEF IsWish
<1>3. IsDesign(us)
  <2>1. DesignKeeps(0, 0, doc.tables)
    BY DEF DesignKeeps, IsErd
  <2>2. \A n, x : n \in 1 .. Len(w.tables) /\ DesignKeeps(0, n - 1, x)
                     => DesignKeeps(0, n, TableEnsured(x, w.tables[n]))
    BY TableEnsuredIs DEF DesignKeeps
  <2>3. DesignKeeps(0, Len(w.tables), us)
    BY <1>2, <2>1, <2>2, TableLoop!LoopKeeps
  <2> QED
    BY <2>3 DEF DesignKeeps
<1> HIDE DEF us
<1>4. IsDesign(vs)
  <2>1. DesignKeeps(0, 0, us)
    BY <1>3 DEF DesignKeeps
  <2>2. \A n, x : n \in 1 .. Len(w.cols) /\ DesignKeeps(0, n - 1, x)
                     => DesignKeeps(0, n, ColumnEnsured(x, w.cols[n]))
    BY ColumnEnsuredIs DEF DesignKeeps
  <2>3. DesignKeeps(0, Len(w.cols), vs)
    BY <1>2, <2>1, <2>2, ColumnLoop!LoopKeeps
  <2> QED
    BY <2>3 DEF DesignKeeps
<1>5. WithTables(d, doc, vs)
  BY DEF WithTables
<1> HIDE DEF vs, d
<1>6. IsErd(d)
  BY <1>4, <1>5, ErdWithTables
<1>7. \A n, x : n \in 1 .. Len(w.rels) /\ ErdKeeps(0, n - 1, x)
                   => ErdKeeps(0, n, RelationEnsured(x, w.rels[n]))
  BY RelationEnsuredIs DEF ErdKeeps
<1>8. ErdKeeps(0, 0, d)
  BY <1>6 DEF ErdKeeps
<1>9. ErdKeeps(0, Len(w.rels), RelationLoop!Loop(d, w.rels))
  BY <1>2, <1>7, <1>8, RelationLoop!LoopKeeps
<1> QED
  BY <1>1, <1>9 DEF ErdKeeps

\* So does one that is granted all.
LEMMA GrantedIs ==
  ASSUME NEW doc, IsErd(doc), NEW ws, AreWishes(ws)
  PROVE  IsErd(Granted(doc, ws))
<1> DEFINE g == GrantLoop!Loop(doc, ws)
           P == {i \in DOMAIN g.rels : \A k \in 1..(i - 1) :
                   <<g.rels[k].parent, g.rels[k].child, g.rels[k].kind>>
                     # <<g.rels[i].parent, g.rels[i].child, g.rels[i].kind>>}
           d == [g EXCEPT !.rels = OnePerPair(g.rels)]
<1>1. Granted(doc, ws) = IF ws = <<>> THEN doc ELSE d
  BY DEF Granted, Granting!Loop, Granting!Turns, GrantLoop!Loop, GrantLoop!Turns
<1>2. Len(ws) \in Nat /\ \A n \in 1 .. Len(ws) : IsWish(ws[n])
  BY ListIs DEF AreWishes
<1>3. \A n, x : n \in 1 .. Len(ws) /\ ErdKeeps(0, n - 1, x) => ErdKeeps(0, n, WishGranted(x, ws[n]))
  BY <1>2, WishGrantedIs DEF ErdKeeps
<1>4. ErdKeeps(0, 0, doc)
  BY DEF ErdKeeps
<1>5. ErdKeeps(0, Len(ws), g)
  BY <1>2, <1>3, <1>4, GrantLoop!LoopKeeps
<1>6. WithRels(d, g, OnePerPair(g.rels)) /\ OnePerPair(g.rels) = Pick(g.rels, P) /\ P \in SUBSET DOMAIN g.rels
  BY DEF WithRels, OnePerPair
<1> HIDE DEF g, P, d
<1>7. IsErd(g) /\ IsSeq(g.rels)
  BY <1>5 DEF ErdKeeps, IsErd
<1>8. IsSeq(OnePerPair(g.rels))
  BY <1>6, <1>7, ListPicked
<1>9. IsErd(d)
  BY <1>6, <1>7, <1>8, ErdWithRels
<1> QED
  BY <1>1, <1>9

-----------------------------------------------------------------------------
(* What the steps before the validator hand on *)

\* The tables of the rules and of the model make a design.
LEMMA RuleAndModelIs ==
  ASSUME NEW rule, IsDesign(rule), NEW model, IsDesign(model)
  PROVE  IsDesign(RuleAndModel(rule, model))
<1> DEFINE own == {model[i].entity : i \in DOMAIN model} \ {""}
           P == {i \in DOMAIN rule : rule[i].entity \notin own}
<1>1. RuleAndModel(rule, model) = Normal(Pick(rule, P) \o model) /\ P \in SUBSET DOMAIN rule
  BY DEF RuleAndModel
<1> HIDE DEF P
<1>2. IsDesign(Pick(rule, P) \o model)
  BY <1>1, DesignPicked, DesignsJoined
<1> QED
  BY <1>1, <1>2, NormalIs

\* The key a table gets from the older design is a column.
LEMMA SourceKeyIs ==
  ASSUME NEW t, IsTable(t), NEW i, NEW src, IsDesign(src)
  PROVE  IsColumn(SourceKey(t, i, src))
<1> DEFINE with == {k \in SourceOf(t, i, src) : PkIndices(src[k]) # {}}
           m == Sets!Max(with)
           c == src[m].cols[Sets!Min(PkIndices(src[m]))]
<1>1. \/ with # {} /\ SourceKey(t, i, src) = c
      \/ SourceKey(t, i, src) = Pk(Base(t.entity))
      \/ SourceKey(t, i, src) = Pk(t.name)
  BY DEF SourceKey
<1>2. ASSUME with # {} PROVE IsColumn(c)
  <2>1. SourceOf(t, i, src) \subseteq DOMAIN src
    <3> DEFINE alike == {k \in DOMAIN src : src[k].entity = t.entity /\ t.entity # ""}
    <3>1. IsSeq(src) /\ alike \in SUBSET DOMAIN src
      BY DEF IsDesign
    <3>2. SourceOf(t, i, src) = IF i \in DOMAIN src THEN {i}
                                ELSE IF alike = {} THEN {} ELSE {Sets!Max(alike)}
      BY DEF SourceOf
    <3> HIDE DEF alike
    <3>3. alike # {} => Sets!Max(alike) \in DOMAIN src
      BY <3>1, GreatestPlace
    <3> QED
      BY <3>2, <3>3
  <2>2. with \in SUBSET DOMAIN src /\ IsSeq(src) /\ \A k \in with : PkIndices(src[k]) # {}
    BY <2>1 DEF IsDesign
  <2> HIDE DEF with
  <2>3. m \in with
    BY <1>2, <2>2, GreatestPlace
  <2> HIDE DEF m
  <2>4. m \in DOMAIN src /\ PkIndices(src[m]) # {} /\ IsTable(src[m])
    BY <2>2, <2>3, DesignIs
  <2>5. Sets!Min(PkIndices(src[m])) \in DOMAIN src[m].cols
    BY <2>4, KeyIs DEF PkIndices
  <2> QED
    BY <2>4, <2>5 DEF IsTable, IsColumns, IsColumn
<1> HIDE DEF with, c
<1> QED
  BY <1>1, <1>2, KeyIsColumn

\* A design that keeps the contracts of an older one is a design.
LEMMA ContractsKeptAre ==
  ASSUME NEW ts, IsDesign(ts), NEW src, IsDesign(src)
  PROVE  IsDesign(ContractsKept(ts, src))
<1> DEFINE cols(i) == <<SourceKey(ts[i], i, src)>> \o ts[i].cols
           u(i) == [ts[i] EXCEPT !.cols = cols(i)]
           us == [i \in DOMAIN ts |-> IF PkIndices(ts[i]) # {} THEN ts[i] ELSE u(i)]
<1>1. ContractsKept(ts, src) = Normal(us)
  BY DEF ContractsKept
<1>2. Len(ts) \in Nat /\ DOMAIN ts = 1 .. Len(ts) /\ \A i \in DOMAIN ts : IsTable(ts[i])
  BY TablesOfDesign
<1>3. ASSUME NEW i \in DOMAIN ts PROVE IsTable(u(i))
  <2>1. IsColumns(ts[i].cols) /\ IsColumn(SourceKey(ts[i], i, src))
    BY <1>2, SourceKeyIs DEF IsTable
  <2>2. IsColumns(cols(i))
    BY <2>1, ColumnsPreceded
  <2>3. WithCols(u(i), ts[i], cols(i))
    BY DEF WithCols
  <2> HIDE DEF cols, u
  <2> QED
    BY <1>2, <2>2, <2>3, TableWithColumns
<1>4. /\ DOMAIN us = DOMAIN ts /\ us = [i \in DOMAIN us |-> us[i]]
      /\ \A i \in DOMAIN ts : us[i] = ts[i] \/ us[i] = u(i)
  OBVIOUS
<1> HIDE DEF us, u
<1>5. \A i \in DOMAIN us : IsTable(us[i])
  BY <1>2, <1>3, <1>4
<1>6. IsDesign(us)
  BY <1>2, <1>4, <1>5, DesignOfTables
<1> QED
  BY <1>1, <1>6, NormalIs

\* Merging relations makes a list.
LEMMA RelationsMergedAre ==
  ASSUME NEW one, IsSeq(one), NEW two, IsSeq(two)
  PROVE  IsSeq(RelationsMerged(one, two))
<1> DEFINE all == one \o two
           P == {i \in DOMAIN all : \A k \in 1..(i - 1) : KeyOfRelation(all[k]) # KeyOfRelation(all[i])}
<1>1. RelationsMerged(one, two) = Pick(all, P) /\ P \in SUBSET DOMAIN all
  BY DEF RelationsMerged
<1>2. IsSeq(all)
  BY ListsJoined
<1> HIDE DEF all, P
<1> QED
  BY <1>1, <1>2, ListPicked

\* So does giving them the names of the tables.
LEMMA RelationsNamedAre ==
  ASSUME NEW rels, IsSeq(rels), NEW ts
  PROVE  IsSeq(RelationsNamed(rels, ts))
<1> DEFINE ByName(r) == [r EXCEPT !.parent = TableNamed(ts, r.parent), !.child = TableNamed(ts, r.child)]
           all == [i \in DOMAIN rels |-> ByName(rels[i])]
           P == {i \in DOMAIN all : {all[i].parent, all[i].child} \subseteq Names(ts)}
<1>1. RelationsNamed(rels, ts) = Pick(all, P) /\ P \in SUBSET DOMAIN all
  BY DEF RelationsNamed
<1>2. Mapped(all, rels)
  BY DEF Mapped
<1> HIDE DEF all, P
<1>3. IsSeq(all)
  BY <1>2, ListMapped
<1> QED
  BY <1>1, <1>3, ListPicked

-----------------------------------------------------------------------------
(* The invariant *)

\* What is held is a document, what the meeting requires is lists.
ErdTypes == IsErd(erd) /\ AreWishes(wishes)

\* What is repaired is what was found wrong with the ERD as it is; when the validator has it,
\* no table misses a primary key it has a column for.
RepairInv ==
  /\ stage = "repair" => failing = Failing(erd, wishes)
  /\ stage \in {"validate", "repair"} => AllKeys(erd.tables)

ErdInv == ErdTypes /\ RepairInv

\* No document is a document without tables.
LEMMA NoErdIs == IsErd(EmptyErd)
BY NoneIsDesign, NoneIsList, ErdOf DEF EmptyErd

\* The invariant holds when nothing runs, and when a run begins.
LEMMA ErdInvInit == ErdOff \/ ErdBegun => ErdInv
<1>1. AreWishes(<<>>)
  BY NoneIsList DEF AreWishes
<1>2. ErdOff => ErdInv
  BY <1>1, NoErdIs DEF ErdOff, ErdInv, ErdTypes, RepairInv
<1>3. ASSUME ErdBegun PROVE ErdInv
  <2>1. erd = EmptyErd /\ stage = "tables" /\ (wishes = <<>> \/ \E m \in Minutes : wishes = Wanted(m))
    BY <1>3 DEF ErdBegun
  <2>2. AreWishes(wishes)
    BY <1>1, <2>1, WantedAre
  <2> QED
    BY <2>1, <2>2, NoErdIs DEF ErdInv, ErdTypes, RepairInv
<1> QED
  BY <1>2, <1>3

\* A step that hands a document on before the validator has it.
LEMMA GoesKeeps ==
  ASSUME ErdInv, NEW to, to \notin {"validate", "repair"}, NEW doc, IsErd(doc), Goes(to, doc)
  PROVE  ErdInv'
<1>1. erd' = doc /\ wishes' = wishes /\ stage' = to
  BY DEF Goes
<1>2. ErdTypes'
  BY <1>1 DEF ErdInv, ErdTypes
<1>3. RepairInv'
  BY <1>1 DEF RepairInv
<1> QED
  BY <1>2, <1>3 DEF ErdInv

\* Handing on a design before the validator keeps the invariant.
LEMMA GoesKeepsTables ==
  ASSUME ErdInv, NEW to, to \notin {"validate", "repair"}, NEW ts, IsDesign(ts), Goes(to, With(ts))
  PROVE  ErdInv'
<1>1. WithTables(With(ts), erd, ts)
  BY DEF With, WithTables
<1>2. IsErd(With(ts))
  BY <1>1, ErdWithTables DEF ErdInv, ErdTypes
<1> QED
  BY <1>2, GoesKeeps

\* What the models answer, or what stands in for it, has its type.
LEMMA DraftsAre ==
  /\ \A d \in Drafts : IsDesign(d)
  /\ \A d \in OrNone(Drafts) : IsDesign(d)
  /\ \A rels \in OrNone(Links) : IsSeq(rels)
BY ErdAssumption, NoneIsDesign, NoneIsList DEF OrNone

\* One lemma per step of the agent: the invariant holds after it.
LEMMA ProposeKeeps ==
  ASSUME ErdInv, ProposeTables
  PROVE  ErdInv'
<1>1. PICK rule \in Drafts, model \in OrNone(Drafts) :
        Goes("columns", With(RuleAndModel(Normal(rule), model)))
  BY DEF ProposeTables
<1>2. IsDesign(RuleAndModel(Normal(rule), model))
  BY DraftsAre, NormalIs, RuleAndModelIs
<1> QED
  BY <1>1, <1>2, GoesKeepsTables

\* The tables of an update.
LEMMA RedesignKeeps ==
  ASSUME ErdInv, RedesignTables
  PROVE  ErdInv'
<1>1. PICK source1 \in Drafts, added \in OrNone(Drafts), model \in OrNone(Drafts) :
        \E asked \in {Normal(Normal(source1) \o Normal(added))} :
        \E new \in {Normal(IF model = <<>> THEN asked ELSE model)} :
          Goes("relate", With(ContractsKept(new, Normal(source1))))
  BY DEF RedesignTables
<1> DEFINE asked == Normal(Normal(source1) \o Normal(added))
           new == Normal(IF model = <<>> THEN asked ELSE model)
<1>2. IsDesign(asked)
  BY DraftsAre, NormalIs, DesignsJoined
<1>3. Goes("relate", With(ContractsKept(new, Normal(source1))))
  BY <1>1
<1> HIDE DEF asked
<1>4. IsDesign(new) /\ IsDesign(Normal(source1))
  BY <1>2, DraftsAre, NormalIs
<1> HIDE DEF new
<1>5. IsDesign(ContractsKept(new, Normal(source1)))
  BY <1>4, ContractsKeptAre
<1> QED
  BY <1>3, <1>5, GoesKeepsTables

\* The columns.
LEMMA DesignColumnsKeeps ==
  ASSUME ErdInv, DesignColumns
  PROVE  ErdInv'
<1> DEFINE Full(t) == [t EXCEPT !.cols = At(erd.tables, t.name).cols]
           Based(t) == IF t.cols = <<>> /\ t.name \in Names(erd.tables) THEN Full(t) ELSE t
           Ts(model) == IF model = <<>> THEN erd.tables ELSE [i \in DOMAIN model |-> Based(model[i])]
<1>1. PICK model \in OrNone(Drafts) : Goes("relate", With(Normal(Ts(model))))
  BY DEF DesignColumns
<1>2. IsDesign(erd.tables) /\ IsDesign(model)
  BY DraftsAre DEF ErdInv, ErdTypes, IsErd
<1>3. ASSUME NEW t, IsTable(t) PROVE IsTable(Based(t))
  <2>1. CASE t.cols = <<>> /\ t.name \in Names(erd.tables)
    <3>1. IsColumns(At(erd.tables, t.name).cols)
      BY <1>2, <2>1, IndexIs DEF IsTable
    <3>2. WithCols(Full(t), t, At(erd.tables, t.name).cols)
      BY DEF WithCols
    <3> HIDE DEF Full
    <3>3. IsTable(Full(t))
      BY <1>3, <3>1, <3>2, TableWithColumns
    <3> QED
      BY <2>1, <3>3
  <2> QED
    BY <1>3, <2>1
<1>4. IsDesign(Ts(model))
  <2> DEFINE us == [i \in DOMAIN model |-> Based(model[i])]
  <2>1. Len(model) \in Nat /\ DOMAIN model = 1 .. Len(model) /\ \A i \in DOMAIN model : IsTable(model[i])
    BY <1>2, TablesOfDesign
  <2>2. /\ DOMAIN us = DOMAIN model /\ us = [i \in DOMAIN us |-> us[i]]
        /\ \A i \in DOMAIN us : IsTable(us[i])
    BY <1>3, <2>1
  <2>3. Ts(model) = IF model = <<>> THEN erd.tables ELSE us
    OBVIOUS
  <2> HIDE DEF us
  <2>4. IsDesign(us)
    BY <2>1, <2>2, DesignOfTables
  <2> QED
    BY <1>2, <2>3, <2>4
<1> HIDE DEF Ts
<1>5. IsDesign(Normal(Ts(model)))
  BY <1>4, NormalIs
<1> QED
  BY <1>1, <1>5, GoesKeepsTables

\* The relations.
LEMMA RelateKeeps ==
  ASSUME ErdInv, Relate
  PROVE  ErdInv'
<1> DEFINE Told(model) == IF model = <<>> THEN Infer(erd.tables) ELSE model
           Rels(asked, model) == IF asked = <<>> THEN Told(model) ELSE RelationsMerged(asked, Told(model))
           doc(rels) == [erd EXCEPT !.rels = rels]
<1>1. PICK model \in OrNone(Links), asked \in OrNone(Links) :
        Goes("final", Granted(doc(Rels(asked, model)), wishes))
  BY DEF Relate, OrNone
<1>2. IsErd(erd) /\ IsDesign(erd.tables) /\ AreWishes(wishes)
  BY DEF ErdInv, ErdTypes, IsErd
<1>3. IsSeq(Told(model))
  BY <1>2, DraftsAre, InferIs
<1> HIDE DEF Told
<1>4. IsSeq(Rels(asked, model))
  BY <1>3, DraftsAre, RelationsMergedAre
<1> HIDE DEF Rels
<1>5. WithRels(doc(Rels(asked, model)), erd, Rels(asked, model))
  BY DEF WithRels
<1> HIDE DEF doc
<1>6. IsErd(doc(Rels(asked, model)))
  BY <1>2, <1>4, <1>5, ErdWithRels
<1>7. IsErd(Granted(doc(Rels(asked, model)), wishes))
  BY <1>2, <1>6, GrantedIs
<1> QED
  BY <1>1, <1>7, GoesKeeps

\* The document.
LEMMA FinalJsonKeeps ==
  ASSUME ErdInv, FinalJson
  PROVE  ErdInv'
<1> DEFINE Ts(model) == Normal(IF model = <<>> THEN erd.tables ELSE model)
           Rels(links) == IF links = <<>> THEN erd.rels ELSE links
           doc(ts, rels) == [tables |-> ts, rels |-> RelationsNamed(rels, ts)]
<1>1. PICK model \in OrNone(Drafts), links \in OrNone(Links) : Goes("names", doc(Ts(model), Rels(links)))
  BY DEF FinalJson, OrNone
<1>2. IsDesign(erd.tables) /\ IsSeq(erd.rels)
  BY DEF ErdInv, ErdTypes, IsErd
<1>3. IsDesign(Ts(model)) /\ IsSeq(Rels(links))
  BY <1>2, DraftsAre, NormalIs
<1> HIDE DEF Ts, Rels
<1>4. IsErd(doc(Ts(model), Rels(links)))
  BY <1>3, RelationsNamedAre, ErdOf
<1> HIDE DEF doc
<1> QED
  BY <1>1, <1>4, GoesKeeps

\* Renamed entities leave a design.
LEMMA Renamings ==
  ASSUME NEW ts, IsDesign(ts), NEW f
  PROVE  IsDesign(Renamed(ts, f))
<1>1. Kept(ts, Renamed(ts, f), Names(ts))
  BY RenamedIs DEF Names
<1> QED
  BY <1>1 DEF Kept

\* So do the names told apart and matched.
LEMMA DistinctDesign ==
  ASSUME NEW ts, IsDesign(ts), NEW scope
  PROVE  IsDesign(Distinct(ts, scope)) /\ IsDesign(Matched(ts, scope))
BY DistinctIs, MatchedIs DEF Kept

\* The names of the entities.
LEMMA NameEntitiesKeeps ==
  ASSUME ErdInv, NEW from, NEW to, to \notin {"validate", "repair"}, NameEntities(from, to)
  PROVE  ErdInv'
<1>1. IsErd(erd) /\ IsDesign(erd.tables)
  BY DEF ErdInv, ErdTypes, IsErd
<1>2. CASE Goes(to, erd)
  BY <1>1, <1>2, GoesKeeps
<1>3. CASE \E f \in NamesOf(Unnamed(erd.tables), ValidNames \cup {""}) :
             Goes(to, With(Renamed(erd.tables, f)))
  <2>1. PICK f : Goes(to, With(Renamed(erd.tables, f)))
    BY <1>3
  <2>2. IsDesign(Renamed(erd.tables, f))
    BY <1>1, Renamings
  <2> QED
    BY <2>1, <2>2, GoesKeepsTables
<1> QED
  BY <1>2, <1>3 DEF NameEntities

\* The review of the catalog.
LEMMA ReviewKeeps ==
  ASSUME ErdInv, ReviewCatalog
  PROVE  ErdInv'
<1>1. IsDesign(erd.tables)
  BY DEF ErdInv, ErdTypes, IsErd
<1>2. PICK f : Goes("names again", With(Renamed(erd.tables, f)))
  BY DEF ReviewCatalog
<1>3. IsDesign(Renamed(erd.tables, f))
  BY <1>1, Renamings
<1> QED
  BY <1>2, <1>3, GoesKeepsTables

\* The three steps on consistency.
LEMMA ConsistencyKeeps ==
  ASSUME ErdInv, TellApart \/ RepairConsistency \/ SettleConsistency
  PROVE  ErdInv'
<1>1. IsDesign(erd.tables) /\ IsErd(erd)
  BY DEF ErdInv, ErdTypes, IsErd
<1>2. CASE TellApart
  <2>1. IsDesign(Distinct(erd.tables, AllNames))
    BY <1>1, DistinctDesign
  <2>2. Goes("consistent", With(Distinct(erd.tables, AllNames)))
    BY <1>2 DEF TellApart
  <2> QED
    BY <2>1, <2>2, GoesKeepsTables
<1>3. CASE RepairConsistency
  <2>1. PICK f : erd' = With(Distinct(Renamed(erd.tables, f), AllNames))
    BY <1>3 DEF RepairConsistency
  <2> DEFINE ts == Distinct(Renamed(erd.tables, f), AllNames)
  <2>2. IsDesign(ts)
    BY <1>1, Renamings, DistinctDesign
  <2> HIDE DEF ts
  <2>3. WithTables(With(ts), erd, ts)
    BY DEF With, WithTables
  <2>4. IsErd(erd')
    BY <1>1, <2>1, <2>2, <2>3, ErdWithTables DEF ts
  <2>5. stage' = "consistent" /\ wishes' = wishes
    BY <1>3 DEF RepairConsistency
  <2>6. ErdTypes'
    BY <2>4, <2>5 DEF ErdInv, ErdTypes
  <2> QED
    BY <2>5, <2>6 DEF ErdInv, RepairInv
<1>4. CASE SettleConsistency
  <2>1. IsDesign(Distinct(Matched(erd.tables, AllNames), AllNames))
    BY <1>1, DistinctDesign
  <2>2. Goes("resolve", With(Distinct(Matched(erd.tables, AllNames), AllNames)))
    BY <1>4 DEF SettleConsistency
  <2> QED
    BY <2>1, <2>2, GoesKeepsTables
<1> QED
  BY <1>2, <1>3, <1>4

\* A run that ends for a table without a name.
LEMMA NamelessKeeps ==
  ASSUME ErdInv, NamelessFails
  PROVE  ErdInv'
BY NoErdIs, GoesKeeps DEF NamelessFails

\* What the validator is handed has been through the quality rules.
LEMMA FinishKeeps ==
  ASSUME ErdInv, Finish
  PROVE  ErdInv'
<1>1. IsErd(erd) /\ AreWishes(wishes)
  BY DEF ErdInv, ErdTypes
<1>2. PICK e \in Resolved(erd) : erd' = Handed(GrantedAgain(e))
  BY DEF Finish
<1>3. IsErd(e)
  BY <1>1, ResolvedIs
<1>4. IsErd(GrantedAgain(e))
  <2> DEFINE g == Granted(e, wishes)
             d == [g EXCEPT !.tables = Normal(g.tables)]
  <2>1. GrantedAgain(e) = IF wishes = <<>> THEN e ELSE d
    BY DEF GrantedAgain
  <2>2. WithTables(d, g, Normal(g.tables))
    BY DEF WithTables
  <2>3. IsErd(g) /\ IsDesign(g.tables)
    BY <1>1, <1>3, GrantedIs DEF IsErd
  <2> HIDE DEF g, d
  <2>4. IsErd(d)
    BY <2>2, <2>3, NormalIs, ErdWithTables
  <2> QED
    BY <1>3, <2>1, <2>4
<1>5. IsErd(erd') /\ AllKeys(erd'.tables)
  BY <1>2, <1>4, PreparedIs DEF Handed
<1>6. stage' = "validate" /\ wishes' = wishes
  BY DEF Finish
<1>7. ErdTypes'
  BY <1>1, <1>5, <1>6 DEF ErdTypes
<1>8. RepairInv'
  BY <1>5, <1>6 DEF RepairInv
<1> QED
  BY <1>7, <1>8 DEF ErdInv

\* The validator, with the keys it gives before it looks.
LEMMA ValidateKeeps ==
  ASSUME ErdInv, Validate
  PROVE  ErdInv'
<1>1. /\ stage = "validate" /\ erd' = erd /\ wishes' = wishes
      /\ failing' = Failing(erd, wishes)
  BY DEF Validate
<1>2. ErdTypes'
  BY <1>1 DEF ErdInv, ErdTypes
<1>3. RepairInv'
  BY <1>1 DEF ErdInv, RepairInv
<1> QED
  BY <1>2, <1>3 DEF ErdInv

-----------------------------------------------------------------------------
(* A repair *)

\* The parts of what was found wrong that are about no primary key.
LEMMA OtherIssues ==
  ASSUME NEW doc, NEW x \in Inspect(doc)
  PROVE  x.type # "ERD_PK_MISSING"
<1>1. CASE x \in NameIssues(doc.tables)
  <2>1. PICK t : \/ x = Issue("ENTITY_NAME_MISSING", {t.name}, <<>>)
                 \/ x = Issue("ENTITY_NAME_SENTENCE", {t.name}, <<>>)
    BY <1>1 DEF NameIssues
  <2> QED
    BY <2>1 DEF Issue
<1>2. CASE x \in DuplicateIssues(doc.tables)
  BY <1>2 DEF DuplicateIssues, Issue
<1>3. CASE x \in RelationIssues(doc)
  <2>1. PICK r, y : y \in RelationIssue(doc.tables, r) /\ x = Issue(y, {}, KeyOfRelation(r))
    BY <1>3 DEF RelationIssues
  <2>2. y # "ERD_PK_MISSING"
    BY <2>1 DEF RelationIssue
  <2> QED
    BY <2>1, <2>2 DEF Issue
<1>4. CASE x \in UnmappedIssues(doc)
  BY <1>4 DEF UnmappedIssues, Issue
<1> QED
  BY <1>1, <1>2, <1>3, <1>4 DEF Inspect

\* A complaint of a missing key is about a table without one.
LEMMA MissingKeyIs ==
  ASSUME NEW doc, NEW ws, NEW x \in Failing(doc, ws), x.type = "ERD_PK_MISSING"
  PROVE  \E t \in Members(doc.tables) : PkIndices(t) = {} /\ x.on = {t.name}
<1> DEFINE ts == doc.tables
<1>1. x \notin Inspect(doc)
  BY OtherIssues
<1>2. CASE x \in {Issue("ERD_PK_MISSING", {t.name}, <<>>) : t \in {u \in Members(ts) : PkIndices(u) = {}}}
  BY <1>2 DEF Issue
<1>3. CASE \/ x \in {Issue("ENTITY_GENERIC_NAME", {n}, <<>>) : n \in TablesAt(ts, Inconsistent(ts) \ Mismatched(ts))}
           \/ x \in {Issue("ENTITY_NAME_MISMATCH", {n}, <<>>) : n \in TablesAt(ts, Mismatched(ts))}
           \/ x \in (IF AllReflected(doc, ws) THEN {} ELSE {Issue("ERD_MEETING_CHANGE_MISSING", {}, <<>>)})
  BY <1>3 DEF Issue
<1> QED
  BY <1>1, <1>2, <1>3 DEF Failing

\* A table that misses its primary key has no column to make one: a repair that would have to
\* give it one fails.
LEMMA NoKeyIsRepaired ==
  ASSUME ErdInv, stage = "repair", RepairedErds # {}
  PROVE  TableScope = {}
<1> SUFFICES ASSUME TableScope # {} PROVE FALSE
  OBVIOUS
<1>1. PICK x \in failing : x.type = "ERD_PK_MISSING" /\ x \in Repaired
  BY DEF TableScope, ScopeOf, Repaired
<1>2. failing = Failing(erd, wishes) /\ AllKeys(erd.tables) /\ IsDesign(erd.tables) /\ IsErd(erd)
  BY DEF ErdInv, ErdTypes, RepairInv, IsErd
<1>3. PICK t \in Members(erd.tables) : PkIndices(t) = {} /\ x.on = {t.name}
  BY <1>1, <1>2, MissingKeyIs
<1>4. PICK i \in DOMAIN erd.tables : erd.tables[i] = t
  BY MembersAt
<1>5. "ERD_PK_MISSING" \in FailedTypes /\ t.name \in TableScope
  BY <1>1, <1>3 DEF FailedTypes, TableScope, ScopeOf
<1> DEFINE us == EnsurePks(erd.tables, TableScope)
<1>6. KeysRepaired = With(us)
  BY <1>5 DEF KeysRepaired
<1>7. KeysGiven(erd.tables[i])
  BY <1>2 DEF AllKeys
<1>8. us[i] = t /\ DOMAIN us = DOMAIN erd.tables /\ IsDesign(us)
  BY <1>2, <1>4, <1>7, EnsurePksIs DEF Kept
<1> HIDE DEF us
<1>9. WithTables(With(us), erd, us)
  BY DEF With, WithTables
<1>10. KeysRepaired.tables = us
  BY <1>2, <1>6, <1>8, <1>9, ErdWithTables
<1>11. i \in KeysMissing(KeysRepaired)
  BY <1>3, <1>5, <1>8, <1>10 DEF KeysMissing
<1> QED
  BY <1>11 DEF RepairedErds

\* Repairing the keys marks columns, and leaves the relations alone.
LEMMA KeysRepairedIs ==
  ASSUME IsErd(erd)
  PROVE  /\ IsErd(KeysRepaired) /\ Kept(erd.tables, KeysRepaired.tables, {})
         /\ KeysRepaired.rels = erd.rels
<1> DEFINE us == EnsurePks(erd.tables, IF TableScope # {} THEN TableScope ELSE EntityScope)
<1>1. KeysRepaired = With(us) \/ KeysRepaired = erd
  BY DEF KeysRepaired
<1>2. IsDesign(erd.tables)
  BY DEF IsErd
<1>3. Kept(erd.tables, us, {}) /\ IsDesign(us)
  BY <1>2, EnsurePksIs DEF Kept
<1> HIDE DEF us
<1>4. WithTables(With(us), erd, us)
  BY DEF With, WithTables
<1>5. IsErd(With(us)) /\ With(us).tables = us /\ With(us).rels = erd.rels
  BY <1>3, <1>4, ErdWithTables
<1> QED
  BY <1>1, <1>2, <1>3, <1>5, KeptAsIs

\* A patch renames entities of its scope, and leaves the relations alone.
LEMMA PatchedIs ==
  ASSUME NEW doc, IsErd(doc), NEW d \in Patched(doc)
  PROVE  IsErd(d) /\ Kept(doc.tables, d.tables, EntityScope) /\ d.rels = doc.rels
<1>1. IsDesign(doc.tables)
  BY DEF IsErd
<1>2. CASE d = doc
  BY <1>1, <1>2, KeptAsIs
<1>3. CASE d # doc
  <2>1. PICK f \in NamesOf(Misnamed(doc.tables), ValidNames) :
          d = [doc EXCEPT !.tables = Renamed(doc.tables, f)]
    BY <1>3 DEF Patched
  <2>2. \A i \in DOMAIN doc.tables : i \in DOMAIN f => doc.tables[i].name \in EntityScope
    BY DEF NamesOf, Misnamed
  <2>3. Kept(doc.tables, Renamed(doc.tables, f), EntityScope) /\ IsDesign(Renamed(doc.tables, f))
    BY <1>1, <2>2, RenamedIs DEF Kept
  <2>4. WithTables(d, doc, Renamed(doc.tables, f))
    BY <2>1 DEF WithTables
  <2> QED
    BY <2>3, <2>4, ErdWithTables
<1> QED
  BY <1>2, <1>3

\* So does the rule that tells like names apart.
LEMMA UntangledIs ==
  ASSUME NEW doc, IsErd(doc)
  PROVE  /\ IsErd(Untangled(doc)) /\ Kept(doc.tables, Untangled(doc).tables, Scope)
         /\ Untangled(doc).rels = doc.rels
<1> DEFINE ts == doc.tables
           one == IF "ENTITY_SEMANTIC_DUPLICATED" \in FailedTypes THEN Distinct(ts, Scope) ELSE ts
           two == IF FailedTypes \cap {"ENTITY_GENERIC_NAME", "ENTITY_NAME_MISMATCH"} # {}
                  THEN Matched(one, Scope) ELSE one
           three == IF FailedTypes \cap {"ENTITY_GENERIC_NAME", "ENTITY_NAME_MISMATCH",
                                         "ENTITY_SEMANTIC_DUPLICATED"} # {}
                    THEN Distinct(two, Scope) ELSE two
<1>1. Untangled(doc) = [doc EXCEPT !.tables = three]
  BY DEF Untangled
<1>2. IsDesign(ts)
  BY DEF IsErd
<1>3. Kept(ts, one, Scope) /\ IsDesign(one)
  BY <1>2, DistinctIs, KeptAsIs DEF Kept
<1> HIDE DEF one
<1>4. Kept(one, two, Scope) /\ IsDesign(two)
  BY <1>3, MatchedIs, KeptAsIs DEF Kept
<1> HIDE DEF two
<1>5. Kept(two, three, Scope) /\ IsDesign(three)
  BY <1>4, DistinctIs, KeptAsIs DEF Kept
<1> HIDE DEF three
<1>6. WithTables(Untangled(doc), doc, three)
  BY <1>1 DEF WithTables
<1>7. IsErd(Untangled(doc)) /\ Untangled(doc).tables = three /\ Untangled(doc).rels = doc.rels
  BY <1>5, <1>6, ErdWithTables
<1>8. Kept(ts, three, Scope)
  BY <1>3, <1>4, <1>5, KeptFurther
<1> QED
  BY <1>7, <1>8

\* What a repair makes of the ERD: only entities in the scope have other names, and the
\* relations are what they were unless foreign keys without one are repaired.
LEMMA RepairIs ==
  ASSUME ErdInv, stage = "repair", NEW d \in RepairedErds
  PROVE  /\ IsErd(Checked(d)) /\ Kept(erd.tables, Checked(d).tables, EntityScope)
         /\ OpenKeys = {} => Checked(d).rels = erd.rels
<1> DEFINE k == KeysRepaired
<1>1. Scope = EntityScope
  BY NoKeyIsRepaired DEF Scope
<1>2. IsErd(erd)
  BY DEF ErdInv, ErdTypes
<1>3. IsErd(k) /\ Kept(erd.tables, k.tables, EntityScope) /\ k.rels = erd.rels
  BY <1>2, KeysRepairedIs, KeptByMore
<1>4. PICK r \in Reconnected(Patched(k)) : d = Untangled(r)
  BY DEF RepairedErds
<1>5. PICK e \in Patched(k) : IF OpenKeys = {} THEN r = e ELSE r \in Resolved(e)
  BY <1>4 DEF Reconnected
<1> HIDE DEF k
<1>6. IsErd(e) /\ Kept(k.tables, e.tables, EntityScope) /\ e.rels = k.rels
  BY <1>3, PatchedIs
<1>7. IsErd(r) /\ Kept(e.tables, r.tables, EntityScope) /\ (OpenKeys = {} => r = e)
  <2>1. CASE OpenKeys = {}
    <3>1. IsDesign(e.tables)
      BY <1>6 DEF IsErd
    <3> QED
      BY <1>5, <1>6, <2>1, <3>1, KeptAsIs
  <2>2. CASE OpenKeys # {}
    <3>1. IsErd(r) /\ Kept(e.tables, r.tables, {})
      BY <1>5, <1>6, <2>2, ResolvedIs
    <3> QED
      BY <2>2, <3>1, KeptByMore
  <2> QED
    BY <2>1, <2>2
<1>8. IsErd(d) /\ Kept(r.tables, d.tables, EntityScope) /\ d.rels = r.rels
  BY <1>1, <1>4, <1>7, UntangledIs
<1>9. /\ IsErd(Checked(d)) /\ Kept(d.tables, Checked(d).tables, EntityScope)
      /\ OpenKeys = {} => Checked(d) = d
  <2>1. CASE OpenKeys = {}
    <3>1. IsDesign(d.tables)
      BY <1>8 DEF IsErd
    <3> QED
      BY <1>8, <2>1, <3>1, KeptAsIs DEF Checked
  <2>2. CASE OpenKeys # {}
    <3>1. IsErd(Prepared(d)) /\ Kept(d.tables, Prepared(d).tables, {})
      BY <1>8, PreparedIs
    <3> QED
      BY <2>2, <3>1, KeptByMore DEF Checked
  <2> QED
    BY <2>1, <2>2
<1>10. Kept(erd.tables, Checked(d).tables, EntityScope)
  BY <1>3, <1>6, <1>7, <1>8, <1>9, KeptFurther
<1> QED
  BY <1>3, <1>6, <1>7, <1>8, <1>9, <1>10

\* The repair.
LEMMA RepairKeeps ==
  ASSUME ErdInv, Repair
  PROVE  ErdInv'
<1>1. IsErd(erd) /\ AllKeys(erd.tables) /\ stage = "repair" /\ stage' = "validate" /\ wishes' = wishes
  BY DEF ErdInv, ErdTypes, RepairInv, Repair
<1>2. IsErd(erd') /\ AllKeys(erd'.tables)
  <2>1. CASE erd' = erd
    BY <1>1, <2>1
  <2>2. CASE erd' # erd
    <3>1. PICK d \in RepairedErds : erd' = Checked(d)
      BY <2>2 DEF Repair
    <3>2. IsErd(Checked(d)) /\ Kept(erd.tables, Checked(d).tables, EntityScope)
      BY <1>1, RepairIs
    <3> QED
      BY <1>1, <3>1, <3>2, AllKeysStay
  <2> QED
    BY <2>1, <2>2
<1>3. ErdTypes'
  BY <1>1, <1>2 DEF ErdInv, ErdTypes
<1>4. RepairInv'
  BY <1>1, <1>2 DEF RepairInv
<1> QED
  BY <1>3, <1>4 DEF ErdInv

\* Every step keeps the invariant.
LEMMA ErdInvStep == ErdInv /\ [ErdNext]_erdVars => ErdInv'
<1> SUFFICES ASSUME ErdInv, [ErdNext]_erdVars PROVE ErdInv'
  OBVIOUS
<1>1. CASE ProposeTables
  BY <1>1, ProposeKeeps
<1>2. CASE RedesignTables
  BY <1>2, RedesignKeeps
<1>3. CASE DesignColumns
  BY <1>3, DesignColumnsKeeps
<1>4. CASE Relate
  BY <1>4, RelateKeeps
<1>5. CASE FinalJson
  BY <1>5, FinalJsonKeeps
<1>6. CASE NameFirst
  BY <1>6, NameEntitiesKeeps DEF NameFirst
<1>7. CASE ReviewCatalog
  BY <1>7, ReviewKeeps
<1>8. CASE NameAgain
  BY <1>8, NameEntitiesKeeps DEF NameAgain
<1>9. CASE TellApart \/ RepairConsistency \/ SettleConsistency
  BY <1>9, ConsistencyKeeps
<1>10. CASE NamelessFails
  BY <1>10, NamelessKeeps
<1>11. CASE Finish
  BY <1>11, FinishKeeps
<1>12. CASE Validate
  BY <1>12, ValidateKeeps
<1>13. CASE Repair
  BY <1>13, RepairKeeps
<1>14. CASE UNCHANGED erdVars
  <2>1. stage' = stage /\ erd' = erd /\ wishes' = wishes /\ failing' = failing
    BY <1>14 DEF erdVars
  <2>2. ErdTypes'
    BY <2>1 DEF ErdInv, ErdTypes
  <2>3. RepairInv'
    BY <2>1 DEF ErdInv, RepairInv
  <2> QED
    BY <2>2, <2>3 DEF ErdInv
<1> QED
  BY <1>1, <1>2, <1>3, <1>4, <1>5, <1>6, <1>7, <1>8, <1>9, <1>10, <1>11, <1>12, <1>13, <1>14 DEF ErdNext

\* In every state of a run of the ERD agent, whatever the models answer, the document is a
\* design and a list of relations; at validation and at repair every table without a key has no
\* column named like one; and what a repair is about are the complaints about this document.
THEOREM ErdInvHolds == ErdSpec => []ErdInv
BY ErdInvInit, ErdInvStep, PTL DEF ErdSpec

\* A repair stays in its scope, and no other step begins at one.
LEMMA StepsStayInScope == ErdInv /\ [ErdNext]_erdVars => [StaysInScope]_erdVars
<1> SUFFICES ASSUME ErdInv, ErdNext, stage = "repair" PROVE StaysInScope
  BY DEF StaysInScope
<1>1. Repair
  BY DEF ErdNext, ProposeTables, RedesignTables, DesignColumns, Relate, FinalJson, NameFirst,
         NameAgain, NameEntities, ReviewCatalog, TellApart, RepairConsistency, SettleConsistency,
         NamelessFails, Finish, Validate, Goes
<1>2. IsErd(erd) /\ IsDesign(erd.tables)
  BY DEF ErdInv, ErdTypes, IsErd
<1>3. Kept(erd.tables, erd'.tables, EntityScope) /\ (OpenKeys = {} => erd'.rels = erd.rels)
  <2>1. CASE erd' = erd
    BY <1>2, <2>1, KeptAsIs
  <2>2. CASE erd' # erd
    <3>1. PICK d \in RepairedErds : erd' = Checked(d)
      BY <1>1, <2>2 DEF Repair
    <3> QED
      BY <3>1, RepairIs
  <2> QED
    BY <2>1, <2>2
<1>4. DOMAIN erd'.tables = DOMAIN erd.tables /\ \A i \in DOMAIN erd.tables :
        /\ KeptTable(erd.tables[i], erd'.tables[i])
        /\ erd'.tables[i].entity # erd.tables[i].entity => erd.tables[i].name \in EntityScope
  BY <1>3 DEF Kept
<1>5. ASSUME NEW i \in DOMAIN erd.tables
      PROVE  /\ erd.tables[i].name = erd'.tables[i].name
             /\ {erd.tables[i].cols[k].name : k \in DOMAIN erd.tables[i].cols}
                  = {erd'.tables[i].cols[k].name : k \in DOMAIN erd'.tables[i].cols}
  <2> DEFINE t == erd.tables[i]
             u == erd'.tables[i]
  <2>1. KeptTable(t, u)
    BY <1>4
  <2> HIDE DEF t, u
  <2>2. /\ u.name = t.name /\ DOMAIN u.cols = DOMAIN t.cols
        /\ \A k \in DOMAIN t.cols : u.cols[k].name = t.cols[k].name
    BY <2>1 DEF KeptTable
  <2>3. {t.cols[k].name : k \in DOMAIN t.cols} = {u.cols[k].name : k \in DOMAIN u.cols}
    BY <2>2
  <2> QED
    BY <2>2, <2>3 DEF t, u
<1> QED
  BY <1>3, <1>4, <1>5 DEF StaysInScope

\* A repair of an ERD changes what the complaints are about and nothing else: no table goes or
\* comes, no column, no name of a table, an entity changes its name only where a complaint is
\* about it, and the relations stay unless a foreign key has none.
THEOREM RepairsStayInScope == ErdSpec => RepairInScope
BY ErdInvHolds, StepsStayInScope, PTL DEF RepairInScope, ErdSpec

=============================================================================
