---------------------------- MODULE Totals_proofs ----------------------------
(***************************************************************************)
(* How a total changes with the set and the function it is taken over, and *)
(* that the largest and the smallest of finitely many numbers are what     *)
(* they are named for.                                                     *)
(***************************************************************************)
EXTENDS Sequences, Totals, FiniteSetsExt, FiniteSetTheorems, TLAPS

\* The units of a finite set are finitely many.
LEMMA UnitsFinite ==
  ASSUME NEW D, NEW f \in [D -> Nat], NEW S \in SUBSET D, IsFiniteSet(S)
  PROVE  IsFiniteSet(Units(f, S))
<1> DEFINE Column == [x \in S |-> {x} \X (1 .. f[x])]
           Columns == { {x} \X (1 .. f[x]) : x \in S }
<1>1. Column \in Surjection(S, Columns)
  BY DEF Surjection
<1>2. IsFiniteSet(Columns)
  BY <1>1, FS_Surjection
<1>3. ASSUME NEW x \in S PROVE IsFiniteSet({x} \X (1 .. f[x]))
  <2>1. f[x] \in Int /\ 1 \in Int
    OBVIOUS
  <2>2. IsFiniteSet(1 .. f[x])
    BY <2>1, FS_Interval
  <2>3. IsFiniteSet({x})
    BY FS_Singleton
  <2> QED BY <2>2, <2>3, FS_Product
<1>4. \A T \in Columns : IsFiniteSet(T)
  BY <1>3
<1> QED BY <1>2, <1>4, FS_UNION DEF Units

\* A total is a natural number.
LEMMA TotalNat ==
  ASSUME NEW D, NEW f \in [D -> Nat], NEW S \in SUBSET D, IsFiniteSet(S)
  PROVE  Total(f, S) \in Nat
BY UnitsFinite, FS_CardinalityType DEF Total

\* The total over the empty set is zero.
LEMMA TotalEmpty ==
  ASSUME NEW f
  PROVE  Total(f, {}) = 0
<1>1. Units(f, {}) = {}
  BY DEF Units
<1> QED BY <1>1, FS_EmptySet DEF Total

\* A new element adds its own amount.
LEMMA TotalAdd ==
  ASSUME NEW D, NEW f \in [D -> Nat], NEW S \in SUBSET D, IsFiniteSet(S),
         NEW x \in D, x \notin S
  PROVE  Total(f, S \cup {x}) = Total(f, S) + f[x]
<1> DEFINE Own == {x} \X (1 .. f[x])
<1>1. Units(f, S \cup {x}) = Units(f, S) \cup Own
  BY DEF Units
<1>2. Units(f, S) \cap Own = {}
  BY DEF Units
<1>3. IsFiniteSet(Own) /\ Cardinality(Own) = f[x]
  <2>1. f[x] \in Nat
    OBVIOUS
  <2>2. IsFiniteSet(1 .. f[x]) /\ Cardinality(1 .. f[x]) = f[x]
    BY <2>1, FS_Interval
  <2>3. IsFiniteSet({x}) /\ Cardinality({x}) = 1
    BY FS_Singleton
  <2>4. IsFiniteSet(Own) /\ Cardinality(Own) = Cardinality({x}) * Cardinality(1 .. f[x])
    BY <2>2, <2>3, FS_Product
  <2> QED BY <2>1, <2>2, <2>3, <2>4
<1>4. IsFiniteSet(Units(f, S))
  BY UnitsFinite
<1>5. Cardinality(Units(f, S) \cup Own)
        = Cardinality(Units(f, S)) + Cardinality(Own) - Cardinality({})
  BY <1>2, <1>3, <1>4, FS_Union
<1>6. Cardinality({}) = 0
  BY FS_EmptySet
<1>7. Cardinality(Units(f, S)) \in Nat
  BY <1>4, FS_CardinalityType
<1>8. f[x] \in Nat
  OBVIOUS
<1> HIDE DEF Own
<1>9. Cardinality(Units(f, S \cup {x}))
        = Cardinality(Units(f, S)) + Cardinality(Own) - Cardinality({})
  BY <1>1, <1>5, Zenon
<1>10. Cardinality(Units(f, S \cup {x})) = Cardinality(Units(f, S)) + f[x]
  BY <1>3, <1>6, <1>7, <1>8, <1>9
<1> QED BY <1>10 DEF Total

\* An element leaves with its own amount.
LEMMA TotalRemove ==
  ASSUME NEW D, NEW f \in [D -> Nat], NEW S \in SUBSET D, IsFiniteSet(S),
         NEW x \in S
  PROVE  Total(f, S) = Total(f, S \ {x}) + f[x]
<1>1. S = (S \ {x}) \cup {x} /\ x \notin S \ {x} /\ x \in D
  OBVIOUS
<1>2. IsFiniteSet(S \ {x}) /\ S \ {x} \in SUBSET D
  BY FS_RemoveElement
<1> QED BY <1>1, <1>2, TotalAdd

\* A total depends on the function only where it is taken.
LEMMA TotalCong ==
  ASSUME NEW S, NEW f, NEW h, \A x \in S : f[x] = h[x]
  PROVE  Total(f, S) = Total(h, S)
<1>1. Units(f, S) = Units(h, S)
  BY DEF Units
<1> QED BY <1>1 DEF Total

\* A new element adds its own amount, the rest being left alone.
LEMMA TotalExtend ==
  ASSUME NEW D, NEW f \in [D -> Nat], NEW h \in [D -> Nat],
         NEW S \in SUBSET D, IsFiniteSet(S), NEW x \in D, x \notin S,
         \A y \in S : f[y] = h[y]
  PROVE  Total(h, S \cup {x}) = Total(f, S) + h[x]
<1>1. Total(h, S \cup {x}) = Total(h, S) + h[x]
  BY TotalAdd
<1>2. Total(f, S) = Total(h, S)
  BY TotalCong
<1> QED BY <1>1, <1>2

\* A pointwise larger function has a larger total.
LEMMA TotalMono ==
  ASSUME NEW D, NEW f \in [D -> Nat], NEW h \in [D -> Nat],
         NEW S \in SUBSET D, IsFiniteSet(S), \A x \in S : f[x] <= h[x]
  PROVE  Total(f, S) <= Total(h, S)
<1>1. Units(f, S) \subseteq Units(h, S)
  <2>1. ASSUME NEW x \in S PROVE {x} \X (1 .. f[x]) \subseteq {x} \X (1 .. h[x])
    <3>1. f[x] \in Nat /\ h[x] \in Nat /\ f[x] <= h[x]
      OBVIOUS
    <3> QED BY <3>1
  <2> QED BY <2>1 DEF Units
<1>2. IsFiniteSet(Units(h, S))
  BY UnitsFinite
<1> QED BY <1>1, <1>2, FS_Subset DEF Total

\* Raising one element by n raises the total by n.
LEMMA TotalRaise ==
  ASSUME NEW D, NEW f \in [D -> Nat], NEW h \in [D -> Nat],
         NEW S \in SUBSET D, IsFiniteSet(S), NEW x \in S, NEW n \in Nat,
         h[x] = f[x] + n, \A y \in S \ {x} : h[y] = f[y]
  PROVE  Total(h, S) = Total(f, S) + n
<1>1. Total(h, S) = Total(h, S \ {x}) + h[x]
  BY TotalRemove
<1>2. Total(f, S) = Total(f, S \ {x}) + f[x]
  BY TotalRemove
<1>3. Total(h, S \ {x}) = Total(f, S \ {x})
  BY TotalCong
<1>4. IsFiniteSet(S \ {x}) /\ S \ {x} \in SUBSET D
  BY FS_RemoveElement
<1>5. Total(f, S \ {x}) \in Nat /\ f[x] \in Nat
  BY <1>4, TotalNat
<1> QED BY <1>1, <1>2, <1>3, <1>5

-----------------------------------------------------------------------------
\* Of finitely many numbers one is the largest: a smallest set without a
\* largest number would lose one with any of its elements.
LEMMA FiniteMax ==
  ASSUME NEW S \in SUBSET Int, IsFiniteSet(S), S # {}
  PROVE  Max(S) \in S /\ \A x \in S : x <= Max(S)
<1> DEFINE HasMax(T) == \E m \in T : \A x \in T : x <= m
           bad == {T \in FiniteSubsetsOf(S) : T # {} /\ ~HasMax(T)}
<1>1. ASSUME bad # {} PROVE FALSE
  <2>1. bad \subseteq FiniteSubsetsOf(S)
    OBVIOUS
  <2>2. PICK T \in bad : \A U \in bad : <<U, T>> \notin StrictSubsetOrdering(S)
    BY <1>1, <2>1, FS_StrictSubsetOrderingWellFounded, WFMin
  <2>3. T \in SUBSET S /\ IsFiniteSet(T) /\ T # {} /\ ~HasMax(T)
    BY DEF FiniteSubsetsOf
  <2>4. PICK x \in T : TRUE
    BY <2>3
  <2> DEFINE rest == T \ {x}
  <2>5. IsFiniteSet(rest) /\ rest \in FiniteSubsetsOf(S)
    BY <2>3, FS_RemoveElement DEF FiniteSubsetsOf
  <2>6. <<rest, T>> \in StrictSubsetOrdering(S)
    BY <2>3, <2>4 DEF StrictSubsetOrdering
  <2>7. rest \notin bad
    BY <2>2, <2>6
  <2>8. rest = {} \/ HasMax(rest)
    BY <2>5, <2>7
  <2>9. x \in Int /\ \A y \in T : y \in Int
    BY <2>3
  <2>10. CASE rest = {}
    <3>1. \A y \in T : y <= x
      BY <2>9, <2>10
    <3> QED BY <2>3, <3>1
  <2>11. CASE HasMax(rest)
    <3>1. PICK m \in rest : \A y \in rest : y <= m
      BY <2>11
    <3>2. CASE x <= m
      <4>1. m \in T /\ \A y \in T : y <= m
        BY <3>1, <3>2
      <4> QED BY <2>3, <4>1
    <3>3. CASE ~(x <= m)
      <4>1. \A y \in T : y <= x
        BY <2>9, <3>1, <3>3
      <4> QED BY <2>3, <2>4, <4>1
    <3> QED BY <3>2, <3>3
  <2> QED BY <2>8, <2>10, <2>11
<1>2. S \in FiniteSubsetsOf(S)
  BY DEF FiniteSubsetsOf
<1>3. HasMax(S)
  BY <1>1, <1>2
<1>4. PICK m \in S : \A x \in S : x <= m
  BY <1>3
<1>5. m \in S /\ \A y \in S : m >= y
  BY <1>4
<1>6. Max(S) \in S /\ \A y \in S : Max(S) >= y
  BY <1>5, Zenon DEF Max
<1> QED BY <1>6

\* And one is the smallest.
LEMMA FiniteMin ==
  ASSUME NEW S \in SUBSET Int, IsFiniteSet(S), S # {}
  PROVE  Min(S) \in S /\ \A x \in S : Min(S) <= x
<1> DEFINE Negated == [x \in S |-> -x]
           mirror == {-x : x \in S}
<1>1. Negated \in Surjection(S, mirror)
  BY DEF Surjection
<1>2. IsFiniteSet(mirror)
  BY <1>1, FS_Surjection
<1>3. mirror \in SUBSET Int /\ mirror # {}
  <2>1. \A x \in S : -x \in Int
    OBVIOUS
  <2>2. \E x \in S : -x \in mirror
    OBVIOUS
  <2> QED BY <2>1, <2>2
<1>4. Max(mirror) \in mirror /\ \A x \in mirror : x <= Max(mirror)
  BY <1>2, <1>3, FiniteMax
<1>5. PICK m \in S : Max(mirror) = -m
  BY <1>4
<1>6. m \in S /\ \A y \in S : m =< y
  BY <1>4, <1>5
<1>7. Min(S) \in S /\ \A y \in S : Min(S) =< y
  BY <1>6, Zenon DEF Min
<1> QED BY <1>7

\* A number that is in a set and above the rest of it is its maximum.
LEMMA IsMax ==
  ASSUME NEW S \in SUBSET Int, NEW m \in S, \A x \in S : x <= m
  PROVE  Max(S) = m
<1>1. m \in S /\ \A y \in S : m >= y
  OBVIOUS
<1>2. Max(S) \in S /\ \A y \in S : Max(S) >= y
  BY <1>1, Zenon DEF Max
<1>3. Max(S) >= m /\ m >= Max(S) /\ Max(S) \in Int /\ m \in Int
  BY <1>1, <1>2
<1> QED BY <1>3

\* And below the rest of it, its minimum.
LEMMA IsMin ==
  ASSUME NEW S \in SUBSET Int, NEW m \in S, \A x \in S : m <= x
  PROVE  Min(S) = m
<1>1. m \in S /\ \A y \in S : m =< y
  OBVIOUS
<1>2. Min(S) \in S /\ \A y \in S : Min(S) =< y
  BY <1>1, Zenon DEF Min
<1>3. Min(S) <= m /\ m <= Min(S) /\ Min(S) \in Int /\ m \in Int
  BY <1>1, <1>2
<1> QED BY <1>3

LEMMA MaxOfTwo ==
  ASSUME NEW a \in Int, NEW b \in Int
  PROVE  Max({a, b}) = IF a <= b THEN b ELSE a
<1>1. CASE a <= b
  BY <1>1, IsMax
<1>2. CASE ~(a <= b)
  BY <1>2, IsMax
<1> QED BY <1>1, <1>2

LEMMA MinOfTwo ==
  ASSUME NEW a \in Int, NEW b \in Int
  PROVE  Min({a, b}) = IF a <= b THEN a ELSE b
<1>1. CASE a <= b
  BY <1>1, IsMin
<1>2. CASE ~(a <= b)
  BY <1>2, IsMin
<1> QED BY <1>1, <1>2

-----------------------------------------------------------------------------
(***************************************************************************)
(* Orders.  In a strict order of finitely many elements the one with n - 1 *)
(* before it is the n-th.                                                  *)
(***************************************************************************)

StrictOrder(S, R) ==
  /\ \A x \in S : <<x, x>> \notin R
  /\ \A x, y, z \in S : (<<x, y>> \in R /\ <<y, z>> \in R) => <<x, z>> \in R
  /\ \A x, y \in S : x # y => (<<x, y>> \in R \/ <<y, x>> \in R)

\* The sequence has every element of S once, in the order of R.
Enumerates(seq, S, R) ==
  /\ seq \in Seq(S) /\ Len(seq) = Cardinality(S) /\ DOMAIN seq = 1 .. Cardinality(S)
  /\ \A x \in S : \E n \in DOMAIN seq : seq[n] = x
  /\ \A m, n \in DOMAIN seq : m < n => <<seq[m], seq[n]>> \in R
  /\ \A m, n \in DOMAIN seq : m # n => seq[m] # seq[n]

Ahead(S, R, x) == {y \in S : <<y, x>> \in R}

\* Of two elements one is ahead, and it has fewer ahead of it.
LEMMA FewerAhead ==
  ASSUME NEW S, IsFiniteSet(S), NEW R, StrictOrder(S, R),
         NEW x \in S, NEW y \in S, <<x, y>> \in R
  PROVE  Cardinality(Ahead(S, R, x)) < Cardinality(Ahead(S, R, y))
<1>1. Ahead(S, R, x) \subseteq Ahead(S, R, y) /\ x \notin Ahead(S, R, x) /\ x \in Ahead(S, R, y)
  BY DEF Ahead, StrictOrder
<1>2. Ahead(S, R, y) \in SUBSET S
  BY DEF Ahead
<1>3. IsFiniteSet(Ahead(S, R, y))
  BY <1>2, FS_Subset
<1>4. /\ IsFiniteSet(Ahead(S, R, x))
      /\ Cardinality(Ahead(S, R, x)) <= Cardinality(Ahead(S, R, y))
      /\ Cardinality(Ahead(S, R, x)) # Cardinality(Ahead(S, R, y))
  BY <1>1, <1>3, FS_Subset
<1>5. Cardinality(Ahead(S, R, x)) \in Nat /\ Cardinality(Ahead(S, R, y)) \in Nat
  BY <1>3, <1>4, FS_CardinalityType
<1> QED BY <1>4, <1>5

\* The n-th has n - 1 ahead of it, and no two have as many.
LEMMA InOrderCounts ==
  ASSUME NEW S, IsFiniteSet(S), NEW R, StrictOrder(S, R)
  PROVE  /\ \A n \in 1 .. Cardinality(S) :
              InOrder(S, R)[n] \in S /\ Cardinality(Ahead(S, R, InOrder(S, R)[n])) = n - 1
         /\ \A x \in S : Cardinality(Ahead(S, R, x)) \in 0 .. Cardinality(S) - 1
         /\ \A x, y \in S : x # y => Cardinality(Ahead(S, R, x)) # Cardinality(Ahead(S, R, y))
<1> DEFINE all == Cardinality(S)
           Rank == [x \in S |-> Cardinality(Ahead(S, R, x))]
           seq == InOrder(S, R)
<1>1. all \in Nat
  BY FS_CardinalityType
<1>2. ASSUME NEW x \in S PROVE Cardinality(Ahead(S, R, x)) \in 0 .. all - 1
  <2>1. Ahead(S, R, x) \in SUBSET (S \ {x})
    BY DEF Ahead, StrictOrder
  <2>2. IsFiniteSet(S \ {x}) /\ Cardinality(S \ {x}) = all - 1
    BY FS_RemoveElement
  <2>3. IsFiniteSet(Ahead(S, R, x)) /\ Cardinality(Ahead(S, R, x)) <= all - 1
    BY <2>1, <2>2, FS_Subset
  <2>4. Cardinality(Ahead(S, R, x)) \in Nat
    BY <2>3, FS_CardinalityType
  <2> QED BY <1>1, <2>3, <2>4
<1>3. ASSUME NEW x \in S, NEW y \in S, x # y
      PROVE  Cardinality(Ahead(S, R, x)) # Cardinality(Ahead(S, R, y))
  <2>1. <<x, y>> \in R \/ <<y, x>> \in R
    BY <1>3 DEF StrictOrder
  <2>2. Cardinality(Ahead(S, R, x)) \in Int /\ Cardinality(Ahead(S, R, y)) \in Int
    BY <1>2
  <2> QED BY <2>1, <2>2, FewerAhead
<1>4. Rank \in Injection(S, 0 .. all - 1)
  BY <1>2, <1>3 DEF Injection, IsInjective
<1>5. IsFiniteSet(0 .. all - 1) /\ Cardinality(0 .. all - 1) = all
  <2>1. 0 \in Int /\ all - 1 \in Int
    BY <1>1
  <2>2. IsFiniteSet(0 .. all - 1)
        /\ Cardinality(0 .. all - 1) = IF 0 > all - 1 THEN 0 ELSE (all - 1) - 0 + 1
    BY <2>1, FS_Interval
  <2> QED BY <1>1, <2>2
<1>6. Rank \in Surjection(S, 0 .. all - 1)
  BY <1>4, <1>5, FS_Injection
<1>7. ASSUME NEW n \in 1 .. all
      PROVE  seq[n] \in S /\ Cardinality(Ahead(S, R, seq[n])) = n - 1
  <2>1. n - 1 \in 0 .. all - 1
    BY <1>1
  <2>2. \E x \in S : Cardinality(Ahead(S, R, x)) = n - 1
    BY <1>6, <2>1 DEF Surjection
  <2>3. seq[n] = CHOOSE x \in S : Cardinality(Ahead(S, R, x)) = n - 1
    BY DEF InOrder, Ahead
  <2> QED BY <2>2, <2>3, Zenon
<1> QED BY <1>2, <1>3, <1>7

LEMMA InOrderEnumerates ==
  ASSUME NEW S, IsFiniteSet(S), NEW R, StrictOrder(S, R)
  PROVE  Enumerates(InOrder(S, R), S, R)
<1> DEFINE all == Cardinality(S)
           seq == InOrder(S, R)
<1>1. all \in Nat
  BY FS_CardinalityType
<1>2. \A x \in S : Cardinality(Ahead(S, R, x)) \in 0 .. all - 1
  BY InOrderCounts
<1>3. \A x, y \in S : x # y => Cardinality(Ahead(S, R, x)) # Cardinality(Ahead(S, R, y))
  BY InOrderCounts
<1>7. \A n \in 1 .. all : seq[n] \in S /\ Cardinality(Ahead(S, R, seq[n])) = n - 1
  BY InOrderCounts
<1>8. DOMAIN seq = 1 .. all /\ seq \in [1 .. all -> S]
  BY <1>7 DEF InOrder
<1> HIDE DEF seq
<1>9. seq \in Seq(S) /\ Len(seq) = all
  BY <1>1, <1>8
<1>10. ASSUME NEW x \in S PROVE \E n \in 1 .. all : seq[n] = x
  <2> DEFINE n == Cardinality(Ahead(S, R, x)) + 1
  <2>1. n \in 1 .. all /\ n - 1 = Cardinality(Ahead(S, R, x))
    BY <1>1, <1>2
  <2>2. seq[n] \in S /\ Cardinality(Ahead(S, R, seq[n])) = Cardinality(Ahead(S, R, x))
    BY <1>7, <2>1
  <2>3. seq[n] = x
    BY <1>3, <2>2
  <2> QED BY <2>1, <2>3
<1>11. ASSUME NEW m \in 1 .. all, NEW n \in 1 .. all, m < n
       PROVE  <<seq[m], seq[n]>> \in R
  <2>1. /\ seq[m] \in S /\ seq[n] \in S
        /\ Cardinality(Ahead(S, R, seq[m])) < Cardinality(Ahead(S, R, seq[n]))
    BY <1>1, <1>7, <1>11
  <2>2. Cardinality(Ahead(S, R, seq[m])) \in Int /\ Cardinality(Ahead(S, R, seq[n])) \in Int
    BY <1>2, <2>1
  <2>3. <<seq[n], seq[m]>> \notin R /\ seq[m] # seq[n]
    BY <2>1, <2>2, FewerAhead
  <2> QED BY <2>1, <2>3 DEF StrictOrder
<1>12. ASSUME NEW m \in 1 .. all, NEW n \in 1 .. all, m # n
       PROVE  seq[m] # seq[n]
  <2>1. m - 1 # n - 1
    BY <1>1, <1>12
  <2> QED BY <1>7, <2>1
<1> HIDE DEF all
<1>13. Enumerates(seq, S, R)
  BY <1>8, <1>9, <1>10, <1>11, <1>12 DEF Enumerates, all
<1> QED BY <1>13 DEF seq

-----------------------------------------------------------------------------
\* Numbers in their own order.
LEMMA NumbersInOrder ==
  ASSUME NEW S \in SUBSET Int, IsFiniteSet(S)
  PROVE  Enumerates(InOrder(S, {p \in S \X S : p[1] < p[2]}), S, {p \in S \X S : p[1] < p[2]})
<1> DEFINE R == {p \in S \X S : p[1] < p[2]}
<1>1. \A i, j \in S : <<i, j>> \in R <=> i < j
  OBVIOUS
<1> HIDE DEF R
<1>2. StrictOrder(S, R)
  BY <1>1 DEF StrictOrder
<1>3. Enumerates(InOrder(S, R), S, R)
  BY <1>2, InOrderEnumerates
<1> QED BY <1>3 DEF R

\* Positions of a sequence of length n.
LEMMA AscendingRight ==
  ASSUME NEW n \in Nat, NEW S \in SUBSET (1 .. n)
  PROVE  /\ Ascending(S) \in Seq(S) /\ DOMAIN Ascending(S) = 1 .. Len(Ascending(S))
         /\ Len(Ascending(S)) \in Nat /\ \A k \in DOMAIN Ascending(S) : Ascending(S)[k] \in S
         /\ \A i \in S : \E k \in DOMAIN Ascending(S) : Ascending(S)[k] = i
         /\ \A k, l \in DOMAIN Ascending(S) : k < l => Ascending(S)[k] < Ascending(S)[l]
<1> DEFINE R == {p \in S \X S : p[1] < p[2]}
           seq == InOrder(S, R)
<1>1. S \in SUBSET Int /\ IsFiniteSet(S)
  <2>1. 1 \in Int /\ n \in Int
    OBVIOUS
  <2>2. IsFiniteSet(1 .. n)
    BY <2>1, FS_Interval
  <2>3. IsFiniteSet(S)
    BY <2>2, FS_Subset
  <2> QED BY <2>3
<1>2. Enumerates(seq, S, R)
  BY <1>1, NumbersInOrder
<1>3. Ascending(S) = seq
  BY DEF Ascending
<1>4. \A i, j : <<i, j>> \in R => i < j
  OBVIOUS
<1> HIDE DEF seq, R
<1>5. /\ seq \in Seq(S) /\ \A i \in S : \E k \in DOMAIN seq : seq[k] = i
      /\ \A k, l \in DOMAIN seq : k < l => <<seq[k], seq[l]>> \in R
  BY <1>2 DEF Enumerates
<1>6. DOMAIN seq = 1 .. Len(seq) /\ Len(seq) \in Nat /\ \A k \in DOMAIN seq : seq[k] \in S
  BY <1>5
<1> QED BY <1>3, <1>4, <1>5, <1>6

\* The k-th of a set of positions has k - 1 of the others before it.
LEMMA AscendingCounts ==
  ASSUME NEW n \in Nat, NEW S \in SUBSET (1 .. n)
  PROVE  /\ Len(Ascending(S)) = Cardinality(S)
         /\ \A k \in DOMAIN Ascending(S) : Cardinality({y \in S : y < Ascending(S)[k]}) = k - 1
<1> DEFINE R == {p \in S \X S : p[1] < p[2]}
           seq == InOrder(S, R)
<1>1. S \in SUBSET Int /\ IsFiniteSet(S)
  <2>1. 1 \in Int /\ n \in Int
    OBVIOUS
  <2>2. IsFiniteSet(1 .. n)
    BY <2>1, FS_Interval
  <2>3. IsFiniteSet(S)
    BY <2>2, FS_Subset
  <2> QED BY <2>3
<1>2. Ascending(S) = seq
  BY DEF Ascending
<1>3. \A x \in S : Ahead(S, R, x) = {y \in S : y < x}
  BY DEF Ahead
<1>4. \A i, j \in S : <<i, j>> \in R <=> i < j
  OBVIOUS
<1> HIDE DEF seq, R
<1>5. StrictOrder(S, R)
  BY <1>1, <1>4 DEF StrictOrder
<1>6. Len(seq) = Cardinality(S) /\ DOMAIN seq = 1 .. Cardinality(S)
  BY <1>1, <1>5, InOrderEnumerates DEF Enumerates, seq
<1>7. \A k \in 1 .. Cardinality(S) : seq[k] \in S /\ Cardinality(Ahead(S, R, seq[k])) = k - 1
  BY <1>1, <1>5, InOrderCounts DEF seq
<1> QED BY <1>2, <1>3, <1>6, <1>7

\* What is new of a sequence is every element that is not known, and each once.
LEMMA NewOfIsNew ==
  ASSUME NEW T, NEW s \in Seq(T), NEW known
  PROVE  /\ NewOf(s, known) \in Seq(T)
         /\ \A n \in DOMAIN NewOf(s, known) :
              /\ NewOf(s, known)[n] \notin known
              /\ \E i \in DOMAIN s : NewOf(s, known)[n] = s[i]
         /\ \A i \in DOMAIN s : s[i] \notin known =>
              \E n \in DOMAIN NewOf(s, known) : NewOf(s, known)[n] = s[i]
         /\ \A m, n \in DOMAIN NewOf(s, known) : m # n => NewOf(s, known)[m] # NewOf(s, known)[n]
<1> DEFINE firsts == FirstPlaces(s, known)
           R == {p \in firsts \X firsts : p[1] < p[2]}
           places == InOrder(firsts, R)
           new == NewOf(s, known)
<1>1. /\ firsts \in SUBSET (1 .. Len(s)) /\ Len(s) \in Nat /\ DOMAIN s = 1 .. Len(s)
      /\ \A i \in DOMAIN s : s[i] \in T
  BY DEF FirstPlaces
<1>2. \A i \in firsts : s[i] \notin known /\ \A j \in 1 .. i - 1 : s[j] # s[i]
  BY DEF FirstPlaces
<1>3. new = [n \in DOMAIN places |-> s[places[n]]]
  BY DEF NewOf
<1>4. firsts \in SUBSET Int /\ IsFiniteSet(firsts)
  <2>1. 1 \in Int /\ Len(s) \in Int /\ firsts \in SUBSET Int
    BY <1>1
  <2>2. IsFiniteSet(1 .. Len(s))
    BY <2>1, FS_Interval
  <2> HIDE DEF firsts
  <2> QED BY <1>1, <2>1, <2>2, FS_Subset
<1>5. Enumerates(places, firsts, R) /\ Cardinality(firsts) \in Nat
  <2> HIDE DEF firsts
  <2> QED BY <1>4, NumbersInOrder, FS_CardinalityType
<1> HIDE DEF new, places, R, firsts
<1>6. /\ DOMAIN places = 1 .. Cardinality(firsts)
      /\ \A n \in 1 .. Cardinality(firsts) : places[n] \in firsts
      /\ \A i \in firsts : \E n \in 1 .. Cardinality(firsts) : places[n] = i
      /\ \A m, n \in 1 .. Cardinality(firsts) : m # n => places[m] # places[n]
  <2>1. places \in Seq(firsts) /\ Len(places) = Cardinality(firsts)
    BY <1>5 DEF Enumerates
  <2>2. \A n \in 1 .. Cardinality(firsts) : places[n] \in firsts
    BY <2>1
  <2> QED BY <1>5, <2>2 DEF Enumerates
<1>7. /\ DOMAIN new = 1 .. Cardinality(firsts)
      /\ \A n \in 1 .. Cardinality(firsts) : new[n] = s[places[n]] /\ places[n] \in DOMAIN s
  BY <1>1, <1>3, <1>6
<1>8. new \in Seq(T)
  <2>1. new \in [1 .. Cardinality(firsts) -> T]
    BY <1>1, <1>3, <1>6
  <2> QED BY <1>5, <2>1
<1>9. ASSUME NEW n \in DOMAIN new
      PROVE  new[n] \notin known /\ \E i \in DOMAIN s : new[n] = s[i]
  BY <1>2, <1>6, <1>7
<1>10. ASSUME NEW i \in DOMAIN s, s[i] \notin known
       PROVE  \E n \in DOMAIN new : new[n] = s[i]
  <2> DEFINE where == {j \in DOMAIN s : s[j] = s[i]}
  <2>1. where # {} /\ where \in SUBSET Int /\ IsFiniteSet(where)
    <3>1. 1 \in Int /\ Len(s) \in Int /\ where \in SUBSET (1 .. Len(s))
      BY <1>1
    <3>2. IsFiniteSet(1 .. Len(s))
      BY <3>1, FS_Interval
    <3>3. where # {} /\ where \in SUBSET Int
      BY <1>1
    <3> HIDE DEF where
    <3> QED BY <3>1, <3>2, <3>3, FS_Subset
  <2>2. Min(where) \in where /\ \A j \in where : Min(where) <= j
    <3> HIDE DEF where
    <3> QED BY <2>1, FiniteMin
  <2>3. PICK first \in DOMAIN s : s[first] = s[i] /\ \A j \in where : first <= j
    BY <2>2
  <2>4. ASSUME NEW j \in 1 .. first - 1 PROVE s[j] # s[i]
    <3>1. j \in DOMAIN s /\ j < first /\ first \in Int /\ j \in Int
      BY <1>1
    <3> QED BY <2>3, <3>1
  <2>5. first \in firsts
    BY <1>10, <2>3, <2>4 DEF firsts, FirstPlaces
  <2> QED BY <1>6, <1>7, <2>3, <2>5
<1>11. ASSUME NEW m \in DOMAIN new, NEW n \in DOMAIN new, m # n
       PROVE  new[m] # new[n]
  <2>1. /\ places[m] \in firsts /\ places[n] \in firsts /\ places[m] # places[n]
        /\ new[m] = s[places[m]] /\ new[n] = s[places[n]]
    BY <1>6, <1>7, <1>11
  <2>2. \A i, j \in firsts : i < j => s[i] # s[j]
    <3> SUFFICES ASSUME NEW i \in firsts, NEW j \in firsts, i < j PROVE s[i] # s[j]
      OBVIOUS
    <3>1. i \in 1 .. j - 1
      BY <1>1
    <3> QED BY <1>2, <3>1
  <2>3. places[m] < places[n] \/ places[n] < places[m]
    <3>1. places[m] \in Int /\ places[n] \in Int
      BY <1>4, <2>1
    <3> QED BY <2>1, <3>1
  <2> QED BY <2>1, <2>2, <2>3
<1> QED BY <1>8, <1>9, <1>10, <1>11 DEF new

-----------------------------------------------------------------------------
\* Induction up to a number: a set has it if it has zero and with each number the next.
LEMMA UpTo ==
  ASSUME NEW N \in Nat, NEW S, 0 \in S, \A n \in 0 .. N - 1 : n \in S => n + 1 \in S
  PROVE  0 .. N \subseteq S
<1> DEFINE out == (0 .. N) \ S
<1>1. ASSUME out # {} PROVE FALSE
  <2>1. IsFiniteSet(0 .. N)
    BY FS_Interval
  <2>2. out \in SUBSET Int /\ IsFiniteSet(out)
    BY <2>1, FS_Subset
  <2>3. Min(out) \in out /\ \A n \in out : Min(out) <= n
    <3> HIDE DEF out
    <3> QED BY <1>1, <2>2, FiniteMin
  <2>4. PICK m \in out : \A n \in out : m <= n
    BY <2>3
  <2>5. m \in 1 .. N /\ m - 1 \in 0 .. N - 1
    BY <2>4
  <2>6. m - 1 \notin out
    BY <2>4, <2>5
  <2>7. m - 1 \in S /\ (m - 1) + 1 = m
    BY <2>5, <2>6
  <2> QED BY <2>4, <2>5, <2>7
<1> QED BY <1>1

\* Induction that builds: a value for every number up to N, each made of the one before.
Iterated(f, N, X, x0, step) ==
  f \in [0 .. N -> X] /\ f[0] = x0 /\ \A n \in 1 .. N : f[n] = step[n][f[n - 1]]

LEMMA Iterates ==
  ASSUME NEW N \in Nat, NEW X, NEW x0 \in X, NEW step \in [1 .. N -> [X -> X]]
  PROVE  \E f : Iterated(f, N, X, x0, step)
<1> DEFINE Built(f, k) == f[0] = x0 /\ \A n \in 1 .. k : f[n] = step[n][f[n - 1]]
           S == {k \in 0 .. N : \E f \in [0 .. N -> X] : Built(f, k)}
<1>1. 0 \in S
  <2>1. [n \in 0 .. N |-> x0] \in [0 .. N -> X] /\ Built([n \in 0 .. N |-> x0], 0)
    OBVIOUS
  <2>2. 0 \in 0 .. N
    OBVIOUS
  <2> HIDE DEF Built
  <2> QED BY <2>1, <2>2
<1>2. ASSUME NEW k \in 0 .. N - 1, k \in S PROVE k + 1 \in S
  <2>1. PICK f \in [0 .. N -> X] : Built(f, k)
    BY <1>2
  <2> DEFINE g == [f EXCEPT ![k + 1] = step[k + 1][f[k]]]
  <2>2. k \in 0 .. N /\ k + 1 \in 1 .. N /\ k + 1 \in 0 .. N
    OBVIOUS
  <2>3. g \in [0 .. N -> X]
    <3>1. step[k + 1][f[k]] \in X
      BY <2>1, <2>2
    <3> QED BY <2>1, <3>1
  <2>4. Built(g, k + 1)
    <3>1. g[k + 1] = step[k + 1][f[k]] /\ \A n \in 0 .. k : g[n] = f[n]
      BY <2>1, <2>2
    <3> HIDE DEF g
    <3>2. g[0] = x0
      BY <2>1, <3>1
    <3>3. ASSUME NEW n \in 1 .. k + 1 PROVE g[n] = step[n][g[n - 1]]
      <4>1. CASE n = k + 1
        <5>1. n - 1 = k /\ g[k] = f[k]
          BY <3>1, <4>1
        <5> QED BY <3>1, <4>1, <5>1
      <4>2. CASE n \in 1 .. k
        <5>1. n \in 0 .. k /\ n - 1 \in 0 .. k
          BY <4>2
        <5> QED BY <2>1, <3>1, <4>2, <5>1
      <4> QED BY <4>1, <4>2
    <3> QED BY <3>2, <3>3
  <2> HIDE DEF g, Built
  <2> QED BY <2>2, <2>3, <2>4
<1>3. N \in S
  <2> HIDE DEF S
  <2>1. 0 .. N \subseteq S
    BY <1>1, <1>2, UpTo
  <2> QED BY <2>1
<1> QED BY <1>3 DEF Iterated

=============================================================================
