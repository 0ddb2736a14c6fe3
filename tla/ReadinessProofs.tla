-------------------------- MODULE ReadinessProofs --------------------------
(* What holds of every assessment, of every decision of the gate and of     *)
(* every reviewed number, for all tables, time zones, moments and decimals. *)
EXTENDS Readiness, FiniteSetTheorems, WellFoundedInduction, TLAPS

-----------------------------------------------------------------------------
(* Numbers and sets.                                                        *)

(* A set of natural numbers has a least one.                                *)
LEMMA LeastNatural ==
  ASSUME NEW T, T \subseteq Nat, T # {}
  PROVE  \E n \in T : \A m \in T : n <= m
<1> DEFINE R == OpToRel(<, Nat)
<1>1. IsWellFoundedOn(R, Nat)
  BY NatLessThanWellFounded DEF OpToRel
<1>2. \A x, y \in Nat : x < y => <<x, y>> \in R
  BY DEF OpToRel
<1> HIDE DEF R
<1>3. PICK n \in T : \A m \in T : ~(<<m, n>> \in R)
  BY <1>1, WFMin
<1>4. ASSUME NEW m \in T PROVE n <= m
  <2>1. m \in Nat /\ n \in Nat /\ ~(m < n)
    BY <1>2, <1>3
  <2> QED
    BY <2>1
<1> QED
  BY <1>4

(* Rows of days up to the analysis have a newest one.                       *)
LEMMA NewestDay ==
  ASSUME NEW rows, rows # {}, \A row \in rows : row.day \in Int /\ row.day <= AnalysisDay
  PROVE  /\ \E row \in rows : row.day = Latest(rows)
         /\ \A row \in rows : row.day <= Latest(rows)
<1> DEFINE Ages == {AnalysisDay - row.day : row \in rows}
<1>1. AnalysisDay \in Nat
  BY CalendarsAreRight
<1>2. Ages \subseteq Nat /\ Ages # {}
  BY <1>1
<1>3. PICK n \in Ages : \A m \in Ages : n <= m
  BY <1>2, LeastNatural
<1>4. PICK newest \in rows : n = AnalysisDay - newest.day
  BY <1>3
<1>5. ASSUME NEW row \in rows PROVE row.day <= newest.day
  <2>1. AnalysisDay - row.day \in Ages
    OBVIOUS
  <2>2. AnalysisDay - newest.day <= AnalysisDay - row.day
    BY <1>3, <1>4, <2>1
  <2> QED
    BY <1>1, <2>2
<1>6. \E day \in {row.day : row \in rows} : \A row \in rows : row.day <= day
  BY <1>5
<1>7. Latest(rows) = CHOOSE day \in {row.day : row \in rows} : \A row \in rows : row.day <= day
  BY DEF Latest
<1>8. /\ Latest(rows) \in {row.day : row \in rows}
      /\ \A row \in rows : row.day <= Latest(rows)
  BY <1>6, <1>7
<1> QED
  BY <1>8

(* The size of a set that three others share out.                           *)
LEMMA SharedOut ==
  ASSUME NEW A, NEW B, NEW C, IsFiniteSet(A \cup B \cup C),
         A \cap B = {}, A \cap C = {}, B \cap C = {}
  PROVE  /\ {Cardinality(A), Cardinality(B), Cardinality(C)} \subseteq Nat
         /\ Cardinality(A) + Cardinality(B) + Cardinality(C) = Cardinality(A \cup B \cup C)
<1>1. IsFiniteSet(A) /\ IsFiniteSet(B) /\ IsFiniteSet(C) /\ IsFiniteSet(A \cup B)
  <2>1. A \in SUBSET (A \cup B \cup C) /\ B \in SUBSET (A \cup B \cup C)
        /\ C \in SUBSET (A \cup B \cup C) /\ A \cup B \in SUBSET (A \cup B \cup C)
    OBVIOUS
  <2> QED
    BY <2>1, FS_Subset
<1>2. (A \cup B) \cap C = {} /\ A \cup B \cup C = (A \cup B) \cup C
  OBVIOUS
<1>3. Cardinality({}) = 0
  BY FS_EmptySet
<1>4. Cardinality(A \cup B) = Cardinality(A) + Cardinality(B) - Cardinality(A \cap B)
  BY <1>1, FS_Union
<1>5. Cardinality((A \cup B) \cup C)
        = Cardinality(A \cup B) + Cardinality(C) - Cardinality((A \cup B) \cap C)
  BY <1>1, FS_Union
<1>6. /\ Cardinality(A) \in Nat /\ Cardinality(B) \in Nat /\ Cardinality(C) \in Nat
      /\ Cardinality(A \cup B) \in Nat
  BY <1>1, FS_CardinalityType
<1>7. Cardinality(A \cap B) = 0 /\ Cardinality((A \cup B) \cap C) = 0
  BY <1>2, <1>3
<1> DEFINE a == Cardinality(A)
           b == Cardinality(B)
           c == Cardinality(C)
           ab == Cardinality(A \cup B)
           abc == Cardinality(A \cup B \cup C)
<1>8. {a, b, c, ab} \subseteq Nat /\ ab = a + b - 0 /\ abc = ab + c - 0
  BY <1>4, <1>5, <1>6, <1>7
<1> HIDE DEF a, b, c, ab, abc
<1>9. {a, b, c} \subseteq Nat /\ a + b + c = abc
  BY <1>8
<1> QED
  BY <1>9 DEF a, b, c, abc

(* Rows are at most as many as their copies, and those of some rows at most *)
(* as many as those of all.                                                 *)
LEMMA CopiesAreCounted ==
  ASSUME NEW table, IsABag(table), IsFiniteSet(BagToSet(table)), NEW rows,
         rows \subseteq BagToSet(table)
  PROVE  /\ {Cardinality(rows), Cardinality(Copies(rows, table)), Size(table)} \subseteq Nat
         /\ Cardinality(rows) <= Cardinality(Copies(rows, table))
         /\ Cardinality(Copies(rows, table)) <= Size(table)
<1> DEFINE all == BagToSet(table)
           Of == [row \in all |-> {row} \X (1 .. table[row])]
           sets == {Of[row] : row \in all}
<1>1. \A row \in all : table[row] \in Nat /\ table[row] > 0
  BY DEF IsABag, BagToSet
<1>2. Of \in Surjection(all, sets)
  BY DEF Surjection
<1>3. IsFiniteSet(sets)
  <2> HIDE DEF Of, sets
  <2> QED
    BY <1>2, FS_Surjection
<1>4. \A row \in all : IsFiniteSet(Of[row])
  <2> TAKE row \in all
  <2>1. IsFiniteSet({row})
    BY FS_Singleton
  <2>2. IsFiniteSet(1 .. table[row])
    BY <1>1, FS_Interval
  <2> QED
    BY <2>1, <2>2, FS_Product
<1>5. IsFiniteSet(Copies(all, table))
  <2>1. \A set \in sets : IsFiniteSet(set)
    BY <1>4
  <2>2. Copies(all, table) = UNION sets
    BY DEF Copies
  <2> HIDE DEF sets
  <2> QED
    BY <1>3, <2>1, <2>2, FS_UNION
<1>6. Copies(rows, table) \in SUBSET Copies(all, table)
  BY DEF Copies
<1>7. /\ IsFiniteSet(Copies(rows, table))
      /\ Cardinality(Copies(rows, table)) <= Cardinality(Copies(all, table))
  BY <1>5, <1>6, FS_Subset
<1> DEFINE first == [row \in rows |-> <<row, 1>>]
<1>8. first \in Injection(rows, Copies(rows, table))
  <2>1. \A row \in rows : <<row, 1>> \in {row} \X (1 .. table[row])
    BY <1>1
  <2>2. \A row \in rows : <<row, 1>> \in Copies(rows, table)
    BY <2>1 DEF Copies
  <2> QED
    BY <2>2 DEF Injection, IsInjective
<1>9. IsFiniteSet(rows) /\ Cardinality(rows) <= Cardinality(Copies(rows, table))
  <2> HIDE DEF first
  <2> QED
    BY <1>7, <1>8, FS_Injection
<1> QED
  BY <1>5, <1>7, <1>9, FS_CardinalityType DEF Size

-----------------------------------------------------------------------------
(* Powers of ten.                                                           *)

(* There is a function that the powers of ten are: each beginning of it     *)
(* exists, and two beginnings agree.                                        *)
LEMMA TenSteps == Ten[0] = 1 /\ \A n \in Nat : Ten[n + 1] = 10 * Ten[n]
<1> DEFINE Begins(n, g) == g = [k \in 0 .. n |-> IF k = 0 THEN 1 ELSE 10 * g[k - 1]]
<1>1. ASSUME NEW n \in Nat PROVE \E g : Begins(n, g)
  <2> DEFINE Without == {m \in Nat : \A g : ~Begins(m, g)}
  <2> SUFFICES ASSUME Without # {} PROVE FALSE
    OBVIOUS
  <2>1. PICK m \in Without : \A k \in Without : m <= k
    <3> HIDE DEF Without
    <3>1. Without \subseteq Nat
      BY DEF Without
    <3> QED
      BY <3>1, LeastNatural
  <2>2. CASE m = 0
    <3> DEFINE g == [k \in 0 .. 0 |-> 1]
    <3>1. g = [k \in 0 .. m |-> IF k = 0 THEN 1 ELSE 10 * g[k - 1]]
      BY <2>2
    <3> QED
      BY <2>1, <3>1
  <2>3. CASE m # 0
    <3>1. m - 1 \in Nat /\ ~(m <= m - 1)
      BY <2>1, <2>3
    <3>2. m - 1 \notin Without
      BY <2>1, <3>1
    <3>3. PICK g : Begins(m - 1, g)
      BY <3>1, <3>2
    <3> DEFINE h == [k \in 0 .. m |-> IF k < m THEN g[k] ELSE 10 * g[m - 1]]
    <3>4. ASSUME NEW k \in 0 .. m PROVE h[k] = IF k = 0 THEN 1 ELSE 10 * h[k - 1]
      <4>1. CASE k = 0
        <5>1. h[0] = g[0] /\ 0 \in 0 .. m - 1
          BY <3>1, <2>1, <2>3, <4>1
        <5> QED
          BY <3>3, <4>1, <5>1
      <4>2. CASE k # 0 /\ k < m
        <5>1. k \in 0 .. m - 1 /\ k - 1 \in 0 .. m /\ k - 1 < m
          BY <4>2, <2>1
        <5>2. h[k] = g[k] /\ h[k - 1] = g[k - 1]
          BY <4>2, <5>1
        <5>3. g[k] = 10 * g[k - 1]
          BY <3>3, <4>2, <5>1
        <5> QED
          BY <4>2, <5>2, <5>3
      <4>3. CASE k = m
        <5>1. m - 1 \in 0 .. m /\ m - 1 < m /\ ~(m < m)
          BY <2>1, <3>1
        <5>2. h[m] = 10 * g[m - 1] /\ h[m - 1] = g[m - 1]
          BY <4>3, <5>1
        <5> QED
          BY <2>3, <4>3, <5>2
      <4> QED
        BY <4>1, <4>2, <4>3, <2>1
    <3>5. Begins(m, h)
      <4> HIDE DEF Without
      <4>1. h = [k \in 0 .. m |-> h[k]]
        OBVIOUS
      <4> HIDE DEF h
      <4> QED
        BY <3>4, <4>1
    <3> QED
      BY <2>1, <3>5
  <2> QED
    BY <2>2, <2>3
<1>2. ASSUME NEW m \in Nat, NEW n \in Nat, NEW g, NEW h, Begins(m, g), Begins(n, h),
             NEW k \in Nat, k <= m, k <= n
      PROVE  g[k] = h[k]
  <2> DEFINE Differ == {i \in Nat : i <= m /\ i <= n /\ g[i] # h[i]}
  <2> SUFFICES ASSUME Differ # {} PROVE FALSE
    BY <1>2
  <2>1. PICK i \in Differ : \A j \in Differ : i <= j
    <3> HIDE DEF Differ
    <3>1. Differ \subseteq Nat
      BY DEF Differ
    <3> QED
      BY <3>1, LeastNatural
  <2>2. i # 0
    <3>1. 0 \in 0 .. m /\ 0 \in 0 .. n
      OBVIOUS
    <3>2. g[0] = 1 /\ h[0] = 1
      BY <1>2, <3>1
    <3> QED
      BY <2>1, <3>2
  <2>3. g[i - 1] = h[i - 1]
    BY <2>1, <2>2
  <2>4. i \in 0 .. m /\ i \in 0 .. n
    BY <2>1
  <2>5. g[i] = 10 * g[i - 1] /\ h[i] = 10 * h[i - 1]
    BY <1>2, <2>2, <2>4
  <2> QED
    BY <2>1, <2>3, <2>5
<1> DEFINE Beginning(n) == CHOOSE g : Begins(n, g)
           f == [n \in Nat |-> Beginning(n)[n]]
<1>3. ASSUME NEW n \in Nat PROVE Begins(n, Beginning(n))
  <2> HIDE DEF Begins
  <2> QED
    BY <1>1
<1>4. ASSUME NEW n \in Nat PROVE f[n] = IF n = 0 THEN 1 ELSE 10 * f[n - 1]
  <2>1. CASE n = 0
    <3> HIDE DEF Beginning
    <3>1. f[0] = Beginning(0)[0] /\ 0 \in 0 .. 0
      OBVIOUS
    <3> HIDE DEF f
    <3> QED
      BY <1>3, <2>1, <3>1
  <2>2. CASE n # 0
    <3>1. n - 1 \in Nat /\ n - 1 <= n /\ n \in 0 .. n
      BY <2>2
    <3>2. f[n] = Beginning(n)[n] /\ f[n - 1] = Beginning(n - 1)[n - 1]
      BY <3>1
    <3>3. Begins(n, Beginning(n)) /\ Begins(n - 1, Beginning(n - 1))
      BY <1>3, <3>1
    <3> HIDE DEF f, Beginning
    <3>4. Beginning(n)[n] = 10 * Beginning(n)[n - 1]
      BY <2>2, <3>1, <3>3
    <3>5. Beginning(n)[n - 1] = Beginning(n - 1)[n - 1]
      <4> HIDE DEF Begins
      <4>1. n - 1 <= n - 1
        BY <3>1
      <4> QED
        BY <1>2, <3>1, <3>3, <4>1
    <3> QED
      BY <2>2, <3>2, <3>4, <3>5
  <2> QED
    BY <2>1, <2>2
<1>5. f = [n \in Nat |-> IF n = 0 THEN 1 ELSE 10 * f[n - 1]]
  <2>1. f = [n \in Nat |-> f[n]]
    OBVIOUS
  <2> HIDE DEF f
  <2> QED
    BY <1>4, <2>1
<1>6. Ten = [n \in Nat |-> IF n = 0 THEN 1 ELSE 10 * Ten[n - 1]]
  <2> HIDE DEF f
  <2> QED
    BY <1>5 DEF Ten
<1> QED
  <2>1. Ten[0] = 1
    BY <1>6
  <2>2. ASSUME NEW n \in Nat PROVE Ten[n + 1] = 10 * Ten[n]
    <3>1. n + 1 \in Nat /\ n + 1 # 0 /\ (n + 1) - 1 = n
      OBVIOUS
    <3> QED
      BY <1>6, <3>1
  <2> QED
    BY <2>1, <2>2

(* Powers of ten are positive, and exponents add up.                       *)
LEMMA TenIsPositive == \A n \in Nat : Ten[n] \in Nat \ {0}
<1> DEFINE Others == {n \in Nat : Ten[n] \notin Nat \ {0}}
<1> SUFFICES ASSUME Others # {} PROVE FALSE
  OBVIOUS
<1>1. PICK n \in Others : \A m \in Others : n <= m
  <2> HIDE DEF Others
  <2>1. Others \subseteq Nat
    BY DEF Others
  <2> QED
    BY <2>1, LeastNatural
<1>2. n # 0
  BY <1>1, TenSteps
<1>3. n - 1 \in Nat /\ ~(n <= n - 1) /\ (n - 1) + 1 = n
  BY <1>1, <1>2
<1>4. Ten[n - 1] \in Nat \ {0}
  BY <1>1, <1>3
<1>5. Ten[n] = 10 * Ten[n - 1]
  BY <1>3, TenSteps
<1> QED
  BY <1>1, <1>4, <1>5

LEMMA TenAdds == \A m, n \in Nat : Ten[m + n] = Ten[m] * Ten[n]
<1> SUFFICES ASSUME NEW m \in Nat, NEW n \in Nat PROVE Ten[m + n] = Ten[m] * Ten[n]
  OBVIOUS
<1> DEFINE Others == {k \in Nat : Ten[m + k] # Ten[m] * Ten[k]}
<1> SUFFICES ASSUME Others # {} PROVE FALSE
  OBVIOUS
<1>1. PICK k \in Others : \A j \in Others : k <= j
  <2> HIDE DEF Others
  <2>1. Others \subseteq Nat
    BY DEF Others
  <2> QED
    BY <2>1, LeastNatural
<1>2. k # 0
  <2>1. Ten[m] \in Nat /\ m + 0 = m
    BY TenIsPositive
  <2> QED
    BY <1>1, <2>1, TenSteps
<1>3. k - 1 \in Nat /\ ~(k <= k - 1) /\ (k - 1) + 1 = k /\ (m + (k - 1)) + 1 = m + k
  BY <1>1, <1>2
<1>4. Ten[m + (k - 1)] = Ten[m] * Ten[k - 1]
  BY <1>1, <1>3
<1>5. Ten[k] = 10 * Ten[k - 1] /\ Ten[m + k] = 10 * Ten[m + (k - 1)]
  <2>1. m + (k - 1) \in Nat
    BY <1>3
  <2> QED
    BY <1>3, <2>1, TenSteps
<1>6. Ten[m] \in Nat /\ Ten[k - 1] \in Nat
  BY <1>3, TenIsPositive
<1>7. 10 * (Ten[m] * Ten[k - 1]) = Ten[m] * (10 * Ten[k - 1])
  BY <1>6
<1> QED
  BY <1>1, <1>4, <1>5, <1>7

-----------------------------------------------------------------------------
(* Products, quotients and the nearest multiple.                            *)

LEMMA ProductsAssociate ==
  ASSUME NEW x \in Int, NEW y \in Int, NEW z \in Int
  PROVE  x * (y * z) = (x * y) * z
  BY SMT

LEMMA NegatedProduct ==
  ASSUME NEW x \in Int, NEW y \in Int
  PROVE  (-x) * y = -(x * y)
  BY SMT

LEMMA DifferenceOfProducts ==
  ASSUME NEW x \in Int, NEW y \in Int, NEW z \in Int
  PROVE  x * z - y * z = (x - y) * z
  BY SMT

(* Division with a rest.                                                    *)
LEMMA Divided ==
  ASSUME NEW n \in Int, NEW d \in Nat \ {0}
  PROVE  /\ n \div d \in Int /\ n % d \in Int
         /\ n = (n \div d) * d + (n % d)
         /\ 0 <= n % d /\ n % d < d
<1>1. n \div d \in Int /\ n % d \in Int
  BY SMT
<1>2. 0 <= n % d /\ n % d < d
  BY SMT
<1>3. n = d * (n \div d) + (n % d)
  BY SMT
<1>4. d * (n \div d) = (n \div d) * d
  BY <1>1, SMT
<1> QED
  BY <1>1, <1>2, <1>3, <1>4

(* A positive factor keeps the order, and may be cancelled.                 *)
LEMMA ProductsGrow ==
  ASSUME NEW x \in Int, NEW y \in Int, NEW z \in Nat \ {0}, x <= y
  PROVE  x * z \in Int /\ y * z \in Int /\ x * z <= y * z
  BY SMT

LEMMA ProductsDiffer ==
  ASSUME NEW x \in Int, NEW y \in Int, NEW z \in Nat \ {0}, x < y
  PROVE  x * z \in Int /\ y * z \in Int /\ x * z < y * z
<1>1. (x + 1) * z <= y * z
  BY ProductsGrow
<1>2. (x + 1) * z = x * z + z
  BY SMT
<1> QED
  BY <1>1, <1>2

LEMMA Multiples ==
  ASSUME NEW x \in Int, NEW y \in Int, NEW z \in Nat \ {0}
  PROVE  /\ x * z = y * z <=> x = y
         /\ x * z <= y * z <=> x <= y
         /\ x * z > y * z <=> x > y
<1>1. CASE x = y
  BY <1>1
<1>2. CASE x < y
  BY <1>2, ProductsDiffer
<1>3. CASE y < x
  <2>1. y * z < x * z /\ x * z \in Int /\ y * z \in Int
    BY <1>3, ProductsDiffer
  <2> QED
    BY <1>3, <2>1
<1> QED
  BY <1>1, <1>2, <1>3

(* Magnitudes multiply, and a multiple is what leaves no rest.              *)
LEMMA MagnitudeOfProduct ==
  ASSUME NEW x \in Int, NEW z \in Nat \ {0}
  PROVE  /\ Magnitude(x * z) = Magnitude(x) * z
         /\ Magnitude(x) \in Nat
<1>1. CASE x >= 0
  <2>1. x * z >= 0
    BY <1>1, ProductsGrow
  <2> QED
    BY <1>1, <2>1 DEF Magnitude
<1>2. CASE x < 0
  <2>1. x * z < 0 * z /\ x * z \in Int
    BY <1>2, ProductsDiffer
  <2>2. -(x * z) = (-x) * z
    BY SMT
  <2> QED
    BY <1>2, <2>1, <2>2 DEF Magnitude
<1> QED
  BY <1>1, <1>2

LEMMA Divisible ==
  ASSUME NEW n \in Int, NEW d \in Nat \ {0}
  PROVE  n % d = 0 <=> \E k \in Int : n = k * d
<1>1. n % d = 0 => n = (n \div d) * d /\ n \div d \in Int
  BY Divided
<1>2. ASSUME NEW k \in Int, n = k * d PROVE n % d = 0
  <2>1. n = (n \div d) * d + (n % d) /\ 0 <= n % d /\ n % d < d /\ n \div d \in Int /\ n % d \in Int
    BY Divided
  <2> DEFINE q == n \div d
             rest == n % d
  <2>2. rest = (k - q) * d
    <3>1. (k - q) * d = k * d - q * d
      BY <2>1, SMT
    <3>2. k * d \in Int /\ q * d \in Int
      BY <2>1
    <3> HIDE DEF q, rest
    <3> QED
      BY <1>2, <2>1, <3>1, <3>2 DEF q, rest
  <2>3. k - q = 0
    <3>1. q \in Int /\ rest \in Int /\ 0 <= rest /\ rest < d
      BY <2>1
    <3> HIDE DEF q, rest
    <3>2. ~(k - q >= 1)
      <4> SUFFICES ASSUME k - q >= 1 PROVE FALSE
        OBVIOUS
      <4>1. 1 * d <= (k - q) * d
        BY <3>1, ProductsGrow
      <4> QED
        BY <2>2, <3>1, <4>1
    <3>3. ~(k - q <= -1)
      <4> SUFFICES ASSUME k - q <= -1 PROVE FALSE
        OBVIOUS
      <4>1. (k - q) * d <= (-1) * d
        BY <3>1, ProductsGrow
      <4> QED
        BY <2>2, <3>1, <4>1
    <3> QED
      BY <3>1, <3>2, <3>3
  <2> QED
    BY <2>2, <2>3
<1> QED
  BY <1>1, <1>2

LEMMA Quotient ==
  ASSUME NEW x \in Nat \ {0}, NEW y \in Int
  PROVE  (x * y) \div x = y
<1>1. x * y = y * x /\ y * x \in Int
  BY SMT
<1> DEFINE q == (y * x) \div x
<1>2. (y * x) % x = 0
  BY <1>1, Divisible
<1>3. y * x = q * x /\ q \in Int
  BY <1>1, <1>2, Divided
<1>4. q = y
  <2> HIDE DEF q
  <2> QED
    BY <1>3, Multiples
<1> QED
  BY <1>1, <1>4

(* Rounding half up picks the nearest multiple, the upper one of two.       *)
LEMMA NearestMultiple ==
  ASSUME NEW u \in Nat, NEW d \in Nat \ {0}, NEW k \in Int
  PROVE  /\ RoundedHalfUp(u, d) \in Nat
         /\ k = RoundedHalfUp(u, d) <=> /\ 2 * Magnitude(k * d - u) <= d
                                        /\ 2 * Magnitude(k * d - u) = d => k * d > u
<1> DEFINE q == u \div d
           rest == u % d
           j == k - q
<1>1. q \in Int /\ rest \in Int /\ u = q * d + rest /\ 0 <= rest /\ rest < d
  BY Divided
<1>2. q >= 0
  <2> SUFFICES ASSUME q <= -1 PROVE FALSE
    BY <1>1
  <2>1. q * d <= (-1) * d /\ q * d \in Int
    BY <1>1, ProductsGrow
  <2> HIDE DEF q, rest
  <2> QED
    BY <1>1, <2>1
<1>3. RoundedHalfUp(u, d) = q + IF 2 * rest >= d THEN 1 ELSE 0
  BY DEF RoundedHalfUp
<1>4. k * d - u = j * d - rest /\ j * d \in Int /\ k * d \in Int
  <2>1. j * d = k * d - q * d
    BY <1>1, SMT
  <2>2. k * d \in Int /\ q * d \in Int
    BY <1>1
  <2> HIDE DEF q, rest, j
  <2> QED
    BY <1>1, <2>1, <2>2
<1>5. j \in Int /\ k = q + j
  BY <1>1
<1> HIDE DEF q, rest, j
<1>6. RoundedHalfUp(u, d) \in Nat
  BY <1>1, <1>2, <1>3
<1>7. k * d > u <=> j * d > rest
  BY <1>1, <1>4
<1>8. CASE j <= -1
  <2>1. j * d <= (-1) * d
    BY <1>5, <1>8, ProductsGrow
  <2>2. j * d - rest < 0 /\ -(j * d - rest) >= d
    BY <1>1, <1>4, <2>1
  <2> QED
    BY <1>1, <1>3, <1>4, <1>5, <1>6, <1>8, <2>2 DEF Magnitude
<1>9. CASE j = 0
  <2>1. j * d = 0
    BY <1>9
  <2> QED
    BY <1>1, <1>3, <1>4, <1>5, <1>6, <1>7, <1>9, <2>1 DEF Magnitude
<1>10. CASE j = 1
  <2>1. j * d = d
    BY <1>10
  <2> QED
    BY <1>1, <1>3, <1>4, <1>5, <1>6, <1>7, <1>10, <2>1 DEF Magnitude
<1>11. CASE j >= 2
  <2>1. 2 * d <= j * d
    BY <1>5, <1>11, ProductsGrow
  <2>2. j * d - rest > d
    BY <1>1, <1>4, <2>1
  <2> QED
    BY <1>1, <1>3, <1>4, <1>5, <1>6, <1>11, <2>2 DEF Magnitude
<1> QED
  BY <1>5, <1>8, <1>9, <1>10, <1>11

(* The same for a signed number, whose ties go away from zero.              *)
LEMMA NearestSigned ==
  ASSUME NEW n \in Int, NEW d \in Nat \ {0}, NEW k \in Int
  PROVE  LET r == RoundedHalfUp(Magnitude(n), d)
         IN  k = (IF n < 0 THEN -r ELSE r) <=>
                 /\ 2 * Magnitude(k * d - n) <= d
                 /\ 2 * Magnitude(k * d - n) = d => Magnitude(k * d) > Magnitude(n)
<1> DEFINE r == RoundedHalfUp(Magnitude(n), d)
<1>1. ASSUME NEW i \in Int, NEW u \in Nat, 2 * Magnitude(i * d - u) = d
      PROVE  i * d > u <=> Magnitude(i * d) > u
  <2>1. i * d \in Int
    OBVIOUS
  <2>2. CASE i >= 0
    <3>1. 0 * d <= i * d
      BY <2>2, ProductsGrow
    <3> QED
      BY <2>1, <3>1 DEF Magnitude
  <2>3. CASE i <= -1
    <3>1. i * d <= (-1) * d
      BY <2>3, ProductsGrow
    <3> QED
      BY <1>1, <2>1, <3>1 DEF Magnitude
  <2> QED
    BY <2>2, <2>3
<1>2. CASE n >= 0
  <2>1. Magnitude(n) = n /\ n \in Nat
    BY <1>2 DEF Magnitude
  <2>2. k = r <=> /\ 2 * Magnitude(k * d - n) <= d
                  /\ 2 * Magnitude(k * d - n) = d => k * d > n
    BY <2>1, NearestMultiple
  <2> QED
    BY <1>1, <1>2, <2>1, <2>2
<1>3. CASE n < 0
  <2> DEFINE u == -n
             i == -k
  <2>1. Magnitude(n) = u /\ u \in Nat /\ i \in Int
    BY <1>3 DEF Magnitude
  <2>2. i * d = -(k * d) /\ k * d \in Int
    BY SMT
  <2>3. Magnitude(i * d - u) = Magnitude(k * d - n) /\ Magnitude(i * d) = Magnitude(k * d)
    BY <2>2 DEF Magnitude
  <2>4. r \in Nat /\ (i = r <=> /\ 2 * Magnitude(i * d - u) <= d
                                /\ 2 * Magnitude(i * d - u) = d => i * d > u)
    BY <2>1, NearestMultiple
  <2>5. 2 * Magnitude(i * d - u) = d => (i * d > u <=> Magnitude(i * d) > u)
    BY <1>1, <2>1
  <2>6. i = r <=> k = -r
    BY <2>4
  <2> HIDE DEF i, u, r
  <2> QED
    BY <1>3, <2>1, <2>3, <2>4, <2>5, <2>6 DEF r
<1> QED
  BY <1>2, <1>3

-----------------------------------------------------------------------------
(* Decimals.                                                                *)

(* A literal equals the saved number rounded half up to some places exactly *)
(* if it is a multiple of the last place, at most half of it away from the  *)
(* saved number, and away from zero if just half (round_saved_decimal,      *)
(* equal_decimal): for every number of digits, exponent and places.         *)
THEOREM RoundingIsExact ==
  ASSUME NEW literal, NEW saved, NEW places \in 0 .. MaxPlaces,
         IsLiteral(literal), IsLiteral(saved), Fits(literal), Fits(saved)
  PROVE  EqualDecimal(DecimalParts(literal), RoundSaved(saved, places)) <=>
             Rounds(literal, saved, places)
<1> DEFINE N == MaxDigits + MaxExponent + MaxPlaces
           a == literal.exponent - literal.fraction
           b == saved.exponent - saved.fraction
           c == literal.digits
           d == saved.digits
           u == Magnitude(d)
           unit == Ten[N - places]
           C == c * Ten[a + N]
           D == d * Ten[b + N]
           Scaled(n) == IF n.exponent >= n.fraction
                        THEN n.digits * Ten[n.exponent - n.fraction] * Ten[N]
                        ELSE n.digits * (Ten[N] \div Ten[n.fraction - n.exponent])
           rounded == IF b + places >= 0 THEN u * Ten[b + places]
                                         ELSE RoundedHalfUp(u, Ten[-(b + places)])
           r == IF d < 0 THEN -rounded ELSE rounded
<1>1. /\ N \in Nat /\ places \in Nat /\ N - places \in Nat
      /\ a \in Int /\ a + N \in Nat /\ b \in Int /\ b + N \in Nat
      /\ c \in Int /\ d \in Int
  BY LimitsAreRight DEF IsLiteral, Fits, Magnitude
<1>2. ASSUME NEW n, IsLiteral(n), Fits(n)
      PROVE  Scaled(n) = n.digits * Ten[(n.exponent - n.fraction) + N]
  <2> DEFINE e == n.exponent - n.fraction
  <2>1. e \in Int /\ n.digits \in Int /\ e + N \in Nat /\ n.fraction - n.exponent = -e
        /\ (n.exponent >= n.fraction <=> e >= 0)
    BY <1>2, LimitsAreRight DEF IsLiteral, Fits, Magnitude
  <2>2. CASE e >= 0
    <3>1. Ten[e + N] = Ten[e] * Ten[N] /\ Ten[e] \in Nat /\ Ten[N] \in Nat
      <4>1. e \in Nat /\ N \in Nat
        BY <1>1, <2>1, <2>2
      <4> HIDE DEF N, e
      <4> QED
        BY <4>1, TenAdds, TenIsPositive
    <3>2. n.digits * Ten[e] * Ten[N] = n.digits * (Ten[e] * Ten[N])
      <4> HIDE DEF N, e
      <4> QED
        BY <2>1, <3>1, ProductsAssociate
    <3> QED
      BY <2>1, <2>2, <3>1, <3>2
  <2>3. CASE e < 0
    <3>1. -e \in Nat /\ (-e) + (e + N) = N
      BY <1>1, <2>1, <2>3
    <3>2. Ten[N] = Ten[-e] * Ten[e + N] /\ Ten[-e] \in Nat \ {0} /\ Ten[e + N] \in Int
      <4> HIDE DEF N, e
      <4>1. Ten[(-e) + (e + N)] = Ten[-e] * Ten[e + N]
        BY <2>1, <3>1, TenAdds
      <4> QED
        BY <2>1, <3>1, <4>1, TenIsPositive
    <3>3. Ten[N] \div Ten[-e] = Ten[e + N]
      <4> HIDE DEF N, e
      <4> QED
        BY <3>2, Quotient
    <3> QED
      BY <2>1, <2>3, <3>3
  <2> QED
    BY <2>1, <2>2, <2>3
<1>3. Scaled(literal) = C /\ Scaled(saved) = D
  <2> HIDE DEF Scaled, N
  <2> QED
    BY <1>2
<1>4. Ten[N] \div Ten[places] = unit
  <2> HIDE DEF N
  <2>1. Ten[places] \in Nat \ {0} /\ Ten[N - places] \in Int
    BY <1>1, TenIsPositive
  <2>2. places + (N - places) = N
    BY <1>1
  <2>3. Ten[N] = Ten[places] * Ten[N - places]
    BY <1>1, <2>2, TenAdds
  <2> QED
    BY <2>1, <2>3, Quotient
<1>5. Rounds(literal, saved, places) <=>
        /\ C % unit = 0
        /\ 2 * Magnitude(C - D) <= unit
        /\ 2 * Magnitude(C - D) = unit => Magnitude(C) > Magnitude(D)
  <2> HIDE DEF C, D, unit
  <2> QED
    BY <1>3, <1>4 DEF Rounds
<1>6. RoundSaved(saved, places) = [coefficient |-> r, power |-> -places]
  BY DEF RoundSaved, DecimalParts
<1>7. DecimalParts(literal) = [coefficient |-> c, power |-> a]
  BY DEF DecimalParts
<1>8. unit \in Nat \ {0} /\ Ten[a + N] \in Nat \ {0} /\ Ten[b + N] \in Nat \ {0}
  <2> HIDE DEF N, a, b
  <2> QED
    BY <1>1, TenIsPositive DEF unit
<1>9. C \in Int /\ D \in Int /\ u \in Nat
  <2> HIDE DEF a, b, N
  <2> QED
    BY <1>1, <1>8 DEF C, D, Magnitude
<1>10. rounded \in Nat /\ r \in Int
  <2>1. CASE b + places >= 0
    <3>1. Ten[b + places] \in Nat
      <4> HIDE DEF b
      <4> QED
        BY <1>1, <2>1, TenIsPositive
    <3> HIDE DEF b, u
    <3> QED
      BY <1>1, <1>9, <2>1, <3>1
  <2>2. CASE b + places < 0
    <3>1. Ten[-(b + places)] \in Nat \ {0}
      <4> HIDE DEF b
      <4> QED
        BY <1>1, <2>2, TenIsPositive
    <3>2. RoundedHalfUp(u, Ten[-(b + places)]) \in Nat
      <4> HIDE DEF b, u
      <4> QED
        BY <1>9, <3>1, NearestMultiple
    <3> HIDE DEF b, u
    <3> QED
      BY <1>1, <1>9, <2>2, <3>2
  <2> QED
    BY <1>1, <2>1, <2>2
<1>11. EqualDecimal(DecimalParts(literal), RoundSaved(saved, places)) <=> C = r * unit
  <2> DEFINE common == IF a < -places THEN a ELSE -places
  <2>1. /\ common \in Int /\ a - common \in Nat /\ -places - common \in Nat
        /\ common + N \in Nat
        /\ (a - common) + (common + N) = a + N
        /\ (-places - common) + (common + N) = N - places
    BY <1>1
  <2>2. EqualDecimal(DecimalParts(literal), RoundSaved(saved, places)) <=>
          c * Ten[a - common] = r * Ten[-places - common]
    <3> HIDE DEF a, r, c
    <3> QED
      BY <1>6, <1>7 DEF EqualDecimal
  <2> DEFINE low == Ten[common + N]
             ta == Ten[a - common]
             tp == Ten[-places - common]
  <2> HIDE DEF N, a, common, r, c
  <2>3. low \in Nat \ {0} /\ ta \in Nat /\ tp \in Nat
    BY <2>1, TenIsPositive
  <2>4. Ten[a + N] = ta * low /\ unit = tp * low
    BY <2>1, TenAdds DEF unit
  <2> HIDE DEF low, ta, tp
  <2>5. C = (c * ta) * low /\ r * unit = (r * tp) * low
    BY <1>1, <1>10, <2>3, <2>4, ProductsAssociate DEF C
  <2>6. c * ta \in Int /\ r * tp \in Int
    BY <1>1, <1>10, <2>3
  <2>7. (c * ta) * low = (r * tp) * low <=> c * ta = r * tp
    BY <2>3, <2>6, Multiples
  <2> QED
    BY <2>2, <2>5, <2>7 DEF ta, tp
<1>12. CASE b + places >= 0
  <2>1. D = r * unit
    <3> DEFINE t == Ten[b + places]
    <3>1. b + places \in Nat /\ (b + places) + (N - places) = b + N
      BY <1>1, <1>12
    <3>2. t \in Nat /\ Ten[b + N] = t * unit
      <4> HIDE DEF b, N
      <4> QED
        BY <1>1, <3>1, TenAdds, TenIsPositive DEF unit
    <3>3. r = d * t
      <4>1. rounded = u * t
        BY <1>12
      <4>2. d < 0 => u * t = -(d * t)
        <5>1. d < 0 => u = -d
          BY DEF Magnitude
        <5>2. (-d) * t = -(d * t)
          <6> HIDE DEF d, t
          <6> QED
            BY <1>1, <3>2, NegatedProduct
        <5> QED
          BY <5>1, <5>2
      <4>3. ~(d < 0) => u = d
        BY DEF Magnitude
      <4>4. d * t \in Int
        <5> HIDE DEF t, d
        <5> QED
          BY <1>1, <3>2
      <4> HIDE DEF t, d, u, rounded
      <4> QED
        BY <1>1, <4>1, <4>2, <4>3, <4>4
    <3> HIDE DEF t, d, r
    <3> QED
      BY <1>1, <1>8, <3>2, <3>3, ProductsAssociate DEF D
  <2> HIDE DEF C, D, unit, r
  <2>2. ASSUME C = r * unit
        PROVE  C % unit = 0 /\ Magnitude(C - D) = 0
    <3>1. C % unit = 0
      BY <1>8, <1>9, <1>10, <2>2, Divisible
    <3> QED
      BY <1>9, <2>1, <2>2, <3>1 DEF Magnitude
  <2>3. ASSUME C % unit = 0, 2 * Magnitude(C - D) <= unit
        PROVE  C = r * unit
    <3>1. PICK k \in Int : C = k * unit
      BY <1>8, <1>9, <2>3, Divisible
    <3>2. C - D = (k - r) * unit
      BY <1>8, <1>10, <2>1, <3>1, DifferenceOfProducts
    <3>3. Magnitude(C - D) = Magnitude(k - r) * unit /\ Magnitude(k - r) \in Nat
      <4>1. k - r \in Int /\ unit \in Nat \ {0}
        BY <1>8, <1>10
      <4> QED
        BY <3>2, <4>1, MagnitudeOfProduct
    <3>4. ~(Magnitude(k - r) >= 1)
      <4> SUFFICES ASSUME Magnitude(k - r) >= 1 PROVE FALSE
        OBVIOUS
      <4>1. 1 * unit <= Magnitude(k - r) * unit
        BY <1>8, <3>3, ProductsGrow
      <4> QED
        BY <1>8, <2>3, <3>3, <4>1
    <3>5. k = r
      BY <1>10, <3>3, <3>4 DEF Magnitude
    <3> QED
      BY <3>1, <3>5
  <2> QED
    BY <1>5, <1>8, <1>11, <2>2, <2>3
<1>13. CASE b + places < 0
  <2> DEFINE v == Ten[-(b + places)]
             w == Ten[b + N]
  <2>1. -(b + places) \in Nat /\ (-(b + places)) + (b + N) = N - places
    BY <1>1, <1>13
  <2>2. v \in Nat \ {0} /\ w \in Nat \ {0} /\ unit = v * w /\ D = d * w
    <3> HIDE DEF b, N, d
    <3> QED
      BY <1>1, <1>8, <2>1, TenAdds, TenIsPositive DEF unit, D
  <2>3. r = IF d < 0 THEN -RoundedHalfUp(Magnitude(d), v) ELSE RoundedHalfUp(Magnitude(d), v)
    BY <1>1, <1>13
  <2> HIDE DEF C, D, unit, r, v, w, d
  <2>4. ASSUME NEW k \in Int, C = k * unit
        PROVE  /\ 2 * Magnitude(C - D) <= unit <=> 2 * Magnitude(k * v - d) <= v
               /\ 2 * Magnitude(C - D) = unit <=> 2 * Magnitude(k * v - d) = v
               /\ Magnitude(C) > Magnitude(D) <=> Magnitude(k * v) > Magnitude(d)
    <3>1. k * v \in Int /\ C = (k * v) * w
      BY <2>2, <2>4, ProductsAssociate
    <3>2. C - D = (k * v - d) * w /\ k * v - d \in Int
      BY <1>1, <2>2, <3>1, DifferenceOfProducts
    <3>3. /\ Magnitude(C) = Magnitude(k * v) * w /\ Magnitude(k * v) \in Nat
          /\ Magnitude(D) = Magnitude(d) * w /\ Magnitude(d) \in Nat
          /\ Magnitude(C - D) = Magnitude(k * v - d) * w /\ Magnitude(k * v - d) \in Nat
      BY <1>1, <2>2, <3>1, <3>2, MagnitudeOfProduct
    <3> DEFINE gap == Magnitude(k * v - d)
    <3>4. 2 * (gap * w) = (2 * gap) * w
      <4> HIDE DEF gap
      <4> QED
        BY <2>2, <3>3, ProductsAssociate DEF gap
    <3>5. /\ (2 * gap) * w <= v * w <=> 2 * gap <= v
          /\ (2 * gap) * w = v * w <=> 2 * gap = v
          /\ Magnitude(k * v) * w > Magnitude(d) * w <=> Magnitude(k * v) > Magnitude(d)
      <4>1. 2 * gap \in Int /\ v \in Int
        BY <2>2, <3>3
      <4> HIDE DEF gap
      <4> QED
        BY <2>2, <3>3, <4>1, Multiples
    <3> QED
      BY <2>2, <3>3, <3>4, <3>5
  <2>5. ASSUME NEW k \in Int
        PROVE  k = r <=> /\ 2 * Magnitude(k * v - d) <= v
                         /\ 2 * Magnitude(k * v - d) = v => Magnitude(k * v) > Magnitude(d)
    BY <1>1, <2>2, <2>3, NearestSigned
  <2>6. C = r * unit => C % unit = 0
    BY <1>8, <1>9, <1>10, Divisible
  <2>7. C % unit = 0 => \E k \in Int : C = k * unit
    BY <1>8, <1>9, Divisible
  <2>8. ASSUME NEW k \in Int, C = k * unit
        PROVE  C = r * unit <=> k = r
    BY <1>8, <1>10, <2>8, Multiples
  <2> QED
    BY <1>5, <1>10, <1>11, <2>4, <2>5, <2>6, <2>7, <2>8
<1> QED
  BY <1>1, <1>12, <1>13

-----------------------------------------------------------------------------
(* The two calculations over the rows of a table.                           *)

(* Days are numbers and follow the clock.                                   *)
LEMMA DaysFollowTheClock ==
  /\ \A t \in Int : UtcDay(t) \in Int /\ HostDay(t) \in Int
  /\ \A t \in Int : \A zone \in DOMAIN Offset : LocalDay(t, zone) \in Int
  /\ \A s, t \in Int : s <= t => UtcDay(s) <= UtcDay(t)
<1>1. DayLength \in Nat /\ DayLength > 0 /\ HostOffset \in Int
      /\ \A zone \in DOMAIN Offset : Offset[zone] \in Int
  BY CalendarsAreRight, PlansAreRight
<1>2. \A t \in Int : t \div DayLength \in Int
  BY <1>1
<1>3. ASSUME NEW s \in Int, NEW t \in Int, s <= t
      PROVE  s \div DayLength <= t \div DayLength
  BY <1>1, <1>3
<1>4. \A t \in Int : t + HostOffset \in Int /\ \A zone \in DOMAIN Offset : t + Offset[zone] \in Int
  BY <1>1
<1> QED
  BY <1>2, <1>3, <1>4 DEF UtcDay, HostDay, LocalDay

(* Valid rows are of a day each, up to the analysis.                        *)
LEMMA ValidRows ==
  ASSUME NEW d, IsDelivery(d)
  PROVE  /\ Valid(d.table) \subseteq Undisputed(d.table)
         /\ Undisputed(d.table) \subseteq BagToSet(d.table)
         /\ IsFiniteSet(Valid(d.table)) /\ IsFiniteSet(Undisputed(d.table))
         /\ \A row \in Valid(d.table) : row.day \in Int /\ row.day <= AnalysisDay
         /\ \A r, s \in Valid(d.table) : r.day = s.day => r = s
<1>1. Valid(d.table) \subseteq Undisputed(d.table) /\ Undisputed(d.table) \subseteq BagToSet(d.table)
  BY DEF Valid, Undisputed
<1>2. IsFiniteSet(Valid(d.table)) /\ IsFiniteSet(Undisputed(d.table))
  <2>1. Valid(d.table) \in SUBSET BagToSet(d.table) /\ Undisputed(d.table) \in SUBSET BagToSet(d.table)
    BY <1>1
  <2> QED
    BY <2>1, FS_Subset DEF IsDelivery
<1>3. ASSUME NEW r \in Valid(d.table), NEW s \in Valid(d.table), r.day = s.day
      PROVE  r = s
  <2>1. r \in BagToSet(d.table) /\ s \in BagToSet(d.table) /\ r.day \notin Conflicts(d.table)
    BY DEF Valid, Undisputed
  <2>2. r \in On(d.table, r.day) /\ s \in On(d.table, r.day)
    BY <1>3, <2>1 DEF On
  <2> QED
    BY <2>1, <2>2 DEF Conflicts
<1> QED
  BY <1>1, <1>2, <1>3 DEF IsDelivery

(* What a row's state is does not depend on who asks.                       *)
LEMMA StatesAgree ==
  ASSUME NEW d, IsDelivery(d), NEW at \in Int, NEW row \in Valid(d.table)
  PROVE  /\ States(Valid(d.table), at)[row] = State(row, at, ProvenZone(Valid(d.table)))
         /\ State(row, at, ProvenZone(Valid(d.table))) \in {"complete", "provisional", "unknown"}
<1> DEFINE valid == Valid(d.table)
           shared == SharedZone(valid)
           zone == ProvenZone(valid)
<1>1. row.day \in Int
  BY ValidRows
<1>2. UtcDay(at) \in Int
  BY DaysFollowTheClock
<1>3. States(valid, at)[row] = IF shared = None THEN "unknown" ELSE Completion(row, at)
  BY DEF States
<1>4. zone = IF \E r \in valid : Admitted(r) THEN shared ELSE None
  BY DEF ProvenZone
<1>5. CASE shared = None
  <2>1. zone = None
    BY <1>4, <1>5
  <2> QED
    BY <1>3, <1>5, <2>1 DEF State
<1>6. CASE shared # None /\ ~Admitted(row)
  BY <1>3, <1>6 DEF State, Completion
<1>7. CASE shared # None /\ Admitted(row)
  <2>1. zone = shared
    BY <1>4, <1>7
  <2>2. LocalDay(at, row.zone) \in Int
    BY <1>7, DaysFollowTheClock DEF Admitted
  <2>3. State(row, at, shared) = Completion(row, at)
    BY <1>1, <1>2, <1>7, <2>2 DEF State, Completion, Elapsed
  <2>4. Completion(row, at) \in {"complete", "provisional", "unknown"}
    BY DEF Completion
  <2> HIDE DEF shared
  <2> QED
    BY <1>3, <1>7, <2>1, <2>3, <2>4
<1> QED
  BY <1>5, <1>6, <1>7

(* Rows of a table in a state, as the proof counts them.                    *)
In(d, at, state) ==
    {row \in Valid(d.table) : State(row, at, ProvenZone(Valid(d.table))) = state}

LEMMA RowsInState ==
  ASSUME NEW d, IsDelivery(d), NEW at \in Int
  PROVE  /\ \A state \in {"complete", "provisional", "unknown"} :
              /\ {row \in Valid(d.table) : States(Valid(d.table), at)[row] = state}
                   = In(d, at, state)
              /\ In(d, at, state) \in SUBSET Valid(d.table)
              /\ IsFiniteSet(In(d, at, state)) /\ Cardinality(In(d, at, state)) \in Nat
              /\ Cardinality(In(d, at, state)) <= Cardinality(Valid(d.table))
         /\ Cardinality(In(d, at, "complete")) + Cardinality(In(d, at, "provisional"))
              + Cardinality(In(d, at, "unknown")) = Cardinality(Valid(d.table))
<1> DEFINE A == In(d, at, "complete")
           B == In(d, at, "provisional")
           C == In(d, at, "unknown")
<1>1. \A state \in {"complete", "provisional", "unknown"} :
        {row \in Valid(d.table) : States(Valid(d.table), at)[row] = state} = In(d, at, state)
  BY StatesAgree DEF In
<1>2. \A state : In(d, at, state) \in SUBSET Valid(d.table)
  BY DEF In
<1>3. IsFiniteSet(Valid(d.table))
  BY ValidRows
<1>4. \A state : /\ IsFiniteSet(In(d, at, state)) /\ Cardinality(In(d, at, state)) \in Nat
                 /\ Cardinality(In(d, at, state)) <= Cardinality(Valid(d.table))
  BY <1>2, <1>3, FS_Subset, FS_CardinalityType
<1>5. A \cup B \cup C = Valid(d.table) /\ A \cap B = {} /\ A \cap C = {} /\ B \cap C = {}
  BY StatesAgree DEF In
<1>6. Cardinality(A) + Cardinality(B) + Cardinality(C) = Cardinality(Valid(d.table))
  <2> HIDE DEF A, B, C
  <2> QED
    BY <1>3, <1>5, SharedOut
<1> QED
  BY <1>1, <1>2, <1>4, <1>6

(* The rows that are not valid, and those that a loader dropped.            *)
Invalid(table) == Size(table) - Cardinality(Valid(table)) - Collapsed(table)

LEMMA RowsAreCounted ==
  ASSUME NEW d, IsDelivery(d)
  PROVE  /\ Size(d.table) \in Nat /\ Size(d.table) > 0
         /\ Cardinality(Valid(d.table)) \in Nat /\ Cardinality(Valid(d.table)) <= Size(d.table)
         /\ Collapsed(d.table) \in Nat /\ Collapsed(d.table) <= Size(d.table)
         /\ Invalid(d.table) \in Nat /\ Invalid(d.table) <= Size(d.table)
         /\ Conflicts(d.table) = {} =>
              (Invalid(d.table) = 0 <=> Valid(d.table) = BagToSet(d.table))
<1> DEFINE all == BagToSet(d.table)
           undisputed == Undisputed(d.table)
           valid == Valid(d.table)
<1>1. /\ IsABag(d.table) /\ IsFiniteSet(all) /\ all # {} /\ undisputed \subseteq all
      /\ valid \in SUBSET undisputed /\ IsFiniteSet(valid) /\ IsFiniteSet(undisputed)
  BY ValidRows DEF IsDelivery
<1>2. /\ Cardinality(all) \in Nat /\ Cardinality(all) # 0
      /\ Cardinality(valid) \in Nat /\ Cardinality(valid) <= Cardinality(undisputed)
      /\ Cardinality(undisputed) = Cardinality(valid) => undisputed = valid
  BY <1>1, FS_Subset, FS_CardinalityType, FS_EmptySet
<1>3. /\ {Cardinality(all), Size(d.table)} \subseteq Nat
      /\ Cardinality(all) <= Cardinality(Copies(all, d.table))
      /\ Cardinality(Copies(all, d.table)) = Size(d.table)
  BY <1>1, CopiesAreCounted DEF Size
<1>4. /\ {Cardinality(undisputed), Cardinality(Copies(undisputed, d.table))} \subseteq Nat
      /\ Cardinality(undisputed) <= Cardinality(Copies(undisputed, d.table))
      /\ Cardinality(Copies(undisputed, d.table)) <= Size(d.table)
  BY <1>1, CopiesAreCounted
<1>5. Collapsed(d.table) = Cardinality(Copies(undisputed, d.table)) - Cardinality(undisputed)
  BY DEF Collapsed
<1>6. Invalid(d.table) = Size(d.table) - Cardinality(valid) - Collapsed(d.table)
  BY DEF Invalid
<1>7. ASSUME Conflicts(d.table) = {}
      PROVE  Invalid(d.table) = 0 <=> valid = all
  <2>1. undisputed = all
    BY <1>7 DEF Undisputed
  <2>2. Invalid(d.table) = Cardinality(undisputed) - Cardinality(valid)
    BY <1>2, <1>3, <1>4, <1>5, <1>6, <2>1
  <2> HIDE DEF all, undisputed, valid
  <2> QED
    BY <1>2, <1>4, <2>1, <2>2
<1> HIDE DEF all, undisputed
<1> QED
  BY <1>2, <1>3, <1>4, <1>5, <1>6, <1>7 DEF all

(* The newest valid row decides, however it is found.                       *)
LEMMA CompletionsAgree ==
  ASSUME NEW d, IsDelivery(d), NEW at \in Int
  PROVE  ProvenCompletion(Valid(d.table), at) =
           IF In(d, at, "complete") # {}
           THEN States(Valid(d.table), at)
                    [CHOOSE row \in Valid(d.table) : row.day = Latest(Valid(d.table))]
           ELSE IF In(d, at, "provisional") # {} THEN "provisional"
           ELSE IF In(d, at, "unknown") # {} THEN "unknown" ELSE "empty"
<1> DEFINE valid == Valid(d.table)
           zone == ProvenZone(valid)
           State1(row) == State(row, at, zone)
           states == {State1(row) : row \in valid}
           newest == {row \in valid : row.day = Latest(valid)}
<1>1. ProvenCompletion(valid, at) =
        IF "complete" \in states THEN State1(CHOOSE row \in newest : TRUE)
        ELSE IF "provisional" \in states THEN "provisional"
        ELSE IF "unknown" \in states THEN "unknown" ELSE "empty"
  BY DEF ProvenCompletion
<1>2. \A state : state \in states <=> In(d, at, state) # {}
  BY DEF In
<1>3. ASSUME In(d, at, "complete") # {}
      PROVE  State1(CHOOSE row \in newest : TRUE)
               = States(valid, at)[CHOOSE row \in valid : row.day = Latest(valid)]
  <2>1. valid # {}
    BY <1>3 DEF In
  <2>2. PICK row \in valid : row.day = Latest(valid)
    BY <2>1, ValidRows, NewestDay
  <2>3. \A r \in newest : r = row
    BY <2>2, ValidRows
  <2>4. (CHOOSE r \in newest : TRUE) = row
    <3>1. row \in newest
      BY <2>2
    <3> HIDE DEF newest
    <3> QED
      BY <2>3, <3>1
  <2>5. (CHOOSE r \in valid : r.day = Latest(valid)) = row
    <3>1. \A r \in valid : r.day = Latest(valid) => r = row
      BY <2>3
    <3> HIDE DEF valid
    <3> QED
      BY <2>2, <3>1
  <2>6. State1(row) = States(valid, at)[row]
    BY StatesAgree
  <2> QED
    BY <2>4, <2>5, <2>6
<1> HIDE DEF State1, states, newest
<1> QED
  BY <1>1, <1>2, <1>3

(* What the proof can say of a delivery's table at a moment.                *)
ProvenQuality(d, at) ==
    LET valid == Valid(d.table)
        zone == ProvenZone(valid)
        invalid == Invalid(d.table) + d.undated
    IN  [observed |-> at,
         zone |-> zone,
         origin |-> IF zone = None THEN "unknown" ELSE SharedOrigin(valid),
         basis |-> d.basis,
         integrity |-> Integrity(invalid, Cardinality(valid)),
         completion |-> ProvenCompletion(valid, at),
         received |-> Size(d.table) + d.undated,
         inWindow |-> Size(d.table),
         valid |-> Cardinality(valid),
         invalid |-> invalid,
         conflicts |-> Conflicts(d.table),
         collapsed |-> Collapsed(d.table),
         provisional |-> Cardinality(In(d, at, "provisional")),
         unknown |-> Cardinality(In(d, at, "unknown")),
         usable |-> Cardinality(In(d, at, "complete")),
         latestReceived |-> Latest(BagToSet(d.table)),
         latestUsable |-> Latest(In(d, at, "complete")),
         indicators |-> Failed([name \in DOMAIN IndicatorRows |->
                                   IndicatorStatus(name, invalid,
                                                   Cardinality(In(d, at, "complete")))], d.failing)]

(* The assessment says what can be proved.                                  *)
LEMMA AssessmentIsProvable ==
  ASSUME NEW d, IsDelivery(d), NEW at \in Int
  PROVE  Assess(d, at) = ProvenQuality(d, at)
<1> DEFINE valid == Valid(d.table)
           states == States(valid, at)
           shared == SharedZone(valid)
           known == shared # None /\ \E row \in valid : Admitted(row)
<1>1. {row \in valid : states[row] = "complete"} = In(d, at, "complete")
  BY RowsInState
<1>2. {row \in valid : states[row] = "provisional"} = In(d, at, "provisional")
  BY RowsInState
<1>3. {row \in valid : states[row] = "unknown"} = In(d, at, "unknown")
  BY RowsInState
<1>4. ProvenZone(valid) = (IF known THEN shared ELSE None) /\ (known <=> ProvenZone(valid) # None)
  BY DEF ProvenZone
<1>5. Size(d.table) - Cardinality(valid) - Collapsed(d.table) + d.undated
        = Invalid(d.table) + d.undated
  BY DEF Invalid
<1>6. ProvenCompletion(valid, at) =
        IF In(d, at, "complete") # {}
        THEN states[CHOOSE row \in valid : row.day = Latest(valid)]
        ELSE IF In(d, at, "provisional") # {} THEN "provisional"
        ELSE IF In(d, at, "unknown") # {} THEN "unknown" ELSE "empty"
  BY CompletionsAgree
<1> QED
  BY <1>1, <1>2, <1>3, <1>4, <1>5, <1>6 DEF Assess, ProvenQuality

-----------------------------------------------------------------------------
(* The proof accepts what the assessment of the same table says.            *)

SameButBasis(q, p) == \A field \in DOMAIN q \ {"basis", "indicators"} : q[field] = p[field]

LEMMA AgreementByField ==
  ASSUME NEW d, NEW e, NEW at
  PROVE  SameButBasis(ProvenQuality(e, at), ProvenQuality(d, at)) <=>
           LET q == ProvenQuality(e, at)
               p == ProvenQuality(d, at)
           IN  /\ q.observed = p.observed /\ q.zone = p.zone /\ q.origin = p.origin
               /\ q.integrity = p.integrity /\ q.completion = p.completion
               /\ q.received = p.received /\ q.inWindow = p.inWindow
               /\ q.valid = p.valid /\ q.invalid = p.invalid
               /\ q.conflicts = p.conflicts /\ q.collapsed = p.collapsed
               /\ q.provisional = p.provisional /\ q.unknown = p.unknown /\ q.usable = p.usable
               /\ q.latestReceived = p.latestReceived /\ q.latestUsable = p.latestUsable
<1>1. DOMAIN ProvenQuality(e, at) =
        {"observed", "zone", "origin", "basis", "integrity", "completion", "received", "inWindow",
         "valid", "invalid", "conflicts", "collapsed", "provisional", "unknown", "usable",
         "latestReceived", "latestUsable", "indicators"}
  BY DEF ProvenQuality
<1> DEFINE q == ProvenQuality(e, at)
           p == ProvenQuality(d, at)
<1> HIDE DEF q, p
<1>2. DOMAIN q =
        {"observed", "zone", "origin", "basis", "integrity", "completion", "received", "inWindow",
         "valid", "invalid", "conflicts", "collapsed", "provisional", "unknown", "usable",
         "latestReceived", "latestUsable", "indicators"}
  BY <1>1 DEF q
<1>3. SameButBasis(q, p) <=>
        /\ q.observed = p.observed /\ q.zone = p.zone /\ q.origin = p.origin
        /\ q.integrity = p.integrity /\ q.completion = p.completion
        /\ q.received = p.received /\ q.inWindow = p.inWindow
        /\ q.valid = p.valid /\ q.invalid = p.invalid
        /\ q.conflicts = p.conflicts /\ q.collapsed = p.collapsed
        /\ q.provisional = p.provisional /\ q.unknown = p.unknown /\ q.usable = p.usable
        /\ q.latestReceived = p.latestReceived /\ q.latestUsable = p.latestUsable
  BY <1>2 DEF SameButBasis
<1> QED
  BY <1>3 DEF q, p

LEMMA ProofAgrees ==
  ASSUME NEW d, IsDelivery(d), NEW e, IsDelivery(e), NEW at \in Int
  PROVE  Proves(d, Assess(e, at)) <=>
           /\ SameButBasis(Assess(e, at), Assess([d EXCEPT !.undated = e.undated], at))
           /\ ~d.repeated
           /\ d.carried = None \/ Assess(e, at).basis \in {None, d.carried}
<1> DEFINE dd == [d EXCEPT !.undated = e.undated]
           q == ProvenQuality(e, at)
           p == ProvenQuality(dd, at)
<1>1. dd.table = d.table /\ dd.undated = e.undated /\ IsDelivery(dd)
  BY DEF IsDelivery
<1> HIDE DEF dd
<1>2. Assess(e, at) = q /\ Assess(dd, at) = p
  BY <1>1, AssessmentIsProvable
<1>3. \A state : In(dd, at, state) = In(d, at, state)
  BY <1>1 DEF In
<1> DEFINE valid == Valid(d.table)
           size == Size(d.table)
           zone == ProvenZone(valid)
<1>4. /\ p.observed = at /\ p.zone = zone
      /\ p.origin = (IF zone = None THEN "unknown" ELSE SharedOrigin(valid))
      /\ p.integrity = Integrity(Invalid(d.table) + e.undated, Cardinality(valid))
      /\ p.completion = ProvenCompletion(valid, at)
      /\ p.received = size + e.undated /\ p.inWindow = size
      /\ p.valid = Cardinality(valid) /\ p.invalid = Invalid(d.table) + e.undated
      /\ p.conflicts = Conflicts(d.table) /\ p.collapsed = Collapsed(d.table)
      /\ p.provisional = Cardinality(In(d, at, "provisional"))
      /\ p.unknown = Cardinality(In(d, at, "unknown"))
      /\ p.usable = Cardinality(In(d, at, "complete"))
      /\ p.latestReceived = Latest(BagToSet(d.table))
      /\ p.latestUsable = Latest(In(d, at, "complete"))
  BY <1>1, <1>3 DEF ProvenQuality
<1>5. /\ q.observed = at
      /\ q.integrity = Integrity(q.invalid, Cardinality(Valid(e.table)))
      /\ q.valid = Cardinality(Valid(e.table)) /\ q.collapsed = Collapsed(e.table)
      /\ q.received = q.inWindow + e.undated /\ q.inWindow = Size(e.table)
      /\ q.invalid = Invalid(e.table) + e.undated
  BY DEF ProvenQuality
<1>6. /\ {size, Cardinality(valid), Collapsed(d.table), Invalid(d.table), e.undated} \subseteq Nat
      /\ size > 0 /\ Invalid(d.table) = size - Cardinality(valid) - Collapsed(d.table)
      /\ {Size(e.table), Cardinality(Valid(e.table)), Collapsed(e.table), Invalid(e.table)}
           \subseteq Nat
      /\ Invalid(e.table) = Size(e.table) - Cardinality(Valid(e.table)) - Collapsed(e.table)
  <2>1. e.undated \in Nat
    BY DEF IsDelivery
  <2> QED
    BY <2>1, RowsAreCounted DEF Invalid
<1>7. Proves(d, q) <=>
        /\ ~d.repeated
        /\ size > 0 /\ q.inWindow = size /\ q.received >= size
        /\ d.carried # None /\ q.basis # None => q.basis = d.carried
        /\ q.latestReceived = Latest(BagToSet(d.table))
        /\ q.valid = Cardinality(valid)
        /\ q.collapsed = Collapsed(d.table)
        /\ q.conflicts = Conflicts(d.table)
        /\ Invalid(d.table) <= q.invalid
        /\ q.invalid <= Invalid(d.table) + q.received - size
        /\ q.integrity = Integrity(q.invalid, Cardinality(valid))
        /\ q.zone = zone
        /\ q.origin = IF zone = None THEN "unknown" ELSE SharedOrigin(valid)
        /\ q.usable = Cardinality(In(d, at, "complete"))
        /\ q.provisional = Cardinality(In(d, at, "provisional"))
        /\ q.unknown = Cardinality(In(d, at, "unknown"))
        /\ q.latestUsable = Latest(In(d, at, "complete"))
        /\ q.completion = ProvenCompletion(valid, at)
  <2>1. /\ \A state : {row \in valid : State(row, q.observed, zone) = state} = In(d, at, state)
        /\ Invalid(d.table) = size - Cardinality(valid) - Collapsed(d.table)
    BY <1>5 DEF In, Invalid
  <2> HIDE DEF q, size
  <2> QED
    BY <1>5, <2>1 DEF Proves, size
<1> HIDE DEF q, p, valid, size, zone
<1>8. SameButBasis(q, p) <=>
        /\ q.observed = p.observed /\ q.zone = p.zone /\ q.origin = p.origin
        /\ q.integrity = p.integrity /\ q.completion = p.completion
        /\ q.received = p.received /\ q.inWindow = p.inWindow
        /\ q.valid = p.valid /\ q.invalid = p.invalid
        /\ q.conflicts = p.conflicts /\ q.collapsed = p.collapsed
        /\ q.provisional = p.provisional /\ q.unknown = p.unknown /\ q.usable = p.usable
        /\ q.latestReceived = p.latestReceived /\ q.latestUsable = p.latestUsable
  BY AgreementByField DEF q, p
<1>9. ASSUME q.inWindow = size
      PROVE  q.received = size + e.undated /\ q.received >= size
  BY <1>5, <1>6, <1>9
<1>10. ASSUME q.inWindow = size, q.valid = Cardinality(valid), q.collapsed = Collapsed(d.table)
       PROVE  /\ q.invalid = Invalid(d.table) + e.undated
              /\ Invalid(d.table) <= q.invalid
              /\ q.invalid <= Invalid(d.table) + q.received - size
  BY <1>5, <1>6, <1>9, <1>10
<1>11. Proves(d, q) <=>
         /\ SameButBasis(q, p) /\ ~d.repeated
         /\ d.carried = None \/ q.basis \in {None, d.carried}
  <2>1. ASSUME Proves(d, q)
        PROVE  SameButBasis(q, p) /\ ~d.repeated /\ (d.carried = None \/ q.basis \in {None, d.carried})
    BY <1>4, <1>5, <1>7, <1>8, <1>9, <1>10, <2>1
  <2>2. ASSUME SameButBasis(q, p), ~d.repeated, d.carried = None \/ q.basis \in {None, d.carried}
        PROVE  Proves(d, q)
    BY <1>4, <1>5, <1>6, <1>7, <1>8, <1>9, <1>10, <2>2
  <2> QED
    BY <2>1, <2>2
<1> QED
  BY <1>2, <1>11 DEF dd

-----------------------------------------------------------------------------
(* What an assessment says is sound in itself.                              *)

LEMMA NewestFinished ==
  ASSUME NEW d, IsDelivery(d), NEW at \in Int
  PROVE  LET complete == In(d, at, "complete")
             rows == BagToSet(d.table)
         IN  /\ Latest(rows) # None /\ Latest(rows) \in Int /\ Latest(rows) <= AnalysisDay
             /\ complete = {} => Latest(complete) = None
             /\ complete # {} =>
                  /\ Latest(complete) # None /\ Latest(complete) \in Int
                  /\ Latest(complete) <= AnalysisDay /\ Latest(complete) <= Latest(rows)
                  /\ \E row \in complete : row.day = Latest(complete)
                  /\ \A row \in complete : row.day <= Latest(complete)
<1> DEFINE complete == In(d, at, "complete")
           rows == BagToSet(d.table)
<1>1. rows # {} /\ \A row \in rows : row.day \in Int /\ row.day <= AnalysisDay
  BY DEF IsDelivery
<1>2. complete \subseteq rows
  BY ValidRows DEF In
<1>3. None \notin Int
  BY CalendarsAreRight
<1> HIDE DEF complete, rows
<1>4. /\ \E row \in rows : row.day = Latest(rows)
      /\ \A row \in rows : row.day <= Latest(rows)
  BY <1>1, NewestDay
<1>5. Latest(rows) # None /\ Latest(rows) \in Int /\ Latest(rows) <= AnalysisDay
  BY <1>1, <1>3, <1>4
<1>6. complete = {} => Latest(complete) = None
  BY DEF Latest
<1>7. ASSUME complete # {}
      PROVE  /\ Latest(complete) # None /\ Latest(complete) \in Int
             /\ Latest(complete) <= AnalysisDay /\ Latest(complete) <= Latest(rows)
             /\ \E row \in complete : row.day = Latest(complete)
             /\ \A row \in complete : row.day <= Latest(complete)
  <2>1. \A row \in complete : row.day \in Int /\ row.day <= AnalysisDay
    BY <1>1, <1>2
  <2>2. /\ \E row \in complete : row.day = Latest(complete)
        /\ \A row \in complete : row.day <= Latest(complete)
    BY <1>7, <2>1, NewestDay
  <2> QED
    BY <1>2, <1>3, <1>4, <2>1, <2>2
<1> QED
  BY <1>5, <1>6, <1>7 DEF complete, rows

(* The counts of an assessment.                                             *)
LEMMA CountsAreNatural ==
  ASSUME NEW d, IsDelivery(d), NEW at \in Int
  PROVE  LET q == ProvenQuality(d, at)
         IN  /\ {q.valid, q.invalid, q.usable, q.provisional, q.unknown} \subseteq Nat
             /\ q.usable = 0 <=> In(d, at, "complete") = {}
             /\ q.unknown = 0 <=> In(d, at, "unknown") = {}
             /\ q.invalid = 0 <=> Invalid(d.table) = 0 /\ d.undated = 0
<1> DEFINE q == ProvenQuality(d, at)
<1>1. /\ q.valid = Cardinality(Valid(d.table)) /\ q.invalid = Invalid(d.table) + d.undated
      /\ q.usable = Cardinality(In(d, at, "complete"))
      /\ q.provisional = Cardinality(In(d, at, "provisional"))
      /\ q.unknown = Cardinality(In(d, at, "unknown"))
  BY DEF ProvenQuality
<1>2. d.undated \in Nat
  BY DEF IsDelivery
<1>3. /\ IsFiniteSet(In(d, at, "complete")) /\ IsFiniteSet(In(d, at, "unknown"))
      /\ {Cardinality(In(d, at, "complete")), Cardinality(In(d, at, "provisional")),
          Cardinality(In(d, at, "unknown"))} \subseteq Nat
  BY RowsInState
<1>4. q.usable = 0 <=> In(d, at, "complete") = {}
  BY <1>1, <1>3, FS_EmptySet
<1>5. q.unknown = 0 <=> In(d, at, "unknown") = {}
  BY <1>1, <1>3, FS_EmptySet
<1>6. Invalid(d.table) \in Nat /\ Cardinality(Valid(d.table)) \in Nat
  BY RowsAreCounted
<1> HIDE DEF q
<1> QED
  BY <1>1, <1>2, <1>3, <1>4, <1>5, <1>6 DEF q

(* An indicator is available just if it has its rows and can be computed.   *)
LEMMA AvailableIndicators ==
  ASSUME NEW d, NEW at
  PROVE  LET q == ProvenQuality(d, at)
         IN  /\ DOMAIN q.indicators = DOMAIN IndicatorRows
             /\ \A name \in DOMAIN IndicatorRows :
                  /\ q.indicators[name] \in {"available", "warmup", "failed", "unavailable"}
                  /\ q.indicators[name] = "available" <=>
                       /\ name \notin d.failing /\ ~(q.invalid > 0) /\ q.usable # 0
                       /\ ~(q.usable < IndicatorRows[name])
<1> DEFINE q == ProvenQuality(d, at)
           first == [name \in DOMAIN IndicatorRows |-> IndicatorStatus(name, q.invalid, q.usable)]
<1>1. q.indicators = Failed(first, d.failing)
  BY DEF ProvenQuality
<1> HIDE DEF q
<1>2. \A name \in DOMAIN IndicatorRows :
        /\ first[name] \in {"available", "warmup", "unavailable"}
        /\ first[name] = "available" <=>
             /\ ~(q.invalid > 0) /\ q.usable # 0 /\ ~(q.usable < IndicatorRows[name])
  BY DEF IndicatorStatus
<1>3. DOMAIN first = DOMAIN IndicatorRows
  OBVIOUS
<1> HIDE DEF first
<1> QED
  BY <1>1, <1>2, <1>3 DEF Failed, q

LEMMA AssessmentIsWellFormed ==
  ASSUME NEW d, IsDelivery(d), NEW at \in Int
  PROVE  WellFormed(ProvenQuality(d, at))
<1> DEFINE q == ProvenQuality(d, at)
           complete == In(d, at, "complete")
<1>1. d.undated \in Nat /\ \A row \in BagToSet(d.table) : row.day <= AnalysisDay
  BY DEF IsDelivery
<1>2. /\ q.received = Size(d.table) + d.undated /\ q.inWindow = Size(d.table)
      /\ q.valid = Cardinality(Valid(d.table)) /\ q.invalid = Invalid(d.table) + d.undated
      /\ q.collapsed = Collapsed(d.table) /\ q.usable = Cardinality(complete)
      /\ q.provisional = Cardinality(In(d, at, "provisional"))
      /\ q.unknown = Cardinality(In(d, at, "unknown"))
      /\ q.latestReceived = Latest(BagToSet(d.table)) /\ q.latestUsable = Latest(complete)
      /\ q.conflicts = Conflicts(d.table) /\ q.integrity = Integrity(q.invalid, q.valid)
  BY DEF ProvenQuality
<1>3. /\ Size(d.table) \in Nat
      /\ Cardinality(Valid(d.table)) \in Nat /\ Cardinality(Valid(d.table)) <= Size(d.table)
      /\ Collapsed(d.table) \in Nat /\ Collapsed(d.table) <= Size(d.table)
      /\ Invalid(d.table) \in Nat /\ Invalid(d.table) <= Size(d.table)
  BY RowsAreCounted
<1>4. /\ Cardinality(complete) \in Nat /\ Cardinality(complete) <= Cardinality(Valid(d.table))
      /\ Cardinality(complete) + Cardinality(In(d, at, "provisional"))
           + Cardinality(In(d, at, "unknown")) = Cardinality(Valid(d.table))
  BY RowsInState
<1>5. \A day \in Conflicts(d.table) : day <= AnalysisDay
  BY <1>1 DEF Conflicts
<1>6. q.usable = 0 <=> complete = {}
  BY CountsAreNatural
<1>7. /\ Latest(BagToSet(d.table)) # None /\ Latest(BagToSet(d.table)) <= AnalysisDay
      /\ complete = {} => Latest(complete) = None
      /\ complete # {} => /\ Latest(complete) # None /\ Latest(complete) <= AnalysisDay
                          /\ Latest(complete) <= Latest(BagToSet(d.table))
  BY NewestFinished
<1>8. \A name \in DOMAIN q.indicators :
        q.indicators[name] = "available" => q.usable >= IndicatorRows[name]
  <2>1. \A name \in DOMAIN IndicatorRows : IndicatorRows[name] \in Nat
    BY CalendarsAreRight
  <2>2. q.usable \in Nat
    BY <1>2, <1>4
  <2>3. DOMAIN q.indicators = DOMAIN IndicatorRows
    BY AvailableIndicators
  <2>4. \A name \in DOMAIN IndicatorRows :
          q.indicators[name] = "available" => ~(q.usable < IndicatorRows[name])
    BY AvailableIndicators
  <2> HIDE DEF q
  <2> QED
    BY <2>1, <2>2, <2>3, <2>4
<1> HIDE DEF q, complete
<1>9. {q.inWindow, q.valid, q.invalid, q.collapsed, q.usable} \subseteq 0 .. q.received
  BY <1>1, <1>2, <1>3, <1>4
<1>10. q.usable + q.provisional + q.unknown = q.valid
  BY <1>2, <1>4
<1>11. \A day \in {q.latestReceived, q.latestUsable} \ {None} : day <= AnalysisDay
  BY <1>2, <1>7
<1>12. /\ q.usable = 0 <=> q.latestUsable = None
       /\ q.latestUsable # None => q.latestReceived # None /\ q.latestUsable <= q.latestReceived
  BY <1>2, <1>6, <1>7
<1>13. WellFormed(q)
  BY <1>2, <1>5, <1>8, <1>9, <1>10, <1>11, <1>12 DEF WellFormed
<1> QED
  BY <1>13 DEF q

-----------------------------------------------------------------------------
(* What the gate holds against a snapshot is what is wrong with its rows.   *)

Clear(d, at) ==
    LET q == ProvenQuality(d, at)
    IN  /\ q.invalid = 0 /\ q.valid > 0 /\ q.conflicts = {} /\ q.unknown = 0
        /\ q.zone # None /\ q.origin # "unknown"
        /\ q.usable > 0 /\ AnalysisDay - q.latestUsable <= MaxAge /\ q.basis # None
        /\ \A name \in DOMAIN IndicatorRows : q.indicators[name] = "available"

LEMMA NoFindings ==
  ASSUME NEW d, IsDelivery(d), NEW at \in Int
  PROVE  LET q == ProvenQuality(d, at)
         IN  RowFindings(q) = {} /\ IndicatorFindings(q) = {} <=> Clear(d, at)
<1> DEFINE q == ProvenQuality(d, at)
<1>1. {q.valid, q.invalid, q.usable, q.provisional, q.unknown} \subseteq Nat
  BY CountsAreNatural
<1>2. q.integrity = Integrity(q.invalid, q.valid)
  BY DEF ProvenQuality
<1>3. \A name \in DOMAIN IndicatorRows :
        q.indicators[name] \in {"available", "warmup", "failed", "unavailable"}
  BY AvailableIndicators
<1>4. Clear(d, at) <=>
        /\ q.invalid = 0 /\ q.valid > 0 /\ q.conflicts = {} /\ q.unknown = 0
        /\ q.zone # None /\ q.origin # "unknown"
        /\ q.usable > 0 /\ AnalysisDay - q.latestUsable <= MaxAge /\ q.basis # None
        /\ \A name \in DOMAIN IndicatorRows : q.indicators[name] = "available"
  BY DEF Clear
<1>5. q.usable > 0 => AnalysisDay - q.latestUsable \in Int /\ MaxAge \in Int
  <2>1. q.latestUsable = Latest(In(d, at, "complete")) /\ (q.usable = 0 <=> In(d, at, "complete") = {})
    BY CountsAreNatural DEF ProvenQuality
  <2>2. AnalysisDay \in Int /\ MaxAge \in Int
    BY CalendarsAreRight, PlansAreRight
  <2>3. In(d, at, "complete") # {} => Latest(In(d, at, "complete")) \in Int
    BY NewestFinished
  <2> HIDE DEF q
  <2> QED
    BY <1>1, <2>1, <2>2, <2>3
<1> HIDE DEF q
<1>6. \A kind, holds : Finding(kind, holds) = {} <=> ~holds
  BY DEF Finding
<1>7. RowFindings(q) = {} <=>
        /\ ~(q.integrity = "invalid" \/ q.conflicts # {})
        /\ ~(q.integrity = "empty")
        /\ ~(q.unknown > 0 \/ q.zone = None \/ q.origin = "unknown")
        /\ ~(q.usable = 0 /\ q.provisional > 0)
        /\ ~(q.usable = 0 /\ q.provisional = 0)
        /\ ~(q.usable > 0 /\ AnalysisDay - q.latestUsable > MaxAge)
        /\ ~(q.basis = None)
  BY <1>6 DEF RowFindings
<1>8. (q.integrity # "invalid" <=> q.invalid = 0)
      /\ (q.invalid = 0 => (q.integrity # "empty" <=> q.valid > 0))
  BY <1>1, <1>2 DEF Integrity
<1>9. IndicatorFindings(q) = {} <=>
        \A name \in DOMAIN IndicatorRows : q.indicators[name] = "available"
  <2> DEFINE statuses == {q.indicators[name] : name \in DOMAIN IndicatorRows}
  <2>1. IndicatorFindings(q) = {} <=>
          ~(statuses \cap {"warmup", "failed"} # {}) /\ ~("unavailable" \in statuses)
    BY <1>6 DEF IndicatorFindings
  <2> QED
    BY <1>3, <2>1
<1>10. RowFindings(q) = {} <=>
         /\ q.invalid = 0 /\ q.valid > 0 /\ q.conflicts = {} /\ q.unknown = 0
         /\ q.zone # None /\ q.origin # "unknown"
         /\ q.usable > 0 /\ AnalysisDay - q.latestUsable <= MaxAge /\ q.basis # None
  <2>1. q.usable # 0 <=> q.usable > 0
    BY <1>1
  <2>2. ~(q.unknown > 0) <=> q.unknown = 0
    BY <1>1
  <2>3. (q.usable = 0 /\ q.provisional > 0) \/ (q.usable = 0 /\ q.provisional = 0) <=> q.usable = 0
    BY <1>1
  <2>4. q.usable > 0 =>
          (~(AnalysisDay - q.latestUsable > MaxAge) <=> AnalysisDay - q.latestUsable <= MaxAge)
    BY <1>5
  <2> QED
    BY <1>7, <1>8, <2>1, <2>2, <2>3, <2>4
<1> QED
  BY <1>4, <1>9, <1>10 DEF q

(* A zone that all rows have is shared.                                     *)
LEMMA OneZoneIsShared ==
  ASSUME NEW rows, \A row \in rows : Admitted(row)
  PROVE  ProvenZone(rows) # None <=> rows # {} /\ \A r, s \in rows : r.zone = s.zone
<1> DEFINE zones == {row.zone : row \in rows} \ {None}
<1>1. \A row \in rows : row.zone # None
  BY CalendarsAreRight DEF Admitted
<1>2. zones = {row.zone : row \in rows}
  BY <1>1
<1>3. SharedZone(rows) = IF \E zone \in zones : zones = {zone}
                         THEN CHOOSE zone \in zones : TRUE ELSE None
  BY DEF SharedZone
<1>4. (\E zone \in zones : zones = {zone}) <=> rows # {} /\ \A r, s \in rows : r.zone = s.zone
  BY <1>2
<1>5. None \notin zones
  OBVIOUS
<1> HIDE DEF zones
<1>6. SharedZone(rows) # None <=> rows # {} /\ \A r, s \in rows : r.zone = s.zone
  BY <1>3, <1>4, <1>5
<1> QED
  BY <1>6 DEF ProvenZone

(* Observed origins come to one that is not unknown.                        *)
LEMMA OneOriginIsKnown ==
  ASSUME NEW rows, rows # {}, \A row \in rows : Observed(row)
  PROVE  SharedOrigin(rows) # "unknown"
<1> DEFINE origins == {row.origin : row \in rows}
<1>1. origins # {} /\ origins \subseteq {"timestamp", "provider_metadata"}
  BY DEF Observed
<1>2. SharedOrigin(rows) = IF "provider_metadata" \in origins THEN "provider_metadata"
                           ELSE IF \E origin \in origins : origins = {origin}
                           THEN CHOOSE origin \in origins : TRUE ELSE "unknown"
  BY DEF SharedOrigin
<1> HIDE DEF origins
<1>3. CASE "provider_metadata" \in origins
  BY <1>2, <1>3
<1>4. CASE "provider_metadata" \notin origins
  <2>1. origins = {"timestamp"}
    BY <1>1, <1>4
  <2>2. (CHOOSE origin \in origins : TRUE) \in origins
    BY <2>1
  <2> QED
    BY <1>2, <1>4, <2>1, <2>2
<1> QED
  BY <1>3, <1>4

(* If nothing is disputed and every row is valid, and their zone is shared  *)
(* and admitted, the finished rows are the settled ones.                    *)
LEMMA FinishedAreSettled ==
  ASSUME NEW d, IsDelivery(d), NEW at \in Int, ProvenZone(Valid(d.table)) # None,
         \A row \in Valid(d.table) : Observed(row) /\ Admitted(row)
  PROVE  /\ In(d, at, "complete") = {row \in Valid(d.table) : Settled(row, at)}
         /\ In(d, at, "unknown") = {}
<1> DEFINE zone == ProvenZone(Valid(d.table))
<1>1. UtcDay(at) \in Int
  BY DaysFollowTheClock
<1>2. ASSUME NEW row \in Valid(d.table)
      PROVE  /\ State(row, at, zone) # "unknown"
             /\ State(row, at, zone) = "complete" <=> Settled(row, at)
  <2>1. row.day \in Int
    BY ValidRows
  <2>2. LocalDay(at, row.zone) \in Int
    BY DaysFollowTheClock DEF Admitted
  <2> HIDE DEF zone
  <2>3. zone # None
    BY DEF zone
  <2> QED
    BY <1>1, <2>1, <2>2, <2>3 DEF State, Settled
<1> QED
  BY <1>2 DEF In

LEMMA ClearIsSound ==
  ASSUME NEW c, IsDelivery(c.delivery), c.quality.observed \in Int
  PROVE  Clear(c.delivery, c.quality.observed) /\ ~c.delivery.repeated <=> Sound(c)
<1> DEFINE d == c.delivery
           at == c.quality.observed
           q == ProvenQuality(d, at)
           rows == BagToSet(d.table)
           valid == Valid(d.table)
           complete == In(d, at, "complete")
           settled == {row \in rows : Settled(row, at)}
<1>1. IsDelivery(d) /\ at \in Int
  OBVIOUS
<1>2. /\ q.conflicts = Conflicts(d.table) /\ q.zone = ProvenZone(valid) /\ q.basis = d.basis
      /\ q.origin = (IF q.zone = None THEN "unknown" ELSE SharedOrigin(valid))
      /\ q.valid = Cardinality(valid) /\ q.usable = Cardinality(complete)
      /\ q.latestUsable = Latest(complete)
  BY DEF ProvenQuality
<1>3. /\ {q.valid, q.invalid, q.usable, q.unknown} \subseteq Nat
      /\ q.usable = 0 <=> complete = {}
      /\ q.unknown = 0 <=> In(d, at, "unknown") = {}
      /\ q.invalid = 0 <=> Invalid(d.table) = 0 /\ d.undated = 0
  BY <1>1, CountsAreNatural
<1>4. \A name \in DOMAIN IndicatorRows :
        q.indicators[name] = "available" <=>
          /\ name \notin d.failing /\ ~(q.invalid > 0) /\ q.usable # 0
          /\ ~(q.usable < IndicatorRows[name])
  BY AvailableIndicators
<1>5. rows # {} /\ d.failing \subseteq DOMAIN IndicatorRows /\ \A row \in rows : row.day \in Int
  BY <1>1 DEF IsDelivery
<1>6. Conflicts(d.table) = {} => (Invalid(d.table) = 0 <=> valid = rows)
  BY <1>1, RowsAreCounted
<1>7. /\ complete # {} =>
           /\ Latest(complete) \in Int
           /\ \E row \in complete : row.day = Latest(complete)
           /\ \A row \in complete : row.day <= Latest(complete)
  BY <1>1, NewestFinished
<1>8. \A r, s \in valid : r.day = s.day => r = s
  BY <1>1, ValidRows
<1>9. \A name \in DOMAIN IndicatorRows : IndicatorRows[name] \in Nat
  BY CalendarsAreRight
<1>10. AnalysisDay \in Int /\ MaxAge \in Int
  BY CalendarsAreRight, PlansAreRight
<1>11. Sound(c) <=>
         /\ ~d.repeated /\ d.undated = 0 /\ d.basis # None /\ d.failing = {}
         /\ \A r, s \in rows : r.zone = s.zone /\ (r.day = s.day => r = s)
         /\ \A row \in rows : Coherent(row) /\ Admitted(row) /\ Observed(row)
         /\ \A name \in DOMAIN IndicatorRows : Cardinality(settled) >= IndicatorRows[name]
         /\ \E row \in settled : AnalysisDay - row.day <= MaxAge
  BY DEF Sound
<1>12. Clear(d, at) <=>
         /\ q.invalid = 0 /\ q.valid > 0 /\ q.conflicts = {} /\ q.unknown = 0
         /\ q.zone # None /\ q.origin # "unknown"
         /\ q.usable > 0 /\ AnalysisDay - q.latestUsable <= MaxAge /\ q.basis # None
         /\ \A name \in DOMAIN IndicatorRows : q.indicators[name] = "available"
  BY DEF Clear
<1>13. complete \subseteq valid
  BY DEF In
<1> HIDE DEF q
<1>14. ASSUME Clear(d, at), ~d.repeated PROVE Sound(c)
  <2>1. /\ q.invalid = 0 /\ Conflicts(d.table) = {} /\ q.unknown = 0 /\ q.zone # None
        /\ q.usable > 0 /\ AnalysisDay - Latest(complete) <= MaxAge /\ d.basis # None
    BY <1>2, <1>12, <1>14
  <2>2. valid = rows /\ d.undated = 0
    BY <1>3, <1>6, <2>1
  <2>3. \A row \in valid : State(row, at, ProvenZone(valid)) # "unknown"
    BY <1>3, <2>1 DEF In
  <2>4. \A row \in valid : Observed(row) /\ Admitted(row) /\ Coherent(row)
    <3>1. \A row \in valid : Coherent(row)
      BY DEF Valid
    <3> HIDE DEF valid
    <3> QED
      BY <2>3, <3>1 DEF State
  <2>5. ProvenZone(valid) # None
    BY <1>2, <2>1
  <2>6. \A r, s \in rows : r.zone = s.zone
    <3> HIDE DEF valid, rows
    <3> QED
      BY <2>2, <2>4, <2>5, OneZoneIsShared
  <2>7. complete = settled
    <3>1. complete = {row \in valid : Settled(row, at)}
      BY <1>1, <2>4, <2>5, FinishedAreSettled
    <3> QED
      BY <2>2, <3>1
  <2> HIDE DEF complete, settled, valid, rows, d, at
  <2>8. d.failing = {}
    BY <1>4, <1>5, <1>12, <1>14
  <2>9. \A name \in DOMAIN IndicatorRows : Cardinality(settled) >= IndicatorRows[name]
    <3> TAKE name \in DOMAIN IndicatorRows
    <3>1. ~(q.usable < IndicatorRows[name])
      BY <1>4, <1>12, <1>14
    <3> QED
      BY <1>2, <1>3, <1>9, <2>7, <3>1
  <2>10. \E row \in settled : AnalysisDay - row.day <= MaxAge
    <3>1. complete # {}
      BY <1>3, <2>1
    <3>2. PICK row \in complete : row.day = Latest(complete)
      BY <1>7, <3>1
    <3> QED
      BY <2>1, <2>7, <3>2
  <2> QED
    BY <1>8, <1>11, <1>14, <2>1, <2>2, <2>4, <2>6, <2>8, <2>9, <2>10
<1>15. ASSUME Sound(c) PROVE Clear(d, at) /\ ~d.repeated
  <2>1. /\ ~d.repeated /\ d.undated = 0 /\ d.basis # None /\ d.failing = {}
        /\ \A r, s \in rows : r.zone = s.zone /\ (r.day = s.day => r = s)
        /\ \A row \in rows : Coherent(row) /\ Admitted(row) /\ Observed(row)
        /\ \A name \in DOMAIN IndicatorRows : Cardinality(settled) >= IndicatorRows[name]
        /\ \E row \in settled : AnalysisDay - row.day <= MaxAge
    BY <1>11, <1>15
  <2>2. Conflicts(d.table) = {}
    BY <2>1 DEF Conflicts, On
  <2>3. valid = rows
    BY <2>1, <2>2 DEF Valid, Undisputed
  <2>4. q.invalid = 0
    BY <1>3, <1>6, <2>1, <2>2, <2>3
  <2>5. ProvenZone(valid) # None
    <3> HIDE DEF valid, rows
    <3> QED
      BY <1>5, <2>1, <2>3, OneZoneIsShared
  <2>6. complete = settled /\ In(d, at, "unknown") = {}
    <3>1. /\ complete = {row \in valid : Settled(row, at)}
          /\ In(d, at, "unknown") = {}
      <4>1. \A row \in valid : Observed(row) /\ Admitted(row)
        BY <2>1, <2>3
      <4> QED
        BY <1>1, <2>5, <4>1, FinishedAreSettled
    <3> QED
      BY <2>3, <3>1
  <2>7. SharedOrigin(valid) # "unknown"
    <3> HIDE DEF valid, rows
    <3> QED
      BY <1>5, <2>1, <2>3, OneOriginIsKnown
  <2> HIDE DEF complete, settled, rows
  <2>8. PICK row \in complete : AnalysisDay - row.day <= MaxAge
    BY <2>1, <2>6
  <2>9. AnalysisDay - Latest(complete) <= MaxAge
    <3>1. Latest(complete) \in Int /\ row.day <= Latest(complete) /\ row.day \in Int
      BY <1>5, <1>7, <1>13, <2>3, <2>8
    <3> QED
      BY <1>10, <2>8, <3>1
  <2>10. q.usable > 0
    BY <1>3, <2>8
  <2>11. q.valid > 0
    <3>1. IsFiniteSet(valid) /\ valid # {}
      BY <1>1, <1>13, <2>8, ValidRows
    <3>2. q.valid # 0
      BY <1>2, <3>1, FS_EmptySet
    <3> QED
      BY <1>3, <3>2
  <2>12. \A name \in DOMAIN IndicatorRows : q.indicators[name] = "available"
    <3> TAKE name \in DOMAIN IndicatorRows
    <3>1. ~(q.usable < IndicatorRows[name])
      BY <1>2, <1>3, <1>9, <2>1, <2>6
    <3> QED
      BY <1>3, <1>4, <2>1, <2>4, <2>10, <3>1
  <2> HIDE DEF valid, d, at
  <2> QED
    BY <1>2, <1>3, <1>12, <2>1, <2>2, <2>4, <2>5, <2>6, <2>7, <2>9, <2>10, <2>11, <2>12
<1> QED
  BY <1>14, <1>15

-----------------------------------------------------------------------------
(* The invariant.                                                           *)

(* A delivery of the run's feed, with what was said of it at some moment.   *)
Contents ==
    UNION {{[delivery |-> d, quality |-> Assess(d, t)] : d \in plan.feed} : t \in Nat}

RecordsOfRun ==
    [analyst : plan.analysts, snapshot : BOOLEAN, status : Statuses, sourced : BOOLEAN,
     withheld : BOOLEAN, fetched : Nat, content : SUBSET Contents]

TypesAreRight ==
    /\ now \in Nat /\ plan \in Plans
    /\ reading \in Contents \cup {None}
    /\ records \in Seq(RecordsOfRun)

PolicyIsFrozen ==
    IF policy = None THEN reading = None /\ records = <<>> /\ decision = None
    ELSE /\ policy.started \in Nat /\ policy.started <= now
         /\ policy.mode = Mode(AnalysisDay, HostDay(policy.started))

(* Rows are read during the run and recorded afterwards.                    *)
ReadingIsOfRun ==
    reading # None =>
        /\ "market" \in plan.analysts
        /\ policy.started <= reading.quality.observed /\ reading.quality.observed <= now

(* A snapshot holds the one delivery that it was made of, unless its vendor *)
(* had none.                                                                *)
InOrder(r) ==
    /\ r.snapshot => r.analyst = "market"
    /\ \/ r.content = {} /\ (r.snapshot => r.status \notin {"available", "partial"})
       \/ \E c \in Contents :
            /\ r.content = {c}
            /\ policy.started <= c.quality.observed /\ c.quality.observed <= r.fetched

RecordsAreInOrder == \A i \in DOMAIN records : InOrder(records[i])

DecisionFollows ==
    decision # None =>
        /\ reading = None /\ decision.status = Assessment
        /\ decision.rating = "directional" => Assessment = "ready"

IInv ==
    /\ TypesAreRight /\ PolicyIsFrozen /\ ReadingIsOfRun
    /\ RecordsAreInOrder /\ DecisionFollows

-----------------------------------------------------------------------------
(* The offline proof.                                                       *)

(* What a record keeps is a delivery and its assessment.                    *)
LEMMA ContentIsAssessed ==
  ASSUME plan \in Plans, NEW c \in Contents
  PROVE  /\ IsDelivery(c.delivery) /\ c.quality.observed \in Nat
         /\ c.quality = Assess(c.delivery, c.quality.observed)
         /\ c.quality = ProvenQuality(c.delivery, c.quality.observed)
<1>1. PICK d \in plan.feed, t \in Nat : c = [delivery |-> d, quality |-> Assess(d, t)]
  BY DEF Contents
<1>2. IsDelivery(d)
  BY PlansAreRight
<1>3. Assess(d, t) = ProvenQuality(d, t)
  BY <1>2, AssessmentIsProvable
<1>4. ProvenQuality(d, t).observed = t
  BY DEF ProvenQuality
<1> QED
  BY <1>1, <1>2, <1>3, <1>4

LEMMA ProofIsExactOnRecords ==
  ASSUME IInv
  PROVE  ProofIsExact
<1>1. plan \in Plans /\ records \in Seq(RecordsOfRun)
  BY DEF IInv, TypesAreRight
<1>2. \A r \in Recorded : r.content \subseteq Contents
  <2>1. \A i \in DOMAIN records : records[i] \in RecordsOfRun
    BY <1>1
  <2> QED
    BY <2>1 DEF Recorded, RecordsOfRun
<1>3. ASSUME NEW c \in Contents, NEW d \in Contents
      PROVE  LET q == c.quality
                 p == Assess([d.delivery EXCEPT !.undated = c.delivery.undated], q.observed)
             IN  Proves(d.delivery, q) <=>
                   /\ \A field \in DOMAIN q \ {"basis", "indicators"} : q[field] = p[field]
                   /\ ~d.delivery.repeated
                   /\ d.delivery.carried = None \/ q.basis \in {None, d.delivery.carried}
  <2> DEFINE at == c.quality.observed
  <2>1. /\ IsDelivery(c.delivery) /\ IsDelivery(d.delivery) /\ at \in Int
        /\ c.quality = Assess(c.delivery, at)
    BY <1>1, ContentIsAssessed
  <2> HIDE DEF at
  <2>2. Proves(d.delivery, Assess(c.delivery, at)) <=>
          /\ SameButBasis(Assess(c.delivery, at),
                          Assess([d.delivery EXCEPT !.undated = c.delivery.undated], at))
          /\ ~d.delivery.repeated
          /\ d.delivery.carried = None
               \/ Assess(c.delivery, at).basis \in {None, d.delivery.carried}
    BY <2>1, ProofAgrees
  <2>3. Proves(d.delivery, c.quality) <=>
          /\ SameButBasis(c.quality,
                          Assess([d.delivery EXCEPT !.undated = c.delivery.undated], at))
          /\ ~d.delivery.repeated
          /\ d.delivery.carried = None \/ c.quality.basis \in {None, d.delivery.carried}
    BY <2>1, <2>2
  <2> QED
    BY <2>3 DEF SameButBasis, at
<1> QED
  BY <1>2, <1>3 DEF ProofIsExact

-----------------------------------------------------------------------------
(* The checks.                                                              *)

Kinds == {"invalid", "unavailable", "missing", "partial", "unknown", "not_selected"}

(* A check is passed just if there are no findings.                         *)
LEMMA CheckIsPassed ==
  ASSUME NEW findings, findings \subseteq Kinds
  PROVE  Check(findings) = "passed" <=> findings = {}
<1>1. CASE findings = {}
  BY <1>1 DEF Check
<1>2. CASE findings # {}
  <2> DEFINE Worst(i) == Precedence[i] \in findings /\ \A j \in 1 .. i - 1 : Precedence[j] \notin findings
  <2>1. DOMAIN Precedence = 1 .. 6 /\ \A i \in 1 .. 6 : Precedence[i] # "passed"
    BY DEF Precedence
  <2>2. \A kind \in Kinds : \E i \in 1 .. 6 : Precedence[i] = kind
    <3>1. /\ Precedence[1] = "invalid" /\ Precedence[2] = "unavailable" /\ Precedence[3] = "missing"
          /\ Precedence[4] = "partial" /\ Precedence[5] = "unknown" /\ Precedence[6] = "not_selected"
      BY DEF Precedence
    <3> QED
      BY <3>1 DEF Kinds
  <2> DEFINE places == {i \in 1 .. 6 : Precedence[i] \in findings}
  <2>3. places \subseteq Nat /\ places # {}
    BY <1>2, <2>2
  <2>4. PICK i \in places : \A j \in places : i <= j
    BY <2>3, LeastNatural
  <2>5. \A j \in 1 .. i - 1 : Precedence[j] \notin findings
    BY <2>4
  <2>6. \E k \in DOMAIN Precedence : Worst(k)
    BY <2>1, <2>4, <2>5
  <2>7. Check(findings) = Precedence[CHOOSE k \in DOMAIN Precedence : Worst(k)]
    BY <1>2 DEF Check
  <2> HIDE DEF Worst
  <2>8. (CHOOSE k \in DOMAIN Precedence : Worst(k)) \in DOMAIN Precedence
    BY <2>6
  <2> QED
    BY <1>2, <2>1, <2>7, <2>8
<1> QED
  BY <1>1, <1>2

LEMMA ReceiptsAreClean ==
  ASSUME NEW rs, \A r \in rs : r.status \in Statuses
  PROVE  /\ Receipts(rs) \subseteq Kinds
         /\ Receipts(rs) = {} <=> \A r \in rs : r.status = "available"
<1>1. ASSUME NEW r \in rs
      PROVE  Receipt(r) \subseteq Kinds /\ (Receipt(r) = {} <=> r.status = "available")
  BY DEF Receipt, Finding, Kinds, Statuses
<1> QED
  BY <1>1 DEF Receipts

LEMMA RowKinds ==
  ASSUME NEW q
  PROVE  RowFindings(q) \subseteq Kinds /\ IndicatorFindings(q) \subseteq Kinds
BY DEF RowFindings, IndicatorFindings, Finding, Kinds

(* What the records of the run are.                                         *)
LEMMA RecordsAreTyped ==
  ASSUME TypesAreRight
  PROVE  \A r \in Recorded : /\ r.analyst \in plan.analysts /\ r.status \in Statuses
                             /\ r.sourced \in BOOLEAN /\ r.snapshot \in BOOLEAN
                             /\ r.withheld \in BOOLEAN
                             /\ r.fetched \in Nat /\ r.content \subseteq Contents
<1>1. \A i \in DOMAIN records : records[i] \in RecordsOfRun
  BY DEF TypesAreRight
<1> QED
  BY <1>1 DEF Recorded, RecordsOfRun

LEMMA TemporalIsClean ==
  ASSUME IInv, policy # None
  PROVE  /\ Temporal \subseteq Kinds
         /\ Temporal = {} <=> /\ HostDay(policy.started) = AnalysisDay
                              /\ \A r \in Recorded : UtcDay(r.fetched) <= AnalysisDay
<1>1. /\ policy.started \in Int /\ policy.mode = Mode(AnalysisDay, HostDay(policy.started))
      /\ \A r \in Recorded : r.fetched \in Int
  BY RecordsAreTyped DEF IInv, PolicyIsFrozen
<1>2. policy.mode = "same_host_date" <=> HostDay(policy.started) = AnalysisDay
  BY <1>1 DEF Mode
<1>3. AnalysisDay \in Int /\ \A r \in Recorded : UtcDay(r.fetched) \in Int
  BY <1>1, DaysFollowTheClock, CalendarsAreRight
<1>4. ASSUME NEW r \in Recorded
      PROVE  UtcDay(r.fetched) > AnalysisDay <=> ~(UtcDay(r.fetched) <= AnalysisDay)
  BY <1>3
<1>5. Temporal = {} <=> ~(\/ policy.mode # "same_host_date"
                         \/ \E r \in Recorded : UtcDay(r.fetched) > AnalysisDay)
  BY DEF Temporal, Finding
<1>6. Temporal \subseteq Kinds
  BY DEF Temporal, Finding, Kinds
<1> QED
  BY <1>2, <1>4, <1>5, <1>6

LEMMA SourcesAreClean ==
  ASSUME IInv, NEW analyst
  PROVE  /\ Sources(analyst) \subseteq Kinds
         /\ Sources(analyst) = {} <=>
              /\ By(analyst) # {}
              /\ \A r \in By(analyst) : r.status = "available" /\ r.sourced
<1>1. By(analyst) \subseteq Recorded
  BY DEF By
<1>2. \A r \in By(analyst) : r.status \in Statuses
  BY <1>1, RecordsAreTyped DEF IInv
<1>3. /\ Receipts(By(analyst)) \subseteq Kinds
      /\ Receipts(By(analyst)) = {} <=> \A r \in By(analyst) : r.status = "available"
  BY <1>2, ReceiptsAreClean
<1> DEFINE rs == By(analyst)
           receipts == Receipts(rs)
<1>4. Sources(analyst) =
        receipts \cup Finding("missing", rs = {})
          \cup Finding("unknown", rs # {} /\ ~\E r \in rs : r.status = "available" /\ r.sourced)
          \cup Finding("unknown", \E r \in rs : r.status = "available" /\ ~r.sourced)
  BY DEF Sources
<1> HIDE DEF rs, receipts
<1>5. Sources(analyst) \subseteq Kinds
  BY <1>3, <1>4 DEF Finding, Kinds, rs, receipts
<1>6. Sources(analyst) = {} <=>
        /\ receipts = {} /\ ~(rs = {})
        /\ ~(rs # {} /\ ~\E r \in rs : r.status = "available" /\ r.sourced)
        /\ ~\E r \in rs : r.status = "available" /\ ~r.sourced
  BY <1>4 DEF Finding
<1>7. receipts = {} <=> \A r \in rs : r.status = "available"
  BY <1>3 DEF rs, receipts
<1> QED
  BY <1>5, <1>6, <1>7 DEF rs

(* The table that a snapshot was made of proves what was said of it, if its *)
(* columns have different names.                                            *)
LEMMA OwnTableProves ==
  ASSUME NEW d, IsDelivery(d), NEW at \in Int
  PROVE  Proves(d, Assess(d, at)) <=> ~d.repeated
<1> DEFINE dd == [d EXCEPT !.undated = d.undated]
<1>1. /\ IsDelivery(dd) /\ dd.table = d.table /\ dd.undated = d.undated
      /\ dd.basis = d.basis /\ dd.failing = d.failing
  BY DEF IsDelivery
<1> HIDE DEF dd
<1>2. Assess(d, at) = ProvenQuality(d, at) /\ Assess(dd, at) = ProvenQuality(dd, at)
  BY <1>1, AssessmentIsProvable
<1>3. \A state : In(dd, at, state) = In(d, at, state)
  BY <1>1 DEF In
<1>4. ProvenQuality(d, at) = ProvenQuality(dd, at)
  BY <1>1, <1>3 DEF ProvenQuality
<1>5. SameButBasis(Assess(d, at), Assess([d EXCEPT !.undated = d.undated], at))
  BY <1>2, <1>4 DEF dd, SameButBasis
<1>6. ProvenQuality(d, at).basis = d.basis
  BY DEF ProvenQuality
<1>7. d.carried = None \/ d.basis \in {None, d.carried}
  BY DEF IsDelivery
<1>8. d.carried = None \/ Assess(d, at).basis \in {None, d.carried}
  BY <1>2, <1>6, <1>7
<1> QED
  BY <1>5, <1>8, ProofAgrees

(* An available snapshot that was recorded in time, of rows that it names,  *)
(* stands, if the names of their columns do.                                *)
LEMMA SnapshotStands ==
  ASSUME IInv, policy # None, NEW r \in Snapshots, r.status = "available", r.sourced,
         UtcDay(r.fetched) <= AnalysisDay
  PROVE  \E c \in Contents :
           /\ r.content = {c}
           /\ Assessed(r) = IF c.delivery.repeated THEN {} ELSE {c.quality}
<1>1. r \in Recorded /\ r.snapshot /\ plan \in Plans
  BY DEF Snapshots, By, IInv, TypesAreRight
<1>2. InOrder(r)
  BY <1>1 DEF Recorded, IInv, RecordsAreInOrder
<1>3. PICK c \in Contents : /\ r.content = {c}
                            /\ policy.started <= c.quality.observed
                            /\ c.quality.observed <= r.fetched
  BY <1>1, <1>2 DEF InOrder
<1> DEFINE q == c.quality
           at == c.quality.observed
<1>4. /\ IsDelivery(c.delivery) /\ at \in Nat
      /\ q = Assess(c.delivery, at) /\ q = ProvenQuality(c.delivery, at)
  BY <1>1, ContentIsAssessed
<1>5. WellFormed(q)
  <2> HIDE DEF at, q
  <2> QED
    BY <1>4, AssessmentIsWellFormed
<1>6. Timely(q, r)
  <2>1. r.fetched \in Nat
    BY <1>1, RecordsAreTyped DEF IInv
  <2>2. UtcDay(at) \in Int /\ UtcDay(r.fetched) \in Int /\ UtcDay(at) <= UtcDay(r.fetched)
    BY <1>3, <1>4, <2>1, DaysFollowTheClock
  <2>3. UtcDay(at) <= AnalysisDay
    BY <2>2, CalendarsAreRight
  <2> QED
    BY <1>3, <2>3 DEF Timely
<1>7. Proves(c.delivery, q) <=> ~c.delivery.repeated
  <2>1. at \in Int
    BY <1>4
  <2> HIDE DEF at, q
  <2>2. Proves(c.delivery, Assess(c.delivery, at)) <=> ~c.delivery.repeated
    BY <1>4, <2>1, OwnTableProves
  <2> QED
    BY <1>4, <2>2
<1>8. Stands(c, r) <=> ~c.delivery.repeated
  BY <1>5, <1>6, <1>7 DEF Stands
<1>9. Assessed(r) = IF c.delivery.repeated THEN {} ELSE {c.quality}
  BY <1>3, <1>8 DEF Assessed
<1> QED
  BY <1>3, <1>9

(* A record with an assessment that stands and has nothing against it.      *)
Spotless(r) ==
    /\ Assessed(r) # {}
    /\ UNION {RowFindings(q) : q \in Assessed(r)} = {}
    /\ UNION {IndicatorFindings(q) : q \in Assessed(r)} = {}

LEMMA FindingsOfOne ==
  ASSUME IInv, NEW r, NEW c \in Contents, r.content = {c},
         Assessed(r) = IF c.delivery.repeated THEN {} ELSE {c.quality}
  PROVE  /\ Spotless(r) <=> Sound(c)
         /\ c.quality.basis = c.delivery.basis
<1>1. plan \in Plans
  BY DEF IInv, TypesAreRight
<1> DEFINE at == c.quality.observed
<1>2. IsDelivery(c.delivery) /\ at \in Int /\ c.quality = ProvenQuality(c.delivery, at)
  BY <1>1, ContentIsAssessed
<1>3. RowFindings(c.quality) = {} /\ IndicatorFindings(c.quality) = {} <=> Clear(c.delivery, at)
  <2> HIDE DEF at
  <2> QED
    BY <1>2, NoFindings
<1>4. Clear(c.delivery, at) /\ ~c.delivery.repeated <=> Sound(c)
  BY <1>2, ClearIsSound
<1>5. c.quality.basis = c.delivery.basis
  <2> HIDE DEF at
  <2> QED
    BY <1>2 DEF ProvenQuality
<1>6. ~c.delivery.repeated =>
        /\ Assessed(r) # {}
        /\ UNION {RowFindings(q) : q \in Assessed(r)} = RowFindings(c.quality)
        /\ UNION {IndicatorFindings(q) : q \in Assessed(r)} = IndicatorFindings(c.quality)
  OBVIOUS
<1>7. c.delivery.repeated => Assessed(r) = {}
  OBVIOUS
<1> HIDE DEF at
<1> QED
  BY <1>3, <1>4, <1>5, <1>6, <1>7 DEF Spotless

(* Findings of the assessments are kinds.                                   *)
LEMMA AssessmentKinds ==
  /\ OfAssessments(RowFindings) \subseteq Kinds
  /\ OfAssessments(IndicatorFindings) \subseteq Kinds
<1>1. \A q : RowFindings(q) \subseteq Kinds /\ IndicatorFindings(q) \subseteq Kinds
  BY RowKinds
<1>2. "unknown" \in Kinds
  BY DEF Kinds
<1>3. OfAssessments(RowFindings) \subseteq Kinds
  BY <1>1, <1>2 DEF OfAssessments
<1>4. OfAssessments(IndicatorFindings) \subseteq Kinds
  BY <1>1, <1>2 DEF OfAssessments
<1> QED
  BY <1>3, <1>4

(* Every check that the run requires is passed, said of the checks alone.   *)
LEMMA ReadyIsPassed ==
  ASSUME IInv, policy # None
  PROVE  Assessment = "ready" <=>
           /\ Temporal = {} /\ Market = {} /\ Indicators = {}
           /\ \A analyst \in plan.analysts : Sources(analyst) = {}
<1>1. \A r \in Snapshots : r.status \in Statuses
  BY RecordsAreTyped DEF Snapshots, By, IInv
<1>2. Receipts(Snapshots) \subseteq Kinds
  BY <1>1, ReceiptsAreClean
<1>3. Market \subseteq Kinds
  <2>1. {"not_selected", "missing", "unknown"} \subseteq Kinds
    BY DEF Kinds
  <2> HIDE DEF Kinds
  <2> QED
    BY <1>2, <2>1, AssessmentKinds DEF Market, Finding
<1>4. Indicators \subseteq Kinds
  BY <1>3, AssessmentKinds DEF Indicators
<1>5. /\ Check(Temporal) = "passed" <=> Temporal = {}
      /\ Check(Market) = "passed" <=> Market = {}
      /\ Check(Indicators) = "passed" <=> Indicators = {}
      /\ \A analyst \in plan.analysts : Check(Sources(analyst)) = "passed" <=> Sources(analyst) = {}
  BY <1>3, <1>4, CheckIsPassed, TemporalIsClean, SourcesAreClean
<1>6. Checks = {"passed"} <=>
        /\ Check(Temporal) = "passed" /\ Check(Market) = "passed" /\ Check(Indicators) = "passed"
        /\ \A analyst \in plan.analysts : Check(Sources(analyst)) = "passed"
  BY DEF Checks
<1>7. Assessment = "ready" <=> Checks = {"passed"}
  BY DEF Assessment
<1> QED
  BY <1>5, <1>6, <1>7

(* If all records are clean and in time, the market's checks are about its  *)
(* rows and the bases of their prices.                                      *)
LEMMA MarketIsSound ==
  ASSUME IInv, policy # None, "market" \in plan.analysts, Snapshots # {},
         \A r \in Recorded : /\ r.status = "available" /\ r.sourced
                             /\ UtcDay(r.fetched) <= AnalysisDay
  PROVE  Market = {} /\ Indicators = {} <=>
           LET contents == UNION {r.content : r \in Snapshots}
           IN  /\ \A r \in Snapshots : \E c \in r.content : Sound(c)
               /\ \A c, d \in contents : c.delivery.basis = d.delivery.basis
<1> DEFINE contents == UNION {r.content : r \in Snapshots}
           AllSound == \A r \in Snapshots : \E c \in r.content : Sound(c)
           OneBasis == \A c, d \in contents : c.delivery.basis = d.delivery.basis
           Bare == OfAssessments(RowFindings) = {} /\ OfAssessments(IndicatorFindings) = {}
           Conflict == \E a, b \in Bases : a # b
<1>1. Snapshots \subseteq Recorded
  BY DEF Snapshots, By
<1>2. Receipts(Snapshots) = {}
  BY <1>1, ReceiptsAreClean DEF Statuses
<1>3. ASSUME NEW r \in Snapshots
      PROVE  \E c \in Contents :
               /\ r.content = {c}
               /\ Assessed(r) = IF c.delivery.repeated THEN {} ELSE {c.quality}
  BY <1>1, SnapshotStands
<1>4. Market = {} /\ Indicators = {} <=> Bare /\ ~Conflict
  <2>1. Market = Receipts(Snapshots) \cup OfAssessments(RowFindings)
                   \cup Finding("unknown", \E a, b \in Bases : a # b)
    BY DEF Market
  <2>2. Indicators = Market \cup OfAssessments(IndicatorFindings)
    BY DEF Indicators
  <2>3. Finding("unknown", \E a, b \in Bases : a # b) = {} <=> ~Conflict
    BY DEF Finding
  <2> DEFINE rowFindings == OfAssessments(RowFindings)
             indicatorFindings == OfAssessments(IndicatorFindings)
             basisFindings == Finding("unknown", \E a, b \in Bases : a # b)
  <2> HIDE DEF rowFindings, indicatorFindings, basisFindings, Conflict
  <2>4. Market = {} /\ Indicators = {} <=>
          rowFindings = {} /\ indicatorFindings = {} /\ basisFindings = {}
    BY <1>2, <2>1, <2>2 DEF rowFindings, indicatorFindings, basisFindings
  <2> QED
    BY <2>3, <2>4 DEF rowFindings, indicatorFindings, basisFindings
<1>5. Bare <=> AllSound
  <2>1. ASSUME NEW r \in Snapshots
        PROVE  Spotless(r) <=> \E c \in r.content : Sound(c)
    <3>1. PICK c \in Contents :
            /\ r.content = {c}
            /\ Assessed(r) = IF c.delivery.repeated THEN {} ELSE {c.quality}
      BY <1>3
    <3>2. (\E e \in r.content : Sound(e)) <=> Sound(c)
      BY <3>1
    <3>3. Spotless(r) <=> Sound(c)
      BY <3>1, FindingsOfOne
    <3> QED
      BY <3>2, <3>3
  <2>2. OfAssessments(RowFindings) = {} <=>
          \A r \in Snapshots : /\ Assessed(r) # {}
                               /\ UNION {RowFindings(q) : q \in Assessed(r)} = {}
    BY DEF OfAssessments
  <2>3. OfAssessments(IndicatorFindings) = {} <=>
          \A r \in Snapshots : /\ Assessed(r) # {}
                               /\ UNION {IndicatorFindings(q) : q \in Assessed(r)} = {}
    BY DEF OfAssessments
  <2> QED
    BY <2>1, <2>2, <2>3 DEF Spotless
<1>6. ASSUME AllSound PROVE ~Conflict <=> OneBasis
  <2>1. ASSUME NEW r \in Snapshots, NEW c \in r.content
        PROVE  /\ {q.basis : q \in Assessed(r)} = {c.delivery.basis}
               /\ c.delivery.basis # None
    <3>1. PICK e \in Contents :
            /\ r.content = {e}
            /\ Assessed(r) = IF e.delivery.repeated THEN {} ELSE {e.quality}
      BY <1>3
    <3>2. e = c /\ Sound(c)
      BY <1>6, <2>1, <3>1
    <3>3. c.quality.basis = c.delivery.basis
      BY <3>1, <3>2, FindingsOfOne
    <3>4. c.delivery.basis # None /\ ~c.delivery.repeated
      BY <3>2 DEF Sound
    <3> QED
      BY <3>1, <3>2, <3>3, <3>4
  <2>2. \A r \in Snapshots : r.content # {}
    BY <1>3
  <2>3. Bases = {c.delivery.basis : c \in contents}
    <3>1. \A basis \in Bases : \E c \in contents : basis = c.delivery.basis
      <4> TAKE basis \in Bases
      <4>1. PICK r \in Snapshots : basis \in {q.basis : q \in Assessed(r)}
        BY DEF Bases
      <4>2. PICK c \in r.content : TRUE
        BY <2>2
      <4>3. basis = c.delivery.basis /\ c \in contents
        BY <2>1, <4>1
      <4> QED
        BY <4>3
    <3>2. \A c \in contents : c.delivery.basis \in Bases
      <4> TAKE c \in contents
      <4>1. PICK r \in Snapshots : c \in r.content
        OBVIOUS
      <4>2. c.delivery.basis \in {q.basis : q \in Assessed(r)} /\ c.delivery.basis # None
        BY <2>1, <4>1
      <4> QED
        BY <4>2 DEF Bases
    <3> QED
      BY <3>1, <3>2
  <2> HIDE DEF contents
  <2> QED
    BY <2>3
<1> HIDE DEF Bare, Conflict, AllSound, OneBasis
<1>7. Market = {} /\ Indicators = {} <=> AllSound /\ OneBasis
  BY <1>4, <1>5, <1>6
<1> QED
  BY <1>7 DEF AllSound, OneBasis

LEMMA ReadyIsWarranted ==
  ASSUME IInv, policy # None
  PROVE  Assessment = "ready" <=> Warranted
<1> DEFINE Asked == \A analyst \in plan.analysts : By(analyst) # {}
           Plain == \A r \in Recorded : r.status = "available" /\ r.sourced
           InTime == \A r \in Recorded : UtcDay(r.fetched) <= AnalysisDay
           Today == HostDay(policy.started) = AnalysisDay
           contents == UNION {r.content : r \in Snapshots}
           RowsAreSound == /\ \A r \in Snapshots : \E c \in r.content : Sound(c)
                           /\ \A c, d \in contents : c.delivery.basis = d.delivery.basis
           Present == "market" \in plan.analysts /\ Snapshots # {}
<1>1. (\A analyst \in plan.analysts : Sources(analyst) = {}) <=> Asked /\ Plain
  <2>1. \A r \in Recorded : r.analyst \in plan.analysts /\ r \in By(r.analyst)
    BY RecordsAreTyped DEF IInv, By
  <2>2. \A analyst : By(analyst) \subseteq Recorded
    BY DEF By
  <2> QED
    BY <2>1, <2>2, SourcesAreClean
<1>2. Temporal = {} <=> Today /\ InTime
  BY TemporalIsClean
<1>3. ASSUME Market = {} PROVE Present
  BY <1>3 DEF Market
<1>4. ASSUME Present, Plain, InTime
      PROVE  Market = {} /\ Indicators = {} <=> RowsAreSound
  BY <1>4, MarketIsSound
<1>5. Warranted <=> Today /\ Present /\ Asked /\ Plain /\ InTime /\ RowsAreSound
  BY DEF Warranted
<1> HIDE DEF Asked, Plain, InTime, Today, RowsAreSound, Present
<1> QED
  BY <1>1, <1>2, <1>3, <1>4, <1>5, ReadyIsPassed

-----------------------------------------------------------------------------
(* The steps.                                                               *)

LEMMA InitIsRight == Init => IInv
<1> SUFFICES ASSUME Init PROVE IInv
  OBVIOUS
<1>1. now \in Nat
  BY PlansAreRight DEF Init
<1>2. records \in Seq(RecordsOfRun) /\ DOMAIN records = {}
  BY DEF Init
<1> QED
  BY <1>1, <1>2 DEF Init, IInv, TypesAreRight, PolicyIsFrozen, ReadingIsOfRun, RecordsAreInOrder,
                    DecisionFollows

LEMMA StartIsRight == IInv /\ Start => IInv'
<1> SUFFICES ASSUME IInv, Start PROVE IInv'
  OBVIOUS
<1> USE DEF IInv
<1>1. TypesAreRight'
  BY DEF Start, TypesAreRight, Contents, RecordsOfRun
<1>2. reading = None /\ records = <<>> /\ decision = None
  BY DEF Start, PolicyIsFrozen
<1>3. PolicyIsFrozen'
  <2>1. policy' = [started |-> now, mode |-> Mode(AnalysisDay, HostDay(now))]
    BY DEF Start
  <2>2. now' = now /\ now \in Nat /\ now <= now
    BY DEF Start, TypesAreRight
  <2>3. Mode(AnalysisDay, HostDay(now))' = Mode(AnalysisDay, HostDay(now))
    BY <2>2 DEF Mode, HostDay
  <2>4. /\ policy'.started = now' /\ policy'.mode = Mode(AnalysisDay, HostDay(now))
        /\ HostDay(policy'.started) = HostDay(now)
    BY <2>1, <2>2
  <2> QED
    BY <1>2, <2>2, <2>4 DEF PolicyIsFrozen, Start
<1>4. ReadingIsOfRun' /\ RecordsAreInOrder' /\ DecisionFollows'
  BY <1>2 DEF Start, ReadingIsOfRun, RecordsAreInOrder, DecisionFollows
<1> QED
  BY <1>1, <1>3, <1>4

LEMMA ReadRowsIsRight == IInv /\ ReadRows => IInv'
<1> SUFFICES ASSUME IInv, ReadRows PROVE IInv'
  OBVIOUS
<1>1. /\ policy # None /\ decision = None /\ "market" \in plan.analysts
      /\ UNCHANGED <<now, plan, policy, records, decision, report, reviews>>
  BY DEF ReadRows, Running
<1>2. PICK d \in plan.feed : reading' = [delivery |-> d, quality |-> Assess(d, now)]
  BY DEF ReadRows
<1>3. now \in Nat /\ plan \in Plans /\ records \in Seq(RecordsOfRun)
  BY DEF IInv, TypesAreRight
<1>4. Contents' = Contents /\ RecordsOfRun' = RecordsOfRun
  BY <1>1 DEF Contents, RecordsOfRun
<1>5. reading' \in Contents
  BY <1>2, <1>3 DEF Contents
<1>6. reading'.quality.observed = now
  <2>1. reading'.quality = Assess(d, now)
    BY <1>2
  <2>2. IsDelivery(d)
    BY <1>3, PlansAreRight
  <2>3. Assess(d, now) = ProvenQuality(d, now)
    BY <1>3, <2>2, AssessmentIsProvable
  <2> QED
    BY <2>1, <2>3 DEF ProvenQuality
<1>7. TypesAreRight'
  BY <1>1, <1>3, <1>4, <1>5 DEF TypesAreRight
<1>8. PolicyIsFrozen'
  BY <1>1 DEF IInv, PolicyIsFrozen
<1>9. policy.started \in Nat /\ policy.started <= now
  BY <1>1 DEF IInv, PolicyIsFrozen
<1>10. ReadingIsOfRun'
  BY <1>1, <1>3, <1>6, <1>9 DEF ReadingIsOfRun
<1>11. RecordsAreInOrder' /\ DecisionFollows'
  BY <1>1, <1>4 DEF IInv, RecordsAreInOrder, InOrder, DecisionFollows
<1> QED
  BY <1>7, <1>8, <1>10, <1>11 DEF IInv

(* A record that is in order is added.                                      *)
LEMMA RecordIsAdded ==
  ASSUME IInv, policy # None, decision = None, NEW r \in RecordsOfRun, InOrder(r),
         records' = Append(records, r), reading' \in {reading, None},
         UNCHANGED <<now, plan, policy, decision, report, reviews>>
  PROVE  IInv'
<1>1. now \in Nat /\ plan \in Plans /\ records \in Seq(RecordsOfRun) /\ reading \in Contents \cup {None}
  BY DEF IInv, TypesAreRight
<1>2. Contents' = Contents /\ RecordsOfRun' = RecordsOfRun
  BY DEF Contents, RecordsOfRun
<1>3. records' \in Seq(RecordsOfRun)
  BY <1>1
<1>4. \A i \in DOMAIN records' :
        (i \in DOMAIN records /\ records'[i] = records[i]) \/ records'[i] = r
  BY <1>1
<1>5. TypesAreRight'
  BY <1>1, <1>2, <1>3 DEF TypesAreRight
<1>6. PolicyIsFrozen'
  BY DEF IInv, PolicyIsFrozen
<1>7. ReadingIsOfRun' /\ DecisionFollows'
  BY DEF IInv, ReadingIsOfRun, DecisionFollows
<1>8. \A s : InOrder(s)' <=> InOrder(s)
  BY <1>2 DEF InOrder
<1>9. RecordsAreInOrder'
  BY <1>4, <1>8 DEF IInv, RecordsAreInOrder
<1> QED
  BY <1>5, <1>6, <1>7, <1>9 DEF IInv

LEMMA SaveSnapshotIsRight == IInv /\ SaveSnapshot => IInv'
<1> SUFFICES ASSUME IInv, SaveSnapshot PROVE IInv'
  OBVIOUS
<1>1. reading # None /\ reading' = None /\ UNCHANGED <<now, plan, policy, decision, report, reviews>>
  BY DEF SaveSnapshot
<1>2. PICK status \in plan.statuses :
        records' = Append(records,
          [analyst |-> "market", snapshot |-> TRUE, status |-> status, sourced |-> TRUE,
           withheld |-> FALSE, fetched |-> now, content |-> {reading}])
  BY DEF SaveSnapshot, Saved
<1> DEFINE r == [analyst |-> "market", snapshot |-> TRUE, status |-> status, sourced |-> TRUE,
                 withheld |-> FALSE, fetched |-> now, content |-> {reading}]
<1>3. policy # None /\ reading \in Contents /\ now \in Nat /\ plan \in Plans
  BY <1>1 DEF IInv, PolicyIsFrozen, TypesAreRight
<1>4. /\ "market" \in plan.analysts
      /\ policy.started <= reading.quality.observed /\ reading.quality.observed <= now
  BY <1>1 DEF IInv, ReadingIsOfRun
<1>5. status \in Statuses
  BY <1>3, PlansAreRight DEF Statuses
<1>6. r \in RecordsOfRun
  BY <1>3, <1>4, <1>5 DEF RecordsOfRun
<1>7. InOrder(r)
  BY <1>3, <1>4 DEF InOrder
<1>8. decision = None
  BY <1>1 DEF IInv, DecisionFollows
<1> HIDE DEF r
<1> QED
  BY <1>1, <1>2, <1>3, <1>6, <1>7, <1>8, RecordIsAdded DEF r

LEMMA SaveRecordIsRight ==
  ASSUME IInv, NEW analyst \in plan.analysts, SaveRecord(analyst)
  PROVE  IInv'
<1>1. /\ policy # None /\ decision = None
      /\ UNCHANGED <<now, plan, policy, reading, decision, report, reviews>>
  BY DEF SaveRecord, Running
<1>2. PICK status \in Statuses, snapshot \in BOOLEAN, sourced \in BOOLEAN, withheld \in BOOLEAN :
        /\ snapshot => analyst = "market" /\ status \notin {"available", "partial"}
        /\ records' = Append(records,
             [analyst |-> analyst, snapshot |-> snapshot, status |-> status, sourced |-> sourced,
              withheld |-> withheld, fetched |-> now, content |-> {}])
  BY DEF SaveRecord, Saved
<1> DEFINE r == [analyst |-> analyst, snapshot |-> snapshot, status |-> status,
                 sourced |-> sourced, withheld |-> withheld, fetched |-> now, content |-> {}]
<1>3. now \in Nat
  BY DEF IInv, TypesAreRight
<1>4. r \in RecordsOfRun
  BY <1>3 DEF RecordsOfRun
<1>5. InOrder(r)
  BY <1>2 DEF InOrder
<1> HIDE DEF r
<1> QED
  BY <1>1, <1>2, <1>4, <1>5, RecordIsAdded DEF r

LEMMA TickIsRight == IInv /\ Tick => IInv'
<1> SUFFICES ASSUME IInv, Tick PROVE IInv'
  OBVIOUS
<1>1. /\ now' = now + 1 /\ decision = None
      /\ UNCHANGED <<plan, policy, reading, records, decision, report, reviews>>
  BY DEF Tick
<1>2. /\ now \in Nat /\ plan \in Plans /\ records \in Seq(RecordsOfRun)
      /\ reading \in Contents \cup {None}
  BY DEF IInv, TypesAreRight
<1>3. Contents' = Contents /\ RecordsOfRun' = RecordsOfRun
  BY <1>1 DEF Contents, RecordsOfRun
<1>4. TypesAreRight'
  BY <1>1, <1>2, <1>3 DEF TypesAreRight
<1>5. PolicyIsFrozen'
  BY <1>1, <1>2 DEF IInv, PolicyIsFrozen
<1>6. ReadingIsOfRun'
  <2>1. ASSUME reading # None PROVE reading.quality.observed \in Nat
    BY <1>2, <2>1, ContentIsAssessed
  <2> QED
    BY <1>1, <1>2, <2>1 DEF IInv, ReadingIsOfRun
<1>7. RecordsAreInOrder' /\ DecisionFollows'
  BY <1>1, <1>3 DEF IInv, RecordsAreInOrder, InOrder, DecisionFollows
<1> QED
  BY <1>4, <1>5, <1>6, <1>7 DEF IInv

(* What is derived from records and policy alone stands while they do.      *)
LEMMA AssessmentStands ==
  ASSUME UNCHANGED <<plan, policy, records>>
  PROVE  Assessment' = Assessment
<1>1. Recorded' = Recorded
  BY DEF Recorded
<1>2. \A analyst : By(analyst)' = By(analyst)
  BY <1>1 DEF By
<1>3. Snapshots' = Snapshots
  BY <1>2 DEF Snapshots
<1>4. \A c, r : Stands(c, r)' = Stands(c, r)
  BY DEF Stands, Timely
<1>5. \A r : Assessed(r)' = Assessed(r)
  BY <1>4 DEF Assessed
<1>6. /\ OfAssessments(RowFindings)' = OfAssessments(RowFindings)
      /\ OfAssessments(IndicatorFindings)' = OfAssessments(IndicatorFindings)
  BY <1>3, <1>5 DEF OfAssessments
<1>7. Bases' = Bases
  BY <1>3, <1>5 DEF Bases
<1>8. Market' = Market
  BY <1>3, <1>6, <1>7 DEF Market
<1>9. Indicators' = Indicators
  BY <1>6, <1>8 DEF Indicators
<1>10. \A analyst : Sources(analyst)' = Sources(analyst)
  BY <1>2 DEF Sources
<1>11. Temporal' = Temporal
  BY <1>1 DEF Temporal
<1>12. Checks' = Checks
  BY <1>8, <1>9, <1>10, <1>11 DEF Checks
<1> QED
  BY <1>12 DEF Assessment

LEMMA DecideIsRight == IInv /\ Decide => IInv'
<1> SUFFICES ASSUME IInv, Decide PROVE IInv'
  OBVIOUS
<1>1. /\ policy # None /\ reading = None
      /\ UNCHANGED <<now, plan, policy, reading, records, report, reviews>>
  BY DEF Decide, Running
<1>2. PICK rating \in IF Assessment = "ready" THEN {"directional", "REVIEW"} ELSE {"REVIEW"} :
        decision' = [status |-> Assessment, rating |-> rating]
  BY DEF Decide
<1>3. Assessment' = Assessment
  BY <1>1, AssessmentStands
<1>4. Contents' = Contents /\ RecordsOfRun' = RecordsOfRun
  BY <1>1 DEF Contents, RecordsOfRun
<1>5. TypesAreRight'
  BY <1>1, <1>4 DEF IInv, TypesAreRight
<1>6. PolicyIsFrozen'
  BY <1>1 DEF IInv, PolicyIsFrozen
<1>7. ReadingIsOfRun' /\ RecordsAreInOrder'
  BY <1>1, <1>4 DEF IInv, ReadingIsOfRun, RecordsAreInOrder, InOrder
<1>8. DecisionFollows'
  <2>1. decision'.status = Assessment /\ (decision'.rating = "directional" => Assessment = "ready")
    BY <1>2
  <2> QED
    BY <1>1, <1>3, <2>1 DEF DecisionFollows
<1> QED
  BY <1>5, <1>6, <1>7, <1>8 DEF IInv

(* The report and its reviews are beside the gate.                          *)
LEMMA ReportIsBeside ==
  ASSUME IInv, UNCHANGED <<now, plan, policy, reading, records, decision>>
  PROVE  IInv'
<1>1. Assessment' = Assessment
  BY AssessmentStands
<1>2. Contents' = Contents /\ RecordsOfRun' = RecordsOfRun
  BY DEF Contents, RecordsOfRun
<1>3. TypesAreRight' /\ PolicyIsFrozen' /\ ReadingIsOfRun'
  BY <1>2 DEF IInv, TypesAreRight, PolicyIsFrozen, ReadingIsOfRun
<1>4. RecordsAreInOrder'
  BY <1>2 DEF IInv, RecordsAreInOrder, InOrder
<1>5. DecisionFollows'
  BY <1>1 DEF IInv, DecisionFollows
<1> QED
  BY <1>3, <1>4, <1>5 DEF IInv

LEMMA NextIsRight == IInv /\ [Next]_vars => IInv'
<1> SUFFICES ASSUME IInv, [Next]_vars PROVE IInv'
  OBVIOUS
<1>1. CASE Start
  BY <1>1, StartIsRight
<1>2. CASE ReadRows
  BY <1>2, ReadRowsIsRight
<1>3. CASE SaveSnapshot
  BY <1>3, SaveSnapshotIsRight
<1>4. CASE Tick
  BY <1>4, TickIsRight
<1>5. CASE Decide
  BY <1>5, DecideIsRight
<1>6. CASE FreezeReport
  BY <1>6, ReportIsBeside DEF FreezeReport
<1>7. CASE Review
  BY <1>7, ReportIsBeside DEF Review
<1>8. CASE \E analyst \in plan.analysts : SaveRecord(analyst)
  BY <1>8, SaveRecordIsRight
<1>9. CASE UNCHANGED vars
  BY <1>9, ReportIsBeside DEF vars
<1> QED
  BY <1>1, <1>2, <1>3, <1>4, <1>5, <1>6, <1>7, <1>8, <1>9 DEF Next

-----------------------------------------------------------------------------
(* Reviewed numbers.                                                        *)

(* What a review reads: some rows, whose cells are literals or no numbers.  *)
IsTable(t) ==
    /\ t.present \in BOOLEAN /\ (~t.present => t.rows = {})
    /\ IsFiniteSet(t.rows)
    /\ \A row \in t.rows :
         /\ row.date \in Int /\ DOMAIN row.cells = t.fields
         /\ \A field \in t.fields :
              /\ row.cells[field].numeric \in BOOLEAN
              /\ row.cells[field].numeric => IsLiteral(row.cells[field].literal)

(* Every table that a selector may name is one.                             *)
LEMMA TablesOfRows ==
  ASSUME NEW table, NEW fields, NEW repeated, IsFiniteSet(BagToSet(table)),
         \A row \in BagToSet(table) :
            /\ row.day \in Int /\ table[row] \in Nat /\ row.values \in DOMAIN Price
  PROVE  IsTable(TableOf(table, fields, repeated))
<1> DEFINE all == BagToSet(table)
           Cells(row) == [f \in fields |-> IF f = "Date" THEN [numeric |-> FALSE]
                                                         ELSE Price[row.values]]
           Of == [row \in all |-> {[date |-> row.day, row |-> row, copy |-> copy,
                                    cells |-> Cells(row)] : copy \in 1 .. table[row]}]
           sets == {Of[row] : row \in all}
           t == TableOf(table, fields, repeated)
<1>1. t.present = TRUE /\ t.fields = fields /\ t.rows = UNION sets
  BY DEF TableOf
<1>2. \A row \in all : IsFiniteSet(Of[row])
  <2> TAKE row \in all
  <2> DEFINE copies == 1 .. table[row]
             Make == [copy \in copies |-> [date |-> row.day, row |-> row, copy |-> copy,
                                           cells |-> Cells(row)]]
  <2>1. IsFiniteSet(copies)
    BY FS_Interval
  <2>2. Make \in Surjection(copies, Of[row])
    BY DEF Surjection
  <2> HIDE DEF copies, Make, Of
  <2> QED
    BY <2>1, <2>2, FS_Surjection
<1>3. IsFiniteSet(sets)
  <2>1. Of \in Surjection(all, sets)
    BY DEF Surjection
  <2> HIDE DEF Of, sets
  <2> QED
    BY <2>1, FS_Surjection
<1>4. IsFiniteSet(UNION sets)
  <2>1. \A set \in sets : IsFiniteSet(set)
    BY <1>2
  <2> HIDE DEF sets
  <2> QED
    BY <1>3, <2>1, FS_UNION
<1>5. ASSUME NEW row \in UNION sets
      PROVE  \E r \in all : row.cells = Cells(r) /\ row.date = r.day
  <2>1. PICK r \in all : row \in Of[r]
    <3> HIDE DEF Of
    <3> QED
      OBVIOUS
  <2>2. PICK copy \in 1 .. table[r] :
          row = [date |-> r.day, row |-> r, copy |-> copy, cells |-> Cells(r)]
    <3> HIDE DEF Cells
    <3> QED
      BY <2>1
  <2> HIDE DEF Cells
  <2> QED
    BY <2>2
<1>6. ASSUME NEW r \in all, NEW field \in fields
      PROVE  /\ DOMAIN Cells(r) = fields
             /\ Cells(r)[field].numeric \in BOOLEAN
             /\ Cells(r)[field].numeric => IsLiteral(Cells(r)[field].literal)
  <2>1. DOMAIN Cells(r) = fields
    OBVIOUS
  <2>2. CASE field = "Date"
    BY <2>1, <2>2
  <2>3. CASE field # "Date"
    <3>1. Cells(r)[field] = Price[r.values] /\ r.values \in DOMAIN Price
      BY <2>3
    <3> HIDE DEF Cells
    <3> QED
      BY <2>1, <3>1, PlansAreRight
  <2> QED
    BY <2>2, <2>3
<1>7. \A r \in all : DOMAIN Cells(r) = fields
  OBVIOUS
<1> HIDE DEF Cells, sets, all, t
<1>8. ASSUME NEW row \in t.rows, NEW field \in t.fields
      PROVE  /\ row.cells[field].numeric \in BOOLEAN
             /\ row.cells[field].numeric => IsLiteral(row.cells[field].literal)
  <2>1. PICK r \in all : row.cells = Cells(r)
    BY <1>1, <1>5
  <2> QED
    BY <1>1, <1>6, <2>1
<1>9. ASSUME NEW row \in t.rows PROVE row.date \in Int /\ DOMAIN row.cells = t.fields
  BY <1>1, <1>5, <1>7 DEF all
<1>10. t.present \in BOOLEAN /\ ~(~t.present) /\ IsFiniteSet(t.rows)
  BY <1>1, <1>4
<1>11. IsTable(t)
  BY <1>8, <1>9, <1>10 DEF IsTable
<1> QED
  BY <1>11 DEF t

LEMMA TablesOfContents ==
  ASSUME plan \in Plans, NEW c \in Contents, NEW path
  PROVE  IsTable(TableAt(c, path))
<1> DEFINE table == c.delivery.table
           newest == {row \in Completed(c) : row.day = Latest(Completed(c))}
<1>1. IsDelivery(c.delivery)
  BY ContentIsAssessed
<1>2. /\ IsFiniteSet(BagToSet(table))
      /\ \A row \in BagToSet(table) :
           /\ row.day \in Int /\ table[row] \in Nat /\ row.values \in DOMAIN Price
  BY <1>1 DEF IsDelivery, IsABag, BagToSet
<1>3. newest \in SUBSET BagToSet(table)
  BY <1>1, ValidRows DEF Completed
<1>4. IsFiniteSet(newest) /\ BagToSet(SetToBag(newest)) = newest
  <2> HIDE DEF newest, table
  <2>1. IsFiniteSet(newest)
    BY <1>2, <1>3, FS_Subset
  <2> QED
    BY <2>1 DEF BagToSet, SetToBag
<1>5. \A row \in newest :
        /\ row.day \in Int /\ SetToBag(newest)[row] = 1 /\ row.values \in DOMAIN Price
  <2> HIDE DEF newest
  <2> QED
    BY <1>2, <1>3 DEF SetToBag
<1> DEFINE repeated == c.delivery.repeated
<1>6. TableAt(c, path) \in
        {TableOf(table, Prices, repeated), TableOf(table, {"Date", "Close"}, FALSE),
         TableOf(SetToBag(newest), Prices, repeated), NoTable}
  BY DEF TableAt
<1>7. IsTable(TableOf(table, Prices, repeated)) /\ IsTable(TableOf(table, {"Date", "Close"}, FALSE))
  BY <1>2, TablesOfRows
<1>8. IsTable(TableOf(SetToBag(newest), Prices, repeated))
  <2> HIDE DEF newest
  <2> QED
    BY <1>4, <1>5, TablesOfRows
<1>9. IsTable(NoTable)
  BY FS_EmptySet DEF IsTable, NoTable
<1> QED
  BY <1>6, <1>7, <1>8, <1>9

(* Rows have different dates exactly if there are as many dates as rows.    *)
LEMMA DatesAreCounted ==
  ASSUME NEW rows, IsFiniteSet(rows)
  PROVE  Cardinality({row.date : row \in rows}) = Cardinality(rows) <=>
             \A r, s \in rows : r.date = s.date => r = s
<1> DEFINE dates == {row.date : row \in rows}
           f == [row \in rows |-> row.date]
<1>1. f \in Surjection(rows, dates)
  BY DEF Surjection
<1>2. Cardinality(dates) = Cardinality(rows) <=> f \in Injection(rows, dates)
  <2> HIDE DEF f, dates
  <2> QED
    BY <1>1, FS_Surjection
<1>3. f \in Injection(rows, dates) <=> \A r, s \in rows : r.date = s.date => r = s
  BY DEF Injection, IsInjective
<1> QED
  BY <1>2, <1>3

(* A cell is found exactly if no column's name is repeated and one row has  *)
(* the date and a number there that can be compared.                        *)
LEMMA CellsAreFound ==
  ASSUME NEW t, IsTable(t), NEW selector
  PROVE  LET cell == Cell(t, selector)
             named == {row \in t.rows : row.date = selector.date}
             Here(row) == /\ selector.field \in DOMAIN row.cells
                          /\ row.cells[selector.field].numeric
                          /\ Fits(row.cells[selector.field].literal)
         IN  /\ cell.found \in BOOLEAN
             /\ cell.found <=>
                  /\ ~t.repeated
                  /\ Cardinality({row.date : row \in t.rows}) = Cardinality(t.rows)
                  /\ \E row \in named : Here(row)
             /\ cell.found =>
                  \A row \in named : /\ Here(row) /\ IsLiteral(cell.literal)
                                     /\ cell.literal = row.cells[selector.field].literal
             /\ ~cell.found => cell.reason \in
                  {"table_missing", "table_ambiguous", "row_ambiguous", "row_missing",
                   "field_missing", "field_not_numeric", "number_unsupported"}
<1> DEFINE cell == Cell(t, selector)
           named == {row \in t.rows : row.date = selector.date}
           chosen == CHOOSE row \in named : TRUE
           Here(row) == /\ selector.field \in DOMAIN row.cells
                        /\ row.cells[selector.field].numeric
                        /\ Fits(row.cells[selector.field].literal)
<1>1. cell = IF ~t.present THEN Missing("table_missing")
             ELSE IF t.repeated THEN Missing("table_ambiguous")
             ELSE IF AmbiguousRows(t) THEN Missing("row_ambiguous")
             ELSE IF named = {} \/ selector.date \notin Int THEN Missing("row_missing")
             ELSE IF selector.field \notin t.fields THEN Missing("field_missing")
             ELSE IF ~chosen.cells[selector.field].numeric THEN Missing("field_not_numeric")
             ELSE IF ~Fits(chosen.cells[selector.field].literal) THEN Missing("number_unsupported")
             ELSE Found(chosen.cells[selector.field].literal)
  BY DEF Cell
<1>2. Cardinality({row.date : row \in t.rows}) = Cardinality(t.rows) <=> ~AmbiguousRows(t)
  <2>1. IsFiniteSet(t.rows)
    BY DEF IsTable
  <2> QED
    BY <2>1, DatesAreCounted DEF AmbiguousRows
<1>3. ~AmbiguousRows(t) => \A row \in named : row = chosen
  BY DEF AmbiguousRows
<1>4. named # {} => chosen \in named
  OBVIOUS
<1>5. \A row \in named : row \in t.rows /\ DOMAIN row.cells = t.fields
  BY DEF IsTable
<1>6. selector.field \in t.fields => \A row \in named :
        /\ row.cells[selector.field].numeric \in BOOLEAN
        /\ row.cells[selector.field].numeric => IsLiteral(row.cells[selector.field].literal)
  BY DEF IsTable
<1>7. (~t.present => named = {}) /\ (named # {} => selector.date \in Int)
  BY DEF IsTable
<1> HIDE DEF named, chosen, cell
<1>8. /\ cell.found \in BOOLEAN
      /\ cell.found <=> /\ t.present /\ ~t.repeated /\ ~AmbiguousRows(t)
                        /\ named # {} /\ Here(chosen)
      /\ cell.found => cell.literal = chosen.cells[selector.field].literal
      /\ ~cell.found => cell.reason \in
           {"table_missing", "table_ambiguous", "row_ambiguous", "row_missing",
            "field_missing", "field_not_numeric", "number_unsupported"}
  BY <1>1, <1>4, <1>5, <1>6, <1>7 DEF Missing, Found
<1>9. cell.found <=> ~t.repeated /\ ~AmbiguousRows(t) /\ \E row \in named : Here(row)
  BY <1>3, <1>4, <1>7, <1>8 DEF IsTable
<1>10. cell.found =>
        \A row \in named : /\ Here(row) /\ IsLiteral(cell.literal)
                           /\ cell.literal = row.cells[selector.field].literal
  <2> SUFFICES ASSUME cell.found, NEW row \in named
               PROVE  /\ Here(row) /\ IsLiteral(cell.literal)
                      /\ cell.literal = row.cells[selector.field].literal
    OBVIOUS
  <2>1. row = chosen
    BY <1>3, <1>8
  <2>2. Here(row) /\ cell.literal = row.cells[selector.field].literal
    BY <1>8, <2>1
  <2> QED
    BY <1>5, <1>6, <2>2
<1> QED
  BY <1>2, <1>8, <1>9, <1>10 DEF cell, named
(* What is said of a passage decides nothing but a difference or a gap.     *)
LEMMA MatchesAreDerived ==
  ASSUME NEW request, NEW cell, NEW contexts, cell.found \in BOOLEAN
  PROVE  Derive(request, cell, contexts).status = "match" <=>
           /\ "mismatch" \notin contexts /\ "missing" \notin contexts
           /\ cell.found /\ NumericSelection(request.selection) /\ Fits(request.literal)
           /\ EqualDecimal(DecimalParts(request.literal), RoundSaved(cell.literal, request.places))
<1> DEFINE supported == NumericSelection(request.selection)
           comparable == cell.found /\ supported /\ Fits(request.literal)
           equal == EqualDecimal(DecimalParts(request.literal),
                                 RoundSaved(cell.literal, request.places))
<1>1. Derive(request, cell, contexts) =
        IF "mismatch" \in contexts THEN Result("mismatch", "context_mismatch")
        ELSE IF comparable /\ ~equal THEN Result("mismatch", "value_mismatch")
        ELSE IF "missing" \in contexts THEN Result("missing", "context_missing")
        ELSE IF ~cell.found /\ cell.reason # "number_unsupported"
        THEN Result("missing", cell.reason)
        ELSE IF ~supported THEN Result("manual_inference", "selection_unsupported")
        ELSE IF ~comparable THEN Result("manual_inference", "number_unsupported")
        ELSE Result("match", "value_match")
  BY DEF Derive
<1> HIDE DEF supported, equal
<1> QED
  BY <1>1 DEF Result, supported, equal

(* Nothing bound is missing or different exactly if it is what the record   *)
(* says, and stands by itself.                                              *)
LEMMA ContextsAreRead ==
  ASSUME NEW request, IsRequest(request), NEW cell, cell.found
  PROVE  "mismatch" \notin Contexts(request, cell) /\ "missing" \notin Contexts(request, cell) <=>
           \A key \in DOMAIN request.bindings :
             LET binding == request.bindings[key]
             IN  binding.given => /\ SupportedContext(binding)
                                  /\ binding.text \in ExpectedContext(request, TRUE)[key]
<1> DEFINE Read(key) == LET binding == request.bindings[key]
                        IN  binding.given => /\ SupportedContext(binding)
                                             /\ binding.text \in ExpectedContext(request, TRUE)[key]
           Result1(key) == ContextResult(request.bindings[key], ExpectedContext(request, TRUE)[key])
<1>1. DateKnown(cell) = TRUE
  BY DEF DateKnown
<1>2. Contexts(request, cell) = {Result1(key) : key \in DOMAIN request.bindings}
  BY <1>1 DEF Contexts
<1>3. ASSUME NEW key \in DOMAIN request.bindings
      PROVE  Result1(key) \notin {"mismatch", "missing"} <=> Read(key)
  <2>1. request.bindings[key].given \in BOOLEAN
    BY DEF IsRequest
  <2> QED
    BY <2>1 DEF ContextResult
<1> HIDE DEF Read, Result1
<1> QED
  BY <1>2, <1>3 DEF Read

-----------------------------------------------------------------------------
(* Every review is of a record of the run, and says what follows from it.   *)

Results ==
    [status : {"match", "mismatch", "missing", "manual_inference"},
     reason : {"value_match", "value_mismatch", "context_mismatch", "context_missing",
               "selection_unsupported", "number_unsupported", "source_withheld",
               "source_unavailable", "table_missing", "table_ambiguous", "row_ambiguous",
               "row_missing", "field_missing", "field_not_numeric"}]

ReviewsAreTyped ==
    reviews \in Seq([request : UNION {Requests[question] : question \in DOMAIN Requests},
                     result : Results])

ReviewsFollow ==
    \A i \in DOMAIN reviews :
        LET request == reviews[i].request
            cell == Selected(records[request.record], request.selector)
        IN  /\ request.record \in DOMAIN records /\ request.places \in 0 .. MaxPlaces
            /\ reviews[i].result = Derive(request, cell, Contexts(request, cell))

RInv == ReviewsAreTyped /\ ReviewsFollow

(* A record that can be selected from holds one delivery, or none.          *)
LEMMA SelectedCells ==
  ASSUME IInv, NEW r \in Recorded, NEW selector
  PROVE  LET cell == Selected(r, selector)
             rows == UNION {TableAt(c, selector.path).rows : c \in r.content}
             named == {row \in rows : row.date = selector.date}
             Here(row) == /\ selector.field \in DOMAIN row.cells
                          /\ row.cells[selector.field].numeric
                          /\ Fits(row.cells[selector.field].literal)
         IN  /\ cell.found \in BOOLEAN
             /\ cell.found <=>
                  /\ r.status \in {"available", "partial"} /\ ~r.withheld
                  /\ \A c \in r.content : ~TableAt(c, selector.path).repeated
                  /\ Cardinality({row.date : row \in rows}) = Cardinality(rows)
                  /\ \E row \in named : Here(row)
             /\ cell.found =>
                  \A row \in named : /\ Here(row) /\ IsLiteral(cell.literal)
                                     /\ cell.literal = row.cells[selector.field].literal
             /\ ~cell.found => cell.reason \in
                  {"source_withheld", "source_unavailable", "table_missing", "table_ambiguous",
                   "row_ambiguous", "row_missing", "field_missing", "field_not_numeric",
                   "number_unsupported"}
<1> DEFINE cell == Selected(r, selector)
           rows == UNION {TableAt(c, selector.path).rows : c \in r.content}
           named == {row \in rows : row.date = selector.date}
           Here(row) == /\ selector.field \in DOMAIN row.cells
                        /\ row.cells[selector.field].numeric
                        /\ Fits(row.cells[selector.field].literal)
<1>1. plan \in Plans /\ r.status \in Statuses /\ InOrder(r)
  BY RecordsAreTyped DEF IInv, TypesAreRight, RecordsAreInOrder, Recorded
<1>2. CASE r.status \notin {"available", "partial"} \/ r.withheld
  <2>1. cell \in {Missing("source_withheld"), Missing("source_unavailable")}
    BY <1>2 DEF Selected
  <2> HIDE DEF cell, rows, named
  <2>2. cell.found = FALSE /\ cell.reason \in {"source_withheld", "source_unavailable"}
    BY <2>1 DEF Missing
  <2> QED
    BY <1>2, <2>2 DEF cell, rows, named
<1>3. CASE r.status \in {"available", "partial"} /\ ~r.withheld /\ r.content = {}
  <2>1. cell = Missing("table_missing") /\ rows = {}
    BY <1>3 DEF Selected
  <2>2. named = {}
    BY <2>1
  <2> HIDE DEF cell, rows, named
  <2>3. cell.found = FALSE /\ cell.reason = "table_missing"
    BY <2>1 DEF Missing
  <2> QED
    BY <2>2, <2>3 DEF cell, rows, named
<1>4. CASE r.status \in {"available", "partial"} /\ ~r.withheld /\ r.content # {}
  <2>1. PICK c \in Contents : r.content = {c}
    BY <1>1, <1>4 DEF InOrder
  <2> DEFINE t == TableAt(c, selector.path)
  <2>2. rows = t.rows /\ (t.repeated <=> \E d \in r.content : TableAt(d, selector.path).repeated)
    BY <2>1
  <2>3. cell = Cell(t, selector)
    <3>1. (CHOOSE d \in r.content : TRUE) = c
      BY <2>1
    <3> QED
      BY <1>4, <3>1 DEF Selected
  <2>4. IsTable(t)
    BY <1>1, TablesOfContents
  <2>5. named = {row \in t.rows : row.date = selector.date}
    BY <2>2
  <2> HIDE DEF cell, rows, named, t
  <2>6. /\ cell.found \in BOOLEAN
        /\ cell.found <=>
             /\ ~t.repeated
             /\ Cardinality({row.date : row \in rows}) = Cardinality(rows)
             /\ \E row \in named : Here(row)
        /\ cell.found =>
             \A row \in named : /\ Here(row) /\ IsLiteral(cell.literal)
                                /\ cell.literal = row.cells[selector.field].literal
        /\ ~cell.found => cell.reason \in
             {"table_missing", "table_ambiguous", "row_ambiguous", "row_missing",
              "field_missing", "field_not_numeric", "number_unsupported"}
    BY <2>2, <2>3, <2>4, <2>5, CellsAreFound
  <2> QED
    BY <1>4, <2>2, <2>6 DEF cell, rows, named
<1> QED
  BY <1>2, <1>3, <1>4

(* A review has one of the results, and reviewing keeps the others.         *)
LEMMA DerivedResults ==
  ASSUME NEW request, NEW cell, NEW contexts, cell.found \in BOOLEAN,
         ~cell.found => cell.reason \in {"source_withheld", "source_unavailable",
                            "table_missing", "table_ambiguous", "row_ambiguous", "row_missing",
                            "field_missing", "field_not_numeric", "number_unsupported"}
  PROVE  Derive(request, cell, contexts) \in Results
<1> DEFINE comparable == cell.found /\ NumericSelection(request.selection) /\ Fits(request.literal)
<1>1. \/ Derive(request, cell, contexts) \in
           {Result("mismatch", "context_mismatch"), Result("mismatch", "value_mismatch"),
            Result("missing", "context_missing"), Result("match", "value_match"),
            Result("manual_inference", "selection_unsupported"),
            Result("manual_inference", "number_unsupported")}
      \/ ~cell.found /\ Derive(request, cell, contexts) = Result("missing", cell.reason)
  BY DEF Derive
<1> QED
  BY <1>1 DEF Result, Results

LEMMA ReviewIsRight == IInv /\ RInv /\ Review => RInv'
<1> SUFFICES ASSUME IInv, RInv, Review PROVE RInv'
  OBVIOUS
<1>1. UNCHANGED <<now, plan, policy, reading, records, decision, report>>
  BY DEF Review
<1>2. PICK request \in Requests[plan.questions] :
        /\ request.record \in DOMAIN records /\ request.places \in 0 .. MaxPlaces
        /\ LET cell == Selected(records[request.record], request.selector)
           IN  reviews' = Append(reviews, [request |-> request,
                   result |-> Derive(request, cell, Contexts(request, cell))])
  BY DEF Review, Accepted
<1> DEFINE cell == Selected(records[request.record], request.selector)
           result == Derive(request, cell, Contexts(request, cell))
           review == [request |-> request, result |-> result]
           Reviews == [request : UNION {Requests[question] : question \in DOMAIN Requests},
                       result : Results]
<1>3. reviews' = Append(reviews, review)
  BY <1>2
<1>4. request \in UNION {Requests[question] : question \in DOMAIN Requests}
  BY PlansAreRight DEF IInv, TypesAreRight
<1>5. result \in Results
  <2>1. records[request.record] \in Recorded
    BY <1>2 DEF Recorded
  <2> HIDE DEF cell
  <2>2. /\ cell.found \in BOOLEAN
        /\ ~cell.found => cell.reason \in {"source_withheld", "source_unavailable",
                              "table_missing", "table_ambiguous", "row_ambiguous", "row_missing",
                              "field_missing", "field_not_numeric", "number_unsupported"}
    BY <2>1, SelectedCells DEF cell
  <2> QED
    BY <2>2, DerivedResults
<1>6. review \in Reviews /\ reviews \in Seq(Reviews)
  <2> HIDE DEF result
  <2> QED
    BY <1>4, <1>5 DEF RInv, ReviewsAreTyped
<1>7. review.request = request /\ review.result = result
  OBVIOUS
<1> HIDE DEF review, Reviews
<1>8. /\ reviews' \in Seq(Reviews)
      /\ \A i \in DOMAIN reviews' :
           (i \in DOMAIN reviews /\ reviews'[i] = reviews[i]) \/ reviews'[i] = review
  BY <1>3, <1>6
<1>9. ReviewsAreTyped'
  BY <1>8 DEF ReviewsAreTyped, Reviews
<1>10. ReviewsFollow'
  BY <1>1, <1>2, <1>7, <1>8 DEF RInv, ReviewsFollow
<1> QED
  BY <1>9, <1>10 DEF RInv

(* Records are only added, so that what a review rests on stays.            *)
LEMMA ReviewsStand ==
  ASSUME RInv, TypesAreRight, UNCHANGED reviews,
         \/ UNCHANGED records
         \/ \E r \in RecordsOfRun : records' = Append(records, r)
  PROVE  RInv'
<1>1. \A i \in DOMAIN records : i \in DOMAIN records' /\ records'[i] = records[i]
  <2>1. CASE UNCHANGED records
    BY <2>1
  <2>2. CASE \E r \in RecordsOfRun : records' = Append(records, r)
    <3>1. PICK r \in RecordsOfRun : records' = Append(records, r)
      BY <2>2
    <3>2. records \in Seq(RecordsOfRun)
      BY DEF TypesAreRight
    <3> HIDE DEF RecordsOfRun
    <3> QED
      BY <3>1, <3>2
  <2> QED
    BY <2>1, <2>2
<1>2. ReviewsAreTyped'
  BY DEF RInv, ReviewsAreTyped
<1>3. ReviewsFollow'
  BY <1>1 DEF RInv, ReviewsFollow
<1> QED
  BY <1>2, <1>3 DEF RInv

LEMMA ReviewsStay == IInv /\ RInv /\ [Next]_vars => RInv'
<1> SUFFICES ASSUME IInv, RInv, [Next]_vars PROVE RInv'
  OBVIOUS
<1>1. TypesAreRight
  BY DEF IInv
<1>2. CASE Start
  BY <1>1, <1>2, ReviewsStand DEF Start
<1>3. CASE ReadRows
  BY <1>1, <1>3, ReviewsStand DEF ReadRows
<1>4. CASE SaveSnapshot
  <2>1. PICK status \in plan.statuses :
          records' = Append(records,
            [analyst |-> "market", snapshot |-> TRUE, status |-> status, sourced |-> TRUE,
             withheld |-> FALSE, fetched |-> now, content |-> {reading}])
    BY <1>4 DEF SaveSnapshot, Saved
  <2>2. /\ reading # None /\ "market" \in plan.analysts /\ reading \in Contents /\ now \in Nat
        /\ plan \in Plans
    BY <1>4 DEF SaveSnapshot, IInv, ReadingIsOfRun, TypesAreRight
  <2>3. status \in Statuses
    BY <2>2, PlansAreRight DEF Statuses
  <2>4. [analyst |-> "market", snapshot |-> TRUE, status |-> status, sourced |-> TRUE,
         withheld |-> FALSE, fetched |-> now, content |-> {reading}] \in RecordsOfRun
    BY <2>2, <2>3 DEF RecordsOfRun
  <2>5. UNCHANGED reviews
    BY <1>4 DEF SaveSnapshot
  <2> QED
    BY <1>1, <2>1, <2>4, <2>5, ReviewsStand
<1>5. CASE Tick
  BY <1>1, <1>5, ReviewsStand DEF Tick
<1>6. CASE Decide
  BY <1>1, <1>6, ReviewsStand DEF Decide
<1>7. CASE FreezeReport
  BY <1>1, <1>7, ReviewsStand DEF FreezeReport
<1>8. CASE Review
  BY <1>8, ReviewIsRight
<1>9. ASSUME NEW analyst \in plan.analysts, SaveRecord(analyst) PROVE RInv'
  <2>1. PICK status \in Statuses, snapshot \in BOOLEAN, sourced \in BOOLEAN, withheld \in BOOLEAN :
          records' = Append(records,
            [analyst |-> analyst, snapshot |-> snapshot, status |-> status, sourced |-> sourced,
             withheld |-> withheld, fetched |-> now, content |-> {}])
    BY <1>9 DEF SaveRecord, Saved
  <2>2. [analyst |-> analyst, snapshot |-> snapshot, status |-> status, sourced |-> sourced,
         withheld |-> withheld, fetched |-> now, content |-> {}] \in RecordsOfRun
    BY <1>1 DEF RecordsOfRun, TypesAreRight
  <2>3. UNCHANGED reviews
    BY <1>9 DEF SaveRecord
  <2> QED
    BY <1>1, <2>1, <2>2, <2>3, ReviewsStand
<1>10. CASE UNCHANGED vars
  BY <1>1, <1>10, ReviewsStand DEF vars
<1> QED
  BY <1>2, <1>3, <1>4, <1>5, <1>6, <1>7, <1>8, <1>9, <1>10 DEF Next

(* What makes a match, by the rules on characters.                          *)
MatchOf(i) ==
    LET request == reviews[i].request
        selector == request.selector
        r == records[request.record]
        rows == UNION {TableAt(c, selector.path).rows : c \in r.content}
        named == {row \in rows : row.date = selector.date}
    IN  reviews[i].result.status = "match" <=>
            /\ r.status \in {"available", "partial"} /\ ~r.withheld
            /\ \A c \in r.content : ~TableAt(c, selector.path).repeated
            /\ Cardinality({row.date : row \in rows}) = Cardinality(rows)
            /\ \E row \in named :
                 /\ selector.field \in DOMAIN row.cells
                 /\ row.cells[selector.field].numeric
                 /\ Fits(request.literal) /\ Fits(row.cells[selector.field].literal)
                 /\ Rounds(request.literal, row.cells[selector.field].literal, request.places)
            /\ NumericSelection(request.selection)
            /\ \A key \in DOMAIN request.bindings :
                 LET binding == request.bindings[key]
                 IN  binding.given => /\ SupportedContext(binding)
                                      /\ binding.text \in ExpectedContext(request, TRUE)[key]

MatchFollows == \A i \in DOMAIN reviews : MatchOf(i)

(* What was reviewed is a request.                                          *)
LEMMA RequestsAreTyped ==
  ASSUME RInv, NEW i \in DOMAIN reviews
  PROVE  \E question \in DOMAIN Requests :
           reviews[i].request \in Requests[question] /\ IsRequest(reviews[i].request)
<1>1. reviews[i].request \in UNION {Requests[question] : question \in DOMAIN Requests}
  <2> DEFINE Reviews == [request : UNION {Requests[question] : question \in DOMAIN Requests},
                         result : Results]
  <2>1. reviews \in Seq(Reviews)
    BY DEF RInv, ReviewsAreTyped
  <2> HIDE DEF Reviews
  <2>2. reviews[i] \in Reviews
    BY <2>1
  <2> QED
    BY <2>2 DEF Reviews
<1> QED
  BY <1>1, PlansAreRight

LEMMA MatchFollowsFromReviews ==
  ASSUME IInv, RInv
  PROVE  MatchFollows
<1> SUFFICES ASSUME NEW i \in DOMAIN reviews PROVE MatchOf(i)
  BY DEF MatchFollows
<1> DEFINE request == reviews[i].request
           selector == request.selector
           r == records[request.record]
           cell == Selected(r, selector)
           rows == UNION {TableAt(c, selector.path).rows : c \in r.content}
           named == {row \in rows : row.date = selector.date}
           Here(row) == /\ selector.field \in DOMAIN row.cells
                        /\ row.cells[selector.field].numeric
                        /\ Fits(row.cells[selector.field].literal)
           Delivered == /\ r.status \in {"available", "partial"} /\ ~r.withheld
                        /\ \A c \in r.content : ~TableAt(c, selector.path).repeated
           Equal == EqualDecimal(DecimalParts(request.literal), RoundSaved(cell.literal, request.places))
           Bound == \A key \in DOMAIN request.bindings :
                      LET binding == request.bindings[key]
                      IN  binding.given => /\ SupportedContext(binding)
                                           /\ binding.text \in ExpectedContext(request, TRUE)[key]
<1>1. /\ request.record \in DOMAIN records /\ request.places \in 0 .. MaxPlaces
      /\ reviews[i].result = Derive(request, cell, Contexts(request, cell))
  BY DEF RInv, ReviewsFollow
<1>2. r \in Recorded
  BY <1>1 DEF Recorded
<1>3. IsRequest(request)
  BY RequestsAreTyped
<1>4. /\ cell.found \in BOOLEAN
      /\ cell.found <=>
           /\ Delivered
           /\ Cardinality({row.date : row \in rows}) = Cardinality(rows)
           /\ \E row \in named : Here(row)
      /\ cell.found =>
           \A row \in named : /\ Here(row) /\ IsLiteral(cell.literal)
                              /\ cell.literal = row.cells[selector.field].literal
  <2> HIDE DEF r
  <2> QED
    BY <1>2, SelectedCells
<1> HIDE DEF request, selector, r, cell, rows, named, Delivered
<1>5. reviews[i].result.status = "match" <=>
        /\ "mismatch" \notin Contexts(request, cell) /\ "missing" \notin Contexts(request, cell)
        /\ cell.found /\ NumericSelection(request.selection) /\ Fits(request.literal) /\ Equal
  BY <1>1, <1>4, MatchesAreDerived
<1>6. cell.found =>
        ("mismatch" \notin Contexts(request, cell) /\ "missing" \notin Contexts(request, cell) <=> Bound)
  BY <1>3, ContextsAreRead
<1>7. ASSUME cell.found, Fits(request.literal), NEW row \in named
      PROVE  Equal <=> Rounds(request.literal, row.cells[selector.field].literal, request.places)
  <2>1. /\ Fits(cell.literal) /\ IsLiteral(cell.literal)
        /\ cell.literal = row.cells[selector.field].literal
    BY <1>4, <1>7
  <2> QED
    BY <1>1, <1>3, <1>7, <2>1, RoundingIsExact DEF IsRequest
<1> HIDE DEF Bound, Equal
<1>8. reviews[i].result.status = "match" <=>
        cell.found /\ NumericSelection(request.selection) /\ Fits(request.literal) /\ Equal /\ Bound
  BY <1>5, <1>6
<1>9. cell.found /\ Fits(request.literal) /\ Equal <=>
        /\ Delivered
        /\ Cardinality({row.date : row \in rows}) = Cardinality(rows)
        /\ \E row \in named :
             /\ Here(row) /\ Fits(request.literal)
             /\ Rounds(request.literal, row.cells[selector.field].literal, request.places)
  BY <1>4, <1>7
<1> QED
  BY <1>8, <1>9 DEF MatchOf, request, selector, r, rows, named, Delivered, Bound

-----------------------------------------------------------------------------
(* Theorems.                                                                *)

(* Types are right, the policy is the one frozen at the start, rows are     *)
(* read after it and recorded after that, and the decision is what follows  *)
(* from the records.                                                        *)
THEOREM Invariance == Spec => []IInv
<1>1. Init => IInv
  BY InitIsRight
<1>2. IInv /\ [Next]_vars => IInv'
  BY NextIsRight
<1> QED
  BY <1>1, <1>2, PTL DEF Spec

(* Of any two deliveries that records of the run keep, the proof from the   *)
(* table of one accepts what was said of the other exactly if the table     *)
(* says the same at that moment, whatever zones, duplicates, broken rows    *)
(* and hours it has.                                                        *)
THEOREM ProofsAreExact == Spec => []ProofIsExact
<1>1. IInv => ProofIsExact
  BY ProofIsExactOnRecords
<1> QED
  BY <1>1, Invariance, PTL

(* A run may recommend exactly if it is of the host's day, all its records  *)
(* are clean and were closed before that day was over in UTC, and the rows  *)
(* of every snapshot were settled when they were read.                      *)
THEOREM DecisionsAreWarranted == Spec => []GateIsWarranted
<1>1. IInv => GateIsWarranted
  <2> SUFFICES ASSUME IInv, decision # None
               PROVE  /\ decision.status = "ready" <=> Warranted
                      /\ decision.rating = "directional" => Warranted
    BY DEF GateIsWarranted
  <2>1. policy # None
    BY DEF IInv, PolicyIsFrozen
  <2>2. Assessment = "ready" <=> Warranted
    BY <2>1, ReadyIsWarranted
  <2>3. /\ decision.status = Assessment
        /\ decision.rating = "directional" => Assessment = "ready"
    BY DEF IInv, DecisionFollows
  <2> QED
    BY <2>2, <2>3
<1> QED
  BY <1>1, Invariance, PTL

(* Every review is of a record of the run and says what the rules derive    *)
(* from that record, for ever: records are only added.                      *)
THEOREM ReviewsAreRight == Spec => []RInv
<1>1. Init => RInv
  <2> SUFFICES ASSUME Init PROVE RInv
    OBVIOUS
  <2>1. reviews = <<>> /\ DOMAIN reviews = {}
    BY DEF Init
  <2> QED
    BY <2>1 DEF RInv, ReviewsAreTyped, ReviewsFollow
<1>2. IInv /\ RInv /\ [Next]_vars => RInv'
  BY ReviewsStay
<1> QED
  BY <1>1, <1>2, Invariance, PTL DEF Spec

(* A number is called a match exactly if its record delivered, the one row  *)
(* of the date in a table of different columns holds a number that rounds   *)
(* to it, the selection is a number by the rules, and so is everything      *)
(* bound to it (_derive, _table, _cell).                                    *)
THEOREM MatchesFollow == Spec => []MatchFollows
<1>1. IInv /\ RInv => MatchFollows
  BY MatchFollowsFromReviews
<1> QED
  BY <1>1, Invariance, ReviewsAreRight, PTL

(* Where the rules on characters agree with a reader, a match is what the   *)
(* reader would call one.                                                   *)
THEOREM MatchesAreExact ==
  ASSUME ReadersAgree
  PROVE  Spec => []MatchIsExact
<1>1. IInv /\ RInv => MatchIsExact
  <2> SUFFICES ASSUME IInv, RInv, NEW i \in DOMAIN reviews
      PROVE  LET request == reviews[i].request
                 r == records[request.record]
                 rows == UNION {TableAt(c, request.selector.path).rows : c \in r.content}
                 On1 == {row \in rows : row.date = request.selector.date}
             IN  reviews[i].result.status = "match" <=>
                  /\ r.status \in {"available", "partial"} /\ ~r.withheld
                  /\ \A c \in r.content : ~TableAt(c, request.selector.path).repeated
                  /\ Cardinality({row.date : row \in rows}) = Cardinality(rows)
                  /\ \E row \in On1 :
                       /\ request.selector.field \in DOMAIN row.cells
                       /\ row.cells[request.selector.field].numeric
                       /\ Fits(request.literal) /\ Fits(row.cells[request.selector.field].literal)
                       /\ Rounds(request.literal, row.cells[request.selector.field].literal,
                                 request.places)
                  /\ request.selection.whole
                  /\ \A key \in DOMAIN request.bindings :
                       request.bindings[key].given => request.bindings[key].exact
    BY DEF MatchIsExact
  <2> DEFINE request == reviews[i].request
             Bound == \A key \in DOMAIN request.bindings :
                        LET binding == request.bindings[key]
                        IN  binding.given => /\ SupportedContext(binding)
                                             /\ binding.text \in ExpectedContext(request, TRUE)[key]
             Said == \A key \in DOMAIN request.bindings :
                       request.bindings[key].given => request.bindings[key].exact
  <2>1. PICK question \in DOMAIN Requests : request \in Requests[question]
    BY RequestsAreTyped
  <2> HIDE DEF request
  <2>2. request.selection.whole <=> NumericSelection(request.selection)
    BY <2>1, ReadersAgree DEF ReadersAgree
  <2>3. Bound <=> Said
    BY <2>1, ReadersAgree DEF ReadersAgree
  <2>4. MatchFollows
    BY MatchFollowsFromReviews
  <2> HIDE DEF Bound, Said
  <2> QED
    BY <2>2, <2>3, <2>4 DEF MatchFollows, MatchOf, request, Bound, Said
<1> QED
  BY <1>1, Invariance, ReviewsAreRight, PTL
=============================================================================
