----------------------------- MODULE ScoringProofs -----------------------------
(***************************************************************************)
(* Proofs about RiskLevels and Scoring, for every threshold and width of a *)
(* band, every table, account and model output: the displayed score lies   *)
(* in the range of its level and never falls as the score rises; a fused   *)
(* score is a mean of what was found; the row that answers is the nearest; *)
(* and the scores of an account agree.                                     *)
(***************************************************************************)
EXTENDS Scoring, FiniteSetTheorems, TLAPS

\* A quotient is at most q if the dividend is below the next multiple.
LEMMA Quotient ==
  ASSUME NEW n \in Nat, NEW d \in Nat \ {0}
  PROVE  /\ n \div d \in Nat
         /\ d * (n \div d) <= n /\ n < d * (n \div d) + d
<1> DEFINE q == n \div d
           r == n % d
<1>1. n = d * q + r /\ r \in 0..(d - 1) /\ q \in Int
  OBVIOUS
<1> QED
  BY <1>1

LEMMA QuotientBelow ==
  ASSUME NEW n \in Nat, NEW d \in Nat \ {0}, NEW k \in Nat, n < d * k
  PROVE  n \div d < k
<1> DEFINE q == n \div d
<1>1. q \in Nat /\ d * q <= n
  BY Quotient
<1>2. d * q < d * k /\ d * q \in Nat /\ d * k \in Nat
  BY <1>1
<1> HIDE DEF q
<1>3. ASSUME q >= k PROVE FALSE
  <2>1. PICK j \in Nat : q = k + j
    BY <1>1, <1>3
  <2>2. d * q = d * k + d * j /\ d * j \in Nat
    BY <2>1
  <2> QED
    BY <1>2, <2>2
<1>4. q < k
  BY <1>1, <1>3
<1> QED
  BY <1>4 DEF q

LEMMA QuotientMonotone ==
  ASSUME NEW m \in Nat, NEW n \in Nat, NEW d \in Nat \ {0}, m <= n
  PROVE  m \div d <= n \div d
<1> DEFINE p == m \div d
           q == n \div d
<1>1. p \in Nat /\ q \in Nat /\ d * p <= m /\ n < d * q + d
  BY Quotient
<1>2. d * p \in Nat /\ d * q \in Nat /\ d * p < d * q + d
  BY <1>1
<1> HIDE DEF p, q
<1>3. ASSUME p > q PROVE FALSE
  <2>1. PICK j \in Nat : p = q + 1 + j
    BY <1>1, <1>3
  <2>2. d * p = d * q + d + d * j /\ d * j \in Nat
    BY <1>1, <2>1
  <2> QED
    BY <1>2, <2>2
<1>4. p <= q
  BY <1>1, <1>3
<1> QED
  BY <1>4 DEF p, q
-----------------------------------------------------------------------------
(* Lerp                                                                    *)

\* Between its ends the line stays in its range, and never falls.
LEMMA LerpBetween ==
  ASSUME NEW x \in Nat, NEW x0 \in Nat, NEW x1 \in Nat, NEW y0 \in Nat, NEW y1 \in Nat,
         x0 < x1, x0 <= x, y0 < y1
  PROVE  /\ Lerp(x, x0, x1, y0, y1) \in y0..y1
         /\ x < x1 => Lerp(x, x0, x1, y0, y1) < y1
<1> DEFINE d == x1 - x0
           k == y1 - y0
           a == AtLeast(0, AtMost(x - x0, x1 - x0))
           q == (a * k) \div d
<1>1. d \in Nat \ {0} /\ k \in Nat \ {0} /\ a \in Nat /\ a <= d /\ (x < x1 => a < d)
  BY DEF AtLeast, AtMost
<1>2. Lerp(x, x0, x1, y0, y1) = y0 + q
  BY DEF Lerp
<1>3. y1 = y0 + k
  OBVIOUS
<1> HIDE DEF d, k, a
<1>4. a * k \in Nat /\ d * k \in Nat /\ a * k <= d * k
  <2>1. PICK j \in Nat : d = a + j
    BY <1>1
  <2>2. d * k = a * k + j * k /\ j * k \in Nat /\ a * k \in Nat
    BY <1>1, <2>1
  <2> QED
    BY <2>2
<1>5. q \in Nat
  BY <1>1, <1>4, Quotient
<1>6. q < k + 1
  <2>1. d * (k + 1) = d * k + d
    BY <1>1
  <2>2. a * k < d * (k + 1)
    BY <1>1, <1>4, <2>1
  <2> QED
    BY <1>1, <1>4, <2>2, QuotientBelow
<1>7. ASSUME x < x1 PROVE q < k
  <2>1. PICK j \in Nat : d = a + 1 + j
    BY <1>1, <1>7
  <2>2. d * k = a * k + k + j * k /\ j * k \in Nat
    BY <1>1, <2>1
  <2>3. a * k < d * k
    BY <1>1, <1>4, <2>2
  <2> QED
    BY <1>1, <1>4, <2>3, QuotientBelow
<1> HIDE DEF q
<1> QED
  BY <1>1, <1>2, <1>3, <1>5, <1>6, <1>7

LEMMA LerpMonotone ==
  ASSUME NEW x \in Nat, NEW z \in Nat, NEW x0 \in Nat, NEW x1 \in Nat, NEW y0 \in Nat, NEW y1 \in Nat,
         x0 < x1, x0 <= x, x <= z, y0 < y1
  PROVE  Lerp(x, x0, x1, y0, y1) <= Lerp(z, x0, x1, y0, y1)
<1> DEFINE d == x1 - x0
           k == y1 - y0
           a == AtLeast(0, AtMost(x - x0, x1 - x0))
           b == AtLeast(0, AtMost(z - x0, x1 - x0))
<1>1. d \in Nat \ {0} /\ k \in Nat /\ a \in Nat /\ b \in Nat /\ a <= b
  BY DEF AtLeast, AtMost
<1>2. /\ Lerp(x, x0, x1, y0, y1) = y0 + ((a * k) \div d)
      /\ Lerp(z, x0, x1, y0, y1) = y0 + ((b * k) \div d)
  BY DEF Lerp
<1> HIDE DEF d, k, a, b
<1>3. a * k \in Nat /\ b * k \in Nat /\ a * k <= b * k
  <2>1. PICK j \in Nat : b = a + j
    BY <1>1
  <2>2. b * k = a * k + j * k /\ j * k \in Nat /\ a * k \in Nat
    BY <1>1, <2>1
  <2> QED
    BY <2>2
<1>4. ((a * k) \div d) <= ((b * k) \div d) /\ (a * k) \div d \in Nat /\ (b * k) \div d \in Nat
  BY <1>1, <1>3, Quotient, QuotientMonotone
<1> QED
  BY <1>2, <1>4
-----------------------------------------------------------------------------
(* The bands                                                               *)

\* The ends of the bands on both scales.
Zero == 0
Top == CriticalLow + 3 * Cent
Mark1 == 300
Mark2 == 500
Mark3 == 700
Mark4 == 850
Mark5 == 1000

LEMMA Bands ==
  /\ Zero \in Nat /\ LowHigh \in Nat /\ MediumLow \in Nat /\ HighLow \in Nat
  /\ CriticalLow \in Nat /\ Top \in Nat
  /\ Zero < LowHigh /\ LowHigh < MediumLow /\ MediumLow < HighLow /\ HighLow < CriticalLow
  /\ CriticalLow < Top
  /\ \A s \in Nat : Zero <= s
BY BandAssumption DEF Zero, LowHigh, MediumLow, HighLow, CriticalLow, Top

LEMMA Marks ==
  /\ Mark1 \in Nat /\ Mark2 \in Nat /\ Mark3 \in Nat /\ Mark4 \in Nat /\ Mark5 \in Nat
  /\ Zero < Mark1 /\ Mark1 < Mark2 /\ Mark2 < Mark3 /\ Mark3 < Mark4 /\ Mark4 < Mark5
BY DEF Zero, Mark1, Mark2, Mark3, Mark4, Mark5

\* Where a score is shown, by its band.
LEMMA Displays ==
  ASSUME NEW s \in Nat
  PROVE  /\ s < LowHigh => ScoreToDisplay(s) = Lerp(s, Zero, LowHigh, Zero, Mark1)
         /\ LowHigh <= s /\ s < MediumLow =>
              ScoreToDisplay(s) = Lerp(s, LowHigh, MediumLow, Mark1, Mark2)
         /\ MediumLow <= s /\ s < HighLow =>
              ScoreToDisplay(s) = Lerp(s, MediumLow, HighLow, Mark2, Mark3)
         /\ HighLow <= s /\ s < CriticalLow =>
              ScoreToDisplay(s) = Lerp(s, HighLow, CriticalLow, Mark3, Mark4)
         /\ CriticalLow <= s =>
              ScoreToDisplay(s) = AtMost(Lerp(s, CriticalLow, Top, Mark4, Mark5), Mark5)
<1>1. AtLeast(s, 0) = s
  BY DEF AtLeast
<1> QED
  BY <1>1, Bands DEF ScoreToDisplay, Zero, Top, Mark1, Mark2, Mark3, Mark4, Mark5

LEMMA DisplayRanges ==
  ASSUME NEW s \in Nat
  PROVE  /\ s < LowHigh => ScoreToDisplay(s) \in Zero..Mark1 /\ ScoreToDisplay(s) < Mark1
         /\ LowHigh <= s /\ s < MediumLow =>
              ScoreToDisplay(s) \in Mark1..Mark2 /\ ScoreToDisplay(s) < Mark2
         /\ MediumLow <= s /\ s < HighLow =>
              ScoreToDisplay(s) \in Mark2..Mark3 /\ ScoreToDisplay(s) < Mark3
         /\ HighLow <= s /\ s < CriticalLow =>
              ScoreToDisplay(s) \in Mark3..Mark4 /\ ScoreToDisplay(s) < Mark4
         /\ CriticalLow <= s => ScoreToDisplay(s) \in Mark4..Mark5
<1>1. ASSUME s < LowHigh PROVE ScoreToDisplay(s) \in Zero..Mark1 /\ ScoreToDisplay(s) < Mark1
  <2>1. Lerp(s, Zero, LowHigh, Zero, Mark1) \in Zero..Mark1 /\ Lerp(s, Zero, LowHigh, Zero, Mark1) < Mark1
    BY <1>1, Bands, Marks, LerpBetween
  <2> QED
    BY <1>1, <2>1, Displays
<1>2. ASSUME LowHigh <= s, s < MediumLow PROVE ScoreToDisplay(s) \in Mark1..Mark2 /\ ScoreToDisplay(s) < Mark2
  <2>1. Lerp(s, LowHigh, MediumLow, Mark1, Mark2) \in Mark1..Mark2 /\ Lerp(s, LowHigh, MediumLow, Mark1, Mark2) < Mark2
    BY <1>2, Bands, Marks, LerpBetween
  <2> QED
    BY <1>2, <2>1, Displays
<1>3. ASSUME MediumLow <= s, s < HighLow PROVE ScoreToDisplay(s) \in Mark2..Mark3 /\ ScoreToDisplay(s) < Mark3
  <2>1. Lerp(s, MediumLow, HighLow, Mark2, Mark3) \in Mark2..Mark3 /\ Lerp(s, MediumLow, HighLow, Mark2, Mark3) < Mark3
    BY <1>3, Bands, Marks, LerpBetween
  <2> QED
    BY <1>3, <2>1, Displays
<1>4. ASSUME HighLow <= s, s < CriticalLow PROVE ScoreToDisplay(s) \in Mark3..Mark4 /\ ScoreToDisplay(s) < Mark4
  <2>1. Lerp(s, HighLow, CriticalLow, Mark3, Mark4) \in Mark3..Mark4 /\ Lerp(s, HighLow, CriticalLow, Mark3, Mark4) < Mark4
    BY <1>4, Bands, Marks, LerpBetween
  <2> QED
    BY <1>4, <2>1, Displays
<1>5. ASSUME CriticalLow <= s PROVE ScoreToDisplay(s) \in Mark4..Mark5
  <2>1. Lerp(s, CriticalLow, Top, Mark4, Mark5) \in Mark4..Mark5
    BY <1>5, Bands, Marks, LerpBetween
  <2> QED
    BY <1>5, <2>1, Displays, Marks DEF AtMost
<1> QED
  BY <1>1, <1>2, <1>3, <1>4, <1>5

\* Gauge, level and alert agree at every score: the display lies in the range of
\* the level, and the scores that raise an alert are those above LOW.
THEOREM DisplayInBand ==
  ASSUME NEW s \in Nat
  PROVE  /\ ScoreToDisplay(s) \in Gauge(ScoreToLevel(s))
         /\ s >= Threshold <=> ScoreToLevel(s) # "LOW"
<1>1. CASE s < MediumLow
  <2>1. ScoreToLevel(s) = "LOW"
    BY <1>1, Bands DEF ScoreToLevel
  <2>2. ScoreToDisplay(s) \in 0..499
    BY <1>1, Bands, Marks, DisplayRanges DEF Zero, Mark1, Mark2
  <2> QED
    BY <1>1, <2>1, <2>2, BandAssumption DEF Gauge, MediumLow
<1>2. CASE MediumLow <= s /\ s < HighLow
  <2>1. ScoreToLevel(s) = "MEDIUM"
    BY <1>2, Bands DEF ScoreToLevel
  <2> QED
    BY <1>2, <2>1, DisplayRanges, BandAssumption DEF Gauge, MediumLow, Mark2, Mark3
<1>3. CASE HighLow <= s /\ s < CriticalLow
  <2>1. ScoreToLevel(s) = "HIGH" /\ s >= MediumLow
    BY <1>3, Bands DEF ScoreToLevel
  <2> QED
    BY <1>3, <2>1, DisplayRanges, BandAssumption DEF Gauge, MediumLow, Mark3, Mark4
<1>4. CASE CriticalLow <= s
  <2>1. ScoreToLevel(s) = "CRITICAL" /\ s >= MediumLow
    BY <1>4, Bands DEF ScoreToLevel
  <2> QED
    BY <1>4, <2>1, DisplayRanges, BandAssumption DEF Gauge, MediumLow, Mark4, Mark5
<1> QED
  BY <1>1, <1>2, <1>3, <1>4, Bands

\* A higher score is never shown lower, nor at a lower level, across all bands.
THEOREM NeverShownLower ==
  ASSUME NEW s \in Nat, NEW t \in Nat, s <= t
  PROVE  /\ ScoreToDisplay(s) <= ScoreToDisplay(t)
         /\ Rank[ScoreToLevel(s)] <= Rank[ScoreToLevel(t)]
<1>1. Rank[ScoreToLevel(s)] <= Rank[ScoreToLevel(t)]
  BY Bands DEF Rank, ScoreToLevel
<1>2. ScoreToDisplay(s) <= ScoreToDisplay(t)
  <2>1. CASE t < LowHigh
    <3>1. Lerp(s, Zero, LowHigh, Zero, Mark1) <= Lerp(t, Zero, LowHigh, Zero, Mark1)
      BY Bands, Marks, LerpMonotone
    <3> QED
      BY <2>1, <3>1, Bands, Displays
  <2>2. CASE LowHigh <= t /\ t < MediumLow
    <3>1. CASE s < LowHigh
      <4>1. ScoreToDisplay(s) \in Int /\ ScoreToDisplay(s) <= Mark1
        BY <3>1, Bands, Marks, DisplayRanges
      <4>2. ScoreToDisplay(t) \in Int /\ Mark1 <= ScoreToDisplay(t)
        BY <2>2, Bands, Marks, DisplayRanges
      <4> QED
        BY <4>1, <4>2, Marks
    <3>2. CASE LowHigh <= s
      <4>1. Lerp(s, LowHigh, MediumLow, Mark1, Mark2) <= Lerp(t, LowHigh, MediumLow, Mark1, Mark2)
        BY <3>2, Bands, Marks, LerpMonotone
      <4> QED
        BY <2>2, <3>2, <4>1, Bands, Displays
    <3> QED
      BY <3>1, <3>2, Bands
  <2>3. CASE MediumLow <= t /\ t < HighLow
    <3>1. CASE s < MediumLow
      <4>1. ScoreToDisplay(s) \in Int /\ ScoreToDisplay(s) <= Mark2
        BY <3>1, Bands, Marks, DisplayRanges
      <4>2. ScoreToDisplay(t) \in Int /\ Mark2 <= ScoreToDisplay(t)
        BY <2>3, Bands, Marks, DisplayRanges
      <4> QED
        BY <4>1, <4>2, Marks
    <3>2. CASE MediumLow <= s
      <4>1. Lerp(s, MediumLow, HighLow, Mark2, Mark3) <= Lerp(t, MediumLow, HighLow, Mark2, Mark3)
        BY <3>2, Bands, Marks, LerpMonotone
      <4> QED
        BY <2>3, <3>2, <4>1, Bands, Displays
    <3> QED
      BY <3>1, <3>2, Bands
  <2>4. CASE HighLow <= t /\ t < CriticalLow
    <3>1. CASE s < HighLow
      <4>1. ScoreToDisplay(s) \in Int /\ ScoreToDisplay(s) <= Mark3
        BY <3>1, Bands, Marks, DisplayRanges
      <4>2. ScoreToDisplay(t) \in Int /\ Mark3 <= ScoreToDisplay(t)
        BY <2>4, Bands, Marks, DisplayRanges
      <4> QED
        BY <4>1, <4>2, Marks
    <3>2. CASE HighLow <= s
      <4>1. Lerp(s, HighLow, CriticalLow, Mark3, Mark4) <= Lerp(t, HighLow, CriticalLow, Mark3, Mark4)
        BY <3>2, Bands, Marks, LerpMonotone
      <4> QED
        BY <2>4, <3>2, <4>1, Bands, Displays
    <3> QED
      BY <3>1, <3>2, Bands
  <2>5. CASE CriticalLow <= t
    <3>1. CASE s < CriticalLow
      <4>1. ScoreToDisplay(s) \in Int /\ ScoreToDisplay(s) <= Mark4
        BY <3>1, Bands, Marks, DisplayRanges
      <4>2. ScoreToDisplay(t) \in Int /\ Mark4 <= ScoreToDisplay(t)
        BY <2>5, Bands, Marks, DisplayRanges
      <4> QED
        BY <4>1, <4>2, Marks
    <3>2. CASE CriticalLow <= s
      <4>1. Lerp(s, CriticalLow, Top, Mark4, Mark5) <= Lerp(t, CriticalLow, Top, Mark4, Mark5)
        BY <3>2, Bands, Marks, LerpMonotone
      <4>2. Lerp(s, CriticalLow, Top, Mark4, Mark5) \in Mark4..Mark5 /\ Lerp(t, CriticalLow, Top, Mark4, Mark5) \in Mark4..Mark5
        BY <2>5, <3>2, Bands, Marks, LerpBetween
      <4> QED
        BY <2>5, <3>2, <4>1, <4>2, Marks, Displays DEF AtMost
    <3> QED
      BY <3>1, <3>2, Bands
  <2> QED
    BY <2>1, <2>2, <2>3, <2>4, <2>5, Bands
<1> QED
  BY <1>1, <1>2
-----------------------------------------------------------------------------
(* The search of the nearest key                                           *)

\* A set of numbers has a least one (the library's theorem takes an operator).
LEMMA LeastNumber ==
  ASSUME NEW S \in SUBSET Nat, S # {}
  PROVE  \E m \in S : \A k \in S : m <= k
<1>1. \E m \in S : \A k \in S : ~ (<<k, m>> \in OpToRel(<, Nat))
  BY WFMin, NatLessThanWellFounded, Zenon
<1>2. PICK m \in S : \A k \in S : <<k, m>> \notin OpToRel(<, Nat)
  BY <1>1
<1>3. ASSUME NEW k \in S PROVE ~ (k < m)
  BY <1>2, Zenon DEF OpToRel
<1> QED
  BY <1>3

\* What sorted() returns: numbers in order, one at least for every row of the table.
LEMMA KeysSorted ==
  ASSUME NEW t, IsFiniteSet(DOMAIN t), DOMAIN t \subseteq AccountIds, NEW keys \in SortedKeys(t)
  PROVE  \E n \in Nat :
           /\ keys \in [1..n -> Int]
           /\ \A i, j \in 1..n : i <= j => keys[i] <= keys[j]
           /\ \A i \in 1..n : \E id \in DOMAIN t : keys[i] = NumericPart(id)
           /\ \A id \in DOMAIN t : \E i \in 1..n : keys[i] = NumericPart(id)
<1> DEFINE n == Cardinality(DOMAIN t)
<1>1. n \in Nat
  BY FS_CardinalityType
<1>2. \A id \in DOMAIN t : NumericPart(id) \in Int
  BY DEF NumericPart, AccountIds
<1>3. PICK ids \in Bijection(1..n, DOMAIN t) :
        /\ \A i, j \in 1..n : i <= j => NumericPart(ids[i]) <= NumericPart(ids[j])
        /\ keys = [i \in 1..n |-> NumericPart(ids[i])]
  BY DEF SortedKeys
<1> HIDE DEF n
<1>4. ids \in [1..n -> DOMAIN t] /\ \A id \in DOMAIN t : \E i \in 1..n : ids[i] = id
  BY <1>3 DEF Bijection, Surjection, Injection
<1>5. \A i \in 1..n : keys[i] = NumericPart(ids[i]) /\ ids[i] \in DOMAIN t
  BY <1>3, <1>4
<1>6. keys \in [1..n -> Int]
  BY <1>2, <1>3, <1>4
<1>7. \A i, j \in 1..n : i <= j => keys[i] <= keys[j]
  BY <1>3, <1>5
<1>8. \A i \in 1..n : \E id \in DOMAIN t : keys[i] = NumericPart(id)
  BY <1>5
<1>9. \A id \in DOMAIN t : \E i \in 1..n : keys[i] = NumericPart(id)
  BY <1>4, <1>5
<1> QED
  BY <1>1, <1>6, <1>7, <1>8, <1>9

\* bisect_left: the keys before the index are below the target, the others are not.
LEMMA BisectSplits ==
  ASSUME NEW n \in Nat, NEW keys \in [1..n -> Int], NEW target \in Int,
         \A i, j \in 1..n : i <= j => keys[i] <= keys[j]
  PROVE  /\ Bisect(keys, target) \in 0..n
         /\ \A i \in 1..n : keys[i] < target <=> i <= Bisect(keys, target)
<1> DEFINE Low == {i \in 1..n : keys[i] < target}
           High == {i \in 1..(n + 1) : i \notin Low}
<1>1. High \in SUBSET Nat /\ n + 1 \in High
  OBVIOUS
<1>2. PICK m \in High : \A k \in High : m <= k
  BY <1>1, LeastNumber
<1>3. Low = 1..(m - 1)
  <2>1. ASSUME NEW i \in 1..n, i < m PROVE i \in Low
    BY <1>1, <1>2, <2>1
  <2>2. ASSUME NEW i \in 1..n, i >= m PROVE i \notin Low
    <3>1. m \in 1..n /\ keys[m] >= target
      BY <1>1, <1>2, <2>2
    <3>2. keys[i] >= keys[m]
      BY <1>1, <1>2, <2>2, <3>1
    <3> QED
      BY <3>1, <3>2
  <2> QED
    BY <1>1, <1>2, <2>1, <2>2
<1>4. m \in 1..(n + 1)
  BY <1>2
<1> HIDE DEF High
<1>5. Cardinality(1..(m - 1)) = m - 1
  <2>1. m - 1 \in Int /\ 1 \in Int
    BY <1>4
  <2>2. Cardinality(1..(m - 1)) = IF 1 > m - 1 THEN 0 ELSE (m - 1) - 1 + 1
    BY <2>1, FS_Interval
  <2> QED
    BY <1>4, <2>2
<1>6. Bisect(keys, target) = m - 1
  <2>1. DOMAIN keys = 1..n
    OBVIOUS
  <2> QED
    BY <1>3, <1>5, <2>1 DEF Bisect
<1> QED
  BY <1>3, <1>4, <1>6

\* An order of a set of ids that sorted() could have listed their keys in.
Order(D, n, ids) ==
  /\ ids \in Bijection(1..n, D)
  /\ \A i, j \in 1..n : i <= j => NumericPart(ids[i]) <= NumericPart(ids[j])

LEMMA BijectionIs ==
  ASSUME NEW S, NEW T, NEW f
  PROVE  f \in Bijection(S, T) <=>
           /\ f \in [S -> T]
           /\ \A a, b \in S : f[a] = f[b] => a = b
           /\ \A y \in T : \E x \in S : f[x] = y
<1>1. f \in Injection(S, T) <=> f \in [S -> T] /\ \A a, b \in S : f[a] = f[b] => a = b
  BY DEF Injection, IsInjective
<1>2. f \in Surjection(S, T) <=> f \in [S -> T] /\ \A y \in T : \E x \in S : f[x] = y
  BY DEF Surjection
<1>3. f \in Bijection(S, T) <=> f \in Injection(S, T) /\ f \in Surjection(S, T)
  BY DEF Bijection
<1> QED
  BY <1>1, <1>2, <1>3

\* One more id is put where the binary search finds its place.
LEMMA OrderOfOneMore ==
  ASSUME NEW D \in SUBSET AccountIds, NEW x \in D, NEW n \in Nat, NEW ids,
         Order(D \ {x}, n, ids)
  PROVE  \E more : Order(D, n + 1, more)
<1> DEFINE keys == [i \in 1..n |-> NumericPart(ids[i])]
           target == NumericPart(x)
           m == Bisect(keys, target)
           more == [i \in 1..(n + 1) |-> IF i <= m THEN ids[i] ELSE IF i = m + 1 THEN x ELSE ids[i - 1]]
<1>1. /\ ids \in [1..n -> D \ {x}]
      /\ \A i, j \in 1..n : ids[i] = ids[j] => i = j
      /\ \A id \in D \ {x} : \E i \in 1..n : ids[i] = id
      /\ \A i, j \in 1..n : i <= j => NumericPart(ids[i]) <= NumericPart(ids[j])
  BY BijectionIs DEF Order
<1>2. \A id \in D : NumericPart(id) \in Int
  BY DEF NumericPart, AccountIds
<1>3. keys \in [1..n -> Int] /\ target \in Int /\ \A i, j \in 1..n : i <= j => keys[i] <= keys[j]
  BY <1>1, <1>2
<1> HIDE DEF target
<1>4. m \in 0..n /\ \A i \in 1..n : NumericPart(ids[i]) < target <=> i <= m
  <2>1. \A i \in 1..n : keys[i] = NumericPart(ids[i])
    OBVIOUS
  <2> HIDE DEF keys
  <2> QED
    BY <1>3, <2>1, BisectSplits
<1> HIDE DEF keys, m
<1>5. /\ \A i \in 1..m : more[i] = ids[i] /\ i \in 1..n
      /\ more[m + 1] = x
      /\ \A i \in (m + 2)..(n + 1) : more[i] = ids[i - 1] /\ i - 1 \in 1..n
      /\ \A i \in 1..(n + 1) : i \in 1..m \/ i = m + 1 \/ i \in (m + 2)..(n + 1)
  BY <1>4
<1>6. more \in [1..(n + 1) -> D]
  <2>1. \A i \in 1..(n + 1) : more[i] \in D
    BY <1>1, <1>4, <1>5
  <2> QED
    BY <2>1
<1> HIDE DEF more
<1>7. \A i, j \in 1..(n + 1) : more[i] = more[j] => i = j
  BY <1>1, <1>4, <1>5
<1>8. \A id \in D : \E i \in 1..(n + 1) : more[i] = id
  <2> SUFFICES ASSUME NEW id \in D PROVE \E i \in 1..(n + 1) : more[i] = id
    OBVIOUS
  <2>1. CASE id = x
    BY <1>4, <1>5, <2>1
  <2>2. CASE id # x
    <3>1. PICK i \in 1..n : ids[i] = id
      BY <1>1, <2>2
    <3>2. CASE i <= m
      <4>1. i \in 1..m /\ i \in 1..(n + 1)
        BY <1>4, <3>2
      <4> QED
        BY <1>5, <3>1, <4>1
    <3>3. CASE i > m
      <4>1. i + 1 \in (m + 2)..(n + 1) /\ i + 1 \in 1..(n + 1) /\ (i + 1) - 1 = i
        BY <1>4, <3>3
      <4>2. more[i + 1] = id
        BY <1>5, <3>1, <4>1
      <4> QED
        BY <4>1, <4>2
    <3> QED
      BY <1>4, <3>2, <3>3
  <2> QED
    BY <2>1, <2>2
<1>9. ASSUME NEW i \in 1..(n + 1), NEW j \in 1..(n + 1), i <= j
      PROVE  NumericPart(more[i]) <= NumericPart(more[j])
  <2>1. \A k \in 1..n : NumericPart(ids[k]) \in Int
    BY <1>1, <1>2
  <2>2. NumericPart(x) = target /\ target \in Int
    BY <1>3 DEF target
  <2>3. CASE i \in 1..m
    <3>1. i \in 1..n /\ more[i] = ids[i] /\ NumericPart(ids[i]) < target
      BY <1>4, <1>5, <2>3
    <3>2. CASE j \in 1..m
      BY <1>1, <1>5, <1>9, <3>1, <3>2
    <3>3. CASE j = m + 1
      BY <1>5, <2>1, <2>2, <3>1, <3>3
    <3>4. CASE j \in (m + 2)..(n + 1)
      <4>1. j - 1 \in 1..n /\ more[j] = ids[j - 1] /\ i <= j - 1
        BY <1>4, <1>5, <2>3, <3>4
      <4> QED
        BY <1>1, <3>1, <4>1
    <3> QED
      BY <1>5, <3>2, <3>3, <3>4
  <2>4. CASE i = m + 1
    <3>1. j = m + 1 \/ j \in (m + 2)..(n + 1)
      BY <1>4, <1>5, <1>9, <2>4
    <3>2. CASE j = m + 1
      BY <1>5, <2>2, <2>4, <3>2
    <3>3. CASE j \in (m + 2)..(n + 1)
      <4>1. more[j] = ids[j - 1] /\ j - 1 \in 1..n /\ ~(j - 1 <= m)
        BY <1>4, <1>5, <3>3
      <4>2. ~(NumericPart(ids[j - 1]) < target)
        BY <1>4, <4>1
      <4> QED
        BY <1>5, <2>1, <2>2, <2>4, <4>1, <4>2
    <3> QED
      BY <3>1, <3>2, <3>3
  <2>5. CASE i \in (m + 2)..(n + 1)
    <3>1. j \in (m + 2)..(n + 1)
      BY <1>4, <1>9, <2>5
    <3>2. i - 1 \in 1..n /\ j - 1 \in 1..n /\ i - 1 <= j - 1
      BY <1>5, <1>9, <2>5, <3>1
    <3> QED
      BY <1>1, <1>5, <2>5, <3>1, <3>2
  <2> QED
    BY <1>5, <2>3, <2>4, <2>5
<1>10. more \in Bijection(1..(n + 1), D)
  BY <1>6, <1>7, <1>8, BijectionIs
<1> QED
  BY <1>9, <1>10 DEF Order

\* A table with finitely many rows has its sorted keys, so load always ends: the
\* least set of ids without an order would have one by the lemma above.
LEMMA KeysExist ==
  ASSUME NEW t, IsFiniteSet(DOMAIN t), DOMAIN t \subseteq AccountIds
  PROVE  SortedKeys(t) # {}
<1> DEFINE Without == {k \in Nat : \E D \in SUBSET DOMAIN t :
                         IsFiniteSet(D) /\ Cardinality(D) = k /\ ~\E ids : Order(D, k, ids)}
<1>1. Without = {}
  <2> SUFFICES ASSUME Without # {} PROVE FALSE
    OBVIOUS
  <2>1. PICK k \in Without : \A j \in Without : k <= j
    <3>1. Without \in SUBSET Nat
      OBVIOUS
    <3> HIDE DEF Without
    <3> QED
      BY <3>1, LeastNumber
  <2>2. PICK D \in SUBSET DOMAIN t :
          IsFiniteSet(D) /\ Cardinality(D) = k /\ ~\E ids : Order(D, k, ids)
    BY <2>1
  <2>3. k \in Nat
    BY <2>1
  <2>4. CASE D = {}
    <3>1. k = 0
      BY <2>2, <2>4, FS_EmptySet
    <3>2. PICK none : none = [i \in 1..0 |-> None]
      OBVIOUS
    <3>3. Order({}, 0, none)
      <4>1. 1..0 = {}
        OBVIOUS
      <4>2. none \in [1..0 -> {}]
        BY <3>2, <4>1
      <4>3. none \in Bijection(1..0, {})
        BY <4>1, <4>2, BijectionIs
      <4> QED
        BY <4>1, <4>3 DEF Order
    <3> QED
      BY <2>2, <2>4, <3>1, <3>3
  <2>5. CASE D # {}
    <3>1. PICK x \in D : TRUE
      BY <2>5
    <3>2. IsFiniteSet(D \ {x}) /\ Cardinality(D \ {x}) = k - 1 /\ k - 1 \in Nat
      <4>1. IsFiniteSet(D \ {x}) /\ Cardinality(D \ {x}) = Cardinality(D) - 1
        BY <2>2, <3>1, FS_RemoveElement
      <4>2. Cardinality(D \ {x}) \in Nat
        BY <4>1, FS_CardinalityType
      <4> QED
        BY <2>2, <4>1, <4>2
    <3>3. k - 1 \notin Without
      <4> HIDE DEF Without
      <4> QED
        BY <2>1, <2>3
    <3>4. PICK ids : Order(D \ {x}, k - 1, ids)
      <4>1. D \ {x} \in SUBSET DOMAIN t
        OBVIOUS
      <4> QED
        BY <3>2, <3>3, <4>1
    <3>5. \E more : Order(D, (k - 1) + 1, more)
      <4>1. D \in SUBSET AccountIds
        OBVIOUS
      <4> QED
        BY <3>1, <3>2, <3>4, <4>1, OrderOfOneMore
    <3> QED
      BY <2>2, <2>3, <3>5
  <2> QED
    BY <2>4, <2>5
<1>2. PICK n \in Nat : n = Cardinality(DOMAIN t)
  BY FS_CardinalityType
<1>3. PICK ids : Order(DOMAIN t, n, ids)
  BY <1>1, <1>2
<1>4. [i \in 1..n |-> NumericPart(ids[i])] \in SortedKeys(t)
  BY <1>2, <1>3 DEF SortedKeys, Order
<1> QED
  BY <1>4

\* The keys on either side of the target.
LEMMA CandidateKeys ==
  ASSUME NEW n \in Nat, NEW keys \in [1..n -> Int], NEW target \in Int,
         \A i, j \in 1..n : i <= j => keys[i] <= keys[j]
  PROVE  /\ Candidates(keys, target) \subseteq {keys[i] : i \in 1..n}
         /\ n # 0 => Candidates(keys, target) # {}
         /\ \E a, b \in Int : Candidates(keys, target) \subseteq {a, b}
         /\ \A j \in 1..n : \E c \in Candidates(keys, target) :
               Distance(c, target) <= Distance(keys[j], target)
<1> DEFINE m == Bisect(keys, target)
<1>1. m \in 0..n /\ \A i \in 1..n : keys[i] < target <=> i <= m
  BY BisectSplits
<1>2. Candidates(keys, target) = {keys[i] : i \in {m, m + 1} \cap (1..n)}
  BY DEF Candidates
<1> HIDE DEF m
<1>3. n # 0 => Candidates(keys, target) # {}
  <2>1. n # 0 => m \in 1..n \/ m + 1 \in 1..n
    BY <1>1
  <2> QED
    BY <1>2, <2>1
<1>4. \E a, b \in Int : Candidates(keys, target) \subseteq {a, b}
  <2> DEFINE a == IF m \in 1..n THEN keys[m] ELSE 0
             b == IF m + 1 \in 1..n THEN keys[m + 1] ELSE 0
  <2>1. a \in Int /\ b \in Int
    OBVIOUS
  <2>2. Candidates(keys, target) \subseteq {a, b}
    BY <1>2
  <2> QED
    BY <2>1, <2>2
<1>5. ASSUME NEW j \in 1..n
      PROVE  \E c \in Candidates(keys, target) : Distance(c, target) <= Distance(keys[j], target)
  <2>1. CASE j <= m
    <3>1. m \in 1..n /\ keys[m] \in Candidates(keys, target)
      BY <1>1, <1>2, <2>1
    <3>2. keys[j] <= keys[m] /\ keys[m] < target
      BY <1>1, <2>1, <3>1
    <3>3. Distance(keys[m], target) <= Distance(keys[j], target)
      BY <3>1, <3>2 DEF Distance
    <3> QED
      BY <3>1, <3>3
  <2>2. CASE j > m
    <3>1. m + 1 \in 1..n /\ keys[m + 1] \in Candidates(keys, target)
      BY <1>1, <1>2, <2>2
    <3>2. keys[m + 1] <= keys[j] /\ target <= keys[m + 1]
      BY <1>1, <2>2, <3>1
    <3>3. Distance(keys[m + 1], target) <= Distance(keys[j], target)
      BY <3>1, <3>2 DEF Distance
    <3> QED
      BY <3>1, <3>3
  <2> QED
    BY <1>1, <2>1, <2>2
<1>6. Candidates(keys, target) \subseteq {keys[i] : i \in 1..n}
  BY <1>2
<1> QED
  BY <1>3, <1>4, <1>5, <1>6

\* min by distance: one of the candidates, and none is nearer.
LEMMA NearestOfCandidates ==
  ASSUME NEW a \in Int, NEW b \in Int, NEW S \in SUBSET {a, b}, S # {}, NEW target \in Int
  PROVE  /\ Nearest(S, target) \in S
         /\ \A d \in S : Distance(Nearest(S, target), target) <= Distance(d, target)
<1> DEFINE Better(c, d) == \/ Distance(c, target) < Distance(d, target)
                           \/ Distance(c, target) = Distance(d, target) /\ c > d
           First(c) == \A d \in S \ {c} : Better(c, d)
<1>1. a # b => Better(a, b) \/ Better(b, a)
  BY DEF Distance
<1>2. \E c \in S : First(c)
  <2> HIDE DEF Better
  <2>1. CASE a \in S /\ (a = b \/ b \notin S \/ Better(a, b))
    <3>1. First(a)
      BY <2>1
    <3> QED
      BY <2>1, <3>1
  <2>2. CASE b \in S /\ (a \notin S \/ Better(b, a))
    <3>1. First(b)
      BY <2>2
    <3> QED
      BY <2>2, <3>1
  <2>3. a \in S \/ b \in S
    OBVIOUS
  <2> QED
    BY <1>1, <2>1, <2>2, <2>3
<1>3. Nearest(S, target) = CHOOSE c \in S : First(c)
  BY DEF Nearest
<1>4. PICK best : best = Nearest(S, target)
  OBVIOUS
<1>5. best \in S /\ First(best)
  BY <1>2, <1>3, <1>4
<1>6. \A d \in S : Distance(d, target) \in Int
  BY DEF Distance
<1> QED
  BY <1>4, <1>5, <1>6

LEMMA AliasOfAlias ==
  ASSUME NEW id \in AccountIds
  PROVE  /\ id.form = "other" => AltAccountId(id) = None
         /\ id.form # "other" => /\ AltAccountId(id) \in AccountIds
                                 /\ AltAccountId(AltAccountId(id)) = id
                                 /\ NumericPart(AltAccountId(id)) = NumericPart(id)
<1>1. CASE id.form = "ACCT"
  <2>1. AltAccountId(id) = [form |-> "ACC", n |-> id.n] /\ id = [form |-> "ACCT", n |-> id.n]
    BY <1>1 DEF AltAccountId, AccountIds
  <2>2. AltAccountId([form |-> "ACC", n |-> id.n]) = [form |-> "ACCT", n |-> id.n]
    BY DEF AltAccountId
  <2> QED
    BY <1>1, <2>1, <2>2 DEF AccountIds, Forms, NumericPart
<1>2. CASE id.form = "ACC"
  <2>1. AltAccountId(id) = [form |-> "ACCT", n |-> id.n] /\ id = [form |-> "ACC", n |-> id.n]
    BY <1>2 DEF AltAccountId, AccountIds
  <2>2. AltAccountId([form |-> "ACCT", n |-> id.n]) = [form |-> "ACC", n |-> id.n]
    BY DEF AltAccountId
  <2> QED
    BY <1>2, <2>1, <2>2 DEF AccountIds, Forms, NumericPart
<1>3. CASE id.form = "other"
  BY <1>3 DEF AltAccountId
<1> QED
  BY <1>1, <1>2, <1>3 DEF AccountIds, Forms

\* What a file can hold.
TableOK(t) ==
  IsFiniteSet(DOMAIN t) /\ DOMAIN t \subseteq AccountIds /\ t \in [DOMAIN t -> Nat]

\* The fallback answers with a row of the table that no numbered row is nearer
\* than; it answers for every number when all rows are real accounts.
LEMMA FallbackNearest ==
  ASSUME NEW t, TableOK(t), NEW keys \in SortedKeys(t), NEW id \in AccountIds
  PROVE  LET row == NearestRow(t, keys, id)
         IN  /\ row # None =>
                  /\ row \in DOMAIN t
                  /\ \A other \in DOMAIN t : NumericPart(other) >= 0 =>
                        Distance(row.n, id.n) <= Distance(other.n, id.n)
             /\ ( /\ NumericPart(id) >= 0 /\ DOMAIN t # {}
                  /\ \A other \in DOMAIN t : other.form = "ACCT" ) => row # None
<1>1. PICK n \in Nat :
        /\ keys \in [1..n -> Int]
        /\ \A i, j \in 1..n : i <= j => keys[i] <= keys[j]
        /\ \A i \in 1..n : \E r \in DOMAIN t : keys[i] = NumericPart(r)
        /\ \A r \in DOMAIN t : \E i \in 1..n : keys[i] = NumericPart(r)
  BY KeysSorted DEF TableOK
<1>2. PICK target \in Int : target = NumericPart(id) /\ (target >= 0 => target = id.n)
  BY DEF NumericPart, AccountIds
<1>3. PICK S : S = Candidates(keys, target)
  OBVIOUS
<1>4. /\ S \subseteq {keys[i] : i \in 1..n}
      /\ n # 0 => S # {}
      /\ \E a, b \in Int : S \subseteq {a, b}
      /\ \A j \in 1..n : \E c \in S : Distance(c, target) <= Distance(keys[j], target)
  BY <1>1, <1>3, CandidateKeys
<1>5. S \subseteq Int
  BY <1>1, <1>4
<1>6. PICK near : near = Nearest(S, target)
  OBVIOUS
<1>7. S # {} => near \in S /\ \A d \in S : Distance(near, target) <= Distance(d, target)
  BY <1>4, <1>6, NearestOfCandidates
<1> DEFINE answer == [form |-> "ACCT", n |-> near]
<1>8. NearestRow(t, keys, id) = IF target < 0 \/ S = {} \/ answer \notin DOMAIN t THEN None ELSE answer
  BY <1>2, <1>3, <1>6 DEF NearestRow
<1>9. ASSUME ~(target < 0 \/ S = {} \/ answer \notin DOMAIN t), NEW other \in DOMAIN t,
             NumericPart(other) >= 0
      PROVE  Distance(answer.n, id.n) <= Distance(other.n, id.n)
  <2>1. other \in AccountIds /\ NumericPart(other) = other.n
    BY <1>9 DEF TableOK, NumericPart
  <2>2. PICK j \in 1..n : keys[j] = other.n
    BY <1>1, <2>1
  <2>3. PICK c \in S : Distance(c, target) <= Distance(keys[j], target)
    BY <1>4
  <2>4. Distance(near, target) <= Distance(c, target) /\ near \in Int /\ c \in Int /\ keys[j] \in Int
    BY <1>1, <1>5, <1>7, <1>9
  <2>5. target = id.n /\ answer.n = near
    BY <1>2, <1>9
  <2>6. /\ Distance(near, target) \in Int /\ Distance(c, target) \in Int
        /\ Distance(keys[j], target) \in Int
    BY <2>4 DEF Distance
  <2>7. Distance(near, target) <= Distance(keys[j], target)
    BY <2>3, <2>4, <2>6
  <2> QED
    BY <2>2, <2>5, <2>7
<1>10. ASSUME NumericPart(id) >= 0, DOMAIN t # {}, \A other \in DOMAIN t : other.form = "ACCT"
       PROVE  ~(target < 0 \/ S = {} \/ answer \notin DOMAIN t) /\ answer # None
  <2>1. n # 0 /\ S # {}
    <3>1. PICK r \in DOMAIN t : TRUE
      BY <1>10
    <3>2. PICK i \in 1..n : keys[i] = NumericPart(r)
      BY <1>1, <3>1
    <3> QED
      BY <1>4, <3>2
  <2>2. PICK i \in 1..n : near = keys[i]
    BY <1>4, <1>7, <2>1
  <2>3. PICK r \in DOMAIN t : near = NumericPart(r)
    BY <1>1, <2>2
  <2>4. r.form = "ACCT" /\ r \in AccountIds
    BY <1>10 DEF TableOK
  <2>5. near = r.n /\ r = [form |-> "ACCT", n |-> r.n]
    BY <2>3, <2>4 DEF NumericPart, AccountIds
  <2>6. answer = r
    BY <2>5
  <2> HIDE DEF answer
  <2> QED
    BY <1>2, <1>10, <2>1, <2>4, <2>6, IdAssumption
<1> HIDE DEF answer
<1> QED
  BY <1>8, <1>9, <1>10
-----------------------------------------------------------------------------
(* The fusion                                                              *)

LEMMA ProductMonotone ==
  ASSUME NEW w \in Nat, NEW x \in Nat, NEW y \in Nat, x <= y
  PROVE  w * x \in Nat /\ w * y \in Nat /\ w * x <= w * y
<1>1. PICK j \in Nat : y = x + j
  OBVIOUS
<1>2. w * y = w * x + w * j /\ w * x \in Nat /\ w * j \in Nat
  BY <1>1
<1> QED
  BY <1>2

LEMMA QuotientExact ==
  ASSUME NEW d \in Nat \ {0}, NEW k \in Nat
  PROVE  (d * k) \div d = k
<1> DEFINE q == (d * k) \div d
<1>1. d * k \in Nat
  OBVIOUS
<1>2. q \in Nat /\ d * q <= d * k /\ d * k < d * q + d
  BY <1>1, Quotient
<1> HIDE DEF q
<1>3. ASSUME q < k PROVE FALSE
  <2>1. PICK j \in Nat : k = q + 1 + j
    BY <1>2, <1>3
  <2>2. d * k = d * q + d + d * j /\ d * j \in Nat /\ d * q \in Nat
    BY <1>2, <2>1
  <2> QED
    BY <1>2, <2>2
<1>4. ASSUME k < q PROVE FALSE
  <2>1. PICK j \in Nat : q = k + 1 + j
    BY <1>2, <1>4
  <2>2. d * q = d * k + d + d * j /\ d * j \in Nat
    BY <1>2, <2>1
  <2> QED
    BY <1>1, <1>2, <2>2
<1>5. q = k
  BY <1>2, <1>3, <1>4
<1> QED
  BY <1>5 DEF q

\* A weighted mean, rounded down, lies between bounds of what it is the mean of.
LEMMA WeightedMean ==
  ASSUME NEW w \in Nat \ {0}, NEW p \in Nat, NEW q \in Nat,
         NEW x \in Nat, NEW y \in Nat, NEW z \in Nat, NEW low \in Nat, NEW high \in Nat,
         low <= x, low <= y, low <= z, x <= high, y <= high, z <= high
  PROVE  LET mean == (w * x + p * y + q * z) \div (w + p + q)
         IN  mean \in Nat /\ low <= mean /\ mean <= high
<1> DEFINE d == w + p + q
           sum == w * x + p * y + q * z
<1>1. /\ w * low <= w * x /\ w * x <= w * high /\ w * low \in Nat /\ w * x \in Nat /\ w * high \in Nat
      /\ p * low <= p * y /\ p * y <= p * high /\ p * low \in Nat /\ p * y \in Nat /\ p * high \in Nat
      /\ q * low <= q * z /\ q * z <= q * high /\ q * low \in Nat /\ q * z \in Nat /\ q * high \in Nat
  BY ProductMonotone
<1>2. d * low = w * low + p * low + q * low /\ d * high = w * high + p * high + q * high
  OBVIOUS
<1>3. d \in Nat \ {0} /\ sum \in Nat /\ d * low <= sum /\ sum <= d * high
      /\ d * low \in Nat /\ d * high \in Nat
  BY <1>1, <1>2
<1> HIDE DEF d, sum
<1>4. (d * low) \div d <= sum \div d /\ sum \div d <= (d * high) \div d /\ sum \div d \in Nat
  BY <1>3, Quotient, QuotientMonotone
<1>5. (d * low) \div d = low /\ (d * high) \div d = high
  BY <1>3, QuotientExact
<1>6. sum \div d \in Nat /\ low <= sum \div d /\ sum \div d <= high
  BY <1>4, <1>5
<1> QED
  BY <1>6 DEF d, sum

\* What the files, the tables, their indexes and the weights are: the weights are
\* those of the embeddings there are, and sum to one.
TablesInv ==
  /\ \A k \in Kinds : files[k] = None \/ files[k] \in Tables[k]
  /\ DOMAIN table = Kinds /\ \A k \in Kinds : TableOK(table[k])
  /\ ~loaded => \A k \in Kinds : table[k] = EmptyTable
  /\ Enabled(table) => \A k \in Kinds : index[k] \in SortedKeys(table[k])

WeightsInv ==
  LET Kept(k, share) == IF ~Enabled(table) \/ Has(table, k) THEN share ELSE 0
  IN  weight = [ lgb |-> 100 - Kept("thgnn", 8) - Kept("simclr", 4),
                 thgnn |-> Kept("thgnn", 8), simclr |-> Kept("simclr", 4) ]

LEMMA EmptyIsTable == TableOK(EmptyTable) /\ DOMAIN EmptyTable = {}
<1>1. DOMAIN EmptyTable = {} /\ EmptyTable \in [DOMAIN EmptyTable -> Nat]
  BY DEF EmptyTable
<1>2. IsFiniteSet({})
  BY FS_EmptySet
<1> QED
  BY <1>1, <1>2 DEF TableOK

LEMMA InitTables == Init => TablesInv /\ WeightsInv
<1> SUFFICES ASSUME Init PROVE TablesInv /\ WeightsInv
  OBVIOUS
<1>1. \A k \in Kinds : table[k] = EmptyTable
  BY DEF Init
<1>2. ~Enabled(table)
  BY <1>1, EmptyIsTable DEF Enabled, Has
<1>3. \A k \in Kinds : files[k] = None \/ files[k] \in Tables[k]
  BY DEF Init, Kinds
<1>4. DOMAIN table = Kinds
  BY DEF Init
<1>5. WeightsInv
  BY <1>2 DEF Init, WeightsInv
<1> QED
  BY <1>1, <1>2, <1>3, <1>4, <1>5, EmptyIsTable DEF TablesInv

LEMMA NextTables == TablesInv /\ WeightsInv /\ [Next]_vars => TablesInv' /\ WeightsInv'
<1> SUFFICES ASSUME TablesInv, WeightsInv, [Next]_vars PROVE TablesInv' /\ WeightsInv'
  OBVIOUS
<1>1. CASE Load
  <2>1. /\ ~loaded /\ loaded' /\ files' = files /\ table' = [k \in Kinds |-> ReadFile(k)]
    BY <1>1 DEF Load
  <2>2. \A k \in Kinds : TableOK(table'[k])
    <3> SUFFICES ASSUME NEW k \in Kinds PROVE TableOK(ReadFile(k))
      BY <2>1
    <3>1. CASE files[k] = None
      BY <3>1, EmptyIsTable DEF ReadFile
    <3>2. CASE files[k] # None
      BY <3>2, IdAssumption DEF ReadFile, TablesInv, TableOK
    <3> QED
      BY <3>1, <3>2
  <2>3. ~Enabled(table)
    BY <2>1, EmptyIsTable DEF TablesInv, Enabled, Has
  <2>4. /\ weight["lgb"] = 88 /\ weight["thgnn"] = 8 /\ weight["simclr"] = 4
        /\ weight = [lgb |-> 88, thgnn |-> 8, simclr |-> 4]
    BY <2>3 DEF WeightsInv
  <2>5. CASE Enabled(table')
    <3>1. weight' = RenormalizeWeights(table')
      BY <1>1, <2>5 DEF Load
    <3>2. \A k \in Kinds : index'[k] \in SortedKeys(table'[k])
      <4>1. \E thgnn \in SortedKeys(table'["thgnn"]), simclr \in SortedKeys(table'["simclr"]) :
               index' = [thgnn |-> thgnn, simclr |-> simclr]
        BY <1>1, <2>5 DEF Load
      <4> QED
        BY <4>1 DEF Kinds
    <3>3. WeightsInv'
      BY <2>4, <2>5, <3>1 DEF WeightsInv, RenormalizeWeights, Enabled, Has
    <3> QED
      BY <2>1, <2>2, <3>2, <3>3 DEF TablesInv
  <2>6. CASE ~Enabled(table')
    <3>1. weight' = weight
      BY <1>1, <2>6 DEF Load
    <3>2. WeightsInv'
      BY <2>4, <2>6, <3>1 DEF WeightsInv
    <3> QED
      BY <2>1, <2>2, <2>6, <3>2 DEF TablesInv
  <2> QED
    BY <2>5, <2>6
<1>2. CASE UNCHANGED <<files, loaded, table, index, weight>>
  BY <1>2 DEF TablesInv, WeightsInv
<1> QED
  BY <1>1, <1>2 DEF Next, Score, vars

LEMMA Weights ==
  ASSUME WeightsInv
  PROVE  /\ weight["lgb"] \in Nat \ {0} /\ weight["thgnn"] \in {0, 8} /\ weight["simclr"] \in {0, 4}
         /\ weight["lgb"] + weight["thgnn"] + weight["simclr"] = 100 /\ weight["lgb"] >= 88
         /\ ~Enabled(table) => weight["lgb"] = 88
         /\ Enabled(table) => \A k \in Kinds : weight[k] > 0 <=> Has(table, k)
BY DEF WeightsInv, Kinds

\* The row that answers is a row of the table.
LEMMA RowOfPart ==
  ASSUME TablesInv, NEW id \in Ids \cup {None}, NEW k \in Parts(id)
  PROVE  /\ k \in Kinds /\ id \in AccountIds /\ Enabled(table)
         /\ Resolve(k, id) \in DOMAIN table[k] /\ table[k][Resolve(k, id)] \in Nat
<1>1. k \in Kinds /\ id \in AccountIds /\ Enabled(table) /\ Resolve(k, id) # None
  BY IdAssumption DEF Parts
<1>2. TableOK(table[k]) /\ index[k] \in SortedKeys(table[k])
  BY <1>1 DEF TablesInv
<1>3. Resolve(k, id) \in DOMAIN table[k]
  BY <1>1, <1>2, FallbackNearest DEF Resolve
<1> QED
  BY <1>1, <1>2, <1>3 DEF TableOK

\* The value with which an embedding enters the mean; with no weight, any value.
ValueOf(k, id, else) == IF k \in Parts(id) THEN table[k][Resolve(k, id)] ELSE else

LEMMA FuseIsMean ==
  ASSUME TablesInv, WeightsInv, NEW id \in Ids \cup {None}, NEW lgb \in Nat, NEW else \in Nat
  PROVE  /\ \A k \in Kinds : Share(k, id) \in Nat /\ ValueOf(k, id, else) \in Nat
         /\ Fuse(lgb, id) =
               ( weight["lgb"] * lgb + Share("thgnn", id) * ValueOf("thgnn", id, else)
                 + Share("simclr", id) * ValueOf("simclr", id, else) )
               \div (weight["lgb"] + Share("thgnn", id) + Share("simclr", id))
<1>1. \A k \in Kinds : weight[k] \in Nat
  BY Weights DEF Kinds
<1>2. \A k \in Kinds : Share(k, id) \in Nat /\ ValueOf(k, id, else) \in Nat
  BY <1>1, RowOfPart DEF Share, ValueOf
<1>3. \A k \in Kinds : Addend(k, id) = Share(k, id) * ValueOf(k, id, else)
  <2> SUFFICES ASSUME NEW k \in Kinds PROVE Addend(k, id) = Share(k, id) * ValueOf(k, id, else)
    OBVIOUS
  <2>1. CASE k \in Parts(id)
    BY <2>1 DEF Addend, Share, ValueOf
  <2>2. CASE k \notin Parts(id)
    BY <2>2, 0 * else = 0 DEF Addend, Share, ValueOf
  <2> QED
    BY <2>1, <2>2
<1>4. "thgnn" \in Kinds /\ "simclr" \in Kinds
  BY DEF Kinds
<1> QED
  BY <1>2, <1>3, <1>4 DEF Fuse

LEMMA FuseBetween ==
  ASSUME TablesInv, WeightsInv, NEW id \in Ids \cup {None}, NEW lgb \in Nat
  PROVE  /\ Fuse(lgb, id) \in Nat
         /\ \E low, high \in {lgb} \cup {table[k][Resolve(k, id)] : k \in Parts(id)} :
              low <= Fuse(lgb, id) /\ Fuse(lgb, id) <= high
         /\ Parts(id) = {} => Fuse(lgb, id) = lgb
<1> DEFINE y == ValueOf("thgnn", id, lgb)
           z == ValueOf("simclr", id, lgb)
           fused == {lgb} \cup {table[k][Resolve(k, id)] : k \in Parts(id)}
<1>1. "thgnn" \in Kinds /\ "simclr" \in Kinds
  BY DEF Kinds
<1>2. y \in Nat /\ z \in Nat /\ y \in fused /\ z \in fused
  BY <1>1, FuseIsMean DEF ValueOf
<1>3. PICK p \in Nat, q \in Nat, w \in Nat \ {0} :
        p = Share("thgnn", id) /\ q = Share("simclr", id) /\ w = weight["lgb"]
  <2>1. /\ Share("thgnn", id) \in Nat /\ Share("simclr", id) \in Nat
        /\ weight["lgb"] \in Nat \ {0}
    BY <1>1, FuseIsMean, Weights
  <2> QED
    BY <2>1
<1>4. Fuse(lgb, id) = (w * lgb + p * y + q * z) \div (w + p + q)
  BY <1>3, FuseIsMean
<1>5. Parts(id) = {} => y = lgb /\ z = lgb
  BY DEF ValueOf
<1> HIDE DEF y, z, fused
<1>6. \E low, high \in {lgb, y, z} : /\ low <= lgb /\ low <= y /\ low <= z
                                   /\ lgb <= high /\ y <= high /\ z <= high
  <2>1. \E low \in {lgb, y, z} : low <= lgb /\ low <= y /\ low <= z
    BY <1>2
  <2>2. \E high \in {lgb, y, z} : lgb <= high /\ y <= high /\ z <= high
    BY <1>2
  <2> QED
    BY <2>1, <2>2
<1>7. PICK low \in {lgb, y, z}, high \in {lgb, y, z} :
        /\ low <= lgb /\ low <= y /\ low <= z
        /\ lgb <= high /\ y <= high /\ z <= high
  BY <1>6
<1>8. Fuse(lgb, id) \in Nat /\ low <= Fuse(lgb, id) /\ Fuse(lgb, id) <= high
  BY <1>2, <1>4, <1>7, WeightedMean
<1>9. low \in fused /\ high \in fused
  BY <1>2 DEF fused
<1>10. Parts(id) = {} => Fuse(lgb, id) = lgb
  BY <1>2, <1>5, <1>7, <1>8
<1> QED
  BY <1>8, <1>9, <1>10 DEF fused

\* A higher blend never fuses lower.
LEMMA FuseMonotone ==
  ASSUME TablesInv, WeightsInv, NEW id \in Ids \cup {None}, NEW x \in Nat, NEW y \in Nat, x <= y
  PROVE  Fuse(x, id) <= Fuse(y, id)
<1>1. "thgnn" \in Kinds /\ "simclr" \in Kinds
  BY DEF Kinds
<1>2. PICK p \in Nat, q \in Nat, w \in Nat \ {0}, b \in Nat, c \in Nat :
        /\ p = Share("thgnn", id) /\ q = Share("simclr", id) /\ w = weight["lgb"]
        /\ b = ValueOf("thgnn", id, 0) /\ c = ValueOf("simclr", id, 0)
  <2>1. /\ Share("thgnn", id) \in Nat /\ Share("simclr", id) \in Nat
        /\ weight["lgb"] \in Nat \ {0}
    BY <1>1, FuseIsMean, Weights
  <2>2. ValueOf("thgnn", id, 0) \in Nat /\ ValueOf("simclr", id, 0) \in Nat
    BY <1>1, FuseIsMean
  <2> QED
    BY <2>1, <2>2
<1>3. Fuse(x, id) = (w * x + p * b + q * c) \div (w + p + q)
  BY <1>2, FuseIsMean
<1>4. Fuse(y, id) = (w * y + p * b + q * c) \div (w + p + q)
  BY <1>2, FuseIsMean
<1>5. w * x \in Nat /\ w * y \in Nat /\ w * x <= w * y /\ p * b \in Nat /\ q * c \in Nat
  BY ProductMonotone
<1>6. /\ w * x + p * b + q * c \in Nat /\ w * y + p * b + q * c \in Nat
      /\ w * x + p * b + q * c <= w * y + p * b + q * c /\ w + p + q \in Nat \ {0}
  BY <1>5
<1> QED
  BY <1>3, <1>4, <1>6, QuotientMonotone
-----------------------------------------------------------------------------
(* The last result                                                         *)

\* A result is what scoring would give now, or it was given before the tables were
\* loaded and is the blend alone.
ResultInv ==
  result # None =>
    /\ result.id \in Ids \cup {None} /\ result.lgb \in Nat /\ result.score \in Nat
    /\ result.display = ScoreToDisplay(result.score)
    /\ result.level = ScoreToLevel(result.score)
    /\ result.is_alert = (result.score >= Threshold)
    /\ result.on \in BOOLEAN
    /\ result.on =>
         /\ Enabled(table) /\ result.score = Fuse(result.lgb, result.id)
         /\ \A k \in Kinds :
              Row(k) = IF k \in Parts(result.id) THEN Resolve(k, result.id) ELSE None
    /\ ~result.on => result.score = result.lgb /\ \A k \in Kinds : Row(k) = None

LEMMA Blended ==
  ASSUME NEW m1 \in Outputs, NEW m2 \in Outputs
  PROVE  Blend(m1, m2) \in Nat
<1>1. 55 * m1 + 45 * m2 \in Nat
  BY IdAssumption
<1> QED
  BY <1>1, Quotient DEF Blend

LEMMA NextResult ==
  TablesInv /\ WeightsInv /\ ResultInv /\ [Next]_vars => ResultInv'
<1> SUFFICES ASSUME TablesInv, WeightsInv, ResultInv, [Next]_vars PROVE ResultInv'
  OBVIOUS
<1>1. CASE Load
  <2>1. ~Enabled(table)
    BY <1>1, EmptyIsTable DEF Load, TablesInv, Enabled, Has
  <2>2. result' = result
    BY <1>1 DEF Load
  <2>3. result # None => ~result.on
    BY <2>1 DEF ResultInv
  <2> QED
    BY <2>2, <2>3 DEF ResultInv, Row
<1>2. ASSUME NEW id \in Ids \cup {None}, NEW m1 \in Outputs, NEW m2 \in Outputs, Score(id, m1, m2)
      PROVE  ResultInv'
  <2>1. PICK lgb \in Nat : lgb = Blend(m1, m2)
    BY Blended
  <2>2. /\ result' = ResultOf(id, lgb, Fuse(lgb, id))
        /\ UNCHANGED <<table, index, weight>>
    BY <1>2, <2>1 DEF Score
  <2>3. Fuse(lgb, id) \in Nat /\ (Parts(id) = {} => Fuse(lgb, id) = lgb)
    BY FuseBetween
  <2>4. PICK fused \in Nat : fused = Fuse(lgb, id)
    BY <2>3
  <2>5. /\ result'.id = id /\ result'.lgb = lgb /\ result'.score = fused
        /\ result'.on = Enabled(table)
        /\ result'.display = ScoreToDisplay(fused) /\ result'.level = ScoreToLevel(fused)
        /\ result'.is_alert = (fused >= Threshold)
        /\ \A k \in Kinds : result'.row[k] = IF k \in Parts(id) THEN Resolve(k, id) ELSE None
    BY <2>2, <2>4 DEF ResultOf
  <2>6. /\ Fuse(lgb, id)' = Fuse(lgb, id) /\ Enabled(table)' = Enabled(table)
        /\ Parts(id)' = Parts(id) /\ \A k \in Kinds : Resolve(k, id)' = Resolve(k, id)
    BY <2>2 DEF Fuse, Addend, Share, Parts, Resolve, Enabled, Has
  <2>7. ~Enabled(table) => Parts(id) = {}
    BY DEF Parts
  <2>8. Enabled(table) \in BOOLEAN
    BY DEF Enabled
  <2> QED
    BY <2>3, <2>4, <2>5, <2>6, <2>7, <2>8 DEF ResultInv, Row
<1>3. CASE UNCHANGED vars
  <2>1. UNCHANGED <<table, index, weight, result>>
    BY <1>3 DEF vars
  <2> QED
    BY <2>1 DEF ResultInv, Row, Fuse, Addend, Share, Parts, Resolve, Enabled, Has
<1> QED
  BY <1>1, <1>2, <1>3 DEF Next

ScoringInv == TablesInv /\ WeightsInv /\ ResultInv

LEMMA ScoringHolds == Spec => []ScoringInv
<1>1. Init => ScoringInv
  BY InitTables DEF Init, ScoringInv, ResultInv
<1>2. ScoringInv /\ [Next]_vars => ScoringInv'
  BY NextTables, NextResult DEF ScoringInv
<1> QED
  BY <1>1, <1>2, PTL DEF Spec

\* The weights sum to one whichever files could be read, and a fused score lies
\* between the smallest and the largest of the blend and the rows that were found,
\* for every table and blend: the share of a row that is missing goes nowhere.
THEOREM FusedIsMean == Spec => []FusionIsMean
<1>1. ScoringInv => FusionIsMean
  <2> SUFFICES ASSUME ScoringInv PROVE FusionIsMean
    OBVIOUS
  <2>1. WeightsSumToOne
    BY Weights DEF ScoringInv, WeightsSumToOne
  <2>2. ASSUME result # None
        PROVE  \E low, high \in {result.lgb} \cup {table[k][Row(k)] : k \in Used} :
                 low <= result.score /\ result.score <= high
    <3>1. CASE result.on
      <4>1. PICK id \in Ids \cup {None}, lgb \in Nat : id = result.id /\ lgb = result.lgb
        BY <2>2 DEF ScoringInv, ResultInv
      <4>2. PICK low, high \in {lgb} \cup {table[k][Resolve(k, id)] : k \in Parts(id)} :
              low <= Fuse(lgb, id) /\ Fuse(lgb, id) <= high
        BY FuseBetween DEF ScoringInv
      <4>3. \A k \in Parts(id) : k \in Used /\ Row(k) = Resolve(k, id)
        <5> SUFFICES ASSUME NEW k \in Parts(id) PROVE k \in Used /\ Row(k) = Resolve(k, id)
          OBVIOUS
        <5>1. k \in Kinds /\ Resolve(k, id) # None
          BY DEF Parts
        <5>2. Row(k) = Resolve(k, id)
          BY <2>2, <3>1, <4>1, <5>1 DEF ScoringInv, ResultInv
        <5> QED
          BY <5>1, <5>2 DEF Used
      <4>4. {table[k][Resolve(k, id)] : k \in Parts(id)} \subseteq {table[k][Row(k)] : k \in Used}
        BY <4>3
      <4>5. result.score = Fuse(lgb, id)
        BY <2>2, <3>1, <4>1 DEF ScoringInv, ResultInv
      <4> QED
        BY <4>1, <4>2, <4>4, <4>5
    <3>2. CASE ~result.on
      <4>1. result.score = result.lgb /\ result.lgb \in Nat
        BY <2>2, <3>2 DEF ScoringInv, ResultInv
      <4> QED
        BY <4>1
    <3> QED
      BY <3>1, <3>2
  <2> QED
    BY <2>1, <2>2 DEF FusionIsMean, FusedBetween
<1> QED
  BY ScoringHolds, <1>1, PTL

\* The row that answers is the account's own or its alias's, or the nearest by
\* number, and with a table of real accounts every number gets one, for every
\* table: the binary search over keys that repeat and are not contiguous, its two
\* candidates and its ends.
THEOREM ResolvedNearest == Spec => []ResolvesNearest
<1>1. ScoringInv => ResolvesNearest
  <2> SUFFICES ASSUME ScoringInv, result # None PROVE ResolvesNearest
    BY DEF ResolvesNearest, NearestIsNearest, RealTablesAnswer
  <2>1. PICK id : id = result.id
    OBVIOUS
  <2>2. id \in Ids \cup {None} /\ TablesInv /\ WeightsInv
    BY <2>1 DEF ScoringInv, ResultInv
  <2>3. ASSUME result.on, NEW k \in Kinds
        PROVE  /\ Enabled(table) /\ TableOK(table[k]) /\ index[k] \in SortedKeys(table[k])
               /\ Row(k) = IF k \in Parts(id) THEN Resolve(k, id) ELSE None
    BY <2>1, <2>3 DEF ScoringInv, ResultInv, TablesInv
  <2>4. ASSUME NEW k \in Used
        PROVE  LET own == {id, AltAccountId(id)} \cap DOMAIN table[k]
               IN  IF own # {} THEN Row(k) \in own
                   ELSE \A other \in DOMAIN table[k] : NumericPart(other) >= 0 =>
                          Distance(Row(k).n, id.n) <= Distance(other.n, id.n)
    <3>1. k \in Kinds /\ Row(k) # None /\ result.on
      BY DEF Used, ScoringInv, ResultInv
    <3>2. Row(k) = Resolve(k, id) /\ k \in Parts(id)
      BY <2>3, <3>1
    <3>3. id \in AccountIds
      BY <2>2, <3>2, RowOfPart
    <3>4. CASE id \in DOMAIN table[k] \/ AltAccountId(id) \in DOMAIN table[k]
      BY <3>2, <3>4 DEF Resolve
    <3>5. CASE ~(id \in DOMAIN table[k] \/ AltAccountId(id) \in DOMAIN table[k])
      <4>1. Row(k) = NearestRow(table[k], index[k], id)
        BY <3>2, <3>5 DEF Resolve
      <4>2. \A other \in DOMAIN table[k] : NumericPart(other) >= 0 =>
              Distance(Row(k).n, id.n) <= Distance(other.n, id.n)
        BY <2>3, <3>1, <3>3, <4>1, FallbackNearest
      <4> QED
        BY <3>5, <4>2
    <3> QED
      BY <3>4, <3>5
  <2>5. ASSUME NEW k \in Kinds, result.on, id # None, NumericPart(id) >= 0, Has(table, k),
               \A r \in DOMAIN table[k] : r.form = "ACCT"
        PROVE  Row(k) # None
    <3>1. id \in AccountIds
      BY <2>2, <2>5, IdAssumption
    <3>2. NearestRow(table[k], index[k], id) # None
      BY <2>3, <2>5, <3>1, FallbackNearest DEF Has
    <3>3. None \notin DOMAIN table[k]
      BY <2>3, <2>5, IdAssumption DEF TableOK
    <3>4. Resolve(k, id) # None
      BY <3>2, <3>3 DEF Resolve
    <3>5. k \in Parts(id)
      BY <2>2, <2>3, <2>5, <3>4, Weights DEF Parts
    <3> QED
      BY <2>3, <2>5, <3>4, <3>5
  <2> QED
    BY <2>1, <2>4, <2>5 DEF ResolvesNearest, NearestIsNearest, RealTablesAnswer
<1> QED
  BY ScoringHolds, <1>1, PTL

\* The level, the gauge and the alert flag of a result are about the same score,
\* for every threshold and width of a band.
THEOREM LevelsMatch == Spec => []LevelsAgree
<1>1. ScoringInv => LevelsAgree
  <2> SUFFICES ASSUME ScoringInv, result # None
               PROVE  /\ result.display \in Gauge(result.level)
                      /\ result.is_alert <=> result.level # "LOW"
    BY DEF LevelsAgree
  <2>1. PICK s \in Nat : /\ s = result.score /\ result.display = ScoreToDisplay(s)
                         /\ result.level = ScoreToLevel(s) /\ result.is_alert = (s >= Threshold)
    BY DEF ScoringInv, ResultInv
  <2> QED
    BY <2>1, DisplayInBand
<1> QED
  BY ScoringHolds, <1>1, PTL

\* The two ids of an account find the same rows, unless a table has both.
LEMMA AliasesResolve ==
  ASSUME TablesInv, NEW id \in AccountIds, id.form # "other", NEW k \in Kinds,
         ~({id, AltAccountId(id)} \subseteq DOMAIN table[k])
  PROVE  Resolve(k, AltAccountId(id)) = Resolve(k, id)
<1>1. PICK alt \in AccountIds : /\ alt = AltAccountId(id) /\ AltAccountId(alt) = id
                               /\ NumericPart(alt) = NumericPart(id)
  BY AliasOfAlias
<1>2. NearestRow(table[k], index[k], alt) = NearestRow(table[k], index[k], id)
  BY <1>1 DEF NearestRow
<1>3. /\ Resolve(k, id) = IF id \in DOMAIN table[k] THEN id
                          ELSE IF alt \in DOMAIN table[k] THEN alt
                          ELSE NearestRow(table[k], index[k], id)
      /\ Resolve(k, alt) = IF alt \in DOMAIN table[k] THEN alt
                           ELSE IF id \in DOMAIN table[k] THEN id
                           ELSE NearestRow(table[k], index[k], alt)
  BY <1>1 DEF Resolve
<1> QED
  BY <1>1, <1>2, <1>3

\* Two results of one state of the tables.
LEMMA SameFusion ==
  ASSUME ScoringInv, ScoringInv', [Next]_vars, result # None, result' # None,
         result'.on = result.on
  PROVE  /\ ~result.on => result.score = result.lgb /\ result'.score = result'.lgb
         /\ result.on => /\ result.score = Fuse(result.lgb, result.id)
                        /\ result'.score = Fuse(result'.lgb, result'.id)
<1>1. ASSUME ~result.on
      PROVE  result.score = result.lgb /\ result'.score = result'.lgb
  BY <1>1 DEF ScoringInv, ResultInv
<1>2. ASSUME result.on
      PROVE  /\ result.score = Fuse(result.lgb, result.id)
             /\ result'.score = Fuse(result'.lgb, result'.id)
  <2>1. Enabled(table) /\ result.score = Fuse(result.lgb, result.id)
    BY <1>2 DEF ScoringInv, ResultInv
  <2>2. loaded
    BY <2>1, EmptyIsTable DEF ScoringInv, TablesInv, Enabled, Has
  <2>3. UNCHANGED <<table, index, weight>>
    BY <2>2 DEF Next, Load, Score, vars
  <2>4. result'.score = Fuse(result.lgb, result.id)'
    BY <1>2 DEF ScoringInv, ResultInv
  <2>5. Fuse(result.lgb, result.id)' = Fuse(result'.lgb, result'.id)
    BY <2>3 DEF Fuse, Addend, Share, Parts, Resolve, Enabled, Has
  <2> QED
    BY <2>1, <2>4, <2>5
<1> QED
  BY <1>1, <1>2

\* Scores agree with each other, for every table and threshold: a higher score is
\* never shown lower, a higher blend of one account never scores lower, and an
\* account scores the same under its synthetic and its real id.
THEOREM ScoresAgree == Spec => ScoresConsistent
<1> DEFINE Ordered ==
      result # None /\ result' # None =>
          /\ result'.score >= result.score =>
                /\ result'.display >= result.display
                /\ Rank[result'.level] >= Rank[result.level]
          /\ (result'.on = result.on /\ result'.id = result.id /\ result'.lgb >= result.lgb) =>
                result'.score >= result.score
    Agreed ==
      ( /\ result # None /\ result' # None
        /\ result.id # None /\ result'.id # None
        /\ result'.id = AltAccountId(result.id)
        /\ result'.lgb = result.lgb /\ result'.on = result.on
        /\ \A k \in Kinds : ~({result.id, result'.id} \subseteq DOMAIN table[k]) )
      => result'.score = result.score
<1>1. ScoringInv /\ ScoringInv' /\ [Next]_vars => Ordered
  <2> SUFFICES ASSUME ScoringInv, ScoringInv', [Next]_vars, result # None, result' # None
               PROVE  Ordered
    OBVIOUS
  <2>1. PICK s \in Nat : /\ s = result.score /\ result.display = ScoreToDisplay(s)
                         /\ result.level = ScoreToLevel(s)
    BY DEF ScoringInv, ResultInv
  <2>2. PICK t \in Nat : /\ t = result'.score /\ result'.display = ScoreToDisplay(t)
                         /\ result'.level = ScoreToLevel(t)
    BY DEF ScoringInv, ResultInv
  <2>3. ASSUME t >= s
        PROVE  result'.display >= result.display /\ Rank[result'.level] >= Rank[result.level]
    BY <2>1, <2>2, <2>3, NeverShownLower
  <2>4. ASSUME result'.on = result.on, result'.id = result.id, result'.lgb >= result.lgb
        PROVE  t >= s
    <3>1. PICK id \in Ids \cup {None}, x \in Nat, y \in Nat :
            id = result.id /\ x = result.lgb /\ y = result'.lgb
      BY DEF ScoringInv, ResultInv
    <3>2. CASE result.on
      <4>1. s = Fuse(x, id) /\ t = Fuse(y, id)
        BY <2>1, <2>2, <2>4, <3>1, <3>2, SameFusion
      <4>2. Fuse(x, id) <= Fuse(y, id)
        BY <2>4, <3>1, FuseMonotone DEF ScoringInv
      <4> QED
        BY <4>1, <4>2
    <3>3. CASE ~result.on
      BY <2>1, <2>2, <2>4, <3>1, <3>3, SameFusion
    <3> QED
      BY <3>2, <3>3
  <2> QED
    BY <2>1, <2>2, <2>3, <2>4
<1>2. ScoringInv /\ ScoringInv' /\ [Next]_vars => Agreed
  <2> SUFFICES ASSUME ScoringInv, ScoringInv', [Next]_vars, result # None, result' # None,
                      result.id # None, result'.id # None, result'.id = AltAccountId(result.id),
                      result'.lgb = result.lgb, result'.on = result.on,
                      \A k \in Kinds : ~({result.id, result'.id} \subseteq DOMAIN table[k])
               PROVE  result'.score = result.score
    OBVIOUS
  <2>1. CASE ~result.on
    BY <2>1, SameFusion
  <2>2. CASE result.on
    <3>1. PICK id \in AccountIds, lgb \in Nat : id = result.id /\ lgb = result.lgb
      BY IdAssumption DEF ScoringInv, ResultInv
    <3>2. PICK alt : alt = AltAccountId(id) /\ alt = result'.id /\ alt # None
      BY <3>1
    <3>3. id.form # "other" /\ id # None
      BY <3>1, <3>2, AliasOfAlias
    <3>4. \A k \in Kinds : Resolve(k, alt) = Resolve(k, id)
      BY <3>1, <3>2, <3>3, AliasesResolve DEF ScoringInv
    <3>5. Parts(alt) = Parts(id)
      BY <3>2, <3>3, <3>4 DEF Parts
    <3>6. /\ Share("thgnn", alt) = Share("thgnn", id) /\ Share("simclr", alt) = Share("simclr", id)
          /\ Addend("thgnn", alt) = Addend("thgnn", id) /\ Addend("simclr", alt) = Addend("simclr", id)
      BY <3>4, <3>5 DEF Share, Addend, Kinds
    <3>7. Fuse(lgb, alt) = Fuse(lgb, id)
      BY <3>6 DEF Fuse
    <3> QED
      BY <2>2, <3>1, <3>2, <3>7, SameFusion
  <2> QED
    BY <2>1, <2>2
<1> HIDE DEF Ordered, Agreed
<1>3. Spec => [][Ordered]_vars
  BY ScoringHolds, <1>1, PTL DEF Spec
<1>4. Spec => [][Agreed]_vars
  BY ScoringHolds, <1>2, PTL DEF Spec
<1>5. Spec => Monotone
  BY <1>3 DEF Ordered, Monotone
<1>6. Spec => AliasesAgree
  BY <1>4 DEF Agreed, AliasesAgree
<1> QED
  BY <1>5, <1>6 DEF ScoresConsistent
=============================================================================
