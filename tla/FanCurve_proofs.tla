---------------------------- MODULE FanCurve_proofs ----------------------------
(***************************************************************************)
(* Facts about the arithmetic of FanCurve, for every curve validate        *)
(* admits and every whole temperature.                                     *)
(***************************************************************************)
EXTENDS FanCurve, TLAPS, WellFoundedInduction, NaturalsInduction

\* Multiplying by a natural number preserves <=.
LEMMA MulMono ==
  ASSUME NEW a \in Int, NEW b \in Int, NEW c \in Nat, a <= b
  PROVE  a * c <= b * c
OBVIOUS

\* A product that is smaller for one factor is smaller in the other.
LEMMA MulCancel ==
  ASSUME NEW a \in Int, NEW b \in Int, NEW c \in Nat, a * c < b * c
  PROVE  a < b
BY MulMono

\* Flooring division by a positive number.
LEMMA Floor ==
  ASSUME NEW n \in Int, NEW d \in Nat \ {0}
  PROVE  /\ n \div d \in Int
         /\ (n \div d) * d <= n
         /\ n < (n \div d + 1) * d
OBVIOUS

\* A floor of n / d lies between the whole multiples of d that n lies between.
LEMMA FloorBetween ==
  ASSUME NEW n \in Int, NEW d \in Nat \ {0}, NEW low \in Int, NEW high \in Int,
         low * d <= n, n <= high * d
  PROVE  n \div d \in Int /\ low <= n \div d /\ n \div d <= high
<1> DEFINE q == n \div d
<1>1. q \in Int /\ q * d <= n /\ n < (q + 1) * d
  BY Floor
<1> HIDE DEF q
<1>2. low * d \in Int /\ high * d \in Int /\ q * d \in Int /\ (q + 1) * d \in Int
  BY <1>1
<1>3. low * d < (q + 1) * d
  BY <1>1, <1>2
<1>4. low < q + 1
  BY <1>1, <1>3, MulCancel
<1>5. q * d < (high + 1) * d
  <2>1. (high + 1) * d = high * d + d
    OBVIOUS
  <2> QED BY <1>1, <1>2, <2>1
<1>6. q < high + 1
  BY <1>1, <1>5, MulCancel
<1> QED BY <1>1, <1>4, <1>6 DEF q

\* A smaller number has no larger floor.
LEMMA FloorMono ==
  ASSUME NEW n \in Int, NEW m \in Int, NEW d \in Nat \ {0}, n <= m
  PROVE  n \div d <= m \div d
<1> DEFINE q == n \div d
           r == m \div d
<1>1. q \in Int /\ q * d <= n /\ r \in Int /\ m < (r + 1) * d
  BY Floor
<1> HIDE DEF q, r
<1>2. q * d \in Int /\ (r + 1) * d \in Int
  BY <1>1
<1>3. q * d < (r + 1) * d
  BY <1>1, <1>2
<1>4. q < r + 1
  BY <1>1, <1>3, MulCancel
<1> QED BY <1>1, <1>4 DEF q, r

\* Truncating down a chord stays within whatever bounds its ends.
LEMMA AlongBetween ==
  ASSUME NEW t0 \in Int, NEW t1 \in Int, NEW temp \in Int,
         NEW low \in Int, NEW high \in Int, NEW p0 \in low..high, NEW p1 \in low..high,
         t0 < t1, t0 <= temp, temp <= t1
  PROVE  Along(t0, p0, t1, p1, temp) \in low..high
<1> DEFINE d == t1 - t0
           x == temp - t0
           n == (p1 - p0) * x
<1>1. d \in Nat \ {0} /\ x \in Nat /\ x <= d
  OBVIOUS
<1>2. Along(t0, p0, t1, p1, temp) = p0 + n \div d
  BY DEF Along
<1> HIDE DEF d, x
<1>3. (low - p0) * d <= n /\ n <= (high - p0) * d
  <2>1. n \in Int
    BY <1>1
  <2>2. (low - p0) * x <= n /\ n <= (high - p0) * x
    BY <1>1, MulMono
  <2>3. (low - p0) * d <= (low - p0) * x
    <3>1. x * (p0 - low) <= d * (p0 - low)
      BY <1>1, MulMono
    <3>2. (low - p0) * d = -(d * (p0 - low)) /\ (low - p0) * x = -(x * (p0 - low))
      BY <1>1
    <3>3. x * (p0 - low) \in Int /\ d * (p0 - low) \in Int
      BY <1>1
    <3> QED BY <3>1, <3>2, <3>3
  <2>4. (high - p0) * x <= (high - p0) * d
    <3>1. x * (high - p0) <= d * (high - p0)
      BY <1>1, MulMono
    <3> QED BY <1>1, <3>1
  <2>5. /\ (low - p0) * d \in Int /\ (low - p0) * x \in Int
        /\ (high - p0) * d \in Int /\ (high - p0) * x \in Int
    BY <1>1
  <2> HIDE DEF n
  <2> QED BY <2>1, <2>2, <2>3, <2>4, <2>5
<1>4. n \in Int
  BY <1>1
<1> HIDE DEF n
<1>5. n \div d \in Int /\ low - p0 <= n \div d /\ n \div d <= high - p0
  BY <1>1, <1>3, <1>4, FloorBetween
<1> QED BY <1>2, <1>5

\* Up a rising chord the truncated value never falls.
LEMMA AlongMono ==
  ASSUME NEW t0 \in Int, NEW t1 \in Int, NEW s \in Int, NEW t \in Int,
         NEW p0 \in Int, NEW p1 \in Int, t0 < t1, s <= t, p0 <= p1
  PROVE  Along(t0, p0, t1, p1, s) <= Along(t0, p0, t1, p1, t)
<1> DEFINE d == t1 - t0
           c == p1 - p0
           x == s - t0
           y == t - t0
<1>1. d \in Nat \ {0} /\ c \in Nat /\ x \in Int /\ y \in Int /\ x <= y
  OBVIOUS
<1>2. /\ Along(t0, p0, t1, p1, s) = p0 + (c * x) \div d
      /\ Along(t0, p0, t1, p1, t) = p0 + (c * y) \div d
  BY DEF Along
<1> HIDE DEF d, c, x, y
<1>3. c * x <= c * y /\ c * x \in Int /\ c * y \in Int
  BY <1>1, MulMono
<1>4. (c * x) \div d <= (c * y) \div d
  BY <1>1, <1>3, FloorMono
<1>5. (c * x) \div d \in Int /\ (c * y) \div d \in Int
  BY <1>1, <1>3, Floor
<1> QED BY <1>2, <1>4, <1>5

\* The for loop finds a segment whenever the clamps in front of it do not
\* apply: the return after it is never reached.
LEMMA SegmentFound ==
  ASSUME NEW curve, ValidCurve(curve), NEW temp \in Int,
         TempAt(curve, 1) < temp, temp < TempAt(curve, Len(curve))
  PROVE  /\ Segment(curve, temp) \in 1..(Len(curve) - 1)
         /\ Spans(curve, Segment(curve, temp), temp)
<1> DEFINE S == 1..(Len(curve) - 1)
           Above == {i \in S : temp <= TempAt(curve, i + 1)}
<1>1. /\ Len(curve) \in Nat /\ Len(curve) >= 2
      /\ \A i \in 1..Len(curve) : TempAt(curve, i) \in Int
  BY DEF ValidCurve, TempAt
<1>2. Above # {}
  <2>1. Len(curve) - 1 \in Above
    BY <1>1
  <2> QED BY <2>1
<1>3. Above \subseteq Nat
  BY <1>1
<1>4. PICK i \in Above : \A j \in Above : ~(<<j, i>> \in OpToRel(<, Nat))
  <2> HIDE DEF Above
  <2> QED BY <1>2, <1>3, NatLessThanWellFounded, WFMin
<1>5. i \in S /\ i \in Nat /\ temp <= TempAt(curve, i + 1)
  BY <1>1
<1>6. \A j \in S : j < i => TempAt(curve, j + 1) < temp
  <2> SUFFICES ASSUME NEW j \in S, j < i, ~(TempAt(curve, j + 1) < temp)
               PROVE  FALSE
    OBVIOUS
  <2>1. j \in Nat /\ TempAt(curve, j + 1) \in Int
    BY <1>1
  <2>2. j \in Above
    BY <2>1
  <2>3. <<j, i>> \in OpToRel(<, Nat)
    BY <2>1, <1>5 DEF OpToRel
  <2> QED BY <1>4, <2>2, <2>3
<1>7. Spans(curve, i, temp)
  <2>1. CASE i = 1
    BY <2>1, <1>1, <1>5 DEF Spans
  <2>2. CASE i # 1
    <3>1. i - 1 \in S /\ i - 1 < i /\ (i - 1) + 1 = i
      BY <2>2, <1>1, <1>5
    <3>2. TempAt(curve, i) < temp
      BY <3>1, <1>6
    <3>3. TempAt(curve, i) \in Int
      BY <1>1, <1>5
    <3> QED BY <3>2, <3>3, <1>5 DEF Spans
  <2> QED BY <2>1, <2>2
<1>8. \A j \in 1..(i - 1) : ~Spans(curve, j, temp)
  <2> SUFFICES ASSUME NEW j \in 1..(i - 1) PROVE ~Spans(curve, j, temp)
    OBVIOUS
  <2>1. j \in S /\ j < i /\ TempAt(curve, j + 1) \in Int
    BY <1>1, <1>5
  <2> QED BY <2>1, <1>6 DEF Spans
<1> DEFINE First(k) == /\ Spans(curve, k, temp)
                       /\ \A j \in 1..(k - 1) : ~Spans(curve, j, temp)
<1>9. Segment(curve, temp) = CHOOSE k \in S : First(k)
  BY DEF Segment
<1>10. \E k \in S : First(k)
  BY <1>5, <1>7, <1>8
<1>11. (CHOOSE k \in S : First(k)) \in S /\ First(CHOOSE k \in S : First(k))
  <2> HIDE DEF First
  <2> QED BY <1>10
<1> QED BY <1>9, <1>11

\* What ValidCurve says of the points.
LEMMA PointTypes ==
  ASSUME NEW curve, ValidCurve(curve)
  PROVE  /\ Len(curve) \in Nat /\ Len(curve) >= 2
         /\ \A i \in 1..Len(curve) : TempAt(curve, i) \in Int
         /\ \A i \in 1..Len(curve) : PctAt(curve, i) \in Int
         /\ \A i \in 1..Len(curve) : PctAt(curve, i) \in 0..100
         /\ \A i, j \in 1..Len(curve) : i < j => TempAt(curve, i) <= TempAt(curve, j)
<1>1. /\ Len(curve) \in Nat /\ Len(curve) >= 2
      /\ \A i \in 1..Len(curve) : curve[i] \in Int \X (0..100)
  BY DEF ValidCurve
<1>2. \A i \in 1..Len(curve) : TempAt(curve, i) \in Int /\ PctAt(curve, i) \in 0..100
  BY <1>1 DEF TempAt, PctAt
<1>3. \A i \in 1..Len(curve) : PctAt(curve, i) \in Int
  <2> SUFFICES ASSUME NEW i \in 1..Len(curve) PROVE PctAt(curve, i) \in Int
    OBVIOUS
  <2>1. 0..100 \subseteq Int
    OBVIOUS
  <2> QED BY <1>2, <2>1, Zenon
<1> QED BY <1>1, <1>2, <1>3 DEF ValidCurve, Sorted

\* Between the clamps interpolate is the value of the segment that is found.
LEMMA OnSegment ==
  ASSUME NEW curve, ValidCurve(curve), NEW temp \in Int,
         TempAt(curve, 1) < temp, temp < TempAt(curve, Len(curve))
  PROVE  \E i \in 1..(Len(curve) - 1) :
           /\ i = Segment(curve, temp) /\ Spans(curve, i, temp)
           /\ interpolate(curve, temp) =
                IF TempAt(curve, i) = TempAt(curve, i + 1) THEN PctAt(curve, i + 1)
                ELSE Along(TempAt(curve, i), PctAt(curve, i),
                           TempAt(curve, i + 1), PctAt(curve, i + 1), temp)
<1>1. /\ Segment(curve, temp) \in 1..(Len(curve) - 1)
      /\ Spans(curve, Segment(curve, temp), temp)
  BY SegmentFound
<1>2. 1 \in 1..Len(curve) /\ Len(curve) \in 1..Len(curve)
  BY PointTypes
<1>3. TempAt(curve, 1) \in Int /\ TempAt(curve, Len(curve)) \in Int
  BY <1>2, PointTypes
<1> QED BY <1>1, <1>3 DEF interpolate

\* A segment's value lies within whatever bounds its two percentages.
LEMMA SegmentBetween ==
  ASSUME NEW curve, ValidCurve(curve), NEW temp \in Int,
         NEW i \in 1..(Len(curve) - 1), Spans(curve, i, temp),
         NEW low \in Int, NEW high \in Int,
         PctAt(curve, i) \in low..high, PctAt(curve, i + 1) \in low..high,
         interpolate(curve, temp) =
           IF TempAt(curve, i) = TempAt(curve, i + 1) THEN PctAt(curve, i + 1)
           ELSE Along(TempAt(curve, i), PctAt(curve, i),
                      TempAt(curve, i + 1), PctAt(curve, i + 1), temp)
  PROVE  interpolate(curve, temp) \in low..high
<1>1. i \in 1..Len(curve) /\ i + 1 \in 1..Len(curve)
  BY PointTypes
<1>2. TempAt(curve, i) \in Int /\ TempAt(curve, i + 1) \in Int
  BY <1>1, PointTypes
<1>3. TempAt(curve, i) <= temp /\ temp <= TempAt(curve, i + 1)
  BY DEF Spans
<1>4. CASE TempAt(curve, i) = TempAt(curve, i + 1)
  BY <1>4
<1>5. CASE TempAt(curve, i) # TempAt(curve, i + 1)
  <2>1. TempAt(curve, i) < TempAt(curve, i + 1)
    BY <1>2, <1>3, <1>5
  <2>2. Along(TempAt(curve, i), PctAt(curve, i),
              TempAt(curve, i + 1), PctAt(curve, i + 1), temp) \in low..high
    BY <1>2, <1>3, <2>1, AlongBetween
  <2> QED BY <1>5, <2>2
<1> QED BY <1>4, <1>5

\* interpolate never leaves the range of the points' percentages.
THEOREM InterpolateBetween ==
  ASSUME NEW curve, ValidCurve(curve), NEW temp \in Int,
         NEW low \in Int, NEW high \in Int,
         \A i \in 1..Len(curve) : PctAt(curve, i) \in low..high
  PROVE  interpolate(curve, temp) \in low..high
<1>1. 1 \in 1..Len(curve) /\ Len(curve) \in 1..Len(curve)
  BY PointTypes
<1>2. TempAt(curve, 1) \in Int /\ TempAt(curve, Len(curve)) \in Int
  BY <1>1, PointTypes
<1>3. CASE temp <= TempAt(curve, 1) \/ temp >= TempAt(curve, Len(curve))
  BY <1>1, <1>3 DEF interpolate
<1>4. CASE TempAt(curve, 1) < temp /\ temp < TempAt(curve, Len(curve))
  <2>1. PICK i \in 1..(Len(curve) - 1) :
          /\ Spans(curve, i, temp)
          /\ interpolate(curve, temp) =
               IF TempAt(curve, i) = TempAt(curve, i + 1) THEN PctAt(curve, i + 1)
               ELSE Along(TempAt(curve, i), PctAt(curve, i),
                          TempAt(curve, i + 1), PctAt(curve, i + 1), temp)
    BY <1>4, OnSegment
  <2>2. PctAt(curve, i) \in low..high /\ PctAt(curve, i + 1) \in low..high
    BY PointTypes
  <2> QED BY <2>1, <2>2, SegmentBetween
<1> QED BY <1>2, <1>3, <1>4

\* interpolate yields a percentage.
COROLLARY InterpolateRange ==
  ASSUME NEW curve, ValidCurve(curve), NEW temp \in Int
  PROVE  interpolate(curve, temp) \in 0..100
<1>1. \A i \in 1..Len(curve) : PctAt(curve, i) \in 0..100
  BY PointTypes
<1>2. 0 \in Int /\ 100 \in Int
  OBVIOUS
<1> QED BY <1>1, <1>2, InterpolateBetween, Zenon

\* Strictly between two neighbouring points interpolate is the whole percent
\* on or just below their chord, whatever the other points are.
THEOREM InterpolateOnChord ==
  ASSUME NEW curve, ValidCurve(curve), NEW temp \in Int, NEW i \in 1..(Len(curve) - 1)
  PROVE  OnChordOf(curve, i, temp)
<1> SUFFICES ASSUME TempAt(curve, i) < temp, temp < TempAt(curve, i + 1)
             PROVE  OnChordOf(curve, i, temp)
  BY DEF OnChordOf
<1>1. /\ Len(curve) \in Nat /\ i \in 1..Len(curve) /\ i + 1 \in 1..Len(curve)
      /\ 1 \in 1..Len(curve) /\ Len(curve) \in 1..Len(curve)
  BY PointTypes
<1>2. \A j \in 1..Len(curve) : TempAt(curve, j) \in Int /\ PctAt(curve, j) \in Int
  BY PointTypes
<1>3. /\ \A j \in 1..i : TempAt(curve, j) < temp
      /\ \A j \in (i + 1)..Len(curve) : temp < TempAt(curve, j)
  <2>1. ASSUME NEW j \in 1..i PROVE TempAt(curve, j) < temp
    <3>1. j \in 1..Len(curve) /\ TempAt(curve, j) \in Int /\ TempAt(curve, i) \in Int
      BY <1>1, <1>2
    <3>2. TempAt(curve, j) <= TempAt(curve, i)
      BY <1>1, <3>1, PointTypes
    <3> QED BY <3>1, <3>2
  <2>2. ASSUME NEW j \in (i + 1)..Len(curve) PROVE temp < TempAt(curve, j)
    <3>1. j \in 1..Len(curve) /\ TempAt(curve, j) \in Int /\ TempAt(curve, i + 1) \in Int
      BY <1>1, <1>2
    <3>2. TempAt(curve, i + 1) <= TempAt(curve, j)
      BY <1>1, <3>1, PointTypes
    <3> QED BY <3>1, <3>2
  <2> QED BY <2>1, <2>2
<1>4. TempAt(curve, 1) < temp /\ temp < TempAt(curve, Len(curve))
  BY <1>1, <1>3
<1>5. PICK k \in 1..(Len(curve) - 1) :
        /\ Spans(curve, k, temp)
        /\ interpolate(curve, temp) =
             IF TempAt(curve, k) = TempAt(curve, k + 1) THEN PctAt(curve, k + 1)
             ELSE Along(TempAt(curve, k), PctAt(curve, k),
                        TempAt(curve, k + 1), PctAt(curve, k + 1), temp)
  BY <1>4, OnSegment
<1>6. k = i
  <2>1. k \in 1..Len(curve) /\ k + 1 \in 1..Len(curve)
    BY <1>1
  <2>2. ~(k + 1 <= i)
    BY <1>2, <1>3, <1>5, <2>1 DEF Spans
  <2>3. ~(k >= i + 1)
    BY <1>2, <1>3, <1>5, <2>1 DEF Spans
  <2> QED BY <2>1, <2>2, <2>3
<1> DEFINE d == TempAt(curve, i + 1) - TempAt(curve, i)
           n == (PctAt(curve, i + 1) - PctAt(curve, i)) * (temp - TempAt(curve, i))
<1>7. /\ TempAt(curve, i) \in Int /\ TempAt(curve, i + 1) \in Int
      /\ PctAt(curve, i) \in Int /\ PctAt(curve, i + 1) \in Int
  BY <1>1, <1>2
<1>8. d \in Nat \ {0} /\ n \in Int
  BY <1>7
<1>9. interpolate(curve, temp) = PctAt(curve, i) + n \div d
  BY <1>5, <1>6, <1>7 DEF Along
<1>10. OnChordOf(curve, i, temp) <=>
         LET exact == PctAt(curve, i) * d + n
             whole == interpolate(curve, temp) * d
         IN  whole <= exact /\ exact < whole + d
  BY DEF OnChordOf
<1> HIDE DEF d, n
<1>11. /\ n \div d \in Int /\ (n \div d) * d <= n /\ n < (n \div d + 1) * d
  BY <1>8, Floor
<1> DEFINE q == n \div d
<1>12. q \in Int /\ q * d <= n /\ n < (q + 1) * d /\ interpolate(curve, temp) = PctAt(curve, i) + q
  BY <1>9, <1>11
<1> HIDE DEF q
<1>13. /\ (PctAt(curve, i) + q) * d = PctAt(curve, i) * d + q * d
       /\ (q + 1) * d = q * d + d
       /\ PctAt(curve, i) * d \in Int /\ q * d \in Int
  BY <1>7, <1>8, <1>12
<1> QED BY <1>8, <1>10, <1>12, <1>13

\* On a rising curve of any length a hotter card never gets a slower fan.
THEOREM InterpolateRises ==
  ASSUME NEW curve, ValidCurve(curve), Rising(curve),
         NEW s \in Int, NEW t \in Int, s <= t
  PROVE  interpolate(curve, s) <= interpolate(curve, t)
<1>1. /\ Len(curve) \in Nat /\ 1 \in 1..Len(curve) /\ Len(curve) \in 1..Len(curve)
      /\ \A i \in 1..(Len(curve) - 1) : i \in 1..Len(curve) /\ i + 1 \in 1..Len(curve)
  BY PointTypes
<1>2. \A i \in 1..Len(curve) : TempAt(curve, i) \in Int /\ PctAt(curve, i) \in Int
  BY PointTypes
<1>3. \A i, j \in 1..Len(curve) : i <= j => PctAt(curve, i) <= PctAt(curve, j)
  BY <1>2 DEF Rising
<1>4. /\ TempAt(curve, 1) \in Int /\ TempAt(curve, Len(curve)) \in Int
      /\ PctAt(curve, 1) \in Int /\ PctAt(curve, Len(curve)) \in Int
  BY <1>1, <1>2
<1>5. ASSUME NEW u \in Int
      PROVE  interpolate(curve, u) \in PctAt(curve, 1)..PctAt(curve, Len(curve))
  <2>1. \A i \in 1..Len(curve) : PctAt(curve, i) \in PctAt(curve, 1)..PctAt(curve, Len(curve))
    BY <1>1, <1>2, <1>3
  <2> QED BY <1>4, <2>1, InterpolateBetween
<1>6. CASE s <= TempAt(curve, 1)
  BY <1>4, <1>5, <1>6 DEF interpolate
<1>7. CASE t >= TempAt(curve, Len(curve)) /\ s > TempAt(curve, 1)
  <2>1. interpolate(curve, t) = PctAt(curve, Len(curve))
    <3>1. ~(t <= TempAt(curve, 1))
      BY <1>4, <1>7
    <3> QED BY <1>7, <3>1 DEF interpolate
  <2> QED BY <1>4, <1>5, <2>1
<1>8. CASE TempAt(curve, 1) < s /\ t < TempAt(curve, Len(curve))
  <2>1. TempAt(curve, 1) < t /\ s < TempAt(curve, Len(curve))
    BY <1>4, <1>8
  <2>2. PICK i \in 1..(Len(curve) - 1) :
          /\ i = Segment(curve, s) /\ Spans(curve, i, s)
          /\ interpolate(curve, s) =
               IF TempAt(curve, i) = TempAt(curve, i + 1) THEN PctAt(curve, i + 1)
               ELSE Along(TempAt(curve, i), PctAt(curve, i),
                          TempAt(curve, i + 1), PctAt(curve, i + 1), s)
    BY <1>8, <2>1, OnSegment
  <2>3. PICK j \in 1..(Len(curve) - 1) :
          /\ j = Segment(curve, t) /\ Spans(curve, j, t)
          /\ interpolate(curve, t) =
               IF TempAt(curve, j) = TempAt(curve, j + 1) THEN PctAt(curve, j + 1)
               ELSE Along(TempAt(curve, j), PctAt(curve, j),
                          TempAt(curve, j + 1), PctAt(curve, j + 1), t)
    BY <1>8, <2>1, OnSegment
  <2>4. /\ TempAt(curve, i) \in Int /\ TempAt(curve, i + 1) \in Int
        /\ TempAt(curve, j) \in Int /\ TempAt(curve, j + 1) \in Int
        /\ PctAt(curve, i) \in Int /\ PctAt(curve, i + 1) \in Int
        /\ PctAt(curve, j) \in Int /\ PctAt(curve, j + 1) \in Int
        /\ PctAt(curve, i) <= PctAt(curve, i + 1)
        /\ PctAt(curve, j) <= PctAt(curve, j + 1)
    BY <1>1, <1>2, <1>3
  <2>5. /\ interpolate(curve, s) \in PctAt(curve, i)..PctAt(curve, i + 1)
        /\ interpolate(curve, t) \in PctAt(curve, j)..PctAt(curve, j + 1)
    <3>1. ASSUME NEW k \in 1..(Len(curve) - 1), NEW u \in Int, Spans(curve, k, u),
                 interpolate(curve, u) =
                   IF TempAt(curve, k) = TempAt(curve, k + 1) THEN PctAt(curve, k + 1)
                   ELSE Along(TempAt(curve, k), PctAt(curve, k),
                              TempAt(curve, k + 1), PctAt(curve, k + 1), u)
          PROVE  interpolate(curve, u) \in PctAt(curve, k)..PctAt(curve, k + 1)
      <4>1. /\ PctAt(curve, k) \in Int /\ PctAt(curve, k + 1) \in Int
            /\ PctAt(curve, k) <= PctAt(curve, k + 1)
        BY <1>1, <1>2, <1>3
      <4>2. /\ PctAt(curve, k) \in PctAt(curve, k)..PctAt(curve, k + 1)
            /\ PctAt(curve, k + 1) \in PctAt(curve, k)..PctAt(curve, k + 1)
        BY <4>1
      <4> QED BY <3>1, <4>1, <4>2, SegmentBetween
    <3> QED BY <2>2, <2>3, <3>1
  <2>6. CASE i < j
    <3>1. PctAt(curve, i + 1) <= PctAt(curve, j)
      BY <1>1, <1>3, <2>6
    <3> QED BY <2>4, <2>5, <3>1
  <2>7. CASE i = j
    <3>1. CASE TempAt(curve, i) = TempAt(curve, i + 1)
      BY <2>2, <2>3, <2>4, <2>7, <3>1
    <3>2. CASE TempAt(curve, i) # TempAt(curve, i + 1)
      <4>1. TempAt(curve, i) < TempAt(curve, i + 1)
        BY <2>2, <2>4, <3>2, SMTT(30) DEF Spans
      <4>2. Along(TempAt(curve, i), PctAt(curve, i),
                  TempAt(curve, i + 1), PctAt(curve, i + 1), s)
            <= Along(TempAt(curve, i), PctAt(curve, i),
                     TempAt(curve, i + 1), PctAt(curve, i + 1), t)
        BY <2>4, <4>1, AlongMono
      <4> QED BY <2>2, <2>3, <2>7, <3>2, <4>2
    <3> QED BY <3>1, <3>2
  \* The first segment that spans t starts at or below s: it would span s too.
  <2>8. CASE j < i
    <3>1. TempAt(curve, j + 1) <= TempAt(curve, i)
      BY <1>1, <2>8, PointTypes
    <3>2. s = t
      BY <2>2, <2>3, <2>4, <3>1 DEF Spans
    <3> QED BY <2>2, <2>3, <2>8, <3>2
  <2> QED BY <2>6, <2>7, <2>8
<1> QED BY <1>4, <1>6, <1>7, <1>8

\* Above its first point, at 0 %, a curve is positive from the next degree on
\* if its other points are and its first segment rises by a percent a degree.
LEMMA LeavesZero ==
  ASSUME NEW curve, ValidCurve(curve), NEW temp \in Int,
         PctAt(curve, 1) = 0,
         \A i \in 2..Len(curve) : PctAt(curve, i) > 0,
         PctAt(curve, 2) >= TempAt(curve, 2) - TempAt(curve, 1)
  PROVE  interpolate(curve, temp) = 0 <=> temp <= TempAt(curve, 1)
<1>1. /\ Len(curve) \in Nat /\ Len(curve) >= 2
      /\ \A i \in 1..Len(curve) : TempAt(curve, i) \in Int /\ PctAt(curve, i) \in Int
      /\ \A i \in 1..Len(curve) : PctAt(curve, i) \in 0..100
  BY PointTypes
<1>2. 1 \in 1..Len(curve) /\ 2 \in 1..Len(curve) /\ Len(curve) \in 2..Len(curve)
  BY <1>1
<1>3. TempAt(curve, 1) \in Int /\ TempAt(curve, 2) \in Int /\ PctAt(curve, 2) \in Int
      /\ TempAt(curve, Len(curve)) \in Int /\ Len(curve) \in 1..Len(curve)
  BY <1>1, <1>2
<1>4. CASE temp <= TempAt(curve, 1)
  BY <1>4 DEF interpolate
<1>5. CASE temp > TempAt(curve, 1) /\ temp >= TempAt(curve, Len(curve))
  <2>1. interpolate(curve, temp) = PctAt(curve, Len(curve))
    BY <1>3, <1>5 DEF interpolate
  <2>2. PctAt(curve, Len(curve)) > 0
    BY <1>2
  <2> QED BY <1>1, <1>3, <1>5, <2>1, <2>2
<1>6. CASE temp > TempAt(curve, 1) /\ temp < TempAt(curve, Len(curve))
  <2>1. PICK i \in 1..(Len(curve) - 1) :
          /\ Spans(curve, i, temp)
          /\ interpolate(curve, temp) =
               IF TempAt(curve, i) = TempAt(curve, i + 1) THEN PctAt(curve, i + 1)
               ELSE Along(TempAt(curve, i), PctAt(curve, i),
                          TempAt(curve, i + 1), PctAt(curve, i + 1), temp)
    BY <1>3, <1>6, OnSegment
  <2>2. interpolate(curve, temp) \in 1..100
    <3>1. CASE i = 1
      <4> DEFINE d == TempAt(curve, 2) - TempAt(curve, 1)
                 n == PctAt(curve, 2) * (temp - TempAt(curve, 1))
      <4>1. TempAt(curve, 1) < temp /\ temp <= TempAt(curve, 2)
        BY <1>6, <2>1, <3>1 DEF Spans
      <4>2. /\ d \in Nat \ {0}
            /\ temp - TempAt(curve, 1) \in Int /\ 1 <= temp - TempAt(curve, 1)
            /\ temp - TempAt(curve, 1) <= d
        BY <1>3, <4>1
      <4>3. PctAt(curve, 2) \in Nat /\ PctAt(curve, 2) <= 100 /\ d <= PctAt(curve, 2)
        <5>1. \A p \in 0..100 : p \in Nat /\ p <= 100
          OBVIOUS
        <5> QED BY <1>1, <1>2, <5>1
      <4>4. n \in Int
        BY <1>3
      <4>5. interpolate(curve, temp) = n \div d
        <5>1. interpolate(curve, temp) =
                Along(TempAt(curve, 1), 0, TempAt(curve, 2), PctAt(curve, 2), temp)
          BY <1>3, <2>1, <3>1, <4>1
        <5>2. n \div d \in Int
          <6> HIDE DEF n, d
          <6> QED BY <4>2, <4>4, Floor
        <5>3. Along(TempAt(curve, 1), 0, TempAt(curve, 2), PctAt(curve, 2), temp)
                = 0 + n \div d
          <6>1. PctAt(curve, 2) - 0 = PctAt(curve, 2)
            BY <1>3
          <6> QED BY <6>1 DEF Along
        <5> HIDE DEF n, d
        <5> QED BY <5>1, <5>2, <5>3
      <4>6. \A t \in Int, p \in Nat : 1 <= t => p <= p * t
        <5> SUFFICES ASSUME NEW t \in Int, NEW p \in Nat, 1 <= t PROVE p <= p * t
          OBVIOUS
        <5>1. 1 * p <= t * p
          BY MulMono
        <5> QED BY <5>1
      <4>7. \A t, e \in Int, p \in Nat :
              t <= e /\ 0 <= e /\ p <= 100 => p * t <= 100 * e
        <5> SUFFICES ASSUME NEW t \in Int, NEW e \in Int, NEW p \in Nat,
                            t <= e, 0 <= e, p <= 100
                     PROVE  p * t <= 100 * e
          OBVIOUS
        <5>1. t * p <= e * p
          BY MulMono
        <5>2. p * e <= 100 * e
          BY MulMono
        <5>3. p * t = t * p /\ p * e = e * p /\ p * t \in Int /\ p * e \in Int
          OBVIOUS
        <5> QED BY <5>1, <5>2, <5>3
      <4>8. 1 * d <= n
        <5>1. PctAt(curve, 2) <= n
          BY <4>2, <4>3, <4>6
        <5> HIDE DEF n, d
        <5> QED BY <4>2, <4>3, <4>4, <5>1
      <4>9. n <= 100 * d
        <5> HIDE DEF d
        <5> QED BY <4>2, <4>3, <4>7
      <4> HIDE DEF n, d
      <4>10. 1 <= n \div d /\ n \div d <= 100 /\ n \div d \in Int
        BY <4>2, <4>4, <4>8, <4>9, FloorBetween
      <4>11. n \div d \in 1..100
        <5>1. \A x \in Int : 1 <= x /\ x <= 100 => x \in 1..100
          OBVIOUS
        <5> QED BY <4>10, <5>1, Zenon
      <4> QED BY <4>5, <4>11, Zenon
    <3>2. CASE i > 1
      <4>1. i \in 2..Len(curve) /\ i + 1 \in 2..Len(curve)
        BY <1>1, <3>2
      <4>2. \A k \in 2..Len(curve) : PctAt(curve, k) \in 1..100
        <5> SUFFICES ASSUME NEW k \in 2..Len(curve) PROVE PctAt(curve, k) \in 1..100
          OBVIOUS
        <5>1. PctAt(curve, k) \in 0..100 /\ PctAt(curve, k) > 0
          BY <1>1
        <5>2. \A p \in 0..100 : p > 0 => p \in 1..100
          OBVIOUS
        <5> QED BY <5>1, <5>2
      <4>3. 1 \in Int /\ 100 \in Int
        OBVIOUS
      <4>4. PctAt(curve, i) \in 1..100 /\ PctAt(curve, i + 1) \in 1..100
        BY <4>1, <4>2
      <4> QED BY <2>1, <4>3, <4>4, SegmentBetween, Zenon
    <3> QED BY <3>1, <3>2
  <2>3. interpolate(curve, temp) # 0
    <3>1. \A x \in 1..100 : x # 0
      OBVIOUS
    <3> QED BY <2>2, <3>1, Zenon
  <2>4. ~(temp <= TempAt(curve, 1))
    BY <1>3, <1>6
  <2> QED BY <2>3, <2>4
<1> QED BY <1>3, <1>4, <1>5, <1>6

\* The raw value of a percentage is a byte, the nearest one, and 0 only for 0.
THEOREM RawRange ==
  ASSUME NEW p \in 0..100
  PROVE  /\ RawOf(p) \in 0..255
         /\ RawOf(p) * 100 - p * 255 \in -50..50
         /\ RawOf(p) = 0 <=> p = 0
  BY SMTT(30) DEF RawOf, Rounded
================================================================================
