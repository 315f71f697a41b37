--------------------------- MODULE CurveSweep_proofs ----------------------------
(***************************************************************************)
(* The properties of CurveSweep for curves over any coordinates, with any  *)
(* number of points, at every temperature between any two.                 *)
(***************************************************************************)
EXTENDS CurveSweep, FanCurve_proofs

SweepInv == curve \in Curves /\ temp \in Int

\* Every curve of the sweep is one that Config.validate accepts.
LEMMA CurvesValid ==
  ASSUME NEW c \in Curves
  PROVE  /\ ValidCurve(c)
         /\ \A i \in 1..Len(c) : PctAt(c, i) \in Percents
<1>1. PICK k \in Lengths : c \in [1..k -> Points]
  BY DEF Curves
<1>2. k \in Nat /\ k >= 2 /\ Sorted(c)
  BY SweepConfig DEF Curves
<1>3. Points \subseteq Int \X (0..100)
  BY SweepConfig DEF Points
<1>4. c \in Seq(Int \X (0..100)) /\ Len(c) = k
  BY <1>1, <1>2, <1>3
<1>5. \A i \in 1..Len(c) : PctAt(c, i) \in Percents
  BY <1>1, <1>4 DEF Points, PctAt
<1> QED BY <1>2, <1>4, <1>5 DEF ValidCurve

\* The end points of the sweep, and of a set of percentages.
LEMMA MinIs ==
  ASSUME NEW S \in SUBSET Int, NEW low \in S, \A x \in S : low <= x
  PROVE  Min(S) \in S /\ \A x \in S : Min(S) <= x
BY DEF Min

LEMMA MaxIs ==
  ASSUME NEW S \in SUBSET Int, NEW high \in S, \A x \in S : x <= high
  PROVE  Max(S) \in S /\ \A x \in S : x <= Max(S)
BY DEF Max

LEMMA Extremes ==
  ASSUME NEW S \in SUBSET (0..100), S # {}
  PROVE  /\ Min(S) \in S /\ \A x \in S : Min(S) <= x
         /\ Max(S) \in S /\ \A x \in S : x <= Max(S)
<1>1. ASSUME NEW T \in SUBSET Nat, T # {}
      PROVE  \E x \in T : \A y \in T : x <= y
  <2>1. PICK x \in T : \A y \in T : ~(<<y, x>> \in OpToRel(<, Nat))
    BY <1>1, NatLessThanWellFounded, WFMin
  <2>2. \A y \in T : ~(y < x)
    BY <2>1 DEF OpToRel
  <2> QED BY <2>2
<1>2. PICK low \in S : \A x \in S : low <= x
  BY <1>1
<1>3. PICK high \in S : \A x \in S : x <= high
  <2> DEFINE T == {100 - x : x \in S}
  <2>1. T \in SUBSET Nat /\ T # {}
    OBVIOUS
  <2>2. PICK t \in T : \A u \in T : t <= u
    <3> HIDE DEF T
    <3> QED BY <1>1, <2>1
  <2>3. PICK x \in S : t = 100 - x
    BY <2>2
  <2>4. \A y \in S : 100 - y \in T
    OBVIOUS
  <2>5. \A y \in S : y \in 0..100
    OBVIOUS
  <2>6. \A y \in S : 100 - x <= 100 - y
    BY <2>2, <2>3, <2>4
  <2>7. \A y \in S : y <= x
    BY <2>5, <2>6
  <2> QED BY <2>7
<1> QED BY <1>2, <1>3, MinIs, MaxIs

LEMMA SweepAlways == Spec => []SweepInv
<1>1. Coldest \in Int
  <2>1. PICK low \in Degrees : \A d \in Degrees : low <= d
    BY SweepConfig
  <2>2. Degrees \in SUBSET Int
    BY SweepConfig
  <2>3. Min(Degrees) \in Degrees
    BY <2>1, <2>2, MinIs
  <2>4. Min(Degrees) \in Int
    BY <2>2, <2>3
  <2> QED BY <2>4 DEF Coldest
<1>2. Init => SweepInv
  BY <1>1 DEF Init, SweepInv
<1>3. SweepInv /\ [Heat \/ Cool]_<<curve, temp>> => SweepInv'
  BY DEF SweepInv, Heat, Cool
<1> QED BY <1>2, <1>3, PTL DEF Spec

\* FanCurve.interpolate never leaves the range of its points' percentages, and
\* keeps those of its ends beyond them.
THEOREM AlwaysClamped == Spec => []Clamped
<1>1. SweepInv => Clamped
  <2> SUFFICES ASSUME SweepInv PROVE Clamped
    OBVIOUS
  <2>1. ValidCurve(curve) /\ temp \in Int
    BY CurvesValid DEF SweepInv
  <2>2. /\ Len(curve) \in Nat /\ Len(curve) >= 2
        /\ \A i \in 1..Len(curve) : TempAt(curve, i) \in Int /\ PctAt(curve, i) \in 0..100
        /\ \A i, j \in 1..Len(curve) : i < j => TempAt(curve, i) <= TempAt(curve, j)
    BY <2>1, PointTypes
  <2>3. TempAt(curve, 1) <= TempAt(curve, Len(curve))
    BY <2>2
  <2>4. /\ temp < TempAt(curve, 1) => interpolate(curve, temp) = PctAt(curve, 1)
        /\ temp > TempAt(curve, Len(curve)) =>
             interpolate(curve, temp) = PctAt(curve, Len(curve))
    BY <2>1, <2>2, <2>3 DEF interpolate
  <2>5. DOMAIN curve = 1..Len(curve)
    BY <2>1 DEF ValidCurve
  <2>6. Pcts \subseteq 0..100 /\ \A i \in 1..Len(curve) : PctAt(curve, i) \in Pcts
    BY <2>2, <2>5 DEF Pcts, Pct
  <2>7. Pcts # {}
    BY <2>2, <2>6
  <2>8. /\ Min(Pcts) \in Pcts /\ \A p \in Pcts : Min(Pcts) <= p
        /\ Max(Pcts) \in Pcts /\ \A p \in Pcts : p <= Max(Pcts)
    BY <2>6, <2>7, Extremes
  <2>9. interpolate(curve, temp) \in Min(Pcts)..Max(Pcts)
    <3>1. Min(Pcts) \in 0..100 /\ Max(Pcts) \in 0..100
      BY <2>6, <2>8
    <3>2. ASSUME NEW i \in 1..Len(curve)
          PROVE  PctAt(curve, i) \in Min(Pcts)..Max(Pcts)
      <4>1. PctAt(curve, i) \in Pcts /\ PctAt(curve, i) \in 0..100
        BY <2>2, <2>6
      <4>2. Min(Pcts) <= PctAt(curve, i) /\ PctAt(curve, i) <= Max(Pcts)
        BY <2>8, <4>1
      <4>3. \A a, b, x \in 0..100 : a <= x /\ x <= b => x \in a..b
        OBVIOUS
      <4> QED BY <3>1, <4>1, <4>2, <4>3
    <3>3. Min(Pcts) \in Int /\ Max(Pcts) \in Int
      BY <3>1
    <3> QED BY <2>1, <3>2, <3>3, InterpolateBetween
  <2> QED BY <2>4, <2>9 DEF Clamped, Pct
<1> QED BY <1>1, SweepAlways, PTL

\* Between two neighbouring points it is the chord, rounded down.
THEOREM AlwaysOnChord == Spec => []OnChord
<1>1. SweepInv => OnChord
  BY CurvesValid, InterpolateOnChord DEF SweepInv, OnChord
<1> QED BY <1>1, SweepAlways, PTL

\* HwmonPwm.apply writes the nearest raw value, and 0 only for 0 %.
THEOREM AlwaysNearest == Spec => []RawNearest
<1>1. SweepInv => RawNearest
  <2> SUFFICES ASSUME SweepInv PROVE RawNearest
    OBVIOUS
  <2>1. ValidCurve(curve) /\ temp \in Int
    BY CurvesValid DEF SweepInv
  <2>2. \A i \in 1..Len(curve) : PctAt(curve, i) \in 0..100
    BY <2>1, PointTypes
  <2>3. interpolate(curve, temp) \in 0..100
    <3>1. 0 \in Int /\ 100 \in Int
      OBVIOUS
    <3> QED BY <2>1, <2>2, <3>1, InterpolateBetween
  <2> QED BY <2>3, RawRange DEF RawNearest
<1> QED BY <1>1, SweepAlways, PTL

\* On a rising curve a hotter card never gets a slower fan.
THEOREM AlwaysRises == Spec => HotterNeverSlower
<1>1. SweepInv /\ SweepInv' /\ [Heat \/ Cool]_<<curve, temp>> =>
        [Rising(curve) /\ temp <= temp'
           => interpolate(curve, temp) <= interpolate(curve, temp)']_<<curve, temp>>
  <2> SUFFICES ASSUME SweepInv, SweepInv', curve' = curve, Rising(curve), temp <= temp'
               PROVE  interpolate(curve, temp) <= interpolate(curve, temp)'
    BY DEF Heat, Cool
  <2>1. ValidCurve(curve) /\ temp \in Int /\ temp' \in Int
    BY CurvesValid DEF SweepInv
  <2>2. interpolate(curve, temp) <= interpolate(curve, temp')
    BY <2>1, InterpolateRises
  <2> QED BY <2>2
<1> QED BY <1>1, SweepAlways, PTL DEF Spec, HotterNeverSlower
================================================================================
