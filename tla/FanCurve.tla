-------------------------------- MODULE FanCurve --------------------------------
(***************************************************************************)
(* The arithmetic of fan-governor.py: a curve is a sequence of             *)
(* <<temperature, percent>> points.  Temperatures are whole degrees, as    *)
(* NVML and the gddr6 log report them, so the float division and int() of  *)
(* the code are an exact floor.                                            *)
(***************************************************************************)
EXTENDS Integers, Sequences, SequencesExt

TempAt(curve, i) == curve[i][1]
PctAt(curve, i)  == curve[i][2]

\* Config.load sorts the points by temperature, keeping the file's order
\* among equal ones.
Sorted(curve) ==
  \A i, j \in 1..Len(curve) : i < j => TempAt(curve, i) <= TempAt(curve, j)

\* What load and validate leave of a group's curve.
ValidCurve(curve) ==
  /\ curve \in Seq(Int \X (0..100))
  /\ Len(curve) >= 2
  /\ Sorted(curve)

\* The i-th pair of neighbouring points spans temp.
Spans(curve, i, temp) ==
  TempAt(curve, i) <= temp /\ temp <= TempAt(curve, i + 1)

\* Mutant of Segment: the loop stops after its first turn.
SegmentFirst(curve, temp) == 1

\* The segment the for loop stops at: the first that spans temp.
Segment(curve, temp) ==
  CHOOSE i \in 1..(Len(curve) - 1) :
    /\ Spans(curve, i, temp)
    /\ \A j \in 1..(i - 1) : ~Spans(curve, j, temp)

\* Mutant of Along: rounds up instead of truncating.
AlongRoundedUp(t0, p0, t1, p1, temp) ==
  p0 + ((p1 - p0) * (temp - t0) + (t1 - t0) - 1) \div (t1 - t0)

\* int(p0 + (p1 - p0) * (temp - t0) / (t1 - t0))
Along(t0, p0, t1, p1, temp) ==
  p0 + ((p1 - p0) * (temp - t0)) \div (t1 - t0)

\* Mutant of interpolate: no clamp above the last point, the last segment is
\* extended.
interpolateUnclamped(curve, temp) ==
  IF temp <= TempAt(curve, 1) THEN PctAt(curve, 1)
  ELSE LET i == IF temp >= TempAt(curve, Len(curve)) THEN Len(curve) - 1
                ELSE Segment(curve, temp)
       IN  IF TempAt(curve, i) = TempAt(curve, i + 1) THEN PctAt(curve, i + 1)
           ELSE Along(TempAt(curve, i), PctAt(curve, i),
                      TempAt(curve, i + 1), PctAt(curve, i + 1), temp)

interpolate(curve, temp) ==
  IF temp <= TempAt(curve, 1) THEN PctAt(curve, 1)
  ELSE IF temp >= TempAt(curve, Len(curve)) THEN PctAt(curve, Len(curve))
  ELSE LET i == Segment(curve, temp)
       IN  IF TempAt(curve, i) = TempAt(curve, i + 1) THEN PctAt(curve, i + 1)
           ELSE Along(TempAt(curve, i), PctAt(curve, i),
                      TempAt(curve, i + 1), PctAt(curve, i + 1), temp)

\* round(percent * 255 / 100), halves to the even neighbour.
Rounded(percent) ==
  LET low  == (percent * 255) \div 100
      part == (percent * 255) % 100
  IN  IF part > 50 \/ (part = 50 /\ low % 2 = 1) THEN low + 1 ELSE low

\* Mutant of RawOf: int() in place of round().
RawTruncated(percent) == (percent * 255) \div 100

\* The pwmN value for a percentage: max(0, min(255, round(...))).
RawOf(percent) ==
  IF Rounded(percent) > 255 THEN 255
  ELSE IF Rounded(percent) < 0 THEN 0 ELSE Rounded(percent)

--------------------------------------------------------------------------------
(* What interpolate is meant to be *)

\* A curve whose percentages never fall.
Rising(curve) ==
  \A i, j \in 1..Len(curve) : i < j => PctAt(curve, i) <= PctAt(curve, j)

\* Strictly between points i and i + 1: the whole percent on or just below
\* the chord.
OnChordOf(curve, i, temp) ==
  LET t0 == TempAt(curve, i)  t1 == TempAt(curve, i + 1)
      p0 == PctAt(curve, i)   p1 == PctAt(curve, i + 1)
      exact == p0 * (t1 - t0) + (p1 - p0) * (temp - t0)
      whole == interpolate(curve, temp) * (t1 - t0)
  IN  t0 < temp /\ temp < t1 => whole <= exact /\ exact < whole + (t1 - t0)
================================================================================
