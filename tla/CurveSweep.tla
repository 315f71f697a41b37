------------------------------- MODULE CurveSweep -------------------------------
(***************************************************************************)
(* Every curve over some coordinates, with the card heating and cooling by *)
(* one degree from below the first of them to above the last: FanCurve     *)
(* against the definitions it is meant to compute.                         *)
(***************************************************************************)
EXTENDS FanCurve

CONSTANTS
  Degrees, Percents,   \* the coordinates of the curves' points
  Lengths              \* how many points a curve has

\* What Config.validate asks of a curve, and an end to the sweep.
ASSUME SweepConfig ==
  /\ Degrees \subseteq Int /\ Percents \subseteq 0..100
  /\ Lengths \subseteq Nat \ {0, 1}
  /\ \E low, high \in Degrees : \A d \in Degrees : low <= d /\ d <= high

Points == Degrees \X Percents
Curves == {c \in UNION {[1..k -> Points] : k \in Lengths} : Sorted(c)}

VARIABLES curve, temp

Coldest == Min(Degrees) - 1
Hottest == Max(Degrees) + 1

Init == curve \in Curves /\ temp = Coldest
Heat == temp < Hottest /\ temp' = temp + 1 /\ UNCHANGED curve
Cool == temp > Coldest /\ temp' = temp - 1 /\ UNCHANGED curve
Spec == Init /\ [][Heat \/ Cool]_<<curve, temp>>

Pct(i) == PctAt(curve, i)
Pcts   == {Pct(i) : i \in DOMAIN curve}

\* Beyond either end of the curve the fan keeps the percentage of that end,
\* and nowhere does it leave the range of the points' percentages.
Clamped ==
  /\ temp < TempAt(curve, 1) => interpolate(curve, temp) = Pct(1)
  /\ temp > TempAt(curve, Len(curve)) =>
       interpolate(curve, temp) = Pct(Len(curve))
  /\ interpolate(curve, temp) \in Min(Pcts)..Max(Pcts)

\* Strictly between two neighbouring points the result is the whole percent
\* on or just below the chord; no segment of no width is ever divided by.
OnChord == \A i \in 1..(Len(curve) - 1) : OnChordOf(curve, i, temp)

\* On a curve whose percentages never fall, a hotter card never gets a
\* slower fan: no dip at a point shared by two segments, at duplicate
\* temperatures, or at the ends.
HotterNeverSlower ==
  [][Rising(curve) /\ temp <= temp'
       => interpolate(curve, temp) <= interpolate(curve, temp)']_<<curve, temp>>

\* The raw value written is the nearest to the percentage of 255, and only
\* 0 % stops the fan.
RawNearest ==
  LET p == interpolate(curve, temp)
  IN  /\ RawOf(p) * 100 - p * 255 \in -50..50
      /\ RawOf(p) \in 0..255
      /\ RawOf(p) = 0 <=> p = 0
================================================================================
