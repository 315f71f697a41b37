\* Two and three points over four temperatures, duplicates included.
SPECIFICATION Spec
CONSTANTS
  Degrees = {30, 31, 34, 40}
  Percents = {0, 1, 35, 90, 100}
  Lengths = {2, 3}
INVARIANTS Clamped OnChord RawNearest
PROPERTY HotterNeverSlower
