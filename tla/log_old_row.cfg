\* A second session on the log of an old one.
SPECIFICATION Spec
CONSTANTS
  Monitors = {m1}
  NumGpus = 1
  Interval = 1
  Lag = 0
  MaxReadings = 0
  Truncate = {FALSE}
  MaxAge = 2
  Temps = {0, 60}
  MayKill = FALSE
  MayFail = {}
  MaxLines = 8
  MaxSeconds = 4
INVARIANT LiveReading
