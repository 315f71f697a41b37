\* One gddr6 process at a time, two GPUs, with and without --truncate, signals
\* and kills at any access.
SPECIFICATION Spec
CONSTANTS
  Monitors = {m1}
  NumGpus = 2
  Interval = 2
  Lag = 1
  MaxReadings = 2
  Truncate = {TRUE, FALSE}
  MaxAge = 3
  Temps = {0, 60}
  MayKill = TRUE
  MayFail = {"open"}
  MaxLines = 10
  MaxSeconds = 7
INVARIANTS TypeOK WholeSessions HeaderFirst LiveSession
PROPERTY StaleMeansStopped
