\* gddr6 starts, stops and is killed and fan-governor starts and stops while the
\* memory heats and cools, and the core with it or by itself.
SPECIFICATION FeedSpec
CONSTANTS
  Devices = {"pwm1"}
  Hwmon = {"pwm1"}
  Targets <- MCTargets
  Source <- MCSource
  Curve <- MCCurve
  MinPwm <- MCMinPwm
  MinPwmStep = 4
  MinStateSeconds = 1
  PollInterval = 1
  EmergencyTemp = 6
  EmergencyExit = 5
  ZeroRpmGap = 0
  Heartbeat = 0
  CoreTemps = {2, 6}
  VramTemps = {4, 6}
  FirmwareModes = {"auto"}
  MayFail = {"vram"}
  OperatorAt = {}
  Crashes = FALSE
  Monitors = {m1}
  NumGpus = 2
  Interval = 1
  Lag = 0
  MaxReadings = 0
  Truncate = {TRUE, FALSE}
  MaxAge = 1
  MayKill = TRUE
  LogMayFail = {}
  MaxLines = 9
  MaxSeconds = 3
  PollLag = 1
INVARIANT HotVramAnswered
PROPERTY ReleasedOnFresh
