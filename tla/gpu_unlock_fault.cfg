\* The call that unlocks the clock on the way to IDLE fails.
SPECIFICATION Spec
CONSTANTS
  TempEnter = 3
  TempExit = 2
  UtilHigh = 2
  UtilLow = 0
  UtilWindow = 2
  StateMin = 2
  PollInterval = 2
  Temps = {1, 2, 3}
  Utils = {0, 1, 2}
  MayFail = {"idle_unlock"}
  OperatorAt = {}
  Crashes = FALSE
INVARIANT ExitUnlocksClock
