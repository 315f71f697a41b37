\* Cool, band and hot temperatures; every call outside MustSucceed fails.
SPECIFICATION Spec
CONSTANTS
  TempEnter = 3
  TempExit = 2
  UtilHigh = 2
  UtilLow = 0
  UtilWindow = 2
  StateMin = 2
  PollInterval = 2
  Temps = {1, 2, 3}
  Utils = {0, 1, 2}
  MayFail <- MCMayFail
  OperatorAt <- MCOperatorAt
  Crashes = TRUE
INVARIANTS TypeOK Actuated HotIsCapped ExitUnlocksClock ExitRestoresPower
PROPERTY ImplementsPolicy
