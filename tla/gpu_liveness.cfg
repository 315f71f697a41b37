\* Fairness; reads and both power-limit calls fail, the clock lock too.
SPECIFICATION FairSpec
CONSTANTS
  TempEnter = 3
  TempExit = 2
  UtilHigh = 2
  UtilLow = 0
  UtilWindow = 2
  StateMin = 2
  PollInterval = 1
  Temps = {1, 2, 3}
  Utils = {0, 1, 2}
  MayFail = {"read", "thermal_cap", "compute_lock", "idle_power"}
  OperatorAt = {}
  Crashes = TRUE
PROPERTIES ActsOnHeat StopTerminates CoolingRecovers LoadSettles
