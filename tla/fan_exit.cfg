\* A daemon that is never killed: init() fails anywhere but in a claim, writes
\* fail, and another program switches modes while the daemon sleeps.
SPECIFICATION FairSpec
CONSTANTS
  Devices = {"fan0", "pwm1", "pwm2"}
  Hwmon = {"pwm1", "pwm2"}
  Targets <- MCTargets
  Source <- MCSource
  Curve <- MCCurve
  MinPwm <- MCMinPwm
  MinPwmStep = 4
  MinStateSeconds = 2
  PollInterval = 1
  EmergencyTemp = 6
  EmergencyExit = 5
  ZeroRpmGap = 2
  Heartbeat = 1
  CoreTemps = {2, 5}
  VramTemps = {4}
  FirmwareModes = {"auto", "smart"}
  MayFail = {"nvml_init", "resolve", "core", "vram", "apply", "restore_pwm"}
  OperatorAt = {"sleep"}
  Crashes = FALSE
INVARIANT HandsBack
PROPERTY RefreshRepairs
