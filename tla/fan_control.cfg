\* Everything but a write of a speed may fail, the process crashes and
\* restarts; nobody else touches the channels.
SPECIFICATION FairSpec
CONSTANTS
  Devices = {"fan0", "pwm1", "pwm2"}
  Hwmon = {"pwm1", "pwm2"}
  Targets <- MCTargets
  Source <- MCSource
  Curve <- MCCurve
  MinPwm <- MCMinPwm
  MinPwmStep = 4
  MinStateSeconds = 2
  PollInterval = 1
  EmergencyTemp = 6
  EmergencyExit = 5
  ZeroRpmGap = 3
  Heartbeat = 1
  CoreTemps = {2, 3}
  VramTemps = {2, 5, 6}
  FirmwareModes = {"auto"}
  MayFail = {"nvml_init", "resolve", "claim_read", "claim_write", "core", "vram", "restore", "restore_pwm", "restore_mode"}
  OperatorAt = {}
  Crashes = TRUE
INVARIANTS TypeOK Commanded FloorHeld EmergencyCools
PROPERTIES EmergencyLatch ZeroRpmRelay StopTerminates FanSettles
