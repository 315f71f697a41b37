\* A curve with two points at 0 %.
SPECIFICATION Spec
CONSTANTS
  Devices = {"pwm1"}
  Hwmon = {"pwm1"}
  Targets <- OneTarget
  Source <- OneSource
  Curve <- Plateau
  MinPwm <- OneMinPwm
  MinPwmStep = 4
  MinStateSeconds = 2
  PollInterval = 1
  EmergencyTemp = 6
  EmergencyExit = 5
  ZeroRpmGap = 2
  Heartbeat = 1
  CoreTemps = {2, 3, 4, 5, 6}
  VramTemps = {2, 4, 6}
  FirmwareModes = {"auto"}
  MayFail = {}
  OperatorAt = {}
  Crashes = FALSE
PROPERTY StaysStopped
