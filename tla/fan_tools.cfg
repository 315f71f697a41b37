\* One tool after another beside a daemon that is started and stopped.
SPECIFICATION SharedSpec
CONSTANTS
  Devices = {"pwm1", "pwm2", "fan0", "fan1"}
  Hwmon = {"pwm1", "pwm2"}
  Targets <- MCTargets
  Source <- MCSource
  Curve <- MCCurve
  MinPwm <- MCMinPwm
  MinPwmStep = 4
  MinStateSeconds = 1
  PollInterval = 1
  EmergencyTemp = 6
  EmergencyExit = 5
  ZeroRpmGap = 0
  Heartbeat = 0
  CoreTemps = {3}
  VramTemps = {}
  FirmwareModes = {"auto"}
  MayFail = {}
  OperatorAt = {}
  Crashes = FALSE
  Channels <- MCChannels
  Fans <- MCFans
  Percents = {0}
  Ramp <- MCRamp
  ToolMayFail <- MCToolMayFail
  ToolMayInterrupt <- MCToolMayInterrupt
  ToolMayDie <- MCToolMayDie
INVARIANT ToolsTypeOK
PROPERTIES FindRestores RampRestores Overwrites
