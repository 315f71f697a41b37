------------------------------- MODULE SharedFans -------------------------------
(***************************************************************************)
(* fan-governor with the manual tools of its tools directory beside it, on *)
(* the same registers.  The README says to stop the daemon first; nothing  *)
(* makes the operator do so.  The tools reach every device, the daemon     *)
(* those of its groups.                                                    *)
(***************************************************************************)
EXTENDS FanGovernor

CONSTANTS Channels, Fans, Percents, Ramp, ToolMayFail, ToolMayInterrupt,
          ToolMayDie

VARIABLES at, n, arg, saved, met

\* The devices of the daemon's groups.
Governed == UNION {Range(Targets[g]) : g \in Groups}

Tools == INSTANCE FanTools WITH
           Others <- Governed, MayFail <- ToolMayFail,
           MayInterrupt <- ToolMayInterrupt, MayDie <- ToolMayDie

\* The tools are the operator here.
ASSUME SharedConfig ==
  /\ Tools!ToolsConfig
  /\ Devices = Tools!ToolDevices /\ Hwmon = Range(Channels)
  /\ OperatorAt = {}

toolVars   == <<at, n, arg, saved, met>>
sharedVars == <<vars, toolVars>>

DaemonStep == Next /\ UNCHANGED toolVars
ToolStep   == Tools!Tool /\ UNCHANGED <<proc, firmware>>

SharedInit == Init /\ Tools!Init
SharedNext == DaemonStep \/ ToolStep

\* A tool may wait for ever, be it at a prompt, so it has no fairness.
SharedSpec ==
  /\ SharedInit /\ [][SharedNext]_sharedVars
  /\ WF_sharedVars(Daemon /\ UNCHANGED toolVars)
  /\ WF_sharedVars(pc = "restart" /\ Launch /\ UNCHANGED toolVars)

--------------------------------------------------------------------------------
(* Properties *)

ToolsTypeOK == Tools!TypeOK

\* What the tools promise of the devices the daemon leaves alone, with the
\* daemon running, stopping and starting at any of their accesses.
FindRestores == Tools!FindRestores
RampRestores == Tools!RampRestores

\* README, "otherwise the daemon will overwrite your manual changes": once the
\* operator is done, every governed fan is eventually back at the level of its
\* group, whatever the tools left there and although last_pwm, which the rate
\* limit compares with, says that nothing has changed.
Overwrites ==
  \A g \in Groups :
    <>[](at = "off") /\ []<><<DecideGroup /\ gi = g>>_vars
    => <>[](pc = "sleep" /\ last_pwm[g] # NoPwm =>
              \A d \in Range(Targets[g]) : Driven(d, last_pwm[g]))
================================================================================
