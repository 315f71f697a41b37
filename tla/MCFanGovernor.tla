----------------------------- MODULE MCFanGovernor -----------------------------
(***************************************************************************)
(* Instances of FanGovernor.  Degrees are scaled down: 2 is where the      *)
(* curve leaves 0 %, 5 and 6 are emergency_exit and emergency_temp; the    *)
(* zero-RPM gap of 3 (fan_control) ends at a reading the sensors give.     *)
(***************************************************************************)
EXTENDS FanGovernor

\* A GPU group that may stop its fan, by the hotter sensor, and a case group
\* with a floor, by the VRAM.
MCTargets == <<<<"fan0", "pwm1">>, <<"pwm2">>>>
MCSource  == <<"gpu_max", "gpu_vram">>
MCCurve   == <<<< <<2, 0>>, <<3, 40>>, <<5, 97>> >>,
               << <<2, 0>>, <<5, 50>> >>>>
MCMinPwm  == <<0, 30>>

\* One group with a fan that may stop, and its twin with a plateau at 0 %.
OneTarget == <<<<"pwm1">>>>
OneSource == <<"gpu_core">>
OneCurve  == <<<< <<2, 0>>, <<3, 40>>, <<5, 97>> >>>>
Plateau   == <<<< <<1, 0>>, <<3, 0>>, <<4, 40>>, <<5, 97>> >>>>
OneMinPwm == <<0>>
================================================================================
