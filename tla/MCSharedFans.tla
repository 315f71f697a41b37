------------------------------ MODULE MCSharedFans ------------------------------
(***************************************************************************)
(* An instance of SharedFans: one channel and one fan are governed, their  *)
(* neighbours are not.  The clean-up of find and the finally clause of the *)
(* ramp are what may neither fail nor be interrupted or killed.            *)
(***************************************************************************)
EXTENDS SharedFans

MCTargets  == <<<<"pwm1", "fan0">>>>
MCSource   == <<"gpu_core">>
MCCurve    == <<<< <<2, 0>>, <<3, 30>>, <<5, 97>> >>>>
MCMinPwm   == <<0>>
MCChannels == <<"pwm1", "pwm2">>
MCFans     == <<"fan0", "fan1">>
MCRamp     == <<0, 30>>

MCToolMayDie  == {"set_mode", "set_level", "reload", "all_mode", "all_level",
                  "fan_set", "fan_auto"}
MCToolMayFail == MCToolMayDie \cup {"save_mode", "save_level", "switch", "drive",
                                    "back_level", "back_mode", "ramp"}
MCToolMayInterrupt == MCToolMayFail \cup {"listen", "unset", "ramp_wait"}
================================================================================
