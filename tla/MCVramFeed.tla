------------------------------- MODULE MCVramFeed -------------------------------
(***************************************************************************)
(* An instance of VramFeed: two GPUs in the log of one gddr6, and a group  *)
(* by the hotter sensor, which goes by the core alone when the log is lost.*)
(***************************************************************************)
EXTENDS VramFeed

MCTargets == <<<<"pwm1">>>>
MCSource  == <<"gpu_max">>
MCCurve   == <<<< <<2, 0>>, <<5, 97>> >>>>
MCMinPwm  == <<0>>
================================================================================
