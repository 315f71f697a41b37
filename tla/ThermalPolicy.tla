----------------------------- MODULE ThermalPolicy -----------------------------
(***************************************************************************)
(* What gpu-governor promises, stated without NVML, without a process and  *)
(* without utilization samples: a three-mode machine driven by the last    *)
(* temperature reading, with a hysteresis band [TempExit, TempEnter) and a *)
(* minimum dwell time in front of every change except the one into         *)
(* THERMAL.  GpuGovernor implements it (see ImplementsPolicy there).       *)
(***************************************************************************)
EXTENDS Integers

CONSTANTS
  TempEnter,   \* THERMAL is entered at or above this reading
  TempExit,    \* THERMAL is left only strictly below this reading
  MinDwell,    \* seconds a mode is held before any other change
  Readings     \* the temperatures a sensor can report

IDLE    == "IDLE"
COMPUTE == "COMPUTE"
THERMAL == "THERMAL"
Modes   == {IDLE, COMPUTE, THERMAL}

NoReading == -1   \* nothing has been read since the daemon started

VARIABLES
  mode,      \* the operating mode
  dwell,     \* seconds spent in mode, counted up to MinDwell
  reading    \* the last temperature read

pvars == <<mode, dwell, reading>>

Start ==
  /\ mode = IDLE
  /\ dwell = 0
  /\ reading = NoReading

Second ==
  /\ dwell < MinDwell
  /\ dwell' = dwell + 1
  /\ UNCHANGED <<mode, reading>>

Sense ==
  /\ reading' \in Readings
  /\ UNCHANGED <<mode, dwell>>

ChangeTo(m) ==
  /\ mode' = m
  /\ dwell' = 0
  /\ UNCHANGED reading

\* Heat wins at once, from either other mode and whatever the dwell.
Trip ==
  /\ reading # NoReading /\ reading >= TempEnter
  /\ mode # THERMAL
  /\ ChangeTo(THERMAL)

\* THERMAL is left for IDLE only, below the band and after the dwell.
Recover ==
  /\ mode = THERMAL
  /\ reading # NoReading /\ reading < TempExit
  /\ dwell = MinDwell
  /\ ChangeTo(IDLE)

\* The load-driven changes: never while hot, never before the dwell.
Follow ==
  /\ reading # NoReading /\ reading < TempEnter
  /\ dwell = MinDwell
  /\ \/ mode = IDLE /\ ChangeTo(COMPUTE)
     \/ mode = COMPUTE /\ ChangeTo(IDLE)

\* The daemon ended (stop or crash) and a later one begins afresh.
Restart ==
  /\ mode' = IDLE
  /\ dwell' = 0
  /\ reading' = NoReading

Step == Second \/ Sense \/ Trip \/ Recover \/ Follow \/ Restart

Safe == Start /\ [][Step]_pvars

\* A standing hot reading is acted on.
Live == Safe /\ WF_pvars(Trip)
================================================================================
