--------------------------- MODULE GpuGovernor_proofs ---------------------------
(***************************************************************************)
(* The safety properties of GpuGovernor for every configuration that       *)
(* Config.validate accepts: types, the refinement of ThermalPolicy, and,   *)
(* where the NVML calls Reliable names succeed, what the driver is left    *)
(* with.                                                                   *)
(***************************************************************************)
EXTENDS GpuGovernor, TLAPS, SequenceTheorems

--------------------------------------------------------------------------------
(* Types *)

\* The sliding window never outgrows util_window.
LEMMA PushBounded ==
  ASSUME NEW w \in Seq(Utils), Len(w) <= UtilWindow, NEW u \in Utils
  PROVE  Push(w, u) \in Seq(Utils) /\ Len(Push(w, u)) <= UtilWindow
<1> USE ConfigValid, Domains DEF Validated
<1>1. CASE Len(w) < UtilWindow
  BY <1>1 DEF Push
<1>2. CASE ~(Len(w) < UtilWindow)
  <2>1. w # << >> /\ Len(w) = UtilWindow
    BY <1>2
  <2>2. Tail(w) \in Seq(Utils) /\ Len(Tail(w)) = Len(w) - 1
    BY <2>1
  <2> QED BY <1>2, <2>1, <2>2 DEF Push
<1> QED BY <1>1, <1>2

\* What tick() does next is one of four things.
LEMMA VerdictPc ==
  ASSUME NEW t, NEW w
  PROVE  Verdict(t, w) \in {"thermal_cap", "idle_unlock", "compute_cap", "sleep"}
  BY DEF Verdict, LoadVerdict

\* A process that has just started, or just ended, is in type.
LEMMA FreshType ==
  ASSUME NEW p \in Gone \cup {"nvml_init"}, Fresh(p), gpu' \in Settings
  PROVE  TypeOK'
<1>1. pc' \in Alive \cup Gone
  BY DEF Fresh, Alive, Sites, InitSites
<1>2. age' \in 0..StateMin /\ slept' \in 0..PollInterval
  BY ConfigValid, Domains DEF Fresh, Validated
<1>3. util_window' \in Seq(Utils) /\ Len(util_window') <= UtilWindow
  BY ConfigValid DEF Fresh, Validated
<1>4. /\ running' \in BOOLEAN /\ fatal' \in BOOLEAN
      /\ default_known' \in BOOLEAN /\ clock_locked' \in BOOLEAN
  BY DEF Fresh
<1> QED
  BY <1>1, <1>2, <1>3, <1>4 DEF Fresh, TypeOK, States

\* The initial states are in type.
LEMMA TypeInit == Init => TypeOK
<1> SUFFICES ASSUME Init PROVE TypeOK
  OBVIOUS
<1>1. age \in 0..StateMin /\ slept \in 0..PollInterval
  BY ConfigValid, Domains DEF Init, Validated
<1>2. util_window \in Seq(Utils) /\ Len(util_window) <= UtilWindow
  BY ConfigValid DEF Init, Validated
<1>3. gpu \in Settings
  BY DEF Init, Settings
<1> QED
  BY <1>1, <1>2, <1>3 DEF Init, TypeOK, Alive, Gone, States

\* A call of a helper leaves the driver and the clock bookkeeping in type.
LEMMA HelperType ==
  ASSUME TypeOK,
         \/ SetPowerLimit("compute") \/ SetPowerLimit("thermal")
         \/ RestorePowerLimit \/ LockClock \/ UnlockClock
  PROVE  /\ gpu' \in Settings
         /\ use_locked_clocks' \in {"unknown", "supported", "unsupported"}
         /\ clock_locked' \in BOOLEAN
  BY DEF TypeOK, SetPowerLimit, RestorePowerLimit, LockClock, UnlockClock, Call, lockVars, Settings

\* Every step keeps the variables in type.
LEMMA TypeStep == TypeOK /\ [Next]_vars => TypeOK'
<1> SUFFICES ASSUME TypeOK, [Next]_vars PROVE TypeOK'
  OBVIOUS
<1> USE ConfigValid, Domains DEF Validated
<1> USE DEF Alive, Sites, InitSites, HandlerSites, ExitSites, Gone,
            loopVars, policyVars, lockVars
<1>1. CASE Launch
  BY <1>1, FreshType DEF Launch, TypeOK
<1>2. CASE Crash
  BY <1>2, FreshType DEF Crash, FailedExit, TypeOK
<1>3. CASE Signal
  BY <1>3 DEF Signal, TypeOK
<1>4. CASE Elapse
  BY <1>4 DEF Elapse, TypeOK
<1>5. CASE Operator
  BY <1>5 DEF Operator, TypeOK, Settings, proc
<1>6. CASE NvmlInit
  BY <1>6 DEF NvmlInit, TypeOK
<1>7. CASE ReadDefault
  BY <1>7 DEF ReadDefault, TypeOK
<1>8. CASE Persistence
  BY <1>8 DEF Persistence, TypeOK, Call, Settings
<1>9. CASE CleanClocks
  BY <1>9 DEF CleanClocks, TypeOK, Call, Settings
<1>10. CASE CleanApps
  BY <1>10 DEF CleanApps, TypeOK, Call, Settings
<1>11. CASE CleanPower
  BY <1>11, HelperType DEF CleanPower, TypeOK
<1>12. CASE Loop
  BY <1>12 DEF Loop, TypeOK
<1>13. CASE Sample
  BY <1>13, PushBounded, VerdictPc DEF Sample, TypeOK
<1>14. CASE ReadFails
  BY <1>14 DEF ReadFails, TypeOK
<1>15. CASE EnterCompute
  BY <1>15, HelperType DEF EnterCompute, Transition, TypeOK, States
<1>16. CASE EnterIdle
  BY <1>16, HelperType DEF EnterIdle, Transition, TypeOK, States
<1>17. CASE EnterThermal
  BY <1>17, HelperType DEF EnterThermal, Transition, TypeOK, States
<1>18. CASE SleepChunk
  BY <1>18 DEF SleepChunk, KeepSleeping, TypeOK
<1>19. CASE Wake
  BY <1>19 DEF Wake, TypeOK
<1>20. CASE Restore
  BY <1>20, HelperType DEF Restore, TypeOK
<1>21. CASE Exit
  BY <1>21, FreshType DEF Exit, FailedExit, TypeOK
<1>22. CASE UNCHANGED vars
  BY <1>22 DEF vars, proc, TypeOK
<1> QED
  BY <1>1, <1>2, <1>3, <1>4, <1>5, <1>6, <1>7, <1>8, <1>9, <1>10, <1>11, <1>12,
     <1>13, <1>14, <1>15, <1>16, <1>17, <1>18, <1>19, <1>20, <1>21, <1>22
  DEF Next, Daemon, Startup, Tick

\* The variables stay in their ranges; in particular _util_window never
\* holds more than util_window samples, whatever calls fail or crash.
THEOREM TypeCorrect == Spec => []TypeOK
  BY TypeInit, TypeStep, PTL DEF Spec

--------------------------------------------------------------------------------
(* The policy.  A handler takes several calls, and time, signals and crashes
   fall between them; what the verdict was reached on must still hold when
   the last call moves the state. *)

\* Why the handler in progress was entered, still true at each of its calls.
VerdictStands ==
  /\ pc \in {"thermal_cap", "thermal_unlock"} =>
       temp # NoTemp /\ temp >= TempEnter /\ state # THERMAL
  /\ pc \in {"compute_cap", "compute_lock"} =>
       temp # NoTemp /\ temp < TempEnter /\ state = IDLE /\ age = StateMin
  /\ pc \in {"idle_unlock", "idle_power"} =>
       /\ temp # NoTemp /\ temp < TempEnter /\ state # IDLE /\ age = StateMin
       /\ state = THERMAL => temp < TempExit

\* Outside a handler, a hot reading has already been answered.
HeatAnswered ==
  pc \in {"loop", "read", "sleep"} /\ temp # NoTemp /\ temp >= TempEnter =>
    state = THERMAL

\* Nothing is read before the loop.
NothingRead == pc \in InitSites => temp = NoTemp

PolicyInv == VerdictStands /\ HeatAnswered /\ NothingRead

\* PolicyInv holds before the first process starts.
LEMMA PolicyInit == Init => PolicyInv
  BY DEF Init, PolicyInv, VerdictStands, HeatAnswered, NothingRead

\* A process that has just started or just ended satisfies every conjunct.
LEMMA FreshPolicy ==
  ASSUME NEW p \in Gone \cup {"nvml_init"}, Fresh(p)
  PROVE  PolicyInv'
  BY DEF Fresh, Gone, PolicyInv, VerdictStands, HeatAnswered, NothingRead

\* A reading takes tick() to the handler whose reasons it has just checked.
LEMMA SamplePolicy == TypeOK /\ PolicyInv /\ Sample => PolicyInv'
<1> SUFFICES ASSUME TypeOK, PolicyInv, Sample PROVE PolicyInv'
  OBVIOUS
<1> USE ConfigValid, Domains DEF InitSites, Validated
<1>1. PICK t \in Temps, u \in Utils :
              temp' = t /\ pc' = Verdict(t, Push(util_window, u))
  BY DEF Sample
<1>2. temp' # NoTemp /\ temp' \in Int
  BY <1>1 DEF NoTemp
<1>3. state' = state /\ age' = age /\ state \in States /\ age \in 0..StateMin
  BY DEF Sample, policyVars, TypeOK
<1>4. CASE t >= TempEnter
  <2>1. pc' = IF state # THERMAL THEN "thermal_cap" ELSE "sleep"
    BY <1>1, <1>4 DEF Verdict
  <2> QED BY <1>1, <1>2, <1>3, <1>4, <2>1 DEF PolicyInv, VerdictStands, HeatAnswered, NothingRead
<1>5. CASE t < TempEnter /\ state = THERMAL
  <2>1. pc' = IF t < TempExit /\ Settled THEN "idle_unlock" ELSE "sleep"
    BY <1>1, <1>5 DEF Verdict
  <2> QED BY <1>1, <1>2, <1>3, <1>5, <2>1
       DEF PolicyInv, VerdictStands, HeatAnswered, NothingRead, Settled, THERMAL, IDLE
<1>6. CASE t < TempEnter /\ state # THERMAL
  <2>1. pc' = LoadVerdict(Push(util_window, u))
    BY <1>1, <1>6 DEF Verdict
  <2>2. \/ pc' = "compute_cap" /\ Settled /\ state # COMPUTE
        \/ pc' = "idle_unlock" /\ Settled /\ state # IDLE
        \/ pc' = "sleep"
    BY <2>1 DEF LoadVerdict
  <2>3. Settled => age = StateMin
    BY <1>3 DEF Settled
  <2> QED BY <1>1, <1>2, <1>3, <1>6, <2>2, <2>3
       DEF PolicyInv, VerdictStands, HeatAnswered, NothingRead, States
<1> QED BY <1>1, <1>4, <1>5, <1>6

\* No step, within a handler or between two, takes its reasons away.
LEMMA PolicyStep == TypeOK /\ PolicyInv /\ [Next]_vars => PolicyInv'
<1> SUFFICES ASSUME TypeOK, PolicyInv, [Next]_vars PROVE PolicyInv'
  OBVIOUS
<1> USE ConfigValid, Domains DEF Validated
<1> USE DEF PolicyInv, VerdictStands, HeatAnswered, NothingRead, InitSites,
            loopVars, policyVars
<1>1. CASE Launch \/ Crash \/ Exit
  BY <1>1, FreshPolicy DEF Launch, Crash, Exit, FailedExit, Gone
<1>2. CASE Signal \/ Operator
  BY <1>2 DEF Signal, Operator, proc
<1>3. CASE Elapse
  BY <1>3 DEF Elapse, TypeOK
<1>4. CASE Startup
  <2>1. /\ pc \in InitSites
        /\ pc' \in InitSites \cup {"restore_unlock", "loop"}
        /\ temp' = temp
    BY <1>4 DEF Startup, NvmlInit, ReadDefault, Persistence, CleanClocks,
                CleanApps, CleanPower
  <2> QED BY <2>1
<1>5. CASE Loop \/ ReadFails \/ Wake
  BY <1>5 DEF Loop, ReadFails, Wake
<1>6. CASE Sample
  BY <1>6, SamplePolicy
<1>7. CASE EnterCompute
  BY <1>7 DEF EnterCompute, Transition, TypeOK
<1>8. CASE EnterIdle
  BY <1>8 DEF EnterIdle, Transition, TypeOK
<1>9. CASE EnterThermal
  BY <1>9 DEF EnterThermal, Transition, TypeOK
<1>10. CASE SleepChunk
  BY <1>10 DEF SleepChunk
<1>11. CASE Restore
  BY <1>11 DEF Restore
<1>12. CASE UNCHANGED vars
  BY <1>12 DEF vars, proc
<1> QED
  BY <1>1, <1>2, <1>3, <1>4, <1>5, <1>6, <1>7, <1>8, <1>9, <1>10, <1>11, <1>12
  DEF Next, Daemon, Tick

\* Every step of the daemon is a step of the policy, or stutters.
LEMMA StepRefines ==
  TypeOK /\ PolicyInv /\ [Next]_vars => [Policy!Step]_Policy!pvars
<1> SUFFICES ASSUME TypeOK, PolicyInv, [Next]_vars
             PROVE  [Policy!Step]_Policy!pvars
  OBVIOUS
<1> USE ConfigValid, Domains DEF Validated
<1> USE DEF loopVars, policyVars, Policy!Step, Policy!pvars
<1>1. CASE Launch \/ Crash \/ Exit
  <2>1. \E p : Fresh(p)
    BY <1>1 DEF Launch, Crash, Exit
  <2>2. Policy!Restart
    BY <2>1 DEF Fresh, Policy!Restart, NoTemp, Policy!NoReading, Policy!IDLE, IDLE
  <2> QED BY <2>2
<1>2. CASE Signal \/ Operator \/ Loop \/ ReadFails \/ Wake
  BY <1>2 DEF Signal, Operator, proc, Loop, ReadFails, Wake
<1>3. CASE Elapse
  BY <1>3 DEF Elapse, Policy!Second
<1>4. CASE Startup
  BY <1>4 DEF Startup, NvmlInit, ReadDefault, Persistence, CleanClocks,
              CleanApps, CleanPower
<1>5. CASE Sample
  <2>1. Policy!Sense
    BY <1>5 DEF Sample, Policy!Sense
  <2> QED BY <2>1
<1>6. CASE EnterCompute
  <2>1. CASE pc = "compute_lock"
    <3>1. state = IDLE /\ temp # NoTemp /\ temp < TempEnter /\ age = StateMin
      BY <2>1 DEF PolicyInv, VerdictStands
    <3>2. state' = COMPUTE /\ age' = 0 /\ temp' = temp
      BY <1>6, <2>1, <3>1 DEF EnterCompute, Transition, IDLE, COMPUTE
    <3>3. Policy!Follow
      BY <3>1, <3>2 DEF Policy!Follow, Policy!ChangeTo, NoTemp, Policy!NoReading,
         IDLE, Policy!IDLE, COMPUTE, Policy!COMPUTE
    <3> QED BY <3>3
  <2>2. CASE pc # "compute_lock"
    BY <1>6, <2>2 DEF EnterCompute
  <2> QED BY <2>1, <2>2
<1>7. CASE EnterIdle
  <2>1. CASE pc = "idle_power"
    <3>1. /\ state # IDLE /\ temp # NoTemp /\ temp < TempEnter /\ age = StateMin
          /\ state = THERMAL => temp < TempExit
      BY <2>1 DEF PolicyInv, VerdictStands
    <3>2. state' = IDLE /\ age' = 0 /\ temp' = temp
      BY <1>7, <2>1, <3>1 DEF EnterIdle, Transition
    <3>3. state = THERMAL \/ state = COMPUTE
      BY <3>1 DEF TypeOK, States
    <3>4. Policy!Recover \/ Policy!Follow
      BY <3>1, <3>2, <3>3 DEF Policy!Recover, Policy!Follow, Policy!ChangeTo,
         NoTemp, Policy!NoReading, IDLE, Policy!IDLE, COMPUTE, Policy!COMPUTE,
         THERMAL, Policy!THERMAL
    <3> QED BY <3>4
  <2>2. CASE pc # "idle_power"
    BY <1>7, <2>2 DEF EnterIdle
  <2> QED BY <2>1, <2>2
<1>8. CASE EnterThermal
  <2>1. CASE pc = "thermal_unlock"
    <3>1. state # THERMAL /\ temp # NoTemp /\ temp >= TempEnter
      BY <2>1 DEF PolicyInv, VerdictStands
    <3>2. state' = THERMAL /\ age' = 0 /\ temp' = temp
      BY <1>8, <2>1, <3>1 DEF EnterThermal, Transition
    <3>3. Policy!Trip
      BY <3>1, <3>2 DEF Policy!Trip, Policy!ChangeTo, NoTemp, Policy!NoReading,
         THERMAL, Policy!THERMAL
    <3> QED BY <3>3
  <2>2. CASE pc # "thermal_unlock"
    BY <1>8, <2>2 DEF EnterThermal
  <2> QED BY <2>1, <2>2
<1>9. CASE SleepChunk
  BY <1>9 DEF SleepChunk, Policy!Second
<1>10. CASE Restore
  BY <1>10 DEF Restore
<1>11. CASE UNCHANGED vars
  BY <1>11 DEF vars, proc
<1> QED
  BY <1>1, <1>2, <1>3, <1>4, <1>5, <1>6, <1>7, <1>8, <1>9, <1>10, <1>11
  DEF Next, Daemon, Tick

\* The daemon starts where the policy starts.
LEMMA InitRefines == Init => Policy!Start
  BY DEF Init, Policy!Start, IDLE, Policy!IDLE, NoTemp, Policy!NoReading

\* Hysteresis, dwell and the priority of heat hold of the daemon, for every
\* configuration Config.validate accepts and whichever NVML calls fail.
THEOREM PolicyImplemented == Spec => ImplementsPolicy
<1>1. Spec => []TypeOK
  BY TypeCorrect
<1>2. TypeOK /\ [Next]_vars /\ PolicyInv => PolicyInv'
  BY PolicyStep
<1> QED
  BY <1>1, <1>2, PolicyInit, InitRefines, StepRefines, PTL
  DEF Spec, ImplementsPolicy, Policy!Safe

--------------------------------------------------------------------------------
(* The driver, in an environment that grants Reliable.  Nothing is known of
   it until _startup_clean is through: Init, a crashed predecessor or an
   operator may have set anything.  From then on each call site knows what
   the calls before it have left. *)

Booting == InitSites \cup Gone

\* What a process still in init(), or gone, has done to its own fields.
BootState ==
  /\ pc \in Booting => ~clock_locked /\ state = IDLE /\ ~fatal
  /\ fatal => ~clock_locked /\ pc \in ExitSites
  /\ clock_locked => use_locked_clocks = "supported"
  /\ pc \notin Gone \cup {"nvml_init", "read_default"} /\ ~fatal => default_known

\* The clock lock, from the reset in _startup_clean to the end.
ClockTracked ==
  /\ pc \in {"clean_apps", "clean_power"} => gpu.lock = "free"
  /\ pc \notin Booting /\ ~fatal =>
       /\ gpu.lock \in {"free", "governor"}
       /\ gpu.lock = "governor" <=> clock_locked
       /\ clock_locked => state = COMPUTE
  /\ pc \in {"idle_power", "restore_power", "nvml_shutdown"} => ~clock_locked

\* The power limit, between ticks and at the second call of a handler.
PowerTracked ==
  /\ pc \in {"loop", "read", "sleep"} => gpu.pl = Target(state)
  /\ pc = "compute_lock" => gpu.pl = "compute"
  /\ pc = "thermal_unlock" => gpu.pl = "thermal"
  /\ pc = "nvml_shutdown" /\ ~fatal => gpu.pl = "default"

DriverInv == BootState /\ ClockTracked /\ PowerTracked

\* The power limit of each state.
LEMMA TargetOf ==
  /\ Target(IDLE) = "default"
  /\ Target(COMPUTE) = "compute"
  /\ Target(THERMAL) = "thermal"
  BY DEF Target, IDLE, COMPUTE, THERMAL

\* DriverInv holds before the first process starts.
LEMMA DriverInit == Init => DriverInv
  BY DEF Init, DriverInv, BootState, ClockTracked, PowerTracked, Booting,
         InitSites, Gone, ExitSites

\* A process that has just started, or just ended, knows nothing yet.
LEMMA FreshDriver ==
  ASSUME NEW p \in Gone \cup {"nvml_init"}, Fresh(p)
  PROVE  DriverInv'
  BY DEF Fresh, DriverInv, BootState, ClockTracked, PowerTracked, Booting,
         InitSites, Gone, ExitSites

\* Every call keeps the bookkeeping true of the driver.
LEMMA DriverStep ==
  ASSUME Reliable, TypeOK, DriverInv, [Next]_vars
  PROVE  DriverInv'
<1> USE DEF DriverInv, BootState, ClockTracked, PowerTracked, Booting,
            InitSites, ExitSites, Gone, loopVars, policyVars, lockVars
<1>1. CASE Launch \/ Crash \/ Exit
  BY <1>1, FreshDriver DEF Launch, Crash, Exit, FailedExit
<1>2. CASE Signal
  BY <1>2 DEF Signal
<1>3. CASE Elapse
  BY <1>3 DEF Elapse
<1>4. CASE Operator
  BY <1>4 DEF Operator, Reliable, proc
<1>5. CASE NvmlInit
  BY <1>5 DEF NvmlInit
<1>6. CASE ReadDefault
  BY <1>6 DEF ReadDefault, Reliable, MustSucceed
<1>7. CASE Persistence
  BY <1>7 DEF Persistence
<1>8. CASE CleanClocks
  BY <1>8 DEF CleanClocks, Call, Reliable, MustSucceed, TypeOK, Settings
<1>9. CASE CleanApps
  BY <1>9 DEF CleanApps, Call, TypeOK, Settings
<1>10. CASE CleanPower
  <2>1. default_known /\ ~fatal /\ ~clock_locked /\ gpu.lock = "free" /\ state = IDLE
    BY <1>10 DEF CleanPower
  <2>2. gpu' = [gpu EXCEPT !.pl = "default"]
    BY <1>10, <2>1 DEF CleanPower, RestorePowerLimit, Call, Reliable, MustSucceed
  <2>3. gpu'.pl = Target(IDLE) /\ gpu'.lock = "free"
    BY <2>1, <2>2, TargetOf DEF TypeOK, Settings
  <2>4. pc' = "loop" /\ UNCHANGED <<fatal, state, default_known, lockVars>>
    BY <1>10 DEF CleanPower, RestorePowerLimit
  <2> QED BY <2>1, <2>3, <2>4
<1>11. CASE Loop
  BY <1>11 DEF Loop
<1>12. CASE Sample
  BY <1>12, VerdictPc DEF Sample
<1>13. CASE ReadFails
  BY <1>13 DEF ReadFails
<1>14. CASE EnterCompute
  <2>1. CASE pc = "compute_cap"
    <3>1. gpu' = [gpu EXCEPT !.pl = "compute"]
      BY <1>14, <2>1 DEF EnterCompute, SetPowerLimit, Call, Reliable, MustSucceed
    <3>2. gpu'.pl = "compute" /\ gpu'.lock = gpu.lock
      BY <3>1 DEF TypeOK, Settings
    <3>3. /\ pc' = "compute_lock"
          /\ UNCHANGED <<fatal, state, default_known, lockVars>>
      BY <1>14, <2>1 DEF EnterCompute, SetPowerLimit
    <3> QED BY <2>1, <3>2, <3>3
  <2>2. CASE pc = "compute_lock"
    <3>1. gpu'.pl = Target(COMPUTE) /\ pc' = "sleep" /\ state' = COMPUTE
      BY <1>14, <2>2, TargetOf DEF EnterCompute, LockClock, Transition, TypeOK, Settings
    <3>2. \/ gpu'.lock = "governor" /\ clock_locked' /\ use_locked_clocks' = "supported"
          \/ /\ gpu' = gpu /\ clock_locked' = clock_locked
             /\ use_locked_clocks = "supported" => use_locked_clocks' = "supported"
      BY <1>14, <2>2 DEF EnterCompute, LockClock, TypeOK, Settings
    <3>3. fatal' = fatal /\ default_known' = default_known
      BY <1>14 DEF EnterCompute
    <3> QED BY <2>2, <3>1, <3>2, <3>3
  <2> QED BY <1>14, <2>1, <2>2 DEF EnterCompute
<1>15. CASE EnterIdle
  <2>1. default_known /\ ~fatal
    BY <1>15 DEF EnterIdle
  <2>2. CASE pc = "idle_unlock"
    <3>1. ~clock_locked' /\ gpu'.lock = "free" /\ use_locked_clocks' = use_locked_clocks
      BY <1>15, <2>1, <2>2 DEF EnterIdle, UnlockClock, NeedsUnlock, Call, Reliable,
         MustSucceed, TypeOK, Settings
    <3> QED BY <1>15, <2>1, <2>2, <3>1 DEF EnterIdle
  <2>3. CASE pc = "idle_power"
    <3>1. gpu' = [gpu EXCEPT !.pl = "default"]
      BY <1>15, <2>1, <2>3 DEF EnterIdle, RestorePowerLimit, Call, Reliable, MustSucceed
    <3>2. gpu'.pl = Target(IDLE) /\ gpu'.lock = gpu.lock
      BY <3>1, TargetOf DEF TypeOK, Settings
    <3>3. /\ pc' = "sleep" /\ state' = IDLE
          /\ UNCHANGED <<fatal, default_known, lockVars>>
      BY <1>15, <2>3 DEF EnterIdle, RestorePowerLimit, Transition
    <3> QED BY <2>1, <2>3, <3>2, <3>3
  <2> QED BY <1>15, <2>2, <2>3 DEF EnterIdle
<1>16. CASE EnterThermal
  BY <1>16 DEF EnterThermal, SetPowerLimit, UnlockClock, NeedsUnlock,
     Transition, Call, Reliable, MustSucceed, TypeOK, Settings, Target
<1>17. CASE SleepChunk
  BY <1>17 DEF SleepChunk
<1>18. CASE Wake
  BY <1>18 DEF Wake
<1>19. CASE Restore
  BY <1>19 DEF Restore, UnlockClock, NeedsUnlock, RestorePowerLimit, Call,
     Reliable, MustSucceed, TypeOK, Settings
<1>20. CASE UNCHANGED vars
  BY <1>20 DEF vars, proc
<1> QED
  BY <1>1, <1>2, <1>3, <1>4, <1>5, <1>6, <1>7, <1>8, <1>9, <1>10, <1>11, <1>12,
     <1>13, <1>14, <1>15, <1>16, <1>17, <1>18, <1>19, <1>20
  DEF Next, Daemon, Startup, Tick

\* DriverInv is an invariant where the calls Reliable names succeed.
LEMMA DriverAlways ==
  ASSUME Reliable
  PROVE  Spec => []DriverInv
<1>1. TypeOK /\ DriverInv /\ [Next]_vars => DriverInv'
  BY DriverStep
<1> QED
  BY <1>1, TypeCorrect, DriverInit, PTL DEF Spec

\* PolicyInv is an invariant.
LEMMA PolicyAlways == Spec => []PolicyInv
  BY TypeCorrect, PolicyInit, PolicyStep, PTL DEF Spec

\* Between two ticks the driver is what the state says.
THEOREM DriverActuated ==
  ASSUME Reliable
  PROVE  Spec => []Actuated
<1>1. DriverInv => Actuated
  BY DEF DriverInv, BootState, ClockTracked, PowerTracked, Actuated, Booting,
         InitSites, ExitSites, Gone
<1> QED
  BY <1>1, DriverAlways, PTL

\* No load, dwell, signal, crash or restart delays thermal protection.
THEOREM HeatCapped ==
  ASSUME Reliable
  PROVE  Spec => []HotIsCapped
<1>1. DriverInv /\ PolicyInv => HotIsCapped
  BY DEF DriverInv, BootState, ClockTracked, PowerTracked, HotIsCapped, Booting,
         InitSites, ExitSites, Gone, PolicyInv, HeatAnswered, Target,
         IDLE, COMPUTE, THERMAL
<1> QED
  BY <1>1, DriverAlways, PolicyAlways, PTL

\* A daemon that got through init() leaves no clock lock behind, at whatever
\* call the signal arrived: clock_locked is never wrong about the driver.
THEOREM ExitUnlocks ==
  ASSUME Reliable
  PROVE  Spec => []ExitUnlocksClock
<1>1. DriverInv => ExitUnlocksClock
  BY DEF DriverInv, BootState, ClockTracked, PowerTracked, ExitUnlocksClock,
         Booting, InitSites, ExitSites, Gone
<1> QED
  BY <1>1, DriverAlways, PTL

\* And it leaves the factory power limit.
THEOREM ExitRestores ==
  ASSUME Reliable
  PROVE  Spec => []ExitRestoresPower
<1>1. DriverInv => ExitRestoresPower
  BY DEF DriverInv, BootState, ClockTracked, PowerTracked, ExitRestoresPower,
         Booting, InitSites, ExitSites, Gone
<1> QED
  BY <1>1, DriverAlways, PTL
================================================================================
