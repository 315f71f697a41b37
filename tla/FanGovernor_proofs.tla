--------------------------- MODULE FanGovernor_proofs ---------------------------
(***************************************************************************)
(* Safety properties of FanGovernor that hold for every configuration      *)
(* Config.validate accepts, every curve and every set of temperatures,     *)
(* whatever device accesses fail, whoever else writes the channels and     *)
(* however often the daemon crashes.  The last three parts have conditions *)
(* of their own: Steep, Undivided and Orderly.                             *)
(***************************************************************************)
EXTENDS FanGovernor, FanCurve_proofs

--------------------------------------------------------------------------------
(* Types *)

\* The target of the loop in progress is a device of the configuration.
LEMMA DeviceOf ==
  ASSUME TypeOK
  PROVE  /\ Device \in Devices
         /\ Len(Targets) \in Nat /\ Len(Targets) >= 1
         /\ \A g \in Groups : Len(Targets[g]) \in Nat /\ Len(Targets[g]) >= 1
<1>1. /\ Targets \in Seq(Seq(Devices)) /\ Len(Targets) >= 1
      /\ \A g \in Groups : Len(Targets[g]) >= 1
  BY ConfigValid DEF Validated
<1>2. \A g \in Groups : Targets[g] \in Seq(Devices)
  BY <1>1 DEF Groups
<1>3. gi \in Groups /\ ki \in 1..Len(Targets[gi])
  BY DEF TypeOK
<1> QED BY <1>1, <1>2, <1>3 DEF Device

\* What _decide_pwm returns is a percentage, for any whole temperature.
LEMMA DecidedRange ==
  ASSUME NEW g \in Groups, NEW t \in Int
  PROVE  /\ RawPwm(g, t) \in 0..100 /\ RawPwm(g, t) >= MinPwm[g]
         /\ Decided(g, t) \in 0..100
<1>1. ValidCurve(Curve[g]) /\ MinPwm[g] \in 0..100
  BY ConfigValid DEF Validated
<1>2. interpolate(Curve[g], t) \in 0..100
  BY <1>1, InterpolateRange
<1> QED BY <1>1, <1>2 DEF RawPwm, Decided, Max2

\* What read() returns for a group is a temperature of a sensor, or none.
LEMMA ReadsRange ==
  ASSUME NEW g \in Groups
  PROVE  /\ Reads(g) \subseteq CoreTemps \cup VramTemps \cup {NoReading}
         /\ Reads(g) \ {NoReading} \subseteq Nat
<1>1. Source[g] \in {"gpu_core", "gpu_vram", "gpu_max"}
  BY ConfigValid DEF Validated
<1>2. CoreTemps \subseteq Nat /\ VramTemps \subseteq Nat
  BY Domains
<1>3. Reads(g) \subseteq CoreTemps \cup VramTemps \cup {NoReading}
  BY <1>1, <1>2 DEF Reads, Lost, Max2
<1> QED BY <1>2, <1>3

\* A process that has just started, or just ended, is in type.
LEMMA FreshType ==
  ASSUME NEW p \in Gone \cup {"nvml_init"}, Fresh(p),
         hw' \in [Devices -> [mode : Modes, level : 0..255]],
         firmware' \in [Hwmon -> FirmwareModes]
  PROVE  TypeOK'
<1>1. pc' \in Alive \cup Gone
  BY DEF Fresh, Alive
<1>2. Len(Targets) \in Nat /\ \A g \in Groups : Len(Targets[g]) \in Nat
  BY ConfigValid DEF Groups, Validated
<1>3. gi' \in Groups /\ ki' \in 1..Len(Targets[gi']) /\ claimed' \in 0..Len(Targets)
  BY <1>2, ConfigValid DEF Fresh, Groups, Validated
<1>4. /\ DOMAIN original' = Groups
      /\ \A g \in Groups : original'[g] \in [1..Len(Targets[g]) -> Modes \cup {Unread}]
  BY DEF Fresh
<1>5. since' \in [Groups -> 0..MinStateSeconds] /\ slept' \in 0..PollInterval
  BY ConfigValid, Domains DEF Fresh, Validated
<1>6. beat' \in 0..Heartbeat /\ want' \in 0..100
  BY Domains DEF Fresh
<1> QED BY <1>1, <1>3, <1>4, <1>5, <1>6 DEF Fresh, TypeOK

\* The initial states are in type.
LEMMA TypeInit == Init => TypeOK
<1> SUFFICES ASSUME Init PROVE TypeOK
  OBVIOUS
<1>1. Len(Targets) \in Nat /\ \A g \in Groups : Len(Targets[g]) \in Nat
  BY ConfigValid DEF Groups, Validated
<1>2. gi \in Groups /\ ki \in 1..Len(Targets[gi]) /\ claimed \in 0..Len(Targets)
  BY <1>1, ConfigValid DEF Init, Groups, Validated
<1>3. /\ DOMAIN original = Groups
      /\ \A g \in Groups : original[g] \in [1..Len(Targets[g]) -> Modes \cup {Unread}]
  BY DEF Init
<1>4. since \in [Groups -> 0..MinStateSeconds] /\ slept \in 0..PollInterval
  BY ConfigValid, Domains DEF Init, Validated
<1>5. beat \in 0..Heartbeat /\ want \in 0..100
  BY Domains DEF Init
<1>6. hw \in [Devices -> [mode : Modes, level : 0..255]]
  BY Domains, ConfigValid DEF Init, Modes, Validated
<1> QED BY <1>2, <1>3, <1>4, <1>5, <1>6 DEF Init, TypeOK, Alive, Gone

\* NextGroup stays within the groups.
LEMMA NextGroupType ==
  ASSUME TypeOK, NextGroup
  PROVE  /\ gi' \in Groups /\ ki' \in 1..Len(Targets[gi'])
         /\ pc' \in {"group", "sleep"}
<1>1. gi' \in Groups /\ pc' \in {"group", "sleep"}
  BY DeviceOf DEF NextGroup, TypeOK, Groups
<1> QED BY <1>1, DeviceOf DEF NextGroup

\* NextClaim stays within the targets, and counts at most all groups.
LEMMA NextClaimType ==
  ASSUME TypeOK, NextClaim
  PROVE  /\ gi' \in Groups /\ ki' \in 1..Len(Targets[gi'])
         /\ claimed' \in 0..Len(Targets)
         /\ pc' \in Alive
<1>1. gi' \in Groups /\ claimed' \in 0..Len(Targets)
  <2>1. gi \in 1..Len(Targets) /\ Len(Targets) \in Nat /\ claimed \in 0..Len(Targets)
    BY DeviceOf DEF TypeOK, Groups
  <2>2. gi' \in 1..Len(Targets)
    BY <2>1 DEF NextClaim
  <2>3. claimed' = claimed \/ claimed' = gi
    BY DEF NextClaim
  <2> QED BY <2>1, <2>2, <2>3 DEF Groups
<1>2. pc' \in Alive
  BY DEF NextClaim, Alive
<1>3. CASE ki < Len(Targets[gi])
  <2>1. gi' = gi /\ ki' = ki + 1
    BY <1>3 DEF NextClaim
  <2> QED BY <1>1, <1>2, <1>3, <2>1 DEF TypeOK
<1>4. CASE ~(ki < Len(Targets[gi]))
  BY <1>1, <1>2, <1>4, DeviceOf DEF NextClaim
<1> QED BY <1>3, <1>4

\* NextRestore stays within the targets of the groups that were claimed.
LEMMA NextRestoreType ==
  ASSUME TypeOK, NextRestore
  PROVE  /\ gi' \in Groups /\ ki' \in 1..Len(Targets[gi'])
         /\ pc' \in {"restore", "nvml_shutdown"}
<1>1. gi' \in Groups /\ pc' \in {"restore", "nvml_shutdown"}
  BY DeviceOf DEF NextRestore, TypeOK, Groups
<1>2. CASE ki < Len(Targets[gi])
  <2>1. gi' = gi /\ ki' = ki + 1
    BY <1>2 DEF NextRestore
  <2> QED BY <1>1, <1>2, <2>1 DEF TypeOK
<1>3. CASE ~(ki < Len(Targets[gi]))
  BY <1>1, <1>3, DeviceOf DEF NextRestore
<1> QED BY <1>2, <1>3

\* A failed init() is in type.
LEMMA AbandonType ==
  ASSUME TypeOK, Abandon
  PROVE  /\ gi' \in Groups /\ ki' \in 1..Len(Targets[gi'])
         /\ pc' \in Alive /\ fatal' \in BOOLEAN
<1>1. gi' \in Groups
  BY DeviceOf DEF Abandon, Groups
<1> QED BY <1>1, DeviceOf DEF Abandon, Alive

\* A passing second keeps the ages of groups and heartbeat below their limits.
LEMMA SecondType ==
  ASSUME TypeOK, Second
  PROVE  since' \in [Groups -> 0..MinStateSeconds] /\ beat' \in 0..Heartbeat
<1>1. ASSUME NEW limit \in Nat, NEW age \in 0..limit
      PROVE  Older(age, limit) \in 0..limit /\ 0 \in 0..limit
  BY <1>1 DEF Older
<1>2. MinStateSeconds \in Nat /\ Heartbeat \in Nat
  BY Domains
<1>3. since \in [Groups -> 0..MinStateSeconds] /\ beat \in 0..Heartbeat
  BY DEF TypeOK
<1>4. \A g \in Groups : (IF last_pwm[g] = NoPwm THEN 0
                         ELSE Older(since[g], MinStateSeconds)) \in 0..MinStateSeconds
  BY <1>1, <1>2, <1>3
<1> QED BY <1>1, <1>2, <1>3, <1>4 DEF Second

\* Every step keeps the variables in type.
LEMMA TypeStep == TypeOK /\ [Next]_vars => TypeOK'
<1> SUFFICES ASSUME TypeOK, [Next]_vars PROVE TypeOK'
  OBVIOUS
<1> DEFINE Registers == [mode : Modes, level : 0..255]
<1> USE DEF groupVars, procVars
<1>1. CASE Launch
  BY <1>1, FreshType DEF Launch, TypeOK
<1>2. CASE Crash
  BY <1>2, FreshType DEF Crash, FailedExit, Gone, TypeOK
<1>3. CASE Signal
  BY <1>3 DEF Signal, TypeOK
<1>4. CASE Elapse
  <2>1. since' \in [Groups -> 0..MinStateSeconds] /\ beat' \in 0..Heartbeat
    BY <1>4, SecondType DEF Elapse
  <2> QED BY <1>4, <2>1 DEF Elapse, TypeOK
<1>5. CASE Operator
  <2>1. PICK d \in Hwmon : hw' = [hw EXCEPT ![d].mode = "auto"]
    BY <1>5 DEF Operator
  <2>2. "auto" \in Modes /\ d \in Devices
    BY ConfigValid, Domains DEF Modes, Validated
  <2>3. hw' \in [Devices -> Registers]
    <3>1. hw \in [Devices -> Registers]
      BY DEF TypeOK
    <3> QED BY <2>1, <2>2, <3>1
  <2> QED BY <1>5, <2>3 DEF Operator, proc, TypeOK
<1>6. CASE NvmlInit
  BY <1>6 DEF NvmlInit, TypeOK, Alive
<1>7. CASE Resolve
  <2>1. /\ gi' \in Groups /\ ki' \in 1..Len(Targets[gi'])
        /\ pc' \in Alive /\ fatal' \in BOOLEAN
    BY <1>7, AbandonType DEF Resolve, TypeOK, Alive
  <2> QED BY <1>7, <2>1 DEF Resolve, TypeOK
<1>8. CASE ClaimRead
  <2>1. /\ DOMAIN original' = Groups
        /\ \A g \in Groups : original'[g] \in [1..Len(Targets[g]) -> Modes \cup {Unread}]
    <3>1. hw[Device].mode \in Modes
      BY DeviceOf DEF TypeOK
    <3>2. \/ original' = [original EXCEPT ![gi][ki] = hw[Device].mode]
          \/ original' = original
      BY <1>8 DEF ClaimRead
    <3>3. /\ DOMAIN original = Groups
          /\ \A g \in Groups : original[g] \in [1..Len(Targets[g]) -> Modes \cup {Unread}]
      BY DEF TypeOK
    <3>4. [original[gi] EXCEPT ![ki] = hw[Device].mode]
            \in [1..Len(Targets[gi]) -> Modes \cup {Unread}]
      BY <3>1, <3>3 DEF TypeOK
    <3>5. CASE original' = [original EXCEPT ![gi][ki] = hw[Device].mode]
      <4>1. DOMAIN original' = Groups
        BY <3>3, <3>5
      <4>2. \A g \in Groups : original'[g] =
              IF g = gi THEN [original[gi] EXCEPT ![ki] = hw[Device].mode] ELSE original[g]
        BY <3>3, <3>5
      <4> QED BY <3>3, <3>4, <4>1, <4>2
    <3> QED BY <3>2, <3>3, <3>5
  <2>2. /\ gi' \in Groups /\ ki' \in 1..Len(Targets[gi'])
        /\ claimed' \in 0..Len(Targets) /\ pc' \in Alive
    BY <1>8, NextClaimType DEF ClaimRead, TypeOK, Alive
  <2> QED BY <1>8, <2>1, <2>2 DEF ClaimRead, TypeOK
<1>9. CASE ClaimWrite
  <2>1. hw' \in [Devices -> Registers]
    <3>1. hw' = [hw EXCEPT ![Device].mode = "manual"] \/ hw' = hw
      BY <1>9 DEF ClaimWrite
    <3>2. "manual" \in Modes
      BY DEF Modes
    <3>3. Device \in Devices /\ hw \in [Devices -> Registers]
      BY DeviceOf DEF TypeOK
    <3>4. CASE hw' = [hw EXCEPT ![Device].mode = "manual"]
      BY <3>2, <3>3, <3>4
    <3> QED BY <3>1, <3>3, <3>4
  <2>2. /\ gi' \in Groups /\ ki' \in 1..Len(Targets[gi'])
        /\ claimed' \in 0..Len(Targets) /\ pc' \in Alive /\ fatal' \in BOOLEAN
    BY <1>9, NextClaimType, AbandonType DEF ClaimWrite, TypeOK
  <2> QED BY <1>9, <2>1, <2>2 DEF ClaimWrite, TypeOK
<1>10. CASE Loop
  <2>1. pc' \in Alive /\ beat' \in 0..Heartbeat
    BY <1>10, Domains DEF Loop, TypeOK, Alive
  <2> QED BY <1>10, <2>1 DEF Loop, TypeOK
<1>11. CASE SkipGroup
  BY <1>11, NextGroupType DEF SkipGroup, TypeOK, Alive
<1>12. CASE DecideGroup
  <2>1. PICK t \in Reads(gi) \ {NoReading} :
          /\ seen' = [seen EXCEPT ![gi] = t]
          /\ in_emergency' = [in_emergency EXCEPT ![gi] = EmergencyAfter(gi, t)]
          /\ fans_stopped' = [fans_stopped EXCEPT ![gi] = StoppedAfter(gi, t)]
          /\ \/ NextGroup /\ UNCHANGED want
             \/ want' = Decided(gi, t) /\ pc' = "apply" /\ UNCHANGED <<gi, ki>>
    BY <1>12 DEF DecideGroup
  <2>2. gi \in Groups
    BY DEF TypeOK
  <2>3. t \in Int /\ t \in CoreTemps \cup VramTemps \cup {NoReading}
    BY <2>2, ReadsRange
  <2>4. seen' \in [Groups -> CoreTemps \cup VramTemps \cup {NoReading}]
    BY <2>1, <2>2, <2>3 DEF TypeOK
  <2>5. in_emergency' \in [Groups -> BOOLEAN] /\ fans_stopped' \in [Groups -> BOOLEAN]
    <3>1. EmergencyAfter(gi, t) \in BOOLEAN /\ StoppedAfter(gi, t) \in BOOLEAN
      BY DEF EmergencyAfter, StoppedAfter
    <3> QED BY <2>1, <2>2, <3>1 DEF TypeOK
  <2>6. /\ gi' \in Groups /\ ki' \in 1..Len(Targets[gi'])
        /\ pc' \in Alive /\ want' \in 0..100
    <3>1. CASE NextGroup /\ UNCHANGED want
      BY <3>1, NextGroupType DEF TypeOK, Alive
    <3>2. CASE want' = Decided(gi, t) /\ pc' = "apply" /\ UNCHANGED <<gi, ki>>
      <4>1. Decided(gi, t) \in 0..100
        BY <2>2, <2>3, DecidedRange
      <4> QED BY <3>2, <4>1 DEF TypeOK, Alive
    <3> QED BY <2>1, <3>1, <3>2
  <2> QED BY <1>12, <2>4, <2>5, <2>6 DEF DecideGroup, TypeOK
<1>13. CASE Apply
  <2>1. hw' \in [Devices -> Registers]
    <3>1. Written(Device, want) \in Registers
      <4>1. hw[Device] \in Registers /\ want \in 0..100
        BY DeviceOf DEF TypeOK
      <4>2. RawOf(want) \in 0..255
        <5>1. want \in 0..100
          BY <4>1
        <5> QED BY ONLY <5>1, RawRange
      <4>3. want \in 0..255
        BY <4>1
      <4>4. "auto" \in Modes /\ "manual" \in Modes
        BY Domains DEF Modes
      <4> QED BY <4>1, <4>2, <4>3, <4>4 DEF Written, FanWritten, PwmWritten
    <3>2. hw' = [hw EXCEPT ![Device] = Written(Device, want)] \/ hw' = hw
      BY <1>13 DEF Apply
    <3>3. Device \in Devices /\ hw \in [Devices -> Registers]
      BY DeviceOf DEF TypeOK
    <3>4. CASE hw' = [hw EXCEPT ![Device] = Written(Device, want)]
      BY <3>1, <3>3, <3>4
    <3> QED BY <3>2, <3>3, <3>4
  <2>2. CASE ki < Len(Targets[gi])
    <3>1. ki' = ki + 1 /\ ki' \in 1..Len(Targets[gi])
      BY <1>13, <2>2, DeviceOf DEF Apply, TypeOK
    <3>2. UNCHANGED <<pc, gi, last_pwm, since, want>>
      BY <1>13, <2>2 DEF Apply
    <3> QED BY <1>13, <2>1, <3>1, <3>2 DEF Apply, TypeOK
  <2>3. CASE ~(ki < Len(Targets[gi]))
    <3>1. /\ last_pwm' = [last_pwm EXCEPT ![gi] = want]
          /\ since' = [since EXCEPT ![gi] = 0]
          /\ want' = 0 /\ NextGroup
      BY <1>13, <2>3 DEF Apply
    <3>2. last_pwm' \in [Groups -> 0..100 \cup {NoPwm}]
      BY <3>1 DEF TypeOK
    <3>3. since' \in [Groups -> 0..MinStateSeconds] /\ want' \in 0..100
      <4>1. since \in [Groups -> 0..MinStateSeconds] /\ 0 \in 0..MinStateSeconds
        BY Domains DEF TypeOK
      <4>2. since' = [since EXCEPT ![gi] = 0] /\ want' = 0
        BY <3>1
      <4>3. since' \in [Groups -> 0..MinStateSeconds]
        BY <4>1, <4>2
      <4> QED BY <4>2, <4>3
    <3>4. gi' \in Groups /\ ki' \in 1..Len(Targets[gi']) /\ pc' \in Alive
      BY <3>1, NextGroupType DEF Alive
    <3> QED BY <1>13, <2>1, <3>2, <3>3, <3>4 DEF Apply, TypeOK
  <2> QED BY <2>2, <2>3
<1>14. CASE SleepChunk
  <2>1. /\ since' \in [Groups -> 0..MinStateSeconds] /\ beat' \in 0..Heartbeat
        /\ slept' \in 0..PollInterval
    <3>1. Second
      BY <1>14 DEF SleepChunk
    <3>2. slept \in 0..PollInterval /\ slept < PollInterval /\ slept' = slept + 1
      BY <1>14 DEF SleepChunk, KeepSleeping, TypeOK
    <3>3. slept' \in 0..PollInterval
      BY <3>2, ConfigValid DEF Validated
    <3> QED BY <3>1, <3>3, SecondType
  <2> QED BY <1>14, <2>1 DEF SleepChunk, TypeOK
<1>15. CASE Wake
  <2>1. slept' \in 0..PollInterval
    BY <1>15, ConfigValid DEF Wake, Validated
  <2>2. pc' \in Alive
    BY <1>15 DEF Wake, Alive
  <2>3. UNCHANGED <<running, fatal, gi, ki, claimed, original, groupVars, want,
                    beat, hw, firmware>>
    BY <1>15 DEF Wake
  <2> QED BY <2>1, <2>2, <2>3 DEF TypeOK
<1>16. CASE RestoreFan \/ RestorePwm
  <2>1. hw' \in [Devices -> Registers]
    <3>1. \/ hw' = [hw EXCEPT ![Device].level = 76]
          \/ hw' = [hw EXCEPT ![Device].mode = "auto"]
          \/ hw' = hw
      BY <1>16 DEF RestoreFan, RestorePwm
    <3>2. "auto" \in Modes /\ 76 \in 0..255
      BY Domains DEF Modes
    <3>3. Device \in Devices /\ hw \in [Devices -> Registers]
      BY DeviceOf DEF TypeOK
    <3>4. CASE hw' = [hw EXCEPT ![Device].level = 76]
      BY <3>2, <3>3, <3>4
    <3>5. CASE hw' = [hw EXCEPT ![Device].mode = "auto"]
      BY <3>2, <3>3, <3>5
    <3> QED BY <3>1, <3>3, <3>4, <3>5
  <2>2. gi' \in Groups /\ ki' \in 1..Len(Targets[gi']) /\ pc' \in Alive
    BY <1>16, NextRestoreType DEF RestoreFan, RestorePwm, TypeOK, Alive
  <2>3. UNCHANGED <<procVars, groupVars, want, firmware>>
    BY <1>16 DEF RestoreFan, RestorePwm
  <2> QED BY <2>1, <2>2, <2>3 DEF TypeOK, procVars, groupVars
<1>17. CASE RestoreMode
  <2>1. OriginalMode \in Modes
    <3>1. original[gi][ki] \in Modes \cup {Unread}
      BY DEF TypeOK
    <3> QED BY <3>1, Domains DEF OriginalMode, Modes
  <2>2. hw' \in [Devices -> Registers]
    <3>1. hw' = [hw EXCEPT ![Device].mode = OriginalMode] \/ hw' = hw
      BY <1>17 DEF RestoreMode
    <3>2. Device \in Devices /\ hw \in [Devices -> Registers]
      BY DeviceOf DEF TypeOK
    <3>3. CASE hw' = [hw EXCEPT ![Device].mode = OriginalMode]
      BY <2>1, <3>2, <3>3
    <3> QED BY <3>1, <3>2, <3>3
  <2>3. gi' \in Groups /\ ki' \in 1..Len(Targets[gi']) /\ pc' \in Alive
    BY <1>17, NextRestoreType DEF RestoreMode, Alive
  <2> QED BY <1>17, <2>2, <2>3 DEF RestoreMode, TypeOK
<1>18. CASE Exit
  BY <1>18, FreshType DEF Exit, FailedExit, Gone, TypeOK
<1>19. CASE UNCHANGED vars
  BY <1>19 DEF vars, proc, TypeOK
<1> QED
  BY <1>1, <1>2, <1>3, <1>4, <1>5, <1>6, <1>7, <1>8, <1>9, <1>10, <1>11, <1>12,
     <1>13, <1>14, <1>15, <1>16, <1>17, <1>18, <1>19
  DEF Next, Daemon, Startup, Tick

\* The variables stay in their ranges: no curve, reading or failure makes
\* the daemon compute a pwm outside 0..100 or write one outside 0..255.
THEOREM TypeCorrect == Spec => []TypeOK
  BY TypeInit, TypeStep, PTL DEF Spec

--------------------------------------------------------------------------------
(* What a group has been told to run at.  Between the decision and the last
   apply() of its targets a tick holds the new pwm in want, and last_pwm is
   the old one. *)

\* A decided pwm respects the floor, and only a group without one stops.
FloorInv ==
  /\ FloorHeld
  /\ pc = "apply" => want >= MinPwm[gi]
  /\ \A g \in Groups : ZeroRpm(g) /\ fans_stopped[g] => MinPwm[g] = 0

\* The emergency's 100 % is written, or is on its way.
CoolingInv ==
  \A g \in Groups : in_emergency[g] =>
    IF pc = "apply" /\ g = gi THEN want = 100
    ELSE last_pwm[g] # NoPwm /\ last_pwm[g] >= 100 - Max2(MinPwmStep - 1, 0)

\* Both hold before the first process starts.
LEMMA GroupInit == Init => FloorInv /\ CoolingInv
  BY DEF Init, FloorInv, FloorHeld, CoolingInv

\* Both hold of a process that has just started, or just ended.
LEMMA FreshGroup ==
  ASSUME NEW p \in Gone \cup {"nvml_init"}, Fresh(p)
  PROVE  FloorInv' /\ CoolingInv'
  BY DEF Fresh, FloorInv, FloorHeld, CoolingInv, Gone

\* Any other step but a decision and an apply() leaves the groups alone.
LEMMA QuietStep ==
  ASSUME UNCHANGED <<last_pwm, in_emergency, fans_stopped>>,
         pc # "apply", pc' # "apply"
  PROVE  FloorInv /\ CoolingInv => FloorInv' /\ CoolingInv'
  BY DEF FloorInv, FloorHeld, CoolingInv

\* A decision respects the floor, and stops a fan only where there is none.
LEMMA DecisionFloor ==
  ASSUME NEW g \in Groups, NEW t \in Int, FloorInv
  PROVE  /\ Decided(g, t) >= MinPwm[g]
         /\ ZeroRpm(g) /\ StoppedAfter(g, t) => MinPwm[g] = 0
<1>1. MinPwm[g] \in 0..100
  BY ConfigValid DEF Validated
<1>2. RawPwm(g, t) \in 0..100 /\ RawPwm(g, t) >= MinPwm[g]
  BY DecidedRange
<1>3. HeldOff(g, t) => MinPwm[g] = 0
  BY DEF HeldOff, FloorInv
<1>4. Decided(g, t) >= MinPwm[g]
  BY <1>1, <1>2, <1>3 DEF Decided
<1>5. ZeroRpm(g) /\ StoppedAfter(g, t) => MinPwm[g] = 0
  BY <1>1, <1>2, <1>3 DEF StoppedAfter
<1> QED BY <1>4, <1>5

\* A tick's decision keeps both.
LEMMA DecideStep ==
  ASSUME TypeOK, FloorInv, CoolingInv, DecideGroup
  PROVE  FloorInv' /\ CoolingInv'
<1>1. PICK t \in Reads(gi) \ {NoReading} :
        /\ in_emergency' = [in_emergency EXCEPT ![gi] = EmergencyAfter(gi, t)]
        /\ fans_stopped' = [fans_stopped EXCEPT ![gi] = StoppedAfter(gi, t)]
        /\ \/ TooSoon(gi, Decided(gi, t)) /\ NextGroup /\ UNCHANGED want
           \/ /\ want' = Decided(gi, t)
              /\ pc' = "apply" /\ UNCHANGED <<gi, ki>>
  BY DEF DecideGroup
<1>2. pc = "group" /\ last_pwm' = last_pwm /\ gi \in Groups /\ t \in Int
  <2>1. gi \in Groups
    BY DEF TypeOK
  <2> QED BY <2>1, ReadsRange DEF DecideGroup
<1>3. /\ Decided(gi, t) >= MinPwm[gi]
      /\ ZeroRpm(gi) /\ StoppedAfter(gi, t) => MinPwm[gi] = 0
  BY <1>2, DecisionFloor
<1>4. EmergencyAfter(gi, t) => Decided(gi, t) = 100
  BY DEF Decided
<1>5. \A g \in Groups :
        /\ in_emergency'[g] = IF g = gi THEN EmergencyAfter(gi, t) ELSE in_emergency[g]
        /\ fans_stopped'[g] = IF g = gi THEN StoppedAfter(gi, t) ELSE fans_stopped[g]
  BY <1>1 DEF TypeOK
<1>6. \A g \in Groups : ZeroRpm(g) /\ fans_stopped'[g] => MinPwm[g] = 0
  BY <1>3, <1>5 DEF FloorInv
<1>7. FloorHeld'
  BY <1>2 DEF FloorInv, FloorHeld
<1>8. CASE TooSoon(gi, Decided(gi, t)) /\ NextGroup /\ UNCHANGED want
  <2>1. pc' # "apply"
    BY <1>8 DEF NextGroup
  <2>2. FloorInv'
    BY <1>6, <1>7, <2>1 DEF FloorInv, ZeroRpm
  <2>3. EmergencyAfter(gi, t) =>
          last_pwm[gi] # NoPwm /\ last_pwm[gi] >= 100 - Max2(MinPwmStep - 1, 0)
    <3>1. last_pwm[gi] \in 0..100 \cup {NoPwm} /\ MinPwmStep \in Int
      BY <1>2, Domains DEF TypeOK
    <3> QED BY <1>4, <1>8, <3>1 DEF TooSoon, Near, Max2, NoPwm
  <2>4. CoolingInv'
    BY <1>2, <1>5, <2>1, <2>3 DEF CoolingInv
  <2> QED BY <2>2, <2>4
<1>9. CASE want' = Decided(gi, t) /\ pc' = "apply" /\ UNCHANGED <<gi, ki>>
  <2>1. FloorInv'
    BY <1>3, <1>6, <1>7, <1>9 DEF FloorInv, ZeroRpm
  <2>2. CoolingInv'
    BY <1>2, <1>4, <1>5, <1>9 DEF CoolingInv
  <2> QED BY <2>1, <2>2
<1> QED BY <1>1, <1>8, <1>9

\* One apply() keeps both: the last of a group makes want its last_pwm.
LEMMA ApplyStep ==
  ASSUME TypeOK, FloorInv, CoolingInv, Apply
  PROVE  FloorInv' /\ CoolingInv'
<1>1. /\ pc = "apply" /\ gi \in Groups /\ want \in 0..100
      /\ UNCHANGED <<in_emergency, fans_stopped>>
  BY DEF Apply, TypeOK
<1>2. CASE ki < Len(Targets[gi])
  <2>1. UNCHANGED <<pc, gi, last_pwm, want>>
    BY <1>2 DEF Apply
  <2> QED BY <1>1, <2>1 DEF FloorInv, FloorHeld, CoolingInv
<1>3. CASE ~(ki < Len(Targets[gi]))
  <2>1. last_pwm' = [last_pwm EXCEPT ![gi] = want] /\ pc' # "apply"
    BY <1>3 DEF Apply, NextGroup
  <2>2. \A g \in Groups : last_pwm'[g] = IF g = gi THEN want ELSE last_pwm[g]
    BY <1>1, <2>1 DEF TypeOK
  <2>3. FloorInv'
    BY <1>1, <2>1, <2>2 DEF FloorInv, FloorHeld
  <2>4. CoolingInv'
    <3>1. MinPwmStep \in Int
      BY Domains
    <3>2. 100 # NoPwm /\ 100 >= 100 - Max2(MinPwmStep - 1, 0)
      BY <3>1 DEF NoPwm, Max2
    <3> QED BY <1>1, <2>1, <2>2, <3>2 DEF CoolingInv
  <2> QED BY <2>3, <2>4
<1> QED BY <1>2, <1>3

\* Every step keeps both.
LEMMA GroupStep ==
  TypeOK /\ FloorInv /\ CoolingInv /\ [Next]_vars => FloorInv' /\ CoolingInv'
<1> SUFFICES ASSUME TypeOK, FloorInv, CoolingInv, [Next]_vars
             PROVE  FloorInv' /\ CoolingInv'
  OBVIOUS
<1> USE DEF groupVars, procVars
<1>1. CASE Launch \/ Crash \/ Exit
  BY <1>1, FreshGroup DEF Launch, Crash, Exit, FailedExit, Gone
<1>2. CASE Startup
  <2>1. pc # "apply" /\ pc' # "apply" /\ UNCHANGED <<last_pwm, in_emergency, fans_stopped>>
    BY <1>2 DEF Startup, NvmlInit, Resolve, ClaimRead, ClaimWrite, Abandon, NextClaim
  <2> QED BY <2>1, QuietStep
<1>3. CASE Loop \/ SkipGroup
  <2>1. pc # "apply" /\ pc' # "apply" /\ UNCHANGED <<last_pwm, in_emergency, fans_stopped>>
    BY <1>3 DEF Loop, SkipGroup, NextGroup
  <2> QED BY <2>1, QuietStep
<1>4. CASE Elapse \/ SleepChunk \/ Wake
  <2>1. pc # "apply" /\ pc' # "apply" /\ UNCHANGED <<last_pwm, in_emergency, fans_stopped>>
    BY <1>4 DEF Elapse, SleepChunk, Wake
  <2> QED BY <2>1, QuietStep
<1>5. CASE RestoreFan \/ RestorePwm \/ RestoreMode
  <2>1. pc # "apply" /\ pc' # "apply" /\ UNCHANGED <<last_pwm, in_emergency, fans_stopped>>
    BY <1>5 DEF RestoreFan, RestorePwm, RestoreMode, NextRestore
  <2> QED BY <2>1, QuietStep
<1>6. CASE Signal \/ Operator \/ UNCHANGED vars
  <2>1. UNCHANGED <<pc, gi, want, last_pwm, in_emergency, fans_stopped>>
    BY <1>6 DEF Signal, Operator, vars, proc
  <2> QED BY <2>1 DEF FloorInv, FloorHeld, CoolingInv, ZeroRpm
<1>7. CASE DecideGroup
  BY <1>7, DecideStep
<1>8. CASE Apply
  BY <1>8, ApplyStep
<1> QED
  BY <1>1, <1>2, <1>3, <1>4, <1>5, <1>6, <1>7, <1>8 DEF Next, Daemon, Tick

\* FloorInv and CoolingInv are invariants.
LEMMA GroupAlways == Spec => [](FloorInv /\ CoolingInv)
  BY TypeCorrect, GroupInit, GroupStep, PTL DEF Spec

\* A group never runs below its min_pwm, although the zero-RPM hold returns
\* 0 without consulting it: README, "min_pwm".
THEOREM FloorKept == Spec => []FloorHeld
<1>1. FloorInv => FloorHeld
  BY DEF FloorInv
<1> QED BY <1>1, GroupAlways, PTL

\* At the end of a tick a group in emergency is within the rate limit's step
\* of 100 %, whatever its curve, the sensor failures and earlier writes.
THEOREM EmergencyCooled == Spec => []EmergencyCools
<1>1. CoolingInv => EmergencyCools
  BY DEF CoolingInv, EmergencyCools
<1> QED BY <1>1, GroupAlways, PTL

--------------------------------------------------------------------------------
(* The emergency latch implements a relay *)

\* The latch starts open.
LEMMA LatchInit == Init => Latch!Start
  BY DEF Init, Latch!Start, NoReading, Latch!NoReading

\* Every step shows the relay of one group one reading, begins afresh, or
\* stutters.
LEMMA LatchStep == TypeOK /\ [Next]_vars => [Latch!Step]_Latch!rvars
<1> SUFFICES ASSUME TypeOK, [Next]_vars PROVE [Latch!Step]_Latch!rvars
  OBVIOUS
<1> USE DEF groupVars, procVars, Latch!Step, Latch!rvars
<1>1. CASE Launch \/ Crash \/ Exit
  <2>1. \E p : Fresh(p)
    BY <1>1 DEF Launch, Crash, Exit
  <2>2. Latch!Reset
    BY <2>1 DEF Fresh, Latch!Reset, NoReading, Latch!NoReading
  <2> QED BY <2>2
<1>2. CASE Startup
  BY <1>2 DEF Startup, NvmlInit, Resolve, ClaimRead, ClaimWrite
<1>3. CASE Loop \/ SkipGroup \/ Apply
  BY <1>3 DEF Loop, SkipGroup, Apply
<1>4. CASE Elapse \/ SleepChunk \/ Wake
  BY <1>4 DEF Elapse, SleepChunk, Wake
<1>5. CASE RestoreFan \/ RestorePwm \/ RestoreMode
  BY <1>5 DEF RestoreFan, RestorePwm, RestoreMode
<1>6. CASE Signal \/ Operator \/ UNCHANGED vars
  BY <1>6 DEF Signal, Operator, vars, proc
<1>7. CASE DecideGroup
  <2>1. PICK t \in Reads(gi) \ {NoReading} :
          /\ seen' = [seen EXCEPT ![gi] = t]
          /\ in_emergency' = [in_emergency EXCEPT ![gi] = EmergencyAfter(gi, t)]
    BY <1>7 DEF DecideGroup
  <2>2. gi \in Groups
    BY DEF TypeOK
  <2>3. t \in CoreTemps \cup VramTemps
    BY <2>2, ReadsRange
  <2>4. EmergencyAfter(gi, t) = (\/ t >= EmergencyTemp
                                 \/ t >= EmergencyExit /\ in_emergency[gi])
    BY DEF EmergencyAfter
  <2>5. Latch!Show(gi, t)
    BY <2>1, <2>2, <2>4 DEF Latch!Show
  <2> QED BY <2>2, <2>3, <2>5
<1> QED
  BY <1>1, <1>2, <1>3, <1>4, <1>5, <1>6, <1>7 DEF Next, Daemon, Tick

\* The emergency flag of every group is a relay between emergency_exit and
\* emergency_temp for every source, curve and failure: nothing but a reading
\* sets or clears it, and none in the band between the two.
THEOREM LatchImplemented == Spec => EmergencyLatch
  BY TypeCorrect, LatchInit, LatchStep, PTL DEF Spec, EmergencyLatch, Latch!Safe

--------------------------------------------------------------------------------
(***************************************************************************)
(* Zero-RPM implements a relay, for curves without a plateau at 0 %.       *)
(***************************************************************************)

\* A curve that is positive from the degree above its first point on, an
\* emergency_temp beyond the gap and an emergency_exit beyond the zero-point:
\* what config.example ships, and validate does not ask for.  On a plateau at
\* 0 % the gap falls short: fan_plateau.
Steep ==
  \A g \in StoppingGroups :
    /\ \A i \in 2..Len(Curve[g]) : PctAt(Curve[g], i) > 0
    /\ PctAt(Curve[g], 2) >= TempAt(Curve[g], 2) - TempAt(Curve[g], 1)
    /\ EmergencyTemp >= ZeroStop(g) + ZeroRpmGap
    /\ EmergencyExit > ZeroStop(g)

\* A group in emergency has given up the hold.
StopInv == \A g \in StoppingGroups : ~(in_emergency[g] /\ fans_stopped[g])

\* The zero-point is then the first point, and the curve is 0 % up to it.
LEMMA ZeroSide ==
  ASSUME Steep, NEW g \in StoppingGroups
  PROVE  /\ g \in Groups /\ ZeroRpm(g)
         /\ ZeroPoint(g) = ZeroStop(g) /\ ZeroStop(g) \in Int
         /\ ZeroRpmGap \in Nat /\ ZeroRpmGap > 0
         /\ \A t \in Int : RawPwm(g, t) = 0 <=> t <= ZeroStop(g)
<1>1. g \in Groups /\ ZeroRpm(g) /\ MinPwm[g] = 0
  BY DEF StoppingGroups
<1>2. ZeroRpmGap \in Nat /\ ZeroRpmGap > 0 /\ PctAt(Curve[g], 1) = 0
  BY <1>1, ConfigValid DEF ZeroRpm, Validated
<1>3. ValidCurve(Curve[g])
  BY <1>1, ConfigValid DEF Validated
<1>4. /\ Len(Curve[g]) \in Nat /\ Len(Curve[g]) >= 2
      /\ \A i \in 1..Len(Curve[g]) : TempAt(Curve[g], i) \in Int
  BY <1>3, PointTypes
<1>5. ZeroStop(g) \in Int
  BY <1>4 DEF ZeroStop
<1>6. ZeroPoint(g) = ZeroStop(g)
  <2> DEFINE Z == {i \in 1..Len(Curve[g]) : \A j \in 1..i : PctAt(Curve[g], j) = 0}
  <2>1. 1 \in Z
    BY <1>2, <1>4
  <2>2. ASSUME NEW i \in Z PROVE i = 1
    <3> SUFFICES ASSUME i # 1 PROVE FALSE
      OBVIOUS
    <3>1. i \in 1..Len(Curve[g]) /\ i \in 2..Len(Curve[g]) /\ i \in 1..i
      BY <1>4
    <3>2. PctAt(Curve[g], i) = 0
      BY <3>1
    <3>3. PctAt(Curve[g], i) > 0
      BY <3>1 DEF Steep
    <3> QED BY <3>2, <3>3
  <2>3. Z = {1}
    <3> HIDE DEF Z
    <3> QED BY <2>1, <2>2
  <2>4. Max(Z) = 1
    <3> HIDE DEF Z
    <3> QED BY <2>3 DEF Max
  <2> QED BY <2>4 DEF ZeroPoint, ZeroStop
<1>7. ASSUME NEW t \in Int PROVE RawPwm(g, t) = 0 <=> t <= ZeroStop(g)
  <2>1. interpolate(Curve[g], t) = 0 <=> t <= ZeroStop(g)
    BY <1>2, <1>3, LeavesZero DEF Steep, ZeroStop
  <2>2. interpolate(Curve[g], t) \in 0..100
    BY <1>3, InterpolateRange
  <2>3. \A x \in 0..100 : Max2(0, x) = x
    BY DEF Max2
  <2>4. RawPwm(g, t) = interpolate(Curve[g], t)
    BY <1>1, <2>2, <2>3 DEF RawPwm
  <2> QED BY <2>1, <2>4
<1> QED BY <1>1, <1>2, <1>5, <1>6, <1>7

\* What a decision makes of the flag of a group, in the relay's terms.
LEMMA StoppedIs ==
  ASSUME Steep, TypeOK, StopInv, NEW g \in StoppingGroups, NEW t \in Int
  PROVE  /\ (~StoppedAfter(g, t)) = (\/ t >= ZeroPoint(g) + ZeroRpmGap
                                     \/ t >= ZeroPoint(g) + 1 /\ ~fans_stopped[g])
         /\ ~(EmergencyAfter(g, t) /\ StoppedAfter(g, t))
<1>1. /\ g \in Groups /\ ZeroRpm(g)
      /\ ZeroPoint(g) = ZeroStop(g) /\ ZeroStop(g) \in Int
      /\ ZeroRpmGap \in Nat /\ ZeroRpmGap > 0
      /\ RawPwm(g, t) = 0 <=> t <= ZeroStop(g)
  BY ZeroSide
<1>2. /\ EmergencyTemp \in Int /\ EmergencyExit \in Int
      /\ EmergencyTemp >= ZeroStop(g) + ZeroRpmGap /\ EmergencyExit > ZeroStop(g)
  BY ConfigValid DEF Validated, Steep
<1>3. fans_stopped[g] \in BOOLEAN /\ in_emergency[g] \in BOOLEAN
  BY <1>1 DEF TypeOK
<1>4. ~(in_emergency[g] /\ fans_stopped[g])
  BY DEF StopInv
<1>5. CASE EmergencyAfter(g, t)
  <2>1. ~StoppedAfter(g, t)
    BY <1>5 DEF StoppedAfter
  <2>2. \/ t >= ZeroPoint(g) + ZeroRpmGap
        \/ t >= ZeroPoint(g) + 1 /\ ~fans_stopped[g]
    BY <1>1, <1>2, <1>4, <1>5 DEF EmergencyAfter
  <2> QED BY <2>1, <2>2
<1>6. CASE ~EmergencyAfter(g, t)
  <2>1. StoppedAfter(g, t) <=>
          \/ fans_stopped[g] /\ t < ZeroStop(g) + ZeroRpmGap
          \/ ~fans_stopped[g] /\ t <= ZeroStop(g)
    BY <1>1, <1>6 DEF StoppedAfter, HeldOff
  <2>2. StoppedAfter(g, t) \in BOOLEAN
    BY DEF StoppedAfter
  <2>3. ~StoppedAfter(g, t) <=> \/ t >= ZeroPoint(g) + ZeroRpmGap
                                \/ t >= ZeroPoint(g) + 1 /\ ~fans_stopped[g]
    <3>1. CASE fans_stopped[g]
      BY <1>1, <2>1, <3>1
    <3>2. CASE ~fans_stopped[g]
      BY <1>1, <2>1, <3>2
    <3> QED BY <3>1, <3>2
  <2> QED BY <1>6, <2>2, <2>3
<1> QED BY <1>5, <1>6

\* The fans of a stopping group count as running until the first decision.
LEMMA ZeroInit == Init => Zero!Start /\ StopInv
  BY DEF Init, Zero!Start, StopInv, StoppingGroups, NoReading, Zero!NoReading

\* Every step shows the relay of one group one reading, begins afresh, or
\* stutters.
LEMMA ZeroStep ==
  ASSUME Steep, TypeOK, StopInv, [Next]_vars
  PROVE  [Zero!Step]_Zero!rvars /\ StopInv'
<1> DEFINE Idle == UNCHANGED <<fans_stopped, in_emergency, seen>>
<1>0. StoppingGroups \subseteq Groups
  BY DEF StoppingGroups
<1>1. CASE Launch \/ Crash \/ Exit
  <2>1. \E p : Fresh(p)
    BY <1>1 DEF Launch, Crash, Exit
  <2>2. /\ fans_stopped' = [g \in Groups |-> FALSE]
        /\ in_emergency' = [g \in Groups |-> FALSE]
        /\ seen' = [g \in Groups |-> NoReading]
    BY <2>1 DEF Fresh
  <2>3. Zero!Reset /\ StopInv'
    BY <1>0, <2>2 DEF Zero!Reset, StopInv, NoReading, Zero!NoReading
  <2> QED BY <2>3 DEF Zero!Step
<1>2. CASE DecideGroup
  <2>1. PICK t \in Reads(gi) \ {NoReading} :
          /\ seen' = [seen EXCEPT ![gi] = t]
          /\ in_emergency' = [in_emergency EXCEPT ![gi] = EmergencyAfter(gi, t)]
          /\ fans_stopped' = [fans_stopped EXCEPT ![gi] = StoppedAfter(gi, t)]
    BY <1>2 DEF DecideGroup
  <2>2. /\ gi \in Groups
        /\ fans_stopped \in [Groups -> BOOLEAN]
        /\ in_emergency \in [Groups -> BOOLEAN]
        /\ DOMAIN seen = Groups
    BY DEF TypeOK
  <2>3. t \in CoreTemps \cup VramTemps
    BY <2>2, ReadsRange
  <2>4. t \in Int
    BY <2>3, Domains
  <2>5. CASE gi \notin StoppingGroups
    <3>1. \A g \in StoppingGroups : /\ fans_stopped'[g] = fans_stopped[g]
                                    /\ in_emergency'[g] = in_emergency[g]
                                    /\ seen'[g] = seen[g]
      BY <1>0, <2>1, <2>2, <2>5
    <3> QED BY <3>1 DEF StopInv, Zero!rvars
  <2>6. CASE gi \in StoppingGroups
    <3>1. /\ (~StoppedAfter(gi, t)) = (\/ t >= ZeroPoint(gi) + ZeroRpmGap
                                       \/ t >= ZeroPoint(gi) + 1 /\ ~fans_stopped[gi])
          /\ ~(EmergencyAfter(gi, t) /\ StoppedAfter(gi, t))
      BY <2>4, <2>6, StoppedIs
    <3>2. \A g \in StoppingGroups :
            /\ fans_stopped'[g] = IF g = gi THEN StoppedAfter(gi, t) ELSE fans_stopped[g]
            /\ in_emergency'[g] = IF g = gi THEN EmergencyAfter(gi, t) ELSE in_emergency[g]
            /\ seen'[g] = IF g = gi THEN t ELSE seen[g]
      BY <1>0, <2>1, <2>2
    <3>3. StopInv'
      <4>1. \A g \in StoppingGroups : ~(in_emergency'[g] /\ fans_stopped'[g])
        BY <3>1, <3>2 DEF StopInv
      <4> QED BY <4>1 DEF StopInv
    <3>4. Zero!Show(gi, t)
      <4>1. [g \in StoppingGroups |-> seen'[g]]
              = [[g \in StoppingGroups |-> seen[g]] EXCEPT ![gi] = t]
        BY <2>6, <3>2
      <4>2. [g \in StoppingGroups |-> ~fans_stopped'[g]]
              = [[g \in StoppingGroups |-> ~fans_stopped[g]] EXCEPT
                   ![gi] = \/ t >= ZeroPoint(gi) + ZeroRpmGap
                           \/ t >= ZeroPoint(gi) + 1 /\ ~fans_stopped[gi]]
        <5> DEFINE Hot == \/ t >= ZeroPoint(gi) + ZeroRpmGap
                          \/ t >= ZeroPoint(gi) + 1 /\ ~fans_stopped[gi]
        <5>1. \A g \in StoppingGroups :
                (~fans_stopped'[g]) = IF g = gi THEN Hot ELSE ~fans_stopped[g]
          <6> SUFFICES ASSUME NEW g \in StoppingGroups
                       PROVE  (~fans_stopped'[g]) = IF g = gi THEN Hot
                                                    ELSE ~fans_stopped[g]
            OBVIOUS
          <6>1. CASE g = gi
            <7>1. fans_stopped'[gi] = StoppedAfter(gi, t)
              BY <2>6, <3>2
            <7>2. (~StoppedAfter(gi, t)) = Hot
              BY <3>1, Zenon
            <7> HIDE DEF Hot
            <7>3. (~fans_stopped'[gi]) = Hot
              BY <7>1, <7>2, Zenon
            <7> QED BY <6>1, <7>3
          <6>2. CASE g # gi
            <7>1. fans_stopped'[g] = fans_stopped[g]
              BY <3>2, <6>2
            <7> QED BY <6>2, <7>1
          <6> QED BY <6>1, <6>2
        <5> HIDE DEF Hot
        <5>2. [g \in StoppingGroups |-> ~fans_stopped'[g]]
                = [[g \in StoppingGroups |-> ~fans_stopped[g]] EXCEPT ![gi] = Hot]
          BY <2>6, <5>1
        <5> QED BY <5>2 DEF Hot
      <4> QED BY <2>6, <4>1, <4>2 DEF Zero!Show
    <3> QED BY <2>3, <2>6, <3>3, <3>4 DEF Zero!Step
  <2> QED BY <2>5, <2>6
<1>3. CASE Idle
  BY <1>3 DEF StopInv, Zero!rvars
<1>4. CASE Startup
  BY <1>3, <1>4 DEF Startup, NvmlInit, Resolve, ClaimRead, ClaimWrite, groupVars
<1>5. CASE Loop \/ SkipGroup \/ Apply
  BY <1>3, <1>5 DEF Loop, SkipGroup, Apply, groupVars
<1>6. CASE Elapse \/ SleepChunk \/ Wake
  BY <1>3, <1>6 DEF Elapse, SleepChunk, Wake, groupVars
<1>7. CASE RestoreFan \/ RestorePwm \/ RestoreMode
  BY <1>3, <1>7 DEF RestoreFan, RestorePwm, RestoreMode, groupVars
<1>8. CASE Signal \/ Operator \/ UNCHANGED vars
  BY <1>3, <1>8 DEF Signal, Operator, vars, proc, groupVars
<1> QED
  BY <1>1, <1>2, <1>4, <1>5, <1>6, <1>7, <1>8 DEF Next, Daemon, Tick

\* README, zero_rpm_gap_c, "they stay off until temp rises this many degrees
\* above the curve's zero-point": on a steep curve every group that may stop
\* its fans is a relay between its zero-point and the gap above it, whatever
\* fails, and through every emergency and restart.
THEOREM ZeroRpmImplemented ==
  ASSUME Steep
  PROVE  Spec => ZeroRpmRelay
<1>1. TypeOK /\ StopInv /\ [Next]_vars => [Zero!Step]_Zero!rvars /\ StopInv'
  BY ZeroStep
<1> QED BY <1>1, TypeCorrect, ZeroInit, PTL DEF Spec, ZeroRpmRelay, Zero!Safe

--------------------------------------------------------------------------------
(***************************************************************************)
(* last_pwm is right about the hardware: a proof of Commanded for every    *)
(* configuration in which no device is in two groups, while writes of a    *)
(* speed succeed and nobody else writes the channels.                      *)
(***************************************************************************)

\* What Commanded takes for granted.
Undivided ==
  /\ "apply" \notin MayFail /\ OperatorAt = {}
  /\ \A g, h \in Groups : g # h => Range(Targets[g]) \cap Range(Targets[h]) = {}

Claiming == {"resolve", "claim_read", "claim_write"}
Between  == {"loop", "group", "sleep"}
Serving  == Between \cup {"apply"}

Slots(g)   == 1..Len(Targets[g])
Held(d)    == d \in Hwmon => hw[d].mode = "manual"
Obeys(g, p) == \A k \in Slots(g) : Follows(hw[Targets[g][k]], Targets[g][k], p)

\* The indices begin at 1 wherever a loop begins.
Fronts ==
  /\ pc = "nvml_init" => gi = 1
  /\ pc \in {"nvml_init", "resolve"} \cup Between => ki = 1

\* init() has told the groups nothing, and holds the channels it has passed.
ClaimInv ==
  /\ pc \in Claiming \cup {"nvml_init"} => \A g \in Groups : last_pwm[g] = NoPwm
  /\ pc \in Claiming =>
       \A g \in Groups : \A k \in Slots(g) :
         g < gi \/ (g = gi /\ k < ki) => Held(Targets[g][k])

\* The loop holds all channels, and every group obeys but for the one that is
\* being told, whose first targets already do.
ServeInv ==
  /\ pc \in Serving => \A g \in Groups : \A k \in Slots(g) : Held(Targets[g][k])
  /\ pc \in Serving =>
       \A g \in Groups :
         last_pwm[g] # NoPwm /\ ~(pc = "apply" /\ g = gi) => Obeys(g, last_pwm[g])
  /\ pc = "apply" =>
       \A k \in Slots(gi) :
         k < ki => Follows(hw[Targets[gi][k]], Targets[gi][k], want)

CommandInv == Fronts /\ ClaimInv /\ ServeInv

--------------------------------------------------------------------------------
(* The configuration *)

LEMMA SlotDevices ==
  ASSUME NEW g \in Groups, NEW k \in Slots(g)
  PROVE  Targets[g][k] \in Devices
  BY ConfigValid DEF Groups, Slots

\* A device of another group is another device.
LEMMA Disjoint ==
  ASSUME Undivided, NEW g \in Groups, NEW h \in Groups, g # h,
         NEW k \in Slots(g), NEW l \in Slots(h)
  PROVE  Targets[g][k] # Targets[h][l]
<1>1. Targets[g] \in Seq(Devices) /\ Targets[h] \in Seq(Devices)
  BY ConfigValid DEF Groups
<1>2. Targets[g][k] \in Range(Targets[g]) /\ Targets[h][l] \in Range(Targets[h])
  BY <1>1 DEF Range, Slots
<1>3. QED
  BY <1>2 DEF Undivided

--------------------------------------------------------------------------------
(* Steps that write nothing *)

\* A process that has just started, or just ended.
LEMMA FreshCommand ==
  ASSUME NEW p \in Gone \cup {"nvml_init"}, Fresh(p)
  PROVE  CommandInv'
  BY DEF Fresh, Gone, CommandInv, Fronts, ClaimInv, ServeInv, Claiming, Serving, Between

\* Restoring asks nothing of the groups.
LEMMA LeavingCommand ==
  ASSUME pc' \in {"restore", "restore_mode", "nvml_shutdown"}
  PROVE  CommandInv'
  BY DEF CommandInv, Fronts, ClaimInv, ServeInv, Claiming, Serving, Between

\* From one place between two writes to another.
LEMMA BetweenCommand ==
  ASSUME CommandInv, pc \in Between, pc' \in Between, ki' = 1, UNCHANGED <<hw, last_pwm>>
  PROVE  CommandInv'
  BY DEF CommandInv, Fronts, ClaimInv, ServeInv, Claiming, Serving, Between, Held, Obeys

\* Nothing the invariant speaks of.
LEMMA SameCommand ==
  ASSUME CommandInv, UNCHANGED <<pc, gi, ki, hw, last_pwm, want>>
  PROVE  CommandInv'
  BY DEF CommandInv, Fronts, ClaimInv, ServeInv, Held, Obeys

--------------------------------------------------------------------------------
(* Claims *)

\* The object at <<gi, ki>> is held as well: the loop of init() goes on.
LEMMA ClaimGoesOn ==
  ASSUME TypeOK, NextClaim, UNCHANGED last_pwm,
         \A g \in Groups : last_pwm[g] = NoPwm,
         \A g \in Groups : \A k \in Slots(g) :
           g < gi \/ (g = gi /\ k <= ki) => Held(Targets[g][k])'
  PROVE  CommandInv'
<1>1. gi \in 1..Len(Targets) /\ Len(Targets) \in Nat /\ ki \in 1..Len(Targets[gi])
  BY DeviceOf DEF TypeOK, Groups
<1>2. \A g \in Groups : g \in 1..Len(Targets) /\ Len(Targets[g]) \in Nat
  BY DeviceOf DEF Groups
<1>3. CASE ki < Len(Targets[gi])
  <2>1. gi' = gi /\ ki' = ki + 1 /\ pc' = "claim_read"
    BY <1>3 DEF NextClaim
  <2>2. ClaimInv'
    BY <1>1, <1>2, <2>1 DEF ClaimInv, Slots
  <2>3. QED
    BY <2>1, <2>2 DEF CommandInv, Fronts, ServeInv, Serving, Between
<1>4. CASE ki = Len(Targets[gi]) /\ gi < Len(Targets)
  <2>1. gi' = gi + 1 /\ ki' = 1 /\ pc' = "resolve"
    BY <1>4 DEF NextClaim
  <2>2. \A g \in Groups : \A k \in Slots(g) :
          g < gi + 1 \/ (g = gi + 1 /\ k < 1) => Held(Targets[g][k])'
    BY <1>1, <1>2, <1>4 DEF Slots
  <2>3. ClaimInv'
    BY <2>1, <2>2 DEF ClaimInv
  <2>4. QED
    BY <2>1, <2>3 DEF CommandInv, Fronts, ServeInv, Serving, Between
<1>5. CASE ki = Len(Targets[gi]) /\ ~(gi < Len(Targets))
  <2>1. ki' = 1 /\ pc' = "loop"
    BY <1>5 DEF NextClaim
  <2>2. \A g \in Groups : \A k \in Slots(g) : Held(Targets[g][k])'
    BY <1>1, <1>2, <1>5 DEF Slots
  <2>3. ServeInv'
    BY <2>1, <2>2 DEF ServeInv
  <2>4. QED
    BY <2>1, <2>3 DEF CommandInv, Fronts, ClaimInv, Claiming, Between
<1>6. QED
  BY <1>1, <1>3, <1>4, <1>5

LEMMA ClaimCommand ==
  ASSUME TypeOK, CommandInv, ClaimRead \/ ClaimWrite
  PROVE  CommandInv'
<1>1. /\ \A g \in Groups : last_pwm[g] = NoPwm
      /\ \A g \in Groups : \A k \in Slots(g) :
           g < gi \/ (g = gi /\ k < ki) => Held(Targets[g][k])
  BY DEF CommandInv, ClaimInv, Claiming, ClaimRead, ClaimWrite
<1>2. gi \in Groups /\ ki \in Slots(gi) /\ Device = Targets[gi][ki]
  BY DEF TypeOK, Slots, Device
<1>3. \A g \in Groups : \A k \in Slots(g) :
        g < gi \/ (g = gi /\ k <= ki) =>
          (g < gi \/ (g = gi /\ k < ki)) \/ Targets[g][k] = Device
  BY <1>2, DeviceOf DEF Slots
<1>4. UNCHANGED last_pwm
  BY DEF ClaimRead, ClaimWrite, groupVars
<1>5. CASE ClaimRead /\ Device \in Hwmon
  BY <1>1, <1>5 DEF ClaimRead, CommandInv, Fronts, ClaimInv, ServeInv, Claiming,
                    Serving, Between, Held, groupVars
<1>6. CASE ClaimRead /\ Device \notin Hwmon
  <2>1. NextClaim /\ hw' = hw
    BY <1>6 DEF ClaimRead
  <2>2. \A g \in Groups : \A k \in Slots(g) :
          g < gi \/ (g = gi /\ k <= ki) => Held(Targets[g][k])'
    BY <1>1, <1>3, <1>6, <2>1 DEF Held
  <2>3. QED
    BY <1>1, <1>4, <2>1, <2>2, ClaimGoesOn
<1>7. CASE ClaimWrite /\ Abandon
  BY <1>7, LeavingCommand DEF Abandon
<1>8. CASE ClaimWrite /\ ~Abandon
  <2>1. NextClaim /\ hw' = [hw EXCEPT ![Device].mode = "manual"]
    BY <1>8 DEF ClaimWrite
  <2>2. /\ hw'[Device].mode = "manual"
        /\ \A d \in Devices : d # Device => hw'[d] = hw[d]
    BY <2>1, DeviceOf, ZenonT(30) DEF TypeOK
  <2>3. \A g \in Groups : \A k \in Slots(g) :
          g < gi \/ (g = gi /\ k <= ki) => Held(Targets[g][k])'
    BY <1>1, <1>3, <2>2, SlotDevices DEF Held
  <2>4. QED
    BY <1>1, <1>4, <2>1, <2>3, ClaimGoesOn
<1>9. QED
  BY <1>5, <1>6, <1>7, <1>8

--------------------------------------------------------------------------------
(* Writes *)

\* A target that is told a speed follows it.
LEMMA WrittenFollows ==
  ASSUME TypeOK, Held(Device)
  PROVE  /\ Follows(Written(Device, want), Device, want)
         /\ Device \in Hwmon => Written(Device, want).mode = "manual"
<1>1. hw[Device] \in [mode : Modes, level : 0..255]
  BY DeviceOf DEF TypeOK
<1>2. CASE Device \in Hwmon
  BY <1>1, <1>2 DEF Held, Written, PwmWritten, Follows
<1>3. CASE Device \notin Hwmon
  BY <1>1, <1>3 DEF Written, FanWritten, Follows
<1>4. QED
  BY <1>2, <1>3

LEMMA ApplyCommand ==
  ASSUME Undivided, TypeOK, CommandInv, Apply
  PROVE  CommandInv'
<1>1. gi \in Groups /\ ki \in Slots(gi) /\ Device = Targets[gi][ki]
  BY DEF TypeOK, Slots, Device
<1>2. /\ \A g \in Groups : \A k \in Slots(g) : Held(Targets[g][k])
      /\ \A g \in Groups : last_pwm[g] # NoPwm /\ g # gi => Obeys(g, last_pwm[g])
      /\ \A k \in Slots(gi) :
           k < ki => Follows(hw[Targets[gi][k]], Targets[gi][k], want)
  BY DEF CommandInv, ServeInv, Serving, Apply
<1>3. hw' = [hw EXCEPT ![Device] = Written(Device, want)]
  BY DEF Apply, Fail, Undivided
<1>4. /\ hw'[Device] = Written(Device, want)
      /\ \A d \in Devices : d # Device => hw'[d] = hw[d]
  BY <1>3, DeviceOf DEF TypeOK
<1>5. Held(Device)
  BY <1>1, <1>2
<1>6. \A g \in Groups : \A k \in Slots(g) : Held(Targets[g][k])'
  BY <1>2, <1>4, <1>5, WrittenFollows, SlotDevices DEF Held
<1>7. \A g \in Groups \ {gi} : \A k \in Slots(g) :
        hw'[Targets[g][k]] = hw[Targets[g][k]]
  BY <1>1, <1>4, Disjoint, SlotDevices
<1>8. \A k \in Slots(gi) :
        k < ki \/ k = ki => Follows(hw'[Targets[gi][k]], Targets[gi][k], want)
  <2> SUFFICES ASSUME NEW k \in Slots(gi), k < ki \/ k = ki
               PROVE  Follows(hw'[Targets[gi][k]], Targets[gi][k], want)
    OBVIOUS
  <2>1. CASE Targets[gi][k] = Device
    BY <1>4, <1>5, <2>1, WrittenFollows
  <2>2. CASE Targets[gi][k] # Device
    <3>1. hw'[Targets[gi][k]] = hw[Targets[gi][k]] /\ k < ki
      BY <1>1, <1>4, <2>2, SlotDevices
    <3>2. QED
      BY <1>2, <3>1
  <2>3. QED
    BY <2>1, <2>2
<1>9. CASE ki < Len(Targets[gi])
  <2>1. ki' = ki + 1 /\ UNCHANGED <<pc, gi, last_pwm, want>> /\ pc = "apply"
    BY <1>9 DEF Apply
  <2>2. \A g \in Groups :
          last_pwm[g] # NoPwm /\ g # gi => Obeys(g, last_pwm[g])'
    BY <1>2, <1>7, <2>1 DEF Obeys
  <2>3. \A k \in Slots(gi) : k < ki + 1 => k < ki \/ k = ki
    BY <1>1, DeviceOf DEF Slots
  <2>4. ServeInv'
    BY <1>6, <1>8, <2>1, <2>2, <2>3 DEF ServeInv
  <2>5. QED
    BY <2>1, <2>4 DEF CommandInv, Fronts, ClaimInv, Claiming, Between
<1>10. CASE ~(ki < Len(Targets[gi]))
  <2>1. last_pwm' = [last_pwm EXCEPT ![gi] = want] /\ NextGroup
    BY <1>10 DEF Apply
  <2>2. pc' \in Between /\ ki' = 1
    BY <2>1 DEF NextGroup, Between
  <2>3. \A k \in Slots(gi) : k < ki \/ k = ki
    BY <1>1, <1>10, DeviceOf DEF Slots
  <2>4. /\ last_pwm'[gi] = want
        /\ \A g \in Groups : g # gi => last_pwm'[g] = last_pwm[g]
    BY <1>1, <2>1 DEF TypeOK
  <2>5. \A k \in Slots(gi) : Follows(hw'[Targets[gi][k]], Targets[gi][k], want)
    BY <1>8, <2>3
  <2>6. ASSUME NEW g \in Groups, last_pwm'[g] # NoPwm
        PROVE  \A k \in Slots(g) : Follows(hw'[Targets[g][k]], Targets[g][k], last_pwm'[g])
    <3>1. CASE g = gi
      BY <2>4, <2>5, <3>1
    <3>2. CASE g # gi
      <4>1. Obeys(g, last_pwm[g])
        BY <1>2, <2>4, <2>6, <3>2
      <4>2. QED
        BY <1>7, <2>4, <3>2, <4>1 DEF Obeys
    <3>3. QED
      BY <3>1, <3>2
  <2>7. ServeInv'
    BY <1>6, <2>2, <2>6 DEF ServeInv, Obeys, Between
  <2>8. QED
    BY <2>2, <2>7 DEF CommandInv, Fronts, ClaimInv, Claiming, Between
<1>11. QED
  BY <1>9, <1>10

\* A decision leaves the registers alone and starts at the first target.
LEMMA DecideCommand ==
  ASSUME TypeOK, CommandInv, DecideGroup
  PROVE  CommandInv'
<1>1. pc = "group" /\ UNCHANGED <<hw, last_pwm>>
  BY DEF DecideGroup
<1>2. CASE NextGroup
  BY <1>1, <1>2, BetweenCommand DEF NextGroup, Between
<1>3. CASE pc' = "apply" /\ UNCHANGED <<gi, ki>>
  <2>1. ki' = 1
    BY <1>1, <1>3 DEF CommandInv, Fronts, Between
  <2>2. \A g \in Groups : \A k \in Slots(g) : k \in Nat /\ ~(k < 1)
    BY DeviceOf DEF Slots
  <2>3. gi' \in Groups
    BY <1>3 DEF TypeOK
  <2>4. ServeInv'
    BY <1>1, <1>3, <2>1, <2>2, <2>3
       DEF CommandInv, ServeInv, Serving, Between, Held, Obeys
  <2>5. QED
    BY <1>3, <2>4 DEF CommandInv, Fronts, ClaimInv, Claiming, Between
<1>4. QED
  BY <1>2, <1>3 DEF DecideGroup

--------------------------------------------------------------------------------

LEMMA CommandStep ==
  ASSUME Undivided, TypeOK, CommandInv, [Next]_vars
  PROVE  CommandInv'
<1>1. CASE Launch \/ Crash \/ Exit
  BY <1>1, FreshCommand DEF Launch, Crash, Exit, FailedExit, Gone
<1>2. CASE Signal \/ Elapse \/ UNCHANGED vars
  BY <1>2, SameCommand DEF Signal, Elapse, vars, proc, procVars, groupVars
<1>3. CASE Operator
  BY <1>3 DEF Operator, Undivided
<1>4. CASE NvmlInit
  <2>1. pc = "nvml_init" /\ UNCHANGED <<gi, ki, hw, last_pwm>>
    BY <1>4 DEF NvmlInit, groupVars
  <2>2. CASE pc' = "nvml_shutdown"
    BY <2>2, LeavingCommand
  <2>3. CASE pc' = "resolve"
    <3>1. gi' = 1 /\ ki' = 1 /\ \A g \in Groups : last_pwm'[g] = NoPwm
      BY <2>1 DEF CommandInv, Fronts, ClaimInv
    <3>2. \A g \in Groups : \A k \in Slots(g) : ~(g < 1 \/ (g = 1 /\ k < 1))
      BY DeviceOf DEF Groups, Slots
    <3>3. ClaimInv'
      BY <3>1, <3>2 DEF ClaimInv
    <3>4. QED
      BY <2>3, <3>1, <3>3 DEF CommandInv, Fronts, ServeInv, Serving, Between
  <2>4. QED
    BY <1>4, <2>2, <2>3 DEF NvmlInit
<1>5. CASE Resolve
  <2>1. CASE pc' = "claim_read" /\ UNCHANGED <<gi, ki>>
    BY <1>5, <2>1 DEF Resolve, CommandInv, Fronts, ClaimInv, ServeInv, Claiming,
                     Serving, Between, Held, groupVars
  <2>2. CASE Abandon
    BY <2>2, LeavingCommand DEF Abandon
  <2>3. QED
    BY <1>5, <2>1, <2>2 DEF Resolve
<1>6. CASE ClaimRead \/ ClaimWrite
  BY <1>6, ClaimCommand
<1>7. CASE Loop
  <2>1. pc = "loop" /\ pc' \in {"restore", "group", "sleep"} /\ UNCHANGED <<ki, hw, last_pwm>>
    BY <1>7 DEF Loop, groupVars
  <2>2. ki' = 1
    BY <2>1 DEF CommandInv, Fronts, Between
  <2>3. QED
    BY <2>1, <2>2, LeavingCommand, BetweenCommand DEF Between
<1>8. CASE SkipGroup
  BY <1>8, BetweenCommand DEF SkipGroup, NextGroup, Between, groupVars
<1>9. CASE DecideGroup
  BY <1>9, DecideCommand
<1>10. CASE Apply
  BY <1>10, ApplyCommand
<1>11. CASE SleepChunk
  BY <1>11, SameCommand DEF SleepChunk
<1>12. CASE Wake
  <2>1. pc = "sleep" /\ pc' = "loop" /\ UNCHANGED <<ki, hw, last_pwm>>
    BY <1>12 DEF Wake, groupVars
  <2>2. ki' = 1
    BY <2>1 DEF CommandInv, Fronts, Between
  <2>3. QED
    BY <2>1, <2>2, BetweenCommand DEF Between
<1>13. CASE RestoreFan \/ RestorePwm \/ RestoreMode
  BY <1>13, LeavingCommand DEF RestoreFan, RestorePwm, RestoreMode, NextRestore
<1>14. QED
  BY <1>1, <1>2, <1>3, <1>4, <1>5, <1>6, <1>7, <1>8, <1>9, <1>10, <1>11, <1>12, <1>13
     DEF Next, Daemon, Startup, Tick

\* Whenever no write is in progress, every fan runs at the last_pwm of its
\* group: at every moment a signal, a crash or a restart may choose, for any
\* number of groups, targets and curves.
THEOREM AllCommanded ==
  ASSUME Undivided
  PROVE  Spec => []Commanded
<1>1. Init => CommandInv
  BY DEF Init, CommandInv, Fronts, ClaimInv, ServeInv, Claiming, Serving, Between
<1>2. TypeOK /\ CommandInv /\ [Next]_vars => CommandInv'
  BY CommandStep
<1>3. TypeOK /\ CommandInv => Commanded
  <2> SUFFICES ASSUME CommandInv, pc \in Between, NEW g \in Groups,
                      last_pwm[g] # NoPwm, NEW d \in Range(Targets[g])
               PROVE  Follows(hw[d], d, last_pwm[g])
    BY DEF Commanded, Between
  <2>1. Targets[g] \in Seq(Devices)
    BY ConfigValid DEF Groups
  <2>2. PICK k \in Slots(g) : d = Targets[g][k]
    BY <2>1 DEF Range, Slots
  <2>3. Obeys(g, last_pwm[g])
    BY DEF CommandInv, ServeInv, Serving, Between
  <2>4. QED
    BY <2>2, <2>3 DEF Obeys
<1>4. QED
  BY <1>1, <1>2, <1>3, TypeCorrect, PTL DEF Spec

--------------------------------------------------------------------------------
(***************************************************************************)
(* What the daemon took it gives back: a proof of HandsBack for every      *)
(* number of groups and targets, at whatever access a signal falls and     *)
(* with whatever sensor, speed or resolution that fails.                   *)
(***************************************************************************)

Restoring == {"restore", "restore_mode"}

\* What HandsBack takes for granted: no crash, claims and the last writes of
\* restore() succeed, no device is listed twice, and another program switches
\* only governed channels, once they are claimed.
Orderly ==
  /\ ~Crashes
  /\ MayFail \cap {"claim_read", "claim_write", "restore", "restore_mode"} = {}
  /\ \A g, h \in Groups : \A k \in Slots(g) : \A l \in Slots(h) :
       Targets[g][k] = Targets[h][l] => g = h /\ k = l
  /\ OperatorAt \subseteq Serving
  /\ OperatorAt # {} =>
       \A d \in Hwmon : \E g \in Groups : \E k \in Slots(g) : d = Targets[g][k]

\* The device is as the firmware had it.
Home(d) == hw[d].mode = IF d \in Hwmon THEN firmware[d] ELSE "auto"

\* The loop at <<gi, ki>> has dealt with a slot.
Passed(g, k) == g < gi \/ (g = gi /\ k < ki)

\* The slots whose devices may be away from home, and that restore() will
\* still come to, whenever it is called.
Owed(g, k) ==
  \/ pc \in Claiming /\ Passed(g, k)
  \/ pc \in Serving
  \/ pc \in Restoring /\ g <= claimed /\ ~Passed(g, k)

Known(g, k) ==
  Targets[g][k] \in Hwmon => original[g][k] = firmware[Targets[g][k]]

\* Nothing is away from home but what is owed, and of that the mode is known.
DebtInv ==
  /\ \A d \in Devices :
       Home(d) \/ \E g \in Groups : \E k \in Slots(g) : d = Targets[g][k] /\ Owed(g, k)
  /\ \A g \in Groups : \A k \in Slots(g) : Owed(g, k) => Known(g, k)

\* The loops begin at the front, and claimed counts the groups behind them.
CountInv ==
  /\ pc = "nvml_init" => gi = 1 /\ claimed = 0
  /\ pc \in {"nvml_init", "resolve"} \cup Between => ki = 1
  /\ pc \in Claiming => claimed + 1 = gi
  /\ pc \in Serving => claimed = Len(Targets)
  /\ pc \in {"loop", "sleep"} => gi = 1
  /\ pc \in Restoring => gi <= claimed
  /\ pc \in {"claim_write", "restore_mode"} => Device \in Hwmon
  /\ pc = "claim_write" => original[gi][ki] = firmware[Device]

HandInv == DebtInv /\ CountInv

--------------------------------------------------------------------------------
(* Slots *)

LEMMA Indices ==
  ASSUME TypeOK
  PROVE  /\ gi \in Nat /\ gi >= 1 /\ gi <= Len(Targets) /\ ki \in Nat /\ ki >= 1
         /\ gi \in Groups /\ ki \in Slots(gi) /\ ki <= Len(Targets[gi])
         /\ claimed \in Nat /\ Len(Targets) \in Nat /\ Len(Targets) >= 1
         /\ Device = Targets[gi][ki] /\ Device \in Devices
         /\ \A g \in Groups : g \in Nat /\ g >= 1 /\ g <= Len(Targets)
         /\ \A g \in Groups : \A k \in Slots(g) :
              k \in Nat /\ k >= 1 /\ k <= Len(Targets[g])
<1>1. gi \in Groups /\ ki \in Slots(gi) /\ claimed \in 0..Len(Targets)
  BY DEF TypeOK, Slots
<1>2. /\ Len(Targets) \in Nat /\ Len(Targets) >= 1 /\ Device \in Devices
      /\ \A g \in Groups : Len(Targets[g]) \in Nat /\ Len(Targets[g]) >= 1
  BY DeviceOf
<1>3. \A g \in Groups : g \in Nat /\ g >= 1 /\ g <= Len(Targets)
  BY <1>2 DEF Groups
<1>4. \A g \in Groups : \A k \in Slots(g) :
        k \in Nat /\ k >= 1 /\ k <= Len(Targets[g])
  BY <1>2 DEF Slots
<1>5. QED
  BY <1>1, <1>2, <1>3, <1>4 DEF Device

\* Another slot is another device.
LEMMA OneSlot ==
  ASSUME TypeOK, Orderly, NEW g \in Groups, NEW k \in Slots(g), Targets[g][k] = Device
  PROVE  g = gi /\ k = ki
  BY Indices DEF Orderly

--------------------------------------------------------------------------------
(* Steps *)

\* No mode changes and no original is read: a debt stays one while it is owed
\* as before, and none arises that was not.
LEMMA SameDebt ==
  ASSUME DebtInv, UNCHANGED <<firmware, original>>,
         \A d \in Devices : hw'[d].mode = hw[d].mode,
         \A g \in Groups : \A k \in Slots(g) : Owed(g, k) => Owed(g, k)',
         \A g \in Groups : \A k \in Slots(g) :
           Owed(g, k)' => Owed(g, k) \/ Known(g, k)
  PROVE  DebtInv'
<1>1. \A d \in Devices : Home(d) => Home(d)'
  BY DEF Home
<1>2. \A g \in Groups : \A k \in Slots(g) : Known(g, k) => Known(g, k)'
  BY DEF Known
<1>3. \A d \in Devices :
        Home(d)' \/ \E g \in Groups : \E k \in Slots(g) : d = Targets[g][k] /\ Owed(g, k)'
  BY <1>1 DEF DebtInv
<1>4. \A g \in Groups : \A k \in Slots(g) : Owed(g, k)' => Known(g, k)'
  BY <1>2 DEF DebtInv
<1>5. QED
  BY <1>3, <1>4 DEF DebtInv

\* The mode of the current device changes, and it is owed from now on.
LEMMA DeviceDebt ==
  ASSUME TypeOK, DebtInv, UNCHANGED <<firmware, original>>,
         \A d \in Devices : d # Device => hw'[d].mode = hw[d].mode,
         \A g \in Groups : \A k \in Slots(g) :
           Owed(g, k)' <=> Owed(g, k) \/ (g = gi /\ k = ki),
         Known(gi, ki)
  PROVE  DebtInv'
<1>1. \A d \in Devices : d # Device /\ Home(d) => Home(d)'
  BY DEF Home
<1>2. \A g \in Groups : \A k \in Slots(g) : Known(g, k) => Known(g, k)'
  BY DEF Known
<1>3. \A d \in Devices :
        Home(d)' \/ \E g \in Groups : \E k \in Slots(g) : d = Targets[g][k] /\ Owed(g, k)'
  BY <1>1, Indices DEF DebtInv
<1>4. \A g \in Groups : \A k \in Slots(g) : Owed(g, k)' => Known(g, k)'
  BY <1>2 DEF DebtInv
<1>5. QED
  BY <1>3, <1>4 DEF DebtInv

\* The current device goes home, and is owed no longer.
LEMMA DeviceHome ==
  ASSUME TypeOK, DebtInv, UNCHANGED <<firmware, original>>,
         \A d \in Devices : d # Device => hw'[d].mode = hw[d].mode,
         hw'[Device].mode = IF Device \in Hwmon THEN firmware'[Device] ELSE "auto",
         \A g \in Groups : \A k \in Slots(g) :
           Owed(g, k)' <=> Owed(g, k) /\ ~(g = gi /\ k = ki)
  PROVE  DebtInv'
<1>1. \A d \in Devices : d = Device \/ Home(d) => Home(d)'
  BY DEF Home
<1>2. \A g \in Groups : \A k \in Slots(g) : Known(g, k) => Known(g, k)'
  BY DEF Known
<1>3. ASSUME NEW d \in Devices, d # Device, ~Home(d)
      PROVE  \E g \in Groups : \E k \in Slots(g) : d = Targets[g][k] /\ Owed(g, k)'
  <2>1. PICK g \in Groups : \E k \in Slots(g) : d = Targets[g][k] /\ Owed(g, k)
    BY <1>3 DEF DebtInv
  <2>2. PICK k \in Slots(g) : d = Targets[g][k] /\ Owed(g, k)
    BY <2>1
  <2>3. ~(g = gi /\ k = ki)
    BY <1>3, <2>2, Indices
  <2>4. QED
    BY <2>2, <2>3
<1>4. \A g \in Groups : \A k \in Slots(g) : Owed(g, k)' => Known(g, k)'
  BY <1>2 DEF DebtInv
<1>5. QED
  BY <1>1, <1>3, <1>4 DEF DebtInv

\* A process that has just started, or just ended, with nothing owed.
LEMMA FreshHand ==
  ASSUME NEW p \in Gone \cup {"nvml_init"}, Fresh(p), UNCHANGED <<hw, firmware>>,
         DebtInv, pc \in Gone \cup {"nvml_shutdown"}
  PROVE  HandInv'
<1>1. \A g \in Groups : \A k \in Slots(g) : ~Owed(g, k)
  BY DEF Owed, Gone, Claiming, Serving, Between, Restoring
<1>2. pc' = p /\ gi' = 1 /\ ki' = 1 /\ claimed' = 0
  BY DEF Fresh
<1>3. \A g \in Groups : \A k \in Slots(g) : ~Owed(g, k)'
  BY <1>2 DEF Owed, Gone, Claiming, Serving, Between, Restoring
<1>4. \A d \in Devices : Home(d)'
  BY <1>1 DEF DebtInv, Home
<1>5. CountInv'
  BY <1>2 DEF CountInv, Gone, Claiming, Serving, Between, Restoring
<1>6. QED
  BY <1>3, <1>4, <1>5 DEF HandInv, DebtInv

\* Nothing the invariant speaks of.
LEMMA SameHand ==
  ASSUME HandInv, UNCHANGED <<pc, gi, ki, claimed, original, firmware>>,
         \A d \in Devices : hw'[d].mode = hw[d].mode
  PROVE  HandInv'
<1>1. DebtInv'
  BY SameDebt DEF HandInv, Owed, Passed
<1>2. QED
  BY <1>1 DEF HandInv, CountInv, Device

--------------------------------------------------------------------------------
(* init() *)

\* The loop of init() goes on past <<gi, ki>>.
LEMMA NextOwed ==
  ASSUME TypeOK, CountInv, pc \in {"claim_read", "claim_write"}, NextClaim
  PROVE  /\ CountInv'
         /\ \A g \in Groups : \A k \in Slots(g) :
              Owed(g, k)' <=> Owed(g, k) \/ (g = gi /\ k = ki)
<1>1. \A g \in Groups : \A k \in Slots(g) : Owed(g, k) <=> Passed(g, k)
  BY DEF Owed, Claiming, Serving, Between, Restoring
<1>2. claimed + 1 = gi
  BY DEF CountInv, Claiming
<1>3. CASE ki < Len(Targets[gi])
  <2>1. gi' = gi /\ ki' = ki + 1 /\ pc' = "claim_read" /\ claimed' = claimed
    BY <1>3 DEF NextClaim
  <2>2. CountInv'
    BY <1>2, <2>1 DEF CountInv, Claiming, Serving, Between, Restoring
  <2>3. \A g \in Groups : \A k \in Slots(g) :
          Passed(g, k)' <=> Passed(g, k) \/ (g = gi /\ k = ki)
    BY <2>1, Indices DEF Passed
  <2>4. \A g \in Groups : \A k \in Slots(g) : Owed(g, k)' <=> Passed(g, k)'
    BY <2>1 DEF Owed, Claiming, Serving, Between, Restoring
  <2>5. QED
    BY <1>1, <2>2, <2>3, <2>4
<1>4. CASE ki = Len(Targets[gi]) /\ gi < Len(Targets)
  <2>1. gi' = gi + 1 /\ ki' = 1 /\ pc' = "resolve" /\ claimed' = gi
    BY <1>4 DEF NextClaim
  <2>2. CountInv'
    BY <2>1 DEF CountInv, Claiming, Serving, Between, Restoring
  <2>3. \A g \in Groups : \A k \in Slots(g) :
          Passed(g, k)' <=> Passed(g, k) \/ (g = gi /\ k = ki)
    BY <1>4, <2>1, Indices DEF Passed
  <2>4. \A g \in Groups : \A k \in Slots(g) : Owed(g, k)' <=> Passed(g, k)'
    BY <2>1 DEF Owed, Claiming, Serving, Between, Restoring
  <2>5. QED
    BY <1>1, <2>2, <2>3, <2>4
<1>5. CASE ki = Len(Targets[gi]) /\ ~(gi < Len(Targets))
  <2>1. gi' = 1 /\ ki' = 1 /\ pc' = "loop" /\ claimed' = gi
    BY <1>5 DEF NextClaim
  <2>2. gi = Len(Targets)
    BY <1>5, Indices
  <2>3. CountInv'
    BY <2>1, <2>2 DEF CountInv, Claiming, Serving, Between, Restoring
  <2>4. \A g \in Groups : \A k \in Slots(g) : Passed(g, k) \/ (g = gi /\ k = ki)
    BY <1>5, <2>2, Indices DEF Passed
  <2>5. \A g \in Groups : \A k \in Slots(g) : Owed(g, k)'
    BY <2>1 DEF Owed, Serving, Between
  <2>6. QED
    BY <1>1, <2>3, <2>4, <2>5
<1>6. QED
  BY <1>3, <1>4, <1>5, Indices

LEMMA ResolveHand ==
  ASSUME TypeOK, HandInv, Resolve
  PROVE  HandInv'
<1>1. /\ pc = "resolve" /\ ki = 1 /\ claimed + 1 = gi
      /\ UNCHANGED <<claimed, original, hw, firmware>>
  BY DEF Resolve, HandInv, CountInv, Claiming
<1>2. \A g \in Groups : \A k \in Slots(g) :
        Owed(g, k) <=> g <= claimed
  BY <1>1, Indices DEF Owed, Passed, Claiming, Serving, Between, Restoring
<1>3. CASE pc' = "claim_read" /\ UNCHANGED <<gi, ki>>
  <2>1. \A g \in Groups : \A k \in Slots(g) : Owed(g, k) <=> Owed(g, k)'
    BY <1>1, <1>3 DEF Owed, Passed, Claiming, Serving, Between, Restoring
  <2>2. DebtInv'
    BY <1>1, <2>1, SameDebt DEF HandInv
  <2>3. QED
    BY <1>1, <1>3, <2>2 DEF HandInv, CountInv, Claiming, Serving, Between, Restoring
<1>4. CASE Abandon
  <2>1. gi' = 1 /\ ki' = 1 /\ pc' = IF claimed = 0 THEN "nvml_shutdown" ELSE "restore"
    BY <1>4 DEF Abandon
  <2>2. \A g \in Groups : \A k \in Slots(g) : Owed(g, k)' <=> g <= claimed
    BY <1>1, <2>1, Indices DEF Owed, Passed, Claiming, Serving, Between, Restoring
  <2>3. DebtInv'
    BY <1>1, <1>2, <2>2, SameDebt DEF HandInv
  <2>4. CountInv'
    BY <1>1, <2>1, Indices DEF CountInv, Claiming, Serving, Between, Restoring
  <2>5. QED
    BY <2>3, <2>4 DEF HandInv
<1>5. QED
  BY <1>3, <1>4 DEF Resolve

\* A channel is read while it is at home, so that what is read is the
\* firmware's mode.
LEMMA ClaimReadHand ==
  ASSUME TypeOK, Orderly, HandInv, ClaimRead
  PROVE  HandInv'
<1>1. pc = "claim_read" /\ UNCHANGED <<hw, firmware>> /\ DebtInv /\ CountInv
  BY DEF ClaimRead, HandInv
<1>2. \A g \in Groups : \A k \in Slots(g) : Owed(g, k) <=> Passed(g, k)
  BY <1>1 DEF Owed, Claiming, Serving, Between, Restoring
<1>3. ~Passed(gi, ki)
  BY Indices DEF Passed
<1>4. CASE Device \notin Hwmon
  <2>1. NextClaim /\ UNCHANGED original
    BY <1>4 DEF ClaimRead
  <2>2. CountInv' /\ \A g \in Groups : \A k \in Slots(g) :
          Owed(g, k)' <=> Owed(g, k) \/ (g = gi /\ k = ki)
    BY <1>1, <2>1, NextOwed
  <2>3. Known(gi, ki)
    BY <1>4, Indices DEF Known
  <2>4. DebtInv'
    BY <1>1, <2>1, <2>2, <2>3, SameDebt
  <2>5. QED
    BY <2>2, <2>4 DEF HandInv
<1>5. CASE Device \in Hwmon
  <2>1. /\ pc' = "claim_write" /\ UNCHANGED <<gi, ki, claimed>>
        /\ original' = [original EXCEPT ![gi][ki] = hw[Device].mode]
    BY <1>5 DEF ClaimRead, Fail, Orderly
  <2>2. Home(Device)
    <3>1. \A g \in Groups : \A k \in Slots(g) : Device = Targets[g][k] => ~Owed(g, k)
      BY <1>2, <1>3, OneSlot
    <3>2. QED
      BY <1>1, <3>1, Indices DEF DebtInv
  <2>3. DOMAIN original = Groups /\ DOMAIN original[gi] = Slots(gi)
    BY Indices DEF TypeOK, Slots
  <2>4. original'[gi][ki] = firmware[Device]
    BY <1>5, <2>1, <2>2, <2>3, Indices DEF Home
  <2>5. \A g \in Groups : \A k \in Slots(g) :
          ~(g = gi /\ k = ki) => original'[g][k] = original[g][k]
    BY <2>1, <2>3
  <2>6. \A g \in Groups : \A k \in Slots(g) : Owed(g, k)' <=> Owed(g, k)
    BY <1>1, <2>1 DEF Owed, Passed, Claiming, Serving, Between, Restoring
  <2>7. \A g \in Groups : \A k \in Slots(g) : Owed(g, k)' => Known(g, k)'
    <3> SUFFICES ASSUME NEW g \in Groups, NEW k \in Slots(g), Owed(g, k)'
                 PROVE  Known(g, k)'
      OBVIOUS
    <3>1. Owed(g, k) /\ ~(g = gi /\ k = ki)
      BY <1>2, <1>3, <2>6
    <3>2. Known(g, k)
      BY <1>1, <3>1 DEF DebtInv
    <3>3. QED
      BY <1>1, <2>5, <3>1, <3>2 DEF Known
  <2>8. \A d \in Devices : Home(d)' <=> Home(d)
    BY <1>1 DEF Home
  <2>9. DebtInv'
    BY <1>1, <2>6, <2>7, <2>8 DEF DebtInv
  <2>10. Device' = Device
    BY <2>1 DEF Device
  <2>11. CountInv'
    BY <1>1, <1>5, <2>1, <2>4, <2>10 DEF CountInv, Claiming, Serving, Between, Restoring
  <2>12. QED
    BY <2>9, <2>11 DEF HandInv
<1>6. QED
  BY <1>4, <1>5

\* The write that takes a channel from the firmware makes it owed.
LEMMA ClaimWriteHand ==
  ASSUME TypeOK, Orderly, HandInv, ClaimWrite
  PROVE  HandInv'
<1>1. /\ pc = "claim_write" /\ UNCHANGED <<original, firmware>> /\ DebtInv /\ CountInv
      /\ hw' = [hw EXCEPT ![Device].mode = "manual"] /\ NextClaim
  BY DEF ClaimWrite, HandInv, Orderly, Fail
<1>2. CountInv' /\ \A g \in Groups : \A k \in Slots(g) :
        Owed(g, k)' <=> Owed(g, k) \/ (g = gi /\ k = ki)
  BY <1>1, NextOwed
<1>3. \A d \in Devices : d # Device => hw'[d].mode = hw[d].mode
  BY <1>1 DEF TypeOK
<1>4. Known(gi, ki)
  BY <1>1, Indices DEF CountInv, Known
<1>5. DebtInv'
  BY <1>1, <1>2, <1>3, <1>4, DeviceDebt
<1>6. QED
  BY <1>2, <1>5 DEF HandInv

--------------------------------------------------------------------------------
(* The loop *)

\* While the loop runs everything is owed: whatever it does to the devices.
LEMMA ServeHand ==
  ASSUME TypeOK, HandInv, pc \in Serving, pc' \in Serving,
         UNCHANGED <<claimed, original, firmware>>,
         pc' \in Between => ki' = 1, pc' \in {"loop", "sleep"} => gi' = 1,
         \A d \in Devices :
           hw'[d].mode = hw[d].mode
           \/ \E g \in Groups : \E k \in Slots(g) : d = Targets[g][k]
  PROVE  HandInv'
<1>1. \A g \in Groups : \A k \in Slots(g) : Owed(g, k) /\ Owed(g, k)'
  BY DEF Owed
<1>2. \A d \in Devices :
        Home(d)' \/ \E g \in Groups : \E k \in Slots(g) : d = Targets[g][k]
  BY DEF HandInv, DebtInv, Home
<1>3. \A g \in Groups : \A k \in Slots(g) : Known(g, k)'
  BY <1>1 DEF HandInv, DebtInv, Known
<1>4. CountInv'
  BY DEF HandInv, CountInv, Claiming, Serving, Between, Restoring
<1>5. QED
  BY <1>1, <1>2, <1>3, <1>4 DEF HandInv, DebtInv

LEMMA LoopHand ==
  ASSUME TypeOK, HandInv, Loop
  PROVE  HandInv'
<1>1. /\ pc = "loop" /\ gi = 1 /\ ki = 1 /\ claimed = Len(Targets)
      /\ UNCHANGED <<gi, ki, claimed, original, hw, firmware>>
  BY DEF Loop, HandInv, CountInv, Serving, Between
<1>2. CASE pc' \in {"group", "sleep"}
  BY <1>1, <1>2, ServeHand DEF Serving, Between
<1>3. CASE pc' = "restore"
  <2>1. \A g \in Groups : \A k \in Slots(g) : Owed(g, k) /\ Owed(g, k)'
    BY <1>1, <1>3, Indices DEF Owed, Passed, Serving, Between, Restoring
  <2>2. DebtInv'
    BY <1>1, <2>1, SameDebt DEF HandInv
  <2>3. CountInv'
    BY <1>1, <1>3, Indices DEF CountInv, Claiming, Serving, Between, Restoring
  <2>4. QED
    BY <2>2, <2>3 DEF HandInv
<1>4. QED
  BY <1>2, <1>3 DEF Loop

LEMMA ApplyHand ==
  ASSUME TypeOK, HandInv, Apply
  PROVE  HandInv'
<1>1. pc = "apply" /\ UNCHANGED <<claimed, original, firmware>>
  BY DEF Apply, procVars
<1>2. \A d \in Devices : d # Device => hw'[d].mode = hw[d].mode
  BY DEF Apply, TypeOK
<1>3. \A d \in Devices :
        hw'[d].mode = hw[d].mode
        \/ \E g \in Groups : \E k \in Slots(g) : d = Targets[g][k]
  BY <1>2, Indices
<1>4. /\ pc' \in Serving /\ (pc' \in Between => ki' = 1)
      /\ (pc' \in {"loop", "sleep"} => gi' = 1)
  BY <1>1 DEF Apply, NextGroup, Serving, Between
<1>5. QED
  BY <1>1, <1>3, <1>4, ServeHand DEF Serving

LEMMA OperatorHand ==
  ASSUME TypeOK, Orderly, HandInv, Operator
  PROVE  HandInv'
<1>1. pc \in Serving /\ UNCHANGED <<pc, gi, ki, claimed, original, firmware>>
  BY DEF Operator, Orderly, proc, procVars
<1>2. PICK c \in Hwmon : hw' = [hw EXCEPT ![c].mode = "auto"]
  BY DEF Operator
<1>3. \A d \in Devices : d # c => hw'[d].mode = hw[d].mode
  BY <1>2 DEF TypeOK
<1>4. \E g \in Groups : \E k \in Slots(g) : c = Targets[g][k]
  BY DEF Operator, Orderly
<1>5. QED
  BY <1>1, <1>3, <1>4, ServeHand DEF HandInv, CountInv

--------------------------------------------------------------------------------
(* restore() *)

\* restore() goes on past <<gi, ki>>.
LEMMA NextSettled ==
  ASSUME TypeOK, CountInv, pc \in Restoring, NextRestore, UNCHANGED claimed
  PROVE  /\ CountInv'
         /\ \A g \in Groups : \A k \in Slots(g) :
              Owed(g, k)' <=> Owed(g, k) /\ ~(g = gi /\ k = ki)
<1>1. \A g \in Groups : \A k \in Slots(g) :
        Owed(g, k) <=> g <= claimed /\ ~Passed(g, k)
  BY DEF Owed, Claiming, Serving, Between, Restoring
<1>2. gi <= claimed
  BY DEF CountInv
<1>3. CASE ki < Len(Targets[gi])
  <2>1. gi' = gi /\ ki' = ki + 1 /\ pc' = "restore"
    BY <1>3 DEF NextRestore
  <2>2. \A g \in Groups : \A k \in Slots(g) :
          Passed(g, k)' <=> Passed(g, k) \/ (g = gi /\ k = ki)
    BY <2>1, Indices DEF Passed
  <2>3. \A g \in Groups : \A k \in Slots(g) :
          Owed(g, k)' <=> g <= claimed /\ ~Passed(g, k)'
    BY <2>1 DEF Owed, Claiming, Serving, Between, Restoring
  <2>4. QED
    BY <1>1, <1>2, <2>1, <2>2, <2>3 DEF CountInv, Claiming, Serving, Between, Restoring
<1>4. CASE ki = Len(Targets[gi]) /\ gi < claimed
  <2>1. gi' = gi + 1 /\ ki' = 1 /\ pc' = "restore"
    BY <1>4, Indices DEF NextRestore
  <2>2. \A g \in Groups : \A k \in Slots(g) :
          Passed(g, k)' <=> Passed(g, k) \/ (g = gi /\ k = ki)
    BY <1>4, <2>1, Indices DEF Passed
  <2>3. \A g \in Groups : \A k \in Slots(g) :
          Owed(g, k)' <=> g <= claimed /\ ~Passed(g, k)'
    BY <2>1 DEF Owed, Claiming, Serving, Between, Restoring
  <2>4. gi' <= claimed'
    BY <1>4, <2>1, Indices
  <2>5. QED
    BY <1>1, <2>1, <2>2, <2>3, <2>4
       DEF CountInv, Claiming, Serving, Between, Restoring
<1>5. CASE ki = Len(Targets[gi]) /\ ~(gi < claimed)
  <2>1. gi' = 1 /\ ki' = 1 /\ pc' = "nvml_shutdown"
    BY <1>5, Indices DEF NextRestore
  <2>2. \A g \in Groups : \A k \in Slots(g) : ~Owed(g, k)'
    BY <2>1 DEF Owed, Claiming, Serving, Between, Restoring
  <2>3. \A g \in Groups : \A k \in Slots(g) :
          g <= claimed => Passed(g, k) \/ (g = gi /\ k = ki)
    BY <1>2, <1>5, Indices DEF Passed
  <2>4. QED
    BY <1>1, <2>1, <2>2, <2>3 DEF CountInv, Claiming, Serving, Between, Restoring
<1>6. QED
  BY <1>3, <1>4, <1>5, Indices

\* The slot restore() is at is owed.
LEMMA StillOwed ==
  ASSUME TypeOK, HandInv, pc \in Restoring
  PROVE  Owed(gi, ki) /\ Known(gi, ki)
<1>1. Owed(gi, ki)
  BY Indices DEF HandInv, CountInv, Owed, Passed
<1>2. QED
  BY <1>1, Indices DEF HandInv, DebtInv

LEMMA RestoreFanHand ==
  ASSUME TypeOK, Orderly, HandInv, RestoreFan
  PROVE  HandInv'
<1>1. /\ pc \in Restoring /\ UNCHANGED <<claimed, original, firmware>> /\ NextRestore
      /\ Device \notin Hwmon /\ hw' = [hw EXCEPT ![Device].mode = "auto"]
      /\ DebtInv /\ CountInv
  BY DEF RestoreFan, Restoring, Orderly, Fail, procVars, HandInv
<1>2. CountInv' /\ \A g \in Groups : \A k \in Slots(g) :
        Owed(g, k)' <=> Owed(g, k) /\ ~(g = gi /\ k = ki)
  BY <1>1, NextSettled
<1>3. /\ hw'[Device].mode = "auto"
      /\ \A d \in Devices : d # Device => hw'[d].mode = hw[d].mode
  BY <1>1, Indices, ZenonT(30) DEF TypeOK
<1>4. hw'[Device].mode = IF Device \in Hwmon THEN firmware'[Device] ELSE "auto"
  BY <1>1, <1>3
<1>5. DebtInv'
  BY <1>1, <1>2, <1>3, <1>4, DeviceHome
<1>6. QED
  BY <1>2, <1>5 DEF HandInv

LEMMA RestorePwmHand ==
  ASSUME TypeOK, HandInv, RestorePwm
  PROVE  HandInv'
<1>1. /\ pc = "restore" /\ pc' = "restore_mode" /\ Device \in Hwmon
      /\ UNCHANGED <<gi, ki, claimed, original, firmware>>
  BY DEF RestorePwm, procVars
<1>2. \A d \in Devices : hw'[d].mode = hw[d].mode
  <2>1. CASE UNCHANGED hw
    BY <2>1
  <2>2. CASE hw' = [hw EXCEPT ![Device].level = 76]
    BY <2>2, Indices DEF TypeOK
  <2>3. QED
    BY <2>1, <2>2 DEF RestorePwm
<1>3. \A g \in Groups : \A k \in Slots(g) : Owed(g, k) <=> Owed(g, k)'
  BY <1>1 DEF Owed, Passed, Claiming, Serving, Between, Restoring
<1>4. DebtInv'
  BY <1>1, <1>2, <1>3, SameDebt DEF HandInv
<1>5. CountInv'
  BY <1>1 DEF HandInv, CountInv, Device, Claiming, Serving, Between, Restoring
<1>6. QED
  BY <1>4, <1>5 DEF HandInv

LEMMA RestoreModeHand ==
  ASSUME TypeOK, Orderly, HandInv, RestoreMode
  PROVE  HandInv'
<1>1. /\ pc \in Restoring /\ UNCHANGED <<claimed, original, firmware>> /\ NextRestore
      /\ Device \in Hwmon /\ hw' = [hw EXCEPT ![Device].mode = OriginalMode]
      /\ DebtInv /\ CountInv
  BY DEF RestoreMode, Restoring, Orderly, Fail, procVars, HandInv, CountInv
<1>2. CountInv' /\ \A g \in Groups : \A k \in Slots(g) :
        Owed(g, k)' <=> Owed(g, k) /\ ~(g = gi /\ k = ki)
  BY <1>1, NextSettled
<1>3. /\ hw'[Device].mode = OriginalMode
      /\ \A d \in Devices : d # Device => hw'[d].mode = hw[d].mode
  BY <1>1, Indices, ZenonT(30) DEF TypeOK
<1>4. OriginalMode = firmware[Device]
  <2>1. original[gi][ki] = firmware[Device]
    BY <1>1, StillOwed, Indices DEF Known
  <2>2. firmware[Device] \in FirmwareModes
    BY <1>1 DEF TypeOK
  <2>3. QED
    BY <2>1, <2>2, Domains DEF OriginalMode, Unread
<1>5. hw'[Device].mode = IF Device \in Hwmon THEN firmware'[Device] ELSE "auto"
  BY <1>1, <1>3, <1>4
<1>6. DebtInv'
  BY <1>1, <1>2, <1>3, <1>5, DeviceHome
<1>7. QED
  BY <1>2, <1>6 DEF HandInv

--------------------------------------------------------------------------------

LEMMA HandStep ==
  ASSUME TypeOK, Orderly, HandInv, [Next]_vars
  PROVE  HandInv'
<1>1. CASE Launch \/ Exit
  BY <1>1, FreshHand DEF Launch, Exit, FailedExit, Gone, HandInv
<1>2. CASE Crash
  BY <1>2 DEF Crash, Orderly
<1>3. CASE Signal \/ Elapse \/ SleepChunk \/ UNCHANGED vars
  BY <1>3, SameHand DEF Signal, Elapse, SleepChunk, vars, proc, procVars
<1>4. CASE Operator
  BY <1>4, OperatorHand
<1>5. CASE NvmlInit
  <2>1. /\ pc = "nvml_init" /\ gi = 1 /\ ki = 1 /\ claimed = 0
        /\ pc' \in {"resolve", "nvml_shutdown"}
        /\ UNCHANGED <<gi, ki, claimed, original, hw, firmware>>
    BY <1>5 DEF NvmlInit, HandInv, CountInv
  <2>2. \A g \in Groups : \A k \in Slots(g) : ~Owed(g, k) /\ ~Owed(g, k)'
    BY <2>1, Indices DEF Owed, Passed, Claiming, Serving, Between, Restoring
  <2>3. DebtInv'
    BY <2>1, <2>2, SameDebt DEF HandInv
  <2>4. CountInv'
    BY <2>1 DEF CountInv, Claiming, Serving, Between, Restoring
  <2>5. QED
    BY <2>3, <2>4 DEF HandInv
<1>6. CASE Resolve
  BY <1>6, ResolveHand
<1>7. CASE ClaimRead
  BY <1>7, ClaimReadHand
<1>8. CASE ClaimWrite
  BY <1>8, ClaimWriteHand
<1>9. CASE Loop
  BY <1>9, LoopHand
<1>10. CASE SkipGroup \/ DecideGroup \/ Wake
  <2>1. /\ pc \in Serving /\ pc' \in Serving
        /\ UNCHANGED <<claimed, original, hw, firmware>>
        /\ pc' \in Between => ki' = 1
        /\ pc' \in {"loop", "sleep"} => gi' = 1
    BY <1>10 DEF SkipGroup, DecideGroup, Wake, NextGroup, procVars, Serving, Between,
                 HandInv, CountInv
  <2>2. QED
    BY <2>1, ServeHand
<1>11. CASE Apply
  BY <1>11, ApplyHand
<1>12. CASE RestoreFan
  BY <1>12, RestoreFanHand
<1>13. CASE RestorePwm
  BY <1>13, RestorePwmHand
<1>14. CASE RestoreMode
  BY <1>14, RestoreModeHand
<1>15. QED
  BY <1>1, <1>2, <1>3, <1>4, <1>5, <1>6, <1>7, <1>8, <1>9, <1>10, <1>11, <1>12,
     <1>13, <1>14 DEF Next, Daemon, Startup, Tick

\* Every channel is back in the mode the BIOS left it in, and every NVML fan
\* under firmware control, when the process ends: for any number of groups,
\* after a signal at any access and after an init() that failed.
THEOREM HandedBack ==
  ASSUME Orderly
  PROVE  Spec => []HandsBack
<1>1. Init => HandInv
  <2> SUFFICES ASSUME Init PROVE HandInv
    OBVIOUS
  <2>1. pc = "down"
    BY DEF Init
  <2>2. \A g \in Groups : \A k \in Slots(g) : ~Owed(g, k)
    BY <2>1 DEF Owed, Claiming, Serving, Between, Restoring
  <2>3. \A d \in Devices : Home(d)
    BY DEF Init, Home
  <2>4. QED
    BY <2>1, <2>2, <2>3
       DEF HandInv, DebtInv, CountInv, Claiming, Serving, Between, Restoring
<1>2. TypeOK /\ HandInv /\ [Next]_vars => HandInv'
  BY HandStep
<1>3. HandInv => HandsBack
  BY DEF HandInv, DebtInv, HandsBack, Owed, Home, Claiming, Serving, Between, Restoring
<1>4. QED
  BY <1>1, <1>2, <1>3, TypeCorrect, PTL DEF Spec
================================================================================
