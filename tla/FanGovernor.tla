------------------------------ MODULE FanGovernor ------------------------------
(***************************************************************************)
(* fan-governor.py: one daemon process, the NVML fans and hwmon channels   *)
(* it drives, and systemd around it.  Each step is one device access, so   *)
(* that a signal, a crash or an operator can fall between any two of them. *)
(*                                                                         *)
(* A group is its index in config.groups and a target object its index in  *)
(* the group's targets; gi and ki are the indices of the loops in init(),  *)
(* tick() and restore().  As in GpuGovernor, pc names the call site and    *)
(* MayFail lists the sites whose access may raise.                         *)
(***************************************************************************)
EXTENDS Integers, Sequences, FanCurve

CONSTANTS
  Devices,               \* NVML fans and hwmon channels
  Hwmon,                 \* those that are hwmon channels
  Targets,               \* per group, the devices of its target objects
  Source,                \* per group, gpu_core, gpu_vram or gpu_max
  Curve, MinPwm,         \* per group
  MinPwmStep, MinStateSeconds, PollInterval,
  EmergencyTemp, EmergencyExit, ZeroRpmGap,
  Heartbeat,             \* HEARTBEAT_INTERVAL_S
  CoreTemps, VramTemps,  \* what the two sensors can report
  FirmwareModes,         \* the values of pwmN_enable a BIOS leaves
  MayFail, OperatorAt, Crashes

Groups == 1..Len(Targets)

\* Config.validate.  A "*" that stands for no fan at all is left out.
Validated ==
  /\ Len(Targets) >= 1
  /\ \A g \in Groups :
       /\ Len(Targets[g]) >= 1
       /\ Source[g] \in {"gpu_core", "gpu_vram", "gpu_max"}
       /\ ValidCurve(Curve[g])
       /\ MinPwm[g] \in 0..100
  /\ EmergencyTemp \in Int /\ EmergencyExit \in Int
  /\ EmergencyExit < EmergencyTemp
  /\ PollInterval \in Nat /\ PollInterval >= 1
  /\ ZeroRpmGap \in Nat

\* main() leaves with 2 unless the configuration is valid, and init() fails
\* unless resolve_targets finds the devices.
ASSUME ConfigValid ==
  /\ Hwmon \subseteq Devices
  /\ Targets \in Seq(Seq(Devices))
  /\ Validated

\* What the sensors report, and the values for which the saturating ages
\* are exact: a non-positive min_state_seconds behaves as 0.
ASSUME Domains ==
  /\ MinPwmStep \in Int /\ MinStateSeconds \in Nat /\ Heartbeat \in Nat
  /\ CoreTemps \subseteq Nat /\ VramTemps \subseteq Nat
  /\ {"manual", "unread"} \cap FirmwareModes = {} /\ "auto" \in FirmwareModes
  /\ Crashes \in BOOLEAN

NoReading == -1   \* Optional[float] of GpuTempSource.read
NoPwm     == -1   \* last_pwm before the first apply
Unread    == "unread"   \* _original_enable before a successful read

VARIABLES
  pc, running, fatal,   \* as in GpuGovernor
  gi, ki,               \* loop indices: group, target object
  claimed,              \* len(self.states)
  original,             \* _original_enable of each target object
  last_pwm, since,      \* per group: last_pwm; seconds since last_apply_t,
                        \* counted up to MinStateSeconds
  in_emergency, fans_stopped,
  want,                 \* the pwm being applied
  beat,                 \* seconds since _last_heartbeat, up to Heartbeat
  slept,
  hw,                   \* per device: mode and level registers
  seen,                 \* history: per group, the last temperature decided on
  firmware              \* history: the modes the BIOS left

groupVars == <<last_pwm, since, in_emergency, fans_stopped, seen>>
procVars  == <<running, fatal, claimed, original, beat, slept>>
proc      == <<pc, gi, ki, want, procVars, groupVars>>
vars      == <<proc, hw, firmware>>

Alive == {"nvml_init", "resolve", "claim_read", "claim_write", "loop", "group",
          "apply", "sleep", "restore", "restore_mode", "nvml_shutdown"}
Gone  == {"down", "restart"}

Device == Targets[gi][ki]
Modes  == {"manual"} \cup FirmwareModes
Fail(site) == site \in MayFail

--------------------------------------------------------------------------------
(* The process *)

Fresh(p) ==
  /\ pc' = p
  /\ running' = TRUE /\ fatal' = FALSE
  /\ gi' = 1 /\ ki' = 1
  /\ claimed' = 0
  /\ original' = [g \in Groups |-> [k \in 1..Len(Targets[g]) |-> Unread]]
  /\ last_pwm' = [g \in Groups |-> NoPwm]
  /\ since' = [g \in Groups |-> 0]
  /\ in_emergency' = [g \in Groups |-> FALSE]
  /\ fans_stopped' = [g \in Groups |-> FALSE]
  /\ seen' = [g \in Groups |-> NoReading]
  /\ want' = 0
  /\ beat' \in 0..Heartbeat   \* _last_heartbeat = 0.0: the uptime decides
  /\ slept' = 0

Init ==
  /\ pc = "down"
  /\ running = TRUE /\ fatal = FALSE
  /\ gi = 1 /\ ki = 1
  /\ claimed = 0
  /\ original = [g \in Groups |-> [k \in 1..Len(Targets[g]) |-> Unread]]
  /\ last_pwm = [g \in Groups |-> NoPwm]
  /\ since = [g \in Groups |-> 0]
  /\ in_emergency = [g \in Groups |-> FALSE]
  /\ fans_stopped = [g \in Groups |-> FALSE]
  /\ seen = [g \in Groups |-> NoReading]
  /\ want = 0
  /\ beat \in 0..Heartbeat
  /\ slept = 0
  /\ firmware \in [Hwmon -> FirmwareModes]
  /\ hw = [d \in Devices |->
             [mode |-> IF d \in Hwmon THEN firmware[d] ELSE "auto", level |-> 0]]

Launch ==
  /\ pc \in Gone
  /\ Fresh("nvml_init")
  /\ UNCHANGED <<hw, firmware>>

FailedExit == IF running THEN {"restart"} ELSE {"restart", "down"}

Crash ==
  /\ Crashes
  /\ pc \in Alive
  /\ \E p \in FailedExit : Fresh(p)
  /\ UNCHANGED <<hw, firmware>>

Signal ==
  /\ pc \in Alive
  /\ running
  /\ running' = FALSE
  /\ UNCHANGED <<pc, fatal, gi, ki, claimed, original, groupVars, want, beat,
                 slept, hw, firmware>>

\* The operator or another program sets a channel: echo 2 > pwmN_enable.
Operator ==
  /\ pc \in OperatorAt
  /\ \E d \in Hwmon : hw' = [hw EXCEPT ![d].mode = "auto"]
  /\ UNCHANGED <<proc, firmware>>

--------------------------------------------------------------------------------
(* init() *)

NvmlInit ==
  /\ pc = "nvml_init"
  /\ \/ /\ pc' = "resolve" /\ UNCHANGED fatal
     \/ /\ Fail("nvml_init")
        /\ pc' = "nvml_shutdown" /\ fatal' = TRUE
  /\ UNCHANGED <<running, gi, ki, claimed, original, groupVars, want, beat,
                 slept, hw, firmware>>

\* An exception inside init(): main() returns 1 after shutdown(), which
\* restores the groups appended to self.states so far.
Abandon ==
  /\ fatal' = TRUE
  /\ gi' = 1 /\ ki' = 1
  /\ pc' = IF claimed = 0 THEN "nvml_shutdown" ELSE "restore"

Resolve ==
  /\ pc = "resolve"
  /\ \/ /\ pc' = "claim_read"
        /\ UNCHANGED <<fatal, gi, ki>>
     \/ Fail("resolve") /\ Abandon
  /\ UNCHANGED <<running, claimed, original, groupVars, want, beat, slept,
                 hw, firmware>>

\* The object at <<gi, ki>> is claimed, or is an NVML fan: go on to the next,
\* append the group after its last one, enter the loop after the last group.
NextClaim ==
  \/ /\ ki < Len(Targets[gi])
     /\ ki' = ki + 1 /\ pc' = "claim_read"
     /\ UNCHANGED <<gi, claimed>>
  \/ /\ ki = Len(Targets[gi])
     /\ ki' = 1 /\ claimed' = gi
     /\ IF gi < Len(Targets)
        THEN gi' = gi + 1 /\ pc' = "resolve"
        ELSE gi' = 1 /\ pc' = "loop"

ClaimRead ==
  /\ pc = "claim_read"
  /\ \/ /\ Device \in Hwmon
        /\ \/ original' = [original EXCEPT ![gi][ki] = hw[Device].mode]
           \/ Fail("claim_read") /\ UNCHANGED original
        /\ pc' = "claim_write"
        /\ UNCHANGED <<gi, ki, claimed>>
     \/ /\ Device \notin Hwmon
        /\ NextClaim
        /\ UNCHANGED original
  /\ UNCHANGED <<running, fatal, groupVars, want, beat, slept, hw, firmware>>

ClaimWrite ==
  /\ pc = "claim_write"
  /\ \/ /\ hw' = [hw EXCEPT ![Device].mode = "manual"]
        /\ NextClaim
        /\ UNCHANGED fatal
     \/ /\ Fail("claim_write") /\ Abandon
        /\ UNCHANGED <<claimed, hw>>
  /\ UNCHANGED <<running, original, groupVars, want, beat, slept, firmware>>

Startup == NvmlInit \/ Resolve \/ ClaimRead \/ ClaimWrite

--------------------------------------------------------------------------------
(* GpuTempSource.read and _decide_pwm *)

Max2(a, b) == IF a >= b THEN a ELSE b

Lost(site) == IF Fail(site) THEN {NoReading} ELSE {}

\* What read(source) can return for group g.  core() raises when it fails;
\* vram() does not, and gpu_max then goes by the core alone.
Reads(g) ==
  CASE Source[g] = "gpu_core" -> CoreTemps \cup Lost("core")
    [] Source[g] = "gpu_vram" -> VramTemps \cup Lost("vram")
    [] Source[g] = "gpu_max"  ->
         {Max2(c, v) : c \in CoreTemps, v \in VramTemps}
         \cup (IF Fail("vram") THEN CoreTemps ELSE {})
         \cup Lost("core")

\* Mutant of EmergencyAfter: one threshold instead of two.
EmergencyUnlatched(g, t) == t >= EmergencyTemp

EmergencyAfter(g, t) ==
  \/ t >= EmergencyTemp
  \/ in_emergency[g] /\ t >= EmergencyExit

RawPwm(g, t) == Max2(MinPwm[g], interpolate(Curve[g], t))

\* Zero-RPM applies to a curve that starts at 0 %.
ZeroRpm(g)   == ZeroRpmGap > 0 /\ PctAt(Curve[g], 1) = 0
ZeroStop(g)  == TempAt(Curve[g], 1)
HeldOff(g, t) == ZeroRpm(g) /\ fans_stopped[g] /\ t < ZeroStop(g) + ZeroRpmGap

\* Mutant of StoppedAfter: the curve is consulted without the floor.
StoppedBelowFloor(g, t) ==
  /\ ~EmergencyAfter(g, t)
  /\ \/ HeldOff(g, t)
     \/ ZeroRpm(g) /\ ~fans_stopped[g] /\ interpolate(Curve[g], t) = 0
     \/ ~ZeroRpm(g) /\ fans_stopped[g]

\* Mutant of StoppedAfter: the gap is not waited for.
StoppedWithoutGap(g, t) ==
  ~EmergencyAfter(g, t) /\ ZeroRpm(g) /\ RawPwm(g, t) = 0

StoppedAfter(g, t) ==
  /\ ~EmergencyAfter(g, t)
  /\ \/ HeldOff(g, t)
     \/ ZeroRpm(g) /\ ~fans_stopped[g] /\ RawPwm(g, t) = 0
     \/ ~ZeroRpm(g) /\ fans_stopped[g]

\* _decide_pwm's result.
Decided(g, t) ==
  IF EmergencyAfter(g, t) THEN 100
  ELSE IF HeldOff(g, t) THEN 0 ELSE RawPwm(g, t)

--------------------------------------------------------------------------------
(* tick() and _apply_group *)

\* delta < min_pwm_step, for the distance either way.
Near(g, pwm) ==
  pwm - last_pwm[g] < MinPwmStep /\ last_pwm[g] - pwm < MinPwmStep

\* Mutant of TooSoon: a small change is skipped however old the last write.
TooSmall(g, pwm) == last_pwm[g] # NoPwm /\ Near(g, pwm)

\* Mutant of TooSoon: any change is skipped soon after the last write.
TooSoonForAny(g, pwm) == last_pwm[g] # NoPwm /\ since[g] < MinStateSeconds

\* The rate limit: a small change, too soon after the last write.
TooSoon(g, pwm) ==
  last_pwm[g] # NoPwm /\ Near(g, pwm) /\ since[g] < MinStateSeconds

\* Mutant of NextGroup: one turn too many.
NextGroupPastEnd ==
  /\ IF gi <= Len(Targets) THEN gi' = gi + 1 /\ pc' = "group"
                           ELSE gi' = 1 /\ pc' = "sleep"
  /\ ki' = 1

NextGroup ==
  /\ IF gi < Len(Targets) THEN gi' = gi + 1 /\ pc' = "group"
                          ELSE gi' = 1 /\ pc' = "sleep"
  /\ ki' = 1

\* Mutant of Loop: while True instead of while self._running.
LoopForever ==
  /\ pc = "loop"
  /\ pc' = "group" /\ beat' = 0
  /\ UNCHANGED <<running, fatal, gi, ki, claimed, original, groupVars, want,
                 slept, hw, firmware>>

\* The while of run() and the heartbeat of tick(), whose failing core() ends
\* the tick before any group is served.
Loop ==
  /\ pc = "loop"
  /\ \/ ~running /\ pc' = "restore" /\ UNCHANGED beat
     \/ /\ running /\ beat < Heartbeat
        /\ pc' = "group" /\ UNCHANGED beat
     \/ /\ running /\ beat = Heartbeat
        /\ pc' = "group" /\ beat' = 0
     \/ /\ running /\ beat = Heartbeat /\ Fail("core")
        /\ pc' = "sleep" /\ UNCHANGED beat
  /\ UNCHANGED <<running, fatal, gi, ki, claimed, original, groupVars, want, slept,
                 hw, firmware>>

\* An unavailable source: the group keeps what it has.
SkipGroup ==
  /\ pc = "group"
  /\ NoReading \in Reads(gi)
  /\ NextGroup
  /\ UNCHANGED <<procVars, groupVars, want, hw, firmware>>

DecideGroup ==
  /\ pc = "group"
  /\ \E t \in Reads(gi) \ {NoReading} :
       /\ seen' = [seen EXCEPT ![gi] = t]
       /\ in_emergency' = [in_emergency EXCEPT ![gi] = EmergencyAfter(gi, t)]
       /\ fans_stopped' = [fans_stopped EXCEPT ![gi] = StoppedAfter(gi, t)]
       /\ \/ TooSoon(gi, Decided(gi, t)) /\ NextGroup /\ UNCHANGED want
          \/ /\ ~TooSoon(gi, Decided(gi, t))
             /\ want' = Decided(gi, t)
             /\ pc' = "apply" /\ UNCHANGED <<gi, ki>>
  /\ UNCHANGED <<procVars, last_pwm, since, hw, firmware>>

\* Mutant of FanWritten: an NVML fan is told 0 % like any other speed.
FanWrittenLiterally(d, pwm) == [mode |-> "manual", level |-> pwm]

\* NVMLFan.apply: 0 % hands the fan to the firmware.
FanWritten(d, pwm) ==
  IF pwm = 0 THEN [hw[d] EXCEPT !.mode = "auto"]
  ELSE [mode |-> "manual", level |-> pwm]

\* HwmonPwm.apply
PwmWritten(d, pwm) == [hw[d] EXCEPT !.level = RawOf(pwm)]

\* Target.apply: the registers of d after writing pwm.
Written(d, pwm) == IF d \in Hwmon THEN PwmWritten(d, pwm) ELSE FanWritten(d, pwm)

\* One t.apply(pwm); after the last, whatever failed, last_pwm and
\* last_apply_t are set.
Apply ==
  /\ pc = "apply"
  /\ \/ hw' = [hw EXCEPT ![Device] = Written(Device, want)]
     \/ Fail("apply") /\ UNCHANGED hw
  /\ IF ki < Len(Targets[gi])
     THEN /\ ki' = ki + 1
          /\ UNCHANGED <<pc, gi, last_pwm, since, want>>
     ELSE /\ last_pwm' = [last_pwm EXCEPT ![gi] = want]
          /\ since' = [since EXCEPT ![gi] = 0]
          /\ want' = 0
          /\ NextGroup
  /\ UNCHANGED <<procVars, in_emergency, fans_stopped, seen, firmware>>

--------------------------------------------------------------------------------
(* run() between two ticks, and shutdown() *)

Older(age, limit) == IF age < limit THEN age + 1 ELSE age

\* A second passes.  Only times between ticks are ever compared, so a slow
\* call inside a tick is a longer pause here.
Second ==
  /\ since' = [g \in Groups |-> IF last_pwm[g] = NoPwm THEN 0
                                ELSE Older(since[g], MinStateSeconds)]
  /\ beat' = Older(beat, Heartbeat)

KeepSleeping == running /\ slept < PollInterval

SleepChunk ==
  /\ pc = "sleep"
  /\ KeepSleeping
  /\ slept' = slept + 1
  /\ Second
  /\ UNCHANGED <<pc, running, fatal, gi, ki, claimed, original, last_pwm,
                 in_emergency, fans_stopped, seen, want, hw, firmware>>

Elapse ==
  /\ pc = "sleep"
  /\ Second
  /\ UNCHANGED <<pc, running, fatal, gi, ki, claimed, original, last_pwm, slept,
                 in_emergency, fans_stopped, seen, want, hw, firmware>>

Wake ==
  /\ pc = "sleep"
  /\ ~KeepSleeping
  /\ slept' = 0
  /\ pc' = "loop"
  /\ UNCHANGED <<running, fatal, gi, ki, claimed, original, groupVars, want,
                 beat, hw, firmware>>

\* restore() goes through the targets of self.states.
NextRestore ==
  \/ /\ ki < Len(Targets[gi])
     /\ ki' = ki + 1 /\ pc' = "restore" /\ UNCHANGED gi
  \/ /\ ki = Len(Targets[gi]) /\ gi < claimed
     /\ ki' = 1 /\ gi' = gi + 1 /\ pc' = "restore"
  \/ /\ ki = Len(Targets[gi]) /\ gi >= claimed
     /\ ki' = 1 /\ gi' = 1 /\ pc' = "nvml_shutdown"

\* NVMLFan.restore
RestoreFan ==
  /\ pc = "restore" /\ Device \notin Hwmon
  /\ \/ hw' = [hw EXCEPT ![Device].mode = "auto"]
     \/ Fail("restore") /\ UNCHANGED hw
  /\ NextRestore
  /\ UNCHANGED <<procVars, groupVars, want, firmware>>

\* HwmonPwm.restore writes 76 of 255 first ...
RestorePwm ==
  /\ pc = "restore" /\ Device \in Hwmon
  /\ \/ hw' = [hw EXCEPT ![Device].level = 76]
     \/ Fail("restore_pwm") /\ UNCHANGED hw
  /\ pc' = "restore_mode"
  /\ UNCHANGED <<gi, ki, procVars, groupVars, want, firmware>>

\* Mutant of OriginalMode: mode 2 for every channel.
AlwaysAuto == "auto"

\* The enable value HwmonPwm.restore writes; "2" when none was read.
OriginalMode == IF original[gi][ki] # Unread THEN original[gi][ki] ELSE "auto"

\* ... and the mode after that, whether or not the first write failed.
RestoreMode ==
  /\ pc = "restore_mode"
  /\ \/ hw' = [hw EXCEPT ![Device].mode = OriginalMode]
     \/ Fail("restore_mode") /\ UNCHANGED hw
  /\ NextRestore
  /\ UNCHANGED <<procVars, groupVars, want, firmware>>

Exit ==
  /\ pc = "nvml_shutdown"
  /\ \E p \in (IF fatal THEN FailedExit ELSE {"down"}) : Fresh(p)
  /\ UNCHANGED <<hw, firmware>>

Tick   == SkipGroup \/ DecideGroup \/ Apply
Daemon == \/ Startup \/ Loop \/ Tick \/ SleepChunk \/ Wake
          \/ RestoreFan \/ RestorePwm \/ RestoreMode \/ Exit
Next   == Launch \/ Crash \/ Signal \/ Elapse \/ Operator \/ Daemon

Spec == Init /\ [][Next]_vars

\* As for GpuGovernor: the process is scheduled and systemd restarts a failed
\* unit; nothing is assumed of the sensors, the operator or the signals.
Fairness == WF_vars(Daemon) /\ WF_vars(pc = "restart" /\ Launch)
FairSpec == Spec /\ Fairness

--------------------------------------------------------------------------------
(* Properties *)

TypeOK ==
  /\ pc \in Alive \cup Gone
  /\ running \in BOOLEAN /\ fatal \in BOOLEAN
  /\ gi \in Groups /\ ki \in 1..Len(Targets[gi])
  /\ claimed \in 0..Len(Targets)
  /\ DOMAIN original = Groups
  /\ \A g \in Groups : original[g] \in [1..Len(Targets[g]) -> Modes \cup {Unread}]
  /\ last_pwm \in [Groups -> 0..100 \cup {NoPwm}]
  /\ since \in [Groups -> 0..MinStateSeconds]
  /\ in_emergency \in [Groups -> BOOLEAN]
  /\ fans_stopped \in [Groups -> BOOLEAN]
  /\ seen \in [Groups -> CoreTemps \cup VramTemps \cup {NoReading}]
  /\ want \in 0..100
  /\ beat \in 0..Heartbeat
  /\ slept \in 0..PollInterval
  /\ hw \in [Devices -> [mode : Modes, level : 0..255]]
  /\ firmware \in [Hwmon -> FirmwareModes]

\* r are the registers of a device d told to run at pwm.
Follows(r, d, pwm) ==
  IF d \in Hwmon THEN r.mode = "manual" /\ r.level = RawOf(pwm)
  ELSE IF pwm = 0 THEN r.mode = "auto"
  ELSE r.mode = "manual" /\ r.level = pwm

\* With writes that succeed and no device in two groups, every fan runs at
\* the last_pwm of its group whenever no write is in progress, also after a
\* crash left channels claimed: last_pwm, which decides what is skipped, is
\* never wrong about the hardware.
Commanded ==
  pc \in {"loop", "group", "sleep"} =>
    \A g \in Groups : last_pwm[g] # NoPwm =>
      \A d \in Range(Targets[g]) : Follows(hw[d], d, last_pwm[g])

\* min_pwm is a floor although the zero-RPM hold returns 0 past it: a group
\* with a floor is never marked stopped (README: min_pwm keeps fans spinning).
FloorHeld ==
  \A g \in Groups : last_pwm[g] # NoPwm => last_pwm[g] >= MinPwm[g]

\* A group in emergency is within the rate limit's step of 100 %: neither
\* the limit nor an earlier write holds it back further.
EmergencyCools ==
  pc = "sleep" =>
    \A g \in Groups : in_emergency[g] =>
      last_pwm[g] # NoPwm /\ last_pwm[g] >= 100 - Max2(MinPwmStep - 1, 0)

\* On every exit, after a failed init() too, each channel is back in the
\* mode the BIOS left it in and each NVML fan under firmware control.
HandsBack ==
  pc = "nvml_shutdown" =>
    \A d \in Devices :
      hw[d].mode = IF d \in Hwmon THEN firmware[d] ELSE "auto"

\* The emergency flag of every group is a relay between emergency_exit and
\* emergency_temp, whichever source it goes by and whatever else the group
\* decides.
Latch == INSTANCE Relay WITH
           Ids <- Groups, StartsOn <- FALSE,
           Hi <- [g \in Groups |-> EmergencyTemp],
           Lo <- [g \in Groups |-> EmergencyExit],
           Readings <- CoreTemps \cup VramTemps,
           on <- in_emergency, reading <- seen
EmergencyLatch == Latch!Safe

\* The groups that may stop their fans, and the hottest point of the curve
\* that still asks for 0 %.
StoppingGroups == {g \in Groups : ZeroRpm(g) /\ MinPwm[g] = 0}
ZeroPoint(g) ==
  TempAt(Curve[g], Max({i \in 1..Len(Curve[g]) :
                          \A j \in 1..i : PctAt(Curve[g], j) = 0}))

\* README, zero_rpm_gap_c: fans stop at the curve's zero-point and stay off
\* until the temperature is the gap above it, so they cannot start and stop
\* around one threshold.  The emergency in between does not break it.
Zero == INSTANCE Relay WITH
          Ids <- StoppingGroups, StartsOn <- TRUE,
          Hi <- [g \in StoppingGroups |-> ZeroPoint(g) + ZeroRpmGap],
          Lo <- [g \in StoppingGroups |-> ZeroPoint(g) + 1],
          Readings <- CoreTemps \cup VramTemps,
          on <- [g \in StoppingGroups |-> ~fans_stopped[g]],
          reading <- [g \in StoppingGroups |-> seen[g]]
ZeroRpmRelay == Zero!Safe

\* The same promise told of the fan: once stopped, it is started only at the
\* gap above the zero-point or by an emergency.
StaysStopped ==
  [][\A g \in StoppingGroups :
       last_pwm[g] = 0 /\ last_pwm'[g] > 0 =>
         in_emergency'[g] \/ seen'[g] >= ZeroPoint(g) + ZeroRpmGap]_vars

\* A signal at any access ends the process, through restore or by a crash.
StopTerminates == (pc \in Alive /\ ~running) ~> (pc \in Gone)

\* What a group that has settled on its last reading runs at.
SteadyPwm(g) == IF in_emergency[g] THEN 100
                ELSE IF fans_stopped[g] THEN 0 ELSE RawPwm(g, seen[g])

\* Once the temperature of a group that keeps being read stops changing, its
\* pwm becomes exactly what the curve asks for: the rate limit delays the
\* last small step and does not lose it.
FanSettles ==
  \A g \in Groups :
    (/\ []<><<DecideGroup /\ gi = g>>_vars
     /\ <>[](pc \in Alive)
     /\ <>[][seen'[g] = seen[g]]_vars)
    => <>[](last_pwm[g] = SteadyPwm(g))

\* d is told to run at pwm; the mode of a channel may be another's doing.
Driven(d, pwm) ==
  IF d \in Hwmon THEN hw[d].level = RawOf(pwm) ELSE Follows(hw[d], d, pwm)

\* "If pwm hasn't changed but min_state_seconds has passed, refresh anyway":
\* a write that failed, with last_pwm set as if it had not, is made good once
\* writes succeed again, at whatever pwm the group asks for by then.
RefreshRepairs ==
  \A g \in Groups :
    (/\ []<><<DecideGroup /\ gi = g>>_vars
     /\ <>[](pc \in Alive)
     /\ <>[][Apply => hw'[Device] = Written(Device, want)]_vars)
    => <>[](pc = "sleep" => \A d \in Range(Targets[g]) : Driven(d, last_pwm[g]))
================================================================================
