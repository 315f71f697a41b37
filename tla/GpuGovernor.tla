------------------------------ MODULE GpuGovernor ------------------------------
(***************************************************************************)
(* gpu-governor.py: one daemon process, the NVML driver state it writes,   *)
(* and systemd around it.  Each step is one NVML call or one turn of the   *)
(* main loop, so that a signal, a crash, or an operator's nvidia-smi can   *)
(* fall between any two calls of a handler.                                *)
(*                                                                         *)
(* pc names the next thing the process does.  The pc of an NVML call is    *)
(* also the name of that call site: the constant MayFail lists the sites   *)
(* whose call may raise NVMLError.  A failed call leaves the driver as it  *)
(* was.  Watts and megahertz are abstracted to who set the value.          *)
(***************************************************************************)
EXTENDS Integers, Sequences, SequencesExt

CONSTANTS
  TempEnter, TempExit,   \* TEMP_ENTER, TEMP_EXIT
  UtilHigh, UtilLow,     \* UTIL_HIGH, UTIL_LOW
  UtilWindow,            \* UTIL_WINDOW, the length of the rolling window
  StateMin,              \* STATE_MIN_SECONDS
  PollInterval,          \* POLL_INTERVAL, in one-second sleep chunks
  Temps, Utils,          \* the values the two NVML reads can return
  MayFail,               \* call sites (values of pc) where NVML may fail
  OperatorAt,            \* values of pc at which nvidia-smi may be run by hand
  Crashes                \* whether the process may be killed (SIGKILL, OOM)

\* Config.validate.  The bounds of the locked clock stand for one setting.
Validated ==
  /\ UtilLow \in Int /\ UtilHigh \in Int /\ UtilLow < UtilHigh
  /\ TempEnter \in Int /\ TempExit \in Int /\ TempExit < TempEnter
  /\ PollInterval \in Nat /\ PollInterval >= 1
  /\ UtilWindow \in Nat /\ UtilWindow >= 1

\* main() leaves with 2 otherwise.
ASSUME ConfigValid == Validated

\* What NVML reports, and the values for which the saturating age counter
\* is exact: a non-positive STATE_MIN_SECONDS behaves as 0.
ASSUME Domains ==
  /\ StateMin \in Nat
  /\ Temps \subseteq Nat /\ Utils \subseteq Nat
  /\ Crashes \in BOOLEAN

IDLE    == "IDLE"
COMPUTE == "COMPUTE"
THERMAL == "THERMAL"
States  == {IDLE, COMPUTE, THERMAL}

NoTemp == -1   \* no reading since the process started

VARIABLES
  pc,                  \* the next call or loop step of the process
  running,             \* self._running, cleared by SIGTERM / SIGINT
  fatal,               \* init() raised, main() will return 1
  state,               \* self.state
  age,                 \* _time_in_state(), counted up to StateMin
  util_window,         \* self.util_window
  temp,                \* the temperature of the last successful read
  slept,               \* chunks slept since the tick
  default_known,       \* self.default_pl_mw is not None
  use_locked_clocks,   \* "unknown" (None), "supported", "unsupported"
  clock_locked,        \* self.clock_locked
  gpu                  \* the driver: power limit, clock lock, app clocks,
                       \* persistence mode

proc == <<pc, running, fatal, state, age, util_window, temp, slept,
          default_known, use_locked_clocks, clock_locked>>
vars == <<proc, gpu>>

\* The variables a call of one of the handlers leaves alone.
loopVars   == <<running, fatal, util_window, temp, slept, default_known>>
policyVars == <<state, age>>
lockVars   == <<use_locked_clocks, clock_locked>>

InitSites    == {"nvml_init", "read_default", "persistence",
                 "clean_clocks", "clean_apps", "clean_power"}
HandlerSites == {"compute_cap", "compute_lock", "idle_unlock", "idle_power",
                 "thermal_cap", "thermal_unlock"}
ExitSites    == {"restore_unlock", "restore_power", "nvml_shutdown"}
Sites        == InitSites \cup {"read"} \cup HandlerSites \cup ExitSites
Alive        == Sites \cup {"loop", "sleep"}
Gone         == {"down", "restart"}   \* stopped; or waiting for RestartSec

Settings == [pl      : {"default", "compute", "thermal", "manual"},
             lock    : {"free", "governor", "manual"},
             app     : {"default", "manual"},
             persist : BOOLEAN]

--------------------------------------------------------------------------------
(* The process: __init__, and what is left of it when it is gone. *)

Fresh(p) ==
  /\ pc' = p
  /\ running' = TRUE
  /\ fatal' = FALSE
  /\ state' = IDLE
  /\ age' = 0
  /\ util_window' = <<>>
  /\ temp' = NoTemp
  /\ slept' = 0
  /\ default_known' = FALSE
  /\ use_locked_clocks' = "unknown"
  /\ clock_locked' = FALSE

\* Anything nvidia-smi or an earlier program may have left in the driver.
Init ==
  /\ pc = "down"
  /\ running = TRUE /\ fatal = FALSE
  /\ state = IDLE /\ age = 0
  /\ util_window = <<>> /\ temp = NoTemp /\ slept = 0
  /\ default_known = FALSE
  /\ use_locked_clocks = "unknown" /\ clock_locked = FALSE
  /\ gpu \in [pl : {"default", "manual"}, lock : {"free", "manual"},
              app : {"default", "manual"}, persist : BOOLEAN]

\* systemctl start, or the restart of a failed unit after RestartSec.
Launch ==
  /\ pc \in Gone
  /\ Fresh("nvml_init")
  /\ UNCHANGED gpu

\* Once a stop was asked for, systemd may or may not be the one who asked,
\* so a failing exit may or may not be followed by a restart.
FailedExit == IF running THEN {"restart"} ELSE {"restart", "down"}

\* SIGKILL: the process state is lost, the driver keeps what was set.
Crash ==
  /\ Crashes
  /\ pc \in Alive
  /\ \E p \in FailedExit : Fresh(p)
  /\ UNCHANGED gpu

\* SIGTERM or SIGINT: the Python handler only clears the flag.
Signal ==
  /\ pc \in Alive
  /\ running
  /\ running' = FALSE
  /\ UNCHANGED <<pc, fatal, util_window, temp, slept, default_known,
                 policyVars, lockVars, gpu>>

\* A second of monotonic time passes while a call is in progress.
Elapse ==
  /\ pc \in Alive \ {"sleep"}
  /\ age < StateMin
  /\ age' = age + 1
  /\ UNCHANGED <<pc, state, loopVars, lockVars, gpu>>

\* The operator runs nvidia-smi -pl, -lgc or -ac.
Operator ==
  /\ pc \in OperatorAt
  /\ gpu' \in {[gpu EXCEPT !.pl = "manual"], [gpu EXCEPT !.lock = "manual"],
               [gpu EXCEPT !.app = "manual"]}
  /\ UNCHANGED proc

--------------------------------------------------------------------------------
(* NVML calls. *)

\* The driver after the call at pc that would leave it as g.
Call(g) == {g} \cup (IF pc \in MayFail THEN {gpu} ELSE {})

\* _set_power_limit: an error is logged, nothing else.
SetPowerLimit(limit) ==
  /\ gpu' \in Call([gpu EXCEPT !.pl = limit])
  /\ UNCHANGED lockVars

\* _restore_power_limit: nothing to do when the default was never read.
RestorePowerLimit ==
  /\ IF default_known
     THEN gpu' \in Call([gpu EXCEPT !.pl = "default"])
     ELSE UNCHANGED gpu
  /\ UNCHANGED lockVars

\* Mutant of LockClock: the lock is set and not remembered.
LockClockForgets ==
  /\ gpu' = [gpu EXCEPT !.lock = "governor"]
  /\ use_locked_clocks' = "supported"
  /\ UNCHANGED clock_locked

\* _lock_clock: a failure of the first call ever is taken to mean that the
\* driver cannot lock clocks, and no later call is made.
LockClock ==
  \/ /\ use_locked_clocks = "unsupported"
     /\ UNCHANGED <<lockVars, gpu>>
  \/ /\ use_locked_clocks # "unsupported"
     /\ gpu' = [gpu EXCEPT !.lock = "governor"]
     /\ use_locked_clocks' = "supported"
     /\ clock_locked' = TRUE
  \/ /\ use_locked_clocks # "unsupported"
     /\ pc \in MayFail
     /\ use_locked_clocks' = IF use_locked_clocks = "unknown"
                             THEN "unsupported" ELSE use_locked_clocks
     /\ UNCHANGED <<clock_locked, gpu>>

\* _unlock_clock: the finally clause clears the flag even if the call failed.
NeedsUnlock == clock_locked /\ use_locked_clocks = "supported"

UnlockClock ==
  /\ IF NeedsUnlock
     THEN /\ gpu' \in Call([gpu EXCEPT !.lock = "free"])
          /\ clock_locked' = FALSE
     ELSE UNCHANGED <<clock_locked, gpu>>
  /\ UNCHANGED use_locked_clocks

\* Mutant of Transition: state_since is not taken anew.
TransitionKeepsAge(new) == state' = new /\ UNCHANGED age

\* _transition, reached after the last call of a handler.
Transition(new) ==
  /\ state' = new
  /\ age' = IF new = state THEN age ELSE 0

--------------------------------------------------------------------------------
(* init() *)

\* nvmlInit and the handle look-up: the only calls whose error is not caught.
NvmlInit ==
  /\ pc = "nvml_init"
  /\ \/ /\ pc' = "read_default" /\ UNCHANGED fatal
     \/ /\ pc \in MayFail
        /\ pc' = "restore_unlock" /\ fatal' = TRUE
  /\ UNCHANGED <<running, util_window, temp, slept, default_known,
                 policyVars, lockVars, gpu>>

ReadDefault ==
  /\ pc = "read_default"
  /\ default_known' \in {TRUE} \cup (IF pc \in MayFail THEN {FALSE} ELSE {})
  /\ pc' = "persistence"
  /\ UNCHANGED <<running, fatal, util_window, temp, slept,
                 policyVars, lockVars, gpu>>

Persistence ==
  /\ pc = "persistence"
  /\ gpu' \in Call([gpu EXCEPT !.persist = TRUE])
  /\ pc' = "clean_clocks"
  /\ UNCHANGED <<loopVars, policyVars, lockVars>>

\* _startup_clean: locked clocks, application clocks, power limit.
CleanClocks ==
  /\ pc = "clean_clocks"
  /\ gpu' \in Call([gpu EXCEPT !.lock = "free"])
  /\ pc' = "clean_apps"
  /\ UNCHANGED <<loopVars, policyVars, lockVars>>

CleanApps ==
  /\ pc = "clean_apps"
  /\ gpu' \in Call([gpu EXCEPT !.app = "default"])
  /\ pc' = "clean_power"
  /\ UNCHANGED <<loopVars, policyVars, lockVars>>

CleanPower ==
  /\ pc = "clean_power"
  /\ RestorePowerLimit
  /\ pc' = "loop"
  /\ UNCHANGED <<loopVars, policyVars>>

Startup == NvmlInit \/ ReadDefault \/ Persistence
             \/ CleanClocks \/ CleanApps \/ CleanPower

--------------------------------------------------------------------------------
(* tick() *)

\* Mutant of Push: a plain list in place of the bounded deque.
PushUnbounded(w, u) == Append(w, u)

\* deque(maxlen = util_window).append
Push(w, u) == IF Len(w) < UtilWindow THEN Append(w, u) ELSE Append(Tail(w), u)

Total(w) == FoldLeft(LAMBDA a, b : a + b, 0, w)
Busy(w)  == Total(w) >= UtilHigh * Len(w)
Quiet(w) == Total(w) <= UtilLow * Len(w)

Settled  == age >= StateMin

\* Mutant of LoadVerdict: the wrong threshold sends COMPUTE back to IDLE.
LoadVerdictOneThreshold(w) ==
  CASE Len(w) >= UtilWindow /\ Settled /\ Busy(w) /\ state # COMPUTE
         -> "compute_cap"
    [] Len(w) >= UtilWindow /\ Settled /\ Total(w) <= UtilHigh * Len(w)
         /\ state = COMPUTE
         -> "idle_unlock"
    [] OTHER -> "sleep"

\* Priority 3: the change the load asks for, "sleep" when it asks for none.
LoadVerdict(w) ==
  CASE Len(w) >= UtilWindow /\ Settled /\ Busy(w) /\ state # COMPUTE
         -> "compute_cap"
    [] Len(w) >= UtilWindow /\ Settled /\ Quiet(w) /\ state # IDLE
         -> "idle_unlock"
    [] OTHER -> "sleep"

\* Mutant of Verdict: thermal entry waits for the dwell like the others.
VerdictDebouncesHeat(t, w) ==
  CASE t >= TempEnter /\ state # THERMAL /\ Settled -> "thermal_cap"
    [] t < TempExit  /\ state = THERMAL /\ Settled -> "idle_unlock"
    [] t < TempEnter /\ state # THERMAL            -> LoadVerdict(w)
    [] OTHER                                       -> "sleep"

\* Mutant of Verdict: recovery also waits for the load to go away.
VerdictRecoversWhenQuiet(t, w) ==
  CASE t >= TempEnter /\ state # THERMAL           -> "thermal_cap"
    [] t < TempExit  /\ state = THERMAL /\ Settled /\ Quiet(w)
                                                   -> "idle_unlock"
    [] t < TempEnter /\ state # THERMAL            -> LoadVerdict(w)
    [] OTHER                                       -> "sleep"

\* The handler a tick runs after reading temperature t with window w: heat
\* first, then recovery, then the load; "sleep" stands for a plain return.
Verdict(t, w) ==
  CASE t >= TempEnter /\ state # THERMAL           -> "thermal_cap"
    [] t < TempExit  /\ state = THERMAL /\ Settled -> "idle_unlock"
    [] t < TempEnter /\ state # THERMAL            -> LoadVerdict(w)
    [] OTHER                                       -> "sleep"

\* Mutant of Loop: while True instead of while self._running.
LoopForever ==
  /\ pc = "loop"
  /\ pc' = "read"
  /\ UNCHANGED <<loopVars, policyVars, lockVars, gpu>>

Loop ==
  /\ pc = "loop"
  /\ pc' = IF running THEN "read" ELSE "restore_unlock"
  /\ UNCHANGED <<loopVars, policyVars, lockVars, gpu>>

Sample ==
  /\ pc = "read"
  /\ \E u \in Utils, t \in Temps :
       /\ util_window' = Push(util_window, u)
       /\ temp' = t
       /\ pc' = Verdict(t, util_window')
  /\ UNCHANGED <<running, fatal, slept, default_known,
                 policyVars, lockVars, gpu>>

ReadFails ==
  /\ pc = "read"
  /\ pc \in MayFail
  /\ pc' = "sleep"
  /\ UNCHANGED <<loopVars, policyVars, lockVars, gpu>>

EnterCompute ==
  \/ /\ pc = "compute_cap"
     /\ SetPowerLimit("compute")
     /\ pc' = "compute_lock"
     /\ UNCHANGED <<loopVars, policyVars>>
  \/ /\ pc = "compute_lock"
     /\ LockClock
     /\ Transition(COMPUTE)
     /\ pc' = "sleep"
     /\ UNCHANGED loopVars

EnterIdle ==
  \/ /\ pc = "idle_unlock"
     /\ UnlockClock
     /\ pc' = "idle_power"
     /\ UNCHANGED <<loopVars, policyVars>>
  \/ /\ pc = "idle_power"
     /\ RestorePowerLimit
     /\ Transition(IDLE)
     /\ pc' = "sleep"
     /\ UNCHANGED loopVars

\* Mutant of EnterThermal: the unlock is left to a later transition.
EnterThermalKeepsLock ==
  /\ pc = "thermal_cap"
  /\ SetPowerLimit("thermal")
  /\ Transition(THERMAL)
  /\ pc' = "sleep"
  /\ UNCHANGED loopVars

\* Mutant of EnterThermal: a failed power-limit call abandons the handler.
EnterThermalAborts ==
  \/ /\ pc = "thermal_cap"
     /\ SetPowerLimit("thermal")
     /\ pc' = IF gpu'.pl = "thermal" THEN "thermal_unlock" ELSE "sleep"
     /\ UNCHANGED <<loopVars, policyVars>>
  \/ /\ pc = "thermal_unlock"
     /\ UnlockClock
     /\ Transition(THERMAL)
     /\ pc' = "sleep"
     /\ UNCHANGED loopVars

EnterThermal ==
  \/ /\ pc = "thermal_cap"
     /\ SetPowerLimit("thermal")
     /\ pc' = "thermal_unlock"
     /\ UNCHANGED <<loopVars, policyVars>>
  \/ /\ pc = "thermal_unlock"
     /\ UnlockClock
     /\ Transition(THERMAL)
     /\ pc' = "sleep"
     /\ UNCHANGED loopVars

--------------------------------------------------------------------------------
(* run() between two ticks, and shutdown(). *)

KeepSleeping == running /\ slept < PollInterval

SleepChunk ==
  /\ pc = "sleep"
  /\ KeepSleeping
  /\ slept' = slept + 1
  /\ age' = IF age < StateMin THEN age + 1 ELSE age
  /\ UNCHANGED <<pc, running, fatal, state, util_window, temp, default_known,
                 lockVars, gpu>>

Wake ==
  /\ pc = "sleep"
  /\ ~KeepSleeping
  /\ slept' = 0
  /\ pc' = "loop"
  /\ UNCHANGED <<running, fatal, util_window, temp, default_known,
                 policyVars, lockVars, gpu>>

\* Mutant of Restore: the clock is unlocked and the power limit left alone.
RestoreClockOnly ==
  /\ pc = "restore_unlock"
  /\ UnlockClock
  /\ pc' = "nvml_shutdown"
  /\ UNCHANGED <<loopVars, policyVars>>

\* restore() runs once: main() calls shutdown() only from its finally clause,
\* so the _restored flag it tests is always still clear.
Restore ==
  \/ /\ pc = "restore_unlock"
     /\ UnlockClock
     /\ pc' = "restore_power"
     /\ UNCHANGED <<loopVars, policyVars>>
  \/ /\ pc = "restore_power"
     /\ RestorePowerLimit
     /\ pc' = "nvml_shutdown"
     /\ UNCHANGED <<loopVars, policyVars>>

\* nvmlShutdown and process exit: code 0 is not restarted, code 1 is.
Exit ==
  /\ pc = "nvml_shutdown"
  /\ \E p \in (IF fatal THEN FailedExit ELSE {"down"}) : Fresh(p)
  /\ UNCHANGED gpu

Tick   == Sample \/ ReadFails \/ EnterCompute \/ EnterIdle \/ EnterThermal
Daemon == Startup \/ Loop \/ Tick \/ SleepChunk \/ Wake \/ Restore \/ Exit
Next   == Launch \/ Crash \/ Signal \/ Elapse \/ Operator \/ Daemon

Spec == Init /\ [][Next]_vars

\* The process is scheduled, and systemd restarts a failed unit.  Nothing is
\* assumed of NVML, of the operator, or of whoever sends signals.
Fairness == WF_vars(Daemon) /\ WF_vars(pc = "restart" /\ Launch)
FairSpec == Spec /\ Fairness

--------------------------------------------------------------------------------
(* Properties *)

\* Every variable keeps its type; the utilization window never outgrows
\* UTIL_WINDOW, and the fields that only init() or a handler may set are
\* still clear in a process that is gone.
TypeOK ==
  /\ pc \in Alive \cup Gone
  /\ running \in BOOLEAN /\ fatal \in BOOLEAN
  /\ state \in States
  /\ age \in 0..StateMin
  /\ util_window \in Seq(Utils) /\ Len(util_window) <= UtilWindow
  /\ temp \in Temps \cup {NoTemp}
  /\ slept \in 0..PollInterval
  /\ default_known \in BOOLEAN
  /\ use_locked_clocks \in {"unknown", "supported", "unsupported"}
  /\ clock_locked \in BOOLEAN
  /\ gpu \in Settings

\* What the environment must grant for the driver to follow the state: the
\* calls the state depends on succeed, and nvidia-smi is used only before
\* _startup_clean.  Reads, persistence mode, application clocks, nvmlInit
\* and the clock lock itself may still fail, and the process may crash.
MustSucceed == {"read_default", "clean_clocks", "clean_power",
                "compute_cap", "idle_unlock", "idle_power",
                "thermal_cap", "thermal_unlock",
                "restore_unlock", "restore_power"}
Reliable ==
  /\ MayFail \cap MustSucceed = {}
  /\ OperatorAt \subseteq Gone \cup {"nvml_init", "read_default",
                                    "persistence", "clean_clocks"}

Target(s) == CASE s = IDLE    -> "default"
               [] s = COMPUTE -> "compute"
               [] s = THERMAL -> "thermal"

\* Between two ticks the driver is what the state says, whatever a crashed
\* predecessor or an operator left behind: the power limit is the state's
\* own, only COMPUTE holds a clock lock, and clock_locked knows of it.
Actuated ==
  pc \in {"loop", "read", "sleep"} =>
    /\ gpu.pl = Target(state)
    /\ gpu.lock \in {"free", "governor"}
    /\ gpu.lock = "governor" <=> clock_locked
    /\ clock_locked => state = COMPUTE

\* A daemon asleep on a hot reading has capped the power and released the
\* clock: no load, dwell, signal or restart delays thermal protection.
HotIsCapped ==
  pc = "sleep" /\ temp # NoTemp /\ temp >= TempEnter =>
    state = THERMAL /\ gpu.pl = "thermal" /\ gpu.lock = "free"

\* README "On systemctl stop the daemon first restores the factory power
\* limit and unlocks the clock": a daemon that got through init() leaves no
\* clock lock ...
ExitUnlocksClock == pc = "nvml_shutdown" /\ ~fatal => gpu.lock = "free"

\* ... and the factory power limit, at whatever call the signal arrived.
ExitRestoresPower == pc = "nvml_shutdown" /\ ~fatal => gpu.pl = "default"

\* The daemon implements the abstract policy: hysteresis, dwell and the
\* priority of heat over load survive the split into NVML calls, failed
\* calls, signals and crashes between them.
Policy == INSTANCE ThermalPolicy WITH
            mode <- state, dwell <- age, reading <- temp,
            MinDwell <- StateMin, Readings <- Temps
ImplementsPolicy == Policy!Safe

\* A hot reading is acted on even if every later read and every power-limit
\* call fails: no NVML error leaves the handler half done.
ActsOnHeat == Policy!Live

\* A signal at any call ends the process, through restore or by a crash.
StopTerminates == (pc \in Alive /\ ~running) ~> (pc \in Gone)

\* THERMAL is not a trap: if reads keep succeeding and the card stays below
\* TEMP_EXIT, the daemon leaves THERMAL, under load as well.
CoolingRecovers ==
  ([]<><<Sample>>_vars /\ <>[](temp < TempExit)) => []<>(state # THERMAL)

\* Under a load that stays above UTIL_HIGH on a cool card the daemon reaches
\* COMPUTE and stays there: the window, the dwell and the two thresholds
\* cannot make it flap.
LoadSettles ==
  (/\ []<><<Sample>>_vars
   /\ <>[](pc \in Alive)
   /\ <>[][Sample => Last(util_window') >= UtilHigh /\ temp' < TempExit]_vars)
  => <>[](state = COMPUTE)
================================================================================
