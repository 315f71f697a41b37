# A TLA+ model of the GPU and fan governors

Specifications, model-checking configurations and machine-checked proofs for
the two daemons of this repository, `gpu-governor` and `fan-governor`, for the
log through which the `gddr6` monitor feeds the second of them, and for the
manual tools that write the same fans. Paths below are relative to the
repository.

## 1. The system

| Part | State | Operations | Talks to |
|---|---|---|---|
| `gpu-governor.py`, class `Governor` | mode IDLE / COMPUTE / THERMAL and the time since it changed, rolling utilization window, default power limit, two flags about the clock lock, `_running` | `init` and `_startup_clean`, `tick` with its three handlers, `run`, signal handler, `restore` / `shutdown` | the NVML driver, whose settings outlive the process |
| `fan-governor.py`, class `FanGovernor` | per group: last percentage and when, emergency flag, stopped flag; the mode found in each claimed channel; heartbeat | `init` (resolve, claim), `tick` (read, `_decide_pwm`, `_apply_group`), `run`, `restore` / `shutdown` | NVML fans; hwmon files `pwmN`, `pwmN_enable` |
| `interpolate` and `HwmonPwm.apply` | none | curve interpolation, rounding to 0..255 | - |
| `GpuTempSource` | two "warned" flags (logging only) | `read(source)`, with `_vram_from_log` as the fallback for the VRAM temperature | NVML sensors; the CSV log |
| `gddr6` (`app.c`, `logger.c`) | loop counter, the open log, the shutdown flag of libgddr6 | open the log with a header and a start marker, one row per GPU and interval, end marker | the CSV log, read by `fan-governor` |
| libgddr6, `nvml_probe.c` | mapped registers, NVML handles | PCI scan, mmap, optional metrics | hardware |
| systemd units | unit running or not | start, stop (SIGTERM, then SIGKILL after 15 s), restart of a failed unit after 5 s, no restart after exit code 2 | both daemons |
| `tools/case-fan.sh` | `ORIG_EN`, `ORIG_PWM` of the channel `find` is at | `set`, `auto`, `auto-all`, `panic`, `find` with its trap | the hwmon channels, governed or not |
| `tools/gpu-fan.sh` | none | `set`, `auto`, `ramp` with its finally clause | the NVML fans, governed or not |
| `install.sh`, CMake files | none of their own | installation | - |

The daemons do not know of each other. They are single-threaded; what runs
beside them is the signal handler, the driver and the chip (shared with
`nvidia-smi`, `case-fan.sh` and the firmware), the gddr6 process, and systemd.

What is hard here:

* every NVML call or file write may fail, and is then logged and forgotten: the
  question is what the flags say about the device afterwards;
* a SIGTERM between any two calls must still lead to a complete restore;
* a crash loses the flags and keeps the device settings; the restarted process
  reads them back;
* three rules compete in one tick of each daemon (heat, recovery and load;
  emergency, zero-RPM hold and floor), with hysteresis and dwell times;
* a rate limit drops writes, and may drop one that mattered;
* the log is read by age of file, without locks, while gddr6 processes come and
  go, and what is read decides an emergency of the fans;
* the manual tools promise to restore what they touch, however they end, and
  nothing but a sentence in the README keeps the daemon from writing the same
  registers meanwhile.

`PROJECT.json` lists each of these hazards at its line.

## 2. Modules

| Module | What it is |
|---|---|
| `ThermalPolicy` | abstract: a three-mode machine with hysteresis, dwell and the priority of heat, driven by the last reading. No NVML, no process, no samples. |
| `GpuGovernor` | `gpu-governor.py`, the driver settings and systemd; one action per NVML call. Implements `ThermalPolicy`. |
| `MCGpuReliable` | an instance of it that satisfies the hypothesis `Reliable` of the theorems and lets everything else fail. |
| `GpuGovernor_proofs` | theorems about `GpuGovernor`. |
| `Relay` | abstract: two-threshold relays, one per id. |
| `FanCurve` | `interpolate`, the curve conditions of `load` and `validate`, the raw rounding. |
| `CurveSweep` | `FanCurve` against reference definitions, on every curve over given coordinates, with a temperature that moves degree by degree. |
| `FanCurve_proofs` | theorems about the operators, for curves of any length. |
| `CurveSweep_proofs` | from them, the properties of the sweep over any coordinates. |
| `FanGovernor` | `fan-governor.py`, the fans and channels, and systemd; one action per device access. Its emergency flags, and its stopped flags, implement `Relay`. |
| `MCFanGovernor` | curves, groups and devices for its runs. |
| `FanGovernor_proofs` | theorems about `FanGovernor`: types, floor, emergency, the two relays, that `last_pwm` is right about the hardware, and that every device is handed back. |
| `FanTools` | the writing subcommands of `case-fan.sh` and `gpu-fan.sh`; one action per access to a channel or fan, any of which may fail or be interrupted. |
| `FanTools_proofs` | theorems about `FanTools`. |
| `SharedFans` | composition: `FanGovernor` with `FanTools` on the same registers. |
| `MCSharedFans` | an instance with one channel and one fan governed and one of each not. |
| `SharedFans_proofs` | types, and that what the tools promise survives the composition. |
| `VramLog` | gddr6 processes that append to the CSV log, and `_vram_from_log`; one action per access to the file. |
| `VramLog_proofs` | theorems about `VramLog`. |
| `VramFeed` | composition: `FanGovernor` with `VramLog`; groups of any source, those that want the VRAM asking the log. |
| `MCVramFeed` | an instance of it: a `gpu_max` group and two GPUs. |
| `VramFeed_proofs` | theorems about the composition, from those about its two halves. |

### How the code became actions

*Program counter.* `pc` (in `VramLog` one `mpc` per process) names the next
device call or loop step, so that `Signal`, `Crash`, `Operator` and time fall
between any two calls. What the code does between two calls without touching
anything shared (choosing the branch of a tick, computing an average) belongs
to the action of the call before it. `Sample` is the pair of reads of a GPU
tick together with the choice of the handler; `DecideGroup` is `read(source)`
with `_decide_pwm` and the rate limit.

*Failure.* `MayFail` lists call sites, by their `pc`, whose call may raise. A
failed call leaves the device as it was. Each run chooses its set, which is
what makes the difference between a run that shows a guarantee and one that
shows the fault behind a divergence.

*Process life.* `Launch` starts a process with the values of `__init__`.
`Exit` and `Crash` end it and erase its memory (`Fresh`); the devices stay. Exit code 1
or a kill leads to `"restart"`, a clean exit to `"down"`. After a signal
systemd may be the one who asked, so both are possible (`FailedExit`). From
`"down"` a new start may come at any time or never.

*Configuration.* `Validated` is `Config.validate` of each daemon. A process
with a configuration that fails it leaves with exit code 2 before it touches a
device, so `ConfigValid` assumes it.

*Composition.* `SharedFans` joins the two next-state relations on `hw`: a step
is one of the daemon or one of a tool. `VramFeed` joins them on the log and the
clock: `FeedSecond` is a second of both, `Ask` is an access to the log on behalf of
the daemon, and `Decide` is the `DecideGroup` of `FanGovernor` with the reading
that `read()` makes of the core and the log (`Read`), or its `SkipGroup` when it
makes none. `vram` is the memory of every GPU; a batch of gddr6 holds what
each shows at that moment. In `VramLog` alone `Drop` stands for what the caller does then:
it uses the answer, or ends with the call half done.

*Values.* Watts and megahertz are abstracted to who set them (`"default"`,
`"compute"`, `"thermal"`, `"manual"`). Firmware modes of a channel are symbols,
`"manual"` is `pwmN_enable` = 1 and `"auto"` is 2. Percentages and raw register
values are the real integers. Temperatures are small integers, on which only
the comparisons matter; the arithmetic on real degrees is in `CurveSweep`.

*Time.* `age` (GPU) and `since`, `beat` (fan) are whole seconds that saturate
at the threshold they are compared with, which loses nothing. A slow call is an
`Elapse`. In `VramLog` seconds pass only while gddr6 is asleep and the reader
is elsewhere; what slow calls, a busy machine or a slow terminal add to a turn
of gddr6's loop is its `Lag`, after which the next batch comes at the latest
(`Period` is the interval with it). In the same way a tick of the daemon in
`VramFeed` may be late by `PollLag` seconds. So a delay falls between two batches or
two ticks, never between a measurement and its row.

*History.* `temp` (GPU), `seen` and `firmware` (fan), `measured` (log), `met`
(tools), `hotFor` and `coolAgo` (feed) record what the program does not keep
and the properties need. No action is guarded by them.

## 3. What the runs check

Runs that pass:

| Run | Instance | Shows |
|---|---|---|
| `gpu_actuation` | every call outside `MustSucceed` may fail, nvidia-smi before the clean-up, crashes | between ticks the driver is what the state says (`Actuated`); a hot reading is answered before the daemon sleeps (`HotIsCapped`); a stop leaves default limit and free clock; every step is one of the policy |
| `gpu_liveness` | fairness; reads, both power-limit calls and the clock lock fail; crashes | heat is acted on even if no later read succeeds, stops terminate, THERMAL is no trap, a steady load settles in COMPUTE |
| `fan_curve` | all sorted curves of 2 and 3 points on 4 temperatures and 5 percentages | clamping, floor of the chord, nearest raw value, no dip on a rising curve |
| `fan_control` | fairness; two groups, three devices; everything but a write of a speed fails; crashes | `last_pwm` is never wrong about the hardware (`Commanded`); floor, emergency level, emergency and zero-RPM relays; stops terminate; a group whose reading stops changing reaches its curve's value |
| `fan_exit` | three devices, two firmware modes; signals at any access, `init()` failing before a claim, writes that fail, another program that switches modes | everything is handed back; the refresh repairs a write that failed (`RefreshRepairs`) |
| `fan_tools` | two channels and two fans, one of each governed; every access of the tools outside their clean-up fails or is interrupted (`MayInterrupt`), the daemon starts and stops | `find` puts every channel that nobody governs back to mode and level; `ramp` frees every such fan; once the operator is done the daemon's levels return (`Overwrites`) |
| `log_sessions` | one gddr6 after another, 2 GPUs, `-n 2`, with and without `--truncate`, signals and kills, opens that fail; interval 2, late by up to 1, age limit 3 | sessions are start, whole batches, end; exactly one header, first line; a value of the last session is recent; "stale" is said only when no gddr6 is measuring |
| `vram_feed` | two GPUs and a `gpu_max` group; gddr6 starts, stops and is killed, fan-governor starts and stops, its ticks are late, each memory and the core heat and cool | memory that stays hot on every GPU is answered within a period of gddr6 and a poll (`HotVramAnswered`); a reading of the last session ends an emergency only when the memory of some GPU was cool a short time ago (`ReleasedOnFresh`) |

Runs that violate a sentence of the repository (each quoted in `PROJECT.json`,
`findings`):

| Run | What happens |
|---|---|
| `gpu_unlock_fault` | a failed unlock clears `clock_locked`; the lock survives a clean exit |
| `fan_crash_restart` | after a crash "manual" is taken for the firmware's mode and handed back |
| `fan_plateau` | with two points at 0 % stopped fans start less than the gap above the zero-point |
| `log_old_row` | a session marker makes an old row look live |

Other places where code and words differ, met while modelling. TLC shows the
first six when the constants of a run are changed as said; the others are plain
in the code:

* `ExitRestoresPower` with `read_default` in `MayFail`: when the default limit
  cannot be read, the cap survives a clean exit (`gpu-governor.py:180`;
  `gpu-governor/README.md:19` says the factory limit is restored).
* `HandsBack` with two channels in one group and `claim_write` in `MayFail`: a
  group is known to `restore()` only when all of it is claimed (`fan-governor.py:442`), so a failing claim
  strands the earlier channels of its group (`fan-governor/README.md:5`).
* `HeaderFirst` with two `Monitors`: both find the log missing and both write a
  header (`logger.c:27`; `gddr6-monitor/README.md:116`).
* `StaleMeansStopped` with `Interval + Lag` above `MaxAge`: a live but slow gddr6
  is called "not running" (`fan-governor.py:284`).
* `RampRestores` with `"ramp_off"` in `ToolMayInterrupt`, or with `"ramp"` or
  `"ramp_off"` in `ToolMayDie`: a Ctrl+C inside the finally clause
  (`gpu-fan.sh:89-91`) raises `KeyboardInterrupt` there and skips the remaining fans,
  and SIGTERM, which Python does not turn into an exception, skips the clause; the
  fans stay manual, where `gpu-fan.sh:92` would say "restored to firmware control".
* `FindRestores` with `"clean_mode"` in `ToolMayInterrupt`, `ToolMayDie` or `ToolMayFail`:
  `case-fan.sh:6`, "always restores touched channels, even on Ctrl+C". The first
  thing `cleanup_find` does is to reset the traps (`:120`), so a second Ctrl+C
  ends it half way; and a write of its own that fails is masked by `|| true`,
  after which it says that all channels are restored and exits with 0.
* `gpu-governor/README.md:386`, "actively re-applies its targets on every
  tick": handlers run on transitions only (`gpu-governor.py:272-298`).
* `fan-governor.py:15`, "forced to 100%": the rate limit leaves a group that
  enters emergency from 98 % or 99 % there until `min_state_seconds` have passed
  (`fan-governor.py:476`). `EmergencyCools` states what does hold.
* `fan-governor.py:471`, "defends against external interference": the refresh
  writes `pwmN` and not `pwmN_enable` (`fan-governor.py:202`).
* `fan-governor/README.md:318`, "will overwrite your manual changes on its next
  tick": a tick whose percentage has not changed writes only when
  `min_state_seconds` have passed, and then the level; the mode of a channel
  is never written again. `Overwrites` states what does hold.
* `case-fan.sh:139`: `find` writes back what it read before it listened. When
  the daemon is started or stopped meanwhile, that is an old mode and an old
  level of a governed channel.
* `fan-governor/README.md:138`, `gpu_index`: the log reader takes the last row
  of any GPU (`fan-governor.py:362`). On a machine with several, the memory of the
  governed card can be at `emergency_temp` for ever while the reading is that of a cool
  neighbour, and an emergency of its own can end on the neighbour's reading. That
  is why the two properties of `VramFeed` speak of every GPU and of some GPU.

### Bounds, and why they are enough

* *GPU.* Three temperatures (below, in and above the band), three utilizations
  (at and outside the thresholds), a window of 2 (so that it can be partly
  full and mixed), a dwell of 2 s with a poll of 2 s in the safety run (a wake
  can be cut short) and of 1 s under fairness (ticks fall before and after the
  dwell). All counters saturate at the value they are compared with; there
  is no state constraint.
* *Fan.* Degrees are scaled: 2 is the zero-point, 5 and 6
  are `emergency_exit` and `emergency_temp`. The gap in `fan_control` is 3, so that
  the readings 3 and 5 are inside it and on its boundary. The curve passes 97 % so that the
  rate limit meets the emergency; `min_state_seconds` is 2 polls, so that a
  write can be too soon for one tick and not for the next. Two groups give the
  loop over groups, the failure of a later claim and two sources; a group with an NVML fan and a
  channel has both kinds of target. `HEARTBEAT_INTERVAL_S` is scaled to 1, so
  that ticks with and without heartbeat occur. In `fan_control` the core stays
  at or below the second point of its curve and the emergency comes with the VRAM,
  which both groups read; in `fan_exit` two temperatures are enough
  to make the level change.
* *Tools.* Two channels and two fans give each loop a next turn; one of each is
  governed. `Ramp` has two percentages, one of which is 0. The daemon's own
  failures and its heartbeat are off there, since `fan_control` has them.
* *Log.* `MaxLines` stops new sessions and batches that no longer fit, leaving
  room for every open session to end. A session starts when five lines are free; the
  10 lines of `log_sessions` hold two whole sessions on two GPUs, the first with one
  batch and the second with one, or more sessions that are killed or begin with
  `--truncate`. `MaxSeconds` is above every age that is compared. Truncating
  processes are never two (`OneTruncates`): they would overwrite each other's
  bytes, which lines cannot show.
* *Feed.* Two GPUs whose memories differ, and 9 lines: a session of three batches,
  which is what `hotFor = Delay` takes, or one that was killed after its
  first rows and the next, appended or truncated. Interval, poll and age limit are 1;
  `Lag` is 0 and the daemon's ticks are the late ones (a late gddr6 is in
  `log_sessions`). The one group reads `gpu_max`, the source that falls back on
  the core when the log is lost. A second group, a `gpu_vram` one and a `Lag` are
  left to the theorems: with any of them the run takes too long.

`CHECK_DEADLOCK` is never switched off: a stopped daemon can always be started,
and in `VramLog` the reader and the clock always can move.

### Fairness

`WF(Daemon)`: the kernel schedules the process, and a device call returns or
raises; in both Python programs no call waits for another actor. `WF(restart
/\ Launch)`: `Restart=on-failure`. Nothing is assumed of readings, failures, crashes,
operators or signals. `CoolingRecovers`, `LoadSettles` and `FanSettles` say in
their premises which readings keep coming; the premise of the last two that the
process eventually stays alive excludes only endless crashes and stops.
`StopTerminates` counts a crash as an end, since TimeoutStopSec makes it one.
`RefreshRepairs` says in its premise that writes succeed from some moment on.
`SharedSpec` is fair to the daemon and to systemd only: a tool may wait at a
prompt for ever, and the premise of `Overwrites` is that it does not. `VramFeed`
needs no fairness: its properties count seconds.

## 4. What is proved

TLAPS checks the following for every value of the constants that satisfies the
`ASSUME`s of the module: `ConfigValid` (what `validate` accepts) and `Domains`
(readings are naturals; ages saturate exactly) for the daemons, `LogConfig` and
`OneTruncates` for the log, `SweepConfig` (the sweep has two ends) for the curves,
`SharedConfig` and `FeedConfig` for the compositions. `FeedConfig` says what the
case of interest is: no VRAM temperature from NVML, a core that can be read,
an `emergency_temp` above 0, a period of gddr6 within the age limit. Its groups may
have any source and its GPUs different temperatures. TLC evaluates them in every run.

| Theorem | Statement | Further assumption |
|---|---|---|
| `GpuGovernor_proofs!TypeCorrect` | `[]TypeOK` | none |
| `...!PolicyImplemented` | `Spec => ThermalPolicy!Safe` under the refinement mapping | none: any call may fail, anyone may run nvidia-smi |
| `...!DriverActuated` | `[]Actuated` | `Reliable` |
| `...!HeatCapped` | `[]HotIsCapped` | `Reliable` |
| `...!ExitUnlocks` | `[]ExitUnlocksClock` | `Reliable` |
| `...!ExitRestores` | `[]ExitRestoresPower` | `Reliable` |
| `FanCurve_proofs!InterpolateBetween`, `InterpolateRange` | `interpolate` stays within the percentages of the points, hence in 0..100 | none: any length, duplicate temperatures |
| `...!InterpolateOnChord` | between two points it is the floor of their chord | none |
| `...!InterpolateRises` | hotter is never slower | a rising curve |
| `...!RawRange` | the raw value is the nearest in 0..255 and is 0 only for 0 % | none |
| `CurveSweep_proofs!AlwaysClamped`, `AlwaysOnChord`, `AlwaysNearest` | `[]Clamped`, `[]OnChord`, `[]RawNearest` | none: any coordinates, any lengths |
| `...!AlwaysRises` | `HotterNeverSlower` | none |
| `FanGovernor_proofs!TypeCorrect` | `[]TypeOK` | none |
| `...!FloorKept` | `[]FloorHeld` | none |
| `...!EmergencyCooled` | `[]EmergencyCools` | none |
| `...!LatchImplemented` | `Spec => Relay!Safe` for the emergency flags | none |
| `...!ZeroRpmImplemented` | `Spec => Relay!Safe` for the stopped flags | `Steep` |
| `...!AllCommanded` | `[]Commanded` | `Undivided` |
| `...!HandedBack` | `[]HandsBack` | `Orderly` |
| `FanTools_proofs!TypeCorrect` | `[]TypeOK` | `ToolsConfig` |
| `...!FindRestored`, `RampRestored` | `FindRestores`, `RampRestores` | `ToolsConfig`, `Undisturbed` |
| `SharedFans_proofs!BothTyped` | the type invariants of both halves, together | none |
| `...!FindBesideDaemon`, `RampBesideDaemon` | `FindRestores`, `RampRestores`, with the daemon beside | `Undisturbed` |
| `VramLog_proofs!TypeCorrect` | `[]TypeOK` | none |
| `...!OneHeader` | `[]HeaderFirst` | `Alone`: one gddr6 at a time |
| `...!StaleIsStopped` | `StaleMeansStopped` | `Period <= MaxAge` |
| `...!SessionIsLive` | `[]LiveSession` | none: any number of gddr6 processes |
| `...!SessionsWhole` | `[]WholeSessions` | `Alone` |
| `VramFeed_proofs!HotAnswered` | `[]HotVramAnswered`: memory hot on every GPU, groups that read the VRAM | none beyond `FeedConfig`, which has `Period <= MaxAge` |
| `...!Released` | `ReleasedOnFresh`: memory cool on some GPU | none beyond `FeedConfig` |

The further assumptions, each met by the run that checks the same property:

* `Reliable`: the calls the driver's state depends on succeed and nvidia-smi is
  used only before the clean-up. `gpu_unlock_fault` drops one call from it and
  loses `ExitUnlocksClock`; `read_default` is another. `MCGpuReliable` is an
  instance of it that lets every other call fail.
* `Steep`: the curve of a group that may stop its fans is positive from the
  degree above its first point on (its first segment rises by at least a percent per
  degree, its later points are above 0), `emergency_temp` is not below the gap and
  `emergency_exit` is beyond the zero-point. `config.example` is steep; `validate`
  does not ask for it. `fan_plateau` drops the first part. On a curve that rises
  more slowly `interpolate` truncates to 0 for some degrees above the zero-point, and
  fans stop there.
* `Undivided`: writes of a speed succeed, nobody else writes, and no device is
  in two groups. Sensors, claims and restores may fail, and the process crash.
* `Orderly`: no crash, claims and the last writes of `restore()` succeed, no
  device is listed twice, and another program switches only channels that are
  governed, while the loop runs. `fan_crash_restart` drops the first part.
* `Undisturbed`: the clean-up of `find` and the finally clause of `ramp` do not
  fail and are not interrupted, and the two commands are not killed.
* `Alone` and `Period <= MaxAge`: without them the properties fail, as listed above.

*The argument for the policy.* A handler spans several calls, with time,
signals and crashes between them, and changes `state` only at the last. The
invariant `PolicyInv` (with `TypeOK`) carries the reasons across: while the
process is inside a handler, the verdict that sent it there still holds
(`VerdictStands`: the reading, the mode, the dwell), and outside a handler a
hot reading has been answered (`HeatAnswered`). The last call of a handler is
then a `Trip`, `Recover` or `Follow` of the policy, every other step stutters or is a
`Second`, a `Sense` or a `Restart`.

*The argument for the driver.* `DriverInv` says, for every `pc`, how much of
the driver is already as it should be: what init has cleaned (`BootState`),
what the two clock flags say of the lock (`ClockTracked`) and which limit each
call of a handler has set (`PowerTracked`). It is inductive although nothing
is known of the driver at a start, since each part is claimed only after the
call that establishes it.

*The argument for the fan levels.* Between the decision and the last write
`want` holds what `last_pwm` will be, so `FloorInv` and `CoolingInv` speak of
`want` at `pc = "apply"`, and of `last_pwm` elsewhere. The step that needs care
is a decision the rate limit drops: in emergency the old percentage is then
within `MinPwmStep - 1` of 100, whatever earlier writes did; and the zero-RPM hold returns 0
without consulting the floor, which is sound only because a group with a floor
is never marked stopped. Both rest on `InterpolateRange`, whose own core is
that a clamped temperature always lies in some segment (`SegmentFound`) and that a
floored point of a chord lies between its ends (`AlongBetween`).

`InterpolateRises` adds the case that makes it worth a proof: two temperatures
in different segments, the first of which is found first although both span
the shared point.

*The argument for the two relays.* A decision shows the relay of its group one
reading, a process that begins resets it, every other step stutters. For the
emergency flag nothing else is needed. For the stopped flag the step must agree
with the relay in three cases: a hold that ends at the gap, a stop where the curve
is 0 (`LeavesZero` makes "the curve is 0" and "at or below the zero-point" one
condition), and an emergency, which starts the fans whatever the flag was. `StopInv`
is the strengthening: in emergency the flag is down, so that an emergency that
lasts only because it is latched never finds fans at rest.

*The argument for `last_pwm`.* `CommandInv` says which slots of which groups the
loops have passed: claimed channels are manual while `init()` goes on
(`ClaimInv`), all are while the loop runs, each group obeys its `last_pwm`, and
in the middle of `_apply_group` the first targets already obey `want` (`ServeInv`).
A write to one device leaves every other group alone because no device is in two
(`Disjoint`).

*The argument for the hand-back.* Nothing is away from home but what is `Owed`: the
slots behind the loop of `init()`, all of them while the daemon runs, those
still ahead of the loop of `restore()`; and of what is owed the mode is
`Known`. That is inductive because a channel is read before it is owed
(`ClaimReadHand`), and because a failed `init()` owes exactly the groups
`self.states` holds, as long as no claim fails.

*The argument for the tools.* `FindInv` says that between two accesses of
`find` every other channel is as it was met, and that what `saved` holds is what
was met in the channel the loop is at (`ChannelTracked`); `RampInv` that the fans behind the
finally clause are free. Beside the daemon every step of it is an `Other`
step of `FanTools`, since it writes only governed devices.

*The argument for the log.* `HeaderInv` ties `fresh` to the file from the probe to the
header. `AgeInv` bounds the age of the file by how long any measuring process
has slept, since each wrote to it before it fell asleep.
`LiveInv` says that the age of the last row of the last session exceeds that of
the file by at most a period; the end marker, which renews the second and
not the first, is the step that needs it.

*The argument for the sessions.* `WholeSessions` looks only at sessions that are
over, and is not inductive. `SessionInv` speaks of every run of rows after
a start marker, finished or not (`InOrder`, `Ended`), and ties the last run to the
process that writes it: as many whole batches as it has counted readings, and
the rows before `next` (`Batches`). A new row is then the one whose turn it is, and
the end marker is written only at `next = 1`. A start marker can follow an open
run only if the process that had it was killed.

*The argument for the feed.* The composition implements both halves: each of
its steps is one of `FanGovernor` or leaves it alone (`DaemonRefined`), and likewise of
`VramLog` (`LogRefined`), so that what is proved of either holds here. On top of
that `FeedInv` follows a temperature on its way. `HeatInv`: `hotFor` counts only
while both processes are in their loops and the memory of every GPU is hot.
`BatchInv`: a batch is of the second in which it is written, row by row of its GPU. `RowInv`: what the last row of the log tells of the memory of
`measured` seconds ago, and that a log beside a sleeping gddr6 has a row, while the
memory is hot one no older than a period. `AnswerInv`: the same of what `read()` has
returned, until it is used. `TickInv`: after a period of heat the groups that read the
VRAM and that the tick has passed are in emergency, after a poll and its delay more
all are. `HotAnswered` follows with
`EmergencyCools`; `Released` with the bound on the age of a reading (`LiveInv`).

*Not proved, checked by TLC only.* What needs fairness: `ActsOnHeat`,
`StopTerminates`, `CoolingRecovers`, `LoadSettles`, `FanSettles`,
`RefreshRepairs` and `Overwrites`; liveness is out of the prover's reach. Every
other property of a passing run is a theorem.

## 5. What is not modelled

* Parsing of the environment, of JSON and of target names, logging, the
  heartbeat line of `gpu-governor` (no state depends on it), rendering and
  statistics of `gddr6`.
* libgddr6 beyond its shutdown flag, and `nvml_probe.c`: I/O with the hardware,
  one call after the other in one thread; they write the screen and columns of
  the log nobody reads back. That includes the clean-up of libgddr6 after a
  failed allocation (`gddr6.c:98`).
* Installation and build files: one-shot, without state.
* Two gddr6 processes with `--truncate` on one log: they overwrite each other's
  bytes, and the unit here is the line.
* The renumbering of `hwmonN` when `case-fan.sh panic` reloads `it87`: the paths
  the daemon resolved at its start (`fan-governor.py:266`) are then stale. Nor a
  `modprobe` that fails after `modprobe -r` has unloaded the driver
  (`case-fan.sh:100-102`): `Reload` leaves the registers alone and ends, while
  in the code no channel can be reached any more until the driver is back; no property
  speaks of that.
* A configuration that is made invalid while the daemon runs: after a crash the
  restarted process leaves with 2 (`fan-governor.py:585`), systemd gives up, and the
  channels stay claimed.
* The subcommands of the tools that only print.
* Overlapping groups are admitted by `ConfigValid`, as by `validate`, and by
  most theorems; the runs use disjoint ones, without which `Commanded` and
  `HandsBack` are not meant to hold.
* Time between measuring and writing a row of the log, and between two accesses of
  one call of the reader: a delay is counted between the turns of a loop (`Lag`,
  `PollLag`).
* A write of a log line in part: `logger.c` flushes line by line.

## 6. Plan

Order of the work, most important first; (1) to (9) are done.

1. `GpuGovernor` with `ThermalPolicy`: safety, liveness, proofs.
2. `FanCurve`: reference checks, proofs for curves of any length.
3. `FanGovernor` with `Relay`: safety, liveness, proofs of the level
   properties and of the emergency latch.
4. `VramLog`: writers and reader, proofs.
5. `FanGovernor`: that the refresh repairs a failed write.
6. `FanTools` and `SharedFans`: the manual tools, alone and beside the daemon.
7. `VramFeed`: what the delay and loss of VRAM readings do to the emergency.
8. Proofs of `Commanded` and `HandsBack`.
9. Proofs of `WholeSessions`, of the properties of `CurveSweep` and of
   `VramFeed`, and of `ZeroRpmRelay` on steep curves.
10. Left: an instance with overlapping groups, stating what a device in two
    groups does get; `StaysStopped`, the zero-RPM promise told of the fan, on
    steep curves. The rate limit may keep a speed of 0 after the stopped flag has
    gone down, for a curve within `min_pwm_step` of 0 at the gap,
    which `Steep` does not exclude.
