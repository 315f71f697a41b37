-------------------------------- MODULE VramFeed --------------------------------
(***************************************************************************)
(* fan-governor fed by gddr6, on a card whose NVML has no VRAM temperature,*)
(* so that the groups that want it take it from the log.  The two          *)
(* processes share the log and the clock, and nothing else.                *)
(***************************************************************************)
EXTENDS FanGovernor

CONSTANTS Monitors, NumGpus, Interval, Lag, MaxReadings, Truncate, MaxAge,
          MayKill, LogMayFail, MaxLines, MaxSeconds,
          PollLag    \* by how many seconds a tick may be late

VARIABLES
  mpc, stop, truncate, fresh, readings, batch, next, mslept,   \* gddr6
  file, mtime, measured, rpc, answer,                          \* the log
  asked,     \* read() has its answer of this group
  late,      \* seconds the next tick is late by
  vram,      \* per GPU, the temperature of its memory
  hotFor,    \* history: seconds that Hot has lasted with both running
  coolAgo    \* history: seconds since Cool

Log == INSTANCE VramLog WITH
         slept <- mslept, Temps <- VramTemps, MayFail <- LogMayFail

\* No VRAM temperature from NVML, a core that can be read, and thresholds above
\* 0, which the reader of the log takes for no reading.
ASSUME FeedConfig ==
  /\ Log!LogConfig /\ Log!OneTruncates
  /\ "vram" \in MayFail /\ "core" \notin MayFail
  /\ EmergencyTemp > 0
  /\ Log!Period <= MaxAge /\ MaxAge + Log!Period < MaxSeconds
  /\ PollLag \in Nat

logVars  == <<mpc, stop, truncate, fresh, readings, batch, next, mslept,
              file, mtime, measured, rpc, answer>>
physical == <<vram, hotFor, coolAgo>>
feedVars == <<vars, logVars, asked, late, physical>>

\* The reader takes the last row of any GPU, so that only what all of them have
\* in common is sure to reach the daemon.
Hot  == \A g \in Log!Gpus : vram[g] >= EmergencyTemp
Cool == \E g \in Log!Gpus : vram[g] < EmergencyExit

Delay == Log!Period + PollInterval + PollLag

FeedInit ==
  /\ Init /\ Log!Init
  /\ asked = FALSE /\ late = 0
  /\ vram \in [Log!Gpus -> VramTemps] /\ hotFor = 0 /\ coolAgo = 0

Governing == pc \in {"loop", "group", "apply", "sleep"}
Measuring == \E m \in Monitors : mpc[m] \in {"loop", "rows", "sleep"}

\* hotFor starts again when one of the two leaves its loop.
Watch == hotFor' = IF Governing' /\ Measuring' THEN hotFor ELSE 0

\* What the daemon does but sleep, read and decide.  A call of read() in
\* progress ends with its process.
FanStep ==
  /\ \/ Launch \/ Crash \/ Signal \/ Startup \/ Loop \/ Apply \/ Wake
     \/ RestoreFan \/ RestorePwm \/ RestoreMode \/ Exit
  /\ asked' = (asked /\ pc' = pc)
  /\ late' = IF pc' = pc THEN late ELSE 0
  /\ rpc' = IF pc' = pc THEN rpc ELSE "idle"
  /\ answer' = IF asked' THEN answer ELSE Log!Nothing
  /\ UNCHANGED <<mpc, stop, truncate, fresh, readings, batch, next, mslept, file,
                 mtime, measured, vram, coolAgo>>
  /\ Watch

\* One access of _vram_from_log.
Ask ==
  /\ pc = "group" /\ ~asked
  /\ Source[gi] # "gpu_core"
  /\ Log!Stat \/ Log!ReadLog
  /\ asked' = (rpc' = "idle")
  /\ UNCHANGED <<vars, late, physical>>

FromLog == IF answer.kind = "value" THEN answer.temp ELSE NoReading

\* read(source) with the core at c; for gpu_core the log is not asked.
Read(g, c) ==
  CASE Source[g] = "gpu_core" -> c
    [] Source[g] = "gpu_vram" -> FromLog
    [] Source[g] = "gpu_max"  -> Max2(c, FromLog)

Decide ==
  /\ pc = "group" /\ Source[gi] # "gpu_core" => asked
  /\ \E c \in CoreTemps :
       \/ DecideGroup /\ seen'[gi] = Read(gi, c)
       \/ SkipGroup /\ Read(gi, c) = NoReading
  /\ asked' = FALSE /\ answer' = Log!Nothing
  /\ UNCHANGED <<mpc, stop, truncate, fresh, readings, batch, next, mslept, file,
                 mtime, measured, rpc, late, physical>>

\* A batch holds the temperatures of the moment.
Gddr6 ==
  /\ \E m \in Monitors : Log!Monitor(m)
  /\ \A m \in Monitors : batch[m] = <<>> =>
       \A g \in DOMAIN batch'[m] : batch'[m][g] = vram[g]
  /\ UNCHANGED <<vars, asked, late, vram, coolAgo>>
  /\ Watch

\* A second of the daemon: of its sleep, of what makes a tick late, or while
\* it is off.
FanSecond ==
  \/ SleepChunk /\ UNCHANGED late
  \/ Elapse /\ late < PollLag /\ late' = late + 1
  \/ pc \in Gone /\ UNCHANGED <<vars, late>>

\* A second passes for both, and the memory heats or cools.
FeedSecond ==
  /\ Log!Second
  /\ FanSecond
  /\ vram' \in [Log!Gpus -> VramTemps]
  /\ hotFor' = IF Governing /\ Measuring /\ Hot /\ Hot' THEN Older(hotFor, Delay) ELSE 0
  /\ coolAgo' = IF Cool' THEN 0 ELSE Older(coolAgo, MaxSeconds)
  /\ UNCHANGED asked

FeedNext == FanStep \/ Ask \/ Decide \/ Gddr6 \/ FeedSecond
FeedSpec == FeedInit /\ [][FeedNext]_feedVars

--------------------------------------------------------------------------------
(* Properties *)

\* "emergency_temp forces 100 %", told of the memory itself: when that of every
\* GPU has been that hot for a period of gddr6 and a poll of the daemon, delays
\* included, with both at work, every group that reads the VRAM is in
\* emergency and at full speed but for the rate limit.
HotVramAnswered ==
  pc = "sleep" /\ hotFor = Delay =>
    \A g \in Groups : Source[g] # "gpu_core" =>
      in_emergency[g] /\ last_pwm[g] >= 100 - Max2(MinPwmStep - 1, 0)

\* The other way round: a reading of the last session ends an emergency only
\* if the memory of some GPU was cooler than emergency_exit a short time ago,
\* whatever session markers, truncation and killed processes did to the log
\* meanwhile.
ReleasedOnFresh ==
  [][Decide /\ answer.kind = "value" /\ answer.current =>
       \A g \in Groups : in_emergency[g] /\ ~in_emergency'[g] =>
         coolAgo <= MaxAge + Log!Period]_feedVars
================================================================================
