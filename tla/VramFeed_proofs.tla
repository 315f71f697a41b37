---------------------------- MODULE VramFeed_proofs ----------------------------
(***************************************************************************)
(* Theorems about VramFeed: how long heat of the memory can go unanswered, *)
(* and how old the reading can be that ends an emergency, for every number *)
(* of groups, devices, GPUs and gddr6 processes, every interval, poll and  *)
(* delay.                                                                  *)
(***************************************************************************)
EXTENDS VramFeed, FanGovernor_proofs

\* The theorems about VramLog, of the log of this module.
Csv == INSTANCE VramLog_proofs WITH
         slept <- mslept, Temps <- VramTemps, MayFail <- LogMayFail

--------------------------------------------------------------------------------
(* The two halves *)

\* Every step of the composition is one of the daemon, or leaves it alone.
LEMMA DaemonHalf == [FeedNext]_feedVars => [Next]_vars
<1> SUFFICES ASSUME [FeedNext]_feedVars PROVE [Next]_vars
  OBVIOUS
<1>1. CASE FanStep
  BY <1>1 DEF FanStep, Next, Daemon, Startup, Tick
<1>2. CASE Ask \/ Gddr6
  BY <1>2 DEF Ask, Gddr6
<1>3. CASE Decide
  BY <1>3 DEF Decide, Next, Daemon, Tick
<1>4. CASE FeedSecond
  BY <1>4 DEF FeedSecond, FanSecond, Next, Daemon
<1>5. CASE UNCHANGED feedVars
  BY <1>5 DEF feedVars
<1> QED BY <1>1, <1>2, <1>3, <1>4, <1>5 DEF FeedNext

\* What holds of the daemon alone holds of it here.
LEMMA DaemonRefined == FeedSpec => Spec
  BY DaemonHalf, PTL DEF FeedSpec, FeedInit, Spec

\* Log and Csv are two instances of the same definitions.
LEMMA SameMonitor ==
  ASSUME NEW m \in Monitors, Log!Monitor(m)
  PROVE  Csv!Monitor(m)
<1> USE DEF Log!Goto, Csv!Goto, Log!Mark, Csv!Mark, Log!Row, Csv!Row,
        Log!fileVars, Csv!fileVars, Log!readerVars, Csv!readerVars, Csv!Monitor
<1>1. CASE Log!Start(m)
  BY <1>1 DEF Log!Start, Csv!Start
<1>2. CASE Log!Probe(m)
  BY <1>2 DEF Log!Probe, Csv!Probe, Log!Empty, Csv!Empty
<1>3. CASE Log!Open(m)
  BY <1>3 DEF Log!Open, Csv!Open
<1>4. CASE Log!Begin(m)
  BY <1>4 DEF Log!Begin, Csv!Begin
<1>5. CASE Log!Loop(m)
  BY <1>5 DEF Log!Loop, Csv!Loop, Log!Done, Csv!Done, Log!Gpus, Csv!Gpus
<1>6. CASE Log!WriteRow(m)
  BY <1>6 DEF Log!WriteRow, Csv!WriteRow, Log!LastRow, Csv!LastRow
<1>7. CASE Log!Wake(m)
  BY <1>7 DEF Log!Wake, Csv!Wake
<1>8. CASE Log!Close(m)
  BY <1>8 DEF Log!Close, Csv!Close, Log!Gone, Csv!Gone
<1>9. CASE Log!Leave(m)
  BY <1>9 DEF Log!Leave, Csv!Leave, Log!Gone, Csv!Gone
<1>10. CASE Log!Signal(m)
  BY <1>10 DEF Log!Signal, Csv!Signal
<1>11. CASE Log!Kill(m)
  BY <1>11 DEF Log!Kill, Csv!Kill, Log!Gone, Csv!Gone
<1> QED
  BY <1>1, <1>2, <1>3, <1>4, <1>5, <1>6, <1>7, <1>8, <1>9, <1>10, <1>11
  DEF Log!Monitor

LEMMA SameReader ==
  /\ Log!Stat => Csv!Stat
  /\ Log!ReadLog => Csv!ReadLog
  /\ Log!Second => Csv!Second
  /\ Log!Init => Csv!Init
<1> USE DEF Log!monitorVars, Csv!monitorVars, Log!fileVars, Csv!fileVars,
        Log!readerVars, Csv!readerVars, Log!Answer, Csv!Answer,
        Log!Nothing, Csv!Nothing
<1>1. Log!Stat => Csv!Stat
  BY DEF Log!Stat, Csv!Stat, Log!Stale, Csv!Stale, Log!TooOld, Csv!TooOld,
     Log!Empty, Csv!Empty
<1>2. Log!DataLine = Csv!DataLine
  BY DEF Log!DataLine, Csv!DataLine, Log!IsRow, Csv!IsRow,
     Log!SelectLastInSeq, Csv!SelectLastInSeq, Log!Max, Csv!Max
<1>3. Log!Value = Csv!Value
  BY <1>2 DEF Log!Value, Csv!Value, Log!IsRow, Csv!IsRow
<1>4. Log!ReadLog => Csv!ReadLog
  BY <1>2, <1>3 DEF Log!ReadLog, Csv!ReadLog
<1>5. Log!Second => Csv!Second
  BY DEF Log!Second, Csv!Second, Log!Later, Csv!Later, Log!Period, Csv!Period
<1>6. Log!Init => Csv!Init
  BY DEF Log!Init, Csv!Init
<1> QED BY <1>1, <1>4, <1>5, <1>6

\* read() is done when it has an answer, and an answer is kept no longer than
\* the decision.  A gpu_core group never asks.
AskedInv ==
  /\ asked \in BOOLEAN /\ rpc \in {"idle", "open"}
  /\ asked => pc = "group"
  /\ rpc = "open" => pc = "group" /\ ~asked
  /\ asked \/ rpc = "open" => Source[gi] # "gpu_core"
  /\ ~asked => answer = Log!Nothing

LEMMA AskedStep == AskedInv /\ [FeedNext]_feedVars => AskedInv'
<1> SUFFICES ASSUME AskedInv, [FeedNext]_feedVars PROVE AskedInv'
  OBVIOUS
<1> USE DEF AskedInv
<1>1. CASE FanStep
  <2>1. pc = "group" /\ pc' = pc => gi' = gi
    BY <1>1 DEF FanStep, Launch, Crash, Fresh, FailedExit, Gone, Signal, Startup,
       NvmlInit, Resolve, ClaimRead, ClaimWrite, Loop, Apply, Wake, RestoreFan,
       RestorePwm, RestoreMode, Exit
  <2> QED BY <1>1, <2>1 DEF FanStep
<1>2. CASE Ask
  BY <1>2 DEF Ask, Log!Stat, Log!ReadLog, Log!Answer, vars, proc
<1>3. CASE Decide
  BY <1>3 DEF Decide
<1>4. CASE Gddr6
  <2>1. UNCHANGED <<rpc, answer>>
    BY <1>4 DEF Gddr6, Log!Monitor, Log!Start, Log!Probe, Log!Open, Log!Begin,
       Log!Loop, Log!WriteRow, Log!Wake, Log!Close, Log!Leave, Log!Signal, Log!Kill,
       Log!readerVars
  <2> QED BY <1>4, <2>1 DEF Gddr6, vars, proc
<1>5. CASE FeedSecond
  <2>1. UNCHANGED <<rpc, answer, asked, pc, gi>>
    BY <1>5 DEF FeedSecond, FanSecond, Log!Second, Log!readerVars, SleepChunk, Elapse,
       vars, proc
  <2> QED BY <2>1
<1>6. CASE UNCHANGED feedVars
  BY <1>6 DEF feedVars, logVars, vars, proc
<1> QED BY <1>1, <1>2, <1>3, <1>4, <1>5, <1>6 DEF FeedNext

LEMMA AlwaysAsked == FeedSpec => []AskedInv
<1>1. FeedInit => AskedInv
  BY DEF FeedInit, AskedInv, Log!Init
<1> QED BY <1>1, AskedStep, PTL DEF FeedSpec

\* Every step of the composition is one of the log and its reader.
LEMMA LogHalf == AskedInv /\ [FeedNext]_feedVars => [Csv!Next]_Csv!vars
<1> SUFFICES ASSUME AskedInv, [FeedNext]_feedVars PROVE [Csv!Next]_Csv!vars
  OBVIOUS
<1> USE DEF Csv!vars, Csv!monitorVars, Csv!fileVars, Csv!readerVars
<1>1. CASE FanStep \/ Decide
  <2>1. UNCHANGED <<Csv!monitorVars, Csv!fileVars>>
    BY <1>1 DEF FanStep, Decide
  <2>2. \/ rpc' = rpc /\ answer' = answer
        \/ rpc' = "idle" /\ answer' = Log!Nothing
    <3>1. CASE FanStep /\ pc' = pc
      BY <3>1 DEF FanStep, AskedInv
    <3>2. CASE FanStep /\ pc' # pc
      BY <3>2 DEF FanStep
    <3>3. CASE Decide
      BY <3>3 DEF Decide, AskedInv
    <3> QED BY <1>1, <3>1, <3>2, <3>3
  <2>3. CASE rpc' = "idle" /\ answer' = Log!Nothing
    BY <2>1, <2>3 DEF Csv!Next, Csv!Drop, Csv!Answer, Log!Nothing, Csv!Nothing
  <2> QED BY <2>1, <2>2, <2>3
<1>2. CASE Ask
  BY <1>2, SameReader DEF Ask, Csv!Next
<1>3. CASE Gddr6
  BY <1>3, SameMonitor DEF Gddr6, Csv!Next
<1>4. CASE FeedSecond
  BY <1>4, SameReader DEF FeedSecond, Csv!Next
<1>5. CASE UNCHANGED feedVars
  BY <1>5 DEF feedVars, logVars
<1> QED BY <1>1, <1>2, <1>3, <1>4, <1>5 DEF FeedNext

\* What holds of the log alone holds of it here.
LEMMA LogRefined == FeedSpec => Csv!Spec
<1>1. FeedInit => Csv!Init
  BY SameReader DEF FeedInit
<1> QED BY <1>1, LogHalf, AlwaysAsked, PTL DEF FeedSpec, Csv!Spec

LEMMA LogAlways ==
  FeedSpec => [](/\ Csv!ProcOK /\ Csv!FileOK /\ Csv!RowsKnown
                 /\ Csv!AgeInv /\ Csv!LiveInv)
<1>1. Csv!LogConfig /\ Csv!OneTruncates
  BY FeedConfig
<1> QED
  BY <1>1, LogRefined, Csv!AlwaysTyped, Csv!AlwaysRows, Csv!AlwaysAged,
     Csv!AlwaysLive, PTL
--------------------------------------------------------------------------------
(* What the memory, the batches and the last row say of each other *)

\* hotFor counts while both processes are in their loops and it is hot.
HeatInv ==
  /\ hotFor \in 0..Delay /\ coolAgo \in 0..MaxSeconds
  /\ vram \in [Csv!Gpus -> VramTemps]
  /\ hotFor > 0 => Governing /\ Measuring /\ Hot
  /\ Cool => coolAgo = 0

\* A batch is written in the second in which it is measured.
BatchInv ==
  \A m \in Monitors :
    /\ mpc[m] = "rows" => \A g \in Csv!Gpus : batch[m][g] = vram[g]
    /\ mpc[m] # "rows" => batch[m] = <<>>
    /\ truncate[m] => TRUE \in Truncate

HasRow == \E i \in 1..Len(file) : Csv!LastIn(file, i)

\* What a temperature says of the memories, one of which showed it age seconds
\* ago.
ToldOf(t, age) ==
  /\ age = 0 => \E g \in Csv!Gpus : t = vram[g]
  /\ hotFor > 0 /\ age <= hotFor => t >= EmergencyTemp
  /\ t < EmergencyExit => coolAgo <= age

\* While the memory has been hot the log has a row, no older than a period.
RowInv ==
  /\ \A i \in 1..Len(file) : Csv!LastIn(file, i) => ToldOf(file[i].temp, measured)
  /\ \A m \in Monitors : mpc[m] = "sleep" => HasRow
  /\ hotFor > 0 => HasRow /\ measured <= Csv!Period

\* The constants, as the proofs use them.
LEMMA FeedNumbers ==
  /\ Csv!Period \in Nat /\ Csv!Period >= 1 /\ Log!Period = Csv!Period
  /\ MaxAge \in Nat /\ MaxSeconds \in Nat /\ NumGpus \in Nat /\ NumGpus >= 1
  /\ Log!Gpus = Csv!Gpus
  /\ Csv!Period <= MaxAge /\ MaxAge + Csv!Period < MaxSeconds
  /\ PollInterval \in Nat /\ PollInterval >= 1 /\ PollLag \in Nat /\ Delay \in Nat
  /\ Delay = Csv!Period + PollInterval + PollLag
  /\ EmergencyTemp \in Int /\ EmergencyExit \in Int /\ EmergencyExit < EmergencyTemp
  /\ EmergencyTemp > 0
  /\ VramTemps \subseteq Nat /\ CoreTemps \subseteq Nat
  /\ Truncate \subseteq BOOLEAN
  /\ Csv!LogConfig /\ Csv!OneTruncates
<1>1. /\ Log!LogConfig /\ Log!OneTruncates
      /\ Log!Period <= MaxAge /\ MaxAge + Log!Period < MaxSeconds
      /\ PollLag \in Nat /\ EmergencyTemp > 0
  BY FeedConfig
<1>2. /\ NumGpus \in Nat \ {0} /\ Interval \in Nat \ {0} /\ Lag \in Nat
      /\ MaxAge \in Nat /\ MaxSeconds \in Nat /\ Truncate \subseteq BOOLEAN
  BY <1>1
<1>3. /\ PollInterval \in Nat /\ PollInterval >= 1
      /\ EmergencyTemp \in Int /\ EmergencyExit \in Int /\ EmergencyExit < EmergencyTemp
  BY ConfigValid DEF Validated
<1>4. VramTemps \subseteq Nat /\ CoreTemps \subseteq Nat
  BY Domains
<1>5. Csv!LogConfig /\ Csv!OneTruncates
  BY FeedConfig
<1>6. /\ Log!Period = Csv!Period /\ Log!Gpus = Csv!Gpus
      /\ Csv!Period \in Nat /\ Csv!Period >= 1
  BY <1>2 DEF Log!Period, Csv!Period, Log!Gpus, Csv!Gpus
<1>7. Delay \in Nat /\ Delay = Csv!Period + PollInterval + PollLag
  BY <1>1, <1>3, <1>6 DEF Delay
<1>8. NumGpus >= 1
  BY <1>2
<1> HIDE DEF Csv!LogConfig, Csv!OneTruncates
<1> QED BY <1>1, <1>2, <1>3, <1>4, <1>5, <1>6, <1>7, <1>8

\* The daemon and its answers leave the memory alone, and gddr6 does.
LEMMA HeatWatched ==
  ASSUME HeatInv, [FeedNext]_feedVars, ~FeedSecond
  PROVE  /\ UNCHANGED <<vram, coolAgo>>
         /\ hotFor' = hotFor \/ hotFor' = 0
         /\ hotFor' > 0 => Governing' /\ Measuring'
<1>1. CASE FanStep \/ Gddr6
  <2>1. UNCHANGED <<vram, coolAgo>> /\ Watch
    BY <1>1 DEF FanStep, Gddr6
  <2> QED BY <2>1 DEF Watch
<1>2. CASE Ask
  <2>1. UNCHANGED <<hotFor, coolAgo, vram, pc, mpc>>
    BY <1>2 DEF Ask, physical, vars, proc, Log!Stat, Log!ReadLog, Log!monitorVars
  <2> QED BY <2>1 DEF HeatInv, Governing, Measuring, Hot
<1>3. CASE Decide
  <2>1. UNCHANGED <<hotFor, coolAgo, vram, mpc>> /\ pc' \in {"group", "apply", "sleep"}
    BY <1>3 DEF Decide, physical, DecideGroup, SkipGroup, NextGroup
  <2> QED BY <2>1 DEF HeatInv, Governing, Measuring, Hot
<1>4. CASE UNCHANGED feedVars
  <2>1. UNCHANGED <<hotFor, coolAgo, vram, pc, mpc>>
    BY <1>4 DEF feedVars, physical, vars, proc, logVars
  <2> QED BY <2>1 DEF HeatInv, Governing, Measuring, Hot
<1> QED BY <1>1, <1>2, <1>3, <1>4 DEF FeedNext

\* A second of both processes.
LEMMA SecondTells ==
  ASSUME Csv!ProcOK', Csv!FileOK, Csv!LiveInv', HeatInv, FeedSecond
  PROVE  /\ UNCHANGED <<mpc, file, batch, truncate, asked, answer, pc, in_emergency, gi>>
         /\ measured' >= 1 /\ coolAgo' \in 0..MaxSeconds
         /\ vram' \in [Csv!Gpus -> VramTemps]
         /\ measured' = IF measured < MaxSeconds THEN measured + 1 ELSE measured
         /\ Cool' => coolAgo' = 0
         /\ coolAgo' = 0 \/ coolAgo' = coolAgo \/ coolAgo' = coolAgo + 1
         /\ coolAgo' > measured' => coolAgo > measured
         /\ hotFor' \in 0..Delay /\ hotFor' <= hotFor + 1
         /\ hotFor' > 0 => /\ Governing' /\ Measuring' /\ Hot /\ Hot'
                           /\ measured' = measured + 1 /\ measured' <= Csv!Period
                           /\ \E m \in Monitors : mpc[m] = "sleep"
<1> USE FeedNumbers
<1>1. Log!Second /\ (SleepChunk \/ Elapse \/ UNCHANGED vars)
  BY DEF FeedSecond, FanSecond
<1>2. UNCHANGED <<mpc, file, batch, truncate, asked, answer, pc, in_emergency, gi>>
  BY <1>1 DEF FeedSecond, Log!Second, Log!readerVars, SleepChunk, Elapse, vars, proc,
     groupVars
<1>3. measured \in 0..MaxSeconds
  BY DEF Csv!FileOK
<1>4. /\ measured' = IF measured < MaxSeconds THEN measured + 1 ELSE measured
      /\ measured' >= 1
  BY <1>1, <1>3 DEF Log!Second, Log!Later
<1>5. /\ vram' \in [Csv!Gpus -> VramTemps]
      /\ coolAgo' = IF Cool' THEN 0 ELSE Older(coolAgo, MaxSeconds)
      /\ hotFor' = IF Governing /\ Measuring /\ Hot /\ Hot' THEN Older(hotFor, Delay)
                   ELSE 0
  BY DEF FeedSecond
<1>6. coolAgo \in 0..MaxSeconds /\ hotFor \in 0..Delay
  BY DEF HeatInv
<1> HIDE DEF Hot, Cool
<1>7. /\ coolAgo' \in 0..MaxSeconds /\ (Cool' => coolAgo' = 0)
      /\ coolAgo' = 0 \/ coolAgo' = coolAgo \/ coolAgo' = coolAgo + 1
      /\ coolAgo' > measured' => coolAgo > measured
  BY <1>3, <1>4, <1>5, <1>6 DEF Older
<1>8. hotFor' \in 0..Delay /\ hotFor' <= hotFor + 1
  BY <1>5, <1>6 DEF Older
<1>9. ASSUME hotFor' > 0
      PROVE  /\ Governing' /\ Measuring' /\ Hot /\ Hot'
             /\ measured' = measured + 1 /\ measured' <= Csv!Period
             /\ \E m \in Monitors : mpc[m] = "sleep"
  <2>1. Governing /\ Measuring /\ Hot /\ Hot'
    BY <1>5, <1>9
  <2>2. PICK m \in Monitors : mpc[m] \in {"loop", "rows", "sleep"}
    BY <2>1 DEF Measuring
  <2>3. mpc[m] = "sleep"
    BY <1>1, <2>2 DEF Log!Second
  <2>4. measured' <= mslept'[m] /\ mslept'[m] \in 0..Csv!Period
    BY <1>2, <2>3 DEF Csv!LiveInv, Csv!ProcOK
  <2>5. measured' <= Csv!Period /\ measured' = measured + 1
    BY <1>3, <1>4, <2>4
  <2> QED BY <1>2, <2>1, <2>3, <2>5 DEF Governing, Measuring
<1> QED BY <1>2, <1>4, <1>5, <1>7, <1>8, <1>9

LEMMA HeatStep ==
  ASSUME Csv!ProcOK', Csv!FileOK, Csv!LiveInv', HeatInv, [FeedNext]_feedVars
  PROVE  HeatInv'
<1>1. CASE FeedSecond
  BY <1>1, SecondTells DEF HeatInv
<1>2. CASE ~FeedSecond
  BY <1>2, HeatWatched, FeedNumbers DEF HeatInv, Hot, Cool
<1> QED BY <1>1, <1>2

\* All but gddr6 and the clock leave the processes and the log alone.
LEMMA LogUntouched ==
  ASSUME [FeedNext]_feedVars, ~Gddr6, ~FeedSecond
  PROVE  UNCHANGED <<mpc, truncate, batch, next, mslept, file, mtime, measured, vram>>
<1>1. CASE FanStep \/ Decide
  BY <1>1 DEF FanStep, Decide, physical
<1>2. CASE Ask
  BY <1>2 DEF Ask, physical, Log!Stat, Log!ReadLog, Log!monitorVars, Log!fileVars
<1>3. CASE UNCHANGED feedVars
  BY <1>3 DEF feedVars, logVars, physical
<1> QED BY <1>1, <1>2, <1>3 DEF FeedNext

LEMMA BatchStep ==
  ASSUME Csv!ProcOK, Csv!ProcOK', Csv!FileOK, Csv!LiveInv', HeatInv, BatchInv,
         [FeedNext]_feedVars
  PROVE  BatchInv'
<1> USE DEF BatchInv
<1>1. CASE Gddr6
  <2>1. PICK m \in Monitors : Csv!Monitor(m)
    BY <1>1, SameMonitor DEF Gddr6
  <2>2. /\ vram' = vram
        /\ \A k \in Monitors : batch[k] = <<>> =>
             \A g \in DOMAIN batch'[k] : batch'[k][g] = vram[g]
    BY <1>1 DEF Gddr6
  <2>3. /\ \A k \in Monitors \ {m} :
             mpc'[k] = mpc[k] /\ batch'[k] = batch[k] /\ truncate'[k] = truncate[k]
        /\ truncate'[m] => truncate[m] \/ TRUE \in Truncate
    <3> USE DEF Csv!Goto, Csv!ProcOK
    <3>1. CASE Csv!Start(m)
      BY <3>1 DEF Csv!Start
    <3>2. CASE Csv!Close(m) \/ Csv!Leave(m) \/ Csv!Kill(m)
      BY <3>2, ZenonT(30) DEF Csv!Close, Csv!Leave, Csv!Kill, Csv!Gone
    <3>3. CASE Csv!Probe(m) \/ Csv!Open(m) \/ Csv!Begin(m) \/ Csv!Wake(m) \/ Csv!Signal(m)
      BY <3>3 DEF Csv!Probe, Csv!Open, Csv!Begin, Csv!Wake, Csv!Signal
    <3>4. CASE Csv!Loop(m)
      <4>1. /\ UNCHANGED truncate
            /\ \E p : mpc' = [mpc EXCEPT ![m] = p]
            /\ \E b : batch' = batch \/ batch' = [batch EXCEPT ![m] = b]
        BY <3>4 DEF Csv!Loop
      <4>2. PICK b : batch' = batch \/ batch' = [batch EXCEPT ![m] = b]
        BY <4>1
      <4> QED BY <4>1, <4>2
    <3>5. CASE Csv!WriteRow(m)
      BY <3>5 DEF Csv!WriteRow
    <3> QED BY <2>1, <3>1, <3>2, <3>3, <3>4, <3>5 DEF Csv!Monitor
  <2>4. \/ mpc'[m] # "rows" /\ batch'[m] = <<>>
        \/ mpc'[m] = "rows" /\ mpc[m] = "rows" /\ batch'[m] = batch[m]
        \/ mpc'[m] = "rows" /\ mpc[m] # "rows" /\ batch'[m] \in [Csv!Gpus -> VramTemps]
    <3> USE DEF Csv!Goto, Csv!ProcOK
    <3>1. CASE Csv!Loop(m)
      BY <3>1 DEF Csv!Loop
    <3>2. CASE Csv!WriteRow(m)
      BY <3>2 DEF Csv!WriteRow
    <3>3. CASE Csv!Close(m) \/ Csv!Leave(m) \/ Csv!Kill(m)
      BY <3>3 DEF Csv!Close, Csv!Leave, Csv!Kill, Csv!Gone
    <3>4. CASE \/ Csv!Start(m) \/ Csv!Probe(m) \/ Csv!Open(m) \/ Csv!Begin(m)
               \/ Csv!Wake(m) \/ Csv!Signal(m)
      BY <3>4 DEF Csv!Start, Csv!Probe, Csv!Open, Csv!Begin, Csv!Wake, Csv!Signal
    <3> QED BY <2>1, <3>1, <3>2, <3>3, <3>4 DEF Csv!Monitor
  <2>5. mpc'[m] = "rows" => \A g \in Csv!Gpus : batch'[m][g] = vram'[g]
    BY <2>2, <2>4
  <2> QED BY <2>2, <2>3, <2>4, <2>5, ZenonT(30)
<1>2. CASE FeedSecond
  <2>1. UNCHANGED <<mpc, batch, truncate>>
    BY <1>2, SecondTells
  <2>2. \A m \in Monitors : mpc[m] # "rows"
    BY <1>2 DEF FeedSecond, Log!Second
  <2> QED BY <2>1, <2>2
<1>3. CASE ~Gddr6 /\ ~FeedSecond
  BY <1>3, LogUntouched
<1> QED BY <1>1, <1>2, <1>3

\* A process that is measuring writes its row of the memory as it is, and no
\* other step of it changes what the last row says.
LEMMA RowStep ==
  ASSUME Csv!ProcOK, Csv!ProcOK', Csv!FileOK, Csv!FileOK', Csv!LiveInv',
         HeatInv, BatchInv, RowInv, [FeedNext]_feedVars
  PROVE  RowInv'
<1> USE FeedNumbers
<1>0. /\ hotFor \in 0..Delay /\ coolAgo \in 0..MaxSeconds
      /\ measured \in 0..MaxSeconds /\ measured' \in 0..MaxSeconds
  BY DEF HeatInv, Csv!FileOK
<1>1. CASE Gddr6
  <2>1. PICK m \in Monitors : Csv!Monitor(m)
    BY <1>1, SameMonitor DEF Gddr6
  <2>2. /\ UNCHANGED <<vram, coolAgo>>
        /\ hotFor' = hotFor \/ hotFor' = 0
        /\ hotFor' > 0 => Measuring'
    BY <1>1 DEF Gddr6, Watch
  <2>3. CASE Csv!WriteRow(m)
    <3> DEFINE l == Csv!Row(m, next[m], batch[m][next[m]])
    <3>1. /\ mpc[m] = "rows" /\ measured' = 0
          /\ file' = Append(file, l)
      BY <2>3 DEF Csv!WriteRow
    <3>2. batch[m][next[m]] = vram[next[m]] /\ next[m] \in Csv!Gpus
          /\ batch[m] \in [Csv!Gpus -> VramTemps]
      BY <3>1 DEF BatchInv, Csv!ProcOK
    <3>3. l \in Csv!Lines /\ Csv!IsRow(l) /\ l.temp = vram[next[m]]
      BY <3>2, Csv!LineTypes DEF Csv!Row, Csv!IsRow
    <3>4. file \in Seq(Csv!Lines)
      BY DEF Csv!FileOK
    <3> HIDE DEF l
    <3>5. /\ Len(file) + 1 \in 1..Len(file') /\ Csv!LastIn(file', Len(file) + 1)
          /\ \A i : Csv!LastIn(file', i) => i = Len(file) + 1
          /\ file'[Len(file) + 1] = l
      BY <3>1, <3>3, <3>4, Csv!RowIsLast
    <3>6. HasRow'
      BY <3>5 DEF HasRow
    <3>7. \A i \in 1..Len(file') : Csv!LastIn(file', i) => file'[i].temp = vram[next[m]]
      BY <3>3, <3>5
    <3>8. /\ hotFor' > 0 => vram[next[m]] >= EmergencyTemp
          /\ vram[next[m]] < EmergencyExit => coolAgo = 0
      BY <2>2, <3>2 DEF HeatInv, Hot, Cool
    <3>9. \A t : t = vram[next[m]] => ToldOf(t, measured)'
      BY <2>2, <3>1, <3>2, <3>8 DEF ToldOf
    <3> QED BY <3>1, <3>6, <3>7, <3>9 DEF RowInv
  <2>4. CASE ~Csv!WriteRow(m)
    <3>1. measured' = measured
      BY <2>1, <2>4 DEF Csv!Monitor, Csv!Start, Csv!Probe, Csv!Open, Csv!Begin,
         Csv!Loop, Csv!Wake, Csv!Close, Csv!Leave, Csv!Signal, Csv!Kill, Csv!fileVars
    <3>2. \A k \in Monitors : mpc'[k] = "sleep" => mpc[k] = "sleep"
      BY <2>1, <2>4 DEF Csv!Monitor, Csv!Start, Csv!Probe, Csv!Open, Csv!Begin,
         Csv!Loop, Csv!Wake, Csv!Close, Csv!Leave, Csv!Signal, Csv!Kill, Csv!Gone,
         Csv!Goto, Csv!ProcOK
    <3>3. CASE Csv!SameLast(file, file')
      <4>1. HasRow => HasRow'
        BY <3>3 DEF HasRow, Csv!SameLast, Csv!LastIn
      <4>2. \A t : ToldOf(t, measured) => ToldOf(t, measured)'
        BY <2>2, <3>1 DEF ToldOf
      <4>3. \A i \in 1..Len(file') :
              Csv!LastIn(file', i) => /\ i \in 1..Len(file) /\ Csv!LastIn(file, i)
                                      /\ file'[i] = file[i]
        BY <3>3 DEF Csv!SameLast, Csv!LastIn
      <4> QED BY <2>2, <3>1, <3>2, <4>1, <4>2, <4>3 DEF RowInv
    <3>4. CASE mpc[m] = "open" /\ truncate[m] /\ file' = <<>>
      <4>1. \A k \in Monitors : k = m
        BY <3>4 DEF BatchInv, Csv!OneTruncates
      <4>2. Csv!Open(m) \/ Csv!Signal(m) \/ Csv!Kill(m)
        BY <2>1, <3>4 DEF Csv!Monitor, Csv!Start, Csv!Probe, Csv!Begin, Csv!Loop,
           Csv!WriteRow, Csv!Wake, Csv!Close, Csv!Leave
      <4>3. mpc'[m] \in {"begin", "mute", "open", "off"}
        BY <3>4, <4>2 DEF Csv!Open, Csv!Signal, Csv!Kill, Csv!Gone, Csv!Goto, Csv!ProcOK
      <4>4. ~Measuring' /\ hotFor' = 0
        <5>1. ~Measuring'
          BY <4>1, <4>3 DEF Measuring
        <5> QED BY <1>0, <2>2, <5>1
      <4>5. \A k \in Monitors : mpc'[k] # "sleep"
        BY <4>1, <4>3
      <4>6. \A i \in 1..Len(file') : FALSE
        BY <3>4
      <4> QED BY <4>4, <4>5, <4>6 DEF RowInv
    <3> QED BY <2>1, <2>4, <3>3, <3>4, Csv!LastKept
  <2> QED BY <2>3, <2>4
<1>2. CASE FeedSecond
  <2>1. /\ UNCHANGED <<mpc, file>>
        /\ measured' = IF measured < MaxSeconds THEN measured + 1 ELSE measured
        /\ measured' >= 1
        /\ coolAgo' = 0 \/ coolAgo' = coolAgo \/ coolAgo' = coolAgo + 1
        /\ coolAgo' > measured' => coolAgo > measured
        /\ hotFor' \in 0..Delay /\ hotFor' <= hotFor + 1
        /\ coolAgo' \in 0..MaxSeconds
        /\ hotFor' > 0 => /\ Hot
                          /\ measured' = measured + 1 /\ measured' <= Csv!Period
                          /\ \E m \in Monitors : mpc[m] = "sleep"
    BY <1>2, SecondTells
  <2>2. \A t \in Int : ToldOf(t, measured) => ToldOf(t, measured)'
    <3> SUFFICES ASSUME NEW t \in Int, ToldOf(t, measured) PROVE ToldOf(t, measured)'
      OBVIOUS
    <3>1. measured' # 0
      BY <1>0, <2>1
    <3>2. ASSUME hotFor' > 0, measured' <= hotFor' PROVE t >= EmergencyTemp
      <4>1. CASE measured = 0
        BY <2>1, <3>2, <4>1 DEF ToldOf, Hot
      <4>2. CASE measured > 0
        BY <1>0, <2>1, <3>2, <4>2 DEF ToldOf
      <4> QED BY <1>0, <4>1, <4>2
    <3>3. ASSUME t < EmergencyExit PROVE coolAgo' <= measured'
      BY <1>0, <2>1, <3>3 DEF ToldOf
    <3> QED BY <3>1, <3>2, <3>3 DEF ToldOf
  <2>3. \A i \in 1..Len(file) : Csv!LastIn(file, i) => file[i].temp \in Int
    <3> SUFFICES ASSUME NEW i \in 1..Len(file), Csv!IsRow(file[i])
                 PROVE  file[i].temp \in Int
      BY DEF Csv!LastIn
    <3>1. file[i] \in Csv!Lines
      BY DEF Csv!FileOK
    <3>2. \A l \in Csv!Lines : Csv!IsRow(l) => l.temp \in VramTemps
      BY DEF Csv!Lines, Csv!Kinds, Csv!IsRow
    <3>3. file[i].temp \in VramTemps
      BY <3>1, <3>2
    <3>4. VramTemps \subseteq Int
      BY Domains
    <3> QED BY <3>3, <3>4, Zenon
  <2>4. HasRow' = HasRow
    BY <2>1 DEF HasRow, Csv!LastIn, Csv!IsRow
  <2>5. \A i : Csv!LastIn(file, i)' <=> Csv!LastIn(file, i)
    BY <2>1 DEF Csv!LastIn, Csv!IsRow
  <2> QED BY <2>1, <2>2, <2>3, <2>4, <2>5 DEF RowInv
<1>3. CASE ~Gddr6 /\ ~FeedSecond
  <2>1. UNCHANGED <<mpc, file, measured, vram>>
    BY <1>3, LogUntouched
  <2>2. UNCHANGED coolAgo /\ (hotFor' = hotFor \/ hotFor' = 0)
    BY <1>3, HeatWatched
  <2>3. \A t : ToldOf(t, measured) => ToldOf(t, measured)'
    BY <2>1, <2>2 DEF ToldOf
  <2>4. HasRow' = HasRow
    BY <2>1 DEF HasRow, Csv!LastIn, Csv!IsRow
  <2>5. \A i : Csv!LastIn(file, i)' <=> Csv!LastIn(file, i)
    BY <2>1 DEF Csv!LastIn, Csv!IsRow
  <2> QED BY <2>1, <2>2, <2>3, <2>4, <2>5 DEF RowInv
<1> QED BY <1>1, <1>2, <1>3

--------------------------------------------------------------------------------
(* What read() answers, and what the groups make of it *)

\* While the memory has been hot for a period the answer says so, and a
\* cool one is of a time when the memory was cool.
AnswerInv ==
  /\ asked /\ hotFor >= Csv!Period =>
       answer.kind = "value" /\ answer.temp >= EmergencyTemp
  /\ answer.kind = "value" =>
       /\ answer.temp \in Nat /\ answer.age \in Nat
       /\ answer.temp < EmergencyExit => coolAgo <= answer.age

\* A log of hot memory is there, is fresh and has a row.
LEMMA HotLog ==
  ASSUME Csv!ProcOK, Csv!FileOK, Csv!AgeInv, HeatInv, RowInv, hotFor >= Csv!Period
  PROVE  HasRow /\ file # <<>> /\ mtime <= MaxAge /\ measured <= hotFor
<1> USE FeedNumbers
<1>1. hotFor > 0 /\ hotFor \in Nat
  BY DEF HeatInv
<1>2. HasRow /\ measured <= hotFor
  BY <1>1 DEF RowInv, Csv!FileOK
<1>3. file # <<>>
  BY <1>2 DEF HasRow
<1>4. PICK m \in Monitors : mpc[m] \in {"loop", "rows", "sleep"}
  BY <1>1 DEF HeatInv, Measuring
<1>5. mslept[m] \in 0..Csv!Period
  BY DEF Csv!ProcOK
<1>6. mtime <= Csv!Period
  BY <1>4, <1>5 DEF Csv!AgeInv, Csv!FileOK
<1> QED BY <1>2, <1>3, <1>6 DEF Csv!FileOK

\* What a read of the log returns.
LEMMA ReadTells ==
  ASSUME Csv!ProcOK, Csv!FileOK, Csv!RowsKnown, Csv!AgeInv, HeatInv, RowInv,
         Csv!ReadLog
  PROVE  /\ hotFor >= Csv!Period =>
              answer'.kind = "value" /\ answer'.temp >= EmergencyTemp
         /\ answer'.kind = "value" =>
              /\ answer'.temp \in Nat /\ answer'.age \in Nat
              /\ answer'.temp < EmergencyExit => coolAgo <= answer'.age
<1> USE FeedNumbers
<1>1. answer' = IF Csv!DataLine = 0 \/ file[Csv!DataLine].temp <= 0
                THEN Csv!Nothing ELSE Csv!Value
  BY DEF Csv!ReadLog, Csv!Answer
<1>2. Csv!Nothing.kind = "none"
  BY DEF Csv!Nothing
<1>3. /\ Csv!Value.kind = "value" /\ Csv!Value.temp = file[Csv!DataLine].temp
      /\ Csv!Value.age = measured
  BY DEF Csv!Value
<1>4. ASSUME Csv!DataLine # 0
      PROVE  /\ Csv!LastIn(file, Csv!DataLine)
             /\ ToldOf(file[Csv!DataLine].temp, measured)
             /\ file[Csv!DataLine].temp \in Nat
  <2>1. Csv!LastIn(file, Csv!DataLine)
    BY <1>4, Csv!DataLineLast
  <2>2. Csv!DataLine \in 1..Len(file) /\ Csv!IsRow(file[Csv!DataLine])
    BY <2>1 DEF Csv!LastIn
  <2>3. file[Csv!DataLine] \in Csv!Lines
    BY <2>2 DEF Csv!FileOK
  <2>4. \A l \in Csv!Lines : Csv!IsRow(l) => l.temp \in VramTemps
    BY DEF Csv!Lines, Csv!Kinds, Csv!IsRow
  <2>5. file[Csv!DataLine].temp \in VramTemps
    BY <2>2, <2>3, <2>4
  <2>6. file[Csv!DataLine].temp \in Nat
    BY <2>5, Domains, Zenon
  <2> QED BY <2>1, <2>2, <2>6 DEF RowInv
<1>5. ASSUME hotFor >= Csv!Period
      PROVE  Csv!DataLine # 0 /\ file[Csv!DataLine].temp >= EmergencyTemp
  <2>1. HasRow /\ measured <= hotFor
    BY <1>5, HotLog
  <2>2. PICK i \in 1..Len(file) : Csv!LastIn(file, i)
    BY <2>1 DEF HasRow
  <2>3. Csv!DataLine = i
    BY <2>2, Csv!DataLineIs
  <2>4. i # 0
    BY <2>2
  <2> QED BY <1>4, <1>5, <2>1, <2>3, <2>4 DEF ToldOf, HeatInv
<1>6. measured \in Nat
  BY DEF Csv!FileOK
<1>7. CASE answer' = Csv!Nothing
  BY <1>1, <1>2, <1>4, <1>5, <1>7, <1>3
<1>8. CASE Csv!DataLine # 0 /\ answer' = Csv!Value
  BY <1>3, <1>4, <1>5, <1>6, <1>8 DEF ToldOf
<1> QED BY <1>1, <1>7, <1>8

LEMMA AnswerStep ==
  ASSUME Csv!ProcOK, Csv!ProcOK', Csv!FileOK, Csv!LiveInv', Csv!RowsKnown,
         Csv!AgeInv, AskedInv, AskedInv', HeatInv, RowInv, AnswerInv,
         [FeedNext]_feedVars
  PROVE  AnswerInv'
<1> USE FeedNumbers
<1>0. hotFor \in Nat /\ Log!Nothing.kind # "value"
  BY DEF HeatInv, Log!Nothing
<1>1. CASE FeedSecond
  <2>1. UNCHANGED <<asked, answer, pc>>
    BY <1>1, SecondTells
  <2>2. pc # "group"
    BY <1>1 DEF FeedSecond, FanSecond, SleepChunk, Elapse, Gone
  <2>3. ~asked /\ answer = Log!Nothing
    BY <2>2 DEF AskedInv
  <2> QED BY <1>0, <2>1, <2>3 DEF AnswerInv
<1>2. CASE Gddr6 \/ UNCHANGED feedVars
  <2>1. UNCHANGED <<asked, answer, coolAgo>> /\ (hotFor' = hotFor \/ hotFor' = 0)
    <3>1. CASE Gddr6
      BY <3>1 DEF Gddr6, Watch, Log!Monitor, Log!Start, Log!Probe, Log!Open,
         Log!Begin, Log!Loop, Log!WriteRow, Log!Wake, Log!Close, Log!Leave,
         Log!Signal, Log!Kill, Log!readerVars
    <3>2. CASE UNCHANGED feedVars
      BY <3>2 DEF feedVars, logVars, physical
    <3> QED BY <1>2, <3>1, <3>2
  <2> QED BY <1>0, <2>1 DEF AnswerInv
<1>3. CASE FanStep
  <2>1. /\ coolAgo' = coolAgo /\ (hotFor' = hotFor \/ hotFor' = 0)
        /\ asked' => asked /\ answer' = answer
        /\ ~asked' => answer' = Log!Nothing
    BY <1>3 DEF FanStep, Watch
  <2> QED BY <1>0, <2>1 DEF AnswerInv, AskedInv
<1>4. CASE Decide
  <2>1. ~asked' /\ answer' = Log!Nothing
    BY <1>4 DEF Decide
  <2> QED BY <1>0, <2>1 DEF AnswerInv
<1>5. CASE Ask
  <2>1. UNCHANGED <<hotFor, coolAgo>> /\ asked' = (rpc' = "idle") /\ ~asked
        /\ (Log!Stat \/ Log!ReadLog)
    BY <1>5 DEF Ask, physical
  <2>2. CASE Log!ReadLog
    <3>1. Csv!ReadLog
      BY <2>2, SameReader
    <3> QED BY <2>1, <3>1, ReadTells DEF AnswerInv
  <2>3. CASE Log!Stat
    <3>1. answer' \in {answer, Log!Nothing, Log!Stale} /\ answer = Log!Nothing
      BY <2>1, <2>3 DEF Log!Stat, Log!Answer, AskedInv
    <3>2. answer'.kind # "value"
      BY <1>0, <3>1 DEF Log!Stale
    <3>3. ASSUME hotFor >= Csv!Period PROVE ~asked'
      <4>1. file # <<>> /\ mtime <= MaxAge
        BY <3>3, HotLog
      <4>2. rpc' = "open"
        BY <2>3, <4>1 DEF Log!Stat, Log!Empty, Log!TooOld, Csv!FileOK
      <4> QED BY <2>1, <4>2
    <3> QED BY <2>1, <3>2, <3>3 DEF AnswerInv
  <2> QED BY <2>1, <2>2, <2>3
<1> QED BY <1>1, <1>2, <1>3, <1>4, <1>5 DEF FeedNext

\* The groups that are told of the memory.
Told == {g \in Groups : Source[g] # "gpu_core"}

\* Of memory that has been hot for a period, the groups the tick has served
\* are in emergency; after a poll more, all of them.
TickInv ==
  /\ late \in 0..PollLag
  /\ pc # "sleep" => slept = 0 /\ late = 0
  /\ pc \in {"loop", "sleep"} => gi = 1
  /\ hotFor >= Csv!Period =>
       /\ pc \in {"group", "apply"} => \A g \in Told : g < gi => in_emergency[g]
       /\ pc = "apply" /\ gi \in Told => in_emergency[gi]
  /\ pc = "sleep" /\ hotFor >= Csv!Period + slept + late =>
       \A g \in Told : in_emergency[g]

\* The step from one group to the next.
LEMMA TickGoesOn ==
  ASSUME TypeOK, TypeOK', HeatInv, TickInv, NextGroup, pc \in {"group", "apply"},
         hotFor' = hotFor \/ hotFor' = 0, slept' = slept, late' = 0,
         hotFor >= Csv!Period => \A g \in Told : g <= gi => in_emergency'[g]
  PROVE  TickInv'
<1> USE FeedNumbers
<1>1. hotFor \in Nat /\ slept = 0 /\ gi \in Groups /\ gi' \in Groups
  BY SMTT(30) DEF HeatInv, TickInv, TypeOK
<1>2. Len(Targets) \in Nat /\ Groups = 1..Len(Targets) /\ Told \subseteq Groups
  BY DeviceOf DEF Groups, Told
<1>3. \/ pc' = "group" /\ gi' = gi + 1
      \/ pc' = "sleep" /\ gi' = 1 /\ gi >= Len(Targets)
  BY <1>1, <1>2 DEF NextGroup
<1>4. CASE pc' = "group" /\ gi' = gi + 1
  BY <1>1, <1>2, <1>4 DEF TickInv
<1>5. CASE pc' = "sleep" /\ gi' = 1 /\ gi >= Len(Targets)
  BY <1>1, <1>2, <1>5 DEF TickInv
<1> QED BY <1>3, <1>4, <1>5

\* The decision of a group whose answer came from hot memory, or of one that
\* did not ask.
LEMMA DecideHot ==
  ASSUME TypeOK, AnswerInv, HeatInv, Decide, hotFor >= Csv!Period
  PROVE  /\ gi \in Told => in_emergency'[gi]
         /\ \A g \in Groups \ {gi} : in_emergency'[g] = in_emergency[g]
<1> USE FeedNumbers
<1>1. PICK c \in CoreTemps : \/ DecideGroup /\ seen'[gi] = Read(gi, c)
                             \/ SkipGroup /\ Read(gi, c) = NoReading
  BY DEF Decide
<1>2. gi \in Groups /\ in_emergency \in [Groups -> BOOLEAN] /\ gi \in DOMAIN seen
      /\ c \in Nat
  BY <1>1 DEF TypeOK
<1>3. ASSUME gi \in Told
      PROVE  Read(gi, c) >= EmergencyTemp /\ Read(gi, c) # NoReading
  <2>1. Source[gi] \in {"gpu_vram", "gpu_max"}
    BY <1>2, <1>3, ConfigValid DEF Validated, Told
  <2>2. asked
    <3>1. pc = "group"
      BY <1>1 DEF DecideGroup, SkipGroup
    <3> QED BY <1>3, <3>1 DEF Decide, Told
  <2>3. answer.kind = "value" /\ answer.temp >= EmergencyTemp /\ answer.temp \in Nat
    BY <2>2 DEF AnswerInv
  <2>4. FromLog = answer.temp
    BY <2>3 DEF FromLog
  <2>5. Read(gi, c) = answer.temp \/ Read(gi, c) = Max2(c, answer.temp)
    BY <2>1, <2>4 DEF Read
  <2> QED BY <1>2, <2>3, <2>5 DEF Max2, NoReading
<1>4. CASE DecideGroup /\ seen'[gi] = Read(gi, c)
  <2>1. PICK t \in Reads(gi) \ {NoReading} :
          /\ seen' = [seen EXCEPT ![gi] = t]
          /\ in_emergency' = [in_emergency EXCEPT ![gi] = EmergencyAfter(gi, t)]
    BY <1>4 DEF DecideGroup
  <2>2. seen'[gi] = t /\ in_emergency'[gi] = EmergencyAfter(gi, t)
        /\ \A g \in Groups \ {gi} : in_emergency'[g] = in_emergency[g]
    BY <1>2, <2>1
  <2> QED BY <1>3, <1>4, <2>2 DEF EmergencyAfter
<1>5. CASE SkipGroup /\ Read(gi, c) = NoReading
  BY <1>3, <1>5 DEF SkipGroup, groupVars
<1> QED BY <1>1, <1>4, <1>5

LEMMA TickStep ==
  ASSUME Csv!ProcOK', Csv!FileOK, Csv!LiveInv', TypeOK, TypeOK', HeatInv, AnswerInv,
         TickInv, [FeedNext]_feedVars
  PROVE  TickInv'
<1> USE FeedNumbers
<1>0. /\ hotFor \in Nat /\ Len(Targets) \in Nat /\ Groups = 1..Len(Targets)
      /\ gi \in Groups /\ Told \subseteq Groups /\ late \in Nat /\ 0 \in 0..PollLag
  BY DeviceOf DEF HeatInv, Groups, TypeOK, Told, TickInv
<1>1. CASE FeedSecond
  <2>1. UNCHANGED <<pc, gi, in_emergency>> /\ hotFor' \in Nat /\ hotFor' <= hotFor + 1
    BY <1>1, SecondTells
  <2>2. \/ pc = "sleep" /\ slept' = slept + 1 /\ late' = late
        \/ pc = "sleep" /\ slept' = slept /\ late' = late + 1 /\ late' \in 0..PollLag
        \/ pc \in {"down", "restart"} /\ slept' = slept /\ late' = late
    <3>1. late \in 0..PollLag
      BY DEF TickInv
    <3>2. late < PollLag => late + 1 \in 0..PollLag
      BY <3>1
    <3> QED
      BY <1>1, <3>2 DEF FeedSecond, FanSecond, SleepChunk, Elapse, Gone, vars, proc, procVars
  <2>3. slept \in Nat
    BY DEF TypeOK
  <2> QED BY <1>0, <2>1, <2>2, <2>3 DEF TickInv
<1>2. CASE ~FeedSecond /\ (Ask \/ Gddr6 \/ UNCHANGED feedVars)
  <2>1. UNCHANGED <<pc, gi, in_emergency, slept, late>>
    BY <1>2 DEF Ask, Gddr6, feedVars, vars, proc, procVars, groupVars
  <2>2. hotFor' = hotFor \/ hotFor' = 0
    BY <1>2, HeatWatched
  <2>3. slept \in Nat
    BY DEF TypeOK
  <2> QED BY <1>0, <2>1, <2>2, <2>3 DEF TickInv
<1>3. CASE ~FeedSecond /\ Decide
  <2>1. (hotFor' = hotFor \/ hotFor' = 0) /\ late' = late
    BY <1>3, HeatWatched DEF Decide
  <2>2. /\ pc = "group" /\ slept' = slept
        /\ NextGroup \/ (pc' = "apply" /\ UNCHANGED gi)
    <3> HIDE DEF NextGroup
    <3>1. DecideGroup \/ SkipGroup
      BY <1>3 DEF Decide
    <3>2. CASE DecideGroup
      <4>1. PICK t \in Reads(gi) \ {NoReading} :
              \/ TooSoon(gi, Decided(gi, t)) /\ NextGroup /\ UNCHANGED want
              \/ /\ ~TooSoon(gi, Decided(gi, t))
                 /\ want' = Decided(gi, t)
                 /\ pc' = "apply" /\ UNCHANGED <<gi, ki>>
        BY <3>2 DEF DecideGroup
      <4>2. pc = "group" /\ slept' = slept
        BY <3>2 DEF DecideGroup, procVars
      <4> QED BY <4>1, <4>2
    <3>3. CASE SkipGroup
      BY <3>3 DEF SkipGroup, procVars
    <3> QED BY <3>1, <3>2, <3>3
  <2>3. hotFor >= Csv!Period => \A g \in Told : g <= gi => in_emergency'[g]
    BY <1>0, <1>3, <2>2, DecideHot DEF TickInv
  <2>4. CASE NextGroup
    <3>1. late' = 0
      BY <2>1, <2>2 DEF TickInv
    <3> QED BY <2>1, <2>2, <2>3, <2>4, <3>1, TickGoesOn
  <2>5. CASE pc' = "apply" /\ UNCHANGED gi
    BY <1>0, <2>1, <2>2, <2>3, <2>5 DEF TickInv
  <2> QED BY <2>2, <2>4, <2>5
<1>4. CASE ~FeedSecond /\ FanStep
  <2>1. /\ hotFor' = hotFor \/ hotFor' = 0
        /\ late' = IF pc' = pc THEN late ELSE 0
    BY <1>4, HeatWatched DEF FanStep
  <2> USE 0 \in 0..PollLag
  <2>2. CASE Launch \/ Crash \/ Exit
    <3>1. pc' \in {"nvml_init", "down", "restart"} /\ slept' = 0
      BY <2>2 DEF Launch, Crash, Exit, Fresh, FailedExit
    <3> QED BY <2>1, <3>1 DEF TickInv
  <2>3. CASE Signal
    <3>1. UNCHANGED <<pc, gi, in_emergency, slept>>
      BY <2>3 DEF Signal, groupVars
    <3>2. slept \in Nat
      BY DEF TypeOK
    <3> QED BY <1>0, <2>1, <3>1, <3>2 DEF TickInv
  <2>4. CASE Startup
    <3>1. /\ pc # "sleep" /\ slept' = slept
          /\ pc' \in Alive \ {"group", "apply", "sleep"}
          /\ pc' = "loop" => gi' = 1
      BY <2>4 DEF Startup, NvmlInit, Resolve, ClaimRead, ClaimWrite, Abandon,
         NextClaim, Alive
    <3> QED BY <2>1, <3>1 DEF TickInv
  <2>5. CASE Loop
    <3>1. pc = "loop" /\ pc' \in {"restore", "group"} /\ UNCHANGED <<slept, gi>>
      BY <2>5, FeedConfig DEF Loop, Fail
    <3> QED BY <1>0, <2>1, <3>1 DEF TickInv
  <2>6. CASE Apply
    <3>1. /\ pc = "apply" /\ UNCHANGED <<slept, in_emergency>>
          /\ NextGroup \/ UNCHANGED <<pc, gi>>
      BY <2>6 DEF Apply, procVars
    <3>2. hotFor >= Csv!Period => \A g \in Told : g <= gi => in_emergency'[g]
      BY <1>0, <3>1 DEF TickInv
    <3>3. CASE NextGroup
      <4>1. late' = 0
        BY <2>1, <3>1 DEF TickInv
      <4> QED BY <2>1, <3>1, <3>2, <3>3, <4>1, TickGoesOn
    <3>4. CASE UNCHANGED <<pc, gi>>
      BY <1>0, <2>1, <3>1, <3>4 DEF TickInv
    <3> QED BY <3>1, <3>3, <3>4
  <2>7. CASE Wake
    <3>1. pc = "sleep" /\ pc' = "loop" /\ slept' = 0 /\ gi' = gi
      BY <2>7 DEF Wake
    <3> QED BY <2>1, <3>1 DEF TickInv
  <2>8. CASE RestoreFan \/ RestorePwm \/ RestoreMode
    <3>1. /\ pc # "sleep" /\ slept' = slept
          /\ pc' \in {"restore", "restore_mode", "nvml_shutdown"}
      BY <2>8 DEF RestoreFan, RestorePwm, RestoreMode, NextRestore, procVars
    <3> QED BY <2>1, <3>1 DEF TickInv
  <2> QED
    BY <1>4, <2>2, <2>3, <2>4, <2>5, <2>6, <2>7, <2>8 DEF FanStep
<1> QED BY <1>1, <1>2, <1>3, <1>4 DEF FeedNext

--------------------------------------------------------------------------------
(* The theorems *)

FeedInv == HeatInv /\ BatchInv /\ RowInv /\ AnswerInv /\ TickInv

LEMMA FeedStarts == FeedInit => FeedInv
<1> SUFFICES ASSUME FeedInit PROVE FeedInv
  OBVIOUS
<1> USE FeedNumbers DEF FeedInit, Init, Log!Init
<1>1. HeatInv /\ BatchInv
  BY DEF HeatInv, BatchInv
<1>2. RowInv
  BY DEF RowInv
<1>3. AnswerInv /\ TickInv
  BY DEF AnswerInv, TickInv, Log!Nothing
<1> QED BY <1>1, <1>2, <1>3 DEF FeedInv

LEMMA FeedAlways == FeedSpec => []FeedInv
<1> DEFINE LogInv == /\ Csv!ProcOK /\ Csv!FileOK /\ Csv!RowsKnown
                     /\ Csv!AgeInv /\ Csv!LiveInv
<1>1. /\ LogInv /\ LogInv' /\ AskedInv /\ AskedInv' /\ TypeOK /\ TypeOK'
      /\ FeedInv /\ [FeedNext]_feedVars
      => FeedInv'
  BY HeatStep, BatchStep, RowStep, AnswerStep, TickStep DEF FeedInv
<1>2. FeedSpec => []TypeOK
  BY DaemonRefined, TypeCorrect, PTL
<1> QED BY <1>1, <1>2, FeedStarts, LogAlways, AlwaysAsked, PTL DEF FeedSpec

\* fan-governor.py:402, "emergency_temp forces 100 %", told of the memory
\* itself: for every interval of gddr6, every poll, every bound on their delays,
\* every number of groups, GPUs and gddr6 processes, when the memory of every
\* GPU has been that hot for a period and a poll, with both programs at work,
\* every group that reads the VRAM is in emergency and at full speed but for the
\* rate limit.
THEOREM HotAnswered == FeedSpec => []HotVramAnswered
<1>1. TypeOK /\ FeedInv /\ EmergencyCools => HotVramAnswered
  <2> SUFFICES ASSUME TypeOK, TickInv, EmergencyCools, pc = "sleep", hotFor = Delay
               PROVE  \A g \in Groups : Source[g] # "gpu_core" =>
                        /\ in_emergency[g]
                        /\ last_pwm[g] >= 100 - Max2(MinPwmStep - 1, 0)
    BY DEF FeedInv, HotVramAnswered
  <2>1. slept \in 0..PollInterval /\ late \in 0..PollLag
    BY DEF TypeOK, TickInv
  <2>2. hotFor >= Csv!Period + slept + late
    BY <2>1, FeedNumbers
  <2> QED BY <2>2 DEF TickInv, EmergencyCools, Told
<1> QED BY <1>1, DaemonRefined, TypeCorrect, EmergencyCooled, FeedAlways, PTL

\* An emergency ends on a reading of the last session only if the memory of
\* some GPU was cooler than emergency_exit at most MaxAge and a period ago,
\* wherever kills, signals and truncation fall.
THEOREM Released == FeedSpec => ReleasedOnFresh
<1>1. TypeOK /\ AskedInv /\ FeedInv /\ Csv!LiveInv =>
        [Decide /\ answer.kind = "value" /\ answer.current =>
           \A g \in Groups : in_emergency[g] /\ ~in_emergency'[g] =>
             coolAgo <= MaxAge + Log!Period]_feedVars
  <2> SUFFICES ASSUME TypeOK, AskedInv, HeatInv, AnswerInv, Csv!LiveInv, Decide,
                      answer.kind = "value", answer.current, NEW g \in Groups,
                      in_emergency[g], ~in_emergency'[g]
               PROVE  coolAgo <= MaxAge + Csv!Period
    BY FeedNumbers DEF FeedInv
  <2> USE FeedNumbers
  <2>1. PICK c \in CoreTemps : \/ DecideGroup /\ seen'[gi] = Read(gi, c)
                               \/ SkipGroup
    BY DEF Decide
  <2>2. DecideGroup /\ seen'[gi] = Read(gi, c)
    BY <2>1 DEF SkipGroup, groupVars
  <2>3. PICK t \in Reads(gi) \ {NoReading} :
          /\ seen' = [seen EXCEPT ![gi] = t]
          /\ in_emergency' = [in_emergency EXCEPT ![gi] = EmergencyAfter(gi, t)]
    BY <2>2 DEF DecideGroup
  <2>4. gi \in Groups /\ in_emergency \in [Groups -> BOOLEAN] /\ gi \in DOMAIN seen
    BY DEF TypeOK
  <2>5. g = gi /\ seen'[gi] = t /\ ~EmergencyAfter(gi, t)
    BY <2>3, <2>4
  <2>6. answer.temp \in Nat /\ answer.age \in Nat /\ c \in Nat
    BY <2>1 DEF AnswerInv
  <2>7. asked /\ Source[gi] \in {"gpu_vram", "gpu_max"}
    <3>1. asked
      BY DEF AskedInv, Log!Nothing
    <3>2. Source[gi] \in {"gpu_core", "gpu_vram", "gpu_max"}
      BY <2>4, ConfigValid DEF Validated
    <3> QED BY <3>1, <3>2 DEF AskedInv
  <2>8. t = answer.temp \/ t = Max2(c, answer.temp)
    BY <2>2, <2>5, <2>7 DEF Read, FromLog
  <2>9. t >= answer.temp /\ t \in Int
    BY <2>6, <2>8 DEF Max2
  <2>10. t < EmergencyExit
    BY <2>5, <2>9 DEF EmergencyAfter
  <2>11. coolAgo <= answer.age
    BY <2>6, <2>9, <2>10 DEF AnswerInv
  <2>12. answer.age <= MaxAge + Csv!Period
    BY DEF Csv!LiveInv, Csv!LiveSession
  <2> QED BY <2>6, <2>11, <2>12 DEF HeatInv
<1>2. FeedSpec => []TypeOK
  BY DaemonRefined, TypeCorrect, PTL
<1> QED BY <1>1, <1>2, AlwaysAsked, FeedAlways, LogAlways, PTL DEF ReleasedOnFresh
================================================================================
