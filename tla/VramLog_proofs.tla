----------------------------- MODULE VramLog_proofs -----------------------------
(***************************************************************************)
(* Theorems about VramLog: its type invariant, that the header is the      *)
(* first line and the only one, and that a log called stale has no gddr6   *)
(* measuring for it.                                                       *)
(***************************************************************************)
EXTENDS VramLog, TLAPS, SequenceTheorems, WellFoundedInduction, NaturalsInduction

MonitorSites == {"off", "probe", "open", "begin", "loop", "rows", "sleep",
                 "close", "mute"}

\* The part of the type invariant that describes the processes.
ProcOK ==
  /\ mpc \in [Monitors -> MonitorSites]
  /\ stop \in [Monitors -> BOOLEAN] /\ truncate \in [Monitors -> BOOLEAN]
  /\ fresh \in [Monitors -> BOOLEAN]
  /\ readings \in [Monitors -> 0..MaxReadings]
  /\ batch \in [Monitors -> [Gpus -> Temps] \cup {<<>>}]
  /\ \A m \in Monitors : mpc[m] = "rows" => batch[m] \in [Gpus -> Temps]
  /\ next \in [Monitors -> Gpus]
  /\ slept \in [Monitors -> 0..Period]

\* The part that describes the log and its reader.
FileOK ==
  /\ file \in Seq(Lines)
  /\ mtime \in 0..MaxSeconds /\ measured \in 0..MaxSeconds
  /\ rpc \in {"idle", "open"}

LEMMA PeriodNat == Period \in Nat /\ Period >= 1 /\ Interval <= Period
BY LogConfig DEF Period

\* The lines that may be written.
LEMMA LineTypes ==
  ASSUME NEW m \in Monitors
  PROVE  /\ \A k \in Kinds : Mark(m, k) \in Lines
         /\ \A g \in Gpus, t \in Temps : Row(m, g, t) \in Lines
  BY DEF Mark, Row, Lines, Kinds

LEMMA FirstGpu == 1 \in Gpus
  BY LogConfig DEF Gpus

\* A process that has gone is typed.
LEMMA GoneTyped ==
  ASSUME ProcOK, NEW m \in Monitors, Gone(m)
  PROVE  ProcOK'
  BY FirstGpu, LogConfig, PeriodNat DEF ProcOK, Gone, MonitorSites

\* The steps of a process keep its type, one by one.
LEMMA MonitorTyped ==
  ASSUME ProcOK, NEW m \in Monitors, Monitor(m)
  PROVE  ProcOK'
<1> USE DEF ProcOK, MonitorSites, Goto
<1>1. CASE Start(m)
  BY <1>1, LogConfig DEF Start
<1>2. CASE Probe(m)
  BY <1>2 DEF Probe, Empty
<1>3. CASE Open(m)
  BY <1>3 DEF Open
<1>4. CASE Begin(m)
  BY <1>4 DEF Begin
<1>5. CASE Loop(m)
  <2>1. CASE Done(m)
    BY <1>5, <2>1 DEF Loop
  <2>2. CASE ~Done(m)
    <3>1. PICK b \in [Gpus -> Temps] : batch' = [batch EXCEPT ![m] = b]
      BY <1>5, <2>2 DEF Loop
    <3>2. batch' \in [Monitors -> [Gpus -> Temps] \cup {<<>>}]
      BY <3>1
    <3>3. mpc' = [mpc EXCEPT ![m] = "rows"] /\ next' = [next EXCEPT ![m] = 1]
      BY <1>5, <2>2 DEF Loop
    <3>4. \A k \in Monitors : mpc'[k] = "rows" => batch'[k] \in [Gpus -> Temps]
      BY <3>1, <3>3
    <3>5. QED
      BY <1>5, <3>2, <3>3, <3>4, FirstGpu DEF Loop
  <2>3. QED
    BY <2>1, <2>2
<1>6. CASE WriteRow(m)
  <2>1. CASE LastRow(m)
    <3>1. /\ readings' = [readings EXCEPT ![m] = IF readings[m] < MaxReadings
                                                 THEN readings[m] + 1 ELSE readings[m]]
          /\ slept' = [slept EXCEPT ![m] = 0] /\ next' = [next EXCEPT ![m] = 1]
          /\ mpc' = [mpc EXCEPT ![m] = "sleep"]
          /\ batch' = [batch EXCEPT ![m] = <<>>]
          /\ UNCHANGED <<stop, truncate, fresh>>
      BY <1>6, <2>1 DEF WriteRow
    <3>2. (IF readings[m] < MaxReadings THEN readings[m] + 1 ELSE readings[m])
            \in 0..MaxReadings
      BY LogConfig
    <3>3. 0 \in 0..Period
      BY LogConfig, PeriodNat
    <3>4. readings' \in [Monitors -> 0..MaxReadings]
      BY <3>1, <3>2
    <3>5. slept' \in [Monitors -> 0..Period] /\ next' \in [Monitors -> Gpus]
      BY <3>1, <3>3, FirstGpu
    <3>6. QED
      BY <3>1, <3>4, <3>5
  <2>2. CASE ~LastRow(m)
    <3>1. next[m] + 1 \in Gpus
      BY <2>2, LogConfig DEF LastRow, Gpus
    <3>2. QED
      BY <1>6, <2>2, <3>1 DEF WriteRow
  <2>3. QED
    BY <2>1, <2>2
<1>7. CASE Wake(m)
  BY <1>7, LogConfig, PeriodNat DEF Wake
<1>8. CASE Close(m) \/ Leave(m) \/ Kill(m)
  BY <1>8, GoneTyped DEF Close, Leave, Kill
<1>9. CASE Signal(m)
  <2> 0 \in 0..Period
    BY LogConfig, PeriodNat
  <2>1. mpc' \in [Monitors -> MonitorSites] /\ slept' \in [Monitors -> 0..Period]
    <3>1. CASE mpc[m] = "sleep"
      BY <1>9, <3>1 DEF Signal
    <3>2. CASE mpc[m] # "sleep"
      BY <1>9, <3>2 DEF Signal
    <3>3. QED
      BY <3>1, <3>2
  <2>2. \A k \in Monitors : mpc'[k] = "rows" => mpc[k] = "rows"
    BY <1>9 DEF Signal
  <2>3. stop' \in [Monitors -> BOOLEAN]
    BY <1>9 DEF Signal
  <2>4. QED
    BY <1>9, <2>1, <2>2, <2>3 DEF Signal
<1>10. QED
  BY <1>1, <1>2, <1>3, <1>4, <1>5, <1>6, <1>7, <1>8, <1>9 DEF Monitor

\* What a process writes are lines, and ages start again at 0.
LEMMA MonitorWrites ==
  ASSUME ProcOK, FileOK, NEW m \in Monitors, Monitor(m)
  PROVE  FileOK'
<1> USE LogConfig DEF FileOK, fileVars, readerVars
<1>1. CASE Open(m)
  <2>1. <<>> \in Seq(Lines)
    OBVIOUS
  <2>2. QED
    <3>1. /\ file' = <<>> \/ file' = file
          /\ mtime' = 0 \/ mtime' = mtime
          /\ measured' = measured /\ rpc' = rpc
      BY <1>1 DEF Open
    <3>2. file' \in Seq(Lines)
      BY <2>1, <3>1
    <3>3. mtime' \in 0..MaxSeconds
      BY <3>1
    <3>4. QED
      BY <3>1, <3>2, <3>3
<1>2. CASE Begin(m)
  <2>1. Mark(m, "header") \in Lines /\ Mark(m, "start") \in Lines
    BY LineTypes DEF Kinds
  <2>2. <<Mark(m, "header")>> \in Seq(Lines) /\ <<Mark(m, "start")>> \in Seq(Lines)
    BY <2>1
  <2>3. file \o (IF fresh[m] THEN <<Mark(m, "header")>> ELSE <<>>) \in Seq(Lines)
    BY <2>2
  <2>4. file' \in Seq(Lines)
    BY <1>2, <2>2, <2>3 DEF Begin
  <2>5. QED
    BY <1>2, <2>4 DEF Begin
<1>3. CASE WriteRow(m)
  <2>1. Row(m, next[m], batch[m][next[m]]) \in Lines
    BY <1>3, LineTypes, ZenonT(30) DEF WriteRow, ProcOK
  <2>2. file' \in Seq(Lines)
    BY <1>3, <2>1 DEF WriteRow
  <2>3. QED
    BY <1>3, <2>2 DEF WriteRow
<1>4. CASE Close(m)
  <2>1. Mark(m, "end") \in Lines
    BY LineTypes DEF Kinds
  <2>2. QED
    BY <1>4, <2>1 DEF Close
<1>5. CASE \/ Start(m) \/ Probe(m) \/ Loop(m) \/ Wake(m) \/ Leave(m)
           \/ Signal(m) \/ Kill(m)
  BY <1>5 DEF Start, Probe, Loop, Wake, Leave, Signal, Kill
<1>6. QED
  BY <1>1, <1>2, <1>3, <1>4, <1>5 DEF Monitor

\* The reader and the clock.
LEMMA OthersTyped ==
  ASSUME ProcOK, FileOK, Stat \/ ReadLog \/ Drop \/ Second
  PROVE  ProcOK' /\ FileOK'
<1>1. CASE Stat
  BY <1>1 DEF Stat, Answer, ProcOK, FileOK, monitorVars, fileVars
<1>2. CASE ReadLog \/ Drop
  BY <1>2 DEF ReadLog, Drop, Answer, ProcOK, FileOK, monitorVars, fileVars
<1>3. CASE Second
  <2>1. slept' \in [Monitors -> 0..Period]
    <3> SUFFICES ASSUME NEW m \in Monitors
                 PROVE  (IF mpc[m] = "sleep" THEN slept[m] + 1 ELSE 0) \in 0..Period
      BY <1>3 DEF Second
    <3>1. mpc[m] = "sleep" => slept[m] < Period /\ slept[m] \in 0..Period
      BY <1>3 DEF Second, ProcOK
    <3>2. QED
      BY <3>1, LogConfig, PeriodNat
  <2>2. mtime' \in 0..MaxSeconds /\ measured' \in 0..MaxSeconds
    BY <1>3, LogConfig DEF Second, FileOK, Later
  <2>3. QED
    BY <1>3, <2>1, <2>2 DEF Second, ProcOK, FileOK, readerVars
<1>4. QED
  BY <1>1, <1>2, <1>3

LEMMA InitTyped == Init => ProcOK /\ FileOK
<1> SUFFICES ASSUME Init PROVE ProcOK /\ FileOK
  OBVIOUS
<1>1. ProcOK
  BY FirstGpu, LogConfig, PeriodNat DEF Init, ProcOK, MonitorSites
<1>2. file \in Seq(Lines)
  BY DEF Init
<1>3. QED
  BY <1>1, <1>2, LogConfig DEF Init, FileOK

LEMMA TypedStep == ProcOK /\ FileOK /\ [Next]_vars => ProcOK' /\ FileOK'
<1> SUFFICES ASSUME ProcOK, FileOK, [Next]_vars PROVE ProcOK' /\ FileOK'
  OBVIOUS
<1>1. CASE \E m \in Monitors : Monitor(m)
  BY <1>1, MonitorTyped, MonitorWrites
<1>2. CASE Stat \/ ReadLog \/ Drop \/ Second
  BY <1>2, OthersTyped
<1>3. CASE UNCHANGED vars
  BY <1>3 DEF vars, monitorVars, fileVars, readerVars, ProcOK, FileOK
<1>4. QED
  BY <1>1, <1>2, <1>3 DEF Next

LEMMA AlwaysTyped == Spec => [](ProcOK /\ FileOK)
  BY InitTyped, TypedStep, PTL DEF Spec

\* The type invariant, for any number of gddr6 processes and GPUs.
THEOREM TypeCorrect == Spec => []TypeOK
<1>1. ProcOK /\ FileOK => TypeOK
  BY DEF ProcOK, FileOK, TypeOK, MonitorSites
<1>2. QED
  BY <1>1, AlwaysTyped, PTL
--------------------------------------------------------------------------------
(* The header *)

\* One gddr6 at a time: between the probe and the opening of the log nobody
\* else creates it.
Alone == \A m, k \in Monitors : m = k

\* A process that will write the header finds the log empty, one that will not
\* finds it begun, and it stays begun while the process runs.
HeaderInv ==
  /\ HeaderFirst
  /\ \A m \in Monitors :
       /\ mpc[m] = "open" => (fresh[m] <=> truncate[m] \/ file = <<>>)
       /\ mpc[m] = "begin" => (fresh[m] <=> file = <<>>)
       /\ mpc[m] \in {"loop", "rows", "sleep", "close"} => file # <<>>

\* A line other than a header may follow any line.
LEMMA HeaderKept ==
  ASSUME FileOK, HeaderFirst, file # <<>>, NEW l \in Lines, l.kind # "header",
         file' = Append(file, l)
  PROVE  HeaderFirst' /\ file' # <<>>
<1>1. Len(file) >= 1 /\ Len(file') = Len(file) + 1
  BY DEF FileOK
<1>2. \A i \in 1..Len(file) : file'[i] = file[i]
  BY DEF FileOK
<1>3. file'[Len(file) + 1] = l
  BY DEF FileOK
<1>4. QED
  BY <1>1, <1>2, <1>3 DEF HeaderFirst

\* logger_open puts the header on an empty log and leaves one that is begun.
LEMMA HeaderWritten ==
  ASSUME FileOK, HeaderFirst, NEW m \in Monitors, fresh[m] <=> file = <<>>, Begin(m)
  PROVE  HeaderFirst' /\ file' # <<>>
<1>1. Mark(m, "header").kind = "header" /\ Mark(m, "start").kind = "start"
  BY DEF Mark
<1>2. CASE fresh[m]
  <2> DEFINE h == <<Mark(m, "header")>>
             s == <<Mark(m, "start")>>
  <2>1. file' = (<<>> \o h) \o s
    BY <1>2 DEF Begin
  <2>2. h \in Seq(Lines) /\ s \in Seq(Lines) /\ <<>> \in Seq(Lines)
    BY LineTypes DEF Kinds
  <2>3. <<>> \o h = h
    <3> HIDE DEF h
    <3> QED
      BY <2>2
  <2>4. /\ Len(file') = 2
        /\ file'[1] = Mark(m, "header") /\ file'[2] = Mark(m, "start")
    BY <2>1, <2>2, <2>3
  <2>5. QED
    BY <1>1, <2>4 DEF HeaderFirst
<1>3. CASE ~fresh[m]
  <2>1. Mark(m, "start") \in Lines
    BY LineTypes DEF Kinds
  <2>2. file' = Append(file, Mark(m, "start"))
    BY <1>3, <2>1 DEF Begin, FileOK
  <2>3. QED
    BY <1>1, <1>3, <2>1, <2>2, HeaderKept
<1>4. QED
  BY <1>2, <1>3

LEMMA HeaderStep ==
  ASSUME Alone, ProcOK, FileOK, HeaderInv, [Next]_vars
  PROVE  HeaderInv'
<1> USE DEF HeaderInv, Goto
<1>1. ASSUME NEW m \in Monitors, Monitor(m)
      PROVE  HeaderInv'
  <2>1. \A k \in Monitors : k = m
    BY DEF Alone
  <2>2. CASE Open(m)
    BY <1>1, <2>1, <2>2 DEF Open, HeaderFirst, ProcOK
  <2>3. CASE Begin(m)
    <3>1. HeaderFirst' /\ file' # <<>>
      BY <2>3, HeaderWritten DEF Begin
    <3>2. mpc'[m] = "loop"
      BY <2>3 DEF Begin, ProcOK
    <3>3. QED
      BY <2>1, <3>1, <3>2
  <2>4. CASE WriteRow(m)
    <3>1. Row(m, next[m], batch[m][next[m]]) \in Lines
      BY <2>4, LineTypes DEF WriteRow, ProcOK
    <3>2. HeaderFirst' /\ file' # <<>>
      BY <2>4, <3>1, HeaderKept DEF WriteRow, Row
    <3>3. mpc'[m] \in {"rows", "sleep"}
      BY <2>4 DEF WriteRow, ProcOK
    <3>4. QED
      BY <2>1, <3>2, <3>3
  <2>5. CASE Close(m)
    <3>1. Mark(m, "end") \in Lines /\ Mark(m, "end").kind # "header"
      BY LineTypes DEF Kinds, Mark
    <3>2. HeaderFirst' /\ file' # <<>>
      BY <2>5, <3>1, HeaderKept DEF Close
    <3>3. mpc'[m] = "off"
      BY <2>5 DEF Close, Gone, ProcOK
    <3>4. QED
      BY <2>1, <3>2, <3>3
  <2>6. CASE \/ Start(m) \/ Probe(m) \/ Loop(m) \/ Wake(m) \/ Leave(m)
             \/ Signal(m) \/ Kill(m)
    <3>1. file' = file
      BY <2>6 DEF Start, Probe, Loop, Wake, Leave, Signal, Kill, fileVars
    <3>2. HeaderFirst'
      BY <3>1 DEF HeaderFirst
    <3>3. mpc'[m] = "open" => (fresh'[m] <=> truncate'[m] \/ file' = <<>>)
      BY <2>6, <3>1 DEF Start, Probe, Loop, Wake, Leave, Signal, Kill, Gone, Empty, ProcOK
    <3>4. mpc'[m] = "begin" => (fresh'[m] <=> file' = <<>>)
      BY <2>6, <3>1 DEF Start, Probe, Loop, Wake, Leave, Signal, Kill, Gone, ProcOK
    <3>5. mpc'[m] \in {"loop", "rows", "sleep", "close"} => file' # <<>>
      BY <2>6, <3>1 DEF Start, Probe, Loop, Wake, Leave, Signal, Kill, Gone, ProcOK
    <3>6. QED
      BY <2>1, <3>2, <3>3, <3>4, <3>5
  <2>7. QED
    BY <1>1, <2>2, <2>3, <2>4, <2>5, <2>6 DEF Monitor
<1>2. CASE Stat \/ ReadLog \/ Drop \/ Second \/ UNCHANGED vars
  BY <1>2 DEF Stat, ReadLog, Drop, Second, vars, monitorVars, fileVars, HeaderFirst
<1>3. QED
  BY <1>1, <1>2 DEF Next

\* gddr6 README, "Header is written only to a new/empty file": for any number
\* of GPUs, wherever kills and signals fall and whichever invocations have
\* --truncate, the log has one header and it is the first line.
THEOREM OneHeader ==
  ASSUME Alone
  PROVE  Spec => []HeaderFirst
<1>1. Init => HeaderInv
  BY DEF Init, HeaderInv, HeaderFirst
<1>2. ProcOK /\ FileOK /\ HeaderInv /\ [Next]_vars => HeaderInv'
  BY HeaderStep
<1>3. HeaderInv => HeaderFirst
  BY DEF HeaderInv
<1>4. QED
  BY <1>1, <1>2, <1>3, AlwaysTyped, PTL DEF Spec

--------------------------------------------------------------------------------
(* The age of the log *)

\* A process that measures has touched the log within its period.
AgeInv ==
  \A m \in Monitors :
    /\ mpc[m] \in {"loop", "rows", "close"} => mtime <= Period
    /\ mpc[m] = "sleep" => mtime <= slept[m]

LEMMA AgeStep ==
  ASSUME ProcOK, FileOK, AgeInv, [Next]_vars
  PROVE  AgeInv'
<1> USE LogConfig, PeriodNat DEF AgeInv, ProcOK, FileOK, Goto, fileVars
<1>1. ASSUME NEW m \in Monitors, Monitor(m)
      PROVE  AgeInv'
  <2>1. CASE Start(m) \/ Probe(m) \/ Open(m) \/ Begin(m)
    BY <2>1 DEF Start, Probe, Open, Begin
  <2>2. CASE Loop(m) \/ Wake(m)
    <3>1. UNCHANGED mtime /\ \A k \in Monitors : k # m => UNCHANGED <<mpc[k], slept[k]>>
      BY <2>2 DEF Loop, Wake
    <3>2. mtime <= Period /\ mpc'[m] \in {"close", "rows", "loop"}
      BY <2>2 DEF Loop, Wake
    <3>3. QED
      BY <3>1, <3>2
  <2>3. CASE WriteRow(m)
    <3>1. mtime' = 0 /\ \A k \in Monitors : slept'[k] \in 0..Period
      <4>1. mtime' = 0 /\ (slept' = [slept EXCEPT ![m] = 0] \/ slept' = slept)
        BY <2>3 DEF WriteRow
      <4>2. QED
        BY <4>1, 0 \in 0..Period
    <3>2. QED
      BY <3>1, 0 <= Period
  <2>4. CASE Close(m)
    <3>1. mtime' = 0 /\ \A k \in Monitors : slept'[k] \in 0..Period
      BY <2>4 DEF Close, Gone
    <3>2. QED
      BY <3>1, 0 <= Period
  <2>5. CASE Leave(m) \/ Kill(m)
    <3>1. UNCHANGED mtime /\ mpc'[m] = "off"
      BY <2>5 DEF Leave, Kill, Gone
    <3>2. \A k \in Monitors : k # m => UNCHANGED <<mpc[k], slept[k]>>
      BY <2>5 DEF Leave, Kill, Gone
    <3>3. QED
      BY <3>1, <3>2
  <2>6. CASE Signal(m)
    BY <2>6 DEF Signal
  <2>7. QED
    BY <1>1, <2>1, <2>2, <2>3, <2>4, <2>5, <2>6 DEF Monitor
<1>2. CASE Second
  <2> SUFFICES ASSUME NEW m \in Monitors
               PROVE  /\ mpc'[m] \in {"loop", "rows", "close"} => mtime' <= Period
                      /\ mpc'[m] = "sleep" => mtime' <= slept'[m]
    OBVIOUS
  <2>1. mpc'[m] = mpc[m] /\ mpc[m] \in {"off", "mute", "sleep"}
    BY <1>2 DEF Second
  <2>2. mpc[m] = "sleep" => slept'[m] = slept[m] + 1
    BY <1>2 DEF Second
  <2>3. mtime' <= mtime + 1
    BY <1>2 DEF Second, Later
  <2>4. slept[m] \in 0..Period /\ mtime \in 0..MaxSeconds /\ mtime' \in 0..MaxSeconds
    BY <1>2 DEF Second, Later
  <2>5. QED
    BY <2>1, <2>2, <2>3, <2>4
<1>3. CASE Stat \/ ReadLog \/ Drop \/ UNCHANGED vars
  BY <1>3 DEF Stat, ReadLog, Drop, vars, monitorVars
<1>4. QED
  BY <1>1, <1>2, <1>3 DEF Next

\* AgeInv is an invariant.
LEMMA AlwaysAged == Spec => []AgeInv
<1>1. Init => AgeInv
  BY DEF Init, AgeInv
<1>2. ProcOK /\ FileOK /\ AgeInv /\ [Next]_vars => AgeInv'
  BY AgeStep
<1>3. QED
  BY <1>1, <1>2, AlwaysTyped, PTL DEF Spec

\* fan-governor.py:284, "log older than this: gddr6 not running": with a
\* period no longer than the age limit, however many gddr6 processes write
\* to the log, it is called stale only when none of them is measuring.
THEOREM StaleIsStopped ==
  ASSUME Period <= MaxAge
  PROVE  Spec => StaleMeansStopped
<1>1. ProcOK /\ FileOK /\ AgeInv =>
        [Stat /\ rpc' = "idle" /\ answer' = Stale =>
           \A m \in Monitors : mpc[m] \in {"off", "probe", "open", "begin", "mute"}]_vars
  <2> SUFFICES ASSUME ProcOK, FileOK, AgeInv, Stat, answer' = Stale, rpc' = "idle",
                      NEW m \in Monitors
               PROVE  mpc[m] \in {"off", "probe", "open", "begin", "mute"}
    OBVIOUS
  <2>1. Stale # Nothing
    BY DEF Stale, Nothing
  <2>2. mtime > MaxAge
    BY <2>1 DEF Stat, Answer, TooOld
  <2>3. slept[m] <= Period
    BY LogConfig DEF ProcOK
  <2>4. QED
    BY <2>2, <2>3, LogConfig, PeriodNat DEF ProcOK, FileOK, AgeInv, MonitorSites
<1>2. QED
  BY <1>1, AlwaysTyped, AlwaysAged, PTL DEF Spec, StaleMeansStopped

--------------------------------------------------------------------------------
(* The age of a reading *)

\* The last session has a row.
Current == \E i \in 1..Len(file) :
             IsRow(file[i]) /\ \A j \in i..Len(file) : file[j].kind # "start"

\* The last row of the last session is older than the log by an interval at
\* most, because a process that measures writes the end marker within one.
LiveInv ==
  /\ Current => measured <= mtime + Period
  /\ \A m \in Monitors :
       /\ mpc[m] = "sleep" => measured <= slept[m]
       /\ mpc[m] \in {"loop", "rows", "close"} /\ Current => measured <= Period
  /\ rpc = "open" => mtime <= MaxAge
  /\ LiveSession

\* A start marker ends the session before it.
LEMMA StartEnds ==
  ASSUME FileOK, NEW m \in Monitors, Begin(m)
  PROVE  ~Current'
<1> DEFINE h == IF fresh[m] THEN <<Mark(m, "header")>> ELSE <<>>
<1>1. Mark(m, "header") \in Lines /\ Mark(m, "start") \in Lines
  BY LineTypes DEF Kinds
<1>2. h \in Seq(Lines) /\ <<Mark(m, "start")>> \in Seq(Lines)
  BY <1>1
<1>3. file' = (file \o h) \o <<Mark(m, "start")>>
  BY DEF Begin
<1>4. file \o h \in Seq(Lines)
  BY <1>2 DEF FileOK
<1>5. Len(file') = Len(file \o h) + 1 /\ file'[Len(file')] = Mark(m, "start")
  <2> HIDE DEF h
  <2> QED
    BY <1>1, <1>2, <1>3, <1>4
<1>6. Len(file \o h) \in Nat
  BY <1>4
<1>7. file'[Len(file')].kind = "start"
  BY <1>5 DEF Mark
<1>8. QED
  BY <1>5, <1>6, <1>7 DEF Current

\* An end marker is no row.
LEMMA EndKeeps ==
  ASSUME FileOK, NEW m \in Monitors, Close(m), Current'
  PROVE  Current
<1>1. Mark(m, "end") \in Lines
  BY LineTypes DEF Kinds
<1>2. file' = Append(file, Mark(m, "end"))
  BY DEF Close
<1>3. /\ Len(file') = Len(file) + 1 /\ Len(file) \in Nat
      /\ \A i \in 1..Len(file) : file'[i] = file[i]
      /\ file'[Len(file) + 1] = Mark(m, "end")
  BY <1>1, <1>2 DEF FileOK
<1>4. PICK i \in 1..Len(file') :
        IsRow(file'[i]) /\ \A j \in i..Len(file') : file'[j].kind # "start"
  BY DEF Current, IsRow
<1>5. i # Len(file) + 1
  BY <1>3, <1>4 DEF IsRow, Mark
<1>6. i \in 1..Len(file)
  BY <1>3, <1>4, <1>5
<1>7. QED
  BY <1>3, <1>4, <1>6 DEF Current, IsRow

LEMMA LiveStep ==
  ASSUME ProcOK, FileOK, LiveInv, [Next]_vars
  PROVE  LiveInv'
<1> USE LogConfig, PeriodNat DEF Goto
<1>0. \A k \in Monitors : slept[k] \in 0..Period
  BY DEF ProcOK
<1>1. ASSUME NEW m \in Monitors, Monitor(m)
      PROVE  LiveInv'
  <2>0. /\ UNCHANGED <<rpc, answer>>
        /\ mtime' = 0 \/ mtime' = mtime
    BY <1>1 DEF Monitor, Start, Probe, Open, Begin, Loop, WriteRow, Wake, Close,
                Leave, Signal, Kill, fileVars, readerVars
  <2>1. LiveSession' /\ (rpc' = "open" => mtime' <= MaxAge)
    BY <2>0 DEF LiveInv, LiveSession
  <2>2. CASE Start(m) \/ Probe(m) \/ Leave(m) \/ Kill(m)
    <3>1. UNCHANGED <<file, mtime, measured>>
      BY <2>2 DEF Start, Probe, Leave, Kill, fileVars
    <3>2. Current' = Current
      BY <3>1 DEF Current, IsRow
    <3>3. \A k \in Monitors :
            \/ mpc'[k] = mpc[k] /\ slept'[k] = slept[k]
            \/ mpc'[k] \in {"off", "probe", "open"}
      BY <2>2 DEF Start, Probe, Leave, Kill, Gone, ProcOK
    <3>4. QED
      BY <2>1, <3>1, <3>2, <3>3 DEF LiveInv
  <2>3. CASE Open(m)
    <3>1. measured' = measured /\ (UNCHANGED <<file, mtime>> \/ file' = <<>>)
      BY <2>3 DEF Open
    <3>2. Current' => Current /\ mtime' = mtime
      BY <3>1 DEF Current, IsRow
    <3>3. \A k \in Monitors :
            \/ mpc'[k] = mpc[k] /\ slept'[k] = slept[k]
            \/ mpc'[k] \in {"begin", "mute"}
      BY <2>3 DEF Open, ProcOK
    <3>4. QED
      BY <2>1, <3>1, <3>2, <3>3 DEF LiveInv
  <2>4. CASE Begin(m)
    <3>1. ~Current'
      BY <2>4, StartEnds
    <3>2. measured' = measured
      BY <2>4 DEF Begin
    <3>3. \A k \in Monitors : mpc'[k] = "sleep" => mpc[k] = "sleep" /\ slept'[k] = slept[k]
      BY <2>4 DEF Begin, ProcOK
    <3>4. QED
      BY <2>1, <3>1, <3>2, <3>3 DEF LiveInv
  <2>5. CASE WriteRow(m)
    <3>1. measured' = 0 /\ mtime' = 0
      BY <2>5 DEF WriteRow
    <3>2. \A k \in Monitors : slept'[k] \in 0..Period
      <4>1. slept' = [slept EXCEPT ![m] = 0] \/ slept' = slept
        BY <2>5 DEF WriteRow
      <4>2. QED
        BY <1>0, <4>1, 0 \in 0..Period DEF ProcOK
    <3>3. QED
      BY <2>1, <3>1, <3>2 DEF LiveInv
  <2>6. CASE Close(m)
    <3>1. measured' = measured /\ mtime' = 0
      BY <2>6 DEF Close
    <3>2. Current' => Current
      BY <2>6, EndKeeps
    <3>3. \A k \in Monitors :
            \/ mpc'[k] = mpc[k] /\ slept'[k] = slept[k]
            \/ mpc'[k] = "off"
      BY <2>6 DEF Close, Gone, ProcOK
    <3>4. mpc[m] = "close"
      BY <2>6 DEF Close
    <3>5. QED
      BY <2>1, <3>1, <3>2, <3>3, <3>4 DEF LiveInv, FileOK
  <2>7. CASE Loop(m) \/ Wake(m) \/ Signal(m)
    <3>1. UNCHANGED <<file, mtime, measured>>
      BY <2>7 DEF Loop, Wake, Signal, fileVars
    <3>2. Current' = Current
      BY <3>1 DEF Current, IsRow
    <3>3. \A k \in Monitors : k # m => mpc'[k] = mpc[k] /\ slept'[k] = slept[k]
      BY <2>7 DEF Loop, Wake, Signal, ProcOK
    <3>4. \/ mpc[m] \in {"loop", "sleep"} /\ mpc'[m] \in {"loop", "rows", "close"}
          \/ mpc'[m] = mpc[m] /\ slept'[m] = slept[m]
      BY <2>7 DEF Loop, Wake, Signal, ProcOK
    <3>5. QED
      BY <1>0, <2>1, <3>1, <3>2, <3>3, <3>4 DEF LiveInv, FileOK
  <2>8. QED
    BY <1>1, <2>2, <2>3, <2>4, <2>5, <2>6, <2>7 DEF Monitor
<1>2. CASE Stat
  <2>1. UNCHANGED <<mpc, slept, file, mtime, measured>>
    BY <1>2 DEF Stat, monitorVars, fileVars
  <2>2. Current' = Current
    BY <2>1 DEF Current, IsRow
  <2>3. \/ answer' = Nothing /\ rpc' = "idle"
        \/ answer' = Stale /\ rpc' = "idle"
        \/ answer' = answer /\ mtime <= MaxAge
    BY <1>2 DEF Stat, Answer, TooOld, FileOK
  <2>4. LiveSession'
    BY <2>3 DEF LiveInv, LiveSession, Nothing, Stale
  <2>5. rpc' = "open" => mtime' <= MaxAge
    BY <2>1, <2>3
  <2>6. QED
    BY <2>1, <2>2, <2>4, <2>5 DEF LiveInv
<1>3. CASE ReadLog \/ Drop
  <2>1. UNCHANGED <<mpc, slept, file, mtime, measured>> /\ rpc' = "idle"
    BY <1>3 DEF ReadLog, Drop, Answer, monitorVars, fileVars
  <2>2. Current' = Current
    BY <2>1 DEF Current, IsRow
  <2>3. answer' = Nothing \/ (answer' = Value /\ rpc = "open")
    BY <1>3 DEF ReadLog, Drop, Answer
  <2>4. Value.age = measured /\ Value.current = Current
    BY DEF Value, Current
  <2>5. rpc = "open" /\ Current => measured <= MaxAge + Period
    BY <2>1 DEF LiveInv, FileOK
  <2>6. LiveSession'
    BY <2>3, <2>4, <2>5 DEF LiveSession, Nothing
  <2>7. QED
    BY <2>1, <2>2, <2>6 DEF LiveInv
<1>4. CASE Second
  <2>1. UNCHANGED <<mpc, file, rpc, answer>> /\ rpc = "idle"
    BY <1>4 DEF Second, readerVars
  <2>2. Current' = Current
    BY <2>1 DEF Current, IsRow
  <2>3. \A k \in Monitors : mpc[k] \notin {"loop", "rows", "close"}
    BY <1>4 DEF Second
  <2>4. \A k \in Monitors : mpc[k] = "sleep" => slept'[k] = slept[k] + 1
    BY <1>4 DEF Second
  <2>5. measured' = Later(measured) /\ mtime' = Later(mtime)
    BY <1>4 DEF Second
  <2>6. /\ measured' <= measured + 1
        /\ measured <= mtime + Period => measured' <= mtime' + Period
    BY <2>5 DEF Later, FileOK
  <2>7. LiveSession'
    BY <2>1 DEF LiveInv, LiveSession
  <2>8. \A k \in Monitors : mpc'[k] = "sleep" => measured' <= slept'[k]
    <3> SUFFICES ASSUME NEW k \in Monitors, mpc[k] = "sleep"
                 PROVE  measured' <= slept'[k]
      BY <2>1
    <3>1. measured <= slept[k] /\ slept'[k] = slept[k] + 1
      BY <2>4 DEF LiveInv
    <3>2. measured \in Nat /\ measured' \in Nat
      BY <2>5 DEF FileOK, Later
    <3>3. QED
      BY <1>0, <2>6, <3>1, <3>2
  <2>9. QED
    BY <2>1, <2>2, <2>3, <2>6, <2>7, <2>8 DEF LiveInv
<1>5. CASE UNCHANGED vars
  BY <1>5 DEF vars, monitorVars, fileVars, readerVars, LiveInv, LiveSession, Current, IsRow
<1>6. QED
  BY <1>1, <1>2, <1>3, <1>4, <1>5 DEF Next

\* LiveInv is an invariant.
LEMMA AlwaysLive == Spec => []LiveInv
<1>1. Init => LiveInv
  <2> SUFFICES ASSUME Init PROVE LiveInv
    OBVIOUS
  <2>1. ~Current
    BY DEF Init, Current
  <2>2. QED
    BY <2>1 DEF Init, LiveInv, LiveSession, Nothing
<1>2. ProcOK /\ FileOK /\ LiveInv /\ [Next]_vars => LiveInv'
  BY LiveStep
<1>3. QED
  BY <1>1, <1>2, AlwaysTyped, PTL DEF Spec

\* What the age check is for, of the last session: wherever signals, kills and
\* truncation fall and however many gddr6 processes write to the log, a
\* temperature that is returned was measured at most MaxAge + Period ago.
THEOREM SessionIsLive == Spec => []LiveSession
<1>1. LiveInv => LiveSession
  BY DEF LiveInv
<1>2. QED
  BY <1>1, AlwaysLive, PTL
--------------------------------------------------------------------------------
(* The last row *)

\* The last row of the lines f is the i-th.
LastIn(f, i) ==
  /\ i \in 1..Len(f) /\ IsRow(f[i])
  /\ \A j \in (i + 1)..Len(f) : ~IsRow(f[j])

NoRow(f) == \A i \in 1..Len(f) : ~IsRow(f[i])

\* e has the last row of f, or none if f has none.
SameLast(f, e) ==
  /\ \A i : /\ LastIn(e, i) <=> LastIn(f, i)
            /\ LastIn(f, i) => e[i] = f[i]
  /\ NoRow(f) => NoRow(e)

\* A finite log with a row has a last one.
RowsKnown == (\E i \in 1..Len(file) : LastIn(file, i)) \/ NoRow(file)

LEMMA OneLast ==
  ASSUME NEW f \in Seq(Lines), NEW i, NEW k, LastIn(f, i), LastIn(f, k)
  PROVE  i = k
<1>1. Len(f) \in Nat
  OBVIOUS
<1>2. QED
  BY <1>1 DEF LastIn

\* lines[-1] is that row.
LEMMA DataLineIs ==
  ASSUME FileOK, NEW i, LastIn(file, i)
  PROVE  DataLine = i
<1> DEFINE I == {j \in 1..Len(file) : IsRow(file[j])}
<1>1. Len(file) \in Nat
  BY DEF FileOK
<1>2. i \in I /\ \A j \in I : i >= j
  BY <1>1 DEF LastIn
<1>3. Max(I) \in I /\ \A j \in I : Max(I) >= j
  BY <1>2 DEF Max
<1>4. \A j \in I : j \in Int
  BY <1>1
<1>5. Max(I) = i
  <2> HIDE DEF I
  <2> QED
    BY <1>2, <1>3, <1>4
<1>6. DataLine = IF I # {} THEN Max(I) ELSE 0
  BY DEF DataLine, SelectLastInSeq
<1>7. QED
  BY <1>2, <1>5, <1>6

\* Without any row there is none.
LEMMA DataLineLast ==
  ASSUME FileOK, RowsKnown, DataLine # 0
  PROVE  LastIn(file, DataLine)
<1>1. ASSUME NoRow(file)
      PROVE  DataLine = 0
  BY <1>1 DEF DataLine, SelectLastInSeq, NoRow
<1>2. PICK i \in 1..Len(file) : LastIn(file, i)
  BY <1>1 DEF RowsKnown
<1>3. QED
  BY <1>2, DataLineIs

\* A line that is no row leaves the last row where it is ...
LEMMA MarkKeepsLast ==
  ASSUME NEW f \in Seq(Lines), NEW l \in Lines, ~IsRow(l)
  PROVE  SameLast(f, Append(f, l))
<1> DEFINE e == Append(f, l)
<1>1. /\ Len(e) = Len(f) + 1 /\ Len(f) \in Nat
      /\ \A i \in 1..Len(f) : e[i] = f[i]
      /\ e[Len(f) + 1] = l
  OBVIOUS
<1> HIDE DEF e
<1>2. \A i : LastIn(e, i) => LastIn(f, i)
  BY <1>1 DEF LastIn
<1>3. \A i : LastIn(f, i) => LastIn(e, i) /\ e[i] = f[i]
  BY <1>1 DEF LastIn
<1>4. NoRow(f) => NoRow(e)
  BY <1>1 DEF NoRow
<1>5. SameLast(f, e)
  BY <1>2, <1>3, <1>4 DEF SameLast
<1>6. QED
  BY <1>5 DEF e

\* ... and a row is the last one.
LEMMA RowIsLast ==
  ASSUME NEW f \in Seq(Lines), NEW l \in Lines, IsRow(l)
  PROVE  /\ Len(f) + 1 \in 1..Len(Append(f, l))
         /\ LastIn(Append(f, l), Len(f) + 1)
         /\ \A i : LastIn(Append(f, l), i) => i = Len(f) + 1
         /\ Append(f, l)[Len(f) + 1] = l
<1> DEFINE e == Append(f, l)
<1>1. /\ Len(e) = Len(f) + 1 /\ Len(f) \in Nat
      /\ e[Len(f) + 1] = l
      /\ e \in Seq(Lines)
  OBVIOUS
<1> HIDE DEF e
<1>2. LastIn(e, Len(f) + 1)
  BY <1>1 DEF LastIn
<1>3. \A i : LastIn(e, i) => i = Len(f) + 1
  BY <1>1, <1>2, OneLast
<1>4. QED
  BY <1>1, <1>2, <1>3 DEF e

\* What a process that writes no row does to the last one: only --truncate
\* removes it.
LEMMA LastKept ==
  ASSUME FileOK, NEW m \in Monitors, Monitor(m), ~WriteRow(m)
  PROVE  \/ mpc[m] = "open" /\ truncate[m] /\ file' = <<>>
         \/ SameLast(file, file')
<1>1. \A k \in Kinds : Mark(m, k) \in Lines /\ ~IsRow(Mark(m, k))
  BY LineTypes DEF Kinds, Mark, IsRow
<1>2. CASE Begin(m)
  <2> DEFINE h == Mark(m, "header")
             s == Mark(m, "start")
             f == IF fresh[m] THEN Append(file, h) ELSE file
  <2>1. h \in Lines /\ ~IsRow(h) /\ s \in Lines /\ ~IsRow(s)
    BY <1>1 DEF Kinds
  <2>2. file \in Seq(Lines) /\ f \in Seq(Lines)
    BY <2>1 DEF FileOK
  <2>3. file' = Append(f, s)
    BY <1>2, <2>1, <2>2 DEF Begin
  <2>4. SameLast(file, f)
    BY <2>1, <2>2, MarkKeepsLast DEF SameLast
  <2>5. SameLast(f, file')
    <3> HIDE DEF f, s
    <3> QED
      BY <2>1, <2>2, <2>3, MarkKeepsLast
  <2>6. SameLast(file, file')
    <3> HIDE DEF f
    <3> QED
      BY <2>4, <2>5 DEF SameLast
  <2>7. QED
    BY <2>6
<1>3. CASE Close(m)
  <2>1. Mark(m, "end") \in Lines /\ ~IsRow(Mark(m, "end"))
    BY <1>1 DEF Kinds
  <2>2. file' = Append(file, Mark(m, "end"))
    BY <1>3 DEF Close
  <2>3. SameLast(file, file')
    BY <2>1, <2>2, MarkKeepsLast DEF FileOK
  <2>4. QED
    BY <2>3
<1>4. CASE \/ Start(m) \/ Probe(m) \/ Loop(m) \/ Wake(m) \/ Leave(m)
           \/ Signal(m) \/ Kill(m)
  <2>1. file' = file
    BY <1>4 DEF Start, Probe, Loop, Wake, Leave, Signal, Kill, fileVars
  <2>2. SameLast(file, file')
    BY <2>1 DEF SameLast
  <2>3. QED
    BY <2>2
<1>5. CASE Open(m)
  <2>1. mpc[m] = "open" /\ (file' = file \/ (truncate[m] /\ file' = <<>>))
    BY <1>5 DEF Open
  <2>2. file' = file => SameLast(file, file')
    BY DEF SameLast
  <2>3. QED
    BY <2>1, <2>2
<1>6. QED
  BY <1>2, <1>3, <1>4, <1>5 DEF Monitor

\* RowsKnown is an invariant.
LEMMA AlwaysRows == Spec => []RowsKnown
<1>1. Init => RowsKnown
  BY DEF Init, RowsKnown, NoRow
<1>2. ASSUME ProcOK, FileOK, RowsKnown, [Next]_vars
      PROVE  RowsKnown'
  <2> USE <1>2
  <2>1. CASE \E m \in Monitors : Monitor(m)
    <3>1. PICK m \in Monitors : Monitor(m)
      BY <2>1
    <3>2. CASE WriteRow(m)
      <4> DEFINE l == Row(m, next[m], batch[m][next[m]])
      <4>1. l \in Lines /\ IsRow(l)
        BY <3>2, LineTypes DEF WriteRow, ProcOK, Row, IsRow
      <4>2. file' = Append(file, l) /\ file \in Seq(Lines)
        BY <3>2 DEF WriteRow, FileOK
      <4> HIDE DEF l
      <4>3. QED
        BY <4>1, <4>2, RowIsLast DEF RowsKnown
    <3>3. CASE ~WriteRow(m)
      <4>1. CASE file' = <<>>
        BY <4>1 DEF RowsKnown, NoRow
      <4>2. CASE SameLast(file, file')
        BY <4>2 DEF RowsKnown, SameLast, LastIn
      <4>3. QED
        BY <3>1, <3>3, <4>1, <4>2, LastKept
    <3>4. QED
      BY <3>2, <3>3
  <2>2. CASE Stat \/ ReadLog \/ Drop \/ Second \/ UNCHANGED vars
    BY <2>2 DEF Stat, ReadLog, Drop, Second, vars, fileVars, RowsKnown
  <2>3. QED
    BY <2>1, <2>2 DEF Next
<1>3. QED
  BY <1>1, <1>2, AlwaysTyped, PTL DEF Spec

--------------------------------------------------------------------------------
(* Sessions *)

\* A start marker at i with nothing but rows up to j.
Run(f, i, j) ==
  /\ f[i].kind = "start"
  /\ \A k \in (i + 1)..(j - 1) : IsRow(f[k])

\* What WholeSessions says of the rows, of a session that goes on as well ...
InOrder(f) ==
  \A i \in 1..Len(f) : \A j \in (i + 1)..(Len(f) + 1) : Run(f, i, j) =>
    /\ \A k \in (i + 1)..(j - 1) : f[k].gpu = ((k - i - 1) % NumGpus) + 1
    /\ MaxReadings > 0 => j - i - 1 <= MaxReadings * NumGpus

\* ... and of the end of one that has ended.
Ended(f) ==
  \A i \in 1..Len(f) : \A j \in (i + 1)..Len(f) : Run(f, i, j) /\ ~IsRow(f[j]) =>
    \/ f[j].kind = "end" /\ (j - i - 1) % NumGpus = 0
    \/ f[j].kind = "start" /\ MayKill

Logging == {"loop", "rows", "sleep", "close"}

\* The session in progress has q whole batches and the rows before the next.
Batches(m, i, q) ==
  /\ Run(file, i, Len(file) + 1)
  /\ Len(file) - i = q * NumGpus + (next[m] - 1)
  /\ MaxReadings > 0 => q = readings[m] /\ (mpc[m] = "rows" => q < MaxReadings)

SessionInv ==
  /\ InOrder(file) /\ Ended(file)
  /\ \A m \in Monitors : mpc[m] \in Logging =>
       \E i \in 1..Len(file) : \E q \in Nat : Batches(m, i, q)
  /\ \A m \in Monitors : /\ mpc[m] # "rows" => next[m] = 1
                         /\ mpc[m] \notin Logging => readings[m] = 0
  /\ ~MayKill => \A i \in 1..Len(file) : Run(file, i, Len(file) + 1) =>
                   \E m \in Monitors : mpc[m] \in Logging

\* The arithmetic of a batch.
LEMMA BatchLines ==
  ASSUME NEW q \in Nat, NEW g \in Gpus
  PROVE  /\ (q * NumGpus + (g - 1)) % NumGpus = g - 1
         /\ (q * NumGpus) % NumGpus = 0
         /\ q * NumGpus \in Nat
         /\ MaxReadings > 0 /\ q < MaxReadings => q * NumGpus + g <= MaxReadings * NumGpus
<1>1. NumGpus \in Nat /\ NumGpus >= 1 /\ MaxReadings \in Nat /\ g \in Nat /\ 1 <= g /\ g <= NumGpus
  BY LogConfig DEF Gpus
<1>2. \A a, b \in Nat, n \in Nat \ {0} : b < n => (a * n + b) % n = b
  OBVIOUS
<1>3. (q * NumGpus + (g - 1)) % NumGpus = g - 1
  BY <1>1, <1>2
<1>4. q * NumGpus \in Nat
  BY <1>1
<1>5. (q * NumGpus + 0) % NumGpus = 0
  BY <1>1, <1>2
<1>6. ASSUME q < MaxReadings
      PROVE  q * NumGpus + g <= MaxReadings * NumGpus
  <2>1. \A a, b, n \in Nat : a <= b => a * n <= b * n
    OBVIOUS
  <2>2. (q + 1) * NumGpus <= MaxReadings * NumGpus
    BY <1>1, <1>6, <2>1
  <2>3. (q + 1) * NumGpus = q * NumGpus + NumGpus
    BY <1>1
  <2> QED BY <1>1, <1>4, <2>2, <2>3
<1> QED BY <1>3, <1>4, <1>5, <1>6

\* There is one session in progress at most.
LEMMA OneOpen ==
  ASSUME NEW f \in Seq(Lines), NEW i \in 1..Len(f), NEW k \in 1..Len(f),
         Run(f, i, Len(f) + 1), Run(f, k, Len(f) + 1)
  PROVE  i = k
<1>1. Len(f) \in Nat
  OBVIOUS
<1> QED BY <1>1 DEF Run, IsRow

\* A row continues it.
LEMMA RowInOrder ==
  ASSUME NEW f \in Seq(Lines), NEW l \in Lines, IsRow(l), InOrder(f), Ended(f),
         NEW i \in 1..Len(f), NEW q \in Nat, NEW g \in Gpus, l.gpu = g,
         Run(f, i, Len(f) + 1), Len(f) - i = q * NumGpus + (g - 1),
         MaxReadings > 0 => q < MaxReadings
  PROVE  /\ InOrder(Append(f, l)) /\ Ended(Append(f, l))
         /\ i \in 1..Len(Append(f, l))
         /\ Run(Append(f, l), i, Len(Append(f, l)) + 1)
         /\ Len(Append(f, l)) - i = q * NumGpus + g
         /\ \A k \in 1..Len(Append(f, l)) :
              Run(Append(f, l), k, Len(Append(f, l)) + 1) => k = i
<1> DEFINE e == Append(f, l)
<1>1. /\ Len(e) = Len(f) + 1 /\ Len(f) \in Nat /\ e \in Seq(Lines)
      /\ \A k \in 1..Len(f) : e[k] = f[k]
      /\ e[Len(f) + 1] = l
  OBVIOUS
<1>2. /\ (q * NumGpus + (g - 1)) % NumGpus = g - 1
      /\ q * NumGpus \in Nat
      /\ MaxReadings > 0 => q * NumGpus + g <= MaxReadings * NumGpus
      /\ g \in Nat
  BY BatchLines DEF Gpus
<1> HIDE DEF e
<1>3. i \in 1..Len(e) /\ Run(e, i, Len(e) + 1)
  <2>1. i \in 1..Len(e) /\ e[i].kind = "start"
    BY <1>1 DEF Run
  <2>2. ASSUME NEW k \in (i + 1)..Len(e)
        PROVE  IsRow(e[k])
    <3>1. CASE k = Len(f) + 1
      BY <1>1, <3>1
    <3>2. CASE k # Len(f) + 1
      <4>1. k \in (i + 1)..Len(f) /\ k \in 1..Len(f)
        BY <1>1, <3>2
      <4>2. IsRow(f[k])
        BY <1>1, <4>1 DEF Run
      <4> QED BY <1>1, <4>1, <4>2
    <3> QED BY <3>1, <3>2
  <2>3. (i + 1)..((Len(e) + 1) - 1) = (i + 1)..Len(e)
    BY <1>1
  <2> QED BY <2>1, <2>2, <2>3 DEF Run
<1>4. \A k \in 1..Len(e) : Run(e, k, Len(e) + 1) => k = i
  BY <1>1, <1>3, OneOpen
<1>5. \A k \in 1..Len(f) : \A j \in (k + 1)..(Len(f) + 1) : Run(e, k, j) <=> Run(f, k, j)
  <2> SUFFICES ASSUME NEW k \in 1..Len(f), NEW j \in (k + 1)..(Len(f) + 1)
               PROVE  Run(e, k, j) <=> Run(f, k, j)
    OBVIOUS
  <2>1. e[k] = f[k]
    BY <1>1
  <2>2. ASSUME NEW n \in (k + 1)..(j - 1)
        PROVE  e[n] = f[n]
    <3>1. n \in 1..Len(f)
      BY <1>1
    <3> QED BY <1>1, <3>1
  <2> QED BY <2>1, <2>2 DEF Run
<1>6. l.kind # "start"
  BY DEF IsRow
<1>7. Len(e) - i = q * NumGpus + g
  <2>1. \A a, b, c, d \in Int : b - c = a + (d - 1) => (b + 1) - c = a + d
    OBVIOUS
  <2>2. Len(f) \in Int /\ i \in Int /\ g \in Int /\ q * NumGpus \in Int
    BY <1>1, <1>2
  <2> QED BY <1>1, <2>1, <2>2, SMTT(30)
<1>8. InOrder(e)
  <2> SUFFICES ASSUME NEW k \in 1..Len(e), NEW j \in (k + 1)..(Len(e) + 1), Run(e, k, j)
               PROVE  /\ \A n \in (k + 1)..(j - 1) : e[n].gpu = ((n - k - 1) % NumGpus) + 1
                      /\ MaxReadings > 0 => j - k - 1 <= MaxReadings * NumGpus
    BY DEF InOrder
  <2>1. k \in 1..Len(f)
    BY <1>1, <1>6 DEF Run
  <2>2. CASE j <= Len(f) + 1
    <3>1. j \in (k + 1)..(Len(f) + 1) /\ Run(f, k, j)
      BY <1>1, <1>5, <2>1, <2>2
    <3>2. /\ \A n \in (k + 1)..(j - 1) : f[n].gpu = ((n - k - 1) % NumGpus) + 1
          /\ MaxReadings > 0 => j - k - 1 <= MaxReadings * NumGpus
      BY <2>1, <3>1 DEF InOrder
    <3>3. \A n \in (k + 1)..(j - 1) : e[n] = f[n]
      <4> SUFFICES ASSUME NEW n \in (k + 1)..(j - 1) PROVE e[n] = f[n]
        OBVIOUS
      <4>1. n \in 1..Len(f)
        BY <1>1, <2>1, <2>2
      <4> QED BY <1>1, <4>1
    <3> QED BY <3>2, <3>3
  <2>3. CASE j = Len(f) + 2
    <3>1. k = i /\ j - 1 = Len(f) + 1
      BY <1>1, <1>4, <2>3
    <3>2. \A n \in (i + 1)..Len(f) : f[n].gpu = ((n - i - 1) % NumGpus) + 1
      <4>1. Len(f) + 1 \in (i + 1)..(Len(f) + 1) /\ (Len(f) + 1) - 1 = Len(f)
        BY <1>1
      <4> QED BY <4>1 DEF InOrder
    <3>3. e[Len(f) + 1].gpu = (((Len(f) + 1) - i - 1) % NumGpus) + 1
      <4>1. (Len(f) + 1) - i - 1 = q * NumGpus + (g - 1)
        BY <1>1
      <4> QED BY <1>1, <1>2, <4>1
    <3>4. \A n \in (i + 1)..(Len(f) + 1) : e[n].gpu = ((n - i - 1) % NumGpus) + 1
      <4> SUFFICES ASSUME NEW n \in (i + 1)..(Len(f) + 1)
                   PROVE  e[n].gpu = ((n - i - 1) % NumGpus) + 1
        OBVIOUS
      <4>1. CASE n = Len(f) + 1
        BY <3>3, <4>1
      <4>2. CASE n # Len(f) + 1
        <5>1. n \in 1..Len(f) /\ n \in (i + 1)..Len(f)
          BY <1>1, <4>2
        <5> QED BY <1>1, <3>2, <5>1
      <4> QED BY <4>1, <4>2
    <3>5. j - i - 1 = q * NumGpus + g
      BY <1>1, <1>7, <2>3
    <3> QED BY <1>2, <3>1, <3>4, <3>5
  <2> QED BY <1>1, <2>2, <2>3, SMTT(30)
<1>9. Ended(e)
  <2> SUFFICES ASSUME NEW k \in 1..Len(e), NEW j \in (k + 1)..Len(e),
                      Run(e, k, j), ~IsRow(e[j])
               PROVE  \/ e[j].kind = "end" /\ (j - k - 1) % NumGpus = 0
                      \/ e[j].kind = "start" /\ MayKill
    BY DEF Ended, IsRow
  <2>1. j # Len(f) + 1
    BY <1>1 DEF IsRow
  <2>2. k \in 1..Len(f) /\ j \in (k + 1)..Len(f) /\ e[j] = f[j]
    BY <1>1, <2>1
  <2>3. Run(f, k, j)
    BY <1>1, <1>5, <2>2
  <2> QED BY <2>2, <2>3 DEF Ended, IsRow
<1> QED BY <1>3, <1>4, <1>7, <1>8, <1>9 DEF e

\* A marker ends it.
LEMMA MarkInOrder ==
  ASSUME NEW f \in Seq(Lines), NEW l \in Lines, ~IsRow(l), InOrder(f), Ended(f),
         \A i \in 1..Len(f) : Run(f, i, Len(f) + 1) =>
           \/ l.kind = "end" /\ (Len(f) - i) % NumGpus = 0
           \/ l.kind = "start" /\ MayKill
  PROVE  /\ InOrder(Append(f, l)) /\ Ended(Append(f, l))
         /\ \A k \in 1..Len(Append(f, l)) :
              Run(Append(f, l), k, Len(Append(f, l)) + 1) <=>
                l.kind = "start" /\ k = Len(Append(f, l))
<1> DEFINE e == Append(f, l)
<1>1. /\ Len(e) = Len(f) + 1 /\ Len(f) \in Nat /\ e \in Seq(Lines)
      /\ \A k \in 1..Len(f) : e[k] = f[k]
      /\ e[Len(f) + 1] = l
  OBVIOUS
<1> HIDE DEF e
<1>2. \A k \in 1..Len(f) : \A j \in (k + 1)..(Len(f) + 1) : Run(e, k, j) <=> Run(f, k, j)
  BY <1>1 DEF Run, IsRow
<1>3. \A k \in 1..Len(e) : Run(e, k, Len(e) + 1) <=> l.kind = "start" /\ k = Len(e)
  BY <1>1 DEF Run, IsRow
<1>4. InOrder(e)
  <2> SUFFICES ASSUME NEW k \in 1..Len(e), NEW j \in (k + 1)..(Len(e) + 1), Run(e, k, j)
               PROVE  /\ \A n \in (k + 1)..(j - 1) : e[n].gpu = ((n - k - 1) % NumGpus) + 1
                      /\ MaxReadings > 0 => j - k - 1 <= MaxReadings * NumGpus
    BY DEF InOrder
  <2>1. CASE j = Len(f) + 2
    <3>1. k = Len(f) + 1 /\ j - k - 1 = 0
      BY <1>1, <1>3, <2>1
    <3>2. MaxReadings * NumGpus >= 0
      <4>1. \A a, b \in Nat : a * b >= 0
        OBVIOUS
      <4> QED BY <4>1, LogConfig
    <3> QED BY <1>1, <2>1, <3>1, <3>2
  <2>2. CASE j <= Len(f) + 1
    <3>1. k \in 1..Len(f) /\ j \in (k + 1)..(Len(f) + 1)
      BY <1>1, <2>2
    <3>2. Run(f, k, j)
      BY <1>2, <3>1
    <3>3. /\ \A n \in (k + 1)..(j - 1) : f[n].gpu = ((n - k - 1) % NumGpus) + 1
          /\ MaxReadings > 0 => j - k - 1 <= MaxReadings * NumGpus
      BY <3>1, <3>2 DEF InOrder
    <3>4. \A n \in (k + 1)..(j - 1) : e[n] = f[n]
      BY <1>1, <3>1
    <3> QED BY <3>3, <3>4
  <2> QED BY <1>1, <2>1, <2>2
<1>5. Ended(e)
  <2> SUFFICES ASSUME NEW k \in 1..Len(e), NEW j \in (k + 1)..Len(e),
                      Run(e, k, j), ~IsRow(e[j])
               PROVE  \/ e[j].kind = "end" /\ (j - k - 1) % NumGpus = 0
                      \/ e[j].kind = "start" /\ MayKill
    BY DEF Ended, IsRow
  <2>1. k \in 1..Len(f) /\ j \in (k + 1)..(Len(f) + 1) /\ Run(f, k, j)
    BY <1>1, <1>2
  <2>2. CASE j = Len(f) + 1
    <3>1. Len(f) - k = j - k - 1 /\ e[j] = l
      BY <1>1, <2>1, <2>2
    <3> QED BY <2>1, <2>2, <3>1
  <2>3. CASE j # Len(f) + 1
    <3>1. j \in (k + 1)..Len(f) /\ e[j] = f[j]
      BY <1>1, <2>1, <2>3
    <3> QED BY <2>1, <3>1 DEF Ended, IsRow
  <2> QED BY <2>2, <2>3
<1> QED BY <1>3, <1>4, <1>5 DEF e

\* A process that has begun a session and writes nothing ...
LEMMA SessionGoesOn ==
  ASSUME Alone, SessionInv, NEW m \in Monitors, mpc[m] \in Logging, mpc'[m] \in Logging,
         file' = file, readings' = readings, mpc'[m] # "rows" => next'[m] = 1,
         next'[m] = next[m], mpc'[m] = "rows" /\ MaxReadings > 0 => readings[m] < MaxReadings
  PROVE  SessionInv'
<1>1. \A k \in Monitors : k = m
  BY DEF Alone
<1>2. PICK i \in 1..Len(file) : \E q \in Nat : Batches(m, i, q)
  BY DEF SessionInv
<1>3. PICK q \in Nat : Batches(m, i, q)
  BY <1>2
<1>4. Batches(m, i, q)'
  BY <1>3 DEF Batches, Run, IsRow
<1>5. InOrder(file)' /\ Ended(file)'
  BY DEF SessionInv, InOrder, Ended, Run, IsRow
<1>6. i \in 1..Len(file')
  OBVIOUS
<1> QED BY <1>1, <1>3, <1>4, <1>5, <1>6 DEF SessionInv

\* ... and one that has not begun one.
LEMMA NoSession ==
  ASSUME Alone, SessionInv, NEW m \in Monitors, mpc'[m] \notin Logging,
         MayKill \/ mpc[m] \notin Logging, file' = file,
         readings'[m] = 0, next'[m] = 1
  PROVE  SessionInv'
<1>1. \A k \in Monitors : k = m
  BY DEF Alone
<1>2. InOrder(file)' /\ Ended(file)'
  BY DEF SessionInv, InOrder, Ended, Run, IsRow
<1>3. ~MayKill => \A i \in 1..Len(file) : ~Run(file, i, Len(file) + 1)
  BY <1>1 DEF SessionInv
<1>4. ~MayKill => \A i \in 1..Len(file') : ~Run(file, i, Len(file) + 1)'
  BY <1>3 DEF Run, IsRow
<1> QED BY <1>1, <1>2, <1>4 DEF SessionInv

\* The session begins ...
LEMMA SessionBegins ==
  ASSUME Alone, ProcOK, FileOK, HeaderInv, SessionInv, NEW m \in Monitors, Begin(m)
  PROVE  SessionInv'
<1> DEFINE h == Mark(m, "header")
           s == Mark(m, "start")
           f == IF fresh[m] THEN Append(file, h) ELSE file
<1>1. /\ h \in Lines /\ ~IsRow(h) /\ h.kind # "start"
      /\ s \in Lines /\ ~IsRow(s) /\ s.kind = "start"
  BY LineTypes DEF Mark, IsRow, Kinds
<1>2. mpc[m] = "begin" /\ mpc'[m] = "loop" /\ UNCHANGED <<next, readings>>
      /\ \A k \in Monitors : k = m
  BY DEF Begin, Goto, ProcOK, Alone
<1>3. next[m] = 1 /\ readings[m] = 0
  BY <1>2 DEF SessionInv, Logging
<1>4. file \in Seq(Lines) /\ f \in Seq(Lines) /\ file' = Append(f, s)
  BY <1>1 DEF Begin, FileOK
<1> HIDE DEF h, s
<1>5. InOrder(f) /\ Ended(f)
      /\ \A i \in 1..Len(f) : Run(f, i, Len(f) + 1) => MayKill
  <2>1. CASE fresh[m]
    <3>1. file = <<>> /\ Len(file) = 0
      BY <1>2, <2>1 DEF HeaderInv
    <3>2. \A i \in 1..Len(file) : FALSE
      BY <3>1
    <3>3. InOrder(file) /\ Ended(file)
      BY DEF SessionInv
    <3>4. /\ InOrder(Append(file, h)) /\ Ended(Append(file, h))
          /\ \A k \in 1..Len(Append(file, h)) :
               ~Run(Append(file, h), k, Len(Append(file, h)) + 1)
      BY <1>1, <1>4, <3>2, <3>3, MarkInOrder
    <3> QED BY <2>1, <3>4
  <2>2. CASE ~fresh[m]
    <3>1. f = file
      BY <2>2
    <3>2. \A i \in 1..Len(file) : Run(file, i, Len(file) + 1) => MayKill
      BY <1>2 DEF SessionInv, Logging
    <3>3. InOrder(file) /\ Ended(file)
      BY DEF SessionInv
    <3> HIDE DEF f
    <3> QED BY <3>1, <3>2, <3>3
  <2> QED BY <2>1, <2>2
<1> HIDE DEF f
<1>6. /\ InOrder(file') /\ Ended(file')
      /\ \A k \in 1..Len(file') : Run(file', k, Len(file') + 1) <=> k = Len(file')
  BY <1>1, <1>4, <1>5, MarkInOrder
<1>7. Len(file') \in 1..Len(file')
  BY <1>1, <1>4
<1>8. Run(file', Len(file'), Len(file') + 1)
  BY <1>6, <1>7
<1>9. Batches(m, Len(file), 0)'
  <2>1. Len(file') - Len(file') = 0 * NumGpus + (next'[m] - 1)
    BY <1>2, <1>3, <1>7, LogConfig
  <2> QED BY <1>2, <1>3, <1>8, <2>1 DEF Batches
<1>10. \E i \in 1..Len(file') : \E q \in Nat : Batches(m, i, q)'
  BY <1>7, <1>9
<1> QED BY <1>2, <1>3, <1>6, <1>10 DEF SessionInv, Logging

\* ... is continued ...
LEMMA SessionWritten ==
  ASSUME Alone, ProcOK, FileOK, SessionInv, NEW m \in Monitors, WriteRow(m)
  PROVE  SessionInv'
<1> DEFINE l == Row(m, next[m], batch[m][next[m]])
<1>1. mpc[m] = "rows" /\ next[m] \in Gpus /\ \A k \in Monitors : k = m
  BY DEF WriteRow, ProcOK, Alone
<1>2. l \in Lines /\ IsRow(l) /\ l.gpu = next[m]
  BY <1>1, LineTypes DEF ProcOK, Row, IsRow
<1>3. file \in Seq(Lines) /\ file' = Append(file, l)
  BY DEF WriteRow, FileOK
<1>4. InOrder(file) /\ Ended(file) /\ NumGpus \in Nat /\ NumGpus >= 1 /\ next[m] \in 1..NumGpus
      /\ readings[m] \in 0..MaxReadings /\ MaxReadings \in Nat
  BY <1>1, LogConfig DEF SessionInv, Gpus, ProcOK
<1> HIDE DEF l
<1>5. PICK i \in 1..Len(file) : \E q \in Nat : Batches(m, i, q)
  BY <1>1 DEF SessionInv, Logging
<1>6. PICK q \in Nat : Batches(m, i, q)
  BY <1>5
<1>7. /\ Run(file, i, Len(file) + 1)
      /\ Len(file) - i = q * NumGpus + (next[m] - 1)
      /\ MaxReadings > 0 => q = readings[m] /\ q < MaxReadings
  BY <1>1, <1>6 DEF Batches
<1>8. /\ InOrder(file') /\ Ended(file')
      /\ i \in 1..Len(file') /\ Run(file', i, Len(file') + 1)
      /\ Len(file') - i = q * NumGpus + next[m]
      /\ \A k \in 1..Len(file') : Run(file', k, Len(file') + 1) => k = i
  BY <1>1, <1>2, <1>3, <1>4, <1>7, RowInOrder
<1>9. CASE LastRow(m)
  <2>1. next[m] = NumGpus /\ mpc'[m] = "sleep" /\ next'[m] = 1
    BY <1>1, <1>9 DEF WriteRow, LastRow, Goto, ProcOK
  <2>2. MaxReadings > 0 => readings'[m] = q + 1
    BY <1>4, <1>7, <1>9 DEF WriteRow, ProcOK
  <2>3. Len(file') - i = (q + 1) * NumGpus + (next'[m] - 1)
    BY <1>4, <1>8, <2>1
  <2>4. Batches(m, i, q + 1)'
    BY <1>8, <2>1, <2>2, <2>3 DEF Batches
  <2>5. \E j \in 1..Len(file') : \E r \in Nat : Batches(m, j, r)'
    BY <1>8, <2>4
  <2> QED BY <1>1, <1>8, <2>1, <2>5 DEF SessionInv, Logging
<1>10. CASE ~LastRow(m)
  <2>1. mpc'[m] = "rows" /\ next'[m] = next[m] + 1 /\ readings' = readings
    BY <1>1, <1>10 DEF WriteRow, ProcOK
  <2>2. Len(file') - i = q * NumGpus + (next'[m] - 1)
    BY <1>4, <1>8, <2>1
  <2>3. Batches(m, i, q)'
    BY <1>7, <1>8, <2>1, <2>2 DEF Batches
  <2>4. \E j \in 1..Len(file') : \E r \in Nat : Batches(m, j, r)'
    BY <1>8, <2>3
  <2> QED BY <1>1, <1>8, <2>1, <2>4 DEF SessionInv, Logging
<1> QED BY <1>9, <1>10

\* ... and ends.
LEMMA SessionCloses ==
  ASSUME Alone, ProcOK, FileOK, SessionInv, NEW m \in Monitors, Close(m)
  PROVE  SessionInv'
<1> DEFINE l == Mark(m, "end")
<1>1. l \in Lines /\ ~IsRow(l) /\ l.kind = "end"
  BY LineTypes DEF Mark, IsRow, Kinds
<1>2. /\ mpc[m] = "close" /\ mpc'[m] = "off" /\ next'[m] = 1 /\ readings'[m] = 0
      /\ \A k \in Monitors : k = m
  BY DEF Close, Gone, ProcOK, Alone
<1>3. file \in Seq(Lines) /\ file' = Append(file, l)
  BY DEF Close, FileOK
<1> HIDE DEF l
<1>4. InOrder(file) /\ Ended(file) /\ next[m] = 1
  BY <1>2 DEF SessionInv
<1>5. PICK i \in 1..Len(file) : \E q \in Nat : Batches(m, i, q)
  BY <1>2 DEF SessionInv, Logging
<1>6. PICK q \in Nat : Batches(m, i, q)
  BY <1>5
<1>7. Run(file, i, Len(file) + 1) /\ Len(file) - i = q * NumGpus
  <2>1. q * NumGpus \in Nat
    BY LogConfig
  <2> QED BY <1>4, <1>6, <2>1 DEF Batches
<1>8. (Len(file) - i) % NumGpus = 0
  BY <1>7, FirstGpu, BatchLines
<1>9. \A k \in 1..Len(file) : Run(file, k, Len(file) + 1) => (Len(file) - k) % NumGpus = 0
  BY <1>3, <1>7, <1>8, OneOpen
<1>10. /\ InOrder(file') /\ Ended(file')
       /\ \A k \in 1..Len(file') : ~Run(file', k, Len(file') + 1)
  BY <1>1, <1>3, <1>4, <1>9, MarkInOrder
<1> QED BY <1>2, <1>10 DEF SessionInv, Logging

LEMMA SessionStep ==
  ASSUME Alone, ProcOK, FileOK, HeaderInv, SessionInv, [Next]_vars
  PROVE  SessionInv'
<1>1. ASSUME NEW m \in Monitors, Monitor(m)
      PROVE  SessionInv'
  <2> USE DEF Goto, ProcOK
  <2>0. next[m] = 1 \/ mpc[m] = "rows"
    BY DEF SessionInv
  <2>1. CASE Start(m) \/ Probe(m)
    <3>1. mpc[m] \notin Logging /\ mpc'[m] \notin Logging
          /\ UNCHANGED <<file, readings, next>>
      BY <2>1 DEF Start, Probe, Logging, fileVars
    <3>2. readings[m] = 0 /\ next[m] = 1
      BY <3>1 DEF SessionInv, Logging
    <3> QED BY <3>1, <3>2, NoSession
  <2>2. CASE Open(m)
    <3>1. mpc[m] = "open" /\ mpc'[m] \in {"begin", "mute"} /\ UNCHANGED <<readings, next>>
      BY <2>2 DEF Open
    <3>2. readings[m] = 0 /\ next[m] = 1
      BY <3>1 DEF SessionInv, Logging
    <3>3. CASE file' = file
      BY <3>1, <3>2, <3>3, NoSession DEF Logging
    <3>4. CASE file' = <<>>
      <4>1. \A i \in 1..Len(file') : FALSE
        BY <3>4
      <4>2. \A k \in Monitors : k = m
        BY DEF Alone
      <4> QED BY <3>1, <3>2, <4>1, <4>2 DEF SessionInv, InOrder, Ended, Logging
    <3> QED BY <2>2, <3>3, <3>4 DEF Open
  <2>3. CASE Begin(m)
    BY <2>3, SessionBegins
  <2>4. CASE Loop(m)
    <3>1. mpc[m] = "loop" /\ mpc'[m] \in {"close", "rows"} /\ UNCHANGED <<file, readings>>
      BY <2>4 DEF Loop, fileVars
    <3>2. next'[m] = 1 /\ next[m] = 1
      BY <2>0, <2>4 DEF Loop
    <3>3. mpc'[m] = "rows" /\ MaxReadings > 0 => readings[m] < MaxReadings
      <4>1. mpc'[m] = "rows" => ~Done(m)
        BY <2>4 DEF Loop
      <4>2. readings[m] \in 0..MaxReadings /\ MaxReadings \in Nat
        BY LogConfig
      <4> QED BY <4>1, <4>2 DEF Done
    <3> QED BY <3>1, <3>2, <3>3, SessionGoesOn DEF Logging
  <2>5. CASE WriteRow(m)
    BY <2>5, SessionWritten
  <2>6. CASE Wake(m)
    <3>1. mpc[m] = "sleep" /\ mpc'[m] = "loop" /\ UNCHANGED <<file, readings, next>>
      BY <2>6 DEF Wake, fileVars
    <3> QED BY <2>0, <3>1, SessionGoesOn DEF Logging
  <2>7. CASE Close(m)
    BY <2>7, SessionCloses
  <2>8. CASE Leave(m) \/ Kill(m)
    <3>1. /\ mpc'[m] = "off" /\ readings'[m] = 0 /\ next'[m] = 1 /\ file' = file
          /\ MayKill \/ mpc[m] = "mute"
      BY <2>8 DEF Leave, Kill, Gone, fileVars
    <3> QED BY <3>1, NoSession DEF Logging
  <2>9. CASE Signal(m)
    <3>1. /\ UNCHANGED <<file, readings, next>>
          /\ mpc'[m] = mpc[m] \/ (mpc[m] = "sleep" /\ mpc'[m] = "loop")
      BY <2>9 DEF Signal, fileVars
    <3>2. CASE mpc[m] \in Logging
      <4>1. mpc'[m] \in Logging
        BY <3>1, <3>2 DEF Logging
      <4>2. mpc'[m] = "rows" => mpc[m] = "rows"
        BY <3>1
      <4>3. mpc[m] = "rows" /\ MaxReadings > 0 => readings[m] < MaxReadings
        BY <3>2 DEF SessionInv, Batches
      <4> QED BY <2>0, <3>1, <3>2, <4>1, <4>2, <4>3, SessionGoesOn
    <3>3. CASE mpc[m] \notin Logging
      <4>1. mpc'[m] \notin Logging /\ readings[m] = 0 /\ next[m] = 1
        BY <2>0, <3>1, <3>3 DEF SessionInv, Logging
      <4> QED BY <3>1, <3>3, <4>1, NoSession
    <3> QED BY <3>2, <3>3
  <2> QED
    BY <1>1, <2>1, <2>2, <2>3, <2>4, <2>5, <2>6, <2>7, <2>8, <2>9 DEF Monitor
<1>2. CASE Stat \/ ReadLog \/ Drop \/ Second \/ UNCHANGED vars
  <2>1. UNCHANGED <<mpc, file, readings, next>>
    BY <1>2 DEF Stat, ReadLog, Drop, Second, vars, monitorVars, fileVars
  <2> QED BY <2>1 DEF SessionInv, InOrder, Ended, Run, IsRow, Batches
<1> QED BY <1>1, <1>2 DEF Next

\* The next marker after a start ends its session.
LEMMA NextMark ==
  ASSUME NEW f \in Seq(Lines), NEW i \in 1..Len(f), f[i].kind = "start",
         {k \in (i + 1)..Len(f) : f[k].kind # "row"} # {}
  PROVE  LET j == Min({k \in (i + 1)..Len(f) : f[k].kind # "row"})
         IN  j \in (i + 1)..Len(f) /\ f[j].kind # "row" /\ Run(f, i, j)
<1> DEFINE A == {k \in (i + 1)..Len(f) : f[k].kind # "row"}
<1>1. Len(f) \in Nat /\ A \subseteq Nat /\ A # {}
  OBVIOUS
<1>2. PICK a \in A : \A b \in A : ~(<<b, a>> \in OpToRel(<, Nat))
  <2> HIDE DEF A
  <2> QED BY <1>1, NatLessThanWellFounded, WFMin
<1>3. \A b \in A : a <= b
  <2> HIDE DEF A
  <2>1. a \in Nat /\ \A b \in A : b \in Nat
    BY <1>1, <1>2
  <2>2. \A b \in A : ~(b < a)
    BY <1>2, <2>1 DEF OpToRel
  <2> QED BY <2>1, <2>2
<1>4. Min(A) \in A /\ \A b \in A : Min(A) <= b
  <2> HIDE DEF A
  <2> QED BY <1>1, <1>3 DEF Min
<1>5. \A k \in (i + 1)..(Min(A) - 1) : IsRow(f[k])
  <2> SUFFICES ASSUME NEW k \in (i + 1)..(Min(A) - 1), ~IsRow(f[k]) PROVE FALSE
    BY DEF IsRow
  <2>1. Min(A) \in (i + 1)..Len(f)
    BY <1>4
  <2> HIDE DEF A
  <2>2. k \in (i + 1)..Len(f) /\ k < Min(A)
    BY <1>1, <2>1
  <2> USE DEF A
  <2>3. k \in A
    BY <2>2 DEF IsRow
  <2>4. Min(A) <= k
    BY <1>4, <2>3
  <2> HIDE DEF A
  <2> QED BY <1>1, <2>1, <2>2, <2>4
<1> QED BY <1>4, <1>5 DEF Run, IsRow

\* gddr6 README, "Each invocation appends one session start/session end marker
\* pair" and "-n 3: three rows per GPU": for any number of GPUs, interval and
\* limit, a session has its rows in the order of the GPUs and whole batches
\* only, wherever signals and failures fall; only a kill leaves no end marker.
THEOREM SessionsWhole ==
  ASSUME Alone
  PROVE  Spec => []WholeSessions
<1>1. Init => SessionInv
  BY DEF Init, SessionInv, InOrder, Ended, Logging
<1>2. Init => HeaderInv
  BY DEF Init, HeaderInv, HeaderFirst
<1>3. ProcOK /\ FileOK /\ HeaderInv /\ SessionInv /\ [Next]_vars => SessionInv'
  BY SessionStep
<1>4. ProcOK /\ FileOK /\ HeaderInv /\ [Next]_vars => HeaderInv'
  BY HeaderStep
<1>5. FileOK /\ SessionInv => WholeSessions
  <2> SUFFICES ASSUME FileOK, InOrder(file), Ended(file),
                      NEW i \in 1..Len(file), file[i].kind = "start",
                      {k \in (i + 1)..Len(file) : file[k].kind # "row"} # {}
               PROVE  LET j    == Min({k \in (i + 1)..Len(file) : file[k].kind # "row"})
                          rows == SessionRows(i, j)
                      IN  /\ \A k \in 1..Len(rows) : rows[k].gpu = ((k - 1) % NumGpus) + 1
                          /\ MaxReadings > 0 => Len(rows) <= MaxReadings * NumGpus
                          /\ \/ file[j].kind = "end" /\ Len(rows) % NumGpus = 0
                             \/ file[j].kind = "start" /\ MayKill
    BY DEF SessionInv, WholeSessions
  <2> DEFINE j    == Min({k \in (i + 1)..Len(file) : file[k].kind # "row"})
             rows == SessionRows(i, j)
  <2>1. file \in Seq(Lines) /\ Len(file) \in Nat
    BY DEF FileOK
  <2>2. j \in (i + 1)..Len(file) /\ file[j].kind # "row" /\ Run(file, i, j)
    BY <2>1, NextMark
  <2> HIDE DEF j
  <2>3. /\ Len(rows) = j - i - 1
        /\ \A k \in 1..Len(rows) : rows[k] = file[i + k]
    <3>1. \A k \in (i + 1)..(j - 1) : file[k] \in Lines
      BY <2>1, <2>2
    <3>2. i + 1 \in Int /\ j - 1 \in Int
      BY <2>1, <2>2
    <3>3. /\ Len(rows) = IF i + 1 <= j - 1 THEN (j - 1) - (i + 1) + 1 ELSE 0
          /\ \A k \in 1..((j - 1) - (i + 1) + 1) : rows[k] = file[(i + 1) + k - 1]
      BY <3>1, <3>2, SubSeqProperties DEF SessionRows
    <3> HIDE DEF rows
    <3>4. Len(rows) = j - i - 1
      BY <2>1, <2>2, <3>3
    <3>5. ASSUME NEW k \in 1..Len(rows) PROVE rows[k] = file[i + k]
      <4>1. k \in 1..((j - 1) - (i + 1) + 1) /\ (i + 1) + k - 1 = i + k
        BY <2>1, <2>2, <3>4
      <4> QED BY <3>3, <4>1
    <3> QED BY <3>4, <3>5
  <2> HIDE DEF rows
  <2>4. /\ \A k \in (i + 1)..(j - 1) : file[k].gpu = ((k - i - 1) % NumGpus) + 1
        /\ MaxReadings > 0 => j - i - 1 <= MaxReadings * NumGpus
    <3>1. j \in (i + 1)..(Len(file) + 1)
      BY <2>1, <2>2
    <3> QED BY <2>2, <3>1 DEF InOrder
  <2>5. \A k \in 1..Len(rows) : rows[k].gpu = ((k - 1) % NumGpus) + 1
    <3> SUFFICES ASSUME NEW k \in 1..Len(rows)
                 PROVE  rows[k].gpu = ((k - 1) % NumGpus) + 1
      OBVIOUS
    <3>1. i + k \in (i + 1)..(j - 1) /\ (i + k) - i - 1 = k - 1
      BY <2>1, <2>2, <2>3
    <3> QED BY <2>3, <2>4, <3>1
  <2>6. \/ file[j].kind = "end" /\ (j - i - 1) % NumGpus = 0
        \/ file[j].kind = "start" /\ MayKill
    BY <2>2 DEF Ended, IsRow
  <2>7. /\ \A k \in 1..Len(rows) : rows[k].gpu = ((k - 1) % NumGpus) + 1
        /\ MaxReadings > 0 => Len(rows) <= MaxReadings * NumGpus
        /\ \/ file[j].kind = "end" /\ Len(rows) % NumGpus = 0
           \/ file[j].kind = "start" /\ MayKill
    BY <2>3, <2>4, <2>5, <2>6
  <2> QED BY <2>7 DEF j, rows
<1> QED
  BY <1>1, <1>2, <1>3, <1>4, <1>5, AlwaysTyped, PTL DEF Spec
================================================================================
