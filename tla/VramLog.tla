-------------------------------- MODULE VramLog --------------------------------
(***************************************************************************)
(* The CSV log between gddr6 and fan-governor: gddr6 processes append to   *)
(* it (app.c, logger.c), and GpuTempSource._vram_from_log takes the VRAM   *)
(* temperature from its last data line when NVML has none.                 *)
(*                                                                         *)
(* A step is one access to the file.  logger.c flushes every line it has   *)
(* printed as a whole, so a line is never seen in part.                    *)
(***************************************************************************)
EXTENDS Integers, Sequences, SequencesExt

CONSTANTS
  Monitors,      \* gddr6 processes that may run at the same time
  NumGpus,       \* GPUs gddr6 detects, in its order
  Interval,      \* -i
  Lag,           \* by how many seconds a turn of its loop may be late
  MaxReadings,   \* -n, 0 for no limit
  Truncate,      \* whether an invocation may have --truncate
  MaxAge,        \* _GDDR6_MAX_AGE_S
  Temps,         \* what the memory sensor can show
  MayKill,       \* SIGKILL, a power cut
  MayFail,       \* {"open"}: the log cannot be opened
  MaxLines,      \* bound: no session starts and no reading is taken past it
  MaxSeconds     \* ages are counted up to here

Gpus   == 1..NumGpus
Period == Interval + Lag   \* the longest time between two batches

ASSUME LogConfig ==
  /\ NumGpus \in Nat \ {0}
  /\ Interval \in Nat \ {0} /\ Lag \in Nat /\ MaxReadings \in Nat /\ MaxAge \in Nat
  /\ Temps \subseteq Nat
  /\ Truncate \subseteq BOOLEAN /\ MayKill \in BOOLEAN
  /\ MaxLines \in Nat /\ MaxSeconds \in Nat

\* Two processes that write at their own offset of a truncated file would
\* overwrite each other's lines byte by byte: outside this model.
ASSUME OneTruncates == TRUE \in Truncate => \A m, n \in Monitors : m = n

VARIABLES
  mpc,        \* per process: the next access
  stop,       \* gddr6_shutdown_requested
  truncate,   \* cfg.truncate_log
  fresh,      \* logger_open's fresh
  readings,   \* counted up to MaxReadings
  batch,      \* vram_temps
  next,       \* the GPU whose row is written next
  slept,
  file,       \* the lines of the log; a missing one is empty
  mtime,      \* seconds since the last change of the file
  measured,   \* seconds since the temperature in the last row was
  rpc,        \* the reader: "idle", or "open" between getmtime and open
  answer      \* what _vram_from_log returned last

monitorVars == <<mpc, stop, truncate, fresh, readings, batch, next, slept>>
fileVars    == <<file, mtime, measured>>
readerVars  == <<rpc, answer>>
vars        == <<monitorVars, fileVars, readerVars>>

Row(m, g, t) == [kind |-> "row", by |-> m, gpu |-> g, temp |-> t]
Mark(m, k)   == [kind |-> k, by |-> m]
IsRow(l)     == l.kind = "row"

Nothing == [kind |-> "none"]    \* None: no file, no row, or a 0
Stale   == [kind |-> "stale"]   \* None, for the age of the file

\* The index of lines[-1], the last line that is a row; 0 without any.
DataLine == SelectLastInSeq(file, IsRow)

\* A reading; current tells a row of the last session from one before it.
Value == [kind |-> "value", temp |-> file[DataLine].temp, age |-> measured,
          current |-> \E i \in 1..Len(file) :
                        IsRow(file[i]) /\ \A j \in i..Len(file) : file[j].kind # "start"]

Init ==
  /\ mpc = [m \in Monitors |-> "off"]
  /\ stop = [m \in Monitors |-> FALSE]
  /\ truncate = [m \in Monitors |-> FALSE]
  /\ fresh = [m \in Monitors |-> FALSE]
  /\ readings = [m \in Monitors |-> 0]
  /\ batch = [m \in Monitors |-> <<>>]
  /\ next = [m \in Monitors |-> 1]
  /\ slept = [m \in Monitors |-> 0]
  /\ file = <<>> /\ mtime = 0 /\ measured = 0
  /\ rpc = "idle" /\ answer = Nothing

--------------------------------------------------------------------------------
(* gddr6 *)

\* A process ends and leaves nothing in memory.
Gone(m) ==
  /\ mpc' = [mpc EXCEPT ![m] = "off"]
  /\ stop' = [stop EXCEPT ![m] = FALSE]
  /\ truncate' = [truncate EXCEPT ![m] = FALSE]
  /\ fresh' = [fresh EXCEPT ![m] = FALSE]
  /\ readings' = [readings EXCEPT ![m] = 0]
  /\ batch' = [batch EXCEPT ![m] = <<>>]
  /\ next' = [next EXCEPT ![m] = 1]
  /\ slept' = [slept EXCEPT ![m] = 0]

Goto(m, p) == mpc' = [mpc EXCEPT ![m] = p]

\* main() up to logger_open.  A process with --no-log, or one that finds no
\* GPU or cannot map it, never touches the file and is left out.
Start(m) ==
  /\ mpc[m] = "off"
  /\ Len(file) + NumGpus + 3 <= MaxLines
  /\ \E t \in Truncate : truncate' = [truncate EXCEPT ![m] = t]
  /\ Goto(m, "probe")
  /\ UNCHANGED <<stop, fresh, readings, batch, next, slept, fileVars, readerVars>>

\* Mutant of Empty: the probe is left out.
AlwaysFresh == TRUE

Empty == file = <<>>

\* The probe of logger_open: a new or an empty file gets a header.
Probe(m) ==
  /\ mpc[m] = "probe"
  /\ fresh' = [fresh EXCEPT ![m] = truncate[m] \/ Empty]
  /\ Goto(m, "open")
  /\ UNCHANGED <<stop, truncate, readings, batch, next, slept, fileVars, readerVars>>

\* fopen with "w" or "a", and calloc.  When one of them fails the process goes
\* on without a log; calloc does so on a file that has been truncated.
Open(m) ==
  /\ mpc[m] = "open"
  /\ \/ /\ IF truncate[m] THEN file' = <<>> /\ mtime' = 0
                       ELSE UNCHANGED <<file, mtime>>
        /\ Goto(m, "begin") \/ ("open" \in MayFail /\ Goto(m, "mute"))
     \/ /\ "open" \in MayFail
        /\ Goto(m, "mute")
        /\ UNCHANGED <<file, mtime>>
  /\ UNCHANGED <<stop, truncate, fresh, readings, batch, next, slept, measured, readerVars>>

\* Header and start marker leave logger_open in one flush.
Begin(m) ==
  /\ mpc[m] = "begin"
  /\ file' = file \o (IF fresh[m] THEN <<Mark(m, "header")>> ELSE <<>>)
                  \o <<Mark(m, "start")>>
  /\ mtime' = 0
  /\ Goto(m, "loop")
  /\ UNCHANGED <<stop, truncate, fresh, readings, batch, next, slept, measured, readerVars>>

Done(m) == stop[m] \/ (MaxReadings > 0 /\ readings[m] >= MaxReadings)

\* The head of monitor_loop, and the sensor of every GPU.
Loop(m) ==
  /\ mpc[m] = "loop"
  /\ \/ /\ Done(m)
        /\ Goto(m, "close")
        /\ UNCHANGED <<batch, next>>
     \/ /\ ~Done(m)
        /\ Len(file) + NumGpus + 1 <= MaxLines
        /\ batch' \in {[batch EXCEPT ![m] = b] : b \in [Gpus -> Temps]}
        /\ next' = [next EXCEPT ![m] = 1]
        /\ Goto(m, "rows")
  /\ UNCHANGED <<stop, truncate, fresh, readings, slept, fileVars, readerVars>>

\* Mutant of LastRow: the loop over the GPUs looks at the flag as well.
LastRowOrStopped(m) == next[m] = NumGpus \/ stop[m]

\* Mutant of LastRow: one turn too many.
LastRowPastEnd(m) == next[m] > NumGpus

LastRow(m) == next[m] = NumGpus

\* Mutant of WriteRow: fflush is forgotten, the rows stay in the buffer.
WriteRowUnflushed(m) ==
  /\ mpc[m] = "rows"
  /\ batch' = [batch EXCEPT ![m] = <<>>]
  /\ Goto(m, "sleep")
  /\ UNCHANGED <<stop, truncate, fresh, readings, next, slept, fileVars, readerVars>>

\* logger_write of one GPU; after the last, readings++ and sleep().
WriteRow(m) ==
  /\ mpc[m] = "rows"
  /\ file' = Append(file, Row(m, next[m], batch[m][next[m]]))
  /\ mtime' = 0 /\ measured' = 0
  /\ IF LastRow(m)
     THEN /\ readings' = [readings EXCEPT ![m] =
                            IF @ < MaxReadings THEN @ + 1 ELSE @]
          /\ batch' = [batch EXCEPT ![m] = <<>>]
          /\ slept' = [slept EXCEPT ![m] = 0]
          /\ next' = [next EXCEPT ![m] = 1]
          /\ Goto(m, "sleep")
     ELSE /\ next' = [next EXCEPT ![m] = @ + 1]
          /\ UNCHANGED <<mpc, readings, batch, slept>>
  /\ UNCHANGED <<stop, truncate, fresh, readerVars>>

\* sleep() lasts for the interval at least.
Wake(m) ==
  /\ mpc[m] = "sleep"
  /\ slept[m] >= Interval
  /\ slept' = [slept EXCEPT ![m] = 0]
  /\ Goto(m, "loop")
  /\ UNCHANGED <<stop, truncate, fresh, readings, batch, next, fileVars, readerVars>>

Close(m) ==
  /\ mpc[m] = "close"
  /\ file' = Append(file, Mark(m, "end"))
  /\ mtime' = 0
  /\ Gone(m)
  /\ UNCHANGED <<measured, readerVars>>

\* A process without a log ends when it likes.
Leave(m) ==
  /\ mpc[m] = "mute"
  /\ Gone(m)
  /\ UNCHANGED <<fileVars, readerVars>>

\* SIGINT, SIGHUP or SIGTERM: the handler sets the flag, and a sleep() in
\* progress is cut short; one about to begin is not.
Signal(m) ==
  /\ mpc[m] # "off" /\ ~stop[m]
  /\ stop' = [stop EXCEPT ![m] = TRUE]
  /\ IF mpc[m] = "sleep"
     THEN Goto(m, "loop") /\ slept' = [slept EXCEPT ![m] = 0]
     ELSE UNCHANGED <<mpc, slept>>
  /\ UNCHANGED <<truncate, fresh, readings, batch, next, fileVars, readerVars>>

Kill(m) ==
  /\ MayKill
  /\ mpc[m] # "off"
  /\ Gone(m)
  /\ UNCHANGED <<fileVars, readerVars>>

Monitor(m) ==
  \/ Start(m) \/ Probe(m) \/ Open(m) \/ Begin(m) \/ Loop(m) \/ WriteRow(m)
  \/ Wake(m) \/ Close(m) \/ Leave(m) \/ Signal(m) \/ Kill(m)

--------------------------------------------------------------------------------
(* GpuTempSource._vram_from_log *)

\* Mutant of TooOld: any log will do.
NeverTooOld == FALSE

TooOld == mtime > MaxAge

Answer(a) == answer' = a /\ rpc' = "idle"

\* getmtime, which a missing file fails.
Stat ==
  /\ rpc = "idle"
  /\ \/ Empty /\ Answer(Nothing)
     \/ ~Empty /\ TooOld /\ Answer(Stale)
     \/ ~Empty /\ ~TooOld /\ rpc' = "open" /\ UNCHANGED answer
  /\ UNCHANGED <<monitorVars, fileVars>>

\* Whatever GPU the last data line is of.
ReadLog ==
  /\ rpc = "open"
  /\ Answer(IF DataLine = 0 \/ file[DataLine].temp <= 0 THEN Nothing ELSE Value)
  /\ UNCHANGED <<monitorVars, fileVars>>

\* The caller has used the answer, or its process ended in the middle of the
\* call.
Drop ==
  /\ Answer(Nothing)
  /\ UNCHANGED <<monitorVars, fileVars>>

--------------------------------------------------------------------------------
(* Time *)

Later(age) == IF age < MaxSeconds THEN age + 1 ELSE age

\* A second passes while the processes sleep and the reader is elsewhere.  What
\* a turn of monitor_loop takes beyond its sleep(), on a busy machine or in a
\* slow driver, is counted as sleep, up to Lag.
Second ==
  /\ rpc = "idle"
  /\ \A m \in Monitors : \/ mpc[m] \in {"off", "mute"}
                         \/ mpc[m] = "sleep" /\ slept[m] < Period
  /\ slept' = [m \in Monitors |-> IF mpc[m] = "sleep" THEN slept[m] + 1 ELSE 0]
  /\ mtime' = Later(mtime) /\ measured' = Later(measured)
  /\ UNCHANGED <<mpc, stop, truncate, fresh, readings, batch, next, file, readerVars>>

Next == Stat \/ ReadLog \/ Drop \/ Second \/ \E m \in Monitors : Monitor(m)

Spec == Init /\ [][Next]_vars

--------------------------------------------------------------------------------
(* Properties *)

Kinds == {"header", "start", "end"}
Lines == [kind : Kinds, by : Monitors]
         \cup [kind : {"row"}, by : Monitors, gpu : Gpus, temp : Temps]

TypeOK ==
  /\ mpc \in [Monitors -> {"off", "probe", "open", "begin", "loop", "rows",
                           "sleep", "close", "mute"}]
  /\ stop \in [Monitors -> BOOLEAN] /\ truncate \in [Monitors -> BOOLEAN]
  /\ fresh \in [Monitors -> BOOLEAN]
  /\ readings \in [Monitors -> 0..MaxReadings]
  /\ \A m \in Monitors : batch[m] \in [Gpus -> Temps] \cup {<<>>}
  /\ next \in [Monitors -> Gpus]
  /\ slept \in [Monitors -> 0..Period]
  /\ file \in Seq(Lines)
  /\ mtime \in 0..MaxSeconds /\ measured \in 0..MaxSeconds
  /\ rpc \in {"idle", "open"}

\* gddr6 README, "Header is written only to a new/empty file": wherever
\* signals and kills fall, the log has one header, and it is the first line.
HeaderFirst ==
  \A i \in 1..Len(file) : (file[i].kind = "header") <=> (i = 1)

\* The lines between a start marker at i and the next marker at j.
SessionRows(i, j) == SubSeq(file, i + 1, j - 1)

\* gddr6 README, "Each invocation appends one session start/session end
\* marker pair" and "-n 3: three rows per GPU": a start marker is followed by
\* its rows in the order of the GPUs, at most -n batches, and its end marker;
\* only a process that was killed leaves no end, and only there the last
\* batch may be cut.  A signal between two rows does not cut one.
WholeSessions ==
  \A i \in 1..Len(file) : file[i].kind = "start" =>
    LET after == {j \in (i + 1)..Len(file) : file[j].kind # "row"}
    IN  after # {} =>
          LET j    == Min(after)
              rows == SessionRows(i, j)
          IN  /\ \A k \in 1..Len(rows) : rows[k].gpu = ((k - 1) % NumGpus) + 1
              /\ MaxReadings > 0 => Len(rows) <= MaxReadings * NumGpus
              /\ \/ file[j].kind = "end" /\ Len(rows) % NumGpus = 0
                 \/ file[j].kind = "start" /\ MayKill

\* What the age check is for: a temperature that is returned was measured
\* at most MaxAge seconds before the last line, of a session that takes one
\* every Period.
LiveReading ==
  answer.kind = "value" => answer.age <= MaxAge + Period

\* It holds of the rows of the last session: its end marker renews the age of
\* the file by one period at most, wherever a signal falls.
LiveSession ==
  answer.kind = "value" /\ answer.current => answer.age <= MaxAge + Period

\* fan-governor.py, "log older than this: gddr6 not running".
StaleMeansStopped ==
  [][Stat /\ rpc' = "idle" /\ answer' = Stale =>
       \A m \in Monitors : mpc[m] \in {"off", "probe", "open", "begin", "mute"}]_vars
================================================================================
