-------------------------------- MODULE FanTools --------------------------------
(***************************************************************************)
(* The manual tools of fan-governor/tools: case-fan.sh on the hwmon        *)
(* channels of the it87 chip, gpu-fan.sh on the fans of GPU 0.  One tool   *)
(* runs at a time; each step is one device access, between any two of      *)
(* which it may be interrupted, and other programs may write their devices *)
(* (Others).  The subcommands that only print change nothing and are left  *)
(* out.                                                                    *)
(***************************************************************************)
EXTENDS Integers, Sequences, Functions

CONSTANTS
  Channels,    \* pwm_list: the channels of the chip, in order
  Fans,        \* the fans of GPU 0, in order
  Percents,    \* the arguments of set
  Ramp,        \* the percentages of ramp, in order
  Others,      \* devices that other programs write as well
  Modes,       \* the values of pwmN_enable
  MayFail,     \* the accesses that may fail
  MayInterrupt, \* where Ctrl+C, or SIGTERM for case-fan.sh, may fall
  MayDie       \* where a tool may be killed: SIGKILL, and SIGTERM for the
               \* Python of gpu-fan.sh

ToolDevices   == Range(Channels) \cup Range(Fans)
Registers == [mode : Modes, level : 0..255]

\* The conditions under which the module is used: see SharedFans.
ToolsConfig ==
  /\ Channels \in Seq(ToolDevices) /\ Fans \in Seq(ToolDevices)
  /\ Len(Channels) >= 1 /\ Len(Fans) >= 1
  /\ Range(Channels) \cap Range(Fans) = {}
  /\ Ramp \in Seq(0..100) /\ Len(Ramp) \in 1..255
  /\ Percents \subseteq 0..100
  /\ Others \subseteq ToolDevices
  /\ {"manual", "auto"} \subseteq Modes

VARIABLES
  at,      \* the next access of the tool, "off" when none runs
  n,       \* the channel or fan of the loop
  arg,     \* the value to write, for ramp its index
  saved,   \* ORIG_EN and ORIG_PWM of channel n, while they are set
  met,     \* history: the registers find found in channels that are nobody
           \* else's
  hw       \* per device: mode and level

toolVars == <<at, n, arg, saved, met>>
tvars    == <<toolVars, hw>>

FindSites == {"save_mode", "save_level", "switch", "drive", "listen",
              "back_level", "back_mode", "unset", "clean_level", "clean_mode"}
RampSites == {"ramp", "ramp_wait", "ramp_off"}
ChannelSites == FindSites \cup {"set_mode", "set_level", "reload", "all_mode",
                                "all_level"}
FanSites     == RampSites \cup {"fan_set", "fan_auto"}
Sites        == ChannelSites \cup FanSites

Kept    == Range(Channels) \ Others
Unset   == [mode |-> "unset", level |-> 0]
Channel == Channels[n]
Fan     == Fans[n]

Init ==
  /\ at = "off" /\ n = 1 /\ arg = 0 /\ saved = Unset
  /\ hw \in [ToolDevices -> Registers]
  /\ met = <<>>

--------------------------------------------------------------------------------
(* The command line *)

Begin(site, i, a) ==
  /\ at = "off"
  /\ at' = site /\ n' = i /\ arg' = a
  /\ met' = IF site \in FindSites THEN [d \in Kept |-> hw[d]] ELSE <<>>
  /\ UNCHANGED <<saved, hw>>

SetLevel == \E i \in DOMAIN Channels, p \in Percents :
              Begin("set_mode", i, (p * 255) \div 100)
Quiet    == \E i \in DOMAIN Channels : Begin("set_mode", i, 76)
QuietAll == Begin("all_mode", 1, 76)
Panic    == Begin("reload", 1, 76)
Find     == Begin("save_mode", 1, 229)
SetFans  == \E p \in Percents : Begin("fan_set", 1, p)
AutoFans == Begin("fan_auto", 1, 0)
RampFans == Begin("ramp", 1, 1)

Command == \/ SetLevel \/ Quiet \/ QuietAll \/ Panic \/ Find
           \/ SetFans \/ AutoFans \/ RampFans

--------------------------------------------------------------------------------
(* Accesses *)

End == at' = "off" /\ n' = 1 /\ arg' = 0 /\ saved' = Unset /\ met' = <<>>

Goto(site) == at' = site /\ UNCHANGED <<n, arg, saved, met>>

Mode(d, m)  == hw' = [hw EXCEPT ![d].mode = m]
Level(d, l) == hw' = [hw EXCEPT ![d].level = l]
Speed(d, p) == hw' = [hw EXCEPT ![d] = [mode |-> "manual", level |-> p]]

\* The access of site: it takes effect and the tool goes on, or it fails.
Try(site, access, then, otherwise) ==
  /\ at = site
  /\ \/ access /\ then
     \/ site \in MayFail /\ UNCHANGED hw /\ otherwise

\* Mutant of Each: one turn too many.
EachPastEnd(s, site, rest) ==
  \/ n <= Len(s) /\ n' = n + 1 /\ at' = site /\ UNCHANGED <<arg, saved, met>>
  \/ n > Len(s) /\ rest

\* The next turn of a loop over s, or what follows the loop.
Each(s, site, rest) ==
  \/ n < Len(s) /\ n' = n + 1 /\ at' = site /\ UNCHANGED <<arg, saved, met>>
  \/ n = Len(s) /\ rest

\* case-fan.sh set and auto: set -e ends the script at the first failure.
Set ==
  \/ Try("set_mode", Mode(Channel, "manual"), Goto("set_level"), End)
  \/ Try("set_level", Level(Channel, arg), End, End)

\* panic: modprobe may not find the chip again; the registers survive.
Reload == Try("reload", UNCHANGED hw, Goto("all_mode"), End)

\* auto-all, and panic after the reload: || true goes on after a failure.
All ==
  \/ Try("all_mode", Mode(Channel, "manual"), Goto("all_level"), Goto("all_level"))
  \/ LET next == Each(Channels, "all_mode", End)
     IN  Try("all_level", Level(Channel, arg), next, next)

--------------------------------------------------------------------------------
(* case-fan.sh find *)

Save(r, site) == saved' = r /\ at' = site /\ UNCHANGED <<n, arg, met>>

\* ORIG_EN and ORIG_PWM.  A failed read is the EXIT trap: it ends on the
\* unbound ORIG_PWM, or with an empty one, which the channel refuses.
Remember ==
  \/ Try("save_mode", UNCHANGED hw,
         Save([mode |-> hw[Channel].mode, level |-> 0], "save_level"), End)
  \/ Try("save_level", UNCHANGED hw,
         Save([saved EXCEPT !.level = hw[Channel].level], "switch"),
         Goto("clean_mode"))

\* A failed write is the EXIT trap: cleanup_find.
Loud ==
  \/ Try("switch", Mode(Channel, "manual"), Goto("drive"), Goto("clean_level"))
  \/ Try("drive", Level(Channel, arg), Goto("listen"), Goto("clean_level"))
  \/ at = "listen" /\ Goto("back_level") /\ UNCHANGED hw

\* Mutant of PutBack: the channel is forgotten before its last write.
PutBackForgetful ==
  \/ Try("back_level", Level(Channel, saved.level), Goto("back_mode"),
         Goto("clean_level"))
  \/ Try("back_mode", Mode(Channel, saved.mode), Save(Unset, "unset"), End)

PutBack ==
  \/ Try("back_level", Level(Channel, saved.level), Goto("back_mode"),
         Goto("clean_level"))
  \/ Try("back_mode", Mode(Channel, saved.mode), Goto("unset"),
         Goto("clean_level"))

\* unset and on to the next channel; after the last one nothing is left that
\* the EXIT trap could restore.
Forget ==
  /\ at = "unset"
  /\ \/ /\ n < Len(Channels)
        /\ n' = n + 1 /\ at' = "save_mode" /\ saved' = Unset
        /\ UNCHANGED <<arg, met>>
     \/ n = Len(Channels) /\ End
  /\ UNCHANGED hw

\* cleanup_find: || true after both writes, exit 0 in any case.
CleanUp ==
  \/ Try("clean_level", Level(Channel, saved.level), Goto("clean_mode"),
         Goto("clean_mode"))
  \/ Try("clean_mode", Mode(Channel, saved.mode), End, End)

--------------------------------------------------------------------------------
(* gpu-fan.sh *)

SetFan ==
  LET next == Each(Fans, "fan_set", End)
  IN  Try("fan_set", Speed(Fan, arg), next, End)

AutoFan ==
  LET next == Each(Fans, "fan_auto", End)
  IN  Try("fan_auto", Mode(Fan, "auto"), next, End)

\* The finally clause.
RampOff == at' = "ramp_off" /\ n' = 1 /\ UNCHANGED <<arg, saved, met>>

\* Mutant of RampUp: no try around the loop.
RampUpBare ==
  LET next == Each(Fans, "ramp", Goto("ramp_wait"))
  IN  Try("ramp", Speed(Fan, Ramp[arg]), next, End)

RampUp ==
  LET next == Each(Fans, "ramp", Goto("ramp_wait"))
  IN  Try("ramp", Speed(Fan, Ramp[arg]), next, RampOff)

RampWait ==
  /\ at = "ramp_wait"
  /\ \/ /\ arg < Len(Ramp)
        /\ arg' = arg + 1 /\ n' = 1 /\ at' = "ramp"
        /\ UNCHANGED <<saved, met>>
     \/ arg = Len(Ramp) /\ RampOff
  /\ UNCHANGED hw

\* An exception here skips the fans after it.
RampDown ==
  LET next == Each(Fans, "ramp_off", End)
  IN  Try("ramp_off", Mode(Fan, "auto"), next, End)

--------------------------------------------------------------------------------
(* Ctrl+C, and for case-fan.sh SIGTERM *)

\* The accesses an interrupt leads away from: to cleanup_find once both values
\* are saved, and to the finally clause.
Trapped  == {"switch", "drive", "listen", "back_level", "back_mode", "unset"}
InTheTry == {"ramp", "ramp_wait"}

\* Everything else ends where it is: find before it has saved both values,
\* cleanup_find, which has reset its traps, and the finally clause, where the
\* KeyboardInterrupt skips the remaining fans.
Interrupt ==
  /\ at \in MayInterrupt
  /\ IF at \in Trapped THEN Goto("clean_level")
     ELSE IF at \in InTheTry THEN RampOff ELSE End
  /\ UNCHANGED hw

Die == at \in MayDie /\ End /\ UNCHANGED hw

Tool == \/ Command \/ Set \/ Reload \/ All
        \/ Remember \/ Loud \/ PutBack \/ Forget \/ CleanUp
        \/ SetFan \/ AutoFan \/ RampUp \/ RampWait \/ RampDown
        \/ Interrupt \/ Die

\* Another program, the daemon or an operator, writes a device of its own.
Other ==
  /\ \E d \in Others, r \in Registers : hw' = [hw EXCEPT ![d] = r]
  /\ UNCHANGED toolVars

Next == Tool \/ Other
Spec == Init /\ [][Next]_tvars

--------------------------------------------------------------------------------
(* Properties *)

TypeOK ==
  /\ at \in Sites \cup {"off"}
  /\ n \in Nat
  /\ at \in ChannelSites => n \in DOMAIN Channels
  /\ at \in FanSites => n \in DOMAIN Fans
  /\ arg \in 0..255
  /\ at \in {"ramp", "ramp_wait"} => arg \in DOMAIN Ramp
  /\ saved \in [mode : Modes \cup {"unset"}, level : 0..255]
  /\ at \in FindSites \ {"save_mode"} => saved.mode \in Modes
  /\ hw \in [ToolDevices -> Registers]

\* case-fan.sh, "The find subcommand always restores touched channels, even
\* on Ctrl+C": however find ends, every channel that is nobody else's is in
\* the mode and at the level it was found in.  It takes that cleanup_find
\* neither fails nor is interrupted or killed.
FindRestores ==
  [][at' = "off" /\ at \in FindSites =>
       \A d \in Kept : hw'[d] = met[d]]_tvars

\* gpu-fan.sh ramp, "restored to firmware control": however the ramp ends,
\* with a driver error or Ctrl+C at any fan, no fan is left in manual mode.
\* It takes that the finally clause neither fails nor is interrupted.
RampRestores ==
  [][at' = "off" /\ at \in RampSites =>
       \A d \in Range(Fans) \ Others : hw'[d].mode = "auto"]_tvars
================================================================================
