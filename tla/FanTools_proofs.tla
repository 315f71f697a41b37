----------------------------- MODULE FanTools_proofs -----------------------------
(***************************************************************************)
(* Theorems about FanTools, for every number of channels and fans, every   *)
(* use of the other devices by other programs, and failures and            *)
(* interruptions at every access the hypotheses leave open.                *)
(***************************************************************************)
EXTENDS FanTools, SequenceTheorems, TLAPS

\* What the registers of a channel and the saved values say of each other
\* while find is at work on channel d.
ChannelTracked(d) ==
  /\ at \in {"save_mode", "save_level", "unset"} => hw[d] = met[d]
  /\ at \in {"save_level", "clean_mode"} => saved.mode = met[d].mode
  /\ at \in {"switch", "drive", "listen", "back_level", "back_mode", "unset",
             "clean_level"} => saved = met[d]
  /\ at \in {"back_mode", "clean_mode"} => hw[d].level = met[d].level

\* Every other channel is as it was found.
FindInv ==
  at \in FindSites =>
    /\ met \in [Kept -> Registers]
    /\ \A d \in Kept : IF d = Channel THEN ChannelTracked(d) ELSE hw[d] = met[d]

\* The finally clause has reached fan n.
RampInv ==
  at = "ramp_off" =>
    \A i \in 1..(n - 1) : Fans[i] \in Others \/ hw[Fans[i]].mode = "auto"

\* Nothing fails, interrupts or kills the tool while it cleans up, and nothing
\* kills it where it would have to clean up.
Undisturbed ==
  /\ MayFail \cap {"clean_level", "clean_mode", "ramp_off"} = {}
  /\ MayInterrupt \cap {"clean_level", "clean_mode", "ramp_off"} = {}
  /\ MayDie \cap (FindSites \cup RampSites) = {}

--------------------------------------------------------------------------------
(* Types *)

\* The loops are over devices.
LEMMA ChannelIsDevice ==
  ASSUME ToolsConfig, NEW i \in DOMAIN Channels
  PROVE  Channels[i] \in ToolDevices
BY DEF ToolsConfig

LEMMA FanIsDevice ==
  ASSUME ToolsConfig, NEW i \in DOMAIN Fans
  PROVE  Fans[i] \in ToolDevices
BY DEF ToolsConfig

LEMMA Lengths ==
  ASSUME ToolsConfig
  PROVE  /\ DOMAIN Channels = 1..Len(Channels) /\ Len(Channels) \in Nat
         /\ DOMAIN Fans = 1..Len(Fans) /\ Len(Fans) \in Nat
         /\ DOMAIN Ramp = 1..Len(Ramp) /\ Len(Ramp) \in 1..255
         /\ 1 \in DOMAIN Channels /\ 1 \in DOMAIN Fans /\ 1 \in DOMAIN Ramp
<1>1. Ramp \in Seq(0..100) /\ Len(Ramp) \in 1..255
  BY DEF ToolsConfig
<1>2. DOMAIN Ramp = 1..Len(Ramp) /\ 1 \in DOMAIN Ramp
  BY <1>1
<1>3. /\ DOMAIN Channels = 1..Len(Channels) /\ Len(Channels) \in Nat
      /\ DOMAIN Fans = 1..Len(Fans) /\ Len(Fans) \in Nat
      /\ 1 \in DOMAIN Channels /\ 1 \in DOMAIN Fans
  BY DEF ToolsConfig
<1> QED BY <1>1, <1>2, <1>3

LEMMA RampIsPercent ==
  ASSUME ToolsConfig, NEW i \in DOMAIN Ramp
  PROVE  Ramp[i] \in 0..100
<1>1. Ramp \in Seq(0..100) /\ i \in 1..Len(Ramp)
  BY DEF ToolsConfig
<1> QED BY <1>1, ElementOfSeq

\* An access of the tool leaves every register with a mode and a level.
LEMMA ModeTyped ==
  ASSUME NEW d \in ToolDevices, hw \in [ToolDevices -> Registers], NEW m \in Modes, Mode(d, m)
  PROVE  hw' \in [ToolDevices -> Registers]
BY DEF Mode, Registers

LEMMA LevelTyped ==
  ASSUME NEW d \in ToolDevices, hw \in [ToolDevices -> Registers], NEW l \in 0..255, Level(d, l)
  PROVE  hw' \in [ToolDevices -> Registers]
BY DEF Level, Registers

LEMMA SpeedTyped ==
  ASSUME NEW d \in ToolDevices, hw \in [ToolDevices -> Registers], NEW l \in 0..255, Speed(d, l),
         "manual" \in Modes
  PROVE  hw' \in [ToolDevices -> Registers]
<1>1. [mode |-> "manual", level |-> l] \in Registers
  BY DEF Registers
<1> QED BY <1>1 DEF Speed

LEMMA HwTyped ==
  ASSUME ToolsConfig, TypeOK, [Next]_tvars
  PROVE  hw' \in [ToolDevices -> Registers]
<1>1. hw \in [ToolDevices -> Registers] /\ arg \in 0..255
  BY DEF TypeOK
<1>2. /\ saved.level \in 0..255
      /\ at \in FindSites \ {"save_mode"} => saved.mode \in Modes
      /\ "manual" \in Modes /\ "auto" \in Modes
  BY DEF TypeOK, ToolsConfig
<1>3. at \in ChannelSites => Channel \in ToolDevices
  BY ChannelIsDevice DEF TypeOK, Channel
<1>4. at \in FanSites => Fan \in ToolDevices
  BY FanIsDevice DEF TypeOK, Fan
<1>5. at = "ramp" => Ramp[arg] \in 0..255
  BY RampIsPercent DEF TypeOK
<1>6. \/ UNCHANGED hw
      \/ at \in ChannelSites /\ Mode(Channel, "manual")
      \/ at \in FindSites \ {"save_mode"} /\ Mode(Channel, saved.mode)
      \/ at \in ChannelSites /\ Level(Channel, arg)
      \/ at \in ChannelSites /\ Level(Channel, saved.level)
      \/ at \in FanSites /\ Mode(Fan, "auto")
      \/ at \in FanSites /\ Speed(Fan, arg)
      \/ at = "ramp" /\ Speed(Fan, Ramp[arg])
      \/ Other
  <2>1. CASE Command \/ Interrupt \/ Die \/ Forget \/ RampWait \/ UNCHANGED tvars
    BY <2>1 DEF Command, SetLevel, Quiet, QuietAll, Panic, Find, SetFans, AutoFans,
       RampFans, Begin, Interrupt, Die, Forget, RampWait, tvars
  <2>2. CASE Set \/ Reload \/ All
    BY <2>2 DEF Set, Reload, All, Try, ChannelSites
  <2>3. CASE Remember \/ Loud \/ PutBack \/ CleanUp
    BY <2>3 DEF Remember, Loud, PutBack, CleanUp, Try, ChannelSites, FindSites
  <2>4. CASE SetFan \/ AutoFan \/ RampUp \/ RampDown
    BY <2>4 DEF SetFan, AutoFan, RampUp, RampDown, Try, FanSites, RampSites
  <2> QED BY <2>1, <2>2, <2>3, <2>4 DEF Next, Tool
<1>7. Other => hw' \in [ToolDevices -> Registers]
  BY <1>1 DEF Other, ToolsConfig, Registers
<1>8. "ramp" \in FanSites /\ FindSites \subseteq ChannelSites
  BY DEF FanSites, RampSites, ChannelSites
<1>9. ASSUME NEW d \in ToolDevices, NEW m \in Modes, NEW l \in 0..255
      PROVE  Mode(d, m) \/ Level(d, l) \/ Speed(d, l) => hw' \in [ToolDevices -> Registers]
  BY <1>1, <1>2, <1>9, ModeTyped, LevelTyped, SpeedTyped
<1>10. CASE at \in ChannelSites /\ (Mode(Channel, "manual") \/ Level(Channel, arg)
                                   \/ Level(Channel, saved.level))
  BY <1>1, <1>2, <1>3, <1>9, <1>10
<1>11. CASE at \in FindSites \ {"save_mode"} /\ Mode(Channel, saved.mode)
  BY <1>2, <1>3, <1>8, <1>9, <1>11
<1>12. CASE at \in FanSites /\ (Mode(Fan, "auto") \/ Speed(Fan, arg))
  BY <1>1, <1>2, <1>4, <1>9, <1>12
<1>13. CASE at = "ramp" /\ Speed(Fan, Ramp[arg])
  <2>1. Fan \in ToolDevices /\ Ramp[arg] \in 0..255
    BY <1>4, <1>5, <1>8, <1>13
  <2> QED BY <1>2, <1>9, <1>13, <2>1
<1> QED
  BY <1>1, <1>6, <1>7, <1>10, <1>11, <1>12, <1>13
LEMMA SitesApart ==
  /\ ChannelSites \cap FanSites = {} /\ FindSites \subseteq ChannelSites
  /\ RampSites \subseteq FanSites /\ "off" \notin Sites
  /\ Sites = ChannelSites \cup FanSites
  /\ "ramp" \in FanSites /\ "ramp_wait" \in FanSites
BY DEF ChannelSites, FanSites, Sites, FindSites, RampSites

\* Where a step can take the tool, and with which loop index: it ends, or
\* stays in a loop of the kind it is in.
ToChannels(i, a) == at' \in ChannelSites /\ n' = i /\ arg' = a
ToFans(i, a)     == at' \in FanSites /\ n' = i /\ arg' = a

LEMMA CommandControl ==
  ASSUME ToolsConfig, Command
  PROVE  \/ \E i \in DOMAIN Channels, a \in 0..255 : ToChannels(i, a)
         \/ \E a \in 0..255 : ToFans(1, a) /\ (at' = "ramp" => a = 1) /\ at' # "ramp_wait"
<1> USE Lengths DEF ToChannels, ToFans, Begin
<1>1. CASE SetLevel
  <2>1. PICK i \in DOMAIN Channels, p \in Percents :
          Begin("set_mode", i, (p * 255) \div 100)
    BY <1>1 DEF SetLevel
  <2>2. (p * 255) \div 100 \in 0..255
    BY DEF ToolsConfig
  <2> QED BY <2>1, <2>2 DEF ChannelSites
<1>2. CASE Quiet
  BY <1>2 DEF Quiet, ChannelSites
<1>3. CASE QuietAll \/ Panic
  <2>1. at' \in ChannelSites /\ n' = 1 /\ arg' = 76
    BY <1>3 DEF QuietAll, Panic, ChannelSites
  <2> QED BY <2>1
<1>4. CASE Find
  BY <1>4 DEF Find, ChannelSites, FindSites
<1>5. CASE SetFans
  BY <1>5 DEF SetFans, ToolsConfig, FanSites
<1>6. CASE AutoFans
  BY <1>6 DEF AutoFans, FanSites
<1>7. CASE RampFans
  BY <1>7 DEF RampFans, FanSites, RampSites
<1> QED BY <1>1, <1>2, <1>3, <1>4, <1>5, <1>6, <1>7 DEF Command

LEMMA ChannelControl ==
  ASSUME Set \/ Reload \/ All \/ Remember \/ Loud \/ PutBack \/ Forget \/ CleanUp
  PROVE  /\ at \in ChannelSites
         /\ \/ at' = "off" /\ n' = 1 /\ arg' = 0
            \/ ToChannels(n, arg)
            \/ n < Len(Channels) /\ ToChannels(n + 1, arg)
<1> USE DEF ToChannels, Goto, End, Save, ChannelSites, FindSites
<1>1. CASE Set \/ Reload
  BY <1>1 DEF Set, Reload, Try
<1>2. CASE All
  BY <1>2 DEF All, Try, Each
<1>3. CASE Remember \/ Loud
  BY <1>3 DEF Remember, Loud, Try
<1>4. CASE PutBack \/ CleanUp
  BY <1>4 DEF PutBack, CleanUp, Try
<1>5. CASE Forget
  BY <1>5 DEF Forget
<1> QED BY <1>1, <1>2, <1>3, <1>4, <1>5

LEMMA FanControl ==
  ASSUME SetFan \/ AutoFan \/ RampUp \/ RampWait \/ RampDown
  PROVE  /\ at \in FanSites
         /\ \/ at' = "off" /\ n' = 1 /\ arg' = 0
            \/ /\ ToFans(n, arg) \/ (n < Len(Fans) /\ ToFans(n + 1, arg))
               /\ at' \in {"ramp", "ramp_wait"} => at = "ramp"
            \/ ToFans(1, arg) /\ at' = "ramp_off"
            \/ ToFans(1, arg + 1) /\ at = "ramp_wait" /\ arg < Len(Ramp)
<1> USE DEF ToFans, Goto, End, RampOff, FanSites, RampSites
<1>1. CASE SetFan \/ AutoFan
  BY <1>1 DEF SetFan, AutoFan, Try, Each
<1>2. CASE RampUp
  BY <1>2 DEF RampUp, Try, Each
<1>3. CASE RampWait
  BY <1>3 DEF RampWait
<1>4. CASE RampDown
  BY <1>4 DEF RampDown, Try, Each
<1> QED BY <1>1, <1>2, <1>3, <1>4

LEMMA InterruptControl ==
  ASSUME Interrupt \/ Die
  PROVE  \/ at' = "off" /\ n' = 1 /\ arg' = 0
         \/ at \in ChannelSites /\ ToChannels(n, arg)
         \/ ToFans(1, arg) /\ at' = "ramp_off"
BY DEF Interrupt, Die, Trapped, InTheTry, ToChannels, ToFans, Goto, End, RampOff,
       ChannelSites, FanSites, FindSites, RampSites

LEMMA ControlTyped ==
  ASSUME ToolsConfig, TypeOK, [Next]_tvars
  PROVE  /\ at' \in Sites \cup {"off"}
         /\ n' \in Nat /\ arg' \in 0..255
         /\ at' \in ChannelSites => n' \in DOMAIN Channels
         /\ at' \in FanSites => n' \in DOMAIN Fans
         /\ at' \in {"ramp", "ramp_wait"} => arg' \in DOMAIN Ramp
<1> USE Lengths, SitesApart
<1>1. /\ arg \in 0..255 /\ n \in Nat
      /\ at \in ChannelSites => n \in DOMAIN Channels
      /\ at \in FanSites => n \in DOMAIN Fans
      /\ at \in {"ramp", "ramp_wait"} => arg \in DOMAIN Ramp
  BY DEF TypeOK
<1>2. CASE Command
  BY <1>2, CommandControl DEF ToChannels, ToFans
<1>3. CASE at' = "off" /\ n' = 1 /\ arg' = 0
  BY <1>3
<1>4. CASE at \in ChannelSites /\ (ToChannels(n, arg) \/ (n < Len(Channels) /\ ToChannels(n + 1, arg)))
  <2>1. /\ at' \in ChannelSites /\ at' \notin FanSites /\ at' \in Sites
        /\ n' \in DOMAIN Channels /\ arg' = arg
    BY <1>1, <1>4 DEF ToChannels
  <2>2. at' # "ramp" /\ at' # "ramp_wait"
    BY <2>1
  <2> QED BY <1>1, <2>1, <2>2
<1>5. CASE at \in FanSites /\ \E i \in DOMAIN Fans, a \in 0..255 :
             ToFans(i, a) /\ (at' \in {"ramp", "ramp_wait"} => a \in DOMAIN Ramp)
  <2>1. /\ at' \in FanSites /\ at' \notin ChannelSites /\ at' \in Sites
        /\ n' \in DOMAIN Fans /\ arg' \in 0..255
        /\ at' \in {"ramp", "ramp_wait"} => arg' \in DOMAIN Ramp
    BY <1>5 DEF ToFans
  <2> QED BY <2>1
<1>6. CASE Set \/ Reload \/ All \/ Remember \/ Loud \/ PutBack \/ Forget \/ CleanUp
  BY <1>3, <1>4, <1>6, ChannelControl
<1>7. CASE SetFan \/ AutoFan \/ RampUp \/ RampWait \/ RampDown
  <2>1. at \in FanSites /\ n \in DOMAIN Fans
    BY <1>1, <1>7, FanControl
  <2>2. CASE ToFans(n, arg) /\ (at' \in {"ramp", "ramp_wait"} => at = "ramp")
    BY <1>1, <1>5, <2>1, <2>2
  <2>3. CASE n < Len(Fans) /\ ToFans(n + 1, arg) /\ (at' \in {"ramp", "ramp_wait"} => at = "ramp")
    <3>1. n + 1 \in DOMAIN Fans
      BY <2>1, <2>3
    <3> QED BY <1>1, <1>5, <2>1, <2>3, <3>1
  <2>4. CASE ToFans(1, arg) /\ at' = "ramp_off"
    BY <1>1, <1>5, <2>1, <2>4
  <2>5. CASE ToFans(1, arg + 1) /\ at = "ramp_wait" /\ arg < Len(Ramp)
    <3>1. arg + 1 \in 0..255
      <4>1. ASSUME NEW a \in 0..255, NEW l \in 1..255, a < l
            PROVE  a + 1 \in 0..255
        BY <4>1
      <4> QED BY <1>1, <2>5, <4>1
    <3>2. arg + 1 \in DOMAIN Ramp
      BY <1>1, <2>5
    <3> QED BY <1>5, <2>1, <2>5, <3>1, <3>2
  <2> QED BY <1>3, <1>7, <2>2, <2>3, <2>4, <2>5, FanControl
<1>8. CASE Interrupt \/ Die
  <2>1. CASE ToFans(1, arg) /\ at' = "ramp_off"
    BY <1>1, <2>1 DEF ToFans
  <2> QED BY <1>3, <1>4, <1>8, <2>1, InterruptControl
<1>9. CASE Other \/ UNCHANGED tvars
  <2>1. UNCHANGED <<at, n, arg>>
    BY <1>9 DEF Other, tvars, toolVars
  <2> QED BY <1>1, <2>1 DEF TypeOK
<1> QED BY <1>2, <1>6, <1>7, <1>8, <1>9 DEF Next, Tool

\* What find has saved can be written back.
LEMMA SavedTyped ==
  ASSUME ToolsConfig, TypeOK, [Next]_tvars
  PROVE  /\ saved' \in [mode : Modes \cup {"unset"}, level : 0..255]
         /\ at' \in FindSites \ {"save_mode"} => saved'.mode \in Modes
<1> USE DEF TypeOK, Goto, End, Save, RampOff, Unset, FindSites
<1>1. at \in FindSites => hw[Channel] \in Registers
  BY ChannelIsDevice DEF Channel, ChannelSites
<1>2. CASE Remember
  <2>1. [mode |-> hw[Channel].mode, level |-> 0] \in [mode : Modes, level : 0..255]
        \/ at # "save_mode"
    BY <1>1 DEF Registers
  <2>2. [saved EXCEPT !.level = hw[Channel].level] \in [mode : Modes, level : 0..255]
        \/ at # "save_level"
    BY <1>1 DEF Registers
  <2>3. CASE at = "save_mode"
    BY <1>2, <2>1, <2>3 DEF Remember, Try
  <2>4. CASE at = "save_level"
    BY <1>2, <2>2, <2>4 DEF Remember, Try
  <2> QED BY <1>2, <2>3, <2>4 DEF Remember, Try
<1>3. CASE Loud \/ PutBack \/ Forget \/ CleanUp
  BY <1>3 DEF Loud, PutBack, Forget, CleanUp, Try
<1>4. CASE Command \/ Set \/ Reload \/ All
  BY <1>4 DEF Command, SetLevel, Quiet, QuietAll, Panic, Find, SetFans, AutoFans,
     RampFans, Begin, Set, Reload, All, Try, Each
<1>5. CASE SetFan \/ AutoFan \/ RampUp \/ RampWait \/ RampDown
  BY <1>5 DEF SetFan, AutoFan, RampUp, RampWait, RampDown, Try, Each
<1>6. CASE Interrupt \/ Die \/ Other \/ UNCHANGED tvars
  BY <1>6 DEF Interrupt, Trapped, InTheTry, Die, Other, tvars, toolVars
<1> QED BY <1>2, <1>3, <1>4, <1>5, <1>6 DEF Next, Tool

LEMMA TypeInit == ASSUME ToolsConfig, Init PROVE TypeOK
BY Lengths DEF Init, TypeOK, Unset, ChannelSites, FanSites, Sites, FindSites,
   RampSites

LEMMA TypeStep == ASSUME ToolsConfig, TypeOK, [Next]_tvars PROVE TypeOK'
BY HwTyped, ControlTyped, SavedTyped DEF TypeOK

\* Whatever fails and whoever interrupts, the loops stay within their lists
\* and only a mode that was read is written back.
THEOREM TypeCorrect == ASSUME ToolsConfig PROVE Spec => []TypeOK
  BY TypeInit, TypeStep, PTL DEF Spec
--------------------------------------------------------------------------------
(* find puts everything back *)

LEMMA KeptIsDevice == ASSUME ToolsConfig PROVE Kept \subseteq ToolDevices
BY DEF Kept, ToolDevices

\* A write to one channel leaves the others alone.
LEMMA ModeOnly ==
  ASSUME hw \in [ToolDevices -> Registers], NEW c \in ToolDevices, NEW m, Mode(c, m)
  PROVE  /\ \A d \in ToolDevices : d # c => hw'[d] = hw[d]
         /\ hw'[c].mode = m /\ hw'[c].level = hw[c].level
BY DEF Mode, Registers

LEMMA LevelOnly ==
  ASSUME hw \in [ToolDevices -> Registers], NEW c \in ToolDevices, NEW l, Level(c, l)
  PROVE  /\ \A d \in ToolDevices : d # c => hw'[d] = hw[d]
         /\ hw'[c].mode = hw[c].mode /\ hw'[c].level = l
BY DEF Level, Registers

LEMMA SameRegisters ==
  ASSUME NEW r \in Registers, NEW q \in Registers, r.mode = q.mode, r.level = q.level
  PROVE  r = q
BY DEF Registers

LEMMA FindInvStep ==
  ASSUME ToolsConfig, Undisturbed, TypeOK, FindInv, [Next]_tvars
  PROVE  FindInv' /\ (at' = "off" /\ at \in FindSites => \A d \in Kept : hw'[d] = met[d])
<1> USE KeptIsDevice
<1>1. hw \in [ToolDevices -> Registers] /\ hw' \in [ToolDevices -> Registers]
  BY HwTyped DEF TypeOK
<1>2. at \in FindSites => Channel \in ToolDevices
  BY ChannelIsDevice, SitesApart DEF TypeOK, Channel
<1>3. CASE Remember
  <2>1. CASE at = "save_mode"
    BY <1>1, <1>2, <1>3, <2>1 DEF Remember, Try, Save, End, FindInv, FindSites,
       ChannelTracked, Channel
  <2>2. CASE at = "save_level"
    <3>1. Channel \in Kept => saved.mode = hw[Channel].mode /\ hw[Channel] = met[Channel]
      BY <2>2 DEF FindInv, FindSites, ChannelTracked
    <3>2. CASE Save([saved EXCEPT !.level = hw[Channel].level], "switch")
      <4>1. Channel \in Kept => saved' = met[Channel]
        BY <1>1, <1>2, <2>2, <3>1, <3>2 DEF Save, TypeOK, Registers, FindSites
      <4> QED BY <1>3, <2>2, <3>2, <4>1 DEF Remember, Try, Save, FindInv, FindSites,
                 ChannelTracked, Channel
    <3>3. CASE Goto("clean_mode")
      BY <1>3, <2>2, <3>1, <3>3 DEF Remember, Try, Goto, FindInv, FindSites,
         ChannelTracked, Channel
    <3> QED BY <1>3, <2>2, <3>2, <3>3 DEF Remember, Try
  <2> QED BY <1>3, <2>1, <2>2 DEF Remember, Try
<1>4. CASE Loud
  <2>1. \A d \in Kept : d # Channel => hw'[d] = hw[d]
    BY <1>1, <1>2, <1>4, ModeOnly, LevelOnly DEF Loud, Try, FindSites
  <2>2. at \in {"switch", "drive", "listen"}
        /\ at' \in {"drive", "listen", "back_level", "clean_level"}
        /\ UNCHANGED <<n, saved, met>>
    BY <1>4 DEF Loud, Try, Goto
  <2> QED BY <2>1, <2>2 DEF FindInv, FindSites, ChannelTracked, Channel
<1>5. CASE PutBack
  <2>1. CASE at = "back_level"
    BY <1>1, <1>2, <1>5, <2>1, LevelOnly DEF PutBack, Try, Goto, FindInv, FindSites,
       ChannelTracked, Channel
  <2>2. CASE at = "back_mode"
    BY <1>1, <1>2, <1>5, <2>2, ModeOnly, SameRegisters DEF PutBack, Try, Goto, FindInv,
       FindSites, ChannelTracked, Channel
  <2> QED BY <1>5, <2>1, <2>2 DEF PutBack, Try
<1>6. CASE Forget
  BY <1>6 DEF Forget, End, FindInv, FindSites, ChannelTracked, Channel
<1>7. CASE CleanUp
  <2>1. CASE at = "clean_level"
    BY <1>1, <1>2, <1>7, <2>1, LevelOnly DEF CleanUp, Try, Goto, FindInv, FindSites,
       ChannelTracked, Channel, Undisturbed
  <2>2. CASE at = "clean_mode"
    BY <1>1, <1>2, <1>7, <2>2, ModeOnly, SameRegisters DEF CleanUp, Try, End, FindInv,
       FindSites, ChannelTracked, Channel, Undisturbed
  <2> QED BY <1>7, <2>1, <2>2 DEF CleanUp, Try
<1>8. CASE Interrupt \/ Die
  <2>1. at \in FindSites => Interrupt
    BY <1>8 DEF Die, Undisturbed
  <2>2. CASE at \in {"save_mode", "save_level"}
    BY <2>1, <2>2 DEF Interrupt, Trapped, InTheTry, End, FindInv, FindSites,
       ChannelTracked
  <2>3. CASE at \in FindSites \ {"save_mode", "save_level"}
    BY <2>1, <2>3 DEF Interrupt, Undisturbed, Trapped, Goto, FindInv, FindSites,
       ChannelTracked, Channel
  <2>4. CASE at \notin FindSites
    BY <1>8, <2>4 DEF Interrupt, Trapped, InTheTry, Die, End, RampOff, FindInv,
       FindSites
  <2> QED BY <2>2, <2>3, <2>4
<1>9. CASE Command
  <2>1. \/ at' \notin FindSites
        \/ at' = "save_mode" /\ met' = [d \in Kept |-> hw[d]] /\ UNCHANGED hw
    BY <1>9 DEF Command, SetLevel, Quiet, QuietAll, Panic, Find, SetFans, AutoFans,
       RampFans, Begin, FindSites
  <2>2. at = "off"
    BY <1>9 DEF Command, SetLevel, Quiet, QuietAll, Panic, Find, SetFans, AutoFans,
       RampFans, Begin
  <2> QED BY <1>1, <2>1, <2>2 DEF FindInv, ChannelTracked, FindSites
<1>10. CASE Set \/ Reload \/ All \/ SetFan \/ AutoFan \/ RampUp \/ RampWait \/ RampDown
  <2>1. at \notin FindSites /\ at' \notin FindSites
    BY <1>10 DEF Set, Reload, All, SetFan, AutoFan, RampUp, RampWait, RampDown, Try, Each,
       Goto, End, RampOff, FindSites
  <2> QED BY <2>1 DEF FindInv
<1>11. CASE Other
  <2>1. \A d \in Kept : hw'[d] = hw[d]
    BY <1>1, <1>11 DEF Other, Kept
  <2>2. UNCHANGED <<at, n, saved, met>>
    BY <1>11 DEF Other, toolVars
  <2> QED BY <2>1, <2>2 DEF FindInv, ChannelTracked, Channel, FindSites
<1>12. CASE UNCHANGED tvars
  BY <1>12 DEF tvars, toolVars, FindInv, ChannelTracked, Channel, FindSites
<1> QED BY <1>3, <1>4, <1>5, <1>6, <1>7, <1>8, <1>9, <1>10, <1>11, <1>12 DEF Next, Tool

\* However many channels there are and wherever find fails, is interrupted or
\* shares the chip with another program: it puts back what it touched, unless
\* its own clean-up is disturbed.
THEOREM FindRestored ==
  ASSUME ToolsConfig, Undisturbed
  PROVE  Spec => FindRestores
<1>1. Init => FindInv
  BY DEF Init, FindInv, FindSites
<1>2. TypeOK /\ FindInv /\ [Next]_tvars => FindInv'
  BY FindInvStep
<1>3. TypeOK /\ FindInv /\ [Next]_tvars =>
        [at' = "off" /\ at \in FindSites => \A d \in Kept : hw'[d] = met[d]]_tvars
  BY FindInvStep
<1> QED BY <1>1, <1>2, <1>3, TypeCorrect, PTL DEF Spec, FindRestores
--------------------------------------------------------------------------------
(* ramp leaves no fan in manual mode *)

FreeFans == Range(Fans) \ Others

LEMMA RampInvStep ==
  ASSUME ToolsConfig, Undisturbed, TypeOK, RampInv, [Next]_tvars
  PROVE  /\ RampInv'
         /\ at' = "off" /\ at \in RampSites => \A d \in FreeFans : hw'[d].mode = "auto"
<1>1. hw \in [ToolDevices -> Registers]
  BY DEF TypeOK
<1>2. at \in RampSites => n \in 1..Len(Fans) /\ Len(Fans) \in Nat /\ Fan \in ToolDevices
  BY FanIsDevice, Lengths, SitesApart DEF TypeOK, Fan
<1>3. CASE RampDown
  <2>1. at = "ramp_off" /\ Mode(Fan, "auto") /\ (Each(Fans, "ramp_off", End))
    BY <1>3 DEF RampDown, Try, Undisturbed
  <2>2. /\ \A d \in ToolDevices : hw'[d].mode = "auto" \/ hw'[d] = hw[d]
        /\ hw'[Fan].mode = "auto"
    BY <1>1, <1>2, <2>1, ModeOnly DEF RampSites
  <2>3. \A i \in 1..n : Fans[i] \in Others \/ hw'[Fans[i]].mode = "auto"
    <3>1. ASSUME NEW i \in 1..n, Fans[i] \notin Others
          PROVE  hw'[Fans[i]].mode = "auto"
      <4>1. Fans[i] \in ToolDevices /\ n \in Nat
        BY <1>2, <2>1, FanIsDevice, Lengths DEF RampSites
      <4>2. CASE i = n
        BY <2>2, <4>2 DEF Fan
      <4>3. CASE i # n
        BY <2>1, <2>2, <3>1, <4>1, <4>3 DEF RampInv
      <4> QED BY <4>2, <4>3
    <3> QED BY <3>1
  <2>4. CASE n < Len(Fans) /\ n' = n + 1 /\ at' = "ramp_off"
    <3>1. n' - 1 = n
      BY <1>2, <2>1, <2>4 DEF RampSites
    <3> QED BY <2>3, <2>4, <3>1 DEF RampInv
  <2>5. CASE n = Len(Fans) /\ End
    <3>1. \A d \in FreeFans : \E i \in 1..n : d = Fans[i] /\ Fans[i] \notin Others
      BY <2>5, Lengths DEF FreeFans, Range
    <3> QED BY <2>3, <2>5, <3>1 DEF RampInv, End
  <2> QED BY <2>1, <2>4, <2>5 DEF Each
<1>4. CASE SetFan \/ AutoFan \/ RampUp \/ RampWait
  <2>1. /\ at' # "ramp_off" \/ n' = 1
        /\ at' = "off" => at \notin RampSites
    BY <1>4 DEF SetFan, AutoFan, RampUp, RampWait, Try, Each, End, Goto, RampOff, RampSites
  <2> QED BY <2>1 DEF RampInv
<1>5. CASE Set \/ Reload \/ All \/ Remember \/ Loud \/ PutBack \/ Forget \/ CleanUp
  <2>1. /\ at \in ChannelSites
        /\ at' = "off" \/ at' \in ChannelSites
    BY <1>5, ChannelControl DEF ToChannels
  <2>2. at \notin RampSites /\ at' # "ramp_off"
    BY <2>1 DEF ChannelSites, FindSites, RampSites
  <2> QED BY <2>2 DEF RampInv
<1>6. CASE Command
  BY <1>6 DEF Command, SetLevel, Quiet, QuietAll, Panic, Find, SetFans, AutoFans,
     RampFans, Begin, RampInv, RampSites
<1>7. CASE Interrupt \/ Die
  <2>1. at \in RampSites => at' = "ramp_off" /\ n' = 1
    BY <1>7 DEF Interrupt, InTheTry, Trapped, Die, Undisturbed, RampOff, RampSites
  <2>2. at' = "ramp_off" => n' = 1
    BY <1>7 DEF Interrupt, InTheTry, Trapped, Die, RampOff, Goto, End
  <2> QED BY <2>1, <2>2 DEF RampInv
<1>8. CASE Other
  <2>1. UNCHANGED <<at, n>> /\ \A d \in ToolDevices \ Others : hw'[d] = hw[d]
    BY <1>1, <1>8 DEF Other, toolVars
  <2>2. at = "ramp_off" => \A i \in 1..(n - 1) : Fans[i] \in ToolDevices
    BY <1>2, FanIsDevice, Lengths DEF RampSites
  <2>3. at' = "off" => at \notin RampSites
    BY <2>1 DEF RampSites
  <2> QED BY <2>1, <2>2, <2>3 DEF RampInv
<1>9. CASE UNCHANGED tvars
  BY <1>9 DEF tvars, toolVars, RampInv, RampSites
<1> QED BY <1>3, <1>4, <1>5, <1>6, <1>7, <1>8, <1>9 DEF Next, Tool

\* However many fans there are and wherever the ramp fails or is stopped with
\* Ctrl+C, its finally clause reaches every fan.
THEOREM RampRestored ==
  ASSUME ToolsConfig, Undisturbed
  PROVE  Spec => RampRestores
<1>1. Init => RampInv
  BY DEF Init, RampInv
<1>2. TypeOK /\ RampInv /\ [Next]_tvars => RampInv'
  BY RampInvStep
<1>3. TypeOK /\ RampInv /\ [Next]_tvars =>
        [at' = "off" /\ at \in RampSites =>
           \A d \in Range(Fans) \ Others : hw'[d].mode = "auto"]_tvars
  BY RampInvStep DEF FreeFans
<1> QED BY <1>1, <1>2, <1>3, TypeCorrect, PTL DEF Spec, RampRestores
================================================================================
