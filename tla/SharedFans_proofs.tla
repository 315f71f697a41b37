---------------------------- MODULE SharedFans_proofs ----------------------------
(***************************************************************************)
(* The daemon is one of the other programs FanTools allows for: beside it  *)
(* the tools keep every promise they make when they are alone.             *)
(***************************************************************************)
EXTENDS SharedFans, FanGovernor_proofs

\* The theorems about FanTools, of the tools of this module.
Alone == INSTANCE FanTools_proofs WITH
           Others <- Governed, MayFail <- ToolMayFail,
           MayInterrupt <- ToolMayInterrupt, MayDie <- ToolMayDie

\* The daemon writes no device but those of its groups.
LEMMA DaemonWrites ==
  ASSUME TypeOK, Next
  PROVE  UNCHANGED hw \/ \E d \in Governed : \E r : hw' = [hw EXCEPT ![d] = r]
<1>1. Device \in Governed
  <2>1. gi \in Groups /\ ki \in 1..Len(Targets[gi]) /\ Targets[gi] \in Seq(Devices)
    BY ConfigValid DEF TypeOK, Groups, Validated
  <2>2. Device \in Range(Targets[gi])
    BY <2>1 DEF Device, Range
  <2> QED BY <2>1, <2>2 DEF Governed
<1>2. CASE ClaimWrite \/ Apply \/ RestoreFan \/ RestorePwm \/ RestoreMode
  <2>1. \/ UNCHANGED hw
        \/ \E m : hw' = [hw EXCEPT ![Device].mode = m]
        \/ \E l : hw' = [hw EXCEPT ![Device].level = l]
        \/ \E r : hw' = [hw EXCEPT ![Device] = r]
    BY <1>2 DEF ClaimWrite, Apply, RestoreFan, RestorePwm, RestoreMode
  <2> QED BY <1>1, <2>1
<1>3. CASE Launch \/ Crash \/ Signal \/ Elapse \/ Operator
  BY <1>3, SharedConfig DEF Launch, Crash, Signal, Elapse, Operator
<1>4. CASE NvmlInit \/ Resolve \/ ClaimRead
  BY <1>4 DEF NvmlInit, Resolve, ClaimRead
<1>5. CASE Loop \/ SkipGroup \/ DecideGroup \/ SleepChunk \/ Wake \/ Exit
  BY <1>5 DEF Loop, SkipGroup, DecideGroup, SleepChunk, Wake, Exit
<1> QED
  BY <1>2, <1>3, <1>4, <1>5 DEF Next, Daemon, Startup, Tick

LEMMA SameNames ==
  /\ Tools!Kept = Alone!Kept
  /\ Tools!FindSites = Alone!FindSites /\ Tools!RampSites = Alone!RampSites
  /\ \A f : Tools!Range(f) = Range(f) /\ Alone!Range(f) = Range(f)
<1>1. \A f : Tools!Range(f) = Range(f) /\ Alone!Range(f) = Range(f)
  BY DEF Tools!Range, Alone!Range, Range
<1>2. Tools!Kept = Alone!Kept
  BY <1>1 DEF Tools!Kept, Alone!Kept
<1>3. Tools!FindSites = Alone!FindSites
  BY DEF Tools!FindSites, Alone!FindSites
<1>4. Tools!RampSites = Alone!RampSites
  BY DEF Tools!RampSites, Alone!RampSites
<1> QED BY <1>1, <1>2, <1>3, <1>4

\* Tools and Alone are two instances of the same definitions.
LEMMA SameTool == Tools!Tool <=> Alone!Tool
<1>1. Tools!SetLevel <=> Alone!SetLevel
  BY DEF Tools!SetLevel, Alone!SetLevel, Tools!Begin, Alone!Begin, Tools!Kept,
     Alone!Kept, Tools!FindSites, Alone!FindSites
<1>2. Tools!Quiet <=> Alone!Quiet
  BY DEF Tools!Quiet, Alone!Quiet, Tools!Begin, Alone!Begin, Tools!Kept,
     Alone!Kept, Tools!FindSites, Alone!FindSites
<1>3. Tools!QuietAll <=> Alone!QuietAll
  BY DEF Tools!QuietAll, Alone!QuietAll, Tools!Begin, Alone!Begin, Tools!Kept,
     Alone!Kept, Tools!FindSites, Alone!FindSites
<1>4. Tools!Panic <=> Alone!Panic
  BY DEF Tools!Panic, Alone!Panic, Tools!Begin, Alone!Begin, Tools!Kept,
     Alone!Kept, Tools!FindSites, Alone!FindSites
<1>5. Tools!Find <=> Alone!Find
  <2>1. Tools!Kept = Alone!Kept /\ Tools!FindSites = Alone!FindSites
    BY SameNames
  <2> QED BY <2>1 DEF Tools!Find, Alone!Find, Tools!Begin, Alone!Begin
<1>6. Tools!SetFans <=> Alone!SetFans
  BY DEF Tools!SetFans, Alone!SetFans, Tools!Begin, Alone!Begin, Tools!Kept,
     Alone!Kept, Tools!FindSites, Alone!FindSites
<1>7. Tools!AutoFans <=> Alone!AutoFans
  BY DEF Tools!AutoFans, Alone!AutoFans, Tools!Begin, Alone!Begin, Tools!Kept,
     Alone!Kept, Tools!FindSites, Alone!FindSites
<1>8. Tools!RampFans <=> Alone!RampFans
  BY DEF Tools!RampFans, Alone!RampFans, Tools!Begin, Alone!Begin, Tools!Kept,
     Alone!Kept, Tools!FindSites, Alone!FindSites
<1>9. Tools!Set <=> Alone!Set
  BY DEF Tools!Set, Alone!Set, Tools!Try, Alone!Try, Tools!Channel,
     Alone!Channel, Tools!Mode, Alone!Mode, Tools!Level, Alone!Level,
     Tools!Goto, Alone!Goto, Tools!End, Alone!End, Tools!Unset, Alone!Unset
<1>10. Tools!Reload <=> Alone!Reload
  BY DEF Tools!Reload, Alone!Reload, Tools!Try, Alone!Try, Tools!Goto,
     Alone!Goto, Tools!End, Alone!End, Tools!Unset, Alone!Unset
<1>11. Tools!All <=> Alone!All
  BY DEF Tools!All, Alone!All, Tools!Try, Alone!Try, Tools!Channel,
     Alone!Channel, Tools!Mode, Alone!Mode, Tools!Level, Alone!Level,
     Tools!Each, Alone!Each, Tools!Goto, Alone!Goto, Tools!End, Alone!End,
     Tools!Unset, Alone!Unset
<1>12. Tools!Remember <=> Alone!Remember
  BY DEF Tools!Remember, Alone!Remember, Tools!Try, Alone!Try, Tools!Channel,
     Alone!Channel, Tools!Save, Alone!Save, Tools!Goto, Alone!Goto, Tools!End,
     Alone!End, Tools!Unset, Alone!Unset
<1>13. Tools!Loud <=> Alone!Loud
  BY DEF Tools!Loud, Alone!Loud, Tools!Try, Alone!Try, Tools!Channel,
     Alone!Channel, Tools!Mode, Alone!Mode, Tools!Level, Alone!Level,
     Tools!Goto, Alone!Goto
<1>14. Tools!PutBack <=> Alone!PutBack
  BY DEF Tools!PutBack, Alone!PutBack, Tools!Try, Alone!Try, Tools!Channel,
     Alone!Channel, Tools!Mode, Alone!Mode, Tools!Level, Alone!Level,
     Tools!Goto, Alone!Goto
<1>15. Tools!Forget <=> Alone!Forget
  BY DEF Tools!Forget, Alone!Forget, Tools!End, Alone!End, Tools!Unset,
     Alone!Unset
<1>16. Tools!CleanUp <=> Alone!CleanUp
  BY DEF Tools!CleanUp, Alone!CleanUp, Tools!Try, Alone!Try, Tools!Channel,
     Alone!Channel, Tools!Mode, Alone!Mode, Tools!Level, Alone!Level,
     Tools!Goto, Alone!Goto, Tools!End, Alone!End, Tools!Unset, Alone!Unset
<1>17. Tools!SetFan <=> Alone!SetFan
  BY DEF Tools!SetFan, Alone!SetFan, Tools!Try, Alone!Try, Tools!Fan,
     Alone!Fan, Tools!Speed, Alone!Speed, Tools!Each, Alone!Each, Tools!End,
     Alone!End, Tools!Unset, Alone!Unset
<1>18. Tools!AutoFan <=> Alone!AutoFan
  BY DEF Tools!AutoFan, Alone!AutoFan, Tools!Try, Alone!Try, Tools!Fan,
     Alone!Fan, Tools!Mode, Alone!Mode, Tools!Each, Alone!Each, Tools!End,
     Alone!End, Tools!Unset, Alone!Unset
<1>19. Tools!RampUp <=> Alone!RampUp
  BY DEF Tools!RampUp, Alone!RampUp, Tools!Try, Alone!Try, Tools!Fan,
     Alone!Fan, Tools!Speed, Alone!Speed, Tools!Each, Alone!Each, Tools!Goto,
     Alone!Goto, Tools!RampOff, Alone!RampOff
<1>20. Tools!RampWait <=> Alone!RampWait
  BY DEF Tools!RampWait, Alone!RampWait, Tools!RampOff, Alone!RampOff
<1>21. Tools!RampDown <=> Alone!RampDown
  BY DEF Tools!RampDown, Alone!RampDown, Tools!Try, Alone!Try, Tools!Fan,
     Alone!Fan, Tools!Mode, Alone!Mode, Tools!Each, Alone!Each, Tools!End,
     Alone!End, Tools!Unset, Alone!Unset
<1>22. Tools!Interrupt <=> Alone!Interrupt
  BY DEF Tools!Interrupt, Alone!Interrupt, Tools!Trapped, Alone!Trapped,
     Tools!InTheTry, Alone!InTheTry,
     Tools!Goto, Alone!Goto, Tools!RampOff, Alone!RampOff, Tools!End,
     Alone!End, Tools!Unset, Alone!Unset
<1>23. Tools!Die <=> Alone!Die
  BY DEF Tools!Die, Alone!Die, Tools!End, Alone!End, Tools!Unset, Alone!Unset
<1> QED
  BY <1>1, <1>2, <1>3, <1>4, <1>5, <1>6, <1>7, <1>8, <1>9, <1>10, <1>11,
     <1>12, <1>13, <1>14, <1>15, <1>16, <1>17, <1>18, <1>19, <1>20, <1>21,
     <1>22, <1>23 DEF Tools!Tool, Alone!Tool, Tools!Command, Alone!Command

LEMMA SameTypes ==
  /\ Alone!ToolsConfig
  /\ Tools!Init <=> Alone!Init
  /\ Devices = Alone!ToolDevices /\ [mode : Modes, level : 0..255] = Alone!Registers
<1>1. Tools!ToolDevices = Alone!ToolDevices /\ Tools!Registers = Alone!Registers
  BY SameNames DEF Tools!ToolDevices, Alone!ToolDevices, Tools!Registers, Alone!Registers
<1>2. Alone!ToolsConfig
  BY SharedConfig, SameNames, <1>1 DEF Tools!ToolsConfig, Alone!ToolsConfig
<1>3. Tools!Init <=> Alone!Init
  BY <1>1 DEF Tools!Init, Alone!Init, Tools!Unset, Alone!Unset
<1> QED BY <1>1, <1>2, <1>3, SharedConfig DEF Alone!Registers

\* A step of the tools keeps the daemon's type invariant.
LEMMA ToolTyped ==
  ASSUME TypeOK, Alone!TypeOK, ToolStep
  PROVE  TypeOK' /\ Alone!Next
<1>1. Alone!Next
  BY SameTool DEF ToolStep, Alone!Next
<1>2. hw' \in [Alone!ToolDevices -> Alone!Registers]
  BY <1>1, SameTypes, Alone!HwTyped
<1>3. UNCHANGED <<proc, firmware>>
  BY DEF ToolStep
<1> QED
  BY <1>1, <1>2, <1>3, SameTypes DEF TypeOK, proc, procVars, groupVars

\* A step of the daemon is one of another program.
LEMMA DaemonIsOther ==
  ASSUME TypeOK, DaemonStep
  PROVE  TypeOK' /\ [Alone!Next]_Alone!tvars
<1>1. TypeOK' /\ UNCHANGED toolVars
  BY TypeStep DEF DaemonStep
<1>2. CASE UNCHANGED hw
  BY <1>1, <1>2 DEF toolVars, Alone!tvars, Alone!toolVars
<1>3. ASSUME NEW d \in Governed, NEW r, hw' = [hw EXCEPT ![d] = r]
      PROVE  Alone!Other
  <2>1. d \in Devices
    BY SharedConfig, SameTypes DEF Alone!ToolsConfig
  <2>2. r \in Alone!Registers
    BY <1>1, <1>3, <2>1, SameTypes, ZenonT(30) DEF TypeOK
  <2> QED BY <1>1, <1>3, <2>2 DEF Alone!Other, toolVars, Alone!toolVars
<1> QED
  BY <1>1, <1>2, <1>3, DaemonWrites DEF DaemonStep, Alone!Next

\* The tools beside the daemon are the tools among other programs.
LEMMA Refines == SharedSpec => Alone!Spec
<1>1. SharedInit => TypeOK /\ Alone!TypeOK /\ Alone!Init
  BY TypeInit, SameTypes, Alone!TypeInit DEF SharedInit
<1>2. TypeOK /\ Alone!TypeOK /\ [SharedNext]_sharedVars =>
        TypeOK' /\ [Alone!Next]_Alone!tvars
  <2>1. CASE UNCHANGED sharedVars
    BY <2>1 DEF sharedVars, toolVars, vars, proc, procVars, groupVars, TypeOK,
       Alone!tvars, Alone!toolVars
  <2> QED BY <2>1, ToolTyped, DaemonIsOther DEF SharedNext
<1>3. Alone!TypeOK /\ [Alone!Next]_Alone!tvars => Alone!TypeOK'
  BY SameTypes, Alone!TypeStep
<1> QED BY <1>1, <1>2, <1>3, PTL DEF SharedSpec, Alone!Spec

\* The tools stay in type although another program writes the registers they
\* read, remember and restore, and so does the daemon.
THEOREM BothTyped == SharedSpec => []ToolsTypeOK /\ []TypeOK
<1>1. Alone!TypeOK => ToolsTypeOK
  <2>1. Tools!ToolDevices = Alone!ToolDevices /\ Tools!Registers = Alone!Registers
    BY SameNames DEF Tools!ToolDevices, Alone!ToolDevices, Tools!Registers, Alone!Registers
  <2>2. /\ Tools!ChannelSites = Alone!ChannelSites /\ Tools!FanSites = Alone!FanSites
        /\ Tools!Sites = Alone!Sites
    BY SameNames DEF Tools!ChannelSites, Alone!ChannelSites, Tools!FanSites,
       Alone!FanSites, Tools!Sites, Alone!Sites
  <2> QED BY SameNames, <2>1, <2>2 DEF ToolsTypeOK, Tools!TypeOK, Alone!TypeOK
<1>2. SharedInit => TypeOK
  BY TypeInit DEF SharedInit
<1>3. TypeOK /\ Alone!TypeOK /\ [SharedNext]_sharedVars => TypeOK'
  <2>1. CASE UNCHANGED sharedVars
    BY <2>1 DEF sharedVars, vars, proc, procVars, groupVars, TypeOK
  <2> QED BY <2>1, ToolTyped, DaemonIsOther DEF SharedNext
<1>4. SharedSpec => []Alone!TypeOK
  BY Refines, SameTypes, Alone!TypeCorrect, PTL
<1> QED BY <1>1, <1>2, <1>3, <1>4, PTL DEF SharedSpec

\* Whatever the daemon does meanwhile, find puts back every channel that the
\* daemon does not govern, to the mode and the level it was found in.
THEOREM FindBesideDaemon ==
  ASSUME Alone!Undisturbed
  PROVE  SharedSpec => FindRestores
<1> USE SameNames DEF Tools!tvars, Tools!toolVars, Alone!tvars, Alone!toolVars
<1>1. [at' = "off" /\ at \in Alone!FindSites =>
         \A d \in Alone!Kept : hw'[d] = met[d]]_Alone!tvars
      => [at' = "off" /\ at \in Tools!FindSites =>
            \A d \in Tools!Kept : hw'[d] = met[d]]_Tools!tvars
  OBVIOUS
<1>2. Alone!FindRestores => FindRestores
  BY <1>1, PTL DEF FindRestores, Tools!FindRestores, Alone!FindRestores
<1> QED BY Refines, SameTypes, <1>2, Alone!FindRestored, PTL

\* Whatever the daemon does meanwhile, the ramp frees every fan it does not
\* govern.
THEOREM RampBesideDaemon ==
  ASSUME Alone!Undisturbed
  PROVE  SharedSpec => RampRestores
<1> USE SameNames DEF Tools!tvars, Tools!toolVars, Alone!tvars, Alone!toolVars
<1>1. [at' = "off" /\ at \in Alone!RampSites =>
         \A d \in Alone!Range(Fans) \ Governed : hw'[d].mode = "auto"]_Alone!tvars
      => [at' = "off" /\ at \in Tools!RampSites =>
            \A d \in Tools!Range(Fans) \ Governed : hw'[d].mode = "auto"]_Tools!tvars
  OBVIOUS
<1>2. Alone!RampRestores => RampRestores
  BY <1>1, PTL DEF RampRestores, Tools!RampRestores, Alone!RampRestores
<1> QED BY Refines, SameTypes, <1>2, Alone!RampRestored, PTL
================================================================================
