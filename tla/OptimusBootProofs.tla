------------------------- MODULE OptimusBootProofs -------------------------
(***************************************************************************)
(* Proofs about the boot phase of an Optimus burn, for every board, image  *)
(* and number of resets.                                                   *)
(*                                                                         *)
(* The inductive invariant IInv ties the exchange the host is at to the    *)
(* step of the plan (StepInv), that to what the device has in memory       *)
(* (DeviceInv) and to its password (LockInv), and, as long as the device   *)
(* that was opened is there, to the stage it is in and the command BL2     *)
(* finds (StageInv); KindInv and ArriveInv add which items are loaded.     *)
(* Each part has a lemma of its own; the four actions that run an SPL are  *)
(* first reduced to what they can do where they happen.                    *)
(***************************************************************************)
EXTENDS OptimusBoot, TLAPS

USE BootAssumption

\* The steps of a burn, counted from the end.
LEMMA StepNames ==
  /\ Len(Steps) \in {5, 7}
  /\ \A i \in 1 .. Len(Steps) :
        /\ Len(Steps) - i = 6 => Steps[i] = "password"
        /\ Len(Steps) - i = 5 => Steps[i] = "erase"
        /\ Len(Steps) - i = 4 => Steps[i] = "password"
        /\ Len(Steps) - i = 3 => Steps[i] = "secure"
        /\ Len(Steps) - i = 2 => Steps[i] = "spl"
        /\ Len(Steps) - i = 1 => Steps[i] = "uboot"
        /\ Len(Steps) - i = 0 => Steps[i] = "tpl"
<1>1. CASE setup.eraseLoader
  <2>1. Steps = <<"password", "erase", "password", "secure", "spl", "uboot", "tpl">>
    BY <1>1 DEF Steps
  <2>. QED
    BY <2>1
<1>2. CASE ~setup.eraseLoader
  <2>1. Steps = <<"password", "secure", "spl", "uboot", "tpl">>
    BY <1>2 DEF Steps
  <2>. QED
    BY <2>1
<1>. QED
  BY <1>1, <1>2

\* The step the host is at.
LEMMA AtStep ==
  ASSUME StepInv
  PROVE /\ Left \in 0 .. 6
        /\ Left = 6 => Steps[step] = "password"
        /\ Left = 5 => Steps[step] = "erase"
        /\ Left = 4 => Steps[step] = "password"
        /\ Left = 3 => Steps[step] = "secure"
        /\ Left = 2 => Steps[step] = "spl"
        /\ Left = 1 => Steps[step] = "uboot"
        /\ Left = 0 => Steps[step] = "tpl"
<1>1. step \in 1 .. Len(Steps) /\ Len(Steps) \in {5, 7}
  BY StepNames DEF StepInv
<1>2. Left = Len(Steps) - step
  BY DEF Left
<1>3. Left \in 0 .. 6
  <2>1. CASE Len(Steps) = 5
    BY <1>1, <1>2, <2>1
  <2>2. CASE Len(Steps) = 7
    BY <1>1, <1>2, <2>2
  <2>. QED
    BY <1>1, <2>1, <2>2
<1>. QED
  BY <1>1, <1>2, <1>3, StepNames

\* Nothing moves to another step by itself.
LEMMA SameStep ==
  ASSUME UNCHANGED <<setup, step>>
  PROVE Left' = Left /\ Steps' = Steps
BY DEF Left, Steps

\* The step after the one the host is at.
LEMMA NextStep ==
  ASSUME StepInv, UNCHANGED setup, Left # 0, step' = step + 1
  PROVE /\ Left' = Left - 1 /\ Left \in 1 .. 6 /\ step' \in 1 .. Len(Steps')
        /\ Left = 6 => Steps[step + 1] = "erase"
        /\ Left = 5 => Steps[step + 1] = "password"
        /\ Left = 4 => Steps[step + 1] = "secure"
        /\ Left = 3 => Steps[step + 1] = "spl"
        /\ Left = 2 => Steps[step + 1] = "uboot"
        /\ Left = 1 => Steps[step + 1] = "tpl"
<1>1. Steps' = Steps /\ step \in 1 .. Len(Steps) /\ Len(Steps) \in Nat
  BY StepNames DEF Steps, StepInv
<1>2. Left' = Left - 1 /\ Left \in 1 .. 6 /\ step' \in 1 .. Len(Steps)
  BY <1>1, AtStep DEF Left
<1>3. step + 1 \in 1 .. Len(Steps) /\ Len(Steps) - (step + 1) = Left - 1
  BY <1>1, <1>2 DEF Left
<1>. QED
  BY <1>1, <1>2, <1>3, StepNames

\* Every step keeps the exchange in step with the plan.
LEMMA StepNext ==
  ASSUME IInv, Next
  PROVE StepInv'
<1>. USE DEF StepInv, Labels, PasswordSteps, EraseSteps, SplSteps, UbootSteps, Ended
<1>0. StepInv
  BY DEF IInv
<1>1. CASE Password \/ Unlocked
  BY <1>0, <1>1, NextStep, SameStep
     DEF Password, Unlocked, At, Goto, Fail, FinishStep
<1>2. CASE Erase \/ IsOld
  BY <1>0, <1>2, NextStep, SameStep
     DEF Erase, IsOld, At, Goto, Fail, FinishStep
<1>2a. CASE Secure \/ Spl
  BY <1>0, <1>2a, NextStep, SameStep
     DEF Secure, Spl, At, Goto, Fail, FinishStep
<1>2b. CASE SplPara \/ Uboot
  BY <1>0, <1>2b, NextStep, SameStep
     DEF SplPara, Uboot, At, Goto, Fail, FinishStep
<1>3. CASE Reset \/ AmlcEnd \/ UbootRun
  BY <1>0, <1>3, NextStep, SameStep DEF Reset, AmlcEnd, UbootRun, At, FinishStep
<1>4. CASE Unlock \/ EraseLoader \/ SplLoad \/ SplRun \/ SplStage \/ Amlc \/ UbootLoad
           \/ DdrAgain \/ CheckRun \/ CheckPara \/ Tpl
  BY <1>0, <1>4, SameStep DEF Unlock, EraseLoader, SplLoad, SplRun, SplStage, Amlc,
     UbootLoad, DdrAgain, CheckRun, CheckPara, Tpl, At, Goto, Fail
<1>5. CASE OpenDevice \/ UsbError
  BY <1>0, <1>5, AtStep, SameStep DEF OpenDevice, UsbError, Goto, Fail
<1>6. CASE DevLeave \/ DevAppear \/ DevReset
  BY <1>0, <1>6, SameStep DEF DevLeave, DevAppear, DevReset, hostVars
<1>. QED
  BY Zenon, <1>1, <1>2, <1>2a, <1>2b, <1>3, <1>4, <1>5, <1>6 DEF Next, HostNext

\* A board that left the bus or came back has to be opened again.
LEMMA BusGone ==
  ASSUME TypeOK, DevLeave \/ DevAppear \/ DevReset
  PROVE ~Connected' /\ UNCHANGED <<setup, hostVars>>
<1>1. CASE DevLeave \/ DevReset
  BY <1>1 DEF DevLeave, DevReset, Connected
<1>2. CASE DevAppear
  BY <1>2 DEF DevAppear, Connected, TypeOK, hostVars
<1>. QED
  BY <1>1, <1>2

\* The kinds of the items.
LEMMA Items ==
  ASSUME NEW sb
  PROVE Signed("DDR", sb) \in {"DDR", "DDR_ENC"} /\ Signed("UBOOT", sb) \in {"UBOOT", "UBOOT_ENC"}
BY DEF Signed, Encrypted

\* What the SPL leaves behind that was run by way of the boot ROM.
LEMMA IplRuns ==
  ASSUME RunInIpl
  PROVE /\ UNCHANGED <<enum, uboot, para>>
        /\ \/ Hang
           \/ /\ spl = RightSpl /\ spl' = "none" /\ hung' = hung
              /\ \/ /\ Command = "ddr" /\ dstage' = setup.afterSpl /\ ddr' = TRUE
                    /\ leaving' = leaving
                 \/ Command = "check" /\ UNCHANGED <<dstage, ddr, leaving>>
                 \/ /\ Command \notin {"ddr", "check"} /\ UNCHANGED <<dstage, ddr>>
                    /\ leaving' = IF uboot = RightUboot THEN "TPL" ELSE "IPL"
BY DEF RunInIpl, Execute, Hang

\* What a resident SPL leaves behind.
LEMMA ParaRuns ==
  ASSUME RunPara
  PROVE /\ UNCHANGED <<enum, spl, uboot, para>>
        /\ \/ Hang /\ ~setup.bl2Para
           \/ /\ UNCHANGED <<dstage, hung>>
              /\ \/ para = "ddr" /\ ddr' = TRUE /\ leaving' = leaving
                 \/ para = "check" /\ UNCHANGED <<ddr, leaving>>
                 \/ /\ para \notin {"ddr", "check"} /\ ddr' = ddr
                    /\ leaving' = IF uboot = RightUboot THEN "TPL" ELSE "IPL"
BY DEF RunPara, Execute, Hang

\* What can become of the variables that are true or false.
LEMMA Flags ==
  ASSUME Next
  PROVE /\ isSecure' \in {isSecure, setup.secure, TRUE, FALSE}
        /\ unlocked' \in {unlocked, TRUE, FALSE}
        /\ ddr' \in {ddr, TRUE, FALSE}
        /\ UNCHANGED setup
<1>. USE DEF At, devVars, hostVars, busVars, memory
<1>2. CASE Password \/ Unlocked \/ Erase \/ IsOld \/ Spl \/ SplPara \/ Uboot \/ Tpl \/ UsbError
  BY <1>2 DEF Password, Unlocked, Erase, IsOld, Spl, SplPara, Uboot, Tpl, UsbError
<1>3. CASE Reset \/ AmlcEnd \/ OpenDevice \/ EraseLoader \/ Secure \/ Unlock
  BY <1>3 DEF Reset, AmlcEnd, OpenDevice, EraseLoader, Secure, SecureBits, Unlock
<1>5. CASE SplLoad \/ Amlc \/ UbootLoad \/ DdrAgain \/ CheckPara
  BY <1>5 DEF SplLoad, Amlc, UbootLoad, DdrAgain, CheckPara
<1>6. CASE SplRun \/ SplStage \/ CheckRun \/ UbootRun
  BY <1>6, IplRuns, ParaRuns DEF SplRun, SplStage, CheckRun, UbootRun, RunUboot, Hang
<1>7. CASE DevLeave \/ DevAppear \/ DevReset
  BY <1>7 DEF DevLeave, DevAppear, DevReset
<1>. QED
  BY Zenon, <1>2, <1>3, <1>5, <1>6, <1>7 DEF Next, HostNext

\* Every step keeps every variable in its type.
LEMMA TypeNext ==
  ASSUME IInv, Next
  PROVE TypeOK'
<1>. USE DEF At, devVars, hostVars, busVars, memory
<1>1. IsSetup(setup) /\ setup' = setup
  BY Flags DEF IInv, TypeOK
<1>2. isSecure' \in BOOLEAN /\ unlocked' \in BOOLEAN /\ ddr' \in BOOLEAN
  <2>1. isSecure \in BOOLEAN /\ unlocked \in BOOLEAN /\ ddr \in BOOLEAN /\ setup.secure \in BOOLEAN
    BY Zenon DEF IsSetup, IInv, TypeOK
  <2>2. /\ isSecure' \in {isSecure, setup.secure, TRUE, FALSE}
        /\ unlocked' \in {unlocked, TRUE, FALSE} /\ ddr' \in {ddr, TRUE, FALSE}
    BY Zenon, Flags
  <2>. QED
    BY Zenon, <2>1, <2>2
<1>3. pc' \in Labels /\ step' \in 1 .. Len(Steps')
  BY StepNext DEF StepInv
<1>4. /\ enum' \in Nat \ {0} /\ handle' \in 0 .. enum' /\ faults' \in 0 .. MaxFaults
      /\ dstage' \in {"IPL", "SPL0", "SPL1", "TPL", "ODD", "OFF"}
      /\ leaving' \in {"stay", "IPL", "TPL"}
  <2>0. /\ enum \in Nat \ {0} /\ handle \in 0 .. enum /\ faults \in 0 .. MaxFaults
        /\ dstage \in {"IPL", "SPL0", "SPL1", "TPL", "ODD", "OFF"}
        /\ leaving \in {"stay", "IPL", "TPL"}
        /\ setup.afterSpl \in {"IPL", "SPL0", "SPL1"}
    BY <1>1 DEF IsSetup, IInv, TypeOK
  <2>1. CASE Password \/ Unlocked \/ Erase \/ IsOld \/ Spl \/ SplPara \/ Uboot \/ Tpl
    BY <2>0, <2>1 DEF Password, Unlocked, Erase, IsOld, Spl, SplPara, Uboot, Tpl
  <2>2. CASE Reset \/ AmlcEnd \/ EraseLoader \/ Secure \/ Unlock \/ UsbError
    BY <2>0, <2>2 DEF Reset, AmlcEnd, EraseLoader, Secure, Unlock, UsbError
  <2>6. CASE OpenDevice
    BY <2>0, <2>6 DEF OpenDevice
  <2>3. CASE SplLoad \/ Amlc \/ UbootLoad \/ DdrAgain \/ CheckPara
    BY <2>0, <2>3 DEF SplLoad, Amlc, UbootLoad, DdrAgain, CheckPara
  <2>4. CASE SplRun \/ SplStage \/ CheckRun \/ UbootRun
    BY <2>0, <2>4, IplRuns, ParaRuns DEF SplRun, SplStage, CheckRun, UbootRun, RunUboot, Hang
  <2>5. CASE DevLeave \/ DevAppear \/ DevReset
    BY <2>0, <2>5 DEF DevLeave, DevAppear, DevReset
  <2>. QED
    BY Zenon, <2>1, <2>2, <2>3, <2>4, <2>5, <2>6 DEF Next, HostNext
<1>5. /\ spl' \in {"none", "DDR", "DDR_ENC"} /\ uboot' \in {"none", "UBOOT", "UBOOT_ENC"}
      /\ para' \in {"none", "ddr", "check", "run"}
  <2>0. /\ spl \in {"none", "DDR", "DDR_ENC"} /\ uboot \in {"none", "UBOOT", "UBOOT_ENC"}
        /\ para \in {"none", "ddr", "check", "run"}
    BY DEF IInv, TypeOK
  <2>1. CASE Password \/ Unlocked \/ Erase \/ IsOld \/ Spl \/ SplPara \/ Uboot \/ Tpl
    BY <2>0, <2>1 DEF Password, Unlocked, Erase, IsOld, Spl, SplPara, Uboot, Tpl
  <2>2. CASE Reset \/ AmlcEnd \/ OpenDevice \/ EraseLoader \/ Secure \/ Unlock \/ UsbError
    BY <2>0, <2>2 DEF Reset, AmlcEnd, OpenDevice, EraseLoader, Secure, Unlock, UsbError
  <2>3. CASE SplLoad \/ Amlc \/ UbootLoad \/ DdrAgain \/ CheckPara
    BY <2>0, <2>3, Items DEF SplLoad, Amlc, UbootLoad, DdrAgain, CheckPara, LoadUboot,
       ReloadSpl, WritePara
  <2>4. CASE SplRun \/ SplStage \/ CheckRun \/ UbootRun
    BY <2>0, <2>4, IplRuns, ParaRuns DEF SplRun, SplStage, CheckRun, UbootRun, RunUboot, Hang
  <2>5. CASE DevLeave \/ DevAppear \/ DevReset
    BY <2>0, <2>5 DEF DevLeave, DevAppear, DevReset, ForgetRam
  <2>. QED
    BY Zenon, <2>1, <2>2, <2>3, <2>4, <2>5 DEF Next, HostNext
<1>. QED
  BY Zenon, <1>1, <1>2, <1>3, <1>4, <1>5 DEF TypeOK

\* The host goes from one step to the next and never back.
LEMMA LeftNext ==
  ASSUME IInv, Next
  PROVE Left \in 0 .. 6 /\ Left' \in 0 .. 6 /\ Left' <= Left
<1>1. StepInv /\ StepInv' /\ UNCHANGED setup
  BY StepNext, Flags DEF IInv
<1>2. Left \in 0 .. 6 /\ (Left \in 0 .. 6)'
  BY <1>1, AtStep, PTL
<1>3. CASE step' = step
  <2>1. Left' = Left
    BY <1>1, <1>3, SameStep
  <2>. QED
    BY <1>2, <2>1
<1>4. CASE step' # step
  <2>1. step' = step + 1
    BY <1>4 DEF Next, HostNext, OpenDevice, UsbError, Password, Unlock, Unlocked, Erase, IsOld,
       EraseLoader, Reset, Secure, Spl, SplLoad, SplRun, SplStage, SplPara, Uboot, Amlc,
       AmlcEnd, UbootLoad, DdrAgain, CheckRun, CheckPara, UbootRun, Tpl, DevLeave, DevAppear,
       DevReset, hostVars, Goto, Fail, FinishStep
  <2>2. Steps' = Steps /\ Len(Steps) \in Nat /\ step \in Nat
    BY <1>1, StepNames DEF Steps, StepInv
  <2>3. Left' = Left - 1
    BY <2>1, <2>2 DEF Left
  <2>. QED
    BY <1>2, <2>3
<1>. QED
  BY <1>2, <1>3, <1>4

\* What the first run of the SPL is told.
LEMMA FirstRun ==
  ASSUME IInv, Connected, pc \in {"splRun", "splStage"}
  PROVE Left = 2 /\ uboot = "none" /\ Command = "ddr" /\ (setup.bl2Para => para = "ddr")
<1>1. Left = 2
  BY DEF IInv, StepInv, SplSteps
<1>2. uboot = "none"
  BY <1>1 DEF IInv, DeviceInv
<1>. QED
  BY <1>1, <1>2 DEF IInv, StageInv, Command

\* The device ran something it could not run and is gone.
Lost == dstage' = "OFF" /\ leaving' = "stay" /\ UNCHANGED <<enum, spl, uboot, para, ddr>>

\* The first run of the SPL sets up DDR.
LEMMA SplRunEffect ==
  ASSUME IInv, SplRun
  PROVE /\ Connected /\ pc = "splRun" /\ pc' = "splStage" /\ dstage = "IPL"
        /\ UNCHANGED <<setup, handle, isSecure, unlocked, faults, step, enum, uboot, para>>
        /\ \/ Lost /\ spl # RightSpl
           \/ /\ spl' = "none" /\ ddr' /\ dstage' = setup.afterSpl
              /\ UNCHANGED <<hung, leaving>>
<1>1. Connected /\ pc = "splRun"
  BY DEF SplRun, At
<1>2. Command = "ddr" /\ dstage = "IPL"
  BY <1>1, FirstRun DEF IInv, StageInv, InStage
<1>. QED
  BY <1>1, <1>2 DEF SplRun, At, Goto, RunInIpl, Execute, Hang, Lost

\* A resident SPL sets up DDR, another is left alone.
LEMMA SplStageEffect ==
  ASSUME IInv, SplStage
  PROVE /\ Connected /\ pc = "splStage" /\ pc' \in {"splPara", "failed"}
        /\ pc' = "splPara" => dstage # "TPL"
        /\ UNCHANGED <<setup, handle, isSecure, unlocked, faults, step, enum, uboot, para, spl,
                       hung, leaving, dstage>>
        /\ ddr => ddr'
<1>1. Connected /\ pc = "splStage"
  BY DEF SplStage, At
<1>2. setup.bl2Para => para = "ddr"
  BY <1>1, FirstRun
<1>3. CASE dstage = "SPL0" /\ setup.bl2Para
  BY <1>1, <1>2, <1>3 DEF SplStage, At, Goto, Fail, RunPara, Execute, busVars
<1>4. CASE ~(dstage = "SPL0" /\ setup.bl2Para)
  BY <1>1, <1>4 DEF SplStage, At, Goto, Fail, busVars, memory
<1>. QED
  BY <1>3, <1>4

\* BL2 checks U-Boot.
LEMMA CheckRunEffect ==
  ASSUME IInv, CheckRun
  PROVE /\ Connected /\ pc = "checkRun" /\ pc' = "checkPara" /\ dstage \in {"IPL", "SPL0"}
        /\ setup.bl2Para
        /\ UNCHANGED <<setup, handle, isSecure, unlocked, faults, step, enum, uboot, para>>
        /\ \/ Lost /\ dstage = "IPL" /\ spl # RightSpl
           \/ spl' \in {"none", spl} /\ UNCHANGED <<hung, leaving, dstage, ddr>>
<1>1. Connected /\ pc = "checkRun"
  BY DEF CheckRun, At
<1>2. setup.bl2Para /\ para = "check" /\ dstage \in {"IPL", "SPL0"}
  BY <1>1 DEF IInv, StageInv, InStage
<1>3. CASE dstage = "IPL"
  BY <1>1, <1>2, <1>3 DEF CheckRun, At, Goto, RunUboot, RunInIpl, Command, Execute, Hang, Lost
<1>4. CASE dstage = "SPL0"
  BY <1>1, <1>2, <1>4 DEF CheckRun, At, Goto, RunUboot, RunPara, Execute
<1>. QED
  BY <1>2, <1>3, <1>4

\* BL2 starts what it finds, or without anything sets up DDR once more.
LEMMA UbootRunEffect ==
  ASSUME IInv, UbootRun
  PROVE /\ Connected /\ pc = "ubootRun" /\ pc' = "open" /\ dstage \in {"IPL", "SPL0"}
        /\ UNCHANGED <<setup, handle, isSecure, unlocked, faults, enum, uboot, para>>
        /\ step' = step + 1
        /\ \/ Lost /\ dstage = "IPL" /\ spl # RightSpl
           \/ Lost /\ dstage = "SPL0" /\ ~setup.bl2Para
           \/ /\ uboot = "none" /\ spl' = "none" /\ ddr' /\ dstage = "IPL"
              /\ dstage' = setup.afterSpl /\ UNCHANGED <<hung, leaving>>
           \/ /\ leaving' = IF uboot = RightUboot THEN "TPL" ELSE "IPL"
              /\ spl' \in {"none", spl} /\ UNCHANGED <<hung, dstage, ddr>>
<1>1. Connected /\ pc = "ubootRun"
  BY DEF UbootRun, At
<1>2. (setup.bl2Para => para = "run") /\ dstage \in {"IPL", "SPL0"}
  BY <1>1 DEF IInv, StageInv, InStage
<1>3. CASE dstage = "IPL"
  BY <1>1, <1>2, <1>3
     DEF UbootRun, At, FinishStep, RunUboot, RunInIpl, Command, Execute, Hang, Lost
<1>4. CASE dstage = "SPL0"
  BY <1>1, <1>2, <1>4 DEF UbootRun, At, FinishStep, RunUboot, RunPara, Execute, Hang, Lost
<1>. QED
  BY <1>2, <1>3, <1>4

\* Every step keeps what the device has in step with what was loaded.
LEMMA DeviceNext ==
  ASSUME IInv, Next
  PROVE DeviceInv'
<1>. USE DEF DeviceInv, Spls, At, devVars, hostVars, busVars, memory
<1>0. /\ DeviceInv /\ StepInv /\ StageInv /\ Left \in 0 .. 6 /\ Left' \in 0 .. 6
      /\ Left' <= Left /\ UNCHANGED setup
      /\ setup.afterSpl \in {"IPL", "SPL0", "SPL1"}
  BY LeftNext, Flags DEF IsSetup, IInv, TypeOK
<1>1. CASE Password \/ Unlocked \/ Erase \/ IsOld \/ Spl \/ SplPara \/ Uboot \/ Tpl \/ UsbError
  <2>1. UNCHANGED <<dstage, leaving, ddr, uboot>>
    BY <1>1 DEF Password, Unlocked, Erase, IsOld, Spl, SplPara, Uboot, Tpl, UsbError
  <2>. QED
    BY <1>0, <2>1
<1>2. CASE Reset \/ OpenDevice \/ EraseLoader \/ Secure \/ Unlock
  <2>1. UNCHANGED <<dstage, ddr, uboot>> /\ leaving' \in {leaving, "IPL"}
    BY <1>2 DEF Reset, OpenDevice, EraseLoader, Secure, Unlock
  <2>. QED
    BY <1>0, <2>1
<1>3. CASE AmlcEnd
  <2>1. Left = 1 /\ Left' = 0
    BY <1>0, <1>3, NextStep DEF AmlcEnd, FinishStep, StepInv, UbootSteps
  <2>. QED
    BY <1>0, <1>3, <2>1 DEF AmlcEnd
<1>4. CASE SplLoad \/ DdrAgain \/ CheckPara
  BY <1>0, <1>4 DEF SplLoad, DdrAgain, CheckPara
<1>5. CASE Amlc \/ UbootLoad
  <2>1. Left = 1
    BY <1>0, <1>5 DEF Amlc, UbootLoad, StepInv, UbootSteps
  <2>. QED
    BY <1>0, <1>5, <2>1 DEF Amlc, UbootLoad, LoadUboot
<1>6. CASE SplRun
  <2>1. Left = 2
    BY <1>0, <1>6 DEF SplRun, StepInv, SplSteps
  <2>2. /\ uboot' = uboot /\ leaving' \in {leaving, "stay"} /\ (ddr => ddr')
        /\ dstage' = "OFF" \/ (ddr' /\ dstage' = setup.afterSpl)
    BY <1>6, SplRunEffect DEF Lost
  <2>. QED
    BY <1>0, <2>1, <2>2
<1>7. CASE SplStage
  <2>1. UNCHANGED <<dstage, leaving, uboot>> /\ (ddr => ddr')
    BY <1>7, SplStageEffect
  <2>. QED
    BY <1>0, <2>1
<1>8. CASE CheckRun
  BY <1>0, <1>8, CheckRunEffect DEF Lost
<1>9. CASE UbootRun
  <2>1. Left = 1 /\ Left' = 0
    BY <1>0, <1>9, NextStep DEF UbootRun, FinishStep, StepInv, UbootSteps
  <2>2. /\ uboot' = uboot /\ (ddr => ddr')
        /\ dstage' \in {dstage, "OFF"} \/ (ddr' /\ dstage' = setup.afterSpl)
    BY <1>9, UbootRunEffect DEF Lost
  <2>. QED
    BY <1>0, <2>1, <2>2
<1>10. CASE DevLeave \/ DevReset
  BY <1>0, <1>10 DEF DevLeave, DevReset
<1>11. CASE DevAppear
  BY <1>0, <1>11 DEF DevAppear, ForgetRam, IInv, TypeOK
<1>. QED
  BY Zenon, <1>1, <1>2, <1>3, <1>4, <1>5, <1>6, <1>7, <1>8, <1>9, <1>10, <1>11
     DEF Next, HostNext

\* Whether the board is locked depends on these alone.
LEMMA SameLock ==
  ASSUME UNCHANGED <<setup, unlocked>>
  PROVE Locked' <=> Locked
BY DEF Locked

\* Every step keeps a locked board from being used.
LEMMA LockNext ==
  ASSUME IInv, Next
  PROVE LockInv'
<1>. USE DEF At, devVars, hostVars, busVars
<1>0. LockInv /\ StepInv /\ TypeOK /\ StageInv /\ UNCHANGED setup
  BY Flags DEF IInv
<1>. DEFINE Guarded == EraseSteps \cup {"secure"} \cup SplSteps \cup UbootSteps
<1>1. ASSUME UNCHANGED <<dstage, handle, enum, unlocked>>, pc' # "unlock",
             pc' \in Guarded => pc \in Guarded
      PROVE LockInv'
  BY <1>0, <1>1, SameLock DEF LockInv, Connected
<1>. USE DEF EraseSteps, SplSteps, UbootSteps
<1>2. CASE Password
  <2>1. UNCHANGED <<dstage, handle, enum, unlocked>>
    BY <1>2 DEF Password
  <2>2. CASE pc' = "unlock"
    <3>1. ~unlocked /\ (dstage = "IPL")
      BY <1>2, <2>2, <1>0, NextStep DEF Password, Goto, Fail, FinishStep, StepInv, PasswordSteps
    <3>. QED
      BY <1>0, <2>1, <2>2, <3>1, SameLock DEF LockInv, Connected, Spls
  <2>3. CASE pc' # "unlock"
    <3>1. pc' # "failed" => dstage # "IPL" \/ ~Locked
      BY <1>2, <2>3 DEF Password, Goto, Fail, Locked
    <3>. QED
      BY <1>0, <2>1, <2>3, <3>1, SameLock DEF LockInv, Connected
  <2>. QED
    BY <2>2, <2>3
<1>3. CASE Unlock
  <2>1. dstage = "IPL" /\ pc' = "unlocked" /\ dstage' = dstage
    BY <1>0, <1>3 DEF Unlock, Goto, StageInv, InStage
  <2>. QED
    BY <2>1 DEF LockInv, Spls
<1>4. CASE Unlocked
  <2>1. UNCHANGED <<dstage, handle, enum, unlocked>> /\ (pc' = "failed" \/ unlocked)
    BY <1>4 DEF Unlocked, Goto, Fail
  <2>2. pc' # "unlock"
    BY <1>0, <1>4, NextStep DEF Unlocked, Goto, Fail, FinishStep, StepInv, PasswordSteps
  <2>. QED
    BY <1>0, <2>1, <2>2, SameLock DEF LockInv, Connected, Locked
<1>5. CASE Erase \/ IsOld \/ EraseLoader \/ Reset
  <2>1. pc \in Guarded /\ pc' # "unlock"
    BY <1>0, <1>5, NextStep DEF Erase, IsOld, EraseLoader, Reset, Goto, Fail, FinishStep, StepInv
  <2>2. UNCHANGED <<dstage, handle, enum, unlocked>>
    BY <1>5 DEF Erase, IsOld, EraseLoader, Reset
  <2>. QED
    BY <1>1, <2>1, <2>2
<1>6. CASE Secure \/ Spl \/ SplPara \/ Uboot
  <2>1. pc \in Guarded /\ pc' # "unlock"
    BY <1>0, <1>6, NextStep DEF Secure, Spl, SplPara, Uboot, Goto, Fail, FinishStep, StepInv
  <2>2. UNCHANGED <<dstage, handle, enum, unlocked>>
    BY <1>6 DEF Secure, Spl, SplPara, Uboot
  <2>. QED
    BY <1>1, <2>1, <2>2
<1>7. CASE SplLoad \/ SplStage \/ Amlc \/ AmlcEnd \/ UbootLoad \/ DdrAgain \/ CheckPara
  <2>1. pc \in Guarded /\ pc' # "unlock"
    BY <1>7, SplStageEffect DEF SplLoad, Amlc, AmlcEnd, UbootLoad, DdrAgain,
       CheckPara, Goto, Fail, FinishStep
  <2>2. UNCHANGED <<dstage, handle, enum, unlocked>>
    BY <1>7, SplStageEffect DEF SplLoad, Amlc, AmlcEnd, UbootLoad, DdrAgain, CheckPara
  <2>. QED
    BY <1>1, <2>1, <2>2
<1>8. CASE SplRun \/ CheckRun \/ UbootRun
  <2>1. /\ pc \in Guarded /\ pc' # "unlock" /\ UNCHANGED <<handle, enum, unlocked>>
        /\ dstage' \in {dstage, "OFF"} \/ dstage = "IPL"
        /\ Connected /\ pc' \in Guarded \cup {"open"}
    BY <1>8, SplRunEffect, CheckRunEffect, UbootRunEffect DEF Lost
  <2>2. dstage = "IPL" => ~Locked
    BY <1>0, <2>1 DEF LockInv
  <2>3. (dstage' \in Spls => ~Locked) /\ (dstage' = "IPL" => ~Locked)
    BY <1>0, <2>1, <2>2 DEF LockInv, Spls
  <2>. QED
    BY <1>0, <2>1, <2>3, SameLock DEF LockInv
<1>9. CASE OpenDevice \/ UsbError \/ Tpl
  <2>1. pc' \in {"failed", "password", "tpl", "done"} /\ UNCHANGED <<dstage, unlocked>>
    BY <1>0, <1>9, AtStep DEF OpenDevice, UsbError, Tpl, Goto, Fail, StepInv
  <2>. QED
    BY <1>0, <2>1, SameLock DEF LockInv
<1>10. CASE DevLeave \/ DevAppear \/ DevReset
  <2>1. ~Connected' /\ pc' = pc /\ dstage' \notin Spls
    BY <1>0, <1>10, BusGone DEF DevLeave, DevAppear, DevReset, TypeOK, Spls
  <2>2. unlocked' => unlocked
    BY <1>10 DEF DevLeave, DevAppear, DevReset
  <2>. QED
    BY <1>0, <2>1, <2>2 DEF LockInv
<1>. QED
  BY Zenon, <1>2, <1>3, <1>4, <1>5, <1>6, <1>7, <1>8, <1>9, <1>10 DEF Next, HostNext

\* Every step keeps the device that was opened in the stage the exchange is
\* meant for.
LEMMA StageNext ==
  ASSUME IInv, Next
  PROVE StageInv'
<1>. USE DEF At, devVars, hostVars, busVars, memory, StageInv, InStage, Spls
<1>0. /\ StageInv /\ StepInv /\ TypeOK /\ UNCHANGED setup
      /\ dstage \in {"IPL", "SPL0", "SPL1", "TPL", "ODD", "OFF"}
      /\ setup.afterSpl \in {"IPL", "SPL0", "SPL1"}
  BY Flags DEF IsSetup, IInv, TypeOK
<1>1. ASSUME UNCHANGED <<dstage, handle, enum>>
      PROVE Connected' <=> Connected
  BY <1>1 DEF Connected
<1>2. CASE Password \/ Unlock \/ Unlocked
  <2>1. pc' \in {"unlock", "unlocked", "failed", "erase", "secure"}
    BY <1>0, <1>2, NextStep DEF Password, Unlock, Unlocked, Goto, Fail, FinishStep, StepInv,
       PasswordSteps
  <2>2. UNCHANGED dstage /\ (pc' = "unlock" => dstage = "IPL")
    BY <1>0, <1>2, NextStep DEF Password, Unlock, Unlocked, Goto, Fail, FinishStep, StepInv,
       PasswordSteps
  <2>. QED
    BY <2>1, <2>2
<1>3. CASE Erase \/ IsOld \/ EraseLoader \/ Reset
  <2>1. pc' \in {"isOld", "eraseLoader", "reset", "failed", "password", "open"}
    BY <1>0, <1>3, NextStep DEF Erase, IsOld, EraseLoader, Reset, Goto, Fail, FinishStep,
       StepInv, EraseSteps
  <2>2. /\ UNCHANGED <<dstage, handle, enum>>
        /\ Connected /\ pc' \in {"isOld", "eraseLoader", "reset"} => dstage = "TPL"
    BY <1>0, <1>3, NextStep DEF Erase, IsOld, EraseLoader, Reset, Goto, Fail, FinishStep,
       StepInv, EraseSteps
  <2>. QED
    BY <1>1, <2>1, <2>2
<1>4. CASE Secure \/ Tpl \/ AmlcEnd \/ OpenDevice \/ UsbError
  <2>1. pc' \in {"spl", "done", "failed", "open", "password", "tpl"}
    BY <1>0, <1>4, NextStep, AtStep DEF Secure, Tpl, AmlcEnd, OpenDevice, UsbError, Goto, Fail,
       FinishStep, StepInv, UbootSteps
  <2>. QED
    BY <2>1
<1>5. CASE Spl
  <2>1. pc' \in {"uboot", "splLoad", "failed"} /\ UNCHANGED dstage
        /\ (pc' = "uboot" => dstage \in Spls \cup {"TPL"}) /\ (pc' = "splLoad" => dstage = "IPL")
    BY <1>0, <1>5, NextStep DEF Spl, Goto, Fail, FinishStep, StepInv, SplSteps
  <2>. QED
    BY <2>1
<1>6. CASE SplLoad
  BY <1>0, <1>6 DEF SplLoad, WritePara, Goto
<1>7. CASE SplRun
  BY <1>0, <1>7, SplRunEffect DEF Lost, Connected, StepInv
<1>8. CASE SplStage
  BY <1>0, <1>8, SplStageEffect
<1>9. CASE SplPara
  <2>1. pc' \in {"uboot", "failed"} /\ UNCHANGED dstage /\ dstage \in {"IPL"} \cup Spls
    BY <1>0, <1>9, NextStep DEF SplPara, Goto, Fail, FinishStep, StepInv, SplSteps
  <2>. QED
    BY <2>1
<1>10. CASE Uboot
  <2>1. /\ pc' \in {"tpl", "amlc", "ubootLoad", "failed"} /\ UNCHANGED dstage
        /\ pc' = "amlc" => dstage = "SPL1"
        /\ pc' = "ubootLoad" => dstage \in {"IPL", "SPL0"}
    BY <1>0, <1>10, NextStep DEF Uboot, Goto, Fail, FinishStep, StepInv, UbootSteps
  <2>. QED
    BY <2>1
<1>11. CASE Amlc \/ UbootLoad \/ DdrAgain \/ CheckPara
  BY <1>0, <1>11 DEF Amlc, UbootLoad, DdrAgain, CheckPara, WritePara, Goto, Fail
<1>12. CASE CheckRun
  BY <1>0, <1>12, CheckRunEffect DEF Lost, Connected
<1>13. CASE UbootRun
  BY <1>0, <1>13, UbootRunEffect
<1>14. CASE DevLeave \/ DevAppear \/ DevReset
  BY <1>0, <1>14, BusGone
<1>. QED
  BY Zenon, <1>2, <1>3, <1>4, <1>5, <1>6, <1>7, <1>8, <1>9, <1>10, <1>11, <1>12, <1>13, <1>14
     DEF Next, HostNext

\* Which items are right depends on the board alone.
LEMMA SameKinds ==
  ASSUME UNCHANGED setup
  PROVE RightSpl' = RightSpl /\ RightUboot' = RightUboot /\ (Supported' <=> Supported)
BY DEF RightSpl, RightUboot, Supported

\* What a board that is known is sent.
LEMMA KnownItems ==
  /\ isSecure = setup.secure =>
        Signed("DDR", isSecure) = RightSpl /\ Signed("UBOOT", isSecure) = RightUboot
  /\ isSecure = FALSE => Signed("UBOOT", isSecure) = "UBOOT"
BY DEF Signed, RightSpl, RightUboot

\* Every step keeps the items those of the board.
LEMMA KindNext ==
  ASSUME IInv, Next
  PROVE KindInv'
<1>. USE DEF At, devVars, hostVars, busVars, memory, KindInv, RightImageKind, NeverHangs,
             Spls, SplSteps, UbootSteps
<1>. SUFFICES ASSUME Supported PROVE KindInv'
  BY Flags, SameKinds
<1>0. /\ KindInv /\ StageInv /\ StepInv /\ DeviceInv /\ TypeOK /\ UNCHANGED setup
      /\ RightSpl' = RightSpl /\ RightUboot' = RightUboot
      /\ dstage \in {"IPL", "SPL0", "SPL1", "TPL", "ODD", "OFF"}
      /\ setup.start \in {"IPL", "SPL0", "SPL1", "TPL", "ODD", "OFF"}
      /\ setup.afterSpl \in {"IPL", "SPL0", "SPL1"}
  BY Flags, SameKinds DEF IsSetup, IInv, TypeOK
<1>1. ASSUME UNCHANGED <<spl, uboot, hung>>, pc' \notin SplSteps \cup UbootSteps \/ ~Connected'
      PROVE KindInv'
  BY <1>0, <1>1
<1>2. CASE Password \/ Unlock \/ Unlocked \/ Erase \/ IsOld \/ EraseLoader \/ Reset
  <2>1. pc' \notin SplSteps \cup UbootSteps
    BY <1>0, <1>2, NextStep DEF Password, Unlock, Unlocked, Erase, IsOld, EraseLoader, Reset,
       Goto, Fail, FinishStep, StepInv, PasswordSteps, EraseSteps
  <2>2. UNCHANGED <<spl, uboot, hung>>
    BY <1>2 DEF Password, Unlock, Unlocked, Erase, IsOld, EraseLoader, Reset
  <2>. QED
    BY <1>1, <2>1, <2>2
<1>3. CASE OpenDevice \/ UsbError \/ Tpl \/ AmlcEnd
  <2>1. pc' \notin SplSteps \cup UbootSteps
    BY <1>0, <1>3, NextStep, AtStep DEF OpenDevice, UsbError, Tpl, AmlcEnd, Goto, Fail,
       FinishStep, StepInv
  <2>2. UNCHANGED <<spl, uboot, hung>>
    BY <1>3 DEF OpenDevice, UsbError, Tpl, AmlcEnd
  <2>. QED
    BY <1>1, <2>1, <2>2
<1>4. CASE Secure
  <2>1. UNCHANGED <<spl, uboot, hung, dstage>> /\ pc' \in {"failed", "spl"}
    BY <1>0, <1>4, NextStep DEF Secure, Goto, Fail, FinishStep, StepInv
  <2>2. CASE pc' = "failed"
    BY <1>1, <2>1, <2>2
  <2>3. CASE pc' = "spl"
    <3>1. isSecure' \in SecureBits /\ Left = 3 /\ (dstage = "IPL" => setup.encReg # "invalid")
      BY <1>0, <1>4, <2>3 DEF Secure, Goto, Fail, StepInv
    <3>2. dstage \in Spls => isSecure' = FALSE /\ setup.start \in Spls
      <4>1. dstage \in Spls => SecureBits = {FALSE}
        BY DEF SecureBits, ReadsRegister
      <4>2. dstage \in Spls => setup.start \in Spls
        BY <1>0, <3>1 DEF DeviceInv
      <4>. QED
        BY <3>1, <4>1, <4>2
    <3>4. dstage = "IPL" => isSecure' = setup.secure
      <4>1. setup.encReg = "given"  \/ dstage # "IPL"
        BY <1>0, <3>1 DEF IsSetup, TypeOK, Supported
      <4>2. dstage = "IPL" => SecureBits = {setup.secure}
        BY <4>1 DEF SecureBits, ReadsRegister
      <4>. QED
        BY <3>1, <4>2
    <3>3. dstage # "OFF"
      BY <1>4 DEF Secure, Connected
    <3>. QED
      BY <1>0, <2>1, <2>3, <3>2, <3>3, <3>4 DEF Known
  <2>. QED
    BY <2>1, <2>2, <2>3
<1>5. CASE Spl
  <2>1. /\ UNCHANGED <<spl, uboot, hung, dstage, isSecure>> /\ Connected
        /\ pc' \in {"uboot", "splLoad", "failed"}
        /\ pc' = "uboot" => dstage \in Spls \cup {"TPL"}
        /\ pc' = "splLoad" => dstage = "IPL"
        /\ Known \/ dstage \in {"TPL", "ODD"}
    BY <1>0, <1>5, NextStep DEF Spl, Goto, Fail, FinishStep, StepInv
  <2>. QED
    BY <1>0, <2>1 DEF Known
<1>6. CASE SplLoad
  <2>1. /\ UNCHANGED <<uboot, hung, isSecure>> /\ pc' = "splRun"
        /\ isSecure = setup.secure /\ spl' = Signed("DDR", isSecure)
    BY <1>0, <1>6 DEF SplLoad, Goto
  <2>. QED
    BY <1>0, <2>1, KnownItems
<1>7. CASE SplRun
  <2>1. /\ UNCHANGED <<uboot, hung, isSecure>> /\ pc' = "splStage" /\ spl' = "none"
        /\ isSecure = setup.secure
    BY <1>0, <1>7, SplRunEffect
  <2>. QED
    BY <1>0, <2>1
<1>8. CASE SplStage
  <2>1. /\ UNCHANGED <<spl, uboot, hung, isSecure>> /\ pc' \in {"splPara", "failed"}
        /\ isSecure = setup.secure
    BY <1>0, <1>8, SplStageEffect
  <2>. QED
    BY <1>0, <2>1
<1>9. CASE SplPara
  <2>1. /\ UNCHANGED <<spl, uboot, hung, isSecure>> /\ pc' \in {"uboot", "failed"}
        /\ isSecure = setup.secure
    BY <1>0, <1>9, NextStep DEF SplPara, Goto, Fail, FinishStep, StepInv
  <2>. QED
    BY <1>0, <2>1 DEF Known
<1>10. CASE Uboot
  <2>1. /\ UNCHANGED <<spl, uboot, hung, isSecure, dstage>>
        /\ pc' \in {"tpl", "amlc", "ubootLoad", "failed"}
        /\ Known \/ dstage = "TPL"
    BY <1>0, <1>10, NextStep DEF Uboot, Goto, Fail, FinishStep, StepInv
  <2>. QED
    BY <1>0, <2>1 DEF Known
<1>11. CASE Amlc \/ UbootLoad
  <2>1. /\ UNCHANGED <<spl, hung, isSecure, dstage>> /\ Known
        /\ pc' \in {"amlcEnd", "ddrAgain", "failed"}
        /\ uboot' \in {uboot, "none", Signed("UBOOT", isSecure)}
    BY <1>0, <1>11 DEF Amlc, UbootLoad, LoadUboot, Goto, Fail, StageInv, InStage
  <2>2. Signed("UBOOT", isSecure) = RightUboot
        \/ (setup.start \in Spls /\ Signed("UBOOT", isSecure) = "UBOOT")
    BY <2>1, KnownItems DEF Known
  <2>. QED
    BY <1>0, <2>1, <2>2 DEF Known
<1>12. CASE DdrAgain \/ CheckPara
  <2>1. /\ UNCHANGED <<uboot, hung, isSecure, dstage>> /\ Known /\ dstage \in {"IPL", "SPL0"}
        /\ pc' \in {"checkRun", "ubootRun", "failed"}
        /\ \/ pc' = "failed" /\ spl' = spl
           \/ dstage = "IPL" /\ spl' = Signed("DDR", isSecure)
           \/ dstage = "SPL0" /\ spl' = spl
    BY <1>0, <1>12 DEF DdrAgain, CheckPara, ReloadSpl, Goto, Fail, StageInv
  <2>2. dstage = "IPL" => Signed("DDR", isSecure) = RightSpl
    BY <2>1, KnownItems DEF Known
  <2>. QED
    BY <1>0, <2>1, <2>2 DEF Known
<1>13. CASE CheckRun
  <2>1. /\ UNCHANGED <<uboot, hung, isSecure, dstage>> /\ Known
        /\ pc' = "checkPara" /\ spl' \in {"none", spl}
    BY <1>0, <1>13, CheckRunEffect
  <2>. QED
    BY <1>0, <2>1 DEF Known
<1>14. CASE UbootRun
  <2>1. dstage = "SPL0" => setup.bl2Para
    BY <1>0 DEF DeviceInv, Supported
  <2>2. UNCHANGED <<uboot, hung>> /\ pc' = "open" /\ spl' \in {"none", spl}
    BY <1>0, <1>14, <2>1, UbootRunEffect
  <2>. QED
    BY <1>0, <2>2
<1>15. CASE DevLeave \/ DevAppear \/ DevReset
  <2>1. ~Connected' /\ hung' = hung /\ spl' \in {"none", spl} /\ uboot' \in {"none", uboot}
    BY <1>0, <1>15, BusGone DEF DevLeave, DevAppear, DevReset, ForgetRam
  <2>. QED
    BY <1>0, <2>1
<1>. QED
  BY Zenon, <1>2, <1>3, <1>4, <1>5, <1>6, <1>7, <1>8, <1>9, <1>10, <1>11, <1>12, <1>13, <1>14,
     <1>15 DEF Next, HostNext

\* A burn that is smooth after a step was so before.
LEMMA SmoothBefore ==
  ASSUME TypeOK, Next
  PROVE Smooth' => Smooth /\ faults' = 0 /\ Supported
<1>1. UNCHANGED setup
  BY Flags
<1>2. faults' \in {faults, faults + 1} /\ faults \in Nat
  <2>0. faults \in Nat
    BY DEF TypeOK
  <2>1. CASE Password \/ Unlock \/ Unlocked \/ Erase \/ IsOld \/ EraseLoader \/ Secure \/ Spl
             \/ SplLoad \/ SplRun \/ SplStage \/ SplPara
    BY <2>0, <2>1 DEF Password, Unlock, Unlocked, Erase, IsOld, EraseLoader, Secure, Spl,
       SplLoad, SplRun, SplStage, SplPara, At
  <2>2. CASE Uboot \/ AmlcEnd \/ UbootLoad \/ DdrAgain \/ CheckRun \/ CheckPara \/ UbootRun \/ Tpl
    BY <2>0, <2>2 DEF Uboot, AmlcEnd, UbootLoad, DdrAgain, CheckRun, CheckPara, UbootRun, Tpl, At
  <2>3. CASE OpenDevice \/ UsbError \/ Reset \/ Amlc
    BY <2>0, <2>3 DEF OpenDevice, UsbError, Reset, Amlc
  <2>4. CASE DevLeave \/ DevAppear \/ DevReset
    BY <2>0, <2>4 DEF DevLeave, DevAppear, DevReset
  <2>. QED
    BY Zenon, <2>1, <2>2, <2>3, <2>4, <2>0 DEF Next, HostNext
<1>. QED
  BY <1>1, <1>2, SameKinds DEF Smooth

\* In a smooth burn the host knows the board.
LEMMA SmoothKnown ==
  ASSUME TypeOK, Smooth, Known
  PROVE Signed("UBOOT", isSecure) = RightUboot
<1>1. setup.secure \in BOOLEAN
  BY DEF IsSetup, TypeOK
<1>2. isSecure = setup.secure
  BY <1>1 DEF Smooth, Known
<1>. QED
  BY <1>2, KnownItems

\* Every step keeps U-Boot where the host expects it.
LEMMA ArriveNext ==
  ASSUME IInv, Next
  PROVE ArriveInv'
<1>. USE DEF At, devVars, hostVars, busVars, memory, ArriveInv, Spls, UbootSteps
<1>0. /\ ArriveInv /\ StageInv /\ StepInv /\ DeviceInv /\ KindInv /\ TypeOK /\ UNCHANGED setup
      /\ RightUboot' = RightUboot
      /\ dstage \in {"IPL", "SPL0", "SPL1", "TPL", "ODD", "OFF"}
      /\ (Smooth' => Smooth /\ faults' = 0 /\ Supported)
  BY Flags, SameKinds, SmoothBefore DEF IInv, TypeOK
<1>. DEFINE Quiet == {"splStage", "splPara", "tpl", "open"} \cup UbootSteps
<1>1. ASSUME pc' \notin Quiet PROVE ArriveInv'
  BY <1>1
<1>2. CASE Password \/ Unlock \/ Unlocked \/ Erase \/ IsOld \/ EraseLoader
  <2>1. pc' \in {"unlock", "unlocked", "failed", "erase", "isOld", "eraseLoader", "reset",
                "password", "secure"}
    BY <1>0, <1>2, NextStep DEF Password, Unlock, Unlocked, Erase, IsOld, EraseLoader,
       Goto, Fail, FinishStep, StepInv, PasswordSteps, EraseSteps
  <2>. QED
    BY <1>1, <2>1
<1>3. CASE Reset
  <2>1. pc' = "open" /\ Left' = 4
    BY <1>0, <1>3, NextStep DEF Reset, FinishStep, StepInv, EraseSteps
  <2>. QED
    BY <2>1
<1>4. CASE OpenDevice
  <2>1. pc' \in {"tpl", "password"} /\ UNCHANGED <<dstage, leaving>>
        /\ (pc' = "tpl" => Left = 0) /\ (setup.prompt => leaving = "stay") /\ pc = "open"
    BY <1>0, <1>4, AtStep DEF OpenDevice, Goto, StepInv
  <2>. QED
    BY <1>0, <2>1 DEF Smooth
<1>5. CASE UsbError \/ Tpl \/ Secure
  <2>1. pc' \notin Quiet
    BY <1>0, <1>5, NextStep DEF UsbError, Tpl, Secure, Goto, Fail, FinishStep, StepInv
  <2>. QED
    BY <1>1, <2>1
<1>6. CASE Spl \/ SplLoad
  <2>1. pc' \in {"uboot", "splLoad", "splRun", "failed"} /\ UNCHANGED <<dstage, ddr>>
        /\ (pc' = "uboot" => dstage \in Spls \cup {"TPL"})
    BY <1>0, <1>6, NextStep DEF Spl, SplLoad, Goto, Fail, FinishStep, StepInv, SplSteps
  <2>. QED
    BY <1>0, <2>1 DEF DeviceInv
<1>7. CASE SplRun
  <2>1. pc' = "splStage" /\ (dstage' = "OFF" \/ ddr')
    BY <1>7, SplRunEffect DEF Lost
  <2>. QED
    BY <2>1 DEF Connected
<1>8. CASE SplStage
  <2>1. pc' \in {"splPara", "failed"} /\ (ddr => ddr') /\ UNCHANGED dstage /\ pc = "splStage"
        /\ Connected
    BY <1>8, SplStageEffect
  <2>. QED
    BY <1>0, <2>1
<1>9. CASE SplPara
  <2>1. pc' \in {"uboot", "failed"} /\ UNCHANGED <<dstage, ddr>> /\ pc = "splPara" /\ Connected
    BY <1>0, <1>9, NextStep DEF SplPara, Goto, Fail, FinishStep, StepInv, SplSteps
  <2>. QED
    BY <1>0, <2>1
<1>10. CASE Uboot
  <2>1. pc' \in {"tpl", "amlc", "ubootLoad", "failed"} /\ UNCHANGED <<dstage, ddr>>
        /\ pc = "uboot" /\ Connected /\ (pc' = "tpl" => dstage = "TPL")
    BY <1>0, <1>10, NextStep DEF Uboot, Goto, Fail, FinishStep, StepInv
  <2>. QED
    BY <1>0, <2>1
<1>11. CASE Amlc \/ UbootLoad
  <2>1. /\ pc' \in {"amlcEnd", "ddrAgain", "failed"} /\ UNCHANGED <<dstage, ddr>>
        /\ pc \in {"amlc", "ubootLoad"} /\ Connected /\ dstage # "TPL"
    BY <1>0, <1>11 DEF Amlc, UbootLoad, Goto, Fail, StageInv, InStage
  <2>2. ddr
    BY <1>0, <2>1
  <2>3. Smooth' => uboot' = RightUboot
    <3>1. Smooth' => Known
      BY <1>0, <2>1 DEF KindInv
    <3>2. Smooth' => Signed("UBOOT", isSecure) = RightUboot
      BY <1>0, <3>1, SmoothKnown
    <3>3. Smooth' => uboot' = Signed("UBOOT", isSecure)
      <4>1. CASE UbootLoad
        BY <4>1, <2>2 DEF UbootLoad, LoadUboot
      <4>2. CASE Amlc
        <5>1. faults \in Nat
          BY <1>0 DEF TypeOK
        <5>2. faults' = faults + 1 \/ LoadUboot
          BY <4>2 DEF Amlc
        <5>. QED
          BY <1>0, <2>2, <5>1, <5>2 DEF LoadUboot
      <4>. QED
        BY <1>11, <4>1, <4>2
    <3>. QED
      BY <3>2, <3>3
  <2>. QED
    BY <1>0, <2>1, <2>2, <2>3
<1>12. CASE DdrAgain \/ CheckPara
  <2>1. /\ pc' \in {"checkRun", "ubootRun", "failed"} /\ UNCHANGED <<dstage, ddr, uboot>>
        /\ pc \in {"ddrAgain", "checkPara"} /\ Connected
    BY <1>12 DEF DdrAgain, CheckPara, Goto, Fail
  <2>. QED
    BY <1>0, <2>1
<1>13. CASE CheckRun
  <2>1. /\ pc' = "checkPara" /\ uboot' = uboot /\ pc = "checkRun" /\ Connected
        /\ dstage' = "OFF" \/ UNCHANGED <<dstage, ddr>>
    BY <1>13, CheckRunEffect DEF Lost
  <2>. QED
    BY <1>0, <2>1 DEF Connected
<1>14. CASE AmlcEnd
  <2>1. pc' = "open" /\ Connected /\ pc = "amlcEnd" /\ RightUboot # "none"
    BY <1>14, Items DEF AmlcEnd, FinishStep, RightUboot
  <2>2. Smooth' => leaving' = "TPL"
    BY <1>0, <1>14, <2>1 DEF AmlcEnd
  <2>. QED
    BY <2>1, <2>2
<1>15. CASE UbootRun
  <2>1. pc' = "open" /\ Connected /\ pc = "ubootRun" /\ RightUboot # "none"
    BY <1>15, UbootRunEffect, Items DEF RightUboot
  <2>2. Smooth' => uboot = RightUboot /\ (dstage = "IPL" => spl = RightSpl)
    BY <1>0, <2>1 DEF KindInv
  <2>3. Smooth' => (dstage = "SPL0" => setup.bl2Para)
    BY <1>0 DEF DeviceInv, Supported
  <2>4. Smooth' => leaving' = "TPL"
    BY <1>15, <2>1, <2>2, <2>3, UbootRunEffect
  <2>. QED
    BY <2>1, <2>4
<1>16. CASE DevLeave \/ DevAppear \/ DevReset
  <2>1. ~Connected' /\ UNCHANGED <<pc, step>>
    BY <1>0, <1>16, BusGone
  <2>2. Left' = Left
    BY <1>0, <2>1, SameStep
  <2>3. Smooth' => ~DevReset
    <3>1. faults \in Nat
      BY <1>0 DEF TypeOK
    <3>. QED
      BY <1>0, <3>1 DEF DevReset
  <2>4. Smooth' /\ (leaving = "TPL" \/ (dstage = "TPL" /\ leaving = "stay"))
            => leaving' = "TPL" \/ (dstage' = "TPL" /\ leaving' = "stay")
    BY <1>16, <2>3 DEF DevLeave, DevAppear
  <2>. QED
    BY <1>0, <2>1, <2>2, <2>4
<1>. QED
  BY Zenon, <1>2, <1>3, <1>4, <1>5, <1>6, <1>7, <1>8, <1>9, <1>10, <1>11, <1>12, <1>13, <1>14,
     <1>15, <1>16 DEF Next, HostNext

\* The burn starts in the inductive invariant.
LEMMA InitInv ==
  ASSUME Init
  PROVE IInv
<1>. USE DEF Init
<1>1. /\ IsSetup(setup) /\ pc = "open" /\ step = 1 /\ handle = 0 /\ enum = 1 /\ leaving = "stay"
      /\ dstage = setup.start /\ spl = "none" /\ uboot = "none" /\ para = "none" /\ faults = 0
      /\ ~hung /\ ~isSecure
  BY SetupsAssumption
<1>2. Left \in {4, 6} /\ step \in 1 .. Len(Steps)
  <2>1. Len(Steps) \in {5, 7}
    BY StepNames
  <2>2. Left = Len(Steps) - 1
    BY <1>1 DEF Left
  <2>3. CASE Len(Steps) = 5
    BY <1>1, <2>2, <2>3
  <2>4. CASE Len(Steps) = 7
    BY <1>1, <2>2, <2>4
  <2>. QED
    BY <2>1, <2>3, <2>4
<1>3. ~Connected
  BY <1>1 DEF Connected
<1>4. TypeOK
  <2>1. isSecure \in BOOLEAN /\ unlocked \in BOOLEAN /\ ddr \in BOOLEAN
    <3>1. (setup.start \in Spls) \in BOOLEAN /\ (setup.start \in Spls \cup {"TPL"}) \in BOOLEAN
      OBVIOUS
    <3>. QED
      BY Zenon, <3>1
  <2>2. /\ pc \in Labels /\ enum \in Nat \ {0} /\ handle \in 0 .. enum
        /\ dstage \in {"IPL", "SPL0", "SPL1", "TPL", "ODD", "OFF"}
        /\ leaving \in {"stay", "IPL", "TPL"} /\ faults \in 0 .. MaxFaults
        /\ spl \in {"none", "DDR", "DDR_ENC"} /\ uboot \in {"none", "UBOOT", "UBOOT_ENC"}
        /\ para \in {"none", "ddr", "check", "run"}
    BY <1>1 DEF Labels, IsSetup
  <2>. QED
    BY Zenon, <1>1, <1>2, <2>1, <2>2 DEF TypeOK
<1>5. StepInv
  BY <1>1, <1>2 DEF StepInv, Labels, PasswordSteps, EraseSteps, SplSteps, UbootSteps
<1>6. DeviceInv
  BY <1>1, <1>2 DEF DeviceInv, Spls
<1>7. LockInv
  BY <1>1, <1>3 DEF LockInv, Locked, Spls
<1>8. StageInv
  BY <1>3 DEF StageInv
<1>9. KindInv
  BY <1>1, <1>3 DEF KindInv, RightImageKind, NeverHangs
<1>10. ArriveInv
  BY <1>1, <1>2, <1>3 DEF ArriveInv
<1>. QED
  BY <1>4, <1>5, <1>6, <1>7, <1>8, <1>9, <1>10 DEF IInv

\* A step that changes nothing keeps the inductive invariant.
LEMMA StutterInv ==
  ASSUME IInv, UNCHANGED vars
  PROVE IInv'
<1>. USE DEF vars, hostVars, devVars, busVars, memory
<1>1. UNCHANGED <<setup, pc, step, handle, isSecure, dstage, enum, leaving, unlocked, oldLoader,
                  ddr, spl, uboot, para, paraOk, hung, faults>>
  OBVIOUS
<1>2. /\ Steps' = Steps /\ Left' = Left /\ RightSpl' = RightSpl /\ RightUboot' = RightUboot
      /\ (Supported' <=> Supported) /\ (Connected' <=> Connected) /\ (Locked' <=> Locked)
      /\ (Known' <=> Known) /\ (Smooth' <=> Smooth) /\ (InStage' <=> InStage)
  BY <1>1 DEF Steps, Left, RightSpl, RightUboot, Supported, Connected, Locked, Known, Smooth,
     InStage
<1>3. TypeOK'
  <2>1. isSecure' \in BOOLEAN /\ unlocked' \in BOOLEAN /\ ddr' \in BOOLEAN
    <3>1. isSecure \in BOOLEAN /\ unlocked \in BOOLEAN /\ ddr \in BOOLEAN
      BY DEF IInv, TypeOK
    <3>. QED
      BY Zenon, <1>1, <3>1
  <2>2. (IsSetup(setup))'
    BY <1>1 DEF IInv, TypeOK, IsSetup
  <2>. QED
    BY <1>1, <1>2, <2>1, <2>2 DEF IInv, TypeOK
<1>4. StepInv' /\ DeviceInv'
  BY <1>1, <1>2 DEF IInv, StepInv, DeviceInv
<1>5. LockInv' /\ StageInv'
  BY <1>1, <1>2 DEF IInv, LockInv, StageInv
<1>6. KindInv'
  BY <1>1, <1>2 DEF IInv, KindInv, RightImageKind, NeverHangs
<1>7. ArriveInv'
  BY <1>1, <1>2 DEF IInv, ArriveInv
<1>. QED
  BY Zenon, <1>3, <1>4, <1>5, <1>6, <1>7 DEF IInv

\* The inductive invariant holds of every burn.
THEOREM Invariance == Spec => []IInv
<1>1. IInv /\ [Next]_vars => IInv'
  <2>1. IInv /\ Next => IInv'
    BY Zenon, TypeNext, StepNext, DeviceNext, LockNext, StageNext, KindNext, ArriveNext DEF IInv
  <2>. QED
    BY <2>1, StutterInv
<1>. QED
  BY InitInv, <1>1, PTL DEF Spec

\* Every variable stays in its type.
THEOREM TypeCorrect == Spec => []TypeOK
<1>1. IInv => TypeOK
  BY DEF IInv
<1>. QED
  BY Invariance, <1>1, PTL

\* Every item sent is of the kind the board takes, with resets at any moment,
\* as long as the register to ask is known (RightImageKind).
THEOREM ItemsFitBoard == Spec => [](Supported => RightImageKind)
<1>1. IInv => (Supported => RightImageKind)
  BY DEF IInv, KindInv
<1>. QED
  BY Invariance, <1>1, PTL

\* BL2 is never run where it was not loaded, with resets at any moment
\* (NeverHangs).
THEOREM NothingHangs == Spec => [](Supported => NeverHangs)
<1>1. IInv => (Supported => NeverHangs)
  BY DEF IInv, KindInv
<1>. QED
  BY Invariance, <1>1, PTL

\* Every exchange meets the device in a stage it is meant for (StagesMatch).
THEOREM ExchangesMatch == Spec => [](Supported => StagesMatch)
<1>1. IInv => (Supported => StagesMatch)
  <2>. SUFFICES ASSUME IInv, Supported, setup.prompt, faults = 0, Connected,
                       setup.start \in Spls => ~setup.secure
                PROVE InStage
    BY DEF StagesMatch
  <2>1. pc = "tpl" => dstage = "TPL"
    BY DEF IInv, ArriveInv, Smooth
  <2>2. pc # "tpl" => InStage
    BY DEF IInv, StageInv
  <2>. QED
    BY <2>1, <2>2 DEF InStage
<1>. QED
  BY Invariance, <1>1, PTL

----------------------------------------------------------------------------
(* The boot contract. *)

\* What the contract sees of a burn: something written to memory, U-Boot in it,
\* U-Boot started.
Written == spl # "none" \/ uboot # "none"
Ready == ddr /\ uboot = RightUboot
Started == leaving = "TPL" \/ dstage = "TPL"

SameLocked == Locked' <=> Locked
SameDdr == ddr' <=> ddr
SameWritten == Written' <=> Written
SameReady == Ready' <=> Ready
SameStarted == Started' <=> Started

\* Formulas that hold together are equal.
LEMMA SameValues ==
  ASSUME TypeOK, TypeOK'
  PROVE /\ SameLocked => (setup.locked /\ ~unlocked)' = (setup.locked /\ ~unlocked)
        /\ SameDdr => ddr' = ddr
        /\ SameWritten => (spl # "none" \/ uboot # "none")' = (spl # "none" \/ uboot # "none")
        /\ SameReady => (ddr /\ uboot = RightUboot)' = (ddr /\ uboot = RightUboot)
        /\ SameStarted =>
              (leaving = "TPL" \/ dstage = "TPL")' = (leaving = "TPL" \/ dstage = "TPL")
<1>1. ddr \in BOOLEAN /\ ddr' \in BOOLEAN
  BY DEF TypeOK
<1>2. SameDdr => ddr' = ddr
  BY Zenon, <1>1 DEF SameDdr
<1>3. SameLocked => (setup.locked /\ ~unlocked)' = (setup.locked /\ ~unlocked)
  BY DEF SameLocked, Locked
<1>4. SameWritten => (spl # "none" \/ uboot # "none")' = (spl # "none" \/ uboot # "none")
  BY DEF SameWritten, Written
<1>5. SameReady => (ddr /\ uboot = RightUboot)' = (ddr /\ uboot = RightUboot)
  BY DEF SameReady, Ready
<1>6. SameStarted => (leaving = "TPL" \/ dstage = "TPL")' = (leaving = "TPL" \/ dstage = "TPL")
  BY DEF SameStarted, Started
<1>. QED
  BY Zenon, <1>2, <1>3, <1>4, <1>5, <1>6

\* A step the contract does not see.
LEMMA AsStutter ==
  ASSUME TypeOK, TypeOK', SameLocked, SameDdr, SameWritten, SameReady, SameStarted
  PROVE UNCHANGED Contract!vars
BY Zenon, SameValues DEF Contract!vars

\* The password was accepted.
LEMMA AsUnlock ==
  ASSUME TypeOK, TypeOK', ~Locked', SameDdr, SameWritten, SameReady, SameStarted
  PROVE Contract!Unlock
<1>1. (setup.locked /\ ~unlocked)' = FALSE
  BY DEF Locked
<1>. QED
  BY Zenon, <1>1, SameValues DEF Contract!Unlock

\* Something was written to memory.
LEMMA AsWrite ==
  ASSUME TypeOK, TypeOK', ~Locked, SameLocked, SameDdr, Written', SameStarted
  PROVE Contract!Write
<1>1. (spl # "none" \/ uboot # "none")' = TRUE
  BY DEF Written
<1>2. (ddr /\ uboot = RightUboot)' \in BOOLEAN /\ ((ddr /\ uboot = RightUboot)' => ddr)
  BY DEF SameDdr
<1>. QED
  BY Zenon, <1>1, <1>2, SameValues DEF Contract!Write, Locked

\* BL2 ran and set up DDR.
LEMMA AsInitDdr ==
  ASSUME TypeOK, TypeOK', ~Locked, SameLocked, ddr => ddr', SameWritten \/ ~Written',
         SameReady, SameStarted
  PROVE Contract!InitDdr
<1>1. ddr' \in {ddr, TRUE}
  <2>1. ddr \in BOOLEAN /\ ddr' \in BOOLEAN
    BY DEF TypeOK
  <2>. QED
    BY Zenon, <2>1
<1>2. (spl # "none" \/ uboot # "none")' \in {(spl # "none" \/ uboot # "none"), FALSE}
  <2>1. ~Written' => (spl # "none" \/ uboot # "none")' = FALSE
    BY DEF Written
  <2>. QED
    BY Zenon, <2>1, SameValues
<1>. QED
  BY Zenon, <1>1, <1>2, SameValues DEF Contract!InitDdr, Locked

\* BL2 started the U-Boot it found.
LEMMA AsStart ==
  ASSUME TypeOK, TypeOK', ~Locked, Ready, SameLocked, SameDdr, SameReady,
         SameWritten \/ ~Written', Started'
  PROVE Contract!Start
<1>1. (leaving = "TPL" \/ dstage = "TPL")' = TRUE
  BY DEF Started
<1>2. (spl # "none" \/ uboot # "none")' \in {(spl # "none" \/ uboot # "none"), FALSE}
  <2>1. ~Written' => (spl # "none" \/ uboot # "none")' = FALSE
    BY DEF Written
  <2>. QED
    BY Zenon, <2>1, SameValues
<1>. QED
  BY Zenon, <1>1, <1>2, SameValues DEF Contract!Start, Locked, Ready

\* The board is gone.
LEMMA AsStop ==
  ASSUME TypeOK, TypeOK', SameLocked, SameDdr, SameWritten, SameReady, ~Started'
  PROVE Contract!Stop
<1>1. (leaving = "TPL" \/ dstage = "TPL")' = FALSE
  BY DEF Started
<1>. QED
  BY Zenon, <1>1, SameValues DEF Contract!Stop

\* The board comes back in its boot ROM.
LEMMA AsPowerUp ==
  ASSUME ddr' = FALSE, ~Written', ~Ready', ~Started'
  PROVE Contract!PowerUp
<1>1. (leaving = "TPL" \/ dstage = "TPL")' = FALSE
  BY DEF Started
<1>2. (spl # "none" \/ uboot # "none")' = FALSE
  BY DEF Written
<1>3. (ddr /\ uboot = RightUboot)' = FALSE
  BY DEF Ready
<1>4. (setup.locked /\ ~unlocked)' \in BOOLEAN
  OBVIOUS
<1>. QED
  BY Zenon, <1>1, <1>2, <1>3, <1>4 DEF Contract!PowerUp

\* What is the same before and after a step looks the same to the contract.
LEMMA Sees ==
  ASSUME UNCHANGED setup
  PROVE /\ unlocked' = unlocked => SameLocked
        /\ ddr' = ddr => SameDdr
        /\ spl' = spl /\ uboot' = uboot => SameWritten
        /\ ddr' = ddr /\ uboot' = uboot => SameReady
        /\ leaving' = leaving /\ dstage' = dstage => SameStarted
BY SameKinds DEF SameLocked, SameDdr, SameWritten, SameReady, SameStarted, Locked, Written,
   Ready, Started

\* The start of a burn is a start of the contract.
LEMMA ContractInit ==
  ASSUME Init
  PROVE Contract!Init
<1>1. IInv
  BY InitInv
<1>2. ddr \in BOOLEAN
  BY <1>1 DEF IInv, TypeOK
<1>3. (spl # "none" \/ uboot # "none") = FALSE
  BY DEF Init
<1>4. (ddr /\ uboot = RightUboot) = FALSE
  <2>1. uboot = "none" /\ RightUboot # "none"
    BY Items DEF Init, RightUboot
  <2>. QED
    BY <2>1
<1>5. (leaving = "TPL" \/ dstage = "TPL") => ddr
  BY DEF Init
<1>6. (setup.locked /\ ~unlocked) \in BOOLEAN /\ (leaving = "TPL" \/ dstage = "TPL") \in BOOLEAN
  OBVIOUS
<1>. QED
  BY Zenon, <1>2, <1>3, <1>4, <1>5, <1>6 DEF Contract!Init

\* Exchanges that leave memory and the bus alone.
LEMMA ContractQuiet ==
  ASSUME IInv, TypeOK',
         Password \/ Unlocked \/ Erase \/ IsOld \/ EraseLoader \/ Reset \/ Secure \/ Spl \/ SplPara
           \/ Uboot \/ Tpl \/ OpenDevice \/ UsbError
  PROVE UNCHANGED Contract!vars
<1>. USE DEF At, devVars, hostVars, busVars, memory
<1>0. TypeOK
  BY DEF IInv
<1>1. CASE ~Reset
  <2>1. UNCHANGED <<setup, unlocked, ddr, spl, uboot, leaving, dstage>>
    BY <1>1 DEF Password, Unlocked, Erase, IsOld, EraseLoader, Secure, Spl, SplPara, Uboot, Tpl,
       OpenDevice, UsbError
  <2>. QED
    BY <1>0, <2>1, Sees, AsStutter
<1>2. CASE Reset
  <2>1. UNCHANGED <<setup, unlocked, ddr, spl, uboot, dstage>>
        /\ (leaving' = leaving \/ (Connected /\ pc = "reset"))
    BY <1>2 DEF Reset
  <2>2. Connected /\ pc = "reset" => dstage = "TPL"
    BY DEF IInv, StageInv, InStage
  <2>3. SameStarted
    BY <2>1, <2>2 DEF SameStarted, Started
  <2>. QED
    BY <1>0, <2>1, <2>3, Sees, AsStutter
<1>. QED
  BY <1>1, <1>2

\* Only the right password unlocks a board.
LEMMA ContractUnlock ==
  ASSUME IInv, TypeOK', Unlock
  PROVE [Contract!Unlock]_(Contract!vars)
<1>1. TypeOK
  BY DEF IInv
<1>2. UNCHANGED <<setup, ddr, spl, uboot, leaving, dstage>> /\ pc = "unlock"
  BY DEF Unlock, At, busVars, memory
<1>3. CASE unlocked'
  <2>1. ~Locked'
    BY <1>3 DEF Locked
  <2>. QED
    BY <1>1, <1>2, <2>1, Sees, AsUnlock
<1>4. CASE ~unlocked'
  <2>1. ~unlocked
    BY <1>2 DEF IInv, LockInv
  <2>2. SameLocked
    BY <1>2, <1>4, <2>1 DEF SameLocked, Locked
  <2>. QED
    BY <1>1, <1>2, <2>2, Sees, AsStutter
<1>. QED
  BY <1>3, <1>4

\* What is loaded is loaded to an unlocked board, and U-Boot to working memory.
LEMMA ContractLoad ==
  ASSUME IInv, TypeOK', SplLoad \/ Amlc \/ UbootLoad \/ DdrAgain \/ CheckPara
  PROVE [Contract!Write]_(Contract!vars)
<1>. USE DEF At, devVars, hostVars, busVars, memory
<1>1. TypeOK /\ Connected
  BY DEF IInv, SplLoad, Amlc, UbootLoad, DdrAgain, CheckPara
<1>2. UNCHANGED <<setup, ddr, unlocked, leaving, dstage>>
  BY DEF SplLoad, Amlc, UbootLoad, DdrAgain, CheckPara
<1>3. ~Locked
  <2>1. pc \in {"splLoad", "amlc", "ubootLoad", "ddrAgain", "checkPara"}
    BY DEF SplLoad, Amlc, UbootLoad, DdrAgain, CheckPara
  <2>2. dstage \in {"IPL"} \cup Spls
    BY <1>1, <2>1 DEF IInv, StageInv, InStage, Spls
  <2>. QED
    BY <1>1, <2>1, <2>2 DEF IInv, LockInv, SplSteps, UbootSteps
<1>4. (spl' = spl /\ uboot' = uboot) \/ Written'
  <2>1. CASE SplLoad \/ DdrAgain \/ CheckPara
    BY <2>1, Items DEF SplLoad, DdrAgain, CheckPara, ReloadSpl, Written
  <2>2. CASE Amlc \/ UbootLoad
    <3>1. ddr
      BY <1>1, <2>2 DEF IInv, ArriveInv, StageInv, InStage, UbootSteps, Amlc, UbootLoad
    <3>. QED
      BY <2>2, <3>1, Items DEF Amlc, UbootLoad, LoadUboot, Written
  <2>. QED
    BY <2>1, <2>2
<1>. QED
  BY <1>1, <1>2, <1>3, <1>4, Sees, AsWrite, AsStutter

\* The first run of the SPL sets up DDR or loses the board.
LEMMA ContractSpl ==
  ASSUME IInv, TypeOK', SplRun \/ SplStage
  PROVE Contract!InitDdr \/ Contract!Stop
<1>1. TypeOK /\ Connected /\ pc \in {"splRun", "splStage"} /\ UNCHANGED <<setup, unlocked, uboot>>
  BY SplRunEffect, SplStageEffect DEF IInv
<1>2. Left = 2 /\ uboot = "none" /\ leaving # "TPL" /\ RightUboot # "none"
  BY <1>1, FirstRun, Items DEF IInv, DeviceInv, RightUboot
<1>3. dstage \in {"IPL"} \cup Spls
  BY <1>1 DEF IInv, StageInv, InStage, Spls
<1>4. ~Locked
  BY <1>1, <1>3 DEF IInv, LockInv, SplSteps
<1>5. ~Ready /\ ~Ready' /\ SameReady /\ ~Started
  BY <1>1, <1>2, <1>3, SameKinds DEF Ready, SameReady, Started, Spls
<1>6. CASE SplRun /\ Lost
  <2>1. ~Started' /\ UNCHANGED <<ddr, spl>>
    BY <1>6 DEF Lost, Started
  <2>. QED
    BY <1>1, <1>5, <2>1, Sees, AsStop
<1>7. CASE SplRun /\ ~Lost
  <2>1. spl' = "none" /\ ddr' /\ dstage' = setup.afterSpl /\ leaving' = leaving
    BY <1>7, SplRunEffect
  <2>2. ~Written' /\ ~Started' /\ SameStarted
    BY <1>1, <1>2, <1>5, <2>1 DEF Written, Started, SameStarted, IsSetup, TypeOK
  <2>. QED
    BY <1>1, <1>4, <1>5, <2>1, <2>2, Sees, AsInitDdr
<1>8. CASE SplStage
  <2>1. UNCHANGED <<spl, dstage, leaving>> /\ (ddr => ddr')
    BY <1>8, SplStageEffect
  <2>. QED
    BY <1>1, <1>4, <1>5, <2>1, Sees, AsInitDdr
<1>. QED
  BY <1>6, <1>7, <1>8

\* The second and the third run of the SPL start U-Boot only where it is.
LEMMA ContractRun ==
  ASSUME IInv, TypeOK', CheckRun \/ UbootRun
  PROVE Contract!InitDdr \/ Contract!Start \/ Contract!Stop
<1>1. /\ TypeOK /\ Connected /\ pc \in {"checkRun", "ubootRun"} /\ dstage \in {"IPL", "SPL0"}
      /\ UNCHANGED <<setup, unlocked, uboot>>
  BY CheckRunEffect, UbootRunEffect DEF IInv
<1>2. ~Locked /\ Left = 1
  BY <1>1 DEF IInv, LockInv, UbootSteps, Spls, StepInv
<1>3. leaving # "TPL" /\ ~Started /\ (uboot # "none" => ddr) /\ RightUboot # "none"
  BY <1>1, <1>2, Items DEF IInv, DeviceInv, Started, RightUboot
<1>4. CASE Lost
  <2>1. ~Started' /\ UNCHANGED <<ddr, spl>>
    BY <1>4 DEF Lost, Started
  <2>. QED
    BY <1>1, <2>1, Sees, AsStop
<1>5. CASE spl' \in {"none", spl} /\ UNCHANGED <<dstage, ddr>>
           /\ leaving' \in {leaving, IF uboot = RightUboot THEN "TPL" ELSE "IPL"}
  <2>1. SameWritten \/ ~Written'
    BY <1>1, <1>5 DEF SameWritten, Written
  <2>2. CASE Started'
    <3>1. Ready
      BY <1>1, <1>3, <1>5, <2>2 DEF Started, Ready
    <3>. QED
      BY <1>1, <1>2, <1>5, <2>1, <2>2, <3>1, Sees, AsStart
  <2>3. CASE ~Started'
    <3>1. SameStarted
      BY <1>3, <2>3 DEF SameStarted
    <3>. QED
      BY <1>1, <1>2, <1>5, <2>1, <3>1, Sees, AsInitDdr
  <2>. QED
    BY <2>2, <2>3
<1>6. CASE uboot = "none" /\ spl' = "none" /\ ddr' /\ dstage' = setup.afterSpl
           /\ leaving' = leaving
  <2>1. ~Written' /\ SameReady /\ SameStarted
    BY <1>1, <1>3, <1>6, SameKinds
       DEF Written, Ready, SameReady, Started, SameStarted, IsSetup, TypeOK
  <2>. QED
    BY <1>1, <1>2, <1>6, <2>1, Sees, AsInitDdr
<1>. QED
  BY <1>4, <1>5, <1>6, CheckRunEffect, UbootRunEffect

\* BL2 starts what it asked for piece by piece.
LEMMA ContractAmlcEnd ==
  ASSUME IInv, TypeOK', AmlcEnd
  PROVE [Contract!Start]_(Contract!vars)
<1>1. /\ TypeOK /\ Connected /\ pc = "amlcEnd"
      /\ UNCHANGED <<setup, unlocked, uboot, spl, ddr, dstage>>
      /\ leaving' = IF uboot = "none" THEN leaving
                    ELSE IF uboot = RightUboot THEN "TPL" ELSE "IPL"
  BY DEF IInv, AmlcEnd, At, memory
<1>2. dstage = "SPL1" /\ Left = 1
  BY <1>1 DEF IInv, StageInv, InStage, StepInv, UbootSteps
<1>3. ~Locked /\ leaving # "TPL" /\ ~Started /\ (uboot # "none" => ddr)
  BY <1>1, <1>2 DEF IInv, LockInv, DeviceInv, Spls, Started
<1>4. CASE Started'
  <2>1. Ready
    BY <1>1, <1>2, <1>3, <1>4, Items DEF Started, Ready, RightUboot
  <2>. QED
    BY <1>1, <1>3, <1>4, <2>1, Sees, AsStart
<1>5. CASE ~Started'
  <2>1. SameStarted
    BY <1>3, <1>5 DEF SameStarted
  <2>. QED
    BY <1>1, <2>1, Sees, AsStutter
<1>. QED
  BY <1>4, <1>5

\* A board that leaves stops U-Boot, and one that comes back has forgotten all.
LEMMA ContractBus ==
  ASSUME IInv, TypeOK', DevLeave \/ DevAppear \/ DevReset
  PROVE [Contract!Stop \/ Contract!PowerUp]_(Contract!vars)
<1>. USE DEF hostVars, busVars, memory
<1>1. TypeOK /\ RightUboot' = RightUboot /\ RightUboot # "none" /\ UNCHANGED setup
  BY BusGone, SameKinds, Items DEF IInv, RightUboot
<1>2. CASE DevLeave \/ DevReset
  <2>1. UNCHANGED <<unlocked, ddr, spl, uboot>> /\ dstage' = "OFF"
        /\ (leaving' = leaving \/ leaving' = "IPL") /\ dstage # "OFF"
    BY <1>2 DEF DevLeave, DevReset
  <2>2. CASE Started'
    <3>1. SameStarted
      BY <2>1, <2>2 DEF SameStarted, Started
    <3>. QED
      BY <1>1, <2>1, <3>1, Sees, AsStutter
  <2>3. CASE ~Started'
    BY <1>1, <2>1, <2>3, Sees, AsStop
  <2>. QED
    BY <2>2, <2>3
<1>3. CASE DevAppear /\ leaving = "IPL"
  <2>1. /\ ddr' = FALSE /\ spl' = "none" /\ uboot' = "none" /\ dstage' = "IPL"
        /\ leaving' = "stay"
    BY <1>3 DEF DevAppear, ForgetRam
  <2>2. ~Written' /\ ~Ready' /\ ~Started'
    BY <1>1, <2>1 DEF Written, Ready, Started
  <2>. QED
    BY <2>1, <2>2, AsPowerUp
<1>4. CASE DevAppear /\ leaving # "IPL"
  <2>1. UNCHANGED <<unlocked, ddr, spl, uboot>> /\ dstage' = "TPL" /\ leaving = "TPL"
    BY <1>1, <1>4 DEF DevAppear, TypeOK
  <2>2. SameStarted
    BY <2>1 DEF SameStarted, Started
  <2>. QED
    BY <1>1, <2>1, <2>2, Sees, AsStutter
<1>. QED
  BY <1>2, <1>3, <1>4

\* A locked board is not written to, and U-Boot is started only where it is:
\* the burn keeps the boot contract (BootKeepsContract).
THEOREM RefinesContract == Spec => BootKeepsContract
<1>1. Init => Contract!Init
  BY ContractInit
<1>2. IInv /\ IInv' /\ [Next]_vars => [Contract!Next]_(Contract!vars)
  <2>1. ASSUME IInv, TypeOK', Next
        PROVE [Contract!Next]_(Contract!vars)
    BY Zenon, <2>1, ContractQuiet, ContractUnlock, ContractLoad, ContractSpl, ContractRun,
       ContractAmlcEnd, ContractBus DEF Next, HostNext, Contract!Next
  <2>2. ASSUME IInv, TypeOK', UNCHANGED vars
        PROVE UNCHANGED Contract!vars
    <3>1. UNCHANGED <<setup, unlocked, ddr, spl, uboot, leaving, dstage>>
      BY <2>2 DEF vars, devVars, busVars, memory
    <3>2. TypeOK
      BY <2>2 DEF IInv
    <3>. QED
      BY <2>2, <3>1, <3>2, Sees, AsStutter
  <2>3. IInv' => TypeOK'
    BY DEF IInv
  <2>. QED
    BY <2>1, <2>2, <2>3
<1>. QED
  BY <1>1, <1>2, Invariance, PTL DEF Spec, BootKeepsContract, Contract!Spec
=============================================================================
