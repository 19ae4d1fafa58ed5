---------------------------- MODULE OptimusBoot ----------------------------
(***************************************************************************)
(* The first phase of an Optimus burn: do_burn of optimus.py runs the      *)
(* steps of get_burn_steps that bring a board from the boot ROM (IPL), or  *)
(* from a running U-Boot (TPL), to the U-Boot of the image.                *)
(*                                                                         *)
(* Every host action is one exchange with the device and the branch taken  *)
(* on its answer; between two of them the device may leave the bus, come   *)
(* back in another stage, or reset.  A handle is the number of the         *)
(* enumeration it was opened in.                                           *)
(***************************************************************************)
EXTENDS Integers, Sequences

CONSTANTS
    Setups,         \* boards, images and options considered
    MaxFaults       \* bound on device resets and on data BL2 cannot use

ASSUME BootAssumption == MaxFaults \in Nat

\* "start" is the stage the board is found in, "afterSpl" the one the SPL leaves it
\* in; "encReg" tells whether the platform names an encrypt register, names one
\* that cannot be read in IPL, or names one for each chip.
IsSetup(s) ==
    /\ s.start \in {"IPL", "SPL0", "SPL1", "TPL", "ODD", "OFF"}
    /\ s.afterSpl \in {"IPL", "SPL0", "SPL1"}
    /\ s.secure \in BOOLEAN
    /\ s.encReg \in {"given", "invalid", "byChip"}

ASSUME SetupsAssumption == \A s \in Setups : IsSetup(s)

VARIABLES
    setup,
    pc,             \* exchange the host is at, inside step number "step"
    step,
    handle,         \* enumeration the host has open
    isSecure,       \* SharedData
    dstage,         \* "IPL", "SPL0", "SPL1", "TPL", another one ("ODD"), or
                    \* "OFF" the bus
    enum,           \* number of the current enumeration
    leaving,        \* stage the device is about to restart in
    unlocked,       \* the password was accepted
    oldLoader,      \* the bootloader in storage has to be erased
    ddr,            \* DDR is initialised
    spl, uboot,     \* items at DDRLoad and UbootLoad
    para, paraOk,   \* command at bl2ParaAddr, and BL2's mark that it is done
    hung,           \* the device ran something it could not run
    faults

hostVars == <<pc, step, handle, isSecure>>
memory == <<ddr, spl, uboot, para, paraOk, hung>>
busVars == <<dstage, enum, leaving>>
devVars == <<busVars, unlocked, oldLoader, memory>>
vars == <<setup, hostVars, devVars, faults>>

Ended == {"done", "failed"}

\* Mutant of Steps: the password is not asked for after the reset.
StepsOnePassword ==
    IF setup.eraseLoader
    THEN <<"password", "erase", "secure", "spl", "uboot", "tpl">>
    ELSE <<"password", "secure", "spl", "uboot", "tpl">>

\* get_burn_steps, up to the first command for U-Boot.
Steps ==
    IF setup.eraseLoader
    THEN <<"password", "erase", "password", "secure", "spl", "uboot", "tpl">>
    ELSE <<"password", "secure", "spl", "uboot", "tpl">>

\* _update_part.
Encrypted == [DDR |-> "DDR_ENC", UBOOT |-> "UBOOT_ENC"]
Signed(item, sb) == IF sb THEN Encrypted[item] ELSE item

\* Stages of an SPL that runs: whoever started it got past the boot ROM.
Spls == {"SPL0", "SPL1"}

Init ==
    /\ setup \in Setups
    /\ pc = "open"
    /\ step = 1
    /\ handle = 0
    /\ isSecure = FALSE
    /\ dstage = setup.start
    /\ enum = 1
    /\ leaving = "stay"
    /\ unlocked = (setup.start \in Spls)
    /\ oldLoader = setup.oldLoader
    /\ ddr = (setup.start \in Spls \cup {"TPL"})
    /\ spl = "none"
    /\ uboot = "none"
    /\ para = "none"
    /\ paraOk = FALSE
    /\ hung = FALSE
    /\ faults = 0

Connected == dstage # "OFF" /\ handle = enum

\* An exchange of the current step with the device that is open.
At(label) ==
    /\ pc = label
    /\ Connected
    /\ UNCHANGED <<setup, handle, faults>>

Goto(label) == pc' = label /\ UNCHANGED step
Fail == Goto("failed")

\* do_burn: the next step, on the same handle unless the step returned True.
FinishStep(reopen) ==
    /\ step' = step + 1
    /\ pc' = IF reopen THEN "open" ELSE Steps[step + 1]

\* wait_device: the first device that answers identify, in whatever stage; one
\* that is prompt has left the bus before the host looks.
OpenDevice ==
    /\ pc = "open"
    /\ dstage # "OFF"
    /\ setup.prompt => leaving = "stay"
    /\ handle' = enum
    /\ Goto(Steps[step])
    /\ UNCHANGED <<setup, isSecure, devVars, faults>>

\* Mutant of UsbError: wait_device waits for ever.
UsbErrorNoTimeout ==
    /\ pc \notin Ended \cup {"reset", "open"} /\ ~Connected
    /\ Fail
    /\ UNCHANGED <<setup, handle, isSecure, devVars, faults>>

\* TimeoutError of wait_device, USBError of everything else.
UsbError ==
    /\ pc \notin Ended \cup {"reset"}
    /\ IF pc = "open" THEN dstage = "OFF" /\ leaving = "stay" ELSE ~Connected
    /\ Fail
    /\ UNCHANGED <<setup, handle, isSecure, devVars, faults>>

----------------------------------------------------------------------------
(* What the device does with what it is told to run. *)

RightSpl == Signed("DDR", setup.secure)
RightUboot == Signed("UBOOT", setup.secure)

Hang ==
    /\ dstage' = "OFF" /\ leaving' = "stay" /\ hung' = TRUE
    /\ UNCHANGED <<enum, ddr, spl, uboot, para, paraOk>>

\* BL2 carries out the command it finds: set up DDR, check U-Boot, start it.
Execute(command) ==
    IF command = "ddr"
    THEN ddr' = TRUE /\ paraOk' = setup.bl2Para /\ UNCHANGED leaving
    ELSE IF command = "check"
    THEN paraOk' = (uboot = RightUboot) /\ UNCHANGED <<ddr, leaving>>
    ELSE /\ leaving' = IF uboot = RightUboot THEN "TPL" ELSE "IPL"
         /\ UNCHANGED <<ddr, paraOk>>

\* A board without parameters takes the command from what is loaded.
Command ==
    IF setup.bl2Para THEN para ELSE IF uboot = "none" THEN "ddr" ELSE "run"

\* Running the SPL from the ROM uses it up; where it leaves the board depends
\* on the SoC.
RunInIpl ==
    IF spl # RightSpl THEN Hang
    ELSE /\ Execute(Command)
         /\ spl' = "none"
         /\ dstage' = IF Command = "ddr" THEN setup.afterSpl ELSE dstage
         /\ UNCHANGED <<enum, uboot, para, hung>>

\* A resident SPL executes the parameters in place.
RunPara ==
    IF ~setup.bl2Para THEN Hang
    ELSE Execute(para) /\ UNCHANGED <<dstage, enum, spl, uboot, para, hung>>

----------------------------------------------------------------------------
(* BurnStepCheckPassword and BurnStepEraseBootloader. *)

\* The ROM tells whether the board is locked; U-Boot has nothing to say.
Password ==
    /\ At("password")
    /\ IF dstage # "IPL" \/ ~setup.locked \/ unlocked THEN FinishStep(FALSE)
       ELSE IF setup.password = "none" THEN Fail ELSE Goto("unlock")
    /\ UNCHANGED <<isSecure, devVars>>

Unlock ==
    /\ At("unlock")
    /\ unlocked' = (setup.password = "right")
    /\ Goto("unlocked")
    /\ UNCHANGED <<isSecure, busVars, oldLoader, memory>>

Unlocked ==
    /\ At("unlocked")
    /\ IF unlocked THEN FinishStep(FALSE) ELSE Fail
    /\ UNCHANGED <<isSecure, devVars>>

Erase ==
    /\ At("erase")
    /\ IF dstage = "IPL" THEN FinishStep(FALSE)
       ELSE IF dstage = "TPL" THEN Goto("isOld") ELSE Fail
    /\ UNCHANGED <<isSecure, devVars>>

\* The echo, low_power and bootloader_is_old commands.
IsOld ==
    /\ At("isOld")
    /\ IF oldLoader THEN Goto("eraseLoader") ELSE FinishStep(FALSE)
    /\ UNCHANGED <<isSecure, devVars>>

EraseLoader ==
    /\ At("eraseLoader")
    /\ oldLoader' = FALSE
    /\ Goto("reset")
    /\ UNCHANGED <<isSecure, busVars, unlocked, memory>>

\* Without a loader in storage the reset ends in the boot ROM; that the device
\* does not answer any more is no error here.
Reset ==
    /\ pc = "reset"
    /\ leaving' = IF Connected THEN "IPL" ELSE leaving
    /\ FinishStep(TRUE)
    /\ UNCHANGED <<setup, handle, faults>>
    /\ UNCHANGED <<isSecure, dstage, enum, unlocked, oldLoader, memory>>

----------------------------------------------------------------------------
(* BurnStepBoardIsSecure. *)

\* Mutant of ReadsRegister: the register is not read in IPL.
ReadsInTplOnly == dstage = "TPL"

\* The encrypt register is read in IPL and TPL; in any other stage the board
\* is taken for one that is not secure.
ReadsRegister == dstage \in {"IPL", "TPL"}

\* The secure bit as the code finds it.  Choosing the register by chip id never
\* matches (a tuple is compared with a number), and address 0 is read instead,
\* where any value may stand.
SecureBits ==
    IF ~ReadsRegister THEN {FALSE}
    ELSE IF setup.encReg = "given" THEN {setup.secure} ELSE BOOLEAN

Secure ==
    /\ At("secure")
    /\ IF dstage = "IPL" /\ setup.encReg = "invalid"
       THEN Fail /\ UNCHANGED isSecure
       ELSE isSecure' \in SecureBits /\ FinishStep(FALSE)
    /\ UNCHANGED devVars

----------------------------------------------------------------------------
(* BurnStepDownloadSPL. *)

WritePara(command) ==
    IF setup.bl2Para THEN para' = command /\ paraOk' = FALSE
    ELSE UNCHANGED <<para, paraOk>>

\* Mutant of ParaDone: parameters are checked where there are none.
ParaAlwaysChecked == paraOk

\* _check_para.
ParaDone == setup.bl2Para => paraOk

\* Mutant of Spl: a stage that is not known is passed on to the next step.
SplAnyStage ==
    /\ At("spl")
    /\ IF dstage # "IPL" THEN FinishStep(FALSE)
       ELSE IF Signed("DDR", isSecure) \notin setup.items THEN Fail
       ELSE Goto("splLoad")
    /\ UNCHANGED <<isSecure, devVars>>

Spl ==
    /\ At("spl")
    /\ IF dstage \in Spls \cup {"TPL"} THEN FinishStep(FALSE)
       ELSE IF dstage # "IPL" \/ Signed("DDR", isSecure) \notin setup.items THEN Fail
       ELSE Goto("splLoad")
    /\ UNCHANGED <<isSecure, devVars>>

\* _write_regs, _download_file and _write_para.
SplLoad ==
    /\ At("splLoad")
    /\ spl' = Signed("DDR", isSecure)
    /\ WritePara("ddr")
    /\ Goto("splRun")
    /\ UNCHANGED <<isSecure, busVars, unlocked, oldLoader, ddr, uboot, hung>>

SplRun ==
    /\ At("splRun")
    /\ RunInIpl
    /\ Goto("splStage")
    /\ UNCHANGED <<isSecure, unlocked, oldLoader>>

SplStage ==
    /\ At("splStage")
    /\ IF dstage = "SPL0" /\ setup.bl2Para
       THEN RunPara ELSE UNCHANGED <<busVars, memory>>
    /\ IF dstage = "TPL" THEN Fail ELSE Goto("splPara")
    /\ UNCHANGED <<isSecure, unlocked, oldLoader>>

SplPara ==
    /\ At("splPara")
    /\ IF ParaDone THEN FinishStep(FALSE) ELSE Fail
    /\ UNCHANGED <<isSecure, devVars>>

----------------------------------------------------------------------------
(* BurnStepDownloadUboot. *)

Uboot ==
    /\ At("uboot")
    /\ IF Signed("UBOOT", isSecure) \notin setup.items THEN Fail
       ELSE IF dstage = "TPL" THEN FinishStep(FALSE)
       ELSE IF dstage = "SPL1" THEN Goto("amlc")
       ELSE Goto("ubootLoad")           \* any other minor stage below major 2
    /\ UNCHANGED <<isSecure, devVars>>

\* Mutant of LoadUboot: the SPL again.
LoadDdr == uboot' = IF ddr THEN Signed("DDR", isSecure) ELSE "none"

\* Memory behind an uninitialised DDR controller keeps nothing.
LoadUboot == uboot' = IF ddr THEN Signed("UBOOT", isSecure) ELSE "none"

\* _download_amlc_data, whose exchanges are those of AmlcBoot: BL2 gets all of
\* it, or repeats a request for data it could not use, which ends the loop as
\* well, or a transfer fails and the call with it.
Amlc ==
    /\ pc = "amlc" /\ Connected
    /\ \/ LoadUboot /\ Goto("amlcEnd") /\ UNCHANGED faults
       \/ /\ faults < MaxFaults /\ faults' = faults + 1
          /\ Goto("amlcEnd") \/ Fail
          /\ UNCHANGED uboot
    /\ UNCHANGED <<setup, handle, isSecure, busVars, unlocked, oldLoader, ddr, spl,
                   para, paraOk, hung>>

\* BL2 starts what it has by itself; the host only sees the repeated request.
AmlcEnd ==
    /\ At("amlcEnd")
    /\ leaving' = IF uboot = "none" THEN leaving
                  ELSE IF uboot = RightUboot THEN "TPL" ELSE "IPL"
    /\ FinishStep(TRUE)
    /\ UNCHANGED <<isSecure, dstage, enum, unlocked, oldLoader, memory>>

UbootLoad ==
    /\ At("ubootLoad")
    /\ LoadUboot
    /\ Goto("ddrAgain")
    /\ UNCHANGED <<isSecure, busVars, unlocked, oldLoader, ddr, spl, para, paraOk, hung>>

\* Mutant of ReloadSpl: it is not loaded again.
SplKept == UNCHANGED spl

\* In IPL the SPL has to be loaded again before the next run.
ReloadSpl == spl' = IF dstage = "IPL" THEN Signed("DDR", isSecure) ELSE spl

DdrAgain ==
    /\ At("ddrAgain")
    /\ ReloadSpl
    /\ WritePara("check")
    /\ Goto(IF setup.bl2Para THEN "checkRun" ELSE "ubootRun")
    /\ UNCHANGED <<isSecure, busVars, unlocked, oldLoader, ddr, uboot, hung>>

\* _run: by way of the ROM or of the resident SPL.
RunUboot ==
    IF dstage = "IPL" THEN RunInIpl
    ELSE IF dstage = "SPL0" THEN RunPara
    ELSE UNCHANGED <<busVars, memory>>

CheckRun ==
    /\ At("checkRun")
    /\ RunUboot
    /\ Goto("checkPara")
    /\ UNCHANGED <<isSecure, unlocked, oldLoader>>

\* The rest of _update_ddr, and the parameters of the final run.
CheckPara ==
    /\ At("checkPara")
    /\ IF ParaDone
       THEN ReloadSpl /\ WritePara("run") /\ Goto("ubootRun")
       ELSE Fail /\ UNCHANGED <<spl, para, paraOk>>
    /\ UNCHANGED <<isSecure, busVars, unlocked, oldLoader, ddr, uboot, hung>>

UbootRun ==
    /\ At("ubootRun")
    /\ RunUboot
    /\ FinishStep(TRUE)
    /\ UNCHANGED <<isSecure, unlocked, oldLoader>>

\* The first BurnStepCommand: only U-Boot understands it.
Tpl ==
    /\ At("tpl")
    /\ IF dstage = "TPL" THEN Goto("done") ELSE Fail
    /\ UNCHANGED <<isSecure, devVars>>

----------------------------------------------------------------------------
(* The bus. *)

DevLeave ==
    /\ dstage # "OFF" /\ leaving # "stay"
    /\ dstage' = "OFF"
    /\ UNCHANGED <<setup, hostVars, enum, leaving, unlocked, oldLoader, memory, faults>>

ForgetRam ==
    spl' = "none" /\ uboot' = "none" /\ para' = "none" /\ paraOk' = FALSE

DevAppear ==
    /\ dstage = "OFF" /\ leaving # "stay"
    /\ dstage' = leaving
    /\ leaving' = "stay"
    /\ enum' = enum + 1
    /\ IF leaving = "IPL"
       THEN ForgetRam /\ ddr' = FALSE /\ unlocked' = FALSE
       ELSE UNCHANGED <<spl, uboot, para, paraOk, ddr, unlocked>>
    /\ UNCHANGED <<setup, hostVars, oldLoader, hung, faults>>

\* A reset nobody asked for ends in the boot ROM.
DevReset ==
    /\ faults < MaxFaults /\ faults' = faults + 1
    /\ dstage # "OFF"
    /\ dstage' = "OFF" /\ leaving' = "IPL"
    /\ UNCHANGED <<setup, hostVars, enum, unlocked, oldLoader, memory>>

HostNext ==
    \/ OpenDevice \/ UsbError \/ Password \/ Unlock \/ Unlocked \/ Erase
    \/ IsOld \/ EraseLoader \/ Reset \/ Secure \/ Spl \/ SplLoad \/ SplRun
    \/ SplStage \/ SplPara \/ Uboot \/ Amlc \/ AmlcEnd \/ UbootLoad \/ DdrAgain
    \/ CheckRun \/ CheckPara \/ UbootRun \/ Tpl

Next == HostNext \/ DevLeave \/ DevAppear \/ DevReset

Spec == Init /\ [][Next]_vars

\* The host runs on, and a device that restarts comes back.
Fairness == WF_vars(HostNext) /\ WF_vars(DevLeave) /\ WF_vars(DevAppear)

FairSpec == Spec /\ Fairness

----------------------------------------------------------------------------

\* The exchanges of each step.
PasswordSteps == {"password", "unlock", "unlocked"}
EraseSteps == {"erase", "isOld", "eraseLoader", "reset"}
SplSteps == {"spl", "splLoad", "splRun", "splStage", "splPara"}
UbootSteps == {"uboot", "amlc", "amlcEnd", "ubootLoad", "ddrAgain", "checkRun",
               "checkPara", "ubootRun"}
Labels == {"open", "secure", "tpl"} \cup Ended \cup PasswordSteps \cup EraseSteps
            \cup SplSteps \cup UbootSteps

\* Every variable stays in its type.
TypeOK ==
    /\ IsSetup(setup) /\ pc \in Labels
    /\ step \in 1 .. Len(Steps)
    /\ enum \in Nat \ {0} /\ handle \in 0 .. enum
    /\ isSecure \in BOOLEAN /\ unlocked \in BOOLEAN /\ ddr \in BOOLEAN
    /\ dstage \in {"IPL", "SPL0", "SPL1", "TPL", "ODD", "OFF"}
    /\ leaving \in {"stay", "IPL", "TPL"}
    /\ spl \in {"none", "DDR", "DDR_ENC"}
    /\ uboot \in {"none", "UBOOT", "UBOOT_ENC"}
    /\ para \in {"none", "ddr", "check", "run"}
    /\ faults \in 0 .. MaxFaults

\* A board is sent encrypted items when it is secure and plain ones otherwise,
\* also when it came back from a reset as another stage; only one found in its
\* SPL, where nobody looks, is always sent the plain U-Boot
\* (BurnStepBoardIsSecure and _update_part).
RightImageKind ==
    /\ spl # "none" => spl = RightSpl
    /\ uboot # "none" =>
          uboot = RightUboot \/ (setup.start \in Spls /\ uboot = "UBOOT")

\* No run is given control without a fresh SPL of the right kind where the
\* SoC needs one: every run in IPL uses up the SPL loaded before it.
NeverHangs == ~hung

\* Stages an exchange is meant for (optimus.py:36-51, 380-418, 482-529).
InStage ==
    /\ pc \in {"isOld", "eraseLoader", "reset", "tpl"} => dstage = "TPL"
    /\ pc \in {"splLoad", "splRun", "unlock"} => dstage = "IPL"
    /\ pc \in {"ubootLoad", "checkRun", "ubootRun"} => dstage \in {"IPL", "SPL0"}
    /\ pc \in {"amlc", "amlcEnd"} => dstage = "SPL1"

\* Without resets, and as long as the device leaves the bus before wait_device
\* looks and was not taken for a plain board in its SPL, every exchange meets
\* the device in a stage it is meant for, although neither wait_device nor the
\* exchange checks it: commands reach U-Boot, pieces an SPL that asks for them,
\* files the ROM or an SPL that takes them, and a stage that is not known is
\* sent nothing.
StagesMatch ==
    /\ setup.prompt /\ faults = 0 /\ Connected
    /\ setup.start \in Spls => ~setup.secure
    => InStage

\* A board and an image the program can serve.
Healthy ==
    /\ \/ setup.start \in {"IPL", "TPL"}
       \/ setup.start \in Spls /\ ~setup.secure /\ ~setup.eraseLoader
    /\ setup.encReg = "given"
    /\ {RightSpl, RightUboot} \subseteq setup.items
    /\ setup.locked => setup.password = "right"

\* With a board and an image the program can serve, and without resets, the
\* boot phase ends in the U-Boot of the image.
BootCompletes == Healthy /\ setup.prompt => <>(pc = "done" \/ faults > 0)

Contract == INSTANCE BootContract WITH
    locked <- setup.locked /\ ~unlocked,
    written <- spl # "none" \/ uboot # "none",
    uboot <- ddr /\ uboot = RightUboot,
    started <- leaving = "TPL" \/ dstage = "TPL"

\* The burn keeps the boot contract, with resets at any moment and a device
\* that is still there when it is opened again: a locked board is written to
\* only after its password was accepted, also when erasing the old loader sent
\* it back to the boot ROM, and U-Boot is started in memory that works and
\* with U-Boot in it.
BootKeepsContract == Contract!Spec

\* With or without resets the program comes to an end.
Ends == <>(pc \in Ended)

----------------------------------------------------------------------------
(* The inductive invariant. *)

\* Boards served as the code means it: the encrypt register is known, and an SPL
\* that stays resident is told by parameters what to do.
Supported ==
    /\ setup.encReg # "byChip"
    /\ "SPL0" \in {setup.start, setup.afterSpl} => setup.bl2Para

\* Steps still to come.
Left == Len(Steps) - step

\* Every exchange belongs to the step the host is at.
StepInv ==
    /\ step \in 1 .. Len(Steps)
    /\ pc \in Labels
    /\ pc \in PasswordSteps => Left \in {4, 6}
    /\ pc \in EraseSteps => Left = 5
    /\ pc = "secure" => Left = 3
    /\ pc \in SplSteps => Left = 2
    /\ pc \in UbootSteps => Left = 1
    /\ pc \in {"tpl", "done"} => Left = 0
    /\ pc = "open" => Left \in {0, 4, 6}

\* A resident SPL was there from the start or was loaded, and set up DDR; what
\* is loaded is lost with it.
DeviceInv ==
    /\ dstage \in Spls =>
        ddr /\ dstage \in {setup.start, setup.afterSpl} /\ (Left > 2 => dstage = setup.start)
    /\ leaving = "TPL" => Left = 0
    /\ uboot # "none" => ddr /\ Left <= 1

\* Nothing of a locked board is used before its password was accepted.
Locked == setup.locked /\ ~unlocked

LockInv ==
    /\ pc = "unlock" => ~unlocked
    /\ dstage \in Spls => ~Locked
    /\ Connected /\ dstage = "IPL" /\ pc \in EraseSteps \cup {"secure"} \cup SplSteps \cup UbootSteps
        => ~Locked

\* As long as the device that was opened is there, it is in the stage the
\* exchange is meant for, and BL2 finds the command the host means.
StageInv ==
    Connected =>
        /\ pc # "tpl" => InStage
        /\ pc \in {"splStage", "splPara"} => dstage \in {"IPL"} \cup Spls
        /\ pc = "uboot" => dstage \in {"IPL", "TPL"} \cup Spls
        /\ pc \in {"ddrAgain", "checkPara"} => dstage \in {"IPL", "SPL0"}
        /\ pc \in {"splRun", "splStage"} /\ setup.bl2Para => para = "ddr"
        /\ pc \in {"checkRun", "checkPara"} => setup.bl2Para
        /\ pc = "checkRun" => para = "check"
        /\ pc = "ubootRun" /\ setup.bl2Para => para = "run"

\* What the host takes the board for.
Known ==
    \/ isSecure = setup.secure
    \/ isSecure = FALSE /\ setup.start \in Spls /\ dstage \in Spls

KindInv ==
    Supported =>
        /\ RightImageKind /\ NeverHangs
        /\ Connected =>
            /\ pc = "spl" => Known \/ dstage \in {"TPL", "ODD"}
            /\ pc \in SplSteps \ {"spl"} => isSecure = setup.secure
            /\ pc \in UbootSteps => Known \/ dstage = "TPL"
            /\ pc = "splRun" => spl = RightSpl
            /\ pc \in {"checkRun", "ubootRun"} /\ dstage = "IPL" => spl = RightSpl

\* Nothing disturbs the burn.
Smooth ==
    /\ Supported /\ setup.prompt /\ faults = 0
    /\ setup.start \in Spls => ~setup.secure

\* U-Boot is there when it is started, and then it is what answers.
ArriveInv ==
    /\ Connected /\ pc \in {"splStage", "splPara"} \cup UbootSteps => ddr \/ dstage = "TPL"
    /\ Smooth /\ Connected =>
        /\ pc \in {"amlcEnd", "ddrAgain", "checkRun", "checkPara", "ubootRun"} =>
            uboot = RightUboot
        /\ pc = "tpl" => dstage = "TPL"
    /\ Smooth /\ pc = "open" /\ Left = 0 =>
        leaving = "TPL" \/ (dstage = "TPL" /\ leaving = "stay")

IInv ==
    /\ TypeOK /\ StepInv /\ DeviceInv /\ LockInv /\ StageInv /\ KindInv /\ ArriveInv
=============================================================================
