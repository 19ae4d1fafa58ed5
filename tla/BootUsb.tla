------------------------------- MODULE BootUsb -------------------------------
(***************************************************************************)
(* The tools that start a board from memory: boot.py brings a GX or AXG    *)
(* board from the ROM to U-Boot and leaves a kernel beside it, while       *)
(* chainUboot.py and runKernel.py talk to a U-Boot that runs already.      *)
(* A write of a file is one action, or one that is cut short; its chunks   *)
(* are those of LargeMemory and SimpleMemory.                              *)
(*                                                                         *)
(* Memory is a function from the addresses written to <<file, offset>>, in *)
(* units no address in the code falls within.                              *)
(***************************************************************************)
EXTENDS Integers, Sequences

CONSTANTS
    Setups,         \* tools, files and boards considered
    DDR_LOAD, BL2_PARAMS, UBOOT_LOAD,
    UBOOT_ADDR,     \* of chainUboot.py
    SCRIPTADDR, DTBADDR, IMAGEADDR, INITRDADDR,
    MaxFaults       \* bound on failing exchanges and resets

ASSUME AddressAssumption ==
    /\ {DDR_LOAD, BL2_PARAMS, UBOOT_LOAD, UBOOT_ADDR,
         SCRIPTADDR, DTBADDR, IMAGEADDR, INITRDADDR} \subseteq Nat
    /\ UBOOT_ADDR < UBOOT_LOAD /\ UBOOT_LOAD < SCRIPTADDR
    /\ SCRIPTADDR < DTBADDR /\ DTBADDR < IMAGEADDR /\ IMAGEADDR < INITRDADDR
    /\ INITRDADDR < DDR_LOAD /\ DDR_LOAD < BL2_PARAMS
    /\ MaxFaults \in Nat

\* What the parsers of the tools require, and a U-Boot that is not empty and
\* ends before the payload, with 95 MB to spare in the code.
ASSUME SetupAssumption ==
    \A s \in Setups :
        /\ s.tool \in {"boot", "chain", "kernel"}
        /\ \A f \in DOMAIN s.files : s.files[f].len \in Nat
        /\ s.tool = "boot" => {"bl2", "ddrinit", "runfip"} \subseteq DOMAIN s.files
        /\ s.tool # "kernel" => "tpl" \in DOMAIN s.files
        /\ "tpl" \in DOMAIN s.files =>
              s.files["tpl"].len > 0 /\ UBOOT_LOAD + s.files["tpl"].len <= SCRIPTADDR

VARIABLES
    setup,
    pc,
    next,           \* next file to write in the list in hand
    socid,          \* stage the host believes the board to be in
    dstage,         \* "absent", "rom", "spl", "tpl", or "off" after a crash
    ddr,            \* DDR is initialised
    mem,
    started,        \* U-Boot, or the kernel, was given control
    faults

vars == <<setup, pc, next, socid, dstage, ddr, mem, started, faults>>

Ended == {"done", "failed", "notfound"}

Length(f) == setup.files[f].len
Given(f) == f \in DOMAIN setup.files

Init ==
    /\ setup \in Setups
    /\ pc = "find"
    /\ next = 1
    /\ socid = "unknown"
    /\ dstage = "absent"
    /\ ddr = (setup.tool # "boot")
    /\ mem = <<>>
    /\ started = FALSE
    /\ faults = 0

Fault == faults < MaxFaults /\ faults' = faults + 1

----------------------------------------------------------------------------
(* The lists of files. *)

Simple(f, addr) == [file |-> f, addr |-> addr, mode |-> "simple"]
Large(f, addr) == [file |-> f, addr |-> addr, mode |-> "large"]
Fill(f, addr) == [file |-> f, addr |-> addr, mode |-> "fill"]

\* Mutant of DdrWrites: the parameters of U-Boot.
DdrWritesFip == <<Simple("bl2", DDR_LOAD), Large("runfip", BL2_PARAMS)>>

\* init_ddr
DdrWrites == <<Simple("bl2", DDR_LOAD), Large("ddrinit", BL2_PARAMS)>>

\* load_uboot
UbootWrites ==
    <<Large("bl2", DDR_LOAD), Large("runfip", BL2_PARAMS), Fill("tpl", UBOOT_LOAD)>>

\* Only what was asked for.
Optional(w) == IF Given(w.file) THEN <<w>> ELSE <<>>

\* The payload, in the order the tools write it.
PayloadWrites ==
    IF setup.tool = "boot"
    THEN Optional(Fill("image", IMAGEADDR)) \o Optional(Simple("dtb", DTBADDR))
            \o Optional(Simple("script", SCRIPTADDR)) \o Optional(Fill("ramfs", INITRDADDR))
    ELSE Optional(Fill("image", IMAGEADDR)) \o Optional(Fill("dtb", DTBADDR))
            \o Optional(Fill("ramfs", INITRDADDR))

Writes ==
    IF pc = "init" THEN DdrWrites
    ELSE IF setup.tool = "boot" THEN UbootWrites \o PayloadWrites
    ELSE IF setup.tool = "chain" THEN <<Fill("tpl", UBOOT_ADDR)>>
    ELSE PayloadWrites

----------------------------------------------------------------------------

\* What the exchange leaves in memory, of the first n units and the padding;
\* DDR, which ends below the SRAM of the ROM, keeps nothing before it was
\* initialised.
Stored(w, n, pad) ==
    IF w.addr < DDR_LOAD /\ ~ddr THEN mem
    ELSE LET new == w.addr .. w.addr + n + pad - 1
         IN  [a \in DOMAIN mem \cup new |->
                 IF a \notin new THEN mem[a]
                 ELSE IF a - w.addr < n THEN <<w.file, a - w.addr>> ELSE <<"zero", 0>>]

Connected == dstage \notin {"absent", "off"}

\* AmlogicSoC.__init__: the bus is looked at until the time is over, for ever
\* without a timeout.
Find ==
    /\ pc = "find"
    /\ IF Connected THEN pc' = IF setup.tool = "boot" THEN "identify" ELSE "load"
       ELSE setup.timeout /\ pc' = "notfound"
    /\ UNCHANGED <<setup, next, socid, dstage, ddr, mem, started, faults>>

\* soc_id
Identify ==
    /\ pc \in {"identify", "again"} /\ Connected
    /\ socid' = dstage
    /\ pc' = IF pc = "identify" THEN "init"
             ELSE IF socid' = "spl" THEN "params" ELSE "load"
    /\ UNCHANGED <<setup, next, dstage, ddr, mem, started, faults>>

\* A length that is no multiple of the block length is refused without fill.
Refused(w) == w.mode = "large" /\ setup.files[w.file].ragged

WriteFile ==
    /\ pc \in {"init", "load"} /\ next <= Len(Writes) /\ Connected
    /\ LET w == Writes[next]
       IN  IF Refused(w) THEN pc' = "failed" /\ UNCHANGED <<next, mem>>
           ELSE /\ mem' = Stored(w, Length(w.file),
                                 IF w.mode = "fill" /\ setup.files[w.file].ragged THEN 1 ELSE 0)
                /\ next' = next + 1
                /\ UNCHANGED pc
    /\ UNCHANGED <<setup, socid, dstage, ddr, started, faults>>

\* A transfer fails in the middle.
WriteCut ==
    /\ pc \in {"init", "load"} /\ next <= Len(Writes) /\ Connected
    /\ ~Refused(Writes[next])
    /\ Fault
    /\ \E n \in 0 .. Length(Writes[next].file) - 1 : mem' = Stored(Writes[next], n, 0)
    /\ pc' = "failed"
    /\ UNCHANGED <<setup, next, socid, dstage, ddr, started>>

Loaded ==
    /\ pc \in {"init", "load"} /\ next > Len(Writes)
    /\ next' = 1
    /\ pc' = (IF pc = "init" THEN "ddr" ELSE "run")
    /\ UNCHANGED <<setup, socid, dstage, ddr, mem, started, faults>>

Holds(f, addr) ==
    \A k \in 0 .. Length(f) - 1 : addr + k \in DOMAIN mem /\ mem[addr + k] = <<f, k>>

UbootInPlace ==
    Given("tpl") /\ Holds("tpl", IF setup.tool = "boot" THEN UBOOT_LOAD ELSE UBOOT_ADDR)

\* BL2 does what the parameters say, whatever state the memory is in.
Parameters ==
    IF BL2_PARAMS \notin DOMAIN mem THEN "none"
    ELSE IF mem[BL2_PARAMS] = <<"ddrinit", 0>> THEN "ddr"
    ELSE IF mem[BL2_PARAMS] = <<"runfip", 0>> THEN "uboot"
    ELSE "none"

Crash == dstage' = "off" /\ UNCHANGED <<ddr, started>>

Execute(after) ==
    \/ Parameters = "ddr" /\ ddr' = TRUE /\ dstage' = after /\ UNCHANGED started
    \/ Parameters = "uboot" /\ started' = TRUE /\ dstage' = "tpl" /\ UNCHANGED ddr
    \/ Parameters = "none" /\ Crash

RomRuns(addr) == dstage = "rom" /\ addr = DDR_LOAD /\ Holds("bl2", DDR_LOAD)
SplRuns(addr) == dstage = "spl" /\ addr = BL2_PARAMS

\* From the ROM a whole BL2 at DDR_LOAD runs: it does its work and returns, or
\* stays and waits to be told to.  BL2 that stays works from BL2_PARAMS.
RunAt(addr) ==
    \/ /\ RomRuns(addr)
       /\ IF setup.resident /\ Parameters = "ddr"
          THEN dstage' = "spl" /\ UNCHANGED <<ddr, started>>
          ELSE Execute("rom")
    \/ SplRuns(addr) /\ Execute(IF setup.leaves THEN "rom" ELSE "spl")
    \/ ~RomRuns(addr) /\ ~SplRuns(addr) /\ Crash

\* init_ddr: the two runs.
RunDdr ==
    /\ pc = "ddr" /\ Connected
    /\ RunAt(DDR_LOAD)
    /\ pc' = "again"
    /\ UNCHANGED <<setup, next, socid, mem, faults>>

RunParams ==
    /\ pc = "params" /\ Connected
    /\ RunAt(BL2_PARAMS)
    /\ pc' = "load"
    /\ UNCHANGED <<setup, next, socid, mem, faults>>

\* Mutant of RunAddress: always by way of the ROM.
RomAddress == DDR_LOAD

\* run_uboot: by the stage of the last identification.
RunAddress == IF socid = "spl" THEN BL2_PARAMS ELSE DDR_LOAD

RunUboot ==
    /\ pc = "run" /\ setup.tool = "boot" /\ Connected
    /\ RunAt(RunAddress)
    /\ pc' = "done"
    /\ UNCHANGED <<setup, next, socid, mem, faults>>

\* The command for U-Boot: go, or setenv and bootm or booti; tplCommand refuses
\* bootargs that are too long.
Command ==
    /\ pc = "run" /\ setup.tool # "boot" /\ Connected
    /\ IF setup.tool = "kernel" /\ setup.longArgs
       THEN pc' = "failed" /\ UNCHANGED started
       ELSE pc' = "done" /\ started' = TRUE
    /\ UNCHANGED <<setup, next, socid, dstage, ddr, mem, faults>>

\* Mutant of UsbError: an exchange with a board that is gone is repeated.
UsbErrorRepeated ==
    /\ pc \notin Ended \cup {"find"}
    /\ Connected /\ Fault
    /\ pc' = "failed"
    /\ UNCHANGED <<setup, next, socid, dstage, ddr, mem, started>>

\* Any exchange fails when the board is gone.
UsbError ==
    /\ pc \notin Ended \cup {"find"}
    /\ IF Connected THEN Fault ELSE UNCHANGED faults
    /\ pc' = "failed"
    /\ UNCHANGED <<setup, next, socid, dstage, ddr, mem, started>>

\* The board is switched on, and may lose power.
Plug ==
    /\ dstage = "absent"
    /\ dstage' = (IF setup.tool = "boot" THEN "rom" ELSE "tpl")
    /\ UNCHANGED <<setup, pc, next, socid, ddr, mem, started, faults>>

PowerLoss ==
    /\ Connected /\ ~started /\ Fault
    /\ dstage' = "off" /\ ddr' = FALSE /\ mem' = <<>>
    /\ UNCHANGED <<setup, pc, next, socid, started>>

HostNext ==
    \/ Find \/ Identify \/ WriteFile \/ WriteCut \/ Loaded \/ RunDdr \/ RunParams
    \/ RunUboot \/ Command \/ UsbError

Next == HostNext \/ Plug \/ PowerLoss

Spec == Init /\ [][Next]_vars

\* The tool runs on; somebody switches the board on.
FairSpec == Spec /\ WF_vars(HostNext) /\ WF_vars(Plug)

----------------------------------------------------------------------------

Contract == INSTANCE BootContract WITH
    locked <- FALSE,
    written <- DOMAIN mem # {},
    uboot <- ddr /\ UbootInPlace,
    started <- started \/ (setup.tool # "boot" /\ ddr)

\* The tools keep the boot contract: U-Boot is written to DDR that works, and
\* started with all of it in place, whatever file is refused or cut and
\* whenever power is lost.
UsbKeepsContract == Contract!Spec

\* Control is given to U-Boot, by BL2 or by a command to the U-Boot before it,
\* only with all of it in DDR that works, and nothing is written over it later
\* (run_uboot of boot.py and main of chainUboot.py).
StartsWhole == started /\ setup.tool # "kernel" => ddr /\ UbootInPlace

Payload == {"image", "dtb", "script", "ramfs"} \cap DOMAIN setup.files

At(f) == CASE f = "image" -> IMAGEADDR [] f = "dtb" -> DTBADDR
           [] f = "script" -> SCRIPTADDR [] OTHER -> INITRDADDR

\* What became of the call.
Result ==
    IF pc # "done" THEN pc
    ELSE IF ~started THEN "crashed"
    ELSE IF \E f \in Payload : ~Holds(f, At(f)) THEN "damaged"
    ELSE "done"

\* Room between the addresses of the payload.
Room(f) == CASE f = "script" -> DTBADDR - SCRIPTADDR
             [] f = "dtb" -> IMAGEADDR - DTBADDR
             [] OTHER -> INITRDADDR - IMAGEADDR

PaddedLength(f) ==
    IF setup.files[f].ragged /\ (f # "dtb" \/ setup.tool = "kernel") /\ f # "script"
    THEN Length(f) + 1 ELSE Length(f)

\* A payload runs into the next one it was written after, or is run into.
Collides ==
    \/ Given("script") /\ Given("dtb") /\ Length("script") > Room("script")
    \/ Given("dtb") /\ Given("image") /\ PaddedLength("dtb") > Room("dtb")
    \/ Given("script") /\ Given("image") /\ Length("script") > IMAGEADDR - SCRIPTADDR
    \/ Given("image") /\ Given("ramfs") /\ Length("image") > Room("image")

Outcome ==
    IF \/ setup.tool = "kernel" /\ setup.longArgs
       \/ setup.tool = "boot" /\ \E f \in {"bl2", "ddrinit", "runfip"} : setup.files[f].ragged
       \/ setup.tool = "boot" /\ Length("bl2") > BL2_PARAMS - DDR_LOAD
    THEN "failed"
    ELSE IF setup.tool = "boot" /\ setup.resident /\ setup.leaves THEN "crashed"
    ELSE IF setup.tool # "chain" /\ Collides THEN "damaged"
    ELSE "done"

\* Without faults, what becomes of a call depends on the files and the board
\* alone: files nothing is appended to have to be multiples of their block
\* length, BL2 has to end before its parameters, a BL2 that stays has to stay
\* (run_uboot trusts the stage identified before it was run again), and each
\* payload has to end before the next one begins, which nothing checks.
CallEndsAs ==
    [](faults = 0) =>
        <>[](Result = Outcome \/ (setup.timeout /\ Result = "notfound"))

\* With faults the tool ends as well, or waits without a timeout for a board
\* that went before it was found; it never waits for one that answers no more.
Stops == <>(pc \in Ended) \/ <>[](pc = "find" /\ ~setup.timeout)
=============================================================================
