----------------------------- MODULE AdnlDevice -----------------------------
(***************************************************************************)
(* The Amlogic SoC at the other end of the ADNL protocol, as adnl.py uses  *)
(* it: boot ROM, SPL (BL2) and TPL (U-Boot) answer textual commands; the   *)
(* device leaves the bus and comes back under another address when a stage *)
(* restarts USB.  This is not code of the repository: each action is what  *)
(* the host code and its comments expect of the device, plus faults.       *)
(*                                                                         *)
(* A byte of an image item is <<item, position>>.  The additive checksum   *)
(* of a buffer is the set of its bytes: it sees which bytes arrived, not   *)
(* in which order or at which place they belong.                           *)
(***************************************************************************)
EXTENDS Integers, Sequences, SequencesExt

CONSTANTS
    NumParts,       \* PARTITION items of the image
    PartSize,       \* bytes of each partition (in abstract units)
    UbootSize,      \* bytes of U-Boot the SPL asks for
    DownloadSize,   \* the ROM's answer to getvar:downloadsize
    MaxRequest,     \* largest chunk the device asks for
    Addresses,      \* USB addresses
    MaxFaults,      \* bound on injected faults
    Setups          \* the boards, images and options considered

ASSUME SizesAssumption ==
    /\ NumParts \in Nat /\ PartSize \in Nat \ {0} /\ UbootSize \in Nat \ {0}
    /\ DownloadSize \in Nat /\ MaxRequest \in Nat \ {0} /\ MaxFaults \in Nat

\* "start" is the stage the device is found in, "OFF" when there is none.
ASSUME SetupsAssumption ==
    /\ 1 \in Addresses
    /\ \A s \in Setups :
        /\ s.start \in {"OFF", "ROM", "SPL", "TPL"}
        /\ s.secure \in BOOLEAN /\ s.ubootSize \in Nat /\ s.splSize \in Nat

VARIABLES
    setup,          \* the board, the image and the command line options
    dstage,         \* running stage, or "OFF" while off the bus
    addr,           \* USB address of the current enumeration
    bootTo,         \* where the device is about to restart
    mode,           \* what the next packet is taken for
    burnsteps,
    image,          \* ROM: item received for the SPL
    req,            \* SPL, TPL: the chunk asked for
    rcvd,           \* SPL, TPL: bytes received of it
    loaded,         \* SPL: the TPL image in memory
    cur,            \* TPL: partition of the last oem mwrite
    written,        \* TPL: positions of it already stored
    flash,
    out,            \* host to device: at most one packet
    inn,            \* device to host: at most one reply
    faults

storage == <<image, req, rcvd, loaded, cur, written, flash>>
devVars == <<dstage, addr, bootTo, mode, burnsteps, storage>>

Parts == 1 .. NumParts
PartItem(p) == <<"PARTITION", p>>
SplItem == IF setup.secure THEN <<"DDR_ENC", 0>> ELSE <<"DDR", 0>>
Bad == <<<<"corrupt", 0>>, 0>>
NoRequest == [offs |-> 0, size |-> 0, done |-> FALSE]

BytesOf(d) == [i \in 1 .. d.len |-> <<d.item, d.from + i - 1>>]
Sum(bytes) == ToSet(bytes)

DevInit ==
    /\ setup \in Setups
    /\ dstage = setup.start
    /\ addr = 1
    /\ bootTo = "stay"
    /\ mode = "cmd"
    /\ burnsteps = "none"
    /\ image = <<"none", 0>>
    /\ req = NoRequest
    /\ rcvd = <<>>
    /\ loaded = [o \in 0 .. UbootSize - 1 |-> Bad]
    /\ cur = 0
    /\ written = {}
    /\ flash = [p \in Parts |-> [o \in 0 .. PartSize - 1 |-> "old"]]
    /\ out = <<>>
    /\ inn = <<>>
    /\ faults = 0

\* The packets each stage understands in each mode.
Commands ==
    CASE dstage = "ROM" -> {"identify", "getvar", "setvar", "download", "boot"}
      [] dstage = "SPL" -> {"identify", "getvar", "setvar", "download", "cbw"}
      [] OTHER -> {"identify", "oem setvar", "oem disk_initial", "oem mwrite",
                   "mwrite", "oem verify", "reboot", "reboot-romusb"}

Understood ==
    CASE mode = "cmd" -> Commands
      [] mode = "burnsteps" -> {"steps"}
      [] mode = "checksum" -> {"sum"}
      [] mode \in {"image", "blocks"} -> {"data"}
      [] mode = "verifying" -> {}

\* The device takes the pending packet "op"; it answers into a free slot.
Take(op) ==
    /\ dstage # "OFF"
    /\ out # <<>> /\ out[1].op = op
    /\ inn = <<>>
    /\ op \in Understood
    /\ out' = <<>>
    /\ UNCHANGED <<setup, addr, faults>>

Arg == out[1].arg

Reply(header, payload) == inn' = <<[header |-> header, payload |-> payload]>>
Plain(header) == Reply(header, [name |-> ""])

\* Chunks the device may ask for: any run of bytes it does not have yet.
Chunks(missing) ==
    {c \in [offs : missing, size : 1 .. MaxRequest, done : {FALSE}] :
        c.offs .. c.offs + c.size - 1 \subseteq missing}

----------------------------------------------------------------------------
(* All stages. *)

DevIdentify ==
    /\ Take("identify")
    /\ Reply("OKAY", [stage |-> dstage])
    /\ UNCHANGED <<dstage, bootTo, mode, burnsteps, storage>>

DevGetvar ==
    /\ Take("getvar")
    /\ Plain("OKAY")
    /\ UNCHANGED <<dstage, bootTo, mode, burnsteps, storage>>

DevSetvar ==
    /\ Take("setvar")
    /\ mode' = Arg.name
    /\ Plain("DATA")
    /\ UNCHANGED <<dstage, bootTo, burnsteps, storage>>

DevBurnsteps ==
    /\ Take("steps") \/ Take("oem setvar")
    /\ burnsteps' = Arg.name
    /\ mode' = "cmd"
    /\ Plain("OKAY")
    /\ UNCHANGED <<dstage, bootTo, storage>>

DevDownload ==
    /\ Take("download")
    /\ mode' = "image"
    /\ Plain("DATA")
    /\ UNCHANGED <<dstage, bootTo, burnsteps, storage>>

----------------------------------------------------------------------------
(* Boot ROM and SPL. *)

\* Bytes of a download: the ROM keeps the item, the SPL collects its chunk.
DevImage ==
    /\ mode = "image"
    /\ Take("data")
    /\ mode' = "cmd"
    /\ IF dstage = "ROM"
       THEN image' = Arg.item /\ UNCHANGED rcvd
       ELSE rcvd' = rcvd \o BytesOf(Arg) /\ UNCHANGED image
    /\ Plain("OKAY")
    /\ UNCHANGED <<dstage, bootTo, burnsteps, req, loaded, cur, written, flash>>

\* A board runs only an SPL of its own kind, another leaves it in the ROM.
DevBoot ==
    /\ Take("boot")
    /\ dstage' = IF image = SplItem THEN "SPL" ELSE "ROM"
    /\ Plain("OKAY")
    /\ UNCHANGED <<bootTo, mode, burnsteps, storage>>

Unloaded == {o \in DOMAIN loaded : loaded[o] = Bad}

\* getvar:cbw: the SPL asks for a chunk, or is done and will start the TPL.
DevCbw ==
    /\ Take("cbw")
    /\ \/ /\ Unloaded = {}
          /\ bootTo' = "TPL"
          /\ Reply("OKAY", [NoRequest EXCEPT !.done = TRUE])
          /\ UNCHANGED req
       \/ \E c \in Chunks(Unloaded) :
          /\ req' = c
          /\ Reply("OKAY", c)
          /\ UNCHANGED bootTo
    /\ rcvd' = <<>>
    /\ UNCHANGED <<dstage, mode, burnsteps, image, loaded, cur, written, flash>>

ChunkPlace == req.offs .. req.offs + req.size - 1

\* A checksum that matches commits the chunk at the place it was asked for.
Commit ==
    IF dstage = "SPL"
    THEN /\ loaded' = [o \in DOMAIN loaded |->
                IF o \in ChunkPlace THEN rcvd[o - req.offs + 1] ELSE loaded[o]]
         /\ UNCHANGED <<flash, written>>
    ELSE /\ flash' = [flash EXCEPT ![cur] =
                [o \in DOMAIN @ |->
                    IF o \notin ChunkPlace THEN @[o]
                    ELSE IF rcvd[o - req.offs + 1] = <<PartItem(cur), o>> THEN "good"
                    ELSE "bad"]]
         /\ written' = written \cup ChunkPlace
         /\ UNCHANGED loaded

DevSum ==
    /\ Take("sum")
    /\ mode' = "cmd"
    /\ IF dstage # "ROM" /\ Arg.bytes = Sum(rcvd) /\ Len(rcvd) = req.size
       THEN Plain("OKAY") /\ Commit
       ELSE Plain("FAIL") /\ UNCHANGED <<loaded, flash, written>>
    /\ UNCHANGED <<dstage, bootTo, burnsteps, image, req, rcvd, cur>>

----------------------------------------------------------------------------
(* TPL. *)

DevDiskInitial ==
    /\ Take("oem disk_initial")
    /\ flash' = IF Arg.flag THEN [p \in Parts |-> [o \in DOMAIN flash[p] |-> "erased"]]
                ELSE flash
    /\ Plain("OKAY")
    /\ UNCHANGED <<dstage, bootTo, mode, burnsteps, image, req, rcvd, loaded, cur,
                   written>>

DevOemMwrite ==
    /\ Take("oem mwrite")
    /\ cur' = Arg.part
    /\ written' = {}
    /\ Plain("OKAY")
    /\ UNCHANGED <<dstage, bootTo, mode, burnsteps, image, req, rcvd, loaded,
                   flash>>

\* mwrite: the TPL asks for a chunk of the current partition, or has it all.
DevMwrite ==
    /\ Take("mwrite")
    /\ \/ /\ written = 0 .. PartSize - 1
          /\ Plain("OKAY")
          /\ UNCHANGED <<req, rcvd, mode>>
       \/ \E c \in Chunks((0 .. PartSize - 1) \ written) :
          /\ req' = c
          /\ rcvd' = <<>>
          /\ mode' = "blocks"
          /\ Reply("DATAOUT", c)
    /\ UNCHANGED <<dstage, bootTo, burnsteps, image, loaded, cur, written, flash>>

\* Blocks are not answered; after the last one the checksum is due.
DevBlock ==
    /\ mode = "blocks"
    /\ Take("data")
    /\ rcvd' = rcvd \o BytesOf(Arg)
    /\ mode' = IF Len(rcvd) + Arg.len >= req.size THEN "checksum" ELSE "blocks"
    /\ UNCHANGED <<dstage, bootTo, burnsteps, image, req, loaded, cur, written,
                   flash, inn>>

DevVerify ==
    /\ Take("oem verify")
    /\ mode' = "verifying"
    /\ UNCHANGED <<dstage, bootTo, burnsteps, storage, inn>>

\* INFO replies ask for patience while the hash is computed.
DevInfo ==
    /\ dstage = "TPL" /\ mode = "verifying" /\ inn = <<>>
    /\ Plain("INFO")
    /\ UNCHANGED <<setup, devVars, out, faults>>

\* The verdict closes the partition.
DevVerified ==
    /\ dstage = "TPL" /\ mode = "verifying" /\ inn = <<>>
    /\ mode' = "cmd"
    /\ written' = {}
    /\ Plain(IF \A o \in DOMAIN flash[cur] : flash[cur][o] = "good"
             THEN "OKAY" ELSE "FAIL")
    /\ UNCHANGED <<setup, dstage, addr, bootTo, burnsteps, image, req, rcvd,
                   loaded, cur, flash, out, faults>>

DevReboot ==
    /\ Take("reboot") \/ Take("reboot-romusb")
    /\ bootTo' = IF out[1].op = "reboot" THEN "OFF" ELSE "ROM"
    /\ Plain("OKAY")
    /\ UNCHANGED <<dstage, mode, burnsteps, storage>>

----------------------------------------------------------------------------
(* Leaving the bus and coming back under another address. *)

DevLeave ==
    /\ dstage # "OFF" /\ bootTo # "stay" /\ inn = <<>>
    /\ dstage' = "OFF"
    /\ mode' = "cmd"
    /\ out' = <<>>
    /\ UNCHANGED <<setup, addr, bootTo, burnsteps, storage, inn, faults>>

DevAppear ==
    /\ dstage = "OFF" /\ bootTo \in {"ROM", "TPL"}
    /\ dstage' = bootTo
    /\ bootTo' = "stay"
    /\ addr' \in Addresses \ {addr}
    /\ UNCHANGED <<setup, mode, burnsteps, storage, out, inn, faults>>

----------------------------------------------------------------------------
(* Faults, at most MaxFaults of them. *)

Fault == faults < MaxFaults /\ dstage # "OFF" /\ faults' = faults + 1

Rejected ==
    /\ out # <<>> /\ inn = <<>>
    /\ out' = <<>>
    /\ mode' = "cmd"
    /\ Plain("FAIL")
    /\ UNCHANGED <<setup, dstage, addr, bootTo, burnsteps, storage>>

\* A command that is understood fails.
DevReject == Fault /\ Rejected

\* The device resets and comes back in the boot ROM.
DevCrash ==
    /\ Fault
    /\ dstage' = "OFF"
    /\ bootTo' = "ROM"
    /\ mode' = "cmd"
    /\ out' = <<>>
    /\ inn' = <<>>
    /\ UNCHANGED <<setup, addr, burnsteps, storage>>

\* A received byte is corrupted before the checksum sees it.
DevCorrupt ==
    /\ Fault
    /\ \E i \in DOMAIN rcvd : rcvd' = [rcvd EXCEPT ![i] = Bad]
    /\ UNCHANGED <<setup, dstage, addr, bootTo, mode, burnsteps, image, req, loaded,
                   cur, written, flash, out, inn>>

\* A byte of the current partition is stored wrongly after its checksum.
DevMisstore ==
    /\ Fault
    /\ dstage = "TPL" /\ mode # "verifying"
    /\ \E o \in written : flash' = [flash EXCEPT ![cur][o] = "bad"]
    /\ UNCHANGED <<setup, dstage, addr, bootTo, mode, burnsteps, image, req, rcvd,
                   loaded, cur, written, out, inn>>

\* A command that is not understood is answered FAIL; this is no fault.
DevRefuse ==
    /\ dstage # "OFF" /\ out # <<>> /\ out[1].op \notin Understood
    /\ Rejected
    /\ UNCHANGED faults

DevStep ==
    \/ DevIdentify \/ DevGetvar \/ DevSetvar \/ DevBurnsteps \/ DevDownload
    \/ DevImage \/ DevBoot \/ DevCbw \/ DevSum \/ DevDiskInitial
    \/ DevOemMwrite \/ DevMwrite \/ DevBlock \/ DevVerify \/ DevVerified
    \/ DevReboot \/ DevLeave \/ DevAppear \/ DevRefuse

DevNext == DevStep \/ DevInfo \/ DevReject \/ DevCrash \/ DevCorrupt \/ DevMisstore
=============================================================================
