----------------------------- MODULE AdnlProps -----------------------------
(***************************************************************************)
(* Properties of the ADNL burn.                                            *)
(***************************************************************************)
EXTENDS Adnl

\* The channels hold at most one packet and every variable stays in its type.
TypeOK ==
    /\ setup \in Setups
    /\ dstage \in {"OFF", "ROM", "SPL", "TPL"}
    /\ addr \in Addresses
    /\ bootTo \in {"stay", "ROM", "TPL", "OFF"}
    /\ mode \in {"cmd", "burnsteps", "checksum", "image", "blocks", "verifying"}
    /\ req.offs \in Nat /\ req.size \in 0 .. MaxRequest
    /\ Len(rcvd) <= MaxRequest
    /\ written \subseteq 0 .. PartSize - 1
    /\ cur \in 0 .. NumParts
    /\ flash \in [Parts -> [0 .. PartSize - 1 -> {"old", "erased", "good", "bad"}]]
    /\ Len(out) <= 1 /\ Len(inn) <= 1
    /\ faults \in 0 .. MaxFaults
    /\ sec \in Ended \cup DOMAIN After \cup
               {"find", "probe", "waitRom", "waitTpl", "secure", "bl2", "cbw",
                "piece", "mwrite", "blocks", "verify"}
    /\ ip \in 1 .. Len(Script) + 1
    /\ awaiting \in BOOLEAN /\ secure \in BOOLEAN
    /\ handle \in Addresses \cup {0} /\ lastAddr \in Addresses \cup {0}
    /\ buf.from \in Nat /\ buf.left \in 0 .. MaxRequest
    /\ part \in 1 .. NumParts + 1

Intact(p) == \A o \in 0 .. PartSize - 1 : flash[p][o] = "good"

\* Whatever is corrupted, stored wrongly, refused or reset on the way: a
\* partition the loop of tpl_burn_partition has passed holds its image, and
\* so does every partition when the program reports success.
BurnedIntact ==
    /\ \A p \in 1 .. part - 1 : Intact(p)
    /\ sec = "done" => \A p \in Parts : Intact(p)

\* A TPL is started only with every byte of the U-Boot item of the board's
\* kind at its own offset, although the checksum of a chunk does not see
\* where its bytes belong (run_bl2_stage).
TplInPlace ==
    bootTo = "TPL" =>
        \A o \in 0 .. UbootSize - 1 :
            loaded[o] = <<<<IF setup.secure THEN "UBOOT_ENC" ELSE "UBOOT", 0>>, o>>

RomSections == {"secure", "rom"}
TplSections == {"tpl", "oem", "mwrite", "blocks", "tplSum", "verify"}

\* Without faults, the endpoints in use belong to the current enumeration and
\* every stage's commands reach that stage: wait_for_device never returns the
\* device that is about to leave the bus.
StageAgrees ==
    faults = 0 =>
        /\ sec \in RomSections => handle = addr /\ dstage \in {"ROM", "SPL"}
        /\ sec \in {"piece", "splSum"} => handle = addr /\ dstage = "SPL"
        /\ sec \in TplSections => handle = addr /\ dstage = "TPL"

\* A board and an image the program can serve.
Healthy ==
    /\ setup.start \in {"ROM", "TPL"}
    /\ setup.known
    /\ (IF setup.secure THEN {"DDR_ENC", "UBOOT_ENC"} ELSE {"DDR", "UBOOT"})
         \subseteq setup.items
    /\ setup.verify = Parts
    /\ setup.splSize <= DownloadSize
    /\ setup.ubootSize >= UbootSize

\* A healthy burn without faults ends in success.
BurnCompletes == Healthy /\ [](faults = 0) => <>(sec = "done")

\* With faults the program ends, or waits for a device that does not return.
StopsOrWaits ==
    <>(sec \in Ended) \/ <>[](sec \in {"waitRom", "waitTpl"})

----------------------------------------------------------------------------
(* The burn contract. *)

\* Every place of a partition holds the same.
Holds(p, value) == \A o \in 0 .. PartSize - 1 : flash[p][o] = value

ContentOf(p) ==
    IF Holds(p, "old") THEN "old"
    ELSE IF Holds(p, "erased") THEN "erased"
    ELSE IF Holds(p, "good") THEN "image"
    ELSE "partial"

Outcome ==
    IF sec = "done" THEN "done"
    ELSE IF sec \in {"failed", "notfound"} THEN "failed"
    ELSE "running"

Contract == INSTANCE BurnContract WITH
    content <- [p \in Parts |-> ContentOf(p)],
    outcome <- Outcome

\* The ADNL burn keeps the burn contract.
AdnlKeepsContract == Contract!Spec

----------------------------------------------------------------------------
(* The inductive invariant of BurnedIntact and AdnlKeepsContract. *)

Replied(header) == inn # <<>> /\ inn[1].header = header
Pending(op) == out # <<>> /\ out[1].op = op

BeforeParts == {"find", "notfound", "probe", "toRom", "waitRom", "secure", "rom",
                "bl2", "cbw", "piece", "splSum", "waitTpl", "tpl"}
InPart == {"oem", "mwrite", "blocks", "tplSum", "verify"}
AfterParts == {"reboot", "done"}

\* The partition loop: which partition each section belongs to.
SectionInv ==
    /\ sec \in {"failed"} \cup BeforeParts \cup InPart \cup AfterParts
    /\ part \in 1 .. NumParts + 1
    /\ sec \in BeforeParts => part = 1
    /\ sec \in InPart => part <= NumParts
    /\ sec \in AfterParts => part = NumParts + 1

\* Commands and replies alternate, except that data blocks are not answered
\* and that a FAIL may come when nobody reads.
FlightInv ==
    /\ ip \in Nat \ {0}
    /\ awaiting => ip <= Len(Script)
    /\ out # <<>> =>
        \/ sec = "failed"
        \/ awaiting /\ out[1].op = Row.op
        \/ /\ ~awaiting /\ out[1].op = "data"
           /\ sec = "blocks" \/ (sec = "tplSum" /\ ip = 1)
    /\ inn # <<>> =>
        inn[1].header = "FAIL" \/ sec = "failed" \/ (awaiting /\ out = <<>>)

\* What a packet in flight says, also after the host gave up.
PacketInv ==
    /\ Pending("setvar") => out[1].arg.name \in {"burnsteps", "checksum"}
    /\ Pending("oem disk_initial") => sec \in {"tpl", "failed"} /\ part = 1
    /\ Pending("oem mwrite") =>
        sec \in {"oem", "failed"} /\ part \in Parts /\ out[1].arg.part = part
    /\ Pending("mwrite") => cur = part
    /\ Pending("oem verify") => sec \in {"verify", "failed"}
    /\ Pending("download") => sec \in {"rom", "piece", "failed"}

\* What the device takes the next packet for.
ModeInv ==
    /\ dstage \in {"OFF", "ROM", "SPL", "TPL"}
    /\ bootTo \in {"stay", "ROM", "TPL", "OFF"}
    /\ mode \in {"cmd", "burnsteps", "checksum", "image", "blocks", "verifying"}
    /\ dstage = "OFF" => mode = "cmd"
    /\ mode = "verifying" =>
        sec = "failed" \/ (sec = "verify" /\ awaiting /\ out = <<>>)
    /\ mode = "image" => sec \notin {"waitTpl", "tpl"} \cup InPart
    /\ mode = "image" /\ sec = "cbw" => ip = 1 /\ ~Replied("OKAY")

\* The device writes the partition the host burns.
CurInv ==
    /\ cur \in 0 .. NumParts
    /\ flash \in [Parts -> [0 .. PartSize - 1 -> {"old", "erased", "good", "bad"}]]
    /\ sec \in InPart \ {"oem"} => cur = part
    /\ sec = "oem" /\ (ip > 1 \/ Replied("OKAY")) => cur = part
    /\ written # {} \/ mode = "blocks" \/ (mode = "checksum" /\ dstage = "TPL")
        => cur = part

\* Once the verdict is out nothing of the partition can change any more.
VerdictInv ==
    sec = "verify" /\ (ip > 1 \/ Replied("OKAY")) =>
        Intact(part) /\ mode = "cmd" /\ written = {}

\* oem disk_initial is still to be carried out.
BeforeErase ==
    \/ sec \in BeforeParts \ {"tpl"}
    \/ sec = "tpl" /\ (ip < 4 \/ (ip = 4 /\ ~awaiting))
    \/ Pending("oem disk_initial")

\* Until then nothing is erased or written.
UntouchedInv == BeforeErase => cur = 0 /\ \A p \in Parts : Holds(p, "old")

\* The partitions to come are as they were, or erased.
BlankInv ==
    \A p \in Parts : p > part => Holds(p, "old") \/ Holds(p, "erased")

\* Together with BurnedIntact these are preserved by every step.
IInv ==
    /\ SectionInv /\ FlightInv /\ PacketInv /\ ModeInv /\ CurInv /\ VerdictInv
    /\ UntouchedInv /\ BlankInv /\ BurnedIntact

----------------------------------------------------------------------------
(* The inductive invariant of StageAgrees. *)

\* The device that was opened is there, and stays.
Here == handle = addr /\ lastAddr = addr /\ bootTo = "stay" /\ dstage # "OFF"

\* The device that was opened is about to leave for another stage, or is back in
\* it under another address.
InTransit(stage) ==
    \/ bootTo = stage /\ addr = lastAddr
    \/ bootTo = "stay" /\ dstage = stage /\ addr # lastAddr

\* The last command of the section is not yet answered.
Unanswered == ip = 1 /\ ~Replied("OKAY")

\* Where the device is in each section, as long as nothing goes wrong.
Where ==
    /\ sec = "find" => bootTo = "stay"
    /\ sec = "probe" =>
        /\ Here
        /\ Replied("OKAY") => inn[1].payload.stage = dstage
        /\ ip > 1 => payload.stage = dstage
    /\ sec = "toRom" => IF Unanswered THEN Here /\ dstage = "TPL" ELSE InTransit("ROM")
    /\ sec = "waitRom" => InTransit("ROM")
    /\ sec \in {"secure", "rom", "bl2"} => Here /\ dstage \in {"ROM", "SPL"}
    /\ sec = "cbw" =>
        IF Unanswered THEN Here /\ dstage \in {"ROM", "SPL"}
        ELSE IF (IF ip = 1 THEN inn[1].payload ELSE payload).done THEN InTransit("TPL")
        ELSE Here /\ dstage = "SPL"
    /\ sec \in {"piece", "splSum"} => Here /\ dstage = "SPL"
    /\ sec = "waitTpl" => InTransit("TPL")
    /\ sec \in TplSections => handle = addr /\ bootTo = "stay" /\ dstage = "TPL"

\* The commands that make the device leave a stage are sent in their section.
LeavingInv ==
    /\ Pending("reboot-romusb") => sec \in {"toRom", "failed"}
    /\ Pending("reboot") => sec \in {"reboot", "failed"}
    /\ Pending("cbw") => sec \in {"cbw", "failed"}
    /\ Pending("boot") => sec \in {"rom", "failed"}

\* With IInv this is preserved by every step.
WhereInv ==
    /\ LeavingInv
    /\ faults \in 0 .. MaxFaults
    /\ faults = 0 => Where

----------------------------------------------------------------------------
(* The inductive invariant of TplInPlace. *)

\* The byte of U-Boot that belongs at an offset.
RightByte(o) == <<<<IF setup.secure THEN "UBOOT_ENC" ELSE "UBOOT", 0>>, o>>

Items == {"DDR", "DDR_ENC", "UBOOT", "UBOOT_ENC", "PARTITION", "corrupt"} \X Nat
Request == [offs : Nat, size : 0 .. MaxRequest, done : BOOLEAN]

\* Requests, pieces and what is received have their form.
ShapeInv ==
    /\ setup \in Setups
    /\ req \in Request /\ rcvd \in Seq(Items \X Nat)
    /\ loaded \in [0 .. UbootSize - 1 -> Items \X Nat]
    /\ buf \in [from : Nat, left : 0 .. MaxRequest]
    /\ Pending("data") => out[1].arg \in [item : Items, from : Nat, len : Nat]
    /\ sec = "cbw" /\ Replied("OKAY") => inn[1].payload \in Request
    /\ sec = "cbw" /\ ip > 1 => payload \in Request
    /\ Replied("DATAOUT") => inn[1].payload \in Request

RomStarts == {"toRom", "waitRom", "secure"}

\* Nothing has been received before the SPL runs, and the SPL runs only where
\* the host started it, or where the burn ends at once.
EarlyInv ==
    /\ sec \in {"find", "notfound", "probe", "rom"} \cup RomStarts => rcvd = <<>>
    /\ Pending("boot") => rcvd = <<>>
    /\ mode = "blocks" => dstage = "TPL"
    /\ mode = "image" => dstage \in {"ROM", "SPL"}
    /\ dstage = "SPL" =>
        /\ sec = "probe" /\ Replied("OKAY") => inn[1].payload.stage = "SPL"
        /\ sec = "probe" /\ ip > 1 => payload.stage = "SPL"
        /\ sec \notin RomStarts
        /\ sec = "rom" => ip > Len(Script) \/ (ip = Len(Script) /\ Replied("OKAY"))
    /\ sec \in {"rom", "bl2", "cbw", "piece", "splSum"} => secure = setup.secure

\* The next byte to send is the next one to receive, unless U-Boot is at its end.
InStep(from) == from = req.offs + Len(rcvd) \/ from >= setup.ubootSize

\* The bytes of the piece in hand are still to be received.
PieceToCome == ip = 1 \/ (ip = 2 /\ ~Replied("OKAY"))

\* What the SPL receives is U-Boot from the offset it asked for, as long as the
\* SPL runs that asked.
ChunkInv ==
    /\ sec = "piece" /\ Pending("data") => out[1].arg = TplSlice(buf.from, PieceLength)
    /\ dstage = "SPL" =>
        /\ \A i \in DOMAIN rcvd : rcvd[i] \in {Bad, RightByte(req.offs + i - 1)}
        /\ sec = "cbw" /\ Replied("OKAY") /\ ~inn[1].payload.done =>
            rcvd = <<>> /\ inn[1].payload = req
        /\ sec = "cbw" /\ ip > 1 /\ ~payload.done => rcvd = <<>> /\ payload = req
        /\ sec = "piece" =>
            InStep(IF PieceToCome THEN buf.from ELSE buf.from + PieceLength)
        /\ mode = "image" /\ Pending("data") =>
            /\ out[1].arg.item = RightByte(0)[1]
            /\ out[1].arg.len = 0 \/ out[1].arg.from = req.offs + Len(rcvd)

\* A corrupt byte is never announced, so nothing corrupt is loaded.
LoadedInv ==
    /\ Bad \notin sum
    /\ Pending("sum") => Bad \notin out[1].arg.bytes
    /\ \A o \in DOMAIN loaded : loaded[o] \in {Bad, RightByte(o)}
    /\ TplInPlace

\* With IInv and LeavingInv these are preserved by every step.
PlaceInv == ShapeInv /\ EarlyInv /\ ChunkInv /\ LoadedInv

----------------------------------------------------------------------------
(* The inductive invariant of TypeOK. *)

\* The simple types.
FormInv ==
    /\ addr \in Addresses
    /\ handle \in Addresses \cup {0} /\ lastAddr \in Addresses \cup {0}
    /\ Len(out) <= 1 /\ Len(inn) <= 1
    /\ ip <= Len(Script) + 1
    /\ awaiting \in BOOLEAN /\ secure \in BOOLEAN

\* Bytes of the piece in hand still to be sent.
LeftToSend == IF PieceToCome THEN buf.left ELSE buf.left - PieceLength

\* What is sent of a chunk fits what was asked for, and that the partition.
CountInv ==
    /\ Len(rcvd) <= req.size
    /\ Pending("data") /\ (mode = "blocks" \/ (mode = "image" /\ dstage = "SPL"))
        => Len(rcvd) + out[1].arg.len <= req.size
    /\ sec = "piece" /\ dstage = "SPL" => Len(rcvd) + LeftToSend <= req.size
    /\ Pending("mwrite") => sec \in {"mwrite", "failed"}
    /\ mode = "blocks" =>
        /\ sec = "mwrite" /\ Replied("DATAOUT") => rcvd = <<>> /\ inn[1].payload = req
        /\ sec = "blocks" =>
            Len(rcvd) + buf.left + (IF out = <<>> THEN 0 ELSE out[1].arg.len) <= req.size
    /\ dstage = "TPL" /\ mode \in {"blocks", "checksum"} => ChunkPlace \subseteq 0 .. PartSize - 1
    /\ written \subseteq 0 .. PartSize - 1
=============================================================================
