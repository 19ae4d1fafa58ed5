-------------------------------- MODULE Adnl --------------------------------
(***************************************************************************)
(* do_adnl_burn of adnl.py, composed with the device it talks to.          *)
(*                                                                         *)
(* The host runs sections, each a straight sequence of send_cmd calls      *)
(* (Script); between sections it branches, loops over the chunks the       *)
(* device asks for and over the partitions of the image.  "sec" and "ip"   *)
(* say where it stands, "awaiting" that a command was written and its      *)
(* reply not yet read.  Any exception ends the program in "failed".        *)
(***************************************************************************)
EXTENDS AdnlDevice

CONSTANT BulkSize       \* USB_BULK_SIZE
ASSUME BulkAssumption == BulkSize \in Nat \ {0}

VARIABLES
    sec,            \* section of do_adnl_burn
    ip,             \* next command of the section
    awaiting,       \* a reply is to be read
    payload,        \* payload of the last reply
    handle,         \* address of the device the endpoints belong to
    lastAddr,       \* dev_addr_rom_stage
    secure,         \* has_secureboot
    buf,            \* rest of the chunk being sent: next position, bytes left
    sum,            \* checksum of the chunk so far
    part            \* index of the partition being burnt

hostVars == <<sec, ip, awaiting, payload, handle, lastAddr, secure, buf, sum, part>>
vars == <<setup, devVars, out, inn, faults, hostVars>>

Ended == {"done", "failed", "notfound"}

MinOf(a, b) == IF a < b THEN a ELSE b

\* One send_cmd: what is written, the header the reply must have, and for
\* getvar:identify the stages the caller goes on with.
NoArg == [name |-> ""]
AnyStage == {"ROM", "SPL", "TPL"}
Cmd(op, argument, expect) ==
    [op |-> op, arg |-> argument, expect |-> expect, stages |-> {}]
Identify(stages) ==
    [op |-> "identify", arg |-> NoArg, expect |-> "OKAY", stages |-> stages]
Getvar(name) == Cmd("getvar", [name |-> name], "OKAY")

\* send_burnsteps: the variable name is acknowledged with DATA, its value
\* with OKAY.
Burnsteps(value) ==
    <<Cmd("setvar", [name |-> "burnsteps"], "DATA"),
      Cmd("steps", [name |-> value], "OKAY")>>
OemSetvar(value) == Cmd("oem setvar", [name |-> value], "OKAY")

\* get_chipinfo asks for the stage every time.
ChipInfo == <<Identify({"ROM", "SPL"}), Getvar("chipinfo-1")>>

DdrItem(sb) == IF sb THEN <<"DDR_ENC", 0>> ELSE <<"DDR", 0>>
TplItem == IF secure THEN <<"UBOOT_ENC", 0>> ELSE <<"UBOOT", 0>>

Slice(item, from, n) == [item |-> item, from |-> from, len |-> n]

\* The SPL may ask for more than the item has: the piece is then cut, or empty.
TplSlice(from, n) ==
    Slice(TplItem, from,
          CASE from >= setup.ubootSize -> 0
            [] OTHER -> MinOf(n, setup.ubootSize - from))

\* Mutant of ReadFrom: the offset the device asked for is ignored.
ReadFromStart(request) == 0

\* seek to the offset the device asked for.
ReadFrom(request) == request.offs

SecureScript == <<Identify({"ROM"})>> \o ChipInfo \o ChipInfo

RomScript ==
    <<Getvar("serialno"), Getvar("chipinfo-1"), Getvar("chipinfo-0"),
      Getvar("chipinfo-1"), Getvar("chipinfo-2"), Getvar("chipinfo-3")>>
    \o Burnsteps("ROM 0") \o <<Getvar("chipinfo-1")>> \o Burnsteps("ROM 1")
    \o <<Getvar("downloadsize"),
         Cmd("download", [n |-> DownloadSize], "DATA"),
         Cmd("data", Slice(DdrItem(secure), 0, setup.splSize), "OKAY")>>
    \o Burnsteps("ROM 2") \o <<Cmd("boot", NoArg, "OKAY")>>

Bl2Script == <<Identify({"SPL"})>> \o Burnsteps("ROM 3")

\* Mutant of PieceLength: the last piece is not cut.
WholePiece == BulkSize

PieceLength == MinOf(buf.left, BulkSize)

PieceScript ==
    <<Cmd("download", [n |-> PieceLength], "DATA"),
      Cmd("data", TplSlice(buf.from, PieceLength), "OKAY")>>

TplScript ==
    <<Identify(AnyStage), OemSetvar("TPL 0"),
      OemSetvar("TPL 1"),
      Cmd("oem disk_initial", [flag |-> setup.erase], "OKAY"),
      OemSetvar("TPL 2")>>

OemMwrite(p) == Cmd("oem mwrite", [part |-> p], "OKAY")

Script ==
    CASE sec = "probe" -> <<Identify(AnyStage)>>
      [] sec = "toRom" -> <<Cmd("reboot-romusb", NoArg, "OKAY")>>
      [] sec = "secure" -> SecureScript
      [] sec = "rom" -> RomScript
      [] sec = "bl2" -> Bl2Script
      [] sec = "cbw" -> <<Cmd("cbw", NoArg, "OKAY")>>
      [] sec = "piece" -> PieceScript
      [] sec = "splSum" -> <<Cmd("setvar", [name |-> "checksum"], "DATA"),
                             Cmd("sum", [bytes |-> sum], "OKAY")>>
      [] sec = "tpl" -> TplScript
      [] sec = "oem" -> <<OemMwrite(part)>>
      [] sec = "mwrite" -> <<Cmd("mwrite", NoArg, "OKAY")>>
      [] sec = "tplSum" -> <<Cmd("sum", [bytes |-> sum], "OKAY")>>
      [] sec = "verify" -> <<Cmd("oem verify", [part |-> part], "OKAY")>>
      [] sec = "reboot" -> <<Cmd("reboot", NoArg, "OKAY")>>
      [] OTHER -> <<>>

Row == Script[ip]
SectionOver == ip > Len(Script) /\ ~awaiting

HostInit ==
    /\ sec = "find"
    /\ ip = 1
    /\ awaiting = FALSE
    /\ payload = NoArg
    /\ handle = 0
    /\ lastAddr = 0
    /\ secure = FALSE
    /\ buf = [from |-> 0, left |-> 0]
    /\ sum = {}
    /\ part = 1

Goto(section) == sec' = section /\ ip' = 1
Fail == Goto("failed") /\ awaiting' = FALSE

Connected == dstage # "OFF" /\ handle = addr

----------------------------------------------------------------------------
(* send_cmd. *)

Write(packet) == Connected /\ out = <<>> /\ out' = <<packet>>

HostSend ==
    /\ ip <= Len(Script) /\ ~awaiting
    /\ Write([op |-> Row.op, arg |-> Row.arg])
    /\ awaiting' = TRUE
    /\ UNCHANGED <<setup, devVars, inn, faults, sec, ip, payload, handle,
                   lastAddr, secure, buf, sum, part>>

\* Mutant of Expected: the verdict of "oem verify" is not looked at.
AnyVerdict(reply) ==
    /\ reply.header = Row.expect \/ (sec = "verify" /\ reply.header = "FAIL")
    /\ Row.op = "identify" => reply.payload.stage \in Row.stages

\* The replies a caller of send_cmd goes on with.
Expected(reply) ==
    /\ reply.header = Row.expect
    /\ Row.op = "identify" => reply.payload.stage \in Row.stages

HostReceive ==
    /\ awaiting /\ inn # <<>>
    /\ Expected(inn[1])
    /\ inn' = <<>>
    /\ awaiting' = FALSE
    /\ payload' = inn[1].payload
    /\ ip' = ip + 1
    /\ UNCHANGED <<setup, devVars, out, faults, sec, handle, lastAddr, secure,
                   buf, sum, part>>

\* Replies the loops of tpl_burn_partition take besides OKAY.
Tolerated(reply) ==
    \/ sec = "mwrite" /\ reply.header = "DATAOUT"
    \/ sec = "verify" /\ reply.header = "INFO"

HostUnexpected ==
    /\ awaiting /\ inn # <<>>
    /\ ~Expected(inn[1]) /\ ~Tolerated(inn[1])
    /\ inn' = <<>>
    /\ Fail
    /\ UNCHANGED <<setup, devVars, out, faults, payload, handle, lastAddr,
                   secure, buf, sum, part>>

\* USBError: the device is gone, or has no answer to give because it was reset
\* after the command; it cannot take the packet because an answer nobody reads
\* is in its way; or, by a fault, it does not answer.
Writing == ~awaiting /\ (ip <= Len(Script) \/ (sec = "blocks" /\ buf.left > 0))

HostUsbError ==
    /\ \/ ~Connected /\ inn = <<>> /\ (awaiting \/ Writing) /\ UNCHANGED faults
       \/ Writing /\ out # <<>> /\ inn # <<>> /\ UNCHANGED faults
       \/ awaiting /\ inn = <<>> /\ out = <<>> /\ mode # "verifying" /\ UNCHANGED faults
       \/ awaiting /\ inn = <<>> /\ Fault
    /\ Fail
    /\ UNCHANGED <<setup, devVars, out, inn, payload, handle, lastAddr, secure,
                   buf, sum, part>>

----------------------------------------------------------------------------
(* do_adnl_burn: from one section to the next. *)

\* Moving on inside the host program touches neither device nor channels.
Local == UNCHANGED <<setup, devVars, out, inn, faults, awaiting, payload>>

HostFind ==
    /\ sec = "find"
    /\ IF dstage = "OFF"
       THEN Goto("notfound") /\ UNCHANGED <<handle, lastAddr>>
       ELSE Goto("probe") /\ handle' = addr /\ lastAddr' = addr
    /\ Local
    /\ UNCHANGED <<secure, buf, sum, part>>

\* Only the boot ROM, or a TPL sent back to it, can start.
HostProbed ==
    /\ sec = "probe" /\ SectionOver
    /\ CASE payload.stage = "TPL" -> Goto("toRom")
         [] payload.stage = "ROM" -> Goto("secure")
         [] OTHER -> Goto("failed")
    /\ Local
    /\ UNCHANGED <<handle, lastAddr, secure, buf, sum, part>>

\* The sections that only lead to the next one.
After == [toRom |-> "waitRom", rom |-> "bl2", splSum |-> "cbw",
          tpl |-> "oem", oem |-> "mwrite", tplSum |-> "mwrite",
          reboot |-> "done"]

\* Mutant of NextPartition: the last partition is skipped.
SkipLastPartition(p) ==
    IF p < NumParts THEN "oem" ELSE IF setup.reset THEN "reboot" ELSE "done"

\* The loop over the PARTITION items, and what follows it.
NextPartition(p) ==
    IF p <= NumParts THEN "oem" ELSE IF setup.reset THEN "reboot" ELSE "done"

HostNextSection ==
    /\ sec \in DOMAIN After /\ SectionOver
    /\ Goto(IF After[sec] = "oem" THEN NextPartition(part) ELSE After[sec])
    /\ Local
    /\ UNCHANGED <<handle, lastAddr, secure, buf, sum, part>>

\* Mutants of NewDevice: the address is not compared, or the wrong way round.
AnyDevice == dstage # "OFF"
SameDevice == dstage # "OFF" /\ addr = lastAddr

\* wait_for_device: poll until the device is there under another address.
NewDevice == dstage # "OFF" /\ addr # lastAddr

HostWaited ==
    /\ sec \in {"waitRom", "waitTpl"}
    /\ NewDevice
    /\ handle' = addr
    /\ IF sec = "waitRom"
       THEN Goto("secure") /\ lastAddr' = addr
       ELSE Goto("tpl") /\ UNCHANGED lastAddr
    /\ Local
    /\ UNCHANGED <<secure, buf, sum, part>>

\* aml_img.item_get raises when the image lacks the item.
Has(item) == item[1] \in setup.items

\* is_secureboot_enabled looks up the family's mask, run_bootrom_stage the SPL.
HostSecured ==
    /\ sec = "secure" /\ SectionOver
    /\ secure' = setup.secure
    /\ IF setup.known /\ Has(DdrItem(setup.secure))
       THEN Goto("rom") ELSE Goto("failed")
    /\ Local
    /\ UNCHANGED <<handle, lastAddr, buf, sum, part>>

HostBl2 ==
    /\ sec = "bl2" /\ SectionOver
    /\ IF Has(TplItem) THEN Goto("cbw") ELSE Goto("failed")
    /\ Local
    /\ UNCHANGED <<handle, lastAddr, secure, buf, sum, part>>

----------------------------------------------------------------------------
(* run_bl2_stage: send what the CBW asks for, piece by piece. *)

HostCbw ==
    /\ sec = "cbw" /\ SectionOver
    /\ sum' = {}
    /\ IF payload.done
       THEN Goto("waitTpl") /\ UNCHANGED buf
       ELSE /\ Goto("piece")
            /\ buf' = [from |-> ReadFrom(payload), left |-> payload.size]
    /\ Local
    /\ UNCHANGED <<handle, lastAddr, secure, part>>

Advance == buf' = [from |-> buf.from + PieceLength, left |-> buf.left - PieceLength]

HostPiece ==
    /\ sec = "piece" /\ SectionOver
    /\ sum' = sum \cup Sum(BytesOf(TplSlice(buf.from, PieceLength)))
    /\ Advance
    /\ Goto(IF buf.left = PieceLength THEN "splSum" ELSE "piece")
    /\ Local
    /\ UNCHANGED <<handle, lastAddr, secure, part>>

----------------------------------------------------------------------------
(* tpl_burn_partition. *)

\* DATAOUT: read the chunk and its checksum.
HostDataOut ==
    /\ sec = "mwrite" /\ awaiting /\ inn # <<>>
    /\ inn[1].header = "DATAOUT"
    /\ inn' = <<>>
    /\ awaiting' = FALSE
    /\ Goto("blocks")
    /\ LET from == ReadFrom(inn[1].payload)
           size == inn[1].payload.size
       IN  /\ buf' = [from |-> from, left |-> size]
           /\ sum' = Sum(BytesOf(Slice(PartItem(part), from, size)))
    /\ UNCHANGED <<setup, devVars, out, faults, payload, handle, lastAddr,
                   secure, part>>

HostBlock ==
    /\ sec = "blocks"
    /\ IF buf.left > 0
       THEN /\ Write([op |-> "data",
                      arg |-> Slice(PartItem(part), buf.from, PieceLength)])
            /\ Advance
            /\ UNCHANGED <<sec, ip>>
       ELSE Goto("tplSum") /\ UNCHANGED <<out, buf>>
    /\ UNCHANGED <<setup, devVars, inn, faults, awaiting, payload, handle,
                   lastAddr, secure, sum, part>>

\* OKAY to mwrite: the partition is complete, its VERIFY item is looked up.
HostWritten ==
    /\ sec = "mwrite" /\ SectionOver
    /\ IF part \in setup.verify THEN Goto("verify") ELSE Goto("failed")
    /\ Local
    /\ UNCHANGED <<handle, lastAddr, secure, buf, sum, part>>

\* INFO: the hash is still being computed, read again.
HostBusy ==
    /\ sec = "verify" /\ awaiting /\ inn # <<>>
    /\ inn[1].header = "INFO"
    /\ inn' = <<>>
    /\ UNCHANGED <<setup, devVars, out, faults, sec, ip, awaiting, payload,
                   handle, lastAddr, secure, buf, sum, part>>

\* Mutant of HostVerified: the loop does not advance.
HostVerifiedAgain ==
    /\ sec = "verify" /\ SectionOver
    /\ Goto(NextPartition(part))
    /\ Local
    /\ UNCHANGED <<handle, lastAddr, secure, buf, sum, part>>

HostVerified ==
    /\ sec = "verify" /\ SectionOver
    /\ part' = part + 1
    /\ Goto(NextPartition(part + 1))
    /\ Local
    /\ UNCHANGED <<handle, lastAddr, secure, buf, sum>>

HostNext ==
    \/ HostSend \/ HostReceive \/ HostUnexpected \/ HostFind \/ HostProbed
    \/ HostNextSection \/ HostWaited \/ HostSecured \/ HostBl2 \/ HostCbw
    \/ HostPiece \/ HostDataOut \/ HostBlock \/ HostWritten \/ HostBusy
    \/ HostVerified \/ HostUsbError

Init == DevInit /\ HostInit

Next == HostNext \/ (DevNext /\ UNCHANGED hostVars)

Spec == Init /\ [][Next]_vars

\* The host is a running program; a healthy device answers every command
\* within the 5 s timeout, comes back on the bus after it left, and does not
\* answer INFO forever.
Fairness ==
    /\ WF_vars(HostNext)
    /\ WF_vars(DevStep /\ UNCHANGED hostVars)
    /\ SF_vars(DevVerified /\ UNCHANGED hostVars)

FairSpec == Spec /\ Fairness
=============================================================================
